----------------------------- MODULE MCStories -----------------------------
(***************************************************************************)
(* The web application for TLC.  Teams and charts have little to do with   *)
(* each other: a behaviour has either any projects and one developer, who  *)
(* is on no story, or one project, with a chart of one point, and any      *)
(* developers, two users of whom are logged in at a time.  It is followed  *)
(* as long as its property says something: of a crowded story and of a     *)
(* torn chart they say nothing, and they stay so.                          *)
(***************************************************************************)
EXTENDS StoryHistory, TLC

Sym == Permutations(Developers) \cup Permutations(Projects)
       \cup Permutations(Stories) \cup Permutations(Workers)

Used(name, table) == {id \in DOMAIN table : ~Fresh(name, table, id)}

\* Somebody belongs to project p, or is about to.
Named(p) ==
  \/ \E d \in Developers : devs[d].project = p
  \/ \E k \in Workers : \E i \in DOMAIN todo[k] :
       LET w == todo[k][i]
       IN  w.table = "devs" /\ "project" \in DOMAIN w.columns /\ w.columns.project = p

ForCharts ==
  /\ torn # Projects
  /\ Cardinality(Used("devs", devs)) <= 1
  /\ \A d \in Developers, s \in Stories :
       devs[d].story = None /\ \A k \in Workers : ~Takes(todo[k], d, s)

ForTeams ==
  /\ torn = {} /\ crowded # Stories
  /\ Cardinality(session) <= 2
  /\ \A p \in Projects : projects[p].points <= 1
  /\ \E p \in Projects : \A q \in Projects \ {p} : Fresh("projects", projects, q) /\ ~Named(q)

OneOfAKind == ForCharts \/ ForTeams
=============================================================================
