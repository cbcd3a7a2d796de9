---------------------------- MODULE StoryHistory ----------------------------
(***************************************************************************)
(* What the requests of the web application have done to each other.  Two  *)
(* history variables record the only things that may bring a story a third *)
(* developer, or make the two columns of a burndown chart disagree; no     *)
(* step of the application depends on them.                                *)
(***************************************************************************)
EXTENDS StoryBoard

VARIABLES crowded,   \* stories two developers were signing up for at the same
                     \* time, or somebody was put on with the developer form
          torn       \* projects whose chart two requests had open at the same
                     \* time, or a request was cut short between its updates

historyVars == <<projects, stories, devs, session, todo, crowded, torn>>

\* A statement that puts developer d on story s, and one that updates the
\* chart of project p.
PutsOn(w, d, s) ==
  w.table = "devs" /\ w.id = d /\ "story" \in DOMAIN w.columns /\ w.columns.story = s

Plots(w, p) == w.table = "projects" /\ w.id = p /\ "row" \notin DOMAIN w.columns

\* The same of what is left of a request.
Takes(writes, d, s) == \E i \in DOMAIN writes : PutsOn(writes[i], d, s)

Charts(writes, p) == \E i \in DOMAIN writes : Plots(writes[i], p)

Contested(s) ==
  \E k, j \in Workers, d \in Developers :
    Takes(todo[k], d, s) /\ \E e \in Developers \ {d} : Takes(todo[j], e, s)

Overlapped(p) ==
  \E k, j \in Workers : k # j /\ Charts(todo[k], p) /\ Charts(todo[j], p)

\* One of the two updates is made and the other is not.
Halfway(k, p) == Charts(todo[k], p) /\ Len(todo[k]) = 1

HistoryInit == StoryInit /\ crowded = {} /\ torn = {}

HistoryNext ==
  \/ /\ FormStep
     /\ crowded' = crowded \cup
          {s \in Stories : \E k \in Workers, d \in Developers :
                             ~Takes(todo[k], d, s) /\ Takes(todo'[k], d, s)}
     /\ UNCHANGED torn
  \/ /\ CutStep
     /\ torn' = torn \cup {p \in Projects : \E k \in Workers :
                                               Halfway(k, p) /\ todo'[k] = <<>>}
     /\ UNCHANGED crowded
  \/ /\ OtherStep
     /\ crowded' = crowded \cup {s \in Stories : Contested(s)'}
     /\ torn' = torn \cup {p \in Projects : Overlapped(p)'}

HistorySpec == HistoryInit /\ [][HistoryNext]_historyVars

----------------------------------------------------------------------------

(***************************************************************************)
(* sign_up keeps a story to two developers, although it counts them before *)
(* it writes: only two sign-ups for the story that overlap, or the form of *)
(* a developer, bring it a third, whatever other requests are served in    *)
(* between, fail or are cut short.                                         *)
(***************************************************************************)
ThirdOnlyIfCrowded == \A s \in Stories : Cardinality(Team(s)) > 2 => s \in crowded

(***************************************************************************)
(* Unless somebody is about to update it, the time axis of a burndown      *)
(* chart ends at its last point, although they are two updates of values   *)
(* read before the story was saved: only two requests that have the same   *)
(* chart open, or one cut short in between, leave it out of step.          *)
(***************************************************************************)
ChartInStepUnlessTorn ==
  \A p \in Projects :
    \/ p \in torn \/ \E k \in Workers : Charts(todo[k], p)
    \/ projects[p].btime = projects[p].points - 1
=============================================================================
