----------------------------- MODULE StoryBoard -----------------------------
(***************************************************************************)
(* The StoryBoards web application: the controllers of stories, projects,  *)
(* developers and sessions, and the filters every request goes through.    *)
(* A process of the server reads the database, decides, and then makes the *)
(* writes of the request one by one, in no transaction that spans them,    *)
(* while the other processes serve requests of the same and other users.   *)
(* Titles, stages and hours are left out: of a burndown chart only the     *)
(* number of points counts.                                                *)
(***************************************************************************)
EXTENDS Integers, Sequences, FiniteSets

CONSTANTS Projects, Stories, Developers,   \* ids; none is ever used again
          Admin,
          Workers,     \* the processes of the server
          None,        \* nil
          MaxPoints    \* bound on the points of a chart

ASSUME StoryAssumption ==
  /\ Admin \notin Developers /\ None \notin Stories \cup Projects
  /\ MaxPoints \in Nat \ {0}

Users == Developers \cup {Admin}

VARIABLES projects,    \* [Projects -> [row, points, btime]]
          stories,     \* [Stories -> [row, project]]
          devs,        \* [Developers -> [row, project, story]]
          session,     \* the users logged in
          todo         \* [Workers -> what is left of the request under way]

vars == <<projects, stories, devs, session, todo>>

\* A database with nothing in it but the admin.  A row is "new" before it is
\* inserted and "gone" once it is deleted.
StoryInit ==
  /\ projects = [p \in Projects |-> [row |-> "new", points |-> 0, btime |-> -1]]
  /\ stories = [s \in Stories |-> [row |-> "new", project |-> None]]
  /\ devs = [d \in Developers |-> [row |-> "new", project |-> None, story |-> None]]
  /\ session = {} /\ todo = [k \in Workers |-> <<>>]

There(t, id) == t[id].row = "there"

Team(s) == {d \in Developers : There(devs, d) /\ devs[d].story = s}

----------------------------------------------------------------------------
(* Requests                                                                *)

\* Somebody whose row is gone is not logged in any more.
LoggedIn(u) == u \in session /\ (u # Admin => There(devs, u))

\* setup raises, on every page, for a developer without a project.
SetUp(u) == u # Admin => devs[u].project \in Projects /\ There(projects, devs[u].project)

\* A process is free, and the filters let the user through.
Admitted(k, u) == todo[k] = <<>> /\ LoggedIn(u) /\ SetUp(u)

\* A request, which then does these writes.
Request(k, u, writes) ==
  /\ Admitted(k, u)
  /\ todo' = [todo EXCEPT ![k] = writes]
  /\ UNCHANGED <<projects, stories, devs, session>>

\* One statement: these columns of a row.
Write(table, id, columns) == [table |-> table, id |-> id, columns |-> columns]

\* An id that the database can give to the next row.
Fresh(name, table, id) ==
  /\ table[id].row = "new"
  /\ \A k \in Workers : \A i \in DOMAIN todo[k] :
       todo[k][i].table = name => todo[k][i].id # id

\* What a deleted row held is forgotten.
GoneStory   == [row |-> "gone", project |-> None]
GoneProject == [row |-> "gone", points |-> 0, btime |-> -1]
GoneDev     == [row |-> "gone", project |-> None, story |-> None]

\* The two updates after a story was saved, with what they add up to now.
\* Faulty variant: the time is left as it was.
Burndown_NoTime(p) ==
  <<Write("projects", p, [points |-> projects[p].points + 1])>>

Burndown(p) ==
  <<Write("projects", p, [points |-> projects[p].points + 1]),
    Write("projects", p, [btime |-> projects[p].btime + 1])>>

\* create
CreateStory(k, u) ==
  \E s \in Stories, p \in Projects :
    /\ Fresh("stories", stories, s) /\ There(projects, p)
    /\ projects[p].points < MaxPoints
    /\ Request(k, u, <<Write("stories", s, [row |-> "there", project |-> p])>>
                     \o Burndown(p))

\* update; on an empty chart it raises before anything is written.  The
\* point goes to the chart of the project the story was in.
UpdateStory(k, u) ==
  \E s \in Stories, p, q \in Projects :
    /\ There(stories, s) /\ stories[s].project = p
    /\ There(projects, p) /\ There(projects, q)
    /\ projects[p].points \in 1 .. MaxPoints - 1
    /\ \/ p = q /\ Request(k, u, Burndown(p))
       \/ p # q /\ Request(k, u, <<Write("stories", s, [project |-> q])>> \o Burndown(p))

\* destroy compares a number with a string: no developer is ever updated.
DestroyStory(k, u) ==
  \E s \in Stories :
    There(stories, s) /\ Request(k, u, <<Write("stories", s, GoneStory)>>)

TakeSeat(d, s) == Write("devs", d, [story |-> s])

\* Of the user only what has changed is written; an admin has no story and
\* the update raises.
Join(u, s) ==
  IF u = Admin \/ devs[u].story = s THEN <<>> ELSE <<TakeSeat(u, s)>>

\* Faulty variant: a third developer is let in.
SignUpFor_Three(k, u, s) ==
  /\ There(stories, s)
  /\ \/ /\ Cardinality(Team(s)) <= 2
        /\ Request(k, u, Join(u, s))
     \/ /\ Cardinality(Team(s)) > 2
        /\ \E d \in Team(s) : Request(k, u, <<TakeSeat(d, None)>> \o Join(u, s))

\* The developers are read, in no order, before the first write; one of the
\* first two has to go.
SignUpFor(k, u, s) ==
  /\ There(stories, s)
  /\ \/ /\ Cardinality(Team(s)) < 2
        /\ Request(k, u, Join(u, s))
     \/ /\ Cardinality(Team(s)) >= 2
        /\ \E d \in Team(s) : Request(k, u, <<TakeSeat(d, None)>> \o Join(u, s))

SignUp(k, u) == \E s \in Stories : SignUpFor(k, u, s)

CreateProject(k, u) ==
  \E p \in Projects :
    /\ Fresh("projects", projects, p)
    /\ Request(k, u, <<Write("projects", p, [row |-> "there"])>>)

\* An admin, or a developer of the project.
DestroyProject(k, u) ==
  \E p \in Projects :
    /\ There(projects, p)
    /\ u # Admin => devs[u].project = p
    /\ Request(k, u, <<Write("projects", p, GoneProject)>>)

\* create; any project and any story is accepted, or none.
CreateDeveloper(k, u) ==
  \E d \in Developers, p \in Projects \cup {None}, s \in Stories \cup {None} :
    /\ Fresh("devs", devs, d)
    /\ Request(k, u, <<Write("devs", d, [row |-> "there", project |-> p, story |-> s])>>)

\* update; again any, and only what has changed is written.
UpdateDeveloper(k, u) ==
  \E d \in Developers, p \in Projects \cup {None}, s \in Stories \cup {None} :
    LET sent    == [project |-> p, story |-> s]
        changed == {c \in {"project", "story"} : sent[c] # devs[d][c]}
    IN  /\ There(devs, d) /\ changed # {}
        /\ Request(k, u, <<Write("devs", d, [c \in changed |-> sent[c]])>>)

DestroyDeveloper(k, u) ==
  \E d \in Developers :
    There(devs, d) /\ Request(k, u, <<Write("devs", d, GoneDev)>>)

\* The e-mail address of a developer that exists, and his password.
Login(k, u) ==
  /\ todo[k] = <<>>
  /\ u \notin session /\ u # Admin => There(devs, u)
  /\ session' = session \cup {u}
  /\ UNCHANGED <<projects, stories, devs, todo>>

\* Also when the address has been changed.
Logout(k, u) ==
  /\ todo[k] = <<>>
  /\ u \in session /\ LoggedIn(u) => SetUp(u)
  /\ session' = session \ {u}
  /\ UNCHANGED <<projects, stories, devs, todo>>

----------------------------------------------------------------------------
(* What is left of a request                                               *)

Updated(row, columns) ==
  [c \in DOMAIN row |-> IF c \in DOMAIN columns THEN columns[c] ELSE row[c]]

\* A statement about a row that is gone changes nothing.
Written(name, table, w) ==
  IF w.table # name \/ table[w.id].row = "gone" THEN table
  ELSE [table EXCEPT ![w.id] = Updated(@, w.columns)]

DoWrite(k) ==
  /\ todo[k] # <<>>
  /\ LET w == Head(todo[k])
     IN  /\ projects' = Written("projects", projects, w)
         /\ stories'  = Written("stories", stories, w)
         /\ devs'     = Written("devs", devs, w)
  /\ todo' = [todo EXCEPT ![k] = Tail(@)]
  /\ UNCHANGED session

\* save validates the project of a story again: it has been deleted since.
SaveFails(k) ==
  /\ todo[k] # <<>>
  /\ LET w == Head(todo[k])
     IN  /\ w.table = "stories" /\ "project" \in DOMAIN w.columns
         /\ w.columns.project \in Projects /\ ~There(projects, w.columns.project)
  /\ todo' = [todo EXCEPT ![k] = <<>>]
  /\ UNCHANGED <<projects, stories, devs, session>>

\* The process is stopped, or the database refuses a statement.
Cut(k) ==
  /\ todo[k] # <<>>
  /\ todo' = [todo EXCEPT ![k] = <<>>]
  /\ UNCHANGED <<projects, stories, devs, session>>

----------------------------------------------------------------------------

FormStep ==
  \E k \in Workers, u \in Users :
    Admitted(k, u) /\ (CreateDeveloper(k, u) \/ UpdateDeveloper(k, u))

CutStep == \E k \in Workers : Cut(k)

OtherStep ==
  \E k \in Workers :
    \/ DoWrite(k) \/ SaveFails(k)
    \/ \E u \in Users :
         \/ CreateStory(k, u) \/ UpdateStory(k, u) \/ DestroyStory(k, u) \/ SignUp(k, u)
         \/ CreateProject(k, u) \/ DestroyProject(k, u) \/ DestroyDeveloper(k, u)
         \/ Login(k, u) \/ Logout(k, u)

StoryNext == FormStep \/ CutStep \/ OtherStep

StorySpec == StoryInit /\ [][StoryNext]_vars
=============================================================================
