-------------------------- MODULE StoryBoard_proof --------------------------
(***************************************************************************)
(* The web application for any projects, stories, developers and processes *)
(* of the server, and any interleaving of their requests: a story gets a   *)
(* third developer only if it is crowded, and a chart that is not torn is  *)
(* in step whenever nobody is about to update it.                          *)
(*                                                                         *)
(* Neither is inductive: what a request is about to write was decided from *)
(* what it read before other requests wrote.  The strengthening says, for  *)
(* each request, what is still true of the database now of what it has     *)
(* left to write: there is room for who signs up, even after the one he    *)
(* replaces has moved on, and the point and the time it will write are     *)
(* the next ones of the chart.                                             *)
(***************************************************************************)
EXTENDS StoryHistory, FiniteSetTheorems, SequenceTheorems, TLAPS

\* A new row of a developer has a story, and only an insert or a delete
\* touches the row of a project other than for its chart.
Proper(w) ==
  /\ (w.table = "devs" /\ "row" \in DOMAIN w.columns) => "story" \in DOMAIN w.columns
  /\ (w.table = "projects" /\ "row" \in DOMAIN w.columns)
       => w.columns = [row |-> "there"] \/ w.columns = GoneProject

Listed(l) == \E S : l \in Seq(S) /\ \A w \in S : Proper(w)

StoryTypes ==
  /\ projects = [p \in Projects |-> projects[p]]
  /\ \A p \in Projects : DOMAIN projects[p] = {"row", "points", "btime"}
  /\ devs = [d \in Developers |-> devs[d]]
  /\ \A d \in Developers : DOMAIN devs[d] = {"row", "project", "story"}
  /\ todo = [k \in Workers |-> todo[k]]
  /\ \A k \in Workers : Listed(todo[k])

----------------------------------------------------------------------------
(* A story that is not crowded.                                            *)

AtMost(S, n) == IsFiniteSet(S) /\ Cardinality(S) <= n

\* There is room on story s for developer u, who is about to be put there.
Room(l, u, s) ==
  \/ l = << TakeSeat(u, s) >> /\ AtMost(Team(s) \ {u}, 1)
  \/ \E d \in Developers : /\ l = << TakeSeat(d, None), TakeSeat(u, s) >>
                           /\ AtMost(Team(s) \ {d, u}, 1)

TeamInv(s) ==
  /\ AtMost(Team(s), 2)
  /\ ~Contested(s)
  /\ \A k \in Workers, u \in Developers : Takes(todo[k], u, s) => Room(todo[k], u, s)

----------------------------------------------------------------------------
(* A chart that is not torn.                                               *)

InStep(p) == projects[p].btime = projects[p].points - 1

\* The two updates that bring chart p from n points to the next.
Chart(p, n) ==
  << Write("projects", p, [points |-> n + 1]), Write("projects", p, [btime |-> n]) >>

\* Before the point, and between the point and its time.
Before(l, p, n) ==
  /\ l = Chart(p, n) \/ \E w : w.table = "stories" /\ l = << w >> \o Chart(p, n)
  /\ projects[p].row = "gone" \/ (projects[p].points = n /\ projects[p].btime = n - 1)

Between(l, p, n) ==
  /\ l = << Write("projects", p, [btime |-> n]) >>
  /\ projects[p].row = "gone" \/ projects[p].points = n + 1

Owed(l, p) == \E n \in Int : Before(l, p, n) \/ Between(l, p, n)

ChartInv(p) ==
  /\ projects[p].points \in Int
  /\ ~Overlapped(p)
  /\ projects[p].row = "gone" => InStep(p)
  /\ (\A k \in Workers : ~Charts(todo[k], p)) => InStep(p)
  /\ \A k \in Workers : Charts(todo[k], p) => Owed(todo[k], p)

StoryInv ==
  /\ StoryTypes
  /\ \A s \in Stories \ crowded : TeamInv(s)
  /\ \A p \in Projects \ torn : ChartInv(p)

----------------------------------------------------------------------------
(* The lists of writes that requests make.                                 *)

LEMMA ListOfTwo ==
  ASSUME NEW a, NEW b
  PROVE  << a >> \o << b >> = << a, b >>
<1> DEFINE S == {a, b}
           t == << a >> \o << b >>
           r == << a, b >>
<1>1. << a >> \in Seq(S) /\ << b >> \in Seq(S) /\ Len(<< a >>) = 1 /\ Len(<< b >>) = 1
  OBVIOUS
<1>2. /\ t \in Seq(S) /\ Len(t) = 2
      /\ \A i \in 1 .. 2 : t[i] = IF i <= 1 THEN << a >>[i] ELSE << b >>[i - 1]
  BY <1>1, ConcatProperties
<1>3. r \in Seq(S) /\ Len(r) = 2
  OBVIOUS
<1>4. t[1] = a /\ t[2] = b
  BY <1>2
<1>5. \A i \in 1 .. Len(t) : t[i] = r[i]
  BY <1>2, <1>4, 1 .. 2 = {1, 2}
<1> HIDE DEF t, r
<1>6. t = r
  BY <1>2, <1>3, <1>5, SeqEqual
<1>7. QED BY <1>6 DEF t, r

LEMMA ListOfThree ==
  ASSUME NEW a, NEW b, NEW c
  PROVE  << a >> \o << b, c >> = << a, b, c >>
<1> DEFINE S == {a, b, c}
           t == << a >> \o << b, c >>
           r == << a, b, c >>
<1>1. << a >> \in Seq(S) /\ << b, c >> \in Seq(S) /\ Len(<< a >>) = 1 /\ Len(<< b, c >>) = 2
  OBVIOUS
<1>2. /\ t \in Seq(S) /\ Len(t) = 3
      /\ \A i \in 1 .. 3 : t[i] = IF i <= 1 THEN << a >>[i] ELSE << b, c >>[i - 1]
  BY <1>1, ConcatProperties
<1>3. r \in Seq(S) /\ Len(r) = 3
  OBVIOUS
<1>4. t[1] = a /\ t[2] = b /\ t[3] = c
  BY <1>2
<1>5. \A i \in 1 .. Len(t) : t[i] = r[i]
  BY <1>2, <1>4, 1 .. 3 = {1, 2, 3}
<1> HIDE DEF t, r
<1>6. t = r
  BY <1>2, <1>3, <1>5, SeqEqual
<1>7. QED BY <1>6 DEF t, r

LEMMA ListOfOne ==
  ASSUME NEW a
  PROVE  << a >> \o <<>> = << a >>
<1>1. << a >> \in Seq({a})
  OBVIOUS
<1>2. QED BY <1>1, ConcatEmptySeq

LEMMA HeadsAndTails ==
  ASSUME NEW a, NEW b, NEW c
  PROVE  /\ Head(<< a >>) = a /\ Tail(<< a >>) = <<>> /\ << a >> # <<>>
         /\ Head(<< a, b >>) = a /\ Tail(<< a, b >>) = << b >> /\ << a, b >> # <<>>
         /\ Head(<< a, b, c >>) = a /\ Tail(<< a, b, c >>) = << b, c >>
         /\ << a, b, c >> # <<>>
  OBVIOUS

LEMMA WriteFields ==
  ASSUME NEW t, NEW i, NEW c
  PROVE  /\ Write(t, i, c).table = t /\ Write(t, i, c).id = i
         /\ Write(t, i, c).columns = c
  BY DEF Write

LEMMA ListedIn ==
  ASSUME NEW l, NEW S, l \in Seq(S), \A w \in S : Proper(w)
  PROVE  Listed(l)
<1>1. \E T : l \in Seq(T) /\ \A w \in T : Proper(w)
  <2> WITNESS S
  <2>1. QED OBVIOUS
<1>2. QED BY <1>1 DEF Listed

LEMMA ListedLists ==
  /\ Listed(<<>>)
  /\ \A a : Proper(a) => Listed(<< a >>)
  /\ \A a, b : Proper(a) /\ Proper(b) => Listed(<< a, b >>)
  /\ \A a, b, c : Proper(a) /\ Proper(b) /\ Proper(c) => Listed(<< a, b, c >>)
<1>1. Listed(<<>>)
  <2>1. PICK l, S : l = <<>> /\ S = {}
    OBVIOUS
  <2>2. l \in Seq(S) /\ \A w \in S : Proper(w)
    BY <2>1
  <2>3. Listed(l)
    BY <2>2, ListedIn
  <2>4. QED BY <2>1, <2>3
<1>2. ASSUME NEW a, Proper(a)
      PROVE  Listed(<< a >>)
  <2>1. PICK l, S : l = << a >> /\ S = {a}
    OBVIOUS
  <2>2. l \in Seq(S) /\ \A w \in S : Proper(w)
    BY <2>1, <1>2
  <2>3. Listed(l)
    BY <2>2, ListedIn
  <2>4. QED BY <2>1, <2>3
<1>3. ASSUME NEW a, NEW b, Proper(a), Proper(b)
      PROVE  Listed(<< a, b >>)
  <2>1. PICK l, S : l = << a, b >> /\ S = {a, b}
    OBVIOUS
  <2>2. l \in Seq(S) /\ \A w \in S : Proper(w)
    BY <2>1, <1>3
  <2>3. Listed(l)
    BY <2>2, ListedIn
  <2>4. QED BY <2>1, <2>3
<1>4. ASSUME NEW a, NEW b, NEW c, Proper(a), Proper(b), Proper(c)
      PROVE  Listed(<< a, b, c >>)
  <2>1. PICK l, S : l = << a, b, c >> /\ S = {a, b, c}
    OBVIOUS
  <2>2. l \in Seq(S) /\ \A w \in S : Proper(w)
    BY <2>1, <1>4
  <2>3. Listed(l)
    BY <2>2, ListedIn
  <2>4. QED BY <2>1, <2>3
<1>5. QED BY <1>1, <1>2, <1>3, <1>4

\* What a list of one, two or three statements is about to do.
LEMMA TakesAndCharts ==
  ASSUME NEW x, NEW y
  PROVE  /\ ~Takes(<<>>, x, y) /\ ~Charts(<<>>, x)
         /\ \A a : /\ Takes(<< a >>, x, y) <=> PutsOn(a, x, y)
                   /\ Charts(<< a >>, x) <=> Plots(a, x)
         /\ \A a, b : /\ Takes(<< a, b >>, x, y) <=> (PutsOn(a, x, y) \/ PutsOn(b, x, y))
                      /\ Charts(<< a, b >>, x) <=> (Plots(a, x) \/ Plots(b, x))
         /\ \A a, b, c : /\ Takes(<< a, b, c >>, x, y)
                              <=> (PutsOn(a, x, y) \/ PutsOn(b, x, y) \/ PutsOn(c, x, y))
                         /\ Charts(<< a, b, c >>, x)
                              <=> (Plots(a, x) \/ Plots(b, x) \/ Plots(c, x))
<1>1. ~Takes(<<>>, x, y) /\ ~Charts(<<>>, x)
  BY DEF Takes, Charts
<1>2. ASSUME NEW a
      PROVE  /\ Takes(<< a >>, x, y) <=> PutsOn(a, x, y)
             /\ Charts(<< a >>, x) <=> Plots(a, x)
  <2>1. DOMAIN << a >> = {1} /\ << a >>[1] = a
    OBVIOUS
  <2>2. QED BY <2>1 DEF Takes, Charts
<1>3. ASSUME NEW a, NEW b
      PROVE  /\ Takes(<< a, b >>, x, y) <=> (PutsOn(a, x, y) \/ PutsOn(b, x, y))
             /\ Charts(<< a, b >>, x) <=> (Plots(a, x) \/ Plots(b, x))
  <2>1. DOMAIN << a, b >> = {1, 2} /\ << a, b >>[1] = a /\ << a, b >>[2] = b
    OBVIOUS
  <2>2. QED BY <2>1 DEF Takes, Charts
<1>4. ASSUME NEW a, NEW b, NEW c
      PROVE  /\ Takes(<< a, b, c >>, x, y)
                  <=> (PutsOn(a, x, y) \/ PutsOn(b, x, y) \/ PutsOn(c, x, y))
             /\ Charts(<< a, b, c >>, x) <=> (Plots(a, x) \/ Plots(b, x) \/ Plots(c, x))
  <2>1. /\ DOMAIN << a, b, c >> = {1, 2, 3}
        /\ << a, b, c >>[1] = a /\ << a, b, c >>[2] = b /\ << a, b, c >>[3] = c
    OBVIOUS
  <2>2. QED BY <2>1 DEF Takes, Charts
<1>5. QED BY <1>1, <1>2, <1>3, <1>4

\* The first statement is proper, and what follows it is a list again, about
\* to do no more than the whole.
LEMMA HeadTail ==
  ASSUME NEW l, Listed(l), l # <<>>
  PROVE  /\ Proper(Head(l)) /\ Listed(Tail(l))
         /\ \A x, y : /\ Takes(Tail(l), x, y) => Takes(l, x, y)
                      /\ PutsOn(Head(l), x, y) => Takes(l, x, y)
         /\ \A x : /\ Charts(Tail(l), x) => Charts(l, x)
                   /\ Plots(Head(l), x) => Charts(l, x)
<1>1. PICK S : l \in Seq(S) /\ \A w \in S : Proper(w)
  BY DEF Listed
<1>2. /\ Len(l) \in Nat /\ Len(l) > 0 /\ DOMAIN l = 1 .. Len(l)
      /\ Head(l) = l[1] /\ 1 \in DOMAIN l /\ l[1] \in S
      /\ Tail(l) \in Seq(S) /\ DOMAIN Tail(l) = 1 .. Len(l) - 1
      /\ \A i \in 1 .. Len(l) - 1 : Tail(l)[i] = l[i + 1] /\ i + 1 \in DOMAIN l
  BY <1>1
<1>3. Proper(Head(l)) /\ Listed(Tail(l))
  BY <1>1, <1>2 DEF Listed
<1>4. ASSUME NEW i \in DOMAIN Tail(l)
      PROVE  \E j \in DOMAIN l : l[j] = Tail(l)[i]
  BY <1>2
<1>5. ASSUME NEW x, NEW y
      PROVE  /\ Takes(Tail(l), x, y) => Takes(l, x, y)
             /\ PutsOn(Head(l), x, y) => Takes(l, x, y)
  BY <1>2, <1>4 DEF Takes
<1>6. ASSUME NEW x
      PROVE  /\ Charts(Tail(l), x) => Charts(l, x)
             /\ Plots(Head(l), x) => Charts(l, x)
  BY <1>2, <1>4 DEF Charts
<1>7. QED BY <1>3, <1>5, <1>6

----------------------------------------------------------------------------
(* Small sets.                                                             *)

LEMMA FewerAreFew ==
  ASSUME NEW S, NEW T, NEW n \in Nat, AtMost(T, n), S \subseteq T
  PROVE  AtMost(S, n)
<1>1. IsFiniteSet(T) /\ Cardinality(T) <= n
  BY DEF AtMost
<1>2. IsFiniteSet(S) /\ Cardinality(S) <= Cardinality(T)
  BY <1>1, FS_Subset
<1>3. Cardinality(S) \in Nat /\ Cardinality(T) \in Nat
  BY <1>1, <1>2, FS_CardinalityType
<1>4. QED BY <1>1, <1>2, <1>3 DEF AtMost

LEMMA OneMore ==
  ASSUME NEW S, NEW T, NEW u, AtMost(T, 1), S \subseteq T \cup {u}
  PROVE  AtMost(S, 2)
<1>1. IsFiniteSet(T) /\ Cardinality(T) <= 1 /\ Cardinality(T) \in Nat
  BY FS_CardinalityType DEF AtMost
<1>2. /\ IsFiniteSet(T \cup {u})
      /\ Cardinality(T \cup {u}) = Cardinality(T) \/ Cardinality(T \cup {u}) = Cardinality(T) + 1
  BY <1>1, FS_AddElement
<1>3. AtMost(T \cup {u}, 2)
  BY <1>1, <1>2 DEF AtMost
<1>4. QED BY <1>3, FewerAreFew

LEMMA OneLess ==
  ASSUME NEW S, NEW T, NEW d, AtMost(T, 2), d \in T, S \subseteq T \ {d}
  PROVE  AtMost(S, 1)
<1>1. IsFiniteSet(T) /\ Cardinality(T) <= 2 /\ Cardinality(T) \in Nat
  BY FS_CardinalityType DEF AtMost
<1>2. IsFiniteSet(T \ {d}) /\ Cardinality(T \ {d}) = Cardinality(T) - 1
  BY <1>1, FS_RemoveElement
<1>3. AtMost(T \ {d}, 1)
  BY <1>1, <1>2 DEF AtMost
<1>4. QED BY <1>3, FewerAreFew

----------------------------------------------------------------------------
(* A request begins, fails or is cut short: only what is left to write     *)
(* changes.                                                                *)

LEMMA TeamSame ==
  ASSUME devs' = devs
  PROVE  \A s : Team(s)' = Team(s)
  BY DEF Team, There

LEMMA RoomKept ==
  ASSUME NEW l, NEW u, NEW s, Team(s)' \subseteq Team(s), Room(l, u, s)
  PROVE  Room(l, u, s)'
<1>1. CASE l = << TakeSeat(u, s) >> /\ AtMost(Team(s) \ {u}, 1)
  <2>1. Team(s)' \ {u} \subseteq Team(s) \ {u}
    OBVIOUS
  <2>2. AtMost(Team(s)' \ {u}, 1)
    BY <1>1, <2>1, FewerAreFew
  <2>3. QED BY <1>1, <2>2 DEF Room, TakeSeat, Write
<1>2. ASSUME NEW d \in Developers, l = << TakeSeat(d, None), TakeSeat(u, s) >>,
             AtMost(Team(s) \ {d, u}, 1)
      PROVE  Room(l, u, s)'
  <2>1. Team(s)' \ {d, u} \subseteq Team(s) \ {d, u}
    OBVIOUS
  <2>2. AtMost(Team(s)' \ {d, u}, 1)
    BY <1>2, <2>1, FewerAreFew
  <2>3. QED BY <1>2, <2>2 DEF Room, TakeSeat, Write
<1>3. QED BY <1>1, <1>2 DEF Room

LEMMA OwedSame ==
  ASSUME projects' = projects
  PROVE  \A l, p : (Owed(l, p)' <=> Owed(l, p)) /\ (InStep(p)' <=> InStep(p))
  BY DEF Owed, Before, Between, Chart, Write, InStep

LEMMA TodoSet ==
  ASSUME StoryInv, NEW k \in Workers, NEW l, Listed(l),
         projects' = projects, devs' = devs, todo' = [todo EXCEPT ![k] = l],
         crowded \subseteq crowded', torn \subseteq torn',
         \A s \in Stories \ crowded' :
           /\ ~Contested(s)'
           /\ \A u \in Developers : Takes(l, u, s) => Room(l, u, s),
         \A p \in Projects \ torn' :
           /\ ~Overlapped(p)'
           /\ Charts(l, p) => Owed(l, p)
           /\ (~Charts(l, p) /\ Charts(todo[k], p)) => InStep(p)
  PROVE  StoryInv'
<1>1. StoryTypes
  BY DEF StoryInv
<1>2. todo' = [j \in Workers |-> IF j = k THEN l ELSE todo[j]]
  BY <1>1 DEF StoryTypes
<1>3. StoryTypes'
  BY <1>1, <1>2 DEF StoryTypes
<1>4. ASSUME NEW s \in Stories \ crowded' PROVE TeamInv(s)'
  <2>1. TeamInv(s)
    BY <1>4 DEF StoryInv
  <2>2. Team(s)' = Team(s)
    BY TeamSame
  <2>3. AtMost(Team(s), 2)'
    BY <2>1, <2>2 DEF TeamInv, AtMost
  <2>4. ASSUME NEW j \in Workers, NEW u \in Developers, Takes(todo'[j], u, s)
        PROVE  Room(todo[j], u, s)'
    <3>1. Room(todo'[j], u, s)
      BY <1>2, <2>1, <2>4 DEF TeamInv
    <3>2. PICK m : m = todo'[j]
      OBVIOUS
    <3>3. Room(m, u, s)
      BY <3>1, <3>2
    <3>4. Room(m, u, s)'
      BY <2>2, <3>3, RoomKept
    <3>5. QED BY <3>2, <3>4
  <2>5. (\A j \in Workers, u \in Developers : Takes(todo[j], u, s) => Room(todo[j], u, s))'
    BY <2>4
  <2>6. QED BY <1>4, <2>3, <2>5 DEF TeamInv
<1>5. ASSUME NEW p \in Projects \ torn' PROVE ChartInv(p)'
  <2>1. ChartInv(p)
    BY <1>5 DEF StoryInv
  <2>2. (projects[p].points \in Int /\ (projects[p].row = "gone" => InStep(p)))'
    BY <2>1 DEF ChartInv, InStep
  <2>3. ASSUME \A j \in Workers : ~Charts(todo'[j], p) PROVE InStep(p)'
    <3>1. InStep(p)
      <4>1. CASE Charts(todo[k], p)
        BY <1>2, <2>3, <4>1
      <4>2. CASE ~Charts(todo[k], p)
        BY <1>2, <2>1, <2>3, <4>2 DEF ChartInv
      <4>3. QED BY <4>1, <4>2
    <3>2. QED BY <3>1, OwedSame
  <2>4. ASSUME NEW j \in Workers, Charts(todo'[j], p) PROVE Owed(todo[j], p)'
    <3>1. Owed(todo'[j], p)
      BY <1>2, <2>1, <2>4 DEF ChartInv
    <3>2. PICK m : m = todo'[j]
      OBVIOUS
    <3>3. Owed(m, p)
      BY <3>1, <3>2
    <3>4. Owed(m, p)'
      BY <3>3, OwedSame
    <3>5. QED BY <3>2, <3>4
  <2>5. /\ ((\A j \in Workers : ~Charts(todo[j], p)) => InStep(p))'
        /\ (\A j \in Workers : Charts(todo[j], p) => Owed(todo[j], p))'
    BY <2>3, <2>4
  <2>6. QED BY <1>5, <2>2, <2>5 DEF ChartInv
<1>6. QED BY <1>3, <1>4, <1>5 DEF StoryInv

\* What the histories record in a step that is no form and no cut.
Recorded ==
  /\ crowded' = crowded \cup {s \in Stories : Contested(s)'}
  /\ torn' = torn \cup {p \in Projects : Overlapped(p)'}

LEMMA RequestKeeps ==
  ASSUME StoryInv, Recorded, NEW k \in Workers, NEW u, NEW l, Request(k, u, l), Listed(l),
         \A s \in Stories \ crowded, d \in Developers : Takes(l, d, s) => Room(l, d, s),
         \A p \in Projects \ torn :
           ((\A j \in Workers : ~Charts(todo[j], p)) /\ Charts(l, p)) => Owed(l, p)
  PROVE  StoryInv'
<1>1. /\ todo[k] = <<>> /\ todo' = [todo EXCEPT ![k] = l]
      /\ projects' = projects /\ devs' = devs
  BY DEF Request, Admitted
<1>2. todo' = [j \in Workers |-> IF j = k THEN l ELSE todo[j]]
  BY <1>1 DEF StoryInv, StoryTypes
<1>3. crowded \subseteq crowded' /\ torn \subseteq torn'
  BY DEF Recorded
<1>4. ASSUME NEW s \in Stories \ crowded'
      PROVE  /\ ~Contested(s)'
             /\ \A d \in Developers : Takes(l, d, s) => Room(l, d, s)
  BY <1>3 DEF Recorded
<1>5. ASSUME NEW p \in Projects \ torn'
      PROVE  /\ ~Overlapped(p)'
             /\ Charts(l, p) => Owed(l, p)
             /\ (~Charts(l, p) /\ Charts(todo[k], p)) => InStep(p)
  <2>1. ~Overlapped(p)' /\ p \in Projects \ torn
    BY <1>3 DEF Recorded
  <2>2. ~Charts(todo[k], p)
    BY <1>1, TakesAndCharts
  <2>3. ASSUME Charts(l, p) PROVE Owed(l, p)
    <3>1. ASSUME NEW j \in Workers, j # k PROVE ~Charts(todo[j], p)
      <4>1. todo'[j] = todo[j] /\ todo'[k] = l
        BY <1>2, <3>1
      <4>2. ~Charts(todo'[j], p)
        BY <2>1, <2>3, <3>1, <4>1 DEF Overlapped
      <4>3. QED BY <4>1, <4>2
    <3>2. \A j \in Workers : ~Charts(todo[j], p)
      BY <2>2, <3>1
    <3>3. QED BY <2>1, <2>3, <3>2
  <2>4. QED BY <2>1, <2>2, <2>3
<1>6. QED BY <1>1, <1>3, <1>4, <1>5, TodoSet

\* A list that puts nobody on a story and updates no chart.
LEMMA QuietKeeps ==
  ASSUME StoryInv, Recorded, NEW k \in Workers, NEW u, NEW l, Request(k, u, l), Listed(l),
         \A s \in Stories, d \in Developers : ~Takes(l, d, s),
         \A p \in Projects : ~Charts(l, p)
  PROVE  StoryInv'
  BY RequestKeeps

----------------------------------------------------------------------------
(* The requests.                                                           *)

LEMMA BurndownOwed ==
  ASSUME StoryInv, NEW p \in Projects \ torn, \A j \in Workers : ~Charts(todo[j], p),
         NEW l, l = Burndown(p) \/ \E w : w.table = "stories" /\ l = << w >> \o Burndown(p)
  PROVE  Owed(l, p)
<1>1. ChartInv(p)
  BY DEF StoryInv
<1>2. PICK n \in Int : projects[p].points = n /\ projects[p].btime = n - 1
  BY <1>1 DEF ChartInv, InStep
<1>3. projects[p].btime + 1 = n
  BY <1>2
<1>4. Burndown(p) = Chart(p, n)
  BY <1>2, <1>3 DEF Burndown, Chart
<1>5. Before(l, p, n)
  BY <1>2, <1>4 DEF Before
<1>6. QED BY <1>5 DEF Owed

\* The two updates of a chart, alone or after a story is saved.
LEMMA BurndownList ==
  ASSUME NEW p \in Projects, NEW l,
         \/ l = Burndown(p)
         \/ \E w : w.table = "stories" /\ l = << w >> \o Burndown(p)
  PROVE  /\ Listed(l)
         /\ \A d, s : ~Takes(l, d, s)
         /\ \A q : Charts(l, q) => q = p
<1>1. PICK a, b : /\ a = Write("projects", p, [points |-> projects[p].points + 1])
                  /\ b = Write("projects", p, [btime |-> projects[p].btime + 1])
  OBVIOUS
<1>2. Burndown(p) = << a, b >>
  BY <1>1 DEF Burndown
<1>3. /\ a.table = "projects" /\ a.id = p /\ "row" \notin DOMAIN a.columns
      /\ b.table = "projects" /\ b.id = p /\ "row" \notin DOMAIN b.columns
  BY <1>1 DEF Write
<1>4. Proper(a) /\ Proper(b)
  BY <1>3 DEF Proper
<1>5. /\ \A d, s : ~PutsOn(a, d, s) /\ ~PutsOn(b, d, s)
      /\ \A q : Plots(a, q) \/ Plots(b, q) => q = p
  BY <1>3 DEF PutsOn, Plots
<1>6. CASE l = << a, b >>
  <2>1. Listed(l)
    BY <1>4, <1>6, ListedLists
  <2>2. \A d, s : ~Takes(l, d, s)
    BY <1>5, <1>6, TakesAndCharts
  <2>3. \A q : Charts(l, q) => q = p
    BY <1>5, <1>6, TakesAndCharts
  <2>4. QED BY <2>1, <2>2, <2>3
<1>7. ASSUME NEW w, w.table = "stories", l = << w >> \o << a, b >>
      PROVE  /\ Listed(l)
             /\ \A d, s : ~Takes(l, d, s)
             /\ \A q : Charts(l, q) => q = p
  <2>1. l = << w, a, b >>
    BY <1>7, ListOfThree
  <2>2. Proper(w) /\ (\A d, s : ~PutsOn(w, d, s)) /\ (\A q : ~Plots(w, q))
    BY <1>7 DEF Proper, PutsOn, Plots
  <2>3. Listed(l)
    BY <1>4, <2>1, <2>2, ListedLists
  <2>4. \A d, s : ~Takes(l, d, s)
    BY <1>5, <2>1, <2>2, TakesAndCharts
  <2>5. \A q : Charts(l, q) => q = p
    BY <1>5, <2>1, <2>2, TakesAndCharts
  <2>6. QED BY <2>3, <2>4, <2>5
<1>8. QED BY <1>2, <1>6, <1>7

LEMMA SavingKeeps ==
  ASSUME StoryInv, Recorded, NEW k \in Workers, NEW u, NEW p \in Projects, NEW l,
         \/ l = Burndown(p)
         \/ \E w : w.table = "stories" /\ l = << w >> \o Burndown(p),
         Request(k, u, l)
  PROVE  StoryInv'
<1>1. /\ Listed(l)
      /\ \A d, s : ~Takes(l, d, s)
      /\ \A q : Charts(l, q) => q = p
  BY BurndownList
<1>2. ASSUME NEW q \in Projects \ torn, \A j \in Workers : ~Charts(todo[j], q), Charts(l, q)
      PROVE  Owed(l, q)
  <2>1. q = p
    BY <1>1, <1>2
  <2>2. QED BY <1>2, <2>1, BurndownOwed
<1>3. QED BY <1>1, <1>2, RequestKeeps

\* A single statement that neither puts anybody on a story nor plots.
LEMMA LoneKeeps ==
  ASSUME StoryInv, Recorded, NEW k \in Workers, NEW u, NEW w, Proper(w),
         \A s \in Stories, d \in Developers : ~PutsOn(w, d, s),
         \A p \in Projects : ~Plots(w, p),
         Request(k, u, << w >>)
  PROVE  StoryInv'
<1>1. PICK l : l = << w >>
  OBVIOUS
<1>2. Listed(l) /\ Request(k, u, l)
  BY <1>1, ListedLists
<1>3. /\ \A s \in Stories, d \in Developers : ~Takes(l, d, s)
      /\ \A p \in Projects : ~Charts(l, p)
  BY <1>1, TakesAndCharts
<1>4. QED BY <1>2, <1>3, QuietKeeps

LEMMA StoryRequestsKeep ==
  ASSUME StoryInv, Recorded, NEW k \in Workers, NEW u \in Users,
         CreateStory(k, u) \/ UpdateStory(k, u) \/ DestroyStory(k, u)
  PROVE  StoryInv'
<1>1. CASE CreateStory(k, u)
  <2>1. PICK s \in Stories, p \in Projects :
          Request(k, u, << Write("stories", s, [row |-> "there", project |-> p]) >>
                        \o Burndown(p))
    BY <1>1 DEF CreateStory
  <2>2. PICK w, l : /\ w = Write("stories", s, [row |-> "there", project |-> p])
                    /\ l = << w >> \o Burndown(p)
    OBVIOUS
  <2>3. w.table = "stories" /\ Request(k, u, l)
    BY <2>1, <2>2, WriteFields
  <2>4. QED BY <2>2, <2>3, SavingKeeps
<1>2. CASE UpdateStory(k, u)
  <2>1. PICK s \in Stories, p \in Projects, q \in Projects :
          \/ Request(k, u, Burndown(p))
          \/ Request(k, u, << Write("stories", s, [project |-> q]) >> \o Burndown(p))
    BY <1>2 DEF UpdateStory
  <2>2. PICK w, l, m : /\ w = Write("stories", s, [project |-> q])
                       /\ l = << w >> \o Burndown(p) /\ m = Burndown(p)
    OBVIOUS
  <2>3. w.table = "stories" /\ (Request(k, u, m) \/ Request(k, u, l))
    BY <2>1, <2>2, WriteFields
  <2>4. CASE Request(k, u, m)
    BY <2>2, <2>4, SavingKeeps
  <2>5. CASE Request(k, u, l)
    BY <2>2, <2>3, <2>5, SavingKeeps
  <2>6. QED BY <2>3, <2>4, <2>5
<1>3. CASE DestroyStory(k, u)
  <2>1. PICK s \in Stories : Request(k, u, << Write("stories", s, GoneStory) >>)
    BY <1>3 DEF DestroyStory
  <2>2. PICK w : w = Write("stories", s, GoneStory)
    OBVIOUS
  <2>3. w.table = "stories" /\ Request(k, u, << w >>)
    BY <2>1, <2>2, WriteFields
  <2>4. /\ Proper(w)
        /\ \A t, d : ~PutsOn(w, d, t)
        /\ \A p : ~Plots(w, p)
    BY <2>3 DEF Proper, PutsOn, Plots
  <2>5. QED BY <2>3, <2>4, LoneKeeps
<1>4. QED BY <1>1, <1>2, <1>3

LEMMA ProjectRequestsKeep ==
  ASSUME StoryInv, Recorded, NEW k \in Workers, NEW u \in Users,
         CreateProject(k, u) \/ DestroyProject(k, u)
  PROVE  StoryInv'
<1>1. PICK p, w :
        /\ \/ w = Write("projects", p, [row |-> "there"])
           \/ w = Write("projects", p, GoneProject)
        /\ Request(k, u, << w >>)
  BY DEF CreateProject, DestroyProject
<1>2. /\ w.table = "projects"
      /\ w.columns = [row |-> "there"] \/ w.columns = GoneProject
  BY <1>1, WriteFields
<1>3. "row" \in DOMAIN w.columns
  BY <1>2 DEF GoneProject
<1>4. /\ Proper(w)
      /\ \A t, d : ~PutsOn(w, d, t)
      /\ \A q : ~Plots(w, q)
  BY <1>2, <1>3 DEF Proper, PutsOn, Plots
<1>5. QED BY <1>1, <1>4, LoneKeeps

LEMMA DestroyDeveloperKeeps ==
  ASSUME StoryInv, Recorded, NEW k \in Workers, NEW u \in Users, DestroyDeveloper(k, u)
  PROVE  StoryInv'
<1>1. PICK d \in Developers : Request(k, u, << Write("devs", d, GoneDev) >>)
  BY DEF DestroyDeveloper
<1>2. PICK w : w = Write("devs", d, GoneDev)
  OBVIOUS
<1>3. w.table = "devs" /\ w.columns = GoneDev /\ Request(k, u, << w >>)
  BY <1>1, <1>2, WriteFields
<1>4. "story" \in DOMAIN w.columns /\ w.columns.story = None
  BY <1>3 DEF GoneDev
<1>5. /\ Proper(w)
      /\ \A s \in Stories, e \in Developers : ~PutsOn(w, e, s)
      /\ \A p : ~Plots(w, p)
  BY <1>3, <1>4, StoryAssumption DEF Proper, PutsOn, Plots
<1>6. QED BY <1>3, <1>5, LoneKeeps

\* A statement that puts a developer on a story, or takes him off.
LEMMA SeatFacts ==
  ASSUME NEW d, NEW s
  PROVE  /\ Proper(TakeSeat(d, s))
         /\ \A e, t : PutsOn(TakeSeat(d, s), e, t) <=> (e = d /\ t = s)
         /\ \A p : ~Plots(TakeSeat(d, s), p)
<1>1. PICK w : w = TakeSeat(d, s)
  OBVIOUS
<1>2. /\ w.table = "devs" /\ w.id = d
      /\ DOMAIN w.columns = {"story"} /\ w.columns.story = s
  BY <1>1 DEF TakeSeat, Write
<1>3. /\ Proper(w)
      /\ \A e, t : PutsOn(w, e, t) <=> (e = d /\ t = s)
      /\ \A p : ~Plots(w, p)
  BY <1>2 DEF Proper, PutsOn, Plots
<1>4. QED BY <1>1, <1>3

\* What is left of a sign-up, when there is room and when there is none.
LEMMA SeatList ==
  ASSUME NEW u, NEW s, NEW l, l = << TakeSeat(u, s) >>
  PROVE  /\ Listed(l)
         /\ \A e, t : Takes(l, e, t) <=> (e = u /\ t = s)
         /\ \A p : ~Charts(l, p)
<1>1. PICK b : b = TakeSeat(u, s)
  OBVIOUS
<1>2. /\ Proper(b)
      /\ \A e, t : PutsOn(b, e, t) <=> (e = u /\ t = s)
      /\ \A p : ~Plots(b, p)
  BY <1>1, SeatFacts
<1>3. l = << b >>
  BY <1>1
<1>4. Listed(l)
  BY <1>2, <1>3, ListedLists
<1>5. ASSUME NEW e, NEW t PROVE Takes(l, e, t) <=> (e = u /\ t = s)
  <2>1. Takes(l, e, t) <=> PutsOn(b, e, t)
    BY <1>3, TakesAndCharts
  <2>2. QED BY <1>2, <2>1
<1>6. \A p : ~Charts(l, p)
  BY <1>2, <1>3, TakesAndCharts
<1>7. QED BY <1>4, <1>5, <1>6

LEMMA ReplaceList ==
  ASSUME NEW d, NEW u, NEW s, NEW l, l = << TakeSeat(d, None), TakeSeat(u, s) >>
  PROVE  /\ Listed(l)
         /\ \A e, t : Takes(l, e, t) => t = None \/ (e = u /\ t = s)
         /\ \A p : ~Charts(l, p)
<1>1. PICK a, b : a = TakeSeat(d, None) /\ b = TakeSeat(u, s)
  OBVIOUS
<1>2. Proper(a) /\ Proper(b)
  BY <1>1, SeatFacts
<1>3. /\ \A e, t : PutsOn(a, e, t) => t = None
      /\ \A e, t : PutsOn(b, e, t) => e = u /\ t = s
  BY <1>1, SeatFacts
<1>4. \A p : ~Plots(a, p) /\ ~Plots(b, p)
  BY <1>1, SeatFacts
<1>5. l = << a, b >>
  BY <1>1
<1>6. Listed(l)
  BY <1>2, <1>5, ListedLists
<1>7. ASSUME NEW e, NEW t, Takes(l, e, t) PROVE t = None \/ (e = u /\ t = s)
  <2>1. PutsOn(a, e, t) \/ PutsOn(b, e, t)
    BY <1>5, <1>7, TakesAndCharts
  <2>2. QED BY <1>3, <2>1
<1>8. \A p : ~Charts(l, p)
  BY <1>4, <1>5, TakesAndCharts
<1>9. QED BY <1>6, <1>7, <1>8

(***************************************************************************)
(* A sign-up counted one developer at most, or has one to replace, who     *)
(* leaves room for one.                                                    *)
(***************************************************************************)
LEMMA SignUpKeeps ==
  ASSUME StoryInv, Recorded, NEW k \in Workers, NEW u \in Users, NEW s \in Stories,
         SignUpFor(k, u, s)
  PROVE  StoryInv'
<1>1. None \notin Stories
  BY StoryAssumption
<1>2. Join(u, s) = <<>> \/ (u \in Developers /\ Join(u, s) = << TakeSeat(u, s) >>)
  BY DEF Join, Users
<1>3. CASE Cardinality(Team(s)) < 2 /\ Request(k, u, Join(u, s))
  <2>1. PICK l : l = Join(u, s)
    OBVIOUS
  <2>2. Request(k, u, l) /\ (l = <<>> \/ (u \in Developers /\ l = << TakeSeat(u, s) >>))
    BY <1>2, <1>3, <2>1
  <2>3. Listed(l) /\ \A p \in Projects : ~Charts(l, p)
    <3>1. CASE l = <<>>
      BY <3>1, ListedLists, TakesAndCharts
    <3>2. CASE l = << TakeSeat(u, s) >>
      BY <3>2, SeatList
    <3>3. QED BY <2>2, <3>1, <3>2
  <2>4. ASSUME NEW t \in Stories \ crowded, NEW d \in Developers, Takes(l, d, t)
        PROVE  Room(l, d, t)
    <3>1. l = << TakeSeat(u, s) >> /\ d = u /\ t = s
      <4>1. l # <<>>
        BY <2>4, TakesAndCharts
      <4>2. l = << TakeSeat(u, s) >>
        BY <2>2, <4>1
      <4>3. QED BY <2>4, <4>2, SeatList
    <3>2. IsFiniteSet(Team(s))
      BY <2>4, <3>1 DEF StoryInv, TeamInv, AtMost
    <3>3. AtMost(Team(s), 1)
      BY <1>3, <3>2, FS_CardinalityType DEF AtMost
    <3>4. AtMost(Team(s) \ {u}, 1)
      BY <3>3, FewerAreFew
    <3>5. QED BY <3>1, <3>4 DEF Room
  <2>5. QED BY <2>2, <2>3, <2>4, RequestKeeps
<1>4. ASSUME NEW d \in Team(s), Request(k, u, << TakeSeat(d, None) >> \o Join(u, s))
      PROVE  StoryInv'
  <2>1. PICK l : l = << TakeSeat(d, None) >> \o Join(u, s)
    OBVIOUS
  <2>2. d \in Developers
    BY DEF Team
  <2>3. /\ Request(k, u, l)
        /\ \/ l = << TakeSeat(d, None) >>
           \/ u \in Developers /\ l = << TakeSeat(d, None), TakeSeat(u, s) >>
    <3>1. CASE Join(u, s) = <<>>
      BY <1>4, <2>1, <3>1, ListOfOne
    <3>2. CASE u \in Developers /\ Join(u, s) = << TakeSeat(u, s) >>
      BY <1>4, <2>1, <3>2, ListOfTwo
    <3>3. QED BY <1>2, <3>1, <3>2
  <2>4. Listed(l) /\ \A p \in Projects : ~Charts(l, p)
    <3>1. CASE l = << TakeSeat(d, None) >>
      BY <3>1, SeatList
    <3>2. CASE l = << TakeSeat(d, None), TakeSeat(u, s) >>
      BY <3>2, ReplaceList
    <3>3. QED BY <2>3, <3>1, <3>2
  <2>5. ASSUME NEW t \in Stories \ crowded, NEW e \in Developers, Takes(l, e, t)
        PROVE  Room(l, e, t)
    <3>1. l = << TakeSeat(d, None), TakeSeat(u, s) >> /\ e = u /\ t = s
      <4>1. CASE l = << TakeSeat(d, None) >>
        <5>1. t = None
          BY <2>5, <4>1, SeatList
        <5>2. QED BY <1>1, <5>1
      <4>2. CASE l = << TakeSeat(d, None), TakeSeat(u, s) >>
        <5>1. t = None \/ (e = u /\ t = s)
          BY <2>5, <4>2, ReplaceList
        <5>2. QED BY <1>1, <4>2, <5>1
      <4>3. QED BY <2>3, <4>1, <4>2
    <3>2. AtMost(Team(s), 2)
      BY <2>5, <3>1 DEF StoryInv, TeamInv
    <3>3. Team(s) \ {d, u} \subseteq Team(s) \ {d}
      OBVIOUS
    <3>4. AtMost(Team(s) \ {d, u}, 1)
      BY <3>2, <3>3, OneLess
    <3>5. QED BY <2>2, <3>1, <3>4 DEF Room
  <2>6. QED BY <2>3, <2>4, <2>5, RequestKeeps
<1>5. QED BY <1>3, <1>4 DEF SignUpFor

----------------------------------------------------------------------------
(* The form of a developer, and requests that do not go through.           *)

LEMMA FormKeeps ==
  ASSUME StoryInv, FormStep, UNCHANGED torn,
         crowded' = crowded \cup
           {s \in Stories : \E k \in Workers, d \in Developers :
                              ~Takes(todo[k], d, s) /\ Takes(todo'[k], d, s)}
  PROVE  StoryInv'
<1>1. PICK k \in Workers, u \in Users : CreateDeveloper(k, u) \/ UpdateDeveloper(k, u)
  BY DEF FormStep
<1>2. \E w : w.table = "devs" /\ Proper(w) /\ Request(k, u, << w >>)
  <2>1. CASE CreateDeveloper(k, u)
    <3>1. PICK d \in Developers, p \in Projects \cup {None}, s \in Stories \cup {None} :
            Request(k, u, << Write("devs", d, [row |-> "there", project |-> p, story |-> s]) >>)
      BY <2>1 DEF CreateDeveloper
    <3>2. PICK w : w = Write("devs", d, [row |-> "there", project |-> p, story |-> s])
      OBVIOUS
    <3>3. w.table = "devs" /\ "story" \in DOMAIN w.columns
      BY <3>2 DEF Write
    <3>4. QED BY <3>1, <3>2, <3>3 DEF Proper
  <2>2. CASE UpdateDeveloper(k, u)
    <3>1. PICK d \in Developers, p \in Projects \cup {None}, s \in Stories \cup {None} :
            LET sent    == [project |-> p, story |-> s]
                changed == {c \in {"project", "story"} : sent[c] # devs[d][c]}
            IN  Request(k, u, << Write("devs", d, [c \in changed |-> sent[c]]) >>)
      BY <2>2 DEF UpdateDeveloper
    <3>2. PICK sent, changed :
            /\ sent = [project |-> p, story |-> s]
            /\ changed = {c \in {"project", "story"} : sent[c] # devs[d][c]}
      OBVIOUS
    <3>3. changed \subseteq {"project", "story"}
      BY <3>2
    <3>4. Request(k, u, << Write("devs", d, [c \in changed |-> sent[c]]) >>)
      BY <3>1, <3>2
    <3>5. PICK w : w = Write("devs", d, [c \in changed |-> sent[c]])
      OBVIOUS
    <3>6. w.table = "devs" /\ DOMAIN w.columns = changed
      BY <3>5 DEF Write
    <3>7. QED BY <3>3, <3>4, <3>5, <3>6 DEF Proper
  <2>3. QED BY <1>1, <2>1, <2>2
<1>3. PICK w, l : w.table = "devs" /\ Proper(w) /\ l = << w >> /\ Request(k, u, l)
  BY <1>2
<1>4. /\ todo[k] = <<>> /\ todo' = [todo EXCEPT ![k] = l]
      /\ projects' = projects /\ devs' = devs
  BY <1>3 DEF Request, Admitted
<1>5. todo' = [j \in Workers |-> IF j = k THEN l ELSE todo[j]]
  BY <1>4 DEF StoryInv, StoryTypes
<1>6. Listed(l) /\ \A p : ~Charts(l, p)
  BY <1>3, ListedLists, TakesAndCharts DEF Plots
<1>7. ASSUME NEW s \in Stories \ crowded'
      PROVE  /\ ~Contested(s)'
             /\ \A d \in Developers : Takes(l, d, s) => Room(l, d, s)
  <2>1. \A j \in Workers, d \in Developers : Takes(todo'[j], d, s) => Takes(todo[j], d, s)
    BY <1>7
  <2>2. ~Contested(s)
    BY <1>7 DEF StoryInv, TeamInv
  <2>3. ~Contested(s)'
    BY <2>1, <2>2 DEF Contested
  <2>4. \A d \in Developers : ~Takes(l, d, s)
    BY <1>4, <1>5, <2>1, TakesAndCharts
  <2>5. QED BY <2>3, <2>4
<1>8. ASSUME NEW p \in Projects \ torn'
      PROVE  /\ ~Overlapped(p)'
             /\ Charts(l, p) => Owed(l, p)
             /\ (~Charts(l, p) /\ Charts(todo[k], p)) => InStep(p)
  <2>1. \A j \in Workers : Charts(todo'[j], p) => Charts(todo[j], p)
    BY <1>5, <1>6
  <2>2. ~Overlapped(p)
    BY <1>8 DEF StoryInv, ChartInv
  <2>3. ~Overlapped(p)'
    BY <2>1, <2>2 DEF Overlapped
  <2>4. QED BY <1>4, <1>6, <2>3, TakesAndCharts
<1>9. QED BY <1>4, <1>6, <1>7, <1>8, TodoSet

LEMMA BeforeInStep ==
  ASSUME NEW p, ChartInv(p), NEW l, NEW n, Before(l, p, n)
  PROVE  InStep(p)
  BY DEF ChartInv, Before, InStep

\* A request is dropped that has not made the first of its two updates.
LEMMA Dropped ==
  ASSUME StoryInv, NEW k \in Workers, projects' = projects, devs' = devs,
         todo' = [todo EXCEPT ![k] = <<>>],
         crowded \subseteq crowded', torn \subseteq torn',
         \A p \in Projects \ torn' :
           \A n \in Int : ~Between(todo[k], p, n)
  PROVE  StoryInv'
<1>1. todo' = [j \in Workers |-> IF j = k THEN <<>> ELSE todo[j]]
  BY DEF StoryInv, StoryTypes
<1>2. PICK l : l = <<>>
  OBVIOUS
<1>3. Listed(l) /\ (\A d, s : ~Takes(l, d, s)) /\ (\A p : ~Charts(l, p))
  BY <1>2, ListedLists, TakesAndCharts
<1>4. ASSUME NEW s \in Stories \ crowded'
      PROVE  /\ ~Contested(s)'
             /\ \A d \in Developers : Takes(l, d, s) => Room(l, d, s)
  <2>1. \A j \in Workers, d \in Developers : Takes(todo'[j], d, s) => Takes(todo[j], d, s)
    BY <1>1, <1>2, <1>3
  <2>2. ~Contested(s)
    BY <1>4 DEF StoryInv, TeamInv
  <2>3. ~Contested(s)'
    BY <2>1, <2>2 DEF Contested
  <2>4. QED BY <1>3, <2>3
<1>5. ASSUME NEW p \in Projects \ torn'
      PROVE  /\ ~Overlapped(p)'
             /\ Charts(l, p) => Owed(l, p)
             /\ (~Charts(l, p) /\ Charts(todo[k], p)) => InStep(p)
  <2>1. ChartInv(p)
    BY <1>5 DEF StoryInv
  <2>2. \A j \in Workers : Charts(todo'[j], p) => Charts(todo[j], p)
    BY <1>1, <1>2, <1>3
  <2>3. ~Overlapped(p)'
    BY <2>1, <2>2 DEF Overlapped, ChartInv
  <2>4. ASSUME Charts(todo[k], p) PROVE InStep(p)
    <3>1. PICK n \in Int : Before(todo[k], p, n) \/ Between(todo[k], p, n)
      BY <2>1, <2>4 DEF ChartInv, Owed
    <3>2. Before(todo[k], p, n)
      BY <1>5, <3>1
    <3>3. QED BY <2>1, <3>2, BeforeInStep
  <2>5. QED BY <1>3, <2>3, <2>4
<1>6. todo' = [todo EXCEPT ![k] = l]
  BY <1>2
<1>7. QED BY <1>3, <1>4, <1>5, <1>6, TodoSet

LEMMA CutKeeps ==
  ASSUME StoryInv, CutStep, UNCHANGED crowded,
         torn' = torn \cup {p \in Projects : \E k \in Workers :
                                               Halfway(k, p) /\ todo'[k] = <<>>}
  PROVE  StoryInv'
<1>1. PICK k \in Workers : Cut(k)
  BY DEF CutStep
<1>2. /\ todo' = [todo EXCEPT ![k] = <<>>]
      /\ projects' = projects /\ devs' = devs
  BY <1>1 DEF Cut
<1>3. todo'[k] = <<>>
  BY <1>2 DEF StoryInv, StoryTypes
<1>4. ASSUME NEW p \in Projects \ torn', NEW n \in Int, Between(todo[k], p, n)
      PROVE  FALSE
  <2>1. PICK w : w = Write("projects", p, [btime |-> n])
    OBVIOUS
  <2>2. todo[k] = << w >> /\ w.table = "projects" /\ w.id = p /\ w.columns = [btime |-> n]
    BY <1>4, <2>1, WriteFields DEF Between
  <2>3. Plots(w, p)
    BY <2>2 DEF Plots
  <2>4. Charts(todo[k], p)
    BY <2>2, <2>3, TakesAndCharts
  <2>5. Len(todo[k]) = 1
    BY <2>2
  <2>6. QED BY <1>3, <1>4, <2>4, <2>5 DEF Halfway
<1>5. crowded \subseteq crowded' /\ torn \subseteq torn'
  OBVIOUS
<1>6. QED BY <1>2, <1>4, <1>5, Dropped

LEMMA SaveFailsKeeps ==
  ASSUME StoryInv, Recorded, NEW k \in Workers, SaveFails(k)
  PROVE  StoryInv'
<1>1. /\ todo' = [todo EXCEPT ![k] = <<>>]
      /\ projects' = projects /\ devs' = devs
      /\ Head(todo[k]).table = "stories"
  BY DEF SaveFails
<1>2. ASSUME NEW p, NEW n, Between(todo[k], p, n)
      PROVE  FALSE
  <2>1. Head(todo[k]) = Write("projects", p, [btime |-> n])
    BY <1>2, HeadsAndTails DEF Between
  <2>2. QED BY <1>1, <2>1, WriteFields
<1>3. crowded \subseteq crowded' /\ torn \subseteq torn'
  BY DEF Recorded
<1>4. QED BY <1>1, <1>2, <1>3, Dropped

----------------------------------------------------------------------------
(* A statement is made.                                                    *)

LEMMA RowsAfter ==
  ASSUME NEW D, NEW t, t = [i \in D |-> t[i]], NEW name, NEW w
  PROVE  Written(name, t, w) =
           [i \in D |-> IF w.table = name /\ w.id = i /\ t[i].row # "gone"
                        THEN Updated(t[i], w.columns) ELSE t[i]]
<1>1. CASE w.table # name \/ t[w.id].row = "gone"
  <2>1. Written(name, t, w) = t
    BY <1>1 DEF Written
  <2>2. \A i \in D : ~(w.table = name /\ w.id = i /\ t[i].row # "gone")
    BY <1>1
  <2>3. QED BY <2>1, <2>2
<1>2. CASE ~(w.table # name \/ t[w.id].row = "gone")
  <2>1. Written(name, t, w) = [t EXCEPT ![w.id] = Updated(@, w.columns)]
    BY <1>2 DEF Written
  <2>2. QED BY <1>2, <2>1
<1>3. QED BY <1>1, <1>2

LEMMA UpdatedFields ==
  ASSUME NEW r, NEW columns
  PROVE  /\ DOMAIN Updated(r, columns) = DOMAIN r
         /\ \A c \in DOMAIN r :
              Updated(r, columns)[c] = IF c \in DOMAIN columns THEN columns[c] ELSE r[c]
  BY DEF Updated

LEMMA WriteFrame ==
  ASSUME StoryInv, NEW k \in Workers, DoWrite(k), NEW w, w = Head(todo[k])
  PROVE  /\ todo[k] # <<>> /\ Listed(todo[k]) /\ Proper(w)
         /\ projects' = [p \in Projects |->
                           IF w.table = "projects" /\ w.id = p /\ projects[p].row # "gone"
                           THEN Updated(projects[p], w.columns) ELSE projects[p]]
         /\ devs' = [d \in Developers |->
                       IF w.table = "devs" /\ w.id = d /\ devs[d].row # "gone"
                       THEN Updated(devs[d], w.columns) ELSE devs[d]]
         /\ todo' = [j \in Workers |-> IF j = k THEN Tail(todo[k]) ELSE todo[j]]
         /\ StoryTypes'
<1>1. /\ todo[k] # <<>> /\ todo' = [todo EXCEPT ![k] = Tail(@)]
      /\ projects' = Written("projects", projects, w)
      /\ devs' = Written("devs", devs, w)
  BY DEF DoWrite
<1>2. StoryTypes
  BY DEF StoryInv
<1>3. Listed(todo[k]) /\ Proper(w) /\ Listed(Tail(todo[k]))
  BY <1>1, <1>2, HeadTail DEF StoryTypes
<1>4. projects' = [p \in Projects |->
                     IF w.table = "projects" /\ w.id = p /\ projects[p].row # "gone"
                     THEN Updated(projects[p], w.columns) ELSE projects[p]]
  BY <1>1, <1>2, RowsAfter DEF StoryTypes
<1>5. devs' = [d \in Developers |->
                 IF w.table = "devs" /\ w.id = d /\ devs[d].row # "gone"
                 THEN Updated(devs[d], w.columns) ELSE devs[d]]
  BY <1>1, <1>2, RowsAfter DEF StoryTypes
<1>6. todo' = [j \in Workers |-> IF j = k THEN Tail(todo[k]) ELSE todo[j]]
  BY <1>1, <1>2 DEF StoryTypes
<1>7. StoryTypes'
  <2>1. /\ projects' = [p \in Projects |-> projects'[p]]
        /\ devs' = [d \in Developers |-> devs'[d]]
        /\ todo' = [j \in Workers |-> todo'[j]]
    BY <1>4, <1>5, <1>6
  <2>2. \A p \in Projects : DOMAIN projects'[p] = {"row", "points", "btime"}
    BY <1>2, <1>4, UpdatedFields DEF StoryTypes
  <2>3. \A d \in Developers : DOMAIN devs'[d] = {"row", "project", "story"}
    BY <1>2, <1>5, UpdatedFields DEF StoryTypes
  <2>4. \A j \in Workers : Listed(todo'[j])
    BY <1>2, <1>3, <1>6 DEF StoryTypes
  <2>5. QED BY <2>1, <2>2, <2>3, <2>4 DEF StoryTypes
<1>8. QED BY <1>1, <1>3, <1>4, <1>5, <1>6, <1>7

\* Who is on a story afterwards was on it, or has been put there.
LEMMA TeamAfter ==
  ASSUME StoryInv, NEW k \in Workers, DoWrite(k), NEW w, w = Head(todo[k]),
         NEW s \in Stories
  PROVE  /\ \A v \in Team(s)' : v \in Team(s) \/ PutsOn(w, v, s)
         /\ \A d : w = TakeSeat(d, None) => d \notin Team(s)'
<1>1. devs' = [d \in Developers |->
                 IF w.table = "devs" /\ w.id = d /\ devs[d].row # "gone"
                 THEN Updated(devs[d], w.columns) ELSE devs[d]]
  BY WriteFrame
<1>2. Proper(w)
  BY WriteFrame
<1>3. \A d \in Developers : DOMAIN devs[d] = {"row", "project", "story"}
  BY DEF StoryInv, StoryTypes
<1>4. ASSUME NEW v \in Team(s)'
      PROVE  /\ v \in Developers /\ devs'[v].row = "there" /\ devs'[v].story = s
             /\ v \in Team(s) \/ PutsOn(w, v, s)
  <2>1. v \in Developers /\ devs'[v].row = "there" /\ devs'[v].story = s
    BY DEF Team, There
  <2>2. CASE devs'[v] = devs[v]
    <3>1. v \in Team(s)
      BY <2>1, <2>2 DEF Team, There
    <3>2. QED BY <2>1, <3>1
  <2>3. CASE w.table = "devs" /\ w.id = v /\ devs'[v] = Updated(devs[v], w.columns)
    <3>1. CASE "story" \in DOMAIN w.columns
      <4>1. w.columns.story = s
        BY <1>3, <2>1, <2>3, <3>1, UpdatedFields
      <4>2. QED BY <2>1, <2>3, <3>1, <4>1 DEF PutsOn
    <3>2. CASE "story" \notin DOMAIN w.columns
      <4>1. "row" \notin DOMAIN w.columns
        BY <1>2, <2>3, <3>2 DEF Proper
      <4>2. devs[v].row = "there" /\ devs[v].story = s
        BY <1>3, <2>1, <2>3, <3>2, <4>1, UpdatedFields
      <4>3. v \in Team(s)
        BY <2>1, <4>2 DEF Team, There
      <4>4. QED BY <2>1, <4>3
    <3>3. QED BY <3>1, <3>2
  <2>4. QED BY <1>1, <2>1, <2>2, <2>3
<1>5. ASSUME NEW d, w = TakeSeat(d, None), d \in Team(s)'
      PROVE  FALSE
  <2>1. d \in Developers /\ devs'[d].row = "there" /\ devs'[d].story = s
    BY <1>4, <1>5
  <2>2. /\ w.table = "devs" /\ w.id = d
        /\ "story" \in DOMAIN w.columns /\ w.columns.story = None
    BY <1>5 DEF TakeSeat, Write
  <2>3. devs[d].row # "gone"
    BY <1>1, <2>1
  <2>4. devs'[d] = Updated(devs[d], w.columns)
    BY <1>1, <2>1, <2>2, <2>3
  <2>5. devs'[d].story = None
    BY <1>3, <2>1, <2>2, <2>4, UpdatedFields
  <2>6. QED BY <2>1, <2>5, StoryAssumption
<1>6. QED BY <1>4, <1>5

LEMMA TeamWrite ==
  ASSUME StoryInv, NEW k \in Workers, DoWrite(k), NEW s \in Stories \ crowded
  PROVE  TeamInv(s)'
<1>1. PICK w, l : w = Head(todo[k]) /\ l = Tail(todo[k])
  OBVIOUS
<1>2. /\ todo[k] # <<>> /\ Listed(todo[k])
      /\ todo' = [j \in Workers |-> IF j = k THEN l ELSE todo[j]]
  BY <1>1, WriteFrame
<1>3. TeamInv(s)
  BY DEF StoryInv
<1>4. \A v \in Team(s)' : v \in Team(s) \/ PutsOn(w, v, s)
  BY <1>1, TeamAfter
<1>5. \A d : w = TakeSeat(d, None) => d \notin Team(s)'
  BY <1>1, TeamAfter
<1>6. \A v : /\ PutsOn(w, v, s) => Takes(todo[k], v, s)
             /\ Takes(l, v, s) => Takes(todo[k], v, s)
  BY <1>1, <1>2, HeadTail
<1>7. \A j \in Workers, v \in Developers : Takes(todo'[j], v, s) => Takes(todo[j], v, s)
  BY <1>2, <1>6
<1>8. ~Contested(s)'
  BY <1>3, <1>7 DEF TeamInv, Contested
<1>9. ASSUME Team(s)' \subseteq Team(s), \A v \in Developers : ~Takes(l, v, s)
      PROVE  TeamInv(s)'
  <2>1. AtMost(Team(s)', 2)
    BY <1>3, <1>9, FewerAreFew DEF TeamInv
  <2>2. ASSUME NEW j \in Workers, NEW v \in Developers, Takes(todo'[j], v, s)
        PROVE  Room(todo[j], v, s)'
    <3>1. j # k /\ todo'[j] = todo[j]
      BY <1>2, <1>9, <2>2
    <3>2. PICK m : m = todo[j]
      OBVIOUS
    <3>3. Room(m, v, s)
      BY <1>3, <2>2, <3>1, <3>2 DEF TeamInv
    <3>4. Room(m, v, s)'
      BY <1>9, <3>3, RoomKept
    <3>5. m = todo'[j]
      BY <3>1, <3>2
    <3>6. QED BY <3>4, <3>5
  <2>3. (\A j \in Workers, v \in Developers : Takes(todo[j], v, s) => Room(todo[j], v, s))'
    BY <2>2
  <2>4. AtMost(Team(s), 2)'
    BY <2>1 DEF AtMost
  <2>5. QED BY <1>8, <2>3, <2>4 DEF TeamInv
<1>10. CASE \A v \in Developers : ~Takes(todo[k], v, s)
  <2>1. \A v \in Developers : ~PutsOn(w, v, s) /\ ~Takes(l, v, s)
    BY <1>6, <1>10
  <2>2. Team(s)' \subseteq Developers
    BY DEF Team
  <2>3. Team(s)' \subseteq Team(s)
    BY <1>4, <2>1, <2>2
  <2>4. QED BY <1>9, <2>1, <2>3
<1>11. ASSUME NEW u \in Developers, Takes(todo[k], u, s)
       PROVE  TeamInv(s)'
  <2>1. Room(todo[k], u, s)
    BY <1>3, <1>11 DEF TeamInv
  <2>2. \A j \in Workers, v \in Developers : Takes(todo[j], v, s) => v = u
    BY <1>3, <1>11 DEF TeamInv, Contested
  <2>3. CASE todo[k] = << TakeSeat(u, s) >> /\ AtMost(Team(s) \ {u}, 1)
    <3>1. w = TakeSeat(u, s) /\ l = <<>>
      BY <1>1, <2>3, HeadsAndTails
    <3>2. \A v : PutsOn(w, v, s) => v = u
      BY <3>1, SeatFacts
    <3>3. Team(s)' \subseteq Team(s) \cup {u}
      BY <1>4, <3>2
    <3>4. AtMost(Team(s)', 2)
      <4>1. Team(s)' \subseteq (Team(s) \ {u}) \cup {u}
        BY <3>3
      <4>2. QED BY <2>3, <4>1, OneMore
    <3>5. ASSUME NEW j \in Workers, NEW v \in Developers, Takes(todo'[j], v, s)
          PROVE  Room(todo[j], v, s)'
      <4>1. v = u /\ Takes(todo[j], v, s)
        BY <1>7, <2>2, <3>5
      <4>2. j # k /\ todo'[j] = todo[j]
        <5>1. ~Takes(l, v, s)
          BY <3>1, TakesAndCharts
        <5>2. QED BY <1>2, <3>5, <5>1
      <4>3. PICK m : m = todo[j]
        OBVIOUS
      <4>4. Room(m, u, s)
        BY <1>3, <4>1, <4>3 DEF TeamInv
      <4>5. Room(m, u, s)'
        <5>1. CASE m = << TakeSeat(u, s) >> /\ AtMost(Team(s) \ {u}, 1)
          <6>1. Team(s)' \ {u} \subseteq Team(s) \ {u}
            BY <3>3
          <6>2. AtMost(Team(s)' \ {u}, 1)
            BY <5>1, <6>1, FewerAreFew
          <6>3. QED BY <5>1, <6>2 DEF Room, TakeSeat, Write
        <5>2. ASSUME NEW d \in Developers, m = << TakeSeat(d, None), TakeSeat(u, s) >>,
                     AtMost(Team(s) \ {d, u}, 1)
              PROVE  Room(m, u, s)'
          <6>1. Team(s)' \ {d, u} \subseteq Team(s) \ {d, u}
            BY <3>3
          <6>2. AtMost(Team(s)' \ {d, u}, 1)
            BY <5>2, <6>1, FewerAreFew
          <6>3. QED BY <5>2, <6>2 DEF Room, TakeSeat, Write
        <5>3. QED BY <4>4, <5>1, <5>2 DEF Room
      <4>6. m = todo'[j]
        BY <4>2, <4>3
      <4>7. QED BY <4>1, <4>5, <4>6
    <3>6. (\A j \in Workers, v \in Developers : Takes(todo[j], v, s) => Room(todo[j], v, s))'
      BY <3>5
    <3>7. AtMost(Team(s), 2)'
      BY <3>4 DEF AtMost
    <3>8. QED BY <1>8, <3>6, <3>7 DEF TeamInv
  <2>4. ASSUME NEW d \in Developers, todo[k] = << TakeSeat(d, None), TakeSeat(u, s) >>,
               AtMost(Team(s) \ {d, u}, 1)
        PROVE  TeamInv(s)'
    <3>1. w = TakeSeat(d, None) /\ l = << TakeSeat(u, s) >>
      <4>1. \A a, b : Head(<< a, b >>) = a /\ Tail(<< a, b >>) = << b >>
        BY HeadsAndTails
      <4>2. QED BY <1>1, <2>4, <4>1
    <3>2. \A v : ~PutsOn(w, v, s)
      BY <3>1, SeatFacts, StoryAssumption
    <3>3. Team(s)' \subseteq Team(s) \ {d}
      BY <1>4, <1>5, <3>1, <3>2
    <3>4. AtMost(Team(s), 2)'
      <4>1. Team(s)' \subseteq Team(s)
        BY <3>3
      <4>2. AtMost(Team(s)', 2)
        BY <1>3, <4>1, FewerAreFew DEF TeamInv
      <4>3. QED BY <4>2 DEF AtMost
    <3>5. ASSUME NEW j \in Workers, NEW v \in Developers, Takes(todo'[j], v, s)
          PROVE  Room(todo[j], v, s)'
      <4>1. v = u /\ Takes(todo[j], v, s)
        BY <1>7, <2>2, <3>5
      <4>2. CASE j = k
        <5>1. Team(s)' \ {u} \subseteq Team(s) \ {d, u}
          BY <3>3
        <5>2. AtMost(Team(s)' \ {u}, 1)
          BY <2>4, <5>1, FewerAreFew
        <5>3. todo'[j] = << TakeSeat(u, s) >>
          BY <1>2, <3>1, <4>2
        <5>4. QED BY <4>1, <5>2, <5>3 DEF Room, TakeSeat, Write
      <4>3. CASE j # k
        <5>1. PICK m : m = todo[j]
          OBVIOUS
        <5>2. m = todo'[j]
          BY <1>2, <4>3, <5>1
        <5>3. Room(m, v, s)
          BY <1>3, <4>1, <5>1 DEF TeamInv
        <5>4. Team(s)' \subseteq Team(s)
          BY <3>3
        <5>5. Room(m, v, s)'
          BY <5>3, <5>4, RoomKept
        <5>6. QED BY <5>2, <5>5
      <4>4. QED BY <4>2, <4>3
    <3>6. (\A j \in Workers, v \in Developers : Takes(todo[j], v, s) => Room(todo[j], v, s))'
      BY <3>5
    <3>7. QED BY <1>8, <3>4, <3>6 DEF TeamInv
  <2>5. QED BY <2>1, <2>3, <2>4 DEF Room
<1>12. QED BY <1>10, <1>11

\* A statement leaves a chart alone, unless it plots on it, or deletes it.
LEMMA ChartAfter ==
  ASSUME StoryInv, NEW k \in Workers, DoWrite(k), NEW w, w = Head(todo[k]),
         NEW p \in Projects, ~Plots(w, p)
  PROVE  \/ /\ projects'[p].points = projects[p].points
            /\ projects'[p].btime = projects[p].btime
            /\ projects[p].row = "gone" => projects'[p].row = "gone"
            /\ projects'[p].row = "gone" => projects[p].row = "gone"
         \/ /\ projects'[p].points = 0 /\ projects'[p].btime = -1
            /\ projects'[p].row = "gone"
<1>1. /\ Proper(w)
      /\ projects'[p] = IF w.table = "projects" /\ w.id = p /\ projects[p].row # "gone"
                        THEN Updated(projects[p], w.columns) ELSE projects[p]
  BY WriteFrame
<1>2. DOMAIN projects[p] = {"row", "points", "btime"}
  BY DEF StoryInv, StoryTypes
<1>3. CASE projects'[p] = projects[p]
  BY <1>3
<1>4. ASSUME w.table = "projects", w.id = p, projects[p].row # "gone",
             projects'[p] = Updated(projects[p], w.columns)
      PROVE  \/ /\ projects'[p].points = projects[p].points
                /\ projects'[p].btime = projects[p].btime
                /\ projects'[p].row = "there"
             \/ /\ projects'[p].points = 0 /\ projects'[p].btime = -1
                /\ projects'[p].row = "gone"
  <2>1. "row" \in DOMAIN w.columns
    BY <1>4 DEF Plots
  <2>2. w.columns = [row |-> "there"] \/ w.columns = GoneProject
    BY <1>1, <1>4, <2>1 DEF Proper
  <2>3. CASE w.columns = [row |-> "there"]
    <3>1. DOMAIN w.columns = {"row"} /\ w.columns["row"] = "there"
      BY <2>3
    <3>2. QED BY <1>2, <1>4, <3>1, UpdatedFields
  <2>4. CASE w.columns = GoneProject
    <3>1. /\ DOMAIN w.columns = {"row", "points", "btime"} /\ w.columns["row"] = "gone"
          /\ w.columns["points"] = 0 /\ w.columns["btime"] = -1
      BY <2>4 DEF GoneProject
    <3>2. QED BY <1>2, <1>4, <3>1, UpdatedFields
  <2>5. QED BY <2>2, <2>3, <2>4
<1>5. QED BY <1>1, <1>3, <1>4

LEMMA ChartWrite ==
  ASSUME StoryInv, NEW k \in Workers, DoWrite(k), NEW p \in Projects \ torn
  PROVE  ChartInv(p)'
<1>1. PICK w, l : w = Head(todo[k]) /\ l = Tail(todo[k])
  OBVIOUS
<1>2. /\ todo[k] # <<>> /\ Listed(todo[k])
      /\ todo' = [j \in Workers |-> IF j = k THEN l ELSE todo[j]]
      /\ projects'[p] = IF w.table = "projects" /\ w.id = p /\ projects[p].row # "gone"
                        THEN Updated(projects[p], w.columns) ELSE projects[p]
  BY <1>1, WriteFrame
<1>3. ChartInv(p)
  BY DEF StoryInv
<1>4. DOMAIN projects[p] = {"row", "points", "btime"}
  BY DEF StoryInv, StoryTypes
<1>5. /\ Plots(w, p) => Charts(todo[k], p)
      /\ Charts(l, p) => Charts(todo[k], p)
  BY <1>1, <1>2, HeadTail
<1>6. \A j \in Workers : Charts(todo'[j], p) => Charts(todo[j], p)
  BY <1>2, <1>5
<1>7. ~Overlapped(p)'
  BY <1>3, <1>6 DEF ChartInv, Overlapped
<1>8. ASSUME (projects[p].points \in Int)', (projects[p].row = "gone" => InStep(p))',
             ~Charts(l, p) => ((\A j \in Workers : ~Charts(todo'[j], p)) => InStep(p)'),
             \A j \in Workers : Charts(todo'[j], p) => Owed(todo[j], p)'
      PROVE  ChartInv(p)'
  <2>1. ((\A j \in Workers : ~Charts(todo[j], p)) => InStep(p))'
    <3>1. todo'[k] = l
      BY <1>2
    <3>2. QED BY <1>8, <3>1
  <2>2. (\A j \in Workers : Charts(todo[j], p) => Owed(todo[j], p))'
    BY <1>8
  <2>3. QED BY <1>7, <1>8, <2>1, <2>2 DEF ChartInv
<1>9. CASE ~Charts(todo[k], p)
  <2>1. ~Plots(w, p) /\ ~Charts(l, p)
    BY <1>5, <1>9
  <2>2. \/ /\ projects'[p].points = projects[p].points
           /\ projects'[p].btime = projects[p].btime
           /\ projects[p].row = "gone" => projects'[p].row = "gone"
           /\ projects'[p].row = "gone" => projects[p].row = "gone"
        \/ /\ projects'[p].points = 0 /\ projects'[p].btime = -1
           /\ projects'[p].row = "gone"
    BY <1>1, <2>1, ChartAfter
  <2>3. (projects[p].points \in Int)'
    BY <1>3, <2>2 DEF ChartInv
  <2>4. InStep(p) => InStep(p)'
    BY <2>2 DEF InStep
  <2>5. (projects[p].row = "gone" => InStep(p))'
    BY <1>3, <2>2, <2>4 DEF ChartInv, InStep
  <2>6. ASSUME \A j \in Workers : ~Charts(todo'[j], p) PROVE InStep(p)'
    <3>1. \A j \in Workers : ~Charts(todo[j], p)
      BY <1>2, <1>9, <2>6
    <3>2. QED BY <1>3, <2>4, <3>1 DEF ChartInv
  <2>7. ASSUME NEW j \in Workers, Charts(todo'[j], p) PROVE Owed(todo[j], p)'
    <3>1. j # k /\ todo'[j] = todo[j]
      BY <1>2, <2>1, <2>7
    <3>2. PICK m : m = todo[j]
      OBVIOUS
    <3>3. PICK n \in Int : Before(m, p, n) \/ Between(m, p, n)
      BY <1>3, <2>7, <3>1, <3>2 DEF ChartInv, Owed
    <3>4. Before(m, p, n) => Before(m, p, n)'
      BY <2>2 DEF Before, Chart, Write
    <3>5. Between(m, p, n) => Between(m, p, n)'
      BY <2>2 DEF Between, Write
    <3>6. Owed(m, p)'
      BY <3>3, <3>4, <3>5 DEF Owed
    <3>7. m = todo'[j]
      BY <3>1, <3>2
    <3>8. QED BY <3>6, <3>7
  <2>8. QED BY <1>8, <2>3, <2>5, <2>6, <2>7
<1>10. CASE Charts(todo[k], p)
  <2>1. PICK n \in Int : Before(todo[k], p, n) \/ Between(todo[k], p, n)
    BY <1>3, <1>10 DEF ChartInv, Owed
  <2>2. \A j \in Workers : Charts(todo'[j], p) => j = k
    BY <1>3, <1>6, <1>10 DEF ChartInv, Overlapped
  <2>3. ASSUME (projects[p].points \in Int)', (projects[p].row = "gone" => InStep(p))',
               ~Charts(l, p) => InStep(p)', Owed(l, p)' \/ ~Charts(l, p)
        PROVE  ChartInv(p)'
    <3>1. ASSUME NEW j \in Workers, Charts(todo'[j], p) PROVE Owed(todo[j], p)'
      <4>1. todo'[j] = l
        BY <1>2, <2>2, <3>1
      <4>2. Owed(l, p)'
        BY <2>3, <3>1, <4>1
      <4>3. QED BY <4>1, <4>2
    <3>2. QED BY <1>8, <2>3, <3>1
  <2>4. PICK a, b : /\ a = Write("projects", p, [points |-> n + 1])
                    /\ b = Write("projects", p, [btime |-> n])
    OBVIOUS
  <2>5. /\ a.table = "projects" /\ a.id = p /\ a.columns = [points |-> n + 1]
        /\ b.table = "projects" /\ b.id = p /\ b.columns = [btime |-> n]
    BY <2>4, WriteFields
  <2>6. Chart(p, n) = << a, b >>
    BY <2>4 DEF Chart
  <2>7. Plots(a, p) /\ Plots(b, p)
    BY <2>5 DEF Plots
  \* The story is saved.
  <2>8. ASSUME NEW v, v.table = "stories", todo[k] = << v >> \o Chart(p, n),
               projects[p].row = "gone" \/ (projects[p].points = n /\ projects[p].btime = n - 1)
        PROVE  ChartInv(p)'
    <3>1. w = v /\ l = Chart(p, n)
      <4>1. todo[k] = << v, a, b >>
        BY <2>6, <2>8, ListOfThree
      <4>2. Head(<< v, a, b >>) = v /\ Tail(<< v, a, b >>) = << a, b >>
        OBVIOUS
      <4>3. QED BY <1>1, <2>6, <4>1, <4>2
    <3>2. projects'[p] = projects[p]
      BY <1>2, <2>8, <3>1
    <3>3. Before(l, p, n)'
      BY <2>8, <3>1, <3>2 DEF Before, Chart, Write
    <3>4. Charts(l, p)
      BY <2>6, <2>7, <3>1, TakesAndCharts
    <3>5. Owed(l, p)'
      BY <3>3 DEF Owed
    <3>6. (projects[p].points \in Int)' /\ (projects[p].row = "gone" => InStep(p))'
      BY <1>3, <3>2 DEF ChartInv, InStep
    <3>7. QED BY <2>3, <3>4, <3>5, <3>6
  \* The point is written.
  <2>9. ASSUME todo[k] = Chart(p, n),
               projects[p].row = "gone" \/ (projects[p].points = n /\ projects[p].btime = n - 1)
        PROVE  ChartInv(p)'
    <3>1. w = a /\ l = << b >>
      <4>1. \A x, y : Head(<< x, y >>) = x /\ Tail(<< x, y >>) = << y >>
        BY HeadsAndTails
      <4>2. QED BY <1>1, <2>6, <2>9, <4>1
    <3>2. Charts(l, p)
      BY <2>7, <3>1, TakesAndCharts
    <3>3. CASE projects[p].row = "gone"
      <4>1. projects'[p] = projects[p]
        BY <1>2, <3>3
      <4>2. Between(l, p, n)'
        BY <2>4, <3>1, <3>3, <4>1 DEF Between, Write
      <4>3. Owed(l, p)'
        BY <4>2 DEF Owed
      <4>4. (projects[p].points \in Int)' /\ (projects[p].row = "gone" => InStep(p))'
        BY <1>3, <4>1 DEF ChartInv, InStep
      <4>5. QED BY <2>3, <3>2, <4>3, <4>4
    <3>4. CASE projects[p].row # "gone"
      <4>1. projects'[p] = Updated(projects[p], [points |-> n + 1])
        BY <1>2, <2>5, <3>1, <3>4
      <4>2. projects'[p].points = n + 1 /\ projects'[p].row = projects[p].row
        BY <1>4, <4>1, UpdatedFields
      <4>3. Between(l, p, n)'
        BY <2>4, <3>1, <4>2 DEF Between, Write
      <4>4. Owed(l, p)'
        BY <4>3 DEF Owed
      <4>5. (projects[p].points \in Int)' /\ (projects[p].row = "gone" => InStep(p))'
        BY <3>4, <4>2
      <4>6. QED BY <2>3, <3>2, <4>4, <4>5
    <3>5. QED BY <3>3, <3>4
  \* The time is written.
  <2>10. CASE Between(todo[k], p, n)
    <3>1. w = b /\ l = <<>>
      BY <1>1, <2>4, <2>10, HeadsAndTails DEF Between
    <3>2. ~Charts(l, p)
      BY <3>1, TakesAndCharts
    <3>3. CASE projects[p].row = "gone"
      <4>1. projects'[p] = projects[p]
        BY <1>2, <3>3
      <4>2. /\ (projects[p].points \in Int)' /\ (projects[p].row = "gone" => InStep(p))'
            /\ InStep(p)'
        BY <1>3, <3>3, <4>1 DEF ChartInv, InStep
      <4>3. QED BY <2>3, <3>2, <4>2
    <3>4. CASE projects[p].row # "gone"
      <4>1. projects'[p] = Updated(projects[p], [btime |-> n])
        BY <1>2, <2>5, <3>1, <3>4
      <4>2. projects'[p].points = projects[p].points /\ projects'[p].btime = n
        BY <1>4, <4>1, UpdatedFields
      <4>3. projects[p].points = n + 1
        BY <2>10, <3>4 DEF Between
      <4>4. InStep(p)' /\ (projects[p].points \in Int)'
        BY <4>2, <4>3 DEF InStep
      <4>5. QED BY <2>3, <3>2, <4>4
    <3>5. QED BY <3>3, <3>4
  <2>11. QED BY <2>1, <2>8, <2>9, <2>10 DEF Before
<1>11. QED BY <1>9, <1>10

LEMMA DoWriteKeeps ==
  ASSUME StoryInv, Recorded, NEW k \in Workers, DoWrite(k)
  PROVE  StoryInv'
<1>1. crowded \subseteq crowded' /\ torn \subseteq torn'
  BY DEF Recorded
<1>2. ASSUME NEW s \in Stories \ crowded' PROVE TeamInv(s)'
  BY <1>1, <1>2, TeamWrite
<1>3. ASSUME NEW p \in Projects \ torn' PROVE ChartInv(p)'
  BY <1>1, <1>3, ChartWrite
<1>4. StoryTypes'
  BY WriteFrame
<1>5. QED BY <1>2, <1>3, <1>4 DEF StoryInv

----------------------------------------------------------------------------
(* Every step.                                                             *)

LEMMA NothingWritten ==
  ASSUME StoryInv, UNCHANGED << projects, devs, todo >>,
         crowded \subseteq crowded', torn \subseteq torn'
  PROVE  StoryInv'
<1>1. StoryTypes'
  BY DEF StoryInv, StoryTypes
<1>2. ASSUME NEW s \in Stories \ crowded' PROVE TeamInv(s)'
  <2>1. TeamInv(s)
    BY <1>2 DEF StoryInv
  <2>2. Team(s)' = Team(s) /\ Contested(s)' = Contested(s)
    BY TeamSame DEF Contested
  <2>3. \A l, u : Room(l, u, s) => Room(l, u, s)'
    BY <2>2, RoomKept
  <2>4. (\A j \in Workers, v \in Developers : Takes(todo[j], v, s) => Room(todo[j], v, s))'
    BY <2>1, <2>3 DEF TeamInv
  <2>5. QED BY <2>1, <2>2, <2>4 DEF TeamInv, AtMost
<1>3. ASSUME NEW p \in Projects \ torn' PROVE ChartInv(p)'
  <2>1. ChartInv(p)
    BY <1>3 DEF StoryInv
  <2>2. \A l : Owed(l, p)' <=> Owed(l, p)
    BY OwedSame
  <2>3. (\A j \in Workers : Charts(todo[j], p) => Owed(todo[j], p))'
    BY <2>1, <2>2 DEF ChartInv
  <2>4. QED BY <2>1, <2>3 DEF ChartInv, Overlapped, InStep
<1>4. QED BY <1>1, <1>2, <1>3 DEF StoryInv

LEMMA OtherKeeps ==
  ASSUME StoryInv, OtherStep, Recorded
  PROVE  StoryInv'
<1>1. PICK k \in Workers :
        \/ DoWrite(k) \/ SaveFails(k)
        \/ \E u \in Users :
             \/ CreateStory(k, u) \/ UpdateStory(k, u) \/ DestroyStory(k, u) \/ SignUp(k, u)
             \/ CreateProject(k, u) \/ DestroyProject(k, u) \/ DestroyDeveloper(k, u)
             \/ Login(k, u) \/ Logout(k, u)
  BY DEF OtherStep
<1>2. CASE DoWrite(k) \/ SaveFails(k)
  BY <1>2, DoWriteKeeps, SaveFailsKeeps
<1>3. ASSUME NEW u \in Users,
             \/ CreateStory(k, u) \/ UpdateStory(k, u) \/ DestroyStory(k, u) \/ SignUp(k, u)
             \/ CreateProject(k, u) \/ DestroyProject(k, u) \/ DestroyDeveloper(k, u)
             \/ Login(k, u) \/ Logout(k, u)
      PROVE  StoryInv'
  <2>1. CASE Login(k, u) \/ Logout(k, u)
    <3>1. UNCHANGED << projects, devs, todo >>
      BY <2>1 DEF Login, Logout
    <3>2. crowded \subseteq crowded' /\ torn \subseteq torn'
      BY DEF Recorded
    <3>3. QED BY <3>1, <3>2, NothingWritten
  <2>2. CASE SignUp(k, u)
    BY <2>2, SignUpKeeps DEF SignUp
  <2>3. QED BY <1>3, <2>1, <2>2, StoryRequestsKeep, ProjectRequestsKeep, DestroyDeveloperKeeps
<1>4. QED BY <1>1, <1>2, <1>3

LEMMA StoryStep ==
  ASSUME StoryInv, [HistoryNext]_historyVars
  PROVE  StoryInv'
<1>1. CASE UNCHANGED historyVars
  BY <1>1, NothingWritten DEF historyVars
<1>2. CASE HistoryNext
  BY <1>2, FormKeeps, CutKeeps, OtherKeeps DEF HistoryNext, Recorded
<1>3. QED BY <1>1, <1>2

LEMMA StoryStart ==
  ASSUME HistoryInit
  PROVE  StoryInv
<1>1. /\ projects = [p \in Projects |-> [row |-> "new", points |-> 0, btime |-> -1]]
      /\ devs = [d \in Developers |-> [row |-> "new", project |-> None, story |-> None]]
      /\ todo = [k \in Workers |-> <<>>]
  BY DEF HistoryInit, StoryInit
<1>2. \A k \in Workers : /\ Listed(todo[k])
                         /\ \A d, s : ~Takes(todo[k], d, s)
                         /\ \A p : ~Charts(todo[k], p)
  BY <1>1, ListedLists, TakesAndCharts
<1>3. StoryTypes
  BY <1>1, <1>2 DEF StoryTypes
<1>4. ASSUME NEW s \in Stories PROVE TeamInv(s)
  <2>1. Team(s) = {}
    BY <1>1 DEF Team, There
  <2>2. AtMost(Team(s), 2)
    BY <2>1, FS_EmptySet DEF AtMost
  <2>3. QED BY <1>2, <2>2 DEF TeamInv, Contested
<1>5. ASSUME NEW p \in Projects PROVE ChartInv(p)
  <2>1. projects[p].points = 0 /\ projects[p].btime = -1
    BY <1>1
  <2>2. projects[p].points \in Int /\ InStep(p)
    BY <2>1 DEF InStep
  <2>3. QED BY <1>2, <2>2 DEF ChartInv, Overlapped
<1>6. QED BY <1>3, <1>4, <1>5 DEF StoryInv

(***************************************************************************)
(* In every interleaving, what each request has left to write still agrees *)
(* with the story it is about to put somebody on, unless the story is      *)
(* crowded, and with the chart it is about to update, unless it is torn.   *)
(***************************************************************************)
THEOREM StoryInductive == HistorySpec => []StoryInv
<1>1. HistoryInit => StoryInv
  BY StoryStart
<1>2. StoryInv /\ [HistoryNext]_historyVars => StoryInv'
  BY StoryStep
<1>3. QED BY <1>1, <1>2, PTL DEF HistorySpec

(***************************************************************************)
(* However requests interleave, fail or are cut short, sign_up brings a    *)
(* story a third developer only if another sign-up for the same story      *)
(* overlaps; nothing else but the form of a developer can.                 *)
(***************************************************************************)
THEOREM ThirdOnlyByOverlap == HistorySpec => []ThirdOnlyIfCrowded
<1>1. ASSUME StoryInv, NEW s \in Stories, Cardinality(Team(s)) > 2
      PROVE  s \in crowded
  <2>1. SUFFICES ASSUME s \notin crowded PROVE FALSE
    OBVIOUS
  <2>2. IsFiniteSet(Team(s)) /\ Cardinality(Team(s)) <= 2
    BY <1>1, <2>1 DEF StoryInv, TeamInv, AtMost
  <2>3. Cardinality(Team(s)) \in Nat
    BY <2>2, FS_CardinalityType
  <2>4. QED BY <1>1, <2>2, <2>3
<1>2. StoryInv => ThirdOnlyIfCrowded
  BY <1>1 DEF ThirdOnlyIfCrowded
<1>3. QED BY <1>2, StoryInductive, PTL

(***************************************************************************)
(* However requests interleave or fail, the two columns of a chart agree   *)
(* whenever nobody is about to update it, unless two requests had it open  *)
(* at the same time or one was cut short between the two (create and       *)
(* update of the stories controller).                                      *)
(***************************************************************************)
THEOREM ChartsInStep == HistorySpec => []ChartInStepUnlessTorn
<1>1. StoryInv => ChartInStepUnlessTorn
  BY DEF StoryInv, ChartInv, InStep, ChartInStepUnlessTorn
<1>2. QED BY <1>1, StoryInductive, PTL
=============================================================================
