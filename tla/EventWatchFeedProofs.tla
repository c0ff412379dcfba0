------------------------ MODULE EventWatchFeedProofs ------------------------
(***************************************************************************)
(* The watch implements the feed it promises: the refinement of EventFeed, *)
(* step by step, for any threads, calls, positions, events and faults.     *)
(***************************************************************************)
EXTENDS EventWatchProofs, FiniteSetTheorems

\* The same mapping as AsFeed in EventWatch, with the theorems about a feed.
Promise == INSTANCE EventFeedProofs WITH
  Feed <- Worker,
  state <- [w \in Worker |-> FeedState(w)],
  request <- pos,
  cursor <- [w \in Worker |-> Cursor(w)],
  out <- delivered

\* Every asked count of events fits the native int of the reverse load.
NoCountWraps == \A p \in Positions : p < 0 /\ p # FromNow => -p < IntModulus \div 2

\* The cast changes no count that fits the native int.
LEMMA ToIntFits ==
  ASSUME NEW n \in Int, 0 <= n, n < IntModulus \div 2
  PROVE  ToInt(n) = n
<1>1. PICK m \in Int : m = IntModulus /\ m > 0
  BY NumberAssumption
<1>2. PICK h \in Int : h = m \div 2
  BY <1>1
<1>3. h + h <= m
  BY <1>1, <1>2
<1>4. n + h \in Int /\ 0 <= n + h /\ n + h < m
  BY <1>1, <1>2, <1>3
<1>5. (n + h) % m = n + h
  BY <1>1, <1>4
<1> QED BY <1>1, <1>2, <1>5 DEF ToInt

(***************************************************************************)
(* The invariant of the mapping: what the worker's locals have to do with  *)
(* the cursor of its feed.                                                 *)
(***************************************************************************)
Asked   == {"unstarted", "create", "publish", "first"}
Before  == {"unborn"} \cup Asked
Reading == {"deliver", "hook"}
Between == {"check", "poll", "caught", "errhook", "sleep"}
Ended   == {"uncaught", "lasthook", "finally", "free", "dead"}

\* A batch is what the stream holds from the cursor to the batch's end, and what is left
\* to deliver of it is what the cursor has not passed; between batches, next is the cursor.
InBatch(S, B, T, c) ==
  /\ B \subseteq S /\ T = {e \in B : c <= e}
  /\ \A e \in S, f \in B : c <= e /\ e <= f => e \in B
  /\ T = {} => AfterNewest(B) = c

SyncOf(w) ==
  /\ pos[w] \in Positions \cup {0}
  /\ pc[w] \in Before => delivered[w] = <<>>
  /\ pc[w] \in Between => next[w] = Cursor(w)
  /\ pc[w] \in Reading => InBatch(posted, batch[w], todo[w], Cursor(w))

FeedSync == \A w \in Worker : SyncOf(w)

\* What the mapped steps are: those of the feed, except that a count the cast changed may
\* open the feed elsewhere.
FeedStep ==
  \/ \E id \in 1..MaxId : Promise!Post(id)
  \/ \E w \in Worker :
       \/ \E p \in Positions : Promise!Ask(w, p)
       \/ \E id \in Positions \cup 0..MaxId + 1 :
            /\ Promise!OpenAnywhere(w, id)
            /\ NoCountWraps => Promise!Begins(pos[w], id)
       \/ \E e \in posted : Promise!HandOut(w, e)
       \/ Promise!End(w)

Mapped == FeedSync' /\ [FeedStep]_(Promise!vars)

LEMMA PcOfState ==
  ASSUME NEW w \in Worker, pc[w] \in PC
  PROVE  /\ FeedState(w) \in {"closed", "asked", "open", "ended"}
         /\ FeedState(w) = "closed" <=> pc[w] = "unborn"
         /\ FeedState(w) = "asked" <=> pc[w] \in Asked
         /\ FeedState(w) = "open" <=> pc[w] \in Reading \cup Between
         /\ FeedState(w) = "ended" <=> pc[w] \in Ended
  BY DEF FeedState, PC, Asked, Reading, Between, Ended

(***************************************************************************)
(* From a change of one worker to a step of its feed.                      *)
(***************************************************************************)
\* A step of worker w: the stream and the other workers' locals stay as they are.
Local(w) ==
  /\ posted' = posted /\ pos' = pos
  /\ pc' \in [Worker -> PC] /\ delivered' \in [Worker -> Seq(1..MaxId)]
  /\ \A v \in Worker \ {w} :
       /\ pc'[v] = pc[v] /\ next'[v] = next[v] /\ batch'[v] = batch[v] /\ todo'[v] = todo[v]
       /\ floor'[v] = floor[v] /\ delivered'[v] = delivered[v]

LEMMA Elsewhere ==
  ASSUME FeedSync, NEW w \in Worker, Local(w), NEW v \in Worker \ {w}
  PROVE  /\ SyncOf(v)' /\ FeedState(v)' = FeedState(v) /\ Cursor(v)' = Cursor(v)
         /\ delivered'[v] = delivered[v]
<1>1. Cursor(v)' = Cursor(v) /\ FeedState(v)' = FeedState(v)
  BY DEF Local, Cursor, FeedState
<1>2. SyncOf(v)
  BY DEF FeedSync
<1> QED BY <1>1, <1>2 DEF SyncOf, Local

LEMMA QuietStep ==
  ASSUME TypeOK, FeedSync, NEW w \in Worker, Local(w), SyncOf(w)',
         FeedState(w)' = FeedState(w), Cursor(w)' = Cursor(w), delivered'[w] = delivered[w]
  PROVE  Mapped
<1>1. \A v \in Worker : /\ FeedState(v)' = FeedState(v) /\ Cursor(v)' = Cursor(v)
                        /\ SyncOf(v)' /\ delivered'[v] = delivered[v]
  BY Elsewhere
<1>2. delivered' = delivered
  BY <1>1 DEF Local, TypeOK
<1>3. UNCHANGED Promise!vars
  BY <1>1, <1>2 DEF Promise!vars, Local
<1> QED BY <1>1, <1>3 DEF Mapped, FeedSync

LEMMA EndStep ==
  ASSUME TypeOK, FeedSync, NEW w \in Worker, Local(w), SyncOf(w)',
         FeedState(w) \in {"asked", "open"}, FeedState(w)' = "ended",
         Cursor(w)' = Cursor(w), delivered'[w] = delivered[w]
  PROVE  Mapped
<1>1. \A v \in Worker : Cursor(v)' = Cursor(v) /\ SyncOf(v)' /\ delivered'[v] = delivered[v]
  BY Elsewhere
<1>2. \A v \in Worker \ {w} : FeedState(v)' = FeedState(v)
  BY Elsewhere
<1>3. delivered' = delivered
  BY <1>1 DEF Local, TypeOK
<1>4. Promise!End(w)
  BY <1>1, <1>2, <1>3 DEF Promise!End, Local
<1> QED BY <1>1, <1>4 DEF Mapped, FeedSync, FeedStep

LEMMA OpenStep ==
  ASSUME TypeOK, FeedSync, NEW w \in Worker, Local(w), SyncOf(w)',
         FeedState(w) = "asked", FeedState(w)' = "open", delivered'[w] = delivered[w],
         NEW id \in Positions \cup 0..MaxId + 1, Cursor(w)' = id,
         NoCountWraps => Promise!Begins(pos[w], id)
  PROVE  Mapped
<1>1. \A v \in Worker : SyncOf(v)' /\ delivered'[v] = delivered[v]
  BY Elsewhere
<1>2. \A v \in Worker \ {w} : FeedState(v)' = FeedState(v) /\ Cursor(v)' = Cursor(v)
  BY Elsewhere
<1>3. delivered' = delivered
  BY <1>1 DEF Local, TypeOK
<1>4. Promise!OpenAnywhere(w, id)
  BY <1>2, <1>3 DEF Promise!OpenAnywhere, Local
<1> QED BY <1>1, <1>4 DEF Mapped, FeedSync, FeedStep

LEMMA HandOutStep ==
  ASSUME TypeOK, FeedSync, NEW w \in Worker, Local(w), SyncOf(w)',
         FeedState(w) = "open", FeedState(w)' = "open",
         NEW e \in posted, Cursor(w) <= e, \A d \in posted : Cursor(w) <= d => e <= d,
         Cursor(w)' = e + 1, delivered' = [delivered EXCEPT ![w] = Append(@, e)]
  PROVE  Mapped
<1>1. \A v \in Worker : SyncOf(v)' /\ FeedState(v)' = FeedState(v)
  BY Elsewhere
<1>2. \A v \in Worker \ {w} : Cursor(v)' = Cursor(v)
  BY Elsewhere
<1>3. Promise!FirstOf(Promise!Ahead(Cursor(w)), e)
  <2>1. \A d \in posted : d \in Int
    BY NumberAssumption DEF TypeOK
  <2>2. Cursor(w) \in Int
    BY <2>1, NumberAssumption DEF Cursor, TypeOK
  <2> QED BY <2>1, <2>2 DEF Promise!FirstOf, Promise!Ahead
<1>4. Promise!HandOut(w, e)
  BY <1>1, <1>2, <1>3 DEF Promise!HandOut, Local
<1> QED BY <1>1, <1>4 DEF Mapped, FeedSync, FeedStep

\* The cursor is a number.
LEMMA CursorType == ASSUME TypeOK, NEW w \in Worker PROVE Cursor(w) \in Int
<1>1. floor[w] \in Int /\ delivered[w] \in Seq(1..MaxId) /\ MaxId \in Nat
  BY NumberAssumption DEF TypeOK
<1>2. ASSUME delivered[w] # <<>> PROVE delivered[w][Len(delivered[w])] \in 1..MaxId
  BY <1>1, <1>2
<1> QED BY <1>1, <1>2 DEF Cursor

\* The classes a pc may move within without the feed noticing.
SameClass(here, there) ==
  \E class \in {Asked, Reading, Between, Ended} : here \in class /\ there \in class

LEMMA MoveStep ==
  ASSUME TypeOK, FeedSync, NEW w \in Worker, NEW here \in PC, NEW there \in PC,
         At(w, here, there), UNCHANGED <<load, posted, floor, delivered>>,
         SameClass(here, there) \/ (here # "unborn" /\ there \in Ended)
  PROVE  Mapped
<1>1. Local(w)
  BY DEF Local, At, TypeOK, load
<1>2. pc[w] = here /\ pc'[w] = there
  BY DEF At, TypeOK
<1>3. Cursor(w)' = Cursor(w) /\ delivered'[w] = delivered[w]
  BY DEF Cursor
<1>4. SyncOf(w)'
  <2>1. SyncOf(w)
    BY DEF FeedSync
  <2> QED BY <1>2, <1>3, <2>1
          DEF SyncOf, SameClass, Before, Asked, Reading, Between, Ended, load
<1>5. CASE FeedState(w)' = FeedState(w)
  BY <1>1, <1>3, <1>4, <1>5, QuietStep
<1>6. CASE FeedState(w)' # FeedState(w)
  <2>1. FeedState(w) \in {"asked", "open"} /\ FeedState(w)' = "ended"
    BY <1>2, <1>6 DEF FeedState, PC, SameClass, Asked, Reading, Between, Ended
  <2> QED BY <1>1, <1>3, <1>4, <2>1, EndStep
<1> QED BY <1>5, <1>6

(***************************************************************************)
(* What the loads give.                                                    *)
(***************************************************************************)
\* The newest events are an upper end of the stream, and some if there are any.
LEMMA NewestIsAnEnd ==
  ASSUME TypeOK, NEW n \in Int
  PROVE  /\ Newest(n) \subseteq posted
         /\ \A e \in posted, f \in Newest(n) : f <= e => e \in Newest(n)
         /\ n > 0 /\ Newest(n) = {} => posted = {}
<1>0. MaxId \in Nat /\ posted \subseteq 1..MaxId /\ IsFiniteSet(posted)
  <2>1. MaxId \in Nat /\ posted \subseteq 1..MaxId
    BY NumberAssumption DEF TypeOK
  <2>2. IsFiniteSet(1..MaxId)
    BY <2>1, FS_Interval
  <2> QED BY <2>1, <2>2, FS_Subset
<1>1. \A e \in posted : e \in Int
  BY <1>0
<1>2. ASSUME NEW e \in posted, NEW f \in Newest(n), f <= e PROVE e \in Newest(n)
  <2> DEFINE AfterE == {g \in posted : g > e}
  <2> DEFINE AfterF == {g \in posted : g > f}
  <2>1. f \in posted /\ Cardinality(AfterF) < n
    BY DEF Newest
  <2>2. AfterE \subseteq AfterF
    BY <1>1, <1>2, <2>1
  <2>3. IsFiniteSet(AfterF) /\ IsFiniteSet(AfterE)
    BY <1>0, FS_Subset
  <2>4. Cardinality(AfterE) \in Nat /\ Cardinality(AfterF) \in Nat
    BY <2>3, FS_CardinalityType
  <2>5. Cardinality(AfterE) <= Cardinality(AfterF)
    <3> HIDE DEF AfterE, AfterF
    <3> QED BY <2>2, <2>3, FS_Subset
  <2>6. Cardinality(AfterE) < n
    <3> HIDE DEF AfterE, AfterF
    <3> QED BY <2>1, <2>4, <2>5
  <2> QED BY <2>6 DEF Newest
<1>3. ASSUME n > 0, posted # {} PROVE Newest(n) # {}
  <2>1. MaxIdIn(posted) \in posted /\ \A e \in posted : e <= MaxIdIn(posted)
    BY <1>0, <1>3, MaxIdGreatest
  <2>2. {g \in posted : g > MaxIdIn(posted)} = {}
    BY <1>1, <2>1
  <2>3. Cardinality({g \in posted : g > MaxIdIn(posted)}) = 0
    BY <2>2, FS_EmptySet
  <2>4. MaxIdIn(posted) \in Newest(n)
    BY <1>3, <2>1, <2>3 DEF Newest
  <2> QED BY <2>4
<1>4. Newest(n) \subseteq posted
  BY DEF Newest
<1> QED BY <1>2, <1>3, <1>4

\* A reverse load gives an upper end of the stream, the asked one if the count is positive.
LEMMA ReverseLoadIsAnEnd ==
  ASSUME TypeOK, NEW n \in Int, NEW S \in ReverseLoad(n)
  PROVE  /\ S \subseteq posted
         /\ \A e \in posted, f \in S : f <= e => e \in S
         /\ n > 0 => S = Newest(n) /\ (S = {} => posted = {})
<1>1. CASE n > 0
  BY <1>1, NewestIsAnEnd DEF ReverseLoad
<1>2. CASE ~(n > 0)
  <2>1. PICK m \in 0..Cardinality(posted) : S = Newest(m)
    BY <1>2 DEF ReverseLoad
  <2>2. m \in Int
    BY <2>1
  <2> QED BY <1>2, <2>1, <2>2, NewestIsAnEnd
<1> QED BY <1>1, <1>2

\* The least id of a batch, or 0, is where its feed begins.
LEMMA BeginOfBatch ==
  ASSUME TypeOK, NEW S, S \subseteq posted, NEW id, id = IF S = {} THEN 0 ELSE MinId(S)
  PROVE  /\ id \in 0..MaxId + 1
         /\ \A e \in S : id <= e
         /\ S # {} => id \in S
         /\ S = {} => id = 0 /\ AfterNewest(S) = 0
<1>1. MaxId \in Nat /\ S \subseteq 1..MaxId /\ S \subseteq Nat
  BY NumberAssumption DEF TypeOK
<1>2. CASE S = {}
  BY <1>1, <1>2 DEF AfterNewest
<1>3. CASE S # {}
  <2>1. id \in S /\ \A e \in S : id <= e
    BY <1>1, <1>3, MinIdLeast
  <2>2. id \in 1..MaxId
    BY <1>1, <2>1
  <2> QED BY <1>1, <1>3, <2>1, <2>2
<1> QED BY <1>2, <1>3

\* The (int) cast of a number is a number.
LEMMA ToIntType == ASSUME NEW n \in Int PROVE ToInt(n) \in Int
<1>1. IntModulus \in Int /\ IntModulus > 0
  BY NumberAssumption
<1>2. IntModulus \div 2 \in Int
  BY <1>1
<1>3. (n + IntModulus \div 2) % IntModulus \in Int
  BY <1>1, <1>2
<1> QED BY <1>2, <1>3 DEF ToInt

(***************************************************************************)
(* The steps that open a feed.                                             *)
(***************************************************************************)
LEMMA BeginAtMaps ==
  ASSUME TypeOK, FeedSync, NEW w \in Worker, NEW id \in Positions \cup 0..MaxId + 1,
         BeginAt(w, id), NoCountWraps => Promise!Begins(pos[w], id)
  PROVE  Mapped
<1>1. pc[w] = "first" /\ pc' = [pc EXCEPT ![w] = "check"]
  BY DEF BeginAt, At
<1>2. id \in Int
  BY NumberAssumption
<1>3. Local(w)
  BY <1>1, <1>2 DEF Local, BeginAt, TypeOK, PC, outside, history
<1>4. delivered[w] = <<>> /\ delivered' = delivered /\ pos' = pos /\ posted' = posted
  BY <1>1 DEF FeedSync, SyncOf, Before, Asked, BeginAt, outside
<1>5. pc'[w] = "check" /\ next'[w] = id /\ floor'[w] = id
  BY <1>1 DEF TypeOK, BeginAt
<1>6. Cursor(w)' = id
  BY <1>4, <1>5 DEF Cursor
<1>7. SyncOf(w)'
  BY <1>4, <1>5, <1>6 DEF FeedSync, SyncOf, Before, Asked, Reading, Between
<1>8. FeedState(w) = "asked" /\ FeedState(w)' = "open"
  BY <1>1, <1>5 DEF FeedState
<1> QED BY <1>3, <1>4, <1>6, <1>7, <1>8, OpenStep

\* start(): after the newest event nothing is ahead.
LEMMA ProbeMaps == ASSUME TypeOK, FeedSync, NEW w \in Worker, Probe(w) PROVE Mapped
<1>1. posted \subseteq 1..MaxId /\ MaxId \in Nat
  BY NumberAssumption DEF TypeOK
<1>2. AfterNewest(posted) \in 0..MaxId + 1 /\ \A e \in posted : e < AfterNewest(posted)
  BY <1>1, AfterNewestBound
<1>3. Promise!Begins(pos[w], AfterNewest(posted))
  <2>1. Promise!Ahead(AfterNewest(posted)) = {}
    <3>1. AfterNewest(posted) \in Int /\ \A e \in posted : e \in Int
      BY <1>1, <1>2
    <3>2. \A e \in posted : ~(e >= AfterNewest(posted))
      BY <1>2, <3>1
    <3> QED BY <3>2 DEF Promise!Ahead
  <2> QED BY <2>1 DEF Promise!Begins, Probe
<1> QED BY <1>2, <1>3, BeginAtMaps DEF Probe

LEMMA ReplayMaps == ASSUME TypeOK, FeedSync, NEW w \in Worker, Replay(w) PROVE Mapped
<1>1. pos[w] \in Positions \cup 0..MaxId + 1
  BY NumberAssumption DEF FeedSync, SyncOf
<1>2. Promise!Begins(pos[w], pos[w])
  BY DEF Promise!Begins, Replay
<1> QED BY <1>1, <1>2, BeginAtMaps DEF Replay

LEMMA BackfillMaps == ASSUME TypeOK, FeedSync, NEW w \in Worker, Backfill(w) PROVE Mapped
<1>1. PICK S \in ReverseLoad(ToInt(-pos[w])) :
        /\ batch' = [batch EXCEPT ![w] = S] /\ todo' = [todo EXCEPT ![w] = S]
        /\ floor' = [floor EXCEPT ![w] = IF S = {} THEN 0 ELSE MinId(S)]
  BY DEF Backfill
<1>2. PICK id : id = IF S = {} THEN 0 ELSE MinId(S)
  OBVIOUS
<1>3. /\ pos[w] \in Int /\ -pos[w] \in Int /\ ToInt(-pos[w]) \in Int /\ pos[w] < 0
      /\ pos[w] # FromNow /\ pos[w] \in Positions
  <2>1. pos[w] \in Int /\ pos[w] < 0 /\ pos[w] # FromNow /\ pos[w] \in Positions \cup {0}
    BY DEF TypeOK, FeedSync, SyncOf, Backfill
  <2>2. -pos[w] \in Int
    BY <2>1
  <2> QED BY <2>1, <2>2, ToIntType
<1>4. /\ S \subseteq posted /\ \A e \in posted, f \in S : f <= e => e \in S
      /\ ToInt(-pos[w]) > 0 => S = Newest(ToInt(-pos[w])) /\ (S = {} => posted = {})
  BY <1>3, ReverseLoadIsAnEnd
<1>5. /\ id \in 0..MaxId + 1 /\ \A e \in S : id <= e
      /\ S # {} => id \in S
      /\ S = {} => id = 0 /\ AfterNewest(S) = 0
  BY <1>2, <1>4, BeginOfBatch
<1>6. /\ pc[w] = "first" /\ pc' = [pc EXCEPT ![w] = "deliver"]
      /\ delivered' = delivered /\ pos' = pos /\ posted' = posted /\ next' = next
  BY DEF Backfill, At, outside
<1>7. Local(w)
  BY <1>1, <1>6 DEF Local, TypeOK, PC
<1>8. /\ pc'[w] = "deliver" /\ batch'[w] = S /\ todo'[w] = S /\ floor'[w] = id
      /\ delivered[w] = <<>> /\ pos[w] \in Positions \cup {0}
  BY <1>1, <1>2, <1>6 DEF TypeOK, FeedSync, SyncOf, Before, Asked
<1>9. Cursor(w)' = id
  BY <1>6, <1>8 DEF Cursor
<1>10. InBatch(posted, S, S, id)
  <2>1. \A e \in posted, f \in S : id <= e /\ e <= f => e \in S
    BY <1>4, <1>5
  <2> QED BY <1>4, <1>5, <2>1 DEF InBatch
<1>11. SyncOf(w)'
  BY <1>6, <1>8, <1>9, <1>10 DEF SyncOf, Before, Asked, Between
<1>12. FeedState(w) = "asked" /\ FeedState(w)' = "open"
  BY <1>6, <1>8 DEF FeedState
<1>13. ASSUME NoCountWraps PROVE Promise!Begins(pos[w], id)
  <2>1. ToInt(-pos[w]) = -pos[w] /\ -pos[w] > 0
    <3>1. -pos[w] > 0 /\ -pos[w] < IntModulus \div 2
      BY <1>3, <1>13 DEF NoCountWraps
    <3> QED BY <1>3, <3>1, ToIntFits
  <2>2. S = Newest(-pos[w]) /\ (S = {} => posted = {})
    BY <1>4, <2>1
  <2>3. {e \in posted : e >= id} = S
    <3>1. \A e \in posted : e \in Int
      BY NumberAssumption DEF TypeOK
    <3>2. id \in Int
      BY <1>5
    <3> SUFFICES ASSUME NEW e \in posted PROVE e >= id <=> e \in S
      BY <1>4
    <3>3. CASE S = {}
      BY <2>2, <3>3
    <3>4. CASE S # {}
      BY <1>4, <1>5, <3>1, <3>2, <3>4
    <3> QED BY <3>3, <3>4
  <2>4. Promise!Newest(-pos[w]) = Newest(-pos[w])
    BY DEF Promise!Newest, Newest, Promise!Cardinality, Cardinality
  <2>5. Promise!Ahead(id) = S
    BY <2>3 DEF Promise!Ahead
  <2> QED BY <1>3, <2>2, <2>4, <2>5 DEF Promise!Begins
<1> QED BY <1>5, <1>6, <1>7, <1>8, <1>9, <1>11, <1>12, <1>13, OpenStep

(***************************************************************************)
(* The steps that load, hand out and finish a batch.                       *)
(***************************************************************************)
\* A poll cuts the stream at the end of its batch only.
LEMMA PollLoadsMaps == ASSUME TypeOK, FeedSync, NEW w \in Worker, PollLoads(w) PROVE Mapped
<1>1. PICK S \in ForwardLoad(next[w]) :
        batch' = [batch EXCEPT ![w] = S] /\ todo' = [todo EXCEPT ![w] = S]
  BY DEF PollLoads
<1>2. PICK last \in Ahead(next[w]) : S = {e \in Ahead(next[w]) : e <= last}
  BY DEF ForwardLoad
<1>3. /\ pc[w] = "poll" /\ pc' = [pc EXCEPT ![w] = "deliver"]
      /\ UNCHANGED <<posted, pos, next, floor, delivered>>
  BY DEF PollLoads, At, outside, history
<1>4. Local(w)
  BY <1>1, <1>3 DEF Local, TypeOK, PC
<1>5. /\ pc'[w] = "deliver" /\ batch'[w] = S /\ todo'[w] = S
      /\ next[w] = Cursor(w) /\ pos[w] \in Positions \cup {0}
  BY <1>1, <1>3 DEF TypeOK, FeedSync, SyncOf, Between
<1>6. Cursor(w)' = Cursor(w)
  BY <1>3 DEF Cursor
<1>7. InBatch(posted, S, S, Cursor(w))
  <2>1. Cursor(w) \in Int /\ \A e \in posted : e \in Int
    BY NumberAssumption, CursorType DEF TypeOK
  <2>2. last \in S /\ S \subseteq posted /\ \A e \in S : Cursor(w) <= e /\ e <= last
    BY <1>2, <1>5, <2>1 DEF Ahead
  <2>3. ASSUME NEW e \in posted, NEW f \in S, Cursor(w) <= e, e <= f PROVE e \in S
    <3>1. e <= last
      BY <2>1, <2>2, <2>3
    <3> QED BY <1>2, <1>5, <2>1, <2>3, <3>1 DEF Ahead
  <2> QED BY <2>2, <2>3 DEF InBatch
<1>8. SyncOf(w)'
  BY <1>3, <1>5, <1>6, <1>7 DEF SyncOf, Before, Asked, Between
<1>9. FeedState(w) = "open" /\ FeedState(w)' = "open"
  BY <1>3, <1>5 DEF FeedState
<1> QED BY <1>3, <1>4, <1>6, <1>8, <1>9, QuietStep

\* The next event of a batch is the first of the stream from the cursor on.
LEMMA FirstOfBatch ==
  ASSUME NEW S, NEW B, NEW T, NEW c \in Int, S \subseteq 1..MaxId,
         InBatch(S, B, T, c), T # {}
  PROVE  /\ MinId(T) \in S /\ c <= MinId(T)
         /\ \A d \in S : c <= d => MinId(T) <= d
         /\ InBatch(S, B, T \ {MinId(T)}, MinId(T) + 1)
<1>1. MaxId \in Nat /\ \A e \in S : e \in Int
  BY NumberAssumption
<1>2. B \subseteq S /\ T = {e \in B : c <= e} /\ T \subseteq Nat
      /\ \A e \in S, f \in B : c <= e /\ e <= f => e \in B
  BY <1>1 DEF InBatch
<1>3. PICK m \in T : m = MinId(T)
  BY <1>2, MinIdLeast
<1>4. m \in B /\ m \in S /\ m \in Int /\ c <= m /\ \A y \in T : m <= y
  BY <1>1, <1>2, <1>3, MinIdLeast
<1>5. ASSUME NEW d \in S, c <= d PROVE m <= d
  <2>1. CASE d <= m
    BY <1>2, <1>4, <1>5, <2>1
  <2> QED BY <1>1, <1>4, <2>1
<1>6. T \ {m} = {e \in B : m + 1 <= e}
  <2> SUFFICES ASSUME NEW e \in B PROVE (e \in T /\ e # m) <=> m + 1 <= e
    BY <1>2
  <2>1. e \in Int /\ (e \in T <=> c <= e) /\ (e \in T => m <= e)
    BY <1>1, <1>2, <1>4
  <2> QED BY <1>4, <2>1
<1>7. \A e \in S, f \in B : m + 1 <= e /\ e <= f => e \in B
  <2> SUFFICES ASSUME NEW e \in S, NEW f \in B, m + 1 <= e, e <= f PROVE e \in B
    OBVIOUS
  <2>1. c <= e
    BY <1>1, <1>4
  <2> QED BY <1>2, <2>1
<1>8. ASSUME T \ {m} = {} PROVE AfterNewest(B) = m + 1
  <2>1. B # {} /\ B \subseteq 1..MaxId
    BY <1>2, <1>4
  <2>2. MaxIdIn(B) \in B /\ \A y \in B : y <= MaxIdIn(B)
    BY <1>1, <2>1, MaxIdGreatest
  <2>3. MaxIdIn(B) \in Int /\ m <= MaxIdIn(B) /\ ~(m + 1 <= MaxIdIn(B))
    BY <1>1, <1>2, <1>4, <1>6, <1>8, <2>2
  <2>4. MaxIdIn(B) = m
    BY <1>4, <2>3
  <2> QED BY <2>1, <2>4 DEF AfterNewest
<1> QED BY <1>2, <1>3, <1>4, <1>5, <1>6, <1>7, <1>8 DEF InBatch

\* A hook gets the next event, at once or through the executor; an executor that refuses
\* ends the feed.
LEMMA DeliverMaps == ASSUME TypeOK, TypeOK', FeedSync, NEW w \in Worker, Deliver(w) PROVE Mapped
<1>1. /\ pc[w] = "deliver" /\ todo[w] # {} /\ HandOver(w, "hook", "deliver")
      /\ UNCHANGED <<posted, pos, next, batch, floor>>
  BY DEF Deliver, outside
<1>2. Local(w)
  <2>1. pc' \in [Worker -> PC] /\ delivered' \in [Worker -> Seq(1..MaxId)]
    BY DEF TypeOK
  <2>2. \A v \in Worker \ {w} : pc'[v] = pc[v]
    BY <1>1 DEF HandOver, TypeOK
  <2>3. \A v \in Worker \ {w} : todo'[v] = todo[v] /\ delivered'[v] = delivered[v]
    <3>1. CASE Accepted
      BY <3>1 DEF Deliver, TypeOK
    <3>2. CASE ~Accepted
      BY <3>2 DEF Deliver
    <3> QED BY <3>1, <3>2
  <2> QED BY <1>1, <2>1, <2>2, <2>3 DEF Local
<1>3. pos[w] \in Positions \cup {0} /\ InBatch(posted, batch[w], todo[w], Cursor(w))
  BY <1>1 DEF FeedSync, SyncOf, Reading
<1>4. FeedState(w) = "open"
  BY <1>1 DEF FeedState
<1>5. CASE ~Accepted
  <2>1. pc'[w] = "finally" /\ delivered' = delivered
    BY <1>1, <1>5 DEF Deliver, HandOver, Accepted, TypeOK
  <2>2. Cursor(w)' = Cursor(w)
    BY <1>1, <2>1 DEF Cursor
  <2>3. SyncOf(w)'
    BY <1>1, <1>3, <2>1 DEF SyncOf, Before, Asked, Reading, Between
  <2>4. FeedState(w)' = "ended"
    BY <2>1 DEF FeedState
  <2> QED BY <1>2, <1>4, <2>1, <2>2, <2>3, <2>4, EndStep
<1>6. CASE Accepted
  <2>1. PICK e : e = MinId(todo[w])
    OBVIOUS
  <2>2. /\ delivered' = [delivered EXCEPT ![w] = Append(@, e)]
        /\ todo' = [todo EXCEPT ![w] = @ \ {e}]
    BY <1>6, <2>1 DEF Deliver
  <2>3. pc'[w] \in Reading
    BY <1>1, <1>6 DEF HandOver, Accepted, Reading, TypeOK
  <2>4. Cursor(w) \in Int /\ posted \subseteq 1..MaxId /\ MaxId \in Nat
    BY CursorType, NumberAssumption DEF TypeOK
  <2>5. /\ e \in posted /\ Cursor(w) <= e /\ \A d \in posted : Cursor(w) <= d => e <= d
        /\ InBatch(posted, batch[w], todo[w] \ {e}, e + 1)
    BY <1>1, <1>3, <2>1, <2>4, FirstOfBatch
  <2>6. Cursor(w)' = e + 1
    <3>1. delivered[w] \in Seq(1..MaxId) /\ delivered'[w] = Append(delivered[w], e)
          /\ e \in 1..MaxId
      BY <2>2, <2>4, <2>5 DEF TypeOK
    <3>2. PICK s \in Seq(1..MaxId) : s = delivered[w]
      BY <3>1
    <3>3. Len(Append(s, e)) = Len(s) + 1 /\ Append(s, e)[Len(s) + 1] = e /\ Len(s) \in Nat
      BY <3>1
    <3>4. Append(s, e) # <<>>
      <4>1. Len(<<>>) = 0
        OBVIOUS
      <4> QED BY <3>3, <4>1
    <3> QED BY <3>1, <3>2, <3>3, <3>4 DEF Cursor
  <2>7. batch'[w] = batch[w] /\ todo'[w] = todo[w] \ {e}
    BY <1>1, <2>2 DEF TypeOK
  <2>8. SyncOf(w)'
    BY <1>1, <1>3, <2>3, <2>5, <2>6, <2>7 DEF SyncOf, Before, Asked, Reading, Between
  <2>9. FeedState(w)' = "open"
    BY <2>3 DEF FeedState, Reading
  <2> QED BY <1>2, <1>4, <2>2, <2>5, <2>6, <2>8, <2>9, HandOutStep
<1> QED BY <1>5, <1>6

LEMMA BatchDoneMaps == ASSUME TypeOK, FeedSync, NEW w \in Worker, BatchDone(w) PROVE Mapped
<1>1. /\ pc[w] = "deliver" /\ todo[w] = {} /\ pc' = [pc EXCEPT ![w] = "check"]
      /\ next' = [next EXCEPT ![w] = AfterNewest(batch[w])]
      /\ UNCHANGED <<posted, pos, todo, floor, delivered>>
      /\ \A v \in Worker \ {w} : batch'[v] = batch[v]
  BY DEF BatchDone, At, outside, history, TypeOK
<1>2. Local(w)
  BY <1>1 DEF Local, TypeOK, PC
<1>3. pos[w] \in Positions \cup {0} /\ AfterNewest(batch[w]) = Cursor(w)
  BY <1>1 DEF FeedSync, SyncOf, Reading, InBatch
<1>4. pc'[w] = "check" /\ next'[w] = AfterNewest(batch[w])
  BY <1>1 DEF TypeOK
<1>5. Cursor(w)' = Cursor(w) /\ delivered'[w] = delivered[w]
  BY <1>1 DEF Cursor
<1>6. SyncOf(w)'
  BY <1>1, <1>3, <1>4, <1>5 DEF SyncOf, Before, Asked, Reading, Between
<1>7. FeedState(w) = "open" /\ FeedState(w)' = "open"
  BY <1>1, <1>4 DEF FeedState
<1> QED BY <1>2, <1>5, <1>6, <1>7, QuietStep

\* Reporting an error moves the pc, or ends the feed.
LEMMA ReportMaps ==
  ASSUME TypeOK, FeedSync, NEW w \in Worker, NEW hook \in PC, NEW after \in PC,
         Report(w, hook, after),
         \/ pc[w] = "caught" /\ hook \in Between /\ after \in Between
         \/ pc[w] = "uncaught" /\ hook \in Ended /\ after \in Ended
  PROVE  Mapped
<1>1. PICK there \in PC : /\ pc' = [pc EXCEPT ![w] = there]
                          /\ there \in {hook, after, "finally"}
  BY DEF Report, HandOver, PC
<1>2. At(w, pc[w], there) /\ UNCHANGED <<load, posted, floor, delivered>>
  BY <1>1 DEF At, Report, outside
<1>3. SameClass(pc[w], there) \/ (pc[w] # "unborn" /\ there \in Ended)
  BY <1>1 DEF SameClass, Asked, Reading, Between, Ended
<1>4. pc[w] \in PC
  BY DEF TypeOK
<1> QED BY <1>2, <1>3, <1>4, MoveStep

(***************************************************************************)
(* Every step of a worker maps to a step of its feed, or to none.          *)
(***************************************************************************)
LEMMA WorkerMaps ==
  ASSUME TypeOK, TypeOK', FeedSync, NEW w \in Worker, WorkerStep(w)
  PROVE  Mapped
<1> USE DEF SameClass, Asked, Reading, Between, Ended, PC
<1>1. ASSUME NEW here \in PC, NEW there \in PC, At(w, here, there), UNCHANGED butPc,
             SameClass(here, there) \/ (here # "unborn" /\ there \in Ended)
      PROVE  Mapped
  BY <1>1, MoveStep DEF butPc, outside, history
<1>2. ASSUME NEW there \in PC, pc[w] \in PC, Fault(w, there) \/ Aborted(w, there),
             SameClass(pc[w], there) \/ (pc[w] # "unborn" /\ there \in Ended)
      PROVE  Mapped
  <2>1. At(w, pc[w], there)
    BY <1>2 DEF Fault, Aborted, At
  <2> QED BY <1>2, <2>1, MoveStep DEF Fault, Aborted, outside, history
<1>3. CASE Create(w)
  BY <1>3, MoveStep DEF Create, outside, history
<1>4. CASE CreateFails(w)
  BY <1>2, <1>4 DEF CreateFails
<1>5. CASE Publish(w)
  BY <1>5, MoveStep DEF Publish, outside, history
<1>6. CASE Probe(w) \/ Replay(w) \/ Backfill(w)
  BY <1>6, ProbeMaps, ReplayMaps, BackfillMaps
<1>7. CASE FirstFails(w)
  BY <1>2, <1>7 DEF FirstFails
<1>8. CASE Check(w)
  BY <1>1, <1>8 DEF Check
<1>9. CASE PollLoads(w)
  BY <1>9, PollLoadsMaps
<1>10. CASE PollEmpty(w)
  BY <1>1, <1>10 DEF PollEmpty
<1>11. CASE PollFails(w)
  BY <1>2, <1>11 DEF PollFails
<1>12. CASE Deliver(w) \/ BatchDone(w)
  BY <1>12, DeliverMaps, BatchDoneMaps
<1>13. CASE CaughtStopped(w) \/ SleepEnds(w) \/ HookReturns(w)
  BY <1>1, <1>13 DEF CaughtStopped, SleepEnds, Retry, HookReturns
<1>14. CASE Caught(w)
  BY <1>14, ReportMaps DEF Caught
<1>15. CASE Uncaught(w)
  BY <1>15, ReportMaps DEF Uncaught
<1>16. CASE SleepInterrupted(w)
  BY <1>16, MoveStep DEF SleepInterrupted, outside, history
<1>17. CASE TakeHandle(w)
  BY <1>17, MoveStep DEF TakeHandle, outside, history
<1>18. CASE Free(w)
  BY <1>18, MoveStep DEF Free, outside, history
<1> QED BY <1>3, <1>4, <1>5, <1>6, <1>7, <1>8, <1>9, <1>10, <1>11, <1>12, <1>13, <1>14,
           <1>15, <1>16, <1>17, <1>18 DEF WorkerStep

(***************************************************************************)
(* The other steps.                                                        *)
(***************************************************************************)
\* A step that touches nothing the feed is mapped from.
LEMMA ApartMaps ==
  ASSUME TypeOK, FeedSync, UNCHANGED <<pc, load, posted, floor, delivered>> PROVE Mapped
<1>1. \A v \in Worker : Cursor(v)' = Cursor(v) /\ FeedState(v)' = FeedState(v)
  BY DEF Cursor, FeedState
<1>2. UNCHANGED Promise!vars
  BY <1>1 DEF Promise!vars, load
<1>3. FeedSync'
  BY <1>1 DEF FeedSync, SyncOf, load
<1> QED BY <1>2, <1>3 DEF Mapped

\* A new event is past every batch.
LEMMA PostMaps == ASSUME TypeOK, FeedSync, NEW id \in 1..MaxId, Post(id) PROVE Mapped
<1>1. MaxId \in Nat /\ posted \subseteq 1..MaxId /\ \A e \in posted : e \in Int
  BY NumberAssumption DEF TypeOK
<1>2. posted' = posted \cup {id} /\ UNCHANGED <<pc, load, floor, delivered>>
  BY DEF Post, history
<1>3. \A e \in posted : e < id
  <2> SUFFICES ASSUME NEW e \in posted PROVE e < id
    OBVIOUS
  <2>1. MaxIdIn(posted) \in posted /\ e <= MaxIdIn(posted)
    BY <1>1, MaxIdGreatest
  <2>2. PICK m \in posted : m = MaxIdIn(posted)
    BY <2>1
  <2>3. id > m /\ e <= m
    BY <2>1, <2>2 DEF Post
  <2>4. id \in Int /\ e \in Int /\ m \in Int
    BY <1>1
  <2> QED BY <2>3, <2>4
<1>4. \A v \in Worker : Cursor(v)' = Cursor(v) /\ FeedState(v)' = FeedState(v)
  BY <1>2 DEF Cursor, FeedState
<1>5. Promise!Post(id)
  BY <1>2, <1>3, <1>4 DEF Promise!Post, load
<1>6. ASSUME NEW w \in Worker PROVE SyncOf(w)'
  <2>1. SyncOf(w)
    BY DEF FeedSync
  <2>2. ASSUME InBatch(posted, batch[w], todo[w], Cursor(w))
        PROVE  InBatch(posted \cup {id}, batch[w], todo[w], Cursor(w))
    <3>1. ASSUME NEW f \in batch[w] PROVE ~(id <= f)
      <4>1. f \in posted
        BY <2>2 DEF InBatch
      <4>2. f < id /\ f \in Int /\ id \in Int
        BY <1>1, <1>3, <4>1
      <4> QED BY <4>2
    <3> QED BY <2>2, <3>1 DEF InBatch
  <2> QED BY <1>2, <1>4, <2>1, <2>2 DEF SyncOf, load
<1> QED BY <1>5, <1>6 DEF Mapped, FeedSync, FeedStep

\* start() asks for a feed of the worker it creates.
LEMMA StartMaps ==
  ASSUME TypeOK, FeedSync, NEW t \in Thread, NEW p \in Positions, Start(t, p) PROVE Mapped
<1>1. PICK w \in Worker :
        /\ pc[w] = "unborn"
        /\ pc' = [pc EXCEPT ![w] = "unstarted"] /\ pos' = [pos EXCEPT ![w] = p]
  BY DEF Start
<1>2. UNCHANGED <<next, batch, todo, posted, floor, delivered>>
  BY DEF Start, history
<1>3. /\ pc'[w] = "unstarted" /\ pos'[w] = p
      /\ \A v \in Worker \ {w} : pc'[v] = pc[v] /\ pos'[v] = pos[v]
  BY <1>1 DEF TypeOK
<1>4. \A v \in Worker : Cursor(v)' = Cursor(v)
  BY <1>2 DEF Cursor
<1>5. /\ FeedState(w) = "closed" /\ FeedState(w)' = "asked"
      /\ \A v \in Worker \ {w} : FeedState(v)' = FeedState(v)
  BY <1>1, <1>3 DEF FeedState
<1>6. Promise!Ask(w, p)
  BY <1>1, <1>2, <1>4, <1>5 DEF Promise!Ask
<1>7. ASSUME NEW v \in Worker PROVE SyncOf(v)'
  <2>1. SyncOf(v)
    BY DEF FeedSync
  <2>2. CASE v = w
    BY <1>1, <1>2, <1>3, <2>1, <2>2 DEF SyncOf, Before, Asked, Reading, Between
  <2>3. CASE v # w
    BY <1>2, <1>3, <1>4, <2>1, <2>3 DEF SyncOf
  <2> QED BY <2>2, <2>3
<1> QED BY <1>6, <1>7 DEF Mapped, FeedSync, FeedStep

\* Thread.start(): the launched worker is one whose feed is asked for.
LEMMA LaunchMaps ==
  ASSUME TypeOK, LifecycleInv, FeedSync, NEW t \in Thread, Launch(t) PROVE Mapped
<1>1. worker \in Worker /\ pc[worker] = "unstarted"
  BY DEF Launch, LifecycleInv, MonitorHeld, TypeOK
<1>2. PICK w \in Worker : w = worker
  BY <1>1
<1>3. At(w, "unstarted", "create") /\ UNCHANGED <<load, posted, floor, delivered>>
  BY <1>1, <1>2 DEF Launch, At, outside, history
<1> QED BY <1>2, <1>3, MoveStep DEF SameClass, Asked, PC

\* Every step of the watch is one of the feeds, or leaves them alone.
LEMMA StepMaps == TypeOK /\ LifecycleInv /\ FeedSync /\ [Next]_vars => Mapped
<1> SUFFICES ASSUME TypeOK, LifecycleInv, FeedSync, [Next]_vars PROVE Mapped
  OBVIOUS
<1>0. TypeOK'
  BY TypeStep
<1>1. ASSUME NEW id \in 1..MaxId, Post(id) PROVE Mapped
  BY <1>1, PostMaps
<1>2. ASSUME NEW t \in Thread, CallBegins(t) PROVE Mapped
  <2>1. CASE StartRefused(t) \/ Join(t) \/ \E m \in Method : Stop(t, m)
    BY <2>1, ApartMaps DEF StartRefused, Join, Stop, history
  <2> QED BY <1>2, <2>1, StartMaps DEF CallBegins
<1>3. ASSUME NEW t \in Thread, CallStep(t) PROVE Mapped
  <2>1. CASE Abort(t) \/ ReadWorker(t) \/ Joined(t) \/ JoinInterrupted(t)
    BY <2>1, ApartMaps DEF Abort, ReadWorker, Joined, JoinInterrupted, outside, history
  <2> QED BY <1>3, <2>1, LaunchMaps DEF CallStep
<1>4. ASSUME NEW t \in Thread, Interrupt(t) PROVE Mapped
  BY <1>4, ApartMaps DEF Interrupt, outside, history
<1>5. ASSUME NEW w \in Worker, WorkerStep(w) PROVE Mapped
  BY <1>0, <1>5, WorkerMaps
<1>5a. ASSUME NEW w \in Worker, ThrowsError(w) PROVE Mapped
  <2>1. pc[w] \in PC /\ pc[w] # "unborn" /\ At(w, pc[w], "finally")
    BY <1>5a DEF ThrowsError, At, TypeOK
  <2>2. "finally" \in PC /\ "finally" \in Ended
    BY DEF PC, Ended
  <2>3. UNCHANGED <<load, posted, floor, delivered>>
    BY <1>5a DEF ThrowsError, history
  <2> QED BY <2>1, <2>2, <2>3, MoveStep
<1>6. CASE RunTask \/ TaskReturns \/ ShutExecutor
  BY <1>6, ApartMaps DEF RunTask, TaskReturns, ShutExecutor, outside, history
<1>7. CASE UNCHANGED vars
  BY <1>7, ApartMaps DEF vars, butPc, outside, history
<1> QED BY <1>1, <1>2, <1>3, <1>4, <1>5, <1>5a, <1>6, <1>7 DEF Next

(***************************************************************************)
(* The refinement.                                                         *)
(***************************************************************************)
LEMMA SyncInit == Init => FeedSync
  BY DEF Init, FeedSync, SyncOf, Before, Reading, Between

LEMMA PromiseInit == Init => Promise!Init
<1> SUFFICES ASSUME Init PROVE Promise!Init
  OBVIOUS
<1>1. \A w \in Worker : FeedState(w) = "closed" /\ Cursor(w) = 0
  BY DEF Init, FeedState, Cursor
<1> QED BY <1>1 DEF Init, Promise!Init

\* The mapping's invariant, and that each step is one of the feeds.
THEOREM FeedsAreServed == Spec => [](FeedSync) /\ Promise!Init /\ [][FeedStep]_(Promise!vars)
<1>1. FeedSync /\ TypeOK /\ LifecycleInv /\ [Next]_vars => FeedSync' /\ [FeedStep]_(Promise!vars)
  BY StepMaps DEF Mapped
<1> QED BY <1>1, SyncInit, PromiseInit, TypeCorrect, Lifecycle, PTL DEF Spec

LEMMA StepIsLoose == FeedStep => Promise!LooseNext
  BY DEF FeedStep, Promise!LooseNext

\* FeedExact: what each worker's hooks were handed is a gapless, ordered stretch of the
\* stream, whatever stops, restarts, poll errors and batches came in between.
THEOREM FeedsAreExact == Spec => []FeedExact
<1>1. Promise!Numbers
  BY NumberAssumption DEF Promise!Numbers
<1>2. Spec => Promise!LooseSpec
  BY FeedsAreServed, StepIsLoose, PTL DEF Promise!LooseSpec
<1>3. Promise!Exact => FeedExact
  BY DEF Promise!Exact, FeedExact, AsFeed!Exact
<1>4. Promise!LooseSpec => []Promise!Exact
  BY <1>1, Promise!LooseExact
<1> QED BY <1>2, <1>3, <1>4, PTL

LEMMA StepIsFeeds == ASSUME NoCountWraps, FeedStep PROVE AsFeed!Next
<1>1. \A p, id : Promise!Begins(p, id) => AsFeed!Begins(p, id)
  BY DEF Promise!Begins, AsFeed!Begins, Promise!Ahead, AsFeed!Ahead, Promise!Newest, AsFeed!Newest,
         Promise!Cardinality, AsFeed!Cardinality
<1>2. ASSUME NEW id \in 1..MaxId, Promise!Post(id) PROVE AsFeed!Next
  BY <1>2 DEF Promise!Post, AsFeed!Post, AsFeed!Next
<1>3. ASSUME NEW w \in Worker, NEW p \in Positions, Promise!Ask(w, p) PROVE AsFeed!Next
  BY <1>3 DEF Promise!Ask, AsFeed!Ask, AsFeed!Next
<1>4. ASSUME NEW w \in Worker, NEW id \in Positions \cup 0..MaxId + 1,
             Promise!OpenAnywhere(w, id), Promise!Begins(pos[w], id)
      PROVE  AsFeed!Next
  BY <1>1, <1>4 DEF Promise!OpenAnywhere, AsFeed!Open, AsFeed!Next
<1>5. ASSUME NEW w \in Worker, NEW e \in posted, Promise!HandOut(w, e) PROVE AsFeed!Next
  BY <1>5 DEF Promise!HandOut, Promise!FirstOf, Promise!Ahead,
              AsFeed!HandOut, AsFeed!FirstOf, AsFeed!Ahead, AsFeed!Next
<1>6. ASSUME NEW w \in Worker, Promise!End(w) PROVE AsFeed!Next
  BY <1>6 DEF Promise!End, AsFeed!End, AsFeed!Next
<1> QED BY <1>2, <1>3, <1>4, <1>5, <1>6 DEF FeedStep

\* ImplementsFeed: the watch implements the feed its documentation promises, when no asked
\* count is outside the native int.
THEOREM WatchImplementsFeed == ASSUME NoCountWraps PROVE Spec => ImplementsFeed
<1>1. FeedStep => AsFeed!Next
  BY StepIsFeeds
<1>2. Promise!Init => AsFeed!Init
  BY DEF Promise!Init, AsFeed!Init
<1>3. UNCHANGED Promise!vars => UNCHANGED AsFeed!vars
  BY DEF Promise!vars, AsFeed!vars
<1> QED BY <1>1, <1>2, <1>3, FeedsAreServed, PTL DEF ImplementsFeed, AsFeed!Spec
=============================================================================
