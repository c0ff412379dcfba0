-------------------------- MODULE EventWatchProofs --------------------------
(***************************************************************************)
(* Theorems about EventWatch, for any number of threads, workers, calls,   *)
(* events and faults.                                                      *)
(***************************************************************************)
EXTENDS EventWatch, WellFoundedInduction, TLAPS

(***************************************************************************)
(* Least and greatest ids.                                                 *)
(***************************************************************************)
\* The order of the naturals as a well-founded relation.
LEMMA NatOrder ==
  \E R : /\ IsWellFoundedOn(R, Nat)
         /\ \A x, y \in Nat : <<x, y>> \in R <=> x < y
<1>1. IsWellFoundedOn(OpToRel(<, Nat), Nat)
  BY NatLessThanWellFounded
<1>2. \A x, y \in Nat : <<x, y>> \in OpToRel(<, Nat) <=> x < y
  BY DEF OpToRel
<1>3. QED
  BY <1>1, <1>2

\* MinId(S) is the least element of S.
LEMMA MinIdLeast ==
  ASSUME NEW S, S \subseteq Nat, S # {}
  PROVE  MinId(S) \in S /\ \A y \in S : MinId(S) <= y
<1>1. PICK R : /\ IsWellFoundedOn(R, Nat)
               /\ \A x, y \in Nat : <<x, y>> \in R <=> x < y
  BY NatOrder
<1>2. IsWellFoundedOn(R, Nat)
  BY <1>1
<1>3. PICK x \in S : \A y \in S : ~ (<<y, x>> \in R)
  BY <1>2, WFMin, Zenon
<1>4. ASSUME NEW y \in S PROVE x <= y
  <2>1. x \in Nat /\ y \in Nat
    OBVIOUS
  <2>2. ~ (y < x)
    BY <1>1, <1>3, <2>1
  <2>3. QED
    BY <2>1, <2>2
<1>5. QED
  BY <1>4 DEF MinId

\* MaxIdIn(S) is the greatest element of S, if there is one.
LEMMA MaxIdGreatest ==
  ASSUME NEW S, NEW n \in Nat, S \subseteq 1..n, S # {}
  PROVE  MaxIdIn(S) \in S /\ \A y \in S : y <= MaxIdIn(S)
<1> DEFINE T == {n - x : x \in S}
<1>1. T \subseteq Nat /\ T # {}
  <2>1. T \subseteq Nat
    OBVIOUS
  <2>2. T # {}
    OBVIOUS
  <2>3. QED
    BY <2>1, <2>2
<1>2. MinId(T) \in T /\ \A y \in T : MinId(T) <= y
  <2> HIDE DEF T
  <2>1. QED
    BY <1>1, MinIdLeast
<1>3. PICK x \in S : MinId(T) = n - x
  BY <1>2
<1>4. \A y \in S : n - y \in T
  OBVIOUS
<1> HIDE DEF T
<1>5. \A y \in S : y \in Int /\ n - x <= n - y
  BY <1>2, <1>3, <1>4
<1>6. \A y \in S : y <= x
  BY <1>5
<1>7. QED
  BY <1>6 DEF MaxIdIn

\* The position after a batch is one past each of its ids.
LEMMA AfterNewestBound ==
  ASSUME NEW S, S \subseteq 1..MaxId
  PROVE  /\ AfterNewest(S) \in 0..MaxId + 1
         /\ \A e \in S : e < AfterNewest(S)
<1>0. MaxId \in Nat
  BY NumberAssumption
<1>1. CASE S = {}
  BY <1>0, <1>1 DEF AfterNewest
<1>2. CASE S # {}
  <2>1. MaxIdIn(S) \in S /\ \A y \in S : y <= MaxIdIn(S)
    BY <1>0, <1>2, MaxIdGreatest
  <2>2. /\ MaxIdIn(S) \in 1..MaxId
        /\ \A y \in S : y \in Int
    <3>1. MaxIdIn(S) \in 1..MaxId
      BY <2>1
    <3>2. \A y \in S : y \in 1..MaxId
      OBVIOUS
    <3>3. QED
      BY <1>0, <3>1, <3>2
  <2>3. AfterNewest(S) = MaxIdIn(S) + 1
    BY <1>2 DEF AfterNewest
  <2>4. QED
    BY <1>0, <2>1, <2>2, <2>3
<1>3. QED
  BY <1>1, <1>2

(***************************************************************************)
(* Types.                                                                  *)
(***************************************************************************)
\* What the loads return are ids of posted events.
LEMMA LoadsArePosted ==
  /\ \A n : \A S \in ReverseLoad(n) : S \subseteq posted
  /\ \A n : \A S \in ForwardLoad(n) : S \subseteq posted
<1>1. \A n : Newest(n) \subseteq posted
  BY DEF Newest
<1>2. \A n : \A S \in ReverseLoad(n) : S \subseteq posted
  BY <1>1 DEF ReverseLoad
<1>3. \A n : \A S \in ForwardLoad(n) : S \subseteq posted
  BY DEF ForwardLoad, Ahead
<1>4. QED
  BY <1>2, <1>3

\* The steps of the worker that only move its pc, or its pc and one more thing.
LEMMA PcType ==
  ASSUME pc \in [Worker -> PC], NEW w \in Worker, NEW here, NEW there \in PC,
         At(w, here, there)
  PROVE  pc' \in [Worker -> PC]
BY DEF At

\* HandOver moves the pc to one of three places and may queue a task.
LEMMA HandOverType ==
  ASSUME pc \in [Worker -> PC], queued \in Nat, exec \in {"idle", "hook"},
         accepting \in BOOLEAN,
         NEW w \in Worker, NEW hook \in PC, NEW after \in PC, HandOver(w, hook, after)
  PROVE  /\ pc' \in [Worker -> PC] /\ queued' \in Nat
         /\ exec' \in {"idle", "hook"} /\ accepting' \in BOOLEAN
<1>1. "finally" \in PC
  BY DEF PC
<1>2. QED
  BY <1>1 DEF HandOver, tasks

\* Every step keeps the types.
LEMMA TypeStep == TypeOK /\ [Next]_vars => TypeOK'
<1> SUFFICES ASSUME TypeOK, [Next]_vars PROVE TypeOK'
  OBVIOUS
<1> USE DEF butPc, object, load, native, calls, tasks, outside, history
<1>0. /\ MaxId \in Nat /\ 1..MaxId \subseteq Nat
      /\ App \subseteq Thread /\ Worker \subseteq Thread
      /\ pc \in [Worker -> PC] /\ posted \subseteq 1..MaxId
      /\ \A w \in Worker : batch[w] \subseteq 1..MaxId /\ todo[w] \subseteq 1..MaxId
  BY NumberAssumption DEF TypeOK, Thread
<1>1. ASSUME NEW id \in 1..MaxId, Post(id) PROVE TypeOK'
  BY <1>0, <1>1 DEF Post, TypeOK
<1>2. ASSUME NEW t \in Thread, CallBegins(t) PROVE TypeOK'
  <2>1. ASSUME NEW p \in Positions, Start(t, p) PROVE TypeOK'
    <3>1. PICK w \in Worker :
            /\ worker' = w
            /\ pc' = [pc EXCEPT ![w] = "unstarted"] /\ pos' = [pos EXCEPT ![w] = p]
      BY <2>1 DEF Start
    <3>2. p \in Int
      BY NumberAssumption
    <3>3. "unstarted" \in PC
      BY DEF PC
    <3>4. pc' \in [Worker -> PC]
      BY <1>0, <3>1, <3>3
    <3>5. /\ pos' \in [Worker -> Int]
          /\ call' \in [Thread -> {"idle", "launch", "abort", "read", "joining"}]
      BY <2>1, <3>1, <3>2 DEF TypeOK, Start
    <3>6. /\ running' \in BOOLEAN /\ worker' \in Worker \cup {None}
          /\ monitor' \in Thread \cup {None} /\ made' \in Nat
      BY <2>1, <3>1 DEF Start, TypeOK
    <3>7. QED
      BY <2>1, <3>4, <3>5, <3>6 DEF Start, TypeOK
  <2>2. CASE StartRefused(t)
    BY <2>2 DEF StartRefused, TypeOK
  <2>3. ASSUME NEW m \in Method, Stop(t, m) PROVE TypeOK'
    <3>0. running' \in BOOLEAN
      BY <2>3 DEF Stop
    <3>1. monitor' \in Thread \cup {None} /\ made' \in Nat
      BY <2>3 DEF Stop, TypeOK
    <3>2. /\ call' \in [Thread -> {"idle", "launch", "abort", "read", "joining"}]
          /\ method' \in [Thread -> Method]
          /\ aim' \in [Thread -> Worker \cup {None}]
      BY <2>3 DEF Stop, TypeOK
    <3>3. before' \in [Thread -> SUBSET Worker]
      BY <2>3 DEF Stop, TypeOK
    <3>4. QED
      BY <2>3, <3>0, <3>1, <3>2, <3>3 DEF Stop, TypeOK
  <2>4. CASE Join(t)
    BY <2>4 DEF Join, TypeOK, Method
  <2>5. QED
    BY <1>2, <2>1, <2>2, <2>3, <2>4 DEF CallBegins
<1>3. ASSUME NEW t \in Thread, CallStep(t) PROVE TypeOK'
  <2>1. CASE Launch(t)
    <3>1. pc' \in [Worker -> PC]
      BY <1>0, <2>1 DEF Launch, PC
    <3>2. QED
      BY <2>1, <3>1 DEF Launch, TypeOK
  <2>2. CASE Abort(t)
    <3>1. flag' \in [Worker -> {"unarmed", "clear", "raised"}]
      BY <2>2 DEF Abort, RaiseFlag, TypeOK
    <3>2. QED
      BY <2>2, <3>1 DEF Abort, TypeOK
  <2>3. CASE ReadWorker(t)
    BY <2>3 DEF ReadWorker, TypeOK
  <2>4. CASE Joined(t)
    BY <2>4 DEF Joined, TypeOK
  <2>5. CASE JoinInterrupted(t)
    BY <2>5 DEF JoinInterrupted, TypeOK
  <2>6. QED
    BY <1>3, <2>1, <2>2, <2>3, <2>4, <2>5 DEF CallStep
<1>4. ASSUME NEW t \in Thread, Interrupt(t) PROVE TypeOK'
  BY <1>4 DEF Interrupt, TypeOK
<1>5. ASSUME NEW w \in Worker, WorkerStep(w) PROVE TypeOK'
  <2>1. CASE Create(w)
    <3>1. pc' \in [Worker -> PC]
      BY <1>0, <2>1 DEF Create, At, PC
    <3>2. /\ watch' \in [Worker -> {"none", "live", "freed"}]
          /\ flag' \in [Worker -> {"unarmed", "clear", "raised"}]
      BY <2>1 DEF Create, TypeOK
    <3>3. QED
      BY <2>1, <3>1, <3>2 DEF Create, TypeOK
  <2>2. ASSUME NEW there \in PC, Fault(w, there) PROVE TypeOK'
    BY <2>2 DEF Fault, TypeOK, Cause
  <2>3. ASSUME NEW there \in PC, Aborted(w, there) PROVE TypeOK'
    BY <2>3 DEF Aborted, TypeOK, Cause
  <2>4. ASSUME NEW there \in PC, NEW here, At(w, here, there), UNCHANGED butPc PROVE TypeOK'
    <3>1. pc' \in [Worker -> PC]
      BY <1>0, <2>4, PcType
    <3>2. QED
      BY <2>4, <3>1 DEF TypeOK
  <2>5. ASSUME NEW hook \in PC, NEW after \in PC, Report(w, hook, after) PROVE TypeOK'
    <3>1. /\ pc' \in [Worker -> PC] /\ queued' \in Nat
          /\ exec' \in {"idle", "hook"} /\ accepting' \in BOOLEAN
      BY <2>5, HandOverType DEF Report, TypeOK
    <3>2. reported' \subseteq Worker \X Cause
      BY <2>5 DEF Report, TypeOK
    <3>3. QED
      BY <2>5, <3>1, <3>2 DEF Report, TypeOK
  <2>6. /\ "uncaught" \in PC /\ "caught" \in PC /\ "errhook" \in PC /\ "sleep" \in PC
        /\ "lasthook" \in PC /\ "finally" \in PC /\ "poll" \in PC /\ "check" \in PC
        /\ "deliver" \in PC /\ "first" \in PC /\ "free" \in PC /\ "dead" \in PC
        /\ "hook" \in PC
    BY DEF PC
  <2>7. CASE CreateFails(w)
    BY <2>2, <2>6, <2>7 DEF CreateFails
  <2>8. CASE Publish(w)
    <3>1. pc' \in [Worker -> PC]
      BY <1>0, <2>6, <2>8, PcType DEF Publish
    <3>2. QED
      BY <2>8, <3>1 DEF Publish, PublishedHandle, TypeOK
  <2>9. ASSUME NEW id \in Int, BeginAt(w, id) PROVE TypeOK'
    <3>1. pc' \in [Worker -> PC]
      BY <1>0, <2>6, <2>9, PcType DEF BeginAt
    <3>2. QED
      BY <2>9, <3>1 DEF BeginAt, TypeOK
  <2>10. CASE Probe(w)
    <3>1. AfterNewest(posted) \in 0..MaxId + 1
      BY <1>0, AfterNewestBound
    <3>2. QED
      BY <1>0, <2>9, <2>10, <3>1 DEF Probe
  <2>11. CASE Replay(w)
    <3>1. pos[w] \in Int
      BY DEF TypeOK
    <3>2. QED
      BY <2>9, <2>11, <3>1 DEF Replay
  <2>12. CASE Backfill(w)
    <3>1. PICK S \in ReverseLoad(ToInt(-pos[w])) :
            /\ batch' = [batch EXCEPT ![w] = S] /\ todo' = [todo EXCEPT ![w] = S]
            /\ floor' = [floor EXCEPT ![w] = IF S = {} THEN 0 ELSE MinId(S)]
      BY <2>12 DEF Backfill
    <3>2. S \subseteq 1..MaxId
      BY <1>0, LoadsArePosted
    <3>3. (IF S = {} THEN 0 ELSE MinId(S)) \in Int
      <4>1. S # {} => MinId(S) \in S
        BY <1>0, <3>2, MinIdLeast
      <4>2. CASE S = {}
        BY <4>2
      <4>3. CASE S # {}
        <5>1. MinId(S) \in 1..MaxId
          BY <3>2, <4>1, <4>3
        <5>2. QED
          BY <4>3, <5>1
      <4>4. QED
        BY <4>2, <4>3
    <3>4. /\ batch' \in [Worker -> SUBSET (1..MaxId)] /\ todo' \in [Worker -> SUBSET (1..MaxId)]
          /\ floor' \in [Worker -> Int]
      BY <3>1, <3>2, <3>3 DEF TypeOK
    <3>5. pc' \in [Worker -> PC]
      BY <1>0, <2>6, <2>12, PcType DEF Backfill
    <3>6. QED
      BY <2>12, <3>4, <3>5 DEF Backfill, TypeOK
  <2>13. CASE FirstFails(w)
    BY <2>2, <2>3, <2>6, <2>13 DEF FirstFails
  <2>14. CASE Check(w)
    BY <2>4, <2>6, <2>14 DEF Check
  <2>15. CASE PollLoads(w)
    <3>1. PICK S \in ForwardLoad(next[w]) :
            batch' = [batch EXCEPT ![w] = S] /\ todo' = [todo EXCEPT ![w] = S]
      BY <2>15 DEF PollLoads
    <3>2. S \subseteq 1..MaxId
      BY <1>0, LoadsArePosted
    <3>3. batch' \in [Worker -> SUBSET (1..MaxId)] /\ todo' \in [Worker -> SUBSET (1..MaxId)]
      BY <3>1, <3>2 DEF TypeOK
    <3>4. pc' \in [Worker -> PC]
      BY <1>0, <2>6, <2>15, PcType DEF PollLoads
    <3>5. QED
      BY <2>15, <3>3, <3>4 DEF PollLoads, TypeOK
  <2>16. CASE PollEmpty(w)
    BY <2>4, <2>6, <2>16 DEF PollEmpty
  <2>17. CASE PollFails(w)
    BY <2>2, <2>3, <2>6, <2>17 DEF PollFails
  <2>18. CASE Deliver(w)
    <3>1. MinId(todo[w]) \in 1..MaxId
      BY <1>0, <2>18, MinIdLeast DEF Deliver
    <3>2. todo' \in [Worker -> SUBSET (1..MaxId)] /\ delivered' \in [Worker -> Seq(1..MaxId)]
      <4>1. CASE Accepted
        <5>1. todo' \in [Worker -> SUBSET (1..MaxId)]
          <6>1. todo' = [todo EXCEPT ![w] = todo[w] \ {MinId(todo[w])}]
            BY <2>18, <4>1 DEF Deliver
          <6>2. todo[w] \ {MinId(todo[w])} \in SUBSET (1..MaxId)
            BY <1>0
          <6>3. todo \in [Worker -> SUBSET (1..MaxId)]
            BY DEF TypeOK
          <6>4. QED
            BY <6>1, <6>2, <6>3
        <5>2. Append(delivered[w], MinId(todo[w])) \in Seq(1..MaxId)
          BY <3>1 DEF TypeOK
        <5>3. delivered' = [delivered EXCEPT ![w] = Append(delivered[w], MinId(todo[w]))]
          BY <2>18, <4>1 DEF Deliver
        <5>4. QED
          BY <5>1, <5>2, <5>3 DEF TypeOK
      <4>2. CASE ~Accepted
        BY <2>18, <4>2 DEF Deliver, TypeOK
      <4>3. QED
        BY <4>1, <4>2
    <3>3. /\ pc' \in [Worker -> PC] /\ queued' \in Nat
          /\ exec' \in {"idle", "hook"} /\ accepting' \in BOOLEAN
      BY <2>6, <2>18, HandOverType DEF Deliver, TypeOK
    <3>4. QED
      BY <2>18, <3>2, <3>3 DEF Deliver, TypeOK
  <2>19. CASE BatchDone(w)
    <3>1. AfterNewest(batch[w]) \in Int
      BY <1>0, AfterNewestBound
    <3>2. next' \in [Worker -> Int] /\ batch' \in [Worker -> SUBSET (1..MaxId)]
      BY <2>19, <3>1 DEF BatchDone, TypeOK
    <3>3. pc' \in [Worker -> PC]
      BY <1>0, <2>6, <2>19, PcType DEF BatchDone
    <3>4. QED
      BY <2>19, <3>2, <3>3 DEF BatchDone, TypeOK
  <2>20. CASE CaughtStopped(w)
    BY <2>4, <2>6, <2>20 DEF CaughtStopped
  <2>21. CASE Caught(w)
    BY <2>5, <2>6, <2>21 DEF Caught
  <2>22. CASE Uncaught(w)
    BY <2>5, <2>6, <2>22 DEF Uncaught
  <2>23. CASE SleepEnds(w)
    BY <2>4, <2>6, <2>23 DEF SleepEnds, Retry
  <2>24. CASE SleepInterrupted(w)
    <3>1. pc' \in [Worker -> PC]
      BY <1>0, <2>6, <2>24, PcType DEF SleepInterrupted
    <3>2. interrupted' \in [Thread -> {"never", "pending", "taken"}]
      BY <1>0, <2>24 DEF SleepInterrupted, TypeOK
    <3>3. QED
      BY <2>24, <3>1, <3>2 DEF SleepInterrupted, TypeOK
  <2>25. CASE HookReturns(w)
    BY <2>4, <2>6, <2>25 DEF HookReturns
  <2>26. CASE TakeHandle(w)
    <3>1. pc' \in [Worker -> PC]
      BY <1>0, <2>6, <2>26, PcType DEF TakeHandle
    <3>2. QED
      BY <2>26, <3>1 DEF TakeHandle, TypeOK
  <2>27. CASE Free(w)
    <3>1. pc' \in [Worker -> PC]
      BY <1>0, <2>6, <2>27, PcType DEF Free
    <3>2. watch' \in [Worker -> {"none", "live", "freed"}]
      BY <2>27 DEF Free, TypeOK
    <3>3. QED
      BY <2>27, <3>1, <3>2 DEF Free, TypeOK
  <2>28. QED
    BY <1>5, <2>1, <2>7, <2>8, <2>10, <2>11, <2>12, <2>13, <2>14, <2>15, <2>16, <2>17,
       <2>18, <2>19, <2>20, <2>21, <2>22, <2>23, <2>24, <2>25, <2>26, <2>27 DEF WorkerStep
<1>5a. ASSUME NEW w \in Worker, ThrowsError(w) PROVE TypeOK'
  BY <1>5a DEF ThrowsError, TypeOK, PC, Cause
<1>6. CASE RunTask
  BY <1>6 DEF RunTask, TypeOK
<1>7. CASE TaskReturns
  BY <1>7 DEF TaskReturns, TypeOK
<1>8. CASE ShutExecutor
  BY <1>8 DEF ShutExecutor, TypeOK
<1>9. CASE UNCHANGED vars
  BY <1>9 DEF vars, TypeOK
<1>10. QED
  BY <1>1, <1>2, <1>3, <1>4, <1>5, <1>5a, <1>6, <1>7, <1>8, <1>9 DEF Next

\* Every variable keeps its type in every behaviour of the watch.
THEOREM TypeCorrect == Spec => []TypeOK
<1>1. Init => TypeOK
  <2> SUFFICES ASSUME Init PROVE TypeOK
    OBVIOUS
  <2>1. "unborn" \in PC /\ "stop" \in Method /\ UseExecutor \in BOOLEAN
    BY ThreadAssumption DEF PC, Method
  <2>2. /\ [w \in Worker |-> "unborn"] \in [Worker -> PC]
        /\ [w \in Worker |-> <<>>] \in [Worker -> Seq(1..MaxId)]
    BY <2>1
  <2>3. /\ pc \in [Worker -> PC] /\ delivered \in [Worker -> Seq(1..MaxId)]
        /\ method \in [Thread -> Method] /\ accepting \in BOOLEAN
    BY <2>1, <2>2 DEF Init
  <2>4. /\ pos \in [Worker -> Int] /\ next \in [Worker -> Int] /\ floor \in [Worker -> Int]
        /\ batch \in [Worker -> SUBSET (1..MaxId)] /\ todo \in [Worker -> SUBSET (1..MaxId)]
        /\ error \in [Worker -> Cause] /\ before \in [Thread -> SUBSET Worker]
    BY DEF Init, Cause
  <2>5. QED
    BY <2>3, <2>4 DEF Init, TypeOK
<1>2. QED
  BY <1>1, TypeStep, PTL DEF Spec

(***************************************************************************)
(* The lifecycle: who holds the monitor, who owns the handle.              *)
(***************************************************************************)
\* What the steps below need of the types.
Types ==
  /\ worker \in Worker \cup {None} /\ watchHandle \in Worker \cup {None}
  /\ monitor \in Thread \cup {None} /\ running \in BOOLEAN
  /\ pc \in [Worker -> PC]
  /\ handle \in [Worker -> Worker \cup {None}]
  /\ watch \in [Worker -> {"none", "live", "freed"}]
  /\ flag \in [Worker -> {"unarmed", "clear", "raised"}]
  /\ call \in [Thread -> {"idle", "launch", "abort", "read", "joining"}]
  /\ aim \in [Thread -> Worker \cup {None}]
  /\ None \notin Thread /\ None \notin Worker

\* A step that changes none of the fields the invariant speaks of keeps it.
LEMMA LifecycleFrame ==
  LifecycleInv /\ UNCHANGED <<object, pc, native, call, aim>> => LifecycleInv'
BY DEF LifecycleInv, MonitorHeld, HandleOwned, StopCutsPoll, object, native

\* A worker on its way between the places of the loop, the monitor's fields and
\* its watch left alone, keeps it; it starts to poll only while running.
LEMMA LifecycleMove ==
  ASSUME LifecycleInv, Types, NEW w \in Worker, NEW there,
         UNCHANGED <<object, native, call, aim>>,
         pc' = [pc EXCEPT ![w] = there],
         there = "poll" => running,
         \/ pc[w] \in Polling /\ there \in Polling \cup Ending
         \/ pc[w] \in Ending /\ there \in Ending
         \/ pc[w] = "create" /\ there \in Ending
  PROVE  LifecycleInv'
<1> USE DEF Types, Polling, Ending
<1>1. MonitorHeld'
  BY DEF LifecycleInv, MonitorHeld, object
<1>2. HandleOwned'
  BY DEF LifecycleInv, HandleOwned, object, native
<1>3. StopCutsPoll'
  BY DEF LifecycleInv, StopCutsPoll, object, native
<1>4. QED
  BY <1>1, <1>2, <1>3 DEF LifecycleInv

\* Fault and Aborted only move the worker.
LEMMA LifecycleError ==
  ASSUME LifecycleInv, Types, NEW w \in Worker, NEW there,
         Fault(w, there) \/ Aborted(w, there),
         there # "poll",
         \/ pc[w] \in Polling /\ there \in Polling \cup Ending
         \/ pc[w] = "create" /\ there \in Ending
  PROVE  LifecycleInv'
<1>1. UNCHANGED <<object, native, call, aim>> /\ pc' = [pc EXCEPT ![w] = there]
  BY DEF Fault, Aborted, calls
<1>2. QED
  BY <1>1, LifecycleMove

\* A hook, a queued task or a refusal: HandOver goes to the hook, to the place
\* after it, or to the end.
LEMMA LifecycleHandOver ==
  ASSUME LifecycleInv, Types, NEW w \in Worker, NEW hook, NEW after,
         HandOver(w, hook, after), UNCHANGED <<object, native, call, aim>>,
         hook # "poll", after # "poll",
         \/ pc[w] \in Polling /\ hook \in Polling /\ after \in Polling
         \/ pc[w] \in Ending /\ hook \in Ending /\ after \in Ending
  PROVE  LifecycleInv'
<1>1. \/ pc' = [pc EXCEPT ![w] = hook]
      \/ pc' = [pc EXCEPT ![w] = after]
      \/ pc' = [pc EXCEPT ![w] = "finally"]
  BY DEF HandOver
<1>2. "finally" \in Ending /\ "finally" # "poll"
  BY DEF Ending
<1>3. CASE pc' = [pc EXCEPT ![w] = hook]
  BY <1>3, LifecycleMove
<1>4. CASE pc' = [pc EXCEPT ![w] = after]
  BY <1>4, LifecycleMove
<1>5. CASE pc' = [pc EXCEPT ![w] = "finally"]
  BY <1>2, <1>5, LifecycleMove
<1>6. QED
  BY <1>1, <1>3, <1>4, <1>5

\* startAt() takes the monitor, and the worker it replaces is gone.
LEMMA LifecycleStart ==
  ASSUME LifecycleInv, Types, NEW t \in Thread, NEW p, Start(t, p)
  PROVE  LifecycleInv'
<1> USE DEF Types
<1>1. PICK w \in Worker :
        pc[w] = "unborn" /\ worker' = w /\ pc' = [pc EXCEPT ![w] = "unstarted"]
  BY DEF Start
<1>2. /\ monitor = None /\ monitor' = t /\ running' /\ watchHandle' = watchHandle
      /\ call' = [call EXCEPT ![t] = "launch"] /\ aim' = aim
      /\ watch' = watch /\ flag' = flag /\ handle' = handle
  BY DEF Start, native
<1>3. \A s \in Thread : call[s] \notin {"launch", "abort"}
  BY <1>2 DEF LifecycleInv, MonitorHeld
<1>4. \A v \in Worker : pc[v] \in {"unborn", "dead"}
  <2>1. SUFFICES ASSUME NEW v \in Worker, pc[v] \notin {"unborn", "dead"} PROVE FALSE
    OBVIOUS
  <2>2. worker = v /\ pc[v] # "unstarted"
    BY <1>2, <2>1 DEF LifecycleInv, MonitorHeld
  <2>3. ~Alive(v)
    BY <2>2 DEF Start, MayStart
  <2>4. QED
    BY <2>1, <2>2, <2>3 DEF Alive
<1>5. MonitorHeld'
  BY <1>1, <1>2, <1>3, <1>4 DEF LifecycleInv, MonitorHeld
<1>6. HandleOwned'
  BY <1>1, <1>2, <1>3, <1>4 DEF LifecycleInv, HandleOwned, Polling, Ending
<1>7. StopCutsPoll'
  BY <1>1, <1>2, <1>4 DEF StopCutsPoll
<1>8. QED
  BY <1>5, <1>6, <1>7 DEF LifecycleInv

\* The launcher leaves the monitor with the new worker about to run.
LEMMA LifecycleLaunch ==
  ASSUME LifecycleInv, Types, NEW t \in Thread, Launch(t)
  PROVE  LifecycleInv'
<1> USE DEF Types
<1>1. /\ call[t] = "launch" /\ monitor = t /\ worker \in Worker /\ pc[worker] = "unstarted"
      /\ \A s \in Thread : s # t => call[s] \notin {"launch", "abort"}
  BY DEF LifecycleInv, MonitorHeld, Launch
<1>2. /\ pc' = [pc EXCEPT ![worker] = "create"] /\ monitor' = None
      /\ call' = [call EXCEPT ![t] = "idle"] /\ aim' = aim
      /\ worker' = worker /\ running' = running /\ watchHandle' = watchHandle
      /\ watch' = watch /\ flag' = flag /\ handle' = handle
  BY DEF Launch, native
<1>3. \A v \in Worker : v # worker => pc[v] \in {"unborn", "dead"}
  BY DEF LifecycleInv, MonitorHeld
<1>4. MonitorHeld'
  BY <1>1, <1>2, <1>3 DEF LifecycleInv, MonitorHeld
<1>5. HandleOwned'
  BY <1>1, <1>2, <1>3 DEF LifecycleInv, HandleOwned, Polling, Ending
<1>6. StopCutsPoll'
  BY <1>1, <1>2, <1>3 DEF StopCutsPoll
<1>7. QED
  BY <1>4, <1>5, <1>6 DEF LifecycleInv

\* stop() and close() read the handle under the monitor: what they read stays
\* published until they leave it.
LEMMA LifecycleStop ==
  ASSUME LifecycleInv, Types, NEW t \in Thread, NEW m, Stop(t, m)
  PROVE  LifecycleInv'
<1> USE DEF Types
<1>1. /\ monitor = None /\ monitor' = t /\ running' = FALSE
      /\ aim' = [aim EXCEPT ![t] = watchHandle]
      /\ call' = [call EXCEPT ![t] = "abort"]
      /\ pc' = pc /\ worker' = worker /\ watchHandle' = watchHandle
      /\ watch' = watch /\ flag' = flag /\ handle' = handle
  BY DEF Stop, native
<1>2. \A s \in Thread : call[s] \notin {"launch", "abort"}
  BY <1>1 DEF LifecycleInv, MonitorHeld
<1>3. \A v \in Worker : pc[v] # "unstarted"
  BY <1>1 DEF LifecycleInv, MonitorHeld
<1>4. MonitorHeld'
  BY <1>1, <1>2, <1>3 DEF LifecycleInv, MonitorHeld
<1>5. HandleOwned'
  BY <1>1, <1>2 DEF LifecycleInv, HandleOwned
<1>6. StopCutsPoll'
  <2>1. SUFFICES ASSUME NEW v \in Worker, pc[v] = "poll"
                 PROVE  call'[t] = "abort" /\ aim'[t] = v
    BY <1>1 DEF StopCutsPoll
  <2>2. watchHandle = v
    BY <2>1 DEF LifecycleInv, HandleOwned, Polling
  <2>3. QED
    BY <1>1, <2>2
<1>7. QED
  BY <1>4, <1>5, <1>6 DEF LifecycleInv

\* Raising the flag ends the poll it was meant for.
LEMMA LifecycleAbort ==
  ASSUME LifecycleInv, Types, NEW t \in Thread, Abort(t)
  PROVE  LifecycleInv'
<1> USE DEF Types
<1>1. /\ call[t] = "abort" /\ monitor = t /\ monitor' = None
      /\ call'[t] \in {"read", "idle"} /\ \A s \in Thread : s # t => call'[s] = call[s]
      /\ flag' = RaiseFlag(aim[t]) /\ aim' = aim
      /\ pc' = pc /\ worker' = worker /\ watchHandle' = watchHandle /\ running' = running
      /\ watch' = watch /\ handle' = handle
  BY DEF Abort, LifecycleInv, MonitorHeld
<1>2. \A s \in Thread : s # t => call[s] \notin {"launch", "abort"}
  BY <1>1 DEF LifecycleInv, MonitorHeld
<1>3. \A v \in Worker : pc[v] # "unstarted"
  BY <1>1 DEF LifecycleInv, MonitorHeld
<1>4. MonitorHeld'
  BY <1>1, <1>2, <1>3 DEF LifecycleInv, MonitorHeld
<1>5. HandleOwned'
  BY <1>1, <1>2 DEF LifecycleInv, HandleOwned
<1>6. StopCutsPoll'
  <2>1. SUFFICES ASSUME NEW v \in Worker, pc[v] = "poll", ~running, flag'[v] = "clear"
                 PROVE  FALSE
    BY <1>1 DEF StopCutsPoll
  <2>2. flag[v] = "clear"
    BY <1>1, <2>1 DEF RaiseFlag
  <2>3. PICK s \in Thread : call[s] = "abort" /\ aim[s] = v
    BY <2>1, <2>2 DEF LifecycleInv, StopCutsPoll
  <2>4. s = t
    BY <1>2, <2>3
  <2>5. flag' = [flag EXCEPT ![v] = "raised"]
    BY <1>1, <2>2, <2>3, <2>4 DEF RaiseFlag
  <2>6. QED
    BY <2>1, <2>5
<1>7. QED
  BY <1>4, <1>5, <1>6 DEF LifecycleInv

\* The new worker has a watch of its own, not published yet.
LEMMA LifecycleCreate ==
  ASSUME LifecycleInv, Types, NEW w \in Worker, Create(w)
  PROVE  LifecycleInv'
<1> USE DEF Types
<1>1. /\ pc[w] = "create" /\ pc' = [pc EXCEPT ![w] = "publish"]
      /\ watch' = [watch EXCEPT ![w] = "live"]
      /\ UNCHANGED <<worker, watchHandle, monitor, running, handle, call, aim>>
  BY DEF Create, At, object, calls
<1>2. \A v \in Worker : v # w => flag'[v] = flag[v] /\ pc'[v] = pc[v] /\ watch'[v] = watch[v]
  BY <1>1 DEF Create
<1>3. MonitorHeld'
  BY <1>1, <1>2 DEF LifecycleInv, MonitorHeld
<1>4. HandleOwned'
  BY <1>1, <1>2 DEF LifecycleInv, HandleOwned, Polling, Ending
<1>5. StopCutsPoll'
  BY <1>1, <1>2 DEF LifecycleInv, StopCutsPoll
<1>6. QED
  BY <1>3, <1>4, <1>5 DEF LifecycleInv

\* A worker publishes when no other has: none is published, none is aimed at.
LEMMA LifecyclePublish ==
  ASSUME LifecycleInv, Types, NEW w \in Worker, Publish(w)
  PROVE  LifecycleInv'
<1> USE DEF Types
<1>1. /\ pc[w] = "publish" /\ pc' = [pc EXCEPT ![w] = "first"] /\ watchHandle' = w
      /\ UNCHANGED <<worker, monitor, running, watch, flag, handle, call, aim>>
  BY DEF Publish, At, PublishedHandle, native, calls
<1>2. worker = w
  BY <1>1 DEF LifecycleInv, MonitorHeld
<1>3. \A v \in Worker : v # w => pc[v] \in {"unborn", "dead"}
  BY <1>2 DEF LifecycleInv, MonitorHeld
<1>4. watchHandle = None
  <2>1. SUFFICES ASSUME NEW v \in Worker, watchHandle = v PROVE FALSE
    OBVIOUS
  <2>2. pc[v] \in Polling \cup Ending
    BY <2>1 DEF LifecycleInv, HandleOwned
  <2>3. QED
    BY <1>1, <1>3, <2>2 DEF Polling, Ending
<1>5. \A t \in Thread : call[t] = "abort" => aim[t] = None
  BY <1>4 DEF LifecycleInv, HandleOwned
<1>6. MonitorHeld'
  BY <1>1, <1>2 DEF LifecycleInv, MonitorHeld
<1>7. HandleOwned'
  BY <1>1, <1>3, <1>4, <1>5 DEF LifecycleInv, HandleOwned, Polling, Ending
<1>8. StopCutsPoll'
  BY <1>1, <1>3, <1>5 DEF LifecycleInv, StopCutsPoll
<1>9. QED
  BY <1>6, <1>7, <1>8 DEF LifecycleInv

\* Under the monitor no stop() holds the handle it takes.
LEMMA LifecycleTakeHandle ==
  ASSUME LifecycleInv, Types, NEW w \in Worker, TakeHandle(w)
  PROVE  LifecycleInv'
<1> USE DEF Types
<1>1. /\ monitor = None /\ pc[w] = "finally" /\ pc' = [pc EXCEPT ![w] = "free"]
      /\ handle' = [handle EXCEPT ![w] = watchHandle] /\ watchHandle' = None
      /\ UNCHANGED <<worker, monitor, running, watch, flag, call, aim>>
  BY DEF TakeHandle, At, MonitorFree, calls
<1>2. \A t \in Thread : call[t] # "abort"
  BY <1>1 DEF LifecycleInv, MonitorHeld
<1>3. worker = w /\ \A v \in Worker : v # w => pc[v] \in {"unborn", "dead"}
  BY <1>1 DEF LifecycleInv, MonitorHeld
<1>4. watchHandle \in {w, None}
  BY <1>3 DEF LifecycleInv, HandleOwned, Polling, Ending
<1>5. MonitorHeld'
  BY <1>1, <1>3 DEF LifecycleInv, MonitorHeld
<1>6. HandleOwned'
  BY <1>1, <1>2, <1>3, <1>4 DEF LifecycleInv, HandleOwned, Polling, Ending
<1>7. StopCutsPoll'
  BY <1>1, <1>3 DEF LifecycleInv, StopCutsPoll
<1>8. QED
  BY <1>5, <1>6, <1>7 DEF LifecycleInv

\* The handle a worker took is that of its own watch.
LEMMA LifecycleFree ==
  ASSUME LifecycleInv, Types, NEW w \in Worker, Free(w)
  PROVE  LifecycleInv'
<1> USE DEF Types
<1>1. /\ pc[w] = "free" /\ pc' = [pc EXCEPT ![w] = "dead"]
      /\ UNCHANGED <<worker, watchHandle, monitor, running, flag, handle, call, aim>>
  BY DEF Free, At, object, calls
<1>2. handle[w] \in {w, None}
  BY <1>1 DEF LifecycleInv, HandleOwned
<1>3. watch' = IF handle[w] = None THEN watch ELSE [watch EXCEPT ![w] = "freed"]
  BY <1>2 DEF Free
<1>4. \A v \in Worker : v # w => watch'[v] = watch[v] /\ pc'[v] = pc[v]
  BY <1>1, <1>3
<1>5. watch'[w] = IF handle[w] = None THEN watch[w] ELSE "freed"
  BY <1>3
<1>6. MonitorHeld'
  BY <1>1 DEF LifecycleInv, MonitorHeld
<1>7. HandleOwned'
  BY <1>1, <1>2, <1>4, <1>5 DEF LifecycleInv, HandleOwned, Polling, Ending
<1>8. StopCutsPoll'
  BY <1>1, <1>4 DEF LifecycleInv, StopCutsPoll
<1>9. QED
  BY <1>6, <1>7, <1>8 DEF LifecycleInv

\* One step of a call that only waits or reads: not in the monitor before or after.
LEMMA LifecycleOutside ==
  ASSUME LifecycleInv, Types, NEW t \in Thread, NEW stage \in {"idle", "read", "joining"},
         UNCHANGED <<object, pc, native>>,
         call[t] \in {"idle", "read", "joining"}, call' = [call EXCEPT ![t] = stage],
         \A s \in Thread : s # t => aim'[s] = aim[s]
  PROVE  LifecycleInv'
<1> USE DEF Types
<1>1. MonitorHeld'
  BY DEF LifecycleInv, MonitorHeld, object
<1>2. HandleOwned'
  BY DEF LifecycleInv, HandleOwned, object, native
<1>3. StopCutsPoll'
  BY DEF LifecycleInv, StopCutsPoll, object, native
<1>4. QED
  BY <1>1, <1>2, <1>3 DEF LifecycleInv

\* Every step keeps the lifecycle invariant.
LEMMA LifecycleStep == TypeOK /\ LifecycleInv /\ [Next]_vars => LifecycleInv'
<1> SUFFICES ASSUME TypeOK, LifecycleInv, [Next]_vars PROVE LifecycleInv'
  OBVIOUS
<1>0. Types
  BY ThreadAssumption DEF TypeOK, Types, Thread
<1>1. ASSUME NEW id \in 1..MaxId, Post(id) PROVE LifecycleInv'
  BY <1>1, LifecycleFrame DEF Post, calls
<1>2. ASSUME NEW t \in Thread, CallBegins(t) PROVE LifecycleInv'
  <2>1. ASSUME NEW p \in Positions, Start(t, p) PROVE LifecycleInv'
    BY <1>0, <2>1, LifecycleStart
  <2>2. CASE StartRefused(t)
    BY <2>2, LifecycleFrame DEF StartRefused, calls
  <2>3. ASSUME NEW m \in Method, Stop(t, m) PROVE LifecycleInv'
    BY <1>0, <2>3, LifecycleStop
  <2>4. CASE Join(t)
    BY <1>0, <2>4, LifecycleOutside DEF Join, MayCall, InAppCode
  <2>5. QED
    BY <1>2, <2>1, <2>2, <2>3, <2>4 DEF CallBegins
<1>3. ASSUME NEW t \in Thread, CallStep(t) PROVE LifecycleInv'
  <2>1. CASE Launch(t)
    BY <1>0, <2>1, LifecycleLaunch
  <2>2. CASE Abort(t)
    BY <1>0, <2>2, LifecycleAbort
  <2>3. CASE ReadWorker(t)
    <3>1. \A s \in Thread : s # t => aim'[s] = aim[s]
      BY <1>0, <2>3 DEF ReadWorker, Types
    <3>2. QED
      BY <1>0, <2>3, <3>1, LifecycleOutside DEF ReadWorker
  <2>4. CASE Joined(t)
    BY <1>0, <2>4, LifecycleOutside DEF Joined
  <2>5. CASE JoinInterrupted(t)
    BY <1>0, <2>5, LifecycleOutside DEF JoinInterrupted
  <2>6. QED
    BY <1>3, <2>1, <2>2, <2>3, <2>4, <2>5 DEF CallStep
<1>4. ASSUME NEW t \in Thread, Interrupt(t) PROVE LifecycleInv'
  BY <1>4, LifecycleFrame DEF Interrupt
<1>5. ASSUME NEW w \in Worker, WorkerStep(w) PROVE LifecycleInv'
  <2> USE DEF Polling, Ending
  <2>0. pc \in [Worker -> PC]
    BY <1>0 DEF Types
  <2>1. ASSUME NEW here, NEW there, At(w, here, there),
               UNCHANGED <<object, native, call, aim>>,
               here \in Polling, there \in Polling \cup Ending,
               there = "poll" => running
        PROVE  LifecycleInv'
    BY <1>0, <2>1, LifecycleMove DEF At
  <2>2. CASE Create(w)
    BY <1>0, <2>2, LifecycleCreate
  <2>3. CASE CreateFails(w)
    BY <1>0, <2>3, LifecycleError DEF CreateFails
  <2>4. CASE Publish(w)
    BY <1>0, <2>4, LifecyclePublish
  <2>5. ASSUME NEW id, BeginAt(w, id) PROVE LifecycleInv'
    BY <2>1, <2>5 DEF BeginAt, calls
  <2>6. CASE Probe(w) \/ Replay(w)
    BY <2>5, <2>6 DEF Probe, Replay
  <2>7. CASE Backfill(w)
    BY <2>1, <2>7 DEF Backfill, calls
  <2>8. CASE FirstFails(w)
    BY <1>0, <2>8, LifecycleError DEF FirstFails
  <2>9. CASE Check(w)
    BY <2>1, <2>9 DEF Check, LoopGoesOn, butPc, calls
  <2>10. CASE PollLoads(w)
    BY <2>1, <2>10 DEF PollLoads, calls
  <2>11. CASE PollEmpty(w)
    BY <2>1, <2>11 DEF PollEmpty, butPc, calls
  <2>12. CASE PollFails(w)
    BY <1>0, <2>12, LifecycleError DEF PollFails
  <2>13. CASE Deliver(w)
    <3>1. HandOver(w, "hook", "deliver") /\ UNCHANGED <<object, native, call, aim>>
          /\ pc[w] = "deliver"
      BY <2>13 DEF Deliver, calls
    <3>2. QED
      BY <1>0, <3>1, LifecycleHandOver
  <2>14. CASE BatchDone(w)
    BY <2>1, <2>14 DEF BatchDone, calls
  <2>15. CASE CaughtStopped(w)
    BY <2>1, <2>15 DEF CaughtStopped, butPc, calls
  <2>16. CASE Caught(w)
    <3>1. HandOver(w, "errhook", "sleep") /\ UNCHANGED <<object, native, call, aim>>
          /\ pc[w] = "caught"
      BY <2>16 DEF Caught, Report, calls
    <3>2. QED
      BY <1>0, <3>1, LifecycleHandOver
  <2>17. CASE Uncaught(w)
    <3>1. HandOver(w, "lasthook", "finally") /\ UNCHANGED <<object, native, call, aim>>
          /\ pc[w] = "uncaught"
      BY <2>17 DEF Uncaught, Report, calls
    <3>2. QED
      BY <1>0, <3>1, LifecycleHandOver
  <2>18. CASE SleepEnds(w)
    BY <2>1, <2>18 DEF SleepEnds, Retry, butPc, calls
  <2>19. CASE SleepInterrupted(w)
    BY <2>1, <2>19 DEF SleepInterrupted
  <2>20. CASE HookReturns(w)
    <3>1. CASE At(w, "lasthook", "finally")
      BY <1>0, <2>20, <3>1, LifecycleMove DEF HookReturns, At, butPc, calls
    <3>2. CASE At(w, "hook", "deliver") \/ At(w, "errhook", "sleep")
      BY <2>1, <2>20, <3>2 DEF HookReturns, butPc, calls
    <3>3. QED
      BY <2>20, <3>1, <3>2 DEF HookReturns
  <2>21. CASE TakeHandle(w)
    BY <1>0, <2>21, LifecycleTakeHandle
  <2>22. CASE Free(w)
    BY <1>0, <2>22, LifecycleFree
  <2>23. QED
    BY <1>5, <2>2, <2>3, <2>4, <2>6, <2>7, <2>8, <2>9, <2>10, <2>11, <2>12, <2>13, <2>14,
       <2>15, <2>16, <2>17, <2>18, <2>19, <2>20, <2>21, <2>22 DEF WorkerStep
<1>5a. ASSUME NEW w \in Worker, ThrowsError(w) PROVE LifecycleInv'
  BY <1>0, <1>5a, LifecycleMove DEF ThrowsError, calls, Polling, Ending
<1>6. CASE RunTask
  BY <1>6, LifecycleFrame DEF RunTask, calls
<1>7. CASE TaskReturns
  BY <1>7, LifecycleFrame DEF TaskReturns, calls
<1>8. CASE ShutExecutor
  BY <1>8, LifecycleFrame DEF ShutExecutor, calls
<1>9. CASE UNCHANGED vars
  BY <1>9, LifecycleFrame DEF vars, butPc, calls
<1>10. QED
  BY <1>1, <1>2, <1>3, <1>4, <1>5, <1>5a, <1>6, <1>7, <1>8, <1>9 DEF Next

\* The inductive invariant: the monitor, the worker field and the published
\* handle always belong together.
THEOREM Lifecycle == Spec => []LifecycleInv
<1>1. Init => LifecycleInv
  BY ThreadAssumption
     DEF Init, LifecycleInv, MonitorHeld, HandleOwned, StopCutsPoll, Polling, Ending, Thread
<1>2. QED
  BY <1>1, TypeCorrect, LifecycleStep, PTL DEF Spec

(***************************************************************************)
(* What the lifecycle invariant gives.                                     *)
(***************************************************************************)
\* stop(), the worker's native calls and its last free never meet a freed watch.
THEOREM HandlesStayLive == Spec => []NoUseAfterFree
<1>1. Types /\ LifecycleInv => NoUseAfterFree
  BY DEF Types, LifecycleInv, HandleOwned, NoUseAfterFree, Polling
<1>2. TypeOK => Types
  BY ThreadAssumption DEF TypeOK, Types, Thread
<1>3. QED
  BY <1>1, <1>2, TypeCorrect, Lifecycle, PTL

\* Whatever way a worker ends, its watch is freed and its handle forgotten.
THEOREM WatchesDoNotLeak == Spec => []WatchGoesWithWorker
<1>1. LifecycleInv => WatchGoesWithWorker
  BY DEF LifecycleInv, HandleOwned, WatchGoesWithWorker, Alive, Polling, Ending
<1>2. QED
  BY <1>1, Lifecycle, PTL

\* Two workers never run, and the worker field names the one that does.
THEOREM OneWorkerRuns == Spec => []OneWorker
<1>1. LifecycleInv => OneWorker
  BY DEF LifecycleInv, MonitorHeld, OneWorker, Alive
<1>2. QED
  BY <1>1, Lifecycle, PTL

\* A poll in flight when running is cleared is aborted, or about to be.
THEOREM StopsCutPolls == Spec => []StopCutsPoll
<1>1. LifecycleInv => StopCutsPoll
  BY DEF LifecycleInv
<1>2. QED
  BY <1>1, Lifecycle, PTL

(***************************************************************************)
(* What onError() is told: of the error a watch ends by, if a catch of     *)
(* runLoop() takes it, and of the abort that stop() provokes only when it  *)
(* cut the first load.                                                     *)
(***************************************************************************)
Done == {"lasthook", "finally", "free", "dead"}

Told(w) ==
  \/ error[w] \in {"fault", "abort"} /\ <<w, error[w]>> \in reported
  \/ (UseExecutor /\ ~accepting)
  \/ interrupted[w] = "taken"
  \/ error[w] = "thrown"

\* A flag is raised, and a poll aborted, only by a stop() that cleared running first; a
\* start() does not set it again before the worker is gone.
NewsOf(w) ==
  /\ pc[w] \in {"unborn", "unstarted", "create"} => flag[w] = "unarmed"
  /\ pc[w] # "dead" /\ flag[w] = "raised" => ~running
  /\ pc[w] = "caught" /\ error[w] = "abort" => ~running
  /\ pc[w] = "uncaught" /\ error[w] = "abort" => pos[w] < 0
  /\ <<w, "abort">> \in reported => pos[w] < 0 /\ pc[w] # "unborn"

EndOf(w) ==
  /\ pc[w] \in {"caught", "uncaught"} => error[w] \in {"fault", "abort"}
  /\ pc[w] \in Done /\ worker = w /\ running => Told(w)

ReportInv ==
  /\ \A t \in Thread : call[t] = "abort" => ~running
  /\ \A w \in Worker : NewsOf(w) /\ EndOf(w)

\* A step of worker w, as far as ReportInv sees it.
Steps(w) ==
  /\ UNCHANGED <<running, worker, pos, call, accepting>>
  /\ reported \subseteq reported'
  /\ \A v \in Worker : interrupted[v] = "taken" => interrupted'[v] = "taken"
  /\ \A v \in Worker \ {w} :
       /\ pc'[v] = pc[v] /\ error'[v] = error[v] /\ flag'[v] = flag[v]
       /\ \A e : <<v, e>> \in reported' => <<v, e>> \in reported

LEMMA ToldGrows ==
  ASSUME NEW v \in Worker, Told(v), reported \subseteq reported', accepting' => accepting,
         error'[v] = error[v], interrupted[v] = "taken" => interrupted'[v] = "taken"
  PROVE  Told(v)'
  BY DEF Told

LEMMA ReportWorker ==
  ASSUME ReportInv, NEW w \in Worker, Steps(w), (NewsOf(w) /\ EndOf(w))'
  PROVE  ReportInv'
<1>1. ASSUME NEW v \in Worker \ {w} PROVE (NewsOf(v) /\ EndOf(v))'
  <2>1. NewsOf(v) /\ EndOf(v) /\ (Told(v) => Told(v)')
    BY ToldGrows DEF ReportInv, Steps
  <2>2. NewsOf(v)'
    BY <2>1 DEF NewsOf, Steps
  <2>3. EndOf(v)'
    BY <2>1 DEF EndOf, Steps
  <2> QED BY <2>2, <2>3
<1> QED BY <1>1 DEF ReportInv, Steps

\* A worker that goes on, or ends for a reason.
LEMMA ReportMove ==
  ASSUME TypeOK, ReportInv, NEW w \in Worker, Steps(w), NEW here, NEW there,
         At(w, here, there), flag' = flag, error' = error,
         <<w, "abort">> \in reported' => <<w, "abort">> \in reported,
         here \notin {"unborn", "dead"},
         there \notin {"unborn", "unstarted", "create", "caught", "uncaught"},
         there \in Done => ~running \/ Told(w)'
  PROVE  ReportInv'
<1>1. pc[w] = here /\ pc'[w] = there
  BY DEF At, TypeOK
<1>2. NewsOf(w) /\ EndOf(w)
  BY DEF ReportInv
<1>3. NewsOf(w)'
  BY <1>1, <1>2 DEF NewsOf, Steps
<1>4. EndOf(w)'
  BY <1>1 DEF EndOf, Steps
<1> QED BY <1>3, <1>4, ReportWorker

\* An error: the abort of a poll means that running was cleared.
LEMMA ReportError ==
  ASSUME TypeOK, ReportInv, NEW w \in Worker, NEW there,
         Fault(w, there) \/ Aborted(w, there),
         \/ pc[w] = "poll" /\ there = "caught"
         \/ pc[w] \in {"create", "first"} /\ there = "uncaught"
              /\ (Aborted(w, there) => pos[w] < 0)
  PROVE  ReportInv'
<1>1. /\ pc'[w] = there /\ UNCHANGED <<running, worker, pos, call, accepting, reported, flag>>
      /\ interrupted' = interrupted
      /\ \A v \in Worker \ {w} : pc'[v] = pc[v] /\ error'[v] = error[v]
      /\ \/ error'[w] = "fault"
         \/ error'[w] = "abort" /\ flag[w] = "raised" /\ Aborted(w, there)
  BY DEF Fault, Aborted, TypeOK, object, load, native, calls, tasks, outside, history
<1>2. Steps(w)
  BY <1>1 DEF Steps
<1>3. NewsOf(w) /\ EndOf(w)
  BY DEF ReportInv
<1>4. NewsOf(w)'
  BY <1>1, <1>3 DEF NewsOf
<1>5. EndOf(w)'
  BY <1>1 DEF EndOf, Done
<1> QED BY <1>2, <1>4, <1>5, ReportWorker

\* Told once, the watch may end; the error told is never the abort of a poll.
LEMMA ReportTold ==
  ASSUME TypeOK, ReportInv, NEW w \in Worker, NEW hook, NEW after, Report(w, hook, after),
         \/ pc[w] = "caught" /\ running /\ hook = "errhook" /\ after = "sleep"
         \/ pc[w] = "uncaught" /\ hook = "lasthook" /\ after = "finally"
  PROVE  ReportInv'
<1>1. /\ pc'[w] \in {hook, after, "finally"}
      /\ UNCHANGED <<running, worker, pos, call, accepting, flag, error, interrupted>>
      /\ \A v \in Worker \ {w} : pc'[v] = pc[v]
      /\ ~Accepted => pc'[w] = "finally" /\ reported' = reported
      /\ Accepted => pc'[w] \in {hook, after} /\ reported' = reported \cup {<<w, error[w]>>}
  BY DEF Report, HandOver, Accepted, TypeOK, object, load, native, calls, tasks
<1>2. Steps(w)
  BY <1>1 DEF Steps
<1>3. NewsOf(w) /\ EndOf(w) /\ error[w] \in {"fault", "abort"}
  BY DEF ReportInv, EndOf
<1>4. NewsOf(w)'
  BY <1>1, <1>3 DEF NewsOf
<1>5. EndOf(w)'
  <2>1. CASE Accepted
    <3>1. <<w, error[w]>> \in reported'
      BY <1>1, <2>1
    <3> QED BY <1>1, <1>3, <3>1 DEF EndOf, Told
  <2>2. CASE ~Accepted
    <3>1. Told(w)'
      BY <1>1, <2>2 DEF Told, Accepted
    <3> QED BY <1>1, <2>2, <3>1 DEF EndOf
  <2> QED BY <2>1, <2>2
<1> QED BY <1>2, <1>4, <1>5, ReportWorker

\* A throwable that no catch takes ends the watch untold, and is an excuse of its own.
LEMMA ReportThrown ==
  ASSUME TypeOK, ReportInv, NEW w \in Worker, ThrowsError(w)
  PROVE  ReportInv'
<1>1. /\ pc[w] \notin {"unborn", "dead"} /\ pc'[w] = "finally" /\ error'[w] = "thrown"
      /\ UNCHANGED <<running, worker, pos, call, accepting, reported, flag, interrupted>>
      /\ \A v \in Worker \ {w} : pc'[v] = pc[v] /\ error'[v] = error[v]
  BY DEF ThrowsError, TypeOK, object, load, native, calls, tasks, history
<1>2. Steps(w)
  BY <1>1 DEF Steps
<1>3. (NewsOf(w) /\ EndOf(w))'
  BY <1>1 DEF ReportInv, NewsOf, EndOf, Told
<1> QED BY <1>2, <1>3, ReportWorker

LEMMA ReportWorkerStep ==
  ASSUME TypeOK, ReportInv, NEW w \in Worker, WorkerStep(w)
  PROVE  ReportInv'
<1> USE DEF outside, history, calls, tasks, object, load, native
<1>1. ASSUME NEW here, NEW there, At(w, here, there), UNCHANGED butPc,
             here \notin {"unborn", "dead"},
             there \notin {"unborn", "unstarted", "create", "caught", "uncaught"},
             there \in Done => ~running \/ Told(w)
      PROVE  ReportInv'
  <2>1. Steps(w) /\ flag' = flag /\ error' = error /\ reported' = reported
    BY <1>1 DEF Steps, butPc, At, TypeOK
  <2>2. Told(w) => Told(w)'
    BY <1>1 DEF Told, butPc
  <2> QED BY <1>1, <2>1, <2>2, ReportMove
<1>2. ASSUME NEW here, NEW there, At(w, here, there),
             UNCHANGED <<running, worker, pos, call, accepting, reported, flag, error,
                         interrupted>>,
             here \notin {"unborn", "dead"},
             there \notin {"unborn", "unstarted", "create", "caught", "uncaught"} \cup Done
      PROVE  ReportInv'
  <2>1. Steps(w)
    BY <1>2 DEF Steps, At, TypeOK
  <2> QED BY <1>2, <2>1, ReportMove
<1>3. CASE Create(w)
  <2>1. /\ pc[w] = "create" /\ pc'[w] = "publish" /\ flag'[w] # "raised"
        /\ UNCHANGED <<running, reported, pos, worker, error>> /\ Steps(w)
    BY <1>3 DEF Create, At, TypeOK, Steps
  <2>2. NewsOf(w) /\ EndOf(w)
    BY DEF ReportInv
  <2>3. (NewsOf(w) /\ EndOf(w))'
    BY <2>1, <2>2 DEF NewsOf, EndOf, Done
  <2> QED BY <2>1, <2>3, ReportWorker
<1>4. CASE CreateFails(w)
  <2>1. ~Aborted(w, "uncaught")
    BY <1>4 DEF CreateFails, Fault, Aborted, TypeOK
  <2> QED BY <1>4, <2>1, ReportError DEF CreateFails
<1>5. CASE Publish(w)
  BY <1>2, <1>5 DEF Publish, Done
<1>6. CASE Probe(w) \/ Replay(w)
  BY <1>2, <1>6 DEF Probe, Replay, BeginAt, Done
<1>7. CASE Backfill(w)
  BY <1>2, <1>7 DEF Backfill, Done
<1>8. CASE FirstFails(w)
  BY <1>8, ReportError DEF FirstFails
<1>9. CASE Check(w)
  BY <1>1, <1>9 DEF Check, LoopGoesOn, Done
<1>10. CASE PollLoads(w)
  BY <1>2, <1>10 DEF PollLoads, Done
<1>11. CASE PollEmpty(w)
  BY <1>1, <1>11 DEF PollEmpty, Done
<1>12. CASE PollFails(w)
  BY <1>12, ReportError DEF PollFails
<1>13. CASE Deliver(w)
  <2>1. /\ UNCHANGED <<running, worker, pos, call, accepting, reported, flag, error,
                       interrupted>>
        /\ pc[w] = "deliver"
        /\ At(w, "deliver", "hook") \/ At(w, "deliver", "deliver")
             \/ (At(w, "deliver", "finally") /\ UseExecutor /\ ~accepting)
    BY <1>13 DEF Deliver, HandOver, At
  <2>2. CASE At(w, "deliver", "finally") /\ UseExecutor /\ ~accepting
    <3>1. Told(w)' /\ Steps(w)
      BY <2>1, <2>2 DEF Told, Steps, At, TypeOK
    <3> QED BY <2>1, <2>2, <3>1, ReportMove
  <2> QED BY <1>2, <2>1, <2>2 DEF Done
<1>14. CASE BatchDone(w)
  BY <1>2, <1>14 DEF BatchDone, Done
<1>15. CASE CaughtStopped(w)
  BY <1>1, <1>15 DEF CaughtStopped, ErrorIsNews, Done
<1>16. CASE Caught(w) \/ Uncaught(w)
  BY <1>16, ReportTold DEF Caught, Uncaught, ErrorIsNews
<1>17. CASE SleepEnds(w)
  BY <1>1, <1>17 DEF SleepEnds, Retry, Done
<1>18. CASE SleepInterrupted(w)
  <2>1. /\ UNCHANGED <<running, worker, pos, call, accepting, reported, flag, error>>
        /\ interrupted' = [interrupted EXCEPT ![w] = "taken"] /\ w \in Thread
        /\ At(w, "sleep", "finally")
    BY <1>18 DEF SleepInterrupted, Thread
  <2>2. Told(w)' /\ Steps(w)
    BY <2>1 DEF Told, Steps, At, TypeOK
  <2> QED BY <2>1, <2>2, ReportMove
<1>19. CASE HookReturns(w)
  <2>1. pc[w] = "lasthook" => ~running \/ worker # w \/ Told(w)
    BY DEF ReportInv, EndOf, Done
  <2>2. CASE At(w, "lasthook", "finally")
    <3>1. Steps(w) /\ pc[w] = "lasthook" /\ pc'[w] = "finally"
          /\ UNCHANGED <<flag, error, reported, running, worker, pos>>
      BY <1>19, <2>2 DEF HookReturns, butPc, Steps, At, TypeOK
    <3>2. NewsOf(w) /\ EndOf(w) /\ (Told(w) => Told(w)')
      BY <1>19 DEF ReportInv, HookReturns, butPc, Told
    <3>3. (NewsOf(w) /\ EndOf(w))'
      BY <2>1, <3>1, <3>2 DEF NewsOf, EndOf
    <3> QED BY <3>1, <3>3, ReportWorker
  <2> QED BY <1>1, <1>19, <2>2 DEF HookReturns, Done
<1>20. ASSUME TakeHandle(w) \/ Free(w) PROVE ReportInv'
  <2>1. /\ Steps(w) /\ pc[w] \in {"finally", "free"} /\ pc'[w] \in {"free", "dead"}
        /\ UNCHANGED <<flag, error, reported, running, worker, pos, accepting, interrupted>>
    BY <1>20 DEF TakeHandle, Free, Steps, At, TypeOK
  <2>2. NewsOf(w) /\ EndOf(w) /\ (Told(w) => Told(w)')
    BY <2>1 DEF ReportInv, Told
  <2>3. (NewsOf(w) /\ EndOf(w))'
    BY <2>1, <2>2 DEF NewsOf, EndOf, Done
  <2> QED BY <2>1, <2>3, ReportWorker
<1> QED BY <1>3, <1>4, <1>5, <1>6, <1>7, <1>8, <1>9, <1>10, <1>11, <1>12, <1>13, <1>14,
           <1>15, <1>16, <1>17, <1>18, <1>19, <1>20 DEF WorkerStep

\* Every step keeps what is told.
LEMMA ReportStep == TypeOK /\ LifecycleInv /\ ReportInv /\ [Next]_vars => ReportInv'
<1> SUFFICES ASSUME TypeOK, LifecycleInv, ReportInv, [Next]_vars PROVE ReportInv'
  OBVIOUS
<1> USE DEF object, load, native, calls, tasks, outside, history
\* A step that moves no worker and clears running at most.
<1>1. ASSUME UNCHANGED <<pc, worker, pos, error, reported>>, running' => running,
             accepting' => accepting,
             \A v \in Worker : interrupted[v] = "taken" => interrupted'[v] = "taken",
             \A v \in Worker : flag'[v] = flag[v] \/ ((flag[v] = "clear") /\ ~running),
             \A t \in Thread : call'[t] = "abort" => call[t] = "abort" \/ ~running'
      PROVE  ReportInv'
  <2>1. ASSUME NEW v \in Worker PROVE (NewsOf(v) /\ EndOf(v))'
    <3>1. NewsOf(v) /\ EndOf(v) /\ (Told(v) => Told(v)')
      BY <1>1, ToldGrows DEF ReportInv
    <3>2. NewsOf(v)'
      BY <1>1, <3>1 DEF NewsOf
    <3>3. EndOf(v)'
      BY <1>1, <3>1 DEF EndOf
    <3> QED BY <3>2, <3>3
  <2> QED BY <1>1, <2>1 DEF ReportInv
<1>2. ASSUME NEW id \in 1..MaxId, Post(id) PROVE ReportInv'
  BY <1>1, <1>2 DEF Post
<1>3. ASSUME NEW t \in Thread, NEW p \in Positions, Start(t, p) PROVE ReportInv'
  <2>1. PICK w \in Worker :
          /\ pc[w] = "unborn" /\ worker' = w
          /\ pc' = [pc EXCEPT ![w] = "unstarted"] /\ pos' = [pos EXCEPT ![w] = p]
    BY <1>3 DEF Start
  <2>2. /\ monitor = None /\ UNCHANGED <<error, reported, flag, accepting, interrupted>>
        /\ call' = [call EXCEPT ![t] = "launch"]
    BY <1>3 DEF Start
  <2>3. \A s \in Thread : call'[s] # "abort"
    BY <2>2, ThreadAssumption DEF LifecycleInv, MonitorHeld, TypeOK
  <2>4. ASSUME NEW v \in Worker PROVE pc[v] \in {"unborn", "dead"}
    <3>1. pc[v] \notin {"unborn", "dead"} => worker = v /\ pc[v] # "unstarted"
      BY <2>2 DEF LifecycleInv, MonitorHeld
    <3>2. worker = v => ~Alive(v)
      BY <1>3, ThreadAssumption DEF Start, MayStart, Thread
    <3> QED BY <3>1, <3>2 DEF Alive
  <2>5. ASSUME NEW v \in Worker PROVE (NewsOf(v) /\ EndOf(v))'
    <3>1. NewsOf(v) /\ pc[v] \in {"unborn", "dead"}
      BY <2>4 DEF ReportInv
    <3>2. CASE v = w
      <4>1. pc'[v] = "unstarted" /\ flag'[v] = flag[v]
            /\ (<<v, "abort">> \in reported' => <<v, "abort">> \in reported)
        BY <2>1, <2>2, <3>2 DEF TypeOK
      <4> QED BY <2>1, <3>1, <3>2, <4>1 DEF NewsOf, EndOf, Done
    <3>3. CASE v # w
      <4>1. pc'[v] = pc[v] /\ pos'[v] = pos[v] /\ worker' # v
        BY <2>1, <3>3 DEF TypeOK
      <4> QED BY <2>2, <3>1, <4>1 DEF NewsOf, EndOf
    <3> QED BY <3>2, <3>3
  <2> QED BY <2>3, <2>5 DEF ReportInv
<1>4. ASSUME NEW t \in Thread, CallBegins(t) PROVE ReportInv'
  <2>1. CASE StartRefused(t)
    BY <1>1, <2>1 DEF StartRefused
  <2>2. ASSUME NEW m \in Method, Stop(t, m) PROVE ReportInv'
    BY <1>1, <2>2 DEF Stop
  <2>3. CASE Join(t)
    BY <1>1, <2>3 DEF Join, TypeOK
  <2> QED BY <1>3, <1>4, <2>1, <2>2, <2>3 DEF CallBegins
<1>5. ASSUME NEW t \in Thread, CallStep(t) PROVE ReportInv'
  <2>1. CASE Launch(t)
    <3>1. PICK w \in Worker : w = worker /\ pc[w] = "unstarted"
      BY <2>1 DEF Launch, LifecycleInv, MonitorHeld, TypeOK
    <3>2. /\ pc' = [pc EXCEPT ![w] = "create"] /\ call' = [call EXCEPT ![t] = "idle"]
          /\ UNCHANGED <<running, worker, pos, error, flag, reported, accepting, interrupted>>
      BY <2>1, <3>1 DEF Launch
    <3>3. ASSUME NEW v \in Worker PROVE (NewsOf(v) /\ EndOf(v))'
      <4>1. NewsOf(v) /\ EndOf(v) /\ (Told(v) => Told(v)')
        BY <3>2 DEF ReportInv, Told
      <4>2. pc'[v] = IF v = w THEN "create" ELSE pc[v]
        BY <3>2 DEF TypeOK
      <4> QED BY <3>1, <3>2, <4>1, <4>2 DEF NewsOf, EndOf, Done
    <3>4. \A s \in Thread : call'[s] = "abort" => call[s] = "abort"
      BY <3>2 DEF TypeOK
    <3> QED BY <3>2, <3>3, <3>4 DEF ReportInv
  <2>2. CASE Abort(t)
    <3>1. ~running
      BY <2>2 DEF Abort, ReportInv
    <3>2. \A v \in Worker : flag'[v] = flag[v] \/ flag[v] = "clear"
      BY <2>2 DEF Abort, RaiseFlag, TypeOK
    <3>3. \A s \in Thread : call'[s] = "abort" => call[s] = "abort"
      BY <2>2 DEF Abort, TypeOK
    <3> QED BY <1>1, <2>2, <3>1, <3>2, <3>3 DEF Abort
  <2>3. CASE ReadWorker(t)
    BY <1>1, <2>3 DEF ReadWorker, TypeOK
  <2>4. CASE Joined(t) 
    BY <1>1, <2>4 DEF Joined, TypeOK
  <2>5. CASE JoinInterrupted(t)
    <3>1. \A v \in Worker : interrupted[v] = "taken" => interrupted'[v] = "taken"
      BY <2>5 DEF JoinInterrupted, TypeOK, Thread
    <3>2. \A s \in Thread : call'[s] = "abort" => call[s] = "abort"
      BY <2>5 DEF JoinInterrupted, TypeOK
    <3> QED BY <1>1, <2>5, <3>1, <3>2 DEF JoinInterrupted
  <2> QED BY <1>5, <2>1, <2>2, <2>3, <2>4, <2>5 DEF CallStep
<1>6. ASSUME NEW t \in Thread, Interrupt(t) PROVE ReportInv'
  <2>1. \A v \in Worker : interrupted[v] = "taken" => interrupted'[v] = "taken"
    BY <1>6 DEF Interrupt, TypeOK, Thread
  <2> QED BY <1>1, <1>6, <2>1 DEF Interrupt
<1>7. ASSUME NEW w \in Worker, WorkerStep(w) PROVE ReportInv'
  BY <1>7, ReportWorkerStep
<1>8. CASE RunTask \/ TaskReturns \/ ShutExecutor
  BY <1>1, <1>8 DEF RunTask, TaskReturns, ShutExecutor
<1>9. CASE UNCHANGED vars
  BY <1>1, <1>9 DEF vars, butPc
<1>10. ASSUME NEW w \in Worker, ThrowsError(w) PROVE ReportInv'
  BY <1>10, ReportThrown
<1> QED BY <1>2, <1>4, <1>5, <1>6, <1>7, <1>8, <1>9, <1>10 DEF Next

\* What decides whether onError() is told: of the error that ends a watch nobody stopped, if a
\* catch of runLoop() takes it, and of no abort without a stop() before it.
THEOREM Reporting == Spec => []ReportInv
<1>1. Init => ReportInv
  BY ThreadAssumption DEF Init, ReportInv, NewsOf, EndOf, Done, Thread
<1> QED BY <1>1, ReportStep, TypeCorrect, Lifecycle, PTL DEF Spec

\* NoSilentEnd: a watch that ends by itself has told onError() of its last error, but for a
\* refused task, an interrupt of the worker, and a throwable that no catch takes.
THEOREM EndsAreTold == Spec => []NoSilentEnd
<1>1. ReportInv => NoSilentEnd
  BY DEF ReportInv, EndOf, Done, Told, NoSilentEnd
<1> QED BY <1>1, Reporting, PTL

\* A worker in its first load, or leaving it by an error, has handed nothing out; one whose
\* abort was reported left that way, and is on its way out.
Opening == {"unborn", "unstarted", "create", "publish", "first", "uncaught"}

UnopenedOf(w) ==
  /\ pc[w] \in Opening => delivered[w] = <<>>
  /\ <<w, "abort">> \in reported => delivered[w] = <<>> /\ pc[w] \in Done

Unopened == \A w \in Worker : UnopenedOf(w)

LEMMA UnopenedWorker ==
  ASSUME Unopened, NEW w \in Worker,
         \A v \in Worker \ {w} :
           /\ pc'[v] = pc[v] /\ delivered'[v] = delivered[v]
           /\ \A e : <<v, e>> \in reported' => <<v, e>> \in reported,
         delivered'[w] = delivered[w] \/ pc[w] = "deliver",
         pc'[w] \in Opening => pc[w] \in Opening,
         pc[w] \in Done => pc'[w] \in Done,
         <<w, "abort">> \in reported' =>
           <<w, "abort">> \in reported \/ (pc[w] = "uncaught" /\ pc'[w] \in Done)
  PROVE  Unopened'
<1>1. "deliver" \notin Opening /\ "deliver" \notin Done /\ "uncaught" \in Opening
  BY DEF Opening, Done
<1>2. ASSUME NEW v \in Worker \ {w} PROVE UnopenedOf(v)'
  BY DEF Unopened, UnopenedOf
<1>3. UnopenedOf(w)'
  BY <1>1 DEF Unopened, UnopenedOf
<1> QED BY <1>2, <1>3 DEF Unopened

LEMMA UnopenedStep == TypeOK /\ LifecycleInv /\ ReportInv /\ Unopened /\ [Next]_vars => Unopened'
<1> SUFFICES ASSUME TypeOK, LifecycleInv, ReportInv, Unopened, [Next]_vars PROVE Unopened'
  OBVIOUS
<1> USE DEF object, load, native, calls, tasks, outside, history
\* A step of a worker that hands out nothing and reports nothing.
<1>1. ASSUME NEW w \in Worker, NEW here, NEW there, At(w, here, there),
             here \in Done => there \in Done, there \in Opening => here \in Opening,
             UNCHANGED <<delivered, reported>>
      PROVE  Unopened'
  <2>1. pc[w] = here /\ pc'[w] = there /\ \A v \in Worker \ {w} : pc'[v] = pc[v]
    BY <1>1 DEF At, TypeOK
  <2> QED BY <1>1, <2>1, UnopenedWorker
<1>2. ASSUME UNCHANGED <<pc, delivered, reported>> PROVE Unopened'
  BY <1>2 DEF Unopened, UnopenedOf
<1>3. ASSUME NEW w \in Worker, NEW there, there \in Opening \ {"uncaught"},
             pc[w] \in Opening, pc' = [pc EXCEPT ![w] = there], UNCHANGED <<delivered, reported>>
      PROVE  Unopened'
  <2>1. pc'[w] = there /\ \A v \in Worker \ {w} : pc'[v] = pc[v]
    BY <1>3 DEF TypeOK
  <2>2. pc[w] \notin Done
    BY <1>3 DEF Opening, Done
  <2> QED BY <1>3, <2>1, <2>2, UnopenedWorker
<1>4. ASSUME NEW w \in Worker, WorkerStep(w) PROVE Unopened'
  <2> USE DEF Opening, Done
  <2>1. CASE Create(w) \/ Publish(w) \/ Backfill(w) \/ Check(w) \/ PollLoads(w)
    BY <1>1, <2>1 DEF Create, Publish, Backfill, Check, PollLoads, butPc
  <2>2. CASE Probe(w) \/ Replay(w)
    BY <1>1, <2>2 DEF Probe, Replay, BeginAt
  <2>3. ASSUME NEW here, NEW there, here \in {"create", "first", "poll"},
               there = "caught" \/ (there = "uncaught" /\ here # "poll"),
               pc[w] = here, Fault(w, there) \/ Aborted(w, there)
        PROVE  Unopened'
    <3>1. At(w, here, there) /\ UNCHANGED <<delivered, reported>>
      BY <2>3 DEF Fault, Aborted, At
    <3> QED BY <1>1, <2>3, <3>1
  <2>4. CASE CreateFails(w) \/ FirstFails(w) \/ PollFails(w)
    BY <2>3, <2>4 DEF CreateFails, FirstFails, PollFails
  <2>5. CASE PollEmpty(w) \/ BatchDone(w) \/ CaughtStopped(w)
    BY <1>1, <2>5 DEF PollEmpty, BatchDone, CaughtStopped, butPc
  <2>6. CASE SleepInterrupted(w) \/ HookReturns(w) \/ TakeHandle(w) \/ Free(w)
    BY <1>1, <2>6 DEF SleepInterrupted, HookReturns, TakeHandle, Free, butPc
  <2>7. CASE Deliver(w)
    <3>1. /\ pc[w] = "deliver" /\ pc'[w] \in {"deliver", "hook", "finally"}
          /\ reported' = reported
          /\ \A v \in Worker \ {w} : pc'[v] = pc[v] /\ delivered'[v] = delivered[v]
      BY <2>7 DEF Deliver, HandOver, At, TypeOK
    <3> QED BY <3>1, UnopenedWorker
  <2>8. CASE SleepEnds(w)
    BY <1>1, <2>8 DEF SleepEnds, Retry, butPc
  <2>9. CASE Caught(w) \/ Uncaught(w)
    <3>1. PICK hook, after :
            /\ Report(w, hook, after)
            /\ \/ pc[w] = "caught" /\ running /\ hook = "errhook" /\ after = "sleep"
               \/ pc[w] = "uncaught" /\ hook = "lasthook" /\ after = "finally"
      BY <2>9 DEF Caught, Uncaught, ErrorIsNews
    <3>2. /\ pc'[w] \in {hook, after, "finally"} /\ delivered' = delivered
          /\ \A v \in Worker \ {w} : pc'[v] = pc[v]
          /\ reported' \subseteq reported \cup {<<w, error[w]>>}
      BY <3>1 DEF Report, HandOver, TypeOK
    <3>3. pc[w] = "caught" => error[w] # "abort"
      BY <3>1 DEF ReportInv, NewsOf
    <3> QED BY <3>1, <3>2, <3>3, UnopenedWorker
  <2> QED BY <1>4, <2>1, <2>2, <2>4, <2>5, <2>6, <2>7, <2>8, <2>9 DEF WorkerStep
<1>5. ASSUME NEW t \in Thread, NEW p \in Positions, Start(t, p) PROVE Unopened'
  BY <1>3, <1>5 DEF Start, Opening
<1>6. ASSUME NEW t \in Thread, CallStep(t) PROVE Unopened'
  <2>1. CASE Launch(t)
    <3>1. worker \in Worker /\ pc[worker] = "unstarted"
      BY <2>1 DEF Launch, LifecycleInv, MonitorHeld, TypeOK
    <3> QED BY <1>3, <2>1, <3>1 DEF Launch, Opening
  <2>2. CASE Abort(t) \/ ReadWorker(t) \/ Joined(t) \/ JoinInterrupted(t)
    BY <1>2, <2>2 DEF Abort, ReadWorker, Joined, JoinInterrupted
  <2> QED BY <1>6, <2>1, <2>2 DEF CallStep
<1>7. ASSUME NEW t \in Thread, CallBegins(t) PROVE Unopened'
  <2>1. CASE StartRefused(t) \/ Join(t) \/ \E m \in Method : Stop(t, m)
    BY <1>2, <2>1 DEF StartRefused, Join, Stop
  <2> QED BY <1>5, <1>7, <2>1 DEF CallBegins
<1>8. CASE \/ \E id \in 1..MaxId : Post(id)
           \/ \E t \in Thread : Interrupt(t)
           \/ RunTask \/ TaskReturns \/ ShutExecutor \/ UNCHANGED vars
  BY <1>2, <1>8 DEF Post, Interrupt, RunTask, TaskReturns, ShutExecutor, vars, butPc
<1>9. ASSUME NEW w \in Worker, ThrowsError(w) PROVE Unopened'
  <2>1. /\ pc[w] # "unborn" /\ pc'[w] = "finally" /\ UNCHANGED <<delivered, reported>>
        /\ \A v \in Worker \ {w} : pc'[v] = pc[v]
    BY <1>9 DEF ThrowsError, TypeOK
  <2>2. pc'[w] \in Done /\ pc'[w] \notin Opening
    BY <2>1 DEF Done, Opening
  <2> QED BY <2>1, <2>2, UnopenedWorker
<1> QED BY <1>4, <1>6, <1>7, <1>8, <1>9 DEF Next

\* AbortNotReported: the error that stop() provokes reaches onError() only of a watch whose
\* first load it cut (VESEventTarget.java:265, 280).
THEOREM AbortsAreHidden == Spec => []AbortNotReported
<1>1. Init => Unopened
  BY DEF Init, Unopened, UnopenedOf, Opening
<1>2. ReportInv /\ Unopened => AbortNotReported
  BY DEF ReportInv, NewsOf, Unopened, UnopenedOf, AbortNotReported
<1> QED BY <1>1, <1>2, UnopenedStep, TypeCorrect, Lifecycle, Reporting, PTL DEF Spec

(***************************************************************************)
(* close(), whoever else starts, stops or closes the watch meanwhile.      *)
(***************************************************************************)
\* The workers there were when a close() began have all been launched; of those, only the
\* one it waits for may still be alive.
CloseOf(t) ==
  method[t] = "close" =>
    /\ call[t] \in {"abort", "read", "joining"} =>
         \A w \in before[t] : pc[w] \notin {"unborn", "unstarted"}
    /\ call[t] = "joining" => \A w \in before[t] : pc[w] = "dead" \/ aim[t] = w

CloseInv == \A t \in Thread : CloseOf(t)

\* What is launched stays so, and what is dead.
Onward ==
  \A w \in Worker :
    /\ pc[w] \notin {"unborn", "unstarted"} => pc'[w] \notin {"unborn", "unstarted"}
    /\ pc[w] = "dead" => pc'[w] = "dead"

LEMMA CloseFrame ==
  ASSUME TypeOK, NEW t \in Thread, CloseOf(t), Onward,
         call'[t] = call[t], method'[t] = method[t], aim'[t] = aim[t], before'[t] = before[t]
  PROVE  CloseOf(t)'
BY DEF CloseOf, Onward, TypeOK

\* A step of the calls of thread t.
LEMMA CloseCall ==
  ASSUME TypeOK, CloseInv, NEW t \in Thread, Onward, CloseOf(t)',
         \A u \in Thread \ {t} :
           /\ call'[u] = call[u] /\ method'[u] = method[u]
           /\ aim'[u] = aim[u] /\ before'[u] = before[u]
  PROVE  CloseInv'
<1>1. ASSUME NEW u \in Thread \ {t} PROVE CloseOf(u)'
  BY CloseFrame DEF CloseInv
<1> QED BY <1>1 DEF CloseInv

LEMMA CloseStep ==
  ASSUME TypeOK, LifecycleInv, CloseInv, [Next]_vars
  PROVE  CloseInv'
<1> USE DEF object, calls, outside, native, history
<1>1. ASSUME Onward, UNCHANGED <<call, method, aim, before>> PROVE CloseInv'
  BY <1>1, CloseFrame DEF CloseInv
<1>2. pc' = pc => Onward
  BY DEF Onward
<1>3. ASSUME NEW t \in Thread, CallBegins(t) PROVE CloseInv'
  <2>1. ASSUME NEW p \in Positions, Start(t, p) PROVE CloseInv'
    <3>1. PICK w \in Worker : pc[w] = "unborn" /\ pc' = [pc EXCEPT ![w] = "unstarted"]
      BY <2>1 DEF Start
    <3>2. Onward
      BY <3>1 DEF Onward, TypeOK
    <3>3. /\ UNCHANGED <<method, aim, before>> /\ call'[t] = "launch"
          /\ \A u \in Thread \ {t} : call'[u] = call[u]
      BY <2>1 DEF Start, TypeOK
    <3>4. CloseOf(t)'
      BY <3>3 DEF CloseOf
    <3> QED BY <3>2, <3>3, <3>4, CloseCall
  <2>2. CASE StartRefused(t)
    BY <1>1, <1>2, <2>2 DEF StartRefused
  <2>3. ASSUME NEW m \in Method, Stop(t, m) PROVE CloseInv'
    <3>1. /\ pc' = pc /\ monitor = None /\ call'[t] = "abort" /\ method'[t] = m
          /\ m = "close" => before'[t] = {w \in Worker : pc[w] # "unborn"}
          /\ \A u \in Thread \ {t} :
               /\ call'[u] = call[u] /\ method'[u] = method[u]
               /\ aim'[u] = aim[u] /\ before'[u] = before[u]
      BY <2>3 DEF Stop, TypeOK
    <3>2. \A w \in Worker : pc[w] # "unstarted"
      BY <3>1 DEF LifecycleInv, MonitorHeld
    <3>3. CloseOf(t)'
      BY <3>1, <3>2 DEF CloseOf
    <3> QED BY <1>2, <3>1, <3>3, CloseCall
  <2>4. CASE Join(t)
    <3>1. /\ pc' = pc /\ method'[t] = "join" /\ UNCHANGED <<aim, before>>
          /\ \A u \in Thread \ {t} : call'[u] = call[u] /\ method'[u] = method[u]
      BY <2>4 DEF Join, TypeOK
    <3>2. CloseOf(t)'
      BY <3>1 DEF CloseOf
    <3> QED BY <1>2, <3>1, <3>2, CloseCall
  <2> QED BY <1>3, <2>1, <2>2, <2>3, <2>4 DEF CallBegins
<1>4. ASSUME NEW t \in Thread, CallStep(t) PROVE CloseInv'
  <2>1. /\ UNCHANGED <<method, before>>
        /\ \A u \in Thread \ {t} : call'[u] = call[u] /\ aim'[u] = aim[u]
    BY <1>4 DEF CallStep, Launch, Abort, ReadWorker, Joined, JoinInterrupted, TypeOK
  <2>2. Onward
    <3>1. CASE Launch(t)
      <4>1. pc[worker] = "unstarted"
        BY <3>1 DEF Launch, LifecycleInv, MonitorHeld
      <4> QED BY <3>1, <4>1 DEF Launch, Onward, TypeOK
    <3>2. CASE Abort(t) \/ ReadWorker(t) \/ Joined(t) \/ JoinInterrupted(t)
      BY <1>2, <3>2 DEF Abort, ReadWorker, Joined, JoinInterrupted
    <3> QED BY <1>4, <3>1, <3>2 DEF CallStep
  <2>3. CloseOf(t)'
    <3>1. \/ call'[t] = "idle"
          \/ call[t] = "abort" /\ call'[t] = "read"
          \/ call[t] = "read" /\ call'[t] = "joining" /\ aim'[t] = worker /\ pc' = pc
      BY <1>4 DEF CallStep, Launch, Abort, ReadWorker, Joined, JoinInterrupted, TypeOK
    <3>2. ASSUME call[t] = "read", method[t] = "close", NEW w \in before[t]
          PROVE  pc[w] = "dead" \/ worker = w
      BY <3>2 DEF CloseInv, CloseOf, LifecycleInv, MonitorHeld, TypeOK
    <3>3. before[t] \subseteq Worker
      BY DEF TypeOK
    <3> QED BY <2>1, <2>2, <3>1, <3>2, <3>3 DEF CloseInv, CloseOf, Onward
  <2> QED BY <2>1, <2>2, <2>3, CloseCall
<1>5. ASSUME NEW w \in Worker, WorkerStep(w) \/ ThrowsError(w) PROVE CloseInv'
  <2>1. UNCHANGED <<call, method, aim, before>>
    BY <1>5 DEF WorkerStep, Create, CreateFails, Fault, Publish, Probe, Replay, BeginAt,
       Backfill, FirstFails, Aborted, Check, butPc, PollLoads, PollEmpty, PollFails, Deliver,
       BatchDone, CaughtStopped, Caught, Report, Uncaught, SleepEnds, SleepInterrupted,
       HookReturns, TakeHandle, Free, ThrowsError
  <2> DEFINE Going ==
        /\ pc[w] \notin {"unborn", "unstarted", "dead"}
        /\ pc'[w] \notin {"unborn", "unstarted"}
        /\ \A v \in Worker \ {w} : pc'[v] = pc[v]
  <2>2. Going
    <3>1. ASSUME NEW here, NEW there, At(w, here, there),
                 here \notin {"unborn", "unstarted", "dead"},
                 there \notin {"unborn", "unstarted"}
          PROVE  Going
      BY <3>1 DEF At, TypeOK
    <3>2. CASE \/ Create(w) \/ Publish(w) \/ Probe(w) \/ Replay(w) \/ Backfill(w) \/ Check(w)
               \/ PollLoads(w) \/ PollEmpty(w) \/ BatchDone(w)
      BY <3>1, <3>2 DEF Create, Publish, Probe, Replay, BeginAt, Backfill, Check, PollLoads,
         PollEmpty, BatchDone
    <3>3. CASE \/ CaughtStopped(w) \/ SleepEnds(w) \/ SleepInterrupted(w) \/ HookReturns(w)
               \/ TakeHandle(w) \/ Free(w)
      BY <3>1, <3>3 DEF CaughtStopped, SleepEnds, Retry, SleepInterrupted, HookReturns,
         TakeHandle, Free
    <3>4. CASE CreateFails(w) \/ FirstFails(w) \/ PollFails(w) \/ ThrowsError(w)
      BY <3>4 DEF CreateFails, FirstFails, PollFails, Fault, Aborted, ThrowsError, TypeOK
    <3>5. CASE Deliver(w) \/ Caught(w) \/ Uncaught(w)
      BY <3>5 DEF Deliver, Caught, Uncaught, Report, HandOver, At, TypeOK
    <3> QED BY <1>5, <3>2, <3>3, <3>4, <3>5 DEF WorkerStep
  <2>3. Onward
    BY <2>2 DEF Onward
  <2> QED BY <1>1, <2>1, <2>3
<1>6. CASE \/ \E id \in 1..MaxId : Post(id)
           \/ \E t \in Thread : Interrupt(t)
           \/ RunTask \/ TaskReturns \/ ShutExecutor \/ UNCHANGED vars
  BY <1>1, <1>2, <1>6 DEF Post, Interrupt, RunTask, TaskReturns, ShutExecutor, vars, butPc
<1> QED BY <1>3, <1>4, <1>5, <1>6 DEF Next

\* While a close() is on its way, the worker it waits for is the only one of those it found
\* that may still be alive.
THEOREM Closing == Spec => []CloseInv
<1>1. Init => CloseInv
  BY DEF Init, CloseInv, CloseOf
<1>2. TypeOK /\ LifecycleInv /\ CloseInv /\ [Next]_vars => CloseInv'
  BY CloseStep
<1> QED BY <1>1, <1>2, TypeCorrect, Lifecycle, PTL DEF Spec

\* CloseLeavesNothing: a close() that was not interrupted returns to find every worker there
\* was when it began gone, and its native watch with it, whoever started another meanwhile.
THEOREM CloseIsFinal == Spec => CloseLeavesNothing
<1> DEFINE Left ==
      \A t \in Thread :
        call[t] \in {"read", "joining"} /\ method[t] = "close" /\ call'[t] = "idle" =>
          \/ interrupted[t] = "pending"
          \/ \A w \in before[t] : ~Alive(w)' /\ watch'[w] # "live"
<1>1. TypeOK /\ LifecycleInv /\ CloseInv /\ [Next]_vars => [Left]_vars
  <2> SUFFICES ASSUME TypeOK, LifecycleInv, CloseInv, Next, NEW t \in Thread,
                      call[t] \in {"read", "joining"}, method[t] = "close",
                      call'[t] = "idle", interrupted[t] # "pending",
                      NEW w \in before[t]
               PROVE  ~Alive(w)' /\ watch'[w] # "live"
    OBVIOUS
  <2>0. w \in Worker /\ pc[w] \notin {"unborn", "unstarted"}
    BY DEF TypeOK, CloseInv, CloseOf
  <2>1. ASSUME pc[w] = "dead", UNCHANGED <<pc, watch>>
        PROVE  ~Alive(w)' /\ watch'[w] # "live"
    BY <2>0, <2>1 DEF LifecycleInv, HandleOwned, Alive, Polling, Ending
  <2>2. CASE Joined(t)
    <3>1. pc[w] = "dead"
      BY <2>0, <2>2 DEF CloseInv, CloseOf, Joined, JoinEnds, Alive
    <3> QED BY <2>1, <2>2, <3>1 DEF Joined, native
  <2>3. CASE ReadWorker(t)
    <3>1. worker = None
      BY <2>3 DEF ReadWorker, TypeOK
    <3>2. pc[w] = "dead"
      BY <2>0, <3>1, ThreadAssumption DEF LifecycleInv, MonitorHeld, Thread
    <3> QED BY <2>1, <2>3, <3>2 DEF ReadWorker, native
  <2>4. ~(call' = call)
    OBVIOUS
  <2>5. CASE \E u \in Thread : CallBegins(u)
    <3>1. PICK u \in Thread : CallBegins(u)
      BY <2>5
    <3>2. call[u] = "idle" /\ \A v \in Thread \ {u} : call'[v] = call[v]
      <4>1. CASE \E p \in Positions : Start(u, p)
        BY <4>1 DEF Start, MayCall, InAppCode, TypeOK
      <4>2. CASE StartRefused(u)
        BY <4>2 DEF StartRefused, MayCall, InAppCode, calls
      <4>3. CASE \E m \in Method : Stop(u, m)
        BY <4>3 DEF Stop, MayCall, InAppCode, TypeOK
      <4>4. CASE Join(u)
        BY <4>4 DEF Join, MayCall, InAppCode, TypeOK
      <4> QED BY <3>1, <4>1, <4>2, <4>3, <4>4 DEF CallBegins
    <3> QED BY <3>2
  <2>6. CASE \E u \in Thread : CallStep(u)
    <3>1. PICK u \in Thread : CallStep(u)
      BY <2>6
    <3>2. \A v \in Thread \ {u} : call'[v] = call[v]
      BY <3>1 DEF CallStep, Launch, Abort, ReadWorker, Joined, JoinInterrupted, TypeOK
    <3>3. u = t
      BY <3>2
    <3>4. Joined(t) \/ ReadWorker(t)
      BY <3>1, <3>3 DEF CallStep, Launch, Abort, JoinInterrupted
    <3> QED BY <2>2, <2>3, <3>4
  <2>7. CASE \E v \in Worker : WorkerStep(v) \/ ThrowsError(v)
    BY <2>4, <2>7 DEF calls, WorkerStep, Create, CreateFails, Fault, Publish, Probe, Replay,
       BeginAt, Backfill, FirstFails, Aborted, Check, butPc, PollLoads, PollEmpty, PollFails,
       Deliver, BatchDone, CaughtStopped, Caught, Report, Uncaught, SleepEnds,
       SleepInterrupted, HookReturns, TakeHandle, Free, ThrowsError
  <2>8. CASE \/ \E id \in 1..MaxId : Post(id)
             \/ \E u \in Thread : Interrupt(u)
             \/ RunTask \/ TaskReturns \/ ShutExecutor
    BY <2>4, <2>8 DEF calls, Post, Interrupt, RunTask, TaskReturns, ShutExecutor
  <2> QED BY <2>5, <2>6, <2>7, <2>8 DEF Next
<1> HIDE DEF Left
<1>2. Spec => [][Left]_vars
  BY <1>1, TypeCorrect, Lifecycle, Closing, PTL DEF Spec
<1> QED BY <1>2 DEF CloseLeavesNothing, Left
=============================================================================
