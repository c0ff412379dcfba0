----------------------------- MODULE EventWatch -----------------------------
(***************************************************************************)
(* The real-time watch of a Vault or an Item: VESEventTarget.java with its *)
(* native half, jni_watch.c.                                               *)
(*                                                                         *)
(* Application threads, the hooks and the watch's own worker thread meet   *)
(* on four fields of the watched object: running, worker, watchHandle and  *)
(* the object's monitor.  startAt() and stop() hold the monitor; close(),  *)
(* join() and the worker's loop read the fields without it.  A step of     *)
(* this module is the longest stretch of code during which no other thread *)
(* can tell the difference.                                                *)
(*                                                                         *)
(* A native watch is named by the worker that created it: a worker creates *)
(* at most one.  The event stream of the server is a growing set of ids.   *)
(***************************************************************************)
EXTENDS Integers, FiniteSets, Sequences

CONSTANTS
  App,            \* application threads
  Worker,         \* Thread objects startAt() may create
  Exec,           \* the thread behind dispatchOn(), if UseExecutor
  None,           \* Java null, the zero handle, the free monitor
  UseExecutor,    \* whether dispatchOn() was called
  Calls,          \* <<thread, method>> pairs this instance lets happen
  Positions,      \* arguments of start(long); FromNow stands for start()
  FromNow,        \* Long.MIN_VALUE
  IntModulus,     \* 2^32, the wrap of the (int) cast
  Interruptible,  \* threads somebody may Thread.interrupt(), once each
  MaxId,          \* bound: the largest event id the server gives out
  MaxCalls,       \* bound: lifecycle calls made in a behaviour
  MaxFaults       \* bound: errors of the API server and throwables in a behaviour

Thread == App \cup Worker \cup {Exec}
Method == {"start", "stop", "close", "join"}

ASSUME ThreadAssumption ==
  /\ App \cap Worker = {} /\ Exec \notin App \cup Worker /\ None \notin Thread
  /\ UseExecutor \in BOOLEAN
  /\ Calls \subseteq Thread \X Method
  /\ Interruptible \subseteq Thread
ASSUME NumberAssumption ==
  /\ FromNow \in Int /\ FromNow < 0 /\ Positions \subseteq Int
  /\ IntModulus \in Nat /\ IntModulus % 2 = 0 /\ IntModulus > 0
  /\ MaxId \in Nat /\ MaxCalls \in Nat /\ MaxFaults \in Nat

VARIABLES
  \* fields of the VESEventTarget object
  running, worker, watchHandle, monitor,
  \* locals of runLoop(), per worker
  pc, pos, next, batch, todo, error, handle,
  \* native watches: life and the stop flag of the child context
  watch, flag,
  \* lifecycle calls in progress, per thread
  call, method, aim, interrupted,
  \* dispatchOn() executor: queued tasks, what it does, whether it accepts
  queued, exec, accepting,
  \* the server, and the bounds
  posted, faults, made,
  \* history: where a worker's feed begins, ids delivered, causes reported, the
  \* workers there were when a thread's last close() began
  floor, delivered, reported, before

object  == <<running, worker, watchHandle, monitor>>
load    == <<pos, next, batch, todo>>
native  == <<watch, flag, handle>>
calls   == <<call, method, aim, interrupted>>
tasks   == <<queued, exec, accepting>>
outside == <<posted, faults, made>>
history == <<floor, delivered, reported, before>>
butPc   == <<object, load, error, native, calls, tasks, outside, history>>
vars    == <<pc, butPc>>

(***************************************************************************)
(* Helpers.                                                                *)
(***************************************************************************)
MinId(S) == CHOOSE x \in S : \A y \in S : x <= y

\* maxId(): the largest id of a batch, 0 for an empty one.
MaxIdIn(S) == IF S = {} THEN 0 ELSE CHOOSE x \in S : \A y \in S : y <= x

\* The (int) cast of a long.
ToInt(n) == ((n + IntModulus \div 2) % IntModulus) - IntModulus \div 2

\* The n newest posted events (all of them if there are fewer).
Newest(n) == {e \in posted : Cardinality({f \in posted : f > e}) < n}

\* What a reverse load with this count may return.  A count of zero or less
\* is outside the documented range: then any newest stretch is possible.
ReverseLoad(count) ==
  IF count > 0 THEN {Newest(count)} ELSE {Newest(n) : n \in 0..Cardinality(posted)}

\* What a forward load from start may return: events in id order, cut anywhere.
Ahead(start) == {e \in posted : e >= start}
ForwardLoad(start) == {{e \in Ahead(start) : e <= last} : last \in Ahead(start)}

\* Thread.isAlive(): false until start() and after the run.
Alive(w) == pc[w] \notin {"unborn", "unstarted", "dead"}

\* A thread may make a call when it runs application code: an App thread
\* between calls, a worker inside a hook, the executor inside a hook.
InAppCode(t) ==
  /\ call[t] = "idle"
  /\ \/ t \in App
     \/ t \in Worker /\ pc[t] \in {"hook", "errhook", "lasthook"}
     \/ t = Exec /\ exec = "hook"

MayCall(t, m) == InAppCode(t) /\ <<t, m>> \in Calls /\ made < MaxCalls

Init ==
  /\ running = FALSE /\ worker = None /\ watchHandle = None /\ monitor = None
  /\ pc = [w \in Worker |-> "unborn"]
  /\ pos = [w \in Worker |-> 0] /\ next = [w \in Worker |-> 0]
  /\ batch = [w \in Worker |-> {}] /\ todo = [w \in Worker |-> {}]
  /\ error = [w \in Worker |-> "none"] /\ handle = [w \in Worker |-> None]
  /\ watch = [w \in Worker |-> "none"] /\ flag = [w \in Worker |-> "unarmed"]
  /\ call = [t \in Thread |-> "idle"] /\ method = [t \in Thread |-> "stop"]
  /\ aim = [t \in Thread |-> None]
  /\ interrupted = [t \in Thread |-> "never"]
  /\ queued = 0 /\ exec = "idle" /\ accepting = UseExecutor
  /\ posted = {} /\ faults = 0 /\ made = 0
  /\ floor = [w \in Worker |-> 0] /\ delivered = [w \in Worker |-> <<>>]
  /\ reported = {} /\ before = [t \in Thread |-> {}]

(***************************************************************************)
(* The API server: event ids grow, with gaps (other objects' events).      *)
(***************************************************************************)
Post(id) ==
  /\ id > MaxIdIn(posted)
  /\ posted' = posted \cup {id}
  /\ UNCHANGED <<pc, object, load, error, native, calls, tasks, faults, made, history>>

(***************************************************************************)
(* startAt(): synchronized; the old worker must be gone.                   *)
(***************************************************************************)
\* Slip: no check of the old worker.
StartUnchecked == TRUE

MayStart == worker # None => ~Alive(worker)

Start(t, p) ==
  /\ MayCall(t, "start") /\ monitor = None /\ MayStart
  /\ monitor' = t /\ running' = TRUE /\ made' = made + 1
  /\ \E w \in Worker :
       /\ pc[w] = "unborn"
       /\ worker' = w
       /\ pc' = [pc EXCEPT ![w] = "unstarted"] /\ pos' = [pos EXCEPT ![w] = p]
  /\ call' = [call EXCEPT ![t] = "launch"]
  /\ UNCHANGED <<watchHandle, next, batch, todo, error, native, method, aim, interrupted,
                 tasks, posted, faults, history>>

\* IllegalStateException.
StartRefused(t) ==
  /\ MayCall(t, "start") /\ monitor = None /\ ~MayStart
  /\ made' = made + 1
  /\ UNCHANGED <<pc, object, load, error, native, calls, tasks, posted, faults, history>>

\* worker.start(), then the monitor is left.
Launch(t) ==
  /\ call[t] = "launch"
  /\ pc' = [pc EXCEPT ![worker] = "create"]
  /\ monitor' = None
  /\ call' = [call EXCEPT ![t] = "idle"]
  /\ UNCHANGED <<running, worker, watchHandle, load, error, native, method, aim, interrupted,
                 tasks, outside, history>>

(***************************************************************************)
(* stop(), and close() which begins with it: synchronized; clear running,  *)
(* read the handle, raise the flag of the watch it names.                  *)
(***************************************************************************)
Stop(t, m) ==
  /\ MayCall(t, m) /\ m \in {"stop", "close"} /\ monitor = None
  /\ monitor' = t /\ running' = FALSE /\ made' = made + 1
  /\ method' = [method EXCEPT ![t] = m]
  /\ aim' = [aim EXCEPT ![t] = watchHandle]
  /\ call' = [call EXCEPT ![t] = "abort"]
  /\ before' =
       IF m = "stop" THEN before
       ELSE [before EXCEPT ![t] = {w \in Worker : pc[w] # "unborn"}]
  /\ UNCHANGED <<pc, worker, watchHandle, load, error, native, interrupted, tasks, posted,
                 faults, floor, delivered, reported>>

\* Slip: the flag is never raised.
RaiseNothing(w) == flag

\* nativeWatchAbort(), best effort: an unarmed child has no flag.
RaiseFlag(w) ==
  IF w # None /\ flag[w] = "clear" THEN [flag EXCEPT ![w] = "raised"] ELSE flag

Abort(t) ==
  /\ call[t] = "abort"
  /\ flag' = RaiseFlag(aim[t])
  /\ monitor' = None
  /\ call' = [call EXCEPT ![t] = IF method[t] = "close" THEN "read" ELSE "idle"]
  /\ UNCHANGED <<pc, running, worker, watchHandle, load, error, watch, handle, method, aim,
                 interrupted, tasks, outside, history>>

(***************************************************************************)
(* join(), and the end of close(): the worker is read outside the monitor. *)
(***************************************************************************)
Join(t) ==
  /\ MayCall(t, "join")
  /\ method' = [method EXCEPT ![t] = "join"] /\ made' = made + 1
  /\ call' = [call EXCEPT ![t] = "read"]
  /\ UNCHANGED <<pc, object, load, error, native, aim, interrupted, tasks, posted, faults,
                 history>>

ReadWorker(t) ==
  /\ call[t] = "read"
  /\ aim' = [aim EXCEPT ![t] = worker]
  /\ call' = [call EXCEPT ![t] = IF worker = None THEN "idle" ELSE "joining"]
  /\ UNCHANGED <<pc, object, load, error, native, method, interrupted, tasks, outside, history>>

\* Slip: the wait gives up on its own.
JoinGivesUp(w) == TRUE

\* Thread.join() waits while the thread is alive: one not started is not.
JoinEnds(w) == ~Alive(w)

Joined(t) ==
  /\ call[t] = "joining" /\ JoinEnds(aim[t])
  /\ call' = [call EXCEPT ![t] = "idle"]
  /\ UNCHANGED <<pc, object, load, error, native, method, aim, interrupted, tasks, outside,
                 history>>

\* InterruptedException: join() throws it on, close() restores the mark.
JoinInterrupted(t) ==
  /\ call[t] = "joining" /\ Alive(aim[t]) /\ interrupted[t] = "pending"
  /\ call' = [call EXCEPT ![t] = "idle"]
  /\ interrupted' = IF method[t] = "close" THEN interrupted
                    ELSE [interrupted EXCEPT ![t] = "taken"]
  /\ UNCHANGED <<pc, object, load, error, native, method, aim, tasks, outside, history>>

Interrupt(t) ==
  /\ t \in Interruptible /\ interrupted[t] = "never"
  /\ t \in Worker => Alive(t)
  /\ interrupted' = [interrupted EXCEPT ![t] = "pending"]
  /\ UNCHANGED <<pc, object, load, error, native, call, method, aim, tasks, outside, history>>

(***************************************************************************)
(* runLoop(): create the watch and publish its handle, load where to       *)
(* begin, poll and deliver while running, and free the watch at the end.   *)
(***************************************************************************)
At(w, here, there) == pc[w] = here /\ pc' = [pc EXCEPT ![w] = there]

Create(w) ==
  /\ At(w, "create", "publish")
  /\ watch' = [watch EXCEPT ![w] = "live"]
  /\ \E armed \in {"clear", "unarmed"} : flag' = [flag EXCEPT ![w] = armed]
  /\ UNCHANGED <<object, load, error, handle, calls, tasks, outside, history>>

\* An error of the server or the network, at one of the native calls.
Fault(w, there) ==
  /\ faults < MaxFaults /\ faults' = faults + 1
  /\ pc' = [pc EXCEPT ![w] = there]
  /\ error' = [error EXCEPT ![w] = "fault"]
  /\ UNCHANGED <<object, load, native, calls, tasks, posted, made, history>>

\* The progress callback saw the stop flag: CURLE_ABORTED_BY_CALLBACK.
Aborted(w, there) ==
  /\ flag[w] = "raised"
  /\ pc' = [pc EXCEPT ![w] = there]
  /\ error' = [error EXCEPT ![w] = "abort"]
  /\ UNCHANGED <<object, load, native, calls, tasks, outside, history>>

CreateFails(w) == pc[w] = "create" /\ Fault(w, "uncaught")

\* Slips: the handle is kept in the local only; another long is published.
KeepHandle(w) == watchHandle
PublishPosition(w) == pos[w]

PublishedHandle(w) == w

Publish(w) ==
  /\ At(w, "publish", "first")
  /\ watchHandle' = PublishedHandle(w)
  /\ UNCHANGED <<running, worker, monitor, load, error, native, calls, tasks, outside, history>>

BeginAt(w, id) ==
  /\ At(w, "first", "check")
  /\ next' = [next EXCEPT ![w] = id] /\ floor' = [floor EXCEPT ![w] = id]
  /\ UNCHANGED <<object, pos, batch, todo, error, native, calls, tasks, outside, delivered,
                 reported, before>>

\* Slip: the watch resumes at the newest event itself.
AtNewest(S) == MaxIdIn(S)

AfterNewest(S) == IF S = {} THEN 0 ELSE MaxIdIn(S) + 1

\* start(): one event loaded in reverse gives the tail of the stream.
Probe(w) == pos[w] = FromNow /\ BeginAt(w, AfterNewest(posted))

\* start(p), p >= 0: no load.
Replay(w) == pos[w] >= 0 /\ BeginAt(w, pos[w])

\* start(-n): the reverse load of the last n events, to deliver first.
Backfill(w) ==
  /\ pos[w] < 0 /\ pos[w] # FromNow
  /\ At(w, "first", "deliver")
  /\ \E S \in ReverseLoad(ToInt(-pos[w])) :
       /\ batch' = [batch EXCEPT ![w] = S] /\ todo' = [todo EXCEPT ![w] = S]
       /\ floor' = [floor EXCEPT ![w] = IF S = {} THEN 0 ELSE MinId(S)]
  /\ UNCHANGED <<object, pos, next, error, native, calls, tasks, outside, delivered, reported,
                 before>>

\* Outside the retry loop: the exception reaches the outer catch.
FirstFails(w) ==
  /\ pc[w] = "first" /\ pos[w] < 0
  /\ Fault(w, "uncaught") \/ Aborted(w, "uncaught")

\* Slip: the loop is not told of stop().
LoopForever == TRUE

LoopGoesOn == running

Check(w) ==
  /\ At(w, "check", IF LoopGoesOn THEN "poll" ELSE "finally")
  /\ UNCHANGED butPc

PollLoads(w) ==
  /\ At(w, "poll", "deliver")
  /\ \E S \in ForwardLoad(next[w]) :
       batch' = [batch EXCEPT ![w] = S] /\ todo' = [todo EXCEPT ![w] = S]
  /\ UNCHANGED <<object, pos, next, error, native, calls, tasks, outside, history>>

\* The window elapsed without an event.
PollEmpty(w) ==
  /\ At(w, "poll", "check") /\ Ahead(next[w]) = {}
  /\ UNCHANGED butPc

PollFails(w) ==
  /\ pc[w] = "poll"
  /\ Fault(w, "caught") \/ Aborted(w, "caught")

\* ex.execute() or a direct call of the hook: what the loop does next.  An
\* executor that was shut down throws RejectedExecutionException, which no
\* catch of runLoop() takes.
HandOver(w, hook, after) ==
  IF ~UseExecutor THEN pc' = [pc EXCEPT ![w] = hook] /\ UNCHANGED tasks
  ELSE IF accepting
       THEN /\ pc' = [pc EXCEPT ![w] = after] /\ queued' = queued + 1
            /\ UNCHANGED <<exec, accepting>>
       ELSE pc' = [pc EXCEPT ![w] = "finally"] /\ UNCHANGED tasks

Accepted == UseExecutor => accepting

Deliver(w) ==
  /\ pc[w] = "deliver" /\ todo[w] # {}
  /\ LET e == MinId(todo[w]) IN
       IF Accepted
       THEN /\ todo' = [todo EXCEPT ![w] = @ \ {e}]
            /\ delivered' = [delivered EXCEPT ![w] = Append(@, e)]
       ELSE UNCHANGED <<todo, delivered>>
  /\ HandOver(w, "hook", "deliver")
  /\ UNCHANGED <<object, pos, next, batch, error, native, calls, outside, floor, reported,
                 before>>

BatchDone(w) ==
  /\ todo[w] = {} /\ At(w, "deliver", "check")
  /\ next' = [next EXCEPT ![w] = AfterNewest(batch[w])]
  /\ batch' = [batch EXCEPT ![w] = {}]
  /\ UNCHANGED <<object, pos, todo, error, native, calls, tasks, outside, history>>

Report(w, hook, after) ==
  /\ HandOver(w, hook, after)
  /\ reported' = IF Accepted THEN reported \cup {<<w, error[w]>>} ELSE reported
  /\ UNCHANGED <<object, load, error, native, calls, outside, floor, delivered, before>>

\* Slips: the error of an aborted poll is reported; none ever is.
ReportAlways == TRUE
ReportNever == FALSE

ErrorIsNews == running

\* The catch inside the loop, when stopped and when not.
CaughtStopped(w) ==
  /\ ~ErrorIsNews /\ At(w, "caught", "finally")
  /\ UNCHANGED butPc

Caught(w) == pc[w] = "caught" /\ ErrorIsNews /\ Report(w, "errhook", "sleep")

\* The catch around the loop: the watch ends.
Uncaught(w) == pc[w] = "uncaught" /\ Report(w, "lasthook", "finally")

\* Slip: the loop ends at the first poll error.
GiveUp == "finally"

Retry == "check"

SleepEnds(w) ==
  /\ interrupted[w] # "pending" /\ At(w, "sleep", Retry)
  /\ UNCHANGED butPc

SleepInterrupted(w) ==
  /\ interrupted[w] = "pending" /\ At(w, "sleep", "finally")
  /\ interrupted' = [interrupted EXCEPT ![w] = "taken"]
  /\ UNCHANGED <<object, load, error, native, call, method, aim, tasks, outside, history>>

\* A hook returns, or throws an Exception: dispatch() and safeOnError() take it.
HookReturns(w) ==
  /\ call[w] = "idle"
  /\ \/ At(w, "hook", "deliver")
     \/ At(w, "errhook", "sleep")
     \/ At(w, "lasthook", "finally")
  /\ UNCHANGED butPc

\* What no catch of runLoop() takes: the Error of a hook, as dispatch() and safeOnError() take
\* an Exception only, or an unchecked throwable of the loop itself, such as deliver()'s
\* NullPointerException of a null element of the batch.
ThrowsError(w) ==
  /\ pc[w] \in {"create", "first", "poll", "deliver", "hook", "errhook", "lasthook"}
  /\ pc[w] = "first" => pos[w] < 0
  /\ call[w] = "idle"
  /\ faults < MaxFaults /\ faults' = faults + 1
  /\ pc' = [pc EXCEPT ![w] = "finally"]
  /\ error' = [error EXCEPT ![w] = "thrown"]
  /\ UNCHANGED <<object, load, native, calls, tasks, posted, made, history>>

\* Slip: the handle is cleared without the monitor.
NoMonitor == TRUE

MonitorFree == monitor = None

\* finally: take the handle out of reach of stop(), then free the watch.
TakeHandle(w) ==
  /\ MonitorFree /\ At(w, "finally", "free")
  /\ handle' = [handle EXCEPT ![w] = watchHandle]
  /\ watchHandle' = None
  /\ UNCHANGED <<running, worker, monitor, load, error, watch, flag, calls, tasks, outside,
                 history>>

Free(w) ==
  /\ At(w, "free", "dead")
  /\ watch' = IF handle[w] = None THEN watch ELSE [watch EXCEPT ![handle[w]] = "freed"]
  /\ UNCHANGED <<object, load, error, flag, handle, calls, tasks, outside, history>>

(***************************************************************************)
(* The executor of dispatchOn(): one thread, tasks in order.               *)
(***************************************************************************)
RunTask ==
  /\ queued > 0 /\ exec = "idle"
  /\ queued' = queued - 1 /\ exec' = "hook"
  /\ UNCHANGED <<pc, object, load, error, native, calls, accepting, outside, history>>

TaskReturns ==
  /\ exec = "hook" /\ call[Exec] = "idle"
  /\ exec' = "idle"
  /\ UNCHANGED <<pc, object, load, error, native, calls, queued, accepting, outside, history>>

ShutExecutor ==
  /\ accepting /\ accepting' = FALSE
  /\ UNCHANGED <<pc, object, load, error, native, calls, queued, exec, outside, history>>

(***************************************************************************)
(* The specification.  Every thread that can go on does so, and nothing    *)
(* makes a throwable happen; the monitor is eventually free since the      *)
(* calls of a behaviour are finitely many.                                 *)
(***************************************************************************)
CallStep(t) ==
  Launch(t) \/ Abort(t) \/ ReadWorker(t) \/ Joined(t) \/ JoinInterrupted(t)

CallBegins(t) ==
  \/ \E p \in Positions : Start(t, p)
  \/ StartRefused(t)
  \/ \E m \in Method : Stop(t, m)
  \/ Join(t)

WorkerStep(w) ==
  \/ Create(w) \/ CreateFails(w) \/ Publish(w)
  \/ Probe(w) \/ Replay(w) \/ Backfill(w) \/ FirstFails(w)
  \/ Check(w) \/ PollLoads(w) \/ PollEmpty(w) \/ PollFails(w)
  \/ Deliver(w) \/ BatchDone(w)
  \/ CaughtStopped(w) \/ Caught(w) \/ Uncaught(w)
  \/ SleepEnds(w) \/ SleepInterrupted(w) \/ HookReturns(w)
  \/ TakeHandle(w) \/ Free(w)

Next ==
  \/ \E id \in 1..MaxId : Post(id)
  \/ \E t \in Thread : CallBegins(t) \/ CallStep(t) \/ Interrupt(t)
  \/ \E w \in Worker : WorkerStep(w) \/ ThrowsError(w)
  \/ RunTask \/ TaskReturns \/ ShutExecutor

Spec == Init /\ [][Next]_vars

Fairness ==
  /\ \A t \in Thread : WF_vars(CallStep(t))
  /\ \A w \in Worker : WF_vars(WorkerStep(w))
  /\ WF_vars(RunTask) /\ WF_vars(TaskReturns)

FairSpec == Spec /\ Fairness

(***************************************************************************)
(* Properties.                                                             *)
(***************************************************************************)
PC == {"unborn", "unstarted", "create", "publish", "first", "deliver", "hook", "check",
       "poll", "caught", "errhook", "sleep", "uncaught", "lasthook", "finally", "free",
       "dead"}

Cause == {"none", "fault", "abort", "thrown"}

\* Every variable has its type.
TypeOK ==
  /\ running \in BOOLEAN
  /\ worker \in Worker \cup {None} /\ watchHandle \in Worker \cup {None}
  /\ monitor \in Thread \cup {None}
  /\ pc \in [Worker -> PC]
  /\ pos \in [Worker -> Int] /\ next \in [Worker -> Int]
  /\ batch \in [Worker -> SUBSET (1..MaxId)] /\ todo \in [Worker -> SUBSET (1..MaxId)]
  /\ error \in [Worker -> Cause]
  /\ handle \in [Worker -> Worker \cup {None}]
  /\ watch \in [Worker -> {"none", "live", "freed"}]
  /\ flag \in [Worker -> {"unarmed", "clear", "raised"}]
  /\ call \in [Thread -> {"idle", "launch", "abort", "read", "joining"}]
  /\ method \in [Thread -> Method]
  /\ aim \in [Thread -> Worker \cup {None}]
  /\ interrupted \in [Thread -> {"never", "pending", "taken"}]
  /\ queued \in Nat /\ exec \in {"idle", "hook"} /\ accepting \in BOOLEAN
  /\ posted \subseteq 1..MaxId /\ faults \in Nat /\ made \in Nat
  /\ floor \in [Worker -> Int] /\ delivered \in [Worker -> Seq(1..MaxId)]
  /\ reported \subseteq Worker \X Cause /\ before \in [Thread -> SUBSET Worker]

\* No thread is ever about to use a freed native watch: stop() between reading
\* the handle and raising the flag, the worker in its native calls, the worker
\* about to free (jni_watch.c:208-211 relies on it).
NoUseAfterFree ==
  /\ \A t \in Thread :
       call[t] = "abort" /\ aim[t] # None => watch[aim[t]] = "live"
  /\ \A w \in Worker :
       /\ pc[w] \in {"publish", "first", "poll"} => watch[w] = "live"
       /\ pc[w] = "free" /\ handle[w] # None => watch[handle[w]] = "live"

\* A worker that is gone leaves no live watch and no handle behind it.
WatchGoesWithWorker ==
  \A w \in Worker : ~Alive(w) => watch[w] # "live" /\ watchHandle # w

\* However start() races stop(), close() and hooks, one worker runs at most, and
\* it is the one the object's worker field names.
OneWorker == \A w \in Worker : Alive(w) => worker = w

\* A long poll never outlives stop() by a window: once running is cleared,
\* the poll in flight is aborted or a stop() is about to abort it.
StopCutsPoll ==
  \A w \in Worker :
    pc[w] = "poll" /\ ~running /\ flag[w] = "clear" =>
      \E t \in Thread : call[t] = "abort" /\ aim[t] = w

\* The error that stop() itself provokes is shown to onError() only of a watch whose first
\* load, that of start() or start(-n), it cut, so that no event ever came
\* (VESEventTarget.java:265, 280).
AbortNotReported ==
  \A w \in Worker : <<w, "abort">> \in reported => pos[w] < 0 /\ delivered[w] = <<>>

\* A worker that ends though nobody stopped it has told onError() of the error that ended it,
\* unless its executor refuses tasks (VESEventTarget.java:301), its thread was interrupted in
\* the retry sleep (:270), or what ended it no catch of runLoop() takes (:279, 308, 322).
NoSilentEnd ==
  \A w \in Worker :
    pc[w] = "dead" /\ worker = w /\ running =>
      \/ error[w] \in {"fault", "abort"} /\ <<w, error[w]>> \in reported
      \/ (UseExecutor /\ ~accepting)
      \/ interrupted[w] = "taken"
      \/ error[w] = "thrown"

\* A close() that was not interrupted leaves, of the workers there were when it began, none
\* alive and none of their native watches, whoever starts, stops or closes in between
\* (VESEventTarget.java:215, "Stop and wait for the worker to exit").
CloseLeavesNothing ==
  [][\A t \in Thread :
       call[t] \in {"read", "joining"} /\ method[t] = "close" /\ call'[t] = "idle" =>
         \/ interrupted[t] = "pending"
         \/ \A w \in before[t] : ~Alive(w)' /\ watch'[w] # "live"]_vars

\* A worker whose watch was stopped ends.
StopEndsWorker ==
  \A w \in Worker : (worker = w /\ ~running) ~> ~Alive(w)

\* close() returns, and so does a join() of a watch that is stopped before or while it waits.
CloseReturns ==
  \A t \in Thread :
    (\/ call[t] \in {"abort", "read", "joining"} /\ method[t] = "close"
     \/ call[t] = "joining" /\ ~running) ~> call[t] = "idle"

\* An event the worker's position has not passed reaches the hooks, whatever
\* poll errors come in between, unless the watch is stopped, its thread interrupted, its
\* executor shut down, or something thrown that no catch takes.
EventArrives ==
  \A w \in Worker : \A id \in 1..MaxId :
    (pc[w] = "check" /\ running /\ id \in posted /\ id >= next[w]) ~>
      \/ id \in {delivered[w][i] : i \in DOMAIN delivered[w]}
      \/ ~running \/ interrupted[w] # "never" \/ error[w] = "thrown"
      \/ (UseExecutor /\ ~accepting)

(***************************************************************************)
(* Why these hold: the monitor, the worker field and the handle together.  *)
(***************************************************************************)
Polling == {"first", "deliver", "hook", "check", "poll", "caught", "errhook", "sleep"}
Ending  == {"uncaught", "lasthook", "finally"}

\* A call past its entry holds the monitor; the thread it launches is the
\* worker field's, and nothing but the launcher can see it unstarted.
MonitorHeld ==
  /\ \A t \in Thread : call[t] \in {"launch", "abort"} => monitor = t
  /\ \A t \in Thread : call[t] = "launch" => worker # None /\ pc[worker] = "unstarted"
  /\ \A w \in Worker :
       pc[w] = "unstarted" => monitor # None /\ call[monitor] = "launch"
  /\ \A w \in Worker : pc[w] \notin {"unborn", "dead"} => worker = w

\* The published handle is that of the running worker's live watch; a stop()
\* that read a handle still finds it published.
HandleOwned ==
  /\ \A w \in Worker : pc[w] = "publish" => watch[w] = "live"
  /\ \A w \in Worker : pc[w] \in Polling => watchHandle = w
  /\ \A w \in Worker :
       watchHandle = w => watch[w] = "live" /\ pc[w] \in Polling \cup Ending
  /\ \A w \in Worker :
       watch[w] = "live" =>
         \/ pc[w] = "publish"
         \/ watchHandle = w
         \/ pc[w] = "free" /\ handle[w] = w
  /\ \A w \in Worker :
       pc[w] = "free" /\ handle[w] # None => handle[w] = w /\ watch[w] = "live"
  /\ \A t \in Thread : call[t] = "abort" /\ aim[t] # None => aim[t] = watchHandle

\* The inductive invariant of the lifecycle: with TypeOK, every step keeps it.
LifecycleInv == MonitorHeld /\ HandleOwned /\ StopCutsPoll

(***************************************************************************)
(* The watch implements the feed it promises.                              *)
(***************************************************************************)
FeedState(w) ==
  CASE pc[w] = "unborn" -> "closed"
    [] pc[w] \in {"unstarted", "create", "publish", "first"} -> "asked"
    [] pc[w] \in {"uncaught", "lasthook", "finally", "free", "dead"} -> "ended"
    [] OTHER -> "open"

Cursor(w) ==
  IF delivered[w] = <<>> THEN floor[w] ELSE delivered[w][Len(delivered[w])] + 1

AsFeed == INSTANCE EventFeed WITH
  Feed <- Worker,
  state <- [w \in Worker |-> FeedState(w)],
  request <- pos,
  cursor <- [w \in Worker |-> Cursor(w)],
  out <- delivered

\* Every behaviour of the watch is one of the feed: events in order, none lost
\* and none twice, from the position start() was given, across poll errors,
\* batches, stops and restarts.
ImplementsFeed == AsFeed!Spec

\* What the hooks were handed by each worker is a gapless, ordered stretch of the
\* stream ("deliver events with id >= fromEventId, then go live").
FeedExact == AsFeed!Exact
=============================================================================
