---------------------------- MODULE VaultContext ----------------------------
(***************************************************************************)
(* The native context of one Vault and its lock (Vault.java, Item.java).   *)
(*                                                                         *)
(* A libVES context is not thread-safe, so the methods of the Vault, of    *)
(* its Items and of their ItemCiphers take Vault.ctxLock around each       *)
(* native call.  The callers are application threads and the workers of    *)
(* the watches, whose hooks call back.  close() joins the Vault's own      *)
(* worker, takes the lock, forgets the handle and frees the context.       *)
(* VESFlow.start() uses the same context.                                  *)
(*                                                                         *)
(* Of a watch this module keeps what touches the context: its worker       *)
(* creates it under the lock, polls and frees it on a context of its own;  *)
(* EventWatch has the rest.                                                *)
(***************************************************************************)
EXTENDS Naturals, FiniteSets

CONSTANTS
  App,       \* application threads
  Watcher,   \* workers of watches on this Vault or on its Items
  OnVault,   \* those that watch the Vault itself, which close() joins
  None,      \* a free lock
  Calls,     \* <<thread, call>> pairs this instance lets happen
  Interruptible,  \* threads that may be interrupted while they join
  MaxCalls,  \* bound: calls in a behaviour
  MaxEvents  \* bound: events delivered to hooks

Thread == App \cup Watcher

\* A method checks the handle in Java, leaves it to the native function to check
\* for NULL, or does neither; each class is named for one of its methods.
\* startFlow is VESFlow.start(); "start" and "close" are those of the Vault.
CheckedInJava   == {"uri"}
CheckedInNative == {"createWatch", "subVault"}
Unchecked       == {"unlock"}
UnderLock == CheckedInJava \cup CheckedInNative \cup Unchecked
Call == UnderLock \cup {"startFlow", "start", "close"}

ASSUME ThreadAssumption ==
  /\ App \cap Watcher = {} /\ None \notin Thread /\ OnVault \subseteq Watcher
  /\ Calls \subseteq Thread \X (Call \ {"createWatch"})
  /\ Interruptible \subseteq App
  /\ MaxCalls \in Nat /\ MaxEvents \in Nat

VARIABLES
  handle,   \* nativeHandle is not 0
  context,  \* the native context itself
  ctxLock,  \* who holds the lock
  pc,       \* what each thread does
  call,     \* the method a thread is in
  arg,      \* whether the handle it passed was not 0
  stopped,  \* watches told to stop
  cut,      \* a join of close() was interrupted
  made, events

vars == <<handle, context, ctxLock, pc, call, arg, stopped, cut, made, events>>

Init ==
  /\ handle = TRUE /\ context = "live" /\ ctxLock = None
  /\ pc = [t \in Thread |-> IF t \in App THEN "code" ELSE "unborn"]
  /\ call = [t \in Thread |-> "uri"] /\ arg = [t \in Thread |-> FALSE]
  /\ stopped = {} /\ cut = FALSE /\ made = 0 /\ events = 0

\* "code": application code, in an App thread or in a hook of a worker.
MayCall(t, c) == pc[t] = "code" /\ <<t, c>> \in Calls /\ made < MaxCalls

Begin(t, c, there) ==
  /\ MayCall(t, c) /\ made' = made + 1
  /\ call' = [call EXCEPT ![t] = c]
  /\ pc' = [pc EXCEPT ![t] = there]

(***************************************************************************)
(* A call under the lock.                                                  *)
(***************************************************************************)
Request(t, c) ==
  /\ c \in UnderLock /\ Begin(t, c, "wait")
  /\ UNCHANGED <<handle, context, ctxLock, arg, stopped, events, cut>>

\* Slip: a method without synchronized (ctxLock).
AnyTime(t) == TRUE

LockFree(t) == ctxLock \in {None, t}

\* Where a thread goes on when its native call is over: a worker polls the
\* watch it created, or ends without one.
Resumes(t, ok) ==
  IF call[t] # "createWatch" THEN "code" ELSE IF ok THEN "poll" ELSE "dead"

\* The lock is taken and the handle read; a closed Vault is left at once where
\* Java checks.
Enter(t) ==
  /\ pc[t] = "wait" /\ LockFree(t)
  /\ IF ~handle /\ call[t] \in CheckedInJava
     THEN pc' = [pc EXCEPT ![t] = "code"] /\ UNCHANGED <<ctxLock, arg>>
     ELSE /\ ctxLock' = t /\ arg' = [arg EXCEPT ![t] = handle]
          /\ pc' = [pc EXCEPT ![t] = "native"]
  /\ UNCHANGED <<handle, context, call, stopped, made, events, cut>>

\* The native call returns; creating a watch may also fail.
Return(t) ==
  /\ pc[t] = "native" /\ call[t] # "startFlow"
  /\ ctxLock' = None
  /\ \E ok \in {arg[t], FALSE} : pc' = [pc EXCEPT ![t] = Resumes(t, ok)]
  /\ UNCHANGED <<handle, context, call, arg, stopped, made, events, cut>>

(***************************************************************************)
(* VESFlow.start(): reads the handle and calls, all without the lock.      *)
(***************************************************************************)
StartFlow(t) ==
  /\ Begin(t, "startFlow", IF handle THEN "flow" ELSE "code")
  /\ UNCHANGED <<handle, context, ctxLock, arg, stopped, events, cut>>

\* vault.nativeHandle is read once more for the call.
FlowEnters(t) ==
  /\ pc[t] = "flow" /\ pc' = [pc EXCEPT ![t] = "native"]
  /\ arg' = [arg EXCEPT ![t] = handle]
  /\ UNCHANGED <<handle, context, ctxLock, call, stopped, made, events, cut>>

FlowReturns(t) ==
  /\ pc[t] = "native" /\ call[t] = "startFlow"
  /\ pc' = [pc EXCEPT ![t] = "code"]
  /\ UNCHANGED <<handle, context, ctxLock, call, arg, stopped, made, events, cut>>

(***************************************************************************)
(* close(): stop and join the Vault's own watch, then lock and free.       *)
(***************************************************************************)
\* Slip: close() takes the lock before it joins.
LockFirst(t) == ctxLock = None /\ ctxLock' = t

JoinFirst(t) == UNCHANGED ctxLock

Close(t) ==
  /\ Begin(t, "close", "join") /\ JoinFirst(t)
  /\ stopped' = stopped \cup OnVault
  /\ UNCHANGED <<handle, context, arg, events, cut>>

\* Slip: close() only signals the watch.
NoJoin == TRUE

WatchEnded == \A w \in OnVault : pc[w] \in {"unborn", "dead"}

Joined(t) ==
  /\ pc[t] = "join" /\ WatchEnded
  /\ pc' = [pc EXCEPT ![t] = "toFree"]
  /\ UNCHANGED <<handle, context, ctxLock, call, arg, stopped, made, events, cut>>

\* The interrupt is kept for the caller and close() goes on.
JoinInterrupted(t) ==
  /\ pc[t] = "join" /\ t \in Interruptible /\ ~WatchEnded
  /\ pc' = [pc EXCEPT ![t] = "toFree"] /\ cut' = TRUE
  /\ UNCHANGED <<handle, context, ctxLock, call, arg, stopped, made, events>>

\* Slip: the handle is left in the field.
KeepHandle == handle

ForgetHandle == FALSE

CloseEnters(t) ==
  /\ pc[t] = "toFree" /\ LockFree(t)
  /\ ctxLock' = t
  /\ arg' = [arg EXCEPT ![t] = handle] /\ handle' = ForgetHandle
  /\ pc' = [pc EXCEPT ![t] = "free"]
  /\ UNCHANGED <<context, call, stopped, made, events, cut>>

Freed == IF context = "live" THEN "freed" ELSE "freed twice"

CloseFrees(t) ==
  /\ pc[t] = "free"
  /\ context' = IF arg[t] THEN Freed ELSE context
  /\ ctxLock' = None
  /\ pc' = [pc EXCEPT ![t] = "code"]
  /\ UNCHANGED <<handle, call, arg, stopped, made, events, cut>>

(***************************************************************************)
(* Watches: started by a thread, polling apart from the context.           *)
(***************************************************************************)
Start(t, w) ==
  /\ MayCall(t, "start") /\ pc[w] = "unborn" /\ made' = made + 1
  /\ pc' = [pc EXCEPT ![w] = "wait"] /\ call' = [call EXCEPT ![w] = "createWatch"]
  /\ UNCHANGED <<handle, context, ctxLock, arg, stopped, events, cut>>

StopWatch(t, w) ==
  /\ MayCall(t, "start") /\ pc[w] # "unborn" /\ made' = made + 1
  /\ stopped' = stopped \cup {w}
  /\ UNCHANGED <<handle, context, ctxLock, pc, call, arg, events, cut>>

\* An event, also of the poll that was under way when the watch was stopped.
HookRuns(w) ==
  /\ pc[w] = "poll" /\ events < MaxEvents /\ events' = events + 1
  /\ pc' = [pc EXCEPT ![w] = "code"] /\ call' = [call EXCEPT ![w] = "uri"]
  /\ UNCHANGED <<handle, context, ctxLock, arg, stopped, made, cut>>

HookReturns(w) ==
  /\ pc[w] = "code" /\ pc' = [pc EXCEPT ![w] = "poll"]
  /\ UNCHANGED <<handle, context, ctxLock, call, arg, stopped, made, events, cut>>

\* The worker frees its watch, which gives back what it shares with the context.
WatchEnds(w) ==
  /\ pc[w] = "poll" /\ w \in stopped
  /\ pc' = [pc EXCEPT ![w] = "dead"]
  /\ UNCHANGED <<handle, context, ctxLock, call, arg, stopped, made, events, cut>>

(***************************************************************************)
(* The specification.                                                      *)
(***************************************************************************)
CallBegins(t) ==
  \/ \E c \in UnderLock : Request(t, c)
  \/ StartFlow(t) \/ Close(t)
  \/ \E w \in Watcher : Start(t, w) \/ StopWatch(t, w)

CallStep(t) ==
  \/ Enter(t) \/ Return(t) \/ FlowEnters(t) \/ FlowReturns(t)
  \/ Joined(t) \/ CloseEnters(t) \/ CloseFrees(t)

WatchStep(w) == HookReturns(w) \/ WatchEnds(w)

Next ==
  \/ \E t \in Thread : CallBegins(t) \/ CallStep(t) \/ JoinInterrupted(t)
  \/ \E w \in Watcher : HookRuns(w) \/ WatchStep(w)

Spec == Init /\ [][Next]_vars

\* Threads go on with the call they are in, hooks return and stopped polls end.
Fairness ==
  /\ \A t \in Thread : WF_vars(CallStep(t))
  /\ \A w \in Watcher : WF_vars(WatchStep(w))

FairSpec == Spec /\ Fairness

(***************************************************************************)
(* Properties.                                                             *)
(***************************************************************************)
PC == {"unborn", "code", "wait", "native", "flow", "join", "toFree", "free", "poll", "dead"}

\* Every variable has its type; a context is not freed twice.
TypeOK ==
  /\ handle \in BOOLEAN /\ context \in {"live", "freed"}
  /\ ctxLock \in Thread \cup {None}
  /\ pc \in [Thread -> PC] /\ call \in [Thread -> Call] /\ arg \in [Thread -> BOOLEAN]
  /\ stopped \subseteq Watcher /\ cut \in BOOLEAN /\ made \in Nat /\ events \in Nat

InNative(t) == pc[t] \in {"native", "free"}

\* What the comment of ctxLock promises: at most one native call is ever in flight
\* on the context, whatever the hooks and the application do.
OneCallAtATime == \A t, u \in Thread : InNative(t) /\ InNative(u) => t = u

\* The same of every call but VESFlow.start(): calls of the Vault, its Items and
\* ItemCiphers, close() and the making of a watch exclude each other.
Locked(t) == pc[t] = "free" \/ (pc[t] = "native" /\ call[t] # "startFlow")
OneLockedCall == \A t, u \in Thread : Locked(t) /\ Locked(u) => t = u

\* No such call works on a freed context, and close() frees it only once.
NoCallOnFreed == \A t \in Thread : Locked(t) /\ arg[t] => context = "live"

Ended(w) == pc[w] \in {"unborn", "dead"}
Creating(w) == call[w] = "createWatch" /\ pc[w] \in {"wait", "native"}

\* A watch never outlives the context it was derived from ("while the PARENT is
\* still alive", jni_watch.c), unless the join of close() was interrupted.
WatchWithinContext ==
  cut \/ \A w \in Watcher : context = "live" \/ Ended(w) \/ Creating(w)

\* close() of a watched Vault returns although hooks wait for its lock.
CloseReturns ==
  \A t \in Thread : (pc[t] = "join") ~> (pc[t] = "code")

(***************************************************************************)
(* Why these hold, those about the watches for one owner (OneOwner).       *)
(***************************************************************************)
OneOwner ==
  /\ Watcher \subseteq OnVault
  /\ \A t, u \in Thread, c, d \in {"start", "close"} :
       <<t, c>> \in Calls /\ <<u, d>> \in Calls => t = u /\ t \in App

\* Locked calls are made by the holder of the lock; the handle is forgotten
\* before the context is freed; who holds a handle holds the lock.
LockInv ==
  /\ \A t \in Thread : Locked(t) => ctxLock = t
  /\ \A t \in Thread : pc[t] = "flow" => call[t] = "startFlow"
  /\ handle => context = "live"
  /\ \A t \in Thread : pc[t] = "native" /\ call[t] # "startFlow" => (arg[t] <=> handle)
  /\ \A t \in Thread : pc[t] = "free" => ~handle /\ (arg[t] => context = "live")

\* While the owner closes, unless its join was cut short, there is no watch; once
\* the handle is gone none is left but one that cannot be created any more.
WatchInv ==
  /\ \A t \in Thread : pc[t] \in {"join", "toFree", "free"} => <<t, "close">> \in Calls
  /\ cut \/ \A t \in Thread, w \in Watcher : pc[t] \in {"toFree", "free"} => Ended(w)
  /\ cut \/ \A w \in Watcher : handle \/ Ended(w) \/ Creating(w)
=============================================================================
