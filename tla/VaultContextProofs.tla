------------------------- MODULE VaultContextProofs -------------------------
(***************************************************************************)
(* Proofs about VaultContext, for any number of threads, watches and calls. *)
(* Those about the watches need one owner (OneOwner).                      *)
(***************************************************************************)
EXTENDS VaultContext, TLAPS

USE DEF Thread, Call, UnderLock, CheckedInJava, CheckedInNative, Unchecked, PC

(***************************************************************************)
(* Types, apart from the context (which needs the lock).                   *)
(***************************************************************************)
TypeInv ==
  /\ handle \in BOOLEAN /\ context \in {"live", "freed", "freed twice"}
  /\ ctxLock \in Thread \cup {None}
  /\ pc \in [Thread -> PC] /\ call \in [Thread -> Call] /\ arg \in [Thread -> BOOLEAN]
  /\ stopped \subseteq Watcher /\ cut \in BOOLEAN

LEMMA TypeInit == Init => TypeInv
  BY ThreadAssumption DEF Init, TypeInv

LEMMA TypeStep == TypeInv /\ [Next]_vars => TypeInv'
<1> USE DEF TypeInv, Begin, MayCall
<1> SUFFICES ASSUME TypeInv, [Next]_vars PROVE TypeInv'
  OBVIOUS
<1>1. ASSUME NEW t \in Thread, CallBegins(t) PROVE TypeInv'
  <2>1. ASSUME NEW c \in UnderLock, Request(t, c) PROVE TypeInv'
    BY <2>1, ThreadAssumption DEF Request
  <2>2. CASE StartFlow(t)
    BY <2>2, ThreadAssumption DEF StartFlow
  <2>3. CASE Close(t)
    BY <2>3, ThreadAssumption DEF Close, JoinFirst
  <2>4. ASSUME NEW w \in Watcher, Start(t, w) PROVE TypeInv'
    BY <2>4, ThreadAssumption DEF Start
  <2>5. ASSUME NEW w \in Watcher, StopWatch(t, w) PROVE TypeInv'
    BY <2>5, ThreadAssumption DEF StopWatch
  <2> QED BY <1>1, <2>1, <2>2, <2>3, <2>4, <2>5 DEF CallBegins
<1>2. ASSUME NEW t \in Thread, CallStep(t) PROVE TypeInv'
  <2>1. CASE Enter(t)
    BY <2>1 DEF Enter
  <2>2. CASE Return(t)
    BY <2>2 DEF Return, Resumes
  <2>3. CASE FlowEnters(t)
    BY <2>3 DEF FlowEnters
  <2>4. CASE FlowReturns(t)
    BY <2>4 DEF FlowReturns
  <2>5. CASE Joined(t)
    BY <2>5 DEF Joined
  <2>6. CASE CloseEnters(t)
    BY <2>6 DEF CloseEnters, ForgetHandle
  <2>7. CASE CloseFrees(t)
    BY <2>7 DEF CloseFrees, Freed
  <2> QED BY <1>2, <2>1, <2>2, <2>3, <2>4, <2>5, <2>6, <2>7 DEF CallStep
<1>3. ASSUME NEW t \in Thread, JoinInterrupted(t) PROVE TypeInv'
  BY <1>3 DEF JoinInterrupted
<1>4. ASSUME NEW w \in Watcher, HookRuns(w) PROVE TypeInv'
  BY <1>4, ThreadAssumption DEF HookRuns
<1>5. ASSUME NEW w \in Watcher, WatchStep(w) PROVE TypeInv'
  BY <1>5 DEF WatchStep, HookReturns, WatchEnds
<1>6. CASE UNCHANGED vars
  BY <1>6 DEF vars
<1> QED BY <1>1, <1>2, <1>3, <1>4, <1>5, <1>6 DEF Next

Counters == made \in Nat /\ events \in Nat

LEMMA CountersStep == Counters /\ [Next]_vars => Counters'
<1> SUFFICES ASSUME Counters, [Next]_vars PROVE Counters'
  OBVIOUS
<1>1. UNCHANGED made \/ made' = made + 1
  BY DEF Next, CallBegins, CallStep, WatchStep, vars, Begin, Request, StartFlow, Close,
     Start, StopWatch, Enter, Return, FlowEnters, FlowReturns, Joined, JoinInterrupted,
     CloseEnters, CloseFrees, HookRuns, HookReturns, WatchEnds
<1>2. UNCHANGED events \/ events' = events + 1
  BY DEF Next, CallBegins, CallStep, WatchStep, vars, Begin, Request, StartFlow, Close,
     Start, StopWatch, Enter, Return, FlowEnters, FlowReturns, Joined, JoinInterrupted,
     CloseEnters, CloseFrees, HookRuns, HookReturns, WatchEnds
<1> QED BY <1>1, <1>2 DEF Counters

(***************************************************************************)
(* The lock.                                                               *)
(***************************************************************************)
LEMMA LockInit == Init => LockInv
  BY ThreadAssumption DEF Init, LockInv, Locked

LEMMA LockStep ==
  ASSUME TypeInv, LockInv, [Next]_vars PROVE LockInv'
<1> USE DEF TypeInv, LockInv, Locked
<1>1. ASSUME NEW t \in Thread, CallBegins(t) PROVE LockInv'
  <2>1. ASSUME NEW c \in UnderLock, Request(t, c) PROVE LockInv'
    BY <2>1 DEF Request, Begin, MayCall
  <2>2. CASE StartFlow(t)
    BY <2>2 DEF StartFlow, Begin, MayCall
  <2>3. CASE Close(t)
    BY <2>3 DEF Close, JoinFirst, Begin, MayCall
  <2>4. ASSUME NEW w \in Watcher, Start(t, w) PROVE LockInv'
    BY <2>4 DEF Start, MayCall
  <2>5. ASSUME NEW w \in Watcher, StopWatch(t, w) PROVE LockInv'
    BY <2>5 DEF StopWatch
  <2> QED BY <1>1, <2>1, <2>2, <2>3, <2>4, <2>5 DEF CallBegins
<1>2. ASSUME NEW t \in Thread, CallStep(t) PROVE LockInv'
  <2>1. CASE Enter(t)
    <3>1. CASE ~handle /\ call[t] \in CheckedInJava
      BY <2>1, <3>1 DEF Enter
    <3>2. CASE ~(~handle /\ call[t] \in CheckedInJava)
      <4>1. \A u \in Thread : ~Locked(u)
        BY <2>1, ThreadAssumption DEF Enter, LockFree
      <4>2. /\ ctxLock' = t /\ arg' = [arg EXCEPT ![t] = handle]
            /\ pc' = [pc EXCEPT ![t] = "native"] /\ pc[t] = "wait"
            /\ UNCHANGED <<handle, context, call>>
        BY <2>1, <3>2 DEF Enter
      <4>3. arg'[t] = handle /\ \A u \in Thread : u # t => ~Locked(u)'
        BY <4>1, <4>2
      <4>4. \A u \in Thread : Locked(u)' => ctxLock' = u
        BY <4>2, <4>3
      <4>5. \A u \in Thread : pc'[u] = "flow" => call'[u] = "startFlow"
        BY <4>2
      <4>6. \A u \in Thread : pc'[u] = "native" /\ call'[u] # "startFlow" => u = t
        BY <4>3
      <4>7. \A u \in Thread : pc'[u] # "free"
        BY <4>2, <4>3
      <4>8. \A u \in Thread : pc'[u] = "native" /\ call'[u] # "startFlow" => (arg'[u] <=> handle')
        BY <4>2, <4>3, <4>6, Zenon
      <4> QED BY <4>2, <4>4, <4>5, <4>7, <4>8 DEF LockInv
    <3> QED BY <3>1, <3>2
  <2>2. CASE Return(t)
    BY <2>2, ThreadAssumption DEF Return, Resumes
  <2>3. CASE FlowEnters(t)
    BY <2>3 DEF FlowEnters
  <2>4. CASE FlowReturns(t)
    BY <2>4 DEF FlowReturns
  <2>5. CASE Joined(t)
    BY <2>5 DEF Joined
  <2>6. CASE CloseEnters(t)
    BY <2>6, ThreadAssumption DEF CloseEnters, ForgetHandle, LockFree
  <2>7. CASE CloseFrees(t)
    BY <2>7, ThreadAssumption DEF CloseFrees, Freed
  <2> QED BY <1>2, <2>1, <2>2, <2>3, <2>4, <2>5, <2>6, <2>7 DEF CallStep
<1>3. ASSUME NEW t \in Thread, JoinInterrupted(t) PROVE LockInv'
  BY <1>3 DEF JoinInterrupted
<1>4. ASSUME NEW w \in Watcher, HookRuns(w) PROVE LockInv'
  BY <1>4 DEF HookRuns
<1>5. ASSUME NEW w \in Watcher, WatchStep(w) PROVE LockInv'
  <2>1. \E where \in {"poll", "dead"} : pc' = [pc EXCEPT ![w] = where]
    BY <1>5 DEF WatchStep, HookReturns, WatchEnds
  <2>2. UNCHANGED <<handle, context, ctxLock, call, arg>> /\ pc[w] \in {"code", "poll"}
    BY <1>5 DEF WatchStep, HookReturns, WatchEnds
  <2> QED BY <2>1, <2>2
<1>6. CASE UNCHANGED vars
  BY <1>6 DEF vars
<1> QED BY <1>1, <1>2, <1>3, <1>4, <1>5, <1>6 DEF Next

\* A context that was freed is freed once: LockInv's last conjunct.
Single == context # "freed twice"

LEMMA SingleStep ==
  ASSUME TypeInv, LockInv, Single, [Next]_vars PROVE Single'
<1>1. ASSUME NEW t \in Thread, CloseFrees(t) PROVE Single'
  BY <1>1 DEF CloseFrees, Freed, Single, LockInv
<1>2. CASE UNCHANGED context
  BY <1>2 DEF Single
<1> QED
  BY <1>1, <1>2 DEF Next, CallBegins, CallStep, WatchStep, vars, Request, StartFlow, Close,
     Start, StopWatch, Enter, Return, FlowEnters, FlowReturns, Joined, JoinInterrupted,
     CloseEnters, HookRuns, HookReturns, WatchEnds

Safe == TypeInv /\ Counters /\ LockInv /\ Single

\* The inductive invariant.
LEMMA Safety == Spec => []Safe
<1>1. Init => Safe
  BY TypeInit, LockInit DEF Init, Safe, Counters, Single
<1>2. Safe /\ [Next]_vars => Safe'
  BY TypeStep, CountersStep, LockStep, SingleStep DEF Safe
<1> QED BY <1>1, <1>2, PTL DEF Spec

\* Whoever is in native code under the lock holds it, and the handle is forgotten before
\* the context is freed (Vault.ctxLock, Vault.close).
THEOREM LockHolds == Spec => []LockInv
<1>1. Safe => LockInv
  BY DEF Safe
<1> QED BY <1>1, Safety, PTL

\* Every variable keeps its type and no context is freed twice (Vault.close).
THEOREM TypesAndSingleFree == Spec => []TypeOK
<1>1. Safe => TypeOK
  BY DEF Safe, TypeInv, Counters, Single, TypeOK
<1> QED BY <1>1, Safety, PTL

\* At most one native call but VESFlow.start() is in flight on a Vault's context
\* (Vault.ctxLock).
THEOREM LockSerializes == Spec => []OneLockedCall
<1>1. Safe => OneLockedCall
  BY DEF Safe, LockInv, OneLockedCall
<1> QED BY <1>1, Safety, PTL

\* No native call works on a freed context (Vault.close against every method).
THEOREM FreedIsForgotten == Spec => []NoCallOnFreed
<1>1. Safe => NoCallOnFreed
  BY DEF Safe, LockInv, NoCallOnFreed, Locked
<1> QED BY <1>1, Safety, PTL

(***************************************************************************)
(* The watches of one owner.                                               *)
(***************************************************************************)
LEMMA WatchInit == Init => WatchInv
  BY ThreadAssumption DEF Init, WatchInv, Ended

LEMMA WatchInvStep ==
  ASSUME OneOwner, TypeInv, LockInv, WatchInv, [Next]_vars PROVE WatchInv'
<1> USE DEF TypeInv, WatchInv, Ended, Creating
<1>1. ASSUME NEW t \in Thread, CallBegins(t) PROVE WatchInv'
  <2>1. ASSUME NEW c \in UnderLock, Request(t, c) PROVE WatchInv'
    BY <2>1 DEF Request, Begin, MayCall
  <2>2. CASE StartFlow(t)
    BY <2>2 DEF StartFlow, Begin, MayCall
  <2>3. CASE Close(t)
    BY <2>3, ThreadAssumption DEF Close, Begin, MayCall, OneOwner
  <2>4. ASSUME NEW w \in Watcher, Start(t, w) PROVE WatchInv'
    BY <2>4 DEF Start, MayCall, OneOwner
  <2>5. ASSUME NEW w \in Watcher, StopWatch(t, w) PROVE WatchInv'
    BY <2>5 DEF StopWatch
  <2> QED BY <1>1, <2>1, <2>2, <2>3, <2>4, <2>5 DEF CallBegins
<1>2. ASSUME NEW t \in Thread, CallStep(t) PROVE WatchInv'
  <2>1. CASE Enter(t)
    BY <2>1 DEF Enter
  <2>2. CASE Return(t)
    BY <2>2 DEF Return, Resumes, LockInv
  <2>3. CASE FlowEnters(t)
    BY <2>3 DEF FlowEnters, LockInv
  <2>4. CASE FlowReturns(t)
    BY <2>4 DEF FlowReturns, LockInv
  <2>5. CASE Joined(t)
    BY <2>5 DEF Joined, WatchEnded, OneOwner
  <2>6. CASE CloseEnters(t)
    BY <2>6 DEF CloseEnters
  <2>7. CASE CloseFrees(t)
    BY <2>7 DEF CloseFrees
  <2> QED BY <1>2, <2>1, <2>2, <2>3, <2>4, <2>5, <2>6, <2>7 DEF CallStep
<1>3. ASSUME NEW t \in Thread, JoinInterrupted(t) PROVE WatchInv'
  BY <1>3 DEF JoinInterrupted
<1>4. ASSUME NEW w \in Watcher, HookRuns(w) PROVE WatchInv'
  BY <1>4 DEF HookRuns
<1>5. ASSUME NEW w \in Watcher, WatchStep(w) PROVE WatchInv'
  BY <1>5 DEF WatchStep, HookReturns, WatchEnds
<1>6. CASE UNCHANGED vars
  BY <1>6 DEF vars
<1> QED BY <1>1, <1>2, <1>3, <1>4, <1>5, <1>6 DEF Next

\* A watch never outlives the context it was derived from, when one thread starts
\* and closes and its join is not interrupted (Vault.close, nativeWatchVault).
THEOREM WatchesStayWithin ==
  ASSUME OneOwner PROVE Spec => []WatchWithinContext
<1>1. Init => Safe /\ WatchInv
  BY TypeInit, LockInit, WatchInit DEF Init, Safe, Counters, Single
<1>2. Safe /\ WatchInv /\ [Next]_vars => (Safe /\ WatchInv)'
  BY TypeStep, CountersStep, LockStep, SingleStep, WatchInvStep DEF Safe
<1>3. Safe /\ WatchInv => WatchWithinContext
  BY DEF Safe, TypeInv, LockInv, Single, WatchInv, WatchWithinContext
<1> QED BY <1>1, <1>2, <1>3, PTL DEF Spec
=============================================================================
