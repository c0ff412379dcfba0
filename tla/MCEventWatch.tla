---------------------------- MODULE MCEventWatch ----------------------------
(***************************************************************************)
(* Instances of EventWatch for TLC: who calls what, and from where start() *)
(* begins.  The threads are model values.                                  *)
(***************************************************************************)
EXTENDS EventWatch, TLC

CONSTANTS a1, a2, w1, w2, x

\* The owner starts and closes; a hook that runs behind the executor stops and joins.
ExecStops == ({a1} \X {"start", "close"}) \cup ({x} \X {"stop", "join"})

\* Both application threads make every call.
FreeCalls == {a1, a2} \X Method

\* The application and the hooks on the worker stop and start again.
HookedCalls == {a1, w1, w2} \X {"start", "stop"}

\* A hook closes the object it runs for.
HookCloses ==
  ({a1} \X {"start"}) \cup ({w1, w2} \X {"close"})

LongMin == -100

WorkersAlike == Permutations({w1, w2})

\* Both application threads alike, where Calls does not tell them apart.
ThreadsAlike == WorkersAlike \cup Permutations({a1, a2})

AnyPosition  == {LongMin, -2, 0, 2}
FromTail     == {LongMin}
FromStart    == {0}
=============================================================================
