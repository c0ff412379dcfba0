----------------------------- MODULE MCNativeHandles -----------------------------
(***************************************************************************)
(* One object of each class: the locker is shared and closed by one        *)
(* thread, the cipher and the flow have one caller, the key is shared and  *)
(* closed by both.                                                         *)
(***************************************************************************)
EXTENDS NativeHandles

CONSTANTS a, b, l, c, f, k

Both(ms, o) == {a, b} \X ms \X {o}
Only(ms, o) == {a} \X ms \X {o}

Shared ==
  Both({"use"}, l) \cup Only({"close"}, l) \cup Only({"use", "close"}, c)
    \cup Only({"use", "auth", "close"}, f)
    \cup Both({"use", "close"}, k) \cup Only({"fromPEM"}, k)
=============================================================================
