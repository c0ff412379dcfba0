---------------------------- MODULE NativeHandles ----------------------------
(***************************************************************************)
(* The native objects behind VESLocker, ItemCipher, VESFlow and OfflineKey. *)
(*                                                                         *)
(* Each Java object keeps the address of its native one in a field, passes *)
(* it to native calls, and frees it in close().  None of them shares the   *)
(* lock of a Vault.  A VESLocker and a VESFlow test the field and read it  *)
(* again for the call, where native code tests it for NULL; an ItemCipher  *)
(* does not test it at all; an OfflineKey's methods are synchronized.      *)
(* VESFlow.auth() hands the credentials to a callback of the application   *)
(* and frees the flow itself.  OfflineKey.fromPEM() builds its object of   *)
(* several parts, at each of which it may fail.                            *)
(***************************************************************************)
EXTENDS Naturals, Sequences

CONSTANTS
  Thread,
  Locker, Cipher, Flow, Key,  \* the Java objects, by class
  None,                       \* a free monitor
  Calls,                      \* <<thread, method, object>> this instance lets happen
  MaxCalls                    \* bound: calls in a behaviour

Obj == Locker \cup Cipher \cup Flow \cup Key

\* "use" stands for every method that passes the handle and leaves the object alive.
Method == {"use", "auth", "close", "fromPEM"}

ASSUME HandlesAssumption ==
  /\ Locker \cap Cipher = {} /\ Locker \cap Flow = {} /\ Cipher \cap Flow = {}
  /\ Key \cap (Locker \cup Cipher \cup Flow) = {} /\ None \notin Thread
  /\ Calls \subseteq Thread \X Method \X Obj /\ MaxCalls \in Nat
  /\ \A c \in Calls : c[2] = "auth" => c[3] \in Flow
  /\ \A c, d \in Calls : c[2] = "fromPEM" =>
       c[3] \in Key /\ (d[2] = "fromPEM" /\ d[3] = c[3] => d = c)

VARIABLES
  handle,   \* nativeHandle (OfflineKey.handle) is not 0
  memory,   \* the native object
  parts,    \* of an OfflineKey's native object: what is allocated
  monitor,  \* who is in a synchronized method of an OfflineKey
  pc, call, \* where a thread is, in which method of which object
  arg,      \* the handle it read was not 0
  misused,  \* flows whose setCreds() threw or closed the flow
  refused,  \* flows whose auth() was passed a null
  made

vars == <<handle, memory, parts, monitor, pc, call, arg, misused, refused, made>>

\* What nativeFromPEM allocates, in this order; the veskey does not stay.  To go
\* without a veskey is no failure.
Order == <<"struct", "pem", "ves", "veskey", "vkey">>
Fallible == {1, 2, 3, 5}
Whole == {"struct", "pem", "ves", "vkey"}

Init ==
  /\ handle = [o \in Obj |-> o \notin Key]
  /\ memory = [o \in Obj |-> IF o \in Key THEN "none" ELSE "live"]
  /\ parts = [k \in Key |-> {}] /\ monitor = [k \in Key |-> None]
  /\ pc = [t \in Thread |-> "idle"] /\ call \in [Thread -> {<<"use", o>> : o \in Obj}]
  /\ arg = [t \in Thread |-> FALSE] /\ misused = {} /\ refused = {}
  /\ made = 0

On(t) == call[t][2]
In(t, m, objs) == call[t][1] = m /\ On(t) \in objs

Goes(t, there) == pc' = [pc EXCEPT ![t] = there]
Reads(t) == arg' = [arg EXCEPT ![t] = handle[On(t)]]

Freed(m) == IF m = "live" THEN "freed" ELSE "twice"
Frees(o) == memory' = [memory EXCEPT ![o] = Freed(@)]

Begin(t, m, o) ==
  /\ pc[t] = "idle" /\ <<t, m, o>> \in Calls /\ made < MaxCalls
  /\ o \in Key => (m = "fromPEM") = (memory[o] = "none")
  /\ made' = made + 1 /\ Goes(t, "begun") /\ call' = [call EXCEPT ![t] = <<m, o>>]
  /\ UNCHANGED <<handle, memory, parts, monitor, arg, misused, refused>>

(***************************************************************************)
(* VESLocker, VESFlow: the test in Java, and the read for the call.        *)
(***************************************************************************)
Checks(t) ==
  /\ pc[t] = "begun" /\ (In(t, "use", Locker \cup Flow) \/ In(t, "auth", Flow))
  /\ Goes(t, IF handle[On(t)] THEN "checked" ELSE "idle")
  /\ UNCHANGED <<handle, memory, parts, monitor, call, arg, misused, refused, made>>

Passes(t) ==
  /\ pc[t] = "checked" /\ Reads(t)
  /\ Goes(t, IF handle[On(t)] THEN "native" ELSE "idle")
  /\ UNCHANGED <<handle, memory, parts, monitor, call, misused, refused, made>>

\* ItemCipher: whatever the field holds goes to native code.
CipherPasses(t) ==
  /\ pc[t] = "begun" /\ In(t, "use", Cipher) /\ Reads(t) /\ Goes(t, "native")
  /\ UNCHANGED <<handle, memory, parts, monitor, call, misused, refused, made>>

Returns(t) ==
  /\ pc[t] = "native" /\ In(t, "use", Obj \ Key) /\ Goes(t, "idle")
  /\ UNCHANGED <<handle, memory, parts, monitor, call, arg, misused, refused, made>>

(***************************************************************************)
(* close() of these: read, forget and free are three steps.                *)
(***************************************************************************)
CloseReads(t) ==
  /\ pc[t] = "begun" /\ In(t, "close", Obj \ Key) /\ Reads(t) /\ Goes(t, "forget")
  /\ UNCHANGED <<handle, memory, parts, monitor, call, misused, refused, made>>

\* Slip: the handle stays in the field.
Kept(h) == h

Forgotten(h) == FALSE

CloseForgets(t) ==
  /\ pc[t] = "forget" /\ handle' = [handle EXCEPT ![On(t)] = Forgotten(@)]
  /\ Goes(t, IF arg[t] THEN "free" ELSE "idle")
  /\ UNCHANGED <<memory, parts, monitor, call, arg, misused, refused, made>>

CloseFrees(t) ==
  /\ pc[t] = "free" /\ On(t) \notin Key /\ Frees(On(t)) /\ Goes(t, "idle")
  /\ UNCHANGED <<handle, parts, monitor, call, arg, misused, refused, made>>

(***************************************************************************)
(* VESFlow.auth(): native code receives, calls setCreds() and frees.       *)
(***************************************************************************)
\* A null redirect or out: E_ARG before anything is done, which Java does not tell apart.
AuthRefuses(t) ==
  /\ pc[t] = "native" /\ In(t, "auth", Flow) /\ Goes(t, "consumed")
  /\ refused' = refused \cup {On(t)}
  /\ UNCHANGED <<handle, memory, parts, monitor, call, arg, misused, made>>

\* Without credentials there is no callback.
AuthReceives(t) ==
  /\ pc[t] = "native" /\ In(t, "auth", Flow)
  /\ \E there \in {"creds", "received"} : Goes(t, there)
  /\ UNCHANGED <<handle, memory, parts, monitor, call, arg, misused, refused, made>>

CredsReturns(t) ==
  /\ pc[t] = "creds" /\ Goes(t, "received")
  /\ UNCHANGED <<handle, memory, parts, monitor, call, arg, misused, refused, made>>

CredsThrows(t) ==
  /\ pc[t] = "creds" /\ Goes(t, "thrown") /\ misused' = misused \cup {On(t)}
  /\ UNCHANGED <<handle, memory, parts, monitor, call, arg, refused, made>>

\* The application closes the flow from its callback.
CredsCloses(t) ==
  /\ pc[t] = "creds" /\ handle[On(t)] /\ <<t, "close", On(t)>> \in Calls
  /\ handle' = [handle EXCEPT ![On(t)] = FALSE] /\ Frees(On(t))
  /\ misused' = misused \cup {On(t)}
  /\ UNCHANGED <<parts, monitor, pc, call, arg, refused, made>>

\* Slip: a flow whose callback was called is left to close().
LeftToClose(t) == UNCHANGED memory

Consumed(t) == Frees(On(t))

\* An exception of setCreds() skips what Java does next.
AuthFrees(t) ==
  /\ pc[t] \in {"received", "thrown"} /\ Consumed(t)
  /\ Goes(t, IF pc[t] = "thrown" THEN "idle" ELSE "consumed")
  /\ UNCHANGED <<handle, parts, monitor, call, arg, misused, refused, made>>

AuthForgets(t) ==
  /\ pc[t] = "consumed" /\ Goes(t, "idle")
  /\ handle' = [handle EXCEPT ![On(t)] = FALSE]
  /\ UNCHANGED <<memory, parts, monitor, call, arg, misused, refused, made>>

(***************************************************************************)
(* OfflineKey.                                                             *)
(***************************************************************************)
\* Slip: a method that is not synchronized.
AnyTime(t) == TRUE

MonitorFree(t) == monitor[On(t)] = None

\* What nativeFromPEM gives back where it fails at part n of Order: vesjni_offline_free
\* frees whatever there is, the veskey is freed in any case.
\* Slips: the PEM is forgotten; the veskey is.
StructOnly(n) == {"struct", "veskey"}
AllButVeskey(n) == Whole

GivenBack(n) == IF n <= 2 THEN {"struct"} ELSE Whole \cup {"veskey"}

FromPEMFails(t, n) ==
  /\ pc[t] = "begun" /\ In(t, "fromPEM", Key) /\ memory[On(t)] = "none"
  /\ parts' = [parts EXCEPT ![On(t)] = {Order[i] : i \in 1..(n - 1)} \ GivenBack(n)]
  /\ Goes(t, "idle")
  /\ UNCHANGED <<handle, memory, monitor, call, arg, misused, refused, made>>

FromPEM(t) ==
  /\ pc[t] = "begun" /\ In(t, "fromPEM", Key) /\ memory[On(t)] = "none"
  /\ parts' = [parts EXCEPT ![On(t)] = Whole]
  /\ memory' = [memory EXCEPT ![On(t)] = "live"]
  /\ handle' = [handle EXCEPT ![On(t)] = TRUE] /\ Goes(t, "idle")
  /\ UNCHANGED <<monitor, call, arg, misused, refused, made>>

\* Synchronized methods: a closed key throws, or there is nothing to close.
KeyEnters(t) ==
  /\ pc[t] = "begun" /\ (In(t, "use", Key) \/ In(t, "close", Key)) /\ MonitorFree(t)
  /\ Reads(t)
  /\ IF handle[On(t)]
     THEN /\ monitor' = [monitor EXCEPT ![On(t)] = t]
          /\ Goes(t, IF In(t, "use", Key) THEN "native" ELSE "free")
     ELSE Goes(t, "idle") /\ UNCHANGED monitor
  /\ UNCHANGED <<handle, memory, parts, call, misused, refused, made>>

KeyReturns(t) ==
  /\ pc[t] = "native" /\ In(t, "use", Key) /\ Goes(t, "idle")
  /\ monitor' = [monitor EXCEPT ![On(t)] = None]
  /\ UNCHANGED <<handle, memory, parts, call, arg, misused, refused, made>>

KeyFrees(t) ==
  /\ pc[t] = "free" /\ On(t) \in Key /\ Frees(On(t))
  /\ parts' = [parts EXCEPT ![On(t)] = {}]
  /\ handle' = [handle EXCEPT ![On(t)] = FALSE]
  /\ monitor' = [monitor EXCEPT ![On(t)] = None] /\ Goes(t, "idle")
  /\ UNCHANGED <<call, arg, misused, refused, made>>

(***************************************************************************)
(* The specification.                                                      *)
(***************************************************************************)
Step(t) ==
  \/ Checks(t) \/ Passes(t) \/ CipherPasses(t) \/ Returns(t)
  \/ CloseReads(t) \/ CloseForgets(t) \/ CloseFrees(t)
  \/ AuthReceives(t) \/ CredsReturns(t) \/ AuthFrees(t) \/ AuthForgets(t)
  \/ FromPEM(t) \/ KeyEnters(t) \/ KeyReturns(t) \/ KeyFrees(t)

Next ==
  \E t \in Thread :
    \/ \E m \in Method, o \in Obj : Begin(t, m, o)
    \/ Step(t) \/ AuthRefuses(t) \/ CredsThrows(t) \/ CredsCloses(t)
    \/ \E n \in Fallible : FromPEMFails(t, n)

Spec == Init /\ [][Next]_vars

(***************************************************************************)
(* Properties.                                                             *)
(***************************************************************************)
Inside == {"native", "creds", "received", "thrown"}

TypeOK ==
  /\ handle \in [Obj -> BOOLEAN]
  /\ memory \in [Obj -> {"none", "live", "freed", "twice"}]
  /\ parts \in [Key -> SUBSET Whole] /\ monitor \in [Key -> Thread \cup {None}]
  /\ pc \in [Thread -> Inside \cup {"idle", "begun", "checked", "forget", "free", "consumed"}]
  /\ call \in [Thread -> Method \X Obj] /\ arg \in [Thread -> BOOLEAN]
  /\ misused \subseteq Flow /\ refused \subseteq Flow
  /\ made \in 0..MaxCalls

\* At most one thread calls any of the methods ms of o.
Sole(o, ms) ==
  \A c, d \in Calls : c[3] = o /\ d[3] = o /\ c[2] \in ms /\ d[2] \in ms => c[1] = d[1]

\* Native code works on a live object: an OfflineKey's whatever the threads that share
\* it do, because use and close() exclude each other; the lock-free classes' as long as
\* one thread calls the object, in any order of uses, close() and auth() - and, of a
\* flow, its setCreds() neither threw nor closed it (VESLocker.java 81, VESFlow.java
\* 78, ItemCipher.java 59, OfflineKey.java 65).
UsedWhileLive ==
  \A t \in Thread :
    pc[t] \in Inside /\ arg[t] /\ (On(t) \in Key \/ Sole(On(t), Method)) /\ On(t) \notin misused
      => memory[On(t)] = "live"

\* Nothing is freed twice as long as one thread closes it, whoever uses it, and of an
\* OfflineKey however many close it; auth() counts as closing.
FreedOnce ==
  \A o \in Obj :
    (o \in Key \/ Sole(o, {"auth", "close"})) /\ o \notin misused => memory[o] # "twice"

\* Nothing leaks: a live native object is in its field, or on its way to be freed; the
\* handle that auth() forgets was freed by native code, on every exit but that of a null
\* argument, which leaves the flow to nobody (jni_vesflow.c 61, VESFlow.java 82).
NothingLost ==
  \A o \in Obj : memory[o] = "live" /\ o \notin refused =>
    handle[o] \/ \E t \in Thread : pc[t] = "free" /\ On(t) = o /\ arg[t]

\* A key is whole or nothing of it is left: every exit of nativeFromPEM gives back what
\* it allocated before, and the VESkey never outlives the call (jni_offlinekey.c 47-85).
KeyWholeOrGone ==
  \A k \in Key : parts[k] = IF memory[k] = "live" THEN Whole ELSE {}

\* What VESFlow.java 76-77 says: "Either way the native handle is consumed; close()
\* afterwards is a no-op", for the one thread that calls auth() and close().
ClosedFlowStaysClosed ==
  \A f \in Flow : Sole(f, {"auth", "close"}) => memory[f] # "twice"

=============================================================================
