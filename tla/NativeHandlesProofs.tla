------------------------ MODULE NativeHandlesProofs ------------------------
(***************************************************************************)
(* Proofs about NativeHandles, for any number of threads, objects and      *)
(* calls.                                                                  *)
(***************************************************************************)
EXTENDS NativeHandles, TLAPS

USE DEF Method, In, On, Goes

PC == Inside \cup {"idle", "begun", "checked", "forget", "free", "consumed"}

(***************************************************************************)
(* Types, but for the parts of a key.                                      *)
(***************************************************************************)
Types ==
  /\ handle \in [Obj -> BOOLEAN]
  /\ memory \in [Obj -> {"none", "live", "freed", "twice"}]
  /\ monitor \in [Key -> Thread \cup {None}]
  /\ pc \in [Thread -> PC] /\ call \in [Thread -> Method \X Obj]
  /\ arg \in [Thread -> BOOLEAN] /\ misused \subseteq Flow /\ refused \subseteq Flow
  /\ made \in 0..MaxCalls

\* Where a thread can be in which method: a call past its beginning is one of Calls.
Place(t) ==
  /\ pc[t] # "idle" => <<t, call[t][1], call[t][2]>> \in Calls
  /\ pc[t] = "checked" => In(t, "use", Locker \cup Flow) \/ In(t, "auth", Flow)
  /\ pc[t] = "native" => In(t, "use", Obj) \/ (In(t, "auth", Flow) /\ arg[t])
  /\ pc[t] \in {"creds", "received", "thrown", "consumed"} => In(t, "auth", Flow) /\ arg[t]
  /\ pc[t] = "forget" => In(t, "close", Obj \ Key)
  /\ pc[t] = "free" => In(t, "close", Obj) /\ arg[t]
  /\ pc[t] = "thrown" => On(t) \in misused
Places == \A t \in Thread : Place(t)

LEMMA TypesInit == Init => Types /\ Places
  BY HandlesAssumption DEF Init, Types, Places, Place, PC, Inside, Obj

LEMMA TypesStep == Types /\ Places /\ [Next]_vars => Types'
<1> USE DEF Types, PC, Inside
<1> SUFFICES ASSUME Types /\ Places, [Next]_vars PROVE Types'
  OBVIOUS
<1>1. ASSUME NEW t \in Thread, NEW m \in Method, NEW o \in Obj, Begin(t, m, o) PROVE Types'
  <2>1. <<m, o>> \in Method \X Obj
    OBVIOUS
  <2>2. call' \in [Thread -> Method \X Obj]
    BY <1>1, <2>1 DEF Begin
  <2>3. made' \in 0..MaxCalls
    <3>1. MaxCalls \in Nat
      BY HandlesAssumption
    <3>2. made \in 0..MaxCalls /\ made < MaxCalls /\ made' = made + 1
      BY <1>1 DEF Begin
    <3> HIDE DEF Types
    <3> QED BY <3>1, <3>2
  <2>4. pc' \in [Thread -> PC]
    BY <1>1 DEF Begin
  <2> QED BY <1>1, <2>2, <2>3, <2>4 DEF Begin
<1>2. ASSUME NEW t \in Thread, Step(t) PROVE Types'
  <2>1. CASE Checks(t)
    BY <2>1, HandlesAssumption DEF Checks
  <2>2. CASE Passes(t)
    BY <2>2, HandlesAssumption DEF Passes, Reads
  <2>3. CASE CipherPasses(t)
    BY <2>3, HandlesAssumption DEF CipherPasses, Reads
  <2>4. CASE Returns(t)
    BY <2>4, HandlesAssumption DEF Returns
  <2>5. CASE CloseReads(t)
    BY <2>5, HandlesAssumption DEF CloseReads, Reads
  <2>6. CASE CloseForgets(t)
    BY <2>6, HandlesAssumption DEF CloseForgets, Forgotten
  <2>7. CASE CloseFrees(t)
    BY <2>7, HandlesAssumption DEF CloseFrees, Frees, Freed
  <2>8. CASE AuthReceives(t)
    <3>1. PICK there \in {"creds", "received"} : Goes(t, there)
      BY <2>8 DEF AuthReceives
    <3> QED BY <2>8, <3>1 DEF AuthReceives
  <2>9. CASE CredsReturns(t)
    BY <2>9, HandlesAssumption DEF CredsReturns
  <2>10. CASE AuthFrees(t)
    BY <2>10, HandlesAssumption DEF AuthFrees, Consumed, Frees, Freed
  <2>11. CASE AuthForgets(t)
    BY <2>11, HandlesAssumption DEF AuthForgets
  <2>12. CASE FromPEM(t)
    BY <2>12, HandlesAssumption DEF FromPEM
  <2>13. CASE KeyEnters(t)
    <3>1. monitor' \in [Key -> Thread \cup {None}]
      BY <2>13 DEF KeyEnters
    <3>2. pc' \in [Thread -> PC]
      BY <2>13 DEF KeyEnters
    <3>3. arg' \in [Thread -> BOOLEAN]
      <4>1. call[t][2] \in Obj
        OBVIOUS
      <4> QED BY <2>13, <4>1 DEF KeyEnters, Reads
    <3> QED BY <2>13, <3>1, <3>2, <3>3 DEF KeyEnters
  <2>14. CASE KeyReturns(t)
    BY <2>14, HandlesAssumption DEF KeyReturns
  <2>15. CASE KeyFrees(t)
    BY <2>15, HandlesAssumption DEF KeyFrees, Frees, Freed
  <2> HIDE DEF Types, PC, Inside
  <2> QED BY <1>2, <2>1, <2>2, <2>3, <2>4, <2>5, <2>6, <2>7, <2>8, <2>9, <2>10, <2>11, <2>12,
        <2>13, <2>14, <2>15 DEF Step
<1>3. ASSUME NEW t \in Thread, CredsThrows(t) PROVE Types'
  <2>1. call[t][2] \in Flow
    BY <1>3 DEF CredsThrows, Places, Place
  <2> QED BY <1>3, <2>1 DEF CredsThrows
<1>4. ASSUME NEW t \in Thread, CredsCloses(t) PROVE Types'
  <2>1. call[t][2] \in Flow
    BY <1>4 DEF CredsCloses, Places, Place
  <2> QED BY <1>4, <2>1 DEF CredsCloses, Frees, Freed
<1>5. ASSUME NEW t \in Thread, NEW n \in Fallible, FromPEMFails(t, n) PROVE Types'
  BY <1>5, HandlesAssumption DEF FromPEMFails
<1>6. CASE UNCHANGED vars
  BY <1>6 DEF vars
<1>7. ASSUME NEW t \in Thread, AuthRefuses(t) PROVE Types'
  <2>1. call[t][2] \in Flow
    BY <1>7 DEF AuthRefuses
  <2> QED BY <1>7, <2>1 DEF AuthRefuses
<1> HIDE DEF Types, PC, Inside
<1> QED BY <1>1, <1>2, <1>3, <1>4, <1>5, <1>6, <1>7 DEF Next

LEMMA PlacesStep == Types /\ Places /\ [Next]_vars => Places'
<1> USE DEF Types, Places, Place, PC, Inside
<1> SUFFICES ASSUME Types /\ Places, [Next]_vars PROVE Places'
  OBVIOUS
<1>1. ASSUME NEW t \in Thread, NEW m \in Method, NEW o \in Obj, Begin(t, m, o) PROVE Places'
  <2>1. call' = [call EXCEPT ![t] = <<m, o>>] /\ pc' = [pc EXCEPT ![t] = "begun"]
          /\ UNCHANGED <<arg, misused>> /\ <<t, m, o>> \in Calls
    BY <1>1 DEF Begin
  <2>2. call'[t][1] = m /\ call'[t][2] = o
    BY <2>1
  <2> QED BY <2>1, <2>2
<1>2. ASSUME NEW t \in Thread, Step(t) PROVE Places'
  <2>1. CASE Checks(t)
    BY <2>1, HandlesAssumption DEF Checks
  <2>2. CASE Passes(t)
    BY <2>2, HandlesAssumption DEF Passes, Reads
  <2>3. CASE CipherPasses(t)
    <3>1. call[t][2] \in Obj /\ call[t][1] = "use" /\ pc[t] = "begun"
            /\ UNCHANGED <<call, misused>>
      BY <2>3 DEF CipherPasses, Obj
    <3>2. pc' = [pc EXCEPT ![t] = "native"] /\ arg' = [arg EXCEPT ![t] = handle[call[t][2]]]
            /\ handle[call[t][2]] \in BOOLEAN
      BY <2>3, <3>1 DEF CipherPasses, Reads
    <3>3. ASSUME NEW s \in Thread, s # t
          PROVE pc'[s] = pc[s] /\ call'[s] = call[s] /\ arg'[s] = arg[s]
      BY <3>1, <3>2, <3>3
    <3>4. pc'[t] = "native" /\ call'[t] = call[t] /\ <<t, call[t][1], call[t][2]>> \in Calls
      BY <3>1, <3>2
    <3>5. Place(t)'
      <4> HIDE DEF Types, Places
      <4> QED BY <3>1, <3>4
    <3>6. ASSUME NEW s \in Thread, s # t PROVE Place(s)'
      BY <3>1, <3>3, <3>6
    <3> QED BY <3>5, <3>6
  <2>4. CASE Returns(t)
    BY <2>4, HandlesAssumption DEF Returns
  <2>5. CASE CloseReads(t)
    BY <2>5, HandlesAssumption DEF CloseReads, Reads
  <2>6. CASE CloseForgets(t)
    BY <2>6, HandlesAssumption DEF CloseForgets, Forgotten
  <2>7. CASE CloseFrees(t)
    BY <2>7, HandlesAssumption DEF CloseFrees, Frees, Freed
  <2>8. CASE AuthReceives(t)
    BY <2>8, HandlesAssumption DEF AuthReceives
  <2>9. CASE CredsReturns(t)
    BY <2>9, HandlesAssumption DEF CredsReturns
  <2>10. CASE AuthFrees(t)
    BY <2>10, HandlesAssumption DEF AuthFrees, Consumed, Frees, Freed
  <2>11. CASE AuthForgets(t)
    BY <2>11, HandlesAssumption DEF AuthForgets
  <2>12. CASE FromPEM(t)
    BY <2>12, HandlesAssumption DEF FromPEM
  <2>13. CASE KeyEnters(t)
    <3>1. call[t][2] \in Key /\ (call[t][1] = "use" \/ call[t][1] = "close")
            /\ pc[t] = "begun" /\ UNCHANGED <<call, misused>>
      BY <2>13 DEF KeyEnters
    <3>2. arg' = [arg EXCEPT ![t] = handle[call[t][2]]] /\ handle[call[t][2]] \in BOOLEAN
      BY <2>13, <3>1 DEF KeyEnters, Reads, Obj
    <3>3. CASE handle[call[t][2]]
      <4>1. pc' = [pc EXCEPT ![t] = IF call[t][1] = "use" THEN "native" ELSE "free"]
        BY <2>13, <3>1, <3>3 DEF KeyEnters
      <4> QED BY <3>1, <3>2, <3>3, <4>1 DEF Obj
    <3>4. CASE ~handle[call[t][2]]
      <4>1. pc' = [pc EXCEPT ![t] = "idle"]
        BY <2>13, <3>1, <3>4 DEF KeyEnters
      <4> QED BY <3>1, <3>2, <3>4, <4>1
    <3> QED BY <3>3, <3>4
  <2>14. CASE KeyReturns(t)
    BY <2>14, HandlesAssumption DEF KeyReturns
  <2>15. CASE KeyFrees(t)
    BY <2>15, HandlesAssumption DEF KeyFrees, Frees, Freed
  <2> HIDE DEF Types, Places, Place, PC, Inside
  <2> QED BY <1>2, <2>1, <2>2, <2>3, <2>4, <2>5, <2>6, <2>7, <2>8, <2>9, <2>10, <2>11, <2>12,
        <2>13, <2>14, <2>15 DEF Step
<1>3. ASSUME NEW t \in Thread, CredsThrows(t) PROVE Places'
  BY <1>3, HandlesAssumption DEF CredsThrows
<1>4. ASSUME NEW t \in Thread, CredsCloses(t) PROVE Places'
  BY <1>4, HandlesAssumption DEF CredsCloses, Frees, Freed
<1>5. ASSUME NEW t \in Thread, NEW n \in Fallible, FromPEMFails(t, n) PROVE Places'
  BY <1>5, HandlesAssumption DEF FromPEMFails
<1>6. CASE UNCHANGED vars
  BY <1>6 DEF vars
<1>7. ASSUME NEW t \in Thread, AuthRefuses(t) PROVE Places'
  BY <1>7, HandlesAssumption DEF AuthRefuses
<1> HIDE DEF Types, Places, Place, PC, Inside
<1> QED BY <1>1, <1>2, <1>3, <1>4, <1>5, <1>6, <1>7 DEF Next

(***************************************************************************)
(* Keys: whoever is inside one holds its monitor.                          *)
(***************************************************************************)
KeyOK(k) ==
  /\ memory[k] # "twice" /\ (handle[k] <=> memory[k] = "live")
  /\ \A t \in Thread : On(t) = k /\ pc[t] \in {"native", "free"} =>
       monitor[k] = t /\ arg[t] /\ handle[k]

LEMMA Classes ==
  /\ \A k \in Key : k \notin Locker /\ k \notin Cipher /\ k \notin Flow
  /\ None \notin Thread
  BY HandlesAssumption

LEMMA NotAKey ==
  ASSUME Places, NEW t \in Thread, NEW k \in Key,
         pc[t] \in {"checked", "forget", "creds", "received", "thrown", "consumed"}
  PROVE  On(t) # k
<1>1. Place(t)
  BY DEF Places
<1>2. k \notin Locker /\ k \notin Flow /\ k \notin Obj \ Key
  BY Classes
<1> QED BY <1>1, <1>2 DEF Place

LEMMA KeyStep ==
  Types /\ Places /\ (\A k \in Key : KeyOK(k)) /\ [Next]_vars => \A k \in Key : KeyOK(k)'
<1> SUFFICES ASSUME Types /\ Places, \A k \in Key : KeyOK(k), [Next]_vars, NEW k \in Key
             PROVE  KeyOK(k)'
  OBVIOUS
<1> USE DEF KeyOK, Types, Places, Place, PC, Inside, Obj
<1>1. ASSUME NEW t \in Thread, NEW m \in Method, NEW x \in Obj, Begin(t, m, x) PROVE KeyOK(k)'
  BY <1>1, Classes DEF Begin
<1>2. ASSUME NEW t \in Thread, Step(t) PROVE KeyOK(k)'
  <2>1. CASE Checks(t)
    BY <2>1, Classes DEF Checks
  <2>2. CASE Passes(t)
    <3>1. call[t][2] # k
      BY <2>2, NotAKey DEF Passes
    <3> QED BY <2>2, <3>1 DEF Passes, Reads
  <2>3. CASE CipherPasses(t)
    BY <2>3, Classes DEF CipherPasses, Reads
  <2>4. CASE Returns(t)
    BY <2>4, Classes DEF Returns
  <2>5. CASE CloseReads(t)
    BY <2>5, Classes DEF CloseReads, Reads
  <2>6. CASE CloseForgets(t)
    <3>1. call[t][2] # k
      BY <2>6, NotAKey DEF CloseForgets
    <3> QED BY <2>6, <3>1 DEF CloseForgets, Forgotten
  <2>7. CASE CloseFrees(t)
    BY <2>7, Classes DEF CloseFrees, Frees, Freed
  <2>8. CASE AuthReceives(t)
    BY <2>8, Classes DEF AuthReceives
  <2>9. CASE CredsReturns(t)
    BY <2>9, Classes DEF CredsReturns
  <2>10. CASE AuthFrees(t)
    <3>1. call[t][2] # k
      BY <2>10, NotAKey DEF AuthFrees
    <3> QED BY <2>10, <3>1 DEF AuthFrees, Consumed, Frees, Freed
  <2>11. CASE AuthForgets(t)
    <3>1. call[t][2] # k
      BY <2>11, NotAKey DEF AuthForgets
    <3> QED BY <2>11, <3>1 DEF AuthForgets
  <2>12. CASE FromPEM(t)
    BY <2>12, Classes DEF FromPEM
  <2>13. CASE KeyEnters(t)
    BY <2>13, Classes DEF KeyEnters, Reads, MonitorFree
  <2>14. CASE KeyReturns(t)
    BY <2>14, Classes DEF KeyReturns
  <2>15. CASE KeyFrees(t)
    BY <2>15, Classes DEF KeyFrees, Frees, Freed
  <2> HIDE DEF KeyOK, Types, Places, Place, PC, Inside, Obj
  <2> QED BY <1>2, <2>1, <2>2, <2>3, <2>4, <2>5, <2>6, <2>7, <2>8, <2>9, <2>10, <2>11, <2>12,
        <2>13, <2>14, <2>15 DEF Step
<1>3. ASSUME NEW t \in Thread, CredsThrows(t) PROVE KeyOK(k)'
  BY <1>3, Classes DEF CredsThrows
<1>4. ASSUME NEW t \in Thread, CredsCloses(t) PROVE KeyOK(k)'
  <2>1. call[t][2] # k
    BY <1>4, NotAKey DEF CredsCloses
  <2> QED BY <1>4, <2>1 DEF CredsCloses, Frees, Freed
<1>5. ASSUME NEW t \in Thread, NEW n \in Fallible, FromPEMFails(t, n) PROVE KeyOK(k)'
  BY <1>5, Classes DEF FromPEMFails
<1>6. CASE UNCHANGED vars
  BY <1>6 DEF vars
<1>7. ASSUME NEW t \in Thread, AuthRefuses(t) PROVE KeyOK(k)'
  BY <1>7, Classes DEF AuthRefuses
<1> HIDE DEF KeyOK, Types, Places, Place, PC, Inside, Obj
<1> QED BY <1>1, <1>2, <1>3, <1>4, <1>5, <1>6, <1>7 DEF Next

(***************************************************************************)
(* The lock-free classes: while one thread closes an object, and no        *)
(* setCreds() spoiled it, the handle tells whether it lives.               *)
(***************************************************************************)
OwnOK(o) ==
  Sole(o, {"auth", "close"}) /\ o \notin misused =>
    /\ memory[o] \in {"live", "freed"}
    /\ handle[o] => memory[o] = "live" \/ \E t \in Thread : On(t) = o /\ pc[t] = "consumed"
    /\ \A t \in Thread : On(t) = o =>
         /\ pc[t] = "forget" => arg[t] = handle[o]
         /\ pc[t] = "free" => memory[o] = "live" /\ ~handle[o]
         /\ pc[t] \in {"creds", "received"} \/ (pc[t] = "native" /\ call[t][1] = "auth") =>
              memory[o] = "live" /\ handle[o]

\* Of two threads that call methods of ms only one is at work.
LEMMA OneCaller ==
  ASSUME Places, NEW o, NEW ms, Sole(o, ms), NEW t \in Thread, NEW s \in Thread,
         pc[t] # "idle", pc[s] # "idle", On(t) = o, On(s) = o,
         call[t][1] \in ms, call[s][1] \in ms
  PROVE  t = s
<1>1. <<t, call[t][1], o>> \in Calls /\ <<s, call[s][1], o>> \in Calls
  BY DEF Places, Place
<1> QED BY <1>1 DEF Sole

\* So no other thread is where a flow or an object is given up.
LEMMA OneEnds ==
  ASSUME Places, NEW o, Sole(o, {"auth", "close"}), NEW t \in Thread, NEW s \in Thread,
         pc[t] # "idle", On(t) = o, call[t][1] \in {"auth", "close"}, On(s) = o,
         \/ pc[s] \in {"forget", "free", "creds", "received", "consumed"}
         \/ pc[s] = "native" /\ call[s][1] = "auth"
  PROVE  t = s
<1>1. Place(s)
  BY DEF Places
<1>2. call[s][1] \in {"auth", "close"} /\ pc[s] # "idle"
  BY <1>1 DEF Place
<1> QED BY <1>2, OneCaller

\* What a step leaves as it is of an object it is not about.
Untouched(o) ==
  /\ handle'[o] = handle[o] /\ memory'[o] = memory[o] /\ misused \subseteq misused'
  /\ o \in misused' => o \in misused
  /\ refused \subseteq refused' /\ (o \in refused' => o \in refused)
  /\ \A s \in Thread : call'[s] = call[s] /\ (On(s) = o => pc'[s] = pc[s] /\ arg'[s] = arg[s])

Moves(t) ==
  Step(t) \/ AuthRefuses(t) \/ CredsThrows(t) \/ CredsCloses(t) \/ \E n \in Fallible : FromPEMFails(t, n)

LEMMA Elsewhere ==
  ASSUME Types, NEW t \in Thread, Moves(t), NEW o \in Obj, On(t) # o
  PROVE  Untouched(o)
<1> USE DEF Types, Untouched
<1>1. CASE Checks(t)
  BY <1>1 DEF Checks
<1>2. CASE Passes(t)
  BY <1>2 DEF Passes, Reads
<1>3. CASE CipherPasses(t)
  BY <1>3 DEF CipherPasses, Reads
<1>4. CASE Returns(t)
  BY <1>4 DEF Returns
<1>5. CASE CloseReads(t)
  BY <1>5 DEF CloseReads, Reads
<1>6. CASE CloseForgets(t)
  BY <1>6 DEF CloseForgets, Forgotten
<1>7. CASE CloseFrees(t)
  BY <1>7 DEF CloseFrees, Frees, Freed
<1>8. CASE AuthReceives(t)
  BY <1>8 DEF AuthReceives
<1>9. CASE CredsReturns(t)
  BY <1>9 DEF CredsReturns
<1>10. CASE AuthFrees(t)
  BY <1>10 DEF AuthFrees, Consumed, Frees, Freed
<1>11. CASE AuthForgets(t)
  BY <1>11 DEF AuthForgets
<1>12. CASE FromPEM(t)
  BY <1>12 DEF FromPEM
<1>13. CASE KeyEnters(t)
  BY <1>13 DEF KeyEnters, Reads, MonitorFree
<1>14. CASE KeyReturns(t)
  BY <1>14 DEF KeyReturns
<1>15. CASE KeyFrees(t)
  BY <1>15 DEF KeyFrees, Frees, Freed
<1>16. CASE CredsThrows(t)
  BY <1>16 DEF CredsThrows
<1>17. CASE CredsCloses(t)
  BY <1>17 DEF CredsCloses, Frees, Freed
<1>18. ASSUME NEW n \in Fallible, FromPEMFails(t, n) PROVE Untouched(o)
  BY <1>18 DEF FromPEMFails
<1>19. CASE AuthRefuses(t)
  BY <1>19 DEF AuthRefuses
<1> HIDE DEF Types, Untouched
<1> QED BY <1>1, <1>2, <1>3, <1>4, <1>5, <1>6, <1>7, <1>8, <1>9, <1>10, <1>11, <1>12, <1>13,
      <1>14, <1>15, <1>16, <1>17, <1>18, <1>19 DEF Moves, Step

LEMMA OwnStep ==
  Types /\ Places /\ (\A o \in Obj \ Key : OwnOK(o)) /\ [Next]_vars =>
    \A o \in Obj \ Key : OwnOK(o)'
<1> SUFFICES ASSUME Types /\ Places, \A x \in Obj \ Key : OwnOK(x),
                    [Next]_vars, NEW o \in Obj \ Key
             PROVE  OwnOK(o)'
  OBVIOUS
<1> USE DEF OwnOK, Types, Places, Place, PC, Inside
<1>1. ASSUME NEW t \in Thread, NEW m \in Method, NEW x \in Obj, Begin(t, m, x) PROVE OwnOK(o)'
  BY <1>1 DEF Begin
<1>2. ASSUME NEW t \in Thread, Moves(t) PROVE OwnOK(o)'
  <2>1. CASE On(t) # o
    BY <1>2, <2>1, Elsewhere DEF Untouched
  <2>2. CASE On(t) = o
    <3>1. CASE Checks(t)
      BY <2>2, <3>1 DEF Checks
    <3>2. CASE Passes(t)
      <4>1. CASE call[t][1] = "auth" /\ handle[o] /\ Sole(o, {"auth", "close"})
              /\ o \notin misused
        <5>1. ASSUME NEW s \in Thread, s # t, On(s) = o PROVE pc[s] # "consumed"
          <6>1. pc[t] # "idle"
            BY <3>2 DEF Passes
          <6> HIDE DEF Types, Places, Place, OwnOK
          <6> QED BY <2>2, <4>1, <5>1, <6>1, OneEnds
        <5>2. memory[o] = "live"
          BY <2>2, <4>1, <5>1, <3>2 DEF Passes
        <5>3. pc'[t] = "native" /\ UNCHANGED <<handle, memory, call, misused>>
          BY <2>2, <4>1, <3>2 DEF Passes, Reads
        <5>4. \A s \in Thread : s # t => pc'[s] = pc[s] /\ arg'[s] = arg[s]
          BY <3>2 DEF Passes, Reads
        <5>5. \A s \in Thread : On(s)' = On(s) /\ call'[s][1] = call[s][1]
          BY <5>3
        <5> HIDE DEF Types, Places, Place
        <5> QED BY <2>2, <4>1, <5>2, <5>3, <5>4, <5>5
      <4>2. CASE ~(call[t][1] = "auth" /\ handle[o])
        BY <2>2, <4>2, <3>2 DEF Passes, Reads
      <4> QED BY <4>1, <4>2, <3>2 DEF Passes
    <3>3. CASE CipherPasses(t)
      BY <2>2, <3>3 DEF CipherPasses, Reads
    <3>4. CASE Returns(t)
      BY <2>2, <3>4 DEF Returns
    <3>5. CASE CloseReads(t)
      BY <2>2, <3>5 DEF CloseReads, Reads
    <3>6. CASE CloseForgets(t)
      <4>1. CASE Sole(o, {"auth", "close"}) /\ o \notin misused
        <5>1. ASSUME NEW s \in Thread, s # t, On(s) = o
              PROVE  /\ pc[s] \notin {"forget", "free", "creds", "received", "consumed"}
                     /\ ~(pc[s] = "native" /\ call[s][1] = "auth")
          <6>1. pc[t] # "idle" /\ call[t][1] \in {"auth", "close"}
            BY <3>6 DEF CloseForgets
          <6> HIDE DEF Types, Places, Place, OwnOK
          <6> QED BY <2>2, <4>1, <5>1, <6>1, OneEnds
        <5>2. /\ pc[t] = "forget" /\ pc'[t] = (IF arg[t] THEN "free" ELSE "idle")
                /\ arg'[t] = arg[t]
              /\ handle'[o] = FALSE /\ memory'[o] = memory[o]
          BY <2>2, <4>1, <3>6 DEF CloseForgets, Forgotten
        <5>3. \A s \in Thread : call'[s] = call[s] /\ (s # t => pc'[s] = pc[s]
                /\ arg'[s] = arg[s])
          BY <3>6 DEF CloseForgets, Forgotten
        <5> QED BY <2>2, <4>1, <5>1, <5>2, <5>3
      <4>2. misused \subseteq misused'
        BY <3>6 DEF CloseForgets
      <4> QED BY <4>1, <4>2
    <3>7. CASE CloseFrees(t)
      <4>1. CASE Sole(o, {"auth", "close"}) /\ o \notin misused
        <5>1. ASSUME NEW s \in Thread, s # t, On(s) = o
              PROVE  /\ pc[s] \notin {"forget", "free", "creds", "received", "consumed"}
                     /\ ~(pc[s] = "native" /\ call[s][1] = "auth")
          <6>1. pc[t] # "idle" /\ call[t][1] \in {"auth", "close"}
            BY <3>7 DEF CloseFrees
          <6> HIDE DEF Types, Places, Place, OwnOK
          <6> QED BY <2>2, <4>1, <5>1, <6>1, OneEnds
        <5>2. /\ pc[t] = "free" /\ pc'[t] = "idle"
              /\ handle'[o] = handle[o] /\ memory'[o] = Freed(memory[o])
          BY <2>2, <4>1, <3>7 DEF CloseFrees, Frees, Freed
        <5>3. \A s \in Thread : call'[s] = call[s] /\ (s # t => pc'[s] = pc[s]
                /\ arg'[s] = arg[s])
          BY <3>7 DEF CloseFrees, Frees, Freed
        <5> QED BY <2>2, <4>1, <5>1, <5>2, <5>3 DEF Freed
      <4>2. misused \subseteq misused'
        BY <3>7 DEF CloseFrees
      <4> QED BY <4>1, <4>2
    <3>8. CASE AuthReceives(t)
      BY <2>2, <3>8 DEF AuthReceives
    <3>9. CASE CredsReturns(t)
      BY <2>2, <3>9 DEF CredsReturns
    <3>10. CASE AuthFrees(t)
      <4>1. CASE Sole(o, {"auth", "close"}) /\ o \notin misused
        <5>1. ASSUME NEW s \in Thread, s # t, On(s) = o
              PROVE  /\ pc[s] \notin {"forget", "free", "creds", "received", "consumed"}
                     /\ ~(pc[s] = "native" /\ call[s][1] = "auth")
          <6>1. pc[t] # "idle" /\ call[t][1] \in {"auth", "close"}
            BY <3>10 DEF AuthFrees
          <6> HIDE DEF Types, Places, Place, OwnOK
          <6> QED BY <2>2, <4>1, <5>1, <6>1, OneEnds
        <5>0. pc[t] # "thrown" /\ pc[t] \in {"received", "thrown"}
          BY <2>2, <4>1, <3>10 DEF AuthFrees
        <5>2. /\ pc[t] = "received" /\ pc'[t] = "consumed"
              /\ handle'[o] = handle[o] /\ memory'[o] = Freed(memory[o])
          BY <2>2, <5>0, <3>10 DEF AuthFrees, Consumed, Frees, Freed
        <5>3. \A s \in Thread : call'[s] = call[s] /\ (s # t => pc'[s] = pc[s]
                /\ arg'[s] = arg[s])
          BY <3>10 DEF AuthFrees, Consumed, Frees, Freed
        <5> QED BY <2>2, <4>1, <5>1, <5>2, <5>3 DEF Freed
      <4>2. misused \subseteq misused'
        BY <3>10 DEF AuthFrees
      <4> QED BY <4>1, <4>2
    <3>11. CASE AuthForgets(t)
      <4>1. CASE Sole(o, {"auth", "close"}) /\ o \notin misused
        <5>1. ASSUME NEW s \in Thread, s # t, On(s) = o
              PROVE  /\ pc[s] \notin {"forget", "free", "creds", "received", "consumed"}
                     /\ ~(pc[s] = "native" /\ call[s][1] = "auth")
          <6>1. pc[t] # "idle" /\ call[t][1] \in {"auth", "close"}
            BY <3>11 DEF AuthForgets
          <6> HIDE DEF Types, Places, Place, OwnOK
          <6> QED BY <2>2, <4>1, <5>1, <6>1, OneEnds
        <5>2. /\ pc[t] = "consumed" /\ pc'[t] = "idle"
              /\ handle'[o] = FALSE /\ memory'[o] = memory[o]
          BY <2>2, <4>1, <3>11 DEF AuthForgets
        <5>3. \A s \in Thread : call'[s] = call[s] /\ (s # t => pc'[s] = pc[s]
                /\ arg'[s] = arg[s])
          BY <3>11 DEF AuthForgets
        <5> QED BY <2>2, <4>1, <5>1, <5>2, <5>3
      <4>2. misused \subseteq misused'
        BY <3>11 DEF AuthForgets
      <4> QED BY <4>1, <4>2
    <3>12. CASE FromPEM(t)
      BY <2>2, <3>12 DEF FromPEM
    <3>13. CASE KeyEnters(t)
      BY <2>2, <3>13 DEF KeyEnters, Reads, MonitorFree
    <3>14. CASE KeyReturns(t)
      BY <2>2, <3>14 DEF KeyReturns
    <3>15. CASE KeyFrees(t)
      BY <2>2, <3>15 DEF KeyFrees, Frees, Freed
    <3>16. CASE CredsThrows(t)
      BY <2>2, <3>16 DEF CredsThrows
    <3>17. CASE CredsCloses(t)
      BY <2>2, <3>17 DEF CredsCloses, Frees, Freed
    <3>18. ASSUME NEW n \in Fallible, FromPEMFails(t, n) PROVE OwnOK(o)'
      BY <2>2, <3>18 DEF FromPEMFails
    <3>19. CASE AuthRefuses(t)
      BY <2>2, <3>19 DEF AuthRefuses
    <3> HIDE DEF OwnOK, Types, Places, Place, PC, Inside
    <3> QED BY <1>2, <3>1, <3>2, <3>3, <3>4, <3>5, <3>6, <3>7, <3>8, <3>9, <3>10, <3>11, <3>12,
          <3>13, <3>14, <3>15, <3>16, <3>17, <3>18, <3>19 DEF Moves, Step
  <2> HIDE DEF OwnOK, Types, Places, Place, PC, Inside
  <2> QED BY <2>1, <2>2
<1>3. CASE UNCHANGED vars
  BY <1>3 DEF vars
<1> HIDE DEF OwnOK, Types, Places, Place, PC, Inside
<1> QED BY <1>1, <1>2, <1>3 DEF Next, Moves

(***************************************************************************)
(* Their use: what the one caller read is what lives.                      *)
(***************************************************************************)
UseOK(o) ==
  Sole(o, Method) /\ o \notin misused =>
    \A t \in Thread : On(t) = o /\ pc[t] = "native" /\ arg[t] => memory[o] = "live"

LEMMA SoleEnds == ASSUME NEW o, Sole(o, Method) PROVE Sole(o, {"auth", "close"})
  BY DEF Sole

\* One caller, and it reads the handle: then it lives.
LEMMA ReadsLive ==
  ASSUME Types /\ Places, NEW o \in Obj \ Key, OwnOK(o), Sole(o, Method), o \notin misused,
         NEW t \in Thread, On(t) = o, pc[t] \in {"begun", "checked"}, handle[o]
  PROVE  memory[o] = "live"
<1>1. ASSUME NEW s \in Thread, On(s) = o PROVE pc[s] # "consumed"
  <2>1. call[s][1] \in Method /\ call[t][1] \in Method
    BY DEF Types
  <2>2. pc[t] # "idle" /\ pc[t] # "consumed"
    OBVIOUS
  <2>3. SUFFICES ASSUME pc[s] = "consumed" PROVE FALSE
    OBVIOUS
  <2>4. pc[s] # "idle" /\ s # t
    BY <2>2, <2>3
  <2> HIDE DEF Method
  <2> QED BY <1>1, <2>1, <2>2, <2>4, OneCaller
<1>2. Sole(o, {"auth", "close"})
  BY SoleEnds
<1> QED BY <1>1, <1>2 DEF OwnOK

LEMMA UseStep ==
  Types /\ Places /\ (\A o \in Obj \ Key : OwnOK(o) /\ UseOK(o)) /\ [Next]_vars =>
    \A o \in Obj \ Key : UseOK(o)'
<1> SUFFICES ASSUME Types /\ Places, \A x \in Obj \ Key : OwnOK(x) /\ UseOK(x),
                    [Next]_vars, NEW o \in Obj \ Key
             PROVE  UseOK(o)'
  OBVIOUS
<1> USE DEF UseOK, Types, Places, Place, PC, Inside
<1>1. ASSUME NEW t \in Thread, NEW m \in Method, NEW x \in Obj, Begin(t, m, x) PROVE UseOK(o)'
  BY <1>1 DEF Begin
<1>2. ASSUME NEW t \in Thread, Moves(t) PROVE UseOK(o)'
  <2>1. CASE On(t) # o
    BY <1>2, <2>1, Elsewhere DEF Untouched
  <2>2. CASE On(t) = o
    <3>1. CASE Checks(t)
      BY <2>2, <3>1 DEF Checks
    <3>2. CASE Passes(t)
      <4>1. CASE Sole(o, Method) /\ o \notin misused /\ handle[o]
        <5>1. memory[o] = "live" /\ memory' = memory
          BY <2>2, <4>1, <3>2, ReadsLive DEF Passes
        <5> QED BY <4>1, <5>1
      <4>2. CASE ~handle[o]
        BY <2>2, <4>2, <3>2 DEF Passes, Reads
      <4> QED BY <4>1, <4>2, <3>2 DEF Passes
    <3>3. CASE CipherPasses(t)
      <4>1. CASE Sole(o, Method) /\ o \notin misused /\ handle[o]
        <5>1. memory[o] = "live" /\ memory' = memory
          BY <2>2, <4>1, <3>3, ReadsLive DEF CipherPasses
        <5> QED BY <4>1, <5>1
      <4>2. CASE ~handle[o]
        BY <2>2, <4>2, <3>3 DEF CipherPasses, Reads
      <4> QED BY <4>1, <4>2, <3>3 DEF CipherPasses
    <3>4. CASE Returns(t)
      BY <2>2, <3>4 DEF Returns
    <3>5. CASE CloseReads(t)
      BY <2>2, <3>5 DEF CloseReads, Reads
    <3>6. CASE CloseForgets(t)
      BY <2>2, <3>6 DEF CloseForgets, Forgotten
    <3>7. CASE CloseFrees(t)
      <4>1. CASE Sole(o, Method) /\ o \notin misused
        <5>1. ASSUME NEW s \in Thread, s # t, On(s) = o PROVE pc[s] = "idle"
          <6>1. pc[t] # "idle" /\ call[s][1] \in Method /\ call[t][1] \in Method
            BY <3>7 DEF CloseFrees
          <6> HIDE DEF Types, Places, Place, Method
          <6> QED BY <2>2, <4>1, <5>1, <6>1, OneCaller
        <5>2. pc'[t] # "native"
          BY <2>2, <4>1, <3>7 DEF CloseFrees, Frees, Freed
        <5>3. \A s \in Thread : call'[s] = call[s] /\ (s # t => pc'[s] = pc[s])
          BY <3>7 DEF CloseFrees, Frees, Freed
        <5>4. o \notin misused' => o \notin misused
          BY <3>7 DEF CloseFrees
        <5> HIDE DEF Types, Places, Place
        <5> QED BY <2>2, <4>1, <5>1, <5>2, <5>3, <5>4
      <4>2. misused \subseteq misused'
        BY <3>7 DEF CloseFrees
      <4> QED BY <4>1, <4>2
    <3>8. CASE AuthReceives(t)
      BY <2>2, <3>8 DEF AuthReceives
    <3>9. CASE CredsReturns(t)
      BY <2>2, <3>9 DEF CredsReturns
    <3>10. CASE AuthFrees(t)
      <4>1. CASE Sole(o, Method) /\ o \notin misused
        <5>1. ASSUME NEW s \in Thread, s # t, On(s) = o PROVE pc[s] = "idle"
          <6>1. pc[t] # "idle" /\ call[s][1] \in Method /\ call[t][1] \in Method
            BY <3>10 DEF AuthFrees
          <6> HIDE DEF Types, Places, Place, Method
          <6> QED BY <2>2, <4>1, <5>1, <6>1, OneCaller
        <5>2. pc'[t] # "native"
          BY <2>2, <4>1, <3>10 DEF AuthFrees, Consumed, Frees, Freed
        <5>3. \A s \in Thread : call'[s] = call[s] /\ (s # t => pc'[s] = pc[s])
          BY <3>10 DEF AuthFrees, Consumed, Frees, Freed
        <5>4. o \notin misused' => o \notin misused
          BY <3>10 DEF AuthFrees
        <5> HIDE DEF Types, Places, Place
        <5> QED BY <2>2, <4>1, <5>1, <5>2, <5>3, <5>4
      <4>2. misused \subseteq misused'
        BY <3>10 DEF AuthFrees
      <4> QED BY <4>1, <4>2
    <3>11. CASE AuthForgets(t)
      BY <2>2, <3>11 DEF AuthForgets
    <3>12. CASE FromPEM(t)
      BY <2>2, <3>12 DEF FromPEM
    <3>13. CASE KeyEnters(t)
      BY <2>2, <3>13 DEF KeyEnters, Reads, MonitorFree
    <3>14. CASE KeyReturns(t)
      BY <2>2, <3>14 DEF KeyReturns
    <3>15. CASE KeyFrees(t)
      BY <2>2, <3>15 DEF KeyFrees, Frees, Freed
    <3>16. CASE CredsThrows(t)
      BY <2>2, <3>16 DEF CredsThrows
    <3>17. CASE CredsCloses(t)
      BY <2>2, <3>17 DEF CredsCloses
    <3>18. ASSUME NEW n \in Fallible, FromPEMFails(t, n) PROVE UseOK(o)'
      BY <2>2, <3>18 DEF FromPEMFails
    <3>19. CASE AuthRefuses(t)
      BY <2>2, <3>19 DEF AuthRefuses
    <3> HIDE DEF UseOK, Types, Places, Place, PC, Inside
    <3> QED BY <1>2, <3>1, <3>2, <3>3, <3>4, <3>5, <3>6, <3>7, <3>8, <3>9, <3>10, <3>11, <3>12,
          <3>13, <3>14, <3>15, <3>16, <3>17, <3>18, <3>19 DEF Moves, Step
  <2> HIDE DEF UseOK, Types, Places, Place, PC, Inside
  <2> QED BY <2>1, <2>2
<1>3. CASE UNCHANGED vars
  BY <1>3 DEF vars
<1> HIDE DEF UseOK, Types, Places, Place, PC, Inside
<1> QED BY <1>1, <1>2, <1>3 DEF Next, Moves

(***************************************************************************)
(* Nothing is lost.                                                        *)
(***************************************************************************)
LostOK(o) ==
  /\ memory[o] = "live" /\ o \notin refused =>
       handle[o] \/ \E t \in Thread : pc[t] = "free" /\ On(t) = o /\ arg[t]
  /\ \A t \in Thread : On(t) = o =>
       /\ pc[t] = "forget" /\ ~arg[t] => ~handle[o]
       /\ pc[t] = "consumed" /\ o \notin refused => memory[o] # "live"

LEMMA LostStep ==
  Types /\ Places /\ (\A o \in Obj \ Key : LostOK(o)) /\ [Next]_vars =>
    \A o \in Obj \ Key : LostOK(o)'
<1> SUFFICES ASSUME Types /\ Places, \A x \in Obj \ Key : LostOK(x),
                    [Next]_vars, NEW o \in Obj \ Key
             PROVE  LostOK(o)'
  OBVIOUS
<1> USE DEF LostOK, Types, Places, Place, PC, Inside
<1>1. ASSUME NEW t \in Thread, NEW m \in Method, NEW x \in Obj, Begin(t, m, x) PROVE LostOK(o)'
  BY <1>1 DEF Begin
<1>2. ASSUME NEW t \in Thread, Moves(t) PROVE LostOK(o)'
  <2>1. CASE On(t) # o
    BY <1>2, <2>1, Elsewhere DEF Untouched
  <2>2. CASE On(t) = o
    <3>1. CASE Checks(t)
      BY <2>2, <3>1 DEF Checks
    <3>2. CASE Passes(t)
      BY <2>2, <3>2 DEF Passes, Reads
    <3>3. CASE CipherPasses(t)
      BY <2>2, <3>3 DEF CipherPasses, Reads
    <3>4. CASE Returns(t)
      BY <2>2, <3>4 DEF Returns
    <3>5. CASE CloseReads(t)
      BY <2>2, <3>5 DEF CloseReads, Reads
    <3>6. CASE CloseForgets(t)
      BY <2>2, <3>6 DEF CloseForgets, Forgotten
    <3>7. CASE CloseFrees(t)
      BY <2>2, <3>7 DEF CloseFrees, Frees, Freed
    <3>8. CASE AuthReceives(t)
      BY <2>2, <3>8 DEF AuthReceives
    <3>9. CASE CredsReturns(t)
      BY <2>2, <3>9 DEF CredsReturns
    <3>10. CASE AuthFrees(t)
      BY <2>2, <3>10 DEF AuthFrees, Consumed, Frees, Freed
    <3>11. CASE AuthForgets(t)
      BY <2>2, <3>11 DEF AuthForgets
    <3>12. CASE FromPEM(t)
      BY <2>2, <3>12 DEF FromPEM
    <3>13. CASE KeyEnters(t)
      BY <2>2, <3>13 DEF KeyEnters, Reads, MonitorFree
    <3>14. CASE KeyReturns(t)
      BY <2>2, <3>14 DEF KeyReturns
    <3>15. CASE KeyFrees(t)
      BY <2>2, <3>15 DEF KeyFrees, Frees, Freed
    <3>16. CASE CredsThrows(t)
      BY <2>2, <3>16 DEF CredsThrows
    <3>17. CASE CredsCloses(t)
      BY <2>2, <3>17 DEF CredsCloses, Frees, Freed
    <3>18. ASSUME NEW n \in Fallible, FromPEMFails(t, n) PROVE LostOK(o)'
      BY <2>2, <3>18 DEF FromPEMFails
    <3>19. CASE AuthRefuses(t)
      BY <2>2, <3>19 DEF AuthRefuses
    <3> HIDE DEF LostOK, Types, Places, Place, PC, Inside
    <3> QED BY <1>2, <3>1, <3>2, <3>3, <3>4, <3>5, <3>6, <3>7, <3>8, <3>9, <3>10, <3>11, <3>12,
          <3>13, <3>14, <3>15, <3>16, <3>17, <3>18, <3>19 DEF Moves, Step
  <2> HIDE DEF LostOK, Types, Places, Place, PC, Inside
  <2> QED BY <2>1, <2>2
<1>3. CASE UNCHANGED vars
  BY <1>3 DEF vars
<1> HIDE DEF LostOK, Types, Places, Place, PC, Inside
<1> QED BY <1>1, <1>2, <1>3 DEF Next, Moves

(***************************************************************************)
(* The parts of a key.                                                     *)
(***************************************************************************)
PartsOK == parts = [k \in Key |-> IF memory[k] = "live" THEN Whole ELSE {}]

\* A failure gives back whatever was allocated before it.
LEMMA NothingKept ==
  ASSUME NEW n \in Fallible
  PROVE  {Order[i] : i \in 1..(n - 1)} \ GivenBack(n) = {}
<1>1. Order[1] = "struct" /\ Order[2] = "pem" /\ Order[3] = "ves" /\ Order[4] = "veskey"
  BY DEF Order
<1>2. CASE n = 1
  BY <1>2, <1>1 DEF GivenBack
<1>3. CASE n = 2
  BY <1>3, <1>1 DEF GivenBack
<1>4. CASE n = 3
  <2>1. \A i \in 1..2 : i = 1 \/ i = 2
    OBVIOUS
  <2> QED BY <1>4, <1>1, <2>1 DEF GivenBack, Whole
<1>5. CASE n = 5
  <2>1. \A i \in 1..4 : i = 1 \/ i = 2 \/ i = 3 \/ i = 4
    OBVIOUS
  <2> QED BY <1>5, <1>1, <2>1 DEF GivenBack, Whole
<1> QED BY <1>2, <1>3, <1>4, <1>5 DEF Fallible

LEMMA PartsStep ==
  Types /\ Places /\ (\A k \in Key : KeyOK(k)) /\ PartsOK /\ [Next]_vars => PartsOK'
<1> SUFFICES ASSUME Types /\ Places, \A k \in Key : KeyOK(k), PartsOK, [Next]_vars PROVE PartsOK'
  OBVIOUS
<1> USE DEF Types, PartsOK, Obj
<1>1. ASSUME NEW t \in Thread, NEW m \in Method, NEW o \in Obj, Begin(t, m, o) PROVE PartsOK'
  BY <1>1 DEF Begin
<1>2. ASSUME NEW t \in Thread, Step(t) PROVE PartsOK'
  <2>1. CASE Checks(t)
    BY <2>1 DEF Checks
  <2>2. CASE Passes(t)
    BY <2>2 DEF Passes
  <2>3. CASE CipherPasses(t)
    BY <2>3 DEF CipherPasses
  <2>4. CASE Returns(t)
    BY <2>4 DEF Returns
  <2>5. CASE CloseReads(t)
    BY <2>5 DEF CloseReads
  <2>6. CASE CloseForgets(t)
    BY <2>6 DEF CloseForgets
  <2>7. CASE CloseFrees(t)
    <3>1. \A k \in Key : memory'[k] = memory[k]
      BY <2>7 DEF CloseFrees, Frees
    <3> QED BY <2>7, <3>1 DEF CloseFrees
  <2>8. CASE AuthReceives(t)
    BY <2>8 DEF AuthReceives
  <2>9. CASE CredsReturns(t)
    BY <2>9 DEF CredsReturns
  <2>10. CASE AuthFrees(t)
    <3>1. \A k \in Key : memory'[k] = memory[k]
      <4>1. \A k \in Key : On(t) # k
        BY <2>10, NotAKey DEF AuthFrees
      <4> QED BY <2>10, <4>1 DEF AuthFrees, Consumed, Frees
    <3> QED BY <2>10, <3>1 DEF AuthFrees
  <2>11. CASE AuthForgets(t)
    BY <2>11 DEF AuthForgets
  <2>12. CASE FromPEM(t)
    BY <2>12 DEF FromPEM
  <2>13. CASE KeyEnters(t)
    BY <2>13 DEF KeyEnters
  <2>14. CASE KeyReturns(t)
    BY <2>14 DEF KeyReturns
  <2>15. CASE KeyFrees(t)
    <3>1. \A k \in Key : memory'[k] = IF k = On(t) THEN Freed(memory[k]) ELSE memory[k]
      BY <2>15 DEF KeyFrees, Frees
    <3> QED BY <2>15, <3>1 DEF KeyFrees, Freed
  <2> HIDE DEF Types, PartsOK, Obj
  <2> QED BY <1>2, <2>1, <2>2, <2>3, <2>4, <2>5, <2>6, <2>7, <2>8, <2>9, <2>10, <2>11, <2>12,
        <2>13, <2>14, <2>15 DEF Step
<1>3. ASSUME NEW t \in Thread, CredsThrows(t) PROVE PartsOK'
  BY <1>3 DEF CredsThrows
<1>4. ASSUME NEW t \in Thread, CredsCloses(t) PROVE PartsOK'
  <2>1. \A k \in Key : On(t) # k
    BY <1>4, NotAKey DEF CredsCloses
  <2>2. \A k \in Key : memory'[k] = memory[k]
    BY <1>4, <2>1 DEF CredsCloses, Frees
  <2> QED BY <1>4, <2>2 DEF CredsCloses
<1>5. ASSUME NEW t \in Thread, NEW n \in Fallible, FromPEMFails(t, n) PROVE PartsOK'
  <2>1. On(t) \in Key /\ memory[On(t)] = "none" /\ UNCHANGED memory
    BY <1>5 DEF FromPEMFails
  <2>2. parts' = [parts EXCEPT ![On(t)] = {}]
    BY <1>5, NothingKept DEF FromPEMFails
  <2> QED BY <2>1, <2>2
<1>6. CASE UNCHANGED vars
  BY <1>6 DEF vars
<1>7. ASSUME NEW t \in Thread, AuthRefuses(t) PROVE PartsOK'
  BY <1>7 DEF AuthRefuses
<1> HIDE DEF Types, PartsOK, Obj
<1> QED BY <1>1, <1>2, <1>3, <1>4, <1>5, <1>6, <1>7 DEF Next

(***************************************************************************)
(* The invariant, and the theorems.                                        *)
(***************************************************************************)
HandlesInv ==
  /\ Types /\ Places /\ PartsOK
  /\ \A k \in Key : KeyOK(k)
  /\ \A o \in Obj \ Key : OwnOK(o) /\ UseOK(o) /\ LostOK(o)

LEMMA InvInit == Init => HandlesInv
<1> SUFFICES ASSUME Init PROVE HandlesInv
  OBVIOUS
<1>1. Types /\ Places
  BY TypesInit
<1>2. PartsOK
  BY DEF Init, PartsOK, Obj
<1>3. ASSUME NEW k \in Key PROVE KeyOK(k)
  BY DEF Init, KeyOK, Obj
<1>4. ASSUME NEW o \in Obj \ Key PROVE OwnOK(o) /\ UseOK(o) /\ LostOK(o)
  BY DEF Init, OwnOK, UseOK, LostOK
<1> QED BY <1>1, <1>2, <1>3, <1>4 DEF HandlesInv

LEMMA InvStep == HandlesInv /\ [Next]_vars => HandlesInv'
<1> SUFFICES ASSUME HandlesInv, [Next]_vars PROVE HandlesInv'
  OBVIOUS
<1>1. Types' /\ Places'
  BY TypesStep, PlacesStep DEF HandlesInv
<1>2. PartsOK'
  BY PartsStep DEF HandlesInv
<1>3. \A k \in Key : KeyOK(k)'
  BY KeyStep DEF HandlesInv
<1>4. \A o \in Obj \ Key : OwnOK(o)'
  BY OwnStep DEF HandlesInv
<1>5. \A o \in Obj \ Key : UseOK(o)'
  BY UseStep DEF HandlesInv
<1>6. \A o \in Obj \ Key : LostOK(o)'
  BY LostStep DEF HandlesInv
<1> QED BY <1>1, <1>2, <1>3, <1>4, <1>5, <1>6 DEF HandlesInv

LEMMA Invariance == Spec => []HandlesInv
  BY InvInit, InvStep, PTL DEF Spec

\* Every variable stays within its type; no key keeps its VESkey.
THEOREM TypeCorrect == Spec => []TypeOK
<1>1. HandlesInv => TypeOK
  BY DEF HandlesInv, Types, PartsOK, TypeOK, PC, Whole
<1> QED BY <1>1, Invariance, PTL

\* Whoever shares a key, and in whatever order the one caller of any other object uses
\* and closes it, native code works on a live object.
THEOREM HandlesUsedWhileLive == Spec => []UsedWhileLive
<1>1. ASSUME HandlesInv, NEW t \in Thread, pc[t] \in Inside, arg[t],
             On(t) \in Key \/ Sole(On(t), Method), On(t) \notin misused
      PROVE  memory[On(t)] = "live"
  <2>1. Place(t) /\ On(t) \in Obj
    BY <1>1 DEF HandlesInv, Types, Places
  <2>2. CASE On(t) \in Key
    <3>1. pc[t] = "native"
      BY <1>1, <2>2, NotAKey DEF HandlesInv, Inside
    <3> QED BY <1>1, <2>2, <3>1 DEF HandlesInv, KeyOK
  <2>3. CASE On(t) \notin Key /\ Sole(On(t), Method)
    <3>1. OwnOK(On(t)) /\ UseOK(On(t)) /\ Sole(On(t), {"auth", "close"})
      BY <1>1, <2>1, <2>3, SoleEnds DEF HandlesInv
    <3>2. pc[t] # "thrown"
      BY <1>1, <2>1 DEF Place
    <3>3. CASE pc[t] = "native"
      BY <1>1, <2>3, <3>1, <3>3 DEF UseOK
    <3>4. CASE pc[t] \in {"creds", "received"}
      BY <1>1, <3>1, <3>4 DEF OwnOK
    <3> QED BY <1>1, <3>2, <3>3, <3>4 DEF Inside
  <2> QED BY <1>1, <2>2, <2>3
<1>2. HandlesInv => UsedWhileLive
  BY <1>1 DEF UsedWhileLive
<1> QED BY <1>2, Invariance, PTL

\* No key is freed twice, nor any object that one thread closes and no setCreds() spoils.
THEOREM HandlesFreedOnce == Spec => []FreedOnce
<1>1. HandlesInv => FreedOnce
  BY DEF HandlesInv, FreedOnce, KeyOK, OwnOK
<1> QED BY <1>1, Invariance, PTL

\* No live native object is forgotten, whoever calls whatever at the same time, but for a
\* flow whose auth() was passed a null.
THEOREM HandlesNotLost == Spec => []NothingLost
<1>1. HandlesInv => NothingLost
  BY DEF HandlesInv, NothingLost, KeyOK, LostOK
<1> QED BY <1>1, Invariance, PTL

\* A key is whole or nothing is left of it, whichever part could not be made.
THEOREM KeysWholeOrGone == Spec => []KeyWholeOrGone
<1>1. HandlesInv => KeyWholeOrGone
  BY DEF HandlesInv, KeyWholeOrGone, PartsOK
<1> QED BY <1>1, Invariance, PTL

=============================================================================
