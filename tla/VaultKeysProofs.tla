-------------------------- MODULE VaultKeysProofs --------------------------
(***************************************************************************)
(* Proofs about VaultKeys, for any number of Vaults and keys: whatever is  *)
(* lost or refused, and whichever Vaults come between the requests of a    *)
(* call, Vaults and server agree on the keys.                              *)
(***************************************************************************)
EXTENDS VaultKeys, TLAPS

InFlight == {"posted", "propagated"}

\* The calls of each sort of Vault, and the stages they go through.
Stages ==
  /\ \A c \in Anon : pc[c] \in {"closed", "idle", "free", "posted", "elevated"}
  /\ \A c \in Primary : pc[c] \in {"closed", "idle", "posted"}
  /\ \A c \in Child : pc[c] \in {"closed", "idle", "elevated", "propagated"}

\* What the server has for the vault of c.
Known(c, k) ==
  /\ c \in Anon => k = anonKey
  /\ c \in Primary => k \in current \cup lost
  /\ c \in Child => k \in current \cup lost \cup Found(c)

\* The key a Vault holds is one that the server has for it, in the middle of a call
\* as well, and createAnonymous() finds and leaves an empty slot.
SlotKnown ==
  /\ \A c \in Ctx : slot[c] # None => Known(c, slot[c].key)
  /\ \A c \in Anon : pc[c] \in {"free", "posted"} => slot[c] = None

\* Between a POST and its reply the server has the key that was posted.
PostedKnown ==
  /\ \A c \in Ctx : pc[c] \in InFlight => new[c].key \in made
  /\ \A c \in Ctx : pc[c] = "posted" => Known(c, new[c].key)

\* The active primary keys that were made before the key of a was shared carry it.
Recoverable(a) ==
  /\ a.shared # {} /\ a.shared \subseteq current \cup lost
  /\ a.had \subseteq made /\ current \cap a.had \subseteq a.shared

\* A user with an elevated session or an app key has an active primary key, and what
\* is being propagated can be recovered already.
Elevating ==
  /\ current \cup lost \subseteq made
  /\ current = {} => lost = {} /\ apps = {}
  /\ \A c \in Child : pc[c] = "elevated" => current # {}
  /\ \A c \in Child : pc[c] = "propagated" => current # {} /\ Recoverable(new[c])
  /\ \A a \in apps : Recoverable(a)

\* The inductive invariant.
KeysInv ==
  /\ TypeOK /\ Stages /\ SlotKnown /\ PostedKnown /\ Elevating
  /\ ReturnedOpens /\ SessionFollowsSlot

(***************************************************************************)
(* What the steps may do.                                                  *)
(***************************************************************************)
LEMMA Sorts ==
  /\ Anon \subseteq Ctx /\ Primary \subseteq Ctx /\ Child \subseteq Ctx
  /\ \A c \in Ctx : c \in Anon \/ c \in Primary \/ c \in Child
  /\ \A c \in Anon : c \notin Primary /\ c \notin Child
  /\ \A c \in Primary : c \notin Child
  /\ None \notin Key /\ None \notin Object
  /\ \A c \in Ctx, k \in Key : Obj(c, k) \in Object /\ Obj(c, k).key = k
  BY KeysAssumption DEF Ctx, Object, Obj

\* What unlock() works on is what the Vault has, or else a key the server has for it.
LEMMA CandidatesKnown ==
  ASSUME TypeOK, SlotKnown, NEW c \in Ctx, NEW o \in Candidates(c)
  PROVE  /\ o \in Object /\ o.key \in Key /\ Known(c, o.key)
         /\ slot[c] # None => o = slot[c]
<1>1. Found(c) \subseteq Key
  BY Sorts DEF Found, TypeOK, NewKey
<1>2. CASE slot[c] # None
  <2>1. o = slot[c] /\ o \in Object
    BY <1>2 DEF Candidates, TypeOK
  <2> QED BY <1>2, <2>1, Sorts DEF SlotKnown, Object
<1>3. CASE slot[c] = None
  <2>1. PICK k \in Found(c) : o = Obj(c, k)
    BY <1>3 DEF Candidates
  <2>2. o \in Object /\ o.key = k /\ k \in Key
    BY <1>1, <2>1, Sorts
  <2> QED BY <1>3, <2>1, <2>2, Sorts DEF Found, Known
<1> QED BY <1>2, <1>3

(***************************************************************************)
(* Types and stages.                                                       *)
(***************************************************************************)
LEMMA TypeStep == KeysInv /\ [Next]_vars => TypeOK'
<1> USE DEF At, Fresh, DropNew, NotKept, server
<1> SUFFICES ASSUME KeysInv, [Next]_vars PROVE TypeOK'
  OBVIOUS
<1>0. TypeOK /\ Stages /\ PostedKnown
  BY DEF KeysInv
<1>1. ASSUME NEW c \in Ctx, Open(c) \/ Lock(c) \/ Close(c) PROVE TypeOK'
  <2>1. CASE Open(c)
    BY <1>0, <2>1 DEF Open, TypeOK
  <2>2. CASE Lock(c)
    BY <1>0, <2>2 DEF Lock, TypeOK
  <2>3. CASE Close(c)
    BY <1>0, <2>3 DEF Close, TypeOK
  <2> QED BY <1>1, <2>1, <2>2, <2>3
<1>2. ASSUME NEW c \in Ctx, NEW p \in Primary, SubVault(p, c) PROVE TypeOK'
  <2>1. slot[p] \in Object \cup {None} /\ session[p] \in Key \cup {None}
    BY <1>0, Sorts DEF TypeOK
  <2> QED BY <1>0, <1>2, <2>1 DEF SubVault, TypeOK
<1>3. ASSUME NEW c \in Ctx, NEW o \in Candidates(c), Unlock(c, o) \/ UnlockFails(c, o)
      PROVE  TypeOK'
  <2>1. o \in Object /\ o.key \in Key
    BY <1>0, CandidatesKnown DEF KeysInv
  <2>2. CASE Unlock(c, o)
    BY <1>0, <2>1, <2>2 DEF Unlock, TypeOK
  <2>3. CASE UnlockFails(c, o)
    BY <1>0, <2>1, <2>3 DEF UnlockFails, TypeOK
  <2> QED BY <1>3, <2>2, <2>3
<1>4. ASSUME NEW c \in Ctx, AnonFree(c) PROVE TypeOK'
  BY <1>0, <1>4 DEF AnonFree, TypeOK
<1>5. ASSUME NEW c \in Ctx, NEW k \in Key, AnonPosted(c, k) PROVE TypeOK'
  <2>1. new' = [new EXCEPT ![c] = [key |-> k, shared |-> {}, had |-> made]]
    BY <1>5 DEF AnonPosted, Making
  <2>2. [key |-> k, shared |-> {}, had |-> made] \in NewKey
    BY <1>0 DEF NewKey, TypeOK
  <2> QED BY <1>0, <1>5, <2>1, <2>2 DEF AnonPosted, TypeOK
<1>6. ASSUME NEW c \in Ctx, NEW k \in Key, AnonNotPosted(c, k) PROVE TypeOK'
  BY <1>0, <1>6 DEF AnonNotPosted, TypeOK
<1>7. ASSUME NEW c \in Ctx, AnonReplyLost(c) PROVE TypeOK'
  BY <1>0, <1>7 DEF AnonReplyLost, TypeOK
<1>8. ASSUME NEW c \in Ctx, AnonCreated(c) PROVE TypeOK'
  <2>1. new[c].key \in Key /\ new[c].key \in made
    BY <1>0, <1>8 DEF AnonCreated, TypeOK, PostedKnown, InFlight
  <2>2. Obj(c, new[c].key) \in Object
    BY <2>1, Sorts
  <2> QED BY <1>0, <1>8, <2>1, <2>2 DEF AnonCreated, TypeOK
<1>9. ASSUME NEW c \in Ctx, NEW k \in Key, NEW old, PrimaryPosted(c, k, old) PROVE TypeOK'
  <2>1. new' = [new EXCEPT ![c] = [key |-> k, shared |-> {}, had |-> made]]
    BY <1>9 DEF PrimaryPosted, Making
  <2>2. [key |-> k, shared |-> {}, had |-> made] \in NewKey
    BY <1>0 DEF NewKey, TypeOK
  <2> QED BY <1>0, <1>9, <2>1, <2>2 DEF PrimaryPosted, TypeOK
<1>10. ASSUME NEW c \in Ctx, NEW k \in Key, PrimaryNotPosted(c, k) PROVE TypeOK'
  BY <1>0, <1>10 DEF PrimaryNotPosted, TypeOK
<1>11. ASSUME NEW c \in Ctx, PrimaryFails(c) PROVE TypeOK'
  BY <1>0, <1>11 DEF PrimaryFails, TypeOK
<1>12. ASSUME NEW c \in Ctx, PrimarySet(c) PROVE TypeOK'
  <2>1. new[c].key \in Key
    BY <1>0, <1>12 DEF PrimarySet, TypeOK, NewKey
  <2>2. Obj(c, new[c].key) \in Object
    BY <2>1, Sorts
  <2> QED BY <1>0, <1>12, <2>1, <2>2 DEF PrimarySet, KeyTaken, TypeOK
<1>13. ASSUME NEW c \in Ctx, Elevated(c) PROVE TypeOK'
  <2>1. slot[c] \in Object /\ slot[c].key \in Key
    BY <1>0, <1>13 DEF Elevated, TypeOK, Object
  <2> QED BY <1>0, <1>13, <2>1 DEF Elevated, TypeOK
<1>14. ASSUME NEW c \in Ctx, NEW k \in Key, Propagated(c, k) PROVE TypeOK'
  <2>1. [key |-> k, shared |-> ActiveKeys, had |-> made] \in NewKey
    BY <1>0 DEF NewKey, ActiveKeys, TypeOK
  <2> QED BY <1>0, <1>14, <2>1 DEF Propagated, Making, TypeOK
<1>15. ASSUME NEW c \in Ctx, AppFails(c) PROVE TypeOK'
  BY <1>0, <1>15 DEF AppFails, TypeOK
<1>16. ASSUME NEW c \in Ctx, AppPosted(c) PROVE TypeOK'
  <2>1. new[c] \in NewKey
    BY <1>0, <1>16 DEF AppPosted, TypeOK
  <2> QED BY <1>0, <1>16, <2>1 DEF AppPosted, TypeOK
<1>17. CASE UNCHANGED vars
  BY <1>0, <1>17 DEF vars, TypeOK
<1> QED BY <1>1, <1>2, <1>3, <1>4, <1>5, <1>6, <1>7, <1>8, <1>9, <1>10, <1>11, <1>12, <1>13,
       <1>14, <1>15, <1>16, <1>17 DEF Next

\* Each sort of Vault goes through the stages of its own call.
LEMMA StagesStep == KeysInv /\ [Next]_vars => Stages'
<1> SUFFICES ASSUME KeysInv, [Next]_vars PROVE Stages'
  OBVIOUS
<1>0. Stages /\ DOMAIN pc = Ctx /\ pc = [c \in Ctx |-> pc[c]]
  BY DEF KeysInv, TypeOK
<1>1. ASSUME NEW c \in Ctx, NEW there, pc' = [pc EXCEPT ![c] = there],
             c \in Anon => there \in {"closed", "idle", "free", "posted", "elevated"},
             c \in Primary => there \in {"closed", "idle", "posted"},
             c \in Child => there \in {"closed", "idle", "elevated", "propagated"}
      PROVE  Stages'
  BY <1>0, <1>1, Sorts DEF Stages
<1>2. CASE UNCHANGED pc
  BY <1>0, <1>2 DEF Stages
<1>3. ASSUME NEW c \in Ctx, Open(c) \/ Close(c) PROVE Stages'
  BY <1>1, <1>3 DEF Open, Close, At
<1>4. ASSUME NEW c \in Ctx, NEW p \in Primary, SubVault(p, c) PROVE Stages'
  BY <1>1, <1>4 DEF SubVault, At
<1>5. ASSUME NEW c \in Ctx, AnonFree(c) PROVE Stages'
  BY <1>1, <1>5, Sorts DEF AnonFree, At
<1>6. ASSUME NEW c \in Ctx, NEW k \in Key, AnonPosted(c, k) PROVE Stages'
  <2>1. c \in Anon
    BY <1>0, <1>6, Sorts DEF AnonPosted, At, Stages
  <2> QED BY <1>1, <1>6, <2>1, Sorts DEF AnonPosted, At
<1>7. ASSUME NEW c \in Ctx, NEW k \in Key, AnonNotPosted(c, k) PROVE Stages'
  BY <1>1, <1>7 DEF AnonNotPosted, At
<1>8. ASSUME NEW c \in Ctx, AnonReplyLost(c) \/ AnonCreated(c) PROVE Stages'
  BY <1>1, <1>8 DEF AnonReplyLost, AnonCreated, At
<1>9. ASSUME NEW c \in Ctx, NEW k \in Key, NEW old, PrimaryPosted(c, k, old) PROVE Stages'
  BY <1>1, <1>9, Sorts DEF PrimaryPosted, At
<1>10. ASSUME NEW c \in Ctx, PrimaryFails(c) \/ PrimarySet(c) PROVE Stages'
  BY <1>1, <1>10 DEF PrimaryFails, PrimarySet, At
<1>11. ASSUME NEW c \in Ctx, Elevated(c) PROVE Stages'
  BY <1>1, <1>11, Sorts DEF Elevated, At
<1>12. ASSUME NEW c \in Ctx, NEW k \in Key, Propagated(c, k) PROVE Stages'
  BY <1>1, <1>12, Sorts DEF Propagated, HasUser, At
<1>13. ASSUME NEW c \in Ctx, AppFails(c) \/ AppPosted(c) PROVE Stages'
  BY <1>1, <1>13 DEF AppFails, AppPosted, At
<1> QED BY <1>2, <1>3, <1>4, <1>5, <1>6, <1>7, <1>8, <1>9, <1>10, <1>11, <1>12, <1>13
       DEF Next, vars, Lock, Unlock, UnlockFails, PrimaryNotPosted

(***************************************************************************)
(* What Vaults hold and what the server has.                               *)
(***************************************************************************)
\* The server never forgets a key, and an anonymous vault keeps its own.
ServerGrows ==
  /\ anonKey # None => anonKey' = anonKey
  /\ current \cup lost \subseteq (current \cup lost)' /\ lost \subseteq lost'
  /\ apps \subseteq apps'

LEMMA MadeGrows == [Next]_vars => made \subseteq made'
  BY DEF Next, vars, At, Open, Lock, Close, SubVault, Unlock, UnlockFails, AnonFree, AnonPosted,
     AnonReplyLost, AnonCreated, AnonNotPosted, PrimaryPosted, PrimaryNotPosted, PrimaryFails,
     PrimarySet, Elevated, AppFails, Propagated, AppPosted, Fresh

LEMMA ServerStep == [Next]_vars => ServerGrows
<1> USE DEF ServerGrows, server
<1> SUFFICES ASSUME [Next]_vars, ~UNCHANGED server PROVE ServerGrows
  OBVIOUS
<1>1. ASSUME NEW c \in Ctx, NEW k \in Key, AnonPosted(c, k) PROVE ServerGrows
  BY <1>1 DEF AnonPosted
<1>2. ASSUME NEW c \in Ctx, NEW k \in Key, NEW old, PrimaryPosted(c, k, old)
      PROVE  ServerGrows
  BY <1>2 DEF PrimaryPosted
<1>3. ASSUME NEW c \in Ctx, AppPosted(c) PROVE ServerGrows
  BY <1>3 DEF AppPosted
<1> QED BY <1>1, <1>2, <1>3 DEF Next, vars, Open, Lock, Close, SubVault, Unlock, UnlockFails,
       AnonFree, AnonReplyLost, AnonCreated, AnonNotPosted, PrimaryNotPosted, PrimaryFails,
       PrimarySet, Elevated, AppFails, Propagated

\* What the server has for a vault it goes on having.
LEMMA KnownKept ==
  ASSUME ServerGrows, NEW c \in Ctx, NEW k \in Key, Known(c, k)
  PROVE  Known(c, k)'
<1>1. c \in Anon => k = anonKey'
  BY Sorts DEF Known, ServerGrows
<1>2. c \in Primary => k \in (current \cup lost)'
  BY DEF Known, ServerGrows
<1>3. ASSUME c \in Child PROVE k \in (current \cup lost \cup Found(c))'
  <2>1. Found(c) \subseteq Found(c)'
    BY <1>3, Sorts DEF Found, ServerGrows
  <2> QED BY <1>3, <2>1 DEF Known, ServerGrows
<1> QED BY <1>1, <1>2, <1>3 DEF Known

LEMMA SlotsKept ==
  ASSUME KeysInv, ServerGrows, NEW c \in Ctx, slot'[c] = slot[c], slot[c] # None
  PROVE  Known(c, slot[c].key)'
<1>1. slot[c].key \in Key /\ Known(c, slot[c].key)
  BY DEF KeysInv, TypeOK, Object, SlotKnown
<1> DEFINE k == slot[c].key
<1>2. Known(c, k)'
  BY <1>1, KnownKept
<1> QED BY <1>2 DEF Known

\* A step that sets one slot, to nothing or to a key the server has.
LEMMA SlotSet ==
  ASSUME KeysInv, [Next]_vars, NEW c \in Ctx, NEW o \in Object \cup {None},
         slot' = [slot EXCEPT ![c] = o], o # None => Known(c, o.key),
         pc'[c] \in {"closed", "idle"}, \A d \in Ctx : d # c => pc'[d] = pc[d]
  PROVE  SlotKnown'
<1>0. ServerGrows
  BY ServerStep
<1>1. slot'[c] = o /\ \A d \in Ctx : d # c => slot'[d] = slot[d]
  BY DEF KeysInv, TypeOK
<1>2. ASSUME NEW d \in Ctx, slot'[d] # None PROVE Known(d, slot[d].key)'
  <2>1. CASE d = c
    <3>1. o # None /\ o.key \in Key /\ Known(c, o.key)
      BY <1>1, <1>2, <2>1 DEF Object
    <3> DEFINE k == o.key
    <3>2. Known(c, k)'
      BY <1>0, <3>1, KnownKept
    <3> QED BY <1>1, <2>1, <3>2 DEF Known
  <2>2. CASE d # c
    <3>1. slot'[d] = slot[d] /\ slot[d] # None
      BY <1>1, <1>2, <2>2
    <3> QED BY <1>0, <3>1, SlotsKept
  <2> QED BY <2>1, <2>2
<1>3. \A d \in Anon : pc'[d] \in {"free", "posted"} => slot'[d] = None
  BY <1>1, Sorts DEF KeysInv, SlotKnown
<1> QED BY <1>2, <1>3 DEF SlotKnown

LEMMA SlotStep == KeysInv /\ [Next]_vars => SlotKnown'
<1> SUFFICES ASSUME KeysInv, [Next]_vars PROVE SlotKnown'
  OBVIOUS
<1>0. TypeOK /\ Stages /\ SlotKnown /\ PostedKnown /\ ServerGrows
  BY ServerStep DEF KeysInv
<1>1. ASSUME UNCHANGED slot,
             \A d \in Anon : pc'[d] \in {"free", "posted"} =>
               pc[d] \in {"free", "posted"} \/ slot[d] = None
      PROVE  SlotKnown'
  <2>1. \A d \in Ctx : slot'[d] # None => Known(d, slot[d].key)'
    BY <1>0, <1>1, SlotsKept
  <2> QED BY <1>0, <1>1, <2>1 DEF SlotKnown
<1>2. CASE UNCHANGED <<pc, slot>>
  BY <1>1, <1>2
<1>3. ASSUME NEW c \in Ctx, NEW there, UNCHANGED slot, pc' = [pc EXCEPT ![c] = there],
             there \notin {"free", "posted"} \/ c \notin Anon
      PROVE  SlotKnown'
  BY <1>0, <1>1, <1>3, Sorts DEF TypeOK
<1>4. ASSUME NEW c \in Ctx, Open(c) PROVE SlotKnown'
  BY <1>3, <1>4 DEF Open, At
<1>5. ASSUME NEW c \in Ctx, Close(c) PROVE SlotKnown'
  <2>1. /\ slot' = [slot EXCEPT ![c] = None] /\ pc'[c] = "closed"
        /\ \A d \in Ctx : d # c => pc'[d] = pc[d]
    BY <1>0, <1>5 DEF Close, At, TypeOK
  <2> QED BY <2>1, SlotSet
<1>6. ASSUME NEW c \in Ctx, NEW p \in Primary, SubVault(p, c) PROVE SlotKnown'
  <2>1. /\ slot' = [slot EXCEPT ![c] = slot[p]] /\ pc'[c] = "idle" /\ c \in Child
        /\ \A d \in Ctx : d # c => pc'[d] = pc[d]
    BY <1>0, <1>6 DEF SubVault, At, TypeOK
  <2>2. slot[p] \in Object \cup {None} /\ (slot[p] # None => Known(c, slot[p].key))
    BY <1>0, <2>1, Sorts DEF TypeOK, SlotKnown, Known
  <2> QED BY <2>1, <2>2, SlotSet
<1>7. ASSUME NEW c \in Ctx, NEW o \in Candidates(c), Unlock(c, o) \/ UnlockFails(c, o)
      PROVE  SlotKnown'
  <2>1. slot' = [slot EXCEPT ![c] = o] /\ pc' = pc /\ pc[c] = "idle"
    BY <1>7 DEF Unlock, UnlockFails
  <2>2. o \in Object /\ Known(c, o.key)
    BY <1>0, CandidatesKnown
  <2> QED BY <2>1, <2>2, SlotSet
<1>8. ASSUME NEW c \in Ctx, AnonFree(c) PROVE SlotKnown'
  <2>1. slot' = slot /\ slot[c] = None /\ \A d \in Ctx : d # c => pc'[d] = pc[d]
    BY <1>0, <1>8 DEF AnonFree, At, TypeOK
  <2> QED BY <1>1, <2>1, Sorts
<1>9. ASSUME NEW c \in Ctx, NEW k \in Key, AnonPosted(c, k) PROVE SlotKnown'
  <2>1. slot' = slot /\ pc[c] = "free" /\ \A d \in Ctx : d # c => pc'[d] = pc[d]
    BY <1>0, <1>9 DEF AnonPosted, At, TypeOK
  <2> QED BY <1>1, <2>1, Sorts
<1>10. ASSUME NEW c \in Ctx, NEW k \in Key, AnonNotPosted(c, k) PROVE SlotKnown'
  BY <1>3, <1>10 DEF AnonNotPosted, NotKept, At
<1>11. ASSUME NEW c \in Ctx, AnonReplyLost(c) PROVE SlotKnown'
  BY <1>3, <1>11 DEF AnonReplyLost, NotKept, At
<1>12. ASSUME NEW c \in Ctx, AnonCreated(c) \/ PrimarySet(c) PROVE SlotKnown'
  <2>1. pc[c] = "posted" /\ pc' = [pc EXCEPT ![c] = "idle"]
    BY <1>12 DEF AnonCreated, PrimarySet, At
  <2>2. slot' = [slot EXCEPT ![c] = Obj(c, new[c].key)]
    BY <1>12 DEF AnonCreated, PrimarySet, KeyTaken
  <2>3. new[c].key \in Key /\ Known(c, new[c].key)
    BY <1>0, <2>1 DEF TypeOK, NewKey, PostedKnown
  <2>4. /\ Obj(c, new[c].key) \in Object /\ Known(c, Obj(c, new[c].key).key)
        /\ pc'[c] = "idle" /\ \A d \in Ctx : d # c => pc'[d] = pc[d]
    BY <1>0, <2>1, <2>3, Sorts DEF TypeOK
  <2> QED BY <2>2, <2>4, SlotSet
<1>13. ASSUME NEW c \in Ctx, NEW k \in Key, NEW old, PrimaryPosted(c, k, old) PROVE SlotKnown'
  BY <1>3, <1>13, Sorts DEF PrimaryPosted, At
<1>14. ASSUME NEW c \in Ctx, PrimaryFails(c) PROVE SlotKnown'
  BY <1>3, <1>14 DEF PrimaryFails, At
<1>15. ASSUME NEW c \in Ctx, Elevated(c) PROVE SlotKnown'
  BY <1>3, <1>15 DEF Elevated, At
<1>16. ASSUME NEW c \in Ctx, NEW k \in Key, Propagated(c, k) PROVE SlotKnown'
  BY <1>3, <1>16 DEF Propagated, At
<1>17. ASSUME NEW c \in Ctx, AppFails(c) \/ AppPosted(c) PROVE SlotKnown'
  BY <1>3, <1>17 DEF AppFails, AppPosted, At
<1> QED BY <1>2, <1>4, <1>5, <1>6, <1>7, <1>8, <1>9, <1>10, <1>11, <1>12, <1>13, <1>14,
       <1>15, <1>16, <1>17 DEF Next, vars, Lock, PrimaryNotPosted

\* A call that has posted goes on to wait for its reply, or has just posted.
LEMMA PostedStep == KeysInv /\ [Next]_vars => PostedKnown'
<1> SUFFICES ASSUME KeysInv, [Next]_vars PROVE PostedKnown'
  OBVIOUS
<1>0. TypeOK /\ Stages /\ PostedKnown /\ ServerGrows /\ made \subseteq made'
  BY MadeGrows, ServerStep DEF KeysInv
<1>1. ASSUME NEW d \in Ctx, pc[d] \in InFlight, new'[d] = new[d]
      PROVE  /\ new'[d].key \in made'
             /\ pc[d] = "posted" => Known(d, new[d].key)'
  <2>1. new[d].key \in made /\ new[d].key \in Key
    BY <1>0, <1>1 DEF PostedKnown, TypeOK, InFlight, NewKey
  <2>2. ASSUME pc[d] = "posted" PROVE Known(d, new[d].key)'
    <3>1. PICK k \in Key : k = new[d].key /\ Known(d, k)
      BY <1>0, <2>1, <2>2 DEF PostedKnown
    <3>2. Known(d, k)'
      BY <1>0, <3>1, KnownKept
    <3> QED BY <1>1, <3>1, <3>2 DEF Known
  <2> QED BY <1>0, <1>1, <2>1, <2>2
<1>2. ASSUME \A d \in Ctx : pc'[d] \in InFlight => pc'[d] = pc[d] /\ new'[d] = new[d]
      PROVE  PostedKnown'
  BY <1>1, <1>2 DEF PostedKnown, InFlight
<1>3. CASE UNCHANGED <<pc, new>>
  BY <1>2, <1>3
<1>4. ASSUME NEW c \in Ctx, NEW there, there \notin InFlight, pc' = [pc EXCEPT ![c] = there],
             new' = new \/ new' = [new EXCEPT ![c] = None]
      PROVE  PostedKnown'
  BY <1>0, <1>2, <1>4 DEF TypeOK
<1>5. ASSUME NEW c \in Ctx, Open(c) \/ Close(c) \/ AnonFree(c) \/ Elevated(c) PROVE PostedKnown'
  BY <1>4, <1>5 DEF Open, Close, AnonFree, Elevated, At, InFlight
<1>6. ASSUME NEW c \in Ctx, NEW p \in Primary, SubVault(p, c) PROVE PostedKnown'
  BY <1>4, <1>6 DEF SubVault, At, InFlight
<1>7. ASSUME NEW c \in Ctx, NEW k \in Key, AnonNotPosted(c, k) PROVE PostedKnown'
  BY <1>4, <1>7 DEF AnonNotPosted, At, InFlight
<1>8. ASSUME NEW c \in Ctx, AnonReplyLost(c) \/ AnonCreated(c) \/ PrimaryFails(c)
               \/ PrimarySet(c) \/ AppFails(c) \/ AppPosted(c)
      PROVE  PostedKnown'
  BY <1>4, <1>8 DEF AnonReplyLost, AnonCreated, PrimaryFails, PrimarySet, AppFails, AppPosted,
     At, DropNew, InFlight
<1>9. ASSUME NEW c \in Ctx, NEW k \in made', NEW there \in InFlight, NEW shared,
             pc' = [pc EXCEPT ![c] = there],
             new' = [new EXCEPT ![c] = [key |-> k, shared |-> shared, had |-> made]],
             there = "posted" => Known(c, k)'
      PROVE  PostedKnown'
  <2>1. new'[c].key = k /\ pc'[c] = there
    BY <1>0, <1>9 DEF TypeOK
  <2>2. \A d \in Ctx : d # c => pc'[d] = pc[d] /\ new'[d] = new[d]
    BY <1>0, <1>9 DEF TypeOK
  <2>3. there = "posted" => Known(c, new[c].key)'
    BY <1>9, <2>1 DEF Known
  <2>4. \A d \in Ctx : d # c /\ pc'[d] \in InFlight =>
          /\ new'[d].key \in made'
          /\ pc'[d] = "posted" => Known(d, new[d].key)'
    BY <1>1, <2>2
  <2>5. \A d \in Ctx : pc'[d] \in InFlight => new'[d].key \in made'
    BY <2>1, <2>4
  <2>6. \A d \in Ctx : pc'[d] = "posted" => Known(d, new[d].key)'
    BY <2>1, <2>3, <2>4 DEF InFlight
  <2> QED BY <2>5, <2>6 DEF PostedKnown
<1>10. ASSUME NEW c \in Ctx, NEW k \in Key, AnonPosted(c, k) PROVE PostedKnown'
  <2>1. c \in Anon /\ anonKey' = k /\ k \in made'
    BY <1>0, <1>10, Sorts DEF AnonPosted, At, Stages, Fresh
  <2>2. Known(c, k)'
    BY <2>1, Sorts DEF Known
  <2> QED BY <1>9, <1>10, <2>1, <2>2 DEF AnonPosted, Making, At, InFlight
<1>11. ASSUME NEW c \in Ctx, NEW k \in Key, NEW old, PrimaryPosted(c, k, old)
       PROVE  PostedKnown'
  <2>1. c \in Primary /\ k \in current' /\ k \in made'
    BY <1>11 DEF PrimaryPosted, Fresh
  <2>2. Known(c, k)'
    BY <2>1, Sorts DEF Known
  <2> QED BY <1>9, <1>11, <2>1, <2>2 DEF PrimaryPosted, Making, At, InFlight
<1>12. ASSUME NEW c \in Ctx, NEW k \in Key, Propagated(c, k) PROVE PostedKnown'
  BY <1>9, <1>12 DEF Propagated, Making, Fresh, At, InFlight
<1> QED BY <1>3, <1>5, <1>6, <1>7, <1>8, <1>10, <1>11, <1>12
       DEF Next, vars, Lock, Unlock, UnlockFails, PrimaryNotPosted

\* What createAnonymous() returns is the key of the vault.
LEMMA ReturnedStep == KeysInv /\ [Next]_vars => ReturnedOpens'
<1> SUFFICES ASSUME KeysInv, [Next]_vars PROVE ReturnedOpens'
  OBVIOUS
<1>0. /\ TypeOK /\ Stages /\ PostedKnown /\ ReturnedOpens
      /\ anonKey' = anonKey \/ anonKey = None
  BY ServerStep DEF KeysInv, ServerGrows
<1>1. CASE UNCHANGED returned
  <2>1. \A k \in returned : anonKey # None
    BY <1>0, Sorts DEF TypeOK, ReturnedOpens
  <2> QED BY <1>0, <1>1, <2>1 DEF ReturnedOpens
<1>2. ASSUME NEW c \in Ctx, AnonCreated(c) PROVE ReturnedOpens'
  <2>1. c \in Anon /\ pc[c] = "posted" /\ returned' = returned \cup {new[c].key}
          /\ anonKey' = anonKey
    BY <1>2 DEF AnonCreated, At, server
  <2>2. new[c].key = anonKey
    BY <1>0, <2>1, Sorts DEF PostedKnown, Known
  <2> QED BY <1>0, <2>1, <2>2 DEF ReturnedOpens
<1> QED BY <1>1, <1>2 DEF Next, vars, Open, Lock, Close, SubVault, Unlock, UnlockFails, AnonFree,
       AnonPosted, AnonReplyLost, AnonNotPosted, NotKept, PrimaryPosted, PrimaryNotPosted,
       PrimaryFails, PrimarySet, Elevated, AppFails, Propagated, AppPosted

(***************************************************************************)
(* Sessions, and who can recover an app's key.                             *)
(***************************************************************************)
\* A token changes together with the key it was issued for.
LEMMA SessionStep == KeysInv /\ [Next]_vars => SessionFollowsSlot'
<1> SUFFICES ASSUME KeysInv, [Next]_vars PROVE SessionFollowsSlot'
  OBVIOUS
<1>0. TypeOK /\ Stages /\ SlotKnown /\ SessionFollowsSlot
  BY DEF KeysInv
<1>1. CASE UNCHANGED <<slot, session>>
  BY <1>0, <1>1 DEF SessionFollowsSlot
<1>2. ASSUME NEW c \in Ctx, NEW o, NEW k,
             slot' = [slot EXCEPT ![c] = o], session' = [session EXCEPT ![c] = k],
             k # None => o # None /\ o.key = k
      PROVE  SessionFollowsSlot'
  BY <1>0, <1>2 DEF TypeOK, SessionFollowsSlot
<1>3. ASSUME NEW c \in Ctx, NEW o, slot' = [slot EXCEPT ![c] = o], UNCHANGED session,
             slot[c] = None
      PROVE  SessionFollowsSlot'
  BY <1>0, <1>3 DEF TypeOK, SessionFollowsSlot
<1>4. ASSUME NEW c \in Ctx, Close(c) PROVE SessionFollowsSlot'
  BY <1>2, <1>4 DEF Close
<1>5. ASSUME NEW c \in Ctx, NEW p \in Primary, SubVault(p, c) PROVE SessionFollowsSlot'
  BY <1>0, <1>2, <1>5, Sorts DEF SubVault, SessionFollowsSlot
<1>6. ASSUME NEW c \in Ctx, NEW o \in Candidates(c), Unlock(c, o) PROVE SessionFollowsSlot'
  <2>1. o \in Object
    BY <1>0, CandidatesKnown
  <2> QED BY <1>2, <1>6, <2>1, Sorts DEF Unlock
<1>7. ASSUME NEW c \in Ctx, NEW o \in Candidates(c), UnlockFails(c, o)
      PROVE  SessionFollowsSlot'
  BY <1>3, <1>7 DEF UnlockFails
<1>8. ASSUME NEW c \in Ctx, AnonCreated(c) PROVE SessionFollowsSlot'
  <2>1. slot[c] = None
    BY <1>0, <1>8 DEF AnonCreated, At, SlotKnown
  <2> QED BY <1>3, <1>8, <2>1 DEF AnonCreated
<1>9. ASSUME NEW c \in Ctx, PrimarySet(c) PROVE SessionFollowsSlot'
  <2>1. new[c].key \in Key
    BY <1>0, <1>9 DEF PrimarySet, At, TypeOK, NewKey
  <2>2. Obj(c, new[c].key) # None /\ Obj(c, new[c].key).key = new[c].key
    BY <2>1, Sorts
  <2> QED BY <1>2, <1>9, <2>2 DEF PrimarySet, KeyTaken
<1>10. ASSUME NEW c \in Ctx, Elevated(c) PROVE SessionFollowsSlot'
  <2>1. slot[c] \in Object
    BY <1>0, <1>10 DEF Elevated, TypeOK
  <2>2. session' = [session EXCEPT ![c] = slot[c].key] /\ slot' = slot
    BY <1>10 DEF Elevated
  <2> QED BY <1>0, <2>1, <2>2, Sorts DEF SessionFollowsSlot, TypeOK
<1> QED BY <1>1, <1>4, <1>5, <1>6, <1>7, <1>8, <1>9, <1>10 DEF Next, vars, Open, Lock, AnonFree,
       AnonPosted, AnonReplyLost, AnonNotPosted, NotKept, PrimaryPosted, PrimaryNotPosted,
       PrimaryFails, AppFails, Propagated, AppPosted

\* The user's keys only grow, and one that becomes active is new.
LEMMA KeysGrow ==
  ASSUME KeysInv, [Next]_vars
  PROVE  /\ current \cup lost \subseteq (current \cup lost)'
         /\ (current \cup lost)' \subseteq made' /\ made \subseteq made'
         /\ current' \cap made \subseteq current
         /\ current' = {} => current = {} /\ lost' = lost
<1>0. Elevating /\ made \subseteq made'
  BY MadeGrows DEF KeysInv
<1>1. CASE UNCHANGED <<current, lost>>
  BY <1>0, <1>1 DEF Elevating
<1>2. ASSUME NEW c \in Ctx, NEW k \in Key, NEW old, PrimaryPosted(c, k, old)
      PROVE  /\ current \cup lost \subseteq (current \cup lost)'
             /\ (current \cup lost)' \subseteq made'
             /\ current' \cap made \subseteq current /\ current' # {}
  BY <1>0, <1>2 DEF PrimaryPosted, Fresh, Elevating
<1> QED BY <1>0, <1>1, <1>2 DEF Next, vars, server, Open, Lock, Close, SubVault, Unlock,
       UnlockFails, AnonFree, AnonPosted, AnonReplyLost, AnonCreated, AnonNotPosted,
       PrimaryNotPosted, PrimaryFails, PrimarySet, Elevated, AppFails, Propagated, AppPosted

\* A rotation takes a key from nobody who could recover it: what it makes active was
\* not there when the key was shared.
LEMMA RecoverableKept ==
  ASSUME KeysInv, [Next]_vars, NEW a, Recoverable(a)
  PROVE  /\ a.shared # {} /\ a.shared \subseteq (current \cup lost)'
         /\ a.had \subseteq made' /\ current' \cap a.had \subseteq a.shared
BY KeysGrow DEF Recoverable

LEMMA ElevatingStep == KeysInv /\ [Next]_vars => Elevating'
<1> SUFFICES ASSUME KeysInv, [Next]_vars PROVE Elevating'
  OBVIOUS
<1>0. TypeOK /\ Stages /\ SlotKnown /\ Elevating
  BY DEF KeysInv
<1>1. /\ (current \cup lost)' \subseteq made'
      /\ current' = {} => current = {} /\ lost' = {}
  BY <1>0, KeysGrow DEF Elevating
\* The Vaults that the step does not concern, and what is shared already.
<1>2. ASSUME NEW d \in Child, pc'[d] = pc[d], new'[d] = new[d]
      PROVE  /\ pc'[d] = "elevated" => current' # {}
             /\ pc'[d] = "propagated" => current' # {} /\ Recoverable(new[d])'
  BY <1>0, <1>1, <1>2, RecoverableKept DEF Elevating, Recoverable
<1>3. ASSUME apps' = apps
      PROVE  /\ current' = {} => apps' = {}
             /\ \A a \in apps' : Recoverable(a)'
  BY <1>0, <1>1, <1>3, RecoverableKept DEF Elevating, Recoverable
<1>4. ASSUME NEW c \in Ctx, c \in Child => pc'[c] \in {"closed", "idle"},
             \A d \in Ctx : d # c => pc'[d] = pc[d] /\ new'[d] = new[d], apps' = apps
      PROVE  Elevating'
  <2>1. \A d \in Child : d # c => /\ pc'[d] = "elevated" => current' # {}
                                  /\ pc'[d] = "propagated" => current' # {} /\ Recoverable(new[d])'
    BY <1>2, <1>4, Sorts
  <2> QED BY <1>1, <1>3, <1>4, <2>1 DEF Elevating
<1>5. CASE UNCHANGED <<pc, new, apps>>
  BY <1>1, <1>2, <1>3, <1>5 DEF Elevating
<1>6. ASSUME NEW c \in Ctx, Open(c) \/ Close(c) \/ AppFails(c) PROVE Elevating'
  BY <1>0, <1>4, <1>6 DEF Open, Close, AppFails, At, DropNew, TypeOK, server
<1>7. ASSUME NEW c \in Ctx, AnonFree(c) \/ AnonReplyLost(c) \/ AnonCreated(c)
               \/ PrimaryFails(c) \/ PrimarySet(c)
      PROVE  Elevating'
  BY <1>0, <1>4, <1>7, Sorts DEF AnonFree, AnonReplyLost, AnonCreated, PrimaryFails, PrimarySet,
     At, DropNew, TypeOK, server
<1>8. ASSUME NEW c \in Ctx, NEW p \in Primary, SubVault(p, c) PROVE Elevating'
  BY <1>0, <1>4, <1>8 DEF SubVault, At, TypeOK, server
<1>9. ASSUME NEW c \in Ctx, NEW k \in Key, AnonPosted(c, k) \/ AnonNotPosted(c, k)
      PROVE  Elevating'
  <2>1. c \notin Child
    BY <1>0, <1>9, Sorts DEF AnonPosted, AnonNotPosted, At, Stages
  <2> QED BY <1>0, <1>4, <1>9, <2>1 DEF AnonPosted, AnonNotPosted, Making, At, TypeOK, server
<1>10. ASSUME NEW c \in Ctx, NEW k \in Key, NEW old, PrimaryPosted(c, k, old) PROVE Elevating'
  BY <1>0, <1>4, <1>10, Sorts DEF PrimaryPosted, Making, At, TypeOK
\* An app vault's slot holds a key of the user or of the app vault.
<1>11. ASSUME NEW c \in Ctx, Elevated(c) PROVE Elevating'
  <2>1. /\ slot[c] # None /\ UNCHANGED <<current, lost, apps, new>>
        /\ pc' = [pc EXCEPT ![c] = "elevated"]
    BY <1>11 DEF Elevated, At, server
  <2>2. c \in Child => current # {}
    BY <1>0, <2>1, Sorts DEF SlotKnown, Known, Found, Elevating
  <2>3. \A d \in Child : d # c => /\ pc'[d] = "elevated" => current' # {}
                                  /\ pc'[d] = "propagated" => current' # {} /\ Recoverable(new[d])'
    BY <1>0, <1>2, <2>1, Sorts DEF TypeOK
  <2>4. pc'[c] = "elevated"
    BY <1>0, <2>1 DEF TypeOK
  <2> QED BY <1>1, <1>3, <2>1, <2>2, <2>3, <2>4 DEF Elevating
<1>12. ASSUME NEW c \in Ctx, NEW k \in Key, Propagated(c, k) PROVE Elevating'
  <2> DEFINE n == [key |-> k, shared |-> current, had |-> made]
  <2>1. /\ c \in Child /\ pc[c] = "elevated" /\ pc' = [pc EXCEPT ![c] = "propagated"]
        /\ new' = [new EXCEPT ![c] = n] /\ UNCHANGED <<current, lost, apps>>
    BY <1>12 DEF Propagated, HasUser, Making, At, ActiveKeys, server
  <2>2. new'[c] = n /\ pc'[c] = "propagated"
    BY <1>0, <2>1 DEF TypeOK
  <2>3. current # {} /\ made \subseteq made'
    BY <1>0, <2>1, KeysGrow DEF Elevating
  <2>4. Recoverable(new[c])'
    BY <2>1, <2>2, <2>3 DEF Recoverable
  <2>5. \A d \in Child : d # c => /\ pc'[d] = "elevated" => current' # {}
                                  /\ pc'[d] = "propagated" => current' # {} /\ Recoverable(new[d])'
    BY <1>0, <1>2, <2>1, Sorts DEF TypeOK
  <2> QED BY <1>1, <1>3, <2>1, <2>2, <2>3, <2>4, <2>5 DEF Elevating
\* What is posted is what has been propagated.
<1>13. ASSUME NEW c \in Ctx, AppPosted(c) PROVE Elevating'
  <2>1. /\ pc[c] = "propagated" /\ pc' = [pc EXCEPT ![c] = "idle"]
        /\ new' = [new EXCEPT ![c] = None] /\ apps' = apps \cup {new[c]}
        /\ UNCHANGED <<current, lost>>
    BY <1>13 DEF AppPosted, At, DropNew
  <2>2. current # {} /\ Recoverable(new[c])
    BY <1>0, <2>1, Sorts DEF Stages, Elevating
  <2>3. \A a \in apps' : Recoverable(a)'
    BY <1>0, <2>1, <2>2, RecoverableKept DEF Elevating, Recoverable
  <2>4. \A d \in Child : d # c => /\ pc'[d] = "elevated" => current' # {}
                                  /\ pc'[d] = "propagated" => current' # {} /\ Recoverable(new[d])'
    BY <1>0, <1>2, <2>1, Sorts DEF TypeOK
  <2>5. pc'[c] = "idle"
    BY <1>0, <2>1 DEF TypeOK
  <2> QED BY <1>1, <2>1, <2>2, <2>3, <2>4, <2>5 DEF Elevating
<1> QED BY <1>5, <1>6, <1>7, <1>8, <1>9, <1>10, <1>11, <1>12, <1>13
       DEF Next, vars, server, Lock, Unlock, UnlockFails, PrimaryNotPosted

(***************************************************************************)
(* The invariant, and the theorems.                                        *)
(***************************************************************************)
LEMMA InvInit == Init => KeysInv
<1> SUFFICES ASSUME Init PROVE KeysInv
  OBVIOUS
<1>1. TypeOK
  BY DEF Init, TypeOK
<1>2. Stages /\ SlotKnown /\ PostedKnown /\ Elevating
  BY Sorts DEF Init, Stages, SlotKnown, PostedKnown, Elevating, InFlight
<1>3. ReturnedOpens /\ SessionFollowsSlot
  BY DEF Init, ReturnedOpens, SessionFollowsSlot
<1> QED BY <1>1, <1>2, <1>3 DEF KeysInv

LEMMA Invariance == Spec => []KeysInv
<1>1. KeysInv /\ [Next]_vars => KeysInv'
  BY TypeStep, StagesStep, SlotStep, PostedStep, ElevatingStep, ReturnedStep, SessionStep
     DEF KeysInv
<1> QED BY <1>1, InvInit, PTL DEF Spec

\* Every variable keeps its type, and a key is being made exactly within a call.
THEOREM TypeCorrect == Spec => []TypeOK
<1>1. KeysInv => TypeOK
  BY DEF KeysInv
<1> QED BY <1>1, Invariance, PTL

\* A VESkey that createAnonymous() returned opens the anonymous vault, however many
\* apps race for its name and whatever requests and replies are lost (jni_vault.c).
THEOREM AnonymousVaultsOpen == Spec => []ReturnedOpens
<1>1. KeysInv => ReturnedOpens
  BY DEF KeysInv
<1> QED BY <1>1, Invariance, PTL

\* Between calls a Vault holds no key that the server does not know (setVESkey,
\* createAnonymous and unlock on every path through them).
THEOREM SlotsArePosted == Spec => []SlotPosted
<1>1. KeysInv => SlotPosted
  BY DEF KeysInv, SlotKnown, Known, SlotPosted, Ctx
<1> QED BY <1>1, Invariance, PTL

\* A Vault's session token was issued for the key it holds, also after a rotation that
\* failed half-way.
THEOREM SessionsFollowSlots == Spec => []SessionFollowsSlot
<1>1. KeysInv => SessionFollowsSlot
  BY DEF KeysInv
<1> QED BY <1>1, Invariance, PTL

\* The user can recover every app key with each of the active primary keys that there
\* were when setVESkey() shared it, or else with keys that are demoted since.
THEOREM AppsAreRecoverable == Spec => []AppRecoverable
<1>1. KeysInv => AppRecoverable
  BY DEF KeysInv, Elevating, Recoverable, AppRecoverable
<1> QED BY <1>1, Invariance, PTL
=============================================================================
