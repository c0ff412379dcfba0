----------------------------- MODULE VaultKeys -----------------------------
(***************************************************************************)
(* How vault keys come to be, between Vaults and the VES server            *)
(* (Vault.java, jni_vault.c).                                              *)
(*                                                                         *)
(* createAnonymous() makes the key of a vault that belongs to no user, by  *)
(* a lookup and a POST; setVESkey(veskey, lostId, passwd) makes or rotates *)
(* a user's primary key; setVESkey(veskey) of an app vault elevates the    *)
(* session with the key the Vault has, from subVault() a primary one,      *)
(* shares the new app key with the user's active primary keys and posts    *)
(* it.  Each is several requests, with other Vaults between them, and each *)
(* request or its reply may fail.                                          *)
(*                                                                         *)
(* There is one anonymous name, one user and one app vault.  The server is *)
(* what these calls rely on: it refuses a POST to an anonymous name that   *)
(* is taken, and demotes a lost key with the POST that replaces it.  A key *)
(* stands for its VESkey and id too.  Counts of references are in          *)
(* NativeRefs, the lock that keeps one Vault's calls apart in VaultContext.*)
(***************************************************************************)
EXTENDS Naturals, FiniteSets

CONSTANTS
  Anon,     \* Vaults opened on the anonymous vault's URI
  Primary,  \* Vaults opened on the user's ves:////email
  Child,    \* Vaults of the user's app vault, opened alone or with subVault()
  Key,      \* keys; bound: each call that makes one takes a new one
  None

Ctx == Anon \cup Primary \cup Child

ASSUME KeysAssumption ==
  /\ Anon \cap Primary = {} /\ Anon \cap Child = {} /\ Primary \cap Child = {}
  /\ None \notin Key /\ None \notin [at : Ctx, key : Key]

VARIABLES
  anonKey,        \* server: the key of the anonymous vault
  current, lost,  \* server: the user's primary keys, active and demoted
  apps,           \* server: the app vault's keys, and whom each was shared with
  pc,             \* where the call of a Vault stands
  slot,           \* libVES.vaultKey, an object other Vaults may share
  session,        \* the key that issued the session token
  new,            \* the key a call is making, whom it was shared with, and when
  unlocked,       \* key objects that are unlocked
  made,           \* keys made so far
  returned        \* VESkeys that createAnonymous() returned

server == <<anonKey, current, lost, apps>>
vars == <<server, pc, slot, session, new, unlocked, made, returned>>

\* A key object: the Vault that made or fetched it, and its key.
Object == [at : Ctx, key : Key]
Obj(c, k) == [at |-> c, key |-> k]

Init ==
  /\ anonKey = None /\ current = {} /\ lost = {} /\ apps = {}
  /\ pc = [c \in Ctx |-> "closed"]
  /\ slot = [c \in Ctx |-> None] /\ session = [c \in Ctx |-> None]
  /\ new = [c \in Ctx |-> None]
  /\ unlocked = {} /\ made = {} /\ returned = {}

At(c, here, there) == pc[c] = here /\ pc' = [pc EXCEPT ![c] = there]
Fresh(k) == k \notin made /\ made' = made \cup {k}

\* History: had is what keys there were when this one was shared.
Making(c, k, shared) ==
  new' = [new EXCEPT ![c] = [key |-> k, shared |-> shared, had |-> made]]

\* Slip: what a call was making is still there after it.
KeepNew(c) == UNCHANGED new

DropNew(c) == new' = [new EXCEPT ![c] = None]

(***************************************************************************)
(* Vaults are opened, unlocked, locked and closed.                         *)
(***************************************************************************)
Open(c) ==
  /\ At(c, "closed", "idle")
  /\ UNCHANGED <<server, slot, session, new, unlocked, made, returned>>

\* libVES_child(): the parent's key object is shared, its token copied.
SubVault(p, c) ==
  /\ p \in Primary /\ c \in Child /\ pc[p] = "idle" /\ At(c, "closed", "idle")
  /\ slot' = [slot EXCEPT ![c] = slot[p]]
  /\ session' = [session EXCEPT ![c] = session[p]]
  /\ UNCHANGED <<server, new, unlocked, made, returned>>

\* The keys the server has for the vault of c.
Found(c) ==
  IF c \in Anon THEN {anonKey} \ {None}
  ELSE IF c \in Primary THEN current \cup lost
  ELSE {a.key : a \in apps}

\* What unlock() works on: the key the Vault has, or else one it fetches.
Candidates(c) ==
  IF slot[c] # None THEN {slot[c]} ELSE {Obj(c, k) : k \in Found(c)}

\* With the right VESkey; those of anonymous vaults only createAnonymous() gives.
Unlock(c, o) ==
  /\ pc[c] = "idle" /\ o \in Candidates(c)
  /\ c \in Anon => o.key \in returned
  /\ slot' = [slot EXCEPT ![c] = o]
  /\ session' = [session EXCEPT ![c] = o.key]
  /\ unlocked' = unlocked \cup {o}
  /\ UNCHANGED <<server, pc, new, made, returned>>

\* With a wrong one the key fetched by external id stays in the Vault, locked.
UnlockFails(c, o) ==
  /\ c \notin Primary /\ pc[c] = "idle" /\ slot[c] = None /\ o \in Candidates(c)
  /\ slot' = [slot EXCEPT ![c] = o]
  /\ UNCHANGED <<server, pc, session, new, unlocked, made, returned>>

\* The object is locked for every Vault that shares it.
Lock(c) ==
  /\ pc[c] = "idle" /\ unlocked' = unlocked \ {slot[c]}
  /\ UNCHANGED <<server, pc, slot, session, new, made, returned>>

Close(c) ==
  /\ At(c, "idle", "closed")
  /\ slot' = [slot EXCEPT ![c] = None] /\ session' = [session EXCEPT ![c] = None]
  /\ unlocked' = {o \in unlocked : \E d \in Ctx \ {c} : slot[d] = o}
  /\ UNCHANGED <<server, new, made, returned>>

(***************************************************************************)
(* createAnonymous().                                                      *)
(***************************************************************************)
\* The lookup says NOTFOUND; anything else ends the call without a change.
AnonFree(c) ==
  /\ c \in Anon /\ slot[c] = None /\ anonKey = None /\ At(c, "idle", "free")
  /\ UNCHANGED <<server, slot, session, new, unlocked, made, returned>>

\* The key is made and posted; the server has it, the reply is under way.
AnonPosted(c, k) ==
  /\ Fresh(k) /\ anonKey = None /\ anonKey' = k
  /\ At(c, "free", "posted") /\ Making(c, k, {})
  /\ UNCHANGED <<current, lost, apps, slot, session, unlocked, returned>>

\* Slips of the failure path: the key stays in the Vault, or its VESkey is
\* returned.
StaysIn(c, k) == slot' = [slot EXCEPT ![c] = Obj(c, k)] /\ UNCHANGED returned
Returned(c, k) == returned' = returned \cup {k} /\ UNCHANGED slot

\* Dropped and its VESkey wiped.
NotKept(c, k) == UNCHANGED <<slot, returned>>

\* The POST is refused, as the name was taken since the lookup, or never arrives.
AnonNotPosted(c, k) ==
  /\ Fresh(k) /\ At(c, "free", "idle") /\ NotKept(c, k)
  /\ UNCHANGED <<server, session, new, unlocked>>

\* The reply never arrives: the same path, though the server has the key.
AnonReplyLost(c) ==
  /\ c \in Anon /\ At(c, "posted", "idle") /\ NotKept(c, new[c].key) /\ DropNew(c)
  /\ UNCHANGED <<server, session, unlocked, made>>

AnonCreated(c) ==
  /\ c \in Anon /\ At(c, "posted", "idle") /\ DropNew(c)
  /\ LET k == new[c].key
     IN /\ slot' = [slot EXCEPT ![c] = Obj(c, k)]
        /\ unlocked' = unlocked \cup {Obj(c, k)}
        /\ returned' = returned \cup {k}
  /\ UNCHANGED <<server, session, made>>

(***************************************************************************)
(* setVESkey(veskey, lostId, passwd) of a primary vault.                   *)
(***************************************************************************)
\* The server has the new key and has demoted the old one, if one was named.
PrimaryPosted(c, k, old) ==
  /\ c \in Primary /\ Fresh(k) /\ At(c, "idle", "posted") /\ Making(c, k, {})
  /\ old \subseteq current \cup lost /\ Cardinality(old) <= 1
  /\ current' = (current \ old) \cup {k} /\ lost' = lost \cup old
  /\ UNCHANGED <<anonKey, apps, slot, session, unlocked, returned>>

\* Refused, or the request is lost.
PrimaryNotPosted(c, k) ==
  /\ c \in Primary /\ pc[c] = "idle" /\ Fresh(k)
  /\ UNCHANGED <<server, pc, slot, session, new, unlocked, returned>>

\* No reply, or its session token cannot be decrypted: the Vault is as before.
PrimaryFails(c) ==
  /\ c \in Primary /\ At(c, "posted", "idle") /\ DropNew(c)
  /\ UNCHANGED <<server, slot, session, unlocked, made, returned>>

\* Slip: only the token is taken over.
TokenOnly(c, k) == UNCHANGED <<slot, unlocked>>

KeyTaken(c, k) ==
  /\ slot' = [slot EXCEPT ![c] = Obj(c, k)]
  /\ unlocked' = unlocked \cup {Obj(c, k)}

PrimarySet(c) ==
  /\ c \in Primary /\ At(c, "posted", "idle") /\ DropNew(c)
  /\ session' = [session EXCEPT ![c] = new[c].key] /\ KeyTaken(c, new[c].key)
  /\ UNCHANGED <<server, made, returned>>

(***************************************************************************)
(* setVESkey(veskey) of a Vault whose URI names a vault, not just a user.  *)
(***************************************************************************)
\* libVES decrypts the token for a POST with the private key, so if that is unlocked.
Elevates(o) == o \in unlocked

\* For any key the Vault has, an active one, a demoted one or the vault's own.
Elevated(c) ==
  /\ c \notin Primary /\ slot[c] # None /\ Elevates(slot[c])
  /\ At(c, "idle", "elevated")
  /\ session' = [session EXCEPT ![c] = slot[c].key]
  /\ UNCHANGED <<server, slot, new, unlocked, made, returned>>

\* libVES_me(): an anonymous vault belongs to no user.
HasUser(c) == c \in Child

\* Slip: a failed propagation goes on to the POST.
Nobody == {}

\* The key's own item is encrypted for the user's active primary keys.
ActiveKeys == current

Propagated(c, k) ==
  /\ HasUser(c) /\ Fresh(k) /\ At(c, "elevated", "propagated")
  /\ Making(c, k, ActiveKeys)
  /\ UNCHANGED <<server, slot, session, unlocked, returned>>

\* Each step may fail; the session stays elevated.
AppFails(c) ==
  /\ pc[c] \in {"elevated", "propagated"}
  /\ pc' = [pc EXCEPT ![c] = "idle"] /\ DropNew(c)
  /\ UNCHANGED <<server, slot, session, unlocked, made, returned>>

\* The POST arrives; with or without its reply the Vault drops the key object.
AppPosted(c) ==
  /\ At(c, "propagated", "idle") /\ DropNew(c) /\ apps' = apps \cup {new[c]}
  /\ UNCHANGED <<anonKey, current, lost, slot, session, unlocked, made, returned>>

(***************************************************************************)
(* The specification.                                                      *)
(***************************************************************************)
Next ==
  \E c \in Ctx :
    \/ Open(c) \/ Lock(c) \/ Close(c)
    \/ \E p \in Primary : SubVault(p, c)
    \/ \E o \in Candidates(c) : Unlock(c, o) \/ UnlockFails(c, o)
    \/ AnonFree(c) \/ AnonReplyLost(c) \/ AnonCreated(c)
    \/ PrimaryFails(c) \/ PrimarySet(c)
    \/ Elevated(c) \/ AppFails(c) \/ AppPosted(c)
    \/ \E k \in Key :
         \/ AnonPosted(c, k) \/ AnonNotPosted(c, k)
         \/ PrimaryNotPosted(c, k) \/ Propagated(c, k)
         \/ \E old \in {{}} \cup {{j} : j \in current \cup lost} : PrimaryPosted(c, k, old)

Spec == Init /\ [][Next]_vars

(***************************************************************************)
(* Properties.                                                             *)
(***************************************************************************)
NewKey == [key : Key, shared : SUBSET Key, had : SUBSET Key]

\* Every variable has its type; a key is being made exactly within a call.
TypeOK ==
  /\ anonKey \in Key \cup {None} /\ current \subseteq Key /\ lost \subseteq Key
  /\ apps \subseteq NewKey
  /\ pc \in [Ctx -> {"closed", "idle", "free", "posted", "elevated", "propagated"}]
  /\ slot \in [Ctx -> Object \cup {None}] /\ session \in [Ctx -> Key \cup {None}]
  /\ new \in [Ctx -> NewKey \cup {None}]
  /\ \A c \in Ctx :
       IF pc[c] \in {"posted", "propagated"} THEN new[c] \in NewKey ELSE new[c] = None
  /\ unlocked \subseteq Object /\ made \subseteq Key /\ returned \subseteq made

\* A VESkey that createAnonymous() returned opens the vault the server has, so
\* of the apps that race for a name at most one believes it has it ("A vault
\* that exists already is refused, never rekeyed or taken over", Vault.java).
ReturnedOpens == \A k \in returned : anonKey = k

\* Between calls a Vault holds no key that the server does not know, whatever
\* request or reply was lost ("so this Vault is as it was", jni_vault.c).
SlotPosted ==
  \A c \in Ctx : pc[c] = "idle" /\ slot[c] # None =>
    slot[c].key \in IF c \in Anon THEN {anonKey} ELSE current \cup lost \cup Found(c)

\* A Vault's session token was issued for the key it holds: a rotation changes
\* both or neither, and a child that inherited them elevates with that key.
SessionFollowsSlot ==
  \A c \in Ctx : session[c] # None => slot[c] # None /\ slot[c].key = session[c]

\* The user can recover the app's VESkey with a primary key, and with every active
\* one that there was when setVESkey() shared it ("so the user can recover the
\* secondary's VESkey via primary unlock later", jni_vault.c), unless the keys it was
\* shared with are all demoted since.
AppRecoverable ==
  \A a \in apps :
    /\ a.shared # {} /\ a.shared \subseteq current \cup lost
    /\ current \cap a.had \subseteq a.shared
=============================================================================
