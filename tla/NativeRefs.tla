----------------------------- MODULE NativeRefs -----------------------------
(***************************************************************************)
(* Who owns a vault key (Vault.java, jni_vault.c, jni_watch.c).            *)
(*                                                                         *)
(* Native contexts point to vault keys that they share by reference count: *)
(* a Vault at its `vaultKey' (slot) and, if it was opened below another,   *)
(* at the key Java keeps in vaultKeyHandle (own); a watch at the key of    *)
(* the Vault it was made from.  libVES is external: REFUP adds one to a    *)
(* count, REFDN takes one away and frees at zero, VaultKey_free frees only *)
(* what nobody counts, a new key has count 0, libVES_child() takes a       *)
(* reference to the parent's key and libVES_free() gives it back.          *)
(*                                                                         *)
(* Each action is one native call; VaultContext has the locks.  The end of *)
(* a watch takes no lock: in a program that does not count atomically, its *)
(* read and its write of a count are two steps.                            *)
(***************************************************************************)
EXTENDS Integers, FiniteSets

CONSTANTS
  Ctx,          \* contexts
  Root,         \* the one that is open at first
  Key,          \* key objects
  Listed,       \* those of the items vaults() lists
  None,
  Programs      \* the calls a program makes, and whether its counts are atomic

ASSUME RefsAssumption ==
  /\ IsFiniteSet(Ctx) /\ Root \in Ctx /\ None \notin Ctx \cup Key
  /\ Listed \subseteq Key

VARIABLES
  program, \* which of the programs this is
  kind,    \* what a context is used for: see Kind
  parent,  \* of a watch, the Vault it watches
  slot,    \* libVES.vaultKey
  own,     \* Vault.vaultKeyHandle
  count,   \* refct
  memory,  \* the state of a key object
  loaded   \* the count a watch that ends has read

vars == <<program, kind, parent, slot, own, count, memory, loaded>>
heap == <<count, memory>>

Kind == {"unused", "vault", "watch", "gone"}

Init ==
  /\ program \in Programs
  /\ kind = [c \in Ctx |-> IF c = Root THEN "vault" ELSE "unused"]
  /\ parent = [c \in Ctx |-> None]
  /\ slot = [c \in Ctx |-> None] /\ own = [c \in Ctx |-> None]
  /\ count = [k \in Key |-> 0] /\ memory = [k \in Key |-> "unused"]
  /\ loaded = [c \in Ctx |-> None]

May(op) == op \in program.ops
IsVault(v) == kind[v] = "vault"
New(k) == memory[k] = "unused" /\ k \notin Listed

\* Changes of the heap; None is NULL.
Count(k, n) == count' = [count EXCEPT ![k] = n]
Mark(k, m)  == memory' = [memory EXCEPT ![k] = m]

RefUp(k) ==
  IF k = None THEN UNCHANGED heap
  ELSE Count(k, count[k] + 1) /\ UNCHANGED memory

(***************************************************************************)
(* Calls that put a key into a Vault.                                      *)
(***************************************************************************)
\* Slip: the key is stored without a reference.
Unheld == 0

Held == 1

\* unlock(): the key of the external id is fetched and held.
Unlock(v, k) ==
  /\ May("unlock") /\ IsVault(v) /\ slot[v] = None /\ New(k)
  /\ slot' = [slot EXCEPT ![v] = k]
  /\ Count(k, Held) /\ Mark(k, "live")
  /\ UNCHANGED <<kind, parent, own, loaded>>

\* unlock() with no external id: libVES stores the key it finds, not counted.
UnlockUser(v, k) ==
  /\ May("unlockUser") /\ IsVault(v) /\ slot[v] = None /\ New(k)
  /\ slot' = [slot EXCEPT ![v] = k]
  /\ Count(k, 0) /\ Mark(k, "live")
  /\ UNCHANGED <<kind, parent, own, loaded>>

CreateAnonymous(v, k) ==
  /\ May("createAnonymous") /\ IsVault(v) /\ slot[v] = None /\ New(k)
  /\ slot' = [slot EXCEPT ![v] = k]
  /\ Count(k, 1) /\ Mark(k, "live")
  /\ UNCHANGED <<kind, parent, own, loaded>>

\* Slip: the key that was not posted stays in the Vault.
StaysIn(v, k) == slot' = [slot EXCEPT ![v] = k]

\* The key that was not posted is dropped.
DroppedFrom(v, k) == UNCHANGED slot

CreateFails(v, k) ==
  /\ May("createAnonymous") /\ IsVault(v) /\ slot[v] = None /\ New(k)
  /\ DroppedFrom(v, k)
  /\ Count(k, 0) /\ Mark(k, "freed")
  /\ UNCHANGED <<kind, parent, own, loaded>>

\* Slip: close() does not wait for the watch.
NoJoin(v) == TRUE

\* The Vault's own watch has ended.
Joined(v) == \A w \in Ctx : kind[w] = "watch" => parent[w] # v

\* A rotation is a call of its own where Java or a watch holds the old key.
Rotation(v) ==
  IF own[v] # None THEN "setPrimaryBelow"
  ELSE IF ~Joined(v) THEN "setPrimaryWatched" ELSE "setPrimary"

\* setVESkey() of a primary vault: the new key replaces the old one.
SetPrimary(v, k) ==
  /\ May(Rotation(v)) /\ IsVault(v) /\ New(k)
  /\ slot' = [slot EXCEPT ![v] = k]
  /\ LET old == slot[v]
         last == old # None /\ count[old] <= 1
     IN /\ count' = [j \in Key |-> IF j = k THEN 1
                                   ELSE IF j = old THEN count[j] - 1 ELSE count[j]]
        /\ memory' = [j \in Key |-> IF j = k THEN "live"
                                    ELSE IF j = old /\ last THEN "freed" ELSE memory[j]]
  /\ UNCHANGED <<kind, parent, own, loaded>>

\* It fails after the key was made: the session token cannot be decrypted.
SetPrimaryFails(v, k) ==
  /\ May("setPrimary") /\ IsVault(v) /\ New(k)
  /\ Count(k, 0) /\ Mark(k, "freed")
  /\ UNCHANGED <<kind, parent, slot, own, loaded>>

(***************************************************************************)
(* Calls that open a Vault c below v: libVES_child() gives c the slot.     *)
(***************************************************************************)
Below(v, c) ==
  /\ IsVault(v) /\ kind[c] = "unused"
  /\ kind' = [kind EXCEPT ![c] = "vault"]
  /\ UNCHANGED <<parent, loaded>>

\* subVault(): no key is fetched.
SubNew(v, c) ==
  /\ May("subVault") /\ Below(v, c)
  /\ slot' = [slot EXCEPT ![c] = slot[v]] /\ RefUp(slot[v])
  /\ UNCHANGED own

\* vault(uri): a key k is fetched; it is held only where the slot is empty.
Sub(v, c, k) ==
  /\ May("vault") /\ Below(v, c) /\ New(k)
  /\ own' = [own EXCEPT ![c] = k]
  /\ IF slot[v] = None
     THEN slot' = [slot EXCEPT ![c] = k] /\ Count(k, 1)
     ELSE slot' = [slot EXCEPT ![c] = slot[v]] /\ Count(slot[v], count[slot[v]] + 1)
  /\ Mark(k, "live")

\* Either fails and the child is freed again, with REFDN.
ChildFreed(v) ==
  IF slot[v] # None /\ count[slot[v]] = 0
  THEN Mark(slot[v], "freed") /\ UNCHANGED count
  ELSE UNCHANGED heap

SubFails(v) ==
  /\ May("vault") \/ May("subVault")
  /\ IsVault(v) /\ ChildFreed(v)
  /\ UNCHANGED <<kind, parent, slot, own, loaded>>

\* vaults(): each child gets the key of its item, with one more reference, that
\* remains when the list is freed.
Vaults(v, c, k) ==
  /\ May("vaults") /\ Below(v, c) /\ slot[v] # None
  /\ k \in Listed /\ memory[k] = "unused"
  /\ own' = [own EXCEPT ![c] = k]
  /\ slot' = [slot EXCEPT ![c] = slot[v]]
  /\ count' = [count EXCEPT ![k] = 1, ![slot[v]] = @ + 1] /\ Mark(k, "live")

(***************************************************************************)
(* close(): VaultKey_free(own), then libVES_free().                        *)
(***************************************************************************)
\* The keys a closing Vault frees: those it fetched and nobody counts, and its
\* slot with the last reference.
Unshared(v) == {k \in Key : k = own[v] /\ count[k] = 0}
LastRef(v)  == {k \in Key : k = slot[v] /\ count[k] <= 1}

Close(v) ==
  /\ May("close") /\ IsVault(v) /\ Joined(v)
  /\ kind' = [kind EXCEPT ![v] = "gone"]
  /\ count' = [k \in Key |-> IF k = slot[v] THEN count[k] - 1 ELSE count[k]]
  /\ memory' = [k \in Key |->
                  IF k \in Unshared(v) \cup LastRef(v) THEN "freed" ELSE memory[k]]
  /\ slot' = [slot EXCEPT ![v] = None] /\ own' = [own EXCEPT ![v] = None]
  /\ UNCHANGED <<parent, loaded>>

(***************************************************************************)
(* Watches.                                                                *)
(***************************************************************************)
Watched(v) == IF slot[v] # None THEN slot[v] ELSE own[v]

WatchCreated(v, w) ==
  /\ May("watch") /\ IsVault(v) /\ kind[w] = "unused"
  /\ kind' = [kind EXCEPT ![w] = "watch"] /\ parent' = [parent EXCEPT ![w] = v]
  /\ slot' = [slot EXCEPT ![w] = Watched(v)] /\ RefUp(Watched(v))
  /\ UNCHANGED <<own, loaded>>

\* No watch could be made: the child goes the way of any context.
WatchFails(v) ==
  /\ May("watchFails") /\ IsVault(v) /\ ChildFreed(v)
  /\ UNCHANGED <<kind, parent, slot, own, loaded>>

WatchGone(w) ==
  /\ kind' = [kind EXCEPT ![w] = "gone"] /\ slot' = [slot EXCEPT ![w] = None]
  /\ UNCHANGED <<parent, own>>

\* vesjni_free_child(): a raw decrement, that frees nothing.
WatchFree(w) ==
  /\ program.atomic \/ slot[w] = None
  /\ kind[w] = "watch" /\ WatchGone(w) /\ UNCHANGED memory
  /\ count' = [k \in Key |-> IF k = slot[w] THEN count[k] - 1 ELSE count[k]]
  /\ UNCHANGED loaded

\* The same in two steps.
WatchLoads(w) ==
  /\ ~program.atomic /\ kind[w] = "watch" /\ loaded[w] = None /\ slot[w] # None
  /\ loaded' = [loaded EXCEPT ![w] = count[slot[w]]]
  /\ UNCHANGED <<kind, parent, slot, own, count, memory>>

\* Slip: the watch gives its key back with libVES_free().
FreedAtZero(w) ==
  IF loaded[w] <= 1 THEN Mark(slot[w], "freed") ELSE UNCHANGED memory

NothingFreed(w) == UNCHANGED memory

WatchStores(w) ==
  /\ kind[w] = "watch" /\ loaded[w] # None /\ WatchGone(w) /\ NothingFreed(w)
  /\ Count(slot[w], loaded[w] - 1)
  /\ loaded' = [loaded EXCEPT ![w] = None]

(***************************************************************************)
(* The specification.                                                      *)
(***************************************************************************)
TakesKey(v, k) ==
  \/ Unlock(v, k) \/ UnlockUser(v, k) \/ CreateAnonymous(v, k) \/ CreateFails(v, k)
  \/ SetPrimary(v, k) \/ SetPrimaryFails(v, k)

Opens(v, c) == SubNew(v, c) \/ \E k \in Key : Sub(v, c, k) \/ Vaults(v, c, k)

Ends(c) == Close(c) \/ WatchFree(c) \/ WatchLoads(c) \/ WatchStores(c)

Next ==
  /\ UNCHANGED program
  /\ \E v \in Ctx :
       \/ \E k \in Key : TakesKey(v, k)
       \/ \E c \in Ctx : Opens(v, c) \/ WatchCreated(v, c)
       \/ SubFails(v) \/ WatchFails(v) \/ Ends(v)

Spec == Init /\ [][Next]_vars

(***************************************************************************)
(* Properties.                                                             *)
(***************************************************************************)
\* No Vault and no watch points to a key that was freed (the use after free that
\* nativeUnlock's and vesjni_free_child's comments tell of).
NoDangling ==
  \A c \in Ctx : \A k \in {slot[c], own[c]} \ {None} : memory[k] = "live"

\* More holds of a program whose unlocked keys are held, that rotates only keys
\* no watch and no handle of Java's names, and whose counts are atomic.
Disciplined ==
  /\ program.atomic
  /\ program.ops \cap {"unlockUser", "setPrimaryBelow", "setPrimaryWatched"} = {}

Types ==
  /\ kind \in [Ctx -> Kind] /\ parent \in [Ctx -> Ctx \cup {None}]
  /\ slot \in [Ctx -> Key \cup {None}] /\ own \in [Ctx -> Key \cup {None}]
  /\ count \in [Key -> Nat] /\ memory \in [Key -> {"unused", "live", "freed"}]
  /\ DOMAIN loaded = Ctx

\* Every variable has its type; no count falls below zero.
TypeOK == program \in Programs /\ (Disciplined => Types)

\* The count of a key is the number of contexts whose slot it is; a key that is
\* only Java's has none.
Holders(k) == {c \in Ctx : slot[c] = k}
Counted ==
  \A k \in Key \ Listed : memory[k] = "live" => count[k] = Cardinality(Holders(k))
CountsHolders == Disciplined => Counted

\* A key lives only while a Vault or a watch points to it: when all are closed
\* nothing is left, but for the keys of vaults(), which keep the reference that
\* nativeChildVaults takes.
Owned ==
  \A k \in Key \ Listed :
    memory[k] = "live" => \E c \in Ctx : k \in {slot[c], own[c]}
NothingLeft == Disciplined => Owned

\* A key of Java's is one Vault's only, and counted only if it is the slot too; a
\* watch shares the key of a Vault that is open.
Owners ==
  /\ \A c \in Ctx : kind[c] \in {"unused", "gone"} => slot[c] = None
  /\ \A c \in Ctx : kind[c] # "vault" => own[c] = None
  /\ \A c \in Ctx : own[c] # None =>
       slot[c] # None /\ (own[c] \in Listed \/ slot[c] = own[c] \/ count[own[c]] = 0)
  /\ \A c \in Ctx : slot[c] \notin Listed
  /\ \A c, d \in Ctx : own[c] = own[d] /\ c # d => own[c] = None
  /\ \A w \in Ctx : kind[w] = "watch" =>
       /\ parent[w] \in Ctx /\ kind[parent[w]] = "vault"
       /\ slot[w] \in {None, slot[parent[w]]}
  /\ \A k \in Key : memory[k] = "unused" => count[k] = 0
  /\ \A c \in Ctx : loaded[c] = None

\* Who owns what, in a disciplined program (nativeFreeVaultKey, vesjni_free_child).
OwnersInv == Disciplined => Owners
=============================================================================
