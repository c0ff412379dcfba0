-------------------------- MODULE NativeRefsProofs --------------------------
(***************************************************************************)
(* Proofs about NativeRefs, for any number of contexts and keys: in a      *)
(* program that keeps to Disciplined the counts are those of the holders,  *)
(* so nothing dangles and nothing is left.                                 *)
(***************************************************************************)
EXTENDS NativeRefs, FiniteSetTheorems, TLAPS

LEMMA HoldersFinite ==
  ASSUME NEW k \in Key
  PROVE  IsFiniteSet(Holders(k)) /\ Cardinality(Holders(k)) \in Nat
<1>1. Holders(k) \in SUBSET Ctx
  BY DEF Holders
<1>2. IsFiniteSet(Holders(k))
  BY <1>1, RefsAssumption, FS_Subset
<1> QED BY <1>2, FS_CardinalityType

\* The only holder of a key: none other points to it.
LEMMA OnlyHolder ==
  ASSUME NEW k \in Key, NEW c \in Ctx, slot[c] = k, Cardinality(Holders(k)) <= 1
  PROVE  \A d \in Ctx : slot[d] = k => d = c
<1>1. c \in Holders(k) /\ IsFiniteSet(Holders(k)) /\ Cardinality(Holders(k)) \in Nat
  BY HoldersFinite DEF Holders
<1>2. Cardinality(Holders(k)) # 0
  BY <1>1, FS_EmptySet
<1>3. Cardinality(Holders(k)) = 1
  BY <1>1, <1>2
<1>4. \E x : Holders(k) = {x}
  BY <1>1, <1>3, FS_Singleton
<1> QED BY <1>1, <1>4 DEF Holders

\* A key nobody holds.
LEMMA NoHolder ==
  ASSUME NEW k \in Key
  PROVE  Cardinality(Holders(k)) = 0 <=> \A d \in Ctx : slot[d] # k
<1>1. Cardinality(Holders(k)) = 0 <=> Holders(k) = {}
  BY HoldersFinite, FS_EmptySet
<1> QED BY <1>1 DEF Holders

\* A key more than one context holds has another holder than c.
LEMMA OtherHolder ==
  ASSUME NEW k \in Key, NEW c \in Ctx, Cardinality(Holders(k)) > 1
  PROVE  \E d \in Ctx : slot[d] = k /\ d # c
<1> SUFFICES ASSUME \A d \in Ctx : slot[d] = k => d = c PROVE FALSE
  OBVIOUS
<1>1. Holders(k) = {} \/ Holders(k) = {c}
  BY DEF Holders
<1>2. Cardinality(Holders(k)) \in {0, 1}
  BY <1>1, FS_EmptySet, FS_Singleton
<1> QED BY <1>2

\* Every action points at most one slot elsewhere, c's to x: how many holders k
\* has afterwards.
HoldersAfter(c, x, k) ==
  IF x = k THEN IF slot[c] = k THEN Cardinality(Holders(k)) ELSE Cardinality(Holders(k)) + 1
  ELSE IF slot[c] = k THEN Cardinality(Holders(k)) - 1 ELSE Cardinality(Holders(k))

LEMMA Repoint ==
  ASSUME slot \in [Ctx -> Key \cup {None}], NEW c \in Ctx, NEW x \in Key \cup {None},
         slot' = [slot EXCEPT ![c] = x], NEW k \in Key
  PROVE  Cardinality(Holders(k)') = HoldersAfter(c, x, k)
<1>1. Holders(k)' = IF x = k THEN Holders(k) \cup {c} ELSE Holders(k) \ {c}
  BY DEF Holders
<1>2. c \in Holders(k) <=> slot[c] = k
  BY DEF Holders
<1>3. IsFiniteSet(Holders(k))
  BY HoldersFinite
<1>4. Cardinality(Holders(k) \cup {c}) =
        IF c \in Holders(k) THEN Cardinality(Holders(k)) ELSE Cardinality(Holders(k)) + 1
  BY <1>3, FS_AddElement
<1>5. Cardinality(Holders(k) \ {c}) =
        IF c \in Holders(k) THEN Cardinality(Holders(k)) - 1 ELSE Cardinality(Holders(k))
  BY <1>3, FS_RemoveElement
<1> QED BY <1>1, <1>2, <1>4, <1>5 DEF HoldersAfter

RefsInv == Types /\ NoDangling /\ Counted /\ Owned /\ Owners

\* What is known of a key by its state: a key in use is counted by its holders;
\* no slot and no handle is another key's.
LEMMA KeyFacts ==
  ASSUME RefsInv, NEW k \in Key
  PROVE  /\ memory[k] # "live" => \A c \in Ctx : slot[c] # k /\ own[c] # k
         /\ memory[k] = "live" /\ k \notin Listed => count[k] = Cardinality(Holders(k))
         /\ memory[k] # "live" => Cardinality(Holders(k)) = 0
         /\ k # None
         /\ \A c \in Ctx : slot[c] = k => k \notin Listed
<1>1. k # None
  BY RefsAssumption
<1>2. memory[k] # "live" => \A c \in Ctx : slot[c] # k /\ own[c] # k
  BY <1>1 DEF RefsInv, NoDangling
<1>3. \A c \in Ctx : slot[c] = k => k \notin Listed
  BY DEF RefsInv, Owners
<1> QED BY <1>1, <1>2, <1>3, NoHolder DEF RefsInv, Counted

\* unlock() and createAnonymous() put a new key into an empty slot.
LEMMA FillStep ==
  ASSUME RefsInv, NEW v \in Ctx, NEW k \in Key, Unlock(v, k) \/ CreateAnonymous(v, k)
  PROVE  RefsInv'
<1>1. /\ kind[v] = "vault" /\ slot[v] = None /\ memory[k] = "unused" /\ k \notin Listed
      /\ slot' = [slot EXCEPT ![v] = k]
      /\ count' = [count EXCEPT ![k] = 1] /\ memory' = [memory EXCEPT ![k] = "live"]
      /\ UNCHANGED <<kind, parent, own, loaded>>
  BY DEF Unlock, CreateAnonymous, IsVault, New, Count, Mark, Held
<1>2. k # None /\ \A c \in Ctx : slot[c] # k /\ own[c] # k
  BY <1>1, KeyFacts
<1>3. Types'
  BY <1>1 DEF RefsInv, Types
<1>4. NoDangling'
  BY <1>1 DEF RefsInv, Types, NoDangling
<1>5. Counted'
  <2> SUFFICES ASSUME NEW j \in Key \ Listed, memory'[j] = "live"
               PROVE  count'[j] = Cardinality(Holders(j)')
    BY DEF Counted
  <2>1. Cardinality(Holders(j)') = IF k = j THEN Cardinality(Holders(j)) + 1
                                            ELSE Cardinality(Holders(j))
    <3>1. slot \in [Ctx -> Key \cup {None}] /\ j # None /\ k \in Key \cup {None}
      BY KeyFacts DEF RefsInv, Types
    <3>2. Cardinality(Holders(j)') = HoldersAfter(v, k, j)
      BY <1>1, <3>1, Repoint, Zenon
    <3> QED BY <1>1, <3>1, <3>2 DEF HoldersAfter
  <2>2. CASE j = k
    BY <1>1, <2>1, <2>2, KeyFacts DEF RefsInv, Types
  <2>3. CASE j # k
    BY <1>1, <2>1, <2>3, KeyFacts DEF RefsInv, Types
  <2> QED BY <2>2, <2>3
<1>6. Owned'
  <2>1. ASSUME NEW j \in Key \ Listed, memory'[j] = "live" PROVE \E c \in Ctx : j \in {slot'[c], own'[c]}
    <3>1. CASE j = k
      BY <1>1, <3>1 DEF RefsInv, Types
    <3>2. CASE j # k
      <4>1. PICK c \in Ctx : j \in {slot[c], own[c]}
        BY <1>1, <2>1, <3>2 DEF RefsInv, Types, Owned
      <4>2. j # None
        BY KeyFacts
      <4> QED BY <1>1, <4>1, <4>2 DEF RefsInv, Types
    <3> QED BY <3>1, <3>2
  <2> QED BY <2>1 DEF Owned
<1>7. Owners'
  <2>1. \A c \in Ctx : slot'[c] \notin Listed
    BY <1>1 DEF RefsInv, Types, Owners
  <2> QED BY <1>1, <1>2, <2>1 DEF RefsInv, Types, Owners
<1> QED BY <1>3, <1>4, <1>5, <1>6, <1>7 DEF RefsInv

\* A key that was made and dropped again.
LEMMA DropStep ==
  ASSUME RefsInv, NEW v \in Ctx, NEW k \in Key, CreateFails(v, k) \/ SetPrimaryFails(v, k)
  PROVE  RefsInv'
<1>1. /\ memory[k] = "unused"
      /\ count' = [count EXCEPT ![k] = 0] /\ memory' = [memory EXCEPT ![k] = "freed"]
      /\ UNCHANGED <<kind, parent, slot, own, loaded>>
  BY DEF CreateFails, SetPrimaryFails, DroppedFrom, New, Count, Mark
<1>2. k # None /\ \A c \in Ctx : slot[c] # k /\ own[c] # k
  BY <1>1, KeyFacts
<1>3. Types'
  BY <1>1 DEF RefsInv, Types
<1>4. NoDangling' /\ Owned'
  BY <1>1, <1>2 DEF RefsInv, Types, NoDangling, Owned
<1>5. Counted'
  BY <1>1 DEF RefsInv, Types, Counted, Holders
<1>6. Owners'
  BY <1>1, <1>2 DEF RefsInv, Types, Owners
<1> QED BY <1>3, <1>4, <1>5, <1>6 DEF RefsInv

\* The failed call of a child frees nothing of the parent's.
LEMMA ChildFreedStep ==
  ASSUME RefsInv, NEW v \in Ctx, SubFails(v) \/ WatchFails(v), UNCHANGED program
  PROVE  UNCHANGED vars
<1>1. slot[v] # None => count[slot[v]] # 0
  BY KeyFacts, NoHolder DEF RefsInv, Types, NoDangling
<1> QED BY <1>1 DEF SubFails, WatchFails, ChildFreed, vars, heap

\* subVault() and a watch take a reference to a key that is held already.
LEMMA ShareStep ==
  ASSUME RefsInv, NEW v \in Ctx, NEW c \in Ctx, SubNew(v, c) \/ WatchCreated(v, c)
  PROVE  RefsInv'
<1> DEFINE x == slot[v]
<1>1. kind[v] = "vault" /\ kind[c] = "unused" /\ c # v
  BY DEF SubNew, WatchCreated, Below, IsVault
<1>2. Watched(v) = x
  BY DEF Watched, RefsInv, Owners
<1>3. /\ slot' = [slot EXCEPT ![c] = x] /\ UNCHANGED <<own, memory, loaded>>
      /\ x = None => UNCHANGED count
      /\ x # None => count' = [count EXCEPT ![x] = count[x] + 1]
  BY <1>2 DEF SubNew, WatchCreated, RefUp, Count, heap, Below
<1>4. \/ kind' = [kind EXCEPT ![c] = "vault"] /\ UNCHANGED parent
      \/ kind' = [kind EXCEPT ![c] = "watch"] /\ parent' = [parent EXCEPT ![c] = v]
  BY DEF SubNew, WatchCreated, Below
<1>5. slot[c] = None /\ own[c] = None /\ x \in Key \cup {None}
  BY <1>1 DEF RefsInv, Owners, Types
<1>6. x # None => memory[x] = "live" /\ x \in Key
  BY <1>5 DEF RefsInv, NoDangling
<1>7. Types'
  <2>1. count' \in [Key -> Nat]
    BY <1>3, <1>6 DEF RefsInv, Types
  <2>2. kind' \in [Ctx -> Kind] /\ parent' \in [Ctx -> Ctx \cup {None}]
    BY <1>4 DEF RefsInv, Types, Kind
  <2>3. slot' \in [Ctx -> Key \cup {None}]
    BY <1>3, <1>5 DEF RefsInv, Types
  <2> QED BY <1>3, <2>1, <2>2, <2>3 DEF RefsInv, Types
<1>8. NoDangling'
  BY <1>3, <1>6 DEF RefsInv, Types, NoDangling
<1>9. Counted'
  <2> SUFFICES ASSUME NEW j \in Key \ Listed, memory'[j] = "live"
               PROVE  count'[j] = Cardinality(Holders(j)')
    BY DEF Counted
  <2>1. j # None /\ count[j] = Cardinality(Holders(j))
    BY <1>3, KeyFacts
  <2>2. Cardinality(Holders(j)') = IF x = j THEN Cardinality(Holders(j)) + 1
                                            ELSE Cardinality(Holders(j))
    <3>1. slot \in [Ctx -> Key \cup {None}]
      BY DEF RefsInv, Types
    <3>2. Cardinality(Holders(j)') = HoldersAfter(c, x, j)
      BY <1>3, <1>5, <3>1, Repoint, Zenon
    <3> QED BY <1>5, <2>1, <3>2 DEF HoldersAfter
  <2> QED BY <1>3, <2>1, <2>2 DEF RefsInv, Types
<1>10. Owned'
  BY <1>3, <1>5 DEF RefsInv, Types, Owned
<1>11. Owners'
  <2>1. \A d \in Ctx : d # c => slot'[d] = slot[d] /\ kind'[d] = kind[d] /\ parent'[d] = parent[d]
    BY <1>3, <1>4 DEF RefsInv, Types
  <2>2. slot'[c] = x /\ own'[c] = None /\ kind'[c] \in {"vault", "watch"}
    BY <1>3, <1>4, <1>5 DEF RefsInv, Types
  <2>3. \A d \in Ctx : own[d] # None /\ slot[d] # own[d] /\ own[d] \notin Listed => own[d] # x
    BY <1>5, <1>6, KeyFacts, NoHolder, RefsAssumption DEF RefsInv, Owners, Types, NoDangling
  <2>4. \A d \in Ctx : own[d] # None /\ slot[d] # own[d] /\ own[d] \notin Listed => count'[own[d]] = 0
    BY <1>3, <2>3 DEF RefsInv, Owners, Types
  <2>5. kind'[c] = "watch" => parent'[c] = v
    BY <1>4 DEF RefsInv, Types
  <2>6. \A w \in Ctx : kind'[w] = "watch" =>
          /\ parent'[w] \in Ctx /\ kind'[parent'[w]] = "vault"
          /\ slot'[w] \in {None, slot'[parent'[w]]}
    BY <1>1, <2>1, <2>2, <2>5 DEF RefsInv, Owners
  <2>7. \A j \in Key : memory'[j] = "unused" => count'[j] = 0
    BY <1>3, <1>6 DEF RefsInv, Owners, Types
  <2> QED BY <1>1, <1>3, <1>5, <2>1, <2>2, <2>4, <2>6, <2>7 DEF RefsInv, Owners
<1> QED BY <1>7, <1>8, <1>9, <1>10, <1>11 DEF RefsInv

\* vault(uri): the child's key is Java's, and the slot's if that was empty.
LEMMA SubStep ==
  ASSUME RefsInv, NEW v \in Ctx, NEW c \in Ctx, NEW k \in Key, Sub(v, c, k)
  PROVE  RefsInv'
<1> DEFINE x == IF slot[v] = None THEN k ELSE slot[v]
<1>1. /\ kind[v] = "vault" /\ kind[c] = "unused" /\ c # v /\ memory[k] = "unused" /\ k \notin Listed
      /\ kind' = [kind EXCEPT ![c] = "vault"] /\ UNCHANGED <<parent, loaded>>
      /\ own' = [own EXCEPT ![c] = k] /\ memory' = [memory EXCEPT ![k] = "live"]
  BY DEF Sub, Below, IsVault, New, Mark
<1>2. slot' = [slot EXCEPT ![c] = x]
  BY DEF Sub
<1>3. slot[c] = None /\ own[c] = None /\ x \in Key
  BY <1>1 DEF RefsInv, Owners, Types
<1>4. k # None /\ \A d \in Ctx : slot[d] # k /\ own[d] # k
  BY <1>1, KeyFacts
<1>5. slot[v] = None => x = k /\ count' = [count EXCEPT ![k] = 1]
  BY DEF Sub, Count
<1>6. slot[v] # None => x # k /\ memory[x] = "live" /\ count' = [count EXCEPT ![x] = count[x] + 1]
  BY <1>4 DEF Sub, Count, RefsInv, NoDangling
<1>7. x # None /\ memory'[x] = "live" /\ memory'[k] = "live"
  BY <1>1, <1>3, <1>5, <1>6, KeyFacts DEF RefsInv, Types
<1> HIDE DEF x
<1>8. count' \in [Key -> Nat]
  BY <1>3, <1>5, <1>6 DEF RefsInv, Types
<1>9. Types'
  BY <1>1, <1>2, <1>3, <1>8 DEF RefsInv, Types, Kind
<1>10. NoDangling'
  <2> SUFFICES ASSUME NEW d \in Ctx, NEW j \in {slot'[d], own'[d]} \ {None}
               PROVE  memory'[j] = "live"
    BY DEF NoDangling
  <2>1. CASE d = c
    BY <1>1, <1>2, <1>7, <2>1 DEF RefsInv, Types
  <2>2. CASE d # c
    <3>1. j \in {slot[d], own[d]} \ {None} /\ j \in Key
      BY <1>1, <1>2, <2>2 DEF RefsInv, Types
    <3>2. memory[j] = "live"
      BY <3>1 DEF RefsInv, NoDangling
    <3> QED BY <1>1, <3>1, <3>2 DEF RefsInv, Types
  <2> QED BY <2>1, <2>2
<1>11. Counted'
  <2> SUFFICES ASSUME NEW j \in Key \ Listed, memory'[j] = "live"
               PROVE  count'[j] = Cardinality(Holders(j)')
    BY DEF Counted
  <2>1. slot \in [Ctx -> Key \cup {None}] /\ count \in [Key -> Nat]
    BY DEF RefsInv, Types
  <2>2. Cardinality(Holders(j)') = HoldersAfter(c, x, j)
    BY <1>2, <1>3, <2>1, Repoint, Zenon
  <2>3. j # None
    BY KeyFacts
  <2>4. Cardinality(Holders(j)') = IF x = j THEN Cardinality(Holders(j)) + 1
                                            ELSE Cardinality(Holders(j))
    BY <1>3, <2>2, <2>3 DEF HoldersAfter
  <2>5. j # k => memory[j] = "live" /\ count[j] = Cardinality(Holders(j))
    BY <1>1, KeyFacts DEF RefsInv, Types
  <2>6. Cardinality(Holders(k)) = 0
    BY <1>1, KeyFacts
  <2>7. CASE slot[v] = None
    BY <1>5, <2>1, <2>4, <2>5, <2>6, <2>7
  <2>8. CASE slot[v] # None /\ j = k
    <3>1. count[k] = 0 /\ count'[k] = count[k]
      BY <1>1, <1>3, <1>6, <2>1, <2>8 DEF RefsInv, Owners
    <3> QED BY <1>6, <2>4, <2>6, <2>8, <3>1
  <2>9. CASE slot[v] # None /\ j # k
    BY <1>3, <1>6, <2>1, <2>4, <2>5, <2>9
  <2> QED BY <2>7, <2>8, <2>9
<1>12. Owned'
  <2>1. ASSUME NEW j \in Key \ Listed, memory'[j] = "live" PROVE \E d \in Ctx : j \in {slot'[d], own'[d]}
    <3>1. CASE j = k
      BY <1>1, <3>1 DEF RefsInv, Types
    <3>2. CASE j # k
      <4>1. PICK d \in Ctx : j \in {slot[d], own[d]}
        BY <1>1, <2>1, <3>2 DEF RefsInv, Types, Owned
      <4>2. j # None
        BY KeyFacts
      <4> QED BY <1>1, <1>2, <1>3, <4>1, <4>2 DEF RefsInv, Types
    <3> QED BY <3>1, <3>2
  <2> QED BY <2>1 DEF Owned
<1>13. Owners'
  <2>1. \A d \in Ctx : d # c =>
          slot'[d] = slot[d] /\ own'[d] = own[d] /\ kind'[d] = kind[d] /\ parent'[d] = parent[d]
    BY <1>1, <1>2 DEF RefsInv, Types
  <2>2. slot'[c] = x /\ own'[c] = k /\ kind'[c] = "vault"
    BY <1>1, <1>2 DEF RefsInv, Types
  <2>3. x = k \/ count'[k] = 0
    BY <1>1, <1>3, <1>5, <1>6 DEF RefsInv, Owners, Types
  <2>4. ASSUME NEW d \in Ctx, d # c, own[d] # None, slot[d] # own[d],
               own[d] \notin Listed PROVE count'[own[d]] = 0
    <3>1. own[d] \in Key /\ memory[own[d]] = "live" /\ count[own[d]] = 0
      BY <2>4 DEF RefsInv, Owners, NoDangling, Types
    <3>2. own[d] # k
      BY <1>4
    <3>3. slot[v] # own[d]
      BY <3>1, KeyFacts, NoHolder
    <3>4. own[d] # x
      BY <1>5, <1>6, <3>2, <3>3 DEF x
    <3> QED BY <1>3, <1>5, <1>6, <3>1, <3>2, <3>4 DEF RefsInv, Types
  <2>5. \A j \in Key : memory'[j] = "unused" => count'[j] = 0
    BY <1>1, <1>3, <1>5, <1>6 DEF RefsInv, Owners, Types
  <2>6. \A d \in Ctx : slot'[d] \notin Listed
    BY <1>1, <2>1, <2>2 DEF RefsInv, Owners, x
  <2> QED BY <1>1, <1>3, <1>4, <1>7, <2>1, <2>2, <2>3, <2>4, <2>5, <2>6 DEF RefsInv, Owners
<1> QED BY <1>9, <1>10, <1>11, <1>12, <1>13 DEF RefsInv

\* vaults(): the child's key is Java's alone, and its count is of no interest.
LEMMA VaultsStep ==
  ASSUME RefsInv, NEW v \in Ctx, NEW c \in Ctx, NEW k \in Key, Vaults(v, c, k)
  PROVE  RefsInv'
<1> DEFINE x == slot[v]
<1>1. /\ kind[v] = "vault" /\ kind[c] = "unused" /\ c # v
      /\ kind' = [kind EXCEPT ![c] = "vault"] /\ UNCHANGED <<parent, loaded>>
      /\ k \in Listed /\ memory[k] = "unused" /\ x # None
      /\ own' = [own EXCEPT ![c] = k] /\ slot' = [slot EXCEPT ![c] = x]
      /\ memory' = [memory EXCEPT ![k] = "live"]
  BY DEF Vaults, Below, IsVault, Mark
<1>2. x \in Key /\ x \notin Listed /\ x # k /\ memory[x] = "live"
  BY <1>1, RefsAssumption DEF RefsInv, Types, Owners, NoDangling
<1>3. \A j \in Key : count'[j] = IF j = k THEN 1 ELSE IF j = x THEN count[x] + 1 ELSE count[j]
  BY <1>2 DEF Vaults, RefsInv, Types
<1>4. slot[c] = None /\ own[c] = None /\ k # None
  BY <1>1, KeyFacts DEF RefsInv, Owners
<1>5. \A d \in Ctx : slot[d] # k /\ own[d] # k
  BY <1>1, KeyFacts
<1>6. \A d \in Ctx : d # c =>
        slot'[d] = slot[d] /\ own'[d] = own[d] /\ kind'[d] = kind[d] /\ parent'[d] = parent[d]
  BY <1>1 DEF RefsInv, Types
<1>7. slot'[c] = x /\ own'[c] = k /\ kind'[c] = "vault"
  BY <1>1 DEF RefsInv, Types
<1>8. Types'
  <2>1. \A j \in Key : count'[j] \in Nat
    BY <1>2, <1>3 DEF RefsInv, Types
  <2>2. count' \in [Key -> Nat]
    BY <2>1 DEF Vaults, RefsInv, Types
  <2> QED BY <1>1, <1>2, <2>2 DEF RefsInv, Types, Kind
<1>9. \A j \in Key : memory[j] = "live" => memory'[j] = "live"
  BY <1>1 DEF RefsInv, Types
<1>10. memory'[k] = "live" /\ \A j \in Key : j # k => memory'[j] = memory[j]
  BY <1>1 DEF RefsInv, Types
<1>11. NoDangling'
  <2> SUFFICES ASSUME NEW d \in Ctx, NEW j \in {slot'[d], own'[d]} \ {None}
               PROVE  memory'[j] = "live"
    BY DEF NoDangling
  <2>1. CASE d = c
    BY <1>2, <1>7, <1>9, <1>10, <2>1
  <2>2. CASE d # c
    BY <1>6, <1>9, <2>2 DEF RefsInv, Types, NoDangling
  <2> QED BY <2>1, <2>2
<1>12. Counted'
  <2> SUFFICES ASSUME NEW j \in Key \ Listed, memory'[j] = "live"
               PROVE  count'[j] = Cardinality(Holders(j)')
    BY DEF Counted
  <2>1. slot \in [Ctx -> Key \cup {None}] /\ x \in Key \cup {None}
    BY DEF RefsInv, Types
  <2>2. Cardinality(Holders(j)') = HoldersAfter(c, x, j)
    BY <1>1, <2>1, Repoint, Zenon
  <2>3. j # None /\ j # k /\ count[j] = Cardinality(Holders(j))
    BY <1>1, <1>10, KeyFacts
  <2> QED BY <1>3, <1>4, <2>2, <2>3 DEF HoldersAfter
<1>13. Owned'
  <2>1. ASSUME NEW j \in Key \ Listed, memory'[j] = "live"
        PROVE  \E d \in Ctx : j \in {slot'[d], own'[d]}
    <3>1. PICK d \in Ctx : j \in {slot[d], own[d]}
      BY <1>1, <1>10, <2>1 DEF RefsInv, Owned
    <3>2. j # None
      BY KeyFacts
    <3> QED BY <1>4, <1>6, <3>1, <3>2
  <2> QED BY <2>1 DEF Owned
<1>14. Owners'
  <2>1. ASSUME NEW d \in Ctx, d # c, own[d] # None, slot[d] # own[d], own[d] \notin Listed
        PROVE  count'[own[d]] = 0
    <3>1. own[d] \in Key /\ own[d] # k /\ count[own[d]] = 0
      BY <1>5, <2>1 DEF RefsInv, Owners, Types
    <3>2. own[d] # x
      BY <1>2, <3>1, KeyFacts, NoHolder
    <3> QED BY <1>3, <3>1, <3>2
  <2>2. \A j \in Key : memory'[j] = "unused" => count'[j] = 0
    BY <1>2, <1>3, <1>10 DEF RefsInv, Owners
  <2>3. \A w \in Ctx : kind'[w] = "watch" =>
          /\ parent'[w] \in Ctx /\ kind'[parent'[w]] = "vault"
          /\ slot'[w] \in {None, slot'[parent'[w]]}
    BY <1>1, <1>6, <1>7 DEF RefsInv, Owners
  <2> QED BY <1>1, <1>2, <1>4, <1>5, <1>6, <1>7, <2>1, <2>2, <2>3 DEF RefsInv, Owners
<1> QED BY <1>8, <1>11, <1>12, <1>13, <1>14 DEF RefsInv

\* A rotation takes the old key's reference and frees it if it was the last.
LEMMA RotateStep ==
  ASSUME RefsInv, Disciplined, NEW v \in Ctx, NEW k \in Key, SetPrimary(v, k)
  PROVE  RefsInv'
<1> DEFINE old == slot[v]
<1>1. /\ kind[v] = "vault" /\ memory[k] = "unused" /\ k \notin Listed
      /\ slot' = [slot EXCEPT ![v] = k]
      /\ UNCHANGED <<kind, parent, own, loaded>>
  BY DEF SetPrimary, IsVault, New
<1>2. own[v] = None /\ Joined(v)
  BY DEF SetPrimary, Rotation, May, Disciplined
<1>3. k # None /\ old # k /\ \A d \in Ctx : slot[d] # k /\ own[d] # k
  BY <1>1, KeyFacts
<1>4. \A j \in Key : count'[j] = IF j = k THEN 1 ELSE IF j = old THEN count[j] - 1 ELSE count[j]
  BY DEF SetPrimary
<1>5. \A j \in Key : memory'[j] = IF j = k THEN "live"
        ELSE IF j = old /\ count[old] <= 1 THEN "freed" ELSE memory[j]
  BY <1>3, RefsAssumption DEF SetPrimary
<1>6. old # None => /\ old \in Key /\ memory[old] = "live"
                    /\ count[old] = Cardinality(Holders(old)) /\ count[old] # 0
  BY KeyFacts, NoHolder DEF RefsInv, Types, NoDangling
<1>7. Types'
  <2>1. \A j \in Key : count'[j] \in Nat
    BY <1>4, <1>6, RefsAssumption DEF RefsInv, Types
  <2>2. \A j \in Key : memory'[j] \in {"unused", "live", "freed"}
    BY <1>5 DEF RefsInv, Types
  <2>3. count' \in [Key -> Nat] /\ memory' \in [Key -> {"unused", "live", "freed"}]
    BY <2>1, <2>2 DEF SetPrimary
  <2> QED BY <1>1, <2>3 DEF RefsInv, Types
<1>8. \A d \in Ctx : d # v => slot'[d] = slot[d]
  BY <1>1 DEF RefsInv, Types
<1>9. slot'[v] = k
  BY <1>1 DEF RefsInv, Types
<1>10. count[old] <= 1 /\ old # None => \A d \in Ctx : d # v => slot[d] # old /\ own[d] # old
  <2> SUFFICES ASSUME count[old] <= 1, old # None, NEW d \in Ctx, d # v
               PROVE  slot[d] # old /\ own[d] # old
    OBVIOUS
  <2>1. slot[d] # old
    BY <1>6, OnlyHolder
  <2> QED BY <1>6, <2>1 DEF RefsInv, Owners
<1>11. NoDangling'
  <2> SUFFICES ASSUME NEW d \in Ctx, NEW j \in {slot'[d], own'[d]} \ {None}
               PROVE  memory'[j] = "live"
    BY DEF NoDangling
  <2>1. CASE j = k
    BY <1>5, <2>1
  <2>2. CASE j # k
    <3>1. d # v /\ j \in {slot[d], own[d]} \ {None} /\ j \in Key
      BY <1>1, <1>2, <1>8, <1>9, <2>2 DEF RefsInv, Types
    <3>2. memory[j] = "live"
      BY <3>1 DEF RefsInv, NoDangling
    <3> QED BY <1>5, <1>10, <2>2, <3>1, <3>2
  <2> QED BY <2>1, <2>2
<1>12. Counted'
  <2> SUFFICES ASSUME NEW j \in Key \ Listed, memory'[j] = "live"
               PROVE  count'[j] = Cardinality(Holders(j)')
    BY DEF Counted
  <2>1. slot \in [Ctx -> Key \cup {None}] /\ count \in [Key -> Nat] /\ k \in Key \cup {None}
    BY DEF RefsInv, Types
  <2>2. Cardinality(Holders(j)') = HoldersAfter(v, k, j)
    BY <1>1, <2>1, Repoint, Zenon
  <2>3. j # k => memory[j] = "live" /\ count[j] = Cardinality(Holders(j))
    BY <1>5, KeyFacts
  <2>4. Cardinality(Holders(k)) = 0
    BY <1>1, KeyFacts
  <2> QED BY <1>3, <1>4, <2>1, <2>2, <2>3, <2>4 DEF HoldersAfter
<1>13. Owned'
  <2>1. ASSUME NEW j \in Key \ Listed, memory'[j] = "live" PROVE \E d \in Ctx : j \in {slot'[d], own'[d]}
    <3>1. CASE j = k
      BY <1>9, <3>1
    <3>2. CASE j # k /\ j = old
      <4>1. Cardinality(Holders(j)) > 1
        BY <1>5, <1>6, <2>1, <3>2, KeyFacts DEF RefsInv, Types
      <4>2. PICK d \in Ctx : slot[d] = j /\ d # v
        BY <4>1, OtherHolder
      <4> QED BY <1>8, <4>2
    <3>3. CASE j # k /\ j # old
      <4>1. PICK d \in Ctx : j \in {slot[d], own[d]}
        BY <1>5, <2>1, <3>3 DEF RefsInv, Owned
      <4> QED BY <1>1, <1>8, <3>3, <4>1
    <3> QED BY <3>1, <3>2, <3>3
  <2> QED BY <2>1 DEF Owned
<1>14. Owners'
  <2>1. \A d \in Ctx : own[d] # None => d # v
    BY <1>2
  <2>2. ASSUME NEW d \in Ctx, own[d] # None, slot[d] # own[d],
               own[d] \notin Listed PROVE count'[own[d]] = 0
    <3>1. own[d] \in Key /\ own[d] # k /\ count[own[d]] = 0
      BY <1>3, <2>2 DEF RefsInv, Owners, Types
    <3>2. own[d] # old
      BY <1>6, <2>2, <3>1
    <3> QED BY <1>4, <3>1, <3>2
  <2>3. \A w \in Ctx : kind[w] = "watch" => w # v /\ parent[w] # v
    BY <1>1, <1>2 DEF Joined
  <2>4. \A j \in Key : memory'[j] = "unused" => count'[j] = 0
    BY <1>4, <1>5, <1>6, RefsAssumption DEF RefsInv, Owners
  <2>5. \A w \in Ctx : kind'[w] = "watch" =>
          /\ parent'[w] \in Ctx /\ kind'[parent'[w]] = "vault"
          /\ slot'[w] \in {None, slot'[parent'[w]]}
    BY <1>1, <1>8, <2>3 DEF RefsInv, Owners
  <2>6. \A d \in Ctx : slot'[d] \notin Listed
    BY <1>1, <1>8, <1>9 DEF RefsInv, Owners
  <2> QED BY <1>1, <1>3, <1>8, <1>9, <2>1, <2>2, <2>4, <2>5, <2>6 DEF RefsInv, Owners
<1> QED BY <1>7, <1>11, <1>12, <1>13, <1>14 DEF RefsInv

\* close() gives back the slot's reference and Java's key.
LEMMA CloseStep ==
  ASSUME RefsInv, NEW v \in Ctx, Close(v)
  PROVE  RefsInv'
<1> DEFINE old == slot[v]
<1>1. /\ kind[v] = "vault" /\ kind' = [kind EXCEPT ![v] = "gone"] /\ Joined(v)
      /\ slot' = [slot EXCEPT ![v] = None] /\ own' = [own EXCEPT ![v] = None]
      /\ UNCHANGED <<parent, loaded>>
  BY DEF Close, IsVault
<1>2. \A j \in Key : count'[j] = IF j = old THEN count[j] - 1 ELSE count[j]
  BY DEF Close
<1>3. \A j \in Key : memory'[j] =
        IF (j = own[v] /\ count[j] = 0) \/ (j = old /\ count[j] <= 1)
        THEN "freed" ELSE memory[j]
  BY DEF Close, Unshared, LastRef
<1>4. old # None => /\ old \in Key /\ memory[old] = "live"
                    /\ count[old] = Cardinality(Holders(old)) /\ count[old] # 0
  BY KeyFacts, NoHolder DEF RefsInv, Types, NoDangling
<1>5. Types'
  <2>1. \A j \in Key : count'[j] \in Nat
    BY <1>2, <1>4, RefsAssumption DEF RefsInv, Types
  <2>2. \A j \in Key : memory'[j] \in {"unused", "live", "freed"}
    BY <1>3 DEF RefsInv, Types
  <2>3. count' \in [Key -> Nat] /\ memory' \in [Key -> {"unused", "live", "freed"}]
    BY <2>1, <2>2 DEF Close
  <2> QED BY <1>1, <2>3 DEF RefsInv, Types, Kind
<1>6. \A d \in Ctx : d # v => slot'[d] = slot[d] /\ own'[d] = own[d] /\ kind'[d] = kind[d]
  BY <1>1 DEF RefsInv, Types
<1>7. slot'[v] = None /\ own'[v] = None /\ kind'[v] = "gone"
  BY <1>1 DEF RefsInv, Types
<1>8. ASSUME NEW d \in Ctx, d # v, NEW j \in {slot[d], own[d]} \ {None}
      PROVE  j \in Key /\ memory'[j] = "live"
  <2>1. /\ j \in Key /\ memory[j] = "live"
        /\ j \notin Listed => count[j] = Cardinality(Holders(j))
    BY KeyFacts DEF RefsInv, Types, NoDangling
  <2>2. ~(j = own[v] /\ count[j] = 0)
    <3>1. CASE j = slot[d]
      BY <2>1, <3>1, KeyFacts, NoHolder
    <3>2. CASE j = own[d]
      BY <1>8, <3>2 DEF RefsInv, Owners
    <3> QED BY <3>1, <3>2
  <2>3. ~(j = old /\ count[j] <= 1)
    <3> SUFFICES ASSUME j = old, count[j] <= 1 PROVE FALSE
      OBVIOUS
    <3>1. slot[d] # j
      BY <1>8, <2>1, KeyFacts, OnlyHolder
    <3> QED BY <1>4, <1>8, <3>1 DEF RefsInv, Owners
  <2> QED BY <1>3, <2>1, <2>2, <2>3
<1>9. NoDangling'
  BY <1>6, <1>7, <1>8 DEF NoDangling
<1>10. Counted'
  <2> SUFFICES ASSUME NEW j \in Key \ Listed, memory'[j] = "live"
               PROVE  count'[j] = Cardinality(Holders(j)')
    BY DEF Counted
  <2>1. slot \in [Ctx -> Key \cup {None}] /\ count \in [Key -> Nat]
    BY DEF RefsInv, Types
  <2>2. Cardinality(Holders(j)') = HoldersAfter(v, None, j)
    BY <1>1, <2>1, Repoint, Zenon
  <2>3. j # None /\ memory[j] = "live" /\ count[j] = Cardinality(Holders(j))
    BY <1>3, KeyFacts
  <2> QED BY <1>2, <2>1, <2>2, <2>3 DEF HoldersAfter
<1>11. Owned'
  <2>1. ASSUME NEW j \in Key \ Listed, memory'[j] = "live" PROVE \E d \in Ctx : j \in {slot'[d], own'[d]}
    <3>1. memory[j] = "live" /\ j # None /\ count[j] = Cardinality(Holders(j))
      BY <1>3, <2>1, KeyFacts
    <3>2. CASE j = old
      <4>1. Cardinality(Holders(j)) > 1
        BY <1>3, <1>4, <2>1, <3>1, <3>2 DEF RefsInv, Types
      <4>2. PICK d \in Ctx : slot[d] = j /\ d # v
        BY <4>1, OtherHolder
      <4> QED BY <1>6, <4>2
    <3>3. CASE j # old
      <4>1. j # own[v]
        BY <1>3, <2>1, <3>1, <3>3 DEF RefsInv, Owners
      <4>2. PICK d \in Ctx : j \in {slot[d], own[d]}
        BY <3>1 DEF RefsInv, Owned
      <4> QED BY <1>6, <3>3, <4>1, <4>2
    <3> QED BY <3>2, <3>3
  <2> QED BY <2>1 DEF Owned
<1>12. Owners'
  <2>1. ASSUME NEW d \in Ctx, d # v, own[d] # None, slot[d] # own[d],
               own[d] \notin Listed PROVE count'[own[d]] = 0
    <3>1. own[d] \in Key /\ count[own[d]] = 0
      BY <2>1 DEF RefsInv, Owners, Types
    <3>2. own[d] # old
      BY <1>4, <2>1, <3>1
    <3> QED BY <1>2, <3>1, <3>2
  <2>2. \A w \in Ctx : kind[w] = "watch" => w # v /\ parent[w] # v
    BY <1>1 DEF Joined
  <2>3. \A j \in Key : memory'[j] = "unused" => count'[j] = 0
    BY <1>2, <1>3, <1>4, RefsAssumption DEF RefsInv, Owners
  <2>4. \A w \in Ctx : kind'[w] = "watch" =>
          /\ parent'[w] \in Ctx /\ kind'[parent'[w]] = "vault"
          /\ slot'[w] \in {None, slot'[parent'[w]]}
    BY <1>1, <1>6, <1>7, <2>2 DEF RefsInv, Owners
  <2>5. \A d \in Ctx : slot'[d] \notin Listed
    BY <1>6, <1>7, RefsAssumption DEF RefsInv, Owners
  <2> QED BY <1>1, <1>6, <1>7, <2>1, <2>3, <2>4, <2>5 DEF RefsInv, Owners
<1> QED BY <1>5, <1>9, <1>10, <1>11, <1>12 DEF RefsInv

\* The end of a watch: its Vault holds the key too, so the count stays positive.
LEMMA WatchFreeStep ==
  ASSUME RefsInv, NEW w \in Ctx, WatchFree(w)
  PROVE  RefsInv'
<1> DEFINE k == slot[w]
<1>1. /\ kind[w] = "watch" /\ kind' = [kind EXCEPT ![w] = "gone"]
      /\ slot' = [slot EXCEPT ![w] = None]
      /\ UNCHANGED <<parent, own, memory, loaded>>
  BY DEF WatchFree, WatchGone
<1>2. \A j \in Key : count'[j] = IF j = k THEN count[j] - 1 ELSE count[j]
  BY DEF WatchFree
<1>3. k # None => /\ k \in Key /\ memory[k] = "live"
                  /\ count[k] = Cardinality(Holders(k)) /\ count[k] # 0
  BY KeyFacts, NoHolder DEF RefsInv, Types, NoDangling
<1>4. k # None => \E d \in Ctx : d # w /\ slot[d] = k
  BY <1>1 DEF RefsInv, Owners
<1>5. own[w] = None
  BY <1>1 DEF RefsInv, Owners
<1>6. \A d \in Ctx : d # w => slot'[d] = slot[d] /\ kind'[d] = kind[d]
  BY <1>1 DEF RefsInv, Types
<1>7. slot'[w] = None /\ kind'[w] = "gone"
  BY <1>1 DEF RefsInv, Types
<1>8. Types'
  <2>1. \A j \in Key : count'[j] \in Nat
    BY <1>2, <1>3, RefsAssumption DEF RefsInv, Types
  <2>2. count' \in [Key -> Nat]
    BY <2>1 DEF WatchFree
  <2> QED BY <1>1, <2>2 DEF RefsInv, Types, Kind
<1>9. NoDangling'
  BY <1>1, <1>6, <1>7 DEF RefsInv, NoDangling
<1>10. Counted'
  <2> SUFFICES ASSUME NEW j \in Key \ Listed, memory'[j] = "live"
               PROVE  count'[j] = Cardinality(Holders(j)')
    BY DEF Counted
  <2>1. slot \in [Ctx -> Key \cup {None}] /\ count \in [Key -> Nat]
    BY DEF RefsInv, Types
  <2>2. Cardinality(Holders(j)') = HoldersAfter(w, None, j)
    BY <1>1, <2>1, Repoint, Zenon
  <2>3. j # None /\ count[j] = Cardinality(Holders(j))
    BY <1>1, KeyFacts
  <2> QED BY <1>2, <2>1, <2>2, <2>3 DEF HoldersAfter
<1>11. Owned'
  <2>1. ASSUME NEW j \in Key \ Listed, memory[j] = "live" PROVE \E d \in Ctx : j \in {slot'[d], own[d]}
    <3>1. PICK d \in Ctx : j \in {slot[d], own[d]}
      BY <2>1 DEF RefsInv, Owned
    <3>2. j # None
      BY KeyFacts
    <3> QED BY <1>4, <1>5, <1>6, <3>1, <3>2
  <2> QED BY <1>1, <2>1 DEF Owned
<1>12. Owners'
  <2>1. ASSUME NEW d \in Ctx, own[d] # None, slot[d] # own[d],
               own[d] \notin Listed PROVE count'[own[d]] = 0
    <3>1. own[d] \in Key /\ count[own[d]] = 0
      BY <2>1 DEF RefsInv, Owners, Types
    <3>2. own[d] # k
      BY <1>3, <2>1, <3>1
    <3> QED BY <1>2, <3>1, <3>2
  <2>2. \A j \in Key : memory[j] = "unused" => count'[j] = 0
    BY <1>2, <1>3, RefsAssumption DEF RefsInv, Owners
  <2>3. \A d \in Ctx : slot'[d] \notin Listed
    BY <1>6, <1>7, RefsAssumption DEF RefsInv, Owners
  <2> QED BY <1>1, <1>5, <1>6, <1>7, <2>1, <2>2, <2>3 DEF RefsInv, Owners
<1> QED BY <1>8, <1>9, <1>10, <1>11, <1>12 DEF RefsInv

(***************************************************************************)
(* The theorems.                                                           *)
(***************************************************************************)
LEMMA RefsInit == Init => RefsInv
<1> SUFFICES ASSUME Init PROVE RefsInv
  OBVIOUS
<1>1. Types
  BY DEF Init, Types, Kind
<1>2. NoDangling /\ Counted /\ Owned
  BY DEF Init, NoDangling, Counted, Owned
<1>3. Owners
  BY RefsAssumption DEF Init, Owners
<1> QED BY <1>1, <1>2, <1>3 DEF RefsInv

LEMMA RefsStep == ASSUME Disciplined, RefsInv, [Next]_vars PROVE RefsInv'
<1>1. ASSUME NEW v \in Ctx, NEW k \in Key, TakesKey(v, k) PROVE RefsInv'
  <2>1. ~UnlockUser(v, k)
    BY DEF Disciplined, UnlockUser, May
  <2> QED BY <1>1, <2>1, FillStep, DropStep, RotateStep DEF TakesKey
<1>2. ASSUME NEW v \in Ctx, NEW c \in Ctx, Opens(v, c) \/ WatchCreated(v, c) PROVE RefsInv'
  BY <1>2, ShareStep, SubStep, VaultsStep DEF Opens
<1>3. CASE UNCHANGED vars
  BY <1>3 DEF vars, RefsInv, Types, NoDangling, Counted, Holders, Owned, Owners
<1>4. ASSUME NEW v \in Ctx, SubFails(v) \/ WatchFails(v) PROVE RefsInv'
  <2>1. UNCHANGED program
    BY <1>3 DEF Next, vars
  <2> QED BY <1>3, <1>4, <2>1, ChildFreedStep
<1>5. ASSUME NEW v \in Ctx, Ends(v) PROVE RefsInv'
  <2>1. ~WatchLoads(v) /\ ~WatchStores(v)
    BY DEF WatchLoads, WatchStores, Disciplined, RefsInv, Owners
  <2> QED BY <1>5, <2>1, CloseStep, WatchFreeStep DEF Ends
<1> QED BY <1>1, <1>2, <1>3, <1>4, <1>5 DEF Next

\* The inductive invariant of key ownership.
THEOREM RefsHold == Spec => [](program \in Programs /\ (Disciplined => RefsInv))
<1>1. Init => program \in Programs
  BY DEF Init
<1>2. [Next]_vars => UNCHANGED program
  BY DEF Next, vars
<1>3. program \in Programs /\ (Disciplined => RefsInv) /\ [Next]_vars
        => (program \in Programs /\ (Disciplined => RefsInv))'
  BY <1>2, RefsStep DEF Disciplined
<1> QED BY <1>1, <1>3, RefsInit, PTL DEF Spec

\* Every variable keeps its type and no count falls below zero.
THEOREM TypeCorrect == Spec => []TypeOK
<1>1. program \in Programs /\ (Disciplined => RefsInv) => TypeOK
  BY DEF RefsInv, TypeOK
<1> QED BY <1>1, RefsHold, PTL

\* No Vault and no watch points to a freed key (nativeUnlock, nativeFreeVaultKey,
\* vesjni_free_child).
THEOREM KeysStayLive == Spec => [](Disciplined => NoDangling)
<1>1. (Disciplined => RefsInv) => (Disciplined => NoDangling)
  BY DEF RefsInv
<1> QED BY <1>1, RefsHold, PTL

\* Every key is freed with its last owner (Vault.close, nativeWatchFree).
THEOREM KeysAreFreed == Spec => []NothingLeft
<1>1. (Disciplined => RefsInv) => NothingLeft
  BY DEF RefsInv, NothingLeft
<1> QED BY <1>1, RefsHold, PTL

\* The reference count of a key is the number of its holders.
THEOREM CountsAreExact == Spec => []CountsHolders
<1>1. (Disciplined => RefsInv) => CountsHolders
  BY DEF RefsInv, CountsHolders
<1> QED BY <1>1, RefsHold, PTL

\* A key of Java's is one Vault's, and a watch shares the key of an open Vault
\* (nativeFreeVaultKey, vesjni_free_child).
THEOREM OwnersHold == Spec => []OwnersInv
<1>1. (Disciplined => RefsInv) => OwnersInv
  BY DEF RefsInv, OwnersInv
<1> QED BY <1>1, RefsHold, PTL

(***************************************************************************)
(* A Vault without children, whatever becomes of its counts.               *)
(***************************************************************************)
\* No Vault is opened below another, every watch that is asked for is made, and a rotation
\* waits for the watches: what is left may count as it likes, torn and uncounted.
Childless ==
  program.ops \cap {"vault", "subVault", "vaults", "watchFails", "setPrimaryWatched"} = {}

\* The root is the only Vault, Java names no key, and the watches share the root's key
\* or none.
Alone ==
  /\ slot \in [Ctx -> Key \cup {None}] /\ own = [c \in Ctx |-> None]
  /\ kind \in [Ctx -> Kind] /\ parent \in [Ctx -> Ctx \cup {None}]
  /\ memory \in [Key -> {"unused", "live", "freed"}]
  /\ kind[Root] \in {"vault", "gone"}
  /\ \A c \in Ctx \ {Root} :
       /\ kind[c] # "vault" /\ slot[c] \in {None, slot[Root]}
       /\ slot[c] # None => kind[c] = "watch" /\ parent[c] = Root
  /\ \A k \in Key : slot[Root] = k => memory[k] = "live"

LEMMA AloneInit == Init => Alone /\ program \in Programs
  BY RefsAssumption DEF Init, Alone, Kind

\* A key no context points to comes into the root's empty slot, or is dropped.
LEMMA AloneKey ==
  ASSUME Alone, Childless, NEW v \in Ctx, NEW k \in Key, TakesKey(v, k)
  PROVE  Alone'
<1>1. memory[k] = "unused" /\ v = Root /\ IsVault(v) /\ k # None
  BY RefsAssumption
     DEF TakesKey, Unlock, UnlockUser, CreateAnonymous, CreateFails, SetPrimary,
         SetPrimaryFails, New, IsVault, Alone
<1>2. slot[Root] # k
  BY <1>1 DEF Alone
<1>3. CASE Unlock(v, k) \/ UnlockUser(v, k) \/ CreateAnonymous(v, k)
  <2>1. /\ slot[Root] = None /\ slot' = [slot EXCEPT ![Root] = k]
        /\ memory' = [memory EXCEPT ![k] = "live"] /\ UNCHANGED <<kind, parent, own>>
    BY <1>1, <1>3 DEF Unlock, UnlockUser, CreateAnonymous, Mark
  <2> QED BY <1>1, <2>1, RefsAssumption DEF Alone
<1>4. CASE CreateFails(v, k) \/ SetPrimaryFails(v, k)
  <2>1. memory' = [memory EXCEPT ![k] = "freed"] /\ UNCHANGED <<slot, kind, parent, own>>
    BY <1>4 DEF CreateFails, DroppedFrom, SetPrimaryFails, Mark
  <2> QED BY <1>2, <2>1 DEF Alone
<1>5. CASE SetPrimary(v, k)
  <2>1. own[v] = None
    BY DEF Alone
  <2>2. Joined(Root)
    BY <1>1, <1>5, <2>1 DEF SetPrimary, Rotation, May, Childless
  <2>3. \A c \in Ctx \ {Root} : slot[c] = None
    BY <2>2 DEF Joined, Alone
  <2>4. /\ slot' = [slot EXCEPT ![Root] = k] /\ UNCHANGED <<kind, parent, own>>
        /\ memory' \in [Key -> {"unused", "live", "freed"}] /\ memory'[k] = "live"
    BY <1>1, <1>5 DEF SetPrimary, Alone
  <2> QED BY <2>3, <2>4, RefsAssumption DEF Alone
<1> QED BY <1>3, <1>4, <1>5 DEF TakesKey

LEMMA AloneStep == ASSUME Alone, Childless, [Next]_vars PROVE Alone'
<1>1. ASSUME NEW v \in Ctx, NEW c \in Ctx, Opens(v, c) PROVE Alone'
  BY <1>1 DEF Opens, SubNew, Sub, Vaults, May, Childless
<1>2. ASSUME NEW v \in Ctx, NEW w \in Ctx, WatchCreated(v, w) PROVE Alone'
  <2>1. v = Root /\ w # Root /\ kind[w] = "unused" /\ Watched(v) = slot[Root]
    BY <1>2 DEF WatchCreated, IsVault, Watched, Alone
  <2>2. /\ kind' = [kind EXCEPT ![w] = "watch"] /\ parent' = [parent EXCEPT ![w] = Root]
        /\ slot' = [slot EXCEPT ![w] = slot[Root]] /\ UNCHANGED <<own, memory>>
    BY <1>2, <2>1 DEF WatchCreated, RefUp, heap
  <2> QED BY <2>1, <2>2, RefsAssumption DEF Alone, Kind
<1>3. ASSUME NEW v \in Ctx, SubFails(v) \/ WatchFails(v) PROVE Alone'
  BY <1>3 DEF SubFails, WatchFails, May, Childless
<1>4. ASSUME NEW v \in Ctx, Close(v) PROVE Alone'
  <2>1. v = Root /\ \A c \in Ctx \ {Root} : slot[c] = None
    BY <1>4 DEF Close, IsVault, Joined, Alone
  <2>2. /\ kind' = [kind EXCEPT ![Root] = "gone"] /\ slot' = [slot EXCEPT ![Root] = None]
        /\ own' = [own EXCEPT ![Root] = None] /\ parent' = parent
        /\ memory' \in [Key -> {"unused", "live", "freed"}]
    BY <1>4, <2>1 DEF Close, Alone
  <2> QED BY <2>1, <2>2, RefsAssumption DEF Alone, Kind
<1>5. ASSUME NEW w \in Ctx, WatchFree(w) \/ WatchStores(w) PROVE Alone'
  <2>1. /\ kind[w] = "watch" /\ kind' = [kind EXCEPT ![w] = "gone"]
        /\ slot' = [slot EXCEPT ![w] = None] /\ UNCHANGED <<parent, own, memory>>
    BY <1>5 DEF WatchFree, WatchStores, WatchGone, NothingFreed
  <2> QED BY <2>1, RefsAssumption DEF Alone, Kind
<1>6. ASSUME NEW w \in Ctx, WatchLoads(w) PROVE Alone'
  BY <1>6 DEF WatchLoads, Alone
<1>7. CASE UNCHANGED vars
  BY <1>7 DEF vars, Alone
<1> QED BY <1>1, <1>2, <1>3, <1>4, <1>5, <1>6, <1>7, AloneKey DEF Next, Ends

\* NoDangling: the raw decrement of an ending watch (vesjni_free_child), torn by whatever
\* happens beside it and of a key counted or not, frees nothing under the watches' Vault.
THEOREM WatchesAreHarmless == Spec => [](Childless => NoDangling)
<1>1. Init => (Childless => Alone)
  BY AloneInit
<1>2. [Next]_vars => UNCHANGED program
  BY DEF Next, vars
<1>3. (Childless => Alone) /\ [Next]_vars => (Childless => Alone)'
  BY <1>2, AloneStep DEF Childless
<1>4. Alone => NoDangling
  BY RefsAssumption DEF Alone, NoDangling
<1> QED BY <1>1, <1>3, <1>4, PTL DEF Spec
=============================================================================
