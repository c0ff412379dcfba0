-------------------------- MODULE ItemStoreProofs --------------------------
(***************************************************************************)
(* Proofs about ItemStore, for any clients, recipients, share lists, Maps  *)
(* and number of calls.  What the conversion of a Map gives is left open.  *)
(***************************************************************************)
EXTENDS ItemStore, FiniteSetTheorems, TLAPS

Metas == {ToJVar[m] : m \in Maps} \cup {Null}
Values == [id : Nat, cipher : BOOLEAN, meta : Metas]
Writes == {"put", "cipher", "add", "meta", "remove", "delete"}
Ops == [kind : Writes \cup {"idle"}, shares : SUBSET Recipient, to : SUBSET Recipient,
        saw : Nat, value : Values, map : Maps \cup {Null}, fault : BOOLEAN]

Types ==
  /\ held \in [Recipient -> Values] /\ open \in [Client -> Values]
  /\ op \in [Client -> Ops] /\ version \in Nat /\ calls \in Nat
  /\ posted \in Values /\ torn \in BOOLEAN /\ current \subseteq Client

LEMMA ItemFacts ==
  /\ \A c \in Client : Of[c] \in Recipient
  /\ \A s \in Listed : s \subseteq Recipient
  /\ Nothing \in Values /\ Nothing.cipher = FALSE /\ Idle \in Ops /\ Idle.kind = "idle"
  /\ \A n \in Nat : Text(n) \in Values
  /\ \A n \in Nat, j \in Metas : Cipher(n, j) \in Values /\ Cipher(n, j).cipher = TRUE
                                  /\ Cipher(n, j).id = n
  BY ItemAssumption DEF Nothing, Values, Metas, Ops, Idle, Text, Cipher

\* A call that loads: what it will post, and that nothing else is changed but its Vault's op.
LEMMA LoadsOp ==
  ASSUME Types, NEW c \in Client, NEW kind \in Writes, NEW shares \in SUBSET Recipient,
         NEW to \in SUBSET Recipient, NEW value \in Values, NEW map \in Maps \cup {Null},
         NEW fault \in BOOLEAN, Loads(c, kind, shares, to, value, map, fault)
  PROVE  /\ op' \in [Client -> Ops] /\ calls' \in Nat
         /\ \A d \in Client : d # c => op'[d] = op[d]
         /\ op'[c] = [kind |-> kind, shares |-> shares, to |-> to, saw |-> version,
                      value |-> value, map |-> map, fault |-> fault]
  BY DEF Loads, Types, Ops

(***************************************************************************)
(* What a call carries from its load to its post.                          *)
(***************************************************************************)
Carries(c, o, at) ==
  /\ o.saw <= at /\ o.kind \in Writes
  /\ o.kind = "delete" => o.to = Recipient /\ o.value = Nothing
  /\ o.kind = "remove" => o.to = {}
  /\ o.kind \in {"cipher", "meta"} => o.value.cipher
  /\ o.kind = "meta" => o.value.id = open[c].id
  /\ o.saw = at =>
       /\ o.kind \in {"put", "cipher", "add", "meta"} => o.to = Entries(c, o.shares)
       /\ o.kind = "add" => o.value = Get(c) /\ Get(c) # Nothing
       /\ o.kind = "cipher" /\ ~o.fault => ~HasCipher(c)

OpOK(c) == op[c] # Idle => Carries(c, op[c], version)
OpsOK == \A c \in Client : OpOK(c)

\* The calls that load do nothing else that is seen, and load what they say.
Loaded(c) ==
  /\ UNCHANGED <<held, version, history>> /\ calls' \in Nat
  /\ op' \in [Client -> Ops] /\ \A d \in Client : d # c => op'[d] = op[d]
  /\ open' \in [Client -> Values]
  /\ \A d \in Client : open'[d].id = open[d].id /\ open'[d].cipher = open[d].cipher
  /\ Carries(c, op'[c], version)

LEMMA LoadsWell ==
  ASSUME Types, NEW c \in Client, NEW kind \in Writes, NEW shares \in SUBSET Recipient,
         NEW to \in SUBSET Recipient, NEW value \in Values, NEW map \in Maps \cup {Null},
         NEW fault \in BOOLEAN, Loads(c, kind, shares, to, value, map, fault),
         open' \in [Client -> Values],
         \A d \in Client : open'[d].id = open[d].id /\ open'[d].cipher = open[d].cipher,
         /\ kind = "delete" => to = Recipient /\ value = Nothing
         /\ kind = "remove" => to = {}
         /\ kind \in {"cipher", "meta"} => value.cipher
         /\ kind = "meta" => value.id = open[c].id
         /\ kind \in {"put", "cipher", "add", "meta"} => to = Entries(c, shares)
         /\ kind = "add" => value = Get(c) /\ Get(c) # Nothing
         /\ kind = "cipher" /\ ~fault => ~HasCipher(c)
  PROVE  Loaded(c)
<1> DEFINE o == op'[c]
<1>1. UNCHANGED <<held, version, history>>
  BY DEF Loads
<1>2. /\ op' \in [Client -> Ops] /\ calls' \in Nat
      /\ \A d \in Client : d # c => op'[d] = op[d]
      /\ o = [kind |-> kind, shares |-> shares, to |-> to, saw |-> version,
              value |-> value, map |-> map, fault |-> fault]
  BY LoadsOp
<1>3. /\ o.kind = kind /\ o.shares = shares /\ o.to = to /\ o.saw = version /\ o.value = value
      /\ o.fault = fault
  BY <1>2
<1>4. version <= version
  BY DEF Types
<1> HIDE DEF o
<1>5. Carries(c, o, version)
  BY <1>3, <1>4 DEF Carries
<1> QED BY <1>1, <1>2, <1>5 DEF Loaded, o

LEMMA OpenKept ==
  ASSUME Types, UNCHANGED open
  PROVE  /\ open' \in [Client -> Values]
         /\ \A d \in Client : open'[d].id = open[d].id /\ open'[d].cipher = open[d].cipher
  BY DEF Types

LEMMA EntriesTyped ==
  ASSUME NEW c \in Client, NEW shares \in SUBSET Recipient
  PROVE  Entries(c, shares) \in SUBSET Recipient
  BY ItemFacts DEF Entries, Share

LEMMA PutLoads ==
  ASSUME Types, NEW c \in Client, NEW shares \in Listed, Put(c, shares)
  PROVE  Loaded(c)
<1>1. shares \in SUBSET Recipient /\ calls + 1 \in Nat
  BY ItemFacts DEF Types
<1>2. Loads(c, "put", shares, Entries(c, shares), Text(calls + 1), Null, FALSE) /\ UNCHANGED open
  BY DEF Put
<1>3. Text(calls + 1) \in Values
  BY <1>1, ItemFacts
<1> QED BY <1>1, <1>2, <1>3, LoadsWell, EntriesTyped, OpenKept DEF Writes

LEMMA PutRawLoads ==
  ASSUME Types, NEW c \in Client, NEW shares \in Listed, NEW m \in Maps, PutRaw(c, shares, m)
  PROVE  Loaded(c)
<1>1. shares \in SUBSET Recipient /\ calls + 1 \in Nat /\ ToJVar[m] \in Metas
  BY ItemFacts DEF Types, Metas
<1>2. Loads(c, "put", shares, Entries(c, shares), Cipher(calls + 1, ToJVar[m]), m, FALSE)
        /\ UNCHANGED open
  BY DEF PutRaw
<1>3. Cipher(calls + 1, ToJVar[m]) \in Values
  BY <1>1, ItemFacts
<1> QED BY <1>1, <1>2, <1>3, LoadsWell, EntriesTyped, OpenKept DEF Writes

LEMMA MintLoads ==
  ASSUME Types, NEW c \in Client, NEW shares \in Listed, NEW fault \in BOOLEAN,
         MintCipher(c, shares, fault)
  PROVE  Loaded(c)
<1>1. shares \in SUBSET Recipient /\ calls + 1 \in Nat /\ Null \in Metas
  BY ItemFacts DEF Types, Metas
<1>2. Loads(c, "cipher", shares, Entries(c, shares), Cipher(calls + 1, Null), Null, fault)
        /\ UNCHANGED open
  BY DEF MintCipher
<1>3. Cipher(calls + 1, Null) \in Values /\ Cipher(calls + 1, Null).cipher = TRUE
  BY <1>1, ItemFacts
<1>4. fault \/ ~HasCipher(c)
  BY DEF MintCipher, NoCipherYet
<1> QED BY <1>1, <1>2, <1>3, <1>4, LoadsWell, EntriesTyped, OpenKept DEF Writes

\* meta() changes what its client's cipher says, not which key it is.
LEMMA SetsMetaOnly ==
  ASSUME Types, NEW c \in Client, NEW m \in Maps, SetsMeta(c, m)
  PROVE  /\ open' \in [Client -> Values]
         /\ \A d \in Client : open'[d].id = open[d].id /\ open'[d].cipher = open[d].cipher
<1>1. ToJVar[m] \in Metas
  BY DEF Metas
<1>2. open \in [Client -> Values] /\ open' = [open EXCEPT ![c].meta = ToJVar[m]]
  BY DEF Types, SetsMeta
<1> HIDE DEF Metas
<1> QED BY <1>1, <1>2 DEF Values

LEMMA MetaLoads ==
  ASSUME Types, NEW c \in Client, NEW m \in Maps, Meta(c, m)
  PROVE  Loaded(c)
<1>1. ToJVar[m] \in Metas /\ open[c].id \in Nat
  BY DEF Types, Metas, Values
<1>2. /\ Loads(c, "meta", {}, Entries(c, {}), Reserialized(c, m), m, FALSE)
      /\ SetsMeta(c, m)
  BY DEF Meta
<1>3. /\ Reserialized(c, m) \in Values /\ Reserialized(c, m).cipher = TRUE
      /\ Reserialized(c, m).id = open[c].id
  BY <1>1, ItemFacts DEF Reserialized
<1> QED BY <1>1, <1>2, <1>3, LoadsWell, EntriesTyped, SetsMetaOnly DEF Writes

LEMMA AddLoads ==
  ASSUME Types, NEW c \in Client, NEW shares \in Listed, Add(c, shares)
  PROVE  Loaded(c)
<1>1. shares \in SUBSET Recipient /\ Get(c) \in Values
  BY ItemFacts DEF Types, Get
<1>2. /\ Loads(c, "add", shares, Entries(c, shares), Get(c), Null, FALSE) /\ UNCHANGED open
      /\ Get(c) # Nothing
  BY DEF Add
<1> QED BY <1>1, <1>2, LoadsWell, EntriesTyped, OpenKept DEF Writes

LEMMA RemoveLoads ==
  ASSUME Types, NEW c \in Client, NEW shares \in Listed, Remove(c, shares)
  PROVE  Loaded(c)
<1>1. shares \in SUBSET Recipient
  BY ItemFacts
<1>2. Loads(c, "remove", shares, {}, Nothing, Null, FALSE) /\ UNCHANGED open
  BY DEF Remove
<1> QED BY <1>1, <1>2, LoadsWell, OpenKept, ItemFacts DEF Writes

LEMMA DeleteLoads ==
  ASSUME Types, NEW c \in Client, Delete(c)
  PROVE  Loaded(c)
<1>1. Loads(c, "delete", {}, Recipient, Nothing, Null, FALSE) /\ UNCHANGED open
  BY DEF Delete
<1> QED BY <1>1, LoadsWell, OpenKept, ItemFacts DEF Writes

(***************************************************************************)
(* The other steps but Post: they are seen by no one else.                 *)
(***************************************************************************)
Quiet(c) ==
  /\ UNCHANGED <<held, version, posted, torn>> /\ calls' \in Nat
  /\ op' \in [Client -> Ops] /\ op'[c] = Idle /\ open' \in [Client -> Values]
  /\ \A d \in Client : d # c => op'[d] = op[d] /\ open'[d] = open[d]

\* Who relies on a cipher after a quiet step: the same, but for a client that opened or
\* closed one.
QuietRelying(c) ==
  \/ current' = current /\ open'[c].id = open[c].id
  \/ current' = current \ {c}
  \/ ~torn /\ current' = current \cup {c} /\ open'[c] = Get(c) /\ HasCipher(c)

LEMMA QuietSteps ==
  ASSUME Types, NEW c \in Client,
         OpenCipher(c) \/ CloseCipher(c) \/ PostFails(c) \/ \E m \in Maps : MetaFails(c, m)
  PROVE  Quiet(c) /\ QuietRelying(c)
<1>1. CASE OpenCipher(c)
  <2>1. Get(c) \in Values
    BY ItemFacts DEF Types, Get
  <2>2. open' = [open EXCEPT ![c] = Get(c)] /\ op[c] = Idle
          /\ UNCHANGED <<held, version, op, calls, posted, torn>>
    BY <1>1 DEF OpenCipher
  <2>3. current' = IF torn THEN current \ {c} ELSE current \cup {c}
    BY <1>1 DEF OpenCipher
  <2>4. HasCipher(c)
    BY <1>1 DEF OpenCipher
  <2> QED BY <2>1, <2>2, <2>3, <2>4 DEF Quiet, QuietRelying, Types
<1>2. CASE CloseCipher(c)
  BY <1>2, ItemFacts DEF CloseCipher, Quiet, QuietRelying, Types
<1>3. CASE PostFails(c)
  BY <1>3, ItemFacts DEF PostFails, Quiet, QuietRelying, Types, history
<1>4. ASSUME NEW m \in Maps, MetaFails(c, m) PROVE Quiet(c) /\ QuietRelying(c)
  <2>1. op[c] = Idle /\ SetsMeta(c, m) /\ calls' = calls + 1
          /\ UNCHANGED <<held, version, op, posted, torn, current>>
    BY <1>4 DEF MetaFails, history
  <2>2. open' = [open EXCEPT ![c].meta = ToJVar[m]]
    BY <2>1 DEF SetsMeta
  <2>3. /\ open' \in [Client -> Values]
        /\ \A d \in Client : open'[d].id = open[d].id /\ open'[d].cipher = open[d].cipher
    BY <2>1, SetsMetaOnly
  <2>4. \A d \in Client : d # c => open'[d] = open[d]
    BY <2>2 DEF Types
  <2> QED BY <2>1, <2>3, <2>4 DEF Quiet, QuietRelying, Types
<1> QED BY <1>1, <1>2, <1>3, <1>4

\* Every step is one of three kinds.
LEMMA Kinds ==
  ASSUME Types, Next
  PROVE  \E c \in Client :
           \/ \E replied \in BOOLEAN : Post(c, replied)
           \/ Loaded(c)
           \/ Quiet(c) /\ QuietRelying(c)
<1>1. PICK c \in Client :
        \/ OpenCipher(c) \/ CloseCipher(c) \/ Delete(c) \/ PostFails(c)
        \/ \E replied \in BOOLEAN : Post(c, replied)
        \/ \E shares \in Listed :
             \/ Put(c, shares) \/ Add(c, shares) \/ Remove(c, shares)
             \/ \E fault \in BOOLEAN : MintCipher(c, shares, fault)
             \/ \E m \in Maps : PutRaw(c, shares, m)
        \/ \E m \in Maps : Meta(c, m) \/ MetaFails(c, m)
  BY DEF Next
<1>2. ASSUME OpenCipher(c) \/ CloseCipher(c) \/ PostFails(c) \/ \E m \in Maps : MetaFails(c, m)
      PROVE  Quiet(c) /\ QuietRelying(c)
  BY <1>2, QuietSteps
<1>3. ASSUME NEW shares \in Listed,
             \/ Put(c, shares) \/ Add(c, shares) \/ Remove(c, shares)
             \/ \E fault \in BOOLEAN : MintCipher(c, shares, fault)
             \/ \E m \in Maps : PutRaw(c, shares, m)
      PROVE  Loaded(c)
  BY <1>3, PutLoads, AddLoads, RemoveLoads, MintLoads, PutRawLoads
<1>4. ASSUME NEW m \in Maps, Meta(c, m) PROVE Loaded(c)
  BY <1>4, MetaLoads
<1>5. ASSUME Delete(c) PROVE Loaded(c)
  BY <1>5, DeleteLoads
<1> QED BY <1>1, <1>2, <1>3, <1>4, <1>5

(***************************************************************************)
(* Types.                                                                  *)
(***************************************************************************)
LEMMA LandedTyped ==
  ASSUME Types, NEW c \in Client PROVE Landed(op[c]) \in [Recipient -> Values]
<1>1. op[c].value \in Values
  BY DEF Types, Ops
<1> QED BY <1>1, ItemFacts DEF Types, Landed

LEMMA PostTyped ==
  ASSUME Types, NEW c \in Client, NEW replied \in BOOLEAN, Post(c, replied) PROVE Types'
<1>1. op[c].value \in Values /\ Idle \in Ops
  BY ItemFacts DEF Types, Ops
<1>2. held' \in [Recipient -> Values]
  BY LandedTyped DEF Post
<1>3. /\ op' = [op EXCEPT ![c] = Idle] /\ version' = version + 1 /\ calls' = calls
      /\ open' = IF Returned(c, replied) THEN [open EXCEPT ![c] = op[c].value] ELSE open
  BY DEF Post
<1>4. current' \subseteq Client
  <2>1. Relying(c, replied) \subseteq Client
    BY DEF Relying, Types
  <2> QED BY <2>1 DEF Post
<1>5. torn' \in BOOLEAN
  BY DEF Post, Types, Stale
<1>6. posted' \in Values
  BY <1>1 DEF Post, Types
<1> QED BY <1>1, <1>2, <1>3, <1>4, <1>5, <1>6 DEF Types

LEMMA TypesStep == Types /\ [Next]_vars => Types'
<1> SUFFICES ASSUME Types, [Next]_vars PROVE Types'
  OBVIOUS
<1>1. CASE UNCHANGED vars
  BY <1>1 DEF vars, history, Types
<1>2. CASE Next
  <2>1. PICK c \in Client :
          \/ \E replied \in BOOLEAN : Post(c, replied)
          \/ Loaded(c)
          \/ Quiet(c) /\ QuietRelying(c)
    BY <1>2, Kinds
  <2>2. CASE Loaded(c)
    BY <2>2 DEF Loaded, Types, history
  <2>3. CASE Quiet(c) /\ QuietRelying(c)
    BY <2>3 DEF Quiet, QuietRelying, Types
  <2> QED BY <2>1, <2>2, <2>3, PostTyped
<1> QED BY <1>1, <1>2

(***************************************************************************)
(* What a call carries is of the version it saw.                           *)
(***************************************************************************)
\* What two states agree on, a call carries in both.
LEMMA CarriesOn ==
  ASSUME NEW c \in Client, NEW o, Carries(c, o, version), UNCHANGED <<held, version>>,
         open'[c].id = open[c].id
  PROVE  Carries(c, o, version)'
  BY DEF Carries, Entries, Share, Get, HasCipher

LEMMA OpsStep == Types /\ OpsOK /\ [Next]_vars => OpsOK'
<1> SUFFICES ASSUME Types, OpsOK, [Next]_vars, NEW d \in Client, (op[d] # Idle)'
             PROVE  Carries(d, op[d], version)'
  BY DEF OpsOK, OpOK
<1>1. CASE UNCHANGED vars
  <2>1. op'[d] = op[d] /\ Carries(d, op[d], version)
    BY <1>1 DEF vars, OpsOK, OpOK
  <2> QED BY <1>1, <2>1, CarriesOn DEF vars
<1>2. CASE Next
  <2>1. PICK c \in Client :
          \/ \E replied \in BOOLEAN : Post(c, replied)
          \/ Loaded(c)
          \/ Quiet(c) /\ QuietRelying(c)
    BY <1>2, Kinds
  <2>2. ASSUME NEW replied \in BOOLEAN, Post(c, replied)
        PROVE  Carries(d, op[d], version)'
    <3>1. version' = version + 1 /\ op' = [op EXCEPT ![c] = Idle]
      BY <2>2 DEF Post
    <3>2. d # c /\ op'[d] = op[d]
      BY <3>1 DEF Types
    <3>3. Carries(d, op[d], version)
      BY <3>2 DEF OpsOK, OpOK
    <3>4. open'[d] = open[d]
      BY <2>2, <3>2 DEF Post, Types
    <3>5. op[d].saw <= version' /\ op[d].saw # version'
      <4>1. op[d].saw \in Nat /\ version \in Nat
        BY DEF Types, Ops
      <4> QED BY <3>1, <3>3, <4>1 DEF Carries
    <3> HIDE <2>2
    <3> QED BY <3>2, <3>3, <3>4, <3>5 DEF Carries
  <2>3. CASE Loaded(c)
    <3>1. ASSUME d = c PROVE Carries(d, op'[d], version)
      BY <2>3, <3>1 DEF Loaded
    <3>2. ASSUME d # c PROVE Carries(d, op'[d], version)
      BY <2>3, <3>2 DEF Loaded, OpsOK, OpOK
    <3>3. UNCHANGED <<held, version>> /\ open'[d].id = open[d].id
      BY <2>3 DEF Loaded
    <3> QED BY <3>1, <3>2, <3>3, CarriesOn
  <2>4. CASE Quiet(c) /\ QuietRelying(c)
    <3>1. d # c /\ op'[d] = op[d] /\ open'[d] = open[d] /\ UNCHANGED <<held, version>>
      BY <2>4 DEF Quiet
    <3>2. Carries(d, op[d], version)
      BY <3>1 DEF OpsOK, OpOK
    <3> QED BY <3>1, <3>2, CarriesOn
  <2> QED BY <2>1, <2>2, <2>3, <2>4
<1> QED BY <1>1, <1>2

(***************************************************************************)
(* Nobody gets in unnamed.                                                 *)
(***************************************************************************)
Admits(c, v) ==
  /\ op[c].kind \in {"put", "cipher", "add", "meta"} /\ op'[c] = Idle
  /\ v \in op[c].shares \cup {Of[c]} \/ Stale(c)

LEMMA PostAdmits ==
  ASSUME Types, OpsOK, NEW c \in Client, NEW replied \in BOOLEAN, Post(c, replied),
         NEW v \in Recipient, held[v] = Nothing, held'[v] # Nothing
  PROVE  Admits(c, v)
<1> DEFINE o == op[c]
<1>1. Carries(c, o, version) /\ op' = [op EXCEPT ![c] = Idle]
  BY DEF Post, OpsOK, OpOK
<1>2. v \in o.to /\ o.value # Nothing /\ held'[v] = o.value
  BY DEF Post, Landed
<1>3. o.kind \notin {"remove", "delete"}
  BY <1>1, <1>2 DEF Carries
<1>4. o.kind \in {"put", "cipher", "add", "meta"}
  BY <1>1, <1>3 DEF Carries, Writes
<1>5. ~Stale(c) => v \in Entries(c, o.shares)
  BY <1>1, <1>2, <1>4 DEF Carries, Stale
<1>6. v \notin Share
  BY DEF Share
<1> QED BY <1>1, <1>4, <1>5, <1>6 DEF Admits, Entries, Types

LEMMA NamedStep ==
  Types /\ OpsOK /\ [Next]_vars =>
    \A v \in Recipient : held[v] = Nothing /\ held'[v] # Nothing => \E c \in Client : Admits(c, v)
<1> SUFFICES ASSUME Types, OpsOK, [Next]_vars, NEW v \in Recipient,
                    held[v] = Nothing, held'[v] # Nothing
             PROVE  \E c \in Client : Admits(c, v)
  OBVIOUS
<1>1. CASE UNCHANGED vars
  BY <1>1 DEF vars
<1>2. CASE Next
  <2>1. PICK c \in Client :
          \/ \E replied \in BOOLEAN : Post(c, replied)
          \/ Loaded(c)
          \/ Quiet(c) /\ QuietRelying(c)
    BY <1>2, Kinds
  <2>2. held' # held
    OBVIOUS
  <2>3. PICK replied \in BOOLEAN : Post(c, replied)
    BY <2>1, <2>2 DEF Loaded, Quiet
  <2> QED BY <2>3, PostAdmits
<1> QED BY <1>1, <1>2

(***************************************************************************)
(* Readers agree.                                                          *)
(***************************************************************************)
LEMMA PostAgrees ==
  ASSUME Types, OpsOK, ReadersAgree, NEW c \in Client, NEW replied \in BOOLEAN, Post(c, replied)
  PROVE  ReadersAgree'
<1> DEFINE o == op[c]
<1>1. Carries(c, o, version) /\ held' = Landed(o)
  BY DEF Post, OpsOK, OpOK
<1> SUFFICES ASSUME ~torn', NEW v \in Recipient PROVE held'[v] \in {Nothing, posted'}
  BY DEF ReadersAgree
<1>2. CASE o.kind = "remove"
  <2>1. posted' = posted /\ ~torn
    BY <1>2 DEF Post
  <2>2. held'[v] \in {Nothing, held[v]}
    BY <1>1, <1>2 DEF Landed, Carries
  <2> QED BY <2>1, <2>2 DEF ReadersAgree
<1>3. CASE o.kind = "delete"
  BY <1>1, <1>3 DEF Landed, Carries
<1>4. CASE o.kind = "add"
  <2>1. posted' = posted /\ ~torn /\ ~Stale(c)
    BY <1>4 DEF Post
  <2>2. o.value = Get(c)
    BY <1>1, <1>4, <2>1 DEF Carries, Stale
  <2>3. held'[v] \in {held[v], Get(c)}
    BY <1>1, <1>4, <2>2 DEF Landed
  <2> QED BY <2>1, <2>3, ItemFacts DEF ReadersAgree, Get
<1>5. CASE o.kind \in {"put", "cipher", "meta"}
  <2>1. posted' = o.value /\ ~Stale(c)
    BY <1>5 DEF Post
  <2>2. o.to = Entries(c, o.shares)
    BY <1>1, <1>5, <2>1 DEF Carries, Stale
  <2>3. held'[v] = IF v \in o.to THEN o.value ELSE held[v]
    BY <1>1, <1>5 DEF Landed
  <2>4. v \notin o.to => held[v] = Nothing
    BY <2>2 DEF Entries, Share
  <2> QED BY <2>1, <2>3, <2>4
<1>6. o.kind \in Writes
  BY <1>1 DEF Carries
<1> QED BY <1>2, <1>3, <1>4, <1>5, <1>6 DEF Writes

LEMMA AgreeStep == Types /\ OpsOK /\ ReadersAgree /\ [Next]_vars => ReadersAgree'
<1> SUFFICES ASSUME Types, OpsOK, ReadersAgree, [Next]_vars PROVE ReadersAgree'
  OBVIOUS
<1>1. CASE UNCHANGED vars
  BY <1>1 DEF vars, history, ReadersAgree
<1>2. CASE Next
  <2>1. PICK c \in Client :
          \/ \E replied \in BOOLEAN : Post(c, replied)
          \/ Loaded(c)
          \/ Quiet(c) /\ QuietRelying(c)
    BY <1>2, Kinds
  <2>2. CASE Loaded(c)
    BY <2>2 DEF Loaded, history, ReadersAgree
  <2>3. CASE Quiet(c) /\ QuietRelying(c)
    BY <2>3 DEF Quiet, ReadersAgree
  <2> QED BY <2>1, <2>2, <2>3, PostAgrees
<1> QED BY <1>1, <1>2

(***************************************************************************)
(* Ciphers go on opening.                                                  *)
(***************************************************************************)
RelyOK ==
  /\ torn => current = {}
  /\ Share = {} => current = {}
  /\ CiphersOpen

\* While somebody relies on a cipher, every holder has that one.
LEMMA OneCipher ==
  ASSUME RelyOK, NEW d \in current, NEW v \in Share
  PROVE  ~torn /\ held[v].cipher /\ held[v].id = open[d].id
  BY DEF RelyOK, CiphersOpen

\* After a post, whoever still relies on a cipher has the one that every holder has.
LEMMA PostOpens ==
  ASSUME Types, OpsOK, ReadersAgree, RelyOK, NEW c \in Client, NEW replied \in BOOLEAN,
         Post(c, replied)
  PROVE  RelyOK'
<1> DEFINE o == op[c]
<1> DEFINE gone == \A v \in Recipient : held'[v] = Nothing
<1>1. Carries(c, o, version) /\ held' = Landed(o) /\ o.kind \in Writes
  BY DEF Post, OpsOK, OpOK, Carries
<1>2. current' = IF gone THEN {} ELSE Relying(c, replied)
  BY DEF Post
<1>3. CASE gone
  <2>1. Share' = {}
    BY <1>3 DEF Share
  <2> QED BY <1>2, <1>3, <2>1 DEF RelyOK, CiphersOpen
<1>4. ASSUME ~gone PROVE Share' # {} /\ current' = Relying(c, replied)
  BY <1>2, <1>4 DEF Share
<1>5. CASE ~gone /\ o.kind \in {"put", "delete"}
  BY <1>4, <1>5 DEF Relying, RelyOK, CiphersOpen
<1>6. CASE ~gone /\ o.kind = "remove"
  <2>1. current' = current /\ torn' = torn /\ open' = open
    BY <1>4, <1>6 DEF Relying, Post, Returned
  <2>2. \A v \in Share' : v \in Share /\ held'[v] = held[v]
    BY <1>1, <1>6 DEF Share, Landed, Carries
  <2> QED BY <1>4, <1>6, <2>1, <2>2 DEF RelyOK, CiphersOpen
<1>7. CASE ~gone /\ o.kind \in {"cipher", "add", "meta"} /\ Stale(c)
  BY <1>4, <1>7 DEF Relying, RelyOK, CiphersOpen
<1>8. CASE ~gone /\ o.kind = "add" /\ ~Stale(c)
  <2>1. current' = current /\ torn' = torn /\ open' = open
    <3>1. current' = current /\ open' = open
      BY <1>4, <1>8 DEF Relying, Post, Returned
    <3>2. torn' = torn
      BY <1>8 DEF Post, Types
    <3> QED BY <3>1, <3>2
  <2>2. o.value = Get(c) /\ Of[c] \in Share
    BY <1>1, <1>8, ItemFacts DEF Carries, Stale, Share, Get
  <2>3. \A v \in Share' : held'[v] = held[Of[c]] \/ (v \in Share /\ held'[v] = held[v])
    BY <1>1, <1>8, <2>2 DEF Share, Landed, Get
  <2> QED BY <1>4, <1>8, <2>1, <2>2, <2>3 DEF RelyOK, CiphersOpen
<1>9. CASE ~gone /\ o.kind \in {"cipher", "meta"} /\ ~Stale(c)
  <2>1. torn' = FALSE /\ o.value.cipher
    BY <1>1, <1>9 DEF Post, Carries
  <2>2. o.to = Entries(c, o.shares)
    BY <1>1, <1>9 DEF Carries, Stale
  <2>3. \A v \in Share' : held'[v] = o.value
    BY <1>1, <1>9, <2>2 DEF Share, Landed, Entries
  <2>4. CASE o.kind = "cipher"
    <3>1. current' = (IF o.fault THEN {} ELSE current \ {c}) \cup (IF replied THEN {c} ELSE {})
      BY <1>4, <1>9, <2>4 DEF Relying, Returned
    <3>2. current # {} => o.fault
      <4>1. SUFFICES ASSUME NEW d \in current, ~o.fault PROVE FALSE
        OBVIOUS
      <4>2. Of[c] \in Share
        BY <4>1, ItemFacts DEF Post, Writable, RelyOK
      <4>3. held[Of[c]].cipher
        BY <4>2, OneCipher
      <4>4. ~HasCipher(c)
        BY <1>1, <1>9, <2>4, <4>1 DEF Carries, Stale
      <4> QED BY <4>3, <4>4 DEF HasCipher, Get
    <3>3. current' = {} \/ (current' = {c} /\ replied)
      BY <3>1, <3>2
    <3>4. replied => open' = [open EXCEPT ![c] = o.value]
      BY <2>4 DEF Post, Returned
    <3>5. \A d \in current' : open'[d] = o.value
      BY <3>3, <3>4 DEF Types
    <3> QED BY <1>4, <1>9, <2>1, <2>3, <3>5 DEF RelyOK, CiphersOpen
  <2>5. CASE o.kind = "meta"
    <3>1. open' = open /\ o.value.id = open[c].id
      BY <1>1, <2>5 DEF Post, Returned, Carries
    <3>2. current' = IF c \in current THEN current ELSE {c}
      BY <1>4, <1>9, <2>5 DEF Relying
    <3>3. ASSUME NEW d \in current' PROVE open[d].id = o.value.id
      <4>1. CASE c \in current
        <5>1. PICK v \in Share : TRUE
          BY <4>1 DEF RelyOK
        <5> QED BY <3>1, <3>2, <4>1, <5>1, OneCipher
      <4>2. CASE c \notin current
        BY <3>1, <3>2, <4>2
      <4> QED BY <4>1, <4>2
    <3> QED BY <1>4, <1>9, <2>1, <2>3, <3>1, <3>3 DEF RelyOK, CiphersOpen
  <2> QED BY <1>9, <2>4, <2>5
<1> QED BY <1>1, <1>3, <1>5, <1>6, <1>7, <1>8, <1>9 DEF Writes

LEMMA RelyStep == Types /\ OpsOK /\ ReadersAgree /\ RelyOK /\ [Next]_vars => RelyOK'
<1> SUFFICES ASSUME Types, OpsOK, ReadersAgree, RelyOK, [Next]_vars PROVE RelyOK'
  OBVIOUS
<1>1. CASE UNCHANGED vars
  BY <1>1 DEF vars, history, RelyOK, CiphersOpen, Share
<1>2. CASE Next
  <2>1. PICK c \in Client :
          \/ \E replied \in BOOLEAN : Post(c, replied)
          \/ Loaded(c)
          \/ Quiet(c) /\ QuietRelying(c)
    BY <1>2, Kinds
  <2>2. CASE Loaded(c)
    <3>1. UNCHANGED <<held, torn, current>> /\ \A d \in Client : open'[d].id = open[d].id
      BY <2>2 DEF Loaded, history
    <3> QED BY <3>1 DEF RelyOK, CiphersOpen, Share, Types
  <2>3. CASE Quiet(c) /\ QuietRelying(c)
    <3>1. UNCHANGED <<held, torn>> /\ \A d \in Client : d # c => open'[d] = open[d]
      BY <2>3 DEF Quiet
    <3>2. Share' = Share
      BY <3>1 DEF Share
    <3>3. CASE current' = current /\ open'[c].id = open[c].id
      BY <3>1, <3>2, <3>3 DEF RelyOK, CiphersOpen, Types
    <3>4. CASE current' = current \ {c}
      BY <3>1, <3>2, <3>4 DEF RelyOK, CiphersOpen, Types
    <3>5. CASE ~torn /\ current' = current \cup {c} /\ open'[c] = Get(c) /\ HasCipher(c)
      <4>1. Of[c] \in Share /\ held[Of[c]].cipher
        BY <3>5, ItemFacts DEF HasCipher, Get, Share
      <4>2. \A v \in Share : held[v] = held[Of[c]]
        BY <3>5, <4>1 DEF ReadersAgree, Share
      <4>3. ASSUME NEW d \in current', NEW v \in Share
            PROVE  held[v].cipher /\ held[v].id = open'[d].id
        BY <3>1, <3>5, <4>1, <4>2, <4>3, OneCipher DEF Get, Types
      <4> QED BY <3>1, <3>2, <3>5, <4>1, <4>3 DEF RelyOK, CiphersOpen
    <3> QED BY <2>3, <3>3, <3>4, <3>5 DEF QuietRelying
  <2> QED BY <2>1, <2>2, <2>3, PostOpens
<1> QED BY <1>1, <1>2

(***************************************************************************)
(* The invariant, and the theorems.                                        *)
(***************************************************************************)
ItemInv == Types /\ OpsOK /\ ReadersAgree /\ RelyOK

LEMMA InvInit == Init => ItemInv
<1> SUFFICES ASSUME Init PROVE ItemInv
  OBVIOUS
<1>1. Types
  BY ItemFacts DEF Init, Types
<1>2. OpsOK
  BY DEF Init, OpsOK, OpOK
<1>3. ReadersAgree /\ RelyOK
  BY DEF Init, ReadersAgree, RelyOK, CiphersOpen
<1> QED BY <1>1, <1>2, <1>3 DEF ItemInv

LEMMA Invariance == Spec => []ItemInv
<1>1. ItemInv /\ [Next]_vars => ItemInv'
  BY TypesStep, OpsStep, AgreeStep, RelyStep DEF ItemInv
<1> QED BY <1>1, InvInit, PTL DEF Spec

\* Whoever can read the item reads what was put last, but for posts from versions that
\* were no longer the server's.
THEOREM ReadersReadThePosted == Spec => []ReadersAgree
<1>1. ItemInv => ReadersAgree
  BY DEF ItemInv
<1> QED BY <1>1, Invariance, PTL

\* A cipher that was handed out goes on opening the item for all who hold it.
THEOREM CiphersGoOnOpening == Spec => []CiphersOpen
<1>1. ItemInv => CiphersOpen
  BY DEF ItemInv, RelyOK
<1> QED BY <1>1, Invariance, PTL

\* No call lets in a vault it does not name, but for a post from an old version.
THEOREM OnlyNamedGetIn == Spec => NamedToGetIn
<1>1. ItemInv /\ [Next]_vars =>
        [\A v \in Recipient : held[v] = Nothing /\ held'[v] # Nothing =>
           \E c \in Client :
             /\ op[c].kind \in {"put", "cipher", "add", "meta"} /\ op'[c] = Idle
             /\ v \in op[c].shares \cup {Of[c]} \/ Stale(c)]_vars
  BY NamedStep DEF ItemInv, Admits
<1> QED BY <1>1, Invariance, PTL DEF Spec, NamedToGetIn

(***************************************************************************)
(* Bounds, metadata, and the ciphers that are relied on.                   *)
(***************************************************************************)
\* The metadata that goes with a Map, or with none.
Goes(m, j) == (m = Null /\ j = Null) \/ (m \in Maps /\ j = ToJVar[m])

Carried(o) ==
  o.kind \in {"put", "cipher", "meta"} /\ o.value.cipher => Goes(o.map, o.value.meta)

Busy == {c \in Client : op[c] # Idle}

\* Every write that landed or is pending was a call; ids are those of calls; who relies on
\* a cipher has one.
Bounds ==
  /\ IsFiniteSet(Busy) /\ version + Cardinality(Busy) <= calls /\ calls <= MaxCalls
  /\ \A v \in Recipient : held[v].id <= calls
  /\ \A c \in Client : open[c].id <= calls /\ op[c].value.id <= calls
  /\ \A c \in current : open[c].cipher
  /\ \A c \in Client : op[c].kind = "meta" => open[c].cipher

Metadata ==
  /\ posted.cipher => Goes(asked, posted.meta)
  /\ \A c \in Client : Carried(op[c])

LEMMA BusyGrows ==
  ASSUME IsFiniteSet(Busy), NEW c \in Client, c \notin Busy, Busy' = Busy \cup {c}
  PROVE  IsFiniteSet(Busy') /\ Cardinality(Busy') = Cardinality(Busy) + 1
  BY FS_AddElement

LEMMA BusyShrinks ==
  ASSUME IsFiniteSet(Busy), NEW c \in Client, c \in Busy, Busy' = Busy \ {c}
  PROVE  IsFiniteSet(Busy') /\ Cardinality(Busy') = Cardinality(Busy) - 1
  BY FS_RemoveElement

LEMMA BusyNumber == IsFiniteSet(Busy) => Cardinality(Busy) \in Nat
  BY FS_CardinalityType

\* What a call that loads adds to Loaded.
Began(c) ==
  /\ op[c] = Idle /\ calls < MaxCalls /\ calls' = calls + 1
  /\ op'[c] # Idle /\ op'[c].value.id <= calls + 1
  /\ op'[c].kind = "meta" => open[c].cipher
  /\ Carried(op'[c])

LEMMA BeganBy ==
  ASSUME Types, NEW c \in Client, NEW kind \in Writes, NEW shares \in SUBSET Recipient,
         NEW to \in SUBSET Recipient, NEW value \in Values, NEW map \in Maps \cup {Null},
         NEW fault \in BOOLEAN, Loads(c, kind, shares, to, value, map, fault),
         value.id <= calls + 1, kind = "meta" => open[c].cipher,
         kind \in {"put", "cipher", "meta"} /\ value.cipher => Goes(map, value.meta)
  PROVE  Began(c)
<1>1. op'[c] = [kind |-> kind, shares |-> shares, to |-> to, saw |-> version,
                value |-> value, map |-> map, fault |-> fault]
  BY LoadsOp
<1>2. /\ op'[c].kind = kind /\ op'[c].value = value /\ op'[c].map = map
  BY <1>1
<1>3. op'[c] # Idle
  BY <1>2, ItemFacts DEF Writes
<1> QED BY <1>2, <1>3 DEF Began, Carried, Loads

LEMMA Minted ==
  /\ Nothing.id = 0 /\ \A n : Text(n).id = n /\ Text(n).cipher = FALSE
  /\ \A n, j : Cipher(n, j).id = n /\ Cipher(n, j).meta = j
  BY DEF Text, Cipher, Nothing

\* The calls that load, with a share list.
LEMMA ListedBegan ==
  ASSUME Types, Bounds, NEW c \in Client, NEW shares \in Listed,
         \/ Put(c, shares) \/ Add(c, shares) \/ Remove(c, shares)
         \/ \E fault \in BOOLEAN : MintCipher(c, shares, fault)
         \/ \E m \in Maps : PutRaw(c, shares, m)
  PROVE  Began(c) /\ open' = open
<1>1. /\ shares \in SUBSET Recipient /\ Entries(c, shares) \in SUBSET Recipient
      /\ calls \in Nat /\ calls + 1 \in Nat /\ Get(c) \in Values /\ Get(c).id <= calls
  BY ItemFacts, EntriesTyped DEF Types, Bounds, Get
<1>2. CASE Put(c, shares)
  <2>1. Text(calls + 1) \in Values /\ Text(calls + 1).id <= calls + 1
          /\ Text(calls + 1).cipher = FALSE
    BY <1>1, ItemFacts, Minted
  <2> QED BY <1>1, <1>2, <2>1, BeganBy DEF Put, Writes
<1>3. CASE Add(c, shares)
  <2>1. Get(c).id <= calls + 1
    <3>1. Get(c).id \in Nat
      BY <1>1 DEF Values
    <3> QED BY <1>1, <3>1
  <2> QED BY <1>1, <1>3, <2>1, BeganBy DEF Add, Writes
<1>4. CASE Remove(c, shares)
  <2>1. Nothing \in Values /\ Nothing.id <= calls + 1
    BY <1>1, ItemFacts, Minted
  <2> QED BY <1>1, <1>4, <2>1, BeganBy DEF Remove, Writes
<1>5. ASSUME NEW fault \in BOOLEAN, MintCipher(c, shares, fault)
      PROVE  Began(c) /\ open' = open
  <2>1. /\ Cipher(calls + 1, Null) \in Values /\ Cipher(calls + 1, Null).id <= calls + 1
        /\ Goes(Null, Cipher(calls + 1, Null).meta)
    BY <1>1, ItemFacts, Minted DEF Goes, Metas
  <2> QED BY <1>1, <1>5, <2>1, BeganBy DEF MintCipher, Writes
<1>6. ASSUME NEW m \in Maps, PutRaw(c, shares, m) PROVE Began(c) /\ open' = open
  <2>1. /\ Cipher(calls + 1, ToJVar[m]) \in Values
        /\ Cipher(calls + 1, ToJVar[m]).id <= calls + 1
        /\ Goes(m, Cipher(calls + 1, ToJVar[m]).meta)
    BY <1>1, ItemFacts, Minted DEF Goes, Metas
  <2> QED BY <1>1, <1>6, <2>1, BeganBy DEF PutRaw, Writes
<1> QED BY <1>2, <1>3, <1>4, <1>5, <1>6

LEMMA MetaBegan ==
  ASSUME Types, Bounds, NEW c \in Client, NEW m \in Maps, Meta(c, m)
  PROVE  Began(c)
<1>1. /\ Entries(c, {}) \in SUBSET Recipient /\ calls \in Nat
      /\ open[c].id \in Nat /\ open[c].id <= calls /\ open[c].cipher
  BY EntriesTyped DEF Types, Bounds, Values, Meta
<1>2. /\ Reserialized(c, m) \in Values
      /\ Reserialized(c, m).id <= calls + 1
      /\ Goes(m, Reserialized(c, m).meta)
  BY <1>1, ItemFacts, Minted DEF Goes, Metas, Reserialized
<1> QED BY <1>1, <1>2, BeganBy DEF Meta, Writes

LEMMA DeleteBegan ==
  ASSUME Types, Bounds, NEW c \in Client, Delete(c)
  PROVE  Began(c) /\ open' = open
<1>1. Nothing \in Values /\ Nothing.id <= calls + 1
  BY ItemFacts, Minted DEF Types
<1> QED BY <1>1, BeganBy DEF Delete, Writes

\* A call that loads, of whatever kind.
LEMMA BeganStep ==
  ASSUME Types, Bounds, Metadata, NEW c \in Client, Loaded(c), Began(c)
  PROVE  Bounds' /\ Metadata'
<1>1. Busy' = Busy \cup {c} /\ c \notin Busy
  BY DEF Busy, Loaded, Began
<1>2. /\ IsFiniteSet(Busy') /\ Cardinality(Busy') = Cardinality(Busy) + 1
      /\ Cardinality(Busy) \in Nat
  BY <1>1, BusyGrows, BusyNumber DEF Bounds
<1>3. /\ held' = held /\ version' = version /\ current' = current /\ posted' = posted
      /\ asked' = asked /\ calls' = calls + 1
  BY DEF Loaded, Began, history
<1>4. version' + Cardinality(Busy)' <= calls' /\ calls' <= MaxCalls
  BY <1>2, <1>3, ItemAssumption DEF Bounds, Began, Types
<1>5. /\ \A v \in Recipient : held[v].id \in Nat /\ held[v].id <= calls
      /\ \A d \in Client : open[d].id \in Nat /\ open[d].id <= calls
      /\ \A d \in Client : op[d].value.id \in Nat /\ op[d].value.id <= calls
  BY DEF Types, Bounds, Values, Ops
<1>6. \A v \in Recipient : held'[v].id <= calls'
  BY <1>3, <1>5 DEF Types
<1>7. ASSUME NEW d \in Client
      PROVE  /\ open'[d].id <= calls' /\ op'[d].value.id <= calls'
             /\ (op'[d].kind = "meta" => open'[d].cipher) /\ Carried(op'[d])
  <2>1. open'[d].id = open[d].id /\ open'[d].cipher = open[d].cipher
    BY DEF Loaded
  <2>2. CASE d = c
    BY <1>3, <1>5, <2>1, <2>2 DEF Began, Types
  <2>3. CASE d # c
    BY <1>3, <1>5, <2>1, <2>3 DEF Loaded, Types, Bounds, Metadata
  <2> QED BY <2>2, <2>3
<1>8. \A d \in current' : open'[d].cipher
  BY <1>3 DEF Loaded, Bounds, Types
<1> QED BY <1>2, <1>3, <1>4, <1>6, <1>7, <1>8 DEF Bounds, Metadata, Carried

\* A step that loads and posts nothing: it opens, closes or renames a cipher, or ends a call.
LEMMA QuietBounds ==
  ASSUME Types, Bounds, Metadata, NEW c \in Client,
         OpenCipher(c) \/ CloseCipher(c) \/ PostFails(c) \/ \E m \in Maps : MetaFails(c, m)
  PROVE  Bounds' /\ Metadata'
<1>1. /\ calls \in Nat /\ MaxCalls \in Nat /\ Idle \in Ops
      /\ Idle.kind = "idle" /\ Idle.value = Nothing /\ Nothing.id = 0
  BY ItemFacts, Minted, ItemAssumption DEF Types, Idle
<1>2. CASE OpenCipher(c)
  <2>1. /\ UNCHANGED <<held, version, op, calls, posted, asked>> /\ op[c] = Idle
        /\ open' = [open EXCEPT ![c] = Get(c)] /\ Get(c).cipher
        /\ current' \subseteq current \cup {c}
    BY <1>2 DEF OpenCipher, HasCipher
  <2>2. Busy' = Busy
    BY <2>1 DEF Busy
  <2>3. Get(c).id <= calls
    BY ItemFacts DEF Get, Bounds
  <2>4. /\ \A d \in Client : open'[d] = IF d = c THEN Get(c) ELSE open[d]
    BY <2>1 DEF Types
  <2>5. Metadata'
    BY <2>1 DEF Metadata, Carried
  <2>6. /\ \A d \in Client : open'[d].id <= calls
        /\ \A d \in current' : open'[d].cipher
        /\ \A d \in Client : op[d].kind = "meta" => open'[d].cipher
    BY <2>1, <2>3, <2>4 DEF Bounds, Types
  <2> QED BY <2>1, <2>2, <2>5, <2>6 DEF Bounds
<1>3. CASE CloseCipher(c)
  <2>1. /\ UNCHANGED <<held, version, op, calls, posted, asked>> /\ op[c] = Idle
        /\ open' = [open EXCEPT ![c] = Nothing] /\ current' = current \ {c}
    BY <1>3 DEF CloseCipher
  <2>2. Busy' = Busy
    BY <2>1 DEF Busy
  <2>3. \A d \in Client : open'[d] = IF d = c THEN Nothing ELSE open[d]
    BY <2>1 DEF Types
  <2>4. /\ \A d \in Client : open'[d].id <= calls
        /\ \A d \in current' : open'[d].cipher
        /\ \A d \in Client : op[d].kind = "meta" => open'[d].cipher
    BY <1>1, <2>1, <2>3 DEF Bounds, Types
  <2>5. Metadata'
    BY <2>1 DEF Metadata, Carried
  <2> QED BY <2>1, <2>2, <2>4, <2>5 DEF Bounds
<1>4. CASE PostFails(c)
  <2>1. /\ UNCHANGED <<held, version, open, calls, posted, asked, current>> /\ op[c] # Idle
        /\ op' = [op EXCEPT ![c] = Idle]
    BY <1>4 DEF PostFails, history
  <2>2. \A d \in Client : op'[d] = IF d = c THEN Idle ELSE op[d]
    BY <2>1 DEF Types
  <2>3. c \in Busy /\ Busy' = Busy \ {c}
    BY <2>1, <2>2 DEF Busy
  <2>4. /\ IsFiniteSet(Busy') /\ Cardinality(Busy') = Cardinality(Busy) - 1
        /\ Cardinality(Busy) \in Nat
    BY <2>3, BusyShrinks, BusyNumber DEF Bounds
  <2>5. version + Cardinality(Busy)' <= calls
    BY <2>4 DEF Bounds, Types
  <2>6. \A d \in Client : op'[d].value.id <= calls /\ (op'[d].kind = "meta" => open[d].cipher)
                            /\ Carried(op'[d])
    BY <1>1, <2>2 DEF Bounds, Metadata, Carried
  <2> QED BY <2>1, <2>4, <2>5, <2>6 DEF Bounds, Metadata, Carried
<1>5. ASSUME NEW m \in Maps, MetaFails(c, m) PROVE Bounds' /\ Metadata'
  <2>1. /\ UNCHANGED <<held, version, op, posted, asked, current>>
        /\ calls' = calls + 1 /\ calls < MaxCalls /\ SetsMeta(c, m)
    BY <1>5 DEF MetaFails, history
  <2>2. Busy' = Busy
    BY <2>1 DEF Busy
  <2>3. \A d \in Client : open'[d].id = open[d].id /\ open'[d].cipher = open[d].cipher
    BY <2>1, SetsMetaOnly
  <2>4. /\ \A v \in Recipient : held[v].id \in Nat /\ held[v].id <= calls
        /\ \A d \in Client : open[d].id \in Nat /\ open[d].id <= calls
        /\ \A d \in Client : op[d].value.id \in Nat /\ op[d].value.id <= calls
    BY DEF Types, Bounds, Values, Ops
  <2>5. /\ \A v \in Recipient : held[v].id <= calls + 1
        /\ \A d \in Client : open[d].id <= calls + 1 /\ op[d].value.id <= calls + 1
    BY <1>1, <2>4
  <2>6. version + Cardinality(Busy) <= calls + 1 /\ calls + 1 <= MaxCalls
    BY <1>1, <2>1, BusyNumber DEF Bounds, Types
  <2>7. Metadata'
    BY <2>1 DEF Metadata, Carried
  <2>8. \A d \in current : d \in Client
    BY DEF Types
  <2> QED BY <2>1, <2>2, <2>3, <2>5, <2>6, <2>7, <2>8 DEF Bounds
<1> QED BY <1>2, <1>3, <1>4, <1>5

\* A post turns a pending call into a version.
LEMMA PostBounds ==
  ASSUME Types, Bounds, Metadata, OpsOK, NEW c \in Client, NEW replied \in BOOLEAN,
         Post(c, replied)
  PROVE  Bounds' /\ Metadata'
<1> DEFINE o == op[c]
<1>1. /\ calls \in Nat /\ MaxCalls \in Nat /\ version \in Nat
      /\ Idle.kind = "idle" /\ Idle.value = Nothing /\ Nothing.id = 0
  BY ItemFacts, Minted, ItemAssumption DEF Types, Idle
<1>2. /\ op[c] # Idle /\ op' = [op EXCEPT ![c] = Idle] /\ version' = version + 1
      /\ calls' = calls /\ held' = Landed(o)
      /\ open' = IF Returned(c, replied) THEN [open EXCEPT ![c] = o.value] ELSE open
      /\ current' \subseteq Relying(c, replied)
      /\ IF o.kind \in {"put", "cipher", "meta"} THEN posted' = o.value /\ asked' = o.map
         ELSE UNCHANGED <<posted, asked>>
  BY DEF Post
<1>3. \A d \in Client : op'[d] = IF d = c THEN Idle ELSE op[d]
  BY <1>2 DEF Types
<1>4. c \in Busy /\ Busy' = Busy \ {c}
  BY <1>2, <1>3 DEF Busy
<1>5. /\ IsFiniteSet(Busy') /\ Cardinality(Busy') = Cardinality(Busy) - 1
      /\ Cardinality(Busy) \in Nat
  BY <1>4, BusyShrinks, BusyNumber DEF Bounds
<1>6. version' + Cardinality(Busy)' <= calls
  BY <1>1, <1>2, <1>5 DEF Bounds
<1>7. Carries(c, o, version) /\ o.value.id <= calls /\ Carried(o)
  BY <1>2 DEF OpsOK, OpOK, Bounds, Metadata
<1>8. ASSUME NEW v \in Recipient PROVE held'[v].id <= calls
  <2>1. held'[v] \in {Nothing, o.value, held[v]}
    BY <1>2 DEF Landed
  <2> QED BY <1>1, <1>7, <2>1 DEF Bounds
<1>9. ASSUME NEW d \in Client
      PROVE  /\ open'[d].id <= calls /\ (open[d].cipher => open'[d].cipher)
             /\ (Returned(c, replied) => open'[c].cipher)
  <2>1. Returned(c, replied) => o.value.cipher
    BY <1>7 DEF Returned, Carries
  <2>2. CASE Returned(c, replied)
    BY <1>2, <1>7, <2>1, <2>2 DEF Bounds, Types
  <2>3. CASE ~Returned(c, replied)
    BY <1>2, <2>3 DEF Bounds
  <2> QED BY <2>2, <2>3
<1>10. ASSUME NEW d \in current' PROVE open'[d].cipher
  <2>1. d \in current \/ (d = c /\ Returned(c, replied)) \/ (d = c /\ o.kind = "meta")
    BY <1>2 DEF Relying
  <2>2. d \in Client /\ (o.kind = "meta" => open[c].cipher)
    BY <2>1 DEF Types, Bounds
  <2> QED BY <1>9, <2>1, <2>2 DEF Bounds
<1>11. ASSUME NEW d \in Client
       PROVE  op'[d].value.id <= calls /\ (op'[d].kind = "meta" => open'[d].cipher)
                /\ Carried(op'[d])
  BY <1>1, <1>3, <1>9 DEF Bounds, Metadata, Carried
<1>12. posted'.cipher => Goes(asked', posted'.meta)
  BY <1>2, <1>7 DEF Carried, Metadata
<1> QED BY <1>2, <1>5, <1>6, <1>8, <1>9, <1>10, <1>11, <1>12 DEF Bounds, Metadata, Carried

LEMMA BoundsStep == ItemInv /\ Bounds /\ Metadata /\ [Next]_vars => Bounds' /\ Metadata'
<1> SUFFICES ASSUME ItemInv, Bounds, Metadata, [Next]_vars PROVE Bounds' /\ Metadata'
  OBVIOUS
<1>0. Types /\ OpsOK
  BY DEF ItemInv
<1>1. CASE UNCHANGED vars
  BY <1>1 DEF vars, history, Bounds, Metadata, Carried, Busy
<1>2. ASSUME NEW c \in Client, NEW replied \in BOOLEAN, Post(c, replied)
      PROVE  Bounds' /\ Metadata'
  BY <1>0, <1>2, PostBounds
<1>3. ASSUME NEW c \in Client, NEW shares \in Listed,
             \/ Put(c, shares) \/ Add(c, shares) \/ Remove(c, shares)
             \/ \E fault \in BOOLEAN : MintCipher(c, shares, fault)
             \/ \E m \in Maps : PutRaw(c, shares, m)
      PROVE  Bounds' /\ Metadata'
  <2>1. Began(c)
    BY <1>0, <1>3, ListedBegan
  <2>2. Loaded(c)
    BY <1>0, <1>3, PutLoads, AddLoads, RemoveLoads, MintLoads, PutRawLoads
  <2> QED BY <1>0, <2>1, <2>2, BeganStep
<1>4. ASSUME NEW c \in Client, Delete(c) \/ \E m \in Maps : Meta(c, m)
      PROVE  Bounds' /\ Metadata'
  <2>1. Began(c) /\ Loaded(c)
    BY <1>0, <1>4, DeleteBegan, MetaBegan, DeleteLoads, MetaLoads
  <2> QED BY <1>0, <2>1, BeganStep
<1>5. ASSUME NEW c \in Client,
             \/ OpenCipher(c) \/ CloseCipher(c) \/ PostFails(c)
             \/ \E m \in Maps : MetaFails(c, m)
      PROVE  Bounds' /\ Metadata'
  BY <1>0, <1>5, QuietBounds
<1> QED BY <1>1, <1>2, <1>3, <1>4, <1>5 DEF Next

LEMMA BoundsInit == Init => Bounds /\ Metadata
<1> SUFFICES ASSUME Init PROVE Bounds /\ Metadata
  OBVIOUS
<1>1. Busy = {}
  BY DEF Init, Busy
<1>2. IsFiniteSet(Busy) /\ Cardinality(Busy) = 0
  BY <1>1, FS_EmptySet
<1>3. /\ Idle.kind = "idle" /\ Idle.value = Nothing /\ Nothing.id = 0 /\ Nothing.cipher = FALSE
      /\ MaxCalls \in Nat
  BY ItemFacts, Minted, ItemAssumption DEF Idle
<1> QED BY <1>2, <1>3 DEF Init, Bounds, Metadata, Carried

LEMMA BoundsHold == Spec => [](Bounds /\ Metadata)
  BY BoundsInit, BoundsStep, Invariance, PTL DEF Spec

\* TypeOK: every variable has its type, and the calls bound ids and versions.
THEOREM TypeCorrect == ASSUME MapsConvert PROVE Spec => []TypeOK
<1>1. ItemInv /\ Bounds => TypeOK
  <2> SUFFICES ASSUME ItemInv, Bounds PROVE TypeOK
    OBVIOUS
  <2>1. Types /\ MaxCalls \in Nat
    BY ItemAssumption DEF ItemInv
  <2>2. \A j \in Metas : IsMeta(j)
    BY DEF Metas, MapsConvert, IsMeta
  <2>3. ASSUME NEW x \in Values, x.id <= calls PROVE IsValue(x)
    <3>1. x.id \in Nat /\ x.cipher \in BOOLEAN /\ x.meta \in Metas
      BY DEF Values
    <3>2. x.id \in 0..MaxCalls
      BY <2>1, <2>3, <3>1 DEF Types, Bounds
    <3> QED BY <2>2, <3>1, <3>2 DEF IsValue
  <2>4. /\ DOMAIN held = Recipient /\ DOMAIN open = Client
        /\ \A v \in Recipient : IsValue(held[v])
        /\ \A c \in Client : IsValue(open[c]) /\ IsValue(op[c].value)
    BY <2>1, <2>3 DEF Types, Bounds, Ops
  <2>5. version \in 0..MaxCalls /\ calls \in 0..MaxCalls
    BY <2>1, BusyNumber DEF Types, Bounds
  <2>6. torn \in BOOLEAN /\ current \subseteq {c \in Client : open[c].cipher}
    BY <2>1 DEF Types, Bounds
  <2> QED BY <2>4, <2>5, <2>6 DEF TypeOK
<1> QED BY <1>1, Invariance, BoundsHold, PTL

\* MetaKept: through every share, removal, lost post and foreign call, the metadata that
\* goes with the item's cipher is what the last meta(), putRaw() or cipher() gave it.
THEOREM MetadataKept == Spec => []MetaKept
<1>1. ItemInv /\ Metadata => MetaKept
  <2> SUFFICES ASSUME ItemInv, Metadata, NEW v \in Recipient, ~torn, held[v].cipher
               PROVE  held[v].meta = IF asked = Null THEN Null ELSE ToJVar[asked]
    BY DEF MetaKept
  <2>1. held[v] = posted
    BY ItemFacts DEF ItemInv, ReadersAgree
  <2>2. Goes(asked, posted.meta)
    BY <2>1 DEF Metadata
  <2>3. \A m \in Maps : m # Null
    BY ItemAssumption DEF Null
  <2> QED BY <2>1, <2>2, <2>3 DEF Goes
<1> QED BY <1>1, Invariance, BoundsHold, PTL
=============================================================================
