------------------------------ MODULE ItemStore ------------------------------
(***************************************************************************)
(* One item of the server, and the Vaults that put, share, and open it.    *)
(*                                                                         *)
(* Every call of a URI-backed Item loads the item, works on what it loaded *)
(* and posts the result; the lock of the Vault orders the calls of one     *)
(* client and no one else's, and nothing tells the server which version a  *)
(* post was made from.  A value is posted to the recipients that were      *)
(* loaded, to those the call names, and to the client's own vault.         *)
(* Requests and replies may be lost.  The server, libVES's part in a post, *)
(* and that an item nobody holds is gone, are external.                    *)
(***************************************************************************)
EXTENDS JVar, FiniteSets

CONSTANTS
  Client,    \* Vault objects, each with one call at a time
  Recipient, \* the vaults an item is encrypted to
  Of,        \* the vault of a client
  Listed,    \* the share lists calls may name
  Maps,      \* the Maps meta() and putRaw() may be given
  MaxCalls   \* bound: calls that write, in a behaviour

ASSUME ItemAssumption ==
  /\ Of \in [Client -> Recipient] /\ Listed \subseteq SUBSET Recipient
  /\ Maps \subseteq Java /\ \A m \in Maps : m[1] = "Map"
  /\ Null \in Java /\ MaxCalls \in Nat

VARIABLES
  held,     \* what each recipient has of the item, at the server
  version,  \* the writes that landed
  op,       \* the call of a client between its load and its post
  open,     \* the ItemCipher a client has
  calls,
  \* History: the value the last post meant for everyone, the Map it was made from,
  \* whether that post was made from an old version, and the clients whose cipher the
  \* item should open with.
  posted, asked, torn, current

history == <<posted, asked, torn, current>>
vars == <<held, version, op, open, calls, history>>

\* A text has no key; ids tell values and keys apart.
Nothing == [id |-> 0, cipher |-> FALSE, meta |-> Null]
Text(n) == [id |-> n, cipher |-> FALSE, meta |-> Null]
Cipher(n, meta) == [id |-> n, cipher |-> TRUE, meta |-> meta]

Idle == [kind |-> "idle", shares |-> {}, to |-> {}, saw |-> 0, value |-> Nothing,
         map |-> Null, fault |-> FALSE]

Init ==
  /\ held = [v \in Recipient |-> Nothing] /\ version = 0 /\ calls = 0
  /\ op = [c \in Client |-> Idle] /\ open = [c \in Client |-> Nothing]
  /\ posted = Nothing /\ asked = Null /\ torn = FALSE /\ current = {}

Share == {v \in Recipient : held[v] # Nothing}
Get(c) == held[Of[c]]

\* The vault is among the recipients, or there is no item: what the server accepts.
Writable(c) == Share = {} \/ Of[c] \in Share

\* Slip: entries for the vaults the call names and no others.
Named(c, shares) == shares \cup {Of[c]}

\* Whom a post is for; meta() names nobody, and leaves it to libVES whom it reaches.
Entries(c, shares) == Share \cup shares \cup {Of[c]}

\* The load of call kind, and what it makes of it.
Loads(c, kind, shares, to, value, map, fault) ==
  /\ op[c] = Idle /\ calls < MaxCalls /\ calls' = calls + 1
  /\ op' = [op EXCEPT ![c] = [kind |-> kind, shares |-> shares, to |-> to, saw |-> version,
                              value |-> value, map |-> map, fault |-> fault]]
  /\ UNCHANGED <<held, version, history>>

\* put(), and putRaw() of a text or of a key that the metadata names a cipher for.
Put(c, shares) ==
  /\ Loads(c, "put", shares, Entries(c, shares), Text(calls + 1), Null, FALSE)
  /\ UNCHANGED open
PutRaw(c, shares, m) ==
  /\ Loads(c, "put", shares, Entries(c, shares), Cipher(calls + 1, ToJVar[m]), m, FALSE)
  /\ UNCHANGED open

\* getValue and getCipher of the loaded item.
HasCipher(c) == Get(c).cipher

OpenCipher(c) ==
  /\ op[c] = Idle /\ HasCipher(c)
  /\ open' = [open EXCEPT ![c] = Get(c)]
  /\ current' = IF torn THEN current \ {c} ELSE current \cup {c}
  /\ UNCHANGED <<held, version, op, calls, posted, asked, torn>>

\* Slip: a key is minted whatever the item has.
Always(c) == TRUE

NoCipherYet(c) == ~HasCipher(c)

\* Any error of the read is swallowed: where there is a cipher, a fault is taken for
\* "no cipher yet".
MintCipher(c, shares, fault) ==
  /\ fault # NoCipherYet(c)
  /\ Loads(c, "cipher", shares, Entries(c, shares), Cipher(calls + 1, Null), Null, fault)
  /\ UNCHANGED open

\* meta(map): the cipher has it before the item is loaded, and keeps it if that fails.
SetsMeta(c, m) == open' = [open EXCEPT ![c].meta = ToJVar[m]]

\* Slip: the item gets the metadata the cipher had before.
OldMeta(c, m) == Cipher(open[c].id, open[c].meta)

Reserialized(c, m) == Cipher(open[c].id, ToJVar[m])

Meta(c, m) ==
  /\ open[c].cipher /\ SetsMeta(c, m)
  /\ Loads(c, "meta", {}, Entries(c, {}), Reserialized(c, m), m, FALSE)

MetaFails(c, m) ==
  /\ op[c] = Idle /\ open[c].cipher /\ SetsMeta(c, m)
  /\ calls < MaxCalls /\ calls' = calls + 1 /\ UNCHANGED <<held, version, op, history>>

\* add(): the value is read, and goes to the old recipients and the new.
Add(c, shares) ==
  /\ Get(c) # Nothing
  /\ Loads(c, "add", shares, Entries(c, shares), Get(c), Null, FALSE) /\ UNCHANGED open

\* remove(), and refuse(), which names the client's own vault.
Remove(c, shares) ==
  /\ Share # {} /\ Loads(c, "remove", shares, {}, Nothing, Null, FALSE) /\ UNCHANGED open

Delete(c) ==
  /\ Share # {} /\ Loads(c, "delete", {}, Recipient, Nothing, Null, FALSE) /\ UNCHANGED open

\* Slip: remove() passes the flags of add().
Mixed(o) ==
  IF o.kind = "remove" THEN [v \in Recipient |-> IF v \in o.shares THEN posted ELSE held[v]]
  ELSE [v \in Recipient |-> IF v \in o.to THEN o.value ELSE held[v]]

Landed(o) ==
  [v \in Recipient |->
     IF o.kind = "remove" /\ v \in o.shares THEN Nothing
     ELSE IF v \in o.to THEN o.value ELSE held[v]]

Stale(c) == op[c].saw # version

\* cipher() returns the key it minted.
Returned(c, replied) == op[c].kind = "cipher" /\ replied

\* Who may still rely on the cipher it has: after a put, a delete, a key minted over a
\* fault, or the meta() of a cipher that was no longer the item's, nobody else.
Relying(c, replied) ==
  LET self == IF Returned(c, replied) THEN {c} ELSE {}
  IN  IF op[c].kind = "remove" THEN current
      ELSE IF op[c].kind \in {"put", "delete"} \/ Stale(c) THEN {}
      ELSE CASE op[c].kind = "cipher" ->
                  (IF op[c].fault THEN {} ELSE current \ {c}) \cup self
             [] op[c].kind = "meta" -> IF c \in current THEN current ELSE {c}
             [] OTHER -> current

\* The post lands; the reply may be lost, and with it the cipher of the client.
Post(c, replied) ==
  /\ op[c] # Idle /\ Writable(c)
  /\ held' = Landed(op[c]) /\ version' = version + 1 /\ op' = [op EXCEPT ![c] = Idle]
  /\ open' = IF Returned(c, replied) THEN [open EXCEPT ![c] = op[c].value] ELSE open
  /\ current' = IF \A v \in Recipient : held'[v] = Nothing THEN {} ELSE Relying(c, replied)
  /\ torn' = CASE op[c].kind = "remove" -> torn
               [] op[c].kind = "add" -> torn \/ Stale(c)
               [] OTHER -> Stale(c) /\ op[c].kind # "delete"
  /\ IF op[c].kind \in {"put", "cipher", "meta"}
     THEN posted' = op[c].value /\ asked' = op[c].map
     ELSE UNCHANGED <<posted, asked>>
  /\ UNCHANGED calls

\* The server refuses the post, or it is lost.
PostFails(c) ==
  /\ op[c] # Idle /\ op' = [op EXCEPT ![c] = Idle]
  /\ UNCHANGED <<held, version, open, calls, history>>

CloseCipher(c) ==
  /\ open[c] # Nothing /\ op[c] = Idle
  /\ open' = [open EXCEPT ![c] = Nothing] /\ current' = current \ {c}
  /\ UNCHANGED <<held, version, op, calls, posted, asked, torn>>

Next ==
  \E c \in Client :
    \/ OpenCipher(c) \/ CloseCipher(c) \/ Delete(c) \/ PostFails(c)
    \/ \E replied \in BOOLEAN : Post(c, replied)
    \/ \E shares \in Listed :
         \/ Put(c, shares) \/ Add(c, shares) \/ Remove(c, shares)
         \/ \E fault \in BOOLEAN : MintCipher(c, shares, fault)
         \/ \E m \in Maps : PutRaw(c, shares, m)
    \/ \E m \in Maps : Meta(c, m) \/ MetaFails(c, m)

Spec == Init /\ [][Next]_vars

(***************************************************************************)
(* Properties.                                                             *)
(***************************************************************************)
JVarTypes == {"null", "bool", "int", "float", "string", "array", "object"}

\* Metadata is a JSON object whose members have types of JSON, or there is none.
IsMeta(j) ==
  \/ j = Null
  \/ j[1] = "object" /\ \A n \in DOMAIN j[2] : j[2][n][1] \in JVarTypes

IsValue(x) == x.id \in 0..MaxCalls /\ x.cipher \in BOOLEAN /\ IsMeta(x.meta)

\* Types, and who relies on a cipher has one.
TypeOK ==
  /\ DOMAIN held = Recipient /\ \A v \in Recipient : IsValue(held[v])
  /\ DOMAIN open = Client /\ \A c \in Client : IsValue(open[c]) /\ IsValue(op[c].value)
  /\ version \in 0..MaxCalls /\ calls \in 0..MaxCalls /\ torn \in BOOLEAN
  /\ current \subseteq {c \in Client : open[c].cipher}

\* Whoever can read the item reads the value that was posted last, whatever was added,
\* removed, refused or lost in between - unless that post was made from a version that
\* another's had replaced; the next put that nobody overlaps repairs it
\* (jni_item.c 116-232, 344-388).
ReadersAgree == ~torn => \A v \in Recipient : held[v] \in {Nothing, posted}

\* What everyone who has the item's cipher has with it is the metadata of the last meta(),
\* putRaw() or cipher() that landed - through what others share, remove, open, and fail to
\* post - unless calls overlapped (jni_itemcipher.c 176-209, jni_item.c 177-232).
MetaKept ==
  \A v \in Recipient : ~torn /\ held[v].cipher =>
    held[v].meta = IF asked = Null THEN Null ELSE ToJVar[asked]

\* The Map that meta() or putRaw() stored is the Map a reader of the item gets, if JSON
\* has a type for all of it, but that every integer comes back as a Long
\* (jni_jvar.c 124-253).
MetaReadBack ==
  \A v \in Recipient : ~torn /\ held[v].cipher /\ Plain[asked] =>
    ToJava[held[v].meta] = Widened[asked]

\* What the proof of TypeOK takes from the conversion: it makes metadata of every Map.
MapsConvert == \A m \in Maps : IsMeta(ToJVar[m])

\* A cipher that cipher() handed out goes on opening the item for everyone who can read
\* it, through the metadata and the recipients others change and the calls that fail,
\* until the value is replaced on purpose, by overlapping calls, or by a read that
\* failed, or nobody has the item any more (jni_itemcipher.c 29-101).
CiphersOpen ==
  \A c \in current, v \in Share : ~torn => held[v].cipher /\ held[v].id = open[c].id

\* A vault gets hold of the item only by a call that names it to share with, or is its
\* own - or by one that loaded the item before the vault was removed. In particular
\* remove() and refuse() never let anyone in (jni_item.c 344-396).
NamedToGetIn ==
  [][\A v \in Recipient : held[v] = Nothing /\ held'[v] # Nothing =>
       \E c \in Client :
         /\ op[c].kind \in {"put", "cipher", "add", "meta"} /\ op'[c] = Idle
         /\ v \in op[c].shares \cup {Of[c]} \/ Stale(c)]_vars

=============================================================================
