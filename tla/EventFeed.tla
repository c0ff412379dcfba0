----------------------------- MODULE EventFeed ------------------------------
(***************************************************************************)
(* What start() promises, apart from threads, polls and retries: a feed    *)
(* opens at the position it was asked for and then hands out the events of *)
(* the stream one by one, in order, until it ends.  VESEventTarget.java    *)
(* states it in the comments of start() and start(long).                   *)
(***************************************************************************)
EXTENDS Integers, FiniteSets, Sequences

CONSTANTS
  Feed,       \* the feeds a behaviour may open
  Positions,  \* what may be asked of start(long)
  FromNow,    \* what start() asks
  MaxId       \* bound: the largest event id

VARIABLES posted, state, request, cursor, out

vars == <<posted, state, request, cursor, out>>

Ahead(id) == {e \in posted : e >= id}
Newest(n) == {e \in posted : Cardinality({f \in posted : f > e}) < n}

Init ==
  /\ posted = {}
  /\ state = [f \in Feed |-> "closed"] /\ request = [f \in Feed |-> 0]
  /\ cursor = [f \in Feed |-> 0] /\ out = [f \in Feed |-> <<>>]

Post(id) ==
  /\ \A e \in posted : e < id
  /\ posted' = posted \cup {id}
  /\ UNCHANGED <<state, request, cursor, out>>

Ask(f, p) ==
  /\ state[f] = "closed"
  /\ state' = [state EXCEPT ![f] = "asked"] /\ request' = [request EXCEPT ![f] = p]
  /\ UNCHANGED <<posted, cursor, out>>

\* Where a request begins: now, at an id, or so many events back.
Begins(p, id) ==
  \/ p = FromNow /\ Ahead(id) = {}
  \/ p >= 0 /\ id = p
  \/ p < 0 /\ p # FromNow /\ Ahead(id) = Newest(-p)

Open(f, id) ==
  /\ state[f] = "asked" /\ Begins(request[f], id)
  /\ state' = [state EXCEPT ![f] = "open"] /\ cursor' = [cursor EXCEPT ![f] = id]
  /\ UNCHANGED <<posted, request, out>>

FirstOf(S, e) == e \in S /\ \A d \in S : e <= d

HandOut(f, e) ==
  /\ state[f] = "open" /\ FirstOf(Ahead(cursor[f]), e)
  /\ cursor' = [cursor EXCEPT ![f] = e + 1]
  /\ out' = [out EXCEPT ![f] = Append(@, e)]
  /\ UNCHANGED <<posted, state, request>>

End(f) ==
  /\ state[f] \in {"asked", "open"}
  /\ state' = [state EXCEPT ![f] = "ended"]
  /\ UNCHANGED <<posted, request, cursor, out>>

Next ==
  \/ \E id \in 1..MaxId : Post(id)
  \/ \E f \in Feed :
       \/ \E p \in Positions : Ask(f, p)
       \/ \E id \in Positions \cup 0..MaxId + 1 : Open(f, id)
       \/ \E e \in posted : HandOut(f, e)
       \/ End(f)

Spec == Init /\ [][Next]_vars

\* Every variable has its type.
TypeOK ==
  /\ posted \subseteq 1..MaxId
  /\ state \in [Feed -> {"closed", "asked", "open", "ended"}]
  /\ request \in [Feed -> Int] /\ cursor \in [Feed -> Int]
  /\ out \in [Feed -> Seq(1..MaxId)]

\* What a feed has handed out is, in order, every event of the stream from its
\* first one up to its cursor: no gap and no repetition (the promise of
\* start(long), "deliver events with id >= fromEventId, then go live").
Exact ==
  \A f \in Feed :
    /\ \A i, j \in DOMAIN out[f] : i < j => out[f][i] < out[f][j]
    /\ out[f] # <<>> =>
         {out[f][i] : i \in DOMAIN out[f]} =
           {e \in posted : out[f][1] <= e /\ e < cursor[f]}
=============================================================================
