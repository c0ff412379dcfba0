-------------------------- MODULE EventFeedProofs ---------------------------
(***************************************************************************)
(* Proofs about EventFeed, for any feeds, positions and events: what a     *)
(* feed that keeps its promise has handed out is exact.                    *)
(***************************************************************************)
EXTENDS EventFeed, TLAPS

\* Positions and ids are numbers.
Numbers == Positions \subseteq Int /\ MaxId \in Nat

\* A feed that opens anywhere, not only where it was asked: Exact does not depend on it.
OpenAnywhere(f, id) ==
  /\ state[f] = "asked"
  /\ state' = [state EXCEPT ![f] = "open"] /\ cursor' = [cursor EXCEPT ![f] = id]
  /\ UNCHANGED <<posted, request, out>>

LooseNext ==
  \/ \E id \in 1..MaxId : Post(id)
  \/ \E f \in Feed :
       \/ \E p \in Positions : Ask(f, p)
       \/ \E id \in Positions \cup 0..MaxId + 1 : OpenAnywhere(f, id)
       \/ \E e \in posted : HandOut(f, e)
       \/ End(f)

LooseSpec == Init /\ [][LooseNext]_vars

LEMMA NextIsLoose == Next => LooseNext
  BY DEF Next, LooseNext, Open, OpenAnywhere

\* What makes Exact inductive: a feed that is not open has handed nothing out, and the
\* cursor of one that has is just past an event of the stream.
FeedInv ==
  /\ TypeOK /\ Exact
  /\ \A f \in Feed : state[f] \in {"closed", "asked"} => out[f] = <<>>
  /\ \A f \in Feed : out[f] # <<>> => cursor[f] - 1 \in posted

LEMMA FeedInit == Init => FeedInv
  BY DEF Init, FeedInv, TypeOK, Exact

LEMMA TypeStep == ASSUME Numbers, TypeOK, [LooseNext]_vars PROVE TypeOK'
<1>1. ASSUME NEW id \in 1..MaxId, Post(id) PROVE TypeOK'
  BY <1>1 DEF Post, TypeOK
<1>2. ASSUME NEW f \in Feed, NEW p \in Positions, Ask(f, p) PROVE TypeOK'
  BY <1>2 DEF Ask, TypeOK, Numbers
<1>3. ASSUME NEW f \in Feed, NEW id \in Positions \cup 0..MaxId + 1, OpenAnywhere(f, id) PROVE TypeOK'
  <2>1. id \in Int
    BY DEF Numbers
  <2> QED BY <1>3, <2>1 DEF OpenAnywhere, TypeOK
<1>4. ASSUME NEW f \in Feed, NEW e \in posted, HandOut(f, e) PROVE TypeOK'
  <2>1. e \in 1..MaxId /\ e + 1 \in Int
    BY DEF TypeOK, Numbers
  <2>2. out[f] \in Seq(1..MaxId) /\ Append(out[f], e) \in Seq(1..MaxId)
    BY <2>1 DEF TypeOK
  <2> QED BY <1>4, <2>1, <2>2 DEF HandOut, TypeOK
<1>5. ASSUME NEW f \in Feed, End(f) PROVE TypeOK'
  BY <1>5 DEF End, TypeOK
<1>6. CASE UNCHANGED vars
  BY <1>6 DEF vars, TypeOK
<1> QED BY <1>1, <1>2, <1>3, <1>4, <1>5, <1>6 DEF LooseNext

\* What Exact and the rest of FeedInv say of one feed.
ExactOf(S, s, c) ==
  /\ \A i, j \in DOMAIN s : i < j => s[i] < s[j]
  /\ s # <<>> =>
       /\ {s[i] : i \in DOMAIN s} = {e \in S : s[1] <= e /\ e < c}
       /\ c - 1 \in S

\* Handing out the first event from the cursor on leaves no gap and repeats nothing.
LEMMA Appended ==
  ASSUME Numbers, NEW S, S \subseteq 1..MaxId, NEW s \in Seq(1..MaxId), NEW c \in Int,
         ExactOf(S, s, c), NEW e \in S, c <= e, \A d \in S : c <= d => e <= d
  PROVE  ExactOf(S, Append(s, e), e + 1)
<1> DEFINE t == Append(s, e)
<1>2. \A d \in S : d \in Int
  BY DEF Numbers
<1>1. /\ Len(s) \in Nat /\ DOMAIN s = 1..Len(s) /\ DOMAIN t = 1..Len(s) + 1
      /\ \A i \in DOMAIN s : t[i] = s[i] /\ s[i] \in Int
      /\ t[Len(s) + 1] = e /\ t # <<>> /\ e \in Int
  <2>1. Len(s) \in Nat /\ DOMAIN s = 1..Len(s)
    OBVIOUS
  <2>2. Len(t) = Len(s) + 1 /\ DOMAIN t = 1..Len(s) + 1 /\ t[Len(s) + 1] = e
    BY <2>1
  <2>3. ASSUME NEW i \in DOMAIN s PROVE t[i] = s[i] /\ s[i] \in Int
    <3>1. i \in 1..Len(s)
      BY <2>1
    <3>2. s[i] \in 1..MaxId /\ 1..MaxId \subseteq Int
      BY <3>1 DEF Numbers
    <3> QED BY <3>1, <3>2
  <2>4. t # <<>>
    <3>1. Len(<<>>) = 0
      OBVIOUS
    <3> HIDE DEF t
    <3> QED BY <2>1, <2>2, <3>1
  <2> QED BY <1>2, <2>1, <2>2, <2>3, <2>4
<1> HIDE DEF t
<1>3. CASE s = <<>>
  <2>1. Len(s) = 0
    BY <1>3
  <2>2. DOMAIN t = {1} /\ t[1] = e
    BY <1>1, <2>1
  <2>3. {t[i] : i \in DOMAIN t} = {e}
    BY <2>2
  <2>4. {d \in S : e <= d /\ d < e + 1} = {e}
    <3> SUFFICES ASSUME NEW d \in S PROVE (e <= d /\ d < e + 1) <=> d = e
      OBVIOUS
    <3> QED BY <1>1, <1>2
  <2> QED BY <1>1, <2>2, <2>3, <2>4 DEF ExactOf, t
<1>4. CASE s # <<>>
  <2>1. Len(s) > 0 /\ 1 \in DOMAIN s
    BY <1>1, <1>4
  <2>2. /\ \A i \in DOMAIN s : s[i] \in S /\ s[1] <= s[i] /\ s[i] < c
        /\ \A d \in S : s[1] <= d /\ d < c => \E i \in DOMAIN s : s[i] = d
    BY <1>4 DEF ExactOf
  <2>3. \A i, j \in DOMAIN t : i < j => t[i] < t[j]
    <3> SUFFICES ASSUME NEW i \in DOMAIN t, NEW j \in DOMAIN t, i < j PROVE t[i] < t[j]
      OBVIOUS
    <3>1. i \in DOMAIN s
      BY <1>1
    <3>2. CASE j \in DOMAIN s
      BY <1>1, <3>1, <3>2 DEF ExactOf
    <3>3. CASE j = Len(s) + 1
      <4>1. s[i] < c /\ s[i] \in Int
        BY <1>1, <2>2, <3>1
      <4> QED BY <1>1, <3>1, <3>3, <4>1
    <3> QED BY <1>1, <3>2, <3>3
  <2>4. t[1] = s[1] /\ s[1] \in Int /\ s[1] < c
    BY <1>1, <2>1, <2>2
  <2>5. \A i \in DOMAIN t : t[i] \in S /\ t[1] <= t[i] /\ t[i] < e + 1
    <3> SUFFICES ASSUME NEW i \in DOMAIN t PROVE t[i] \in S /\ t[1] <= t[i] /\ t[i] < e + 1
      OBVIOUS
    <3>1. CASE i \in DOMAIN s
      <4>1. t[i] = s[i] /\ s[i] \in S /\ s[1] <= s[i] /\ s[i] < c /\ s[i] \in Int
        BY <1>1, <2>2, <3>1
      <4> QED BY <1>1, <2>4, <4>1
    <3>2. CASE i = Len(s) + 1
      BY <1>1, <2>4, <3>2
    <3> QED BY <1>1, <3>1, <3>2
  <2>6. ASSUME NEW d \in S, t[1] <= d, d < e + 1 PROVE \E i \in DOMAIN t : t[i] = d
    <3>1. CASE d < c
      <4>1. PICK i \in DOMAIN s : s[i] = d
        BY <2>2, <2>4, <2>6, <3>1
      <4> QED BY <1>1, <4>1
    <3>2. CASE c <= d
      <4>1. d = e
        BY <1>1, <1>2, <2>6, <3>2
      <4> QED BY <1>1, <4>1
    <3> QED BY <1>2, <3>1, <3>2
  <2>7. {t[i] : i \in DOMAIN t} = {d \in S : t[1] <= d /\ d < e + 1}
    BY <2>5, <2>6
  <2> QED BY <1>1, <2>3, <2>7 DEF ExactOf, t
<1> QED BY <1>3, <1>4

\* Every step keeps what FeedInv says of every feed.
LEMMA ExactStep == ASSUME Numbers, FeedInv, [LooseNext]_vars PROVE FeedInv'
<1> DEFINE Good(f) == ExactOf(posted, out[f], cursor[f])
<1> DEFINE Shut(f) == state[f] \in {"closed", "asked"} => out[f] = <<>>
<1>0. TypeOK /\ TypeOK' /\ \A f \in Feed : Good(f) /\ Shut(f)
  BY TypeStep DEF FeedInv, Exact, ExactOf
<1>1. ASSUME \A f \in Feed : Good(f)' /\ Shut(f)' PROVE FeedInv'
  BY <1>0, <1>1 DEF FeedInv, Exact, ExactOf
<1>2. /\ \A e \in posted : e \in Int
      /\ \A f \in Feed : cursor[f] \in Int /\ out[f] \in Seq(1..MaxId)
  BY <1>0 DEF TypeOK, Numbers
<1>3. ASSUME NEW id \in 1..MaxId, Post(id) PROVE FeedInv'
  <2>1. /\ \A e \in posted : e < id
        /\ posted' = posted \cup {id} /\ state' = state /\ cursor' = cursor /\ out' = out
    BY <1>3 DEF Post
  <2>2. ASSUME NEW f \in Feed, out[f] # <<>> PROVE ~(id < cursor[f])
    <3>1. cursor[f] - 1 \in posted
      BY <1>0, <2>2 DEF ExactOf
    <3>2. cursor[f] - 1 < id /\ id \in Int
      BY <2>1, <3>1 DEF Numbers
    <3> QED BY <1>2, <3>2
  <2>3. ASSUME NEW f \in Feed, out[f] # <<>>
        PROVE  {e \in posted \cup {id} : out[f][1] <= e /\ e < cursor[f]}
                 = {e \in posted : out[f][1] <= e /\ e < cursor[f]}
    BY <2>2, <2>3
  <2>4. ASSUME NEW f \in Feed PROVE ExactOf(posted \cup {id}, out[f], cursor[f])
    BY <1>0, <2>3 DEF ExactOf
  <2> QED BY <1>0, <1>1, <2>1, <2>4
<1>4. ASSUME NEW f \in Feed, state'[f] \in {"asked", "open", "ended"},
             out[f] = <<>> \/ cursor'[f] = cursor[f], UNCHANGED <<posted, out>>,
             \A g \in Feed \ {f} : cursor'[g] = cursor[g] /\ state'[g] = state[g],
             state'[f] = "asked" => state[f] = "closed"
      PROVE  FeedInv'
  <2>1. ASSUME NEW g \in Feed PROVE Good(g)' /\ Shut(g)'
    <3>1. CASE g = f
      BY <1>0, <1>4, <3>1 DEF ExactOf
    <3>2. CASE g # f
      BY <1>0, <1>4, <3>2 DEF ExactOf
    <3> QED BY <3>1, <3>2
  <2> QED BY <1>1, <2>1
<1>5. ASSUME NEW f \in Feed, NEW p \in Positions, Ask(f, p) PROVE FeedInv'
  BY <1>0, <1>4, <1>5 DEF Ask, TypeOK
<1>6. ASSUME NEW f \in Feed, NEW id \in Positions \cup 0..MaxId + 1, OpenAnywhere(f, id)
      PROVE  FeedInv'
  <2>1. out[f] = <<>>
    BY <1>0, <1>6 DEF OpenAnywhere
  <2> QED BY <1>0, <1>4, <1>6, <2>1 DEF OpenAnywhere, TypeOK
<1>7. ASSUME NEW f \in Feed, NEW e \in posted, HandOut(f, e) PROVE FeedInv'
  <2>1. e \in posted /\ cursor[f] <= e /\ \A d \in posted : cursor[f] <= d => e <= d
    BY <1>2, <1>7 DEF HandOut, FirstOf, Ahead
  <2>2. ExactOf(posted, Append(out[f], e), e + 1)
    BY <1>0, <1>2, <2>1, Appended DEF TypeOK
  <2>3. /\ posted' = posted /\ state' = state /\ state[f] = "open"
        /\ cursor'[f] = e + 1 /\ out'[f] = Append(out[f], e)
        /\ \A g \in Feed \ {f} : cursor'[g] = cursor[g] /\ out'[g] = out[g]
    BY <1>0, <1>7 DEF HandOut, TypeOK
  <2>4. ASSUME NEW g \in Feed PROVE Good(g)' /\ Shut(g)'
    <3>1. CASE g = f
      BY <2>2, <2>3, <3>1
    <3>2. CASE g # f
      BY <1>0, <2>3, <3>2
    <3> QED BY <3>1, <3>2
  <2> QED BY <1>1, <2>4
<1>8. ASSUME NEW f \in Feed, End(f) PROVE FeedInv'
  BY <1>0, <1>4, <1>8 DEF End, TypeOK
<1>9. CASE UNCHANGED vars
  BY <1>0, <1>1, <1>9 DEF vars
<1> QED BY <1>3, <1>5, <1>6, <1>7, <1>8, <1>9 DEF LooseNext

\* Exact (EventFeed): a feed that hands out the first event from its cursor on, whatever is
\* posted meanwhile, has handed out a gapless, ordered stretch of the stream.
THEOREM LooseExact == ASSUME Numbers PROVE LooseSpec => []Exact
<1>1. FeedInv => Exact
  BY DEF FeedInv
<1>2. FeedInv /\ [LooseNext]_vars => FeedInv'
  BY ExactStep
<1> QED BY FeedInit, <1>1, <1>2, PTL DEF LooseSpec

\* The same of the feed start(long) promises, which opens where it was asked.
THEOREM ExactHolds == ASSUME Numbers PROVE Spec => []Exact
<1>1. Spec => LooseSpec
  BY NextIsLoose, PTL DEF Spec, LooseSpec
<1> QED BY <1>1, LooseExact, PTL
=============================================================================
