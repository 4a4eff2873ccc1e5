------------------------- MODULE InboundLane_proofs -------------------------
(***************************************************************************)
(* Facts about the operators of InboundLane, for all lane limits.          *)
(***************************************************************************)
EXTENDS InboundLane, SequenceTheorems, WellFoundedInduction, TLAPS

\* A nonempty set of natural numbers has a least element.
LEMMA LeastNatural ==
  ASSUME NEW T \in SUBSET Nat, T # {}
  PROVE  \E x \in T : \A y \in T : x <= y
  <1>1. PICK x \in T : \A y \in T : ~ (<<y, x>> \in OpToRel(<, Nat))
    BY WFMin, NatLessThanWellFounded
  <1>2. \A y \in T : ~ (y < x)
    BY <1>1, Zenon DEF OpToRel
  <1> QED
    BY <1>2

\* Entries of a queue are typed.
LEMMA EntryTypes ==
  ASSUME NEW q \in Seq(UnrewardedRelayer)
  PROVE  /\ Len(q) \in Nat
         /\ \A i \in 1..Len(q) : /\ q[i] \in UnrewardedRelayer
                                 /\ q[i].relayer \in Relayers
                                 /\ q[i].begin \in Nat /\ q[i].end \in Nat
  <1>1. Len(q) \in Nat /\ \A i \in 1..Len(q) : q[i] \in UnrewardedRelayer
    OBVIOUS
  <1> QED
    BY <1>1 DEF UnrewardedRelayer

\* The last delivered nonce is a nonce.
LEMMA LastDeliveredNonceType ==
  ASSUME NEW data \in InboundLaneData
  PROVE  /\ LastDeliveredNonce(data) \in Nat
         /\ data.relayers \in Seq(UnrewardedRelayer)
         /\ data.last_confirmed_nonce \in Nat
  <1>1. data.relayers \in Seq(UnrewardedRelayer) /\ data.last_confirmed_nonce \in Nat
    BY DEF InboundLaneData
  <1>2. data.relayers # <<>> => Len(data.relayers) \in 1..Len(data.relayers)
    BY <1>1, EntryTypes
  <1> QED
    BY <1>1, <1>2, EntryTypes DEF LastDeliveredNonce

\* The pop_front loop of receive_state_update stops at a well-defined entry: all
\* entries before it are confirmed and it, if there is one, is not.
LEMMA FirstUnconfirmedEntryProperties ==
  ASSUME NEW relayers \in Seq(UnrewardedRelayer), NEW confirmed \in Nat
  PROVE  LET k == FirstUnconfirmedEntry(relayers, confirmed)
         IN  /\ k \in 1..(Len(relayers) + 1)
             /\ \A j \in 1..(k - 1) : relayers[j].end <= confirmed
             /\ k <= Len(relayers) => relayers[k].end > confirmed
  <1> DEFINE P(i) == /\ \A j \in 1..(i - 1) : relayers[j].end <= confirmed
                     /\ i <= Len(relayers) => relayers[i].end > confirmed
             stops == {i \in 1..(Len(relayers) + 1) :
                         i <= Len(relayers) => relayers[i].end > confirmed}
  <1>1. Len(relayers) \in Nat /\ \A i \in 1..Len(relayers) : relayers[i].end \in Nat
    BY EntryTypes
  <1>2. stops \subseteq Nat /\ stops # {}
    <2>1. Len(relayers) + 1 \in stops  BY <1>1
    <2> QED  BY <2>1, <1>1
  <1>3. PICK i \in stops : \A m \in stops : i <= m
    <2> HIDE DEF stops
    <2> QED BY <1>2, LeastNatural
  <1>4. P(i)
    <2>1. i \in 1..(Len(relayers) + 1) /\ (i <= Len(relayers) => relayers[i].end > confirmed)
      BY <1>3
    <2>2. ASSUME NEW j \in 1..(i - 1)
          PROVE  relayers[j].end <= confirmed
      <3>1. j \in 1..Len(relayers) /\ j \in 1..(Len(relayers) + 1) /\ j < i
        BY <1>1, <2>1
      <3>2. j \notin stops
        <4> HIDE DEF stops
        <4> QED  BY <1>3, <3>1, <2>1, <1>1
      <3>3. relayers[j].end \in Nat /\ ~(relayers[j].end > confirmed)
        BY <1>1, <3>1, <3>2
      <3> QED  BY <3>3
    <2> QED  BY <2>1, <2>2
  <1>5. \E k \in 1..(Len(relayers) + 1) : P(k)
    BY <1>3, <1>4
  <1> QED
    BY <1>5, Zenon DEF FirstUnconfirmedEntry

\* Popping the confirmed entries of a well-formed queue keeps exactly the
\* unconfirmed ones, and empties the queue only if everything is confirmed.
LEMMA PopConfirmedProperties ==
  ASSUME NEW data \in InboundLaneData, QueueWellFormed(data),
         NEW confirmed \in Nat,
         data.last_confirmed_nonce < confirmed, confirmed <= LastDeliveredNonce(data)
  PROVE  LET q == PopConfirmed(data.relayers, confirmed)
         IN  /\ q \in Seq(UnrewardedRelayer)
             /\ Len(q) <= Len(data.relayers)
             /\ \E s \in Nat : /\ Len(q) + s = Len(data.relayers)
                              /\ \A i \in 1..Len(q) : q[i] = data.relayers[i + s]
             /\ \A i \in 1..Len(q) : q[i].end > confirmed
             /\ q # <<>> => /\ q[Len(q)].end = LastDeliveredNonce(data)
                            /\ q[1].begin <= confirmed + 1
             /\ q = <<>> => confirmed = LastDeliveredNonce(data)
  <1> DEFINE r == data.relayers
             k == FirstUnconfirmedEntry(r, confirmed)
             q == SubSeq(r, k, Len(r))
  <1>1. r \in Seq(UnrewardedRelayer) /\ Len(r) \in Nat
    BY LastDeliveredNonceType, EntryTypes
  <1>2. /\ k \in 1..(Len(r) + 1)
        /\ \A j \in 1..(k - 1) : r[j].end <= confirmed
        /\ k <= Len(r) => r[k].end > confirmed
    BY <1>1, FirstUnconfirmedEntryProperties, Zenon
  <1> HIDE DEF r, k
  <1>3. /\ q \in Seq(UnrewardedRelayer)
        /\ Len(q) = Len(r) - k + 1
        /\ \A i \in 1..Len(q) : q[i] = r[i + k - 1]
    BY <1>1, <1>2
  <1>4. r # <<>>
    BY LastDeliveredNonceType DEF LastDeliveredNonce, r
  <1>5. LastDeliveredNonce(data) = r[Len(r)].end
    BY <1>4 DEF LastDeliveredNonce, r
  <1>6. \A i \in 1..Len(r) : r[i].begin \in Nat /\ r[i].end \in Nat
    BY <1>1, EntryTypes
  <1>7. \A i \in 1..Len(r) :
          /\ r[i].begin <= r[i].end
          /\ i > 1 => r[i].begin = r[i - 1].end + 1
          /\ \A j \in (i + 1)..Len(r) : r[i].end < r[j].begin
    BY DEF QueueWellFormed, r
  <1>8. r[1].begin <= data.last_confirmed_nonce + 1
    BY <1>4, LastDeliveredNonceType DEF QueueWellFormed, r
  <1> HIDE DEF q
  <1>9. \A i \in 1..Len(q) : q[i].end > confirmed
    <2> TAKE i \in 1..Len(q)
    <2> DEFINE n == i + k - 1
    <2>1. n \in k..Len(r) /\ n \in 1..Len(r) /\ k \in 1..Len(r) /\ i = n - k + 1
      <3>1. k \in 1..(Len(r) + 1) /\ Len(r) \in Nat /\ i \in 1..(Len(r) - k + 1)
        BY <1>1, <1>2, <1>3
      <3> QED  BY <3>1
    <2>a. q[i] = r[n]
      BY <1>3
    <2> HIDE DEF n
    <2>2. CASE i = 1
      BY <2>1, <2>a, <2>2, <1>1, <1>2
    <2>3. CASE i > 1
      <3>1. r[k].end < r[n].begin /\ r[n].begin <= r[n].end
        BY <2>1, <2>3, <1>1, <1>7, SMTT(30)
      <3> QED  BY <3>1, <2>1, <2>a, <1>2, <1>6, SMTT(30)
    <2> QED
      BY <2>2, <2>3, <1>1, <1>2, <1>3
  <1>10. ASSUME q # <<>>
         PROVE  q[Len(q)].end = r[Len(r)].end /\ q[1].begin <= confirmed + 1
    <2>1. Len(q) \in 1..Len(r) /\ k \in 1..Len(r) /\ q[1] = r[k] /\ q[Len(q)] = r[Len(r)]
      BY <1>10, <1>1, <1>2, <1>3
    <2>2. CASE k = 1
      BY <2>1, <2>2, <1>8, <1>6, LastDeliveredNonceType, SMTT(30)
    <2>3. CASE k > 1
      <3>1. r[k].begin = r[k - 1].end + 1 /\ r[k - 1].end <= confirmed /\ r[k - 1].end \in Nat
        BY <2>1, <2>3, <1>2, <1>6, <1>7, SMTT(30)
      <3> QED  BY <3>1, <2>1, SMTT(30)
    <2> QED
      BY <2>1, <2>2, <2>3
  <1>11. ASSUME q = <<>>
         PROVE  confirmed = LastDeliveredNonce(data)
    <2>1. k = Len(r) + 1 /\ Len(r) \in 1..(k - 1)
      BY <1>11, <1>1, <1>2, <1>3, <1>4
    <2> QED
      BY <2>1, <1>2, <1>5, LastDeliveredNonceType
  <1>12. \E s \in Nat : /\ Len(q) + s = Len(r)
                        /\ \A i \in 1..Len(q) : q[i] = r[i + s]
    <2>1. k - 1 \in Nat /\ Len(q) + (k - 1) = Len(r)
      BY <1>1, <1>2, <1>3
    <2>2. \A i \in 1..Len(q) : i + (k - 1) = i + k - 1
      BY <1>1, <1>2, <1>3
    <2> QED  BY <2>1, <2>2, <1>3, Zenon
  <1>13. Len(q) <= Len(r)
    BY <1>1, <1>2, <1>3
  <1> QED
    BY <1>3, <1>5, <1>9, <1>10, <1>11, <1>12, <1>13, Zenon DEF PopConfirmed, q, r, k

\* InboundLane::receive_state_update keeps the queue well-formed, forgets no
\* delivery and only ever raises the last confirmed nonce.
LEMMA ReceiveStateUpdateProperties ==
  ASSUME NEW data \in InboundLaneData, QueueWellFormed(data),
         NEW state, state.latest_received_nonce \in Nat
  PROVE  LET new == ReceiveStateUpdate(data, state)
         IN  /\ new \in InboundLaneData
             /\ QueueWellFormed(new)
             /\ LastDeliveredNonce(new) = LastDeliveredNonce(data)
             /\ \/ new = data
                \/ /\ new.last_confirmed_nonce = state.latest_received_nonce
                   /\ new.last_confirmed_nonce > data.last_confirmed_nonce
  <1> DEFINE confirmed == state.latest_received_nonce
             new == ReceiveStateUpdate(data, state)
             last == LastDeliveredNonce(data)
             p == PopConfirmed(data.relayers, confirmed)
             q == TrimFront(p, confirmed)
  <1>1. last \in Nat /\ data.last_confirmed_nonce \in Nat
    BY LastDeliveredNonceType
  <1>2. CASE confirmed > last \/ confirmed <= data.last_confirmed_nonce
    BY <1>2 DEF ReceiveStateUpdate
  <1>3. CASE confirmed <= last /\ data.last_confirmed_nonce < confirmed
    <2>1. new = [relayers |-> q, last_confirmed_nonce |-> confirmed]
      BY <1>1, <1>3 DEF ReceiveStateUpdate
    <2>2. /\ p \in Seq(UnrewardedRelayer)
          /\ Len(p) <= Len(data.relayers)
          /\ \A i \in 1..Len(p) : p[i].end > confirmed
          /\ p # <<>> => p[Len(p)].end = last /\ p[1].begin <= confirmed + 1
          /\ p = <<>> => confirmed = last
      BY <1>3, PopConfirmedProperties
    <2>3. PICK s \in Nat : /\ Len(p) + s = Len(data.relayers)
                           /\ \A i \in 1..Len(p) : p[i] = data.relayers[i + s]
      BY <1>3, PopConfirmedProperties, Zenon
    <2> HIDE DEF p
    <2>4. /\ Len(p) \in Nat
          /\ \A i \in 1..Len(p) : p[i].begin \in Nat /\ p[i].end \in Nat
      BY <2>2, EntryTypes
    <2>5. \A i \in 1..Len(p) :
            /\ 1 <= p[i].begin /\ p[i].begin <= p[i].end
            /\ p[i].end <= last
            /\ i > 1 => p[i].begin = p[i - 1].end + 1
            /\ \A j \in (i + 1)..Len(p) : p[i].end < p[j].begin
      <3>1. \A i \in 1..Len(p) :
              /\ i + s \in 1..Len(data.relayers)
              /\ i > 1 => (i + s > 1 /\ (i + s) - 1 = (i - 1) + s /\ i - 1 \in 1..Len(p))
              /\ \A j \in (i + 1)..Len(p) : j \in 1..Len(p) /\ j + s \in (i + s + 1)..Len(data.relayers)
        BY <2>3, <2>4
      <3>2. \A n \in 1..Len(data.relayers) :
              /\ 1 <= data.relayers[n].begin /\ data.relayers[n].begin <= data.relayers[n].end
              /\ data.relayers[n].end <= last
              /\ n > 1 => data.relayers[n].begin = data.relayers[n - 1].end + 1
              /\ \A j \in (n + 1)..Len(data.relayers) : data.relayers[n].end < data.relayers[j].begin
        BY DEF QueueWellFormed
      <3> HIDE DEF last
      <3> TAKE i \in 1..Len(p)
      <3>3. /\ 1 <= p[i].begin /\ p[i].begin <= p[i].end
            /\ p[i].end <= last
        BY <3>1, <3>2, <2>3, Zenon
      <3>4. ASSUME i > 1 PROVE p[i].begin = p[i - 1].end + 1
        <4>1. p[i] = data.relayers[i + s] /\ p[i - 1] = data.relayers[(i + s) - 1]
          BY <3>1, <3>4, <2>3, Zenon
        <4> QED  BY <4>1, <3>1, <3>2, <3>4
      <3>5. ASSUME NEW j \in (i + 1)..Len(p) PROVE p[i].end < p[j].begin
        <4>1. p[i] = data.relayers[i + s] /\ p[j] = data.relayers[j + s]
          BY <3>1, <2>3, Zenon
        <4> QED  BY <4>1, <3>1, <3>2, Zenon
      <3> QED  BY <3>3, <3>4, <3>5
    <2>6. /\ q \in Seq(UnrewardedRelayer)
          /\ Len(q) = Len(p)
          /\ \A i \in 1..Len(p) : q[i].end = p[i].end /\ (i > 1 => q[i] = p[i])
          /\ p # <<>> => q[1].begin \in confirmed..(confirmed + 1) /\ q[1].begin >= p[1].begin
      <3>1. CASE p # <<>> /\ p[1].begin < confirmed
        <4> DEFINE e == [p[1] EXCEPT !.begin = confirmed + 1]
        <4>1. p[1] \in UnrewardedRelayer /\ 1 \in 1..Len(p)
          BY <2>2, <3>1
        <4>2. e \in UnrewardedRelayer /\ e.begin = confirmed + 1 /\ e.end = p[1].end
          BY <4>1, SMTT(30) DEF UnrewardedRelayer
        <4>3. q = [p EXCEPT ![1] = e]
          BY <3>1 DEF TrimFront
        <4> HIDE DEF e, q
        <4>4. q \in Seq(UnrewardedRelayer) /\ Len(q) = Len(p) /\ q[1] = e
              /\ \A i \in 1..Len(p) : i > 1 => q[i] = p[i]
          BY <4>1, <4>2, <4>3, <2>2
        <4> QED
          BY <3>1, <4>1, <4>2, <4>4, <2>4
      <3>2. CASE ~(p # <<>> /\ p[1].begin < confirmed)
        <4>1. q = p
          BY <3>2 DEF TrimFront
        <4>2. p # <<>> => 1 \in 1..Len(p)
          BY <2>2
        <4> HIDE DEF q
        <4> QED
          BY <3>2, <4>1, <4>2, <2>2, <2>4
      <3> QED  BY <3>1, <3>2
    <2> HIDE DEF q
    <2>7. new \in InboundLaneData /\ new.relayers = q /\ new.last_confirmed_nonce = confirmed
      BY <2>1, <2>6 DEF InboundLaneData
    <2>8. LastDeliveredNonce(new) = last
      <3>1. CASE p = <<>>
        BY <3>1, <2>2, <2>6, <2>7 DEF LastDeliveredNonce
      <3>2. CASE p # <<>>
        <4>1. q # <<>> /\ Len(q) \in 1..Len(p)
          BY <3>2, <2>2, <2>6
        <4>2. LastDeliveredNonce(new) = q[Len(q)].end
          BY <4>1, <2>7 DEF LastDeliveredNonce
        <4> QED  BY <3>2, <4>1, <4>2, <2>2, <2>6
      <3> QED  BY <3>1, <3>2
    <2> HIDE DEF new, last
    <2>9. QueueWellFormed(new)
      <3>1. \A i \in 1..Len(q) :
              /\ 1 <= q[i].begin /\ q[i].begin <= q[i].end
              /\ confirmed < q[i].end /\ q[i].end <= last
              /\ i > 1 => q[i].begin = q[i - 1].end + 1
              /\ \A j \in (i + 1)..Len(q) : q[i].end < q[j].begin
        <4> TAKE i \in 1..Len(q)
        <4>1. /\ i \in 1..Len(p) /\ p # <<>> /\ q[i].end = p[i].end
              /\ p[i].end \in Nat /\ p[i].begin \in Nat /\ confirmed < p[i].end
          BY <2>2, <2>4, <2>6
        <4>2. q[i].end <= last /\ confirmed < q[i].end
          BY <4>1, <2>5
        <4>3. ASSUME i > 1 PROVE q[i].begin = q[i - 1].end + 1 /\ q[i] = p[i]
          <5>1. q[i] = p[i]
            BY <4>1, <4>3, <2>6
          <5>2. Len(p) \in Nat /\ i \in 1..Len(p) /\ i > 1
            BY <4>1, <4>3, <2>2
          <5>3. i - 1 \in 1..Len(p)
            BY <5>2
          <5>4. q[i - 1].end = p[i - 1].end
            BY <5>3, <2>6, SMTT(30)
          <5> QED  BY <5>1, <5>4, <4>1, <4>3, <2>5
        <4>4. ASSUME NEW j \in (i + 1)..Len(q) PROVE q[i].end < q[j].begin
          <5>1. Len(p) \in Nat /\ Len(q) = Len(p) /\ i \in 1..Len(p)
            BY <4>1, <2>2, <2>6
          <5>2. j \in (i + 1)..Len(p) /\ j \in 1..Len(p) /\ j > 1
            BY <5>1
          <5>3. q[j] = p[j]
            BY <5>2, <2>6
          <5>4. p[i].end < p[j].begin
            BY <5>1, <5>2, <2>5
          <5> QED  BY <5>3, <5>4, <4>1
        <4>5. i = 1 => q[i].begin <= q[i].end /\ 1 <= q[i].begin
          BY <4>1, <2>5, <2>6, <1>1, SMTT(30)
        <4>6. 1 <= q[i].begin /\ q[i].begin <= q[i].end
          BY <4>1, <4>3, <4>5, <2>4, <2>5, SMTT(30)
        <4> QED  BY <4>2, <4>3, <4>4, <4>6
      <3>2. q # <<>> => q[1].begin \in confirmed..(confirmed + 1)
        BY <2>2, <2>6
      <3>3. Len(q) <= MaxUnrewardedRelayerEntries /\ last - confirmed <= MaxUnconfirmedMessages
        <4>1. /\ Len(data.relayers) <= MaxUnrewardedRelayerEntries
              /\ last - data.last_confirmed_nonce <= MaxUnconfirmedMessages
          BY DEF QueueWellFormed, last
        <4>2. Len(data.relayers) \in Nat
          BY LastDeliveredNonceType, EntryTypes
        <4>3. Len(q) \in Nat /\ Len(q) <= Len(data.relayers)
          BY <4>2, <2>2, <2>6
        <4>4. /\ last \in Nat /\ confirmed \in Nat /\ data.last_confirmed_nonce \in Nat
              /\ data.last_confirmed_nonce < confirmed
          BY <1>1, <1>3
        <4> QED  BY <4>1, <4>2, <4>3, <4>4, LaneLimitsAssumption
      <3> QED
        BY <2>7, <2>8, <3>1, <3>2, <3>3 DEF QueueWellFormed
    <2> QED
      BY <2>7, <2>8, <2>9, <1>3 DEF new, last
  <1> QED
    BY <1>1, <1>2, <1>3

-----------------------------------------------------------------------------
\* How much of an offered batch is accepted: nothing, or a run of nonces that
\* follows the last delivered one, within the offer and within both limits.
LEMMA LastAcceptedProperties ==
  ASSUME NEW data \in InboundLaneData, NEW relayer, NEW begin \in Nat, NEW end \in Nat
  PROVE  LET last == LastDeliveredNonce(data)
             accepted == LastAccepted(data, relayer, begin, end)
         IN  /\ accepted \in Nat
             /\ \/ accepted = last
                \/ /\ last < accepted /\ accepted <= end /\ begin <= last + 1
                   /\ accepted - data.last_confirmed_nonce <= MaxUnconfirmedMessages
                   /\ Len(data.relayers) < MaxUnrewardedRelayerEntries
  BY LastDeliveredNonceType, EntryTypes, LaneLimitsAssumption, SMTT(30) DEF LastAccepted, Lesser

\* Noting a delivery changes the queue at its end only.
LEMMA NoteDeliveredProperties ==
  ASSUME NEW q \in Seq(UnrewardedRelayer), NEW relayer \in Relayers,
         NEW first \in Nat, NEW last \in Nat
  PROVE  LET new == NoteDelivered(q, relayer, first, last)
         IN  /\ new \in Seq(UnrewardedRelayer)
             /\ new # <<>> /\ Len(new) \in {Len(q), Len(q) + 1}
             /\ new[Len(new)].end = last /\ new[Len(new)].relayer = relayer
             /\ IF ExtendsLastEntry(q, relayer)
                THEN Len(new) = Len(q) /\ new[Len(new)].begin = q[Len(q)].begin
                ELSE Len(new) = Len(q) + 1 /\ new[Len(new)].begin = first
             /\ \A i \in 1..(Len(new) - 1) : i \in 1..Len(q) /\ new[i] = q[i]
  <1> DEFINE new == NoteDelivered(q, relayer, first, last)
             n == Len(q)
  <1>1. CASE ExtendsLastEntry(q, relayer)
    <2> DEFINE e == [q[n] EXCEPT !.end = last]
    <2>1. q # <<>> /\ n \in 1..n /\ n \in Nat /\ q[n] \in UnrewardedRelayer /\ q[n].relayer = relayer
      BY <1>1, EntryTypes DEF ExtendsLastEntry
    <2>2. e \in UnrewardedRelayer /\ e.end = last /\ e.begin = q[n].begin /\ e.relayer = relayer
      BY <2>1 DEF UnrewardedRelayer
    <2>3. new = [q EXCEPT ![n] = e]
      BY <1>1 DEF NoteDelivered
    <2> HIDE DEF e, new
    <2>4. /\ new \in Seq(UnrewardedRelayer) /\ Len(new) = n /\ new[n] = e
          /\ \A i \in 1..(n - 1) : new[i] = q[i]
      BY <2>1, <2>2, <2>3
    <2>5. new # <<>>
      BY <2>1, <2>4
    <2>6. \A i \in 1..(Len(new) - 1) : i \in 1..n /\ new[i] = q[i]
      BY <2>1, <2>4
    <2> QED
      BY <1>1, <2>2, <2>4, <2>5, <2>6 DEF new
  <1>2. CASE ~ExtendsLastEntry(q, relayer)
    <2> DEFINE e == [relayer |-> relayer, begin |-> first, end |-> last]
    <2>1. e \in UnrewardedRelayer /\ e.end = last /\ e.begin = first /\ e.relayer = relayer
      BY DEF UnrewardedRelayer
    <2>2. new = Append(q, e)
      BY <1>2 DEF NoteDelivered
    <2> HIDE DEF e, new
    <2>3. /\ new \in Seq(UnrewardedRelayer) /\ Len(new) = n + 1 /\ new[n + 1] = e
          /\ \A i \in 1..n : new[i] = q[i]
      BY <2>1, <2>2
    <2>4. new # <<>> /\ n \in Nat
      BY <2>3
    <2>5. \A i \in 1..(Len(new) - 1) : i \in 1..n /\ new[i] = q[i]
      BY <2>3, <2>4
    <2> QED
      BY <1>2, <2>1, <2>3, <2>4, <2>5 DEF new
  <1> QED
    BY <1>1, <1>2

\* One delivery transaction keeps the queue well-formed, confirms nothing and
\* delivers exactly the accepted nonces.
LEMMA ReceiveMessagesProperties ==
  ASSUME NEW data \in InboundLaneData, QueueWellFormed(data),
         NEW relayer \in Relayers, NEW begin \in Nat, NEW end \in Nat
  PROVE  LET new == ReceiveMessages(data, relayer, begin, end)
         IN  /\ new \in InboundLaneData
             /\ QueueWellFormed(new)
             /\ LastDeliveredNonce(new) = LastAccepted(data, relayer, begin, end)
             /\ new.last_confirmed_nonce = data.last_confirmed_nonce
  <1> DEFINE last == LastDeliveredNonce(data)
             accepted == LastAccepted(data, relayer, begin, end)
             confirmed == data.last_confirmed_nonce
             new == ReceiveMessages(data, relayer, begin, end)
             p == data.relayers
             q == NoteDelivered(p, relayer, last + 1, accepted)
  <1>1. CASE accepted = last
    BY <1>1 DEF ReceiveMessages
  <1>2. CASE accepted # last
    <2>1. new = [data EXCEPT !.relayers = q]
      BY <1>2 DEF ReceiveMessages
    <2>2. /\ last \in Nat /\ confirmed \in Nat /\ p \in Seq(UnrewardedRelayer) /\ Len(p) \in Nat
          /\ \A i \in 1..Len(p) : p[i].begin \in Nat /\ p[i].end \in Nat
      BY LastDeliveredNonceType, EntryTypes
    <2>3. /\ accepted \in Nat /\ last < accepted
          /\ accepted - confirmed <= MaxUnconfirmedMessages
          /\ Len(p) < MaxUnrewardedRelayerEntries
      BY <1>2, LastAcceptedProperties
    <2>4. /\ \A i \in 1..Len(p) :
               /\ 1 <= p[i].begin /\ p[i].begin <= p[i].end
               /\ confirmed < p[i].end /\ p[i].end <= last
               /\ i > 1 => p[i].begin = p[i - 1].end + 1
               /\ \A j \in (i + 1)..Len(p) : p[i].end < p[j].begin
          /\ p # <<>> => p[1].begin \in confirmed..(confirmed + 1)
      BY DEF QueueWellFormed
    <2>5. IF p = <<>> THEN last = confirmed ELSE last = p[Len(p)].end
      BY DEF LastDeliveredNonce
    <2> HIDE DEF last, accepted
    <2>6. /\ q \in Seq(UnrewardedRelayer)
          /\ q # <<>> /\ Len(q) \in {Len(p), Len(p) + 1}
          /\ q[Len(q)].end = accepted
          /\ IF ExtendsLastEntry(p, relayer)
             THEN Len(q) = Len(p) /\ q[Len(q)].begin = p[Len(p)].begin
             ELSE Len(q) = Len(p) + 1 /\ q[Len(q)].begin = last + 1
          /\ \A i \in 1..(Len(q) - 1) : i \in 1..Len(p) /\ q[i] = p[i]
      BY <2>2, <2>3, NoteDeliveredProperties, SMTT(30)
    <2> HIDE DEF q, p, confirmed
    <2>7. new \in InboundLaneData /\ new.relayers = q /\ new.last_confirmed_nonce = confirmed
      BY <2>1, <2>6 DEF InboundLaneData, confirmed
    <2>8. LastDeliveredNonce(new) = accepted
      BY <2>6, <2>7 DEF LastDeliveredNonce
    <2> HIDE DEF new
    <2>9. Len(q) \in Nat /\ Len(q) >= 1 /\ (p # <<>> => Len(p) \in 1..Len(p))
      BY <2>2, <2>6
    <2>10. /\ 1 <= q[Len(q)].begin /\ q[Len(q)].begin <= accepted /\ q[Len(q)].begin \in Nat
           /\ confirmed <= last
      <3>1. confirmed <= last
        BY <2>2, <2>4, <2>5, <2>9
      <3>2. CASE ExtendsLastEntry(p, relayer)
        <4>1. Len(p) \in 1..Len(p)
          BY <3>2, <2>9 DEF ExtendsLastEntry
        <4>2. /\ q[Len(q)].begin = p[Len(p)].begin
              /\ 1 <= p[Len(p)].begin /\ p[Len(p)].begin <= p[Len(p)].end /\ p[Len(p)].end <= last
              /\ p[Len(p)].begin \in Nat /\ p[Len(p)].end \in Nat
          BY <3>2, <4>1, <2>2, <2>4, <2>6
        <4> QED  BY <3>1, <4>2, <2>2, <2>3, SMTT(30)
      <3>3. CASE ~ExtendsLastEntry(p, relayer)
        BY <3>1, <3>3, <2>2, <2>3, <2>6
      <3> QED  BY <3>2, <3>3
    <2>11. \A i \in 1..(Len(q) - 1) : p[i].end < q[Len(q)].begin
                                      /\ (i = Len(q) - 1 => q[Len(q)].begin = p[i].end + 1)
      <3> TAKE i \in 1..(Len(q) - 1)
      <3>1. i \in 1..Len(p) /\ p # <<>>
        BY <2>6, <2>2
      <3>2. CASE ExtendsLastEntry(p, relayer)
        <4>1. Len(p) \in (i + 1)..Len(p) /\ Len(p) \in 1..Len(p) /\ Len(p) > 1
          BY <3>1, <3>2, <2>2, <2>6, <2>9
        <4> QED  BY <3>1, <3>2, <4>1, <2>2, <2>4, <2>6
      <3>3. CASE ~ExtendsLastEntry(p, relayer)
        BY <3>1, <3>3, <2>2, <2>4, <2>5, <2>6, SMTT(30)
      <3> QED  BY <3>2, <3>3
    <2>12. QueueWellFormed(new)
      <3>1. \A i \in 1..Len(q) :
              /\ 1 <= q[i].begin /\ q[i].begin <= q[i].end
              /\ confirmed < q[i].end /\ q[i].end <= accepted
              /\ i > 1 => q[i].begin = q[i - 1].end + 1
              /\ \A j \in (i + 1)..Len(q) : q[i].end < q[j].begin
        <4> TAKE i \in 1..Len(q)
        <4>1. CASE i = Len(q)
          <5>1. /\ 1 <= q[i].begin /\ q[i].begin <= q[i].end
                /\ confirmed < q[i].end /\ q[i].end <= accepted
            BY <4>1, <2>2, <2>3, <2>6, <2>10
          <5>2. i > 1 => q[i].begin = q[i - 1].end + 1
            BY <4>1, <2>6, <2>9, <2>11, SMTT(30)
          <5>3. (i + 1)..Len(q) = {}
            BY <4>1, <2>9
          <5> QED  BY <5>1, <5>2, <5>3
        <4>2. CASE i # Len(q)
          <5>1. i \in 1..(Len(q) - 1) /\ i \in 1..Len(p) /\ q[i] = p[i]
            BY <4>2, <2>6, <2>9
          <5>2. /\ 1 <= q[i].begin /\ q[i].begin <= q[i].end
                /\ confirmed < q[i].end /\ q[i].end <= accepted
            BY <5>1, <2>2, <2>3, <2>4, SMTT(30)
          <5>3. i > 1 => q[i].begin = q[i - 1].end + 1
            BY <5>1, <2>4, <2>6, <2>9
          <5>4. ASSUME NEW j \in (i + 1)..Len(q) PROVE q[i].end < q[j].begin
            <6>1. CASE j = Len(q)
              BY <6>1, <5>1, <2>11
            <6>2. CASE j # Len(q)
              <7>1. j \in 1..(Len(q) - 1) /\ j \in (i + 1)..Len(p) /\ q[j] = p[j]
                BY <6>2, <5>1, <2>2, <2>6, <2>9
              <7> QED  BY <7>1, <5>1, <2>4
            <6> QED  BY <6>1, <6>2
          <5> QED  BY <5>2, <5>3, <5>4
        <4> QED  BY <4>1, <4>2
      <3>2. q[1].begin \in confirmed..(confirmed + 1)
        <4>1. CASE Len(q) = 1
          <5>1. CASE ExtendsLastEntry(p, relayer)
            BY <4>1, <5>1, <2>4, <2>6, Zenon DEF ExtendsLastEntry
          <5>2. CASE ~ExtendsLastEntry(p, relayer)
            <6>1. Len(p) = 0 /\ p = <<>>
              BY <4>1, <5>2, <2>2, <2>6
            <6>2. last = confirmed
              BY <6>1, <2>5
            <6>3. q[1].begin = last + 1
              BY <4>1, <5>2, <2>6
            <6> QED  BY <6>2, <6>3, <2>2
          <5> QED  BY <5>1, <5>2
        <4>2. CASE Len(q) > 1
          <5>1. 1 \in 1..(Len(q) - 1)
            BY <4>2, <2>9
          <5>2. q[1] = p[1] /\ 1 \in 1..Len(p)
            BY <5>1, <2>6
          <5>3. p # <<>>
            BY <5>2, <2>2
          <5> QED  BY <5>2, <5>3, <2>4
        <4>3. Len(q) = 1 \/ Len(q) > 1
          <5>1. ASSUME NEW n \in Nat, n >= 1 PROVE n = 1 \/ n > 1
            BY <5>1
          <5> QED  BY <5>1, <2>9, Zenon
        <4> QED  BY <4>1, <4>2, <4>3
      <3>3. Len(q) <= MaxUnrewardedRelayerEntries
        BY <2>2, <2>3, <2>6, LaneLimitsAssumption
      <3> QED
        BY <2>3, <2>7, <2>8, <3>1, <3>2, <3>3 DEF QueueWellFormed
    <2> QED
      BY <2>7, <2>8, <2>12 DEF new, accepted, confirmed
  <1> QED
    BY <1>1, <1>2

-----------------------------------------------------------------------------
\* Noting two adjacent deliveries of one relayer is noting their union.
LEMMA NoteDeliveredTwice ==
  ASSUME NEW q \in Seq(UnrewardedRelayer), NEW relayer \in Relayers,
         NEW first \in Nat, NEW middle \in Nat, NEW next \in Nat, NEW last \in Nat
  PROVE  NoteDelivered(NoteDelivered(q, relayer, first, middle), relayer, next, last)
           = NoteDelivered(q, relayer, first, last)
  <1> DEFINE once == NoteDelivered(q, relayer, first, middle)
             n == Len(q)
  <1>1. /\ once \in Seq(UnrewardedRelayer) /\ ExtendsLastEntry(once, relayer)
    BY NoteDeliveredProperties DEF ExtendsLastEntry
  <1>2. NoteDelivered(once, relayer, next, last)
          = [once EXCEPT ![Len(once)] = [once[Len(once)] EXCEPT !.end = last]]
    BY <1>1 DEF NoteDelivered
  <1>3. CASE ExtendsLastEntry(q, relayer)
    <2>1. n \in 1..n /\ q[n] \in UnrewardedRelayer
      BY <1>3, EntryTypes DEF ExtendsLastEntry
    <2> DEFINE e == [q[n] EXCEPT !.end = middle]
               f == [q[n] EXCEPT !.end = last]
    <2>2. once = [q EXCEPT ![n] = e] /\ NoteDelivered(q, relayer, first, last) = [q EXCEPT ![n] = f]
      BY <1>3 DEF NoteDelivered
    <2>3. e \in UnrewardedRelayer /\ f \in UnrewardedRelayer /\ f = [e EXCEPT !.end = last]
      BY <2>1, Zenon DEF UnrewardedRelayer
    <2> HIDE DEF once, e, f
    <2>4. Len(once) = n /\ once[n] = e
      BY <2>1, <2>2, <2>3
    <2>5. [once EXCEPT ![n] = f] = [q EXCEPT ![n] = f]
      BY <2>2, Zenon
    <2> QED
      BY <1>2, <2>2, <2>3, <2>4, <2>5, Zenon DEF once
  <1>4. CASE ~ExtendsLastEntry(q, relayer)
    <2> DEFINE e == [relayer |-> relayer, begin |-> first, end |-> middle]
               f == [relayer |-> relayer, begin |-> first, end |-> last]
    <2>1. once = Append(q, e) /\ NoteDelivered(q, relayer, first, last) = Append(q, f)
      BY <1>4 DEF NoteDelivered
    <2>2. e \in UnrewardedRelayer /\ f \in UnrewardedRelayer /\ f = [e EXCEPT !.end = last]
      BY DEF UnrewardedRelayer
    <2> HIDE DEF once, e, f
    <2>3. Len(once) = n + 1 /\ once[n + 1] = e
      BY <2>1, <2>2
    <2>4. [once EXCEPT ![n + 1] = f] = Append(q, f)
      <3> DEFINE s == [once EXCEPT ![n + 1] = f]
                 t == Append(q, f)
      <3>0. /\ once \in Seq(UnrewardedRelayer) /\ Len(once) = n + 1 /\ n \in Nat
            /\ \A i \in 1..n : once[i] = q[i]
        BY <2>1, <2>2
      <3>1. s \in Seq(UnrewardedRelayer) /\ Len(s) = n + 1 /\ s[n + 1] = f
            /\ \A i \in 1..n : s[i] = q[i]
        <4> HIDE DEF n
        <4>1. n + 1 \in 1..Len(once) /\ \A i \in 1..n : i \in 1..Len(once) /\ i # n + 1
          BY <3>0
        <4> QED  BY <3>0, <4>1, <2>2
      <3>2. t \in Seq(UnrewardedRelayer) /\ Len(t) = n + 1 /\ t[n + 1] = f
            /\ \A i \in 1..n : t[i] = q[i]
        BY <2>2
      <3> HIDE DEF s, t
      <3>3. \A i \in 1..Len(s) : s[i] = t[i]
        <4>1. \A i \in 1..Len(s) : i = n + 1 \/ i \in 1..n
          BY <3>1
        <4> QED  BY <4>1, <3>1, <3>2
      <3>4. s = t
        BY <3>1, <3>2, <3>3, SeqEqual
      <3> QED  BY <3>4 DEF s, t
    <2> QED
      BY <1>2, <2>1, <2>2, <2>3, <2>4 DEF once
  <1> QED
    BY <1>3, <1>4

\* ReceiveMessages is the pallet's loop of receive_message calls: offering
\* nothing changes nothing, and offering one more message is offering it last.
THEOREM ReceiveMessagesIsLoop ==
  ASSUME NEW data \in InboundLaneData, QueueWellFormed(data),
         NEW relayer \in Relayers, NEW begin \in Nat \ {0}
  PROVE  /\ ReceiveMessages(data, relayer, begin, begin - 1) = data
         /\ \A end \in Nat : end >= begin - 1 =>
              ReceiveMessages(data, relayer, begin, end + 1)
                = ReceiveMessage(ReceiveMessages(data, relayer, begin, end), relayer, end + 1)
  <1> DEFINE last == LastDeliveredNonce(data)
             confirmed == data.last_confirmed_nonce
             q == data.relayers
  <1>1. last \in Nat /\ confirmed \in Nat /\ q \in Seq(UnrewardedRelayer) /\ Len(q) \in Nat
    BY LastDeliveredNonceType, EntryTypes
  <1>2. ReceiveMessages(data, relayer, begin, begin - 1) = data
    <2>1. LastAccepted(data, relayer, begin, begin - 1) = last
      BY <1>1 DEF LastAccepted
    <2> QED  BY <2>1 DEF ReceiveMessages
  <1>3. ASSUME NEW end \in Nat, end >= begin - 1
        PROVE  ReceiveMessages(data, relayer, begin, end + 1)
                 = ReceiveMessage(ReceiveMessages(data, relayer, begin, end), relayer, end + 1)
    <2> DEFINE before == LastAccepted(data, relayer, begin, end)
               after == LastAccepted(data, relayer, begin, end + 1)
               d == ReceiveMessages(data, relayer, begin, end)
               fits == /\ before = end
                       /\ Len(d.relayers) < MaxUnrewardedRelayerEntries
                       /\ end + 1 - confirmed <= MaxUnconfirmedMessages
    <2>1. /\ d \in InboundLaneData /\ LastDeliveredNonce(d) = before
          /\ d.last_confirmed_nonce = confirmed
      BY ReceiveMessagesProperties
    <2>2. before \in Nat /\ Len(d.relayers) \in Nat
      BY <2>1, LastDeliveredNonceType, EntryTypes
    <2>3. (ReceivalResult(d, end + 1) = "Dispatched") <=> fits
      BY <1>1, <2>1, <2>2, LaneLimitsAssumption, SMTT(30) DEF ReceivalResult
    <2>4. before \in Nat /\ (before = last \/ last < before)
      BY <1>1, LastAcceptedProperties
    <2>5. CASE before = last
      <3>1. d = data
        BY <2>5 DEF ReceiveMessages
      <3>2. CASE fits
        <4>1. after = end + 1 /\ after # last
          BY <1>1, <1>3, <2>5, <3>1, <3>2, LaneLimitsAssumption, SMTT(30) DEF LastAccepted, Lesser
        <4> HIDE DEF after
        <4>2. ReceiveMessages(data, relayer, begin, end + 1)
                = [data EXCEPT !.relayers = NoteDelivered(q, relayer, last + 1, end + 1)]
          BY <4>1 DEF ReceiveMessages, after
        <4> QED  BY <4>2, <3>1, <3>2, <2>3, <2>5 DEF ReceiveMessage
      <3>3. CASE ~fits
        <4>1. after = last
          BY <1>1, <1>3, <2>5, <3>1, <3>3, LaneLimitsAssumption, SMTT(30) DEF LastAccepted, Lesser
        <4> QED  BY <4>1, <3>1, <3>3, <2>3, SMTT(30) DEF ReceiveMessages, ReceiveMessage
      <3> QED  BY <3>2, <3>3
    <2>6. CASE last < before
      <3> DEFINE p == NoteDelivered(q, relayer, last + 1, before)
      <3>1. d = [data EXCEPT !.relayers = p]
        BY <1>1, <2>2, <2>6 DEF ReceiveMessages
      <3>2. d.relayers = p
        BY <3>1 DEF InboundLaneData
      <3>3. IF ExtendsLastEntry(q, relayer) THEN Len(p) = Len(q) ELSE Len(p) = Len(q) + 1
        BY <1>1, <2>2, NoteDeliveredProperties, SMTT(30)
      <3> HIDE DEF p, d
      <3>4. CASE fits
        <4>1. after = end + 1 /\ after # last
          <5>1. /\ before = end /\ Len(p) < MaxUnrewardedRelayerEntries
                /\ end + 1 - confirmed <= MaxUnconfirmedMessages /\ last < end
            BY <2>6, <3>2, <3>4
          <5>2. begin <= last + 1 /\ Len(q) < MaxUnrewardedRelayerEntries
            BY <1>1, <2>6, LastAcceptedProperties
          <5> HIDE DEF before
          <5>3. ExtendsLastEntry(q, relayer) \/ Len(q) + 1 < MaxUnrewardedRelayerEntries
            BY <3>3, <5>1
          <5> QED
            BY <1>1, <5>1, <5>2, <5>3, LaneLimitsAssumption, SMTT(30) DEF LastAccepted, Lesser
        <4> HIDE DEF after
        <4>2. ReceiveMessages(data, relayer, begin, end + 1)
                = [data EXCEPT !.relayers = NoteDelivered(q, relayer, last + 1, end + 1)]
          BY <4>1 DEF ReceiveMessages, after
        <4>3. ReceiveMessage(d, relayer, end + 1)
                = [d EXCEPT !.relayers = NoteDelivered(p, relayer, end + 1, end + 1)]
          BY <3>2, <3>4, <2>3 DEF ReceiveMessage
        <4>4. NoteDelivered(p, relayer, end + 1, end + 1) = NoteDelivered(q, relayer, last + 1, end + 1)
          BY <1>1, <2>2, NoteDeliveredTwice, SMTT(30) DEF p
        <4> QED  BY <4>2, <4>3, <4>4, <3>1, Zenon DEF InboundLaneData, d
      <3>5. CASE ~fits
        <4> DEFINE room == confirmed + MaxUnconfirmedMessages
                   roomy == \/ ExtendsLastEntry(q, relayer)
                            \/ Len(q) + 1 < MaxUnrewardedRelayerEntries
        <4>a. room \in Nat /\ begin <= last + 1 /\ last < end /\ last < room
              /\ Len(q) < MaxUnrewardedRelayerEntries
          BY <1>1, <2>6, LaneLimitsAssumption DEF LastAccepted
        <4>1. after = before
          <5>1. CASE roomy
            <6>1. before = Lesser(end, room) /\ after = Lesser(end + 1, room)
              BY <4>a, <5>1, <1>1 DEF LastAccepted, Lesser
            <6>2. Len(p) < MaxUnrewardedRelayerEntries
              BY <4>a, <5>1, <1>1, <3>3
            <6> HIDE DEF before, after, roomy
            <6> QED  BY <6>1, <6>2, <4>a, <3>2, <3>5, <1>1, LaneLimitsAssumption, SMTT(30) DEF Lesser
          <5>2. CASE ~roomy
            BY <4>a, <5>2, <1>1 DEF LastAccepted, Lesser
          <5> QED  BY <5>1, <5>2
        <4>2. ReceiveMessage(d, relayer, end + 1) = d
          BY <3>5, <2>3 DEF ReceiveMessage
        <4> QED  BY <4>1, <4>2 DEF ReceiveMessages, d
      <3> QED  BY <3>4, <3>5 DEF d
    <2> QED  BY <1>1, <2>4, <2>5, <2>6
  <1> QED
    BY <1>2, <1>3

-----------------------------------------------------------------------------
\* Only delivered messages are credited.
LEMMA CreditsBound ==
  ASSUME NEW data \in InboundLaneData, QueueWellFormed(data),
         NEW n \in Nat, NEW r, Credits(data, n, r)
  PROVE  n <= LastDeliveredNonce(data)
  <1>1. PICK i \in 1..Len(data.relayers) : n \in data.relayers[i].begin..data.relayers[i].end
    BY DEF Credits
  <1>2. data.relayers[i].end <= LastDeliveredNonce(data)
    BY DEF QueueWellFormed
  <1>3. data.relayers[i].begin \in Nat /\ data.relayers[i].end \in Nat
    BY LastDeliveredNonceType, EntryTypes
  <1> QED
    BY <1>1, <1>2, <1>3, LastDeliveredNonceType

\* A state update drops credits of confirmed messages only, and invents none.
LEMMA ReceiveStateUpdateCredits ==
  ASSUME NEW data \in InboundLaneData, QueueWellFormed(data),
         NEW state, state.latest_received_nonce \in Nat
  PROVE  LET new == ReceiveStateUpdate(data, state)
         IN  /\ \A n \in Nat, r \in Relayers : Credits(new, n, r) => Credits(data, n, r)
             /\ \A n \in Nat, r \in Relayers :
                  n > new.last_confirmed_nonce /\ Credits(data, n, r) => Credits(new, n, r)
  <1> DEFINE confirmed == state.latest_received_nonce
             new == ReceiveStateUpdate(data, state)
             o == data.relayers
             p == PopConfirmed(o, confirmed)
             q == TrimFront(p, confirmed)
  <1>1. CASE confirmed > LastDeliveredNonce(data) \/ confirmed <= data.last_confirmed_nonce
    BY <1>1 DEF ReceiveStateUpdate
  <1>2. CASE confirmed <= LastDeliveredNonce(data) /\ data.last_confirmed_nonce < confirmed
    <2>1. new.relayers = q /\ new.last_confirmed_nonce = confirmed
      BY <1>2, LastDeliveredNonceType DEF ReceiveStateUpdate
    <2>2. /\ p \in Seq(UnrewardedRelayer)
          /\ \A i \in 1..Len(p) : p[i].end > confirmed
      BY <1>2, PopConfirmedProperties
    <2>3. PICK s \in Nat : /\ Len(p) + s = Len(o)
                           /\ \A i \in 1..Len(p) : p[i] = o[i + s]
      BY <1>2, PopConfirmedProperties, Zenon
    <2>4. /\ Len(p) \in Nat /\ Len(o) \in Nat
          /\ \A i \in 1..Len(p) : p[i].begin \in Nat /\ p[i].end \in Nat
          /\ \A i \in 1..Len(o) : o[i].begin \in Nat /\ o[i].end \in Nat
      BY <2>2, EntryTypes, LastDeliveredNonceType
    <2>5. \A i \in 1..Len(o) : i <= s => o[i].end <= confirmed
      <3>1. \A i \in 1..(FirstUnconfirmedEntry(o, confirmed) - 1) : o[i].end <= confirmed
        BY FirstUnconfirmedEntryProperties, LastDeliveredNonceType, Zenon
      <3>2. FirstUnconfirmedEntry(o, confirmed) \in 1..(Len(o) + 1)
        BY FirstUnconfirmedEntryProperties, LastDeliveredNonceType, Zenon
      <3>3. Len(p) = Len(o) - FirstUnconfirmedEntry(o, confirmed) + 1
        BY <3>2, <2>4, LastDeliveredNonceType DEF PopConfirmed
      <3>4. s = FirstUnconfirmedEntry(o, confirmed) - 1
        <4>1. ASSUME NEW k \in Int, NEW a \in Nat, NEW b \in Nat, a = b - k + 1, a + s = b
              PROVE  s = k - 1
          BY <4>1
        <4> DEFINE k == FirstUnconfirmedEntry(o, confirmed)
        <4>2. k \in Int /\ Len(p) = Len(o) - k + 1 /\ Len(p) \in Nat /\ Len(o) \in Nat
          BY <3>2, <3>3, <2>4
        <4>3. Len(p) + s = Len(o)
          BY <2>3
        <4> HIDE DEF k, p, o
        <4>4. s = k - 1
          BY <4>1, <4>2, <4>3, SMTT(30)
        <4> QED  BY <4>4 DEF k
      <3> QED  BY <3>1, <3>4
    <2> HIDE DEF p
    <2>6. /\ Len(q) = Len(p)
          /\ \A i \in 1..Len(p) :
               /\ q[i].relayer = p[i].relayer /\ q[i].end = p[i].end
               /\ q[i].begin = p[i].begin \/ (p[i].begin < confirmed /\ q[i].begin = confirmed + 1)
      <3>1. CASE p # <<>> /\ p[1].begin < confirmed
        <4> DEFINE e == [p[1] EXCEPT !.begin = confirmed + 1]
        <4>1. p[1] \in UnrewardedRelayer /\ 1 \in 1..Len(p)
          BY <2>2, <3>1
        <4>2. e \in UnrewardedRelayer /\ e.begin = confirmed + 1 /\ e.end = p[1].end
              /\ e.relayer = p[1].relayer
          BY <4>1 DEF UnrewardedRelayer
        <4>3. q = [p EXCEPT ![1] = e]
          BY <3>1 DEF TrimFront
        <4> HIDE DEF e, q
        <4>4. Len(q) = Len(p) /\ q[1] = e /\ \A i \in 1..Len(p) : i # 1 => q[i] = p[i]
          BY <4>1, <4>2, <4>3, <2>2
        <4> QED  BY <3>1, <4>2, <4>4
      <3>2. CASE ~(p # <<>> /\ p[1].begin < confirmed)
        BY <3>2 DEF TrimFront
      <3> QED  BY <3>1, <3>2
    <2> HIDE DEF q, new
    <2>7. ASSUME NEW n \in Nat, NEW r \in Relayers, Credits(new, n, r)
          PROVE  Credits(data, n, r)
      <3>1. PICK i \in 1..Len(q) : q[i].relayer = r /\ n \in q[i].begin..q[i].end
        BY <2>1, <2>7 DEF Credits
      <3>2. i + s \in 1..Len(o) /\ i \in 1..Len(p) /\ p[i] = o[i + s]
        BY <2>3, <2>4, <2>6
      <3>3. /\ q[i].relayer = p[i].relayer /\ q[i].end = p[i].end
            /\ q[i].begin = p[i].begin \/ (p[i].begin < confirmed /\ q[i].begin = confirmed + 1)
            /\ p[i].begin \in Nat /\ p[i].end \in Nat
        BY <3>2, <2>4, <2>6, SMTT(30)
      <3>4. p[i].relayer = r /\ n \in p[i].begin..p[i].end
        BY <3>1, <3>3
      <3> QED  BY <3>2, <3>4 DEF Credits
    <2>8. ASSUME NEW n \in Nat, NEW r \in Relayers, n > confirmed, Credits(data, n, r)
          PROVE  Credits(new, n, r)
      <3>1. PICK j \in 1..Len(o) : o[j].relayer = r /\ n \in o[j].begin..o[j].end
        BY <2>8 DEF Credits
      <3>2. j > s
        BY <3>1, <2>3, <2>4, <2>5, <2>8, SMTT(30)
      <3> DEFINE i == j - s
      <3>3. i \in 1..Len(p) /\ i + s = j
        BY <3>2, <2>3, <2>4
      <3> HIDE DEF i
      <3>4. p[i] = o[j] /\ q[i].relayer = r /\ q[i].end = o[j].end
        BY <3>1, <3>3, <2>3, <2>6, SMTT(30)
      <3>a. /\ q[i].begin = p[i].begin \/ (p[i].begin < confirmed /\ q[i].begin = confirmed + 1)
            /\ p[i].begin \in Nat /\ p[i].end \in Nat
        BY <3>3, <2>4, <2>6
      <3>5. n \in q[i].begin..q[i].end
        BY <3>1, <3>4, <3>a, <2>8
      <3> QED  BY <3>3, <3>4, <3>5, <2>1, <2>6 DEF Credits
    <2> QED  BY <2>1, <2>7, <2>8 DEF new
  <1> QED
    BY <1>1, <1>2, LastDeliveredNonceType

\* A delivery credits its relayer with exactly the accepted messages.
LEMMA ReceiveMessagesCredits ==
  ASSUME NEW data \in InboundLaneData, QueueWellFormed(data),
         NEW relayer \in Relayers, NEW begin \in Nat, NEW end \in Nat,
         NEW n \in Nat, NEW r \in Relayers
  PROVE  Credits(ReceiveMessages(data, relayer, begin, end), n, r) <=>
           \/ Credits(data, n, r)
           \/ /\ r = relayer
              /\ n \in (LastDeliveredNonce(data) + 1)..LastAccepted(data, relayer, begin, end)
  <1> DEFINE last == LastDeliveredNonce(data)
             accepted == LastAccepted(data, relayer, begin, end)
             new == ReceiveMessages(data, relayer, begin, end)
             p == data.relayers
             q == NoteDelivered(p, relayer, last + 1, accepted)
  <1>1. last \in Nat /\ p \in Seq(UnrewardedRelayer) /\ Len(p) \in Nat
        /\ \A i \in 1..Len(p) : p[i].begin \in Nat /\ p[i].end \in Nat
    BY LastDeliveredNonceType, EntryTypes
  <1>2. CASE accepted = last
    BY <1>1, <1>2 DEF ReceiveMessages
  <1>3. CASE accepted # last
    <2>1. accepted \in Nat /\ last < accepted
      BY <1>3, LastAcceptedProperties
    <2>2. new = [data EXCEPT !.relayers = q]
      BY <1>3 DEF ReceiveMessages
    <2>3. new.relayers = q
      BY <2>2 DEF InboundLaneData
    <2>4. /\ q \in Seq(UnrewardedRelayer) /\ q # <<>>
          /\ q[Len(q)].end = accepted /\ q[Len(q)].relayer = relayer
          /\ IF ExtendsLastEntry(p, relayer)
             THEN Len(q) = Len(p) /\ q[Len(q)].begin = p[Len(p)].begin
             ELSE Len(q) = Len(p) + 1 /\ q[Len(q)].begin = last + 1
          /\ \A i \in 1..(Len(q) - 1) : i \in 1..Len(p) /\ q[i] = p[i]
      <3> HIDE DEF last, accepted
      <3> QED  BY <1>1, <2>1, NoteDeliveredProperties
    <2>5. p # <<>> => Len(p) \in 1..Len(p) /\ p[Len(p)].end = last /\ p[Len(p)].begin <= last
      BY <1>1, SMTT(30) DEF LastDeliveredNonce, QueueWellFormed
    <2> HIDE DEF last, accepted, q, new
    <2>6. Len(q) \in Nat /\ Len(q) \in 1..Len(q)
      BY <2>4
    <2>7. n \in q[Len(q)].begin..q[Len(q)].end <=>
            \/ n \in (last + 1)..accepted
            \/ ExtendsLastEntry(p, relayer) /\ n \in p[Len(p)].begin..p[Len(p)].end
      <3>1. CASE ExtendsLastEntry(p, relayer)
        <4>1. p # <<>>
          BY <3>1 DEF ExtendsLastEntry
        <4> DEFINE b == p[Len(p)].begin
        <4>2. /\ b \in Nat /\ b <= last /\ p[Len(p)].end = last
              /\ q[Len(q)].begin = b /\ q[Len(q)].end = accepted
          BY <3>1, <4>1, <1>1, <2>4, <2>5
        <4> HIDE DEF b
        <4>3. n \in b..accepted <=> (n \in (last + 1)..accepted \/ n \in b..last)
          BY <4>2, <1>1, <2>1
        <4> QED  BY <3>1, <4>2, <4>3 DEF b
      <3>2. CASE ~ExtendsLastEntry(p, relayer)
        BY <3>2, <1>1, <2>1, <2>4
      <3> QED  BY <3>1, <3>2
    <2>8. ASSUME Credits(new, n, r)
          PROVE  Credits(data, n, r) \/ (r = relayer /\ n \in (last + 1)..accepted)
      <3>1. PICK i \in 1..Len(q) : q[i].relayer = r /\ n \in q[i].begin..q[i].end
        BY <2>3, <2>8 DEF Credits
      <3>2. CASE i = Len(q)
        <4>1. CASE n \in (last + 1)..accepted
          BY <4>1, <3>1, <3>2, <2>4
        <4>2. CASE ExtendsLastEntry(p, relayer) /\ n \in p[Len(p)].begin..p[Len(p)].end
          BY <4>2, <3>1, <3>2, <2>4, <2>5 DEF Credits, ExtendsLastEntry
        <4> QED  BY <4>1, <4>2, <3>1, <3>2, <2>7, SMTT(30)
      <3>3. CASE i # Len(q)
        <4>1. i \in 1..(Len(q) - 1)
          BY <3>3, <2>6
        <4> QED  BY <4>1, <3>1, <2>4 DEF Credits
      <3> QED  BY <3>2, <3>3
    <2>9. ASSUME Credits(data, n, r) PROVE Credits(new, n, r)
      <3>1. PICK i \in 1..Len(p) : p[i].relayer = r /\ n \in p[i].begin..p[i].end
        BY <2>9 DEF Credits
      <3>2. CASE i \in 1..(Len(q) - 1)
        <4>1. i \in 1..Len(q)
          BY <3>2, <2>6
        <4> QED  BY <4>1, <3>1, <3>2, <2>3, <2>4 DEF Credits
      <3>3. CASE i \notin 1..(Len(q) - 1)
        <4>1. ExtendsLastEntry(p, relayer) /\ i = Len(p) /\ Len(q) = Len(p)
          BY <3>3, <1>1, <2>4
        <4>2. n \in q[Len(q)].begin..q[Len(q)].end /\ q[Len(q)].relayer = r
          BY <4>1, <3>1, <2>4, <2>7, Zenon DEF ExtendsLastEntry
        <4> QED  BY <4>2, <2>3, <2>6 DEF Credits
      <3> QED  BY <3>2, <3>3
    <2>10. ASSUME r = relayer, n \in (last + 1)..accepted PROVE Credits(new, n, r)
      BY <2>10, <2>3, <2>4, <2>6, <2>7 DEF Credits
    <2> QED  BY <2>8, <2>9, <2>10 DEF new, last, accepted
  <1> QED
    BY <1>2, <1>3
=============================================================================
