---------------------------- MODULE ChannelProofs ----------------------------
(***************************************************************************)
(* The channel invariants, for every set of UAs, remotes and hashes.       *)
(*                                                                         *)
(* None of them is inductive alone: that inbound() returns the hash        *)
(* accepted last needs that the table above the inbound nonce holds        *)
(* exactly those hashes, and that this stays so needs the types.  IInv is  *)
(* their conjunction.                                                      *)
(***************************************************************************)
EXTENDS Channel, TLAPS

IInv == TypeOK /\ NoStaleHash /\ HandedInOrder

-----------------------------------------------------------------------------

\* The invariants hold before the first transaction.
LEMMA InitIInv == Init => IInv
<1> SUFFICES ASSUME Init PROVE IInv
  OBVIOUS
<1> USE ChannelAssumption DEF Init
<1>1. EmptyTable \in HashTable /\ NewChannel \in Channel
  BY DEF EmptyTable, HashTable, NewChannel, Channel
<1>2. TypeOK
  BY <1>1 DEF TypeOK
<1>3. \A ua \in UAs, r \in Remotes : channels[ua][r] = NewChannel
  OBVIOUS
<1>4. NoStaleHash
  BY <1>3 DEF NoStaleHash, inbound_nonce, payload_hash, NewChannel, EmptyTable
<1>5. HandedInOrder
  BY <1>3 DEF HandedInOrder, inbound_nonce, payload_hash, NewChannel,
              EmptyTable, Nonces
<1> QED
  BY <1>2, <1>4, <1>5 DEF IInv

\* Sending a message leaves the inbound half of every channel as it was.
LEMMA OutboundIInv ==
  ASSUME IInv, NEW ua \in UAs, NEW r \in Remotes, outbound(ua, r)
  PROVE  IInv'
<1> USE ChannelAssumption DEF IInv, outbound, outbound_nonce
<1>1. TypeOK'
  <2>1. channels[ua][r] \in Channel /\ channels[ua] \in [Remotes -> Channel]
    BY DEF TypeOK
  <2>2. [channels[ua][r] EXCEPT !.outbound_nonce = @ + 1] \in Channel
    BY <2>1 DEF Channel
  <2>3. channels' \in [UAs -> [Remotes -> Channel]]
    BY <2>1, <2>2 DEF TypeOK
  <2> QED
    BY <2>3 DEF TypeOK
<1>2. \A u \in UAs, q \in Remotes :
        /\ channels'[u][q].inbound_nonce = channels[u][q].inbound_nonce
        /\ channels'[u][q].payload_hashs = channels[u][q].payload_hashs
  BY DEF TypeOK, Channel
<1>3. NoStaleHash'
  BY <1>2 DEF NoStaleHash, inbound_nonce, payload_hash
<1>4. HandedInOrder'
  BY <1>2 DEF HandedInOrder, inbound_nonce, payload_hash
<1> QED
  BY <1>1, <1>3, <1>4

\* receive() writes above the inbound nonce only.
LEMMA ReceiveIInv ==
  ASSUME IInv, NEW ua \in UAs, NEW r \in Remotes,
         NEW n \in Nonces, NEW h \in Hashes, receive(ua, r, n, h)
  PROVE  IInv'
<1> USE ChannelAssumption DEF IInv, receive
<1>1. TypeOK'
  <2>1. channels[ua][r] \in Channel /\ channels[ua] \in [Remotes -> Channel]
    BY DEF TypeOK
  <2>2. [channels[ua][r] EXCEPT !.payload_hashs[n] = h] \in Channel
    BY <2>1 DEF Channel, HashTable
  <2>3. channels' \in [UAs -> [Remotes -> Channel]]
    BY <2>1, <2>2 DEF TypeOK
  <2>4. accepted' \in [UAs -> [Remotes -> HashTable]]
    BY DEF TypeOK, HashTable
  <2> QED
    BY <2>3, <2>4 DEF TypeOK
<1>2. \A u \in UAs, q \in Remotes, m \in Nonces :
        /\ channels'[u][q].inbound_nonce = channels[u][q].inbound_nonce
        /\ channels'[u][q].payload_hashs[m] =
             IF u = ua /\ q = r /\ m = n THEN h
             ELSE channels[u][q].payload_hashs[m]
        /\ accepted'[u][q][m] =
             IF u = ua /\ q = r /\ m = n THEN h ELSE accepted[u][q][m]
  BY DEF TypeOK, Channel, HashTable
<1>3. \A m \in Nonces : m <= inbound_nonce(ua, r) => m # n
  BY DEF inbound_nonce, Nonces, TypeOK, Channel
<1>4. NoStaleHash'
  BY <1>2, <1>3 DEF NoStaleHash, inbound_nonce, payload_hash
<1>5. HandedInOrder'
  BY <1>2, <1>3 DEF HandedInOrder, inbound_nonce, payload_hash
<1> QED
  BY <1>1, <1>4, <1>5

\* inbound() moves the cursor over one nonce and hands over its hash.
LEMMA InboundIInv ==
  ASSUME IInv, NEW ua \in UAs, NEW r \in Remotes, inbound(ua, r)
  PROVE  IInv'
<1> USE ChannelAssumption DEF IInv
<1> DEFINE next == inbound_nonce(ua, r) + 1
<1>1. /\ next \in Nonces
      /\ payload_hash(ua, r, next) \in Hashes
      /\ payload_hash(ua, r, next) = accepted[ua][r][next]
  BY DEF inbound, have_next_inbound, inbound_nonce, payload_hash, Nonces,
         TypeOK, Channel, HashTable, HandedInOrder
<1>2. TypeOK'
  <2>1. channels[ua][r] \in Channel /\ channels[ua] \in [Remotes -> Channel]
    BY DEF TypeOK
  <2> DEFINE table == [channels[ua][r].payload_hashs EXCEPT ![next] = NoHash]
  <2>a. next \in 0 .. MaxNonce /\ table \in HashTable
    BY <1>1, <2>1 DEF Channel, HashTable, Nonces
  <2>2. [channels[ua][r] EXCEPT !.inbound_nonce = next,
                                !.payload_hashs = table] \in Channel
    <3> HIDE DEF table, next
    <3> QED
      BY <2>a, <2>1 DEF Channel
  <2>3. channels' \in [UAs -> [Remotes -> Channel]]
    BY <2>1, <2>2 DEF TypeOK, inbound
  <2>4. handed' \in [UAs -> [Remotes -> HashTable]]
    BY <1>1 DEF TypeOK, inbound, HashTable
  <2> QED
    BY <2>3, <2>4 DEF TypeOK, inbound
<1>3. \A u \in UAs, q \in Remotes, m \in Nonces :
        /\ inbound_nonce(u, q)' =
             IF u = ua /\ q = r THEN next ELSE inbound_nonce(u, q)
        /\ payload_hash(u, q, m)' =
             IF u = ua /\ q = r /\ m = next THEN NoHash
             ELSE payload_hash(u, q, m)
        /\ handed'[u][q][m] =
             IF u = ua /\ q = r /\ m = next THEN payload_hash(ua, r, next)
             ELSE handed[u][q][m]
        /\ accepted'[u][q][m] = accepted[u][q][m]
  BY <1>1 DEF inbound, inbound_nonce, payload_hash, TypeOK, Channel, HashTable
<1>4. \A m \in Nonces : m <= next <=> m <= inbound_nonce(ua, r) \/ m = next
  BY DEF inbound_nonce, Nonces, TypeOK, Channel
<1>5. NoStaleHash'
  BY <1>3, <1>4 DEF NoStaleHash
<1>6. HandedInOrder'
  BY <1>1, <1>3, <1>4 DEF HandedInOrder
<1> QED
  BY <1>2, <1>5, <1>6

\* IInv is inductive.
LEMMA NextIInv == IInv /\ [Next]_vars => IInv'
<1> SUFFICES ASSUME IInv, [Next]_vars PROVE IInv'
  OBVIOUS
<1>1. CASE UNCHANGED vars
  BY <1>1 DEF vars, IInv, TypeOK, NoStaleHash, HandedInOrder, inbound_nonce,
              payload_hash
<1>2. ASSUME NEW ua \in UAs, register(ua) PROVE IInv'
  BY <1>2 DEF register, IInv, TypeOK, NoStaleHash, HandedInOrder,
              inbound_nonce, payload_hash
<1>3. ASSUME NEW ua \in UAs, NEW r \in Remotes, outbound(ua, r) PROVE IInv'
  BY <1>3, OutboundIInv
<1>4. ASSUME NEW ua \in UAs, NEW r \in Remotes, inbound(ua, r) PROVE IInv'
  BY <1>4, InboundIInv
<1>5. ASSUME NEW ua \in UAs, NEW r \in Remotes, NEW n \in Nonces,
             NEW h \in Hashes, receive(ua, r, n, h)
      PROVE  IInv'
  BY <1>5, ReceiveIInv
<1> QED
  BY <1>1, <1>2, <1>3, <1>4, <1>5 DEF Next

\* In a state with IInv no step takes back or repeats a hash handed over.
LEMMA StepHandedKept == IInv /\ Next => HandedKept
<1> SUFFICES ASSUME IInv, Next, NEW u \in UAs, NEW q \in Remotes,
                    NEW m \in Nonces, handed[u][q][m] # NoHash
             PROVE  /\ handed'[u][q][m] = handed[u][q][m]
                    /\ accepted'[u][q][m] = accepted[u][q][m]
                    /\ channels'[u][q].payload_hashs[m] = NoHash
  BY DEF HandedKept
<1> USE ChannelAssumption
<1>1. /\ channels \in [UAs -> [Remotes -> Channel]]
      /\ accepted \in [UAs -> [Remotes -> HashTable]]
      /\ handed \in [UAs -> [Remotes -> HashTable]]
  BY DEF IInv, TypeOK
<1>2. /\ m <= channels[u][q].inbound_nonce
      /\ channels[u][q].payload_hashs[m] = NoHash
  BY DEF IInv, HandedInOrder, NoStaleHash, inbound_nonce, payload_hash
<1> DEFINE Kept == /\ handed'[u][q][m] = handed[u][q][m]
                   /\ accepted'[u][q][m] = accepted[u][q][m]
                   /\ channels'[u][q].payload_hashs[m] = NoHash
<1>3. ASSUME NEW ua \in UAs, register(ua) PROVE Kept
  BY <1>2, <1>3 DEF register
<1>4. ASSUME NEW ua \in UAs, NEW r \in Remotes, outbound(ua, r) PROVE Kept
  BY <1>1, <1>2, <1>4 DEF outbound, Channel
<1>5. ASSUME NEW ua \in UAs, NEW r \in Remotes, inbound(ua, r) PROVE Kept
  <2>1. u # ua \/ q # r \/ m # inbound_nonce(ua, r) + 1
    BY <1>1, <1>2 DEF inbound_nonce, Channel, Nonces
  <2> QED
    BY <1>1, <1>2, <1>5, <2>1 DEF inbound, Channel, HashTable
<1>6. ASSUME NEW ua \in UAs, NEW r \in Remotes, NEW n \in Nonces,
             NEW h \in Hashes, receive(ua, r, n, h)
      PROVE  Kept
  <2>1. u # ua \/ q # r \/ m # n
    BY <1>1, <1>2, <1>6 DEF receive, inbound_nonce, Channel, Nonces
  <2> QED
    BY <1>1, <1>2, <1>6, <2>1 DEF receive, Channel, HashTable
<1> QED
  BY <1>3, <1>4, <1>5, <1>6 DEF Next

\* IInv holds in every reachable state.
THEOREM Invariance == Spec => []IInv
BY InitIInv, NextIInv, PTL DEF Spec

-----------------------------------------------------------------------------

\* The channel state always has the types of the Move structs.
THEOREM TypeCorrect == Spec => []TypeOK
BY Invariance, PTL DEF IInv

\* channel.move never keeps a hash at or below the inbound nonce.
THEOREM NoStaleHashHolds == Spec => []NoStaleHash
BY Invariance, PTL DEF IInv

\* inbound() hands over, in nonce order, the hashes accepted last.
THEOREM HandedInOrderHolds == Spec => []HandedInOrder
BY Invariance, PTL DEF IInv

\* A hash handed over is never handed over again, replaced or taken back.
THEOREM HandedOnceHolds == Spec => HandedOnce
<1>1. IInv /\ [Next]_vars => [HandedKept]_vars
  BY StepHandedKept
<1> QED
  BY <1>1, Invariance, PTL DEF Spec, HandedOnce
==============================================================================
