--------------------------- MODULE LzAppWireProofs ---------------------------
(***************************************************************************)
(* Theorems of two modules.                                                *)
(*                                                                         *)
(* LzApp: an application takes the messages of each path in order and      *)
(* handles none twice, for every set of senders and payloads: LzApp        *)
(* implements OrderedInbox.                                                *)
(*                                                                         *)
(* WireEvm: a run of the EVM side's wireAll that says it wired everything  *)
(* did, and no bridge is trusted before it is ready, for all operators,    *)
(* networks and lists of coins.                                            *)
(*                                                                         *)
(* The two are independent; nothing proved of one is used for the other.   *)
(***************************************************************************)
EXTENDS LzApp, WireEvm, Induction, SequenceTheorems, TLAPS

C == INSTANCE ChannelProofs WITH UAs <- {UA}, Hashes <- {Sha3(p) : p \in Payloads}

LEMMA ChannelAssumed == C!ChannelAssumption
BY LzAppAssumption DEF C!ChannelAssumption

-----------------------------------------------------------------------------
\* LzApp.  The inductive invariant.

\* No path is read beyond what was sent, and the hashes that wait in the
\* channel are those of the messages sent.
SentIsStored ==
  \A src \in Remotes :
    /\ inbound_nonce(src) <= Len(sent[src])
    /\ \A n \in Ch!Nonces :
         Ch!payload_hash(UA, src, n) # NoHash =>
           /\ n <= Len(sent[src])
           /\ Ch!payload_hash(UA, src, n) = Sha3(sent[src][n])

\* What was handled was consumed first.
HandledIsConsumed ==
  \A src \in Remotes, n \in Ch!Nonces :
    WasHandled(src, n) => n <= inbound_nonce(src)

IInv ==
  /\ C!IInv
  /\ TypeOK
  /\ SentIsStored
  /\ HandledIsConsumed
  /\ StoredIsPending

-----------------------------------------------------------------------------
\* What a step does to the channel.

\* What endpoint_lz_receive hands over: the next message, whole and unchanged.
Consumed(src, payload, n) ==
  /\ n = inbound_nonce(src) + 1
  /\ n <= Len(sent[src]) /\ sent[src][n] = payload
  /\ inbound_nonce(src)' = n
  /\ \A other \in Remotes \ {src} : inbound_nonce(other)' = inbound_nonce(other)
  /\ \A r \in Remotes, m \in Ch!Nonces :
       Ch!payload_hash(UA, r, m)' = IF r = src /\ m = n THEN NoHash
                                    ELSE Ch!payload_hash(UA, r, m)

LEMMA Consumes ==
  ASSUME IInv, NEW src \in Remotes, NEW payload \in Payloads,
         endpoint_lz_receive(src, payload)
  PROVE  /\ inbound_nonce(src) + 1 \in Ch!Nonces
         /\ Consumed(src, payload, inbound_nonce(src) + 1)
<1> DEFINE n == inbound_nonce(src) + 1
           channel == channels[UA][src]
<1>1. /\ channels \in [{UA} -> [Remotes -> Ch!Channel]]
      /\ channel \in Ch!Channel /\ MaxNonce \in Nat
  BY LzAppAssumption DEF IInv, TypeOK, Ch!TypeOK
<1>2. /\ channel.inbound_nonce < MaxNonce
      /\ channel.payload_hashs[n] = Sha3(payload) /\ Sha3(payload) # NoHash
      /\ channels' = [channels EXCEPT
           ![UA][src].inbound_nonce = n,
           ![UA][src].payload_hashs[n] = NoHash]
  BY LzAppAssumption DEF endpoint_lz_receive, Ch!inbound, Ch!have_next_inbound,
     Ch!payload_hash, inbound_nonce, Ch!inbound_nonce
<1>3. n \in Ch!Nonces /\ inbound_nonce(src) = channel.inbound_nonce
  BY <1>1, <1>2 DEF Ch!Nonces, Ch!Channel, inbound_nonce, Ch!inbound_nonce
<1>4. n <= Len(sent[src]) /\ Sha3(sent[src][n]) = Sha3(payload)
  BY <1>2, <1>3 DEF IInv, SentIsStored, Ch!payload_hash
<1>5. sent[src][n] = payload
  BY <1>4 DEF Sha3
<1> HIDE DEF n
<1>6. /\ channels'[UA][src].inbound_nonce = n
      /\ \A other \in Remotes \ {src} : channels'[UA][other] = channels[UA][other]
      /\ \A m \in Ch!Nonces : channels'[UA][src].payload_hashs[m] =
           IF m = n THEN NoHash ELSE channel.payload_hashs[m]
  BY <1>1, <1>2, <1>3 DEF Ch!Channel, Ch!HashTable
<1>7. /\ inbound_nonce(src)' = n
      /\ \A other \in Remotes \ {src} : inbound_nonce(other)' = inbound_nonce(other)
      /\ \A r \in Remotes, m \in Ch!Nonces :
           Ch!payload_hash(UA, r, m)' = IF r = src /\ m = n THEN NoHash
                                        ELSE Ch!payload_hash(UA, r, m)
  BY <1>6 DEF inbound_nonce, Ch!inbound_nonce, Ch!payload_hash
<1> QED
  BY <1>3, <1>4, <1>5, <1>7 DEF Consumed, n

\* What a verified packet leaves behind.
LEMMA Receives ==
  ASSUME IInv, NEW src \in Remotes, NEW nonce \in Ch!Nonces, Receive(src, nonce)
  PROVE  /\ nonce <= Len(sent[src])
         /\ \A r \in Remotes : inbound_nonce(r)' = inbound_nonce(r)
         /\ \A r \in Remotes, m \in Ch!Nonces :
              Ch!payload_hash(UA, r, m)' =
                IF r = src /\ m = nonce THEN Sha3(sent[src][nonce])
                ELSE Ch!payload_hash(UA, r, m)
<1>1. channels \in [{UA} -> [Remotes -> Ch!Channel]]
  BY DEF IInv, TypeOK, Ch!TypeOK
<1>2. /\ nonce <= Len(sent[src])
      /\ channels' = [channels EXCEPT
           ![UA][src].payload_hashs[nonce] = Sha3(sent[src][nonce])]
  BY DEF Receive, Ch!receive
<1>3. /\ \A r \in Remotes :
           channels'[UA][r].inbound_nonce = channels[UA][r].inbound_nonce
      /\ \A r \in Remotes, m \in Ch!Nonces :
           channels'[UA][r].payload_hashs[m] =
             IF r = src /\ m = nonce THEN Sha3(sent[src][nonce])
             ELSE channels[UA][r].payload_hashs[m]
  BY <1>1, <1>2 DEF Ch!Channel, Ch!HashTable
<1> QED
  BY <1>2, <1>3 DEF inbound_nonce, Ch!inbound_nonce, Ch!payload_hash

\* Every step is one of the channel, or leaves it alone.
LEMMA ChannelStep == TypeOK /\ [Next]_vars => [C!Next]_(C!vars)
<1> SUFFICES ASSUME TypeOK, [Next]_vars PROVE [C!Next]_(C!vars)
  OBVIOUS
<1> USE DEF channelVars, C!vars
<1>1. ASSUME NEW src \in Remotes, NEW payload \in Payloads,
             endpoint_lz_receive(src, payload)
      PROVE  C!Next
  <2>1. C!inbound(UA, src)
    BY <1>1 DEF endpoint_lz_receive, Ch!inbound, C!inbound, Ch!have_next_inbound,
       C!have_next_inbound, Ch!inbound_nonce, C!inbound_nonce,
       Ch!payload_hash, C!payload_hash
  <2> QED
    BY <2>1 DEF C!Next
<1>2. ASSUME NEW src \in Remotes, NEW nonce \in Ch!Nonces, Receive(src, nonce)
      PROVE  C!Next
  <2>1. C!receive(UA, src, nonce, Sha3(sent[src][nonce])) /\ nonce <= Len(sent[src])
    BY <1>2 DEF Receive, Ch!receive, C!receive, Ch!inbound_nonce, C!inbound_nonce
  <2>2. sent[src][nonce] \in Payloads /\ nonce \in C!Nonces
    <3>1. sent[src] \in Seq(Payloads) /\ nonce \in 1 .. Len(sent[src])
      BY <2>1, LzAppAssumption DEF TypeOK, Ch!Nonces
    <3> QED
      BY <3>1 DEF Ch!Nonces, C!Nonces
  <2> QED
    BY <2>1, <2>2 DEF C!Next
<1> QED
  BY <1>1, <1>2 DEF Next, vars, set_remote, Send, lz_receive, force_resume,
     store_next_payload, retry_payload

LEMMA ChannelNext == TypeOK /\ C!IInv /\ [Next]_vars => C!IInv'
BY ChannelStep, ChannelAssumed, C!NextIInv

-----------------------------------------------------------------------------
\* What the actions are, one by one; the cases of every proof about Next.

\* Steps that leave the channel, the store and the effects alone.
Quiet == UNCHANGED <<channelVars, appVars>>

LEMMA QuietKeeps ==
  ASSUME Quiet
  PROVE  /\ \A r \in Remotes : inbound_nonce(r)' = inbound_nonce(r)
         /\ \A r \in Remotes, m \in Ch!Nonces :
              /\ Ch!payload_hash(UA, r, m)' = Ch!payload_hash(UA, r, m)
              /\ has_stored_payload(r, m)' = has_stored_payload(r, m)
              /\ WasHandled(r, m)' = WasHandled(r, m)
BY DEF Quiet, channelVars, appVars, inbound_nonce, Ch!inbound_nonce,
   Ch!payload_hash, has_stored_payload, WasHandled

\* A message becomes an effect, and the earlier effects stay.
Handles(src, n) ==
  /\ WasHandled(src, n)'
  /\ \A r \in Remotes, m \in Ch!Nonces :
       ~(r = src /\ m = n) => WasHandled(r, m)' = WasHandled(r, m)

LEMMA HandleAppends ==
  ASSUME TypeOK, NEW src \in Remotes, NEW n \in Ch!Nonces, NEW payload \in Payloads,
         Handle(src, n, payload)
  PROVE  /\ Handles(src, n)
         /\ effects' \in Seq([path : Remotes, nonce : Ch!Nonces, payload : Payloads])
<1> DEFINE new == [path |-> src, nonce |-> n, payload |-> payload]
           Entry == [path : Remotes, nonce : Ch!Nonces, payload : Payloads]
           k == Len(effects) + 1
<1>1. effects \in Seq(Entry) /\ new \in Entry /\ effects' = Append(effects, new)
  BY DEF Handle, TypeOK
<1>2. new.path = src /\ new.nonce = n
  OBVIOUS
<1> HIDE DEF new, Entry
<1>3. /\ k \in Nat /\ DOMAIN effects' = 1 .. k /\ DOMAIN effects = 1 .. Len(effects)
      /\ effects'[k] = new /\ k \in 1 .. k
      /\ \A i \in 1 .. Len(effects) : effects'[i] = effects[i]
  BY <1>1
<1>4. \A i \in 1 .. k : i = k \/ i \in 1 .. Len(effects)
  BY <1>1
<1>5. \A i \in 1 .. Len(effects) : i \in 1 .. k
  BY <1>1
<1> HIDE DEF k
<1>6. WasHandled(src, n)'
  BY <1>2, <1>3 DEF WasHandled
<1>7. ASSUME NEW r \in Remotes, NEW m \in Ch!Nonces, ~(r = src /\ m = n)
      PROVE  WasHandled(r, m)' = WasHandled(r, m)
  <2>1. WasHandled(r, m)' => WasHandled(r, m)
    BY <1>2, <1>3, <1>4, <1>7 DEF WasHandled
  <2>2. WasHandled(r, m) => WasHandled(r, m)'
    BY <1>3, <1>5 DEF WasHandled
  <2> QED
    BY <2>1, <2>2 DEF WasHandled
<1> QED
  BY <1>1, <1>6, <1>7 DEF Handles, Entry

\* The slot of a message in the store is filled or emptied; no other changes.
Stores(src, n, hash) ==
  /\ stored_payloads' \in [Remotes -> Ch!HashTable]
  /\ \A r \in Remotes, m \in Ch!Nonces :
       stored_payloads'[r][m] = IF r = src /\ m = n THEN hash
                                ELSE stored_payloads[r][m]

LEMMA StoreChanges ==
  ASSUME TypeOK, NEW src \in Remotes, NEW n \in Ch!Nonces,
         NEW hash \in {Sha3(p) : p \in Payloads} \union {NoHash},
         stored_payloads' = [stored_payloads EXCEPT ![src][n] = hash]
  PROVE  Stores(src, n, hash)
<1>1. stored_payloads \in [Remotes -> Ch!HashTable]
  BY DEF TypeOK
<1> QED
  BY <1>1 DEF Stores, Ch!HashTable

\* The next message of a path is consumed, and handled, dropped or set aside.
Takes(src, payload, n) ==
  /\ Consumed(src, payload, n) /\ UNCHANGED sent
  /\ \/ Handle(src, n, payload) /\ UNCHANGED stored_payloads
     \/ UNCHANGED appVars
     \/ /\ ~has_stored_payload(src, n)
        /\ Stores(src, n, Sha3(payload)) /\ UNCHANGED effects

\* A message that was set aside is handled.
Retries(src, payload, n) ==
  /\ UNCHANGED <<channelVars, sent>>
  /\ has_stored_payload(src, n) /\ stored_payloads[src][n] = Sha3(payload)
  /\ Stores(src, n, NoHash)
  /\ Handle(src, n, payload)

\* The cases of a step.
Cases ==
  \/ Quiet /\ UNCHANGED sent
  \/ \E src \in Remotes, payload \in Payloads : Send(src, payload)
  \/ \E src \in Remotes, n \in Ch!Nonces : Receive(src, n)
  \/ \E src \in Remotes, payload \in Payloads, n \in Ch!Nonces :
       Takes(src, payload, n) \/ Retries(src, payload, n)

LEMMA StepCases == IInv /\ [Next]_vars => Cases
<1> SUFFICES ASSUME IInv, [Next]_vars PROVE Cases
  OBVIOUS
<1>1. CASE UNCHANGED vars
  BY <1>1 DEF Cases, Quiet, vars
<1>2. ASSUME NEW src \in Remotes, set_remote(src) PROVE Cases
  BY <1>2 DEF Cases, Quiet, set_remote
<1>3. ASSUME NEW src \in Remotes, NEW payload \in Payloads,
             endpoint_lz_receive(src, payload)
      PROVE  LET n == inbound_nonce(src) + 1
             IN  n \in Ch!Nonces /\ Consumed(src, payload, n) /\ UNCHANGED sent
  BY <1>3, Consumes DEF endpoint_lz_receive
<1>4. ASSUME NEW src \in Remotes, NEW payload \in Payloads,
             lz_receive(src, payload) \/ force_resume(src, payload)
      PROVE  Cases
  BY <1>3, <1>4 DEF Cases, Takes, lz_receive, force_resume
<1>5. ASSUME NEW src \in Remotes, NEW payload \in Payloads,
             store_next_payload(src, payload)
      PROVE  Cases
  <2> DEFINE n == inbound_nonce(src) + 1
  <2>1. n \in Ch!Nonces /\ Consumed(src, payload, n) /\ UNCHANGED sent
    BY <1>3, <1>5 DEF store_next_payload
  <2>2. /\ ~has_stored_payload(src, n) /\ UNCHANGED effects
        /\ stored_payloads' = [stored_payloads EXCEPT ![src][n] = Sha3(payload)]
    BY <1>5 DEF store_next_payload
  <2> HIDE DEF n
  <2>3. Stores(src, n, Sha3(payload))
    BY <2>1, <2>2, StoreChanges DEF IInv
  <2> QED
    BY <2>1, <2>2, <2>3 DEF Cases, Takes
<1>6. ASSUME NEW src \in Remotes, NEW payload \in Payloads, NEW n \in Ch!Nonces,
             retry_payload(src, n, payload)
      PROVE  Cases
  <2>1. Stores(src, n, NoHash)
    BY <1>6, StoreChanges DEF retry_payload, remove_stored_paylaod, IInv
  <2>2. Retries(src, payload, n)
    BY <1>6, <2>1 DEF Retries, retry_payload, remove_stored_paylaod
  <2> QED
    BY <2>2 DEF Cases
<1> QED
  BY <1>1, <1>2, <1>4, <1>5, <1>6 DEF Next, Cases

-----------------------------------------------------------------------------
\* The parts of the invariant, one lemma each.

LEMMA CursorType ==
  ASSUME IInv, NEW src \in Remotes
  PROVE  inbound_nonce(src) \in Nat /\ Len(sent[src]) \in Nat
BY LzAppAssumption DEF IInv, TypeOK, Ch!TypeOK, Ch!Channel, inbound_nonce,
   Ch!inbound_nonce

\* What was sent stays, and more may follow.
LEMMA SendGrows ==
  ASSUME TypeOK, NEW src \in Remotes, NEW payload \in Payloads, Send(src, payload)
  PROVE  /\ Quiet
         /\ sent' \in [Remotes -> Seq(Payloads)]
         /\ \A r \in Remotes :
              /\ Len(sent[r]) <= Len(sent'[r])
              /\ \A n \in 1 .. Len(sent[r]) : sent'[r][n] = sent[r][n]
<1>1. sent \in [Remotes -> Seq(Payloads)]
  BY DEF TypeOK
<1>2. sent' = [sent EXCEPT ![src] = Append(@, payload)] /\ Quiet
  BY DEF Send, Quiet
<1>3. ASSUME NEW r \in Remotes
      PROVE  /\ Len(sent[r]) <= Len(sent'[r])
             /\ \A n \in 1 .. Len(sent[r]) : sent'[r][n] = sent[r][n]
  BY <1>1, <1>2
<1> QED
  BY <1>1, <1>2, <1>3

\* The types of what Cases speaks about.
TablesTyped ==
  /\ sent \in [Remotes -> Seq(Payloads)]
  /\ stored_payloads \in [Remotes -> Ch!HashTable]
  /\ effects \in Seq([path : Remotes, nonce : Ch!Nonces, payload : Payloads])

LEMMA TypeNext == IInv /\ [Next]_vars => TypeOK'
<1> SUFFICES ASSUME IInv, [Next]_vars PROVE TypeOK'
  OBVIOUS
<1>1. Ch!TypeOK'
  <2>1. C!IInv'
    BY ChannelNext DEF IInv
  <2> QED
    BY <2>1 DEF C!IInv, C!TypeOK, Ch!TypeOK, C!Channel, Ch!Channel,
       C!HashTable, Ch!HashTable, C!Nonces, Ch!Nonces
<1>2. remotes' \in Remotes \union {NoRemote}
  BY DEF IInv, TypeOK, Next, vars, set_remote, Receive, Send, lz_receive,
     endpoint_lz_receive, force_resume, store_next_payload, retry_payload
<1>3. TablesTyped'
  <2>0. TablesTyped
    BY DEF IInv, TypeOK, TablesTyped
  <2> USE DEF TablesTyped
  <2>1. CASE Quiet /\ UNCHANGED sent
    BY <2>0, <2>1 DEF Quiet, appVars
  <2>2. ASSUME NEW src \in Remotes, NEW payload \in Payloads, Send(src, payload)
        PROVE  TablesTyped'
    BY <2>0, <2>2, SendGrows DEF Quiet, appVars, IInv
  <2>3. ASSUME NEW src \in Remotes, NEW n \in Ch!Nonces, Receive(src, n)
        PROVE  TablesTyped'
    BY <2>0, <2>3 DEF Receive, appVars
  <2>4. ASSUME NEW src \in Remotes, NEW payload \in Payloads, NEW n \in Ch!Nonces,
               Takes(src, payload, n) \/ Retries(src, payload, n)
        PROVE  TablesTyped'
    BY <2>0, <2>4, HandleAppends DEF Takes, Retries, Stores, appVars, IInv
  <2> QED
    BY <2>1, <2>2, <2>3, <2>4, StepCases DEF Cases
<1> QED
  BY <1>1, <1>2, <1>3 DEF TypeOK, TablesTyped

LEMMA SentIsStoredNext == IInv /\ [Next]_vars => SentIsStored'
<1> SUFFICES ASSUME IInv, [Next]_vars PROVE SentIsStored'
  OBVIOUS
<1>0. SentIsStored
  BY DEF IInv
<1>1. CASE UNCHANGED <<channelVars, sent>>
  BY <1>0, <1>1 DEF SentIsStored, channelVars, inbound_nonce, Ch!inbound_nonce,
     Ch!payload_hash
<1>2. ASSUME NEW src \in Remotes, NEW payload \in Payloads, Send(src, payload)
      PROVE  SentIsStored'
  <2>1. \A r \in Remotes : inbound_nonce(r) \in Nat /\ Len(sent[r]) \in Nat
    BY CursorType
  <2>2. \A r \in Remotes : Len(sent'[r]) \in Nat
    BY <1>2, SendGrows DEF IInv
  <2>3. \A n \in Ch!Nonces : n \in Nat \ {0}
    BY LzAppAssumption DEF Ch!Nonces
  <2>4. \A r \in Remotes :
          /\ inbound_nonce(r)' = inbound_nonce(r)
          /\ \A n \in Ch!Nonces :
               Ch!payload_hash(UA, r, n)' = Ch!payload_hash(UA, r, n)
    BY <1>2, SendGrows, QuietKeeps DEF IInv
  <2>5. \A r \in Remotes :
          /\ Len(sent[r]) <= Len(sent'[r])
          /\ \A n \in 1 .. Len(sent[r]) : sent'[r][n] = sent[r][n]
    BY <1>2, SendGrows DEF IInv
  <2>6. ASSUME NEW r \in Remotes
        PROVE  inbound_nonce(r)' <= Len(sent'[r])
    BY <1>0, <2>1, <2>2, <2>4, <2>5 DEF SentIsStored
  <2>7. ASSUME NEW r \in Remotes, NEW n \in Ch!Nonces,
               Ch!payload_hash(UA, r, n)' # NoHash
        PROVE  /\ n <= Len(sent'[r])
               /\ Ch!payload_hash(UA, r, n)' = Sha3(sent'[r][n])
    <3>1. n <= Len(sent[r]) /\ Ch!payload_hash(UA, r, n) = Sha3(sent[r][n])
      BY <1>0, <2>4, <2>7 DEF SentIsStored
    <3>2. n \in 1 .. Len(sent[r])
      BY <2>1, <2>3, <3>1
    <3> QED
      BY <2>1, <2>2, <2>3, <2>4, <2>5, <3>1, <3>2
  <2> QED
    BY <2>6, <2>7 DEF SentIsStored
<1>3. ASSUME NEW src \in Remotes, NEW n \in Ch!Nonces, Receive(src, n)
      PROVE  SentIsStored'
  BY <1>0, <1>3, Receives DEF SentIsStored, Receive
<1>4. ASSUME NEW src \in Remotes, NEW payload \in Payloads, NEW n \in Ch!Nonces,
             Takes(src, payload, n)
      PROVE  SentIsStored'
  BY <1>0, <1>4 DEF SentIsStored, Takes, Consumed
<1> QED
  BY <1>1, <1>2, <1>3, <1>4, StepCases DEF Cases, Quiet, Retries

\* The store and the effects are about what was consumed.
AppSettled ==
  \A src \in Remotes, n \in Ch!Nonces :
    /\ has_stored_payload(src, n) =>
         n <= inbound_nonce(src) /\ ~WasHandled(src, n)
    /\ WasHandled(src, n) => n <= inbound_nonce(src)

LEMMA AppSettledNext == IInv /\ [Next]_vars => AppSettled'
<1> SUFFICES ASSUME IInv, [Next]_vars PROVE AppSettled'
  OBVIOUS
<1>0. AppSettled
  BY DEF IInv, AppSettled, StoredIsPending, HandledIsConsumed
<1>1. CASE Quiet
  BY <1>0, <1>1, QuietKeeps DEF AppSettled
<1>2. ASSUME NEW src \in Remotes, NEW nonce \in Ch!Nonces, Receive(src, nonce)
      PROVE  AppSettled'
  <2>1. \A r \in Remotes : inbound_nonce(r)' = inbound_nonce(r)
    BY <1>2, Receives
  <2>2. UNCHANGED appVars
    BY <1>2 DEF Receive
  <2> QED
    BY <1>0, <2>1, <2>2 DEF AppSettled, appVars, has_stored_payload, WasHandled
<1>3. ASSUME NEW src \in Remotes, NEW payload \in Payloads, NEW n \in Ch!Nonces,
             Takes(src, payload, n)
      PROVE  AppSettled'
  <2>1. /\ n = inbound_nonce(src) + 1 /\ inbound_nonce(src)' = n
        /\ \A r \in Remotes \ {src} : inbound_nonce(r)' = inbound_nonce(r)
        /\ \A r \in Remotes : inbound_nonce(r) \in Nat
        /\ \A m \in Ch!Nonces : m \in Nat
    BY <1>3, CursorType, LzAppAssumption DEF Takes, Consumed, Ch!Nonces
  <2>2. ~WasHandled(src, n) /\ ~has_stored_payload(src, n)
    BY <1>0, <2>1 DEF AppSettled
  <2>3. CASE Handle(src, n, payload) /\ UNCHANGED stored_payloads
    <3>1. Handles(src, n)
      BY <2>3, HandleAppends DEF IInv
    <3> QED
      BY <1>0, <2>1, <2>2, <2>3, <3>1 DEF AppSettled, Handles, has_stored_payload
  <2>4. CASE UNCHANGED appVars
    BY <1>0, <2>1, <2>4 DEF AppSettled, appVars, has_stored_payload, WasHandled
  <2>5. CASE Stores(src, n, Sha3(payload)) /\ UNCHANGED effects
    BY <1>0, <2>1, <2>2, <2>5 DEF AppSettled, Stores, has_stored_payload, WasHandled
  <2> QED
    BY <1>3, <2>3, <2>4, <2>5 DEF Takes
<1>4. ASSUME NEW src \in Remotes, NEW payload \in Payloads, NEW n \in Ch!Nonces,
             Retries(src, payload, n)
      PROVE  AppSettled'
  <2>1. \A r \in Remotes : inbound_nonce(r)' = inbound_nonce(r)
    BY <1>4 DEF Retries, channelVars, inbound_nonce, Ch!inbound_nonce
  <2>2. Handles(src, n) /\ Stores(src, n, NoHash) /\ has_stored_payload(src, n)
    BY <1>4, HandleAppends DEF Retries, IInv
  <2> QED
    BY <1>0, <2>1, <2>2 DEF AppSettled, Handles, Stores, has_stored_payload
<1> QED
  BY <1>1, <1>2, <1>3, <1>4, StepCases, SendGrows DEF Cases, IInv

\* The store holds what was sent.
StoredIsSent ==
  \A src \in Remotes, n \in Ch!Nonces :
    has_stored_payload(src, n) => stored_payloads[src][n] = Sha3(sent[src][n])

LEMMA StoredIsSentNext == IInv /\ [Next]_vars => StoredIsSent'
<1> SUFFICES ASSUME IInv, [Next]_vars PROVE StoredIsSent'
  OBVIOUS
<1>0. StoredIsSent
  BY DEF IInv, StoredIsSent, StoredIsPending
<1>1. CASE UNCHANGED <<sent, stored_payloads>>
  BY <1>0, <1>1 DEF StoredIsSent, has_stored_payload
<1>2. ASSUME NEW src \in Remotes, NEW payload \in Payloads, Send(src, payload)
      PROVE  StoredIsSent'
  <2>1. \A r \in Remotes : \A n \in 1 .. Len(sent[r]) : sent'[r][n] = sent[r][n]
    BY <1>2, SendGrows DEF IInv
  <2>2. \A r \in Remotes, n \in Ch!Nonces :
          has_stored_payload(r, n) => n \in 1 .. Len(sent[r])
    <3> SUFFICES ASSUME NEW r \in Remotes, NEW n \in Ch!Nonces, has_stored_payload(r, n)
                 PROVE  n \in 1 .. Len(sent[r])
      OBVIOUS
    <3>1. n <= inbound_nonce(r) /\ inbound_nonce(r) <= Len(sent[r])
      BY DEF IInv, StoredIsPending, SentIsStored
    <3>2. inbound_nonce(r) \in Nat /\ Len(sent[r]) \in Nat /\ n \in Nat \ {0}
      BY CursorType, LzAppAssumption DEF Ch!Nonces
    <3> QED
      BY <3>1, <3>2
  <2>3. UNCHANGED stored_payloads
    BY <1>2 DEF Send, appVars
  <2> QED
    BY <1>0, <2>1, <2>2, <2>3 DEF StoredIsSent, has_stored_payload
<1>3. ASSUME NEW src \in Remotes, NEW payload \in Payloads, NEW n \in Ch!Nonces,
             Takes(src, payload, n)
      PROVE  StoredIsSent'
  <2>1. sent[src][n] = payload /\ UNCHANGED sent
    BY <1>3 DEF Takes, Consumed
  <2>2. UNCHANGED stored_payloads \/ Stores(src, n, Sha3(payload))
    BY <1>3 DEF Takes, appVars
  <2> QED
    BY <1>0, <1>1, <2>1, <2>2 DEF StoredIsSent, Stores, has_stored_payload
<1>4. ASSUME NEW src \in Remotes, NEW payload \in Payloads, NEW n \in Ch!Nonces,
             Retries(src, payload, n)
      PROVE  StoredIsSent'
  BY <1>0, <1>4 DEF StoredIsSent, Retries, Stores, has_stored_payload
<1> QED
  BY <1>1, <1>2, <1>3, <1>4, StepCases DEF Cases, Quiet, appVars, Receive

LEMMA NextIInv == IInv /\ [Next]_vars => IInv'
<1> SUFFICES ASSUME IInv, [Next]_vars PROVE IInv'
  OBVIOUS
<1>1. HandledIsConsumed' /\ StoredIsPending'
  BY AppSettledNext, StoredIsSentNext DEF AppSettled, StoredIsSent, HandledIsConsumed,
     StoredIsPending
<1> QED
  BY <1>1, ChannelNext, TypeNext, SentIsStoredNext DEF IInv

LEMMA InitIInv == Init => IInv
<1> SUFFICES ASSUME Init PROVE IInv
  OBVIOUS
<1> USE LzAppAssumption
<1>1. /\ Ch!EmptyTable \in Ch!HashTable /\ Ch!NewChannel \in Ch!Channel
      /\ \A n \in Ch!Nonces : Ch!EmptyTable[n] = NoHash
  BY DEF Ch!EmptyTable, Ch!HashTable, Ch!NewChannel, Ch!Channel
<1>2. TypeOK
  BY <1>1 DEF Init, TypeOK, Ch!TypeOK
<1>3. \A r \in Remotes :
        /\ channels[UA][r] = Ch!NewChannel /\ sent[r] = <<>>
        /\ stored_payloads[r] = Ch!EmptyTable
        /\ accepted[UA][r] = Ch!EmptyTable /\ handed[UA][r] = Ch!EmptyTable
  BY DEF Init
<1>4. \A r \in Remotes :
        /\ inbound_nonce(r) = 0
        /\ \A n \in Ch!Nonces :
             /\ Ch!payload_hash(UA, r, n) = NoHash /\ accepted[UA][r][n] = NoHash
             /\ handed[UA][r][n] = NoHash
             /\ ~has_stored_payload(r, n) /\ ~WasHandled(r, n)
  BY <1>1, <1>3 DEF Init, inbound_nonce, Ch!inbound_nonce, Ch!payload_hash,
     Ch!NewChannel, has_stored_payload, WasHandled
<1>5. C!IInv
  <2>1. C!TypeOK
    BY <1>2 DEF TypeOK, C!TypeOK, Ch!TypeOK, C!Channel, Ch!Channel,
       C!HashTable, Ch!HashTable, C!Nonces, Ch!Nonces
  <2>2. C!NoStaleHash /\ C!HandedInOrder
    BY <1>4 DEF C!NoStaleHash, C!HandedInOrder, C!Nonces, Ch!Nonces, inbound_nonce,
       Ch!inbound_nonce, C!inbound_nonce, Ch!payload_hash, C!payload_hash
  <2> QED
    BY <2>1, <2>2 DEF C!IInv
<1>6. SentIsStored /\ HandledIsConsumed /\ StoredIsPending
  BY <1>3, <1>4 DEF SentIsStored, HandledIsConsumed, StoredIsPending
<1> QED
  BY <1>2, <1>5, <1>6 DEF IInv

-----------------------------------------------------------------------------

\* What waits in a channel, in the store and in the past of an application is
\* what was sent, each message in one of them.
THEOREM Invariance == Spec => []IInv
BY InitIInv, NextIInv, PTL DEF Spec

\* The state has the types of the Move structs, for any senders and payloads.
THEOREM TypeCorrect == Spec => []TypeOK
<1>1. IInv => TypeOK
  BY DEF IInv
<1> QED
  BY <1>1, Invariance, PTL

\* A stored payload is that of a consumed message not handled yet.
THEOREM StoredIsPendingHolds == Spec => []StoredIsPending
<1>1. IInv => StoredIsPending
  BY DEF IInv
<1> QED
  BY <1>1, Invariance, PTL

-----------------------------------------------------------------------------
\* The refinement of OrderedInbox.

\* What became of every message, as OrderedInbox has it.
fates == [src \in Remotes |-> [n \in Ch!Nonces |-> Fate(src, n)]]

\* The fate of one message changes.
Turns(src, n, f) ==
  /\ Fate(src, n)' = f
  /\ \A r \in Remotes, m \in Ch!Nonces :
       ~(r = src /\ m = n) => Fate(r, m)' = Fate(r, m)

LEMMA FatesKept ==
  ASSUME \A r \in Remotes, m \in Ch!Nonces : Fate(r, m)' = Fate(r, m)
  PROVE  UNCHANGED fates
BY DEF fates, Ch!Nonces

LEMMA FatesTurn ==
  ASSUME NEW src \in Remotes, NEW n \in Ch!Nonces, NEW f, Turns(src, n, f)
  PROVE  fates' = [fates EXCEPT ![src][n] = f]
<1>1. \A r \in Remotes, m \in Ch!Nonces :
        fates'[r][m] = IF r = src /\ m = n THEN f ELSE fates[r][m]
  BY DEF fates, Turns, Ch!Nonces
<1>2. /\ fates = [r \in Remotes |-> [m \in Ch!Nonces |-> fates[r][m]]]
      /\ fates' = [r \in Remotes |-> [m \in Ch!Nonces |-> fates'[r][m]]]
  BY DEF fates, Ch!Nonces
<1> HIDE DEF fates
<1> QED
  BY <1>1, <1>2

\* The next message of a path is consumed.
LEMMA TakesRefines ==
  ASSUME IInv, NEW src \in Remotes, NEW payload \in Payloads, NEW n \in Ch!Nonces,
         Takes(src, payload, n)
  PROVE  Inbox!Take(src, n)
<1>1. /\ n = inbound_nonce(src) + 1 /\ inbound_nonce(src)' = n
      /\ \A r \in Remotes \ {src} : inbound_nonce(r)' = inbound_nonce(r)
      /\ \A r \in Remotes : inbound_nonce(r) \in Nat
      /\ \A m \in Ch!Nonces : m \in Nat
      /\ n <= Len(sent[src]) /\ sent[src][n] = payload /\ UNCHANGED sent
  BY CursorType, LzAppAssumption DEF Takes, Consumed, Ch!Nonces
<1>2. ~WasHandled(src, n) /\ ~has_stored_payload(src, n)
  BY <1>1 DEF IInv, StoredIsPending, HandledIsConsumed
<1>3. /\ Fate(src, n) = "waiting"
      /\ \A m \in 1 .. n - 1 : m \in Ch!Nonces /\ Fate(src, m) # "waiting"
  <2>1. Fate(src, n) = "waiting"
    BY <1>1 DEF Fate
  <2>2. \A m \in 1 .. n - 1 : m \in Ch!Nonces /\ ~(m > inbound_nonce(src))
    BY <1>1, LzAppAssumption DEF Ch!Nonces
  <2> QED
    BY <2>1, <2>2 DEF Fate
<1>4. Inbox!IsNext(src, n)
  BY <1>1, <1>3 DEF Inbox!IsNext
<1>5. ASSUME NEW f \in {"handled", "stored", "dropped"}, Turns(src, n, f),
             effects' = IF f = "handled" THEN Append(effects, Inbox!Effect(src, n))
                        ELSE effects
      PROVE  Inbox!Take(src, n)
  <2>1. fates' = [fates EXCEPT ![src][n] = f]
    BY <1>5, FatesTurn
  <2>2. f \in Inbox!Fates \ {"waiting"}
    BY <1>5 DEF Inbox!Fates
  <2> QED
    BY <1>1, <1>4, <1>5, <2>1, <2>2 DEF Inbox!Take, fates
<1>6. CASE Handle(src, n, payload) /\ UNCHANGED stored_payloads
  <2>1. Handles(src, n)
    BY <1>6, HandleAppends DEF IInv
  <2>2. Turns(src, n, "handled")
    BY <1>1, <1>2, <1>6, <2>1 DEF Turns, Fate, Handles, has_stored_payload
  <2>3. effects' = Append(effects, Inbox!Effect(src, n))
    BY <1>1, <1>6 DEF Handle, Inbox!Effect
  <2> QED
    BY <1>5, <2>2, <2>3
<1>7. CASE UNCHANGED appVars
  <2>1. Turns(src, n, "dropped")
    BY <1>1, <1>2, <1>7 DEF Turns, Fate, appVars, has_stored_payload, WasHandled
  <2> QED
    BY <1>5, <1>7, <2>1 DEF appVars
<1>8. CASE Stores(src, n, Sha3(payload)) /\ UNCHANGED effects
  <2>1. Sha3(payload) # NoHash
    BY LzAppAssumption
  <2>2. Turns(src, n, "stored")
    BY <1>1, <1>2, <1>8, <2>1 DEF Turns, Fate, Stores, has_stored_payload, WasHandled
  <2> QED
    BY <1>5, <1>8, <2>2
<1> QED
  BY <1>6, <1>7, <1>8 DEF Takes

\* A message that was set aside is handled.
LEMMA RetriesRefines ==
  ASSUME IInv, NEW src \in Remotes, NEW payload \in Payloads, NEW n \in Ch!Nonces,
         Retries(src, payload, n)
  PROVE  Inbox!HandleStored(src, n)
<1>1. /\ \A r \in Remotes : inbound_nonce(r)' = inbound_nonce(r)
      /\ \A r \in Remotes : inbound_nonce(r) \in Nat
      /\ \A m \in Ch!Nonces : m \in Nat
  BY CursorType, LzAppAssumption DEF Retries, channelVars, inbound_nonce,
     Ch!inbound_nonce, Ch!Nonces
<1>2. /\ has_stored_payload(src, n) /\ Stores(src, n, NoHash) /\ Handles(src, n)
      /\ Handle(src, n, payload) /\ UNCHANGED sent
  BY HandleAppends DEF Retries, IInv
<1>3. n <= inbound_nonce(src) /\ sent[src][n] = payload
  <2>1. n <= inbound_nonce(src) /\ Sha3(sent[src][n]) = Sha3(payload)
    BY <1>2 DEF Retries, IInv, StoredIsPending
  <2> QED
    BY <2>1 DEF Sha3
<1>4. Fate(src, n) = "stored"
  BY <1>1, <1>2, <1>3 DEF Fate
<1>5. Turns(src, n, "handled")
  BY <1>1, <1>2, <1>3 DEF Turns, Fate, Stores, Handles, has_stored_payload
<1>6. fates' = [fates EXCEPT ![src][n] = "handled"]
  BY <1>5, FatesTurn
<1>7. effects' = Append(effects, Inbox!Effect(src, n))
  BY <1>2, <1>3 DEF Handle, Inbox!Effect
<1> QED
  BY <1>2, <1>4, <1>6, <1>7 DEF Inbox!HandleStored, fates

LEMMA StepRefines == IInv /\ [Next]_vars => [Inbox!Next]_(Inbox!inboxVars)
<1> SUFFICES ASSUME IInv, [Next]_vars PROVE [Inbox!Next]_(Inbox!inboxVars)
  OBVIOUS
<1> USE DEF Inbox!inboxVars
<1>1. ASSUME Quiet PROVE UNCHANGED <<fates, effects>>
  <2>1. \A r \in Remotes, m \in Ch!Nonces : Fate(r, m)' = Fate(r, m)
    BY <1>1, QuietKeeps DEF Fate
  <2> QED
    BY <1>1, <2>1, FatesKept DEF Quiet, appVars
<1>2. ASSUME NEW src \in Remotes, NEW payload \in Payloads, Send(src, payload)
      PROVE  Inbox!Next
  <2>1. UNCHANGED <<fates, effects>>
    BY <1>1, <1>2, SendGrows DEF IInv
  <2>2. Inbox!Send(src)
    BY <1>2, <2>1 DEF Inbox!Send, Send, fates
  <2> QED
    BY <2>2 DEF Inbox!Next
<1>3. ASSUME NEW src \in Remotes, NEW n \in Ch!Nonces, Receive(src, n)
      PROVE  UNCHANGED <<sent, fates, effects>>
  <2>1. \A r \in Remotes : inbound_nonce(r)' = inbound_nonce(r)
    BY <1>3, Receives
  <2>2. UNCHANGED <<sent, appVars>>
    BY <1>3 DEF Receive
  <2>3. \A r \in Remotes, m \in Ch!Nonces : Fate(r, m)' = Fate(r, m)
    BY <2>1, <2>2 DEF Fate, appVars, has_stored_payload, WasHandled
  <2> QED
    BY <2>2, <2>3, FatesKept DEF appVars
<1>4. ASSUME NEW src \in Remotes, NEW payload \in Payloads, NEW n \in Ch!Nonces,
             Takes(src, payload, n) \/ Retries(src, payload, n)
      PROVE  Inbox!Next
  <2>1. n \in Inbox!Nonces
    BY DEF Ch!Nonces, Inbox!Nonces
  <2> QED
    BY <1>4, <2>1, TakesRefines, RetriesRefines DEF Inbox!Next
<1> QED
  BY <1>1, <1>2, <1>3, <1>4, StepCases DEF Cases, fates

\* Each message of a path is taken in order and handled at most once, with its
\* own payload, whatever relayers, executors, owner and retrying users do.
THEOREM ImplementsInboxHolds == Spec => ImplementsInbox
<1>1. Init => Inbox!Init
  <2> SUFFICES ASSUME Init PROVE Inbox!Init
    OBVIOUS
  <2>1. \A r \in Remotes, m \in Ch!Nonces : m > 0 /\ inbound_nonce(r) = 0
    BY LzAppAssumption DEF Init, Ch!NewChannel, inbound_nonce, Ch!inbound_nonce,
       Ch!Nonces
  <2>2. \A r \in Remotes, m \in Ch!Nonces : Fate(r, m) = "waiting"
    BY <2>1 DEF Fate
  <2>3. fates = [path \in Remotes |-> [n \in Inbox!Nonces |-> "waiting"]]
    BY <2>2 DEF fates, Inbox!Nonces, Ch!Nonces
  <2> QED
    BY <2>3 DEF Init, Inbox!Init, fates
<1> QED
  BY <1>1, StepRefines, Invariance, PTL DEF Spec, ImplementsInbox, Inbox!Spec
-----------------------------------------------------------------------------
\* WireEvm.  What is read and called, and what a call is for.

AllCoins == UNION {Range(Coins[n]) : n \in Networks}

\* The plan's calls, whatever the network.
Good ==
  {Call("setWETH", WETH), Call("setBridgeFeeBP", FeeBP),
   Call("setUseCustomAdapterParams", UseCustomAdapterParams),
   Call("setTrustedRemote", 1), Call("setMinDstGas", MinDstGas)}
  \union {Call("registerToken", c) : c \in AllCoins}

\* What is read.
Settings ==
  {Call("setWETH", WETH), Call("setBridgeFeeBP", 0),
   Call("setUseCustomAdapterParams", 0), Call("setTrustedRemote", 0),
   Call("setMinDstGas", 0)}
  \union {Call("registerToken", c) : c \in AllCoins}

\* The call a setting calls for.
Meant(d) ==
  CASE d.methodName = "setWETH" -> d
    [] d.methodName = "registerToken" -> d
    [] d.methodName = "setBridgeFeeBP" -> Call("setBridgeFeeBP", FeeBP)
    [] d.methodName = "setUseCustomAdapterParams" ->
         Call("setUseCustomAdapterParams", UseCustomAdapterParams)
    [] d.methodName = "setTrustedRemote" -> Call("setTrustedRemote", 1)
    [] d.methodName = "setMinDstGas" -> Call("setMinDstGas", MinDstGas)

\* A bridge has it as configured.
Met(b, d) ==
  CASE d.methodName = "setWETH" -> b.weth
    [] d.methodName = "registerToken" -> d.arg \in b.supportedTokens
    [] d.methodName = "setBridgeFeeBP" -> b.bridgeFeeBP = FeeBP
    [] d.methodName = "setUseCustomAdapterParams" ->
         b.useCustomAdapterParams = UseCustomAdapterParams
    [] d.methodName = "setTrustedRemote" -> b.trusted
    [] d.methodName = "setMinDstGas" -> b.minDstGas = MinDstGas

\* What a bridge needs before it is trusted.
Needs(n) ==
  {Call("registerToken", c) : c \in Range(Coins[n])}
  \union {d \in {Call("setWETH", WETH)} : WETH \in Range(Coins[n])}

\* A TokenBridge.
Bridges ==
  [weth : BOOLEAN, supportedTokens : SUBSET AllCoins, bridgeFeeBP : Nat,
   useCustomAdapterParams : {0, 1}, trusted : BOOLEAN, minDstGas : Nat]

\* The calls the owner makes otherwise.
Other(n) ==
  {Call("setBridgeFeeBP", fee) : fee \in Fees}
  \union {Call("setUseCustomAdapterParams", 1 - UseCustomAdapterParams),
          Call("setTrustedRemote", 0), Call("setMinDstGas", 0)}
  \union {Call("registerToken", c) : c \in Range(Coins[n])}

-----------------------------------------------------------------------------
\* What settings and calls are.

LEMMA CoinsAre ==
  ASSUME NEW n \in Networks
  PROVE  /\ Coins[n] \in Seq(Range(Coins[n]))
         /\ Range(Coins[n]) \subseteq AllCoins
BY WireEvmAssumption DEF AllCoins, Range

LEMMA Configured ==
  FeeBP \in Nat /\ UseCustomAdapterParams \in {0, 1} /\ MinDstGas \in Nat
BY WireEvmAssumption

LEMMA MeantIsGood ==
  ASSUME NEW d \in Settings
  PROVE  Meant(d) \in Good
BY DEF Settings, Meant, Good, Call

\* The cases one by one.
LEMMA SettingsCases ==
  ASSUME NEW d \in Settings
  PROVE  /\ d = Call(d.methodName, d.arg)
         /\ \/ d.methodName = "setWETH" /\ d.arg = WETH
            \/ d.methodName = "registerToken" /\ d.arg \in AllCoins
            \/ d.methodName = "setBridgeFeeBP"
            \/ d.methodName = "setUseCustomAdapterParams"
            \/ d.methodName = "setTrustedRemote"
            \/ d.methodName = "setMinDstGas"
BY DEF Settings, Call

LEMMA GoodCases ==
  ASSUME NEW c \in Good
  PROVE  \/ c.methodName = "setWETH" /\ c.arg = WETH
         \/ c.methodName = "registerToken" /\ c.arg \in AllCoins
         \/ c.methodName = "setBridgeFeeBP" /\ c.arg = FeeBP
         \/ c.methodName = "setUseCustomAdapterParams" /\ c.arg = UseCustomAdapterParams
         \/ c.methodName = "setTrustedRemote" /\ c.arg = 1 /\ c = Call("setTrustedRemote", 1)
         \/ c.methodName = "setMinDstGas" /\ c.arg = MinDstGas
BY DEF Good, Call

LEMMA OtherCases ==
  ASSUME NEW n \in Networks, NEW c \in Other(n)
  PROVE  \/ c.methodName = "registerToken" /\ c.arg \in AllCoins
         \/ c.methodName = "setBridgeFeeBP" /\ c.arg \in Nat
         \/ c.methodName = "setUseCustomAdapterParams" /\ c.arg \in {0, 1}
         \/ c.methodName = "setTrustedRemote" /\ c.arg = 0
         \/ c.methodName = "setMinDstGas" /\ c.arg = 0
BY WireEvmAssumption, CoinsAre DEF Other, Call

LEMMA MetIs ==
  ASSUME NEW b, NEW d
  PROVE  /\ d.methodName = "setWETH" => (Met(b, d) <=> b.weth)
         /\ d.methodName = "registerToken" => (Met(b, d) <=> d.arg \in b.supportedTokens)
         /\ d.methodName = "setBridgeFeeBP" => (Met(b, d) <=> b.bridgeFeeBP = FeeBP)
         /\ d.methodName = "setUseCustomAdapterParams" =>
              (Met(b, d) <=> b.useCustomAdapterParams = UseCustomAdapterParams)
         /\ d.methodName = "setTrustedRemote" => (Met(b, d) <=> b.trusted)
         /\ d.methodName = "setMinDstGas" => (Met(b, d) <=> b.minDstGas = MinDstGas)
BY DEF Met

LEMMA MeantIs ==
  ASSUME NEW d \in Settings
  PROVE  /\ d.methodName = "setWETH" => Meant(d) = d
         /\ d.methodName = "registerToken" => Meant(d) = d
         /\ d.methodName = "setBridgeFeeBP" => Meant(d) = Call("setBridgeFeeBP", FeeBP)
         /\ d.methodName = "setUseCustomAdapterParams" =>
              Meant(d) = Call("setUseCustomAdapterParams", UseCustomAdapterParams)
         /\ d.methodName = "setTrustedRemote" => Meant(d) = Call("setTrustedRemote", 1)
         /\ d.methodName = "setMinDstGas" => Meant(d) = Call("setMinDstGas", MinDstGas)
         /\ Meant(d).methodName = d.methodName
BY SettingsCases DEF Meant, Call

LEMMA DiffIs ==
  ASSUME NEW d \in Settings, NEW b \in Bridges
  PROVE  Diff(b, d) = IF Met(b, d) THEN <<>> ELSE <<Meant(d)>>
<1> USE SettingsCases, MetIs, MeantIs DEF Diff, Transactions
<1>1. CASE d.methodName = "setWETH"
  BY <1>1 DEF setWETH
<1>2. CASE d.methodName = "registerToken"
  BY <1>2 DEF registerToken
<1>3. CASE d.methodName = "setBridgeFeeBP"
  BY <1>3 DEF setBridgeFeeBP
<1>4. CASE d.methodName = "setUseCustomAdapterParams"
  BY <1>4 DEF setUseCustomAdapterParams
<1>5. CASE d.methodName = "setTrustedRemote"
  BY <1>5 DEF setTrustedRemote
<1>6. CASE d.methodName = "setMinDstGas"
  BY <1>6 DEF setMinDstGas
<1> QED
  BY <1>1, <1>2, <1>3, <1>4, <1>5, <1>6

\* What a call does to the fields.
LEMMA CalledIs ==
  ASSUME NEW c, NEW b \in Bridges
  PROVE  /\ c.methodName = "setWETH" => Called(b, c) = [b EXCEPT !.weth = TRUE]
         /\ c.methodName = "registerToken" =>
              Called(b, c) = [b EXCEPT !.supportedTokens = @ \union {c.arg}]
         /\ c.methodName = "setBridgeFeeBP" =>
              Called(b, c) = [b EXCEPT !.bridgeFeeBP = c.arg]
         /\ c.methodName = "setUseCustomAdapterParams" =>
              Called(b, c) = [b EXCEPT !.useCustomAdapterParams = c.arg]
         /\ c.methodName = "setTrustedRemote" =>
              Called(b, c) = [b EXCEPT !.trusted = c.arg = 1]
         /\ c.methodName = "setMinDstGas" => Called(b, c) = [b EXCEPT !.minDstGas = c.arg]
BY DEF Called

\* A call of a plan, once made, has what it is for, and leaves what was as
\* configured as it was.
LEMMA CalledTyped ==
  ASSUME NEW c, NEW n \in Networks, c \in Good \/ c \in Other(n), NEW b \in Bridges
  PROVE  Called(b, c) \in Bridges
<1>1. \/ c.methodName = "setWETH"
      \/ c.methodName = "registerToken" /\ c.arg \in AllCoins
      \/ c.methodName = "setBridgeFeeBP" /\ c.arg \in Nat
      \/ c.methodName = "setUseCustomAdapterParams" /\ c.arg \in {0, 1}
      \/ c.methodName = "setTrustedRemote"
      \/ c.methodName = "setMinDstGas" /\ c.arg \in Nat
  BY Configured, GoodCases, OtherCases
<1>2. CASE c.methodName = "setWETH"
  <2>1. TRUE \in BOOLEAN
    OBVIOUS
  <2>2. Called(b, c) = [b EXCEPT !.weth = TRUE]
    BY <1>2, CalledIs
  <2> QED
    BY <2>1, <2>2 DEF Bridges
<1>3. CASE c.methodName = "registerToken" /\ c.arg \in AllCoins
  <2>1. b.supportedTokens \union {c.arg} \in SUBSET AllCoins
    BY <1>3 DEF Bridges
  <2>2. Called(b, c) = [b EXCEPT !.supportedTokens = b.supportedTokens \union {c.arg}]
    BY <1>3, CalledIs
  <2> QED
    BY <2>1, <2>2 DEF Bridges
<1>4. CASE c.methodName = "setBridgeFeeBP" /\ c.arg \in Nat
  BY <1>4, CalledIs DEF Bridges
<1>5. CASE c.methodName = "setUseCustomAdapterParams" /\ c.arg \in {0, 1}
  BY <1>5, CalledIs DEF Bridges
<1>6. CASE c.methodName = "setTrustedRemote"
  <2>1. (c.arg = 1) \in BOOLEAN
    OBVIOUS
  <2>2. Called(b, c) = [b EXCEPT !.trusted = c.arg = 1]
    BY <1>6, CalledIs
  <2> QED
    BY <2>1, <2>2 DEF Bridges
<1>7. CASE c.methodName = "setMinDstGas" /\ c.arg \in Nat
  BY <1>7, CalledIs DEF Bridges
<1> QED
  BY <1>1, <1>2, <1>3, <1>4, <1>5, <1>6, <1>7

LEMMA CalledMeets ==
  ASSUME NEW d \in Settings, NEW b \in Bridges
  PROVE  Met(Called(b, Meant(d)), d)
<1> DEFINE c == Meant(d)
           e == Called(b, c)
<1>1. /\ c.methodName = d.methodName
      /\ d.methodName = "registerToken" => c.arg = d.arg
      /\ d.methodName = "setBridgeFeeBP" => c.arg = FeeBP
      /\ d.methodName = "setUseCustomAdapterParams" => c.arg = UseCustomAdapterParams
      /\ d.methodName = "setTrustedRemote" => c.arg = 1
      /\ d.methodName = "setMinDstGas" => c.arg = MinDstGas
  BY MeantIs DEF Call
<1> HIDE DEF c
<1>2. /\ d.methodName = "setWETH" => e.weth
      /\ d.methodName = "registerToken" => d.arg \in e.supportedTokens
      /\ d.methodName = "setBridgeFeeBP" => e.bridgeFeeBP = FeeBP
  BY <1>1, CalledIs DEF Bridges
<1>4. /\ d.methodName = "setUseCustomAdapterParams" =>
           e.useCustomAdapterParams = UseCustomAdapterParams
      /\ d.methodName = "setMinDstGas" => e.minDstGas = MinDstGas
  BY <1>1, CalledIs DEF Bridges
<1>5. d.methodName = "setTrustedRemote" => e.trusted
  <2>1. ASSUME d.methodName = "setTrustedRemote"
        PROVE  e = [b EXCEPT !.trusted = c.arg = 1] /\ (c.arg = 1) = TRUE
    BY <1>1, <2>1, CalledIs
  <2> QED
    BY <2>1 DEF Bridges
<1> HIDE DEF e
<1>3. Met(e, d)
  BY <1>2, <1>4, <1>5, SettingsCases, MetIs
<1> QED
  BY <1>3 DEF e, c

LEMMA CalledKeeps ==
  ASSUME NEW d \in Settings, NEW c \in Good, NEW b \in Bridges, Met(b, d)
  PROVE  Met(Called(b, c), d)
<1> DEFINE e == Called(b, c)
<1>1. /\ b.weth => e.weth
      /\ b.supportedTokens \subseteq e.supportedTokens
      /\ b.bridgeFeeBP = FeeBP => e.bridgeFeeBP = FeeBP
      /\ b.useCustomAdapterParams = UseCustomAdapterParams =>
           e.useCustomAdapterParams = UseCustomAdapterParams
      /\ b.trusted => e.trusted
      /\ b.minDstGas = MinDstGas => e.minDstGas = MinDstGas
  BY GoodCases, CalledIs DEF Bridges
<1> HIDE DEF e
<1>2. Met(e, d)
  BY <1>1, SettingsCases, MetIs
<1> QED
  BY <1>2 DEF e

LEMMA NeedsAre ==
  ASSUME NEW n \in Networks
  PROVE  /\ Needs(n) \subseteq Settings
         /\ \A d \in Needs(n) : /\ Meant(d) = d
                                /\ d.methodName \in {"setWETH", "registerToken"}
BY CoinsAre DEF Needs, Settings, Meant, Call

LEMMA OtherKeepsNeeds ==
  ASSUME NEW n \in Networks, NEW d \in Needs(n), NEW c \in Other(n),
         NEW b \in Bridges, Met(b, d)
  PROVE  Met(Called(b, c), d)
<1> DEFINE e == Called(b, c)
<1>1. /\ b.weth => e.weth
      /\ b.supportedTokens \subseteq e.supportedTokens
  BY OtherCases, CalledIs DEF Bridges
<1> HIDE DEF e
<1>2. Met(e, d)
  BY <1>1, NeedsAre, MetIs
<1> QED
  BY <1>2 DEF e

LEMMA ReadyIs ==
  ASSUME NEW n \in Networks, NEW b \in Bridges, \A d \in Needs(n) : Met(b, d)
  PROVE  Ready(n, b)
<1>1. ASSUME NEW coin \in Range(Coins[n]) PROVE coin \in b.supportedTokens
  <2>1. Met(b, Call("registerToken", coin))
    BY DEF Needs
  <2> QED
    BY <2>1 DEF Met, Call
<1>2. ASSUME WETH \in Range(Coins[n]) PROVE b.weth
  <2>1. Met(b, Call("setWETH", WETH))
    BY <1>2 DEF Needs
  <2> QED
    BY <2>1 DEF Met, Call
<1> QED
  BY <1>1, <1>2 DEF Ready

\* Only setTrustedRemote makes a bridge trusted.
LEMMA TrustedByCall ==
  ASSUME NEW n \in Networks, NEW c, c \in Good \/ c \in Other(n), NEW b \in Bridges,
         ~b.trusted, Called(b, c).trusted
  PROVE  c \in Good /\ c.methodName = "setTrustedRemote"
<1>1. CASE c \in Good
  BY <1>1, GoodCases, CalledIs DEF Bridges
<1>2. CASE c \in Other(n)
  BY <1>2, OtherCases, CalledIs DEF Bridges
<1> QED
  BY <1>1, <1>2

-----------------------------------------------------------------------------
\* The reads of a network.

\* The reads of one coin, and of all of them.
CoinReads(coin) ==
  (IF coin = WETH THEN <<Call("setWETH", WETH)>> ELSE <<>>)
    \o <<Call("registerToken", coin)>>

CoinsRead(n, f) ==
  f = [i \in 0 .. Len(Coins[n]) |->
         IF i = 0 THEN <<>>
         ELSE f[i - 1]
                \o (IF Coins[n][i] = WETH THEN <<Call("setWETH", WETH)>> ELSE <<>>)
                \o <<Call("registerToken", Coins[n][i])>>]

LEMMA configureCoinsIs ==
  ASSUME NEW n
  PROVE  configureCoins(n) = (CHOOSE f : CoinsRead(n, f))[Len(Coins[n])]
BY DEF configureCoins, CoinsRead

LEMMA CoinReadsAre ==
  ASSUME NEW coin \in AllCoins
  PROVE  /\ CoinReads(coin) \in Seq(Settings)
         /\ Call("registerToken", coin) \in Range(CoinReads(coin))
         /\ coin = WETH => Call("setWETH", WETH) \in Range(CoinReads(coin))
         /\ \A d \in Range(CoinReads(coin)) : d.methodName # "setTrustedRemote"
<1> DEFINE one == Call("setWETH", WETH)
           two == Call("registerToken", coin)
<1>1. one \in Settings /\ two \in Settings
      /\ one.methodName # "setTrustedRemote" /\ two.methodName # "setTrustedRemote"
  BY DEF Settings, Call
<1> HIDE DEF one, two
<1>2. /\ <<one>> \in Seq(Settings) /\ <<two>> \in Seq(Settings) /\ <<>> \in Seq(Settings)
      /\ Range(<<one>>) = {one} /\ Range(<<two>>) = {two} /\ Range(<<>>) = {}
  BY <1>1, RangeOfOne
<1>3. CoinReads(coin) = (IF coin = WETH THEN <<one>> ELSE <<>>) \o <<two>>
  BY DEF CoinReads, one, two
<1>4. /\ CoinReads(coin) \in Seq(Settings)
      /\ Range(CoinReads(coin)) = (IF coin = WETH THEN {one} ELSE {}) \union {two}
  <2>1. CASE coin = WETH
    <3>1. CoinReads(coin) = <<one>> \o <<two>>
      BY <1>3, <2>1
    <3>2. /\ <<one>> \o <<two>> \in Seq(Settings)
          /\ Range(<<one>> \o <<two>>) = Range(<<one>>) \union Range(<<two>>)
      <4> DEFINE s == <<one>>
                 t == <<two>>
      <4>1. s \in Seq(Settings) /\ t \in Seq(Settings)
        BY <1>2
      <4> HIDE DEF s, t
      <4>2. s \o t \in Seq(Settings) /\ Range(s \o t) = Range(s) \union Range(t)
        BY <4>1, RangeOfTwo
      <4> QED
        BY <4>2 DEF s, t
    <3> QED
      BY <1>2, <2>1, <3>1, <3>2
  <2>2. CASE coin # WETH
    <3>1. CoinReads(coin) = <<>> \o <<two>>
      BY <1>3, <2>2
    <3>2. /\ <<>> \o <<two>> \in Seq(Settings)
          /\ Range(<<>> \o <<two>>) = Range(<<>>) \union Range(<<two>>)
      BY <1>2, RangeOfTwo
    <3> QED
      BY <1>2, <2>2, <3>1, <3>2
  <2> QED
    BY <2>1, <2>2
<1> QED
  BY <1>1, <1>4 DEF one, two

\* Reads appended one after the other are the reads appended together.
LEMMA JoinedTwice ==
  ASSUME NEW a \in Seq(Settings), NEW b \in Seq(Settings), NEW c \in Seq(Settings)
  PROVE  (a \o b) \o c = a \o (b \o c)
BY ConcatAssociative, SMTT(60)

LEMMA CoinsReadExists ==
  ASSUME NEW n \in Networks
  PROVE  \E f : CoinsRead(n, f)
<1> DEFINE L == Len(Coins[n])
           T == Nat \X Seq(Settings)
           step == [p \in T |-> <<p[1] + 1,
                                  IF p[1] + 1 \in 1 .. L
                                    THEN p[2] \o CoinReads(Coins[n][p[1] + 1])
                                    ELSE p[2]>>]
           first == <<0, <<>>>>
<1>1. L \in Nat /\ \A i \in 1 .. L : Coins[n][i] \in AllCoins
  <2>1. Coins[n] \in Seq(AllCoins)
    BY CoinsAre
  <2> QED
    BY <2>1
<1>2. step \in [T -> T]
  <2>1. ASSUME NEW p \in T PROVE step[p] \in T
    <3>1. p[1] \in Nat /\ p[2] \in Seq(Settings) /\ p[1] + 1 \in Nat
      OBVIOUS
    <3>2. CASE p[1] + 1 \in 1 .. L
      <4>1. p[2] \o CoinReads(Coins[n][p[1] + 1]) \in Seq(Settings)
        BY <1>1, <3>1, <3>2, CoinReadsAre
      <4> QED
        BY <3>1, <3>2, <4>1
    <3>3. CASE p[1] + 1 \notin 1 .. L
      BY <3>1, <3>3
    <3> QED
      BY <3>2, <3>3
  <2> QED
    BY <2>1
<1>3. first \in T
  <2>1. <<>> \in Seq(Settings)
    OBVIOUS
  <2>2. 0 \in Nat
    OBVIOUS
  <2> QED
    BY <2>1, <2>2
<1>4. /\ first[1] = 0 /\ first[2] = <<>>
      /\ \A p \in T : /\ step[p][1] = p[1] + 1
                      /\ p[1] + 1 \in 1 .. L =>
                           step[p][2] = p[2] \o CoinReads(Coins[n][p[1] + 1])
  OBVIOUS
<1> HIDE DEF step, first, T
<1>5. PICK h \in [Nat -> T] : h[0] = first /\ \A k \in Nat : h[k + 1] = step[h[k]]
  <2>1. \E h \in [Nat -> T] : h[0] = first /\ \A k \in Nat : h[k + 1] = step[h[k]]
    BY <1>2, <1>3, NatRecursion, Z3
  <2> QED
    BY <2>1
<1> DEFINE P == {k \in Nat : h[k][1] = k}
           f == [i \in 0 .. L |-> h[i][2]]
<1>6. Nat \subseteq P
  <2>1. 0 \in P
    BY <1>4, <1>5
  <2>2. ASSUME NEW k \in Nat, k \in P PROVE k + 1 \in P
    <3>1. k + 1 \in Nat /\ h[k] \in T /\ h[k][1] = k
      BY <1>5, <2>2
    <3>2. h[k + 1][1] = h[k][1] + 1
      BY <1>4, <1>5, <3>1
    <3> QED
      BY <3>1, <3>2
  <2> HIDE DEF P
  <2> QED
    BY <2>1, <2>2, NatSetInduction
<1>7. ASSUME NEW i \in 0 .. L, i # 0
      PROVE  f[i] = f[i - 1] \o CoinReads(Coins[n][i])
  <2>1. i - 1 \in Nat /\ (i - 1) + 1 = i /\ i \in 1 .. L /\ i - 1 \in 0 .. L
    BY <1>1, <1>7
  <2>2. h[i - 1][1] = i - 1 /\ h[i - 1] \in T /\ h[i] = step[h[i - 1]]
    BY <1>5, <1>6, <2>1
  <2>3. h[i][2] = h[i - 1][2] \o CoinReads(Coins[n][i])
    BY <1>4, <2>1, <2>2
  <2> QED
    BY <2>1, <2>3
<1>8. f[0] = <<>>
  BY <1>1, <1>4, <1>5
<1>9. ASSUME NEW i \in 0 .. L, i # 0
      PROVE  f[i] = f[i - 1]
                \o (IF Coins[n][i] = WETH THEN <<Call("setWETH", WETH)>> ELSE <<>>)
                \o <<Call("registerToken", Coins[n][i])>>
  <2> DEFINE s == f[i - 1]
             t == IF Coins[n][i] = WETH THEN <<Call("setWETH", WETH)>> ELSE <<>>
             u == <<Call("registerToken", Coins[n][i])>>
  <2>1. s \in Seq(Settings)
    <3>1. i - 1 \in 0 .. L /\ i - 1 \in Nat
      BY <1>1, <1>9
    <3>2. h[i - 1] \in T
      BY <1>5, <3>1
    <3> QED
      BY <3>1, <3>2 DEF T
  <2>2. t \in Seq(Settings) /\ u \in Seq(Settings)
    <3>1. Call("setWETH", WETH) \in Settings
      BY DEF Settings
    <3>2. Coins[n][i] \in AllCoins
      BY <1>1, <1>9
    <3>3. Call("registerToken", Coins[n][i]) \in Settings
      BY <3>2 DEF Settings
    <3> QED
      BY <3>1, <3>3, RangeOfOne
  <2>3. f[i] = s \o (t \o u)
    BY <1>7, <1>9 DEF CoinReads
  <2> HIDE DEF s, t, u
  <2>4. s \o (t \o u) = s \o t \o u
    BY <2>1, <2>2, JoinedTwice, Zenon
  <2> QED
    BY <2>3, <2>4 DEF s, t, u
<1>10. CoinsRead(n, f)
  BY <1>8, <1>9 DEF CoinsRead
<1> QED
  BY <1>10

\* Coins are read one by one, and the remote is not among them.
LEMMA configureCoinsReads ==
  ASSUME NEW n \in Networks
  PROVE  /\ configureCoins(n) \in Seq(Settings)
         /\ Needs(n) \subseteq Range(configureCoins(n))
         /\ \A d \in Range(configureCoins(n)) : d.methodName # "setTrustedRemote"
<1> DEFINE L == Len(Coins[n])
           f == CHOOSE f : CoinsRead(n, f)
           Upto(k) == /\ f[k] \in Seq(Settings)
                      /\ \A i \in 1 .. k :
                           /\ Call("registerToken", Coins[n][i]) \in Range(f[k])
                           /\ Coins[n][i] = WETH => Call("setWETH", WETH) \in Range(f[k])
                      /\ \A d \in Range(f[k]) : d.methodName # "setTrustedRemote"
           P == {k \in Nat : k <= L => Upto(k)}
<1>1. L \in Nat /\ DOMAIN Coins[n] = 1 .. L /\ \A i \in 1 .. L : Coins[n][i] \in AllCoins
  <2>1. Coins[n] \in Seq(AllCoins)
    BY CoinsAre
  <2> QED
    BY <2>1
<1>2. CoinsRead(n, f)
  BY CoinsReadExists
<1> HIDE DEF f
<1>3. f[0] = <<>>
  BY <1>1, <1>2 DEF CoinsRead
<1>4. ASSUME NEW k \in Nat, k + 1 <= L
      PROVE  f[k + 1] = f[k]
                \o (IF Coins[n][k + 1] = WETH THEN <<Call("setWETH", WETH)>> ELSE <<>>)
                \o <<Call("registerToken", Coins[n][k + 1])>>
  <2>1. k + 1 \in 0 .. Len(Coins[n]) /\ k + 1 # 0 /\ (k + 1) - 1 = k
    BY <1>1, <1>4
  <2> QED
    BY <1>2, <2>1 DEF CoinsRead
<1>5. Nat \subseteq P
  <2>1. 0 \in P
    <3>1. f[0] \in Seq(Settings) /\ Range(f[0]) = {}
      BY <1>3, RangeOfOne, MeantIs DEF Range
    <3> QED
      BY <3>1
  <2>2. ASSUME NEW k \in Nat, k \in P PROVE k + 1 \in P
    <3> SUFFICES ASSUME k + 1 <= L PROVE Upto(k + 1)
      OBVIOUS
    <3> DEFINE s == f[k]
               t == IF Coins[n][k + 1] = WETH THEN <<Call("setWETH", WETH)>> ELSE <<>>
               u == <<Call("registerToken", Coins[n][k + 1])>>
               c == CoinReads(Coins[n][k + 1])
    <3>1. k + 1 \in 1 .. L /\ k <= L /\ k + 1 \in Nat
      BY <1>1
    <3>2. Upto(k)
      BY <2>2, <3>1
    <3>3. Coins[n][k + 1] \in AllCoins
      BY <1>1, <3>1
    <3>4. /\ c \in Seq(Settings)
          /\ Call("registerToken", Coins[n][k + 1]) \in Range(c)
          /\ Coins[n][k + 1] = WETH => Call("setWETH", WETH) \in Range(c)
          /\ \A d \in Range(c) : d.methodName # "setTrustedRemote"
      BY <3>3, CoinReadsAre
    <3>5. f[k + 1] = s \o c
      <4>1. t \in Seq(Settings) /\ u \in Seq(Settings) /\ s \in Seq(Settings)
        <5>1. Call("setWETH", WETH) \in Settings
              /\ Call("registerToken", Coins[n][k + 1]) \in Settings
          BY <3>3 DEF Settings
        <5> QED
          BY <3>2, <5>1, RangeOfOne
      <4>2. c = t \o u
        BY DEF CoinReads
      <4>3. f[k + 1] = s \o t \o u
        BY <1>4
      <4> HIDE DEF s, t, u, c
      <4> QED
        BY <4>1, <4>2, <4>3, JoinedTwice, Zenon
    <3>6. /\ f[k + 1] \in Seq(Settings)
          /\ Range(f[k + 1]) = Range(s) \union Range(c)
      <4> HIDE DEF c
      <4>1. s \in Seq(Settings)
        BY <3>2
      <4> HIDE DEF s
      <4> QED
        BY <3>4, <3>5, <4>1, RangeOfTwo
    <3> HIDE DEF c
    <3>7. ASSUME NEW i \in 1 .. k + 1
          PROVE  /\ Call("registerToken", Coins[n][i]) \in Range(f[k + 1])
                 /\ Coins[n][i] = WETH => Call("setWETH", WETH) \in Range(f[k + 1])
      <4>1. i \in 1 .. k \/ i = k + 1
        OBVIOUS
      <4> QED
        BY <3>2, <3>4, <3>6, <4>1
    <3> QED
      BY <3>2, <3>4, <3>6, <3>7
  <2> HIDE DEF P
  <2> QED
    BY <2>1, <2>2, NatSetInduction
<1>6. Upto(L)
  BY <1>1, <1>5
<1>7. configureCoins(n) = f[L]
  BY configureCoinsIs DEF f
<1>8. ASSUME NEW d \in Needs(n) PROVE d \in Range(f[L])
  <2>1. CASE \E c \in Range(Coins[n]) : d = Call("registerToken", c)
    BY <1>1, <1>6, <2>1 DEF Range
  <2>2. CASE WETH \in Range(Coins[n]) /\ d = Call("setWETH", WETH)
    <3>1. PICK i \in 1 .. L : Coins[n][i] = WETH
      BY <1>1, <2>2 DEF Range
    <3> QED
      BY <1>6, <2>2, <3>1
  <2> QED
    BY <2>1, <2>2 DEF Needs
<1> HIDE DEF L
<1> QED
  BY <1>6, <1>7, <1>8

LEMMA SeqOf ==
  ASSUME NEW S, NEW n \in Nat, NEW s \in [1 .. n -> S]
  PROVE  s \in Seq(S) /\ Len(s) = n
<1>1. s \in Seq(S)
  OBVIOUS
<1> QED
  BY <1>1

\* All the settings of a network are read, and what a bridge needs before the
\* remote.
Later == <<"setBridgeFeeBP", "setUseCustomAdapterParams",
           "setTrustedRemote", "setMinDstGas">>

LEMMA ReadsAre ==
  ASSUME NEW n \in Networks
  PROVE  /\ Reads(n) \in Seq(Settings) /\ Reads(n) # <<>>
         /\ Needs(n) \subseteq Range(Reads(n))
         /\ \A m \in {"setBridgeFeeBP", "setUseCustomAdapterParams",
                      "setTrustedRemote", "setMinDstGas"} :
              Call(m, 0) \in Range(Reads(n))
         /\ \A i \in 1 .. Len(Reads(n)) :
              Reads(n)[i].methodName = "setTrustedRemote" =>
                \A d \in Needs(n) : \E j \in 1 .. i - 1 : Reads(n)[j] = d
<1> DEFINE c == configureCoins(n)
           t == SettingsOf(Later)
<1>1. /\ c \in Seq(Settings) /\ Needs(n) \subseteq Range(c)
      /\ \A d \in Range(c) : d.methodName # "setTrustedRemote"
  BY configureCoinsReads
<1>2. Reads(n) = c \o t
  BY DEF Reads, Later
<1>3. /\ t \in Seq(Settings) /\ Len(t) = 4
      /\ t[1] = Call("setBridgeFeeBP", 0) /\ t[2] = Call("setUseCustomAdapterParams", 0)
      /\ t[3] = Call("setTrustedRemote", 0) /\ t[4] = Call("setMinDstGas", 0)
  <2>1. /\ DOMAIN Later = 1 .. 4 /\ Later[1] = "setBridgeFeeBP"
        /\ Later[2] = "setUseCustomAdapterParams"
        /\ Later[3] = "setTrustedRemote" /\ Later[4] = "setMinDstGas"
    BY DEF Later
  <2>2. /\ t = [i \in 1 .. 4 |-> Call(Later[i], 0)]
    BY <2>1 DEF SettingsOf
  <2>3. /\ t[1] = Call("setBridgeFeeBP", 0) /\ t[2] = Call("setUseCustomAdapterParams", 0)
        /\ t[3] = Call("setTrustedRemote", 0) /\ t[4] = Call("setMinDstGas", 0)
    BY <2>1, <2>2
  <2>4. \A i \in 1 .. 4 : t[i] \in Settings
    <3>1. t[1] \in Settings /\ t[2] \in Settings /\ t[3] \in Settings /\ t[4] \in Settings
      BY <2>3 DEF Settings
    <3> QED
      BY <3>1
  <2>5. t \in [1 .. 4 -> Settings]
    BY <2>2, <2>4
  <2>6. t \in Seq(Settings)
    <3> HIDE DEF t
    <3> QED
      BY <2>5, SeqOf
  <2>7. Len(t) = 4
    <3> HIDE DEF t
    <3> QED
      BY <2>5, SeqOf
  <2> HIDE DEF t
  <2> QED
    BY <2>3, <2>6, <2>7
<1> HIDE DEF c, t
<1>4. /\ Reads(n) \in Seq(Settings)
      /\ Range(Reads(n)) = Range(c) \union Range(t)
      /\ Len(Reads(n)) = Len(c) + Len(t)
      /\ \A i \in 1 .. Len(c) : Reads(n)[i] = c[i]
      /\ \A i \in 1 .. Len(t) : Reads(n)[Len(c) + i] = t[i]
  <2> DEFINE u == c \o t
  <2>1. /\ u \in Seq(Settings) /\ Range(u) = Range(c) \union Range(t)
        /\ Len(u) = Len(c) + Len(t)
        /\ \A i \in 1 .. Len(c) : u[i] = c[i]
        /\ \A i \in 1 .. Len(t) : u[Len(c) + i] = t[i]
    <3>1. c \in Seq(Settings) /\ t \in Seq(Settings)
      BY <1>1, <1>3
    <3>2. \A x, y \in Seq(Settings) :
            /\ x \o y \in Seq(Settings) /\ Range(x \o y) = Range(x) \union Range(y)
            /\ Len(x \o y) = Len(x) + Len(y)
            /\ \A i \in 1 .. Len(x) : (x \o y)[i] = x[i]
            /\ \A i \in 1 .. Len(y) : (x \o y)[Len(x) + i] = y[i]
      BY RangeOfTwo
    <3> QED
      BY <3>1, <3>2, Zenon
  <2>2. Reads(n) = u
    BY <1>2
  <2> HIDE DEF u
  <2> QED
    BY <2>1, <2>2
<1>5. /\ Range(t) = {t[1], t[2], t[3], t[4]} /\ Len(c) \in Nat /\ DOMAIN c = 1 .. Len(c)
  BY <1>1, <1>3 DEF Range
<1>6. Reads(n) # <<>>
  BY <1>3, <1>4, <1>5
<1>7. ASSUME NEW i \in 1 .. Len(Reads(n)), Reads(n)[i].methodName = "setTrustedRemote",
             NEW d \in Needs(n)
      PROVE  \E j \in 1 .. i - 1 : Reads(n)[j] = d
  <2>1. ~ (i \in 1 .. Len(c))
    BY <1>1, <1>4, <1>5, <1>7 DEF Range
  <2>2. PICK j \in 1 .. Len(c) : c[j] = d
    BY <1>1, <1>5 DEF Range
  <2>3. j \in 1 .. i - 1
    BY <1>3, <1>4, <1>5, <2>1
  <2> QED
    BY <1>4, <2>2, <2>3
<1> QED
  BY <1>1, <1>3, <1>4, <1>5, <1>6, <1>7

-----------------------------------------------------------------------------
\* The inductive invariant.

\* Types: what a run is at; what it knows of a network; a run; a transaction.
Stages == {"idle", "plan", "prompt", "send", "wired", "failed"}

Nets == [contract : Nat, reads : Seq(Settings), txns : Seq(Good), waits : BOOLEAN]

Runs == [stage : Stages, src : SUBSET Networks, quiet : BOOLEAN,
         errs : SUBSET Networks, net : [Networks -> Nets]]

Txs == [contract : Nat, call : Good, from : Operators \union {"nobody"}]

Typed ==
  /\ bridge \in [Networks -> Seq(Bridges)]
  /\ deployments \in [Networks -> Nat]
  /\ \A n \in Networks : deployments[n] <= Len(bridge[n])
  /\ mempool \in [Networks -> Seq(Txs)]
  /\ \A n \in Networks : \A i \in 1 .. Len(mempool[n]) :
       mempool[n][i].contract \in 1 .. Len(bridge[n])
  /\ run \in [Operators -> Runs]

\* What a run keeps of a network, stage by stage.
Shape(n, r) ==
  /\ r.stage \notin Busy \/ n \notin r.src => r.net[n] = NotBegun
  /\ r.stage \in {"prompt", "send"} => r.net[n].reads = <<>>
  /\ r.stage # "send" => r.errs = {}
  /\ r.net[n].waits => r.stage = "send" /\ r.net[n].txns # <<>>
  /\ r.net[n].txns # <<>> => r.net[n].contract # 0

\* What a bridge needs is there, or sent or read before the remote.
NeedsFirst(n, bs, w) ==
  /\ \A i \in 1 .. Len(w.txns) : w.txns[i].methodName = "setTrustedRemote" =>
       \A d \in Needs(n) : \/ Met(bs[w.contract], d)
                           \/ \E j \in 1 .. i - 1 : w.txns[j] = d
  /\ \A i \in 1 .. Len(w.reads) : w.reads[i].methodName = "setTrustedRemote" =>
       \A d \in Needs(n) : \/ w.contract # 0 /\ Met(bs[w.contract], d)
                           \/ d \in Range(w.txns)
                           \/ \E j \in 1 .. i - 1 : w.reads[j] = d

\* Every setting is as configured, about to be sent, or still to be read.
Handled(bs, w, d) ==
  \/ d \in Range(w.reads)
  \/ w.contract # 0 /\ Met(bs[w.contract], d)
  \/ Meant(d) \in Range(w.txns)

\* A run that nobody upset is at the bridge of the deployment file, and loses
\* no setting between reading it and having it mined.
Pursued(n, bs, dep, r) ==
  r.quiet /\ n \in r.src =>
    /\ r.net[n].contract # 0 /\ dep # 0 => r.net[n].contract = dep
    /\ r.stage \in Busy /\ n \notin r.errs =>
         \A d \in Range(Reads(n)) : Handled(bs, r.net[n], d)
    /\ r.stage = "wired" /\ dep # 0 =>
         \A d \in Range(Reads(n)) : Met(bs[dep], d)

\* What holds of a run on one network, and of a run.
RunInv(n, bs, dep, r) ==
  /\ Shape(n, r)
  /\ r.net[n].contract <= Len(bs)
  /\ NeedsFirst(n, bs, r.net[n])
  /\ Pursued(n, bs, dep, r)

RunOK(br, dep, r) == r \in Runs /\ \A n \in Networks : RunInv(n, br[n], dep[n], r)

\* What an operator waits for is the first transaction of the plan.
Links(mp, o, r) ==
  \A n \in Networks : \A i \in 1 .. Len(mp[n]) : mp[n][i].from = o =>
    /\ r.net[n].waits
    /\ mp[n][i].contract = r.net[n].contract
    /\ mp[n][i].call = Head(r.net[n].txns)

\* No operator has two transactions in the queue of a network that it waits for.
Once(s) ==
  \A i, j \in 1 .. Len(s) : s[i].from = s[j].from /\ s[i].from \in Operators => i = j

\* Whoever is about to make a bridge trusted, it is ready.
FitToTrust(n, bs, s) ==
  \A i \in 1 .. Len(s) : s[i].call.methodName = "setTrustedRemote" =>
    \A d \in Needs(n) : Met(bs[s[i].contract], d)

\* The invariant, over runs and over the queues of the networks.
WireInv ==
  /\ Typed
  /\ \A o \in Operators : RunOK(bridge, deployments, run[o]) /\ Links(mempool, o, run[o])
  /\ \A n \in Networks : Once(mempool[n]) /\ FitToTrust(n, bridge[n], mempool[n])

-----------------------------------------------------------------------------
\* Bridges get no less configured, unless a setting is changed otherwise.

\* Whatever of S a bridge had, it has.
Keeps(S, bs, bs2) ==
  /\ bs2 \in Seq(Bridges) /\ Len(bs) <= Len(bs2)
  /\ \A i \in 1 .. Len(bs) : \A d \in S : Met(bs[i], d) => Met(bs2[i], d)

LEMMA SrcIn ==
  ASSUME NEW r \in Runs PROVE r.src \subseteq Networks
BY DEF Runs

LEMMA NetTyped ==
  ASSUME NEW r \in Runs, NEW n \in Networks
  PROVE  /\ r.net[n] \in Nets
         /\ r.net[n].contract \in Nat /\ r.net[n].reads \in Seq(Settings)
         /\ r.net[n].txns \in Seq(Good) /\ r.net[n].waits \in BOOLEAN
         /\ r.stage \in Stages /\ r.src \in SUBSET Networks /\ r.errs \in SUBSET Networks
         /\ r.quiet \in BOOLEAN
<1>1. r.net[n] \in Nets
  BY DEF Runs
<1>2. /\ r.stage \in Stages /\ r.src \in SUBSET Networks /\ r.errs \in SUBSET Networks
      /\ r.quiet \in BOOLEAN
  BY DEF Runs
<1> QED
  BY <1>1, <1>2 DEF Nets

LEMMA NeedsFirstKept ==
  ASSUME NEW n \in Networks, NEW bs, NEW bs2, Keeps(Needs(n), bs, bs2), NEW w \in Nets,
         w.contract <= Len(bs), Len(bs) \in Nat, w.txns # <<>> => w.contract # 0,
         NeedsFirst(n, bs, w)
  PROVE  NeedsFirst(n, bs2, w)
<1>1. /\ w.contract \in Nat /\ Len(w.txns) \in Nat /\ Len(w.reads) \in Nat
      /\ w.txns \in Seq(Good)
  BY DEF Nets
<1>2. ASSUME w.contract # 0, NEW d \in Needs(n), Met(bs[w.contract], d)
      PROVE  Met(bs2[w.contract], d)
  <2>1. w.contract \in 1 .. Len(bs)
    BY <1>1, <1>2
  <2> QED
    BY <1>2, <2>1 DEF Keeps
<1>3. ASSUME NEW i \in 1 .. Len(w.txns), w.txns[i].methodName = "setTrustedRemote",
             NEW d \in Needs(n)
      PROVE  \/ Met(bs2[w.contract], d)
             \/ \E j \in 1 .. i - 1 : w.txns[j] = d
  <2>1. w.contract # 0
    BY <1>1
  <2>2. Met(bs[w.contract], d) \/ \E j \in 1 .. i - 1 : w.txns[j] = d
    BY <1>3 DEF NeedsFirst
  <2> QED
    BY <1>2, <2>1, <2>2
<1>4. ASSUME NEW i \in 1 .. Len(w.reads), w.reads[i].methodName = "setTrustedRemote",
             NEW d \in Needs(n)
      PROVE  \/ w.contract # 0 /\ Met(bs2[w.contract], d)
             \/ d \in Range(w.txns)
             \/ \E j \in 1 .. i - 1 : w.reads[j] = d
  <2>1. \/ w.contract # 0 /\ Met(bs[w.contract], d)
        \/ d \in Range(w.txns)
        \/ \E j \in 1 .. i - 1 : w.reads[j] = d
    BY <1>4 DEF NeedsFirst
  <2> QED
    BY <1>2, <2>1
<1> QED
  BY <1>3, <1>4 DEF NeedsFirst

LEMMA RunInvKept ==
  ASSUME NEW n \in Networks, NEW bs \in Seq(Bridges), NEW bs2,
         Keeps(Settings, bs, bs2), NEW dep \in Nat, dep <= Len(bs),
         NEW dep2, dep2 = dep \/ dep2 = 0, NEW r \in Runs, RunInv(n, bs, dep, r)
  PROVE  RunInv(n, bs2, dep2, r)
<1> DEFINE w == r.net[n]
<1>1. w \in Nets /\ w.contract \in Nat /\ Len(bs) \in Nat /\ Len(bs2) \in Nat
      /\ Len(bs) <= Len(bs2)
  BY NetTyped DEF Keeps
<1>2. Shape(n, r) /\ w.contract <= Len(bs) /\ NeedsFirst(n, bs, w) /\ Pursued(n, bs, dep, r)
  BY DEF RunInv
<1>3. Keeps(Needs(n), bs, bs2)
  BY NeedsAre DEF Keeps
<1>4. NeedsFirst(n, bs2, w)
  BY <1>1, <1>2, <1>3, NeedsFirstKept DEF Shape
<1>5. Range(Reads(n)) \subseteq Settings
  BY ReadsAre, RangeIn
<1>6. \A i \in 1 .. Len(bs) : \A d \in Settings : Met(bs[i], d) => Met(bs2[i], d)
  BY DEF Keeps
<1>7. Pursued(n, bs2, dep2, r)
  <2> SUFFICES ASSUME r.quiet, n \in r.src
               PROVE  /\ w.contract # 0 /\ dep2 # 0 => w.contract = dep2
                      /\ r.stage \in Busy /\ n \notin r.errs =>
                           \A d \in Range(Reads(n)) : Handled(bs2, w, d)
                      /\ r.stage = "wired" /\ dep2 # 0 =>
                           \A d \in Range(Reads(n)) : Met(bs2[dep2], d)
    BY DEF Pursued
  <2>1. /\ w.contract # 0 /\ dep # 0 => w.contract = dep
        /\ r.stage \in Busy /\ n \notin r.errs =>
             \A d \in Range(Reads(n)) : Handled(bs, w, d)
        /\ r.stage = "wired" /\ dep # 0 =>
             \A d \in Range(Reads(n)) : Met(bs[dep], d)
    BY <1>2 DEF Pursued
  <2>2. ASSUME NEW d \in Range(Reads(n)), Handled(bs, w, d) PROVE Handled(bs2, w, d)
    BY <1>1, <1>2, <1>5, <1>6, <2>2 DEF Handled
  <2>3. ASSUME dep2 # 0, NEW d \in Range(Reads(n)), Met(bs[dep2], d)
        PROVE  Met(bs2[dep2], d)
    BY <1>1, <1>5, <1>6, <2>3
  <2> QED
    BY <2>1, <2>2, <2>3
<1> QED
  BY <1>1, <1>2, <1>4, <1>7 DEF RunInv

\* When a bridge is deployed or a setting changed otherwise, runs are no longer
\* quiet, and what a bridge needs stays.
LEMMA RunInvUpset ==
  ASSUME NEW n \in Networks, NEW bs \in Seq(Bridges), NEW bs2,
         Keeps(Needs(n), bs, bs2), NEW dep, NEW dep2,
         NEW r \in Runs, RunInv(n, bs, dep, r)
  PROVE  RunInv(n, bs2, dep2, [r EXCEPT !.quiet = FALSE])
<1> DEFINE w == r.net[n]
           q == [r EXCEPT !.quiet = FALSE]
<1>1. w \in Nets /\ w.contract \in Nat /\ Len(bs) \in Nat /\ Len(bs2) \in Nat
      /\ Len(bs) <= Len(bs2)
  BY NetTyped DEF Keeps
<1>2. Shape(n, r) /\ w.contract <= Len(bs) /\ NeedsFirst(n, bs, w)
  BY DEF RunInv
<1>3. NeedsFirst(n, bs2, w)
  BY <1>1, <1>2, NeedsFirstKept DEF Shape
<1>4. q.net = r.net /\ q.stage = r.stage /\ q.src = r.src /\ q.errs = r.errs
      /\ q.quiet = FALSE
  BY DEF Runs
<1> HIDE DEF q
<1>5. Shape(n, q)
  BY <1>2, <1>4 DEF Shape
<1>6. Pursued(n, bs2, dep2, q)
  BY <1>4 DEF Pursued
<1>7. RunInv(n, bs2, dep2, q)
  BY <1>1, <1>2, <1>3, <1>4, <1>5, <1>6 DEF RunInv
<1> QED
  BY <1>7 DEF q

-----------------------------------------------------------------------------
\* How a run goes on.

LEMMA NotBegunIs ==
  /\ NotBegun \in Nets
  /\ NotBegun.contract = 0 /\ NotBegun.reads = <<>> /\ NotBegun.txns = <<>>
  /\ NotBegun.waits = FALSE
BY DEF NotBegun, Nets

LEMMA EndedIs ==
  ASSUME NEW r \in Runs, NEW stage \in Stages
  PROVE  /\ Ended(r, stage) \in Runs
         /\ Ended(r, stage).stage = stage /\ Ended(r, stage).src = r.src
         /\ Ended(r, stage).quiet = r.quiet /\ Ended(r, stage).errs = {}
         /\ \A n \in Networks : Ended(r, stage).net[n] = NotBegun
BY NotBegunIs DEF Ended, Idle, Runs

LEMMA NotBegunNeeds ==
  ASSUME NEW n, NEW bs PROVE NeedsFirst(n, bs, NotBegun)
BY NotBegunIs DEF NeedsFirst

LEMMA EndedOK ==
  ASSUME NEW br \in [Networks -> Seq(Bridges)], NEW dep, NEW r \in Runs,
         NEW stage \in {"idle", "failed", "wired"},
         stage = "wired" => \A n \in r.src : r.quiet /\ dep[n] # 0 =>
                              \A d \in Range(Reads(n)) : Met(br[n][dep[n]], d)
  PROVE  RunOK(br, dep, Ended(r, stage))
<1> DEFINE e == Ended(r, stage)
<1>1. /\ e \in Runs /\ e.stage = stage /\ e.src = r.src /\ e.quiet = r.quiet
      /\ e.errs = {} /\ \A n \in Networks : e.net[n] = NotBegun
  BY EndedIs DEF Stages
<1> HIDE DEF e
<1>2. ASSUME NEW n \in Networks PROVE RunInv(n, br[n], dep[n], e)
  <2>1. e.net[n].contract = 0 /\ e.net[n].txns = <<>> /\ e.net[n].waits = FALSE
        /\ e.net[n].reads = <<>>
    BY <1>1, NotBegunIs
  <2>2. Shape(n, e)
    BY <1>1, <2>1 DEF Shape
  <2>3. Pursued(n, br[n], dep[n], e)
    BY <1>1, <2>1 DEF Pursued, Busy
  <2>4. Len(br[n]) \in Nat
    OBVIOUS
  <2>5. NeedsFirst(n, br[n], e.net[n])
    BY <1>1, NotBegunNeeds
  <2> QED
    BY <2>1, <2>2, <2>3, <2>4, <2>5 DEF RunInv
<1> QED
  BY <1>1, <1>2 DEF RunOK, e

\* Where nothing is left to read or to send and nothing went wrong, everything
\* is as configured.
LEMMA DoneIsMet ==
  ASSUME NEW br, NEW dep, NEW r \in Runs, RunOK(br, dep, r), r.stage \in Busy,
         NEW n \in r.src, r.net[n].reads = <<>>, r.net[n].txns = <<>>, n \notin r.errs,
         r.quiet, dep[n] # 0, NEW d \in Range(Reads(n))
  PROVE  Met(br[n][dep[n]], d)
<1>1. n \in Networks
  BY SrcIn
<1>2. Pursued(n, br[n], dep[n], r)
  BY <1>1 DEF RunOK, RunInv
<1>3. /\ r.net[n].contract # 0 => r.net[n].contract = dep[n]
      /\ Handled(br[n], r.net[n], d)
  BY <1>2 DEF Pursued
<1>4. Range(<<>>) = {}
  BY DEF Range
<1> QED
  BY <1>3, <1>4 DEF Handled

\* A plan under way may become a prompt.
LEMMA PlannedOK ==
  ASSUME NEW br \in [Networks -> Seq(Bridges)], NEW dep, NEW r \in Runs,
         RunOK(br, dep, r), r.stage = "plan"
  PROVE  RunOK(br, dep, Planned(r))
<1>0. r.errs = {} \/ Networks = {}
  BY DEF RunOK, RunInv, Shape
<1>1. CASE \E n \in r.src : r.net[n].reads # <<>>
  <2>1. Planned(r) = r
    BY <1>1 DEF Planned
  <2> QED
    BY <2>1
<1>2. CASE /\ ~ \E n \in r.src : r.net[n].reads # <<>>
           /\ \A n \in r.src : r.net[n].txns = <<>>
  <2>1. Planned(r) = Ended(r, "wired")
    BY <1>2 DEF Planned
  <2>2. ASSUME NEW n \in r.src, r.quiet, dep[n] # 0
        PROVE  \A d \in Range(Reads(n)) : Met(br[n][dep[n]], d)
    <3>1. n \in Networks
      BY SrcIn
    <3>2. r.errs = {}
      BY <1>0, <3>1
    <3> QED
      BY <1>2, <2>2, <3>2, DoneIsMet DEF Busy
  <2> QED
    BY <2>1, <2>2, EndedOK
<1>3. CASE /\ ~ \E n \in r.src : r.net[n].reads # <<>>
           /\ ~ \A n \in r.src : r.net[n].txns = <<>>
  <2> DEFINE e == [r EXCEPT !.stage = "prompt"]
  <2>1. Planned(r) = e
    BY <1>3 DEF Planned
  <2>2. /\ e \in Runs /\ e.stage = "prompt" /\ e.src = r.src /\ e.quiet = r.quiet
        /\ e.errs = r.errs /\ e.net = r.net
    BY DEF Runs, Stages
  <2> HIDE DEF e
  <2>3. ASSUME NEW n \in Networks PROVE RunInv(n, br[n], dep[n], e)
    <3>1. RunInv(n, br[n], dep[n], r)
      BY DEF RunOK
    <3>2. Shape(n, e)
      <4>1. Shape(n, r)
        BY <3>1 DEF RunInv
      <4>2. n \notin r.src => r.net[n].reads = <<>>
        BY <4>1, NotBegunIs DEF Shape
      <4> QED
        BY <1>3, <2>2, <4>1, <4>2 DEF Shape, Busy
    <3>3. Pursued(n, br[n], dep[n], e)
      BY <2>2, <3>1 DEF RunInv, Pursued, Busy
    <3> QED
      BY <2>2, <3>1, <3>2, <3>3 DEF RunInv
  <2> QED
    BY <2>1, <2>2, <2>3 DEF RunOK
<1> QED
  BY <1>1, <1>2, <1>3

\* Sending may be over.
LEMMA SettledOK ==
  ASSUME NEW br \in [Networks -> Seq(Bridges)], NEW dep, NEW r \in Runs,
         RunOK(br, dep, r), r.stage = "send"
  PROVE  RunOK(br, dep, Settled(r))
<1>1. CASE \E n \in r.src : r.net[n].txns # <<>>
  <2>1. Settled(r) = r
    BY <1>1 DEF Settled
  <2> QED
    BY <2>1
<1>2. CASE ~ \E n \in r.src : r.net[n].txns # <<>>
  <2> DEFINE stage == IF r.errs = {} THEN "wired" ELSE "failed"
  <2>1. Settled(r) = Ended(r, stage) /\ stage \in {"idle", "failed", "wired"}
    BY <1>2 DEF Settled
  <2>2. ASSUME stage = "wired", NEW n \in r.src, r.quiet, dep[n] # 0
        PROVE  \A d \in Range(Reads(n)) : Met(br[n][dep[n]], d)
    <3>1. n \in Networks
      BY SrcIn
    <3>2. r.net[n].reads = <<>>
      BY <3>1 DEF RunOK, RunInv, Shape
    <3>3. r.errs = {}
      BY <2>2
    <3> QED
      BY <1>2, <2>2, <3>2, <3>3, DoneIsMet DEF Busy
  <2> HIDE DEF stage
  <2> QED
    BY <2>1, <2>2, EndedOK
<1> QED
  BY <1>1, <1>2

\* Who is not waited for has sent nothing that is not mined.
LEMMA EndedLinks ==
  ASSUME NEW mp, NEW o, NEW r \in Runs, NEW e, Links(mp, o, r),
         \A n \in Networks : ~r.net[n].waits
  PROVE  Links(mp, o, e)
BY DEF Links

LEMMA SettledLinks ==
  ASSUME NEW mp, NEW o, NEW r \in Runs, Links(mp, o, r),
         \A n \in Networks : Shape(n, r)
  PROVE  Links(mp, o, Settled(r))
<1>1. CASE \E n \in r.src : r.net[n].txns # <<>>
  <2>1. Settled(r) = r
    BY <1>1 DEF Settled
  <2> QED
    BY <2>1
<1>2. CASE ~ \E n \in r.src : r.net[n].txns # <<>>
  <2>1. ASSUME NEW n \in Networks PROVE ~r.net[n].waits
    BY <1>2, NotBegunIs DEF Shape
  <2> QED
    BY <2>1, EndedLinks
<1> QED
  BY <1>1, <1>2

-----------------------------------------------------------------------------
\* The steps that change nothing but one run.

LEMMA OneRun ==
  ASSUME WireInv, NEW o \in Operators, NEW r, run' = [run EXCEPT ![o] = r],
         UNCHANGED <<bridge, deployments, mempool>>,
         RunOK(bridge, deployments, r), Links(mempool, o, r)
  PROVE  WireInv'
<1>1. Typed /\ (\A p \in Operators : RunOK(bridge, deployments, run[p])
                                     /\ Links(mempool, p, run[p]))
      /\ \A n \in Networks : Once(mempool[n]) /\ FitToTrust(n, bridge[n], mempool[n])
  BY DEF WireInv
<1>2. run \in [Operators -> Runs]
  BY <1>1 DEF Typed
<1>3. r \in Runs
  BY DEF RunOK
<1>4. run' \in [Operators -> Runs] /\ run'[o] = r
      /\ \A p \in Operators : p # o => run'[p] = run[p]
  BY <1>2, <1>3
<1>5. bridge' = bridge /\ deployments' = deployments /\ mempool' = mempool
  OBVIOUS
<1>6. ASSUME NEW p \in Operators
      PROVE  RunOK(bridge, deployments, run'[p]) /\ Links(mempool, p, run'[p])
  BY <1>1, <1>4
<1>7. Typed'
  BY <1>1, <1>4, <1>5 DEF Typed
<1> QED
  BY <1>1, <1>5, <1>6, <1>7 DEF WireInv

LEMMA RunAt ==
  ASSUME WireInv, NEW o \in Operators
  PROVE  /\ run[o] \in Runs /\ RunOK(bridge, deployments, run[o])
         /\ Links(mempool, o, run[o])
         /\ \A n \in Networks : RunInv(n, bridge[n], deployments[n], run[o])
         /\ \A n \in Networks : Shape(n, run[o])
         /\ bridge \in [Networks -> Seq(Bridges)]
BY DEF WireInv, RunOK, RunInv, Typed

LEMMA StartStep ==
  ASSUME WireInv, NEW o \in Operators, Start(o) PROVE WireInv'
<1>1. PICK src \in SrcNetworks :
        run' = [run EXCEPT ![o] =
                  [stage |-> "plan", src |-> src, quiet |-> TRUE, errs |-> {},
                   net |-> [n \in Networks |->
                              [NotBegun EXCEPT !.reads = IF n \in src THEN Reads(n)
                                                         ELSE <<>>]]]]
  BY DEF Start
<1> DEFINE net == [n \in Networks |->
                     [NotBegun EXCEPT !.reads = IF n \in src THEN Reads(n) ELSE <<>>]]
           r == [stage |-> "plan", src |-> src, quiet |-> TRUE, errs |-> {}, net |-> net]
<1>2. src \subseteq Networks
  BY WireEvmAssumption
<1>3. ASSUME NEW n \in Networks
      PROVE  /\ net[n] \in Nets
             /\ net[n].contract = 0 /\ net[n].txns = <<>> /\ net[n].waits = FALSE
             /\ n \in src => net[n].reads = Reads(n)
             /\ n \notin src => net[n] = NotBegun
  <2>1. Reads(n) \in Seq(Settings) /\ <<>> \in Seq(Settings)
    BY ReadsAre
  <2> DEFINE reads == IF n \in src THEN Reads(n) ELSE <<>>
  <2>2. /\ reads \in Seq(Settings)
        /\ n \in src => reads = Reads(n)
        /\ n \notin src => reads = <<>>
    BY <2>1
  <2>3. net[n] = [NotBegun EXCEPT !.reads = reads]
    OBVIOUS
  <2> HIDE DEF net, reads
  <2>4. net[n] = [contract |-> 0, reads |-> reads, txns |-> <<>>, waits |-> FALSE]
    BY <2>3 DEF NotBegun
  <2>5. net[n] \in Nets
    <3>1. <<>> \in Seq(Good)
      OBVIOUS
    <3> QED
      BY <2>2, <2>4, <3>1 DEF Nets
  <2>6. /\ net[n].contract = 0 /\ net[n].txns = <<>> /\ net[n].waits = FALSE
        /\ net[n].reads = reads
    BY <2>4
  <2>7. n \notin src => net[n] = NotBegun
    BY <2>2, <2>4 DEF NotBegun
  <2> QED
    BY <2>2, <2>5, <2>6, <2>7
<1>4. net \in [Networks -> Nets]
  BY <1>3
<1> HIDE DEF net
<1>5. r \in Runs /\ r.stage = "plan" /\ r.src = src /\ r.quiet = TRUE /\ r.errs = {}
      /\ r.net = net
  BY <1>2, <1>4 DEF Runs, Stages
<1>6. run' = [run EXCEPT ![o] = r]
  BY <1>1 DEF net
<1> HIDE DEF r
<1>7. ASSUME NEW n \in Networks PROVE RunInv(n, bridge[n], deployments[n], r)
  <2>1. Shape(n, r)
    BY <1>3, <1>5 DEF Shape, Busy
  <2>2. NeedsFirst(n, bridge[n], r.net[n])
    <3>1. CASE n \in src
      <4>1. /\ r.net[n].txns = <<>> /\ r.net[n].reads = Reads(n)
        BY <1>3, <1>5, <3>1
      <4>3. 1 .. Len(<<>>) = {}
        OBVIOUS
      <4>2. \A i \in 1 .. Len(Reads(n)) :
              Reads(n)[i].methodName = "setTrustedRemote" =>
                \A d \in Needs(n) : \E j \in 1 .. i - 1 : Reads(n)[j] = d
        BY ReadsAre
      <4> QED
        BY <4>1, <4>2, <4>3 DEF NeedsFirst
    <3>2. CASE n \notin src
      BY <1>3, <1>5, <3>2, NotBegunNeeds
    <3> QED
      BY <3>1, <3>2
  <2>3. Pursued(n, bridge[n], deployments[n], r)
    BY <1>3, <1>5 DEF Pursued, Handled
  <2>4. bridge[n] \in Seq(Bridges)
    BY RunAt
  <2>5. r.net[n].contract <= Len(bridge[n])
    <3>1. Len(bridge[n]) \in Nat
      BY <2>4
    <3>2. r.net[n].contract = 0
      BY <1>3, <1>5
    <3> QED
      BY <3>1, <3>2
  <2> QED
    BY <2>5, <2>1, <2>2, <2>3, <2>4 DEF RunInv
<1>8. RunOK(bridge, deployments, r)
  BY <1>5, <1>7 DEF RunOK
<1>9. Links(mempool, o, r)
  <2>1. \A n \in Networks : ~run[o].net[n].waits
    BY RunAt DEF Start, Shape, Busy
  <2> QED
    BY <2>1, EndedLinks, RunAt
<1> QED
  BY <1>6, <1>8, <1>9, OneRun DEF Start

LEMMA NoDeploymentStep ==
  ASSUME WireInv, NEW o \in Operators, NEW n \in Networks, NoDeployment(o, n) PROVE WireInv'
<1> DEFINE r == Ended(run[o], "failed")
<1>1. run' = [run EXCEPT ![o] = r] /\ UNCHANGED <<bridge, deployments, mempool>>
      /\ run[o].stage = "plan"
  BY DEF NoDeployment, Only
<1>2. RunOK(bridge, deployments, r)
  BY RunAt, EndedOK
<1>3. Links(mempool, o, r)
  <2>1. \A m \in Networks : ~run[o].net[m].waits
    BY <1>1, RunAt DEF Shape
  <2> QED
    BY <2>1, EndedLinks, RunAt
<1> HIDE DEF r
<1> QED
  BY <1>1, <1>2, <1>3, OneRun

LEMMA AbortStep ==
  ASSUME WireInv, NEW o \in Operators, Abort(o) PROVE WireInv'
<1> DEFINE r == Ended(run[o], "idle")
<1>1. run' = [run EXCEPT ![o] = r] /\ UNCHANGED <<bridge, deployments, mempool>>
      /\ run[o].stage = "prompt"
  BY DEF Abort, Only
<1>2. RunOK(bridge, deployments, r)
  BY RunAt, EndedOK
<1>3. Links(mempool, o, r)
  <2>1. \A m \in Networks : ~run[o].net[m].waits
    BY <1>1, RunAt DEF Shape
  <2> QED
    BY <2>1, EndedLinks, RunAt
<1> HIDE DEF r
<1> QED
  BY <1>1, <1>2, <1>3, OneRun

LEMMA ProceedStep ==
  ASSUME WireInv, NEW o \in Operators, Proceed(o) PROVE WireInv'
<1> DEFINE r == run[o]
           e == [r EXCEPT !.stage = "send"]
<1>1. run' = [run EXCEPT ![o] = e] /\ UNCHANGED <<bridge, deployments, mempool>>
      /\ r.stage = "prompt"
  BY DEF Proceed, Only
<1>2. e \in Runs /\ e.stage = "send" /\ e.src = r.src /\ e.quiet = r.quiet
      /\ e.errs = r.errs /\ e.net = r.net
  BY RunAt DEF Runs, Stages
<1> HIDE DEF e
<1>3. ASSUME NEW n \in Networks PROVE RunInv(n, bridge[n], deployments[n], e)
  <2>1. RunInv(n, bridge[n], deployments[n], r)
    BY RunAt
  <2>2. Shape(n, e)
    BY <1>1, <1>2, <2>1 DEF RunInv, Shape, Busy
  <2>3. Pursued(n, bridge[n], deployments[n], e)
    BY <1>1, <1>2, <2>1 DEF RunInv, Pursued, Busy
  <2> QED
    BY <1>2, <2>1, <2>2, <2>3 DEF RunInv
<1>4. RunOK(bridge, deployments, e)
  BY <1>2, <1>3 DEF RunOK
<1>5. Links(mempool, o, e)
  BY <1>2, RunAt DEF Links
<1> QED
  BY <1>1, <1>4, <1>5, OneRun

-----------------------------------------------------------------------------
\* A setting is read.

\* The plan after a read.
Read(b, contract, w) ==
  [w EXCEPT !.contract = contract, !.reads = Tail(w.reads),
            !.txns = w.txns \o Diff(b, Head(w.reads))]

LEMMA ReadIs ==
  ASSUME NEW b \in Bridges, NEW contract \in Nat, NEW w \in Nets, w.reads # <<>>
  PROVE  LET v == Read(b, contract, w)
             d == Head(w.reads)
         IN  /\ v \in Nets /\ v.contract = contract /\ v.reads = Tail(w.reads)
             /\ v.waits = w.waits /\ d \in Settings
             /\ Met(b, d) => v.txns = w.txns
             /\ ~Met(b, d) =>
                  /\ Len(v.txns) = Len(w.txns) + 1
                  /\ v.txns[Len(w.txns) + 1] = Meant(d)
                  /\ \A i \in 1 .. Len(w.txns) : v.txns[i] = w.txns[i]
             /\ Range(w.txns) \subseteq Range(v.txns)
             /\ Met(b, d) \/ Meant(d) \in Range(v.txns)
<1> DEFINE v == Read(b, contract, w)
           d == Head(w.reads)
           t == Diff(b, d)
<1>1. w.reads \in Seq(Settings) /\ w.txns \in Seq(Good)
  BY DEF Nets
<1>2. d \in Settings /\ Tail(w.reads) \in Seq(Settings)
  BY <1>1, RangeOfTail
<1>3. Meant(d) \in Good
  BY <1>2, MeantIsGood
<1>4. t = IF Met(b, d) THEN <<>> ELSE <<Meant(d)>>
  BY <1>2, DiffIs
<1>5. t \in Seq(Good) /\ (~Met(b, d) => Range(t) = {Meant(d)} /\ Len(t) = 1 /\ t[1] = Meant(d))
  <2> DEFINE x == Meant(d)
  <2> HIDE DEF x
  <2>1. x \in Good /\ t = IF Met(b, d) THEN <<>> ELSE <<x>>
    BY <1>3, <1>4 DEF x
  <2>2. <<x>> \in Seq(Good) /\ Range(<<x>>) = {x} /\ <<>> \in Seq(Good)
    BY <2>1, RangeOfOne
  <2>3. Len(<<x>>) = 1 /\ <<x>>[1] = x
    OBVIOUS
  <2>4. CASE Met(b, d)
    BY <2>1, <2>2, <2>4
  <2>5. CASE ~Met(b, d)
    <3>1. t = <<x>>
      BY <2>1, <2>5
    <3> QED
      BY <2>2, <2>3, <3>1 DEF x
  <2> QED
    BY <2>4, <2>5
<1>6. v = [w EXCEPT !.contract = contract, !.reads = Tail(w.reads), !.txns = w.txns \o t]
  BY DEF Read
<1> HIDE DEF v, d, t
<1> DEFINE u == w.txns \o t
<1>7. /\ u \in Seq(Good) /\ Range(u) = Range(w.txns) \union Range(t)
      /\ Len(u) = Len(w.txns) + Len(t)
      /\ \A i \in 1 .. Len(w.txns) : u[i] = w.txns[i]
      /\ \A i \in 1 .. Len(t) : u[Len(w.txns) + i] = t[i]
  <2>1. \A x, y \in Seq(Good) :
          /\ x \o y \in Seq(Good) /\ Range(x \o y) = Range(x) \union Range(y)
          /\ Len(x \o y) = Len(x) + Len(y)
          /\ \A i \in 1 .. Len(x) : (x \o y)[i] = x[i]
          /\ \A i \in 1 .. Len(y) : (x \o y)[Len(x) + i] = y[i]
    BY RangeOfTwo
  <2> QED
    BY <1>1, <1>5, <2>1, Zenon
<1>8. Met(b, d) => u = w.txns
  BY <1>1, <1>4
<1> HIDE DEF u
<1>9. v = [w EXCEPT !.contract = contract, !.reads = Tail(w.reads), !.txns = u]
  BY <1>6 DEF u
<1>10. v \in Nets /\ v.contract = contract /\ v.reads = Tail(w.reads) /\ v.waits = w.waits
       /\ v.txns = u
  BY <1>2, <1>7, <1>9 DEF Nets
<1>11. ~Met(b, d) => /\ Len(u) = Len(w.txns) + 1
                     /\ u[Len(w.txns) + 1] = Meant(d)
                     /\ Meant(d) \in Range(u)
  <2> SUFFICES ASSUME ~Met(b, d)
               PROVE  /\ Len(u) = Len(w.txns) + 1
                      /\ u[Len(w.txns) + 1] = Meant(d)
                      /\ Meant(d) \in Range(u)
    OBVIOUS
  <2>1. Range(t) = {Meant(d)} /\ Len(t) = 1 /\ t[1] = Meant(d)
    BY <1>5
  <2>2. 1 \in 1 .. Len(t)
    BY <2>1
  <2>3. u[Len(w.txns) + 1] = t[1]
    BY <1>7, <2>2
  <2> QED
    BY <1>7, <2>1, <2>3
<1>12. Range(w.txns) \subseteq Range(u)
  BY <1>7
<1>13. /\ v \in Nets /\ v.contract = contract /\ v.reads = Tail(w.reads)
       /\ v.waits = w.waits /\ d \in Settings
       /\ Met(b, d) => v.txns = w.txns
       /\ ~Met(b, d) =>
            /\ Len(v.txns) = Len(w.txns) + 1
            /\ v.txns[Len(w.txns) + 1] = Meant(d)
            /\ \A i \in 1 .. Len(w.txns) : v.txns[i] = w.txns[i]
       /\ Range(w.txns) \subseteq Range(v.txns)
       /\ Met(b, d) \/ Meant(d) \in Range(v.txns)
  BY <1>2, <1>7, <1>8, <1>10, <1>11, <1>12
<1> QED
  BY <1>13 DEF v, d

LEMMA ReadNeedsFirst ==
  ASSUME NEW n \in Networks, NEW bs \in Seq(Bridges), NEW w \in Nets, w.reads # <<>>,
         NEW contract \in 1 .. Len(bs), w.contract # 0 => contract = w.contract,
         w.txns # <<>> => w.contract # 0, NeedsFirst(n, bs, w)
  PROVE  NeedsFirst(n, bs, Read(bs[contract], contract, w))
<1> DEFINE b == bs[contract]
           v == Read(b, contract, w)
           d == Head(w.reads)
<1>1. b \in Bridges /\ contract \in Nat
  OBVIOUS
<1>2. /\ v \in Nets /\ v.contract = contract /\ v.reads = Tail(w.reads) /\ d \in Settings
      /\ Met(b, d) => v.txns = w.txns
      /\ ~Met(b, d) =>
           /\ Len(v.txns) = Len(w.txns) + 1
           /\ v.txns[Len(w.txns) + 1] = Meant(d)
           /\ \A i \in 1 .. Len(w.txns) : v.txns[i] = w.txns[i]
      /\ Range(w.txns) \subseteq Range(v.txns)
      /\ Met(b, d) \/ Meant(d) \in Range(v.txns)
  BY <1>1, ReadIs
<1>3. w.reads \in Seq(Settings) /\ w.txns \in Seq(Good) /\ Len(w.txns) \in Nat
  BY DEF Nets
<1> HIDE DEF v
<1>4. /\ Len(w.reads) \in Nat /\ Len(w.reads) # 0 /\ Len(v.reads) = Len(w.reads) - 1
      /\ d = w.reads[1] /\ \A i \in 1 .. Len(w.reads) - 1 : v.reads[i] = w.reads[i + 1]
  BY <1>2, <1>3, RangeOfTail
<1> HIDE DEF d
<1>5. ASSUME NEW i \in 1 .. Len(w.txns), w.txns[i].methodName = "setTrustedRemote",
             NEW c \in Needs(n)
      PROVE  Met(bs[contract], c) \/ \E j \in 1 .. i - 1 : w.txns[j] = c
  <2>1. w.contract = contract
    BY <1>3
  <2> QED
    BY <1>5, <2>1 DEF NeedsFirst
<1>6. ASSUME NEW i \in 1 .. Len(w.reads), w.reads[i].methodName = "setTrustedRemote",
             NEW c \in Needs(n)
      PROVE  \/ Met(bs[contract], c)
             \/ c \in Range(w.txns)
             \/ \E j \in 1 .. i - 1 : w.reads[j] = c
  BY <1>6 DEF NeedsFirst
<1>7. ASSUME NEW i \in 1 .. Len(v.txns), v.txns[i].methodName = "setTrustedRemote",
             NEW c \in Needs(n)
      PROVE  Met(bs[contract], c) \/ \E j \in 1 .. i - 1 : v.txns[j] = c
  <2>1. CASE i \in 1 .. Len(w.txns)
    <3>1. v.txns[i] = w.txns[i] /\ \A j \in 1 .. i - 1 : v.txns[j] = w.txns[j]
      <4>1. \A k \in 1 .. Len(w.txns) : v.txns[k] = w.txns[k]
        BY <1>2
      <4>2. \A j \in 1 .. i - 1 : j \in 1 .. Len(w.txns)
        BY <1>3, <2>1
      <4> QED
        BY <2>1, <4>1, <4>2
    <3> QED
      BY <1>5, <1>7, <2>1, <3>1
  <2>2. CASE i \notin 1 .. Len(w.txns)
    <3>1. ~Met(b, d) /\ i = Len(w.txns) + 1 /\ v.txns[i] = Meant(d)
      BY <1>2, <1>3, <2>2
    <3>2. w.reads[1].methodName = "setTrustedRemote"
      BY <1>2, <1>4, <1>7, <3>1, MeantIs
    <3>3. 1 \in 1 .. Len(w.reads) /\ 1 .. 1 - 1 = {}
      BY <1>4
    <3>4. Met(bs[contract], c) \/ c \in Range(w.txns)
      BY <1>6, <3>2, <3>3
    <3>5. c \in Range(w.txns) => \E j \in 1 .. i - 1 : v.txns[j] = c
      <4>1. ASSUME c \in Range(w.txns) PROVE \E j \in 1 .. i - 1 : v.txns[j] = c
        <5>1. PICK j \in 1 .. Len(w.txns) : w.txns[j] = c
          BY <1>3, <4>1, RangeIn
        <5>2. j \in 1 .. i - 1
          BY <1>3, <3>1
        <5> QED
          BY <1>2, <3>1, <5>1, <5>2
      <4> QED
        BY <4>1
    <3> QED
      BY <3>4, <3>5
  <2> QED
    BY <2>1, <2>2
<1>8. ASSUME NEW i \in 1 .. Len(v.reads), v.reads[i].methodName = "setTrustedRemote",
             NEW c \in Needs(n)
      PROVE  \/ contract # 0 /\ Met(bs[contract], c)
             \/ c \in Range(v.txns)
             \/ \E j \in 1 .. i - 1 : v.reads[j] = c
  <2>1. i + 1 \in 1 .. Len(w.reads) /\ v.reads[i] = w.reads[i + 1] /\ (i + 1) - 1 = i
        /\ i \in Nat
    BY <1>4
  <2>2. \/ Met(bs[contract], c)
        \/ c \in Range(w.txns)
        \/ \E j \in 1 .. i : w.reads[j] = c
    BY <1>6, <1>8, <2>1
  <2>3. ASSUME NEW j \in 1 .. i, w.reads[j] = c
        PROVE  \/ Met(bs[contract], c)
               \/ c \in Range(v.txns)
               \/ \E k \in 1 .. i - 1 : v.reads[k] = c
    <3>1. CASE j = 1
      <4>1. Meant(c) = c
        BY NeedsAre
      <4> QED
        BY <1>2, <1>4, <2>3, <3>1, <4>1
    <3>2. CASE j # 1
      <4>1. j - 1 \in 1 .. i - 1 /\ j - 1 \in 1 .. Len(w.reads) - 1 /\ (j - 1) + 1 = j
        <5> DEFINE a == Len(w.reads)
        <5>1. i \in Nat /\ i + 1 \in 1 .. a /\ a \in Nat
          BY <1>4, <2>1
        <5> HIDE DEF a
        <5>2. j \in Nat /\ 1 < j /\ j <= i /\ i + 1 <= a
          BY <3>2, <5>1
        <5>3. j - 1 \in 1 .. i - 1 /\ j - 1 \in 1 .. a - 1 /\ (j - 1) + 1 = j
          BY <5>1, <5>2
        <5> QED
          BY <5>3 DEF a
      <4>2. v.reads[j - 1] = c
        BY <1>4, <2>3, <4>1
      <4> QED
        BY <4>1, <4>2
    <3> QED
      BY <3>1, <3>2
  <2> QED
    BY <1>2, <2>2, <2>3
<1>9. NeedsFirst(n, bs, v)
  BY <1>2, <1>7, <1>8 DEF NeedsFirst
<1> QED
  BY <1>9 DEF v

LEMMA ReadHandled ==
  ASSUME NEW bs \in Seq(Bridges), NEW w \in Nets, w.reads # <<>>,
         NEW contract \in 1 .. Len(bs), w.contract # 0 => contract = w.contract,
         NEW d, Handled(bs, w, d)
  PROVE  Handled(bs, Read(bs[contract], contract, w), d)
<1> DEFINE v == Read(bs[contract], contract, w)
<1>1. bs[contract] \in Bridges /\ contract \in Nat /\ contract # 0
  OBVIOUS
<1>2. /\ v.contract = contract /\ v.reads = Tail(w.reads)
      /\ Range(w.txns) \subseteq Range(v.txns)
      /\ Met(bs[contract], Head(w.reads)) \/ Meant(Head(w.reads)) \in Range(v.txns)
  BY <1>1, ReadIs
<1>3. \A x \in Range(w.reads) : x = Head(w.reads) \/ x \in Range(Tail(w.reads))
  <2>1. w.reads \in Seq(Settings)
    BY DEF Nets
  <2> QED
    BY <2>1, RangeOfTail
<1> HIDE DEF v
<1>4. Handled(bs, v, d)
  BY <1>1, <1>2, <1>3 DEF Handled
<1> QED
  BY <1>4 DEF v

LEMMA ReadNextStep ==
  ASSUME WireInv, NEW o \in Operators, NEW n \in Networks, ReadNext(o, n) PROVE WireInv'
<1> DEFINE r == run[o]
           w == r.net[n]
           contract == IF w.contract = 0 THEN deployments[n] ELSE w.contract
           v == Read(bridge[n][contract], contract, w)
           q == [r EXCEPT !.net[n] = v]
<1>1. /\ r.stage = "plan" /\ w.reads # <<>> /\ contract # 0
      /\ run' = [run EXCEPT ![o] = Planned(q)]
      /\ UNCHANGED <<bridge, deployments, mempool>>
  BY DEF ReadNext, Only, Read
<1>2. r \in Runs /\ RunInv(n, bridge[n], deployments[n], r) /\ w \in Nets
      /\ bridge[n] \in Seq(Bridges) /\ Links(mempool, o, r)
  BY RunAt, NetTyped
<1>3. Shape(n, r) /\ w.contract <= Len(bridge[n]) /\ NeedsFirst(n, bridge[n], w)
      /\ Pursued(n, bridge[n], deployments[n], r)
  BY <1>2 DEF RunInv
<1>4. contract \in 1 .. Len(bridge[n]) /\ (w.contract # 0 => contract = w.contract)
      /\ (contract = w.contract \/ contract = deployments[n])
  <2>1. deployments[n] \in Nat /\ deployments[n] <= Len(bridge[n]) /\ Len(bridge[n]) \in Nat
    BY <1>2 DEF WireInv, Typed
  <2>2. w.contract \in Nat
    BY <1>2 DEF Nets
  <2> QED
    BY <1>1, <1>3, <2>1, <2>2
<1>5. bridge[n][contract] \in Bridges /\ contract \in Nat /\ contract <= Len(bridge[n])
  BY <1>2, <1>4
<1> HIDE DEF contract
<1>6. v \in Nets /\ v.contract = contract /\ v.reads = Tail(w.reads) /\ v.waits = w.waits
  BY <1>1, <1>2, <1>5, ReadIs
<1>7. NeedsFirst(n, bridge[n], v)
  BY <1>1, <1>2, <1>3, <1>4, ReadNeedsFirst DEF Shape
<1>8. \A d : Handled(bridge[n], w, d) => Handled(bridge[n], v, d)
  BY <1>1, <1>2, <1>4, ReadHandled
<1> HIDE DEF v
<1>9. q \in Runs /\ q.stage = "plan" /\ q.src = r.src /\ q.quiet = r.quiet
      /\ q.errs = r.errs /\ q.net[n] = v /\ \A m \in Networks : m # n => q.net[m] = r.net[m]
  <2>1. r.net \in [Networks -> Nets]
    BY <1>2 DEF Runs
  <2>2. [r.net EXCEPT ![n] = v] \in [Networks -> Nets]
    BY <1>6, <2>1
  <2>3. q = [r EXCEPT !.net = [r.net EXCEPT ![n] = v]]
    OBVIOUS
  <2> QED
    BY <1>1, <1>2, <2>1, <2>2, <2>3 DEF Runs
<1> HIDE DEF q
<1>10. n \in r.src /\ ~w.waits /\ r.errs = {}
  BY <1>1, <1>3, NotBegunIs DEF Shape
<1>11. RunInv(n, bridge[n], deployments[n], q)
  <2>1. Shape(n, q)
    BY <1>1, <1>4, <1>6, <1>9, <1>10 DEF Shape, Busy
  <2>2. Pursued(n, bridge[n], deployments[n], q)
    BY <1>1, <1>3, <1>4, <1>6, <1>8, <1>9 DEF Pursued, Busy
  <2> QED
    BY <1>5, <1>6, <1>7, <1>9, <2>1, <2>2 DEF RunInv
<1>12. ASSUME NEW m \in Networks, m # n
       PROVE  RunInv(m, bridge[m], deployments[m], q)
  <2>1. RunInv(m, bridge[m], deployments[m], r)
    BY RunAt
  <2>2. Shape(m, q) /\ Pursued(m, bridge[m], deployments[m], q)
    BY <1>1, <1>9, <1>12, <2>1 DEF RunInv, Shape, Pursued
  <2> QED
    BY <1>9, <1>12, <2>1, <2>2 DEF RunInv
<1>13. RunOK(bridge, deployments, q)
  BY <1>9, <1>11, <1>12 DEF RunOK
<1>14. RunOK(bridge, deployments, Planned(q))
  BY <1>9, <1>13, PlannedOK, RunAt
<1>15. Links(mempool, o, Planned(q))
  <2>1. \A m \in Networks : ~r.net[m].waits
    BY <1>1, RunAt DEF Shape
  <2> QED
    BY <1>2, <2>1, EndedLinks
<1> QED
  BY <1>1, <1>14, <1>15, OneRun

-----------------------------------------------------------------------------
\* Sending: what becomes of a run.

\* A run with other errors and another network.
NetTo(r, errs, n, v) == [r EXCEPT !.errs = errs, !.net = [r.net EXCEPT ![n] = v]]

LEMMA NetSet ==
  ASSUME NEW r \in Runs, NEW n \in Networks, NEW v \in Nets, NEW errs \in SUBSET Networks
  PROVE  LET q == NetTo(r, errs, n, v)
         IN  /\ q \in Runs /\ q.stage = r.stage /\ q.src = r.src /\ q.quiet = r.quiet
             /\ q.errs = errs /\ q.net[n] = v
             /\ \A m \in Networks : m # n => q.net[m] = r.net[m]
<1>1. r.net \in [Networks -> Nets]
  BY DEF Runs
<1> DEFINE net == [r.net EXCEPT ![n] = v]
           q == NetTo(r, errs, n, v)
<1>2. net \in [Networks -> Nets] /\ net[n] = v
      /\ \A m \in Networks : m # n => net[m] = r.net[m]
  BY <1>1
<1>3. q = [r EXCEPT !.errs = errs, !.net = net]
  BY DEF NetTo
<1> HIDE DEF net, q
<1>4. q \in Runs /\ q.stage = r.stage /\ q.src = r.src /\ q.quiet = r.quiet
      /\ q.errs = errs /\ q.net = net
  BY <1>2, <1>3 DEF Runs
<1> QED
  BY <1>2, <1>4 DEF q

\* The other networks of a run stay as they are, as long as errs says so.
LEMMA OtherNets ==
  ASSUME NEW br, NEW dep, NEW r \in Runs, NEW q, NEW n, RunOK(br, dep, r),
         q.stage = r.stage, q.src = r.src, q.quiet = r.quiet,
         \A m \in Networks : m # n => q.net[m] = r.net[m],
         r.stage = "send", \A m \in Networks : m # n => (m \in q.errs <=> m \in r.errs),
         NEW m \in Networks, m # n
  PROVE  RunInv(m, br[m], dep[m], q)
<1>1. RunInv(m, br[m], dep[m], r)
  BY DEF RunOK
<1>2. Shape(m, q)
  BY <1>1 DEF RunInv, Shape
<1>3. Pursued(m, br[m], dep[m], q)
  BY <1>1 DEF RunInv, Pursued
<1> QED
  BY <1>1, <1>2, <1>3 DEF RunInv

LEMMA BrokenOK ==
  ASSUME NEW br \in [Networks -> Seq(Bridges)], NEW dep, NEW r, RunOK(br, dep, r),
         r.stage = "send", NEW n \in Networks, r.net[n].txns # <<>>,
         NEW mp, NEW o, Links(mp, o, r), \A i \in 1 .. Len(mp[n]) : mp[n][i].from # o
  PROVE  RunOK(br, dep, Broken(r, n)) /\ Links(mp, o, Broken(r, n))
<1> DEFINE w == r.net[n]
           v == [w EXCEPT !.waits = FALSE, !.txns = <<>>]
           errs == r.errs \union {n}
           q == NetTo(r, errs, n, v)
<1>1. r \in Runs /\ \A m \in Networks : RunInv(m, br[m], dep[m], r)
  BY DEF RunOK
<1>2. w \in Nets /\ errs \in SUBSET Networks /\ Shape(n, r) /\ w.contract <= Len(br[n])
  BY <1>1, NetTyped DEF RunInv
<1>3. v \in Nets /\ v.contract = w.contract /\ v.reads = w.reads /\ v.txns = <<>>
      /\ v.waits = FALSE
  <2>1. <<>> \in Seq(Good)
    OBVIOUS
  <2> QED
    BY <1>2, <2>1 DEF Nets
<1>4. Broken(r, n) = Settled(q)
  <2> DEFINE q0 == [r EXCEPT !.errs = r.errs \union {n},
                    !.net[n].waits = FALSE, !.net[n].txns = <<>>]
  <2>1. Broken(r, n) = Settled(q0)
    BY DEF Broken
  <2>2. r.net \in [Networks -> Nets]
    BY <1>1 DEF Runs
  <2>3. q0 = [r EXCEPT !.errs = errs,
                !.net = [[r.net EXCEPT ![n] = [r.net[n] EXCEPT !.waits = FALSE]] EXCEPT ![n] =
                   [[r.net EXCEPT ![n] = [r.net[n] EXCEPT !.waits = FALSE]][n]
                      EXCEPT !.txns = <<>>]]]
    BY <1>1 DEF Runs
  <2>4. [[r.net EXCEPT ![n] = [r.net[n] EXCEPT !.waits = FALSE]] EXCEPT ![n] =
           [[r.net EXCEPT ![n] = [r.net[n] EXCEPT !.waits = FALSE]][n] EXCEPT !.txns = <<>>]]
        = [r.net EXCEPT ![n] = v]
    BY <2>2
  <2>5. q0 = q
    BY <2>3, <2>4 DEF NetTo
  <2> QED
    BY <2>1, <2>5
<1> HIDE DEF v, errs
<1>5. /\ q \in Runs /\ q.stage = r.stage /\ q.src = r.src /\ q.quiet = r.quiet
      /\ q.errs = errs /\ q.net[n] = v
      /\ \A m \in Networks : m # n => q.net[m] = r.net[m]
  BY <1>1, <1>2, <1>3, NetSet
<1> HIDE DEF q
<1>6. n \in r.src /\ n \in errs
  BY <1>2, NotBegunIs DEF Shape, errs
<1>7. RunInv(n, br[n], dep[n], q)
  <2>1. Shape(n, q)
    BY <1>2, <1>3, <1>5, <1>6 DEF Shape, Busy
  <2>2. NeedsFirst(n, br[n], v)
    <3>1. v.reads = <<>> /\ v.txns = <<>>
      BY <1>2, <1>3 DEF Shape
    <3>2. 1 .. Len(<<>>) = {}
      OBVIOUS
    <3> QED
      BY <3>1, <3>2 DEF NeedsFirst
  <2>3. Pursued(n, br[n], dep[n], q)
    BY <1>1, <1>3, <1>5, <1>6 DEF RunInv, Pursued, Busy
  <2> QED
    BY <1>2, <1>3, <1>5, <2>1, <2>2, <2>3 DEF RunInv
<1>8. ASSUME NEW m \in Networks, m # n PROVE RunInv(m, br[m], dep[m], q)
  <2>1. \A k \in Networks : k # n => (k \in q.errs <=> k \in r.errs)
    BY <1>5 DEF errs
  <2> QED
    BY <1>1, <1>5, <1>8, <2>1, OtherNets
<1>9. RunOK(br, dep, q)
  BY <1>5, <1>7, <1>8 DEF RunOK
<1>10. RunOK(br, dep, Settled(q))
  BY <1>5, <1>9, SettledOK
<1>11. Links(mp, o, q)
  BY <1>5 DEF Links
<1>12. Links(mp, o, Settled(q))
  BY <1>5, <1>9, <1>11, SettledLinks DEF RunOK, RunInv
<1> QED
  BY <1>4, <1>10, <1>12

LEMMA SentNeedsFirst ==
  ASSUME NEW n \in Networks, NEW bs, NEW w \in Nets, NEW v \in Nets, w.txns # <<>>,
         v.contract = w.contract, v.reads = <<>>, v.txns = Tail(w.txns),
         NeedsFirst(n, bs, w),
         \A d \in Settings : Meant(d) = Head(w.txns) => Met(bs[w.contract], d)
  PROVE  NeedsFirst(n, bs, v)
<1>1. w.txns \in Seq(Good)
  BY DEF Nets
<1>2. /\ Len(v.txns) = Len(w.txns) - 1 /\ Len(w.txns) \in Nat
      /\ Head(w.txns) = w.txns[1]
      /\ \A i \in 1 .. Len(w.txns) - 1 : v.txns[i] = w.txns[i + 1]
  BY <1>1, RangeOfTail
<1>3. ASSUME NEW i \in 1 .. Len(v.txns), v.txns[i].methodName = "setTrustedRemote",
             NEW d \in Needs(n), ~ Met(bs[v.contract], d)
      PROVE  \E j \in 1 .. i - 1 : v.txns[j] = d
  <2>1. i + 1 \in 1 .. Len(w.txns) /\ v.txns[i] = w.txns[i + 1] /\ (i + 1) - 1 = i
        /\ i \in Nat
    BY <1>2
  <2>2. PICK j \in 1 .. i : w.txns[j] = d
    BY <1>3, <2>1 DEF NeedsFirst
  <2>3. j # 1
    BY <1>2, <1>3, <2>2, NeedsAre
  <2>4. j - 1 \in 1 .. i - 1 /\ j - 1 \in 1 .. Len(w.txns) - 1 /\ (j - 1) + 1 = j
    BY <1>2, <2>1, <2>3
  <2> QED
    BY <1>2, <2>2, <2>4
<1>4. 1 .. Len(<<>>) = {}
  OBVIOUS
<1> QED
  BY <1>3, <1>4 DEF NeedsFirst

LEMMA SentOK ==
  ASSUME NEW br \in [Networks -> Seq(Bridges)], NEW dep, NEW r, RunOK(br, dep, r),
         r.stage = "send", NEW n \in Networks, r.net[n].txns # <<>>,
         \A d \in Settings : Meant(d) = Head(r.net[n].txns) => Met(br[n][r.net[n].contract], d),
         NEW mp, NEW o, Links(mp, o, r), \A i \in 1 .. Len(mp[n]) : mp[n][i].from # o
  PROVE  RunOK(br, dep, Sent(r, n)) /\ Links(mp, o, Sent(r, n))
<1> DEFINE w == r.net[n]
           v == [w EXCEPT !.waits = FALSE, !.txns = Tail(w.txns)]
           q == NetTo(r, r.errs, n, v)
<1>1. r \in Runs /\ \A m \in Networks : RunInv(m, br[m], dep[m], r)
  BY DEF RunOK
<1>2. w \in Nets /\ r.errs \in SUBSET Networks /\ Shape(n, r) /\ w.contract <= Len(br[n])
      /\ NeedsFirst(n, br[n], w) /\ Pursued(n, br[n], dep[n], r)
  BY <1>1, NetTyped DEF RunInv
<1>r. w.txns \in Seq(Good)
  BY <1>2 DEF Nets
<1>3. v \in Nets /\ v.contract = w.contract /\ v.reads = w.reads /\ v.txns = Tail(w.txns)
      /\ v.waits = FALSE
  <2>1. Tail(w.txns) \in Seq(Good)
    BY <1>r, RangeOfTail
  <2> QED
    BY <1>2, <2>1 DEF Nets
<1>4. Sent(r, n) = Settled(q)
  <2> DEFINE q0 == [r EXCEPT !.net[n].waits = FALSE, !.net[n].txns = Tail(@)]
             net1 == [r.net EXCEPT ![n] = [r.net[n] EXCEPT !.waits = FALSE]]
  <2>1. Sent(r, n) = Settled(q0)
    BY DEF Sent
  <2>2. r.net \in [Networks -> Nets]
    BY <1>1 DEF Runs
  <2>3. q0 = [r EXCEPT !.net = [net1 EXCEPT ![n] = [net1[n] EXCEPT !.txns = Tail(net1[n].txns)]]]
    BY <1>1 DEF Runs
  <2>4. net1[n] = [w EXCEPT !.waits = FALSE] /\ net1[n].txns = w.txns
    BY <1>2, <2>2 DEF Nets
  <2>5. [net1 EXCEPT ![n] = [net1[n] EXCEPT !.txns = Tail(net1[n].txns)]]
        = [r.net EXCEPT ![n] = v]
    BY <2>2, <2>4
  <2> HIDE DEF net1
  <2>6. q0 = q
    BY <1>1, <2>3, <2>5 DEF Runs, NetTo
  <2> QED
    BY <2>1, <2>6
<1> HIDE DEF v
<1>5. /\ q \in Runs /\ q.stage = r.stage /\ q.src = r.src /\ q.quiet = r.quiet
      /\ q.errs = r.errs /\ q.net[n] = v
      /\ \A m \in Networks : m # n => q.net[m] = r.net[m]
  BY <1>1, <1>2, <1>3, NetSet
<1> HIDE DEF q
<1>6. n \in r.src /\ w.contract # 0 /\ w.reads = <<>>
  BY <1>2, NotBegunIs DEF Shape
<1>7. RunInv(n, br[n], dep[n], q)
  <2>1. Shape(n, q)
    BY <1>2, <1>3, <1>5, <1>6 DEF Shape, Busy
  <2>2. NeedsFirst(n, br[n], v)
    BY <1>2, <1>3, <1>6, SentNeedsFirst
  <2>3. Pursued(n, br[n], dep[n], q)
    <3>1. \A x \in Range(w.txns) : x = Head(w.txns) \/ x \in Range(Tail(w.txns))
      BY <1>r, RangeOfTail
    <3>2. ASSUME NEW d \in Range(Reads(n)), Handled(br[n], w, d)
          PROVE  Handled(br[n], v, d)
      <4>1. d \in Settings
        BY RangeIn, ReadsAre
      <4> QED
        BY <1>3, <1>6, <3>1, <3>2, <4>1 DEF Handled
    <3> QED
      BY <1>2, <1>3, <1>5, <3>2 DEF Pursued
  <2> QED
    BY <1>2, <1>3, <1>5, <2>1, <2>2, <2>3 DEF RunInv
<1>8. ASSUME NEW m \in Networks, m # n PROVE RunInv(m, br[m], dep[m], q)
  BY <1>1, <1>5, <1>8, OtherNets
<1>9. RunOK(br, dep, q)
  BY <1>5, <1>7, <1>8 DEF RunOK
<1>10. RunOK(br, dep, Settled(q))
  BY <1>5, <1>9, SettledOK
<1>11. Links(mp, o, q)
  BY <1>5 DEF Links
<1>12. Links(mp, o, Settled(q))
  BY <1>5, <1>9, <1>11, SettledLinks DEF RunOK, RunInv
<1> QED
  BY <1>4, <1>10, <1>12

-----------------------------------------------------------------------------
\* Sending: the steps.

LEMMA QueueTyped ==
  ASSUME WireInv, NEW n \in Networks
  PROVE  /\ mempool \in [Networks -> Seq(Txs)] /\ mempool[n] \in Seq(Txs)
         /\ Once(mempool[n]) /\ FitToTrust(n, bridge[n], mempool[n])
         /\ bridge \in [Networks -> Seq(Bridges)] /\ bridge[n] \in Seq(Bridges)
         /\ Len(bridge[n]) \in Nat /\ Len(mempool[n]) \in Nat
         /\ \A i \in 1 .. Len(mempool[n]) : /\ mempool[n][i] \in Txs
                                            /\ mempool[n][i].contract \in 1 .. Len(bridge[n])
                                            /\ mempool[n][i].call \in Good
         /\ run \in [Operators -> Runs]
         /\ deployments[n] \in Nat /\ deployments[n] <= Len(bridge[n])
<1>1. Typed /\ Once(mempool[n]) /\ FitToTrust(n, bridge[n], mempool[n])
  BY DEF WireInv
<1>2. /\ mempool \in [Networks -> Seq(Txs)] /\ bridge \in [Networks -> Seq(Bridges)]
      /\ \A i \in 1 .. Len(mempool[n]) : mempool[n][i].contract \in 1 .. Len(bridge[n])
      /\ run \in [Operators -> Runs] /\ deployments[n] \in Nat
      /\ deployments[n] <= Len(bridge[n])
  BY <1>1 DEF Typed
<1>3. mempool[n] \in Seq(Txs) /\ bridge[n] \in Seq(Bridges)
  BY <1>2
<1>4. \A i \in 1 .. Len(mempool[n]) : mempool[n][i] \in Txs
  BY <1>3
<1>5. \A tx \in Txs : tx.call \in Good
  BY DEF Txs
<1>6. Len(bridge[n]) \in Nat /\ Len(mempool[n]) \in Nat
  BY <1>3
<1> QED
  BY <1>1, <1>2, <1>3, <1>4, <1>5, <1>6

LEMMA SubmitStep ==
  ASSUME WireInv, NEW o \in Operators, NEW n \in Networks, Submit(o, n) PROVE WireInv'
<1> DEFINE r == run[o]
           w == r.net[n]
           tx == [contract |-> w.contract, call |-> Head(w.txns), from |-> o]
           v == [w EXCEPT !.waits = TRUE]
           q == NetTo(r, r.errs, n, v)
           s == mempool[n]
           s2 == Append(s, tx)
<1>1. /\ r.stage = "send" /\ w.txns # <<>> /\ ~w.waits
      /\ mempool' = [mempool EXCEPT ![n] = s2]
      /\ bridge' = bridge /\ deployments' = deployments
  BY DEF Submit
<1>2. r \in Runs /\ w \in Nets /\ r.errs \in SUBSET Networks /\ Shape(n, r)
      /\ RunInv(n, bridge[n], deployments[n], r) /\ Links(mempool, o, r)
      /\ RunOK(bridge, deployments, r)
  BY RunAt, NetTyped
<1>3. run' = [run EXCEPT ![o] = q]
  <2>1. run' = [run EXCEPT ![o].net[n].waits = TRUE]
    BY DEF Submit
  <2>2. run \in [Operators -> Runs] /\ r.net \in [Networks -> Nets]
    BY <1>2, QueueTyped DEF Runs
  <2> QED
    BY <1>2, <2>1, <2>2 DEF NetTo, Runs
<1>4. v \in Nets /\ v.contract = w.contract /\ v.reads = w.reads /\ v.txns = w.txns
      /\ v.waits = TRUE
  <2>1. TRUE \in BOOLEAN
    OBVIOUS
  <2> QED
    BY <1>2, <2>1 DEF Nets
<1> HIDE DEF v
<1>5. /\ q \in Runs /\ q.stage = r.stage /\ q.src = r.src /\ q.quiet = r.quiet
      /\ q.errs = r.errs /\ q.net[n] = v
      /\ \A m \in Networks : m # n => q.net[m] = r.net[m]
  BY <1>2, <1>4, NetSet
<1> HIDE DEF q
<1>6. n \in r.src /\ w.contract # 0 /\ w.reads = <<>>
  BY <1>1, <1>2, NotBegunIs DEF Shape
<1>7. RunInv(n, bridge[n], deployments[n], q)
  <2>1. Shape(n, q)
    BY <1>1, <1>2, <1>4, <1>5, <1>6 DEF Shape, Busy
  <2>2. NeedsFirst(n, bridge[n], v)
    BY <1>2, <1>4 DEF RunInv, NeedsFirst
  <2>3. Pursued(n, bridge[n], deployments[n], q)
    BY <1>2, <1>4, <1>5 DEF RunInv, Pursued, Handled
  <2> QED
    BY <1>2, <1>4, <1>5, <2>1, <2>2, <2>3 DEF RunInv
<1>8. ASSUME NEW m \in Networks, m # n PROVE RunInv(m, bridge[m], deployments[m], q)
  <2>1. \A k \in Networks : k # n => (k \in q.errs <=> k \in r.errs)
    BY <1>5
  <2> QED
    BY <1>1, <1>2, <1>5, <1>8, <2>1, OtherNets
<1>9. RunOK(bridge, deployments, q)
  BY <1>5, <1>7, <1>8 DEF RunOK
<1>10. /\ s \in Seq(Txs) /\ Once(s) /\ FitToTrust(n, bridge[n], s) /\ Len(s) \in Nat
       /\ mempool \in [Networks -> Seq(Txs)] /\ run \in [Operators -> Runs]
  BY QueueTyped
<1>11. Head(w.txns) \in Good /\ Head(w.txns) = w.txns[1] /\ w.contract \in 1 .. Len(bridge[n])
       /\ 1 \in 1 .. Len(w.txns)
  <2>1. w.txns \in Seq(Good) /\ w.contract \in Nat
    BY <1>2 DEF Nets
  <2>2. w.contract <= Len(bridge[n]) /\ Len(bridge[n]) \in Nat
    BY <1>2, QueueTyped DEF RunInv
  <2> QED
    BY <1>1, <1>6, <2>1, <2>2, RangeOfTail
<1>12. tx \in Txs /\ tx.contract = w.contract /\ tx.call = Head(w.txns) /\ tx.from = o
  BY <1>11 DEF Txs
<1> HIDE DEF tx
<1>13. /\ s2 \in Seq(Txs) /\ Len(s2) = Len(s) + 1 /\ s2[Len(s) + 1] = tx
       /\ \A i \in 1 .. Len(s) : s2[i] = s[i]
       /\ \A i \in 1 .. Len(s2) : i \in 1 .. Len(s) \/ i = Len(s) + 1
  BY <1>10, <1>12
<1> HIDE DEF s2
<1>14. mempool' \in [Networks -> Seq(Txs)] /\ mempool'[n] = s2
       /\ \A m \in Networks : m # n => mempool'[m] = mempool[m]
  BY <1>1, <1>10, <1>13
<1>15. \A i \in 1 .. Len(s) : s[i].from # o
  BY <1>1, <1>2 DEF Links
<1>16. Links(mempool', o, q)
  <2>1. ASSUME NEW i \in 1 .. Len(s2), s2[i].from = o
        PROVE  v.waits /\ s2[i].contract = v.contract /\ s2[i].call = Head(v.txns)
    BY <1>4, <1>12, <1>13, <1>15, <2>1
  <2>2. ASSUME NEW m \in Networks, m # n, NEW i \in 1 .. Len(mempool'[m]),
               mempool'[m][i].from = o
        PROVE  /\ q.net[m].waits /\ mempool'[m][i].contract = q.net[m].contract
               /\ mempool'[m][i].call = Head(q.net[m].txns)
    <3>1. mempool'[m] = mempool[m] /\ q.net[m] = r.net[m]
      BY <1>5, <1>14, <2>2
    <3> QED
      BY <1>2, <2>2, <3>1 DEF Links
  <2>3. ASSUME NEW m \in Networks, NEW i \in 1 .. Len(mempool'[m]), mempool'[m][i].from = o
        PROVE  /\ q.net[m].waits /\ mempool'[m][i].contract = q.net[m].contract
               /\ mempool'[m][i].call = Head(q.net[m].txns)
    <3>1. CASE m = n
      BY <1>5, <1>14, <2>1, <2>3, <3>1
    <3>2. CASE m # n
      BY <2>2, <2>3, <3>2
    <3> QED
      BY <3>1, <3>2
  <2> QED
    BY <2>3 DEF Links
<1>17. run' \in [Operators -> Runs] /\ run'[o] = q
       /\ \A p \in Operators : p # o => run'[p] = run[p]
  BY <1>3, <1>5, <1>10
<1>18. ASSUME NEW p \in Operators
       PROVE  RunOK(bridge, deployments, run'[p]) /\ Links(mempool', p, run'[p])
  <2>1. CASE p = o
    BY <1>9, <1>16, <1>17, <2>1
  <2>2. CASE p # o
    <3>1. RunOK(bridge, deployments, run[p]) /\ Links(mempool, p, run[p])
      BY RunAt
    <3>2. Links(mempool', p, run[p])
      BY <1>12, <1>13, <1>14, <2>2, <3>1 DEF Links
    <3> QED
      BY <1>17, <2>2, <3>1, <3>2
  <2> QED
    BY <2>1, <2>2
<1>19. Once(s2) /\ FitToTrust(n, bridge[n], s2)
  <2>1. Once(s2)
    BY <1>10, <1>12, <1>13, <1>15 DEF Once
  <2>2. ASSUME tx.call.methodName = "setTrustedRemote", NEW d \in Needs(n)
        PROVE  Met(bridge[n][tx.contract], d)
    <3>1. NeedsFirst(n, bridge[n], w)
      BY <1>2 DEF RunInv
    <3>2. 1 .. 1 - 1 = {}
      OBVIOUS
    <3> QED
      BY <1>11, <1>12, <2>2, <3>1, <3>2 DEF NeedsFirst
  <2>3. FitToTrust(n, bridge[n], s2)
    BY <1>10, <1>13, <2>2 DEF FitToTrust
  <2> QED
    BY <2>1, <2>3
<1>20. ASSUME NEW m \in Networks
       PROVE  Once(mempool'[m]) /\ FitToTrust(m, bridge[m], mempool'[m])
  BY <1>14, <1>19, QueueTyped
<1>21. Typed'
  <2>1. ASSUME NEW m \in Networks, NEW i \in 1 .. Len(mempool'[m])
        PROVE  mempool'[m][i].contract \in 1 .. Len(bridge[m])
    BY <1>11, <1>12, <1>13, <1>14, QueueTyped
  <2> QED
    BY <1>1, <1>14, <1>17, <2>1 DEF Typed, WireInv
<1> QED
  BY <1>1, <1>18, <1>20, <1>21 DEF WireInv

LEMMA RefuseStep ==
  ASSUME WireInv, NEW o \in Operators, NEW n \in Networks, Refuse(o, n) PROVE WireInv'
<1> DEFINE r == Broken(run[o], n)
<1>1. /\ run[o].stage = "send" /\ run[o].net[n].txns # <<>> /\ ~run[o].net[n].waits
      /\ run' = [run EXCEPT ![o] = r] /\ UNCHANGED <<bridge, deployments, mempool>>
  BY DEF Refuse
<1>2. /\ RunOK(bridge, deployments, run[o]) /\ Links(mempool, o, run[o])
      /\ bridge \in [Networks -> Seq(Bridges)]
  BY RunAt
<1>3. \A i \in 1 .. Len(mempool[n]) : mempool[n][i].from # o
  BY <1>1, <1>2 DEF Links
<1>4. RunOK(bridge, deployments, r) /\ Links(mempool, o, r)
  BY <1>1, <1>2, <1>3, BrokenOK
<1> HIDE DEF r
<1> QED
  BY <1>1, <1>4, OneRun

\* The queue of one network changes; its transactions are those of before, from
\* whom they were or from nobody.
Fewer(s, s2) ==
  /\ s2 \in Seq(Txs) /\ Len(s2) <= Len(s)
  /\ LET k == Len(s) - Len(s2)
     IN  \A i \in 1 .. Len(s2) :
           /\ s2[i].contract = s[i + k].contract /\ s2[i].call = s[i + k].call
           /\ s2[i].from = s[i + k].from \/ s2[i].from = "nobody"

LEMMA FewerKeeps ==
  ASSUME NEW n \in Networks, NEW bs, NEW s \in Seq(Txs), NEW s2, Fewer(s, s2),
         Once(s), FitToTrust(n, bs, s)
  PROVE  Once(s2) /\ FitToTrust(n, bs, s2)
<1> DEFINE k == Len(s) - Len(s2)
<1>1. Len(s) \in Nat /\ Len(s2) \in Nat /\ k \in Nat
  BY DEF Fewer
<1>2. \A i \in 1 .. Len(s2) :
        /\ s2[i].contract = s[i + k].contract /\ s2[i].call = s[i + k].call
        /\ s2[i].from = s[i + k].from \/ s2[i].from = "nobody"
  BY DEF Fewer
<1>3. \A i \in 1 .. Len(s2) : i + k \in 1 .. Len(s) /\ i \in Int
  BY <1>1
<1>4. k \in Int
  BY <1>1
<1> HIDE DEF k
<1>5. ASSUME NEW i \in 1 .. Len(s2), NEW j \in 1 .. Len(s2),
             s2[i].from = s2[j].from, s2[i].from \in Operators
      PROVE  i = j
  <2>1. s2[i].from = s[i + k].from /\ s2[j].from = s[j + k].from
    BY <1>2, <1>5, WireEvmAssumption
  <2>2. i + k = j + k
    BY <1>3, <1>5, <2>1 DEF Once
  <2> QED
    BY <1>3, <1>4, <2>2
<1>6. FitToTrust(n, bs, s2)
  BY <1>2, <1>3 DEF FitToTrust
<1> QED
  BY <1>5, <1>6 DEF Once

LEMMA FewerLinks ==
  ASSUME NEW mp, NEW mp2, NEW n \in Networks, mp[n] \in Seq(Txs), Fewer(mp[n], mp2[n]),
         \A m \in Networks : m # n => mp2[m] = mp[m],
         NEW p \in Operators, NEW r, Links(mp, p, r)
  PROVE  Links(mp2, p, r)
<1> DEFINE s == mp[n]
           s2 == mp2[n]
           k == Len(s) - Len(s2)
<1>1. Len(s) \in Nat /\ Len(s2) \in Nat /\ k \in Nat
  BY DEF Fewer
<1>2. \A i \in 1 .. Len(s2) :
        /\ s2[i].contract = s[i + k].contract /\ s2[i].call = s[i + k].call
        /\ s2[i].from = s[i + k].from \/ s2[i].from = "nobody"
  BY DEF Fewer
<1>3. \A i \in 1 .. Len(s2) : i + k \in 1 .. Len(s)
  <2> HIDE DEF s, s2
  <2> QED
    BY <1>1
<1> HIDE DEF k
<1>4. ASSUME NEW i \in 1 .. Len(s2), s2[i].from = p
      PROVE  r.net[n].waits /\ s2[i].contract = r.net[n].contract
             /\ s2[i].call = Head(r.net[n].txns)
  <2>1. s[i + k].from = p
    BY <1>2, <1>4, WireEvmAssumption
  <2> QED
    BY <1>2, <1>3, <2>1 DEF Links
<1> QED
  BY <1>4 DEF Links

LEMMA GiveUpStep ==
  ASSUME WireInv, NEW o \in Operators, NEW n \in Networks, GiveUp(o, n) PROVE WireInv'
<1> DEFINE r == Broken(run[o], n)
           s == mempool[n]
           s2 == [i \in DOMAIN s |-> IF s[i].from = o THEN [s[i] EXCEPT !.from = "nobody"]
                                     ELSE s[i]]
<1>1. /\ run[o].net[n].waits /\ run' = [run EXCEPT ![o] = r]
      /\ mempool' = [mempool EXCEPT ![n] = s2]
      /\ bridge' = bridge /\ deployments' = deployments
  BY DEF GiveUp
<1>2. /\ RunOK(bridge, deployments, run[o]) /\ Links(mempool, o, run[o])
      /\ bridge \in [Networks -> Seq(Bridges)] /\ Shape(n, run[o])
  BY RunAt
<1>3. run[o].stage = "send" /\ run[o].net[n].txns # <<>>
  BY <1>1, <1>2 DEF Shape
<1>4. /\ s \in Seq(Txs) /\ Once(s) /\ FitToTrust(n, bridge[n], s) /\ Len(s) \in Nat
      /\ mempool \in [Networks -> Seq(Txs)] /\ run \in [Operators -> Runs]
  BY QueueTyped
<1>5. \A tx \in Txs : /\ [tx EXCEPT !.from = "nobody"] \in Txs
                      /\ [tx EXCEPT !.from = "nobody"].contract = tx.contract
                      /\ [tx EXCEPT !.from = "nobody"].call = tx.call
                      /\ [tx EXCEPT !.from = "nobody"].from = "nobody"
  BY DEF Txs
<1>6. \A i \in 1 .. Len(s) :
        /\ s2[i] \in Txs /\ s2[i].contract = s[i].contract /\ s2[i].call = s[i].call
        /\ s[i].from # o => s2[i].from = s[i].from
        /\ s[i].from = o => s2[i].from = "nobody"
  BY <1>4, <1>5
<1>7. s2 \in Seq(Txs) /\ Len(s2) = Len(s)
  <2>1. s2 \in [1 .. Len(s) -> Txs]
    <3>1. DOMAIN s = 1 .. Len(s)
      BY <1>4
    <3> QED
      BY <1>6, <3>1
  <2> HIDE DEF s2
  <2> QED
    BY <1>4, <2>1, SeqOf
<1> HIDE DEF s2, s, r
<1>8. Fewer(s, s2)
  <2>1. Len(s) - Len(s2) = 0 /\ \A i \in 1 .. Len(s2) : i + 0 = i
    BY <1>4, <1>7
  <2>2. \A i \in 1 .. Len(s2) :
          /\ s2[i].contract = s[i].contract /\ s2[i].call = s[i].call
          /\ s2[i].from = s[i].from \/ s2[i].from = "nobody"
    BY <1>6, <1>7
  <2> QED
    BY <1>4, <1>7, <2>1, <2>2 DEF Fewer
<1>9. /\ mempool' \in [Networks -> Seq(Txs)] /\ mempool'[n] = s2
      /\ \A m \in Networks : m # n => mempool'[m] = mempool[m]
  BY <1>1, <1>4, <1>7
<1>10. \A p \in Operators : Links(mempool', p, run[p])
  BY <1>4, <1>8, <1>9, FewerLinks, RunAt DEF s
<1>11. \A i \in 1 .. Len(mempool'[n]) : mempool'[n][i].from # o
  BY <1>6, <1>7, <1>9, WireEvmAssumption
<1>12. RunOK(bridge, deployments, r) /\ Links(mempool', o, r)
  BY <1>2, <1>3, <1>10, <1>11, BrokenOK DEF r
<1>13. run' \in [Operators -> Runs] /\ run'[o] = r
       /\ \A p \in Operators : p # o => run'[p] = run[p]
  BY <1>1, <1>4, <1>12 DEF RunOK
<1>14. \A p \in Operators : RunOK(bridge, deployments, run'[p]) /\ Links(mempool', p, run'[p])
  BY <1>10, <1>12, <1>13, RunAt
<1>15. Once(s2) /\ FitToTrust(n, bridge[n], s2)
  BY <1>4, <1>8, FewerKeeps
<1>16. ASSUME NEW m \in Networks
       PROVE  Once(mempool'[m]) /\ FitToTrust(m, bridge[m], mempool'[m])
  BY <1>9, <1>15, QueueTyped
<1>17. Typed'
  <2>1. ASSUME NEW m \in Networks, NEW i \in 1 .. Len(mempool'[m])
        PROVE  mempool'[m][i].contract \in 1 .. Len(bridge[m])
    BY <1>6, <1>7, <1>9, QueueTyped DEF s
  <2> QED
    BY <1>1, <1>9, <1>13, <2>1 DEF Typed, WireInv
<1> QED
  BY <1>1, <1>14, <1>16, <1>17 DEF WireInv

LEMMA MineStep ==
  ASSUME WireInv, NEW n \in Networks, Mine(n) PROVE WireInv'
<1> DEFINE s == mempool[n]
           s2 == Tail(s)
           tx == Head(s)
           c == tx.contract
           b == bridge[n][c]
           ok == Permitted(b, tx.call)
           o == tx.from
<1>1. /\ s # <<>> /\ mempool' = [mempool EXCEPT ![n] = s2]
      /\ bridge' = IF ok THEN [bridge EXCEPT ![n][c] = Called(b, tx.call)] ELSE bridge
      /\ run' = IF o \notin Operators THEN run
                ELSE [run EXCEPT ![o] = IF ok THEN Sent(run[o], n) ELSE Broken(run[o], n)]
      /\ deployments' = deployments
  BY DEF Mine
<1>2. /\ s \in Seq(Txs) /\ Once(s) /\ FitToTrust(n, bridge[n], s) /\ Len(s) \in Nat
      /\ mempool \in [Networks -> Seq(Txs)] /\ run \in [Operators -> Runs]
      /\ bridge \in [Networks -> Seq(Bridges)] /\ bridge[n] \in Seq(Bridges)
      /\ Len(bridge[n]) \in Nat
  BY QueueTyped
<1>3. /\ s2 \in Seq(Txs) /\ Len(s2) = Len(s) - 1 /\ Len(s) # 0 /\ tx = s[1]
      /\ \A i \in 1 .. Len(s) - 1 : s2[i] = s[i + 1]
      /\ 1 \in 1 .. Len(s)
  BY <1>1, <1>2, RangeOfTail
<1>4. tx \in Txs /\ c \in 1 .. Len(bridge[n]) /\ tx.call \in Good
  BY <1>3, QueueTyped
<1>5. b \in Bridges /\ Called(b, tx.call) \in Bridges
  <2>1. b \in Bridges
    BY <1>2, <1>4
  <2> QED
    BY <1>4, <2>1, CalledTyped
<1> HIDE DEF ok
<1>6. /\ Keeps(Settings, bridge[n], bridge'[n])
      /\ bridge' \in [Networks -> Seq(Bridges)] /\ Len(bridge'[n]) = Len(bridge[n])
      /\ ok => bridge'[n][c] = Called(b, tx.call)
      /\ \A m \in Networks : m # n => bridge'[m] = bridge[m]
  <2>1. CASE ok
    <3> DEFINE bs == bridge[n]
               call == Called(b, tx.call)
               bs2 == [bs EXCEPT ![c] = call]
    <3>0. bridge' = [bridge EXCEPT ![n] = bs2]
      BY <1>1, <2>1
    <3>1. /\ bs2 \in Seq(Bridges) /\ Len(bs2) = Len(bs) /\ bs2[c] = call
          /\ \A i \in 1 .. Len(bs) : i # c => bs2[i] = bs[i]
      <4> HIDE DEF call
      <4> QED
        BY <1>2, <1>4, <1>5 DEF call
    <3> HIDE DEF bs2
    <3>2. \A d \in Settings : Met(b, d) => Met(call, d)
      BY <1>4, <1>5, CalledKeeps
    <3> HIDE DEF call
    <3>3. Keeps(Settings, bs, bs2)
      <4>1. Len(bs) <= Len(bs2)
        BY <1>2, <3>1
      <4>2. ASSUME NEW i \in 1 .. Len(bs), NEW d \in Settings, Met(bs[i], d)
            PROVE  Met(bs2[i], d)
        <5>1. i = c => bs[i] = b
          OBVIOUS
        <5> HIDE DEF bs, b, c
        <5>2. CASE i = c
          BY <3>1, <3>2, <4>2, <5>1, <5>2
        <5>3. CASE i # c
          BY <3>1, <4>2, <5>3
        <5> QED
          BY <5>2, <5>3
      <4> QED
        BY <3>1, <4>1, <4>2 DEF Keeps
    <3>4. /\ bridge' \in [Networks -> Seq(Bridges)] /\ bridge'[n] = bs2
          /\ \A m \in Networks : m # n => bridge'[m] = bridge[m]
      BY <1>2, <3>0, <3>1
    <3> QED
      BY <3>1, <3>3, <3>4 DEF call
  <2>2. CASE ~ok
    BY <1>1, <1>2, <2>2 DEF Keeps
  <2> QED
    BY <2>1, <2>2
<1> HIDE DEF b
<1>7. Fewer(s, s2)
  <2>1. Len(s) - Len(s2) = 1 /\ Len(s2) <= Len(s)
    BY <1>2, <1>3
  <2> QED
    BY <1>3, <2>1 DEF Fewer
<1>8. /\ mempool' \in [Networks -> Seq(Txs)] /\ mempool'[n] = s2
      /\ \A m \in Networks : m # n => mempool'[m] = mempool[m]
  BY <1>1, <1>2, <1>3
<1>9. \A p \in Operators : Links(mempool', p, run[p])
  BY <1>2, <1>7, <1>8, FewerLinks, RunAt
<1>10. ASSUME NEW p \in Operators PROVE RunOK(bridge', deployments, run[p])
  <2>1. run[p] \in Runs
    BY RunAt
  <2>2. ASSUME NEW m \in Networks
        PROVE  RunInv(m, bridge'[m], deployments[m], run[p])
    <3>1. RunInv(m, bridge[m], deployments[m], run[p])
      BY RunAt
    <3>2. CASE m = n
      <4>1. deployments[n] \in Nat /\ deployments[n] <= Len(bridge[n])
        BY QueueTyped
      <4> QED
        BY <1>2, <1>6, <2>1, <3>1, <3>2, <4>1, RunInvKept
    <3>3. CASE m # n
      BY <1>6, <3>1, <3>3
    <3> QED
      BY <3>2, <3>3
  <2> QED
    BY <2>1, <2>2 DEF RunOK
<1>11. /\ run' \in [Operators -> Runs]
       /\ \A p \in Operators : RunOK(bridge', deployments, run'[p]) /\ Links(mempool', p, run'[p])
  <2>1. CASE o \notin Operators
    BY <1>1, <1>2, <1>9, <1>10, <2>1
  <2>2. CASE o \in Operators
    <3> DEFINE r == run[o]
               q == IF ok THEN Sent(r, n) ELSE Broken(r, n)
    <3>1. r.net[n].waits /\ c = r.net[n].contract /\ tx.call = Head(r.net[n].txns)
      BY <1>3, <2>2, RunAt DEF Links
    <3>2. r.stage = "send" /\ r.net[n].txns # <<>>
      BY <2>2, <3>1, RunAt DEF Shape
    <3>3. \A i \in 1 .. Len(mempool'[n]) : mempool'[n][i].from # o
      <4>1. ASSUME NEW i \in 1 .. Len(s2), s2[i].from = o PROVE FALSE
        <5>1. i + 1 \in 1 .. Len(s) /\ s[i + 1] = s2[i] /\ i + 1 # 1
          BY <1>2, <1>3
        <5> QED
          BY <1>2, <1>3, <2>2, <4>1, <5>1 DEF Once
      <4> QED
        BY <1>8, <4>1
    <3>4. RunOK(bridge', deployments, r) /\ Links(mempool', o, r)
      BY <1>9, <1>10, <2>2
    <3>5. RunOK(bridge', deployments, q) /\ Links(mempool', o, q)
      <4>1. CASE ok
        <5>1. ASSUME NEW d \in Settings, Meant(d) = Head(r.net[n].txns)
              PROVE  Met(bridge'[n][r.net[n].contract], d)
          BY <1>5, <1>6, <3>1, <4>1, <5>1, CalledMeets
        <5>2. RunOK(bridge', deployments, Sent(r, n)) /\ Links(mempool', o, Sent(r, n))
          BY <1>6, <3>2, <3>3, <3>4, <5>1, SentOK
        <5> QED
          BY <4>1, <5>2
      <4>2. CASE ~ok
        <5>1. RunOK(bridge', deployments, Broken(r, n)) /\ Links(mempool', o, Broken(r, n))
          BY <1>6, <3>2, <3>3, <3>4, BrokenOK
        <5> QED
          BY <4>2, <5>1
      <4> QED
        BY <4>1, <4>2
    <3>6. run' = [run EXCEPT ![o] = q]
      BY <1>1, <2>2
    <3> HIDE DEF q
    <3>7. q \in Runs
      BY <3>5 DEF RunOK
    <3>8. run' \in [Operators -> Runs] /\ run'[o] = q
          /\ \A p \in Operators : p # o => run'[p] = run[p]
      BY <1>2, <2>2, <3>6, <3>7
    <3> QED
      BY <1>9, <1>10, <3>5, <3>8
  <2> QED
    BY <2>1, <2>2
<1>12. Once(s2) /\ FitToTrust(n, bridge[n], s2)
  BY <1>2, <1>7, FewerKeeps
<1>13. FitToTrust(n, bridge'[n], s2)
  <2>1. \A i \in 1 .. Len(s2) : s2[i].contract \in 1 .. Len(bridge[n])
    <3>1. ASSUME NEW i \in 1 .. Len(s2) PROVE s2[i].contract \in 1 .. Len(bridge[n])
      <4>1. i + 1 \in 1 .. Len(s) /\ s[i + 1] = s2[i]
        BY <1>2, <1>3
      <4> QED
        BY <4>1, QueueTyped
    <3> QED
      BY <3>1
  <2>2. Needs(n) \subseteq Settings
    BY NeedsAre
  <2> QED
    BY <1>6, <1>12, <2>1, <2>2 DEF FitToTrust, Keeps
<1>14. ASSUME NEW m \in Networks
       PROVE  Once(mempool'[m]) /\ FitToTrust(m, bridge'[m], mempool'[m])
  BY <1>6, <1>8, <1>12, <1>13, QueueTyped
<1>15. Typed'
  <2>1. ASSUME NEW m \in Networks, NEW i \in 1 .. Len(mempool'[m])
        PROVE  mempool'[m][i].contract \in 1 .. Len(bridge'[m])
    <3>1. CASE m = n
      <4>1. i + 1 \in 1 .. Len(s) /\ s[i + 1] = s2[i]
        BY <1>2, <1>3, <1>8, <2>1, <3>1
      <4> QED
        BY <1>6, <1>8, <3>1, <4>1, QueueTyped
    <3>2. CASE m # n
      BY <1>6, <1>8, <3>2, QueueTyped
    <3> QED
      BY <3>1, <3>2
  <2>2. \A m \in Networks : deployments[m] \in Nat /\ deployments[m] <= Len(bridge'[m])
    BY <1>6, QueueTyped
  <2> QED
    BY <1>1, <1>6, <1>8, <1>11, <2>1, <2>2 DEF Typed, WireInv
<1> QED
  BY <1>1, <1>11, <1>14, <1>15 DEF WireInv

-----------------------------------------------------------------------------
\* Deployments and settings changed otherwise.

LEMMA DeleteStep ==
  ASSUME WireInv, NEW n \in Networks, deleteOldDeploy(n) PROVE WireInv'
<1> DEFINE dep == [deployments EXCEPT ![n] = 0]
<1>1. deployments' = dep /\ bridge' = bridge /\ mempool' = mempool /\ run' = run
  BY DEF deleteOldDeploy
<1>2. deployments \in [Networks -> Nat]
  BY DEF WireInv, Typed
<1>3. dep \in [Networks -> Nat] /\ \A m \in Networks : dep[m] = deployments[m] \/ dep[m] = 0
  BY <1>2
<1> HIDE DEF dep
<1>4. \A m \in Networks : /\ bridge[m] \in Seq(Bridges) /\ Keeps(Settings, bridge[m], bridge[m])
                          /\ deployments[m] \in Nat /\ deployments[m] <= Len(bridge[m])
                          /\ Len(bridge[m]) \in Nat
  BY QueueTyped DEF Keeps
<1>5. ASSUME NEW p \in Operators PROVE RunOK(bridge, dep, run[p])
  <2>1. ASSUME NEW m \in Networks PROVE RunInv(m, bridge[m], dep[m], run[p])
    BY <1>3, <1>4, RunInvKept, RunAt
  <2> QED
    BY <2>1, RunAt DEF RunOK
<1>6. \A m \in Networks : dep[m] <= Len(bridge[m])
  BY <1>3, <1>4
<1>7. Typed'
  BY <1>1, <1>3, <1>6 DEF Typed, WireInv
<1> QED
  BY <1>1, <1>5, <1>7 DEF WireInv

\* All runs are told, and the bridges of a network keep what bridges need.
LEMMA UpsetStep ==
  ASSUME WireInv, NEW n \in Networks, NEW bs2, Keeps(Needs(n), bridge[n], bs2),
         bridge' = [bridge EXCEPT ![n] = bs2], mempool' = mempool,
         run' = [o \in Operators |-> [run[o] EXCEPT !.quiet = FALSE]],
         deployments' \in [Networks -> Nat], deployments'[n] <= Len(bs2),
         \A m \in Networks : m # n => deployments'[m] = deployments[m]
  PROVE  WireInv'
<1>1. /\ bridge \in [Networks -> Seq(Bridges)] /\ bs2 \in Seq(Bridges)
      /\ Len(bridge[n]) <= Len(bs2) /\ Len(bs2) \in Nat /\ Len(bridge[n]) \in Nat
      /\ \A i \in 1 .. Len(bridge[n]) : \A d \in Needs(n) :
           Met(bridge[n][i], d) => Met(bs2[i], d)
  BY QueueTyped DEF Keeps
<1>2. /\ bridge' \in [Networks -> Seq(Bridges)] /\ bridge'[n] = bs2
      /\ \A m \in Networks : m # n => bridge'[m] = bridge[m]
  BY <1>1
<1>3. \A m \in Networks : /\ bridge[m] \in Seq(Bridges)
                          /\ Keeps(Needs(m), bridge[m], bridge'[m])
  <2>1. \A m \in Networks : bridge[m] \in Seq(Bridges) /\ Len(bridge[m]) \in Nat
    BY <1>1
  <2>2. ASSUME NEW m \in Networks PROVE Keeps(Needs(m), bridge[m], bridge'[m])
    <3>1. CASE m = n
      BY <1>2, <3>1
    <3>2. CASE m # n
      BY <1>2, <2>1, <3>2 DEF Keeps
    <3> QED
      BY <3>1, <3>2
  <2> QED
    BY <2>1, <2>2
<1>4. ASSUME NEW o \in Operators
      PROVE  /\ run'[o] \in Runs /\ RunOK(bridge', deployments', run'[o])
             /\ Links(mempool, o, run'[o])
  <2> DEFINE q == [run[o] EXCEPT !.quiet = FALSE]
  <2>1. run'[o] = q /\ run[o] \in Runs
    BY RunAt
  <2>2. q \in Runs /\ q.net = run[o].net
    <3>1. FALSE \in BOOLEAN
      OBVIOUS
    <3> QED
      BY <2>1, <3>1 DEF Runs
  <2>3. ASSUME NEW m \in Networks PROVE RunInv(m, bridge'[m], deployments'[m], q)
    <3>1. RunInv(m, bridge[m], deployments[m], run[o])
      BY RunAt
    <3> QED
      BY <1>3, <2>1, <3>1, RunInvUpset
  <2> HIDE DEF q
  <2>4. Links(mempool, o, q)
    BY <2>2, RunAt DEF Links
  <2> QED
    BY <2>1, <2>2, <2>3, <2>4 DEF RunOK
<1>5. run' \in [Operators -> Runs]
  <2> DEFINE f == [o \in Operators |-> [run[o] EXCEPT !.quiet = FALSE]]
  <2>1. \A o \in Operators : f[o] \in Runs
    BY <1>4
  <2> QED
    BY <2>1
<1>6. ASSUME NEW m \in Networks
      PROVE  /\ Once(mempool[m]) /\ FitToTrust(m, bridge'[m], mempool[m])
             /\ \A i \in 1 .. Len(mempool[m]) :
                  mempool[m][i].contract \in 1 .. Len(bridge'[m])
             /\ deployments'[m] <= Len(bridge'[m])
  <2>1. CASE m = n
    <3>1. FitToTrust(n, bs2, mempool[n])
      BY <1>1, QueueTyped DEF FitToTrust
    <3>2. \A i \in 1 .. Len(mempool[n]) : mempool[n][i].contract \in 1 .. Len(bs2)
      BY <1>1, QueueTyped
    <3> QED
      BY <1>2, <2>1, <3>1, <3>2, QueueTyped
  <2>2. CASE m # n
    BY <1>2, <2>2, QueueTyped
  <2> QED
    BY <2>1, <2>2
<1>7. Typed'
  BY <1>2, <1>5, <1>6, QueueTyped DEF Typed
<1> QED
  BY <1>4, <1>6, <1>7 DEF WireInv

LEMMA NewBridgeTyped == NewBridge \in Bridges
<1>1. FALSE \in BOOLEAN /\ {} \in SUBSET AllCoins /\ 0 \in Nat /\ 0 \in {0, 1}
  OBVIOUS
<1> QED
  BY <1>1 DEF NewBridge, Bridges

LEMMA DeployStep ==
  ASSUME WireInv, NEW n \in Networks, deployContract(n) PROVE WireInv'
<1> DEFINE bs == bridge[n]
           bs2 == Append(bs, NewBridge)
<1>1. /\ bridge' = [bridge EXCEPT ![n] = bs2] /\ mempool' = mempool
      /\ run' = [o \in Operators |-> [run[o] EXCEPT !.quiet = FALSE]]
      /\ deployments' = [deployments EXCEPT ![n] = Len(bs) + 1]
  BY DEF deployContract
<1>2. bs \in Seq(Bridges) /\ Len(bs) \in Nat /\ deployments \in [Networks -> Nat]
  BY QueueTyped DEF WireInv, Typed
<1>3. /\ bs2 \in Seq(Bridges) /\ Len(bs2) = Len(bs) + 1
      /\ \A i \in 1 .. Len(bs) : bs2[i] = bs[i]
  BY <1>2, NewBridgeTyped
<1> HIDE DEF bs2
<1>4. Keeps(Needs(n), bs, bs2)
  BY <1>2, <1>3 DEF Keeps
<1>5. /\ deployments' \in [Networks -> Nat] /\ deployments'[n] <= Len(bs2)
      /\ \A m \in Networks : m # n => deployments'[m] = deployments[m]
  BY <1>1, <1>2, <1>3
<1> QED
  BY <1>1, <1>4, <1>5, UpsetStep

LEMMA DriftStep ==
  ASSUME WireInv, NEW n \in Networks, NEW call \in Other(n), Drift(n, call) PROVE WireInv'
<1> DEFINE bs == bridge[n]
           i == deployments[n]
           b == bs[i]
           bs2 == [bs EXCEPT ![i] = Called(b, call)]
<1>1. /\ i # 0 /\ bridge' = [bridge EXCEPT ![n] = bs2] /\ mempool' = mempool
      /\ run' = [o \in Operators |-> [run[o] EXCEPT !.quiet = FALSE]]
      /\ deployments' = deployments
  BY DEF Drift
<1>2. /\ bs \in Seq(Bridges) /\ Len(bs) \in Nat /\ deployments \in [Networks -> Nat]
      /\ deployments[n] \in Nat /\ deployments[n] <= Len(bs)
  BY QueueTyped DEF WireInv, Typed
<1>3. i \in 1 .. Len(bs)
  BY <1>1, <1>2
<1>4. b \in Bridges
  BY <1>2, <1>3
<1>5. Called(b, call) \in Bridges /\ \A d \in Needs(n) : Met(b, d) => Met(Called(b, call), d)
  BY <1>4, CalledTyped, OtherKeepsNeeds
<1>6. /\ bs2 \in Seq(Bridges) /\ Len(bs2) = Len(bs) /\ bs2[i] = Called(b, call)
      /\ \A j \in 1 .. Len(bs) : j # i => bs2[j] = bs[j]
  <2> DEFINE x == Called(b, call)
  <2>1. x \in Bridges
    BY <1>5
  <2> HIDE DEF x
  <2>2. [bs EXCEPT ![i] = x] \in Seq(Bridges) /\ Len([bs EXCEPT ![i] = x]) = Len(bs)
        /\ [bs EXCEPT ![i] = x][i] = x
        /\ \A j \in 1 .. Len(bs) : j # i => [bs EXCEPT ![i] = x][j] = bs[j]
    BY <1>2, <1>3, <2>1
  <2> QED
    BY <2>2 DEF x
<1> HIDE DEF bs2
<1>7. Keeps(Needs(n), bs, bs2)
  BY <1>2, <1>5, <1>6 DEF Keeps
<1>8. deployments' \in [Networks -> Nat] /\ deployments'[n] <= Len(bs2)
  BY <1>1, <1>2, <1>6
<1> QED
  BY <1>1, <1>7, <1>8, UpsetStep

LEMMA DriftSomeIs ==
  ASSUME NEW n, DriftSome(n) PROVE \E call \in Other(n) : Drift(n, call)
BY DEF DriftSome, Other

-----------------------------------------------------------------------------
\* The theorems.

LEMMA InitWireInv == ASSUME WireInit PROVE WireInv
<1>1. Idle \in Runs /\ Idle.stage = "idle" /\ Idle.src = {} /\ Idle.errs = {}
      /\ \A n \in Networks : Idle.net[n] = NotBegun
  BY NotBegunIs DEF Idle, Runs, Stages
<1>2. bridge \in [Networks -> Seq(Bridges)] /\ deployments \in [Networks -> Nat]
      /\ mempool \in [Networks -> Seq(Txs)] /\ run \in [Operators -> Runs]
  BY <1>1 DEF WireInit
<1>3. /\ \A n \in Networks : /\ bridge[n] = <<>> /\ deployments[n] = 0
                             /\ mempool[n] = <<>>
      /\ \A o \in Operators : run[o] = Idle
      /\ Len(<<>>) = 0 /\ 1 .. Len(<<>>) = {}
  BY DEF WireInit
<1>4. Typed
  BY <1>2, <1>3 DEF Typed
<1>5. \A n \in Networks : RunInv(n, bridge[n], deployments[n], Idle)
  <2>1. ASSUME NEW n \in Networks PROVE RunInv(n, bridge[n], deployments[n], Idle)
    <3>1. Shape(n, Idle)
      BY <1>1, NotBegunIs DEF Shape
    <3>2. NeedsFirst(n, bridge[n], Idle.net[n])
      BY <1>1, NotBegunNeeds
    <3>3. Pursued(n, bridge[n], deployments[n], Idle)
      BY <1>1 DEF Pursued
    <3>4. Idle.net[n].contract <= Len(bridge[n])
      BY <1>1, <1>3, NotBegunIs
    <3> QED
      BY <3>1, <3>2, <3>3, <3>4 DEF RunInv
  <2> QED
    BY <2>1
<1>6. \A o \in Operators : RunOK(bridge, deployments, run[o]) /\ Links(mempool, o, run[o])
  BY <1>1, <1>3, <1>5 DEF RunOK, Links
<1>7. \A n \in Networks : Once(mempool[n]) /\ FitToTrust(n, bridge[n], mempool[n])
  BY <1>3 DEF Once, FitToTrust
<1> QED
  BY <1>4, <1>6, <1>7 DEF WireInv

LEMMA StepWireInv == ASSUME WireInv, [WireNext]_wireVars PROVE WireInv'
<1>1. ASSUME NEW n \in Networks, deleteOldDeploy(n) PROVE WireInv'
  BY <1>1, DeleteStep
<1>2. ASSUME NEW n \in Networks, deployContract(n) PROVE WireInv'
  BY <1>2, DeployStep
<1>3. ASSUME NEW n \in Networks, Mine(n) PROVE WireInv'
  BY <1>3, MineStep
<1>4. ASSUME NEW n \in Networks, DriftSome(n) PROVE WireInv'
  <2>1. PICK call \in Other(n) : Drift(n, call)
    BY <1>4, DriftSomeIs
  <2> QED
    BY <2>1, DriftStep
<1>5. ASSUME NEW o \in Operators, Start(o) \/ Proceed(o) \/ Abort(o) PROVE WireInv'
  BY <1>5, StartStep, ProceedStep, AbortStep
<1>6. ASSUME NEW o \in Operators, NEW n \in Networks,
             \/ ReadNext(o, n) \/ NoDeployment(o, n)
             \/ Submit(o, n) \/ Refuse(o, n) \/ GiveUp(o, n)
      PROVE  WireInv'
  BY <1>6, ReadNextStep, NoDeploymentStep, SubmitStep, RefuseStep, GiveUpStep
<1>7. CASE UNCHANGED wireVars
  BY <1>7 DEF wireVars, WireInv, Typed
<1> QED
  BY <1>1, <1>2, <1>3, <1>4, <1>5, <1>6, <1>7 DEF WireNext

\* A bridge is wired that has all settings as configured.
LEMMA WiredIs ==
  ASSUME NEW n \in Networks, NEW b \in Bridges, \A d \in Range(Reads(n)) : Met(b, d)
  PROVE  Wired(n, b)
<1>1. Ready(n, b)
  BY ReadyIs, ReadsAre
<1>2. \A m \in {"setBridgeFeeBP", "setUseCustomAdapterParams",
                "setTrustedRemote", "setMinDstGas"} : Met(b, Call(m, 0))
  BY ReadsAre
<1>3. /\ Met(b, Call("setBridgeFeeBP", 0)) /\ Met(b, Call("setUseCustomAdapterParams", 0))
      /\ Met(b, Call("setTrustedRemote", 0)) /\ Met(b, Call("setMinDstGas", 0))
  BY <1>2
<1>4. /\ Call("setBridgeFeeBP", 0).methodName = "setBridgeFeeBP"
      /\ Call("setUseCustomAdapterParams", 0).methodName = "setUseCustomAdapterParams"
      /\ Call("setTrustedRemote", 0).methodName = "setTrustedRemote"
      /\ Call("setMinDstGas", 0).methodName = "setMinDstGas"
  BY DEF Call
<1>5. /\ b.bridgeFeeBP = FeeBP /\ b.useCustomAdapterParams = UseCustomAdapterParams
      /\ b.trusted /\ b.minDstGas = MinDstGas
  BY <1>3, <1>4, MetIs
<1> QED
  BY <1>1, <1>5 DEF Wired

LEMMA InvIsWired == ASSUME WireInv PROVE SuccessIsWired
<1> SUFFICES ASSUME NEW o \in Operators, run[o].stage = "wired", run[o].quiet,
                    NEW n \in run[o].src, deployments[n] # 0
             PROVE  Wired(n, bridge[n][deployments[n]])
  BY DEF SuccessIsWired
<1>1. n \in Networks
  BY RunAt, SrcIn
<1>2. Pursued(n, bridge[n], deployments[n], run[o])
  BY <1>1, RunAt DEF RunInv
<1>3. \A d \in Range(Reads(n)) : Met(bridge[n][deployments[n]], d)
  BY <1>2 DEF Pursued
<1>4. bridge[n][deployments[n]] \in Bridges
  <2>1. deployments[n] \in 1 .. Len(bridge[n]) /\ bridge[n] \in Seq(Bridges)
    BY <1>1, QueueTyped
  <2> QED
    BY <2>1
<1> QED
  BY <1>1, <1>3, <1>4, WiredIs

\* The step that TrustedIsReady speaks of.
Trusting ==
  \A n \in Networks : \A i \in DOMAIN bridge[n] :
    ~bridge[n][i].trusted /\ bridge'[n][i].trusted => Ready(n, bridge'[n][i])

LEMMA StepReady == ASSUME WireInv, [WireNext]_wireVars PROVE Trusting
<1> SUFFICES ASSUME NEW n \in Networks, NEW i \in DOMAIN bridge[n],
                    ~bridge[n][i].trusted, bridge'[n][i].trusted
             PROVE  Ready(n, bridge'[n][i])
  BY DEF Trusting
<1>0. /\ bridge \in [Networks -> Seq(Bridges)] /\ bridge[n] \in Seq(Bridges)
      /\ i \in 1 .. Len(bridge[n]) /\ bridge[n][i] \in Bridges
  <2>1. bridge \in [Networks -> Seq(Bridges)] /\ bridge[n] \in Seq(Bridges)
    BY QueueTyped
  <2> QED
    BY <2>1
<1>1. bridge' # bridge
  OBVIOUS
<1>2. ASSUME NEW m \in Networks, deployContract(m) PROVE FALSE
  <2>1. bridge' = [bridge EXCEPT ![m] = Append(bridge[m], NewBridge)]
    BY <1>2 DEF deployContract
  <2>2. bridge'[n] = IF n = m THEN Append(bridge[n], NewBridge) ELSE bridge[n]
    BY <1>0, <2>1
  <2>3. Append(bridge[n], NewBridge)[i] = bridge[n][i]
    BY <1>0, NewBridgeTyped
  <2> QED
    BY <2>2, <2>3
<1>3. ASSUME NEW m \in Networks, NEW j \in 1 .. Len(bridge[m]), NEW c,
             c \in Good \/ c \in Other(m),
             bridge' = [bridge EXCEPT ![m][j] = Called(bridge[m][j], c)]
      PROVE  /\ m = n /\ j = i /\ c \in Good /\ c.methodName = "setTrustedRemote"
             /\ bridge'[n][i] = Called(bridge[n][i], c)
  <2>1. bridge' = [bridge EXCEPT ![m] = [bridge[m] EXCEPT ![j] = Called(bridge[m][j], c)]]
    BY <1>3
  <2>2. n # m => bridge'[n] = bridge[n]
    BY <1>0, <2>1
  <2>3. m = n
    BY <2>2
  <2>4. bridge'[n] = [bridge[n] EXCEPT ![j] = Called(bridge[n][j], c)]
    BY <1>0, <2>1, <2>3
  <2>5. i = j /\ bridge'[n][i] = Called(bridge[n][i], c)
    BY <1>0, <2>4
  <2> QED
    BY <1>0, <1>3, <2>3, <2>5, TrustedByCall
<1>4. ASSUME NEW m \in Networks, NEW call \in Other(m), Drift(m, call) PROVE FALSE
  <2> DEFINE j == deployments[m]
  <2>1. j # 0 /\ bridge' = [bridge EXCEPT ![m][j] = Called(bridge[m][j], call)]
    BY <1>4 DEF Drift
  <2>2. j \in 1 .. Len(bridge[m])
    BY <2>1, QueueTyped
  <2>3. m = n /\ call \in Good /\ call.methodName = "setTrustedRemote"
        /\ bridge'[n][i] = Called(bridge[n][i], call)
    BY <1>3, <2>1, <2>2
  <2>4. call.arg = 0
    BY <2>3, OtherCases
  <2>5. call.arg = 1
    BY <2>3, GoodCases
  <2> QED
    BY <2>4, <2>5
<1>5. ASSUME NEW m \in Networks, Mine(m) PROVE Ready(n, bridge'[n][i])
  <2> DEFINE s == mempool[m]
             tx == Head(s)
             j == tx.contract
  <2>1. s # <<>> /\ bridge' = [bridge EXCEPT ![m][j] = Called(bridge[m][j], tx.call)]
    BY <1>1, <1>5 DEF Mine
  <2>2. s \in Seq(Txs)
    BY QueueTyped
  <2>3. tx = s[1] /\ 1 \in 1 .. Len(s)
    BY <2>1, <2>2, RangeOfTail
  <2>4. j \in 1 .. Len(bridge[m]) /\ tx.call \in Good /\ FitToTrust(m, bridge[m], s)
    BY <2>3, QueueTyped
  <2>5. /\ m = n /\ j = i /\ tx.call.methodName = "setTrustedRemote"
        /\ bridge'[n][i] = Called(bridge[n][i], tx.call)
    <3>1. j \in 1 .. Len(bridge[m]) /\ (tx.call \in Good \/ tx.call \in Other(m))
      BY <2>4
    <3>2. bridge' = [bridge EXCEPT ![m][j] = Called(bridge[m][j], tx.call)]
      BY <2>1
    <3> HIDE DEF j, tx
    <3> QED
      BY <1>3, <3>1, <3>2
  <2>6. \A d \in Needs(n) : Met(bridge[n][i], d)
    BY <2>3, <2>4, <2>5 DEF FitToTrust
  <2>7. \A d \in Needs(n) : Met(bridge'[n][i], d)
    BY <1>0, <2>4, <2>5, <2>6, CalledKeeps, NeedsAre
  <2>8. bridge'[n][i] \in Bridges
    BY <1>0, <2>4, <2>5, CalledTyped
  <2> QED
    BY <2>7, <2>8, ReadyIs
<1>6. \/ \E m \in Networks : deployContract(m) \/ Mine(m) \/ DriftSome(m)
      \/ bridge' = bridge
  BY DEF WireNext, wireVars, deleteOldDeploy, Start, Proceed, Abort, ReadNext, NoDeployment,
     Submit, Refuse, GiveUp, Only
<1> QED
  BY <1>1, <1>2, <1>4, <1>5, <1>6, DriftSomeIs

\* SuccessIsWired, for all operators, networks, lists of coins and settings: a
\* run that nobody upset and that says it wired everything has wired it.
THEOREM SuccessIsWiredHolds == WireSpec => []SuccessIsWired
<1>1. WireInit => WireInv
  BY InitWireInv
<1>2. WireInv /\ [WireNext]_wireVars => WireInv'
  BY StepWireInv
<1>3. WireInv => SuccessIsWired
  BY InvIsWired
<1> QED
  BY <1>1, <1>2, <1>3, PTL DEF WireSpec

\* TrustedIsReady, likewise: no interleaving of runs, failures and late
\* transactions makes a bridge trusted before it can pay out.
THEOREM TrustedIsReadyHolds == WireSpec => TrustedIsReady
<1>1. WireInit => WireInv
  BY InitWireInv
<1>2. WireInv /\ [WireNext]_wireVars => WireInv'
  BY StepWireInv
<1>3. WireInv /\ [WireNext]_wireVars => [Trusting]_wireVars
  BY StepReady
<1>4. WireSpec => [][Trusting]_wireVars
  BY <1>1, <1>2, <1>3, PTL DEF WireSpec
<1>5. [][Trusting]_wireVars => TrustedIsReady
  BY PTL DEF TrustedIsReady, Trusting
<1> QED
  BY <1>4, <1>5

==============================================================================
