------------------------------- MODULE UlnProofs -------------------------------
(***************************************************************************)
(* Only genuine packets enter a channel, for every set of UAs, parties and *)
(* packets and any finality.                                               *)
(***************************************************************************)
EXTENDS UlnReceive, TLAPS

C == INSTANCE ChannelProofs

-----------------------------------------------------------------------------

\* A step of the receiver is a step of its channels, or leaves them alone.
LEMMA ChannelStep == [Next]_vars => [C!Next]_channelVars
<1> USE DEF channelVars, C!vars
<1> SUFFICES ASSUME Next PROVE [C!Next]_channelVars
  BY DEF vars
<1>1. CASE Source
  BY <1>1 DEF Source, SourceSend, SourceBlock, SourceReorg
<1>2. CASE Configure
  BY <1>2 DEF Configure, set_default_config, set_ua_config,
     set_default_receive_msglib, set_receive_msglib, register_ua, set_chain_address_size,
     Ch!register,
     C!register, C!Next
<1>3. ASSUME NEW o \in Oracles, NEW p \in Packet, NEW c \in Confirmations,
             OraclePropose(o, p, c)
      PROVE  UNCHANGED channelVars
  BY <1>3 DEF OraclePropose, oracle_propose
<1>4. ASSUME NEW r \in Relayers, NEW ua \in UAs, NEW p \in Packet,
             NEW c \in Confirmations, RelayerVerify(r, ua, p, c)
      PROVE  C!Next
  <2>1. C!receive(ua, p.src_address, p.nonce, Sha3(p.payload))
    BY <1>4 DEF RelayerVerify, relayer_verify, receive, Ch!receive, C!receive,
       Ch!inbound_nonce, C!inbound_nonce
  <2>2. /\ p.src_address \in Remotes /\ p.nonce \in C!Nonces
        /\ Sha3(p.payload) \in Hashes
    BY DEF Packet, Hashes, Ch!Nonces, C!Nonces
  <2> QED
    BY <2>1, <2>2 DEF C!Next
<1>5. ASSUME NEW ua \in UAs, NEW s \in Remotes, NEW payload \in Payloads,
             lz_receive(ua, s, payload)
      PROVE  C!Next
  <2>1. C!inbound(ua, s)
    BY <1>5 DEF lz_receive, Ch!inbound, C!inbound, Ch!have_next_inbound,
       C!have_next_inbound, Ch!inbound_nonce, C!inbound_nonce,
       Ch!payload_hash, C!payload_hash
  <2> QED
    BY <2>1 DEF C!Next
<1> QED
  BY <1>1, <1>2, <1>3, <1>4, <1>5 DEF Next, Deliver

\* UlnReceive drives Channel as its specification allows.
THEOREM ImplementsChannel == Spec => C!Spec
<1>1. Init => C!Init
  BY DEF Init, Ch!Init, C!Init, Ch!NewChannel, C!NewChannel, Ch!EmptyTable,
     C!EmptyTable, Ch!Nonces, C!Nonces
<1>2. [Next]_vars => [C!Next]_(C!vars)
  BY ChannelStep DEF channelVars, C!vars
<1> QED
  BY <1>1, <1>2, PTL DEF Spec, C!Spec

\* The channels of the receiver satisfy what Channel is proved to satisfy.
LEMMA ChannelAssumed == C!ChannelAssumption
BY UlnAssumption DEF C!ChannelAssumption

\* What is proved of Channel holds of the channels of the receiver.
THEOREM ChannelsInOrder == Spec => []C!IInv
<1>1. C!Init => C!IInv
  BY ChannelAssumed, C!InitIInv
<1>2. C!IInv /\ [C!Next]_(C!vars) => C!IInv'
  BY ChannelAssumed, C!NextIInv
<1> QED
  BY <1>1, <1>2, ImplementsChannel, PTL DEF C!Spec

-----------------------------------------------------------------------------
\* The inductive invariant of the receiver.

\* An honest oracle's claim of Finality or more stays true: the packet it names
\* is final, and a final packet cannot be taken back.
OracleKnows ==
  \A o \in HonestOracles, p \in Packet :
    proposals[o][Sha3(p)] >= Finality => Final(p)

\* Whatever configuration is in force, one of its parties is honest and it
\* requires final packets.
ConfigTrusted ==
  has_uln_config =>
    /\ is_valid_default_uln_config(default_config)
    /\ \A ua \in UAs : Trusted(get_uln_config(ua))

\* The source endpoint gave no nonce of a path to two packets.
NonceUnique ==
  \A p, q \in onchain : SamePath(p, q) /\ p.nonce = q.nonce => p = q

OwnTypeOK ==
  /\ onchain \in SUBSET Packet
  /\ depth \in [Packet -> Confirmations]
  /\ proposals \in [Oracles -> [PacketHashes -> Confirmations]]
  /\ default_config \in UlnConfig
  /\ ua_config \in [UAs -> UlnConfig]
  /\ default_version \in {ULN, BLOCKING}
  /\ ua_version \in [UAs -> {ULN, DEFAULT, BLOCKING}]
  /\ address_size \in BOOLEAN

IInv ==
  /\ C!IInv /\ OwnTypeOK /\ OracleKnows /\ ConfigTrusted /\ NonceUnique /\ Genuine

\* The hash of a packet determines the packet.
LEMMA Sha3Injective ==
  \A p, q : Sha3(p) = Sha3(q) => p = q
BY DEF Sha3

\* The invariant holds before anything is configured or sent.
LEMMA InitIInv == Init => IInv
<1> SUFFICES ASSUME Init PROVE IInv
  OBVIOUS
<1> USE UlnAssumption DEF Init
<1>1. C!IInv
  <2>1. C!Init
    BY DEF Ch!Init, C!Init, Ch!NewChannel, C!NewChannel, Ch!EmptyTable,
       C!EmptyTable, Ch!Nonces, C!Nonces
  <2> QED
    BY <2>1, ChannelAssumed, C!InitIInv
<1>2. OwnTypeOK
  <2>1. default_uln_config \in UlnConfig
    BY DEF default_uln_config, UlnConfig, Confirmations
  <2>2. proposals \in [Oracles -> [PacketHashes -> Confirmations]]
    BY DEF Confirmations
  <2>3. ua_config \in [UAs -> UlnConfig] /\ default_config \in UlnConfig
    BY <2>1
  <2>4. depth \in [Packet -> Confirmations]
    BY DEF Confirmations
  <2>5. ua_version \in [UAs -> {ULN, DEFAULT, BLOCKING}]
    OBVIOUS
  <2> QED
    BY <2>2, <2>3, <2>4, <2>5 DEF OwnTypeOK
<1>3. OracleKnows
  BY DEF OracleKnows, PacketHashes
<1>4. ConfigTrusted /\ NonceUnique
  BY DEF ConfigTrusted, has_uln_config, NonceUnique
<1>5. Genuine
  BY DEF Genuine, Ch!Init, Ch!EmptyTable
<1> QED
  BY <1>1, <1>2, <1>3, <1>4, <1>5 DEF IInv

\* No step takes back a final packet: a reorg is of at most Finality blocks and
\* a packet is not sent twice.
LEMMA FinalStable ==
  ASSUME OwnTypeOK, [Next]_vars, NEW p \in Packet, Final(p)
  PROVE  Final(p)'
<1> USE UlnAssumption DEF Final, OwnTypeOK
<1>1. ASSUME NEW q \in Packet, SourceSend(q) PROVE Final(p)'
  <2>1. p # q
    BY <1>1 DEF SourceSend, SamePath, Packet, Ch!Nonces
  <2> QED
    BY <1>1, <2>1 DEF SourceSend
<1>2. CASE SourceBlock
  BY <1>2 DEF SourceBlock, Confirmations
<1>3. ASSUME NEW blocks \in 1 .. Finality, SourceReorg(blocks) PROVE Final(p)'
  BY <1>3 DEF SourceReorg, Confirmations
<1>4. CASE UNCHANGED sourceVars
  BY <1>4 DEF sourceVars
<1> QED
  BY <1>1, <1>2, <1>3, <1>4 DEF Next, Source, Configure, Deliver, vars,
     set_default_config, set_ua_config, set_default_receive_msglib,
     set_receive_msglib, register_ua, set_chain_address_size,
     OraclePropose, oracle_propose,
     RelayerVerify, relayer_verify, lz_receive, sourceVars

\* Every step keeps the types of the receiver's own state.
LEMMA NextOwnTypeOK ==
  ASSUME OwnTypeOK, [Next]_vars
  PROVE  OwnTypeOK'
<1> USE UlnAssumption DEF OwnTypeOK
<1>1. ASSUME NEW p \in Packet, SourceSend(p) PROVE OwnTypeOK'
  BY <1>1 DEF SourceSend, configVars, Confirmations
<1>2. CASE SourceBlock
  BY <1>2 DEF SourceBlock, configVars, Confirmations
<1>3. ASSUME NEW blocks \in 1 .. Finality, SourceReorg(blocks) PROVE OwnTypeOK'
  BY <1>3 DEF SourceReorg, configVars, Confirmations
<1>4. ASSUME NEW config \in UlnConfig, set_default_config(config)
      PROVE  OwnTypeOK'
  BY <1>4 DEF set_default_config, sourceVars
<1>5. ASSUME NEW ua \in UAs, NEW config \in UlnConfig, set_ua_config(ua, config)
      PROVE  OwnTypeOK'
  BY <1>5 DEF set_ua_config, sourceVars
<1>6. ASSUME NEW v \in Versions, set_default_receive_msglib(v) PROVE OwnTypeOK'
  BY <1>6 DEF set_default_receive_msglib, sourceVars
<1>7. ASSUME NEW ua \in UAs, NEW v \in Versions, set_receive_msglib(ua, v)
      PROVE  OwnTypeOK'
  BY <1>7 DEF set_receive_msglib, sourceVars
<1>8. ASSUME NEW o \in Oracles, NEW p \in Packet, NEW c \in Confirmations,
             OraclePropose(o, p, c)
      PROVE  OwnTypeOK'
  BY <1>8 DEF OraclePropose, oracle_propose, sourceVars, configVars, PacketHashes
<1>9. CASE set_chain_address_size
  BY <1>9 DEF set_chain_address_size, sourceVars
<1>10. CASE UNCHANGED <<sourceVars, proposals, configVars>>
  BY <1>10 DEF sourceVars, configVars
<1> QED
  BY <1>1, <1>2, <1>3, <1>4, <1>5, <1>6, <1>7, <1>8, <1>9, <1>10 DEF Next, Source,
     Configure, Deliver, vars, register_ua, RelayerVerify, relayer_verify,
     lz_receive

\* An honest oracle claims Finality only of what is final, and nobody else can
\* write under its key.
LEMMA NextOracleKnows ==
  ASSUME OwnTypeOK, OracleKnows, [Next]_vars
  PROVE  OracleKnows'
<1> SUFFICES ASSUME NEW o \in HonestOracles, NEW p \in Packet,
                    proposals'[o][Sha3(p)] >= Finality
             PROVE  Final(p)'
  BY DEF OracleKnows
<1>1. CASE proposals'[o][Sha3(p)] = proposals[o][Sha3(p)]
  BY <1>1, FinalStable DEF OracleKnows
<1>2. ASSUME NEW x \in Oracles, NEW q \in Packet, NEW c \in Confirmations,
             OraclePropose(x, q, c)
      PROVE  Final(p)'
  <2>1. CASE x = o /\ Sha3(q) = Sha3(p)
    <3>1. q = p
      BY <2>1, Sha3Injective
    <3>2. o \in Oracles /\ Sha3(p) \in PacketHashes
      BY UlnAssumption DEF PacketHashes
    <3>3. proposals'[o][Sha3(p)] = c
      BY <1>2, <2>1, <3>2 DEF OraclePropose, oracle_propose, OwnTypeOK
    <3> QED
      BY <1>2, <2>1, <3>1, <3>3, FinalStable DEF OraclePropose, Truthful
  <2>2. CASE ~ (x = o /\ Sha3(q) = Sha3(p))
    BY <1>1, <1>2, <2>2, UlnAssumption DEF OraclePropose, oracle_propose,
       OwnTypeOK, PacketHashes
  <2> QED
    BY <2>1, <2>2
<1> QED
  BY <1>1, <1>2 DEF Next, Source, Configure, Deliver, vars, SourceSend,
     SourceBlock, SourceReorg, set_default_config, set_ua_config,
     set_default_receive_msglib, set_receive_msglib, register_ua, set_chain_address_size,
     RelayerVerify,
     relayer_verify, lz_receive

\* Every change of a configuration is trusted together with what it merges with.
LEMMA NextConfigTrusted ==
  ASSUME OwnTypeOK, ConfigTrusted, [Next]_vars
  PROVE  ConfigTrusted'
<1> USE DEF ConfigTrusted, has_uln_config, get_uln_config
<1>1. ASSUME NEW config \in UlnConfig, set_default_config(config)
      PROVE  ConfigTrusted'
  BY <1>1 DEF set_default_config
<1>2. ASSUME NEW ua \in UAs, NEW config \in UlnConfig, set_ua_config(ua, config)
      PROVE  ConfigTrusted'
  BY <1>2 DEF set_ua_config, OwnTypeOK
<1>3. CASE UNCHANGED <<default_config, ua_config>>
  BY <1>3
<1> QED
  BY <1>1, <1>2, <1>3 DEF Next, Source, Configure, Deliver, vars, configVars,
     SourceSend, SourceBlock, SourceReorg, set_default_receive_msglib,
     set_receive_msglib, register_ua, set_chain_address_size,
     OraclePropose, oracle_propose,
     RelayerVerify, relayer_verify, lz_receive

\* The source endpoint numbers the packets of a path upwards; a reorg only
\* removes packets.
LEMMA NextNonceUnique ==
  ASSUME OwnTypeOK, NonceUnique, [Next]_vars
  PROVE  NonceUnique'
<1>1. ASSUME NEW p \in Packet, SourceSend(p) PROVE NonceUnique'
  <2>1. \A q \in onchain : SamePath(p, q) => q.nonce # p.nonce
    BY <1>1, UlnAssumption DEF SourceSend, OwnTypeOK, Packet, Ch!Nonces
  <2> QED
    BY <1>1, <2>1 DEF SourceSend, NonceUnique, SamePath
<1>2. CASE onchain' \subseteq onchain
  BY <1>2 DEF NonceUnique, SamePath
<1> QED
  BY <1>1, <1>2 DEF Next, Source, Configure, Deliver, vars, sourceVars,
     SourceBlock, SourceReorg, set_default_config, set_ua_config,
     set_default_receive_msglib, set_receive_msglib, register_ua, set_chain_address_size,
     OraclePropose,
     oracle_propose, RelayerVerify, relayer_verify, lz_receive

\* Only relayer_verify changes what was accepted, and it stores a hash.
LEMMA AcceptedStep ==
  ASSUME C!IInv, [Next]_vars, NEW u \in UAs, NEW s \in Remotes,
         NEW n \in Ch!Nonces, accepted'[u][s][n] # accepted[u][s][n]
  PROVE  \E r \in Relayers, ua \in UAs, p \in Packet, c \in Confirmations :
           /\ RelayerVerify(r, ua, p, c)
           /\ u = ua /\ s = p.src_address /\ n = p.nonce
           /\ accepted'[u][s][n] = Sha3(p.payload)
<1>1. PICK r \in Relayers, ua \in UAs, p \in Packet, c \in Confirmations :
        RelayerVerify(r, ua, p, c)
  BY DEF Next, Source, Configure, Deliver, vars, channelVars, SourceSend,
     SourceBlock, SourceReorg, set_default_config, set_ua_config,
     set_default_receive_msglib, set_receive_msglib, register_ua, set_chain_address_size,
     Ch!register,
     OraclePropose, oracle_propose, lz_receive, Ch!inbound
<1>2. accepted' = [accepted EXCEPT ![ua][p.src_address][p.nonce] = Sha3(p.payload)]
  BY <1>1 DEF RelayerVerify, relayer_verify, receive, Ch!receive
<1>3. accepted \in [UAs -> [Remotes -> C!HashTable]]
  BY DEF C!IInv, C!TypeOK
<1>4. u = ua /\ s = p.src_address /\ n = p.nonce
  BY <1>2, <1>3 DEF C!HashTable, C!Nonces, Ch!Nonces
<1>5. accepted'[u][s][n] = Sha3(p.payload)
  BY <1>2, <1>3, <1>4 DEF C!HashTable, C!Nonces, Ch!Nonces
<1> QED
  BY <1>1, <1>4, <1>5

\* What relayer_verify takes is final: it requires Finality confirmations of
\* both parties, and one of them is honest.
LEMMA VerifiedFinal ==
  ASSUME OwnTypeOK, OracleKnows, ConfigTrusted, NEW r \in Relayers,
         NEW ua \in UAs, NEW p \in Packet, NEW c \in Confirmations,
         RelayerVerify(r, ua, p, c)
  PROVE  Final(p)
<1> DEFINE config == get_uln_config(ua)
<1>1. Trusted(config)
  BY DEF ConfigTrusted, RelayerVerify, relayer_verify
<1>2. /\ config.inbound_confirmations \in Confirmations
      /\ c >= config.inbound_confirmations
      /\ config.relayer = r
      /\ proposals[config.oracle][Sha3(p)] >= config.inbound_confirmations
  BY DEF RelayerVerify, relayer_verify, assert_proposal_exists, OwnTypeOK,
     get_uln_config, merge, UlnConfig
<1> HIDE DEF config
<1>3. CASE config.oracle \in HonestOracles
  <2>1. config.oracle \in Oracles /\ Sha3(p) \in PacketHashes
    BY <1>3, UlnAssumption DEF PacketHashes
  <2>2. proposals[config.oracle][Sha3(p)] \in Confirmations
    BY <2>1 DEF OwnTypeOK
  <2> QED
    BY <1>1, <1>2, <1>3, <2>2, UlnAssumption DEF Trusted, OracleKnows,
       Confirmations
<1>4. CASE config.relayer \in HonestRelayers
  BY <1>1, <1>2, <1>4, UlnAssumption DEF Trusted, RelayerVerify, Truthful,
     Confirmations
<1> QED
  BY <1>1, <1>3, <1>4 DEF Trusted

\* A hash newly accepted is that of a final packet, and final packets stay.
LEMMA NextGenuine ==
  ASSUME IInv, [Next]_vars
  PROVE  Genuine'
<1> USE DEF IInv
<1> SUFFICES ASSUME NEW u \in UAs, NEW s \in Remotes, NEW n \in Ch!Nonces,
                    accepted'[u][s][n] # NoHash
             PROVE  \E p \in onchain' :
                      /\ Final(p)'
                      /\ p.src_address = s /\ p.dst_chain_id = LocalChain
                      /\ p.dst_address = u /\ p.nonce = n
                      /\ Sha3(p.payload) = accepted'[u][s][n]
  BY DEF Genuine
<1>1. CASE accepted'[u][s][n] = accepted[u][s][n]
  <2>1. PICK p \in onchain :
          /\ Final(p)
          /\ p.src_address = s /\ p.dst_chain_id = LocalChain
          /\ p.dst_address = u /\ p.nonce = n
          /\ Sha3(p.payload) = accepted[u][s][n]
    BY <1>1 DEF Genuine
  <2>2. Final(p)'
    BY <2>1, FinalStable DEF OwnTypeOK
  <2> QED
    BY <1>1, <2>1, <2>2 DEF Final
<1>2. CASE accepted'[u][s][n] # accepted[u][s][n]
  <2>1. PICK r \in Relayers, ua \in UAs, p \in Packet, c \in Confirmations :
          /\ RelayerVerify(r, ua, p, c)
          /\ u = ua /\ s = p.src_address /\ n = p.nonce
          /\ accepted'[u][s][n] = Sha3(p.payload)
    BY <1>2, AcceptedStep
  <2>2. p.dst_address = u /\ p.dst_chain_id = LocalChain
    BY <2>1 DEF RelayerVerify, relayer_verify, receive
  <2>3. Final(p)'
    BY <2>1, VerifiedFinal, FinalStable
  <2> QED
    BY <2>1, <2>2, <2>3 DEF Final
<1> QED
  BY <1>1, <1>2

\* IInv is inductive.
LEMMA NextIInv == IInv /\ [Next]_vars => IInv'
<1> SUFFICES ASSUME IInv, [Next]_vars PROVE IInv'
  OBVIOUS
<1>1. C!IInv'
  <2>1. [C!Next]_(C!vars)
    BY ChannelStep DEF channelVars, C!vars
  <2> QED
    BY <2>1, ChannelAssumed, C!NextIInv DEF IInv
<1>2. OwnTypeOK' /\ OracleKnows' /\ ConfigTrusted' /\ NonceUnique'
  BY NextOwnTypeOK, NextOracleKnows, NextConfigTrusted, NextNonceUnique DEF IInv
<1>3. Genuine'
  BY NextGenuine
<1> QED
  BY <1>1, <1>2, <1>3 DEF IInv

\* IInv holds in every reachable state.
THEOREM Invariance == Spec => []IInv
BY InitIInv, NextIInv, PTL DEF Spec

-----------------------------------------------------------------------------

\* The state of the receiver and of its channels always has its types.
THEOREM TypeCorrect == Spec => []TypeOK
<1>1. IInv => TypeOK
  BY DEF IInv, OwnTypeOK, TypeOK, C!IInv, C!TypeOK, Ch!TypeOK, C!Channel,
     Ch!Channel, C!HashTable, Ch!HashTable, C!Nonces, Ch!Nonces
<1> QED
  BY <1>1, Invariance, PTL

\* Every hash in or out of a channel is that of a final packet, sent to this UA
\* on this chain under that nonce.
THEOREM GenuineHolds == Spec => []Genuine
BY Invariance, PTL DEF IInv

\* In a state with IInv, after a step to one, an accepted hash is still the
\* accepted hash: both are of the one packet with that path and nonce.
LEMMA StepNoSubstitution ==
  ASSUME IInv, IInv', [Next]_vars, NEW u \in UAs, NEW s \in Remotes,
         NEW n \in Ch!Nonces, accepted[u][s][n] # NoHash
  PROVE  accepted'[u][s][n] = accepted[u][s][n]
<1> SUFFICES ASSUME accepted'[u][s][n] # accepted[u][s][n] PROVE FALSE
  OBVIOUS
<1>1. accepted'[u][s][n] # NoHash
  BY AcceptedStep, UlnAssumption DEF IInv, Packet, Hashes
<1>2. PICK p \in onchain :
        /\ Final(p)
        /\ p.src_address = s /\ p.dst_chain_id = LocalChain
        /\ p.dst_address = u /\ p.nonce = n
        /\ Sha3(p.payload) = accepted[u][s][n]
  BY DEF IInv, Genuine
<1>3. PICK q \in onchain' :
        /\ q.src_address = s /\ q.dst_chain_id = LocalChain
        /\ q.dst_address = u /\ q.nonce = n
        /\ Sha3(q.payload) = accepted'[u][s][n]
  BY <1>1 DEF IInv, Genuine
<1>4. p \in onchain'
  BY <1>2, FinalStable DEF IInv, OwnTypeOK, Final
<1>5. p = q
  BY <1>2, <1>3, <1>4 DEF IInv, NonceUnique, SamePath
<1> QED
  BY <1>2, <1>3, <1>5

\* An accepted hash is never followed by another one for its nonce.
THEOREM NoSubstitutionHolds == Spec => NoSubstitution
<1>1. IInv /\ IInv' /\ [Next]_vars =>
        [\A ua \in UAs, s \in Remotes, n \in Ch!Nonces :
           accepted[ua][s][n] # NoHash =>
             accepted'[ua][s][n] = accepted[ua][s][n]]_vars
  BY StepNoSubstitution
<1> QED
  BY <1>1, Invariance, PTL DEF Spec, NoSubstitution
==============================================================================
