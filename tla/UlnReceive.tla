------------------------------ MODULE UlnReceive ------------------------------
(***************************************************************************)
(* How a packet gets from the source chain into a channel: the ultra light *)
(* node (msglib-v1/v1-0/uln_receive.move) with its configuration           *)
(* (uln_config.move), the message library check (msglib_config.move) and   *)
(* endpoint::receive / endpoint::lz_receive (endpoint.move), over Channel. *)
(*                                                                         *)
(* An oracle submits the hash of a packet with the confirmations it has    *)
(* seen; the relayer the UA chose submits the packet; both must reach the  *)
(* confirmations the UA requires.  The design promises that a packet is    *)
(* genuine as long as the two do not collude.  The source chain reorgs up  *)
(* to Finality blocks, an honest party never claims Finality or more       *)
(* confirmations for a packet that lacks them, and nothing else is assumed *)
(* of anybody: a claim may be late, repeated, or wrong below Finality,     *)
(* where the block it was read from may be gone.                           *)
(*                                                                         *)
(* All packets here come from one source chain, so the configuration of a  *)
(* UA for that chain is indexed by the UA alone.                           *)
(***************************************************************************)
EXTENDS Integers, FiniteSets

CONSTANTS
  UAs,             \* the UA types of this chain
  Remotes,         \* the source addresses (the chain id is fixed)
  Payloads,
  MaxNonce,        \* bound on the nonces
  NoHash,
  DstChains,       \* destination chain ids found in packets
  LocalChain,      \* the chain id of this chain
  Oracles, Relayers,
  HonestOracles, HonestRelayers,
  Null,            \* the address @0x00
  Finality,        \* confirmations that no reorg of the source chain undoes
  MaxConfirmations,\* bound on confirmations
  Versions         \* the receive library versions that get configured

\* The version of the library whose capability uln_receive holds, and the two
\* special versions of semver.move.
ULN      == "1.0"
DEFAULT  == "default"
BLOCKING == "blocking"

\* sha3_256 as a collision-free constructor.
Sha3(data) == [sha3 |-> data]

Hashes == {Sha3(p) : p \in Payloads}

ASSUME UlnAssumption ==
  /\ MaxNonce \in Nat /\ NoHash \notin Hashes
  /\ Null \notin Oracles \union Relayers
  /\ HonestOracles \subseteq Oracles /\ HonestRelayers \subseteq Relayers
  /\ MaxConfirmations \in Nat /\ Finality \in 1 .. MaxConfirmations
  /\ LocalChain \in DstChains
  /\ Versions \subseteq {ULN, DEFAULT, BLOCKING}

VARIABLES
  registered, channels, accepted, handed, \* of Channel
  onchain,         \* the packets on the source chain
  depth,           \* their confirmations
  proposals,       \* ProposalStore: confirmations by oracle and packet hash
  default_config,  \* DefaultUlnConfig of the source chain
  ua_config,       \* UaUlnConfig of the source chain, by UA
  default_version, \* MsgLibConfig.receive_version of @layerzero
  ua_version,      \* MsgLibConfig.receive_version of the UAs
  address_size     \* whether ChainConfig has the address size of the source chain

channelVars == <<registered, channels, accepted, handed>>
sourceVars  == <<onchain, depth>>
configVars  == <<default_config, ua_config, default_version, ua_version, address_size>>
vars == <<channelVars, sourceVars, proposals, configVars>>

Ch == INSTANCE Channel

Packet == [src_address : Remotes, dst_chain_id : DstChains,
           dst_address : UAs, nonce : Ch!Nonces, payload : Payloads]

PacketHashes == {Sha3(p) : p \in Packet}

Confirmations == 0 .. MaxConfirmations

UlnConfig == [oracle : Oracles \union {Null}, relayer : Relayers \union {Null},
              inbound_confirmations : Confirmations]

\* default_uln_config(): what a UA that configured nothing has, and, in the
\* default table, the value that stands for a chain that is not configured
\* (set_default_config can never store it).
default_uln_config ==
  [oracle |-> Null, relayer |-> Null, inbound_confirmations |-> 0]

------------------------------------------------------------------------------
\* The configuration in force.

is_valid_default_uln_config(config) ==
  config.oracle # Null /\ config.relayer # Null /\ config.inbound_confirmations > 0

\* A field of the UA's configuration, or the default where it is null.
merge(config, default) ==
  [oracle  |-> IF config.oracle # Null THEN config.oracle ELSE default.oracle,
   relayer |-> IF config.relayer # Null THEN config.relayer ELSE default.relayer,
   inbound_confirmations |->
     IF config.inbound_confirmations # 0 THEN config.inbound_confirmations
     ELSE default.inbound_confirmations]

\* get_default_uln_config aborts if the chain has no default.
has_uln_config == default_config # default_uln_config
get_uln_config(ua) == merge(ua_config[ua], default_config)

get_receive_msglib(ua) ==
  IF ua_version[ua] = DEFAULT THEN default_version ELSE ua_version[ua]

------------------------------------------------------------------------------
\* The source chain: the other endpoint numbers the packets of each path, and
\* a reorg takes back packets that are not final.

SamePath(p, q) ==
  /\ p.src_address = q.src_address
  /\ p.dst_chain_id = q.dst_chain_id
  /\ p.dst_address = q.dst_address

Final(p) == p \in onchain /\ depth[p] >= Finality

SourceSend(p) ==
  /\ \A q \in onchain : SamePath(p, q) => q.nonce < p.nonce
  /\ \A n \in 1 .. p.nonce - 1 : \E q \in onchain : SamePath(p, q) /\ q.nonce = n
  /\ onchain' = onchain \union {p}
  /\ depth' = [depth EXCEPT ![p] = 0]
  /\ UNCHANGED <<channelVars, proposals, configVars>>

SourceBlock ==
  /\ depth' = [p \in Packet |->
       IF p \in onchain /\ depth[p] < MaxConfirmations THEN depth[p] + 1 ELSE depth[p]]
  /\ depth' # depth
  /\ UNCHANGED <<channelVars, onchain, proposals, configVars>>

SourceReorg(blocks) ==
  /\ onchain' = {p \in onchain : depth[p] >= blocks}
  /\ onchain' # onchain
  /\ depth' = [p \in Packet |-> IF p \in onchain' THEN depth[p] ELSE 0]
  /\ UNCHANGED <<channelVars, proposals, configVars>>

\* What an honest party may claim of a packet.
Truthful(p, confirmations) ==
  confirmations >= Finality => Final(p) /\ depth[p] >= confirmations

------------------------------------------------------------------------------
\* Configuration.

\* Whoever configures keeps the two parties of every UA from colluding and the
\* required confirmations final: the assumption the promise rests on.
Trusted(config) ==
  /\ config.oracle \in HonestOracles \/ config.relayer \in HonestRelayers
  /\ config.inbound_confirmations >= Finality

\* merge leaves the default in force wherever a UA set nothing, so a new
\* default is checked against every UA.
set_default_config(config) ==
  /\ is_valid_default_uln_config(config)
  /\ default_config' = config
  /\ \A ua \in UAs : Trusted(merge(ua_config[ua], config))
  /\ UNCHANGED <<channelVars, sourceVars, proposals, ua_config,
                 default_version, ua_version, address_size>>

\* set_ua_config sets one field; 0 returns it to the default.
set_ua_config(ua, config) ==
  /\ ua \in registered
  /\ \/ \E o \in Oracles \union {Null} :
          config = [ua_config[ua] EXCEPT !.oracle = o]
     \/ \E r \in Relayers \union {Null} :
          config = [ua_config[ua] EXCEPT !.relayer = r]
     \/ \E c \in Confirmations :
          config = [ua_config[ua] EXCEPT !.inbound_confirmations = c]
  /\ has_uln_config => Trusted(merge(config, default_config))
  /\ ua_config' = [ua_config EXCEPT ![ua] = config]
  /\ UNCHANGED <<channelVars, sourceVars, proposals, default_config,
                 default_version, ua_version, address_size>>

\* The default cannot be "the default".
set_default_receive_msglib(version) ==
  /\ version # DEFAULT
  /\ default_version' = version
  /\ UNCHANGED <<channelVars, sourceVars, proposals, default_config, ua_config,
                 ua_version, address_size>>

set_receive_msglib(ua, version) ==
  /\ ua \in registered
  /\ ua_version' = [ua_version EXCEPT ![ua] = version]
  /\ UNCHANGED <<channelVars, sourceVars, proposals, default_config, ua_config,
                 default_version, address_size>>

\* Once for a chain, before or after its default configuration.
set_chain_address_size ==
  /\ ~address_size
  /\ address_size' = TRUE
  /\ UNCHANGED <<channelVars, sourceVars, proposals, default_config, ua_config,
                 default_version, ua_version>>

register_ua(ua) ==
  /\ Ch!register(ua)
  /\ UNCHANGED <<sourceVars, proposals, configVars>>

------------------------------------------------------------------------------
\* Packets.

\* Mutant of oracle_propose: a first claim is final.
OracleProposeOnce(oracle, hash, confirmations) ==
  /\ proposals[oracle][hash] = 0 /\ confirmations > 0
  /\ proposals' = [proposals EXCEPT ![oracle][hash] = confirmations]
  /\ UNCHANGED <<channelVars, sourceVars, configVars>>

\* Anyone may propose under its own key, and only raise its confirmations.  An
\* absent proposal reads as 0: a UA always requires more than that.
oracle_propose(oracle, hash, confirmations) ==
  /\ proposals[oracle][hash] < confirmations
  /\ proposals' = [proposals EXCEPT ![oracle][hash] = confirmations]
  /\ UNCHANGED <<channelVars, sourceVars, configVars>>

\* endpoint::receive with the capability of uln_receive.
receive(ua, p) ==
  /\ get_receive_msglib(ua) = ULN
  /\ p.dst_address = ua
  /\ p.dst_chain_id = LocalChain
  /\ Ch!receive(ua, p.src_address, p.nonce, Sha3(p.payload))

\* Mutant of assert_proposal_exists: any number of confirmations will do.
ProposedAtAll(oracle, hash, required) == proposals[oracle][hash] > 0

\* Mutant of assert_proposal_exists: any oracle will do.
ProposedByAny(oracle, hash, required) ==
  \E o \in Oracles : proposals[o][hash] >= required

assert_proposal_exists(oracle, hash, required) ==
  proposals[oracle][hash] >= required

\* The default, and so what merge returns, names an oracle and a relayer; the
\* addresses of a chain without an address size cannot be decoded.
relayer_verify(relayer, ua, p, confirmations) ==
  /\ has_uln_config
  /\ LET config   == get_uln_config(ua)
         required == config.inbound_confirmations
     IN  /\ confirmations >= required
         /\ config.relayer = relayer
         /\ assert_proposal_exists(config.oracle, Sha3(p), required)
  /\ address_size
  /\ receive(ua, p)
  /\ UNCHANGED <<sourceVars, proposals, configVars>>

\* The UA consumes the next payload: inbound(), then the hash check, in one
\* transaction.
lz_receive(ua, src_address, payload) ==
  /\ Ch!inbound(ua, src_address)
  /\ handed'[ua][src_address][channels'[ua][src_address].inbound_nonce]
       = Sha3(payload)
  /\ UNCHANGED <<sourceVars, proposals, configVars>>

------------------------------------------------------------------------------

Init ==
  /\ Ch!Init
  /\ onchain = {}
  /\ depth = [p \in Packet |-> 0]
  /\ proposals = [o \in Oracles |-> [h \in PacketHashes |-> 0]]
  /\ default_config = default_uln_config
  /\ ua_config = [ua \in UAs |-> default_uln_config]
  /\ default_version = BLOCKING \* or not set: receive aborts the same way
  /\ ua_version = [ua \in UAs |-> DEFAULT]
  /\ address_size = FALSE

Source ==
  \/ \E p \in Packet : SourceSend(p)
  \/ SourceBlock
  \/ \E blocks \in 1 .. Finality : SourceReorg(blocks)

Configure ==
  \/ \E config \in UlnConfig : set_default_config(config)
  \/ \E ua \in UAs, config \in UlnConfig : set_ua_config(ua, config)
  \/ \E v \in Versions : set_default_receive_msglib(v)
  \/ \E ua \in UAs, v \in Versions : set_receive_msglib(ua, v)
  \/ \E ua \in UAs : register_ua(ua)
  \/ set_chain_address_size

OraclePropose(oracle, p, confirmations) ==
  /\ oracle \in HonestOracles => Truthful(p, confirmations)
  /\ oracle_propose(oracle, Sha3(p), confirmations)

RelayerVerify(relayer, ua, p, confirmations) ==
  /\ relayer \in HonestRelayers => Truthful(p, confirmations)
  /\ relayer_verify(relayer, ua, p, confirmations)

Deliver ==
  \/ \E o \in Oracles, p \in Packet, c \in Confirmations : OraclePropose(o, p, c)
  \/ \E r \in Relayers, ua \in UAs, p \in Packet, c \in Confirmations :
       RelayerVerify(r, ua, p, c)
  \/ \E ua \in UAs, s \in Remotes, payload \in Payloads :
       lz_receive(ua, s, payload)

Next == Source \/ Configure \/ Deliver

Spec == Init /\ [][Next]_vars

\* Off-chain parties that keep running: the source chain makes blocks, honest
\* oracles propose and honest relayers submit what is as deep as it gets.
Fairness ==
  /\ WF_vars(SourceBlock)
  /\ \A o \in HonestOracles, p \in Packet :
       WF_vars(OraclePropose(o, p, MaxConfirmations))
  /\ \A r \in HonestRelayers, p \in Packet :
       WF_vars(RelayerVerify(r, p.dst_address, p, MaxConfirmations))

FairSpec == Spec /\ Fairness

------------------------------------------------------------------------------
\* Properties.

\* The state has the types of the Move structs.
TypeOK ==
  /\ Ch!TypeOK
  /\ onchain \in SUBSET Packet
  /\ depth \in [Packet -> Confirmations]
  /\ proposals \in [Oracles -> [PacketHashes -> Confirmations]]
  /\ default_config \in UlnConfig
  /\ ua_config \in [UAs -> UlnConfig]
  /\ default_version \in {ULN, BLOCKING}
  /\ ua_version \in [UAs -> {ULN, DEFAULT, BLOCKING}]
  /\ address_size \in BOOLEAN

\* A hash in or out of a channel is that of the packet the source chain sent
\* to this UA on this chain under that nonce, and no reorg can undo it: what
\* relayer_verify and endpoint::receive check together is enough.
Genuine ==
  \A ua \in UAs, s \in Remotes, n \in Ch!Nonces :
    accepted[ua][s][n] # NoHash =>
      \E p \in onchain :
        /\ Final(p)
        /\ p.src_address = s /\ p.dst_chain_id = LocalChain
        /\ p.dst_address = ua /\ p.nonce = n
        /\ Sha3(p.payload) = accepted[ua][s][n]

\* channel::receive overwrites, yet a hash once accepted is never followed by
\* a different one for its nonce, whoever the UA appoints later.
NoSubstitution ==
  [][\A ua \in UAs, s \in Remotes, n \in Ch!Nonces :
       accepted[ua][s][n] # NoHash => accepted'[ua][s][n] = accepted[ua][s][n]]_vars

\* The parties and the library a UA has in force can deliver.
CanReceive(ua) ==
  /\ ua \in registered /\ has_uln_config /\ address_size
  /\ get_uln_config(ua).oracle \in HonestOracles
  /\ get_uln_config(ua).relayer \in HonestRelayers
  /\ get_receive_msglib(ua) = ULN

\* Early claims, claims under former appointments and dishonest parties cannot
\* keep a final packet out: once the UA's configuration settles on honest
\* parties it is accepted.
FinalIsAccepted ==
  \A p \in Packet : p.dst_chain_id = LocalChain =>
    (<>[]CanReceive(p.dst_address) =>
       (Final(p) ~> accepted[p.dst_address][p.src_address][p.nonce] # NoHash))
==============================================================================
