------------------------------- MODULE Channel -------------------------------
(***************************************************************************)
(* The nonce and payload-hash channels of layerzero/sources/channel.move.  *)
(*                                                                         *)
(* Every registered user application (UA) owns one channel per remote      *)
(* endpoint, a (chain id, address) pair.  A channel counts the messages    *)
(* sent to the remote, and keeps, for messages from the remote, the        *)
(* verified payload hashes that the UA has not consumed yet.  Hashes are   *)
(* accepted in any order above the inbound nonce and are handed over in    *)
(* nonce order, one at a time.                                             *)
(*                                                                         *)
(* A Move transaction that aborts leaves no trace, so each assertion of a  *)
(* function is a guard of its action.                                      *)
(***************************************************************************)
EXTENDS Naturals

CONSTANTS
  UAs,        \* the UA types, one per account
  Remotes,    \* the remote endpoints: struct Remote {chain_id, addr}
  Hashes,     \* the payload hashes
  MaxNonce,   \* bound on the nonces (u64 in the code)
  NoHash      \* "this nonce is not in the table"

ASSUME ChannelAssumption == MaxNonce \in Nat /\ NoHash \notin Hashes

VARIABLES
  registered, \* the UAs that own a Channels resource
  channels,   \* channels[ua][remote]: struct Channel
  accepted,   \* history: the hash receive() accepted last for each nonce
  handed      \* history: the hash inbound() returned for each nonce

vars == <<registered, channels, accepted, handed>>

Nonces == 1 .. MaxNonce

\* A table from nonces to hashes.
HashTable == [Nonces -> Hashes \union {NoHash}]

Channel == [outbound_nonce : 0 .. MaxNonce,
            inbound_nonce  : 0 .. MaxNonce,
            payload_hashs  : HashTable]

EmptyTable == [n \in Nonces |-> NoHash]

\* get_channel_mut creates a channel on first use; a channel that does not
\* exist yet reads as this one in every view, so it is there from the start.
NewChannel == [outbound_nonce |-> 0,
               inbound_nonce  |-> 0,
               payload_hashs  |-> EmptyTable]

------------------------------------------------------------------------------
\* The views of the module.

inbound_nonce(ua, remote)  == channels[ua][remote].inbound_nonce
outbound_nonce(ua, remote) == channels[ua][remote].outbound_nonce
payload_hash(ua, remote, nonce) == channels[ua][remote].payload_hashs[nonce]

have_next_inbound(ua, remote) ==
  /\ inbound_nonce(ua, remote) < MaxNonce
  /\ payload_hash(ua, remote, inbound_nonce(ua, remote) + 1) # NoHash

------------------------------------------------------------------------------

Init ==
  /\ registered = {}
  /\ channels = [ua \in UAs |-> [r \in Remotes |-> NewChannel]]
  /\ accepted = [ua \in UAs |-> [r \in Remotes |-> EmptyTable]]
  /\ handed   = [ua \in UAs |-> [r \in Remotes |-> EmptyTable]]

\* move_to aborts if the account already has its channels.
register(ua) ==
  /\ ua \notin registered
  /\ registered' = registered \union {ua}
  /\ UNCHANGED <<channels, accepted, handed>>

\* Mutant of outbound: the counter runs past the largest nonce.
OutboundUnbounded(ua, remote) ==
  /\ ua \in registered
  /\ outbound_nonce(ua, remote) <= MaxNonce
  /\ channels' = [channels EXCEPT ![ua][remote].outbound_nonce = @ + 1]
  /\ UNCHANGED <<registered, accepted, handed>>

\* The nonce given to a message that is sent.
outbound(ua, remote) ==
  /\ ua \in registered
  /\ outbound_nonce(ua, remote) < MaxNonce
  /\ channels' = [channels EXCEPT ![ua][remote].outbound_nonce = @ + 1]
  /\ UNCHANGED <<registered, accepted, handed>>

\* Mutant of receive: the nonce consumed last is accepted again.
ReceiveAtCursor(ua, remote, nonce, hash) ==
  /\ ua \in registered
  /\ nonce >= inbound_nonce(ua, remote)
  /\ channels' = [channels EXCEPT ![ua][remote].payload_hashs[nonce] = hash]
  /\ accepted' = [accepted EXCEPT ![ua][remote][nonce] = hash]
  /\ UNCHANGED <<registered, handed>>

\* Mutant of receive: the next nonce is taken for a consumed one.
ReceiveAfterNext(ua, remote, nonce, hash) ==
  /\ ua \in registered
  /\ nonce > inbound_nonce(ua, remote) + 1
  /\ channels' = [channels EXCEPT ![ua][remote].payload_hashs[nonce] = hash]
  /\ accepted' = [accepted EXCEPT ![ua][remote][nonce] = hash]
  /\ UNCHANGED <<registered, handed>>

\* A verified hash: stored, or replaced, as long as its nonce is not consumed.
receive(ua, remote, nonce, hash) ==
  /\ ua \in registered
  /\ nonce > inbound_nonce(ua, remote)
  /\ channels' = [channels EXCEPT ![ua][remote].payload_hashs[nonce] = hash]
  /\ accepted' = [accepted EXCEPT ![ua][remote][nonce] = hash]
  /\ UNCHANGED <<registered, handed>>

\* Mutant of inbound: the consumed hash stays in the table.
InboundWithoutRemove(ua, remote) ==
  /\ ua \in registered
  /\ have_next_inbound(ua, remote)
  /\ LET next == inbound_nonce(ua, remote) + 1
     IN  /\ channels' = [channels EXCEPT ![ua][remote].inbound_nonce = next]
         /\ handed' = [handed EXCEPT
              ![ua][remote][next] = payload_hash(ua, remote, next)]
  /\ UNCHANGED <<registered, accepted>>

\* Mutant of inbound: the cursor jumps over nonces that have not arrived.
InboundOverGap(ua, remote) ==
  /\ ua \in registered
  /\ \E next \in Nonces :
       /\ next > inbound_nonce(ua, remote)
       /\ payload_hash(ua, remote, next) # NoHash
       /\ channels' = [channels EXCEPT
            ![ua][remote].inbound_nonce = next,
            ![ua][remote].payload_hashs[next] = NoHash]
       /\ handed' = [handed EXCEPT
            ![ua][remote][next] = payload_hash(ua, remote, next)]
  /\ UNCHANGED <<registered, accepted>>

\* The UA consumes the next hash; it leaves the table.
inbound(ua, remote) ==
  /\ ua \in registered
  /\ have_next_inbound(ua, remote)
  /\ LET next == inbound_nonce(ua, remote) + 1
     IN  /\ channels' = [channels EXCEPT
              ![ua][remote].inbound_nonce = next,
              ![ua][remote].payload_hashs[next] = NoHash]
         /\ handed' = [handed EXCEPT
              ![ua][remote][next] = payload_hash(ua, remote, next)]
  /\ UNCHANGED <<registered, accepted>>

Next ==
  \E ua \in UAs :
    \/ register(ua)
    \/ \E r \in Remotes :
         \/ outbound(ua, r)
         \/ inbound(ua, r)
         \/ \E n \in Nonces, h \in Hashes : receive(ua, r, n, h)

Spec == Init /\ [][Next]_vars

------------------------------------------------------------------------------
\* Properties.

\* The state has the types of the Move structs.
TypeOK ==
  /\ registered \in SUBSET UAs
  /\ channels \in [UAs -> [Remotes -> Channel]]
  /\ accepted \in [UAs -> [Remotes -> HashTable]]
  /\ handed   \in [UAs -> [Remotes -> HashTable]]

\* receive() rejects consumed nonces and inbound() removes what it returns, so
\* no hash is ever stored at or below the inbound nonce, where nothing could
\* read or replace it again.
NoStaleHash ==
  \A ua \in UAs, r \in Remotes, n \in Nonces :
    n <= inbound_nonce(ua, r) => payload_hash(ua, r, n) = NoHash

\* Hashes may arrive in any order and be replaced: the UA is handed, for every
\* nonce up to the inbound nonce and for none above it, the hash accepted last;
\* above it the table holds exactly the hashes accepted last.
HandedInOrder ==
  \A ua \in UAs, r \in Remotes, n \in Nonces :
    IF n <= inbound_nonce(ua, r)
    THEN handed[ua][r][n] = accepted[ua][r][n] /\ handed[ua][r][n] # NoHash
    ELSE handed[ua][r][n] = NoHash
         /\ payload_hash(ua, r, n) = accepted[ua][r][n]

\* One step leaves what was handed over, and what it was accepted as, alone.
HandedKept ==
  \A ua \in UAs, r \in Remotes, n \in Nonces :
    handed[ua][r][n] # NoHash =>
      /\ handed'[ua][r][n] = handed[ua][r][n]
      /\ accepted'[ua][r][n] = accepted[ua][r][n]
      /\ channels'[ua][r].payload_hashs[n] = NoHash

\* A hash the UA has been handed is never handed again, taken back or followed
\* by another one for its nonce, whatever is received afterwards.
HandedOnce == [][HandedKept]_vars
==============================================================================
