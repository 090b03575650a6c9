-------------------------------- MODULE LzApp --------------------------------
(***************************************************************************)
(* A user application at the receiving end: the entry functions of         *)
(* lzapp.move, remote.move and counter.move over its Channel.              *)
(*                                                                         *)
(* The packets that reach the channel are those of UlnReceive: genuine, in *)
(* any order, any number of times.  Then anyone may call the application's *)
(* lz_receive with any payload; the owner may drop the next payload or set *)
(* it aside; anyone may retry what was set aside.  An application may      *)
(* reject a payload, which aborts the whole transaction: the counter       *)
(* accepts all, the bridge rejects a coin it does not know.  The senders   *)
(* are addresses on one source chain, of which the application trusts one  *)
(* at a time.                                                              *)
(***************************************************************************)
EXTENDS Integers, Sequences, FiniteSets

CONSTANTS
  UA,            \* the application
  Remotes,       \* sender addresses on the source chain
  Payloads,
  Poison,        \* the payloads the application's handler aborts on
  MaxNonce,      \* bound on the messages of a path
  NoHash,
  NoRemote       \* "no trusted remote for the chain"

\* sha3_256 as a collision-free constructor.
Sha3(data) == [sha3 |-> data]

ASSUME LzAppAssumption ==
  /\ Poison \subseteq Payloads
  /\ MaxNonce \in Nat
  /\ NoHash \notin {Sha3(p) : p \in Payloads}
  /\ NoRemote \notin Remotes

VARIABLES
  registered, channels, accepted, handed, \* of Channel
  sent,             \* the final payloads of each path, in nonce order
  remotes,          \* Remotes.peers: the trusted address on the source chain
  stored_payloads,  \* StoredPayload: hash by origin
  effects           \* the payloads the application handled, in order; Counter.i
                    \* of the counter is their number

channelVars == <<registered, channels, accepted, handed>>
appVars == <<stored_payloads, effects>>
vars == <<channelVars, sent, remotes, appVars>>

Ch == INSTANCE Channel WITH UAs <- {UA}, Hashes <- {Sha3(p) : p \in Payloads}

inbound_nonce(src) == Ch!inbound_nonce(UA, src)

has_stored_payload(src, nonce) == stored_payloads[src][nonce] # NoHash

------------------------------------------------------------------------------

Init ==
  /\ registered = {UA}
  /\ channels = [ua \in {UA} |-> [r \in Remotes |-> Ch!NewChannel]]
  /\ accepted = [ua \in {UA} |-> [r \in Remotes |-> Ch!EmptyTable]]
  /\ handed   = [ua \in {UA} |-> [r \in Remotes |-> Ch!EmptyTable]]
  /\ sent = [r \in Remotes |-> <<>>]
  /\ remotes = NoRemote
  /\ stored_payloads = [r \in Remotes |-> Ch!EmptyTable]
  /\ effects = <<>>

\* A message becomes final on the source chain.
Send(src, payload) ==
  /\ Len(sent[src]) < MaxNonce
  /\ sent' = [sent EXCEPT ![src] = Append(@, payload)]
  /\ UNCHANGED <<channelVars, remotes, appVars>>

\* Its packet is verified, for the first time or again.
Receive(src, nonce) ==
  /\ nonce <= Len(sent[src])
  /\ Ch!receive(UA, src, nonce, Sha3(sent[src][nonce]))
  /\ UNCHANGED <<sent, remotes, appVars>>

\* remote::set
set_remote(src) ==
  /\ remotes' = src
  /\ UNCHANGED <<channelVars, sent, appVars>>

assert_remote(src) == remotes = src

\* endpoint::lz_receive: consume the next hash, abort unless it is that of the
\* payload.
endpoint_lz_receive(src, payload) ==
  /\ Ch!inbound(UA, src)
  /\ Ch!payload_hash(UA, src, inbound_nonce(src) + 1) = Sha3(payload)
  /\ UNCHANGED <<sent, remotes>>

\* The application's own part of lz_receive and retry_payload.
Handle(src, nonce, payload) ==
  /\ payload \notin Poison
  /\ effects' = Append(effects, [path |-> src, nonce |-> nonce, payload |-> payload])

lz_receive(src, payload) ==
  /\ assert_remote(src)
  /\ endpoint_lz_receive(src, payload)
  /\ Handle(src, inbound_nonce(src) + 1, payload)
  /\ UNCHANGED stored_payloads

\* The owner consumes the next payload and does nothing with it.
force_resume(src, payload) ==
  /\ endpoint_lz_receive(src, payload)
  /\ UNCHANGED appVars

\* Mutant of store_next_payload: the payload is copied, not consumed.
StoreWithoutConsuming(src, payload) ==
  /\ Ch!have_next_inbound(UA, src)
  /\ Ch!payload_hash(UA, src, inbound_nonce(src) + 1) = Sha3(payload)
  /\ ~has_stored_payload(src, inbound_nonce(src) + 1)
  /\ stored_payloads' =
       [stored_payloads EXCEPT ![src][inbound_nonce(src) + 1] = Sha3(payload)]
  /\ UNCHANGED <<channelVars, sent, remotes, effects>>

\* The owner sets the next payload aside; table::add aborts on a second entry.
store_next_payload(src, payload) ==
  /\ endpoint_lz_receive(src, payload)
  /\ LET nonce == inbound_nonce(src) + 1
     IN  /\ ~has_stored_payload(src, nonce)
         /\ stored_payloads' = [stored_payloads EXCEPT ![src][nonce] = Sha3(payload)]
  /\ UNCHANGED effects

\* Mutant of remove_stored_paylaod: the entry is read and stays.
StoredPayloadKept(src, nonce, payload) ==
  /\ has_stored_payload(src, nonce)
  /\ UNCHANGED stored_payloads
  /\ stored_payloads[src][nonce] = Sha3(payload)

\* The entry is removed, then compared: a wrong payload aborts and keeps it.
remove_stored_paylaod(src, nonce, payload) ==
  /\ has_stored_payload(src, nonce)
  /\ stored_payloads' = [stored_payloads EXCEPT ![src][nonce] = NoHash]
  /\ stored_payloads[src][nonce] = Sha3(payload)

retry_payload(src, nonce, payload) ==
  /\ remove_stored_paylaod(src, nonce, payload)
  /\ Handle(src, nonce, payload)
  /\ UNCHANGED <<channelVars, sent, remotes>>

Next ==
  \E src \in Remotes :
    \/ set_remote(src)
    \/ \E nonce \in Ch!Nonces : Receive(src, nonce)
    \/ \E payload \in Payloads :
         \/ Send(src, payload)
         \/ lz_receive(src, payload)
         \/ force_resume(src, payload)
         \/ store_next_payload(src, payload)
         \/ \E nonce \in Ch!Nonces : retry_payload(src, nonce, payload)

Spec == Init /\ [][Next]_vars

\* The next payload is one the application cannot take by itself.
Blocked(src) ==
  /\ inbound_nonce(src) < Len(sent[src])
  /\ sent[src][inbound_nonce(src) + 1] \in Poison

Unblock(src, payload) ==
  Blocked(src) /\ (force_resume(src, payload) \/ store_next_payload(src, payload))

\* Relayers deliver every final packet, an executor runs what it can, and the
\* owner attends to a path that is blocked; nobody has to retry or to drop.
Fairness ==
  \A src \in Remotes :
    /\ \A nonce \in Ch!Nonces : WF_vars(Receive(src, nonce))
    /\ WF_vars(\E payload \in Payloads : lz_receive(src, payload))
    /\ WF_vars(\E payload \in Payloads : Unblock(src, payload))

FairSpec == Spec /\ Fairness

------------------------------------------------------------------------------
\* Properties.

\* The state has the types of the Move structs.
TypeOK ==
  /\ Ch!TypeOK
  /\ sent \in [Remotes -> Seq(Payloads)]
  /\ remotes \in Remotes \union {NoRemote}
  /\ stored_payloads \in [Remotes -> Ch!HashTable]
  /\ effects \in Seq([path : Remotes, nonce : Ch!Nonces, payload : Payloads])

\* The fate of a message, read off the channel, the store and the effects.
WasHandled(src, nonce) ==
  \E i \in DOMAIN effects : effects[i].path = src /\ effects[i].nonce = nonce

Fate(src, nonce) ==
  IF nonce > inbound_nonce(src) THEN "waiting"
  ELSE IF has_stored_payload(src, nonce) THEN "stored"
  ELSE IF WasHandled(src, nonce) THEN "handled"
  ELSE "dropped"

Inbox == INSTANCE OrderedInbox WITH
  Paths <- Remotes,
  fate <- [src \in Remotes |-> [n \in Ch!Nonces |-> Fate(src, n)]]

\* Whatever relayers, executors, owner and retrying users do and repeat, each
\* message is taken in order and handled at most once, with its own payload.
ImplementsInbox == Inbox!Spec

\* A stored payload is that of a consumed message that was not handled, so that
\* store_next_payload never finds its slot taken and a retry runs only once.
StoredIsPending ==
  \A src \in Remotes, n \in Ch!Nonces :
    has_stored_payload(src, n) =>
      /\ n <= inbound_nonce(src)
      /\ stored_payloads[src][n] = Sha3(sent[src][n])
      /\ ~WasHandled(src, n)

\* No message of the sender the application settles on waits forever, also
\* behind payloads that the application rejects.
EveryMessageIsTaken ==
  \A src \in Remotes, n \in Ch!Nonces :
    <>[](remotes = src) => (Len(sent[src]) >= n ~> inbound_nonce(src) >= n)
==============================================================================
