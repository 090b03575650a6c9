----------------------------- MODULE OrderedInbox -----------------------------
(***************************************************************************)
(* What an application is promised about the messages of each path: they   *)
(* are taken in the order they were sent; each one is handled, or dropped, *)
(* or set aside; one that was set aside may be handled at any later time;  *)
(* none is handled twice, and what is handled is what was sent.            *)
(***************************************************************************)
EXTENDS Naturals, Sequences

CONSTANTS
  Paths,      \* the senders
  Payloads,
  MaxNonce    \* bound on the messages of a path

VARIABLES
  sent,       \* sent[path]: the payloads sent, in order
  fate,       \* fate[path][n]: what became of the n-th
  effects     \* what the application handled, in order

inboxVars == <<sent, fate, effects>>

Nonces == 1 .. MaxNonce
Fates  == {"waiting", "handled", "stored", "dropped"}

\* The n-th message of the path is the next one to be taken.
IsNext(path, n) ==
  /\ n <= Len(sent[path]) /\ fate[path][n] = "waiting"
  /\ \A m \in 1 .. n - 1 : fate[path][m] # "waiting"

Effect(path, n) == [path |-> path, nonce |-> n, payload |-> sent[path][n]]

Init ==
  /\ sent = [path \in Paths |-> <<>>]
  /\ fate = [path \in Paths |-> [n \in Nonces |-> "waiting"]]
  /\ effects = <<>>

Send(path) ==
  /\ \E payload \in Payloads : sent' = [sent EXCEPT ![path] = Append(@, payload)]
  /\ UNCHANGED <<fate, effects>>

Take(path, n) ==
  /\ IsNext(path, n)
  /\ \E f \in Fates \ {"waiting"} :
       /\ fate' = [fate EXCEPT ![path][n] = f]
       /\ effects' = IF f = "handled" THEN Append(effects, Effect(path, n))
                     ELSE effects
  /\ UNCHANGED sent

HandleStored(path, n) ==
  /\ fate[path][n] = "stored"
  /\ fate' = [fate EXCEPT ![path][n] = "handled"]
  /\ effects' = Append(effects, Effect(path, n))
  /\ UNCHANGED sent

Next ==
  \E path \in Paths :
    \/ Send(path)
    \/ \E n \in Nonces : Take(path, n) \/ HandleStored(path, n)

Spec == Init /\ [][Next]_inboxVars
==============================================================================
