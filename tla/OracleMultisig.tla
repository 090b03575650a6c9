---------------------------- MODULE OracleMultisig ----------------------------
(***************************************************************************)
(* The oracle contract apps/oracle/sources/oracle.move: validators approve *)
(* a (packet hash, confirmations) pair, and the approval that reaches the  *)
(* threshold submits it to uln_receive under the contract's resource       *)
(* account.  A validator's approval stays when the validator is removed,   *)
(* and the threshold is compared only when an approval is added.           *)
(*                                                                         *)
(* Some accounts may be dishonest (Bad).  The administrators are assumed   *)
(* to make one a validator only while the threshold exceeds their number.  *)
(***************************************************************************)
EXTENDS Integers, Sequences, FiniteSets, FiniteSetsExt

CONSTANTS
  Accounts,         \* the accounts that may become validators
  Bad,              \* the dishonest ones among them
  Admins,           \* the accounts that may become administrator
  FirstAdmin,       \* @oracle
  Hashes,           \* packet hashes
  FakeHashes,       \* those of packets that do not exist
  MaxConfirmations, \* bound on confirmations
  MaxThreshold      \* bound on thresholds

ASSUME OracleAssumption ==
  /\ IsFiniteSet(Accounts) /\ Bad \subseteq Accounts /\ FakeHashes \subseteq Hashes
  /\ FirstAdmin \in Admins
  /\ MaxConfirmations \in Nat /\ MaxThreshold \in Nat

VARIABLES
  admin, validators, threshold, \* Config
  proposals,        \* ProposalStore
  confirmations     \* of uln_receive: what this oracle has proposed per hash

config == <<admin, validators, threshold>>
vars == <<config, proposals, confirmations>>

\* An absent proposal is one that nobody approved yet.
Proposal == [submitted : BOOLEAN, approved_by : Seq(Accounts)]

ProposalKey == [hash : Hashes, confirmations : 1 .. MaxConfirmations]

------------------------------------------------------------------------------

Init ==
  /\ admin = FirstAdmin
  /\ validators = {}
  /\ threshold = 0
  /\ proposals = [key \in ProposalKey |-> [submitted |-> FALSE, approved_by |-> <<>>]]
  /\ confirmations = [h \in Hashes |-> 0]

\* Mutant of oracle_propose: a lower number replaces a higher one.
OverwriteProposal(key) ==
  confirmations' = [confirmations EXCEPT ![key.hash] = key.confirmations]

\* uln_receive::oracle_propose: anything but a higher number aborts.
oracle_propose(key) ==
  /\ confirmations[key.hash] < key.confirmations
  /\ confirmations' = [confirmations EXCEPT ![key.hash] = key.confirmations]

\* Mutant of propose: a validator may approve again.
ProposeAgain(validator, key) ==
  LET approved == Append(proposals[key].approved_by, validator)
      reached  == Len(approved) >= threshold
  IN  /\ validator \in validators
      /\ ~proposals[key].submitted
      /\ proposals' = [proposals EXCEPT
           ![key] = [submitted |-> reached, approved_by |-> approved]]
      /\ IF reached THEN oracle_propose(key) ELSE UNCHANGED confirmations
      /\ UNCHANGED config

\* Mutant of propose: the threshold has to be exceeded.
ProposeBeyondThreshold(validator, key) ==
  LET approved == Append(proposals[key].approved_by, validator)
      reached  == Len(approved) > threshold
  IN  /\ validator \in validators
      /\ ~proposals[key].submitted
      /\ \A i \in DOMAIN proposals[key].approved_by :
           proposals[key].approved_by[i] # validator
      /\ proposals' = [proposals EXCEPT
           ![key] = [submitted |-> reached, approved_by |-> approved]]
      /\ IF reached THEN oracle_propose(key) ELSE UNCHANGED confirmations
      /\ UNCHANGED config

\* One transaction: the approval that reaches the threshold is undone if
\* oracle_propose aborts.
propose(validator, key) ==
  LET approved == Append(proposals[key].approved_by, validator)
      reached  == Len(approved) >= threshold
  IN  /\ validator \in validators
      /\ ~proposals[key].submitted
      /\ \A i \in DOMAIN proposals[key].approved_by :
           proposals[key].approved_by[i] # validator
      /\ proposals' = [proposals EXCEPT
           ![key] = [submitted |-> reached, approved_by |-> approved]]
      /\ IF reached THEN oracle_propose(key) ELSE UNCHANGED confirmations
      /\ UNCHANGED config

transfer_admin(account, new_admin) ==
  /\ account = admin
  /\ admin' = new_admin
  /\ UNCHANGED <<validators, threshold, proposals, confirmations>>

\* The vector of validators holds no account twice, and its order is not used.
set_validator(account, validator, active) ==
  /\ account = admin
  /\ active <=> validator \notin validators
  /\ validators' = IF active THEN validators \union {validator}
                   ELSE validators \ {validator}
  /\ Cardinality(validators') >= threshold
  /\ UNCHANGED <<admin, threshold, proposals, confirmations>>

\* Mutant of set_threshold: nothing is asserted.
SetAnyThreshold(account, new_threshold) ==
  /\ account = admin
  /\ threshold' = new_threshold
  /\ UNCHANGED <<admin, validators, proposals, confirmations>>

\* The assertion compares the threshold that is being replaced.
set_threshold(account, new_threshold) ==
  /\ account = admin
  /\ Cardinality(validators) >= threshold
  /\ threshold' = new_threshold
  /\ UNCHANGED <<admin, validators, proposals, confirmations>>

------------------------------------------------------------------------------

\* A dishonest account is a validator only under a threshold that needs more
\* approvals than all dishonest accounts can give.
Prudent(members, needed) == members \intersect Bad # {} => needed > Cardinality(Bad)

Propose(validator, key) ==
  /\ key.hash \in FakeHashes => validator \in Bad
  /\ propose(validator, key)

Administer ==
  \E account \in Admins :
    \/ \E new_admin \in Admins : transfer_admin(account, new_admin)
    \/ \E v \in Accounts, active \in BOOLEAN :
         set_validator(account, v, active) /\ Prudent(validators', threshold)
    \/ \E t \in 0 .. MaxThreshold :
         set_threshold(account, t) /\ Prudent(validators, t)

Next ==
  \/ Administer
  \/ \E v \in Accounts, key \in ProposalKey : Propose(v, key)

Spec == Init /\ [][Next]_vars

\* Honest validators keep approving what they can.
Fairness == \A v \in Accounts \ Bad, key \in ProposalKey : WF_vars(Propose(v, key))

FairSpec == Spec /\ Fairness

------------------------------------------------------------------------------
\* Properties.

\* The state has the types of the Move structs.
TypeOK ==
  /\ admin \in Admins
  /\ validators \in SUBSET Accounts
  /\ threshold \in 0 .. MaxThreshold
  /\ proposals \in [ProposalKey -> Proposal]
  /\ confirmations \in [Hashes -> 0 .. MaxConfirmations]

\* A dishonest minority cannot get a packet that does not exist proposed, not
\* by approving twice nor with approvals left from earlier memberships.
FakeNeverProposed == \A h \in FakeHashes : confirmations[h] = 0

\* What uln_receive has of this oracle is the highest pair it has submitted,
\* in whatever order the pairs of a hash reached the threshold: a submission
\* that uln_receive refuses is not marked as submitted.
ProposedIsHighestSubmitted ==
  \A h \in Hashes :
    confirmations[h] =
      Max({0} \union {key.confirmations : key \in
             {k \in ProposalKey : k.hash = h /\ proposals[k].submitted}})

\* A threshold that one more validator cannot reach is there for good, and so
\* are the validators: no administrative call gets past its assertion.
OverThresholdIsFinal ==
  [][Cardinality(validators) + 1 < threshold =>
       UNCHANGED <<validators, threshold>>]_vars

\* A pair that enough members can still bring to the threshold.
CanReach(key) ==
  LET approved == {proposals[key].approved_by[i] : i \in DOMAIN proposals[key].approved_by}
  IN  /\ threshold > 0
      /\ Cardinality(approved) < threshold
      /\ Cardinality(approved \union (validators \ Bad)) >= threshold

\* Honest validators get every real pair that they can bring to the threshold
\* proposed, with its confirmations or more, whatever was approved or submitted
\* before, unless the configuration changes first.
ReachableIsProposed ==
  \A key \in ProposalKey, members \in SUBSET Accounts, t \in 1 .. MaxThreshold :
    key.hash \notin FakeHashes =>
      (CanReach(key) /\ validators = members /\ threshold = t)
        ~> \/ confirmations[key.hash] >= key.confirmations
           \/ validators # members \/ threshold # t

\* What the assertions of set_validator and set_threshold state of the
\* configuration (oracle.move:144-147 and 154-157).
EnoughValidators == Cardinality(validators) >= threshold
==============================================================================
