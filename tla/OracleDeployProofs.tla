------------------------- MODULE OracleDeployProofs --------------------------
(***************************************************************************)
(* Theorems of two modules.                                                *)
(*                                                                         *)
(* OracleMultisig: a dishonest minority of validators cannot have a packet *)
(* proposed that does not exist; what uln_receive has is the highest       *)
(* submission; and a threshold out of reach stays: for all accounts, hashes *)
(* and thresholds.                                                         *)
(*                                                                         *)
(* Deploy: an endpoint reported as deployed is configured unless a         *)
(* deployment was cut off, no command fails unprovoked, and none that ran  *)
(* alone leaves an older build, for any number of operators, commands,     *)
(* interruptions and changes of the sources.                               *)
(*                                                                         *)
(* The two are independent; nothing proved of one is used for the other.   *)
(***************************************************************************)
EXTENDS OracleMultisig, Deploy, FiniteSetTheorems, SequenceTheorems, TLAPS

-----------------------------------------------------------------------------
\* OracleMultisig.  The inductive invariant.

\* No validator is among a proposal's approvals twice, whatever it has been
\* removed from and added to since.
ApprovedOnce ==
  \A key \in ProposalKey :
    \A i, j \in 1 .. Len(proposals[key].approved_by) :
      proposals[key].approved_by[i] = proposals[key].approved_by[j] => i = j

\* A hash of no packet has approvals of dishonest accounts only.
FakeByBad ==
  \A key \in ProposalKey : key.hash \in FakeHashes =>
    \A i \in 1 .. Len(proposals[key].approved_by) :
      proposals[key].approved_by[i] \in Bad

IInv ==
  /\ TypeOK
  /\ ApprovedOnce
  /\ FakeByBad
  /\ Prudent(validators, threshold)
  /\ FakeNeverProposed

-----------------------------------------------------------------------------
\* Lists without repetition, and maxima.

\* A list that holds no element of a set twice is no longer than the set.
LEMMA NoLongerThanSet ==
  ASSUME NEW S, IsFiniteSet(S), NEW s \in Seq(S),
         \A i, j \in 1 .. Len(s) : s[i] = s[j] => i = j
  PROVE  Len(s) <= Cardinality(S)
<1> DEFINE places == 1 .. Len(s)
           one == 1
           n == Len(s)
<1>1. s \in [places -> S] /\ Len(s) \in Nat
  OBVIOUS
<1>2. Cardinality(places) = Len(s)
  <2>1. one \in Int /\ n \in Int
    BY <1>1
  <2> HIDE DEF one, n
  <2>2. Cardinality(one .. n) = IF one > n THEN 0 ELSE n - one + 1
    BY <2>1, FS_Interval
  <2> QED
    BY <1>1, <2>2 DEF one, n
<1>3. s \in Injection(places, S)
  BY <1>1 DEF Injection, IsInjective
<1> HIDE DEF places
<1> QED
  BY <1>2, <1>3, FS_Injection

\* The maximum is the upper bound that is a member.
LEMMA MaxIs ==
  ASSUME NEW S \in SUBSET Nat, NEW n \in S, \A m \in S : m <= n
  PROVE  Max(S) = n
<1>1. \A x \in S : (\A y \in S : x >= y) => x = n
  <2> TAKE x \in S
  <2> HAVE \A y \in S : x >= y
  <2>1. x \in Nat /\ n \in Nat /\ x >= n /\ x <= n
    OBVIOUS
  <2> QED
    BY <2>1
<1>2. \A y \in S : n >= y
  OBVIOUS
<1> QED
  BY <1>1, <1>2, Zenon DEF Max

-----------------------------------------------------------------------------
\* What a validator's approval does.

\* A proposal after an approval: the validator stands at the end of the list,
\* and the other proposals are as they were.
Approved(validator, key) ==
  LET old == proposals[key].approved_by
      new == proposals'[key].approved_by
  IN  /\ Len(new) = Len(old) + 1
      /\ new[Len(new)] = validator
      /\ \A i \in 1 .. Len(old) : new[i] = old[i]
      /\ \A other \in ProposalKey \ {key} : proposals'[other] = proposals[other]

LEMMA ProposeApproves ==
  ASSUME TypeOK, NEW validator \in Accounts, NEW key \in ProposalKey,
         propose(validator, key)
  PROVE  Approved(validator, key) /\ proposals' \in [ProposalKey -> Proposal]
<1> DEFINE old == proposals[key].approved_by
           reached == Len(Append(old, validator)) >= threshold
<1>1. /\ proposals \in [ProposalKey -> Proposal]
      /\ proposals[key] \in Proposal /\ old \in Seq(Accounts)
  BY DEF TypeOK, Proposal
<1>2. proposals' = [proposals EXCEPT
        ![key] = [submitted |-> reached, approved_by |-> Append(old, validator)]]
  BY DEF propose
<1>3. /\ Append(old, validator) \in Seq(Accounts)
      /\ Len(Append(old, validator)) = Len(old) + 1
      /\ Append(old, validator)[Len(old) + 1] = validator
      /\ \A i \in 1 .. Len(old) : Append(old, validator)[i] = old[i]
  BY <1>1
<1>4. reached \in BOOLEAN
  OBVIOUS
<1> HIDE DEF reached
<1>5. [submitted |-> reached, approved_by |-> Append(old, validator)] \in Proposal
  BY <1>3, <1>4 DEF Proposal
<1>6. /\ proposals'[key].approved_by = Append(old, validator)
      /\ \A other \in ProposalKey \ {key} : proposals'[other] = proposals[other]
  BY <1>1, <1>2
<1>7. proposals' \in [ProposalKey -> Proposal]
  BY <1>1, <1>2, <1>5
<1> QED
  BY <1>3, <1>6, <1>7 DEF Approved

-----------------------------------------------------------------------------
\* The parts of the invariant, one lemma each.

LEMMA TypeNext == TypeOK /\ [Next]_vars => TypeOK'
<1> SUFFICES ASSUME TypeOK, [Next]_vars PROVE TypeOK'
  OBVIOUS
<1> USE OracleAssumption
<1>1. CASE Administer
  <2>1. UNCHANGED <<proposals, confirmations>>
    BY <1>1 DEF Administer, transfer_admin, set_validator, set_threshold
  <2>2. admin' \in Admins /\ validators' \in SUBSET Accounts /\ threshold' \in 0 .. MaxThreshold
    BY <1>1 DEF Administer, transfer_admin, set_validator, set_threshold, TypeOK
  <2> QED
    BY <2>1, <2>2 DEF TypeOK
<1>2. ASSUME NEW v \in Accounts, NEW key \in ProposalKey, Propose(v, key)
      PROVE  TypeOK'
  <2>1. propose(v, key)
    BY <1>2 DEF Propose
  <2>2. UNCHANGED config
    BY <2>1 DEF propose
  <2>3. proposals' \in [ProposalKey -> Proposal]
    BY <2>1, ProposeApproves
  <2>4. key.hash \in Hashes /\ key.confirmations \in 1 .. MaxConfirmations
    BY DEF ProposalKey
  <2>5. confirmations' \in [Hashes -> 0 .. MaxConfirmations]
    <3>1. CASE UNCHANGED confirmations
      BY <3>1 DEF TypeOK
    <3>2. CASE oracle_propose(key)
      <4>1. confirmations' = [confirmations EXCEPT ![key.hash] = key.confirmations]
        BY <3>2 DEF oracle_propose
      <4>2. key.confirmations \in 0 .. MaxConfirmations
        BY <2>4
      <4> QED
        BY <2>4, <4>1, <4>2 DEF TypeOK
    <3> QED
      BY <2>1, <3>1, <3>2 DEF propose
  <2> QED
    BY <2>2, <2>3, <2>5 DEF TypeOK, config
<1>3. CASE UNCHANGED vars
  BY <1>3 DEF vars, config, TypeOK
<1> QED
  BY <1>1, <1>2, <1>3 DEF Next

\* What the administrators do leaves the proposals alone.
LEMMA AdministerKeeps == Administer => UNCHANGED <<proposals, confirmations>>
BY DEF Administer, transfer_admin, set_validator, set_threshold

\* An approval is refused to those who gave theirs.
LEMMA ApprovedOnceNext ==
  TypeOK /\ ApprovedOnce /\ [Next]_vars => ApprovedOnce'
<1> SUFFICES ASSUME TypeOK, ApprovedOnce, [Next]_vars PROVE ApprovedOnce'
  OBVIOUS
<1>1. CASE UNCHANGED proposals
  BY <1>1 DEF ApprovedOnce
<1>2. ASSUME NEW v \in Accounts, NEW key \in ProposalKey, Propose(v, key)
      PROVE  ApprovedOnce'
  <2> DEFINE old == proposals[key].approved_by
             new == proposals'[key].approved_by
  <2>1. propose(v, key) /\ Approved(v, key)
    BY <1>2, ProposeApproves DEF Propose
  <2>2. old \in Seq(Accounts) /\ Len(old) \in Nat
    BY DEF TypeOK, Proposal
  <2>3. \A i \in 1 .. Len(old) : old[i] # v
    BY <2>1, <2>2 DEF propose
  <2>4. \A i, j \in 1 .. Len(old) : old[i] = old[j] => i = j
    BY DEF ApprovedOnce
  <2>5. /\ Len(new) = Len(old) + 1 /\ new[Len(new)] = v
        /\ \A i \in 1 .. Len(old) : new[i] = old[i]
        /\ \A other \in ProposalKey \ {key} : proposals'[other] = proposals[other]
    BY <2>1 DEF Approved
  <2> HIDE DEF old, new
  <2>6. \A i, j \in 1 .. Len(new) : new[i] = new[j] => i = j
    BY <2>2, <2>3, <2>4, <2>5
  <2> QED
    BY <2>5, <2>6 DEF ApprovedOnce, new
<1> QED
  BY <1>1, <1>2, AdministerKeeps DEF Next, vars

LEMMA FakeByBadNext ==
  TypeOK /\ FakeByBad /\ [Next]_vars => FakeByBad'
<1> SUFFICES ASSUME TypeOK, FakeByBad, [Next]_vars PROVE FakeByBad'
  OBVIOUS
<1>1. CASE UNCHANGED proposals
  BY <1>1 DEF FakeByBad
<1>2. ASSUME NEW v \in Accounts, NEW key \in ProposalKey, Propose(v, key)
      PROVE  FakeByBad'
  <2> DEFINE old == proposals[key].approved_by
             new == proposals'[key].approved_by
  <2>1. Approved(v, key) /\ (key.hash \in FakeHashes => v \in Bad)
    BY <1>2, ProposeApproves DEF Propose
  <2>2. Len(old) \in Nat
    BY DEF TypeOK, Proposal
  <2>3. key.hash \in FakeHashes => \A i \in 1 .. Len(old) : old[i] \in Bad
    BY DEF FakeByBad
  <2>4. /\ Len(new) = Len(old) + 1 /\ new[Len(new)] = v
        /\ \A i \in 1 .. Len(old) : new[i] = old[i]
        /\ \A other \in ProposalKey \ {key} : proposals'[other] = proposals[other]
    BY <2>1 DEF Approved
  <2> HIDE DEF old, new
  <2>5. key.hash \in FakeHashes => \A i \in 1 .. Len(new) : new[i] \in Bad
    BY <2>1, <2>2, <2>3, <2>4
  <2> QED
    BY <2>4, <2>5 DEF FakeByBad, new
<1> QED
  BY <1>1, <1>2, AdministerKeeps DEF Next, vars

\* Only the administrators change the configuration, and they are prudent.
LEMMA PrudentNext ==
  Prudent(validators, threshold) /\ [Next]_vars => Prudent(validators, threshold)'
<1> SUFFICES ASSUME Prudent(validators, threshold), [Next]_vars
             PROVE  Prudent(validators', threshold')
  BY DEF Prudent
<1>1. CASE UNCHANGED <<validators, threshold>>
  BY <1>1
<1>2. CASE Administer
  BY <1>2 DEF Administer, transfer_admin, set_validator, set_threshold
<1> QED
  BY <1>1, <1>2 DEF Next, vars, config, Propose, propose

\* The dishonest accounts do not reach the threshold: their approvals are as
\* many as they are, at most.
LEMMA FakeNext == IInv /\ [Next]_vars => FakeNeverProposed'
<1> SUFFICES ASSUME IInv, [Next]_vars PROVE FakeNeverProposed'
  OBVIOUS
<1>1. CASE UNCHANGED confirmations
  BY <1>1 DEF IInv, FakeNeverProposed
<1>2. ASSUME NEW v \in Accounts, NEW key \in ProposalKey, Propose(v, key)
      PROVE  FakeNeverProposed'
  <2> DEFINE new == proposals'[key].approved_by
             old == proposals[key].approved_by
  <2>1. propose(v, key) /\ (key.hash \in FakeHashes => v \in Bad)
    BY <1>2 DEF Propose
  <2>2. CASE UNCHANGED confirmations
    BY <2>2 DEF IInv, FakeNeverProposed
  <2>3. CASE key.hash \in FakeHashes /\ Len(Append(old, v)) >= threshold
    <3>1. /\ proposals' \in [ProposalKey -> Proposal] /\ Approved(v, key)
          /\ ApprovedOnce' /\ FakeByBad'
      BY <2>1, ProposeApproves, ApprovedOnceNext, FakeByBadNext DEF IInv
    <3>2. IsFiniteSet(Bad) /\ Cardinality(Bad) \in Nat
      BY OracleAssumption, FS_Subset, FS_CardinalityType
    <3>3. new \in Seq(Accounts)
      BY <3>1 DEF Proposal
    <3>4. /\ \A i \in 1 .. Len(new) : new[i] \in Bad
          /\ \A i, j \in 1 .. Len(new) : new[i] = new[j] => i = j
      BY <2>3, <3>1 DEF FakeByBad, ApprovedOnce
    <3> HIDE DEF new
    <3>5. new \in Seq(Bad)
      BY <3>3, <3>4
    <3>6. Len(new) <= Cardinality(Bad)
      BY <3>2, <3>4, <3>5, NoLongerThanSet
    <3>7. old \in Seq(Accounts) /\ threshold \in Nat
      BY OracleAssumption DEF IInv, TypeOK, Proposal
    <3>8. Len(new) = Len(Append(old, v))
      BY <3>1, <3>7 DEF Approved, new
    <3>9. threshold > Cardinality(Bad)
      BY <2>1, <2>3 DEF propose, IInv, Prudent
    <3> QED
      BY <2>3, <3>2, <3>3, <3>6, <3>7, <3>8, <3>9
  <2>4. CASE key.hash \notin FakeHashes
    BY <2>1, <2>4, OracleAssumption DEF propose, oracle_propose, IInv,
       FakeNeverProposed, TypeOK
  <2> QED
    BY <2>1, <2>2, <2>3, <2>4 DEF propose
<1> QED
  BY <1>1, <1>2, AdministerKeeps DEF Next, vars

LEMMA InitIInv == Init => IInv
<1> SUFFICES ASSUME Init PROVE IInv
  OBVIOUS
<1>1. \A key \in ProposalKey : proposals[key] = [submitted |-> FALSE, approved_by |-> <<>>]
  BY DEF Init
<1>2. [submitted |-> FALSE, approved_by |-> <<>>] \in Proposal
  BY DEF Proposal
<1>3. TypeOK
  BY <1>2, OracleAssumption DEF Init, TypeOK
<1>4. ApprovedOnce /\ FakeByBad
  BY <1>1 DEF ApprovedOnce, FakeByBad
<1> QED
  BY <1>3, <1>4, OracleAssumption DEF IInv, Init, Prudent, FakeNeverProposed

-----------------------------------------------------------------------------

\* The state has its types, nobody's approval counts twice, no approval of a
\* packet that does not exist is an honest validator's, and the configuration
\* is prudent, always.
THEOREM Invariance == Spec => []IInv
<1>1. IInv /\ [Next]_vars => IInv'
  BY TypeNext, ApprovedOnceNext, FakeByBadNext, PrudentNext, FakeNext DEF IInv
<1> QED
  BY InitIInv, <1>1, PTL DEF Spec

\* Config and ProposalStore keep the types of the Move structs.
THEOREM TypeCorrect == Spec => []TypeOK
<1>1. IInv => TypeOK
  BY DEF IInv
<1> QED
  BY <1>1, Invariance, PTL

\* A dishonest minority cannot have a packet proposed that does not exist.
THEOREM FakeNeverProposedHolds == Spec => []FakeNeverProposed
<1>1. IInv => FakeNeverProposed
  BY DEF IInv
<1> QED
  BY <1>1, Invariance, PTL

-----------------------------------------------------------------------------
\* What uln_receive has of this oracle.

Submitted(h) ==
  {0} \union {key.confirmations : key \in
                {k \in ProposalKey : k.hash = h /\ proposals[k].submitted}}

\* It is among what was submitted, and nothing submitted is above it.
Highest ==
  \A h \in Hashes :
    /\ confirmations[h] \in Submitted(h)
    /\ \A n \in Submitted(h) : n <= confirmations[h]

LEMMA HighestInit == Init => Highest
<1> SUFFICES ASSUME Init, NEW h \in Hashes
             PROVE  Submitted(h) = {0} /\ confirmations[h] = 0
  BY DEF Highest
<1>1. \A k \in ProposalKey : ~proposals[k].submitted
  BY DEF Init
<1> QED
  BY <1>1 DEF Init, Submitted

\* Without a submission, nothing changes; with one, the new number is above
\* all others of its hash.
LEMMA HighestNext == TypeOK /\ Highest /\ [Next]_vars => Highest'
<1> SUFFICES ASSUME TypeOK, Highest, [Next]_vars PROVE Highest'
  OBVIOUS
<1>1. CASE UNCHANGED <<proposals, confirmations>>
  BY <1>1 DEF Highest, Submitted
<1>2. ASSUME NEW v \in Accounts, NEW key \in ProposalKey, Propose(v, key)
      PROVE  Highest'
  <2> DEFINE old == proposals[key].approved_by
             reached == Len(Append(old, v)) >= threshold
  <2>1. /\ ~proposals[key].submitted
        /\ proposals' = [proposals EXCEPT
             ![key] = [submitted |-> reached, approved_by |-> Append(old, v)]]
        /\ IF reached THEN oracle_propose(key) ELSE UNCHANGED confirmations
    BY <1>2 DEF Propose, propose
  <2> HIDE DEF reached
  <2>2. /\ proposals'[key].submitted = reached
        /\ \A other \in ProposalKey \ {key} : proposals'[other] = proposals[other]
    BY <2>1 DEF TypeOK
  <2>3. CASE ~reached
    <3>1. confirmations' = confirmations
      BY <2>1, <2>3
    <3>2. \A k \in ProposalKey : proposals'[k].submitted <=> proposals[k].submitted
      BY <2>1, <2>2, <2>3
    <3>3. \A h : Submitted(h)' = Submitted(h)
      BY <3>2 DEF Submitted
    <3> QED
      BY <3>1, <3>3 DEF Highest
  <2>4. CASE reached
    <3>1. /\ key.hash \in Hashes /\ key.confirmations \in Nat
          /\ confirmations \in [Hashes -> Nat]
      BY OracleAssumption DEF ProposalKey, TypeOK
    <3>2. /\ confirmations[key.hash] < key.confirmations
          /\ confirmations' = [confirmations EXCEPT ![key.hash] = key.confirmations]
      BY <2>1, <2>4 DEF oracle_propose
    <3>3. \A h \in Hashes \ {key.hash} :
            Submitted(h)' = Submitted(h) /\ confirmations'[h] = confirmations[h]
      BY <2>2, <3>1, <3>2 DEF Submitted
    <3>4. /\ Submitted(key.hash)' = Submitted(key.hash) \union {key.confirmations}
          /\ confirmations'[key.hash] = key.confirmations
      BY <2>2, <2>4, <3>1, <3>2 DEF Submitted
    <3>5. \A n \in Submitted(key.hash) : n \in Nat
      BY DEF Submitted, ProposalKey
    <3>6. \A n \in Submitted(key.hash) : n <= key.confirmations
      BY <3>1, <3>2, <3>5 DEF Highest
    <3> QED
      BY <3>1, <3>3, <3>4, <3>6 DEF Highest
  <2> QED
    BY <2>3, <2>4
<1> QED
  BY <1>1, <1>2, AdministerKeeps DEF Next, vars

\* uln_receive has the highest number that was submitted, in whatever order
\* the proposals of a hash reached the threshold.
THEOREM ProposedIsHighestSubmittedHolds == Spec => []ProposedIsHighestSubmitted
<1>1. Spec => []Highest
  BY HighestInit, HighestNext, TypeCorrect, PTL DEF Spec
<1>2. Highest => ProposedIsHighestSubmitted
  <2> SUFFICES ASSUME Highest, NEW h \in Hashes
               PROVE  confirmations[h] = Max(Submitted(h))
    BY DEF ProposedIsHighestSubmitted, Submitted
  <2>1. Submitted(h) \in SUBSET Nat
    BY DEF Submitted, ProposalKey
  <2> QED
    BY <2>1, MaxIs DEF Highest
<1> QED
  BY <1>1, <1>2, PTL

-----------------------------------------------------------------------------

\* With the threshold two or more above the number of validators, set_validator
\* fails its assertion after the change and set_threshold before it.
THEOREM OverThresholdIsFinalHolds == Spec => OverThresholdIsFinal
<1>1. TypeOK /\ [Next]_vars =>
        [Cardinality(validators) + 1 < threshold =>
           UNCHANGED <<validators, threshold>>]_vars
  <2> SUFFICES ASSUME TypeOK, [Next]_vars, Cardinality(validators) + 1 < threshold
               PROVE  UNCHANGED <<validators, threshold>>
    OBVIOUS
  <2>1. /\ IsFiniteSet(validators) /\ Cardinality(validators) \in Nat
        /\ threshold \in Nat
    BY OracleAssumption, FS_Subset, FS_CardinalityType DEF TypeOK
  <2>2. ASSUME NEW account, NEW v, NEW active, set_validator(account, v, active)
        PROVE  FALSE
    <3>0. /\ Cardinality(validators \union {v})
              = IF v \in validators THEN Cardinality(validators)
                ELSE Cardinality(validators) + 1
          /\ Cardinality(validators \ {v})
              = IF v \in validators THEN Cardinality(validators) - 1
                ELSE Cardinality(validators)
      BY <2>1, FS_AddElement, FS_RemoveElement, Zenon
    <3>1. /\ Cardinality(validators \union {v}) <= Cardinality(validators) + 1
          /\ Cardinality(validators \ {v}) <= Cardinality(validators)
      BY <2>1, <3>0
    <3>2. Cardinality(validators \union {v}) \in Nat /\ Cardinality(validators \ {v}) \in Nat
      BY <2>1, FS_AddElement, FS_RemoveElement, FS_CardinalityType
    <3>3. \/ Cardinality(validators \union {v}) >= threshold
          \/ Cardinality(validators \ {v}) >= threshold
      BY <2>2 DEF set_validator
    <3> QED
      BY <2>1, <3>1, <3>2, <3>3
  <2>3. ASSUME NEW account, NEW t, set_threshold(account, t)
        PROVE  FALSE
    BY <2>1, <2>3 DEF set_threshold
  <2> QED
    BY <2>2, <2>3 DEF Next, Administer, transfer_admin, Propose, propose, vars, config
<1> QED
  BY <1>1, TypeCorrect, PTL DEF Spec, OverThresholdIsFinal
-----------------------------------------------------------------------------
\* Deploy.  The inductive invariant.

\* Types: what a run is at, a step of a command, a run.
States == {"idle", "running", "failed", "interrupted", "reported"}

Steps == [op : {"compile", "check", "publish", "configure"}, package : Packages,
          call : {"", allowPayload, initialize, registerExecutor, initializeReceive}]

Runs == [state : States, command : AllCommands \union {""}, steps : Seq(Steps),
         initial : BOOLEAN, started : Nat, alone : BOOLEAN]

\* Types of the variables; a library's major number is registered with it.
Typed ==
  /\ sources \in Nat \ {0}
  /\ build \in [Operators -> [Packages -> Nat]]
  /\ version \in [Packages -> Nat]
  /\ permit \in BOOLEAN /\ initialized \in BOOLEAN
  /\ executors \in {0, 1} /\ uln \in {0, 1} /\ last_version = uln
  /\ run \in [Operators -> Runs]
  /\ reported \in [AllCommands -> Nat]
  /\ faults \in Nat /\ misbuilds \in Nat

\* What the runs rely on.
Facts ==
  [version |-> version, permit |-> permit, initialized |-> initialized,
   executors |-> executors, uln |-> uln, misbuilds |-> misbuilds]

\* How many steps of its command a run has taken.
Taken(r) == Len(StepsOf(r.command)) - Len(r.steps)

\* What is left is the end of what the command does.
OnPlan(r) ==
  /\ r.command \in AllCommands
  /\ Taken(r) \in Nat
  /\ \A i \in 1 .. Len(r.steps) : r.steps[i] = StepsOf(r.command)[Taken(r) + i]

\* What was published is there; what was compiled is there to be published.
Made(r, bld, w) ==
  \A k \in 1 .. Taken(r) :
    LET step == StepsOf(r.command)[k]
    IN  /\ step.op = "publish" => w.version[step.package] # 0
        /\ step.op = "compile"
             /\ (\A j \in 1 .. Taken(r) : StepsOf(r.command)[j] # Publish(step.package)) =>
             bld[step.package] # 0 \/ w.misbuilds > 0

\* Who finds nothing published takes its deployment for the first.
Decided(r, w) ==
  /\ Taken(r) = 6 /\ w.version["msglib_auth"] = 0 => r.initial
  /\ Taken(r) = 18 /\ w.version["layerzero"] = 0 => r.initial

\* What the run of a first deployment has configured.
Kept(r, w) ==
  /\ Taken(r) >= 20 => w.initialized
  /\ Taken(r) >= 21 => w.executors = 1
  /\ Taken(r) >= 22 => w.uln = 1

\* What it has not configured yet nobody has, if it is alone.
Unspoilt(r, w) ==
  /\ Taken(r) \in {6, 7} => ~w.permit
  /\ Taken(r) \in {18, 19} => ~w.initialized
  /\ Taken(r) \in {18, 19, 20} => w.executors = 0
  /\ Taken(r) \in {18, 19, 20, 21} => w.uln = 0

\* What holds of a command under way, from the checkout bld on the chain w.
RunInv(r, bld, w) ==
  r.state = "running" =>
    /\ OnPlan(r)
    /\ Made(r, bld, w)
    /\ r.command = "layerzero" => Decided(r, w)
    /\ r.command = "layerzero" /\ r.initial => Kept(r, w)
    /\ r.command = "layerzero" /\ r.initial /\ r.alone => Unspoilt(r, w)

\* While a run is alone no other is under way.
Alone == \A o, x \in Operators : run[o].alone /\ x # o => run[x].state # "running"

\* What is not published is not configured; what was reported is published.
Unpublished ==
  /\ version["layerzero"] = 0 => ~initialized /\ executors = 0 /\ uln = 0
  /\ version["msglib_auth"] = 0 => ~permit
  /\ reported["layerzero"] # 0 => \A p \in Packages \ Apps : version[p] # 0

\* A first deployment has taken so many steps.
At(r, ks) ==
  r.state = "running" /\ r.command = "layerzero" /\ r.initial /\ Taken(r) \in ks

\* Somebody is at a first deployment and has taken so many steps.
Deploying(runs, ks) == \E o \in Operators : At(runs[o], ks)

\* What is published is configured, or somebody is about to, or was cut off.
PublishedIsConfigured ==
  /\ version["msglib_auth"] # 0 =>
       permit \/ uln # 0 \/ halfway # {} \/ Deploying(run, {7})
  /\ version["layerzero"] # 0 =>
       Configured \/ halfway # {} \/ Deploying(run, {19, 20, 21})

\* The invariant, with NoFailureUnprovoked as a part of it.
DeployInv ==
  /\ Typed
  /\ \A o \in Operators : RunInv(run[o], build[o], Facts)
  /\ Alone
  /\ Unpublished
  /\ PublishedIsConfigured
  /\ NoFailureUnprovoked

-----------------------------------------------------------------------------
\* What the commands do, step by step.

LEMMA Concatenated ==
  ASSUME NEW S, NEW s \in Seq(S), NEW t \in Seq(S)
  PROVE  /\ s \o t \in Seq(S)
         /\ Len(s \o t) = Len(s) + Len(t)
         /\ \A i \in 1 .. Len(s) : (s \o t)[i] = s[i]
         /\ \A i \in 1 .. Len(t) : (s \o t)[Len(s) + i] = t[i]
BY ConcatProperties

\* "u" is one list after another.
Joined(u, s, t) == u = s \o t

LEMMA JoinedIs ==
  ASSUME NEW s \in Seq(Steps), NEW t \in Seq(Steps), NEW u, Joined(u, s, t)
  PROVE  /\ u \in Seq(Steps) /\ Len(u) = Len(s) + Len(t)
         /\ \A i \in 1 .. Len(s) : u[i] = s[i]
         /\ \A i \in 1 .. Len(t) : u[Len(s) + i] = t[i]
<1>1. \A x, y \in Seq(Steps) :
        /\ x \o y \in Seq(Steps) /\ Len(x \o y) = Len(x) + Len(y)
        /\ \A i \in 1 .. Len(x) : (x \o y)[i] = x[i]
        /\ \A i \in 1 .. Len(y) : (x \o y)[Len(x) + i] = y[i]
  BY Concatenated
<1>2. u = s \o t
  BY DEF Joined
<1> QED
  BY <1>1, <1>2, Zenon

LEMMA StepsTyped ==
  ASSUME NEW p \in Packages
  PROVE  /\ Compile(p) \in Steps /\ Publish(p) \in Steps /\ InitialDeploy(p) \in Steps
         /\ IfInitial(p, allowPayload) \in Steps /\ IfInitial(p, initialize) \in Steps
         /\ IfInitial(p, registerExecutor) \in Steps
         /\ IfInitial(p, initializeReceive) \in Steps
BY DEF Compile, Publish, InitialDeploy, IfInitial, Steps

LEMMA PackagesAre ==
  {"zro", "layerzero_common", "msglib_auth", "executor_auth", "msglib_v1_1",
   "msglib_v2", "executor_v2", "layerzero", "oracle", "bridge", "counter"} = Packages
BY DEF Packages, Apps

LEMMA CompileAndDeployIs ==
  ASSUME NEW p \in Packages
  PROVE  /\ CompileAndDeploy(p) \in Seq(Steps) /\ Len(CompileAndDeploy(p)) = 2
         /\ CompileAndDeploy(p)[1] = Compile(p) /\ CompileAndDeploy(p)[2] = Publish(p)
BY StepsTyped DEF CompileAndDeploy

LEMMA deployCommonIs ==
  /\ deployCommon \in Seq(Steps) /\ Len(deployCommon) = 8
  /\ deployCommon[1] = Compile("layerzero_common")
  /\ deployCommon[2] = Publish("layerzero_common")
  /\ deployCommon[3] = Compile("msglib_auth")
  /\ deployCommon[4] = InitialDeploy("msglib_auth")
  /\ deployCommon[5] = Publish("msglib_auth")
  /\ deployCommon[6] = IfInitial("msglib_auth", allowPayload)
  /\ deployCommon[7] = Compile("executor_auth")
  /\ deployCommon[8] = Publish("executor_auth")
<1> DEFINE a == CompileAndDeploy("layerzero_common")
           m == <<Compile("msglib_auth"), InitialDeploy("msglib_auth"),
                  Publish("msglib_auth"), IfInitial("msglib_auth", allowPayload)>>
           e == CompileAndDeploy("executor_auth")
<1>1. /\ a \in Seq(Steps) /\ Len(a) = 2
      /\ a[1] = Compile("layerzero_common") /\ a[2] = Publish("layerzero_common")
  BY CompileAndDeployIs, PackagesAre
<1>2. /\ e \in Seq(Steps) /\ Len(e) = 2
      /\ e[1] = Compile("executor_auth") /\ e[2] = Publish("executor_auth")
  BY CompileAndDeployIs, PackagesAre
<1>3. /\ m \in Seq(Steps) /\ Len(m) = 4
      /\ m[1] = Compile("msglib_auth") /\ m[2] = InitialDeploy("msglib_auth")
      /\ m[3] = Publish("msglib_auth")
      /\ m[4] = IfInitial("msglib_auth", allowPayload)
  BY StepsTyped, PackagesAre
<1>4. deployCommon = (a \o m) \o e
  BY DEF deployCommon
<1> DEFINE am == a \o m
<1>5. Joined(am, a, m) /\ Joined(deployCommon, am, e)
  BY <1>4 DEF Joined
<1> HIDE DEF a, m, e, am
<1>6. /\ am \in Seq(Steps) /\ Len(am) = 6
      /\ am[1] = a[1] /\ am[2] = a[2] /\ am[3] = m[1] /\ am[4] = m[2]
      /\ am[5] = m[3] /\ am[6] = m[4]
  <2>1. /\ am \in Seq(Steps) /\ Len(am) = 2 + 4
        /\ \A i \in 1 .. 2 : am[i] = a[i]
        /\ \A i \in 1 .. 4 : am[2 + i] = m[i]
    <3>1. a \in Seq(Steps) /\ m \in Seq(Steps) /\ Joined(am, a, m)
      BY <1>1, <1>3, <1>5, Zenon
    <3>2. /\ am \in Seq(Steps) /\ Len(am) = Len(a) + Len(m)
          /\ \A i \in 1 .. Len(a) : am[i] = a[i]
          /\ \A i \in 1 .. Len(m) : am[Len(a) + i] = m[i]
      BY <3>1, JoinedIs
    <3> QED
      BY <1>1, <1>3, <3>2
  <2>2. am[2 + 1] = m[1] /\ am[2 + 2] = m[2] /\ am[2 + 3] = m[3] /\ am[2 + 4] = m[4]
    BY <2>1
  <2> QED
    BY <2>1, <2>2
<1>7. /\ deployCommon \in Seq(Steps) /\ Len(deployCommon) = 8
      /\ \A i \in 1 .. 6 : deployCommon[i] = am[i]
      /\ deployCommon[7] = e[1] /\ deployCommon[8] = e[2]
  <2>1. /\ deployCommon \in Seq(Steps) /\ Len(deployCommon) = 6 + 2
        /\ \A i \in 1 .. 6 : deployCommon[i] = am[i]
        /\ \A i \in 1 .. 2 : deployCommon[6 + i] = e[i]
    <3>1. am \in Seq(Steps) /\ e \in Seq(Steps) /\ Joined(deployCommon, am, e)
      BY <1>2, <1>5, <1>6, Zenon
    <3>2. /\ deployCommon \in Seq(Steps) /\ Len(deployCommon) = Len(am) + Len(e)
          /\ \A i \in 1 .. Len(am) : deployCommon[i] = am[i]
          /\ \A i \in 1 .. Len(e) : deployCommon[Len(am) + i] = e[i]
      BY <3>1, JoinedIs
    <3> QED
      BY <1>2, <1>6, <3>2
  <2>2. deployCommon[6 + 1] = e[1] /\ deployCommon[6 + 2] = e[2]
    BY <2>1
  <2> QED
    BY <2>1, <2>2
<1> QED
  BY <1>1, <1>2, <1>3, <1>6, <1>7

LEMMA deployLayerzeroIs ==
  /\ deployLayerzero \in Seq(Steps) /\ Len(deployLayerzero) = 6
  /\ deployLayerzero[1] = Compile("layerzero")
  /\ deployLayerzero[2] = InitialDeploy("layerzero")
  /\ deployLayerzero[3] = Publish("layerzero")
  /\ deployLayerzero[4] = IfInitial("layerzero", initialize)
  /\ deployLayerzero[5] = IfInitial("layerzero", registerExecutor)
  /\ deployLayerzero[6] = IfInitial("layerzero", initializeReceive)
BY StepsTyped, PackagesAre DEF deployLayerzero

LEMMA JoinedTwo ==
  ASSUME NEW s \in Seq(Steps), NEW p \in Packages,
         NEW u, Joined(u, s, CompileAndDeploy(p))
  PROVE  /\ u \in Seq(Steps) /\ Len(u) = Len(s) + 2
         /\ \A i \in 1 .. Len(s) : u[i] = s[i]
         /\ u[Len(s) + 1] = Compile(p) /\ u[Len(s) + 2] = Publish(p)
<1> DEFINE c == CompileAndDeploy(p)
<1>1. /\ c \in Seq(Steps) /\ Len(c) = 2
      /\ c[1] = Compile(p) /\ c[2] = Publish(p)
  BY CompileAndDeployIs
<1>2. Joined(u, s, c)
  OBVIOUS
<1> HIDE DEF c
<1>3. c \in Seq(Steps)
  BY <1>1
<1>4. /\ u \in Seq(Steps) /\ Len(u) = Len(s) + Len(c)
      /\ \A i \in 1 .. Len(s) : u[i] = s[i]
      /\ \A i \in 1 .. Len(c) : u[Len(s) + i] = c[i]
  BY <1>2, <1>3, JoinedIs
<1> QED
  BY <1>1, <1>4

\* The steps of deploying the endpoint.
LayerzeroSteps ==
  <<Compile("zro"), Publish("zro"),
    Compile("layerzero_common"), Publish("layerzero_common"),
    Compile("msglib_auth"), InitialDeploy("msglib_auth"),
    Publish("msglib_auth"), IfInitial("msglib_auth", allowPayload),
    Compile("executor_auth"), Publish("executor_auth"),
    Compile("msglib_v1_1"), Publish("msglib_v1_1"),
    Compile("msglib_v2"), Publish("msglib_v2"),
    Compile("executor_v2"), Publish("executor_v2"),
    Compile("layerzero"), InitialDeploy("layerzero"), Publish("layerzero"),
    IfInitial("layerzero", initialize), IfInitial("layerzero", registerExecutor),
    IfInitial("layerzero", initializeReceive)>>

LEMMA LayerzeroIs ==
  /\ StepsOf("layerzero") \in Seq(Steps) /\ Len(StepsOf("layerzero")) = 22
  /\ \A i \in 1 .. 22 : StepsOf("layerzero")[i] = LayerzeroSteps[i]
<1> DEFINE z == deployZro
           s1 == z \o deployCommon
           s2 == s1 \o deployMsglibV1_1
           s3 == s2 \o deployMsglibV2
           s4 == s3 \o deployExecutorV2
           s5 == StepsOf("layerzero")
<1>1. s5 = s4 \o deployLayerzero
  BY DEF StepsOf
<1>2. /\ Joined(s1, z, deployCommon)
      /\ Joined(s2, s1, CompileAndDeploy("msglib_v1_1"))
      /\ Joined(s3, s2, CompileAndDeploy("msglib_v2"))
      /\ Joined(s4, s3, CompileAndDeploy("executor_v2"))
      /\ Joined(s5, s4, deployLayerzero)
  BY <1>1 DEF Joined, deployMsglibV1_1, deployMsglibV2, deployExecutorV2
<1>3. /\ z \in Seq(Steps) /\ Len(z) = 2
      /\ z[1] = Compile("zro") /\ z[2] = Publish("zro")
  BY CompileAndDeployIs, PackagesAre DEF deployZro
<1> HIDE DEF z, s1, s2, s3, s4, s5
<1>4. /\ s1 \in Seq(Steps) /\ Len(s1) = 10
      /\ \A i \in 1 .. 2 : s1[i] = z[i]
      /\ \A i \in 1 .. 8 : s1[2 + i] = deployCommon[i]
  <2>1. z \in Seq(Steps) /\ deployCommon \in Seq(Steps) /\ Joined(s1, z, deployCommon)
    BY <1>2, <1>3, deployCommonIs, Zenon
  <2>2. /\ s1 \in Seq(Steps) /\ Len(s1) = Len(z) + Len(deployCommon)
        /\ \A i \in 1 .. Len(z) : s1[i] = z[i]
        /\ \A i \in 1 .. Len(deployCommon) : s1[Len(z) + i] = deployCommon[i]
    BY <2>1, JoinedIs
  <2> QED
    BY <1>3, <2>2, deployCommonIs
<1>5. /\ s2 \in Seq(Steps) /\ Len(s2) = 12
      /\ \A i \in 1 .. 10 : s2[i] = s1[i]
      /\ s2[11] = Compile("msglib_v1_1") /\ s2[12] = Publish("msglib_v1_1")
  <2>1. s1 \in Seq(Steps) /\ Joined(s2, s1, CompileAndDeploy("msglib_v1_1"))
    BY <1>2, <1>4, Zenon
  <2>2. "msglib_v1_1" \in Packages
    BY PackagesAre
  <2>3. /\ s2 \in Seq(Steps) /\ Len(s2) = Len(s1) + 2
        /\ \A i \in 1 .. Len(s1) : s2[i] = s1[i]
        /\ s2[Len(s1) + 1] = Compile("msglib_v1_1")
        /\ s2[Len(s1) + 2] = Publish("msglib_v1_1")
    BY <2>1, <2>2, JoinedTwo
  <2> QED
    BY <1>4, <2>3
<1>6. /\ s3 \in Seq(Steps) /\ Len(s3) = 14
      /\ \A i \in 1 .. 12 : s3[i] = s2[i]
      /\ s3[13] = Compile("msglib_v2") /\ s3[14] = Publish("msglib_v2")
  <2>1. s2 \in Seq(Steps) /\ Joined(s3, s2, CompileAndDeploy("msglib_v2"))
    BY <1>2, <1>5, Zenon
  <2>2. "msglib_v2" \in Packages
    BY PackagesAre
  <2>3. /\ s3 \in Seq(Steps) /\ Len(s3) = Len(s2) + 2
        /\ \A i \in 1 .. Len(s2) : s3[i] = s2[i]
        /\ s3[Len(s2) + 1] = Compile("msglib_v2")
        /\ s3[Len(s2) + 2] = Publish("msglib_v2")
    BY <2>1, <2>2, JoinedTwo
  <2> QED
    BY <1>5, <2>3
<1>7. /\ s4 \in Seq(Steps) /\ Len(s4) = 16
      /\ \A i \in 1 .. 14 : s4[i] = s3[i]
      /\ s4[15] = Compile("executor_v2") /\ s4[16] = Publish("executor_v2")
  <2>1. s3 \in Seq(Steps) /\ Joined(s4, s3, CompileAndDeploy("executor_v2"))
    BY <1>2, <1>6, Zenon
  <2>2. "executor_v2" \in Packages
    BY PackagesAre
  <2>3. /\ s4 \in Seq(Steps) /\ Len(s4) = Len(s3) + 2
        /\ \A i \in 1 .. Len(s3) : s4[i] = s3[i]
        /\ s4[Len(s3) + 1] = Compile("executor_v2")
        /\ s4[Len(s3) + 2] = Publish("executor_v2")
    BY <2>1, <2>2, JoinedTwo
  <2> QED
    BY <1>6, <2>3
<1>8. /\ s5 \in Seq(Steps) /\ Len(s5) = 22
      /\ \A i \in 1 .. 16 : s5[i] = s4[i]
      /\ \A i \in 1 .. 6 : s5[16 + i] = deployLayerzero[i]
  <2>1. s4 \in Seq(Steps) /\ deployLayerzero \in Seq(Steps) /\ Joined(s5, s4, deployLayerzero)
    BY <1>2, <1>7, deployLayerzeroIs, Zenon
  <2>2. /\ s5 \in Seq(Steps) /\ Len(s5) = Len(s4) + Len(deployLayerzero)
        /\ \A i \in 1 .. Len(s4) : s5[i] = s4[i]
        /\ \A i \in 1 .. Len(deployLayerzero) : s5[Len(s4) + i] = deployLayerzero[i]
    BY <2>1, JoinedIs
  <2> QED
    BY <1>7, <2>2, deployLayerzeroIs
<1>9. /\ s5[1] = Compile("zro") /\ s5[2] = Publish("zro")
  BY <1>3, <1>4, <1>5, <1>6, <1>7, <1>8
<1>10. \A i \in 1 .. 8 : s5[2 + i] = deployCommon[i]
  <2>1. ASSUME NEW i \in 1 .. 10 PROVE s5[i] = s1[i]
    <3>1. i \in 1 .. 12 /\ i \in 1 .. 14 /\ i \in 1 .. 16
      OBVIOUS
    <3>2. s5[i] = s4[i] /\ s4[i] = s3[i] /\ s3[i] = s2[i] /\ s2[i] = s1[i]
      BY <3>1, <1>5, <1>6, <1>7, <1>8, Zenon
    <3> QED
      BY <3>2
  <2>2. \A i \in 1 .. 8 : 2 + i \in 1 .. 10
    OBVIOUS
  <2> QED
    BY <1>4, <2>1, <2>2
<1>11. /\ s5[3] = Compile("layerzero_common") /\ s5[4] = Publish("layerzero_common")
       /\ s5[5] = Compile("msglib_auth") /\ s5[6] = InitialDeploy("msglib_auth")
       /\ s5[7] = Publish("msglib_auth") /\ s5[8] = IfInitial("msglib_auth", allowPayload)
       /\ s5[9] = Compile("executor_auth") /\ s5[10] = Publish("executor_auth")
  <2>1. /\ s5[2 + 1] = deployCommon[1] /\ s5[2 + 2] = deployCommon[2]
        /\ s5[2 + 3] = deployCommon[3] /\ s5[2 + 4] = deployCommon[4]
        /\ s5[2 + 5] = deployCommon[5] /\ s5[2 + 6] = deployCommon[6]
        /\ s5[2 + 7] = deployCommon[7] /\ s5[2 + 8] = deployCommon[8]
    BY <1>10
  <2> QED
    BY <2>1, deployCommonIs
<1>12. /\ s5[11] = Compile("msglib_v1_1") /\ s5[12] = Publish("msglib_v1_1")
       /\ s5[13] = Compile("msglib_v2") /\ s5[14] = Publish("msglib_v2")
       /\ s5[15] = Compile("executor_v2") /\ s5[16] = Publish("executor_v2")
  BY <1>5, <1>6, <1>7, <1>8
<1>13. /\ s5[17] = Compile("layerzero") /\ s5[18] = InitialDeploy("layerzero")
       /\ s5[19] = Publish("layerzero") /\ s5[20] = IfInitial("layerzero", initialize)
       /\ s5[21] = IfInitial("layerzero", registerExecutor)
       /\ s5[22] = IfInitial("layerzero", initializeReceive)
  <2>1. /\ s5[16 + 1] = deployLayerzero[1] /\ s5[16 + 2] = deployLayerzero[2]
        /\ s5[16 + 3] = deployLayerzero[3] /\ s5[16 + 4] = deployLayerzero[4]
        /\ s5[16 + 5] = deployLayerzero[5] /\ s5[16 + 6] = deployLayerzero[6]
    BY <1>8
  <2> QED
    BY <2>1, deployLayerzeroIs
<1>14. \A i \in 1 .. 22 : s5[i] = LayerzeroSteps[i]
  BY <1>9, <1>11, <1>12, <1>13 DEF LayerzeroSteps
<1> QED
  BY <1>8, <1>14 DEF s5

LEMMA AppIs ==
  ASSUME NEW c \in Apps
  PROVE  /\ StepsOf(c) \in Seq(Steps) /\ Len(StepsOf(c)) = 2
         /\ StepsOf(c)[1] = Compile(c) /\ StepsOf(c)[2] = Publish(c)
<1>1. StepsOf(c) = CompileAndDeploy(c)
  BY DEF StepsOf, Apps, deployOracle, deployBridge, deployCounter
<1> QED
  BY <1>1, CompileAndDeployIs DEF Packages

LEMMA CommandsAre == AllCommands = Apps \union {"layerzero"} /\ "layerzero" \notin Apps
BY DEF AllCommands, Apps

LEMMA LayerzeroAt ==
  ASSUME NEW s, s = StepsOf("layerzero")
  PROVE  /\ s[1] = Compile("zro") /\ s[2] = Publish("zro")
         /\ s[3] = Compile("layerzero_common") /\ s[4] = Publish("layerzero_common")
         /\ s[5] = Compile("msglib_auth") /\ s[6] = InitialDeploy("msglib_auth")
         /\ s[7] = Publish("msglib_auth") /\ s[8] = IfInitial("msglib_auth", allowPayload)
         /\ s[9] = Compile("executor_auth") /\ s[10] = Publish("executor_auth")
         /\ s[11] = Compile("msglib_v1_1") /\ s[12] = Publish("msglib_v1_1")
         /\ s[13] = Compile("msglib_v2") /\ s[14] = Publish("msglib_v2")
         /\ s[15] = Compile("executor_v2") /\ s[16] = Publish("executor_v2")
         /\ s[17] = Compile("layerzero") /\ s[18] = InitialDeploy("layerzero")
         /\ s[19] = Publish("layerzero") /\ s[20] = IfInitial("layerzero", initialize)
         /\ s[21] = IfInitial("layerzero", registerExecutor)
         /\ s[22] = IfInitial("layerzero", initializeReceive)
BY LayerzeroIs DEF LayerzeroSteps

\* One to twenty-two.
LEMMA Numbered ==
  ASSUME NEW k \in 1 .. 22
  PROVE  \/ k = 1 \/ k = 2 \/ k = 3 \/ k = 4 \/ k = 5 \/ k = 6 \/ k = 7 \/ k = 8
         \/ k = 9 \/ k = 10 \/ k = 11 \/ k = 12 \/ k = 13 \/ k = 14 \/ k = 15
         \/ k = 16 \/ k = 17 \/ k = 18 \/ k = 19 \/ k = 20 \/ k = 21 \/ k = 22
OBVIOUS

LEMMA StepFields ==
  ASSUME NEW p
  PROVE  /\ Compile(p).op = "compile" /\ Compile(p).package = p
         /\ InitialDeploy(p).op = "check" /\ InitialDeploy(p).package = p
         /\ Publish(p).op = "publish" /\ Publish(p).package = p
         /\ \A call : /\ IfInitial(p, call).op = "configure"
                      /\ IfInitial(p, call).package = p
                      /\ IfInitial(p, call).call = call
BY DEF Compile, InitialDeploy, Publish, IfInitial

\* Step k of deploying the endpoint does this to that package.
LayerzeroRow(k, op, p) ==
  \/ k = 1 /\ op = "compile" /\ p = "zro"
  \/ k = 2 /\ op = "publish" /\ p = "zro"
  \/ k = 3 /\ op = "compile" /\ p = "layerzero_common"
  \/ k = 4 /\ op = "publish" /\ p = "layerzero_common"
  \/ k = 5 /\ op = "compile" /\ p = "msglib_auth"
  \/ k = 6 /\ op = "check" /\ p = "msglib_auth"
  \/ k = 7 /\ op = "publish" /\ p = "msglib_auth"
  \/ k = 8 /\ op = "configure" /\ p = "msglib_auth"
  \/ k = 9 /\ op = "compile" /\ p = "executor_auth"
  \/ k = 10 /\ op = "publish" /\ p = "executor_auth"
  \/ k = 11 /\ op = "compile" /\ p = "msglib_v1_1"
  \/ k = 12 /\ op = "publish" /\ p = "msglib_v1_1"
  \/ k = 13 /\ op = "compile" /\ p = "msglib_v2"
  \/ k = 14 /\ op = "publish" /\ p = "msglib_v2"
  \/ k = 15 /\ op = "compile" /\ p = "executor_v2"
  \/ k = 16 /\ op = "publish" /\ p = "executor_v2"
  \/ k = 17 /\ op = "compile" /\ p = "layerzero"
  \/ k = 18 /\ op = "check" /\ p = "layerzero"
  \/ k = 19 /\ op = "publish" /\ p = "layerzero"
  \/ k = 20 /\ op = "configure" /\ p = "layerzero"
  \/ k = 21 /\ op = "configure" /\ p = "layerzero"
  \/ k = 22 /\ op = "configure" /\ p = "layerzero"

LEMMA LayerzeroRows ==
  ASSUME NEW k \in 1 .. 22
  PROVE  LayerzeroRow(k, StepsOf("layerzero")[k].op, StepsOf("layerzero")[k].package)
<1> DEFINE op == StepsOf("layerzero")[k].op
           p == StepsOf("layerzero")[k].package
<1>1. k = 1 => op = "compile" /\ p = "zro"
  BY LayerzeroAt, StepFields
<1>2. k = 2 => op = "publish" /\ p = "zro"
  BY LayerzeroAt, StepFields
<1>3. k = 3 => op = "compile" /\ p = "layerzero_common"
  BY LayerzeroAt, StepFields
<1>4. k = 4 => op = "publish" /\ p = "layerzero_common"
  BY LayerzeroAt, StepFields
<1>5. k = 5 => op = "compile" /\ p = "msglib_auth"
  BY LayerzeroAt, StepFields
<1>6. k = 6 => op = "check" /\ p = "msglib_auth"
  BY LayerzeroAt, StepFields
<1>7. k = 7 => op = "publish" /\ p = "msglib_auth"
  BY LayerzeroAt, StepFields
<1>8. k = 8 => op = "configure" /\ p = "msglib_auth"
  BY LayerzeroAt, StepFields
<1>9. k = 9 => op = "compile" /\ p = "executor_auth"
  BY LayerzeroAt, StepFields
<1>10. k = 10 => op = "publish" /\ p = "executor_auth"
  BY LayerzeroAt, StepFields
<1>11. k = 11 => op = "compile" /\ p = "msglib_v1_1"
  BY LayerzeroAt, StepFields
<1>12. k = 12 => op = "publish" /\ p = "msglib_v1_1"
  BY LayerzeroAt, StepFields
<1>13. k = 13 => op = "compile" /\ p = "msglib_v2"
  BY LayerzeroAt, StepFields
<1>14. k = 14 => op = "publish" /\ p = "msglib_v2"
  BY LayerzeroAt, StepFields
<1>15. k = 15 => op = "compile" /\ p = "executor_v2"
  BY LayerzeroAt, StepFields
<1>16. k = 16 => op = "publish" /\ p = "executor_v2"
  BY LayerzeroAt, StepFields
<1>17. k = 17 => op = "compile" /\ p = "layerzero"
  BY LayerzeroAt, StepFields
<1>18. k = 18 => op = "check" /\ p = "layerzero"
  BY LayerzeroAt, StepFields
<1>19. k = 19 => op = "publish" /\ p = "layerzero"
  BY LayerzeroAt, StepFields
<1>20. k = 20 => op = "configure" /\ p = "layerzero"
  BY LayerzeroAt, StepFields
<1>21. k = 21 => op = "configure" /\ p = "layerzero"
  BY LayerzeroAt, StepFields
<1>22. k = 22 => op = "configure" /\ p = "layerzero"
  BY LayerzeroAt, StepFields
<1> QED
  BY <1>1, <1>2, <1>3, <1>4, <1>5, <1>6, <1>7, <1>8, <1>9,
     <1>10, <1>11, <1>12, <1>13, <1>14, <1>15, <1>16, <1>17, <1>18, <1>19, <1>20, <1>21, <1>22, Numbered DEF LayerzeroRow

LEMMA PlanIs ==
  ASSUME NEW c \in AllCommands
  PROVE  StepsOf(c) \in Seq(Steps) /\ Len(StepsOf(c)) \in {2, 22}
BY CommandsAre, LayerzeroIs, AppIs

LEMMA ConfiguresAt ==
  ASSUME NEW c \in AllCommands, NEW k \in 1 .. Len(StepsOf(c)),
         StepsOf(c)[k].op = "configure"
  PROVE  /\ c = "layerzero"
         /\ \/ k = 8 /\ StepsOf(c)[k] = IfInitial("msglib_auth", allowPayload)
            \/ k = 20 /\ StepsOf(c)[k] = IfInitial("layerzero", initialize)
            \/ k = 21 /\ StepsOf(c)[k] = IfInitial("layerzero", registerExecutor)
            \/ k = 22 /\ StepsOf(c)[k] = IfInitial("layerzero", initializeReceive)
<1>1. CASE c \in Apps
  <2>1. k = 1 \/ k = 2
    BY <1>1, AppIs
  <2> QED
    BY <1>1, <2>1, AppIs, StepFields
<1>2. CASE c = "layerzero"
  <2>1. k \in 1 .. 22
    BY <1>2, LayerzeroIs
  <2>2. LayerzeroRow(k, "configure", StepsOf("layerzero")[k].package)
    BY <1>2, <2>1, LayerzeroRows
  <2>3. k = 8 \/ k = 20 \/ k = 21 \/ k = 22
    BY <2>2 DEF LayerzeroRow
  <2> QED
    BY <1>2, <2>3, LayerzeroAt
<1> QED
  BY <1>1, <1>2, CommandsAre

LEMMA ChecksAt ==
  ASSUME NEW c \in AllCommands, NEW k \in 1 .. Len(StepsOf(c)),
         StepsOf(c)[k].op = "check"
  PROVE  /\ c = "layerzero"
         /\ \/ k = 6 /\ StepsOf(c)[k].package = "msglib_auth"
            \/ k = 18 /\ StepsOf(c)[k].package = "layerzero"
<1>1. CASE c \in Apps
  <2>1. k = 1 \/ k = 2
    BY <1>1, AppIs
  <2> QED
    BY <1>1, <2>1, AppIs, StepFields
<1>2. CASE c = "layerzero"
  <2>1. k \in 1 .. 22
    BY <1>2, LayerzeroIs
  <2> QED
    BY <1>2, <2>1, LayerzeroRows DEF LayerzeroRow
<1> QED
  BY <1>1, <1>2, CommandsAre

LEMMA CompilesAt ==
  ASSUME NEW c \in AllCommands, NEW k \in 1 .. Len(StepsOf(c)),
         StepsOf(c)[k].op = "compile"
  PROVE  \/ c \in Apps /\ k = 1 /\ StepsOf(c)[k].package = c
         \/ c = "layerzero" /\ k \notin {6, 7, 8, 18, 19, 20, 21, 22}
              /\ StepsOf(c)[k].package \notin Apps
<1>1. CASE c \in Apps
  <2>1. k = 1 \/ k = 2
    BY <1>1, AppIs
  <2> QED
    BY <1>1, <2>1, AppIs, StepFields
<1>2. CASE c = "layerzero"
  <2>1. k \in 1 .. 22
    BY <1>2, LayerzeroIs
  <2>2. LayerzeroRow(k, "compile", StepsOf("layerzero")[k].package)
    BY <1>2, <2>1, LayerzeroRows
  <2>3. /\ k \notin {6, 7, 8, 18, 19, 20, 21, 22}
        /\ StepsOf("layerzero")[k].package \notin Apps
    BY <2>2 DEF LayerzeroRow, Apps
  <2> QED
    BY <1>2, <2>3
<1> QED
  BY <1>1, <1>2, CommandsAre

\* Where a package is published; it was compiled just before, or before it was
\* checked whether it is the first time.
LEMMA PublishesAt ==
  ASSUME NEW c \in AllCommands, NEW k \in 1 .. Len(StepsOf(c)),
         StepsOf(c)[k].op = "publish"
  PROVE  /\ StepsOf(c)[k] = Publish(StepsOf(c)[k].package)
         /\ \/ k = 2 /\ c \in Apps /\ StepsOf(c)[k].package = c
            \/ k = 2 /\ c = "layerzero" /\ StepsOf(c)[k].package = "zro"
            \/ k = 4 /\ c = "layerzero" /\ StepsOf(c)[k].package = "layerzero_common"
            \/ k = 7 /\ c = "layerzero" /\ StepsOf(c)[k].package = "msglib_auth"
            \/ k = 10 /\ c = "layerzero" /\ StepsOf(c)[k].package = "executor_auth"
            \/ k = 12 /\ c = "layerzero" /\ StepsOf(c)[k].package = "msglib_v1_1"
            \/ k = 14 /\ c = "layerzero" /\ StepsOf(c)[k].package = "msglib_v2"
            \/ k = 16 /\ c = "layerzero" /\ StepsOf(c)[k].package = "executor_v2"
            \/ k = 19 /\ c = "layerzero" /\ StepsOf(c)[k].package = "layerzero"
<1>1. CASE c \in Apps
  <2>1. k = 1 \/ k = 2
    BY <1>1, AppIs
  <2> QED
    BY <1>1, <2>1, AppIs, StepFields
<1>2. CASE c = "layerzero"
  <2>1. k \in 1 .. 22
    BY <1>2, LayerzeroIs
  <2>2. LayerzeroRow(k, "publish", StepsOf("layerzero")[k].package)
    BY <1>2, <2>1, LayerzeroRows
  <2> DEFINE p == StepsOf("layerzero")[k].package
  <2>3. \/ k = 2 /\ p = "zro"
        \/ k = 4 /\ p = "layerzero_common"
        \/ k = 7 /\ p = "msglib_auth"
        \/ k = 10 /\ p = "executor_auth"
        \/ k = 12 /\ p = "msglib_v1_1"
        \/ k = 14 /\ p = "msglib_v2"
        \/ k = 16 /\ p = "executor_v2"
        \/ k = 19 /\ p = "layerzero"
    BY <2>2 DEF LayerzeroRow
  <2>4. StepsOf("layerzero")[k] = Publish(p)
    BY <2>3, LayerzeroAt
  <2> QED
    BY <1>2, <2>3, <2>4
<1> QED
  BY <1>1, <1>2, CommandsAre

\* It is compiled before, and not published before.
LEMMA CompiledBefore ==
  ASSUME NEW c \in AllCommands, NEW k \in 1 .. Len(StepsOf(c)),
         StepsOf(c)[k].op = "publish"
  PROVE  \E j \in 1 .. k - 1 :
           /\ StepsOf(c)[j].op = "compile"
           /\ StepsOf(c)[j].package = StepsOf(c)[k].package
           /\ \A i \in 1 .. k - 1 : StepsOf(c)[i] # Publish(StepsOf(c)[k].package)
<1> DEFINE s == StepsOf(c)
           p == s[k].package
<1>1. \A i \in 1 .. k - 1 : s[i] # Publish(p)
  <2> SUFFICES ASSUME NEW i \in 1 .. k - 1, s[i] = Publish(p) PROVE FALSE
    OBVIOUS
  <2>1. i \in 1 .. Len(s) /\ Len(s) \in Nat
    BY PlanIs
  <2>2. s[i].op = "publish" /\ s[i].package = p /\ i # k
    BY StepFields
  <2> QED
    BY <2>1, <2>2, PublishesAt, CommandsAre DEF Apps
<1>2. CASE c \in Apps
  <2>1. k = 2 /\ p = c
    BY <1>2, PublishesAt, CommandsAre
  <2>2. 1 \in 1 .. k - 1 /\ s[1].op = "compile" /\ s[1].package = p
    BY <1>2, <2>1, AppIs, StepFields
  <2> QED
    BY <1>1, <2>2
<1>3. CASE c = "layerzero"
  <2>1. \E j \in 1 .. k - 1 : s[j].op = "compile" /\ s[j].package = p
    <3> DEFINE j == IF k \in {7, 19} THEN k - 2 ELSE k - 1
    <3>1. j \in 1 .. k - 1 /\ s[j].op = "compile" /\ s[j].package = p
      <4>1. s = StepsOf("layerzero")
        BY <1>3
      <4>2. \/ k = 2 /\ p = "zro"
            \/ k = 4 /\ p = "layerzero_common"
            \/ k = 7 /\ p = "msglib_auth"
            \/ k = 10 /\ p = "executor_auth"
            \/ k = 12 /\ p = "msglib_v1_1"
            \/ k = 14 /\ p = "msglib_v2"
            \/ k = 16 /\ p = "executor_v2"
            \/ k = 19 /\ p = "layerzero"
        BY <1>3, PublishesAt, CommandsAre
      <4> HIDE DEF s, p
      <4>3. s[j] = Compile(p) /\ j \in 1 .. k - 1
        BY <4>1, <4>2, LayerzeroAt
      <4> QED
        BY <4>3, StepFields
    <3> QED
      BY <3>1
  <2> QED
    BY <1>1, <2>1
<1> QED
  BY <1>2, <1>3, CommandsAre

LEMMA DependenciesAre ==
  /\ Dependencies("zro") = {} /\ Dependencies("layerzero_common") = {}
  /\ Dependencies("msglib_auth") = {"layerzero_common"}
  /\ Dependencies("executor_auth") = {"layerzero_common"}
  /\ Dependencies("msglib_v1_1") = {"layerzero_common", "msglib_auth", "zro"}
  /\ Dependencies("msglib_v2") = {"layerzero_common", "msglib_auth", "zro"}
  /\ Dependencies("executor_v2") = {"layerzero_common", "executor_auth"}
  /\ Dependencies("layerzero") = Packages \ (Apps \union {"layerzero"})
  /\ \A p \in Apps : Dependencies(p) = Packages \ Apps
<1>1. Dependencies("zro") = {}
  BY DEF Dependencies, Apps
<1>2. Dependencies("layerzero_common") = {}
  BY DEF Dependencies, Apps
<1>3. Dependencies("msglib_auth") = {"layerzero_common"}
  BY DEF Dependencies, Apps
<1>4. Dependencies("executor_auth") = {"layerzero_common"}
  BY DEF Dependencies, Apps
<1>5. Dependencies("msglib_v1_1") = {"layerzero_common", "msglib_auth", "zro"}
  BY DEF Dependencies, Apps
<1>6. Dependencies("msglib_v2") = {"layerzero_common", "msglib_auth", "zro"}
  BY DEF Dependencies, Apps
<1>7. Dependencies("executor_v2") = {"layerzero_common", "executor_auth"}
  BY DEF Dependencies, Apps
<1>8. Dependencies("layerzero") = Packages \ (Apps \union {"layerzero"})
  BY DEF Dependencies
<1>9. \A p \in Apps : Dependencies(p) = Packages \ Apps
  BY DEF Dependencies, Apps
<1> QED
  BY <1>1, <1>2, <1>3, <1>4, <1>5, <1>6, <1>7, <1>8, <1>9

\* What a package of LayerZero depends on is published before.
LEMMA DependenciesBefore ==
  ASSUME NEW k \in 1 .. Len(StepsOf("layerzero")),
         StepsOf("layerzero")[k].op = "publish",
         NEW q \in Dependencies(StepsOf("layerzero")[k].package)
  PROVE  \E j \in 1 .. k - 1 : StepsOf("layerzero")[j] = Publish(q)
<1> DEFINE s == StepsOf("layerzero")
           p == s[k].package
<1>1. "layerzero" \in AllCommands /\ "layerzero" \notin Apps
  BY CommandsAre
<1>2. \/ k = 2 /\ p = "zro"
      \/ k = 4 /\ p = "layerzero_common"
      \/ k = 7 /\ p = "msglib_auth"
      \/ k = 10 /\ p = "executor_auth"
      \/ k = 12 /\ p = "msglib_v1_1"
      \/ k = 14 /\ p = "msglib_v2"
      \/ k = 16 /\ p = "executor_v2"
      \/ k = 19 /\ p = "layerzero"
  BY <1>1, PublishesAt
<1>3. /\ p \in {"zro", "layerzero_common"} => q \in {}
      /\ p \in {"msglib_auth", "executor_auth"} => q \in {"layerzero_common"}
      /\ p \in {"msglib_v1_1", "msglib_v2"} => q \in {"layerzero_common", "msglib_auth", "zro"}
      /\ p = "executor_v2" => q \in {"layerzero_common", "executor_auth"}
      /\ p = "layerzero" => q \in Packages \ (Apps \union {"layerzero"})
  BY <1>2, DependenciesAre
<1>4. q \in {"zro", "layerzero_common", "msglib_auth", "executor_auth", "msglib_v1_1",
             "msglib_v2", "executor_v2"}
  BY <1>2, <1>3 DEF Packages
<1>6. s = StepsOf("layerzero")
  OBVIOUS
<1> HIDE DEF s, p
<1>5. /\ q = "zro" => 2 \in 1 .. k - 1 /\ s[2] = Publish(q)
      /\ q = "layerzero_common" => 4 \in 1 .. k - 1 /\ s[4] = Publish(q)
      /\ q = "msglib_auth" => 7 \in 1 .. k - 1 /\ s[7] = Publish(q)
      /\ q = "executor_auth" => 10 \in 1 .. k - 1 /\ s[10] = Publish(q)
      /\ q = "msglib_v1_1" => 12 \in 1 .. k - 1 /\ s[12] = Publish(q)
      /\ q = "msglib_v2" => 14 \in 1 .. k - 1 /\ s[14] = Publish(q)
      /\ q = "executor_v2" => 16 \in 1 .. k - 1 /\ s[16] = Publish(q)
  <2>1. /\ q = "zro" => k > 2
        /\ q = "layerzero_common" => k > 4
        /\ q = "msglib_auth" => k > 7
        /\ q = "executor_auth" => k > 10
        /\ q = "msglib_v1_1" => k > 12
        /\ q = "msglib_v2" => k > 14
        /\ q = "executor_v2" => k > 16
    BY <1>2, <1>3
  <2>2. /\ s[2] = Publish("zro") /\ s[4] = Publish("layerzero_common")
        /\ s[7] = Publish("msglib_auth") /\ s[10] = Publish("executor_auth")
        /\ s[12] = Publish("msglib_v1_1") /\ s[14] = Publish("msglib_v2")
        /\ s[16] = Publish("executor_v2")
    BY <1>6, LayerzeroAt
  <2> QED
    BY <2>1, <2>2
<1> QED
  BY <1>4, <1>5, <1>6

-----------------------------------------------------------------------------
\* A run and its steps.

\* What the runs rely on is only added to.
Grows(w, v) ==
  /\ \A p \in Packages : w.version[p] # 0 => v.version[p] # 0
  /\ w.misbuilds > 0 => v.misbuilds > 0
  /\ w.initialized => v.initialized
  /\ w.executors = 1 => v.executors = 1
  /\ w.uln = 1 => v.uln = 1

LEMMA StepIn ==
  ASSUME NEW c \in AllCommands, NEW k \in 1 .. Len(StepsOf(c))
  PROVE  StepsOf(c)[k] \in Steps /\ StepsOf(c)[k].package \in Packages
<1>1. StepsOf(c)[k] \in Steps
  BY PlanIs
<1> QED
  BY <1>1 DEF Steps

LEMMA Onward ==
  ASSUME NEW r \in Runs, OnPlan(r), r.steps # <<>>
  PROVE  /\ Taken(r) \in Nat /\ Taken(r) + 1 \in 1 .. Len(StepsOf(r.command))
         /\ Head(r.steps) = StepsOf(r.command)[Taken(r) + 1]
         /\ Tail(r.steps) \in Seq(Steps)
         /\ \A q : q.command = r.command /\ q.steps = Tail(r.steps) =>
              Taken(q) = Taken(r) + 1 /\ OnPlan(q)
<1> DEFINE s == StepsOf(r.command)
<1>1. r.command \in AllCommands /\ s \in Seq(Steps) /\ Len(s) \in Nat
  BY PlanIs DEF OnPlan
<1>2. r.steps \in Seq(Steps) /\ Len(r.steps) \in Nat /\ Len(r.steps) # 0
  <2>1. r.steps \in Seq(Steps)
    BY DEF Runs
  <2> QED
    BY <2>1, EmptySeq
<1>3. /\ Tail(r.steps) \in Seq(Steps) /\ Len(Tail(r.steps)) = Len(r.steps) - 1
      /\ \A i \in 1 .. Len(r.steps) - 1 : Tail(r.steps)[i] = r.steps[i + 1]
      /\ Head(r.steps) = r.steps[1]
  BY <1>2
<1>4. /\ Taken(r) \in Nat /\ Taken(r) = Len(s) - Len(r.steps)
      /\ \A i \in 1 .. Len(r.steps) : r.steps[i] = s[Taken(r) + i]
  BY DEF OnPlan, Taken
<1> HIDE DEF s
<1>5. Head(r.steps) = s[Taken(r) + 1] /\ Taken(r) + 1 \in 1 .. Len(s)
  <2>1. 1 \in 1 .. Len(r.steps)
    BY <1>2
  <2>2. Head(r.steps) = s[Taken(r) + 1]
    BY <1>3, <1>4, <2>1
  <2>3. Taken(r) + 1 \in 1 .. Len(s)
    BY <1>1, <1>2, <1>4
  <2> QED
    BY <2>2, <2>3
<1>6. ASSUME NEW q, q.command = r.command, q.steps = Tail(r.steps)
      PROVE  Taken(q) = Taken(r) + 1 /\ OnPlan(q)
  <2>1. Taken(q) = Len(s) - (Len(r.steps) - 1)
    BY <1>3, <1>6 DEF Taken, s
  <2>2. Taken(q) = Taken(r) + 1
    BY <1>1, <1>2, <1>4, <2>1
  <2>3. ASSUME NEW i \in 1 .. Len(q.steps) PROVE q.steps[i] = s[Taken(q) + i]
    <3>1. i \in 1 .. Len(r.steps) - 1 /\ i + 1 \in 1 .. Len(r.steps) /\ i \in Nat
      BY <1>2, <1>3, <1>6, <2>3
    <3>2. q.steps[i] = r.steps[i + 1]
      BY <1>3, <1>6, <3>1
    <3>3. r.steps[i + 1] = s[Taken(r) + (i + 1)]
      BY <1>4, <3>1
    <3>4. Taken(r) + (i + 1) = Taken(q) + i
      BY <1>4, <2>2, <3>1
    <3> QED
      BY <3>2, <3>3, <3>4
  <2>4. q.command \in AllCommands /\ Taken(q) \in Nat /\ s = StepsOf(q.command)
    BY <1>1, <1>4, <1>6, <2>2 DEF s
  <2>5. OnPlan(q)
    BY <2>3, <2>4 DEF OnPlan
  <2> QED
    BY <2>2, <2>5
<1> QED
  BY <1>3, <1>4, <1>5, <1>6 DEF s

LEMMA MadeNext ==
  ASSUME NEW r \in Runs, OnPlan(r), r.steps # <<>>, NEW b, NEW w, Made(r, b, w),
         NEW q, q.command = r.command, q.steps = Tail(r.steps),
         NEW b2, NEW v, Grows(w, v),
         NEW step, step = Head(r.steps),
         \A p \in Packages : b[p] # 0 => b2[p] # 0 \/ step = Publish(p),
         step.op = "publish" => v.version[step.package] # 0,
         step.op = "compile" => b2[step.package] # 0 \/ v.misbuilds > 0
  PROVE  Made(q, b2, v)
<1> DEFINE s == StepsOf(r.command)
           k == Taken(r) + 1
<1>1. /\ Taken(r) \in Nat /\ k \in 1 .. Len(s) /\ step = s[k] /\ Taken(q) = k
      /\ r.command \in AllCommands /\ Len(s) \in Nat
  BY Onward, PlanIs DEF OnPlan
<1> SUFFICES ASSUME NEW i \in 1 .. k
             PROVE  /\ s[i].op = "publish" => v.version[s[i].package] # 0
                    /\ s[i].op = "compile"
                         /\ (\A j \in 1 .. k : s[j] # Publish(s[i].package)) =>
                         b2[s[i].package] # 0 \/ v.misbuilds > 0
  BY <1>1 DEF Made
<1>2. CASE i = k
  BY <1>1, <1>2
<1>3. CASE i # k
  <2>1. i \in 1 .. Taken(r) /\ i \in 1 .. Len(s)
    BY <1>1, <1>3
  <2>2. s[i].package \in Packages
    BY <1>1, <2>1, StepIn
  <2>3. /\ s[i].op = "publish" => w.version[s[i].package] # 0
        /\ s[i].op = "compile"
             /\ (\A j \in 1 .. Taken(r) : s[j] # Publish(s[i].package)) =>
             b[s[i].package] # 0 \/ w.misbuilds > 0
    BY <2>1 DEF Made
  <2>4. s[i].op = "publish" => v.version[s[i].package] # 0
    BY <2>2, <2>3 DEF Grows
  <2>5. ASSUME s[i].op = "compile", \A j \in 1 .. k : s[j] # Publish(s[i].package)
        PROVE  b2[s[i].package] # 0 \/ v.misbuilds > 0
    <3>1. \A j \in 1 .. Taken(r) : j \in 1 .. k
      BY <1>1
    <3>2. b[s[i].package] # 0 \/ w.misbuilds > 0
      BY <2>3, <2>5, <3>1
    <3>3. step # Publish(s[i].package)
      BY <1>1, <2>5
    <3> QED
      BY <2>2, <3>2, <3>3 DEF Grows
  <2> QED
    BY <2>4, <2>5
<1> QED
  BY <1>2, <1>3

LEMMA TakenIn ==
  ASSUME NEW r \in Runs, OnPlan(r)
  PROVE  /\ Taken(r) \in Nat /\ Taken(r) <= Len(StepsOf(r.command))
         /\ \A k \in 1 .. Taken(r) :
              StepsOf(r.command)[k] \in Steps /\ StepsOf(r.command)[k].package \in Packages
<1>1. r.steps \in Seq(Steps)
  BY DEF Runs
<1>2. r.command \in AllCommands /\ Taken(r) \in Nat
  BY DEF OnPlan
<1>3. Len(r.steps) \in Nat /\ Len(StepsOf(r.command)) \in Nat
  BY <1>1, <1>2, PlanIs
<1>4. Taken(r) <= Len(StepsOf(r.command))
  <2> DEFINE n == Len(StepsOf(r.command))
             m == Len(r.steps)
  <2>1. Taken(r) = n - m /\ n \in Nat /\ m \in Nat
    BY <1>3 DEF Taken
  <2> HIDE DEF n, m
  <2>2. Taken(r) <= n
    BY <2>1
  <2> QED
    BY <2>2 DEF n
<1>5. \A k \in 1 .. Taken(r) : k \in 1 .. Len(StepsOf(r.command))
  BY <1>2, <1>3, <1>4
<1> QED
  BY <1>2, <1>4, <1>5, StepIn

\* Other runs go on as they were.
LEMMA RunInvKept ==
  ASSUME NEW r \in Runs, NEW q, q.state = r.state, q.command = r.command,
         q.steps = r.steps, q.initial = r.initial, ~q.alone,
         NEW b, NEW w, NEW v, Grows(w, v), RunInv(r, b, w)
  PROVE  RunInv(q, b, v)
<1> SUFFICES ASSUME r.state = "running" PROVE RunInv(q, b, v)
  BY DEF RunInv
<1>1. Taken(q) = Taken(r)
  BY DEF Taken
<1>2. OnPlan(r) /\ Made(r, b, w)
  BY DEF RunInv
<1>3. OnPlan(q)
  BY <1>1, <1>2 DEF OnPlan
<1>4. Made(q, b, v)
  <2>1. \A k \in 1 .. Taken(r) : StepsOf(r.command)[k].package \in Packages
    BY <1>2, TakenIn
  <2> QED
    BY <1>1, <1>2, <2>1 DEF Made, Grows
<1>5. r.command = "layerzero" => Decided(q, v)
  <2>1. "msglib_auth" \in Packages /\ "layerzero" \in Packages
    BY PackagesAre
  <2> QED
    BY <1>1, <2>1 DEF RunInv, Decided, Grows
<1>6. r.command = "layerzero" /\ r.initial => Kept(q, v)
  BY <1>1 DEF RunInv, Kept, Grows
<1> QED
  BY <1>3, <1>4, <1>5, <1>6 DEF RunInv

\* The run at work: it is typed, and nobody else is alone.
LEMMA AtWork ==
  ASSUME DeployInv, NEW o \in Operators, Running(o)
  PROVE  /\ run[o] \in Runs /\ OnPlan(run[o]) /\ run[o].command \in AllCommands
         /\ Made(run[o], build[o], Facts)
         /\ RunInv(run[o], build[o], Facts)
         /\ \A x \in Operators : x # o => ~run[x].alone
         /\ run[o].alone => \A x \in Operators : x # o => ~Running(x)
<1>1. run[o] \in Runs /\ run[o].state = "running"
  BY DEF DeployInv, Typed, Running
<1>2. RunInv(run[o], build[o], Facts)
  BY DEF DeployInv
<1>3. \A x \in Operators : x # o => ~run[x].alone
  BY <1>1 DEF DeployInv, Alone
<1>4. run[o].alone => \A x \in Operators : x # o => ~Running(x)
  BY DEF DeployInv, Alone, Running
<1> QED
  BY <1>1, <1>2, <1>3, <1>4 DEF RunInv, OnPlan

\* What a step of one run must see to.
LEMMA StepKeeps ==
  ASSUME DeployInv, NEW o \in Operators, Running(o),
         NEW q \in Runs, run' = [run EXCEPT ![o] = q], q.alone = run[o].alone,
         \A x \in Operators : x # o => build'[x] = build[x],
         Grows(Facts, Facts'), RunInv(q, build'[o], Facts'),
         q.state = "failed" /\ q.alone =>
           \/ misbuilds' > 0
           \/ halfway' # {}
           \/ q.command \in Apps /\ reported'["layerzero"] = 0
  PROVE  /\ run' \in [Operators -> Runs] /\ run'[o] = q
         /\ \A x \in Operators : RunInv(run'[x], build'[x], Facts')
         /\ Alone' /\ NoFailureUnprovoked'
<1>1. run \in [Operators -> Runs]
  BY DEF DeployInv, Typed
<1>2. /\ run' \in [Operators -> Runs] /\ run'[o] = q
      /\ \A x \in Operators : x # o => run'[x] = run[x]
  BY <1>1
<1>3. ASSUME NEW x \in Operators PROVE RunInv(run'[x], build'[x], Facts')
  <2>1. CASE x = o
    BY <1>2, <2>1
  <2>2. CASE x # o
    <3>1. /\ run[x] \in Runs /\ ~run[x].alone /\ run'[x] = run[x] /\ build'[x] = build[x]
          /\ RunInv(run[x], build[x], Facts)
      BY <1>1, <1>2, <2>2, AtWork DEF DeployInv
    <3>2. RunInv(run[x], build[x], Facts')
      BY <3>1, RunInvKept
    <3> QED
      BY <3>1, <3>2
  <2> QED
    BY <2>1, <2>2
<1>4. Alone'
  <2> SUFFICES ASSUME NEW p \in Operators, NEW x \in Operators, run'[p].alone, x # p
               PROVE  run'[x].state # "running"
    BY DEF Alone
  <2>1. p = o
    BY <1>2, AtWork
  <2>2. run[o].alone /\ x # o /\ run'[x] = run[x]
    BY <1>2, <2>1
  <2> QED
    BY <2>2, AtWork DEF Running
<1>5. NoFailureUnprovoked'
  <2> SUFFICES ASSUME NEW p \in Operators, run'[p].state = "failed", run'[p].alone
               PROVE  \/ misbuilds' > 0
                      \/ halfway' # {}
                      \/ run'[p].command \in Apps /\ reported'["layerzero"] = 0
    BY DEF NoFailureUnprovoked
  <2>1. p = o
    BY <1>2, AtWork
  <2> QED
    BY <1>2, <2>1
<1> QED
  BY <1>2, <1>3, <1>4, <1>5

LEMMA AtStepIs ==
  ASSUME DeployInv, NEW o \in Operators, NEW op, AtStep(o, op)
  PROVE  /\ Running(o) /\ run[o].state = "running" /\ run[o].steps # <<>>
         /\ Head(run[o].steps) \in Steps /\ Head(run[o].steps).op = op
         /\ Package(o) \in Packages /\ Package(o) = Head(run[o].steps).package
         /\ Taken(run[o]) \in Nat
         /\ Taken(run[o]) + 1 \in 1 .. Len(StepsOf(run[o].command))
         /\ Head(run[o].steps) = StepsOf(run[o].command)[Taken(run[o]) + 1]
<1>1. Running(o) /\ run[o].steps # <<>> /\ Head(run[o].steps).op = op
  BY DEF AtStep
<1>2. run[o] \in Runs /\ OnPlan(run[o]) /\ run[o].command \in AllCommands
  BY <1>1, AtWork
<1>3. /\ Taken(run[o]) \in Nat
      /\ Taken(run[o]) + 1 \in 1 .. Len(StepsOf(run[o].command))
      /\ Head(run[o].steps) = StepsOf(run[o].command)[Taken(run[o]) + 1]
  BY <1>1, <1>2, Onward
<1>4. Head(run[o].steps) \in Steps /\ Head(run[o].steps).package \in Packages
  BY <1>2, <1>3, StepIn
<1> QED
  BY <1>1, <1>3, <1>4 DEF Running, Package

\* A run that has taken its next step.
Went(r, q) ==
  /\ q \in Runs /\ q.state = "running" /\ q.command = r.command
  /\ q.steps = Tail(r.steps) /\ q.alone = r.alone

LEMMA GoOnIs ==
  ASSUME DeployInv, NEW o \in Operators, NEW op, AtStep(o, op), NEW initial \in BOOLEAN
  PROVE  /\ Went(run[o], [run[o] EXCEPT !.steps = Tail(@), !.initial = initial])
         /\ [run[o] EXCEPT !.steps = Tail(@), !.initial = initial].initial = initial
         /\ Went(run[o], [run[o] EXCEPT !.steps = Tail(@)])
         /\ [run[o] EXCEPT !.steps = Tail(@)].initial = run[o].initial
<1>1. run[o] \in Runs /\ OnPlan(run[o]) /\ run[o].steps # <<>> /\ run[o].state = "running"
  BY AtStepIs, AtWork
<1>2. Tail(run[o].steps) \in Seq(Steps)
  BY <1>1, Onward
<1> QED
  BY <1>1, <1>2 DEF Runs, Went

LEMMA WentOn ==
  ASSUME DeployInv, NEW o \in Operators, NEW op, AtStep(o, op), NEW q, Went(run[o], q),
         NEW b, NEW v, Grows(Facts, v),
         \A p \in Packages : build[o][p] # 0 => b[p] # 0 \/ Head(run[o].steps) = Publish(p),
         op = "publish" => v.version[Package(o)] # 0,
         op = "compile" => b[Package(o)] # 0 \/ v.misbuilds > 0
  PROVE  Taken(q) = Taken(run[o]) + 1 /\ OnPlan(q) /\ Made(q, b, v)
<1>1. /\ run[o] \in Runs /\ OnPlan(run[o]) /\ run[o].steps # <<>>
      /\ Made(run[o], build[o], Facts)
  BY AtStepIs, AtWork
<1>2. Taken(q) = Taken(run[o]) + 1 /\ OnPlan(q)
  BY <1>1, Onward DEF Went
<1>3. /\ q.command = run[o].command /\ q.steps = Tail(run[o].steps)
      /\ Head(run[o].steps).op = op /\ Package(o) = Head(run[o].steps).package
  BY AtStepIs DEF Went
<1>4. Made(q, b, v)
  BY <1>1, <1>3, MadeNext
<1> QED
  BY <1>2, <1>4

\* A deployment that somebody is at is still at it, or was cut off.
LEMMA OthersDeploy ==
  ASSUME DeployInv, NEW o \in Operators, NEW q, run' = [run EXCEPT ![o] = q],
         NEW ks, Deploying(run, ks), At(run[o], ks) => At(q, ks) \/ halfway' # {}
  PROVE  Deploying(run', ks) \/ halfway' # {}
<1>1. run \in [Operators -> Runs]
  BY DEF DeployInv, Typed
<1>2. PICK x \in Operators : At(run[x], ks)
  BY DEF Deploying
<1>3. run'[x] = IF x = o THEN q ELSE run[x]
  BY <1>1
<1> QED
  BY <1>2, <1>3 DEF Deploying

\* Where the configurations are.
LEMMA NotConfiguring ==
  ASSUME DeployInv, NEW o \in Operators, NEW op, AtStep(o, op), op # "configure"
  PROVE  ~At(run[o], {7}) /\ ~At(run[o], {19, 20, 21})
<1> SUFFICES ASSUME run[o].command = "layerzero", Taken(run[o]) \in {7, 19, 20, 21}
             PROVE  FALSE
  BY DEF At
<1> DEFINE k == Taken(run[o]) + 1
<1>1. k \in {8, 20, 21, 22} /\ Head(run[o].steps) = StepsOf("layerzero")[k]
  BY AtStepIs
<1>2. StepsOf("layerzero")[k].op = "configure"
  BY <1>1, LayerzeroAt, StepFields
<1> QED
  BY <1>1, <1>2, AtStepIs

LEMMA StillConfigured ==
  ASSUME DeployInv, NEW o \in Operators, NEW q, run' = [run EXCEPT ![o] = q],
         UNCHANGED chain, UNCHANGED reported, halfway \subseteq halfway',
         At(run[o], {7}) => At(q, {7}) \/ halfway' # {},
         At(run[o], {19, 20, 21}) => At(q, {19, 20, 21}) \/ halfway' # {}
  PROVE  Unpublished' /\ PublishedIsConfigured'
<1>1. /\ version' = version /\ permit' = permit /\ uln' = uln
      /\ initialized' = initialized /\ executors' = executors /\ reported' = reported
  BY DEF chain
<1>2. Unpublished'
  BY <1>1 DEF DeployInv, Unpublished
<1>3. Deploying(run, {7}) => Deploying(run', {7}) \/ halfway' # {}
  BY OthersDeploy
<1>4. Deploying(run, {19, 20, 21}) => Deploying(run', {19, 20, 21}) \/ halfway' # {}
  BY OthersDeploy
<1>5. halfway # {} => halfway' # {}
  OBVIOUS
<1>6. Configured' <=> Configured
  BY <1>1 DEF Configured
<1>7. PublishedIsConfigured
  BY DEF DeployInv
<1>8. version'["msglib_auth"] # 0 =>
        permit' \/ uln' # 0 \/ halfway' # {} \/ Deploying(run', {7})
  BY <1>1, <1>3, <1>5, <1>7 DEF PublishedIsConfigured
<1>9. version'["layerzero"] # 0 =>
        Configured' \/ halfway' # {} \/ Deploying(run', {19, 20, 21})
  BY <1>1, <1>4, <1>5, <1>6, <1>7 DEF PublishedIsConfigured
<1> QED
  BY <1>2, <1>8, <1>9 DEF PublishedIsConfigured

LEMMA FactsGrow ==
  /\ \A p \in Packages : version[p] # 0 => version'[p] # 0
  /\ misbuilds > 0 => misbuilds' > 0
  /\ initialized => initialized'
  /\ executors = 1 => executors' = 1
  /\ uln = 1 => uln' = 1
  => Grows(Facts, Facts')
BY DEF Grows, Facts

LEMMA FactsAre ==
  /\ Facts.version = version /\ Facts.permit = permit
  /\ Facts.initialized = initialized /\ Facts.executors = executors
  /\ Facts.uln = uln /\ Facts.misbuilds = misbuilds
BY DEF Facts

LEMMA FactsWillBe ==
  /\ Facts'.version = version' /\ Facts'.permit = permit'
  /\ Facts'.initialized = initialized' /\ Facts'.executors = executors'
  /\ Facts'.uln = uln' /\ Facts'.misbuilds = misbuilds'
BY DEF Facts

\* Where the run is when it compiles.
LEMMA CompilingAt ==
  ASSUME DeployInv, NEW o \in Operators, AtStep(o, "compile"), NEW k, k = Taken(run[o]) + 1
  PROVE  /\ k \notin {6, 7, 18, 19, 20, 21}
         /\ run[o].command = "layerzero" => k < 18
         /\ Package(o) \in Apps => run[o].command = Package(o)
<1> DEFINE c == run[o].command
<1>1. /\ c \in AllCommands /\ k \in 1 .. Len(StepsOf(c)) /\ StepsOf(c)[k].op = "compile"
      /\ StepsOf(c)[k].package = Package(o)
  BY AtStepIs, AtWork
<1>2. \/ c \in Apps /\ k = 1 /\ StepsOf(c)[k].package = c
      \/ c = "layerzero" /\ k \notin {6, 7, 8, 18, 19, 20, 21, 22}
           /\ StepsOf(c)[k].package \notin Apps
  BY <1>1, CompilesAt
<1>3. c = "layerzero" => k \in 1 .. 22
  BY <1>1, LayerzeroIs
<1>4. c = "layerzero" => c \notin Apps
  BY CommandsAre
<1> QED
  BY <1>1, <1>2, <1>3, <1>4

LEMMA CompileStep ==
  ASSUME DeployInv, NEW o \in Operators, CompilePackage(o)
  PROVE  DeployInv'
<1> DEFINE q == [run[o] EXCEPT !.steps = Tail(@)]
           p == Package(o)
<1>1. /\ AtStep(o, "compile") /\ run' = [run EXCEPT ![o] = q]
      /\ build' = [build EXCEPT ![o] = [build[o] EXCEPT ![p] = sources]]
      /\ UNCHANGED <<staff, sources, chain, reported, halfway, bounds>>
  BY DEF CompilePackage, GoOn
<1>2. Typed
  BY DEF DeployInv
<1>3. /\ Running(o) /\ p \in Packages /\ Head(run[o].steps).op = "compile"
      /\ run[o].state = "running"
  BY <1>1, AtStepIs
<1>4. Went(run[o], q) /\ q.initial = run[o].initial
  BY <1>1, <1>2, GoOnIs DEF Typed, Runs
<1>5. /\ build' \in [Operators -> [Packages -> Nat]]
      /\ \A x \in Operators : x # o => build'[x] = build[x]
      /\ build'[o] = [build[o] EXCEPT ![p] = sources]
      /\ build[o] \in [Packages -> Nat]
      /\ sources \in Nat /\ sources # 0
  BY <1>1, <1>2, <1>3 DEF Typed
<1>6. /\ version' = version /\ permit' = permit /\ initialized' = initialized
      /\ executors' = executors /\ uln' = uln /\ last_version' = last_version
      /\ misbuilds' = misbuilds /\ faults' = faults /\ sources' = sources
      /\ reported' = reported /\ halfway' = halfway
  BY <1>1 DEF chain, bounds
<1>7. Grows(Facts, Facts')
  BY <1>6, FactsGrow
<1>8. /\ \A x \in Packages : build[o][x] # 0 => build'[o][x] # 0
      /\ build'[o][p] # 0
  BY <1>3, <1>5
<1> HIDE DEF q
<1>9. RunInv(q, build'[o], Facts')
  <2> DEFINE k == Taken(run[o]) + 1
  <2>1. k \notin {6, 7, 18, 19, 20, 21} /\ (run[o].command = "layerzero" => k < 18)
    BY <1>1, CompilingAt
  <2>2. Taken(run[o]) \in Nat /\ q.command = run[o].command
    BY <1>1, <1>4, AtStepIs DEF Went
  <2>3. Taken(q) = k /\ OnPlan(q) /\ Made(q, build'[o], Facts')
    <3>1. \A x \in Packages :
            build[o][x] # 0 => build'[o][x] # 0 \/ Head(run[o].steps) = Publish(x)
      BY <1>8
    <3>2. "compile" = "publish" => Facts'.version[Package(o)] # 0
      OBVIOUS
    <3>3. "compile" = "compile" => build'[o][Package(o)] # 0 \/ Facts'.misbuilds > 0
      BY <1>8
    <3>4. AtStep(o, "compile") /\ Went(run[o], q) /\ Grows(Facts, Facts')
      BY <1>1, <1>4, <1>7
    <3> QED
      BY <3>1, <3>2, <3>3, <3>4, WentOn, Zenon
  <2> QED
    BY <2>1, <2>2, <2>3 DEF RunInv, Decided, Kept, Unspoilt
<1>10. /\ run' \in [Operators -> Runs] /\ run'[o] = q
       /\ \A x \in Operators : RunInv(run'[x], build'[x], Facts')
       /\ Alone' /\ NoFailureUnprovoked'
  BY <1>1, <1>3, <1>4, <1>5, <1>7, <1>9, StepKeeps DEF Went
<1>11. Unpublished' /\ PublishedIsConfigured'
  <2>1. ~At(run[o], {7}) /\ ~At(run[o], {19, 20, 21})
    BY <1>1, NotConfiguring
  <2> QED
    BY <1>1, <1>6, <2>1, StillConfigured
<1>12. Typed'
  BY <1>2, <1>5, <1>6, <1>10 DEF Typed
<1> QED
  BY <1>10, <1>11, <1>12 DEF DeployInv

\* A command that is over, whatever ended it, has changed nothing by that.
LEMMA EndStep ==
  ASSUME DeployInv, NEW o \in Operators, Running(o),
         NEW q \in Runs, run' = [run EXCEPT ![o] = q], q.alone = run[o].alone,
         q.state # "running",
         UNCHANGED <<sources, build, chain, reported>>, halfway \subseteq halfway',
         misbuilds' \in Nat, misbuilds' >= misbuilds, faults' \in Nat,
         At(run[o], {7}) => halfway' # {},
         At(run[o], {19, 20, 21}) => halfway' # {},
         q.state = "failed" /\ q.alone =>
           \/ misbuilds' > 0
           \/ halfway' # {}
           \/ q.command \in Apps /\ reported["layerzero"] = 0
  PROVE  DeployInv'
<1>1. /\ version' = version /\ permit' = permit /\ initialized' = initialized
      /\ executors' = executors /\ uln' = uln /\ last_version' = last_version
      /\ sources' = sources /\ build' = build /\ reported' = reported
      /\ UNCHANGED chain /\ UNCHANGED reported
  BY DEF chain
<1>2. Typed
  BY DEF DeployInv
<1>3. Grows(Facts, Facts')
  <2>1. misbuilds > 0 => misbuilds' > 0
    BY <1>2 DEF Typed
  <2> QED
    BY <1>1, <2>1, FactsGrow
<1>4. RunInv(q, build'[o], Facts')
  BY DEF RunInv
<1>5. /\ run' \in [Operators -> Runs] /\ run'[o] = q
      /\ \A x \in Operators : RunInv(run'[x], build'[x], Facts')
      /\ Alone' /\ NoFailureUnprovoked'
  BY <1>1, <1>3, <1>4, StepKeeps
<1>6. Unpublished' /\ PublishedIsConfigured'
  BY <1>1, StillConfigured
<1>7. Typed'
  BY <1>1, <1>2, <1>5 DEF Typed
<1> QED
  BY <1>5, <1>6, <1>7 DEF DeployInv

\* A run that is over.
Ended(r, s, q) == q = [r EXCEPT !.state = s, !.steps = <<>>]

LEMMA EndedIs ==
  ASSUME DeployInv, NEW o \in Operators, Running(o), NEW s \in States, NEW q,
         Ended(run[o], s, q)
  PROVE  /\ q \in Runs /\ q.state = s
         /\ q.command = run[o].command /\ q.alone = run[o].alone
<1>1. <<>> \in Seq(Steps) /\ run[o] \in Runs
  BY AtWork
<1> QED
  BY <1>1 DEF Runs, Ended

LEMMA MiscompileStep ==
  ASSUME DeployInv, NEW o \in Operators, MiscompilePackage(o)
  PROVE  DeployInv'
<1>1. /\ AtStep(o, "compile") /\ misbuilds' = misbuilds + 1 /\ faults' = faults
      /\ UNCHANGED <<sources, build, chain, reported>> /\ halfway' = halfway
  BY DEF MiscompilePackage
<1>2. Typed /\ Running(o) /\ ~At(run[o], {7}) /\ ~At(run[o], {19, 20, 21})
  BY <1>1, AtStepIs, NotConfiguring DEF DeployInv
<1>3. misbuilds' \in Nat /\ misbuilds' > 0 /\ faults' \in Nat /\ misbuilds' >= misbuilds
  BY <1>1, <1>2 DEF Typed
<1>4. CASE ~compileFailureCaught(Package(o))
  <2> DEFINE q == [run[o] EXCEPT !.state = "failed", !.steps = <<>>]
  <2>1. run' = [run EXCEPT ![o] = q]
    BY <1>4 DEF MiscompilePackage, Fail
  <2>2. "failed" \in States /\ Ended(run[o], "failed", q)
    BY DEF States, Ended
  <2> HIDE DEF q
  <2>3. q \in Runs /\ q.state = "failed" /\ q.alone = run[o].alone
    BY <1>2, <2>2, EndedIs
  <2> QED
    BY <1>1, <1>2, <1>3, <2>1, <2>3, EndStep
<1>5. CASE compileFailureCaught(Package(o))
  <2> DEFINE q == [run[o] EXCEPT !.steps = Tail(@)]
             k == Taken(run[o]) + 1
  <2>1. run' = [run EXCEPT ![o] = q]
    BY <1>5 DEF MiscompilePackage, GoOn
  <2>2. Went(run[o], q)
    BY <1>1, <1>2, GoOnIs DEF Typed, Runs
  <2> HIDE DEF q
  <2>3. /\ version' = version /\ permit' = permit /\ initialized' = initialized
        /\ executors' = executors /\ uln' = uln /\ last_version' = last_version
        /\ sources' = sources /\ build' = build /\ reported' = reported
        /\ UNCHANGED chain /\ UNCHANGED reported
    BY <1>1 DEF chain
  <2>4. Grows(Facts, Facts')
    BY <1>3, <2>3, FactsGrow
  <2>5. RunInv(q, build'[o], Facts')
    <3>1. \A x \in Packages :
            build[o][x] # 0 => build'[o][x] # 0 \/ Head(run[o].steps) = Publish(x)
      BY <2>3
    <3>2. "compile" = "publish" => Facts'.version[Package(o)] # 0
      OBVIOUS
    <3>3. "compile" = "compile" => build'[o][Package(o)] # 0 \/ Facts'.misbuilds > 0
      BY <1>3, FactsWillBe
    <3>4. Taken(q) = k /\ OnPlan(q) /\ Made(q, build'[o], Facts')
      BY <1>1, <2>2, <2>4, <3>1, <3>2, <3>3, WentOn, Zenon
    <3>5. k \notin {6, 7, 18, 19, 20, 21} /\ (run[o].command = "layerzero" => k < 18)
      BY <1>1, CompilingAt
    <3>6. Taken(run[o]) \in Nat /\ q.command = run[o].command
      BY <1>1, <2>2, AtStepIs DEF Went
    <3> QED
      BY <3>4, <3>5, <3>6 DEF RunInv, Decided, Kept, Unspoilt
  <2>6. /\ run' \in [Operators -> Runs] /\ run'[o] = q
        /\ \A x \in Operators : RunInv(run'[x], build'[x], Facts')
        /\ Alone' /\ NoFailureUnprovoked'
    BY <1>2, <2>1, <2>2, <2>3, <2>4, <2>5, StepKeeps DEF Went
  <2>7. Unpublished' /\ PublishedIsConfigured'
    BY <1>1, <1>2, <2>1, <2>3, StillConfigured
  <2>8. Typed'
    BY <1>2, <1>3, <2>3, <2>6 DEF Typed
  <2> QED
    BY <2>6, <2>7, <2>8 DEF DeployInv
<1> QED
  BY <1>4, <1>5

LEMMA CheckStep ==
  ASSUME DeployInv, NEW o \in Operators, Check(o)
  PROVE  DeployInv'
<1> DEFINE p == Package(o)
           first == initialDeploy(p)
           q == [run[o] EXCEPT !.steps = Tail(@), !.initial = first]
           k == Taken(run[o]) + 1
<1>1. /\ AtStep(o, "check") /\ run' = [run EXCEPT ![o] = q]
      /\ UNCHANGED <<sources, build, chain, reported, halfway, bounds>>
  BY DEF Check
<1>2. Typed /\ Running(o) /\ ~At(run[o], {7}) /\ ~At(run[o], {19, 20, 21})
  BY <1>1, AtStepIs, NotConfiguring DEF DeployInv
<1>3. first \in BOOLEAN /\ (first <=> version[p] = 0)
  BY DEF initialDeploy, Published
<1>4. Went(run[o], q) /\ q.initial = first
  BY <1>1, <1>3, GoOnIs
<1>5. /\ version' = version /\ permit' = permit /\ initialized' = initialized
      /\ executors' = executors /\ uln' = uln /\ last_version' = last_version
      /\ sources' = sources /\ build' = build /\ reported' = reported /\ halfway' = halfway
      /\ misbuilds' = misbuilds /\ faults' = faults
      /\ UNCHANGED chain /\ UNCHANGED reported
  BY <1>1 DEF chain, bounds
<1>6. Grows(Facts, Facts')
  BY <1>5, FactsGrow
<1> HIDE DEF q
<1>7. RunInv(q, build'[o], Facts')
  <2>1. \A x \in Packages :
          build[o][x] # 0 => build'[o][x] # 0 \/ Head(run[o].steps) = Publish(x)
    BY <1>5
  <2>2. "check" = "publish" => Facts'.version[Package(o)] # 0
    OBVIOUS
  <2>3. "check" = "compile" => build'[o][Package(o)] # 0 \/ Facts'.misbuilds > 0
    OBVIOUS
  <2>4. Taken(q) = k /\ OnPlan(q) /\ Made(q, build'[o], Facts')
    BY <1>1, <1>4, <1>6, <2>1, <2>2, <2>3, WentOn, Zenon
  <2>5. \/ k = 6 /\ p = "msglib_auth"
        \/ k = 18 /\ p = "layerzero"
    BY <1>1, <1>2, AtStepIs, AtWork, ChecksAt
  <2>6. /\ version["layerzero"] = 0 => ~initialized /\ executors = 0 /\ uln = 0
        /\ version["msglib_auth"] = 0 => ~permit
    BY DEF DeployInv, Unpublished
  <2>7. Decided(q, Facts')
    BY <1>3, <1>4, <1>5, <2>4, <2>5, FactsWillBe DEF Decided
  <2>8. Kept(q, Facts')
    BY <2>4, <2>5 DEF Kept
  <2>9. q.initial => Unspoilt(q, Facts')
    BY <1>3, <1>4, <1>5, <2>4, <2>5, <2>6, FactsWillBe DEF Unspoilt
  <2> QED
    BY <2>4, <2>7, <2>8, <2>9 DEF RunInv
<1>8. /\ run' \in [Operators -> Runs] /\ run'[o] = q
      /\ \A x \in Operators : RunInv(run'[x], build'[x], Facts')
      /\ Alone' /\ NoFailureUnprovoked'
  BY <1>1, <1>2, <1>4, <1>5, <1>6, <1>7, StepKeeps DEF Went
<1>9. Unpublished' /\ PublishedIsConfigured'
  BY <1>1, <1>2, <1>5, StillConfigured
<1>10. Typed'
  BY <1>2, <1>5, <1>8 DEF Typed
<1> QED
  BY <1>8, <1>9, <1>10 DEF DeployInv

\* Where the run is when it publishes.
LEMMA PublishingAt ==
  ASSUME DeployInv, NEW o \in Operators, AtStep(o, "publish"), NEW k, k = Taken(run[o]) + 1
  PROVE  /\ k \notin {6, 18} /\ Head(run[o].steps) = Publish(Package(o))
         /\ run[o].command = "layerzero" => k < 20 /\ Package(o) \notin Apps
         /\ run[o].command # "layerzero" =>
              run[o].command \in Apps /\ Package(o) = run[o].command
         /\ Package(o) = "msglib_auth" => run[o].command = "layerzero" /\ k = 7
         /\ Package(o) = "layerzero" => run[o].command = "layerzero" /\ k = 19
<1> DEFINE c == run[o].command
           p == StepsOf(c)[k].package
<1>1. /\ c \in AllCommands /\ k \in 1 .. Len(StepsOf(c)) /\ StepsOf(c)[k].op = "publish"
      /\ p = Package(o) /\ StepsOf(c)[k] = Head(run[o].steps)
  BY AtStepIs, AtWork
<1>2. /\ StepsOf(c)[k] = Publish(p)
      /\ \/ k = 2 /\ c \in Apps /\ p = c
         \/ k = 2 /\ c = "layerzero" /\ p = "zro"
         \/ k = 4 /\ c = "layerzero" /\ p = "layerzero_common"
         \/ k = 7 /\ c = "layerzero" /\ p = "msglib_auth"
         \/ k = 10 /\ c = "layerzero" /\ p = "executor_auth"
         \/ k = 12 /\ c = "layerzero" /\ p = "msglib_v1_1"
         \/ k = 14 /\ c = "layerzero" /\ p = "msglib_v2"
         \/ k = 16 /\ c = "layerzero" /\ p = "executor_v2"
         \/ k = 19 /\ c = "layerzero" /\ p = "layerzero"
  BY <1>1, PublishesAt
<1>3. c = "layerzero" => c \notin Apps
  BY CommandsAre
<1> HIDE DEF c, p
<1>4. /\ k \notin {6, 18} /\ StepsOf(c)[k] = Publish(p)
      /\ c = "layerzero" => k < 20 /\ p \notin Apps
      /\ c # "layerzero" => c \in Apps /\ p = c
      /\ p = "msglib_auth" => c = "layerzero" /\ k = 7
      /\ p = "layerzero" => c = "layerzero" /\ k = 19
  BY <1>2, <1>3 DEF Apps
<1> QED
  BY <1>1, <1>4 DEF c, p

LEMMA PublishStep ==
  ASSUME DeployInv, NEW o \in Operators, PublishPackage(o)
  PROVE  DeployInv'
<1> DEFINE p == Package(o)
           q == [run[o] EXCEPT !.steps = Tail(@)]
           k == Taken(run[o]) + 1
           left == IF compileFailureCaught(p) THEN build[o][p] ELSE 0
<1>1. /\ AtStep(o, "publish") /\ run' = [run EXCEPT ![o] = q]
      /\ build[o][p] # 0 /\ version' = [version EXCEPT ![p] = build[o][p]]
      /\ build' = [build EXCEPT ![o] = [build[o] EXCEPT ![p] = left]]
      /\ UNCHANGED <<sources, permit, last_version, uln, initialized,
                     executors, reported, halfway, bounds>>
  BY DEF PublishPackage, GoOn
<1>2. Typed /\ Running(o) /\ ~At(run[o], {7}) /\ ~At(run[o], {19, 20, 21})
      /\ p \in Packages /\ run[o].state = "running"
  BY <1>1, AtStepIs, NotConfiguring DEF DeployInv
<1>3. Went(run[o], q) /\ q.initial = run[o].initial
  BY <1>1, <1>2, GoOnIs DEF Typed, Runs
<1>4. /\ build[o] \in [Packages -> Nat] /\ left \in Nat
      /\ build' \in [Operators -> [Packages -> Nat]]
      /\ \A x \in Operators : x # o => build'[x] = build[x]
      /\ build'[o] = [build[o] EXCEPT ![p] = left]
  <2>1. build[o] \in [Packages -> Nat]
    BY <1>2 DEF Typed
  <2>2. left \in Nat
    BY <1>2, <2>1
  <2> HIDE DEF left
  <2> QED
    BY <1>1, <1>2, <2>1, <2>2 DEF Typed
<1> HIDE DEF q, left
<1>5. /\ version' \in [Packages -> Nat] /\ version'[p] # 0
      /\ \A x \in Packages : x # p => version'[x] = version[x]
      /\ \A x \in Packages : version[x] # 0 => version'[x] # 0
  BY <1>1, <1>2, <1>4 DEF Typed
<1>6. /\ permit' = permit /\ initialized' = initialized
      /\ executors' = executors /\ uln' = uln /\ last_version' = last_version
      /\ sources' = sources /\ reported' = reported /\ halfway' = halfway
      /\ misbuilds' = misbuilds /\ faults' = faults
  BY <1>1 DEF bounds
<1>7. Grows(Facts, Facts')
  BY <1>5, <1>6, FactsGrow
<1>8. /\ k \notin {6, 18} /\ Head(run[o].steps) = Publish(p)
      /\ run[o].command = "layerzero" => k < 20
      /\ p = "msglib_auth" => run[o].command = "layerzero" /\ k = 7
      /\ p = "layerzero" => run[o].command = "layerzero" /\ k = 19
  BY <1>1, PublishingAt
<1>9. /\ Taken(q) = k /\ OnPlan(q) /\ Made(q, build'[o], Facts')
      /\ Taken(run[o]) \in Nat /\ q.command = run[o].command
      /\ q.alone = run[o].alone /\ q.state = "running"
  <2>1. \A x \in Packages :
          build[o][x] # 0 => build'[o][x] # 0 \/ Head(run[o].steps) = Publish(x)
    BY <1>2, <1>4, <1>8
  <2>2. "publish" = "publish" => Facts'.version[Package(o)] # 0
    BY <1>5, FactsWillBe
  <2>3. "publish" = "compile" => build'[o][Package(o)] # 0 \/ Facts'.misbuilds > 0
    OBVIOUS
  <2>4. Taken(q) = k /\ OnPlan(q) /\ Made(q, build'[o], Facts')
    BY <1>1, <1>3, <1>7, <2>1, <2>2, <2>3, WentOn, Zenon
  <2> QED
    BY <1>1, <1>3, <2>4, AtStepIs DEF Went
<1>10. /\ run[o].command = "layerzero" => Decided(run[o], Facts)
       /\ run[o].command = "layerzero" /\ run[o].initial /\ run[o].alone => Unspoilt(run[o], Facts)
  BY <1>2, AtWork DEF RunInv
<1>11. RunInv(q, build'[o], Facts')
  <2>1. Decided(q, Facts') /\ (run[o].command = "layerzero" => Kept(q, Facts'))
    BY <1>8, <1>9 DEF Decided, Kept
  <2>2. ASSUME Unspoilt(run[o], Facts), run[o].command = "layerzero"
        PROVE  Unspoilt(q, Facts')
    BY <1>6, <1>8, <1>9, <2>2, FactsAre, FactsWillBe DEF Unspoilt
  <2> QED
    BY <1>3, <1>9, <1>10, <2>1, <2>2 DEF RunInv
<1>12. /\ run' \in [Operators -> Runs] /\ run'[o] = q
       /\ \A x \in Operators : RunInv(run'[x], build'[x], Facts')
       /\ Alone' /\ NoFailureUnprovoked'
  BY <1>1, <1>2, <1>3, <1>4, <1>7, <1>11, StepKeeps DEF Went
<1>13. "msglib_auth" \in Packages /\ "layerzero" \in Packages
  BY PackagesAre
<1>14. Unpublished'
  BY <1>5, <1>6, <1>13 DEF DeployInv, Unpublished
<1>15. PublishedIsConfigured'
  <2>1. PublishedIsConfigured
    BY DEF DeployInv
  <2>2. Deploying(run, {7}) => Deploying(run', {7}) \/ halfway' # {}
    BY <1>1, <1>2, OthersDeploy
  <2>3. Deploying(run, {19, 20, 21}) => Deploying(run', {19, 20, 21}) \/ halfway' # {}
    BY <1>1, <1>2, OthersDeploy
  <2>4. version["msglib_auth"] = 0 /\ version'["msglib_auth"] # 0 => Deploying(run', {7})
    <3>1. SUFFICES ASSUME version["msglib_auth"] = 0, version'["msglib_auth"] # 0
                   PROVE  Deploying(run', {7})
      OBVIOUS
    <3>2. run[o].command = "layerzero" /\ k = 7
      BY <1>5, <1>8, <1>13, <3>1
    <3>3. run[o].initial
      BY <1>9, <1>10, <3>1, <3>2, FactsAre DEF Decided
    <3>4. At(q, {7})
      BY <1>3, <1>9, <3>2, <3>3 DEF At
    <3> QED
      BY <1>12, <3>4 DEF Deploying
  <2>5. version["layerzero"] = 0 /\ version'["layerzero"] # 0 => Deploying(run', {19, 20, 21})
    <3>1. SUFFICES ASSUME version["layerzero"] = 0, version'["layerzero"] # 0
                   PROVE  Deploying(run', {19, 20, 21})
      OBVIOUS
    <3>2. run[o].command = "layerzero" /\ k = 19
      BY <1>5, <1>8, <1>13, <3>1
    <3>3. run[o].initial
      BY <1>9, <1>10, <3>1, <3>2, FactsAre DEF Decided
    <3>4. At(q, {19, 20, 21})
      BY <1>3, <1>9, <3>2, <3>3 DEF At
    <3> QED
      BY <1>12, <3>4 DEF Deploying
  <2>6. Configured' <=> Configured
    BY <1>6 DEF Configured
  <2>7. version'["msglib_auth"] # 0 =>
          permit' \/ uln' # 0 \/ halfway' # {} \/ Deploying(run', {7})
    BY <1>6, <2>1, <2>2, <2>4 DEF PublishedIsConfigured
  <2>8. version'["layerzero"] # 0 =>
          Configured' \/ halfway' # {} \/ Deploying(run', {19, 20, 21})
    BY <1>6, <2>1, <2>3, <2>5, <2>6 DEF PublishedIsConfigured
  <2> QED
    BY <2>7, <2>8 DEF PublishedIsConfigured
<1>16. Typed'
  BY <1>2, <1>4, <1>5, <1>6, <1>12 DEF Typed
<1> QED
  BY <1>12, <1>14, <1>15, <1>16 DEF DeployInv

\* A run of LayerZero's own packages, or one after them, finds what it needs.
LEMMA PublishableAlone ==
  ASSUME DeployInv, NEW o \in Operators, AtStep(o, "publish"), run[o].alone,
         build[o][Package(o)] = 0 \/ ~Publishable(Package(o))
  PROVE  \/ misbuilds > 0
         \/ halfway # {}
         \/ run[o].command \in Apps /\ reported["layerzero"] = 0
<1> DEFINE p == Package(o)
           c == run[o].command
           s == StepsOf(c)
           k == Taken(run[o]) + 1
<1>1. /\ Running(o) /\ run[o].state = "running" /\ p \in Packages
      /\ Taken(run[o]) \in Nat /\ k \in 1 .. Len(s) /\ Head(run[o].steps) = s[k]
      /\ s[k].op = "publish" /\ s[k].package = p
      /\ c \in AllCommands /\ Made(run[o], build[o], Facts)
  BY AtStepIs, AtWork
<1>2. /\ c = "layerzero" => p \notin Apps
      /\ c # "layerzero" => c \in Apps /\ p = c
  BY PublishingAt
<1>3. k - 1 = Taken(run[o])
  BY <1>1
<1>4. CASE build[o][p] = 0
  <2>1. PICK j \in 1 .. k - 1 :
          /\ s[j].op = "compile" /\ s[j].package = p
          /\ \A i \in 1 .. k - 1 : s[i] # Publish(p)
    BY <1>1, CompiledBefore
  <2>2. build[o][p] # 0 \/ Facts.misbuilds > 0
    BY <1>1, <1>3, <2>1 DEF Made
  <2> QED
    BY <1>4, <2>2, FactsAre
<1>5. CASE ~Publishable(p)
  <2>1. CASE c = "layerzero"
    <3>1. ASSUME NEW x \in Dependencies(p) PROVE Published(x)
      <4>1. PICK j \in 1 .. k - 1 : s[j] = Publish(x)
        BY <1>1, <2>1, DependenciesBefore
      <4>2. s[j].op = "publish" /\ s[j].package = x
        BY <4>1, StepFields
      <4>3. Facts.version[x] # 0
        BY <1>1, <1>3, <4>2 DEF Made
      <4> QED
        BY <4>3, FactsAre DEF Published
    <3>2. p \notin {"bridge", "counter"}
      BY <1>2, <2>1 DEF Apps
    <3> QED
      BY <1>5, <3>1, <3>2 DEF Publishable
  <2>2. CASE c # "layerzero" /\ reported["layerzero"] # 0
    <3>1. c \in Apps /\ p = c
      BY <1>2, <2>2
    <3>2. \A x \in Packages \ Apps : version[x] # 0
      BY <2>2 DEF DeployInv, Unpublished
    <3>3. \A x \in Dependencies(p) : Published(x)
      BY <3>1, <3>2, DependenciesAre DEF Published
    <3>4. ~initialized
      BY <1>5, <3>3 DEF Publishable
    <3>5. "layerzero" \in Packages \ Apps
      BY PackagesAre, CommandsAre
    <3>6. halfway # {} \/ Deploying(run, {19, 20, 21})
      BY <3>2, <3>4, <3>5 DEF DeployInv, PublishedIsConfigured, Configured
    <3>7. ~Deploying(run, {19, 20, 21})
      <4> SUFFICES ASSUME NEW x \in Operators, At(run[x], {19, 20, 21}) PROVE FALSE
        BY DEF Deploying
      <4>1. run[x].command = "layerzero" /\ Running(x)
        BY DEF At, Running
      <4>2. x # o
        BY <2>2, <4>1
      <4> QED
        BY <1>1, <4>1, <4>2, AtWork
    <3> QED
      BY <3>6, <3>7
  <2> QED
    BY <1>2, <2>1, <2>2
<1> QED
  BY <1>4, <1>5

LEMMA PublishFailsStep ==
  ASSUME DeployInv, NEW o \in Operators, PublishFails(o)
  PROVE  DeployInv'
<1> DEFINE q == [run[o] EXCEPT !.state = "failed", !.steps = <<>>]
<1>1. /\ AtStep(o, "publish") /\ run' = [run EXCEPT ![o] = q]
      /\ build[o][Package(o)] = 0 \/ ~Publishable(Package(o))
      /\ UNCHANGED <<sources, build, chain, reported, halfway, bounds>>
  BY DEF PublishFails, Fail
<1>2. Typed /\ Running(o) /\ ~At(run[o], {7}) /\ ~At(run[o], {19, 20, 21})
  BY <1>1, AtStepIs, NotConfiguring DEF DeployInv
<1>3. "failed" \in States /\ Ended(run[o], "failed", q)
  BY DEF States, Ended
<1> HIDE DEF q
<1>4. /\ q \in Runs /\ q.state = "failed" /\ q.alone = run[o].alone
      /\ q.command = run[o].command
  BY <1>2, <1>3, EndedIs
<1>5. /\ misbuilds' = misbuilds /\ faults' = faults /\ halfway' = halfway
      /\ misbuilds' \in Nat /\ faults' \in Nat /\ misbuilds' >= misbuilds
      /\ UNCHANGED <<sources, build, chain, reported>>
  BY <1>1, <1>2 DEF Typed, bounds
<1>6. q.alone => \/ misbuilds' > 0
                 \/ halfway' # {}
                 \/ q.command \in Apps /\ reported["layerzero"] = 0
  BY <1>1, <1>4, <1>5, PublishableAlone
<1> QED
  BY <1>1, <1>2, <1>4, <1>5, <1>6, EndStep

\* Where the run is when it configures.
LEMMA ConfiguringAt ==
  ASSUME DeployInv, NEW o \in Operators, AtStep(o, "configure"), NEW k, k = Taken(run[o]) + 1
  PROVE  /\ run[o].command = "layerzero"
         /\ \/ /\ k = 8 /\ Head(run[o].steps).call = allowPayload
               /\ Package(o) = "msglib_auth"
            \/ /\ k = 20 /\ Head(run[o].steps).call = initialize
               /\ Package(o) = "layerzero"
            \/ /\ k = 21 /\ Head(run[o].steps).call = registerExecutor
               /\ Package(o) = "layerzero"
            \/ /\ k = 22 /\ Head(run[o].steps).call = initializeReceive
               /\ Package(o) = "layerzero"
<1> DEFINE c == run[o].command
           step == StepsOf(c)[k]
<1>1. /\ c \in AllCommands /\ k \in 1 .. Len(StepsOf(c)) /\ step.op = "configure"
      /\ step = Head(run[o].steps) /\ Package(o) = step.package
  BY AtStepIs, AtWork
<1>2. /\ c = "layerzero"
      /\ \/ k = 8 /\ step = IfInitial("msglib_auth", allowPayload)
         \/ k = 20 /\ step = IfInitial("layerzero", initialize)
         \/ k = 21 /\ step = IfInitial("layerzero", registerExecutor)
         \/ k = 22 /\ step = IfInitial("layerzero", initializeReceive)
  BY <1>1, ConfiguresAt
<1> HIDE DEF c, step
<1>3. /\ IfInitial("msglib_auth", allowPayload).call = allowPayload
      /\ IfInitial("msglib_auth", allowPayload).package = "msglib_auth"
      /\ \A call : /\ IfInitial("layerzero", call).call = call
                   /\ IfInitial("layerzero", call).package = "layerzero"
  BY DEF IfInitial
<1>4. \/ k = 8 /\ step.call = allowPayload /\ step.package = "msglib_auth"
      \/ k = 20 /\ step.call = initialize /\ step.package = "layerzero"
      \/ k = 21 /\ step.call = registerExecutor /\ step.package = "layerzero"
      \/ k = 22 /\ step.call = initializeReceive /\ step.package = "layerzero"
  BY <1>2, <1>3
<1> QED
  BY <1>1, <1>2, <1>4 DEF c

\* What is left of a run that configures: what it published is there.
LEMMA PublishedBefore ==
  ASSUME DeployInv, NEW o \in Operators, AtStep(o, "configure")
  PROVE  /\ version["msglib_auth"] # 0
         /\ Taken(run[o]) > 8 => version["layerzero"] # 0
<1>1. /\ Made(run[o], build[o], Facts) /\ Taken(run[o]) \in Nat
      /\ run[o].command = "layerzero" /\ Taken(run[o]) \in {7, 19, 20, 21}
  BY AtStepIs, AtWork, ConfiguringAt
<1> DEFINE s == StepsOf("layerzero")
<1>2. \A i \in 1 .. Taken(run[o]) : s[i].op = "publish" => version[s[i].package] # 0
  BY <1>1, FactsAre DEF Made
<1>3. /\ s[7].op = "publish" /\ s[7].package = "msglib_auth"
      /\ s[19].op = "publish" /\ s[19].package = "layerzero"
  BY LayerzeroAt, StepFields
<1> HIDE DEF s
<1>4. 7 \in 1 .. Taken(run[o]) /\ (Taken(run[o]) > 8 => 19 \in 1 .. Taken(run[o]))
  BY <1>1
<1> QED
  BY <1>2, <1>3, <1>4

LEMMA ExecutedIs ==
  /\ Executed(allowPayload) = allow /\ Executed(initialize) = init
  /\ Executed(registerExecutor) = register_executor
  /\ Executed(initializeReceive) = init_uln_receive
  /\ Executable(allowPayload) = ~permit /\ Executable(initialize) = ~initialized
  /\ Executable(registerExecutor) = (initialized /\ executors = 0)
  /\ Executable(initializeReceive) = (initialized /\ permit /\ uln = 0)
<1> USE DEF allowPayload, initialize, registerExecutor, initializeReceive
<1>1. Executed(allowPayload) = allow /\ Executed(initialize) = init
  BY DEF Executed
<1>2. Executed(registerExecutor) = register_executor
  BY DEF Executed
<1>3. Executed(initializeReceive) = init_uln_receive
  BY DEF Executed
<1>4. Executable(allowPayload) = ~permit /\ Executable(initialize) = ~initialized
  BY DEF Executable
<1>5. Executable(registerExecutor) = (initialized /\ executors = 0)
  BY DEF Executable
<1>6. Executable(initializeReceive) = (initialized /\ permit /\ uln = 0)
  BY DEF Executable
<1> QED
  BY <1>1, <1>2, <1>3, <1>4, <1>5, <1>6

\* What a configuration does, at each of the four places.
LEMMA ConfigureDoes ==
  ASSUME DeployInv, NEW o \in Operators, Configure(o), NEW k, k = Taken(run[o]) + 1
  PROVE  \/ /\ k = 8 /\ ~permit /\ permit' = TRUE
            /\ UNCHANGED <<last_version, uln, initialized, executors>>
         \/ /\ k = 20 /\ ~initialized /\ initialized' = TRUE
            /\ UNCHANGED <<permit, last_version, uln, executors>>
         \/ /\ k = 21 /\ initialized /\ executors = 0 /\ executors' = 1
            /\ UNCHANGED <<permit, last_version, uln, initialized>>
         \/ /\ k = 22 /\ initialized /\ permit /\ uln = 0 /\ uln' = 1
            /\ permit' = FALSE /\ last_version' = 1
            /\ UNCHANGED <<initialized, executors>>
<1> DEFINE call == Head(run[o].steps).call
<1>1. AtStep(o, "configure") /\ Executed(call)
  BY DEF Configure
<1>2. \/ k = 8 /\ call = allowPayload
      \/ k = 20 /\ call = initialize
      \/ k = 21 /\ call = registerExecutor
      \/ k = 22 /\ call = initializeReceive
  BY <1>1, ConfiguringAt
<1>3. last_version = uln
  BY DEF DeployInv, Typed
<1> HIDE DEF call
<1>4. CASE k = 8 /\ call = allowPayload
  <2>1. allow
    BY <1>1, <1>4, ExecutedIs
  <2> QED
    BY <1>4, <2>1 DEF allow
<1>5. CASE k = 20 /\ call = initialize
  <2>1. init
    BY <1>1, <1>5, ExecutedIs
  <2> QED
    BY <1>5, <2>1 DEF init
<1>6. CASE k = 21 /\ call = registerExecutor
  <2>1. register_executor
    BY <1>1, <1>6, ExecutedIs
  <2> QED
    BY <1>6, <2>1 DEF register_executor
<1>7. CASE k = 22 /\ call = initializeReceive
  <2>1. init_uln_receive
    BY <1>1, <1>7, ExecutedIs
  <2> QED
    BY <1>3, <1>7, <2>1 DEF init_uln_receive, register_msglib
<1> QED
  BY <1>2, <1>4, <1>5, <1>6, <1>7

LEMMA ConfigureStep ==
  ASSUME DeployInv, NEW o \in Operators, Configure(o)
  PROVE  DeployInv'
<1> DEFINE q == [run[o] EXCEPT !.steps = Tail(@)]
           k == Taken(run[o]) + 1
<1>1. /\ AtStep(o, "configure") /\ run' = [run EXCEPT ![o] = q] /\ run[o].initial
      /\ sources' = sources /\ build' = build /\ version' = version
      /\ reported' = reported /\ halfway' = halfway
      /\ misbuilds' = misbuilds /\ faults' = faults
  BY DEF Configure, GoOn, bounds
<1>2. Typed /\ Running(o) /\ run[o].state = "running"
  BY <1>1, AtStepIs DEF DeployInv
<1>3. Went(run[o], q) /\ q.initial = run[o].initial
  BY <1>1, <1>2, GoOnIs DEF Typed, Runs
<1> HIDE DEF q
<1>4. \/ /\ k = 8 /\ ~permit /\ permit' = TRUE
         /\ UNCHANGED <<last_version, uln, initialized, executors>>
      \/ /\ k = 20 /\ ~initialized /\ initialized' = TRUE
         /\ UNCHANGED <<permit, last_version, uln, executors>>
      \/ /\ k = 21 /\ initialized /\ executors = 0 /\ executors' = 1
         /\ UNCHANGED <<permit, last_version, uln, initialized>>
      \/ /\ k = 22 /\ initialized /\ permit /\ uln = 0 /\ uln' = 1
         /\ permit' = FALSE /\ last_version' = 1
         /\ UNCHANGED <<initialized, executors>>
  BY ConfigureDoes
<1>5. Grows(Facts, Facts')
  BY <1>1, <1>4, FactsGrow
<1>6. /\ Taken(q) = k /\ OnPlan(q) /\ Made(q, build'[o], Facts')
      /\ Taken(run[o]) \in Nat /\ q.command = "layerzero" /\ run[o].command = "layerzero"
      /\ q.alone = run[o].alone /\ q.state = "running"
  <2>1. \A x \in Packages :
          build[o][x] # 0 => build'[o][x] # 0 \/ Head(run[o].steps) = Publish(x)
    BY <1>1
  <2>2. "configure" = "publish" => Facts'.version[Package(o)] # 0
    OBVIOUS
  <2>3. "configure" = "compile" => build'[o][Package(o)] # 0 \/ Facts'.misbuilds > 0
    OBVIOUS
  <2>4. Taken(q) = k /\ OnPlan(q) /\ Made(q, build'[o], Facts')
    BY <1>1, <1>3, <1>5, <2>1, <2>2, <2>3, WentOn, Zenon
  <2> QED
    BY <1>1, <1>3, <2>4, AtStepIs, ConfiguringAt DEF Went
<1>7. /\ Kept(run[o], Facts) /\ (run[o].alone => Unspoilt(run[o], Facts))
  BY <1>1, <1>2, <1>6, AtWork DEF RunInv
<1>8. RunInv(q, build'[o], Facts')
  <2>1. Decided(q, Facts')
    BY <1>4, <1>6 DEF Decided
  <2>2. Kept(q, Facts')
    <3>1. /\ Taken(run[o]) >= 20 => initialized
          /\ Taken(run[o]) >= 21 => executors = 1
      BY <1>7, FactsAre DEF Kept
    <3>2. /\ k >= 20 => initialized'
          /\ k >= 21 => executors' = 1
          /\ k >= 22 => uln' = 1
      BY <1>4, <1>6, <3>1
    <3> QED
      BY <1>6, <3>2, FactsWillBe DEF Kept
  <2>3. ASSUME Unspoilt(run[o], Facts) PROVE Unspoilt(q, Facts')
    <3>1. /\ Taken(run[o]) \in {18, 19, 20} => executors = 0
          /\ Taken(run[o]) \in {18, 19, 20, 21} => uln = 0
      BY <2>3, FactsAre DEF Unspoilt
    <3>2. /\ k \notin {6, 7, 18, 19}
          /\ k = 20 => executors' = 0 /\ uln' = 0
          /\ k = 21 => uln' = 0
      BY <1>4, <1>6, <3>1
    <3> QED
      BY <1>6, <3>2, FactsWillBe DEF Unspoilt
  <2> QED
    BY <1>6, <1>7, <2>1, <2>2, <2>3 DEF RunInv
<1>9. /\ run' \in [Operators -> Runs] /\ run'[o] = q
      /\ \A x \in Operators : RunInv(run'[x], build'[x], Facts')
      /\ Alone' /\ NoFailureUnprovoked'
  BY <1>1, <1>2, <1>3, <1>5, <1>6, <1>8, StepKeeps DEF Went
<1>10. /\ version["msglib_auth"] # 0
       /\ Taken(run[o]) > 8 => version["layerzero"] # 0
  BY <1>1, PublishedBefore
<1>11. Unpublished'
  BY <1>1, <1>4, <1>6, <1>10 DEF DeployInv, Unpublished
<1>12. PublishedIsConfigured'
  <2>1. PublishedIsConfigured
    BY DEF DeployInv
  <2>2. permit' \/ uln' # 0 \/ halfway' # {} \/ Deploying(run', {7})
    <3>1. CASE k = 8 \/ k = 22
      BY <1>4, <1>6, <3>1
    <3>2. CASE k = 20 \/ k = 21
      <4>1. ~At(run[o], {7})
        BY <1>6, <3>2 DEF At
      <4>2. permit \/ uln # 0 \/ halfway # {} \/ Deploying(run, {7})
        BY <1>10, <2>1 DEF PublishedIsConfigured
      <4>3. Deploying(run, {7}) => Deploying(run', {7}) \/ halfway' # {}
        BY <1>1, <4>1, OthersDeploy
      <4> QED
        BY <1>1, <1>4, <1>6, <3>2, <4>2, <4>3
    <3> QED
      BY <1>4, <3>1, <3>2
  <2>3. version'["layerzero"] # 0 =>
          Configured' \/ halfway' # {} \/ Deploying(run', {19, 20, 21})
    <3>1. CASE k = 8
      <4>1. ~At(run[o], {19, 20, 21})
        BY <1>6, <3>1 DEF At
      <4>2. Deploying(run, {19, 20, 21}) => Deploying(run', {19, 20, 21}) \/ halfway' # {}
        BY <1>1, <4>1, OthersDeploy
      <4>3. Configured => Configured'
        BY <1>4, <3>1 DEF Configured
      <4> QED
        BY <1>1, <2>1, <4>2, <4>3 DEF PublishedIsConfigured
    <3>2. CASE k = 20 \/ k = 21
      <4>1. At(q, {19, 20, 21})
        BY <1>1, <1>3, <1>6, <3>2 DEF At
      <4> QED
        BY <1>9, <4>1 DEF Deploying
    <3>3. CASE k = 22
      <4>1. initialized /\ executors = 1
        BY <1>6, <1>7, <3>3, FactsAre DEF Kept
      <4>2. uln' = 1 /\ initialized' = initialized /\ executors' = executors
        BY <1>4, <1>6, <3>3
      <4>3. initialized' /\ executors' = 1 /\ uln' = 1
        BY <4>1, <4>2
      <4> QED
        BY <4>3 DEF Configured
    <3> QED
      BY <1>4, <3>1, <3>2, <3>3
  <2> QED
    BY <2>2, <2>3 DEF PublishedIsConfigured
<1>13. Typed'
  <2>1. /\ permit' \in BOOLEAN /\ initialized' \in BOOLEAN
        /\ executors' \in {0, 1} /\ uln' \in {0, 1} /\ last_version' = uln'
    BY <1>2, <1>4 DEF Typed
  <2> QED
    BY <1>1, <1>2, <1>9, <2>1 DEF Typed
<1> QED
  BY <1>9, <1>11, <1>12, <1>13 DEF DeployInv

\* Nobody's configuration fails that is alone and starts from where the last one
\* that was not cut off left the chain.
LEMMA ExecutableAlone ==
  ASSUME DeployInv, NEW o \in Operators, AtStep(o, "configure"), run[o].initial, run[o].alone,
         ~Executable(Head(run[o].steps).call)
  PROVE  halfway # {}
<1> DEFINE k == Taken(run[o]) + 1
           call == Head(run[o].steps).call
<1>1. /\ Running(o) /\ run[o].state = "running" /\ Taken(run[o]) \in Nat
      /\ run[o].command = "layerzero"
  BY AtStepIs, ConfiguringAt
<1>2. \/ k = 8 /\ call = allowPayload
      \/ k = 20 /\ call = initialize
      \/ k = 21 /\ call = registerExecutor
      \/ k = 22 /\ call = initializeReceive
  BY ConfiguringAt
<1>3. Kept(run[o], Facts) /\ Unspoilt(run[o], Facts)
  BY <1>1, AtWork DEF RunInv
<1>4. /\ Taken(run[o]) = 7 => ~permit
      /\ Taken(run[o]) = 19 => ~initialized
      /\ Taken(run[o]) = 20 => initialized /\ executors = 0
      /\ Taken(run[o]) = 21 => initialized /\ uln = 0
  <2>1. /\ Taken(run[o]) \in {6, 7} => ~permit
        /\ Taken(run[o]) \in {18, 19} => ~initialized
        /\ Taken(run[o]) \in {18, 19, 20} => executors = 0
        /\ Taken(run[o]) \in {18, 19, 20, 21} => uln = 0
    BY <1>3, FactsAre DEF Unspoilt
  <2>2. Taken(run[o]) >= 20 => initialized
    BY <1>3, FactsAre DEF Kept
  <2> QED
    BY <1>1, <2>1, <2>2
<1>5. ~Executable(call)
  OBVIOUS
<1> HIDE DEF call
<1>6. Taken(run[o]) = 21 /\ ~permit /\ uln = 0
  <2>0. /\ k = 8 => Taken(run[o]) = 7
        /\ k = 20 => Taken(run[o]) = 19
        /\ k = 21 => Taken(run[o]) = 20
        /\ k = 22 => Taken(run[o]) = 21
    BY <1>1
  <2> HIDE DEF k
  <2>1. CASE k = 8 /\ call = allowPayload
    <3>1. ~permit
      BY <1>4, <2>0, <2>1
    <3>2. Executable(allowPayload)
      BY <3>1, ExecutedIs
    <3> QED
      BY <1>5, <2>1, <3>2
  <2>2. CASE k = 20 /\ call = initialize
    <3>1. ~initialized
      BY <1>4, <2>0, <2>2
    <3>2. Executable(initialize)
      BY <3>1, ExecutedIs
    <3> QED
      BY <1>5, <2>2, <3>2
  <2>3. CASE k = 21 /\ call = registerExecutor
    <3>1. initialized /\ executors = 0
      BY <1>4, <2>0, <2>3
    <3>2. Executable(registerExecutor)
      BY <3>1, ExecutedIs
    <3> QED
      BY <1>5, <2>3, <3>2
  <2>4. CASE k = 22 /\ call = initializeReceive
    <3>1. initialized /\ uln = 0 /\ Taken(run[o]) = 21
      BY <1>4, <2>0, <2>4
    <3>2. ~Executable(initializeReceive)
      BY <1>5, <2>4
    <3>3. ~permit
      BY <3>1, <3>2, ExecutedIs
    <3> QED
      BY <3>1, <3>3
  <2> QED
    BY <1>2, <2>1, <2>2, <2>3, <2>4
<1>7. ~Deploying(run, {7})
  <2> SUFFICES ASSUME NEW x \in Operators, At(run[x], {7}) PROVE FALSE
    BY DEF Deploying
  <2>1. x # o /\ Running(x)
    BY <1>6 DEF At, Running
  <2> QED
    BY <1>1, <2>1, AtWork
<1>8. version["msglib_auth"] # 0
  BY PublishedBefore
<1> QED
  BY <1>6, <1>7, <1>8 DEF DeployInv, PublishedIsConfigured

LEMMA ConfigureFailsStep ==
  ASSUME DeployInv, NEW o \in Operators, ConfigureFails(o)
  PROVE  DeployInv'
<1> DEFINE q == [run[o] EXCEPT !.state = "failed", !.steps = <<>>]
<1>1. /\ AtStep(o, "configure") /\ run[o].initial /\ run' = [run EXCEPT ![o] = q]
      /\ ~Executable(Head(run[o].steps).call)
      /\ halfway' = IF run[o].alone THEN halfway ELSE halfway \union {Package(o)}
      /\ UNCHANGED <<sources, build, chain, reported, bounds>>
  BY DEF ConfigureFails, Fail
<1>2. Typed /\ Running(o)
  BY <1>1, AtStepIs DEF DeployInv
<1>3. "failed" \in States /\ Ended(run[o], "failed", q)
  BY DEF States, Ended
<1> HIDE DEF q
<1>4. /\ q \in Runs /\ q.state = "failed" /\ q.alone = run[o].alone
      /\ q.command = run[o].command
  BY <1>2, <1>3, EndedIs
<1>5. /\ misbuilds' = misbuilds /\ faults' = faults /\ halfway \subseteq halfway'
      /\ misbuilds' \in Nat /\ faults' \in Nat /\ misbuilds' >= misbuilds
      /\ UNCHANGED <<sources, build, chain, reported>>
  BY <1>1, <1>2 DEF Typed, bounds
<1>6. halfway' # {}
  <2>1. CASE run[o].alone
    BY <1>1, <1>5, <2>1, ExecutableAlone
  <2>2. CASE ~run[o].alone
    BY <1>1, <2>2
  <2> QED
    BY <2>1, <2>2
<1> QED
  BY <1>1, <1>2, <1>4, <1>5, <1>6, EndStep

LEMMA SkipStep ==
  ASSUME DeployInv, NEW o \in Operators, SkipConfigure(o)
  PROVE  DeployInv'
<1> DEFINE q == [run[o] EXCEPT !.steps = Tail(@)]
           k == Taken(run[o]) + 1
<1>1. /\ AtStep(o, "configure") /\ run' = [run EXCEPT ![o] = q] /\ ~run[o].initial
      /\ UNCHANGED <<sources, build, chain, reported, halfway, bounds>>
  BY DEF SkipConfigure, GoOn
<1>2. Typed /\ Running(o) /\ ~At(run[o], {7}) /\ ~At(run[o], {19, 20, 21})
  BY <1>1, AtStepIs DEF DeployInv, At
<1>3. Went(run[o], q) /\ q.initial = run[o].initial
  BY <1>1, <1>2, GoOnIs DEF Typed, Runs
<1> HIDE DEF q
<1>4. /\ version' = version /\ permit' = permit /\ initialized' = initialized
      /\ executors' = executors /\ uln' = uln /\ last_version' = last_version
      /\ sources' = sources /\ build' = build /\ reported' = reported /\ halfway' = halfway
      /\ misbuilds' = misbuilds /\ faults' = faults
      /\ UNCHANGED chain /\ UNCHANGED reported
  BY <1>1 DEF chain, bounds
<1>5. Grows(Facts, Facts')
  BY <1>4, FactsGrow
<1>6. RunInv(q, build'[o], Facts')
  <2>1. \A x \in Packages :
          build[o][x] # 0 => build'[o][x] # 0 \/ Head(run[o].steps) = Publish(x)
    BY <1>4
  <2>2. "configure" = "publish" => Facts'.version[Package(o)] # 0
    OBVIOUS
  <2>3. "configure" = "compile" => build'[o][Package(o)] # 0 \/ Facts'.misbuilds > 0
    OBVIOUS
  <2>4. Taken(q) = k /\ OnPlan(q) /\ Made(q, build'[o], Facts')
    BY <1>1, <1>3, <1>5, <2>1, <2>2, <2>3, WentOn, Zenon
  <2>5. k \in {8, 20, 21, 22}
    BY <1>1, ConfiguringAt
  <2>6. Decided(q, Facts')
    BY <2>4, <2>5 DEF Decided
  <2> QED
    BY <1>1, <1>3, <2>4, <2>6 DEF RunInv
<1>7. /\ run' \in [Operators -> Runs] /\ run'[o] = q
      /\ \A x \in Operators : RunInv(run'[x], build'[x], Facts')
      /\ Alone' /\ NoFailureUnprovoked'
  BY <1>1, <1>2, <1>3, <1>4, <1>5, <1>6, StepKeeps DEF Went
<1>8. Unpublished' /\ PublishedIsConfigured'
  BY <1>1, <1>2, <1>4, StillConfigured
<1>9. Typed'
  BY <1>2, <1>4, <1>7 DEF Typed
<1> QED
  BY <1>7, <1>8, <1>9 DEF DeployInv

LEMMA InterruptStep ==
  ASSUME DeployInv, NEW o \in Operators, Interrupt(o)
  PROVE  DeployInv'
<1> DEFINE q == [run[o] EXCEPT !.state = "interrupted", !.steps = <<>>]
<1>1. /\ Running(o) /\ run[o].steps # <<>> /\ run' = [run EXCEPT ![o] = q]
      /\ faults' = faults + 1 /\ misbuilds' = misbuilds
      /\ halfway' = IF Head(run[o].steps).op = "configure" /\ run[o].initial
                    THEN halfway \union {Package(o)} ELSE halfway
      /\ UNCHANGED <<sources, build, chain, reported>>
  BY DEF Interrupt
<1>2. Typed
  BY DEF DeployInv
<1>3. "interrupted" \in States /\ Ended(run[o], "interrupted", q)
  BY DEF States, Ended
<1> HIDE DEF q
<1>4. q \in Runs /\ q.state = "interrupted" /\ q.alone = run[o].alone
  BY <1>1, <1>3, EndedIs
<1>5. /\ misbuilds' \in Nat /\ faults' \in Nat /\ misbuilds' >= misbuilds
      /\ halfway \subseteq halfway'
  BY <1>1, <1>2 DEF Typed
<1>6. At(run[o], {7}) \/ At(run[o], {19, 20, 21}) => halfway' # {}
  <2> SUFFICES ASSUME At(run[o], {7}) \/ At(run[o], {19, 20, 21}) PROVE halfway' # {}
    OBVIOUS
  <2>1. run[o].initial
    BY DEF At
  <2>2. AtStep(o, Head(run[o].steps).op)
    BY <1>1 DEF AtStep
  <2>3. Head(run[o].steps).op = "configure"
    BY <2>2, NotConfiguring
  <2> QED
    BY <1>1, <2>1, <2>3
<1> QED
  BY <1>1, <1>4, <1>5, <1>6, EndStep

\* A command that has ended well has published everything.
LEMMA AllPublished ==
  ASSUME DeployInv, NEW o \in Operators, Running(o), run[o].steps = <<>>
  PROVE  /\ Taken(run[o]) = Len(StepsOf(run[o].command))
         /\ run[o].command = "layerzero" =>
              Taken(run[o]) = 22 /\ \A p \in Packages \ Apps : version[p] # 0
<1>1. Len(run[o].steps) = 0
  OBVIOUS
<1>2. OnPlan(run[o]) /\ Made(run[o], build[o], Facts) /\ run[o].command \in AllCommands
  BY AtWork
<1>3. Len(StepsOf(run[o].command)) \in Nat
  BY <1>2, PlanIs
<1>4. Taken(run[o]) = Len(StepsOf(run[o].command))
  BY <1>1, <1>3 DEF Taken
<1>5. ASSUME run[o].command = "layerzero"
      PROVE  Taken(run[o]) = 22 /\ \A p \in Packages \ Apps : version[p] # 0
  <2> DEFINE s == StepsOf("layerzero")
  <2>1. Taken(run[o]) = 22
    BY <1>4, <1>5, LayerzeroIs
  <2>2. \A i \in 1 .. 22 : s[i].op = "publish" => version[s[i].package] # 0
    BY <1>2, <1>5, <2>1, FactsAre DEF Made
  <2>3. /\ s[2].op = "publish" /\ s[2].package = "zro"
        /\ s[4].op = "publish" /\ s[4].package = "layerzero_common"
        /\ s[7].op = "publish" /\ s[7].package = "msglib_auth"
        /\ s[10].op = "publish" /\ s[10].package = "executor_auth"
    BY LayerzeroAt, StepFields
  <2>4. /\ s[12].op = "publish" /\ s[12].package = "msglib_v1_1"
        /\ s[14].op = "publish" /\ s[14].package = "msglib_v2"
    BY LayerzeroAt, StepFields
  <2>8. /\ s[16].op = "publish" /\ s[16].package = "executor_v2"
        /\ s[19].op = "publish" /\ s[19].package = "layerzero"
    BY LayerzeroAt, StepFields
  <2> HIDE DEF s
  <2>5. /\ version["zro"] # 0 /\ version["layerzero_common"] # 0
        /\ version["msglib_auth"] # 0 /\ version["executor_auth"] # 0
    BY <2>2, <2>3
  <2>6. /\ version["msglib_v1_1"] # 0 /\ version["msglib_v2"] # 0
        /\ version["executor_v2"] # 0 /\ version["layerzero"] # 0
    BY <2>2, <2>4, <2>8
  <2>7. ASSUME NEW p \in Packages \ Apps PROVE version[p] # 0
    <3>1. \/ p = "zro" \/ p = "layerzero_common" \/ p = "msglib_auth"
          \/ p = "executor_auth" \/ p = "msglib_v1_1" \/ p = "msglib_v2"
          \/ p = "executor_v2" \/ p = "layerzero"
      BY DEF Packages
    <3> QED
      BY <2>5, <2>6, <3>1
  <2> QED
    BY <2>1, <2>7
<1> QED
  BY <1>4, <1>5

LEMMA ReportStep ==
  ASSUME DeployInv, NEW o \in Operators, Report(o)
  PROVE  DeployInv'
<1> DEFINE q == [run[o] EXCEPT !.state = "reported"]
           c == run[o].command
           latest == IF reported[c] < run[o].started THEN run[o].started ELSE reported[c]
<1>1. /\ Running(o) /\ run[o].steps = <<>> /\ run' = [run EXCEPT ![o] = q]
      /\ reported' = [reported EXCEPT ![c] = latest]
      /\ UNCHANGED <<sources, build, chain, halfway, bounds>>
  BY DEF Report
<1>2. Typed /\ run[o] \in Runs /\ c \in AllCommands
  BY <1>1, AtWork DEF DeployInv
<1>3. /\ q \in Runs /\ q.state = "reported" /\ q.alone = run[o].alone
  <2>1. "reported" \in States
    BY DEF States
  <2> QED
    BY <1>2, <2>1 DEF Runs
<1>4. reported' \in [AllCommands -> Nat] /\ (c # "layerzero" => reported'["layerzero"] = reported["layerzero"])
  <2>1. reported \in [AllCommands -> Nat] /\ latest \in Nat
    BY <1>2 DEF Typed, Runs
  <2>2. "layerzero" \in AllCommands
    BY CommandsAre
  <2> HIDE DEF latest, c
  <2> QED
    BY <1>1, <1>2, <2>1, <2>2
<1> HIDE DEF q, latest
<1>5. /\ version' = version /\ permit' = permit /\ initialized' = initialized
      /\ executors' = executors /\ uln' = uln /\ last_version' = last_version
      /\ sources' = sources /\ build' = build /\ halfway' = halfway
      /\ misbuilds' = misbuilds /\ faults' = faults
  BY <1>1 DEF chain, bounds
<1>6. Grows(Facts, Facts')
  BY <1>5, FactsGrow
<1>7. /\ run' \in [Operators -> Runs] /\ run'[o] = q
      /\ \A x \in Operators : RunInv(run'[x], build'[x], Facts')
      /\ Alone' /\ NoFailureUnprovoked'
  <2>1. RunInv(q, build'[o], Facts')
    BY <1>3 DEF RunInv
  <2>2. \A x \in Operators : x # o => build'[x] = build[x]
    BY <1>5
  <2>3. q.state = "failed" => FALSE
    BY <1>3
  <2> QED
    BY <1>1, <1>3, <1>6, <2>1, <2>2, <2>3, StepKeeps
<1>8. Unpublished'
  <2>1. Unpublished
    BY DEF DeployInv
  <2>2. reported'["layerzero"] # 0 => \A p \in Packages \ Apps : version[p] # 0
    <3>1. CASE c = "layerzero"
      BY <1>1, <3>1, AllPublished
    <3>2. CASE c # "layerzero"
      BY <1>4, <2>1, <3>2 DEF Unpublished
    <3> QED
      BY <3>1, <3>2
  <2> QED
    BY <1>5, <2>1, <2>2 DEF Unpublished
<1>9. PublishedIsConfigured'
  <2>1. ~At(run[o], {7}) /\ ~At(run[o], {19, 20, 21})
    BY <1>1, AllPublished DEF At
  <2>2. /\ Deploying(run, {7}) => Deploying(run', {7}) \/ halfway' # {}
    BY <1>1, <2>1, OthersDeploy
  <2>3. /\ Deploying(run, {19, 20, 21}) => Deploying(run', {19, 20, 21}) \/ halfway' # {}
    BY <1>1, <2>1, OthersDeploy
  <2>4. Configured' <=> Configured
    BY <1>5 DEF Configured
  <2>5. PublishedIsConfigured
    BY DEF DeployInv
  <2> QED
    BY <1>5, <2>2, <2>3, <2>4, <2>5 DEF PublishedIsConfigured
<1>10. Typed'
  BY <1>2, <1>4, <1>5, <1>7 DEF Typed
<1> QED
  BY <1>7, <1>8, <1>9, <1>10 DEF DeployInv

LEMMA EditSourcesStep ==
  ASSUME DeployInv, EditSources
  PROVE  DeployInv'
<1>1. /\ version' = version /\ permit' = permit /\ initialized' = initialized
      /\ executors' = executors /\ uln' = uln /\ last_version' = last_version
      /\ build' = build /\ halfway' = halfway /\ run' = run /\ reported' = reported
      /\ misbuilds' = misbuilds /\ faults' = faults /\ sources' = sources + 1
  BY DEF EditSources, chain, bounds
<1>2. Facts' = Facts
  BY <1>1 DEF Facts
<1>3. Typed'
  BY <1>1 DEF DeployInv, Typed
<1>4. \A o \in Operators : RunInv(run'[o], build'[o], Facts')
  BY <1>1, <1>2 DEF DeployInv
<1>5. Alone' /\ Unpublished' /\ NoFailureUnprovoked'
  BY <1>1 DEF DeployInv, Alone, Unpublished, NoFailureUnprovoked
<1>6. PublishedIsConfigured'
  BY <1>1 DEF DeployInv, PublishedIsConfigured, Configured
<1> QED
  BY <1>3, <1>4, <1>5, <1>6 DEF DeployInv

LEMMA InitDeployInv == DeployInit => DeployInv
<1> SUFFICES ASSUME DeployInit PROVE DeployInv
  OBVIOUS
<1>1. /\ sources = 1 /\ build = [o \in Operators |-> [p \in Packages |-> 0]]
      /\ version = [p \in Packages |-> 0] /\ permit = FALSE /\ last_version = 0 /\ uln = 0
      /\ initialized = FALSE /\ executors = 0
      /\ reported = [c \in AllCommands |-> 0] /\ faults = 0 /\ misbuilds = 0
  BY DEF DeployInit
<1>2. run = [o \in Operators |->
               [state |-> "idle", command |-> "", steps |-> <<>>,
                initial |-> FALSE, started |-> 0, alone |-> FALSE]]
  BY DEF DeployInit
<1>3. run \in [Operators -> Runs] /\ \A o \in Operators : run[o].state = "idle" /\ ~run[o].alone
  <2>1. <<>> \in Seq(Steps) /\ "idle" \in States
    BY DEF States
  <2> QED
    BY <1>2, <2>1 DEF Runs
<1>4. Typed
  <2>1. permit \in BOOLEAN /\ initialized \in BOOLEAN
    BY <1>1
  <2>2. /\ build \in [Operators -> [Packages -> Nat]] /\ version \in [Packages -> Nat]
        /\ reported \in [AllCommands -> Nat] /\ sources \in Nat \ {0}
    BY <1>1
  <2>3. /\ executors \in {0, 1} /\ uln \in {0, 1} /\ last_version = uln
        /\ faults \in Nat /\ misbuilds \in Nat
    BY <1>1
  <2> QED
    BY <1>3, <2>1, <2>2, <2>3 DEF Typed
<1>5. \A o \in Operators : RunInv(run[o], build[o], Facts)
  BY <1>3 DEF RunInv
<1>6. Alone /\ NoFailureUnprovoked
  BY <1>3 DEF Alone, NoFailureUnprovoked
<1>7. "msglib_auth" \in Packages /\ "layerzero" \in Packages /\ "layerzero" \in AllCommands
  BY PackagesAre, CommandsAre
<1>8. Unpublished /\ PublishedIsConfigured
  BY <1>1, <1>7 DEF Unpublished, PublishedIsConfigured
<1> QED
  BY <1>4, <1>5, <1>6, <1>8 DEF DeployInv

LEMMA StartStep ==
  ASSUME DeployInv, NEW o \in Operators, NEW c \in AllCommands, Start(o, c)
  PROVE  DeployInv'
<1> DEFINE others == {x \in Operators \ {o} : Running(x)}
           q == [state |-> "running", command |-> c, steps |-> StepsOf(c),
                 initial |-> FALSE, started |-> sources, alone |-> others = {}]
           other(x) == [run[x] EXCEPT !.alone = FALSE]
<1>1. /\ ~Running(o)
      /\ run' = [x \in Operators |-> IF x = o THEN q ELSE other(x)]
      /\ UNCHANGED <<sources, build, chain, reported, halfway, bounds>>
  BY DEF Start
<1>2. Typed
  BY DEF DeployInv
<1>3. /\ version' = version /\ permit' = permit /\ initialized' = initialized
      /\ executors' = executors /\ uln' = uln /\ last_version' = last_version
      /\ sources' = sources /\ build' = build /\ halfway' = halfway
      /\ misbuilds' = misbuilds /\ faults' = faults /\ reported' = reported
  BY <1>1 DEF chain, bounds
<1>4. Facts' = Facts /\ Grows(Facts, Facts')
  BY <1>3, FactsGrow DEF Facts
<1>5. /\ q \in Runs /\ q.state = "running" /\ q.command = c /\ q.steps = StepsOf(c)
      /\ q.initial = FALSE /\ (q.alone <=> others = {})
  <2>1. StepsOf(c) \in Seq(Steps) /\ "running" \in States /\ sources \in Nat
    BY <1>2, PlanIs DEF States, Typed
  <2> HIDE DEF others
  <2> QED
    BY <2>1 DEF Runs
<1>6. \A x \in Operators :
        /\ run[x] \in Runs /\ other(x) \in Runs
        /\ other(x).state = run[x].state /\ other(x).command = run[x].command
        /\ other(x).steps = run[x].steps /\ other(x).initial = run[x].initial
        /\ ~other(x).alone
  BY <1>2 DEF Typed, Runs
<1>7. /\ run'[o] = q /\ \A x \in Operators : x # o => run'[x] = other(x)
      /\ run' \in [Operators -> Runs]
  BY <1>1, <1>5, <1>6
<1> HIDE DEF q, other
<1>8. RunInv(q, build'[o], Facts')
  <2>1. Taken(q) = 0
    BY <1>5, PlanIs DEF Taken
  <2>2. OnPlan(q)
    <3>1. StepsOf(c) \in Seq(Steps) /\ Len(StepsOf(c)) \in Nat
      BY PlanIs
    <3> QED
      BY <1>5, <2>1, <3>1 DEF OnPlan
  <2>3. Made(q, build'[o], Facts')
    BY <2>1 DEF Made
  <2>4. Decided(q, Facts')
    BY <2>1 DEF Decided
  <2> QED
    BY <1>5, <2>2, <2>3, <2>4 DEF RunInv
<1>9. \A x \in Operators : RunInv(run'[x], build'[x], Facts')
  <2> SUFFICES ASSUME NEW x \in Operators, x # o PROVE RunInv(run'[x], build'[x], Facts')
    BY <1>7, <1>8
  <2>1. RunInv(run[x], build[x], Facts)
    BY DEF DeployInv
  <2>2. RunInv(other(x), build[x], Facts')
    BY <1>4, <1>6, <2>1, RunInvKept
  <2> QED
    BY <1>3, <1>7, <2>2
<1>10. Alone'
  <2> SUFFICES ASSUME NEW x \in Operators, NEW y \in Operators, run'[x].alone, y # x
               PROVE  run'[y].state # "running"
    BY DEF Alone
  <2>1. x = o
    BY <1>6, <1>7
  <2>2. others = {}
    BY <1>5, <1>7, <2>1
  <2>3. ~Running(y)
    BY <2>1, <2>2
  <2> HIDE DEF others
  <2> QED
    BY <1>6, <1>7, <2>1, <2>3 DEF Running
<1>11. NoFailureUnprovoked'
  BY <1>5, <1>6, <1>7 DEF NoFailureUnprovoked
<1>12. Unpublished'
  BY <1>3 DEF DeployInv, Unpublished
<1>13. \A ks : Deploying(run, ks) => Deploying(run', ks)
  <2> SUFFICES ASSUME NEW ks, NEW x \in Operators, At(run[x], ks)
               PROVE  Deploying(run', ks)
    BY DEF Deploying
  <2>1. x # o
    BY <1>1 DEF At, Running
  <2>2. run'[x] = other(x) /\ Taken(other(x)) = Taken(run[x])
    BY <1>6, <1>7, <2>1 DEF Taken
  <2>3. At(run'[x], ks)
    BY <1>6, <2>2 DEF At
  <2> QED
    BY <2>3 DEF Deploying
<1>14. PublishedIsConfigured'
  <2>1. PublishedIsConfigured /\ (Configured' <=> Configured)
    BY <1>3 DEF DeployInv, Configured
  <2> QED
    BY <1>3, <1>13, <2>1 DEF PublishedIsConfigured
<1>15. Typed'
  BY <1>2, <1>3, <1>7 DEF Typed
<1> QED
  BY <1>9, <1>10, <1>11, <1>12, <1>14, <1>15 DEF DeployInv

LEMMA StepDeployInv == DeployInv /\ [DeployNext]_deployVars => DeployInv'
<1> SUFFICES ASSUME DeployInv, [DeployNext]_deployVars PROVE DeployInv'
  OBVIOUS
<1>1. CASE UNCHANGED deployVars
  <2>1. /\ version' = version /\ permit' = permit /\ initialized' = initialized
        /\ executors' = executors /\ uln' = uln /\ last_version' = last_version
        /\ build' = build /\ halfway' = halfway /\ run' = run /\ reported' = reported
        /\ misbuilds' = misbuilds /\ faults' = faults /\ sources' = sources
    BY <1>1 DEF deployVars, chain, bounds
  <2>2. Facts' = Facts
    BY <2>1 DEF Facts
  <2>3. Typed'
    BY <2>1 DEF DeployInv, Typed
  <2>4. \A o \in Operators : RunInv(run'[o], build'[o], Facts')
    BY <2>1, <2>2 DEF DeployInv
  <2>5. Alone' /\ Unpublished' /\ NoFailureUnprovoked'
    BY <2>1 DEF DeployInv, Alone, Unpublished, NoFailureUnprovoked
  <2>6. PublishedIsConfigured'
    BY <2>1 DEF DeployInv, PublishedIsConfigured, Configured
  <2> QED
    BY <2>3, <2>4, <2>5, <2>6 DEF DeployInv
<1>2. CASE EditSources
  BY <1>2, EditSourcesStep
<1>3. ASSUME NEW o \in Operators, Step(o) PROVE DeployInv'
  BY <1>3, CompileStep, MiscompileStep, CheckStep, PublishStep, PublishFailsStep,
     ConfigureStep, ConfigureFailsStep, SkipStep, ReportStep DEF Step
<1>4. ASSUME NEW o \in Operators, Interrupt(o) PROVE DeployInv'
  BY <1>4, InterruptStep
<1>5. ASSUME NEW o \in Operators, NEW c \in AllCommands, Start(o, c) PROVE DeployInv'
  BY <1>5, StartStep
<1> QED
  BY <1>1, <1>2, <1>3, <1>4, <1>5 DEF DeployNext

-----------------------------------------------------------------------------
\* The theorems.

\* What has been reported is published, and so configured or being configured.
LEMMA ReportedFollows == DeployInv => ReportedIsConfigured
<1> SUFFICES ASSUME DeployInv, reported["layerzero"] # 0, ~Configured, halfway = {}
             PROVE  Configuring("layerzero")
  BY DEF ReportedIsConfigured
<1>1. version["layerzero"] # 0
  <2>1. "layerzero" \in Packages \ Apps
    BY PackagesAre, CommandsAre
  <2> QED
    BY <2>1 DEF DeployInv, Unpublished
<1>2. PICK o \in Operators : At(run[o], {19, 20, 21})
  BY <1>1 DEF DeployInv, PublishedIsConfigured, Deploying
<1>3. /\ Running(o) /\ run[o].initial /\ run[o].command = "layerzero"
      /\ Taken(run[o]) \in {19, 20, 21}
  BY <1>2 DEF At, Running
<1>4. run[o] \in Runs /\ OnPlan(run[o])
  BY <1>3, AtWork
<1> DEFINE s == StepsOf("layerzero")
           m == Len(run[o].steps)
           k == Taken(run[o])
<1>5. m \in Nat /\ m # 0
  <2>1. m \in Nat
    <3>1. run[o].steps \in Seq(Steps)
      BY <1>4 DEF Runs
    <3> QED
      BY <3>1
  <2>2. k = 22 - m
    BY <1>3, LayerzeroIs DEF Taken
  <2> HIDE DEF m, k
  <2>3. k \in {19, 20, 21}
    BY <1>3 DEF k
  <2> QED
    BY <2>1, <2>2, <2>3
<1>6. run[o].steps[1] = s[k + 1] /\ 1 \in 1 .. m
  BY <1>3, <1>4, <1>5 DEF OnPlan
<1>7. \/ s[k + 1] = IfInitial("layerzero", initialize)
      \/ s[k + 1] = IfInitial("layerzero", registerExecutor)
      \/ s[k + 1] = IfInitial("layerzero", initializeReceive)
  BY <1>3, LayerzeroAt
<1>8. run[o].steps[1] = IfInitial("layerzero", run[o].steps[1].call)
  <2>1. \A call : IfInitial("layerzero", IfInitial("layerzero", call).call)
                     = IfInitial("layerzero", call)
    BY DEF IfInitial
  <2> HIDE DEF s, k
  <2> QED
    BY <1>6, <1>7, <2>1
<1> QED
  BY <1>3, <1>6, <1>8 DEF Configuring

LEMMA Always == DeploySpec => []DeployInv
BY InitDeployInv, StepDeployInv, PTL DEF DeploySpec

\* ReportedIsConfigured, for all operators, staffs and troubles: once a command
\* has reported success, the endpoint of layerzero is initialized and has its
\* executor and its library, unless somebody is still at that or was cut off
\* between publishing and configuring.
THEOREM ReportedIsConfiguredHolds == DeploySpec => []ReportedIsConfigured
BY Always, ReportedFollows, PTL

\* NoFailureUnprovoked, likewise: a command that ran alone fails only after a
\* compilation that failed or a deployment that was cut off, or if it is an
\* application's and there is no endpoint; the order in which packages are
\* published and configured never fails of itself.
THEOREM NoFailureUnprovokedHolds == DeploySpec => []NoFailureUnprovoked
<1>1. DeployInv => NoFailureUnprovoked
  BY DEF DeployInv
<1> QED
  BY <1>1, Always, PTL

-----------------------------------------------------------------------------
\* Which builds get published.

\* A build of the package p, by the run r, is of the sources it started with or
\* of later ones, or it is the counter's after a compilation that failed.
Fresh(r, n, p, failures) == n >= r.started \/ (p = "counter" /\ failures > 0)

\* What the run has published is fresh; so is what it compiled for that.
UpToDate(r, bld, ver, failures) ==
  \A k \in 1 .. Taken(r) :
    LET step == StepsOf(r.command)[k]
        p    == step.package
    IN  /\ step.op = "publish" => Fresh(r, ver[p], p, failures)
        /\ step.op = "compile"
             /\ (\A j \in 1 .. Taken(r) : StepsOf(r.command)[j] # Publish(p)) =>
             Fresh(r, bld[p], p, failures)

\* Nobody else publishes while a run is alone.
Current ==
  \A o \in Operators :
    run[o].alone /\ run[o].state = "running" =>
      /\ run[o].started <= sources
      /\ UpToDate(run[o], build[o], version, misbuilds)

BuildsInv == DeployInv /\ Current /\ ReportedIsCurrent

\* One step more of a run, from the checkout b on the versions v to b2 and v2.
LEMMA UpToDateNext ==
  ASSUME NEW r \in Runs, OnPlan(r), r.steps # <<>>,
         NEW b, NEW v, NEW m, UpToDate(r, b, v, m),
         NEW q, q.command = r.command, q.steps = Tail(r.steps), q.started = r.started,
         NEW b2, NEW v2, NEW m2,
         \A p \in Packages : Fresh(r, v[p], p, m) => Fresh(r, v2[p], p, m2),
         \A p \in Packages : Fresh(r, b[p], p, m) =>
           Fresh(r, b2[p], p, m2) \/ Head(r.steps) = Publish(p),
         Head(r.steps).op = "publish" =>
           Fresh(r, v2[Head(r.steps).package], Head(r.steps).package, m2),
         Head(r.steps).op = "compile" =>
           Fresh(r, b2[Head(r.steps).package], Head(r.steps).package, m2)
  PROVE  UpToDate(q, b2, v2, m2)
<1> DEFINE s == StepsOf(r.command)
           n == Taken(r) + 1
<1>1. /\ Taken(r) \in Nat /\ n \in 1 .. Len(s) /\ Head(r.steps) = s[n]
      /\ Taken(q) = n
  BY Onward
<1>2. r.command \in AllCommands
  BY DEF OnPlan
<1>3. \A k \in 1 .. Len(s) : s[k].package \in Packages
  BY <1>2, StepIn
<1>4. \A p, x : Fresh(q, x, p, m2) <=> Fresh(r, x, p, m2)
  BY DEF Fresh
<1> HIDE DEF s, n
<1>5. n \in Nat /\ Len(s) \in Nat /\ n <= Len(s) /\ Taken(r) = n - 1
  <2>1. Len(s) \in Nat
    BY <1>2, PlanIs DEF s
  <2> QED
    BY <1>1, <2>1 DEF n
<1>6. SUFFICES ASSUME NEW k \in 1 .. n
               PROVE  /\ s[k].op = "publish" => Fresh(r, v2[s[k].package], s[k].package, m2)
                      /\ s[k].op = "compile"
                           /\ (\A j \in 1 .. n : s[j] # Publish(s[k].package)) =>
                           Fresh(r, b2[s[k].package], s[k].package, m2)
  BY <1>1, <1>4 DEF UpToDate, s
<1>7. s[k].package \in Packages
  BY <1>3, <1>5
<1>8. CASE k = n
  BY <1>1, <1>8
<1>9. CASE k \in 1 .. n - 1
  <2>1. /\ s[k].op = "publish" => Fresh(r, v[s[k].package], s[k].package, m)
        /\ s[k].op = "compile"
             /\ (\A j \in 1 .. n - 1 : s[j] # Publish(s[k].package)) =>
             Fresh(r, b[s[k].package], s[k].package, m)
    BY <1>5, <1>9 DEF UpToDate, s
  <2>2. (\A j \in 1 .. n : s[j] # Publish(s[k].package)) =>
          /\ \A j \in 1 .. n - 1 : s[j] # Publish(s[k].package)
          /\ Head(r.steps) # Publish(s[k].package)
    BY <1>1, <1>5
  <2> QED
    BY <1>7, <2>1, <2>2
<1> QED
  BY <1>5, <1>8, <1>9

\* The runs, after a step of one of them: the others are not alone.
LEMMA OneCurrent ==
  ASSUME DeployInv, NEW o \in Operators, Running(o), NEW q,
         run' = [run EXCEPT ![o] = q],
         q.alone => run[o].alone,
         q.alone /\ q.state = "running" =>
           q.started <= sources' /\ UpToDate(q, build'[o], version', misbuilds'),
         q.alone /\ q.state = "reported" =>
           \A i \in 1 .. Len(StepsOf(q.command)) :
             LET p == StepsOf(q.command)[i].package
             IN  Fresh(q, version'[p], p, misbuilds')
  PROVE  Current' /\ ReportedIsCurrent'
<1>1. run \in [Operators -> Runs]
  BY DEF DeployInv, Typed
<1>2. \A x \in Operators : run'[x].alone => x = o /\ run'[x] = q
  BY <1>1, AtWork
<1>3. Current'
  BY <1>2 DEF Current
<1>4. ReportedIsCurrent'
  BY <1>2 DEF ReportedIsCurrent, Fresh
<1> QED
  BY <1>3, <1>4

\* A step after which the run goes on.
LEMMA WentCurrent ==
  ASSUME DeployInv, Current, NEW o \in Operators, NEW op, AtStep(o, op),
         NEW q, Went(run[o], q), q.started = run[o].started,
         run' = [run EXCEPT ![o] = q], sources' = sources,
         \A p \in Packages : Fresh(run[o], version[p], p, misbuilds) =>
           Fresh(run[o], version'[p], p, misbuilds'),
         \A p \in Packages : Fresh(run[o], build[o][p], p, misbuilds) =>
           Fresh(run[o], build'[o][p], p, misbuilds') \/ Head(run[o].steps) = Publish(p),
         run[o].alone /\ op = "publish" =>
           Fresh(run[o], version'[Package(o)], Package(o), misbuilds'),
         run[o].alone /\ op = "compile" =>
           Fresh(run[o], build'[o][Package(o)], Package(o), misbuilds')
  PROVE  Current' /\ ReportedIsCurrent'
<1>1. /\ Running(o) /\ run[o].steps # <<>> /\ Head(run[o].steps).op = op
      /\ Package(o) = Head(run[o].steps).package /\ run[o].state = "running"
  BY AtStepIs
<1>2. run[o] \in Runs /\ OnPlan(run[o])
  BY <1>1, AtWork
<1>3. /\ q.command = run[o].command /\ q.steps = Tail(run[o].steps)
      /\ q.alone = run[o].alone /\ q.state = "running"
  BY DEF Went
<1>4. ASSUME run[o].alone
      PROVE  q.started <= sources' /\ UpToDate(q, build'[o], version', misbuilds')
  <2>1. run[o].started <= sources /\ UpToDate(run[o], build[o], version, misbuilds)
    BY <1>1, <1>4 DEF Current
  <2>2. UpToDate(q, build'[o], version', misbuilds')
    BY <1>1, <1>2, <1>3, <1>4, <2>1, UpToDateNext
  <2> QED
    BY <2>1, <2>2
<1> QED
  BY <1>1, <1>3, <1>4, OneCurrent

LEMMA StartedKept ==
  ASSUME DeployInv, NEW o \in Operators, NEW op, AtStep(o, op), NEW initial \in BOOLEAN
  PROVE  /\ [run[o] EXCEPT !.steps = Tail(@), !.initial = initial].started = run[o].started
         /\ [run[o] EXCEPT !.steps = Tail(@)].started = run[o].started
<1>1. run[o] \in Runs
  BY AtStepIs, AtWork
<1> QED
  BY <1>1 DEF Runs

\* A step of a run that neither compiles nor publishes.
LEMMA ElsewiseCurrent ==
  ASSUME DeployInv, Current, NEW o \in Operators, NEW op \in {"check", "configure"},
         AtStep(o, op), NEW q, Went(run[o], q), q.started = run[o].started,
         run' = [run EXCEPT ![o] = q],
         sources' = sources, version' = version, build' = build, misbuilds' = misbuilds
  PROVE  Current' /\ ReportedIsCurrent'
<1>1. op # "publish" /\ op # "compile"
  OBVIOUS
<1> QED
  BY <1>1, WentCurrent, Zenon

LEMMA CompileCurrent ==
  ASSUME DeployInv, Current, NEW o \in Operators, CompilePackage(o)
  PROVE  Current' /\ ReportedIsCurrent'
<1> DEFINE q == [run[o] EXCEPT !.steps = Tail(@)]
           p == Package(o)
<1>1. /\ AtStep(o, "compile") /\ run' = [run EXCEPT ![o] = q]
      /\ build' = [build EXCEPT ![o] = [build[o] EXCEPT ![p] = sources]]
      /\ sources' = sources /\ version' = version /\ misbuilds' = misbuilds
  BY DEF CompilePackage, GoOn, chain, bounds
<1>2. /\ Typed /\ p \in Packages /\ run[o] \in Runs /\ run[o].state = "running"
      /\ run[o].started \in Nat /\ run[o].initial \in BOOLEAN
  BY <1>1, AtStepIs, AtWork DEF DeployInv, Runs
<1>3. Went(run[o], q) /\ q.started = run[o].started
  BY <1>1, <1>2, GoOnIs, StartedKept
<1> HIDE DEF q
<1>4. build[o] \in [Packages -> Nat] /\ build'[o] = [build[o] EXCEPT ![p] = sources]
  BY <1>1, <1>2 DEF Typed
<1>5. \A x \in Packages : build'[o][x] = IF x = p THEN sources ELSE build[o][x]
  BY <1>4
<1>6. CASE run[o].alone
  <2>1. run[o].started <= sources /\ sources \in Nat
    BY <1>2, <1>6 DEF Current, Typed
  <2>2. Fresh(run[o], build'[o][Package(o)], Package(o), misbuilds')
    <3>1. build'[o][Package(o)] = sources
      BY <1>2, <1>5
    <3>2. sources >= run[o].started
      BY <1>2, <2>1
    <3> QED
      BY <3>1, <3>2, Zenon DEF Fresh
  <2>3. \A x \in Packages : Fresh(run[o], build[o][x], x, misbuilds) =>
          Fresh(run[o], build'[o][x], x, misbuilds') \/ Head(run[o].steps) = Publish(x)
    BY <1>1, <1>5, <2>2
  <2>4. \A x \in Packages : Fresh(run[o], version[x], x, misbuilds) =>
          Fresh(run[o], version'[x], x, misbuilds')
    BY <1>1
  <2> QED
    BY <1>1, <1>3, <2>2, <2>3, <2>4, "compile" # "publish", WentCurrent, Zenon
<1>7. CASE ~run[o].alone
  <2>1. ~q.alone
    BY <1>3, <1>7 DEF Went
  <2> QED
    BY <1>1, <1>7, <2>1, AtStepIs, OneCurrent
<1> QED
  BY <1>6, <1>7

LEMMA PublishCurrent ==
  ASSUME DeployInv, Current, NEW o \in Operators, PublishPackage(o)
  PROVE  Current' /\ ReportedIsCurrent'
<1> DEFINE q == [run[o] EXCEPT !.steps = Tail(@)]
           p == Package(o)
           r == run[o]
           s == StepsOf(run[o].command)
           k == Taken(run[o]) + 1
           left == IF compileFailureCaught(p) THEN build[o][p] ELSE 0
<1>1. /\ AtStep(o, "publish") /\ run' = [run EXCEPT ![o] = q]
      /\ version' = [version EXCEPT ![p] = build[o][p]]
      /\ build' = [build EXCEPT ![o] = [build[o] EXCEPT ![p] = left]]
      /\ sources' = sources /\ misbuilds' = misbuilds
  BY DEF PublishPackage, GoOn, bounds
<1>2. /\ Typed /\ p \in Packages /\ r \in Runs /\ r.state = "running"
      /\ r.initial \in BOOLEAN /\ r.command \in AllCommands
  BY <1>1, AtStepIs, AtWork DEF DeployInv, Runs
<1>3. Went(r, q) /\ q.started = r.started
  BY <1>1, <1>2, GoOnIs, StartedKept
<1>4. Head(r.steps) = Publish(p)
  BY <1>1, PublishingAt
<1>5. k \in 1 .. Len(s) /\ s[k].op = "publish" /\ s[k].package = p /\ Taken(r) \in Nat
  BY <1>1, AtStepIs
<1>6. PICK j \in 1 .. k - 1 :
        /\ s[j].op = "compile" /\ s[j].package = p
        /\ \A i \in 1 .. k - 1 : s[i] # Publish(p)
  BY <1>2, <1>5, CompiledBefore
<1>7. k - 1 = Taken(r)
  BY <1>5
<1> HIDE DEF q, left, s, k
<1>8. /\ build[o] \in [Packages -> Nat] /\ version \in [Packages -> Nat]
      /\ build'[o] = [build[o] EXCEPT ![p] = left]
  BY <1>1, <1>2 DEF Typed
<1>9. \A x \in Packages :
        /\ x # p => build'[o][x] = build[o][x] /\ version'[x] = version[x]
        /\ version'[p] = build[o][p]
  BY <1>1, <1>2, <1>8
<1>10. CASE r.alone
  <2>1. UpToDate(r, build[o], version, misbuilds)
    BY <1>2, <1>10 DEF Current
  <2>2. Fresh(r, build[o][p], p, misbuilds)
    BY <1>6, <1>7, <2>1 DEF UpToDate, s
  <2>3. Fresh(r, version'[p], p, misbuilds')
    BY <1>1, <1>2, <1>9, <2>2
  <2>4. \A x \in Packages : Fresh(r, version[x], x, misbuilds) =>
          Fresh(r, version'[x], x, misbuilds')
    BY <1>1, <1>9, <2>3
  <2>5. \A x \in Packages : Fresh(r, build[o][x], x, misbuilds) =>
          Fresh(r, build'[o][x], x, misbuilds') \/ Head(r.steps) = Publish(x)
    BY <1>1, <1>4, <1>9
  <2> QED
    BY <1>1, <1>3, <2>3, <2>4, <2>5, WentCurrent
<1>11. CASE ~r.alone
  <2>1. ~q.alone
    BY <1>3, <1>11 DEF Went
  <2> QED
    BY <1>1, <1>11, <2>1, AtStepIs, OneCurrent
<1> QED
  BY <1>10, <1>11

\* A step after which the run is over, but not well.
LEMMA EndedCurrent ==
  ASSUME DeployInv, Current, NEW o \in Operators, Running(o),
         NEW s \in {"failed", "interrupted"},
         run' = [run EXCEPT ![o] = [run[o] EXCEPT !.state = s, !.steps = <<>>]]
  PROVE  Current' /\ ReportedIsCurrent'
<1> DEFINE q == [run[o] EXCEPT !.state = s, !.steps = <<>>]
<1>1. s \in States /\ Ended(run[o], s, q)
  BY DEF States, Ended
<1> HIDE DEF q
<1>2. q.alone = run[o].alone /\ q.state # "running" /\ q.state # "reported"
  BY <1>1, EndedIs
<1> QED
  BY <1>2, OneCurrent DEF q

LEMMA MiscompileCurrent ==
  ASSUME DeployInv, Current, NEW o \in Operators, MiscompilePackage(o)
  PROVE  Current' /\ ReportedIsCurrent'
<1>1. /\ AtStep(o, "compile") /\ misbuilds' = misbuilds + 1 /\ misbuilds \in Nat
      /\ sources' = sources /\ build' = build /\ version' = version
  BY DEF MiscompilePackage, chain, DeployInv, Typed
<1>2. Running(o) /\ run[o] \in Runs /\ run[o].initial \in BOOLEAN
  BY <1>1, AtStepIs, AtWork DEF Runs
<1>3. CASE ~compileFailureCaught(Package(o))
  <2>1. run' = [run EXCEPT ![o] = [run[o] EXCEPT !.state = "failed", !.steps = <<>>]]
    BY <1>3 DEF MiscompilePackage, Fail
  <2> QED
    BY <1>2, <2>1, EndedCurrent
<1>4. CASE compileFailureCaught(Package(o))
  <2> DEFINE q == [run[o] EXCEPT !.steps = Tail(@)]
  <2>1. run' = [run EXCEPT ![o] = q]
    BY <1>4 DEF MiscompilePackage, GoOn
  <2>2. Went(run[o], q) /\ q.started = run[o].started
    BY <1>1, <1>2, GoOnIs, StartedKept
  <2> HIDE DEF q
  <2>3. \A x, n : Fresh(run[o], n, x, misbuilds) => Fresh(run[o], n, x, misbuilds')
    BY <1>1 DEF Fresh
  <2>4. Fresh(run[o], build'[o][Package(o)], Package(o), misbuilds')
    BY <1>1, <1>4 DEF Fresh, compileFailureCaught
  <2>5. \A x \in Packages : Fresh(run[o], build[o][x], x, misbuilds) =>
          Fresh(run[o], build'[o][x], x, misbuilds') \/ Head(run[o].steps) = Publish(x)
    BY <1>1, <2>3
  <2>6. \A x \in Packages : Fresh(run[o], version[x], x, misbuilds) =>
          Fresh(run[o], version'[x], x, misbuilds')
    BY <1>1, <2>3
  <2> QED
    BY <1>1, <2>1, <2>2, <2>4, <2>5, <2>6, "compile" # "publish", WentCurrent, Zenon
<1> QED
  BY <1>3, <1>4

\* What a command has a step for, it publishes.
LEMMA EachPublished ==
  ASSUME NEW c \in AllCommands, NEW i \in 1 .. Len(StepsOf(c))
  PROVE  \E k \in 1 .. Len(StepsOf(c)) :
           StepsOf(c)[k].op = "publish" /\ StepsOf(c)[k].package = StepsOf(c)[i].package
<1>1. CASE c \in Apps
  <2>1. i = 1 \/ i = 2
    BY <1>1, AppIs
  <2>2. /\ 2 \in 1 .. Len(StepsOf(c)) /\ StepsOf(c)[2].op = "publish"
        /\ StepsOf(c)[1].package = c /\ StepsOf(c)[2].package = c
    BY <1>1, AppIs, StepFields
  <2> QED
    BY <2>1, <2>2
<1>2. CASE c = "layerzero"
  <2> DEFINE s == StepsOf("layerzero")
             p == s[i].package
  <2>1. i \in 1 .. 22 /\ Len(s) = 22
    BY <1>2, LayerzeroIs
  <2>2. LayerzeroRow(i, s[i].op, p)
    BY <2>1, LayerzeroRows
  <2>3. /\ s[2] = Publish("zro") /\ s[4] = Publish("layerzero_common")
        /\ s[7] = Publish("msglib_auth") /\ s[10] = Publish("executor_auth")
        /\ s[12] = Publish("msglib_v1_1") /\ s[14] = Publish("msglib_v2")
        /\ s[16] = Publish("executor_v2") /\ s[19] = Publish("layerzero")
    BY LayerzeroAt
  <2> HIDE DEF s
  <2>4. /\ s[2].op = "publish" /\ s[2].package = "zro"
        /\ s[4].op = "publish" /\ s[4].package = "layerzero_common"
        /\ s[7].op = "publish" /\ s[7].package = "msglib_auth"
        /\ s[10].op = "publish" /\ s[10].package = "executor_auth"
    BY <2>3, StepFields
  <2>5. /\ s[12].op = "publish" /\ s[12].package = "msglib_v1_1"
        /\ s[14].op = "publish" /\ s[14].package = "msglib_v2"
        /\ s[16].op = "publish" /\ s[16].package = "executor_v2"
        /\ s[19].op = "publish" /\ s[19].package = "layerzero"
    BY <2>3, StepFields
  <2> HIDE DEF p
  <2>6. \/ p = "zro" \/ p = "layerzero_common" \/ p = "msglib_auth"
        \/ p = "executor_auth" \/ p = "msglib_v1_1" \/ p = "msglib_v2"
        \/ p = "executor_v2" \/ p = "layerzero"
    BY <2>2 DEF LayerzeroRow
  <2>7. \E n \in 1 .. 22 : s[n].op = "publish" /\ s[n].package = p
    BY <2>4, <2>5, <2>6
  <2> QED
    BY <1>2, <2>1, <2>7 DEF s, p
<1> QED
  BY <1>1, <1>2, CommandsAre

LEMMA ReportCurrent ==
  ASSUME DeployInv, Current, NEW o \in Operators, Report(o)
  PROVE  Current' /\ ReportedIsCurrent'
<1> DEFINE q == [run[o] EXCEPT !.state = "reported"]
           c == run[o].command
<1>1. /\ Running(o) /\ run[o].steps = <<>> /\ run' = [run EXCEPT ![o] = q]
      /\ sources' = sources /\ build' = build /\ version' = version
      /\ misbuilds' = misbuilds
  BY DEF Report, chain, bounds
<1>2. run[o] \in Runs /\ c \in AllCommands /\ run[o].state = "running"
  BY <1>1, AtWork DEF Running
<1>3. /\ q.state = "reported" /\ q.alone = run[o].alone /\ q.command = c
      /\ q.started = run[o].started
  BY <1>2 DEF Runs
<1> HIDE DEF q
<1>4. ASSUME run[o].alone, NEW i \in 1 .. Len(StepsOf(c))
      PROVE  Fresh(q, version'[StepsOf(c)[i].package], StepsOf(c)[i].package, misbuilds')
  <2>1. PICK k \in 1 .. Len(StepsOf(c)) :
          StepsOf(c)[k].op = "publish" /\ StepsOf(c)[k].package = StepsOf(c)[i].package
    BY <1>2, <1>4, EachPublished
  <2>2. Taken(run[o]) = Len(StepsOf(c))
    BY <1>1, AllPublished
  <2>3. Fresh(run[o], version[StepsOf(c)[i].package], StepsOf(c)[i].package, misbuilds)
    BY <1>2, <1>4, <2>1, <2>2 DEF Current, UpToDate
  <2> QED
    BY <1>1, <1>3, <2>3 DEF Fresh
<1> QED
  BY <1>1, <1>3, <1>4, OneCurrent

LEMMA StartCurrent ==
  ASSUME DeployInv, Current, NEW o \in Operators, NEW c \in AllCommands, Start(o, c)
  PROVE  Current' /\ ReportedIsCurrent'
<1> DEFINE q == [state |-> "running", command |-> c, steps |-> StepsOf(c),
                 initial |-> FALSE, started |-> sources,
                 alone |-> {x \in Operators \ {o} : Running(x)} = {}]
<1>1. /\ run' = [x \in Operators |-> IF x = o THEN q ELSE [run[x] EXCEPT !.alone = FALSE]]
      /\ sources' = sources /\ sources \in Nat
  BY DEF Start, DeployInv, Typed
<1>2. /\ q.state = "running" /\ q.command = c /\ q.steps = StepsOf(c)
      /\ q.started = sources
  OBVIOUS
<1> HIDE DEF q
<1>3. \A x \in Operators : x # o => ~run'[x].alone
  <2>1. \A x \in Operators : run[x] \in Runs
    BY DEF DeployInv, Typed
  <2> QED
    BY <1>1, <2>1 DEF Runs
<1>4. run'[o] = q
  BY <1>1
<1>5. UpToDate(q, build'[o], version', misbuilds')
  <2>1. Taken(q) = 0
    BY <1>2, PlanIs DEF Taken
  <2> QED
    BY <2>1 DEF UpToDate
<1>6. Current'
  BY <1>1, <1>2, <1>3, <1>4, <1>5 DEF Current
<1>7. ReportedIsCurrent'
  BY <1>2, <1>3, <1>4 DEF ReportedIsCurrent
<1> QED
  BY <1>6, <1>7

LEMMA BuildsNext == BuildsInv /\ [DeployNext]_deployVars => BuildsInv'
<1> SUFFICES ASSUME DeployInv, Current, ReportedIsCurrent, [DeployNext]_deployVars
             PROVE  Current' /\ ReportedIsCurrent'
  BY StepDeployInv DEF BuildsInv
<1>1. CASE UNCHANGED deployVars
  <2>1. /\ version' = version /\ build' = build /\ run' = run
        /\ misbuilds' = misbuilds /\ sources' = sources
    BY <1>1 DEF deployVars, chain, bounds
  <2> QED
    BY <2>1 DEF Current, ReportedIsCurrent
<1>2. CASE EditSources
  <2>1. /\ version' = version /\ build' = build /\ run' = run
        /\ misbuilds' = misbuilds /\ sources' = sources + 1 /\ sources \in Nat
        /\ \A o \in Operators : run[o].started \in Nat
    BY <1>2 DEF EditSources, chain, bounds, DeployInv, Typed, Runs
  <2>2. Current'
    BY <2>1 DEF Current
  <2> QED
    BY <2>1, <2>2 DEF ReportedIsCurrent
<1>3. ASSUME NEW o \in Operators, Step(o) PROVE Current' /\ ReportedIsCurrent'
  <2>1. CASE CompilePackage(o)
    BY <2>1, CompileCurrent
  <2>2. CASE MiscompilePackage(o)
    BY <2>2, MiscompileCurrent
  <2>3. CASE Check(o)
    <3> DEFINE first == initialDeploy(Package(o))
               q == [run[o] EXCEPT !.steps = Tail(@), !.initial = first]
    <3>1. /\ AtStep(o, "check") /\ run' = [run EXCEPT ![o] = q]
          /\ sources' = sources /\ build' = build /\ version' = version
          /\ misbuilds' = misbuilds
      BY <2>3 DEF Check, chain, bounds
    <3>2. first \in BOOLEAN
      BY DEF initialDeploy
    <3>3. Went(run[o], q) /\ q.started = run[o].started
      BY <3>1, <3>2, GoOnIs, StartedKept, Zenon
    <3> HIDE DEF q
    <3> QED
      BY <3>1, <3>3, ElsewiseCurrent
  <2>4. CASE PublishPackage(o)
    BY <2>4, PublishCurrent
  <2>5. CASE PublishFails(o) \/ ConfigureFails(o)
    <3>1. /\ Running(o)
          /\ run' = [run EXCEPT ![o] = [run[o] EXCEPT !.state = "failed", !.steps = <<>>]]
      BY <2>5 DEF PublishFails, ConfigureFails, AtStep, Fail
    <3> QED
      BY <3>1, EndedCurrent
  <2>6. CASE Configure(o) \/ SkipConfigure(o)
    <3> DEFINE q == [run[o] EXCEPT !.steps = Tail(@)]
    <3>1. /\ AtStep(o, "configure") /\ run' = [run EXCEPT ![o] = q]
          /\ sources' = sources /\ build' = build /\ version' = version
          /\ misbuilds' = misbuilds
      BY <2>6 DEF Configure, SkipConfigure, GoOn, chain, bounds
    <3>2. TRUE \in BOOLEAN
      OBVIOUS
    <3>3. Went(run[o], q) /\ q.started = run[o].started
      BY <3>1, <3>2, GoOnIs, StartedKept, Zenon
    <3> HIDE DEF q
    <3> QED
      BY <3>1, <3>3, ElsewiseCurrent
  <2>7. CASE Report(o)
    BY <2>7, ReportCurrent
  <2> QED
    BY <1>3, <2>1, <2>2, <2>3, <2>4, <2>5, <2>6, <2>7 DEF Step
<1>4. ASSUME NEW o \in Operators, Interrupt(o) PROVE Current' /\ ReportedIsCurrent'
  <2>1. /\ Running(o)
        /\ run' = [run EXCEPT ![o] = [run[o] EXCEPT !.state = "interrupted", !.steps = <<>>]]
    BY <1>4 DEF Interrupt
  <2> QED
    BY <2>1, EndedCurrent
<1>5. ASSUME NEW o \in Operators, NEW c \in AllCommands, Start(o, c)
      PROVE  Current' /\ ReportedIsCurrent'
  BY <1>5, StartCurrent
<1> QED
  BY <1>1, <1>2, <1>3, <1>4, <1>5 DEF DeployNext

LEMMA InitBuilds == DeployInit => BuildsInv
<1> SUFFICES ASSUME DeployInit PROVE Current /\ ReportedIsCurrent
  BY InitDeployInv DEF BuildsInv
<1>1. \A o \in Operators : run[o].state = "idle"
  BY DEF DeployInit
<1> QED
  BY <1>1 DEF Current, ReportedIsCurrent

\* ReportedIsCurrent, likewise: a command that ran alone has published nothing
\* compiled from sources older than those it started with, whatever its checkout
\* held before, but the counter, whose compilation may fail unnoticed.
THEOREM ReportedIsCurrentHolds == DeploySpec => []ReportedIsCurrent
<1>1. BuildsInv => ReportedIsCurrent
  BY DEF BuildsInv
<1> QED
  BY <1>1, InitBuilds, BuildsNext, PTL DEF DeploySpec

==============================================================================
