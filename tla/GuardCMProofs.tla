---------------------------- MODULE GuardCMProofs ----------------------------
(***************************************************************************)
(* For any timelocks, proposals, votes, delays and calls: what the voters  *)
(* approved is executed once at most, nothing else is, and the governor's  *)
(* state of a proposal is what happened to it.                             *)
(***************************************************************************)
EXTENDS GuardCM, TLAPS

(***************************************************************************)
(* Types                                                                   *)
(***************************************************************************)

\* The type invariant and that the calls are those of the instance.
Types == TypeOK /\ callOf \in CallMaps

Proposal == [snapshot : 0 .. MaxTime, proposer : Voters \cup {ZeroAddress},
             executed : BOOLEAN, canceled : BOOLEAN]

USE TimelockAssumption, GovernorAssumption, CallAssumption, GuardAssumption, GuardCallAssumption,
    AllowedAssumption

\* What a timelock's step leaves: numbers in range. The calls made by an operation
\* are added to it.
LEMMA AfterInRange ==
  ASSUME now \in StartTime .. MaxTime, NEW delay \in Nat
  PROVE  After(delay) \in StartTime .. MaxTime
BY DEF After

LEMMA GovernorCallTyped ==
  ASSUME Types, NEW t \in Timelocks, NEW op \in Operations, NEW via \in BOOLEAN,
         GovernorCall(t, op, via)
  PROVE  minDelay' \in [Timelocks -> Nat] /\ governorDelay' \in Nat /\ timelock' \in Timelocks
BY DEF Types, TypeOK, GovernorCall, MinDelayAfter, GovernorDelayAfter, TimelockAfter, Kind, Value

LEMMA GuardCallTyped ==
  ASSUME Types, NEW t \in Timelocks, NEW op \in Operations, GuardCall(t, op)
  PROVE  paused' \in {1, 2} /\ guardSet' \in BOOLEAN /\ governorCheckProposalId' \in Proposals
BY DEF Types, TypeOK, GuardCall, PausedAfter, CheckProposalAfter, Kind, Value

LEMMA ScheduleTyped ==
  ASSUME Types, NEW t \in Timelocks, NEW op \in Operations, NEW delay \in Nat, Schedule(t, op, delay)
  PROVE  timestamps' \in [Timelocks -> [Operations -> {0, DONE} \cup StartTime .. MaxTime]]
BY AfterInRange DEF Types, TypeOK, Schedule

LEMMA RunTyped ==
  ASSUME Types, NEW t \in Timelocks, NEW op \in Operations, Run(t, op)
  PROVE  /\ timestamps' \in [Timelocks -> [Operations -> {0, DONE} \cup StartTime .. MaxTime]]
         /\ runs' \in [Operations -> Nat]
         /\ now' = now
BY DEF Types, TypeOK, Run

LEMMA CancelOperationTyped ==
  ASSUME Types, NEW t \in Timelocks, NEW op \in Operations, CancelOperation(t, op)
  PROVE  timestamps' \in [Timelocks -> [Operations -> {0, DONE} \cup StartTime .. MaxTime]]
BY DEF Types, TypeOK, CancelOperation

LEMMA EndedTyped ==
  ASSUME Types, NEW p \in Proposals,
         \/ proposals' = [proposals EXCEPT ![p].executed = TRUE]
         \/ proposals' = [proposals EXCEPT ![p].canceled = TRUE]
  PROVE  proposals' \in [Proposals -> Proposal]
<1>1. proposals \in [Proposals -> Proposal]
  BY DEF Types, TypeOK, Proposal
<1>2. ASSUME NEW b \in BOOLEAN
      PROVE  /\ [proposals[p] EXCEPT !.executed = b] \in Proposal
             /\ [proposals[p] EXCEPT !.canceled = b] \in Proposal
  BY <1>1 DEF Proposal
<1>3. PICK b \in BOOLEAN : \/ proposals' = [proposals EXCEPT ![p] = [proposals[p] EXCEPT !.executed = b]]
                          \/ proposals' = [proposals EXCEPT ![p] = [proposals[p] EXCEPT !.canceled = b]]
  <2> WITNESS TRUE \in BOOLEAN
  <2> QED
    BY Zenon
<1> QED
  BY <1>1, <1>2, <1>3

LEMMA TypesInit == Init => Types
BY DEF Init, TimelockInit, GovernorInit, GuardInit, Types, TypeOK, NoProposal, DONE

LEMMA TypesStep == Types /\ [Next]_vars => Types'
<1> SUFFICES ASSUME Types, [Next]_vars PROVE Types'
  OBVIOUS
<1> USE DEF Types
<1>1. ASSUME NEW v \in Voters, NEW p \in Proposals, Propose(v, p), UNCHANGED guardVars PROVE Types'
  <2>1. now + votingDelay \in 0 .. MaxTime
    BY <1>1 DEF Propose, TypeOK
  <2>2. proposals' \in [Proposals -> Proposal]
    <3> DEFINE new == [proposals[p] EXCEPT !.snapshot = now + votingDelay, !.proposer = v]
    <3>1. proposals \in [Proposals -> Proposal] /\ proposals' = [proposals EXCEPT ![p] = new]
      BY <1>1 DEF Propose, TypeOK, Proposal
    <3>2. new \in Proposal
      <4>1. proposals[p] \in Proposal /\ v \in Voters
        BY <3>1
      <4>2. QED
        BY <4>1, <2>1 DEF Proposal
    <3> HIDE DEF new
    <3> QED
      BY <3>1, <3>2
  <2> QED
    BY <1>1, <2>2 DEF Propose, TypeOK, Proposal, guardVars, tlVars
<1>2. ASSUME NEW v \in Voters, NEW p \in Proposals, NEW support \in VoteTypes,
             CastVote(v, p, support), UNCHANGED guardVars
      PROVE  Types'
  BY <1>2 DEF CastVote, TypeOK, guardVars, tlVars
<1>3. ASSUME NEW v \in Voters, NEW p \in Proposals, Cancel(v, p), UNCHANGED guardVars PROVE Types'
  <2>1. proposals' \in [Proposals -> Proposal]
    BY <1>3, EndedTyped DEF Cancel
  <2>2. timestamps' \in [Timelocks -> [Operations -> {0, DONE} \cup StartTime .. MaxTime]]
    <3>1. CASE p \in timelockIds
      BY <1>3, <3>1, CancelOperationTyped DEF Cancel, TypeOK
    <3>2. CASE p \notin timelockIds
      BY <1>3, <3>2 DEF Cancel, TypeOK, tlVars
    <3> QED
      BY <3>1, <3>2
  <2> QED
    BY <1>3, <2>1, <2>2 DEF Cancel, CancelOperation, TypeOK, Proposal, guardVars, tlVars
<1>4. ASSUME NEW p \in Proposals, QueueStep(p) PROVE Types'
  <2>1. Schedule(timelock, p, governorDelay) /\ timelock \in Timelocks /\ governorDelay \in Nat /\ p \in Operations
    BY <1>4 DEF QueueStep, Queue, TypeOK
  <2>2. timestamps' \in [Timelocks -> [Operations -> {0, DONE} \cup StartTime .. MaxTime]]
    BY <2>1, ScheduleTyped
  <2> QED
    BY <1>4, <2>2 DEF QueueStep, Queue, Schedule, TypeOK, guardVars
<1>5. ASSUME NEW p \in Proposals, ExecuteStep(p) PROVE Types'
  <2>1. p \in Operations /\ timelock \in Timelocks /\ Run(timelock, p) /\ GovernorCall(timelock, p, TRUE)
        /\ GuardCall(timelock, p)
    BY <1>5 DEF ExecuteStep, Execute, TypeOK
  <2>2. proposals' \in [Proposals -> Proposal]
    BY <1>5, EndedTyped DEF ExecuteStep, Execute
  <2>3. /\ timestamps' \in [Timelocks -> [Operations -> {0, DONE} \cup StartTime .. MaxTime]]
        /\ runs' \in [Operations -> Nat] /\ now' = now
    BY <2>1, RunTyped
  <2>4. minDelay' \in [Timelocks -> Nat] /\ governorDelay' \in Nat /\ timelock' \in Timelocks
    BY <2>1, GovernorCallTyped
  <2>5. paused' \in {1, 2} /\ guardSet' \in BOOLEAN /\ governorCheckProposalId' \in Proposals
    BY <2>1, GuardCallTyped
  <2> QED
    BY <1>5, <2>2, <2>3, <2>4, <2>5 DEF ExecuteStep, Execute, TypeOK, Proposal
<1>6. ASSUME NEW t \in Timelocks, NEW op \in CmOperations[callOf], NEW delay \in Delays, CmSchedule(t, op, delay)
      PROVE  Types'
  BY <1>6, ScheduleTyped DEF CmSchedule, Schedule, TypeOK, governorVars, guardVars
<1>7. ASSUME NEW t \in Timelocks, NEW op \in Operations, CmCancel(t, op) PROVE Types'
  BY <1>7 DEF CmCancel, CancelOperation, TypeOK, governorVars, guardVars
<1>8. ASSUME NEW t \in Timelocks, NEW op \in Operations, CmExecute(t, op) PROVE Types'
  <2>1. /\ timestamps' \in [Timelocks -> [Operations -> {0, DONE} \cup StartTime .. MaxTime]]
        /\ runs' \in [Operations -> Nat] /\ now' = now
    BY <1>8, RunTyped DEF CmExecute
  <2>2. minDelay' \in [Timelocks -> Nat] /\ governorDelay' \in Nat /\ timelock' \in Timelocks
    BY <1>8, GovernorCallTyped DEF CmExecute
  <2>3. paused' \in {1, 2} /\ guardSet' \in BOOLEAN /\ governorCheckProposalId' \in Proposals
    BY <1>8, GuardCallTyped DEF CmExecute
  <2> QED
    BY <1>8, <2>1, <2>2, <2>3 DEF CmExecute, TypeOK, proposalVars
<1>9. ASSUME NEW on \in BOOLEAN, CmSetGuard(on) PROVE Types'
  BY <1>9 DEF CmSetGuard, TypeOK, tlVars, governorVars
<1>10. CASE CmPause
  BY <1>10 DEF CmPause, TypeOK, tlVars, governorVars
<1>11. CASE TickStep
  BY <1>11 DEF TickStep, Tick, TypeOK, governorVars, guardVars
<1>12. CASE UNCHANGED vars
  BY <1>12 DEF vars, tlVars, governorVars, guardVars, TypeOK
<1> QED
  BY <1>1, <1>2, <1>3, <1>4, <1>5, <1>6, <1>7, <1>8, <1>9, <1>10, <1>11, <1>12
     DEF Next, VoterStep, CmStep, TypeOK, owner

\* Every variable of the governor, the timelocks and the guard keeps its type,
\* whatever proposals and the CM call.
THEOREM GovernanceTypes == Spec => []TypeOK
<1>1. Types /\ [Next]_vars => Types'
  BY TypesStep
<1>2. Types => TypeOK
  BY DEF Types
<1> QED
  BY TypesInit, <1>1, <1>2, PTL DEF Spec

(***************************************************************************)
(* The outcome of a vote is final                                          *)
(***************************************************************************)

LEMMA VoteKept ==
  ASSUME Types, Types', NEW p \in Proposals, Voted(p),
         Snapshot(p)' = Snapshot(p), receipts'[p] = receipts[p], now' >= now
  PROVE  Voted(p)' /\ (VoteSucceeded(p)' <=> VoteSucceeded(p))
<1>1. Voted(p)'
  BY DEF Voted, Deadline, Types, TypeOK, Snapshot
<1>2. \A support : VotesFor(p, support)' = VotesFor(p, support)
  BY DEF VotesFor
<1>3. Quorum(Snapshot(p))' = Quorum(Snapshot(p))
  BY DEF Quorum, GetPastVotes
<1> QED
  BY <1>1, <1>2, <1>3 DEF VoteSucceeded

\* No vote is cast for, and no proposal made of, what has been voted on.
LEMMA VoteIsOver ==
  ASSUME Types, [Next]_vars, NEW p \in Proposals, Voted(p)
  PROVE  Snapshot(p)' = Snapshot(p) /\ receipts'[p] = receipts[p] /\ now' >= now
<1>0. Snapshot(p) > 0 /\ Snapshot(p) \in Nat /\ Deadline(p) < now /\ now \in Nat
  BY DEF Voted, Types, TypeOK, Snapshot
<1>1. ASSUME NEW v \in Voters, NEW q \in Proposals, Propose(v, q)
      PROVE  Snapshot(p)' = Snapshot(p) /\ receipts'[p] = receipts[p] /\ now' >= now
  BY <1>0, <1>1 DEF Propose, Snapshot, tlVars, Types, TypeOK
<1>2. ASSUME NEW v \in Voters, NEW q \in Proposals, NEW support \in VoteTypes, CastVote(v, q, support)
      PROVE  Snapshot(p)' = Snapshot(p) /\ receipts'[p] = receipts[p] /\ now' >= now
  <2>1. State(q) = "Active" => Deadline(q) >= now
    BY DEF State, CoreState
  <2>2. q # p
    BY <1>0, <1>2, <2>1 DEF CastVote, Deadline
  <2> QED
    BY <1>0, <1>2, <2>2 DEF CastVote, Snapshot, tlVars, Types, TypeOK
<1>3. ASSUME NEW q \in Proposals,
             \/ proposals' = [proposals EXCEPT ![q].executed = TRUE]
             \/ proposals' = [proposals EXCEPT ![q].canceled = TRUE]
      PROVE  Snapshot(p)' = Snapshot(p)
  <2>1. proposals \in [Proposals -> Proposal]
    BY DEF Types, TypeOK, Proposal
  <2>2. CASE proposals' = [proposals EXCEPT ![q].executed = TRUE]
    BY <2>1, <2>2 DEF Snapshot, Proposal
  <2>3. CASE proposals' = [proposals EXCEPT ![q].canceled = TRUE]
    BY <2>1, <2>3 DEF Snapshot, Proposal
  <2> QED
    BY <1>3, <2>2, <2>3
<1>4. ASSUME NEW v \in Voters, NEW q \in Proposals, Cancel(v, q)
      PROVE  Snapshot(p)' = Snapshot(p) /\ receipts'[p] = receipts[p] /\ now' >= now
  <2>1. Snapshot(p)' = Snapshot(p)
    BY <1>3, <1>4 DEF Cancel
  <2> QED
    BY <1>0, <1>4, <2>1 DEF Cancel, CancelOperation, tlVars
<1>5. ASSUME NEW q \in Proposals, QueueStep(q)
      PROVE  Snapshot(p)' = Snapshot(p) /\ receipts'[p] = receipts[p] /\ now' >= now
  BY <1>0, <1>5 DEF QueueStep, Queue, Schedule, Snapshot
<1>6. ASSUME NEW q \in Proposals, ExecuteStep(q)
      PROVE  Snapshot(p)' = Snapshot(p) /\ receipts'[p] = receipts[p] /\ now' >= now
  <2>1. Snapshot(p)' = Snapshot(p)
    BY <1>3, <1>6 DEF ExecuteStep, Execute
  <2> QED
    BY <1>0, <1>6, <2>1 DEF ExecuteStep, Execute, Run
<1>7. CASE CmStep
  <2>1. UNCHANGED <<proposals, receipts, now>>
    BY <1>7 DEF CmStep, CmSchedule, CmCancel, CmExecute, CmSetGuard, CmPause, Schedule, CancelOperation,
                Run, governorVars, proposalVars, tlVars
  <2> QED
    BY <1>0, <2>1 DEF Snapshot
<1>8. CASE TickStep
  BY <1>0, <1>8 DEF TickStep, Tick, governorVars, Snapshot
<1>9. CASE UNCHANGED vars
  BY <1>0, <1>9 DEF vars, tlVars, governorVars, Snapshot
<1> QED
  BY <1>1, <1>2, <1>4, <1>5, <1>6, <1>7, <1>8, <1>9 DEF Next, VoterStep

LEMMA VoteStep ==
  ASSUME Types, Types', [Next]_vars, NEW p \in Proposals, Voted(p)
  PROVE  Voted(p)' /\ (VoteSucceeded(p)' <=> VoteSucceeded(p))
BY VoteIsOver, VoteKept

(***************************************************************************)
(* One operation at most for a proposal, approved and with its id          *)
(***************************************************************************)

Scheduled(p) == {t \in Timelocks : IsOperation(t, p)}
Done(p) == \E t \in Timelocks : IsOperationDone(t, p)

\* Why a proposal cannot be executed twice: it has one operation at most, in whatever
\* timelock, as long as it has an id, which it keeps for good once that is done.
Sound(p) ==
  /\ \A t, u \in Scheduled(p) : t = u
  /\ runs[p] = IF Done(p) THEN 1 ELSE 0
  /\ p \in timelockIds => Approved(p)
  /\ p \notin timelockIds => Scheduled(p) = {}
  /\ proposals[p].executed => Done(p)
  /\ proposals[p].canceled => p \notin timelockIds

IInv == Types /\ \A p \in Governed : Sound(p)

\* What the governor's states say of a proposal.
LEMMA StateMeans ==
  ASSUME Types, NEW p \in Proposals
  PROVE  /\ State(p) \in {"Succeeded", "Queued"} =>
              Approved(p) /\ ~proposals[p].executed /\ ~proposals[p].canceled
         /\ State(p) = "Succeeded" => p \notin timelockIds
         /\ State(p) = "Queued" => p \in timelockIds /\ IsOperationPending(timelock, p)
         /\ State(p) = "Executed" =>
              proposals[p].executed \/ (p \in timelockIds /\ IsOperationDone(timelock, p))
<1>1. Snapshot(p) \in Nat /\ Deadline(p) \in Nat /\ now \in Nat
  BY DEF Types, TypeOK, Snapshot, Deadline
<1>2. CoreState(p) = "Succeeded" => Approved(p) /\ ~proposals[p].executed /\ ~proposals[p].canceled
  BY <1>1 DEF CoreState, Approved, Voted
<1>3. CoreState(p) = "Executed" => proposals[p].executed
  BY DEF CoreState
<1>4. CoreState(p) # "Queued"
  BY DEF CoreState
<1>5. CASE CoreState(p) # "Succeeded" \/ p \notin timelockIds
  <2>1. State(p) = CoreState(p)
    BY <1>5 DEF State
  <2> QED
    BY <1>2, <1>3, <1>4, <1>5, <2>1
<1>6. CASE CoreState(p) = "Succeeded" /\ p \in timelockIds
  <2>1. State(p) \in {"Executed", "Queued", "Canceled"}
    BY <1>6 DEF State
  <2>2. State(p) = "Queued" => IsOperationPending(timelock, p)
    BY <1>6 DEF State
  <2>3. State(p) = "Executed" => IsOperationDone(timelock, p)
    BY <1>6 DEF State
  <2> QED
    BY <1>2, <1>6, <2>1, <2>2, <2>3
<1> QED
  BY <1>5, <1>6

LEMMA SoundInit == Init => IInv
<1> SUFFICES ASSUME Init, NEW p \in Governed PROVE Sound(p)
  BY TypesInit DEF IInv
<1>0. p \in Proposals /\ p \in Operations
  BY DEF Governed
<1>1. \A t \in Timelocks : timestamps[t][p] = 0
  BY <1>0 DEF Init, TimelockInit
<1>2. Scheduled(p) = {} /\ ~Done(p)
  BY <1>1 DEF Scheduled, Done, IsOperation, IsOperationDone, DONE
<1>3. runs[p] = 0 /\ p \notin timelockIds
  BY <1>0 DEF Init, TimelockInit, GovernorInit
<1>4. ~proposals[p].executed /\ ~proposals[p].canceled
  BY <1>0 DEF Init, GovernorInit, NoProposal
<1> QED
  BY <1>2, <1>3, <1>4 DEF Sound

\* An operation is pending or done, and never both.
LEMMA OperationKinds ==
  ASSUME Types, NEW t \in Timelocks, NEW op \in Operations
  PROVE  /\ IsOperation(t, op) <=> IsOperationPending(t, op) \/ IsOperationDone(t, op)
         /\ ~(IsOperationPending(t, op) /\ IsOperationDone(t, op))
<1>1. timestamps[t][op] \in {0, DONE} \cup StartTime .. MaxTime
  BY DEF Types, TypeOK
<1>2. timestamps[t][op] \in Nat
  BY <1>1 DEF DONE
<1> QED
  BY <1>2 DEF IsOperation, IsOperationPending, IsOperationDone, DONE

\* A step that leaves the operations of a proposal alone.
LEMMA SoundKept ==
  ASSUME NEW p \in Proposals, Sound(p), Approved(p) => Approved(p)',
         \A t \in Timelocks : timestamps'[t][p] = timestamps[t][p],
         runs'[p] = runs[p],
         p \in timelockIds' <=> p \in timelockIds,
         proposals'[p].executed => proposals[p].executed,
         proposals'[p].canceled => proposals[p].canceled
  PROVE  Sound(p)'
<1>1. Scheduled(p)' = Scheduled(p) /\ Done(p)' = Done(p)
  BY DEF Scheduled, Done, IsOperation, IsOperationDone
<1> QED
  BY <1>1 DEF Sound

\* A step that executes the operation of a proposal.
LEMMA SoundRun ==
  ASSUME NEW p \in Proposals, Types, Sound(p), Approved(p) => Approved(p)',
         NEW t \in Timelocks, Run(t, p),
         timelockIds' = timelockIds,
         proposals'[p].canceled => proposals[p].canceled
  PROVE  Sound(p)'
<1>1. IsOperation(t, p) /\ ~IsOperationDone(t, p) /\ timestamps'[t][p] = DONE
  BY OperationKinds DEF Run, IsOperationReady, Types, TypeOK
<1>2. \A u \in Timelocks : u # t => timestamps'[u][p] = timestamps[u][p]
  BY DEF Run, Types, TypeOK
<1>3. Scheduled(p) = {t}
  BY <1>1 DEF Sound, Scheduled
<1>4. ~Done(p) /\ Done(p)' /\ Scheduled(p)' = {t}
  BY <1>1, <1>2, <1>3 DEF Scheduled, Done, IsOperation, IsOperationDone, DONE
<1>5. runs[p] = 0 /\ runs'[p] = 1
  BY <1>4 DEF Sound, Run, Types, TypeOK
<1> QED
  BY <1>3, <1>4, <1>5 DEF Sound

\* A step that cancels the operation of a proposal, with or without its id.
LEMMA SoundCancelOperation ==
  ASSUME NEW p \in Proposals, Types, Sound(p), Approved(p) => Approved(p)',
         NEW t \in Timelocks, CancelOperation(t, p),
         p \in timelockIds' => p \in timelockIds,
         proposals'[p].executed => proposals[p].executed,
         proposals'[p].canceled => proposals[p].canceled \/ p \notin timelockIds'
  PROVE  Sound(p)'
<1>1. IsOperation(t, p) /\ ~IsOperationDone(t, p) /\ timestamps'[t][p] = 0
  BY OperationKinds DEF CancelOperation, Types, TypeOK
<1>2. \A u \in Timelocks : u # t => timestamps'[u][p] = timestamps[u][p]
  BY DEF CancelOperation, Types, TypeOK
<1>3. Scheduled(p) = {t}
  BY <1>1 DEF Sound, Scheduled
<1>4. ~Done(p) /\ ~Done(p)' /\ Scheduled(p)' = {}
  BY <1>1, <1>2, <1>3 DEF Scheduled, Done, IsOperation, IsOperationDone, DONE
<1>5. runs[p] = 0 /\ runs'[p] = 0
  BY <1>4 DEF Sound, CancelOperation
<1> QED
  BY <1>3, <1>4, <1>5 DEF Sound

LEMMA CanceledKeeps ==
  ASSUME Types, NEW p \in Proposals, NEW q \in Proposals, proposals' = [proposals EXCEPT ![q].canceled = TRUE]
  PROVE  /\ proposals'[p].executed = proposals[p].executed
         /\ q # p => proposals'[p].canceled = proposals[p].canceled
<1>1. proposals \in [Proposals -> Proposal]
  BY DEF Types, TypeOK, Proposal
<1> QED
  BY <1>1 DEF Proposal

LEMMA ExecutedKeeps ==
  ASSUME Types, NEW p \in Proposals, NEW q \in Proposals, proposals' = [proposals EXCEPT ![q].executed = TRUE]
  PROVE  /\ proposals'[p].canceled = proposals[p].canceled
         /\ q # p => proposals'[p].executed = proposals[p].executed
<1>1. proposals \in [Proposals -> Proposal]
  BY DEF Types, TypeOK, Proposal
<1> QED
  BY <1>1 DEF Proposal

LEMMA SoundStep ==
  ASSUME Types, Types', [Next]_vars, NEW p \in Governed, Sound(p)
  PROVE  Sound(p)'
<1> p \in Proposals
  BY DEF Governed
<1>0. (Approved(p) => Approved(p)') /\ p \in Operations
  BY VoteStep DEF Approved
<1>1. ASSUME NEW v \in Voters, NEW q \in Proposals, Propose(v, q) PROVE Sound(p)'
  <2>1. proposals'[p].executed = proposals[p].executed /\ proposals'[p].canceled = proposals[p].canceled
    BY <1>1 DEF Propose, Types, TypeOK
  <2> QED
    BY <1>0, <1>1, <2>1, SoundKept DEF Propose, tlVars
<1>2. ASSUME NEW v \in Voters, NEW q \in Proposals, NEW support \in VoteTypes, CastVote(v, q, support)
      PROVE  Sound(p)'
  BY <1>0, <1>2, SoundKept DEF CastVote, tlVars
<1>3. ASSUME NEW v \in Voters, NEW q \in Proposals, Cancel(v, q) PROVE Sound(p)'
  <2>1. proposals'[p].executed = proposals[p].executed
    BY <1>3, CanceledKeeps DEF Cancel
  <2>2. CASE q # p
    <3>1. proposals'[p].canceled = proposals[p].canceled
      BY <1>3, <2>2, CanceledKeeps DEF Cancel
    <3>2. \A t \in Timelocks : timestamps'[t][p] = timestamps[t][p]
      <4>1. CASE q \in timelockIds
        <5>1. timestamps' = [timestamps EXCEPT ![timelock][q] = 0]
          BY <1>3, <4>1 DEF Cancel, CancelOperation
        <5> QED
          BY <2>2, <5>1 DEF Types, TypeOK
      <4>2. CASE q \notin timelockIds
        BY <1>3, <4>2 DEF Cancel, tlVars
      <4> QED
        BY <4>1, <4>2
    <3> QED
      BY <1>0, <1>3, <2>1, <2>2, <3>1, <3>2, SoundKept DEF Cancel, CancelOperation, tlVars
  <2>3. CASE q = p /\ p \in timelockIds
    <3>1. CancelOperation(timelock, p) /\ timelock \in Timelocks /\ timelockIds' = timelockIds \ {p}
      BY <1>3, <2>3 DEF Cancel, Types, TypeOK
    <3> QED
      BY <1>0, <2>1, <2>3, <3>1, SoundCancelOperation
  <2>4. CASE q = p /\ p \notin timelockIds
    <3>1. UNCHANGED <<timestamps, runs>> /\ timelockIds' = timelockIds
      BY <1>3, <2>4 DEF Cancel, tlVars
    <3>2. Scheduled(p)' = Scheduled(p) /\ Done(p)' = Done(p)
      BY <3>1 DEF Scheduled, Done, IsOperation, IsOperationDone
    <3> QED
      BY <1>0, <2>1, <2>4, <3>1, <3>2 DEF Sound
  <2> QED
    BY <2>2, <2>3, <2>4
<1>4. ASSUME NEW q \in Proposals, QueueStep(q) PROVE Sound(p)'
  <2>1. /\ Schedule(timelock, q, governorDelay) /\ timelock \in Timelocks
        /\ timelockIds' = timelockIds \cup {q} /\ proposals' = proposals
        /\ State(q) = "Succeeded"
    BY <1>4 DEF QueueStep, Queue, Types, TypeOK
  <2>2. CASE q # p
    <3>1. \A t \in Timelocks : timestamps'[t][p] = timestamps[t][p]
      BY <2>1, <2>2 DEF Schedule, Types, TypeOK
    <3> QED
      BY <1>0, <2>1, <2>2, <3>1, SoundKept DEF Schedule
  <2>3. CASE q = p
    <3>1. Approved(p) /\ p \notin timelockIds /\ ~proposals[p].canceled
      BY <2>1, <2>3, StateMeans
    <3>2. Scheduled(p) = {} /\ ~Done(p) /\ ~proposals[p].executed /\ runs[p] = 0
      BY <3>1 DEF Sound, Scheduled, Done, IsOperation, IsOperationDone, DONE
    <3>3. \A t \in Timelocks : t # timelock => timestamps'[t][p] = timestamps[t][p]
      BY <2>1, <2>3 DEF Schedule, Types, TypeOK
    <3>4. timestamps'[timelock][p] # DONE
      <4>1. After(governorDelay) \in StartTime .. MaxTime
        BY AfterInRange DEF Types, TypeOK
      <4> QED
        BY <2>1, <2>3, <4>1 DEF Schedule, Types, TypeOK, DONE
    <3>5. Scheduled(p)' \subseteq {timelock} /\ ~Done(p)' /\ runs'[p] = 0
      BY <2>1, <3>2, <3>3, <3>4 DEF Scheduled, Done, IsOperation, IsOperationDone, Schedule
    <3> QED
      BY <1>0, <2>1, <2>3, <3>1, <3>2, <3>5 DEF Sound
  <2> QED
    BY <2>2, <2>3
<1>5. ASSUME NEW q \in Proposals, ExecuteStep(q) PROVE Sound(p)'
  <2>1. /\ Run(timelock, q) /\ timelock \in Timelocks /\ timelockIds' = timelockIds
        /\ proposals' = [proposals EXCEPT ![q].executed = TRUE]
    BY <1>5 DEF ExecuteStep, Execute, Types, TypeOK
  <2>2. proposals'[p].canceled = proposals[p].canceled
    BY <2>1, ExecutedKeeps
  <2>3. CASE q # p
    <3>1. proposals'[p].executed = proposals[p].executed
      BY <2>1, <2>3, ExecutedKeeps
    <3>2. (\A t \in Timelocks : timestamps'[t][p] = timestamps[t][p]) /\ runs'[p] = runs[p]
      BY <2>1, <2>3 DEF Run, Types, TypeOK
    <3> QED
      BY <1>0, <2>1, <2>2, <3>1, <3>2, SoundKept
  <2>4. CASE q = p
    BY <1>0, <2>1, <2>2, <2>4, SoundRun
  <2> QED
    BY <2>3, <2>4
<1>6. ASSUME NEW t \in Timelocks, NEW op \in CmOperations[callOf], NEW delay \in Delays, CmSchedule(t, op, delay)
      PROVE  Sound(p)'
  <2>1. op # p /\ op \in Operations
    BY DEF Governed, Types
  <2>2. \A u \in Timelocks : timestamps'[u][p] = timestamps[u][p]
    BY <1>6, <2>1 DEF CmSchedule, Schedule, Types, TypeOK
  <2> QED
    BY <1>0, <1>6, <2>2, SoundKept DEF CmSchedule, Schedule, governorVars
<1>7. ASSUME NEW t \in Timelocks, NEW op \in Operations, CmCancel(t, op) PROVE Sound(p)'
  <2>1. CancelOperation(t, op) /\ UNCHANGED <<timelockIds, proposals, runs>>
    BY <1>7 DEF CmCancel, CancelOperation, governorVars
  <2>2. CASE op # p
    <3>1. \A u \in Timelocks : timestamps'[u][p] = timestamps[u][p]
      BY <2>1, <2>2 DEF CancelOperation, Types, TypeOK
    <3> QED
      BY <1>0, <2>1, <3>1, SoundKept
  <2>3. CASE op = p
    BY <1>0, <2>1, <2>3, SoundCancelOperation
  <2> QED
    BY <2>2, <2>3
<1>8. ASSUME NEW t \in Timelocks, NEW op \in Operations, CmExecute(t, op) PROVE Sound(p)'
  <2>1. Run(t, op) /\ UNCHANGED <<timelockIds, proposals>>
    BY <1>8 DEF CmExecute, proposalVars
  <2>2. CASE op # p
    <3>1. (\A u \in Timelocks : timestamps'[u][p] = timestamps[u][p]) /\ runs'[p] = runs[p]
      BY <1>0, <2>1, <2>2 DEF Run, Types, TypeOK
    <3> QED
      BY <1>0, <2>1, <3>1, SoundKept
  <2>3. CASE op = p
    BY <1>0, <2>1, <2>3, SoundRun
  <2> QED
    BY <2>2, <2>3
<1>9. ASSUME UNCHANGED <<timestamps, runs, timelockIds, proposals>> PROVE Sound(p)'
  BY <1>0, <1>9, SoundKept
<1>10. CASE (\E on \in BOOLEAN : CmSetGuard(on)) \/ CmPause \/ TickStep \/ UNCHANGED vars
  BY <1>9, <1>10 DEF CmSetGuard, CmPause, TickStep, Tick, vars, tlVars, governorVars
<1> QED
  BY <1>1, <1>2, <1>3, <1>4, <1>5, <1>6, <1>7, <1>8, <1>10 DEF Next, VoterStep, CmStep, Types, TypeOK, owner

LEMMA CallsAreChosenOnce == [Next]_vars => callOf' = callOf
BY DEF Next, VoterStep, CmStep, Propose, CastVote, Cancel, QueueStep, Queue, ExecuteStep, Execute, CmSchedule,
       CmCancel, CmExecute, CmSetGuard, CmPause, TickStep, vars, governorVars

LEMMA IInvStep == IInv /\ [Next]_vars => IInv'
<1> SUFFICES ASSUME IInv, [Next]_vars PROVE IInv'
  OBVIOUS
<1>1. Types /\ Types'
  BY TypesStep DEF IInv
<1>2. ASSUME NEW p \in Governed PROVE Sound(p)'
  BY <1>1, SoundStep DEF IInv
<1>3. Governed' = Governed
  BY CallsAreChosenOnce DEF Governed
<1> QED
  BY <1>1, <1>2, <1>3 DEF IInv

LEMMA IInvAlways == Spec => []IInv
BY SoundInit, IInvStep, PTL DEF Spec

(***************************************************************************)
(* The properties                                                          *)
(***************************************************************************)

\* The calls of a proposal are made once at most, and only if its vote is over and
\* was won: whoever queues, cancels and executes, in whatever timelocks.
THEOREM ProposalsExecuteOnce == Spec => []ExecutedOnceIfApproved
<1>1. IInv => ExecutedOnceIfApproved
  <2> SUFFICES ASSUME IInv, NEW p \in Governed PROVE runs[p] <= 1 /\ (runs[p] = 1 => Approved(p))
    BY DEF ExecutedOnceIfApproved
  <2> p \in Proposals
    BY DEF Governed
  <2>1. runs[p] = 1 => Scheduled(p) # {}
    BY DEF IInv, Sound, Done, Scheduled, IsOperation, IsOperationDone, DONE
  <2> QED
    BY <2>1 DEF IInv, Sound
<1> QED
  BY IInvAlways, <1>1, PTL

\* GovernorOLAS.queue never reverts because the timelock has the batch of a proposal
\* that is waiting to be queued.
THEOREM QueueIsFree == Spec => []SucceededIsNotScheduled
<1>1. IInv => SucceededIsNotScheduled
  <2> SUFFICES ASSUME IInv, NEW p \in Governed, State(p) = "Succeeded" PROVE ~IsOperation(timelock, p)
    BY DEF SucceededIsNotScheduled
  <2> p \in Proposals
    BY DEF Governed
  <2> QED
    BY StateMeans DEF IInv, Types, TypeOK, Sound, Scheduled
<1> QED
  BY IInvAlways, <1>1, PTL

\* The governor's state of a proposal that has an id is the timelock's.
LEMMA StateOfScheduled ==
  ASSUME Types, NEW p \in Proposals, Sound(p), p \in timelockIds
  PROVE  \/ proposals[p].executed /\ State(p) = "Executed"
         \/ IsOperationDone(timelock, p) /\ State(p) = "Executed"
         \/ ~proposals[p].executed /\ IsOperationPending(timelock, p) /\ State(p) = "Queued"
         \/ /\ ~proposals[p].executed /\ ~IsOperation(timelock, p)
            /\ State(p) = "Canceled"
<1>1. Approved(p) /\ ~proposals[p].canceled
  BY DEF Sound
<1>2. Snapshot(p) > 0 /\ Snapshot(p) < now /\ Deadline(p) < now /\ Snapshot(p) \in Nat /\ Deadline(p) \in Nat
      /\ now \in Nat /\ VoteSucceeded(p)
  BY <1>1 DEF Approved, Voted, Deadline, Types, TypeOK, Snapshot
<1>3. CASE proposals[p].executed
  BY <1>3 DEF State, CoreState
<1>4. CASE ~proposals[p].executed
  <2>1. CoreState(p) = "Succeeded"
    BY <1>1, <1>2, <1>4 DEF CoreState
  <2>2. IsOperation(timelock, p) => IsOperationDone(timelock, p) \/ IsOperationPending(timelock, p)
    BY OperationKinds DEF Types, TypeOK
  <2> QED
    BY <1>4, <2>1, <2>2 DEF State
<1> QED
  BY <1>3, <1>4

\* The governor's state of a proposal tells whether its calls have been made, also if
\* the CM executed or cancelled them, except that it takes for canceled what was left
\* in an earlier timelock.
THEOREM StateTellsTheTruth == Spec => []StateIsTrue
<1>1. IInv => StateIsTrue
  <2> SUFFICES ASSUME IInv, NEW p \in Governed
      PROVE  /\ State(p) = "Executed" => runs[p] = 1
             /\ State(p) = "Canceled" =>
                  runs[p] = 0 \/ \E t \in Timelocks \ {timelock} : IsOperationDone(t, p)
             /\ State(p) \notin {"Executed", "Canceled"} => runs[p] = 0
    BY DEF StateIsTrue
  <2> p \in Proposals
    BY DEF Governed
  <2>1. Types /\ Sound(p) /\ timelock \in Timelocks
    BY DEF IInv, Types, TypeOK
  <2>2. CASE p \notin timelockIds
    <3>1. ~Done(p) /\ runs[p] = 0
      BY <2>1, <2>2, OperationKinds DEF Sound, Done, Scheduled
    <3>2. State(p) # "Executed"
      BY <2>1, <2>2, <3>1, StateMeans DEF Sound
    <3> QED
      BY <3>1, <3>2
  <2>3. CASE p \in timelockIds /\ State(p) = "Executed"
    BY <2>1, <2>3, StateMeans DEF Sound, Done
  <2>4. CASE p \in timelockIds /\ State(p) = "Queued"
    <3>1. IsOperationPending(timelock, p)
      BY <2>1, <2>4, StateMeans
    <3>2. ~Done(p)
      BY <2>1, <3>1, OperationKinds DEF Sound, Done, Scheduled
    <3> QED
      BY <2>1, <2>4, <3>2 DEF Sound
  <2>5. CASE p \in timelockIds /\ State(p) = "Canceled"
    <3>1. ~IsOperation(timelock, p)
      BY <2>1, <2>5, StateOfScheduled DEF IsOperation, IsOperationDone, IsOperationPending, DONE
    <3>2. runs[p] # 0 => \E t \in Timelocks \ {timelock} : IsOperationDone(t, p)
      BY <2>1, <3>1 DEF Sound, Done, IsOperation, IsOperationDone, DONE
    <3> QED
      BY <2>5, <3>2
  <2>6. p \in timelockIds => State(p) \in {"Executed", "Queued", "Canceled"}
    BY <2>1, StateOfScheduled
  <2> QED
    BY <2>2, <2>3, <2>4, <2>5, <2>6
<1> QED
  BY IInvAlways, <1>1, PTL

\* An operation of a proposal is pending in the governor's timelock only while the
\* governor says that it is queued: cancelling leaves nothing behind.
THEOREM PendingIsQueued == Spec => []NothingLeftPending
<1>1. IInv => NothingLeftPending
  <2> SUFFICES ASSUME IInv, NEW p \in Governed, IsOperationPending(timelock, p) PROVE State(p) = "Queued"
    BY DEF NothingLeftPending
  <2> p \in Proposals
    BY DEF Governed
  <2>1. Types /\ Sound(p) /\ timelock \in Timelocks
    BY DEF IInv, Types, TypeOK
  <2>2. IsOperation(timelock, p) /\ ~IsOperationDone(timelock, p)
    BY <2>1, OperationKinds
  <2>3. p \in timelockIds
    BY <2>1, <2>2 DEF Sound, Scheduled
  <2>4. ~proposals[p].executed
    BY <2>1, <2>2, OperationKinds DEF Sound, Done, Scheduled
  <2> QED
    BY <2>1, <2>2, <2>3, <2>4, StateOfScheduled
<1> QED
  BY IInvAlways, <1>1, PTL

(***************************************************************************)
(* The guard                                                               *)
(***************************************************************************)

\* Governance has failed a vote or has decided to free the CM.
Free ==
  \/ \E p \in Proposals : Voted(p) /\ ~VoteSucceeded(p)
  \/ \E p \in Proposals : Approved(p) /\ runs[p] > 0 /\ Kind(p) \in Freeing

\* Until then only what the voters have approved is pending and could free it.
GuardKept ==
  /\ Guarded
  /\ allowed = InitialAllowed
  /\ \A op \in Operations :
       IsOperationPending(owner, op) /\ Kind(op) \in Freeing => op \in Proposals /\ Approved(op)

GInv == Types /\ (Free \/ GuardKept)

LEMMA RunsGrow ==
  ASSUME Types, [Next]_vars, NEW p \in Proposals
  PROVE  runs'[p] >= runs[p] /\ runs[p] \in Nat
<1>1. ASSUME NEW t, NEW op \in Operations, Run(t, op) PROVE runs'[p] >= runs[p]
  BY <1>1 DEF Run, Types, TypeOK
<1>2. runs[p] \in Nat
  BY DEF Types, TypeOK
<1>3. CASE runs' = runs
  BY <1>2, <1>3
<1>4. \/ runs' = runs
      \/ \E q \in Proposals : Run(timelock, q)
      \/ \E t \in Timelocks, op \in Operations : Run(t, op)
  BY DEF Next, VoterStep, CmStep, Propose, CastVote, Cancel, CancelOperation, QueueStep, Queue, Schedule, ExecuteStep,
         Execute, CmSchedule, CmCancel, CmExecute, CmSetGuard, CmPause, TickStep, Tick, vars, tlVars
<1> QED
  BY <1>1, <1>2, <1>3, <1>4

LEMMA FreeStep ==
  ASSUME Types, Types', [Next]_vars, Free
  PROVE  Free'
<1>1. ASSUME NEW p \in Proposals, Voted(p), ~VoteSucceeded(p) PROVE Free'
  BY <1>1, VoteStep DEF Free
<1>2. ASSUME NEW p \in Proposals, Approved(p), runs[p] > 0, Kind(p) \in Freeing PROVE Free'
  <2>1. Approved(p)' /\ Kind(p)' = Kind(p)
    BY <1>2, VoteStep, CallsAreChosenOnce DEF Approved, Kind
  <2>2. runs'[p] > 0
    BY <1>2, RunsGrow DEF Types, TypeOK
  <2> QED
    BY <1>2, <2>1, <2>2 DEF Free
<1> QED
  BY <1>1, <1>2 DEF Free

\* Only calls that free the CM turn the guard off or change what is allowed.
LEMMA GuardCallKeeps ==
  ASSUME NEW t \in Timelocks, NEW op \in Operations, GuardKept, GuardCall(t, op), Kind(op) \notin Freeing
  PROVE  Guarded' /\ allowed' = InitialAllowed
BY DEF GuardKept, Guarded, GuardCall, PausedAfter, AllowedAfter, Freeing

\* What frees the CM is a decision of governance when it is executed.
LEMMA RunFrees ==
  ASSUME Types, Types', [Next]_vars, GuardKept, NEW t \in Timelocks, NEW op \in Operations,
         Run(t, op), GuardCall(t, op), Kind(op) \in Freeing
  PROVE  Free'
<1>1. IsOperationPending(owner, op)
  BY DEF Run, IsOperationReady, GuardCall, GuardCallReverts, OwnerOnly, Freeing
<1>2. op \in Proposals /\ Approved(op)
  BY <1>1 DEF GuardKept
<1>3. Approved(op)' /\ Kind(op)' = Kind(op)
  BY <1>2, VoteStep, CallsAreChosenOnce DEF Approved, Kind
<1>4. runs'[op] > 0
  BY DEF Run, Types, TypeOK
<1> QED
  BY <1>2, <1>3, <1>4 DEF Free

LEMMA GuardKeptStep ==
  ASSUME Types, Types', [Next]_vars, GuardKept
  PROVE  Free' \/ GuardKept'
<1>0. owner \in Timelocks /\ owner' = owner /\ callOf' = callOf
  BY CallsAreChosenOnce DEF owner
<1>1. ASSUME Guarded', allowed' = InitialAllowed,
             \A op \in Operations :
               IsOperationPending(owner, op)' =>
                 IsOperationPending(owner, op) \/ Kind(op) \notin Freeing \/ (op \in Proposals /\ Approved(op))
      PROVE  GuardKept'
  <2>1. \A op \in Operations : Kind(op)' = Kind(op)
    BY <1>0 DEF Kind
  <2>2. \A op \in Proposals : Approved(op) => Approved(op)'
    BY VoteStep DEF Approved
  <2> QED
    BY <1>0, <1>1, <2>1, <2>2 DEF GuardKept
<1>2. UNCHANGED guardVars => Guarded' /\ allowed' = InitialAllowed
  BY DEF GuardKept, Guarded, guardVars
<1>3. ASSUME UNCHANGED <<guardVars, timestamps>> PROVE GuardKept'
  BY <1>1, <1>2, <1>3 DEF IsOperationPending, owner, guardVars
<1>4. ASSUME NEW t \in Timelocks, NEW o \in Operations, NEW x \in {0, DONE},
             timestamps' = [timestamps EXCEPT ![t][o] = x],
             NEW op \in Operations, IsOperationPending(owner, op)'
      PROVE  IsOperationPending(owner, op)
  BY <1>0, <1>4 DEF IsOperationPending, DONE, owner, Types, TypeOK
<1>5. ASSUME NEW t \in Timelocks, NEW o \in Operations, NEW delay \in Nat, Schedule(t, o, delay), UNCHANGED guardVars,
             t = owner => Kind(o) \notin Freeing \/ (o \in Proposals /\ Approved(o))
      PROVE  GuardKept'
  <2>1. ASSUME NEW op \in Operations, IsOperationPending(owner, op)', op # o \/ t # owner
        PROVE  IsOperationPending(owner, op)
    BY <1>0, <1>5, <2>1 DEF Schedule, IsOperationPending, owner, Types, TypeOK
  <2> QED
    BY <1>1, <1>2, <1>5, <2>1
<1>6. ASSUME NEW v \in Voters, NEW p \in Proposals, Cancel(v, p), UNCHANGED guardVars PROVE GuardKept'
  <2>1. CASE p \in timelockIds
    <3>1. timestamps' = [timestamps EXCEPT ![timelock][p] = 0] /\ timelock \in Timelocks /\ p \in Operations
      BY <1>6, <2>1 DEF Cancel, CancelOperation, Types, TypeOK
    <3> QED
      BY <1>1, <1>2, <1>4, <1>6, <3>1
  <2>2. CASE p \notin timelockIds
    BY <1>3, <1>6, <2>2 DEF Cancel, tlVars, guardVars
  <2> QED
    BY <2>1, <2>2
<1>7. ASSUME NEW p \in Proposals, QueueStep(p) PROVE GuardKept'
  <2>1. /\ Schedule(timelock, p, governorDelay) /\ timelock \in Timelocks /\ governorDelay \in Nat
        /\ UNCHANGED guardVars /\ State(p) = "Succeeded"
    BY <1>7 DEF QueueStep, Queue, Types, TypeOK
  <2>2. Approved(p) /\ p \in Operations
    BY <2>1, StateMeans
  <2> QED
    BY <1>5, <2>1, <2>2
<1>8. ASSUME NEW t \in Timelocks, NEW op \in Operations, Run(t, op), GuardCall(t, op) PROVE Free' \/ GuardKept'
  <2>1. CASE Kind(op) \in Freeing
    BY <1>8, <2>1, RunFrees
  <2>2. CASE Kind(op) \notin Freeing
    <3>1. Guarded' /\ allowed' = InitialAllowed
      BY <1>8, <2>2, GuardCallKeeps
    <3>2. \A o \in Operations : IsOperationPending(owner, o)' => IsOperationPending(owner, o)
      BY <1>4, <1>8 DEF Run
    <3> QED
      BY <1>1, <3>1, <3>2
  <2> QED
    BY <2>1, <2>2
<1>9. ASSUME NEW p \in Proposals, ExecuteStep(p) PROVE Free' \/ GuardKept'
  BY <1>8, <1>9 DEF ExecuteStep, Execute, Types, TypeOK
<1>10. ASSUME NEW t \in Timelocks, NEW op \in CmOperations[callOf], NEW delay \in Delays, CmSchedule(t, op, delay)
       PROVE  GuardKept'
  <2>1. Schedule(t, op, delay) /\ UNCHANGED guardVars /\ (t = owner => Kind(op) \notin Freeing)
    BY <1>10 DEF CmSchedule, ScheduleAllowed, GuardKept
  <2>2. op \in Operations
    BY DEF Types
  <2> QED
    BY <1>5, <2>1, <2>2
<1>11. ASSUME NEW t \in Timelocks, NEW op \in Operations, CmCancel(t, op) PROVE GuardKept'
  BY <1>1, <1>2, <1>4, <1>11 DEF CmCancel, CancelOperation
<1>12. ASSUME NEW t \in Timelocks, NEW op \in Operations, CmExecute(t, op) PROVE Free' \/ GuardKept'
  BY <1>8, <1>12 DEF CmExecute
<1>13. ASSUME NEW on \in BOOLEAN, CmSetGuard(on) PROVE FALSE
  BY <1>13 DEF CmSetGuard, GuardKept
<1>14. CASE CmPause
  <2>1. governorCheckProposalId \in Proposals /\ State(governorCheckProposalId) = "Defeated"
    BY <1>14 DEF CmPause, MayPause, Types, TypeOK
  <2>2. CoreState(governorCheckProposalId) = "Defeated"
    BY <2>1 DEF State
  <2>3. Snapshot(governorCheckProposalId) \in Nat /\ Deadline(governorCheckProposalId) \in Nat /\ now \in Nat
    BY <2>1 DEF Types, TypeOK, Snapshot, Deadline
  <2>4. Voted(governorCheckProposalId) /\ ~VoteSucceeded(governorCheckProposalId)
    BY <2>2, <2>3 DEF CoreState, Voted
  <2> QED
    BY <2>1, <2>4, FreeStep DEF Free
<1>15. CASE TickStep \/ UNCHANGED vars
  BY <1>3, <1>15 DEF TickStep, Tick, vars, tlVars, guardVars
<1>16. ASSUME NEW v \in Voters, NEW p \in Proposals, UNCHANGED guardVars,
              Propose(v, p) \/ \E support \in VoteTypes : CastVote(v, p, support)
       PROVE  GuardKept'
  BY <1>3, <1>16 DEF Propose, CastVote, tlVars, guardVars
<1>17. timelock \in Timelocks
  BY DEF Types, TypeOK
<1> QED
  BY <1>0, <1>6, <1>7, <1>9, <1>10, <1>11, <1>12, <1>13, <1>14, <1>15, <1>16, <1>17 DEF Next, VoterStep, CmStep

\* The CM loses its guard only if governance has failed a vote or has executed a
\* proposal that frees it, whatever it schedules, cancels, executes and pauses.
THEOREM CmStaysGuarded == Spec => []CmIsGuarded
<1>1. Init => GInv
  <2>1. ASSUME Init PROVE GuardKept
    <3>1. Guarded /\ allowed = InitialAllowed
      BY <2>1 DEF Init, GuardInit, Guarded
    <3>2. \A op \in Operations : timestamps[owner][op] = 0
      BY <2>1 DEF Init, TimelockInit, owner
    <3> QED
      BY <3>1, <3>2 DEF GuardKept, IsOperationPending, DONE
  <2> QED
    BY <2>1, TypesInit DEF GInv
<1>2. GInv /\ [Next]_vars => GInv'
  BY TypesStep, FreeStep, GuardKeptStep DEF GInv
<1>3. GInv => CmIsGuarded
  BY DEF GInv, Free, GuardKept, CmIsGuarded
<1> QED
  BY <1>1, <1>2, <1>3, PTL DEF Spec

(***************************************************************************)
(* Delays: for any delays of governor and timelocks and any changes of     *)
(* them, what was voted for waits as long as the shortest delay the        *)
(* governor has had.                                                       *)
(***************************************************************************)

\* An operation of a proposal that is pending, in whatever timelock, was scheduled by
\* the governor after the vote, with a delay that the governor has had.
Waits(p) ==
  \A t \in Timelocks : IsOperationPending(t, p) =>
    \/ timestamps[t][p] = MaxTime
    \/ \E d \in GovernorDelays : timestamps[t][p] >= Deadline(p) + d

DelayInv == IInv /\ governorDelay \in GovernorDelays /\ \A p \in Governed : Waits(p)

LEMMA DelaysAreNumbers ==
  ASSUME Types
  PROVE  GovernorDelays \subseteq Nat
<1>1. ASSUME NEW p \in Proposals, Kind(p) \in {"updateGovernorDelay", "updateDelays"} PROVE Value(p) \in Nat
  BY <1>1 DEF Types, Kind, Value
<1> QED
  BY <1>1 DEF GovernorDelays

\* A call is made for good.
LEMMA DelaysGrow ==
  ASSUME Types, [Next]_vars
  PROVE  GovernorDelays \subseteq GovernorDelays'
<1>1. callOf' = callOf
  BY CallsAreChosenOnce
<1>2. ASSUME NEW p \in Proposals, runs[p] > 0 PROVE runs'[p] > 0
  <2>1. runs'[p] >= runs[p] /\ runs[p] \in Nat
    BY RunsGrow
  <2>2. CASE runs' = runs
    BY <1>2, <2>2
  <2>3. CASE \E t \in Timelocks, op \in Operations : Run(t, op)
    BY <1>2, <2>1, <2>3 DEF Run, Types, TypeOK
  <2> QED
    BY <2>2, <2>3 DEF Next, VoterStep, CmStep, Propose, CastVote, Cancel, CancelOperation, QueueStep, Queue, Schedule,
           ExecuteStep, Execute, CmSchedule, CmCancel, CmExecute, CmSetGuard, CmPause, TickStep, Tick, vars, tlVars,
           Types, TypeOK
<1> QED
  BY <1>1, <1>2 DEF GovernorDelays, Kind, Value

\* Only a proposal that is executed by the governor changes the delay.
LEMMA DelayWasDecided ==
  ASSUME Types, [Next]_vars, governorDelay \in GovernorDelays
  PROVE  governorDelay' \in GovernorDelays'
<1>1. callOf' = callOf
  BY CallsAreChosenOnce
<1>2. ASSUME governorDelay' = governorDelay PROVE governorDelay' \in GovernorDelays'
  BY <1>2, DelaysGrow
<1>3. ASSUME NEW q \in Proposals, ExecuteStep(q) PROVE governorDelay' \in GovernorDelays'
  <2>1. governorDelay' = GovernorDelayAfter(q) /\ Run(timelock, q)
    BY <1>3 DEF ExecuteStep, Execute, GovernorCall
  <2>2. CASE Kind(q) \in {"updateGovernorDelay", "updateDelays"}
    <3>1. runs'[q] > 0
      BY <2>1 DEF Run, Types, TypeOK
    <3>2. governorDelay' = Value(q)
      BY <2>1, <2>2 DEF GovernorDelayAfter
    <3> QED
      BY <1>1, <2>2, <3>1, <3>2 DEF GovernorDelays, Kind, Value
  <2>3. CASE Kind(q) \notin {"updateGovernorDelay", "updateDelays"}
    BY <1>2, <2>1, <2>3 DEF GovernorDelayAfter
  <2> QED
    BY <2>2, <2>3
<1>4. ASSUME NEW t \in Timelocks, NEW op \in Operations, CmExecute(t, op) PROVE governorDelay' = governorDelay
  BY <1>4 DEF CmExecute, GovernorCall, GovernorCallReverts, GovernorDelayAfter, OnlyGovernance
<1>5. \/ governorDelay' = governorDelay
      \/ \E q \in Proposals : ExecuteStep(q)
      \/ \E t \in Timelocks, op \in Operations : CmExecute(t, op)
  BY DEF Next, VoterStep, CmStep, Propose, CastVote, Cancel, QueueStep, Queue, CmSchedule, CmCancel, CmSetGuard,
         CmPause, TickStep, vars, governorVars
<1> QED
  BY <1>2, <1>3, <1>4, <1>5

\* How the operation of a proposal in a timelock changes.
LEMMA TimestampStep ==
  ASSUME Types, [Next]_vars, NEW p \in Governed, NEW t \in Timelocks
  PROVE  \/ timestamps'[t][p] = timestamps[t][p]
         \/ timestamps'[t][p] \in {0, DONE}
         \/ QueueStep(p) /\ timestamps'[t][p] = After(governorDelay)
<1> DEFINE Goal == \/ timestamps'[t][p] = timestamps[t][p]
                   \/ timestamps'[t][p] \in {0, DONE}
                   \/ QueueStep(p) /\ timestamps'[t][p] = After(governorDelay)
<1> SUFFICES Goal
  OBVIOUS
<1>0. timestamps \in [Timelocks -> [Operations -> {0, DONE} \cup StartTime .. MaxTime]] /\ p \in Operations
  BY DEF Types, TypeOK, Governed
<1>1. ASSUME NEW u, NEW op, CancelOperation(u, op) \/ Run(u, op) PROVE Goal
  BY <1>0, <1>1 DEF CancelOperation, Run
<1>2. ASSUME timestamps' = timestamps PROVE Goal
  BY <1>2
<1>3. ASSUME NEW u, NEW op, NEW delay, op # p, Schedule(u, op, delay) PROVE Goal
  BY <1>0, <1>3 DEF Schedule
<1>4. ASSUME NEW q \in Proposals, QueueStep(q) PROVE Goal
  <2>1. Schedule(timelock, q, governorDelay)
    BY <1>4 DEF QueueStep, Queue
  <2>2. CASE q # p
    BY <1>3, <2>1, <2>2
  <2>3. CASE q = p
    <3>1. timestamps' = [timestamps EXCEPT ![timelock][p] = After(governorDelay)]
      BY <2>1, <2>3 DEF Schedule
    <3>2. CASE t = timelock
      BY <1>0, <1>4, <2>3, <3>1, <3>2
    <3>3. CASE t # timelock
      BY <1>0, <3>1, <3>3
    <3> QED
      BY <3>2, <3>3
  <2> QED
    BY <2>2, <2>3
<1>5. ASSUME NEW u, NEW op \in CmOperations[callOf], NEW delay, CmSchedule(u, op, delay) PROVE Goal
  <2>1. op # p
    BY DEF Governed
  <2> QED
    BY <1>3, <1>5, <2>1 DEF CmSchedule
<1> HIDE DEF Goal
<1>6. CASE \E v \in Voters : VoterStep(v)
  BY <1>1, <1>2, <1>6 DEF VoterStep, Propose, CastVote, Cancel, tlVars
<1>7. CASE \E q \in Proposals : QueueStep(q) \/ ExecuteStep(q)
  BY <1>1, <1>4, <1>7 DEF ExecuteStep, Execute
<1>8. CASE CmStep
  BY <1>1, <1>2, <1>5, <1>8 DEF CmStep, CmCancel, CmExecute, CmSetGuard, CmPause, tlVars
<1>9. CASE TickStep \/ UNCHANGED vars
  BY <1>2, <1>9 DEF TickStep, Tick, vars, tlVars
<1> QED
  BY <1>6, <1>7, <1>8, <1>9 DEF Next

LEMMA WaitsStep ==
  ASSUME DelayInv, IInv', [Next]_vars, NEW p \in Governed
  PROVE  Waits(p)'
<1>0. Types /\ Types' /\ Sound(p) /\ Waits(p) /\ p \in Proposals /\ p \in Operations /\ governorDelay \in GovernorDelays
  BY DEF DelayInv, IInv, Governed
<1> SUFFICES ASSUME NEW t \in Timelocks, timestamps'[t][p] > DONE
             PROVE  \/ timestamps'[t][p] = MaxTime
                    \/ \E d \in GovernorDelays' : timestamps'[t][p] >= Deadline(p)' + d
  BY DEF Waits, IsOperationPending
<1>1. GovernorDelays \subseteq Nat /\ GovernorDelays \subseteq GovernorDelays'
  BY <1>0, DelaysAreNumbers, DelaysGrow
<1>2. CASE timestamps'[t][p] = timestamps[t][p]
  <2>1. IsOperationPending(t, p) /\ IsOperation(t, p)
    BY <1>0, <1>2, OperationKinds DEF IsOperationPending
  <2>2. Voted(p)
    BY <1>0, <2>1 DEF Sound, Scheduled, Approved
  <2>3. Deadline(p)' = Deadline(p)
    BY <1>0, <2>2, VoteIsOver DEF Deadline
  <2> QED
    BY <1>0, <1>1, <1>2, <2>1, <2>3 DEF Waits
<1>3. CASE timestamps'[t][p] \in {0, DONE}
  BY <1>3 DEF DONE
<1>4. CASE QueueStep(p) /\ timestamps'[t][p] = After(governorDelay)
  <2>1. State(p) = "Succeeded"
    BY <1>4 DEF QueueStep, Queue
  <2>2. Voted(p)
    BY <1>0, <2>1, StateMeans DEF Approved
  <2>3. Deadline(p)' = Deadline(p) /\ Deadline(p) < now
    BY <1>0, <2>2, VoteIsOver DEF Deadline, Voted
  <2>4. Deadline(p) \in Nat /\ now \in Nat /\ governorDelay \in Nat
    BY <1>0 DEF Types, TypeOK, Deadline, Snapshot
  <2>5. CASE now + governorDelay < MaxTime
    <3>1. timestamps'[t][p] >= Deadline(p)' + governorDelay
      BY <1>4, <2>3, <2>4, <2>5 DEF After
    <3> QED
      BY <1>0, <1>1, <3>1
  <2>6. CASE ~(now + governorDelay < MaxTime)
    BY <1>4, <2>6 DEF After
  <2> QED
    BY <2>5, <2>6
<1> QED
  BY <1>0, <1>2, <1>3, <1>4, TimestampStep

\* An operation of a proposal that is run was pending, and its time has come.
LEMMA RunAfterDelay ==
  ASSUME DelayInv, [Next]_vars, NEW p \in Governed, runs'[p] > runs[p], now < MaxTime
  PROVE  \E d \in GovernorDelays : now >= Deadline(p) + d
<1>0. Types /\ Waits(p) /\ p \in Proposals /\ p \in Operations /\ runs[p] \in Nat
  BY DEF DelayInv, IInv, Governed, Types, TypeOK
<1>1. ASSUME NEW t \in Timelocks, NEW op \in Operations, Run(t, op)
      PROVE  \E d \in GovernorDelays : now >= Deadline(p) + d
  <2>1. op = p
    BY <1>0, <1>1 DEF Run, Types, TypeOK
  <2>2. IsOperationPending(t, p) /\ timestamps[t][p] <= now
    BY <1>1, <2>1 DEF Run, IsOperationReady
  <2>3. timestamps[t][p] \in Nat /\ now \in Nat
    <3>1. timestamps[t][p] \in {0, DONE} \cup StartTime .. MaxTime /\ now \in StartTime .. MaxTime
      BY <1>0 DEF Types, TypeOK
    <3> QED
      BY <3>1, TimelockAssumption DEF TimelockAssumption, DONE
  <2>4. timestamps[t][p] # MaxTime
    BY <2>2, <2>3
  <2>5. PICK d \in GovernorDelays : timestamps[t][p] >= Deadline(p) + d
    BY <1>0, <2>2, <2>4 DEF Waits
  <2>6. d \in Nat /\ Deadline(p) \in Nat
    BY <1>0, DelaysAreNumbers DEF Types, TypeOK, Deadline, Snapshot
  <2> QED
    BY <2>2, <2>3, <2>5, <2>6
<1>2. runs' # runs
  BY <1>0
<1>3. \E t \in Timelocks, op \in Operations : Run(t, op)
  BY <1>0, <1>2 DEF Next, VoterStep, CmStep, Propose, CastVote, Cancel, CancelOperation, QueueStep, Queue, Schedule,
         ExecuteStep, Execute, CmSchedule, CmCancel, CmExecute, CmSetGuard, CmPause, TickStep, Tick, vars, tlVars,
         Types, TypeOK
<1> QED
  BY <1>1, <1>3

\* The delay of the governor is kept between a vote and the execution of what it
\* decided, whatever the delays of the timelocks and through all moves between
\* them (queue schedules with the governor's own delay).
THEOREM DelayIsKeptAlways == Spec => DelayIsKept
<1>1. Init => DelayInv
  <2> SUFFICES ASSUME Init PROVE DelayInv
    OBVIOUS
  <2>1. IInv
    BY SoundInit
  <2>2. governorDelay \in GovernorDelays
    BY DEF Init, GovernorInit, GovernorDelays
  <2>3. ASSUME NEW p \in Governed PROVE Waits(p)
    BY DEF Init, TimelockInit, Waits, IsOperationPending, Governed, DONE
  <2> QED
    BY <2>1, <2>2, <2>3 DEF DelayInv
<1>2. IInv /\ [Next]_vars => IInv'
  BY IInvStep
<1>3. DelayInv /\ IInv' /\ [Next]_vars => DelayInv'
  <2> SUFFICES ASSUME DelayInv, IInv', [Next]_vars PROVE DelayInv'
    OBVIOUS
  <2>1. governorDelay' \in GovernorDelays'
    BY DelayWasDecided DEF DelayInv, IInv
  <2>2. Governed' = Governed
    BY CallsAreChosenOnce DEF Governed
  <2> QED
    BY <2>1, <2>2, WaitsStep DEF DelayInv
<1>4. DelayInv /\ [Next]_vars =>
        [\A p \in Governed :
           runs'[p] > runs[p] /\ now < MaxTime => \E d \in GovernorDelays : now >= Deadline(p) + d]_vars
  BY RunAfterDelay
<1>5. DelayInv => IInv
  BY DEF DelayInv
<1> QED
  BY <1>1, <1>2, <1>3, <1>4, <1>5, PTL DEF Spec, DelayIsKept
=============================================================================
