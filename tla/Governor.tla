------------------------------ MODULE Governor ------------------------------
(***************************************************************************)
(* GovernorOLAS with the repository's own GovernorTimelockControl: a       *)
(* proposal is voted on, queued in a timelock with the governor's own      *)
(* delay, and executed through it.  Proposing, voting and cancelling are   *)
(* OpenZeppelin's (Governor, GovernorCompatibilityBravo), used as they are.*)
(*                                                                         *)
(* The id of a proposal and of its operation hash the same batch and       *)
(* description, so both are written p.  What the batch calls is callOf[p]. *)
(***************************************************************************)
EXTENDS Timelock, Functions

CONSTANTS
  Proposals,
  Voters, ZeroAddress,
  VoteTypes,           \* of "Against", "For", "Abstain"
  Power, LockEnd,      \* of each voter: veOLAS, constant until the lock ends
  votingDelay, votingPeriod, proposalThreshold,
  quorumNumerator,     \* percent
  InitialTimelock, InitialGovernorDelay,
  CallMaps             \* what the operations may call: functions of Operations

ASSUME GovernorAssumption ==
  /\ Proposals \subseteq Operations
  /\ ZeroAddress \notin Voters /\ VoteTypes \subseteq {"Against", "For", "Abstain"}
  /\ Power \in [Voters -> Nat] /\ LockEnd \in [Voters -> Nat]
  /\ votingDelay \in Nat /\ votingPeriod \in Nat /\ proposalThreshold \in Nat
  /\ quorumNumerator \in 0 .. 100
  /\ InitialTimelock \in Timelocks
  /\ InitialGovernorDelay \in Nat /\ InitialGovernorDelay >= InitialMinDelay

ASSUME CallAssumption ==
  \A calls \in CallMaps : \A op \in Operations :
    /\ calls[op].kind \in {"updateDelay", "updateGovernorDelay", "updateDelays"} => calls[op].value \in Nat
    /\ calls[op].kind = "updateTimelock" => calls[op].value \in Timelocks

VARIABLES
  governorDelay, timelock,
  proposals,           \* _proposals: snapshot 0 if there is none
  receipts,
  timelockIds,         \* _timelockIds: the proposals with an id
  callOf               \* chosen once

proposalVars == <<proposals, receipts, timelockIds>>
governorVars == <<governorDelay, timelock, proposals, receipts, timelockIds, callOf>>

NoProposal == [snapshot |-> 0, proposer |-> ZeroAddress, executed |-> FALSE, canceled |-> FALSE]

GovernorInit ==
  /\ governorDelay = InitialGovernorDelay
  /\ timelock = InitialTimelock
  /\ proposals = [p \in Proposals |-> NoProposal]
  /\ receipts = [p \in Proposals |-> [v \in Voters |-> "None"]]
  /\ timelockIds = {}
  /\ callOf \in CallMaps

(***************************************************************************)
(* Votes and states                                                        *)
(***************************************************************************)

GetPastVotes(v, t) == IF t < LockEnd[v] THEN Power[v] ELSE 0
Quorum(t) == (SumFunctionOnSet([v \in Voters |-> GetPastVotes(v, t)], Voters) * quorumNumerator) \div 100

Snapshot(p) == proposals[p].snapshot
Deadline(p) == Snapshot(p) + votingPeriod
VotesFor(p, support) ==
  SumFunctionOnSet([v \in Voters |-> GetPastVotes(v, Snapshot(p))],
                   {v \in Voters : receipts[p][v] = support})
VoteSucceeded(p) ==
  /\ VotesFor(p, "For") >= Quorum(Snapshot(p))
  /\ VotesFor(p, "For") > VotesFor(p, "Against")

\* Governor.state
CoreState(p) ==
  IF proposals[p].executed THEN "Executed"
  ELSE IF proposals[p].canceled THEN "Canceled"
  ELSE IF Snapshot(p) = 0 THEN "Unknown"
  ELSE IF Snapshot(p) >= now THEN "Pending"
  ELSE IF Deadline(p) >= now THEN "Active"
  ELSE IF VoteSucceeded(p) THEN "Succeeded" ELSE "Defeated"

\* Fault: an operation that is gone counts as not queued yet.
State_RequeuesCanceled(p) ==
  IF CoreState(p) # "Succeeded" \/ p \notin timelockIds THEN CoreState(p)
  ELSE IF IsOperationDone(timelock, p) THEN "Executed"
  ELSE IF IsOperationPending(timelock, p) THEN "Queued" ELSE "Succeeded"

\* A successful proposal with an id is what the timelock says of it.
State(p) ==
  IF CoreState(p) # "Succeeded" \/ p \notin timelockIds THEN CoreState(p)
  ELSE IF IsOperationDone(timelock, p) THEN "Executed"
  ELSE IF IsOperationPending(timelock, p) THEN "Queued" ELSE "Canceled"

(***************************************************************************)
(* Operations                                                              *)
(***************************************************************************)

\* Bound: the vote must be over before the last tick.
Propose(v, p) ==
  /\ Snapshot(p) = 0
  /\ GetPastVotes(v, now - 1) >= proposalThreshold
  /\ now + votingDelay + votingPeriod < MaxTime
  /\ proposals' = [proposals EXCEPT ![p].snapshot = now + votingDelay, ![p].proposer = v]
  /\ UNCHANGED <<tlVars, governorDelay, timelock, receipts, timelockIds, callOf>>

CastVote(v, p, support) ==
  /\ State(p) = "Active"
  /\ receipts[p][v] = "None"
  /\ receipts' = [receipts EXCEPT ![p][v] = support]
  /\ UNCHANGED <<tlVars, governorDelay, timelock, proposals, timelockIds, callOf>>

\* Fault: the delay is the timelock's.
Queue_MinDelay(p) ==
  /\ State(p) = "Succeeded"
  /\ timelockIds' = timelockIds \cup {p}
  /\ Schedule(timelock, p, minDelay[timelock])
  /\ UNCHANGED <<governorDelay, timelock, proposals, receipts, callOf>>

\* Fault: the id of the operation is not stored.
Queue_NoId(p) ==
  /\ State(p) = "Succeeded"
  /\ Schedule(timelock, p, governorDelay)
  /\ UNCHANGED <<governorDelay, timelock, proposals, receipts, timelockIds, callOf>>

Queue(p) ==
  /\ State(p) = "Succeeded"
  /\ timelockIds' = timelockIds \cup {p}
  /\ Schedule(timelock, p, governorDelay)
  /\ UNCHANGED <<governorDelay, timelock, proposals, receipts, callOf>>

\* Fault: the operation stays in the timelock.
Cancel_GovernorOnly(v, p) ==
  /\ State(p) \notin {"Unknown", "Canceled", "Executed"}
  /\ v = proposals[p].proposer \/ GetPastVotes(proposals[p].proposer, now - 1) < proposalThreshold
  /\ proposals' = [proposals EXCEPT ![p].canceled = TRUE]
  /\ timelockIds' = timelockIds \ {p}
  /\ UNCHANGED <<tlVars, governorDelay, timelock, receipts, callOf>>

\* By the proposer or, if its votes have dropped below the threshold, by anyone.
Cancel(v, p) ==
  /\ State(p) \notin {"Unknown", "Canceled", "Executed"}
  /\ v = proposals[p].proposer \/ GetPastVotes(proposals[p].proposer, now - 1) < proposalThreshold
  /\ proposals' = [proposals EXCEPT ![p].canceled = TRUE]
  /\ timelockIds' = timelockIds \ {p}
  /\ IF p \in timelockIds THEN CancelOperation(timelock, p) ELSE UNCHANGED tlVars
  /\ UNCHANGED <<governorDelay, timelock, receipts, callOf>>

(***************************************************************************)
(* Calls that a timelock t makes: to itself and to the governor            *)
(***************************************************************************)

Kind(op) == callOf[op].kind
Value(op) == callOf[op].value

\* Functions that only a proposal which is being executed may call.
OnlyGovernance == {"updateGovernorDelay", "updateDelays", "updateTimelock"}

\* "updateDelays" is the batch of updateDelay and updateGovernorDelay.
GovernorCallReverts(t, op, viaGovernor) ==
  \/ Kind(op) \in OnlyGovernance /\ ~(viaGovernor /\ t = timelock)
  \/ Kind(op) = "updateGovernorDelay" /\ Value(op) < minDelay[t]

MinDelayAfter(t, op) ==
  IF Kind(op) \in {"updateDelay", "updateDelays"} THEN [minDelay EXCEPT ![t] = Value(op)] ELSE minDelay
GovernorDelayAfter(op) ==
  IF Kind(op) \in {"updateGovernorDelay", "updateDelays"} THEN Value(op) ELSE governorDelay
TimelockAfter(op) == IF Kind(op) = "updateTimelock" THEN Value(op) ELSE timelock

GovernorCall(t, op, viaGovernor) ==
  /\ ~GovernorCallReverts(t, op, viaGovernor)
  /\ minDelay' = MinDelayAfter(t, op)
  /\ governorDelay' = GovernorDelayAfter(op)
  /\ timelock' = TimelockAfter(op)

\* Also of a proposal that is not queued, if somebody else has scheduled its batch.
Execute(p) ==
  /\ State(p) \in {"Succeeded", "Queued"}
  /\ proposals' = [proposals EXCEPT ![p].executed = TRUE]
  /\ Run(timelock, p)
  /\ GovernorCall(timelock, p, TRUE)
  /\ UNCHANGED <<receipts, timelockIds, callOf>>

\* Bound: nobody votes without power, which would change no count.
VoterStep(v) ==
  \E p \in Proposals :
    \/ Propose(v, p)
    \/ GetPastVotes(v, Snapshot(p)) > 0 /\ \E support \in VoteTypes : CastVote(v, p, support)
    \/ Cancel(v, p)
=============================================================================
