------------------------------ MODULE GuardCM -------------------------------
(***************************************************************************)
(* The guard of the community multisig (CM), with the governor and the     *)
(* timelocks: the CM schedules in a timelock only what the guard allows,   *)
(* unless the guard is paused, by the timelock or, once a proposal that    *)
(* checks whether governance is alive is defeated, by the CM itself.       *)
(*                                                                         *)
(* A call stands for its target, selector and chain id, which is what the  *)
(* allow-list is about; payloads to other chains are left to verifiers.    *)
(***************************************************************************)
EXTENDS Governor

CONSTANTS
  CmOperations,     \* what the CM may decide to schedule, for each choice of calls
  Delays,           \* delays the CM asks for
  InitialAllowed,   \* calls allowed at first
  CheckProposal,    \* first value of governorCheckProposalId
  InactivePeriod    \* "about a week"

ASSUME GuardAssumption ==
  /\ CmOperations \in [CallMaps -> SUBSET Operations]
  /\ Delays \subseteq Nat
  /\ CheckProposal \in Proposals
  /\ InactivePeriod \in Nat

ASSUME GuardCallAssumption ==
  \A calls \in CallMaps : \A op \in Operations :
    /\ calls[op].kind = "changeGovernorCheckProposalId" => calls[op].value \in Proposals
    /\ calls[op].kind = "setGuard" => calls[op].value \in BOOLEAN

\* Calls that can free the CM from its guard.
Freeing == {"pause", "setTargetSelectorChainIds", "setGuard"}

\* Governance has allowed the CM none of them.
ASSUME AllowedAssumption == InitialAllowed \cap Freeing = {}

VARIABLES
  paused,           \* 1: the guard is on, 2: it is paused
  governorCheckProposalId,
  allowed,          \* mapAllowedTargetSelectorChainIds
  guardSet          \* the Safe of the CM has the guard

guardVars == <<paused, governorCheckProposalId, allowed, guardSet>>
vars == <<tlVars, governorVars, guardVars>>

owner == InitialTimelock    \* immutable, and the module of the Safe

GuardInit ==
  /\ paused = 1
  /\ governorCheckProposalId = CheckProposal
  /\ allowed = InitialAllowed
  /\ guardSet = TRUE

(***************************************************************************)
(* Calls that a timelock t makes: to the guard, and as a module to the Safe*)
(***************************************************************************)

OwnerOnly == {"pause", "unpause", "changeGovernorCheckProposalId", "setTargetSelectorChainIds", "setGuard"}

GuardCallReverts(t, op) == Kind(op) \in OwnerOnly /\ t # owner

\* Fault: pausing is counted.
PausedAfter_Counts(op) ==
  CASE Kind(op) = "pause" -> paused + 1 [] Kind(op) = "unpause" -> paused - 1 [] OTHER -> paused

PausedAfter(op) == CASE Kind(op) = "pause" -> 2 [] Kind(op) = "unpause" -> 1 [] OTHER -> paused

CheckProposalAfter(op) ==
  IF Kind(op) = "changeGovernorCheckProposalId" THEN Value(op) ELSE governorCheckProposalId

AllowedAfter(op) ==
  IF Kind(op) # "setTargetSelectorChainIds" THEN allowed
  ELSE IF Value(op).status THEN allowed \cup {Value(op).call} ELSE allowed \ {Value(op).call}

GuardCall(t, op) ==
  /\ ~GuardCallReverts(t, op)
  /\ paused' = PausedAfter(op)
  /\ governorCheckProposalId' = CheckProposalAfter(op)
  /\ allowed' = AllowedAfter(op)
  /\ guardSet' = IF Kind(op) = "setGuard" THEN Value(op) ELSE guardSet

(***************************************************************************)
(* Transactions of the CM                                                  *)
(***************************************************************************)

Guarded == guardSet /\ paused = 1

\* checkTransaction and _verifySchedule: nothing else in a timelock is looked into.
ScheduleAllowed(t, op) == Guarded /\ t = owner => Kind(op) \in allowed

CmSchedule(t, op, delay) ==
  /\ ScheduleAllowed(t, op)
  /\ Schedule(t, op, delay)
  /\ UNCHANGED <<governorVars, guardVars>>

CmCancel(t, op) ==
  /\ CancelOperation(t, op)
  /\ UNCHANGED <<governorVars, guardVars>>

CmExecute(t, op) ==
  /\ Run(t, op)
  /\ GovernorCall(t, op, FALSE)
  /\ GuardCall(t, op)
  /\ UNCHANGED <<proposalVars, callOf>>

\* A call of the Safe to itself.
CmSetGuard(on) ==
  /\ ~Guarded
  /\ guardSet # on
  /\ guardSet' = on
  /\ UNCHANGED <<tlVars, governorVars, paused, governorCheckProposalId, allowed>>

\* Fault: a proposal that was canceled will do.
MayPause_Canceled == State(governorCheckProposalId) \in {"Defeated", "Canceled"}

MayPause == State(governorCheckProposalId) = "Defeated"

CmPause ==
  /\ MayPause
  /\ paused' = 2
  /\ UNCHANGED <<tlVars, governorVars, governorCheckProposalId, allowed, guardSet>>

\* The CM has its roles in the guard's owner and in the timelock of the governor.
CmStep ==
  \/ \E t \in {owner, timelock}, op \in CmOperations[callOf], delay \in Delays : CmSchedule(t, op, delay)
  \/ \E t \in Timelocks, op \in Operations : CmCancel(t, op) \/ CmExecute(t, op)
  \/ \E on \in BOOLEAN : CmSetGuard(on)
  \/ CmPause

(***************************************************************************)
(* The three together                                                      *)
(***************************************************************************)

QueueStep(p) == Queue(p) /\ UNCHANGED guardVars
ExecuteStep(p) == Execute(p) /\ GuardCall(timelock, p)
TickStep == Tick /\ UNCHANGED <<governorVars, guardVars>>

Init == TimelockInit /\ GovernorInit /\ GuardInit

Next ==
  \/ \E v \in Voters : VoterStep(v) /\ UNCHANGED guardVars
  \/ \E p \in Proposals : QueueStep(p) \/ ExecuteStep(p)
  \/ CmStep
  \/ TickStep

Spec == Init /\ [][Next]_vars

\* Time passes; anyone may queue and execute, and somebody does what stays possible.
Fairness == WF_vars(TickStep) /\ \A p \in Proposals : WF_vars(QueueStep(p)) /\ WF_vars(ExecuteStep(p))
FairSpec == Spec /\ Fairness

(***************************************************************************)
(* Properties                                                              *)
(***************************************************************************)

TypeOK ==
  /\ now \in StartTime .. MaxTime
  /\ minDelay \in [Timelocks -> Nat]
  /\ timestamps \in [Timelocks -> [Operations -> {0, DONE} \cup StartTime .. MaxTime]]
  /\ runs \in [Operations -> Nat]
  /\ governorDelay \in Nat /\ timelock \in Timelocks
  /\ proposals \in [Proposals -> [snapshot : 0 .. MaxTime, proposer : Voters \cup {ZeroAddress},
                                  executed : BOOLEAN, canceled : BOOLEAN]]
  /\ receipts \in [Proposals -> [Voters -> VoteTypes \cup {"None"}]]
  /\ timelockIds \subseteq Proposals
  /\ paused \in {1, 2} /\ guardSet \in BOOLEAN
  /\ governorCheckProposalId \in Proposals

\* Proposals whose batch the CM does not schedule of its own, which would be its decision.
Governed == Proposals \ CmOperations[callOf]

Voted(p) == Snapshot(p) > 0 /\ Deadline(p) < now
Approved(p) == Voted(p) /\ VoteSucceeded(p)

\* What voters have decided happens once at most, and nothing happens that they
\* have not: the CM may cancel and execute the operations of proposals, and the
\* governor may move to another timelock and back, at any time.
ExecutedOnceIfApproved ==
  \A p \in Governed : runs[p] <= 1 /\ (runs[p] = 1 => Approved(p))

\* What the governor says of a proposal is what happened to its calls, even if the CM
\* executed or cancelled them behind its back. (Of a proposal left in an earlier
\* timelock the governor knows nothing, and says that it is canceled.)
StateIsTrue ==
  \A p \in Governed :
    /\ State(p) = "Executed" => runs[p] = 1
    /\ State(p) = "Canceled" => runs[p] = 0 \/ \E t \in Timelocks \ {timelock} : IsOperationDone(t, p)
    /\ State(p) \notin {"Executed", "Canceled"} => runs[p] = 0

\* A proposal that waits to be queued has no operation in the timelock that would
\* make queue revert, whatever was queued, cancelled and moved before.
SucceededIsNotScheduled ==
  \A p \in Governed : State(p) = "Succeeded" => ~IsOperation(timelock, p)

\* No pending operation of a proposal is left behind when the governor says that it
\* is over, in the timelock that the governor uses.
NothingLeftPending ==
  \A p \in Governed : IsOperationPending(timelock, p) => State(p) = "Queued"

\* The delays that the governor has had.
GovernorDelays ==
  {InitialGovernorDelay} \cup
    {Value(p) : p \in {p \in Proposals : runs[p] > 0 /\ Kind(p) \in {"updateGovernorDelay", "updateDelays"}}}

\* Between the end of a vote and the execution of what it decided lies the shortest
\* delay the governor has ever had, even if the timelock's own delay is shorter or
\* was shortened meanwhile. (The last tick has no end.)
DelayIsKept ==
  [][\A p \in Governed :
       runs'[p] > runs[p] /\ now < MaxTime => \E d \in GovernorDelays : now >= Deadline(p) + d]_vars

\* The CM gets rid of its guard only after governance has decided so or has failed a
\* vote: no order of scheduling, cancelling, executing and pausing does it.
CmIsGuarded ==
  \/ Guarded
  \/ \E p \in Proposals : Voted(p) /\ ~VoteSucceeded(p)
  \/ \E p \in Proposals : Approved(p) /\ runs[p] > 0 /\ Kind(p) \in Freeing

\* What the voters have approved is executed, unless it is cancelled, its calls revert,
\* or the governor's delay has fallen below the timelock's.
ApprovedIsServed ==
  \A p \in Proposals :
    p \in Governed /\ State(p) = "Succeeded" ~>
      \/ State(p) \in {"Executed", "Canceled"}
      \/ governorDelay < minDelay[timelock]
      \/ GovernorCallReverts(timelock, p, TRUE) \/ GuardCallReverts(timelock, p)

\* "If the proposal is defeated [...], the governance is considered inactive for about a
\* week." False: a defeated proposal stays defeated, so the CM may pause the guard at
\* any later time, when the voters have long approved something else.
PauseMeansInactive ==
  [][LET check == governorCheckProposalId
     IN  CmPause => \/ now <= Deadline(check) + InactivePeriod
                    \/ ~ \E p \in Proposals : Approved(p) /\ Snapshot(p) > Deadline(check)]_vars
=============================================================================
