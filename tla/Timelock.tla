------------------------------ MODULE Timelock ------------------------------
(***************************************************************************)
(* Timelocks: an operation, a batch of calls, is scheduled, waits, and is  *)
(* executed or cancelled.  Timelock.sol is OpenZeppelin's controller as it *)
(* is; what the governor, the tests and the scripts rely on is modelled.   *)
(* The governor and the community multisig have every role on a timelock.  *)
(***************************************************************************)
EXTENDS Integers

CONSTANTS
  Timelocks,
  Operations,        \* hashes of batches: all that a timelock stores of them
  InitialMinDelay,
  StartTime,
  MaxTime            \* bound: the last tick, which stands for all later times

ASSUME TimelockAssumption ==
  /\ InitialMinDelay \in Nat
  /\ StartTime \in Nat /\ StartTime > 1 /\ MaxTime \in Nat /\ StartTime <= MaxTime

VARIABLES
  now,               \* block.timestamp and, a block per tick, block.number
  minDelay,          \* of each timelock
  timestamps,        \* 0: not an operation; DONE; or the time it is ready at
  runs               \* history: how often an operation's calls have been made

tlVars == <<now, minDelay, timestamps, runs>>

DONE == 1

TimelockInit ==
  /\ now = StartTime
  /\ minDelay = [t \in Timelocks |-> InitialMinDelay]
  /\ timestamps = [t \in Timelocks |-> [op \in Operations |-> 0]]
  /\ runs = [op \in Operations |-> 0]

IsOperation(t, op) == timestamps[t][op] > 0
IsOperationPending(t, op) == timestamps[t][op] > DONE
IsOperationReady(t, op) == IsOperationPending(t, op) /\ timestamps[t][op] <= now
IsOperationDone(t, op) == timestamps[t][op] = DONE

\* With the clock at its bound every delay is over: the last tick stays for ever.
After(delay) == IF now + delay < MaxTime THEN now + delay ELSE MaxTime

\* Fault: the least delay itself is refused.
Schedule_Strict(t, op, delay) ==
  /\ ~IsOperation(t, op)
  /\ delay > minDelay[t]
  /\ timestamps' = [timestamps EXCEPT ![t][op] = After(delay)]
  /\ UNCHANGED <<now, minDelay, runs>>

Schedule(t, op, delay) ==
  /\ ~IsOperation(t, op)
  /\ delay >= minDelay[t]
  /\ timestamps' = [timestamps EXCEPT ![t][op] = After(delay)]
  /\ UNCHANGED <<now, minDelay, runs>>

CancelOperation(t, op) ==
  /\ IsOperationPending(t, op)
  /\ timestamps' = [timestamps EXCEPT ![t][op] = 0]
  /\ UNCHANGED <<now, minDelay, runs>>

\* Fault: an operation that is done can be scheduled again.
Run_Forgets(t, op) ==
  /\ IsOperationReady(t, op)
  /\ timestamps' = [timestamps EXCEPT ![t][op] = 0]
  /\ runs' = [runs EXCEPT ![op] = @ + 1]
  /\ UNCHANGED now

\* What the calls of the operation change, minDelay included, is not in here.
Run(t, op) ==
  /\ IsOperationReady(t, op)
  /\ timestamps' = [timestamps EXCEPT ![t][op] = DONE]
  /\ runs' = [runs EXCEPT ![op] = @ + 1]
  /\ UNCHANGED now

Tick ==
  /\ now < MaxTime
  /\ now' = now + 1
  /\ UNCHANGED <<minDelay, timestamps, runs>>
=============================================================================
