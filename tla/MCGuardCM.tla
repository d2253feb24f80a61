----------------------------- MODULE MCGuardCM ------------------------------
(* Instances of GuardCM, with the governor and the timelocks, for TLC. *)
EXTENDS GuardCM, TLC

CONSTANTS t1, t2, v1, v2, p, q, c, zero

Call(kind, value) == [kind |-> kind, value |-> value]

MCPower == v1 :> 2 @@ v2 :> 0
MCLockEnd == v1 :> 6 @@ v2 :> 0

\* p decides, q checks or decides as well, c is the CM's own.
MCCallMaps ==
  LET Calls(cp, cq, cc) == p :> cp @@ q :> cq @@ c :> cc
  IN  {Calls(Call("updateTimelock", t2), Call("updateTimelock", t1), Call("updateDelay", 3)),
       Calls(Call("updateTimelock", t2), Call("payload", 0), Call("setGuard", FALSE)),
       Calls(Call("updateGovernorDelay", 1), Call("payload", 0), Call("updateDelay", 3)),
       Calls(Call("updateGovernorDelay", 0), Call("unpause", 0), Call("setGuard", FALSE)),
       Calls(Call("updateDelays", 3), Call("payload", 0), Call("updateDelay", 0)),
       Calls(Call("setTargetSelectorChainIds", [call |-> "setGuard", status |-> TRUE]),
             Call("changeGovernorCheckProposalId", p), Call("setGuard", FALSE)),
       Calls(Call("pause", 0), Call("setGuard", FALSE), Call("setGuard", TRUE))}

\* In one combination the CM schedules q instead of c.
MCCmOperations ==
  [calls \in MCCallMaps |-> IF calls[p] = Call("updateGovernorDelay", 1) THEN {q} ELSE {c}]
=============================================================================
