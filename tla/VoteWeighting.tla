--------------------------- MODULE VoteWeighting ---------------------------
(***************************************************************************)
(* VoteWeighting: holders of veOLAS locks distribute their voting power    *)
(* over nominees.  The contract keeps, per nominee and in total, a point   *)
(* (bias, slope) for every past week and the next one, and scheduled slope *)
(* changes at the ends of the locks, and walks them forward week by week.  *)
(*                                                                         *)
(* A transaction is an action; a call that reverts is an action that is    *)
(* not enabled (the EVM undoes all of its writes).                         *)
(***************************************************************************)
EXTENDS VeLocks, FiniteSets, Sequences, Functions

CONSTANTS
  Owners,            \* addresses that may own the contract
  Targets,           \* non-zero nominee accounts
  ZeroAccount,       \* address(0)
  ChainIds,          \* chain ids that callers try
  MAX_EVM_CHAIN_ID,
  WEIGHT_VOTE_DELAY, \* 10 days
  MAX_NUM_WEEKS,     \* longest walk of one call (250 weeks)
  MAX_WEIGHT,        \* 10_000 bps
  WeekHorizon        \* bound: last week the weekly maps are defined on

ASSUME ConstantsAssumption ==
  /\ IsFiniteSet(Voters) /\ IsFiniteSet(Targets) /\ IsFiniteSet(ChainIds)
  /\ ZeroAccount \notin Targets \cup Owners
  /\ ChainIds \subseteq Nat
  /\ MAX_EVM_CHAIN_ID \in Nat
  /\ WEIGHT_VOTE_DELAY \in Nat
  /\ MAX_NUM_WEEKS \in Nat \ {0}
  /\ MAX_WEIGHT \in Nat \ {0}
  /\ WeekHorizon \in Nat

\* "MAX_NUM_WEEKS exceeds the maximum four-year veOLAS lock duration", the
\* maps reach past the last lock end, and the chain is older than one vote delay.
ASSUME HorizonAssumption ==
  /\ MAX_NUM_WEEKS * WEEK > MAXTIME
  /\ WeekHorizon * WEEK >= MaxTime + MAXTIME + WEEK
  /\ StartTime >= WEIGHT_VOTE_DELAY

VARIABLES
  owner,
  setNominees, setRemovedNominees,        \* without the dummy element 0
  mapNomineeIds, mapRemovedNominees,      \* 0: not there
  voteUserSlopes, voteUserPower, lastUserVote,
  pointsWeight, changesWeight, timeWeight,
  pointsSum, changesSum, timeSum,
  dispenserNominees                       \* what the Dispenser was told

registryVars == <<setNominees, setRemovedNominees, mapNomineeIds,
                  mapRemovedNominees, dispenserNominees>>
voterVars  == <<voteUserSlopes, voteUserPower, lastUserVote>>
weightVars == <<pointsWeight, changesWeight, timeWeight>>
sumVars    == <<pointsSum, changesSum, timeSum>>
vwVars == <<owner, registryVars, voterVars, weightVars, sumVars>>
vars == <<veVars, vwVars>>

\* Nominee structs; their hash is taken to be injective.
Nominees == (Targets \cup {ZeroAccount}) \X ChainIds

Weeks == {k * WEEK : k \in 0 .. WeekHorizon}
\* Fault: the week that has begun instead of the next one.
NextTime_Current == (now \div WEEK) * WEEK
NextTime == ((now + WEEK) \div WEEK) * WEEK

Points == [bias : Nat, slope : Nat]
NoPoint == [bias |-> 0, slope |-> 0]
VotedSlopes == [slope : Nat, power : Nat, end : Nat]
NoVote == [slope |-> 0, power |-> 0, end |-> 0]

MaxAndSub(a, b) == IF a > b THEN a - b ELSE 0

VwInit ==
  /\ owner \in Owners
  /\ setNominees = <<>> /\ setRemovedNominees = <<>>
  /\ mapNomineeIds = [n \in Nominees |-> 0]
  /\ mapRemovedNominees = [n \in Nominees |-> 0]
  /\ dispenserNominees = {}
  /\ voteUserSlopes = [u \in Voters |-> [n \in Nominees |-> NoVote]]
  /\ voteUserPower = [u \in Voters |-> 0]
  /\ lastUserVote = [u \in Voters |-> [n \in Nominees |-> 0]]
  /\ pointsWeight = [n \in Nominees |-> [t \in Weeks |-> NoPoint]]
  /\ changesWeight = [n \in Nominees |-> [t \in Weeks |-> 0]]
  /\ timeWeight = [n \in Nominees |-> 0]
  /\ pointsSum = [t \in Weeks |-> NoPoint]
  /\ changesSum = [t \in Weeks |-> 0]
  /\ timeSum = (StartTime \div WEEK) * WEEK

(***************************************************************************)
(* The weekly walk shared by _getWeight and _getSum: from the last week    *)
(* recorded, at most MAX_NUM_WEEKS weeks, until the week is in the future. *)
(***************************************************************************)

WalkLength(last) ==
  IF last > now THEN 0
  ELSE LET needed == ((now - last) \div WEEK) + 1
       IN  IF needed < MAX_NUM_WEEKS THEN needed ELSE MAX_NUM_WEEKS

\* One week of decay, then the slopes that end in that week.
Decay(pt, dSlope) ==
  IF pt.bias > pt.slope * WEEK
  THEN [bias |-> pt.bias - pt.slope * WEEK, slope |-> MaxAndSub(pt.slope, dSlope)]
  ELSE NoPoint

\* The point of every week of the walk.
Walked(points, changes, last) ==
  LET pt[i \in 0 .. WalkLength(last)] ==
        IF i = 0 THEN points[last]
        ELSE Decay(pt[i - 1], changes[last + i * WEEK])
  IN  pt

\* The maps after the walk and the value the function returns. `time' moves
\* only when the walk reaches the future.
Walk(points, changes, last) ==
  LET steps == WalkLength(last)
      end == last + steps * WEEK
      pt == Walked(points, changes, last)
  IN  [points |-> [t \in Weeks |-> IF t > last /\ t <= end
                                   THEN pt[(t - last) \div WEEK] ELSE points[t]],
       time |-> IF steps > 0 /\ end > now THEN end ELSE last,
       bias |-> pt[steps].bias]

WalkSum == Walk(pointsSum, changesSum, timeSum)
WalkWeight(n) == Walk(pointsWeight[n], changesWeight[n], timeWeight[n])

\* _getWeight reverts for a nominee that was never added.
Known(n) == mapNomineeIds[n] > 0 \/ mapRemovedNominees[n] > 0

(***************************************************************************)
(* The nominee registry                                                    *)
(***************************************************************************)

\* Fault: re-adding a removed nominee is not refused.
AddNominee_ReAdd(n) ==
  /\ mapNomineeIds[n] = 0
  /\ mapNomineeIds' = [mapNomineeIds EXCEPT ![n] = Len(setNominees) + 1]
  /\ setNominees' = Append(setNominees, n)
  /\ timeWeight' = [timeWeight EXCEPT ![n] = NextTime]
  /\ dispenserNominees' = dispenserNominees \cup {n}
  /\ UNCHANGED <<veVars, owner, setRemovedNominees, mapRemovedNominees,
                 voterVars, pointsWeight, changesWeight, sumVars>>

AddNominee(n) ==
  /\ mapNomineeIds[n] = 0
  /\ mapRemovedNominees[n] = 0
  /\ mapNomineeIds' = [mapNomineeIds EXCEPT ![n] = Len(setNominees) + 1]
  /\ setNominees' = Append(setNominees, n)
  /\ timeWeight' = [timeWeight EXCEPT ![n] = NextTime]
  /\ dispenserNominees' = dispenserNominees \cup {n}
  /\ UNCHANGED <<veVars, owner, setRemovedNominees, mapRemovedNominees,
                 voterVars, pointsWeight, changesWeight, sumVars>>

AddNomineeEVM(account, chainId) ==
  /\ account # ZeroAccount
  /\ chainId # 0 /\ chainId <= MAX_EVM_CHAIN_ID
  /\ AddNominee(<<account, chainId>>)

AddNomineeNonEVM(account, chainId) ==
  /\ account # ZeroAccount
  /\ chainId > MAX_EVM_CHAIN_ID
  /\ AddNominee(<<account, chainId>>)

\* Fault: no check for the zero address.
ChangeOwner_Zero(sender, newOwner) ==
  /\ sender = owner
  /\ owner' = newOwner
  /\ UNCHANGED <<veVars, registryVars, voterVars, weightVars, sumVars>>

ChangeOwner(sender, newOwner) ==
  /\ sender = owner
  /\ newOwner # ZeroAccount
  /\ owner' = newOwner
  /\ UNCHANGED <<veVars, registryVars, voterVars, weightVars, sumVars>>

\* Fault: the last nominee is moved whenever another one is left, also onto itself.
SwapAndPop_Repopulates(n) ==
  LET id == mapNomineeIds[n]
      numNominees == Len(setNominees)
      last == setNominees[numNominees]
      cleared == [mapNomineeIds EXCEPT ![n] = 0]
  IN  /\ mapNomineeIds' = IF numNominees > 1 THEN [cleared EXCEPT ![last] = id] ELSE cleared
      /\ setNominees' = SubSeq([setNominees EXCEPT ![id] = last], 1, numNominees - 1)

\* The slot of the removed nominee is taken by the last one, unless it is the last.
SwapAndPop(n) ==
  LET id == mapNomineeIds[n]
      numNominees == Len(setNominees)
      last == setNominees[numNominees]
      cleared == [mapNomineeIds EXCEPT ![n] = 0]
  IN  /\ mapNomineeIds' = IF id # numNominees THEN [cleared EXCEPT ![last] = id]
                          ELSE cleared
      /\ setNominees' = SubSeq(IF id # numNominees THEN [setNominees EXCEPT ![id] = last]
                               ELSE setNominees, 1, numNominees - 1)

\* Fault: the slope changes of the removed nominee stay scheduled.
StrippedWeeks_None == {}

\* The weeks whose slope changes removeNominee strips.
StrippedWeeks == {t \in Weeks : t > NextTime /\ t <= NextTime + MAX_NUM_WEEKS * WEEK}

\* Fault: the slope of the removed nominee stays in the sum.
SumWithout_KeepsSlope(pt, sumBias, weightBias, nomineeSlope) ==
  [bias |-> MaxAndSub(sumBias, weightBias), slope |-> pt.slope]

\* The point of the sum without the bias and slope of a removed nominee.
SumWithout(pt, sumBias, weightBias, nomineeSlope) ==
  [bias  |-> MaxAndSub(sumBias, weightBias),
   slope |-> MaxAndSub(pt.slope, nomineeSlope)]

RemoveNominee(sender, n) ==
  LET weight == WalkWeight(n)
      sum == WalkSum
      nomineeSlope == weight.points[NextTime].slope
  IN  /\ sender = owner
      /\ mapNomineeIds[n] > 0
      /\ pointsWeight' = [pointsWeight EXCEPT ![n] =
                            [weight.points EXCEPT ![NextTime] = NoPoint]]
      /\ timeWeight' = [timeWeight EXCEPT ![n] = NextTime]
      /\ pointsSum' = [sum.points EXCEPT ![NextTime] =
                         SumWithout(@, sum.bias, weight.bias, nomineeSlope)]
      /\ timeSum' = NextTime
      /\ changesSum' = [t \in Weeks |->
                          IF t \in StrippedWeeks
                          THEN MaxAndSub(changesSum[t], changesWeight[n][t])
                          ELSE changesSum[t]]
      /\ changesWeight' = [changesWeight EXCEPT ![n] =
                             [t \in Weeks |-> IF t \in StrippedWeeks THEN 0 ELSE @[t]]]
      /\ mapRemovedNominees' = [mapRemovedNominees EXCEPT
                                  ![n] = Len(setRemovedNominees) + 1]
      /\ setRemovedNominees' = Append(setRemovedNominees, n)
      /\ SwapAndPop(n)
      /\ dispenserNominees' = dispenserNominees \ {n}
      /\ UNCHANGED <<veVars, owner, voterVars>>

(***************************************************************************)
(* Checkpoints                                                             *)
(***************************************************************************)

Checkpoint ==
  /\ pointsSum' = WalkSum.points
  /\ timeSum' = WalkSum.time
  /\ UNCHANGED <<veVars, owner, registryVars, voterVars, weightVars, changesSum>>

\* checkpointNominee and nomineeRelativeWeightWrite: both walks.
CheckpointNominee(n) ==
  /\ Known(n)
  /\ pointsWeight' = [pointsWeight EXCEPT ![n] = WalkWeight(n).points]
  /\ timeWeight' = [timeWeight EXCEPT ![n] = WalkWeight(n).time]
  /\ pointsSum' = WalkSum.points
  /\ timeSum' = WalkSum.time
  /\ UNCHANGED <<veVars, owner, registryVars, voterVars, changesWeight, changesSum>>

(***************************************************************************)
(* Votes                                                                   *)
(***************************************************************************)

\* Fault: the share is rounded up.
VoteOf_RoundsUp(u, weight) ==
  [slope |-> (UserSlope(u) * weight + MAX_WEIGHT - 1) \div MAX_WEIGHT,
   power |-> weight, end |-> locked[u].endTime]

\* The vote the lock of u backs with a weight. Its slope is rounded down.
VoteOf(u, weight) ==
  [slope |-> (UserSlope(u) * weight) \div MAX_WEIGHT,
   power |-> weight, end |-> locked[u].endTime]

\* Fault: a vote that ends in the next week is taken for a live one.
Revote_EndedIsLive(walk, old, new) ==
  LET live == old.end >= NextTime
      oldBias == IF live THEN old.slope * (old.end - NextTime) ELSE 0
      newBias == new.slope * (new.end - NextTime)
      slope == walk.points[NextTime].slope
  IN  [walk.points EXCEPT ![NextTime] =
         [bias  |-> MaxAndSub(walk.bias + newBias, oldBias),
          slope |-> IF live THEN MaxAndSub(slope + new.slope, old.slope)
                    ELSE slope + new.slope]]

\* The point of the next week with the vote `old' replaced by `new'; `walk' has
\* just walked its map there.
Revote(walk, old, new) ==
  LET live == old.end > NextTime
      oldBias == IF live THEN old.slope * (old.end - NextTime) ELSE 0
      newBias == new.slope * (new.end - NextTime)
      slope == walk.points[NextTime].slope
  IN  [walk.points EXCEPT ![NextTime] =
         [bias  |-> MaxAndSub(walk.bias + newBias, oldBias),
          slope |-> IF live THEN MaxAndSub(slope + new.slope, old.slope)
                    ELSE slope + new.slope]]

\* A slope change that has not happened yet is cancelled (a checked subtraction:
\* the vote reverts if it underflows), and the new one is scheduled.
CanCancel(changes, old) == old.end > now => changes[old.end] >= old.slope
\* Fault: the old slope change is taken out at the new end.
Reschedule_AtNewEnd(changes, old, new) ==
  [changes EXCEPT ![new.end] = (@ + new.slope) - (IF old.end > now THEN old.slope ELSE 0)]

Reschedule(changes, old, new) ==
  LET cancelled == IF old.end > now THEN [changes EXCEPT ![old.end] = @ - old.slope]
                   ELSE changes
  IN  [cancelled EXCEPT ![new.end] = @ + new.slope]

VoteForNomineeWeights(u, n, weight) ==
  LET old == voteUserSlopes[u][n]
      new == VoteOf(u, weight)
      powerUsed == voteUserPower[u] + weight - old.power
  IN  /\ mapRemovedNominees[n] = 0
      /\ NextTime < locked[u].endTime
      /\ weight <= MAX_WEIGHT
      /\ lastUserVote[u][n] + WEIGHT_VOTE_DELAY <= now
      /\ powerUsed >= 0 /\ powerUsed <= MAX_WEIGHT
      /\ Known(n)
      /\ CanCancel(changesWeight[n], old) /\ CanCancel(changesSum, old)
      /\ voteUserPower' = [voteUserPower EXCEPT ![u] = powerUsed]
      /\ pointsWeight' = [pointsWeight EXCEPT ![n] = Revote(WalkWeight(n), old, new)]
      /\ timeWeight' = [timeWeight EXCEPT ![n] = WalkWeight(n).time]
      /\ pointsSum' = Revote(WalkSum, old, new)
      /\ timeSum' = WalkSum.time
      /\ changesWeight' = [changesWeight EXCEPT ![n] = Reschedule(@, old, new)]
      /\ changesSum' = Reschedule(changesSum, old, new)
      /\ voteUserSlopes' = [voteUserSlopes EXCEPT ![u][n] = new]
      /\ lastUserVote' = [lastUserVote EXCEPT ![u][n] = now]
      /\ UNCHANGED <<veVars, owner, registryVars>>

\* Fault: the released vote is kept.
RevokeRemovedNomineeVotingPower_Keeps(u, n) ==
  LET old == voteUserSlopes[u][n]
  IN  /\ mapRemovedNominees[n] > 0
      /\ old.power > 0
      /\ voteUserPower[u] >= old.power
      /\ voteUserPower' = [voteUserPower EXCEPT ![u] = @ - old.power]
      /\ UNCHANGED <<veVars, owner, registryVars, voteUserSlopes, lastUserVote,
                     weightVars, sumVars>>

\* After the removal of n its aggregates are settled: only the caller's own
\* power is released.
RevokeRemovedNomineeVotingPower(u, n) ==
  LET old == voteUserSlopes[u][n]
  IN  /\ mapRemovedNominees[n] > 0
      /\ old.power > 0
      /\ voteUserPower[u] >= old.power
      /\ voteUserPower' = [voteUserPower EXCEPT ![u] = @ - old.power]
      /\ voteUserSlopes' = [voteUserSlopes EXCEPT ![u][n] = NoVote]
      /\ UNCHANGED <<veVars, owner, registryVars, lastUserVote, weightVars, sumVars>>

(***************************************************************************)
(* Specification                                                           *)
(***************************************************************************)

OwnerStep(s) ==
  \/ \E o \in Owners \cup {ZeroAccount} : ChangeOwner(s, o)
  \/ \E n \in Nominees : RemoveNominee(s, n)

AnyoneStep ==
  \/ \E account \in Targets \cup {ZeroAccount}, chainId \in ChainIds :
       AddNomineeEVM(account, chainId) \/ AddNomineeNonEVM(account, chainId)
  \/ Checkpoint
  \/ \E n \in Nominees : CheckpointNominee(n)

VoterStep(u) ==
  \E n \in Nominees :
    \/ \E weight \in 0 .. MAX_WEIGHT + 1 : VoteForNomineeWeights(u, n, weight)
    \/ RevokeRemovedNomineeVotingPower(u, n)

VeStep == VeNext /\ UNCHANGED vwVars

Init == VeInit /\ VwInit

Next ==
  \/ VeStep
  \/ \E s \in Owners : OwnerStep(s)
  \/ AnyoneStep
  \/ \E u \in Voters : VoterStep(u)

Spec == Init /\ [][Next]_vars

(***************************************************************************)
(* Views                                                                   *)
(***************************************************************************)

\* _nomineeRelativeWeight divides these two at the week of the given time and
\* caps the quotient at 1.
NomineeBias(n, t) == pointsWeight[n][t].bias
SumBias(t) == pointsSum[t].bias

Active == {n \in Nominees : mapNomineeIds[n] > 0}
Removed == {n \in Nominees : mapRemovedNominees[n] > 0}

(***************************************************************************)
(* Properties                                                              *)
(***************************************************************************)

SumOver(S, f(_)) == SumFunctionOnSet([x \in S |-> f(x)], S)

RegistryTypeOK ==
  /\ setNominees \in Seq(Nominees) /\ setRemovedNominees \in Seq(Nominees)
  /\ mapNomineeIds \in [Nominees -> Nat]
  /\ mapRemovedNominees \in [Nominees -> Nat]

VotesTypeOK ==
  /\ voteUserSlopes \in [Voters -> [Nominees -> VotedSlopes]]
  /\ voteUserPower \in [Voters -> Nat]
  /\ lastUserVote \in [Voters -> [Nominees -> Nat]]

WeightsTypeOK ==
  /\ pointsWeight \in [Nominees -> [Weeks -> Points]]
  /\ changesWeight \in [Nominees -> [Weeks -> Nat]]
  /\ timeWeight \in [Nominees -> Weeks]
  /\ pointsSum \in [Weeks -> Points]
  /\ changesSum \in [Weeks -> Nat]
  /\ timeSum \in Weeks

\* Every variable has its type: the weekly maps stay within their weeks, no bias,
\* slope or power turns negative, and the owner is never the zero address.
TypeOK ==
  /\ VeTypeOK
  /\ owner \in Owners
  /\ RegistryTypeOK
  /\ VotesTypeOK
  /\ WeightsTypeOK

\* A set and its id map are inverse to each other.
Indexed(set, ids) ==
  /\ \A i \in 1 .. Len(set) : ids[set[i]] = i
  /\ \A n \in Nominees : ids[n] > 0 => ids[n] <= Len(set) /\ set[ids[n]] = n

\* After any adds, removals and swaps of the last nominee, both sets match
\* their id maps, no nominee is in both, and the Dispenser was told of exactly
\* the active ones.
RegistryConsistent ==
  /\ Indexed(setNominees, mapNomineeIds)
  /\ Indexed(setRemovedNominees, mapRemovedNominees)
  /\ Active \cap Removed = {}
  /\ dispenserNominees = Active

\* A removal is for good: the removed id never changes, so the nominee is never
\* active again (_addNominee refuses it, the swap of removeNominee must not
\* bring it back).
RemovalIsFinal ==
  [][\A n \in Removed : /\ mapRemovedNominees'[n] = mapRemovedNominees[n]
                        /\ mapNomineeIds'[n] = 0]_vars

\* The power a voter has used is the sum over the votes that stand, on active
\* and removed nominees, and never above MAX_WEIGHT: revoking releases each
\* vote once, re-voting replaces it.
PowerIsVotes ==
  \A u \in Voters :
    /\ voteUserPower[u] = SumOver(Nominees, LAMBDA n : voteUserSlopes[u][n].power)
    /\ voteUserPower[u] <= MAX_WEIGHT

\* What the vote of u on n weighs at week t.
VoteBias(u, n, t) ==
  LET v == voteUserSlopes[u][n] IN IF v.end > t THEN v.slope * (v.end - t) ELSE 0
VoteSlope(u, n, t) ==
  LET v == voteUserSlopes[u][n] IN IF v.end > t THEN v.slope ELSE 0
VoteEnding(u, n, t) ==
  LET v == voteUserSlopes[u][n] IN IF v.end = t THEN v.slope ELSE 0

\* The last point of an active nominee is the sum of the votes on it, and so
\* are its scheduled slope changes: no step, clamped subtraction or skipped
\* week loses or keeps a share of a vote that was replaced or has ended.
WeightIsVotes ==
  \A n \in Active :
    /\ pointsWeight[n][timeWeight[n]] =
         [bias  |-> SumOver(Voters, LAMBDA u : VoteBias(u, n, timeWeight[n])),
          slope |-> SumOver(Voters, LAMBDA u : VoteSlope(u, n, timeWeight[n]))]
    /\ \A t \in Weeks : t > now \/ t > timeWeight[n] =>
         changesWeight[n][t] = SumOver(Voters, LAMBDA u : VoteEnding(u, n, t))

\* The last point of the sum is the sum of the votes on the active nominees, and
\* the slope changes of the sum are theirs: removing a nominee takes out its
\* bias, its slope and its scheduled changes and nothing of the others'.
SumIsVotes ==
  /\ pointsSum[timeSum] =
       [bias  |-> SumOver(Voters \X Active, LAMBDA p : VoteBias(p[1], p[2], timeSum)),
        slope |-> SumOver(Voters \X Active, LAMBDA p : VoteSlope(p[1], p[2], timeSum))]
  /\ \A t \in Weeks : t > timeSum =>
       changesSum[t] = SumOver(Voters \X Active, LAMBDA p : VoteEnding(p[1], p[2], t))

\* In every week, past or next, the nominees' weights add up to no more than the
\* sum, so the Dispenser never pays out more than the whole and the cap of
\* _nomineeRelativeWeight is never needed.
RelativeWeightsAtMostOne ==
  \A t \in Weeks : SumOver(Nominees, LAMBDA n : NomineeBias(n, t)) <= SumBias(t)

\* The points of the weeks that have begun are final once walked: votes,
\* removals and late checkpoints never change a relative weight the Dispenser
\* may already have paid for.
HistoryIsFinal ==
  [][\A t \in Weeks : t <= now =>
       /\ t <= timeSum => pointsSum'[t] = pointsSum[t]
       /\ \A n \in Nominees : t <= timeWeight[n] =>
            pointsWeight'[n][t] = pointsWeight[n][t]]_vars

\* Cancelling a scheduled slope change never underflows, whoever votes next on
\* an active nominee: a checked subtraction that did would lock that vote for good.
VoteNeverUnderflows ==
  \A u \in Voters, n \in Active :
    LET old == voteUserSlopes[u][n]
    IN  /\ CanCancel(changesWeight[n], old)
        /\ CanCancel(changesSum, old)
        /\ voteUserPower[u] >= old.power

\* A vote makes its nominee and the sum current: both are recorded for the coming
\* week ("It is enough to have at least one vote while veOLAS value is greater
\* than zero"). False once nobody has called for MAX_NUM_WEEKS weeks.
OneVoteIsEnough ==
  [][\A u \in Voters, n \in Nominees :
       lastUserVote'[u][n] # lastUserVote[u][n] => timeWeight'[n] > now /\ timeSum' > now]_vars

\* From the next week on the votes of u weigh no more than the lock behind them,
\* although they were cast at different times while the lock grew, ended or was
\* replaced.
VotesBackedByLock ==
  \A u \in Voters, t \in Weeks : t >= NextTime =>
    SumOver(Nominees, LAMBDA n : VoteBias(u, n, t)) <= VotesAt(u, t)
=============================================================================
