---------------------- MODULE VoteWeightingVotesProofs ----------------------
(***************************************************************************)
(* The votes of VoteWeighting for every value of the constants: the power  *)
(* a voter has used, the lock behind its votes, the slope changes they     *)
(* have scheduled, and the points of the nominees and of the sum.          *)
(***************************************************************************)
EXTENDS VoteWeightingProofs

(***************************************************************************)
(* Sums of a measure of the votes: per nominee and over the active ones    *)
(***************************************************************************)

Measures == [VotedSlopes -> Nat]

BiasAt(t) == [v \in VotedSlopes |-> IF v.end > t THEN v.slope * (v.end - t) ELSE 0]
SlopeAt(t) == [v \in VotedSlopes |-> IF v.end > t THEN v.slope ELSE 0]
EndingAt(t) == [v \in VotedSlopes |-> IF v.end = t THEN v.slope ELSE 0]

WeightOf(val, n) == SumFunctionOnSet([u \in Voters |-> val[voteUserSlopes[u][n]]], Voters)
ActiveWeight(val, n) == IF n \in Active THEN WeightOf(val, n) ELSE 0
TotalOf(val) == SumFunctionOnSet([n \in Nominees |-> ActiveWeight(val, n)], Nominees)

LEMMA NomineesFinite == IsFiniteSet(Nominees) /\ IsFiniteSet(Voters)
  <1>1. IsFiniteSet(Targets \cup {ZeroAccount})
    BY ConstantsAssumption, FS_AddElement
  <1> QED BY <1>1, ConstantsAssumption, FS_Product DEF Nominees

LEMMA MeasuresTyped ==
  ASSUME NEW t \in Nat
  PROVE  /\ BiasAt(t) \in Measures /\ SlopeAt(t) \in Measures /\ EndingAt(t) \in Measures
         /\ NoVote \in VotedSlopes
         /\ BiasAt(t)[NoVote] = 0 /\ SlopeAt(t)[NoVote] = 0 /\ EndingAt(t)[NoVote] = 0
  <1>1. NoVote \in VotedSlopes /\ NoVote.slope = 0 /\ NoVote.end = 0
    BY DEF NoVote, VotedSlopes
  <1>2. ASSUME NEW v \in VotedSlopes, v.end > t PROVE v.slope * (v.end - t) \in Nat
    <2>1. v.slope \in Nat /\ v.end - t \in Nat
      BY <1>2 DEF VotedSlopes
    <2> QED BY <2>1
  <1>3. \A v \in VotedSlopes : v.slope \in Nat
    BY DEF VotedSlopes
  <1> QED BY <1>1, <1>2, <1>3 DEF BiasAt, SlopeAt, EndingAt, Measures

LEMMA WeightTyped ==
  ASSUME VotesTypeOK, NEW val \in Measures, NEW n \in Nominees
  PROVE  /\ WeightOf(val, n) \in Nat /\ ActiveWeight(val, n) \in Nat
         /\ \A u \in Voters : val[voteUserSlopes[u][n]] \in Nat /\
                              val[voteUserSlopes[u][n]] <= WeightOf(val, n)
  <1> DEFINE f == [u \in Voters |-> val[voteUserSlopes[u][n]]]
  <1>1. \A u \in Voters : f[u] \in Nat
    BY DEF VotesTypeOK, Measures
  <1> HIDE DEF f
  <1>2. SumFunctionOnSet(f, Voters) \in Nat /\ \A u \in Voters : f[u] <= SumFunctionOnSet(f, Voters)
    BY <1>1, NomineesFinite, SumNat
  <1> QED BY <1>1, <1>2 DEF f, WeightOf, ActiveWeight

LEMMA TotalTyped ==
  ASSUME VotesTypeOK, NEW val \in Measures
  PROVE  /\ TotalOf(val) \in Nat
         /\ \A n \in Active : WeightOf(val, n) <= TotalOf(val)
  <1> DEFINE f == [n \in Nominees |-> ActiveWeight(val, n)]
  <1>1. \A n \in Nominees : f[n] \in Nat
    BY WeightTyped
  <1>2. \A n \in Active : n \in Nominees /\ f[n] = WeightOf(val, n)
    BY DEF Active, ActiveWeight
  <1>3. TotalOf(val) = SumFunctionOnSet(f, Nominees)
    BY DEF TotalOf
  <1> HIDE DEF f
  <1>4. /\ SumFunctionOnSet(f, Nominees) \in Nat
        /\ \A n \in Nominees : f[n] <= SumFunctionOnSet(f, Nominees)
    BY <1>1, NomineesFinite, SumNat
  <1> QED BY <1>2, <1>3, <1>4

\* A measure that is zero for every vote on a nominee.
LEMMA WeightZero ==
  ASSUME NEW val, NEW n, \A u \in Voters : val[voteUserSlopes[u][n]] = 0
  PROVE  WeightOf(val, n) = 0
  BY NomineesFinite, SumZero DEF WeightOf

LEMMA WeightSame ==
  ASSUME NEW val, NEW n, voteUserSlopes' = voteUserSlopes
  PROVE  WeightOf(val, n)' = WeightOf(val, n)
  BY DEF WeightOf

\* One vote is replaced: by a new one, or by none.
LEMMA WeightRevoted ==
  ASSUME VotesTypeOK, VotesTypeOK', NEW val \in Measures, NEW u \in Voters, NEW n \in Nominees,
         NEW new, voteUserSlopes' = [voteUserSlopes EXCEPT ![u][n] = new]
  PROVE  /\ WeightOf(val, n)' = WeightOf(val, n) - val[voteUserSlopes[u][n]] + val[new]
         /\ \A m \in Nominees \ {n} : WeightOf(val, m)' = WeightOf(val, m)
  <1>1. \A w \in Voters, m \in Nominees :
          voteUserSlopes'[w][m] = IF w = u /\ m = n THEN new ELSE voteUserSlopes[w][m]
    BY DEF VotesTypeOK
  <1>2. ASSUME NEW m \in Nominees \ {n} PROVE WeightOf(val, m)' = WeightOf(val, m)
    <2>1. [w \in Voters |-> val[voteUserSlopes'[w][m]]] = [w \in Voters |-> val[voteUserSlopes[w][m]]]
      BY <1>1
    <2> QED BY <2>1 DEF WeightOf
  <1> DEFINE f == [w \in Voters |-> val[voteUserSlopes[w][n]]]
             g == [w \in Voters |-> val[voteUserSlopes'[w][n]]]
  <1>3. /\ \A w \in Voters : f[w] \in Int /\ g[w] \in Int
        /\ \A w \in Voters \ {u} : g[w] = f[w]
    BY <1>1 DEF VotesTypeOK, Measures
  <1>4. f[u] = val[voteUserSlopes[u][n]] /\ g[u] = val[new]
    BY <1>1
  <1>5. /\ WeightOf(val, n)' = SumFunctionOnSet(g, Voters)
        /\ WeightOf(val, n) = SumFunctionOnSet(f, Voters)
    BY DEF WeightOf
  <1> HIDE DEF f, g
  <1>6. SumFunctionOnSet(g, Voters) = SumFunctionOnSet(f, Voters) - f[u] + g[u]
    <2>1. IsFiniteSet(Voters)
      BY NomineesFinite
    <2>2. PICK f1, g1 : f1 = f /\ g1 = g
      OBVIOUS
    <2>3. /\ \A w \in Voters : f1[w] \in Int /\ g1[w] \in Int
          /\ \A w \in Voters \ {u} : g1[w] = f1[w]
      BY <2>2, <1>3
    <2>4. SumFunctionOnSet(g1, Voters) = SumFunctionOnSet(f1, Voters) - f1[u] + g1[u]
      BY <2>1, <2>3, SumUpdate
    <2> QED BY <2>2, <2>4
  <1> QED BY <1>2, <1>4, <1>5, <1>6

\* The total moves with the one nominee whose votes or status a step changes.
LEMMA TotalMoves ==
  ASSUME VotesTypeOK, VotesTypeOK', NEW val \in Measures, NEW n \in Nominees,
         \A m \in Nominees \ {n} : ActiveWeight(val, m)' = ActiveWeight(val, m)
  PROVE  TotalOf(val)' = TotalOf(val) - ActiveWeight(val, n) + ActiveWeight(val, n)'
  <1> DEFINE f == [m \in Nominees |-> ActiveWeight(val, m)]
             g == [m \in Nominees |-> ActiveWeight(val, m)']
  <1>1. \A m \in Nominees : ActiveWeight(val, m) \in Nat
    BY WeightTyped
  <1>2. \A m \in Nominees : ActiveWeight(val, m)' \in Nat
    <2> TAKE m \in Nominees
    <2>1. WeightOf(val, m)' \in Nat
      <3> DEFINE h == [u \in Voters |-> val[voteUserSlopes'[u][m]]]
      <3>1. \A u \in Voters : h[u] \in Nat
        BY DEF VotesTypeOK, Measures
      <3>2. WeightOf(val, m)' = SumFunctionOnSet(h, Voters)
        BY DEF WeightOf
      <3> HIDE DEF h
      <3> QED BY <3>1, <3>2, NomineesFinite, SumNat
    <2> QED BY <2>1 DEF ActiveWeight
  <1>3. /\ \A m \in Nominees : f[m] \in Int /\ g[m] \in Int
        /\ \A m \in Nominees \ {n} : g[m] = f[m]
    BY <1>1, <1>2
  <1>4. f[n] = ActiveWeight(val, n) /\ g[n] = ActiveWeight(val, n)'
    OBVIOUS
  <1>5. /\ TotalOf(val)' = SumFunctionOnSet(g, Nominees)
        /\ TotalOf(val) = SumFunctionOnSet(f, Nominees)
    BY DEF TotalOf
  <1> HIDE DEF f, g
  <1>6. SumFunctionOnSet(g, Nominees) = SumFunctionOnSet(f, Nominees) - f[n] + g[n]
    BY <1>3, NomineesFinite, SumUpdate
  <1> QED BY <1>4, <1>5, <1>6

LEMMA TotalSame ==
  ASSUME NEW val, voteUserSlopes' = voteUserSlopes, mapNomineeIds' = mapNomineeIds
  PROVE  TotalOf(val)' = TotalOf(val)
  BY DEF TotalOf, ActiveWeight, WeightOf, Active

(***************************************************************************)
(* The steps, by what they do to the votes                                 *)
(***************************************************************************)

StillStep == UNCHANGED <<veVars, registryVars, voterVars, weightVars, sumVars>>

LEMMA StepKinds ==
  ASSUME [Next]_vars
  PROVE  \/ VeStep
         \/ StillStep
         \/ Checkpoint
         \/ \E n \in Nominees : CheckpointNominee(n)
         \/ \E n \in Nominees : AddNominee(n)
         \/ \E s \in Owners, n \in Nominees : RemoveNominee(s, n)
         \/ \E u \in Voters, n \in Nominees, w \in 0 .. MAX_WEIGHT + 1 :
              VoteForNomineeWeights(u, n, w)
         \/ \E u \in Voters, n \in Nominees : RevokeRemovedNomineeVotingPower(u, n)
  <1>1. ASSUME NEW s \in Owners, OwnerStep(s)
        PROVE  StillStep \/ \E n \in Nominees : RemoveNominee(s, n)
    BY <1>1 DEF OwnerStep, ChangeOwner, StillStep
  <1>2. ASSUME AnyoneStep
        PROVE  \/ Checkpoint
               \/ \E n \in Nominees : CheckpointNominee(n)
               \/ \E n \in Nominees : AddNominee(n)
    <2>1. ASSUME NEW account \in Targets \cup {ZeroAccount}, NEW chainId \in ChainIds,
                 AddNomineeEVM(account, chainId) \/ AddNomineeNonEVM(account, chainId)
          PROVE  \E n \in Nominees : AddNominee(n)
      <3>1. <<account, chainId>> \in Nominees
        BY DEF Nominees
      <3> QED BY <2>1, <3>1 DEF AddNomineeEVM, AddNomineeNonEVM
    <2> QED BY <1>2, <2>1 DEF AnyoneStep
  <1>3. ASSUME UNCHANGED vars PROVE StillStep
    BY <1>3 DEF vars, vwVars, StillStep
  <1> QED BY <1>1, <1>2, <1>3 DEF Next, VoterStep

\* A step of the locks leaves the votes alone.
LEMMA VeStepFacts ==
  ASSUME VeStep
  PROVE  VeNext /\ UNCHANGED <<registryVars, voterVars, weightVars, sumVars>>
  BY DEF VeStep, vwVars

\* What a vote needs, and what it does to the votes.
LEMMA VoteFacts ==
  ASSUME TypeOK, NEW u \in Voters, NEW n \in Nominees, NEW w \in 0 .. MAX_WEIGHT + 1,
         VoteForNomineeWeights(u, n, w)
  PROVE  /\ n \in Active
         /\ NextTime < locked[u].endTime
         /\ VoteOf(u, w) \in VotedSlopes /\ voteUserSlopes[u][n] \in VotedSlopes
         /\ CanCancel(changesWeight[n], voteUserSlopes[u][n])
         /\ CanCancel(changesSum, voteUserSlopes[u][n])
         /\ voteUserSlopes' = [voteUserSlopes EXCEPT ![u][n] = VoteOf(u, w)]
         /\ UNCHANGED <<veVars, registryVars>>
  <1>1. VoteOf(u, w) \in VotedSlopes
    <2>1. w \in Nat
      BY ConstantsAssumption
    <2> QED BY <2>1, VoteTyped
  <1>2. n \in Active
    BY DEF VoteForNomineeWeights, Known, Active, TypeOK, RegistryTypeOK
  <1> QED BY <1>1, <1>2 DEF VoteForNomineeWeights, TypeOK, VotesTypeOK

\* A revocation drops one vote on a removed nominee.
LEMMA RevokeFacts ==
  ASSUME TypeOK, RegistryInv, NEW u \in Voters, NEW n \in Nominees,
         RevokeRemovedNomineeVotingPower(u, n)
  PROVE  /\ n \notin Active /\ Known(n)
         /\ NoVote \in VotedSlopes /\ voteUserSlopes[u][n] \in VotedSlopes
         /\ voteUserSlopes' = [voteUserSlopes EXCEPT ![u][n] = NoVote]
         /\ UNCHANGED <<veVars, registryVars, weightVars, sumVars>>
  <1>1. mapRemovedNominees[n] > 0
    BY DEF RevokeRemovedNomineeVotingPower
  <1>2. n \notin Active
    BY <1>1 DEF RegistryInv, RegistryConsistent, Removed, Active
  <1> QED BY <1>1, <1>2 DEF RevokeRemovedNomineeVotingPower, Known, TypeOK, VotesTypeOK, NoVote,
                            VotedSlopes

(***************************************************************************)
(* The power that a voter has used                                         *)
(***************************************************************************)

PowerOf(u) == SumFunctionOnSet([n \in Nominees |-> voteUserSlopes[u][n].power], Nominees)
PowerInv == \A u \in Voters : voteUserPower[u] = PowerOf(u) /\ voteUserPower[u] <= MAX_WEIGHT

LEMMA PowerInit == Init => PowerInv
  <1> SUFFICES ASSUME Init, NEW u \in Voters
               PROVE  voteUserPower[u] = PowerOf(u) /\ voteUserPower[u] <= MAX_WEIGHT
    BY DEF PowerInv
  <1> DEFINE f == [n \in Nominees |-> voteUserSlopes[u][n].power]
  <1>1. \A n \in Nominees : f[n] = 0
    BY DEF Init, VwInit, NoVote
  <1>2. PowerOf(u) = SumFunctionOnSet(f, Nominees)
    BY DEF PowerOf
  <1> HIDE DEF f
  <1>3. PowerOf(u) = 0
    BY <1>1, <1>2, NomineesFinite, SumZero
  <1> QED BY <1>3, ConstantsAssumption DEF Init, VwInit

\* A vote is replaced: the power follows if the voter is charged the difference.
LEMMA PowerRevoted ==
  ASSUME TypeOK, VotesTypeOK', NEW u \in Voters, NEW n \in Nominees, NEW new,
         voteUserSlopes' = [voteUserSlopes EXCEPT ![u][n] = new]
  PROVE  /\ PowerOf(u)' = PowerOf(u) - voteUserSlopes[u][n].power + new.power
         /\ \A w \in Voters \ {u} : PowerOf(w)' = PowerOf(w)
  <1>0. VotesTypeOK
    BY DEF TypeOK
  <1>1. \A w \in Voters, m \in Nominees :
          voteUserSlopes'[w][m] = IF w = u /\ m = n THEN new ELSE voteUserSlopes[w][m]
    BY <1>0 DEF VotesTypeOK
  <1>2. ASSUME NEW w \in Voters \ {u} PROVE PowerOf(w)' = PowerOf(w)
    <2>1. voteUserSlopes'[w] = voteUserSlopes[w]
      BY <1>0 DEF VotesTypeOK
    <2> QED BY <2>1 DEF PowerOf
  <1> DEFINE f == [m \in Nominees |-> voteUserSlopes[u][m].power]
             g == [m \in Nominees |-> voteUserSlopes'[u][m].power]
  <1>3. PICK f1, g1 : f1 = f /\ g1 = g
    OBVIOUS
  <1>4. /\ \A m \in Nominees : f1[m] \in Int /\ g1[m] \in Int
        /\ \A m \in Nominees \ {n} : g1[m] = f1[m]
        /\ f1[n] = voteUserSlopes[u][n].power /\ g1[n] = new.power
    BY <1>0, <1>1, <1>3 DEF VotesTypeOK, VotedSlopes
  <1>5. /\ PowerOf(u)' = SumFunctionOnSet(g1, Nominees)
        /\ PowerOf(u) = SumFunctionOnSet(f1, Nominees)
    BY <1>3 DEF PowerOf
  <1>6. SumFunctionOnSet(g1, Nominees) = SumFunctionOnSet(f1, Nominees) - f1[n] + g1[n]
    BY <1>4, NomineesFinite, SumUpdate
  <1> QED BY <1>2, <1>4, <1>5, <1>6

LEMMA PowerNext == TypeOK /\ TypeOK' /\ PowerInv /\ [Next]_vars => PowerInv'
  <1> SUFFICES ASSUME TypeOK, TypeOK', PowerInv, [Next]_vars PROVE PowerInv'
    OBVIOUS
  <1>1. ASSUME UNCHANGED <<voteUserSlopes, voteUserPower>> PROVE PowerInv'
    BY <1>1 DEF PowerInv, PowerOf
  <1>2. ASSUME NEW u \in Voters, NEW n \in Nominees, NEW new \in VotedSlopes, NEW power \in Int,
               voteUserSlopes' = [voteUserSlopes EXCEPT ![u][n] = new],
               voteUserPower' = [voteUserPower EXCEPT ![u] = power],
               power = voteUserPower[u] - voteUserSlopes[u][n].power + new.power,
               power <= MAX_WEIGHT
        PROVE  PowerInv'
    <2>1. VotesTypeOK /\ VotesTypeOK'
      BY DEF TypeOK
    <2>2. \A w \in Voters : voteUserPower'[w] = IF w = u THEN power ELSE voteUserPower[w]
      BY <1>2, <2>1 DEF VotesTypeOK
    <2>3. /\ PowerOf(u)' = PowerOf(u) - voteUserSlopes[u][n].power + new.power
          /\ \A w \in Voters \ {u} : PowerOf(w)' = PowerOf(w)
      BY <1>2, <2>1, PowerRevoted
    <2> QED BY <1>2, <2>2, <2>3 DEF PowerInv
  <1>3. ASSUME NEW u \in Voters, NEW n \in Nominees, NEW w \in 0 .. MAX_WEIGHT + 1,
               VoteForNomineeWeights(u, n, w)
        PROVE  PowerInv'
    <2> DEFINE new == VoteOf(u, w)
               power == voteUserPower[u] + w - voteUserSlopes[u][n].power
    <2>1. /\ new \in VotedSlopes /\ new.power = w /\ voteUserSlopes[u][n].power \in Nat
          /\ voteUserSlopes' = [voteUserSlopes EXCEPT ![u][n] = new]
      BY <1>3, VoteFacts DEF VoteOf, VotedSlopes
    <2>2. voteUserPower' = [voteUserPower EXCEPT ![u] = power] /\ power <= MAX_WEIGHT
      BY <1>3 DEF VoteForNomineeWeights
    <2>3. voteUserPower[u] \in Nat /\ w \in Nat
      BY ConstantsAssumption DEF TypeOK, VotesTypeOK
    <2>4. power \in Int
      BY <2>1, <2>3
    <2>5. power = voteUserPower[u] - voteUserSlopes[u][n].power + new.power
      BY <2>1, <2>3
    <2> HIDE DEF new, power
    <2> QED BY <2>1, <2>2, <2>4, <2>5, <1>2
  <1>4. ASSUME NEW u \in Voters, NEW n \in Nominees, RevokeRemovedNomineeVotingPower(u, n)
        PROVE  PowerInv'
    <2> DEFINE power == voteUserPower[u] - voteUserSlopes[u][n].power
    <2>1. /\ NoVote \in VotedSlopes /\ NoVote.power = 0
          /\ voteUserSlopes[u][n].power \in Nat /\ voteUserPower[u] \in Nat
      BY DEF NoVote, VotedSlopes, TypeOK, VotesTypeOK
    <2>2. /\ voteUserSlopes' = [voteUserSlopes EXCEPT ![u][n] = NoVote]
          /\ voteUserPower' = [voteUserPower EXCEPT ![u] = power]
      BY <1>4 DEF RevokeRemovedNomineeVotingPower
    <2>3. power \in Int /\ power <= MAX_WEIGHT
      BY <2>1, ConstantsAssumption DEF PowerInv
    <2>4. power = voteUserPower[u] - voteUserSlopes[u][n].power + NoVote.power
      BY <2>1
    <2> HIDE DEF power
    <2> QED BY <2>1, <2>2, <2>3, <2>4, <1>2
  <1> QED BY <1>1, <1>3, <1>4, StepKinds DEF VeStep, vwVars, voterVars, StillStep, Checkpoint,
                                            CheckpointNominee, AddNominee, RemoveNominee

\* For any nominees, weights and number of voters: the power of a voter is the sum
\* over its votes on active and removed nominees, and at most MAX_WEIGHT.
THEOREM PowerFollowsVotes == Spec => []PowerIsVotes
  <1>1. PowerInv => PowerIsVotes
    BY DEF PowerInv, PowerOf, PowerIsVotes, SumOver
  <1>2. TypeOK /\ RegistryInv /\ RegistryInv' /\ [Next]_vars => TypeOK'
    BY TypeNext
  <1> QED BY <1>1, <1>2, TypeInit, RegistryInit, RegistryNext, PowerInit, PowerNext, PTL DEF Spec

(***************************************************************************)
(* The lock behind the votes                                               *)
(***************************************************************************)

\* A lock ends in a whole week, at most MAXTIME from now; an empty one has no end.
LockInv ==
  \A u \in Voters : /\ locked[u].endTime \in Weeks
                    /\ locked[u].endTime <= now + MAXTIME
                    /\ locked[u].amount = 0 => locked[u].endTime = 0

\* While a vote runs, the lock ends no earlier and its slope covers the share.
Backed(u, v) ==
  /\ v.end \in Weeks /\ v.end <= now + MAXTIME
  /\ v.end > now => /\ v.end <= locked[u].endTime
                    /\ v.slope * MAX_WEIGHT <= UserSlope(u) * v.power

\* All votes are backed, and only a nominee that was added has any.
BackedInv ==
  \A u \in Voters, n \in Nominees : /\ Backed(u, voteUserSlopes[u][n])
                                    /\ ~Known(n) => voteUserSlopes[u][n] = NoVote

LEMMA DivMonotone ==
  ASSUME NEW j \in Nat, NEW k \in Nat, j <= k, NEW m \in Nat \ {0}
  PROVE  j \div m \in Nat /\ j \div m <= k \div m
  <1>1. /\ j \div m \in Nat /\ k \div m \in Nat
        /\ m * (j \div m) <= j /\ k < m * (k \div m) + m
    OBVIOUS
  <1>2. PICK a, b : a = j \div m /\ b = k \div m
    OBVIOUS
  <1>3. a \in Nat /\ b \in Nat /\ m * a < m * b + m
    BY <1>1, <1>2
  <1>4. a <= b
    <2> SUFFICES ASSUME a >= b + 1 PROVE FALSE
      BY <1>3
    <2>1. m * a >= m * (b + 1)
      BY <1>3
    <2>2. m * (b + 1) = m * b + m
      BY <1>3
    <2> QED BY <2>1, <2>2, <1>3
  <1> QED BY <1>1, <1>2, <1>4

LEMMA ProductMonotone ==
  ASSUME NEW j \in Nat, NEW k \in Nat, j <= k, NEW m \in Nat
  PROVE  j * m <= k * m /\ j * m \in Nat /\ k * m \in Nat
  <1>1. k - j \in Nat /\ (k - j) * m \in Nat
    OBVIOUS
  <1>2. (k - j) * m = k * m - j * m
    OBVIOUS
  <1> QED BY <1>1, <1>2

LEMMA UserSlopeTyped ==
  ASSUME VeTypeOK, NEW u \in Voters
  PROVE  UserSlope(u) \in Nat
  BY LockAssumption, WeekAssumption DEF VeTypeOK, Locks, UserSlope

\* The unlock times of a new lock or an extension.
LEMMA UnlockTimesAreWeeks ==
  ASSUME VeTypeOK, NEW t \in UnlockTimes
  PROVE  t \in Weeks /\ t > now /\ t <= now + MAXTIME
  <1>1. now \in Nat /\ now <= MaxTime /\ t \in Nat /\ t > now /\ t <= now + MAXTIME /\ t % WEEK = 0
    BY TimeAssumption, LockAssumption DEF VeTypeOK, UnlockTimes
  <1>2. t \div WEEK \in Nat /\ t = (t \div WEEK) * WEEK
    BY <1>1, WeekAssumption
  <1>3. t <= MaxTime + MAXTIME + WEEK
    BY <1>1, TimeAssumption, LockAssumption, WeekAssumption
  <1>4. (t \div WEEK) * WEEK \in Weeks
    BY <1>2, <1>3, WholeWeek
  <1> QED BY <1>1, <1>2, <1>4

\* What one step does to a lock: it only grows, unless it has ended.
GrownLock(u, lock) ==
  /\ now' = now /\ locked' = [locked EXCEPT ![u] = lock]
  /\ lock.endTime \in Weeks /\ lock.endTime <= now + MAXTIME
  /\ lock.amount = 0 => lock.endTime = 0
  /\ locked[u].endTime > now => /\ lock.endTime >= locked[u].endTime
                                /\ lock.amount >= locked[u].amount

\* A lock that has not ended only grows.
LEMMA LocksGrow ==
  ASSUME VeTypeOK, LockInv, VeNext
  PROVE  /\ LockInv'
         /\ now' \in Nat /\ now' >= now
         /\ \A u \in Voters : locked[u].endTime > now' =>
              locked'[u].endTime >= locked[u].endTime /\ UserSlope(u)' >= UserSlope(u)
  <1>1. now \in Nat /\ \A u \in Voters : locked[u].amount \in Nat /\ locked[u].endTime \in Nat
    BY TimeAssumption DEF VeTypeOK, Locks
  <1>2. CASE Tick
    <2>1. now' \in Nat /\ now' >= now /\ locked' = locked
      BY <1>1, <1>2, TimeAssumption DEF Tick
    <2>2. LockInv'
      <3>1. \A u \in Voters : locked[u].endTime <= now' + MAXTIME
        BY <1>1, <2>1, LockAssumption DEF LockInv
      <3> QED BY <2>1, <3>1 DEF LockInv
    <2>3. \A u \in Voters : UserSlope(u)' = UserSlope(u) /\ UserSlope(u) \in Nat
      BY <2>1, UserSlopeTyped DEF UserSlope
    <2> QED BY <1>1, <2>1, <2>2, <2>3
  <1>3. ASSUME NEW u \in Voters, NEW lock \in Locks, GrownLock(u, lock)
        PROVE  /\ LockInv'
               /\ \A w \in Voters : locked[w].endTime > now' =>
                    locked'[w].endTime >= locked[w].endTime /\ UserSlope(w)' >= UserSlope(w)
    <2>0. /\ now' = now /\ lock.endTime \in Weeks /\ lock.endTime <= now + MAXTIME
          /\ lock.amount = 0 => lock.endTime = 0
          /\ locked[u].endTime > now => /\ lock.endTime >= locked[u].endTime
                                        /\ lock.amount >= locked[u].amount
      BY <1>3 DEF GrownLock
    <2>1. \A w \in Voters : locked'[w] = IF w = u THEN lock ELSE locked[w]
      BY <1>3 DEF VeTypeOK, GrownLock
    <2>2. LockInv'
      BY <2>0, <2>1 DEF LockInv
    <2>3. ASSUME NEW w \in Voters, locked[w].endTime > now'
          PROVE  locked'[w].endTime >= locked[w].endTime /\ UserSlope(w)' >= UserSlope(w)
      <3>1. CASE w # u
        <4>1. UserSlope(w)' = UserSlope(w) /\ UserSlope(w) \in Nat
          BY <2>1, <3>1, UserSlopeTyped DEF UserSlope
        <4> QED BY <1>1, <2>1, <3>1, <4>1
      <3>2. CASE w = u
        <4>1. lock.amount \in Nat /\ locked[u].amount <= lock.amount
          BY <2>0, <2>3, <3>2, <1>1 DEF Locks
        <4>2. locked[u].amount \div MAXTIME <= lock.amount \div MAXTIME
          BY <4>1, <1>1, LockAssumption, WeekAssumption, DivMonotone
        <4>3. locked'[u] = lock
          BY <2>1
        <4>4. UserSlope(u)' = lock.amount \div MAXTIME
          BY <4>3 DEF UserSlope
        <4>5. UserSlope(u) = locked[u].amount \div MAXTIME /\ UserSlope(u) \in Nat
          BY UserSlopeTyped DEF UserSlope
        <4>6. lock.amount \div MAXTIME \in Nat
          BY <4>1, LockAssumption, WeekAssumption
        <4> QED BY <2>0, <2>3, <3>2, <4>2, <4>3, <4>4, <4>5, <4>6
      <3> QED BY <3>1, <3>2
    <2> QED BY <2>2, <2>3
  <1>4. ASSUME NEW u \in Voters, LockStep(u) PROVE \E lock \in Locks : GrownLock(u, lock)
    <2>1. /\ locked[u].endTime \in Weeks /\ locked[u].endTime <= now + MAXTIME
          /\ locked[u].amount = 0 => locked[u].endTime = 0
          /\ locked[u] \in Locks
      BY DEF LockInv, VeTypeOK
    <2>2. ASSUME NEW x \in Amounts, NEW t \in UnlockTimes, CreateLock(u, x, t)
          PROVE  \E lock \in Locks : GrownLock(u, lock)
      <3> DEFINE lock == [amount |-> x, endTime |-> t]
      <3>1. t \in Weeks /\ t <= now + MAXTIME /\ t \in Nat /\ x \in Nat /\ x # 0
        BY UnlockTimesAreWeeks, WeeksAreTimes, LockAssumption
      <3>2. lock \in Locks /\ GrownLock(u, lock)
        BY <1>1, <2>1, <2>2, <3>1 DEF CreateLock, GrownLock, Locks
      <3> QED BY <3>2
    <2>3. ASSUME NEW x \in Amounts, Deposit(u, x) PROVE \E lock \in Locks : GrownLock(u, lock)
      <3> DEFINE lock == [amount |-> locked[u].amount + x, endTime |-> locked[u].endTime]
      <3>1. x \in Nat /\ x # 0
        BY LockAssumption
      <3>2. locked' = [locked EXCEPT ![u] = lock] /\ now' = now
        <4>1. [locked[u] EXCEPT !.amount = locked[u].amount + x] = lock
          BY <2>1 DEF Locks
        <4>2. locked' = [locked EXCEPT ![u] = [locked[u] EXCEPT !.amount = locked[u].amount + x]]
          BY <2>3 DEF Deposit, VeTypeOK
        <4>3. now' = now
          BY <2>3 DEF Deposit
        <4> QED BY <4>1, <4>2, <4>3
      <3>3. lock \in Locks /\ lock.amount # 0 /\ lock.amount >= locked[u].amount
        BY <1>1, <3>1 DEF Locks
      <3>4. GrownLock(u, lock)
        BY <1>1, <2>1, <3>2, <3>3 DEF GrownLock
      <3> QED BY <3>3, <3>4
    <2>4. ASSUME NEW t \in UnlockTimes, IncreaseUnlockTime(u, t)
          PROVE  \E lock \in Locks : GrownLock(u, lock)
      <3> DEFINE lock == [amount |-> locked[u].amount, endTime |-> t]
      <3>1. t \in Weeks /\ t <= now + MAXTIME /\ t \in Nat
        BY UnlockTimesAreWeeks, WeeksAreTimes
      <3>2. locked' = [locked EXCEPT ![u] = lock] /\ now' = now /\ locked[u].amount > 0
        <4>1. [locked[u] EXCEPT !.endTime = t] = lock
          BY <2>1 DEF Locks
        <4>2. locked' = [locked EXCEPT ![u] = [locked[u] EXCEPT !.endTime = t]]
          BY <2>4 DEF IncreaseUnlockTime, VeTypeOK
        <4>3. now' = now /\ locked[u].amount > 0
          BY <2>4 DEF IncreaseUnlockTime
        <4> QED BY <4>1, <4>2, <4>3
      <3>3. lock \in Locks /\ lock.amount # 0 /\ t > locked[u].endTime
        BY <1>1, <2>4, <3>1, <3>2 DEF Locks, IncreaseUnlockTime
      <3>4. GrownLock(u, lock)
        BY <1>1, <2>1, <3>1, <3>2, <3>3 DEF GrownLock
      <3> QED BY <3>3, <3>4
    <2>5. CASE Withdraw(u)
      <3>1. NoLock \in Locks /\ NoLock.endTime = 0 /\ 0 <= now + MAXTIME
        BY <1>1, LockAssumption DEF NoLock, Locks
      <3>2. 0 \in Weeks
        BY WeekAssumption, ConstantsAssumption DEF Weeks
      <3>3. GrownLock(u, NoLock)
        BY <1>1, <2>5, <3>1, <3>2 DEF Withdraw, GrownLock
      <3> QED BY <3>1, <3>3
    <2> QED BY <1>4, <2>2, <2>3, <2>4, <2>5 DEF LockStep
  <1>5. ASSUME NEW u \in Voters, LockStep(u)
        PROVE  /\ LockInv'
               /\ now' \in Nat /\ now' >= now
               /\ \A w \in Voters : locked[w].endTime > now' =>
                    locked'[w].endTime >= locked[w].endTime /\ UserSlope(w)' >= UserSlope(w)
    <2>1. PICK lock \in Locks : GrownLock(u, lock)
      BY <1>4, <1>5
    <2>2. now' = now
      BY <2>1 DEF GrownLock
    <2> QED BY <1>1, <1>3, <2>1, <2>2
  <1> QED BY <1>2, <1>5 DEF VeNext

LEMMA LockInit == Init => LockInv
  <1> SUFFICES ASSUME Init PROVE LockInv
    OBVIOUS
  <1>1. 0 \in Weeks /\ 0 <= now + MAXTIME
    BY WeekAssumption, ConstantsAssumption, TimeAssumption, LockAssumption DEF Weeks, Init, VeInit
  <1> QED BY <1>1 DEF Init, VeInit, LockInv, NoLock

LEMMA LockNext == TypeOK /\ LockInv /\ [Next]_vars => LockInv'
  <1> SUFFICES ASSUME TypeOK, LockInv, [Next]_vars PROVE LockInv'
    OBVIOUS
  <1>1. ASSUME UNCHANGED veVars PROVE LockInv'
    BY <1>1 DEF veVars, LockInv
  <1>2. CASE VeStep
    BY <1>2, VeStepFacts, LocksGrow DEF TypeOK
  <1> QED BY <1>1, <1>2, StepKinds DEF StillStep, Checkpoint, CheckpointNominee, AddNominee,
            RemoveNominee, VoteForNomineeWeights, RevokeRemovedNomineeVotingPower

\* A new vote takes its share of the lock, rounded down.
LEMMA NewVoteBacked ==
  ASSUME TypeOK, LockInv, NEW u \in Voters, NEW w \in Nat
  PROVE  Backed(u, VoteOf(u, w))
  <1>1. UserSlope(u) \in Nat
    BY UserSlopeTyped DEF TypeOK
  <1>2. UserSlope(u) * w \in Nat
    BY <1>1
  <1>3. ASSUME NEW k \in Nat PROVE (k \div MAX_WEIGHT) * MAX_WEIGHT <= k
    BY ConstantsAssumption
  <1>4. ((UserSlope(u) * w) \div MAX_WEIGHT) * MAX_WEIGHT <= UserSlope(u) * w
    BY <1>2, <1>3
  <1>5. locked[u].endTime \in Nat
    BY DEF TypeOK, VeTypeOK, Locks
  <1>6. /\ VoteOf(u, w).end = locked[u].endTime /\ VoteOf(u, w).power = w
        /\ VoteOf(u, w).slope = (UserSlope(u) * w) \div MAX_WEIGHT
    BY DEF VoteOf
  <1> QED BY <1>4, <1>5, <1>6 DEF Backed, LockInv

LEMMA NoVoteBacked ==
  ASSUME TypeOK, NEW u \in Voters
  PROVE  Backed(u, NoVote)
  <1>1. 0 \in Weeks /\ now \in Nat /\ 0 <= now + MAXTIME
    BY WeekAssumption, ConstantsAssumption, TimeAssumption, LockAssumption
       DEF Weeks, TypeOK, VeTypeOK
  <1> QED BY <1>1 DEF Backed, NoVote

LEMMA BackedInit == Init => BackedInv
  <1> SUFFICES ASSUME Init PROVE BackedInv
    OBVIOUS
  <1>1. TypeOK
    BY TypeInit
  <1> QED BY <1>1, NoVoteBacked DEF Init, VwInit, BackedInv

LEMMA BackedNext == TypeOK /\ TypeOK' /\ RegistryInv /\ LockInv /\ BackedInv /\ [Next]_vars
                      => BackedInv'
  <1> SUFFICES ASSUME TypeOK, TypeOK', RegistryInv, LockInv, BackedInv, [Next]_vars
               PROVE  BackedInv'
    OBVIOUS
  <1>1. ASSUME NEW u, UNCHANGED veVars, NEW v, Backed(u, v) PROVE Backed(u, v)'
    BY <1>1 DEF veVars, Backed, UserSlope
  <1>2. ASSUME UNCHANGED <<veVars, voterVars>>,
               \A n \in Nominees : Known(n) => Known(n)'
        PROVE  BackedInv'
    BY <1>1, <1>2 DEF BackedInv, voterVars
  <1>3. ASSUME UNCHANGED registryVars, NEW n PROVE Known(n)' = Known(n)
    BY <1>3 DEF registryVars, Known
  <1>4. CASE VeStep
    <2>1. VeNext /\ UNCHANGED <<registryVars, voterVars, weightVars, sumVars>>
      BY <1>4, VeStepFacts
    <2>2. /\ now' \in Nat /\ now' >= now /\ now \in Nat
          /\ \A u \in Voters : locked[u].endTime > now' =>
               locked'[u].endTime >= locked[u].endTime /\ UserSlope(u)' >= UserSlope(u)
      BY <2>1, LocksGrow, TimeAssumption DEF TypeOK, VeTypeOK
    <2>3. ASSUME NEW u \in Voters, NEW v \in VotedSlopes, Backed(u, v) PROVE Backed(u, v)'
      <3>1. v.end \in Nat /\ v.slope \in Nat /\ v.power \in Nat
        BY DEF VotedSlopes
      <3>2. v.end \in Weeks /\ v.end <= now' + MAXTIME
        BY <2>2, <2>3, <3>1, LockAssumption DEF Backed
      <3>3. CASE v.end > now'
        <4>1. /\ v.end > now /\ v.end <= locked[u].endTime
              /\ v.slope * MAX_WEIGHT <= UserSlope(u) * v.power
          BY <2>2, <2>3, <3>1, <3>3 DEF Backed
        <4>2. locked[u].endTime \in Nat /\ locked'[u].endTime \in Nat
          BY DEF TypeOK, VeTypeOK, Locks
        <4>3. locked'[u].endTime >= locked[u].endTime /\ UserSlope(u)' >= UserSlope(u)
          BY <2>2, <3>1, <3>3, <4>1, <4>2
        <4>4. UserSlope(u) \in Nat /\ UserSlope(u)' \in Nat
          <5>1. ASSUME NEW k \in Nat PROVE k \div MAXTIME \in Nat
            BY LockAssumption, WeekAssumption
          <5> QED BY <5>1 DEF TypeOK, VeTypeOK, Locks, UserSlope
        <4>5. UserSlope(u) * v.power <= UserSlope(u)' * v.power
          BY <3>1, <4>3, <4>4, ProductMonotone
        <4>6. /\ v.slope * MAX_WEIGHT \in Nat
              /\ UserSlope(u) * v.power \in Nat /\ UserSlope(u)' * v.power \in Nat
          BY <3>1, <4>4, ConstantsAssumption
        <4>7. v.slope * MAX_WEIGHT <= UserSlope(u)' * v.power
          BY <4>1, <4>5, <4>6
        <4>8. v.end <= locked'[u].endTime
          BY <3>1, <4>1, <4>2, <4>3
        <4> QED BY <3>2, <4>7, <4>8 DEF Backed
      <3>4. CASE ~(v.end > now')
        BY <3>2, <3>4 DEF Backed
      <3> QED BY <3>3, <3>4
    <2>4. ASSUME NEW u \in Voters, NEW n \in Nominees
          PROVE  (Backed(u, voteUserSlopes[u][n]) /\ (~Known(n) => voteUserSlopes[u][n] = NoVote))'
      <3>1. voteUserSlopes'[u][n] = voteUserSlopes[u][n]
        BY <2>1 DEF voterVars
      <3>2. PICK v : v = voteUserSlopes[u][n]
        OBVIOUS
      <3>3. v \in VotedSlopes /\ Backed(u, v)
        BY <3>2 DEF TypeOK, VotesTypeOK, BackedInv
      <3>4. Backed(u, v)'
        BY <2>3, <3>3
      <3>5. Backed(u, voteUserSlopes[u][n])'
        BY <3>1, <3>2, <3>4 DEF Backed
      <3> QED BY <2>1, <1>3, <3>1, <3>5 DEF BackedInv
    <2> QED BY <2>4 DEF BackedInv
  <1>5. CASE StillStep \/ Checkpoint \/ \E n \in Nominees : CheckpointNominee(n)
    <2>1. UNCHANGED <<veVars, registryVars, voterVars>>
      BY <1>5 DEF StillStep, Checkpoint, CheckpointNominee
    <2> QED BY <2>1, <1>2, <1>3
  <1>6. ASSUME NEW n \in Nominees, AddNominee(n) PROVE BackedInv'
    <2>1. \A m \in Nominees : Known(m) => Known(m)'
      BY <1>6 DEF AddNominee, Known, TypeOK, RegistryTypeOK
    <2> QED BY <1>2, <1>6, <2>1 DEF AddNominee
  <1>7. ASSUME NEW s \in Owners, NEW n \in Nominees, RemoveNominee(s, n) PROVE BackedInv'
    <2>1. /\ UNCHANGED <<veVars, voterVars>> /\ mapNomineeIds[n] > 0 /\ SwapAndPop(n)
          /\ mapRemovedNominees' = [mapRemovedNominees EXCEPT ![n] = Len(setRemovedNominees) + 1]
      BY <1>7 DEF RemoveNominee
    <2>2. \A m \in Nominees : mapNomineeIds'[m] > 0 <=> mapNomineeIds[m] > 0 /\ m # n
      BY <2>1, IndexedSwapAndPop DEF RegistryInv, RegistryConsistent
    <2>3. \A m \in Nominees : mapRemovedNominees'[m] > 0 <=> mapRemovedNominees[m] > 0 \/ m = n
      BY <2>1 DEF RegistryInv, RegistryTypeOK
    <2> QED BY <1>2, <2>1, <2>2, <2>3 DEF Known
  <1>8. ASSUME NEW u \in Voters, NEW n \in Nominees, NEW new, Backed(u, new), Known(n),
               voteUserSlopes' = [voteUserSlopes EXCEPT ![u][n] = new],
               UNCHANGED <<veVars, registryVars>>
        PROVE  BackedInv'
    <2>1. \A w \in Voters, m \in Nominees :
            voteUserSlopes'[w][m] = IF w = u /\ m = n THEN new ELSE voteUserSlopes[w][m]
      BY <1>8 DEF TypeOK, VotesTypeOK
    <2>2. \A w \in Voters, m \in Nominees : Backed(w, voteUserSlopes'[w][m])
      BY <1>8, <2>1 DEF BackedInv
    <2>3. \A w \in Voters, m \in Nominees : Backed(w, voteUserSlopes[w][m])'
      BY <1>8, <2>2 DEF veVars, Backed, UserSlope
    <2>4. \A w \in Voters, m \in Nominees : ~Known(m)' => voteUserSlopes'[w][m] = NoVote
      BY <1>3, <1>8, <2>1 DEF BackedInv
    <2> QED BY <2>3, <2>4 DEF BackedInv
  <1>9. ASSUME NEW u \in Voters, NEW n \in Nominees, NEW w \in 0 .. MAX_WEIGHT + 1,
               VoteForNomineeWeights(u, n, w)
        PROVE  BackedInv'
    <2>1. PICK new : new = VoteOf(u, w)
      OBVIOUS
    <2>2. Backed(u, new)
      BY <2>1, NewVoteBacked, ConstantsAssumption
    <2>3. /\ Known(n) /\ voteUserSlopes' = [voteUserSlopes EXCEPT ![u][n] = new]
          /\ UNCHANGED <<veVars, registryVars>>
      BY <1>9, <2>1, VoteFacts DEF VoteForNomineeWeights
    <2> QED BY <2>2, <2>3, <1>8
  <1>10. ASSUME NEW u \in Voters, NEW n \in Nominees, RevokeRemovedNomineeVotingPower(u, n)
         PROVE  BackedInv'
    BY <1>8, <1>10, RevokeFacts, NoVoteBacked
  <1> QED BY <1>4, <1>5, <1>6, <1>7, <1>9, <1>10, StepKinds

LEMMA VotesStayWithinLock ==
  ASSUME TypeOK, PowerInv, BackedInv
  PROVE  VotesBackedByLock
  <1> SUFFICES ASSUME NEW u \in Voters, NEW t \in Weeks, t >= NextTime
               PROVE  SumFunctionOnSet([n \in Nominees |-> VoteBias(u, n, t)], Nominees)
                        <= VotesAt(u, t)
    BY DEF VotesBackedByLock, SumOver
  <1>1. t \in Nat /\ now \in Nat /\ t > now
    <2>1. now \in Nat
      BY TimeAssumption DEF TypeOK, VeTypeOK
    <2>2. NextTime \in Weeks /\ NextTime > now
      BY NextTimeIsWeek DEF TypeOK
    <2>3. NextTime \in Nat /\ t \in Nat
      BY <2>2, WeeksAreTimes
    <2> QED BY <2>1, <2>2, <2>3
  <1>2. locked[u].endTime \in Nat /\ UserSlope(u) \in Nat
    BY UserSlopeTyped DEF TypeOK, VeTypeOK, Locks
  <1>3. PICK f : f = [n \in Nominees |-> VoteBias(u, n, t)]
    OBVIOUS
  <1>4. ASSUME NEW n \in Nominees
        PROVE  /\ voteUserSlopes[u][n] \in VotedSlopes
               /\ Backed(u, voteUserSlopes[u][n])
               /\ f[n] = IF voteUserSlopes[u][n].end > t
                         THEN voteUserSlopes[u][n].slope * (voteUserSlopes[u][n].end - t) ELSE 0
    BY <1>3 DEF TypeOK, VotesTypeOK, BackedInv, VoteBias
  <1>5. CASE ~(t < locked[u].endTime)
    <2>1. ASSUME NEW n \in Nominees PROVE f[n] = 0
      <3>1. voteUserSlopes[u][n].end \in Nat
        BY <1>4 DEF VotedSlopes
      <3> QED BY <3>1, <1>1, <1>2, <1>4, <1>5 DEF Backed
    <2>2. SumFunctionOnSet(f, Nominees) = 0
      BY <2>1, NomineesFinite, SumZero
    <2> QED BY <1>3, <1>5, <2>2 DEF VotesAt
  <1>6. CASE t < locked[u].endTime
    <2>1. PICK span \in Nat, worth \in Nat :
            span = locked[u].endTime - t /\ worth = UserSlope(u) * span
      <3>1. locked[u].endTime - t \in Nat
        BY <1>1, <1>2, <1>6
      <3>2. UserSlope(u) * (locked[u].endTime - t) \in Nat
        BY <3>1, <1>2
      <3> QED BY <3>1, <3>2
    <2>2. ASSUME NEW n \in Nominees
          PROVE  /\ f[n] \in Nat /\ voteUserSlopes[u][n].power \in Nat
                 /\ f[n] * MAX_WEIGHT <= voteUserSlopes[u][n].power * worth
      <3>1. PICK v \in VotedSlopes : v = voteUserSlopes[u][n]
        BY <1>4
      <3>2. v.slope \in Nat /\ v.end \in Nat /\ v.power \in Nat
        BY DEF VotedSlopes
      <3>3. CASE ~(v.end > t)
        <4>1. f[n] = 0
          BY <1>4, <3>1, <3>3
        <4>2. v.power * worth \in Nat
          BY <2>1, <3>2
        <4> QED BY <4>1, <4>2, <3>1, <3>2, ConstantsAssumption
      <3>4. CASE v.end > t
        <4>1. f[n] = v.slope * (v.end - t) /\ v.end - t \in Nat
          BY <1>1, <1>4, <3>1, <3>2, <3>4
        <4>2. v.slope * MAX_WEIGHT <= UserSlope(u) * v.power /\ v.end <= locked[u].endTime
          BY <1>1, <1>4, <3>1, <3>2, <3>4 DEF Backed
        <4>3. v.end - t <= span
          BY <1>1, <1>2, <2>1, <3>2, <4>2
        <4>4. PICK left \in Nat : left = v.end - t
          BY <4>1
        <4>5. (v.slope * MAX_WEIGHT) * left <= (UserSlope(u) * v.power) * left
          <5>1. v.slope * MAX_WEIGHT \in Nat /\ UserSlope(u) * v.power \in Nat
            BY <1>2, <3>2, ConstantsAssumption
          <5> QED BY <5>1, <4>2, ProductMonotone
        <4>6. left * (UserSlope(u) * v.power) <= span * (UserSlope(u) * v.power)
          <5>1. UserSlope(u) * v.power \in Nat
            BY <1>2, <3>2
          <5> QED BY <5>1, <4>3, <4>4, <2>1, ProductMonotone
        <4>7. ASSUME NEW a \in Nat, NEW b \in Nat, NEW c \in Nat, NEW d \in Nat, NEW e \in Nat,
                     NEW m \in Nat,
                     (a * m) * b <= (c * d) * b, b * (c * d) <= e * (c * d)
              PROVE  (a * b) * m <= d * (c * e)
          <5>1. (a * b) * m = (a * m) * b
            OBVIOUS
          <5>2. (c * d) * b = b * (c * d)
            OBVIOUS
          <5>3. e * (c * d) = d * (c * e)
            OBVIOUS
          <5>4. (a * m) * b \in Nat /\ b * (c * d) \in Nat /\ e * (c * d) \in Nat
            OBVIOUS
          <5> QED BY <4>7, <5>1, <5>2, <5>3, <5>4
        <4>8. (v.slope * left) * MAX_WEIGHT <= v.power * (UserSlope(u) * span)
          BY <4>5, <4>6, <4>7, <1>2, <2>1, <3>2, ConstantsAssumption
        <4>9. f[n] = v.slope * left /\ v.slope * left \in Nat
          BY <4>1, <4>4, <3>2
        <4> QED BY <2>1, <3>1, <3>2, <4>8, <4>9
      <3> QED BY <3>3, <3>4
    <2>3. PICK g, h, k : /\ g = [n \in Nominees |-> voteUserSlopes[u][n].power]
                         /\ h = [n \in Nominees |-> f[n] * MAX_WEIGHT]
                         /\ k = [n \in Nominees |-> g[n] * worth]
      OBVIOUS
    <2>4. \A n \in Nominees : /\ f[n] \in Int /\ g[n] \in Int
                              /\ h[n] = f[n] * MAX_WEIGHT /\ k[n] = g[n] * worth
                              /\ h[n] <= k[n]
      BY <2>2, <2>3
    <2>5. \A n \in Nominees : h[n] \in Int /\ k[n] \in Int
      BY <2>1, <2>4, ConstantsAssumption
    <2>6. SumFunctionOnSet(h, Nominees) <= SumFunctionOnSet(k, Nominees)
      BY <2>4, <2>5, NomineesFinite, SumMonotone
    <2>7. SumFunctionOnSet(h, Nominees) = SumFunctionOnSet(f, Nominees) * MAX_WEIGHT
      BY <2>4, NomineesFinite, ConstantsAssumption, SumScale
    <2>8. SumFunctionOnSet(k, Nominees) = SumFunctionOnSet(g, Nominees) * worth
      BY <2>1, <2>4, NomineesFinite, SumScale
    <2>9. SumFunctionOnSet(f, Nominees) \in Nat
      BY <2>2, NomineesFinite, SumNat
    <2>10. SumFunctionOnSet(g, Nominees) \in Nat /\ SumFunctionOnSet(g, Nominees) <= MAX_WEIGHT
      <3>1. SumFunctionOnSet(g, Nominees) = voteUserPower[u] /\ voteUserPower[u] <= MAX_WEIGHT
        BY <2>3 DEF PowerInv, PowerOf
      <3> QED BY <3>1 DEF TypeOK, VotesTypeOK
    <2>11. ASSUME NEW a \in Nat, NEW b \in Nat, NEW c \in Nat, NEW m \in Nat \ {0},
                  a * m <= b * c, b <= m
           PROVE  a <= c
      <3> SUFFICES ASSUME a >= c + 1 PROVE FALSE
        OBVIOUS
      <3>1. b * c <= m * c
        BY <2>11, ProductMonotone
      <3>2. (c + 1) * m <= a * m
        BY <2>11, ProductMonotone
      <3>3. (c + 1) * m = m * c + m /\ m * c \in Nat /\ b * c \in Nat /\ a * m \in Nat
        OBVIOUS
      <3> QED BY <2>11, <3>1, <3>2, <3>3
    <2>12. SumFunctionOnSet(f, Nominees) <= worth
      BY <2>1, <2>6, <2>7, <2>8, <2>9, <2>10, <2>11, ConstantsAssumption
    <2> QED BY <1>3, <1>6, <2>1, <2>12 DEF VotesAt
  <1> QED BY <1>5, <1>6

\* For any locks, weights and times of the votes: from the next week on the votes of
\* an account weigh no more than its lock, however it grew, ended or was replaced.
THEOREM VotesNeverExceedLock == Spec => []VotesBackedByLock
  <1>1. TypeOK /\ RegistryInv /\ RegistryInv' /\ [Next]_vars => TypeOK'
    BY TypeNext
  <1>2. TypeOK /\ PowerInv /\ BackedInv => VotesBackedByLock
    BY VotesStayWithinLock
  <1> QED BY <1>1, <1>2, TypeInit, RegistryInit, RegistryNext, PowerInit, PowerNext, LockInit,
             LockNext, BackedInit, BackedNext, PTL DEF Spec

(***************************************************************************)
(* The recorded weeks                                                      *)
(***************************************************************************)

LEMMA NextTimeFacts ==
  ASSUME TypeOK
  PROVE  now \in Nat /\ NextTime \in Weeks /\ NextTime \in Nat /\ NextTime > now
  <1>1. now \in Nat
    BY TimeAssumption DEF TypeOK, VeTypeOK
  <1>2. NextTime \in Weeks /\ NextTime > now
    BY NextTimeIsWeek DEF TypeOK
  <1> QED BY <1>1, <1>2, WeeksAreTimes

\* A walk writes no week up to the one it starts from.
LEMMA WalkKeeps ==
  ASSUME NEW points \in [Weeks -> Points], NEW changes, NEW last \in Weeks
  PROVE  \A t \in Weeks : t <= last => Walk(points, changes, last).points[t] = points[t]
  <1>1. ASSUME NEW t \in Weeks, t <= last PROVE ~(t > last)
    BY <1>1, WeeksAreTimes
  <1> QED BY <1>1 DEF Walk

LEMMA RevoteKeeps ==
  ASSUME NEW walk, NEW old, NEW new, NEW t, t # NextTime
  PROVE  Revote(walk, old, new)[t] = walk.points[t]
  BY DEF Revote

LEMMA HistoryStep ==
  TypeOK /\ [Next]_vars =>
    \A t \in Weeks : t <= now =>
      /\ t <= timeSum => pointsSum'[t] = pointsSum[t]
      /\ \A n \in Nominees : t <= timeWeight[n] => pointsWeight'[n][t] = pointsWeight[n][t]
  <1> SUFFICES ASSUME TypeOK, [Next]_vars, NEW t \in Weeks, t <= now
               PROVE  /\ t <= timeSum => pointsSum'[t] = pointsSum[t]
                      /\ \A n \in Nominees : t <= timeWeight[n] =>
                           pointsWeight'[n][t] = pointsWeight[n][t]
    OBVIOUS
  <1>0. WeightsTypeOK
    BY DEF TypeOK
  <1>1. t # NextTime
    <2>1. now \in Nat /\ NextTime \in Nat /\ NextTime > now
      BY NextTimeFacts
    <2> QED BY <2>1
  <1>2. t <= timeSum => WalkSum.points[t] = pointsSum[t]
    BY <1>0, WalkKeeps DEF WalkSum, WeightsTypeOK
  <1>3. \A n \in Nominees : t <= timeWeight[n] => WalkWeight(n).points[t] = pointsWeight[n][t]
    BY <1>0, WalkKeeps DEF WalkWeight, WeightsTypeOK
  <1>4. ASSUME NEW n \in Nominees, NEW points, pointsWeight' = [pointsWeight EXCEPT ![n] = points],
               points[t] = WalkWeight(n).points[t]
        PROVE  \A m \in Nominees : t <= timeWeight[m] => pointsWeight'[m][t] = pointsWeight[m][t]
    BY <1>0, <1>3, <1>4 DEF WeightsTypeOK
  <1>5. CASE UNCHANGED <<pointsSum, pointsWeight>>
    BY <1>5
  <1>6. CASE Checkpoint
    BY <1>2, <1>6 DEF Checkpoint, weightVars
  <1>7. ASSUME NEW n \in Nominees, CheckpointNominee(n)
        PROVE  /\ t <= timeSum => pointsSum'[t] = pointsSum[t]
               /\ \A m \in Nominees : t <= timeWeight[m] =>
                    pointsWeight'[m][t] = pointsWeight[m][t]
    BY <1>2, <1>4, <1>7 DEF CheckpointNominee
  <1>8. ASSUME NEW s \in Owners, NEW n \in Nominees, RemoveNominee(s, n)
        PROVE  /\ t <= timeSum => pointsSum'[t] = pointsSum[t]
               /\ \A m \in Nominees : t <= timeWeight[m] =>
                    pointsWeight'[m][t] = pointsWeight[m][t]
    <2>1. PICK points : /\ points = [WalkWeight(n).points EXCEPT ![NextTime] = NoPoint]
                        /\ pointsWeight' = [pointsWeight EXCEPT ![n] = points]
      BY <1>8 DEF RemoveNominee
    <2>2. points[t] = WalkWeight(n).points[t]
      BY <1>1, <2>1
    <2>3. \E x : pointsSum' = [WalkSum.points EXCEPT ![NextTime] = x]
      BY <1>8 DEF RemoveNominee
    <2>4. pointsSum'[t] = WalkSum.points[t]
      BY <1>1, <2>3
    <2> QED BY <1>2, <1>4, <2>1, <2>2, <2>4
  <1>9. ASSUME NEW u \in Voters, NEW n \in Nominees, NEW w \in 0 .. MAX_WEIGHT + 1,
               VoteForNomineeWeights(u, n, w)
        PROVE  /\ t <= timeSum => pointsSum'[t] = pointsSum[t]
               /\ \A m \in Nominees : t <= timeWeight[m] =>
                    pointsWeight'[m][t] = pointsWeight[m][t]
    <2>1. PICK old, new :
            /\ pointsWeight' = [pointsWeight EXCEPT ![n] = Revote(WalkWeight(n), old, new)]
            /\ pointsSum' = Revote(WalkSum, old, new)
      BY <1>9 DEF VoteForNomineeWeights
    <2>2. Revote(WalkWeight(n), old, new)[t] = WalkWeight(n).points[t]
      BY <1>1, RevoteKeeps
    <2>3. pointsSum'[t] = WalkSum.points[t]
      BY <1>1, <2>1, RevoteKeeps
    <2> QED BY <1>2, <1>4, <2>1, <2>2, <2>3
  <1> QED BY <1>5, <1>6, <1>7, <1>8, <1>9, StepKinds
            DEF VeStep, vwVars, StillStep, weightVars, sumVars, AddNominee,
                RevokeRemovedNomineeVotingPower

\* For any votes, removals and late checkpoints: the recorded points of the weeks that
\* have begun never change again.
THEOREM HistoryStaysFinal == Spec => HistoryIsFinal
  <1>1. TypeOK /\ RegistryInv /\ RegistryInv' /\ [Next]_vars => TypeOK'
    BY TypeNext
  <1>2. TypeOK /\ [Next]_vars =>
          [\A t \in Weeks : t <= now =>
             /\ t <= timeSum => pointsSum'[t] = pointsSum[t]
             /\ \A n \in Nominees : t <= timeWeight[n] =>
                  pointsWeight'[n][t] = pointsWeight[n][t]]_vars
    BY HistoryStep
  <1> QED BY <1>1, <1>2, TypeInit, RegistryInit, RegistryNext, PTL DEF Spec, HistoryIsFinal

(***************************************************************************)
(* The scheduled slope changes                                             *)
(***************************************************************************)

\* The slope changes ahead are those of the votes: exactly for an active nominee, and
\* for the sum from the week after the next one on. In the next week the sum may
\* still carry the slope of a nominee that has been removed.
ChangesInv ==
  /\ \A n \in Nominees, t \in Weeks : ~Known(n) => changesWeight[n][t] = 0
  /\ \A n \in Active, t \in Weeks : t > now => changesWeight[n][t] = WeightOf(EndingAt(t), n)
  /\ \A t \in Weeks : t > now => changesSum[t] >= TotalOf(EndingAt(t))
  /\ \A t \in Weeks : t > NextTime => changesSum[t] = TotalOf(EndingAt(t))

\* No vote on a nominee that was never added, or that has just been.
LEMMA UnknownWeighsNothing ==
  ASSUME TypeOK, BackedInv, NEW n \in Nominees, ~Known(n), NEW val, val[NoVote] = 0
  PROVE  WeightOf(val, n) = 0
  <1>1. \A u \in Voters : val[voteUserSlopes[u][n]] = 0
    BY DEF BackedInv
  <1> QED BY <1>1, WeightZero

\* Without votes and active nominees the totals are zero.
LEMMA NothingActive ==
  ASSUME Active = {}, NEW val
  PROVE  TotalOf(val) = 0
  <1>1. \A n \in Nominees : ActiveWeight(val, n) = 0
    BY DEF ActiveWeight
  <1>2. PICK f : f = [n \in Nominees |-> ActiveWeight(val, n)]
    OBVIOUS
  <1>3. SumFunctionOnSet(f, Nominees) = 0
    BY <1>1, <1>2, NomineesFinite, SumZero
  <1> QED BY <1>2, <1>3 DEF TotalOf

LEMMA ChangesInit == Init => ChangesInv
  <1> SUFFICES ASSUME Init PROVE ChangesInv
    OBVIOUS
  <1>1. Active = {}
    BY DEF Init, VwInit, Active
  <1>2. \A t : TotalOf(EndingAt(t)) = 0
    BY <1>1, NothingActive
  <1> QED BY <1>1, <1>2 DEF Init, VwInit, ChangesInv

\* What a vote, a revocation, an addition and a removal do to the sums of a measure.
LEMMA VoteMoves ==
  ASSUME TypeOK, TypeOK', NEW u \in Voters, NEW n \in Nominees, NEW w \in 0 .. MAX_WEIGHT + 1,
         VoteForNomineeWeights(u, n, w), NEW val \in Measures, NEW old, NEW new,
         old = voteUserSlopes[u][n], new = VoteOf(u, w)
  PROVE  /\ WeightOf(val, n)' = WeightOf(val, n) - val[old] + val[new]
         /\ \A m \in Nominees \ {n} : WeightOf(val, m)' = WeightOf(val, m)
         /\ TotalOf(val)' = TotalOf(val) - val[old] + val[new]
         /\ Active' = Active
  <1>1. VotesTypeOK /\ VotesTypeOK'
    BY DEF TypeOK
  <1>2. /\ n \in Active /\ UNCHANGED registryVars
        /\ voteUserSlopes' = [voteUserSlopes EXCEPT ![u][n] = new]
        /\ old \in VotedSlopes /\ new \in VotedSlopes
    BY VoteFacts
  <1>3. Active' = Active
    BY <1>2 DEF registryVars, Active
  <1>4. /\ WeightOf(val, n)' = WeightOf(val, n) - val[old] + val[new]
        /\ \A m \in Nominees \ {n} : WeightOf(val, m)' = WeightOf(val, m)
    BY <1>1, <1>2, WeightRevoted
  <1>5. \A m \in Nominees \ {n} : ActiveWeight(val, m)' = ActiveWeight(val, m)
    BY <1>3, <1>4 DEF ActiveWeight
  <1>6. TotalOf(val)' = TotalOf(val) - ActiveWeight(val, n) + ActiveWeight(val, n)'
    BY <1>1, <1>5, TotalMoves
  <1>7. ActiveWeight(val, n) = WeightOf(val, n) /\ ActiveWeight(val, n)' = WeightOf(val, n)'
    BY <1>2, <1>3 DEF ActiveWeight
  <1>8. /\ WeightOf(val, n) \in Nat /\ TotalOf(val) \in Nat
        /\ val[old] \in Nat /\ val[new] \in Nat
    BY <1>1, <1>2, WeightTyped, TotalTyped DEF Measures
  <1> QED BY <1>3, <1>4, <1>6, <1>7, <1>8

LEMMA RevokeMoves ==
  ASSUME TypeOK, TypeOK', RegistryInv, NEW u \in Voters, NEW n \in Nominees,
         RevokeRemovedNomineeVotingPower(u, n), NEW val \in Measures
  PROVE  /\ \A m \in Active : WeightOf(val, m)' = WeightOf(val, m)
         /\ TotalOf(val)' = TotalOf(val)
         /\ Active' = Active
  <1>1. VotesTypeOK /\ VotesTypeOK'
    BY DEF TypeOK
  <1>2. /\ n \notin Active /\ UNCHANGED registryVars
        /\ voteUserSlopes' = [voteUserSlopes EXCEPT ![u][n] = NoVote]
    BY RevokeFacts
  <1>3. Active' = Active
    BY <1>2 DEF registryVars, Active
  <1>4. \A m \in Nominees \ {n} : WeightOf(val, m)' = WeightOf(val, m)
    BY <1>1, <1>2, WeightRevoted
  <1>5. \A m \in Nominees \ {n} : ActiveWeight(val, m)' = ActiveWeight(val, m)
    BY <1>3, <1>4 DEF ActiveWeight
  <1>6. TotalOf(val)' = TotalOf(val) - ActiveWeight(val, n) + ActiveWeight(val, n)'
    BY <1>1, <1>5, TotalMoves
  <1>7. ActiveWeight(val, n) = 0 /\ ActiveWeight(val, n)' = 0
    BY <1>2, <1>3 DEF ActiveWeight
  <1>8. TotalOf(val) \in Nat
    BY <1>1, TotalTyped
  <1> QED BY <1>2, <1>3, <1>4, <1>6, <1>7, <1>8 DEF Active

LEMMA AddMoves ==
  ASSUME TypeOK, TypeOK', BackedInv, NEW n \in Nominees, AddNominee(n),
         NEW val \in Measures, val[NoVote] = 0
  PROVE  /\ \A m \in Nominees : WeightOf(val, m)' = WeightOf(val, m)
         /\ WeightOf(val, n) = 0
         /\ TotalOf(val)' = TotalOf(val)
         /\ Active' = Active \cup {n} /\ n \notin Active /\ ~Known(n)
  <1>1. VotesTypeOK /\ VotesTypeOK'
    BY DEF TypeOK
  <1>2. /\ voteUserSlopes' = voteUserSlopes /\ ~Known(n) /\ n \notin Active
        /\ Active' = Active \cup {n}
    BY DEF AddNominee, voterVars, Known, Active, TypeOK, RegistryTypeOK
  <1>3. \A m \in Nominees : WeightOf(val, m)' = WeightOf(val, m)
    BY <1>2, WeightSame
  <1>4. WeightOf(val, n) = 0
    BY <1>2, UnknownWeighsNothing
  <1>5. \A m \in Nominees \ {n} : ActiveWeight(val, m)' = ActiveWeight(val, m)
    BY <1>2, <1>3 DEF ActiveWeight
  <1>6. TotalOf(val)' = TotalOf(val) - ActiveWeight(val, n) + ActiveWeight(val, n)'
    BY <1>1, <1>5, TotalMoves
  <1>7. ActiveWeight(val, n) = 0 /\ ActiveWeight(val, n)' = 0
    BY <1>2, <1>3, <1>4 DEF ActiveWeight
  <1>8. TotalOf(val) \in Nat
    BY <1>1, TotalTyped
  <1> QED BY <1>2, <1>3, <1>4, <1>6, <1>7, <1>8

LEMMA RemoveMoves ==
  ASSUME TypeOK, TypeOK', RegistryInv, NEW s \in Owners, NEW n \in Nominees,
         RemoveNominee(s, n), NEW val \in Measures
  PROVE  /\ \A m \in Nominees : WeightOf(val, m)' = WeightOf(val, m)
         /\ TotalOf(val)' = TotalOf(val) - WeightOf(val, n)
         /\ Active' = Active \ {n} /\ n \in Active
         /\ \A m \in Nominees : Known(m)' <=> Known(m)
  <1>1. VotesTypeOK /\ VotesTypeOK'
    BY DEF TypeOK
  <1>2. /\ voteUserSlopes' = voteUserSlopes /\ mapNomineeIds[n] > 0 /\ SwapAndPop(n)
        /\ mapRemovedNominees' = [mapRemovedNominees EXCEPT ![n] = Len(setRemovedNominees) + 1]
    BY DEF RemoveNominee, voterVars
  <1>3. \A m \in Nominees : mapNomineeIds'[m] > 0 <=> mapNomineeIds[m] > 0 /\ m # n
    BY <1>2, IndexedSwapAndPop DEF RegistryInv, RegistryConsistent
  <1>4. Active' = Active \ {n} /\ n \in Active
    BY <1>2, <1>3 DEF Active
  <1>5. \A m \in Nominees : Known(m)' <=> Known(m)
    <2>1. \A m \in Nominees : mapRemovedNominees'[m] > 0 <=> mapRemovedNominees[m] > 0 \/ m = n
      BY <1>2 DEF RegistryInv, RegistryTypeOK
    <2> QED BY <1>2, <1>3, <2>1 DEF Known
  <1>6. \A m \in Nominees : WeightOf(val, m)' = WeightOf(val, m)
    BY <1>2, WeightSame
  <1>7. \A m \in Nominees \ {n} : ActiveWeight(val, m)' = ActiveWeight(val, m)
    BY <1>4, <1>6 DEF ActiveWeight
  <1>8. TotalOf(val)' = TotalOf(val) - ActiveWeight(val, n) + ActiveWeight(val, n)'
    BY <1>1, <1>7, TotalMoves
  <1>9. ActiveWeight(val, n) = WeightOf(val, n) /\ ActiveWeight(val, n)' = 0
    BY <1>4 DEF ActiveWeight
  <1>10. TotalOf(val) \in Nat /\ WeightOf(val, n) \in Nat
    BY <1>1, TotalTyped, WeightTyped
  <1> QED BY <1>4, <1>5, <1>6, <1>8, <1>9, <1>10

\* What rescheduling a vote does to the changes that lie ahead.
LEMMA RescheduleAhead ==
  ASSUME NEW changes \in [Weeks -> Nat], NEW old \in VotedSlopes, NEW new \in VotedSlopes,
         CanCancel(changes, old), now \in Nat, NEW t \in Weeks, t > now
  PROVE  Reschedule(changes, old, new)[t] = changes[t] - EndingAt(t)[old] + EndingAt(t)[new]
  <1>1. /\ old.slope \in Nat /\ new.slope \in Nat /\ changes[t] \in Nat
        /\ EndingAt(t)[old] = IF old.end = t THEN old.slope ELSE 0
        /\ EndingAt(t)[new] = IF new.end = t THEN new.slope ELSE 0
    BY DEF VotedSlopes, EndingAt
  <1>2. PICK cancelled : cancelled = IF old.end > now THEN [changes EXCEPT ![old.end] = @ - old.slope]
                                     ELSE changes
    OBVIOUS
  <1>3. DOMAIN cancelled = Weeks /\ cancelled[t] = changes[t] - EndingAt(t)[old]
    <2>1. CASE old.end = t
      BY <1>1, <1>2, <2>1
    <2>2. CASE old.end # t
      BY <1>1, <1>2, <2>2
    <2> QED BY <2>1, <2>2
  <1>4. Reschedule(changes, old, new) = [cancelled EXCEPT ![new.end] = @ + new.slope]
    BY <1>2 DEF Reschedule
  <1>5. cancelled[t] \in Int
    BY <1>1, <1>3
  <1>6. CASE new.end = t
    BY <1>1, <1>3, <1>4, <1>6
  <1>7. CASE new.end # t
    BY <1>1, <1>3, <1>4, <1>5, <1>7
  <1> QED BY <1>6, <1>7

\* A vote that has been cast ends at most MAXTIME from now.
LEMMA NothingEndsLater ==
  ASSUME TypeOK, BackedInv, NEW n \in Nominees, NEW t \in Nat, t > now + MAXTIME
  PROVE  WeightOf(EndingAt(t), n) = 0
  <1>1. ASSUME NEW u \in Voters PROVE EndingAt(t)[voteUserSlopes[u][n]] = 0
    <2>1. voteUserSlopes[u][n] \in VotedSlopes /\ voteUserSlopes[u][n].end <= now + MAXTIME
      BY DEF BackedInv, Backed, TypeOK, VotesTypeOK
    <2>2. voteUserSlopes[u][n].end # t
      <3>1. voteUserSlopes[u][n].end \in Nat /\ now + MAXTIME \in Nat
        BY <2>1, NextTimeFacts, LockAssumption DEF VotedSlopes
      <3> QED BY <2>1, <3>1
    <2> QED BY <2>1, <2>2 DEF EndingAt
  <1>2. PICK val : val = EndingAt(t)
    OBVIOUS
  <1> QED BY <1>1, <1>2, WeightZero

\* The first part of the invariant about a nominee's slope changes, and the last two
\* about those of the sum, for one week.
ChangesOf(n, t) == /\ ~Known(n) => changesWeight[n][t] = 0
                   /\ n \in Active /\ t > now => changesWeight[n][t] = WeightOf(EndingAt(t), n)
ChangesAll(t) == /\ t > now => changesSum[t] >= TotalOf(EndingAt(t))
                 /\ t > NextTime => changesSum[t] = TotalOf(EndingAt(t))

LEMMA ChangesByWeek ==
  ChangesInv <=> \A t \in Weeks : ChangesAll(t) /\ \A n \in Nominees : ChangesOf(n, t)
  BY DEF ChangesInv, ChangesAll, ChangesOf, Active

LEMMA ChangesRemove ==
  ASSUME TypeOK, TypeOK', RegistryInv, BackedInv, ChangesInv, NEW s \in Owners,
         NEW n \in Nominees, RemoveNominee(s, n)
  PROVE  ChangesInv'
  <1> SUFFICES ASSUME NEW t \in Weeks
               PROVE  ChangesAll(t)' /\ \A m \in Nominees : ChangesOf(m, t)'
    BY DEF ChangesInv, ChangesAll, ChangesOf, Active
  <1>1. PICK val \in Measures : val = EndingAt(t)
    BY WeeksAreTimes, MeasuresTyped
  <1>2. /\ \A m \in Nominees : WeightOf(val, m)' = WeightOf(val, m)
        /\ TotalOf(val)' = TotalOf(val) - WeightOf(val, n)
        /\ Active' = Active \ {n} /\ n \in Active
        /\ \A m \in Nominees : Known(m)' <=> Known(m)
    BY RemoveMoves
  <1>3. /\ now' = now /\ NextTime' = NextTime /\ now \in Nat /\ NextTime \in Nat
        /\ NextTime > now /\ t \in Nat
    BY NextTimeFacts, WeeksAreTimes DEF RemoveNominee, veVars, NextTime
  <1>4. /\ ChangesAll(t) /\ \A m \in Nominees : ChangesOf(m, t)
    BY ChangesByWeek
  <1>5. /\ TotalOf(val) \in Nat /\ WeightOf(val, n) \in Nat /\ WeightOf(val, n) <= TotalOf(val)
        /\ changesSum[t] \in Nat /\ changesWeight[n][t] \in Nat
    BY <1>2, TotalTyped, WeightTyped DEF TypeOK, WeightsTypeOK
  <1>6. /\ changesSum'[t] = IF t \in StrippedWeeks THEN MaxAndSub(changesSum[t], changesWeight[n][t])
                            ELSE changesSum[t]
        /\ \A m \in Nominees : changesWeight'[m][t] =
             IF m = n /\ t \in StrippedWeeks THEN 0 ELSE changesWeight[m][t]
    BY DEF RemoveNominee, TypeOK, WeightsTypeOK
  <1>7. ASSUME NEW m \in Nominees PROVE ChangesOf(m, t)'
    <2>1. CASE m = n
      BY <1>2, <2>1 DEF ChangesOf, Known, Active
    <2>2. CASE m # n
      BY <1>1, <1>2, <1>3, <1>4, <1>6, <2>2 DEF ChangesOf
    <2> QED BY <2>1, <2>2
  <1>8. CASE t \in StrippedWeeks
    <2>1. t > NextTime /\ t > now
      BY <1>3, <1>8 DEF StrippedWeeks
    <2>2. changesSum[t] = TotalOf(val) /\ changesWeight[n][t] = WeightOf(val, n)
      BY <1>1, <1>2, <1>4, <2>1 DEF ChangesAll, ChangesOf
    <2>3. changesSum'[t] = TotalOf(val) - WeightOf(val, n)
      BY <1>5, <1>6, <1>8, <2>2 DEF MaxAndSub
    <2>4. changesSum'[t] = TotalOf(val)' /\ changesSum'[t] \in Nat
      BY <1>2, <1>5, <2>3
    <2> QED BY <1>1, <1>7, <2>4 DEF ChangesAll
  <1>9. CASE t \notin StrippedWeeks
    <2>1. changesSum'[t] = changesSum[t]
      BY <1>6, <1>9
    <2>2. t > NextTime => TotalOf(val)' = TotalOf(val)
      <3> SUFFICES ASSUME t > NextTime PROVE TotalOf(val)' = TotalOf(val)
        OBVIOUS
      <3>1. t > NextTime + MAX_NUM_WEEKS * WEEK
        <4>1. MAX_NUM_WEEKS * WEEK \in Nat
          BY ConstantsAssumption, WeekAssumption
        <4> QED BY <1>3, <1>9, <4>1 DEF StrippedWeeks
      <3>2. t > now + MAXTIME
        <4>1. MAX_NUM_WEEKS * WEEK \in Nat /\ MAX_NUM_WEEKS * WEEK > MAXTIME /\ MAXTIME \in Nat
          BY ConstantsAssumption, WeekAssumption, HorizonAssumption, LockAssumption
        <4> QED BY <1>3, <3>1, <4>1
      <3>3. WeightOf(val, n) = 0
        BY <1>1, <1>3, <3>2, NothingEndsLater
      <3> QED BY <1>2, <1>5, <3>3
    <2>3. t > now => changesSum[t] >= TotalOf(val)
      BY <1>1, <1>4 DEF ChangesAll
    <2>4. t > NextTime => changesSum[t] = TotalOf(val)
      BY <1>1, <1>4 DEF ChangesAll
    <2>5. t > now => changesSum'[t] >= TotalOf(val)'
      BY <1>2, <1>5, <2>1, <2>3
    <2> QED BY <1>1, <1>3, <1>7, <2>1, <2>2, <2>4, <2>5 DEF ChangesAll
  <1> QED BY <1>8, <1>9

LEMMA ChangesVote ==
  ASSUME TypeOK, TypeOK', RegistryInv, ChangesInv, NEW u \in Voters, NEW n \in Nominees,
         NEW w \in 0 .. MAX_WEIGHT + 1, VoteForNomineeWeights(u, n, w)
  PROVE  ChangesInv'
  <1> SUFFICES ASSUME NEW t \in Weeks
               PROVE  ChangesAll(t)' /\ \A m \in Nominees : ChangesOf(m, t)'
    BY DEF ChangesInv, ChangesAll, ChangesOf, Active
  <1>1. PICK val \in Measures : val = EndingAt(t)
    BY WeeksAreTimes, MeasuresTyped
  <1>2. PICK old, new : old = voteUserSlopes[u][n] /\ new = VoteOf(u, w)
    OBVIOUS
  <1>3. /\ WeightOf(val, n)' = WeightOf(val, n) - val[old] + val[new]
        /\ \A m \in Nominees \ {n} : WeightOf(val, m)' = WeightOf(val, m)
        /\ TotalOf(val)' = TotalOf(val) - val[old] + val[new]
        /\ Active' = Active
    BY <1>2, VoteMoves
  <1>4. /\ n \in Active /\ old \in VotedSlopes /\ new \in VotedSlopes
        /\ CanCancel(changesWeight[n], old) /\ CanCancel(changesSum, old)
        /\ UNCHANGED <<veVars, registryVars>>
    BY <1>2, VoteFacts
  <1>5. /\ now' = now /\ NextTime' = NextTime /\ now \in Nat /\ NextTime \in Nat
        /\ NextTime > now /\ t \in Nat
    BY <1>4, NextTimeFacts, WeeksAreTimes DEF veVars, NextTime
  <1>6. ChangesAll(t) /\ \A m \in Nominees : ChangesOf(m, t) /\ (Known(m)' <=> Known(m))
    BY <1>4, ChangesByWeek DEF registryVars, Known
  <1>7. /\ TotalOf(val) \in Nat /\ WeightOf(val, n) \in Nat /\ val[old] \in Nat /\ val[new] \in Nat
        /\ changesSum[t] \in Nat /\ changesWeight[n][t] \in Nat
        /\ changesWeight[n] \in [Weeks -> Nat] /\ changesSum \in [Weeks -> Nat]
    BY <1>4, TotalTyped, WeightTyped DEF TypeOK, WeightsTypeOK, Measures
  <1>8. /\ changesSum' = Reschedule(changesSum, old, new)
        /\ changesWeight' = [changesWeight EXCEPT ![n] = Reschedule(changesWeight[n], old, new)]
    BY <1>2 DEF VoteForNomineeWeights
  <1>9. /\ changesWeight'[n] = Reschedule(changesWeight[n], old, new)
        /\ \A m \in Nominees \ {n} : changesWeight'[m] = changesWeight[m]
    BY <1>8 DEF TypeOK, WeightsTypeOK
  <1>10. ASSUME t > now
         PROVE  /\ changesSum'[t] = changesSum[t] - val[old] + val[new]
                /\ changesWeight'[n][t] = changesWeight[n][t] - val[old] + val[new]
    BY <1>1, <1>4, <1>5, <1>7, <1>8, <1>9, <1>10, RescheduleAhead
  <1>11. ChangesAll(t)'
    <2>1. ASSUME t > now PROVE changesSum'[t] >= TotalOf(val)'
      BY <1>1, <1>3, <1>6, <1>7, <1>10, <2>1 DEF ChangesAll
    <2>2. ASSUME t > NextTime PROVE changesSum'[t] = TotalOf(val)'
      <3>1. t > now /\ changesSum[t] = TotalOf(val)
        BY <1>1, <1>5, <1>6, <2>2 DEF ChangesAll
      <3> QED BY <3>1, <1>3, <1>7, <1>10
    <2> QED BY <1>1, <1>5, <2>1, <2>2 DEF ChangesAll
  <1>12. ASSUME NEW m \in Nominees PROVE ChangesOf(m, t)'
    <2>1. CASE m = n
      <3>1. Known(n)'
        BY <1>4, <1>6 DEF Known, Active
      <3>2. ASSUME t > now PROVE changesWeight'[n][t] = WeightOf(val, n)'
        <4>1. changesWeight[n][t] = WeightOf(val, n)
          BY <1>1, <1>4, <1>6, <3>2 DEF ChangesOf
        <4> QED BY <1>3, <1>7, <1>10, <3>2, <4>1
      <3> QED BY <1>1, <1>5, <2>1, <3>1, <3>2 DEF ChangesOf
    <2>2. CASE m # n
      BY <1>1, <1>3, <1>5, <1>6, <1>9, <2>2 DEF ChangesOf
    <2> QED BY <2>1, <2>2
  <1> QED BY <1>11, <1>12

LEMMA NextTimeGrows ==
  ASSUME TypeOK, now' \in Nat, now' >= now
  PROVE  NextTime' \in Nat /\ NextTime' >= NextTime
  <1>1. now + WEEK \in Nat /\ now' + WEEK \in Nat /\ now + WEEK <= now' + WEEK
    <2>1. ASSUME NEW x \in Nat, NEW y \in Nat, x <= y
          PROVE  x + WEEK \in Nat /\ y + WEEK \in Nat /\ x + WEEK <= y + WEEK
      BY <2>1, WeekAssumption
    <2>2. PICK x \in Nat, y \in Nat : x = now /\ y = now'
      BY NextTimeFacts
    <2> QED BY <2>1, <2>2
  <1>2. PICK j, k : j = (now + WEEK) \div WEEK /\ k = (now' + WEEK) \div WEEK
    OBVIOUS
  <1>3. j \in Nat /\ k \in Nat /\ j <= k
    <2>1. (now + WEEK) \div WEEK <= (now' + WEEK) \div WEEK
      BY <1>1, WeekAssumption, DivMonotone
    <2>2. (now + WEEK) \div WEEK \in Nat /\ (now' + WEEK) \div WEEK \in Nat
      BY <1>1, RoundDown
    <2> QED BY <1>2, <2>1, <2>2
  <1>4. j * WEEK <= k * WEEK /\ k * WEEK \in Nat
    BY <1>3, WeekAssumption, ProductMonotone
  <1> QED BY <1>2, <1>4 DEF NextTime

LEMMA ChangesNext ==
  TypeOK /\ TypeOK' /\ RegistryInv /\ LockInv /\ BackedInv /\ ChangesInv /\ [Next]_vars => ChangesInv'
  <1> SUFFICES ASSUME TypeOK, TypeOK', RegistryInv, LockInv, BackedInv, ChangesInv, [Next]_vars
               PROVE  ChangesInv'
    OBVIOUS
  <1>1. ASSUME UNCHANGED <<registryVars, voteUserSlopes, changesWeight, changesSum>>,
               now' \in Nat, now' >= now
        PROVE  ChangesInv'
    <2> SUFFICES ASSUME NEW t \in Weeks
                 PROVE  ChangesAll(t)' /\ \A m \in Nominees : ChangesOf(m, t)'
      BY DEF ChangesInv, ChangesAll, ChangesOf, Active
    <2>1. PICK val : val = EndingAt(t)
      OBVIOUS
    <2>2. /\ TotalOf(val)' = TotalOf(val) /\ Active' = Active
          /\ \A m \in Nominees : /\ WeightOf(val, m)' = WeightOf(val, m)
                                 /\ Known(m)' <=> Known(m)
      BY <1>1, TotalSame, WeightSame DEF registryVars, Active, Known
    <2>3. /\ t \in Nat /\ now \in Nat /\ NextTime \in Nat
      BY NextTimeFacts, WeeksAreTimes
    <2>4. /\ t > now' => t > now
          /\ t > NextTime' => t > NextTime
      <3>1. NextTime' \in Nat /\ NextTime' >= NextTime
        BY <1>1, NextTimeGrows
      <3> QED BY <1>1, <2>3, <3>1
    <2>5. ChangesAll(t) /\ \A m \in Nominees : ChangesOf(m, t)
      BY ChangesByWeek
    <2> QED BY <1>1, <2>1, <2>2, <2>4, <2>5 DEF ChangesAll, ChangesOf
  <1>2. CASE VeStep
    <2>1. now' \in Nat /\ now' >= now
      BY <1>2, VeStepFacts, LocksGrow DEF TypeOK
    <2> QED BY <1>1, <1>2, <2>1, VeStepFacts DEF voterVars, weightVars, sumVars
  <1>3. CASE StillStep \/ Checkpoint \/ \E n \in Nominees : CheckpointNominee(n)
    <2>1. now \in Nat
      BY NextTimeFacts
    <2> QED BY <1>1, <1>3, <2>1 DEF StillStep, Checkpoint, CheckpointNominee, veVars, voterVars,
                                    weightVars, sumVars
  <1>4. ASSUME NEW n \in Nominees, AddNominee(n) PROVE ChangesInv'
    <2> SUFFICES ASSUME NEW t \in Weeks
                 PROVE  ChangesAll(t)' /\ \A m \in Nominees : ChangesOf(m, t)'
      BY DEF ChangesInv, ChangesAll, ChangesOf, Active
    <2>1. PICK val \in Measures : val = EndingAt(t) /\ val[NoVote] = 0
      BY WeeksAreTimes, MeasuresTyped
    <2>2. /\ \A m \in Nominees : WeightOf(val, m)' = WeightOf(val, m)
          /\ WeightOf(val, n) = 0
          /\ TotalOf(val)' = TotalOf(val)
          /\ Active' = Active \cup {n} /\ ~Known(n)
      BY <1>4, <2>1, AddMoves
    <2>3. UNCHANGED <<veVars, mapRemovedNominees, changesWeight, changesSum>>
      BY <1>4 DEF AddNominee, sumVars
    <2>4. ChangesAll(t) /\ \A m \in Nominees : ChangesOf(m, t)
      BY ChangesByWeek
    <2>5. ChangesAll(t)'
      BY <2>1, <2>2, <2>3, <2>4 DEF ChangesAll, veVars, NextTime
    <2>6. ASSUME NEW m \in Nominees PROVE ChangesOf(m, t)'
      <3>1. Known(m)' <=> Known(m) \/ m = n
        BY <2>2, <2>3 DEF Known, Active
      <3> QED BY <2>1, <2>2, <2>3, <2>4, <3>1 DEF ChangesOf, veVars
    <2> QED BY <2>5, <2>6
  <1>5. ASSUME NEW s \in Owners, NEW n \in Nominees, RemoveNominee(s, n) PROVE ChangesInv'
    BY <1>5, ChangesRemove
  <1>6. ASSUME NEW u \in Voters, NEW n \in Nominees, NEW w \in 0 .. MAX_WEIGHT + 1,
               VoteForNomineeWeights(u, n, w)
        PROVE  ChangesInv'
    BY <1>6, ChangesVote
  <1>7. ASSUME NEW u \in Voters, NEW n \in Nominees, RevokeRemovedNomineeVotingPower(u, n)
        PROVE  ChangesInv'
    <2> SUFFICES ASSUME NEW t \in Weeks
                 PROVE  ChangesAll(t)' /\ \A m \in Nominees : ChangesOf(m, t)'
      BY DEF ChangesInv, ChangesAll, ChangesOf, Active
    <2>1. PICK val \in Measures : val = EndingAt(t)
      BY WeeksAreTimes, MeasuresTyped
    <2>2. /\ \A m \in Active : WeightOf(val, m)' = WeightOf(val, m)
          /\ TotalOf(val)' = TotalOf(val) /\ Active' = Active
      BY <1>7, RevokeMoves
    <2>3. UNCHANGED <<veVars, registryVars, weightVars, sumVars>>
      BY <1>7, RevokeFacts
    <2>4. ChangesAll(t) /\ \A m \in Nominees : ChangesOf(m, t) /\ (Known(m)' <=> Known(m))
      BY <2>3, ChangesByWeek DEF registryVars, Known
    <2> QED BY <2>1, <2>2, <2>3, <2>4 DEF ChangesAll, ChangesOf, veVars, NextTime, weightVars,
                                          sumVars
  <1> QED BY <1>2, <1>3, <1>4, <1>5, <1>6, <1>7, StepKinds

LEMMA NoUnderflow ==
  ASSUME TypeOK, PowerInv, ChangesInv, BackedInv
  PROVE  VoteNeverUnderflows
  <1> SUFFICES ASSUME NEW u \in Voters, NEW n \in Active
               PROVE  /\ CanCancel(changesWeight[n], voteUserSlopes[u][n])
                      /\ CanCancel(changesSum, voteUserSlopes[u][n])
                      /\ voteUserPower[u] >= voteUserSlopes[u][n].power
    BY DEF VoteNeverUnderflows
  <1>0. n \in Nominees
    BY DEF Active
  <1>1. PICK old \in VotedSlopes : old = voteUserSlopes[u][n]
    BY <1>0 DEF TypeOK, VotesTypeOK
  <1>2. ASSUME old.end > now PROVE changesWeight[n][old.end] >= old.slope /\ changesSum[old.end] >= old.slope
    <2>1. old.end \in Weeks /\ old.end \in Nat /\ old.slope \in Nat
      BY <1>0, <1>1, WeeksAreTimes DEF BackedInv, Backed, VotedSlopes
    <2>2. PICK val \in Measures : val = EndingAt(old.end)
      BY <2>1, MeasuresTyped
    <2>3. val[old] = old.slope
      BY <2>2 DEF EndingAt
    <2>4. /\ WeightOf(val, n) \in Nat /\ TotalOf(val) \in Nat
          /\ old.slope <= WeightOf(val, n) /\ WeightOf(val, n) <= TotalOf(val)
      BY <1>0, <1>1, <2>3, WeightTyped, TotalTyped DEF TypeOK
    <2>5. changesWeight[n][old.end] = WeightOf(val, n) /\ changesSum[old.end] >= TotalOf(val)
      BY <1>2, <2>1, <2>2 DEF ChangesInv
    <2>6. changesSum[old.end] \in Nat
      BY <2>1 DEF TypeOK, WeightsTypeOK
    <2> QED BY <2>1, <2>4, <2>5, <2>6
  <1>3. voteUserPower[u] >= old.power
    <2>1. PICK f : f = [m \in Nominees |-> voteUserSlopes[u][m].power]
      OBVIOUS
    <2>2. \A m \in Nominees : f[m] \in Nat
      BY <2>1 DEF TypeOK, VotesTypeOK, VotedSlopes
    <2>3. f[n] <= SumFunctionOnSet(f, Nominees) /\ SumFunctionOnSet(f, Nominees) \in Nat
      BY <1>0, <2>2, NomineesFinite, SumNat
    <2>4. voteUserPower[u] = SumFunctionOnSet(f, Nominees) /\ f[n] = old.power
      BY <1>0, <1>1, <2>1 DEF PowerInv, PowerOf
    <2> QED BY <1>0, <2>2, <2>3, <2>4
  <1> QED BY <1>1, <1>2, <1>3 DEF CanCancel

\* For any votes, ends of locks and removals: the vote of any account on an active
\* nominee can be replaced, no checked subtraction of it underflows.
THEOREM VotesCanBeReplaced == Spec => []VoteNeverUnderflows
  <1>1. TypeOK /\ RegistryInv /\ RegistryInv' /\ [Next]_vars => TypeOK'
    BY TypeNext
  <1>2. TypeOK /\ PowerInv /\ ChangesInv /\ BackedInv => VoteNeverUnderflows
    BY NoUnderflow
  <1> QED BY <1>1, <1>2, TypeInit, RegistryInit, RegistryNext, PowerInit, PowerNext, LockInit,
             LockNext, BackedInit, BackedNext, ChangesInit, ChangesNext, PTL DEF Spec

(***************************************************************************)
(* The decay of the votes from week to week                                *)
(***************************************************************************)

\* Two weeks differ by a whole week at least.
LEMMA WeeksApart ==
  ASSUME NEW s \in Weeks, NEW t \in Weeks, s < t
  PROVE  s + WEEK <= t
  <1>1. PICK j \in Nat, k \in Nat : s = j * WEEK /\ t = k * WEEK
    BY ConstantsAssumption DEF Weeks
  <1>2. j + 1 <= k
    <2> SUFFICES ASSUME k <= j PROVE FALSE
      BY <1>1
    <2>1. k * WEEK <= j * WEEK /\ k * WEEK \in Nat /\ j * WEEK \in Nat
      BY WeekAssumption, ProductMonotone
    <2> QED BY <1>1, <2>1
  <1>3. (j + 1) * WEEK <= k * WEEK
    BY <1>2, WeekAssumption, ProductMonotone
  <1>4. (j + 1) * WEEK = j * WEEK + WEEK
    BY WeekAssumption
  <1> QED BY <1>1, <1>3, <1>4

\* A measure that is a difference of two others, for every vote that stands.
IsDifference(h, f, g, c) ==
  \A u \in Voters, n \in Nominees :
    h[voteUserSlopes[u][n]] = f[voteUserSlopes[u][n]] - g[voteUserSlopes[u][n]] * c

LEMMA SumsDiffer ==
  ASSUME VotesTypeOK, NEW f \in Measures, NEW g \in Measures, NEW h \in Measures, NEW c \in Int,
         IsDifference(h, f, g, c)
  PROVE  /\ \A n \in Nominees : WeightOf(h, n) = WeightOf(f, n) - WeightOf(g, n) * c
         /\ TotalOf(h) = TotalOf(f) - TotalOf(g) * c
  <1>1. ASSUME NEW n \in Nominees PROVE WeightOf(h, n) = WeightOf(f, n) - WeightOf(g, n) * c
    <2>1. PICK fs, gs, hs : /\ fs = [u \in Voters |-> f[voteUserSlopes[u][n]]]
                            /\ gs = [u \in Voters |-> g[voteUserSlopes[u][n]]]
                            /\ hs = [u \in Voters |-> h[voteUserSlopes[u][n]]]
      OBVIOUS
    <2>2. \A u \in Voters : fs[u] \in Int /\ gs[u] \in Int /\ hs[u] = fs[u] - gs[u] * c
      <3>1. ASSUME NEW u \in Voters PROVE f[voteUserSlopes[u][n]] \in Nat /\ g[voteUserSlopes[u][n]] \in Nat
        BY WeightTyped
      <3>2. \A u \in Voters : h[voteUserSlopes[u][n]] =
              f[voteUserSlopes[u][n]] - g[voteUserSlopes[u][n]] * c
        BY DEF IsDifference
      <3>3. \A u \in Voters : /\ fs[u] = f[voteUserSlopes[u][n]]
                              /\ gs[u] = g[voteUserSlopes[u][n]]
                              /\ hs[u] = h[voteUserSlopes[u][n]]
        BY <2>1
      <3>4. \A k \in Nat : k \in Int
        OBVIOUS
      <3> QED BY ONLY <3>1, <3>2, <3>3, <3>4
    <2>3. SumFunctionOnSet(hs, Voters) = SumFunctionOnSet(fs, Voters) - SumFunctionOnSet(gs, Voters) * c
      BY <2>2, NomineesFinite, SumLinear
    <2> QED BY <2>1, <2>3 DEF WeightOf
  <1>2. PICK fn, gn, hn : /\ fn = [n \in Nominees |-> ActiveWeight(f, n)]
                          /\ gn = [n \in Nominees |-> ActiveWeight(g, n)]
                          /\ hn = [n \in Nominees |-> ActiveWeight(h, n)]
    OBVIOUS
  <1>3. ASSUME NEW n \in Nominees PROVE fn[n] \in Int /\ gn[n] \in Int /\ hn[n] = fn[n] - gn[n] * c
    <2>1. ActiveWeight(f, n) \in Nat /\ ActiveWeight(g, n) \in Nat
      BY WeightTyped
    <2>2. CASE n \in Active
      BY <1>1, <1>2, <2>1, <2>2 DEF ActiveWeight
    <2>3. CASE n \notin Active
      BY <1>2, <2>1, <2>3 DEF ActiveWeight
    <2> QED BY <2>2, <2>3
  <1>4. SumFunctionOnSet(hn, Nominees) = SumFunctionOnSet(fn, Nominees) - SumFunctionOnSet(gn, Nominees) * c
    BY <1>3, NomineesFinite, SumLinear
  <1> QED BY <1>1, <1>2, <1>4 DEF TotalOf

\* A measure that vanishes with another one.
Vanishes(g, h) ==
  \A u \in Voters, n \in Nominees : h[voteUserSlopes[u][n]] = 0 => g[voteUserSlopes[u][n]] = 0

LEMMA SumsVanish ==
  ASSUME VotesTypeOK, NEW g \in Measures, NEW h \in Measures, Vanishes(g, h)
  PROVE  /\ \A n \in Nominees : WeightOf(h, n) = 0 => WeightOf(g, n) = 0
         /\ TotalOf(h) = 0 => TotalOf(g) = 0
  <1>1. ASSUME NEW n \in Nominees, WeightOf(h, n) = 0 PROVE WeightOf(g, n) = 0
    <2>1. \A u \in Voters : h[voteUserSlopes[u][n]] = 0
      BY <1>1, WeightTyped
    <2>2. \A u \in Voters : g[voteUserSlopes[u][n]] = 0
      BY <2>1 DEF Vanishes
    <2> QED BY <2>2, WeightZero
  <1>2. ASSUME TotalOf(h) = 0 PROVE TotalOf(g) = 0
    <2>1. ASSUME NEW n \in Nominees PROVE ActiveWeight(g, n) = 0
      <3>1. CASE n \in Active
        <4>1. WeightOf(h, n) = 0
          <5>1. WeightOf(h, n) \in Nat /\ WeightOf(h, n) <= TotalOf(h)
            BY <3>1, WeightTyped, TotalTyped
          <5> QED BY <1>2, <5>1
        <4> QED BY <1>1, <3>1, <4>1 DEF ActiveWeight
      <3>2. CASE n \notin Active
        BY <3>2 DEF ActiveWeight
      <3> QED BY <3>1, <3>2
    <2>2. PICK f : f = [n \in Nominees |-> ActiveWeight(g, n)]
      OBVIOUS
    <2>3. SumFunctionOnSet(f, Nominees) = 0
      BY <2>1, <2>2, NomineesFinite, SumZero
    <2> QED BY <2>2, <2>3 DEF TotalOf
  <1> QED BY <1>1, <1>2

\* One week of decay: the bias loses the slope times a week, the slope what ends.
LEMMA VotesDecay ==
  ASSUME TypeOK, BackedInv, NEW t \in Weeks, t + WEEK \in Weeks
  PROVE  /\ IsDifference(BiasAt(t + WEEK), BiasAt(t), SlopeAt(t), WEEK)
         /\ IsDifference(SlopeAt(t + WEEK), SlopeAt(t), EndingAt(t + WEEK), 1)
         /\ Vanishes(SlopeAt(t + WEEK), BiasAt(t + WEEK))
  <1>1. ASSUME NEW v \in VotedSlopes, v.end \in Weeks
        PROVE  /\ BiasAt(t + WEEK)[v] = BiasAt(t)[v] - SlopeAt(t)[v] * WEEK
               /\ SlopeAt(t + WEEK)[v] = SlopeAt(t)[v] - EndingAt(t + WEEK)[v] * 1
               /\ BiasAt(t + WEEK)[v] = 0 => SlopeAt(t + WEEK)[v] = 0
    <2>1. t \in Nat /\ v.end \in Nat /\ v.slope \in Nat /\ WEEK \in Nat \ {0}
      BY WeeksAreTimes, WeekAssumption DEF VotedSlopes
    <2>2. /\ BiasAt(t)[v] = IF v.end > t THEN v.slope * (v.end - t) ELSE 0
          /\ BiasAt(t + WEEK)[v] = IF v.end > t + WEEK THEN v.slope * (v.end - (t + WEEK)) ELSE 0
          /\ SlopeAt(t)[v] = IF v.end > t THEN v.slope ELSE 0
          /\ SlopeAt(t + WEEK)[v] = IF v.end > t + WEEK THEN v.slope ELSE 0
          /\ EndingAt(t + WEEK)[v] = IF v.end = t + WEEK THEN v.slope ELSE 0
      BY DEF BiasAt, SlopeAt, EndingAt
    <2>3. CASE ~(v.end > t)
      BY <2>1, <2>2, <2>3
    <2>4. CASE v.end = t + WEEK
      <3>1. v.end > t /\ ~(v.end > t + WEEK) /\ v.end - t = WEEK
        BY <2>1, <2>4
      <3>2. v.slope * WEEK \in Nat
        BY <2>1
      <3>3. /\ BiasAt(t)[v] = v.slope * WEEK /\ BiasAt(t + WEEK)[v] = 0
            /\ SlopeAt(t)[v] = v.slope /\ SlopeAt(t + WEEK)[v] = 0
            /\ EndingAt(t + WEEK)[v] = v.slope
        BY <2>2, <2>4, <3>1
      <3> QED BY <2>1, <3>2, <3>3
    <2>5. CASE v.end > t + WEEK
      <3>1. PICK k \in Nat \ {0} : k = v.end - (t + WEEK)
        BY <2>1, <2>5
      <3>2. v.end > t /\ v.end - t = k + WEEK /\ v.end # t + WEEK
        BY <2>1, <2>5, <3>1
      <3>3. v.slope * (k + WEEK) = v.slope * k + v.slope * WEEK
        BY <2>1
      <3>4. v.slope * k \in Nat /\ v.slope * WEEK \in Nat
        BY <2>1
      <3>5. v.slope * k = 0 => v.slope = 0
        BY <2>1
      <3>6. /\ BiasAt(t)[v] = v.slope * (k + WEEK) /\ BiasAt(t + WEEK)[v] = v.slope * k
            /\ SlopeAt(t)[v] = v.slope /\ SlopeAt(t + WEEK)[v] = v.slope
            /\ EndingAt(t + WEEK)[v] = 0
        BY <2>2, <2>5, <3>1, <3>2
      <3>7. PICK x \in Nat, y \in Nat : x = v.slope * k /\ y = v.slope * WEEK
        BY <3>4
      <3>8. /\ BiasAt(t)[v] = x + y /\ BiasAt(t + WEEK)[v] = x
            /\ SlopeAt(t)[v] * WEEK = y /\ SlopeAt(t + WEEK)[v] = SlopeAt(t)[v]
            /\ SlopeAt(t)[v] \in Nat /\ EndingAt(t + WEEK)[v] = 0
            /\ x = 0 => SlopeAt(t)[v] = 0
        BY <2>1, <3>3, <3>5, <3>6, <3>7
      <3> QED BY <3>8
    <2>6. ~(v.end > t) \/ v.end = t + WEEK \/ v.end > t + WEEK
      BY <1>1, <2>1, WeeksApart
    <2> QED BY <2>3, <2>4, <2>5, <2>6
  <1>2. \A u \in Voters, n \in Nominees :
          voteUserSlopes[u][n] \in VotedSlopes /\ voteUserSlopes[u][n].end \in Weeks
    BY DEF TypeOK, VotesTypeOK, BackedInv, Backed
  <1> QED BY <1>1, <1>2 DEF IsDifference, Vanishes

\* Bias, slope and endings of the weeks fit together.
IsCurve(B, S, E) ==
  /\ B \in [Weeks -> Nat] /\ S \in [Weeks -> Nat] /\ E \in [Weeks -> Nat]
  /\ \A t \in Weeks : t + WEEK \in Weeks =>
       /\ B[t + WEEK] = B[t] - S[t] * WEEK
       /\ S[t + WEEK] = S[t] - E[t + WEEK]
       /\ B[t + WEEK] = 0 => S[t + WEEK] = 0

BiasCurve(n) == [t \in Weeks |-> WeightOf(BiasAt(t), n)]
SlopeCurve(n) == [t \in Weeks |-> WeightOf(SlopeAt(t), n)]
EndingCurve(n) == [t \in Weeks |-> WeightOf(EndingAt(t), n)]
BiasTotals == [t \in Weeks |-> TotalOf(BiasAt(t))]
SlopeTotals == [t \in Weeks |-> TotalOf(SlopeAt(t))]
EndingTotals == [t \in Weeks |-> TotalOf(EndingAt(t))]

LEMMA VotesCurve ==
  ASSUME TypeOK, BackedInv
  PROVE  /\ \A n \in Nominees : IsCurve(BiasCurve(n), SlopeCurve(n), EndingCurve(n))
         /\ IsCurve(BiasTotals, SlopeTotals, EndingTotals)
  <1>0. VotesTypeOK
    BY DEF TypeOK
  <1>1. ASSUME NEW t \in Weeks
        PROVE  /\ BiasAt(t) \in Measures /\ SlopeAt(t) \in Measures /\ EndingAt(t) \in Measures
               /\ \A n \in Nominees : /\ WeightOf(BiasAt(t), n) \in Nat
                                      /\ WeightOf(SlopeAt(t), n) \in Nat
                                      /\ WeightOf(EndingAt(t), n) \in Nat
               /\ TotalOf(BiasAt(t)) \in Nat /\ TotalOf(SlopeAt(t)) \in Nat
               /\ TotalOf(EndingAt(t)) \in Nat
    <2>1. BiasAt(t) \in Measures /\ SlopeAt(t) \in Measures /\ EndingAt(t) \in Measures
      BY WeeksAreTimes, MeasuresTyped
    <2> QED BY <1>0, <2>1, WeightTyped, TotalTyped
  <1>2. ASSUME NEW t \in Weeks, t + WEEK \in Weeks
        PROVE  /\ \A n \in Nominees :
                    /\ WeightOf(BiasAt(t + WEEK), n) =
                         WeightOf(BiasAt(t), n) - WeightOf(SlopeAt(t), n) * WEEK
                    /\ WeightOf(SlopeAt(t + WEEK), n) =
                         WeightOf(SlopeAt(t), n) - WeightOf(EndingAt(t + WEEK), n)
                    /\ WeightOf(BiasAt(t + WEEK), n) = 0 => WeightOf(SlopeAt(t + WEEK), n) = 0
               /\ TotalOf(BiasAt(t + WEEK)) = TotalOf(BiasAt(t)) - TotalOf(SlopeAt(t)) * WEEK
               /\ TotalOf(SlopeAt(t + WEEK)) = TotalOf(SlopeAt(t)) - TotalOf(EndingAt(t + WEEK))
               /\ TotalOf(BiasAt(t + WEEK)) = 0 => TotalOf(SlopeAt(t + WEEK)) = 0
    <2>1. PICK b1 \in Measures, s1 \in Measures, b2 \in Measures, s2 \in Measures, e2 \in Measures :
            /\ b1 = BiasAt(t) /\ s1 = SlopeAt(t)
            /\ b2 = BiasAt(t + WEEK) /\ s2 = SlopeAt(t + WEEK) /\ e2 = EndingAt(t + WEEK)
      BY <1>1, <1>2
    <2>2. IsDifference(b2, b1, s1, WEEK) /\ IsDifference(s2, s1, e2, 1) /\ Vanishes(s2, b2)
      BY <1>2, <2>1, VotesDecay
    <2>3. /\ \A n \in Nominees : WeightOf(b2, n) = WeightOf(b1, n) - WeightOf(s1, n) * WEEK
          /\ TotalOf(b2) = TotalOf(b1) - TotalOf(s1) * WEEK
      BY <1>0, <2>2, WeekAssumption, SumsDiffer
    <2>4. PICK one \in Int : one = 1
      OBVIOUS
    <2>5. IsDifference(s2, s1, e2, one)
      BY <2>2, <2>4
    <2>6. /\ \A n \in Nominees : WeightOf(s2, n) = WeightOf(s1, n) - WeightOf(e2, n) * one
          /\ TotalOf(s2) = TotalOf(s1) - TotalOf(e2) * one
      BY <1>0, <2>5, SumsDiffer
    <2>7. /\ \A n \in Nominees : WeightOf(e2, n) \in Nat
          /\ TotalOf(e2) \in Nat
      BY <1>0, WeightTyped, TotalTyped
    <2>8. \A k \in Nat : k * one = k
      BY <2>4
    <2>9. /\ \A n \in Nominees : WeightOf(s2, n) = WeightOf(s1, n) - WeightOf(e2, n)
          /\ TotalOf(s2) = TotalOf(s1) - TotalOf(e2)
      BY <2>6, <2>7, <2>8
    <2>10. /\ \A n \in Nominees : WeightOf(b2, n) = 0 => WeightOf(s2, n) = 0
           /\ TotalOf(b2) = 0 => TotalOf(s2) = 0
      BY <1>0, <2>2, SumsVanish
    <2> QED BY <2>1, <2>3, <2>9, <2>10
  <1>3. ASSUME NEW n \in Nominees PROVE IsCurve(BiasCurve(n), SlopeCurve(n), EndingCurve(n))
    BY <1>1, <1>2 DEF IsCurve, BiasCurve, SlopeCurve, EndingCurve
  <1>4. IsCurve(BiasTotals, SlopeTotals, EndingTotals)
    BY <1>1, <1>2 DEF IsCurve, BiasTotals, SlopeTotals, EndingTotals
  <1> QED BY <1>3, <1>4

(***************************************************************************)
(* Walks that reach the coming week                                        *)
(***************************************************************************)

\* The coming week is the only one in the WEEK ticks after now.
LEMMA OneWeekAhead ==
  ASSUME TypeOK, NEW t \in Weeks, t > now, t <= now + WEEK
  PROVE  t = NextTime
  <1>1. /\ now \in Nat /\ NextTime \in Weeks /\ NextTime \in Nat /\ NextTime > now
        /\ NextTime <= now + WEEK /\ t \in Nat
    BY NextTimeFacts, NextTimeIsWeek, WeeksAreTimes DEF TypeOK
  <1>2. ~(t < NextTime)
    <2>1. t < NextTime => t + WEEK <= NextTime
      BY <1>1, WeeksApart
    <2> QED BY <2>1, <1>1, WeekAssumption
  <1>3. ~(NextTime < t)
    <2>1. NextTime < t => NextTime + WEEK <= t
      BY <1>1, WeeksApart
    <2> QED BY <2>1, <1>1, WeekAssumption
  <1> QED BY <1>1, <1>2, <1>3

\* How far a walk gets: to the coming week, unless more than MAX_NUM_WEEKS weeks
\* are missing.
LEMMA WalkEnd ==
  ASSUME TypeOK, NEW last \in Weeks, last <= NextTime
  PROVE  /\ WalkLength(last) \in Nat
         /\ last + WalkLength(last) * WEEK \in Weeks
         /\ last + WalkLength(last) * WEEK > now => last + WalkLength(last) * WEEK = NextTime
         /\ now < last + MAX_NUM_WEEKS * WEEK => last + WalkLength(last) * WEEK > now
         /\ WalkLength(last) = 0 => last = NextTime
         /\ WalkLength(last) # 0 => last <= now
  <1>1. VeTypeOK /\ now \in Nat /\ NextTime \in Nat /\ NextTime > now /\ last \in Nat
    BY NextTimeFacts, WeeksAreTimes DEF TypeOK
  <1>2. WalkLength(last) \in Nat /\ \A i \in 0 .. WalkLength(last) : last + i * WEEK \in Weeks
    BY <1>1, WalkStaysInWeeks
  <1>3. last + WalkLength(last) * WEEK \in Weeks
    BY <1>2
  <1>4. last > now => last = NextTime
    <2>1. last > now => last <= now + WEEK
      <3>1. NextTime <= now + WEEK
        BY <1>1, NextTimeIsWeek
      <3> QED BY <1>1, <3>1, WeekAssumption
    <2> QED BY <2>1, OneWeekAhead
  <1>5. CASE last > now
    <2>1. WalkLength(last) = 0
      BY <1>5 DEF WalkLength
    <2>2. last + WalkLength(last) * WEEK = last
      BY <1>1, <2>1, WeekAssumption
    <2> QED BY <1>2, <1>3, <1>4, <1>5, <2>1, <2>2
  <1>6. CASE ~(last > now)
    <2>1. PICK d : d = (now - last) \div WEEK
      OBVIOUS
    <2>2. now - last \in Nat
      BY <1>1, <1>6
    <2>3. d \in Nat /\ d * WEEK <= now - last /\ now - last < d * WEEK + WEEK /\ d * WEEK \in Nat
      <3>1. d \in Nat /\ d * WEEK <= now - last /\ now - last < d * WEEK + WEEK
        BY <2>1, <2>2, RoundDown
      <3> QED BY <3>1, WeekAssumption
    <2>4. WalkLength(last) = IF d + 1 < MAX_NUM_WEEKS THEN d + 1 ELSE MAX_NUM_WEEKS
      BY <1>6, <2>1 DEF WalkLength
    <2>5. WalkLength(last) # 0 /\ WalkLength(last) <= d + 1
      BY <2>3, <2>4, ConstantsAssumption
    <2>6. (d + 1) * WEEK = d * WEEK + WEEK /\ WalkLength(last) * WEEK <= (d + 1) * WEEK
          /\ WalkLength(last) * WEEK \in Nat
      <3>1. (d + 1) * WEEK = d * WEEK + WEEK
        BY <2>3, WeekAssumption
      <3>2. d + 1 \in Nat
        BY <2>3
      <3>3. WalkLength(last) * WEEK <= (d + 1) * WEEK /\ WalkLength(last) * WEEK \in Nat
        BY <1>2, <2>5, <3>2, WeekAssumption, ProductMonotone
      <3> QED BY <3>1, <3>3
    <2>7. last + WalkLength(last) * WEEK <= now + WEEK
      BY <1>1, <2>2, <2>3, <2>6, WeekAssumption
    <2>8. last + WalkLength(last) * WEEK > now => last + WalkLength(last) * WEEK = NextTime
      BY <1>3, <2>7, OneWeekAhead
    <2>9. ASSUME now < last + MAX_NUM_WEEKS * WEEK
          PROVE  last + WalkLength(last) * WEEK > now
      <3>1. CASE d + 1 < MAX_NUM_WEEKS
        <4>1. WalkLength(last) = d + 1
          BY <2>4, <3>1
        <4>2. WalkLength(last) * WEEK = d * WEEK + WEEK
          BY <2>6, <4>1
        <4> QED BY <1>1, <2>2, <2>3, <4>2, WeekAssumption
      <3>2. CASE ~(d + 1 < MAX_NUM_WEEKS)
        <4>1. WalkLength(last) = MAX_NUM_WEEKS
          BY <2>4, <3>2
        <4> QED BY <2>9, <4>1
      <3> QED BY <3>1, <3>2
    <2> QED BY <1>1, <1>2, <1>3, <1>6, <2>5, <2>8, <2>9
  <1> QED BY <1>5, <1>6

\* What the maps hold when a walk along a curve starts.
Starts(points, changes, last, B, S, E) ==
  /\ points[last] = [bias |-> B[last], slope |-> S[last]]
  /\ \A t \in Weeks : t > last => changes[t] = E[t]

LEMMA DecayFollows ==
  ASSUME NEW b \in Nat, NEW s \in Nat, NEW e \in Nat, NEW b2 \in Nat, NEW s2 \in Nat,
         b2 = b - s * WEEK, s2 = s - e, b2 = 0 => s2 = 0
  PROVE  Decay([bias |-> b, slope |-> s], e) = [bias |-> b2, slope |-> s2]
  <1>1. s * WEEK \in Nat
    BY WeekAssumption
  <1>2. MaxAndSub(s, e) = s2
    BY DEF MaxAndSub
  <1>3. CASE b > s * WEEK
    BY <1>2, <1>3 DEF Decay
  <1>4. CASE ~(b > s * WEEK)
    <2>1. b2 = 0 /\ s2 = 0
      BY <1>1, <1>4
    <2> QED BY <1>4, <2>1 DEF Decay, NoPoint
  <1> QED BY <1>3, <1>4

\* The walk follows the curve.
LEMMA WalkFollows ==
  ASSUME TypeOK, NEW last \in Weeks, last <= NextTime, now < last + MAX_NUM_WEEKS * WEEK,
         NEW points \in [Weeks -> Points], NEW changes \in [Weeks -> Nat],
         NEW B, NEW S, NEW E, IsCurve(B, S, E), Starts(points, changes, last, B, S, E)
  PROVE  /\ Walk(points, changes, last).time = NextTime
         /\ Walk(points, changes, last).bias = B[NextTime]
         /\ \A t \in Weeks : Walk(points, changes, last).points[t] =
              IF t > last /\ t <= NextTime THEN [bias |-> B[t], slope |-> S[t]] ELSE points[t]
         /\ Walk(points, changes, last).points[NextTime] =
              [bias |-> B[NextTime], slope |-> S[NextTime]]
  <1>1. /\ WalkLength(last) \in Nat
        /\ last + WalkLength(last) * WEEK = NextTime
        /\ WalkLength(last) = 0 => last = NextTime
        /\ WalkLength(last) # 0 => last <= now
    BY WalkEnd
  <1>2. /\ now \in Nat /\ NextTime \in Nat /\ NextTime > now /\ NextTime \in Weeks /\ last \in Nat
    BY NextTimeFacts, WeeksAreTimes
  <1>3. PICK steps \in Nat : steps = WalkLength(last)
    BY <1>1
  <1>4. \A i \in 0 .. steps : last + i * WEEK \in Weeks
    BY <1>3, WalkStaysInWeeks DEF TypeOK
  <1>5. PICK pt : pt = Walked(points, changes, last)
    OBVIOUS
  <1>6. pt = [i \in 0 .. steps |-> IF i = 0 THEN points[last]
                                   ELSE Decay(pt[i - 1], changes[last + i * WEEK])]
    BY <1>1, <1>3, <1>5, WalkedDef
  <1> DEFINE R == {i \in 0 .. steps : pt[i] = [bias |-> B[last + i * WEEK], slope |-> S[last + i * WEEK]]}
  <1>7. 0 \in R
    <2>1. last + 0 * WEEK = last /\ 0 \in 0 .. steps
      BY <1>2, WeekAssumption
    <2>2. pt[0] = points[last]
      BY <1>6, <2>1
    <2> QED BY <2>1, <2>2 DEF Starts
  <1>8. ASSUME NEW i \in 0 .. steps, i \in R, i < steps PROVE i + 1 \in R
    <2>1. i \in Nat /\ i + 1 \in 0 .. steps /\ i + 1 # 0 /\ (i + 1) - 1 = i
      BY <1>8
    <2>2. pt[i + 1] = Decay(pt[i], changes[last + (i + 1) * WEEK])
      <3>1. \A j \in 0 .. steps : j # 0 => pt[j] = Decay(pt[j - 1], changes[last + j * WEEK])
        BY <1>6
      <3>2. pt[i + 1] = Decay(pt[(i + 1) - 1], changes[last + (i + 1) * WEEK])
        BY <2>1, <3>1
      <3> QED BY <2>1, <3>2
    <2>3. PICK t \in Weeks : t = last + i * WEEK
      BY <1>4
    <2>4. last + (i + 1) * WEEK = t + WEEK /\ t \in Nat /\ t >= last
      <3>1. (i + 1) * WEEK = i * WEEK + WEEK /\ i * WEEK \in Nat
        BY <2>1, WeekAssumption
      <3> QED BY <1>2, <2>3, <3>1, WeekAssumption
    <2>5. t + WEEK \in Weeks
      BY <1>4, <2>1, <2>4
    <2>6. t + WEEK > last
      BY <1>2, <2>4, WeekAssumption
    <2>7. changes[t + WEEK] = E[t + WEEK]
      BY <2>5, <2>6 DEF Starts
    <2>8. pt[i] = [bias |-> B[t], slope |-> S[t]]
      BY <1>8, <2>3
    <2>9. /\ B[t] \in Nat /\ S[t] \in Nat /\ E[t + WEEK] \in Nat
          /\ B[t + WEEK] \in Nat /\ S[t + WEEK] \in Nat
          /\ B[t + WEEK] = B[t] - S[t] * WEEK
          /\ S[t + WEEK] = S[t] - E[t + WEEK]
          /\ B[t + WEEK] = 0 => S[t + WEEK] = 0
      BY <2>5 DEF IsCurve
    <2>10. Decay([bias |-> B[t], slope |-> S[t]], E[t + WEEK]) =
             [bias |-> B[t + WEEK], slope |-> S[t + WEEK]]
      BY <2>9, DecayFollows
    <2> QED BY <2>1, <2>2, <2>4, <2>7, <2>8, <2>10
  <1> HIDE DEF R
  <1>9. \A i \in 0 .. steps : i \in R
    BY <1>7, <1>8, IntervalInduction
  <1>10. \A i \in 0 .. steps : pt[i] = [bias |-> B[last + i * WEEK], slope |-> S[last + i * WEEK]]
    BY <1>9 DEF R
  <1>11. steps \in 0 .. steps /\ pt[steps] = [bias |-> B[NextTime], slope |-> S[NextTime]]
    BY <1>1, <1>3, <1>10
  <1>12. PICK walk : walk = Walk(points, changes, last)
    OBVIOUS
  <1>13. /\ walk.time = IF steps > 0 /\ NextTime > now THEN NextTime ELSE last
         /\ walk.bias = pt[steps].bias
         /\ walk.points = [t \in Weeks |-> IF t > last /\ t <= NextTime
                                           THEN pt[(t - last) \div WEEK] ELSE points[t]]
    BY <1>1, <1>3, <1>5, <1>12 DEF Walk
  <1>14. walk.time = NextTime /\ walk.bias = B[NextTime]
    BY <1>1, <1>2, <1>3, <1>11, <1>13
  <1>15. ASSUME NEW t \in Weeks, t > last, t <= NextTime
         PROVE  pt[(t - last) \div WEEK] = [bias |-> B[t], slope |-> S[t]]
    <2>1. PICK j \in Nat, k \in Nat : t = j * WEEK /\ last = k * WEEK
      BY ConstantsAssumption DEF Weeks
    <2>2. k <= j
      <3> SUFFICES ASSUME j <= k PROVE j = k
        BY <2>1
      <3>1. j * WEEK <= k * WEEK /\ j * WEEK \in Nat /\ k * WEEK \in Nat
        BY WeekAssumption, ProductMonotone
      <3> QED BY <1>15, <2>1, <3>1
    <2>3. PICK i \in Nat : i = j - k
      BY <2>2
    <2>4. t - last = i * WEEK /\ t = last + i * WEEK /\ i * WEEK \in Nat
      BY <2>1, <2>3, WeekAssumption
    <2>5. (t - last) \div WEEK = i
      BY <2>4, WeekAssumption
    <2>6. i <= steps
      <3>1. i * WEEK <= steps * WEEK
        <4>1. steps * WEEK \in Nat /\ last + steps * WEEK = NextTime
          BY <1>1, <1>3, WeekAssumption
        <4> QED BY <1>2, <1>15, <2>4, <4>1
      <3> QED BY <3>1, WeekMonotone
    <2> QED BY <1>10, <2>4, <2>5, <2>6
  <1>16. \A t \in Weeks : walk.points[t] =
           IF t > last /\ t <= NextTime THEN [bias |-> B[t], slope |-> S[t]] ELSE points[t]
    BY <1>13, <1>15
  <1>17. walk.points[NextTime] = [bias |-> B[NextTime], slope |-> S[NextTime]]
    <2>1. CASE last = NextTime
      <3>1. ~(NextTime > last)
        BY <1>2, <2>1
      <3>2. walk.points[NextTime] = points[last]
        BY <1>2, <1>16, <2>1, <3>1
      <3> QED BY <2>1, <3>2 DEF Starts
    <2>2. CASE last # NextTime
      <3>1. NextTime > last /\ NextTime <= NextTime
        BY <1>2, <2>2
      <3> QED BY <1>2, <1>16, <3>1
    <2> QED BY <2>1, <2>2
  <1> QED BY <1>12, <1>14, <1>16, <1>17

(***************************************************************************)
(* The points of the nominees and of the sum                               *)
(***************************************************************************)

\* Somebody calls for the sum and for every active nominee (a vote, a checkpoint)
\* before MAX_NUM_WEEKS weeks have passed since the last time. After that a walk
\* no longer reaches the coming week.
CheckpointedInTime ==
  /\ now < timeSum + MAX_NUM_WEEKS * WEEK
  /\ \A n \in Active : now < timeWeight[n] + MAX_NUM_WEEKS * WEEK

WeightPoint(n, t) == [bias |-> WeightOf(BiasAt(t), n), slope |-> WeightOf(SlopeAt(t), n)]
SumPoint(t) == [bias |-> TotalOf(BiasAt(t)), slope |-> TotalOf(SlopeAt(t))]

\* A map holds the votes of week s and the slopes that end after it.
WeightSettled(n, s) ==
  /\ pointsWeight[n][s] = WeightPoint(n, s)
  /\ \A t \in Weeks : t > s => changesWeight[n][t] = WeightOf(EndingAt(t), n)
SumSettled(s) ==
  /\ pointsSum[s] = SumPoint(s)
  /\ \A t \in Weeks : t > s => changesSum[t] = TotalOf(EndingAt(t))

\* No point is recorded after the last walk of a nominee, none from the removal on,
\* none before it is added.
Blank(n) ==
  \A t \in Weeks :
    t > timeWeight[n] \/ (n \notin Active /\ t = timeWeight[n]) \/ ~Known(n)
      => pointsWeight[n][t] = NoPoint

\* A nominee is ahead of the sum only from its addition to its first vote or walk.
Fresh(n) ==
  timeWeight[n] > timeSum => /\ \A u \in Voters : voteUserSlopes[u][n] = NoVote
                             /\ \A t \in Weeks : pointsWeight[n][t] = NoPoint

NomineeInv(n) ==
  /\ timeWeight[n] <= NextTime
  /\ Blank(n)
  /\ Fresh(n)
  /\ n \in Active => \A s \in Weeks : timeWeight[n] = s => WeightSettled(n, s)
TotalInv ==
  /\ timeSum <= NextTime
  /\ \A s \in Weeks : timeSum = s => SumSettled(s)
PointsInv == TotalInv /\ \A n \in Nominees : NomineeInv(n)

\* What week t of nominee n holds, or will hold once it is walked.
Recorded(n, t) ==
  IF n \in Active /\ t > timeWeight[n] THEN WeightOf(BiasAt(t), n) ELSE pointsWeight[n][t].bias
RecordedSum(t) == SumFunctionOnSet([n \in Nominees |-> Recorded(n, t)], Nominees)

\* A recorded week of the sum is the sum of that week over the nominees.
RecordedInv == \A t \in Weeks : t <= timeSum => pointsSum[t].bias = RecordedSum(t)

\* A vote of a nominee and the points of the sum are typed.
LEMMA PointsTyped ==
  ASSUME TypeOK, NEW t \in Weeks
  PROVE  /\ SumPoint(t) \in Points /\ \A n \in Nominees : WeightPoint(n, t) \in Points
         /\ pointsSum[t] \in Points /\ \A n \in Nominees : pointsWeight[n][t] \in Points
         /\ timeSum \in Weeks /\ \A n \in Nominees : timeWeight[n] \in Weeks
  <1>1. BiasAt(t) \in Measures /\ SlopeAt(t) \in Measures
    BY WeeksAreTimes, MeasuresTyped
  <1>2. /\ TotalOf(BiasAt(t)) \in Nat /\ TotalOf(SlopeAt(t)) \in Nat
        /\ \A n \in Nominees : WeightOf(BiasAt(t), n) \in Nat /\ WeightOf(SlopeAt(t), n) \in Nat
    BY <1>1, TotalTyped, WeightTyped DEF TypeOK
  <1> QED BY <1>2 DEF SumPoint, WeightPoint, Points, TypeOK, WeightsTypeOK

\* The walk of an active nominee fills in its votes, up to the coming week.
LEMMA WeightWalk ==
  ASSUME TypeOK, BackedInv, CheckpointedInTime, NEW n \in Active, NomineeInv(n)
  PROVE  /\ WalkWeight(n).time = NextTime
         /\ WalkWeight(n).bias = WeightOf(BiasAt(NextTime), n)
         /\ \A t \in Weeks : WalkWeight(n).points[t] =
              IF t > timeWeight[n] /\ t <= NextTime THEN WeightPoint(n, t) ELSE pointsWeight[n][t]
         /\ WalkWeight(n).points[NextTime] = WeightPoint(n, NextTime)
  <1>1. /\ n \in Nominees /\ timeWeight[n] \in Weeks /\ timeWeight[n] <= NextTime
        /\ now < timeWeight[n] + MAX_NUM_WEEKS * WEEK
        /\ pointsWeight[n] \in [Weeks -> Points] /\ changesWeight[n] \in [Weeks -> Nat]
    BY DEF Active, TypeOK, WeightsTypeOK, NomineeInv, CheckpointedInTime
  <1>2. PICK last \in Weeks, points \in [Weeks -> Points], changes \in [Weeks -> Nat] :
          last = timeWeight[n] /\ points = pointsWeight[n] /\ changes = changesWeight[n]
    BY <1>1
  <1>3. PICK B, S, E : B = BiasCurve(n) /\ S = SlopeCurve(n) /\ E = EndingCurve(n)
    OBVIOUS
  <1>4. IsCurve(B, S, E)
    BY <1>1, <1>3, VotesCurve
  <1>5. \A t \in Weeks : /\ B[t] = WeightOf(BiasAt(t), n) /\ S[t] = WeightOf(SlopeAt(t), n)
                         /\ E[t] = WeightOf(EndingAt(t), n)
                         /\ [bias |-> B[t], slope |-> S[t]] = WeightPoint(n, t)
    BY <1>3 DEF BiasCurve, SlopeCurve, EndingCurve, WeightPoint
  <1>6. Starts(points, changes, last, B, S, E)
    BY <1>1, <1>2, <1>5 DEF Starts, NomineeInv, WeightSettled
  <1>7. PICK walk : walk = Walk(points, changes, last)
    OBVIOUS
  <1>8. /\ walk.time = NextTime /\ walk.bias = B[NextTime]
        /\ \A t \in Weeks : walk.points[t] =
             IF t > last /\ t <= NextTime THEN [bias |-> B[t], slope |-> S[t]] ELSE points[t]
        /\ walk.points[NextTime] = [bias |-> B[NextTime], slope |-> S[NextTime]]
    BY <1>1, <1>2, <1>4, <1>6, <1>7, WalkFollows
  <1>9. walk = WalkWeight(n) /\ NextTime \in Weeks
    BY <1>2, <1>7, NextTimeFacts DEF WalkWeight
  <1> QED BY <1>2, <1>5, <1>8, <1>9

LEMMA SumWalk ==
  ASSUME TypeOK, BackedInv, CheckpointedInTime, TotalInv
  PROVE  /\ WalkSum.time = NextTime
         /\ WalkSum.bias = TotalOf(BiasAt(NextTime))
         /\ \A t \in Weeks : WalkSum.points[t] =
              IF t > timeSum /\ t <= NextTime THEN SumPoint(t) ELSE pointsSum[t]
         /\ WalkSum.points[NextTime] = SumPoint(NextTime)
  <1>1. /\ timeSum \in Weeks /\ timeSum <= NextTime
        /\ now < timeSum + MAX_NUM_WEEKS * WEEK
        /\ pointsSum \in [Weeks -> Points] /\ changesSum \in [Weeks -> Nat]
    BY DEF TypeOK, WeightsTypeOK, TotalInv, CheckpointedInTime
  <1>2. PICK last \in Weeks, points \in [Weeks -> Points], changes \in [Weeks -> Nat] :
          last = timeSum /\ points = pointsSum /\ changes = changesSum
    BY <1>1
  <1>3. PICK B, S, E : B = BiasTotals /\ S = SlopeTotals /\ E = EndingTotals
    OBVIOUS
  <1>4. IsCurve(B, S, E)
    BY <1>3, VotesCurve
  <1>5. \A t \in Weeks : /\ B[t] = TotalOf(BiasAt(t)) /\ S[t] = TotalOf(SlopeAt(t))
                         /\ E[t] = TotalOf(EndingAt(t))
                         /\ [bias |-> B[t], slope |-> S[t]] = SumPoint(t)
    BY <1>3 DEF BiasTotals, SlopeTotals, EndingTotals, SumPoint
  <1>6. Starts(points, changes, last, B, S, E)
    BY <1>1, <1>2, <1>5 DEF Starts, TotalInv, SumSettled
  <1>7. PICK walk : walk = Walk(points, changes, last)
    OBVIOUS
  <1>8. /\ walk.time = NextTime /\ walk.bias = B[NextTime]
        /\ \A t \in Weeks : walk.points[t] =
             IF t > last /\ t <= NextTime THEN [bias |-> B[t], slope |-> S[t]] ELSE points[t]
        /\ walk.points[NextTime] = [bias |-> B[NextTime], slope |-> S[NextTime]]
    BY <1>1, <1>2, <1>4, <1>6, <1>7, WalkFollows
  <1>9. walk = WalkSum /\ NextTime \in Weeks
    BY <1>2, <1>7, NextTimeFacts DEF WalkSum
  <1> QED BY <1>2, <1>5, <1>8, <1>9

\* A removed nominee has nothing to decay: its walk changes no point, however late.
LEMMA BlankWalk ==
  ASSUME TypeOK, NEW n \in Nominees \ Active, NomineeInv(n)
  PROVE  /\ WalkWeight(n).points = pointsWeight[n]
         /\ WalkWeight(n).time = timeWeight[n] \/ WalkWeight(n).time = NextTime
  <1>1. PICK last \in Weeks, points \in [Weeks -> Points], changes \in [Weeks -> Nat] :
          last = timeWeight[n] /\ points = pointsWeight[n] /\ changes = changesWeight[n]
    BY DEF TypeOK, WeightsTypeOK
  <1>2. /\ WalkLength(last) \in Nat /\ last <= NextTime
        /\ \A i \in 0 .. WalkLength(last) : last + i * WEEK \in Weeks
        /\ last + WalkLength(last) * WEEK > now => last + WalkLength(last) * WEEK = NextTime
    BY <1>1, WalkEnd, WalkStaysInWeeks DEF NomineeInv, TypeOK
  <1>3. \A t \in Weeks : t > last \/ t = last => points[t] = NoPoint
    BY <1>1 DEF NomineeInv, Blank
  <1>4. PICK steps \in Nat : steps = WalkLength(last)
    BY <1>2
  <1>5. PICK pt :
          /\ pt = Walked(points, changes, last)
          /\ pt = [i \in 0 .. steps |-> IF i = 0 THEN points[last]
                                        ELSE Decay(pt[i - 1], changes[last + i * WEEK])]
    BY <1>2, <1>4, WalkedDef
  <1>6. \A e : Decay(NoPoint, e) = NoPoint
    <2>1. NoPoint.bias = 0 /\ NoPoint.slope * WEEK = 0
      BY WeekAssumption DEF NoPoint
    <2>2. ~(NoPoint.bias > NoPoint.slope * WEEK)
      BY <2>1
    <2> QED BY <2>2 DEF Decay
  <1> DEFINE R == {i \in 0 .. steps : pt[i] = NoPoint}
  <1>7. 0 \in R
    <2>1. pt[0] = points[last] /\ 0 \in 0 .. steps
      BY <1>5
    <2> QED BY <2>1, <1>3
  <1>8. ASSUME NEW i \in 0 .. steps, i \in R, i < steps PROVE i + 1 \in R
    <2>1. i \in Nat /\ i + 1 \in 0 .. steps /\ i + 1 # 0 /\ (i + 1) - 1 = i
      BY <1>8
    <2>2. \A j \in 0 .. steps : j # 0 => pt[j] = Decay(pt[j - 1], changes[last + j * WEEK])
      BY <1>5
    <2>3. pt[i + 1] = Decay(pt[(i + 1) - 1], changes[last + (i + 1) * WEEK])
      BY <2>1, <2>2
    <2>4. pt[i] = NoPoint
      BY <1>8
    <2>5. pt[i + 1] = Decay(NoPoint, changes[last + (i + 1) * WEEK])
      BY <2>1, <2>3, <2>4
    <2> QED BY <2>1, <2>5, <1>6
  <1> HIDE DEF R
  <1>9. \A i \in 0 .. steps : i \in R
    BY <1>7, <1>8, IntervalInduction
  <1>10. \A i \in 0 .. steps : pt[i] = NoPoint
    BY <1>9 DEF R
  <1>11. PICK walk : walk = Walk(points, changes, last)
    OBVIOUS
  <1>12. /\ walk.time = IF steps > 0 /\ last + steps * WEEK > now THEN last + steps * WEEK ELSE last
         /\ walk.points = [t \in Weeks |-> IF t > last /\ t <= last + steps * WEEK
                                           THEN pt[(t - last) \div WEEK] ELSE points[t]]
    BY <1>4, <1>5, <1>11 DEF Walk
  <1>13. walk.time = last \/ walk.time = NextTime
    BY <1>2, <1>4, <1>12
  <1>14. ASSUME NEW t \in Weeks, t > last, t <= last + steps * WEEK
         PROVE  (t - last) \div WEEK \in 0 .. steps
    <2>1. t \in Nat /\ last \in Nat /\ t - last \in Nat /\ t - last <= steps * WEEK
      <3>1. steps * WEEK \in Nat
        BY WeekAssumption
      <3> QED BY <1>14, <3>1, WeeksAreTimes
    <2>2. PICK i : i = (t - last) \div WEEK
      OBVIOUS
    <2>3. i \in Nat /\ i * WEEK <= t - last
      BY <2>1, <2>2, RoundDown
    <2>4. i * WEEK <= steps * WEEK
      <3>1. i * WEEK \in Nat /\ steps * WEEK \in Nat
        BY <2>3, WeekAssumption
      <3> QED BY <2>1, <2>3, <3>1
    <2>5. i <= steps
      BY <2>3, <2>4, WeekMonotone
    <2> QED BY <2>2, <2>3, <2>5
  <1>15. \A t \in Weeks : walk.points[t] = points[t]
    BY <1>3, <1>10, <1>12, <1>14
  <1>16. walk.points = points
    BY <1>12, <1>15
  <1> QED BY <1>1, <1>11, <1>13, <1>16 DEF WalkWeight

(***************************************************************************)
(* The points, step by step                                                *)
(***************************************************************************)

\* A nominee whose own maps a step leaves alone.
Untouched(m) ==
  /\ pointsWeight'[m] = pointsWeight[m] /\ changesWeight'[m] = changesWeight[m]
  /\ timeWeight'[m] = timeWeight[m]
  /\ Known(m)' <=> Known(m)
  /\ m \in Active' <=> m \in Active
  /\ \A u \in Voters : \/ voteUserSlopes'[u][m] = voteUserSlopes[u][m]
                       \/ m \notin Active /\ voteUserSlopes'[u][m] = NoVote

LEMMA NomineeKept ==
  ASSUME TypeOK, TypeOK', NEW m \in Nominees, NomineeInv(m), Untouched(m),
         NextTime' >= NextTime, timeSum' >= timeSum
  PROVE  NomineeInv(m)'
  <1>1. /\ timeWeight[m] \in Nat /\ timeSum \in Nat /\ timeSum' \in Nat
        /\ NextTime \in Nat /\ NextTime' \in Nat
    <2>1. NextTime' \in Nat
      <3>1. now' \in Nat
        BY TimeAssumption DEF TypeOK, VeTypeOK
      <3>2. now' + WEEK \in Nat
        <4>1. \A x \in Nat : x + WEEK \in Nat
          BY WeekAssumption
        <4> QED BY <3>1, <4>1
      <3>3. (now' + WEEK) \div WEEK \in Nat
        BY <3>2, RoundDown
      <3> QED BY <3>3, WeekAssumption DEF NextTime
    <2> QED BY <2>1, NextTimeFacts, WeeksAreTimes DEF TypeOK, WeightsTypeOK
  <1>2. timeWeight'[m] <= NextTime'
    BY <1>1 DEF NomineeInv, Untouched
  <1>3. Blank(m)'
    BY DEF NomineeInv, Blank, Untouched
  <1>4. Fresh(m)'
    <2> SUFFICES ASSUME timeWeight'[m] > timeSum'
                 PROVE  /\ \A u \in Voters : voteUserSlopes'[u][m] = NoVote
                        /\ \A t \in Weeks : pointsWeight'[m][t] = NoPoint
      BY DEF Fresh
    <2>1. timeWeight[m] > timeSum
      BY <1>1 DEF Untouched
    <2> QED BY <2>1 DEF NomineeInv, Fresh, Untouched
  <1>5. ASSUME m \in Active', NEW s \in Weeks, timeWeight'[m] = s PROVE WeightSettled(m, s)'
    <2>1. WeightSettled(m, s)
      BY <1>5 DEF Untouched, NomineeInv
    <2>2. \A u \in Voters : voteUserSlopes'[u][m] = voteUserSlopes[u][m]
      BY <1>5 DEF Untouched
    <2>3. ASSUME NEW val PROVE WeightOf(val, m)' = WeightOf(val, m)
      BY <2>2 DEF WeightOf
    <2>4. WeightPoint(m, s)' = WeightPoint(m, s)
      BY <2>3 DEF WeightPoint
    <2>5. \A t \in Weeks : WeightOf(EndingAt(t), m)' = WeightOf(EndingAt(t), m)
      BY <2>3
    <2> QED BY <2>1, <2>4, <2>5 DEF WeightSettled, Untouched
  <1> QED BY <1>2, <1>3, <1>4, <1>5 DEF NomineeInv

\* A nominee and the sum that a step brings to the coming week.
LEMMA NomineeMoved ==
  ASSUME TypeOK, TypeOK', ChangesInv', NEW n \in Nominees, n \in Active',
         UNCHANGED now, timeWeight'[n] = NextTime, timeSum' = NextTime,
         pointsWeight'[n][NextTime] = WeightPoint(n, NextTime)',
         \A t \in Weeks : t > NextTime => pointsWeight'[n][t] = NoPoint
  PROVE  NomineeInv(n)'
  <1>1. /\ NextTime' = NextTime /\ NextTime \in Nat /\ NextTime \in Weeks
        /\ now \in Nat /\ NextTime > now
    BY NextTimeFacts DEF NextTime
  <1>2. Known(n)'
    BY DEF Known, Active
  <1>3. Blank(n)'
    BY <1>2 DEF Blank
  <1>4. Fresh(n)'
    BY <1>1 DEF Fresh
  <1>5. ASSUME NEW s \in Weeks, timeWeight'[n] = s PROVE WeightSettled(n, s)'
    <2>1. s = NextTime
      BY <1>5
    <2>2. ASSUME NEW t \in Weeks, t > s PROVE changesWeight'[n][t] = WeightOf(EndingAt(t), n)'
      <3>1. t > now'
        BY <1>1, <2>1, <2>2, WeeksAreTimes
      <3> QED BY <3>1 DEF ChangesInv
    <2>3. WeightPoint(n, s)' = WeightPoint(n, NextTime)'
      BY <2>1, <1>1 DEF WeightPoint
    <2> QED BY <2>1, <2>2, <2>3 DEF WeightSettled
  <1> QED BY <1>1, <1>3, <1>4, <1>5 DEF NomineeInv

LEMMA SumMoved ==
  ASSUME TypeOK, ChangesInv', UNCHANGED now, timeSum' = NextTime,
         pointsSum'[NextTime] = SumPoint(NextTime)'
  PROVE  TotalInv'
  <1>1. NextTime' = NextTime /\ NextTime \in Nat /\ NextTime \in Weeks
    BY NextTimeFacts DEF NextTime
  <1>2. ASSUME NEW s \in Weeks, timeSum' = s PROVE SumSettled(s)'
    <2>1. s = NextTime
      BY <1>2
    <2>2. ASSUME NEW t \in Weeks, t > s PROVE changesSum'[t] = TotalOf(EndingAt(t))'
      BY <1>1, <2>1, <2>2 DEF ChangesInv
    <2>3. SumPoint(s)' = SumPoint(NextTime)'
      BY <2>1, <1>1 DEF SumPoint
    <2> QED BY <2>1, <2>2, <2>3 DEF SumSettled
  <1> QED BY <1>1, <1>2 DEF TotalInv

LEMMA SumKept ==
  ASSUME TypeOK, TypeOK', TotalInv, UNCHANGED sumVars, NextTime' >= NextTime, NextTime' \in Nat,
         \A t \in Weeks : /\ TotalOf(BiasAt(t))' = TotalOf(BiasAt(t))
                          /\ TotalOf(SlopeAt(t))' = TotalOf(SlopeAt(t))
                          /\ TotalOf(EndingAt(t))' = TotalOf(EndingAt(t))
  PROVE  TotalInv'
  <1>1. timeSum' = timeSum /\ timeSum \in Nat /\ NextTime \in Nat
    BY NextTimeFacts, WeeksAreTimes DEF sumVars, TypeOK, WeightsTypeOK
  <1>2. timeSum' <= NextTime'
    BY <1>1 DEF TotalInv
  <1>3. ASSUME NEW s \in Weeks, timeSum' = s PROVE SumSettled(s)'
    <2>1. SumSettled(s)
      BY <1>1, <1>3 DEF TotalInv
    <2>2. SumPoint(s)' = SumPoint(s)
      BY DEF SumPoint
    <2> QED BY <2>1, <2>2 DEF SumSettled, sumVars
  <1> QED BY <1>2, <1>3 DEF TotalInv

\* A vote is replaced in the point of the coming week: exactly, as the old vote is
\* part of it.
LEMMA RevoteExact ==
  ASSUME TypeOK, NEW walk, walk.points \in [Weeks -> Points], NEW b \in Nat, NEW s \in Nat,
         walk.bias = b, walk.points[NextTime] = [bias |-> b, slope |-> s],
         NEW old \in VotedSlopes, NEW new \in VotedSlopes, NextTime < new.end,
         NEW bias \in Measures, NEW slope \in Measures,
         bias = BiasAt(NextTime), slope = SlopeAt(NextTime), bias[old] <= b, slope[old] <= s
  PROVE  Revote(walk, old, new)[NextTime] =
           [bias |-> b - bias[old] + bias[new], slope |-> s - slope[old] + slope[new]]
  <1>1. /\ NextTime \in Nat /\ NextTime \in Weeks
        /\ old.slope \in Nat /\ old.end \in Nat /\ new.slope \in Nat /\ new.end \in Nat
    BY NextTimeFacts DEF VotedSlopes
  <1>2. /\ bias[old] = IF old.end > NextTime THEN old.slope * (old.end - NextTime) ELSE 0
        /\ slope[old] = IF old.end > NextTime THEN old.slope ELSE 0
        /\ bias[new] = new.slope * (new.end - NextTime) /\ slope[new] = new.slope
    <2>1. new.end > NextTime
      BY <1>1
    <2> QED BY <2>1 DEF BiasAt, SlopeAt
  <1>3. bias[old] \in Nat /\ bias[new] \in Nat /\ slope[old] \in Nat /\ slope[new] \in Nat
    BY DEF Measures
  <1>4. MaxAndSub(b + bias[new], bias[old]) = b - bias[old] + bias[new]
    BY <1>3 DEF MaxAndSub
  <1>5. /\ MaxAndSub(s + slope[new], slope[old]) = s - slope[old] + slope[new]
        /\ slope[old] = 0 => s + slope[new] = s - slope[old] + slope[new]
    BY <1>3 DEF MaxAndSub
  <1>6. Revote(walk, old, new)[NextTime] =
          [bias  |-> MaxAndSub(b + bias[new], bias[old]),
           slope |-> IF old.end > NextTime THEN MaxAndSub(s + slope[new], slope[old])
                     ELSE s + slope[new]]
    <2>1. walk.points[NextTime].slope = s
      OBVIOUS
    <2> QED BY <1>1, <1>2, <2>1 DEF Revote
  <1> QED BY <1>2, <1>4, <1>5, <1>6

LEMMA PointsInit == Init => PointsInv
  <1> SUFFICES ASSUME Init PROVE PointsInv
    OBVIOUS
  <1>0. TypeOK /\ Active = {}
    BY TypeInit DEF Init, VwInit, Active
  <1>1. NextTime \in Nat /\ now = StartTime /\ now \in Nat /\ NextTime > now
    BY <1>0, NextTimeFacts DEF Init, VeInit
  <1>2. timeSum <= NextTime
    <2>1. (StartTime \div WEEK) * WEEK <= StartTime /\ StartTime \div WEEK \in Nat
      BY TimeAssumption, RoundDown
    <2>2. (StartTime \div WEEK) * WEEK \in Nat
      BY <2>1, WeekAssumption
    <2> QED BY <1>1, <2>1, <2>2 DEF Init, VwInit
  <1>3. ASSUME NEW t \in Weeks
        PROVE  TotalOf(BiasAt(t)) = 0 /\ TotalOf(SlopeAt(t)) = 0 /\ TotalOf(EndingAt(t)) = 0
    BY <1>0, NothingActive
  <1>4. \A s \in Weeks : SumSettled(s)
    BY <1>3 DEF SumSettled, SumPoint, Init, VwInit, NoPoint
  <1>5. ASSUME NEW n \in Nominees PROVE NomineeInv(n)
    <2>1. Blank(n) /\ Fresh(n) /\ timeWeight[n] <= NextTime
      BY <1>1 DEF Blank, Fresh, Init, VwInit
    <2> QED BY <1>0, <2>1 DEF NomineeInv
  <1> QED BY <1>2, <1>4, <1>5 DEF PointsInv, TotalInv

\* Steps that move no vote and walk nothing.
LEMMA PointsQuiet ==
  ASSUME TypeOK, TypeOK', PointsInv, now' \in Nat, now' >= now,
         UNCHANGED <<registryVars, voterVars, weightVars, sumVars>>
  PROVE  PointsInv'
  <1>1. NextTime' \in Nat /\ NextTime' >= NextTime
    BY NextTimeGrows
  <1>2. /\ voteUserSlopes' = voteUserSlopes /\ mapNomineeIds' = mapNomineeIds
        /\ mapRemovedNominees' = mapRemovedNominees /\ UNCHANGED <<weightVars, sumVars>>
    BY DEF voterVars, registryVars
  <1>3. TotalInv'
    <2>1. \A val : TotalOf(val)' = TotalOf(val)
      BY <1>2, TotalSame
    <2> QED BY <1>1, <1>2, <2>1, SumKept DEF PointsInv
  <1>4. ASSUME NEW m \in Nominees PROVE NomineeInv(m)'
    <2>1. Untouched(m)
      BY <1>2 DEF Untouched, weightVars, Known, Active
    <2>2. timeSum' >= timeSum
      BY <1>2, WeeksAreTimes DEF sumVars, TypeOK, WeightsTypeOK
    <2> QED BY <1>1, <2>1, <2>2, NomineeKept DEF PointsInv
  <1> QED BY <1>3, <1>4 DEF PointsInv

\* The walk of the sum alone, when no vote moves.
LEMMA SumWalked ==
  ASSUME TypeOK, TypeOK', BackedInv, CheckpointedInTime, PointsInv, ChangesInv', UNCHANGED now,
         voteUserSlopes' = voteUserSlopes, mapNomineeIds' = mapNomineeIds,
         pointsSum' = WalkSum.points, timeSum' = WalkSum.time
  PROVE  TotalInv' /\ timeSum' = NextTime /\ timeSum' >= timeSum
  <1>1. WalkSum.time = NextTime /\ WalkSum.points[NextTime] = SumPoint(NextTime)
    BY SumWalk DEF PointsInv
  <1>2. \A val : TotalOf(val)' = TotalOf(val)
    BY TotalSame
  <1>3. NextTime' = NextTime
    BY DEF NextTime
  <1>4. SumPoint(NextTime)' = SumPoint(NextTime)
    BY <1>2, <1>3 DEF SumPoint
  <1>5. TotalInv'
    BY <1>1, <1>4, SumMoved
  <1> QED BY <1>1, <1>5 DEF PointsInv, TotalInv

LEMMA PointsCheckpoint ==
  ASSUME TypeOK, TypeOK', BackedInv, CheckpointedInTime, PointsInv, ChangesInv', Checkpoint
  PROVE  PointsInv'
  <1>1. /\ UNCHANGED <<now, voteUserSlopes, mapNomineeIds, mapRemovedNominees, weightVars>>
        /\ pointsSum' = WalkSum.points /\ timeSum' = WalkSum.time
    BY DEF Checkpoint, veVars, voterVars, registryVars
  <1>2. TotalInv' /\ timeSum' >= timeSum
    BY <1>1, SumWalked
  <1>3. ASSUME NEW m \in Nominees PROVE NomineeInv(m)'
    <2>1. Untouched(m)
      BY <1>1 DEF Untouched, weightVars, Known, Active
    <2>2. NextTime' >= NextTime
      BY <1>1, NextTimeFacts DEF NextTime
    <2> QED BY <1>2, <2>1, <2>2, NomineeKept DEF PointsInv
  <1> QED BY <1>2, <1>3 DEF PointsInv

LEMMA PointsCheckpointNominee ==
  ASSUME TypeOK, TypeOK', BackedInv, CheckpointedInTime, PointsInv, ChangesInv',
         NEW n \in Nominees, CheckpointNominee(n)
  PROVE  PointsInv'
  <1>1. /\ UNCHANGED <<now, voteUserSlopes, mapNomineeIds, mapRemovedNominees, changesWeight>>
        /\ pointsSum' = WalkSum.points /\ timeSum' = WalkSum.time
        /\ Active' = Active /\ NextTime' = NextTime
    BY DEF CheckpointNominee, veVars, voterVars, registryVars, Active, NextTime
  <1>2. TotalInv' /\ timeSum' = NextTime /\ timeSum' >= timeSum
    BY <1>1, SumWalked
  <1>3. \A m \in Nominees :
          /\ pointsWeight'[m] = IF m = n THEN WalkWeight(n).points ELSE pointsWeight[m]
          /\ timeWeight'[m] = IF m = n THEN WalkWeight(n).time ELSE timeWeight[m]
    BY DEF CheckpointNominee, TypeOK, WeightsTypeOK
  <1>4. /\ NextTime \in Nat /\ timeWeight[n] \in Nat /\ timeWeight[n] <= NextTime
        /\ \A t \in Weeks : t \in Nat
    BY NextTimeFacts, WeeksAreTimes DEF TypeOK, WeightsTypeOK, PointsInv, NomineeInv
  <1>5. ASSUME NEW m \in Nominees \ {n} PROVE NomineeInv(m)'
    <2>1. Untouched(m)
      BY <1>1, <1>3 DEF Untouched, Known, Active
    <2> QED BY <1>1, <1>2, <1>4, <2>1, NomineeKept DEF PointsInv
  <1>6. CASE n \in Active
    <2>1. /\ WalkWeight(n).time = NextTime
          /\ \A t \in Weeks : WalkWeight(n).points[t] =
               IF t > timeWeight[n] /\ t <= NextTime THEN WeightPoint(n, t) ELSE pointsWeight[n][t]
          /\ WalkWeight(n).points[NextTime] = WeightPoint(n, NextTime)
      BY <1>6, WeightWalk DEF PointsInv
    <2>2. WeightPoint(n, NextTime)' = WeightPoint(n, NextTime)
      BY <1>1, WeightSame DEF WeightPoint
    <2>3. ASSUME NEW t \in Weeks, t > NextTime PROVE pointsWeight'[n][t] = NoPoint
      <3>1. t > timeWeight[n] /\ ~(t <= NextTime)
        BY <1>4, <2>3
      <3>2. pointsWeight[n][t] = NoPoint
        BY <3>1 DEF PointsInv, NomineeInv, Blank
      <3> QED BY <1>3, <2>1, <3>1, <3>2
    <2>4. NomineeInv(n)'
      BY <1>1, <1>2, <1>3, <1>6, <2>1, <2>2, <2>3, NomineeMoved
    <2> QED BY <1>2, <1>5, <2>4 DEF PointsInv
  <1>7. CASE n \notin Active
    <2>1. /\ WalkWeight(n).points = pointsWeight[n]
          /\ WalkWeight(n).time = timeWeight[n] \/ WalkWeight(n).time = NextTime
      BY <1>7, BlankWalk DEF PointsInv
    <2>2. timeWeight'[n] <= NextTime' /\ timeWeight'[n] >= timeWeight[n] /\ timeWeight'[n] \in Nat
      BY <1>1, <1>3, <1>4, <2>1
    <2>3. Fresh(n)'
      BY <1>1, <1>2, <1>4, <2>2 DEF Fresh
    <2>4. Blank(n)'
      <3> SUFFICES ASSUME NEW t \in Weeks, t > timeWeight'[n] \/ t = timeWeight'[n] \/ ~Known(n)'
                   PROVE  pointsWeight'[n][t] = NoPoint
        BY DEF Blank
      <3>1. t > timeWeight[n] \/ t = timeWeight[n] \/ ~Known(n)
        BY <1>1, <1>4, <2>2 DEF Known
      <3> QED BY <1>3, <1>7, <2>1, <3>1 DEF PointsInv, NomineeInv, Blank
    <2>5. NomineeInv(n)'
      BY <1>1, <1>7, <2>2, <2>3, <2>4 DEF NomineeInv
    <2> QED BY <1>2, <1>5, <2>5 DEF PointsInv
  <1> QED BY <1>6, <1>7

LEMMA PointsAdd ==
  ASSUME TypeOK, TypeOK', BackedInv, PointsInv, ChangesInv, ChangesInv',
         NEW n \in Nominees, AddNominee(n)
  PROVE  PointsInv'
  <1>1. /\ UNCHANGED <<now, voteUserSlopes, mapRemovedNominees, pointsWeight, changesWeight, sumVars>>
        /\ NextTime' = NextTime
    BY DEF AddNominee, veVars, voterVars, NextTime
  <1>2. \A m \in Nominees : /\ timeWeight'[m] = IF m = n THEN NextTime ELSE timeWeight[m]
                            /\ m # n => mapNomineeIds'[m] = mapNomineeIds[m]
    BY DEF AddNominee, TypeOK, WeightsTypeOK, RegistryTypeOK
  <1>3. ASSUME NEW val \in Measures, val[NoVote] = 0
        PROVE  /\ WeightOf(val, n)' = 0 /\ TotalOf(val)' = TotalOf(val)
               /\ Active' = Active \cup {n} /\ n \notin Active /\ ~Known(n)
    BY <1>3, AddMoves
  <1>4. ASSUME NEW t \in Weeks
        PROVE  /\ WeightOf(BiasAt(t), n)' = 0 /\ WeightOf(SlopeAt(t), n)' = 0
               /\ WeightOf(EndingAt(t), n)' = 0
               /\ TotalOf(BiasAt(t))' = TotalOf(BiasAt(t))
               /\ TotalOf(SlopeAt(t))' = TotalOf(SlopeAt(t))
               /\ TotalOf(EndingAt(t))' = TotalOf(EndingAt(t))
               /\ Active' = Active \cup {n} /\ n \notin Active /\ ~Known(n)
    BY <1>3, WeeksAreTimes, MeasuresTyped
  <1>5. NextTime \in Weeks /\ NextTime \in Nat /\ timeSum' >= timeSum
    BY <1>1, NextTimeFacts, WeeksAreTimes DEF sumVars, TypeOK, WeightsTypeOK
  <1>6. TotalInv'
    BY <1>1, <1>4, <1>5, SumKept DEF PointsInv
  <1>7. ASSUME NEW m \in Nominees \ {n} PROVE NomineeInv(m)'
    <2>1. Untouched(m)
      BY <1>1, <1>2 DEF Untouched, Known, Active
    <2> QED BY <1>1, <1>5, <2>1, NomineeKept DEF PointsInv
  <1>8. \A t \in Weeks : pointsWeight'[n][t] = NoPoint /\ changesWeight'[n][t] = 0
    BY <1>1, <1>4, <1>5 DEF PointsInv, NomineeInv, Blank, ChangesInv
  <1>9. \A u \in Voters : voteUserSlopes'[u][n] = NoVote
    BY <1>1, <1>4, <1>5 DEF BackedInv
  <1>10. \A s \in Weeks : WeightSettled(n, s)'
    BY <1>4, <1>8 DEF WeightSettled, WeightPoint, NoPoint
  <1>11. NomineeInv(n)'
    <2>1. timeWeight'[n] <= NextTime'
      BY <1>1, <1>2, <1>5
    <2> QED BY <2>1, <1>8, <1>9, <1>10 DEF NomineeInv, Blank, Fresh
  <1> QED BY <1>6, <1>7, <1>11 DEF PointsInv

LEMMA PointsRemove ==
  ASSUME TypeOK, TypeOK', RegistryInv, BackedInv, CheckpointedInTime, PointsInv, ChangesInv',
         NEW r \in Owners, NEW n \in Nominees, RemoveNominee(r, n)
  PROVE  PointsInv'
  <1>1. /\ UNCHANGED <<now, voteUserSlopes>> /\ timeSum' = NextTime
        /\ NextTime' = NextTime /\ NextTime \in Weeks /\ NextTime \in Nat
    BY NextTimeFacts DEF RemoveNominee, veVars, voterVars, NextTime
  <1>2. PICK b \in Measures, s \in Measures : b = BiasAt(NextTime) /\ s = SlopeAt(NextTime)
    BY <1>1, MeasuresTyped
  <1>3. ASSUME NEW val \in Measures
        PROVE  /\ \A m \in Nominees : WeightOf(val, m)' = WeightOf(val, m)
               /\ TotalOf(val)' = TotalOf(val) - WeightOf(val, n)
               /\ Active' = Active \ {n} /\ n \in Active
               /\ \A m \in Nominees : Known(m)' <=> Known(m)
    BY RemoveMoves
  <1>4. /\ WalkWeight(n).bias = WeightOf(b, n)
        /\ WalkWeight(n).points[NextTime] = [bias |-> WeightOf(b, n), slope |-> WeightOf(s, n)]
        /\ \A t \in Weeks : WalkWeight(n).points[t] =
             IF t > timeWeight[n] /\ t <= NextTime THEN WeightPoint(n, t) ELSE pointsWeight[n][t]
    BY <1>2, <1>3, WeightWalk DEF PointsInv, WeightPoint
  <1>5. /\ WalkSum.bias = TotalOf(b)
        /\ WalkSum.points[NextTime] = [bias |-> TotalOf(b), slope |-> TotalOf(s)]
    BY <1>2, SumWalk DEF PointsInv, SumPoint
  <1>6. /\ \A v \in Measures : /\ WeightOf(v, n) \in Nat /\ TotalOf(v) \in Nat
                               /\ WeightOf(v, n) <= TotalOf(v)
        /\ WalkSum.points \in [Weeks -> Points] /\ WalkWeight(n).points \in [Weeks -> Points]
    BY <1>2, <1>3, WeightTyped, TotalTyped, WalksTyped DEF TypeOK
  <1>7. pointsSum'[NextTime] = [bias |-> TotalOf(b) - WeightOf(b, n), slope |-> TotalOf(s) - WeightOf(s, n)]
    <2>1. pointsSum' = [WalkSum.points EXCEPT ![NextTime] =
            SumWithout(@, WalkSum.bias, WalkWeight(n).bias, WalkWeight(n).points[NextTime].slope)]
      BY DEF RemoveNominee
    <2>2. pointsSum'[NextTime] =
            SumWithout(WalkSum.points[NextTime], TotalOf(b), WeightOf(b, n), WeightOf(s, n))
      BY <1>1, <1>4, <1>5, <1>6, <2>1
    <2>3. pointsSum'[NextTime] = [bias  |-> MaxAndSub(TotalOf(b), WeightOf(b, n)),
                                  slope |-> MaxAndSub(TotalOf(s), WeightOf(s, n))]
      BY <1>5, <2>2 DEF SumWithout
    <2>4. ASSUME NEW j \in Nat, NEW k \in Nat, k <= j PROVE MaxAndSub(j, k) = j - k
      BY <2>4 DEF MaxAndSub
    <2> QED BY <1>2, <1>6, <2>3, <2>4
  <1>8. pointsSum'[NextTime] = SumPoint(NextTime)'
    <2>1. TotalOf(b)' = TotalOf(b) - WeightOf(b, n) /\ TotalOf(s)' = TotalOf(s) - WeightOf(s, n)
      BY <1>2, <1>3
    <2>2. SumPoint(NextTime)' = [bias |-> TotalOf(b)', slope |-> TotalOf(s)']
      BY <1>1, <1>2 DEF SumPoint
    <2> QED BY <1>7, <2>1, <2>2
  <1>9. TotalInv'
    BY <1>1, <1>8, SumMoved
  <1>10. timeSum' >= timeSum
    BY <1>1 DEF PointsInv, TotalInv
  <1>11. \A m \in Nominees :
          /\ timeWeight'[m] = IF m = n THEN NextTime ELSE timeWeight[m]
          /\ pointsWeight'[m] = IF m = n THEN [WalkWeight(n).points EXCEPT ![NextTime] = NoPoint]
                                ELSE pointsWeight[m]
          /\ m # n => changesWeight'[m] = changesWeight[m]
    BY DEF RemoveNominee, TypeOK, WeightsTypeOK
  <1>12. ASSUME NEW m \in Nominees \ {n} PROVE NomineeInv(m)'
    <2>1. Untouched(m)
      BY <1>1, <1>2, <1>3, <1>11 DEF Untouched
    <2> QED BY <1>1, <1>10, <2>1, NomineeKept DEF PointsInv
  <1>13. NomineeInv(n)'
    <2>1. ASSUME NEW t \in Weeks, t > NextTime \/ t = NextTime
          PROVE  pointsWeight'[n][t] = NoPoint
      <3>1. CASE t = NextTime
        <4>1. pointsWeight'[n] = [WalkWeight(n).points EXCEPT ![NextTime] = NoPoint]
          BY <1>11
        <4> QED BY <1>6, <3>1, <4>1
      <3>2. CASE t > NextTime
        <4>1. t \in Nat /\ timeWeight[n] \in Nat /\ timeWeight[n] <= NextTime
          BY WeeksAreTimes DEF PointsInv, NomineeInv, TypeOK, WeightsTypeOK
        <4>2. t > timeWeight[n] /\ ~(t <= NextTime) /\ t # NextTime
          BY <1>1, <3>2, <4>1
        <4>3. pointsWeight[n][t] = NoPoint
          BY <4>2 DEF PointsInv, NomineeInv, Blank
        <4>4. WalkWeight(n).points[t] = NoPoint
          BY <1>4, <4>2, <4>3
        <4>5. pointsWeight'[n] = [WalkWeight(n).points EXCEPT ![NextTime] = NoPoint]
          BY <1>11
        <4> QED BY <1>6, <4>2, <4>4, <4>5
      <3> QED BY <2>1, <3>1, <3>2
    <2>2. n \notin Active' /\ Known(n)'
      BY <1>2, <1>3 DEF Known, Active
    <2>3. Blank(n)'
      BY <1>11, <2>1, <2>2 DEF Blank
    <2>4. Fresh(n)' /\ timeWeight'[n] <= NextTime'
      BY <1>1, <1>11 DEF Fresh
    <2> QED BY <2>2, <2>3, <2>4 DEF NomineeInv
  <1> QED BY <1>9, <1>12, <1>13 DEF PointsInv

LEMMA PointsVote ==
  ASSUME TypeOK, TypeOK', BackedInv, CheckpointedInTime, PointsInv, ChangesInv',
         NEW u \in Voters, NEW n \in Nominees, NEW w \in 0 .. MAX_WEIGHT + 1,
         VoteForNomineeWeights(u, n, w)
  PROVE  PointsInv'
  <1>1. PICK old, new : old = voteUserSlopes[u][n] /\ new = VoteOf(u, w)
    OBVIOUS
  <1>2. /\ n \in Active /\ old \in VotedSlopes /\ new \in VotedSlopes /\ NextTime < new.end
        /\ voteUserSlopes' = [voteUserSlopes EXCEPT ![u][n] = new]
        /\ UNCHANGED <<now, registryVars>> /\ NextTime' = NextTime
        /\ NextTime \in Weeks /\ NextTime \in Nat
    BY <1>1, VoteFacts, NextTimeFacts DEF VoteOf, veVars, NextTime
  <1>3. PICK b \in Measures, s \in Measures : b = BiasAt(NextTime) /\ s = SlopeAt(NextTime)
    BY <1>2, MeasuresTyped
  <1>4. ASSUME NEW val \in Measures
        PROVE  /\ WeightOf(val, n)' = WeightOf(val, n) - val[old] + val[new]
               /\ TotalOf(val)' = TotalOf(val) - val[old] + val[new]
               /\ Active' = Active
               /\ WeightOf(val, n) \in Nat /\ TotalOf(val) \in Nat
               /\ val[old] \in Nat /\ val[old] <= WeightOf(val, n) /\ val[old] <= TotalOf(val)
    <2>1. /\ WeightOf(val, n)' = WeightOf(val, n) - val[old] + val[new]
          /\ TotalOf(val)' = TotalOf(val) - val[old] + val[new]
          /\ Active' = Active
      BY <1>1, VoteMoves
    <2>2. /\ WeightOf(val, n) \in Nat /\ TotalOf(val) \in Nat /\ WeightOf(val, n) <= TotalOf(val)
          /\ val[old] \in Nat /\ val[old] <= WeightOf(val, n)
      BY <1>1, <1>2, WeightTyped, TotalTyped DEF TypeOK
    <2> QED BY <2>1, <2>2
  <1>5. /\ WalkWeight(n).time = NextTime /\ WalkWeight(n).bias = WeightOf(b, n)
        /\ WalkWeight(n).points[NextTime] = [bias |-> WeightOf(b, n), slope |-> WeightOf(s, n)]
        /\ \A t \in Weeks : WalkWeight(n).points[t] =
             IF t > timeWeight[n] /\ t <= NextTime THEN WeightPoint(n, t) ELSE pointsWeight[n][t]
    BY <1>2, <1>3, WeightWalk DEF PointsInv, WeightPoint
  <1>6. /\ WalkSum.time = NextTime /\ WalkSum.bias = TotalOf(b)
        /\ WalkSum.points[NextTime] = [bias |-> TotalOf(b), slope |-> TotalOf(s)]
    BY <1>3, SumWalk DEF PointsInv, SumPoint
  <1>7. WalkSum.points \in [Weeks -> Points] /\ WalkWeight(n).points \in [Weeks -> Points]
    BY WalksTyped
  <1>8. Revote(WalkWeight(n), old, new)[NextTime] = WeightPoint(n, NextTime)'
    <2>1. PICK x \in Nat, y \in Nat : x = WeightOf(b, n) /\ y = WeightOf(s, n)
      BY <1>3, <1>4
    <2>2. PICK walk : walk = WalkWeight(n)
      OBVIOUS
    <2>3. Revote(walk, old, new)[NextTime] =
            [bias |-> x - b[old] + b[new], slope |-> y - s[old] + s[new]]
      BY <1>2, <1>3, <1>4, <1>5, <1>7, <2>1, <2>2, RevoteExact
    <2>4. WeightPoint(n, NextTime)' = [bias |-> WeightOf(b, n)', slope |-> WeightOf(s, n)']
      BY <1>2, <1>3 DEF WeightPoint
    <2> QED BY <1>3, <1>4, <2>1, <2>2, <2>3, <2>4
  <1>9. Revote(WalkSum, old, new)[NextTime] = SumPoint(NextTime)'
    <2>1. PICK x \in Nat, y \in Nat : x = TotalOf(b) /\ y = TotalOf(s)
      BY <1>3, <1>4
    <2>2. PICK walk : walk = WalkSum
      OBVIOUS
    <2>3. Revote(walk, old, new)[NextTime] =
            [bias |-> x - b[old] + b[new], slope |-> y - s[old] + s[new]]
      BY <1>2, <1>3, <1>4, <1>6, <1>7, <2>1, <2>2, RevoteExact
    <2>4. SumPoint(NextTime)' = [bias |-> TotalOf(b)', slope |-> TotalOf(s)']
      BY <1>2, <1>3 DEF SumPoint
    <2> QED BY <1>3, <1>4, <2>1, <2>2, <2>3, <2>4
  <1>10. /\ pointsSum' = Revote(WalkSum, old, new) /\ timeSum' = NextTime
         /\ \A m \in Nominees :
              /\ pointsWeight'[m] = IF m = n THEN Revote(WalkWeight(n), old, new) ELSE pointsWeight[m]
              /\ timeWeight'[m] = IF m = n THEN NextTime ELSE timeWeight[m]
              /\ m # n => changesWeight'[m] = changesWeight[m]
    BY <1>1, <1>5, <1>6 DEF VoteForNomineeWeights, TypeOK, WeightsTypeOK
  <1>11. TotalInv' /\ timeSum' >= timeSum
    <2>1. TotalInv'
      BY <1>2, <1>9, <1>10, SumMoved
    <2> QED BY <2>1, <1>10 DEF PointsInv, TotalInv
  <1>12. ASSUME NEW m \in Nominees \ {n} PROVE NomineeInv(m)'
    <2>1. \A x \in Voters : voteUserSlopes'[x][m] = voteUserSlopes[x][m]
      BY <1>2 DEF TypeOK, VotesTypeOK
    <2>2. Untouched(m)
      BY <1>2, <1>10, <2>1 DEF Untouched, registryVars, Known, Active
    <2> QED BY <1>2, <1>11, <2>2, NomineeKept DEF PointsInv
  <1>13. NomineeInv(n)'
    <2>1. ASSUME NEW t \in Weeks, t > NextTime PROVE pointsWeight'[n][t] = NoPoint
      <3>1. t \in Nat /\ timeWeight[n] \in Nat /\ timeWeight[n] <= NextTime
        BY WeeksAreTimes DEF PointsInv, NomineeInv, TypeOK, WeightsTypeOK
      <3>2. t > timeWeight[n] /\ ~(t <= NextTime) /\ t # NextTime
        BY <1>2, <2>1, <3>1
      <3>3. pointsWeight[n][t] = NoPoint
        BY <3>2 DEF PointsInv, NomineeInv, Blank
      <3>4. WalkWeight(n).points[t] = NoPoint
        BY <1>5, <3>2, <3>3
      <3>5. Revote(WalkWeight(n), old, new)[t] = WalkWeight(n).points[t]
        BY <3>2, RevoteKeeps
      <3> QED BY <1>10, <3>4, <3>5
    <2>2. n \in Active'
      BY <1>2, <1>3, <1>4
    <2> QED BY <1>2, <1>8, <1>10, <2>1, <2>2, NomineeMoved
  <1> QED BY <1>11, <1>12, <1>13 DEF PointsInv

LEMMA PointsRevoke ==
  ASSUME TypeOK, TypeOK', RegistryInv, PointsInv,
         NEW u \in Voters, NEW n \in Nominees, RevokeRemovedNomineeVotingPower(u, n)
  PROVE  PointsInv'
  <1>1. /\ n \notin Active /\ voteUserSlopes' = [voteUserSlopes EXCEPT ![u][n] = NoVote]
        /\ UNCHANGED <<now, registryVars, weightVars, sumVars>> /\ NextTime' = NextTime
        /\ NextTime \in Nat
    BY RevokeFacts, NextTimeFacts DEF veVars, NextTime
  <1>2. \A val \in Measures : TotalOf(val)' = TotalOf(val)
    BY RevokeMoves
  <1>3. ASSUME NEW t \in Weeks
        PROVE  /\ TotalOf(BiasAt(t))' = TotalOf(BiasAt(t))
               /\ TotalOf(SlopeAt(t))' = TotalOf(SlopeAt(t))
               /\ TotalOf(EndingAt(t))' = TotalOf(EndingAt(t))
    BY <1>2, WeeksAreTimes, MeasuresTyped
  <1>4. TotalInv'
    BY <1>1, <1>3, SumKept DEF PointsInv
  <1>5. ASSUME NEW m \in Nominees PROVE NomineeInv(m)'
    <2>1. \A x \in Voters : \/ voteUserSlopes'[x][m] = voteUserSlopes[x][m]
                            \/ m \notin Active /\ voteUserSlopes'[x][m] = NoVote
      BY <1>1 DEF TypeOK, VotesTypeOK
    <2>2. Untouched(m)
      BY <1>1, <2>1 DEF Untouched, registryVars, weightVars, Known, Active
    <2>3. timeSum' >= timeSum
      BY <1>1, WeeksAreTimes DEF sumVars, TypeOK, WeightsTypeOK
    <2> QED BY <1>1, <2>2, <2>3, NomineeKept DEF PointsInv
  <1> QED BY <1>4, <1>5 DEF PointsInv

LEMMA PointsNext ==
  TypeOK /\ TypeOK' /\ RegistryInv /\ LockInv /\ BackedInv /\ CheckpointedInTime /\ PointsInv
    /\ ChangesInv /\ ChangesInv' /\ [Next]_vars => PointsInv'
  <1> SUFFICES ASSUME TypeOK, TypeOK', RegistryInv, LockInv, BackedInv, CheckpointedInTime,
                      PointsInv, ChangesInv, ChangesInv', [Next]_vars
               PROVE  PointsInv'
    OBVIOUS
  <1>1. CASE VeStep
    <2>1. now' \in Nat /\ now' >= now
      BY <1>1, VeStepFacts, LocksGrow DEF TypeOK
    <2> QED BY <1>1, <2>1, VeStepFacts, PointsQuiet
  <1>2. CASE StillStep
    <2>1. now' = now /\ now \in Nat
      BY <1>2, NextTimeFacts DEF StillStep, veVars
    <2> QED BY <1>2, <2>1, PointsQuiet DEF StillStep
  <1>3. CASE Checkpoint
    BY <1>3, PointsCheckpoint
  <1>4. CASE \E n \in Nominees : CheckpointNominee(n)
    BY <1>4, PointsCheckpointNominee
  <1>5. CASE \E n \in Nominees : AddNominee(n)
    BY <1>5, PointsAdd
  <1>6. CASE \E s \in Owners, n \in Nominees : RemoveNominee(s, n)
    BY <1>6, PointsRemove
  <1>7. CASE \E u \in Voters, n \in Nominees, w \in 0 .. MAX_WEIGHT + 1 :
               VoteForNomineeWeights(u, n, w)
    BY <1>7, PointsVote
  <1>8. CASE \E u \in Voters, n \in Nominees : RevokeRemovedNomineeVotingPower(u, n)
    BY <1>8, PointsRevoke
  <1> QED BY <1>1, <1>2, <1>3, <1>4, <1>5, <1>6, <1>7, <1>8, StepKinds

(***************************************************************************)
(* What the points say of the votes                                        *)
(***************************************************************************)

\* What a vote weighs, by the measures.
LEMMA VoteMeasures ==
  ASSUME TypeOK, NEW u \in Voters, NEW n \in Nominees, NEW t
  PROVE  /\ BiasAt(t)[voteUserSlopes[u][n]] = VoteBias(u, n, t)
         /\ SlopeAt(t)[voteUserSlopes[u][n]] = VoteSlope(u, n, t)
         /\ EndingAt(t)[voteUserSlopes[u][n]] = VoteEnding(u, n, t)
  <1>1. voteUserSlopes[u][n] \in VotedSlopes
    BY DEF TypeOK, VotesTypeOK
  <1> QED BY <1>1 DEF BiasAt, SlopeAt, EndingAt, VoteBias, VoteSlope, VoteEnding

LEMMA WeightByVotes ==
  ASSUME TypeOK, NEW n \in Nominees, NEW t
  PROVE  /\ WeightOf(BiasAt(t), n) = SumOver(Voters, LAMBDA u : VoteBias(u, n, t))
         /\ WeightOf(SlopeAt(t), n) = SumOver(Voters, LAMBDA u : VoteSlope(u, n, t))
         /\ WeightOf(EndingAt(t), n) = SumOver(Voters, LAMBDA u : VoteEnding(u, n, t))
  <1>1. /\ [u \in Voters |-> BiasAt(t)[voteUserSlopes[u][n]]] = [u \in Voters |-> VoteBias(u, n, t)]
        /\ [u \in Voters |-> SlopeAt(t)[voteUserSlopes[u][n]]] = [u \in Voters |-> VoteSlope(u, n, t)]
        /\ [u \in Voters |-> EndingAt(t)[voteUserSlopes[u][n]]] = [u \in Voters |-> VoteEnding(u, n, t)]
    BY VoteMeasures
  <1> QED BY <1>1 DEF WeightOf, SumOver

\* The total of a measure as one sum over voters and active nominees.
LEMMA TotalByPairs ==
  ASSUME TypeOK, NEW val \in Measures, NEW f,
         \A u \in Voters, n \in Active : f[<<u, n>>] = val[voteUserSlopes[u][n]]
  PROVE  SumFunctionOnSet(f, Voters \X Active) = TotalOf(val)
  <1>1. Active \in SUBSET Nominees /\ IsFiniteSet(Active)
    BY NomineesFinite, FS_Subset DEF Active
  <1>2. PICK g, h : g = [n \in Active |-> WeightOf(val, n)] /\ h = [n \in Nominees |-> ActiveWeight(val, n)]
    OBVIOUS
  <1>3. IsRowSum(f, Voters, Active, g)
    <2> SUFFICES ASSUME NEW n \in Active
                 PROVE  /\ \A u \in Voters : f[<<u, n>>] \in Int
                        /\ g[n] = SumFunctionOnSet([u \in Voters |-> f[<<u, n>>]], Voters)
      BY DEF IsRowSum
    <2>1. ASSUME NEW u \in Voters PROVE f[<<u, n>>] \in Int
      <3>1. val[voteUserSlopes[u][n]] \in Nat
        BY <1>1, WeightTyped DEF TypeOK
      <3> QED BY <3>1
    <2>2. [u \in Voters |-> f[<<u, n>>]] = [u \in Voters |-> val[voteUserSlopes[u][n]]]
      OBVIOUS
    <2> QED BY <1>2, <2>1, <2>2 DEF WeightOf
  <1>4. SumFunctionOnSet(f, Voters \X Active) = SumFunctionOnSet(g, Active)
    BY <1>1, <1>3, NomineesFinite, SumProduct
  <1>5. \A n \in Nominees : h[n] \in Nat
    BY <1>2, WeightTyped DEF TypeOK
  <1>6. SumFunctionOnSet(h, Nominees) =
          SumFunctionOnSet(h, Active) + SumFunctionOnSet(h, Nominees \ Active)
    BY <1>1, <1>5, NomineesFinite, SumSplit
  <1>7. SumFunctionOnSet(h, Nominees \ Active) = 0
    <2>1. IsFiniteSet(Nominees \ Active)
      BY NomineesFinite, FS_Subset
    <2>2. \A n \in Nominees \ Active : h[n] = 0
      BY <1>2 DEF ActiveWeight
    <2> QED BY <2>1, <2>2, SumZero
  <1>8. SumFunctionOnSet(h, Active) = SumFunctionOnSet(g, Active)
    <2>1. \A n \in Active : h[n] \in Int /\ h[n] = g[n]
      BY <1>1, <1>2, <1>5 DEF ActiveWeight
    <2> QED BY <1>1, <2>1, SumAgree
  <1>9. SumFunctionOnSet(h, Active) \in Nat
    BY <1>1, <1>5, SumNat
  <1> QED BY <1>2, <1>4, <1>6, <1>7, <1>8, <1>9 DEF TotalOf

LEMMA TotalByVotes ==
  ASSUME TypeOK, NEW t \in Weeks
  PROVE  /\ TotalOf(BiasAt(t)) = SumOver(Voters \X Active, LAMBDA p : VoteBias(p[1], p[2], t))
         /\ TotalOf(SlopeAt(t)) = SumOver(Voters \X Active, LAMBDA p : VoteSlope(p[1], p[2], t))
         /\ TotalOf(EndingAt(t)) = SumOver(Voters \X Active, LAMBDA p : VoteEnding(p[1], p[2], t))
  <1>1. PICK b \in Measures, s \in Measures, e \in Measures :
          b = BiasAt(t) /\ s = SlopeAt(t) /\ e = EndingAt(t)
    BY WeeksAreTimes, MeasuresTyped
  <1>2. PICK fb, fs, fe : /\ fb = [p \in Voters \X Active |-> VoteBias(p[1], p[2], t)]
                          /\ fs = [p \in Voters \X Active |-> VoteSlope(p[1], p[2], t)]
                          /\ fe = [p \in Voters \X Active |-> VoteEnding(p[1], p[2], t)]
    OBVIOUS
  <1>3. ASSUME NEW u \in Voters, NEW n \in Active
        PROVE  /\ fb[<<u, n>>] = b[voteUserSlopes[u][n]] /\ fs[<<u, n>>] = s[voteUserSlopes[u][n]]
               /\ fe[<<u, n>>] = e[voteUserSlopes[u][n]]
    <2>1. n \in Nominees
      BY DEF Active
    <2>2. /\ b[voteUserSlopes[u][n]] = VoteBias(u, n, t)
          /\ s[voteUserSlopes[u][n]] = VoteSlope(u, n, t)
          /\ e[voteUserSlopes[u][n]] = VoteEnding(u, n, t)
      BY <1>1, <2>1, VoteMeasures
    <2>3. <<u, n>> \in Voters \X Active
      OBVIOUS
    <2> QED BY <1>2, <2>2, <2>3
  <1>4. /\ SumFunctionOnSet(fb, Voters \X Active) = TotalOf(b)
        /\ SumFunctionOnSet(fs, Voters \X Active) = TotalOf(s)
        /\ SumFunctionOnSet(fe, Voters \X Active) = TotalOf(e)
    BY <1>3, TotalByPairs
  <1> QED BY <1>1, <1>2, <1>4 DEF SumOver

LEMMA PointsAreVotes ==
  ASSUME TypeOK, ChangesInv, PointsInv
  PROVE  WeightIsVotes /\ SumIsVotes
  <1>1. ASSUME NEW n \in Active
        PROVE  /\ pointsWeight[n][timeWeight[n]] =
                    [bias  |-> SumOver(Voters, LAMBDA u : VoteBias(u, n, timeWeight[n])),
                     slope |-> SumOver(Voters, LAMBDA u : VoteSlope(u, n, timeWeight[n]))]
               /\ \A t \in Weeks : t > now \/ t > timeWeight[n] =>
                    changesWeight[n][t] = SumOver(Voters, LAMBDA u : VoteEnding(u, n, t))
    <2>1. n \in Nominees
      BY DEF Active
    <2>2. timeWeight[n] \in Weeks
      BY <2>1 DEF TypeOK, WeightsTypeOK
    <2>3. WeightSettled(n, timeWeight[n])
      BY <2>1, <2>2 DEF PointsInv, NomineeInv
    <2>4. pointsWeight[n][timeWeight[n]] =
            [bias |-> WeightOf(BiasAt(timeWeight[n]), n), slope |-> WeightOf(SlopeAt(timeWeight[n]), n)]
      BY <2>3 DEF WeightSettled, WeightPoint
    <2>5. /\ WeightOf(BiasAt(timeWeight[n]), n) =
               SumOver(Voters, LAMBDA u : VoteBias(u, n, timeWeight[n]))
          /\ WeightOf(SlopeAt(timeWeight[n]), n) =
               SumOver(Voters, LAMBDA u : VoteSlope(u, n, timeWeight[n]))
      BY <2>1, WeightByVotes DEF SumOver
    <2>6. ASSUME NEW t \in Weeks, t > now \/ t > timeWeight[n]
          PROVE  changesWeight[n][t] = SumOver(Voters, LAMBDA u : VoteEnding(u, n, t))
      <3>1. changesWeight[n][t] = WeightOf(EndingAt(t), n)
        BY <2>3, <2>6 DEF WeightSettled, ChangesInv
      <3> QED BY <2>1, <3>1, WeightByVotes
    <2> QED BY <2>4, <2>5, <2>6
  <1>2. SumIsVotes
    <2>1. timeSum \in Weeks
      BY DEF TypeOK, WeightsTypeOK
    <2>2. SumSettled(timeSum)
      BY <2>1 DEF PointsInv, TotalInv
    <2>3. pointsSum[timeSum] = [bias |-> TotalOf(BiasAt(timeSum)), slope |-> TotalOf(SlopeAt(timeSum))]
      BY <2>2 DEF SumSettled, SumPoint
    <2>4. /\ TotalOf(BiasAt(timeSum)) =
               SumOver(Voters \X Active, LAMBDA p : VoteBias(p[1], p[2], timeSum))
          /\ TotalOf(SlopeAt(timeSum)) =
               SumOver(Voters \X Active, LAMBDA p : VoteSlope(p[1], p[2], timeSum))
      BY <2>1, TotalByVotes
    <2>5. ASSUME NEW t \in Weeks, t > timeSum
          PROVE  changesSum[t] = SumOver(Voters \X Active, LAMBDA p : VoteEnding(p[1], p[2], t))
      BY <2>2, <2>5, TotalByVotes DEF SumSettled
    <2> QED BY <2>3, <2>4, <2>5 DEF SumIsVotes
  <1> QED BY <1>1, <1>2 DEF WeightIsVotes

\* As long as the sum and every active nominee are walked within MAX_NUM_WEEKS weeks:
\* the last point of an active nominee and its slope changes are the votes on it.
THEOREM WeightsFollowVotes == Spec /\ []CheckpointedInTime => []WeightIsVotes
  <1>1. TypeOK /\ RegistryInv /\ RegistryInv' /\ [Next]_vars => TypeOK'
    BY TypeNext
  <1>2. TypeOK /\ ChangesInv /\ PointsInv => WeightIsVotes
    BY PointsAreVotes
  <1> QED BY <1>1, <1>2, TypeInit, RegistryInit, RegistryNext, LockInit, LockNext, BackedInit,
             BackedNext, ChangesInit, ChangesNext, PointsInit, PointsNext, PTL DEF Spec

\* On the same condition: the last point of the sum and its slope changes are the votes
\* on the active nominees, whatever was removed.
THEOREM SumFollowsVotes == Spec /\ []CheckpointedInTime => []SumIsVotes
  <1>1. TypeOK /\ RegistryInv /\ RegistryInv' /\ [Next]_vars => TypeOK'
    BY TypeNext
  <1>2. TypeOK /\ ChangesInv /\ PointsInv => SumIsVotes
    BY PointsAreVotes
  <1> QED BY <1>1, <1>2, TypeInit, RegistryInit, RegistryNext, LockInit, LockNext, BackedInit,
             BackedNext, ChangesInit, ChangesNext, PointsInit, PointsNext, PTL DEF Spec

(***************************************************************************)
(* The weeks of the nominees and of the sum                                *)
(***************************************************************************)

LEMMA RecordedTyped ==
  ASSUME TypeOK, NEW t \in Weeks, NEW n \in Nominees
  PROVE  Recorded(n, t) \in Nat /\ pointsWeight[n][t].bias \in Nat /\ pointsSum[t].bias \in Nat
  <1>1. WeightOf(BiasAt(t), n) \in Nat
    BY WeeksAreTimes, MeasuresTyped, WeightTyped DEF TypeOK
  <1>2. pointsWeight[n][t] \in Points /\ pointsSum[t] \in Points
    BY PointsTyped
  <1> QED BY <1>1, <1>2 DEF Recorded, Points

\* From the last week of the sum on, and in the coming week, the weeks hold or will
\* hold all votes on the active nominees.
LEMMA RecordedAhead ==
  TypeOK /\ PointsInv =>
    \A t \in Weeks : t > timeSum \/ t = NextTime => RecordedSum(t) = TotalOf(BiasAt(t))
  <1> SUFFICES ASSUME TypeOK, PointsInv, NEW t \in Weeks, t > timeSum \/ t = NextTime
               PROVE  RecordedSum(t) = TotalOf(BiasAt(t))
    OBVIOUS
  <1>1. ASSUME NEW n \in Nominees PROVE Recorded(n, t) = ActiveWeight(BiasAt(t), n)
    <2>1. /\ timeWeight[n] \in Nat /\ timeSum \in Nat /\ NextTime \in Nat /\ t \in Nat
          /\ timeWeight[n] <= NextTime /\ Blank(n) /\ Fresh(n) /\ NoPoint.bias = 0
      BY NextTimeFacts, WeeksAreTimes DEF TypeOK, WeightsTypeOK, PointsInv, NomineeInv, NoPoint
    <2>2. CASE t < timeWeight[n]
      <3>1. timeWeight[n] > timeSum
        BY <2>1, <2>2
      <3>2. /\ \A u \in Voters : voteUserSlopes[u][n] = NoVote
            /\ pointsWeight[n][t] = NoPoint
        BY <2>1, <3>1 DEF Fresh
      <3>3. PICK val : val = BiasAt(t) /\ val[NoVote] = 0
        BY <2>1, MeasuresTyped
      <3>4. WeightOf(BiasAt(t), n) = 0
        BY <3>2, <3>3, WeightZero
      <3> QED BY <2>1, <2>2, <3>2, <3>4 DEF Recorded, ActiveWeight
    <2>3. CASE t = timeWeight[n]
      <3>1. CASE n \in Active
        <4>1. WeightSettled(n, t)
          BY <2>3, <3>1 DEF PointsInv, NomineeInv
        <4>2. pointsWeight[n][t].bias = WeightOf(BiasAt(t), n)
          BY <4>1 DEF WeightSettled, WeightPoint
        <4> QED BY <2>1, <2>3, <3>1, <4>2 DEF Recorded, ActiveWeight
      <3>2. CASE n \notin Active
        BY <2>1, <2>3, <3>2 DEF Blank, Recorded, ActiveWeight
      <3> QED BY <3>1, <3>2
    <2>4. CASE t > timeWeight[n]
      BY <2>1, <2>4 DEF Blank, Recorded, ActiveWeight
    <2> QED BY <2>1, <2>2, <2>3, <2>4
  <1>2. [n \in Nominees |-> Recorded(n, t)] = [n \in Nominees |-> ActiveWeight(BiasAt(t), n)]
    BY <1>1
  <1> QED BY <1>2 DEF RecordedSum, TotalOf

\* A week that has begun holds what it held, or the votes that its walk finds.
LEMMA RecordedUntouched ==
  ASSUME NEW m \in Nominees, Untouched(m), NEW t
  PROVE  Recorded(m, t)' = Recorded(m, t)
  <1>1. m \in Active => WeightOf(BiasAt(t), m)' = WeightOf(BiasAt(t), m)
    BY DEF Untouched, WeightOf
  <1> QED BY <1>1 DEF Untouched, Recorded

LEMMA RecordedWalked ==
  ASSUME TypeOK, BackedInv, CheckpointedInTime, PointsInv, NEW n \in Active,
         NEW t \in Weeks, t < NextTime, timeWeight'[n] = NextTime,
         pointsWeight'[n][t] = WalkWeight(n).points[t]
  PROVE  Recorded(n, t)' = Recorded(n, t)
  <1>1. NextTime \in Nat /\ t \in Nat /\ n \in Nominees
    BY NextTimeFacts, WeeksAreTimes DEF Active
  <1>2. WalkWeight(n).points[t] =
          IF t > timeWeight[n] /\ t <= NextTime THEN WeightPoint(n, t) ELSE pointsWeight[n][t]
    BY <1>1, WeightWalk DEF PointsInv
  <1>3. Recorded(n, t) = WalkWeight(n).points[t].bias
    BY <1>1, <1>2 DEF Recorded, WeightPoint
  <1>4. ~(t > timeWeight'[n])
    BY <1>1
  <1>5. Recorded(n, t)' = pointsWeight'[n][t].bias
    BY <1>4 DEF Recorded
  <1> QED BY <1>3, <1>5

LEMMA RecordedStay ==
  ASSUME TypeOK, TypeOK', RegistryInv, BackedInv, CheckpointedInTime, PointsInv, [Next]_vars,
         NEW t \in Weeks, t < NextTime, NEW m \in Nominees
  PROVE  Recorded(m, t)' = Recorded(m, t)
  <1>0. WeightsTypeOK /\ NextTime \in Nat /\ t \in Nat
    BY NextTimeFacts, WeeksAreTimes DEF TypeOK
  <1>1. CASE VeStep \/ StillStep \/ Checkpoint
    <2>1. UNCHANGED <<registryVars, voterVars, weightVars>>
      BY <1>1, VeStepFacts DEF StillStep, Checkpoint
    <2>2. Untouched(m)
      BY <2>1 DEF Untouched, registryVars, voterVars, weightVars, Known, Active
    <2> QED BY <2>2, RecordedUntouched
  <1>2. ASSUME NEW n \in Nominees, CheckpointNominee(n) PROVE Recorded(m, t)' = Recorded(m, t)
    <2>1. /\ UNCHANGED <<registryVars, voterVars, changesWeight>> /\ Active' = Active
          /\ \A x \in Nominees :
               /\ pointsWeight'[x] = IF x = n THEN WalkWeight(n).points ELSE pointsWeight[x]
               /\ timeWeight'[x] = IF x = n THEN WalkWeight(n).time ELSE timeWeight[x]
      BY <1>0, <1>2 DEF CheckpointNominee, WeightsTypeOK, registryVars, Active
    <2>2. CASE m # n
      <3>1. Untouched(m)
        BY <2>1, <2>2 DEF Untouched, registryVars, voterVars, Known, Active
      <3> QED BY <3>1, RecordedUntouched
    <2>3. CASE m = n /\ n \in Active
      <3>1. WalkWeight(n).time = NextTime
        BY <2>3, WeightWalk DEF PointsInv
      <3> QED BY <2>1, <2>3, <3>1, RecordedWalked
    <2>4. CASE m = n /\ n \notin Active
      <3>1. pointsWeight'[n] = pointsWeight[n]
        BY <2>1, <2>4, BlankWalk DEF PointsInv
      <3> QED BY <2>1, <2>4, <3>1 DEF Recorded
    <2> QED BY <2>2, <2>3, <2>4
  <1>3. ASSUME NEW n \in Nominees, AddNominee(n) PROVE Recorded(m, t)' = Recorded(m, t)
    <2>1. /\ UNCHANGED <<voterVars, mapRemovedNominees, pointsWeight, changesWeight>>
          /\ n \notin Active
          /\ \A x \in Nominees : /\ timeWeight'[x] = IF x = n THEN NextTime ELSE timeWeight[x]
                                 /\ x # n => mapNomineeIds'[x] = mapNomineeIds[x]
      BY <1>0, <1>3 DEF AddNominee, WeightsTypeOK, TypeOK, RegistryTypeOK, Active
    <2>2. CASE m # n
      <3>1. Untouched(m)
        BY <2>1, <2>2 DEF Untouched, voterVars, Known, Active
      <3> QED BY <3>1, RecordedUntouched
    <2>3. CASE m = n
      <3>1. ~(t > timeWeight'[n])
        BY <1>0, <2>1
      <3> QED BY <2>1, <2>3, <3>1 DEF Recorded
    <2> QED BY <2>2, <2>3
  <1>4. ASSUME NEW r \in Owners, NEW n \in Nominees, RemoveNominee(r, n)
        PROVE  Recorded(m, t)' = Recorded(m, t)
    <2>1. PICK val \in Measures : val = BiasAt(t)
      BY <1>0, MeasuresTyped
    <2>2. /\ Active' = Active \ {n} /\ n \in Active
          /\ \A x \in Nominees : Known(x)' <=> Known(x)
      BY <1>4, RemoveMoves
    <2>3. \A x \in Nominees :
            /\ timeWeight'[x] = IF x = n THEN NextTime ELSE timeWeight[x]
            /\ pointsWeight'[x] = IF x = n THEN [WalkWeight(n).points EXCEPT ![NextTime] = NoPoint]
                                  ELSE pointsWeight[x]
            /\ x # n => changesWeight'[x] = changesWeight[x]
      BY <1>0, <1>4 DEF RemoveNominee, WeightsTypeOK
    <2>4. CASE m # n
      <3>1. Untouched(m)
        BY <1>4, <2>2, <2>3, <2>4 DEF Untouched, RemoveNominee, voterVars
      <3> QED BY <3>1, RecordedUntouched
    <2>5. CASE m = n
      <3>1. pointsWeight'[n] = [WalkWeight(n).points EXCEPT ![NextTime] = NoPoint] /\ t # NextTime
        BY <1>0, <2>3
      <3>2. WalkWeight(n).points \in [Weeks -> Points]
        BY WalksTyped
      <3>3. pointsWeight'[n][t] = WalkWeight(n).points[t]
        BY <3>1, <3>2
      <3> QED BY <2>2, <2>3, <2>5, <3>3, RecordedWalked
    <2> QED BY <2>4, <2>5
  <1>5. ASSUME NEW u \in Voters, NEW n \in Nominees, NEW w \in 0 .. MAX_WEIGHT + 1,
               VoteForNomineeWeights(u, n, w)
        PROVE  Recorded(m, t)' = Recorded(m, t)
    <2>1. PICK old, new : old = voteUserSlopes[u][n] /\ new = VoteOf(u, w)
      OBVIOUS
    <2>2. /\ n \in Active /\ UNCHANGED registryVars
          /\ voteUserSlopes' = [voteUserSlopes EXCEPT ![u][n] = new]
      BY <1>5, <2>1, VoteFacts
    <2>3. WalkWeight(n).time = NextTime
      BY <2>2, WeightWalk DEF PointsInv, Active
    <2>4. \A x \in Nominees :
            /\ pointsWeight'[x] = IF x = n THEN Revote(WalkWeight(n), old, new) ELSE pointsWeight[x]
            /\ timeWeight'[x] = IF x = n THEN NextTime ELSE timeWeight[x]
            /\ x # n => changesWeight'[x] = changesWeight[x]
      BY <1>0, <1>5, <2>1, <2>3 DEF VoteForNomineeWeights, WeightsTypeOK
    <2>5. CASE m # n
      <3>1. \A x \in Voters : voteUserSlopes'[x][m] = voteUserSlopes[x][m]
        BY <2>2, <2>5 DEF TypeOK, VotesTypeOK
      <3>2. Untouched(m)
        BY <2>2, <2>4, <2>5, <3>1 DEF Untouched, registryVars, Known, Active
      <3> QED BY <3>2, RecordedUntouched
    <2>6. CASE m = n
      <3>1. t # NextTime
        BY <1>0
      <3>2. pointsWeight'[n][t] = WalkWeight(n).points[t]
        BY <2>4, <3>1, RevoteKeeps
      <3> QED BY <2>2, <2>4, <2>6, <3>2, RecordedWalked
    <2> QED BY <2>5, <2>6
  <1>6. ASSUME NEW u \in Voters, NEW n \in Nominees, RevokeRemovedNomineeVotingPower(u, n)
        PROVE  Recorded(m, t)' = Recorded(m, t)
    <2>1. /\ n \notin Active /\ voteUserSlopes' = [voteUserSlopes EXCEPT ![u][n] = NoVote]
          /\ UNCHANGED <<registryVars, weightVars>>
      BY <1>6, RevokeFacts
    <2>2. \A x \in Voters : \/ voteUserSlopes'[x][m] = voteUserSlopes[x][m]
                            \/ m \notin Active /\ voteUserSlopes'[x][m] = NoVote
      BY <2>1 DEF TypeOK, VotesTypeOK
    <2>3. Untouched(m)
      BY <2>1, <2>2 DEF Untouched, registryVars, weightVars, Known, Active
    <2> QED BY <2>3, RecordedUntouched
  <1> QED BY <1>1, <1>2, <1>3, <1>4, <1>5, <1>6, StepKinds

\* The sum after a step that left it alone, or has walked it to the coming week.
SumWent ==
  \/ UNCHANGED <<pointsSum, timeSum>>
  \/ /\ timeSum' = NextTime
     /\ \A t \in Weeks : t < NextTime => pointsSum'[t] = WalkSum.points[t]

LEMMA SumGoes ==
  ASSUME TypeOK, BackedInv, CheckpointedInTime, PointsInv, [Next]_vars
  PROVE  SumWent
  <1>1. WalkSum.time = NextTime /\ NextTime \in Nat /\ \A t \in Weeks : t \in Nat
    BY SumWalk, NextTimeFacts, WeeksAreTimes DEF PointsInv
  <1>2. CASE Checkpoint \/ \E n \in Nominees : CheckpointNominee(n)
    BY <1>1, <1>2 DEF Checkpoint, CheckpointNominee, SumWent
  <1>3. ASSUME NEW s \in Owners, NEW n \in Nominees, RemoveNominee(s, n) PROVE SumWent
    <2>1. PICK pt : pointsSum' = [WalkSum.points EXCEPT ![NextTime] = pt]
      BY <1>3 DEF RemoveNominee
    <2>2. WalkSum.points \in [Weeks -> Points]
      BY WalksTyped
    <2>3. \A t \in Weeks : t < NextTime => pointsSum'[t] = WalkSum.points[t]
      BY <1>1, <2>1, <2>2
    <2> QED BY <1>3, <2>3 DEF RemoveNominee, SumWent
  <1>4. ASSUME NEW u \in Voters, NEW n \in Nominees, NEW w \in 0 .. MAX_WEIGHT + 1,
               VoteForNomineeWeights(u, n, w)
        PROVE  SumWent
    <2>1. PICK old, new : pointsSum' = Revote(WalkSum, old, new)
      BY <1>4 DEF VoteForNomineeWeights
    <2>2. \A t \in Weeks : t < NextTime => pointsSum'[t] = WalkSum.points[t]
      BY <1>1, <2>1, RevoteKeeps
    <2> QED BY <1>1, <1>4, <2>2 DEF VoteForNomineeWeights, SumWent
  <1>5. CASE VeStep \/ StillStep \/ \E n \in Nominees : AddNominee(n)
    BY <1>5, VeStepFacts DEF StillStep, AddNominee, sumVars, SumWent
  <1>6. CASE \E u \in Voters, n \in Nominees : RevokeRemovedNomineeVotingPower(u, n)
    BY <1>6 DEF RevokeRemovedNomineeVotingPower, sumVars, SumWent
  <1> QED BY <1>2, <1>3, <1>4, <1>5, <1>6, StepKinds

LEMMA RecordedInit == Init => RecordedInv
  <1> SUFFICES ASSUME Init, NEW t \in Weeks PROVE pointsSum[t].bias = RecordedSum(t)
    BY DEF RecordedInv
  <1>1. \A n \in Nominees : Recorded(n, t) = 0
    BY DEF Init, VwInit, Active, Recorded, NoPoint
  <1>2. PICK f : f = [n \in Nominees |-> Recorded(n, t)]
    OBVIOUS
  <1>3. SumFunctionOnSet(f, Nominees) = 0
    BY <1>1, <1>2, NomineesFinite, SumZero
  <1> QED BY <1>2, <1>3 DEF RecordedSum, Init, VwInit, NoPoint

\* Time passes, or the locks change.
LEMMA RecordedQuiet ==
  ASSUME RecordedInv, UNCHANGED <<registryVars, voterVars, weightVars, sumVars>>
  PROVE  RecordedInv'
  <1>1. UNCHANGED <<mapNomineeIds, voteUserSlopes, pointsWeight, timeWeight, pointsSum, timeSum>>
    BY DEF registryVars, voterVars, weightVars, sumVars
  <1>2. \A t \in Weeks : RecordedSum(t)' = RecordedSum(t)
    BY <1>1 DEF RecordedSum, Recorded, Active, WeightOf
  <1> QED BY <1>1, <1>2 DEF RecordedInv

LEMMA RecordedNext ==
  TypeOK /\ TypeOK' /\ RegistryInv /\ BackedInv /\ CheckpointedInTime /\ PointsInv /\ PointsInv'
    /\ RecordedInv /\ [Next]_vars => RecordedInv'
  <1>0. TypeOK' /\ PointsInv' =>
          (\A t \in Weeks : t > timeSum \/ t = NextTime => RecordedSum(t) = TotalOf(BiasAt(t)))'
    BY RecordedAhead, PTL
  <1> SUFFICES ASSUME TypeOK, TypeOK', RegistryInv, BackedInv, CheckpointedInTime, PointsInv,
                      PointsInv', RecordedInv, [Next]_vars
               PROVE  RecordedInv'
    OBVIOUS
  <1>1. CASE VeStep
    BY <1>1, VeStepFacts, RecordedQuiet
  <1>2. CASE ~VeStep
    <2>1. now' = now /\ NextTime' = NextTime
      <3>1. now' = now
        BY <1>2, StepKinds DEF StillStep, Checkpoint, CheckpointNominee, AddNominee, RemoveNominee,
                               VoteForNomineeWeights, RevokeRemovedNomineeVotingPower, veVars
      <3> QED BY <3>1 DEF NextTime
    <2>2. SumWent
      BY SumGoes
    <2>3. /\ NextTime \in Nat /\ NextTime \in Weeks /\ timeSum \in Nat /\ timeSum' \in Nat
          /\ timeSum' <= NextTime /\ timeSum' \in Weeks
      <3>1. timeSum' <= NextTime'
        BY DEF PointsInv, TotalInv
      <3> QED BY <2>1, <3>1, NextTimeFacts, WeeksAreTimes DEF TypeOK, WeightsTypeOK
    <2>4. ASSUME NEW t \in Weeks, t < NextTime PROVE RecordedSum(t)' = RecordedSum(t)
      <3>1. \A n \in Nominees : Recorded(n, t)' = Recorded(n, t)
        BY <2>4, RecordedStay
      <3> QED BY <3>1 DEF RecordedSum
    <2>5. ASSUME NEW t \in Weeks, t <= timeSum', t < NextTime
          PROVE  pointsSum'[t].bias = RecordedSum(t)
      <3>1. t \in Nat
        BY WeeksAreTimes
      <3>2. WalkSum.points[t] = IF t > timeSum /\ t <= NextTime THEN SumPoint(t) ELSE pointsSum[t]
        BY SumWalk DEF PointsInv
      <3>3. CASE t <= timeSum
        <4>1. pointsSum'[t] = pointsSum[t]
          BY <2>2, <2>3, <2>5, <3>1, <3>2, <3>3 DEF SumWent
        <4> QED BY <3>3, <4>1 DEF RecordedInv
      <3>4. CASE t > timeSum
        <4>1. pointsSum'[t] = SumPoint(t)
          BY <2>2, <2>3, <2>5, <3>1, <3>2, <3>4 DEF SumWent
        <4>2. RecordedSum(t) = TotalOf(BiasAt(t))
          BY <3>4, RecordedAhead
        <4> QED BY <4>1, <4>2 DEF SumPoint
      <3> QED BY <2>3, <3>1, <3>3, <3>4
    <2>6. ASSUME NEW t \in Weeks, t <= timeSum', t = NextTime
          PROVE  pointsSum'[t].bias = RecordedSum(t)'
      <3>1. timeSum' = t
        BY <2>3, <2>6
      <3>2. SumSettled(t)'
        BY <3>1 DEF PointsInv, TotalInv
      <3>3. pointsSum'[t].bias = TotalOf(BiasAt(t))'
        BY <3>2 DEF SumSettled, SumPoint
      <3>4. RecordedSum(t)' = TotalOf(BiasAt(t))'
        BY <1>0, <2>1, <2>6
      <3> QED BY <3>3, <3>4
    <2>7. ASSUME NEW t \in Weeks, t <= timeSum' PROVE pointsSum'[t].bias = RecordedSum(t)'
      <3>1. t < NextTime \/ t = NextTime
        BY <2>3, <2>7, WeeksAreTimes
      <3> QED BY <2>4, <2>5, <2>6, <2>7, <3>1
    <2> QED BY <2>7 DEF RecordedInv
  <1> QED BY <1>1, <1>2

LEMMA RecordedBounds ==
  ASSUME TypeOK, PointsInv, RecordedInv
  PROVE  RelativeWeightsAtMostOne
  <1> SUFFICES ASSUME NEW t \in Weeks
               PROVE  SumFunctionOnSet([n \in Nominees |-> pointsWeight[n][t].bias], Nominees)
                        <= pointsSum[t].bias
    BY DEF RelativeWeightsAtMostOne, SumOver, NomineeBias, SumBias
  <1>1. PICK f, g : /\ f = [n \in Nominees |-> pointsWeight[n][t].bias]
                    /\ g = [n \in Nominees |-> Recorded(n, t)]
    OBVIOUS
  <1>2. /\ \A n \in Nominees : f[n] \in Nat /\ g[n] \in Nat
        /\ t \in Nat /\ timeSum \in Nat /\ \A n \in Nominees : timeWeight[n] \in Nat
        /\ NoPoint.bias = 0
    BY <1>1, RecordedTyped, WeeksAreTimes DEF TypeOK, WeightsTypeOK, NoPoint
  <1>3. CASE t <= timeSum
    <2>1. ASSUME NEW n \in Nominees PROVE f[n] <= g[n]
      <3>1. CASE n \in Active /\ t > timeWeight[n]
        <4>1. pointsWeight[n][t] = NoPoint
          BY <3>1 DEF PointsInv, NomineeInv, Blank
        <4>2. f[n] = 0
          BY <1>1, <1>2, <4>1
        <4> QED BY <1>2, <4>2
      <3>2. CASE ~(n \in Active /\ t > timeWeight[n])
        <4>1. f[n] = g[n]
          BY <1>1, <3>2 DEF Recorded
        <4> QED BY <1>2, <4>1
      <3> QED BY <3>1, <3>2
    <2>2. SumFunctionOnSet(f, Nominees) <= SumFunctionOnSet(g, Nominees)
      <3>1. \A n \in Nominees : f[n] \in Int /\ g[n] \in Int /\ f[n] <= g[n]
        BY <1>2, <2>1
      <3> QED BY <3>1, NomineesFinite, SumMonotone
    <2> QED BY <1>1, <1>3, <2>2 DEF RecordedInv, RecordedSum
  <1>4. CASE t > timeSum
    <2>1. ASSUME NEW n \in Nominees PROVE f[n] = 0
      <3>1. pointsWeight[n][t] = NoPoint
        <4>1. CASE t > timeWeight[n]
          BY <4>1 DEF PointsInv, NomineeInv, Blank
        <4>2. CASE timeWeight[n] > timeSum
          BY <4>2 DEF PointsInv, NomineeInv, Fresh
        <4> QED BY <1>2, <1>4, <4>1, <4>2
      <3> QED BY <1>1, <1>2, <3>1
    <2>2. SumFunctionOnSet(f, Nominees) = 0
      BY <2>1, NomineesFinite, SumZero
    <2>3. pointsSum[t].bias \in Nat
      <3>1. pointsSum[t] \in Points
        BY PointsTyped
      <3> QED BY <3>1 DEF Points
    <2> QED BY <1>1, <2>2, <2>3
  <1> QED BY <1>2, <1>3, <1>4

\* On the same condition: in every week the weights of the nominees add up to at most
\* the sum, so what the Dispenser pays by them is never more than the whole.
THEOREM WeightsAddUpToOne == Spec /\ []CheckpointedInTime => []RelativeWeightsAtMostOne
  <1>1. TypeOK /\ RegistryInv /\ RegistryInv' /\ [Next]_vars => TypeOK'
    BY TypeNext
  <1>2. TypeOK /\ PointsInv /\ RecordedInv => RelativeWeightsAtMostOne
    BY RecordedBounds
  <1> QED BY <1>1, <1>2, TypeInit, RegistryInit, RegistryNext, LockInit, LockNext, BackedInit,
             BackedNext, ChangesInit, ChangesNext, PointsInit, PointsNext, RecordedInit,
             RecordedNext, PTL DEF Spec
=============================================================================
