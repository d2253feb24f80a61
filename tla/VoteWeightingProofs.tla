------------------------ MODULE VoteWeightingProofs ------------------------
(***************************************************************************)
(* The nominee registry and the types of VoteWeighting, for every value of *)
(* the constants: the two nominee sets and their id maps agree, the weekly *)
(* maps are only used at weeks they are defined on, and no amount, time,   *)
(* bias, slope or power ever turns negative.                               *)
(***************************************************************************)
EXTENDS VoteWeighting, FiniteSums, SequenceTheorems

(***************************************************************************)
(* The registry: an inductive invariant of its own, because no other part  *)
(* of the state enables or feeds a change of it.                           *)
(***************************************************************************)

RegistryInv == RegistryTypeOK /\ RegistryConsistent

\* Appending a nominee that is not indexed, with the new length as its id, keeps a
\* set and its id map inverse to each other (_addNominee, and the removed set in
\* removeNominee).
LEMMA IndexedAppend ==
  ASSUME NEW set \in Seq(Nominees), NEW ids \in [Nominees -> Nat], NEW n \in Nominees,
         Indexed(set, ids), ids[n] = 0
  PROVE  /\ Append(set, n) \in Seq(Nominees)
         /\ [ids EXCEPT ![n] = Len(set) + 1] \in [Nominees -> Nat]
         /\ Indexed(Append(set, n), [ids EXCEPT ![n] = Len(set) + 1])
  <1> DEFINE set2 == Append(set, n)
             ids2 == [ids EXCEPT ![n] = Len(set) + 1]
  <1>1. set2 \in Seq(Nominees) /\ Len(set2) = Len(set) + 1 /\ Len(set) \in Nat
    OBVIOUS
  <1>2. ids2 \in [Nominees -> Nat]
    BY <1>1
  <1>3. \A i \in 1 .. Len(set) : set2[i] = set[i] /\ set[i] \in Nominees
    OBVIOUS
  <1>4. set2[Len(set) + 1] = n
    OBVIOUS
  <1>5. \A i \in 1 .. Len(set) : set[i] # n
    <2>1. SUFFICES ASSUME NEW i \in 1 .. Len(set), set[i] = n PROVE FALSE
      OBVIOUS
    <2>2. ids[n] = i
      BY <2>1 DEF Indexed
    <2> QED BY <2>2
  <1>6. ASSUME NEW i \in 1 .. Len(set2) PROVE ids2[set2[i]] = i
    <2>1. CASE i = Len(set) + 1
      BY <2>1, <1>4
    <2>2. CASE i \in 1 .. Len(set)
      <3>1. ids[set[i]] = i
        BY <2>2 DEF Indexed
      <3> QED BY <2>2, <3>1, <1>3, <1>5
    <2> QED BY <1>1, <2>1, <2>2
  <1>7. ASSUME NEW m \in Nominees, ids2[m] > 0
        PROVE  ids2[m] <= Len(set2) /\ set2[ids2[m]] = m
    <2>1. CASE m = n
      BY <2>1, <1>1, <1>4
    <2>2. CASE m # n
      <3>1. ids2[m] = ids[m]
        BY <2>2
      <3>2. ids[m] \in 1 .. Len(set) /\ set[ids[m]] = m
        BY <1>7, <3>1, <1>1 DEF Indexed
      <3> QED BY <3>1, <3>2, <1>1, <1>3
    <2> QED BY <2>1, <2>2
  <1> HIDE DEF set2, ids2
  <1>8. Indexed(set2, ids2)
    BY <1>6, <1>7 DEF Indexed
  <1> QED BY <1>1, <1>2, <1>8 DEF set2, ids2

\* What the swap and pop of removeNominee does to the nominee set: the removed
\* nominee has no id, the others keep one, and set and map stay inverse.
LEMMA IndexedSwapAndPop ==
  ASSUME NEW n \in Nominees, RegistryTypeOK, Indexed(setNominees, mapNomineeIds),
         mapNomineeIds[n] > 0, SwapAndPop(n)
  PROVE  /\ setNominees' \in Seq(Nominees)
         /\ mapNomineeIds' \in [Nominees -> Nat]
         /\ Indexed(setNominees', mapNomineeIds')
         /\ \A m \in Nominees : mapNomineeIds'[m] > 0 <=> mapNomineeIds[m] > 0 /\ m # n
  <1> DEFINE id == mapNomineeIds[n]
             num == Len(setNominees)
             last == setNominees[num]
             cleared == [mapNomineeIds EXCEPT ![n] = 0]
             moved == IF id # num THEN [setNominees EXCEPT ![id] = last] ELSE setNominees
  <1>1. id \in 1 .. num /\ setNominees[id] = n /\ num \in Nat
    BY DEF Indexed, RegistryTypeOK
  <1>2. num \in 1 .. num /\ last \in Nominees /\ mapNomineeIds[last] = num
    <2>1. num \in 1 .. num
      BY <1>1
    <2>2. setNominees \in Seq(Nominees) /\ num = Len(setNominees)
      BY DEF RegistryTypeOK
    <2>3. last \in Nominees
      BY <2>1, <2>2
    <2>4. \A i \in 1 .. num : mapNomineeIds[setNominees[i]] = i
      BY DEF Indexed
    <2> QED BY <2>1, <2>3, <2>4
  <1>3. id # num => last # n
    BY <1>1, <1>2
  <1>4. /\ mapNomineeIds' = IF id # num THEN [cleared EXCEPT ![last] = id] ELSE cleared
        /\ setNominees' = SubSeq(moved, 1, num - 1)
    BY DEF SwapAndPop
  <1>5. moved \in Seq(Nominees) /\ Len(moved) = num
    BY <1>1, <1>2 DEF RegistryTypeOK
  <1>6. /\ setNominees' \in Seq(Nominees) /\ Len(setNominees') = num - 1
        /\ \A i \in 1 .. num - 1 : setNominees'[i] = moved[i]
    BY <1>4, <1>5, <1>1
  <1>7. mapNomineeIds' \in [Nominees -> Nat]
    BY <1>1, <1>2, <1>4 DEF RegistryTypeOK
  <1>8. \A i \in 1 .. num - 1 : moved[i] = IF i = id THEN last ELSE setNominees[i]
    <2>1. \A i \in 1 .. num : moved[i] = IF id # num /\ i = id THEN last ELSE setNominees[i]
      BY DEF RegistryTypeOK
    <2>2. ASSUME NEW i \in 1 .. num - 1 PROVE i \in 1 .. num /\ i # num
      BY <1>1
    <2> HIDE DEF moved, last, id, num
    <2> QED BY <2>1, <2>2
  <1>9. \A m \in Nominees : mapNomineeIds'[m] =
          IF m = last /\ id # num THEN id ELSE IF m = n THEN 0 ELSE mapNomineeIds[m]
    BY <1>1, <1>2, <1>3, <1>4 DEF RegistryTypeOK
  <1>10. \A i \in 1 .. num : setNominees[i] \in Nominees /\ mapNomineeIds[setNominees[i]] = i
    BY DEF Indexed, RegistryTypeOK
  <1>11. \A m \in Nominees : mapNomineeIds[m] > 0 =>
           mapNomineeIds[m] \in 1 .. num /\ setNominees[mapNomineeIds[m]] = m
    BY DEF Indexed, RegistryTypeOK
  <1> HIDE DEF id, num, last, cleared, moved
  <1>12. ASSUME NEW i \in 1 .. num - 1 PROVE mapNomineeIds'[setNominees'[i]] = i
    <2>1. CASE i = id
      BY <2>1, <1>1, <1>2, <1>6, <1>8, <1>9
    <2>2. CASE i # id
      <3>1. setNominees'[i] = setNominees[i] /\ setNominees[i] \in Nominees
        BY <2>2, <1>1, <1>6, <1>8, <1>10
      <3>2. mapNomineeIds[setNominees[i]] = i /\ setNominees[i] # n /\ setNominees[i] # last
        BY <2>2, <1>1, <1>2, <1>10 DEF id
      <3> QED BY <3>1, <3>2, <1>9
    <2> QED BY <2>1, <2>2
  <1>13. ASSUME NEW m \in Nominees, mapNomineeIds'[m] > 0
         PROVE  mapNomineeIds'[m] <= num - 1 /\ setNominees'[mapNomineeIds'[m]] = m
    <2>1. CASE m = last /\ id # num
      BY <2>1, <1>1, <1>6, <1>8, <1>9
    <2>2. CASE ~(m = last /\ id # num)
      <3>1. m # n /\ mapNomineeIds'[m] = mapNomineeIds[m]
        BY <2>2, <1>9, <1>13
      <3>2. mapNomineeIds[m] \in 1 .. num /\ setNominees[mapNomineeIds[m]] = m
        BY <3>1, <1>11, <1>13
      <3>3. mapNomineeIds[m] # num /\ mapNomineeIds[m] # id
        BY <2>2, <3>1, <3>2, <1>1 DEF last
      <3> QED BY <3>1, <3>2, <3>3, <1>1, <1>6, <1>8
    <2> QED BY <2>1, <2>2
  <1>14. Indexed(setNominees', mapNomineeIds')
    BY <1>6, <1>12, <1>13 DEF Indexed
  <1>15. ASSUME NEW m \in Nominees
         PROVE  mapNomineeIds'[m] > 0 <=> mapNomineeIds[m] > 0 /\ m # n
    <2>1. CASE m = last /\ id # num
      BY <2>1, <1>1, <1>2, <1>3, <1>9
    <2>2. CASE m = n
      BY <2>2, <1>3, <1>9
    <2>3. CASE ~(m = last /\ id # num) /\ m # n
      BY <2>3, <1>9
    <2> QED BY <2>1, <2>2, <2>3
  <1> QED BY <1>6, <1>7, <1>14, <1>15

LEMMA RegistryInit == Init => RegistryInv
  BY DEF Init, VwInit, RegistryInv, RegistryTypeOK, RegistryConsistent, Indexed, Active, Removed

LEMMA RegistryNext == RegistryInv /\ [Next]_vars => RegistryInv'
  <1> SUFFICES ASSUME RegistryInv, [Next]_vars PROVE RegistryInv'
    OBVIOUS
  <1>1. ASSUME UNCHANGED <<setNominees, setRemovedNominees, mapNomineeIds,
                           mapRemovedNominees, dispenserNominees>>
        PROVE  RegistryInv'
    BY <1>1 DEF RegistryInv, RegistryTypeOK, RegistryConsistent, Indexed, Active, Removed
  <1>2. ASSUME NEW n \in Nominees, AddNominee(n) PROVE RegistryInv'
    <2>1. /\ setNominees' = Append(setNominees, n)
          /\ mapNomineeIds' = [mapNomineeIds EXCEPT ![n] = Len(setNominees) + 1]
          /\ UNCHANGED <<setRemovedNominees, mapRemovedNominees>>
          /\ dispenserNominees' = dispenserNominees \cup {n}
          /\ mapNomineeIds[n] = 0 /\ mapRemovedNominees[n] = 0
      BY <1>2 DEF AddNominee
    <2>2. /\ setNominees' \in Seq(Nominees) /\ mapNomineeIds' \in [Nominees -> Nat]
          /\ Indexed(setNominees', mapNomineeIds')
      BY <2>1, IndexedAppend DEF RegistryInv, RegistryTypeOK, RegistryConsistent
    <2>3. RegistryTypeOK'
      BY <2>1, <2>2 DEF RegistryInv, RegistryTypeOK
    <2>4. Indexed(setRemovedNominees', mapRemovedNominees') /\ Removed' = Removed
      BY <2>1 DEF RegistryInv, RegistryConsistent, Indexed, Removed
    <2>5. Active' = Active \cup {n}
      BY <2>1 DEF RegistryInv, RegistryTypeOK, Active
    <2>6. n \notin Removed
      BY <2>1 DEF Removed
    <2> QED BY <2>1, <2>2, <2>3, <2>4, <2>5, <2>6 DEF RegistryInv, RegistryConsistent
  <1>3. ASSUME NEW s, NEW n \in Nominees, RemoveNominee(s, n) PROVE RegistryInv'
    <2>1. /\ mapNomineeIds[n] > 0
          /\ mapRemovedNominees' = [mapRemovedNominees EXCEPT ![n] = Len(setRemovedNominees) + 1]
          /\ setRemovedNominees' = Append(setRemovedNominees, n)
          /\ SwapAndPop(n)
          /\ dispenserNominees' = dispenserNominees \ {n}
      BY <1>3 DEF RemoveNominee
    <2>2. mapRemovedNominees[n] = 0
      BY <2>1 DEF RegistryInv, RegistryConsistent, RegistryTypeOK, Active, Removed
    <2>3. /\ setRemovedNominees' \in Seq(Nominees)
          /\ mapRemovedNominees' \in [Nominees -> Nat]
          /\ Indexed(setRemovedNominees', mapRemovedNominees')
      BY <2>1, <2>2, IndexedAppend DEF RegistryInv, RegistryTypeOK, RegistryConsistent
    <2>4. /\ setNominees' \in Seq(Nominees)
          /\ mapNomineeIds' \in [Nominees -> Nat]
          /\ Indexed(setNominees', mapNomineeIds')
          /\ \A m \in Nominees : mapNomineeIds'[m] > 0 <=> mapNomineeIds[m] > 0 /\ m # n
      BY <2>1, IndexedSwapAndPop DEF RegistryInv, RegistryConsistent
    <2>5. RegistryTypeOK'
      BY <2>3, <2>4 DEF RegistryTypeOK
    <2>6. Active' = Active \ {n}
      BY <2>4 DEF Active
    <2>7. Removed' = Removed \cup {n}
      BY <2>1 DEF RegistryInv, RegistryTypeOK, Removed
    <2> QED BY <2>1, <2>3, <2>4, <2>5, <2>6, <2>7 DEF RegistryInv, RegistryConsistent
  <1>4. CASE VeStep
    BY <1>1, <1>4 DEF VeStep, vwVars, registryVars
  <1>5. ASSUME NEW s \in Owners, OwnerStep(s) PROVE RegistryInv'
    BY <1>1, <1>3, <1>5 DEF OwnerStep, ChangeOwner, registryVars
  <1>6. CASE AnyoneStep
    <2>1. ASSUME NEW account \in Targets \cup {ZeroAccount}, NEW chainId \in ChainIds,
                 AddNomineeEVM(account, chainId) \/ AddNomineeNonEVM(account, chainId)
          PROVE  RegistryInv'
      <3>1. <<account, chainId>> \in Nominees
        BY DEF Nominees
      <3> QED BY <2>1, <3>1, <1>2 DEF AddNomineeEVM, AddNomineeNonEVM
    <2>2. CASE Checkpoint
      BY <2>2, <1>1 DEF Checkpoint, registryVars
    <2>3. ASSUME NEW n \in Nominees, CheckpointNominee(n) PROVE RegistryInv'
      BY <2>3, <1>1 DEF CheckpointNominee, registryVars
    <2> QED BY <1>6, <2>1, <2>2, <2>3 DEF AnyoneStep
  <1>7. ASSUME NEW u \in Voters, VoterStep(u) PROVE RegistryInv'
    BY <1>1, <1>7 DEF VoterStep, VoteForNomineeWeights, RevokeRemovedNomineeVotingPower,
                      registryVars
  <1>8. CASE UNCHANGED vars
    BY <1>1, <1>8 DEF vars, vwVars, registryVars
  <1> QED BY <1>4, <1>5, <1>6, <1>7, <1>8 DEF Next

\* For any nominees, owners and history: both nominee sets are the inverse of their
\* id maps, no nominee is active and removed, the Dispenser knows the active ones.
THEOREM RegistryIsConsistent == Spec => []RegistryConsistent
  <1>1. RegistryInv => RegistryConsistent
    BY DEF RegistryInv
  <1> QED BY <1>1, RegistryInit, RegistryNext, PTL DEF Spec

\* A step keeps the id of every removed nominee and leaves it without an active one.
LEMMA RemovalStep ==
  RegistryInv /\ RegistryInv' /\ [Next]_vars =>
    \A n \in Removed : mapRemovedNominees'[n] = mapRemovedNominees[n] /\ mapNomineeIds'[n] = 0
  <1> SUFFICES ASSUME RegistryInv, RegistryInv', [Next]_vars, NEW n \in Removed
               PROVE  mapRemovedNominees'[n] = mapRemovedNominees[n] /\ mapNomineeIds'[n] = 0
    OBVIOUS
  <1>1. n \in Nominees /\ mapRemovedNominees[n] > 0
    BY DEF Removed
  <1>2. mapRemovedNominees'[n] = mapRemovedNominees[n]
    <2>1. CASE mapRemovedNominees' = mapRemovedNominees
      BY <2>1
    <2>2. ASSUME NEW s, NEW m \in Nominees, RemoveNominee(s, m)
          PROVE  mapRemovedNominees'[n] = mapRemovedNominees[n]
      <3>1. mapNomineeIds[m] > 0
        BY <2>2 DEF RemoveNominee
      <3>2. m # n
        BY <3>1, <1>1 DEF RegistryInv, RegistryConsistent, Active, Removed
      <3>3. mapRemovedNominees' = [mapRemovedNominees EXCEPT ![m] = Len(setRemovedNominees) + 1]
        BY <2>2 DEF RemoveNominee
      <3> QED BY <3>2, <3>3, <1>1 DEF RegistryInv, RegistryTypeOK
    <2>3. CASE VeStep
      BY <2>3, <2>1 DEF VeStep, vwVars, registryVars
    <2>4. ASSUME NEW s \in Owners, OwnerStep(s)
          PROVE  mapRemovedNominees'[n] = mapRemovedNominees[n]
      BY <2>4, <2>1, <2>2 DEF OwnerStep, ChangeOwner, registryVars
    <2>5. CASE AnyoneStep
      BY <2>5, <2>1 DEF AnyoneStep, AddNomineeEVM, AddNomineeNonEVM, AddNominee, Checkpoint,
                        CheckpointNominee, registryVars
    <2>6. ASSUME NEW u \in Voters, VoterStep(u)
          PROVE  mapRemovedNominees'[n] = mapRemovedNominees[n]
      BY <2>6, <2>1 DEF VoterStep, VoteForNomineeWeights, RevokeRemovedNomineeVotingPower,
                        registryVars
    <2>7. CASE UNCHANGED vars
      BY <2>7, <2>1 DEF vars, vwVars, registryVars
    <2> QED BY <2>3, <2>4, <2>5, <2>6, <2>7 DEF Next
  <1>3. n \in Removed' /\ n \notin Active'
    BY <1>1, <1>2 DEF RegistryInv, RegistryConsistent, Active, Removed
  <1> QED BY <1>1, <1>2, <1>3 DEF Active, RegistryInv, RegistryTypeOK

\* A removed nominee stays removed, under the same id, and is never active again.
THEOREM RemovalForever == Spec => RemovalIsFinal
  <1>1. RegistryInv /\ RegistryInv' /\ [Next]_vars =>
          [\A n \in Removed : /\ mapRemovedNominees'[n] = mapRemovedNominees[n]
                              /\ mapNomineeIds'[n] = 0]_vars
    BY RemovalStep
  <1> QED BY <1>1, RegistryInit, RegistryNext, PTL DEF Spec, RemovalIsFinal

(***************************************************************************)
(* The weekly walk                                                         *)
(***************************************************************************)

\* The weekly walk is a function defined by its recursion.
LEMMA WalkedDef ==
  ASSUME NEW points, NEW changes, NEW last, WalkLength(last) \in Nat
  PROVE  Walked(points, changes, last) =
           [i \in 0 .. WalkLength(last) |->
              IF i = 0 THEN points[last]
              ELSE Decay(Walked(points, changes, last)[i - 1], changes[last + i * WEEK])]
  <1> DEFINE Step(f, n) == [i \in 0 .. n |-> IF i = 0 THEN points[last]
                                     ELSE Decay(f[i - 1], changes[last + i * WEEK])]
             T == {n \in Nat : \E f : f = Step(f, n)}
  <1>1. 0 \in T
    <2>1. [i \in 0 .. 0 |-> points[last]] = Step([i \in 0 .. 0 |-> points[last]], 0)
      OBVIOUS
    <2> QED BY <2>1
  <1>2. ASSUME NEW n \in T PROVE n + 1 \in T
    <2>1. PICK f : f = Step(f, n)
      OBVIOUS
    <2> DEFINE g == [i \in 0 .. n + 1 |-> IF i = n + 1
                       THEN Decay(f[n], changes[last + (n + 1) * WEEK]) ELSE f[i]]
    <2>2. n \in Nat
      OBVIOUS
    <2>3. ASSUME NEW i \in 0 .. n + 1
          PROVE  g[i] = IF i = 0 THEN points[last]
                        ELSE Decay(g[i - 1], changes[last + i * WEEK])
      <3>1. CASE i = n + 1
        <4>1. i # 0 /\ i - 1 = n /\ n \in 0 .. n + 1 /\ n # n + 1
          BY <2>2, <3>1
        <4>2. g[i] = Decay(f[n], changes[last + (n + 1) * WEEK]) /\ g[n] = f[n]
          BY <3>1, <4>1
        <4> HIDE DEF g
        <4> QED BY <3>1, <4>1, <4>2
      <3>2. CASE i # n + 1
        <4>1. i \in 0 .. n
          BY <2>2, <3>2
        <4>2. g[i] = f[i]
          BY <3>2
        <4>3. f[i] = IF i = 0 THEN points[last] ELSE Decay(f[i - 1], changes[last + i * WEEK])
          BY <2>1, <4>1
        <4>4. i # 0 => g[i - 1] = f[i - 1]
          BY <2>2, <4>1
        <4> HIDE DEF g
        <4> QED BY <4>2, <4>3, <4>4
      <3> QED BY <3>1, <3>2
    <2>4. g = Step(g, n + 1)
      <3>1. g = [i \in 0 .. n + 1 |-> g[i]]
        OBVIOUS
      <3> HIDE DEF g
      <3> QED BY <3>1, <2>3
    <2> HIDE DEF g, Step
    <2>5. \E h : h = Step(h, n + 1)
      BY <2>4
    <2> QED BY <2>2, <2>5
  <1>3. WalkLength(last) \in T
    <2> HIDE DEF T
    <2>1. T \subseteq Nat
      BY DEF T
    <2>2. T = Nat
      BY <1>1, <1>2, <2>1, SetInduction
    <2> QED BY <2>2
  <1>4. \E f : f = Step(f, WalkLength(last))
    BY <1>3
  <1>5. Walked(points, changes, last) = CHOOSE f : f = Step(f, WalkLength(last))
    BY DEF Walked
  <1> HIDE DEF Step
  <1>6. Walked(points, changes, last) = Step(Walked(points, changes, last), WalkLength(last))
    BY <1>4, <1>5
  <1> QED BY <1>6 DEF Step

(***************************************************************************)
(* Weeks                                                                   *)
(***************************************************************************)

\* Rounding down to a week, as Solidity's integer division does.
LEMMA RoundDown ==
  ASSUME NEW a \in Nat
  PROVE  /\ a \div WEEK \in Nat
         /\ (a \div WEEK) * WEEK <= a
         /\ a < (a \div WEEK) * WEEK + WEEK
  BY WeekAssumption

\* The product with a week is monotone.
LEMMA WeekMonotone ==
  ASSUME NEW j \in Nat, NEW k \in Nat, j * WEEK <= k * WEEK
  PROVE  j <= k
  <1> SUFFICES ASSUME j >= k + 1 PROVE FALSE
    OBVIOUS
  <1>1. j * WEEK >= (k + 1) * WEEK
    BY WeekAssumption
  <1>2. (k + 1) * WEEK = k * WEEK + WEEK
    BY WeekAssumption
  <1> QED BY <1>1, <1>2, WeekAssumption

\* Whole weeks up to the longest lock that can be made are weeks of the maps.
LEMMA WholeWeek ==
  ASSUME NEW k \in Nat, k * WEEK <= MaxTime + MAXTIME + WEEK
  PROVE  k * WEEK \in Weeks
  <1>1. k * WEEK <= WeekHorizon * WEEK
    BY WeekAssumption, HorizonAssumption, ConstantsAssumption, TimeAssumption, LockAssumption
  <1>2. k <= WeekHorizon
    BY <1>1, WeekMonotone, ConstantsAssumption
  <1> QED BY <1>2, ConstantsAssumption DEF Weeks

LEMMA WeeksAreTimes == Weeks \subseteq Nat
  BY WeekAssumption, ConstantsAssumption DEF Weeks

\* The coming week of _addNominee, removeNominee and voteForNomineeWeights.
LEMMA NextTimeIsWeek ==
  ASSUME VeTypeOK
  PROVE  NextTime \in Weeks /\ NextTime > now /\ NextTime <= now + WEEK
  <1> DEFINE k == (now + WEEK) \div WEEK
  <1>1. now \in Nat /\ now <= MaxTime /\ now + WEEK \in Nat
    BY WeekAssumption, TimeAssumption DEF VeTypeOK
  <1>2. k \in Nat /\ k * WEEK <= now + WEEK /\ now + WEEK < k * WEEK + WEEK
    BY <1>1, RoundDown
  <1> HIDE DEF k
  <1>3. k * WEEK \in Weeks
    <2>1. k * WEEK \in Nat
      BY <1>2, WeekAssumption
    <2>2. k * WEEK <= MaxTime + MAXTIME + WEEK
      BY <2>1, <1>1, <1>2, TimeAssumption, LockAssumption, WeekAssumption
    <2> QED BY <1>2, <2>2, WholeWeek
  <1>4. k * WEEK > now
    <2>1. k * WEEK \in Nat
      BY <1>2, WeekAssumption
    <2> QED BY <2>1, <1>1, <1>2, WeekAssumption
  <1> QED BY <1>2, <1>3, <1>4 DEF NextTime, k

\* Every week of a walk is a week of the maps.
LEMMA WalkStaysInWeeks ==
  ASSUME VeTypeOK, NEW last \in Weeks
  PROVE  /\ WalkLength(last) \in Nat
         /\ \A i \in 0 .. WalkLength(last) : last + i * WEEK \in Weeks
  <1>1. now \in Nat /\ now <= MaxTime /\ last \in Nat
    BY WeeksAreTimes, TimeAssumption DEF VeTypeOK
  <1>2. PICK k \in Nat : last = k * WEEK
    BY ConstantsAssumption DEF Weeks
  <1>3. CASE last > now
    BY <1>1, <1>3, WeekAssumption DEF WalkLength
  <1>4. CASE ~(last > now)
    <2> DEFINE d == (now - last) \div WEEK
    <2>1. now - last \in Nat
      BY <1>1, <1>4
    <2>2. d \in Nat /\ d * WEEK <= now - last
      BY <2>1, RoundDown
    <2>3. WalkLength(last) \in Nat /\ WalkLength(last) <= d + 1
      BY <1>4, <2>2, ConstantsAssumption DEF WalkLength
    <2> HIDE DEF d
    <2>4. ASSUME NEW i \in 0 .. WalkLength(last) PROVE last + i * WEEK \in Weeks
      <3>1. i \in Nat /\ i <= d + 1
        BY <2>2, <2>3
      <3>2. i * WEEK <= (d + 1) * WEEK /\ i * WEEK \in Nat /\ d * WEEK \in Nat
        BY <3>1, <2>2, WeekAssumption
      <3>3. (d + 1) * WEEK = d * WEEK + WEEK
        BY <2>2, WeekAssumption
      <3>4. last + i * WEEK <= MaxTime + MAXTIME + WEEK
        BY <3>2, <3>3, <2>2, <1>1, WeekAssumption, TimeAssumption, LockAssumption
      <3>5. last + i * WEEK = (k + i) * WEEK
        BY <1>2, <3>1, WeekAssumption
      <3> QED BY <3>1, <3>4, <3>5, WholeWeek
    <2> QED BY <2>3, <2>4
  <1> QED BY <1>3, <1>4

LEMMA DecayTyped ==
  ASSUME NEW pt \in Points, NEW d \in Nat
  PROVE  Decay(pt, d) \in Points
  <1>1. pt.slope * WEEK \in Nat
    BY WeekAssumption DEF Points
  <1>2. MaxAndSub(pt.slope, d) \in Nat
    BY DEF Points, MaxAndSub
  <1> QED BY <1>1, <1>2 DEF Decay, Points, NoPoint

\* A walk over well-typed maps returns well-typed maps, a week of theirs and a
\* bias that is not negative.
LEMMA WalkTyped ==
  ASSUME VeTypeOK, NEW last \in Weeks,
         NEW points \in [Weeks -> Points], NEW changes \in [Weeks -> Nat]
  PROVE  /\ Walk(points, changes, last).points \in [Weeks -> Points]
         /\ Walk(points, changes, last).time \in Weeks
         /\ Walk(points, changes, last).bias \in Nat
  <1> DEFINE steps == WalkLength(last)
             pt == Walked(points, changes, last)
             end == last + steps * WEEK
  <1>1. steps \in Nat /\ \A i \in 0 .. steps : last + i * WEEK \in Weeks
    BY WalkStaysInWeeks
  <1>2. pt = [i \in 0 .. steps |-> IF i = 0 THEN points[last]
                                   ELSE Decay(pt[i - 1], changes[last + i * WEEK])]
    BY <1>1, WalkedDef
  <1> HIDE DEF steps, pt
  <1>3. \A i \in 0 .. steps : pt[i] \in Points
    <2> DEFINE T == {i \in Nat : i <= steps => pt[i] \in Points}
    <2>1. 0 \in T
      BY <1>1, <1>2
    <2>2. ASSUME NEW i \in T PROVE i + 1 \in T
      <3>1. CASE ~(i + 1 <= steps)
        BY <3>1, <1>1
      <3>2. CASE i + 1 <= steps
        <4>1. i \in Nat /\ i + 1 \in 0 .. steps /\ pt[i] \in Points
          BY <3>2, <1>1
        <4>2. pt[i + 1] = Decay(pt[i], changes[last + (i + 1) * WEEK])
          <5>1. i + 1 # 0 /\ (i + 1) - 1 = i
            BY <4>1
          <5>2. \A j \in 0 .. steps : j # 0 =>
                  pt[j] = Decay(pt[j - 1], changes[last + j * WEEK])
            BY <1>2
          <5>3. pt[i + 1] = Decay(pt[(i + 1) - 1], changes[last + (i + 1) * WEEK])
            BY <4>1, <5>1, <5>2
          <5> QED BY <5>1, <5>3
        <4>3. changes[last + (i + 1) * WEEK] \in Nat
          BY <4>1, <1>1
        <4> QED BY <4>1, <4>2, <4>3, DecayTyped
      <3> QED BY <3>1, <3>2
    <2>3. T \subseteq Nat
      OBVIOUS
    <2> HIDE DEF T
    <2>4. T = Nat
      BY <2>1, <2>2, <2>3, SetInduction
    <2>5. ASSUME NEW i \in 0 .. steps PROVE pt[i] \in Points
      <3>1. i \in T /\ i <= steps
        BY <2>4, <1>1
      <3> QED BY <3>1 DEF T
    <2> QED BY <2>5
  <1>4. end \in Weeks
    BY <1>1
  <1>5. ASSUME NEW t \in Weeks, t > last, t <= end PROVE pt[(t - last) \div WEEK] \in Points
    <2> DEFINE j == (t - last) \div WEEK
    <2>1. t \in Nat /\ last \in Nat /\ t - last \in Nat
      BY <1>5, WeeksAreTimes
    <2>2. j \in Nat /\ j * WEEK <= t - last
      BY <2>1, RoundDown
    <2> HIDE DEF j
    <2>3. j * WEEK \in Nat /\ steps * WEEK \in Nat
      BY <2>2, <1>1, WeekAssumption
    <2>4. j * WEEK <= steps * WEEK
      BY <2>1, <2>2, <2>3, <1>5
    <2>5. j <= steps
      BY <2>2, <2>4, <1>1, WeekMonotone
    <2> QED BY <2>2, <2>5, <1>1, <1>3 DEF j
  <1>6. Walk(points, changes, last) =
          [points |-> [t \in Weeks |-> IF t > last /\ t <= end
                                       THEN pt[(t - last) \div WEEK] ELSE points[t]],
           time |-> IF steps > 0 /\ end > now THEN end ELSE last,
           bias |-> pt[steps].bias]
    BY DEF Walk, steps, pt
  <1> HIDE DEF end
  <1>7. Walk(points, changes, last).points \in [Weeks -> Points]
    BY <1>5, <1>6
  <1>8. Walk(points, changes, last).bias \in Nat
    <2>1. pt[steps] \in Points
      BY <1>1, <1>3
    <2> QED BY <2>1, <1>6 DEF Points
  <1> QED BY <1>4, <1>6, <1>7, <1>8

(***************************************************************************)
(* The invariant                                                           *)
(***************************************************************************)

LEMMA TypeInit == Init => TypeOK
  <1> SUFFICES ASSUME Init PROVE TypeOK
    OBVIOUS
  <1>1. VeTypeOK
    BY TimeAssumption DEF Init, VeInit, VeTypeOK, Locks, NoLock
  <1>2. RegistryTypeOK /\ VotesTypeOK /\ owner \in Owners
    BY DEF Init, VwInit, RegistryTypeOK, VotesTypeOK, VotedSlopes, NoVote
  <1>3. 0 \in Weeks
    BY WeekAssumption, ConstantsAssumption DEF Weeks
  <1>4. (StartTime \div WEEK) * WEEK \in Weeks
    <2>1. /\ StartTime \div WEEK \in Nat
          /\ (StartTime \div WEEK) * WEEK <= StartTime
      BY RoundDown, TimeAssumption
    <2>2. (StartTime \div WEEK) * WEEK \in Nat
      BY <2>1, WeekAssumption
    <2>3. (StartTime \div WEEK) * WEEK <= MaxTime + MAXTIME + WEEK
      BY <2>1, <2>2, WeekAssumption, TimeAssumption, LockAssumption
    <2> QED BY <2>1, <2>3, WholeWeek
  <1>5. NoPoint \in Points
    BY DEF NoPoint, Points
  <1>6. WeightsTypeOK
    BY <1>3, <1>4, <1>5 DEF Init, VwInit, WeightsTypeOK
  <1> QED BY <1>1, <1>2, <1>6 DEF TypeOK

\* The locks of veOLAS keep their type.
LEMMA VeStepTyped ==
  ASSUME VeTypeOK, VeNext
  PROVE  VeTypeOK'
  <1>1. UnlockTimes \subseteq Nat
    BY TimeAssumption, LockAssumption DEF VeTypeOK, UnlockTimes
  <1>2. CASE Tick
    BY <1>2, TimeAssumption DEF Tick, VeTypeOK
  <1>3. ASSUME NEW u \in Voters, LockStep(u) PROVE VeTypeOK'
    <2>1. locked[u] \in Locks
      BY DEF VeTypeOK
    <2>2. ASSUME NEW a \in Amounts, NEW t \in UnlockTimes, CreateLock(u, a, t) PROVE VeTypeOK'
      BY <2>2, <1>1, LockAssumption DEF CreateLock, VeTypeOK, Locks
    <2>3. ASSUME NEW a \in Amounts, Deposit(u, a) PROVE VeTypeOK'
      <3>1. a \in Nat /\ locked[u].amount + a \in Nat
        BY <2>1, LockAssumption DEF Locks
      <3>2. [locked[u] EXCEPT !.amount = @ + a] \in Locks
        BY <2>1, <3>1 DEF Locks
      <3> QED BY <2>3, <3>2 DEF Deposit, VeTypeOK
    <2>4. ASSUME NEW t \in UnlockTimes, IncreaseUnlockTime(u, t) PROVE VeTypeOK'
      <3>1. [locked[u] EXCEPT !.endTime = t] \in Locks
        BY <2>1, <1>1 DEF Locks
      <3> QED BY <2>4, <3>1 DEF IncreaseUnlockTime, VeTypeOK
    <2>5. CASE Withdraw(u)
      BY <2>5 DEF Withdraw, VeTypeOK, Locks, NoLock
    <2> QED BY <1>3, <2>2, <2>3, <2>4, <2>5 DEF LockStep
  <1> QED BY <1>2, <1>3 DEF VeNext

\* What the walks of the sum and of a nominee return.
LEMMA WalksTyped ==
  ASSUME TypeOK
  PROVE  /\ WalkSum.points \in [Weeks -> Points] /\ WalkSum.time \in Weeks /\ WalkSum.bias \in Nat
         /\ \A n \in Nominees : /\ WalkWeight(n).points \in [Weeks -> Points]
                                /\ WalkWeight(n).time \in Weeks
                                /\ WalkWeight(n).bias \in Nat
  <1>1. VeTypeOK /\ WeightsTypeOK
    BY DEF TypeOK
  <1>2. /\ timeSum \in Weeks /\ pointsSum \in [Weeks -> Points] /\ changesSum \in [Weeks -> Nat]
        /\ \A n \in Nominees : /\ timeWeight[n] \in Weeks
                               /\ pointsWeight[n] \in [Weeks -> Points]
                               /\ changesWeight[n] \in [Weeks -> Nat]
    BY <1>1 DEF WeightsTypeOK
  <1> QED BY <1>1, <1>2, WalkTyped DEF WalkSum, WalkWeight

LEMMA MaxAndSubTyped ==
  ASSUME NEW j \in Nat, NEW k \in Nat
  PROVE  MaxAndSub(j, k) \in Nat
  BY DEF MaxAndSub

\* The point maps of a removal: one nominee without its next point, the sum
\* without the nominee, the slope changes without its own.
LEMMA RemoveNomineeTyped ==
  ASSUME TypeOK, NEW s \in Owners, NEW n \in Nominees, RemoveNominee(s, n)
  PROVE  WeightsTypeOK'
  <1>1. NextTime \in Weeks
    BY NextTimeIsWeek DEF TypeOK
  <1> DEFINE weight == WalkWeight(n)
             slope == weight.points[NextTime].slope
  <1>2. /\ weight.points \in [Weeks -> Points] /\ weight.bias \in Nat
        /\ WalkSum.points \in [Weeks -> Points] /\ WalkSum.bias \in Nat
    BY WalksTyped
  <1>3. slope \in Nat
    <2>1. weight.points[NextTime] \in Points
      BY <1>1, <1>2
    <2> QED BY <2>1 DEF Points
  <1> HIDE DEF weight
  <1>4. NoPoint \in Points
    BY DEF NoPoint, Points
  <1>5. SumWithout(WalkSum.points[NextTime], WalkSum.bias, weight.bias, slope) \in Points
    <2>1. WalkSum.points[NextTime].slope \in Nat
      BY <1>1, <1>2 DEF Points
    <2> HIDE DEF slope
    <2> QED BY <1>2, <1>3, <2>1, MaxAndSubTyped DEF SumWithout, Points
  <1>6. /\ pointsWeight' = [pointsWeight EXCEPT ![n] = [weight.points EXCEPT ![NextTime] = NoPoint]]
        /\ timeWeight' = [timeWeight EXCEPT ![n] = NextTime]
        /\ pointsSum' = [WalkSum.points EXCEPT ![NextTime] =
                           SumWithout(WalkSum.points[NextTime], WalkSum.bias, weight.bias, slope)]
        /\ timeSum' = NextTime
        /\ changesSum' = [t \in Weeks |-> IF t \in StrippedWeeks
                             THEN MaxAndSub(changesSum[t], changesWeight[n][t]) ELSE changesSum[t]]
        /\ changesWeight' = [changesWeight EXCEPT ![n] =
                               [t \in Weeks |-> IF t \in StrippedWeeks THEN 0
                                                ELSE changesWeight[n][t]]]
    BY DEF RemoveNominee, TypeOK, WeightsTypeOK, weight
  <1> HIDE DEF slope
  <1>7. pointsWeight' \in [Nominees -> [Weeks -> Points]] /\ timeWeight' \in [Nominees -> Weeks]
    BY <1>1, <1>2, <1>4, <1>6 DEF TypeOK, WeightsTypeOK
  <1>8. pointsSum' \in [Weeks -> Points] /\ timeSum' \in Weeks
    BY <1>1, <1>2, <1>5, <1>6
  <1>9. ASSUME NEW t \in Weeks
        PROVE  changesSum[t] \in Nat /\ changesWeight[n][t] \in Nat
    BY DEF TypeOK, WeightsTypeOK
  <1>10. changesSum' \in [Weeks -> Nat]
    BY <1>6, <1>9, MaxAndSubTyped
  <1>11. changesWeight' \in [Nominees -> [Weeks -> Nat]]
    <2>1. [t \in Weeks |-> IF t \in StrippedWeeks THEN 0 ELSE changesWeight[n][t]] \in [Weeks -> Nat]
      BY <1>9
    <2> QED BY <2>1, <1>6 DEF TypeOK, WeightsTypeOK
  <1> QED BY <1>7, <1>8, <1>10, <1>11 DEF WeightsTypeOK

\* The vote that a lock backs, and the point that takes it in.
LEMMA VoteTyped ==
  ASSUME TypeOK, NEW u \in Voters, NEW weight \in Nat
  PROVE  VoteOf(u, weight) \in VotedSlopes
  <1>1. locked[u].amount \in Nat /\ locked[u].endTime \in Nat
    BY DEF TypeOK, VeTypeOK, Locks
  <1>2. UserSlope(u) \in Nat
    BY <1>1, LockAssumption, WeekAssumption DEF UserSlope
  <1>3. UserSlope(u) * weight \in Nat
    BY <1>2
  <1>4. (UserSlope(u) * weight) \div MAX_WEIGHT \in Nat
    BY <1>3, ConstantsAssumption
  <1> QED BY <1>1, <1>4 DEF VoteOf, VotedSlopes

LEMMA RevoteTyped ==
  ASSUME VeTypeOK, NEW walk, walk.points \in [Weeks -> Points], walk.bias \in Nat,
         NEW old \in VotedSlopes, NEW new \in VotedSlopes, NextTime < new.end
  PROVE  Revote(walk, old, new) \in [Weeks -> Points]
  <1>1. NextTime \in Weeks /\ NextTime \in Nat
    BY NextTimeIsWeek, WeeksAreTimes
  <1> DEFINE live == old.end > NextTime
             oldBias == IF live THEN old.slope * (old.end - NextTime) ELSE 0
             newBias == new.slope * (new.end - NextTime)
             slope == walk.points[NextTime].slope
  <1>2. /\ old.slope \in Nat /\ old.end \in Nat /\ new.slope \in Nat /\ new.end \in Nat
        /\ slope \in Nat
    BY <1>1 DEF VotedSlopes, Points
  <1>3. newBias \in Nat
    BY <1>1, <1>2
  <1>4. oldBias \in Nat
    BY <1>1, <1>2
  <1> HIDE DEF oldBias, newBias, slope
  <1>5. MaxAndSub(walk.bias + newBias, oldBias) \in Nat
    <2>1. walk.bias + newBias \in Nat
      BY <1>3
    <2> QED BY <2>1, <1>4, MaxAndSubTyped
  <1> DEFINE newSlope == IF live THEN MaxAndSub(slope + new.slope, old.slope)
                         ELSE slope + new.slope
  <1>6. newSlope \in Nat
    <2>1. slope + new.slope \in Nat
      BY <1>2
    <2>2. MaxAndSub(slope + new.slope, old.slope) \in Nat
      BY <2>1, <1>2, MaxAndSubTyped
    <2> HIDE DEF live
    <2> QED BY <2>1, <2>2
  <1>7. Revote(walk, old, new) =
          [walk.points EXCEPT ![NextTime] =
             [bias |-> MaxAndSub(walk.bias + newBias, oldBias), slope |-> newSlope]]
    BY DEF Revote, oldBias, newBias, slope
  <1> HIDE DEF live, newSlope
  <1>8. [bias |-> MaxAndSub(walk.bias + newBias, oldBias), slope |-> newSlope] \in Points
    BY <1>5, <1>6 DEF Points
  <1> QED BY <1>7, <1>8

LEMMA RescheduleTyped ==
  ASSUME NEW changes \in [Weeks -> Nat], NEW old \in VotedSlopes, NEW new \in VotedSlopes,
         CanCancel(changes, old), VeTypeOK
  PROVE  Reschedule(changes, old, new) \in [Weeks -> Nat]
  <1> DEFINE cancelled == IF old.end > now THEN [changes EXCEPT ![old.end] = @ - old.slope]
                          ELSE changes
  <1>1. old.slope \in Nat /\ new.slope \in Nat
    BY DEF VotedSlopes
  <1>2. cancelled \in [Weeks -> Nat]
    <2>1. CASE ~(old.end > now)
      BY <2>1
    <2>2. CASE old.end > now /\ old.end \in Weeks
      <3>1. changes[old.end] \in Nat /\ changes[old.end] >= old.slope
        BY <2>2 DEF CanCancel
      <3>2. changes[old.end] - old.slope \in Nat
        BY <3>1, <1>1
      <3> QED BY <2>2, <3>2
    <2>3. CASE old.end > now /\ old.end \notin Weeks
      BY <2>3
    <2> QED BY <2>1, <2>2, <2>3
  <1> HIDE DEF cancelled
  <1>3. [cancelled EXCEPT ![new.end] = @ + new.slope] \in [Weeks -> Nat]
    <2>1. CASE new.end \in Weeks
      <3>1. cancelled[new.end] + new.slope \in Nat
        BY <2>1, <1>1, <1>2
      <3> QED BY <3>1, <1>2
    <2>2. CASE new.end \notin Weeks
      BY <2>2, <1>2
    <2> QED BY <2>1, <2>2
  <1> QED BY <1>3 DEF Reschedule, cancelled

\* A vote replaces the points of the coming week and moves one slope change in
\* the maps of its nominee and of the sum.
LEMMA VoteForNomineeWeightsTyped ==
  ASSUME TypeOK, NEW u \in Voters, NEW n \in Nominees, NEW weight \in 0 .. MAX_WEIGHT + 1,
         VoteForNomineeWeights(u, n, weight)
  PROVE  VotesTypeOK' /\ WeightsTypeOK'
  <1> DEFINE old == voteUserSlopes[u][n]
             new == VoteOf(u, weight)
             powerUsed == voteUserPower[u] + weight - old.power
  <1>1. VeTypeOK /\ now \in Nat /\ weight \in Nat
    BY TimeAssumption, ConstantsAssumption DEF TypeOK, VeTypeOK
  <1>2. old \in VotedSlopes /\ new \in VotedSlopes
    BY <1>1, VoteTyped DEF TypeOK, VotesTypeOK
  <1>3. powerUsed \in Nat
    <2>1. powerUsed >= 0
      BY DEF VoteForNomineeWeights
    <2>2. voteUserPower[u] \in Nat /\ old.power \in Nat
      BY <1>2 DEF TypeOK, VotesTypeOK, VotedSlopes
    <2> HIDE DEF old
    <2> QED BY <2>1, <2>2, <1>1
  <1>4. NextTime < new.end
    BY DEF VoteForNomineeWeights, VoteOf
  <1>5. CanCancel(changesWeight[n], old) /\ CanCancel(changesSum, old)
    BY DEF VoteForNomineeWeights
  <1>6. /\ voteUserPower' = [voteUserPower EXCEPT ![u] = powerUsed]
        /\ pointsWeight' = [pointsWeight EXCEPT ![n] = Revote(WalkWeight(n), old, new)]
        /\ timeWeight' = [timeWeight EXCEPT ![n] = WalkWeight(n).time]
        /\ pointsSum' = Revote(WalkSum, old, new)
        /\ timeSum' = WalkSum.time
        /\ changesWeight' = [changesWeight EXCEPT ![n] = Reschedule(changesWeight[n], old, new)]
        /\ changesSum' = Reschedule(changesSum, old, new)
        /\ voteUserSlopes' = [voteUserSlopes EXCEPT ![u] = [voteUserSlopes[u] EXCEPT ![n] = new]]
        /\ lastUserVote' = [lastUserVote EXCEPT ![u] = [lastUserVote[u] EXCEPT ![n] = now]]
    BY DEF VoteForNomineeWeights, TypeOK, WeightsTypeOK, VotesTypeOK
  <1> HIDE DEF old, new, powerUsed
  <1>7. VotesTypeOK'
    BY <1>1, <1>2, <1>3, <1>6 DEF TypeOK, VotesTypeOK
  <1>8. /\ Revote(WalkWeight(n), old, new) \in [Weeks -> Points]
        /\ Revote(WalkSum, old, new) \in [Weeks -> Points]
    <2>1. WalkWeight(n).points \in [Weeks -> Points] /\ WalkWeight(n).bias \in Nat
      BY WalksTyped
    <2>2. WalkSum.points \in [Weeks -> Points] /\ WalkSum.bias \in Nat
      BY WalksTyped
    <2>3. Revote(WalkWeight(n), old, new) \in [Weeks -> Points]
      BY <2>1, <1>1, <1>2, <1>4, RevoteTyped
    <2>4. Revote(WalkSum, old, new) \in [Weeks -> Points]
      BY <2>2, <1>1, <1>2, <1>4, RevoteTyped
    <2> QED BY <2>3, <2>4
  <1>9. /\ Reschedule(changesWeight[n], old, new) \in [Weeks -> Nat]
        /\ Reschedule(changesSum, old, new) \in [Weeks -> Nat]
    BY <1>1, <1>2, <1>5, RescheduleTyped DEF TypeOK, WeightsTypeOK
  <1>10. WalkWeight(n).time \in Weeks /\ WalkSum.time \in Weeks
    BY WalksTyped
  <1>11. WeightsTypeOK'
    BY <1>6, <1>8, <1>9, <1>10 DEF TypeOK, WeightsTypeOK
  <1> QED BY <1>7, <1>11

LEMMA VoterStepTyped ==
  ASSUME TypeOK, NEW u \in Voters, VoterStep(u)
  PROVE  VotesTypeOK' /\ WeightsTypeOK' /\ UNCHANGED <<veVars, owner>>
  <1>1. ASSUME NEW n \in Nominees, NEW weight \in 0 .. MAX_WEIGHT + 1,
               VoteForNomineeWeights(u, n, weight)
        PROVE  VotesTypeOK' /\ WeightsTypeOK' /\ UNCHANGED <<veVars, owner>>
    BY <1>1, VoteForNomineeWeightsTyped DEF VoteForNomineeWeights
  <1>2. ASSUME NEW n \in Nominees, RevokeRemovedNomineeVotingPower(u, n)
        PROVE  VotesTypeOK' /\ WeightsTypeOK' /\ UNCHANGED <<veVars, owner>>
    <2> DEFINE old == voteUserSlopes[u][n]
    <2>1. /\ voteUserPower' = [voteUserPower EXCEPT ![u] = voteUserPower[u] - old.power]
          /\ voteUserSlopes' = [voteUserSlopes EXCEPT ![u] = [voteUserSlopes[u] EXCEPT ![n] = NoVote]]
          /\ voteUserPower[u] >= old.power
          /\ UNCHANGED <<veVars, owner, lastUserVote, weightVars, sumVars>>
      BY <1>2 DEF RevokeRemovedNomineeVotingPower, TypeOK, VotesTypeOK
    <2>2. old.power \in Nat /\ voteUserPower[u] \in Nat /\ NoVote \in VotedSlopes
      BY DEF TypeOK, VotesTypeOK, VotedSlopes, NoVote
    <2> HIDE DEF old
    <2>3. voteUserPower[u] - old.power \in Nat
      BY <2>1, <2>2
    <2>4. VotesTypeOK'
      BY <2>1, <2>2, <2>3 DEF TypeOK, VotesTypeOK
    <2> QED BY <2>1, <2>4 DEF TypeOK, WeightsTypeOK, weightVars, sumVars
  <1> QED BY <1>1, <1>2 DEF VoterStep

LEMMA OwnerStepTyped ==
  ASSUME TypeOK, NEW s \in Owners, OwnerStep(s)
  PROVE  VotesTypeOK' /\ WeightsTypeOK' /\ owner' \in Owners /\ UNCHANGED veVars
  <1>1. ASSUME NEW o \in Owners \cup {ZeroAccount}, ChangeOwner(s, o)
        PROVE  VotesTypeOK' /\ WeightsTypeOK' /\ owner' \in Owners /\ UNCHANGED veVars
    BY <1>1 DEF ChangeOwner, TypeOK, VotesTypeOK, WeightsTypeOK, voterVars, weightVars, sumVars
  <1>2. ASSUME NEW n \in Nominees, RemoveNominee(s, n)
        PROVE  VotesTypeOK' /\ WeightsTypeOK' /\ owner' \in Owners /\ UNCHANGED veVars
    <2>1. UNCHANGED <<veVars, owner, voterVars>>
      BY <1>2 DEF RemoveNominee
    <2> QED BY <1>2, <2>1, RemoveNomineeTyped DEF TypeOK, VotesTypeOK, voterVars
  <1> QED BY <1>1, <1>2 DEF OwnerStep

LEMMA AnyoneStepTyped ==
  ASSUME TypeOK, AnyoneStep
  PROVE  VotesTypeOK' /\ WeightsTypeOK' /\ UNCHANGED <<veVars, owner>>
  <1>1. ASSUME NEW n \in Nominees, AddNominee(n)
        PROVE  VotesTypeOK' /\ WeightsTypeOK' /\ UNCHANGED <<veVars, owner>>
    <2>1. NextTime \in Weeks
      BY NextTimeIsWeek DEF TypeOK
    <2> QED BY <1>1, <2>1 DEF AddNominee, TypeOK, VotesTypeOK, WeightsTypeOK, voterVars, sumVars
  <1>2. ASSUME NEW account \in Targets \cup {ZeroAccount}, NEW chainId \in ChainIds,
               AddNomineeEVM(account, chainId) \/ AddNomineeNonEVM(account, chainId)
        PROVE  VotesTypeOK' /\ WeightsTypeOK' /\ UNCHANGED <<veVars, owner>>
    <2>1. <<account, chainId>> \in Nominees
      BY DEF Nominees
    <2> QED BY <1>1, <1>2, <2>1 DEF AddNomineeEVM, AddNomineeNonEVM
  <1>3. CASE Checkpoint
    BY <1>3, WalksTyped DEF Checkpoint, TypeOK, VotesTypeOK, WeightsTypeOK, voterVars, weightVars
  <1>4. ASSUME NEW n \in Nominees, CheckpointNominee(n)
        PROVE  VotesTypeOK' /\ WeightsTypeOK' /\ UNCHANGED <<veVars, owner>>
    BY <1>4, WalksTyped DEF CheckpointNominee, TypeOK, VotesTypeOK, WeightsTypeOK, voterVars
  <1> QED BY <1>2, <1>3, <1>4 DEF AnyoneStep

LEMMA TypeNext == TypeOK /\ RegistryInv' /\ [Next]_vars => TypeOK'
  <1> SUFFICES ASSUME TypeOK, RegistryInv', [Next]_vars PROVE TypeOK'
    OBVIOUS
  <1>1. RegistryTypeOK'
    BY DEF RegistryInv
  <1>2. CASE VeStep
    BY <1>1, <1>2, VeStepTyped DEF VeStep, TypeOK, VotesTypeOK, WeightsTypeOK, vwVars,
                                   voterVars, weightVars, sumVars
  <1>3. ASSUME UNCHANGED veVars PROVE VeTypeOK'
    BY <1>3 DEF veVars, VeTypeOK, TypeOK
  <1>4. ASSUME NEW s \in Owners, OwnerStep(s) PROVE TypeOK'
    BY <1>1, <1>3, <1>4, OwnerStepTyped DEF TypeOK
  <1>5. CASE AnyoneStep
    BY <1>1, <1>3, <1>5, AnyoneStepTyped DEF TypeOK
  <1>6. ASSUME NEW u \in Voters, VoterStep(u) PROVE TypeOK'
    BY <1>1, <1>3, <1>6, VoterStepTyped DEF TypeOK
  <1>7. CASE UNCHANGED vars
    BY <1>1, <1>3, <1>7 DEF TypeOK, VotesTypeOK, WeightsTypeOK, vars, vwVars, voterVars,
                            weightVars, sumVars
  <1> QED BY <1>2, <1>4, <1>5, <1>6, <1>7 DEF Next

\* For any voters, nominees, weeks, lock lengths and delays: every walk, vote,
\* removal and revocation stays within the weekly maps and never makes an amount,
\* bias, slope, power or id negative; the owner is never the zero address.
THEOREM TypesAreKept == Spec => []TypeOK
  <1>1. TypeOK /\ RegistryInv /\ RegistryInv' /\ [Next]_vars => TypeOK'
    BY TypeNext
  <1> QED BY <1>1, TypeInit, RegistryInit, RegistryNext, PTL DEF Spec
=============================================================================
