---------------------------- MODULE BuOLASProofs ----------------------------
(***************************************************************************)
(* The token and the vesting locks for any accounts, amounts, caps and     *)
(* years: the supply stays within the schedule, every lock is backed and   *)
(* every grant is honoured.                                                *)
(***************************************************************************)
EXTENDS BuOLAS, FiniteSums

(***************************************************************************)
(* Products and quotients                                                  *)
(***************************************************************************)

LEMMA Quotient ==
  ASSUME NEW x \in Nat, NEW k \in Nat \ {0}
  PROVE  /\ x \div k \in Nat
         /\ (x \div k) * k <= x /\ x < (x \div k) * k + k
  OBVIOUS

LEMMA ProductsOrdered ==
  ASSUME NEW a \in Nat, NEW r \in Nat, NEW q \in Nat, r <= q
  PROVE  /\ a * r \in Nat /\ a * q \in Nat /\ a * r <= a * q
         /\ r < q => a * r + a <= a * q
         /\ r * a \in Nat /\ r * a = a * r
  <1>1. q - r \in Nat
    OBVIOUS
  <1>2. a * (q - r) >= 0 /\ a * q - a * r = a * (q - r)
    BY <1>1
  <1>3. ASSUME r < q PROVE a * (q - r) >= a
    <2>1. q - r - 1 \in Nat
      BY <1>3
    <2>2. a * (q - r - 1) >= 0 /\ a * (q - r - 1) = a * (q - r) - a
      BY <2>1
    <2> QED BY <2>2, <1>1
  <1>4. a * r \in Nat /\ a * q \in Nat /\ r * a = a * r
    OBVIOUS
  <1>5. a * (q - r) \in Nat
    BY <1>1
  <1> QED BY <1>2, <1>3, <1>4, <1>5

\* A larger dividend has a larger quotient, and a quotient is the only one.
LEMMA QuotientsOrdered ==
  ASSUME NEW x \in Nat, NEW y \in Nat, x <= y, NEW k \in Nat \ {0}
  PROVE  x \div k <= y \div k
  <1> DEFINE p == x \div k
             q == y \div k
  <1>1. p \in Nat /\ q \in Nat /\ p * k <= x /\ y < q * k + k
    BY Quotient
  <1> HIDE DEF p, q
  <1>2. q < p => k * q + k <= k * p
    BY <1>1, ProductsOrdered
  <1>3. p * k = k * p /\ q * k = k * q /\ k * p \in Nat /\ k * q \in Nat
    BY <1>1
  <1> QED BY <1>1, <1>2, <1>3 DEF p, q

LEMMA QuotientOfProduct ==
  ASSUME NEW x \in Nat, NEW k \in Nat \ {0}
  PROVE  (k * x) \div k = x
  <1> DEFINE p == (k * x) \div k
  <1>1. p \in Nat /\ p * k <= k * x /\ k * x < p * k + k /\ k * x \in Nat
    BY Quotient
  <1> HIDE DEF p
  <1>2. p < x => k * p + k <= k * x
    BY <1>1, ProductsOrdered
  <1>3. x < p => k * x + k <= k * p
    BY <1>1, ProductsOrdered
  <1>4. p * k = k * p /\ k * p \in Nat
    BY <1>1
  <1> QED BY <1>1, <1>2, <1>3, <1>4 DEF p

(***************************************************************************)
(* The supply cap                                                          *)
(***************************************************************************)

Compounded(cap) == cap + (cap * maxMintCapFraction) \div 100
IsCap(cap, n) ==
  /\ cap \in [0 .. n -> Nat] /\ cap[0] = tenYearSupplyCap
  /\ \A k \in 1 .. n : cap[k] = Compounded(cap[k - 1])

LEMMA CompoundedTyped ==
  ASSUME NEW c \in Nat
  PROVE  Compounded(c) \in Nat /\ c <= Compounded(c)
  <1>1. c * maxMintCapFraction \in Nat
    BY OLASAssumption
  <1>2. (c * maxMintCapFraction) \div 100 \in Nat
    BY <1>1
  <1> QED BY <1>2 DEF Compounded

LEMMA YearsTyped ==
  ASSUME NEW t \in Nat, timeLaunch <= t
  PROVE  /\ NumYears(t) \in Nat /\ CompoundedYears(t) \in Nat
         /\ t < timeLaunch + (LastCapYear + 1) * oneYear => CompoundedYears(t) = 0
         /\ CompoundedYears(t + 1) = CompoundedYears(t)
            \/ CompoundedYears(t + 1) = CompoundedYears(t) + 1
  <1> DEFINE x == t - timeLaunch
             p == x \div oneYear
             q == (x + 1) \div oneYear
  <1>1. x \in Nat /\ x + 1 \in Nat /\ oneYear \in Nat \ {0} /\ LastCapYear \in Nat
        /\ timeLaunch \in Nat
    BY OLASAssumption DEF timeLaunch
  <1>2. /\ NumYears(t) = p /\ NumYears(t + 1) = q
    <2>1. (t + 1) - timeLaunch = x + 1
      BY <1>1
    <2> QED BY <2>1 DEF NumYears
  <1>3. t = timeLaunch + x
    BY <1>1
  <1> HIDE DEF x
  <1>4. /\ p \in Nat /\ p * oneYear <= x /\ x < p * oneYear + oneYear
        /\ q \in Nat /\ q * oneYear <= x + 1 /\ x + 1 < q * oneYear + oneYear
    BY <1>1, Quotient
  <1>5. p <= q
    BY <1>1, QuotientsOrdered
  <1> HIDE DEF p, q
  <1>6. q <= p + 1
    <2>1. p + 1 < q => oneYear * (p + 1) + oneYear <= oneYear * q
      BY <1>1, <1>4, ProductsOrdered
    <2>2. oneYear * (p + 1) = p * oneYear + oneYear /\ oneYear * q = q * oneYear
          /\ p * oneYear \in Nat /\ q * oneYear \in Nat
      BY <1>1, <1>4
    <2> QED BY <2>1, <2>2, <1>1, <1>4
  <1>7. ASSUME t < timeLaunch + (LastCapYear + 1) * oneYear PROVE p <= LastCapYear
    <2>1. LastCapYear + 1 <= p => oneYear * (LastCapYear + 1) <= oneYear * p
      BY <1>1, <1>4, ProductsOrdered
    <2>2. /\ oneYear * (LastCapYear + 1) = (LastCapYear + 1) * oneYear
          /\ (LastCapYear + 1) * oneYear \in Nat
          /\ oneYear * p = p * oneYear /\ p * oneYear \in Nat
      BY <1>1, <1>4
    <2>3. x < (LastCapYear + 1) * oneYear
      BY <1>1, <1>3, <1>7, <2>2
    <2> QED BY <2>1, <2>2, <2>3, <1>1, <1>4
  <1> QED BY <1>1, <1>2, <1>4, <1>5, <1>6, <1>7 DEF CompoundedYears

\* The recursion of the cap over the years has a solution, which SupplyCap takes.
LEMMA SupplyCapDef ==
  ASSUME NEW t \in Nat, timeLaunch <= t
  PROVE  \E cap : IsCap(cap, CompoundedYears(t)) /\ SupplyCap(t) = cap[CompoundedYears(t)]
  <1> DEFINE n == CompoundedYears(t)
             step == [k \in 1 .. n |-> [c \in Nat |-> Compounded(c)]]
             Solves(f) == f = [k \in 0 .. n |-> IF k = 0 THEN tenYearSupplyCap
                                                ELSE Compounded(f[k - 1])]
  <1>1. n \in Nat /\ tenYearSupplyCap \in Nat
    BY YearsTyped, OLASAssumption
  <1> HIDE DEF n
  <1>2. step \in [1 .. n -> [Nat -> Nat]]
    BY CompoundedTyped
  <1>3. \A k \in 1 .. n, c \in Nat : step[k][c] = Compounded(c)
    OBVIOUS
  <1> HIDE DEF step
  <1>4. PICK f \in [0 .. n -> Nat] :
          f[0] = tenYearSupplyCap /\ \A k \in 1 .. n : f[k] = step[k][f[k - 1]]
    <2>1. \E f \in [0 .. n -> Nat] : IsWalk(f, tenYearSupplyCap, step, n)
      BY <1>1, <1>2, WalkExists
    <2> QED BY <2>1 DEF IsWalk
  <1>5. ASSUME NEW k \in 0 .. n
        PROVE  f[k] = IF k = 0 THEN tenYearSupplyCap ELSE Compounded(f[k - 1])
    <2>1. CASE k = 0
      BY <2>1, <1>4
    <2>2. CASE k # 0
      <3>1. k \in 1 .. n /\ k - 1 \in 0 .. n
        BY <1>1, <2>2
      <3>2. f[k - 1] \in Nat
        BY <3>1, <1>4
      <3> QED BY <2>2, <3>1, <3>2, <1>3, <1>4
    <2> QED BY <2>1, <2>2
  <1>6. Solves(f)
    <2>1. f = [k \in 0 .. n |-> f[k]]
      BY <1>4
    <2> QED BY <2>1, <1>5
  <1> DEFINE cap == CHOOSE g : Solves(g)
  <1>7. Solves(cap)
    <2> HIDE DEF Solves
    <2> QED BY <1>6
  <1>8. SupplyCap(t) = cap[n]
    BY DEF SupplyCap, Compounded, n
  <1> HIDE DEF cap
  <1>9. cap[0] = tenYearSupplyCap /\ \A k \in 1 .. n : cap[k] = Compounded(cap[k - 1])
    BY <1>1, <1>7
  <1>10. \A k \in 0 .. n : cap[k] \in Nat
    <2> DEFINE T == {k \in 0 .. n : cap[k] \in Nat}
    <2>1. n \in Nat /\ 0 \in T
      BY <1>1, <1>9
    <2>2. ASSUME NEW k \in 0 .. n, k \in T, k < n PROVE k + 1 \in T
      <3>1. k + 1 \in 1 .. n /\ k + 1 \in 0 .. n /\ (k + 1) - 1 = k /\ cap[k] \in Nat
        BY <1>1, <2>2
      <3>2. cap[k + 1] = Compounded(cap[k])
        BY <3>1, <1>9
      <3> QED BY <3>1, <3>2, CompoundedTyped
    <2> HIDE DEF T
    <2>3. \A k \in 0 .. n : k \in T
      BY <2>1, <2>2, IntervalInduction
    <2> QED BY <2>3 DEF T
  <1>11. cap \in [0 .. n -> Nat]
    BY <1>7, <1>10
  <1> QED BY <1>8, <1>9, <1>11 DEF IsCap, n

\* The cap is one recursion, whatever year it is taken in.
LEMMA CapsAgree ==
  ASSUME NEW n \in Nat, NEW m \in Nat, n <= m, NEW f, NEW g, IsCap(f, n), IsCap(g, m)
  PROVE  \A k \in 0 .. n : f[k] = g[k]
  <1> DEFINE T == {k \in 0 .. n : f[k] = g[k]}
  <1>1. 0 \in T
    BY DEF IsCap
  <1>2. ASSUME NEW k \in 0 .. n, k \in T, k < n PROVE k + 1 \in T
    <2>1. k + 1 \in 1 .. n /\ k + 1 \in 1 .. m /\ k + 1 \in 0 .. n /\ (k + 1) - 1 = k
      BY <1>2
    <2>2. f[k + 1] = Compounded(f[k]) /\ g[k + 1] = Compounded(g[k])
      BY <2>1 DEF IsCap
    <2> QED BY <1>2, <2>1, <2>2
  <1> HIDE DEF T
  <1>3. \A k \in 0 .. n : k \in T
    BY <1>1, <1>2, IntervalInduction
  <1> QED BY <1>3 DEF T

\* The cap never goes down.
LEMMA SupplyCapGrows ==
  ASSUME NEW t \in Nat, timeLaunch <= t
  PROVE  /\ SupplyCap(t) \in Nat
         /\ SupplyCap(t) <= SupplyCap(t + 1)
         /\ t < timeLaunch + (LastCapYear + 1) * oneYear => SupplyCap(t) = tenYearSupplyCap
  <1> DEFINE n == CompoundedYears(t)
             m == CompoundedYears(t + 1)
  <1>1. t + 1 \in Nat /\ timeLaunch <= t + 1
    BY OLASAssumption DEF timeLaunch
  <1>2. /\ n \in Nat /\ m \in Nat /\ (m = n \/ m = n + 1)
        /\ t < timeLaunch + (LastCapYear + 1) * oneYear => n = 0
    BY <1>1, YearsTyped
  <1>3. PICK f : IsCap(f, n) /\ SupplyCap(t) = f[n]
    BY SupplyCapDef
  <1>4. PICK g : IsCap(g, m) /\ SupplyCap(t + 1) = g[m]
    BY <1>1, SupplyCapDef
  <1> HIDE DEF n, m
  <1>5. f[n] \in Nat /\ g[n] \in Nat /\ f[n] = g[n]
    <2>1. n <= m /\ n \in 0 .. n /\ n \in 0 .. m
      BY <1>2
    <2>2. f[n] = g[n]
      BY <1>2, <1>3, <1>4, <2>1, CapsAgree
    <2> QED BY <2>1, <2>2, <1>3 DEF IsCap
  <1>6. g[n] <= g[m]
    <2>1. CASE m = n
      BY <2>1, <1>5
    <2>2. CASE m = n + 1
      <3>1. m \in 1 .. m /\ m - 1 = n
        BY <1>2, <2>2
      <3>2. g[m] = Compounded(g[n])
        BY <3>1, <1>4 DEF IsCap
      <3> QED BY <3>2, <1>5, CompoundedTyped
    <2> QED BY <1>2, <2>1, <2>2
  <1>7. n = 0 => f[n] = tenYearSupplyCap
    BY <1>3 DEF IsCap
  <1> QED BY <1>2, <1>3, <1>4, <1>5, <1>6, <1>7

(***************************************************************************)
(* The token                                                               *)
(***************************************************************************)

BalanceSum(balances) == SumFunctionOnSet(balances, Accounts)

TokenInv ==
  /\ OlasTypeOK
  /\ totalSupply = BalanceSum(balanceOf)
  /\ totalSupply <= SupplyCap(now)

LEMMA AccountsFinite == IsFiniteSet(Accounts)
  BY OLASAssumption, FS_AddElement DEF Accounts

LEMMA TokenTyped ==
  ASSUME TokenInv
  PROVE  /\ now \in Nat /\ timeLaunch <= now /\ now <= MaxTime
         /\ totalSupply \in Nat /\ balanceOf \in [Accounts -> Nat]
         /\ \A a \in Accounts : balanceOf[a] \in Nat /\ balanceOf[a] <= totalSupply
         /\ SupplyCap(now) \in Nat
  <1>1. /\ now \in Nat /\ timeLaunch <= now /\ now <= MaxTime
        /\ totalSupply \in Nat /\ balanceOf \in [Accounts -> Nat]
    BY OLASAssumption DEF TokenInv, OlasTypeOK, timeLaunch
  <1>2. \A a \in Accounts : balanceOf[a] \in Nat
    BY <1>1
  <1>3. \A a \in Accounts : balanceOf[a] <= BalanceSum(balanceOf)
    BY <1>2, AccountsFinite, SumNat DEF BalanceSum
  <1> QED BY <1>1, <1>2, <1>3, SupplyCapGrows DEF TokenInv

\* A balance that changes changes the sum.
LEMMA BalanceChange ==
  ASSUME NEW balances \in [Accounts -> Nat], NEW after \in [Accounts -> Nat], NEW a \in Accounts,
         \A b \in Accounts \ {a} : after[b] = balances[b]
  PROVE  /\ BalanceSum(after) = BalanceSum(balances) - balances[a] + after[a]
         /\ BalanceSum(balances) \in Nat /\ BalanceSum(after) \in Nat
  <1>1. \A b \in Accounts : /\ balances[b] \in Nat /\ after[b] \in Nat
                             /\ after[b] \in Int /\ balances[b] \in Int
    OBVIOUS
  <1>2. BalanceSum(after) = BalanceSum(balances) - balances[a] + after[a]
    BY <1>1, AccountsFinite, SumUpdate DEF BalanceSum
  <1>3. BalanceSum(balances) \in Nat /\ BalanceSum(after) \in Nat
    BY <1>1, AccountsFinite, SumNat DEF BalanceSum
  <1> QED BY <1>1, <1>2, <1>3

\* A payment from one account to another, with a part of it burned.
IsPayment(before, mid, after, a, b, burnt, amount) ==
  /\ before \in [Accounts -> Nat] /\ mid \in [Accounts -> Nat] /\ after \in [Accounts -> Nat]
  /\ a \in Accounts /\ b \in Accounts /\ burnt \in Nat /\ amount \in Nat
  /\ before[a] = mid[a] + burnt + amount /\ \A c \in Accounts \ {a} : mid[c] = before[c]
  /\ after[b] = mid[b] + amount /\ \A c \in Accounts \ {b} : after[c] = mid[c]

LEMMA PaymentEffect ==
  ASSUME NEW before, NEW mid, NEW after, NEW a, NEW b, NEW burnt, NEW amount,
         IsPayment(before, mid, after, a, b, burnt, amount)
  PROVE  /\ BalanceSum(after) = BalanceSum(before) - burnt
         /\ BalanceSum(after) \in Nat
         /\ \A c \in Accounts \ {a} : after[c] >= before[c]
  <1> USE DEF IsPayment
  <1>1. /\ before[a] \in Nat /\ mid[a] \in Nat /\ mid[b] \in Nat
    OBVIOUS
  <1>2. /\ BalanceSum(mid) = BalanceSum(before) - before[a] + mid[a]
        /\ BalanceSum(before) \in Nat /\ BalanceSum(mid) \in Nat
    BY BalanceChange
  <1>3. BalanceSum(after) = BalanceSum(mid) - mid[b] + after[b] /\ BalanceSum(after) \in Nat
    BY BalanceChange
  <1>4. BalanceSum(after) = BalanceSum(before) - burnt
    BY <1>1, <1>2, <1>3
  <1>5. \A c \in Accounts \ {a} : after[c] >= before[c]
    <2> SUFFICES ASSUME NEW c \in Accounts \ {a} PROVE after[c] >= before[c]
      OBVIOUS
    <2>1. before[c] \in Nat /\ mid[c] = before[c]
      OBVIOUS
    <2>2. CASE c = b
      BY <2>1, <2>2
    <2>3. CASE c # b
      BY <2>1, <2>3
    <2> QED BY <2>2, <2>3
  <1> QED BY <1>3, <1>4, <1>5

\* Whatever moves balances without adding to the supply keeps the token in order.
LEMMA PaymentKeepsToken ==
  ASSUME TokenInv, UNCHANGED <<now, owner, minter>>, NEW burnt \in Nat,
         balanceOf' \in [Accounts -> Nat], BalanceSum(balanceOf') \in Nat,
         BalanceSum(balanceOf') = BalanceSum(balanceOf) - burnt,
         totalSupply' = totalSupply - burnt
  PROVE  TokenInv'
  <1>1. totalSupply' = BalanceSum(balanceOf') /\ totalSupply' \in Nat
    BY DEF TokenInv
  <1>2. totalSupply' <= SupplyCap(now)
    BY <1>1, TokenTyped DEF TokenInv
  <1>3. OlasTypeOK'
    BY <1>1 DEF TokenInv, OlasTypeOK, Accounts
  <1>4. SupplyCap(now)' = SupplyCap(now)
    BY DEF SupplyCap, CompoundedYears, NumYears, timeLaunch
  <1> QED BY <1>1, <1>2, <1>3, <1>4 DEF TokenInv, BalanceSum, Accounts

LEMMA OlasKeepsToken ==
  ASSUME TokenInv, OlasNext
  PROVE  /\ TokenInv'
         /\ \A a \in Escrows : balanceOf'[a] >= balanceOf[a]
         /\ UNCHANGED now \/ now' = now + 1
  <1>1. /\ now \in Nat /\ timeLaunch <= now /\ now <= MaxTime
        /\ totalSupply \in Nat /\ balanceOf \in [Accounts -> Nat]
        /\ totalSupply = BalanceSum(balanceOf) /\ totalSupply <= SupplyCap(now)
        /\ \A a \in Accounts : balanceOf[a] \in Nat
        /\ \A a \in Escrows : a \in Accounts /\ balanceOf[a] >= balanceOf[a]
        /\ Holders \subseteq Accounts /\ BurnerAddress \in Accounts
        /\ Amounts \subseteq Nat
    BY TokenTyped, OLASAssumption DEF TokenInv, Accounts
  <1>2. ASSUME NEW s \in Managers, NEW m \in Managers \cup {ZeroAddress},
               ChangeOwner(s, m) \/ ChangeMinter(s, m)
        PROVE  /\ TokenInv' /\ UNCHANGED <<now, balanceOf>>
    <2>1. m \in Managers /\ UNCHANGED <<now, totalSupply, balanceOf>>
          /\ owner' \in Managers /\ minter' \in Managers
      BY <1>2 DEF ChangeOwner, ChangeMinter, TokenInv, OlasTypeOK
    <2>2. SupplyCap(now)' = SupplyCap(now)
      BY <2>1 DEF SupplyCap, CompoundedYears, NumYears, timeLaunch
    <2> QED BY <2>1, <2>2 DEF TokenInv, OlasTypeOK, BalanceSum, Accounts
  <1>3. ASSUME NEW s \in Managers, NEW a \in Accounts, NEW amount \in Amounts, Mint(s, a, amount)
        PROVE  /\ TokenInv' /\ UNCHANGED now
               /\ \A b \in Escrows : balanceOf'[b] >= balanceOf[b]
    <2>1. UNCHANGED <<now, owner, minter>> /\ amount \in Nat /\ balanceOf[a] + amount \in Nat
      BY <1>1, <1>3 DEF Mint
    <2>2. SupplyCap(now)' = SupplyCap(now)
      BY <2>1 DEF SupplyCap, CompoundedYears, NumYears, timeLaunch
    <2>3. CASE InflationControl(amount)
      <3>1. /\ balanceOf' = [balanceOf EXCEPT ![a] = balanceOf[a] + amount]
            /\ totalSupply' = totalSupply + amount
        BY <1>3, <2>3 DEF Mint
      <3>2. /\ balanceOf' \in [Accounts -> Nat] /\ balanceOf'[a] = balanceOf[a] + amount
            /\ BalanceSum(balanceOf') = BalanceSum(balanceOf) - balanceOf[a] + balanceOf'[a]
            /\ BalanceSum(balanceOf) \in Nat /\ balanceOf[a] \in Nat
        <4>1. /\ balanceOf' \in [Accounts -> Nat] /\ balanceOf'[a] = balanceOf[a] + amount
              /\ \A b \in Accounts \ {a} : balanceOf'[b] = balanceOf[b]
          BY <1>1, <2>1, <3>1
        <4> QED BY <1>1, <4>1, BalanceChange
      <3>3. totalSupply' = BalanceSum(balanceOf') /\ totalSupply' \in Nat
        BY <1>1, <2>1, <3>1, <3>2
      <3>4. totalSupply' <= SupplyCap(now)
        <4>1. SupplyCap(now) \in Nat /\ amount <= SupplyCap(now) - totalSupply
          BY <2>3, TokenTyped DEF InflationControl, InflationRemainder
        <4> QED BY <1>1, <2>1, <3>1, <4>1
      <3>5. \A b \in Escrows : balanceOf'[b] >= balanceOf[b]
        BY <1>1, <2>1, <3>1
      <3> QED BY <2>1, <2>2, <3>2, <3>3, <3>4, <3>5 DEF TokenInv, OlasTypeOK, BalanceSum, Accounts
    <2>4. CASE ~InflationControl(amount)
      <3>1. UNCHANGED <<balanceOf, totalSupply>>
        BY <1>3, <2>4 DEF Mint
      <3> QED BY <1>1, <2>1, <2>2, <3>1 DEF TokenInv, OlasTypeOK, BalanceSum, Accounts
    <2> QED BY <2>3, <2>4
  <1>4. ASSUME NEW a \in Accounts \ Escrows, NEW amount \in Nat, BurnFrom(a, amount),
               UNCHANGED <<now, owner, minter>>
        PROVE  TokenInv' /\ \A b \in Escrows : balanceOf'[b] >= balanceOf[b]
    <2>1. /\ balanceOf[a] >= amount /\ totalSupply' = totalSupply - amount
          /\ balanceOf' = [balanceOf EXCEPT ![a] = balanceOf[a] - amount]
      BY <1>4 DEF BurnFrom
    <2>2. balanceOf[a] - amount \in Nat /\ balanceOf[a] \in Nat
      BY <1>1, <2>1
    <2>3. /\ balanceOf' \in [Accounts -> Nat] /\ balanceOf'[a] = balanceOf[a] - amount
          /\ \A b \in Accounts \ {a} : balanceOf'[b] = balanceOf[b]
      BY <1>1, <2>1, <2>2
    <2>4. /\ BalanceSum(balanceOf') = BalanceSum(balanceOf) - balanceOf[a] + balanceOf'[a]
          /\ BalanceSum(balanceOf) \in Nat /\ BalanceSum(balanceOf') \in Nat
      BY <1>1, <2>3, BalanceChange
    <2>5. BalanceSum(balanceOf') = BalanceSum(balanceOf) - amount
      BY <2>2, <2>3, <2>4
    <2>6. TokenInv'
      BY <1>4, <2>1, <2>3, <2>4, <2>5, PaymentKeepsToken
    <2>7. \A b \in Escrows : balanceOf'[b] = balanceOf[b]
      BY <1>1, <2>1
    <2> QED BY <1>1, <2>6, <2>7
  <1>5. ASSUME NEW h \in Holders, NEW a \in Accounts, NEW amount \in Amounts, Transfer(h, a, amount)
        PROVE  /\ TokenInv' /\ UNCHANGED now
               /\ \A b \in Escrows : balanceOf'[b] >= balanceOf[b]
    <2>1. /\ UNCHANGED <<now, owner, minter, totalSupply>> /\ amount \in Nat
          /\ balanceOf[h] >= 0 + amount /\ h \in Accounts /\ balanceOf[h] \in Nat
          /\ balanceOf' = [[balanceOf EXCEPT ![h] = balanceOf[h] - amount] EXCEPT ![a] = @ + amount]
      BY <1>1, <1>5 DEF Transfer, Move
    <2> DEFINE mid == [balanceOf EXCEPT ![h] = balanceOf[h] - amount]
    <2>2. PICK none \in Nat : none = 0
      OBVIOUS
    <2>3. /\ mid \in [Accounts -> Nat] /\ balanceOf[h] = mid[h] + none + amount
          /\ \A c \in Accounts \ {h} : mid[c] = balanceOf[c]
          /\ balanceOf' = [mid EXCEPT ![a] = mid[a] + amount]
      BY <1>1, <2>1, <2>2
    <2> HIDE DEF mid
    <2>4. /\ balanceOf' \in [Accounts -> Nat] /\ balanceOf'[a] = mid[a] + amount
          /\ \A c \in Accounts \ {a} : balanceOf'[c] = mid[c]
      BY <2>1, <2>3
    <2>5. /\ BalanceSum(balanceOf') \in Nat
          /\ BalanceSum(balanceOf') = BalanceSum(balanceOf) - none
          /\ \A c \in Accounts \ {h} : balanceOf'[c] >= balanceOf[c]
      <3>1. IsPayment(balanceOf, mid, balanceOf', h, a, none, amount)
        BY <1>1, <2>1, <2>3, <2>4 DEF IsPayment
      <3> QED BY <3>1, PaymentEffect
    <2>6. totalSupply' = totalSupply - none
      BY <1>1, <2>1, <2>2
    <2>7. TokenInv'
      BY <2>1, <2>4, <2>5, <2>6, PaymentKeepsToken
    <2>8. \A b \in Escrows : b \in Accounts \ {h}
      BY <1>1, OLASAssumption
    <2> QED BY <2>1, <2>5, <2>7, <2>8
  <1>6. ASSUME NEW h \in Holders, NEW amount \in Amounts, Burn(h, amount)
        PROVE  /\ TokenInv' /\ UNCHANGED now
               /\ \A b \in Escrows : balanceOf'[b] >= balanceOf[b]
    <2>1. h \in Accounts \ Escrows /\ amount \in Nat
      BY <1>1, OLASAssumption
    <2> QED BY <1>4, <1>6, <2>1 DEF Burn
  <1>7. CASE BurnerBurn
    <2>1. BurnerAddress \in Accounts \ Escrows /\ balanceOf[BurnerAddress] \in Nat
      BY <1>1, OLASAssumption
    <2> QED BY <1>4, <1>7, <2>1 DEF BurnerBurn
  <1>8. CASE Tick
    <2>1. now < MaxTime /\ now' = now + 1 /\ UNCHANGED <<owner, minter, totalSupply, balanceOf>>
      BY <1>8 DEF Tick
    <2>2. SupplyCap(now) <= SupplyCap(now + 1) /\ SupplyCap(now) \in Nat
      BY <1>1, SupplyCapGrows
    <2>3. now + 1 \in Nat /\ timeLaunch <= now + 1
      BY <1>1, OLASAssumption DEF timeLaunch
    <2>4. SupplyCap(now + 1) \in Nat
      BY <2>3, SupplyCapGrows
    <2>5. totalSupply <= SupplyCap(now + 1)
      BY <1>1, <2>2, <2>4
    <2>6. SupplyCap(now)' = SupplyCap(now + 1)
      BY <2>1 DEF SupplyCap, CompoundedYears, NumYears, timeLaunch
    <2>7. now' \in StartTime .. MaxTime
      BY <1>1, <2>1, OLASAssumption DEF TokenInv, OlasTypeOK
    <2> QED BY <1>1, <2>1, <2>5, <2>6, <2>7 DEF TokenInv, OlasTypeOK, BalanceSum, Accounts
  <1> QED BY <1>1, <1>2, <1>3, <1>5, <1>6, <1>7, <1>8 DEF OlasNext, ManagerStep, HolderStep

(***************************************************************************)
(* What a lock releases                                                    *)
(***************************************************************************)

\* A lock of k steps, of an amount that fits with them, of which `out' was transferred.
IsGrant(lock, amount, k, out) ==
  /\ k \in 1 .. MAX_NUM_STEPS /\ amount \in Nat /\ amount > 0 /\ out \in Nat
  /\ amount * MAX_NUM_STEPS < UINT96
  /\ lock.totalAmount = amount /\ lock.transferredAmount = out
  /\ lock.startTime \in Nat /\ lock.endTime = lock.startTime + STEP_TIME * k

MaturedOf(lock, amount, t) == Matured(amount, lock.startTime, lock.endTime, t)

LEMMA StepsOfLock ==
  ASSUME NEW s \in Nat, NEW k \in Nat \ {0}, NEW e, e = s + STEP_TIME * k, NEW t \in Nat, s <= t
  PROVE  /\ e \in Nat /\ s < e
         /\ (e - s) \div STEP_TIME = k
         /\ (t - s) \div STEP_TIME \in Nat
         /\ t >= e <=> (t - s) \div STEP_TIME >= k
  <1> DEFINE y == STEP_TIME
             x == t - s
             r == x \div y
  <1>1. y \in Nat \ {0} /\ x \in Nat /\ t = s + x
    BY OLASAssumption DEF STEP_TIME
  <1> HIDE DEF x, y
  <1>2. y * k \in Nat /\ y * k > 0
    <2>1. y * 0 + y <= y * k
      BY <1>1, ProductsOrdered
    <2> QED BY <2>1, <1>1
  <1>3. e \in Nat /\ s < e /\ e - s = y * k /\ e = s + y * k
    BY <1>2 DEF y
  <1>4. (e - s) \div y = k
    BY <1>1, <1>3, QuotientOfProduct
  <1>5. r \in Nat /\ r * y <= x /\ x < r * y + y
    BY <1>1, Quotient
  <1> HIDE DEF r
  <1>6. y * r = r * y /\ y * r \in Nat
    BY <1>1, <1>5
  <1>7. r >= k => y * k <= y * r
    BY <1>1, <1>5, ProductsOrdered
  <1>8. r < k => y * r + y <= y * k
    BY <1>1, <1>5, ProductsOrdered
  <1>9. t >= e <=> r >= k
    BY <1>1, <1>2, <1>3, <1>5, <1>6, <1>7, <1>8
  <1> QED BY <1>3, <1>4, <1>5, <1>9 DEF r, x, y

LEMMA MaturedBounds ==
  ASSUME NEW lock, NEW amount, NEW k, NEW out, IsGrant(lock, amount, k, out),
         NEW t \in Nat, lock.startTime <= t
  PROVE  /\ lock.endTime \in Nat /\ lock.startTime < lock.endTime
         /\ MaturedOf(lock, amount, t) \in 0 .. amount
         /\ t >= lock.endTime => MaturedOf(lock, amount, t) = amount
         /\ t < lock.endTime => MaturedOf(lock, amount, t) < amount
         /\ MaturedOf(lock, amount, t) <= MaturedOf(lock, amount, t + 1)
  <1> DEFINE s == lock.startTime
             e == lock.endTime
             r == (t - s) \div STEP_TIME
             q == ((t + 1) - s) \div STEP_TIME
  <1>1. /\ k \in Nat \ {0} /\ amount \in Nat /\ amount > 0 /\ s \in Nat
        /\ e = s + STEP_TIME * k /\ s <= t /\ t + 1 \in Nat /\ s <= t + 1
    BY BuOLASAssumption DEF IsGrant
  <1> DEFINE m == (amount * r) \div k
             n == (amount * q) \div k
  <1>2. /\ (e - s) \div STEP_TIME = k /\ e \in Nat /\ s < e
        /\ r \in Nat /\ (t >= e <=> r >= k)
    BY <1>1, StepsOfLock
  <1>3. q \in Nat /\ (t + 1 >= e <=> q >= k)
    BY <1>1, StepsOfLock
  <1>4. r <= q
    <2>1. t - s \in Nat /\ (t + 1) - s \in Nat /\ t - s <= (t + 1) - s /\ STEP_TIME \in Nat \ {0}
      BY <1>1, OLASAssumption DEF STEP_TIME
    <2> QED BY <2>1, QuotientsOrdered
  <1>5. /\ MaturedOf(lock, amount, t) = IF t >= e THEN amount ELSE m
        /\ MaturedOf(lock, amount, t + 1) = IF t + 1 >= e THEN amount ELSE n
    BY <1>2 DEF MaturedOf, Matured
  <1> HIDE DEF s, e, r, q
  <1>6. amount * r \in Nat /\ amount * q \in Nat /\ amount * r <= amount * q
    BY <1>1, <1>2, <1>3, <1>4, ProductsOrdered
  <1>7. m \in Nat /\ n \in Nat /\ m <= n /\ m * k <= amount * r /\ n * k <= amount * q
    <2> DEFINE a == amount * r
               b == amount * q
    <2>1. a \in Nat /\ b \in Nat /\ a <= b
      BY <1>6
    <2> HIDE DEF a, b
    <2>2. /\ a \div k \in Nat /\ b \div k \in Nat /\ a \div k <= b \div k
          /\ (a \div k) * k <= a /\ (b \div k) * k <= b
      BY <1>1, <2>1, Quotient, QuotientsOrdered
    <2> QED BY <2>2 DEF a, b
  <1> HIDE DEF m, n
  <1>8. r < k => m < amount
    <2>1. r < k => amount * r + amount <= amount * k
      BY <1>1, <1>2, ProductsOrdered
    <2>2. amount <= m => k * amount <= k * m
      BY <1>1, <1>7, ProductsOrdered
    <2>3. /\ k * amount = amount * k /\ k * m = m * k /\ k * amount \in Nat /\ k * m \in Nat
      BY <1>1, <1>7
    <2> QED BY <1>1, <1>2, <1>6, <1>7, <2>1, <2>2, <2>3
  <1>9. t >= e => t + 1 >= e
    BY <1>1, <1>2
  <1> QED BY <1>1, <1>2, <1>3, <1>5, <1>7, <1>8, <1>9 DEF s, e

LEMMA WrapKeeps ==
  ASSUME NEW x \in Nat, x < UINT96
  PROVE  Wrap(x) = x
  BY BuOLASAssumption DEF Wrap

\* What can be withdrawn is what has matured less what was transferred: nothing wraps.
LEMMA ReleasableIsMatured ==
  ASSUME NEW lock, NEW amount, NEW k, NEW out, IsGrant(lock, amount, k, out),
         now \in Nat, lock.startTime <= now, out <= MaturedOf(lock, amount, now)
  PROVE  ReleasableAmount(lock) = MaturedOf(lock, amount, now) - out
  <1> DEFINE s == lock.startTime
             e == lock.endTime
             r == (now - s) \div STEP_TIME
  <1>1. /\ k \in Nat \ {0} /\ k <= MAX_NUM_STEPS /\ MAX_NUM_STEPS \in Nat
        /\ amount \in Nat /\ amount > 0 /\ s \in Nat
        /\ e = s + STEP_TIME * k /\ s <= now /\ amount * MAX_NUM_STEPS < UINT96 /\ out \in Nat
        /\ lock.totalAmount = amount /\ lock.transferredAmount = out /\ UINT96 \in Nat
    BY BuOLASAssumption DEF IsGrant
  <1>2. /\ (e - s) \div STEP_TIME = k /\ e \in Nat /\ s < e
        /\ r \in Nat /\ (now >= e <=> r >= k)
    <2>1. PICK t \in Nat : t = now
      OBVIOUS
    <2> HIDE DEF s, e
    <2>2. /\ (e - s) \div STEP_TIME = k /\ e \in Nat /\ s < e
          /\ (t - s) \div STEP_TIME \in Nat
          /\ t >= e <=> (t - s) \div STEP_TIME >= k
      <3>1. s \in Nat /\ k \in Nat \ {0} /\ e = s + STEP_TIME * k /\ s <= t
        BY <1>1, <2>1
      <3> HIDE <2>1
      <3> QED BY <3>1, StepsOfLock
    <2> QED BY <2>1, <2>2 DEF s, e
  <1>3. MaturedOf(lock, amount, now) \in 0 .. amount
    BY MaturedBounds
  <1>4. e # 0
    BY <1>1, <1>2
  <1>5. ReleasableAmount(lock) = IF r + 1 > k THEN Wrap(amount - out)
                                 ELSE Wrap(amount * r) \div k - out
    BY <1>1, <1>2, <1>4 DEF ReleasableAmount
  <1>6. MaturedOf(lock, amount, now) = IF now >= e THEN amount ELSE (amount * r) \div k
    BY <1>2 DEF MaturedOf, Matured
  <1> HIDE DEF s, e, r
  <1>7. amount <= amount * MAX_NUM_STEPS /\ amount * MAX_NUM_STEPS \in Nat
    <2>1. 0 < MAX_NUM_STEPS
      BY <1>1
    <2>2. amount * 0 + amount <= amount * MAX_NUM_STEPS /\ amount * MAX_NUM_STEPS \in Nat
      BY <1>1, <2>1, ProductsOrdered
    <2> QED BY <1>1, <2>2
  <1>8. CASE r >= k
    <2>1. amount - out \in Nat /\ amount - out < UINT96
      BY <1>1, <1>3, <1>7
    <2>2. Wrap(amount - out) = amount - out
      BY <2>1, WrapKeeps
    <2> QED BY <1>2, <1>5, <1>6, <1>8, <2>2, <1>1
  <1>9. CASE r < k
    <2>1. amount * r <= amount * MAX_NUM_STEPS /\ amount * r \in Nat
      <3>1. r <= MAX_NUM_STEPS
        BY <1>1, <1>2, <1>9
      <3> QED BY <1>1, <1>2, <3>1, ProductsOrdered
    <2>2. Wrap(amount * r) = amount * r
      <3> DEFINE x == amount * r
      <3>1. x \in Nat /\ x < UINT96
        BY <1>1, <1>7, <2>1
      <3> HIDE DEF x
      <3>2. Wrap(x) = x
        BY <3>1, WrapKeeps
      <3> QED BY <3>2 DEF x
    <2>3. ~(now >= e) /\ ~(r + 1 > k)
      BY <1>1, <1>2, <1>9
    <2> QED BY <1>5, <1>6, <2>2, <2>3
  <1> QED BY <1>1, <1>2, <1>8, <1>9

(***************************************************************************)
(* Payments into and out of the contract                                   *)
(***************************************************************************)

LEMMA LockPayment ==
  ASSUME TokenInv, NEW h \in Holders, NEW amount \in Nat, Move(h, BuAddress, amount),
         UNCHANGED <<now, owner, minter>>
  PROVE  /\ TokenInv'
         /\ balanceOf'[BuAddress] = balanceOf[BuAddress] + amount
         /\ balanceOf[BuAddress] \in Nat
         /\ amount <= totalSupply
  <1>1. /\ h \in Accounts /\ BuAddress \in Accounts /\ h # BuAddress
        /\ balanceOf \in [Accounts -> Nat] /\ totalSupply \in Nat
        /\ balanceOf[h] \in Nat /\ balanceOf[h] <= totalSupply /\ balanceOf[BuAddress] \in Nat
    BY TokenTyped, OLASAssumption, BuOLASAssumption DEF Accounts
  <1>2. /\ UNCHANGED totalSupply /\ balanceOf[h] >= amount
        /\ balanceOf' = [[balanceOf EXCEPT ![h] = balanceOf[h] - amount]
                           EXCEPT ![BuAddress] = @ + amount]
    BY DEF Move
  <1> DEFINE mid == [balanceOf EXCEPT ![h] = balanceOf[h] - amount]
  <1>3. PICK none \in Nat : none = 0
    OBVIOUS
  <1>4. /\ mid \in [Accounts -> Nat] /\ balanceOf[h] = mid[h] + none + amount
        /\ \A c \in Accounts \ {h} : mid[c] = balanceOf[c]
        /\ balanceOf' = [mid EXCEPT ![BuAddress] = mid[BuAddress] + amount]
    BY <1>1, <1>2, <1>3
  <1> HIDE DEF mid
  <1>5. /\ balanceOf' \in [Accounts -> Nat]
        /\ balanceOf'[BuAddress] = mid[BuAddress] + amount
        /\ \A c \in Accounts \ {BuAddress} : balanceOf'[c] = mid[c]
    BY <1>1, <1>4
  <1>6. IsPayment(balanceOf, mid, balanceOf', h, BuAddress, none, amount)
    BY <1>1, <1>4, <1>5 DEF IsPayment
  <1>7. /\ BalanceSum(balanceOf') \in Nat /\ BalanceSum(balanceOf') = BalanceSum(balanceOf) - none
    BY <1>6, PaymentEffect
  <1>8. totalSupply' = totalSupply - none
    BY <1>1, <1>2, <1>3
  <1>9. TokenInv'
    BY <1>5, <1>7, <1>8, PaymentKeepsToken
  <1> QED BY <1>1, <1>2, <1>4, <1>5, <1>9

LEMMA WithdrawalPayment ==
  ASSUME TokenInv, NEW u \in Holders, NEW amount \in Nat, NEW burnt \in Nat,
         BurnAndPay(u, amount, burnt), UNCHANGED <<now, owner, minter>>
  PROVE  /\ TokenInv'
         /\ balanceOf'[BuAddress] = balanceOf[BuAddress] - burnt - amount
         /\ balanceOf[BuAddress] \in Nat
  <1>1. /\ u \in Accounts /\ BuAddress \in Accounts /\ u # BuAddress
        /\ balanceOf \in [Accounts -> Nat] /\ balanceOf[BuAddress] \in Nat
    BY TokenTyped, OLASAssumption, BuOLASAssumption DEF Accounts
  <1>2. /\ totalSupply' = totalSupply - burnt /\ balanceOf[BuAddress] >= burnt + amount
        /\ balanceOf' = [[balanceOf EXCEPT ![BuAddress] = balanceOf[BuAddress] - burnt - amount]
                           EXCEPT ![u] = @ + amount]
    BY DEF BurnAndPay
  <1> DEFINE mid == [balanceOf EXCEPT ![BuAddress] = balanceOf[BuAddress] - burnt - amount]
  <1>3. balanceOf[BuAddress] - burnt - amount \in Nat
    BY <1>1, <1>2
  <1>4. /\ mid \in [Accounts -> Nat]
        /\ mid[BuAddress] = balanceOf[BuAddress] - burnt - amount
        /\ \A c \in Accounts \ {BuAddress} : mid[c] = balanceOf[c]
        /\ balanceOf' = [mid EXCEPT ![u] = mid[u] + amount]
    BY <1>1, <1>2, <1>3
  <1> HIDE DEF mid
  <1>5. balanceOf[BuAddress] = mid[BuAddress] + burnt + amount
    BY <1>1, <1>4
  <1>6. /\ balanceOf' \in [Accounts -> Nat] /\ balanceOf'[u] = mid[u] + amount
        /\ \A c \in Accounts \ {u} : balanceOf'[c] = mid[c]
    BY <1>1, <1>4
  <1>7. IsPayment(balanceOf, mid, balanceOf', BuAddress, u, burnt, amount)
    BY <1>1, <1>4, <1>5, <1>6 DEF IsPayment
  <1>8. /\ BalanceSum(balanceOf') \in Nat /\ BalanceSum(balanceOf') = BalanceSum(balanceOf) - burnt
    BY <1>7, PaymentEffect
  <1>9. TokenInv'
    BY <1>2, <1>6, <1>8, PaymentKeepsToken
  <1> QED BY <1>1, <1>4, <1>6, <1>9

(***************************************************************************)
(* Types: they and the token are in order whatever the owner revokes       *)
(***************************************************************************)

IsWhole(lock) ==
  lock.endTime > 0 =>
    \E k \in 1 .. MAX_NUM_STEPS : lock.endTime = lock.startTime + STEP_TIME * k

BuTyped ==
  /\ TokenInv
  /\ buOwner \in BuManagers
  /\ mapLockedBalances \in [Holders -> LockedBalance]
  /\ granted \in [Holders -> Nat] /\ paid \in [Holders -> Nat]
  /\ \A u \in Holders : IsWhole(mapLockedBalances[u])

LEMMA WrapTyped ==
  ASSUME NEW x \in Int
  PROVE  Wrap(x) \in Nat
  BY BuOLASAssumption DEF Wrap

LEMMA ReleasableTyped ==
  ASSUME NEW lock \in LockedBalance, IsWhole(lock), now \in Nat
  PROVE  ReleasableAmount(lock) \in Int
  <1> DEFINE y == STEP_TIME
             n == (lock.endTime - lock.startTime) \div y
             r == (now - lock.startTime) \div y
             x == lock.totalAmount * r
             d == lock.totalAmount - lock.transferredAmount
  <1>1. /\ lock.totalAmount \in Nat /\ lock.transferredAmount \in Nat
        /\ lock.startTime \in Nat /\ lock.endTime \in Nat /\ y \in Nat \ {0}
    BY OLASAssumption DEF LockedBalance, STEP_TIME
  <1>2. CASE lock.endTime = 0
    BY <1>1, <1>2 DEF ReleasableAmount
  <1>3. CASE lock.endTime # 0
    <2>1. PICK k \in 1 .. MAX_NUM_STEPS : lock.endTime = lock.startTime + y * k
      BY <1>1, <1>3 DEF IsWhole
    <2>2. k \in Nat \ {0}
      BY BuOLASAssumption
    <2>3. lock.endTime - lock.startTime = y * k
      <3> HIDE DEF y
      <3>1. y * k \in Nat
        BY <1>1, <2>2
      <3> QED BY <3>1, <2>1, <1>1
    <2>4. n = k
      <3> HIDE DEF y
      <3>1. (y * k) \div y = k
        BY <1>1, <2>2, QuotientOfProduct
      <3> QED BY <2>3, <3>1
    <2>5. r \in Int
      <3> HIDE DEF y
      <3> DEFINE z == now - lock.startTime
      <3>1. z \in Int
        BY <1>1
      <3> HIDE DEF z
      <3>2. z \div y \in Int
        BY <1>1, <3>1
      <3> QED BY <3>2 DEF z
    <2>6. ReleasableAmount(lock) = IF r + 1 > n THEN Wrap(d)
                                   ELSE Wrap(x) \div n - lock.transferredAmount
      BY <1>3 DEF ReleasableAmount
    <2> HIDE DEF n, r
    <2>7. d \in Int /\ x \in Int
      BY <1>1, <2>5
    <2> HIDE DEF d, x
    <2>8. Wrap(d) \in Nat /\ Wrap(x) \in Nat
      BY <2>7, WrapTyped
    <2>9. Wrap(x) \div k \in Nat
      BY <2>2, <2>8, Quotient
    <2> QED BY <1>1, <2>4, <2>6, <2>8, <2>9
  <1> QED BY <1>2, <1>3

LEMMA TypedInit ==
  ASSUME Init
  PROVE  BuTyped
  <1>1. OlasTypeOK
    BY OLASAssumption DEF Init, OlasInit, OlasTypeOK
  <1>2. totalSupply = 0 /\ \A a \in Accounts : balanceOf[a] = 0
    BY DEF Init, OlasInit
  <1>3. BalanceSum(balanceOf) = 0
    BY <1>2, AccountsFinite, SumZero DEF BalanceSum
  <1>4. SupplyCap(now) \in Nat
    BY OLASAssumption, SupplyCapGrows DEF Init, OlasInit, timeLaunch
  <1>5. TokenInv
    BY <1>1, <1>2, <1>3, <1>4 DEF TokenInv
  <1>6. /\ mapLockedBalances \in [Holders -> LockedBalance]
        /\ \A u \in Holders : mapLockedBalances[u] = NoLock
    BY DEF Init, BuInit, NoLock, LockedBalance
  <1> QED BY <1>5, <1>6 DEF BuTyped, Init, BuInit, IsWhole, NoLock

\* One lock changes, with what was granted and paid to its account.
LockChange(u) ==
  /\ UNCHANGED <<now, buOwner>>
  /\ mapLockedBalances' \in [Holders -> LockedBalance]
  /\ granted' \in [Holders -> Nat] /\ paid' \in [Holders -> Nat]
  /\ \A w \in Holders \ {u} : /\ mapLockedBalances'[w] = mapLockedBalances[w]
                              /\ granted'[w] = granted[w] /\ paid'[w] = paid[w]

LEMMA LockChangeTyped ==
  ASSUME BuTyped, TokenInv', NEW u \in Holders, LockChange(u), IsWhole(mapLockedBalances'[u])
  PROVE  BuTyped'
  <1>1. \A w \in Holders : IsWhole(mapLockedBalances'[w])
    <2> SUFFICES ASSUME NEW w \in Holders, w # u PROVE IsWhole(mapLockedBalances'[w])
      OBVIOUS
    <2> QED BY DEF BuTyped, LockChange
  <1>2. \A w \in Holders : IsWhole(mapLockedBalances[w])'
    BY <1>1 DEF IsWhole, STEP_TIME
  <1> QED BY <1>2 DEF BuTyped, LockChange

LEMMA CreateTyped ==
  ASSUME BuTyped, NEW h \in Holders, NEW u \in Holders, NEW amount \in Amounts,
         NEW k \in 0 .. MAX_NUM_STEPS + 1, CreateLockFor(h, u, amount, k)
  PROVE  /\ BuTyped' /\ LockChange(u)
         /\ amount \in Nat /\ amount > 0 /\ k \in 1 .. MAX_NUM_STEPS
         /\ mapLockedBalances[u].totalAmount = 0 /\ amount <= totalSupply
         /\ mapLockedBalances'[u] = [mapLockedBalances[u] EXCEPT
              !.startTime = now, !.endTime = now + STEP_TIME * k, !.totalAmount = amount]
         /\ granted'[u] = amount /\ paid'[u] = 0 /\ supply' = supply + amount
         /\ balanceOf'[BuAddress] = balanceOf[BuAddress] + amount
         /\ balanceOf[BuAddress] \in Nat
  <1>1. /\ amount \in Nat /\ amount > 0 /\ k \in 1 .. MAX_NUM_STEPS /\ now \in Nat
        /\ mapLockedBalances[u].totalAmount = 0
        /\ granted' = [granted EXCEPT ![u] = amount] /\ paid' = [paid EXCEPT ![u] = 0]
        /\ UNCHANGED <<now, owner, minter, buOwner>> /\ Move(h, BuAddress, amount)
        /\ supply' = supply + amount
    BY OLASAssumption, BuOLASAssumption, TokenTyped DEF CreateLockFor, BuTyped
  <1>2. mapLockedBalances' = [mapLockedBalances EXCEPT
           ![u] = [mapLockedBalances[u] EXCEPT
             !.startTime = now, !.endTime = now + STEP_TIME * k, !.totalAmount = amount]]
    BY DEF CreateLockFor, BuTyped, LockedBalance
  <1> DEFINE lock == [mapLockedBalances[u] EXCEPT
               !.startTime = now, !.endTime = now + STEP_TIME * k, !.totalAmount = amount]
  <1>3. now + STEP_TIME * k \in Nat
    BY <1>1, OLASAssumption, BuOLASAssumption DEF STEP_TIME
  <1>4. lock \in LockedBalance /\ IsWhole(lock)
    BY <1>1, <1>3 DEF BuTyped, LockedBalance, IsWhole
  <1> HIDE DEF lock
  <1>5. mapLockedBalances' = [mapLockedBalances EXCEPT ![u] = lock]
    BY <1>2 DEF lock
  <1>6. LockChange(u) /\ mapLockedBalances'[u] = lock /\ granted'[u] = amount /\ paid'[u] = 0
    BY <1>1, <1>4, <1>5 DEF BuTyped, LockChange
  <1>7. /\ TokenInv' /\ balanceOf'[BuAddress] = balanceOf[BuAddress] + amount
        /\ balanceOf[BuAddress] \in Nat /\ amount <= totalSupply
    BY <1>1, LockPayment DEF BuTyped
  <1>8. BuTyped'
    BY <1>4, <1>6, <1>7, LockChangeTyped
  <1> QED BY <1>1, <1>6, <1>7, <1>8 DEF lock

\* The lock that a withdrawal leaves.
AfterWithdrawal(u) ==
  LET lock == mapLockedBalances[u]
      transferred == Wrap(lock.transferredAmount + ReleasableAmount(lock))
  IN  IF Vesting(u) /\ ~FullyPaid(lock, transferred)
      THEN [lock EXCEPT !.transferredAmount = transferred] ELSE NoLock

BurntBy(u) == IF Revoked(u) THEN mapLockedBalances[u].totalAmount ELSE 0

LEMMA WithdrawTyped ==
  ASSUME BuTyped, NEW u \in Holders, Withdraw(u)
  PROVE  /\ BuTyped' /\ LockChange(u)
         /\ ReleasableAmount(mapLockedBalances[u]) \in Nat
         /\ ReleasableAmount(mapLockedBalances[u]) > 0
         /\ BurntBy(u) \in Nat /\ mapLockedBalances[u].startTime > 0
         /\ mapLockedBalances'[u] = AfterWithdrawal(u)
         /\ granted'[u] = granted[u]
         /\ paid'[u] = paid[u] + ReleasableAmount(mapLockedBalances[u])
         /\ supply' = supply - BurntBy(u) - ReleasableAmount(mapLockedBalances[u])
         /\ balanceOf'[BuAddress] = balanceOf[BuAddress] - BurntBy(u)
                                      - ReleasableAmount(mapLockedBalances[u])
         /\ balanceOf[BuAddress] \in Nat
  <1> DEFINE lock == mapLockedBalances[u]
             amount == ReleasableAmount(lock)
             burnt == BurntBy(u)
  <1>1. lock \in LockedBalance /\ IsWhole(lock) /\ now \in Nat
    BY TokenTyped DEF BuTyped
  <1>2. lock.totalAmount \in Nat /\ lock.transferredAmount \in Nat /\ burnt \in Nat
    BY <1>1 DEF BurntBy, LockedBalance
  <1>3. /\ lock.startTime > 0 /\ amount > 0
        /\ mapLockedBalances' = [mapLockedBalances EXCEPT ![u] = AfterWithdrawal(u)]
        /\ supply' = supply - burnt - amount
        /\ BurnAndPay(u, amount, burnt)
        /\ paid' = [paid EXCEPT ![u] = paid[u] + amount]
        /\ UNCHANGED <<now, owner, minter, buOwner, granted>>
    BY DEF Withdraw, AfterWithdrawal, BurntBy, SupplyAfter
  <1>4. amount \in Int
    BY <1>1, ReleasableTyped
  <1>5. amount \in Nat
    BY <1>3, <1>4
  <1>6. /\ AfterWithdrawal(u) \in LockedBalance /\ IsWhole(AfterWithdrawal(u))
    <2>1. Wrap(lock.transferredAmount + amount) \in Nat
      BY <1>2, <1>5, WrapTyped
    <2>2. NoLock \in LockedBalance /\ IsWhole(NoLock)
      BY DEF NoLock, LockedBalance, IsWhole
    <2> DEFINE left == [lock EXCEPT !.transferredAmount = Wrap(lock.transferredAmount + amount)]
    <2>3. left \in LockedBalance /\ left.endTime = lock.endTime /\ left.startTime = lock.startTime
      BY <1>1, <2>1 DEF LockedBalance
    <2>4. IsWhole(left)
      BY <1>1, <2>3 DEF IsWhole
    <2>5. AfterWithdrawal(u) \in {left, NoLock}
      BY DEF AfterWithdrawal
    <2> QED BY <2>2, <2>3, <2>4, <2>5
  <1> HIDE DEF amount, burnt
  <1>7. LockChange(u) /\ mapLockedBalances'[u] = AfterWithdrawal(u)
        /\ granted'[u] = granted[u] /\ paid'[u] = paid[u] + amount
    BY <1>3, <1>5, <1>6 DEF BuTyped, LockChange
  <1>8. /\ TokenInv' /\ balanceOf'[BuAddress] = balanceOf[BuAddress] - burnt - amount
        /\ balanceOf[BuAddress] \in Nat
    BY <1>2, <1>3, <1>5, WithdrawalPayment DEF BuTyped
  <1>9. BuTyped'
    BY <1>6, <1>7, <1>8, LockChangeTyped
  <1> QED BY <1>2, <1>3, <1>5, <1>7, <1>8, <1>9 DEF amount, burnt

AfterRevocation(u) ==
  [mapLockedBalances[u] EXCEPT
     !.totalAmount = AmountToBurn(mapLockedBalances[u]),
     !.transferredAmount = Wrap(ReleasableAmount(mapLockedBalances[u])),
     !.endTime = 0]

LEMMA RevokeTyped ==
  ASSUME BuTyped, NEW s, NEW u \in Holders, Revoke(s, u)
  PROVE  /\ BuTyped' /\ LockChange(u) /\ OwnerMayRevoke(u)
         /\ mapLockedBalances'[u] = AfterRevocation(u)
         /\ UNCHANGED <<olasVars, granted, paid, supply>>
  <1> DEFINE lock == mapLockedBalances[u]
  <1>1. lock \in LockedBalance /\ IsWhole(lock) /\ now \in Nat
    BY TokenTyped DEF BuTyped
  <1>2. /\ mapLockedBalances' = [mapLockedBalances EXCEPT ![u] = AfterRevocation(u)]
        /\ UNCHANGED <<olasVars, buOwner, supply, granted, paid>> /\ OwnerMayRevoke(u)
    BY DEF Revoke, AfterRevocation
  <1>3. ReleasableAmount(lock) \in Int
    BY <1>1, ReleasableTyped
  <1>4. AfterRevocation(u) \in LockedBalance /\ AfterRevocation(u).endTime = 0
    <2>1. /\ lock.totalAmount \in Nat /\ lock.transferredAmount \in Nat
      BY <1>1 DEF LockedBalance
    <2>2. ReleasableAmount(lock) + lock.transferredAmount \in Int
      BY <1>3, <2>1
    <2>3. Wrap(ReleasableAmount(lock) + lock.transferredAmount) \in Nat
          /\ Wrap(ReleasableAmount(lock)) \in Nat
      BY <1>3, <2>2, WrapTyped
    <2>4. lock.totalAmount - Wrap(ReleasableAmount(lock) + lock.transferredAmount) \in Int
      BY <2>1, <2>3
    <2>5. AmountToBurn(lock) \in Nat
      BY <2>4, WrapTyped DEF AmountToBurn
    <2> QED BY <1>1, <2>3, <2>5 DEF AfterRevocation, LockedBalance
  <1>5. LockChange(u) /\ mapLockedBalances'[u] = AfterRevocation(u)
    BY <1>2, <1>4 DEF BuTyped, LockChange, olasVars
  <1>6. IsWhole(AfterRevocation(u))
    BY <1>4 DEF IsWhole
  <1>7. TokenInv'
    BY <1>2 DEF BuTyped, TokenInv, OlasTypeOK, BalanceSum, Accounts, olasVars, SupplyCap,
                CompoundedYears, NumYears, timeLaunch
  <1>8. BuTyped'
    BY <1>5, <1>6, <1>7, LockChangeTyped
  <1> QED BY <1>2, <1>5, <1>8

LEMMA OlasStepTyped ==
  ASSUME BuTyped, OlasStep
  PROVE  /\ BuTyped' /\ balanceOf'[BuAddress] >= balanceOf[BuAddress]
         /\ UNCHANGED now \/ now' = now + 1
  <1>1. /\ OlasNext /\ UNCHANGED <<buOwner, supply, mapLockedBalances, granted, paid>>
    BY DEF OlasStep, buVars
  <1>2. /\ TokenInv' /\ balanceOf'[BuAddress] >= balanceOf[BuAddress]
        /\ UNCHANGED now \/ now' = now + 1
    BY <1>1, OlasKeepsToken, BuOLASAssumption DEF BuTyped
  <1> QED BY <1>1, <1>2 DEF BuTyped, IsWhole, STEP_TIME

LEMMA TypedStep ==
  ASSUME BuTyped, [Next]_vars
  PROVE  BuTyped'
  <1>1. CASE OlasStep
    BY <1>1, OlasStepTyped
  <1>2. ASSUME NEW s \in BuManagers, NEW m \in BuManagers \cup {ZeroAddress}, ChangeBuOwner(s, m)
        PROVE  BuTyped'
    BY <1>2 DEF ChangeBuOwner, BuTyped, TokenInv, OlasTypeOK, BalanceSum, Accounts, olasVars,
                SupplyCap, CompoundedYears, NumYears, timeLaunch, IsWhole, STEP_TIME
  <1>3. ASSUME NEW s, NEW u \in Holders, Revoke(s, u) PROVE BuTyped'
    BY <1>3, RevokeTyped
  <1>4. ASSUME NEW h \in Holders, NEW u \in Holders, NEW amount \in Amounts,
               NEW k \in 0 .. MAX_NUM_STEPS + 1, CreateLockFor(h, u, amount, k)
        PROVE  BuTyped'
    BY <1>4, CreateTyped
  <1>5. ASSUME NEW u \in Holders, Withdraw(u) PROVE BuTyped'
    BY <1>5, WithdrawTyped
  <1>6. CASE UNCHANGED vars
    BY <1>6 DEF vars, buVars, olasVars, BuTyped, TokenInv, OlasTypeOK, BalanceSum, Accounts,
                SupplyCap, CompoundedYears, NumYears, timeLaunch, IsWhole, STEP_TIME
  <1> QED BY <1>1, <1>2, <1>3, <1>4, <1>5, <1>6 DEF Next, BuOwnerStep, BuHolderStep

LEMMA AlwaysTyped == Spec => []BuTyped
  BY TypedInit, TypedStep, PTL DEF Spec

\* OLAS: the supply never exceeds the inflation schedule, whatever is minted, burned,
\* locked and revoked, for any caps, years and inflation.
THEOREM SupplyStaysWithinSchedule == Spec => []SupplyWithinSchedule
  <1>1. BuTyped => SupplyWithinSchedule
    <2> SUFFICES ASSUME BuTyped PROVE SupplyWithinSchedule
      OBVIOUS
    <2>1. now \in Nat /\ timeLaunch <= now /\ totalSupply <= SupplyCap(now)
      BY TokenTyped DEF BuTyped, TokenInv
    <2>2. now < timeLaunch + (LastCapYear + 1) * oneYear => SupplyCap(now) = tenYearSupplyCap
      BY <2>1, SupplyCapGrows
    <2> QED BY <2>1, <2>2 DEF SupplyWithinSchedule
  <1> QED BY <1>1, AlwaysTyped, PTL

(***************************************************************************)
(* Locks: what is owed is held, unless the owner revokes the revoked       *)
(***************************************************************************)

IsVesting(lock, grant, out, t) ==
  /\ \E k : IsGrant(lock, grant, k, out)
  /\ lock.startTime \in 1 .. t
  /\ out < grant /\ out <= MaturedOf(lock, grant, t)

IsRevoked(lock, grant, out) ==
  /\ lock.endTime = 0 /\ lock.startTime > 0 /\ lock.totalAmount > 0
  /\ out + lock.totalAmount + lock.transferredAmount = grant

LockInv(lock, grant, out, t) ==
  lock = NoLock \/ IsVesting(lock, grant, out, t) \/ IsRevoked(lock, grant, out)

LockOwed(lock) == IF lock.endTime > 0 THEN lock.totalAmount - lock.transferredAmount
                  ELSE lock.totalAmount + lock.transferredAmount
OwedSum(locks) == SumFunctionOnSet([u \in Holders |-> LockOwed(locks[u])], Holders)

BuInv ==
  /\ BuTyped
  /\ \A u \in Holders : LockInv(mapLockedBalances[u], granted[u], paid[u], now)
  /\ supply = OwedSum(mapLockedBalances)
  /\ balanceOf[BuAddress] >= supply

LEMMA HoldersFinite == IsFiniteSet(Holders)
  <1>1. Holders \subseteq Holders \cup Escrows
    OBVIOUS
  <1> QED BY <1>1, OLASAssumption, FS_Subset

LEMMA OwedTyped ==
  ASSUME NEW lock \in LockedBalance
  PROVE  LockOwed(lock) \in Int
  <1>1. lock.totalAmount \in Nat /\ lock.transferredAmount \in Nat
    BY DEF LockedBalance
  <1> QED BY <1>1 DEF LockOwed

\* While nothing is negative, the sum is not either.
LEMMA SupplyTyped ==
  ASSUME BuInv
  PROVE  supply \in Nat
  <1> SUFFICES ASSUME NEW u \in Holders PROVE LockOwed(mapLockedBalances[u]) \in Nat
    BY HoldersFinite, SumNat DEF BuInv, OwedSum
  <1> DEFINE lock == mapLockedBalances[u]
  <1>1. /\ lock \in LockedBalance /\ lock.totalAmount \in Nat /\ lock.transferredAmount \in Nat
        /\ LockInv(lock, granted[u], paid[u], now)
    BY DEF BuInv, BuTyped, LockedBalance
  <1>2. lock.endTime > 0 => lock.transferredAmount < lock.totalAmount
    BY <1>1 DEF LockInv, IsVesting, IsGrant, IsRevoked, NoLock
  <1> QED BY <1>1, <1>2 DEF LockOwed

LEMMA OwedChange ==
  ASSUME BuTyped, NEW u \in Holders, LockChange(u)
  PROVE  OwedSum(mapLockedBalances') =
           OwedSum(mapLockedBalances) - LockOwed(mapLockedBalances[u])
             + LockOwed(mapLockedBalances'[u])
  <1> DEFINE f == [w \in Holders |-> LockOwed(mapLockedBalances[w])]
             g == [w \in Holders |-> LockOwed(mapLockedBalances'[w])]
  <1>1. \A w \in Holders : f[w] \in Int /\ g[w] \in Int
    BY OwedTyped DEF BuTyped, LockChange
  <1>2. \A w \in Holders \ {u} : g[w] = f[w]
    BY DEF LockChange
  <1>3. f[u] = LockOwed(mapLockedBalances[u]) /\ g[u] = LockOwed(mapLockedBalances'[u])
    OBVIOUS
  <1>4. OwedSum(mapLockedBalances) = SumFunctionOnSet(f, Holders)
        /\ OwedSum(mapLockedBalances') = SumFunctionOnSet(g, Holders)
    BY DEF OwedSum
  <1> HIDE DEF f, g
  <1>5. SumFunctionOnSet(g, Holders) = SumFunctionOnSet(f, Holders) - f[u] + g[u]
    BY <1>1, <1>2, HoldersFinite, SumUpdate
  <1> QED BY <1>3, <1>4, <1>5

LEMMA LockInvLater ==
  ASSUME NEW lock, NEW grant, NEW out, NEW t \in Nat, LockInv(lock, grant, out, t)
  PROVE  LockInv(lock, grant, out, t + 1)
  <1> SUFFICES ASSUME IsVesting(lock, grant, out, t) PROVE IsVesting(lock, grant, out, t + 1)
    BY DEF LockInv
  <1>1. PICK k : IsGrant(lock, grant, k, out)
    BY DEF IsVesting
  <1>2. lock.startTime \in 1 .. t /\ lock.startTime <= t /\ out \in Nat /\ grant \in Nat
        /\ out < grant /\ out <= MaturedOf(lock, grant, t)
    BY <1>1 DEF IsVesting, IsGrant
  <1>3. t + 1 \in Nat /\ lock.startTime <= t + 1 /\ lock.startTime \in 1 .. t + 1
    BY <1>2
  <1>4. /\ MaturedOf(lock, grant, t) \in 0 .. grant
        /\ MaturedOf(lock, grant, t) <= MaturedOf(lock, grant, t + 1)
    BY <1>1, <1>2, MaturedBounds
  <1>5. MaturedOf(lock, grant, t + 1) \in 0 .. grant
    BY <1>1, <1>3, MaturedBounds
  <1> QED BY <1>1, <1>2, <1>3, <1>4, <1>5 DEF IsVesting

\* What is to be shown of a step that changes one lock.
LEMMA LockChangeKeeps ==
  ASSUME BuInv, BuTyped', NEW u \in Holders, LockChange(u),
         LockInv(mapLockedBalances'[u], granted'[u], paid'[u], now),
         supply' = supply - LockOwed(mapLockedBalances[u]) + LockOwed(mapLockedBalances'[u]),
         balanceOf'[BuAddress] >= supply'
  PROVE  BuInv'
  <1>1. supply' = OwedSum(mapLockedBalances')
    BY OwedChange DEF BuInv
  <1>2. now' = now /\ \A w \in Holders : LockInv(mapLockedBalances'[w], granted'[w], paid'[w], now')
    BY DEF BuInv, LockChange
  <1>3. \A w \in Holders : LockInv(mapLockedBalances[w], granted[w], paid[w], now)'
    BY <1>2 DEF LockInv, IsVesting, IsRevoked, IsGrant, MaturedOf, Matured, STEP_TIME, NoLock
  <1>4. (supply = OwedSum(mapLockedBalances))'
    BY <1>1 DEF OwedSum, LockOwed
  <1> QED BY <1>3, <1>4 DEF BuInv

LEMMA CreateKeeps ==
  ASSUME BuInv, NEW h \in Holders, NEW u \in Holders, NEW amount \in Amounts,
         NEW k \in 0 .. MAX_NUM_STEPS + 1, CreateLockFor(h, u, amount, k)
  PROVE  BuInv' /\ mapLockedBalances[u] = NoLock
  <1> DEFINE new == [mapLockedBalances[u] EXCEPT
               !.startTime = now, !.endTime = now + STEP_TIME * k, !.totalAmount = amount]
  <1>1. /\ BuTyped' /\ LockChange(u)
        /\ amount \in Nat /\ amount > 0 /\ k \in 1 .. MAX_NUM_STEPS
        /\ mapLockedBalances[u].totalAmount = 0 /\ amount <= totalSupply
        /\ mapLockedBalances'[u] = new
        /\ granted'[u] = amount /\ paid'[u] = 0 /\ supply' = supply + amount
        /\ balanceOf'[BuAddress] = balanceOf[BuAddress] + amount
        /\ balanceOf[BuAddress] \in Nat
    BY CreateTyped DEF BuInv
  <1>2. mapLockedBalances[u] = NoLock
    BY <1>1 DEF BuInv, LockInv, IsVesting, IsGrant, IsRevoked
  <1>3. /\ new.totalAmount = amount /\ new.transferredAmount = 0
        /\ new.startTime = now /\ new.endTime = now + STEP_TIME * k
    BY <1>2 DEF NoLock
  <1>4. /\ now \in StartTime .. MaxTime /\ now \in Nat /\ now > 0 /\ timeLaunch <= now
        /\ totalSupply \in Nat /\ SupplyCap(now) \in Nat /\ totalSupply <= SupplyCap(now)
    BY TokenTyped, OLASAssumption DEF BuInv, BuTyped, TokenInv, OlasTypeOK
  <1> HIDE DEF new
  <1>5. amount * MAX_NUM_STEPS < UINT96
    <2> DEFINE c == SupplyCap(now)
    <2>1. c * MAX_NUM_STEPS < UINT96
      BY <1>4, SupplyFitsAssumption
    <2>2. c \in Nat /\ amount <= c /\ MAX_NUM_STEPS \in Nat /\ UINT96 \in Nat
      BY <1>1, <1>4, BuOLASAssumption
    <2> HIDE DEF c
    <2>3. MAX_NUM_STEPS * amount <= MAX_NUM_STEPS * c
          /\ MAX_NUM_STEPS * amount \in Nat /\ MAX_NUM_STEPS * c \in Nat
      BY <1>1, <2>2, ProductsOrdered
    <2>4. MAX_NUM_STEPS * amount = amount * MAX_NUM_STEPS /\ MAX_NUM_STEPS * c = c * MAX_NUM_STEPS
      BY <1>1, <2>2
    <2> QED BY <2>1, <2>2, <2>3, <2>4
  <1>6. IsGrant(new, amount, k, 0)
    BY <1>1, <1>3, <1>4, <1>5 DEF IsGrant
  <1>7. MaturedOf(new, amount, now) \in 0 .. amount /\ new.endTime \in Nat /\ now < new.endTime
    BY <1>3, <1>4, <1>6, MaturedBounds
  <1>8. IsVesting(new, amount, 0, now)
    <2>1. new.startTime \in 1 .. now /\ 0 < amount /\ 0 <= MaturedOf(new, amount, now)
      BY <1>1, <1>3, <1>4, <1>7
    <2> QED BY <1>6, <2>1 DEF IsVesting
  <1>9. LockOwed(new) = amount
    <2>1. new.endTime > 0
      BY <1>4, <1>7
    <2> QED BY <1>1, <1>3, <2>1 DEF LockOwed
  <1>10. LockOwed(mapLockedBalances[u]) = 0
    BY <1>2 DEF LockOwed, NoLock
  <1>11. supply \in Nat
    BY SupplyTyped
  <1>12. supply' = supply - LockOwed(mapLockedBalances[u]) + LockOwed(mapLockedBalances'[u])
    BY <1>1, <1>9, <1>10, <1>11
  <1>13. balanceOf'[BuAddress] >= supply'
    BY <1>1, <1>11 DEF BuInv
  <1>14. LockInv(mapLockedBalances'[u], granted'[u], paid'[u], now)
    BY <1>1, <1>8 DEF LockInv
  <1> QED BY <1>1, <1>2, <1>12, <1>13, <1>14, LockChangeKeeps

\* A lock that vests: what it releases and what is left of it.
LEMMA VestingReleases ==
  ASSUME BuInv, NEW u \in Holders, Vesting(u)
  PROVE  /\ IsVesting(mapLockedBalances[u], granted[u], paid[u], now)
         /\ mapLockedBalances[u].totalAmount = granted[u]
         /\ mapLockedBalances[u].transferredAmount = paid[u]
         /\ granted[u] \in Nat /\ paid[u] \in Nat /\ paid[u] < granted[u]
         /\ MaturedOf(mapLockedBalances[u], granted[u], now) \in 0 .. granted[u]
         /\ ReleasableAmount(mapLockedBalances[u]) =
              MaturedOf(mapLockedBalances[u], granted[u], now) - paid[u]
         /\ ReleasableAmount(mapLockedBalances[u]) \in Nat
         /\ granted[u] < UINT96 /\ UINT96 \in Nat
         /\ mapLockedBalances[u].startTime > 0 /\ now \in Nat
         /\ mapLockedBalances[u].endTime \in Nat
         /\ now < mapLockedBalances[u].endTime
              => MaturedOf(mapLockedBalances[u], granted[u], now) < granted[u]
  <1> DEFINE lock == mapLockedBalances[u]
             grant == granted[u]
             out == paid[u]
  <1>1. IsVesting(lock, grant, out, now)
    BY DEF BuInv, LockInv, IsRevoked, Vesting, NoLock
  <1>2. PICK k : IsGrant(lock, grant, k, out)
    BY <1>1 DEF IsVesting
  <1>3. /\ grant \in Nat /\ out \in Nat /\ out < grant /\ out <= MaturedOf(lock, grant, now)
        /\ lock.totalAmount = grant /\ lock.transferredAmount = out
        /\ lock.startTime \in 1 .. now /\ now \in Nat /\ lock.startTime <= now
        /\ lock.startTime > 0 /\ k \in 1 .. MAX_NUM_STEPS
        /\ grant * MAX_NUM_STEPS < UINT96
    BY <1>1, <1>2, TokenTyped DEF IsVesting, IsGrant, BuInv, BuTyped
  <1> HIDE DEF lock, grant, out
  <1>4. /\ MaturedOf(lock, grant, now) \in 0 .. grant
        /\ lock.endTime \in Nat
        /\ now < lock.endTime => MaturedOf(lock, grant, now) < grant
    BY <1>2, <1>3, MaturedBounds
  <1>5. ReleasableAmount(lock) = MaturedOf(lock, grant, now) - out
    BY <1>2, <1>3, ReleasableIsMatured
  <1>6. ReleasableAmount(lock) \in Nat
    BY <1>3, <1>4, <1>5
  <1>7. grant < UINT96 /\ UINT96 \in Nat
    <2>1. 0 < MAX_NUM_STEPS /\ MAX_NUM_STEPS \in Nat /\ UINT96 \in Nat
      BY <1>3, BuOLASAssumption
    <2>2. grant * 0 + grant <= grant * MAX_NUM_STEPS /\ grant * MAX_NUM_STEPS \in Nat
      BY <1>3, <2>1, ProductsOrdered
    <2> QED BY <1>3, <2>1, <2>2
  <1> QED BY <1>1, <1>3, <1>4, <1>5, <1>6, <1>7 DEF lock, grant, out

LEMMA WithdrawKeeps ==
  ASSUME BuInv, NEW u \in Holders, Withdraw(u)
  PROVE  /\ BuInv' /\ LockChange(u)
         /\ Vesting(u) /\ mapLockedBalances'[u] = NoLock => paid'[u] = granted[u]
  <1> DEFINE lock == mapLockedBalances[u]
             new == mapLockedBalances'[u]
             amount == ReleasableAmount(lock)
             burnt == BurntBy(u)
             m == MaturedOf(lock, granted[u], now)
  <1>1. /\ BuTyped' /\ LockChange(u) /\ amount \in Nat /\ amount > 0 /\ burnt \in Nat
        /\ lock.startTime > 0 /\ new = AfterWithdrawal(u) /\ granted'[u] = granted[u]
        /\ paid'[u] = paid[u] + amount /\ supply' = supply - burnt - amount
        /\ balanceOf'[BuAddress] = balanceOf[BuAddress] - burnt - amount
        /\ balanceOf[BuAddress] \in Nat
    BY WithdrawTyped DEF BuInv
  <1>2. supply \in Nat /\ balanceOf[BuAddress] >= supply
    BY SupplyTyped DEF BuInv
  <1>3. balanceOf'[BuAddress] >= supply'
    BY <1>1, <1>2
  <1>4. CASE Vesting(u)
    <2>1. /\ IsVesting(lock, granted[u], paid[u], now)
          /\ lock.totalAmount = granted[u] /\ lock.transferredAmount = paid[u]
          /\ granted[u] \in Nat /\ paid[u] \in Nat /\ paid[u] < granted[u]
          /\ m \in 0 .. granted[u] /\ amount = m - paid[u]
          /\ granted[u] < UINT96 /\ UINT96 \in Nat
      BY <1>4, VestingReleases
    <2>2. /\ burnt = 0 /\ lock.endTime > 0 /\ lock \in LockedBalance /\ lock.endTime \in Nat
      BY <1>4 DEF BurntBy, Revoked, Vesting, BuInv, BuTyped, LockedBalance
    <2> DEFINE transferred == Wrap(lock.transferredAmount + amount)
    <2>3. transferred = m
      <3>1. paid[u] + amount = m /\ m \in Nat /\ m < UINT96
        BY <1>1, <2>1
      <3>2. Wrap(m) = m
        <4> HIDE DEF m
        <4> QED BY <3>1, WrapKeeps
      <3> QED BY <2>1, <3>1, <3>2
    <2>4. new = IF ~FullyPaid(lock, transferred)
                THEN [lock EXCEPT !.transferredAmount = transferred] ELSE NoLock
      BY <1>1, <1>4 DEF AfterWithdrawal
    <2> HIDE DEF transferred
    <2>5. FullyPaid(lock, transferred) <=> m + 1 > granted[u]
      BY <2>1, <2>3 DEF FullyPaid
    <2>6. paid'[u] = m
      BY <1>1, <2>1
    <2>7. LockOwed(lock) = granted[u] - paid[u]
      BY <2>1, <2>2 DEF LockOwed
    <2>8. CASE m + 1 > granted[u]
      <3>1. new = NoLock /\ m = granted[u]
        BY <2>1, <2>4, <2>5, <2>8
      <3>2. LockOwed(new) = 0
        BY <3>1 DEF LockOwed, NoLock
      <3>3. supply' = supply - LockOwed(lock) + LockOwed(new)
        <4> HIDE DEF lock, new, amount, burnt, m
        <4> QED BY <1>1, <1>2, <2>1, <2>2, <2>7, <3>1, <3>2
      <3>4. LockInv(new, granted'[u], paid'[u], now)
        BY <3>1 DEF LockInv
      <3>5. BuInv'
        BY <1>1, <1>3, <3>3, <3>4, LockChangeKeeps
      <3> QED BY <1>1, <2>6, <3>1, <3>5
    <2>9. CASE ~(m + 1 > granted[u])
      <3>1. new = [lock EXCEPT !.transferredAmount = m] /\ m < granted[u]
        BY <2>1, <2>3, <2>4, <2>5, <2>9
      <3>2. /\ new.totalAmount = granted[u] /\ new.transferredAmount = m
            /\ new.startTime = lock.startTime /\ new.endTime = lock.endTime
        BY <2>1, <2>2, <3>1 DEF LockedBalance
      <3>3. LockOwed(new) = granted[u] - m
        BY <2>2, <3>2 DEF LockOwed
      <3>4. supply' = supply - LockOwed(lock) + LockOwed(new)
        <4> HIDE DEF lock, new, amount, burnt, m
        <4> QED BY <1>1, <1>2, <2>1, <2>2, <2>7, <3>3
      <3>5. new # NoLock
        BY <2>1, <3>2 DEF NoLock
      <3>6. IsVesting(new, granted[u], m, now)
        <4>1. PICK k : IsGrant(lock, granted[u], k, paid[u])
          BY <2>1 DEF IsVesting
        <4>2. IsGrant(new, granted[u], k, m)
          BY <2>1, <3>2, <4>1 DEF IsGrant
        <4>3. MaturedOf(new, granted[u], now) = m
          BY <3>2 DEF MaturedOf
        <4>4. new.startTime \in 1 .. now
          BY <2>1, <3>2 DEF IsVesting
        <4>5. m <= m
          BY <2>1
        <4> QED BY <3>1, <4>2, <4>3, <4>4, <4>5 DEF IsVesting
      <3>7. LockInv(new, granted'[u], paid'[u], now)
        BY <1>1, <2>6, <3>6 DEF LockInv
      <3>8. BuInv'
        BY <1>1, <1>3, <3>4, <3>7, LockChangeKeeps
      <3> QED BY <1>1, <3>5, <3>8
    <2> QED BY <2>8, <2>9
  <1>5. CASE ~Vesting(u)
    <2>1. /\ lock \in LockedBalance /\ lock.endTime \in Nat /\ lock.totalAmount \in Nat
          /\ lock.transferredAmount \in Nat
      BY DEF BuInv, BuTyped, LockedBalance
    <2>2. lock.endTime = 0 /\ Revoked(u)
      BY <1>1, <1>5, <2>1 DEF Vesting, Revoked
    <2>3. /\ burnt = lock.totalAmount /\ amount = lock.transferredAmount /\ new = NoLock
      BY <1>1, <1>5, <2>2 DEF BurntBy, ReleasableAmount, AfterWithdrawal
    <2>4. LockOwed(lock) = burnt + amount /\ LockOwed(new) = 0
      BY <2>1, <2>2, <2>3 DEF LockOwed, NoLock
    <2>5. supply' = supply - LockOwed(lock) + LockOwed(new)
      <3> HIDE DEF lock, new, amount, burnt
      <3> QED BY <1>1, <1>2, <2>4
    <2>6. LockInv(new, granted'[u], paid'[u], now)
      BY <2>3 DEF LockInv
    <2>7. BuInv'
      BY <1>1, <1>3, <2>5, <2>6, LockChangeKeeps
    <2> QED BY <1>1, <1>5, <2>7
  <1> QED BY <1>4, <1>5

LEMMA RevokeKeeps ==
  ASSUME BuInv, RevokeAgain = FALSE, NEW s, NEW u \in Holders, Revoke(s, u)
  PROVE  BuInv' /\ LockChange(u) /\ mapLockedBalances'[u] # NoLock
  <1> DEFINE lock == mapLockedBalances[u]
             new == mapLockedBalances'[u]
             m == MaturedOf(lock, granted[u], now)
  <1>1. /\ BuTyped' /\ LockChange(u) /\ OwnerMayRevoke(u) /\ new = AfterRevocation(u)
        /\ UNCHANGED <<olasVars, granted, paid, supply>>
    BY RevokeTyped DEF BuInv
  <1>2. Vesting(u) /\ now < lock.endTime
    BY <1>1 DEF OwnerMayRevoke
  <1>3. /\ lock.totalAmount = granted[u] /\ lock.transferredAmount = paid[u]
        /\ granted[u] \in Nat /\ paid[u] \in Nat /\ paid[u] < granted[u]
        /\ m \in 0 .. granted[u] /\ ReleasableAmount(lock) = m - paid[u]
        /\ ReleasableAmount(lock) \in Nat
        /\ granted[u] < UINT96 /\ UINT96 \in Nat /\ lock.startTime > 0 /\ m < granted[u]
    BY <1>2, VestingReleases
  <1>4. /\ Wrap(ReleasableAmount(lock)) = m - paid[u] /\ AmountToBurn(lock) = granted[u] - m
    <2> DEFINE x == m - paid[u]
               y == granted[u] - m
    <2>1. x \in Nat /\ x < UINT96 /\ y \in Nat /\ y < UINT96 /\ m \in Nat /\ m < UINT96
          /\ x + paid[u] = m
      BY <1>3
    <2> HIDE DEF x, y
    <2>2. Wrap(x) = x /\ Wrap(y) = y
      BY <2>1, WrapKeeps
    <2>3. Wrap(m) = m
      <3> HIDE DEF m
      <3> QED BY <2>1, WrapKeeps
    <2>4. ReleasableAmount(lock) + lock.transferredAmount = m
      BY <1>3, <2>1 DEF x
    <2>5. AmountToBurn(lock) = Wrap(y)
      BY <1>3, <2>3, <2>4 DEF AmountToBurn, y
    <2> QED BY <1>3, <2>2, <2>5 DEF x, y
  <1>5. /\ new.totalAmount = granted[u] - m /\ new.transferredAmount = m - paid[u]
        /\ new.endTime = 0 /\ new.startTime = lock.startTime
    <2>1. lock \in LockedBalance
      BY DEF BuInv, BuTyped
    <2>2. new = [lock EXCEPT !.totalAmount = granted[u] - m,
                             !.transferredAmount = m - paid[u], !.endTime = 0]
      BY <1>1, <1>4 DEF AfterRevocation
    <2> HIDE DEF m, new, lock
    <2> QED BY <2>1, <2>2 DEF LockedBalance
  <1>6. IsRevoked(new, granted[u], paid[u])
    BY <1>3, <1>5 DEF IsRevoked
  <1>7. LockOwed(lock) = granted[u] - paid[u] /\ LockOwed(new) = granted[u] - paid[u]
    <2>1. lock.endTime > 0
      BY <1>2 DEF Vesting
    <2>2. LockOwed(lock) = granted[u] - paid[u]
      BY <1>3, <2>1 DEF LockOwed
    <2>3. LockOwed(new) = (granted[u] - m) + (m - paid[u])
      BY <1>5 DEF LockOwed
    <2> QED BY <1>3, <2>2, <2>3
  <1>8. supply \in Nat
    BY SupplyTyped
  <1>9. supply' = supply - LockOwed(lock) + LockOwed(new)
    <2> HIDE DEF lock, new
    <2> QED BY <1>1, <1>3, <1>7, <1>8
  <1>10. balanceOf'[BuAddress] >= supply'
    BY <1>1 DEF BuInv, olasVars
  <1>11. LockInv(new, granted'[u], paid'[u], now)
    BY <1>1, <1>6 DEF LockInv
  <1>12. new # NoLock
    BY <1>3, <1>5 DEF NoLock
  <1> QED BY <1>1, <1>9, <1>10, <1>11, <1>12, LockChangeKeeps

LEMMA OlasStepKeeps ==
  ASSUME BuInv, OlasStep
  PROVE  BuInv'
  <1>1. /\ BuTyped' /\ balanceOf'[BuAddress] >= balanceOf[BuAddress]
        /\ UNCHANGED now \/ now' = now + 1
        /\ UNCHANGED <<buOwner, supply, mapLockedBalances, granted, paid>>
    BY OlasStepTyped DEF BuInv, OlasStep, buVars
  <1>2. now \in Nat /\ balanceOf[BuAddress] \in Nat /\ supply \in Nat
    BY SupplyTyped, TokenTyped, BuOLASAssumption DEF BuInv, BuTyped, Accounts
  <1>3. balanceOf'[BuAddress] \in Nat
    <2>1. TokenInv'
      BY <1>1 DEF BuTyped
    <2> QED BY <2>1, BuOLASAssumption DEF TokenInv, OlasTypeOK, Accounts
  <1>4. \A u \in Holders : LockInv(mapLockedBalances[u], granted[u], paid[u], now')
    BY <1>1, <1>2, LockInvLater DEF BuInv
  <1>5. \A u \in Holders : LockInv(mapLockedBalances[u], granted[u], paid[u], now)'
    BY <1>1, <1>4 DEF LockInv, IsVesting, IsRevoked, IsGrant, MaturedOf, Matured, STEP_TIME, NoLock
  <1>6. (supply = OwedSum(mapLockedBalances))'
    BY <1>1 DEF BuInv, OwedSum, LockOwed
  <1>7. (balanceOf[BuAddress] >= supply)'
    BY <1>1, <1>2, <1>3 DEF BuInv
  <1> QED BY <1>1, <1>5, <1>6, <1>7 DEF BuInv

LEMMA BuInvInit ==
  ASSUME Init
  PROVE  BuInv
  <1>1. BuTyped
    BY TypedInit
  <1>2. \A u \in Holders : mapLockedBalances[u] = NoLock
    BY DEF Init, BuInit
  <1>3. \A u \in Holders : LockOwed(mapLockedBalances[u]) = 0
    BY <1>2 DEF LockOwed, NoLock
  <1>4. OwedSum(mapLockedBalances) = 0
    BY <1>3, HoldersFinite, SumZero DEF OwedSum
  <1>5. supply = 0 /\ balanceOf[BuAddress] = 0
    BY BuOLASAssumption DEF Init, BuInit, OlasInit, Accounts
  <1> QED BY <1>1, <1>2, <1>4, <1>5 DEF BuInv, LockInv

LEMMA BuInvStep ==
  ASSUME BuInv, RevokeAgain = FALSE, [Next]_vars
  PROVE  BuInv'
  <1>1. CASE OlasStep
    BY <1>1, OlasStepKeeps
  <1>2. ASSUME UNCHANGED <<olasVars, supply, mapLockedBalances, granted, paid>>, BuTyped'
        PROVE  BuInv'
    BY <1>2 DEF BuInv, olasVars, LockInv, IsVesting, IsRevoked, IsGrant, MaturedOf, Matured,
                STEP_TIME, NoLock, OwedSum, LockOwed
  <1>3. ASSUME NEW s \in BuManagers, NEW m \in BuManagers \cup {ZeroAddress}, ChangeBuOwner(s, m)
        PROVE  BuInv'
    <2>1. BuTyped'
      <3>1. [Next]_vars
        OBVIOUS
      <3> QED BY <3>1, TypedStep DEF BuInv
    <2> QED BY <1>2, <1>3, <2>1 DEF ChangeBuOwner
  <1>4. ASSUME NEW s, NEW u \in Holders, Revoke(s, u) PROVE BuInv'
    BY <1>4, RevokeKeeps
  <1>5. ASSUME NEW h \in Holders, NEW u \in Holders, NEW amount \in Amounts,
               NEW k \in 0 .. MAX_NUM_STEPS + 1, CreateLockFor(h, u, amount, k)
        PROVE  BuInv'
    BY <1>5, CreateKeeps
  <1>6. ASSUME NEW u \in Holders, Withdraw(u) PROVE BuInv'
    BY <1>6, WithdrawKeeps
  <1>7. CASE UNCHANGED vars
    <2>1. BuTyped'
      BY TypedStep DEF BuInv
    <2> QED BY <1>2, <1>7, <2>1 DEF vars, buVars
  <1> QED BY <1>1, <1>3, <1>4, <1>5, <1>6, <1>7 DEF Next, BuOwnerStep, BuHolderStep

LEMMA AlwaysInOrder ==
  ASSUME RevokeAgain = FALSE
  PROVE  Spec => []BuInv
  BY BuInvInit, BuInvStep, PTL DEF Spec

(***************************************************************************)
(* Theorems                                                                *)
(***************************************************************************)

\* buOLAS: supplies, balances and locks are amounts and times, and the supply of locks
\* never underflows, unless the owner revokes a revoked account.
THEOREM BuOLASTypeCorrect ==
  ASSUME RevokeAgain = FALSE
  PROVE  Spec => []TypeOK
  <1>1. BuInv => TypeOK
    BY SupplyTyped DEF BuInv, BuTyped, TokenInv, TypeOK
  <1> QED BY <1>1, AlwaysInOrder, PTL

\* buOLAS: what is owed to all accounts is the supply of locks, and the OLAS that the
\* contract holds covers it, through partial withdrawals, revocations and burns.
THEOREM LocksStayBacked ==
  ASSUME RevokeAgain = FALSE
  PROVE  Spec => []LocksAreBacked
  <1>1. BuInv => LocksAreBacked
    BY DEF BuInv, LocksAreBacked, OwedSum, LockOwed, Owed, Vesting
  <1> QED BY <1>1, AlwaysInOrder, PTL

\* buOLAS: no token of a grant is lost or paid twice, and no more is paid than has matured.
THEOREM GrantsStayHonoured ==
  ASSUME RevokeAgain = FALSE
  PROVE  Spec => []GrantsAreHonoured
  <1>1. ASSUME BuInv PROVE GrantsAreHonoured
    <2> SUFFICES ASSUME NEW u \in Holders
        PROVE LET lock == mapLockedBalances[u]
              IN  /\ Vesting(u) \/ Revoked(u) => paid[u] + Owed(u) = granted[u]
                  /\ Vesting(u) => paid[u] <= Matured(granted[u], lock.startTime, lock.endTime, now)
      BY DEF GrantsAreHonoured
    <2> DEFINE lock == mapLockedBalances[u]
    <2>1. /\ lock.totalAmount \in Nat /\ lock.transferredAmount \in Nat /\ paid[u] \in Nat
          /\ granted[u] \in Nat /\ LockInv(lock, granted[u], paid[u], now)
      BY <1>1 DEF BuInv, BuTyped, LockedBalance
    <2>2. CASE Vesting(u)
      <3>1. /\ IsVesting(lock, granted[u], paid[u], now)
            /\ lock.totalAmount = granted[u] /\ lock.transferredAmount = paid[u]
        BY <1>1, <2>2, VestingReleases
      <3>2. Owed(u) = granted[u] - paid[u]
        BY <2>2, <3>1 DEF Owed
      <3>3. paid[u] + Owed(u) = granted[u]
        BY <2>1, <3>2
      <3> QED BY <3>1, <3>3 DEF IsVesting, MaturedOf
    <2>3. CASE Revoked(u) /\ ~Vesting(u)
      <3>1. IsRevoked(lock, granted[u], paid[u])
        <4>1. lock.startTime > 0 /\ lock.endTime = 0
          BY <2>3 DEF Revoked
        <4>2. lock # NoLock
          BY <4>1 DEF NoLock
        <4>3. ASSUME IsVesting(lock, granted[u], paid[u], now) PROVE FALSE
          <5>1. PICK k : IsGrant(lock, granted[u], k, paid[u])
            BY <4>3 DEF IsVesting
          <5>2. now \in Nat /\ lock.startTime <= now
            BY <1>1, <4>3, TokenTyped DEF IsVesting, BuInv, BuTyped
          <5>3. lock.startTime < lock.endTime
            BY <5>1, <5>2, MaturedBounds
          <5>4. lock.startTime \in Nat
            BY <5>1 DEF IsGrant
          <5> QED BY <4>1, <5>3, <5>4
        <4> QED BY <2>1, <4>2, <4>3 DEF LockInv
      <3>2. Owed(u) = lock.totalAmount + lock.transferredAmount
        BY <2>3 DEF Owed
      <3>3. paid[u] + lock.totalAmount + lock.transferredAmount = granted[u]
        BY <3>1 DEF IsRevoked
      <3>4. paid[u] + Owed(u) = granted[u]
        BY <2>1, <3>2, <3>3
      <3> QED BY <2>3, <3>4
    <2> QED BY <2>2, <2>3
  <1>2. BuInv => GrantsAreHonoured
    BY <1>1
  <1> QED BY <1>2, AlwaysInOrder, PTL

\* buOLAS: a lock that vests to its end has paid its whole grant, whenever its account
\* withdrew before and however the yearly steps are rounded.
THEOREM LastWithdrawalPaysTheGrant ==
  ASSUME RevokeAgain = FALSE
  PROVE  Spec => LastWithdrawalPaysAll
  <1> DEFINE Ends(u) == Vesting(u) /\ mapLockedBalances'[u] = NoLock => paid'[u] = granted[u]
  <1>1. ASSUME BuInv, [Next]_vars, NEW u \in Holders PROVE Ends(u)
    <2>1. ASSUME NEW w \in Holders, LockChange(w), w # u PROVE ~Vesting(u) \/ mapLockedBalances'[u] # NoLock
      BY <2>1 DEF LockChange, Vesting, NoLock
    <2>2. CASE UNCHANGED mapLockedBalances
      BY <2>2 DEF Vesting, NoLock
    <2>3. ASSUME NEW s, NEW w \in Holders, Revoke(s, w) PROVE Ends(u)
      BY <1>1, <2>1, <2>3, RevokeKeeps
    <2>4. ASSUME NEW w \in Holders, Withdraw(w) PROVE Ends(u)
      BY <1>1, <2>1, <2>4, WithdrawKeeps
    <2>5. ASSUME NEW h \in Holders, NEW w \in Holders, NEW amount \in Amounts,
                 NEW k \in 0 .. MAX_NUM_STEPS + 1, CreateLockFor(h, w, amount, k)
          PROVE  Ends(u)
      <3>1. LockChange(w) /\ mapLockedBalances[w] = NoLock
        BY <1>1, <2>5, CreateTyped, CreateKeeps DEF BuInv
      <3>2. ~Vesting(w)
        BY <3>1 DEF Vesting, NoLock
      <3> QED BY <2>1, <3>1, <3>2
    <2> QED BY <1>1, <2>2, <2>3, <2>4, <2>5
            DEF Next, BuOwnerStep, BuHolderStep, OlasStep, buVars, vars, ChangeBuOwner
  <1>2. BuInv /\ [Next]_vars => [\A u \in Holders : Ends(u)]_vars
    BY <1>1
  <1> HIDE DEF Ends
  <1>3. Spec => [][\A u \in Holders : Ends(u)]_vars
    BY <1>2, AlwaysInOrder, PTL DEF Spec
  <1> QED BY <1>3 DEF LastWithdrawalPaysAll, Ends
=============================================================================
