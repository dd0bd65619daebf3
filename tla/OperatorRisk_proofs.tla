------------------------- MODULE OperatorRisk_proofs -------------------------
(***************************************************************************)
(* Proofs about OperatorRisk, for every set of accounts and markets and    *)
(* every value of the parameters.  The list of an account's markets and    *)
(* the membership flags change only in two ways, entering a market and     *)
(* leaving it; that debts stay counted rests on borrowing entering the     *)
(* market and on leaving being refused to whoever owes there.              *)
(*                                                                         *)
(* What a call does to a shortfall is about sums along the list of an      *)
(* account's markets.  As the list has no repetition they are sums over    *)
(* the set of its markets (ListSum), which a call changes in one or two    *)
(* terms; the rest is the rounding of each term.                           *)
(***************************************************************************)
EXTENDS OperatorRisk, FiniteSums, SequenceTheorems, TLAPS

(***************************************************************************)
(* Lists without repetition                                                *)
(***************************************************************************)
Distinct(s) == \A i, k \in DOMAIN s : s[i] = s[k] => i = k

LEMMA AppendDistinct ==
  ASSUME NEW S, NEW s \in Seq(S), NEW e \in S, Distinct(s), e \notin ToSet(s)
  PROVE  /\ Append(s, e) \in Seq(S)
         /\ ToSet(Append(s, e)) = ToSet(s) \cup {e}
         /\ Distinct(Append(s, e))
<1>1. /\ Append(s, e) \in Seq(S)
      /\ DOMAIN s = 1 .. Len(s) /\ DOMAIN Append(s, e) = 1 .. Len(s) + 1
      /\ \A i \in 1 .. Len(s) : Append(s, e)[i] = s[i]
      /\ Append(s, e)[Len(s) + 1] = e
      /\ Len(s) \in Nat
  OBVIOUS
<1>2. ToSet(Append(s, e)) = ToSet(s) \cup {e}
  BY <1>1 DEF ToSet
<1>3. Distinct(Append(s, e))
  <2> SUFFICES ASSUME NEW i \in 1 .. Len(s) + 1, NEW k \in 1 .. Len(s) + 1,
                      Append(s, e)[i] = Append(s, e)[k]
               PROVE  i = k
    BY <1>1 DEF Distinct
  <2>1. CASE i \in 1 .. Len(s) /\ k \in 1 .. Len(s)
    BY <2>1, <1>1 DEF Distinct
  <2>2. CASE i = Len(s) + 1 \/ k = Len(s) + 1
    BY <2>2, <1>1 DEF ToSet
  <2> QED BY <2>1, <2>2, <1>1
<1> QED BY <1>1, <1>2, <1>3

LEMMA SwapAndPopDistinct ==
  ASSUME NEW S, NEW s \in Seq(S), NEW i \in DOMAIN s, Distinct(s)
  PROVE  /\ SwapAndPop(s, i) \in Seq(S)
         /\ ToSet(SwapAndPop(s, i)) = ToSet(s) \ {s[i]}
         /\ Distinct(SwapAndPop(s, i))
<1> DEFINE n == Len(s)
           t == [s EXCEPT ![i] = s[n]]
           r == SwapAndPop(s, i)
<1>1. n \in Nat /\ DOMAIN s = 1 .. n /\ i \in 1 .. n /\ n \in 1 .. n
  OBVIOUS
<1>2. t \in Seq(S) /\ Len(t) = n
  BY <1>1
<1>3. /\ r \in Seq(S) /\ Len(r) = n - 1 /\ DOMAIN r = 1 .. n - 1
      /\ \A k \in 1 .. n - 1 : r[k] = t[k]
  BY <1>1, <1>2, SubSeqProperties DEF SwapAndPop
<1>4. \A k \in 1 .. n - 1 : r[k] = IF k = i THEN s[n] ELSE s[k]
  BY <1>1, <1>3
<1>5. ToSet(r) = ToSet(s) \ {s[i]}
  <2>1. ASSUME NEW k \in 1 .. n - 1 PROVE r[k] \in ToSet(s) \ {s[i]}
    BY <1>1, <1>4 DEF ToSet, Distinct
  <2>2. ASSUME NEW k \in 1 .. n, s[k] # s[i] PROVE s[k] \in ToSet(r)
    <3>1. CASE k = n
      <4>1. i \in 1 .. n - 1 /\ r[i] = s[k]
        BY <3>1, <2>2, <1>1, <1>4
      <4> QED BY <4>1, <1>3 DEF ToSet
    <3>2. CASE k # n
      <4>1. k \in 1 .. n - 1
        <5>1. k \in 1 .. n /\ k # n /\ n \in Nat
          BY <3>2, <1>1
        <5> HIDE DEF n
        <5> QED BY <5>1
      <4>2. k # i
        BY <2>2
      <4>3. r[k] = s[k]
        BY <4>1, <4>2, <1>4
      <4> QED BY <4>1, <4>3, <1>3 DEF ToSet
    <3> QED BY <3>1, <3>2
  <2>3. \A x : x \in ToSet(r) => x \in ToSet(s) \ {s[i]}
    BY <2>1, <1>3 DEF ToSet
  <2>4. \A x : x \in ToSet(s) \ {s[i]} => x \in ToSet(r)
    BY <2>2, <1>1 DEF ToSet
  <2> QED BY <2>3, <2>4
<1>6. Distinct(r)
  <2> SUFFICES ASSUME NEW j \in 1 .. n - 1, NEW k \in 1 .. n - 1, r[j] = r[k]
               PROVE  j = k
    BY <1>3 DEF Distinct
  <2> QED BY <1>1, <1>4 DEF Distinct
<1> QED BY <1>3, <1>5, <1>6

(***************************************************************************)
(* The invariant                                                           *)
(***************************************************************************)
IInv == TypeOK /\ AssetsMatchMembership /\ DebtsAreCounted

\* AssetsMatchMembership for one account, in the words of the lemmas.
ListOf(a) ==
    ToSet(accountAssets[a]) = {m \in Markets : In(m, a)} /\ Distinct(accountAssets[a])

LEMMA ListsMatch == AssetsMatchMembership <=> \A a \in Accounts : ListOf(a)
BY DEF AssetsMatchMembership, ListOf, Distinct

LEMMA ActivateKeeps ==
  ASSUME TypeOK, AssetsMatchMembership,
         NEW m \in Markets, NEW a \in Accounts, Activate(m, a)
  PROVE  /\ accountMembership' \subseteq Slots
         /\ accountAssets' \in [Accounts -> Seq(Markets)]
         /\ AssetsMatchMembership'
         /\ accountMembership \subseteq accountMembership' /\ In(m, a)'
<1>1. /\ accountMembership' = accountMembership \cup {<<m, a>>}
      /\ accountAssets' = [accountAssets EXCEPT ![a] = Entered(m, a)]
  BY DEF Activate
<1>2. /\ accountAssets \in [Accounts -> Seq(Markets)] /\ accountMembership \subseteq Slots
      /\ \A b \in Accounts : ListOf(b)
  BY ListsMatch DEF TypeOK
<1>3. /\ Entered(m, a) \in Seq(Markets)
      /\ ToSet(Entered(m, a)) = {k \in Markets : In(k, a)} \cup {m}
      /\ Distinct(Entered(m, a))
  <2>1. CASE In(m, a)
    BY <2>1, <1>2 DEF Entered, ListOf
  <2>2. CASE ~In(m, a)
    BY <2>2, <1>2, AppendDistinct DEF Entered, ListOf
  <2> QED BY <2>1, <2>2
<1>4. ASSUME NEW b \in Accounts PROVE ListOf(b)'
  <2>1. CASE b = a
    BY <2>1, <1>1, <1>2, <1>3 DEF ListOf, In, Distinct
  <2>2. CASE b # a
    <3>1. accountAssets'[b] = accountAssets[b] /\ \A k : In(k, b)' <=> In(k, b)
      BY <2>2, <1>1, <1>2 DEF In
    <3> QED BY <3>1, <1>2 DEF ListOf, Distinct
  <2> QED BY <2>1, <2>2
<1>5. AssetsMatchMembership'
  BY <1>4 DEF AssetsMatchMembership, ListOf, Distinct
<1> QED BY <1>1, <1>2, <1>3, <1>5 DEF In, Slots

LEMMA ExitKeeps ==
  ASSUME TypeOK, AssetsMatchMembership, NEW m \in Markets, NEW a \in Accounts,
         ExitMarket(a, m)
  PROVE  /\ accountMembership' = accountMembership \ {<<m, a>>}
         /\ accountAssets' \in [Accounts -> Seq(Markets)]
         /\ AssetsMatchMembership'
<1>1. PICK i \in DOMAIN accountAssets[a] :
        /\ accountAssets[a][i] = m
        /\ accountAssets' = [accountAssets EXCEPT ![a] = SwapAndPop(accountAssets[a], i)]
  BY DEF ExitMarket
<1>2. accountMembership' = accountMembership \ {<<m, a>>}
  BY DEF ExitMarket
<1>3. /\ accountAssets \in [Accounts -> Seq(Markets)]
      /\ \A b \in Accounts : ListOf(b)
  BY ListsMatch DEF TypeOK
<1>4. /\ SwapAndPop(accountAssets[a], i) \in Seq(Markets)
      /\ ToSet(SwapAndPop(accountAssets[a], i)) = {k \in Markets : In(k, a)} \ {m}
      /\ Distinct(SwapAndPop(accountAssets[a], i))
  BY <1>1, <1>3, SwapAndPopDistinct DEF ListOf
<1>5. ASSUME NEW b \in Accounts PROVE ListOf(b)'
  <2>1. CASE b = a
    BY <2>1, <1>1, <1>2, <1>3, <1>4 DEF ListOf, In, Distinct
  <2>2. CASE b # a
    <3>1. accountAssets'[b] = accountAssets[b] /\ \A k : In(k, b)' <=> In(k, b)
      BY <2>2, <1>1, <1>2, <1>3 DEF In
    <3> QED BY <3>1, <1>3 DEF ListOf, Distinct
  <2> QED BY <2>1, <2>2
<1>6. AssetsMatchMembership'
  BY <1>5 DEF AssetsMatchMembership, ListOf, Distinct
<1> QED BY <1>1, <1>2, <1>3, <1>4, <1>6

LEMMA SameAssetsKeep ==
  ASSUME AssetsMatchMembership, UNCHANGED <<accountMembership, accountAssets>>
  PROVE  AssetsMatchMembership'
BY DEF AssetsMatchMembership, In

(***************************************************************************)
(* The initial states                                                      *)
(***************************************************************************)
LEMMA InitIInv == Init => IInv
<1> SUFFICES ASSUME Init PROVE IInv
  OBVIOUS
<1>1. accountAssets = [a \in Accounts |-> <<>>] /\ accountMembership = {}
  BY DEF Init
<1>2. exchangeRate \in [Markets -> Nat \ {0}]
  BY ParametersAssumption DEF Init
<1>3. price \in [Markets -> Nat]
  BY ParametersAssumption DEF Init
<1>4. TypeOK
  BY <1>1, <1>2, <1>3 DEF Init, TypeOK
<1>5. AssetsMatchMembership
  BY <1>1 DEF AssetsMatchMembership, In, ToSet
<1>6. DebtsAreCounted
  BY DEF Init, DebtsAreCounted, Slots
<1> QED BY <1>4, <1>5, <1>6 DEF IInv

(***************************************************************************)
(* Arithmetic                                                              *)
(***************************************************************************)
LEMMA DivBounds ==
  ASSUME NEW x \in Nat, NEW y \in Nat \ {0}
  PROVE  x \div y \in Nat /\ y * (x \div y) <= x
BY Z3

LEMMA MulExpNat ==
  ASSUME NEW x \in Nat, NEW y \in Nat
  PROVE  MulExp(x, y) \in Nat
<1>1. x * y \in Nat
  OBVIOUS
<1> QED BY <1>1, DivBounds, ScaleAssumption DEF MulExp

LEMMA ShareIsPart ==
  ASSUME NEW y \in Nat
  PROVE  MulExp(SeizeShare, y) \in 0 .. y
<1> DEFINE q == MulExp(SeizeShare, y)
<1>1. SeizeShare \in Nat /\ SeizeShare <= Scale /\ Scale \in Nat \ {0}
  BY ScaleAssumption
<1>2. SeizeShare * y \in Nat /\ SeizeShare * y <= Scale * y
  BY <1>1, Z3
<1>3. q \in Nat /\ Scale * q <= SeizeShare * y
  BY <1>1, <1>2, DivBounds DEF MulExp
<1>4. q <= y
  <2> HIDE DEF q
  <2> SUFFICES ASSUME y + 1 <= q PROVE FALSE
    BY <1>3
  <2>1. Scale * (y + 1) <= Scale * q
    BY <1>1, <1>3, Z3
  <2>2. Scale * (y + 1) = Scale * y + Scale
    BY <1>1, Z3
  <2>3. Scale * q \in Nat /\ Scale * y \in Nat
    BY <1>1, <1>3
  <2> QED BY <1>1, <1>2, <1>3, <2>1, <2>2, <2>3
<1> QED BY <1>3, <1>4

LEMMA SeizeTokensNat ==
  ASSUME TypeOK, NEW mB \in Markets, NEW mC \in Markets, NEW amount \in Nat,
         MulExp(price[mC], exchangeRate[mC]) > 0
  PROVE  SeizeTokens(mB, mC, amount) \in Nat
<1> DEFINE x == MulExp(Incentive[mC], price[mB])
           y == MulExp(price[mC], exchangeRate[mC])
<1>1. x \in Nat /\ y \in Nat \ {0}
  <2>1. /\ Incentive[mC] \in Nat /\ price[mB] \in Nat
        /\ price[mC] \in Nat /\ exchangeRate[mC] \in Nat
    BY IncentiveAssumption DEF TypeOK
  <2>2. x \in Nat
    BY <2>1, MulExpNat
  <2>3. y \in Nat
    BY <2>1, MulExpNat
  <2> QED BY <2>2, <2>3
<1>2. x * Scale \in Nat
  BY <1>1, ScaleAssumption
<1>3. DivExp(x, y) \in Nat
  BY <1>1, <1>2, DivBounds DEF DivExp
<1> QED BY <1>3, MulExpNat DEF SeizeTokens

\* The markets among the first n of a list.
FirstOf(list, n) == {list[k] : k \in 1 .. n}

\* A sum along a list without repetition is the sum over what it lists.
LEMMA ListSum ==
  ASSUME NEW S, NEW list \in Seq(S), Distinct(list), NEW c \in [S -> Int]
  PROVE  LET Body(f) == [i \in 0 .. Len(list) |-> IF i = 0 THEN 0 ELSE f[i - 1] + c[list[i]]]
         IN  /\ IsFiniteSet(ToSet(list))
             /\ \E f : f = Body(f)
             /\ \A f : f = Body(f) => f[Len(list)] = SumFunctionOnSet(c, ToSet(list))
<1> DEFINE n == Len(list)
           First(i) == FirstOf(list, i)
           Body(f) == [i \in 0 .. n |-> IF i = 0 THEN 0 ELSE f[i - 1] + c[list[i]]]
           Sum(i) == SumFunctionOnSet(c, First(i))
           Good(i) == /\ IsFiniteSet(First(i)) /\ First(i) \subseteq S
                      /\ i # 0 => Sum(i) = Sum(i - 1) + c[list[i]]
           G == {i \in Nat : i <= n => Good(i)}
<1>1. n \in Nat /\ DOMAIN list = 1 .. n /\ \A i \in 1 .. n : list[i] \in S
  OBVIOUS
<1>2. First(0) = {} /\ Sum(0) = 0
  <2>1. First(0) = {}
    BY DEF FirstOf
  <2> QED BY <2>1, SumEmpty
<1>3. 0 \in G
  BY <1>2, FS_EmptySet
<1>4. ASSUME NEW i \in G PROVE i + 1 \in G
  <2>1. SUFFICES ASSUME i + 1 <= n PROVE Good(i + 1)
    OBVIOUS
  <2>2. i \in Nat /\ Good(i) /\ i + 1 \in 1 .. n /\ i + 1 # 0 /\ (i + 1) - 1 = i
    BY <1>1, <2>1
  <2>3. First(i + 1) = First(i) \cup {list[i + 1]}
    <3>1. 1 .. i + 1 = (1 .. i) \cup {i + 1}
      BY <2>2
    <3> QED BY <3>1 DEF FirstOf
  <2>4. list[i + 1] \in S /\ list[i + 1] \notin First(i)
    <3>1. ASSUME NEW k \in 1 .. i PROVE list[k] # list[i + 1]
      <4>1. k \in DOMAIN list /\ i + 1 \in DOMAIN list /\ k # i + 1
        BY <1>1, <2>1, <2>2
      <4> QED BY <4>1 DEF Distinct
    <3> QED BY <1>1, <2>2, <3>1 DEF FirstOf
  <2> HIDE DEF First
  <2>5. IsFiniteSet(First(i + 1)) /\ First(i + 1) \subseteq S
    BY <2>2, <2>3, <2>4, FS_AddElement
  <2>6. First(i + 1) \ {list[i + 1]} = First(i) /\ list[i + 1] \in First(i + 1)
    BY <2>3, <2>4
  <2>7. \A x \in First(i + 1) : c[x] \in Int
    BY <2>5
  <2>8. Sum(i + 1) = c[list[i + 1]] + Sum(i)
    BY <2>5, <2>6, <2>7, SumRemove
  <2>9. c[list[i + 1]] \in Int /\ Sum(i) \in Int
    <3>1. \A x \in First(i) : c[x] \in Int
      BY <2>2
    <3> QED BY <2>2, <2>4, <3>1, SumInt
  <2>10. Sum(i + 1) = Sum(i) + c[list[i + 1]]
    BY <2>8, <2>9
  <2> QED BY <2>2, <2>5, <2>10
<1>5. G = Nat
  <2> HIDE DEF G
  <2>1. G \subseteq Nat
    BY DEF G
  <2> QED BY <1>3, <1>4, <2>1, NatSetInduction
<1>6. \A i \in 0 .. n : Good(i)
  BY <1>1, <1>5
<1>7. First(n) = ToSet(list)
  BY <1>1 DEF FirstOf, ToSet
<1>8. \E f : f = Body(f)
  <2> DEFINE f == [i \in 0 .. n |-> Sum(i)]
  <2>1. ASSUME NEW i \in 0 .. n PROVE f[i] = IF i = 0 THEN 0 ELSE f[i - 1] + c[list[i]]
    <3>1. CASE i = 0
      BY <1>1, <1>2, <3>1
    <3>2. CASE i # 0
      <4>1. i - 1 \in 0 .. n
        BY <1>1, <3>2
      <4> HIDE DEF First
      <4> QED BY <1>6, <3>2, <4>1
    <3> QED BY <3>1, <3>2
  <2>2. f = Body(f)
    BY <2>1
  <2> QED BY <2>2
<1>9. ASSUME NEW f, f = Body(f) PROVE f[n] = SumFunctionOnSet(c, ToSet(list))
  <2> DEFINE H == {i \in Nat : i <= n => f[i] = Sum(i)}
  <2> HIDE DEF First
  <2>1. 0 \in H
    BY <1>1, <1>2, <1>9
  <2>2. ASSUME NEW i \in H PROVE i + 1 \in H
    <3>1. SUFFICES ASSUME i + 1 <= n PROVE f[i + 1] = Sum(i + 1)
      OBVIOUS
    <3>2. i \in Nat /\ i + 1 \in 0 .. n /\ i + 1 # 0 /\ (i + 1) - 1 = i /\ f[i] = Sum(i)
      BY <1>1, <3>1
    <3>3. f[i + 1] = f[i] + c[list[i + 1]]
      <4>1. f[i + 1] = Body(f)[i + 1]
        BY <1>9
      <4> QED BY <3>2, <4>1
    <3>4. Sum(i + 1) = Sum(i) + c[list[i + 1]]
      BY <1>6, <3>2
    <3> QED BY <3>2, <3>3, <3>4
  <2>3. H = Nat
    <3> HIDE DEF H
    <3>1. H \subseteq Nat
      BY DEF H
    <3> QED BY <2>1, <2>2, <3>1, NatSetInduction
  <2> QED BY <1>1, <1>7, <2>3
<1>10. IsFiniteSet(ToSet(list))
  BY <1>1, <1>6, <1>7
<1> QED BY <1>8, <1>9, <1>10
(***************************************************************************)
(* Liquidity                                                               *)
(***************************************************************************)
LEMMA QuotientLess ==
  ASSUME NEW k \in Int, NEW l \in Int, NEW b \in Nat \ {0}, k * b < l * b
  PROVE  k < l
<1> SUFFICES ASSUME l <= k PROVE FALSE
  OBVIOUS
<1>1. l * b <= k * b
  BY Z3
<1>2. k * b \in Int /\ l * b \in Int
  OBVIOUS
<1> QED BY <1>1, <1>2

\* A truncated sum is the sum of the truncated parts, or one more.
LEMMA QuotientSum ==
  ASSUME NEW x \in Nat, NEW y \in Nat, NEW b \in Nat \ {0}
  PROVE  /\ x \div b + y \div b <= (x + y) \div b
         /\ (x + y) \div b <= x \div b + y \div b + 1
<1> DEFINE u == x \div b
           v == y \div b
           w == (x + y) \div b
<1>1. /\ u \in Int /\ v \in Int /\ w \in Int
      /\ u * b <= x /\ x < u * b + b
      /\ v * b <= y /\ y < v * b + b
      /\ w * b <= x + y /\ x + y < w * b + b
  BY Z3
<1> HIDE DEF u, v, w
<1>2. /\ (u + v) * b = u * b + v * b /\ (u + v + 2) * b = u * b + v * b + b + b
      /\ (w + 1) * b = w * b + b
      /\ u * b \in Int /\ v * b \in Int /\ w * b \in Int
  BY <1>1, Z3
<1>3. (u + v) * b < (w + 1) * b /\ w * b < (u + v + 2) * b
  BY <1>1, <1>2
<1>4. u + v < w + 1 /\ w < u + v + 2
  <2>1. u + v \in Int /\ w + 1 \in Int /\ u + v + 2 \in Int
    BY <1>1
  <2> QED BY <1>1, <1>3, <2>1, QuotientLess
<1> QED BY <1>1, <1>4 DEF u, v, w

LEMMA MulExpSum ==
  ASSUME NEW x \in Nat, NEW y \in Nat, NEW z \in Nat
  PROVE  /\ MulExp(x, y) + MulExp(x, z) <= MulExp(x, y + z)
         /\ MulExp(x, y + z) <= MulExp(x, y) + MulExp(x, z) + 1
<1>1. x * y \in Nat /\ x * z \in Nat /\ x * (y + z) = x * y + x * z
  BY Z3
<1> QED BY <1>1, QuotientSum, ScaleAssumption DEF MulExp

LEMMA MulExpZero ==
  ASSUME NEW x \in Nat
  PROVE  MulExp(x, 0) = 0
<1>1. x * 0 = 0 /\ 0 \div Scale = 0
  BY ScaleAssumption, Z3
<1> QED BY <1>1 DEF MulExp

LEMMA MulExpMonotone ==
  ASSUME NEW x \in Nat, NEW y \in Nat, NEW z \in Nat, y <= z
  PROVE  MulExp(x, y) <= MulExp(x, z)
<1>1. z - y \in Nat /\ y + (z - y) = z
  OBVIOUS
<1>2. MulExp(x, y) + MulExp(x, z - y) <= MulExp(x, z)
  BY <1>1, MulExpSum
<1>3. MulExp(x, y) \in Nat /\ MulExp(x, z) \in Nat /\ MulExp(x, z - y) \in Nat
  BY <1>1, MulExpNat
<1> QED BY <1>2, <1>3

\* What each market counts for an account, as collateral and as debt.
ColOf(a) == [m \in Markets |-> MulExp(TokensToDenom(m), accountTokens[<<m, a>>])]
DebtOf(a) == [m \in Markets |-> MulExp(price[m], accountBorrows[<<m, a>>])]

LEMMA CollateralSum ==
  ASSUME NEW a \in Accounts, NEW list \in Seq(Markets), Distinct(list),
         ColOf(a) \in [Markets -> Int]
  PROVE  SumCollateral(a, list) = SumFunctionOnSet(ColOf(a), ToSet(list))
<1> DEFINE c == ColOf(a)
           Body(f) == [i \in 0 .. Len(list) |-> IF i = 0 THEN 0 ELSE f[i - 1] + c[list[i]]]
           Code(f) == [i \in 0 .. Len(list) |->
                        IF i = 0 THEN 0
                        ELSE f[i - 1] + MulExp(TokensToDenom(list[i]), accountTokens[<<list[i], a>>])]
           sum == CHOOSE f : f = Code(f)
<1>1. SumCollateral(a, list) = sum[Len(list)]
  BY DEF SumCollateral, SumOver
<1>2. ASSUME NEW f PROVE Code(f) = Body(f)
  <2>1. ASSUME NEW i \in 0 .. Len(list), i # 0
        PROVE  c[list[i]] = MulExp(TokensToDenom(list[i]), accountTokens[<<list[i], a>>])
    BY <2>1 DEF ColOf
  <2> HIDE DEF c
  <2> QED BY <2>1
<1>3. /\ \E f : f = Body(f)
      /\ \A f : f = Body(f) => f[Len(list)] = SumFunctionOnSet(c, ToSet(list))
  BY ListSum
<1> HIDE DEF Body, Code
<1>4. \E f : f = Code(f)
  BY <1>2, <1>3
<1>5. sum = Code(sum)
  BY <1>4
<1> HIDE DEF sum
<1> QED BY <1>1, <1>2, <1>3, <1>5

LEMMA BorrowSum ==
  ASSUME NEW a \in Accounts, NEW list \in Seq(Markets), Distinct(list),
         DebtOf(a) \in [Markets -> Int]
  PROVE  SumBorrow(a, list) = SumFunctionOnSet(DebtOf(a), ToSet(list))
<1> DEFINE c == DebtOf(a)
           Body(f) == [i \in 0 .. Len(list) |-> IF i = 0 THEN 0 ELSE f[i - 1] + c[list[i]]]
           Code(f) == [i \in 0 .. Len(list) |->
                        IF i = 0 THEN 0
                        ELSE f[i - 1] + MulExp(price[list[i]], accountBorrows[<<list[i], a>>])]
           sum == CHOOSE f : f = Code(f)
<1>1. SumBorrow(a, list) = sum[Len(list)]
  BY DEF SumBorrow, SumOver
<1>2. ASSUME NEW f PROVE Code(f) = Body(f)
  <2>1. ASSUME NEW i \in 0 .. Len(list), i # 0
        PROVE  c[list[i]] = MulExp(price[list[i]], accountBorrows[<<list[i], a>>])
    BY <2>1 DEF DebtOf
  <2> HIDE DEF c
  <2> QED BY <2>1
<1>3. /\ \E f : f = Body(f)
      /\ \A f : f = Body(f) => f[Len(list)] = SumFunctionOnSet(c, ToSet(list))
  BY ListSum
<1> HIDE DEF Body, Code
<1>4. \E f : f = Code(f)
  BY <1>2, <1>3
<1>5. sum = Code(sum)
  BY <1>4
<1> HIDE DEF sum
<1> QED BY <1>1, <1>2, <1>3, <1>5

LEMMA WorthNat ==
  ASSUME TypeOK, NEW a \in Accounts
  PROVE  /\ ColOf(a) \in [Markets -> Nat] /\ DebtOf(a) \in [Markets -> Nat]
         /\ \A m \in Markets : TokensToDenom(m) \in Nat /\ price[m] \in Nat
<1>1. ASSUME NEW m \in Markets
      PROVE  /\ collateralFactor[m] \in Nat /\ exchangeRate[m] \in Nat /\ price[m] \in Nat
             /\ accountTokens[<<m, a>>] \in Nat /\ accountBorrows[<<m, a>>] \in Nat
  BY DEF TypeOK, Slots
<1>2. ASSUME NEW m \in Markets
      PROVE  TokensToDenom(m) \in Nat
  BY <1>1, MulExpNat DEF TokensToDenom
<1> QED BY <1>1, <1>2, MulExpNat DEF ColOf, DebtOf

\* The sums of _getHypotheticalAccountLiquidity along the list of an account.
Assets(a) == ToSet(accountAssets[a])
Lent(a) == SumFunctionOnSet(ColOf(a), Assets(a))
Owed(a) == SumFunctionOnSet(DebtOf(a), Assets(a))
Counts(a) ==
  /\ ColOf(a) \in [Markets -> Nat] /\ DebtOf(a) \in [Markets -> Nat]
  /\ IsFiniteSet(Assets(a)) /\ Assets(a) = {m \in Markets : In(m, a)}
  /\ Lent(a) \in Nat /\ Owed(a) \in Nat
  /\ Shortfall(a) = IF Owed(a) > Lent(a) THEN Owed(a) - Lent(a) ELSE 0
AllCount == \A a \in Accounts : Counts(a)

LEMMA SumsOfList ==
  ASSUME TypeOK, NEW a \in Accounts, NEW list \in Seq(Markets), Distinct(list)
  PROVE  /\ IsFiniteSet(ToSet(list)) /\ ToSet(list) \subseteq Markets
         /\ SumCollateral(a, list) = SumFunctionOnSet(ColOf(a), ToSet(list))
         /\ SumBorrow(a, list) = SumFunctionOnSet(DebtOf(a), ToSet(list))
         /\ SumCollateral(a, list) \in Nat /\ SumBorrow(a, list) \in Nat
<1>1. ColOf(a) \in [Markets -> Nat] /\ DebtOf(a) \in [Markets -> Nat]
  BY WorthNat
<1>2. ColOf(a) \in [Markets -> Int] /\ DebtOf(a) \in [Markets -> Int]
  BY <1>1
<1>3. IsFiniteSet(ToSet(list))
  BY <1>2, ListSum
<1>4. ToSet(list) \subseteq Markets
  BY DEF ToSet
<1>5. \A m \in ToSet(list) : ColOf(a)[m] \in Nat /\ DebtOf(a)[m] \in Nat
  BY <1>1, <1>4
<1>6. /\ SumFunctionOnSet(ColOf(a), ToSet(list)) \in Nat
      /\ SumFunctionOnSet(DebtOf(a), ToSet(list)) \in Nat
  BY <1>3, <1>5, SumNat
<1>7. /\ SumCollateral(a, list) = SumFunctionOnSet(ColOf(a), ToSet(list))
      /\ SumBorrow(a, list) = SumFunctionOnSet(DebtOf(a), ToSet(list))
  BY <1>2, CollateralSum, BorrowSum
<1> QED BY <1>3, <1>4, <1>6, <1>7

LEMMA Counting == IInv => AllCount
<1> SUFFICES ASSUME IInv, NEW a \in Accounts PROVE Counts(a)
  BY DEF AllCount
<1>1. /\ TypeOK /\ ListOf(a) /\ accountAssets[a] \in Seq(Markets)
  BY ListsMatch DEF IInv, TypeOK
<1>2. Distinct(accountAssets[a]) /\ Assets(a) = {m \in Markets : In(m, a)}
  BY <1>1 DEF ListOf, Assets
<1>3. /\ IsFiniteSet(Assets(a)) /\ Lent(a) \in Nat /\ Owed(a) \in Nat
      /\ SumCollateral(a, accountAssets[a]) = Lent(a)
      /\ SumBorrow(a, accountAssets[a]) = Owed(a)
  BY <1>1, <1>2, SumsOfList DEF Assets, Lent, Owed
<1>4. Shortfall(a) = IF Owed(a) > Lent(a) THEN Owed(a) - Lent(a) ELSE 0
  BY <1>3 DEF Shortfall
<1>5. ColOf(a) \in [Markets -> Nat] /\ DebtOf(a) \in [Markets -> Nat]
  BY <1>1, WorthNat
<1> QED BY <1>2, <1>3, <1>4, <1>5 DEF Counts

LEMMA CountingNext == IInv' => AllCount'
BY Counting, PTL

\* The check as the calls use it.
LEMMA LiquidSums ==
  ASSUME TypeOK, NEW a \in Accounts, NEW list \in Seq(Markets), Distinct(list),
         NEW m \in Markets, m \in ToSet(list), NEW n \in Nat, NEW amount \in Nat,
         StaysLiquid(a, list, m, n, amount)
  PROVE  SumFunctionOnSet(DebtOf(a), ToSet(list))
             + (MulExp(TokensToDenom(m), n) + MulExp(price[m], amount))
           <= SumFunctionOnSet(ColOf(a), ToSet(list))
<1>1. Contains(list, m)
  BY DEF Contains, ToSet
<1> QED BY <1>1, SumsOfList DEF StaysLiquid, Effects

\* Debts that do not grow, collateral that does not shrink and new markets
\* without a debt: the sums move apart.
LEMMA SumsMoveApart ==
  ASSUME NEW U, NEW S \in SUBSET U, NEW T \in SUBSET U, IsFiniteSet(T), S \subseteq T,
         NEW b \in [U -> Nat], NEW c \in [U -> Nat], NEW b2 \in [U -> Nat], NEW c2 \in [U -> Nat],
         \A x \in S : b2[x] <= b[x] /\ c[x] <= c2[x],
         \A x \in T \ S : b2[x] = 0
  PROVE  /\ SumFunctionOnSet(b2, T) <= SumFunctionOnSet(b, S)
         /\ SumFunctionOnSet(c, S) <= SumFunctionOnSet(c2, T)
<1>1. IsFiniteSet(S) /\ IsFiniteSet(T \ S) /\ S \cup (T \ S) = T /\ S \cap (T \ S) = {}
  BY FS_Subset
<1>2. \A x \in T : /\ b[x] \in Int /\ c[x] \in Int /\ b2[x] \in Int /\ c2[x] \in Int
                   /\ b2[x] \in Nat /\ c2[x] \in Nat
  OBVIOUS
<1>3. SumFunctionOnSet(b2, T) = SumFunctionOnSet(b2, S) + SumFunctionOnSet(b2, T \ S)
  <2>1. S \in SUBSET T /\ T \ S \in SUBSET T /\ \A x \in T : b2[x] \in Int
    BY <1>2
  <2>2. SumFunctionOnSet(b2, S \cup (T \ S)) = SumFunctionOnSet(b2, S) + SumFunctionOnSet(b2, T \ S)
    BY <1>1, <2>1, SumUnion
  <2> QED BY <1>1, <2>2
<1>4. SumFunctionOnSet(b2, T \ S) = 0
  BY <1>1, SumZero
<1>5. \A x \in S : /\ b[x] \in Int /\ c[x] \in Int /\ b2[x] \in Int /\ c2[x] \in Int
  BY <1>2
<1>6. /\ SumFunctionOnSet(b2, S) <= SumFunctionOnSet(b, S)
      /\ SumFunctionOnSet(c, S) <= SumFunctionOnSet(c2, S)
  BY <1>1, <1>5, SumMonotone
<1>7. SumFunctionOnSet(c2, S) <= SumFunctionOnSet(c2, T)
  BY <1>2, SumAtLeast
<1>8. /\ SumFunctionOnSet(b2, S) \in Int /\ SumFunctionOnSet(c, S) \in Int
      /\ SumFunctionOnSet(c2, S) \in Int /\ SumFunctionOnSet(c2, T) \in Int
      /\ SumFunctionOnSet(b, S) \in Int
  BY <1>1, <1>2, <1>5, SumInt
<1> QED BY <1>3, <1>4, <1>6, <1>7, <1>8

LEMMA WorthNext ==
  ASSUME UNCHANGED market, NEW a \in Accounts, NEW m \in Markets
  PROVE  /\ ColOf(a)'[m] = MulExp(TokensToDenom(m), accountTokens'[<<m, a>>])
         /\ DebtOf(a)'[m] = MulExp(price[m], accountBorrows'[<<m, a>>])
BY DEF ColOf, DebtOf, TokensToDenom, market, MulExp

\* An account that loses no mTokens, gets no debt and leaves no market.
LEMMA NoShorter ==
  ASSUME IInv, IInv', UNCHANGED market, NEW a \in Accounts,
         \A m \in Markets : In(m, a) => In(m, a)',
         \A m \in Markets : accountTokens[<<m, a>>] <= accountTokens'[<<m, a>>],
         \A m \in Markets : accountBorrows'[<<m, a>>] <= accountBorrows[<<m, a>>]
  PROVE  Shortfall(a)' <= Shortfall(a)
<1>1. Counts(a) /\ Counts(a)'
  BY Counting, CountingNext DEF AllCount
<1>2. ASSUME NEW m \in Markets
      PROVE  /\ DebtOf(a)'[m] <= DebtOf(a)[m] /\ ColOf(a)[m] <= ColOf(a)'[m]
             /\ ~In(m, a) => DebtOf(a)'[m] = 0
  <2>1. /\ accountTokens[<<m, a>>] \in Nat /\ accountTokens'[<<m, a>>] \in Nat
        /\ accountBorrows[<<m, a>>] \in Nat /\ accountBorrows'[<<m, a>>] \in Nat
    BY DEF IInv, TypeOK, Slots
  <2>2. TokensToDenom(m) \in Nat /\ price[m] \in Nat
    BY WorthNat DEF IInv
  <2>3. ~In(m, a) => accountBorrows'[<<m, a>>] = 0
    BY <2>1 DEF IInv, DebtsAreCounted
  <2>4. /\ ColOf(a)[m] = MulExp(TokensToDenom(m), accountTokens[<<m, a>>])
        /\ DebtOf(a)[m] = MulExp(price[m], accountBorrows[<<m, a>>])
    BY DEF ColOf, DebtOf
  <2> QED BY <2>1, <2>2, <2>3, <2>4, WorthNext, MulExpMonotone, MulExpZero
<1>3. /\ Assets(a) \in SUBSET Markets /\ Assets(a)' \in SUBSET Markets /\ IsFiniteSet(Assets(a)')
      /\ Assets(a) \subseteq Assets(a)' /\ \A m \in Assets(a)' \ Assets(a) : ~In(m, a)
  BY <1>1 DEF Counts
<1>4. Owed(a)' <= Owed(a) /\ Lent(a) <= Lent(a)'
  BY <1>1, <1>2, <1>3, SumsMoveApart DEF Counts, Owed, Lent
<1> QED BY <1>1, <1>4 DEF Counts

\* An account in m that had n mTokens to spare there, and loses them.
LEMMA LosesSpare ==
  ASSUME IInv, IInv', UNCHANGED market, NEW a \in Accounts, NEW m \in Markets, NEW n \in Nat,
         UNCHANGED <<accountMembership, accountAssets, accountBorrows>>,
         In(m, a), StaysLiquid(a, accountAssets[a], m, n, 0),
         accountTokens[<<m, a>>] = accountTokens'[<<m, a>>] + n,
         \A k \in Markets : k # m => accountTokens'[<<k, a>>] = accountTokens[<<k, a>>]
  PROVE  Shortfall(a)' <= 1
<1> DEFINE T == TokensToDenom(m)
           old == accountTokens[<<m, a>>]
           new == accountTokens'[<<m, a>>]
<1>1. Counts(a) /\ Counts(a)'
  BY Counting, CountingNext DEF AllCount
<1>2. Assets(a)' = Assets(a) /\ m \in Assets(a)
  BY <1>1 DEF Counts, Assets
<1>3. DebtOf(a)' = DebtOf(a)
  BY DEF DebtOf, market, MulExp
<1>4. /\ T \in Nat /\ price[m] \in Nat /\ old \in Nat /\ new \in Nat
      /\ MulExp(T, old) \in Nat /\ MulExp(T, new) \in Nat /\ MulExp(T, n) \in Nat
  <2>1. T \in Nat /\ price[m] \in Nat /\ old \in Nat /\ new \in Nat
    BY WorthNat DEF IInv, TypeOK, Slots
  <2> QED BY <2>1, MulExpNat
<1>5. Owed(a) + MulExp(T, n) <= Lent(a)
  <2>1. /\ accountAssets[a] \in Seq(Markets) /\ Distinct(accountAssets[a])
    BY ListsMatch DEF IInv, TypeOK, ListOf
  <2>2. Owed(a) + (MulExp(T, n) + MulExp(price[m], 0)) <= Lent(a)
    BY <1>2, <2>1, LiquidSums DEF IInv, Assets, Owed, Lent
  <2>3. MulExp(price[m], 0) = 0
    BY <1>4, MulExpZero
  <2> QED BY <1>1, <1>4, <2>2, <2>3 DEF Counts
<1>6. Lent(a)' = Lent(a) - MulExp(T, old) + MulExp(T, new)
  <2>1. ColOf(a)[m] = MulExp(T, old) /\ ColOf(a)'[m] = MulExp(T, new)
    BY WorthNext DEF ColOf
  <2>2. ASSUME NEW k \in Markets, k # m PROVE ColOf(a)'[k] = ColOf(a)[k]
    BY <2>2, WorthNext DEF ColOf
  <2>3. /\ \A k \in Assets(a) : ColOf(a)[k] \in Int /\ ColOf(a)'[m] \in Int
        /\ \A k \in Assets(a) : k # m => ColOf(a)'[k] = ColOf(a)[k]
        /\ IsFiniteSet(Assets(a))
    BY <1>1, <2>2 DEF Counts
  <2>4. SumFunctionOnSet(ColOf(a)', Assets(a)) = Lent(a) - ColOf(a)[m] + ColOf(a)'[m]
    BY <1>2, <2>3, SumChangeOne DEF Lent
  <2> QED BY <1>2, <2>1, <2>4 DEF Lent
<1>7. MulExp(T, old) <= MulExp(T, new) + MulExp(T, n) + 1
  BY <1>4, MulExpSum
<1>8. Owed(a)' = Owed(a)
  BY <1>2, <1>3 DEF Owed
<1> HIDE DEF T, old, new
<1>9. /\ Lent(a) \in Nat /\ Lent(a)' \in Nat /\ Owed(a) \in Nat
      /\ Shortfall(a)' = IF Owed(a)' > Lent(a)' THEN Owed(a)' - Lent(a)' ELSE 0
  BY <1>1 DEF Counts
<1> QED BY <1>4, <1>5, <1>6, <1>7, <1>8, <1>9

\* What a redemption or transfer of n mTokens does to who gives them.
LEMMA GivesTokens ==
  ASSUME IInv, IInv', UNCHANGED market, NEW a \in Accounts, NEW m \in Markets, NEW n \in Nat,
         UNCHANGED <<accountMembership, accountAssets, accountBorrows>>,
         BeforeRedeem(m, a, n),
         accountTokens[<<m, a>>] = accountTokens'[<<m, a>>] + n,
         \A k \in Markets : k # m => accountTokens'[<<k, a>>] = accountTokens[<<k, a>>]
  PROVE  Shortfall(a)' <= 1 \/ Shortfall(a)' <= Shortfall(a)
<1>1. CASE In(m, a)
  BY <1>1, LosesSpare DEF BeforeRedeem
<1>2. CASE ~In(m, a)
  <2>1. Counts(a) /\ Counts(a)'
    BY Counting, CountingNext DEF AllCount
  <2>2. Assets(a)' = Assets(a) /\ m \notin Assets(a)
    BY <1>2, <2>1 DEF Counts, Assets
  <2>3. DebtOf(a)' = DebtOf(a)
    BY DEF DebtOf, market, MulExp
  <2>4. ASSUME NEW k \in Assets(a) PROVE ColOf(a)[k] \in Int /\ ColOf(a)[k] = ColOf(a)'[k]
    <3>1. k \in Markets /\ k # m
      BY <2>1, <2>2 DEF Counts
    <3>2. ColOf(a)[k] = ColOf(a)'[k]
      BY <3>1, WorthNext DEF ColOf
    <3> QED BY <2>1, <3>1, <3>2 DEF Counts
  <2>5. SumFunctionOnSet(ColOf(a), Assets(a)) = SumFunctionOnSet(ColOf(a)', Assets(a))
    BY <2>1, <2>4, SumCongruence DEF Counts
  <2>6. Lent(a)' = Lent(a) /\ Owed(a)' = Owed(a)
    BY <2>2, <2>3, <2>5 DEF Lent, Owed
  <2> QED BY <2>1, <2>6 DEF Counts
<1> QED BY <1>1, <1>2

LEMMA ExitLeavesLiquid ==
  ASSUME IInv, IInv', NEW a \in Accounts, NEW m \in Markets, ExitMarket(a, m)
  PROVE  Shortfall(a)' = 0
<1> DEFINE n == accountTokens[<<m, a>>]
           c == ColOf(a)
           d == DebtOf(a)
           Rest == Assets(a) \ {m}
<1>1. /\ UNCHANGED market /\ UNCHANGED <<accountTokens, accountBorrows>>
      /\ In(m, a) /\ accountBorrows[<<m, a>>] = 0
      /\ StaysLiquid(a, accountAssets[a], m, n, 0)
      /\ accountMembership' = accountMembership \ {<<m, a>>}
  BY DEF ExitMarket, MayExit, BeforeRedeem
<1>2. Counts(a) /\ Counts(a)'
  BY Counting, CountingNext DEF AllCount
<1>3. Assets(a)' = Rest /\ m \in Assets(a)
  BY <1>1, <1>2 DEF Counts, In
<1>4. ColOf(a)' = c /\ DebtOf(a)' = d
  BY <1>1 DEF ColOf, DebtOf, TokensToDenom, market, MulExp
<1>5. /\ n \in Nat /\ TokensToDenom(m) \in Nat /\ price[m] \in Nat
      /\ MulExp(TokensToDenom(m), n) \in Nat
  <2>1. n \in Nat /\ TokensToDenom(m) \in Nat /\ price[m] \in Nat
    BY WorthNat DEF IInv, TypeOK, Slots
  <2> QED BY <2>1, MulExpNat
<1>6. c[m] = MulExp(TokensToDenom(m), n) /\ d[m] = 0
  BY <1>1, <1>5, MulExpZero DEF ColOf, DebtOf
<1>7. Owed(a) + MulExp(TokensToDenom(m), n) <= Lent(a)
  <2>1. /\ accountAssets[a] \in Seq(Markets) /\ Distinct(accountAssets[a])
    BY ListsMatch DEF IInv, TypeOK, ListOf
  <2>2. Owed(a) + (MulExp(TokensToDenom(m), n) + MulExp(price[m], 0)) <= Lent(a)
    BY <1>1, <1>3, <1>5, <2>1, LiquidSums DEF IInv, Assets, Owed, Lent
  <2>3. MulExp(price[m], 0) = 0
    BY <1>5, MulExpZero
  <2> QED BY <1>2, <1>5, <2>2, <2>3 DEF Counts
<1>8. Lent(a) = c[m] + SumFunctionOnSet(c, Rest) /\ Owed(a) = d[m] + SumFunctionOnSet(d, Rest)
  <2>1. \A k \in Assets(a) : c[k] \in Int /\ d[k] \in Int
    BY <1>2 DEF Counts
  <2> QED BY <1>2, <1>3, <2>1, SumRemove DEF Counts, Lent, Owed
<1>9. Lent(a)' = SumFunctionOnSet(c, Rest) /\ Owed(a)' = SumFunctionOnSet(d, Rest)
  BY <1>3, <1>4 DEF Lent, Owed
<1>10. /\ Lent(a) \in Nat /\ Owed(a) \in Nat /\ Lent(a)' \in Nat /\ Owed(a)' \in Nat
       /\ Shortfall(a)' = IF Owed(a)' > Lent(a)' THEN Owed(a)' - Lent(a)' ELSE 0
  BY <1>2 DEF Counts
<1>11. Owed(a)' <= Lent(a)'
  <2> HIDE DEF c, d, Rest, n
  <2> QED BY <1>5, <1>6, <1>7, <1>8, <1>9, <1>10
<1> QED BY <1>10, <1>11

LEMMA BorrowLeavesDust ==
  ASSUME IInv, IInv', NEW a \in Accounts, NEW m \in Markets, NEW n \in Nat, Borrow(m, a, n)
  PROVE  Shortfall(a)' <= 1
<1> DEFINE list == Entered(m, a)
           S == ToSet(list)
           old == accountBorrows[<<m, a>>]
<1>1. /\ UNCHANGED market /\ UNCHANGED accountTokens
      /\ StaysLiquid(a, list, m, 0, n)
      /\ accountAssets' = [accountAssets EXCEPT ![a] = list]
      /\ accountMembership' = accountMembership \cup {<<m, a>>}
      /\ accountBorrows' = [accountBorrows EXCEPT ![<<m, a>>] = @ + n]
  BY DEF Borrow, MayBorrow, EntersToBorrow, Activate
<1>2. Counts(a) /\ Counts(a)'
  BY Counting, CountingNext DEF AllCount
<1>3. list \in Seq(Markets) /\ Distinct(list) /\ Assets(a)' = S /\ m \in S
  <2>1. accountAssets'[a] = list
    BY <1>1 DEF IInv, TypeOK
  <2>2. ListOf(a)' /\ accountAssets'[a] \in Seq(Markets)
    <3>1. \A b \in Accounts : ListOf(b)'
      BY DEF IInv, AssetsMatchMembership, ListOf, Distinct
    <3> QED BY <3>1 DEF IInv, TypeOK
  <2>3. In(m, a)'
    BY <1>1 DEF In
  <2> HIDE DEF list
  <2> QED BY <2>1, <2>2, <2>3 DEF ListOf, Distinct, Assets
<1>4. ColOf(a)' = ColOf(a)
  BY <1>1 DEF ColOf, TokensToDenom, market, MulExp
<1>5. /\ old \in Nat /\ TokensToDenom(m) \in Nat /\ price[m] \in Nat
      /\ MulExp(price[m], n) \in Nat /\ MulExp(price[m], old) \in Nat
      /\ MulExp(price[m], old + n) \in Nat
  <2>1. old \in Nat /\ TokensToDenom(m) \in Nat /\ price[m] \in Nat
    BY WorthNat DEF IInv, TypeOK, Slots
  <2>2. old + n \in Nat
    BY <2>1
  <2> QED BY <2>1, <2>2, MulExpNat
<1>6. SumFunctionOnSet(DebtOf(a), S) + MulExp(price[m], n) <= SumFunctionOnSet(ColOf(a), S)
  <2>1. SumFunctionOnSet(DebtOf(a), S) + (MulExp(TokensToDenom(m), 0) + MulExp(price[m], n))
          <= SumFunctionOnSet(ColOf(a), S)
    <3> HIDE DEF list
    <3> QED BY <1>1, <1>3, LiquidSums DEF IInv
  <2>2. MulExp(TokensToDenom(m), 0) = 0
    BY <1>5, MulExpZero
  <2> HIDE DEF S
  <2> QED BY <1>5, <2>1, <2>2
<1>7. SumFunctionOnSet(DebtOf(a)', S)
        = SumFunctionOnSet(DebtOf(a), S) - MulExp(price[m], old) + MulExp(price[m], old + n)
  <2>1. accountBorrows \in [Slots -> Nat] /\ <<m, a>> \in Slots
    BY DEF IInv, TypeOK, Slots
  <2>2. DebtOf(a)[m] = MulExp(price[m], old) /\ DebtOf(a)'[m] = MulExp(price[m], old + n)
    <3>1. accountBorrows'[<<m, a>>] = old + n
      BY <1>1, <2>1
    <3> QED BY <1>1, <3>1, WorthNext DEF DebtOf
  <2>3. ASSUME NEW k \in Markets, k # m PROVE DebtOf(a)'[k] = DebtOf(a)[k]
    <3>1. accountBorrows'[<<k, a>>] = accountBorrows[<<k, a>>]
      BY <1>1, <2>1, <2>3 DEF Slots
    <3> QED BY <1>1, <3>1, WorthNext DEF DebtOf
  <2>4. S \subseteq Markets /\ IsFiniteSet(S)
    BY <1>2, <1>3 DEF Counts
  <2> HIDE DEF S, list, old
  <2>5. /\ \A k \in S : DebtOf(a)[k] \in Int /\ DebtOf(a)'[m] \in Int
        /\ \A k \in S : k # m => DebtOf(a)'[k] = DebtOf(a)[k]
    BY <1>2, <2>3, <2>4 DEF Counts
  <2>6. SumFunctionOnSet(DebtOf(a)', S)
          = SumFunctionOnSet(DebtOf(a), S) - DebtOf(a)[m] + DebtOf(a)'[m]
    BY <1>3, <2>4, <2>5, SumChangeOne
  <2> QED BY <2>2, <2>6
<1>8. MulExp(price[m], old + n) <= MulExp(price[m], old) + MulExp(price[m], n) + 1
  BY <1>5, MulExpSum
<1>9. /\ Lent(a)' = SumFunctionOnSet(ColOf(a), S) /\ Owed(a)' = SumFunctionOnSet(DebtOf(a)', S)
      /\ Lent(a)' \in Nat /\ Owed(a)' \in Nat
      /\ Shortfall(a)' = IF Owed(a)' > Lent(a)' THEN Owed(a)' - Lent(a)' ELSE 0
  BY <1>2, <1>3, <1>4 DEF Counts, Lent, Owed
<1>10. SumFunctionOnSet(DebtOf(a), S) \in Nat
  <2> HIDE DEF list
  <2> QED BY <1>3, SumsOfList DEF IInv
<1> HIDE DEF S, list, old
<1> QED BY <1>5, <1>6, <1>7, <1>8, <1>9, <1>10

LEMMA TimesMonotone ==
  ASSUME NEW x \in Nat, NEW y \in Nat, NEW b \in Nat, x <= y
  PROVE  x * b <= y * b
BY Z3

LEMMA TimesCancel ==
  ASSUME NEW x \in Nat, NEW y \in Nat, NEW b \in Nat \ {0}, x * b <= y * b
  PROVE  x <= y
<1>1. x * b < (y + 1) * b
  <2>1. (y + 1) * b = y * b + b /\ x * b \in Nat /\ y * b \in Nat
    BY Z3
  <2> QED BY <2>1
<1>2. x < y + 1
  BY <1>1, QuotientLess
<1> QED BY <1>2

\* liquidateCalculateSeizeTokens in products: x stands for the repaid token's
\* price with the incentive, d for the price of a seized mToken, r for their
\* ratio.  What is taken counts for no more than what is repaid.
LEMMA SeizedWorth ==
  ASSUME NEW T \in Nat, NEW incentive \in Nat, NEW p \in Nat, NEW b \in Nat \ {0},
         NEW x \in Nat, NEW d \in Nat \ {0}, NEW r \in Nat,
         NEW amount \in Nat, NEW seized \in Nat,
         x * b <= incentive * p, r * d <= x * b, seized * b <= r * amount,
         T * incentive <= b * d
  PROVE  T * seized <= p * amount
<1>1. T * r <= b * p
  <2>1. r * d \in Nat /\ incentive * p \in Nat /\ x * b \in Nat /\ r * d <= incentive * p
    BY Z3
  <2>2. (r * d) * T <= (incentive * p) * T
    BY <2>1, TimesMonotone
  <2>3. T * incentive \in Nat /\ b * d \in Nat
    BY Z3
  <2>4. (T * incentive) * p <= (b * d) * p
    BY <2>3, TimesMonotone
  <2>5. /\ (r * d) * T = (T * r) * d /\ (incentive * p) * T = (T * incentive) * p
        /\ (b * d) * p = (b * p) * d
    BY Z3
  <2>6. T * r \in Nat /\ b * p \in Nat /\ (T * r) * d \in Nat /\ (b * p) * d \in Nat
        /\ (T * incentive) * p \in Nat
    BY Z3
  <2>7. (T * r) * d <= (b * p) * d
    BY <2>2, <2>4, <2>5, <2>6
  <2> QED BY <2>6, <2>7, TimesCancel
<1>2. (T * seized) * b <= (p * amount) * b
  <2>1. seized * b \in Nat /\ r * amount \in Nat /\ T * r \in Nat /\ b * p \in Nat
    BY Z3
  <2>2. (seized * b) * T <= (r * amount) * T
    BY <2>1, TimesMonotone
  <2>3. (T * r) * amount <= (b * p) * amount
    BY <1>1, <2>1, TimesMonotone
  <2>4. /\ (seized * b) * T = (T * seized) * b /\ (r * amount) * T = (T * r) * amount
        /\ (b * p) * amount = (p * amount) * b
    BY Z3
  <2>5. (T * seized) * b \in Nat /\ (T * r) * amount \in Nat /\ (p * amount) * b \in Nat
    BY Z3
  <2> QED BY <2>2, <2>3, <2>4, <2>5
<1> QED
  <2>1. T * seized \in Nat /\ p * amount \in Nat
    BY Z3
  <2> QED BY <1>2, <2>1, TimesCancel

\* A liquidation of amount takes collateral that counts for no more than the
\* debt it repays, provided the incentive is covered.
LEMMA SeizeIsCovered ==
  ASSUME TypeOK, IncentiveCovered, NEW mB \in Markets, NEW mC \in Markets, NEW amount \in Nat,
         MulExp(price[mC], exchangeRate[mC]) > 0
  PROVE  MulExp(TokensToDenom(mC), SeizeTokens(mB, mC, amount)) <= MulExp(price[mB], amount)
<1> DEFINE T == TokensToDenom(mC)
           i == Incentive[mC]
           p == price[mB]
           d == MulExp(price[mC], exchangeRate[mC])
           x == MulExp(i, p)
           r == DivExp(x, d)
           seized == MulExp(r, amount)
<1>1. /\ T \in Nat /\ i \in Nat /\ p \in Nat /\ price[mC] \in Nat /\ exchangeRate[mC] \in Nat
      /\ Scale \in Nat \ {0}
  <2>1. T \in Nat
    BY MulExpNat DEF TypeOK, TokensToDenom
  <2> QED BY <2>1, IncentiveAssumption, ScaleAssumption DEF TypeOK
<1>2. d \in Nat \ {0}
  <2>1. d \in Nat
    BY <1>1, MulExpNat
  <2> QED BY <2>1
<1> HIDE DEF T, i, p, d
<1>3. x \in Nat /\ x * Scale <= i * p
  <2>1. i * p \in Nat
    BY <1>1
  <2>2. x \in Nat /\ Scale * x <= i * p
    BY <1>1, <2>1, DivBounds DEF MulExp
  <2> HIDE DEF x
  <2>3. Scale * x = x * Scale
    BY <1>1, <2>2
  <2> QED BY <2>2, <2>3
<1> HIDE DEF x
<1>4. r \in Nat /\ r * d <= x * Scale
  <2>1. x * Scale \in Nat
    BY <1>1, <1>3
  <2>2. r \in Nat /\ d * r <= x * Scale
    BY <1>2, <2>1, DivBounds DEF DivExp
  <2> HIDE DEF r
  <2>3. d * r = r * d
    BY <1>2, <2>2
  <2> QED BY <2>2, <2>3
<1> HIDE DEF r
<1>5. seized \in Nat /\ seized * Scale <= r * amount
  <2>1. r * amount \in Nat
    BY <1>4
  <2>2. seized \in Nat /\ Scale * seized <= r * amount
    BY <1>1, <2>1, DivBounds DEF MulExp
  <2> HIDE DEF seized
  <2>3. Scale * seized = seized * Scale
    BY <1>1, <2>2
  <2> QED BY <2>2, <2>3
<1> HIDE DEF seized
<1>6. T * i <= Scale * d
  BY DEF IncentiveCovered, T, i, d
<1>7. T * seized <= p * amount
  BY <1>1, <1>2, <1>3, <1>4, <1>5, <1>6, SeizedWorth
<1>8. MulExp(T, seized) <= MulExp(p, amount)
  <2>1. T * seized \in Nat /\ p * amount \in Nat /\ p * amount - T * seized \in Nat
        /\ T * seized + (p * amount - T * seized) = p * amount
    BY <1>1, <1>5, <1>7
  <2>2. (T * seized) \div Scale + (p * amount - T * seized) \div Scale <= (p * amount) \div Scale
    BY <1>1, <2>1, QuotientSum
  <2>3. /\ (T * seized) \div Scale \in Nat /\ (p * amount - T * seized) \div Scale \in Nat
        /\ (p * amount) \div Scale \in Nat
    BY <1>1, <2>1, DivBounds
  <2> QED BY <2>2, <2>3 DEF MulExp
<1>9. SeizeTokens(mB, mC, amount) = seized
  BY DEF SeizeTokens, seized, r, x, i, p, d
<1> QED BY <1>8, <1>9 DEF T, p

(***************************************************************************)
(* The steps                                                               *)
(***************************************************************************)
LEMMA TakeFrom ==
  ASSUME NEW S, NEW f \in [S -> Nat], NEW s \in S, NEW n \in Nat, f[s] >= n
  PROVE  /\ [f EXCEPT ![s] = @ - n] \in [S -> Nat]
         /\ \A x \in S : [f EXCEPT ![s] = @ - n][x] > 0 => f[x] > 0
<1>1. f[s] - n \in Nat /\ (f[s] - n > 0 => f[s] > 0)
  OBVIOUS
<1> QED BY <1>1

LEMMA MoveTo ==
  ASSUME NEW S, NEW f \in [S -> Nat], NEW s \in S, NEW t \in S, s # t,
         NEW n \in Nat, NEW k \in Nat, f[s] >= n
  PROVE  [f EXCEPT ![s] = @ - n, ![t] = @ + k] \in [S -> Nat]
<1> DEFINE g == [f EXCEPT ![s] = @ - n]
<1>1. g \in [S -> Nat]
  BY TakeFrom
<1>2. [g EXCEPT ![t] = @ + k] \in [S -> Nat]
  <2> HIDE DEF g
  <2>1. g[t] + k \in Nat
    BY <1>1
  <2> QED BY <1>1, <2>1
<1> QED BY <1>2

LEMMA SameDebtsCount ==
  ASSUME DebtsAreCounted, UNCHANGED accountBorrows,
         accountMembership \subseteq accountMembership'
  PROVE  DebtsAreCounted'
BY DEF DebtsAreCounted, In

LEMMA SameMembersCount ==
  ASSUME DebtsAreCounted, UNCHANGED accountMembership,
         \A s \in Slots : accountBorrows'[s] > 0 => accountBorrows[s] > 0
  PROVE  DebtsAreCounted'
BY DEF DebtsAreCounted, In, Slots

LEMMA CallsKeep ==
  ASSUME IInv, Calls
  PROVE  IInv'
<1> USE DEF IInv
<1>0. PICK m \in Markets, a \in Accounts :
        \/ EnterMarkets(a, m)
        \/ ExitMarket(a, m)
        \/ \E n \in Amounts :
             \/ \E receiver \in Accounts : Mint(m, a, receiver, n)
             \/ Redeem(m, a, n)
             \/ \E dst \in Accounts : Transfer(m, a, dst, n)
             \/ Borrow(m, a, n)
             \/ Repay(m, a, n)
  BY DEF Calls
<1>1. CASE EnterMarkets(a, m)
  <2>1. Activate(m, a) /\ UNCHANGED <<accountTokens, accountBorrows, market, halts>>
    BY <1>1 DEF EnterMarkets
  <2>2. TypeOK'
    BY <2>1, ActivateKeeps DEF TypeOK, market, halts
  <2>3. DebtsAreCounted'
    BY <2>1, ActivateKeeps, SameDebtsCount
  <2> QED BY <2>1, <2>2, <2>3, ActivateKeeps
<1>2. CASE ExitMarket(a, m)
  <2>1. /\ accountBorrows[<<m, a>>] = 0
        /\ UNCHANGED <<accountTokens, accountBorrows, market, halts>>
    BY <1>2 DEF ExitMarket, MayExit
  <2>2. TypeOK'
    BY <1>2, <2>1, ExitKeeps DEF TypeOK, market, halts
  <2>3. DebtsAreCounted'
    <3> SUFFICES ASSUME NEW k \in Markets, NEW b \in Accounts,
                        accountBorrows'[<<k, b>>] > 0
                 PROVE  In(k, b)'
      BY DEF DebtsAreCounted
    <3>1. <<k, b>> # <<m, a>> /\ In(k, b)
      BY <2>1 DEF DebtsAreCounted
    <3> QED BY <3>1, <1>2, ExitKeeps DEF In
  <2> QED BY <1>2, <2>2, <2>3, ExitKeeps
<1>3. ASSUME NEW n \in Amounts, NEW receiver \in Accounts, Mint(m, a, receiver, n)
      PROVE  IInv'
  <2>1. /\ Activate(m, a) /\ UNCHANGED <<accountBorrows, market, halts>>
        /\ accountTokens' = [accountTokens EXCEPT ![<<m, receiver>>] = @ + n]
    BY <1>3 DEF Mint
  <2>2. accountTokens' \in [Slots -> Nat]
    BY <2>1, BoundsAssumption DEF TypeOK, Slots
  <2>3. TypeOK'
    BY <2>1, <2>2, ActivateKeeps DEF TypeOK, market, halts
  <2>4. DebtsAreCounted'
    BY <2>1, ActivateKeeps, SameDebtsCount
  <2> QED BY <2>1, <2>3, <2>4, ActivateKeeps
<1>4. ASSUME NEW n \in Amounts, Redeem(m, a, n)
      PROVE  IInv'
  <2>1. /\ UNCHANGED <<accountMembership, accountAssets, accountBorrows, market, halts>>
        /\ accountTokens[<<m, a>>] >= n
        /\ accountTokens' = [accountTokens EXCEPT ![<<m, a>>] = @ - n]
    BY <1>4 DEF Redeem, Holds
  <2>2. accountTokens' \in [Slots -> Nat]
    <3>1. <<m, a>> \in Slots /\ n \in Nat
      BY BoundsAssumption DEF Slots
    <3> QED BY <2>1, <3>1, TakeFrom DEF TypeOK
  <2>3. TypeOK'
    BY <2>1, <2>2 DEF TypeOK, market, halts
  <2>4. DebtsAreCounted'
    BY <2>1, SameDebtsCount
  <2> QED BY <2>1, <2>3, <2>4, SameAssetsKeep
<1>5. ASSUME NEW n \in Amounts, NEW dst \in Accounts, Transfer(m, a, dst, n)
      PROVE  IInv'
  <2>1. /\ UNCHANGED <<accountMembership, accountAssets, accountBorrows, market, halts>>
        /\ a # dst /\ accountTokens[<<m, a>>] >= n
        /\ accountTokens' = [accountTokens EXCEPT ![<<m, a>>] = @ - n, ![<<m, dst>>] = @ + n]
    BY <1>5 DEF Transfer, Holds
  <2>2. accountTokens' \in [Slots -> Nat]
    <3>1. <<m, a>> \in Slots /\ <<m, dst>> \in Slots /\ <<m, a>> # <<m, dst>> /\ n \in Nat
      BY <2>1, BoundsAssumption DEF Slots
    <3> QED BY <2>1, <3>1, MoveTo DEF TypeOK
  <2>3. TypeOK'
    BY <2>1, <2>2 DEF TypeOK, market, halts
  <2>4. DebtsAreCounted'
    BY <2>1, SameDebtsCount
  <2> QED BY <2>1, <2>3, <2>4, SameAssetsKeep
<1>6. ASSUME NEW n \in Amounts, Borrow(m, a, n)
      PROVE  IInv'
  <2>1. /\ Activate(m, a) /\ UNCHANGED <<accountTokens, market, halts>>
        /\ accountBorrows' = [accountBorrows EXCEPT ![<<m, a>>] = @ + n]
    BY <1>6 DEF Borrow, EntersToBorrow
  <2>2. accountBorrows' \in [Slots -> Nat]
    BY <2>1, BoundsAssumption DEF TypeOK, Slots
  <2>3. TypeOK'
    BY <2>1, <2>2, ActivateKeeps DEF TypeOK, market, halts
  <2>4. DebtsAreCounted'
    <3> SUFFICES ASSUME NEW k \in Markets, NEW b \in Accounts,
                        accountBorrows'[<<k, b>>] > 0
                 PROVE  In(k, b)'
      BY DEF DebtsAreCounted
    <3>1. CASE k = m /\ b = a
      BY <3>1, <2>1, ActivateKeeps
    <3>2. CASE ~(k = m /\ b = a)
      <4>1. accountBorrows'[<<k, b>>] = accountBorrows[<<k, b>>]
        BY <3>2, <2>1 DEF TypeOK, Slots
      <4> QED BY <4>1, <2>1, ActivateKeeps DEF DebtsAreCounted, In
    <3> QED BY <3>1, <3>2
  <2> QED BY <2>1, <2>3, <2>4, ActivateKeeps
<1>7. ASSUME NEW n \in Amounts, Repay(m, a, n)
      PROVE  IInv'
  <2>1. /\ UNCHANGED <<accountMembership, accountAssets, accountTokens, market, halts>>
        /\ accountBorrows[<<m, a>>] >= n
        /\ accountBorrows' = [accountBorrows EXCEPT ![<<m, a>>] = @ - n]
    BY <1>7 DEF Repay
  <2>2. /\ accountBorrows' \in [Slots -> Nat]
        /\ \A s \in Slots : accountBorrows'[s] > 0 => accountBorrows[s] > 0
    <3>1. <<m, a>> \in Slots /\ n \in Nat
      BY BoundsAssumption DEF Slots
    <3> QED BY <2>1, <3>1, TakeFrom DEF TypeOK
  <2>3. TypeOK'
    BY <2>1, <2>2 DEF TypeOK, market, halts
  <2>4. DebtsAreCounted'
    BY <2>1, <2>2, SameMembersCount
  <2> QED BY <2>1, <2>3, <2>4, SameAssetsKeep
<1> QED BY <1>0, <1>1, <1>2, <1>3, <1>4, <1>5, <1>6, <1>7

LEMMA LiquidationsKeep ==
  ASSUME IInv, Liquidations
  PROVE  IInv'
<1> USE DEF IInv
<1>1. PICK mB \in Markets, mC \in Markets, liquidator \in Accounts, borrower \in Accounts,
           amount \in Amounts : Liquidate(mB, mC, liquidator, borrower, amount)
  BY DEF Liquidations
<1> DEFINE seized == SeizeTokens(mB, mC, amount)
           kept == seized - MulExp(SeizeShare, seized)
<1>2. /\ UNCHANGED <<accountMembership, accountAssets, market, halts>>
      /\ accountBorrows[<<mB, borrower>>] >= amount
      /\ accountBorrows' = [accountBorrows EXCEPT ![<<mB, borrower>>] = @ - amount]
      /\ liquidator # borrower
      /\ MulExp(price[mC], exchangeRate[mC]) > 0
      /\ accountTokens[<<mC, borrower>>] >= seized
      /\ accountTokens' = [accountTokens EXCEPT ![<<mC, borrower>>] = @ - seized,
                                                ![<<mC, liquidator>>] = @ + kept]
  BY <1>1 DEF Liquidate, Holds
<1>3. /\ accountBorrows' \in [Slots -> Nat]
      /\ \A s \in Slots : accountBorrows'[s] > 0 => accountBorrows[s] > 0
  <2>1. <<mB, borrower>> \in Slots /\ amount \in Nat
    BY BoundsAssumption DEF Slots
  <2> HIDE DEF seized, kept
  <2> QED BY <1>2, <2>1, TakeFrom DEF TypeOK
<1>4. seized \in Nat
  BY <1>2, SeizeTokensNat, BoundsAssumption
<1>5. kept \in Nat
  <2> HIDE DEF seized
  <2>1. MulExp(SeizeShare, seized) \in 0 .. seized
    BY <1>4, ShareIsPart
  <2> QED BY <1>4, <2>1
<1>6. accountTokens' \in [Slots -> Nat]
  <2> HIDE DEF seized, kept
  <2>1. <<mC, borrower>> \in Slots /\ <<mC, liquidator>> \in Slots
        /\ <<mC, borrower>> # <<mC, liquidator>>
    BY <1>2 DEF Slots
  <2> QED BY <2>1, <1>2, <1>4, <1>5, MoveTo DEF TypeOK
<1>7. TypeOK'
  BY <1>2, <1>3, <1>6 DEF TypeOK, market, halts
<1>8. DebtsAreCounted'
  BY <1>2, <1>3, SameMembersCount
<1> QED BY <1>2, <1>7, <1>8, SameAssetsKeep

LEMMA MarketMovesKeep ==
  ASSUME IInv, MarketMoves
  PROVE  IInv'
<1> USE DEF IInv
<1>0. PICK m \in Markets :
        \/ \E factor \in Factors[m] : SetCollateralFactor(m, factor)
        \/ \E p \in Prices[m] : PriceMoves(m, p)
        \/ \E rate \in Rates[m], grown \in SUBSET Accounts : InterestAccrues(m, rate, grown)
  BY DEF MarketMoves
<1>1. ASSUME NEW factor \in Factors[m], SetCollateralFactor(m, factor)
      PROVE  IInv'
  <2>1. /\ UNCHANGED <<positions, price, exchangeRate, halts>>
        /\ collateralFactor' = [collateralFactor EXCEPT ![m] = factor]
    BY <1>1 DEF SetCollateralFactor
  <2>2. factor \in Nat
    BY ParametersAssumption
  <2>3. TypeOK'
    BY <2>1, <2>2 DEF TypeOK, positions, halts
  <2> QED BY <2>1, <2>3, SameAssetsKeep, SameDebtsCount DEF positions
<1>2. ASSUME NEW p \in Prices[m], PriceMoves(m, p)
      PROVE  IInv'
  <2>1. /\ UNCHANGED <<positions, exchangeRate, collateralFactor, halts>>
        /\ price' = [price EXCEPT ![m] = p]
    BY <1>2 DEF PriceMoves
  <2>2. p \in Nat
    BY ParametersAssumption
  <2>3. TypeOK'
    BY <2>1, <2>2 DEF TypeOK, positions, halts
  <2> QED BY <2>1, <2>3, SameAssetsKeep, SameDebtsCount DEF positions
<1>3. ASSUME NEW rate \in Rates[m], NEW grown \in SUBSET Accounts,
             InterestAccrues(m, rate, grown)
      PROVE  IInv'
  <2> DEFINE owing == {a \in grown : accountBorrows[<<m, a>>] > 0}
  <2>1. /\ UNCHANGED <<accountMembership, accountAssets, accountTokens, price,
                       collateralFactor, halts>>
        /\ exchangeRate' = [exchangeRate EXCEPT ![m] = rate]
        /\ accountBorrows' = [s \in Slots |-> IF s[1] = m /\ s[2] \in owing
                                              THEN accountBorrows[s] + 1
                                              ELSE accountBorrows[s]]
    BY <1>3 DEF InterestAccrues
  <2>2. rate \in Nat \ {0}
    BY ParametersAssumption
  <2>3. ASSUME NEW s \in Slots
        PROVE  accountBorrows'[s] \in Nat /\ (accountBorrows'[s] > 0 => accountBorrows[s] > 0)
    <3>1. accountBorrows[s] \in Nat /\ s = <<s[1], s[2]>>
      BY DEF TypeOK, Slots
    <3>2. CASE s[1] = m /\ s[2] \in owing
      <4>1. accountBorrows[s] > 0
        BY <3>1, <3>2
      <4> QED BY <4>1, <3>1, <3>2, <2>1
    <3>3. CASE ~(s[1] = m /\ s[2] \in owing)
      BY <3>1, <3>3, <2>1
    <3> QED BY <3>2, <3>3
  <2>4. accountBorrows' \in [Slots -> Nat]
    BY <2>1, <2>3
  <2>5. TypeOK'
    BY <2>1, <2>2, <2>4 DEF TypeOK, halts
  <2> QED BY <2>1, <2>3, <2>5, SameAssetsKeep, SameMembersCount
<1> QED BY <1>0, <1>1, <1>2, <1>3

LEMMA HaltsKeep ==
  ASSUME IInv, Halts
  PROVE  IInv'
<1> USE DEF IInv
<1>1. UNCHANGED <<positions, price, exchangeRate>>
  BY DEF Halts, SupportMarket, SetPaused, SetReserveFactor, market
<1>2. listed' \subseteq Markets /\ collateralFactor' \in [Markets -> Nat]
  BY DEF Halts, SupportMarket, SetPaused, SetReserveFactor, market, TypeOK
<1>3. TypeOK'
  BY <1>1, <1>2 DEF TypeOK, positions
<1> QED BY <1>1, <1>3, SameAssetsKeep, SameDebtsCount DEF positions

LEMMA NextIInv == IInv /\ [Next]_vars => IInv'
<1> SUFFICES ASSUME IInv, [Next]_vars PROVE IInv'
  OBVIOUS
<1>1. CASE UNCHANGED vars
  <2>1. UNCHANGED <<positions, market, halts>>
    BY <1>1 DEF vars
  <2>2. TypeOK'
    BY <2>1 DEF IInv, TypeOK, positions, market, halts
  <2> QED BY <2>1, <2>2, SameAssetsKeep, SameDebtsCount DEF IInv, positions
<1> QED BY <1>1, CallsKeep, LiquidationsKeep, MarketMovesKeep, HaltsKeep DEF Next

LEMMA InvariantHolds == Spec => []IInv
BY InitIInv, NextIInv, PTL DEF Spec

(***************************************************************************)
(* What calls and liquidations do to the shortfall                         *)
(***************************************************************************)

\* Accounts whose positions a step leaves alone.
LEMMA NotConcerned ==
  ASSUME IInv, IInv', UNCHANGED market, NEW x \in Accounts,
         \A m \in Markets : In(m, x) => In(m, x)',
         \A m \in Markets : accountTokens'[<<m, x>>] = accountTokens[<<m, x>>],
         \A m \in Markets : accountBorrows'[<<m, x>>] = accountBorrows[<<m, x>>]
  PROVE  Shortfall(x)' <= Shortfall(x)
<1>1. ASSUME NEW m \in Markets
      PROVE  accountTokens[<<m, x>>] \in Nat /\ accountBorrows[<<m, x>>] \in Nat
  BY DEF IInv, TypeOK, Slots
<1> QED BY <1>1, NoShorter

LEMMA CallsLeaveDust ==
  ASSUME IInv, IInv', Calls, NEW x \in Accounts
  PROVE  Shortfall(x)' <= 1 \/ Shortfall(x)' <= Shortfall(x)
<1> DEFINE Goal == Shortfall(x)' <= 1 \/ Shortfall(x)' <= Shortfall(x)
<1>0. PICK m \in Markets, a \in Accounts :
        \/ EnterMarkets(a, m)
        \/ ExitMarket(a, m)
        \/ \E n \in Amounts :
             \/ \E receiver \in Accounts : Mint(m, a, receiver, n)
             \/ Redeem(m, a, n)
             \/ \E dst \in Accounts : Transfer(m, a, dst, n)
             \/ Borrow(m, a, n)
             \/ Repay(m, a, n)
  BY DEF Calls
<1>t. /\ accountTokens \in [Slots -> Nat] /\ accountBorrows \in [Slots -> Nat]
      /\ \A k \in Markets : <<k, x>> \in Slots /\ accountTokens[<<k, x>>] \in Nat
                            /\ accountBorrows[<<k, x>>] \in Nat
  BY DEF IInv, TypeOK, Slots
<1>n. Amounts \subseteq Nat
  BY BoundsAssumption
<1>1. CASE EnterMarkets(a, m)
  <2>1. /\ UNCHANGED market /\ UNCHANGED <<accountTokens, accountBorrows>>
        /\ accountMembership \subseteq accountMembership'
    BY <1>1 DEF EnterMarkets, Activate
  <2> QED BY <2>1, NotConcerned DEF In
<1>2. CASE ExitMarket(a, m)
  <2>1. CASE x = a
    BY <1>2, <2>1, ExitLeavesLiquid
  <2>2. CASE x # a
    <3>1. /\ UNCHANGED market /\ UNCHANGED <<accountTokens, accountBorrows>>
          /\ accountMembership' = accountMembership \ {<<m, a>>}
      BY <1>2 DEF ExitMarket
    <3> QED BY <2>2, <3>1, NotConcerned DEF In
  <2> QED BY <2>1, <2>2
<1>3. ASSUME NEW n \in Amounts, NEW receiver \in Accounts, Mint(m, a, receiver, n)
      PROVE  Goal
  <2>1. /\ UNCHANGED market /\ UNCHANGED accountBorrows
        /\ accountMembership \subseteq accountMembership'
        /\ accountTokens' = [accountTokens EXCEPT ![<<m, receiver>>] = @ + n]
    BY <1>3 DEF Mint, Activate
  <2>2. ASSUME NEW k \in Markets PROVE accountTokens[<<k, x>>] <= accountTokens'[<<k, x>>]
    BY <2>1, <1>t, <1>n
  <2>3. ASSUME NEW k \in Markets PROVE accountBorrows'[<<k, x>>] <= accountBorrows[<<k, x>>]
    BY <2>1, <1>t
  <2> QED BY <2>1, <2>2, <2>3, NoShorter DEF In
<1>4. ASSUME NEW n \in Amounts, Redeem(m, a, n)
      PROVE  Goal
  <2>1. /\ UNCHANGED market
        /\ UNCHANGED <<accountMembership, accountAssets, accountBorrows>>
        /\ BeforeRedeem(m, a, n) /\ accountTokens[<<m, a>>] >= n
        /\ accountTokens' = [accountTokens EXCEPT ![<<m, a>>] = @ - n]
    BY <1>4 DEF Redeem, Holds
  <2>2. CASE x = a
    <3>1. /\ accountTokens[<<m, x>>] = accountTokens'[<<m, x>>] + n
          /\ \A k \in Markets : k # m => accountTokens'[<<k, x>>] = accountTokens[<<k, x>>]
      BY <2>1, <2>2, <1>t, <1>n
    <3> QED BY <2>1, <2>2, <3>1, <1>n, GivesTokens
  <2>3. CASE x # a
    <3>1. \A k \in Markets : accountTokens'[<<k, x>>] = accountTokens[<<k, x>>]
      BY <2>1, <2>3, <1>t
    <3> QED BY <2>1, <3>1, NotConcerned DEF In
  <2> QED BY <2>2, <2>3
<1>5. ASSUME NEW n \in Amounts, NEW dst \in Accounts, Transfer(m, a, dst, n)
      PROVE  Goal
  <2>1. /\ UNCHANGED market /\ a # dst
        /\ UNCHANGED <<accountMembership, accountAssets, accountBorrows>>
        /\ BeforeRedeem(m, a, n) /\ accountTokens[<<m, a>>] >= n
        /\ accountTokens' = [accountTokens EXCEPT ![<<m, a>>] = @ - n, ![<<m, dst>>] = @ + n]
    BY <1>5 DEF Transfer, Holds
  <2>2. CASE x = a
    <3>1. /\ accountTokens[<<m, x>>] = accountTokens'[<<m, x>>] + n
          /\ \A k \in Markets : k # m => accountTokens'[<<k, x>>] = accountTokens[<<k, x>>]
      BY <2>1, <2>2, <1>t, <1>n
    <3> QED BY <2>1, <2>2, <3>1, <1>n, GivesTokens
  <2>3. CASE x # a
    <3>1. ASSUME NEW k \in Markets PROVE accountTokens[<<k, x>>] <= accountTokens'[<<k, x>>]
      BY <2>1, <2>3, <1>t, <1>n
    <3>2. ASSUME NEW k \in Markets PROVE accountBorrows'[<<k, x>>] <= accountBorrows[<<k, x>>]
      BY <2>1, <1>t
    <3> QED BY <2>1, <3>1, <3>2, NoShorter DEF In
  <2> QED BY <2>2, <2>3
<1>6. ASSUME NEW n \in Amounts, Borrow(m, a, n)
      PROVE  Goal
  <2>1. CASE x = a
    BY <1>6, <1>n, <2>1, BorrowLeavesDust
  <2>2. CASE x # a
    <3>1. /\ UNCHANGED market /\ UNCHANGED accountTokens
          /\ accountMembership \subseteq accountMembership'
          /\ accountBorrows' = [accountBorrows EXCEPT ![<<m, a>>] = @ + n]
      BY <1>6 DEF Borrow, EntersToBorrow, Activate
    <3>2. \A k \in Markets : accountBorrows'[<<k, x>>] = accountBorrows[<<k, x>>]
      BY <2>2, <3>1, <1>t
    <3> QED BY <3>1, <3>2, NotConcerned DEF In
  <2> QED BY <2>1, <2>2
<1>7. ASSUME NEW n \in Amounts, Repay(m, a, n)
      PROVE  Goal
  <2>1. /\ UNCHANGED market /\ UNCHANGED <<accountMembership, accountTokens>>
        /\ accountBorrows[<<m, a>>] >= n
        /\ accountBorrows' = [accountBorrows EXCEPT ![<<m, a>>] = @ - n]
    BY <1>7 DEF Repay
  <2>2. ASSUME NEW k \in Markets PROVE accountBorrows'[<<k, x>>] <= accountBorrows[<<k, x>>]
    BY <2>1, <1>t, <1>n
  <2>3. ASSUME NEW k \in Markets PROVE accountTokens[<<k, x>>] <= accountTokens'[<<k, x>>]
    BY <2>1, <1>t
  <2> QED BY <2>1, <2>2, <2>3, NoShorter DEF In
<1> HIDE DEF Goal
<1>8. Goal
  BY <1>0, <1>1, <1>2, <1>3, <1>4, <1>5, <1>6, <1>7 DEF Goal
<1> QED BY <1>8 DEF Goal

\* The borrower of a liquidation: debt repaid in mB, collateral taken in mC.
LEMMA BorrowerIsHelped ==
  ASSUME IInv, IInv', IncentiveCovered, UNCHANGED market,
         UNCHANGED <<accountMembership, accountAssets>>,
         NEW x \in Accounts, NEW mB \in Markets, NEW mC \in Markets, NEW amount \in Nat \ {0},
         MulExp(price[mC], exchangeRate[mC]) > 0,
         NEW seized, seized = SeizeTokens(mB, mC, amount),
         accountBorrows[<<mB, x>>] = accountBorrows'[<<mB, x>>] + amount,
         \A k \in Markets : k # mB => accountBorrows'[<<k, x>>] = accountBorrows[<<k, x>>],
         accountTokens[<<mC, x>>] = accountTokens'[<<mC, x>>] + seized,
         \A k \in Markets : k # mC => accountTokens'[<<k, x>>] = accountTokens[<<k, x>>]
  PROVE  Shortfall(x)' <= Shortfall(x) + 1
<1> DEFINE T == TokensToDenom(mC)
           p == price[mB]
           worth == MulExp(p, amount)
<1>1. Counts(x) /\ Counts(x)'
  BY Counting, CountingNext DEF AllCount
<1>2. Assets(x)' = Assets(x) /\ IsFiniteSet(Assets(x)) /\ Assets(x) \subseteq Markets
  BY <1>1 DEF Counts, Assets
<1>3. /\ T \in Nat /\ p \in Nat /\ seized \in Nat /\ worth \in Nat
      /\ \A k \in Markets : /\ accountTokens[<<k, x>>] \in Nat /\ accountTokens'[<<k, x>>] \in Nat
                            /\ accountBorrows[<<k, x>>] \in Nat /\ accountBorrows'[<<k, x>>] \in Nat
  <2>1. T \in Nat /\ p \in Nat
    BY WorthNat DEF IInv
  <2>2. seized \in Nat
    BY SeizeTokensNat DEF IInv
  <2>3. worth \in Nat
    BY <2>1, MulExpNat
  <2> QED BY <2>1, <2>2, <2>3 DEF IInv, TypeOK, Slots
<1>4. MulExp(T, seized) <= worth
  BY SeizeIsCovered DEF IInv
<1>5. mB \in Assets(x)
  BY <1>1, <1>3 DEF Counts, IInv, DebtsAreCounted
<1>6. Owed(x)' <= Owed(x) - worth
  <2> DEFINE new == accountBorrows'[<<mB, x>>]
  <2>1. DebtOf(x)[mB] = MulExp(p, new + amount) /\ DebtOf(x)'[mB] = MulExp(p, new)
    BY WorthNext DEF DebtOf
  <2>2. ASSUME NEW k \in Markets, k # mB PROVE DebtOf(x)'[k] = DebtOf(x)[k]
    BY <2>2, WorthNext DEF DebtOf
  <2>3. /\ \A k \in Assets(x) : DebtOf(x)[k] \in Int /\ DebtOf(x)'[mB] \in Int
        /\ \A k \in Assets(x) : k # mB => DebtOf(x)'[k] = DebtOf(x)[k]
    BY <1>1, <1>2, <2>2 DEF Counts
  <2>4. SumFunctionOnSet(DebtOf(x)', Assets(x)) = Owed(x) - DebtOf(x)[mB] + DebtOf(x)'[mB]
    BY <1>2, <1>5, <2>3, SumChangeOne DEF Owed
  <2>5. Owed(x)' = Owed(x) - DebtOf(x)[mB] + DebtOf(x)'[mB]
    BY <1>2, <2>4 DEF Owed
  <2>6. /\ MulExp(p, new) + MulExp(p, amount) <= MulExp(p, new + amount)
        /\ MulExp(p, new) \in Nat /\ MulExp(p, new + amount) \in Nat
    <3>1. new \in Nat /\ amount \in Nat /\ new + amount \in Nat
      BY <1>3
    <3> QED BY <1>3, <3>1, MulExpSum, MulExpNat
  <2>7. Owed(x) \in Nat
    BY <1>1 DEF Counts
  <2> HIDE DEF new, p
  <2> QED BY <1>3, <2>1, <2>5, <2>6, <2>7
<1>7. Lent(x) - worth - 1 <= Lent(x)'
  <2> DEFINE new == accountTokens'[<<mC, x>>]
  <2>1. ColOf(x)[mC] = MulExp(T, new + seized) /\ ColOf(x)'[mC] = MulExp(T, new)
    BY WorthNext DEF ColOf
  <2>2. ASSUME NEW k \in Markets, k # mC PROVE ColOf(x)'[k] = ColOf(x)[k]
    BY <2>2, WorthNext DEF ColOf
  <2>3. Lent(x) \in Nat
    BY <1>1 DEF Counts
  <2>4. CASE mC \in Assets(x)
    <3>1. /\ \A k \in Assets(x) : ColOf(x)[k] \in Int /\ ColOf(x)'[mC] \in Int
          /\ \A k \in Assets(x) : k # mC => ColOf(x)'[k] = ColOf(x)[k]
      BY <1>1, <1>2, <2>2 DEF Counts
    <3>2. SumFunctionOnSet(ColOf(x)', Assets(x)) = Lent(x) - ColOf(x)[mC] + ColOf(x)'[mC]
      BY <1>2, <2>4, <3>1, SumChangeOne DEF Lent
    <3>3. Lent(x)' = Lent(x) - ColOf(x)[mC] + ColOf(x)'[mC]
      BY <1>2, <3>2 DEF Lent
    <3>4. /\ MulExp(T, new + seized) <= MulExp(T, new) + MulExp(T, seized) + 1
          /\ MulExp(T, new) \in Nat /\ MulExp(T, new + seized) \in Nat /\ MulExp(T, seized) \in Nat
      <4>1. new \in Nat /\ new + seized \in Nat
        BY <1>3
      <4> QED BY <1>3, <4>1, MulExpSum, MulExpNat
    <3> HIDE DEF new, T, worth
    <3> QED BY <1>3, <1>4, <2>1, <2>3, <3>3, <3>4
  <2>5. CASE mC \notin Assets(x)
    <3>1. \A k \in Assets(x) : ColOf(x)[k] \in Int /\ ColOf(x)[k] = ColOf(x)'[k]
      BY <1>1, <1>2, <2>2, <2>5 DEF Counts
    <3>2. SumFunctionOnSet(ColOf(x), Assets(x)) = SumFunctionOnSet(ColOf(x)', Assets(x))
      BY <1>2, <3>1, SumCongruence
    <3>3. Lent(x)' = Lent(x)
      BY <1>2, <3>2 DEF Lent
    <3> HIDE DEF worth
    <3> QED BY <1>3, <2>3, <3>3
  <2> QED BY <2>4, <2>5
<1> HIDE DEF T, p, worth
<1>8. /\ Lent(x) \in Nat /\ Owed(x) \in Nat /\ Lent(x)' \in Nat /\ Owed(x)' \in Nat
      /\ Shortfall(x) = IF Owed(x) > Lent(x) THEN Owed(x) - Lent(x) ELSE 0
      /\ Shortfall(x)' = IF Owed(x)' > Lent(x)' THEN Owed(x)' - Lent(x)' ELSE 0
  BY <1>1 DEF Counts
<1> QED BY <1>3, <1>6, <1>7, <1>8

LEMMA LiquidationsHelpAll ==
  ASSUME IInv, IInv', IncentiveCovered, Liquidations, NEW x \in Accounts
  PROVE  Shortfall(x)' <= Shortfall(x) + 1
<1>1. PICK mB \in Markets, mC \in Markets, liquidator \in Accounts, borrower \in Accounts,
           amount \in Amounts : Liquidate(mB, mC, liquidator, borrower, amount)
  BY DEF Liquidations
<1> DEFINE seized == SeizeTokens(mB, mC, amount)
           kept == seized - MulExp(SeizeShare, seized)
<1>2. /\ UNCHANGED <<accountMembership, accountAssets, market>>
      /\ accountBorrows[<<mB, borrower>>] >= amount /\ amount > 0
      /\ accountBorrows' = [accountBorrows EXCEPT ![<<mB, borrower>>] = @ - amount]
      /\ liquidator # borrower
      /\ MulExp(price[mC], exchangeRate[mC]) > 0
      /\ accountTokens[<<mC, borrower>>] >= seized
      /\ accountTokens' = [accountTokens EXCEPT ![<<mC, borrower>>] = @ - seized,
                                                ![<<mC, liquidator>>] = @ + kept]
  BY <1>1 DEF Liquidate, Holds
<1>3. amount \in Nat \ {0} /\ seized \in Nat /\ kept \in Nat
  <2>1. amount \in Nat \ {0}
    BY <1>2, BoundsAssumption
  <2>2. seized \in Nat
    BY <1>2, <2>1, SeizeTokensNat DEF IInv
  <2> HIDE DEF seized
  <2>3. MulExp(SeizeShare, seized) \in 0 .. seized
    BY <2>2, ShareIsPart
  <2> QED BY <2>1, <2>2, <2>3
<1>4. /\ accountTokens \in [Slots -> Nat] /\ accountBorrows \in [Slots -> Nat]
      /\ \A k \in Markets : <<k, x>> \in Slots /\ accountTokens[<<k, x>>] \in Nat
                            /\ accountBorrows[<<k, x>>] \in Nat
  BY DEF IInv, TypeOK, Slots
<1>5. Shortfall(x) \in Int /\ Shortfall(x)' \in Int
  BY Counting, CountingNext DEF AllCount, Counts
<1>6. CASE x = borrower
  <2>0. seized = SeizeTokens(mB, mC, amount)
    OBVIOUS
  <2> HIDE DEF seized, kept
  <2>1. /\ accountBorrows[<<mB, x>>] = accountBorrows'[<<mB, x>>] + amount
        /\ \A k \in Markets : k # mB => accountBorrows'[<<k, x>>] = accountBorrows[<<k, x>>]
    BY <1>2, <1>3, <1>4, <1>6
  <2>2. /\ accountTokens[<<mC, x>>] = accountTokens'[<<mC, x>>] + seized
        /\ \A k \in Markets : k # mC => accountTokens'[<<k, x>>] = accountTokens[<<k, x>>]
    BY <1>2, <1>3, <1>4, <1>6
  <2>3. UNCHANGED market /\ UNCHANGED <<accountMembership, accountAssets>>
    BY <1>2
  <2>4. MulExp(price[mC], exchangeRate[mC]) > 0 /\ amount \in Nat \ {0}
    BY <1>2, <1>3
  <2> QED BY <2>0, <2>1, <2>2, <2>3, <2>4, BorrowerIsHelped
<1>7. CASE x # borrower
  <2> HIDE DEF seized, kept
  <2>1. ASSUME NEW k \in Markets PROVE accountTokens[<<k, x>>] <= accountTokens'[<<k, x>>]
    BY <1>2, <1>3, <1>4, <1>7
  <2>2. ASSUME NEW k \in Markets PROVE accountBorrows'[<<k, x>>] <= accountBorrows[<<k, x>>]
    BY <1>2, <1>4, <1>7
  <2>3. Shortfall(x)' <= Shortfall(x)
    BY <1>2, <2>1, <2>2, NoShorter DEF In
  <2> QED BY <1>5, <2>3
<1> QED BY <1>6, <1>7

(***************************************************************************)
(* The theorems                                                            *)
(***************************************************************************)

\* Every balance and debt stays a natural number whatever the calls, so no
\* subtraction of mToken.sol on them underflows past its guard; a liquidation
\* takes a natural number of mTokens and leaves one to the liquidator.
THEOREM RiskTypeCorrect == Spec => []TypeOK
<1>1. IInv => TypeOK
  BY DEF IInv
<1> QED BY <1>1, InvariantHolds, PTL

\* The list of an account's markets and the membership flags of
\* _activateMarket and exitMarket agree, and no market is listed twice.
THEOREM ListsAgree == Spec => []AssetsMatchMembership
<1>1. IInv => AssetsMatchMembership
  BY DEF IInv
<1> QED BY <1>1, InvariantHolds, PTL

\* Whoever owes in a market is in it: a debt never leaves the sight of
\* _getHypotheticalAccountLiquidity.
THEOREM DebtsStayCounted == Spec => []DebtsAreCounted
<1>1. IInv => DebtsAreCounted
  BY DEF IInv
<1> QED BY <1>1, InvariantHolds, PTL

\* No call of an account, of the owner of mTokens or of anyone for it, leaves
\* an account short by more than the unit that truncation hides from
\* _getHypotheticalAccountLiquidity: each position is truncated once before
\* and once after, and the sums differ from the check by one unit at most.
THEOREM CallsLeaveDustOnly == Spec => CallsLeaveAtMostDust
<1>1. ASSUME IInv, IInv', [Next]_vars
      PROVE  [(\E a \in Accounts : Shortfall(a)' > 1 /\ Shortfall(a)' > Shortfall(a))
                => ~Calls]_vars
  <2> SUFFICES ASSUME Calls, NEW a \in Accounts,
                      Shortfall(a)' > 1, Shortfall(a)' > Shortfall(a)
               PROVE  FALSE
    OBVIOUS
  <2>1. Shortfall(a)' <= 1 \/ Shortfall(a)' <= Shortfall(a)
    BY <1>1, CallsLeaveDust
  <2>2. Shortfall(a) \in Int /\ Shortfall(a)' \in Int
    BY <1>1, Counting, CountingNext DEF AllCount, Counts
  <2> QED BY <2>1, <2>2
<1> QED BY <1>1, InvariantHolds, PTL DEF Spec, CallsLeaveAtMostDust

\* A liquidation, of a deprecated market's debt too, takes collateral that
\* liquidateCalculateSeizeTokens prices at no less than the liquidity sums
\* count it, as long as the incentive is covered: no account is left shorter
\* by more than a unit.
THEOREM LiquidationsHelpBorrowers == Spec => LiquidationsHelp
<1>1. ASSUME IInv, IInv', [Next]_vars
      PROVE  [(\E a \in Accounts : Shortfall(a)' > Shortfall(a) + 1) /\ IncentiveCovered
                => ~Liquidations]_vars
  <2> SUFFICES ASSUME Liquidations, IncentiveCovered, NEW a \in Accounts,
                      Shortfall(a)' > Shortfall(a) + 1
               PROVE  FALSE
    OBVIOUS
  <2>1. Shortfall(a)' <= Shortfall(a) + 1
    BY <1>1, LiquidationsHelpAll
  <2>2. Shortfall(a) \in Int /\ Shortfall(a)' \in Int
    BY <1>1, Counting, CountingNext DEF AllCount, Counts
  <2> QED BY <2>1, <2>2
<1> QED BY <1>1, InvariantHolds, PTL DEF Spec, LiquidationsHelp
=============================================================================
