------------------------ MODULE OutflowLimit_proofs -------------------------
(***************************************************************************)
(* Theorems about OutflowLimit, for every set of markets, amounts, prices, *)
(* limits and windows.                                                     *)
(*                                                                         *)
(* The counter is cleared by a renewal, more than a window after the last  *)
(* one, and by the owner.  What passes between two clearings is at most    *)
(* the limit at the last call between them, so a set of calls is covered   *)
(* by as many limits as clearings separate them, and one more.  RecentKept *)
(* says this of the calls since a moment, told apart by whether the        *)
(* current window started before it; PastKept says it of every interval as *)
(* long as the shortest window.                                            *)
(***************************************************************************)
EXTENDS OutflowLimit, FiniteSums, TLAPS

-----------------------------------------------------------------------------
(* What a log of calls adds up to.                                          *)
Call == [usd : Nat, at : Nat, limit : Nat]

UsdOf(log) == [k \in DOMAIN log |-> log[k].usd]

Moved(log, S) == SumFunctionOnSet(UsdOf(log), S)

Since(log, a) == {k \in DOMAIN log : log[k].at >= a}

Inside(log, a, b) == {k \in DOMAIN log : log[k].at \in a .. b}

LEMMA LogTypes ==
    ASSUME NEW log \in Seq(Call)
    PROVE  /\ \A k \in DOMAIN log : /\ log[k].usd \in Nat /\ UsdOf(log)[k] = log[k].usd
                                    /\ log[k].at \in Nat /\ log[k].limit \in Nat
           /\ \A S \in SUBSET DOMAIN log : IsFiniteSet(S) /\ Moved(log, S) \in Nat
<1>1. IsFiniteSet(DOMAIN log)
  <2>1. DOMAIN log = 1 .. Len(log) /\ Len(log) \in Nat
    OBVIOUS
  <2> QED BY <2>1, FS_Interval
<1>2. ASSUME NEW k \in DOMAIN log
      PROVE  /\ log[k].usd \in Nat /\ UsdOf(log)[k] = log[k].usd
             /\ log[k].at \in Nat /\ log[k].limit \in Nat
  <2>1. log[k] \in Call
    OBVIOUS
  <2> QED BY <2>1 DEF Call, UsdOf
<1>3. ASSUME NEW S \in SUBSET DOMAIN log PROVE IsFiniteSet(S) /\ Moved(log, S) \in Nat
  <2>1. IsFiniteSet(S)
    BY <1>1, FS_Subset
  <2>2. \A k \in S : UsdOf(log)[k] \in Nat
    BY <1>2
  <2> QED BY <2>1, <2>2, SumNat DEF Moved
<1> QED BY <1>2, <1>3

\* A call more leaves what passed before it, and adds its value.
LEMMA MovedAppend ==
    ASSUME NEW log \in Seq(Call), NEW call \in Call, NEW S \in SUBSET DOMAIN log
    PROVE  /\ Moved(Append(log, call), S) = Moved(log, S)
           /\ Moved(Append(log, call), S \cup {Len(log) + 1}) = Moved(log, S) + call.usd
<1> DEFINE longer == Append(log, call)
           n == Len(log) + 1
<1>1. /\ longer \in Seq(Call) /\ n \in DOMAIN longer /\ longer[n] = call
      /\ \A k \in DOMAIN log : k \in DOMAIN longer /\ longer[k] = log[k] /\ k # n
  OBVIOUS
<1> HIDE DEF longer, n
<1>2. Moved(longer, S) = Moved(log, S)
  <2>1. IsFiniteSet(S) /\ \A k \in S : UsdOf(longer)[k] \in Int
    BY <1>1, LogTypes
  <2>2. \A k \in S : UsdOf(longer)[k] = UsdOf(log)[k]
    BY <1>1 DEF UsdOf
  <2> QED BY <2>1, <2>2, SumCongruence DEF Moved
<1>3. Moved(longer, S \cup {n}) = Moved(longer, S) + call.usd
  <2>1. S \cup {n} \in SUBSET DOMAIN longer /\ (S \cup {n}) \ {n} = S /\ S \in SUBSET DOMAIN longer
    BY <1>1
  <2>2. IsFiniteSet(S \cup {n}) /\ \A k \in S \cup {n} : UsdOf(longer)[k] \in Int
    BY <1>1, <2>1, LogTypes
  <2>3. Moved(longer, S \cup {n}) = UsdOf(longer)[n] + Moved(longer, S)
    BY <2>1, <2>2, SumRemove DEF Moved
  <2>4. UsdOf(longer)[n] = call.usd /\ call.usd \in Nat
    BY <1>1 DEF UsdOf, Call
  <2>5. Moved(longer, S) \in Nat
    BY <1>1, <2>1, LogTypes
  <2> QED BY <2>3, <2>4, <2>5
<1> QED BY <1>2, <1>3 DEF longer, n

LEMMA SetsAppend ==
    ASSUME NEW log \in Seq(Call), NEW call \in Call, NEW a \in Nat, NEW b \in Nat
    PROVE  /\ Since(log, a) \in SUBSET DOMAIN log /\ Inside(log, a, b) \in SUBSET DOMAIN log
           /\ Since(Append(log, call), a) =
                IF call.at >= a THEN Since(log, a) \cup {Len(log) + 1} ELSE Since(log, a)
           /\ Inside(Append(log, call), a, b) =
                IF call.at \in a .. b THEN Inside(log, a, b) \cup {Len(log) + 1}
                                      ELSE Inside(log, a, b)
<1> DEFINE longer == Append(log, call)
           n == Len(log) + 1
<1>1. /\ DOMAIN longer = DOMAIN log \cup {n} /\ longer[n] = call
      /\ \A k \in DOMAIN log : longer[k] = log[k] /\ k # n
  OBVIOUS
<1> HIDE DEF longer, n
<1> QED BY <1>1 DEF Since, Inside, longer, n

-----------------------------------------------------------------------------
(* Calls covered by limits.                                                 *)

Bounds(M, log, S) == \A k \in S : log[k].limit <= M

\* n limits' worth at most.
Covered(log, S, n) == \A M \in Nat : Bounds(M, log, S) => Moved(log, S) <= n * M

\* n limits' worth before the last clearing, and what was counted since; and one
\* limit more covers that.
Kept(log, S, n, counted) ==
    /\ \A M \in Nat : Bounds(M, log, S) => Moved(log, S) <= n * M + counted
    /\ Covered(log, S, n + 1)

LEMMA Product == \A n \in Nat, M \in Nat : n * M \in Nat /\ (n + 1) * M = n * M + M
  BY Z3

\* More limits cover more.
LEMMA CoveredByMore ==
    ASSUME NEW log \in Seq(Call), NEW S \in SUBSET DOMAIN log,
           NEW n \in Nat, NEW m \in Nat, n <= m, Covered(log, S, n)
    PROVE  Covered(log, S, m)
<1> SUFFICES ASSUME NEW M \in Nat, Bounds(M, log, S) PROVE Moved(log, S) <= m * M
  BY DEF Covered
<1>1. Moved(log, S) <= n * M /\ Moved(log, S) \in Nat
  BY LogTypes DEF Covered
<1>2. n * M <= m * M /\ n * M \in Nat /\ m * M \in Nat
  BY Z3
<1> QED BY <1>1, <1>2

\* No call needs no limit.
LEMMA NothingKept ==
    ASSUME NEW log \in Seq(Call), NEW n \in Nat, NEW counted \in Nat
    PROVE  Kept(log, {}, n, counted) /\ Covered(log, {}, n)
<1>1. Moved(log, {}) = 0
  BY SumEmpty DEF Moved
<1>2. \A m \in Nat : Covered(log, {}, m)
  BY <1>1, Product DEF Covered
<1>3. \A M \in Nat : Moved(log, {}) <= n * M + counted
  BY <1>1, Product
<1>4. n + 1 \in Nat
  OBVIOUS
<1> QED BY <1>2, <1>3, <1>4 DEF Kept

LEMMA StillBounds ==
    ASSUME NEW log \in Seq(Call), NEW call \in Call, NEW S \in SUBSET DOMAIN log, NEW M \in Nat
    PROVE  /\ Bounds(M, Append(log, call), S) <=> Bounds(M, log, S)
           /\ Bounds(M, Append(log, call), S \cup {Len(log) + 1})
                <=> Bounds(M, log, S) /\ call.limit <= M
<1>1. /\ \A k \in S : Append(log, call)[k] = log[k]
      /\ Append(log, call)[Len(log) + 1] = call
  OBVIOUS
<1> QED BY <1>1 DEF Bounds

\* Calls outside of the set change nothing.
LEMMA OutsideKept ==
    ASSUME NEW log \in Seq(Call), NEW call \in Call, NEW S \in SUBSET DOMAIN log, NEW n \in Nat,
           Covered(log, S, n)
    PROVE  Covered(Append(log, call), S, n)
BY MovedAppend, StillBounds DEF Covered

\* A call in the current window.
LEMMA CallKept ==
    ASSUME NEW log \in Seq(Call), NEW call \in Call, NEW S \in SUBSET DOMAIN log, NEW n \in Nat,
           NEW counted \in Nat, Kept(log, S, n, counted), counted + call.usd <= call.limit
    PROVE  Kept(Append(log, call), S \cup {Len(log) + 1}, n, counted + call.usd)
<1> DEFINE longer == Append(log, call)
           T == S \cup {Len(log) + 1}
<1>1. ASSUME NEW M \in Nat, Bounds(M, longer, T)
      PROVE  /\ Moved(longer, T) <= n * M + (counted + call.usd)
             /\ Moved(longer, T) <= (n + 1) * M
  <2>1. Moved(longer, T) = Moved(log, S) + call.usd
    BY MovedAppend
  <2>2. Bounds(M, log, S) /\ call.limit <= M
    BY <1>1, StillBounds
  <2>3. Moved(log, S) <= n * M + counted
    BY <2>2 DEF Kept
  <2>4. Moved(log, S) \in Nat /\ call.usd \in Nat /\ call.limit \in Nat
    BY LogTypes DEF Call
  <2>5. n * M \in Nat /\ (n + 1) * M = n * M + M
    BY Product
  <2> HIDE DEF longer, T
  <2> QED BY <2>1, <2>2, <2>3, <2>4, <2>5
<1> QED BY <1>1 DEF Kept, Covered

\* A call that renews the window: what was counted is closed.
LEMMA RenewalKept ==
    ASSUME NEW log \in Seq(Call), NEW call \in Call, NEW S \in SUBSET DOMAIN log, NEW n \in Nat,
           NEW counted \in Nat, Kept(log, S, n, counted), call.usd <= call.limit
    PROVE  Kept(Append(log, call), S \cup {Len(log) + 1}, n + 1, call.usd)
<1>1. ASSUME NEW M \in Nat, Bounds(M, log, S) PROVE Moved(log, S) <= (n + 1) * M + 0
  <2>1. Moved(log, S) <= (n + 1) * M
    BY <1>1 DEF Kept, Covered
  <2>2. (n + 1) * M \in Nat
    BY Product
  <2> QED BY <2>1, <2>2
<1>2. n + 1 \in Nat /\ n + 1 + 1 \in Nat /\ n + 1 <= n + 1 + 1 /\ Covered(log, S, n + 1)
  BY DEF Kept
<1>3. Covered(log, S, n + 1 + 1)
  BY <1>2, CoveredByMore
<1>4. Kept(log, S, n + 1, 0)
  BY <1>1, <1>3 DEF Kept
<1>5. 0 + call.usd = call.usd
  BY DEF Call
<1> QED BY <1>2, <1>4, <1>5, CallKept

\* The owner clears the counter.
LEMMA ResetKept ==
    ASSUME NEW log \in Seq(Call), NEW S \in SUBSET DOMAIN log, NEW n \in Nat,
           NEW counted \in Nat, Kept(log, S, n, counted)
    PROVE  Kept(log, S, n + 1, 0)
<1>1. ASSUME NEW M \in Nat, Bounds(M, log, S) PROVE Moved(log, S) <= (n + 1) * M + 0
  <2>1. Moved(log, S) <= (n + 1) * M
    BY <1>1 DEF Kept, Covered
  <2>2. (n + 1) * M \in Nat
    BY Product
  <2> QED BY <2>1, <2>2
<1>2. n + 1 \in Nat /\ n + 1 + 1 \in Nat /\ n + 1 <= n + 1 + 1 /\ Covered(log, S, n + 1)
  BY DEF Kept
<1>3. Covered(log, S, n + 1 + 1)
  BY <1>2, CoveredByMore
<1> QED BY <1>1, <1>3 DEF Kept

-----------------------------------------------------------------------------
(* Counting the owner's resets.                                             *)
ResetsSince(times, a) == {k \in DOMAIN times : times[k] >= a}

ResetsInside(times, a, b) == {k \in DOMAIN times : times[k] \in a .. b}

LEMMA ResetTypes ==
    ASSUME NEW times \in Seq(Nat)
    PROVE  /\ \A a \in Nat : /\ IsFiniteSet(ResetsSince(times, a))
                             /\ Cardinality(ResetsSince(times, a)) \in Nat
           /\ \A a \in Nat, b \in Nat : /\ IsFiniteSet(ResetsInside(times, a, b))
                                        /\ Cardinality(ResetsInside(times, a, b)) \in Nat
<1>1. IsFiniteSet(DOMAIN times)
  <2>1. DOMAIN times = 1 .. Len(times) /\ Len(times) \in Nat
    OBVIOUS
  <2> QED BY <2>1, FS_Interval
<1>2. \A S \in SUBSET DOMAIN times : IsFiniteSet(S) /\ Cardinality(S) \in Nat
  BY <1>1, FS_Subset, FS_CardinalityType
<1>3. \A a : ResetsSince(times, a) \in SUBSET DOMAIN times
  BY DEF ResetsSince
<1>4. \A a, b : ResetsInside(times, a, b) \in SUBSET DOMAIN times
  BY DEF ResetsInside
<1> QED BY <1>2, <1>3, <1>4

LEMMA ResetsAppend ==
    ASSUME NEW times \in Seq(Nat), NEW t \in Nat, NEW a \in Nat, NEW b \in Nat
    PROVE  /\ t >= a => Cardinality(ResetsSince(Append(times, t), a))
                          = Cardinality(ResetsSince(times, a)) + 1
           /\ Cardinality(ResetsInside(times, a, b))
                <= Cardinality(ResetsInside(Append(times, t), a, b))
<1> DEFINE longer == Append(times, t)
           n == Len(times) + 1
<1>1. /\ DOMAIN longer = DOMAIN times \cup {n} /\ longer[n] = t /\ longer \in Seq(Nat)
      /\ \A k \in DOMAIN times : longer[k] = times[k] /\ k # n
      /\ n \notin DOMAIN times
  OBVIOUS
<1> HIDE DEF longer, n
<1>2. ASSUME t >= a
      PROVE  Cardinality(ResetsSince(longer, a)) = Cardinality(ResetsSince(times, a)) + 1
  <2>1. ResetsSince(longer, a) = ResetsSince(times, a) \cup {n} /\ n \notin ResetsSince(times, a)
    BY <1>1, <1>2 DEF ResetsSince
  <2>2. IsFiniteSet(ResetsSince(times, a))
    BY ResetTypes
  <2> QED BY <2>1, <2>2, FS_AddElement
<1>3. Cardinality(ResetsInside(times, a, b)) <= Cardinality(ResetsInside(longer, a, b))
  <2>1. ResetsInside(times, a, b) \in SUBSET ResetsInside(longer, a, b)
    BY <1>1 DEF ResetsInside
  <2>2. IsFiniteSet(ResetsInside(longer, a, b))
    BY <1>1, ResetTypes
  <2> QED BY <2>1, <2>2, FS_Subset
<1> QED BY <1>2, <1>3 DEF longer

-----------------------------------------------------------------------------
(* The invariant of the history.                                            *)

\* The calls since a moment: the owner's resets since then clear the counter, and
\* a renewal does if the window started then or later, which is once at most as
\* long as the moment is a shortest window away.
RecentKept(log, times, start, counted, length) ==
    /\ \A a \in Nat : a > start =>
            Kept(log, Since(log, a), Cardinality(ResetsSince(times, a)), counted)
    /\ \A a \in Nat : a + length >= start =>
            Kept(log, Since(log, a), Cardinality(ResetsSince(times, a)) + 1, counted)

\* Every interval of the length of a window.
PastKept(log, times, length) ==
    \A a \in Nat, b \in Nat : b <= a + length =>
        Covered(log, Inside(log, a, b), Cardinality(ResetsInside(times, a, b)) + 2)

HistoryOK ==
    /\ accepted \in Seq(Call) /\ \A k \in DOMAIN accepted : accepted[k].at <= now
    /\ resets \in Seq(Nat) /\ \A k \in DOMAIN resets : resets[k] <= now
    /\ shortest \in Nat /\ shortest <= outflowResetTimeWindow

IInv ==
    /\ TypeOK
    /\ HistoryOK
    /\ RecentKept(accepted, resets, lastOutflowResetTimestamp, cumulativeOutflowVolume, shortest)
    /\ PastKept(accepted, resets, shortest)

\* A call in the current window.
LEMMA RecentInWindow ==
    ASSUME NEW log \in Seq(Call), NEW call \in Call, NEW times \in Seq(Nat), NEW start \in Nat,
           NEW counted \in Nat, NEW length \in Nat,
           RecentKept(log, times, start, counted, length), start <= call.at,
           \A k \in DOMAIN log : log[k].at <= call.at,
           counted + call.usd <= call.limit
    PROVE  RecentKept(Append(log, call), times, start, counted + call.usd, length)
<1> DEFINE R(a) == Cardinality(ResetsSince(times, a))
           more == counted + call.usd
<1>0. more \in Nat /\ call.at \in Nat
  BY DEF Call
\* A moment that is not over yet.
<1>1. ASSUME NEW a \in Nat, NEW n \in Nat, a <= call.at, Kept(log, Since(log, a), n, counted)
      PROVE  Kept(Append(log, call), Since(Append(log, call), a), n, more)
  <2>1. Since(Append(log, call), a) = Since(log, a) \cup {Len(log) + 1}
    BY <1>0, <1>1, SetsAppend
  <2>2. Since(log, a) \in SUBSET DOMAIN log
    BY DEF Since
  <2> QED BY <1>1, <2>1, <2>2, CallKept
<1>2. ASSUME NEW a \in Nat, NEW n \in Nat, ~(a <= call.at)
      PROVE  Kept(Append(log, call), Since(Append(log, call), a), n, more)
  <2>1. Since(Append(log, call), a) = Since(log, a)
    BY <1>0, <1>2, SetsAppend
  <2>2. Since(log, a) = {}
    <3>1. \A k \in DOMAIN log : log[k].at \in Nat
      BY LogTypes
    <3> QED BY <1>0, <1>2, <3>1 DEF Since
  <2>3. Append(log, call) \in Seq(Call)
    OBVIOUS
  <2> QED BY <1>0, <2>1, <2>2, <2>3, NothingKept
<1>3. \A a \in Nat : R(a) \in Nat /\ R(a) + 1 \in Nat
  <2> SUFFICES ASSUME NEW a \in Nat PROVE R(a) \in Nat /\ R(a) + 1 \in Nat
    OBVIOUS
  <2>1. R(a) \in Nat
    BY ResetTypes
  <2> QED BY <2>1
<1> HIDE DEF R, more
<1>4. ASSUME NEW a \in Nat, a > start PROVE Kept(Append(log, call), Since(Append(log, call), a), R(a), more)
  <2>1. Kept(log, Since(log, a), R(a), counted)
    BY <1>4 DEF RecentKept, R
  <2> QED BY <1>1, <1>2, <1>3, <2>1
<1>5. ASSUME NEW a \in Nat, a + length >= start
      PROVE  Kept(Append(log, call), Since(Append(log, call), a), R(a) + 1, more)
  <2>1. Kept(log, Since(log, a), R(a) + 1, counted)
    BY <1>5 DEF RecentKept, R
  <2> QED BY <1>1, <1>2, <1>3, <2>1
<1> QED BY <1>4, <1>5 DEF RecentKept, R, more

\* A call that renews the window, more than its length after it started.
LEMMA RecentRenewed ==
    ASSUME NEW log \in Seq(Call), NEW call \in Call, NEW times \in Seq(Nat), NEW start \in Nat,
           NEW counted \in Nat, NEW length \in Nat,
           RecentKept(log, times, start, counted, length), start + length < call.at,
           \A k \in DOMAIN log : log[k].at <= call.at,
           call.usd <= call.limit
    PROVE  RecentKept(Append(log, call), times, call.at, call.usd, length)
<1> DEFINE R(a) == Cardinality(ResetsSince(times, a))
<1>0. call.at \in Nat /\ call.usd \in Nat
  BY DEF Call
<1>1. \A a \in Nat : R(a) \in Nat /\ R(a) + 1 \in Nat
  <2> SUFFICES ASSUME NEW a \in Nat PROVE R(a) \in Nat /\ R(a) + 1 \in Nat
    OBVIOUS
  <2>1. R(a) \in Nat
    BY ResetTypes
  <2> QED BY <2>1
<1>2. ASSUME NEW a \in Nat, NEW n \in Nat, a > call.at
      PROVE  Kept(Append(log, call), Since(Append(log, call), a), n, call.usd)
  <2>1. Since(Append(log, call), a) = Since(log, a)
    BY <1>0, <1>2, SetsAppend
  <2>2. Since(log, a) = {}
    <3>1. \A k \in DOMAIN log : log[k].at \in Nat
      BY LogTypes
    <3> QED BY <1>0, <1>2, <3>1 DEF Since
  <2>3. Append(log, call) \in Seq(Call)
    OBVIOUS
  <2> QED BY <1>0, <2>1, <2>2, <2>3, NothingKept
<1>3. ASSUME NEW a \in Nat, a + length >= call.at, a <= call.at
      PROVE  Kept(Append(log, call), Since(Append(log, call), a), R(a) + 1, call.usd)
  <2>1. a > start
    BY <1>0, <1>3
  <2>2. Kept(log, Since(log, a), R(a), counted)
    BY <2>1 DEF RecentKept
  <2>3. Since(Append(log, call), a) = Since(log, a) \cup {Len(log) + 1}
    BY <1>0, <1>3, SetsAppend
  <2>4. Since(log, a) \in SUBSET DOMAIN log
    BY DEF Since
  <2> HIDE DEF R
  <2> QED BY <1>1, <2>2, <2>3, <2>4, RenewalKept DEF R
<1> HIDE DEF R
<1>4. \A a \in Nat : a > call.at => Kept(Append(log, call), Since(Append(log, call), a), R(a), call.usd)
  BY <1>1, <1>2
<1>5. ASSUME NEW a \in Nat, a + length >= call.at
      PROVE  Kept(Append(log, call), Since(Append(log, call), a), R(a) + 1, call.usd)
  <2>1. CASE a <= call.at
    BY <1>3, <1>5, <2>1
  <2>2. CASE a > call.at
    BY <1>1, <1>2, <2>2
  <2> QED BY <1>0, <2>1, <2>2
<1> QED BY <1>4, <1>5 DEF RecentKept, R

\* After a call, an interval that reaches it has the calls since its start.
LEMMA PastAfterCall ==
    ASSUME NEW log \in Seq(Call), NEW call \in Call, NEW times \in Seq(Nat), NEW start \in Nat,
           NEW counted \in Nat, NEW length \in Nat, PastKept(log, times, length),
           RecentKept(Append(log, call), times, start, counted, length), start <= call.at,
           \A k \in DOMAIN log : log[k].at <= call.at,
           \A k \in DOMAIN times : times[k] <= call.at
    PROVE  PastKept(Append(log, call), times, length)
<1> DEFINE longer == Append(log, call)
<1>1. SUFFICES ASSUME NEW a \in Nat, NEW b \in Nat, b <= a + length
      PROVE  Covered(longer, Inside(longer, a, b), Cardinality(ResetsInside(times, a, b)) + 2)
  BY DEF PastKept
<1>2. call.at \in Nat /\ \A k \in DOMAIN log : log[k].at \in Nat
  BY LogTypes DEF Call
<1>3. CASE call.at \in a .. b
  <2>1. Inside(longer, a, b) = Since(longer, a)
    <3>1. \A k \in DOMAIN longer : longer[k].at \in Nat /\ longer[k].at <= call.at
      <4>1. \A k \in DOMAIN longer : (k \in DOMAIN log /\ longer[k] = log[k]) \/ longer[k] = call
        OBVIOUS
      <4>2. call.at <= call.at
        BY <1>2
      <4> HIDE DEF longer
      <4> QED BY <1>2, <4>1, <4>2
    <3> HIDE DEF longer
    <3> QED BY <1>2, <1>3, <3>1 DEF Inside, Since
  <2>2. ResetsInside(times, a, b) = ResetsSince(times, a)
    <3>1. \A k \in DOMAIN times : times[k] \in Nat
      OBVIOUS
    <3> QED BY <1>2, <1>3, <3>1 DEF ResetsInside, ResetsSince
  <2>3. a + length >= start
    BY <1>1, <1>2, <1>3
  <2>4. Kept(longer, Since(longer, a), Cardinality(ResetsSince(times, a)) + 1, counted)
    BY <2>3 DEF RecentKept
  <2>5. Cardinality(ResetsSince(times, a)) + 1 + 1 = Cardinality(ResetsSince(times, a)) + 2
    <3>1. Cardinality(ResetsSince(times, a)) \in Nat
      BY ResetTypes
    <3> QED BY <3>1
  <2> QED BY <2>1, <2>2, <2>4, <2>5 DEF Kept
<1>4. CASE ~(call.at \in a .. b)
  <2>1. Inside(longer, a, b) = Inside(log, a, b) /\ Inside(log, a, b) \in SUBSET DOMAIN log
    BY <1>4, SetsAppend
  <2>2. Covered(log, Inside(log, a, b), Cardinality(ResetsInside(times, a, b)) + 2)
    BY <1>1 DEF PastKept
  <2>3. Cardinality(ResetsInside(times, a, b)) + 2 \in Nat
    <3>1. Cardinality(ResetsInside(times, a, b)) \in Nat
      BY ResetTypes
    <3> QED BY <3>1
  <2> QED BY <2>1, <2>2, <2>3, OutsideKept
<1> QED BY <1>3, <1>4

\* The owner's reset.
LEMMA RecentReset ==
    ASSUME NEW log \in Seq(Call), NEW times \in Seq(Nat), NEW t \in Nat, NEW start \in Nat,
           NEW counted \in Nat, NEW length \in Nat,
           RecentKept(log, times, start, counted, length),
           \A k \in DOMAIN log : log[k].at <= t
    PROVE  RecentKept(log, Append(times, t), start, 0, length)
<1> DEFINE R(a) == Cardinality(ResetsSince(times, a))
           Q(a) == Cardinality(ResetsSince(Append(times, t), a))
<1>1. \A a \in Nat : /\ R(a) \in Nat /\ R(a) + 1 \in Nat /\ Q(a) \in Nat /\ Q(a) + 1 \in Nat
                     /\ t >= a => Q(a) = R(a) + 1
  <2> SUFFICES ASSUME NEW a \in Nat
               PROVE  /\ R(a) \in Nat /\ R(a) + 1 \in Nat /\ Q(a) \in Nat /\ Q(a) + 1 \in Nat
                      /\ t >= a => Q(a) = R(a) + 1
    OBVIOUS
  <2>1. Append(times, t) \in Seq(Nat) /\ 0 \in Nat
    OBVIOUS
  <2>2. R(a) \in Nat /\ Q(a) \in Nat
    BY <2>1, ResetTypes
  <2>3. t >= a => Q(a) = R(a) + 1
    BY <2>1, ResetsAppend
  <2> HIDE DEF R, Q
  <2> QED BY <2>2, <2>3
<1>2. ASSUME NEW a \in Nat
      PROVE  Since(log, a) \in SUBSET DOMAIN log /\ (~(t >= a) => Since(log, a) = {})
  <2>1. \A k \in DOMAIN log : log[k].at \in Nat
    BY LogTypes
  <2> QED BY <2>1 DEF Since
<1>3. 0 \in Nat
  OBVIOUS
<1> HIDE DEF R, Q
<1>4. ASSUME NEW a \in Nat, a > start PROVE Kept(log, Since(log, a), Q(a), 0)
  <2>1. Kept(log, Since(log, a), R(a), counted)
    BY <1>4 DEF RecentKept, R
  <2>2. Kept(log, Since(log, a), R(a) + 1, 0)
    BY <1>1, <1>2, <2>1, ResetKept
  <2>3. CASE t >= a
    BY <1>1, <2>2, <2>3
  <2>4. CASE ~(t >= a)
    <3>1. Since(log, a) = {} /\ Q(a) \in Nat
      BY <1>1, <1>2, <2>4
    <3> QED BY <1>3, <3>1, NothingKept
  <2> QED BY <2>3, <2>4
<1>5. ASSUME NEW a \in Nat, a + length >= start PROVE Kept(log, Since(log, a), Q(a) + 1, 0)
  <2>1. Kept(log, Since(log, a), R(a) + 1, counted)
    BY <1>5 DEF RecentKept, R
  <2>2. Kept(log, Since(log, a), R(a) + 1 + 1, 0)
    BY <1>1, <1>2, <2>1, ResetKept
  <2>3. CASE t >= a
    BY <1>1, <2>2, <2>3
  <2>4. CASE ~(t >= a)
    <3>1. Since(log, a) = {} /\ Q(a) + 1 \in Nat
      BY <1>1, <1>2, <2>4
    <3> QED BY <1>3, <3>1, NothingKept
  <2> QED BY <2>3, <2>4
<1> QED BY <1>4, <1>5 DEF RecentKept, Q

LEMMA PastReset ==
    ASSUME NEW log \in Seq(Call), NEW times \in Seq(Nat), NEW t \in Nat, NEW length \in Nat,
           PastKept(log, times, length)
    PROVE  PastKept(log, Append(times, t), length)
<1>1. SUFFICES ASSUME NEW a \in Nat, NEW b \in Nat, b <= a + length
      PROVE  Covered(log, Inside(log, a, b), Cardinality(ResetsInside(Append(times, t), a, b)) + 2)
  BY DEF PastKept
<1> DEFINE m == Cardinality(ResetsInside(times, a, b)) + 2
           n == Cardinality(ResetsInside(Append(times, t), a, b)) + 2
<1>2. m \in Nat /\ n \in Nat /\ m <= n
  <2>1. Append(times, t) \in Seq(Nat)
    OBVIOUS
  <2>2. /\ Cardinality(ResetsInside(times, a, b)) \in Nat
        /\ Cardinality(ResetsInside(Append(times, t), a, b)) \in Nat
    BY <2>1, ResetTypes
  <2>3. Cardinality(ResetsInside(times, a, b)) <= Cardinality(ResetsInside(Append(times, t), a, b))
    BY ResetsAppend
  <2> QED BY <2>2, <2>3
<1>3. Covered(log, Inside(log, a, b), m)
  BY <1>1 DEF PastKept
<1>4. Inside(log, a, b) \in SUBSET DOMAIN log
  BY DEF Inside
<1> HIDE DEF m, n
<1>5. Covered(log, Inside(log, a, b), n)
  BY <1>2, <1>3, <1>4, CoveredByMore
<1> QED BY <1>5 DEF n

\* A shorter window has fewer intervals.
LEMMA ShorterKept ==
    ASSUME NEW log, NEW times, NEW start \in Nat, NEW counted, NEW length \in Nat,
           NEW less \in Nat, less <= length,
           RecentKept(log, times, start, counted, length), PastKept(log, times, length)
    PROVE  RecentKept(log, times, start, counted, less) /\ PastKept(log, times, less)
<1>1. \A a \in Nat : a + less >= start => a + length >= start
  OBVIOUS
<1>2. \A a \in Nat, b \in Nat : b <= a + less => b <= a + length
  OBVIOUS
<1> QED BY <1>1, <1>2 DEF RecentKept, PastKept

-----------------------------------------------------------------------------
(* The invariant holds.                                                     *)

LEMMA ImageIsFinite ==
    ASSUME NEW S, IsFiniteSet(S), NEW f PROVE IsFiniteSet({f[x] : x \in S})
<1> DEFINE G == {T \in SUBSET S : IsFiniteSet({f[x] : x \in T})}
<1>1. {} \in G
  <2>1. {f[x] : x \in {}} = {}
    OBVIOUS
  <2> QED BY <2>1, FS_EmptySet
<1>2. ASSUME NEW T \in SUBSET S, NEW z \in S, T \in G, z \notin T PROVE T \cup {z} \in G
  <2>1. {f[x] : x \in T \cup {z}} = {f[x] : x \in T} \cup {f[z]}
    OBVIOUS
  <2>2. IsFiniteSet({f[x] : x \in T}) /\ T \cup {z} \in SUBSET S
    BY <1>2
  <2>3. IsFiniteSet({f[x] : x \in T} \cup {f[z]})
    BY <2>2, FS_AddElement
  <2> QED BY <2>1, <2>2, <2>3
<1>3. S \in G
  <2> HIDE DEF G
  <2> QED BY <1>1, <1>2, FiniteSetInduction
<1> QED BY <1>3

\* A finite set of naturals has a maximum.
LEMMA MaxIsLargest ==
    ASSUME NEW S \in SUBSET Nat, IsFiniteSet(S), S # {}
    PROVE  Max(S) \in S /\ \A x \in S : x <= Max(S)
<1> DEFINE G == {T \in SUBSET S : T # {} => \E x \in T : \A y \in T : x >= y}
<1>1. {} \in G
  OBVIOUS
<1>2. ASSUME NEW T \in SUBSET S, NEW z \in S, T \in G, z \notin T PROVE T \cup {z} \in G
  <2>1. CASE T = {}
    BY <2>1
  <2>2. CASE T # {}
    <3>1. PICK x \in T : \A y \in T : x >= y
      BY <1>2, <2>2
    <3>2. CASE x >= z
      BY <3>1, <3>2
    <3>3. CASE ~(x >= z)
      <4>1. \A y \in T \cup {z} : z >= y
        BY <3>1, <3>3
      <4> QED BY <4>1
    <3> QED BY <3>2, <3>3
  <2> QED BY <2>1, <2>2
<1>3. S \in G
  <2> HIDE DEF G
  <2> QED BY <1>1, <1>2, FiniteSetInduction
<1>4. \E x \in S : \A y \in S : x >= y
  BY <1>3
<1>5. Max(S) \in S /\ \A x \in S : Max(S) >= x
  BY <1>4 DEF Max
<1> QED BY <1>5

\* What is at most a limit is at most the largest.
LEMMA WithinLimits ==
    /\ Max(Limits \cup {0}) \in Nat
    /\ \A l \in Limits \cup {0} : l <= Max(Limits \cup {0})
<1>1. IsFiniteSet(Limits \cup {0}) /\ Limits \cup {0} \in SUBSET Nat
  BY OutflowAssumption, FS_AddElement
<1> QED BY <1>1, MaxIsLargest

LEMMA Values ==
    ASSUME TypeOK, NEW m \in Markets, NEW a \in Amounts
    PROVE  ToUSD(a, m) \in Nat
<1>1. a \in Nat /\ price[m] \in Nat /\ UsdScale \in Nat \ {0}
  BY OutflowAssumption DEF TypeOK
<1>2. \A x \in Nat, y \in Nat : x * y \in Nat
  BY Z3
<1>3. a * price[m] \in Nat
  BY <1>1, <1>2
<1>4. \A x \in Nat, d \in Nat \ {0} : x \div d \in Nat
  BY Z3
<1> QED BY <1>1, <1>3, <1>4 DEF ToUSD

LEMMA InitInv == Init => IInv
<1> SUFFICES ASSUME Init PROVE IInv
  OBVIOUS
<1>1. TypeOK
  BY OutflowAssumption, WithinLimits DEF Init, TypeOK
<1>2. /\ accepted = <<>> /\ resets = <<>> /\ accepted \in Seq(Call) /\ resets \in Seq(Nat)
      /\ DOMAIN accepted = {} /\ DOMAIN resets = {}
  BY DEF Init
<1>3. HistoryOK
  <2>1. shortest \in Nat /\ shortest <= outflowResetTimeWindow
    BY OutflowAssumption DEF Init
  <2> QED BY <1>2, <2>1 DEF HistoryOK
<1>4. \A n \in Nat : Kept(accepted, {}, n, 0) /\ Covered(accepted, {}, n)
  <2>1. 0 \in Nat
    OBVIOUS
  <2> QED BY <1>2, <2>1, NothingKept
<1>5. \A a, b : Since(accepted, a) = {} /\ Inside(accepted, a, b) = {}
  BY <1>2 DEF Since, Inside
<1>6. RecentKept(accepted, resets, lastOutflowResetTimestamp, cumulativeOutflowVolume, shortest)
  <2>1. cumulativeOutflowVolume = 0
    BY DEF Init
  <2>2. ASSUME NEW a \in Nat
        PROVE  /\ Cardinality(ResetsSince(resets, a)) \in Nat
               /\ Cardinality(ResetsSince(resets, a)) + 1 \in Nat
    <3>1. Cardinality(ResetsSince(resets, a)) \in Nat
      BY <1>2, ResetTypes
    <3> QED BY <3>1
  <2> QED BY <1>4, <1>5, <2>1, <2>2 DEF RecentKept
<1>7. PastKept(accepted, resets, shortest)
  <2>1. ASSUME NEW a \in Nat, NEW b \in Nat PROVE Cardinality(ResetsInside(resets, a, b)) + 2 \in Nat
    <3>1. Cardinality(ResetsInside(resets, a, b)) \in Nat
      BY <1>2, ResetTypes
    <3> QED BY <3>1
  <2> QED BY <1>4, <1>5, <2>1 DEF PastKept
<1> QED BY <1>1, <1>3, <1>6, <1>7 DEF IInv

\* A call that succeeds, in the current window or renewing it.
LEMMA CallInv ==
    ASSUME IInv, NEW m \in Markets, NEW a \in Amounts, CheckOutflowVolumeLimit(m, a)
    PROVE  IInv'
<1> DEFINE usd == ToUSD(a, m)
           call == [usd |-> usd, at |-> now, limit |-> limitPerTimePeriod]
<1>1. /\ usd \in Nat /\ now \in Nat /\ limitPerTimePeriod \in Nat
      /\ cumulativeOutflowVolume \in Nat /\ lastOutflowResetTimestamp \in Nat
      /\ lastOutflowResetTimestamp <= now /\ outflowResetTimeWindow \in Nat
      /\ limitPerTimePeriod \in Limits \cup {0}
  <2>1. TypeOK
    BY DEF IInv
  <2>2. usd \in Nat
    BY <2>1, Values
  <2> HIDE DEF usd, call
  <2> QED BY <2>1, <2>2, OutflowAssumption, WithinLimits DEF TypeOK
<1>2. /\ accepted \in Seq(Call) /\ \A k \in DOMAIN accepted : accepted[k].at <= now
      /\ resets \in Seq(Nat) /\ \A k \in DOMAIN resets : resets[k] <= now
      /\ shortest \in Nat /\ shortest <= outflowResetTimeWindow
  BY DEF IInv, HistoryOK
<1>3. /\ Base + usd <= limitPerTimePeriod
      /\ cumulativeOutflowVolume' = Base + usd
      /\ lastOutflowResetTimestamp' = Renewed
      /\ accepted' = Append(accepted, call)
      /\ now' = now /\ price' = price /\ resets' = resets /\ shortest' = shortest
      /\ outflowResetTimeWindow' = outflowResetTimeWindow
      /\ limitPerTimePeriod' = limitPerTimePeriod
  BY DEF CheckOutflowVolumeLimit, Fits, settings
<1>4. /\ call \in Call /\ call.usd = usd /\ call.at = now /\ call.limit = limitPerTimePeriod
  BY <1>1 DEF Call
<1>5. /\ RecentKept(accepted, resets, lastOutflowResetTimestamp, cumulativeOutflowVolume, shortest)
      /\ PastKept(accepted, resets, shortest)
  BY DEF IInv
<1> HIDE DEF usd, call
<1>6. Base \in Nat /\ Renewed \in Nat /\ Renewed <= now
  BY <1>1 DEF Base, Renewed
<1>7. TypeOK'
  <2>1. cumulativeOutflowVolume' \in 0 .. Max(Limits \cup {0})
    <3>1. limitPerTimePeriod <= Max(Limits \cup {0}) /\ Max(Limits \cup {0}) \in Nat
      BY <1>1, WithinLimits
    <3> QED BY <1>1, <1>3, <1>6, <3>1
  <2>2. lastOutflowResetTimestamp' \in 0 .. now
    BY <1>1, <1>3, <1>6
  <2> QED BY <1>3, <2>1, <2>2 DEF IInv, TypeOK
<1>8. HistoryOK'
  <2>1. accepted' \in Seq(Call)
    BY <1>2, <1>3, <1>4
  <2>2. ASSUME NEW k \in DOMAIN accepted' PROVE accepted'[k].at <= now
    <3>1. (k \in DOMAIN accepted /\ accepted'[k] = accepted[k]) \/ accepted'[k] = call
      BY <1>2, <1>3, <1>4
    <3>2. now <= now
      BY <1>1
    <3> QED BY <1>2, <1>4, <3>1, <3>2
  <2> QED BY <1>2, <1>3, <2>1, <2>2 DEF HistoryOK
<1>9. RecentKept(accepted', resets, Renewed, Base + usd, shortest)
  <2>1. CASE WindowOver
    <3>1. Base + usd = usd /\ Renewed = now
      BY <1>1, <2>1 DEF Base, Renewed
    <3>2. lastOutflowResetTimestamp + shortest < call.at
      BY <1>1, <1>2, <1>4, <2>1 DEF WindowOver
    <3>3. call.usd <= call.limit
      BY <1>3, <1>4, <3>1
    <3>4. RecentKept(Append(accepted, call), resets, call.at, call.usd, shortest)
      BY <1>1, <1>2, <1>4, <1>5, <3>2, <3>3, RecentRenewed
    <3> QED BY <1>3, <1>4, <3>1, <3>4
  <2>2. CASE ~WindowOver
    <3>1. Base = cumulativeOutflowVolume /\ Renewed = lastOutflowResetTimestamp
      BY <2>2 DEF Base, Renewed
    <3>2. RecentKept(Append(accepted, call), resets, lastOutflowResetTimestamp,
                     cumulativeOutflowVolume + call.usd, shortest)
      BY <1>1, <1>2, <1>3, <1>4, <1>5, <3>1, RecentInWindow
    <3> QED BY <1>3, <1>4, <3>1, <3>2
  <2> QED BY <2>1, <2>2
<1>10. PastKept(accepted', resets, shortest)
  <2>1. Base + usd \in Nat
    BY <1>1, <1>6
  <2> QED BY <1>2, <1>3, <1>4, <1>5, <1>6, <1>9, <2>1, PastAfterCall
<1> QED BY <1>3, <1>7, <1>8, <1>9, <1>10 DEF IInv

LEMMA SetWindowInv ==
    ASSUME IInv, NEW w \in Windows, SetOutflowVolumeTimeWindow(w) PROVE IInv'
<1>1. /\ outflowResetTimeWindow' = w /\ shortest' = Min({shortest, w})
      /\ now' = now /\ price' = price /\ cumulativeOutflowVolume' = cumulativeOutflowVolume
      /\ lastOutflowResetTimestamp' = lastOutflowResetTimestamp
      /\ limitPerTimePeriod' = limitPerTimePeriod /\ accepted' = accepted /\ resets' = resets
  BY DEF SetOutflowVolumeTimeWindow
<1>2. w \in Nat /\ shortest \in Nat
  BY OutflowAssumption DEF IInv, HistoryOK
<1>3. Min({shortest, w}) \in Nat /\ Min({shortest, w}) <= w /\ Min({shortest, w}) <= shortest
  <2>1. \E x \in {shortest, w} : \A y \in {shortest, w} : x =< y
    BY <1>2
  <2>2. /\ Min({shortest, w}) \in {shortest, w}
        /\ \A y \in {shortest, w} : Min({shortest, w}) =< y
    BY <2>1 DEF Min
  <2> QED BY <1>2, <2>2
<1>4. TypeOK'
  BY <1>1 DEF IInv, TypeOK
<1>5. HistoryOK'
  BY <1>1, <1>3 DEF IInv, HistoryOK
<1>6. /\ RecentKept(accepted, resets, lastOutflowResetTimestamp, cumulativeOutflowVolume, shortest')
      /\ PastKept(accepted, resets, shortest')
  <2>1. lastOutflowResetTimestamp \in Nat
    BY DEF IInv, TypeOK
  <2> QED BY <1>1, <1>2, <1>3, <2>1, ShorterKept DEF IInv
<1> QED BY <1>1, <1>4, <1>5, <1>6 DEF IInv

LEMMA ResetInv ==
    ASSUME IInv, ResetOutflowVolume PROVE IInv'
<1>1. /\ cumulativeOutflowVolume' = 0 /\ resets' = Append(resets, now)
      /\ now' = now /\ price' = price /\ lastOutflowResetTimestamp' = lastOutflowResetTimestamp
      /\ outflowResetTimeWindow' = outflowResetTimeWindow
      /\ limitPerTimePeriod' = limitPerTimePeriod /\ accepted' = accepted /\ shortest' = shortest
  BY DEF ResetOutflowVolume, settings
<1>2. now \in Nat /\ cumulativeOutflowVolume \in Nat /\ lastOutflowResetTimestamp \in Nat
  BY WithinLimits DEF IInv, TypeOK
<1>3. /\ accepted \in Seq(Call) /\ \A k \in DOMAIN accepted : accepted[k].at <= now
      /\ resets \in Seq(Nat) /\ \A k \in DOMAIN resets : resets[k] <= now
      /\ shortest \in Nat /\ shortest <= outflowResetTimeWindow
  BY DEF IInv, HistoryOK
<1>4. TypeOK'
  <2>1. 0 \in 0 .. Max(Limits \cup {0})
    BY WithinLimits
  <2> QED BY <1>1, <2>1 DEF IInv, TypeOK
<1>5. HistoryOK'
  <2>1. resets' \in Seq(Nat)
    BY <1>1, <1>2, <1>3
  <2>2. \A k \in DOMAIN resets' : resets'[k] <= now
    BY <1>1, <1>2, <1>3
  <2> QED BY <1>1, <1>3, <2>1, <2>2 DEF HistoryOK
<1>6. RecentKept(accepted, Append(resets, now), lastOutflowResetTimestamp, 0, shortest)
  BY <1>2, <1>3, RecentReset DEF IInv
<1>7. PastKept(accepted, Append(resets, now), shortest)
  BY <1>2, <1>3, PastReset DEF IInv
<1> QED BY <1>1, <1>4, <1>5, <1>6, <1>7 DEF IInv

LEMMA NextInv == IInv /\ [Next]_vars => IInv'
<1> SUFFICES ASSUME IInv, [Next]_vars PROVE IInv'
  OBVIOUS
\* Steps that leave the counter and the history alone.
<1>1. ASSUME TypeOK', now' >= now,
             cumulativeOutflowVolume' = cumulativeOutflowVolume,
             lastOutflowResetTimestamp' = lastOutflowResetTimestamp,
             outflowResetTimeWindow' = outflowResetTimeWindow,
             accepted' = accepted, resets' = resets, shortest' = shortest
      PROVE  IInv'
  <2>1. HistoryOK'
    <3>1. now \in Nat /\ now' \in Nat
      BY <1>1 DEF IInv, TypeOK
    <3>2. accepted \in Seq(Call) /\ resets \in Seq(Nat)
      BY DEF IInv, HistoryOK
    <3>3. \A k \in DOMAIN accepted : accepted[k].at <= now'
      <4>1. \A k \in DOMAIN accepted : accepted[k].at \in Nat
        BY <3>2, LogTypes
      <4>2. \A k \in DOMAIN accepted : accepted[k].at <= now
        BY DEF IInv, HistoryOK
      <4> QED BY <1>1, <3>1, <4>1, <4>2
    <3>4. \A k \in DOMAIN resets : resets[k] <= now'
      <4>1. \A k \in DOMAIN resets : resets[k] \in Nat
        BY <3>2
      <4>2. \A k \in DOMAIN resets : resets[k] <= now
        BY DEF IInv, HistoryOK
      <4> QED BY <1>1, <3>1, <4>1, <4>2
    <3> QED BY <1>1, <3>2, <3>3, <3>4 DEF IInv, HistoryOK
  <2> QED BY <1>1, <2>1 DEF IInv
<1>2. TypeOK /\ now \in Nat /\ now >= now
  BY DEF IInv, TypeOK
<1>3. ASSUME NEW m \in Markets, NEW a \in Amounts, CheckOutflowVolumeLimit(m, a) PROVE IInv'
  BY <1>3, CallInv
<1>4. ASSUME NEW w \in Windows, SetOutflowVolumeTimeWindow(w) PROVE IInv'
  BY <1>4, SetWindowInv
<1>5. ASSUME NEW l \in Limits, SetOutflowTimeLimitInUSD(l) PROVE IInv'
  <2>1. TypeOK'
    BY <1>2, <1>5 DEF SetOutflowTimeLimitInUSD, TypeOK
  <2> QED BY <1>1, <1>2, <1>5, <2>1 DEF SetOutflowTimeLimitInUSD, history
<1>6. CASE ResetOutflowVolume
  BY <1>6, ResetInv
<1>7. ASSUME NEW m \in Markets, NEW p \in Prices, PriceMoves(m, p) PROVE IInv'
  <2>1. TypeOK'
    BY <1>2, <1>7 DEF PriceMoves, TypeOK, settings
  <2> QED BY <1>1, <1>2, <1>7, <2>1 DEF PriceMoves, history, settings
<1>8. CASE Tick
  <2>1. now' >= now /\ now' \in Nat /\ lastOutflowResetTimestamp \in 0 .. now'
    BY <1>2, <1>8 DEF Tick, TypeOK
  <2>2. TypeOK'
    BY <1>2, <1>8, <2>1 DEF Tick, TypeOK, settings
  <2> QED BY <1>1, <1>8, <2>1, <2>2 DEF Tick, history, settings
<1>9. CASE UNCHANGED vars
  <2>1. TypeOK'
    BY <1>2, <1>9 DEF vars, TypeOK, settings
  <2> QED BY <1>1, <1>2, <1>9, <2>1 DEF vars, history, settings
<1> QED BY <1>3, <1>4, <1>5, <1>6, <1>7, <1>8, <1>9 DEF Next

\* What PastKept says of the interval that starts at a call.
LEMMA PastBounds ==
    ASSUME IInv PROVE SlidingOutflowBound
<1>1. accepted \in Seq(Call) /\ resets \in Seq(Nat) /\ shortest \in Nat
  BY DEF IInv, HistoryOK
<1> SUFFICES ASSUME NEW i \in DOMAIN accepted
    PROVE  LET start == accepted[i].at
               within == {k \in DOMAIN accepted : accepted[k].at \in start .. start + shortest}
               total == SumFunctionOnSet([k \in DOMAIN accepted |-> accepted[k].usd], within)
               largest == Max({accepted[k].limit : k \in within})
               manual == {k \in DOMAIN resets : resets[k] \in start .. start + shortest}
           IN  total <= (2 + Cardinality(manual)) * largest
  BY DEF SlidingOutflowBound
<1> DEFINE start == accepted[i].at
           end == start + shortest
           within == {k \in DOMAIN accepted : accepted[k].at \in start .. start + shortest}
           total == SumFunctionOnSet([k \in DOMAIN accepted |-> accepted[k].usd], within)
           limits == {accepted[k].limit : k \in within}
           manual == {k \in DOMAIN resets : resets[k] \in start .. start + shortest}
<1>2. start \in Nat /\ end \in Nat
  BY <1>1, LogTypes
<1>3. /\ within = Inside(accepted, start, end) /\ manual = ResetsInside(resets, start, end)
      /\ total = Moved(accepted, Inside(accepted, start, end))
  BY DEF Inside, ResetsInside, Moved, UsdOf
<1>4. i \in within /\ within \in SUBSET DOMAIN accepted /\ IsFiniteSet(within)
  <2>1. i \in within
    BY <1>1, <1>2
  <2>2. within \in SUBSET DOMAIN accepted
    OBVIOUS
  <2> HIDE DEF within
  <2> QED BY <1>1, <2>1, <2>2, LogTypes
<1>5. Max(limits) \in Nat /\ \A k \in within : accepted[k].limit <= Max(limits)
  <2>1. limits \in SUBSET Nat /\ limits # {}
    BY <1>1, <1>4, LogTypes
  <2>2. IsFiniteSet(limits)
    <3> DEFINE f == [k \in within |-> accepted[k].limit]
    <3>1. limits = {f[k] : k \in within}
      OBVIOUS
    <3> HIDE DEF limits, within, f
    <3>2. IsFiniteSet({f[k] : k \in within})
      BY <1>4, ImageIsFinite
    <3> QED BY <3>1, <3>2
  <2>3. Max(limits) \in limits /\ \A x \in limits : x <= Max(limits)
    <3> HIDE DEF limits
    <3> QED BY <2>1, <2>2, MaxIsLargest
  <2> QED BY <2>1, <2>3
<1>6. Covered(accepted, Inside(accepted, start, end), Cardinality(ResetsInside(resets, start, end)) + 2)
  <2>1. end <= start + shortest
    BY <1>1, <1>2
  <2> QED BY <1>2, <2>1 DEF IInv, PastKept
<1> HIDE DEF within, total, limits, manual, start, end
<1>7. total <= (Cardinality(manual) + 2) * Max(limits)
  BY <1>3, <1>5, <1>6 DEF Covered, Bounds
<1>8. Cardinality(manual) + 2 = 2 + Cardinality(manual)
  <2>1. Cardinality(manual) \in Nat
    BY <1>1, <1>2, <1>3, ResetTypes
  <2> QED BY <2>1
<1>9. total <= (2 + Cardinality(manual)) * Max(limits)
  BY <1>7, <1>8
<1> QED BY <1>9 DEF within, total, limits, manual, start

\* The window never starts in the future and the counter fits the largest limit
\* (checkOutflowVolumeLimit, resetOutflowVolume).
THEOREM OutflowTypes == Spec => []TypeOK
<1>1. IInv => TypeOK
  BY DEF IInv
<1> QED BY <1>1, InitInv, NextInv, PTL DEF Spec

\* In any interval as long as the shortest window, whenever it starts, at most two
\* limits pass and one more for each reset by the owner (checkOutflowVolumeLimit,
\* which renews the window, and resetOutflowVolume, which does not).
THEOREM OutflowStaysBounded == Spec => []SlidingOutflowBound
BY InitInv, NextInv, PastBounds, PTL DEF Spec
=============================================================================
