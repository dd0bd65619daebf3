-------------------------- MODULE Rebalancer_proofs --------------------------
(***************************************************************************)
(* Theorems about Rebalancer, for every set of chains, markets and amounts,*)
(* every limit and every length of the time window.                        *)
(*                                                                         *)
(* What a lane has moved in any interval is bounded by an invariant of its *)
(* log: WindowKept says that what was sent since the window started is at  *)
(* most the size that is kept, and that every interval within one window   *)
(* is below the maximum of some message in it.                             *)
(***************************************************************************)
EXTENDS Rebalancer, FiniteSums, TLAPS

------------------------------------------------------------------------------
(* What a log adds up to.                                                   *)
Message == [bridge : Bridges, lane : Lanes, amount : Nat, at : Nat, max : Nat]

AmountsOf(log) == [i \in DOMAIN log |-> log[i].amount]

Sent(log, kept) == SumFunctionOnSet(AmountsOf(log), kept)

\* The messages of a lane, sent under a maximum, from a to b.
Span(log, lane, a, b) ==
    {i \in DOMAIN log : log[i].lane = lane /\ log[i].max > 0 /\ log[i].at \in a .. b}

LEMMA LogTypes ==
    ASSUME NEW log \in Seq(Message)
    PROVE  /\ IsFiniteSet(DOMAIN log)
           /\ \A i \in DOMAIN log : /\ AmountsOf(log)[i] = log[i].amount
                                    /\ log[i].amount \in Nat /\ AmountsOf(log)[i] \in Nat
                                    /\ log[i].at \in Nat /\ log[i].max \in Nat
           /\ \A kept \in SUBSET DOMAIN log : IsFiniteSet(kept) /\ Sent(log, kept) \in Nat
<1>1. DOMAIN log = 1 .. Len(log) /\ Len(log) \in Nat
  OBVIOUS
<1>2. IsFiniteSet(DOMAIN log)
  BY <1>1, FS_Interval
<1>3. ASSUME NEW i \in DOMAIN log
      PROVE  /\ AmountsOf(log)[i] = log[i].amount
             /\ log[i].amount \in Nat /\ AmountsOf(log)[i] \in Nat
             /\ log[i].at \in Nat /\ log[i].max \in Nat
  <2>1. log[i] \in Message
    OBVIOUS
  <2> QED BY <2>1 DEF Message, AmountsOf
<1>4. ASSUME NEW kept \in SUBSET DOMAIN log PROVE IsFiniteSet(kept) /\ Sent(log, kept) \in Nat
  <2>1. IsFiniteSet(kept)
    BY <1>2, FS_Subset
  <2> QED BY <1>3, <2>1, SumNat DEF Sent
<1> QED BY <1>2, <1>3, <1>4

\* A message more leaves what was sent before, and adds its amount.
LEMMA SentAppend ==
    ASSUME NEW log \in Seq(Message), NEW msg \in Message, NEW kept \in SUBSET DOMAIN log
    PROVE  /\ Sent(Append(log, msg), kept) = Sent(log, kept)
           /\ Sent(Append(log, msg), kept \cup {Len(log) + 1}) = Sent(log, kept) + msg.amount
<1> DEFINE longer == Append(log, msg)
           n == Len(log) + 1
<1>1. /\ longer \in Seq(Message) /\ n \in DOMAIN longer /\ longer[n] = msg
      /\ \A i \in DOMAIN log : i \in DOMAIN longer /\ longer[i] = log[i] /\ i # n
  OBVIOUS
<1> HIDE DEF longer, n
<1>2. Sent(longer, kept) = Sent(log, kept)
  <2>1. IsFiniteSet(kept) /\ \A i \in kept : AmountsOf(longer)[i] \in Int
    BY <1>1, LogTypes
  <2>2. \A i \in kept : AmountsOf(longer)[i] = AmountsOf(log)[i]
    BY <1>1 DEF AmountsOf
  <2> QED BY <2>1, <2>2, SumCongruence DEF Sent
<1>3. Sent(longer, kept \cup {n}) = Sent(longer, kept) + msg.amount
  <2>1. kept \cup {n} \in SUBSET DOMAIN longer /\ (kept \cup {n}) \ {n} = kept /\ kept \in SUBSET DOMAIN longer
    BY <1>1
  <2>2. IsFiniteSet(kept \cup {n}) /\ \A i \in kept \cup {n} : AmountsOf(longer)[i] \in Int
    BY <1>1, <2>1, LogTypes
  <2>3. Sent(longer, kept \cup {n}) = AmountsOf(longer)[n] + Sent(longer, kept)
    BY <2>1, <2>2, SumRemove DEF Sent
  <2>4. AmountsOf(longer)[n] = msg.amount /\ msg.amount \in Nat
    BY <1>1 DEF AmountsOf, Message
  <2>5. Sent(longer, kept) \in Nat
    BY <1>1, <2>1, LogTypes
  <2> QED BY <2>3, <2>4, <2>5
<1> QED BY <1>2, <1>3 DEF longer, n

LEMMA SpanAppend ==
    ASSUME NEW log \in Seq(Message), NEW msg \in Message, NEW lane, NEW a \in Int, NEW b \in Int
    PROVE  /\ Span(log, lane, a, b) \in SUBSET DOMAIN log
           /\ Span(Append(log, msg), lane, a, b) =
                IF msg.lane = lane /\ msg.max > 0 /\ msg.at \in a .. b
                THEN Span(log, lane, a, b) \cup {Len(log) + 1} ELSE Span(log, lane, a, b)
<1> DEFINE longer == Append(log, msg)
           n == Len(log) + 1
<1>1. /\ DOMAIN longer = DOMAIN log \cup {n} /\ longer[n] = msg
      /\ \A i \in DOMAIN log : longer[i] = log[i] /\ i # n
  OBVIOUS
<1> HIDE DEF longer, n
<1> QED BY <1>1 DEF Span, longer, n

\* Some message of the set was sent under a maximum that the set stays below, or
\* below twice of.
Below(log, kept) == kept # {} => \E k \in kept : Sent(log, kept) < log[k].max

BelowTwice(log, kept) == kept # {} => \E k \in kept : Sent(log, kept) < 2 * log[k].max

LEMMA BelowAppend ==
    ASSUME NEW log \in Seq(Message), NEW msg \in Message, NEW kept \in SUBSET DOMAIN log
    PROVE  /\ Below(log, kept) => Below(Append(log, msg), kept)
           /\ BelowTwice(log, kept) => BelowTwice(Append(log, msg), kept)
<1>1. \A i \in kept : Append(log, msg)[i] = log[i]
  OBVIOUS
<1>2. Sent(Append(log, msg), kept) = Sent(log, kept)
  BY SentAppend
<1> QED BY <1>1, <1>2 DEF Below, BelowTwice

LEMMA BelowIsTwice ==
    ASSUME NEW log \in Seq(Message), NEW kept \in SUBSET DOMAIN log, Below(log, kept)
    PROVE  BelowTwice(log, kept)
<1>1. SUFFICES ASSUME kept # {} PROVE \E k \in kept : Sent(log, kept) < 2 * log[k].max
  BY DEF BelowTwice
<1>2. PICK k \in kept : Sent(log, kept) < log[k].max
  BY <1>1 DEF Below
<1>3. log[k].max \in Nat /\ Sent(log, kept) \in Nat
  BY LogTypes
<1> QED BY <1>2, <1>3

\* Two adjacent sets, each below a maximum, are below twice the larger one.
LEMMA BelowUnion ==
    ASSUME NEW log \in Seq(Message), NEW A \in SUBSET DOMAIN log, NEW B \in SUBSET DOMAIN log,
           A \cap B = {}, Below(log, A), Below(log, B)
    PROVE  BelowTwice(log, A \cup B)
<1>1. /\ Sent(log, A) \in Nat /\ Sent(log, B) \in Nat
      /\ \A i \in DOMAIN log : log[i].max \in Nat
  BY LogTypes
<1>2. Sent(log, A \cup B) = Sent(log, A) + Sent(log, B)
  <2>1. IsFiniteSet(DOMAIN log) /\ \A i \in DOMAIN log : AmountsOf(log)[i] \in Int
    BY LogTypes
  <2> QED BY <2>1, SumUnion DEF Sent
<1>3. CASE A = {}
  <2>1. A \cup B = B
    BY <1>3
  <2> QED BY <2>1, BelowIsTwice
<1>4. CASE B = {}
  <2>1. A \cup B = A
    BY <1>4
  <2> QED BY <2>1, BelowIsTwice
<1>5. CASE A # {} /\ B # {}
  <2>1. PICK j \in A : Sent(log, A) < log[j].max
    BY <1>5 DEF Below
  <2>2. PICK k \in B : Sent(log, B) < log[k].max
    BY <1>5 DEF Below
  <2>3. log[j].max \in Nat /\ log[k].max \in Nat
    BY <1>1
  <2>4. Sent(log, A \cup B) < 2 * log[j].max \/ Sent(log, A \cup B) < 2 * log[k].max
    BY <1>1, <1>2, <2>1, <2>2, <2>3
  <2> QED BY <2>4 DEF BelowTwice
<1> QED BY <1>3, <1>4, <1>5

------------------------------------------------------------------------------
(* The window of a lane.                                                    *)

\* No interval within the current window, up to its end or up to its start,
\* reaches the maximum of the last message in it, and no interval of the length
\* of a window twice that.
WindowKept(log, lane, size, start) ==
    /\ \A i \in DOMAIN log : log[i].lane = lane => log[i].at <= start + TransferWindow
    /\ \A b \in Nat : Sent(log, Span(log, lane, start, b)) <= size
    /\ \A a \in Nat, b \in Nat : a >= start => Below(log, Span(log, lane, a, b))
    /\ \A a \in Nat : a + TransferWindow >= start => Below(log, Span(log, lane, a, start - 1))
    /\ \A a \in Nat : BelowTwice(log, Span(log, lane, a, a + TransferWindow))

\* An interval that reaches into the current window overlaps no window but this
\* one and the last.
LEMMA TwoWindows ==
    ASSUME NEW log \in Seq(Message), NEW lane, NEW start \in Nat,
           \A a \in Nat, b \in Nat : a >= start => Below(log, Span(log, lane, a, b)),
           \A a \in Nat : a + TransferWindow >= start => Below(log, Span(log, lane, a, start - 1)),
           NEW a \in Nat, a + TransferWindow >= start
    PROVE  BelowTwice(log, Span(log, lane, a, a + TransferWindow))
<1> DEFINE A == Span(log, lane, a, start - 1)
           B == Span(log, lane, IF a >= start THEN a ELSE start, a + TransferWindow)
<1>1. a + TransferWindow \in Nat /\ TransferWindow \in Nat
  BY RebalancerAssumption
<1>2. Below(log, A)
  OBVIOUS
<1>3. Below(log, B)
  BY <1>1
<1>4. /\ A \in SUBSET DOMAIN log /\ B \in SUBSET DOMAIN log /\ A \cap B = {}
      /\ A \cup B = Span(log, lane, a, a + TransferWindow)
  <2>1. \A i \in DOMAIN log : log[i].at \in Nat
    BY LogTypes
  <2> QED BY <1>1, <2>1 DEF Span
<1> HIDE DEF A, B
<1>5. BelowTwice(log, A \cup B)
  BY <1>2, <1>3, <1>4, BelowUnion
<1> QED BY <1>4, <1>5

LEMMA SpanTypes ==
    ASSUME NEW log \in Seq(Message), NEW lane, NEW a \in Int, NEW b \in Int
    PROVE  /\ Span(log, lane, a, b) \in SUBSET DOMAIN log
           /\ IsFiniteSet(Span(log, lane, a, b))
           /\ Sent(log, Span(log, lane, a, b)) \in Nat
<1>1. Span(log, lane, a, b) \in SUBSET DOMAIN log
  BY DEF Span
<1> QED BY <1>1, LogTypes

\* A message in an interval of its lane adds its amount to it.
LEMMA SpanGrows ==
    ASSUME NEW log \in Seq(Message), NEW msg \in Message, NEW a \in Int, NEW b \in Int,
           msg.max > 0, msg.at \in a .. b
    PROVE  /\ Len(log) + 1 \in Span(Append(log, msg), msg.lane, a, b)
           /\ Sent(Append(log, msg), Span(Append(log, msg), msg.lane, a, b))
                = Sent(log, Span(log, msg.lane, a, b)) + msg.amount
<1> DEFINE old == Span(log, msg.lane, a, b)
           new == Span(Append(log, msg), msg.lane, a, b)
<1>1. old \in SUBSET DOMAIN log /\ new = old \cup {Len(log) + 1}
  BY SpanAppend
<1> HIDE DEF old, new
<1>2. Sent(Append(log, msg), old \cup {Len(log) + 1}) = Sent(log, old) + msg.amount
  BY <1>1, SentAppend
<1> QED BY <1>1, <1>2 DEF old, new

\* Any other message leaves it what it was.
LEMMA SpanStays ==
    ASSUME NEW log \in Seq(Message), NEW msg \in Message, NEW lane, NEW a \in Int, NEW b \in Int,
           ~(msg.lane = lane /\ msg.max > 0 /\ msg.at \in a .. b)
    PROVE  /\ Sent(Append(log, msg), Span(Append(log, msg), lane, a, b))
                = Sent(log, Span(log, lane, a, b))
           /\ Below(log, Span(log, lane, a, b))
                => Below(Append(log, msg), Span(Append(log, msg), lane, a, b))
           /\ BelowTwice(log, Span(log, lane, a, b))
                => BelowTwice(Append(log, msg), Span(Append(log, msg), lane, a, b))
<1> DEFINE old == Span(log, lane, a, b)
           new == Span(Append(log, msg), lane, a, b)
<1>1. old \in SUBSET DOMAIN log /\ new = old
  BY SpanAppend
<1> HIDE DEF old, new
<1>2. /\ Sent(Append(log, msg), old) = Sent(log, old)
      /\ Below(log, old) => Below(Append(log, msg), old)
      /\ BelowTwice(log, old) => BelowTwice(Append(log, msg), old)
  BY <1>1, SentAppend, BelowAppend
<1> QED BY <1>1, <1>2 DEF old, new

\* A message in the current window.
LEMMA SameWindow ==
    ASSUME NEW log \in Seq(Message), NEW msg \in Message, NEW size \in Nat, NEW start \in Nat,
           WindowKept(log, msg.lane, size, start),
           start <= msg.at, msg.at <= start + TransferWindow,
           msg.max > 0 => size + msg.amount < msg.max
    PROVE  WindowKept(Append(log, msg), msg.lane, size + msg.amount, start)
<1> DEFINE longer == Append(log, msg)
           lane == msg.lane
           Old(a, b) == Span(log, lane, a, b)
           New(a, b) == Span(longer, lane, a, b)
<1>0. msg.at \in Nat /\ msg.amount \in Nat /\ msg.max \in Nat /\ TransferWindow \in Nat
  BY RebalancerAssumption DEF Message
<1>1. /\ longer \in Seq(Message) /\ longer[Len(log) + 1] = msg
      /\ \A i \in DOMAIN longer : (i \in DOMAIN log /\ longer[i] = log[i]) \/ longer[i] = msg
  OBVIOUS
<1>2. /\ \A i \in DOMAIN log : log[i].lane = lane => log[i].at <= start + TransferWindow
      /\ \A b \in Nat : Sent(log, Old(start, b)) <= size
      /\ \A a \in Nat, b \in Nat : a >= start => Below(log, Old(a, b))
      /\ \A a \in Nat : a + TransferWindow >= start => Below(log, Old(a, start - 1))
      /\ \A a \in Nat : BelowTwice(log, Old(a, a + TransferWindow))
  BY DEF WindowKept
<1>3. \A i \in DOMAIN longer : longer[i].lane = lane => longer[i].at <= start + TransferWindow
  BY <1>1, <1>2
<1>4. ASSUME NEW b \in Nat PROVE Sent(longer, New(start, b)) <= size + msg.amount
  <2>0. Sent(log, Old(start, b)) <= size
    BY <1>2
  <2>1. Sent(log, Old(start, b)) \in Nat
    BY SpanTypes
  <2>2. \/ Sent(longer, New(start, b)) = Sent(log, Old(start, b)) + msg.amount
        \/ Sent(longer, New(start, b)) = Sent(log, Old(start, b))
    <3>1. CASE msg.max > 0 /\ msg.at \in start .. b
      BY <3>1, SpanGrows
    <3>2. CASE ~(msg.max > 0 /\ msg.at \in start .. b)
      BY <3>2, SpanStays
    <3> QED BY <3>1, <3>2
  <2> QED BY <1>0, <2>0, <2>1, <2>2
<1>5. ASSUME NEW a \in Nat, NEW b \in Nat, a >= start PROVE Below(longer, New(a, b))
  <2>1. CASE ~(msg.max > 0 /\ msg.at \in a .. b)
    <3>1. Below(log, Old(a, b))
      BY <1>2, <1>5
    <3> QED BY <2>1, <3>1, SpanStays
  <2>2. CASE msg.max > 0 /\ msg.at \in a .. b
    <3>1. /\ Len(log) + 1 \in New(a, b)
          /\ Sent(longer, New(a, b)) = Sent(log, Old(a, b)) + msg.amount
      BY <2>2, SpanGrows
    <3>2. Sent(log, Old(a, b)) <= Sent(log, Old(start, b))
      <4>1. \A i \in DOMAIN log : log[i].at \in Nat /\ AmountsOf(log)[i] \in Nat
        BY LogTypes
      <4>2. Old(a, b) \in SUBSET Old(start, b)
        BY <1>5, <4>1 DEF Span
      <4>3. IsFiniteSet(Old(start, b)) /\ Old(start, b) \in SUBSET DOMAIN log
        BY SpanTypes
      <4> HIDE DEF Old
      <4>4. \A i \in Old(start, b) : AmountsOf(log)[i] \in Nat
        BY <4>1, <4>3
      <4> QED BY <4>2, <4>3, <4>4, SumAtLeast DEF Sent
    <3>3. Sent(log, Old(start, b)) <= size
      BY <1>2
    <3>4. Sent(log, Old(start, b)) \in Nat /\ Sent(log, Old(a, b)) \in Nat
      BY SpanTypes
    <3>5. Sent(longer, New(a, b)) < longer[Len(log) + 1].max
      BY <1>0, <1>1, <2>2, <3>1, <3>2, <3>3, <3>4
    <3> QED BY <3>1, <3>5 DEF Below
  <2> QED BY <2>1, <2>2
<1>6. ASSUME NEW a \in Nat, a + TransferWindow >= start
      PROVE  Below(longer, New(a, start - 1))
  <2>1. ~(msg.at \in a .. start - 1) /\ start - 1 \in Int
    BY <1>0
  <2>2. Below(log, Old(a, start - 1))
    BY <1>2, <1>6
  <2> QED BY <2>1, <2>2, SpanStays
<1>7. ASSUME NEW a \in Nat PROVE BelowTwice(longer, New(a, a + TransferWindow))
  <2>1. CASE a + TransferWindow >= start
    BY <1>1, <1>5, <1>6, <2>1, TwoWindows
  <2>2. CASE a + TransferWindow < start
    <3>1. ~(msg.at \in a .. a + TransferWindow) /\ a + TransferWindow \in Int
      BY <1>0, <2>2
    <3>2. BelowTwice(log, Old(a, a + TransferWindow))
      BY <1>2
    <3> QED BY <3>1, <3>2, SpanStays
  <2> QED BY <1>0, <2>1, <2>2
<1> QED BY <1>3, <1>4, <1>5, <1>6, <1>7 DEF WindowKept

\* A message that starts a window.
LEMMA NewWindow ==
    ASSUME NEW log \in Seq(Message), NEW msg \in Message, NEW size \in Nat, NEW start \in Nat,
           WindowKept(log, msg.lane, size, start),
           msg.at > start + TransferWindow,
           msg.max > 0 => size + msg.amount < msg.max
    PROVE  WindowKept(Append(log, msg), msg.lane, msg.amount, msg.at)
<1> DEFINE longer == Append(log, msg)
           lane == msg.lane
           Old(a, b) == Span(log, lane, a, b)
           New(a, b) == Span(longer, lane, a, b)
<1>0. msg.at \in Nat /\ msg.amount \in Nat /\ msg.max \in Nat /\ TransferWindow \in Nat
  BY RebalancerAssumption DEF Message
<1>1. /\ longer \in Seq(Message) /\ longer[Len(log) + 1] = msg
      /\ \A i \in DOMAIN longer : (i \in DOMAIN log /\ longer[i] = log[i]) \/ longer[i] = msg
  OBVIOUS
<1>2. /\ \A i \in DOMAIN log : log[i].lane = lane => log[i].at <= start + TransferWindow
      /\ \A a \in Nat, b \in Nat : a >= start => Below(log, Old(a, b))
      /\ \A a \in Nat : BelowTwice(log, Old(a, a + TransferWindow))
  BY DEF WindowKept
\* Nothing was sent since it starts.
<1>3. ASSUME NEW a \in Nat, NEW b \in Nat, a >= msg.at PROVE Old(a, b) = {} /\ Sent(log, Old(a, b)) = 0
  <2>1. \A i \in DOMAIN log : log[i].at \in Nat
    BY LogTypes
  <2>2. Old(a, b) = {}
    BY <1>0, <1>2, <1>3, <2>1 DEF Span
  <2> QED BY <2>2, SumEmpty DEF Sent
<1>4. \A i \in DOMAIN longer : longer[i].lane = lane => longer[i].at <= msg.at + TransferWindow
  <2>1. \A i \in DOMAIN log : log[i].at \in Nat
    BY LogTypes
  <2>2. ASSUME NEW i \in DOMAIN log, log[i].lane = lane PROVE log[i].at <= msg.at + TransferWindow
    <3>1. log[i].at <= start + TransferWindow
      BY <1>2, <2>2
    <3> QED BY <1>0, <2>1, <3>1
  <2>3. msg.at <= msg.at + TransferWindow
    BY <1>0
  <2> HIDE DEF longer
  <2> QED BY <1>1, <2>2, <2>3
<1>5. ASSUME NEW a \in Nat, NEW b \in Nat, a >= msg.at
      PROVE  Sent(longer, New(a, b)) <= msg.amount /\ Below(longer, New(a, b))
  <2>1. CASE msg.max > 0 /\ msg.at \in a .. b
    <3>1. Len(log) + 1 \in New(a, b) /\ Sent(longer, New(a, b)) = Sent(log, Old(a, b)) + msg.amount
      BY <2>1, SpanGrows
    <3>2. Sent(longer, New(a, b)) = msg.amount
      BY <1>0, <1>3, <1>5, <3>1
    <3>3. Sent(longer, New(a, b)) < longer[Len(log) + 1].max
      BY <1>0, <1>1, <2>1, <3>2
    <3> QED BY <1>0, <3>1, <3>2, <3>3 DEF Below
  <2>2. CASE ~(msg.max > 0 /\ msg.at \in a .. b)
    <3>1. Below(log, Old(a, b))
      BY <1>3, <1>5 DEF Below
    <3>2. Sent(longer, New(a, b)) = Sent(log, Old(a, b)) /\ Below(longer, New(a, b))
      BY <2>2, <3>1, SpanStays
    <3> QED BY <1>0, <1>3, <1>5, <3>2
  <2> QED BY <2>1, <2>2
<1>6. ASSUME NEW a \in Nat, a + TransferWindow >= msg.at
      PROVE  Below(longer, New(a, msg.at - 1))
  <2>1. ~(msg.at \in a .. msg.at - 1) /\ msg.at - 1 \in Nat /\ a >= start
    BY <1>0, <1>6
  <2>2. Below(log, Old(a, msg.at - 1))
    BY <1>2, <2>1
  <2> QED BY <2>1, <2>2, SpanStays
<1>7. ASSUME NEW a \in Nat PROVE BelowTwice(longer, New(a, a + TransferWindow))
  <2>1. CASE a + TransferWindow >= msg.at
    BY <1>0, <1>1, <1>5, <1>6, <2>1, TwoWindows
  <2>2. CASE a + TransferWindow < msg.at
    <3>1. ~(msg.at \in a .. a + TransferWindow) /\ a + TransferWindow \in Int
      BY <1>0, <2>2
    <3>2. BelowTwice(log, Old(a, a + TransferWindow))
      BY <1>2
    <3> QED BY <3>1, <3>2, SpanStays
  <2> QED BY <1>0, <2>1, <2>2
<1>8. \A b \in Nat : Sent(longer, New(msg.at, b)) <= msg.amount
  <2>1. msg.at >= msg.at
    BY <1>0
  <2> QED BY <1>0, <1>5, <2>1
<1>9. \A a \in Nat, b \in Nat : a >= msg.at => Below(longer, New(a, b))
  BY <1>5
<1> QED BY <1>4, <1>6, <1>7, <1>8, <1>9 DEF WindowKept

\* A message on another lane.
LEMMA OtherLane ==
    ASSUME NEW log \in Seq(Message), NEW msg \in Message, NEW lane, lane # msg.lane,
           NEW size \in Nat, NEW start \in Nat, WindowKept(log, lane, size, start)
    PROVE  WindowKept(Append(log, msg), lane, size, start)
<1> DEFINE longer == Append(log, msg)
           Old(a, b) == Span(log, lane, a, b)
           New(a, b) == Span(longer, lane, a, b)
<1>0. TransferWindow \in Nat
  BY RebalancerAssumption
<1>1. \A i \in DOMAIN longer : (i \in DOMAIN log /\ longer[i] = log[i]) \/ longer[i] = msg
  OBVIOUS
<1>2. /\ \A i \in DOMAIN log : log[i].lane = lane => log[i].at <= start + TransferWindow
      /\ \A b \in Nat : Sent(log, Old(start, b)) <= size
      /\ \A a \in Nat, b \in Nat : a >= start => Below(log, Old(a, b))
      /\ \A a \in Nat : a + TransferWindow >= start => Below(log, Old(a, start - 1))
      /\ \A a \in Nat : BelowTwice(log, Old(a, a + TransferWindow))
  BY DEF WindowKept
<1>3. ASSUME NEW a \in Int, NEW b \in Int
      PROVE  /\ Sent(longer, New(a, b)) = Sent(log, Old(a, b))
             /\ Below(log, Old(a, b)) => Below(longer, New(a, b))
             /\ BelowTwice(log, Old(a, b)) => BelowTwice(longer, New(a, b))
  BY SpanStays
<1>4. \A i \in DOMAIN longer : longer[i].lane = lane => longer[i].at <= start + TransferWindow
  BY <1>1, <1>2
<1>5. ASSUME NEW a \in Nat
      PROVE  a \in Int /\ start \in Int /\ start - 1 \in Int /\ a + TransferWindow \in Int
  BY <1>0
<1> HIDE DEF Old, New, longer
<1>6. \A b \in Nat : Sent(longer, New(start, b)) <= size
  BY <1>2, <1>3
<1>7. \A a \in Nat, b \in Nat : a >= start => Below(longer, New(a, b))
  BY <1>2, <1>3
<1>8. \A a \in Nat : a + TransferWindow >= start => Below(longer, New(a, start - 1))
  BY <1>2, <1>3, <1>5
<1>9. \A a \in Nat : BelowTwice(longer, New(a, a + TransferWindow))
  BY <1>2, <1>3, <1>5
<1> QED BY <1>4, <1>6, <1>7, <1>8, <1>9 DEF WindowKept, New, longer

\* Nothing sent yet.
LEMMA EmptyWindow ==
    ASSUME NEW lane PROVE WindowKept(<<>>, lane, 0, 0)
<1>1. \A a, b : Span(<<>>, lane, a, b) = {}
  BY DEF Span
<1>2. Sent(<<>>, {}) = 0
  BY SumEmpty DEF Sent
<1>3. DOMAIN <<>> = {}
  OBVIOUS
<1>4. Below(<<>>, {}) /\ BelowTwice(<<>>, {})
  BY DEF Below, BelowTwice
<1>5. ASSUME NEW a, NEW b
      PROVE  /\ Sent(<<>>, Span(<<>>, lane, a, b)) <= 0
             /\ Below(<<>>, Span(<<>>, lane, a, b)) /\ BelowTwice(<<>>, Span(<<>>, lane, a, b))
  <2>1. Span(<<>>, lane, a, b) = {}
    BY <1>1
  <2> QED BY <1>2, <1>4, <2>1
<1> QED BY <1>3, <1>5 DEF WindowKept

\* Finitely many naturals have a maximum.
LEMMA MaxIsLargest ==
    ASSUME NEW S, IsFiniteSet(S), S # {}, NEW f, \A x \in S : f[x] \in Nat,
           NEW values, values = {f[x] : x \in S}
    PROVE  Max(values) \in values /\ \A x \in S : f[x] <= Max(values)
<1> DEFINE G == {T \in SUBSET S : T # {} => \E x \in T : \A y \in T : f[x] >= f[y]}
<1>1. {} \in G
  OBVIOUS
<1>2. ASSUME NEW T \in SUBSET S, NEW z \in S, T \in G, z \notin T PROVE T \cup {z} \in G
  <2>1. CASE T = {}
    BY <2>1
  <2>2. CASE T # {}
    <3>1. PICK x \in T : \A y \in T : f[x] >= f[y]
      BY <1>2, <2>2
    <3>2. \A y \in T \cup {z} : f[y] \in Nat
      OBVIOUS
    <3>3. CASE f[x] >= f[z]
      BY <3>1, <3>3
    <3>4. CASE ~(f[x] >= f[z])
      <4>1. \A y \in T \cup {z} : f[z] >= f[y]
        BY <3>1, <3>2, <3>4
      <4> QED BY <4>1
    <3> QED BY <3>3, <3>4
  <2> QED BY <2>1, <2>2
<1>3. S \in G
  <2> HIDE DEF G
  <2> QED BY <1>1, <1>2, FiniteSetInduction
<1>4. \E x \in S : \A y \in S : f[x] >= f[y]
  BY <1>3
<1>5. \E v \in values : \A w \in values : v >= w
  BY <1>4
<1>6. Max(values) \in values /\ \A w \in values : Max(values) >= w
  BY <1>5 DEF Max
<1>7. \A x \in S : f[x] \in values /\ f[x] \in Nat /\ values \subseteq Nat
  OBVIOUS
<1> QED BY <1>6, <1>7

------------------------------------------------------------------------------
(* Types: SendMsg overdraws neither the market nor the bridge.              *)

LEMMA InitTypes ==
    ASSUME Init PROVE TypeOK
<1>1. logs \in Seq([bridge : Bridges, lane : Lanes, amount : Nat, at : Nat, max : Nat])
  BY DEF Init
<1> QED BY <1>1, RebalancerAssumption DEF Init, TypeOK

LEMMA SendTypes ==
    ASSUME TypeOK, NEW b \in Bridges, NEW m \in Markets, NEW a \in Amounts, NEW d \in Dsts,
           NEW named \in Amounts, SendMsg(b, m, a, d, named)
    PROVE  TypeOK'
<1> DEFINE lane == <<d, Underlying[m]>>
           msg == [bridge |-> b, lane |-> lane, amount |-> a, at |-> now,
                   max |-> maxTransferSizes[lane]]
<1>1. /\ a \in Nat /\ named \in Nat /\ TransferWindow \in Nat
      /\ Underlying[m] \in Tokens /\ lane \in Lanes
  BY RebalancerAssumption DEF Tokens, Lanes
<1>2. /\ UNCHANGED <<now, config>> /\ logs' = Append(logs, msg)
      /\ currentTransferSize' = [currentTransferSize EXCEPT ![lane] = WindowAfter(lane, a)]
      /\ marketBalance[m] >= a
  BY DEF SendMsg, Admitted
<1>3. logs' \in Seq([bridge : Bridges, lane : Lanes, amount : Nat, at : Nat, max : Nat])
  <2>1. maxTransferSizes[lane] \in Nat
    BY <1>1 DEF TypeOK
  <2>2. msg \in [bridge : Bridges, lane : Lanes, amount : Nat, at : Nat, max : Nat]
    BY <1>1, <2>1 DEF TypeOK
  <2> HIDE DEF msg
  <2> QED BY <1>2, <2>2 DEF TypeOK
<1>4. currentTransferSize' \in [Lanes -> [size : Nat, timestamp : Nat]]
  <2>1. currentTransferSize[lane] \in [size : Nat, timestamp : Nat]
    BY <1>1 DEF TypeOK
  <2>2. WindowAfter(lane, a) \in [size : Nat, timestamp : Nat]
    <3>1. now \in Nat /\ currentTransferSize[lane].size + a \in Nat
      BY <1>1, <2>1 DEF TypeOK
    <3>2. [currentTransferSize[lane] EXCEPT !.size = @ + a] \in [size : Nat, timestamp : Nat]
      BY <2>1, <3>1
    <3> QED BY <1>1, <3>1, <3>2 DEF WindowAfter
  <2> QED BY <1>1, <1>2, <2>2 DEF TypeOK
<1>5. /\ marketBalance' \in [Markets -> Nat]
      /\ \A f \in {rebalancerBalance', everclearBalance', bridged'} : f \in [Tokens -> Nat]
  <2>1. /\ marketBalance[m] \in Nat /\ rebalancerBalance[Underlying[m]] \in Nat
        /\ everclearBalance[Underlying[m]] \in Nat /\ bridged[Underlying[m]] \in Nat
    BY <1>1 DEF TypeOK
  <2>0. /\ marketBalance \in [Markets -> Nat] /\ rebalancerBalance \in [Tokens -> Nat]
        /\ everclearBalance \in [Tokens -> Nat] /\ bridged \in [Tokens -> Nat]
    BY DEF TypeOK
  <2>2. CASE Across(m, a, d, named)
    <3>1. /\ marketBalance[m] - a \in Nat /\ bridged[Underlying[m]] + a \in Nat
      <4>1. marketBalance[m] >= a /\ a \in Nat
        BY <1>1, <1>2
      <4> HIDE DEF lane, msg
      <4> QED BY <2>1, <4>1
    <3>2. /\ marketBalance' = [marketBalance EXCEPT ![m] = @ - a]
          /\ bridged' = [bridged EXCEPT ![Underlying[m]] = @ + a]
          /\ UNCHANGED <<rebalancerBalance, everclearBalance>>
      BY <2>2 DEF Across
    <3>3. marketBalance' \in [Markets -> Nat] /\ bridged' \in [Tokens -> Nat]
      BY <2>0, <3>1, <3>2
    <3> QED BY <2>0, <3>2, <3>3
  <2>3. CASE Everclear(m, a, named)
    <3>1. /\ named <= a /\ everclearBalance[Underlying[m]] >= a
      BY <2>3 DEF Everclear
    <3>2. /\ marketBalance[m] - named \in Nat /\ bridged[Underlying[m]] + named \in Nat
          /\ everclearBalance[Underlying[m]] - a \in Nat
          /\ rebalancerBalance[Underlying[m]] + a \in Nat
      <4>1. marketBalance[m] >= a /\ a \in Nat /\ named \in Nat
        BY <1>1, <1>2
      <4> HIDE DEF lane, msg
      <4> QED BY <2>1, <3>1, <4>1
    <3>3. /\ marketBalance' = [marketBalance EXCEPT ![m] = @ - named]
          /\ bridged' = [bridged EXCEPT ![Underlying[m]] = @ + named]
          /\ everclearBalance' = [everclearBalance EXCEPT ![Underlying[m]] = @ - a]
          /\ rebalancerBalance' = [rebalancerBalance EXCEPT ![Underlying[m]] = @ + a]
      BY <2>3 DEF Everclear
    <3>4. marketBalance' \in [Markets -> Nat] /\ bridged' \in [Tokens -> Nat]
      BY <2>0, <3>2, <3>3
    <3>5. everclearBalance' \in [Tokens -> Nat] /\ rebalancerBalance' \in [Tokens -> Nat]
      BY <2>0, <3>2, <3>3
    <3> QED BY <3>4, <3>5
  <2> QED BY <2>2, <2>3 DEF SendMsg
<1> QED BY <1>2, <1>3, <1>4, <1>5 DEF TypeOK, config

LEMMA ConfigTypes ==
    ASSUME TypeOK, SetConfig PROVE TypeOK'
<1>1. UNCHANGED <<now, currentTransferSize, logs, money>>
  BY DEF SetConfig
<1>2. MinSizes \subseteq Nat /\ MaxSizes \subseteq Nat
  BY RebalancerAssumption
<1>3. /\ whitelistedBridges' \subseteq Bridges /\ whitelistedDestinations' \subseteq Dsts
      /\ allowedList' \subseteq Markets /\ whitelistedRelayers' \subseteq Dsts
      /\ minTransferSizes' \in [Lanes -> Nat] /\ maxTransferSizes' \in [Lanes -> Nat]
  BY <1>2 DEF SetConfig, SetAllowList, SetWhitelistedBridgeStatus, SetWhitelistedDestination,
     SetWhitelistedRelayer, SetMinTransferSize, SetMaxTransferSize, Toggled, TypeOK
<1> QED BY <1>1, <1>3 DEF TypeOK, money

LEMMA StrayTypes ==
    ASSUME TypeOK, NEW t \in Tokens, SendStray(t) PROVE TypeOK'
<1>1. everclearBalance[t] + 1 \in Nat
  BY DEF TypeOK
<1> QED BY <1>1 DEF TypeOK, SendStray, config

LEMMA NextTypes ==
    ASSUME TypeOK, [Next]_vars PROVE TypeOK'
<1>1. CASE SetConfig
  BY <1>1, ConfigTypes
<1>2. ASSUME NEW b \in Bridges, NEW m \in Markets, NEW a \in Amounts, NEW named \in Amounts,
             NEW d \in Dsts, SendMsg(b, m, a, d, named)
      PROVE  TypeOK'
  BY <1>2, SendTypes
<1>3. ASSUME NEW t \in Tokens, SendStray(t) PROVE TypeOK'
  BY <1>3, StrayTypes
<1>4. CASE Tick
  BY <1>4 DEF Tick, TypeOK, config, money
<1>5. CASE UNCHANGED vars
  BY <1>5 DEF vars, TypeOK, config, money
<1> QED BY <1>1, <1>2, <1>3, <1>4, <1>5 DEF Next

\* Every state reached has its types: no transfer takes from a market or from
\* EverclearBridge more than it holds (Rebalancer.sendMsg, EverclearBridge.sendMsg).
THEOREM RebalancerTypes == Spec => []TypeOK
<1>1. Init => TypeOK
  BY InitTypes
<1>2. TypeOK /\ [Next]_vars => TypeOK'
  BY NextTypes
<1> QED BY <1>1, <1>2, PTL DEF Spec

------------------------------------------------------------------------------
(* The bound on every interval.                                             *)

\* Every lane's log is kept by its window, which has started.
WindowsKept ==
    \A lane \in Lanes :
        /\ currentTransferSize[lane].timestamp <= now
        /\ WindowKept(logs, lane, currentTransferSize[lane].size,
                      currentTransferSize[lane].timestamp)

LEMMA InitWindows ==
    ASSUME Init PROVE WindowsKept
<1>1. ASSUME NEW lane \in Lanes
      PROVE  /\ currentTransferSize[lane].timestamp = 0 /\ currentTransferSize[lane].size = 0
             /\ logs = <<>> /\ 0 <= now
  BY RebalancerAssumption DEF Init
<1> QED BY <1>1, EmptyWindow DEF WindowsKept

LEMMA SendWindows ==
    ASSUME TypeOK, WindowsKept,
           NEW b \in Bridges, NEW m \in Markets, NEW a \in Amounts, NEW d \in Dsts,
           NEW named \in Amounts, SendMsg(b, m, a, d, named)
    PROVE  WindowsKept'
<1> DEFINE lane == <<d, Underlying[m]>>
           old == currentTransferSize[lane]
           msg == [bridge |-> b, lane |-> lane, amount |-> a, at |-> now,
                   max |-> maxTransferSizes[lane]]
<1>1. /\ a \in Nat /\ TransferWindow \in Nat /\ lane \in Lanes /\ now \in Nat
      /\ maxTransferSizes[lane] \in Nat /\ old \in [size : Nat, timestamp : Nat]
      /\ logs \in Seq(Message) /\ DOMAIN currentTransferSize = Lanes
  BY RebalancerAssumption DEF Tokens, Lanes, TypeOK, Message
<1>2. msg \in Message
  BY <1>1 DEF Message
<1>3. /\ now' = now /\ logs' = Append(logs, msg)
      /\ currentTransferSize' = [currentTransferSize EXCEPT ![lane] = WindowAfter(lane, a)]
      /\ maxTransferSizes[lane] > 0 => old.size + a < maxTransferSizes[lane]
  BY DEF SendMsg, Admitted, UnderMaximum
<1>4. old.timestamp <= now /\ WindowKept(logs, msg.lane, old.size, old.timestamp)
  BY <1>1 DEF WindowsKept
<1>5. /\ msg.lane = lane /\ msg.at = now /\ msg.amount = a /\ msg.max = maxTransferSizes[lane]
      /\ old.size \in Nat /\ old.timestamp \in Nat
  BY <1>1
<1> HIDE DEF msg
<1>6. /\ WindowAfter(lane, a).timestamp <= now
      /\ WindowKept(Append(logs, msg), lane, WindowAfter(lane, a).size,
                    WindowAfter(lane, a).timestamp)
  <2>1. CASE WindowOver(lane)
    <3>1. WindowAfter(lane, a) = [size |-> a, timestamp |-> now]
      BY <2>1 DEF WindowAfter
    <3>2. msg.at > old.timestamp + TransferWindow
      BY <1>1, <1>5, <2>1 DEF WindowOver
    <3>3. WindowKept(Append(logs, msg), msg.lane, msg.amount, msg.at)
      BY <1>1, <1>2, <1>3, <1>4, <1>5, <3>2, NewWindow
    <3> QED BY <1>1, <1>5, <3>1, <3>3
  <2>2. CASE ~WindowOver(lane)
    <3>1. WindowAfter(lane, a) = [old EXCEPT !.size = @ + a]
      BY <2>2 DEF WindowAfter
    <3>2. WindowAfter(lane, a).size = old.size + a /\ WindowAfter(lane, a).timestamp = old.timestamp
      BY <1>1, <3>1
    <3>3. old.timestamp <= msg.at /\ msg.at <= old.timestamp + TransferWindow
      BY <1>1, <1>4, <1>5, <2>2 DEF WindowOver
    <3>4. WindowKept(Append(logs, msg), msg.lane, old.size + msg.amount, old.timestamp)
      BY <1>1, <1>2, <1>3, <1>4, <1>5, <3>3, SameWindow
    <3> QED BY <1>4, <1>5, <3>2, <3>4
  <2> QED BY <2>1, <2>2
<1>7. ASSUME NEW other \in Lanes, other # lane
      PROVE  /\ currentTransferSize[other].timestamp <= now
             /\ WindowKept(Append(logs, msg), other, currentTransferSize[other].size,
                           currentTransferSize[other].timestamp)
  <2>1. currentTransferSize[other] \in [size : Nat, timestamp : Nat]
    BY DEF TypeOK
  <2>2. currentTransferSize[other].size \in Nat /\ currentTransferSize[other].timestamp \in Nat
    BY <2>1
  <2>3. /\ currentTransferSize[other].timestamp <= now
        /\ WindowKept(logs, other, currentTransferSize[other].size,
                      currentTransferSize[other].timestamp)
    BY DEF WindowsKept
  <2> QED BY <1>1, <1>2, <1>5, <1>7, <2>2, <2>3, OtherLane
<1>8. /\ currentTransferSize'[lane] = WindowAfter(lane, a)
      /\ \A other \in Lanes : other # lane => currentTransferSize'[other] = currentTransferSize[other]
  BY <1>1, <1>3
<1>9. ASSUME NEW l \in Lanes
      PROVE  /\ currentTransferSize'[l].timestamp <= now'
             /\ WindowKept(logs', l, currentTransferSize'[l].size, currentTransferSize'[l].timestamp)
  <2>1. CASE l = lane
    BY <1>3, <1>6, <1>8, <2>1
  <2>2. CASE l # lane
    BY <1>3, <1>7, <1>8, <2>2
  <2> QED BY <2>1, <2>2
<1> QED BY <1>9 DEF WindowsKept

LEMMA NextWindows ==
    ASSUME TypeOK, WindowsKept, [Next]_vars PROVE WindowsKept'
<1>1. ASSUME now' \in Nat, now' >= now, UNCHANGED <<currentTransferSize, logs>>
      PROVE  WindowsKept'
  <2>1. ASSUME NEW l \in Lanes
        PROVE  /\ currentTransferSize'[l].timestamp <= now'
               /\ WindowKept(logs', l, currentTransferSize'[l].size,
                             currentTransferSize'[l].timestamp)
    <3>1. currentTransferSize[l] \in [size : Nat, timestamp : Nat] /\ now \in Nat
      BY DEF TypeOK
    <3>2. /\ currentTransferSize[l].timestamp <= now
          /\ WindowKept(logs, l, currentTransferSize[l].size, currentTransferSize[l].timestamp)
      BY DEF WindowsKept
    <3>3. currentTransferSize[l].timestamp \in Nat
      BY <3>1
    <3>4. currentTransferSize[l].timestamp <= now'
      BY <1>1, <3>1, <3>2, <3>3
    <3> QED BY <1>1, <3>2, <3>4
  <2> QED BY <2>1 DEF WindowsKept
<1>2. ASSUME NEW b \in Bridges, NEW m \in Markets, NEW a \in Amounts, NEW named \in Amounts,
             NEW d \in Dsts, SendMsg(b, m, a, d, named)
      PROVE  WindowsKept'
  BY <1>2, SendWindows
<1>3. now \in Nat
  BY DEF TypeOK
<1>4. CASE SetConfig
  BY <1>1, <1>3, <1>4 DEF SetConfig
<1>5. ASSUME NEW t \in Tokens, SendStray(t) PROVE WindowsKept'
  BY <1>1, <1>3, <1>5 DEF SendStray
<1>6. CASE Tick
  BY <1>1, <1>3, <1>6 DEF Tick
<1>7. CASE UNCHANGED vars
  BY <1>1, <1>3, <1>7 DEF vars
<1> QED BY <1>2, <1>4, <1>5, <1>6, <1>7 DEF Next

LEMMA WindowsBound ==
    ASSUME TypeOK, WindowsKept PROVE SlidingBound
<1>1. logs \in Seq(Message) /\ TransferWindow \in Nat
  BY RebalancerAssumption DEF TypeOK, Message
<1>2. SUFFICES ASSUME NEW lane \in Lanes, NEW i \in DOMAIN logs, Capped(lane, logs[i].at) # {}
      PROVE  Total(Capped(lane, logs[i].at)) < 2 * Max({logs[k].max : k \in Capped(lane, logs[i].at)})
  BY DEF SlidingBound
<1> DEFINE t == logs[i].at
           sent == Capped(lane, t)
           maxima == {logs[k].max : k \in sent}
<1>3. t \in Nat /\ \A k \in DOMAIN logs : logs[k].max \in Nat
  BY <1>1, LogTypes
<1>4. sent = Span(logs, lane, t, t + TransferWindow) /\ Total(sent) = Sent(logs, sent)
  BY DEF Capped, Span, Total, Sent, AmountsOf
<1>5. BelowTwice(logs, Span(logs, lane, t, t + TransferWindow))
  BY <1>3 DEF WindowsKept, WindowKept
<1>6. sent \in SUBSET DOMAIN logs /\ IsFiniteSet(sent) /\ Sent(logs, sent) \in Nat
  <2>1. sent \in SUBSET DOMAIN logs
    BY DEF Capped
  <2> QED BY <1>1, <2>1, LogTypes
<1>7. sent # {}
  BY <1>2
<1> HIDE DEF sent, t
<1>8. PICK k \in sent : Sent(logs, sent) < 2 * logs[k].max
  BY <1>4, <1>5, <1>7 DEF BelowTwice
<1>9. Max(maxima) \in Nat /\ logs[k].max <= Max(maxima) /\ logs[k].max \in Nat
  <2> DEFINE f == [j \in sent |-> logs[j].max]
  <2>1. /\ \A j \in sent : f[j] \in Nat /\ f[j] = logs[j].max
        /\ maxima = {f[j] : j \in sent} /\ maxima \subseteq Nat
    BY <1>3, <1>6
  <2> HIDE DEF f, maxima
  <2>2. Max(maxima) \in maxima /\ \A j \in sent : f[j] <= Max(maxima)
    <3>1. IsFiniteSet(sent) /\ sent # {}
      BY <1>6, <1>7
    <3>2. \A j \in sent : f[j] \in Nat
      BY <2>1
    <3>3. maxima = {f[j] : j \in sent}
      BY <2>1
    <3> QED BY <3>1, <3>2, <3>3, MaxIsLargest, ZenonT(60)
  <2> QED BY <2>1, <2>2
<1>10. Total(sent) < 2 * Max(maxima)
  <2> DEFINE top == Max(maxima)
             all == Sent(logs, sent)
             one == logs[k].max
  <2>1. all \in Nat /\ all < 2 * one /\ top \in Nat /\ one \in Nat /\ one <= top /\ Total(sent) = all
    BY <1>4, <1>6, <1>8, <1>9
  <2> HIDE DEF maxima, top, all, one
  <2>2. all < 2 * top
    BY <2>1
  <2> QED BY <2>1, <2>2 DEF top
<1> QED BY <1>10 DEF sent, t

\* In no interval of the length of a window do the capped transfers of a lane reach
\* twice the largest maximum in force when one of them was sent
\* (Rebalancer.sendMsg, which renews the window but checks the size it had).
THEOREM LanesStayBounded == Spec => []SlidingBound
<1>1. Init => TypeOK /\ WindowsKept
  BY InitTypes, InitWindows
<1>2. TypeOK /\ WindowsKept /\ [Next]_vars => TypeOK' /\ WindowsKept'
  BY NextTypes, NextWindows
<1>3. TypeOK /\ WindowsKept => SlidingBound
  BY WindowsBound
<1> QED BY <1>1, <1>2, <1>3, PTL DEF Spec

------------------------------------------------------------------------------
(* What stays with the Rebalancer.                                          *)

Stranded(log, t) == {i \in DOMAIN log : log[i].bridge = "Everclear" /\ log[i].lane[2] = t}

LEMMA StrandedAppend ==
    ASSUME NEW log \in Seq(Message), NEW msg \in Message, NEW t
    PROVE  /\ Sent(log, Stranded(log, t)) \in Nat
           /\ Sent(Append(log, msg), Stranded(Append(log, msg), t)) =
                IF msg.bridge = "Everclear" /\ msg.lane[2] = t
                THEN Sent(log, Stranded(log, t)) + msg.amount ELSE Sent(log, Stranded(log, t))
<1> DEFINE longer == Append(log, msg)
           n == Len(log) + 1
           old == Stranded(log, t)
           new == Stranded(longer, t)
<1>1. /\ DOMAIN longer = DOMAIN log \cup {n} /\ longer[n] = msg
      /\ \A i \in DOMAIN log : longer[i] = log[i]
  OBVIOUS
<1>2. /\ old \in SUBSET DOMAIN log
      /\ new = IF msg.bridge = "Everclear" /\ msg.lane[2] = t THEN old \cup {n} ELSE old
  <2> HIDE DEF longer, n
  <2> QED BY <1>1 DEF Stranded
<1> HIDE DEF old, new
<1>3. /\ Sent(longer, old) = Sent(log, old)
      /\ Sent(longer, old \cup {n}) = Sent(log, old) + msg.amount
  BY <1>2, SentAppend
<1>4. Sent(log, old) \in Nat
  BY <1>2, LogTypes
<1> QED BY <1>2, <1>3, <1>4 DEF old, new

\* OnlyEverclearStrands, of the log.
Remains == \A t \in Tokens : rebalancerBalance[t] = Sent(logs, Stranded(logs, t))

LEMMA RemainsIsStranded == Remains <=> OnlyEverclearStrands
  BY DEF Remains, OnlyEverclearStrands, Stranded, Sent, Total, AmountsOf

LEMMA SendRemains ==
    ASSUME TypeOK, Remains,
           NEW b \in Bridges, NEW m \in Markets, NEW a \in Amounts, NEW d \in Dsts,
           NEW named \in Amounts, SendMsg(b, m, a, d, named)
    PROVE  Remains'
<1> DEFINE token == Underlying[m]
           lane == <<d, token>>
           msg == [bridge |-> b, lane |-> lane, amount |-> a, at |-> now,
                   max |-> maxTransferSizes[lane]]
<1>1. /\ a \in Nat /\ lane \in Lanes /\ now \in Nat /\ maxTransferSizes[lane] \in Nat
      /\ logs \in Seq(Message) /\ rebalancerBalance \in [Tokens -> Nat] /\ token \in Tokens
  BY RebalancerAssumption DEF Tokens, Lanes, TypeOK, Message
<1>2. msg \in Message
  BY <1>1 DEF Message
<1>3. logs' = Append(logs, msg)
  BY DEF SendMsg
<1>4. msg.bridge = b /\ msg.lane[2] = token /\ msg.amount = a
  OBVIOUS
<1> HIDE DEF msg, lane
<1>5. ASSUME NEW t \in Tokens
      PROVE  rebalancerBalance'[t] = IF b = "Everclear" /\ token = t
                                     THEN rebalancerBalance[t] + a ELSE rebalancerBalance[t]
  <2>1. CASE b = "Across" /\ Across(m, a, d, named)
    BY <2>1 DEF Across
  <2>2. CASE b = "Everclear" /\ Everclear(m, a, named)
    BY <1>1, <2>2 DEF Everclear
  <2> QED BY <2>1, <2>2 DEF SendMsg
<1>6. ASSUME NEW t \in Tokens
      PROVE  rebalancerBalance'[t] = Sent(logs', Stranded(logs', t))
  <2>1. rebalancerBalance[t] = Sent(logs, Stranded(logs, t))
    BY DEF Remains
  <2>2. Sent(logs', Stranded(logs', t)) =
          IF b = "Everclear" /\ token = t
          THEN Sent(logs, Stranded(logs, t)) + a ELSE Sent(logs, Stranded(logs, t))
    BY <1>1, <1>2, <1>3, <1>4, StrandedAppend
  <2> QED BY <1>5, <2>1, <2>2
<1> QED BY <1>6 DEF Remains

\* What is left on the Rebalancer is what went out by Everclear, token by token
\* (EverclearBridge.sendMsg pays out of its own balance).
THEOREM EverclearStrands == Spec => []OnlyEverclearStrands
<1>1. ASSUME Init PROVE TypeOK /\ Remains
  <2>1. ASSUME NEW t \in Tokens PROVE rebalancerBalance[t] = Sent(logs, Stranded(logs, t))
    <3>1. rebalancerBalance[t] = 0 /\ logs = <<>>
      BY <1>1 DEF Init
    <3>2. Stranded(logs, t) = {}
      BY <3>1 DEF Stranded
    <3> QED BY <3>1, <3>2, SumEmpty DEF Sent
  <2> QED BY <1>1, <2>1, InitTypes DEF Remains
<1>2. ASSUME TypeOK, Remains, [Next]_vars PROVE TypeOK' /\ Remains'
  <2>0. TypeOK'
    BY <1>2, NextTypes
  <2>1. ASSUME logs' = logs, rebalancerBalance' = rebalancerBalance PROVE Remains'
    BY <1>2, <2>1 DEF Remains
  <2>2. CASE SetConfig
    <3>1. logs' = logs /\ rebalancerBalance' = rebalancerBalance
      BY <2>2 DEF SetConfig, money
    <3> QED BY <2>0, <2>1, <3>1
  <2>3. ASSUME NEW b \in Bridges, NEW m \in Markets, NEW a \in Amounts, NEW named \in Amounts,
               NEW d \in Dsts, SendMsg(b, m, a, d, named)
        PROVE  Remains'
    BY <1>2, <2>3, SendRemains
  <2>4. ASSUME NEW t \in Tokens, SendStray(t) PROVE Remains'
    BY <2>1, <2>4 DEF SendStray
  <2>5. CASE Tick
    <3>1. logs' = logs /\ rebalancerBalance' = rebalancerBalance
      BY <2>5 DEF Tick, money
    <3> QED BY <2>0, <2>1, <3>1
  <2>6. CASE UNCHANGED vars
    <3>1. logs' = logs /\ rebalancerBalance' = rebalancerBalance
      BY <2>6 DEF vars, money
    <3> QED BY <2>0, <2>1, <3>1
  <2> QED BY <1>2, <2>0, <2>2, <2>3, <2>4, <2>5, <2>6 DEF Next
<1> QED BY <1>1, <1>2, RemainsIsStranded, PTL DEF Spec
=============================================================================
