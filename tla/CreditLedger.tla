---------------------------- MODULE CreditLedger ----------------------------
(***************************************************************************)
(* What one direction of the cross-chain protocol promises, with no chain, *)
(* proof or token in it: for every slot (an account on an extension chain) *)
(* a running total of what the source chain credited and a running total   *)
(* of what the destination chain has paid for it.  A claim takes part of   *)
(* what is credited and not yet claimed; nothing else moves the totals,    *)
(* one slot moves at a time, and neither total ever falls.                 *)
(*                                                                         *)
(* MaldaCrossChain implements it twice: deposits (accAmountIn on the       *)
(* gateway against inPerChain on the host) and withdrawals (outPerChain on *)
(* the host against accAmountOut on the gateway).                          *)
(***************************************************************************)
EXTENDS Naturals

CONSTANT Slots

VARIABLES
    credited,   \* credited[s]: the source chain's accumulator
    claimed     \* claimed[s]: the destination chain's accumulator

vars == <<credited, claimed>>

\* Both running totals are natural numbers, one of each per slot.
TypeOK ==
    /\ credited \in [Slots -> Nat]
    /\ claimed \in [Slots -> Nat]

Init ==
    /\ credited = [s \in Slots |-> 0]
    /\ claimed = [s \in Slots |-> 0]

OthersSame(f, g, s) == \A r \in Slots \ {s} : g[r] = f[r]

Credit(s) ==
    /\ credited'[s] > credited[s]
    /\ OthersSame(credited, credited', s)
    /\ UNCHANGED claimed

Claim(s) ==
    /\ claimed'[s] > claimed[s]
    /\ claimed'[s] <= credited[s]
    /\ OthersSame(claimed, claimed', s)
    /\ UNCHANGED credited

Next == TypeOK' /\ \E s \in Slots : Credit(s) \/ Claim(s)

Spec == Init /\ [][Next]_vars

\* Nothing is ever paid that was not credited before.
NeverOverclaimed == \A s \in Slots : claimed[s] <= credited[s]
=============================================================================
