----------------------------- MODULE FundsLedger -----------------------------
(***************************************************************************)
(* What the portfolio of a crypto worker promises the trading module, as   *)
(* the comment of PortfolioService puts it: capital is reserved before an  *)
(* order is executed and released when the position is closed.  A holder   *)
(* is an order under way or an open position.                              *)
(***************************************************************************)
EXTENDS Integers, FiniteSetsExt

CONSTANT Holders

VARIABLES
    free,       \* capital nobody holds
    committed,  \* capital the trading module holds, as the portfolio has it
    held        \* what each holder holds of it

vars == <<free, committed, held>>

TypeOK ==
    /\ free \in Nat
    /\ committed \in Nat
    /\ held \in [Holders -> Nat]

Init ==
    /\ free \in Nat
    /\ committed = 0
    /\ held = [h \in Holders |-> 0]

\* An order reserves capital that is there.
Commit(h, amount) ==
    /\ held[h] = 0
    /\ amount \in 0 .. free
    /\ free' = free - amount
    /\ committed' = committed + amount
    /\ held' = [held EXCEPT ![h] = amount]

\* The order has become a position.
HandOver(g, h) ==
    /\ held[h] = 0
    /\ held' = [held EXCEPT ![g] = 0, ![h] = held[g]]
    /\ UNCHANGED <<free, committed>>

\* A holder gives up all it holds, once, and its proceeds become free.
Settle(h, proceeds) ==
    /\ proceeds \in Nat
    /\ free' = free + proceeds
    /\ committed' = committed - held[h]
    /\ held' = [held EXCEPT ![h] = 0]

\* The other module takes free capital or returns some.
OtherModule ==
    /\ free' \in Nat
    /\ UNCHANGED <<committed, held>>

Next ==
    \/ \E h \in Holders : \E amount \in 0 .. free : Commit(h, amount)
    \/ \E g, h \in Holders : g # h /\ HandOver(g, h)
    \/ \E h \in Holders : Settle(h, free' - free)
    \/ OtherModule

Spec == Init /\ [][Next]_vars
=============================================================================
