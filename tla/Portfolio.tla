------------------------------ MODULE Portfolio ------------------------------
(***************************************************************************)
(* PortfolioState and the operations of PortfolioService                   *)
(* (crypto/src/portfolio.rs) that every part of a crypto worker shares.    *)
(* Each operation takes the RwLock once, so each is one atomic function    *)
(* from states to states.  Amounts are integers of the smallest unit; the  *)
(* code's Decimal is a signed decimal.  base_currency is a constant string *)
(* and unrealized_pnl a figure that is reported and never read back: both  *)
(* are left out.                                                           *)
(***************************************************************************)
EXTENDS Integers

\* The two modules that hold capital: trading_allocated, polymarket_allocated.
Modules == {"trading", "polymarket"}

PortfolioState ==
    [available : Int, allocated : [Modules -> Int], realized : Int, total : Int]

\* The state main() builds from INITIAL_BALANCE.
StartingPortfolio(balance) ==
    [available |-> balance, allocated |-> [m \in Modules |-> 0],
     realized |-> 0, total |-> balance]

\* What available_balance and the two allocations add up to.
Worth(p) == p.available + p.allocated["trading"] + p.allocated["polymarket"]

\* Mutant: checked against the total balance.
CanReserve_Total(p, amount) == p.total >= amount

\* The check at the head of reserve_funds.
CanReserve(p, amount) == p.available >= amount

\* reserve_funds once the check has passed.  total_balance is not recomputed.
Reserve(p, amount, module) ==
    [available |-> p.available - amount,
     allocated |-> [p.allocated EXCEPT ![module] = @ + amount],
     realized |-> p.realized,
     total |-> p.total]

\* Mutant: total_balance is summed before the allocation has gone down.
Release_StaleTotal(p, original, pnl, module) ==
    [available |-> p.available + original + pnl,
     allocated |-> [p.allocated EXCEPT ![module] = @ - original],
     realized |-> p.realized + pnl,
     total |-> Worth(p) + original + pnl]

\* release_funds: give the original capital back with the profit or loss made
\* on it, book that profit or loss, and recompute total_balance.
Release(p, original, pnl, module) ==
    LET available == p.available + original + pnl
        allocated == [p.allocated EXCEPT ![module] = @ - original]
    IN  [available |-> available,
         allocated |-> allocated,
         realized |-> p.realized + pnl,
         total |-> available + allocated["trading"] + allocated["polymarket"]]
=============================================================================
