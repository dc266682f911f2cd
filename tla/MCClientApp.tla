------------------------------ MODULE MCClientApp ------------------------------
(* Small instances of ClientApp for TLC.                                   *)
EXTENDS ClientApp, TLC

CONSTANTS a, b, query, limit

\* The server may list both tools, one, or none.
AllLists == {<<a, b>>, <<b>>, <<>>}
AFilter == {{a}, {}}

\* One tool requires a field, the other does not.
Needs == (a :> {query}) @@ (b :> {})
Offers == (a :> {limit}) @@ (b :> {limit})

\* No wait of the user's is without end.
WaitsReturn == QuitReturns /\ WaitEnds
=============================================================================
