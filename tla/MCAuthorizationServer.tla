------------------------ MODULE MCAuthorizationServer ------------------------
(* Small instances of AuthorizationServer for TLC.                         *)
EXTENDS AuthorizationServer, TLC

CONSTANTS c1, c2, r1, r2

Symmetric == Permutations({c1, c2}) \cup Permutations({r1, r2})
=============================================================================
