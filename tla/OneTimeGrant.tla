---------------------------- MODULE OneTimeGrant ----------------------------
(***************************************************************************)
(* What the authorization server promises of every authorization a client  *)
(* starts: there is one grant, it is in one place at a time, it goes from  *)
(* consent to code to token and from token to token, and it stays with the *)
(* client that asked for it and with the owner who signed in.              *)
(***************************************************************************)
CONSTANTS Flows, Clients, Subs, AllowedSubs, None

VARIABLE grant    \* per authorization: where it is, whose it is, who signed in

Places == {"none", "consent", "signing", "code", "redeeming", "token", "gone"}

At(p, c, s) == [place |-> p, client |-> c, sub |-> s]

NoGrant(p) == At(p, None, None)

Init == grant = [f \in Flows |-> NoGrant("none")]

\* A client starts an authorization.
Open(f, c) ==
    /\ grant[f] = NoGrant("none")
    /\ grant' = [grant EXCEPT ![f] = At("consent", c, None)]

\* The grant moves on, to the same client and owner.
Move(f, from, to) ==
    /\ grant[f].place = from
    /\ grant' = [grant EXCEPT ![f] = At(to, @.client, @.sub)]

\* The owner has signed in; only an owner on the list, if there is one.
SignIn(f, s) ==
    /\ grant[f].place = "signing"
    /\ s \in AllowedSubs \/ AllowedSubs = {}
    /\ grant' = [grant EXCEPT ![f] = At("code", @.client, s)]

\* A grant may be lost at any time, and is never found again.  Losing several at
\* once is what a restart does.
Lose(F) ==
    grant' = [f \in Flows |-> IF f \in F /\ grant[f].place # "none"
                              THEN NoGrant("gone") ELSE grant[f]]

Step(f) ==
    \/ \E c \in Clients : Open(f, c)
    \/ Move(f, "consent", "signing")
    \/ \E s \in Subs : SignIn(f, s)
    \/ Move(f, "code", "redeeming")
    \/ Move(f, "token", "redeeming")
    \/ Move(f, "redeeming", "token")

Next == (\E f \in Flows : Step(f)) \/ (\E F \in SUBSET Flows : Lose(F))

Spec == Init /\ [][Next]_grant
=============================================================================
