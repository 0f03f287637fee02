-------------------------- MODULE MCTokenIssuance --------------------------
(* Small instances of TokenIssuance for TLC. *)
EXTENDS TokenIssuanceRefinement, TLC

CONSTANTS alice, bob, engine, app

\* A plain role, a role whose bootstrap token is another user's, and an
\* application role minted as its own user.
MCPolicies ==
    {[username |-> None, bootstrap |-> None, application |-> None],
     [username |-> alice, bootstrap |-> bob, application |-> None],
     [username |-> alice, bootstrap |-> alice, application |-> app]}

PlainPolicy == {[username |-> None, bootstrap |-> None, application |-> None]}

MCUser == {alice, bob, engine}
MCApp == {app}

Symmetry == Permutations(Request) \cup Permutations(Id) \cup Permutations(Key)
=============================================================================
