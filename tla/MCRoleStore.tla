---------------------------- MODULE MCRoleStore ----------------------------
(***************************************************************************)
(* The instance of RoleStore for TLC: two roles that share a lock, and     *)
(* requests that between them set and clear whatever a check looks at.     *)
(***************************************************************************)
EXTENDS RoleStore, TLC

CONSTANTS l1, u1, b1

MCStripeOf == [n \in Name |-> l1]

MCAsked ==
    {[NoRequest EXCEPT !.scope = "write", !.ttl = 2],
     [NoRequest EXCEPT !.username = u1],
     [NoRequest EXCEPT !.username = u1, !.bootstrap = b1],
     [NoRequest EXCEPT !.bootstrap = Empty],
     [NoRequest EXCEPT !.max = 1, !.scope = "read"]}
=============================================================================
