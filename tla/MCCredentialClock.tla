------------------------- MODULE MCCredentialClock -------------------------
(***************************************************************************)
(* The instance of CredentialClock for TLC: a step of time is 30 seconds   *)
(* for the request; for the lease it is whatever unit ttls are in.         *)
(***************************************************************************)
EXTENDS CredentialClock, TLC

\* The mount's clock, a short one, one at its maximum, one beyond the mount's.
MCRoles == {[ttl |-> 0, max |-> 0], [ttl |-> 1, max |-> 2],
            [ttl |-> 4, max |-> 4], [ttl |-> 2, max |-> 9]}
=============================================================================
