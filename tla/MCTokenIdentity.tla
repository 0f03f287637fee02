--------------------------- MODULE MCTokenIdentity ---------------------------
(***************************************************************************)
(* The instance of TokenIdentity for TLC.  Its configurations differ in    *)
(* every field; floats have three bits, so 7 is an id they can name and 9  *)
(* one they cannot.                                                        *)
(***************************************************************************)
EXTENDS TokenIdentity, TLC

CONSTANTS a1, a2, s1, u1, w1, p1, ca1

Plain == [address |-> a1, token |-> s1, username |-> Empty, password |-> Empty,
          path |-> Empty, caCert |-> Empty, skip |-> FALSE, timeout |-> 0]
Full == [address |-> a2, token |-> Empty, username |-> u1, password |-> w1,
         path |-> p1, caCert |-> ca1, skip |-> TRUE, timeout |-> 5]
MCConfigs == {Plain, Full}
=============================================================================
