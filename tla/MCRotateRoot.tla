---------------------------- MODULE MCRotateRoot ----------------------------
(* The instance of RotateRoot for TLC: two AAPs that both have a token 2, one *)
(* made by rotateRoot, the other by an operator.  The run checks liveness, so *)
(* there is no symmetry.                                                      *)
EXTENDS RotateRoot, TLC

CONSTANTS e1, e2

MCMinted == {<<e1, 2>>, <<e1, 3>>, <<e1, 4>>}
MCSupplied == {<<e1, 1>>, <<e2, 2>>}
=============================================================================
