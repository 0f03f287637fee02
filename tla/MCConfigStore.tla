---------------------------- MODULE MCConfigStore ----------------------------
(***************************************************************************)
(* The instance of ConfigStore for TLC.  Asking for every request with two *)
(* writers is too much; what is left out is requests of three and more     *)
(* fields that have an empty string, half a basic credential, a disabled   *)
(* or rotation turned off in them.                                         *)
(***************************************************************************)
EXTENDS ConfigStore, TLC

Named(f) == {x \in DOMAIN f : f[x] # Absent}

\* Everything of at most two fields, empty strings and halves included.
Small == {f \in Request : Cardinality(Named(f)) <= 2}

\* The usual requests, of any number of fields.
Usual ==
    {f \in Request : /\ Empty \notin {f.token, f.user, f.pass}
                     /\ (f.user = Absent) = (f.pass = Absent)
                     /\ f.disabled = Absent /\ f.rotate # FALSE}

MCAsked == Small \cup Usual

Symmetry ==
    Permutations(Proc) \cup Permutations(Conn) \cup Permutations(Minted)
=============================================================================
