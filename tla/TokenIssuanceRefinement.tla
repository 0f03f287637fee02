---------------------- MODULE TokenIssuanceRefinement ----------------------
(***************************************************************************)
(* TokenIssuance implements TokenLedger: a lease keeps a token before a    *)
(* WAL entry does, an entry before the request that wrote it.              *)
(***************************************************************************)
EXTENDS TokenIssuance

Keeper(t) ==
    IF lease[t] # NoConn THEN "lease"
    ELSE IF wal[t] # NoConn THEN "wal"
    ELSE IF Held(t) THEN "request" ELSE "none"

\* A token AAP has yet to commit is taken to exist already.
State(t) ==
    IF t \notin born THEN "unborn"
    ELSE IF t \in live \cup late THEN "exists" ELSE "revoked"

\* A slow request's WAL entry may be rolled back under it; and with several
\* AAPs a DELETE may reach another token with the same id.
Contested == SlowRequests \/ ~SingleEndpoint

Ledger == INSTANCE TokenLedger WITH
            Contested <- Contested,
            token <- [t \in Token |-> State(t)],
            keeper <- [t \in Token |-> Keeper(t)],
            excused <- {t \in Token : lost[t] # "no"}

\* Every step of creds/, revokeToken and their failures is a step of the
\* ledger: custody goes from request to WAL entry to request to lease, only
\* of tokens that exist (unless they are contested), and ends with the token
\* or with a named failure.
KeepsLedger == Ledger!Spec
=============================================================================
