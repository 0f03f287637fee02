---------------------------- MODULE TokenLedger ----------------------------
(***************************************************************************)
(* What the engine promises of every token it mints, whatever the calls,   *)
(* the crashes and the concurrent requests it takes: from its mint to its  *)
(* revocation somebody keeps the token, who will hand it on or have it     *)
(* revoked.  The request that minted it keeps it until a WAL entry does;   *)
(* the entry gives it back to the request that commits it, and the request *)
(* to a lease.  TokenIssuanceRefinement shows that TokenIssuance does so.  *)
(***************************************************************************)
CONSTANTS
    Token,
    Contested   \* TRUE: another than its keeper may have a token revoked

VARIABLES
    token,    \* of each token: "unborn", "exists" or "revoked"
    keeper,   \* who has it: "none", "request", "wal" or "lease"
    excused   \* the tokens nobody has to keep: a named failure lost them

ledger == <<token, keeper, excused>>

LedgerTypeOK ==
    /\ token \in [Token -> {"unborn", "exists", "revoked"}]
    /\ keeper \in [Token -> {"none", "request", "wal", "lease"}]
    /\ excused \subseteq Token

Init ==
    /\ token = [t \in Token |-> "unborn"]
    /\ keeper = [t \in Token |-> "none"]
    /\ excused = {}

(***************************************************************************)
(* Steps of one token.                                                     *)
(***************************************************************************)
Becomes(t, state, who) == token'[t] = state /\ keeper'[t] = who

\* AAP makes a token for the request that asks.
Mint(t) == token[t] = "unborn" /\ Becomes(t, "exists", "request")

\* A request hands on a token that exists; when tokens are contested, it may
\* be one that is gone meanwhile.
Good(t) == token[t] = "exists" \/ Contested

\* The keeper writes a WAL entry, takes a good token back from it to commit
\* it, and hands a good token to a lease.
Record(t) == keeper[t] = "request" /\ Becomes(t, token[t], "wal")
Commit(t) == keeper[t] = "wal" /\ Good(t) /\ Becomes(t, token[t], "request")
Lease(t) == keeper[t] = "request" /\ Good(t) /\ Becomes(t, token[t], "lease")

\* A revoked token is kept until its keeper knows.
Revoke(t) == token[t] = "exists" /\ \E who \in {keeper[t], "none"} :
                                      Becomes(t, "revoked", who)
LetGo(t) == token[t] = "revoked" /\ Becomes(t, "revoked", "none")

\* An excused token is nobody's, or still a record's that will find out.
Lose(t) ==
    /\ t \in excused' /\ keeper'[t] \in {keeper[t], "none"}
    /\ \/ token'[t] = token[t]
       \/ token[t] = "unborn" /\ token'[t] = "exists"

Stay(t) == Becomes(t, token[t], keeper[t])

Step(t) ==
    \/ Mint(t) \/ Record(t) \/ Commit(t) \/ Lease(t)
    \/ Revoke(t) \/ LetGo(t) \/ Lose(t) \/ Stay(t)

\* A crash or a failed call concerns several tokens at once.
Next ==
    /\ excused \subseteq excused' /\ excused' \subseteq Token
    /\ token' = [t \in Token |-> token'[t]]
    /\ keeper' = [t \in Token |-> keeper'[t]]
    /\ \A t \in Token : Step(t)

Spec == Init /\ [][Next]_ledger

\* A token that exists is kept, unless a named failure lost it; and nobody
\* keeps one that was never minted.
Kept ==
    /\ LedgerTypeOK
    /\ \A t \in Token :
         /\ token[t] = "exists" => keeper[t] # "none" \/ t \in excused
         /\ token[t] = "unborn" => keeper[t] = "none"
=============================================================================
