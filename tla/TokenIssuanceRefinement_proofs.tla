------------------- MODULE TokenIssuanceRefinement_proofs -------------------
(***************************************************************************)
(* TokenIssuance implements TokenLedger, for every set of requests, AAP    *)
(* instances, ids, credentials and roles, and every number of faults; with *)
(* one AAP, and requests that end within walRollbackMinAge, it implements  *)
(* the ledger in which nobody but its keeper takes a token away.           *)
(***************************************************************************)
EXTENDS TokenIssuanceRefinement, TokenIssuance_proofs

USE DEF Token, Conn, Kind

\* Where tokens are not contested, a request has its own to itself.
Peace == ~Contested => Untouched /\ Alive

\* A step of the ledger for token u, over the mapped state.
LedgerStep(u) ==
    \/ State(u) = "unborn" /\ State(u)' = "exists" /\ Keeper(u)' = "request"
    \/ Keeper(u) = "request" /\ State(u)' = State(u) /\ Keeper(u)' = "wal"
    \/ /\ Keeper(u) = "wal" /\ (State(u) = "exists" \/ Contested)
       /\ State(u)' = State(u) /\ Keeper(u)' = "request"
    \/ /\ Keeper(u) = "request" /\ (State(u) = "exists" \/ Contested)
       /\ State(u)' = State(u) /\ Keeper(u)' = "lease"
    \/ /\ State(u) = "exists"
       /\ State(u)' = "revoked" /\ Keeper(u)' \in {Keeper(u), "none"}
    \/ State(u) = "revoked" /\ State(u)' = "revoked" /\ Keeper(u)' = "none"
    \/ /\ lost'[u] # "no" /\ Keeper(u)' \in {Keeper(u), "none"}
       /\ \/ State(u)' = State(u)
          \/ State(u) = "unborn" /\ State(u)' = "exists"
    \/ State(u)' = State(u) /\ Keeper(u)' = Keeper(u)

\* The ledger's step is one of every token.
LEMMA LedgerNext ==
  ASSUME LossKept, \A u \in Token : LedgerStep(u)
  PROVE  Ledger!Next
<1> USE DEF Ledger!Next, Ledger!Step, Ledger!Mint, Ledger!Record, Ledger!Commit,
            Ledger!Lease, Ledger!Revoke, Ledger!LetGo, Ledger!Lose, Ledger!Stay,
            Ledger!Good, Ledger!Becomes
<1>1. /\ {t \in Token : lost[t] # "no"} \subseteq {t \in Token : lost'[t] # "no"}
      /\ {t \in Token : lost'[t] # "no"} \subseteq Token
  BY DEF LossKept
<1>2. ASSUME NEW u \in Token PROVE Ledger!Step(u)
  BY DEF LedgerStep
<1> QED
  BY <1>1, <1>2

\* A token that a step leaves alone, or only takes away from AAP.
LEMMA Stays ==
  ASSUME NEW u \in Token,
         u \in born' <=> u \in born,
         u \in live' \cup late' => u \in live \cup late,
         wal'[u] = wal[u], lease'[u] = lease[u], Held(u)' <=> Held(u)
  PROVE  LedgerStep(u)
<1>1. State(u)' = State(u) \/ (State(u) = "exists" /\ State(u)' = "revoked")
  BY DEF State
<1>2. Keeper(u)' = Keeper(u)
  BY DEF Keeper
<1> QED
  BY <1>1, <1>2 DEF LedgerStep

\* Where a token is, by what it takes to read it off the state.
LEMMA Mapped ==
  ASSUME Inv, NEW u \in Token
  PROVE  /\ lease[u] # NoConn => Keeper(u) = "lease"
         /\ lease[u] = NoConn /\ wal[u] # NoConn => Keeper(u) = "wal"
         /\ lease[u] = NoConn /\ wal[u] = NoConn /\ Held(u) => Keeper(u) = "request"
         /\ lease[u] = NoConn /\ wal[u] = NoConn /\ ~Held(u) => Keeper(u) = "none"
         /\ u \notin born => State(u) = "unborn" /\ u \notin live \cup late
         /\ u \in live \cup late => State(u) = "exists"
         /\ u \in born /\ u \notin live \cup late => State(u) = "revoked"
  BY DEF Keeper, State, Inv, BornFirst

\* The token a request holds: nobody else's, leased to nobody, and pending
\* only before a sweep.
LEMMA HeldToken ==
  ASSUME Inv, NEW r \in Request, req[r].pc \notin {"idle", "mint"}
  PROVE  /\ req[r].tok \in Token /\ req[r].tok \in born /\ Held(req[r].tok)
         /\ req[r].conn \in Conn
         /\ lease[req[r].tok] = NoConn
         /\ req[r].pc # "sweep" => req[r].tok \notin late
<1>1. req[r].tok # NoToken /\ req[r].tok \in born /\ req[r].conn \in Conn
  BY DEF Inv, Holding
<1> QED
  BY <1>1 DEF Inv, TypeOK, Phases, LateAlone, Held, Holds

\* A token a request holds is leased to nobody.
LEMMA HeldUnleased ==
  ASSUME Inv, NEW u \in Token, Held(u)
  PROVE  lease[u] = NoConn
<1>1. PICK r \in Request : req[r].tok = u
  BY DEF Held, Holds
<1>2. req[r].pc \notin {"idle", "mint"}
  BY <1>1, NullAssumption DEF Inv, Holding
<1> QED
  BY <1>1, <1>2, HeldToken

\* A step of a request that has only token t leaves the others alone, but for
\* a DELETE that AAP takes to be for another.
LEMMA OthersStay ==
  ASSUME Inv, NEW r \in Request, Others(r), NEW t,
         req[r].tok \in {t, NoToken}, req'[r].tok \in {t, NoToken},
         \A u \in Token : u # t =>
            /\ u \in born' <=> u \in born
            /\ u \in live' \cup late' => u \in live \cup late
            /\ wal'[u] = wal[u] /\ lease'[u] = lease[u]
  PROVE  \A u \in Token : u # t => LedgerStep(u)
<1> SUFFICES ASSUME NEW u \in Token, u # t PROVE LedgerStep(u)
  OBVIOUS
<1>1. Held(u)' <=> Held(u)
  BY NullAssumption DEF Held, Holds, Others
<1> QED
  BY <1>1, Stays

\* A finished request holds nothing.
LEMMA Finished ==
  ASSUME Inv, NEW r \in Request, Finish(r)
  PROVE  Others(r) /\ req'[r].tok = NoToken
  BY DEF Inv, TypeOK, Finish, Idle, Others

\* A request that moves on keeps its token, and its hands off the others.
LEMMA Moved ==
  ASSUME Inv, NEW r \in Request, NEW pc, NEW t, Hold(r, pc, t)
  PROVE  Others(r) /\ req'[r].tok = t
  BY DEF Inv, TypeOK, Hold, Others

\* The history only grows.
LEMMA LossesStay == ASSUME Inv, [Next]_vars PROVE LossKept
<1> USE DEF aapVars, configVars
<1>t. TypeOK
  BY DEF Inv
<1>1. ASSUME lost' = lost \/ \E T, why : Lose(T, why) PROVE LossKept
  BY <1>t, <1>1, LossRecorded DEF LossKept
<1>2. ASSUME NEW r \in Request, RequestStep(r) \/ \E p \in Policies : Start(r, p)
      PROVE  lost' = lost \/ \E T, why : Lose(T, why)
  BY <1>2 DEF RequestStep, Start, Refuse, MintAnswered, MintUnread, MintLost, Sweep,
     SweepFails, PutWal, PutWalFails, CheckApplication, CheckOwner, Cancel,
     UndoRevoke, UndoRevokeFails, UndoDeleteWal, DropWal, DropWalFails, BestEffort,
     RegisterLease
<1>3. ASSUME NEW k \in Kind, NEW t \in Token, JobStep(k, t)
      PROVE  lost' = lost \/ \E T, why : Lose(T, why)
  BY <1>3 DEF JobStep, SnapshotRevoke, SnapshotRevokeFails, GetClient,
     FallbackRevoke, FallbackRevokeFails, Acknowledge
<1>4. CASE Crash
  BY <1>t, <1>4 DEF Crash, LossKept, TypeOK
<1> QED
  BY <1>1, <1>2, <1>3, <1>4, RequestsKept DEF Next

\* The mint: AAP makes a token for a request that has none.
LEMMA MintMapped ==
  ASSUME Inv, NEW r \in Request, NEW t \in Token,
         MintAnswered(r, t) \/ MintUnread(r, t) \/ MintLost(r, t)
  PROVE  \A u \in Token : LedgerStep(u)
<1> USE DEF aapVars, configVars
<1>1. /\ t \notin born /\ born' = born \cup {t} /\ UNCHANGED <<wal, lease>>
      /\ live' \cup late' = live \cup late \cup {t}
  BY DEF MintAnswered, MintUnread, MintLost, Create
<1>2. req[r].tok = NoToken
  BY DEF MintAnswered, MintUnread, MintLost, Inv, Holding
<1>3. Others(r) /\ req'[r].tok \in {t, NoToken}
  BY Finished, Moved DEF MintAnswered, MintUnread, MintLost
<1>4. \A u \in Token : u # t => LedgerStep(u)
  BY <1>1, <1>2, <1>3, OthersStay
<1>5. State(t) = "unborn" /\ State(t)' = "exists"
  BY <1>1 DEF State
<1>6. wal[t] = NoConn /\ lease[t] = NoConn /\ ~Held(t)
  BY <1>1, NullAssumption DEF Inv, BornFirst, Holding, Held, Holds
<1>7. CASE MintUnread(r, t)
  <2>1. req'[r].tok = NoToken
    BY <1>7, Finished DEF MintUnread
  <2>2. ~Held(t)'
    BY <1>3, <1>6, <2>1, NullAssumption DEF Held, Holds, Others
  <2>3. lost'[t] # "no"
    BY <1>7 DEF MintUnread, Lose
  <2>4. Keeper(t)' = "none" /\ Keeper(t) = "none"
    BY <1>1, <1>6, <2>2 DEF Keeper
  <2> QED
    BY <1>4, <1>5, <2>3, <2>4 DEF LedgerStep
<1>8. CASE MintAnswered(r, t) \/ MintLost(r, t)
  <2>1. req'[r].tok = t
    BY <1>8, Moved DEF MintAnswered, MintLost
  <2>2. Keeper(t)' = "request"
    BY <1>1, <1>6, <2>1 DEF Keeper, Held, Holds
  <2> QED
    BY <1>4, <1>5, <2>2 DEF LedgerStep
<1> QED
  BY <1>7, <1>8

\* A sweep is the end of its request: the token is gone, or excused.
LEMMA SweepMapped ==
  ASSUME Inv, NEW r \in Request, Sweep(r) \/ SweepFails(r)
  PROVE  \A u \in Token : LedgerStep(u)
<1> DEFINE t == req[r].tok
<1>1. /\ req[r].pc = "sweep" /\ Finish(r)
      /\ UNCHANGED <<born, late, wal, lease>> /\ live' \in {live, live \ {t}}
  BY DEF Sweep, SweepFails, configVars
<1>2. t \in Token /\ t \in born /\ Held(t) /\ lease[t] = NoConn /\ wal[t] = NoConn
  BY <1>1, HeldToken, NullAssumption DEF Inv, Phases
<1>3. Others(r) /\ req'[r].tok = NoToken
  BY <1>1, Finished
<1>4. \A u \in Token : u # t => LedgerStep(u)
  BY <1>1, <1>3, OthersStay
<1>5. Keeper(t) = "request"
  BY <1>2, Mapped
<1>6. \A u \in Token : u = t => Keeper(u)' = "none"
  BY <1>1, <1>2, FinishHeld DEF Keeper
<1>7. CASE t \in late
  <2>1. t \notin live
    BY <1>7 DEF Inv, LateAlone
  <2>2. \A u \in Token : u = t => State(u)' = State(u)
    BY <1>1, <1>7, <2>1 DEF State
  <2>3. lost'[t] # "no"
    BY <1>2, <1>7 DEF Sweep, SweepFails, Lose
  <2> QED
    BY <1>2, <1>4, <1>6, <2>2, <2>3 DEF LedgerStep
<1>8. CASE t \notin late
  <2>1. CASE Sweep(r)
    <3>1. \A u \in Token : u = t => State(u)' = "revoked"
      BY <1>1, <1>2, <1>8, <2>1 DEF State, Sweep
    <3>2. State(t) \in {"exists", "revoked"}
      BY <1>2 DEF State
    <3> QED
      BY <1>4, <1>6, <3>1, <3>2 DEF LedgerStep
  <2>2. CASE SweepFails(r)
    <3>1. lost'[t] # "no"
      BY <1>2, <2>2 DEF SweepFails, Lose
    <3>2. \A u \in Token : u = t => \/ State(u)' = State(u)
                                    \/ State(u) = "exists" /\ State(u)' = "revoked"
      BY <1>1, <1>2, <1>8 DEF State
    <3> QED
      BY <1>4, <1>6, <3>1, <3>2 DEF LedgerStep
  <2> QED
    BY <2>1, <2>2
<1> QED
  BY <1>7, <1>8

\* PutWAL hands the token to the WAL, DeleteWAL back to the request.
LEMMA WalMapped ==
  ASSUME Inv, ~Contested => Alive, NEW r \in Request,
         PutWal(r) \/ PutWalFails(r) \/ DropWal(r) \/ DropWalFails(r)
  PROVE  \A u \in Token : LedgerStep(u)
<1> DEFINE t == req[r].tok
<1>1. /\ UNCHANGED <<born, live, late, lease>> /\ \E pc : Hold(r, pc, t)
      /\ req[r].pc \in {"minted", "commit"}
  BY DEF PutWal, PutWalFails, DropWal, DropWalFails, Goto, aapVars
<1>2. /\ t \in Token /\ t \in born /\ Held(t) /\ lease[t] = NoConn
      /\ req[r].conn \in Conn
  BY <1>1, HeldToken
<1>3. Others(r) /\ req'[r].tok = t
  BY <1>1, Moved
<1>4. \A u \in Token : u # t => wal'[u] = wal[u]
  BY DEF PutWal, PutWalFails, DropWal, DropWalFails, Inv, TypeOK
<1>5. \A u \in Token : u # t => LedgerStep(u)
  BY <1>1, <1>3, <1>4, OthersStay
<1>6. \A u \in Token : u = t => Held(u)' /\ State(u)' = State(u)
  BY <1>1, <1>3 DEF Held, Holds, State
<1>7. ASSUME wal'[t] = wal[t] PROVE \A u \in Token : LedgerStep(u)
  <2>1. \A u \in Token : u = t => Keeper(u)' = Keeper(u)
    BY <1>1, <1>2, <1>6, <1>7 DEF Keeper
  <2> QED
    BY <1>5, <1>6, <2>1 DEF LedgerStep
<1>8. CASE PutWal(r) \/ PutWalFails(r)
  <2>1. wal[t] = NoConn /\ (wal'[t] = wal[t] \/ wal'[t] = req[r].conn)
    BY <1>2, <1>8, NullAssumption DEF PutWal, PutWalFails, Inv, TypeOK, Phases
  <2>2. CASE wal'[t] = req[r].conn
    <3>1. Keeper(t) = "request"
      BY <1>2, <2>1, Mapped
    <3>2. \A u \in Token : u = t => Keeper(u)' = "wal"
      BY <1>1, <1>2, <2>2, NullAssumption DEF Keeper
    <3> QED
      BY <1>2, <1>5, <1>6, <3>1, <3>2 DEF LedgerStep
  <2> QED
    BY <1>7, <2>1, <2>2
<1>9. CASE DropWal(r) \/ DropWalFails(r)
  <2>1. wal'[t] = wal[t] \/ (wal[t] # NoConn /\ wal'[t] = NoConn)
    BY <1>2, <1>9 DEF DropWal, DropWalFails, Inv, TypeOK
  <2>2. CASE wal[t] # NoConn /\ wal'[t] = NoConn
    <3>1. Keeper(t) = "wal"
      BY <1>2, <2>2, Mapped
    <3>2. \A u \in Token : u = t => Keeper(u)' = "request"
      BY <1>1, <1>2, <1>6, <2>2 DEF Keeper
    <3>3. State(t) = "exists" \/ Contested
      BY <1>2, <1>9 DEF DropWal, DropWalFails, Alive, State
    <3> QED
      BY <1>2, <1>5, <1>6, <3>1, <3>2, <3>3 DEF LedgerStep
  <2> QED
    BY <1>7, <2>1, <2>2
<1> QED
  BY <1>8, <1>9

\* The response hands the token to the lease.
LEMMA LeaseMapped ==
  ASSUME Inv, ~Contested => Alive, NEW r \in Request, RegisterLease(r)
  PROVE  \A u \in Token : LedgerStep(u)
<1> DEFINE t == req[r].tok
<1>1. /\ UNCHANGED <<born, live, late, wal>> /\ Finish(r) /\ req[r].pc = "respond"
  BY DEF RegisterLease, aapVars
<1>2. /\ t \in Token /\ t \in born /\ Held(t) /\ lease[t] = NoConn /\ wal[t] = NoConn
      /\ req[r].conn \in Conn /\ (t \in live \/ Contested)
  BY <1>1, HeldToken, NullAssumption DEF Inv, Phases, Alive
<1>3. Others(r) /\ req'[r].tok = NoToken
  BY <1>1, Finished
<1>4. /\ \A u \in Token : u # t => lease'[u] = lease[u]
      /\ lease'[t] = req[r].conn
  BY <1>2 DEF RegisterLease, Inv, TypeOK
<1>5. \A u \in Token : u # t => LedgerStep(u)
  BY <1>1, <1>3, <1>4, OthersStay
<1>6. Keeper(t) = "request" /\ (State(t) = "exists" \/ Contested)
  BY <1>2, Mapped
<1>7. \A u \in Token : u = t => Keeper(u)' = "lease" /\ State(u)' = State(u)
  BY <1>1, <1>2, <1>4, NullAssumption DEF Keeper, State
<1> QED
  BY <1>5, <1>6, <1>7 DEF LedgerStep

\* The undo of a refused token, and the best-effort revoke: the WAL keeps
\* the token, or it is gone, or the failure excuses it.
LEMMA UndoMapped ==
  ASSUME Inv, NEW r \in Request,
         UndoRevoke(r) \/ UndoRevokeFails(r) \/ UndoDeleteWal(r) \/ BestEffort(r)
  PROVE  \A u \in Token : LedgerStep(u)
<1> DEFINE t == req[r].tok
<1>1. /\ UNCHANGED <<born, late, lease>>
      /\ req[r].pc \in {"undo", "unwal", "besteffort"}
      /\ IF UndoRevoke(r) THEN Hold(r, "unwal", t) ELSE Finish(r)
  BY DEF UndoRevoke, UndoRevokeFails, UndoDeleteWal, BestEffort, Goto, aapVars
<1>2. /\ t \in Token /\ t \in born /\ Held(t) /\ lease[t] = NoConn /\ t \notin late
      /\ req[r].conn \in Conn
  BY <1>1, HeldToken
<1>3. Others(r) /\ req'[r].tok \in {t, NoToken}
  BY <1>1, Finished, Moved
<1>4. live' \subseteq live
  <2>1. CASE UndoDeleteWal(r)
    BY <2>1 DEF UndoDeleteWal, aapVars
  <2>2. CASE UndoRevoke(r) \/ UndoRevokeFails(r) \/ BestEffort(r)
    BY <1>2, <2>2, Deletion DEF Inv, UndoRevoke, UndoRevokeFails, BestEffort
  <2> QED
    BY <2>1, <2>2
<1>5. \A u \in Token : u # t => wal'[u] = wal[u]
  BY DEF UndoRevoke, UndoRevokeFails, UndoDeleteWal, BestEffort, Inv, TypeOK
<1>6. \A u \in Token : u # t => LedgerStep(u)
  BY <1>1, <1>3, <1>4, <1>5, OthersStay
<1>7. /\ State(t) = IF t \in live THEN "exists" ELSE "revoked"
      /\ \A u \in Token : u = t => State(u)' = IF u \in live' THEN "exists" ELSE "revoked"
  BY <1>1, <1>2 DEF State
<1>8. /\ State(t) = "revoked" => t \notin live
      /\ \A u \in Token : u = t =>
           \/ State(u)' = State(u)
           \/ State(u) = "exists" /\ State(u)' = "revoked"
  BY <1>2, <1>4, <1>7
<1>9. ASSUME wal'[t] = wal[t],
             UndoRevoke(r) \/ wal[t] # NoConn
      PROVE  \A u \in Token : LedgerStep(u)
  <2>1. UndoRevoke(r) => \A u \in Token : u = t => Held(u)'
    BY <1>1, Moved DEF Held, Holds
  <2>2. \A u \in Token : u = t => Keeper(u)' = Keeper(u)
    BY <1>1, <1>2, <1>9, <2>1 DEF Keeper
  <2> QED
    BY <1>6, <1>8, <2>2 DEF LedgerStep
<1>10. ASSUME ~UndoRevoke(r), wal'[t] = NoConn,
              t \notin live' \/ lost'[t] # "no"
       PROVE  \A u \in Token : LedgerStep(u)
  <2>1. \A u \in Token : u = t => Keeper(u)' = "none"
    BY <1>1, <1>2, <1>10, FinishHeld DEF Keeper
  <2>2. \A u \in Token : u = t /\ u \notin live' => State(u)' = "revoked"
    BY <1>7
  <2>3. State(t) \in {"exists", "revoked"}
    BY <1>7
  <2> QED
    BY <1>2, <1>6, <1>8, <1>10, <2>1, <2>2, <2>3 DEF LedgerStep
<1>11. CASE UndoRevoke(r)
  BY <1>9, <1>11 DEF UndoRevoke
<1>12. CASE UndoRevokeFails(r)
  <2>1. wal' = wal /\ lost' = lost /\ req[r].pc = "undo"
    BY <1>12 DEF UndoRevokeFails
  <2>2. t \in live => wal[t] # NoConn \/ lost[t] # "no"
    BY <2>1 DEF Inv, Protected
  <2> QED
    BY <1>4, <1>9, <1>10, <1>11, <2>1, <2>2
<1>13. CASE UndoDeleteWal(r)
  <2>1. t \notin live' /\ (wal'[t] = wal[t] \/ wal'[t] = NoConn)
    BY <1>2, <1>4, <1>13, NullAssumption DEF UndoDeleteWal, Inv, Phases, TypeOK
  <2> QED
    BY <1>9, <1>10, <1>11, <2>1
<1>14. CASE BestEffort(r)
  <2>1. wal' = wal
    BY <1>14 DEF BestEffort
  <2>2. wal[t] = NoConn /\ t \in live' => lost'[t] # "no"
    BY <1>2, <1>14 DEF BestEffort, Lose
  <2> QED
    BY <1>9, <1>10, <1>11, <2>1, <2>2
<1> QED
  BY <1>11, <1>12, <1>13, <1>14

\* revokeToken takes tokens away; its record is dropped when the token is gone.
LEMMA JobMapped ==
  ASSUME Inv, ~Contested => Untouched, RevokedOrMissed,
         NEW k \in Kind, NEW t \in Token, JobStep(k, t)
  PROVE  \A u \in Token : LedgerStep(u)
<1> USE DEF aapVars
<1>1. UNCHANGED <<req, born, late>>
  BY DEF JobStep, SnapshotRevoke, SnapshotRevokeFails, GetClient, FallbackRevoke,
         FallbackRevokeFails, Acknowledge
<1>2. \A u \in Token : Held(u)' <=> Held(u)
  BY <1>1 DEF Held, Holds
<1>3. ASSUME UNCHANGED <<live, wal, lease>> PROVE \A u \in Token : LedgerStep(u)
  BY <1>1, <1>2, <1>3, Stays
<1>4. ASSUME NEW c \in Conn, DeleteOk(c, t) \/ DeleteErr(c, t), t \notin late,
             UNCHANGED <<wal, lease>>
      PROVE  \A u \in Token : LedgerStep(u)
  <2>1. live' \subseteq live
    BY <1>4, Deletion DEF Inv
  <2>2. \A u \in Token : u # t => LedgerStep(u)
    BY <1>1, <1>2, <1>4, <2>1, Stays
  <2>3. Keeper(t)' = Keeper(t)
    BY <1>2, <1>4 DEF Keeper
  <2>4. State(t)' = State(t) \/ (State(t) = "exists" /\ State(t)' = "revoked")
    BY <1>1, <1>4, <2>1 DEF State, Inv, BornFirst
  <2> QED
    BY <2>2, <2>3, <2>4 DEF LedgerStep
<1>5. CASE SnapshotRevoke(k, t) \/ SnapshotRevokeFails(k, t)
  <2>1. Record(k, t) \in Conn /\ t \notin late
    BY <1>5, NullAssumption DEF SnapshotRevoke, SnapshotRevokeFails, Eligible, Record,
       Inv, TypeOK, LateAlone
  <2> QED
    BY <1>4, <1>5, <2>1 DEF SnapshotRevoke, SnapshotRevokeFails
<1>6. CASE FallbackRevoke(k, t) \/ FallbackRevokeFails(k, t)
  <2>1. job[k][t].stage = "delete"
    BY <1>6 DEF FallbackRevoke, FallbackRevokeFails
  <2>2. job[k][t].conn \in Conn /\ t \notin late
    BY <2>1 DEF Inv, TypeOK, JobType, LateAlone
  <2> QED
    BY <1>4, <1>6, <2>2 DEF FallbackRevoke, FallbackRevokeFails
<1>7. CASE GetClient(k, t)
  BY <1>3, <1>7 DEF GetClient
<1>8. CASE Acknowledge(k, t)
  <2>1. /\ job[k][t].stage = "done" /\ UNCHANGED <<live, lost>>
        /\ UNCHANGED <<wal, lease>> \/ /\ Record(k, t)' = NoConn
                                       /\ k = "wal" => lease' = lease
                                       /\ k = "lease" => wal' = wal
    BY <1>8 DEF Acknowledge, Record, Inv, TypeOK
  <2>2. \A u \in Token : u # t => wal'[u] = wal[u] /\ lease'[u] = lease[u]
    BY <1>8 DEF Acknowledge, Inv, TypeOK
  <2>3. \A u \in Token : u # t => LedgerStep(u)
    BY <1>1, <1>2, <2>1, <2>2, Stays
  <2>4. State(t)' = State(t)
    BY <1>1, <2>1 DEF State
  <2>5. CASE wal'[t] = wal[t] /\ lease'[t] = lease[t]
    <3>1. Keeper(t)' = Keeper(t)
      BY <1>2, <2>5 DEF Keeper
    <3> QED
      BY <2>3, <2>4, <3>1 DEF LedgerStep
  <2>6. CASE ~(wal'[t] = wal[t] /\ lease'[t] = lease[t])
    <3>1. Record(k, t) # NoConn /\ wal'[t] = NoConn /\ lease'[t] = NoConn
      BY <2>1, <2>6 DEF Record, Inv, OneOwner
    <3>2. CASE Held(t)
      <4>1. Contested
        BY <3>2, JobsAside DEF Held, Holds, Contested
      <4>2. lease[t] = NoConn
        BY <3>2, HeldUnleased
      <4>3. Keeper(t) = "wal" /\ Keeper(t)' = "request"
        BY <1>2, <2>6, <3>1, <3>2, <4>2 DEF Keeper
      <4> QED
        BY <2>3, <2>4, <4>1, <4>3 DEF LedgerStep
    <3>3. CASE ~Held(t)
      <4>1. Keeper(t)' = "none"
        BY <1>2, <3>1, <3>3 DEF Keeper
      <4>2. t \notin live \/ lost'[t] # "no"
        BY <2>1, <3>1 DEF RevokedOrMissed
      <4>3. t \in born /\ t \notin late
        BY <2>1 DEF Inv, BornFirst, LateAlone
      <4>4. State(t) = "revoked" \/ lost'[t] # "no"
        BY <4>2, <4>3 DEF State
      <4> QED
        BY <2>3, <2>4, <4>1, <4>4 DEF LedgerStep
    <3> QED
      BY <3>2, <3>3
  <2> QED
    BY <2>5, <2>6
<1> QED
  BY <1>5, <1>6, <1>7, <1>8 DEF JobStep

\* A crash ends every request: its token is in the WAL, gone, or excused.
LEMMA CrashMapped ==
  ASSUME Inv, Crash
  PROVE  \A u \in Token : LedgerStep(u)
<1> SUFFICES ASSUME NEW u \in Token PROVE LedgerStep(u)
  OBVIOUS
<1>1. UNCHANGED <<born, live, late, wal, lease>> /\ ~Held(u)'
  BY NullAssumption DEF Crash, Idle, Held, Holds, aapVars
<1>2. State(u)' = State(u)
  BY <1>1 DEF State
<1>3. CASE wal[u] # NoConn \/ lease[u] # NoConn \/ ~Held(u)
  <2>1. Keeper(u)' = Keeper(u)
    BY <1>1, <1>3 DEF Keeper
  <2> QED
    BY <1>2, <2>1 DEF LedgerStep
<1>4. CASE wal[u] = NoConn /\ lease[u] = NoConn /\ Held(u)
  <2>1. Keeper(u)' = "none"
    BY <1>1, <1>4 DEF Keeper
  <2>2. PICK r \in Request : req[r].tok = u
    BY <1>4 DEF Held, Holds
  <2>3. req[r].pc \notin {"idle", "mint"} /\ req[r].pc \in Pc /\ u \in born
    BY <2>2, NullAssumption DEF Inv, TypeOK, ReqType, Holding
  <2>4. ASSUME u \in live \cup late PROVE lost'[u] # "no"
    <3>1. lost[u] # "no" => lost'[u] # "no"
      BY DEF Crash, Inv, TypeOK
    <3>2. req[r].pc \in {"app", "owner", "commit", "undo"} /\ u \in live => lost[u] # "no"
      BY <1>4, <2>2 DEF Inv, Protected
    <3>3. u \in late => req[r].pc = "sweep"
      BY <2>2 DEF Inv, LateAlone, Holds
    <3>4. req[r].pc # "unwal" \/ u \notin live
      BY <2>2, <2>3, NullAssumption DEF Inv, Phases
    <3>5. req[r].pc \in {"respond", "minted", "sweep", "besteffort"} => lost'[u] # "no"
      BY <1>4, <2>2, <2>4 DEF Crash, HeldAt
    <3> QED
      BY <2>3, <2>4, <3>1, <3>2, <3>3, <3>4, <3>5 DEF Pc
  <2>5. u \notin live \cup late => State(u) = "revoked"
    BY <2>3 DEF State
  <2> QED
    BY <1>2, <2>1, <2>4, <2>5 DEF LedgerStep
<1> QED
  BY <1>3, <1>4

\* Every step of TokenIssuance is a step of the ledger, or leaves it alone.
LEMMA StepsMap ==
  ASSUME Inv, DropInv, Peace, [Next]_vars
  PROVE  Ledger!Next
<1> SUFFICES  \A u \in Token : LedgerStep(u)
  BY LedgerNext, LossesStay
<1> USE DEF aapVars, configVars
<1>1. ASSUME NEW r \in Request, RequestStep(r) PROVE \A u \in Token : LedgerStep(u)
  <2>1. ASSUME UNCHANGED <<born, live, late, wal, lease>>, Others(r),
               req'[r].tok = req[r].tok
        PROVE  \A u \in Token : LedgerStep(u)
    <3>1. \A u \in Token : Held(u)' <=> Held(u)
      BY <2>1 DEF Held, Holds, Others
    <3> QED
      BY <2>1, <3>1, Stays
  <2>2. CASE Refuse(r)
    <3>1. req[r].tok = NoToken
      BY <2>2 DEF Refuse, Inv, Holding
    <3> QED
      BY <2>1, <2>2, <3>1, Finished DEF Refuse
  <2>3. CASE CheckApplication(r) \/ CheckOwner(r) \/ Cancel(r)
    BY <2>1, <2>3, Moved DEF CheckApplication, CheckOwner, Guard, Cancel, Goto
  <2> QED
    BY <1>1, <2>2, <2>3, MintMapped, SweepMapped, WalMapped, LeaseMapped, UndoMapped
       DEF RequestStep, Peace
<1>2. ASSUME UNCHANGED <<born, wal, lease>>, live' \cup late' = live \cup late,
             \A q \in Request : req'[q].tok = req[q].tok
      PROVE  \A u \in Token : LedgerStep(u)
  <2>1. \A u \in Token : Held(u)' <=> Held(u)
    BY <1>2 DEF Held, Holds
  <2> QED
    BY <1>2, <2>1, Stays
<1>3. ASSUME NEW r \in Request, NEW p \in Policies, Start(r, p)
      PROVE  \A u \in Token : LedgerStep(u)
  <2>1. \A q \in Request : req'[q].tok = req[q].tok
    BY <1>3 DEF Start, Inv, TypeOK, Holding
  <2> QED
    BY <1>2, <1>3, <2>1 DEF Start
<1>4. ASSUME \/ \E t \in Token : LateCommit(t)
             \/ \E c \in Conn : WriteConfig(c) \/ RevokeCredential(c)
             \/ DeleteConfig \/ Reset \/ UNCHANGED vars
      PROVE  \A u \in Token : LedgerStep(u)
  BY <1>2, <1>4 DEF LateCommit, WriteConfig, RevokeCredential, DeleteConfig, Store,
                    Reset, vars
<1> QED
  BY <1>1, <1>3, <1>4, JobMapped, CrashMapped DEF Next, DropInv, Peace

\* Whatever fails, crashes and runs at the same time, with any number of AAPs,
\* the engine keeps the ledger: it passes every token from a request to the
\* WAL, back to the request and to a lease, and lets go of it only when it is
\* revoked or one of the named failures has lost it.  With one AAP, and
\* requests that end before rollback looks at them, it passes on only tokens
\* that exist.
THEOREM LedgerImplemented == Spec => KeepsLedger
<1>1. Init => Ledger!Init
  BY NullAssumption DEF Init, Idle, Ledger!Init, State, Keeper, Held, Holds
<1>2. Init => DropInv /\ Peace
  BY NullAssumption DEF Init, Idle, NoJob, DropInv, LostBare, JobsRecorded,
     RevokedOrMissed, Peace, Untouched, Alive, Recorded, Record, Held, Holds
<1>3. Inv /\ DropInv /\ [Next]_vars => DropInv'
  BY BareStep, JobsStep, MissedStep DEF DropInv
<1>4. Inv /\ Peace /\ [Next]_vars => Peace'
  BY UntouchedStep, AliveStep DEF Contested, Peace
<1>5. Inv /\ DropInv /\ Peace /\ [Next]_vars => [Ledger!Next]_Ledger!ledger
  BY StepsMap
<1> QED
  BY <1>1, <1>2, <1>3, <1>4, <1>5, Safety, PTL DEF Spec, KeepsLedger, Ledger!Spec

\* What the ledger promises: a token that exists has a keeper or an excuse.
THEOREM LedgerKept == Ledger!Spec => []Ledger!Kept
<1> USE DEF Ledger!Kept, Ledger!LedgerTypeOK
<1>1. Ledger!Init => Ledger!Kept
  BY DEF Ledger!Init
<1>2. Ledger!Kept /\ [Ledger!Next]_Ledger!ledger => Ledger!Kept'
  BY DEF Ledger!Next, Ledger!Step, Ledger!Mint, Ledger!Record, Ledger!Commit,
     Ledger!Lease, Ledger!Revoke, Ledger!LetGo, Ledger!Lose, Ledger!Stay,
     Ledger!Good, Ledger!Becomes, Ledger!ledger
<1> QED
  BY <1>1, <1>2, PTL DEF Ledger!Spec

\* Hence no token of the engine that AAP has, or has yet to commit, is without
\* a keeper, unless a named failure lost it.
COROLLARY TokensKept == Spec => []Ledger!Kept
  BY LedgerImplemented, LedgerKept, PTL DEF KeepsLedger

=============================================================================
