------------------------ MODULE TokenIssuance_proofs ------------------------
(***************************************************************************)
(* What holds of TokenIssuance for every set of requests, AAP instances,   *)
(* ids, credentials and roles, and every number of faults.                 *)
(***************************************************************************)
EXTENDS TokenIssuance, FiniteSetTheorems, TLAPS

USE DEF Token, Conn, Kind

\* The fields of a request have the types TypeOK gives them.
LEMMA Fields ==
  ASSUME TypeOK, NEW r \in Request
  PROVE  /\ req[r].policy \in Policy
         /\ MintOwner(req[r].policy) \in User
         /\ req[r].conn \in Conn \cup {NoConn}
         /\ req[r].tok \in Token \cup {NoToken}
<1>1. AnyPolicy \in Policy
  BY DEF AnyPolicy, Policy
<1>2. req[r].policy \in Policies \cup {AnyPolicy}
  BY DEF TypeOK, ReqType
<1>3. req[r].policy \in Policy
  BY <1>1, <1>2, PoliciesAssumption
<1>4. MintOwner(req[r].policy) \in User
  BY <1>3, UserAssumption DEF MintOwner, Policy
<1> QED
  BY <1>3, <1>4 DEF TypeOK, ReqType

\* Moving a request keeps the type of req.
LEMMA Moves ==
  ASSUME TypeOK, NEW r \in Request,
         \/ Finish(r)
         \/ \E pc \in Pc : Goto(r, pc)
         \/ \E pc \in Pc, t \in Token : Hold(r, pc, t)
  PROVE  req' \in [Request -> ReqType]
<1>1. CASE Finish(r)
  BY <1>1 DEF TypeOK, Finish, Idle, ReqType, Pc
<1>2. ASSUME NEW pc \in Pc, NEW t \in Token \cup {NoToken}, Hold(r, pc, t)
      PROVE  req' \in [Request -> ReqType]
  BY <1>2 DEF TypeOK, Hold, ReqType
<1>3. req[r].tok \in Token \cup {NoToken}
  BY DEF TypeOK, ReqType
<1> QED
  BY <1>1, <1>2, <1>3 DEF Goto

\* AAP hands out a token of the right type.
LEMMA Creates ==
  ASSUME TypeOK, NEW r \in Request, NEW t \in Token, Create(r, t)
  PROVE  /\ born' \subseteq Token
         /\ owner' \in [Token -> User \cup {None}]
         /\ bound' \in [Token -> App \cup {None}]
<1>1. req[r].policy.application \in App \cup {None}
  BY Fields DEF Policy
<1> QED
  BY <1>1, Fields DEF Create, TypeOK

\* A step that may fail keeps the count of failures in its bound.
LEMMA Faulty ==
  ASSUME TypeOK, Fault
  PROVE  faults' \in 0..MaxFaults
  BY BoundAssumption DEF TypeOK, Fault

\* Recording a loss keeps the type of lost.
LEMMA Loses ==
  ASSUME TypeOK, NEW T, NEW why \in Loss, Lose(T, why)
  PROVE  lost' \in [Token -> Loss]
  BY DEF TypeOK, Lose

\* A DELETE at AAP, answered or not, keeps the types of AAP's state.
LEMMA Deletes ==
  ASSUME TypeOK, NEW c, NEW t, DeleteOk(c, t) \/ DeleteErr(c, t)
  PROVE  live' \subseteq live /\ faults' \in 0..MaxFaults
  BY Faulty DEF TypeOK, DeleteOk, DeleteErr, Without

\* Moving a revokeToken call to its next point keeps the type of job.
LEMMA SetsJob ==
  ASSUME TypeOK, NEW k \in Kind, NEW t \in Token, NEW stage, NEW c,
         [stage |-> stage, conn |-> c] \in JobType,
         SetJob(k, t, stage, c)
  PROVE  job' \in [Kind -> [Token -> JobType]]
  BY DEF TypeOK, SetJob

\* Every step of issuance, revocation, AAP and the operators keeps TypeOK.
LEMMA Typing == TypeOK /\ [Next]_vars => TypeOK'
<1> SUFFICES ASSUME TypeOK, [Next]_vars PROVE TypeOK'
  OBVIOUS
<1> USE DEF aapVars, configVars
<1>1. ASSUME NEW r \in Request, NEW p \in Policies, Start(r, p)
      PROVE  TypeOK'
  BY <1>1 DEF TypeOK, Start, ReqType, Pc
<1>2. ASSUME NEW r \in Request, RequestStep(r) PROVE TypeOK'
  <2>1. CASE Refuse(r)
    BY <2>1, Moves DEF TypeOK, Refuse
  <2>2. ASSUME NEW t \in Token, MintAnswered(r, t) PROVE TypeOK'
    BY <2>2, Moves, Creates DEF TypeOK, MintAnswered, Pc
  <2>3. ASSUME NEW t \in Token, MintUnread(r, t) PROVE TypeOK'
    BY <2>3, Moves, Creates, Faulty, Loses DEF TypeOK, MintUnread, Loss
  <2>4. ASSUME NEW t \in Token, MintLost(r, t) PROVE TypeOK'
    BY <2>4, Moves, Creates, Faulty DEF TypeOK, MintLost, Pc
  <2>5. CASE Sweep(r)
    BY <2>5, Moves, Loses DEF TypeOK, Sweep, Loss
  <2>6. CASE SweepFails(r)
    BY <2>6, Moves, Faulty, Loses DEF TypeOK, SweepFails, Loss
  <2>7. CASE PutWal(r)
    BY <2>7, Moves, Fields DEF TypeOK, PutWal, Pc
  <2>8. CASE PutWalFails(r)
    BY <2>8, Moves, Fields, Faulty DEF TypeOK, PutWalFails, Pc
  <2>9. CASE CheckApplication(r) \/ CheckOwner(r)
    BY <2>9, Moves, Faulty DEF TypeOK, CheckApplication, CheckOwner, Guard, Pc
  <2>10. CASE Cancel(r)
    BY <2>10, Moves DEF TypeOK, Cancel, Pc
  <2>11. CASE UndoRevoke(r)
    BY <2>11, Moves, Deletes DEF TypeOK, UndoRevoke, Pc
  <2>12. CASE UndoRevokeFails(r)
    BY <2>12, Moves, Deletes DEF TypeOK, UndoRevokeFails
  <2>13. CASE UndoDeleteWal(r)
    BY <2>13, Moves, Faulty DEF TypeOK, UndoDeleteWal
  <2>14. CASE DropWal(r)
    BY <2>14, Moves DEF TypeOK, DropWal, Pc
  <2>15. CASE DropWalFails(r)
    BY <2>15, Moves, Faulty DEF TypeOK, DropWalFails, Pc
  <2>16. CASE BestEffort(r)
    BY <2>16, Moves, Deletes, Loses DEF TypeOK, BestEffort, Loss
  <2>17. CASE RegisterLease(r)
    BY <2>17, Moves, Fields DEF TypeOK, RegisterLease
  <2> QED
    BY <1>2, <2>1, <2>2, <2>3, <2>4, <2>5, <2>6, <2>7, <2>8, <2>9, <2>10,
       <2>11, <2>12, <2>13, <2>14, <2>15, <2>16, <2>17 DEF RequestStep
<1>3. ASSUME NEW t \in Token, LateCommit(t) PROVE TypeOK'
  BY <1>3 DEF TypeOK, LateCommit
<1>4. ASSUME NEW k \in Kind, NEW t \in Token, JobStep(k, t) PROVE TypeOK'
  <2> USE <1>4, SetsJob DEF TypeOK, JobType
  <2>1. CASE SnapshotRevoke(k, t)
    BY <2>1, Deletes DEF SnapshotRevoke
  <2>2. CASE SnapshotRevokeFails(k, t)
    BY <2>2, Deletes DEF SnapshotRevokeFails
  <2>3. CASE GetClient(k, t)
    BY <2>3 DEF GetClient
  <2>4. CASE FallbackRevoke(k, t)
    BY <2>4, Deletes, Loses DEF FallbackRevoke, Loss
  <2>5. CASE FallbackRevokeFails(k, t)
    BY <2>5, Deletes DEF FallbackRevokeFails
  <2>6. CASE Acknowledge(k, t)
    BY <2>6, Faulty DEF Acknowledge
  <2> QED
    BY <2>1, <2>2, <2>3, <2>4, <2>5, <2>6 DEF JobStep
<1>5. ASSUME NEW c \in Conn, WriteConfig(c) \/ RevokeCredential(c) PROVE TypeOK'
  BY <1>5, Faulty DEF TypeOK, WriteConfig, Store, RevokeCredential
<1>6. CASE DeleteConfig \/ Reset
  BY <1>6, Faulty DEF TypeOK, DeleteConfig, Store, Reset
<1>7. CASE Crash
  BY <1>7, Faulty DEF TypeOK, Crash, Idle, NoJob, ReqType, Pc, JobType, Loss
<1>8. CASE UNCHANGED vars
  BY <1>8 DEF TypeOK, vars
<1> QED
  BY <1>1, <1>2, <1>3, <1>4, <1>5, <1>6, <1>7, <1>8 DEF Next


-----------------------------------------------------------------------------
\* A DELETE never creates a token; sent where the token lives, it removes it.
LEMMA Deletion ==
  ASSUME TypeOK, NEW c \in Conn, NEW t \in Token
  PROVE  /\ DeleteOk(c, t) \/ DeleteErr(c, t) => live' \subseteq live
         /\ DeleteOk(c, t) /\ c[1] = t[1] => t \notin live'
  BY DEF DeleteOk, DeleteErr, Without

\* Where a request is left alone, and what one step of a request r keeps.
Others(r) == \A q \in Request \ {r} : req'[q] = req[q]
LossKept == \A u \in Token : lost[u] # "no" => lost'[u] # "no"

\* The first loss sticks.
LEMMA LossSticks ==
  ASSUME NEW T, NEW why, why # "no", Lose(T, why)
  PROVE  LossKept /\ \A u \in T \cap Token : lost'[u] # "no"
  BY DEF Lose, LossKept

\* A request takes a token nobody else has.
LEMMA HoldingKept ==
  ASSUME Inv, NEW r \in Request, NEW pc, NEW t \in Token, Hold(r, pc, t),
         req[r].pc # "idle", pc \notin {"idle", "mint"},
         born \subseteq born', t \in born', t[1] = req[r].conn[1],
         \A q \in Request \ {r} : req[q].tok # t
  PROVE  Holding'
<1>1. /\ req'[r].pc = pc /\ req'[r].tok = t /\ req'[r].conn = req[r].conn
      /\ Others(r)
  BY DEF Inv, TypeOK, Hold, Others
<1> QED
  BY <1>1, NullAssumption DEF Inv, Holding, Others

\* The step of a request that is not sweeping leaves pending tokens alone.
LEMMA LateKept ==
  ASSUME Inv, NEW r \in Request, req[r].pc # "sweep", Others(r), LossKept,
         req'[r].tok \in {req[r].tok, NoToken},
         late' = late, live' \subseteq live, job' = job,
         \A u \in late : wal'[u] = wal[u] /\ lease'[u] = lease[u]
  PROVE  LateAlone'
<1> SUFFICES ASSUME NEW u \in late
             PROVE  /\ u \notin live' /\ wal'[u] = NoConn /\ lease'[u] = NoConn
                    /\ \A k \in Kind : job'[k][u].stage = "none"
                    /\ \A q \in Request : req'[q].tok = u => req'[q].pc = "sweep"
                    /\ (\E q \in Request : req'[q].tok = u) \/ lost'[u] # "no"
  BY DEF LateAlone, Held, Holds
<1>1. u \in Token /\ req[r].tok # u /\ req'[r].tok # u
  BY NullAssumption DEF Inv, TypeOK, LateAlone, Holds
<1> QED
  BY <1>1 DEF Inv, LateAlone, Held, Holds, Others, LossKept

\* A step that moves no revokeToken call and makes no token keeps DoneGone.
LEMMA DoneKept ==
  ASSUME Inv, job' = job, LossKept, live' \subseteq live
  PROVE  DoneGone'
  BY DEF Inv, DoneGone, LossKept

\* Only the token request r now holds may be new.
LEMMA AccountedKept ==
  ASSUME Inv, NEW r \in Request, Others(r), LossKept, wal' = wal,
         lease' = lease, req'[r].tok = req[r].tok \/ req[r].tok = NoToken,
         \A u \in live' : u \in live \/ u = req'[r].tok
  PROVE  Accounted'
<1> SUFFICES ASSUME NEW u \in live'
             PROVE  \/ \E q \in Request : req'[q].tok = u
                    \/ wal'[u] # NoConn \/ lease'[u] # NoConn \/ lost'[u] # "no"
  BY DEF Accounted, Held, Holds, Recorded
<1>1. CASE u = req'[r].tok
  BY <1>1
<1>2. CASE u \in live /\ u # req'[r].tok
  <2>1. u \in Token /\ u # NoToken /\ req[r].tok # u
    BY <1>2, NullAssumption DEF Inv, TypeOK
  <2> QED
    BY <1>2, <2>1 DEF Inv, Accounted, Held, Holds, Recorded, Others, LossKept
<1> QED
  BY <1>1, <1>2

\* Inv is inductive: no step of createCreds, walRollback, tokenRevoke, AAP,
\* an operator or a crash leads out of it.
THEOREM Inductive == Inv /\ [Next]_vars => Inv'
<1> SUFFICES ASSUME Inv, [Next]_vars PROVE Inv'
  OBVIOUS
<1>t. TypeOK'
  BY Typing DEF Inv
<1> USE <1>t DEF Inv, aapVars, configVars
<1>1. ASSUME NEW r \in Request, RequestStep(r) PROVE Inv'
  <2>1. CASE Refuse(r)
    BY <2>1 DEF TypeOK, ReqType, Pc, Loss, Refuse, Finish, Idle, Holding, BornFirst,
       Phases, LateAlone,
       SnapshotMatches, DoneGone, Accounted, Protected, OneOwner, Holds, Held, Recorded
  <2>2. ASSUME NEW t \in Token, MintAnswered(r, t) PROVE Inv'
    <3>1. Holding'
      <4>1. \A q \in Request : req[q].tok # t
        BY <2>2, NullAssumption DEF MintAnswered, Create, Holding
      <4> QED
        BY <2>2, <4>1, HoldingKept DEF MintAnswered, Create
    <3>2. BornFirst'
      BY <2>2 DEF MintAnswered, Create, Hold, BornFirst
    <3>3. Phases'
      BY <2>2 DEF MintAnswered, Create, Hold, Phases, Holding, BornFirst, LateAlone,
         Holds
    <3>4. LateAlone'
      BY <2>2 DEF MintAnswered, Create, Hold, LateAlone, Holding, BornFirst, Held,
         Holds
    <3>5. SnapshotMatches'
      BY <2>2 DEF MintAnswered, SnapshotMatches
    <3>6. DoneGone'
      BY <2>2 DEF MintAnswered, Create, Hold, DoneGone, BornFirst, LateAlone,
         SnapshotMatches
    <3>7. Accounted'
      <4>1. Others(r) /\ req'[r].tok = t /\ req[r].tok = NoToken /\ LossKept
        BY <2>2 DEF TypeOK, MintAnswered, Hold, Others, LossKept, Holding
      <4> QED
        BY <2>2, <4>1, AccountedKept DEF MintAnswered
    <3>8. Protected'
      BY <2>2 DEF MintAnswered, Create, Hold, Protected, Holding, BornFirst,
         LateAlone, DoneGone, Phases
    <3>9. OneOwner'
      BY <2>2 DEF MintAnswered, OneOwner
    <3> QED
      BY <3>1, <3>2, <3>3, <3>4, <3>5, <3>6, <3>7, <3>8, <3>9
  <2>3. ASSUME NEW t \in Token, MintUnread(r, t) PROVE Inv'
    <3>1. Holding'
      BY <2>3 DEF MintUnread, Create, Finish, Idle, Lose, Holding
    <3>2. BornFirst'
      BY <2>3 DEF MintUnread, Create, Finish, Idle, Lose, BornFirst
    <3>3. Phases'
      BY <2>3 DEF MintUnread, Create, Finish, Idle, Lose, Phases, Holding, BornFirst,
         LateAlone, Holds
    <3>4. LateAlone'
      BY <2>3 DEF TypeOK, MintUnread, Create, Finish, Idle, Lose, LateAlone, Holding,
         BornFirst, Held, Holds
    <3>5. SnapshotMatches'
      BY <2>3 DEF MintUnread, SnapshotMatches
    <3>6. DoneGone'
      BY <2>3 DEF MintUnread, Create, Finish, Idle, Lose, DoneGone
    <3>7. Accounted'
      BY <2>3 DEF TypeOK, MintUnread, Create, Finish, Idle, Lose, Accounted, Holding,
         BornFirst, LateAlone, Phases, Protected, DoneGone, Held, Holds, Recorded
    <3>8. Protected'
      BY <2>3 DEF TypeOK, MintUnread, Create, Finish, Idle, Lose, Protected, Holding,
         BornFirst, LateAlone, DoneGone, Phases
    <3>9. OneOwner'
      BY <2>3 DEF MintUnread, OneOwner
    <3> QED
      BY <3>1, <3>2, <3>3, <3>4, <3>5, <3>6, <3>7, <3>8, <3>9
  <2>4. ASSUME NEW t \in Token, MintLost(r, t) PROVE Inv'
    <3>1. Holding'
      <4>1. \A q \in Request : req[q].tok # t
        BY <2>4, NullAssumption DEF MintLost, Create, Holding
      <4> QED
        BY <2>4, <4>1, HoldingKept DEF MintLost, Create
    <3>2. BornFirst'
      BY <2>4 DEF MintLost, Create, Hold, BornFirst
    <3>3. Phases'
      BY <2>4 DEF MintLost, Create, Hold, Phases, Holding, BornFirst, LateAlone, Holds
    <3>4. LateAlone'
      <4> SUFFICES ASSUME NEW u \in late'
                   PROVE  /\ u \notin live' /\ wal'[u] = NoConn /\ lease'[u] = NoConn
                          /\ \A k \in Kind : job'[k][u].stage = "none"
                          /\ \A q \in Request : req'[q].tok = u => req'[q].pc = "sweep"
                          /\ (\E q \in Request : req'[q].tok = u) \/ lost'[u] # "no"
        BY DEF LateAlone, Held, Holds
      <4>1. /\ req'[r].tok = t /\ req'[r].pc = "sweep" /\ req[r].tok = NoToken
            /\ Others(r)
        BY <2>4 DEF TypeOK, MintLost, Hold, Others, Holding
      <4>2. CASE u = t
        <5>1. t \notin live' /\ (\A q \in Request : req[q].tok # t)
          BY <2>4, <4>2, NullAssumption DEF TypeOK, MintLost, Create, BornFirst,
             Holding
        <5> QED
          BY <2>4, <4>1, <4>2, <5>1 DEF MintLost, Create, BornFirst, Others
      <4>3. CASE u # t
        <5>1. u \in late /\ u \notin live' /\ u \in Token /\ u # NoToken
          BY <2>4, <4>3, NullAssumption DEF TypeOK, MintLost, LateAlone
        <5>2. lost' = lost /\ UNCHANGED <<wal, lease, job>>
          BY <2>4 DEF MintLost
        <5> QED
          BY <4>1, <4>3, <5>1, <5>2 DEF LateAlone, Others, Held, Holds
      <4> QED
        BY <4>2, <4>3
    <3>5. SnapshotMatches'
      BY <2>4 DEF MintLost, SnapshotMatches
    <3>6. DoneGone'
      BY <2>4 DEF MintLost, Create, Hold, DoneGone, BornFirst, LateAlone,
         SnapshotMatches
    <3>7. Accounted'
      <4>1. Others(r) /\ req'[r].tok = t /\ req[r].tok = NoToken /\ LossKept
        BY <2>4 DEF TypeOK, MintLost, Hold, Others, LossKept, Holding
      <4> QED
        BY <2>4, <4>1, AccountedKept DEF MintLost
    <3>8. Protected'
      BY <2>4 DEF MintLost, Create, Hold, Protected, Holding, BornFirst, LateAlone,
         DoneGone, Phases
    <3>9. OneOwner'
      BY <2>4 DEF MintLost, OneOwner
    <3> QED
      BY <3>1, <3>2, <3>3, <3>4, <3>5, <3>6, <3>7, <3>8, <3>9
  <2>5. CASE Sweep(r)
    <3>1. Holding'
      BY <2>5 DEF Sweep, Finish, Idle, Lose, Holding
    <3>2. BornFirst'
      BY <2>5 DEF Sweep, BornFirst
    <3>3. Phases'
      BY <2>5 DEF Sweep, Finish, Idle, Lose, Phases
    <3>4. LateAlone'
      <4>1. /\ Others(r) /\ req'[r].tok = NoToken /\ LossKept
            /\ req[r].tok \in late => lost'[req[r].tok] # "no"
        BY <2>5, LossSticks DEF TypeOK, Sweep, Finish, Idle, Others
      <4>2. late' = late /\ live' \subseteq live /\ UNCHANGED <<wal, lease, job>>
        BY <2>5 DEF Sweep
      <4> SUFFICES ASSUME NEW u \in late
                   PROVE  /\ u \notin live' /\ wal'[u] = NoConn /\ lease'[u] = NoConn
                          /\ \A k \in Kind : job'[k][u].stage = "none"
                          /\ \A q \in Request : req'[q].tok = u => req'[q].pc = "sweep"
                          /\ (\E q \in Request : req'[q].tok = u) \/ lost'[u] # "no"
        BY <4>2 DEF LateAlone, Held, Holds
      <4>3. u \in Token /\ u # NoToken
        BY NullAssumption DEF TypeOK
      <4> QED
        BY <4>1, <4>2, <4>3 DEF LateAlone, Held, Holds, Others, LossKept
    <3>5. SnapshotMatches'
      BY <2>5 DEF Sweep, SnapshotMatches
    <3>6. DoneGone'
      BY <2>5 DEF Sweep, Finish, Idle, Lose, DoneGone
    <3>7. Accounted'
      BY <2>5 DEF TypeOK, Sweep, Finish, Idle, Lose, Accounted, Holding, BornFirst,
         LateAlone, Phases, Protected, DoneGone, Held, Holds, Recorded
    <3>8. Protected'
      BY <2>5 DEF TypeOK, Sweep, Finish, Idle, Lose, Protected, Holding, BornFirst,
         LateAlone, DoneGone, Phases
    <3>9. OneOwner'
      BY <2>5 DEF Sweep, OneOwner
    <3> QED
      BY <3>1, <3>2, <3>3, <3>4, <3>5, <3>6, <3>7, <3>8, <3>9
  <2>6. CASE SweepFails(r)
    <3>1. Holding'
      BY <2>6 DEF SweepFails, Finish, Idle, Lose, Holding
    <3>2. BornFirst'
      BY <2>6 DEF SweepFails, BornFirst
    <3>3. Phases'
      BY <2>6 DEF SweepFails, Finish, Idle, Lose, Phases
    <3>4. LateAlone'
      <4>1. /\ Others(r) /\ req'[r].tok = NoToken /\ LossKept
            /\ req[r].tok \in late => lost'[req[r].tok] # "no"
        BY <2>6, LossSticks DEF TypeOK, SweepFails, Finish, Idle, Others
      <4>2. late' = late /\ live' \subseteq live /\ UNCHANGED <<wal, lease, job>>
        BY <2>6 DEF SweepFails
      <4> SUFFICES ASSUME NEW u \in late
                   PROVE  /\ u \notin live' /\ wal'[u] = NoConn /\ lease'[u] = NoConn
                          /\ \A k \in Kind : job'[k][u].stage = "none"
                          /\ \A q \in Request : req'[q].tok = u => req'[q].pc = "sweep"
                          /\ (\E q \in Request : req'[q].tok = u) \/ lost'[u] # "no"
        BY <4>2 DEF LateAlone, Held, Holds
      <4>3. u \in Token /\ u # NoToken
        BY NullAssumption DEF TypeOK
      <4> QED
        BY <4>1, <4>2, <4>3 DEF LateAlone, Held, Holds, Others, LossKept
    <3>5. SnapshotMatches'
      BY <2>6 DEF SweepFails, SnapshotMatches
    <3>6. DoneGone'
      BY <2>6 DEF SweepFails, Finish, Idle, Lose, DoneGone
    <3>7. Accounted'
      BY <2>6 DEF TypeOK, SweepFails, Finish, Idle, Lose, Accounted, Holding,
         BornFirst, LateAlone, Phases, Protected, DoneGone, Held, Holds, Recorded
    <3>8. Protected'
      BY <2>6 DEF TypeOK, SweepFails, Finish, Idle, Lose, Protected, Holding,
         BornFirst, LateAlone, DoneGone, Phases
    <3>9. OneOwner'
      BY <2>6 DEF SweepFails, OneOwner
    <3> QED
      BY <3>1, <3>2, <3>3, <3>4, <3>5, <3>6, <3>7, <3>8, <3>9
  <2>7. CASE PutWal(r)
    <3>1. Holding'
      BY <2>7 DEF PutWal, Goto, Hold, Holding
    <3>2. BornFirst'
      BY <2>7 DEF PutWal, Goto, Hold, BornFirst, Holding, LateAlone
    <3>3. Phases'
      BY <2>7 DEF TypeOK, PutWal, Goto, Hold, Phases, Holding, BornFirst, LateAlone,
         Holds
    <3>4. LateAlone'
      BY <2>7 DEF PutWal, Goto, Hold, LateAlone, Holding, BornFirst, Held, Holds
    <3>5. SnapshotMatches'
      BY <2>7 DEF PutWal, Goto, Hold, SnapshotMatches, Holding
    <3>6. DoneGone'
      BY <2>7 DEF PutWal, DoneGone
    <3>7. Accounted'
      BY <2>7 DEF PutWal, Goto, Hold, Accounted, Holding, BornFirst, LateAlone,
         Phases, Protected, DoneGone, Held, Holds, Recorded
    <3>8. Protected'
      BY <2>7, NullAssumption DEF TypeOK, ReqType, Pc, PutWal, Goto, Hold, Protected,
         Holding, BornFirst
    <3>9. OneOwner'
      BY <2>7 DEF PutWal, Goto, Hold, OneOwner, Holding, BornFirst, Phases, LateAlone
    <3> QED
      BY <3>1, <3>2, <3>3, <3>4, <3>5, <3>6, <3>7, <3>8, <3>9
  <2>8. CASE PutWalFails(r)
    <3>1. Holding'
      <4>1. PICK pc \in {"besteffort"} : Hold(r, pc, req[r].tok)
        BY <2>8 DEF PutWalFails, Goto
      <4>2. /\ req[r].tok \in born \cap Token /\ req[r].pc # "idle"
            /\ req[r].tok[1] = req[r].conn[1] /\ born' = born
            /\ \A q \in Request \ {r} : req[q].tok # req[r].tok
        BY <2>8 DEF TypeOK, ReqType, PutWalFails, Holding
      <4> QED
        BY <4>1, <4>2, HoldingKept
    <3>2. BornFirst'
      BY <2>8 DEF TypeOK, PutWalFails, Goto, Hold, BornFirst, Holding, LateAlone
    <3>3. Phases'
      BY <2>8 DEF TypeOK, PutWalFails, Goto, Hold, Phases, Holding, BornFirst,
         LateAlone, Holds
    <3>4. LateAlone'
      <4>1. Others(r) /\ LossKept /\ req'[r].tok \in {req[r].tok, NoToken}
        BY <2>8 DEF TypeOK, PutWalFails, Goto, Hold, Others, LossKept
      <4>2. \A u \in late : wal'[u] = wal[u] /\ lease'[u] = lease[u]
        BY <2>8 DEF TypeOK, PutWalFails, LateAlone, Holds
      <4> QED
        BY <2>8, <4>1, <4>2, LateKept DEF PutWalFails
    <3>5. SnapshotMatches'
      BY <2>8 DEF TypeOK, PutWalFails, Goto, Hold, SnapshotMatches, Holding
    <3>6. DoneGone'
      BY <2>8 DEF PutWalFails, DoneGone
    <3>7. Accounted'
      BY <2>8 DEF TypeOK, PutWalFails, Goto, Hold, Accounted, Holding, BornFirst,
         LateAlone, Phases, Protected, DoneGone, Held, Holds, Recorded
    <3>8. Protected'
      BY <2>8 DEF TypeOK, PutWalFails, Goto, Hold, Protected, Holding, BornFirst,
         LateAlone, DoneGone, Phases
    <3>9. OneOwner'
      BY <2>8 DEF TypeOK, PutWalFails, Goto, Hold, OneOwner, Holding, BornFirst,
         Phases, LateAlone
    <3> QED
      BY <3>1, <3>2, <3>3, <3>4, <3>5, <3>6, <3>7, <3>8, <3>9
  <2>9. CASE CheckApplication(r)
    <3>1. Holding'
      <4>1. PICK pc \in {"owner", "undo"} : Hold(r, pc, req[r].tok)
        BY <2>9 DEF CheckApplication, Guard, Goto
      <4>2. /\ req[r].tok \in born \cap Token /\ req[r].pc # "idle"
            /\ req[r].tok[1] = req[r].conn[1] /\ born' = born
            /\ \A q \in Request \ {r} : req[q].tok # req[r].tok
        BY <2>9 DEF TypeOK, ReqType, CheckApplication, Holding
      <4> QED
        BY <4>1, <4>2, HoldingKept
    <3>2. BornFirst'
      BY <2>9 DEF CheckApplication, BornFirst
    <3>3. Phases'
      BY <2>9 DEF TypeOK, CheckApplication, Guard, Goto, Hold, Phases, Holding,
         BornFirst, LateAlone, Holds
    <3>4. LateAlone'
      <4>1. Others(r) /\ LossKept /\ req'[r].tok \in {req[r].tok, NoToken}
        BY <2>9 DEF TypeOK, CheckApplication, Guard, Goto, Hold, Others, LossKept
      <4>2. live' \subseteq live
        BY <2>9, Deletion DEF TypeOK, ReqType, CheckApplication, Holding
      <4> QED
        BY <2>9, <4>1, <4>2, LateKept DEF CheckApplication
    <3>5. SnapshotMatches'
      BY <2>9 DEF CheckApplication, SnapshotMatches
    <3>6. DoneGone'
      BY <2>9 DEF CheckApplication, DoneGone
    <3>7. Accounted'
      <4>1. Others(r) /\ LossKept /\ req'[r].tok = req[r].tok
        BY <2>9 DEF TypeOK, CheckApplication, Guard, Goto, Hold, Others, LossKept
      <4> QED
        BY <2>9, <4>1, AccountedKept DEF CheckApplication
    <3>8. Protected'
      BY <2>9 DEF TypeOK, CheckApplication, Guard, Goto, Hold, Protected, Holding,
         BornFirst, LateAlone, DoneGone, Phases
    <3>9. OneOwner'
      BY <2>9 DEF CheckApplication, OneOwner
    <3> QED
      BY <3>1, <3>2, <3>3, <3>4, <3>5, <3>6, <3>7, <3>8, <3>9
  <2>10. CASE CheckOwner(r)
    <3>1. Holding'
      <4>1. PICK pc \in {"commit", "undo"} : Hold(r, pc, req[r].tok)
        BY <2>10 DEF CheckOwner, Guard, Goto
      <4>2. /\ req[r].tok \in born \cap Token /\ req[r].pc # "idle"
            /\ req[r].tok[1] = req[r].conn[1] /\ born' = born
            /\ \A q \in Request \ {r} : req[q].tok # req[r].tok
        BY <2>10 DEF TypeOK, ReqType, CheckOwner, Holding
      <4> QED
        BY <4>1, <4>2, HoldingKept
    <3>2. BornFirst'
      BY <2>10 DEF CheckOwner, BornFirst
    <3>3. Phases'
      BY <2>10 DEF TypeOK, CheckOwner, Guard, Goto, Hold, Phases, Holding, BornFirst,
         LateAlone, Holds
    <3>4. LateAlone'
      <4>1. Others(r) /\ LossKept /\ req'[r].tok \in {req[r].tok, NoToken}
        BY <2>10 DEF TypeOK, CheckOwner, Guard, Goto, Hold, Others, LossKept
      <4>2. live' \subseteq live
        BY <2>10, Deletion DEF TypeOK, ReqType, CheckOwner, Holding
      <4> QED
        BY <2>10, <4>1, <4>2, LateKept DEF CheckOwner
    <3>5. SnapshotMatches'
      BY <2>10 DEF CheckOwner, SnapshotMatches
    <3>6. DoneGone'
      BY <2>10 DEF CheckOwner, DoneGone
    <3>7. Accounted'
      <4>1. Others(r) /\ LossKept /\ req'[r].tok = req[r].tok
        BY <2>10 DEF TypeOK, CheckOwner, Guard, Goto, Hold, Others, LossKept
      <4> QED
        BY <2>10, <4>1, AccountedKept DEF CheckOwner
    <3>8. Protected'
      BY <2>10 DEF TypeOK, CheckOwner, Guard, Goto, Hold, Protected, Holding,
         BornFirst, LateAlone, DoneGone, Phases
    <3>9. OneOwner'
      BY <2>10 DEF CheckOwner, OneOwner
    <3> QED
      BY <3>1, <3>2, <3>3, <3>4, <3>5, <3>6, <3>7, <3>8, <3>9
  <2>11. CASE Cancel(r)
    BY <2>11 DEF TypeOK, ReqType, Pc, Loss, Cancel, Goto, Hold, Holding, BornFirst,
       Phases, LateAlone,
       SnapshotMatches, DoneGone, Accounted, Protected, OneOwner, Holds, Held, Recorded
  <2>12. CASE UndoRevoke(r)
    <3>1. Holding'
      BY <2>12, Deletion DEF UndoRevoke, Goto, Hold, Holding
    <3>2. BornFirst'
      BY <2>12, Deletion DEF TypeOK, UndoRevoke, Goto, Hold, BornFirst, Holding,
         LateAlone
    <3>3. Phases'
      BY <2>12, Deletion DEF TypeOK, UndoRevoke, Goto, Hold, Phases, Holding,
         BornFirst, LateAlone, Holds
    <3>4. LateAlone'
      BY <2>12, Deletion DEF TypeOK, UndoRevoke, Goto, Hold, LateAlone, Holding,
         BornFirst, Held, Holds
    <3>5. SnapshotMatches'
      BY <2>12 DEF UndoRevoke, SnapshotMatches
    <3>6. DoneGone'
      <4>1. live' \subseteq live /\ LossKept
        BY <2>12, Deletion DEF TypeOK, ReqType, UndoRevoke, Holding, LossKept
      <4> QED
        BY <2>12, <4>1, DoneKept DEF UndoRevoke
    <3>7. Accounted'
      BY <2>12, Deletion DEF TypeOK, UndoRevoke, Goto, Hold, Accounted, Holding,
         BornFirst, LateAlone, Phases, Protected, DoneGone, Held, Holds, Recorded
    <3>8. Protected'
      BY <2>12, Deletion DEF TypeOK, UndoRevoke, Goto, Hold, Protected, Holding,
         BornFirst, LateAlone, DoneGone, Phases
    <3>9. OneOwner'
      BY <2>12 DEF UndoRevoke, OneOwner
    <3> QED
      BY <3>1, <3>2, <3>3, <3>4, <3>5, <3>6, <3>7, <3>8, <3>9
  <2>13. CASE UndoRevokeFails(r)
    <3>1. Holding'
      BY <2>13, Deletion DEF UndoRevokeFails, Finish, Idle, Holding
    <3>2. BornFirst'
      <4>1. live' \subseteq live
        BY <2>13, Deletion DEF TypeOK, ReqType, UndoRevokeFails, Holding
      <4> QED
        BY <2>13, <4>1 DEF UndoRevokeFails, BornFirst
    <3>3. Phases'
      BY <2>13, Deletion DEF TypeOK, UndoRevokeFails, Finish, Idle, Phases, Holding,
         BornFirst, LateAlone, Holds
    <3>4. LateAlone'
      <4>1. Others(r) /\ LossKept /\ req'[r].tok \in {req[r].tok, NoToken}
        BY <2>13 DEF TypeOK, UndoRevokeFails, Finish, Idle, Others, LossKept
      <4>2. live' \subseteq live
        BY <2>13, Deletion DEF TypeOK, ReqType, UndoRevokeFails, Holding
      <4> QED
        BY <2>13, <4>1, <4>2, LateKept DEF UndoRevokeFails
    <3>5. SnapshotMatches'
      BY <2>13 DEF UndoRevokeFails, SnapshotMatches
    <3>6. DoneGone'
      <4>1. live' \subseteq live /\ LossKept
        BY <2>13, Deletion DEF TypeOK, ReqType, UndoRevokeFails, Holding, LossKept
      <4> QED
        BY <2>13, <4>1, DoneKept DEF UndoRevokeFails
    <3>7. Accounted'
      BY <2>13, Deletion DEF TypeOK, UndoRevokeFails, Finish, Idle, Accounted,
         Holding, BornFirst, LateAlone, Phases, Protected, DoneGone, Held, Holds,
         Recorded
    <3>8. Protected'
      BY <2>13, Deletion DEF TypeOK, UndoRevokeFails, Finish, Idle, Protected,
         Holding, BornFirst, LateAlone, DoneGone, Phases
    <3>9. OneOwner'
      BY <2>13 DEF UndoRevokeFails, OneOwner
    <3> QED
      BY <3>1, <3>2, <3>3, <3>4, <3>5, <3>6, <3>7, <3>8, <3>9
  <2>14. CASE UndoDeleteWal(r)
    <3>1. Holding'
      BY <2>14 DEF UndoDeleteWal, Finish, Idle, Holding
    <3>2. BornFirst'
      BY <2>14 DEF TypeOK, UndoDeleteWal, Finish, Idle, BornFirst, Holding, LateAlone
    <3>3. Phases'
      BY <2>14 DEF TypeOK, UndoDeleteWal, Finish, Idle, Phases, Holding, BornFirst,
         LateAlone, Holds
    <3>4. LateAlone'
      <4>1. Others(r) /\ LossKept /\ req'[r].tok \in {req[r].tok, NoToken}
        BY <2>14 DEF TypeOK, UndoDeleteWal, Finish, Idle, Others, LossKept
      <4>2. \A u \in late : wal'[u] = wal[u] /\ lease'[u] = lease[u]
        BY <2>14 DEF TypeOK, UndoDeleteWal, LateAlone, Holds
      <4> QED
        BY <2>14, <4>1, <4>2, LateKept DEF UndoDeleteWal
    <3>5. SnapshotMatches'
      BY <2>14 DEF TypeOK, UndoDeleteWal, Finish, Idle, SnapshotMatches, Holding
    <3>6. DoneGone'
      BY <2>14 DEF UndoDeleteWal, DoneGone
    <3>7. Accounted'
      BY <2>14 DEF TypeOK, UndoDeleteWal, Finish, Idle, Accounted, Holding,
         BornFirst, LateAlone, Phases, Protected, DoneGone, Held, Holds, Recorded
    <3>8. Protected'
      BY <2>14 DEF TypeOK, UndoDeleteWal, Finish, Idle, Protected, Holding,
         BornFirst, LateAlone, DoneGone, Phases
    <3>9. OneOwner'
      BY <2>14 DEF TypeOK, UndoDeleteWal, Finish, Idle, OneOwner, Holding, BornFirst,
         Phases, LateAlone
    <3> QED
      BY <3>1, <3>2, <3>3, <3>4, <3>5, <3>6, <3>7, <3>8, <3>9
  <2>15. CASE DropWal(r)
    BY <2>15 DEF TypeOK, ReqType, Pc, Loss, DropWal, Goto, Hold, Holding, BornFirst,
       Phases, LateAlone,
       SnapshotMatches, DoneGone, Accounted, Protected, OneOwner, Holds, Held, Recorded
  <2>16. CASE DropWalFails(r)
    <3>1. Holding'
      BY <2>16 DEF DropWalFails, Goto, Hold, Holding
    <3>2. BornFirst'
      BY <2>16 DEF TypeOK, DropWalFails, Goto, Hold, BornFirst, Holding, LateAlone
    <3>3. Phases'
      BY <2>16 DEF TypeOK, DropWalFails, Goto, Hold, Phases, Holding, BornFirst,
         LateAlone, Holds
    <3>4. LateAlone'
      BY <2>16 DEF TypeOK, DropWalFails, Goto, Hold, LateAlone, Holding, BornFirst,
         Held, Holds
    <3>5. SnapshotMatches'
      BY <2>16 DEF TypeOK, DropWalFails, Goto, Hold, SnapshotMatches, Holding
    <3>6. DoneGone'
      BY <2>16 DEF DropWalFails, DoneGone
    <3>7. Accounted'
      BY <2>16 DEF TypeOK, DropWalFails, Goto, Hold, Accounted, Holding, BornFirst,
         LateAlone, Phases, Protected, DoneGone, Held, Holds, Recorded
    <3>8. Protected'
      BY <2>16 DEF TypeOK, DropWalFails, Goto, Hold, Protected, Holding, BornFirst,
         LateAlone, DoneGone, Phases
    <3>9. OneOwner'
      BY <2>16 DEF TypeOK, DropWalFails, Goto, Hold, OneOwner, Holding, BornFirst,
         Phases, LateAlone
    <3> QED
      BY <3>1, <3>2, <3>3, <3>4, <3>5, <3>6, <3>7, <3>8, <3>9
  <2>17. CASE BestEffort(r)
    <3>1. Holding'
      BY <2>17, Deletion DEF BestEffort, Finish, Idle, Lose, Holding
    <3>2. BornFirst'
      BY <2>17, Deletion DEF TypeOK, BestEffort, Finish, Idle, Lose, BornFirst,
         Holding, LateAlone
    <3>3. Phases'
      BY <2>17, Deletion DEF TypeOK, BestEffort, Finish, Idle, Lose, Phases, Holding,
         BornFirst, LateAlone, Holds
    <3>4. LateAlone'
      <4>1. Others(r) /\ LossKept /\ req'[r].tok \in {req[r].tok, NoToken}
        BY <2>17, LossSticks DEF TypeOK, BestEffort, Finish, Idle, Others, LossKept
      <4>2. live' \subseteq live
        BY <2>17, Deletion DEF TypeOK, ReqType, BestEffort, Holding
      <4> QED
        BY <2>17, <4>1, <4>2, LateKept DEF BestEffort
    <3>5. SnapshotMatches'
      BY <2>17 DEF BestEffort, SnapshotMatches
    <3>6. DoneGone'
      <4>1. live' \subseteq live /\ LossKept
        BY <2>17, Deletion, LossSticks DEF TypeOK, ReqType, BestEffort, Holding,
           LossKept
      <4> QED
        BY <2>17, <4>1, DoneKept DEF BestEffort
    <3>7. Accounted'
      BY <2>17, Deletion DEF TypeOK, BestEffort, Finish, Idle, Lose, Accounted,
         Holding, BornFirst, LateAlone, Phases, Protected, DoneGone, Held, Holds,
         Recorded
    <3>8. Protected'
      BY <2>17, Deletion DEF TypeOK, BestEffort, Finish, Idle, Lose, Protected,
         Holding, BornFirst, LateAlone, DoneGone, Phases
    <3>9. OneOwner'
      BY <2>17 DEF BestEffort, OneOwner
    <3> QED
      BY <3>1, <3>2, <3>3, <3>4, <3>5, <3>6, <3>7, <3>8, <3>9
  <2>18. CASE RegisterLease(r)
    <3>1. Holding'
      BY <2>18 DEF RegisterLease, Finish, Idle, Holding
    <3>2. BornFirst'
      BY <2>18 DEF RegisterLease, Finish, Idle, BornFirst, Holding, LateAlone
    <3>3. Phases'
      BY <2>18 DEF TypeOK, RegisterLease, Finish, Idle, Phases, Holding, BornFirst,
         LateAlone, Holds
    <3>4. LateAlone'
      <4>1. Others(r) /\ LossKept /\ req'[r].tok \in {req[r].tok, NoToken}
        BY <2>18 DEF TypeOK, RegisterLease, Finish, Idle, Others, LossKept
      <4>2. \A u \in late : wal'[u] = wal[u] /\ lease'[u] = lease[u]
        BY <2>18 DEF TypeOK, RegisterLease, LateAlone, Holds
      <4> QED
        BY <2>18, <4>1, <4>2, LateKept DEF RegisterLease
    <3>5. SnapshotMatches'
      BY <2>18 DEF RegisterLease, Finish, Idle, SnapshotMatches, Holding
    <3>6. DoneGone'
      BY <2>18 DEF RegisterLease, DoneGone
    <3>7. Accounted'
      <4>1. lease'[req[r].tok] # NoConn /\ Others(r)
        BY <2>18, NullAssumption
           DEF TypeOK, ReqType, RegisterLease, Finish, Idle, Others, Holding
      <4>2. \A u \in Token : lease[u] # NoConn => lease'[u] # NoConn
        BY <2>18, <4>1 DEF TypeOK, RegisterLease
      <4> QED
        BY <2>18, <4>1, <4>2
           DEF TypeOK, RegisterLease, Accounted, Held, Holds, Recorded, Others
    <3>8. Protected'
      BY <2>18 DEF RegisterLease, Finish, Idle, Protected
    <3>9. OneOwner'
      BY <2>18 DEF RegisterLease, Finish, Idle, OneOwner, Holding, BornFirst, Phases,
         LateAlone
    <3> QED
      BY <3>1, <3>2, <3>3, <3>4, <3>5, <3>6, <3>7, <3>8, <3>9
  <2> QED
    BY <1>1, <2>1, <2>2, <2>3, <2>4, <2>5, <2>6, <2>7, <2>8, <2>9, <2>10, <2>11,
       <2>12, <2>13, <2>14, <2>15, <2>16, <2>17, <2>18 DEF RequestStep
<1>2. ASSUME NEW k \in Kind, NEW t \in Token, JobStep(k, t) PROVE Inv'
  <2>1. CASE SnapshotRevoke(k, t)
    <3>1. Holding'
      BY <2>1 DEF SnapshotRevoke, Holding
    <3>2. BornFirst'
      BY <2>1, Deletion DEF TypeOK, SnapshotRevoke, Eligible, Record, SetJob,
         BornFirst, Holding, LateAlone
    <3>3. Phases'
      BY <2>1, Deletion DEF TypeOK, SnapshotRevoke, Eligible, Record, SetJob, Phases,
         Holding, BornFirst, LateAlone, Holds
    <3>4. LateAlone'
      BY <2>1, Deletion DEF TypeOK, SnapshotRevoke, Eligible, Record, SetJob,
         LateAlone, Holding, BornFirst, Held, Holds
    <3>5. SnapshotMatches'
      BY <2>1 DEF SnapshotRevoke, SnapshotMatches
    <3>6. DoneGone'
      BY <2>1, Deletion DEF TypeOK, SnapshotRevoke, Eligible, Record, SetJob,
         DoneGone, BornFirst, LateAlone, SnapshotMatches
    <3>7. Accounted'
      BY <2>1, Deletion DEF TypeOK, SnapshotRevoke, Eligible, Record, SetJob,
         Accounted, Holding, BornFirst, LateAlone, Phases, Protected, DoneGone, Held,
         Holds, Recorded
    <3>8. Protected'
      BY <2>1, Deletion DEF TypeOK, SnapshotRevoke, Eligible, Record, SetJob,
         Protected, Holding, BornFirst, LateAlone, DoneGone, Phases
    <3>9. OneOwner'
      BY <2>1 DEF SnapshotRevoke, OneOwner
    <3> QED
      BY <3>1, <3>2, <3>3, <3>4, <3>5, <3>6, <3>7, <3>8, <3>9
  <2>2. CASE SnapshotRevokeFails(k, t)
    <3>1. Holding'
      BY <2>2 DEF SnapshotRevokeFails, Holding
    <3>2. BornFirst'
      BY <2>2, Deletion DEF TypeOK, SnapshotRevokeFails, Eligible, Record, SetJob,
         BornFirst, Holding, LateAlone
    <3>3. Phases'
      BY <2>2, Deletion DEF TypeOK, SnapshotRevokeFails, Eligible, Record, SetJob,
         Phases, Holding, BornFirst, LateAlone, Holds
    <3>4. LateAlone'
      BY <2>2, Deletion DEF TypeOK, SnapshotRevokeFails, Eligible, Record, SetJob,
         LateAlone, Holding, BornFirst, Held, Holds
    <3>5. SnapshotMatches'
      BY <2>2 DEF SnapshotRevokeFails, SnapshotMatches
    <3>6. DoneGone'
      BY <2>2, Deletion DEF TypeOK, SnapshotRevokeFails, Eligible, Record, SetJob,
         DoneGone, BornFirst, LateAlone, SnapshotMatches
    <3>7. Accounted'
      BY <2>2, Deletion DEF TypeOK, SnapshotRevokeFails, Eligible, Record, SetJob,
         Accounted, Holding, BornFirst, LateAlone, Phases, Protected, DoneGone, Held,
         Holds, Recorded
    <3>8. Protected'
      BY <2>2, Deletion DEF TypeOK, SnapshotRevokeFails, Eligible, Record, SetJob,
         Protected, Holding, BornFirst, LateAlone, DoneGone, Phases
    <3>9. OneOwner'
      BY <2>2 DEF SnapshotRevokeFails, OneOwner
    <3> QED
      BY <3>1, <3>2, <3>3, <3>4, <3>5, <3>6, <3>7, <3>8, <3>9
  <2>3. CASE GetClient(k, t)
    <3>1. Holding'
      BY <2>3 DEF GetClient, Holding
    <3>2. BornFirst'
      <4>1. \A l \in Kind, v \in Token :
               job'[l][v].stage # "none" => job[l][v].stage # "none"
        BY <2>3 DEF TypeOK, JobType, GetClient, SetJob
      <4> QED
        BY <2>3, <4>1 DEF TypeOK, GetClient, BornFirst
    <3>3. Phases'
      BY <2>3 DEF GetClient, Phases
    <3>4. LateAlone'
      BY <2>3 DEF TypeOK, GetClient, SetJob, LateAlone, Holding, BornFirst, Held,
         Holds
    <3>5. SnapshotMatches'
      BY <2>3 DEF GetClient, SnapshotMatches
    <3>6. DoneGone'
      BY <2>3 DEF TypeOK, GetClient, SetJob, DoneGone, BornFirst, LateAlone,
         SnapshotMatches
    <3>7. Accounted'
      BY <2>3 DEF GetClient, SetJob, Accounted, Holding, BornFirst, LateAlone,
         Phases, Protected, DoneGone, Held, Holds, Recorded
    <3>8. Protected'
      BY <2>3 DEF GetClient, Protected
    <3>9. OneOwner'
      BY <2>3 DEF GetClient, OneOwner
    <3> QED
      BY <3>1, <3>2, <3>3, <3>4, <3>5, <3>6, <3>7, <3>8, <3>9
  <2>4. CASE FallbackRevoke(k, t)
    <3>1. Holding'
      BY <2>4 DEF FallbackRevoke, Holding
    <3>2. BornFirst'
      BY <2>4, Deletion DEF TypeOK, FallbackRevoke, SetJob, Lose, JobType, BornFirst,
         Holding, LateAlone
    <3>3. Phases'
      BY <2>4, Deletion DEF TypeOK, FallbackRevoke, SetJob, Lose, JobType, Phases,
         Holding, BornFirst, LateAlone, Holds
    <3>4. LateAlone'
      BY <2>4, Deletion DEF TypeOK, FallbackRevoke, SetJob, Lose, JobType, LateAlone,
         Holding, BornFirst, Held, Holds
    <3>5. SnapshotMatches'
      BY <2>4 DEF FallbackRevoke, SnapshotMatches
    <3>6. DoneGone'
      <4>1. LossKept /\ (t \in live' => lost'[t] # "no") /\ live' \subseteq live
        BY <2>4, LossSticks DEF TypeOK, FallbackRevoke, DeleteOk, Without
      <4>2. \A v \in Token, l \in Kind :
               job'[l][v].stage = "done" => job[l][v].stage = "done" \/ (v = t /\ l = k)
        BY <2>4 DEF TypeOK, FallbackRevoke, SetJob
      <4> QED
        BY <4>1, <4>2 DEF DoneGone, LossKept
    <3>7. Accounted'
      <4>1. LossKept /\ live' \subseteq live
        BY <2>4, LossSticks, Deletion DEF TypeOK, JobType, FallbackRevoke, DeleteOk,
           DeleteErr, Without, LossKept
      <4> QED
        BY <2>4, <4>1 DEF TypeOK, ReqType, FallbackRevoke, LossKept, Accounted, Held,
           Holds, Recorded
    <3>8. Protected'
      <4>1. LossKept /\ live' \subseteq live
        BY <2>4, LossSticks, Deletion DEF TypeOK, JobType, FallbackRevoke, DeleteOk,
           DeleteErr, Without, LossKept
      <4> QED
        BY <2>4, <4>1 DEF TypeOK, ReqType, FallbackRevoke, LossKept, Protected,
           Holding
    <3>9. OneOwner'
      BY <2>4 DEF FallbackRevoke, OneOwner
    <3> QED
      BY <3>1, <3>2, <3>3, <3>4, <3>5, <3>6, <3>7, <3>8, <3>9
  <2>5. CASE FallbackRevokeFails(k, t)
    <3>1. Holding'
      BY <2>5 DEF FallbackRevokeFails, Holding
    <3>2. BornFirst'
      BY <2>5, Deletion DEF TypeOK, ReqType, Pc, Loss, FallbackRevokeFails, SetJob,
         JobType, BornFirst, Holding, LateAlone
    <3>3. Phases'
      BY <2>5, Deletion DEF TypeOK, ReqType, FallbackRevokeFails, SetJob, JobType,
         Phases, Holding, BornFirst, LateAlone, Holds
    <3>4. LateAlone'
      BY <2>5, Deletion DEF TypeOK, FallbackRevokeFails, SetJob, JobType, LateAlone,
         Holding, BornFirst, Held, Holds
    <3>5. SnapshotMatches'
      BY <2>5 DEF FallbackRevokeFails, SnapshotMatches
    <3>6. DoneGone'
      BY <2>5, Deletion DEF TypeOK, FallbackRevokeFails, SetJob, JobType, DoneGone,
         BornFirst, LateAlone, SnapshotMatches
    <3>7. Accounted'
      BY <2>5, Deletion DEF TypeOK, FallbackRevokeFails, SetJob, JobType, Accounted,
         Holding, BornFirst, LateAlone, Phases, Protected, DoneGone, Held, Holds,
         Recorded
    <3>8. Protected'
      <4>1. LossKept /\ live' \subseteq live
        BY <2>5, LossSticks, Deletion DEF TypeOK, JobType, FallbackRevokeFails,
           DeleteOk, DeleteErr, Without, LossKept
      <4> QED
        BY <2>5, <4>1 DEF TypeOK, ReqType, FallbackRevokeFails, LossKept, Protected,
           Holding
    <3>9. OneOwner'
      BY <2>5 DEF FallbackRevokeFails, OneOwner
    <3> QED
      BY <3>1, <3>2, <3>3, <3>4, <3>5, <3>6, <3>7, <3>8, <3>9
  <2>6. CASE Acknowledge(k, t)
    <3>1. Holding'
      BY <2>6 DEF Acknowledge, Holding
    <3>2. BornFirst'
      BY <2>6 DEF TypeOK, Acknowledge, SetJob, Record, BornFirst, Holding, LateAlone
    <3>3. Phases'
      BY <2>6 DEF TypeOK, Acknowledge, SetJob, Record, Phases, Holding, BornFirst,
         LateAlone, Holds
    <3>4. LateAlone'
      BY <2>6 DEF TypeOK, Acknowledge, SetJob, Record, LateAlone, Holding, BornFirst,
         Held, Holds
    <3>5. SnapshotMatches'
      BY <2>6 DEF TypeOK, Acknowledge, SetJob, Record, SnapshotMatches, Holding
    <3>6. DoneGone'
      BY <2>6 DEF Acknowledge, SetJob, Record, DoneGone
    <3>7. Accounted'
      BY <2>6 DEF TypeOK, Acknowledge, SetJob, Record, Accounted, Holding, BornFirst,
         LateAlone, Phases, Protected, DoneGone, Held, Holds, Recorded
    <3>8. Protected'
      BY <2>6 DEF TypeOK, Acknowledge, SetJob, Record, Protected, Holding, BornFirst,
         LateAlone, DoneGone, Phases
    <3>9. OneOwner'
      BY <2>6 DEF TypeOK, Acknowledge, SetJob, Record, OneOwner, Holding, BornFirst,
         Phases, LateAlone
    <3> QED
      BY <3>1, <3>2, <3>3, <3>4, <3>5, <3>6, <3>7, <3>8, <3>9
  <2> QED
    BY <1>2, <2>1, <2>2, <2>3, <2>4, <2>5, <2>6 DEF JobStep
<1>3. ASSUME NEW r \in Request, NEW p \in Policies, Start(r, p) PROVE Inv'
  BY <1>3 DEF TypeOK, ReqType, Pc, Start, Holding, BornFirst, Phases, LateAlone,
     SnapshotMatches, DoneGone, Accounted, Protected, OneOwner, Holds, Held, Recorded
<1>4. ASSUME NEW t \in Token, LateCommit(t) PROVE Inv'
  BY <1>4 DEF TypeOK, LateCommit, Holding, BornFirst, Phases, LateAlone,
     SnapshotMatches, DoneGone, Accounted, Protected, OneOwner, Holds, Held, Recorded
<1>5. ASSUME NEW c \in Conn, WriteConfig(c) \/ RevokeCredential(c) PROVE Inv'
  BY <1>5 DEF TypeOK, WriteConfig, Store, RevokeCredential, Holding, BornFirst,
     Phases, LateAlone,
     SnapshotMatches, DoneGone, Accounted, Protected, OneOwner, Holds, Held, Recorded
<1>6. CASE DeleteConfig \/ Reset
  BY <1>6 DEF TypeOK, DeleteConfig, Store, Reset, Holding, BornFirst, Phases,
     LateAlone,
     SnapshotMatches, DoneGone, Accounted, Protected, OneOwner, Holds, Held, Recorded
<1>7. CASE Crash
  <2>1. Holding'
    BY <1>7 DEF Crash, Idle, NoJob, HeldAt, Holding
  <2>2. BornFirst'
    BY <1>7 DEF Crash, Idle, NoJob, HeldAt, BornFirst
  <2>3. Phases'
    BY <1>7 DEF Crash, Idle, NoJob, HeldAt, Phases
  <2>4. LateAlone'
    <3>1. ASSUME NEW u \in late
          PROVE  /\ u \notin live /\ wal[u] = NoConn /\ lease[u] = NoConn
                 /\ lost'[u] # "no"
      <4>1. u \in Token /\ u \notin live /\ wal[u] = NoConn /\ lease[u] = NoConn
        BY DEF TypeOK, LateAlone
      <4>2. lost[u] # "no" \/ HeldAt(u, {"minted", "sweep", "besteffort"})
        BY DEF LateAlone, Held, Holds, HeldAt
      <4> QED
        BY <1>7, <4>1, <4>2 DEF Crash
    <3>2. /\ UNCHANGED <<late, live, wal, lease>>
          /\ \A q \in Request : req'[q].tok = NoToken
          /\ \A l \in Kind, v \in Token : job'[l][v].stage = "none"
      BY <1>7 DEF Crash, Idle, NoJob
    <3> QED
      BY <3>1, <3>2, NullAssumption DEF TypeOK, LateAlone, Held, Holds
  <2>5. SnapshotMatches'
    BY <1>7 DEF Crash, SnapshotMatches
  <2>6. DoneGone'
    BY <1>7 DEF Crash, Idle, NoJob, HeldAt, DoneGone
  <2>7. Accounted'
    BY <1>7 DEF TypeOK, ReqType, Pc, Loss, Crash, Idle, NoJob, HeldAt, Accounted,
       Holding, BornFirst, LateAlone, Phases, Protected, DoneGone, Held, Holds,
       Recorded
  <2>8. Protected'
    BY <1>7 DEF Crash, Idle, NoJob, HeldAt, Protected
  <2>9. OneOwner'
    BY <1>7 DEF Crash, OneOwner
  <2> QED
    BY <2>1, <2>2, <2>3, <2>4, <2>5, <2>6, <2>7, <2>8, <2>9
<1>8. CASE UNCHANGED vars
  BY <1>8 DEF TypeOK, vars, Holding, BornFirst, Phases, LateAlone,
     SnapshotMatches, DoneGone, Accounted, Protected, OneOwner, Holds, Held, Recorded
<1> QED
  BY <1>1, <1>2, <1>3, <1>4, <1>5, <1>6, <1>7, <1>8 DEF Next

\* A mount without requests, records and tokens satisfies Inv.
LEMMA Initially == Init => Inv
<1> SUFFICES ASSUME Init PROVE Inv
  OBVIOUS
<1>1. TypeOK
  <2>1. Idle \in ReqType /\ NoJob \in JobType
    BY DEF Idle, ReqType, Pc, NoJob, JobType
  <2>2. 0 \in 0..MaxFaults /\ "no" \in Loss
    BY BoundAssumption DEF Loss
  <2> QED
    BY <2>1, <2>2 DEF Init, TypeOK
<1> QED
  BY <1>1, NullAssumption
     DEF Init, Inv, Idle, NoJob, Holding, BornFirst, Phases, LateAlone,
         SnapshotMatches, DoneGone, Accounted, Protected, OneOwner, Holds

\* Whatever fails, and whenever Vault stops: every token AAP holds is in the
\* hands of a request, or a WAL entry or a lease will have it revoked, or it
\* was lost in one of the steps that set `lost'; a token under verification
\* is in the WAL, and never in the WAL and in a lease.
THEOREM Safety == Spec => []Inv
<1>1. Init => Inv
  BY Initially
<1>2. Inv /\ [Next]_vars => Inv'
  BY Inductive
<1> QED
  BY <1>1, <1>2, PTL DEF Spec

\* The type invariant.
THEOREM TypeCorrect == Spec => []TypeOK
<1>1. Inv => TypeOK
  BY DEF Inv
<1> QED
  BY <1>1, Safety, PTL

\* No orphaned credentials but through the named losses.
THEOREM NoOrphans == Spec => []Accounted
<1>1. Inv => Accounted
  BY DEF Inv
<1> QED
  BY <1>1, Safety, PTL

\* The WAL covers a token from PutWAL to the DeleteWAL of createCreds.
THEOREM WalCovers == Spec => []Protected
<1>1. Inv => Protected
  BY DEF Inv
<1> QED
  BY <1>1, Safety, PTL

\* A lease and a WAL entry never both answer for a token.
THEOREM SingleOwner == Spec => []OneOwner
<1>1. Inv => OneOwner
  BY DEF Inv
<1> QED
  BY <1>1, Safety, PTL

-----------------------------------------------------------------------------
\* Only Create writes owner and bound, for a token no request holds.
LEMMA GuardsStep == Inv /\ GuardsPassed /\ [Next]_vars => GuardsPassed'
<1> SUFFICES ASSUME Inv, GuardsPassed, [Next]_vars PROVE GuardsPassed'
  OBVIOUS
<1> USE DEF aapVars, configVars
<1>1. ASSUME NEW r \in Request, RequestStep(r) PROVE GuardsPassed'
  <2> USE DEF Inv, TypeOK, ReqType, GuardsPassed
  <2>1. ASSUME Finish(r), UNCHANGED <<owner, bound>> PROVE GuardsPassed'
    BY <2>1 DEF Finish, Idle
  <2>2. ASSUME NEW pc \in Pc \ {"owner", "commit", "respond"},
               NEW t \in Token, Hold(r, pc, t), UNCHANGED <<owner, bound>>
        PROVE  GuardsPassed'
    BY <2>2 DEF Hold
  <2>3. ASSUME NEW t \in Token, Create(r, t),
               Finish(r) \/ \E pc \in {"minted", "sweep"} : Hold(r, pc, t)
        PROVE  GuardsPassed'
    <3>1. \A q \in Request : req[q].tok # t
      BY <2>3, NullAssumption DEF Create, Holding
    <3>2. \A u \in Token : u # t => owner'[u] = owner[u] /\ bound'[u] = bound[u]
      BY <2>3 DEF Create
    <3>3. \A q \in Request \ {r} : req'[q] = req[q]
      BY <2>3 DEF Finish, Hold
    <3>4. req'[r].pc \in {"idle", "minted", "sweep"}
      BY <2>3 DEF Finish, Hold, Idle
    <3>5. \A q \in Request : req[q].pc \notin {"idle", "mint"} => req[q].tok \in Token
      BY DEF Holding
    <3> QED
      BY <3>1, <3>2, <3>3, <3>4, <3>5
  <2>4. ASSUME Refuse(r) \/ Sweep(r) \/ SweepFails(r) \/ UndoRevokeFails(r)
                 \/ UndoDeleteWal(r) \/ BestEffort(r) \/ RegisterLease(r)
        PROVE  Finish(r) /\ UNCHANGED <<owner, bound>>
    BY <2>4 DEF Refuse, Sweep, SweepFails, UndoRevokeFails, UndoDeleteWal,
                BestEffort, RegisterLease
  <2>5. ASSUME PutWal(r) \/ PutWalFails(r) \/ Cancel(r) \/ UndoRevoke(r)
                 \/ DropWalFails(r)
        PROVE  GuardsPassed'
    <3>1. req[r].tok \in Token
      BY <2>5 DEF PutWal, PutWalFails, Cancel, UndoRevoke, DropWalFails, Holding
    <3> QED
      BY <2>2, <2>5, <3>1 DEF PutWal, PutWalFails, Cancel, UndoRevoke,
                              DropWalFails, Goto, Pc
  <2>6. ASSUME NEW t \in Token, MintAnswered(r, t) \/ MintUnread(r, t) \/ MintLost(r, t)
        PROVE  GuardsPassed'
    BY <2>3, <2>6 DEF MintAnswered, MintUnread, MintLost
  <2>7. CASE CheckApplication(r)
    BY <2>7 DEF CheckApplication, Guard, Goto, Hold
  <2>8. CASE CheckOwner(r)
    BY <2>8 DEF CheckOwner, Guard, Goto, Hold
  <2>9. CASE DropWal(r)
    BY <2>9 DEF DropWal, Goto, Hold
  <2> QED
    BY <1>1, <2>1, <2>4, <2>5, <2>6, <2>7, <2>8, <2>9 DEF RequestStep
<1>2. ASSUME NEW r \in Request, NEW p \in Policies, Start(r, p) PROVE GuardsPassed'
  BY <1>2 DEF Inv, TypeOK, GuardsPassed, Start
<1>3. ASSUME UNCHANGED <<req, owner, bound>> PROVE GuardsPassed'
  BY <1>3 DEF GuardsPassed
<1>4. ASSUME NEW t \in Token, NEW k \in Kind, LateCommit(t) \/ JobStep(k, t)
      PROVE  UNCHANGED <<req, owner, bound>>
  BY <1>4 DEF LateCommit, JobStep, SnapshotRevoke, SnapshotRevokeFails,
              GetClient, FallbackRevoke, FallbackRevokeFails, Acknowledge
<1>5. ASSUME \/ \E c \in Conn : WriteConfig(c) \/ RevokeCredential(c)
             \/ DeleteConfig \/ Reset \/ UNCHANGED vars
      PROVE  UNCHANGED <<req, owner, bound>>
  BY <1>5 DEF WriteConfig, RevokeCredential, DeleteConfig, Store, Reset, vars
<1>6. CASE Crash
  BY <1>6 DEF GuardsPassed, Crash, Idle
<1> QED
  BY <1>1, <1>2, <1>3, <1>4, <1>5, <1>6 DEF Next, Kind

\* A response never carries a token of the wrong owner or application.
THEOREM GuardedCorrect == Spec => []GuardedResponse
<1>1. Init => GuardsPassed
  BY DEF Init, GuardsPassed, Idle
<1>2. GuardsPassed => GuardedResponse
  BY DEF GuardsPassed, GuardedResponse
<1> QED
  BY <1>1, <1>2, GuardsStep, Safety, PTL DEF Spec

-----------------------------------------------------------------------------
\* The tokens a step may add to what requests hold and records name, and the
\* losses it may remember, so that LostBare stays true.
LEMMA BareKept ==
  ASSUME LostBare, born \subseteq born',
         \A u \in Token : Held(u)' \/ Recorded(u)' =>
                            Held(u) \/ Recorded(u) \/ u \notin born,
         \A u \in Token :
            \/ lost'[u] = lost[u]
            \/ /\ lost[u] = "no" /\ u \in born'
               /\ lost'[u] = "wrong_endpoint" \/ ~(Held(u)' \/ Recorded(u)')
  PROVE  LostBare'
  BY DEF LostBare

\* A request that finishes holds nothing, the others what they held.
LEMMA FinishHeld ==
  ASSUME Inv, NEW r \in Request, Finish(r)
  PROVE  /\ \A u \in Token : Held(u)' => Held(u)
         /\ \A u \in Token : u = req[r].tok => ~Held(u)'
<1>1. req'[r].tok = NoToken /\ Others(r)
  BY DEF Inv, TypeOK, Finish, Idle, Others
<1>2. \A q \in Request \ {r} : req[r].tok # NoToken => req[q].tok # req[r].tok
  BY DEF Inv, Holding
<1> QED
  BY <1>1, <1>2, NullAssumption DEF Others, Held, Holds

\* A request that moves on with a token holds that one, the others theirs.
LEMMA HoldHeld ==
  ASSUME Inv, NEW r \in Request, NEW pc, NEW t, Hold(r, pc, t)
  PROVE  \A u \in Token : Held(u)' => Held(u) \/ u = t
  BY DEF Inv, TypeOK, Hold, Held, Holds

\* What Lose does to the history.
LEMMA LossRecorded ==
  ASSUME TypeOK, NEW T, NEW why, Lose(T, why), NEW u \in Token
  PROVE  lost'[u] = lost[u] \/ (u \in T /\ lost[u] = "no" /\ lost'[u] = why)
  BY DEF TypeOK, Lose

\* Every step that remembers a loss other than wrong_endpoint is the last of
\* its token's request, and no record names the token.
LEMMA BareStep == Inv /\ LostBare /\ [Next]_vars => LostBare'
<1> SUFFICES ASSUME Inv, LostBare, [Next]_vars PROVE LostBare'
  OBVIOUS
<1> USE DEF aapVars, configVars
<1>t. TypeOK /\ Holding /\ BornFirst /\ Phases /\ LateAlone
  BY DEF Inv
<1>0. ASSUME UNCHANGED <<req, born, wal, lease, lost>> PROVE LostBare'
  BY <1>0 DEF LostBare, Held, Holds, Recorded
<1>1. ASSUME NEW r \in Request, RequestStep(r) PROVE LostBare'
  <2>t. req[r].tok # NoToken => /\ req[r].tok \in born /\ req[r].tok \in Token
                                /\ lease[req[r].tok] = NoConn
    BY <1>t DEF Holding, Phases, TypeOK
  <2>1. ASSUME NEW pc, Goto(r, pc), born' = born, lost' = lost, lease' = lease,
               \A u \in Token : wal'[u] # NoConn => wal[u] # NoConn \/ u = req[r].tok
        PROVE  LostBare'
    <3>1. \A u \in Token : Held(u)' => Held(u)
      BY <2>1, HoldHeld DEF Goto, Held, Holds
    <3>2. \A u \in Token : Recorded(u)' => Held(u) \/ Recorded(u)
      BY <2>1 DEF Recorded, Held, Holds
    <3> QED
      BY <2>1, <3>1, <3>2, BareKept
  <2>2. CASE Refuse(r)
    <3>1. \A u \in Token : Held(u)' => Held(u)
      BY <2>2, FinishHeld DEF Refuse
    <3> QED
      BY <2>2, <3>1, BareKept DEF Refuse, Recorded
  <2>3. ASSUME NEW t \in Token, MintAnswered(r, t) \/ MintLost(r, t) PROVE LostBare'
    <3>1. \A u \in Token : Held(u)' => Held(u) \/ u = t
      BY <2>3, HoldHeld DEF MintAnswered, MintLost
    <3>2. t \notin born /\ born \subseteq born' /\ UNCHANGED <<wal, lease, lost>>
      BY <2>3 DEF MintAnswered, MintLost, Create
    <3> QED
      BY <3>1, <3>2, BareKept DEF Recorded
  <2>4. ASSUME NEW t \in Token, MintUnread(r, t) PROVE LostBare'
    <3>1. \A u \in Token : Held(u)' => Held(u)
      BY <2>4, FinishHeld DEF MintUnread
    <3>2. t \notin born /\ born' = born \cup {t} /\ UNCHANGED <<wal, lease>>
      BY <2>4 DEF MintUnread, Create
    <3>3. ~Held(t) /\ ~Recorded(t)
      BY <1>t, <3>2, NullAssumption DEF Holding, BornFirst, Held, Holds, Recorded
    <3>4. ~(Held(t)' \/ Recorded(t)')
      BY <3>1, <3>2, <3>3 DEF Recorded
    <3>5. \A u \in Token : lost'[u] = lost[u] \/ (u = t /\ lost[u] = "no")
      BY <1>t, <2>4, LossRecorded DEF MintUnread
    <3> QED
      BY <3>1, <3>2, <3>4, <3>5, BareKept DEF Recorded
  <2>5. ASSUME NEW T, NEW why, Lose(T, why), T \subseteq {req[r].tok}, Finish(r),
               UNCHANGED <<born, wal, lease>>, req[r].pc \notin {"idle", "mint"},
               T # {} => wal[req[r].tok] = NoConn
        PROVE  LostBare'
    <3>1. \A u \in Token : Held(u)' => Held(u)
      BY <2>5, FinishHeld
    <3>2. req[r].tok # NoToken /\ \A u \in Token : u = req[r].tok => ~Held(u)'
      BY <1>t, <2>5, FinishHeld DEF Holding
    <3>3. \A u \in T : ~Recorded(u)'
      BY <2>t, <2>5, <3>2 DEF Recorded
    <3>4. \A u \in Token :
             lost'[u] = lost[u] \/ (u \in T /\ lost[u] = "no")
      BY <1>t, <2>5, LossRecorded
    <3> QED
      BY <2>t, <2>5, <3>1, <3>2, <3>3, <3>4, BareKept DEF Recorded
  <2>6. CASE Sweep(r) \/ SweepFails(r)
    <3>1. wal[req[r].tok] = NoConn
      BY <1>t, <2>t, <2>6 DEF Sweep, SweepFails, Holding, Phases
    <3> QED
      BY <2>5, <2>6, <3>1 DEF Sweep, SweepFails
  <2>7. CASE BestEffort(r)
    <3>1. UNCHANGED <<born, wal, lease>>
      BY <2>7 DEF BestEffort
    <3> QED
      BY <2>5, <2>7, <3>1 DEF BestEffort
  <2>8. CASE UndoRevokeFails(r) \/ UndoDeleteWal(r)
    <3>1. \A u \in Token : Held(u)' => Held(u)
      BY <2>8, FinishHeld DEF UndoRevokeFails, UndoDeleteWal
    <3>2. /\ UNCHANGED <<born, lease, lost>>
          /\ \A u \in Token : wal'[u] # NoConn => wal[u] # NoConn
      BY <1>t, <2>8 DEF UndoRevokeFails, UndoDeleteWal, TypeOK
    <3> QED
      BY <3>1, <3>2, BareKept DEF Recorded
  <2>9. CASE RegisterLease(r)
    <3>1. \A u \in Token : Held(u)' => Held(u)
      BY <2>9, FinishHeld DEF RegisterLease
    <3>2. \A u \in Token : Recorded(u)' => Recorded(u) \/ Held(u)
      BY <1>t, <2>9 DEF RegisterLease, Recorded, Held, Holds, TypeOK
    <3> QED
      BY <2>9, <3>1, <3>2, BareKept DEF RegisterLease
  <2>10. CASE PutWal(r) \/ PutWalFails(r)
    BY <1>t, <2>1, <2>10 DEF PutWal, PutWalFails, TypeOK
  <2>11. CASE CheckApplication(r) \/ CheckOwner(r)
    BY <2>1, <2>11 DEF CheckApplication, CheckOwner, Guard
  <2>12. CASE Cancel(r) \/ UndoRevoke(r)
    BY <2>1, <2>12 DEF Cancel, UndoRevoke
  <2>13. CASE DropWal(r) \/ DropWalFails(r)
    BY <1>t, <2>1, <2>13 DEF DropWal, DropWalFails, TypeOK
  <2> QED
    BY <1>1, <2>2, <2>3, <2>4, <2>6, <2>7, <2>8, <2>9, <2>10, <2>11, <2>12,
       <2>13 DEF RequestStep
<1>2. ASSUME NEW r \in Request, NEW p \in Policies, Start(r, p) PROVE LostBare'
  <2>1. \A u \in Token : Held(u)' => Held(u)
    BY <1>t, <1>2, NullAssumption DEF Start, Held, Holds, TypeOK
  <2> QED
    BY <1>2, <2>1, BareKept DEF Start, Recorded
<1>3. ASSUME NEW k \in Kind, NEW t \in Token, JobStep(k, t) PROVE LostBare'
  <2>1. CASE FallbackRevoke(k, t)
    <3>1. UNCHANGED <<req, born, wal, lease>> /\ Lose({t} \cap live', "wrong_endpoint")
      BY <2>1 DEF FallbackRevoke
    <3>2. live' \subseteq live
      BY <2>1 DEF FallbackRevoke, DeleteOk, Without
    <3>3. \A u \in Token : \/ lost'[u] = lost[u]
                           \/ /\ u \in live' /\ lost[u] = "no"
                              /\ lost'[u] = "wrong_endpoint"
      BY <1>t, <3>1, LossRecorded
    <3> QED
      BY <1>t, <3>1, <3>2, <3>3, BareKept DEF BornFirst, Held, Holds, Recorded
  <2>2. CASE Acknowledge(k, t)
    <3>1. \A u \in Token : Recorded(u)' => Recorded(u)
      BY <1>t, <2>2 DEF Acknowledge, Recorded, TypeOK
    <3> QED
      BY <2>2, <3>1, BareKept DEF Acknowledge, Held, Holds
  <2> QED
    BY <1>0, <1>3, <2>1, <2>2 DEF JobStep, SnapshotRevoke, SnapshotRevokeFails,
                                  GetClient, FallbackRevokeFails
<1>4. ASSUME \/ \E t \in Token : LateCommit(t)
             \/ \E c \in Conn : WriteConfig(c) \/ RevokeCredential(c)
             \/ DeleteConfig \/ Reset \/ UNCHANGED vars
      PROVE  LostBare'
  BY <1>0, <1>4 DEF LateCommit, WriteConfig, RevokeCredential, DeleteConfig,
                    Store, Reset, vars
<1>5. CASE Crash
  <2>1. UNCHANGED <<born, wal, lease>> /\ \A u \in Token : ~Held(u)'
    BY <1>5, NullAssumption DEF Crash, Idle, Held, Holds
  <2>2. \A u \in Token : lost'[u] # lost[u] =>
          /\ lost[u] = "no" /\ u \in live \cup late /\ wal[u] = NoConn /\ Held(u)
    BY <1>t, <1>5 DEF Crash, TypeOK, HeldAt, Held, Holds
  <2>3. \A u \in Token : Held(u) => lease[u] = NoConn
    BY <1>t, NullAssumption DEF Phases, Held, Holds
  <2> QED
    BY <1>t, <2>1, <2>2, <2>3, BareKept DEF BornFirst, Recorded
<1> QED
  BY <1>1, <1>2, <1>3, <1>4, <1>5 DEF Next

\* No step of a request touches a revokeToken call.
LEMMA RequestsLeaveJobs ==
  ASSUME NEW r \in Request, RequestStep(r)
  PROVE  job' = job
  BY DEF RequestStep, Refuse, MintAnswered, MintUnread, MintLost, Sweep,
     SweepFails, PutWal, PutWalFails, CheckApplication, CheckOwner, Cancel,
     UndoRevoke, UndoRevokeFails, UndoDeleteWal, DropWal, DropWalFails,
     BestEffort, RegisterLease, Guard, aapVars, configVars

\* One call moves, the others stay.
LEMMA JobSet ==
  ASSUME TypeOK, NEW k \in Kind, NEW t \in Token, NEW stage, NEW c,
         SetJob(k, t, stage, c)
  PROVE  /\ job'[k][t].stage = stage
         /\ \A l \in Kind, u \in Token : l # k \/ u # t => job'[l][u] = job[l][u]
  BY DEF TypeOK, SetJob

\* A call only starts on a record, and a lease only goes with its call.
LEMMA JobsStep == Inv /\ JobsRecorded /\ [Next]_vars => JobsRecorded'
<1> SUFFICES ASSUME Inv, JobsRecorded, [Next]_vars PROVE JobsRecorded'
  OBVIOUS
<1> USE DEF aapVars, configVars
<1>t. TypeOK /\ Holding /\ BornFirst /\ Phases
  BY DEF Inv
<1>0. ASSUME UNCHANGED <<lease, job>>,
             \A q \in Request : req'[q].pc = "minted" => req'[q] = req[q]
      PROVE  JobsRecorded'
  BY <1>0 DEF JobsRecorded
<1>1. ASSUME NEW r \in Request, RequestStep(r) PROVE JobsRecorded'
  <2>1. job' = job
    BY <1>1, RequestsLeaveJobs
  <2>2. ASSUME NEW t \in Token, MintAnswered(r, t) PROVE JobsRecorded'
    <3>1. job["wal"][t].stage = "none" /\ UNCHANGED <<lease, job>>
      BY <1>t, <2>2 DEF MintAnswered, Create, BornFirst
    <3>2. \A q \in Request : req'[q].pc = "minted" =>
                               req'[q] = req[q] \/ req'[q].tok = t
      BY <1>t, <2>2 DEF MintAnswered, Hold, TypeOK
    <3> QED
      BY <3>1, <3>2 DEF JobsRecorded
  <2>3. ASSUME NEW t \in Token, MintUnread(r, t) \/ MintLost(r, t) PROVE JobsRecorded'
    BY <1>0, <1>t, <2>1, <2>3 DEF MintUnread, MintLost, Hold, Finish, Idle, TypeOK
  <2>4. CASE RegisterLease(r)
    <3>1. \A u \in Token : lease'[u] = NoConn => lease[u] = NoConn
      BY <1>t, <2>4, NullAssumption DEF RegisterLease, Holding, TypeOK
    <3>2. \A q \in Request : req'[q].pc = "minted" => req'[q] = req[q]
      BY <1>t, <2>4 DEF RegisterLease, Finish, Idle, TypeOK
    <3> QED
      BY <2>1, <3>1, <3>2 DEF JobsRecorded
  <2>5. ASSUME Finish(r) \/ \E pc \in Pc \ {"minted"} : Goto(r, pc), lease' = lease
        PROVE  JobsRecorded'
    <3>1. \A q \in Request : req'[q].pc = "minted" => req'[q] = req[q]
      BY <1>t, <2>5 DEF Finish, Idle, Goto, Hold, TypeOK
    <3> QED
      BY <1>0, <2>1, <2>5, <3>1
  <2>6. CASE \/ Refuse(r) \/ Sweep(r) \/ SweepFails(r) \/ UndoRevokeFails(r)
             \/ UndoDeleteWal(r) \/ BestEffort(r)
    BY <2>5, <2>6 DEF Refuse, Sweep, SweepFails, UndoRevokeFails, UndoDeleteWal,
                      BestEffort
  <2>7. CASE \/ PutWal(r) \/ PutWalFails(r) \/ CheckApplication(r) \/ CheckOwner(r)
             \/ Cancel(r) \/ UndoRevoke(r) \/ DropWal(r) \/ DropWalFails(r)
    BY <2>5, <2>7 DEF PutWal, PutWalFails, CheckApplication, CheckOwner, Guard,
                      Cancel, UndoRevoke, DropWal, DropWalFails, Pc
  <2> QED
    BY <1>1, <2>2, <2>3, <2>4, <2>6, <2>7 DEF RequestStep
<1>2. ASSUME NEW r \in Request, NEW p \in Policies, Start(r, p) PROVE JobsRecorded'
  BY <1>0, <1>t, <1>2 DEF Start, TypeOK
<1>3. ASSUME NEW k \in Kind, NEW t \in Token, JobStep(k, t) PROVE JobsRecorded'
  <2>1. req' = req
    BY <1>3 DEF JobStep, SnapshotRevoke, SnapshotRevokeFails, GetClient,
       FallbackRevoke, FallbackRevokeFails, Acknowledge
  <2>2. ASSUME NEW stage, NEW c, SetJob(k, t, stage, c), lease' = lease,
               k = "lease" => lease[t] # NoConn,
               k = "wal" => \A r \in Request : req[r].pc = "minted" => req[r].tok # t
        PROVE  JobsRecorded'
    <3>1. \A l \in Kind, u \in Token : l # k \/ u # t => job'[l][u] = job[l][u]
      BY <1>t, <2>2, JobSet
    <3>2. \A r \in Request : req[r].pc = "minted" => req[r].tok \in Token
      BY <1>t DEF TypeOK, Holding
    <3> QED
      BY <2>1, <2>2, <3>1, <3>2 DEF JobsRecorded
  <2>3. CASE SnapshotRevoke(k, t) \/ SnapshotRevokeFails(k, t)
    <3>1. /\ k = "lease" => lease[t] # NoConn
          /\ k = "wal" => \A r \in Request : req[r].pc = "minted" => req[r].tok # t
      BY <1>t, <2>3 DEF SnapshotRevoke, SnapshotRevokeFails, Eligible, Record,
                        Holding, Phases
    <3> QED
      BY <2>2, <2>3, <3>1 DEF SnapshotRevoke, SnapshotRevokeFails
  <2>4. CASE GetClient(k, t) \/ FallbackRevoke(k, t) \/ FallbackRevokeFails(k, t)
    <3>1. /\ k = "lease" => lease[t] # NoConn
          /\ k = "wal" => \A r \in Request : req[r].pc = "minted" => req[r].tok # t
      BY <2>4 DEF GetClient, FallbackRevoke, FallbackRevokeFails, JobsRecorded
    <3> QED
      BY <2>2, <2>4, <3>1 DEF GetClient, FallbackRevoke, FallbackRevokeFails
  <2>5. CASE Acknowledge(k, t)
    <3>1. /\ job'[k][t].stage = "none"
          /\ \A l \in Kind, u \in Token : l # k \/ u # t => job'[l][u] = job[l][u]
      BY <1>t, <2>5, JobSet DEF Acknowledge
    <3>2. \A u \in Token : lease'[u] = NoConn => lease[u] = NoConn \/ (k = "lease" /\ u = t)
      BY <1>t, <2>5 DEF Acknowledge, TypeOK
    <3>3. \A r \in Request : req[r].pc = "minted" => req[r].tok \in Token
      BY <1>t DEF TypeOK, Holding
    <3> QED
      BY <2>1, <3>1, <3>2, <3>3 DEF JobsRecorded
  <2> QED
    BY <1>3, <2>3, <2>4, <2>5 DEF JobStep
<1>4. ASSUME \/ \E t \in Token : LateCommit(t)
             \/ \E c \in Conn : WriteConfig(c) \/ RevokeCredential(c)
             \/ DeleteConfig \/ Reset \/ UNCHANGED vars
      PROVE  JobsRecorded'
  BY <1>0, <1>4 DEF LateCommit, WriteConfig, RevokeCredential, DeleteConfig,
                    Store, Reset, vars
<1>5. CASE Crash
  BY <1>5 DEF Crash, Idle, NoJob, JobsRecorded
<1> QED
  BY <1>1, <1>2, <1>3, <1>4, <1>5 DEF Next

\* A call that has returned nil stays one that did so for a reason, while
\* tokens and records only go.
LEMMA MissedKept ==
  ASSUME RevokedOrMissed, job' = job,
         \A u \in Token : lost[u] = "wrong_endpoint" => lost'[u] = "wrong_endpoint",
         \A u \in Token, l \in Kind :
            job[l][u].stage = "done" /\ Record(l, u)' # NoConn =>
              Record(l, u) # NoConn /\ (u \in live' => u \in live)
  PROVE  RevokedOrMissed'
  BY DEF RevokedOrMissed

\* Where a request records its token no call runs, and what it mints is new;
\* a snapshot is sent to the AAP of its token, and a fallback that misses
\* it is remembered.
LEMMA MissedStep ==
  Inv /\ LostBare /\ JobsRecorded /\ RevokedOrMissed /\ [Next]_vars => RevokedOrMissed'
<1> SUFFICES ASSUME Inv, LostBare, JobsRecorded, RevokedOrMissed, [Next]_vars
             PROVE  RevokedOrMissed'
  OBVIOUS
<1> USE DEF aapVars, configVars
<1>t. /\ TypeOK /\ Holding /\ BornFirst /\ Phases /\ LateAlone
      /\ SnapshotMatches
  BY DEF Inv
<1>0. ASSUME UNCHANGED <<job, lost, wal, lease>>, live' \subseteq live
      PROVE  RevokedOrMissed'
  BY <1>0, MissedKept DEF Record
<1>1. ASSUME NEW r \in Request, RequestStep(r) PROVE RevokedOrMissed'
  <2>j. job' = job
    BY <1>1, RequestsLeaveJobs
  <2>t. req[r].tok # NoToken => req[r].tok \in Token
    BY <1>t DEF TypeOK, ReqType
  <2>1. ASSUME NEW t \in Token, MintAnswered(r, t) \/ MintUnread(r, t) \/ MintLost(r, t)
        PROVE  RevokedOrMissed'
    <3>1. t \notin born /\ live' \subseteq live \cup {t} /\ UNCHANGED <<wal, lease>>
      BY <2>1 DEF MintAnswered, MintUnread, MintLost, Create
    <3>2. wal[t] = NoConn /\ lease[t] = NoConn
      BY <1>t, <3>1 DEF BornFirst
    <3>3. \A u \in Token : lost[u] = "wrong_endpoint" => lost'[u] = "wrong_endpoint"
      BY <1>t, <2>1, LossRecorded DEF MintAnswered, MintUnread, MintLost
    <3> QED
      BY <2>j, <3>1, <3>2, <3>3, MissedKept DEF Record
  <2>2. ASSUME live' \subseteq live, lost' = lost \/ \E T, why : Lose(T, why),
               \A u \in Token : /\ wal'[u] # NoConn => wal[u] # NoConn
                                /\ lease'[u] # NoConn => lease[u] # NoConn
        PROVE  RevokedOrMissed'
    <3>1. \A u \in Token : lost[u] = "wrong_endpoint" => lost'[u] = "wrong_endpoint"
      BY <1>t, <2>2, LossRecorded
    <3> QED
      BY <2>j, <2>2, <3>1, MissedKept DEF Record
  <2>3. CASE PutWal(r) \/ PutWalFails(r)
    <3>1. /\ UNCHANGED <<live, lease, lost>>
          /\ \A u \in Token : wal'[u] # NoConn => wal[u] # NoConn \/ u = req[r].tok
      BY <1>t, <2>3 DEF PutWal, PutWalFails, TypeOK
    <3>2. job["wal"][req[r].tok].stage = "none"
      BY <2>3 DEF PutWal, PutWalFails, JobsRecorded
    <3> QED
      BY <2>j, <3>1, <3>2, MissedKept DEF Record
  <2>4. CASE RegisterLease(r)
    <3>1. /\ UNCHANGED <<live, wal, lost>>
          /\ \A u \in Token : lease'[u] # NoConn => lease[u] # NoConn \/ u = req[r].tok
      BY <1>t, <2>4 DEF RegisterLease, TypeOK
    <3>2. \A u \in Token : u = req[r].tok => job["lease"][u].stage = "none"
      BY <1>t, <2>4 DEF RegisterLease, Holding, Phases, JobsRecorded
    <3> QED
      BY <2>j, <3>1, <3>2, MissedKept DEF Record
  <2>5. CASE UndoRevoke(r) \/ UndoRevokeFails(r) \/ BestEffort(r)
    <3>1. live' \subseteq live
      BY <2>5 DEF UndoRevoke, UndoRevokeFails, BestEffort, DeleteOk, DeleteErr, Without
    <3> QED
      BY <2>2, <2>5, <3>1 DEF UndoRevoke, UndoRevokeFails, BestEffort
  <2>6. CASE Sweep(r) \/ SweepFails(r)
    <3>1. live' \subseteq live
      BY <2>6 DEF Sweep, SweepFails
    <3> QED
      BY <2>2, <2>6, <3>1 DEF Sweep, SweepFails
  <2>7. CASE UndoDeleteWal(r) \/ DropWal(r) \/ DropWalFails(r)
    <3>1. \A u \in Token : wal'[u] # NoConn => wal[u] # NoConn
      BY <1>t, <2>7 DEF UndoDeleteWal, DropWal, DropWalFails, TypeOK
    <3> QED
      BY <2>2, <2>7, <3>1 DEF UndoDeleteWal, DropWal, DropWalFails
  <2>8. CASE Refuse(r) \/ Cancel(r) \/ CheckApplication(r) \/ CheckOwner(r)
    BY <1>0, <2>8 DEF Refuse, Cancel, CheckApplication, CheckOwner
  <2> QED
    BY <1>1, <2>1, <2>3, <2>4, <2>5, <2>6, <2>7, <2>8 DEF RequestStep
<1>2. ASSUME NEW t \in Token, LateCommit(t) PROVE RevokedOrMissed'
  <2>1. wal[t] = NoConn /\ lease[t] = NoConn
    BY <1>t, <1>2 DEF LateCommit, LateAlone
  <2> QED
    BY <1>2, <2>1, MissedKept DEF LateCommit, Record
<1>3. ASSUME NEW k \in Kind, NEW t \in Token, JobStep(k, t) PROVE RevokedOrMissed'
  <2>1. ASSUME NEW stage, NEW c, SetJob(k, t, stage, c), UNCHANGED <<wal, lease>>,
               live' \subseteq live,
               \A u \in Token : lost[u] = "wrong_endpoint" => lost'[u] = "wrong_endpoint",
               stage = "done" /\ Record(k, t) # NoConn =>
                 t \notin live' \/ lost'[t] = "wrong_endpoint"
        PROVE  RevokedOrMissed'
    <3>1. /\ job'[k][t].stage = stage
          /\ \A l \in Kind, u \in Token : l # k \/ u # t => job'[l][u] = job[l][u]
      BY <1>t, <2>1, JobSet
    <3> SUFFICES ASSUME NEW u \in Token, NEW l \in Kind, job'[l][u].stage = "done",
                        Record(l, u) # NoConn
                 PROVE  u \notin live' \/ lost'[u] = "wrong_endpoint"
      BY <2>1 DEF RevokedOrMissed, Record
    <3> QED
      BY <2>1, <3>1 DEF RevokedOrMissed
  <2>2. CASE SnapshotRevoke(k, t)
    <3>1. Record(k, t) \in Conn /\ Record(k, t)[1] = t[1]
      BY <1>t, <2>2 DEF SnapshotRevoke, Eligible, Record, SnapshotMatches, TypeOK
    <3> QED
      BY <1>t, <2>1, <2>2, <3>1, Deletion DEF SnapshotRevoke
  <2>3. CASE SnapshotRevokeFails(k, t) \/ FallbackRevokeFails(k, t)
    <3>1. live' \subseteq live
      BY <2>3 DEF SnapshotRevokeFails, FallbackRevokeFails, DeleteErr, Without
    <3> QED
      BY <2>1, <2>3, <3>1 DEF SnapshotRevokeFails, FallbackRevokeFails
  <2>4. CASE GetClient(k, t)
    BY <2>1, <2>4 DEF GetClient
  <2>5. CASE FallbackRevoke(k, t)
    <3>1. live' \subseteq live
      BY <2>5 DEF FallbackRevoke, DeleteOk, Without
    <3>2. \A u \in Token : \/ lost'[u] = lost[u]
                           \/ /\ u \in {t} \cap live' /\ lost[u] = "no"
                              /\ lost'[u] = "wrong_endpoint"
      BY <1>t, <2>5, LossRecorded DEF FallbackRevoke
    <3>3. t \in live' => lost'[t] # "no"
      BY <1>t, <2>5 DEF FallbackRevoke, Lose, TypeOK
    <3>4. Record(k, t) # NoConn => lost[t] \in {"no", "wrong_endpoint"}
      BY DEF LostBare, Recorded, Record
    <3> QED
      BY <2>1, <2>5, <3>1, <3>2, <3>3, <3>4 DEF FallbackRevoke
  <2>6. CASE Acknowledge(k, t)
    <3>1. /\ job'[k][t].stage = "none"
          /\ \A l \in Kind, u \in Token : l # k \/ u # t => job'[l][u] = job[l][u]
      BY <1>t, <2>6, JobSet DEF Acknowledge
    <3>2. UNCHANGED <<live, lost>>
      BY <2>6 DEF Acknowledge
    <3>3. \A l \in Kind, u \in Token : Record(l, u)' # NoConn => Record(l, u) # NoConn
      BY <1>t, <2>6 DEF Acknowledge, Record, TypeOK
    <3> QED
      BY <3>1, <3>2, <3>3 DEF RevokedOrMissed
  <2> QED
    BY <1>3, <2>2, <2>3, <2>4, <2>5, <2>6 DEF JobStep
<1>4. ASSUME \/ \E r \in Request, p \in Policies : Start(r, p)
             \/ \E c \in Conn : WriteConfig(c) \/ RevokeCredential(c)
             \/ DeleteConfig \/ Reset \/ UNCHANGED vars
      PROVE  RevokedOrMissed'
  BY <1>0, <1>4 DEF Start, WriteConfig, RevokeCredential, DeleteConfig, Store,
                    Reset, vars
<1>5. CASE Crash
  BY <1>5 DEF Crash, NoJob, RevokedOrMissed
<1> QED
  BY <1>1, <1>2, <1>3, <1>4, <1>5 DEF Next

\* Which steps drop a record, and what they know of its token.
LEMMA DropStep == Inv /\ DropInv /\ [Next]_vars => \A t \in Token : DropSafe(t)
<1> SUFFICES ASSUME Inv, DropInv, [Next]_vars, NEW u \in Token
             PROVE  DropSafe(u)
  OBVIOUS
<1> USE DEF Inv, TypeOK, aapVars, configVars
<1>1. ASSUME UNCHANGED <<wal, lease>> PROVE DropSafe(u)
  BY <1>1 DEF DropSafe
<1>2. ASSUME NEW r \in Request, RequestStep(r) PROVE DropSafe(u)
  <2>1. CASE PutWal(r) \/ PutWalFails(r)
    BY <2>1, NullAssumption DEF PutWal, PutWalFails, Holding, ReqType, DropSafe
  <2>2. CASE UndoDeleteWal(r)
    BY <2>2 DEF UndoDeleteWal, Phases, Holding, DropSafe
  <2>3. CASE DropWal(r) \/ DropWalFails(r)
    BY <2>3 DEF DropWal, DropWalFails, Holding, Holds, DropSafe
  <2>4. CASE RegisterLease(r)
    BY <2>4, NullAssumption DEF RegisterLease, Holding, ReqType, DropSafe
  <2>5. ASSUME \/ \E t \in Token : MintAnswered(r, t) \/ MintUnread(r, t) \/ MintLost(r, t)
               \/ Refuse(r) \/ Sweep(r) \/ SweepFails(r) \/ CheckApplication(r)
               \/ CheckOwner(r) \/ Cancel(r) \/ UndoRevoke(r)
               \/ UndoRevokeFails(r) \/ BestEffort(r)
        PROVE  UNCHANGED <<wal, lease>>
    BY <2>5 DEF MintAnswered, MintUnread, MintLost, Refuse, Sweep, SweepFails,
       CheckApplication, CheckOwner, Cancel, UndoRevoke, UndoRevokeFails, BestEffort
  <2> QED
    BY <1>1, <1>2, <2>1, <2>2, <2>3, <2>4, <2>5 DEF RequestStep
<1>3. ASSUME NEW k \in Kind, NEW t \in Token, JobStep(k, t) PROVE DropSafe(u)
  <2>1. CASE Acknowledge(k, t)
    BY <2>1 DEF Acknowledge, DropInv, RevokedOrMissed, Record, DropSafe
  <2>2. ASSUME \/ SnapshotRevoke(k, t) \/ SnapshotRevokeFails(k, t)
               \/ GetClient(k, t) \/ FallbackRevoke(k, t)
               \/ FallbackRevokeFails(k, t)
        PROVE  UNCHANGED <<wal, lease>>
    BY <2>2 DEF SnapshotRevoke, SnapshotRevokeFails, GetClient, FallbackRevoke,
                FallbackRevokeFails
  <2> QED
    BY <1>1, <1>3, <2>1, <2>2 DEF JobStep
<1>4. ASSUME \/ \E r \in Request, p \in Policies : Start(r, p)
             \/ \E t \in Token : LateCommit(t)
             \/ \E c \in Conn : WriteConfig(c) \/ RevokeCredential(c)
             \/ DeleteConfig \/ Reset \/ Crash \/ UNCHANGED vars
      PROVE  UNCHANGED <<wal, lease>>
  BY <1>4 DEF Start, LateCommit, WriteConfig, RevokeCredential, DeleteConfig,
              Store, Reset, Crash, vars
<1> QED
  BY <1>1, <1>2, <1>3, <1>4 DEF Next

\* However many AAP instances the configuration moves between: a WAL entry or
\* a lease goes only once its token is gone, when createCreds commits it, or
\* after a fallback that asked another AAP.
THEOREM SafeDrops == Spec => RecordsDropSafely
<1>1. Init => DropInv
  BY NullAssumption DEF Init, Idle, NoJob, DropInv, LostBare, JobsRecorded,
     RevokedOrMissed, Recorded, Record, Held, Holds
<1>2. Inv /\ DropInv /\ [Next]_vars => DropInv'
  BY BareStep, JobsStep, MissedStep DEF DropInv
<1>3. Inv /\ DropInv /\ [Next]_vars => [\A t \in Token : DropSafe(t)]_vars
  BY DropStep
<1> QED
  BY <1>1, <1>2, <1>3, Safety, PTL DEF Spec, RecordsDropSafely

-----------------------------------------------------------------------------
\* Failed calls and credentials that died.
Failures == faults + Cardinality(Conn \ valid)

\* The two counts only grow.
LEMMA FailuresGrow ==
  ASSUME Inv, IsFiniteSet(Conn \ valid), [Next]_vars
  PROVE  /\ IsFiniteSet(Conn \ valid')
         /\ faults \in Nat /\ faults' \in Nat /\ faults <= faults'
         /\ Cardinality(Conn \ valid) \in Nat /\ Cardinality(Conn \ valid') \in Nat
         /\ Cardinality(Conn \ valid) <= Cardinality(Conn \ valid')
<1> USE DEF aapVars, configVars
<1>1. TypeOK
  BY DEF Inv
<1>2. faults \in Nat /\ Cardinality(Conn \ valid) \in Nat
  BY <1>1, BoundAssumption, FS_CardinalityType DEF TypeOK
<1>3. CASE \E c \in Conn : RevokeCredential(c)
  <2>1. PICK c \in Conn : c \in valid /\ valid' = valid \ {c} /\ faults' = faults
    BY <1>3 DEF RevokeCredential
  <2>2. Conn \ valid' = (Conn \ valid) \cup {c} /\ c \notin Conn \ valid
    BY <2>1
  <2>3. /\ IsFiniteSet(Conn \ valid')
        /\ Cardinality(Conn \ valid') = Cardinality(Conn \ valid) + 1
    <3>1. ASSUME NEW S, IsFiniteSet(S), c \notin S
          PROVE  /\ IsFiniteSet(S \cup {c})
                 /\ Cardinality(S \cup {c}) = Cardinality(S) + 1
      BY <3>1, FS_AddElement
    <3> QED
      BY <2>2, <3>1
  <2> QED
    BY <1>2, <2>1, <2>3
<1>4. ASSUME valid' = valid, faults' = faults \/ Fault PROVE faults' \in Nat /\ faults <= faults'
  BY <1>2, <1>4 DEF Fault
<1>5. ASSUME NEW r \in Request, RequestStep(r) \/ \E p \in Policies : Start(r, p)
      PROVE  valid' = valid /\ (faults' = faults \/ Fault)
  BY <1>5 DEF RequestStep, Start, Refuse, MintAnswered, MintUnread, MintLost, Sweep,
     SweepFails, PutWal, PutWalFails, CheckApplication, CheckOwner, Guard, Cancel,
     UndoRevoke, UndoRevokeFails, UndoDeleteWal, DropWal, DropWalFails, BestEffort,
     RegisterLease, DeleteOk, DeleteErr
<1>6. ASSUME NEW t \in Token, LateCommit(t) \/ \E k \in Kind : JobStep(k, t)
      PROVE  valid' = valid /\ (faults' = faults \/ Fault)
  BY <1>6 DEF LateCommit, JobStep, SnapshotRevoke, SnapshotRevokeFails, GetClient,
     FallbackRevoke, FallbackRevokeFails, Acknowledge, DeleteOk, DeleteErr
<1>7. ASSUME \/ \E c \in Conn : WriteConfig(c)
             \/ DeleteConfig \/ Reset \/ Crash \/ UNCHANGED vars
      PROVE  valid' = valid /\ (faults' = faults \/ Fault)
  BY <1>7 DEF WriteConfig, DeleteConfig, Store, Reset, Crash, vars
<1>8. CASE valid' = valid /\ (faults' = faults \/ Fault)
  BY <1>2, <1>4, <1>8
<1> QED
  BY <1>3, <1>5, <1>6, <1>7, <1>8 DEF Next

\* A call of a request that has seen a failure fails again, or its
\* credential has died: that makes two.
LEMMA SecondFailure ==
  ASSUME Inv, FailuresCounted, [Next]_vars, NEW r \in Request,
         req[r].pc \in {"sweep", "besteffort"}, req[r].conn \notin valid \/ Fault
  PROVE  Failures' >= 2
<1>1. faults \in Nat /\ faults >= 1 /\ req[r].conn \in Conn
  BY BoundAssumption DEF Inv, TypeOK, Holding, FailuresCounted
<1>2. /\ faults' \in Nat /\ faults <= faults'
      /\ Cardinality(Conn \ valid) \in Nat /\ Cardinality(Conn \ valid') \in Nat
      /\ Cardinality(Conn \ valid) <= Cardinality(Conn \ valid')
  BY FailuresGrow DEF FailuresCounted
<1>3. CASE Fault
  BY <1>1, <1>2, <1>3 DEF Fault, Failures
<1>4. CASE req[r].conn \notin valid
  <2>1. Conn \ valid # {}
    BY <1>1, <1>4
  <2>2. Cardinality(Conn \ valid) # 0
    BY <2>1, FS_EmptySet DEF FailuresCounted
  <2> QED
    BY <1>1, <1>2, <2>2 DEF Failures
<1> QED
  BY <1>3, <1>4

\* The losses that LosingTakesTwo is about happen in SweepFails and
\* BestEffort, each the second thing to go wrong.
LEMMA CountStep ==
  Inv /\ FailuresCounted /\ LosingTakesTwo /\ [Next]_vars
    => FailuresCounted' /\ LosingTakesTwo'
<1> SUFFICES ASSUME Inv, FailuresCounted, LosingTakesTwo, [Next]_vars
             PROVE  FailuresCounted' /\ LosingTakesTwo'
  OBVIOUS
<1> USE DEF aapVars, configVars
<1>t. TypeOK /\ Holding
  BY DEF Inv
<1>g. /\ IsFiniteSet(Conn \ valid')
      /\ faults \in Nat /\ faults' \in Nat /\ faults <= faults'
      /\ Cardinality(Conn \ valid) \in Nat /\ Cardinality(Conn \ valid') \in Nat
      /\ Cardinality(Conn \ valid) <= Cardinality(Conn \ valid')
  BY FailuresGrow DEF FailuresCounted
<1> DEFINE Two(u) == lost[u] \in {"no_wal", "sweep"}
<1>1. ASSUME \A q \in Request : req'[q].pc \in {"sweep", "besteffort"} =>
                                  req'[q].pc = req[q].pc \/ Fault
      PROVE  FailuresCounted'
  BY <1>g, <1>1 DEF FailuresCounted, Fault
<1>2. ASSUME (\A u \in Token : Two(u)' => Two(u)) \/ Failures' >= 2
      PROVE  LosingTakesTwo'
  BY <1>g, <1>2 DEF LosingTakesTwo, Failures
<1>3. ASSUME NEW r \in Request, RequestStep(r)
      PROVE  FailuresCounted' /\ LosingTakesTwo'
  <2>1. ASSUME Finish(r) PROVE FailuresCounted'
    BY <1>1, <1>t, <2>1 DEF Finish, Idle, TypeOK
  <2>2. ASSUME NEW pc, NEW t, Hold(r, pc, t),
               pc \in {"sweep", "besteffort"} => Fault
        PROVE  FailuresCounted'
    BY <1>1, <1>t, <2>2 DEF Hold, TypeOK
  <2>3. ASSUME lost' = lost PROVE LosingTakesTwo'
    BY <1>2, <2>3
  <2>4. ASSUME NEW T, NEW why, Lose(T, why), why \notin {"no_wal", "sweep"}
        PROVE  LosingTakesTwo'
    BY <1>2, <1>t, <2>4, LossRecorded
  <2>5. CASE SweepFails(r)
    <3>1. req[r].pc = "sweep" /\ (~MintAuthorized(r) \/ Fault) /\ Finish(r)
      BY <2>5 DEF SweepFails
    <3>2. Failures' >= 2
      BY <3>1, SecondFailure DEF MintAuthorized
    <3> QED
      BY <1>2, <2>1, <3>1, <3>2
  <2>6. CASE BestEffort(r)
    <3>1. req[r].pc = "besteffort" /\ Finish(r)
      BY <2>6 DEF BestEffort
    <3>2. CASE DeleteErr(req[r].conn, req[r].tok)
      <4>1. Failures' >= 2
        BY <3>1, <3>2, SecondFailure DEF DeleteErr
      <4> QED
        BY <1>2, <2>1, <3>1, <4>1
    <3>3. CASE DeleteOk(req[r].conn, req[r].tok)
      <4>1. req[r].tok \in Token /\ req[r].conn \in Conn /\ req[r].conn[1] = req[r].tok[1]
        BY <1>t, <3>1 DEF Holding, TypeOK
      <4>2. req[r].tok \notin live'
        BY <1>t, <3>3, <4>1, Deletion
      <4>3. lost' = lost
        BY <1>t, <2>6, <4>2 DEF BestEffort, Lose, TypeOK
      <4> QED
        BY <2>1, <2>3, <3>1, <4>3
    <3> QED
      BY <2>6, <3>2, <3>3 DEF BestEffort
  <2>7. ASSUME NEW t \in Token, MintAnswered(r, t) \/ MintUnread(r, t) \/ MintLost(r, t)
        PROVE  FailuresCounted' /\ LosingTakesTwo'
    BY <2>1, <2>2, <2>3, <2>4, <2>7 DEF MintAnswered, MintUnread, MintLost
  <2>8. CASE Sweep(r)
    BY <2>1, <2>4, <2>8 DEF Sweep
  <2>9. CASE \/ Refuse(r) \/ UndoRevokeFails(r) \/ UndoDeleteWal(r) \/ RegisterLease(r)
    BY <2>1, <2>3, <2>9 DEF Refuse, UndoRevokeFails, UndoDeleteWal, RegisterLease
  <2>10. CASE \/ PutWal(r) \/ PutWalFails(r) \/ CheckApplication(r) \/ CheckOwner(r)
              \/ Cancel(r) \/ UndoRevoke(r) \/ DropWal(r) \/ DropWalFails(r)
    BY <2>2, <2>3, <2>10 DEF PutWal, PutWalFails, CheckApplication, CheckOwner, Guard,
       Cancel, UndoRevoke, DropWal, DropWalFails, Goto
  <2> QED
    BY <1>3, <2>5, <2>6, <2>7, <2>8, <2>9, <2>10 DEF RequestStep
<1>4. ASSUME NEW r \in Request, NEW p \in Policies, Start(r, p)
      PROVE  FailuresCounted' /\ LosingTakesTwo'
  BY <1>1, <1>2, <1>t, <1>4 DEF Start, TypeOK
<1>5. ASSUME NEW k \in Kind, NEW t \in Token, JobStep(k, t)
      PROVE  FailuresCounted' /\ LosingTakesTwo'
  <2>1. req' = req
    BY <1>5 DEF JobStep, SnapshotRevoke, SnapshotRevokeFails, GetClient,
       FallbackRevoke, FallbackRevokeFails, Acknowledge
  <2>2. lost' = lost \/ \E T : Lose(T, "wrong_endpoint")
    BY <1>5 DEF JobStep, SnapshotRevoke, SnapshotRevokeFails, GetClient,
       FallbackRevoke, FallbackRevokeFails, Acknowledge
  <2>3. \A u \in Token : Two(u)' => Two(u)
    BY <1>t, <2>2, LossRecorded
  <2> QED
    BY <1>1, <1>2, <2>1, <2>3
<1>6. ASSUME \/ \E t \in Token : LateCommit(t)
             \/ \E c \in Conn : WriteConfig(c) \/ RevokeCredential(c)
             \/ DeleteConfig \/ Reset \/ UNCHANGED vars
      PROVE  FailuresCounted' /\ LosingTakesTwo'
  <2>1. UNCHANGED <<req, lost>>
    BY <1>6 DEF LateCommit, WriteConfig, RevokeCredential, DeleteConfig, Store,
                Reset, vars
  <2> QED
    BY <1>1, <1>2, <2>1
<1>7. CASE Crash
  BY <1>1, <1>2, <1>t, <1>7 DEF Crash, Idle, TypeOK
<1> QED
  BY <1>3, <1>4, <1>5, <1>6, <1>7 DEF Next

\* Except for an answer lost in the POST and for a crash, one failure alone
\* never loses a token, whatever else runs.
THEOREM TwoFailures == Spec => []LosingTakesTwo
<1>1. Init => FailuresCounted /\ LosingTakesTwo
  <2> SUFFICES ASSUME Init PROVE FailuresCounted /\ LosingTakesTwo
    OBVIOUS
  <2>1. Conn \ valid = {}
    BY DEF Init
  <2>2. IsFiniteSet(Conn \ valid)
    BY <2>1, FS_EmptySet
  <2>3. FailuresCounted
    BY <2>2 DEF Init, Idle, FailuresCounted
  <2>4. LosingTakesTwo
    BY DEF Init, LosingTakesTwo
  <2> QED
    BY <2>3, <2>4
<1> QED
  BY <1>1, CountStep, Safety, PTL DEF Spec

-----------------------------------------------------------------------------
\* While requests end within walRollbackMinAge, revokeToken only runs for
\* tokens no request holds.
LEMMA JobsAside ==
  ASSUME ~SlowRequests, Inv, Untouched, NEW k \in Kind, NEW t \in Token, JobStep(k, t)
  PROVE  \A r \in Request : req[r].tok # t
<1>1. CASE SnapshotRevoke(k, t) \/ SnapshotRevokeFails(k, t)
  <2>1. Eligible(k, t)
    BY <1>1 DEF SnapshotRevoke, SnapshotRevokeFails
  <2>2. CASE k = "lease"
    BY <2>1, <2>2, NullAssumption DEF Inv, Phases, Eligible, Record
  <2>3. CASE k = "wal"
    BY <2>1, <2>3 DEF Eligible
  <2> QED
    BY <2>2, <2>3
<1>2. CASE job[k][t].stage # "none"
  BY <1>2, NullAssumption DEF Untouched
<1> QED
  BY <1>1, <1>2 DEF JobStep, GetClient, FallbackRevoke, FallbackRevokeFails, Acknowledge

\* What a request may hold after a step: what it held, or a new token.
LEMMA TokensHeld ==
  ASSUME Inv, NEW r \in Request, RequestStep(r)
  PROVE  /\ Others(r)
         /\ \/ req'[r].tok \in {NoToken, req[r].tok}
            \/ req'[r].tok \in Token \ born
<1> USE DEF Others, Inv, TypeOK
<1>1. ASSUME Finish(r)
      PROVE  Others(r) /\ req'[r].tok = NoToken
  BY <1>1 DEF Finish, Idle
<1>2. ASSUME NEW pc, NEW t, Hold(r, pc, t)
      PROVE  Others(r) /\ req'[r].tok = t
  BY <1>2 DEF Hold
<1>3. ASSUME NEW t \in Token, MintAnswered(r, t) \/ MintUnread(r, t) \/ MintLost(r, t)
      PROVE  /\ t \notin born
             /\ Finish(r) \/ Hold(r, "minted", t) \/ Hold(r, "sweep", t)
  BY <1>3 DEF MintAnswered, MintUnread, MintLost, Create
<1>4. CASE \/ Refuse(r) \/ Sweep(r) \/ SweepFails(r) \/ UndoRevokeFails(r)
           \/ UndoDeleteWal(r) \/ BestEffort(r) \/ RegisterLease(r)
  BY <1>1, <1>4 DEF Refuse, Sweep, SweepFails, UndoRevokeFails, UndoDeleteWal,
                    BestEffort, RegisterLease
<1>5. CASE \/ PutWal(r) \/ PutWalFails(r) \/ CheckApplication(r) \/ CheckOwner(r)
           \/ Cancel(r) \/ UndoRevoke(r) \/ DropWal(r) \/ DropWalFails(r)
  BY <1>2, <1>5 DEF PutWal, PutWalFails, CheckApplication, CheckOwner, Guard,
     Cancel, UndoRevoke, DropWal, DropWalFails, Goto
<1> QED
  BY <1>1, <1>2, <1>3, <1>4, <1>5 DEF RequestStep

\* The steps that leave requests alone, or end them.
LEMMA RequestsKept ==
  ASSUME \/ \E t \in Token : LateCommit(t)
         \/ \E c \in Conn : WriteConfig(c) \/ RevokeCredential(c)
         \/ DeleteConfig \/ Reset \/ UNCHANGED vars
  PROVE  UNCHANGED <<req, born, job, wal, lease, lost>> /\ live \subseteq live'
  BY DEF LateCommit, WriteConfig, RevokeCredential, DeleteConfig, Store, Reset,
         vars, aapVars, configVars

\* A request's token is born without a call, and none begins while it is held.
LEMMA UntouchedStep ==
  ASSUME ~SlowRequests
  PROVE  Inv /\ Untouched /\ [Next]_vars => Untouched'
<1> SUFFICES ASSUME Inv, Untouched, [Next]_vars PROVE Untouched'
  OBVIOUS
<1>1. ASSUME NEW r \in Request, RequestStep(r) PROVE Untouched'
  <2>1. job' = job /\ Others(r)
    BY <1>1, RequestsLeaveJobs, TokensHeld
  <2>2. \A k \in Kind : req'[r].tok \in Token \ born =>
                          job[k][req'[r].tok].stage = "none"
    BY DEF Inv, BornFirst
  <2> QED
    BY <1>1, <2>1, <2>2, TokensHeld DEF Untouched, Others
<1>2. ASSUME NEW r \in Request, NEW p \in Policies, Start(r, p) PROVE Untouched'
  <2>1. job' = job /\ Others(r) /\ req'[r].tok = NoToken
    BY <1>2 DEF Start, Others, Inv, TypeOK
  <2> QED
    BY <2>1 DEF Untouched, Others
<1>3. ASSUME NEW k \in Kind, NEW t \in Token, JobStep(k, t) PROVE Untouched'
  <2>1. \A r \in Request : req[r].tok # t
    BY <1>3, JobsAside
  <2>2. req' = req /\ \E stage, c : SetJob(k, t, stage, c)
    BY <1>3 DEF JobStep, SnapshotRevoke, SnapshotRevokeFails, GetClient,
       FallbackRevoke, FallbackRevokeFails, Acknowledge
  <2>3. \A l \in Kind, u \in Token : u # t => job'[l][u] = job[l][u]
    BY <2>2, JobSet DEF Inv
  <2>4. \A r \in Request : req[r].tok # NoToken => req[r].tok \in Token
    BY DEF Inv, TypeOK, ReqType
  <2> QED
    BY <2>1, <2>2, <2>3, <2>4 DEF Untouched
<1>4. CASE Crash
  BY <1>4 DEF Crash, Idle, Untouched
<1> QED
  BY <1>1, <1>2, <1>3, <1>4, RequestsKept DEF Next, Untouched

\* With one AAP instance a DELETE removes the token it is for.
LEMMA OwnDelete ==
  ASSUME SingleEndpoint, TypeOK, NEW c \in Conn, NEW t \in Token,
         DeleteOk(c, t) \/ DeleteErr(c, t)
  PROVE  \A u \in live : u = t \/ u \in live'
<1>1. c[1] \in Endpoint /\ t[1] \in Endpoint /\ t = <<t[1], t[2]>>
  OBVIOUS
<1>2. <<c[1], t[2]>> = t
  BY <1>1 DEF SingleEndpoint
<1>3. live \ {t} \subseteq live'
  BY <1>2 DEF DeleteOk, DeleteErr, Without
<1> QED
  BY <1>3

\* From the mint to the lease only the request itself has its token revoked.
LEMMA AliveStep ==
  ASSUME SingleEndpoint, ~SlowRequests
  PROVE  Inv /\ Untouched /\ Alive /\ [Next]_vars => Alive'
<1> SUFFICES ASSUME Inv, Untouched, Alive, [Next]_vars PROVE Alive'
  OBVIOUS
<1> USE DEF aapVars, configVars
<1>t. TypeOK /\ Holding
  BY DEF Inv
<1> DEFINE Points == {"minted", "app", "owner", "commit", "respond"}
<1>1. ASSUME NEW r \in Request, RequestStep(r) PROVE Alive'
  <2>o. Others(r)
    BY <1>1, TokensHeld
  <2>1. ASSUME \A u \in live : u = req[r].tok \/ u \in live', req'[r].pc \notin Points
        PROVE  Alive'
    <3> SUFFICES ASSUME NEW q \in Request, req'[q].pc \in Points
                 PROVE  req'[q].tok \in live'
      BY DEF Alive
    <3>1. q # r /\ req'[q] = req[q] /\ req[q].tok \in live
      BY <2>o, <2>1 DEF Others, Alive
    <3>2. req[q].tok # req[r].tok
      BY <1>t, <3>1, NullAssumption DEF Holding, TypeOK
    <3> QED
      BY <2>1, <3>1, <3>2
  <2>2. ASSUME live' = live, req[r].pc \in Points, req'[r].tok = req[r].tok PROVE Alive'
    BY <2>o, <2>2 DEF Others, Alive
  <2>f. ASSUME Finish(r) PROVE req'[r].pc \notin Points
    BY <1>t, <2>f DEF Finish, Idle, TypeOK
  <2>h. ASSUME NEW pc, NEW t, Hold(r, pc, t) PROVE req'[r].pc = pc /\ req'[r].tok = t
    BY <1>t, <2>h DEF Hold, TypeOK
  <2>3. ASSUME NEW t \in Token, MintAnswered(r, t) PROVE Alive'
    BY <2>3, <2>o, <2>h DEF MintAnswered, Others, Alive
  <2>4. ASSUME NEW t \in Token, MintUnread(r, t) \/ MintLost(r, t) PROVE Alive'
    BY <2>1, <2>4, <2>f, <2>h DEF MintUnread, MintLost
  <2>5. CASE Refuse(r) \/ UndoDeleteWal(r) \/ RegisterLease(r)
    BY <2>1, <2>5, <2>f DEF Refuse, UndoDeleteWal, RegisterLease
  <2>6. CASE Sweep(r) \/ SweepFails(r)
    <3>1. live \ {req[r].tok} \subseteq live' /\ Finish(r)
      BY <2>6 DEF Sweep, SweepFails
    <3> QED
      BY <2>1, <2>f, <3>1
  <2>7. CASE UndoRevoke(r) \/ UndoRevokeFails(r) \/ BestEffort(r)
    <3>1. req[r].tok \in Token /\ req[r].conn \in Conn
      BY <1>t, <2>7 DEF UndoRevoke, UndoRevokeFails, BestEffort, Holding, TypeOK, ReqType
    <3>2. \A u \in live : u = req[r].tok \/ u \in live'
      BY <1>t, <2>7, <3>1, OwnDelete DEF UndoRevoke, UndoRevokeFails, BestEffort
    <3>3. req'[r].pc \notin Points
      BY <2>7, <2>f, <2>h DEF UndoRevoke, UndoRevokeFails, BestEffort, Goto
    <3> QED
      BY <2>1, <3>2, <3>3
  <2>8. CASE PutWal(r) \/ DropWal(r) \/ CheckApplication(r) \/ CheckOwner(r)
    <3>1. live' = live /\ req[r].pc \in Points /\ \E pc : Goto(r, pc)
      BY <2>8 DEF PutWal, DropWal, CheckApplication, CheckOwner, Guard
    <3> QED
      BY <2>2, <2>h, <3>1 DEF Goto
  <2>9. CASE PutWalFails(r) \/ DropWalFails(r) \/ Cancel(r)
    <3>1. live' = live /\ req'[r].pc \notin Points
      BY <2>9, <2>h DEF PutWalFails, DropWalFails, Cancel, Goto
    <3> QED
      BY <2>1, <3>1
  <2> QED
    BY <1>1, <2>3, <2>4, <2>5, <2>6, <2>7, <2>8, <2>9 DEF RequestStep
<1>2. ASSUME NEW r \in Request, NEW p \in Policies, Start(r, p) PROVE Alive'
  BY <1>t, <1>2 DEF Start, Alive, TypeOK
<1>3. ASSUME NEW k \in Kind, NEW t \in Token, JobStep(k, t) PROVE Alive'
  <2>1. req' = req /\ \A r \in Request : req[r].tok # t
    BY <1>3, JobsAside DEF JobStep, SnapshotRevoke, SnapshotRevokeFails, GetClient,
       FallbackRevoke, FallbackRevokeFails, Acknowledge
  <2>2. CASE live' = live
    BY <2>1, <2>2 DEF Alive
  <2>3. ASSUME NEW c \in Conn, DeleteOk(c, t) \/ DeleteErr(c, t) PROVE Alive'
    <3>1. \A u \in live : u = t \/ u \in live'
      BY <1>t, <2>3, OwnDelete
    <3> QED
      BY <2>1, <3>1 DEF Alive
  <2>4. Eligible(k, t) => Record(k, t) \in Conn
    BY <1>t DEF Eligible, Record, TypeOK
  <2>5. job[k][t].stage = "delete" => job[k][t].conn \in Conn
    BY <1>t DEF TypeOK, JobType
  <2> QED
    BY <1>3, <2>2, <2>3, <2>4, <2>5 DEF JobStep, SnapshotRevoke, SnapshotRevokeFails,
       GetClient, FallbackRevoke, FallbackRevokeFails, Acknowledge
<1>4. CASE Crash
  BY <1>4 DEF Crash, Idle, Alive
<1> QED
  BY <1>1, <1>2, <1>3, <1>4, RequestsKept DEF Next, Alive

\* Whatever fails and whatever rollback does, a response carries a token that
\* exists, when requests end within walRollbackMinAge and every configuration
\* is of one AAP: the fallback of another token's revocation is the one
\* DELETE that names an id for another AAP than the one that gave it.
THEOREM HandedOut ==
  ASSUME SingleEndpoint, ~SlowRequests PROVE Spec => []HandedOutLive
<1>1. Init => Untouched /\ Alive
  BY DEF Init, Idle, NoJob, Untouched, Alive
<1>2. Inv /\ Untouched /\ Alive /\ [Next]_vars => Untouched' /\ Alive'
  BY SingleEndpoint, ~SlowRequests, UntouchedStep, AliveStep
<1>3. Alive => HandedOutLive
  BY DEF Alive, HandedOutLive
<1> QED
  BY <1>1, <1>2, <1>3, Safety, PTL DEF Spec

=============================================================================
