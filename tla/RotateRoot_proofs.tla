-------------------------- MODULE RotateRoot_proofs --------------------------
(***************************************************************************)
(* Proofs about RotateRoot, for any operations, tokens and failures: Inv   *)
(* is an invariant, and with it RootAccounted and ConfiguredLive, and       *)
(* Counting carries RotateLosingTakesTwo and StrayDeletes.  One lemma per   *)
(* conjunct of Inv.                                                         *)
(***************************************************************************)
EXTENDS RotateRoot, TLAPS

\* A token is the pair of the AAP that made it and its id.
LEMMA TokenPair ==
    \A t \in Token : t = <<t[1], t[2]>> /\ t[1] \in Endpoint /\ t[2] \in Id
  BY TokenAssumption

\* What a DELETE meant for token t may do to the live tokens.
Takes(t) ==
    /\ live' \subseteq live /\ struck \subseteq struck'
    /\ \A u \in live : u \in live' \/ u = t \/ u \in struck'
    /\ \A u \in struck' : u \in struck \/ (u \in live /\ u[2] = t[2] /\ u[1] # t[1])

\* What a DELETE at the AAP that made t does: nothing else is taken.
LEMMA TakesOwn ==
    ASSUME NEW t, TypeOK, live' \in {live, live \ {t}}, Strike(t)
    PROVE  Takes(t) /\ struck' = struck
  BY DEF Takes, Strike, TypeOK

\* The cleanup asks the AAP that minted the new token.
LEMMA CleanupTakes ==
    ASSUME Inv, NEW p \in Proc, Cleanup(p)
    PROVE  /\ Takes(proc[p].new) /\ struck' = struck
           /\ live' \in {live, live \ {proc[p].new}}
<1>1. /\ proc[p].new \in Token /\ proc[p].new[1] = proc[p].old.at
      /\ TypeOK
  BY DEF Inv, Rotating, Cleanup, Token
<1>2. <<proc[p].old.at, proc[p].new[2]>> = proc[p].new
  BY <1>1, TokenPair
<1>3. /\ live' \in {live, live \ {proc[p].new}} /\ Strike(proc[p].new)
  BY <1>2 DEF Cleanup, DeleteOk, DeleteErr
<1> QED
  BY <1>1, <1>3, TakesOwn

\* TokenID names the token the rotation replaced.
LEMMA PreviousIs ==
    ASSUME Inv, NEW p \in Proc, proc[p].pc \in {"revoke", "wal"}
    PROVE  /\ Previous(p) = proc[p].old.token /\ proc[p].old.token \in Minted
           /\ New(p).at = proc[p].old.at
  BY NullAssumption DEF Inv, Knowing, Known, Rotating, Previous, New

\* So the rotation revokes that one.
LEMMA RevokeTakes ==
    ASSUME Inv, NEW p \in Proc, RevokeOld(p)
    PROVE  /\ Takes(proc[p].old.token) /\ struck' = struck
           /\ live' \in {live, live \ {proc[p].old.token}}
<1>1. proc[p].pc = "revoke" /\ TypeOK
  BY DEF Inv, RevokeOld
<1>2. <<New(p).at, proc[p].old.id>> = proc[p].old.token
  BY <1>1, PreviousIs DEF Previous
<1>3. /\ live' \in {live, live \ {proc[p].old.token}} /\ Strike(proc[p].old.token)
  BY <1>2 DEF RevokeOld, DeleteOk, DeleteErr
<1> QED
  BY <1>1, <1>3, TakesOwn

\* An entry is retried first at the AAP that made its token.
LEMMA RollbackTakes ==
    ASSUME Inv, NEW t \in Minted, Rollback(t)
    PROVE  Takes(t) /\ struck' = struck /\ live' \in {live, live \ {t}}
<1>1. wal[t].at = t[1] /\ TypeOK
  BY DEF Inv, Born, Rollback
<1>2. <<wal[t].at, t[2]>> = t
  BY <1>1, TokenPair DEF Token
<1>3. live' \in {live, live \ {t}} /\ Strike(t)
  BY <1>2 DEF Rollback, DeleteOk, DeleteErr
<1> QED
  BY <1>1, <1>3, TakesOwn

\* The fallback may ask another one.
LEMMA FallbackTakes ==
    ASSUME Inv, NEW t \in Minted, RollbackFallback(t)
    PROVE  Takes(t) /\ struck' \subseteq Token
<1> DEFINE c == IF client # NoConfig THEN client ELSE config
           x == <<c.at, t[2]>>
<1>1. live' \in {live, live \ {x}} /\ Strike(t)
  BY DEF RollbackFallback, DeleteOk, DeleteErr
<1>2. t = <<t[1], t[2]>>
  BY TokenPair DEF Token
<1>3. x # t => x[2] = t[2] /\ x[1] # t[1]
  BY <1>2
<1>4. live \subseteq Token /\ struck \subseteq Token
  BY DEF Inv, TypeOK
<1> HIDE DEF x
<1> QED
  BY <1>1, <1>3, <1>4 DEF Takes, Strike

\* What a write or a delete of the configuration does: an engine-minted token
\* is stored only when it was stored before.
LEMMA StoreWrites ==
    ASSUME Inv, NEW p \in Proc, NEW c \in Config \cup {NoConfig}, Store(p, c)
    PROVE  /\ proc[p].pc \in {"locked", "creating"} /\ config' = c /\ Known(c)
           /\ c = NoConfig \/ Accepts(c)
           /\ c # NoConfig /\ c.token \in Minted =>
                config # NoConfig /\ c.token = config.token
<1>1. /\ proc[p].pc \in {"locked", "creating"} /\ config' = c
      /\ c = NoConfig \/ (c \in Written(p) /\ Accepts(c))
  BY DEF Store
<1>2. proc[p].old = config /\ Known(config) /\ config \in Config \cup {NoConfig}
  BY <1>1 DEF Inv, Knowing, TypeOK
<1>3. CASE c = NoConfig
  BY <1>1, <1>3 DEF Known
<1>4. CASE c # NoConfig /\ c \in Given(p)
  <2>1. c.token \in Supplied \cup {NoToken} /\ c.id = NoId
    BY <1>4 DEF Given
  <2>2. c.token = NoToken \/ c.token[1] = c.at
    BY <1>1, <1>4 DEF Accepts
  <2> QED
    BY <1>1, <2>1, <2>2, TokenAssumption DEF Known, Token
<1>5. CASE c # NoConfig /\ c \in Kept(p)
  <2> DEFINE moved(e) == [at |-> e, token |-> proc[p].old.token, id |-> NoId]
  <2>7. proc[p].old # NoConfig
    BY <1>5 DEF Kept
  <2>8. \E e : c = proc[p].old \/ c = moved(e)
    <3>1. \/ c = proc[p].old
          \/ \E e \in {a \in Endpoint : proc[p].pc = "creating"} : c = moved(e)
      BY <1>5, <2>7 DEF Kept
    <3> QED
      BY <3>1
  <2>4. config # NoConfig /\ \E e : c = config \/ c = moved(e)
    BY <1>2, <2>7, <2>8
  <2>5. config \in [at : Endpoint, token : Token \cup {NoToken}, id : Id \cup {NoId}]
    BY <1>2, <2>4, TokenAssumption DEF Config
  <2>6. \A e : moved(e).token = config.token /\ moved(e).id = NoId
    BY <1>2, <2>5
  <2> HIDE DEF moved
  <2>1. config # NoConfig /\ c.token = config.token
    BY <2>4, <2>6
  <2>2. c = config \/ c.id = NoId
    BY <2>4, <2>6
  <2>3. c.token = NoToken \/ c.token[1] = c.at
    BY <1>1, <1>5 DEF Accepts
  <2> QED
    BY <1>1, <1>2, <2>1, <2>2, <2>3 DEF Known
<1> QED
  BY <1>1, <1>3, <1>4, <1>5 DEF Written

\* The configuration with the new token.
LEMMA NewConfig ==
    ASSUME Inv, NEW p \in Proc,
           proc[p].pc \in {"verify", "put", "cleanup", "reset", "revoke", "wal"}
    PROVE  /\ New(p) \in Config /\ New(p) # NoConfig /\ Known(New(p))
           /\ New(p).token = proc[p].new /\ New(p).at = proc[p].new[1]
<1>1. /\ proc[p].new \in Minted /\ proc[p].old.at \in Endpoint
      /\ proc[p].new[1] = proc[p].old.at /\ proc[p].new \in Token
  BY TokenAssumption DEF Inv, Rotating, Config, Token
<1>2. proc[p].new = <<proc[p].new[1], proc[p].new[2]>> /\ proc[p].new[2] \in Id
  BY <1>1, TokenPair
<1>3. New(p) \in Config
  BY <1>1, <1>2 DEF New, Config
<1> QED
  BY <1>1, <1>2, <1>3, NullAssumption DEF New, Known

\* The entry of the previous token is for the AAP that made it.
LEMMA PutWalWrites ==
    ASSUME Inv, NEW p \in Proc, PutWal(p)
    PROVE  /\ proc[p].pc = "wal" /\ proc[p].old.token \in Minted
           /\ proc[p].old.token[1] = New(p).at
           /\ \/ /\ wal' = [wal EXCEPT ![proc[p].old.token] = New(p)]
                 /\ lost' = lost /\ (faults' = faults \/ Fault)
              \/ Fault /\ wal' = wal /\ Lose({proc[p].old.token} \cap live, "retry")
<1>1. proc[p].pc = "wal"
  BY DEF PutWal
<1>2. Previous(p) = proc[p].old.token /\ proc[p].old.token \in Minted
  BY <1>1, PreviousIs
<1>3. proc[p].old.token[1] = New(p).at
  BY <1>1, <1>2, PreviousIs DEF Previous
<1> QED
  BY <1>1, <1>2, <1>3 DEF PutWal

\* configLock: the operation that works is the one that holds it.
LEMMA LockKept == TypeOK /\ Locked /\ [Next]_vars => Locked'
<1> SUFFICES ASSUME TypeOK, Locked, [Next]_vars PROVE Locked'
  OBVIOUS
<1> USE NullAssumption DEF TypeOK, Locked, Idle
<1>1. ASSUME NEW p \in Proc, Lock(p) PROVE Locked'
  BY <1>1 DEF Lock, Locking
<1>2. ASSUME NEW p \in Proc, Refuse(p) PROVE Locked'
  BY <1>2 DEF Refuse, Return
<1>3. ASSUME NEW p \in Proc, NEW t \in Minted, Mint(p, t) PROVE Locked'
  BY <1>3 DEF Mint, CanRotate, NextToken
<1>4. ASSUME NEW p \in Proc, NEW t \in Minted, MintUnread(p, t) PROVE Locked'
  BY <1>4 DEF MintUnread, CanRotate, NextToken, Fault, Return, Lose
<1>5. ASSUME NEW p \in Proc, Verify(p) PROVE Locked'
  BY <1>5 DEF Verify, Fault, Goto
<1>6. ASSUME NEW p \in Proc, Put(p) PROVE Locked'
  BY <1>6 DEF Put, New, Goto
<1>7. ASSUME NEW p \in Proc, PutFails(p) PROVE Locked'
  BY <1>7 DEF PutFails, Fault, Goto, New, Lose
<1>8. ASSUME NEW p \in Proc, Cleanup(p) PROVE Locked'
  BY <1>8 DEF Cleanup, Return, DeleteOk, DeleteErr, Fault, Lose
<1>9. ASSUME NEW p \in Proc, Reset(p) PROVE Locked'
  BY <1>9 DEF Reset, Goto, Return, Lose
<1>10. ASSUME NEW p \in Proc, RevokeOld(p) PROVE Locked'
  BY <1>10 DEF RevokeOld, DeleteOk, DeleteErr, Fault, New, Return, Goto
<1>11. ASSUME NEW p \in Proc, PutWal(p) PROVE Locked'
  BY <1>11 DEF PutWal, Return, New, Fault, Lose
<1>12. ASSUME NEW p \in Proc, NEW c \in Config \cup {NoConfig}, Store(p, c) PROVE Locked'
  BY <1>12 DEF Store, Lose, Goto, Return, Fault
<1>13. ASSUME NEW p \in Proc, StoreReset(p) PROVE Locked'
  BY <1>13 DEF StoreReset, Return
<1>14. ASSUME NEW t \in Minted, Rollback(t) PROVE Locked'
  BY <1>14 DEF Rollback, DeleteOk, DeleteErr, Fault, Resolve
<1>15. ASSUME NEW t \in Minted, RollbackFallback(t) PROVE Locked'
  BY <1>15 DEF RollbackFallback, DeleteOk, DeleteErr, Fault, Resolve, Lose
<1>16. CASE UseClient
  BY <1>16 DEF UseClient
<1>17. ASSUME NEW s \in Supplied, RevokeSupplied(s) PROVE Locked'
  BY <1>17 DEF RevokeSupplied
<1>18. CASE Crash
  BY <1>18 DEF Crash, Fault, Lose
<1>19. CASE UNCHANGED vars
  BY <1>19 DEF vars
<1>20. ASSUME NEW p \in Proc, Ask(p) PROVE Locked'
  BY <1>20 DEF Ask
<1> QED
  BY <1>1, <1>2, <1>3, <1>4, <1>5, <1>6, <1>7, <1>8, <1>9, <1>10, <1>11, <1>12,
     <1>13, <1>14, <1>15, <1>16, <1>17, <1>18, <1>19, <1>20 DEF Next, RotateStep,
     StoreStep, RollbackStep

\* TokenID is known for exactly the tokens rotateRoot made, in the stored
\* configuration and in what an operation has read.
LEMMA KnownKept == Inv /\ [Next]_vars => Known(config)'
<1> SUFFICES ASSUME Inv, [Next]_vars PROVE Known(config)'
  OBVIOUS
<1> USE TokenAssumption, NullAssumption DEF Inv, TypeOK, Known, Knowing,
   Rotating, Token, Config
<1>1. ASSUME NEW p \in Proc, Lock(p) PROVE Known(config)'
  BY <1>1 DEF Lock, Locking
<1>2. ASSUME NEW p \in Proc, Refuse(p) PROVE Known(config)'
  BY <1>2 DEF Refuse, Return
<1>3. ASSUME NEW p \in Proc, NEW t \in Minted, Mint(p, t) PROVE Known(config)'
  BY <1>3 DEF Mint, CanRotate, NextToken
<1>4. ASSUME NEW p \in Proc, NEW t \in Minted, MintUnread(p, t) PROVE Known(config)'
  BY <1>4 DEF MintUnread, CanRotate, NextToken, Fault, Return, Lose
<1>5. ASSUME NEW p \in Proc, Verify(p) PROVE Known(config)'
  BY <1>5 DEF Verify, Fault, Goto
<1>6. ASSUME NEW p \in Proc, Put(p) PROVE Known(config)'
  BY <1>6, NewConfig DEF Put
<1>7. ASSUME NEW p \in Proc, PutFails(p) PROVE Known(config)'
  BY <1>7, NewConfig DEF PutFails
<1>8. ASSUME NEW p \in Proc, Cleanup(p) PROVE Known(config)'
  BY <1>8 DEF Cleanup, Return, DeleteOk, DeleteErr, Fault, Lose
<1>9. ASSUME NEW p \in Proc, Reset(p) PROVE Known(config)'
  BY <1>9 DEF Reset, Goto, Return, Lose
<1>10. ASSUME NEW p \in Proc, RevokeOld(p) PROVE Known(config)'
  BY <1>10 DEF RevokeOld, DeleteOk, DeleteErr, Fault, New, Return, Goto
<1>11. ASSUME NEW p \in Proc, PutWal(p) PROVE Known(config)'
  BY <1>11 DEF PutWal, Return, New, Fault, Lose
<1>12. ASSUME NEW p \in Proc, NEW c \in Config \cup {NoConfig}, Store(p, c) PROVE Known(config)'
  BY <1>12, StoreWrites
<1>13. ASSUME NEW p \in Proc, StoreReset(p) PROVE Known(config)'
  BY <1>13 DEF StoreReset, Return
<1>14. ASSUME NEW t \in Minted, Rollback(t) PROVE Known(config)'
  BY <1>14 DEF Rollback, DeleteOk, DeleteErr, Fault, Resolve
<1>15. ASSUME NEW t \in Minted, RollbackFallback(t) PROVE Known(config)'
  BY <1>15 DEF RollbackFallback, DeleteOk, DeleteErr, Fault, Resolve, Lose
<1>16. CASE UseClient
  BY <1>16 DEF UseClient
<1>17. ASSUME NEW s \in Supplied, RevokeSupplied(s) PROVE Known(config)'
  BY <1>17 DEF RevokeSupplied
<1>18. CASE Crash
  BY <1>18 DEF Crash, Fault, Lose
<1>19. CASE UNCHANGED vars
  BY <1>19 DEF vars
<1>20. ASSUME NEW p \in Proc, Ask(p) PROVE Known(config)'
  BY <1>20 DEF Ask
<1> QED
  BY <1>1, <1>2, <1>3, <1>4, <1>5, <1>6, <1>7, <1>8, <1>9, <1>10, <1>11, <1>12,
     <1>13, <1>14, <1>15, <1>16, <1>17, <1>18, <1>19, <1>20 DEF Next, RotateStep,
     StoreStep, RollbackStep

\* Only tokens AAP has handed out are configured, live or recorded.
LEMMA BornKept == Inv /\ [Next]_vars => Born'
<1> SUFFICES ASSUME Inv, [Next]_vars PROVE Born'
  OBVIOUS
<1> USE TokenAssumption, NullAssumption DEF Inv, TypeOK, Born, Configured,
   Rotating, Known, Knowing, Token, Config
<1>1. ASSUME NEW p \in Proc, Lock(p) PROVE Born'
  BY <1>1 DEF Lock, Locking
<1>2. ASSUME NEW p \in Proc, Refuse(p) PROVE Born'
  BY <1>2 DEF Refuse, Return
<1>3. ASSUME NEW p \in Proc, NEW t \in Minted, Mint(p, t) PROVE Born'
  BY <1>3 DEF Mint, CanRotate, NextToken
<1>4. ASSUME NEW p \in Proc, NEW t \in Minted, MintUnread(p, t) PROVE Born'
  BY <1>4 DEF MintUnread, CanRotate, NextToken, Fault, Return, Lose
<1>5. ASSUME NEW p \in Proc, Verify(p) PROVE Born'
  BY <1>5 DEF Verify, Fault, Goto
<1>6. ASSUME NEW p \in Proc, Put(p) PROVE Born'
  BY <1>6 DEF Put, New, Goto
<1>7. ASSUME NEW p \in Proc, PutFails(p) PROVE Born'
  BY <1>7 DEF PutFails, Fault, Goto, New, Lose
<1>8. ASSUME NEW p \in Proc, Cleanup(p) PROVE Born'
  BY <1>8 DEF Cleanup, Return, DeleteOk, DeleteErr, Fault, Lose
<1>9. ASSUME NEW p \in Proc, Reset(p) PROVE Born'
  BY <1>9 DEF Reset, Goto, Return, Lose
<1>10. ASSUME NEW p \in Proc, RevokeOld(p) PROVE Born'
  BY <1>10 DEF RevokeOld, DeleteOk, DeleteErr, Fault, New, Return, Goto
<1>11. ASSUME NEW p \in Proc, PutWal(p) PROVE Born'
  <2>1. /\ proc[p].old.token \in Minted \cap born
        /\ proc[p].old.token[1] = New(p).at
        /\ wal' \in {wal, [wal EXCEPT ![proc[p].old.token] = New(p)]}
    BY <1>11, PutWalWrites
  <2>2. UNCHANGED <<config, live, born, fallback>> /\ fallback \subseteq Minted
    BY <1>11 DEF PutWal
  <2>3. \A t \in Minted :
          wal'[t] = wal[t] \/ (t = proc[p].old.token /\ wal'[t] = New(p))
    BY <2>1
  <2>4. New(p) # NoConfig
    BY <1>11, PutWalWrites, NewConfig
  <2> HIDE DEF TypeOK
  <2> QED
    BY <2>1, <2>2, <2>3, <2>4
<1>12. ASSUME NEW p \in Proc, NEW c \in Config \cup {NoConfig}, Store(p, c) PROVE Born'
  <2>1. UNCHANGED <<live, born, wal, fallback>>
    BY <1>12 DEF Store
  <2> QED
    BY <1>12, <2>1, StoreWrites
<1>13. ASSUME NEW p \in Proc, StoreReset(p) PROVE Born'
  BY <1>13 DEF StoreReset, Return
<1>14. ASSUME NEW t \in Minted, Rollback(t) PROVE Born'
  BY <1>14 DEF Rollback, DeleteOk, DeleteErr, Fault, Resolve
<1>15. ASSUME NEW t \in Minted, RollbackFallback(t) PROVE Born'
  BY <1>15 DEF RollbackFallback, DeleteOk, DeleteErr, Fault, Resolve, Lose
<1>16. CASE UseClient
  BY <1>16 DEF UseClient
<1>17. ASSUME NEW s \in Supplied, RevokeSupplied(s) PROVE Born'
  BY <1>17 DEF RevokeSupplied
<1>18. CASE Crash
  BY <1>18 DEF Crash, Fault, Lose
<1>19. CASE UNCHANGED vars
  BY <1>19 DEF vars
<1>20. ASSUME NEW p \in Proc, Ask(p) PROVE Born'
  BY <1>20 DEF Ask
<1> QED
  BY <1>1, <1>2, <1>3, <1>4, <1>5, <1>6, <1>7, <1>8, <1>9, <1>10, <1>11, <1>12,
     <1>13, <1>14, <1>15, <1>16, <1>17, <1>18, <1>19, <1>20 DEF Next, RotateStep,
     StoreStep, RollbackStep

\* What an operation knows of the stored configuration stays true, since only
\* the holder of the lock changes it.
LEMMA KnowingKept == Inv /\ [Next]_vars => Knowing'
<1> SUFFICES ASSUME Inv, [Next]_vars PROVE Knowing'
  OBVIOUS
<1> USE TokenAssumption, NullAssumption DEF Inv, TypeOK, Locked, Known,
   Knowing, Rotating, Configured, Idle
<1>1. ASSUME NEW p \in Proc, Lock(p) PROVE Knowing'
  BY <1>1 DEF Lock, Locking
<1>2. ASSUME NEW p \in Proc, Refuse(p) PROVE Knowing'
  BY <1>2 DEF Refuse, Return
<1>3. ASSUME NEW p \in Proc, NEW t \in Minted, Mint(p, t) PROVE Knowing'
  BY <1>3 DEF Mint, CanRotate, NextToken
<1>4. ASSUME NEW p \in Proc, NEW t \in Minted, MintUnread(p, t) PROVE Knowing'
  BY <1>4 DEF MintUnread, CanRotate, NextToken, Fault, Return, Lose
<1>5. ASSUME NEW p \in Proc, Verify(p) PROVE Knowing'
  BY <1>5 DEF Verify, Fault, Goto
<1>6. ASSUME NEW p \in Proc, Put(p) PROVE Knowing'
  <2>1. \A q \in Proc : q # p =>
          proc[q].pc \in {"idle", "asked"} /\ proc'[q] = proc[q]
    BY <1>6 DEF Put, Goto
  <2>2. proc'[p] = [pc |-> "reset", old |-> proc[p].old, new |-> proc[p].new]
    BY <1>6 DEF Put, Goto
  <2>3. config' # NoConfig /\ config'.token = proc[p].new
    BY <1>6 DEF Put, New, Config
  <2> QED
    BY <2>1, <2>2, <2>3
<1>7. ASSUME NEW p \in Proc, PutFails(p) PROVE Knowing'
  <2>1. \A q \in Proc : q # p =>
          proc[q].pc \in {"idle", "asked"} /\ proc'[q] = proc[q]
    BY <1>7 DEF PutFails, Goto
  <2>2. proc'[p] = [pc |-> "cleanup", old |-> proc[p].old, new |-> proc[p].new]
    BY <1>7 DEF PutFails, Goto
  <2>3. \/ config' = config /\ unacked' = unacked
        \/ /\ config' # NoConfig /\ config'.token = proc[p].new
           /\ proc[p].new \in unacked'
    BY <1>7 DEF PutFails, New, Config
  <2>4. proc[p].old = config
    BY <1>7 DEF PutFails
  <2> QED
    BY <2>1, <2>2, <2>3, <2>4
<1>8. ASSUME NEW p \in Proc, Cleanup(p) PROVE Knowing'
  BY <1>8 DEF Cleanup, Return, DeleteOk, DeleteErr, Fault, Lose
<1>9. ASSUME NEW p \in Proc, Reset(p) PROVE Knowing'
  BY <1>9 DEF Reset, Goto, Return, Lose
<1>10. ASSUME NEW p \in Proc, RevokeOld(p) PROVE Knowing'
  BY <1>10 DEF RevokeOld, DeleteOk, DeleteErr, Fault, New, Return, Goto
<1>11. ASSUME NEW p \in Proc, PutWal(p) PROVE Knowing'
  BY <1>11 DEF PutWal, Return, New, Fault, Lose
<1>12. ASSUME NEW p \in Proc, NEW c \in Config \cup {NoConfig}, Store(p, c) PROVE Knowing'
  <2>1. \A q \in Proc : q # p =>
          proc[q].pc \in {"idle", "asked"} /\ proc'[q] = proc[q]
    BY <1>12 DEF Store, Goto, Return
  <2>2. proc'[p].pc \in {"storereset", "idle"} /\ proc'[p].old \in {proc[p].old, NoConfig}
    BY <1>12 DEF Store, Goto, Return
  <2> QED
    BY <2>1, <2>2
<1>13. ASSUME NEW p \in Proc, StoreReset(p) PROVE Knowing'
  BY <1>13 DEF StoreReset, Return
<1>14. ASSUME NEW t \in Minted, Rollback(t) PROVE Knowing'
  BY <1>14 DEF Rollback, DeleteOk, DeleteErr, Fault, Resolve
<1>15. ASSUME NEW t \in Minted, RollbackFallback(t) PROVE Knowing'
  BY <1>15 DEF RollbackFallback, DeleteOk, DeleteErr, Fault, Resolve, Lose
<1>16. CASE UseClient
  BY <1>16 DEF UseClient
<1>17. ASSUME NEW s \in Supplied, RevokeSupplied(s) PROVE Knowing'
  BY <1>17 DEF RevokeSupplied
<1>18. CASE Crash
  BY <1>18 DEF Crash, Fault, Lose
<1>19. CASE UNCHANGED vars
  BY <1>19 DEF vars
<1>20. ASSUME NEW p \in Proc, Ask(p) PROVE Knowing'
  BY <1>20 DEF Ask
<1> QED
  BY <1>1, <1>2, <1>3, <1>4, <1>5, <1>6, <1>7, <1>8, <1>9, <1>10, <1>11, <1>12,
     <1>13, <1>14, <1>15, <1>16, <1>17, <1>18, <1>19, <1>20 DEF Next, RotateStep,
     StoreStep, RollbackStep

\* The new token of a rotation stays its own, until it is the configured one.
LEMMA RotatingKept == Inv /\ [Next]_vars => Rotating'
<1> SUFFICES ASSUME Inv, [Next]_vars PROVE Rotating'
  OBVIOUS
<1> USE TokenAssumption, NullAssumption DEF Inv, TypeOK, Locked, Known,
   Knowing, Rotating, Born, Configured, Idle, Token, Config
<1>1. ASSUME NEW p \in Proc, Lock(p) PROVE Rotating'
  BY <1>1 DEF Lock, Locking
<1>2. ASSUME NEW p \in Proc, Refuse(p) PROVE Rotating'
  BY <1>2 DEF Refuse, Return
<1>3. ASSUME NEW p \in Proc, NEW t \in Minted, Mint(p, t) PROVE Rotating'
  BY <1>3 DEF Mint, CanRotate, NextToken
<1>4. ASSUME NEW p \in Proc, NEW t \in Minted, MintUnread(p, t) PROVE Rotating'
  BY <1>4 DEF MintUnread, CanRotate, NextToken, Fault, Return, Lose
<1>5. ASSUME NEW p \in Proc, Verify(p) PROVE Rotating'
  BY <1>5 DEF Verify, Fault, Goto
<1>6. ASSUME NEW p \in Proc, Put(p) PROVE Rotating'
  BY <1>6 DEF Put, New, Goto
<1>7. ASSUME NEW p \in Proc, PutFails(p) PROVE Rotating'
  BY <1>7 DEF PutFails, Fault, Goto, New, Lose
<1>8. ASSUME NEW p \in Proc, Cleanup(p) PROVE Rotating'
  BY <1>8 DEF Cleanup, Return, DeleteOk, DeleteErr, Fault, Lose
<1>9. ASSUME NEW p \in Proc, Reset(p) PROVE Rotating'
  BY <1>9 DEF Reset, Goto, Return, Lose
<1>10. ASSUME NEW p \in Proc, RevokeOld(p) PROVE Rotating'
  BY <1>10 DEF RevokeOld, DeleteOk, DeleteErr, Fault, New, Return, Goto
<1>11. ASSUME NEW p \in Proc, PutWal(p) PROVE Rotating'
  BY <1>11 DEF PutWal, Return, New, Fault, Lose
<1>12. ASSUME NEW p \in Proc, NEW c \in Config \cup {NoConfig}, Store(p, c) PROVE Rotating'
  <2>1. \A q \in Proc : q # p =>
          proc[q].pc \in {"idle", "asked"} /\ proc'[q] = proc[q]
    BY <1>12 DEF Store, Goto, Return
  <2>2. proc'[p].pc \in {"storereset", "idle"}
    BY <1>12 DEF Store, Goto, Return
  <2> QED
    BY <2>1, <2>2
<1>13. ASSUME NEW p \in Proc, StoreReset(p) PROVE Rotating'
  BY <1>13 DEF StoreReset, Return
<1>14. ASSUME NEW t \in Minted, Rollback(t) PROVE Rotating'
  <2>1. /\ UNCHANGED <<proc, born>> /\ wal' \in {wal, [wal EXCEPT ![t] = NoConfig]}
    BY <1>14 DEF Rollback, Resolve
  <2>2. \A u \in Minted : wal[u] = NoConfig => wal'[u] = NoConfig /\ u # t
    BY <1>14, <2>1 DEF Rollback
  <2>3. Takes(t)
    BY <1>14, RollbackTakes
  <2> QED
    BY <2>1, <2>2, <2>3 DEF Takes
<1>15. ASSUME NEW t \in Minted, RollbackFallback(t) PROVE Rotating'
  <2>1. /\ UNCHANGED <<proc, born>> /\ wal' \in {wal, [wal EXCEPT ![t] = NoConfig]}
        /\ wal[t] # NoConfig
    BY <1>15 DEF RollbackFallback, Resolve
  <2>2. \A u \in Minted : wal[u] = NoConfig => wal'[u] = NoConfig /\ u # t
    BY <2>1
  <2>3. Takes(t)
    BY <1>15, FallbackTakes
  <2> QED
    BY <2>1, <2>2, <2>3 DEF Takes
<1>16. CASE UseClient
  BY <1>16 DEF UseClient
<1>17. ASSUME NEW s \in Supplied, RevokeSupplied(s) PROVE Rotating'
  BY <1>17 DEF RevokeSupplied
<1>18. CASE Crash
  BY <1>18 DEF Crash, Fault, Lose
<1>19. CASE UNCHANGED vars
  BY <1>19 DEF vars
<1>20. ASSUME NEW p \in Proc, Ask(p) PROVE Rotating'
  BY <1>20 DEF Ask
<1> QED
  BY <1>1, <1>2, <1>3, <1>4, <1>5, <1>6, <1>7, <1>8, <1>9, <1>10, <1>11, <1>12,
     <1>13, <1>14, <1>15, <1>16, <1>17, <1>18, <1>19, <1>20 DEF Next, RotateStep,
     StoreStep, RollbackStep

\* A WAL entry is written for a token that has left the configuration.
LEMMA AsideKept == Inv /\ [Next]_vars => Aside'
<1> SUFFICES ASSUME Inv, [Next]_vars PROVE Aside'
  OBVIOUS
<1> USE TokenAssumption, NullAssumption DEF Inv, TypeOK, Locked, Known,
   Knowing, Rotating, Born, Aside, Configured, Token, Config
<1>1. ASSUME NEW p \in Proc, Lock(p) PROVE Aside'
  BY <1>1 DEF Lock, Locking
<1>2. ASSUME NEW p \in Proc, Refuse(p) PROVE Aside'
  BY <1>2 DEF Refuse, Return
<1>3. ASSUME NEW p \in Proc, NEW t \in Minted, Mint(p, t) PROVE Aside'
  BY <1>3 DEF Mint, CanRotate, NextToken
<1>4. ASSUME NEW p \in Proc, NEW t \in Minted, MintUnread(p, t) PROVE Aside'
  BY <1>4 DEF MintUnread, CanRotate, NextToken, Fault, Return, Lose
<1>5. ASSUME NEW p \in Proc, Verify(p) PROVE Aside'
  BY <1>5 DEF Verify, Fault, Goto
<1>6. ASSUME NEW p \in Proc, Put(p) PROVE Aside'
  BY <1>6 DEF Put, New, Goto
<1>7. ASSUME NEW p \in Proc, PutFails(p) PROVE Aside'
  BY <1>7 DEF PutFails, Fault, Goto, New, Lose
<1>8. ASSUME NEW p \in Proc, Cleanup(p) PROVE Aside'
  BY <1>8 DEF Cleanup, Return, DeleteOk, DeleteErr, Fault, Lose
<1>9. ASSUME NEW p \in Proc, Reset(p) PROVE Aside'
  BY <1>9 DEF Reset, Goto, Return, Lose
<1>10. ASSUME NEW p \in Proc, RevokeOld(p) PROVE Aside'
  BY <1>10 DEF RevokeOld, DeleteOk, DeleteErr, Fault, New, Return, Goto
<1>11. ASSUME NEW p \in Proc, PutWal(p) PROVE Aside'
  <2>1. /\ proc[p].old.token \in Minted /\ proc[p].old.token # proc[p].new
        /\ Configured(proc[p].new)
        /\ wal' \in {wal, [wal EXCEPT ![proc[p].old.token] = New(p)]}
    BY <1>11, PutWalWrites
  <2>2. config' = config
    BY <1>11 DEF PutWal
  <2> QED
    BY <2>1, <2>2
<1>12. ASSUME NEW p \in Proc, NEW c \in Config \cup {NoConfig}, Store(p, c) PROVE Aside'
  <2>1. wal' = wal
    BY <1>12 DEF Store
  <2> QED
    BY <1>12, <2>1, StoreWrites
<1>13. ASSUME NEW p \in Proc, StoreReset(p) PROVE Aside'
  BY <1>13 DEF StoreReset, Return
<1>14. ASSUME NEW t \in Minted, Rollback(t) PROVE Aside'
  BY <1>14 DEF Rollback, DeleteOk, DeleteErr, Fault, Resolve
<1>15. ASSUME NEW t \in Minted, RollbackFallback(t) PROVE Aside'
  BY <1>15 DEF RollbackFallback, DeleteOk, DeleteErr, Fault, Resolve, Lose
<1>16. CASE UseClient
  BY <1>16 DEF UseClient
<1>17. ASSUME NEW s \in Supplied, RevokeSupplied(s) PROVE Aside'
  BY <1>17 DEF RevokeSupplied
<1>18. CASE Crash
  BY <1>18 DEF Crash, Fault, Lose
<1>19. CASE UNCHANGED vars
  BY <1>19 DEF vars
<1>20. ASSUME NEW p \in Proc, Ask(p) PROVE Aside'
  BY <1>20 DEF Ask
<1> QED
  BY <1>1, <1>2, <1>3, <1>4, <1>5, <1>6, <1>7, <1>8, <1>9, <1>10, <1>11, <1>12,
     <1>13, <1>14, <1>15, <1>16, <1>17, <1>18, <1>19, <1>20 DEF Next, RotateStep,
     StoreStep, RollbackStep

\* No step drops a live token without a record or an entry in `lost'.
LEMMA AccountedKept == Inv /\ [Next]_vars => RootAccounted'
<1> SUFFICES ASSUME Inv, [Next]_vars PROVE RootAccounted'
  OBVIOUS
<1> USE TokenAssumption, NullAssumption DEF Inv, TypeOK, Locked, Known,
   Knowing, Rotating, Born, RootAccounted, Holds, Configured, Idle, Token,
   Config
<1>1. ASSUME NEW p \in Proc, Lock(p) PROVE RootAccounted'
  BY <1>1 DEF Lock, Locking
<1>2. ASSUME NEW p \in Proc, Refuse(p) PROVE RootAccounted'
  BY <1>2 DEF Refuse, Return
<1>3. ASSUME NEW p \in Proc, NEW t \in Minted, Mint(p, t) PROVE RootAccounted'
  BY <1>3 DEF Mint, CanRotate, NextToken
<1>4. ASSUME NEW p \in Proc, NEW t \in Minted, MintUnread(p, t) PROVE RootAccounted'
  BY <1>4 DEF MintUnread, CanRotate, NextToken, Fault, Return, Lose
<1>5. ASSUME NEW p \in Proc, Verify(p) PROVE RootAccounted'
  <2>1. \A q \in Proc, t \in Minted : Holds(q, t) => Holds(q, t)'
    BY <1>5 DEF Verify, Goto
  <2>2. UNCHANGED <<config, live, wal, lost>>
    BY <1>5 DEF Verify
  <2> QED
    BY <2>1, <2>2
<1>6. ASSUME NEW p \in Proc, Put(p) PROVE RootAccounted'
  BY <1>6 DEF Put, New, Goto
<1>7. ASSUME NEW p \in Proc, PutFails(p) PROVE RootAccounted'
  BY <1>7 DEF PutFails, Fault, Goto, New, Lose
<1>8. ASSUME NEW p \in Proc, Cleanup(p) PROVE RootAccounted'
  BY <1>8 DEF Cleanup, Return, DeleteOk, DeleteErr, Fault, Lose
<1>9. ASSUME NEW p \in Proc, Reset(p) PROVE RootAccounted'
  BY <1>9 DEF Reset, Goto, Return, Lose
<1>10. ASSUME NEW p \in Proc, RevokeOld(p) PROVE RootAccounted'
  BY <1>10 DEF RevokeOld, DeleteOk, DeleteErr, Fault, New, Return, Goto
<1>11. ASSUME NEW p \in Proc, PutWal(p) PROVE RootAccounted'
  <2>1. /\ proc[p].pc = "wal" /\ proc[p].old.token \in Minted
        /\ \A q \in Proc : q # p => proc'[q] = proc[q]
    BY <1>11, PutWalWrites DEF PutWal, Return
  <2>2. UNCHANGED <<config, live>>
    BY <1>11 DEF PutWal
  <2>6. New(p) # NoConfig
    BY <2>1, NewConfig
  <2>3. \A t \in Minted : wal[t] # NoConfig => wal'[t] # NoConfig
    <3>1. wal' \in {wal, [wal EXCEPT ![proc[p].old.token] = New(p)]}
      BY <1>11, PutWalWrites
    <3> QED
      BY <2>6, <3>1
  <2>4. \A t \in Minted : lost[t] # "no" => lost'[t] # "no"
    BY <1>11, PutWalWrites DEF Lose
  <2>5. LET t == proc[p].old.token IN
          t \in live => wal'[t] # NoConfig \/ lost'[t] # "no"
    BY <1>11, PutWalWrites, NewConfig DEF Lose
  <2> QED
    BY <2>1, <2>2, <2>3, <2>4, <2>5
<1>12. ASSUME NEW p \in Proc, NEW c \in Config \cup {NoConfig}, Store(p, c) PROVE RootAccounted'
  <2>1. /\ proc[p].pc \in {"locked", "creating"} /\ config' = c
        /\ \A q \in Proc : q # p => proc'[q] = proc[q]
    BY <1>12, StoreWrites DEF Store, Goto, Return
  <2>2. UNCHANGED <<live, wal>> /\ Lose(Abandoned(c), "overwritten")
    BY <1>12 DEF Store
  <2>3. \A t \in Minted : lost[t] # "no" => lost'[t] # "no"
    BY <2>2 DEF Lose
  <2>4. \A t \in Minted : Configured(t) /\ ~(c # NoConfig /\ c.token = t) => lost'[t] # "no"
    BY <2>2 DEF Lose, Abandoned
  <2>5. \A q \in Proc, t \in Minted : Holds(q, t) => Holds(q, t)'
    BY <2>1
  <2>6. \A t \in Minted : Configured(t)' <=> c # NoConfig /\ c.token = t
    BY <2>1
  <2> HIDE DEF Holds, Configured
  <2> QED
    BY <2>2, <2>3, <2>4, <2>5, <2>6
<1>13. ASSUME NEW p \in Proc, StoreReset(p) PROVE RootAccounted'
  BY <1>13 DEF StoreReset, Return
<1>14. ASSUME NEW t \in Minted, Rollback(t) PROVE RootAccounted'
  BY <1>14 DEF Rollback, DeleteOk, DeleteErr, Fault, Resolve
<1>15. ASSUME NEW t \in Minted, RollbackFallback(t) PROVE RootAccounted'
  BY <1>15 DEF RollbackFallback, DeleteOk, DeleteErr, Fault, Resolve, Lose
<1>16. CASE UseClient
  BY <1>16 DEF UseClient
<1>17. ASSUME NEW s \in Supplied, RevokeSupplied(s) PROVE RootAccounted'
  BY <1>17 DEF RevokeSupplied
<1>18. CASE Crash
  BY <1>18 DEF Crash, Fault, Lose
<1>19. CASE UNCHANGED vars
  BY <1>19 DEF vars
<1>20. ASSUME NEW p \in Proc, Ask(p) PROVE RootAccounted'
  BY <1>20 DEF Ask
<1> QED
  BY <1>1, <1>2, <1>3, <1>4, <1>5, <1>6, <1>7, <1>8, <1>9, <1>10, <1>11, <1>12,
     <1>13, <1>14, <1>15, <1>16, <1>17, <1>18, <1>19, <1>20 DEF Next, RotateStep,
     StoreStep, RollbackStep

\* No step revokes the configured token, except the cleanup after a Put that
\* was applied.
LEMMA LiveKept == Inv /\ [Next]_vars => ConfiguredLive'
<1> SUFFICES ASSUME Inv, [Next]_vars PROVE ConfiguredLive'
  OBVIOUS
<1> USE TokenAssumption, NullAssumption DEF Inv, TypeOK, Locked, Known,
   Knowing, Rotating, Aside, ConfiguredLive, Configured, Token, Config
<1>1. ASSUME NEW p \in Proc, Lock(p) PROVE ConfiguredLive'
  BY <1>1 DEF Lock, Locking
<1>2. ASSUME NEW p \in Proc, Refuse(p) PROVE ConfiguredLive'
  BY <1>2 DEF Refuse, Return
<1>3. ASSUME NEW p \in Proc, NEW t \in Minted, Mint(p, t) PROVE ConfiguredLive'
  BY <1>3 DEF Mint, CanRotate, NextToken
<1>4. ASSUME NEW p \in Proc, NEW t \in Minted, MintUnread(p, t) PROVE ConfiguredLive'
  BY <1>4 DEF MintUnread, CanRotate, NextToken, Fault, Return, Lose
<1>5. ASSUME NEW p \in Proc, Verify(p) PROVE ConfiguredLive'
  BY <1>5 DEF Verify, Fault, Goto
<1>6. ASSUME NEW p \in Proc, Put(p) PROVE ConfiguredLive'
  BY <1>6 DEF Put, New, Goto
<1>7. ASSUME NEW p \in Proc, PutFails(p) PROVE ConfiguredLive'
  BY <1>7 DEF PutFails, Fault, Goto, New, Lose
<1>8. ASSUME NEW p \in Proc, Cleanup(p) PROVE ConfiguredLive'
  <2>1. Takes(proc[p].new) /\ UNCHANGED <<config, unacked>>
    BY <1>8, CleanupTakes DEF Cleanup
  <2>2. Configured(proc[p].new) => proc[p].new \in unacked
    BY <1>8 DEF Cleanup, Born
  <2> QED
    BY <2>1, <2>2 DEF Takes
<1>9. ASSUME NEW p \in Proc, Reset(p) PROVE ConfiguredLive'
  BY <1>9 DEF Reset, Goto, Return, Lose
<1>10. ASSUME NEW p \in Proc, RevokeOld(p) PROVE ConfiguredLive'
  <2>1. Takes(proc[p].old.token) /\ UNCHANGED <<config, unacked>>
    BY <1>10, RevokeTakes DEF RevokeOld
  <2>2. ~Configured(proc[p].old.token)
    BY <1>10 DEF RevokeOld
  <2> QED
    BY <2>1, <2>2 DEF Takes
<1>11. ASSUME NEW p \in Proc, PutWal(p) PROVE ConfiguredLive'
  BY <1>11 DEF PutWal, Return, New, Fault, Lose
<1>12. ASSUME NEW p \in Proc, NEW c \in Config \cup {NoConfig}, Store(p, c) PROVE ConfiguredLive'
  <2>1. UNCHANGED <<live, unacked, struck>>
    BY <1>12 DEF Store
  <2> QED
    BY <1>12, <2>1, StoreWrites
<1>13. ASSUME NEW p \in Proc, StoreReset(p) PROVE ConfiguredLive'
  BY <1>13 DEF StoreReset, Return
<1>14. ASSUME NEW t \in Minted, Rollback(t) PROVE ConfiguredLive'
  <2>1. Takes(t) /\ UNCHANGED <<config, unacked>>
    BY <1>14, RollbackTakes DEF Rollback
  <2>2. ~Configured(t)
    BY <1>14 DEF Rollback
  <2> QED
    BY <2>1, <2>2 DEF Takes
<1>15. ASSUME NEW t \in Minted, RollbackFallback(t) PROVE ConfiguredLive'
  <2>1. Takes(t) /\ UNCHANGED <<config, unacked>>
    BY <1>15, FallbackTakes DEF RollbackFallback
  <2>2. ~Configured(t)
    BY <1>15 DEF RollbackFallback, Born
  <2> QED
    BY <2>1, <2>2 DEF Takes
<1>16. CASE UseClient
  BY <1>16 DEF UseClient
<1>17. ASSUME NEW s \in Supplied, RevokeSupplied(s) PROVE ConfiguredLive'
  BY <1>17 DEF RevokeSupplied
<1>18. CASE Crash
  BY <1>18 DEF Crash, Fault, Lose
<1>19. CASE UNCHANGED vars
  BY <1>19 DEF vars
<1>20. ASSUME NEW p \in Proc, Ask(p) PROVE ConfiguredLive'
  BY <1>20 DEF Ask
<1> QED
  BY <1>1, <1>2, <1>3, <1>4, <1>5, <1>6, <1>7, <1>8, <1>9, <1>10, <1>11, <1>12,
     <1>13, <1>14, <1>15, <1>16, <1>17, <1>18, <1>19, <1>20 DEF Next, RotateStep,
     StoreStep, RollbackStep

\* The conjuncts of TypeOK about operations.
OpsTyped ==
    /\ proc \in [Proc -> [pc : {"idle", "asked", "locked", "creating", "verify",
                                "put", "cleanup", "reset", "revoke", "wal",
                                "storereset"},
                          old : Config \cup {NoConfig},
                          new : Minted \cup {NoToken}]]
    /\ \A p \in Proc : proc[p].pc \in {"verify", "put", "cleanup", "reset"}
                         => proc[p].new \in Minted

\* An operation that goes on, or ends, is a typed one.
LEMMA GotoTyped ==
    ASSUME OpsTyped, NEW p \in Proc, Goto(p, "put") \/ Goto(p, "cleanup")
             \/ Goto(p, "revoke") \/ Goto(p, "wal") \/ Goto(p, "storereset"),
           proc[p].new \in Minted \/ Goto(p, "storereset")
    PROVE  OpsTyped'
<1>1. PICK at \in {"put", "cleanup", "revoke", "wal", "storereset"} :
        Goto(p, at) /\ (at # "storereset" => proc[p].new \in Minted)
  OBVIOUS
<1> DEFINE r == [pc |-> at, old |-> proc[p].old, new |-> proc[p].new]
<1>2. /\ r \in [pc : {"idle", "asked", "locked", "creating", "verify",
                      "put", "cleanup", "reset", "revoke", "wal", "storereset"},
                old : Config \cup {NoConfig}, new : Minted \cup {NoToken}]
      /\ r.pc \in {"verify", "put", "cleanup", "reset"} => r.new \in Minted
  BY <1>1 DEF OpsTyped
<1>3. proc' = [proc EXCEPT ![p] = r]
  BY <1>1 DEF Goto
<1> HIDE DEF r
<1> QED
  BY <1>2, <1>3 DEF OpsTyped

\* So does one that returns.
LEMMA ReturnTyped ==
    ASSUME OpsTyped, NEW p \in Proc, Return(p)
    PROVE  OpsTyped'
  BY DEF OpsTyped, Return, Idle

\* Each variable keeps its type.
LEMMA TypeKept == Inv /\ [Next]_vars => TypeOK'
<1> SUFFICES ASSUME Inv, [Next]_vars PROVE TypeOK'
  OBVIOUS
<1> USE TokenAssumption, NullAssumption, BoundAssumption DEF Inv, TypeOK,
   Rotating, Knowing, Idle, Token, Config
<1>1. ASSUME NEW p \in Proc, Lock(p) PROVE TypeOK'
  BY <1>1 DEF Lock, Locking
<1>2. ASSUME NEW p \in Proc, Refuse(p) PROVE TypeOK'
  BY <1>2 DEF Refuse, Return
<1>3. ASSUME NEW p \in Proc, NEW t \in Minted, Mint(p, t) PROVE TypeOK'
  BY <1>3 DEF Mint, CanRotate, NextToken
<1>4. ASSUME NEW p \in Proc, NEW t \in Minted, MintUnread(p, t) PROVE TypeOK'
  BY <1>4 DEF MintUnread, CanRotate, NextToken, Fault, Return, Lose
<1>5. ASSUME NEW p \in Proc, Verify(p) PROVE TypeOK'
  <2>1. OpsTyped
    BY DEF OpsTyped
  <2>2. OpsTyped'
    BY <1>5, <2>1, GotoTyped DEF Verify
  <2>3. faults' \in 0..MaxFaults
    BY <1>5 DEF Verify, Fault
  <2>4. live' \subseteq Token /\ struck' \subseteq Token
    BY <1>5 DEF Verify
  <2> QED
    BY <1>5, <2>2, <2>3, <2>4 DEF Verify, OpsTyped
<1>6. ASSUME NEW p \in Proc, Put(p) PROVE TypeOK'
  BY <1>6 DEF Put, New, Goto
<1>7. ASSUME NEW p \in Proc, PutFails(p) PROVE TypeOK'
  BY <1>7 DEF PutFails, Fault, Goto, New, Lose
<1>8. ASSUME NEW p \in Proc, Cleanup(p) PROVE TypeOK'
  <2>1. OpsTyped
    BY DEF OpsTyped
  <2>2. OpsTyped'
    BY <1>8, <2>1, ReturnTyped DEF Cleanup
  <2>3. faults' \in 0..MaxFaults
    BY <1>8 DEF Cleanup, DeleteOk, DeleteErr, Fault
  <2>4. live' \subseteq Token /\ struck' \subseteq Token
    BY <1>8, CleanupTakes DEF Takes
  <2> QED
    BY <1>8, <2>2, <2>3, <2>4 DEF Cleanup, Return, Lose, OpsTyped
<1>9. ASSUME NEW p \in Proc, Reset(p) PROVE TypeOK'
  <2>1. OpsTyped
    BY DEF OpsTyped
  <2>2. OpsTyped'
    BY <1>9, <2>1, GotoTyped, ReturnTyped DEF Reset
  <2>3. faults' \in 0..MaxFaults
    BY <1>9 DEF Reset
  <2>4. live' \subseteq Token /\ struck' \subseteq Token
    BY <1>9 DEF Reset
  <2>5. lock' \in Proc \cup {NoProc}
    BY <1>9 DEF Reset, Return
  <2> QED
    BY <1>9, <2>2, <2>3, <2>4, <2>5 DEF Reset, Lose, OpsTyped
<1>10. ASSUME NEW p \in Proc, RevokeOld(p) PROVE TypeOK'
  <2>1. OpsTyped
    BY DEF OpsTyped
  <2>2. OpsTyped'
    BY <1>10, <2>1, GotoTyped, ReturnTyped DEF RevokeOld
  <2>3. faults' \in 0..MaxFaults
    BY <1>10 DEF RevokeOld, DeleteOk, DeleteErr, Fault
  <2>4. live' \subseteq Token /\ struck' \subseteq Token
    BY <1>10, RevokeTakes DEF Takes
  <2> QED
    BY <1>10, <2>2, <2>3, <2>4 DEF RevokeOld, Return, OpsTyped
<1>11. ASSUME NEW p \in Proc, PutWal(p) PROVE TypeOK'
  BY <1>11 DEF PutWal, Return, New, Fault, Lose
<1>12. ASSUME NEW p \in Proc, NEW c \in Config \cup {NoConfig}, Store(p, c) PROVE TypeOK'
  <2>1. OpsTyped
    BY DEF OpsTyped
  <2>2. OpsTyped'
    BY <1>12, <2>1, GotoTyped, ReturnTyped DEF Store
  <2>3. faults' \in 0..MaxFaults
    BY <1>12 DEF Store, Fault
  <2>4. live' \subseteq Token /\ struck' \subseteq Token
    BY <1>12 DEF Store
  <2>5. lock' \in Proc \cup {NoProc} /\ config' = c
    BY <1>12 DEF Store, Return
  <2>6. UNCHANGED <<client, born, live, wal, fallback, unacked, struck>>
    BY <1>12 DEF Store
  <2>7. Lose(Abandoned(c), "overwritten")
    BY <1>12 DEF Store
  <2> QED
    BY <2>2, <2>3, <2>4, <2>5, <2>6, <2>7 DEF Lose, OpsTyped
<1>13. ASSUME NEW p \in Proc, StoreReset(p) PROVE TypeOK'
  BY <1>13 DEF StoreReset, Return
<1>14. ASSUME NEW t \in Minted, Rollback(t) PROVE TypeOK'
  <2>1. OpsTyped
    BY DEF OpsTyped
  <2>2. OpsTyped'
    BY <1>14, <2>1 DEF Rollback, OpsTyped
  <2>3. faults' \in 0..MaxFaults
    BY <1>14 DEF Rollback, DeleteOk, DeleteErr, Fault
  <2>4. live' \subseteq Token /\ struck' \subseteq Token
    BY <1>14, RollbackTakes DEF Takes
  <2> QED
    BY <1>14, <2>2, <2>3, <2>4 DEF Rollback, Resolve, OpsTyped
<1>15. ASSUME NEW t \in Minted, RollbackFallback(t) PROVE TypeOK'
  <2>1. OpsTyped
    BY DEF OpsTyped
  <2>2. OpsTyped'
    BY <1>15, <2>1 DEF RollbackFallback, OpsTyped
  <2>3. faults' \in 0..MaxFaults
    BY <1>15 DEF RollbackFallback, DeleteOk, DeleteErr, Fault
  <2>4. live' \subseteq Token /\ struck' \subseteq Token
    BY <1>15, FallbackTakes DEF Takes
  <2> QED
    BY <1>15, <2>2, <2>3, <2>4 DEF RollbackFallback, Resolve, Lose, OpsTyped
<1>16. CASE UseClient
  BY <1>16 DEF UseClient
<1>17. ASSUME NEW s \in Supplied, RevokeSupplied(s) PROVE TypeOK'
  BY <1>17 DEF RevokeSupplied
<1>18. CASE Crash
  BY <1>18 DEF Crash, Fault, Lose
<1>19. CASE UNCHANGED vars
  BY <1>19 DEF vars
<1>20. ASSUME NEW p \in Proc, Ask(p) PROVE TypeOK'
  BY <1>20 DEF Ask
<1> QED
  BY <1>1, <1>2, <1>3, <1>4, <1>5, <1>6, <1>7, <1>8, <1>9, <1>10, <1>11, <1>12,
     <1>13, <1>14, <1>15, <1>16, <1>17, <1>18, <1>19, <1>20 DEF Next, RotateStep,
     StoreStep, RollbackStep

\* The count of failures only grows.
LEMMA FaultsGrow ==
    ASSUME TypeOK, faults' = faults \/ Fault
    PROVE  /\ faults \in Nat /\ faults' \in Nat
           /\ faults >= 1 => faults' >= 1
           /\ faults >= 2 => faults' >= 2
           /\ Fault => faults' >= 1
           /\ Fault /\ faults >= 1 => faults' >= 2
  BY BoundAssumption DEF TypeOK, Fault

\* A cleanup or a retry has cost one failure, and its credential still works.
LEMMA CountingKept == Inv /\ Counting /\ [Next]_vars => Counting'
<1> SUFFICES ASSUME Inv, Counting, [Next]_vars PROVE Counting'
  OBVIOUS
<1> USE TokenAssumption, NullAssumption, BoundAssumption DEF Inv, TypeOK,
   Locked, Knowing, Rotating, Aside, Born, Counting, Configured, Idle, Token,
   Config, Accepts
<1>1. ASSUME NEW p \in Proc, Lock(p) PROVE Counting'
  BY <1>1 DEF Lock, Locking
<1>2. ASSUME NEW p \in Proc, Refuse(p) PROVE Counting'
  BY <1>2 DEF Refuse, Return
<1>3. ASSUME NEW p \in Proc, NEW t \in Minted, Mint(p, t) PROVE Counting'
  BY <1>3 DEF Mint, CanRotate, NextToken
<1>4. ASSUME NEW p \in Proc, NEW t \in Minted, MintUnread(p, t) PROVE Counting'
  BY <1>4 DEF MintUnread, CanRotate, NextToken, Fault, Return, Lose
<1>5. ASSUME NEW p \in Proc, Verify(p) PROVE Counting'
  BY <1>5 DEF Verify, Fault, Goto
<1>6. ASSUME NEW p \in Proc, Put(p) PROVE Counting'
  BY <1>6 DEF Put, New, Goto
<1>7. ASSUME NEW p \in Proc, PutFails(p) PROVE Counting'
  BY <1>7 DEF PutFails, Fault, Goto, New, Lose
<1>8. ASSUME NEW p \in Proc, Cleanup(p) PROVE Counting'
  BY <1>8 DEF Cleanup, Return, DeleteOk, DeleteErr, Fault, Lose
<1>9. ASSUME NEW p \in Proc, Reset(p) PROVE Counting'
  <2>1. \A q \in Proc : q # p =>
          proc[q].pc \in {"idle", "asked"} /\ proc'[q] = proc[q]
    BY <1>9 DEF Reset, Goto, Return
  <2>2. \/ proc'[p].pc = "idle"
        \/ proc'[p] = [pc |-> "revoke", old |-> proc[p].old, new |-> proc[p].new]
    BY <1>9 DEF Reset, Goto, Return
  <2>3. proc[p].pc = "reset" /\ UNCHANGED <<live, wal, faults, struck>>
    BY <1>9 DEF Reset
  <2>4. /\ proc'[p].pc \in {"idle", "revoke"}
        /\ proc'[p].pc = "revoke" => proc'[p].new = proc[p].new
    BY <2>2
  <2>5. proc[p].new \in live \cup struck
    BY <2>3
  <2> HIDE DEF Inv, TypeOK, Knowing, Rotating, Born
  <2> QED
    BY <2>1, <2>3, <2>4, <2>5
<1>10. ASSUME NEW p \in Proc, RevokeOld(p) PROVE Counting'
  <2>1. \A q \in Proc : q # p =>
          proc[q].pc \in {"idle", "asked"} /\ proc'[q] = proc[q]
    BY <1>10 DEF RevokeOld, Goto, Return
  <2>2. proc'[p].pc \in {"idle", "wal"} /\ proc[p].pc = "revoke" /\ wal' = wal
    BY <1>10 DEF RevokeOld, Goto, Return
  <2>3. struck' = struck /\ (faults' = faults \/ Fault)
    BY <1>10, RevokeTakes DEF RevokeOld, DeleteOk, DeleteErr
  <2>4. proc'[p].pc = "wal" => Fault \/ ~Accepts(New(p))
    BY <1>10 DEF RevokeOld, Return, DeleteErr
  <2>5. ~Accepts(New(p)) => proc[p].new \in struck
    BY <2>2, NewConfig
  <2> QED
    BY <2>1, <2>2, <2>3, <2>4, <2>5, FaultsGrow
<1>11. ASSUME NEW p \in Proc, PutWal(p) PROVE Counting'
  <2>1. \A q \in Proc : q # p =>
          proc[q].pc \in {"idle", "asked"} /\ proc'[q] = proc[q]
    BY <1>11 DEF PutWal, Return
  <2>2. proc'[p].pc = "idle" /\ proc[p].pc = "wal"
    BY <1>11 DEF PutWal, Return
  <2>3. UNCHANGED <<live, struck>> /\ (faults' = faults \/ Fault)
    BY <1>11, PutWalWrites DEF PutWal
  <2> QED
    BY <2>1, <2>2, <2>3, FaultsGrow
<1>12. ASSUME NEW p \in Proc, NEW c \in Config \cup {NoConfig}, Store(p, c) PROVE Counting'
  <2>1. \A q \in Proc : q # p =>
          proc[q].pc \in {"idle", "asked"} /\ proc'[q] = proc[q]
    BY <1>12 DEF Store, Goto, Return
  <2>2. proc'[p].pc \in {"idle", "storereset"}
    BY <1>12 DEF Store, Goto, Return
  <2>3. UNCHANGED <<live, wal, struck>> /\ (faults' = faults \/ Fault)
    BY <1>12 DEF Store
  <2> QED
    BY <2>1, <2>2, <2>3, FaultsGrow
<1>13. ASSUME NEW p \in Proc, StoreReset(p) PROVE Counting'
  BY <1>13 DEF StoreReset, Return
<1>14. ASSUME NEW t \in Minted, Rollback(t) PROVE Counting'
  <2>1. /\ proc' = proc /\ (faults' = faults \/ Fault)
        /\ wal[t] # NoConfig /\ wal' \in {wal, [wal EXCEPT ![t] = NoConfig]}
    BY <1>14 DEF Rollback, DeleteOk, DeleteErr, Resolve
  <2>2. \A u \in Minted : wal[u] = NoConfig => wal'[u] = NoConfig /\ u # t
    BY <2>1
  <2>3. Takes(t) /\ struck' = struck
    BY <1>14, RollbackTakes
  <2> QED
    BY <2>1, <2>2, <2>3, FaultsGrow DEF Takes
<1>15. ASSUME NEW t \in Minted, RollbackFallback(t) PROVE Counting'
  <2>1. /\ proc' = proc /\ (faults' = faults \/ Fault)
        /\ wal[t] # NoConfig /\ wal' \in {wal, [wal EXCEPT ![t] = NoConfig]}
    BY <1>15 DEF RollbackFallback, DeleteOk, DeleteErr, Resolve
  <2>2. \A u \in Minted : wal[u] = NoConfig => wal'[u] = NoConfig /\ u # t
    BY <2>1
  <2>3. Takes(t)
    BY <1>15, FallbackTakes
  <2> QED
    BY <2>1, <2>2, <2>3, FaultsGrow DEF Takes
<1>16. CASE UseClient
  BY <1>16 DEF UseClient
<1>17. ASSUME NEW s \in Supplied, RevokeSupplied(s) PROVE Counting'
  BY <1>17 DEF RevokeSupplied
<1>18. CASE Crash
  BY <1>18 DEF Crash, Fault, Lose
<1>19. CASE UNCHANGED vars
  BY <1>19 DEF vars
<1>20. ASSUME NEW p \in Proc, Ask(p) PROVE Counting'
  BY <1>20 DEF Ask
<1> QED
  BY <1>1, <1>2, <1>3, <1>4, <1>5, <1>6, <1>7, <1>8, <1>9, <1>10, <1>11, <1>12,
     <1>13, <1>14, <1>15, <1>16, <1>17, <1>18, <1>19, <1>20 DEF Next, RotateStep,
     StoreStep, RollbackStep

\* A step that loses a token it was to clean up or to retry is the second
\* failure.
LEMMA TakesTwoKept == Inv /\ Counting /\ RotateLosingTakesTwo /\ [Next]_vars => RotateLosingTakesTwo'
<1> SUFFICES ASSUME Inv, Counting, RotateLosingTakesTwo, [Next]_vars PROVE RotateLosingTakesTwo'
  OBVIOUS
<1> USE TokenAssumption, NullAssumption, BoundAssumption DEF Inv, TypeOK,
   Rotating, Counting, RotateLosingTakesTwo, Token, Config, Accepts
<1>1. ASSUME NEW p \in Proc, Lock(p) PROVE RotateLosingTakesTwo'
  BY <1>1 DEF Lock, Locking
<1>2. ASSUME NEW p \in Proc, Refuse(p) PROVE RotateLosingTakesTwo'
  BY <1>2 DEF Refuse, Return
<1>3. ASSUME NEW p \in Proc, NEW t \in Minted, Mint(p, t) PROVE RotateLosingTakesTwo'
  BY <1>3 DEF Mint, CanRotate, NextToken
<1>4. ASSUME NEW p \in Proc, NEW t \in Minted, MintUnread(p, t) PROVE RotateLosingTakesTwo'
  BY <1>4 DEF MintUnread, CanRotate, NextToken, Fault, Return, Lose
<1>5. ASSUME NEW p \in Proc, Verify(p) PROVE RotateLosingTakesTwo'
  BY <1>5 DEF Verify, Fault, Goto
<1>6. ASSUME NEW p \in Proc, Put(p) PROVE RotateLosingTakesTwo'
  BY <1>6 DEF Put, New, Goto
<1>7. ASSUME NEW p \in Proc, PutFails(p) PROVE RotateLosingTakesTwo'
  BY <1>7 DEF PutFails, Fault, Goto, New, Lose
<1>8. ASSUME NEW p \in Proc, Cleanup(p) PROVE RotateLosingTakesTwo'
  <2>1. /\ live' \subseteq live /\ struck' = struck
        /\ faults >= 1 /\ (faults' = faults \/ Fault)
        /\ struck # {} => faults >= 2
    BY <1>8, CleanupTakes DEF Cleanup, DeleteOk, DeleteErr, Takes
  <2>2. lost' # lost => Fault \/ ~Accepts(proc[p].old)
    BY <1>8 DEF Cleanup, DeleteErr
  <2>3. \A t \in Minted : lost'[t] # lost[t] => lost' # lost
    OBVIOUS
  <2>4. ~Accepts(proc[p].old) => struck # {} \/ ~(Supplied \subseteq live)
    <3>1. proc[p].pc = "cleanup"
      BY <1>8 DEF Cleanup
    <3>2. /\ proc[p].old.token \in Token
          /\ proc[p].old.token \in Minted => proc[p].old.token \in live \cup struck
          /\ proc[p].old.token[1] = proc[p].old.at
      BY <3>1, TokenAssumption DEF Inv, Knowing, Known, Rotating, Counting
    <3> QED
      BY <3>2, TokenAssumption DEF Token, Accepts
  <2> QED
    BY <2>1, <2>2, <2>3, <2>4, FaultsGrow
<1>9. ASSUME NEW p \in Proc, Reset(p) PROVE RotateLosingTakesTwo'
  BY <1>9 DEF Reset, Goto, Return, Lose
<1>10. ASSUME NEW p \in Proc, RevokeOld(p) PROVE RotateLosingTakesTwo'
  BY <1>10 DEF RevokeOld, DeleteOk, DeleteErr, Fault, New, Return, Goto
<1>11. ASSUME NEW p \in Proc, PutWal(p) PROVE RotateLosingTakesTwo'
  BY <1>11 DEF PutWal, Return, New, Fault, Lose
<1>12. ASSUME NEW p \in Proc, NEW c \in Config \cup {NoConfig}, Store(p, c) PROVE RotateLosingTakesTwo'
  <2>1. live' = live /\ (faults' = faults \/ Fault)
    BY <1>12 DEF Store
  <2>2. \A t \in Minted : lost'[t] = lost[t] \/ lost'[t] = "overwritten"
    BY <1>12 DEF Store, Lose
  <2> QED
    BY <2>1, <2>2, FaultsGrow
<1>13. ASSUME NEW p \in Proc, StoreReset(p) PROVE RotateLosingTakesTwo'
  BY <1>13 DEF StoreReset, Return
<1>14. ASSUME NEW t \in Minted, Rollback(t) PROVE RotateLosingTakesTwo'
  BY <1>14 DEF Rollback, DeleteOk, DeleteErr, Fault, Resolve
<1>15. ASSUME NEW t \in Minted, RollbackFallback(t) PROVE RotateLosingTakesTwo'
  BY <1>15 DEF RollbackFallback, DeleteOk, DeleteErr, Fault, Resolve, Lose
<1>16. CASE UseClient
  BY <1>16 DEF UseClient
<1>17. ASSUME NEW s \in Supplied, RevokeSupplied(s) PROVE RotateLosingTakesTwo'
  BY <1>17 DEF RevokeSupplied
<1>18. CASE Crash
  BY <1>18 DEF Crash, Fault, Lose
<1>19. CASE UNCHANGED vars
  BY <1>19 DEF vars
<1>20. ASSUME NEW p \in Proc, Ask(p) PROVE RotateLosingTakesTwo'
  BY <1>20 DEF Ask
<1> QED
  BY <1>1, <1>2, <1>3, <1>4, <1>5, <1>6, <1>7, <1>8, <1>9, <1>10, <1>11, <1>12,
     <1>13, <1>14, <1>15, <1>16, <1>17, <1>18, <1>19, <1>20 DEF Next, RotateStep,
     StoreStep, RollbackStep

\* The initial state satisfies the invariant.
LEMMA Initially == Init => Inv
<1> SUFFICES ASSUME Init PROVE Inv
  OBVIOUS
<1> USE TokenAssumption, NullAssumption, BoundAssumption DEF Init, Idle
<1>1. TypeOK
  BY DEF TypeOK, Token, Config
<1>2. Locked /\ Known(config) /\ Born /\ Knowing
  BY DEF Locked, Known, Born, Knowing, Configured, Token
<1>3. Rotating /\ Aside /\ RootAccounted /\ ConfiguredLive
  BY DEF Rotating, Aside, RootAccounted, ConfiguredLive, Configured
<1> QED
  BY <1>1, <1>2, <1>3 DEF Inv

\* The conjunction is an invariant of rotations, config writes and deletes,
\* rollbacks and crashes.
THEOREM Invariance == Spec => []Inv
<1>1. Inv /\ [Next]_vars => Locked'
  BY LockKept DEF Inv
<1>2. Inv /\ [Next]_vars => Inv'
  BY <1>1, KnownKept, BornKept, KnowingKept, RotatingKept, AsideKept,
     AccountedKept, LiveKept, TypeKept DEF Inv
<1> QED
  BY Initially, <1>2, PTL DEF Spec

\* Every live token rotateRoot made is configured, held by an operation, in a
\* WAL entry or left by a step that is remembered.
THEOREM NoSilentDrop == Spec => []RootAccounted
  BY Invariance, PTL DEF Inv

\* A configured engine-minted token is never revoked by the engine, unless a
\* Put that was applied returned an error.
THEOREM ConfiguredKept == Spec => []ConfiguredLive
  BY Invariance, PTL DEF Inv

\* Each variable keeps its type.
THEOREM RotateTyped == Spec => []TypeOK
  BY Invariance, PTL DEF Inv

\* A retry that strikes another token, or is answered by the wrong AAP, has a
\* failure behind it.
LEMMA StrayKept ==
    Inv /\ Counting /\ StrayDeletes /\ [Next]_vars => StrayDeletes'
<1> SUFFICES ASSUME Inv, Counting, StrayDeletes, [Next]_vars PROVE StrayDeletes'
  OBVIOUS
<1> DEFINE Grows == faults' = faults \/ Fault
           Stays == struck' = struck /\ born \subseteq born'
           Right == \A t \in Minted : lost'[t] = "wrong_endpoint" => lost[t] = "wrong_endpoint"
<1>0. ASSUME Grows, Stays, Right PROVE StrayDeletes'
  BY <1>0, FaultsGrow DEF Inv, StrayDeletes
<1>1. ASSUME NEW p \in Proc, Lock(p) PROVE StrayDeletes'
  <2>1. Grows /\ Stays /\ Right
    BY <1>1 DEF Lock, Locking
  <2> QED
    BY <1>0, <2>1
<1>2. ASSUME NEW p \in Proc, Refuse(p) PROVE StrayDeletes'
  <2>1. Grows /\ Stays /\ Right
    BY <1>2 DEF Refuse
  <2> QED
    BY <1>0, <2>1
<1>3. ASSUME NEW p \in Proc, NEW t \in Minted, Mint(p, t) PROVE StrayDeletes'
  <2>1. Grows /\ Stays /\ Right
    BY <1>3 DEF Mint
  <2> QED
    BY <1>0, <2>1
<1>4. ASSUME NEW p \in Proc, NEW t \in Minted, MintUnread(p, t) PROVE StrayDeletes'
  <2>1. Grows /\ Stays /\ Right
    BY <1>4 DEF MintUnread, Lose
  <2> QED
    BY <1>0, <2>1
<1>5. ASSUME NEW p \in Proc, Verify(p) PROVE StrayDeletes'
  <2>1. Grows /\ Stays /\ Right
    BY <1>5 DEF Verify
  <2> QED
    BY <1>0, <2>1
<1>6. ASSUME NEW p \in Proc, Put(p) PROVE StrayDeletes'
  <2>1. Grows /\ Stays /\ Right
    BY <1>6 DEF Put
  <2> QED
    BY <1>0, <2>1
<1>7. ASSUME NEW p \in Proc, PutFails(p) PROVE StrayDeletes'
  <2>1. Grows /\ Stays /\ Right
    BY <1>7 DEF PutFails, Lose
  <2> QED
    BY <1>0, <2>1
<1>8. ASSUME NEW p \in Proc, Cleanup(p) PROVE StrayDeletes'
  <2>1. Grows /\ Stays /\ Right
    BY <1>8, CleanupTakes DEF Cleanup, DeleteOk, DeleteErr, Lose
  <2> QED
    BY <1>0, <2>1
<1>9. ASSUME NEW p \in Proc, Reset(p) PROVE StrayDeletes'
  <2>1. Grows /\ Stays /\ Right
    BY <1>9 DEF Reset, Lose
  <2> QED
    BY <1>0, <2>1
<1>10. ASSUME NEW p \in Proc, RevokeOld(p) PROVE StrayDeletes'
  <2>1. Grows /\ Stays /\ Right
    BY <1>10, RevokeTakes DEF RevokeOld, DeleteOk, DeleteErr
  <2> QED
    BY <1>0, <2>1
<1>11. ASSUME NEW p \in Proc, PutWal(p) PROVE StrayDeletes'
  <2>1. Grows /\ Stays /\ Right
    BY <1>11 DEF PutWal, Lose
  <2> QED
    BY <1>0, <2>1
<1>12. ASSUME NEW p \in Proc, NEW c \in Config \cup {NoConfig}, Store(p, c) PROVE StrayDeletes'
  <2>1. Grows /\ Stays /\ Right
    BY <1>12 DEF Store, Lose
  <2> QED
    BY <1>0, <2>1
<1>13. ASSUME NEW p \in Proc, StoreReset(p) PROVE StrayDeletes'
  <2>1. Grows /\ Stays /\ Right
    BY <1>13 DEF StoreReset
  <2> QED
    BY <1>0, <2>1
<1>14. ASSUME NEW t \in Minted, Rollback(t) PROVE StrayDeletes'
  <2>1. Grows /\ Stays /\ Right
    BY <1>14, RollbackTakes DEF Rollback, DeleteOk, DeleteErr
  <2> QED
    BY <1>0, <2>1
<1>15. ASSUME NEW t \in Minted, RollbackFallback(t) PROVE StrayDeletes'
  <2>1. Takes(t) /\ Grows /\ born' = born /\ t \in born /\ faults >= 1
    BY <1>15, FallbackTakes DEF RollbackFallback, DeleteOk, DeleteErr, Inv, Born, Counting
  <2>2. faults' >= 1
    BY <2>1, FaultsGrow DEF Inv
  <2>3. \A u \in struck' : u \in struck \/ (t[2] = u[2] /\ t[1] # u[1])
    BY <2>1 DEF Takes
  <2> QED
    BY <2>1, <2>2, <2>3 DEF StrayDeletes
<1>16. ASSUME UseClient PROVE StrayDeletes'
  <2>1. Grows /\ Stays /\ Right
    BY <1>16 DEF UseClient
  <2> QED
    BY <1>0, <2>1
<1>17. ASSUME NEW s \in Supplied, RevokeSupplied(s) PROVE StrayDeletes'
  <2>1. Grows /\ Stays /\ Right
    BY <1>17 DEF RevokeSupplied
  <2> QED
    BY <1>0, <2>1
<1>18. ASSUME Crash PROVE StrayDeletes'
  <2>1. Grows /\ Stays /\ Right
    BY <1>18 DEF Crash, Lose
  <2> QED
    BY <1>0, <2>1
<1>19. ASSUME UNCHANGED vars PROVE StrayDeletes'
  <2>1. Grows /\ Stays /\ Right
    BY <1>19 DEF vars
  <2> QED
    BY <1>0, <2>1
<1>20. ASSUME NEW p \in Proc, Ask(p) PROVE StrayDeletes'
  <2>1. Grows /\ Stays /\ Right
    BY <1>20 DEF Ask
  <2> QED
    BY <1>0, <2>1
<1> QED
  BY <1>1, <1>2, <1>3, <1>4, <1>5, <1>6, <1>7, <1>8, <1>9, <1>10, <1>11, <1>12,
     <1>13, <1>14, <1>15, <1>16, <1>17, <1>18, <1>19, <1>20 DEF Next,
     RotateStep, StoreStep, RollbackStep

\* A token a rotation tried to revoke is left behind only by two failures.
THEOREM TwoFailures == Spec => []RotateLosingTakesTwo
<1>1. Init => Counting /\ RotateLosingTakesTwo
  BY BoundAssumption DEF Init, Counting, RotateLosingTakesTwo, Idle
<1> QED
  BY Invariance, <1>1, CountingKept, TakesTwoKept, PTL DEF Spec

\* No DELETE of a rotation takes away another token than its own, and no retry
\* is answered by the wrong AAP, except the retry of a revoke that failed.
THEOREM NoStrayDelete == Spec => []StrayDeletes
<1>1. Init => Counting /\ StrayDeletes
  BY BoundAssumption DEF Init, Counting, StrayDeletes, Idle
<1> QED
  BY Invariance, <1>1, CountingKept, StrayKept, PTL DEF Spec
=============================================================================
