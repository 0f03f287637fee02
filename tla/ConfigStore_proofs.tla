------------------------ MODULE ConfigStore_proofs ------------------------
(***************************************************************************)
(* Proofs that whatever sequence of partial writes, deletes and rotations  *)
(* is stored, the configuration is consistent, its id names its token and  *)
(* the rotation job follows it; and that, with one operation at a time, a  *)
(* credential never moves to another connection.                           *)
(***************************************************************************)
EXTENDS ConfigStore, TLAPS

\* What every configuration that is stored or about to be stored satisfies.
Sound(c) ==
    c # NoConfig =>
       /\ (c.token # Empty) # (c.user # Empty \/ c.pass # Empty)
       /\ (c.user = Empty) = (c.pass = Empty)
       /\ c.rotate /\ ~c.disabled => c.token # Empty
       /\ c.id \in {NoId, c.token}

\* The handlers run one at a time.
Exclusive == \A p \in Proc : proc[p].pc \in {"read", "put", "job"} <=> lock = p

\* What a handler has read is what is stored, and what it is about to store
\* has passed the checks.
Knowing ==
    \A p \in Proc :
       /\ proc[p].pc \in {"read", "put"} => proc[p].old = config
       /\ proc[p].pc = "put" =>
            /\ proc[p].new = Merge(proc[p].old, proc[p].req)
            /\ Accepted(proc[p].old, proc[p].req, proc[p].op)
       /\ proc[p].pc = "job" => proc[p].new = config
       /\ proc[p].pc \in {"idle", "asked", "read"} => proc[p].new = NoConfig

\* The job follows the stored configuration, and the one before it while the
\* call to the Rotation Manager is still to come.
Following ==
    ~adrift =>
       /\ (\A p \in Proc : proc[p].pc # "job") => (job <=> ShouldRegister(config))
       /\ \A p \in Proc : proc[p].pc = "job" => (job <=> ShouldRegister(proc[p].old))

Inv == TypeOK /\ Exclusive /\ Knowing /\ Sound(config) /\ Following

-----------------------------------------------------------------------------
\* Merging a request that passes the checks yields a configuration.
LEMMA MergeTyped ==
  ASSUME NEW old \in Config \cup {NoConfig}, NEW f \in Request,
         NEW op \in {"create", "update"},
         Accepted(old, f, op)
  PROVE  Merge(old, f) \in Config
<1> DEFINE b == Before(old)
<1>1. /\ b.token \in Given \cup Minted \cup {Empty}
      /\ b.user \in User \cup {Empty} /\ b.pass \in Pass \cup {Empty}
      /\ b.id \in Minted \cup {NoId}
      /\ b.rotate \in BOOLEAN /\ b.disabled \in BOOLEAN
  BY NullAssumption DEF Before, Config
<1>2. Pick(f.conn, b.conn) \in Conn
  <2>1. CASE old = NoConfig
    BY <2>1, NullAssumption DEF Accepted, Pick, Request
  <2>2. CASE old # NoConfig
    BY <2>2, NullAssumption DEF Before, Pick, Config, Request
  <2> QED BY <2>1, <2>2
<1>3. /\ Merge(old, f).token \in Given \cup Minted \cup {Empty}
      /\ Merge(old, f).user \in User \cup {Empty}
      /\ Merge(old, f).pass \in Pass \cup {Empty}
  BY <1>1 DEF Merge, Pick, Request
<1>4. /\ Merge(old, f).id \in Minted \cup {NoId}
      /\ Merge(old, f).rotate \in BOOLEAN
      /\ Merge(old, f).disabled \in BOOLEAN
  BY <1>1 DEF Merge, Pick, Request
<1> QED BY <1>2, <1>3, <1>4 DEF Merge, Config

\* Merging a request that passes the checks into a sound configuration
\* yields a sound one: one complete auth scheme, and an id that was cleared
\* with every token that did not stay.
LEMMA MergeSound ==
  ASSUME NEW old \in Config \cup {NoConfig}, NEW f \in Request,
         NEW op \in {"create", "update"},
         Accepted(old, f, op), Sound(old)
  PROVE  Sound(Merge(old, f))
<1> DEFINE c == Merge(old, f)
<1>1. /\ (c.token # Empty) # (c.user # Empty \/ c.pass # Empty)
      /\ (c.user = Empty) = (c.pass = Empty)
  BY DEF Accepted, OneScheme, Basic
<1>2. c.rotate /\ ~c.disabled => c.token # Empty
  BY MergeTyped, NullAssumption DEF Accepted, ShouldRegister
<1>3. c.id \in {NoId, c.token}
  BY DEF Merge, Before, Sound, Pick
<1> QED BY <1>1, <1>2, <1>3 DEF Sound

\* A mount without configuration satisfies the invariant.
LEMMA Initially == Init => Inv
<1> SUFFICES ASSUME Init PROVE Inv
  OBVIOUS
<1>1. TypeOK
  <2>1. NoRequest \in Request
    BY DEF NoRequest, Request
  <2>2. Idle \in [pc : {"idle", "asked", "read", "put", "job"}, req : Request,
                  op : {"create", "update"}, old : Config \cup {NoConfig},
                  new : Config \cup {NoConfig}]
    BY <2>1 DEF Idle
  <2>3. job \in BOOLEAN /\ adrift \in BOOLEAN
    BY DEF Init
  <2>4. proc \in [Proc -> [pc : {"idle", "asked", "read", "put", "job"},
                           req : Request, op : {"create", "update"},
                           old : Config \cup {NoConfig},
                           new : Config \cup {NoConfig}]]
    BY <2>2 DEF Init
  <2> QED BY <2>3, <2>4, BoundAssumption DEF Init, TypeOK
<1>2. Exclusive /\ Knowing /\ Sound(config) /\ Following
  BY NullAssumption
     DEF Init, Exclusive, Knowing, Sound, Following, Idle, ShouldRegister
<1> QED BY <1>1, <1>2 DEF Inv

\* Every step of writes, deletes, rotations and the crash keeps the types.
LEMMA Typing == Inv /\ [Next]_vars => TypeOK'
<1> SUFFICES ASSUME Inv, [Next]_vars PROVE TypeOK'
  OBVIOUS
<1> USE DEF Inv
<1>1. ASSUME NEW p \in Proc, NEW f \in Asked, Ask(p, f) PROVE TypeOK'
  <2>1. f \in Request
    BY AskedAssumption
  <2>2. PICK o \in {"create", "update"} :
          proc' = [proc EXCEPT ![p] =
                     [@ EXCEPT !.pc = "asked", !.req = f, !.op = o]]
    BY <1>1 DEF Ask
  <2>3. proc' \in [Proc -> [pc : {"idle", "asked", "read", "put", "job"},
                            req : Request, op : {"create", "update"},
                            old : Config \cup {NoConfig},
                            new : Config \cup {NoConfig}]]
    BY <2>1, <2>2 DEF TypeOK
  <2> QED BY <1>1, <2>3 DEF TypeOK, Ask
<1>2. ASSUME NEW p \in Proc, Lock(p) PROVE TypeOK'
  BY <1>2 DEF TypeOK, Lock
<1>i. Idle \in [pc : {"idle", "asked", "read", "put", "job"}, req : Request,
                op : {"create", "update"}, old : Config \cup {NoConfig},
                new : Config \cup {NoConfig}]
  BY DEF Idle, NoRequest, Request
<1>3. ASSUME NEW p \in Proc, Reject(p) PROVE TypeOK'
  BY <1>3, <1>i DEF TypeOK, Reject, Return
<1>4. ASSUME NEW p \in Proc, Verify(p) PROVE TypeOK'
  <2>1. Merge(proc[p].old, proc[p].req) \in Config
    BY <1>4, MergeTyped DEF TypeOK, Verify
  <2> QED BY <1>4, <2>1 DEF TypeOK, Verify
<1>5. ASSUME NEW p \in Proc, proc[p].pc = "put"
      PROVE  proc[p].new \in Config /\ proc[p].new.conn \in Conn
  BY <1>5, MergeTyped DEF TypeOK, Knowing, Config
<1>6. ASSUME NEW p \in Proc, Put(p) PROVE TypeOK'
  BY <1>6, <1>5 DEF TypeOK, Put, Stored
<1>7. ASSUME NEW p \in Proc, PutFails(p) PROVE TypeOK'
  <2>1. /\ proc' = [proc EXCEPT ![p] = Idle] /\ lock' = NoProc
        /\ faults' \in 0..MaxFaults /\ job' = job
    BY <1>7, BoundAssumption DEF TypeOK, PutFails, Return, Fault
  <2>2. /\ config' \in Config \cup {NoConfig} /\ home' \in Conn \cup {Absent}
        /\ adrift' \in BOOLEAN
    <3>1. CASE UNCHANGED <<config, home, adrift>>
      BY <3>1 DEF TypeOK
    <3>2. CASE Stored(p) /\ adrift' = TRUE
      BY <1>7, <1>5, <3>2 DEF TypeOK, PutFails, Stored
    <3> QED BY <1>7, <3>1, <3>2 DEF PutFails
  <2> QED BY <2>1, <2>2, <1>i DEF TypeOK
<1>8. ASSUME NEW p \in Proc, RotationJob(p) PROVE TypeOK'
  <2>1. /\ proc' = [proc EXCEPT ![p] = Idle] /\ lock' = NoProc
        /\ config' = config /\ home' = home
    BY <1>8 DEF RotationJob, Return
  <2>2. Manage(p, TRUE) \/ Manage(p, FALSE) \/ UNCHANGED <<job, faults, adrift>>
    BY <1>8 DEF RotationJob
  <2>3. /\ job' \in BOOLEAN /\ faults' \in 0..MaxFaults /\ adrift' \in BOOLEAN
    <3>1. \A to \in BOOLEAN : Manage(p, to) =>
            /\ job' \in {job, to} /\ adrift' \in BOOLEAN
            /\ faults' \in 0..MaxFaults
      <4>1. ASSUME NEW to \in BOOLEAN, Manage(p, to)
            PROVE  job' \in {job, to} /\ adrift' \in BOOLEAN
        BY <4>1 DEF Manage
      <4>2. ASSUME NEW to \in BOOLEAN, Manage(p, to)
            PROVE  faults' \in 0..MaxFaults
        BY <4>2, BoundAssumption DEF TypeOK, Manage, Fault
      <4> QED BY <4>1, <4>2
    <3>2. job' \in BOOLEAN
      BY <2>2, <3>1 DEF TypeOK
    <3> QED BY <2>2, <3>1, <3>2 DEF TypeOK
  <2> QED BY <2>1, <2>3, <1>i DEF TypeOK
<1>9. ASSUME NEW p \in Proc, Delete(p) PROVE TypeOK'
  BY <1>9 DEF TypeOK, Delete
<1>10. ASSUME NEW p \in Proc, DeleteFails(p) PROVE TypeOK'
  BY <1>10, <1>i, BoundAssumption DEF TypeOK, DeleteFails, Return, Fault
<1>11. ASSUME NEW t \in Minted, Rotate(t) PROVE TypeOK'
  BY <1>11 DEF TypeOK, Rotate, Config
<1>12. ASSUME Crash PROVE TypeOK'
  BY <1>12, <1>i, BoundAssumption DEF TypeOK, Crash, Fault
<1>13. ASSUME UNCHANGED vars PROVE TypeOK'
  BY <1>13 DEF TypeOK, vars
<1> QED
  BY <1>1, <1>2, <1>3, <1>4, <1>6, <1>7, <1>8, <1>9, <1>10, <1>11, <1>12, <1>13
     DEF Next, Step

\* configLock admits one handler, and what that handler knows stays true
\* until it returns: rotations wait for the lock too.
LEMMA Locking == Inv /\ [Next]_vars => Exclusive' /\ Knowing' /\ Sound(config)'
<1> SUFFICES ASSUME Inv, [Next]_vars
             PROVE  Exclusive' /\ Knowing' /\ Sound(config)'
  OBVIOUS
<1> USE NullAssumption DEF Inv, Exclusive, Knowing
<1>1. ASSUME NEW p \in Proc, NEW f \in Asked, Ask(p, f)
      PROVE  Exclusive' /\ Knowing' /\ Sound(config)'
  BY <1>1 DEF TypeOK, Ask
<1>2. ASSUME NEW p \in Proc, Lock(p)
      PROVE  Exclusive' /\ Knowing' /\ Sound(config)'
  BY <1>2 DEF TypeOK, Lock
<1>3. ASSUME NEW p \in Proc, Reject(p)
      PROVE  Exclusive' /\ Knowing' /\ Sound(config)'
  BY <1>3 DEF TypeOK, Reject, Return, Idle
<1>4. ASSUME NEW p \in Proc, Verify(p)
      PROVE  Exclusive' /\ Knowing' /\ Sound(config)'
  BY <1>4 DEF TypeOK, Verify
<1>5. ASSUME NEW p \in Proc, proc[p].pc = "put"
      PROVE  Sound(proc[p].new)
  BY <1>5, MergeSound DEF TypeOK
<1>6. ASSUME NEW p \in Proc, Put(p)
      PROVE  Exclusive' /\ Knowing' /\ Sound(config)'
  BY <1>6, <1>5 DEF TypeOK, Put, Stored, Sound
<1>7. ASSUME NEW p \in Proc, PutFails(p)
      PROVE  Exclusive' /\ Knowing' /\ Sound(config)'
  BY <1>7, <1>5 DEF TypeOK, PutFails, Stored, Return, Idle, Sound
<1>8. ASSUME NEW p \in Proc, RotationJob(p)
      PROVE  Exclusive' /\ Knowing' /\ Sound(config)'
  BY <1>8 DEF TypeOK, RotationJob, Return, Idle
<1>9. ASSUME NEW p \in Proc, Delete(p)
      PROVE  Exclusive' /\ Knowing' /\ Sound(config)'
  BY <1>9 DEF TypeOK, Delete, Sound
<1>10. ASSUME NEW p \in Proc, DeleteFails(p)
       PROVE  Exclusive' /\ Knowing' /\ Sound(config)'
  BY <1>10 DEF TypeOK, DeleteFails, Return, Idle, Sound
<1>11. ASSUME NEW t \in Minted, Rotate(t)
       PROVE  Exclusive' /\ Knowing' /\ Sound(config)'
  BY <1>11 DEF TypeOK, Rotate, Config, Sound
<1>12. ASSUME Crash PROVE Exclusive' /\ Knowing' /\ Sound(config)'
  BY <1>12 DEF TypeOK, Crash, Idle
<1>13. ASSUME UNCHANGED vars PROVE Exclusive' /\ Knowing' /\ Sound(config)'
  BY <1>13 DEF vars
<1> QED
  BY <1>1, <1>2, <1>3, <1>4, <1>6, <1>7, <1>8, <1>9, <1>10, <1>11, <1>12, <1>13
     DEF Next, Step

\* No step, but the failures that set adrift, parts the rotation job from
\* the configuration: where the handler leaves the job alone, it was right.
LEMMA JobKept == Inv /\ [Next]_vars => Following'
<1> SUFFICES ASSUME Inv, [Next]_vars PROVE Following'
  OBVIOUS
<1> USE NullAssumption DEF Inv, Exclusive, Following
<1>1. ASSUME NEW p \in Proc, NEW f \in Asked, Ask(p, f) PROVE Following'
  BY <1>1 DEF TypeOK, Ask
<1>2. ASSUME NEW p \in Proc, Lock(p) PROVE Following'
  BY <1>2 DEF TypeOK, Lock
<1>3. ASSUME NEW p \in Proc, Reject(p) PROVE Following'
  BY <1>3 DEF TypeOK, Reject, Return, Idle
<1>4. ASSUME NEW p \in Proc, Verify(p) PROVE Following'
  BY <1>4 DEF TypeOK, Verify
<1>5. ASSUME NEW p \in Proc, Put(p) PROVE Following'
  BY <1>5 DEF TypeOK, Knowing, Put
<1>6. ASSUME NEW p \in Proc, PutFails(p) PROVE Following'
  BY <1>6 DEF TypeOK, PutFails, Return, Idle
<1>7. ASSUME NEW p \in Proc, RotationJob(p) PROVE Following'
  <2>1. config = proc[p].new /\ \A q \in Proc : q # p => proc[q].pc # "job"
    BY <1>7 DEF Knowing, RotationJob
  <2>2. config' = config /\ \A q \in Proc : proc'[q].pc # "job"
    BY <1>7, <2>1 DEF TypeOK, RotationJob, Return, Idle
  <2>3. ~adrift' => (job' <=> ShouldRegister(config))
    <3>1. CASE Manage(p, TRUE) /\ ShouldRegister(config)
      BY <3>1 DEF Manage
    <3>2. CASE Manage(p, FALSE) /\ ~ShouldRegister(config)
      BY <3>2 DEF Manage
    <3>3. CASE /\ UNCHANGED <<job, adrift>> /\ ~ShouldRegister(config)
               /\ ~ShouldRegister(proc[p].old)
      BY <1>7, <3>3 DEF RotationJob
    <3> QED BY <1>7, <2>1, <3>1, <3>2, <3>3 DEF RotationJob
  <2> QED BY <2>2, <2>3 DEF ShouldRegister
<1>8. ASSUME NEW p \in Proc, Delete(p) PROVE Following'
  BY <1>8 DEF TypeOK, Knowing, Delete
<1>9. ASSUME NEW p \in Proc, DeleteFails(p) PROVE Following'
  BY <1>9 DEF TypeOK, DeleteFails, Return, Idle
<1>10. ASSUME NEW t \in Minted, Rotate(t) PROVE Following'
  <2>1. \A p \in Proc : proc[p].pc # "job"
    BY <1>10 DEF Rotate
  <2>2. /\ config # NoConfig /\ config' # NoConfig
        /\ config'.rotate = config.rotate /\ config'.disabled = config.disabled
    BY <1>10 DEF TypeOK, Rotate, Config
  <2>3. ShouldRegister(config)' = ShouldRegister(config)
    BY <2>2 DEF ShouldRegister
  <2> QED BY <1>10, <2>1, <2>3 DEF Rotate
<1>11. ASSUME Crash PROVE Following'
  BY <1>11 DEF TypeOK, Crash, Idle
<1>12. ASSUME UNCHANGED vars PROVE Following'
  BY <1>12 DEF vars
<1> QED
  BY <1>1, <1>2, <1>3, <1>4, <1>5, <1>6, <1>7, <1>8, <1>9, <1>10, <1>11, <1>12
     DEF Next, Step

\* The inductive invariant of the configuration store, for any requests,
\* writers, rotations and failures.
THEOREM Invariance == Spec => []Inv
<1>1. Inv /\ [Next]_vars => Inv'
  BY Typing, Locking, JobKept DEF Inv
<1> QED BY Initially, <1>1, PTL DEF Spec

\* The type invariant of the configuration store.
THEOREM StoreTyped == Spec => []TypeOK
<1>1. Inv => TypeOK
  BY DEF Inv
<1> QED BY Invariance, <1>1, PTL

\* pathConfigWrite never stores two auth schemes, half of one, or rotation
\* without a token, whatever partial writes follow each other.
THEOREM StoreConsistent == Spec => []Consistent
<1>1. Inv => Consistent
  BY DEF Inv, Sound, Consistent
<1> QED BY Invariance, <1>1, PTL

\* TokenID is 0 or the id of the stored token, so a rotation never revokes
\* another token than the one it replaces.
THEOREM StoreIdOfToken == Spec => []IdOfToken
<1>1. Inv => IdOfToken
  BY DEF Inv, Sound, IdOfToken
<1> QED BY Invariance, <1>1, PTL

\* Whenever configLock is free and nothing has failed since the last
\* successful call, the Rotation Manager has the job that is configured.
THEOREM StoreJobFollows == Spec => []JobFollows
<1>1. Inv => JobFollows
  <2> SUFFICES ASSUME Inv, lock = NoProc, ~adrift
               PROVE  job <=> config # NoConfig /\ config.rotate /\ ~config.disabled
    BY DEF JobFollows
  <2>1. \A p \in Proc : proc[p].pc # "job"
    BY NullAssumption DEF Inv, Exclusive
  <2> QED BY <2>1 DEF Inv, Following, ShouldRegister
<1> QED BY Invariance, <1>1, PTL

-----------------------------------------------------------------------------
\* An accepted write over a configuration that brings no credential and is not
\* a create keeps the connection; one over no configuration brings one.
LEMMA MoveBringsCredential ==
  ASSUME NEW old \in Config \cup {NoConfig}, NEW f \in Request,
         NEW op \in {"create", "update"},
         Accepted(old, f, op), ~CredSupplied(f)
  PROVE  /\ old # NoConfig
         /\ op = "update" => ~ConnectionChanged(old, f)
         /\ ~ConnectionChanged(old, f) => Merge(old, f).conn = old.conn
<1>1. old # NoConfig
  <2>1. SUFFICES ASSUME old = NoConfig PROVE FALSE
    OBVIOUS
  <2>2. Merge(old, f).token = Empty /\ Merge(old, f).pass = Empty
    BY <2>1 DEF Merge, Before, Pick, CredSupplied, HasBearer, Supplied
  <2> QED BY <2>2 DEF Accepted, OneScheme, Basic
<1> QED BY <1>1 DEF Accepted, ConnectionChanged, Merge, Before

\* Of all steps only a Put can part a credential from its connection, and
\* what it stores was merged into the configuration it replaces.
LEMMA MovesStep ==
  ASSUME Inv, MovesByCrossedCreate, [Next]_vars
  PROVE  MovesByCrossedCreate'
<1> USE NullAssumption DEF Inv, MovesByCrossedCreate
<1>1. ASSUME UNCHANGED <<config, home>> PROVE MovesByCrossedCreate'
  BY <1>1
<1>2. ASSUME NEW p \in Proc, proc[p].pc = "put", Stored(p)
      PROVE  MovesByCrossedCreate'
  <2>1. CASE CredSupplied(proc[p].req)
    BY <1>2, <2>1 DEF Stored
  <2>2. CASE ~CredSupplied(proc[p].req)
    <3>1. /\ proc[p].old \in Config \cup {NoConfig} /\ proc[p].req \in Request
          /\ proc[p].op \in {"create", "update"}
      BY DEF TypeOK
    <3>2. /\ proc[p].old = config /\ proc[p].new = Merge(proc[p].old, proc[p].req)
          /\ Accepted(proc[p].old, proc[p].req, proc[p].op)
      BY <1>2 DEF Knowing
    <3>3. CASE ConnectionChanged(proc[p].old, proc[p].req)
      BY <1>2, <2>2, <3>1, <3>2, <3>3, MoveBringsCredential DEF Stored
    <3>4. CASE ~ConnectionChanged(proc[p].old, proc[p].req)
      <4>1. config # NoConfig /\ config'.conn = config.conn
        BY <1>2, <2>2, <3>1, <3>2, <3>4, MoveBringsCredential DEF Stored
      <4>2. home' = home
        BY <1>2, <2>2, <3>4 DEF Stored
      <4> QED BY <4>1, <4>2
    <3> QED BY <3>3, <3>4
  <2> QED BY <2>1, <2>2
<1>3. ASSUME NEW p \in Proc, Step(p) PROVE MovesByCrossedCreate'
  <2>1. CASE Put(p) \/ PutFails(p)
    BY <1>1, <1>2, <2>1 DEF Put, PutFails
  <2>2. CASE Delete(p) \/ DeleteFails(p)
    BY <2>2 DEF Delete, DeleteFails
  <2>3. CASE Lock(p) \/ Reject(p) \/ Verify(p) \/ RotationJob(p)
    BY <1>1, <2>3 DEF Lock, Reject, Verify, RotationJob
  <2> QED BY <1>3, <2>1, <2>2, <2>3 DEF Step
<1>4. ASSUME NEW t \in Minted, Rotate(t) PROVE MovesByCrossedCreate'
  <2>1. config # NoConfig /\ config' # NoConfig /\ config'.conn = config.conn
    BY <1>4 DEF TypeOK, Rotate, Config
  <2> QED BY <1>4, <2>1 DEF Rotate
<1>5. ASSUME \/ \E p \in Proc, f \in Asked : Ask(p, f)
             \/ Crash \/ UNCHANGED vars
      PROVE  UNCHANGED <<config, home>>
  BY <1>5 DEF Ask, Crash, vars
<1> QED BY <1>1, <1>3, <1>4, <1>5 DEF Next

\* A stored credential goes to another connection only when two first writes
\* cross, however many writers, deletes and rotations there are.
THEOREM StoreCredentialMoves == Spec => []MovesByCrossedCreate
<1>1. Init => MovesByCrossedCreate
  BY DEF Init, MovesByCrossedCreate
<1>2. Inv /\ MovesByCrossedCreate /\ [Next]_vars => MovesByCrossedCreate'
  BY MovesStep
<1> QED BY Invariance, <1>1, <1>2, PTL DEF Spec

=============================================================================
