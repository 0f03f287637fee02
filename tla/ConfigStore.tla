---------------------------- MODULE ConfigStore ----------------------------
(***************************************************************************)
(* The configuration of the engine (path_config.go): partial writes merged *)
(* into the stored configuration under configLock, deletes, the token that *)
(* a rotation stores, and the rotation job Vault's Rotation Manager keeps  *)
(* for it.                                                                 *)
(*                                                                         *)
(* A connection stands for address, API path and TLS trust together, the   *)
(* settings that configConnectionChanged compares.  The id of a minted     *)
(* token is its name; NoId is TokenID = 0.                                 *)
(***************************************************************************)
EXTENDS Naturals, FiniteSets

CONSTANTS Proc,      \* concurrent config writes and deletes
          Conn,      \* connections
          Given,     \* tokens operators supply
          Minted,    \* tokens rotateRoot mints
          User, Pass,
          Absent,    \* a field the request does not name
          Empty,     \* the empty string
          NoConfig, NoId, NoProc,
          Asked,     \* the requests operators make, any set of them
          MaxFaults  \* bound: failed calls and crashes in a behaviour

Config == [conn : Conn, token : Given \cup Minted \cup {Empty},
           user : User \cup {Empty}, pass : Pass \cup {Empty},
           id : Minted \cup {NoId}, rotate : BOOLEAN, disabled : BOOLEAN]
Request == [conn : Conn \cup {Absent}, token : Given \cup {Absent, Empty},
            user : User \cup {Absent, Empty}, pass : Pass \cup {Absent, Empty},
            rotate : BOOLEAN \cup {Absent}, disabled : BOOLEAN \cup {Absent}]

ASSUME NullAssumption ==
    /\ {Absent, Empty, NoId} \cap (Conn \cup Given \cup Minted \cup User \cup Pass) = {}
    /\ Given \cap Minted = {} /\ Absent # Empty
    /\ Absent \notin BOOLEAN /\ NoConfig \notin Config /\ NoProc \notin Proc
ASSUME AskedAssumption == Asked \subseteq Request
ASSUME BoundAssumption == MaxFaults \in Nat

VARIABLES
    proc,      \* per operation: where it is, its request, what it has read
    lock,      \* holder of configLock
    config,    \* stored configuration
    job,       \* the Rotation Manager has a job for this mount
    faults,    \* failed calls and crashes so far
    home,      \* history: connection the stored credential was supplied for,
               \* Absent once a create that crossed another write moved it
    adrift     \* history: a failure left job and configuration unmatched

vars == <<proc, lock, config, job, faults, home, adrift>>

NoRequest == [conn |-> Absent, token |-> Absent, user |-> Absent,
              pass |-> Absent, rotate |-> Absent, disabled |-> Absent]
Idle == [pc |-> "idle", req |-> NoRequest, op |-> "update",
         old |-> NoConfig, new |-> NoConfig]

TypeOK ==
    /\ proc \in [Proc -> [pc : {"idle", "asked", "read", "put", "job"},
                          req : Request, op : {"create", "update"},
                          old : Config \cup {NoConfig},
                          new : Config \cup {NoConfig}]]
    /\ lock \in Proc \cup {NoProc} /\ config \in Config \cup {NoConfig}
    /\ job \in BOOLEAN /\ faults \in 0..MaxFaults
    /\ home \in Conn \cup {Absent} /\ adrift \in BOOLEAN

Init ==
    /\ proc = [p \in Proc |-> Idle] /\ lock = NoProc /\ config = NoConfig
    /\ job = FALSE /\ faults = 0
    /\ home = Absent /\ adrift = FALSE

Fault == faults < MaxFaults /\ faults' = faults + 1

Return(p) == proc' = [proc EXCEPT ![p] = Idle] /\ lock' = NoProc

(***************************************************************************)
(* pathConfigWrite: what a request makes of the stored configuration.      *)
(***************************************************************************)
Supplied(x) == x \notin {Absent, Empty}
HasBearer(f) == Supplied(f.token)
HasBasic(f) == Supplied(f.user) \/ Supplied(f.pass)
CredSupplied(f) == HasBearer(f) \/ Supplied(f.pass)

\* A field the request names, else what is stored.
Pick(x, y) == IF x = Absent THEN y ELSE x

ConnectionChanged(old, f) ==
    old # NoConfig /\ Pick(f.conn, old.conn) # old.conn

Before(old) ==
    IF old # NoConfig THEN old
    ELSE [conn |-> Absent, token |-> Empty, user |-> Empty, pass |-> Empty,
          id |-> NoId, rotate |-> FALSE, disabled |-> FALSE]

\* Mutant: a supplied token keeps the id of the stored one.
Merge_keepsid(old, f) ==
    LET b == Before(old) IN
    [conn |-> Pick(f.conn, b.conn),
     token |-> IF HasBasic(f) THEN Empty ELSE Pick(f.token, b.token),
     user |-> Pick(f.user, IF HasBearer(f) THEN Empty ELSE b.user),
     pass |-> Pick(f.pass, IF HasBearer(f) THEN Empty ELSE b.pass),
     id |-> IF HasBasic(f) \/ ConnectionChanged(old, f) THEN NoId ELSE b.id,
     rotate |-> Pick(f.rotate, b.rotate),
     disabled |-> Pick(f.disabled, b.disabled)]

\* A token clears the basic credential and the id, a username or password
\* clears the token and the id, a new connection clears the id.
Merge(old, f) ==
    LET b == Before(old) IN
    [conn |-> Pick(f.conn, b.conn),
     token |-> IF HasBasic(f) THEN Empty ELSE Pick(f.token, b.token),
     user |-> Pick(f.user, IF HasBearer(f) THEN Empty ELSE b.user),
     pass |-> Pick(f.pass, IF HasBearer(f) THEN Empty ELSE b.pass),
     id |-> IF f.token # Absent \/ HasBasic(f) \/ ConnectionChanged(old, f)
            THEN NoId ELSE b.id,
     rotate |-> Pick(f.rotate, b.rotate),
     disabled |-> Pick(f.disabled, b.disabled)]

\* A schedule or a period is set, and rotation is not disabled.
ShouldRegister(c) == c # NoConfig /\ c.rotate /\ ~c.disabled

Basic(c) == c.user # Empty \/ c.pass # Empty

\* Mutant: half a basic credential is enough.
OneScheme_half(c) == (c.token # Empty) # Basic(c)

\* Exactly one auth scheme, and a complete one.
OneScheme(c) ==
    /\ (c.token # Empty) # Basic(c)
    /\ Basic(c) => c.user # Empty /\ c.pass # Empty

\* Mutant: a new connection may keep the stored credential.
Accepted_nocred(old, f, op) ==
    LET c == Merge(old, f) IN
    /\ op = "create" => f.conn # Absent
    /\ ~(HasBearer(f) /\ HasBasic(f))
    /\ OneScheme(c)
    /\ ShouldRegister(c) => c.token # Empty

\* Mutant: a create without an address goes through.
Accepted_noaddress(old, f, op) ==
    LET c == Merge(old, f) IN
    /\ old = NoConfig => op = "create"
    /\ ~(HasBearer(f) /\ HasBasic(f))
    /\ OneScheme(c)
    /\ op = "update" /\ ~CredSupplied(f) => ~ConnectionChanged(old, f)
    /\ ShouldRegister(c) => c.token # Empty

\* The checks of pathConfigWrite, in their order.
Accepted(old, f, op) ==
    LET c == Merge(old, f) IN
    /\ old = NoConfig => op = "create"
    /\ op = "create" => f.conn # Absent
    /\ ~(HasBearer(f) /\ HasBasic(f))
    /\ OneScheme(c)
    /\ op = "update" /\ ~CredSupplied(f) => ~ConnectionChanged(old, f)
    /\ ShouldRegister(c) => c.token # Empty

(***************************************************************************)
(* Operations.                                                             *)
(***************************************************************************)
\* Vault asks for existence, to tell a create from an update, before the
\* handler takes configLock.
Ask(p, f) ==
    /\ proc[p].pc = "idle"
    /\ proc' = [proc EXCEPT ![p] = [@ EXCEPT !.pc = "asked", !.req = f,
                  !.op = IF config = NoConfig THEN "create" ELSE "update"]]
    /\ UNCHANGED <<lock, config, job, faults, home, adrift>>

Lock(p) ==
    /\ proc[p].pc = "asked" /\ lock = NoProc /\ lock' = p
    /\ proc' = [proc EXCEPT ![p].pc = "read", ![p].old = config]
    /\ UNCHANGED <<config, job, faults, home, adrift>>

\* A check fails, or AAP does not accept the connection.
Reject(p) ==
    /\ proc[p].pc = "read" /\ Return(p)
    /\ UNCHANGED <<config, job, faults, home, adrift>>

Verify(p) ==
    /\ proc[p].pc = "read"
    /\ Accepted(proc[p].old, proc[p].req, proc[p].op)
    /\ proc' = [proc EXCEPT ![p].pc = "put",
                            ![p].new = Merge(proc[p].old, proc[p].req)]
    /\ UNCHANGED <<lock, config, job, faults, home, adrift>>

Stored(p) ==
    /\ config' = proc[p].new
    /\ home' = IF CredSupplied(proc[p].req) THEN proc[p].new.conn
               ELSE IF /\ proc[p].op = "create"
                       /\ ConnectionChanged(proc[p].old, proc[p].req)
                    THEN Absent
               ELSE home

\* Put and reset; what follows is the rotation job.
Put(p) ==
    /\ proc[p].pc = "put" /\ Stored(p)
    /\ proc' = [proc EXCEPT ![p].pc = "job"]
    /\ UNCHANGED <<lock, job, faults, adrift>>

\* The Put returns an error, applied or not: the job is not looked at.
PutFails(p) ==
    /\ proc[p].pc = "put" /\ Fault /\ Return(p)
    /\ \/ UNCHANGED <<config, home, adrift>>
       \/ Stored(p) /\ adrift' = TRUE
    /\ UNCHANGED <<job>>

\* A call to the Rotation Manager: it sets the job, or fails and the write
\* only warns.  A success is for the stored configuration.
Manage(p, to) ==
    /\ \/ job' = to /\ adrift' = FALSE /\ UNCHANGED faults
       \/ Fault /\ job' \in {job, to} /\ adrift' = TRUE

\* Mutant: clearing the schedule leaves its job.
RotationJob_kept(p) ==
    LET c == proc[p].new
        off == c # NoConfig /\ c.disabled
    IN
    /\ proc[p].pc = "job" /\ Return(p)
    /\ \/ ShouldRegister(c) /\ Manage(p, TRUE)
       \/ ~ShouldRegister(c) /\ off /\ Manage(p, FALSE)
       \/ ~ShouldRegister(c) /\ ~off
            /\ UNCHANGED <<job, faults, adrift>>
    /\ UNCHANGED <<config, home>>

\* handleConfigRotationJob, and the end of pathConfigDelete (new = NoConfig).
RotationJob(p) ==
    LET c == proc[p].new
        off == \/ c # NoConfig /\ c.disabled
               \/ ShouldRegister(proc[p].old)
    IN
    /\ proc[p].pc = "job" /\ Return(p)
    /\ \/ ShouldRegister(c) /\ Manage(p, TRUE)
       \/ ~ShouldRegister(c) /\ off /\ Manage(p, FALSE)
       \/ ~ShouldRegister(c) /\ ~off
            /\ UNCHANGED <<job, faults, adrift>>
    /\ UNCHANGED <<config, home>>

\* pathConfigDelete takes no request; Delete may fail, applied or not.
Delete(p) ==
    /\ proc[p].pc = "read" /\ config' = NoConfig /\ home' = Absent
    /\ proc' = [proc EXCEPT ![p].pc = "job"]
    /\ UNCHANGED <<lock, job, faults, adrift>>

DeleteFails(p) ==
    /\ proc[p].pc = "read" /\ Fault /\ Return(p)
    /\ config' = NoConfig /\ home' = Absent /\ adrift' = TRUE
    /\ UNCHANGED <<job>>

\* rotateRoot, under configLock: a minted token and its id, all else kept.
Rotate(t) ==
    /\ lock = NoProc /\ config # NoConfig /\ config.token \notin {Empty, t}
    /\ config' = [config EXCEPT !.token = t, !.id = t]
    /\ UNCHANGED <<proc, lock, job, faults, home, adrift>>

\* Vault or the plugin stops: a job step that was due is never taken.
Crash ==
    /\ Fault /\ proc' = [p \in Proc |-> Idle] /\ lock' = NoProc
    /\ adrift' = (adrift \/ \E p \in Proc : proc[p].pc = "job")
    /\ UNCHANGED <<config, job, home>>

Step(p) == \/ Lock(p) \/ Reject(p) \/ Verify(p) \/ Put(p) \/ PutFails(p)
           \/ RotationJob(p) \/ Delete(p) \/ DeleteFails(p)

Next == \/ \E p \in Proc : Step(p) \/ \E f \in Asked : Ask(p, f)
        \/ \E t \in Minted : Rotate(t)
        \/ Crash

Spec == Init /\ [][Next]_vars

-----------------------------------------------------------------------------
(***************************************************************************)
(* Properties.                                                             *)
(***************************************************************************)
\* Whatever partial writes and rotations follow each other, the stored
\* configuration authenticates in exactly one way, and is one the Rotation
\* Manager can rotate if it is to be rotated.
Consistent ==
    config # NoConfig =>
       /\ (config.token # Empty) # (config.user # Empty \/ config.pass # Empty)
       /\ (config.user = Empty) = (config.pass = Empty)
       /\ config.rotate /\ ~config.disabled => config.token # Empty

\* TokenID is the id of the stored token or 0, so that the next rotation
\* revokes the token it replaces and no other.
IdOfToken == config # NoConfig => config.id \in {NoId, config.token}

\* The rotation job follows the configuration whenever configLock is free,
\* unless a failed call or a crash since the last successful one to the
\* Rotation Manager has left the two unmatched.
JobFollows ==
    lock = NoProc /\ ~adrift =>
      (job <=> config # NoConfig /\ config.rotate /\ ~config.disabled)

\* A stored credential gets another connection only by a create that crossed
\* the write it overtook: updates and rotations keep it where it belongs.
MovesByCrossedCreate == config # NoConfig => home \in {config.conn, Absent}

\* A credential stays with the connection it was supplied for: "a credential
\* (token or password) is required when changing AAP connection or TLS trust
\* settings".
CredentialStays == config # NoConfig => config.conn = home
=============================================================================
