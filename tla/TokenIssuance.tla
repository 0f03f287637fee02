--------------------------- MODULE TokenIssuance ---------------------------
(***************************************************************************)
(* The life of a credential the engine mints: creds/<role> mints a token   *)
(* in AAP, writes a WAL entry, verifies the token, drops the entry and     *)
(* returns a leased secret; Vault's rollback manager retries WAL entries   *)
(* and Vault's expiration manager revokes leases, both through             *)
(* revokeToken.  Meanwhile operators rewrite the configuration, AAP        *)
(* administrators revoke credentials, calls fail and Vault crashes.        *)
(*                                                                         *)
(* A token is a pair <<endpoint, id>>: ids are only unique in one AAP.  A  *)
(* connection is a pair <<endpoint, key>>: the address of the stored       *)
(* configuration and its privileged credential.                            *)
(***************************************************************************)
EXTENDS Naturals, FiniteSets

CONSTANTS Request,      \* concurrent creds/ reads
          Endpoint,     \* AAP instances a configuration can point at
          Id,           \* token ids of one AAP instance
          Key,          \* privileged credentials of the engine
          User,         \* AAP users
          EngineUser,   \* the user behind the privileged credentials
          App,          \* OAuth2 applications
          Policies,     \* what the roles ask of a token
          NoConn, NoToken, None,
          MaxFaults,    \* bound: failed calls and crashes in a behaviour
          SlowRequests  \* TRUE: a request may outlive walRollbackMinAge

Token == Endpoint \X Id
Conn == Endpoint \X Key
Kind == {"wal", "lease"}
Policy == [username : User \cup {None}, bootstrap : User \cup {None},
           application : App \cup {None}]

\* pathRoleWrite refuses a username without a bootstrap_token.
ASSUME PoliciesAssumption ==
    /\ Policies \subseteq Policy
    /\ \A p \in Policies : p.username # None => p.bootstrap # None
ASSUME UserAssumption == EngineUser \in User /\ None \notin User \cup App
ASSUME NullAssumption == NoConn \notin Conn /\ NoToken \notin Token
ASSUME BoundAssumption == MaxFaults \in Nat /\ SlowRequests \in BOOLEAN

VARIABLES
    req,        \* per request: where it is, its role, its config, its token
    born,       \* token ids AAP has handed out or reserved
    live,       \* tokens that exist in AAP
    late,       \* tokens of an abandoned POST that AAP has yet to commit
    owner,      \* user AAP made the owner of each token
    bound,      \* application AAP bound each token to
    valid,      \* connections whose credential AAP accepts
    config,     \* stored configuration
    client,     \* configuration of the cached client
    resetting,  \* a config writer is between its Put and its reset
    wal,        \* WAL entries: the token's revocation snapshot
    lease,      \* durable leases: the token's revocation snapshot
    job,        \* the revokeToken call running for each record
    faults,     \* failed calls and crashes so far
    lost        \* history: the step that left a token without a record

aapVars == <<born, live, late, owner, bound, valid>>
configVars == <<config, client, resetting>>
vars == <<req, aapVars, configVars, wal, lease, job, faults, lost>>

AnyPolicy == [username |-> None, bootstrap |-> None, application |-> None]
Idle == [pc |-> "idle", policy |-> AnyPolicy, conn |-> NoConn, tok |-> NoToken]
NoJob == [stage |-> "none", conn |-> NoConn]

\* Where a request is, what it holds, a revokeToken call, and why no record
\* covers a token.
Pc == {"idle", "mint", "sweep", "minted", "app", "owner", "commit", "respond",
       "undo", "unwal", "besteffort"}
ReqType == [pc : Pc, policy : Policies \cup {AnyPolicy},
            conn : Conn \cup {NoConn}, tok : Token \cup {NoToken}]
JobType == [stage : {"none", "fallback", "done"}, conn : {NoConn}]
             \cup [stage : {"delete"}, conn : Conn]
Loss == {"no", "late_post", "sweep", "unread", "no_wal", "crash",
         "unregistered", "wrong_endpoint"}

TypeOK ==
    /\ req \in [Request -> ReqType]
    /\ born \subseteq Token /\ live \subseteq Token /\ late \subseteq Token
    /\ owner \in [Token -> User \cup {None}]
    /\ bound \in [Token -> App \cup {None}]
    /\ valid \subseteq Conn
    /\ config \in Conn \cup {NoConn} /\ client \in Conn \cup {NoConn}
    /\ resetting \in BOOLEAN
    /\ wal \in [Token -> Conn \cup {NoConn}]
    /\ lease \in [Token -> Conn \cup {NoConn}]
    /\ job \in [Kind -> [Token -> JobType]]
    /\ faults \in 0..MaxFaults
    /\ lost \in [Token -> Loss]

Init ==
    /\ req = [r \in Request |-> Idle]
    /\ born = {} /\ live = {} /\ late = {}
    /\ owner = [t \in Token |-> None] /\ bound = [t \in Token |-> None]
    /\ valid = Conn
    /\ config = NoConn /\ client = NoConn /\ resetting = FALSE
    /\ wal = [t \in Token |-> NoConn] /\ lease = [t \in Token |-> NoConn]
    /\ job = [k \in Kind |-> [t \in Token |-> NoJob]]
    /\ faults = 0
    /\ lost = [t \in Token |-> "no"]

(***************************************************************************)
(* AAP as the client sees it.                                              *)
(***************************************************************************)
Fault == faults < MaxFaults /\ faults' = faults + 1

\* DELETE of t's id at c's endpoint, which need not be t's own endpoint.
Without(c, t) == live \ {<<c[1], t[2]>>}

\* RevokeToken returns nil: 2xx, or 404 when the id does not exist there.
DeleteOk(c, t) == c \in valid /\ live' = Without(c, t) /\ UNCHANGED faults

\* RevokeToken returns an error: the credential is refused, or the call
\* fails before or after AAP applied it.
DeleteErr(c, t) ==
    \/ c \notin valid /\ UNCHANGED <<live, faults>>
    \/ c \in valid /\ Fault /\ live' \in {live, Without(c, t)}

\* The POST is made with the role's bootstrap token when it has one.
MintAuthorized(r) == req[r].policy.bootstrap # None \/ req[r].conn \in valid
MintOwner(p) == IF p.bootstrap # None THEN p.bootstrap ELSE EngineUser

\* AAP creates token t for request r; it may ignore the application.
Create(r, t) ==
    /\ t \notin born /\ t[1] = req[r].conn[1]
    /\ born' = born \cup {t}
    /\ owner' = [owner EXCEPT ![t] = MintOwner(req[r].policy)]
    /\ \E a \in {req[r].policy.application, None} :
         bound' = [bound EXCEPT ![t] = a]

\* Moves of a request: to a point with a token, to another point, to the end.
Hold(r, pc, t) ==
    req' = [req EXCEPT ![r] = [pc |-> pc, policy |-> req[r].policy,
                               conn |-> req[r].conn, tok |-> t]]
Goto(r, pc) == Hold(r, pc, req[r].tok)
Finish(r) == req' = [req EXCEPT ![r] = Idle]

\* The first step that leaves a token of T without a record is remembered.
Lose(T, why) ==
    lost' = [t \in Token |->
               IF t \in T /\ lost[t] = "no" THEN why ELSE lost[t]]

(***************************************************************************)
(* creds/<role>: createToken.                                              *)
(***************************************************************************)
\* The role and the configuration are read once, at the start.
Start(r, p) ==
    /\ req[r].pc = "idle" /\ config # NoConn
    /\ req' = [req EXCEPT ![r] = [pc |-> "mint", policy |-> p,
                                  conn |-> config, tok |-> NoToken]]
    /\ UNCHANGED <<aapVars, configVars, wal, lease, job, faults, lost>>

\* A name does not resolve, or AAP refuses the POST: nothing was minted.
Refuse(r) ==
    /\ req[r].pc = "mint" /\ Finish(r)
    /\ UNCHANGED <<aapVars, configVars, wal, lease, job, faults, lost>>

MintAnswered(r, t) ==
    /\ req[r].pc = "mint" /\ MintAuthorized(r) /\ Create(r, t)
    /\ live' = live \cup {t}
    /\ Hold(r, "minted", t)
    /\ UNCHANGED <<late, valid, configVars, wal, lease, job, faults, lost>>

\* AAP commits, but answers with an error status or a body that does not
\* decode: no sweep follows these returns.
MintUnread(r, t) ==
    /\ req[r].pc = "mint" /\ MintAuthorized(r) /\ Fault /\ Create(r, t)
    /\ live' = live \cup {t}
    /\ Finish(r) /\ Lose({t}, "unread")
    /\ UNCHANGED <<late, valid, configVars, wal, lease, job>>

\* Mutant: an ambiguous create failure is returned without a sweep.
MintLost_unswept(r, t) ==
    /\ req[r].pc = "mint" /\ MintAuthorized(r) /\ Fault /\ Create(r, t)
    /\ \/ live' = live \cup {t} /\ UNCHANGED late
       \/ late' = late \cup {t} /\ UNCHANGED live
    /\ Finish(r) /\ Lose({t}, "sweep")
    /\ UNCHANGED <<valid, configVars, wal, lease, job>>

\* The POST ends in a transport error after AAP committed it, or before:
\* then AAP may still be working on it.
MintLost(r, t) ==
    /\ req[r].pc = "mint" /\ MintAuthorized(r) /\ Fault /\ Create(r, t)
    /\ \/ live' = live \cup {t} /\ UNCHANGED late
       \/ late' = late \cup {t} /\ UNCHANGED live
    /\ Hold(r, "sweep", t)
    /\ UNCHANGED <<valid, configVars, wal, lease, job, lost>>

\* AAP commits a POST its client has stopped waiting for.
LateCommit(t) ==
    /\ t \in late /\ late' = late \ {t} /\ live' = live \cup {t}
    /\ UNCHANGED <<req, born, owner, bound, valid, configVars, wal, lease,
                   job, faults, lost>>

\* revokeTokensByDescription with the minting client: the marker is unique,
\* so the list holds this token when AAP has committed it, else nothing.
Sweep(r) ==
    LET t == req[r].tok IN
    /\ req[r].pc = "sweep" /\ MintAuthorized(r)
    /\ live' = live \ {t}
    /\ Lose({t} \cap late, "late_post")
    /\ Finish(r)
    /\ UNCHANGED <<born, late, owner, bound, valid, configVars, wal, lease,
                   job, faults>>

SweepFails(r) ==
    LET t == req[r].tok IN
    /\ req[r].pc = "sweep"
    /\ \/ ~MintAuthorized(r) /\ UNCHANGED <<live, faults>>
       \/ MintAuthorized(r) /\ Fault /\ live' \in {live, live \ {t}}
    /\ Lose({t}, IF t \in late THEN "late_post" ELSE "sweep")
    /\ Finish(r)
    /\ UNCHANGED <<born, late, owner, bound, valid, configVars, wal, lease, job>>

\* Mutant: the guards run before the entry is written, the entry is forgotten.
PutWal_late(r) ==
    /\ req[r].pc = "minted" /\ Goto(r, "app")
    /\ UNCHANGED <<aapVars, configVars, wal, lease, job, faults, lost>>

PutWal(r) ==
    /\ req[r].pc = "minted"
    /\ wal' = [wal EXCEPT ![req[r].tok] = req[r].conn]
    /\ Goto(r, "app")
    /\ UNCHANGED <<aapVars, configVars, lease, job, faults, lost>>

\* PutWAL returns an error; the entry may be in storage all the same.
PutWalFails(r) ==
    /\ req[r].pc = "minted" /\ Fault
    /\ wal' \in {wal, [wal EXCEPT ![req[r].tok] = req[r].conn]}
    /\ Goto(r, "besteffort")
    /\ UNCHANGED <<aapVars, configVars, lease, job, lost>>

\* The guards read the token back with the engine's own credential.
Readable(r) == req[r].conn \in valid /\ req[r].tok \in live

\* One guard: `want' is what the role asks for, `got' what AAP recorded.
Guard(r, want, got, next) ==
    \/ /\ want = None \/ (Readable(r) /\ got = want)
       /\ Goto(r, next) /\ UNCHANGED faults
    \/ /\ want # None /\ ~(Readable(r) /\ got = want)
       /\ Goto(r, "undo") /\ UNCHANGED faults
    \/ want # None /\ Fault /\ Goto(r, "undo")

CheckApplication(r) ==
    /\ req[r].pc = "app"
    /\ Guard(r, req[r].policy.application, bound[req[r].tok], "owner")
    /\ UNCHANGED <<aapVars, configVars, wal, lease, job, lost>>

\* Mutant: the owner is only checked when there is no bootstrap token.
CheckOwner_skipped(r) ==
    /\ req[r].pc = "owner"
    /\ Guard(r, IF req[r].policy.bootstrap = None THEN req[r].policy.username
                ELSE None, owner[req[r].tok], "commit")
    /\ UNCHANGED <<aapVars, configVars, wal, lease, job, lost>>

CheckOwner(r) ==
    /\ req[r].pc = "owner"
    /\ Guard(r, req[r].policy.username, owner[req[r].tok], "commit")
    /\ UNCHANGED <<aapVars, configVars, wal, lease, job, lost>>

(***************************************************************************)
(* creds/<role>: createCreds, and the undo of a refused or canceled token. *)
(***************************************************************************)
\* ctx.Err(): the caller is gone, the token is revoked as after a guard.
Cancel(r) ==
    /\ req[r].pc = "commit" /\ Goto(r, "undo")
    /\ UNCHANGED <<aapVars, configVars, wal, lease, job, faults, lost>>

UndoRevoke(r) ==
    /\ req[r].pc = "undo" /\ DeleteOk(req[r].conn, req[r].tok)
    /\ Goto(r, "unwal")
    /\ UNCHANGED <<born, late, owner, bound, valid, configVars, wal, lease,
                   job, lost>>

\* Mutant: the entry is deleted even though the revoke failed.
UndoRevokeFails_unwal(r) ==
    /\ req[r].pc = "undo" /\ DeleteErr(req[r].conn, req[r].tok)
    /\ wal' = [wal EXCEPT ![req[r].tok] = NoConn]
    /\ Finish(r)
    /\ UNCHANGED <<born, late, owner, bound, valid, configVars, lease, job, lost>>

\* The entry is retained: rollback will retry.
UndoRevokeFails(r) ==
    /\ req[r].pc = "undo" /\ DeleteErr(req[r].conn, req[r].tok)
    /\ Finish(r)
    /\ UNCHANGED <<born, late, owner, bound, valid, configVars, wal, lease,
                   job, lost>>

UndoDeleteWal(r) ==
    /\ req[r].pc = "unwal"
    /\ \/ wal' = [wal EXCEPT ![req[r].tok] = NoConn] /\ UNCHANGED faults
       \/ Fault /\ UNCHANGED wal
    /\ Finish(r)
    /\ UNCHANGED <<aapVars, configVars, lease, job, lost>>

\* Mutant: the entry outlives the response.
DropWal_kept(r) ==
    /\ req[r].pc = "commit" /\ Goto(r, "respond")
    /\ UNCHANGED <<aapVars, configVars, wal, lease, job, faults, lost>>

\* The WAL entry goes before the response does.
DropWal(r) ==
    /\ req[r].pc = "commit"
    /\ wal' = [wal EXCEPT ![req[r].tok] = NoConn]
    /\ Goto(r, "respond")
    /\ UNCHANGED <<aapVars, configVars, lease, job, faults, lost>>

DropWalFails(r) ==
    /\ req[r].pc = "commit" /\ Fault
    /\ wal' \in {wal, [wal EXCEPT ![req[r].tok] = NoConn]}
    /\ Goto(r, "besteffort")
    /\ UNCHANGED <<aapVars, configVars, lease, job, lost>>

\* Mutant: no return after revokeBestEffort, the response still leaves.
BestEffort_continues(r) ==
    LET t == req[r].tok IN
    /\ req[r].pc = "besteffort"
    /\ DeleteOk(req[r].conn, t) \/ DeleteErr(req[r].conn, t)
    /\ Goto(r, "respond")
    /\ UNCHANGED <<born, late, owner, bound, valid, configVars, wal, lease,
                   job, lost>>

\* revokeBestEffort ignores the error; without a WAL entry nothing retries.
BestEffort(r) ==
    LET t == req[r].tok IN
    /\ req[r].pc = "besteffort"
    /\ DeleteOk(req[r].conn, t) \/ DeleteErr(req[r].conn, t)
    /\ Lose(IF wal[t] = NoConn THEN {t} \cap live' ELSE {}, "no_wal")
    /\ Finish(r)
    /\ UNCHANGED <<born, late, owner, bound, valid, configVars, wal, lease, job>>

\* Vault stores the lease of the response it was handed.
RegisterLease(r) ==
    /\ req[r].pc = "respond"
    /\ lease' = [lease EXCEPT ![req[r].tok] = req[r].conn]
    /\ Finish(r)
    /\ UNCHANGED <<aapVars, configVars, wal, job, faults, lost>>

(***************************************************************************)
(* revokeToken, called by walRollback for a WAL entry (k = "wal") and by   *)
(* tokenRevoke for a lease (k = "lease"), and the manager that called it.  *)
(***************************************************************************)
Record(k, t) == IF k = "wal" THEN wal[t] ELSE lease[t]
SetJob(k, t, stage, c) ==
    job' = [job EXCEPT ![k][t] = [stage |-> stage, conn |-> c]]

\* The rollback manager leaves entries younger than walRollbackMinAge alone.
Eligible(k, t) ==
    /\ Record(k, t) # NoConn /\ job[k][t].stage = "none"
    /\ k = "wal" => SlowRequests \/ \A r \in Request : req[r].tok # t

SnapshotRevoke(k, t) ==
    /\ Eligible(k, t) /\ DeleteOk(Record(k, t), t)
    /\ SetJob(k, t, "done", NoConn)
    /\ UNCHANGED <<req, born, late, owner, bound, valid, configVars, wal,
                   lease, lost>>

\* Mutant: the error is returned, there is no fallback.
SnapshotRevokeFails_nofallback(k, t) ==
    /\ Eligible(k, t) /\ DeleteErr(Record(k, t), t)
    /\ UNCHANGED <<req, born, late, owner, bound, valid, configVars, wal,
                   lease, job, lost>>

SnapshotRevokeFails(k, t) ==
    /\ Eligible(k, t) /\ DeleteErr(Record(k, t), t)
    /\ SetJob(k, t, "fallback", NoConn)
    /\ UNCHANGED <<req, born, late, owner, bound, valid, configVars, wal,
                   lease, lost>>

\* Mutant: a missing configuration is not an error.
GetClient_nocheck(k, t) ==
    /\ job[k][t].stage = "fallback"
    /\ client' = IF client # NoConn THEN client ELSE config
    /\ SetJob(k, t, "delete", client')
    /\ UNCHANGED <<req, aapVars, config, resetting, wal, lease, faults, lost>>

\* getClient: the cached client, else one built from the stored config.
GetClient(k, t) ==
    /\ job[k][t].stage = "fallback"
    /\ client' = IF client # NoConn THEN client ELSE config
    /\ IF client' # NoConn THEN SetJob(k, t, "delete", client')
                           ELSE SetJob(k, t, "none", NoConn)
    /\ UNCHANGED <<req, aapVars, config, resetting, wal, lease, faults, lost>>

FallbackRevoke(k, t) ==
    LET c == job[k][t].conn IN
    /\ job[k][t].stage = "delete" /\ DeleteOk(c, t)
    /\ SetJob(k, t, "done", NoConn)
    /\ Lose({t} \cap live', "wrong_endpoint")
    /\ UNCHANGED <<req, born, late, owner, bound, valid, configVars, wal, lease>>

\* Mutant: the fallback's error is dropped.
FallbackRevokeFails_nil(k, t) ==
    /\ job[k][t].stage = "delete" /\ DeleteErr(job[k][t].conn, t)
    /\ SetJob(k, t, "done", NoConn)
    /\ UNCHANGED <<req, born, late, owner, bound, valid, configVars, wal,
                   lease, lost>>

\* The manager keeps the record and calls again later.
FallbackRevokeFails(k, t) ==
    /\ job[k][t].stage = "delete" /\ DeleteErr(job[k][t].conn, t)
    /\ SetJob(k, t, "none", NoConn)
    /\ UNCHANGED <<req, born, late, owner, bound, valid, configVars, wal,
                   lease, lost>>

\* revokeToken returned nil: the manager deletes the record, or fails to.
Acknowledge(k, t) ==
    /\ job[k][t].stage = "done" /\ SetJob(k, t, "none", NoConn)
    /\ \/ /\ wal' = IF k = "wal" THEN [wal EXCEPT ![t] = NoConn] ELSE wal
          /\ lease' = IF k = "lease" THEN [lease EXCEPT ![t] = NoConn] ELSE lease
          /\ UNCHANGED faults
       \/ Fault /\ UNCHANGED <<wal, lease>>
    /\ UNCHANGED <<req, aapVars, configVars, lost>>

(***************************************************************************)
(* The environment: operators, AAP administrators, crashes.                *)
(***************************************************************************)
\* A writer stores the configuration and then resets the cache; when its Put
\* or Delete is applied but returns an error, it returns without the reset.
Store(c) ==
    /\ ~resetting /\ config' = c
    /\ (resetting' = TRUE /\ UNCHANGED faults) \/ (Fault /\ UNCHANGED resetting)
    /\ UNCHANGED <<req, aapVars, client, wal, lease, job, lost>>

\* config write or rotate-root: only a verified connection is stored.
WriteConfig(c) == c \in valid /\ Store(c)

DeleteConfig == Store(NoConn)

Reset ==
    /\ resetting /\ client' = NoConn /\ resetting' = FALSE
    /\ UNCHANGED <<req, aapVars, config, wal, lease, job, faults, lost>>

\* A credential dies: rotated away by rotate-root, or revoked in AAP.
RevokeCredential(c) ==
    /\ c \in valid /\ valid' = valid \ {c}
    /\ UNCHANGED <<req, born, live, late, owner, bound, configVars, wal,
                   lease, job, faults, lost>>

HeldAt(t, pcs) == \E r \in Request : req[r].tok = t /\ req[r].pc \in pcs

\* Vault stops: requests, calls and the cache are gone, storage stays.
Crash ==
    /\ Fault
    /\ req' = [r \in Request |-> Idle]
    /\ job' = [k \in Kind |-> [t \in Token |-> NoJob]]
    /\ client' = NoConn /\ resetting' = FALSE
    /\ lost' = [t \in Token |->
         IF lost[t] # "no" \/ t \notin live \cup late \/ wal[t] # NoConn
         THEN lost[t]
         ELSE IF HeldAt(t, {"respond"}) THEN "unregistered"
         ELSE IF HeldAt(t, {"minted", "sweep", "besteffort"}) THEN "crash"
         ELSE "no"]
    /\ UNCHANGED <<aapVars, config, wal, lease>>

RequestStep(r) ==
    \/ Refuse(r)
    \/ \E t \in Token : MintAnswered(r, t) \/ MintUnread(r, t) \/ MintLost(r, t)
    \/ Sweep(r) \/ SweepFails(r)
    \/ PutWal(r) \/ PutWalFails(r)
    \/ CheckApplication(r) \/ CheckOwner(r)
    \/ Cancel(r) \/ UndoRevoke(r) \/ UndoRevokeFails(r) \/ UndoDeleteWal(r)
    \/ DropWal(r) \/ DropWalFails(r) \/ BestEffort(r) \/ RegisterLease(r)

JobStep(k, t) ==
    \/ SnapshotRevoke(k, t) \/ SnapshotRevokeFails(k, t)
    \/ GetClient(k, t)
    \/ FallbackRevoke(k, t) \/ FallbackRevokeFails(k, t)
    \/ Acknowledge(k, t)

Next ==
    \/ \E r \in Request : RequestStep(r) \/ \E p \in Policies : Start(r, p)
    \/ \E t \in Token : LateCommit(t) \/ \E k \in Kind : JobStep(k, t)
    \/ \E c \in Conn : WriteConfig(c) \/ RevokeCredential(c)
    \/ DeleteConfig \/ Reset \/ Crash

Spec == Init /\ [][Next]_vars

\* Every call a request makes has a timeout, so a request ends; the rollback
\* manager keeps visiting every WAL entry.  Nothing forces leases to end.
Fairness ==
    /\ \A r \in Request : WF_vars(RequestStep(r))
    /\ \A t \in Token : WF_vars(JobStep("wal", t))

FairSpec == Spec /\ Fairness

-----------------------------------------------------------------------------
(***************************************************************************)
(* Properties.                                                             *)
(***************************************************************************)
Holds(r, t) == req[r].tok = t
Held(t) == \E r \in Request : Holds(r, t)
Recorded(t) == wal[t] # NoConn \/ lease[t] # NoConn

\* No orphans, except through the steps that set `lost': a token that exists
\* in AAP is in the hands of a running request, or a WAL entry or a lease
\* will have it revoked.
Accounted ==
    \A t \in live : Held(t) \/ Recorded(t) \/ lost[t] # "no"

\* From PutWAL to the DeleteWAL of createCreds, whatever the guards, a cancel
\* or a failed undo do, the WAL entry is there as long as the token is: only
\* before PutWAL and after DeleteWAL can a crash orphan it.
Protected ==
    \A r \in Request :
       req[r].pc \in {"app", "owner", "commit", "undo"} /\ req[r].tok \in live
         => wal[req[r].tok] # NoConn \/ lost[req[r].tok] # "no"

\* A token is never in a lease and in the WAL: a WAL entry that survived its
\* request would have rollback kill a token the caller still leases.
OneOwner == \A t \in Token : wal[t] = NoConn \/ lease[t] = NoConn

\* A token leaves for the caller only when AAP recorded for it the owner and
\* the application the role names.
GuardedResponse ==
    \A r \in Request : req[r].pc = "respond" =>
       /\ req[r].policy.username \in {None, owner[req[r].tok]}
       /\ req[r].policy.application \in {None, bound[req[r].tok]}

\* The token in a response exists: no error path, and no rollback younger
\* than walRollbackMinAge, revoked it on the way.
HandedOutLive ==
    \A r \in Request : req[r].pc = "respond" => req[r].tok \in live

\* Except for an answer lost in the POST itself and for a crash, losing a
\* token takes two failures: a failed call, and a second one or a credential
\* revoked under the request.
LosingTakesTwo ==
    (\E t \in Token : lost[t] \in {"no_wal", "sweep"})
      => faults + Cardinality(Conn \ valid) >= 2

\* revokeToken and the undo paths never drop a record of a token that exists:
\* a WAL entry goes when the token is gone or createCreds commits it, a lease
\* goes when the token is gone; else the fallback has asked another AAP.
DropSafe(t) ==
    /\ wal[t] # NoConn /\ wal'[t] = NoConn =>
         \/ t \notin live' \/ lost[t] = "wrong_endpoint"
         \/ \E r \in Request : Holds(r, t) /\ req[r].pc = "commit"
    /\ lease[t] # NoConn /\ lease'[t] = NoConn =>
         t \notin live' \/ lost[t] = "wrong_endpoint"
RecordsDropSafely == [][\A t \in Token : DropSafe(t)]_vars

\* The WAL entry of a finished request is resolved, or neither its snapshot
\* nor the client revokeToken falls back to can reach the token's AAP.
Reachable(t) ==
    \/ wal[t] \in valid
    \/ LET c == IF client = NoConn THEN config ELSE client IN
       c \in valid /\ c[1] = t[1]
RollbackResolves == \A t \in Token : []<>(wal[t] = NoConn \/ ~Reachable(t))

\* wal.go: "If a credentials request fails after minting but before the lease
\* is durably stored, walRollback revokes the token so it is not orphaned".
LeaseStoredOrRolledBack == \A t \in live : lost[t] # "unregistered"

\* README: the snapshot makes sure a token can be revoked after the operator
\* changes the configuration, so a lease ends only with its token.
LeaseEndsWithToken ==
    [][\A t \in Token :
         lease[t] # NoConn /\ lease'[t] = NoConn => t \notin live']_vars

-----------------------------------------------------------------------------
(***************************************************************************)
(* The inductive invariant behind Accounted, Protected and OneOwner.       *)
(***************************************************************************)
\* A request past its mint holds one token, minted where its client points,
\* that no other request holds.
Holding ==
    /\ \A r \in Request :
         /\ req[r].pc \in {"idle", "mint"} <=> req[r].tok = NoToken
         /\ req[r].pc # "idle" => req[r].conn \in Conn
         /\ req[r].tok # NoToken => /\ req[r].tok \in born
                                    /\ req[r].tok[1] = req[r].conn[1]
    /\ \A r, s \in Request :
         req[r].tok = req[s].tok /\ req[r].tok # NoToken => r = s

\* Only tokens AAP handed out have any state.
BornFirst ==
    /\ live \subseteq born /\ late \subseteq born
    /\ \A t \in Token : t \notin born =>
         /\ wal[t] = NoConn /\ lease[t] = NoConn
         /\ \A k \in Kind : job[k][t].stage = "none"

\* What a request has recorded so far; a lease comes after the request.
Phases ==
    \A r \in Request : req[r].tok # NoToken =>
       /\ lease[req[r].tok] = NoConn
       /\ req[r].pc \in {"minted", "sweep", "respond"} => wal[req[r].tok] = NoConn
       /\ req[r].pc = "unwal" => req[r].tok \notin live

\* A pending token has no record and no call; its request can only sweep.
LateAlone ==
    \A t \in late :
       /\ t \notin live /\ wal[t] = NoConn /\ lease[t] = NoConn
       /\ \A k \in Kind : job[k][t].stage = "none"
       /\ \A r \in Request : Holds(r, t) => req[r].pc = "sweep"
       /\ Held(t) \/ lost[t] # "no"

\* Snapshots point at the AAP that minted the token.
SnapshotMatches ==
    \A t \in Token : /\ wal[t] # NoConn => wal[t][1] = t[1]
                     /\ lease[t] # NoConn => lease[t][1] = t[1]

\* A revokeToken that returned nil left no token, or is known to have missed it.
DoneGone ==
    \A t \in Token, k \in Kind :
       job[k][t].stage = "done" => t \notin live \/ lost[t] # "no"

Inv ==
    /\ TypeOK /\ Holding /\ BornFirst /\ Phases /\ LateAlone
    /\ SnapshotMatches /\ DoneGone
    /\ Accounted /\ Protected /\ OneOwner

\* What the guards established stays true until the response leaves.
GuardsPassed ==
    \A r \in Request :
       /\ req[r].pc \in {"owner", "commit", "respond"} =>
            req[r].policy.application \in {None, bound[req[r].tok]}
       /\ req[r].pc \in {"commit", "respond"} =>
            req[r].policy.username \in {None, owner[req[r].tok]}

(***************************************************************************)
(* What RecordsDropSafely, LosingTakesTwo and HandedOutLive need beside.   *)
(***************************************************************************)
\* A token is lost once it is born, and but for the wrong AAP it is lost when
\* no request holds it and no record names it any more.
LostBare ==
    \A t \in Token :
       /\ t \notin born => lost[t] = "no"
       /\ lost[t] \notin {"no", "wrong_endpoint"} => ~Held(t) /\ ~Recorded(t)

\* revokeToken is called for a record: none runs for a lease that is not
\* there, or for a WAL entry not yet written.
JobsRecorded ==
    /\ \A t \in Token : lease[t] = NoConn => job["lease"][t].stage = "none"
    /\ \A r \in Request :
         req[r].pc = "minted" => job["wal"][req[r].tok].stage = "none"

\* As long as the record is there, nil means that the token is gone or that
\* another AAP was asked: a record never goes for any other loss.
RevokedOrMissed ==
    \A t \in Token, k \in Kind :
       job[k][t].stage = "done" /\ Record(k, t) # NoConn =>
         t \notin live \/ lost[t] = "wrong_endpoint"

DropInv == LostBare /\ JobsRecorded /\ RevokedOrMissed

\* A request about to sweep or to revoke at best effort has seen a failure.
FailuresCounted ==
    /\ IsFiniteSet(Conn \ valid)
    /\ \A r \in Request : req[r].pc \in {"sweep", "besteffort"} => faults >= 1

\* A request that ends within walRollbackMinAge has its token to itself ...
Untouched ==
    \A r \in Request : req[r].tok # NoToken =>
       \A k \in Kind : job[k][req[r].tok].stage = "none"

\* ... and with one AAP instance no other token's DELETE names its id, so it
\* lives from the mint to the lease.
SingleEndpoint == \A e, f \in Endpoint : e = f
Alive ==
    \A r \in Request :
       req[r].pc \in {"minted", "app", "owner", "commit", "respond"} =>
         req[r].tok \in live
=============================================================================
