----------------------------- MODULE RotateRoot -----------------------------
(***************************************************************************)
(* The privileged credential of the engine (path_rotate_root.go, and the   *)
(* config writes and deletes that replace it): rotateRoot mints a new      *)
(* token with the configured one, verifies it, stores it and revokes the   *)
(* previous one; all of them hold configLock.  A WAL entry for a previous  *)
(* token is retried by the rollback manager through revokeToken.           *)
(*                                                                         *)
(* A token is a pair of the AAP that made it and its id there; two AAPs    *)
(* number their tokens alike.  A configuration is the AAP it points at, a  *)
(* bearer token, and the id the engine knows it by: NoId is TokenID = 0;   *)
(* without a token (NoToken) it is one for basic auth.                     *)
(***************************************************************************)
EXTENDS Naturals, FiniteSets

CONSTANTS Proc,      \* concurrent config writes, deletes and rotations
          Endpoint,  \* AAPs a configuration may point at
          Id,        \* token ids
          Minted,    \* tokens rotateRoot mints
          Supplied,  \* tokens operators make in AAP and write to config
          Basic,     \* AAPs that take a user name and a password
          NoConfig, NoToken, NoId, NoProc,
          MaxFaults  \* bound: failed calls and crashes in a behaviour

Token == Minted \cup Supplied
Config == [at : Endpoint, token : Token, id : Id \cup {NoId}]
            \cup [at : Basic, token : {NoToken}, id : {NoId}]

ASSUME TokenAssumption ==
    /\ Id \subseteq Nat /\ Token \subseteq Endpoint \X Id
    /\ Minted \cap Supplied = {} /\ Basic \subseteq Endpoint
    /\ NoToken \notin Token /\ NoId \notin Id
ASSUME NullAssumption == NoConfig \notin Config /\ NoProc \notin Proc
ASSUME BoundAssumption == MaxFaults \in Nat

VARIABLES
    proc,      \* per operation: where it is, the config it read, its new token
    lock,      \* holder of configLock
    config,    \* stored configuration
    client,    \* configuration of the cached client
    born,      \* tokens rotateRoot has had minted
    live,      \* tokens AAP accepts
    wal,       \* WAL entries: the configuration that retries the revoke
    fallback,  \* rollbacks whose snapshot failed
    faults,    \* failed calls and crashes so far
    unacked,   \* history: tokens stored by a Put that returned an error
    struck,    \* history: tokens a DELETE meant for another one took away
    lost       \* history: the step that left an engine-minted token behind

vars == <<proc, lock, config, client, born, live, wal, fallback, faults,
          unacked, struck, lost>>

Idle == [pc |-> "idle", old |-> NoConfig, new |-> NoToken]

TypeOK ==
    /\ proc \in [Proc -> [pc : {"idle", "asked", "locked", "creating", "verify",
                                "put", "cleanup", "reset", "revoke", "wal",
                                "storereset"},
                          old : Config \cup {NoConfig},
                          new : Minted \cup {NoToken}]]
    /\ \A p \in Proc : proc[p].pc \in {"verify", "put", "cleanup", "reset"}
                         => proc[p].new \in Minted
    /\ lock \in Proc \cup {NoProc}
    /\ config \in Config \cup {NoConfig} /\ client \in Config \cup {NoConfig}
    /\ born \subseteq Minted /\ live \subseteq Token
    /\ wal \in [Minted -> Config \cup {NoConfig}]
    /\ fallback \subseteq Minted
    /\ faults \in 0..MaxFaults /\ unacked \subseteq Minted
    /\ struck \subseteq Token
    /\ lost \in [Minted -> {"no", "unread", "unacked", "cleanup", "retry",
                            "crash", "overwritten", "unnamed",
                            "wrong_endpoint"}]

Init ==
    /\ proc = [p \in Proc |-> Idle] /\ lock = NoProc
    /\ config = NoConfig /\ client = NoConfig
    /\ born = {} /\ live = Supplied
    /\ wal = [t \in Minted |-> NoConfig] /\ fallback = {}
    /\ faults = 0 /\ unacked = {} /\ struck = {}
    /\ lost = [t \in Minted |-> "no"]

Fault == faults < MaxFaults /\ faults' = faults + 1

\* The AAP that configuration c points at accepts its credential.
Accepts(c) ==
    IF c.token = NoToken THEN c.at \in Basic
    ELSE c.token \in live /\ c.token[1] = c.at

\* RevokeToken(id) with configuration c: nil, also when c's AAP has no such
\* token (404), or an error.
DeleteOk(c, id) ==
    Accepts(c) /\ live' = live \ {<<c.at, id>>} /\ UNCHANGED faults
DeleteErr(c, id) ==
    \/ ~Accepts(c) /\ UNCHANGED <<live, faults>>
    \/ Accepts(c) /\ Fault /\ live' \in {live, live \ {<<c.at, id>>}}

\* What a DELETE meant for token t took away beside it.
Strike(t) == struck' = struck \cup ((live \ live') \ {t})

Goto(p, at) ==
    proc' = [proc EXCEPT ![p] = [pc |-> at, old |-> proc[p].old, new |-> proc[p].new]]
Return(p) == proc' = [proc EXCEPT ![p] = Idle] /\ lock' = NoProc
Lose(T, why) ==
    lost' = [t \in Minted |-> IF t \in T /\ lost[t] = "no" THEN why ELSE lost[t]]

\* The connection of the configuration read, with the new token.
New(p) == [at |-> proc[p].old.at, token |-> proc[p].new, id |-> proc[p].new[2]]

\* The token TokenID names at the AAP of the configuration read.
Previous(p) == <<proc[p].old.at, proc[p].old.id>>

\* Operation p has yet to store, clean up, revoke or record token t.
Holds(p, t) ==
    \/ proc[p].pc \in {"verify", "put", "cleanup"} /\ proc[p].new = t
    \/ proc[p].pc \in {"reset", "revoke", "wal"} /\ proc[p].old.token = t

(***************************************************************************)
(* configLock and the configuration, read under it.                        *)
(***************************************************************************)
\* Vault's existence check makes a write a create, before it has the lock.
Ask(p) ==
    /\ proc[p].pc = "idle" /\ config = NoConfig
    /\ proc' = [proc EXCEPT ![p] = [pc |-> "asked", old |-> NoConfig, new |-> NoToken]]
    /\ UNCHANGED <<lock, config, client, born, live, wal, fallback, faults,
                   unacked, struck, lost>>

\* What p does once it has the lock.
Locking(p) ==
    /\ lock' = p
    /\ proc' = [proc EXCEPT ![p] =
                 [pc |-> IF proc[p].pc = "asked" THEN "creating" ELSE "locked",
                  old |-> config, new |-> NoToken]]
    /\ UNCHANGED <<config, client, born, live, wal, fallback, faults, unacked,
                   struck, lost>>

\* Mutant: operations do not exclude each other.
Lock_unheld(p) == proc[p].pc \in {"idle", "asked"} /\ Locking(p)

Lock(p) == proc[p].pc \in {"idle", "asked"} /\ lock = NoProc /\ Locking(p)

\* Not configured, a basic-auth rotation, a rejected or failed write.
Refuse(p) ==
    /\ proc[p].pc \in {"locked", "creating"} /\ Return(p)
    /\ UNCHANGED <<config, client, born, live, wal, fallback, faults, unacked,
                   struck, lost>>

(***************************************************************************)
(* rotateRoot.                                                             *)
(***************************************************************************)
\* Only a bearer configuration can be rotated.
CanRotate(p) ==
    /\ proc[p].pc = "locked" /\ proc[p].old # NoConfig
    /\ proc[p].old.token # NoToken /\ Accepts(proc[p].old)

\* AAP numbers its tokens in the order it makes them.
NextToken(e) ==
    {t \in Minted \ born :
        t[1] = e /\ \A u \in Minted \ born : u[1] = e => t[2] <= u[2]}

Mint(p, t) ==
    /\ CanRotate(p) /\ t \in NextToken(proc[p].old.at)
    /\ born' = born \cup {t} /\ live' = live \cup {t}
    /\ proc' = [proc EXCEPT ![p] = [pc |-> "verify", old |-> proc[p].old, new |-> t]]
    /\ UNCHANGED <<lock, config, client, wal, fallback, faults, unacked,
                   struck, lost>>

\* Mutant: the rotation goes on without an answer.
MintUnread_continues(p, t) ==
    /\ CanRotate(p) /\ t \in NextToken(proc[p].old.at) /\ Fault
    /\ born' = born \cup {t} /\ live' = live \cup {t}
    /\ Goto(p, "verify") /\ Lose({t}, "unread")
    /\ UNCHANGED <<lock, config, client, wal, fallback, unacked, struck>>

\* CreateToken does not sweep: an answer that is lost or does not decode
\* leaves the token.
MintUnread(p, t) ==
    /\ CanRotate(p) /\ t \in NextToken(proc[p].old.at) /\ Fault
    /\ born' = born \cup {t} /\ live' = live \cup {t}
    /\ Return(p) /\ Lose({t}, "unread")
    /\ UNCHANGED <<config, client, wal, fallback, unacked, struck>>

Verify(p) ==
    /\ proc[p].pc = "verify"
    /\ \/ Goto(p, "put") /\ UNCHANGED faults
       \/ Fault /\ Goto(p, "cleanup")
    /\ UNCHANGED <<lock, config, client, born, live, wal, fallback, unacked,
                   struck, lost>>

Put(p) ==
    /\ proc[p].pc = "put" /\ config' = New(p) /\ Goto(p, "reset")
    /\ UNCHANGED <<lock, client, born, live, wal, fallback, faults, unacked,
                   struck, lost>>

\* The Put returns an error; storage may have applied it all the same, and
\* then the previous token is in no configuration any more.
PutFails(p) ==
    /\ proc[p].pc = "put" /\ Fault /\ Goto(p, "cleanup")
    /\ \/ UNCHANGED <<config, unacked, lost>>
       \/ /\ config' = New(p) /\ unacked' = unacked \cup {proc[p].new}
          /\ Lose({proc[p].old.token} \cap live, "unacked")
    /\ UNCHANGED <<lock, client, born, live, wal, fallback, struck>>

\* Mutant: the cleanup tries until it succeeds.
Cleanup_loops(p) ==
    LET t == proc[p].new IN
    /\ proc[p].pc = "cleanup"
    /\ \/ DeleteOk(proc[p].old, t[2]) /\ Return(p)
       \/ DeleteErr(proc[p].old, t[2]) /\ UNCHANGED <<proc, lock>>
    /\ Strike(t)
    /\ UNCHANGED <<config, client, born, wal, fallback, unacked, lost>>

\* cleanupNewRootToken, with the client of the configuration read.
Cleanup(p) ==
    LET t == proc[p].new IN
    /\ proc[p].pc = "cleanup" /\ Return(p)
    /\ \/ DeleteOk(proc[p].old, t[2]) /\ UNCHANGED lost
       \/ DeleteErr(proc[p].old, t[2]) /\ Lose({t} \cap live', "cleanup")
    /\ Strike(t)
    /\ UNCHANGED <<config, client, born, wal, fallback, unacked>>

\* Without an id the previous token is taken to be the operator's: a warning
\* is all, also when rotateRoot made the token and a write zeroed the id.
Reset(p) ==
    /\ proc[p].pc = "reset" /\ client' = NoConfig
    /\ \/ proc[p].old.id # NoId /\ Goto(p, "revoke") /\ UNCHANGED <<lock, lost>>
       \/ /\ proc[p].old.id = NoId /\ Return(p)
          /\ Lose({proc[p].old.token} \cap live, "unnamed")
    /\ UNCHANGED <<config, born, live, wal, fallback, faults, unacked, struck>>

\* Mutant: the error of the revoke is ignored.
RevokeOld_ignored(p) ==
    /\ proc[p].pc = "revoke" /\ Return(p)
    /\ DeleteOk(New(p), proc[p].old.id) \/ DeleteErr(New(p), proc[p].old.id)
    /\ Strike(proc[p].old.token)
    /\ UNCHANGED <<config, client, born, wal, fallback, unacked, lost>>

RevokeOld(p) ==
    /\ proc[p].pc = "revoke"
    /\ \/ DeleteOk(New(p), proc[p].old.id) /\ Return(p)
       \/ DeleteErr(New(p), proc[p].old.id) /\ Goto(p, "wal") /\ UNCHANGED lock
    /\ Strike(proc[p].old.token)
    /\ UNCHANGED <<config, client, born, wal, fallback, unacked, lost>>

\* Mutant: no entry is written for a failed revoke.
PutWal_dropped(p) ==
    /\ proc[p].pc = "wal" /\ Return(p)
    /\ wal' = wal /\ Lose({Previous(p)} \cap live, "retry") /\ UNCHANGED faults
    /\ UNCHANGED <<config, client, born, live, fallback, unacked, struck>>

\* The entry retries with the new token; when it fails too, a warning.
PutWal(p) ==
    LET entered == wal' = [wal EXCEPT ![Previous(p)] = New(p)] IN
    /\ proc[p].pc = "wal" /\ Return(p)
    /\ \/ entered /\ UNCHANGED <<faults, lost>>
       \/ Fault /\ entered /\ UNCHANGED lost
       \/ Fault /\ UNCHANGED wal /\ Lose({Previous(p)} \cap live, "retry")
    /\ UNCHANGED <<config, client, born, live, fallback, unacked, struck>>

(***************************************************************************)
(* config write and delete.                                                *)
(***************************************************************************)
\* A write that names no credential keeps the one it read, and with it the
\* connection: only a create that crossed another write may move it, which
\* makes TokenID 0.
Kept(p) ==
    IF proc[p].old = NoConfig THEN {}
    ELSE {proc[p].old}
           \cup {[at |-> e, token |-> proc[p].old.token, id |-> NoId] :
                   e \in {a \in Endpoint : proc[p].pc = "creating"}}

\* A write may name a credential of the operator's, and with it any AAP; an
\* update needs a configuration.
Given(p) ==
    IF proc[p].old = NoConfig /\ proc[p].pc = "locked" THEN {}
    ELSE [at : Endpoint, token : Supplied \cup {NoToken}, id : {NoId}]

\* Mutant: an operator's token keeps the id of the token it replaces.
Written_keepsid(p) ==
    Kept(p) \cup {IF proc[p].old = NoConfig \/ c.token = NoToken THEN c
                  ELSE [c EXCEPT !.id = proc[p].old.id] : c \in Given(p)}

Written(p) == Kept(p) \cup Given(p)

\* The engine-minted token a change of the configuration leaves behind.
Abandoned(c) ==
    IF config = NoConfig THEN {}
    ELSE {config.token} \cap (IF c = NoConfig THEN Minted ELSE Minted \ {c.token})

\* The connection is verified first.  The Put may return an error though
\* storage has applied it: the cached client stays.
Store(p, c) ==
    /\ \/ proc[p].pc = "locked" /\ c = NoConfig
       \/ proc[p].pc \in {"locked", "creating"} /\ c \in Written(p) /\ Accepts(c)
    /\ config' = c /\ Lose(Abandoned(c), "overwritten")
    /\ \/ Goto(p, "storereset") /\ UNCHANGED <<lock, faults>>
       \/ Fault /\ Return(p)
    /\ UNCHANGED <<client, born, live, wal, fallback, unacked, struck>>

StoreReset(p) ==
    /\ proc[p].pc = "storereset" /\ client' = NoConfig /\ Return(p)
    /\ UNCHANGED <<config, born, live, wal, fallback, faults, unacked,
                   struck, lost>>

(***************************************************************************)
(* Rollback of the previous token's WAL entry: revokeToken.                *)
(***************************************************************************)
Resolve(t) == wal' = [wal EXCEPT ![t] = NoConfig]

\* Mutant: the configured credential is not tried.
Rollback_nofallback(t) ==
    /\ wal[t] # NoConfig /\ t \notin fallback
    /\ \/ DeleteOk(wal[t], t[2]) /\ Resolve(t)
       \/ DeleteErr(wal[t], t[2]) /\ UNCHANGED wal
    /\ Strike(t)
    /\ UNCHANGED <<proc, lock, config, client, born, fallback, unacked, lost>>

Rollback(t) ==
    /\ wal[t] # NoConfig /\ t \notin fallback
    /\ \/ DeleteOk(wal[t], t[2]) /\ Resolve(t) /\ UNCHANGED fallback
       \/ DeleteErr(wal[t], t[2]) /\ fallback' = fallback \cup {t} /\ UNCHANGED wal
    /\ Strike(t)
    /\ UNCHANGED <<proc, lock, config, client, born, unacked, lost>>

\* The cached client, or one of the stored configuration, whichever AAP it
\* points at by now: another one answers 404, or has a token of that id.
RollbackFallback(t) ==
    LET c == IF client # NoConfig THEN client ELSE config IN
    /\ t \in fallback /\ fallback' = fallback \ {t}
    /\ client' = c
    /\ \/ c = NoConfig /\ UNCHANGED <<live, faults, wal, lost>>
       \/ /\ c # NoConfig /\ DeleteOk(c, t[2]) /\ Resolve(t)
          /\ Lose({t} \cap live', "wrong_endpoint")
       \/ c # NoConfig /\ DeleteErr(c, t[2]) /\ UNCHANGED <<wal, lost>>
    /\ Strike(t)
    /\ UNCHANGED <<proc, lock, config, born, unacked>>

(***************************************************************************)
(* The environment.                                                        *)
(***************************************************************************)
\* Any other operation builds the client.
UseClient ==
    /\ client = NoConfig /\ config # NoConfig /\ client' = config
    /\ UNCHANGED <<proc, lock, config, born, live, wal, fallback, faults,
                   unacked, struck, lost>>

\* An operator revokes a token made in AAP, as rotateRoot's warning asks.
RevokeSupplied(s) ==
    /\ s \in live /\ live' = live \ {s}
    /\ UNCHANGED <<proc, lock, config, client, born, wal, fallback, faults,
                   unacked, struck, lost>>

\* Vault stops: the new token before its Put and the previous one after it
\* are known to no record.
Crash ==
    /\ Fault
    /\ proc' = [p \in Proc |-> Idle] /\ lock' = NoProc
    /\ client' = NoConfig /\ fallback' = {}
    /\ Lose({t \in live \cap Minted : \E p \in Proc : Holds(p, t)}, "crash")
    /\ UNCHANGED <<config, born, live, wal, unacked, struck>>

RotateStep(p) ==
    \/ \E t \in Minted : Mint(p, t) \/ MintUnread(p, t)
    \/ Verify(p) \/ Put(p) \/ PutFails(p) \/ Cleanup(p)
    \/ Reset(p) \/ RevokeOld(p) \/ PutWal(p)

StoreStep(p) ==
    \/ \E c \in Config \cup {NoConfig} : Store(p, c)
    \/ StoreReset(p)

RollbackStep(t) == Rollback(t) \/ RollbackFallback(t)

Next ==
    \/ \E p \in Proc : Ask(p) \/ Lock(p) \/ Refuse(p) \/ RotateStep(p) \/ StoreStep(p)
    \/ \E t \in Minted : RollbackStep(t)
    \/ \E s \in Supplied : RevokeSupplied(s)
    \/ UseClient \/ Crash

Spec == Init /\ [][Next]_vars

\* Every call of an operation has a timeout, so it goes on to its end; the
\* rollback manager keeps visiting WAL entries.
Fairness ==
    /\ \A p \in Proc : WF_vars(Refuse(p) \/ RotateStep(p) \/ StoreStep(p))
    /\ \A t \in Minted : WF_vars(RollbackStep(t))

FairSpec == Spec /\ Fairness

-----------------------------------------------------------------------------
(***************************************************************************)
(* Properties.                                                             *)
(***************************************************************************)
Configured(t) == config # NoConfig /\ config.token = t

\* Whatever overlaps, fails or stops, every live token rotateRoot made is the
\* configured one, in the hands of an operation, in a WAL entry, or was left
\* behind by a step that `lost' names.  Some of those steps need no crash and
\* no failure of their own: the retry that asks the AAP a later write moved the
\* configuration to and takes its 404 for success (wrong_endpoint), the
\* rotation that takes a token for the operator's since a create that crossed
\* another write zeroed TokenID (unnamed), and the write or delete that
\* replaces the token (overwritten).
RootAccounted ==
    \A t \in live \cap Minted :
        \/ Configured(t) \/ wal[t] # NoConfig \/ lost[t] # "no"
        \/ \E p \in Proc : Holds(p, t)

\* A configured engine-minted token works: no rotation, config write or
\* rollback, at any interleaving, revokes the token another one has stored.
\* Two things do: the cleanup after a Put that was applied and still returned
\* an error, and the retry of a failed revoke that, after the configuration
\* has moved to another AAP, meets there a token of the same id.
ConfiguredLive ==
    \A t \in Minted :
        Configured(t) => t \in live \/ t \in unacked \/ t \in struck

\* No DELETE of a rotation takes away another token than the one it is for,
\* whatever writes and rotations replaced in between, except the retry of a
\* revoke that failed, asked of another AAP than the token's, whose id it then
\* shares; and no retry is answered by the wrong AAP before a revoke failed.
StrayDeletes ==
    /\ \A t \in struck :
          faults >= 1 /\ \E u \in born : u[2] = t[2] /\ u[1] # t[1]
    /\ \A t \in Minted : lost[t] = "wrong_endpoint" => faults >= 1

\* A token a rotation tried to revoke is left behind only after two failures:
\* a failed revoke whose WAL entry failed as well, or a failed verification
\* or Put whose cleanup failed, or was tried with a token revoked meanwhile.
RotateLosingTakesTwo ==
    \A t \in Minted :
        lost[t] \in {"retry", "cleanup"} =>
            faults >= 2 \/ (faults = 1 /\ ~(Supplied \subseteq live))

\* configLock is released by every operation that takes it, whatever fails.
LockReleased == []<>(lock = NoProc)

\* The credential the engine falls back to works.
Usable == /\ config # NoConfig /\ Accepts(config)
          /\ client # NoConfig => Accepts(client)

\* Once the engine has a working credential for good, every WAL entry of a
\* previous token is resolved, also when later rotations have revoked the
\* token the entry was to be retried with.
RetryResolves ==
    <>[]Usable => \A t \in Minted : []<>(wal[t] = NoConfig)

-----------------------------------------------------------------------------
(***************************************************************************)
(* The inductive invariant behind RootAccounted and ConfiguredLive.        *)
(***************************************************************************)
\* Who works under the lock holds it.
Locked == \A p \in Proc : proc[p].pc \notin {"idle", "asked"} <=> lock = p

\* A configuration holds a token of the AAP it points at, and the id of no
\* other token: TokenID is known only for tokens rotateRoot made.
Known(c) ==
    c # NoConfig =>
        /\ c.token = NoToken \/ c.token[1] = c.at
        /\ c.id = NoId \/ (c.token \in Minted /\ c.token = <<c.at, c.id>>)

\* Nothing is stored, held or recorded that AAP has not handed out, and the
\* entry of a token is for the AAP that made it.
Born ==
    /\ live \cap Minted \subseteq born
    /\ \A t \in Minted : Configured(t) \/ wal[t] # NoConfig => t \in born
    /\ \A t \in Minted : wal[t] # NoConfig => wal[t].at = t[1]
    /\ \A t \in fallback : wal[t] # NoConfig

\* What an operation knows of the stored configuration.
Knowing ==
    \A p \in Proc :
       /\ Known(proc[p].old)
       /\ proc[p].pc \in {"locked", "creating", "verify", "put"} =>
            proc[p].old = config
       /\ proc[p].pc = "cleanup" =>
            \/ proc[p].old = config
            \/ Configured(proc[p].new) /\ proc[p].new \in unacked
       /\ proc[p].pc \in {"reset", "revoke", "wal"} => Configured(proc[p].new)

\* The new token of a rotation is nobody else's; the previous one has left
\* the configuration before it is revoked.
Rotating ==
    \A p \in Proc :
       /\ proc[p].pc \in {"verify", "put", "cleanup", "reset", "revoke", "wal"} =>
            /\ proc[p].new \in Minted \cap born
            /\ proc[p].old \in Config /\ proc[p].old.token \in Token
            /\ proc[p].old.token # proc[p].new
            /\ proc[p].old.token \in Minted => proc[p].old.token \in born
            /\ proc[p].new[1] = proc[p].old.at
            /\ wal[proc[p].new] = NoConfig
       /\ proc[p].pc \in {"verify", "put"} =>
            proc[p].new \in live \cup struck
       /\ proc[p].pc \in {"revoke", "wal"} => proc[p].old.id # NoId

\* A WAL entry never names the configured token.
Aside == \A t \in Minted : wal[t] # NoConfig => ~Configured(t)

Inv == /\ TypeOK /\ Locked /\ Known(config) /\ Born /\ Knowing /\ Rotating
       /\ Aside /\ RootAccounted /\ ConfiguredLive

\* Behind RotateLosingTakesTwo and StrayDeletes: an entry to retry, and what
\* a retry has struck, have cost one failure, as has what is left to clean up
\* or to record; and the credentials that are to do it still work, unless they
\* are an operator's or were struck.
Counting ==
    /\ \A t \in Minted : wal[t] # NoConfig => faults >= 1
    /\ struck # {} => faults >= 1
    /\ \A p \in Proc :
       /\ proc[p].pc \in {"cleanup", "wal"} => faults >= 1
       /\ proc[p].pc = "cleanup" /\ (struck # {} \/ \E t \in Minted : wal[t] # NoConfig)
            => faults >= 2
       /\ proc[p].pc \in {"verify", "put", "cleanup"}
            /\ proc[p].old.token \in Minted =>
              /\ proc[p].old.token \in live \cup struck
              /\ wal[proc[p].old.token] = NoConfig
       /\ proc[p].pc \in {"reset", "revoke"} => proc[p].new \in live \cup struck
=============================================================================
