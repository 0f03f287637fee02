# A TLA+ model of vault-plugin-secrets-aap

The plugin is a Vault secrets engine for Ansible Automation Platform (AAP). `vault read
creds/<role>` mints an OAuth2 token in AAP and returns it under a Vault lease; when the lease
ends Vault has the engine revoke the token. AAP has no transactions and Vault stores the lease
only after the engine has returned, so the engine's core problem is one of accounting: *every
token that exists in AAP must have someone who will revoke it*, whatever fails, stops, times
out or is reconfigured in between. This directory models that problem and its neighbours,
checks the models with TLC and proves the main results with TLAPS.

## The system

| Component | Source | State it keeps | Operations |
|---|---|---|---|
| Credential issuance | `path_credentials.go`, `secret_token.go` | none of its own; a request's role, config, token and WAL id | `pathCredentialsRead` -> `createCreds` -> `createToken` |
| Orphan cleanup | `wal.go` | Vault's WAL: token id, role, snapshot of the config | `PutWAL`, `DeleteWAL`, `walRollback` |
| Lease revocation | `secret_token.go` | the lease's internal data: token id, role, snapshot | `tokenRevoke`, `revokeToken` |
| Lease renewal | `secret_token.go` | the lease's TTL | `tokenRenew` |
| Client cache | `backend.go` | `b.client` under `b.lock` | `getClient`, `reset`, `invalidate` |
| Configuration store | `path_config.go` | the stored `aapConfig`, the rotation job | `pathConfigWrite`, `pathConfigDelete`, `handleConfigRotationJob` |
| Root rotation | `path_rotate_root.go` | `config.Token`, `config.TokenID` | `rotateRoot` (manual and scheduled), `cleanupNewRootToken` |
| Role store | `path_roles.go` | role entries, 64 striped role locks | role write, delete, read, list |
| AAP client | `client.go` | none | mint, sweep, resolve, verify, read back, revoke |
| Revocation snapshot | `revocation_config.go` | none | `addRevocationData`, `configFromRevocationData`, `coerceInt64` |
| Entry point, tooling | `cmd/`, `Makefile`, `scripts/`, `.github/` | none | start the plugin server, build, smoke tests |

How they interact:

- Issuance reads the role (under its role lock) and the configuration (under no lock) once, and
  works with that copy to the end. Each call it makes to AAP can be refused, or lost before or
  after AAP applied it. It hands its token to the WAL, then to Vault, which stores the lease.
- Vault's rollback manager calls `walRollback` for every WAL entry older than
  `walRollbackMinAge`, its expiration manager calls `tokenRevoke` for every lease that ends.
  Both keep the record and call again when they get an error, and both go through
  `revokeToken`: first the snapshot's credential, then whatever `getClient` returns.
- Config writes, deletes and rotations hold `configLock`; they store and then `reset` the cached
  client. Changes made on another node arrive as `invalidate`.
- `rotateRoot` replaces the privileged credential that outstanding snapshots were taken from.

What is hard, and what a unit test with a mock AAP hardly reaches: a crash between any two of
mint, `PutWAL`, `DeleteWAL` and the lease; a call that was applied but answered with an error;
two failures in a row; rollback racing a request; a fallback to a configuration that has moved;
rotations overlapping writes; a reset racing a client being built. `PROJECT.json` lists these
hazards at their lines with the properties that cover them.

What makes each component correct:

- issuance, WAL, revocation: no orphans; a token is owned by one record at a time; a record goes
  only with its token; a response carries a token that exists and that has the owner and the
  application of its role; WAL entries are resolved in the end;
- client cache: no outdated client after a reset, no deadlock;
- rotation: no privileged token dropped in silence, the configured one not revoked, no DELETE
  that hits another token, `configLock` always released, previous tokens revoked in the end;
- configuration store: exactly one auth scheme, `TokenID` names the token or is 0, the rotation
  job follows the configuration;
- roles: a mint uses the stored role, no named field is lost, a stored role is one a mint can
  use, every request gets its lock;
- names and snapshots: a token is bound to and owned by what the role names, the client of a
  revocation is the client of the mint, ids survive JSON;
- time: no rollback overtakes a request, no renewal passes the `max_ttl` it was allowed.

## Modules

| Module | Models | EXTENDS |
|---|---|---|
| `TokenIssuance` | issuance, WAL, revocation, with AAP, Vault's managers, operators and crashes | Naturals, FiniteSets |
| `TokenLedger` | the abstract promise: somebody keeps every token that exists | - |
| `TokenIssuanceRefinement` | `TokenIssuance` as an implementation of `TokenLedger` | TokenIssuance; INSTANCE TokenLedger |
| `CredentialClock` | the deadlines of a request, the age of its WAL entry, the lease and its renewals | Integers |
| `RevocationSnapshot` | what a WAL entry and a lease hold, JSON, and the client built from it (operators only) | Integers |
| `TokenIdentity` | names, ids and records from the lookup to the DELETE | RevocationSnapshot, FiniteSets |
| `RoleStore` | role writes, deletes and mints under the striped locks | Naturals, FiniteSets |
| `ClientCache` | `getClient`, `reset`, `invalidate` over the RWMutex | Naturals |
| `RotateRoot` | `rotateRoot`, config writes and deletes, the retry of previous tokens | Naturals, FiniteSets |
| `ConfigStore` | config writes field by field, deletes, the rotation job | Naturals, FiniteSets |
| `TokenIssuanceRefinement_proofs` | that the refinement holds | TokenIssuanceRefinement, TokenIssuance_proofs |
| `*_proofs` | theorems about `TokenIssuance`, `TokenIdentity`, `ClientCache`, `RotateRoot`, `ConfigStore`, `RoleStore`, `CredentialClock` | the module, TLAPS |
| `MC*` | instances and symmetry for TLC | the module, TLC |

The modules divide the path of one credential by question. `TokenIssuance` asks which calls can
fail and who then has the token; it leaves out what is in a name, a record or a clock.
`TokenIdentity` follows the data along the same steps, `CredentialClock` the time, `RoleStore` the
lock around them. `TokenIssuance` takes one result over from `CredentialClock`: with
`SlowRequests = FALSE` rollback leaves running requests alone.

The definitions named `<Definition>_<what>` and introduced by "Mutant:" are the faults each
property was tested against: with such a body in place of the definition's own, TLC finds the
property violated. They are part of no specification.

### TokenIssuance

A token is `<<endpoint, id>>`, because ids are unique in one AAP only; a connection is
`<<endpoint, key>>`, an address and the privileged credential stored for it. `req[r]` is a
running `creds/` read: the point it has reached (`pc`), its role, the configuration it read and
its token. `wal` and `lease` map a token to the snapshot in its record, `job[k][t]` is a running
`revokeToken` for one of them. `born`, `live`, `late`, `owner`, `bound` and `valid` are AAP's
side. One action is one step another process can get in between: a call to AAP, a storage
operation, a guard.

| Code | Actions |
|---|---|
| `createToken` up to the mint | `Start`, `Refuse` |
| `createTokenForAppInternal` and its sweep | `MintAnswered`, `MintUnread`, `MintLost`, `Sweep`, `SweepFails`; AAP's `LateCommit` |
| `PutWAL` and the best-effort revoke | `PutWal`, `PutWalFails`, `BestEffort` |
| the two guards | `CheckApplication`, `CheckOwner` |
| `ctx.Err()`, `revokeMintedTokenAfterVerificationFailure` | `Cancel`, `UndoRevoke`, `UndoRevokeFails`, `UndoDeleteWal` |
| `DeleteWAL`, response, Vault's lease | `DropWal`, `DropWalFails`, `RegisterLease` |
| `revokeToken` | `SnapshotRevoke`, `SnapshotRevokeFails`, `GetClient`, `FallbackRevoke`, `FallbackRevokeFails` |
| Vault's managers | `Eligible`, `Acknowledge` |
| config changes, credentials dying, crash | `WriteConfig`, `DeleteConfig`, `Reset`, `RevokeCredential`, `Crash` |

`lost` is a history variable: the first step that left a token without a record, by name. It
does not enable or disable anything. It makes "no orphans" a statement with its exceptions
spelled out (`Accounted`), so that a new way of losing a token is a violation, and lets
`LosingTakesTwo` say how much it takes.

### TokenLedger and TokenIssuanceRefinement

`TokenLedger` is what the engine promises of a token, without AAP, storage or calls: it is
`unborn`, `exists` or `revoked`, and has a keeper, the request, the WAL entry or the lease.
Custody goes request -> WAL -> request -> lease, is handed on only while the token exists (a
record may be written of a token that is already gone), and ends with the token. `Lose` is
for tokens that a named failure has excused. One step may move several tokens, since a crash
takes every running request with it. In the mapping a lease comes before a WAL entry and an
entry before the request, and a token whose POST AAP has yet to commit exists already.

`Contested` relaxes one clause. Where rollback may look at a running request's entry, or two
AAPs share ids, somebody other than its keeper may have a token revoked, and a request that does
not know may hand it on all the same. Custody itself is as strict then as otherwise.

### CredentialClock

Time passes in steps of half a minute, and nothing that has a deadline passes it (`MayWait`).
`ctx` is what Vault's `default_max_request_duration` leaves the request after its POST, `call`
is the timeout of the call that runs (`request_timeout`, which may be longer than `ctx`) or of a
cleanup context, `defaultHTTPTimeout`. The two `PutWAL`/`revokeBestEffort` and
`DeleteWAL`/`revokeBestEffort` pairs share one cleanup context, as in the code. `age` is the
WAL entry's. After the response the same module follows the lease: `tokenRenew` is `RenewRead`,
which reads the role without its lock, and `Renew` or `RenewRefused`; `Calculated` is the SDK's
`CalculateTTL`. `SetRole` may come in between, and `seen` is the history of the roles stored since
`RenewRead`.

### RevocationSnapshot and TokenIdentity

`RevocationSnapshot` has only operators. A record is a function from the keys that are present to
typed values (`Record` is `newWALToken` and `addRevocationData`, which store the same fields);
`Json` is the round trip, which turns an integer into a `float64`, exact up to `Mantissa` bits, or
a `json.Number`, depending on the decoder; `Readable` and `ReadBack` are
`configFromRevocationData`, `Client` is `newClient`. `TokenIdentity` runs one credential through
them. `apps` and `users` are AAP's directories, which administrators change at any step;
`Answers` is what a lookup may return (every exact match, perhaps other entries, perhaps entries
without an id, which Go decodes to 0) and `Lookup` what the engine makes of it. `Mint` lets AAP
bind the token as it likes, as the guards assume. `OldRecord` is a lease of the version that stored
a number and no snapshot, which `coerceTokenID` still reads. `named` is a history variable.

### RoleStore

`proc[p]` is a write, a delete or a mint that has been asked for, or holds its lock. `Write` makes
the existence check, which Vault does before the handler runs and without the lock, so that `op`
may be stale when `Acquire` gets the lock and reads the role. `Merge` and `Accepted` are the body
of `pathRolesWrite`. A mint holds the lock until it has its answer (`Minted`, or `Refuse`).
`CommitFails` is a `Put` or `Delete` that was applied and returned an error.

`meant` is a history variable: each field as the last stored write that named it left it, `read`
for the scope of a role that is new and names none. It does not look at `op`, so it says what the
writes were for and not what a stale existence check made of them. The two differ in one place: a
create that finds a role which another create has stored in the meantime, and that names no scope,
puts `read` over the scope of that role (`path_roles.go:187-193`). `crossed` is the history of the roles
this has happened to; a write that names the scope, or a delete, ends it. A stale update of a role that
has been deleted creates it anew if it names a scope, which loses nothing.

### ClientCache

Configurations are numbered in the order they were stored, so that "outdated" is "smaller".
`pc` says where each goroutine is on `b.lock`; the queue discipline is Go's: a reader waits
while a writer holds or awaits the lock, and an Unlock admits the readers that wait. A write of
another node reaches storage first and `invalidate` later (`Replicate`). `stale` remembers a Put
that was applied and returned an error: the code then skips `reset`, and the cached client stays
outdated until the next write, which `Fresh` states as its exception.

### RotateRoot

A token is the AAP that made it and its id there, `Minted` by `rotateRoot` or `Supplied` by an
operator; a configuration is the AAP it points at, a token, and the id the engine knows it by,
`NoId` for `TokenID` = 0. Configurations for basic auth have no token, and only `Basic` AAPs take
them. `proc[p]` is a rotation, a config write or a delete under `configLock`; `RotateStep` follows
`rotateRoot` call by call, `StoreStep` is the config write and delete. `Ask` is the existence check of a write
that finds nothing configured; such a write is a create (`creating`) whatever it finds under the lock.
`Written` is what a write may store: what it read (`Kept`), which an update cannot move to
another AAP and a crossed create can, or an operator's credential, and with it any AAP
(`Given`). `Rollback` and `RollbackFallback` are `revokeToken` for the WAL entry of a previous
token, the second with whatever configuration there is by then: its AAP may be another one, which
answers 404 for the id or has a token of its own under it.

As in `TokenIssuance`, `lost` names the steps that leave a token behind. Besides failures and
crashes these are `overwritten`, a write or delete over an engine-minted token, which
`pathConfigWrite` does not revoke; `wrong_endpoint`, the 404 of another AAP taken for success; and
`unnamed`, a rotation that finds `TokenID` 0 with a token `rotateRoot` made, because a crossed create
zeroed it (`path_config.go:281-283`). `struck` is the history of the tokens that a DELETE meant for
another token has taken away.

### ConfigStore

A request names some of the fields of a configuration: `Absent` is a field that `data.GetOk` does
not find, `Empty` the empty string. `Merge` is what `pathConfigWrite` makes of the stored
configuration, `Accepted` its checks, `OneScheme` the one on credentials. Address, API path and
TLS trust are one connection, the four settings `configConnectionChanged` compares; a schedule
and a period are one flag, `rotate`. `Ask` is the existence check, which Vault makes before the
handler takes `configLock` and which decides whether the write is a create. `Reject` stands for
every way a write is refused, AAP's answer to the verification included. `RotationJob` is
`handleConfigRotationJob` and the end of `pathConfigDelete`. `Rotate` is what `rotateRoot`
stores; its steps are in `RotateRoot`.

Two history variables enable nothing: `home`, the connection the stored credential was supplied
for, and `adrift`, a failure has left job and configuration unmatched. One can read off
`RotationJob` that the job is registered again by every write while rotation is on, although the
comment at `path_config.go:345-347` says it "is only touched when rotation state actually changes".

## Runs

| Run | Question | Instance |
|---|---|---|
| `issuance_concurrent` | Do two concurrent reads with failing steps break the ledger, or hand out a wrong or dead token? (safety and refinement) | 2 requests, 2 ids, 1 AAP, 1 credential, 3 roles, 2 failures |
| `issuance_faults` | Which paths lose a token, and after how many failures? Is every WAL entry resolved? Rollback may race the request. (safety and liveness) | 1 request at a time, 1 id, 2 credentials, 3 roles, 3 failures |
| `issuance_repoint` | Does a record go only with its token when the configuration moves between AAPs? | 2 AAPs with the same id, 2 failures |
| `client_cache` | Is the cache ever outdated after a reset? Does every caller get through the lock? (safety and liveness) | 2 getters, 2 writers, 1 invalidation, 2 changes, 1 storage error |
| `rotate_root` | Are privileged tokens dropped, or the configured one revoked? Is the lock released, are previous tokens revoked in the end? (safety and liveness) | 2 operations, 2 AAPs, 3 tokens minted at one, a supplied token at each, one of them with the id of a minted one, basic auth at the other, 2 failures |
| `config_store` | Can any interleaving of two writers, deletes and rotations store an inconsistent configuration, lose the job, or move a credential? | 2 operations, requests of at most two fields and the usual longer ones, 2 connections, 2 minted tokens, 1 failure or crash |
| `role_store` | Do partial writes, deletes and mints that overlap lose a field, store an unusable role, or mint with an old one? Does every request end? (safety and liveness) | 2 requests, 2 roles of one stripe, 5 partial writes, 1 failure or crash |
| `token_identity` | Is a token bound, owned, recorded and revoked as its role and configuration say, whatever AAP answers? | 2 applications, 2 users, 2 names, 2 changes of a directory, 2 configurations that differ in every field, an id a float can name and one it cannot |
| `credential_clock` | Can rollback overtake a request? Can a renewal pass the role's maximum? | 90 s per request, calls of 150 s, cleanup of 30 s, rollback after 300 s; 4 roles |
| `finding_unregistered` | Does the WAL cover the token until the lease is stored? It does not. | 1 request, 1 crash |
| `finding_repointed` | Does a lease end only with its token? It does not. | 2 AAPs, no failure |
| `finding_stale_create` | Does a credential stay with its connection? Not when two first writes overlap. | 2 operations |

Why the bounds are enough. Tokens of different requests meet only in AAP's namespace and in the
records, so two requests and two ids give every pair; a third adds no new pair. The longest
chain of failures any exception needs is two, so two failures show every loss and three show
that a third one opens no new path. Two credentials are the one a snapshot holds and the one
that replaced it; two AAPs the one a token lives in and another. In `RotateRoot` three minted
tokens are the previous one, the configured one and the one being minted; the second AAP is one that the
configuration may move to, with a token of its own that has the id of a minted one. That a retry strikes the
*configured minted* token takes a token minted at either AAP, one more than the run has: there
`ConfiguredLive` rests on its proof, and the run shows the same strike with an operator's token. In `ConfigStore` two
connections are the stored one and another; one value per credential field is enough, because
the code looks only at which fields are empty; what `MCConfigStore` leaves out is requests of
three fields and more with an empty string, half a basic credential, `disable_automated_rotation`
or rotation turned off among them, for which two shorter writes can stand. In `RoleStore` two names on one stripe are every pair of
roles, and the five requests set and clear whatever a check looks at. In `TokenIdentity` two
holders of a name are the ambiguous case, and two changes let a name move and come back;
floats of three bits put the edge that is at 2^53 between the ids 7 and 9. In `CredentialClock` the
numbers are the code's, in half minutes; request_timeout is longer than any of them that it could
matter to. `MaxFaults` bounds failed calls and crashes in a behaviour, `MaxWrites` the configurations
stored, `MaxChanges` the directory changes while one request runs; ids are used once, as AAP does. Symmetry is used in runs without fairness only, where each temporal property is a
step property that treats the permuted values alike. Deadlock is not checked in
the `issuance_*` runs, since their behaviours end when the ids are used up and there is nothing
left to do; it is checked in the others.

### Fairness

- `TokenIssuance!Fairness`: a request goes on (each HTTP call has a timeout, `client.go`
  `defaultHTTPTimeout`, and the cleanup contexts have one too), and the rollback manager keeps
  visiting every WAL entry. Nothing forces a lease to end or AAP to commit an abandoned POST.
- `ClientCache!Fairness`: a goroutine that has begun goes on, and one that queues for the lock is
  served again and again (strong fairness of the two Lock steps: Go's mutexes hand over to a
  starving waiter). Nobody has to call.
- `RoleStore!Fairness`: a request that holds a role lock ends, since every call it makes has a
  timeout, and one that waits gets the lock in the end (strong fairness of `Acquire`, for the same
  reason as above). Nobody has to ask.
- `RotateRoot!Fairness`: the operation that holds `configLock` goes on, and WAL entries are
  visited. `RetryResolves` is conditional on the engine keeping a credential that works.

## What the runs show

- `Accounted`, `Protected`, `OneOwner`: a token that exists is held by a request, in the WAL or
  in a lease, and never in both records, except through the named losses: an answer lost or
  unreadable in the POST itself, a crash before `PutWAL` or after `DeleteWAL`, both a record and
  a revoke failing, and a nil from the wrong AAP.
- `LosingTakesTwo`, `RotateLosingTakesTwo`: apart from the POST itself, from crashes and from a
  Put that was applied though it failed, one failed call never loses a token.
- `KeepsLedger`: every step of two concurrent requests, of revocation, rollback, crashes and
  failures is a step of the ledger.
- `HandedOutLive`, `GuardedResponse`: what a caller gets exists and is what the role asks for.
  The first needs that requests end within `walRollbackMinAge`, and that is what
  `RollbackSparesRequests` shows: `request_timeout` has no upper bound in `pathConfigWrite`, but
  Vault's deadline ends the request whatever it is, and each thing that goes on after it is bounded
  by one cleanup context, so that 90 s + 30 s stay below 5 minutes. An operator who raises
  `default_max_request_duration` above four and a half minutes loses that; `issuance_faults`
  (`SlowRequests`) checks what remains true then.
- `RecordsDropSafely`: a record goes only with its token, by the commit, or after the fallback has
  asked another AAP (`wrong_endpoint`, which needs the configuration to move).
- `RollbackResolves`: every WAL entry is resolved as long as its snapshot or the client in use
  reaches its AAP.
- `MintUsesStoredRole`, `NoLostField`, `RolesUsable`, `RequestsEnd`: the striped lock does its work.
  It does not cover the existence check: of two overlapping creates the second resets the scope
  that the first one named unless it names one itself. That is the exception of `NoLostField`, the run
  reaches it, and no other field is lost. The lock is one node's: what a performance secondary reads
  while the primary writes is not modelled.
- `BoundAsNamed`, `OwnedAsNamed`: what a role names is resolved once, and the token that leaves is
  bound to and owned by the one holder of the name at that time, though it be renamed since.
- `SameClient`, `DeletesOwnId`, `NeverStuck`: a record the engine writes is always readable, leads
  back to the minting connection and credential, and deletes the recorded id, which is exact
  because it is a string. A lease of the older version deletes another id only from 2^53 on.
- `RenewalAllowed`: a renewal goes by a role that was stored while it ran. A role that is deleted or
  tightened between the read and Vault's extension counts as it was; later renewals see it. The
  increment that a renewal asks for takes the place of the role's `ttl`, within `max_ttl`.
- `Fresh`, `ReadYourWrites`, `CallsReturn`: the double-checked lock is right.
- `RootAccounted`: at any interleaving of rotations, writes and rollbacks every live token that
  `rotateRoot` made is configured, held, recorded or left behind by a named step. The run reaches each of
  these steps. Two of them the code does not notice: a revoke fails, a later rotation ends the
  credential its entry would be retried with, the configuration moves to another AAP, and that
  AAP's 404 drops the entry (`wrong_endpoint`, what `finding_repointed` shows for leases); and a
  crossed create keeps the token with `TokenID` 0, so that the next rotation
  warns of an operator's token and forgets it (`unnamed`, without any failure).
- `ConfiguredLive`: the configured token stays alive, with two exceptions. After a Put that is applied
  and returns an error the cleanup revokes the token just configured, so that one failure leaves
  the engine without a working credential; and a retry that asks another AAP than its token's may
  meet there the configured token under the same id.
- `StrayDeletes`: no other DELETE takes away a token it is not meant for; the id
  and the connection that a rotation or a cleanup uses always belong together. A retry goes astray only
  after a revoke has failed.
- `Consistent`, `IdOfToken`, `MovesByCrossedCreate`: partial writes, auth scheme switches and rotations
  in any order store exactly one complete credential and a `TokenID` that is the token's or 0. A
  credential moves to another connection only by a create that another write overtook, which is
  what `finding_stale_create` shows to happen.
- `JobFollows`: whenever `configLock` is free the rotation job is there exactly if the
  configuration asks for it. The exception, until a call to the Rotation Manager succeeds, is a
  failed Put or Delete that was applied, a failed call to the Rotation Manager, and a crash
  between the two. A job whose deregistration failed is not tried again by later writes, which
  no longer find a schedule in the configuration they replace.

Three runs are expected to fail, each against a sentence of the repository.

1. `finding_unregistered`. `createCreds` deletes the WAL entry (`path_credentials.go:115`) before
   it returns the response that Vault will store the lease from. A crash in between leaves the
   token in no record. `wal.go:19-21` and `ARCHITECTURE.md:192-198, 234-235` say the WAL covers a token until its
   lease is durably stored; `ARCHITECTURE.md:197` names only the window before `PutWAL`.
2. `finding_repointed`. A lease's snapshot credential is rotated away, as `rotateRoot` does, and
   the operator then moves `config` to another AAP. `revokeToken` falls back to the current
   configuration without comparing its address (`secret_token.go:235-242`); the other AAP does
   not know the id, `RevokeToken` counts 404 as success, and Vault drops the lease while the
   token lives (or revokes an unrelated token that has the same id there). `README.md:197-199`
   says the snapshot is there so that a token "can always be revoked even after the operator
   changes or deletes `config`"; `path_credentials_test.go:463` asserts that the
   revoke is not sent to the rotated config, in the case where the snapshot still works.
3. `finding_stale_create`. Two writes arrive while nothing is configured, so the existence check
   (`path_config.go:153`) makes both a create. The first stores address and token. The second,
   with another address and no credential, then merges into that configuration, and since it is
   a create the guard of `path_config.go:297-299` ("a credential (token or password) is required
   when changing AAP connection or TLS trust settings") does not apply to it.

## Proofs

TLAPS proves, for every number of requests, goroutines, AAP instances, ids, credentials, roles
and failures:

- `TokenIssuance_proofs`: `TypeCorrect`, `NoOrphans` (`Accounted`), `WalCovers` (`Protected`),
  `SingleOwner` (`OneOwner`), `GuardedCorrect` (`GuardedResponse`), `SafeDrops`
  (`RecordsDropSafely`), `TwoFailures` (`LosingTakesTwo`), and, assuming one AAP and
  `~SlowRequests`, `HandedOut` (`HandedOutLive`);
- `TokenIssuanceRefinement_proofs`: `LedgerImplemented` (`KeepsLedger`), `LedgerKept`, what the
  ledger promises, and `TokensKept`, the same of the engine's tokens;
- `TokenIdentity_proofs`: `Typing`, `Bound` (`BoundAsNamed`), `Owned` (`OwnedAsNamed`), `Revoker`
  (`SameClient`), `OwnId` (`DeletesOwnId`), `Unstuck` (`NeverStuck`), and `SnapshotFaithful`, that a
  snapshot builds the client of its configuration after any JSON;
- `ClientCache_proofs`: `CacheTyped`, `CacheFresh` (`Fresh`), `ReadsSeeWrites` (`ReadYourWrites`);
- `RotateRoot_proofs`: `RotateTyped`, `NoSilentDrop` (`RootAccounted`), `ConfiguredKept`
  (`ConfiguredLive`), `NoStrayDelete` (`StrayDeletes`), `TwoFailures` (`RotateLosingTakesTwo`), for
  any number of AAPs;
- `ConfigStore_proofs`: `StoreTyped`, `StoreConsistent` (`Consistent`), `StoreIdOfToken`
  (`IdOfToken`), `StoreJobFollows` (`JobFollows`), `StoreCredentialMoves`
  (`MovesByCrossedCreate`);
- `RoleStore_proofs`: `RoleTypes`, `RoleMintUsesStored` (`MintUsesStoredRole`), `RoleUsable`
  (`RolesUsable`), `RoleNoLostField` (`NoLostField`);
- `CredentialClock_proofs`: `ClockTypes`, `ClockSparesRequests` (`RollbackSparesRequests`),
  `ClockRenewals` (`RenewalAllowed`).

Assumptions: the named ASSUMEs of the modules, which TLC evaluates in every run (a role with a
username has a bootstrap token, as `pathRolesWrite` requires, which `RoleUsable` proves; null values
are not values; an AAP has finitely many applications and users, with positive ids, and a
significand has at least one bit; `AgeAssumption`, that a request's deadline with one cleanup
timeout, and two cleanup timeouts, are below `walRollbackMinAge`).

`HandedOut` is the one theorem with hypotheses of its own, and it needs them: with `SlowRequests`
rollback may revoke a token between a guard and the response, and with two AAPs a fallback that
asks the wrong one may delete a token of the same id that a request is about to return.
`ClockSparesRequests` is why the engine's own numbers give `~SlowRequests`.

The argument for issuance. `Accounted` is not inductive: a request may finish only because its
WAL entry is there, so `Protected` is needed; that a WAL entry is there at `commit` and gone at
`respond` needs `Phases`; that a request's steps touch nobody else's token needs `Holding`
(requests hold different tokens, minted where their client points); that a record may go when
`revokeToken` returned nil needs `DoneGone`, which rests on `SnapshotMatches` (a snapshot points
at the AAP of its token) and, for the fallback, on `lost`; that nothing is known of a token
before it is born or committed needs `BornFirst` and `LateAlone`. `Inv` is their conjunction. The
proof first classifies the actions by what they do to a request, to AAP, to `lost` and to the
jobs, so that the preservation lemma of a conjunct splits on a few kinds of step. `GuardsPassed`
extends `Inv` for `GuardedCorrect`.

The other theorems about issuance add to `Inv` what they need.

- `SafeDrops`: a record goes when `revokeToken` returned nil, and then its token must be gone or the
  wrong AAP must have answered (`RevokedOrMissed`). `DoneGone` alone gives only that the token is
  lost in some way; `LostBare` says that every other loss is of a token that no record names, and
  `JobsRecorded` that `revokeToken` runs only for a record that is there, so that a job cannot be
  left over from before a loss. None of the three needs to know how many AAPs there are.
- `TwoFailures`: `FailuresCounted` says that a request which sweeps or revokes at best effort has
  seen one failure. The step that loses the token is a second one: its own call failed, which
  counts, or AAP refused it because the credential has died, which counts too
  (`SecondFailure`). Losses that were there already are kept by `FailuresGrow`.
- `HandedOut`: while a request holds a token no `revokeToken` runs for it (`Untouched`, from
  `~SlowRequests` and `OneOwner`), and a DELETE for another token names another id (`OwnDelete`, one
  AAP), so that only the request itself can have it revoked (`Alive`).

The argument for the refinement. `LedgerStep` is the ledger's step read over the mapped state of one
token, and the proof shows that each action makes one for every token: for the tokens it does not
touch by `Stays` (the same keeper; the same state, or taken away by a DELETE for a token of the same
id), for its own by a lemma per kind of action (`MintMapped` to `CrashMapped`). Commits and leases
need a token that exists, which `Alive` gives where nothing is contested. A record that is
dropped needs `RevokedOrMissed`, a crash needs `Protected`: what no record covers is lost by name.
`KeepsLedger` then holds with no hypothesis.

The argument for names and records. `LookupExact` says that an answer with every exact match
resolves a name to the only id that holds it, now; `Resolved` carries it past later renames in
`named`, and `Guarded` says what each guard has established, so that at the lease the token's
application and owner are the resolved ones. A missing id, which decodes to 0, passes no
guard because ids are positive. For records, `AsWritten` is what any decoder leaves of one: all of it
but the kind of the timeout, whose value a `float64` keeps because it is below 2^53 (`FloatExact`).
`HasRecord` ties the record to the token and the minting configuration, which yields
`Recovers`: what a revocation reads is readable, usable, and leads to the minting client and the
token's own id, or is an older lease without a snapshot.

The argument for the cache. A getter that is building holds a configuration at least as new as
the last reset, because the reset excludes it from the lock (`Exclusion`, `Roles`), and as new as
storage unless a reset is still to come (`Building`). `Ordered` compares the numbers.

The argument for the rotation. Only the holder of `configLock` is past `idle` and `asked`
(`Locked`), so what it has read is still what is stored (`Knowing`), and the token it has minted is its
own and nowhere else (`Rotating`); a WAL entry never names the configured token (`Aside`), so a
rollback cannot be meant for it. `Known` says that a configured token lives at the configured AAP and
that `TokenID`, when it is set, is that token's id there; hence the tokens a rotation, its cleanup and the
first try of a rollback delete are the ones they are meant for (`PreviousIs`, `TakesOwn`, `CleanupTakes`,
`RevokeTakes`, `RollbackTakes`), and only `FallbackTakes` has another case, a token of that id at
another AAP, which is put in `struck`. `Born` says that nothing is stored or recorded before AAP has handed it
out, and that an entry points at the AAP of its token. With these, `RootAccounted` and
`ConfiguredLive` are inductive, one lemma per conjunct and one step per action. `TwoFailures` and
`NoStrayDelete` add `Counting`, which relates the failures seen so far to the point the rotation has
reached, to the entries there are, and to what has been struck.

The argument for the configuration store. `Consistent` and `IdOfToken` hold of every configuration
`Merge` yields from a consistent one and a request that passes `Accepted` (`MergeSound`), and the
handler stores the result over the configuration it was merged into, because it holds
`configLock` (`Exclusive`, `Knowing`). `Following` splits `JobFollows` at the Put: until the
Rotation Manager is called the job belongs to the configuration before. `MovesByCrossedCreate`
follows from `Inv`: an update that names a new connection without a credential is refused
(`Accepted`), so the credential it stores is one it brought, and a create over an existing
configuration is the crossed one, which `home` shows as `Absent`.

The argument for the roles. `Holding` carries it: a request past its lock holds the lock of its
stripe, and the role it has read is what is stored. Two requests on one name have one stripe, so a
commit changes no role that another request has read; what is stored is then a merge into the
current role, hence into what was meant, in every field but the scope of a crossed create
(`MergeMeant`, `NoLostField`; `Crossing` says that a role in `crossed` is one that is meant to exist), and `AcceptedUsable` says that a merge
which passes the checks is usable.

The argument for the clocks. `Aging` bounds the age of the entry by what is left of the deadlines:
before the guards end, age and remaining time add up to at most the longer of the request's
deadline and the first cleanup; in a cleanup, to that plus the second. With `AgeAssumption` no
entry of a running request is old enough. The linear steps are a lemma about natural numbers
(`Spend`). `ClockRenewals` needs that only `Renew` extends a lease (`OnlyRenewExtends`) and that what it
goes by was stored while it ran (`ReadSeen`).

Only model-checked: liveness (`RollbackResolves`, `CallsReturn`, `LockReleased`, `RetryResolves`,
`RequestsEnd`), which the prover cannot do. Every safety property that a run checks and expects to
hold is also a theorem. `Float` above 2^Mantissa is not reasoned about: `DeletesOwnId` promises
nothing there.

## Not modelled, and plan

Not modelled at all: HTTP, TLS, the building of URLs and JSON wording, the plugin's entry point,
declarations of paths and fields, build and release tooling. Reads and lists of roles and of the
configuration change nothing and compute nothing that a property could be about.

A Put of the configuration that was applied and returned an error skips `reset` (`path_config.go:328`): the
cached client stays outdated. The models contain this step, but no property catches it, since the
code has no remedy for it: `Fresh` names it as an exception, and the liveness properties ask only for what a
working client gives.

Abstracted:

- the snapshot is written in two places, `newWALToken` (`wal.go`) and `addRevocationData`
  (`revocation_config.go`), which list the same fields; both are one operator, `Record`, so a field that only
  one of them dropped would not show;
- token values and descriptions: a request marker is unique, so a sweep finds exactly its own token;
- pagination: the engine reads the first page of a filtered list, and `Answers` assumes that AAP's
  filter puts every exact match there;
- replication: role and config locks are one node's, and only `invalidate` is modelled of the rest;
- `lockRole` takes `int(h.Sum32()) % 64`, which is never negative where `int` has 64 bits, the only
  kind of build `.goreleaser.yaml` makes;
- AAP's own expiry of a token, a year by default, is taken to be after the lease's end, as the
  comment of `aapToken` does; a mount with a longer maximum is not modelled;
- Vault's core: its managers call again until they get nil, its `CalculateTTL` and its request
  deadline are as in the SDK the plugin is built with.

Next, in this order:

1. `Engine`, which composes issuance with rotation, so that credentials die by `rotateRoot` and
   not by a step of their own, with the theorem that it implements both.
2. Abstract specifications for the other stores: an atomic role store and an atomic configuration
   cell, refined by `RoleStore` and `ClientCache` under their locks.
