-------------------------- MODULE CredentialClock --------------------------
(***************************************************************************)
(* The clocks of one credential.  A request runs under the deadline Vault  *)
(* gives it, each of its HTTP calls under the client's timeout, and what   *)
(* must end whatever the caller does under a cleanup timeout of its own;   *)
(* meanwhile its WAL entry grows old enough for a rollback.  The lease that *)
(* follows runs down, and is renewed with the ttl and max_ttl of a role    *)
(* that operators rewrite and delete.                                      *)
(*                                                                         *)
(* Time passes in steps; a call that has reached its deadline ends first.  *)
(***************************************************************************)
EXTENDS Integers

CONSTANTS MaxRequest,  \* Vault's default_max_request_duration
          Timeout,     \* request_timeout, for each call
          Cleanup,     \* defaultHTTPTimeout, for a cleanup context
          MinAge,      \* walRollbackMinAge
          Roles,       \* ttl and max_ttl of the roles; 0 is "the mount's"
          Increments,  \* what a renewal may ask for; 0 is "the role's"
          MountTtl, MountMax,
          NoRole

ASSUME ClockAssumption ==
    /\ {MaxRequest, Timeout, Cleanup, MinAge, MountTtl, MountMax} \subseteq Nat
    /\ Roles \subseteq [ttl : Nat, max : Nat] /\ Increments \subseteq Nat
    /\ NoRole \notin Roles
\* wal.go: 5 minutes, 90 seconds and 30 seconds.
ASSUME AgeAssumption ==
    MaxRequest + Cleanup < MinAge /\ Cleanup + Cleanup < MinAge

VARIABLES
    pc,       \* where the request, and then the lease, is
    ctx,      \* time left to the request's context
    call,     \* time left to the call, or to the cleanup context
    wal,      \* the WAL entry: "none" or "entry"
    age,      \* its age, up to MinAge
    token,    \* in AAP: "none", "live" or "gone"
    role,     \* the stored role
    granted,  \* the role the request read
    left,     \* time left to the lease
    since,    \* its age, up to MountMax
    read,     \* the role a running renewal has read: <<>> or <<role>>
    seen      \* history: the roles stored since that renewal began

lease == <<left, since, read, seen>>
vars == <<pc, ctx, call, wal, age, token, role, granted, lease>>

Guards == {"app", "owner"}
Cleaning == {"commit", "undo"}

TypeOK ==
    /\ pc \in {"idle", "put", "respond", "leased"} \cup Guards \cup Cleaning
    /\ ctx \in 0..MaxRequest /\ call \in Nat
    /\ wal \in {"none", "entry"} /\ age \in 0..MinAge
    /\ token \in {"none", "live", "gone"}
    /\ role \in Roles \cup {NoRole} /\ granted \in Roles \cup {NoRole}
    /\ since \in 0..MountMax /\ left \in 0..(MountMax - since)
    /\ read \in {<<>>} \cup {<<r>> : r \in Roles \cup {NoRole}}
    /\ seen \subseteq Roles \cup {NoRole}

Init ==
    /\ pc = "idle" /\ ctx = 0 /\ call = 0 /\ wal = "none" /\ age = 0
    /\ token = "none" /\ role = NoRole /\ granted = NoRole
    /\ left = 0 /\ since = 0 /\ read = <<>> /\ seen = {}

(***************************************************************************)
(* creds/<role>, from the answer of the POST on.                           *)
(***************************************************************************)
EndRequest == ctx' = 0 /\ call' = 0 /\ granted' = NoRole

\* Some of the request's time is gone; the entry is dated, then stored under
\* a cleanup context that the caller cannot cancel.
Mint ==
    /\ pc = "idle" /\ wal = "none" /\ role # NoRole
    /\ pc' = "put" /\ ctx' \in 0..MaxRequest /\ call' = Cleanup /\ age' = 0
    /\ token' = "live" /\ granted' = role
    /\ UNCHANGED <<wal, role, lease>>

PutWal ==
    /\ pc = "put" /\ wal' = "entry" /\ pc' = "app" /\ call' = Timeout
    /\ UNCHANGED <<ctx, age, token, role, granted, lease>>

\* revokeBestEffort goes on under the same cleanup context.
PutWalFails ==
    /\ pc = "put" /\ wal' \in {"none", "entry"} /\ pc' = "undo"
    /\ UNCHANGED <<ctx, call, age, token, role, granted, lease>>

\* A guard passes, or the token is revoked under a cleanup context.
CheckApplication ==
    /\ pc = "app"
    /\ \/ pc' = "owner" /\ call' = Timeout
       \/ pc' = "undo" /\ call' = Cleanup
    /\ UNCHANGED <<ctx, wal, age, token, role, granted, lease>>

CheckOwner ==
    /\ pc = "owner" /\ pc' \in Cleaning /\ call' = Cleanup
    /\ UNCHANGED <<ctx, wal, age, token, role, granted, lease>>

DropWal ==
    /\ pc = "commit" /\ wal' = "none" /\ pc' = "respond"
    /\ UNCHANGED <<ctx, call, age, token, role, granted, lease>>

\* The caller is gone, or DeleteWAL fails: what follows has the rest of the
\* same cleanup context.
Abandon ==
    /\ pc = "commit" /\ wal' \in {"none", "entry"} /\ pc' = "undo"
    /\ UNCHANGED <<ctx, call, age, token, role, granted, lease>>

\* The token is revoked and its entry deleted, as far as the calls succeed.
Undo ==
    /\ pc = "undo" /\ pc' = "idle" /\ token' \in {token, "gone"}
    /\ wal' = wal \/ (token' = "gone" /\ wal' = "none")
    /\ EndRequest /\ UNCHANGED <<age, role, lease>>

\* Vault stops; the entry, if there is one, stays.
Crash ==
    /\ pc \notin {"idle", "leased"} /\ pc' = "idle"
    /\ EndRequest /\ UNCHANGED <<wal, age, token, role, lease>>

\* The rollback manager leaves entries younger than MinAge alone.
Rollback ==
    /\ wal = "entry" /\ age >= MinAge /\ wal' = "none" /\ token' = "gone"
    /\ UNCHANGED <<pc, ctx, call, age, role, granted, lease>>

(***************************************************************************)
(* The lease.                                                              *)
(***************************************************************************)
\* Vault's CalculateTTL: what is asked for, else the role's ttl, else the
\* mount's, within the lesser max_ttl from the time of issue.
MaxOf(r) == IF r.max > 0 /\ r.max < MountMax THEN r.max ELSE MountMax
TtlOf(r, inc) == IF inc > 0 THEN inc ELSE IF r.ttl > 0 THEN r.ttl ELSE MountTtl
Calculated(r, inc, elapsed) ==
    LET rest == MaxOf(r) - elapsed IN
    IF TtlOf(r, inc) > rest THEN rest ELSE TtlOf(r, inc)

RegisterLease ==
    /\ pc = "respond" /\ pc' = "leased"
    /\ left' = Calculated(granted, 0, 0) /\ since' = 0
    /\ EndRequest /\ UNCHANGED <<wal, age, token, role, read, seen>>

\* tokenRenew reads the role, without its lock.
RenewRead ==
    /\ pc = "leased" /\ left > 0 /\ read = <<>>
    /\ read' = <<role>> /\ seen' = {role}
    /\ UNCHANGED <<pc, ctx, call, wal, age, token, role, granted, left, since>>

EndRenewal == read' = <<>> /\ seen' = {}

\* Mutant: the renewal carries the role's ttl, and no max_ttl.
Renew_nomax(inc) ==
    /\ pc = "leased" /\ left > 0 /\ since < MountMax
    /\ \E r \in Roles :
         read = <<r>> /\ left' = Calculated([r EXCEPT !.max = 0], inc, since)
    /\ EndRenewal
    /\ UNCHANGED <<pc, ctx, call, wal, age, token, role, granted, since>>

\* Mutant: the renewed lease is one issued now.
Renew_fromnow(inc) ==
    /\ pc = "leased" /\ left > 0
    /\ \E r \in Roles : read = <<r>> /\ left' = Calculated(r, inc, 0)
    /\ EndRenewal
    /\ UNCHANGED <<pc, ctx, call, wal, age, token, role, granted, since>>

\* The ttl and max_ttl of the role go back to Vault, which sets the lease.
Renew(inc) ==
    /\ pc = "leased" /\ left > 0
    /\ \E r \in Roles : /\ read = <<r>> /\ since < MaxOf(r)
                      /\ left' = Calculated(r, inc, since)
    /\ EndRenewal
    /\ UNCHANGED <<pc, ctx, call, wal, age, token, role, granted, since>>

\* The role is gone, or the lease is past its maximum: the lease keeps what
\* it has left.
RenewRefused ==
    /\ pc = "leased"
    /\ \/ read = <<NoRole>>
       \/ \E r \in Roles : read = <<r>> /\ MaxOf(r) <= since
    /\ EndRenewal
    /\ UNCHANGED <<pc, ctx, call, wal, age, token, role, granted, left, since>>

\* The lease ends, at its time or revoked before, and the token with it.
Expire ==
    /\ pc = "leased" /\ pc' = "idle" /\ token' = "gone"
    /\ left' = 0 /\ since' = 0 /\ EndRenewal
    /\ UNCHANGED <<ctx, call, wal, age, role, granted>>

(***************************************************************************)
(* Operators, and time.                                                    *)
(***************************************************************************)
\* A role write or delete waits for the lock of a running request.
SetRole(r) ==
    /\ pc \in {"idle", "leased"} /\ role' = r
    /\ seen' = IF read = <<>> THEN seen ELSE seen \cup {r}
    /\ UNCHANGED <<pc, ctx, call, wal, age, token, granted, left, since, read>>

Less(n) == IF n = 0 THEN 0 ELSE n - 1
Upto(n, max) == IF n < max THEN n + 1 ELSE max

\* Mutant: the guards do not run under the request's context.
MayWait_detached ==
    /\ pc \in {"put"} \cup Guards \cup Cleaning => call > 0
    /\ pc = "leased" => left > 0

\* No call, and no lease, outlasts its deadline.
MayWait ==
    /\ pc \in {"put"} \cup Guards \cup Cleaning => call > 0
    /\ pc \in Guards => ctx > 0
    /\ pc = "leased" => left > 0

Tick ==
    /\ MayWait
    /\ ctx' = Less(ctx) /\ call' = Less(call)
    /\ age' = IF pc = "leased" THEN age ELSE Upto(age, MinAge)
    /\ IF pc = "leased"
       THEN left' = Less(left) /\ since' = Upto(since, MountMax)
       ELSE UNCHANGED <<left, since>>
    /\ UNCHANGED <<pc, wal, token, role, granted, read, seen>>

Next ==
    \/ Mint \/ PutWal \/ PutWalFails \/ CheckApplication \/ CheckOwner
    \/ DropWal \/ Abandon \/ Undo \/ Crash \/ Rollback
    \/ RegisterLease \/ RenewRead \/ RenewRefused \/ Expire
    \/ \E inc \in Increments : Renew(inc)
    \/ \E r \in Roles \cup {NoRole} : SetRole(r)
    \/ Tick

Spec == Init /\ [][Next]_vars

-----------------------------------------------------------------------------
(***************************************************************************)
(* Properties.                                                             *)
(***************************************************************************)
\* No rollback revokes the token of a request that may still hand it out, nor
\* one that is leased: however long its calls take, a request is over, or its
\* entry deleted, before the entry is old enough.
RollbackSparesRequests ==
    pc \in {"put", "commit", "respond", "leased"} \cup Guards => token = "live"

\* A renewal that extends a lease goes by a role that was stored while the
\* renewal ran, and stays within its max_ttl from the time of issue: after a
\* delete, or once max_ttl is tightened, only a renewal that had begun before
\* can still extend the lease.
RenewalAllowed ==
    [][pc = "leased" /\ left' > left =>
         \E r \in seen \ {NoRole} : since + left' <= MaxOf(r)]_vars

-----------------------------------------------------------------------------
(***************************************************************************)
(* The inductive invariant.                                                *)
(***************************************************************************)
Longest == IF MaxRequest < Cleanup THEN Cleanup ELSE MaxRequest

\* How old the entry can be at each point of the request.
Aging ==
    /\ pc \in {"put"} \cup Guards => (ctx > 0 => age + ctx <= MaxRequest)
    /\ pc = "put" => age + call <= Cleanup
    /\ pc \in Guards => age <= Longest
    /\ pc \in Cleaning => age + call <= Longest + Cleanup

\* An entry is there from its Put to its Delete, and before a lease.
Covered == pc \in {"put", "respond", "leased"} => wal = "none"

\* What a renewal goes by was stored while it ran.
ReadSeen == \A r \in Roles \cup {NoRole} : read = <<r>> => r \in seen

Granted == pc \notin {"idle", "leased"} => granted \in Roles

Inv ==
    /\ TypeOK /\ Aging /\ Covered /\ ReadSeen /\ Granted
    /\ RollbackSparesRequests
=============================================================================
