----------------------------- MODULE RoleStore -----------------------------
(***************************************************************************)
(* Roles (path_roles.go): partial writes and deletes, and the creds/ reads *)
(* that mint with a role, under the striped role locks of backend.go.      *)
(* Names that hash to the same stripe share a lock, and a mint holds it    *)
(* until AAP has answered.  Vault's existence check and a renewal read a   *)
(* role without the lock.                                                  *)
(*                                                                         *)
(* `username' also stands for description and application, which are       *)
(* merged like it and checked by nobody.                                   *)
(***************************************************************************)
EXTENDS Naturals, FiniteSets

CONSTANTS Proc,       \* concurrent requests
          Name,       \* role names
          Lock,       \* role locks
          StripeOf,   \* the lock a name hashes to
          User, Bootstrap,
          Ttls,       \* values of ttl and max_ttl; 0 is "the mount's"
          Absent,     \* a field the request does not name
          Empty,      \* the empty string
          NoRole, NoProc, NoName,
          Asked,      \* the requests operators make, any set of them
          MaxFaults   \* bound: failed storage calls and crashes

Role == [scope : {"read", "write", Empty}, username : User \cup {Empty},
         bootstrap : Bootstrap \cup {Empty}, ttl : Ttls, max : Ttls]
Request == [scope : {"read", "write", Empty, Absent},
            username : User \cup {Empty, Absent},
            bootstrap : Bootstrap \cup {Empty, Absent},
            ttl : Ttls \cup {Absent}, max : Ttls \cup {Absent}]

ASSUME RoleNullAssumption ==
    /\ Absent \notin User \cup Bootstrap \cup {"read", "write", Empty}
    /\ Empty \notin User \cup Bootstrap \cup {"read", "write"}
    /\ Absent \notin Ttls
    /\ NoRole \notin Role /\ NoProc \notin Proc /\ NoName \notin Name
ASSUME RoleAssumption ==
    /\ StripeOf \in [Name -> Lock] /\ Asked \subseteq Request
    /\ 0 \in Ttls /\ Ttls \subseteq Nat /\ MaxFaults \in Nat

VARIABLES
    roles,   \* stored roles
    locks,   \* who holds each role lock
    proc,    \* per request: where it is, what it asks, the role it has read
    faults,  \* failed storage calls and crashes so far
    meant,   \* history: each field as the last stored write that named it
    crossed  \* history: roles whose scope a create that crossed a write reset

vars == <<roles, locks, proc, faults, meant, crossed>>

NoRequest == [x \in {"scope", "username", "bootstrap", "ttl", "max"} |-> Absent]
Idle == [pc |-> "idle", kind |-> "mint", name |-> NoName, req |-> NoRequest,
         op |-> "update", role |-> NoRole]

ProcType == [pc : {"idle", "asked", "held"}, kind : {"write", "delete", "mint"},
             name : Name \cup {NoName}, req : Request,
             op : {"create", "update"}, role : Role \cup {NoRole}]

TypeOK ==
    /\ roles \in [Name -> Role \cup {NoRole}]
    /\ locks \in [Lock -> Proc \cup {NoProc}]
    /\ proc \in [Proc -> ProcType]
    /\ faults \in 0..MaxFaults
    /\ meant \in [Name -> Role \cup {NoRole}] /\ crossed \subseteq Name

Init ==
    /\ roles = [n \in Name |-> NoRole] /\ locks = [l \in Lock |-> NoProc]
    /\ proc = [p \in Proc |-> Idle]
    /\ faults = 0 /\ meant = [n \in Name |-> NoRole]
    /\ crossed = {}

Fault == faults < MaxFaults /\ faults' = faults + 1

(***************************************************************************)
(* pathRolesWrite: what a request makes of the stored role.                *)
(***************************************************************************)
Pick(x, y) == IF x = Absent THEN y ELSE x

Fresh == [scope |-> Empty, username |-> Empty, bootstrap |-> Empty,
          ttl |-> 0, max |-> 0]

\* Every field the request names; a create that names no scope gets "read".
Merge(old, f, op) ==
    LET b == IF old = NoRole THEN Fresh ELSE old IN
    [scope |-> Pick(f.scope, IF op = "create" THEN "read" ELSE b.scope),
     username |-> Pick(f.username, b.username),
     bootstrap |-> Pick(f.bootstrap, b.bootstrap),
     ttl |-> Pick(f.ttl, b.ttl), max |-> Pick(f.max, b.max)]

\* Mutant: the username is checked against the request, not the merged role.
Accepted_request(old, f, op) ==
    LET r == Merge(old, f, op) IN
    /\ r.scope # Empty
    /\ f.username \notin {Absent, Empty} => r.bootstrap # Empty
    /\ r.max # 0 => r.ttl <= r.max

Accepted(old, f, op) ==
    LET r == Merge(old, f, op) IN
    /\ r.scope # Empty
    /\ r.username # Empty => r.bootstrap # Empty
    /\ r.max # 0 => r.ttl <= r.max

\* The same fields over the role as it was last meant to be; only a role that
\* is new gets the default scope.
Intended(m, f) ==
    LET b == IF m = NoRole THEN [Fresh EXCEPT !.scope = "read"] ELSE m IN
    [scope |-> Pick(f.scope, b.scope), username |-> Pick(f.username, b.username),
     bootstrap |-> Pick(f.bootstrap, b.bootstrap),
     ttl |-> Pick(f.ttl, b.ttl), max |-> Pick(f.max, b.max)]

(***************************************************************************)
(* Requests.                                                               *)
(***************************************************************************)
\* The existence check, which makes a write a create or an update, reads the
\* role before the handler takes its lock.
Write(p, n, f) ==
    /\ proc[p].pc = "idle"
    /\ proc' = [proc EXCEPT ![p] =
         [pc |-> "asked", kind |-> "write", name |-> n, req |-> f,
          op |-> IF roles[n] = NoRole THEN "create" ELSE "update",
          role |-> NoRole]]
    /\ UNCHANGED <<roles, locks, faults, meant, crossed>>

\* A role delete, or a creds/ read.
Call(p, n, kind) ==
    /\ proc[p].pc = "idle"
    /\ proc' = [proc EXCEPT ![p] = [Idle EXCEPT !.pc = "asked", !.kind = kind,
                                                !.name = n]]
    /\ UNCHANGED <<roles, locks, faults, meant, crossed>>

Stripe(p) == StripeOf[proc[p].name]

\* Mutant: a delete does not wait for the role lock.
Acquire_writersonly(p) ==
    /\ proc[p].pc = "asked"
    /\ locks[Stripe(p)] = NoProc \/ proc[p].kind = "delete"
    /\ locks' = [locks EXCEPT ![Stripe(p)] = p]
    /\ proc' = [proc EXCEPT ![p] = [@ EXCEPT !.pc = "held",
                                             !.role = roles[proc[p].name]]]
    /\ UNCHANGED <<roles, faults, meant, crossed>>

\* Mutant: writers share the lock.
Acquire_shared(p) ==
    /\ proc[p].pc = "asked"
    /\ locks[Stripe(p)] = NoProc \/ proc[p].kind = "write"
    /\ locks' = [locks EXCEPT ![Stripe(p)] = p]
    /\ proc' = [proc EXCEPT ![p] = [@ EXCEPT !.pc = "held",
                                             !.role = roles[proc[p].name]]]
    /\ UNCHANGED <<roles, faults, meant, crossed>>

\* lockRole, and the getRole under it.
Acquire(p) ==
    /\ proc[p].pc = "asked" /\ locks[Stripe(p)] = NoProc
    /\ locks' = [locks EXCEPT ![Stripe(p)] = p]
    /\ proc' = [proc EXCEPT ![p] = [@ EXCEPT !.pc = "held",
                                             !.role = roles[proc[p].name]]]
    /\ UNCHANGED <<roles, faults, meant, crossed>>

\* Mutant: the lock is not deferred, and only the success path unlocks.
Refuse_locked(p) ==
    /\ proc[p].pc = "held"
    /\ proc' = [proc EXCEPT ![p] = Idle]
    /\ UNCHANGED <<roles, locks, faults, meant, crossed>>

Return(p) ==
    /\ proc' = [proc EXCEPT ![p] = Idle]
    /\ locks' = [locks EXCEPT ![Stripe(p)] = NoProc]

\* The request is refused: the storage read failed, a check of the write did,
\* the role of a mint does not exist, or AAP did not mint.
Refuse(p) ==
    /\ proc[p].pc = "held" /\ Return(p)
    /\ UNCHANGED <<roles, faults, meant, crossed>>

\* The write reaches storage.  A create that finds a role has crossed another
\* write, and resets the scope unless it names one.
Stored(p) ==
    LET n == proc[p].name
        f == proc[p].req
    IN
    /\ proc[p].kind = "write" /\ Accepted(proc[p].role, f, proc[p].op)
    /\ roles' = [roles EXCEPT ![n] = Merge(proc[p].role, f, proc[p].op)]
    /\ meant' = [meant EXCEPT ![n] = Intended(meant[n], f)]
    /\ crossed' = IF f.scope # Absent THEN crossed \ {n}
                  ELSE IF proc[p].op = "create" /\ proc[p].role # NoRole
                  THEN crossed \cup {n} ELSE crossed

Removed(p) ==
    /\ proc[p].kind = "delete"
    /\ roles' = [roles EXCEPT ![proc[p].name] = NoRole]
    /\ meant' = [meant EXCEPT ![proc[p].name] = NoRole]
    /\ crossed' = crossed \ {proc[p].name}

Commit(p) ==
    /\ proc[p].pc = "held" /\ (Stored(p) \/ Removed(p))
    /\ Return(p) /\ UNCHANGED faults

\* Put or Delete returns an error; it may have been applied all the same.
CommitFails(p) ==
    /\ proc[p].pc = "held" /\ Fault /\ (Stored(p) \/ Removed(p))
    /\ Return(p)

\* createCreds returns, with a token or with an error.
Minted(p) ==
    /\ proc[p].pc = "held" /\ proc[p].kind = "mint" /\ proc[p].role # NoRole
    /\ Return(p) /\ UNCHANGED <<roles, faults, meant, crossed>>

Crash ==
    /\ Fault /\ proc' = [p \in Proc |-> Idle]
    /\ locks' = [l \in Lock |-> NoProc]
    /\ UNCHANGED <<roles, meant, crossed>>

Finish(p) == Refuse(p) \/ Commit(p) \/ CommitFails(p) \/ Minted(p)

Next ==
    \/ \E p \in Proc : Acquire(p) \/ Finish(p)
    \/ \E p \in Proc, n \in Name :
         \/ \E f \in Asked : Write(p, n, f)
         \/ Call(p, n, "delete") \/ Call(p, n, "mint")
    \/ Crash

Spec == Init /\ [][Next]_vars

\* A request that holds a lock ends, for every call it makes has a timeout; a
\* sync.Mutex does not pass over a waiter for ever.  Nobody has to call.
Fairness == \A p \in Proc : SF_vars(Acquire(p)) /\ WF_vars(Finish(p))
FairSpec == Spec /\ Fairness

-----------------------------------------------------------------------------
(***************************************************************************)
(* Properties.                                                             *)
(***************************************************************************)
\* A token is minted with the role as it is stored, from the read of the role
\* to the answer of creds/: no write or delete of it ends in between.
MintUsesStoredRole ==
    \A p \in Proc : proc[p].pc = "held" /\ proc[p].kind = "mint"
                      => proc[p].role = roles[proc[p].name]

\* Partial writes in any order, deletes between them included, leave roles a
\* mint can use: a scope AAP knows, no username without a bootstrap token,
\* no ttl above max_ttl.
Usable(r) ==
    /\ r.scope \in {"read", "write"}
    /\ r.username # Empty => r.bootstrap # Empty
    /\ r.max # 0 => r.ttl <= r.max
RolesUsable == \A n \in Name : roles[n] # NoRole => Usable(roles[n])

\* No lost update: what is stored is every field as the last stored write that
\* named it left it, and nothing from before the last delete.  One field is
\* lost, and no other: two overlapping creates both apply, and the second, when
\* it names no scope, puts "read" over the scope the first one named.
Defaulted(r) == [scope |-> "read", username |-> r.username,
                 bootstrap |-> r.bootstrap, ttl |-> r.ttl, max |-> r.max]
NoLostField ==
    \A n \in Name :
        roles[n] = IF n \in crossed THEN Defaulted(meant[n]) ELSE meant[n]

\* Every request gets its lock and ends: no path keeps a role lock.
RequestsEnd == \A p \in Proc : []<>(proc[p].pc = "idle")

-----------------------------------------------------------------------------
(***************************************************************************)
(* The inductive invariant.                                                *)
(***************************************************************************)
\* A request past its lock holds it, and has read what is stored.
Holding ==
    \A p \in Proc :
       /\ proc[p].pc # "idle" => proc[p].name \in Name
       /\ proc[p].pc = "held" =>
            locks[Stripe(p)] = p /\ proc[p].role = roles[proc[p].name]

\* A delete ends what was lost.
Crossing == \A n \in crossed : meant[n] # NoRole

Inv == TypeOK /\ Holding /\ RolesUsable /\ NoLostField /\ Crossing
=============================================================================
