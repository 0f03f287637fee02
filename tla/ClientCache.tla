---------------------------- MODULE ClientCache ----------------------------
(***************************************************************************)
(* The AAP client the engine caches (backend.go): getClient with its       *)
(* double-checked locking over b.lock, and the writers that store a        *)
(* configuration and then drop the cached client with reset -- config      *)
(* writes, deletes and rotations under configLock, and invalidate, which   *)
(* Vault calls on this node when another node changed the configuration.   *)
(*                                                                         *)
(* Configurations are numbered in the order they were stored.  b.lock is a *)
(* Go RWMutex: a reader waits while a writer holds or awaits the lock, and *)
(* the writer's Unlock lets every waiting reader in.                       *)
(***************************************************************************)
EXTENDS Naturals

CONSTANTS Getter,    \* goroutines that call getClient
          Local,     \* goroutines that change the configuration here
          Remote,    \* invalidations of a configuration stored elsewhere
          MaxWrites, \* bound: configurations stored in a behaviour
          MaxFaults  \* bound: storage errors in a behaviour

ASSUME ProcAssumption ==
    Getter \cap (Local \cup Remote) = {} /\ Local \cap Remote = {}
ASSUME BoundAssumption == MaxWrites \in Nat /\ MaxFaults \in Nat

Writer == Local \cup Remote
Proc == Getter \cup Writer
None == 0   \* no client cached, nothing returned

VARIABLES
    pc,       \* where each goroutine is
    stored,   \* number of the stored configuration
    present,  \* FALSE when the last change was a delete
    client,   \* number of the configuration of b.client, None if nil
    read,     \* configuration a getter read from storage
    got,      \* what the last getClient of a getter returned, None on error
    clean,    \* history: the stored configuration when the last reset ran
    floor,    \* history: `clean' when the getter called getClient
    stale,    \* history: since the last reset, an errored Put was applied
    faults

vars == <<pc, stored, present, client, read, got, clean, floor, stale, faults>>

\* Who is where on b.lock.
Reading(p) == pc[p] = "check"
Writing(p) == pc[p] \in {"recheck", "read", "build", "reset"}
Waiting(p) == pc[p] \in {"lock", "resetlock"}

TypeOK ==
    /\ pc \in [Proc -> {"idle", "rwait", "check", "lock", "recheck", "read",
                        "build", "put", "resetlock", "reset"}]
    /\ stored \in 0..MaxWrites /\ client \in 0..MaxWrites
    /\ present \in BOOLEAN /\ stale \in BOOLEAN
    /\ read \in [Getter -> 0..MaxWrites]
    /\ \A g \in Getter : pc[g] = "build" => read[g] # None
    /\ got \in [Getter -> 0..MaxWrites]
    /\ clean \in 0..MaxWrites /\ floor \in [Getter -> 0..MaxWrites]
    /\ faults \in 0..MaxFaults

Init ==
    /\ pc = [p \in Proc |-> "idle"]
    /\ stored = 0 /\ present = FALSE /\ client = None
    /\ read = [g \in Getter |-> 0] /\ got = [g \in Getter |-> None]
    /\ clean = 0 /\ floor = [g \in Getter |-> 0]
    /\ stale = FALSE /\ faults = 0

Goto(p, at) == pc' = [pc EXCEPT ![p] = at]
Fault == faults < MaxFaults /\ faults' = faults + 1

\* A writer's Unlock: the readers that waited are in.
Unlock(p) ==
    pc' = [q \in Proc |-> IF q = p THEN "idle"
                          ELSE IF pc[q] = "rwait" THEN "check" ELSE pc[q]]

(***************************************************************************)
(* getClient.                                                              *)
(***************************************************************************)
\* RLock
Call(g) ==
    /\ pc[g] = "idle"
    /\ Goto(g, IF \E p \in Proc : Writing(p) \/ Waiting(p) THEN "rwait" ELSE "check")
    /\ floor' = [floor EXCEPT ![g] = clean]
    /\ UNCHANGED <<stored, present, client, read, got, clean, stale, faults>>

\* Under the read lock: the cached client, or RUnlock and ask for the lock.
Check(g) ==
    /\ pc[g] = "check"
    /\ \/ client # None /\ got' = [got EXCEPT ![g] = client] /\ Goto(g, "idle")
       \/ client = None /\ UNCHANGED got /\ Goto(g, "lock")
    /\ UNCHANGED <<stored, present, client, read, clean, floor, stale, faults>>

\* Lock, and with it the queue of writers.
Acquire(p, from, to) ==
    /\ pc[p] = from /\ \A q \in Proc : ~Reading(q) /\ ~Writing(q)
    /\ Goto(p, to)
    /\ UNCHANGED <<stored, present, client, read, got, clean, floor, stale, faults>>

LockToBuild(g) == Acquire(g, "lock", "recheck")

\* Mutant: an early return that forgets the deferred unlock.
Recheck_nounlock(g) ==
    /\ pc[g] = "recheck"
    /\ \/ client # None /\ got' = [got EXCEPT ![g] = client] /\ UNCHANGED pc
       \/ client = None /\ UNCHANGED got /\ Goto(g, "read")
    /\ UNCHANGED <<stored, present, client, read, clean, floor, stale, faults>>

\* Another goroutine may have built the client meanwhile.
Recheck(g) ==
    /\ pc[g] = "recheck"
    /\ \/ client # None /\ got' = [got EXCEPT ![g] = client] /\ Unlock(g)
       \/ client = None /\ UNCHANGED got /\ Goto(g, "read")
    /\ UNCHANGED <<stored, present, client, read, clean, floor, stale, faults>>

\* Mutant: a missing configuration is not an error.
ReadConfig_nocheck(g) ==
    /\ pc[g] = "read"
    /\ read' = [read EXCEPT ![g] = IF present THEN stored ELSE None]
    /\ Goto(g, "build")
    /\ UNCHANGED <<stored, present, client, got, clean, floor, stale, faults>>

\* getConfig: a writer may store another configuration right after.
ReadConfig(g) ==
    /\ pc[g] = "read"
    /\ \/ /\ present /\ read' = [read EXCEPT ![g] = stored]
          /\ Goto(g, "build") /\ UNCHANGED <<got, faults>>
       \/ /\ ~present /\ got' = [got EXCEPT ![g] = None]
          /\ Unlock(g) /\ UNCHANGED <<read, faults>>
       \/ /\ Fault /\ got' = [got EXCEPT ![g] = None]
          /\ Unlock(g) /\ UNCHANGED read
    /\ UNCHANGED <<stored, present, client, clean, floor, stale>>

\* newClient, and the assignment to b.client.
Build(g) ==
    /\ pc[g] = "build"
    /\ client' = read[g] /\ got' = [got EXCEPT ![g] = read[g]]
    /\ Unlock(g)
    /\ UNCHANGED <<stored, present, read, clean, floor, stale, faults>>

(***************************************************************************)
(* Writers: Put or Delete, then reset.                                     *)
(***************************************************************************)
\* configLock admits one local writer.
Begin(w) ==
    /\ pc[w] = "idle" /\ \A v \in Local : pc[v] = "idle"
    /\ Goto(w, "put")
    /\ UNCHANGED <<stored, present, client, read, got, clean, floor, stale, faults>>

Change == /\ stored < MaxWrites /\ stored' = stored + 1
          /\ present' \in BOOLEAN

\* Mutant: the write returns before the reset.
Put_noreset(w) ==
    /\ pc[w] = "put" /\ Change /\ Goto(w, "idle")
    /\ UNCHANGED <<client, read, got, clean, floor, stale, faults>>

Put(w) ==
    /\ pc[w] = "put" /\ Change
    /\ \/ Goto(w, "resetlock") /\ UNCHANGED <<stale, faults>>
       \/ Goto(w, "idle") /\ Fault /\ stale' = TRUE
    /\ UNCHANGED <<client, read, got, clean, floor>>

\* A rejected write or a failed Put changes nothing.
Reject(w) ==
    /\ pc[w] = "put" /\ Goto(w, "idle")
    /\ UNCHANGED <<stored, present, client, read, got, clean, floor, stale, faults>>

\* The change of another node reaches this one, then its invalidation.
Replicate(w) ==
    /\ pc[w] = "idle" /\ Change /\ Goto(w, "resetlock")
    /\ UNCHANGED <<client, read, got, clean, floor, stale, faults>>

\* Mutant: the client is dropped before the lock is held.
LockToReset_early(w) ==
    /\ pc[w] = "resetlock" /\ client' = None /\ Goto(w, "idle")
    /\ clean' = stored /\ stale' = FALSE
    /\ UNCHANGED <<stored, present, read, got, floor, faults>>

LockToReset(w) == Acquire(w, "resetlock", "reset")

Reset(w) ==
    /\ pc[w] = "reset" /\ client' = None /\ Unlock(w)
    /\ clean' = stored /\ stale' = FALSE
    /\ UNCHANGED <<stored, present, read, got, floor, faults>>

GetterStep(g) ==
    Check(g) \/ LockToBuild(g) \/ Recheck(g) \/ ReadConfig(g) \/ Build(g)
WriterStep(w) == Put(w) \/ Reject(w) \/ LockToReset(w) \/ Reset(w)

Next == \/ \E g \in Getter : Call(g) \/ GetterStep(g)
        \/ \E w \in Writer : WriterStep(w)
        \/ \E w \in Local : Begin(w)
        \/ \E w \in Remote : Replicate(w)

Spec == Init /\ [][Next]_vars

\* Every goroutine that has begun goes on; nobody has to begin.  Acquisition
\* of the lock is fair to each goroutine that queues for it.
Fairness ==
    /\ \A g \in Getter : WF_vars(GetterStep(g)) /\ SF_vars(LockToBuild(g))
    /\ \A w \in Writer : WF_vars(WriterStep(w)) /\ SF_vars(LockToReset(w))

FairSpec == Spec /\ Fairness

-----------------------------------------------------------------------------
(***************************************************************************)
(* Properties.                                                             *)
(***************************************************************************)
Resetting == \E w \in Writer : pc[w] \in {"resetlock", "reset"}

\* The cached client is that of the stored configuration, unless the writer
\* of a newer one has yet to reset it or returned an error without a reset:
\* no getClient puts an old configuration back after the reset.
Fresh == client \in {None, stored} \/ Resetting \/ stale

\* A getClient called after a write has returned never gives a client older
\* than that write, whether the client was cached or built.
ReadYourWrites ==
    \A g \in Getter : pc[g] = "idle" /\ got[g] # None => got[g] >= floor[g]

\* Whatever the writers and the other readers do, a getClient returns, and a
\* config write is not held up for ever by readers: b.lock cannot deadlock.
CallsReturn == \A p \in Proc : pc[p] # "idle" ~> pc[p] = "idle"

-----------------------------------------------------------------------------
(***************************************************************************)
(* The inductive invariant behind Fresh and ReadYourWrites.                *)
(***************************************************************************)
\* Writers exclude each other and the readers that look at b.client.
Exclusion ==
    \A p, q \in Proc : Writing(p) /\ (Writing(q) \/ Reading(q)) => p = q

\* A getter that is building holds no older configuration than the last reset.
Building ==
    \A g \in Getter : pc[g] = "build" =>
       /\ clean <= read[g]
       /\ read[g] = stored \/ Resetting \/ stale

Ordered == /\ present => stored # None
           /\ clean <= stored
           /\ client # None => clean <= client
           /\ \A g \in Getter : floor[g] <= clean

\* Getters stay with getClient, writers with Put and reset.
Roles ==
    /\ \A g \in Getter : pc[g] \notin {"put", "resetlock", "reset"}
    /\ \A w \in Writer : pc[w] \in {"idle", "put", "resetlock", "reset"}

Inv == /\ TypeOK /\ Roles /\ Exclusion /\ Building /\ Ordered
       /\ Fresh /\ ReadYourWrites
=============================================================================
