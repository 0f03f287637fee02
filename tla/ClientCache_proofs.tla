------------------------ MODULE ClientCache_proofs ------------------------
(***************************************************************************)
(* Proofs about ClientCache, for any goroutines and bounds: Inv is an      *)
(* invariant, and with it Fresh and ReadYourWrites.  The typing is proved  *)
(* first (it needs only that a stored configuration has a number), then    *)
(* who may be where on b.lock, then what the numbers say of each other.    *)
(***************************************************************************)
EXTENDS ClientCache, TLAPS

\* The initial state satisfies the invariant.
LEMMA Initially == Init => Inv
<1> SUFFICES ASSUME Init PROVE Inv
  OBVIOUS
<1> USE ProcAssumption, BoundAssumption DEF Init, Proc, Writer, None
<1>1. TypeOK
  <2>1. present \in BOOLEAN /\ stale \in BOOLEAN
    OBVIOUS
  <2> QED
    BY <2>1 DEF TypeOK
<1>2. Roles /\ Exclusion
  BY DEF Roles, Exclusion, Writing
<1>3. Building /\ Ordered /\ Fresh /\ ReadYourWrites
  BY DEF Building, Ordered, Fresh, ReadYourWrites
<1> QED
  BY <1>1, <1>2, <1>3 DEF Inv

\* A variable's type and the order of the numbers are kept by every step: a
\* getter builds only a configuration that is there.
LEMMA Typing == TypeOK /\ Ordered /\ [Next]_vars => TypeOK'
<1> SUFFICES ASSUME TypeOK, Ordered, [Next]_vars PROVE TypeOK'
  OBVIOUS
<1> USE BoundAssumption DEF TypeOK, Ordered, Proc, Writer, None, Goto, Fault
<1>1. ASSUME NEW g \in Getter, Call(g) PROVE TypeOK'
  BY <1>1 DEF Call
<1>2. ASSUME NEW g \in Getter, Check(g) PROVE TypeOK'
  BY <1>2 DEF Check
<1>3. ASSUME NEW g \in Getter, LockToBuild(g) PROVE TypeOK'
  BY <1>3 DEF LockToBuild, Acquire
<1>4. ASSUME NEW g \in Getter, Recheck(g) PROVE TypeOK'
  BY <1>4 DEF Recheck, Unlock
<1>5. ASSUME NEW g \in Getter, ReadConfig(g) PROVE TypeOK'
  BY <1>5 DEF ReadConfig, Unlock
<1>6. ASSUME NEW g \in Getter, Build(g) PROVE TypeOK'
  BY <1>6 DEF Build, Unlock
<1>7. ASSUME NEW w \in Writer, Put(w) PROVE TypeOK'
  <2>1. present' \in BOOLEAN /\ stale' \in BOOLEAN
    BY <1>7 DEF Put, Change
  <2> QED
    BY <1>7, <2>1 DEF Put, Change
<1>8. ASSUME NEW w \in Writer, Reject(w) PROVE TypeOK'
  BY <1>8 DEF Reject
<1>9. ASSUME NEW w \in Writer, LockToReset(w) PROVE TypeOK'
  BY <1>9 DEF LockToReset, Acquire
<1>10. ASSUME NEW w \in Writer, Reset(w) PROVE TypeOK'
  <2>1. pc' \in [Proc -> {"idle", "rwait", "check", "lock", "recheck", "read",
                          "build", "put", "resetlock", "reset"}]
    BY <1>10 DEF Reset, Unlock
  <2>2. \A g \in Getter : pc'[g] = "build" => pc[g] = "build"
    BY <1>10 DEF Reset, Unlock
  <2>3. present' \in BOOLEAN /\ stale' \in BOOLEAN
    BY <1>10 DEF Reset
  <2> QED
    BY <1>10, <2>1, <2>2, <2>3 DEF Reset
<1>11. ASSUME NEW w \in Local, Begin(w) PROVE TypeOK'
  BY <1>11 DEF Begin
<1>12. ASSUME NEW w \in Remote, Replicate(w) PROVE TypeOK'
  BY <1>12 DEF Replicate, Change
<1>13. CASE UNCHANGED vars
  BY <1>13 DEF vars
<1> QED
  BY <1>1, <1>2, <1>3, <1>4, <1>5, <1>6, <1>7, <1>8, <1>9, <1>10, <1>11,
     <1>12, <1>13 DEF Next, GetterStep, WriterStep

\* Getters and writers keep their roles, and b.lock keeps them apart.
LEMMA Locking ==
  TypeOK /\ Roles /\ Exclusion /\ [Next]_vars => Roles' /\ Exclusion'
<1> SUFFICES ASSUME TypeOK, Roles, Exclusion, [Next]_vars
             PROVE Roles' /\ Exclusion'
  OBVIOUS
<1>0. pc \in [Proc -> {"idle", "rwait", "check", "lock", "recheck", "read",
                       "build", "put", "resetlock", "reset"}]
  BY DEF TypeOK
<1> USE <1>0, ProcAssumption DEF Roles, Exclusion, Reading, Writing, Waiting,
                                 Proc, Writer, Goto
<1>1. ASSUME NEW g \in Getter, Call(g) PROVE Roles' /\ Exclusion'
  BY <1>1 DEF Call
<1>2. ASSUME NEW g \in Getter, Check(g) PROVE Roles' /\ Exclusion'
  BY <1>2 DEF Check
<1>3. ASSUME NEW g \in Getter, LockToBuild(g) PROVE Roles' /\ Exclusion'
  BY <1>3 DEF LockToBuild, Acquire
<1>4. ASSUME NEW g \in Getter, Recheck(g) PROVE Roles' /\ Exclusion'
  BY <1>4 DEF Recheck, Unlock
<1>5. ASSUME NEW g \in Getter, ReadConfig(g) PROVE Roles' /\ Exclusion'
  BY <1>5 DEF ReadConfig, Unlock
<1>6. ASSUME NEW g \in Getter, Build(g) PROVE Roles' /\ Exclusion'
  BY <1>6 DEF Build, Unlock
<1>7. ASSUME NEW w \in Writer, Put(w) PROVE Roles' /\ Exclusion'
  BY <1>7 DEF Put
<1>8. ASSUME NEW w \in Writer, Reject(w) PROVE Roles' /\ Exclusion'
  BY <1>8 DEF Reject
<1>9. ASSUME NEW w \in Writer, LockToReset(w) PROVE Roles' /\ Exclusion'
  BY <1>9 DEF LockToReset, Acquire
<1>10. ASSUME NEW w \in Writer, Reset(w) PROVE Roles' /\ Exclusion'
  BY <1>10 DEF Reset, Unlock
<1>11. ASSUME NEW w \in Local, Begin(w) PROVE Roles' /\ Exclusion'
  BY <1>11 DEF Begin
<1>12. ASSUME NEW w \in Remote, Replicate(w) PROVE Roles' /\ Exclusion'
  BY <1>12 DEF Replicate
<1>13. CASE UNCHANGED vars
  BY <1>13 DEF vars
<1> QED
  BY <1>1, <1>2, <1>3, <1>4, <1>5, <1>6, <1>7, <1>8, <1>9, <1>10, <1>11,
     <1>12, <1>13 DEF Next, GetterStep, WriterStep

\* What the numbers say of each other: nothing built, cached or returned is
\* older than the last reset it had to see.
Numbers == Building /\ Ordered /\ Fresh /\ ReadYourWrites

\* Every step keeps that; a reset meets no getter that is building.
LEMMA Numbering == Inv /\ [Next]_vars => Numbers'
<1> SUFFICES ASSUME Inv, [Next]_vars PROVE Numbers'
  OBVIOUS
<1> USE ProcAssumption, BoundAssumption
    DEF Inv, TypeOK, Roles, Numbers, Building, Ordered, Fresh, ReadYourWrites,
        Resetting, Proc, Writer, None, Goto, Fault
<1>1. ASSUME NEW g \in Getter, Call(g) PROVE Numbers'
  BY <1>1 DEF Call
<1>2. ASSUME NEW g \in Getter, Check(g) PROVE Numbers'
  BY <1>2 DEF Check
<1>3. ASSUME NEW g \in Getter, LockToBuild(g) PROVE Numbers'
  BY <1>3 DEF LockToBuild, Acquire
<1>4. ASSUME NEW g \in Getter, Recheck(g) PROVE Numbers'
  BY <1>4 DEF Recheck, Unlock
<1>5. ASSUME NEW g \in Getter, ReadConfig(g) PROVE Numbers'
  BY <1>5 DEF ReadConfig, Unlock
<1>6. ASSUME NEW g \in Getter, Build(g) PROVE Numbers'
  BY <1>6 DEF Build, Unlock
<1>7. ASSUME NEW w \in Writer, Put(w) PROVE Numbers'
  BY <1>7 DEF Put, Change
<1>8. ASSUME NEW w \in Writer, Reject(w) PROVE Numbers'
  BY <1>8 DEF Reject
<1>9. ASSUME NEW w \in Writer, LockToReset(w) PROVE Numbers'
  BY <1>9 DEF LockToReset, Acquire
<1>10. ASSUME NEW w \in Writer, Reset(w) PROVE Numbers'
  <2>1. \A g \in Getter : pc[g] # "build"
    BY <1>10 DEF Reset, Exclusion, Writing
  <2> QED
    BY <1>10, <2>1 DEF Reset, Unlock
<1>11. ASSUME NEW w \in Local, Begin(w) PROVE Numbers'
  BY <1>11 DEF Begin
<1>12. ASSUME NEW w \in Remote, Replicate(w) PROVE Numbers'
  BY <1>12 DEF Replicate, Change
<1>13. CASE UNCHANGED vars
  BY <1>13 DEF vars
<1> QED
  BY <1>1, <1>2, <1>3, <1>4, <1>5, <1>6, <1>7, <1>8, <1>9, <1>10, <1>11,
     <1>12, <1>13 DEF Next, GetterStep, WriterStep

\* The conjunction of all of them is an invariant of getClient, the config
\* writers and invalidate, at every interleaving.
THEOREM Invariance == Spec => []Inv
<1>1. Inv /\ [Next]_vars => Inv'
  BY Typing, Locking, Numbering DEF Inv, Numbers
<1> QED
  BY Initially, <1>1, PTL DEF Spec

\* Each variable keeps its type.
THEOREM CacheTyped == Spec => []TypeOK
  BY Invariance, PTL DEF Inv

\* After a reset no getClient puts an older client back in the cache.
THEOREM CacheFresh == Spec => []Fresh
  BY Invariance, PTL DEF Inv

\* getClient never returns a client older than the last write that had
\* returned when it was called.
THEOREM ReadsSeeWrites == Spec => []ReadYourWrites
  BY Invariance, PTL DEF Inv
=============================================================================
