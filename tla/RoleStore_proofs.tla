-------------------------- MODULE RoleStore_proofs --------------------------
(***************************************************************************)
(* Proofs about RoleStore, for any number of requests, roles and locks,    *)
(* any hash and any set of requests.                                       *)
(***************************************************************************)
EXTENDS RoleStore, TLAPS

LEMMA IdleType == Idle \in ProcType
  BY DEF Idle, NoRequest, Request, ProcType

LEMMA InitInv == Init => Inv
  <1> SUFFICES ASSUME Init PROVE Inv
    OBVIOUS
  <1>1. TypeOK
    BY IdleType, RoleAssumption DEF Init, TypeOK
  <1>2. Holding
    BY DEF Init, Holding, Idle
  <1>3. RolesUsable /\ NoLostField /\ Crossing
    BY DEF Init, RolesUsable, NoLostField, Crossing
  <1> QED BY <1>1, <1>2, <1>3 DEF Inv

-----------------------------------------------------------------------------
(***************************************************************************)
(* What a write makes of a role.                                           *)
(***************************************************************************)
LEMMA MergeType ==
  ASSUME NEW old \in Role \cup {NoRole}, NEW f \in Request,
         NEW op \in {"create", "update"}
  PROVE  Merge(old, f, op) \in Role
  <1> DEFINE b == IF old = NoRole THEN Fresh ELSE old
  <1>1. b \in Role
    BY RoleAssumption DEF Role, Fresh
  <1>2. b.scope \in {"read", "write", Empty} /\ b.username \in User \cup {Empty}
        /\ b.bootstrap \in Bootstrap \cup {Empty} /\ b.ttl \in Ttls
        /\ b.max \in Ttls
    BY <1>1 DEF Role
  <1>3. Merge(old, f, op) =
          [scope |-> Pick(f.scope, IF op = "create" THEN "read" ELSE b.scope),
           username |-> Pick(f.username, b.username),
           bootstrap |-> Pick(f.bootstrap, b.bootstrap),
           ttl |-> Pick(f.ttl, b.ttl), max |-> Pick(f.max, b.max)]
    BY DEF Merge
  <1> HIDE DEF b
  <1>4. Pick(f.scope, IF op = "create" THEN "read" ELSE b.scope)
          \in {"read", "write", Empty}
    BY <1>2 DEF Pick, Request
  <1>5. Pick(f.username, b.username) \in User \cup {Empty}
    BY <1>2 DEF Pick, Request
  <1>6. Pick(f.bootstrap, b.bootstrap) \in Bootstrap \cup {Empty}
    BY <1>2 DEF Pick, Request
  <1>7. Pick(f.ttl, b.ttl) \in Ttls /\ Pick(f.max, b.max) \in Ttls
    BY <1>2 DEF Pick, Request
  <1> QED BY <1>3, <1>4, <1>5, <1>6, <1>7 DEF Role

\* A write that is accepted stores a role a mint can use.
LEMMA AcceptedUsable ==
  ASSUME NEW old \in Role \cup {NoRole}, NEW f \in Request,
         NEW op \in {"create", "update"}, Accepted(old, f, op)
  PROVE  Usable(Merge(old, f, op))
  <1>1. Merge(old, f, op).scope \in {"read", "write", Empty}
    BY MergeType DEF Role
  <1> QED BY <1>1 DEF Accepted, Usable

\* What is meant is a role too.
LEMMA IntendedType ==
  ASSUME NEW m \in Role \cup {NoRole}, NEW f \in Request
  PROVE  Intended(m, f) \in Role
  <1> DEFINE b == IF m = NoRole THEN [Fresh EXCEPT !.scope = "read"] ELSE m
  <1>1. b \in Role
    BY RoleAssumption DEF Role, Fresh
  <1>2. b.scope \in {"read", "write", Empty} /\ b.username \in User \cup {Empty}
        /\ b.bootstrap \in Bootstrap \cup {Empty} /\ b.ttl \in Ttls
        /\ b.max \in Ttls
    BY <1>1 DEF Role
  <1>3. Intended(m, f) =
          [scope |-> Pick(f.scope, b.scope),
           username |-> Pick(f.username, b.username),
           bootstrap |-> Pick(f.bootstrap, b.bootstrap),
           ttl |-> Pick(f.ttl, b.ttl), max |-> Pick(f.max, b.max)]
    BY DEF Intended
  <1> HIDE DEF b
  <1>4. Pick(f.scope, b.scope) \in {"read", "write", Empty}
    BY <1>2 DEF Pick, Request
  <1>5. Pick(f.username, b.username) \in User \cup {Empty}
    BY <1>2 DEF Pick, Request
  <1>6. Pick(f.bootstrap, b.bootstrap) \in Bootstrap \cup {Empty}
    BY <1>2 DEF Pick, Request
  <1>7. Pick(f.ttl, b.ttl) \in Ttls /\ Pick(f.max, b.max) \in Ttls
    BY <1>2 DEF Pick, Request
  <1> QED BY <1>3, <1>4, <1>5, <1>6, <1>7 DEF Role

\* A write over what is meant stores what is meant; a create that found a role
\* and names no scope stores it with the default one, and so does any write
\* that names none over a role whose scope had been reset.
LEMMA MergeMeant ==
  ASSUME NEW m \in Role \cup {NoRole}, NEW f \in Request,
         NEW op \in {"create", "update"}, NEW reset \in BOOLEAN,
         reset => m # NoRole,
         Accepted(IF reset THEN Defaulted(m) ELSE m, f, op)
  PROVE  Merge(IF reset THEN Defaulted(m) ELSE m, f, op) =
           IF f.scope = Absent /\ (reset \/ (op = "create" /\ m # NoRole))
           THEN Defaulted(Intended(m, f)) ELSE Intended(m, f)
  <1> DEFINE old == IF reset THEN Defaulted(m) ELSE m
             b == IF old = NoRole THEN Fresh ELSE old
             c == IF m = NoRole THEN [Fresh EXCEPT !.scope = "read"] ELSE m
             s == IF op = "create" THEN "read" ELSE b.scope
  <1>1. old = NoRole <=> m = NoRole
    BY RoleNullAssumption DEF Defaulted, Role
  <1>2. /\ b.username = c.username /\ b.bootstrap = c.bootstrap
        /\ b.ttl = c.ttl /\ b.max = c.max
    BY <1>1 DEF Defaulted, Fresh
  <1>3. Merge(old, f, op) =
          [scope |-> Pick(f.scope, s),
           username |-> Pick(f.username, c.username),
           bootstrap |-> Pick(f.bootstrap, c.bootstrap),
           ttl |-> Pick(f.ttl, c.ttl), max |-> Pick(f.max, c.max)]
    BY <1>2 DEF Merge
  <1>4. Intended(m, f) =
          [scope |-> Pick(f.scope, c.scope),
           username |-> Pick(f.username, c.username),
           bootstrap |-> Pick(f.bootstrap, c.bootstrap),
           ttl |-> Pick(f.ttl, c.ttl), max |-> Pick(f.max, c.max)]
    BY DEF Intended
  <1>5. Defaulted(Intended(m, f)) =
          [scope |-> "read",
           username |-> Pick(f.username, c.username),
           bootstrap |-> Pick(f.bootstrap, c.bootstrap),
           ttl |-> Pick(f.ttl, c.ttl), max |-> Pick(f.max, c.max)]
    BY <1>4 DEF Defaulted
  <1>6. Merge(old, f, op).scope # Empty
    BY DEF Accepted
  <1>7. Pick(f.scope, s) # Empty
    BY <1>3, <1>6
  <1>8. m = NoRole => b.scope = Empty /\ c.scope = "read"
    BY <1>1 DEF Fresh
  <1>9. m # NoRole => c.scope = m.scope /\ b.scope = IF reset THEN "read" ELSE m.scope
    BY <1>1 DEF Defaulted
  <1> HIDE DEF old, b, c
  <1>10. Pick(f.scope, s) =
           IF f.scope = Absent /\ (reset \/ (op = "create" /\ m # NoRole))
           THEN "read" ELSE Pick(f.scope, c.scope)
    BY <1>7, <1>8, <1>9 DEF Pick
  <1>11. Merge(old, f, op) =
           IF f.scope = Absent /\ (reset \/ (op = "create" /\ m # NoRole))
           THEN Defaulted(Intended(m, f)) ELSE Intended(m, f)
    BY <1>3, <1>4, <1>5, <1>10
  <1> QED BY <1>11 DEF old

-----------------------------------------------------------------------------
(***************************************************************************)
(* Every step keeps the invariant.                                         *)
(***************************************************************************)
\* A request asks: it holds nothing yet.
LEMMA AskInv ==
  ASSUME Inv, NEW p \in Proc, NEW n \in Name, NEW x \in ProcType,
         x.pc = "asked", x.name = n, proc' = [proc EXCEPT ![p] = x],
         UNCHANGED <<roles, locks, faults, meant, crossed>>
  PROVE  Inv'
  <1>1. TypeOK'
    BY DEF Inv, TypeOK
  <1>2. Holding'
    BY DEF Inv, TypeOK, Holding, Stripe
  <1>3. RolesUsable' /\ NoLostField' /\ Crossing'
    BY DEF Inv, RolesUsable, NoLostField, Crossing
  <1> QED BY <1>1, <1>2, <1>3 DEF Inv

LEMMA WriteInv ==
  ASSUME Inv, NEW p \in Proc, NEW n \in Name, NEW f \in Asked, Write(p, n, f)
  PROVE  Inv'
  <1> DEFINE x == [pc |-> "asked", kind |-> "write", name |-> n, req |-> f,
                   op |-> IF roles[n] = NoRole THEN "create" ELSE "update",
                   role |-> NoRole]
  <1>1. x \in ProcType /\ x.pc = "asked" /\ x.name = n
    BY RoleAssumption DEF ProcType
  <1>2. proc' = [proc EXCEPT ![p] = x] /\ UNCHANGED <<roles, locks, faults, meant, crossed>>
    BY DEF Write
  <1> HIDE DEF x
  <1> QED BY <1>1, <1>2, AskInv

LEMMA CallInv ==
  ASSUME Inv, NEW p \in Proc, NEW n \in Name, NEW kind \in {"delete", "mint"},
         Call(p, n, kind)
  PROVE  Inv'
  <1> DEFINE x == [Idle EXCEPT !.pc = "asked", !.kind = kind, !.name = n]
  <1>1. x \in ProcType /\ x.pc = "asked" /\ x.name = n
    BY IdleType DEF ProcType
  <1>2. proc' = [proc EXCEPT ![p] = x] /\ UNCHANGED <<roles, locks, faults, meant, crossed>>
    BY DEF Call
  <1> HIDE DEF x
  <1> QED BY <1>1, <1>2, AskInv

LEMMA AcquireInv ==
  ASSUME Inv, NEW p \in Proc, Acquire(p)
  PROVE  Inv'
  <1> DEFINE n == proc[p].name
             l == Stripe(p)
             x == [proc[p] EXCEPT !.pc = "held", !.role = roles[n]]
  <1>1. n \in Name /\ l \in Lock /\ roles[n] \in Role \cup {NoRole}
        /\ proc[p] \in ProcType
    BY RoleAssumption DEF Inv, TypeOK, Holding, Acquire, Stripe
  <1>2. x \in ProcType /\ x.pc = "held" /\ x.role = roles[n] /\ x.name = n
    BY <1>1 DEF ProcType
  <1>3. /\ proc' = [proc EXCEPT ![p] = x] /\ locks' = [locks EXCEPT ![l] = p]
        /\ locks[l] = NoProc /\ UNCHANGED <<roles, faults, meant, crossed>>
    BY DEF Acquire
  <1>4. TypeOK'
    BY <1>1, <1>2, <1>3 DEF Inv, TypeOK
  <1>5. Holding'
    <2> SUFFICES ASSUME NEW q \in Proc
                 PROVE  /\ proc'[q].pc # "idle" => proc'[q].name \in Name
                        /\ proc'[q].pc = "held" =>
                             /\ locks'[StripeOf[proc'[q].name]] = q
                             /\ proc'[q].role = roles'[proc'[q].name]
      BY DEF Holding, Stripe
    <2>1. CASE q = p
      <3>1. proc'[q] = x /\ locks'[l] = p /\ l = StripeOf[n]
        BY <1>1, <1>3, <2>1 DEF Inv, TypeOK, Stripe
      <3> HIDE DEF x, l, n
      <3> QED BY <1>1, <1>2, <1>3, <2>1, <3>1
    <2>2. CASE q # p
      <3>1. proc'[q] = proc[q]
        BY <1>3, <2>2 DEF Inv, TypeOK
      <3>2. proc[q].pc = "held" => Stripe(q) # l
        BY <1>3, RoleNullAssumption DEF Inv, Holding
      <3>3. proc[q].pc = "held" => locks'[Stripe(q)] = locks[Stripe(q)]
        BY <1>3, <3>2, RoleAssumption DEF Inv, TypeOK, Holding, Stripe
      <3> QED BY <1>3, <3>1, <3>3 DEF Inv, Holding, Stripe
    <2> QED BY <2>1, <2>2
  <1>6. RolesUsable' /\ NoLostField' /\ Crossing'
    BY <1>3 DEF Inv, RolesUsable, NoLostField, Crossing
  <1> QED BY <1>4, <1>5, <1>6 DEF Inv

\* The end of a request that holds its lock, when it changes no role but its
\* own.
LEMMA ReturnHolding ==
  ASSUME Inv, NEW p \in Proc, proc[p].pc = "held", Return(p),
         \A n \in Name : n # proc[p].name => roles'[n] = roles[n]
  PROVE  /\ proc' \in [Proc -> ProcType] /\ locks' \in [Lock -> Proc \cup {NoProc}]
         /\ Holding'
  <1>1. proc[p].name \in Name /\ Stripe(p) \in Lock /\ locks[Stripe(p)] = p
    BY RoleAssumption DEF Inv, Holding, Stripe
  <1>2. /\ proc' = [proc EXCEPT ![p] = Idle]
        /\ locks' = [locks EXCEPT ![Stripe(p)] = NoProc]
    BY DEF Return
  <1>3. proc' \in [Proc -> ProcType] /\ locks' \in [Lock -> Proc \cup {NoProc}]
    BY <1>1, <1>2, IdleType DEF Inv, TypeOK
  <1>4. Holding'
    <2> SUFFICES ASSUME NEW q \in Proc
                 PROVE  /\ proc'[q].pc # "idle" => proc'[q].name \in Name
                        /\ proc'[q].pc = "held" =>
                             /\ locks'[StripeOf[proc'[q].name]] = q
                             /\ proc'[q].role = roles'[proc'[q].name]
      BY DEF Holding, Stripe
    <2>1. CASE q = p
      <3>1. proc'[q].pc = "idle"
        BY <1>2, <2>1 DEF Inv, TypeOK, Idle
      <3> QED BY <3>1
    <2>2. CASE q # p
      <3>1. proc'[q] = proc[q]
        BY <1>2, <2>2 DEF Inv, TypeOK
      <3>2. proc[q].pc # "idle" => proc[q].name \in Name
        BY DEF Inv, Holding
      <3>3. ASSUME proc[q].pc = "held"
            PROVE  /\ locks'[Stripe(q)] = q
                   /\ proc[q].role = roles'[proc[q].name]
        <4>1. /\ locks[Stripe(q)] = q /\ proc[q].role = roles[proc[q].name]
              /\ proc[q].name \in Name /\ Stripe(q) \in Lock
          BY <3>3, RoleAssumption DEF Inv, Holding, Stripe
        <4>2. Stripe(q) # Stripe(p)
          BY <1>1, <2>2, <4>1
        <4>3. proc[q].name # proc[p].name
          BY <4>2 DEF Stripe
        <4> QED BY <1>2, <4>1, <4>2, <4>3 DEF Inv, TypeOK
      <3> QED BY <3>1, <3>2, <3>3 DEF Stripe
    <2> QED BY <2>1, <2>2
  <1> QED BY <1>3, <1>4

LEMMA RefuseInv ==
  ASSUME Inv, NEW p \in Proc, Refuse(p) \/ Minted(p)
  PROVE  Inv'
  <1>1. proc[p].pc = "held" /\ Return(p) /\ UNCHANGED <<roles, faults, meant, crossed>>
    BY DEF Refuse, Minted
  <1>2. /\ proc' \in [Proc -> ProcType] /\ locks' \in [Lock -> Proc \cup {NoProc}]
        /\ Holding'
    BY <1>1, ReturnHolding
  <1> QED BY <1>1, <1>2 DEF Inv, TypeOK, RolesUsable, NoLostField, Crossing

\* The write or delete of the only request that holds the lock of its role.
LEMMA CommitInv ==
  ASSUME Inv, NEW p \in Proc, Commit(p) \/ CommitFails(p)
  PROVE  Inv'
  <1> DEFINE n == proc[p].name
  <1>1. proc[p].pc = "held" /\ Return(p) /\ (Stored(p) \/ Removed(p))
    BY DEF Commit, CommitFails
  <1>2. faults' \in 0..MaxFaults
    BY RoleAssumption DEF Inv, TypeOK, Commit, CommitFails, Fault
  <1>3. /\ n \in Name /\ proc[p].role = roles[n] /\ meant[n] \in Role \cup {NoRole}
        /\ roles[n] = IF n \in crossed THEN Defaulted(meant[n]) ELSE meant[n]
        /\ n \in crossed => meant[n] # NoRole
    BY <1>1 DEF Inv, TypeOK, Holding, NoLostField, Crossing
  <1>4. /\ proc[p].req \in Request /\ proc[p].op \in {"create", "update"}
        /\ roles[n] \in Role \cup {NoRole}
        /\ roles[n] = NoRole <=> meant[n] = NoRole
    BY <1>3, RoleNullAssumption DEF Inv, TypeOK, ProcType, Defaulted, Role
  <1>5. PICK r \in Role \cup {NoRole}, m \in Role \cup {NoRole} :
          /\ roles' = [roles EXCEPT ![n] = r] /\ meant' = [meant EXCEPT ![n] = m]
          /\ r # NoRole => Usable(r)
          /\ crossed' \in {crossed, crossed \cup {n}, crossed \ {n}}
          /\ n \in crossed' => m # NoRole
          /\ r = IF n \in crossed' THEN Defaulted(m) ELSE m
    <2>1. CASE Stored(p)
      <3> DEFINE f == proc[p].req
                 r == Merge(roles[n], f, proc[p].op)
                 m == Intended(meant[n], f)
      <3>1. /\ roles' = [roles EXCEPT ![n] = r] /\ meant' = [meant EXCEPT ![n] = m]
            /\ Accepted(roles[n], f, proc[p].op)
            /\ crossed' = IF f.scope # Absent THEN crossed \ {n}
                          ELSE IF proc[p].op = "create" /\ roles[n] # NoRole
                          THEN crossed \cup {n} ELSE crossed
        BY <1>3, <2>1 DEF Stored
      <3>2. r \in Role /\ Usable(r)
        BY <1>4, <3>1, MergeType, AcceptedUsable
      <3>3. m \in Role
        BY <1>3, <1>4, IntendedType
      <3>4. n \in crossed' <=>
              f.scope = Absent /\ (n \in crossed \/ (proc[p].op = "create" /\ meant[n] # NoRole))
        BY <1>4, <3>1
      <3>5. r = IF f.scope = Absent /\ (n \in crossed \/ (proc[p].op = "create" /\ meant[n] # NoRole))
                THEN Defaulted(m) ELSE m
        <4> DEFINE reset == n \in crossed
        <4>1. reset \in BOOLEAN /\ (reset => meant[n] # NoRole)
              /\ roles[n] = IF reset THEN Defaulted(meant[n]) ELSE meant[n]
          BY <1>3
        <4> HIDE DEF reset
        <4>2. Merge(roles[n], f, proc[p].op) =
                IF f.scope = Absent /\ (reset \/ (proc[p].op = "create" /\ meant[n] # NoRole))
                THEN Defaulted(Intended(meant[n], f)) ELSE Intended(meant[n], f)
          BY <1>3, <1>4, <3>1, <4>1, MergeMeant
        <4> QED BY <4>2 DEF reset
      <3>6. m # NoRole
        BY <3>3, RoleNullAssumption
      <3> HIDE DEF r, m, f
      <3>7. crossed' \in {crossed, crossed \cup {n}, crossed \ {n}}
        BY <3>1
      <3>8. r = IF n \in crossed' THEN Defaulted(m) ELSE m
        BY <3>4, <3>5
      <3> QED BY <3>1, <3>2, <3>3, <3>6, <3>7, <3>8
    <2>2. CASE Removed(p)
      BY <2>2 DEF Removed
    <2> QED BY <1>1, <2>1, <2>2
  <1>6. /\ proc' \in [Proc -> ProcType] /\ locks' \in [Lock -> Proc \cup {NoProc}]
        /\ Holding'
    <2>1. \A k \in Name : k # proc[p].name => roles'[k] = roles[k]
      BY <1>5 DEF Inv, TypeOK
    <2> QED BY <1>1, <2>1, ReturnHolding
  <1>7. TypeOK'
    BY <1>2, <1>3, <1>5, <1>6 DEF Inv, TypeOK
  <1>8. \A k \in Name :
          /\ k = n => roles'[k] = r /\ meant'[k] = m
          /\ k # n => /\ roles'[k] = roles[k] /\ meant'[k] = meant[k]
                      /\ k \in crossed' <=> k \in crossed
    BY <1>3, <1>5 DEF Inv, TypeOK
  <1>9. RolesUsable'
    BY <1>5, <1>8 DEF Inv, RolesUsable
  <1>10. Crossing'
    BY <1>5, <1>7, <1>8 DEF Inv, Crossing, TypeOK
  <1>11. NoLostField'
    <2> SUFFICES ASSUME NEW k \in Name
                 PROVE  (roles[k] = IF k \in crossed THEN Defaulted(meant[k])
                                    ELSE meant[k])'
      BY DEF NoLostField
    <2> SUFFICES roles'[k] = IF k \in crossed' THEN Defaulted(meant'[k])
                             ELSE meant'[k]
      BY DEF Defaulted
    <2>1. CASE k = n
      BY <1>5, <1>8, <2>1
    <2>2. CASE k # n
      <3>1. roles[k] = IF k \in crossed THEN Defaulted(meant[k]) ELSE meant[k]
        BY DEF Inv, NoLostField
      <3> QED BY <1>8, <2>2, <3>1
    <2> QED BY <2>1, <2>2
  <1> QED BY <1>6, <1>7, <1>9, <1>10, <1>11 DEF Inv

LEMMA CrashInv ==
  ASSUME Inv, Crash
  PROVE  Inv'
  <1>1. TypeOK'
    BY IdleType, RoleAssumption DEF Inv, TypeOK, Crash, Fault
  <1>2. Holding'
    BY DEF Crash, Holding, Idle
  <1>3. RolesUsable' /\ NoLostField' /\ Crossing'
    BY DEF Inv, Crash, RolesUsable, NoLostField, Crossing
  <1> QED BY <1>1, <1>2, <1>3 DEF Inv

LEMMA NextInv == Inv /\ [Next]_vars => Inv'
  <1> SUFFICES ASSUME Inv, [Next]_vars PROVE Inv'
    OBVIOUS
  <1>1. ASSUME NEW p \in Proc, Acquire(p) \/ Finish(p) PROVE Inv'
    BY <1>1, AcquireInv, RefuseInv, CommitInv DEF Finish
  <1>2. ASSUME NEW p \in Proc, NEW n \in Name,
               \/ \E f \in Asked : Write(p, n, f)
               \/ Call(p, n, "delete") \/ Call(p, n, "mint")
        PROVE  Inv'
    BY <1>2, WriteInv, CallInv
  <1>3. CASE UNCHANGED vars
    BY <1>3
    DEF vars, Inv, TypeOK, Holding, Stripe, RolesUsable, NoLostField, Crossing
  <1> QED BY <1>1, <1>2, <1>3, CrashInv DEF Next

\* What a request holds, and what roles there are, under any schedule.
THEOREM RoleInvariant == Spec => []Inv
  BY InitInv, NextInv, PTL DEF Spec

THEOREM RoleTypes == Spec => []TypeOK
  BY RoleInvariant, PTL DEF Inv

\* A mint works with the role as it is stored until it answers.
THEOREM RoleMintUsesStored == Spec => []MintUsesStoredRole
  <1>1. Inv => MintUsesStoredRole
    BY DEF Inv, Holding, MintUsesStoredRole
  <1> QED BY <1>1, RoleInvariant, PTL

\* Every stored role can be minted with, after any mix of partial writes.
THEOREM RoleUsable == Spec => []RolesUsable
  BY RoleInvariant, PTL DEF Inv

\* No field of a stored write is lost to another, except a scope to a create
\* that crossed the write and names none.
THEOREM RoleNoLostField == Spec => []NoLostField
  BY RoleInvariant, PTL DEF Inv
=============================================================================
