----------------------- MODULE CredentialClock_proofs -----------------------
(***************************************************************************)
(* Proofs about CredentialClock, for every length of the timeouts that     *)
(* AgeAssumption admits, every role and every mount.                       *)
(***************************************************************************)
EXTENDS CredentialClock, TLAPS

LEMMA InitInv == Init => Inv
  BY ClockAssumption
  DEF Init, Inv, TypeOK, Aging, Covered, ReadSeen, Granted,
      RollbackSparesRequests, Guards, Cleaning

\* What a renewal grants fits the role it goes by, and the mount.
LEMMA CalculatedFits ==
  ASSUME NEW r \in Roles, NEW inc \in Nat, NEW elapsed \in 0..MountMax,
         elapsed < MaxOf(r) \/ elapsed = 0
  PROVE  /\ Calculated(r, inc, elapsed) \in 0..(MountMax - elapsed)
         /\ elapsed + Calculated(r, inc, elapsed) <= MaxOf(r)
  <1>1. r.ttl \in Nat /\ r.max \in Nat /\ MountTtl \in Nat
        /\ MountMax \in Nat
    BY ClockAssumption
  <1>2. MaxOf(r) \in Nat /\ MaxOf(r) <= MountMax
    BY <1>1 DEF MaxOf
  <1>3. TtlOf(r, inc) \in Nat
    BY <1>1 DEF TtlOf
  <1> QED BY <1>1, <1>2, <1>3 DEF Calculated

-----------------------------------------------------------------------------
(***************************************************************************)
(* Every step keeps the invariant.                                         *)
(***************************************************************************)
LEMMA RequestInv ==
  ASSUME Inv,
         \/ Mint \/ PutWal \/ PutWalFails \/ CheckApplication \/ CheckOwner
         \/ DropWal \/ Abandon \/ Undo \/ Crash
  PROVE  Inv'
  <1> USE ClockAssumption, AgeAssumption
      DEF Inv, TypeOK, Aging, Covered, ReadSeen, Granted, Longest,
          RollbackSparesRequests, Guards, Cleaning, lease, EndRequest
  <1>1. CASE Mint
    BY <1>1 DEF Mint
  <1>2. CASE PutWal
    BY <1>2 DEF PutWal
  <1>3. CASE PutWalFails
    BY <1>3 DEF PutWalFails
  <1>4. CASE CheckApplication
    <2>1. TypeOK'
      BY <1>4 DEF CheckApplication
    <2>2. Aging'
      <3>1. /\ age' = age /\ ctx' = ctx /\ age \in Nat /\ ctx \in Nat
            /\ age <= Longest /\ (ctx > 0 => age + ctx <= MaxRequest)
        BY <1>4 DEF CheckApplication
      <3>2. pc' = "owner" \/ (pc' = "undo" /\ call' = Cleanup)
        BY <1>4 DEF CheckApplication
      <3>3. CASE pc' = "owner"
        BY <3>1, <3>3
      <3>4. CASE pc' = "undo" /\ call' = Cleanup
        <4>1. age' + call' <= Longest + Cleanup
          BY <3>1, <3>4
        <4> QED BY <3>4, <4>1
      <3> QED BY <3>2, <3>3, <3>4
    <2>3. Covered' /\ ReadSeen' /\ Granted' /\ RollbackSparesRequests'
      BY <1>4 DEF CheckApplication
    <2> QED BY <2>1, <2>2, <2>3
  <1>5. CASE CheckOwner
    <2>1. TypeOK'
      BY <1>5 DEF CheckOwner
    <2>2. Aging'
      BY <1>5 DEF CheckOwner
    <2>3. Covered' /\ ReadSeen' /\ Granted' /\ RollbackSparesRequests'
      BY <1>5 DEF CheckOwner
    <2> QED BY <2>1, <2>2, <2>3
  <1>6. CASE DropWal
    BY <1>6 DEF DropWal
  <1>7. CASE Abandon
    BY <1>7 DEF Abandon
  <1>8. CASE Undo
    BY <1>8 DEF Undo
  <1>9. CASE Crash
    BY <1>9 DEF Crash
  <1> QED BY <1>1, <1>2, <1>3, <1>4, <1>5, <1>6, <1>7, <1>8, <1>9

\* A request whose entry exists is too young for a rollback.
LEMMA RollbackInv ==
  ASSUME Inv, Rollback
  PROVE  Inv'
  <1> USE ClockAssumption, AgeAssumption
      DEF Inv, TypeOK, Aging, Covered, Longest, Guards, Cleaning
  <1>1. pc \notin Guards \cup {"put", "commit", "respond", "leased"}
    BY DEF Rollback
  <1> QED BY <1>1 DEF Rollback, ReadSeen, Granted, RollbackSparesRequests, lease

LEMMA LeaseInv ==
  ASSUME Inv,
         \/ RegisterLease \/ RenewRead \/ RenewRefused \/ Expire
         \/ \E inc \in Increments : Renew(inc)
         \/ \E r \in Roles \cup {NoRole} : SetRole(r)
  PROVE  Inv'
  <1> USE ClockAssumption
      DEF Inv, TypeOK, Aging, Covered, ReadSeen, Granted, Longest,
          RollbackSparesRequests, Guards, Cleaning, lease, EndRequest, EndRenewal
  <1>1. CASE RegisterLease
    <2>1. granted \in Roles /\ MountMax \in Nat
      BY <1>1 DEF RegisterLease
    <2>2. Calculated(granted, 0, 0) \in 0..(MountMax - 0)
      BY <2>1, CalculatedFits
    <2> QED BY <1>1, <2>1, <2>2 DEF RegisterLease
  <1>2. CASE RenewRead
    <2>1. read' = <<role>> /\ seen' = {role} /\ role \in Roles \cup {NoRole}
      BY <1>2 DEF RenewRead
    <2>2. TypeOK'
      BY <1>2, <2>1 DEF RenewRead
    <2>3. ReadSeen'
      <3> SUFFICES ASSUME NEW r \in Roles \cup {NoRole}, read' = <<r>>
                   PROVE  r \in seen'
        OBVIOUS
      <3>1. <<r>>[1] = <<role>>[1]
        BY <2>1
      <3> QED BY <2>1, <3>1
    <2>4. Aging' /\ Covered' /\ Granted' /\ RollbackSparesRequests'
      BY <1>2 DEF RenewRead
    <2> QED BY <2>2, <2>3, <2>4
  <1>3. CASE RenewRefused
    BY <1>3 DEF RenewRefused
  <1>4. CASE Expire
    BY <1>4 DEF Expire
  <1>5. CASE \E inc \in Increments : Renew(inc)
    <2>1. PICK inc \in Nat, r \in Roles :
            /\ pc = "leased" /\ since < MaxOf(r)
            /\ left' = Calculated(r, inc, since) /\ EndRenewal
            /\ UNCHANGED <<pc, ctx, call, wal, age, token, role, granted, since>>
      BY <1>5 DEF Renew
    <2>2. left' \in 0..(MountMax - since) 
      BY <2>1, CalculatedFits
    <2> QED BY <2>1, <2>2
  <1>6. CASE \E r \in Roles \cup {NoRole} : SetRole(r)
    BY <1>6 DEF SetRole
  <1> QED BY <1>1, <1>2, <1>3, <1>4, <1>5, <1>6

\* A step of time that adds to an age and takes from what is left.
LEMMA Spend ==
  ASSUME NEW m \in Nat, NEW n \in Nat, NEW rest \in Nat, NEW older \in Nat,
         n + rest <= m, rest > 0, older <= n + 1
  PROVE  older + (rest - 1) <= m /\ older <= m
  OBVIOUS

LEMMA TickInv ==
  ASSUME Inv, Tick
  PROVE  Inv'
  <1>1. /\ ctx \in Nat /\ ctx <= MaxRequest /\ call \in Nat /\ age \in Nat
        /\ age <= MinAge /\ since \in Nat /\ left \in Nat
        /\ since + left <= MountMax
        /\ MaxRequest \in Nat /\ Cleanup \in Nat /\ MinAge \in Nat
        /\ MountMax \in Nat
    BY ClockAssumption DEF Inv, TypeOK
  <1>2. /\ ctx' \in 0..MaxRequest /\ (ctx > 0 => ctx' = ctx - 1)
        /\ call' \in Nat /\ (call > 0 => call' = call - 1)
        /\ age' \in 0..MinAge /\ age' \in Nat /\ age' <= age + 1
    <2>1. ctx' = Less(ctx) /\ call' = Less(call)
      BY DEF Tick
    <2>2. age' \in {age, Upto(age, MinAge)}
      BY DEF Tick
    <2> QED BY <1>1, <2>1, <2>2 DEF Less, Upto
  <1>3. since' \in 0..MountMax /\ left' \in 0..(MountMax - since')
    <2>1. CASE pc = "leased"
      <3>1. left > 0 /\ left' = Less(left) /\ since' = Upto(since, MountMax)
        BY <2>1 DEF Tick, MayWait
      <3>2. left' = left - 1 /\ since' = since + 1
        BY <1>1, <3>1 DEF Less, Upto
      <3> QED BY <1>1, <3>1, <3>2
    <2>2. CASE pc # "leased"
      BY <1>1, <2>2 DEF Tick
    <2> QED BY <2>1, <2>2
  <1>4. /\ UNCHANGED <<pc, wal, token, role, granted, read, seen>>
        /\ pc \in {"put"} \cup Guards \cup Cleaning => call > 0
        /\ pc \in Guards => ctx > 0
    BY DEF Tick, MayWait
  <1>5. TypeOK'
    BY <1>2, <1>3, <1>4 DEF Inv, TypeOK
  <1>6. Aging'
    <2>1. CASE pc = "put"
      <3>1. age + call <= Cleanup /\ (ctx > 0 => age + ctx <= MaxRequest)
        BY <2>1 DEF Inv, Aging, Guards
      <3>2. call > 0
        BY <1>4, <2>1
      <3>3. age' + call' <= Cleanup
        BY <1>1, <1>2, <3>1, <3>2, Spend
      <3>4. ctx > 0 => age' + ctx' <= MaxRequest
        BY <1>1, <1>2, <3>1, Spend
      <3>5. ctx' > 0 => ctx > 0
        BY <1>1 DEF Tick, Less
      <3> QED BY <1>4, <2>1, <3>3, <3>4, <3>5 DEF Aging, Guards, Cleaning
    <2>2. CASE pc \in Guards
      <3>1. ctx > 0 /\ age + ctx <= MaxRequest
        BY <1>4, <2>2 DEF Inv, Aging
      <3>2. age' + ctx' <= MaxRequest /\ age' <= MaxRequest
        BY <1>1, <1>2, <3>1, Spend
      <3>3. age' <= Longest
        BY <1>1, <1>2, <3>2 DEF Longest
      <3> QED BY <1>4, <2>2, <3>2, <3>3 DEF Aging, Guards, Cleaning
    <2>3. CASE pc \in Cleaning
      <3>1. age + call <= Longest + Cleanup /\ Longest + Cleanup \in Nat
        BY <1>1, <2>3 DEF Inv, Aging, Longest
      <3>2. call > 0
        BY <1>4, <2>3
      <3>3. age' + call' <= Longest + Cleanup
        BY <1>1, <1>2, <3>1, <3>2, Spend
      <3> QED BY <1>4, <2>3, <3>3 DEF Aging, Guards, Cleaning
    <2>4. CASE pc \notin {"put"} \cup Guards \cup Cleaning
      BY <1>4, <2>4 DEF Aging
    <2> QED BY <2>1, <2>2, <2>3, <2>4
  <1>7. Covered' /\ ReadSeen' /\ Granted' /\ RollbackSparesRequests'
    BY <1>4 DEF Inv, Covered, ReadSeen, Granted, RollbackSparesRequests
  <1> QED BY <1>5, <1>6, <1>7 DEF Inv

LEMMA NextInv == Inv /\ [Next]_vars => Inv'
  <1> SUFFICES ASSUME Inv, [Next]_vars PROVE Inv'
    OBVIOUS
  <1>1. CASE Next
    BY <1>1, RequestInv, RollbackInv, LeaseInv, TickInv DEF Next
  <1>2. CASE UNCHANGED vars
    BY <1>2
    DEF vars, lease, Inv, TypeOK, Aging, Covered, ReadSeen, Granted,
        RollbackSparesRequests, Guards, Cleaning
  <1> QED BY <1>1, <1>2

\* The clocks keep their ranges, and the ages their bounds.
THEOREM ClockInvariant == Spec => []Inv
  BY InitInv, NextInv, PTL DEF Spec

THEOREM ClockTypes == Spec => []TypeOK
  BY ClockInvariant, PTL DEF Inv

\* A request ends before its WAL entry is old enough for a rollback, for all
\* timeouts with MaxRequest + Cleanup < MinAge and 2 * Cleanup < MinAge.
THEOREM ClockSparesRequests == Spec => []RollbackSparesRequests
  BY ClockInvariant, PTL DEF Inv

-----------------------------------------------------------------------------
(***************************************************************************)
(* Renewals.                                                               *)
(***************************************************************************)
RenewalStep ==
  pc = "leased" /\ left' > left =>
    \E r \in seen \ {NoRole} : since + left' <= MaxOf(r)

LEMMA OnlyRenewExtends ==
  ASSUME Inv, [Next]_vars, pc = "leased", left' > left
  PROVE  \E inc \in Increments : Renew(inc)
  <1>1. left \in Nat
    BY ClockAssumption DEF Inv, TypeOK
  <1>2. ~UNCHANGED left /\ left' # 0 /\ left' # Less(left)
    BY <1>1 DEF Less
  <1> QED
    BY <1>2
    DEF Next, vars, lease, Mint, PutWal, PutWalFails, CheckApplication,
        CheckOwner, DropWal, Abandon, Undo, Crash, Rollback, RegisterLease,
        RenewRead, RenewRefused, Expire, SetRole, Tick

\* A renewal goes by a role stored while it ran, and within its max_ttl.
THEOREM ClockRenewals == Spec => RenewalAllowed
  <1>1. Inv /\ [Next]_vars => RenewalStep \/ UNCHANGED vars
    <2> SUFFICES ASSUME Inv, [Next]_vars, pc = "leased", left' > left
                 PROVE  \E r \in seen \ {NoRole} : since + left' <= MaxOf(r)
      BY DEF RenewalStep
    <2>1. PICK inc \in Nat, r \in Roles :
            read = <<r>> /\ since < MaxOf(r) /\ left' = Calculated(r, inc, since)
      BY OnlyRenewExtends, ClockAssumption DEF Renew
    <2>2. r \in seen \ {NoRole}
      BY <2>1, ClockAssumption DEF Inv, ReadSeen
    <2>3. since \in 0..MountMax
      BY DEF Inv, TypeOK
    <2> QED BY <2>1, <2>2, <2>3, CalculatedFits
  <1> QED BY <1>1, ClockInvariant, PTL DEF Spec, RenewalAllowed, RenewalStep
=============================================================================
