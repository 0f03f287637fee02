------------------------ MODULE TokenIdentity_proofs ------------------------
(***************************************************************************)
(* What holds of TokenIdentity for every AAP directory, every role and     *)
(* configuration, every id and every float significand.                    *)
(***************************************************************************)
EXTENDS TokenIdentity, FiniteSetTheorems, TLAPS

-----------------------------------------------------------------------------
(***************************************************************************)
(* Records and the JSON they go through.                                   *)
(***************************************************************************)
\* A float64 is exact below 2^Mantissa.
LEMMA FloatExact ==
  ASSUME NEW n \in 0..(2^Mantissa - 1)
  PROVE  Float(n) = n
<1>1. 2^Mantissa \in Int
  BY MantissaAssumption
<1>2. n < 2^Mantissa
  BY <1>1
<1> QED
  BY <1>2 DEF Float

\* A record after any JSON: the id and the texts are as they were, the
\* timeout is a number of the same value.
AsWritten(d, id, c, decoder) ==
  /\ DOMAIN d = Keys(c) \cup {"token_id"}
  /\ \A k \in Texts : d[k] = Val("string", c[k])
  /\ d["skip"] = Val("bool", c.skip)
  /\ c.timeout > 0 => d["timeout"] = Val(decoder, c.timeout)
  /\ d["token_id"] = Val("string", id)

LEMMA RecordRead ==
  ASSUME NEW id, NEW c \in Config, NEW decoder \in Decoders
  PROVE  AsWritten(Json(Record(id, c), decoder), id, c, decoder)
<1> DEFINE d == Json(Record(id, c), decoder)
<1> DEFINE rec == Record(id, c)
<1>1. /\ DOMAIN rec = Keys(c) \cup {"token_id"}
      /\ \A k \in Texts : k \in DOMAIN rec /\ rec[k] = Val("string", c[k])
      /\ "skip" \in DOMAIN rec /\ rec["skip"] = Val("bool", c.skip)
      /\ c.timeout > 0 => /\ "timeout" \in DOMAIN rec
                          /\ rec["timeout"] = Val("int64", c.timeout)
      /\ "token_id" \in DOMAIN rec /\ rec["token_id"] = Val("string", id)
  BY DEF Record, Keys, Texts, SnapshotValue
<1>2. \A k \in DOMAIN rec : rec[k].kind # "int64" => d[k] = rec[k]
  BY DEF Json
<1>3. \A k \in DOMAIN rec : \A v : rec[k] = Val("int64", v) =>
        d[k] = Val(decoder, IF decoder = "float64" THEN Float(v) ELSE v)
  BY DEF Json, Val
<1>4. c.timeout > 0 => Float(c.timeout) = c.timeout
  BY FloatExact DEF Config
<1>5. DOMAIN d = DOMAIN rec
  BY DEF Json
<1> HIDE DEF rec
<1>6. \A v : Val("string", v).kind # "int64" /\ Val("bool", v).kind # "int64"
  BY DEF Val
<1> SUFFICES AsWritten(d, id, c, decoder)
  BY DEF rec
<1> HIDE DEF d
<1> QED
  BY <1>1, <1>2, <1>3, <1>4, <1>5, <1>6 DEF AsWritten

\* What is read back is the configuration, with the default API path if none.
LEMMA RecordReadBack ==
  ASSUME NEW id, NEW c \in Config, NEW decoder \in Decoders
  PROVE  LET d == Json(Record(id, c), decoder) IN
         /\ HasSnapshot(d) /\ TokenId(d) = id
         /\ c.address # Empty => Readable(d)
         /\ ReadBack(d) = [address |-> c.address, token |-> c.token,
                           username |-> c.username, password |-> c.password,
                           path |-> IF c.path = Empty THEN DefaultPath ELSE c.path,
                           caCert |-> c.caCert, skip |-> c.skip,
                           timeout |-> c.timeout]
<1> DEFINE d == Json(Record(id, c), decoder)
<1>0. d = Json(Record(id, c), decoder)
  OBVIOUS
<1> HIDE DEF d
<1>1. /\ DOMAIN d = Keys(c) \cup {"token_id"}
      /\ \A k \in Texts : d[k] = Val("string", c[k])
      /\ d["skip"] = Val("bool", c.skip)
      /\ c.timeout > 0 => d["timeout"] = Val(decoder, c.timeout)
      /\ d["token_id"] = Val("string", id)
  <2>1. AsWritten(d, id, c, decoder)
    BY <1>0, RecordRead
  <2> QED
    BY <2>1 DEF AsWritten
<1>2. HasSnapshot(d) /\ TokenId(d) = id
  BY <1>1 DEF HasSnapshot, TokenId, Keys, Texts, Val
<1>3. \A k \in Texts : Text(d, k) = c[k]
  BY <1>1 DEF Text, Keys, Val
<1>4. c.timeout \in Int /\ c.timeout >= 0
  BY DEF Config
<1>5. ASSUME c.address # Empty
      PROVE  Readable(d)
  <2>1. \A k \in Texts : d[k].kind = "string"
    <3>1. \A v : Val("string", v).kind = "string"
      BY DEF Val
    <3> QED
      BY <1>1, <3>1
  <2>2. Text(d, "address") # Empty
    BY <1>3, <1>5 DEF Texts
  <2>3. d["skip"].kind = "bool"
    BY <1>1 DEF Val
  <2>4. "timeout" \in DOMAIN d => c.timeout > 0
    BY <1>1 DEF Keys, Texts
  <2>5. "timeout" \in DOMAIN d => d["timeout"].kind \in Decoders
    BY <1>1, <2>4 DEF Val
  <2> QED
    BY <2>1, <2>2, <2>3, <2>5 DEF Readable
<1>6. /\ "skip" \in DOMAIN d /\ d["skip"].v = c.skip
      /\ (IF "timeout" \in DOMAIN d THEN d["timeout"].v ELSE 0) = c.timeout
  BY <1>1, <1>4 DEF Keys, Texts, Val
<1>7. ReadBack(d) = [address |-> c.address, token |-> c.token,
                     username |-> c.username, password |-> c.password,
                     path |-> IF c.path = Empty THEN DefaultPath ELSE c.path,
                     caCert |-> c.caCert, skip |-> c.skip,
                     timeout |-> c.timeout]
  BY <1>3, <1>6 DEF ReadBack, Texts
<1> QED
  BY <1>2, <1>5, <1>7 DEF d

\* The client of a record is the client of the configuration it was made of.
THEOREM SnapshotFaithful ==
  ASSUME NEW id, NEW c \in Config, NEW decoder \in Decoders
  PROVE  Client(ReadBack(Json(Record(id, c), decoder))) = Client(c)
  BY RecordReadBack DEF Client, Basic

\* A lease of the older version has no snapshot; its id survives JSON unless
\* a float64 cannot name it.
LEMMA OldRecordRead ==
  ASSUME NEW id \in Nat, NEW decoder \in Decoders
  PROVE  /\ ~HasSnapshot(OldRecord(id)) /\ ~HasSnapshot(Json(OldRecord(id), decoder))
         /\ \/ TokenId(Json(OldRecord(id), decoder)) = id
            \/ id >= 2^Mantissa
<1>1. /\ DOMAIN OldRecord(id) = {"token_id"}
      /\ OldRecord(id)["token_id"] = Val("int64", id)
  BY DEF OldRecord
<1>2. /\ DOMAIN Json(OldRecord(id), decoder) = {"token_id"}
      /\ Json(OldRecord(id), decoder)["token_id"]
           = Val(decoder, IF decoder = "float64" THEN Float(id) ELSE id)
  BY <1>1 DEF Json, Val
<1>3. 2^Mantissa \in Int
  BY MantissaAssumption
<1>4. Float(id) = id \/ id >= 2^Mantissa
  BY <1>3, FloatExact
<1> QED
  BY <1>1, <1>2, <1>4 DEF HasSnapshot, TokenId, Val

-----------------------------------------------------------------------------
(***************************************************************************)
(* Names and ids.                                                          *)
(***************************************************************************)
\* An answer that shows every exact match resolves a name to the one id that
\* holds it, or to nothing.
LEMMA LookupExact ==
  ASSUME NEW Ids, IsFiniteSet(Ids), NEW dir \in Directory(Ids), NEW name,
         NEW a \in Answers(dir, name),
         NEW id \in Lookup(dir, name, a.shown, a.blank)
  PROVE  id \in Ids /\ Holders(dir, name) = {id}
<1> DEFINE matches == {i \in a.shown : dir[i] = name}
<1>1. DOMAIN dir = Ids
  BY DEF Directory
<1>2. a.shown \subseteq Ids /\ Holders(dir, name) \subseteq a.shown
  BY <1>1 DEF Answers
<1>3. id \in matches /\ Cardinality(matches) = 1
  BY DEF Lookup
<1>4. matches = Holders(dir, name)
  BY <1>1, <1>2 DEF Holders
<1>5. IsFiniteSet(matches)
  BY <1>1, <1>4, FS_Subset DEF Holders
<1>6. PICK x : matches = {x}
  BY <1>3, <1>5, FS_Singleton
<1> QED
  BY <1>1, <1>2, <1>3, <1>4, <1>6

\* What a revocation finds in the record of a token: the minting client and
\* the token's id or, of the older version, an id alone.
Recovers(d) ==
  /\ HasSnapshot(record) => /\ HasSnapshot(d) /\ Readable(d)
                            /\ Usable(ReadBack(d)) /\ conf \in Configs
                            /\ Client(ReadBack(d)) = Client(conf)
                            /\ TokenId(d) = tok.id
  /\ ~HasSnapshot(record) => /\ ~HasSnapshot(d)
                             /\ TokenId(d) = tok.id \/ tok.id >= 2^Mantissa

LEMMA RecordFacts ==
  ASSUME HasRecord, NEW decoder \in Decoders
  PROVE  TokenId(record) \in TokenIds /\ Recovers(Json(record, decoder))
<1> DEFINE d == Json(record, decoder)
<1>1. tok.id \in TokenIds /\ tok.id \in Nat
  BY IdAssumption DEF HasRecord, TokenType
<1>2. CASE record = OldRecord(tok.id)
  <2>1. TokenId(record) = tok.id
    BY <1>2 DEF OldRecord, TokenId, Val
  <2> QED
    BY <1>1, <1>2, <2>1, OldRecordRead DEF Recovers
<1>3. CASE conf \in Configs /\ record = Record(tok.id, conf)
  <2>1. conf \in Config /\ Usable(conf)
    BY <1>3, ConfigsAssumption
  <2>2. conf.address # Empty
    BY <2>1 DEF Usable
  <2>3. TokenId(record) = tok.id /\ HasSnapshot(record)
    BY <1>3 DEF Record, TokenId, HasSnapshot, Keys, Texts, Val, SnapshotValue
  <2>4. HasSnapshot(d) /\ TokenId(d) = tok.id /\ Readable(d)
    BY <1>3, <2>1, <2>2, RecordReadBack
  <2>5. Client(ReadBack(d)) = Client(conf)
    BY <1>3, <2>1, SnapshotFaithful
  <2>6. Usable(ReadBack(d))
    <3>1. ReadBack(d).address = conf.address /\ ReadBack(d).token = conf.token
          /\ ReadBack(d).username = conf.username /\ ReadBack(d).password = conf.password
      BY <1>3, <2>1, RecordReadBack
    <3> QED
      BY <2>1, <3>1 DEF Usable, Basic
  <2> QED
    BY <1>1, <1>3, <2>3, <2>4, <2>5, <2>6 DEF Recovers
<1> QED
  BY <1>2, <1>3 DEF HasRecord

-----------------------------------------------------------------------------
(***************************************************************************)
(* The invariant: one lemma per action, or kind of action.                 *)
(***************************************************************************)
LEMMA InitInv == Init => Inv
<1> SUFFICES ASSUME Init PROVE Inv
  OBVIOUS
<1>1. NoRole \in Role
  BY IdAssumption DEF NoRole, Role
<1>2. NoRole.application = None
  BY DEF NoRole
<1>3. TypeOK
  BY <1>1, ConfigsAssumption DEF Init, TypeOK
<1> QED
  BY <1>2, <1>3 DEF Init, Inv, Stages, Resolved, Guarded, Leased, DeletesOwnId,
                   NeverStuck

\* What AAP's administrators do changes the directories alone.
LEMMA DirectoryInv == Inv /\ ChangeDirectory => Inv'
<1> SUFFICES ASSUME Inv, ChangeDirectory PROVE Inv'
  OBVIOUS
<1> USE DEF Inv, ChangeDirectory, request
<1>1. TypeOK'
  <2>1. apps' \in Directory(AppId) /\ users' \in Directory(UserId)
    BY DEF TypeOK, Directory
  <2>2. changes' \in 0..MaxChanges
    BY ConfigsAssumption DEF TypeOK
  <2> QED
    BY <2>1, <2>2 DEF TypeOK
<1>2. Stages'
  BY DEF Stages, HasRecord
<1>3. Resolved' /\ Guarded'
  BY DEF Resolved, AppResolved, UserResolved, Guarded, Leased
<1> QED
  BY <1>1, <1>2, <1>3 DEF DeletesOwnId, NeverStuck

LEMMA StartInv == ASSUME NEW r \in Role PROVE Inv /\ Start(r) => Inv'
<1> SUFFICES ASSUME Inv, Start(r) PROVE Inv'
  OBVIOUS
<1> USE DEF Inv, Start, aap
<1>1. TypeOK'
  BY DEF TypeOK
<1>2. Stages'
  BY DEF Stages, TypeOK
<1>3. Resolved' /\ Guarded'
  BY DEF Resolved, Guarded, Leased
<1> QED
  BY <1>1, <1>2, <1>3 DEF DeletesOwnId, NeverStuck

\* A name resolves to the only id that holds it, now.
LEMMA ApplicationInv == Inv /\ ResolveApplication => Inv'
<1> SUFFICES ASSUME Inv, ResolveApplication PROVE Inv'
  OBVIOUS
<1> USE DEF Inv, ResolveApplication, aap
<1>1. CASE role.application = None /\ pc' = "user" /\ UNCHANGED <<appId, named>>
  <2>1. AppResolved'
    BY <1>1 DEF AppResolved, Stages
  <2>2. TypeOK' /\ Stages'
    BY <1>1 DEF TypeOK, Stages
  <2> QED
    BY <1>1, <2>1, <2>2 DEF Resolved, Guarded, Leased, DeletesOwnId, NeverStuck
<1>2. ASSUME role.application # None,
             named' = [named EXCEPT !.apps = Holders(apps, role.application)],
             NEW a \in Answers(apps, role.application),
             \/ Lookup(apps, role.application, a.shown, a.blank) = {}
                /\ pc' = "revoked" /\ UNCHANGED appId
             \/ appId' \in Lookup(apps, role.application, a.shown, a.blank)
                /\ pc' = "user"
      PROVE  Inv'
  <2>1. apps \in Directory(AppId)
    BY DEF TypeOK
  <2>2. Holders(apps, role.application) \in SUBSET AppId
    BY <2>1 DEF Holders, Directory
  <2>3. /\ named' \in [apps : SUBSET AppId, users : SUBSET UserId]
        /\ named'.apps = Holders(apps, role.application)
    BY <1>2, <2>2 DEF TypeOK
  <2>4. CASE pc' = "revoked" /\ UNCHANGED appId
    <3>1. TypeOK' /\ Stages'
      BY <2>3, <2>4 DEF TypeOK, Stages
    <3> QED
      BY <2>4, <3>1 DEF Resolved, Guarded, Leased, DeletesOwnId, NeverStuck
  <2>5. CASE /\ appId' \in Lookup(apps, role.application, a.shown, a.blank)
             /\ pc' = "user"
    <3>1. appId' \in AppId /\ Holders(apps, role.application) = {appId'}
      BY <2>1, <2>5, LookupExact, IdAssumption
    <3>2. AppResolved'
      BY <1>2, <2>3, <3>1 DEF AppResolved
    <3>3. TypeOK' /\ Stages'
      BY <2>3, <2>5, <3>1 DEF TypeOK, Stages
    <3> QED
      BY <2>5, <3>2, <3>3 DEF Resolved, Guarded, Leased, DeletesOwnId, NeverStuck
  <2> QED
    BY <1>2, <2>4, <2>5
<1> QED
  BY <1>1, <1>2

LEMMA UserInv == Inv /\ ResolveUser => Inv'
<1> SUFFICES ASSUME Inv, ResolveUser PROVE Inv'
  OBVIOUS
<1> USE DEF Inv, ResolveUser, aap
<1>1. AppResolved
  BY DEF Resolved
<1>2. CASE role.username = None /\ pc' = "mint" /\ UNCHANGED <<userId, named>>
  <2>1. AppResolved' /\ UserResolved'
    BY <1>1, <1>2 DEF AppResolved, UserResolved
  <2>2. TypeOK' /\ Stages'
    BY <1>2 DEF TypeOK, Stages
  <2> QED
    BY <1>2, <2>1, <2>2 DEF Resolved, Guarded, Leased, DeletesOwnId, NeverStuck
<1>3. ASSUME role.username # None,
             named' = [named EXCEPT !.users = Holders(users, role.username)],
             NEW a \in Answers(users, role.username),
             \/ Lookup(users, role.username, a.shown, a.blank) = {}
                /\ pc' = "revoked" /\ UNCHANGED userId
             \/ userId' \in Lookup(users, role.username, a.shown, a.blank)
                /\ pc' = "mint"
      PROVE  Inv'
  <2>1. users \in Directory(UserId)
    BY DEF TypeOK
  <2>2. Holders(users, role.username) \in SUBSET UserId
    BY <2>1 DEF Holders, Directory
  <2>3. /\ named' \in [apps : SUBSET AppId, users : SUBSET UserId]
        /\ named'.users = Holders(users, role.username)
        /\ named'.apps = named.apps
    BY <1>3, <2>2 DEF TypeOK
  <2>4. AppResolved'
    BY <1>1, <2>3 DEF AppResolved
  <2>5. CASE pc' = "revoked" /\ UNCHANGED userId
    <3>1. TypeOK' /\ Stages'
      BY <2>3, <2>5 DEF TypeOK, Stages
    <3> QED
      BY <2>5, <3>1 DEF Resolved, Guarded, Leased, DeletesOwnId, NeverStuck
  <2>6. CASE /\ userId' \in Lookup(users, role.username, a.shown, a.blank)
             /\ pc' = "mint"
    <3>1. userId' \in UserId /\ Holders(users, role.username) = {userId'}
      BY <2>1, <2>6, LookupExact, IdAssumption
    <3>2. UserResolved'
      BY <1>3, <2>3, <3>1 DEF UserResolved
    <3>3. TypeOK' /\ Stages'
      BY <2>3, <2>6, <3>1 DEF TypeOK, Stages
    <3> QED
      BY <2>4, <2>6, <3>2, <3>3 DEF Resolved, Guarded, Leased, DeletesOwnId, NeverStuck
  <2> QED
    BY <1>3, <2>5, <2>6
<1> QED
  BY <1>2, <1>3

\* The record holds the id of the token that AAP just made, and what binds the
\* token is what the payload asked for.
LEMMA MintInv == ASSUME NEW id \in TokenIds PROVE Inv /\ Mint(id) => Inv'
<1> SUFFICES ASSUME Inv, Mint(id) PROVE Inv'
  OBVIOUS
<1> USE DEF Inv, Mint, aap
<1>1. PICK a \in IF appId > 0 THEN AppId \cup {0} ELSE {0} :
         tok' = [id |-> id, user |-> role.minter, application |-> a]
  OBVIOUS
<1>2. tok' \in TokenType /\ tok'.id = id
  BY <1>1 DEF TypeOK, Role, TokenType
<1>3. TokenId(record') = id
  BY DEF Record, TokenId, Val
<1>4. HasRecord'
  BY <1>2 DEF HasRecord, Stages
<1>5. appId' = 0 => tok'.application = 0
  BY <1>1 DEF TypeOK
<1>6. TypeOK' /\ Stages'
  BY <1>2, <1>3, <1>4 DEF TypeOK, Stages
<1>7. AppResolved' /\ UserResolved'
  BY DEF Resolved, AppResolved, UserResolved
<1> QED
  BY <1>5, <1>6, <1>7, <1>3 DEF Resolved, Guarded, Leased, Stages, DeletesOwnId,
                                NeverStuck

\* A guard that has something to compare passes only the id it wants.
LEMMA CheckApplicationInv == Inv /\ CheckApplication => Inv'
<1> SUFFICES ASSUME Inv, CheckApplication PROVE Inv'
  OBVIOUS
<1> USE DEF Inv, CheckApplication, aap, request
<1>1. pc' \in {"guardOwner", "doomed"}
  BY DEF Guard
<1>2. HasRecord' /\ AppResolved' /\ UserResolved'
  BY DEF Stages, HasRecord, Resolved, AppResolved, UserResolved
<1>3. pc' = "guardOwner" => tok.application = appId
  <2>1. CASE appId = 0
    BY <2>1 DEF Guarded
  <2>2. CASE appId # 0
    <3>1. appId > 0
      BY <2>2, IdAssumption DEF TypeOK
    <3> QED
      BY <2>2, <3>1 DEF Guard
  <2> QED
    BY <2>1, <2>2
<1>4. TypeOK' /\ Stages'
  BY <1>1, <1>2 DEF TypeOK, Stages
<1>5. DeletesOwnId'
  BY DEF DeletesOwnId
<1> QED
  BY <1>1, <1>2, <1>3, <1>4, <1>5 DEF Resolved, Guarded, Leased, NeverStuck

LEMMA CheckOwnerInv == Inv /\ CheckOwner => Inv'
<1> SUFFICES ASSUME Inv, CheckOwner PROVE Inv'
  OBVIOUS
<1> USE DEF Inv, CheckOwner, aap, request
<1>1. pc' \in {"leased", "doomed"}
  BY DEF Guard
<1>2. HasRecord' /\ AppResolved' /\ UserResolved'
  BY DEF Stages, HasRecord, Resolved, AppResolved, UserResolved
<1>3. pc' = "leased" /\ role.username # None => tok.user = userId
  <2>1. role.username # None => userId # 0
    BY IdAssumption DEF Resolved, UserResolved
  <2> QED
    BY <2>1 DEF Guard
<1>4. tok.application = appId
  BY DEF Guarded
<1>5. TypeOK' /\ Stages'
  BY <1>1, <1>2 DEF TypeOK, Stages
<1>6. DeletesOwnId'
  BY DEF DeletesOwnId
<1> QED
  BY <1>1, <1>2, <1>3, <1>4, <1>5, <1>6 DEF Resolved, Guarded, Leased, NeverStuck

\* An older lease comes with no configuration: there are no names behind it.
LEMMA OldLeaseInv == ASSUME NEW id \in TokenIds PROVE Inv /\ FindOldLease(id) => Inv'
<1> SUFFICES ASSUME Inv, FindOldLease(id) PROVE Inv'
  OBVIOUS
<1> USE DEF Inv, FindOldLease, aap
<1>1. tok' \in TokenType /\ tok'.id = id
  BY DEF TypeOK, Role, TokenType
<1>2. TokenId(record') = id
  BY DEF OldRecord, TokenId, Val
<1>3. HasRecord'
  BY <1>1 DEF HasRecord
<1>4. TypeOK' /\ Stages'
  BY <1>1, <1>2, <1>3 DEF TypeOK, Stages
<1>5. ~Leased'
  BY DEF Leased, Stages
<1> QED
  BY <1>4, <1>5 DEF Resolved, Guarded, Stages, DeletesOwnId, NeverStuck

LEMMA ReconfigureInv ==
  ASSUME NEW c \in Configs \cup {NoConfig} PROVE Inv /\ Reconfigure(c) => Inv'
<1> SUFFICES ASSUME Inv, Reconfigure(c) PROVE Inv'
  OBVIOUS
<1> USE DEF Inv, Reconfigure, aap, request
<1>1. TypeOK' /\ Stages'
  BY DEF TypeOK, Stages, HasRecord
<1>2. Resolved' /\ Guarded'
  BY DEF Resolved, AppResolved, UserResolved, Guarded, Leased
<1> QED
  BY <1>1, <1>2 DEF DeletesOwnId, NeverStuck

\* The record of a token is always read, and names it.
LEMMA RevokeInv ==
  ASSUME NEW decoder \in Decoders PROVE Inv /\ Revoke(decoder) => Inv'
<1> SUFFICES ASSUME Inv, Revoke(decoder) PROVE Inv'
  OBVIOUS
<1> DEFINE d == Json(record, decoder)
<1>1. HasRecord
  BY DEF Inv, Revoke, Stages
<1>2. Recovers(d)
  BY <1>1, RecordFacts
<1> USE DEF Inv, aap, request
<1>3. UNCHANGED <<apps, users, changes, role, conf, appId, userId, tok, named,
                  record, config>>
  BY DEF Revoke
<1>4. \/ /\ pc' \in {"revoked", "fallback"} /\ conf \in Configs
         /\ sent' = [client |-> Client(conf), id |-> tok.id]
      \/ pc' = "fallback" /\ sent' = sent
  BY <1>2 DEF Revoke, Recovers
<1>5. HasRecord'
  BY <1>1, <1>3 DEF HasRecord
<1>6. TypeOK'
  BY <1>3, <1>4 DEF TypeOK
<1>7. Stages'
  BY <1>4, <1>5 DEF Stages
<1>8. DeletesOwnId'
  BY <1>3, <1>4 DEF DeletesOwnId
<1> QED
  BY <1>4, <1>6, <1>7, <1>8 DEF Resolved, Guarded, Leased, NeverStuck

LEMMA FallbackInv ==
  ASSUME NEW decoder \in Decoders PROVE Inv /\ Fallback(decoder) => Inv'
<1> SUFFICES ASSUME Inv, Fallback(decoder) PROVE Inv'
  OBVIOUS
<1> DEFINE d == Json(record, decoder)
<1> USE DEF Inv, aap, request
<1>1. HasRecord
  BY DEF Fallback, Stages
<1>2. TokenId(d) = tok.id \/ (~HasSnapshot(record) /\ tok.id >= 2^Mantissa)
  <2>1. Recovers(d)
    BY <1>1, RecordFacts
  <2> QED
    BY <2>1 DEF Recovers
<1>3. UNCHANGED <<apps, users, changes, role, conf, appId, userId, tok, named,
                  record, config>>
  BY DEF Fallback
<1>4. \/ pc' = "doomed" /\ sent' = sent
      \/ /\ pc' \in {"doomed", "revoked"} /\ config \in Configs
         /\ sent' = [client |-> Client(config), id |-> TokenId(d)]
  BY DEF Fallback, TypeOK
<1>5. HasRecord'
  BY <1>1, <1>3 DEF HasRecord
<1>6. TypeOK'
  BY <1>3, <1>4 DEF TypeOK
<1>7. Stages'
  BY <1>4, <1>5 DEF Stages
<1>8. DeletesOwnId'
  BY <1>2, <1>3, <1>4 DEF DeletesOwnId
<1> QED
  BY <1>4, <1>6, <1>7, <1>8 DEF Resolved, Guarded, Leased, NeverStuck

LEMMA EndInv == Inv /\ End => Inv'
<1> SUFFICES ASSUME Inv, End PROVE Inv'
  OBVIOUS
<1> USE DEF Inv, End, aap
<1>1. NoRole \in Role
  BY IdAssumption DEF NoRole, Role
<1>2. TypeOK'
  BY <1>1 DEF TypeOK
<1>3. Stages' /\ Resolved' /\ Guarded'
  BY DEF Stages, Resolved, Guarded, Leased
<1> QED
  BY <1>2, <1>3 DEF DeletesOwnId, NeverStuck

LEMMA StepInv == Inv /\ [Next]_vars => Inv'
<1> SUFFICES ASSUME Inv, [Next]_vars PROVE Inv'
  OBVIOUS
<1>1. CASE ChangeDirectory
  BY <1>1, DirectoryInv
<1>2. CASE \E r \in Role : Start(r)
  BY <1>2, StartInv
<1>3. CASE ResolveApplication
  BY <1>3, ApplicationInv
<1>4. CASE ResolveUser
  BY <1>4, UserInv
<1>5. CASE \E id \in TokenIds : Mint(id) \/ FindOldLease(id)
  BY <1>5, MintInv, OldLeaseInv
<1>6. CASE CheckApplication
  BY <1>6, CheckApplicationInv
<1>7. CASE CheckOwner
  BY <1>7, CheckOwnerInv
<1>8. CASE \E c \in Configs \cup {NoConfig} : Reconfigure(c)
  BY <1>8, ReconfigureInv
<1>9. CASE \E decoder \in Decoders : Revoke(decoder) \/ Fallback(decoder)
  BY <1>9, RevokeInv, FallbackInv
<1>10. CASE End
  BY <1>10, EndInv
<1>11. CASE UNCHANGED vars
  <2>1. TypeOK' /\ Stages'
    BY <1>11 DEF vars, aap, request, Inv, TypeOK, Stages, HasRecord
  <2>2. Resolved' /\ Guarded'
    BY <1>11 DEF vars, aap, request, Inv, Resolved, AppResolved, UserResolved,
                 Guarded, Leased
  <2> QED
    BY <1>11, <2>1, <2>2 DEF vars, aap, request, Inv, DeletesOwnId, NeverStuck
<1> QED
  BY <1>1, <1>2, <1>3, <1>4, <1>5, <1>6, <1>7, <1>8, <1>9, <1>10, <1>11 DEF Next

THEOREM IdentityInvariant == Spec => []Inv
  BY InitInv, StepInv, PTL DEF Spec

-----------------------------------------------------------------------------
(***************************************************************************)
(* Theorems.                                                               *)
(***************************************************************************)
\* Every variable keeps its type; a record's id is a token's and a DELETE's
\* client is built from a configuration some operator stored.
THEOREM Typing == Spec => []TypeOK
  BY IdentityInvariant, PTL DEF Inv

\* Whatever AAP lists, leaves out, binds or renames meanwhile, a token that is
\* handed out is bound to the one application its role named.
THEOREM Bound == Spec => []BoundAsNamed
<1>1. Inv => BoundAsNamed
  BY DEF Inv, Resolved, AppResolved, Guarded, Leased, BoundAsNamed
<1> QED
  BY <1>1, IdentityInvariant, PTL

\* Likewise it is owned by the one user its role named.
THEOREM Owned == Spec => []OwnedAsNamed
<1>1. Inv => OwnedAsNamed
  BY DEF Inv, Resolved, UserResolved, Guarded, Leased, OwnedAsNamed
<1> QED
  BY <1>1, IdentityInvariant, PTL

\* The client a revocation builds from a record is the one that minted.
THEOREM Revoker == Spec => []SameClient
<1>1. Inv => SameClient
  <2> SUFFICES ASSUME Inv, record # NoRecord, HasSnapshot(record),
                      NEW decoder \in Decoders
               PROVE  Client(ReadBack(Json(record, decoder))) = Client(conf)
    BY DEF SameClient
  <2>1. HasRecord
    BY DEF Inv, TypeOK, Stages, NeverStuck
  <2> QED
    BY <2>1, RecordFacts DEF Recovers
<1> QED
  BY <1>1, IdentityInvariant, PTL

\* No DELETE names another token, but for ids a float64 cannot name in leases
\* of the older version.
THEOREM OwnId == Spec => []DeletesOwnId
  BY IdentityInvariant, PTL DEF Inv

\* No record makes its token unrevocable.
THEOREM Unstuck == Spec => []NeverStuck
  BY IdentityInvariant, PTL DEF Inv

=============================================================================
