--------------------------- MODULE TokenIdentity ---------------------------
(***************************************************************************)
(* The data of one credential, from the names in its role to the DELETE    *)
(* that ends it: application and user names are resolved to ids, the ids   *)
(* go into the mint and come back through the guards, the token's id and   *)
(* the configuration are recorded, read back from JSON and used to revoke. *)
(* Meanwhile AAP's administrators rename, delete and create applications   *)
(* and users, AAP's answers may list more than was asked for and lack ids, *)
(* and operators change the configuration.  Which of these steps can fail, *)
(* and what then happens to the token, is TokenIssuance.                   *)
(***************************************************************************)
EXTENDS RevocationSnapshot, FiniteSets

CONSTANTS AppId, UserId,   \* ids of applications and users, positive
          Name,            \* their names
          TokenIds,        \* ids of tokens
          Configs,         \* what operators store
          None, NoToken, NoRecord, NoCall, NoConfig,
          MaxChanges       \* bound: directory changes while a request runs

Role == [application : Name \cup {None}, username : Name \cup {None},
         minter : UserId]     \* the user behind the minting credential
TokenType == [id : TokenIds, user : UserId, application : AppId \cup {0}]
Directory(Ids) == [Ids -> Name \cup {None}]

\* An AAP has finitely many applications and users, its own among them.
ASSUME IdAssumption ==
    /\ AppId \cup UserId \cup TokenIds \subseteq Nat \ {0} /\ None \notin Name
    /\ IsFiniteSet(AppId) /\ IsFiniteSet(UserId) /\ UserId # {}
\* pathConfigWrite stores complete configurations only.
ASSUME ConfigsAssumption ==
    Configs \subseteq Config /\ (\A c \in Configs : Usable(c)) /\ MaxChanges \in Nat

VARIABLES
    apps, users,    \* AAP's directories: the name of each id
    pc,             \* where the request, and then the record, is
    role, conf,     \* the role and the configuration the request read
    appId, userId,  \* what its names resolved to, 0 when it names none
    tok,            \* the token AAP made
    record,         \* the WAL entry or lease
    config,         \* the configuration stored now
    sent,           \* the last DELETE: its client and its id
    named,          \* history: who had the role's names when they were resolved
    changes         \* directory changes so far

aap == <<apps, users, changes>>
request == <<role, conf, appId, userId, tok, named>>
vars == <<aap, pc, request, record, config, sent>>

NoRole == [application |-> None, username |-> None,
           minter |-> CHOOSE u \in UserId : TRUE]

TypeOK ==
    /\ apps \in Directory(AppId) /\ users \in Directory(UserId)
    /\ pc \in {"idle", "app", "user", "mint", "guardApp", "guardOwner",
               "doomed", "leased", "fallback", "revoked", "stuck"}
    /\ role \in Role /\ conf \in Configs \cup {NoConfig}
    /\ appId \in AppId \cup {0} /\ userId \in UserId \cup {0}
    /\ tok \in TokenType \cup {NoToken}
    /\ record # NoRecord => TokenId(record) \in TokenIds
    /\ config \in Configs \cup {NoConfig}
    /\ sent # NoCall => sent.client \in {Client(c) : c \in Configs}
    /\ named \in [apps : SUBSET AppId, users : SUBSET UserId]
    /\ changes \in 0..MaxChanges

Init ==
    /\ apps \in Directory(AppId) /\ users \in Directory(UserId)
    /\ pc = "idle" /\ role = NoRole /\ conf = NoConfig
    /\ appId = 0 /\ userId = 0 /\ tok = NoToken /\ record = NoRecord
    /\ config \in Configs /\ sent = NoCall
    /\ named = [apps |-> {}, users |-> {}] /\ changes = 0

(***************************************************************************)
(* AAP.                                                                    *)
(***************************************************************************)
Holders(dir, name) == {i \in DOMAIN dir : dir[i] = name}

\* A rename, a delete, or a create of an application or a user.
ChangeDirectory ==
    /\ changes < MaxChanges /\ changes' = changes + 1
    /\ \/ \E i \in AppId, n \in Name \cup {None} :
            apps' = [apps EXCEPT ![i] = n] /\ UNCHANGED users
       \/ \E i \in UserId, n \in Name \cup {None} :
            users' = [users EXCEPT ![i] = n] /\ UNCHANGED apps
    /\ UNCHANGED <<pc, request, record, config, sent>>

\* Mutant: an id that is missing from the answer is taken for 0.
Lookup_zero(dir, name, shown, blank) ==
    LET matches == {i \in shown : dir[i] = name} IN
    IF Cardinality(matches) # 1 THEN {}
    ELSE {IF i \in blank THEN 0 ELSE i : i \in matches}

\* Mutant: of several matches one is taken.
Lookup_first(dir, name, shown, blank) ==
    {i \in shown \ blank : dir[i] = name}

\* ResolveApplicationID and ResolveUserID, given an answer that lists `shown'
\* and lacks the ids of `blank': the one exact match, or an error.
Lookup(dir, name, shown, blank) ==
    LET matches == {i \in shown : dir[i] = name} IN
    IF Cardinality(matches) = 1 /\ matches \cap blank = {} THEN matches ELSE {}

\* An answer has every exact match, perhaps more, perhaps without their ids.
Answers(dir, name) ==
    {a \in [shown : SUBSET DOMAIN dir, blank : SUBSET DOMAIN dir] :
       Holders(dir, name) \subseteq a.shown /\ a.blank \subseteq a.shown}

(***************************************************************************)
(* createToken.                                                            *)
(***************************************************************************)
Start(r) ==
    /\ pc = "idle" /\ config # NoConfig
    /\ role' = r /\ conf' = config /\ pc' = "app"
    /\ UNCHANGED <<aap, appId, userId, tok, named, record, config, sent>>

ResolveApplication ==
    /\ pc = "app"
    /\ \/ role.application = None /\ pc' = "user" /\ UNCHANGED <<appId, named>>
       \/ /\ role.application # None
          /\ named' = [named EXCEPT !.apps = Holders(apps, role.application)]
          /\ \E a \in Answers(apps, role.application) :
               LET ids == Lookup(apps, role.application, a.shown, a.blank) IN
               \/ ids = {} /\ pc' = "revoked" /\ UNCHANGED appId
               \/ appId' \in ids /\ pc' = "user"
    /\ UNCHANGED <<aap, role, conf, userId, tok, record, config, sent>>

ResolveUser ==
    /\ pc = "user"
    /\ \/ role.username = None /\ pc' = "mint" /\ UNCHANGED <<userId, named>>
       \/ /\ role.username # None
          /\ named' = [named EXCEPT !.users = Holders(users, role.username)]
          /\ \E a \in Answers(users, role.username) :
               LET ids == Lookup(users, role.username, a.shown, a.blank) IN
               \/ ids = {} /\ pc' = "revoked" /\ UNCHANGED userId
               \/ userId' \in ids /\ pc' = "mint"
    /\ UNCHANGED <<aap, role, conf, appId, tok, record, config, sent>>

\* AAP makes the caller the owner, binds the token as it sees fit when the
\* payload has an application, and the engine records it at once.
Mint(id) ==
    /\ pc = "mint"
    /\ \E a \in IF appId > 0 THEN AppId \cup {0} ELSE {0} :
         tok' = [id |-> id, user |-> role.minter, application |-> a]
    /\ record' = Record(id, conf) /\ pc' = "guardApp"
    /\ UNCHANGED <<aap, role, conf, appId, userId, named, config, sent>>

\* A guard passes when there is nothing to compare or the id AAP answers, 0
\* when it is missing, is the resolved one; else the token is to be revoked.
Guard(wanted, want, got, next) ==
    \/ ~wanted /\ pc' = next
    \/ wanted /\ \E answer \in {got, 0} :
         pc' = IF answer = want THEN next ELSE "doomed"

CheckApplication ==
    /\ pc = "guardApp" /\ Guard(appId > 0, appId, tok.application, "guardOwner")
    /\ UNCHANGED <<aap, request, record, config, sent>>

CheckOwner ==
    /\ pc = "guardOwner"
    /\ Guard(role.username # None, userId, tok.user, "leased")
    /\ UNCHANGED <<aap, request, record, config, sent>>

\* A lease written by an older version of the engine.
FindOldLease(id) ==
    /\ pc = "idle" /\ pc' = "leased" /\ record' = OldRecord(id)
    /\ tok' = [id |-> id, user |-> role.minter, application |-> 0]
    /\ UNCHANGED <<aap, role, conf, appId, userId, named, config, sent>>

(***************************************************************************)
(* The operator, and revokeToken.                                          *)
(***************************************************************************)
Reconfigure(c) ==
    /\ pc \in {"leased", "doomed"} /\ config' = c
    /\ UNCHANGED <<aap, pc, request, record, sent>>

\* tokenRevoke and walRollback: an unreadable snapshot is an error and there
\* is no fallback; a snapshot that does not work, or none, falls back.
Revoke(decoder) ==
    LET d == Json(record, decoder) IN
    /\ pc \in {"leased", "doomed"}
    /\ \/ HasSnapshot(d) /\ ~Readable(d) /\ pc' = "stuck" /\ UNCHANGED sent
       \/ /\ HasSnapshot(d) /\ Readable(d) /\ Usable(ReadBack(d))
          /\ sent' = [client |-> Client(ReadBack(d)), id |-> TokenId(d)]
          /\ pc' \in {"revoked", "fallback"}
       \/ /\ ~HasSnapshot(d) \/ (Readable(d) /\ ~Usable(ReadBack(d)))
          /\ pc' = "fallback" /\ UNCHANGED sent
    /\ UNCHANGED <<aap, request, record, config>>

\* Without a configuration the call fails, and is made again later.
Fallback(decoder) ==
    /\ pc = "fallback"
    /\ IF config = NoConfig
       THEN pc' = "doomed" /\ UNCHANGED sent
       ELSE /\ sent' = [client |-> Client(config),
                       id |-> TokenId(Json(record, decoder))]
            /\ pc' \in {"doomed", "revoked"}
    /\ UNCHANGED <<aap, request, record, config>>

\* The record is gone, or there never was a token.
End ==
    /\ pc = "revoked" /\ pc' = "idle" /\ role' = NoRole /\ conf' = NoConfig
    /\ appId' = 0 /\ userId' = 0 /\ tok' = NoToken /\ record' = NoRecord
    /\ sent' = NoCall /\ named' = [apps |-> {}, users |-> {}]
    /\ UNCHANGED <<aap, config>>

Next ==
    \/ ChangeDirectory
    \/ \E r \in Role : Start(r)
    \/ ResolveApplication \/ ResolveUser
    \/ \E id \in TokenIds : Mint(id) \/ FindOldLease(id)
    \/ CheckApplication \/ CheckOwner
    \/ \E c \in Configs \cup {NoConfig} : Reconfigure(c)
    \/ \E decoder \in Decoders : Revoke(decoder) \/ Fallback(decoder)
    \/ End

Spec == Init /\ [][Next]_vars

-----------------------------------------------------------------------------
(***************************************************************************)
(* Properties.                                                             *)
(***************************************************************************)
Leased == pc = "leased" /\ conf # NoConfig

\* A token that leaves for the caller is bound to the only application that
\* had the role's name when it was resolved, whatever AAP lists, leaves out,
\* binds, or renames afterwards; a role without one gets a personal token.
BoundAsNamed ==
    Leased => IF role.application = None THEN tok.application = 0
              ELSE named.apps = {tok.application}

\* Likewise it is owned by the only user that had the role's username.
OwnedAsNamed ==
    Leased /\ role.username # None => named.users = {tok.user}

\* The client a revocation builds from a record is the client that minted:
\* same AAP, credential, TLS trust and timeout, after any JSON.
SameClient ==
    record # NoRecord /\ HasSnapshot(record) =>
      \A decoder \in Decoders :
         Client(ReadBack(Json(record, decoder))) = Client(conf)

\* No DELETE names another token's id: a record of this version is exact for
\* every id, an older one for ids a float64 can name.
DeletesOwnId ==
    sent # NoCall =>
      sent.id = tok.id \/ (~HasSnapshot(record) /\ tok.id >= 2^Mantissa)

\* A record never makes its own token unrevocable: it is always readable, so
\* that an error falls back to the current configuration.
NeverStuck == pc # "stuck"

-----------------------------------------------------------------------------
(***************************************************************************)
(* The inductive invariant.                                                *)
(***************************************************************************)
\* The record is of the token, with the configuration that minted it or, of an
\* older version, with none.
HasRecord ==
    /\ tok \in TokenType
    /\ \/ record = OldRecord(tok.id)
       \/ conf \in Configs /\ record = Record(tok.id, conf)

\* What there is of a credential at each point.
Stages ==
    /\ pc = "idle" => conf = NoConfig /\ appId = 0
    /\ pc = "app" => appId = 0
    /\ pc \in {"app", "user", "mint"} => conf \in Configs
    /\ pc \in {"idle", "app", "user", "mint"} => record = NoRecord /\ sent = NoCall
    /\ pc \in {"guardApp", "guardOwner", "doomed", "leased", "fallback"} => HasRecord
    /\ pc = "revoked" => HasRecord \/ (record = NoRecord /\ sent = NoCall)

\* What its names resolved to.
AppResolved == IF role.application = None THEN appId = 0
               ELSE appId \in AppId /\ named.apps = {appId}
UserResolved == role.username # None => userId \in UserId /\ named.users = {userId}
Resolved ==
    /\ pc \in {"user", "mint", "guardApp", "guardOwner"} \/ Leased => AppResolved
    /\ pc \in {"mint", "guardApp", "guardOwner"} \/ Leased => UserResolved

\* What the guards have established.
Guarded ==
    /\ pc = "guardApp" => (appId = 0 => tok.application = 0)
    /\ pc = "guardOwner" \/ Leased => tok.application = appId
    /\ Leased => (role.username # None => tok.user = userId)

Inv == TypeOK /\ Stages /\ Resolved /\ Guarded /\ DeletesOwnId /\ NeverStuck
=============================================================================
