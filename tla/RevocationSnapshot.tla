------------------------- MODULE RevocationSnapshot -------------------------
(***************************************************************************)
(* What a WAL entry and a lease keep for the revocation of a token: its id *)
(* and a snapshot of the configuration (revocation_config.go, wal.go), the *)
(* JSON in between, and the client that is built from what is read back.   *)
(*                                                                         *)
(* Data is a function from the keys that are present to typed values.  A   *)
(* JSON number comes back as float64, exact up to Mantissa bits, or as     *)
(* json.Number, the text itself, depending on who decodes it.              *)
(***************************************************************************)
EXTENDS Integers

CONSTANTS Address, Secret, Username, Password, Path, CACert,
          Empty,           \* the empty string
          DefaultPath,     \* defaultTokensAPIPath
          DefaultTimeout,  \* defaultHTTPTimeout, in seconds
          Mantissa         \* bits of a float64's significand: 53

ASSUME MantissaAssumption == Mantissa \in Nat \ {0}

Config == [address : Address \cup {Empty}, token : Secret \cup {Empty},
           username : Username \cup {Empty}, password : Password \cup {Empty},
           path : Path \cup {Empty}, caCert : CACert \cup {Empty},
           skip : BOOLEAN, timeout : 0..(2^Mantissa - 1)]

Texts == {"address", "token", "username", "password", "path", "caCert"}
Val(kind, v) == [kind |-> kind, v |-> v]

(***************************************************************************)
(* Writing.                                                                *)
(***************************************************************************)
\* addRevocationData and newWALToken: a zero timeout is left out.
Keys(c) == Texts \cup {"skip"} \cup (IF c.timeout > 0 THEN {"timeout"} ELSE {})

SnapshotValue(c, k) ==
    IF k = "skip" THEN Val("bool", c.skip)
    ELSE IF k = "timeout" THEN Val("int64", c.timeout) ELSE Val("string", c[k])

\* Mutant: the token id is stored as a number.
Record_number(id, c) ==
    [k \in Keys(c) \cup {"token_id"} |->
       IF k = "token_id" THEN Val("int64", id) ELSE SnapshotValue(c, k)]

\* Mutant: the snapshot knows bearer tokens only.
Record_bearer(id, c) ==
    [k \in (Keys(c) \cup {"token_id"}) \ {"username", "password"} |->
       IF k = "token_id" THEN Val("string", id) ELSE SnapshotValue(c, k)]

\* The id is stored as a decimal string, which names it exactly.
Record(id, c) ==
    [k \in Keys(c) \cup {"token_id"} |->
       IF k = "token_id" THEN Val("string", id) ELSE SnapshotValue(c, k)]

\* A lease of a version that stored the id as a number, and no snapshot.
OldRecord(id) == [k \in {"token_id"} |-> Val("int64", id)]

(***************************************************************************)
(* JSON.                                                                   *)
(***************************************************************************)
\* The float64 next to n, ties to even, for n below 2^(2 * Mantissa).
Float(n) ==
    IF n < 2^Mantissa THEN n
    ELSE LET e == CHOOSE i \in 1..Mantissa :
                    2^(Mantissa + i - 1) <= n /\ n < 2^(Mantissa + i)
             q == n \div 2^e
             r == n % 2^e
             half == 2^(e - 1)
         IN (IF r > half \/ (r = half /\ q % 2 = 1) THEN q + 1 ELSE q) * 2^e

Decoders == {"float64", "number"}

Json(d, decoder) ==
    [k \in DOMAIN d |->
       IF d[k].kind # "int64" THEN d[k]
       ELSE Val(decoder, IF decoder = "float64" THEN Float(d[k].v) ELSE d[k].v)]

(***************************************************************************)
(* Reading back: configFromRevocationData, coerceInt64.                    *)
(***************************************************************************)
HasSnapshot(d) == "address" \in DOMAIN d \/ "token" \in DOMAIN d

Text(d, k) == IF k \in DOMAIN d THEN d[k].v ELSE Empty

\* Mutant: a snapshot without a bearer token is refused.
Readable_bearer(d) ==
    /\ \A k \in Texts \cap DOMAIN d : d[k].kind = "string"
    /\ Text(d, "address") # Empty /\ Text(d, "token") # Empty
    /\ "skip" \in DOMAIN d => d["skip"].kind = "bool"
    /\ "timeout" \in DOMAIN d =>
         d["timeout"].kind \in {"int64", "string"} \cup Decoders

\* No value has the wrong type, and the address is there.
Readable(d) ==
    /\ \A k \in Texts \cap DOMAIN d : d[k].kind = "string"
    /\ Text(d, "address") # Empty
    /\ "skip" \in DOMAIN d => d["skip"].kind = "bool"
    /\ "timeout" \in DOMAIN d =>
         d["timeout"].kind \in {"int64", "string"} \cup Decoders

\* Mutant: the snapshot's API path is ignored.
ReadBack_nopath(d) ==
    [address |-> Text(d, "address"), token |-> Text(d, "token"),
     username |-> Text(d, "username"), password |-> Text(d, "password"),
     path |-> DefaultPath, caCert |-> Text(d, "caCert"),
     skip |-> IF "skip" \in DOMAIN d THEN d["skip"].v ELSE FALSE,
     timeout |-> IF "timeout" \in DOMAIN d THEN d["timeout"].v ELSE 0]

ReadBack(d) ==
    [address |-> Text(d, "address"), token |-> Text(d, "token"),
     username |-> Text(d, "username"), password |-> Text(d, "password"),
     path |-> IF Text(d, "path") = Empty THEN DefaultPath ELSE Text(d, "path"),
     caCert |-> Text(d, "caCert"),
     skip |-> IF "skip" \in DOMAIN d THEN d["skip"].v ELSE FALSE,
     timeout |-> IF "timeout" \in DOMAIN d THEN d["timeout"].v ELSE 0]

TokenId(d) == d["token_id"].v

(***************************************************************************)
(* newClient: basic when there is a username and password, else bearer.    *)
(***************************************************************************)
Basic(c) == c.username # Empty /\ c.password # Empty

Usable(c) == c.address # Empty /\ (Basic(c) \/ c.token # Empty)

Client(c) ==
    [address |-> c.address,
     basePath |-> IF c.path = Empty THEN DefaultPath ELSE c.path,
     auth |-> IF Basic(c) THEN <<"basic", c.username, c.password>>
                          ELSE <<"bearer", c.token>>,
     caCert |-> c.caCert, skip |-> c.skip,
     timeout |-> IF c.timeout > 0 THEN c.timeout ELSE DefaultTimeout]
=============================================================================
