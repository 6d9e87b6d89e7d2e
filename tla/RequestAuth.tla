---------------------------- MODULE RequestAuth ----------------------------
(***************************************************************************)
(* The verification of a request's SigV4 signature                         *)
(* (crates/s4logs-gateway/src/auth.rs).                                    *)
(*                                                                         *)
(* A hash is its preimage and a MAC is its key with its message.  Times    *)
(* are counted in slots of a quarter of an hour, Day of them a day.  A     *)
(* header's value is a sequence of words and blanks, a query a sequence of *)
(* pairs, and the Authorization header a sequence of named parts.          *)
(***************************************************************************)
EXTENDS Integers, FiniteSets, FiniteSetsExt, Sequences, SequencesExt

CONSTANTS
  Day,             \* slots of a day
  MAX_CLOCK_SKEW,  \* in slots
  access_key, secret_key  \* AuthMode::SigV4

ASSUME AuthAssumption == Day \in Nat \ {0} /\ MAX_CLOCK_SKEW \in Nat

Blanks == {" ", "\t"}

\* A header that may be missing is a set of at most one value.
UNSIGNED_PAYLOAD == <<"UNSIGNED-PAYLOAD">>

-----------------------------------------------------------------------------
(* The date *)

\* Mutant: January and February are not taken for the end of a year.
DaysFromMarch(y, m, d) ==
  LET era == y \div 400
      yoe == y - era * 400
      doy == (153 * ((m + 9) % 12) + 2) \div 5 + d - 1
  IN era * 146097 + yoe * 365 + yoe \div 4 - yoe \div 100 + doy - 719468

\* Days since 1970-01-01, with years that begin in March.
days_from_civil(y, m, d) ==
  LET yy == IF m <= 2 THEN y - 1 ELSE y
      era == yy \div 400
      yoe == yy - era * 400
      mp == (m + 9) % 12
      doy == (153 * mp + 2) \div 5 + d - 1
      doe == yoe * 365 + yoe \div 4 - yoe \div 100 + doy
  IN era * 146097 + doe - 719468

\* The time that an x-amz-date stands for, if it has the form of a date: days
\* beyond the end of a month run on into the next.
parse_amz_date(a) ==
  LET t == days_from_civil(a.date[1], a.date[2], a.date[3]) * Day + a.slot
  IN IF a.date[2] \in 1 .. 12 /\ a.date[3] \in 1 .. 31 /\ a.slot < Day /\ t >= 0
     THEN {t} ELSE {}

-----------------------------------------------------------------------------
(* The canonical request *)

\* normalize_header_value: trimmed, each run of blanks made one space.
normalize(value) ==
  LET Add(out, c) == IF c \notin Blanks THEN Append(out, c)
                      ELSE IF out = << >> \/ Last(out) = " " THEN out ELSE Append(out, " ")
      out == FoldLeft(Add, << >>, value)
  IN IF out # << >> /\ Last(out) = " " THEN Front(out) ELSE out

\* The values of a header's lines, also empty ones, with commas between them.
Joined(lines) ==
  FoldLeft(LAMBDA out, v : out \o <<",">> \o normalize(v), normalize(Head(lines)), Tail(lines))

\* The pairs sorted by name and value; a name without `=` has an empty value.
CanonicalQuery(query) ==
  LET pairs == [i \in DOMAIN query |-> IF Len(query[i]) = 1 THEN <<query[i][1], 0>> ELSE query[i]]
  IN SortSeq(pairs, LAMBDA p, q : p[1] < q[1] \/ (p[1] = q[1] /\ p[2] < q[2]))

\* Mutant: a payload hash that the client sent is believed.
PayloadAsSent(req) == IF req.sha256 = {} THEN <<"sha256", req.body>> ELSE CHOOSE h \in req.sha256 : TRUE

\* UNSIGNED-PAYLOAD, or the hash of the body that was received, whatever hash the
\* client sent.
PayloadHash(req) ==
  IF UNSIGNED_PAYLOAD \in req.sha256 THEN UNSIGNED_PAYLOAD ELSE <<"sha256", req.body>>

\* canonical_request: nothing if a signed header is not there.
canonical_request(req, names) ==
  IF names \subseteq DOMAIN req.headers
  THEN {[method |-> req.method, path |-> IF req.path = "" THEN "/" ELSE req.path,
         query |-> CanonicalQuery(req.query),
         headers |-> [n \in names |-> Joined(req.headers[n])], payload |-> PayloadHash(req)]}
  ELSE {}

-----------------------------------------------------------------------------
(* The signature *)

\* The part of the Authorization header with this name: the last one counts.
Part(auth, name) ==
  LET is == {i \in DOMAIN auth.parts : auth.parts[i][1] = name}
  IN IF is = {} THEN {} ELSE {auth.parts[Max(is)][2]}

\* parse_authorization
parse_authorization(auth) ==
  IF auth.algorithm # "AWS4-HMAC-SHA256" THEN {}
  ELSE {[scope |-> p[1], signed_headers |-> p[2], signature |-> p[3]] :
          p \in {q \in Part(auth, "Credential") \X Part(auth, "SignedHeaders") \X Part(auth, "Signature") :
                   Len(q[1]) = 5 /\ q[1][5] = "aws4_request" /\ q[2] # {}}}

\* The MAC of the string to sign under the key for its date, region and service.
Mac(secret, amz_date, scope, canonical) == <<secret, amz_date, Tail(scope), canonical>>

\* Mutant: the scope's date must be the server's.
SameDateAsServer(scope_date, a, now) ==
  now \div Day = days_from_civil(scope_date[1], scope_date[2], scope_date[3])

\* The date of the credential scope is that of the request.
SameDate(scope_date, a, now) == scope_date = a.date

\* verify: the checks in turn, the first that fails decides.
verify(req, now) ==
  CASE req.authorization = {} -> "MissingToken"
    [] \E auth \in req.authorization, a \in req.amz_date :
         \E p \in parse_authorization(auth), t \in parse_amz_date(a) :
           /\ p.scope[1] = access_key
           /\ t - now <= MAX_CLOCK_SKEW /\ now - t <= MAX_CLOCK_SKEW
           /\ SameDate(p.scope[2], a, now)
           /\ \E c \in canonical_request(req, p.signed_headers) :
                p.signature = Mac(secret_key, a, p.scope, c) -> "Ok"
    [] OTHER -> "Invalid"
=============================================================================
