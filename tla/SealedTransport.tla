--------------------------- MODULE SealedTransport ---------------------------
(***************************************************************************)
(* How the body of a POST is opened before its handler sees it             *)
(* (handlers/ingestion/middleware.ts, gzip.ts; helpers/ecdh-decrypt.ts),   *)
(* with the ECDH keys that the container keeps (the "ecdh" cache of        *)
(* DatasetCaches). A version at the source is a key pair, with the pair    *)
(* before it or without. A client holds a public key that was distributed  *)
(* some time. A request has                                                *)
(*   integrity  whether it is for /v1/integrity-collect                    *)
(*   octet      whether its content is application/octet-stream            *)
(*   origin, version, session  of its headers: the client's public key,    *)
(*              the version of the transport, the session token            *)
(*   body       [pair, origin, age, seed]: the server's pair and the       *)
(*              client's key it was sealed with, how long ago by the       *)
(*              client's clock, and the token it was scrambled with, None  *)
(*              for deflated; or None: it is not sealed                    *)
(*   faults     what else is wrong with it                                 *)
(***************************************************************************)
EXTENDS DatasetCaches, ScanValues

CONSTANTS
  TicksPerDay,
  Requests    \* what clients send

ASSUME TransportAssumption == TicksPerDay \in Nat \ {0} /\ Calls # {}
ASSUME RequestsAssumption ==
  /\ None \notin Requests /\ None # "parsed"
  /\ \A q \in Requests : q.body # None => q.body.age \in Int

VARIABLES
  keeping,    \* the versions that come with the pair before
  distributed,  \* the pairs whose public key was distributed
  request,    \* the one at hand, or None: a container has one at a time
  status      \* what came of it, or None

transportVars == <<keeping, distributed, request, status>>

Reader == CHOOSE c \in Calls : TRUE
held == call[Reader]

TransportInit == keeping = {} /\ distributed = {} /\ request = None /\ status = None

------------------------------------------------------------------------------
(* What a request is answered, "parsed" if the handler gets to see it.     *)

Faulty(q, kinds) == q.faults \cap kinds # {}

NeedsKeys(q) == q.octet /\ q.origin # None

Parsed(q) == IF Faulty(q, {"no JSON"}) THEN "400" ELSE "parsed"

Decompress(q) ==
  OneOf(<<<<Faulty(q, {"no gzip header", "no base64"}), "400">>,
          <<Faulty(q, {"large"}), "413">>,
          <<Faulty(q, {"no gzip", "inflates"}), "400">>,
          <<TRUE, Parsed(q)>>>>)

\* Without keys: a scan has to be sealed, other requests may be plain or
\* compressed.
OpenPlain(q) ==
  OneOf(<<<<q.integrity, "415">>,
          <<q.octet, Decompress(q)>>,
          <<Faulty(q, {"large"}), "413">>,
          <<TRUE, Parsed(q)>>>>)

Keyring(v) ==
  IF v = 0 THEN {} ELSE {v} \cup (IF v \in keeping THEN {v - 1} \ {0} ELSE {})

DayOf(t) == t \div TicksPerDay

\* Variant: The day is the server's.
SaltsToday == {DayOf(now)}

\* The client may have sealed before midnight.
Salts == {DayOf(now), DayOf(now) - 1}

\* Every pair of the ring is tried with every day. What does not unwrap as
\* the endpoint expects counts as not decrypted, so does too large a body.
Decrypts(q, ring) ==
  /\ q.body # None
  /\ q.body.pair \in ring /\ q.body.origin = q.origin
  /\ DayOf(now - q.body.age) \in Salts
  /\ q.body.seed = (IF q.integrity THEN q.session ELSE None)
  /\ ~Faulty(q, {"no JSON"}) /\ (q.integrity \/ ~Faulty(q, {"inflates"}))

RequireV3(q) == q.version = 3 /\ q.session # None

OpenSealed(q, v) ==
  OneOf(<<<<v = 0, "503">>,
          <<q.integrity /\ ~RequireV3(q), "400">>,
          <<~Decrypts(q, Keyring(v)), "400">>,
          <<TRUE, "parsed">>>>)

------------------------------------------------------------------------------
(* The middleware.                                                         *)

Arrives(q) ==
  /\ request = None /\ (q.body # None => q.body.pair \in distributed)
  /\ request' = q
  /\ UNCHANGED <<keeping, distributed>>

AnswerPlain(q) ==
  /\ ~NeedsKeys(q) /\ Arrives(q)
  /\ status' = OpenPlain(q)
  /\ UNCHANGED cacheVars

AskForKeys(q) ==
  /\ NeedsKeys(q) /\ Arrives(q)
  /\ ServeCached(Reader) \/ Join(Reader)
  /\ UNCHANGED status

Decrypt ==
  /\ request # None /\ status = None /\ held.pc = "served"
  /\ status' = OpenSealed(request, held.got)
  /\ UNCHANGED <<keeping, distributed, request, cacheVars>>

HandOn ==
  /\ status # None
  /\ request' = None /\ status' = None
  /\ UNCHANGED <<keeping, distributed, cacheVars>>

\* An operator writes a new pair, beside the present one or in its place;
\* the script that generates pairs does the latter, and publishes the
\* public key afterwards.
Rotate ==
  /\ Change
  /\ keeping' \in {keeping, keeping \cup {origin'}}
  /\ UNCHANGED <<distributed, request, status>>

Publish ==
  /\ origin > 0 /\ origin \notin distributed
  /\ distributed' = distributed \cup {origin}
  /\ UNCHANGED <<keeping, request, status, cacheVars>>

\* A request is answered within a tick.
TransportTick == CacheTick /\ request = None /\ UNCHANGED transportVars

TransportNext ==
  \/ \E q \in Requests : AnswerPlain(q) \/ AskForKeys(q)
  \/ Decrypt \/ HandOn
  \/ Container /\ UNCHANGED transportVars
  \/ Rotate \/ Publish \/ TransportTick

------------------------------------------------------------------------------
(* Properties.                                                             *)

\* What the SDK sends, within a day and from a clock that is not ahead.
Genuine(q) ==
  /\ q.integrity /\ NeedsKeys(q) /\ q.version = 3 /\ q.session # None
  /\ q.body # None /\ q.faults = {}
  /\ q.body.origin = q.origin /\ q.body.seed = q.session
  /\ q.body.age \in 0 .. TicksPerDay

\* A genuine scan is opened on either side of midnight and of a rotation,
\* whatever keys the container kept, if its pair was in every ring
\* that was at the source in the last Ttl: one that keeps the pair before
\* saves old clients, a new pair that is distributed at once is too new for a
\* container that loaded the keys before.
GenuineIsOpened ==
  /\ status # None /\ Genuine(request) /\ ~held.saw
  /\ \A v \in 0 .. origin : WasCurrent(Reader, v) => request.body.pair \in Keyring(v)
  => status = "parsed"

\* A scan that is handed on was sealed lately, for this very session and
\* client, with a pair that the source had; nothing that is plain is.
OpenedIsSealed ==
  status = "parsed" /\ request.integrity =>
    LET body == request.body
    IN /\ body # None /\ body.pair \in 1 .. origin /\ body.age < 2 * TicksPerDay
       /\ body.origin = request.origin /\ body.seed = request.session

\* Together: the seal of /v1/integrity-collect.
SealHolds == GenuineIsOpened /\ OpenedIsSealed
=============================================================================
