---------------------------- MODULE PatAttestation ----------------------------
(***************************************************************************)
(* GET /v1/pat-attestation: Apple Private Access Tokens as evidence.       *)
(*                                                                         *)
(* Without a token the endpoint answers with a challenge that names the    *)
(* issuer's key; the client has the issuer mint a token under that key and *)
(* comes back with it. A genuine token is claimed in a ledger (Valkey) and *)
(* answered with a wrapper, signed, bound to one scan (address, merchant,  *)
(* session) and short-lived, that ingestion accepts as evidence.           *)
(*                                                                         *)
(* Each container caches the issuer's key and refreshes it in the          *)
(* background; keys rotate, and every await may end in a kill. Time is     *)
(* counted in ticks of some minutes: a fetch takes none or several steps.  *)
(***************************************************************************)
EXTENDS Integers, Sequences, FiniteSets

CONSTANTS
  Calls,              \* handler invocations (one that got a challenge is used again)
  Containers,         \* Lambda containers
  Keys,               \* issuer keys of the expected token type
  Serials,            \* tokens the issuer may mint under one key
  Bindings,           \* <<source address, cpi, session>> of a scan
  PinnedKeys,         \* knownTokenKeyIds
  EnforceKeyPin,      \* enforceKeyPin
  CacheSeconds,       \* directoryCacheSeconds, in ticks
  WrapperTtl,         \* DEFAULT_TTL_MS, in ticks
  LedgerTtl,          \* REPLAY_TTL_SECONDS, in ticks
  MaxSends,           \* times ioredis sends one command
  MaxTime,            \* bound: the last tick
  None,               \* no key, entry or input
  Forged              \* a token that verifies under no key

ASSUME PinAssumption == PinnedKeys \subseteq Keys /\ EnforceKeyPin \in BOOLEAN
ASSUME TimeAssumption ==
  /\ CacheSeconds \in Nat /\ WrapperTtl \in Nat /\ LedgerTtl \in Nat /\ MaxTime \in Nat
ASSUME SendsAssumption == MaxSends \in Nat \ {0}

VARIABLES
  now,        \* the clock of issuer and containers
  directory,  \* the issuer's directory: the not-before of each key, if published
  cache,      \* per container, the cached key
  inflight,   \* per container, the fetches under way, with what was answered
  challenged, \* keys that were in a challenge
  minted,     \* tokens the issuer minted
  pc,         \* where an invocation is, or what it answered
  host,       \* the container it runs in
  input,      \* the token and the binding it was called with, or None
  attempt,    \* times its claim was sent
  wire,       \* claims sent and not (yet) executed
  ledger,     \* when each token was claimed
  wrappers,   \* wrappers signed
  evidence,   \* pat evidence on scans
  forgot      \* history: tokens whose claim expired

endpoint == <<cache, inflight, pc, host, input, attempt>>
vars == <<now, directory, challenged, minted, wire, ledger, wrappers, evidence,
          forgot, endpoint>>

Times == 0 .. MaxTime
Tokens == [key : Keys, serial : Serials]
Working == {"key", "secret", "claiming"}
Refusals == {"invalid", "wrong_key", "replayed", "ledger_down"}
Outcomes == {"signed", "unavailable", "killed"} \cup Refusals

InputType == [token : Tokens \cup {Forged}, binding : Bindings]
CachedKey == [key : Keys, notBefore : Nat, fetchedAt : Times]
DirectoryType == [Keys -> Nat \cup {None}]
WrapperType == [token : Tokens, binding : Bindings, exp : Nat]

\* None is the absence of a value, never a value, and a forgery is no token.
ASSUME NoneAssumption == None \notin InputType \cup CachedKey \cup Nat
ASSUME ForgedAssumption == Forged \notin Tokens

TypeOK ==
  /\ now \in Times
  /\ directory \in DirectoryType
  /\ cache \in [Containers -> CachedKey \cup {None}]
  /\ \A c \in Containers :
       /\ Len(inflight[c]) <= 1
       /\ \A i \in DOMAIN inflight[c] : inflight[c][i] \in DirectoryType \cup {None}
  /\ challenged \subseteq Keys
  /\ minted \subseteq Tokens
  /\ pc \in [Calls -> {"idle"} \cup Working \cup Outcomes]
  /\ host \in [Calls -> Containers \cup {None}]
  /\ input \in [Calls -> InputType \cup {None}]
  /\ attempt \in [Calls -> 0 .. MaxSends]
  /\ wire \subseteq Calls \X (1 .. MaxSends)
  /\ ledger \in [Tokens -> Times \cup {None}]
  /\ wrappers \subseteq WrapperType
  /\ evidence \subseteq [token : Tokens, binding : Bindings]
  /\ forgot \subseteq Tokens

Init ==
  /\ now = 0
  /\ \E k \in Keys : directory = [x \in Keys |-> IF x = k THEN 0 ELSE None]
  /\ cache = [c \in Containers |-> None]
  /\ inflight = [c \in Containers |-> <<>>]
  /\ challenged = {} /\ minted = {}
  /\ pc = [r \in Calls |-> "idle"]
  /\ host = [r \in Calls |-> None]
  /\ input = [r \in Calls |-> None]
  /\ attempt = [r \in Calls |-> 0]
  /\ wire = {}
  /\ ledger = [t \in Tokens |-> None]
  /\ wrappers = {} /\ evidence = {} /\ forgot = {}

Busy(c) == \E r \in Calls : host[r] = c /\ pc[r] \in Working

-----------------------------------------------------------------------------
(* issuer-directory: the key, cached and refreshed in the background.      *)

Active(d) == {k \in Keys : d[k] # None /\ d[k] <= now}

\* isKeyRecognized: without pins, or without enforcement, every key is.
Recognized(k) == PinnedKeys = {} \/ k \in PinnedKeys \/ ~EnforceKeyPin

\* pickActiveKey: the recognized key of a directory with the latest
\* not-before, and none if that one is not recognized.
PickActiveKey(d) ==
  {k \in Active(d) : (\A x \in Active(d) : d[x] <= d[k]) /\ Recognized(k)}

IsFresh(e) == now - e.fetchedAt < CacheSeconds

\* Variant: Every caller that finds no fresh key fetches.
StartFetchAlways(c) ==
  IF cache[c] # None /\ IsFresh(cache[c]) THEN inflight[c]
  ELSE Append(inflight[c], None)

\* Callers share the fetch under way.
StartFetch(c) ==
  IF (cache[c] # None /\ IsFresh(cache[c])) \/ inflight[c] # <<>> THEN inflight[c]
  ELSE <<None>>

\* verifyPatToken against the key at hand.
VerifyPatToken(t, k) ==
  CASE t = Forged -> "invalid"
    [] t # Forged /\ t.key # k -> "wrong_key"
    [] OTHER -> "secret"

\* Where an invocation with this input goes once it has the key. A challenge
\* is its answer: it is idle again.
AfterKey(q, k) == IF q = None THEN "idle" ELSE VerifyPatToken(q.token, k)

\* getActiveTokenKey: a cached key, fresh or stale, is used at once; without
\* one the fetch is awaited.
Receive(r, c, q) ==
  /\ pc[r] = "idle" /\ ~Busy(c)
  /\ q # None => q.token \in minted \cup {Forged}
  /\ inflight' = [inflight EXCEPT ![c] = StartFetch(c)]
  /\ IF q = None /\ cache[c] # None
       THEN challenged' = challenged \cup {cache[c].key} /\ UNCHANGED <<host, input, pc>>
       ELSE /\ host' = [host EXCEPT ![r] = c]
            /\ input' = [input EXCEPT ![r] = q]
            /\ pc' = [pc EXCEPT ![r] = IF cache[c] = None THEN "key"
                                       ELSE AfterKey(q, cache[c].key)]
            /\ UNCHANGED challenged
  /\ UNCHANGED <<now, directory, cache, minted, attempt, wire, ledger, wrappers,
                 evidence, forgot>>

\* PAT is disabled (503), or a token comes without a binding (401).
RejectCall(r) ==
  /\ pc[r] = "idle"
  /\ \E to \in {"unavailable", "invalid"} : pc' = [pc EXCEPT ![r] = to]
  /\ UNCHANGED <<now, directory, cache, inflight, challenged, minted, host, input,
                 attempt, wire, ledger, wrappers, evidence, forgot>>

\* The issuer answers a fetch with its directory.
AnswerFetch(c, i) ==
  /\ i \in DOMAIN inflight[c] /\ inflight[c][i] = None
  /\ inflight' = [inflight EXCEPT ![c][i] = directory]
  /\ UNCHANGED <<now, directory, cache, challenged, minted, pc, host, input, attempt,
                 wire, ledger, wrappers, evidence, forgot>>

Waiting(r, c) == host[r] = c /\ pc[r] = "key"

Without(s, i) == SubSeq(s, 1, i - 1) \o SubSeq(s, i + 1, Len(s))

\* The answer of a fetch is processed: the key is cached, and who waited for
\* it goes on.
FetchReturns(c, i) ==
  /\ i \in DOMAIN inflight[c] /\ inflight[c][i] # None
  /\ inflight' = [inflight EXCEPT ![c] = Without(@, i)]
  /\ \E k \in PickActiveKey(inflight[c][i]) :
       /\ cache' = [cache EXCEPT ![c] = [key |-> k, fetchedAt |-> now,
                                         notBefore |-> inflight[c][i][k]]]
       /\ pc' = [r \in Calls |-> IF Waiting(r, c) THEN AfterKey(input[r], k) ELSE pc[r]]
       /\ challenged' = IF \E r \in Calls : Waiting(r, c) /\ input[r] = None
                        THEN challenged \cup {k} ELSE challenged
  /\ host' = [r \in Calls |-> IF Waiting(r, c) /\ input[r] = None THEN None ELSE host[r]]
  /\ UNCHANGED <<now, directory, minted, input, attempt, wire, ledger,
                 wrappers, evidence, forgot>>

\* A fetch times out, fails, or brings no key: who waited is answered 503.
FetchFails(c, i) ==
  /\ i \in DOMAIN inflight[c]
  /\ inflight' = [inflight EXCEPT ![c] = Without(@, i)]
  /\ pc' = [r \in Calls |-> IF Waiting(r, c) THEN "unavailable" ELSE pc[r]]
  /\ UNCHANGED <<now, directory, cache, challenged, minted, host, input, attempt,
                 wire, ledger, wrappers, evidence, forgot>>

-----------------------------------------------------------------------------
(* The redemption of a genuine token.                                      *)

\* The HMAC key cannot be read: 503, and the token is still good.
SecretFails(r) ==
  /\ pc[r] = "secret"
  /\ pc' = [pc EXCEPT ![r] = "unavailable"]
  /\ UNCHANGED <<now, directory, cache, inflight, challenged, minted, host, input,
                 attempt, wire, ledger, wrappers, evidence, forgot>>

\* SET NX EX, sent, and resent by the client when its connection is lost.
SendClaim(r) ==
  /\ pc[r] \in {"secret", "claiming"} /\ attempt[r] < MaxSends
  /\ pc' = [pc EXCEPT ![r] = "claiming"]
  /\ attempt' = [attempt EXCEPT ![r] = @ + 1]
  /\ wire' = wire \cup {<<r, attempt[r] + 1>>}
  /\ UNCHANGED <<now, directory, cache, inflight, challenged, minted, host, input,
                 ledger, wrappers, evidence, forgot>>

\* Variant: SET without NX.
ClaimResultAlways(r) == "claimed"

\* Variant: The ledger remembers scans instead of tokens.
ClaimResultByScan(r) ==
  IF \E w \in wrappers : w.binding = input[r].binding THEN "replayed" ELSE "claimed"

\* SET NX of the token's hash.
ClaimResult(r) == IF ledger[input[r].token] = None THEN "claimed" ELSE "replayed"

\* signPatAttestation: no await between the claim's answer and the signature.
Sign(r) ==
  /\ pc' = [pc EXCEPT ![r] = "signed"]
  /\ wrappers' = wrappers \cup
       {[token |-> input[r].token, binding |-> input[r].binding, exp |-> now + WrapperTtl]}

\* Valkey executes attempt k of r's claim; the answer of the attempt r waits
\* for may come, be lost, or come too late.
ExecuteClaim(r, k) ==
  LET t == input[r].token IN
  /\ <<r, k>> \in wire
  /\ wire' = wire \ {<<r, k>>}
  /\ ledger' = IF ClaimResult(r) = "claimed" THEN [ledger EXCEPT ![t] = now] ELSE ledger
  /\ \/ UNCHANGED <<pc, wrappers>>
     \/ /\ pc[r] = "claiming" /\ attempt[r] = k
        /\ IF ClaimResult(r) = "claimed" THEN Sign(r)
           ELSE pc' = [pc EXCEPT ![r] = "replayed"] /\ UNCHANGED wrappers
  /\ UNCHANGED <<now, directory, cache, inflight, challenged, minted, host, input,
                 attempt, evidence, forgot>>

\* No endpoint is configured, or the claim is not answered in time.
ClaimFails(r) ==
  /\ pc[r] \in {"secret", "claiming"}
  /\ pc' = [pc EXCEPT ![r] = "ledger_down"]
  /\ UNCHANGED <<now, directory, cache, inflight, challenged, minted, host, input,
                 attempt, wire, ledger, wrappers, evidence, forgot>>

\* The invocation is killed, and its container starts afresh.
Kill(r) ==
  /\ pc[r] \in Working
  /\ pc' = [pc EXCEPT ![r] = "killed"]
  /\ cache' = [cache EXCEPT ![host[r]] = None]
  /\ inflight' = [inflight EXCEPT ![host[r]] = <<>>]
  /\ UNCHANGED <<now, directory, challenged, minted, host, input, attempt, wire,
                 ledger, wrappers, evidence, forgot>>

-----------------------------------------------------------------------------
(* Ingestion: redeemPatToken.                                              *)

\* Variant: Of the binding nothing is compared.
ValidatePayloadUnbound(w, b) == now <= w.exp

\* verifyPatAttestation of a wrapper on a scan with binding b.
ValidatePayload(w, b) == now <= w.exp /\ w.binding = b

\* A wrapper that does not hold is dropped and the scan goes on without.
Accept(w, b) ==
  /\ w \in wrappers /\ ValidatePayload(w, b)
  /\ evidence' = evidence \cup {[token |-> w.token, binding |-> b]}
  /\ UNCHANGED <<now, directory, challenged, minted, wire, ledger, wrappers, forgot,
                 endpoint>>

-----------------------------------------------------------------------------
(* The issuer, the ledger and the clock.                                   *)

\* A key is published for now or for the next tick.
PublishKey(k, notBefore) ==
  /\ directory[k] = None
  /\ directory' = [directory EXCEPT ![k] = notBefore]
  /\ UNCHANGED <<now, challenged, minted, wire, ledger, wrappers, evidence, forgot,
                 endpoint>>

MintToken(t) ==
  /\ t.key \in challenged /\ t \notin minted
  /\ minted' = minted \cup {t}
  /\ UNCHANGED <<now, directory, challenged, wire, ledger, wrappers, evidence, forgot,
                 endpoint>>

ExpireClaim(t) ==
  /\ ledger[t] # None /\ now - ledger[t] >= LedgerTtl
  /\ ledger' = [ledger EXCEPT ![t] = None]
  /\ forgot' = forgot \cup {t}
  /\ UNCHANGED <<now, directory, challenged, minted, wire, wrappers, evidence, endpoint>>

Tick ==
  /\ now < MaxTime
  /\ now' = now + 1
  /\ UNCHANGED <<directory, challenged, minted, wire, ledger, wrappers, evidence,
                 forgot, endpoint>>

HandlerStep(r) ==
  \/ RejectCall(r) \/ SecretFails(r) \/ SendClaim(r) \/ ClaimFails(r) \/ Kill(r)
  \/ \E c \in Containers, q \in InputType \cup {None} : Receive(r, c, q)
  \/ \E k \in 1 .. MaxSends : ExecuteClaim(r, k)

Next ==
  \/ \E r \in Calls : HandlerStep(r)
  \/ \E c \in Containers : \E i \in DOMAIN inflight[c] :
       AnswerFetch(c, i) \/ FetchReturns(c, i) \/ FetchFails(c, i)
  \/ \E w \in wrappers, b \in Bindings : Accept(w, b)
  \/ \E k \in Keys, nb \in now .. now + 1 : PublishKey(k, nb)
  \/ \E t \in Tokens : MintToken(t) \/ ExpireClaim(t)
  \/ Tick

Spec == Init /\ [][Next]_vars

-----------------------------------------------------------------------------
(* Properties.                                                             *)

\* "Raw token replay is prevented after verification by the Valkey token
\* ledger": while the ledger remembers a token, it vouches for one scan only,
\* whichever containers it is presented to and whatever is resent.
OneScanPerToken ==
  \A e, f \in evidence :
    e.token = f.token /\ e.token \notin forgot => e.binding = f.binding

\* Evidence on a scan is a token that was presented for this very scan,
\* minted by the issuer and verified under a key a container was given.
EvidenceIsOfThisScan ==
  \A e \in evidence :
    /\ e.token \in minted
    /\ \E r \in Calls : pc[r] = "signed" /\ input[r] = e

\* A client only loses a genuine token to a replay, or to the resend of its
\* own claim: who is refused for a replay, and whose claim was sent once, is
\* not the only one that claimed the token.
RefusedOnlyForReplay ==
  \A r \in Calls : pc[r] = "replayed" =>
    \/ attempt[r] > 1
    \/ \E s \in Calls \ {r} : input[s] # None /\ input[s].token = input[r].token
                               /\ attempt[s] > 0

\* While a container lives, its key only moves on to later ones: no answer
\* of the issuer that is overtaken brings a key back.
KeysOnlyAdvance ==
  [][\A c \in Containers : cache[c] # None /\ cache'[c] # None =>
       cache[c].notBefore <= cache'[c].notBefore]_vars
=============================================================================
