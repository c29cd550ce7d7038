---------------------------- MODULE StunRedemption ----------------------------
(***************************************************************************)
(* STUN candidates: which candidate of a submission decodes, and the       *)
(* tracker that lets each be redeemed by one session.                      *)
(*                                                                         *)
(* A STUN server encrypts the address it saw and its own clock's seconds   *)
(* into a candidate; the SDK submits the candidates it collected, and one  *)
(* ingestion container decodes them, takes the first that is authentic and *)
(* fresh, and claims it in an in-memory LRU cache with a TTL. The code     *)
(* from the decoding to the claim never awaits: a submission is one step.  *)
(* Ingestion has the claim as a part of the handler and forgets claims at  *)
(* any time; here is when a container really does.                         *)
(***************************************************************************)
EXTENDS Integers, SequencesExt

CONSTANTS
  SessionIds,      \* session ids of submissions
  Candidates,      \* candidates the STUN server issues
  Forged,          \* an address that parses but carries no valid MAC
  Garbage,         \* a candidate without a parseable address
  None,            \* no candidate, or one that was not issued
  TicksPerSecond,  \* resolution of the clocks
  Window,          \* FRESH_WINDOW_SECONDS
  Ttl,             \* STUN_NONCE_TTL_MS, in ticks
  MaxEntries,      \* STUN_NONCE_MAX_ENTRIES
  MaxSkew,         \* bound: ticks the STUN server's clock is off, either way
  MaxTime,         \* bound: the last tick
  MaxListed,       \* bound: candidates of one submission
  MaxClaims        \* bound: submissions that present a redeemable candidate

ASSUME ClockAssumption ==
  /\ TicksPerSecond \in Nat \ {0} /\ Window \in Nat /\ Ttl \in Nat
  /\ MaxTime \in Nat /\ MaxSkew \in 0 .. MaxTime
ASSUME SizeAssumption ==
  MaxEntries \in Nat \ {0} /\ MaxListed \in Nat /\ MaxClaims \in Nat
ASSUME CandidatesAssumption ==
  /\ Candidates \cap {Forged, Garbage, None} = {}
  /\ Forged # Garbage /\ None \notin {Forged, Garbage} \cup Nat \cup SessionIds

VARIABLES
  now,      \* the container's clock
  skew,     \* how far the STUN server's clock is ahead of it
  key,      \* SIGINT_AES_KEY: 32 bytes of hex, or something else
  epoch,    \* the seconds in a candidate, None before it is issued
  tracker,  \* the LRU cache: the entries of the candidates it remembers
  claims    \* the claims made, in order; a claim's place tells when it used its entry

vars == <<now, skew, key, epoch, tracker, claims>>

EntryType == [session : SessionIds, at : 0 .. MaxTime, used : 1 .. MaxClaims]
ClaimType ==
  [cand : Candidates, session : SessionIds, at : 0 .. MaxTime,
   outcome : {"first", "again", "refused"}]

TypeOK ==
  /\ now \in MaxSkew .. MaxTime
  /\ skew \in -MaxSkew .. MaxSkew
  /\ key \in {"configured", "malformed"}
  /\ epoch \in [Candidates -> Nat \cup {None}]
  /\ IsFiniteSet(DOMAIN tracker) /\ Cardinality(DOMAIN tracker) <= MaxEntries
  /\ DOMAIN tracker \subseteq Candidates /\ tracker \in [DOMAIN tracker -> EntryType]
  /\ claims \in Seq(ClaimType) /\ Len(claims) <= MaxClaims

\* Clocks start at MaxSkew, so that none of them shows a negative time. A
\* missing key never gets here: requireSigintEnv refuses the submission.
Init ==
  /\ now = MaxSkew
  /\ skew \in -MaxSkew .. MaxSkew
  /\ key \in {"configured", "malformed"}
  /\ epoch = [c \in Candidates |-> None]
  /\ tracker = [c \in {} |-> None]
  /\ claims = <<>>

-----------------------------------------------------------------------------
(* sigint-v6-decode.                                                       *)

AgeSec(c) == now \div TicksPerSecond - epoch[c]

\* A clock of the STUN server that is ahead makes ages negative.
Fresh(c) == epoch[c] # None /\ AgeSec(c) \in -Window .. Window

\* tryDecodeOne. A key of the wrong size derives no keys: nothing parses.
TryDecode(x) ==
  CASE key = "malformed" \/ x = Garbage -> "parse_fail"
    [] key # "malformed" /\ x \in Candidates /\ Fresh(x) -> "decoded"
    [] OTHER -> "mac_fail"

Yields(listed, result) == \E i \in DOMAIN listed : TryDecode(listed[i]) = result

\* Variant: Only the first candidate is looked at.
FirstDecodedHead(listed) ==
  IF listed # <<>> /\ TryDecode(listed[1]) = "decoded" THEN listed[1] ELSE None

\* The candidate a submission is credited with.
FirstDecoded(listed) ==
  LET decoded == {i \in DOMAIN listed : TryDecode(listed[i]) = "decoded"}
  IN IF decoded = {} THEN None ELSE listed[Min(decoded)]

\* decodeWebrtcSigintCandidates: why, or why not.
DecodeReason(listed) ==
  CASE listed = <<>> -> "no_candidates"
    [] FirstDecoded(listed) # None -> "ok"
    [] FirstDecoded(listed) = None /\ Yields(listed, "mac_fail") -> "forgery"
    [] listed # <<>> /\ \A i \in DOMAIN listed : TryDecode(listed[i]) = "parse_fail" ->
         "parse_fail"
    [] OTHER -> "decode_fail"

-----------------------------------------------------------------------------
(* stun-nonce-tracker.                                                     *)

\* Variant: An entry is stale one tick early.
IsStaleEarly(e) == now - e.at >= Ttl

IsStale(e) == now - e.at > Ttl

\* tracker.get finds an entry of c.
Existing(c) == c \in DOMAIN tracker /\ ~IsStale(tracker[c])

\* A read entry becomes the most recently used one; its age stays.
Touched(c) == [tracker EXCEPT ![c].used = Len(claims) + 1]

LeastRecentlyUsed ==
  CHOOSE c \in DOMAIN tracker : \A d \in DOMAIN tracker : tracker[c].used <= tracker[d].used

\* Variant: One entry too many.
KeptLate(c) ==
  IF c \notin DOMAIN tracker /\ Cardinality(DOMAIN tracker) > MaxEntries
    THEN DOMAIN tracker \ {LeastRecentlyUsed} ELSE DOMAIN tracker

\* What is still remembered once c is: a new entry may evict another.
Kept(c) ==
  IF c \notin DOMAIN tracker /\ Cardinality(DOMAIN tracker) = MaxEntries
    THEN DOMAIN tracker \ {LeastRecentlyUsed} ELSE DOMAIN tracker

\* tracker.set; an entry that was stale is replaced.
Inserted(c, s) ==
  [d \in Kept(c) \cup {c} |->
     IF d = c THEN [session |-> s, at |-> now, used |-> Len(claims) + 1] ELSE tracker[d]]

\* Variant: A candidate is redeemed once, by whomever.
ClaimOutcomeOnce(c, s) == IF Existing(c) THEN "refused" ELSE "first"

\* claimStunNonce: whose candidate c is when session s presents it.
ClaimOutcome(c, s) ==
  CASE ~Existing(c) -> "first"
    [] Existing(c) /\ tracker[c].session = s -> "again"
    [] Existing(c) /\ tracker[c].session # s -> "refused"

\* enforceStunCandidateSingleUse, for a submission that decoded to c.
Claim(s, c) ==
  /\ Len(claims) < MaxClaims
  /\ tracker' = IF ClaimOutcome(c, s) = "first" THEN Inserted(c, s) ELSE Touched(c)
  /\ claims' = Append(claims, [cand |-> c, session |-> s, at |-> now,
                               outcome |-> ClaimOutcome(c, s)])

\* The client only has candidates that were issued, or makes them up.
Possessed == {c \in Candidates : epoch[c] # None} \cup {Forged, Garbage}

\* What a submission may list.
Submissions == BoundedSeq(Possessed, MaxListed)

\* Session s submits candidates; without one that decodes nothing is claimed.
Submit(s, listed) ==
  /\ IF DecodeReason(listed) = "ok"
       THEN Claim(s, FirstDecoded(listed))
       ELSE UNCHANGED <<tracker, claims>>
  /\ UNCHANGED <<now, skew, key, epoch>>

\* A timer of the cache removes a stale entry.
Purge(c) ==
  /\ c \in DOMAIN tracker /\ IsStale(tracker[c])
  /\ tracker' = Restrict(tracker, DOMAIN tracker \ {c})
  /\ UNCHANGED <<now, skew, key, epoch, claims>>

\* The STUN server issues a candidate, stamped with its clock.
Issue(c) ==
  /\ epoch[c] = None
  /\ epoch' = [epoch EXCEPT ![c] = (now + skew) \div TicksPerSecond]
  /\ UNCHANGED <<now, skew, key, tracker, claims>>

Tick ==
  /\ now < MaxTime
  /\ now' = now + 1
  /\ UNCHANGED <<skew, key, epoch, tracker, claims>>

Next ==
  \/ \E s \in SessionIds, listed \in Submissions : Submit(s, listed)
  \/ \E c \in Candidates : Purge(c) \/ Issue(c)
  \/ Tick

Spec == Init /\ [][Next]_vars

-----------------------------------------------------------------------------
(* Properties.                                                             *)

First(i) == claims[i].outcome = "first"
Accepted(i) == claims[i].outcome # "refused"
SameCandidate(i, j) == claims[i].cand = claims[j].cand
OtherSession(i, j) == claims[i].session # claims[j].session

\* Candidates claimed after claim j was preceded by the last claim of its own.
UsedSince(j) ==
  {claims[x].cand : x \in {y \in 1 .. j - 1 : \A z \in y .. j - 1 : ~SameCandidate(z, j)}}

\* A container lets a second session redeem a candidate only when the first
\* claim is older than the TTL, or when MaxEntries other candidates were
\* presented since this one was last used, by anyone; and it accepts a retry
\* only from the session that was the last to redeem the candidate.
ReplayOnlyAfterForgetting ==
  \A j \in DOMAIN claims : \A i \in 1 .. j - 1 :
    First(i) /\ SameCandidate(i, j) /\ OtherSession(i, j) =>
      /\ First(j) => \/ claims[j].at - claims[i].at > Ttl
                   \/ Cardinality(UsedSince(j)) >= MaxEntries
      /\ claims[j].outcome = "again" =>
           \E k \in i + 1 .. j - 1 :
             First(k) /\ SameCandidate(k, j) /\ ~OtherSession(k, j)

\* A 409 is only given for a real replay: another session redeemed the
\* candidate within the TTL, and a session that redeemed it itself (a retry)
\* is only refused when another one redeemed it in between.
RefusedOnlyForReplay ==
  \A j \in DOMAIN claims : claims[j].outcome = "refused" =>
    /\ \E i \in 1 .. j - 1 :
         /\ First(i) /\ SameCandidate(i, j) /\ OtherSession(i, j)
         /\ claims[j].at - claims[i].at <= Ttl
    /\ \A i \in 1 .. j - 1 :
         Accepted(i) /\ SameCandidate(i, j) /\ ~OtherSession(i, j) =>
           \E k \in i + 1 .. j - 1 :
             Accepted(k) /\ SameCandidate(k, j) /\ OtherSession(k, j)

\* "Any one verifying is proof": with one fresh candidate in it, a submission
\* is never called a forgery, whatever else it lists and in which order.
OneValidIsEnough ==
  key = "configured" =>
    \A listed \in Submissions :
      (\E c \in Candidates \cap ToSet(listed) : Fresh(c)) => DecodeReason(listed) = "ok"

\* "Parsed but all stale (MAC-valid but fresh=false) - treat as decode_fail":
\* a submission is only called a forgery for a candidate that was forged.
ForgeryIsForged ==
  \A listed \in Submissions :
    DecodeReason(listed) = "forgery" => Forged \in ToSet(listed)

\* Of the candidates a container remembers each has one holder, who loses it
\* only to an expiry or an eviction; whoever is refused one met its holder.
Holders == INSTANCE CandidateClaims WITH
  Names <- Candidates, Claimants <- SessionIds, Nobody <- None,
  holder <- [c \in Candidates |-> IF Existing(c) THEN tracker[c].session ELSE None],
  refused <- {<<claims[i].cand, claims[i].session>> :
                i \in {j \in DOMAIN claims : claims[j].outcome = "refused"}}
ClaimsPromise == Holders!ClaimsSpec
=============================================================================
