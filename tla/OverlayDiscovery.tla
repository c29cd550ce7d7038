--------------------------- MODULE OverlayDiscovery ---------------------------
(***************************************************************************)
(* The overlay of address rules in S3 and its two writers.                 *)
(*                                                                         *)
(* The nightly discoverer (handlers/ip-class-discoverer.ts) reads the      *)
(* overlay, walks the archived addresses that nothing classified, asks the *)
(* registries (RDAP) about each one no rule covers yet, and writes the old *)
(* and the new rules back. The repair script (scripts/repair-auto-         *)
(* overlay.ts) reads it, corrects categories and writes it back. Nothing   *)
(* makes either of them wait for the other, or for another run of its own. *)
(***************************************************************************)
EXTENDS CidrRanges, FiniteSets

CONSTANTS
  DiscoverRuns,     \* runs of the discoverer
  RepairRuns,       \* runs of the repair script
  Archived,         \* addresses of archived scans without a network class
  PrivateAddresses, \* never looked up
  Networks,         \* the registries: [name, customer, cidrs]
  CategoryOf,       \* what the patterns make of a name, or Unlisted
  FamilyOf          \* simplifyRdapName, or Unlisted for what is not searched

ASSUME NetworksAssumption ==
  /\ IsFiniteSet(Networks)
  /\ \A n \in Networks : IsFiniteSet(n.cidrs) /\ n.cidrs \subseteq Addresses \X Int

ASSUME ArchivedAssumption == Archived \subseteq Addresses

Runs == DiscoverRuns \cup RepairRuns

VARIABLES
  published,   \* every overlay written, the last one is in S3
  run          \* where each run is, and what it has read and found

overlayVars == <<published, run>>

Version == Len(published)
Overlay(v) == IF v = 0 THEN <<>> ELSE published[v]

\* base: the version of the overlay a run read, or Unlisted if it could not.
Idle == [pc |-> "idle", base |-> Unlisted, existing |-> <<>>, found |-> <<>>,
         left |-> {}, searched |-> {}]

OverlayInit ==
  /\ published = <<>>
  /\ run = [r \in Runs |-> Idle]

-----------------------------------------------------------------------------
(* Categories and rules.                                                   *)

\* The first name with a category decides.
Categorize(names) ==
  LET known == SelectSeq(names, LAMBDA n : n # Unlisted /\ CategoryOf[n] # Unlisted)
  IN IF known = <<>> THEN Unlisted ELSE CategoryOf[known[1]]

\* One rule for each block of a network.
RulesOf(network, category) ==
  {[cidr |-> c, category |-> category, name |-> network.name] : c \in network.cidrs}

RuleType ==
  [cidr : UNION {n.cidrs : n \in Networks}, name : {n.name : n \in Networks},
   category : {CategoryOf[n.name] : n \in Networks}
                \cup {Categorize(<<n.name>>) : n \in Networks}
                \cup {Categorize(<<n.customer, n.name>>) : n \in Networks}]

ASSUME UnlistedAssumption == Unlisted \notin Nat /\ Unlisted \notin RuleType

\* What a registry says of an address: its most specific network.
NetworksOf(ip) ==
  LET blocks == {c \in UNION {n.cidrs : n \in Networks} : Holds(CidrToRange(c), ip)}
  IN {n \in Networks : \E c \in n.cidrs \cap blocks : \A b \in blocks : c[2] >= b[2]}

\* A tenant's name comes before the name of the block.
CategorizeRdapInfo(info) == Categorize(<<info.customer, info.name>>)

\* A network nobody can categorize makes no rule.
BuildDirectRules(info) ==
  LET category == CategorizeRdapInfo(info)
  IN IF category = Unlisted THEN <<>> ELSE SetToSeq(RulesOf(info, category))

\* Networks of the same family: their own category, or else the one of the
\* address that led to them.
BuildReverseSearchRules(info, networks) ==
  LET category(n) == IF Categorize(<<n.name>>) # Unlisted
                       THEN Categorize(<<n.name>>) ELSE CategorizeRdapInfo(info)
  IN SetToSeq(UNION {RulesOf(n, category(n)) :
                       n \in {m \in networks : category(m) # Unlisted}})

IsPublicIpv4(a) == a \notin PrivateAddresses

\* The discoverer's own bisection: no second look after a miss.
IpCovered(ranges, a) == IsPublicIpv4(a) => Bisect(ranges, a)[1] > 0

IsFullyCovered(ranges, cidr) ==
  LET range == CidrToRange(cidr)
  IN range = Unlisted \/ (IpCovered(ranges, range[1]) /\ IpCovered(ranges, range[2]))

DiscoverFromRdap(ranges, info, networks) ==
  LET candidate == BuildDirectRules(info) \o BuildReverseSearchRules(info, networks)
  IN Those(candidate, {i \in DOMAIN candidate : ~IsFullyCovered(ranges, candidate[i].cidr)})

\* The first of each block, category and name.
Dedupe(rules) ==
  Those(rules, {i \in DOMAIN rules : \A j \in 1 .. i - 1 : rules[j] # rules[i]})

\* Variant: Only what this run found.
MergedNew(d) == Dedupe(d.found)

\* The old rules come first.
Merged(d) == Dedupe(d.existing \o d.found)

\* The repair touches only what the name alone puts in another category.
Reclassified(rules) ==
  [i \in DOMAIN rules |->
     IF CategoryOf[rules[i].name] = Unlisted THEN rules[i]
     ELSE [rules[i] EXCEPT !.category = CategoryOf[rules[i].name]]]

-----------------------------------------------------------------------------
(* A run of the discoverer.                                                *)

\* What may come of reading the archive: batches and lines that cannot be
\* read are skipped.
ArchiveReadings == SUBSET {ip \in Archived : IsPublicIpv4(ip)}

\* An overlay that cannot be read, for any reason, is taken for one that is
\* not there.
StartDiscovery(r) ==
  /\ run[r].pc = "idle"
  /\ \E ips \in ArchiveReadings, base \in {Version, Unlisted} :
       run' = [run EXCEPT ![r] =
         [@ EXCEPT !.pc = "walking", !.base = base, !.left = ips,
                   !.existing = Overlay(IF base = Unlisted THEN 0 ELSE base)]]
  /\ UNCHANGED published

\* The rules and families after a look at ip: nothing new if it is covered,
\* or the registry does not answer. Each of the registries asked for the rest
\* of the family answers or fails on its own: what they find is any part of it.
Looked(d, ip) ==
  LET ranges == Compile(d.existing \o d.found)
      same(n) == {m \in Networks : FamilyOf[m.name] = FamilyOf[n.name]}
      searches(n) == FamilyOf[n.name] # Unlisted /\ FamilyOf[n.name] \notin d.searched
  IN IF IpCovered(ranges, ip) THEN {<<d.found, d.searched>>}
     ELSE {<<d.found, d.searched>>}
          \cup UNION {{<<d.found \o DiscoverFromRdap(ranges, n, answered),
                         d.searched \cup ({FamilyOf[n.name]} \ {Unlisted})>> :
                        answered \in IF searches(n) THEN SUBSET same(n) ELSE {{}}} :
                      n \in NetworksOf(ip)}

WalkIp(r, ip) ==
  /\ run[r].pc = "walking" /\ ip \in run[r].left
  /\ \E after \in Looked(run[r], ip) :
       run' = [run EXCEPT ![r] = [@ EXCEPT !.left = run[r].left \ {ip},
                                           !.found = after[1], !.searched = after[2]]]
  /\ UNCHANGED published

Done(r, pc) == run' = [run EXCEPT ![r] = [Idle EXCEPT !.pc = pc]]

WriteOverlay(r) ==
  /\ run[r].pc = "walking" /\ run[r].left = {}
  /\ \/ /\ published' = Append(published, Merged(run[r]))
        /\ Done(r, "written")
     \/ /\ Done(r, "failed")
        /\ UNCHANGED published

-----------------------------------------------------------------------------
(* A run of the repair script, which stops if it cannot read.              *)

StartRepair(r) ==
  /\ run[r].pc = "idle" /\ Version > 0
  /\ run' = [run EXCEPT ![r] = [@ EXCEPT !.pc = "repairing", !.base = Version,
                                         !.existing = Overlay(Version)]]
  /\ UNCHANGED published

WriteRepaired(r) ==
  /\ run[r].pc = "repairing"
  /\ published' = Append(published, Reclassified(run[r].existing))
  /\ Done(r, "written")

OverlayNext ==
  \/ \E r \in DiscoverRuns :
       \/ StartDiscovery(r) \/ WriteOverlay(r)
       \/ \E ip \in Archived : WalkIp(r, ip)
  \/ \E r \in RepairRuns : StartRepair(r) \/ WriteRepaired(r)

-----------------------------------------------------------------------------
(* Properties.                                                             *)

\* Only a writer that did not see the overlay it replaces, because it could
\* not read it or because another one wrote meanwhile, can lose a rule.
RulesLostOnlyUnseen ==
  [][\A r \in Runs :
       (Version' > Version /\ run'[r].pc = "written" /\ run[r].pc # "written"
        /\ run[r].base = Version) =>
         \A old \in Range(Overlay(Version)) : \E new \in Range(published'[Version']) :
           new.cidr = old.cidr /\ new.name = old.name]_overlayVars

\* What the lookup of an overlay finds is a rule for that address, and where
\* no block overlaps another it finds none only where there is none.
LookupIsExact ==
  \A a \in Archived :
    LET ranges == Compile(Overlay(Version))
        hit == LookupInRanges(ranges, a)
    IN /\ hit # Unlisted => hit \in Covering(Overlay(Version), a)
       /\ hit = Unlisted /\ Disjoint(ranges) => Covering(Overlay(Version), a) = {}

\* lookupInRanges: "Returns null if no range covers it" - and a hit if one
\* does. Not so: the bisection misses an address of a block that also holds
\* a smaller block, when a range further right is looked at.
CoveredIsFound ==
  \A v \in 1 .. Version : \A a \in Archived :
    Covering(published[v], a) # {} =>
      LookupInRanges(Compile(published[v]), a) # Unlisted
=============================================================================
