------------------------------ MODULE AsnDataset ------------------------------
(***************************************************************************)
(* The weekly build of the ASN dataset (handlers/ip-class-builder.ts): the *)
(* category and the name of each ASN from the IPtoASN table, hand-written  *)
(* overrides, and what PeeringDB says of it. A build without PeeringDB     *)
(* keeps what the file in S3 has. A deploy starts a build too.             *)
(***************************************************************************)
EXTENDS Integers, Sequences, FiniteSets, Functions

CONSTANTS
  Builds,        \* runs of the builder
  AsnTables,     \* tables IPtoASN may serve: sequences of <<asn, organization>>
  PdbAnswers,    \* what PeeringDB may answer: info_type per ASN, as functions
  Overrides,     \* ASN_OVERRIDES
  OrgCategory,   \* what the patterns make of an organization, or Absent
  OrgLength,     \* characters of an organization's name
  Absent         \* no file, no category

VARIABLES
  asnFile,    \* asn-categories.json.gz in S3, or Absent
  writes,     \* history: how often it was written
  build       \* where each build is, and what it has

asnVars == <<asnFile, writes, build>>

NoBuild == [pc |-> "idle", asns |-> <<>>, orgs |-> <<>>, pdb |-> <<>>,
            mismatches |-> 0, base |-> Absent]

AsnInit ==
  /\ asnFile = Absent /\ writes = 0
  /\ build = [b \in Builds |-> NoBuild]

-----------------------------------------------------------------------------
(* The tables.                                                             *)

\* Per ASN the longest of its names, the first of equally long ones; ASN 0
\* is "not routed".
ParseAsnTable(rows) ==
  LET asns == {rows[i][1] : i \in DOMAIN rows} \ {0}
      best(i) == \A j \in DOMAIN rows : rows[j][1] = rows[i][1] =>
                   \/ OrgLength[rows[j][2]] < OrgLength[rows[i][2]]
                   \/ OrgLength[rows[j][2]] = OrgLength[rows[i][2]] /\ j >= i
  IN [a \in asns |-> rows[CHOOSE i \in DOMAIN rows : rows[i][1] = a /\ best(i)][2]]

\* The patterns, then the overrides, which win.
BuildClassificationDict(table) ==
  LET known == {a \in DOMAIN table : OrgCategory[table[a]] # Absent}
  IN [a \in known \cup DOMAIN Overrides |->
        IF a \in DOMAIN Overrides THEN Overrides[a] ELSE OrgCategory[table[a]]]

\* Every ASN with a name, whether it has a category or not.
BuildOrgsDict(table) == Restrict(table, {a \in DOMAIN table : OrgLength[table[a]] > 0})

\* What the type an operator declared should be, or Absent where it says
\* nothing of the category.
ExpectedPdbFamily(category) ==
  CASE category \in {"datacenter", "hosting_proxy", "vpn_proxy"} ->
         {"NSP", "Content", "Network Services"}
    [] category = "residential" -> {"Cable/DSL/ISP", "NSP"}
    [] category = "cdn" -> {"Content", "NSP"}
    [] category = "education" -> {"Educational"}
    [] category = "government" -> {"Government"}
    [] category = "business" -> {"Enterprise", "NSP", "Cable/DSL/ISP"}
    [] OTHER -> Absent

\* ASNs whose operator declared something else; "" is nothing declared.
CountMismatches(asns, pdb) ==
  Cardinality({a \in DOMAIN asns \cap DOMAIN pdb :
                 /\ pdb[a] # "" /\ ExpectedPdbFamily(asns[a]) # Absent
                 /\ pdb[a] \notin ExpectedPdbFamily(asns[a])})

\* What a file holds, or a build has of it so far.
AsnDicts == {BuildClassificationDict(ParseAsnTable(rows)) : rows \in AsnTables} \cup {<<>>}
OrgDicts == {BuildOrgsDict(ParseAsnTable(rows)) : rows \in AsnTables} \cup {<<>>}
PdbDicts == PdbAnswers \cup {<<>>}
Mismatches == {CountMismatches(asns, pdb) : asns \in AsnDicts, pdb \in PdbDicts} \cup {0}
FileType == [asns : AsnDicts, orgs : OrgDicts, pdb : PdbDicts, mismatches : Mismatches]

ASSUME AbsentAssumption == Absent \notin FileType \cup Nat

-----------------------------------------------------------------------------
(* A build.                                                                *)

\* Both sources are asked at once. Without the table there is no build;
\* PeeringDB in any trouble is an empty answer.
FetchSources(b) ==
  /\ build[b].pc = "idle"
  /\ \/ \E rows \in AsnTables, pdb \in PdbAnswers \cup {<<>>} :
          build' = [build EXCEPT ![b] =
            [@ EXCEPT !.pc = "fetched", !.pdb = pdb,
                      !.asns = BuildClassificationDict(ParseAsnTable(rows)),
                      !.orgs = BuildOrgsDict(ParseAsnTable(rows)),
                      !.mismatches = CountMismatches(
                        BuildClassificationDict(ParseAsnTable(rows)), pdb)]]
     \/ build' = [build EXCEPT ![b] = [NoBuild EXCEPT !.pc = "failed"]]
  /\ UNCHANGED <<asnFile, writes>>

\* Variant: Nothing is carried over.
CarriedNothing(b) == build[b].pdb

\* The PeeringDB data to write, when the file could be read.
Carried(b) ==
  IF build[b].pdb = <<>> /\ asnFile # Absent THEN asnFile.pdb ELSE build[b].pdb

\* With an empty answer the old file is read; a file that cannot be read is
\* as good as none.
CarryForward(b) ==
  /\ build[b].pc = "fetched"
  /\ \/ build' = [build EXCEPT ![b] =
                    [@ EXCEPT !.pc = "built", !.pdb = Carried(b), !.base = writes]]
     \/ /\ build[b].pdb = <<>>
        /\ build' = [build EXCEPT ![b] = [@ EXCEPT !.pc = "built"]]
  /\ UNCHANGED <<asnFile, writes>>

Upload(b) ==
  /\ build[b].pc = "built"
  /\ \/ /\ asnFile' = [asns |-> build[b].asns, orgs |-> build[b].orgs, pdb |-> build[b].pdb,
                      mismatches |-> build[b].mismatches]
        /\ writes' = writes + 1
        /\ build' = [build EXCEPT ![b] = [NoBuild EXCEPT !.pc = "uploaded"]]
     \/ /\ build' = [build EXCEPT ![b] = [NoBuild EXCEPT !.pc = "failed"]]
        /\ UNCHANGED <<asnFile, writes>>

AsnNext == \E b \in Builds : FetchSources(b) \/ CarryForward(b) \/ Upload(b)

-----------------------------------------------------------------------------
\* PeeringDB being down never empties what the file has of it: that takes a
\* build that could not read the file either, or that another build overtook.
PdbOutlivesOutage ==
  [][\A b \in Builds :
       (writes' > writes /\ build[b].pc = "built" /\ build'[b].pc = "uploaded"
        /\ build[b].base = writes /\ writes > 0 /\ asnFile.pdb # <<>>)
         => asnFile'.pdb # <<>>]_asnVars
=============================================================================
