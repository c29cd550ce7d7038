----------------------------- MODULE CidrRanges -----------------------------
(***************************************************************************)
(* Address ranges and their lookup (services/network/cidr-tree.ts): rules  *)
(* for CIDR blocks, compiled to a list of ranges sorted by first address   *)
(* and searched by bisection.                                              *)
(***************************************************************************)
EXTENDS Integers, Sequences, SequencesExt, FiniteSets

CONSTANTS
  Width,      \* bits of an address (32 in the code)
  Unlisted    \* no range, no rule

\* The second part is arithmetic, of which the provers have no laws for ^.
ASSUME WidthAssumption == Width \in Nat /\ \A n \in 0 .. Width : 2 ^ n \in Nat \ {0}

Addresses == 0 .. 2 ^ Width - 1

\* First and last address of a block, which is written <<address, prefix
\* length>>; the host bits of the address are
\* dropped. Unlisted, if the prefix length is out of range.
CidrToRange(cidr) ==
  LET size == 2 ^ (Width - cidr[2])
      start == (cidr[1] \div size) * size
  IN IF cidr[2] \in 0 .. Width THEN <<start, start + size - 1>> ELSE Unlisted

Holds(range, a) == range[1] <= a /\ a <= range[2]

\* A finite set of numbers in the order of their keys, equal ones in their own
\* (SetToSortSeq, in a form that can be reasoned about).
Before(key, i, j) == key[i] < key[j] \/ (key[i] = key[j] /\ i < j)
Place(S, key, i) == Cardinality({j \in S : Before(key, j, i)}) + 1
InOrder(S, key) ==
  [k \in 1 .. Cardinality(S) |-> CHOOSE i \in S : Place(S, key, i) = k]

\* The elements of s at these positions.
Those(s, positions) ==
  LET order == InOrder(positions, [i \in positions |-> i])
  IN [k \in DOMAIN order |-> s[order[k]]]

\* The well-formed rules, by first address; equal ones as they came.
Compile(rules) ==
  LET valid == {i \in DOMAIN rules : CidrToRange(rules[i].cidr) # Unlisted}
      order == InOrder(valid, [i \in valid |-> CidrToRange(rules[i].cidr)[1]])
  IN [k \in DOMAIN order |->
        [range |-> CidrToRange(rules[order[k]].cidr), rule |-> rules[order[k]]]]

\* Bisection between lo and hi: <<index, lo>> with the index of a range that
\* holds a, or 0 and where the search ended.
Bisect(ranges, a) ==
  LET n == Len(ranges)
      from[p \in (1 .. n + 1) \X (0 .. n)] ==
        LET lo == p[1]
            hi == p[2]
            mid == (lo + hi) \div 2
        IN IF lo > hi THEN <<0, lo>>
           ELSE IF ranges[mid].range[1] > a THEN from[<<lo, mid - 1>>]
           ELSE IF ranges[mid].range[2] < a THEN from[<<mid + 1, hi>>]
           ELSE <<mid, lo>>
  IN from[<<1, n>>]

\* Variant: The predecessor taken for a hit without a look at its end.
LookupPredecessor(ranges, a) ==
  LET found == Bisect(ranges, a)
  IN IF found[1] > 0 THEN ranges[found[1]].rule
     ELSE IF found[2] > 1 THEN ranges[found[2] - 1].rule ELSE Unlisted

\* The rule found for a, if any: after a miss the predecessor of where the
\* search ended is looked at once more.
LookupInRanges(ranges, a) ==
  LET found == Bisect(ranges, a)
      previous == found[2] - 1
  IN IF found[1] > 0 THEN ranges[found[1]].rule
     ELSE IF previous > 0 /\ Holds(ranges[previous].range, a)
            THEN ranges[previous].rule
     ELSE Unlisted

-----------------------------------------------------------------------------
\* Reference: what the rules say, whatever the order and overlaps.
Covering(rules, a) ==
  {r \in Range(rules) : /\ CidrToRange(r.cidr) # Unlisted
                        /\ Holds(CidrToRange(r.cidr), a)}

\* No address is of two ranges.
Disjoint(ranges) ==
  \A i, j \in DOMAIN ranges : i < j =>
    ranges[i].range[2] < ranges[j].range[1] \/ ranges[j].range[2] < ranges[i].range[1]
=============================================================================
