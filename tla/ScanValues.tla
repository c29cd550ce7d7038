----------------------------- MODULE ScanValues -----------------------------
(***************************************************************************)
(* What the analyses of a scan share: absent values and how they are       *)
(* compared.                                                               *)
(***************************************************************************)
EXTENDS Integers, FiniteSets, Sequences, SequencesExt, FiniteSetsExt

CONSTANT None  \* a value that was not sent, is not known or does not apply

\* A lookup in a table.
Known(table, k) == IF k \in DOMAIN table THEN table[k] ELSE None

FirstOf(s) == LET known == {i \in DOMAIN s : s[i] # None}
              IN IF known = {} THEN None ELSE s[Min(known)]

\* The value of the first condition that holds, in a list of pairs.
OneOf(pairs) ==
  LET hits == {i \in DOMAIN pairs : pairs[i][1]}
  IN IF hits = {} THEN None ELSE pairs[Min(hits)][2]

\* The values of a sequence that are known, in its order.
Defined(s) == SelectSeq(s, LAMBDA v : v # None)

SumOn(f, S) == FoldSet(LAMBDA x, sum : sum + f[x], 0, S)

\* Two values that are both known and not the same.
Differ(a, b) == a # None /\ b # None /\ a # b
=============================================================================
