---------------------------- MODULE CreditLedger ----------------------------
(***************************************************************************)
(* What session-get promises its merchants about money: a verdict is only  *)
(* ever handed out against a credit of that merchant that was burned       *)
(* before it, a credit is burned only while the balance covers it, and a   *)
(* balance grows only when the platform grants credits.                    *)
(***************************************************************************)
EXTENDS Integers

CONSTANT Merchants

VARIABLES
  balance,    \* [Merchants -> Nat] credits a merchant may still spend
  burned,     \* [Merchants -> Nat] credits burned so far
  verdicts    \* [Merchants -> Nat] verdicts handed out so far

ledgerVars == <<balance, burned, verdicts>>

LedgerInit ==
  /\ balance \in [Merchants -> Nat]
  /\ burned = [m \in Merchants |-> 0]
  /\ verdicts = [m \in Merchants |-> 0]

GrantCredit(m) ==
  /\ balance' = [balance EXCEPT ![m] = @ + 1]
  /\ UNCHANGED <<burned, verdicts>>

\* A credit may be burned with nothing to show for it (the read then failed).
BurnCredit(m) ==
  /\ balance[m] >= 1
  /\ balance' = [balance EXCEPT ![m] = @ - 1]
  /\ burned' = [burned EXCEPT ![m] = @ + 1]
  /\ UNCHANGED verdicts

HandOutVerdict(m) ==
  /\ verdicts[m] < burned[m]
  /\ verdicts' = [verdicts EXCEPT ![m] = @ + 1]
  /\ UNCHANGED <<balance, burned>>

LedgerNext ==
  \E m \in Merchants : GrantCredit(m) \/ BurnCredit(m) \/ HandOutVerdict(m)

LedgerSpec == LedgerInit /\ [][LedgerNext]_ledgerVars
=============================================================================
