------------------------------- MODULE TrustBook -------------------------------
(***************************************************************************)
(* What the trust module promises: a book of client ledgers under control  *)
(* balances, changed by one whole movement at a time.  A movement changes  *)
(* one holder's ledger and the control balance of the account by the same  *)
(* amount, never leaves a ledger negative, and moves nothing else.         *)
(***************************************************************************)
EXTENDS LedgerSums

CONSTANTS
  Accounts,
  Opening,    \* what every ledger holds at the start
  Changes     \* the signed amounts a movement may have

VARIABLES currentBalance, ledger

vars == <<currentBalance, ledger>>

Init ==
  /\ ledger = Opening
  /\ currentBalance = [a \in Accounts |-> Total(Opening[a])]

Move(a, h, d) ==
  /\ ledger[a][h] + d >= 0
  /\ ledger' = [ledger EXCEPT ![a][h] = @ + d]
  /\ currentBalance' = [currentBalance EXCEPT ![a] = @ + d]

Next == \E a \in Accounts, h \in Holders , d \in Changes : Move(a, h, d)

Spec == Init /\ [][Next]_vars
===============================================================================
