------------------------------ MODULE LedgerSums ------------------------------
(***************************************************************************)
(* Sums over the rows of the client trust ledger.                          *)
(*                                                                         *)
(* The table ClientTrustLedger is kept as one signed sum per key: a        *)
(* "holder" stands for a (clientId, matterId) pair of a tenant, and a      *)
(* column of the ledger is a function from holders to integers (cents).    *)
(* Total is the aggregate SUM(credit) - SUM(debit) over all the rows of a  *)
(* trust account.  It is a recursive function, not a RECURSIVE operator,   *)
(* so that its defining equations can be proved (LedgerSumsTheorems).      *)
(***************************************************************************)
EXTENDS Integers

CONSTANT NumHolders      \* how many (client, matter) pairs have a ledger

ASSUME NumHoldersAssumption == NumHolders \in Nat \ {0}

Holders == 1..NumHolders

(* The sum of the first n ledgers, for every n. *)
RunningTotal(f) ==
  LET s[n \in 0..NumHolders] == IF n = 0 THEN 0 ELSE s[n-1] + f[n] IN s

Total(f) == RunningTotal(f)[NumHolders]
===============================================================================
