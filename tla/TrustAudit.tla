------------------------------ MODULE TrustAudit ------------------------------
(***************************************************************************)
(* What an auditor of the books checks across tables: the bank of a trust  *)
(* account against its transactions, the general ledger, the invoices and  *)
(* notes the transfers settle, the archive flag and the closed periods.    *)
(* Which of these hold depends on the kinds of request in play; README.md  *)
(* says which run checks which.                                            *)
(***************************************************************************)
EXTENDS TrustLedger, FiniteSets, Functions

(* The tables the auditor adds up have finitely many rows. *)
ASSUME FiniteAssumption ==
  IsFiniteSet(Accounts) /\ IsFiniteSet(Periods) /\ IsFiniteSet(Requests)

MovedSinceOpening == [a \in Accounts |-> currentBalance[a] - Total(Opening[a])]

(* What the committed requests of a set moved, unsigned. *)
AmountOf(S) == SumFunctionOnSet([r \in Requests |-> input[r].amount], S)

Transfers == {r \in Created : input[r].kind = "TRANSFER_TO_OFFICE"}

(* Check 12 of the validation seed: the control balance of an account is   *)
(* the sum of credit - debit of its TrustTransaction rows.                 *)
TransactionsExplainBalance ==
  \A a \in Accounts : MovedSinceOpening[a] = booked[a]

(* The TRUST_BANK account of the general ledger holds what the trust       *)
(* accounts hold: every movement posts its journal (GeneralLedgerService). *)
LedgerBankMatchesControl ==
  SumFunctionOnSet(trustBank, Periods) = SumFunctionOnSet(MovedSinceOpening, Accounts)

(* Matter.trustBalance is the trust money of the matter, as the CFO        *)
(* dashboard reads it (FinanceAnalyticsService).                           *)
MatterBalanceIsItsLedger ==
  \A h \in MatterHolders :
    trustBalance[h] =
      SumFunctionOnSet([a \in Accounts |-> ledger[a][h] - Opening[a][h]], Accounts)

(* An invoice has been paid exactly what the committed transfers moved for *)
(* it: no transfer's read-modify-write of paidAmount loses another's.      *)
PaidIsWhatWasTransferred ==
  \A i \in Invoices : paidAmount[i] = AmountOf({r \in Transfers : input[r].invoice = i})

(* A transfer never takes more from a client than the invoice asks for.    *)
InvoiceNeverOverpaid ==
  \A i \in Invoices : paidAmount[i] <= Billed[i]

(* Money that leaves trust for the office arrives there in the same        *)
(* transaction: no crash or error leaves one of the two journals behind.   *)
OfficeReceivesWhatTrustReleases ==
  SumFunctionOnSet(officeBank, Periods) = AmountOf(Transfers)

(* Transfers for a disbursement request note never exceed its amount.      *)
NoteNeverOverpaid ==
  \A d \in Drns : AmountOf({r \in Transfers : input[r].drn = d}) <= DrnAmount[d]

(* No money moves on an archived account.                                  *)
ArchivedAccountsAreQuiet ==
  [][\A a \in Accounts : ~active[a] => currentBalance'[a] = currentBalance[a]]_vars

(* No journal enters a closed accounting period.                           *)
ClosedPeriodsAreSealed ==
  [][\A p \in Periods : period[p] = "CLOSED"
       => trustBank'[p] = trustBank[p] /\ officeBank'[p] = officeBank[p]]_vars
===============================================================================
