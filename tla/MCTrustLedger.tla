----------------------------- MODULE MCTrustLedger -----------------------------
(***************************************************************************)
(* Instances of TrustLedger for TLC: the request bodies and the sums over  *)
(* accounts, requests and periods that an auditor of the books would take. *)
(***************************************************************************)
EXTENDS TrustAudit, TLC

CONSTANTS a1, a2, i1, d1, r1, r2, r3

Body(kind, account, holder, amount, reference) ==
  [kind |-> kind, account |-> account, holder |-> holder, amount |-> amount,
   reference |-> reference, period |-> "june", invoice |-> NoInvoice, drn |-> NoDrn]

Transfer(account, holder, amount, reference, invoice, drn) ==
  [Body("TRANSFER_TO_OFFICE", account, holder, amount, reference)
     EXCEPT !.invoice = invoice, !.drn = drn]

MCPeriods == {"june"}
MCBilled == [i \in Invoices |-> 2]
MCDrnAmount == [d \in Drns |-> 2]
MCMatterHolders == {1}

(* Two holders on a1, one of them (2) without a matter. *)
MCOpening == [a \in Accounts |-> IF a = a1 THEN [h \in Holders |-> IF h = 1 THEN 3 ELSE 1]
                                 ELSE [h \in Holders |-> 0]]

(* Racing spends of one account, by holders that share it. *)
SpendInputs ==
  {Body("WITHDRAWAL", a1, 1, 2, "w"),
   Body("WITHDRAWAL", a1, 2, 1, "v"),
   Body("WITHDRAWAL", a1, 2, 2, "x"),
   Body("DEPOSIT", a1, 2, 1, "d"),
   Body("REVERSAL", a1, 1, 2, "r"),
   Body("ADJUSTMENT", a1, 2, 1, "w"),
   Body("POST_INTEREST", a1, 1, 1, "d"),
   Transfer(a1, 1, 2, "t", i1, NoDrn),
   Transfer(a1, 1, 1, "u", NoInvoice, d1)}

(* Deposits, withdrawals, transfers and interest entered as transactions,  *)
(* on two accounts: every movement is booked, journalled and settled.      *)
BookInputs ==
  {Body("DEPOSIT", a2, 1, 2, "d"),
   Body("INTEREST", a1, 2, 1, "i"),
   Body("WITHDRAWAL", a1, 1, 2, "d"),
   Transfer(a1, 1, 2, "s", i1, NoDrn),
   Transfer(a1, 1, 1, "t", i1, NoDrn),
   Transfer(a1, 1, 1, "u", NoInvoice, d1)}

(* Two transfers of one account for one invoice. *)
SettleInputs == {Transfer(a1, 1, 2, "s", i1, NoDrn), Transfer(a1, 1, 1, "t", i1, NoDrn),
                 Transfer(a1, 2, 1, "u", i1, NoDrn)}

(* The inputs of the violations; README.md, section 8, names the property of each. *)
AdjustInputs == {Body("ADJUSTMENT", a1, 1, 1, "w"), Body("DEPOSIT", a1, 1, 1, "d")}
InterestInputs == {Body("POST_INTEREST", a1, 1, 1, "p"), Body("DEPOSIT", a1, 1, 1, "d")}
NoteInputs == {Transfer(a1, 1, 2, "s", NoInvoice, d1), Transfer(a1, 1, 1, "t", NoInvoice, d1)}
TwoAccountsInputs == {Body("DEPOSIT", a2, 1, 2, "d"), Transfer(a1, 1, 1, "s", i1, NoDrn),
                      Transfer(a2, 1, 1, "t", i1, NoDrn)}

Symmetry == Permutations(Requests)
===============================================================================
