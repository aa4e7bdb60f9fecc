----------------------------- MODULE MCAuditChain -----------------------------
(***************************************************************************)
(* Instances of AuditHistory for TLC: who asks for what, and in turn or not.*)
(***************************************************************************)
EXTENDS AuditHistory, TLC

CONSTANTS firm, other, r1, r2, r3, jan, feb

Asks(kind, tenant) == [kind |-> kind, tenant |-> tenant, period |-> jan, waits |-> FALSE]
Closes(period, tenant) == [Asks("CLOSE_PERIOD", tenant) EXCEPT !.period = period]
InTurn(body) == [body EXCEPT !.waits = TRUE]

(* A firm whose users wait for each other, next to one whose users do not: *)
(* three users here, two here and one there, and the other way round. Both *)
(* closings of a firm are of one month, or of two.                         *)
Inside == {(r1 :> InTurn(Closes(jan, firm))) @@ (r2 :> InTurn(Closes(m, firm)))
             @@ (r3 :> InTurn(Closes(feb, firm))) : m \in {jan, feb}}
OneOutside == { (r1 :> InTurn(Closes(jan, firm))) @@ (r2 :> InTurn(Closes(jan, firm)))
                  @@ (r3 :> Asks(k, other)) : k \in {"CLOSE_PERIOD", "TRANSFER_TO_OFFICE"} }
TwoOutside == { (r1 :> InTurn(Closes(jan, firm))) @@ (r2 :> Asks(k, other))
                  @@ (r3 :> Closes(jan, other)) : k \in {"CLOSE_PERIOD", "DEPOSIT", "POST_JOURNAL"} }
TwoFirms == Inside \union OneOutside \union TwoOutside

(* The workloads of the violation: two periods closed at once, or, for a   *)
(* firm with one user, a single deposit.                                   *)
TwoClosings == { (r1 :> Closes(jan, firm)) @@ (r2 :> Closes(feb, firm)) }
OneDeposit == {[r \in Requests |-> InTurn(Asks("DEPOSIT", firm))]}
===============================================================================
