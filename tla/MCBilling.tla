------------------------------- MODULE MCBilling -------------------------------
(***************************************************************************)
(* Instances of Billing for TLC: which bodies the requests carry.          *)
(***************************************************************************)
EXTENDS Billing, Sequences, TLC

CONSTANTS e1, e2, e3, x1, i1, i2, i3, i4, p1, p2, n1, t1, u1, u2, r1, r2, r3, r4

(* A body, sent out of turn or by users who take turns on what it touches. *)
Plain(kind, i) ==
  [kind |-> kind, invoice |-> i, items |-> {}, amount |-> 0, approval |-> None, user |-> None,
   target |-> None, note |-> None, retainer |-> None, waits |-> FALSE]
InTurn(body) == [body EXCEPT !.waits = TRUE]

Bill(kind, i, items) == [Plain(kind, i) EXCEPT !.items = items]
Voiding(x) == [Plain("VOID", None) EXCEPT !.items = {x}]
Submit(i, p) == [Plain("SUBMIT", i) EXCEPT !.approval = p]
By(user, kind, p) == [Plain(kind, None) EXCEPT !.approval = p, !.user = user]
Handing(user, kind, p, to) == [By(user, kind, p) EXCEPT !.target = to]
Paying(i, amount) == [Plain("PAY", i) EXCEPT !.amount = amount]
Crediting(i, n, amount) == [Plain("CREDIT", i) EXCEPT !.note = n, !.amount = amount]
Uncredit(i, n) == [Plain("VOID_CREDIT", i) EXCEPT !.note = n]
Applying(t, i, amount) == [Plain("APPLY", i) EXCEPT !.retainer = t, !.amount = amount]
Releasing(t) == [Plain("RELEASE", None) EXCEPT !.retainer = t]

(* The bodies of a tuple, in the hands of r1, r2, ...; the same in turns.  *)
Sent(bodies) == (r1 :> bodies[1]) @@ (r2 :> bodies[2]) @@ (r3 :> bodies[3]) @@ (r4 :> bodies[4])
Turns(bodies) == Sent([n \in 1..4 |-> InTurn(bodies[n])])

MCPrice == [S \in SUBSET Items |-> MapThenSumSet(LAMBDA x : IF x = e1 THEN 3 ELSE IF x = e3 THEN 5 ELSE 2, S)]
MCRetainerAmount == [t \in Retainers |-> 2]
(* i1 is a draft of two items, i4 an invoice of one that was issued and posted. *)
MCOpeningLines == [i \in Invoices |-> CASE i = i1 -> {e1, x1} [] i = i4 -> {e3} [] OTHER -> {}]

(* Items billed, voided, released and billed again, next to each other.    *)
BillLoad ==
  { Turns(<<Bill("RAISE", i2, {e2, x1}), Bill("RAISE", i3, {e1, e2, x1}), Plain("CANCEL", i1),
            Voiding(x1)>>),
    Sent(<<Bill("RAISE", i2, {e1, x1}), Bill("BILL", i3, {e2}), InTurn(Plain("CANCEL", i1)),
           InTurn(Submit(i1, p1))>>),
    Turns(<<Bill("BILL", i2, {e2}), Bill("RAISE", i3, {e1, x1}), Plain("CANCEL", i1),
            Plain("CANCEL", i2)>>),
    Sent(<<Bill("RAISE", i2, {e2}), Bill("RAISE", i3, {e1, x1}), InTurn(Plain("CANCEL", i1)),
           InTurn(Plain("CANCEL", i1))>>) }
(* A draft submitted, handed on, decided, submitted again, credited and    *)
(* cancelled.                                                               *)
ApproveLoad ==
  { Turns(<<Submit(i1, p1), b, c, d>>) :
      b \in {Handing(u1, "DELEGATE", p1, u2), Handing(u1, "ESCALATE", p1, u2), By(u1, "REJECT", p1),
             By(u1, "REQUEST_CHANGES", p1)},
      c \in {By(u1, "APPROVE", p1), Handing(u1, "REASSIGN", p1, u1), Submit(i1, p2)},
      d \in {By(u2, "APPROVE", p1), By(u2, "APPROVE", p2), Crediting(i1, n1, 1),
             Plain("CANCEL", i1)} }
  \union
  { Sent(<<Submit(i1, p1), Submit(i1, p2), InTurn(By(u1, "APPROVE", p1)),
           InTurn(By(u2, "APPROVE", p2))>>) }

(* An issued invoice paid from several screens at the same time; credited *)
(* and settled from a retainer, in turns.                                  *)
PayLoad == {Sent(<<Paying(i4, 2), Paying(i4, 4), Paying(i4, a), Releasing(t1)>>) : a \in {3, 5}}
CreditLoad ==
  { Turns(<<Crediting(i4, n1, 5), Uncredit(i4, n1), Uncredit(i4, n1), Releasing(t1)>>),
    Turns(<<Crediting(i4, n1, 2), Uncredit(i4, n1), Uncredit(i4, n1), Applying(t1, i4, 1)>>) }
RetainerLoad ==
  { Turns(<<Applying(t1, i4, 1), Applying(t1, i4, b), Releasing(t1), Paying(i4, 4)>>) : b \in {1, 2} }
BillingLoad == BillLoad \union ApproveLoad \union PayLoad \union CreditLoad \union RetainerLoad

(* The workloads of the violations; README.md, section 8, names the property of each. *)
BillTwiceLoad ==
  {Turns(<<Bill("BILL", i2, {e2}), Bill("BILL", i3, {e2}), Plain("CANCEL", i1), Voiding(e2)>>)}
RaiseTwiceLoad ==
  {Sent(<<Bill("RAISE", i2, {e2}), Bill("RAISE", i3, {e2}), Releasing(t1), Releasing(t1)>>)}
PayCancelledLoad ==
  {Turns(<<Plain("CANCEL", i4), Paying(i4, 5), Releasing(t1), Releasing(t1)>>)}
PayCreditedLoad ==
  {Turns(<<Crediting(i4, n1, 2), Paying(i4, 3), Uncredit(i4, n1), Releasing(t1)>>)}
RaiseAndVoidLoad ==
  {Sent(<<Bill("RAISE", i2, {e2}), Voiding(e2), Releasing(t1), Releasing(t1)>>)}
BillAndCancelLoad ==
  {Sent(<<Bill("BILL", i2, {e2}), Plain("CANCEL", i2), Releasing(t1), Releasing(t1)>>)}
SubmitAndCancelLoad ==
  {Sent(<<Submit(i1, p1), Plain("CANCEL", i1), Releasing(t1), Releasing(t1)>>)}
ApplyTwiceLoad ==
  {Sent(<<Applying(t1, i4, 1), Applying(t1, i1, 2), Plain("CANCEL", i2), Plain("CANCEL", i2)>>)}
OverCreditLoad ==
  {Turns(<<Crediting(i4, n1, 6), Releasing(t1), Releasing(t1), Releasing(t1)>>)}
RerouteLoad ==
  {[Turns(<<Submit(i1, p1), By(u1, "APPROVE", p1), Plain("CANCEL", i4), Releasing(t1)>>)
      EXCEPT ![r3] = Handing(u1, "REASSIGN", p1, u2)]}
===============================================================================
