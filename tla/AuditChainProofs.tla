---------------------------- MODULE AuditChainProofs ----------------------------
(***************************************************************************)
(* What holds of the audit trail for any tenants, requests and workloads.  *)
(*                                                                         *)
(* A call remembers the hash of a row it saw, and inserts its own later.   *)
(* The row it saw is committed, or is one of its own open transaction: so  *)
(* a rollback that takes the row away takes the call away with it (SawOK). *)
(* The rest follows a call from its start to its row: it starts once       *)
(* (Fresh), in a transaction only while that is open (Active), and says    *)
(* that something was done only after it was (Truthful).                   *)
(*                                                                         *)
(* While the calls of a tenant take turns, what a call saw is the last row *)
(* (SawLast), the rows form a chain (TenantChains), and sorting them gives *)
(* a log that refines ChainedLog (TrailIsALog).  Tenants whose users wait  *)
(* for each other and close periods do take turns (ClosingsFormALog).      *)
(***************************************************************************)
EXTENDS AuditHistory, Sequences, FiniteSetTheorems, TLAPS

Running == {"find", "create"}
Open(r) == pc[r] \in {"settle", "write", "await"}

(* The calls a request has not reached yet are not started. *)
Ahead(w) ==
  \/ pc[w[1]] \in {"idle", "act"}
  \/ pc[w[1]] = "settle" /\ w[2] # "journal"
  \/ pc[w[1]] = "write" /\ w[2] \in {"action", "failure"}
  \/ pc[w[1]] = "await" /\ w[2] = "failure"
Fresh == \A w \in Calls : Ahead(w) => call[w].at = "none"

Active == \A w \in Calls : call[w].at \in Running /\ InTx(w) => Open(w[1])

Pending ==
  \A r \in Requests : \A x \in pending[r] : x.by[1] = r /\ InTx(x.by) /\ Open(r)

RowOK(x) ==
  /\ x.tenant = input[x.by[1]].tenant
  /\ x.seq <= drawn
  /\ call[x.by].at = "written"
RowsOK == (\A x \in rows : RowOK(x)) /\ (\A r \in Requests : \A x \in pending[r] : RowOK(x))

SawOK ==
  \A w \in Calls : call[w].at = "create" =>
    call[w].saw = Genesis \/ \E y \in Mine(w) : y.by = call[w].saw

Before(x, S) ==
  x.prev = Genesis \/ \E y \in S : y.by = x.prev /\ y.tenant = x.tenant /\ y.seq < x.seq
LinksOK ==
  /\ \A x \in rows : Before(x, rows)
  /\ \A r \in Requests : \A x \in pending[r] : Before(x, rows \union pending[r])

Truthful ==
  /\ \A w \in Calls :
       call[w].at \in Running /\ call[w].says = "DONE" /\ ~InTx(w) => w[1] \in done
  /\ \A x \in rows : x.says = "DONE" => x.by[1] \in done
  /\ \A r \in Requests : Open(r) /\ input[r].kind \notin Trust => r \in done

Stored ==
  /\ \A r \in Requests :
       /\ call[<<r, "action">>].at = "written"
       /\ input[r].kind \in Trust => Open(r)
       => \E x \in rows \union pending[r] : x.by = <<r, "action">>
  /\ \A r \in Requests :
       input[r].kind \notin Trust => \A x \in pending[r] : FALSE

(* Who has not acted has done nothing. *)
Undone == \A r \in Requests : pc[r] \in {"idle", "act"} => r \notin done

Made == rows \union UNION {pending[r] : r \in Requests}
Unique == \A x, y \in Made : x.by = y.by \/ x.seq = y.seq => x = y

Inv ==
  /\ TypeOK
  /\ Fresh
  /\ Active
  /\ Pending
  /\ RowsOK
  /\ SawOK
  /\ LinksOK
  /\ Truthful
  /\ Stored
  /\ Unique
  /\ Undone
  /\ DoneIsAudited

-------------------------------------------------------------------------------
LEMMA CallsAre ==
  /\ \A r \in Requests, e \in Events : <<r, e>> \in Calls
  /\ \A w \in Calls : w[1] \in Requests /\ w[2] \in Events /\ w = <<w[1], w[2]>>
  /\ \A says \in {"DONE", "FAILED"} : Started(says) \in Call
  /\ Written \in Call /\ Lost \in Call
<1>1. \A w \in Calls : w[1] \in Requests /\ w[2] \in Events /\ w = <<w[1], w[2]>>
  BY DEF Calls
<1>2. \A r \in Requests, e \in Events : <<r, e>> \in Calls
  BY DEF Calls
<1>3. NoCall \in Call
  BY DEF NoCall, Call, Resting
<1>4. \A says \in {"DONE", "FAILED"} : Started(says) \in Call
  BY <1>3 DEF Call, Started
<1>5. Written \in Call /\ Lost \in Call
  BY <1>3 DEF Call, Written, Lost, Resting
<1> QED
  BY <1>1, <1>2, <1>4, <1>5

(* A step of a request or of a call keeps what is known, part by part. *)
LEMMA TypeStep ==
  ASSUME TypeOK, [Next]_vars
  PROVE  TypeOK'
<1> USE DEF TypeOK
<1>1. ASSUME NEW r \in Requests, Begin(r) PROVE TypeOK'
  BY <1>1 DEF Begin, Goto
<1>2. ASSUME NEW r \in Requests, Act(r) PROVE TypeOK'
  <2>1. call' \in [Calls -> Call]
    BY <1>2, CallsAre DEF Act, Events
  <2>2. pc' \in [Requests -> {"idle", "act", "settle", "write", "await", "answered", "failed"}]
    BY <1>2 DEF Act, Goto
  <2> QED
    BY <1>2, <2>1, <2>2 DEF Act
<1>3. ASSUME NEW r \in Requests, Settle(r) PROVE TypeOK'
  BY <1>3, CallsAre DEF Settle, Goto, Events
<1>4. ASSUME NEW r \in Requests, Write(r) PROVE TypeOK'
  BY <1>4, CallsAre DEF Write, Goto, Events
<1>5. ASSUME NEW r \in Requests, Commit(r) PROVE TypeOK'
  BY <1>5, CallsAre DEF Commit, Goto
<1>6. ASSUME NEW r \in Requests, Answer(r) PROVE TypeOK'
  BY <1>6 DEF Answer, Goto
<1>7. ASSUME NEW r \in Requests, Fail(r) PROVE TypeOK'
  <2>1. call' \in [Calls -> Call]
    <3>1. PICK status \in {422, 500} :
            call' = [w \in Calls |->
              CASE w = <<r, "failure">> /\ status = 500 -> Started("FAILED")
                [] w = <<r, "journal">> /\ pc[r] = "act" /\ input[r].kind = "POST_JOURNAL"
                     -> Started("FAILED")
                [] Left(w, r) -> Lost
                [] OTHER -> call[w]]
      BY <1>7 DEF Fail
    <3>2. Started("FAILED") \in Call /\ Lost \in Call /\ \A w \in Calls : call[w] \in Call
      BY CallsAre
    <3> QED
      BY <3>1, <3>2
  <2>2. /\ pending' = [pending EXCEPT ![r] = {}]
        /\ pc' = [pc EXCEPT ![r] = "failed"]
        /\ UNCHANGED <<rows, drawn, done, input>>
    BY <1>7 DEF Fail, Goto
  <2> QED
    BY <2>1, <2>2
<1>8. ASSUME NEW w \in Calls, Find(w) PROVE TypeOK'
  <2>1. PICK hash \in Calls \union {Genesis} :
          call' = [call EXCEPT ![w] = [@ EXCEPT !.at = "create", !.saw = hash]]
    BY <1>8 DEF Find
  <2>2. [call[w] EXCEPT !.at = "create", !.saw = hash] \in Call
    BY DEF Call
  <2> QED
    BY <1>8, <2>1, <2>2 DEF Find
<1>9. ASSUME NEW w \in Calls, Create(w) PROVE TypeOK'
  <2>1. NewRow(w) \in Row
    BY DEF NewRow, Row, Call, Body, Calls
  <2> QED
    BY <1>9, <2>1, CallsAre DEF Create
<1>10. ASSUME NEW w \in Calls, Lose(w) PROVE TypeOK'
  BY <1>10, CallsAre DEF Lose
<1>11. ASSUME Crash PROVE TypeOK'
  BY <1>11, CallsAre DEF Crash
<1>12. ASSUME UNCHANGED vars PROVE TypeOK'
  BY <1>12 DEF vars
<1> QED
  BY <1>1, <1>2, <1>3, <1>4, <1>5, <1>6, <1>7, <1>8, <1>9, <1>10, <1>11, <1>12
  DEF Next, Step, Log, Finished

LEMMA FreshStep ==
  ASSUME Inv, [Next]_vars
  PROVE  Fresh'
<1>0. TypeOK /\ Fresh
  BY DEF Inv
<1> USE <1>0, CallsAre DEF TypeOK, Fresh, Ahead, Events
<1>1. ASSUME NEW r \in Requests, Begin(r) PROVE Fresh'
  BY <1>1 DEF Begin, Goto
<1>2. ASSUME NEW r \in Requests, Act(r) PROVE Fresh'
  BY <1>2 DEF Act, Goto, Started, NoCall
<1>3. ASSUME NEW r \in Requests, Settle(r) PROVE Fresh'
  BY <1>3 DEF Settle, Goto, Started, NoCall
<1>4. ASSUME NEW r \in Requests, Write(r) PROVE Fresh'
  BY <1>4 DEF Write, Goto, Started, NoCall
<1>5. ASSUME NEW r \in Requests, Commit(r) PROVE Fresh'
  BY <1>5 DEF Commit, Goto, Left, Lost, NoCall
<1>6. ASSUME NEW r \in Requests, Answer(r) PROVE Fresh'
  BY <1>6 DEF Answer, Goto
<1>7. ASSUME NEW r \in Requests, Fail(r) PROVE Fresh'
  BY <1>7 DEF Fail, Goto, Left, Lost, Started, NoCall
<1>8. ASSUME NEW w \in Calls, Find(w) PROVE Fresh'
  BY <1>8 DEF Find
<1>9. ASSUME NEW w \in Calls, Create(w) PROVE Fresh'
  BY <1>9 DEF Create, Written, NoCall
<1>10. ASSUME NEW w \in Calls, Lose(w) PROVE Fresh'
  BY <1>10 DEF Lose, Lost, NoCall
<1>11. ASSUME Crash PROVE Fresh'
  BY <1>11 DEF Crash, Lost, NoCall, Resting
<1>12. ASSUME UNCHANGED vars PROVE Fresh'
  BY <1>12 DEF vars
<1> QED
  BY <1>1, <1>2, <1>3, <1>4, <1>5, <1>6, <1>7, <1>8, <1>9, <1>10, <1>11, <1>12
  DEF Next, Step, Log, Finished

LEMMA ActiveStep ==
  ASSUME Inv, [Next]_vars
  PROVE  Active'
<1>0. TypeOK /\ Fresh /\ Active
  BY DEF Inv
<1> USE <1>0, CallsAre DEF TypeOK, Active, Fresh, Ahead, Events, Open, InTx, Running, Resting, Trust
<1>1. ASSUME NEW r \in Requests, Begin(r) PROVE Active'
  BY <1>1 DEF Begin, Goto
<1>2. ASSUME NEW r \in Requests, Act(r) PROVE Active'
  BY <1>2 DEF Act, Goto, Started, NoCall
<1>3. ASSUME NEW r \in Requests, Settle(r) PROVE Active'
  BY <1>3 DEF Settle, Goto, Started, NoCall
<1>4. ASSUME NEW r \in Requests, Write(r) PROVE Active'
  BY <1>4 DEF Write, Goto, Started, NoCall
<1>5. ASSUME NEW r \in Requests, Commit(r) PROVE Active'
  BY <1>5 DEF Commit, Goto, Left, Lost, NoCall
<1>6. ASSUME NEW r \in Requests, Answer(r) PROVE Active'
  BY <1>6 DEF Answer, Goto
<1>7. ASSUME NEW r \in Requests, Fail(r) PROVE Active'
  BY <1>7 DEF Fail, Goto, Left, Lost, Started, NoCall
<1>8. ASSUME NEW w \in Calls, Find(w) PROVE Active'
  BY <1>8 DEF Find
<1>9. ASSUME NEW w \in Calls, Create(w) PROVE Active'
  BY <1>9 DEF Create, Written, NoCall
<1>10. ASSUME NEW w \in Calls, Lose(w) PROVE Active'
  BY <1>10 DEF Lose, Lost, NoCall
<1>11. ASSUME Crash PROVE Active'
  BY <1>11 DEF Crash, Lost, NoCall, Resting
<1>12. ASSUME UNCHANGED vars PROVE Active'
  BY <1>12 DEF vars
<1> QED
  BY <1>1, <1>2, <1>3, <1>4, <1>5, <1>6, <1>7, <1>8, <1>9, <1>10, <1>11, <1>12
  DEF Next, Step, Log, Finished

LEMMA WrittenStays ==
  ASSUME Inv, [Next]_vars
  PROVE  \A v \in Calls : call[v].at = "written" => call'[v].at = "written"
<1>0. TypeOK /\ Fresh
  BY DEF Inv
<1> USE <1>0, CallsAre DEF TypeOK, Fresh, Ahead, Events, Resting
<1>1. ASSUME NEW r \in Requests, Begin(r) PROVE \A v \in Calls : call[v].at = "written" => call'[v].at = "written"
  BY <1>1 DEF Begin, Goto
<1>2. ASSUME NEW r \in Requests, Act(r) PROVE \A v \in Calls : call[v].at = "written" => call'[v].at = "written"
  BY <1>2 DEF Act, Goto, Started, NoCall
<1>3. ASSUME NEW r \in Requests, Settle(r) PROVE \A v \in Calls : call[v].at = "written" => call'[v].at = "written"
  BY <1>3 DEF Settle, Goto, Started, NoCall
<1>4. ASSUME NEW r \in Requests, Write(r) PROVE \A v \in Calls : call[v].at = "written" => call'[v].at = "written"
  BY <1>4 DEF Write, Goto, Started, NoCall
<1>5. ASSUME NEW r \in Requests, Commit(r) PROVE \A v \in Calls : call[v].at = "written" => call'[v].at = "written"
  BY <1>5 DEF Commit, Goto, Left, Lost, NoCall
<1>6. ASSUME NEW r \in Requests, Answer(r) PROVE \A v \in Calls : call[v].at = "written" => call'[v].at = "written"
  BY <1>6 DEF Answer, Goto
<1>7. ASSUME NEW r \in Requests, Fail(r) PROVE \A v \in Calls : call[v].at = "written" => call'[v].at = "written"
  BY <1>7 DEF Fail, Goto, Left, Lost, Started, NoCall
<1>8. ASSUME NEW w \in Calls, Find(w) PROVE \A v \in Calls : call[v].at = "written" => call'[v].at = "written"
  BY <1>8 DEF Find
<1>9. ASSUME NEW w \in Calls, Create(w) PROVE \A v \in Calls : call[v].at = "written" => call'[v].at = "written"
  BY <1>9 DEF Create, Written, NoCall
<1>10. ASSUME NEW w \in Calls, Lose(w) PROVE \A v \in Calls : call[v].at = "written" => call'[v].at = "written"
  BY <1>10 DEF Lose, Lost, NoCall
<1>11. ASSUME Crash
       PROVE  \A v \in Calls : call[v].at = "written" => call'[v].at = "written"
  BY <1>11 DEF Crash, Lost, NoCall, Resting
<1>12. ASSUME UNCHANGED vars PROVE \A v \in Calls : call[v].at = "written" => call'[v].at = "written"
  BY <1>12 DEF vars
<1> QED
  BY <1>1, <1>2, <1>3, <1>4, <1>5, <1>6, <1>7, <1>8, <1>9, <1>10, <1>11, <1>12
  DEF Next, Step, Log, Finished

LEMMA OldRow ==
  ASSUME Inv, [Next]_vars, NEW x \in Row, RowOK(x)
  PROVE  RowOK(x)'
<1>1. input' = input
  BY ZenonT(30) DEF Next, Step, Log, Begin, Act, Settle, Write, Commit, Answer, Fail, Find, Create, Lose, Crash,
         Finished, vars
<1>2. UNCHANGED drawn \/ drawn' = drawn + 1
  BY ZenonT(30) DEF Next, Step, Log, Begin, Act, Settle, Write, Commit, Answer, Fail, Find, Create, Lose, Crash,
         Finished, vars
<1>3. x.by \in Calls /\ x.seq \in Nat
  BY DEF Row
<1> QED
  BY <1>1, <1>2, <1>3, WrittenStays DEF RowOK, Inv, TypeOK

(* Rows appear by Create alone; Commit moves what was pending. *)
LEMMA NoNewRow ==
  ASSUME Inv, [Next]_vars, ~ \E w \in Calls : Create(w)
  PROVE  /\ \A x \in rows' : x \in rows \/ \E r \in Requests : x \in pending[r]
         /\ \A r \in Requests : pending'[r] \subseteq pending[r]
<1> USE DEF Inv, TypeOK
<1>1. ASSUME NEW r \in Requests, Commit(r)
      PROVE  /\ \A x \in rows' : x \in rows \/ x \in pending[r]
             /\ \A q \in Requests : pending'[q] \subseteq pending[q]
  BY <1>1 DEF Commit
<1>2. ASSUME NEW r \in Requests, Fail(r)
      PROVE  rows' = rows /\ \A q \in Requests : pending'[q] \subseteq pending[q]
  <2>1. rows' = rows /\ pending' = [pending EXCEPT ![r] = {}]
    BY <1>2 DEF Fail
  <2> QED
    BY <2>1
<1>3. ASSUME Crash
      PROVE  rows' = rows /\ \A q \in Requests : pending'[q] \subseteq pending[q]
  <2>1. rows' = rows /\ pending' = [r \in Requests |-> {}]
    BY <1>3 DEF Crash
  <2> QED
    BY <2>1
<1>4. CASE UNCHANGED <<rows, pending>>
  BY <1>4
<1> QED
  BY <1>1, <1>2, <1>3, <1>4 DEF Next, Step, Log, Begin, Act, Settle, Write, Answer, Find, Lose, Finished, vars

LEMMA Inserted ==
  ASSUME Inv, NEW w \in Calls, Create(w)
  PROVE  \E new \in Row :
           /\ new.by = w /\ new.tenant = input[w[1]].tenant
           /\ new.seq = drawn + 1 /\ new.prev = call[w].saw /\ new.says = call[w].says
           /\ drawn' = drawn + 1 /\ UNCHANGED <<done, pc, input>>
           /\ call' = [call EXCEPT ![w] = Written] /\ call[w].at = "create"
           /\ InTx(w) => rows' = rows /\ pending' = [pending EXCEPT ![w[1]] = @ \union {new}]
           /\ ~InTx(w) => rows' = rows \union {new} /\ pending' = pending
<1>1. NewRow(w) \in Row
  BY CallsAre DEF Inv, TypeOK, NewRow, Row, Call, Body
<1>2. /\ NewRow(w).by = w /\ NewRow(w).tenant = input[w[1]].tenant
      /\ NewRow(w).seq = drawn + 1 /\ NewRow(w).prev = call[w].saw /\ NewRow(w).says = call[w].says
  BY DEF NewRow
<1> QED
  BY <1>1, <1>2 DEF Create

LEMMA PendingStep ==
  ASSUME Inv, [Next]_vars
  PROVE  Pending'
<1>0. TypeOK /\ Fresh /\ Active /\ Pending
  BY DEF Inv
<1> USE <1>0, CallsAre DEF TypeOK, Pending, Active, Fresh, Ahead, Events, Open, InTx, Running, Resting, Trust, NewRow
<1>1. ASSUME NEW r \in Requests, Begin(r) PROVE Pending'
  BY <1>1 DEF Begin, Goto
<1>2. ASSUME NEW r \in Requests, Act(r) PROVE Pending'
  BY <1>2 DEF Act, Goto, Started, NoCall
<1>3. ASSUME NEW r \in Requests, Settle(r) PROVE Pending'
  BY <1>3 DEF Settle, Goto, Started, NoCall
<1>4. ASSUME NEW r \in Requests, Write(r) PROVE Pending'
  BY <1>4 DEF Write, Goto, Started, NoCall
<1>5. ASSUME NEW r \in Requests, Commit(r) PROVE Pending'
  BY <1>5 DEF Commit, Goto, Left, Lost, NoCall
<1>6. ASSUME NEW r \in Requests, Answer(r) PROVE Pending'
  BY <1>6 DEF Answer, Goto
<1>7. ASSUME NEW r \in Requests, Fail(r) PROVE Pending'
  BY <1>7 DEF Fail, Goto, Left, Lost, Started, NoCall
<1>8. ASSUME NEW w \in Calls, Find(w) PROVE Pending'
  BY <1>8 DEF Find
<1>9. ASSUME NEW w \in Calls, Create(w) PROVE Pending'
  <2>0. PICK new \in Row :
           /\ new.by = w /\ new.tenant = input[w[1]].tenant
           /\ new.seq = drawn + 1 /\ new.prev = call[w].saw /\ new.says = call[w].says
           /\ drawn' = drawn + 1 /\ UNCHANGED <<done, pc, input>>
           /\ call' = [call EXCEPT ![w] = Written] /\ call[w].at = "create"
           /\ InTx(w) => rows' = rows /\ pending' = [pending EXCEPT ![w[1]] = @ \union {new}]
           /\ ~InTx(w) => rows' = rows \union {new} /\ pending' = pending
    BY <1>9, Inserted
  <2>1. InTx(w) => Open(w[1])
    BY <2>0
  <2>2. \A r \in Requests : \A x \in pending'[r] :
          x \in pending[r] \/ (x = new /\ r = w[1] /\ InTx(w))
    BY <2>0
  <2>3. \A r \in Requests : \A x \in pending'[r] : x.by[1] = r /\ InTx(x.by) /\ Open(r)
    <3> HIDE DEF InTx, Open
    <3> QED
      BY <2>0, <2>1, <2>2
  <2>4. input' = input /\ pc' = pc
    BY <2>0
  <2> QED
    BY <2>3, <2>4
<1>10. ASSUME NEW w \in Calls, Lose(w) PROVE Pending'
  BY <1>10 DEF Lose, Lost, NoCall
<1>11. ASSUME Crash PROVE Pending'
  BY <1>11 DEF Crash, Lost, NoCall, Resting
<1>12. ASSUME UNCHANGED vars PROVE Pending'
  BY <1>12 DEF vars
<1> QED
  BY <1>1, <1>2, <1>3, <1>4, <1>5, <1>6, <1>7, <1>8, <1>9, <1>10, <1>11, <1>12
  DEF Next, Step, Log, Finished

LEMMA RowsOKStep ==
  ASSUME Inv, [Next]_vars
  PROVE  RowsOK'
<1>1. \A x \in Row : RowOK(x) => RowOK(x)'
  BY OldRow
<1>2. /\ rows \subseteq Row /\ \A x \in rows : RowOK(x)
      /\ \A r \in Requests : pending[r] \subseteq Row /\ \A x \in pending[r] : RowOK(x)
  BY DEF Inv, TypeOK, RowsOK
<1>3. ASSUME NEW w \in Calls, Create(w) PROVE RowsOK'
  <2>0. PICK new \in Row :
           /\ new.by = w /\ new.tenant = input[w[1]].tenant
           /\ new.seq = drawn + 1 /\ new.prev = call[w].saw /\ new.says = call[w].says
           /\ drawn' = drawn + 1 /\ UNCHANGED <<done, pc, input>>
           /\ call' = [call EXCEPT ![w] = Written] /\ call[w].at = "create"
           /\ InTx(w) => rows' = rows /\ pending' = [pending EXCEPT ![w[1]] = @ \union {new}]
           /\ ~InTx(w) => rows' = rows \union {new} /\ pending' = pending
    BY <1>3, Inserted
  <2>1. RowOK(new)'
    BY <2>0 DEF RowOK, Written, NoCall, Inv, TypeOK
  <2>2. /\ rows' \subseteq rows \union {new}
        /\ \A r \in Requests : pending'[r] \subseteq pending[r] \union {new}
    BY <2>0 DEF Inv, TypeOK
  <2> QED
    BY <1>1, <1>2, <2>1, <2>2 DEF RowsOK
<1>4. ASSUME ~ \E w \in Calls : Create(w) PROVE RowsOK'
  BY <1>1, <1>2, <1>4, NoNewRow DEF RowsOK
<1> QED
  BY <1>3, <1>4

LEMMA TruthfulStep ==
  ASSUME Inv, [Next]_vars
  PROVE  Truthful'
<1>0. TypeOK /\ Fresh /\ Active /\ Pending /\ RowsOK /\ Truthful
  BY DEF Inv
<1> USE <1>0, CallsAre DEF TypeOK, Truthful, RowsOK, RowOK, Pending, Active, Fresh, Ahead, Row, Events, Open, InTx, Running, Resting, Trust, NewRow
<1>1. ASSUME NEW r \in Requests, Begin(r) PROVE Truthful'
  BY <1>1 DEF Begin, Goto
<1>2. ASSUME NEW r \in Requests, Act(r) PROVE Truthful'
  BY <1>2 DEF Act, Goto, Started, NoCall
<1>3. ASSUME NEW r \in Requests, Settle(r) PROVE Truthful'
  BY <1>3 DEF Settle, Goto, Started, NoCall
<1>4. ASSUME NEW r \in Requests, Write(r) PROVE Truthful'
  BY <1>4 DEF Write, Goto, Started, NoCall
<1>5. ASSUME NEW r \in Requests, Commit(r) PROVE Truthful'
  BY <1>5 DEF Commit, Goto, Left, Lost, NoCall
<1>6. ASSUME NEW r \in Requests, Answer(r) PROVE Truthful'
  BY <1>6 DEF Answer, Goto
<1>7. ASSUME NEW r \in Requests, Fail(r) PROVE Truthful'
  BY <1>7, SMTT(30) DEF Fail, Goto, Left, Lost, Started, NoCall
<1>8. ASSUME NEW w \in Calls, Find(w) PROVE Truthful'
  BY <1>8 DEF Find
<1>9. ASSUME NEW w \in Calls, Create(w) PROVE Truthful'
  <2>0. PICK new \in Row :
           /\ new.by = w /\ new.tenant = input[w[1]].tenant
           /\ new.seq = drawn + 1 /\ new.prev = call[w].saw /\ new.says = call[w].says
           /\ drawn' = drawn + 1 /\ UNCHANGED <<done, pc, input>>
           /\ call' = [call EXCEPT ![w] = Written] /\ call[w].at = "create"
           /\ InTx(w) => rows' = rows /\ pending' = [pending EXCEPT ![w[1]] = @ \union {new}]
           /\ ~InTx(w) => rows' = rows \union {new} /\ pending' = pending
    BY <1>9, Inserted
  <2>1. \A x \in rows' : x \in rows \/ (x = new /\ ~InTx(w))
    <3> HIDE DEF InTx
    <3>1. CASE InTx(w)
      BY <2>0, <3>1
    <3>2. CASE ~InTx(w)
      BY <2>0, <3>2
    <3> QED
      BY <3>1, <3>2
  <2>2. \A x \in rows' : x.says = "DONE" => x.by[1] \in done
    BY <2>0, <2>1
  <2>3. \A v \in Calls : call'[v].at \in Running => call'[v] = call[v]
    BY <2>0 DEF Written, NoCall
  <2> QED
    BY <2>0, <2>2, <2>3
<1>10. ASSUME NEW w \in Calls, Lose(w) PROVE Truthful'
  BY <1>10 DEF Lose, Lost, NoCall
<1>11. ASSUME Crash PROVE Truthful'
  BY <1>11 DEF Crash, Lost, NoCall, Resting
<1>12. ASSUME UNCHANGED vars PROVE Truthful'
  BY <1>12 DEF vars
<1> QED
  BY <1>1, <1>2, <1>3, <1>4, <1>5, <1>6, <1>7, <1>8, <1>9, <1>10, <1>11, <1>12
  DEF Next, Step, Log, Finished

(* What a call has seen it sees until it ends: rows are never deleted, and *)
(* the rows of a transaction are dropped together with its calls.          *)
LEMMA SeenStays ==
  ASSUME Inv, [Next]_vars
  PROVE  /\ rows \subseteq rows'
         /\ \A r \in Requests : rows \union pending[r] \subseteq rows' \union pending'[r]
              \/ /\ ~Open(r)' /\ pending'[r] = {}
                 /\ \A v \in Calls : v[1] = r /\ InTx(v) => call'[v].at # "create"
<1>0. TypeOK
  BY DEF Inv
<1> USE <1>0, CallsAre DEF TypeOK, Events, Open
<1>1. ASSUME NEW q \in Requests, Commit(q)
      PROVE  rows' = rows \union pending[q] /\ \A r \in Requests : r # q => pending'[r] = pending[r]
  BY <1>1 DEF Commit
<1>2. ASSUME NEW q \in Requests, Fail(q)
      PROVE  /\ rows' = rows /\ \A r \in Requests : r # q => pending'[r] = pending[r]
             /\ pending'[q] = {} /\ pc'[q] = "failed"
             /\ \A v \in Calls : v[1] = q /\ InTx(v) => call'[v].at # "create"
  <2>1. PICK status \in {422, 500} :
          call' = [w \in Calls |->
            CASE w = <<q, "failure">> /\ status = 500 -> Started("FAILED")
              [] w = <<q, "journal">> /\ pc[q] = "act" /\ input[q].kind = "POST_JOURNAL"
                   -> Started("FAILED")
              [] Left(w, q) -> Lost
              [] OTHER -> call[w]]
    BY <1>2 DEF Fail
  <2>2. /\ pending' = [pending EXCEPT ![q] = {}]
        /\ pc' = [pc EXCEPT ![q] = "failed"]
        /\ rows' = rows
    BY <1>2 DEF Fail, Goto
  <2>3. \A v \in Calls : v[1] = q /\ InTx(v) => call'[v].at # "create"
    BY <2>1 DEF Started, NoCall, Lost, Left, Resting
  <2> QED
    BY <2>2, <2>3
<1>3. ASSUME Crash
      PROVE  rows' = rows /\ \A r \in Requests :
               /\ pending'[r] = {} /\ ~Open(r)'
               /\ \A v \in Calls : v[1] = r /\ InTx(v) => call'[v].at # "create"
  BY <1>3, SMTT(30) DEF Crash, Lost, NoCall, Resting
<1>4. ASSUME NEW w \in Calls, Create(w)
      PROVE  rows \subseteq rows' /\ \A r \in Requests : pending[r] \subseteq pending'[r]
  <2>1. CASE InTx(w)
    BY <1>4, <2>1, ZenonT(30) DEF Create
  <2>2. CASE ~InTx(w)
    BY <1>4, <2>2, ZenonT(30) DEF Create
  <2> QED
    BY <2>1, <2>2
<1>5. CASE UNCHANGED <<rows, pending>>
  BY <1>5
<1>6. CASE \E q \in Requests : Commit(q)
  BY <1>1, <1>6
<1>7. CASE \E q \in Requests : Fail(q)
  BY <1>2, <1>7
<1>8. CASE Crash
  BY <1>3, <1>8
<1>9. CASE \E w \in Calls : Create(w)
  BY <1>4, <1>9
<1> QED
  BY <1>5, <1>6, <1>7, <1>8, <1>9
  DEF Next, Step, Log, Begin, Act, Settle, Write, Answer, Find, Lose, Finished, vars

(* A call that is about to insert has just searched, or was before. *)
LEMMA FoundOrKept ==
  ASSUME Inv, [Next]_vars
  PROVE  \A v \in Calls : call'[v].at = "create" => call'[v] = call[v] \/ Find(v)
<1>0. TypeOK
  BY DEF Inv
<1> USE <1>0, CallsAre DEF TypeOK
<1>1. ASSUME NEW q \in Requests, NEW e \in Events,
             call' = [call EXCEPT ![<<q, e>>] = Started("DONE")]
      PROVE  \A v \in Calls : call'[v].at = "create" => call'[v] = call[v]
  BY <1>1 DEF Started, NoCall
<1>2. ASSUME NEW q \in Requests, Commit(q)
      PROVE  \A v \in Calls : call'[v].at = "create" => call'[v] = call[v]
  BY <1>2 DEF Commit, Lost, NoCall
<1>3. ASSUME NEW q \in Requests, Fail(q)
      PROVE  \A v \in Calls : call'[v].at = "create" => call'[v] = call[v]
  BY <1>3 DEF Fail, Lost, Started, NoCall
<1>4. ASSUME NEW w \in Calls, Create(w) \/ Lose(w)
      PROVE  \A v \in Calls : call'[v].at = "create" => call'[v] = call[v]
  BY <1>4 DEF Create, Lose, Written, Lost, NoCall
<1>5. ASSUME NEW w \in Calls, Find(w)
      PROVE  \A v \in Calls : call'[v].at = "create" => call'[v] = call[v] \/ Find(v)
  <2>1. \A v \in Calls : v # w => call'[v] = call[v]
    BY <1>5 DEF Find
  <2> QED
    BY <1>5, <2>1
<1>6. ASSUME Crash
      PROVE  \A v \in Calls : call'[v].at = "create" => call'[v] = call[v]
  BY <1>6 DEF Crash, Lost, NoCall
<1>7. CASE UNCHANGED call
  BY <1>7
<1> QED
  BY <1>1, <1>2, <1>3, <1>4, <1>5, <1>6, <1>7
  DEF Next, Step, Log, Begin, Act, Settle, Write, Answer, Finished, vars, Events

LEMMA SawOKStep ==
  ASSUME Inv, [Next]_vars
  PROVE  SawOK'
<1>0. TypeOK /\ SawOK
  BY DEF Inv
<1> USE <1>0, CallsAre DEF TypeOK
<1>1. \A v \in Calls : call'[v].at = "create" => call'[v] = call[v] \/ Find(v)
  BY FoundOrKept
<1>2. ASSUME NEW v \in Calls, call'[v].at = "create"
      PROVE  Mine(v) \subseteq Mine(v)'
  <2>1. input' = input
    BY ZenonT(30) DEF Next, Step, Log, Begin, Act, Settle, Write, Commit, Answer, Fail, Find, Create, Lose,
           Crash, Finished, vars
  <2>2. InTx(v)' = InTx(v)
    BY <2>1 DEF InTx
  <2>3. rows \subseteq rows'
    BY SeenStays
  <2>4. CASE InTx(v)
    <3>1. rows \union pending[v[1]] \subseteq rows' \union pending'[v[1]]
      BY <1>2, <2>4, SeenStays
    <3> QED
      BY <2>1, <2>2, <2>4, <3>1 DEF Mine
  <2>5. CASE ~InTx(v)
    BY <2>1, <2>2, <2>3, <2>5 DEF Mine
  <2> QED
    BY <2>4, <2>5
<1>3. ASSUME NEW v \in Calls, call'[v].at = "create"
      PROVE  call'[v].saw = Genesis \/ \E y \in Mine(v) : y.by = call'[v].saw
  <2>1. CASE call'[v] = call[v]
    BY <1>3, <2>1 DEF SawOK
  <2>2. CASE Find(v)
    <3>1. PICK hash \in Calls \union {Genesis} :
            /\ (Mine(v) = {} /\ hash = Genesis) \/ (\E last \in Mine(v) : hash = last.by)
            /\ call' = [call EXCEPT ![v] = [@ EXCEPT !.at = "create", !.saw = hash]]
      BY <2>2 DEF Find
    <3>2. call'[v].saw = hash
      BY <3>1 DEF Call
    <3> QED
      BY <3>1, <3>2
  <2> QED
    BY <1>1, <1>3, <2>1, <2>2
<1> QED
  BY <1>2, <1>3 DEF SawOK

LEMMA LinksOKStep ==
  ASSUME Inv, [Next]_vars
  PROVE  LinksOK'
<1> USE DEF Inv, TypeOK
<1>1. \A x, S, T : Before(x, S) /\ S \subseteq T => Before(x, T)
  BY DEF Before
<1>2. \A x : Before(x, rows) => Before(x, rows')
  BY <1>1, SeenStays
<1>3. \A r \in Requests : \A x : x \in pending'[r] /\ Before(x, rows \union pending[r])
        => Before(x, rows' \union pending'[r])
  BY <1>1, SeenStays
<1>4. ASSUME NEW w \in Calls, Create(w) PROVE LinksOK'
  <2>0. PICK new \in Row :
           /\ new.by = w /\ new.tenant = input[w[1]].tenant
           /\ new.seq = drawn + 1 /\ new.prev = call[w].saw /\ new.says = call[w].says
           /\ drawn' = drawn + 1 /\ UNCHANGED <<done, pc, input>>
           /\ call' = [call EXCEPT ![w] = Written] /\ call[w].at = "create"
           /\ InTx(w) => rows' = rows /\ pending' = [pending EXCEPT ![w[1]] = @ \union {new}]
           /\ ~InTx(w) => rows' = rows \union {new} /\ pending' = pending
    BY <1>4, Inserted
  <2>1. new.prev = Genesis \/ \E y \in Mine(w) : y.by = new.prev
    BY <2>0 DEF SawOK
  <2>2. \A y \in Mine(w) : y.tenant = new.tenant /\ y.seq < new.seq
    <3>1. \A y \in Mine(w) : RowOK(y) /\ y \in Row /\ y.tenant = input[w[1]].tenant
      BY CallsAre DEF Mine, RowsOK
    <3> QED
      BY <2>0, <3>1 DEF RowOK, Row
  <2>3. Before(new, Mine(w))
    BY <2>1, <2>2 DEF Before
  <2>4. CASE InTx(w)
    <3>1. Before(new, rows \union pending[w[1]])
      BY <1>1, <2>3, <2>4 DEF Mine
    <3>2. rows' = rows /\ \A r \in Requests : \A x \in pending'[r] :
            x \in pending[r] \/ (x = new /\ r = w[1])
      BY <2>0, <2>4, CallsAre
    <3>3. \A r \in Requests : \A x \in pending'[r] : Before(x, rows \union pending[r])
      BY <3>1, <3>2 DEF LinksOK
    <3> QED
      BY <1>3, <3>2, <3>3 DEF LinksOK, Before
  <2>5. CASE ~InTx(w)
    <3>1. Before(new, rows')
      BY <1>1, <1>2, <2>3, <2>5 DEF Mine
    <3>2. rows' = rows \union {new} /\ pending' = pending
      BY <2>0, <2>5
    <3>3. \A x \in rows' : Before(x, rows')
      BY <1>2, <3>1, <3>2 DEF LinksOK
    <3>4. \A r \in Requests : \A x \in pending'[r] : Before(x, rows' \union pending'[r])
      BY <1>3, <3>2 DEF LinksOK
    <3> QED
      BY <3>3, <3>4 DEF LinksOK, Before
  <2> QED
    BY <2>4, <2>5
<1>5. ASSUME ~ \E w \in Calls : Create(w) PROVE LinksOK'
  <2>1. \A r \in Requests : \A x \in pending'[r] : Before(x, rows' \union pending'[r])
    BY <1>3, <1>5, NoNewRow DEF LinksOK
  <2>2. \A x \in rows' : Before(x, rows')
    <3>1. ASSUME NEW r \in Requests, Commit(r) PROVE \A x \in rows' : Before(x, rows')
      <4>1. rows' = rows \union pending[r]
        BY <3>1 DEF Commit
      <4> QED
        BY <1>2, <4>1 DEF LinksOK
    <3>2. CASE ~ \E r \in Requests : Commit(r)
      <4>1. rows' = rows
        BY <1>5, <3>2, ZenonT(30) DEF Next, Step, Log, Begin, Act, Settle, Write, Answer, Fail, Find, Lose,
                          Crash, Finished, vars
      <4> QED
        BY <1>2, <4>1 DEF LinksOK
    <3> QED
      BY <3>1, <3>2
  <2> QED
    BY <2>1, <2>2 DEF LinksOK, Before
<1> QED
  BY <1>4, <1>5

(* A transaction is opened by its first half, and a row written by Create. *)
LEMMA OpensByAct ==
  ASSUME Inv, [Next]_vars, NEW q \in Requests, Open(q)', ~Open(q)
  PROVE  pc[q] = "act"
<1>0. TypeOK
  BY DEF Inv
<1> USE <1>0 DEF TypeOK, Open
<1>1. ASSUME NEW r \in Requests, NEW to, pc' = [pc EXCEPT ![r] = to],
             pc[r] \in {"act", "settle", "write", "await"} \/ to \notin {"settle", "write", "await"}
      PROVE  pc[q] = "act"
  BY <1>1
<1>2. ASSUME NEW r \in Requests, Step(r) PROVE pc[q] = "act"
  BY <1>1, <1>2 DEF Step, Begin, Act, Settle, Write, Commit, Answer, Fail, Goto
<1>3. ASSUME Crash PROVE pc[q] = "act"
  BY <1>3 DEF Crash
<1>4. CASE UNCHANGED pc
  BY <1>4
<1> QED
  BY <1>2, <1>3, <1>4 DEF Next, Log, Find, Create, Lose, Finished, vars

LEMMA WrittenByCreate ==
  ASSUME Inv, [Next]_vars, NEW v \in Calls, call'[v].at = "written", call[v].at # "written"
  PROVE  Create(v)
<1>0. TypeOK
  BY DEF Inv
<1> USE <1>0, CallsAre DEF TypeOK, Events
<1>1. ASSUME NEW w \in Calls, NEW to, to.at # "written", call' = [call EXCEPT ![w] = to]
      PROVE  FALSE
  BY <1>1
<1>2. \A says : Started(says).at # "written"
  BY DEF Started, NoCall
<1>3. Lost.at # "written"
  BY DEF Lost, NoCall
<1>4. ASSUME NEW r \in Requests, Act(r) \/ Settle(r) \/ Write(r) PROVE call' = call
  BY <1>1, <1>2, <1>4 DEF Act, Settle, Write
<1>5. ASSUME NEW r \in Requests, Commit(r) PROVE FALSE
  BY <1>3, <1>5 DEF Commit
<1>6. ASSUME NEW r \in Requests, Fail(r) PROVE FALSE
  BY <1>2, <1>3, <1>6 DEF Fail
<1>7. ASSUME NEW w \in Calls, Find(w) PROVE FALSE
  BY <1>7 DEF Find
<1>8. ASSUME NEW w \in Calls, Lose(w) PROVE FALSE
  BY <1>1, <1>3, <1>8 DEF Lose
<1>9. ASSUME NEW w \in Calls, Create(w) PROVE w = v
  BY <1>9 DEF Create
<1>10. ASSUME Crash PROVE FALSE
  BY <1>3, <1>10 DEF Crash
<1>11. CASE UNCHANGED call
  BY <1>11
<1> QED
  BY <1>4, <1>5, <1>6, <1>7, <1>8, <1>9, <1>10, <1>11
  DEF Next, Step, Log, Begin, Answer, Finished, vars

LEMMA StoredStep ==
  ASSUME Inv, [Next]_vars
  PROVE  Stored'
<1>0. TypeOK /\ Fresh /\ Pending /\ Stored
  BY DEF Inv
<1> USE <1>0, CallsAre DEF TypeOK, Events
<1>1. input' = input
  BY ZenonT(30) DEF Next, Step, Log, Begin, Act, Settle, Write, Commit, Answer, Fail, Find, Create, Lose,
         Crash, Finished, vars
<1>2. \A q \in Requests : input[q].kind \notin Trust => pending'[q] = {}
  <2>1. CASE \E w \in Calls : Create(w)
    <3>0. PICK w \in Calls : Create(w)
      BY <2>1
    <3>1. PICK new \in Row :
           /\ new.by = w /\ new.tenant = input[w[1]].tenant
           /\ new.seq = drawn + 1 /\ new.prev = call[w].saw /\ new.says = call[w].says
           /\ drawn' = drawn + 1 /\ UNCHANGED <<done, pc, input>>
           /\ call' = [call EXCEPT ![w] = Written] /\ call[w].at = "create"
           /\ InTx(w) => rows' = rows /\ pending' = [pending EXCEPT ![w[1]] = @ \union {new}]
           /\ ~InTx(w) => rows' = rows \union {new} /\ pending' = pending
      BY <3>0, Inserted
    <3>2. CASE InTx(w)
      BY <3>1, <3>2 DEF Stored, InTx
    <3>3. CASE ~InTx(w)
      BY <3>1, <3>3 DEF Stored
    <3> QED
      BY <3>2, <3>3
  <2>2. CASE ~ \E w \in Calls : Create(w)
    BY <2>2, NoNewRow DEF Stored
  <2> QED
    BY <2>1, <2>2
<1>3. ASSUME NEW q \in Requests, call'[<<q, "action">>].at = "written",
             input[q].kind \in Trust => Open(q)'
      PROVE  \E x \in rows' \union pending'[q] : x.by = <<q, "action">>
  <2>1. CASE call[<<q, "action">>].at = "written"
    <3>1. CASE input[q].kind \in Trust => Open(q)
      <4>1. PICK x \in rows \union pending[q] : x.by = <<q, "action">>
        BY <2>1, <3>1 DEF Stored
      <4>2. CASE input[q].kind \in Trust
        BY <1>3, <4>1, <4>2, SeenStays
      <4>3. CASE input[q].kind \notin Trust
        BY <4>1, <4>3, SeenStays DEF Stored
      <4> QED
        BY <4>2, <4>3
    <3>2. CASE input[q].kind \in Trust /\ ~Open(q)
      <4>1. pc[q] = "act"
        BY <1>3, <3>2, OpensByAct
      <4> QED
        BY <2>1, <4>1 DEF Fresh, Ahead
    <3> QED
      BY <3>1, <3>2
  <2>2. CASE call[<<q, "action">>].at # "written"
    <3>1. Create(<<q, "action">>)
      BY <1>3, <2>2, WrittenByCreate
    <3> DEFINE w == <<q, "action">>
    <3>2. w \in Calls /\ w[1] = q
      OBVIOUS
    <3> HIDE DEF w
    <3>3. PICK new \in Row :
           /\ new.by = w /\ new.tenant = input[w[1]].tenant
           /\ new.seq = drawn + 1 /\ new.prev = call[w].saw /\ new.says = call[w].says
           /\ drawn' = drawn + 1 /\ UNCHANGED <<done, pc, input>>
           /\ call' = [call EXCEPT ![w] = Written] /\ call[w].at = "create"
           /\ InTx(w) => rows' = rows /\ pending' = [pending EXCEPT ![w[1]] = @ \union {new}]
           /\ ~InTx(w) => rows' = rows \union {new} /\ pending' = pending
      BY <3>1, <3>2, Inserted DEF w
    <3>4. new \in rows' \union pending'[q]
      BY <3>2, <3>3
    <3> QED
      BY <3>3, <3>4 DEF w
  <2> QED
    BY <2>1, <2>2
<1> QED
  BY <1>1, <1>2, <1>3 DEF Stored

LEMMA UniqueStep ==
  ASSUME Inv, [Next]_vars
  PROVE  Unique'
<1>0. TypeOK /\ RowsOK /\ Unique
  BY DEF Inv
<1> USE <1>0, CallsAre DEF TypeOK
<1>1. \A x \in Made : x \in Row /\ RowOK(x)
  BY DEF Made, RowsOK
<1>2. ASSUME NEW w \in Calls, Create(w) PROVE Unique'
  <2>0. PICK new \in Row :
           /\ new.by = w /\ new.tenant = input[w[1]].tenant
           /\ new.seq = drawn + 1 /\ new.prev = call[w].saw /\ new.says = call[w].says
           /\ drawn' = drawn + 1 /\ UNCHANGED <<done, pc, input>>
           /\ call' = [call EXCEPT ![w] = Written] /\ call[w].at = "create"
           /\ InTx(w) => rows' = rows /\ pending' = [pending EXCEPT ![w[1]] = @ \union {new}]
           /\ ~InTx(w) => rows' = rows \union {new} /\ pending' = pending
    BY <1>2, Inserted
  <2>1. \A x \in Made' : x \in Made \/ x = new
    BY <2>0 DEF Made
  <2>2. \A x \in Made : x.by # new.by /\ x.seq # new.seq
    BY <1>1, <2>0 DEF RowOK, Row
  <2> QED
    BY <2>1, <2>2 DEF Unique
<1>3. ASSUME ~ \E w \in Calls : Create(w) PROVE Unique'
  <2>1. Made' \subseteq Made
    BY <1>3, NoNewRow DEF Made
  <2> QED
    BY <2>1 DEF Unique
<1> QED
  BY <1>2, <1>3

LEMMA UndoneStep ==
  ASSUME Inv, [Next]_vars
  PROVE  Undone'
<1>0. TypeOK /\ Undone
  BY DEF Inv
<1> USE <1>0 DEF TypeOK, Undone
<1>1. ASSUME NEW r \in Requests, Begin(r) PROVE Undone'
  BY <1>1 DEF Begin, Goto
<1>2. ASSUME NEW r \in Requests, Act(r) PROVE Undone'
  BY <1>2 DEF Act, Goto
<1>3. ASSUME NEW r \in Requests, Commit(r) PROVE Undone'
  BY <1>3 DEF Commit, Goto
<1>4. ASSUME NEW r \in Requests, Settle(r) \/ Write(r) \/ Answer(r) \/ Fail(r) PROVE Undone'
  BY <1>4 DEF Settle, Write, Answer, Fail, Goto
<1>5. ASSUME Crash PROVE Undone'
  BY <1>5 DEF Crash
<1>6. CASE UNCHANGED <<pc, done>>
  BY <1>6
<1> QED
  BY <1>1, <1>2, <1>3, <1>4, <1>5, <1>6 DEF Next, Step, Log, Find, Create, Lose, Finished, vars

LEMMA DoneIsAuditedStep ==
  ASSUME Inv, [Next]_vars
  PROVE  DoneIsAudited'
<1>0. TypeOK /\ Stored /\ Undone /\ DoneIsAudited
  BY DEF Inv
<1> USE <1>0, CallsAre DEF TypeOK, Events
<1>1. input' = input
  BY DEF Next, Step, Log, Begin, Act, Settle, Write, Commit, Answer, Fail, Find, Create, Lose,
         Crash, Finished, vars
<1>2. rows \subseteq rows'
  BY SeenStays
<1>3. ASSUME NEW q \in Requests, input[q].kind \in Trust, q \in done', q \notin done
      PROVE  \E x \in rows' : x.by = <<q, "action">>
  <2>1. \A r \in Requests : Act(r) => q \in done
    BY <1>3 DEF Act
  <2>2. \A r \in Requests : Commit(r) => r = q
    BY <1>3 DEF Commit
  <2>3. Commit(q)
    BY <1>3, <2>1, <2>2
    DEF Next, Step, Log, Begin, Settle, Write, Answer, Fail, Find, Create, Lose, Crash, Finished, vars
  <2> QED
    BY <1>3, <2>3 DEF Commit, Stored, Open
<1>4. ASSUME NEW q \in Requests, input[q].kind = "CLOSE_PERIOD", q \in done', pc'[q] = "answered",
             pc[q] # "answered"
      PROVE  \E x \in rows' : x.by = <<q, "action">>
  <2>1. input[q].kind \notin Trust
    BY <1>4 DEF Trust
  <2>0. ASSUME NEW r \in Requests, Begin(r) PROVE pc'[q] # "answered"
    BY <1>4, <2>0 DEF Begin, Goto, Undone
  <2>2. \A r \in Requests : Settle(r) \/ Write(r) \/ Fail(r) => pc'[q] # "answered"
    BY <1>4 DEF Settle, Write, Fail, Goto
  <2>3. \A r \in Requests : Act(r) => pc'[q] # "answered"
    BY <1>4 DEF Act, Goto
  <2>4. \A r \in Requests : Commit(r) => pc'[q] # "answered"
    BY <1>4, <2>1 DEF Commit, Goto
  <2>5. \A r \in Requests : Answer(r) => r = q
    BY <1>4 DEF Answer, Goto
  <2>6. Answer(q)
    BY <1>4, <2>0, <2>2, <2>3, <2>4, <2>5
    DEF Next, Step, Log, Find, Create, Lose, Crash, Finished, vars
  <2> QED
    BY <1>2, <2>1, <2>6 DEF Answer, Stored
<1>5. \A q \in done' : pc[q] = "answered" => q \in done
  BY ZenonT(30) DEF Next, Step, Log, Begin, Act, Settle, Write, Commit, Answer, Fail, Find, Create, Lose, Crash,
         Finished, vars
<1>6. done' \subseteq Requests
  BY TypeStep DEF TypeOK
<1> QED
  BY <1>1, <1>2, <1>3, <1>4, <1>5, <1>6 DEF DoneIsAudited

LEMMA InitInv == Init => Inv
<1> SUFFICES ASSUME Init PROVE Inv
  OBVIOUS
<1> USE CallsAre, WorkloadsAssumption DEF Init
<1>1. TypeOK
  BY DEF TypeOK, Call, NoCall, Resting
<1>2. Fresh /\ Active /\ SawOK
  BY DEF Fresh, Active, SawOK, NoCall, Running
<1>3. Pending /\ RowsOK /\ LinksOK
  BY DEF Pending, RowsOK, LinksOK
<1>4. Truthful /\ Stored
  BY DEF Truthful, Stored, NoCall, Running, Open, Events
<1>5. Unique /\ Undone /\ DoneIsAudited
  BY DEF Unique, Made, Undone, DoneIsAudited
<1> QED
  BY <1>1, <1>2, <1>3, <1>4, <1>5 DEF Inv

LEMMA Invariance == Spec => []Inv
<1>1. Inv /\ [Next]_vars => Inv'
  BY TypeStep, FreshStep, ActiveStep, PendingStep, RowsOKStep, SawOKStep, LinksOKStep, TruthfulStep,
     StoredStep, UniqueStep, UndoneStep, DoneIsAuditedStep DEF Inv
<1> QED
  BY <1>1, InitInv, PTL DEF Spec

-------------------------------------------------------------------------------
(* The shapes of the rows, the calls and the requests. *)
THEOREM TypeCorrect == Spec => []TypeOK
<1>1. Inv => TypeOK
  BY DEF Inv
<1> QED
  BY <1>1, Invariance, PTL

(* Every row of the trail can be traced back to the first, however the     *)
(* calls of logSecurityEvent overlap and the transactions end.             *)
THEOREM LinksLeadBack == Spec => []LinksAreBackward
<1>1. Inv => LinksAreBackward
  BY DEF Inv, LinksOK, Before, LinksAreBackward
<1> QED
  BY <1>1, Invariance, PTL

(* No two rows of the trail share a call or a sequence number. *)
THEOREM OrderTotal == Spec => []OrderIsTotal
<1>1. Inv => OrderIsTotal
  BY DEF Inv, Unique, Made, OrderIsTotal
<1> QED
  BY <1>1, Invariance, PTL

(* No row that says something was done outlives a rollback of it. *)
THEOREM AuditTruthful == Spec => []AuditedHappened
<1>1. Inv => AuditedHappened
  BY DEF Inv, Truthful, AuditedHappened
<1> QED
  BY <1>1, Invariance, PTL

(* Money that moved in trust has its row, and the closing of a period has  *)
(* it when who closed the period is answered.                              *)
THEOREM DoneAudited == Spec => []DoneIsAudited
<1>1. Inv => DoneIsAudited
  BY DEF Inv
<1> QED
  BY <1>1, Invariance, PTL

-------------------------------------------------------------------------------
(***************************************************************************)
(* The trail as a log.  The rows of a tenant in the order of the sequence: *)
(* the k-th is the one with k rows up to it.                               *)
(***************************************************************************)
Ordered(S) ==
  /\ IsFiniteSet(S)
  /\ \A x \in S : x.seq \in Nat
  /\ \A x, y \in S : x.seq = y.seq => x = y
UpTo(x, S) == {y \in S : y.seq <= x.seq}
Rank(x, S) == Cardinality(UpTo(x, S))
Nth(S, k) == CHOOSE x \in S : Rank(x, S) = k

LEMMA RankType ==
  ASSUME NEW S, Ordered(S), NEW x \in S
  PROVE  /\ Cardinality(S) \in Nat
         /\ Rank(x, S) \in 1..Cardinality(S)
         /\ IsFiniteSet(UpTo(x, S))
<1>1. UpTo(x, S) \in SUBSET S /\ x \in UpTo(x, S)
  BY DEF Ordered, UpTo
<1>2. IsFiniteSet(UpTo(x, S)) /\ Cardinality(UpTo(x, S)) <= Cardinality(S)
  BY <1>1, FS_Subset DEF Ordered
<1>3. Cardinality(S) \in Nat /\ Cardinality(UpTo(x, S)) \in Nat
  BY <1>2, FS_CardinalityType DEF Ordered
<1>4. Cardinality(UpTo(x, S)) # 0
  BY <1>1, <1>2, FS_EmptySet
<1>. QED  BY <1>2, <1>3, <1>4 DEF Rank

(* An earlier row has a smaller rank. *)
LEMMA RankGrows ==
  ASSUME NEW S, Ordered(S), NEW x \in S, NEW y \in S, x.seq < y.seq
  PROVE  Rank(x, S) < Rank(y, S)
<1>1. UpTo(x, S) \in SUBSET UpTo(y, S) /\ y \in UpTo(y, S) /\ y \notin UpTo(x, S)
  BY DEF Ordered, UpTo
<1>2. IsFiniteSet(UpTo(y, S)) /\ Rank(x, S) \in Nat /\ Rank(y, S) \in Nat
  BY RankType
<1>3. Rank(x, S) <= Rank(y, S) /\ Rank(x, S) # Rank(y, S)
  BY <1>1, <1>2, FS_Subset DEF Rank
<1>. QED  BY <1>2, <1>3

(* Every rank is taken, and by one row. *)
LEMMA RankTaken ==
  ASSUME NEW S, Ordered(S)
  PROVE  /\ \A x, y \in S : Rank(x, S) = Rank(y, S) => x = y
         /\ \A k \in 1..Cardinality(S) : \E x \in S : Rank(x, S) = k
<1>1. \A x, y \in S : Rank(x, S) = Rank(y, S) => x = y
  <2>1. ASSUME NEW x \in S, NEW y \in S, Rank(x, S) = Rank(y, S), x # y PROVE FALSE
    <3>1. x.seq \in Nat /\ y.seq \in Nat /\ x.seq # y.seq
      BY <2>1 DEF Ordered
    <3>2. Rank(x, S) \in Nat /\ Rank(y, S) \in Nat
      BY RankType
    <3>3. x.seq < y.seq => Rank(x, S) < Rank(y, S)
      BY RankGrows
    <3>4. y.seq < x.seq => Rank(y, S) < Rank(x, S)
      BY RankGrows
    <3>. QED  BY <2>1, <3>1, <3>2, <3>3, <3>4
  <2>. QED  BY <2>1
<1>. DEFINE f == [x \in S |-> Rank(x, S)]
            T == 1..Cardinality(S)
<1>2. f \in [S -> T]
  BY RankType
<1>3. f \in Injection(S, T)
  BY <1>1, <1>2 DEF Injection, IsInjective
<1>4. Cardinality(S) \in Nat
  BY FS_CardinalityType DEF Ordered
<1>5. IsFiniteSet(T) /\ Cardinality(T) = Cardinality(S)
  BY <1>4, FS_Interval
<1>6. f \in Surjection(S, T)
  <2>. HIDE DEF f, T
  <2>. QED  BY <1>3, <1>5, FS_Injection
<1>7. \A k \in T : \E x \in S : f[x] = k
  BY <1>6 DEF Surjection
<1>. QED  BY <1>1, <1>7

LEMMA NthIs ==
  ASSUME NEW S, Ordered(S)
  PROVE  /\ \A x \in S : Nth(S, Rank(x, S)) = x
         /\ \A k \in 1..Cardinality(S) : Nth(S, k) \in S /\ Rank(Nth(S, k), S) = k
<1>1. ASSUME NEW k \in 1..Cardinality(S)
      PROVE  Nth(S, k) \in S /\ Rank(Nth(S, k), S) = k
  <2>1. \E x \in S : Rank(x, S) = k
    BY RankTaken
  <2>. QED  BY <2>1 DEF Nth
<1>2. ASSUME NEW x \in S PROVE Nth(S, Rank(x, S)) = x
  <2>1. Rank(x, S) \in 1..Cardinality(S)
    BY RankType
  <2>. DEFINE k == Rank(x, S)
  <2>2. Nth(S, k) \in S /\ Rank(Nth(S, k), S) = Rank(x, S)
    BY <1>1, <2>1
  <2>. QED  BY <2>2, RankTaken
<1>. QED  BY <1>1, <1>2

(* Rows that come after all others change no rank. *)
LEMMA NthStays ==
  ASSUME NEW S, NEW T, Ordered(T), S \subseteq T, \A x \in S, y \in T \ S : x.seq < y.seq
  PROVE  /\ Ordered(S)
         /\ Cardinality(S) <= Cardinality(T)
         /\ \A k \in 1..Cardinality(S) : Nth(T, k) = Nth(S, k)
         /\ S # T => Cardinality(S) # Cardinality(T)
<1>1. IsFiniteSet(S) /\ Cardinality(S) <= Cardinality(T) /\ (S # T => Cardinality(S) # Cardinality(T))
  BY FS_Subset DEF Ordered
<1>2. Ordered(S)
  BY <1>1 DEF Ordered
<1>3. ASSUME NEW k \in 1..Cardinality(S) PROVE Nth(T, k) = Nth(S, k)
  <2>. DEFINE x == Nth(S, k)
  <2>1. x \in S /\ Rank(x, S) = k
    BY <1>2, NthIs
  <2>. HIDE DEF x
  <2>2. UpTo(x, T) = UpTo(x, S)
    <3>1. \A y \in T \ S : ~(y.seq <= x.seq)
      BY <2>1 DEF Ordered
    <3>. QED  BY <3>1 DEF UpTo
  <2>3. Rank(x, T) = k
    BY <2>1, <2>2 DEF Rank
  <2>4. Nth(T, Rank(x, T)) = x
    BY <2>1, NthIs
  <2>. QED  BY <2>3, <2>4 DEF x
<1>. QED  BY <1>1, <1>2, <1>3

-------------------------------------------------------------------------------
(* Each row names the hash of the one before it. *)
Follows(x, S) ==
  \/ /\ x.prev = Genesis
     /\ \A y \in S : x.seq <= y.seq
  \/ \E y \in S : /\ x.prev = y.by
                  /\ y.seq < x.seq
                  /\ \A z \in S : z.seq < x.seq => z.seq <= y.seq
Chain(S) == \A x \in S : Follows(x, S)
Last(h, S) ==
  \/ S = {} /\ h = Genesis
  \/ \E y \in S : h = y.by /\ \A z \in S : z.seq <= y.seq

LEMMA ChainGrows ==
  ASSUME NEW S, Chain(S), \A y \in S : y.seq \in Nat,
         NEW x, x.seq \in Nat, \A y \in S : y.seq < x.seq, Last(x.prev, S)
  PROVE  Chain(S \union {x})
<1>1. ASSUME NEW z \in S PROVE Follows(z, S \union {x})
  <2>1. z.seq < x.seq /\ ~(x.seq < z.seq) /\ z.seq <= x.seq
    OBVIOUS
  <2>2. CASE z.prev = Genesis /\ \A y \in S : z.seq <= y.seq
    BY <2>1, <2>2 DEF Follows
  <2>3. CASE \E y \in S : /\ z.prev = y.by
                          /\ y.seq < z.seq
                          /\ \A u \in S : u.seq < z.seq => u.seq <= y.seq
    BY <2>1, <2>3 DEF Follows
  <2>. QED  BY <2>2, <2>3 DEF Chain, Follows
<1>2. Follows(x, S \union {x})
  <2>1. CASE S = {} /\ x.prev = Genesis
    BY <2>1 DEF Follows
  <2>2. CASE \E y \in S : x.prev = y.by /\ \A z \in S : z.seq <= y.seq
    <3>1. PICK y \in S : x.prev = y.by /\ \A z \in S : z.seq <= y.seq
      BY <2>2
    <3>2. y.seq < x.seq /\ \A z \in S \union {x} : z.seq < x.seq => z.seq <= y.seq
      BY <3>1
    <3>. QED  BY <3>1, <3>2 DEF Follows
  <2>. QED  BY <2>1, <2>2 DEF Last
<1>. QED  BY <1>1, <1>2 DEF Chain

(* What a chain says of the row of a rank. *)
LEMMA ChainLinks ==
  ASSUME NEW S, Ordered(S), Chain(S), NEW k \in 1..Cardinality(S)
  PROVE  Nth(S, k).prev = IF k = 1 THEN Genesis ELSE Nth(S, k - 1).by
<1>. DEFINE x == Nth(S, k)
<1>1. x \in S /\ Rank(x, S) = k
  BY NthIs
<1>. HIDE DEF x
<1>2. x.seq \in Nat /\ \A y \in S : y.seq \in Nat
  BY <1>1 DEF Ordered
<1>3. CASE x.prev = Genesis /\ \A y \in S : x.seq <= y.seq
  <2>1. UpTo(x, S) = {x}
    <3>1. \A y \in S : y.seq <= x.seq => y = x
      BY <1>1, <1>2, <1>3 DEF Ordered
    <3>. QED  BY <1>1, <1>2, <3>1 DEF UpTo
  <2>2. k = 1
    BY <1>1, <2>1, FS_Singleton DEF Rank
  <2>. QED  BY <1>3, <2>2 DEF x
<1>4. CASE \E y \in S : /\ x.prev = y.by
                        /\ y.seq < x.seq
                        /\ \A z \in S : z.seq < x.seq => z.seq <= y.seq
  <2>1. PICK y \in S : /\ x.prev = y.by
                       /\ y.seq < x.seq
                       /\ \A z \in S : z.seq < x.seq => z.seq <= y.seq
    BY <1>4
  <2>2. UpTo(x, S) = UpTo(y, S) \union {x} /\ x \notin UpTo(y, S)
    <3>1. ASSUME NEW z \in S, z.seq <= x.seq, z # x PROVE z.seq <= y.seq
      <4>1. z.seq # x.seq
        BY <1>1, <3>1 DEF Ordered
      <4>. QED  BY <1>2, <2>1, <3>1, <4>1
    <3>2. \A z \in S : z.seq <= y.seq => z.seq <= x.seq
      BY <1>2, <2>1
    <3>3. x.seq <= x.seq /\ ~(x.seq <= y.seq)
      BY <1>2, <2>1
    <3>. QED  BY <1>1, <3>1, <3>2, <3>3 DEF UpTo
  <2>3. Rank(x, S) = Rank(y, S) + 1
    BY <2>2, RankType, FS_AddElement DEF Rank
  <2>4. Rank(y, S) \in 1..Cardinality(S) /\ Cardinality(S) \in Nat
    BY RankType
  <2>5. k # 1 /\ k - 1 = Rank(y, S)
    BY <1>1, <2>3, <2>4
  <2>6. Nth(S, Rank(y, S)) = y
    BY NthIs
  <2>. QED  BY <2>1, <2>5, <2>6 DEF x
<1>. QED  BY <1>1, <1>3, <1>4 DEF Chain, Follows

-------------------------------------------------------------------------------
(* The log of a set of rows. *)
LogOf(S) == [k \in 1..Cardinality(S) |-> [hash |-> Nth(S, k).by, prev |-> Nth(S, k).prev]]
OfTenant(t, S) == {x \in S : x.tenant = t}

LEMMA HistoryIs == \A t : History(t) = LogOf(OfTenant(t, rows))
BY DEF History, LogOf, Nth, Rank, UpTo, OfTenant

LEMMA LogLength ==
  ASSUME NEW S, Ordered(S)
  PROVE  /\ Cardinality(S) \in Nat
         /\ Len(LogOf(S)) = Cardinality(S)
<1>1. Cardinality(S) \in Nat
  BY FS_CardinalityType DEF Ordered
<1>2. Len(LogOf(S)) = Cardinality(S)
  BY <1>1 DEF LogOf
<1>. QED  BY <1>1, <1>2

LEMMA LogLinked ==
  ASSUME NEW S, Ordered(S), Chain(S)
  PROVE  Chained!Linked(LogOf(S))
<1>1. Cardinality(S) \in Nat /\ Len(LogOf(S)) = Cardinality(S)
  BY LogLength
<1>2. ASSUME NEW k \in 1..Cardinality(S)
      PROVE  LogOf(S)[k].prev = IF k = 1 THEN Genesis ELSE LogOf(S)[k - 1].hash
  <2>1. Nth(S, k).prev = IF k = 1 THEN Genesis ELSE Nth(S, k - 1).by
    BY ChainLinks
  <2>2. k # 1 => k - 1 \in 1..Cardinality(S)
    BY <1>1
  <2>. QED  BY <2>1, <2>2 DEF LogOf
<1>. QED  BY <1>1, <1>2 DEF Chained!Linked

LEMMA LogExtends ==
  ASSUME NEW S, NEW T, Ordered(T), S \subseteq T, S # T, \A x \in S, y \in T \ S : x.seq < y.seq
  PROVE  Chained!IsStrictPrefix(LogOf(S), LogOf(T))
<1>1. /\ Ordered(S)
      /\ Cardinality(S) <= Cardinality(T)
      /\ Cardinality(S) # Cardinality(T)
      /\ \A k \in 1..Cardinality(S) : Nth(T, k) = Nth(S, k)
  BY NthStays
<1>. DEFINE s == LogOf(S)
            u == LogOf(T)
            n == Cardinality(S)
<1>2. /\ Len(s) = n /\ n \in Nat
      /\ Len(u) = Cardinality(T) /\ Cardinality(T) \in Nat
  BY <1>1, LogLength
<1>3. \A k \in 1..n : s[k] = u[k]
  BY <1>1, <1>2 DEF LogOf
<1>4. SubSeq(s, 1, n) = SubSeq(u, 1, n)
  <2>1. SubSeq(s, 1, n) = [k \in 1..n |-> s[k]] /\ SubSeq(u, 1, n) = [k \in 1..n |-> u[k]]
    <3>. HIDE DEF s, u, n
    <3>. QED BY <1>2
  <2>. HIDE DEF s, u, n
  <2>. QED  BY <1>3, <2>1
<1>5. s # u
  BY <1>1, <1>2
<1>. HIDE DEF s, u
<1>6. Len(s) <= Len(u) /\ SubSeq(s, 1, Len(s)) = SubSeq(u, 1, Len(s)) /\ s # u
  BY <1>1, <1>2, <1>4, <1>5
<1>7. Chained!IsStrictPrefix(s, u)
  BY <1>6 DEF Chained!IsStrictPrefix, Chained!IsPrefix
<1>. QED  BY <1>7 DEF s, u

-------------------------------------------------------------------------------
(***************************************************************************)
(* What a request of an orderly tenant may rely on: it is the only one of  *)
(* its tenant at work (OneAtWork), so that the row its call saw is still   *)
(* the last when the call inserts its own (SawLast), and rows that are     *)
(* pending continue the chain of the committed ones (TenantChains).        *)
(***************************************************************************)
Finite == IsFiniteSet(rows) /\ \A r \in Requests : IsFiniteSet(pending[r])

OneAtWork ==
  \A q, r \in Requests :
    /\ input[q].tenant = input[r].tenant
    /\ input[r].tenant \in Orderly
    /\ ~AtRest(q)
    /\ ~AtRest(r)
    => q = r

TenantChains ==
  \A t \in Orderly :
    /\ Chain(OfTenant(t, rows))
    /\ \A r \in Requests :
         input[r].tenant = t =>
           /\ Chain(OfTenant(t, rows \union pending[r]))
           /\ \A x \in pending[r], y \in OfTenant(t, rows) : y.seq < x.seq

SawLast ==
  \A w \in Calls :
    input[w[1]].tenant \in Orderly /\ call[w].at = "create" => Last(call[w].saw, Mine(w))

LogInv == Finite /\ OneAtWork /\ TenantChains /\ SawLast

(* The hypothesis: a tenant whose requests wait for each other has one     *)
(* call of logSecurityEvent under way.  Its users alone do not see to it:  *)
(* a request can start two.                                                *)
CallsTakeTurns ==
  \A v, w \in Calls :
    /\ input[v[1]].tenant = input[w[1]].tenant
    /\ input[v[1]].tenant \in Orderly
    /\ call[v].at \in Running
    /\ call[w].at \in Running
    => v = w

LEMMA InputStays ==
  ASSUME [Next]_vars
  PROVE  input' = input /\ Orderly' = Orderly
<1>1. input' = input
  BY ZenonT(30) DEF Next, Step, Log, Begin, Act, Settle, Write, Commit, Answer, Fail, Find, Create, Lose,
         Crash, Finished, vars
<1>. QED  BY <1>1 DEF Orderly

LEMMA CallsOnFail ==
  ASSUME NEW r \in Requests, Fail(r)
  PROVE  \E status \in {422, 500} :
           call' = [w \in Calls |->
             CASE w = <<r, "failure">> /\ status = 500 -> Started("FAILED")
               [] w = <<r, "journal">> /\ pc[r] = "act" /\ input[r].kind = "POST_JOURNAL"
                    -> Started("FAILED")
               [] Left(w, r) -> Lost
               [] OTHER -> call[w]]
BY DEF Fail

(* Who is at work has begun. *)
LEMMA RestStep ==
  ASSUME Inv, [Next]_vars, NEW q \in Requests, AtRest(q), ~AtRest(q)'
  PROVE  Begin(q)
<1>0. TypeOK
  BY DEF Inv
<1>. USE <1>0, CallsAre DEF TypeOK, AtRest, Events, Resting
<1>1. ASSUME NEW r \in Requests, Begin(r), r # q PROVE FALSE
  BY <1>1 DEF Begin, Goto
<1>2. ASSUME NEW r \in Requests, Act(r) PROVE FALSE
  <2>1. r # q /\ pc'[q] = pc[q]
    BY <1>2 DEF Act, Goto
  <2>2. \A e \in Events : call'[<<q, e>>] = call[<<q, e>>]
    BY <1>2, <2>1 DEF Act
  <2>. QED  BY <2>1, <2>2
<1>3. ASSUME NEW r \in Requests, Settle(r) PROVE FALSE
  <2>1. r # q /\ pc'[q] = pc[q]
    BY <1>3 DEF Settle, Goto
  <2>2. \A e \in Events : call'[<<q, e>>] = call[<<q, e>>]
    BY <1>3, <2>1 DEF Settle
  <2>. QED  BY <2>1, <2>2
<1>4. ASSUME NEW r \in Requests, Write(r) PROVE FALSE
  <2>1. r # q /\ pc'[q] = pc[q]
    BY <1>4 DEF Write, Goto
  <2>2. \A e \in Events : call'[<<q, e>>] = call[<<q, e>>]
    BY <1>4, <2>1 DEF Write
  <2>. QED  BY <2>1, <2>2
<1>5. ASSUME NEW r \in Requests, Commit(r) PROVE FALSE
  <2>1. r # q /\ pc'[q] = pc[q]
    BY <1>5 DEF Commit, Goto
  <2>2. \A e \in Events : call'[<<q, e>>] = call[<<q, e>>]
    BY <1>5, <2>1 DEF Commit, Left
  <2>. QED  BY <2>1, <2>2
<1>6. ASSUME NEW r \in Requests, Answer(r) PROVE FALSE
  BY <1>6 DEF Answer, Goto
<1>7. ASSUME NEW r \in Requests, Fail(r) PROVE FALSE
  <2>1. r # q /\ pc'[q] = pc[q]
    <3>1. pc' = [pc EXCEPT ![r] = "failed"] /\ pc[r] \in {"act", "settle", "write", "await"}
      BY <1>7, Zenon DEF Fail, Goto
    <3>. QED  BY <3>1
  <2>2. \A e \in Events : call'[<<q, e>>] = call[<<q, e>>]
    <3>1. PICK status \in {422, 500} :
            call' = [w \in Calls |->
              CASE w = <<r, "failure">> /\ status = 500 -> Started("FAILED")
                [] w = <<r, "journal">> /\ pc[r] = "act" /\ input[r].kind = "POST_JOURNAL"
                     -> Started("FAILED")
                [] Left(w, r) -> Lost
                [] OTHER -> call[w]]
      BY <1>7, CallsOnFail
    <3>2. ASSUME NEW w \in Calls, w[1] # r PROVE call'[w] = call[w]
      <4>1. w # <<r, "failure">> /\ w # <<r, "journal">> /\ ~Left(w, r)
        BY <3>2 DEF Left
      <4>. QED  BY <3>1, <4>1, Zenon
    <3>. QED  BY <2>1, <3>2
  <2>. QED  BY <2>1, <2>2
<1>8. ASSUME NEW w \in Calls, Find(w) \/ Create(w) \/ Lose(w) PROVE FALSE
  <2>1. call[w].at \notin Resting /\ pc' = pc
    BY <1>8 DEF Find, Create, Lose
  <2>2. w[1] # q
    BY <2>1
  <2>3. \A e \in Events : call'[<<q, e>>] = call[<<q, e>>]
    <3>1. \A e \in Events : <<q, e>> # w
      BY <2>2
    <3>2. \A v \in Calls : v # w => call'[v] = call[v]
      BY <1>8 DEF Find, Create, Lose
    <3>. QED  BY <3>1, <3>2
  <2>. QED  BY <2>1, <2>3
<1>9. ASSUME Crash PROVE FALSE
  <2>1. pc'[q] \in {"idle", "answered", "failed"}
    BY <1>9 DEF Crash
  <2>2. \A e \in Events : call'[<<q, e>>].at \in {"none", "written", "lost"}
    BY <1>9 DEF Crash, Lost, NoCall
  <2>. QED  BY <2>1, <2>2
<1>10. ASSUME UNCHANGED vars PROVE FALSE
  BY <1>10 DEF vars
<1>. QED
  BY <1>1, <1>2, <1>3, <1>4, <1>5, <1>6, <1>7, <1>8, <1>9, <1>10 DEF Next, Step, Log, Finished

LEMMA OneAtWorkStep ==
  ASSUME Inv, OneAtWork, [Next]_vars
  PROVE  OneAtWork'
<1>1. input' = input /\ Orderly' = Orderly
  BY InputStays
<1>2. ASSUME NEW q \in Requests, NEW r \in Requests, q # r, AtRest(q), ~AtRest(q)', ~AtRest(r)',
             input[q].tenant = input[r].tenant, input[q].tenant \in Orderly
      PROVE  FALSE
  <2>1. Begin(q)
    BY <1>2, RestStep
  <2>2. AtRest(r)
    BY <1>2, <2>1 DEF Begin, Orderly
  <2>3. Begin(r)
    BY <1>2, <2>2, RestStep
  <2>. QED  BY <1>2, <2>1, <2>3 DEF Begin, Goto, Inv, TypeOK
<1>. QED  BY <1>1, <1>2 DEF OneAtWork

(* How a step changes the rows, those of the others left alone. *)
Drops ==
  /\ rows' = rows
  /\ \A r \in Requests : pending'[r] \in {{}, pending[r]}

LEMMA RowSteps ==
  ASSUME Inv, [Next]_vars
  PROVE  \/ \E w \in Calls : Create(w)
         \/ \E r \in Requests : Commit(r)
         \/ Drops
<1>. USE DEF Inv, TypeOK, Drops
<1>1. ASSUME NEW r \in Requests, Fail(r) PROVE Drops
  <2>1. rows' = rows /\ pending' = [pending EXCEPT ![r] = {}]
    BY <1>1 DEF Fail
  <2>. QED  BY <2>1
<1>2. ASSUME Crash PROVE Drops
  <2>1. rows' = rows /\ pending' = [r \in Requests |-> {}]
    BY <1>2 DEF Crash
  <2>. QED  BY <2>1
<1>3. CASE UNCHANGED <<rows, pending>>
  BY <1>3
<1>. QED
  BY <1>1, <1>2, <1>3
  DEF Next, Step, Log, Begin, Act, Settle, Write, Answer, Find, Lose, Finished, vars

LEMMA FiniteStep ==
  ASSUME Inv, Finite, [Next]_vars
  PROVE  Finite'
<1>1. ASSUME NEW w \in Calls, Create(w) PROVE Finite'
  <2>1. PICK new \in Row :
          /\ InTx(w) => rows' = rows /\ pending' = [pending EXCEPT ![w[1]] = @ \union {new}]
          /\ ~InTx(w) => rows' = rows \union {new} /\ pending' = pending
    BY <1>1, Inserted
  <2>2. IsFiniteSet(rows \union {new}) /\ \A r \in Requests : IsFiniteSet(pending[r] \union {new})
    BY FS_AddElement DEF Finite
  <2>. QED  BY <2>1, <2>2 DEF Finite, Inv, TypeOK
<1>2. ASSUME NEW r \in Requests, Commit(r) PROVE Finite'
  <2>1. rows' = rows \union pending[r] /\ pending' = [pending EXCEPT ![r] = {}]
    BY <1>2 DEF Commit
  <2>2. IsFiniteSet(rows \union pending[r]) /\ IsFiniteSet({})
    BY FS_Union, FS_EmptySet DEF Finite
  <2>. QED  BY <2>1, <2>2 DEF Finite, Inv, TypeOK
<1>3. ASSUME Drops PROVE Finite'
  BY <1>3, FS_EmptySet DEF Drops, Finite
<1>. QED  BY <1>1, <1>2, <1>3, RowSteps

(* Pending rows are of the tenant of their request, and come with a        *)
(* request that is at work.                                                *)
LEMMA PendingIs ==
  ASSUME Inv, NEW r \in Requests, NEW x \in pending[r]
  PROVE  x \in Row /\ x.tenant = input[r].tenant /\ x.seq \in Nat /\ x.seq <= drawn
         /\ Open(r) /\ ~AtRest(r)
<1>1. x \in Row /\ x.seq \in Nat
  BY DEF Inv, TypeOK, Row
<1>2. x.by[1] = r /\ Open(r) /\ x.tenant = input[r].tenant /\ x.seq <= drawn
  BY DEF Inv, Pending, RowsOK, RowOK
<1>. QED  BY <1>1, <1>2 DEF Open, AtRest

LEMMA RowsAre ==
  ASSUME Inv, NEW x \in rows
  PROVE  x.seq \in Nat /\ x.seq <= drawn /\ drawn \in Nat
BY DEF Inv, TypeOK, Row, RowsOK, RowOK

(* A call outside of a transaction runs when its request has none open.    *)
LEMMA NothingPending ==
  ASSUME Inv, OneAtWork, NEW w \in Calls, call[w].at \in Running, ~InTx(w),
         input[w[1]].tenant \in Orderly,
         NEW r \in Requests, input[r].tenant = input[w[1]].tenant
  PROVE  pending[r] = {}
<1>1. w[1] \in Requests /\ w[2] \in Events /\ w = <<w[1], w[2]>>
  BY CallsAre
<1>2. ~AtRest(w[1])
  BY <1>1 DEF AtRest, Running, Resting
<1>3. ASSUME NEW x \in pending[r] PROVE FALSE
  <2>1. Open(r) /\ ~AtRest(r)
    BY PendingIs
  <2>2. r = w[1]
    BY <1>1, <1>2, <2>1 DEF OneAtWork
  <2>3. input[r].kind \in Trust
    BY <1>3 DEF Inv, Stored
  <2>4. w[2] = "failure"
    BY <2>2, <2>3 DEF InTx
  <2>5. Ahead(w)
    BY <2>1, <2>2, <2>4 DEF Open, Ahead
  <2>. QED  BY <2>5 DEF Inv, Fresh, Running
<1>. QED  BY <1>3

(* What a call of an orderly tenant sees. *)
LEMMA MineIs ==
  ASSUME NEW w \in Calls
  PROVE  /\ InTx(w) => Mine(w) = OfTenant(input[w[1]].tenant, rows \union pending[w[1]])
         /\ ~InTx(w) => Mine(w) = OfTenant(input[w[1]].tenant, rows)
BY DEF Mine, OfTenant

LEMMA TenantChainsStep ==
  ASSUME Inv, LogInv, [Next]_vars
  PROVE  TenantChains'
<1>0. TypeOK /\ OneAtWork /\ TenantChains /\ SawLast /\ input' = input /\ Orderly' = Orderly
  BY InputStays DEF Inv, LogInv
<1>. SUFFICES ASSUME NEW t \in Orderly
              PROVE  /\ Chain(OfTenant(t, rows'))
                     /\ \A r \in Requests :
                          input[r].tenant = t =>
                            /\ Chain(OfTenant(t, rows' \union pending'[r]))
                            /\ \A x \in pending'[r], y \in OfTenant(t, rows') : y.seq < x.seq
  BY <1>0 DEF TenantChains
<1>. DEFINE mine == OfTenant(t, rows)
            Of(r) == OfTenant(t, rows \union pending[r])
<1>1. /\ Chain(mine)
      /\ \A r \in Requests :
           input[r].tenant = t =>
             Chain(Of(r)) /\ \A x \in pending[r], y \in mine : y.seq < x.seq
  BY <1>0 DEF TenantChains
<1>2. CASE Drops
  <2>1. rows' = rows /\ \A r \in Requests : pending'[r] = {} \/ pending'[r] = pending[r]
    BY <1>2 DEF Drops
  <2>2. rows \union {} = rows
    OBVIOUS
  <2>. QED  BY <1>1, <2>1, <2>2
<1>3. ASSUME NEW q \in Requests, Commit(q)
      PROVE  /\ Chain(OfTenant(t, rows'))
             /\ \A r \in Requests :
                  input[r].tenant = t =>
                    /\ Chain(OfTenant(t, rows' \union pending'[r]))
                    /\ \A x \in pending'[r], y \in OfTenant(t, rows') : y.seq < x.seq
  <2>1. /\ rows' = rows \union pending[q]
        /\ pending'[q] = {} /\ \A r \in Requests \ {q} : pending'[r] = pending[r]
        /\ ~AtRest(q)
    BY <1>0, <1>3 DEF Commit, TypeOK, AtRest
  <2>2. CASE input[q].tenant = t
    <3>1. ASSUME NEW r \in Requests, input[r].tenant = t PROVE pending'[r] = {}
      <4>1. CASE r = q
        BY <2>1, <4>1
      <4>2. CASE r # q
        <5>1. AtRest(r)
          BY <1>0, <2>1, <2>2, <3>1, <4>2 DEF OneAtWork
        <5>2. pending[r] = {}
          BY <5>1, PendingIs
        <5>. QED  BY <2>1, <4>2, <5>2
      <4>. QED  BY <4>1, <4>2
    <3>2. Chain(OfTenant(t, rows'))
      BY <1>1, <2>1, <2>2
    <3>3. rows' \union {} = rows'
      OBVIOUS
    <3>. QED  BY <3>1, <3>2, <3>3
  <2>3. CASE input[q].tenant # t
    <3>1. OfTenant(t, pending[q]) = {}
      BY <2>3, PendingIs DEF OfTenant
    <3>2. \A S : OfTenant(t, rows' \union S) = OfTenant(t, rows \union S)
      BY <2>1, <3>1 DEF OfTenant
    <3>3. OfTenant(t, rows') = mine
      BY <2>1, <3>1 DEF OfTenant
    <3>. QED  BY <1>1, <2>1, <2>3, <3>2, <3>3
  <2>. QED  BY <2>2, <2>3
<1>4. ASSUME NEW w \in Calls, Create(w)
      PROVE  /\ Chain(OfTenant(t, rows'))
             /\ \A r \in Requests :
                  input[r].tenant = t =>
                    /\ Chain(OfTenant(t, rows' \union pending'[r]))
                    /\ \A x \in pending'[r], y \in OfTenant(t, rows') : y.seq < x.seq
  <2>1. PICK new \in Row :
          /\ new.tenant = input[w[1]].tenant
          /\ new.seq = drawn + 1 /\ new.prev = call[w].saw
          /\ call[w].at = "create"
          /\ InTx(w) => rows' = rows /\ pending' = [pending EXCEPT ![w[1]] = @ \union {new}]
          /\ ~InTx(w) => rows' = rows \union {new} /\ pending' = pending
    BY <1>4, Inserted
  <2>2. w[1] \in Requests
    BY CallsAre
  <2>3. CASE new.tenant # t
    <3>1. \A S : OfTenant(t, S \union {new}) = OfTenant(t, S)
      BY <2>3 DEF OfTenant
    <3>2. \A S : OfTenant(t, (rows \union {new}) \union S) = OfTenant(t, rows \union S)
      BY <2>3 DEF OfTenant
    <3>3. rows' = rows \/ rows' = rows \union {new}
      BY <2>1
    <3>4. OfTenant(t, rows') = mine /\ \A S : OfTenant(t, rows' \union S) = OfTenant(t, rows \union S)
      BY <3>1, <3>2, <3>3
    <3>5. \A r \in Requests : input[r].tenant = t => pending'[r] = pending[r]
      BY <1>0, <2>1, <2>2, <2>3 DEF TypeOK
    <3>. QED  BY <1>1, <3>4, <3>5
  <2>4. CASE new.tenant = t
    <3>1. Last(new.prev, Mine(w)) /\ input[w[1]].tenant = t
      BY <1>0, <2>1, <2>4 DEF SawLast
    <3>2. \A x \in rows \union pending[w[1]] : x.seq \in Nat /\ x.seq < new.seq
      <4>1. \A x \in rows \union pending[w[1]] : x.seq \in Nat /\ x.seq <= drawn
        BY <2>2, RowsAre, PendingIs
      <4>2. drawn \in Nat /\ new.seq = drawn + 1
        BY <1>0, <2>1 DEF TypeOK
      <4>. QED  BY <4>1, <4>2
    <3>3. new.seq \in Nat
      BY DEF Row
    <3>4. Chain(Mine(w)) /\ Mine(w) \subseteq rows \union pending[w[1]]
      BY <1>1, <2>2, <3>1, MineIs DEF OfTenant
    <3>5. Chain(Mine(w) \union {new})
      BY <3>1, <3>2, <3>3, <3>4, ChainGrows
    <3>6. CASE InTx(w)
      <4>1. rows' = rows /\ pending'[w[1]] = pending[w[1]] \union {new}
            /\ \A r \in Requests \ {w[1]} : pending'[r] = pending[r]
        BY <1>0, <2>1, <2>2, <3>6 DEF TypeOK
      <4>2. OfTenant(t, rows \union pending'[w[1]]) = Mine(w) \union {new}
        BY <2>4, <3>1, <3>6, <4>1, MineIs DEF OfTenant
      <4>3. \A y \in mine : y.seq < new.seq
        BY <3>2 DEF OfTenant
      <4>. QED  BY <1>1, <2>2, <3>1, <3>5, <4>1, <4>2, <4>3
    <3>7. CASE ~InTx(w)
      <4>1. rows' = rows \union {new} /\ pending' = pending
        BY <2>1, <3>7
      <4>2. \A r \in Requests : input[r].tenant = t => pending[r] = {}
        <5>1. call[w].at \in Running
          BY <2>1 DEF Running
        <5>. QED  BY <1>0, <3>1, <3>7, <5>1, NothingPending
      <4>3. OfTenant(t, rows') = Mine(w) \union {new}
        BY <2>4, <3>1, <3>7, <4>1, MineIs DEF OfTenant
      <4>4. rows' \union {} = rows'
        OBVIOUS
      <4>. QED  BY <3>5, <4>1, <4>2, <4>3, <4>4
    <3>. QED  BY <3>6, <3>7
  <2>. QED  BY <2>3, <2>4
<1>. HIDE DEF mine, Of
<1>. QED  BY <1>2, <1>3, <1>4, RowSteps

LEMMA MineStays ==
  ASSUME TypeOK, NEW v \in Calls, input' = input,
         \/ rows' = rows /\ pending'[v[1]] = pending[v[1]]
         \/ \E S : /\ \A x \in S : x.tenant # input[v[1]].tenant
                   /\ rows' \in {rows, rows \union S}
                   /\ pending'[v[1]] = pending[v[1]]
         \/ rows' = rows /\ ~InTx(v)
  PROVE  Mine(v)' = Mine(v)
<1>1. InTx(v)' = InTx(v)
  BY DEF InTx
<1>. QED  BY <1>1 DEF Mine

LEMMA SawLastStep ==
  ASSUME Inv, LogInv, CallsTakeTurns, [Next]_vars
  PROVE  SawLast'
<1>0. TypeOK /\ OneAtWork /\ SawLast /\ input' = input /\ Orderly' = Orderly
  BY InputStays DEF Inv, LogInv
<1>. SUFFICES ASSUME NEW v \in Calls, input[v[1]].tenant \in Orderly, call'[v].at = "create"
              PROVE  Last(call'[v].saw, Mine(v)')
  BY <1>0 DEF SawLast
<1>1. v[1] \in Requests /\ v[2] \in Events /\ v = <<v[1], v[2]>>
  BY CallsAre
<1>2. CASE Find(v)
  <2>1. PICK hash \in Calls \union {Genesis} :
          /\ \/ Mine(v) = {} /\ hash = Genesis
             \/ \E last \in Mine(v) : (\A x \in Mine(v) : x.seq <= last.seq) /\ hash = last.by
          /\ call' = [call EXCEPT ![v] = [@ EXCEPT !.at = "create", !.saw = hash]]
    BY <1>2 DEF Find
  <2>2. call'[v].saw = hash
    BY <1>0, <2>1 DEF TypeOK, Call
  <2>3. rows' = rows /\ pending' = pending
    BY <1>2 DEF Find
  <2>4. Mine(v)' = Mine(v)
    BY <1>0, <2>3, MineStays
  <2>. QED  BY <2>1, <2>2, <2>4 DEF Last
<1>3. CASE call'[v] = call[v]
  <2>1. call[v].at = "create" /\ call[v].at \in Running /\ ~AtRest(v[1])
    BY <1>1, <1>3 DEF Running, AtRest, Resting
  <2>2. Last(call[v].saw, Mine(v))
    BY <1>0, <2>1 DEF SawLast
  <2>3. ASSUME NEW w \in Calls, Create(w) PROVE Mine(v)' = Mine(v)
    <3>1. PICK new \in Row :
            /\ new.tenant = input[w[1]].tenant
            /\ call' = [call EXCEPT ![w] = Written] /\ call[w].at = "create"
            /\ InTx(w) => rows' = rows /\ pending' = [pending EXCEPT ![w[1]] = @ \union {new}]
            /\ ~InTx(w) => rows' = rows \union {new} /\ pending' = pending
      BY <2>3, Inserted
    <3>2. v # w
      BY <1>0, <1>3, <2>1, <3>1 DEF TypeOK, Written, NoCall
    <3>3. input[w[1]].tenant # input[v[1]].tenant
      BY <2>1, <3>1, <3>2 DEF CallsTakeTurns, Running
    <3>4. rows' \in {rows, rows \union {new}} /\ pending'[v[1]] = pending[v[1]]
      BY <1>0, <1>1, <3>1, <3>3, CallsAre DEF TypeOK
    <3>5. \A x \in {new} : x.tenant # input[v[1]].tenant
      BY <3>1, <3>3
    <3>. QED  BY <1>0, <3>4, <3>5, MineStays
  <2>4. ASSUME NEW r \in Requests, Commit(r) PROVE Mine(v)' = Mine(v)
    <3>1. /\ rows' = rows \union pending[r]
          /\ \A q \in Requests \ {r} : pending'[q] = pending[q]
          /\ pc[r] = "await" /\ ~AtRest(r) /\ input[r].kind \in Trust
          /\ call' = [w \in Calls |-> IF Left(w, r) THEN Lost ELSE call[w]]
      BY <1>0, <2>4 DEF Commit, TypeOK, AtRest
    <3>2. v[1] # r
      <4>. SUFFICES ASSUME v[1] = r PROVE FALSE
        OBVIOUS
      <4>1. ~Left(v, r)
        BY <1>3, <2>1, <3>1 DEF Lost, NoCall
      <4>2. ~InTx(v)
        BY <2>1, <4>1 DEF Left, Running, Resting
      <4>3. v[2] = "failure" /\ Ahead(v)
        BY <1>1, <3>1, <4>2 DEF InTx, Ahead
      <4>. QED  BY <2>1, <4>3 DEF Inv, Fresh
    <3>3. input[r].tenant # input[v[1]].tenant
      BY <1>0, <1>1, <2>1, <3>1, <3>2 DEF OneAtWork
    <3>4. \A x \in pending[r] : x.tenant # input[v[1]].tenant
      BY <3>3, PendingIs
    <3>5. pending'[v[1]] = pending[v[1]]
      BY <1>1, <3>1, <3>2
    <3>. QED  BY <1>0, <3>1, <3>4, <3>5, MineStays
  <2>5. ASSUME Drops PROVE Mine(v)' = Mine(v)
    <3>1. rows' = rows
      BY <2>5 DEF Drops
    <3>2. CASE pending'[v[1]] = pending[v[1]] \/ ~InTx(v)
      BY <1>0, <3>1, <3>2, MineStays
    <3>3. CASE InTx(v)
      <4>1. rows \union pending[v[1]] \subseteq rows' \union pending'[v[1]]
        BY <1>1, <3>3, SeenStays
      <4>2. pending'[v[1]] \subseteq pending[v[1]]
        BY <1>1, <2>5 DEF Drops
      <4>3. rows' \union pending'[v[1]] = rows \union pending[v[1]] /\ input' = input
        BY <1>0, <3>1, <4>1, <4>2
      <4>4. InTx(v)' = InTx(v)
        BY <1>0 DEF InTx
      <4>. QED  BY <3>3, <4>3, <4>4 DEF Mine
    <3>. QED  BY <3>2, <3>3
  <2>6. Mine(v)' = Mine(v)
    BY <2>3, <2>4, <2>5, RowSteps
  <2>. QED  BY <1>3, <2>2, <2>6
<1>. QED  BY <1>2, <1>3, FoundOrKept

LEMMA InitLogInv ==
  ASSUME Init
  PROVE  LogInv
<1>1. Finite
  BY FS_EmptySet DEF Init, Finite
<1>2. OneAtWork
  BY CallsAre DEF Init, OneAtWork, AtRest, NoCall, Resting
<1>3. TenantChains
  BY DEF Init, TenantChains, Chain, OfTenant
<1>4. SawLast
  BY DEF Init, SawLast, NoCall
<1>. QED  BY <1>1, <1>2, <1>3, <1>4 DEF LogInv

LEMMA NextLogInv ==
  ASSUME Inv, LogInv, CallsTakeTurns, [Next]_vars
  PROVE  LogInv'
<1>1. Finite /\ OneAtWork
  BY DEF LogInv
<1>. QED  BY <1>1, FiniteStep, OneAtWorkStep, TenantChainsStep, SawLastStep DEF LogInv

-------------------------------------------------------------------------------
(* The mapped logs, and what a step does to them. *)
Logged == [t \in Tenants |-> IF t \in Orderly THEN History(t) ELSE <<>>]

(* Rows are added of one tenant at a time, after those it has. *)
LEMMA RowsGrow ==
  ASSUME Inv, LogInv, [Next]_vars
  PROVE  \/ rows' = rows
         \/ \E u \in Tenants :
              /\ rows \subseteq rows'
              /\ \A x \in rows' \ rows : x.tenant = u
              /\ u \in Orderly => \A y \in OfTenant(u, rows), x \in rows' \ rows : y.seq < x.seq
<1>0. TypeOK /\ TenantChains
  BY DEF Inv, LogInv
<1>1. ASSUME NEW w \in Calls, Create(w), ~(rows' = rows)
      PROVE  \E u \in Tenants :
               /\ rows \subseteq rows'
               /\ \A x \in rows' \ rows : x.tenant = u
               /\ u \in Orderly => \A y \in OfTenant(u, rows), x \in rows' \ rows : y.seq < x.seq
  <2>1. PICK new \in Row :
          /\ new.seq = drawn + 1
          /\ InTx(w) => rows' = rows
          /\ ~InTx(w) => rows' = rows \union {new}
    BY <1>1, Inserted
  <2>2. rows' = rows \union {new} /\ new.tenant \in Tenants
    BY <1>1, <2>1 DEF Row
  <2>3. \A y \in rows : y.seq \in Nat /\ y.seq <= drawn /\ drawn \in Nat
    BY RowsAre
  <2>4. \A y \in rows : y.seq < new.seq
    BY <2>1, <2>3
  <2>. QED  BY <2>2, <2>4 DEF OfTenant
<1>2. ASSUME NEW r \in Requests, Commit(r)
      PROVE  \E u \in Tenants :
               /\ rows \subseteq rows'
               /\ \A x \in rows' \ rows : x.tenant = u
               /\ u \in Orderly => \A y \in OfTenant(u, rows), x \in rows' \ rows : y.seq < x.seq
  <2>1. rows' = rows \union pending[r] /\ input[r].tenant \in Tenants
    BY <1>0, <1>2 DEF Commit, TypeOK, Body
  <2>2. \A x \in rows' \ rows : x \in pending[r]
    BY <2>1
  <2>3. \A x \in pending[r] : x.tenant = input[r].tenant
    BY PendingIs
  <2>4. input[r].tenant \in Orderly =>
          \A x \in pending[r], y \in OfTenant(input[r].tenant, rows) : y.seq < x.seq
    BY <1>0 DEF TenantChains
  <2>. QED  BY <2>1, <2>2, <2>3, <2>4
<1>3. CASE Drops
  BY <1>3 DEF Drops
<1>. QED  BY <1>1, <1>2, <1>3, RowSteps

LEMMA LogSteps ==
  ASSUME Inv, LogInv, Inv', LogInv', [Next]_vars
  PROVE  Logged' = Logged \/ \E u \in Tenants : Chained!Extend(u)
<1>0. Orderly' = Orderly /\ Orderly \subseteq Tenants
  BY InputStays DEF Orderly
<1>1. /\ \A t : History(t) = LogOf(OfTenant(t, rows))
      /\ \A t : History(t)' = LogOf(OfTenant(t, rows'))
  <2>1. \A t : History(t)' = LogOf(OfTenant(t, rows'))
    BY DEF History, LogOf, Nth, Rank, UpTo, OfTenant
  <2>. QED  BY <2>1, HistoryIs
<1>2. \A t \in Tenants : /\ Logged[t] = IF t \in Orderly THEN LogOf(OfTenant(t, rows)) ELSE <<>>
                         /\ Logged'[t] = IF t \in Orderly THEN LogOf(OfTenant(t, rows')) ELSE <<>>
  BY <1>0, <1>1 DEF Logged
<1>3. DOMAIN Logged = Tenants /\ DOMAIN Logged' = Tenants
  BY DEF Logged
<1>4. ASSUME \A t \in Orderly : OfTenant(t, rows') = OfTenant(t, rows)
      PROVE  Logged' = Logged
  <2>1. \A t \in Tenants : Logged'[t] = Logged[t]
    BY <1>2, <1>4
  <2>. QED  BY <2>1 DEF Logged
<1>5. ASSUME NEW u \in Tenants, rows \subseteq rows',
             \A x \in rows' \ rows : x.tenant = u,
             u \in Orderly => \A y \in OfTenant(u, rows), x \in rows' \ rows : y.seq < x.seq,
             NEW t \in Orderly, OfTenant(t, rows') # OfTenant(t, rows)
      PROVE  Chained!Extend(u)
  <2>1. \A s : s # u => OfTenant(s, rows') = OfTenant(s, rows)
    BY <1>5 DEF OfTenant
  <2>2. u = t
    BY <1>5, <2>1
  <2>. DEFINE S == OfTenant(u, rows)
              T == OfTenant(u, rows')
  <2>3. S \subseteq T /\ S # T
    BY <1>5, <2>2 DEF OfTenant
  <2>4. \A x \in S, y \in T \ S : x.seq < y.seq
    BY <1>5, <2>2 DEF OfTenant
  <2>5. Ordered(T)
    <3>1. T \in SUBSET rows' /\ IsFiniteSet(rows')
      BY DEF OfTenant, LogInv, Finite
    <3>2. IsFiniteSet(T)
      BY <3>1, FS_Subset
    <3>3. \A x, y \in rows' : x.seq \in Nat /\ (x.seq = y.seq => x = y)
      BY DEF Inv, TypeOK, Row, Unique, Made
    <3>. HIDE DEF T
    <3>. QED  BY <3>1, <3>2, <3>3 DEF Ordered
  <2>6. Chain(T)
    BY <1>0, <2>2 DEF LogInv, TenantChains, Chain, OfTenant
  <2>. HIDE DEF S, T
  <2>7. Chained!IsStrictPrefix(LogOf(S), LogOf(T)) /\ Chained!Linked(LogOf(T))
    BY <2>3, <2>4, <2>5, <2>6, LogExtends, LogLinked
  <2>8. Logged[u] = LogOf(S) /\ Logged'[u] = LogOf(T)
    BY <1>2, <1>5, <2>2 DEF S, T
  <2>9. \A k \in Tenants \ {u} : Logged'[k] = Logged[k]
    BY <1>2, <2>1
  <2>. QED  BY <2>7, <2>8, <2>9 DEF Chained!Extend, Logged
<1>. QED  BY <1>4, <1>5, RowsGrow

(* Who closes periods has one call under way: the one that is awaited, or  *)
(* the report of its failure.                                              *)
ClosingCalls ==
  \A r \in Requests :
    input[r].kind = "CLOSE_PERIOD" =>
      /\ pc[r] # "settle"
      /\ call[<<r, "journal">>].at \notin Running
      /\ call[<<r, "office">>].at \notin Running
      /\ call[<<r, "action">>].at \in Running => pc[r] = "await"
      /\ call[<<r, "failure">>].at \in Running => pc[r] = "failed"

LEMMA FailedCalls ==
  ASSUME TypeOK, NEW r \in Requests, Fail(r)
  PROVE  /\ \A q \in Requests : pc'[q] = IF q = r THEN "failed" ELSE pc[q]
         /\ input' = input
         /\ pc[r] = "await" => input[r].kind \in Trust \/ call[<<r, "action">>].at = "lost"
         /\ pc[r] \in {"act", "settle", "write", "await"}
         /\ \A w \in Calls :
              \/ call'[w] = call[w]
              \/ call'[w] = Lost
              \/ w = <<r, "failure">>
              \/ w = <<r, "journal">> /\ input[r].kind = "POST_JOURNAL"
<1>1. /\ pc' = [pc EXCEPT ![r] = "failed"] /\ input' = input
      /\ pc[r] = "await" => input[r].kind \in Trust \/ call[<<r, "action">>].at = "lost"
      /\ pc[r] \in {"act", "settle", "write", "await"}
  BY Zenon DEF Fail, Goto
<1>2. PICK status \in {422, 500} :
        call' = [w \in Calls |->
          CASE w = <<r, "failure">> /\ status = 500 -> Started("FAILED")
            [] w = <<r, "journal">> /\ pc[r] = "act" /\ input[r].kind = "POST_JOURNAL"
                 -> Started("FAILED")
            [] Left(w, r) -> Lost
            [] OTHER -> call[w]]
  BY CallsOnFail
<1>3. ASSUME NEW w \in Calls, w # <<r, "failure">>,
             ~(w = <<r, "journal">> /\ input[r].kind = "POST_JOURNAL")
      PROVE  call'[w] = call[w] \/ call'[w] = Lost
  <2>1. call'[w] = IF Left(w, r) THEN Lost ELSE call[w]
    BY <1>2, <1>3, Zenon
  <2>. QED  BY <2>1
<1>4. \A q \in Requests : pc'[q] = IF q = r THEN "failed" ELSE pc[q]
  BY <1>1 DEF TypeOK
<1>. QED  BY <1>1, <1>3, <1>4

LEMMA ClosingFailed ==
  ASSUME Inv, ClosingCalls, NEW r \in Requests, Fail(r)
  PROVE  ClosingCalls'
<1>0. TypeOK
  BY DEF Inv
<1>1. /\ \A q \in Requests : pc'[q] = IF q = r THEN "failed" ELSE pc[q]
      /\ input' = input
      /\ pc[r] = "await" => input[r].kind \in Trust \/ call[<<r, "action">>].at = "lost"
      /\ pc[r] \in {"act", "settle", "write", "await"}
      /\ \A w \in Calls :
           \/ call'[w] = call[w]
           \/ call'[w] = Lost
           \/ w = <<r, "failure">>
           \/ w = <<r, "journal">> /\ input[r].kind = "POST_JOURNAL"
  BY <1>0, FailedCalls, Zenon
<1>2. Lost.at \notin Running
  BY DEF Lost, NoCall, Running
<1>3. ASSUME NEW q \in Requests, input[q].kind = "CLOSE_PERIOD", NEW e \in Events,
             call'[<<q, e>>].at \in Running
      PROVE  call'[<<q, e>>] = call[<<q, e>>] \/ (q = r /\ e = "failure")
  <2>1. <<q, e>> \in Calls
    BY CallsAre
  <2>2. \/ call'[<<q, e>>] = call[<<q, e>>]
        \/ call'[<<q, e>>] = Lost
        \/ <<q, e>> = <<r, "failure">>
        \/ <<q, e>> = <<r, "journal">> /\ input[r].kind = "POST_JOURNAL"
    BY <1>1, <2>1, Zenon
  <2>3. call'[<<q, e>>] # Lost
    BY <1>2, <1>3
  <2>4. ~(<<q, e>> = <<r, "journal">> /\ input[r].kind = "POST_JOURNAL")
    BY <1>3
  <2>. QED  BY <2>2, <2>3, <2>4
<1>4. ASSUME NEW q \in Requests, input[q].kind = "CLOSE_PERIOD"
      PROVE  /\ pc'[q] # "settle"
             /\ call'[<<q, "journal">>].at \notin Running
             /\ call'[<<q, "office">>].at \notin Running
             /\ call'[<<q, "action">>].at \in Running => pc'[q] = "await"
             /\ call'[<<q, "failure">>].at \in Running => pc'[q] = "failed"
  <2>0. {"journal", "office", "action", "failure"} \subseteq Events
    BY DEF Events
  <2>1. /\ pc[q] # "settle"
        /\ call[<<q, "journal">>].at \notin Running
        /\ call[<<q, "office">>].at \notin Running
        /\ call[<<q, "action">>].at \in Running => pc[q] = "await"
        /\ call[<<q, "failure">>].at \in Running => pc[q] = "failed"
    BY <1>4 DEF ClosingCalls
  <2>2. /\ call'[<<q, "journal">>].at \notin Running
        /\ call'[<<q, "office">>].at \notin Running
        /\ call'[<<q, "action">>].at \in Running
             => call'[<<q, "action">>] = call[<<q, "action">>]
        /\ q # r => (call'[<<q, "failure">>].at \in Running
             => call'[<<q, "failure">>] = call[<<q, "failure">>])
    BY <1>3, <1>4, <2>0, <2>1, Zenon
  <2>3. pc'[q] = IF q = r THEN "failed" ELSE pc[q]
    BY <1>1
  <2>4. q = r => call[<<q, "action">>].at \notin Running
    BY <1>1, <1>4, <2>1 DEF Trust, Running
  <2>. QED  BY <2>1, <2>2, <2>3, <2>4
<1>. QED  BY <1>1, <1>4 DEF ClosingCalls

LEMMA ClosingCallsStep ==
  ASSUME Inv, ClosingCalls, [Next]_vars
  PROVE  ClosingCalls'
<1>0. TypeOK /\ ClosingCalls /\ Fresh
  BY DEF Inv
<1>. USE <1>0, CallsAre DEF TypeOK, ClosingCalls, Events, Running, Trust
<1>1. ASSUME NEW r \in Requests, Begin(r) PROVE ClosingCalls'
  BY <1>1 DEF Begin, Goto, Fresh, Ahead
<1>2. ASSUME NEW r \in Requests, Act(r) PROVE ClosingCalls'
  <2>1. /\ pc[r] = "act" /\ input' = input
        /\ input[r].kind = "CLOSE_PERIOD" => call' = call /\ pc'[r] = "write"
        /\ \A q \in Requests : q # r =>
             pc'[q] = pc[q] /\ \A e \in Events : call'[<<q, e>>] = call[<<q, e>>]
    BY <1>2 DEF Act, Goto
  <2>2. \A e \in {"action", "failure"} : call[<<r, e>>].at = "none"
    BY <2>1 DEF Fresh, Ahead
  <2>. QED  BY <2>1, <2>2
<1>3. ASSUME NEW r \in Requests, Settle(r) PROVE ClosingCalls'
  BY <1>3 DEF Settle, Goto
<1>4. ASSUME NEW r \in Requests, Write(r) PROVE ClosingCalls'
  BY <1>4 DEF Write, Goto, Fresh, Ahead
<1>5. ASSUME NEW r \in Requests, Commit(r) PROVE ClosingCalls'
  BY <1>5 DEF Commit, Goto, Left, Lost, NoCall
<1>6. ASSUME NEW r \in Requests, Answer(r) PROVE ClosingCalls'
  BY <1>6 DEF Answer, Goto
<1>7. ASSUME NEW r \in Requests, Fail(r) PROVE ClosingCalls'
  BY <1>7, ClosingFailed
<1>8. ASSUME NEW w \in Calls, Find(w) PROVE ClosingCalls'
  <2>1. pc' = pc /\ input' = input /\ call[w].at = "find" /\ \A v \in Calls \ {w} : call'[v] = call[v]
    BY <1>8 DEF Find
  <2>2. \A v \in Calls : call'[v].at \in Running => call[v].at \in Running
    BY <2>1
  <2>. QED  BY <2>1, <2>2
<1>9. ASSUME NEW w \in Calls, Create(w) PROVE ClosingCalls'
  BY <1>9 DEF Create, Written, NoCall
<1>10. ASSUME NEW w \in Calls, Lose(w) PROVE ClosingCalls'
  BY <1>10 DEF Lose, Lost, NoCall
<1>11. ASSUME Crash PROVE ClosingCalls'
  BY <1>11 DEF Crash, Lost, NoCall, Resting
<1>12. ASSUME UNCHANGED vars PROVE ClosingCalls'
  BY <1>12 DEF vars
<1>. QED
  BY <1>1, <1>2, <1>3, <1>4, <1>5, <1>6, <1>7, <1>8, <1>9, <1>10, <1>11, <1>12
  DEF Next, Step, Log, Finished

(* The hypothesis on workloads: whose users wait for each other closes     *)
(* periods, and nothing else.                                              *)
OrderlyClose ==
  \A load \in Workloads : \A t \in Tenants :
    (\A r \in Requests : load[r].tenant = t => load[r].waits) =>
      \A r \in Requests : load[r].tenant = t => load[r].kind = "CLOSE_PERIOD"

LEMMA ClosingTakesTurns ==
  ASSUME OrderlyClose, Inv, OneAtWork, ClosingCalls, input \in Workloads
  PROVE  CallsTakeTurns
<1>. SUFFICES ASSUME NEW v \in Calls, NEW w \in Calls,
                     input[v[1]].tenant = input[w[1]].tenant,
                     input[v[1]].tenant \in Orderly,
                     call[v].at \in Running, call[w].at \in Running
              PROVE  v = w
  BY DEF CallsTakeTurns
<1>1. /\ v[1] \in Requests /\ v[2] \in Events /\ v = <<v[1], v[2]>>
      /\ w[1] \in Requests /\ w[2] \in Events /\ w = <<w[1], w[2]>>
  BY CallsAre
<1>2. ~AtRest(v[1]) /\ ~AtRest(w[1])
  BY <1>1 DEF AtRest, Running, Resting
<1>3. v[1] = w[1]
  BY <1>1, <1>2 DEF OneAtWork
<1>4. input[v[1]].kind = "CLOSE_PERIOD"
  BY <1>1 DEF OrderlyClose, Orderly
<1>5. /\ call[<<v[1], v[2]>>].at \in Running
      /\ call[<<v[1], w[2]>>].at \in Running
  BY <1>1, <1>3
<1>6. \A e \in Events : call[<<v[1], e>>].at \in Running =>
        \/ e = "action" /\ pc[v[1]] = "await"
        \/ e = "failure" /\ pc[v[1]] = "failed"
  BY <1>1, <1>4 DEF ClosingCalls, Events
<1>7. v[2] = w[2]
  BY <1>1, <1>5, <1>6
<1>. QED  BY <1>1, <1>3, <1>7

LEMMA LoggedIs == Chained!Spec <=> Chained!Init /\ [][Chained!Next]_Logged
BY DEF Chained!Spec, Logged

LEMMA InitLogged ==
  ASSUME Init
  PROVE  Chained!Init
<1>1. \A t : OfTenant(t, rows) = {}
  BY DEF Init, OfTenant
<1>2. LogOf({}) = <<>>
  BY FS_EmptySet DEF LogOf
<1>3. \A t \in Tenants : Logged[t] = <<>>
  BY <1>1, <1>2, HistoryIs DEF Logged
<1>. QED  BY <1>3 DEF Chained!Init, Logged

LEMMA NextLogged ==
  ASSUME Inv, LogInv, Inv', LogInv', [Next]_vars
  PROVE  [Chained!Next]_Logged
<1>1. DOMAIN Logged' = Tenants
  BY DEF Logged
<1>. QED  BY <1>1, LogSteps DEF Chained!Next, Logged

(* While one call of an orderly tenant is under way at a time, its trail   *)
(* is the log it is meant to be (TrailIsChainedLog).  The code does not    *)
(* see to the hypothesis; the theorem below says of whom it holds.         *)
LEMMA TrailIsALog == Spec /\ []CallsTakeTurns => TrailIsChainedLog
<1>1. Init => Chained!Init
  BY InitLogged
<1>2. Init => LogInv
  BY InitLogInv
<1>3. Inv /\ LogInv /\ CallsTakeTurns /\ [Next]_vars => LogInv'
  BY NextLogInv
<1>4. Inv /\ LogInv /\ Inv' /\ LogInv' /\ [Next]_vars => [Chained!Next]_Logged
  BY NextLogged
<1>5. TrailIsChainedLog <=> Chained!Init /\ [][Chained!Next]_Logged
  BY LoggedIs DEF TrailIsChainedLog
<1>. QED  BY <1>1, <1>2, <1>3, <1>4, <1>5, Invariance, PTL DEF Spec

(* Where the users of a tenant wait for each other and close periods, its  *)
(* trail is the log it is meant to be: closePeriod awaits its row, so that *)
(* an answered request has no call under way (TrailIsChainedLog).  It only *)
(* grows at its end, and every entry names the hash of the one before,     *)
(* whatever the other tenants do and whichever processes fail.             *)
THEOREM ClosingsFormALog ==
  ASSUME OrderlyClose
  PROVE  Spec => TrailIsChainedLog
<1>1. Init => OneAtWork /\ ClosingCalls /\ input \in Workloads
  <2>1. Init => ClosingCalls
    BY CallsAre DEF Init, ClosingCalls, NoCall, Running, Events
  <2>. QED  BY <2>1, InitLogInv DEF Init, LogInv
<1>2. Inv /\ OneAtWork /\ ClosingCalls /\ input \in Workloads /\ [Next]_vars
        => (OneAtWork /\ ClosingCalls /\ input \in Workloads)'
  BY OneAtWorkStep, ClosingCallsStep, InputStays
<1>3. Inv /\ OneAtWork /\ ClosingCalls /\ input \in Workloads => CallsTakeTurns
  BY ClosingTakesTurns
<1>4. Spec => []CallsTakeTurns
  BY <1>1, <1>2, <1>3, Invariance, PTL DEF Spec
<1>. QED  BY <1>4, TrailIsALog, PTL
===============================================================================
