------------------------------- MODULE AuditChain -------------------------------
(***************************************************************************)
(* The audit trail of the tenants.  A row names the hash of the tenant's   *)
(* last row: logSecurityEvent reads that row and inserts its own by two    *)
(* statements, without a lock, on the client of the request.  Three routes *)
(* stand for the ways it is called: closing a period awaits it after the   *)
(* effect, posting a journal starts it and answers, and a trust transaction*)
(* awaits one row, and starts one for each journal, inside its transaction.*)
(* An answer of status 500 starts one more.                                *)
(***************************************************************************)
EXTENDS Integers

CONSTANTS
  Tenants, Requests, Periods,
  Workloads,   \* what the requests ask for: functions from Requests
  Genesis      \* '0'.repeat(64)

VARIABLES
  rows,     \* AuditLog, committed
  drawn,    \* the sequence of AuditLog.sequenceNumber
  pending,  \* the rows of a request's open transaction
  done,     \* requests whose effect is committed
  pc,       \* where a request is
  call,     \* where its calls of logSecurityEvent are
  input

vars == <<rows, drawn, pending, done, pc, call, input>>

Kinds == {"CLOSE_PERIOD", "POST_JOURNAL", "DEPOSIT", "TRANSFER_TO_OFFICE"}
Trust == {"DEPOSIT", "TRANSFER_TO_OFFICE"}
Body == [kind : Kinds, tenant : Tenants, period : Periods,
         waits : BOOLEAN]  \* sent when nothing else of the tenant is under way

ASSUME WorkloadsAssumption == Workloads \subseteq [Requests -> Body]

(* The calls a request may make.  A payload holds the request, the event   *)
(* and the time, no two are alike, so the call stands for its row's hash.  *)
Events == {"action", "journal", "office", "failure"}
Calls == Requests \X Events
Row == [by : Calls, says : {"DONE", "FAILED"}, tenant : Tenants, seq : Nat,
        prev : Calls \union {Genesis}]

Resting == {"none", "written", "lost"}
Call == [at : Resting \union {"find", "create"}, says : {"DONE", "FAILED"},
         saw : Calls \union {Genesis}]
NoCall == [at |-> "none", says |-> "DONE", saw |-> Genesis]
Started(says) == [NoCall EXCEPT !.at = "find", !.says = says]
Written == [NoCall EXCEPT !.at = "written"]
Lost == [NoCall EXCEPT !.at = "lost"]

Init ==
  /\ rows = {}
  /\ drawn = 0
  /\ pending = [r \in Requests |-> {}]
  /\ done = {}
  /\ pc = [r \in Requests |-> "idle"]
  /\ call = [w \in Calls |-> NoCall]
  /\ input \in Workloads

-------------------------------------------------------------------------------
Goto(r, label) == pc' = [pc EXCEPT ![r] = label]

AtRest(r) ==
  /\ pc[r] \in {"idle", "answered", "failed"}
  /\ \A e \in Events : call[<<r, e>>].at \in Resting

(* The period is closed; the request that closed it may have been cut off. *)
Closed(r) ==
  \E q \in done :
    /\ input[q].kind = "CLOSE_PERIOD"
    /\ input[q].tenant = input[r].tenant
    /\ input[q].period = input[r].period

(* A period that is read as closed is answered as it is. *)
Begin(r) ==
  /\ pc[r] = "idle"
  /\ input[r].waits => \A q \in Requests : input[q].tenant = input[r].tenant => AtRest(q)
  /\ Goto(r, IF input[r].kind = "CLOSE_PERIOD" /\ Closed(r) THEN "answered" ELSE "act")
  /\ UNCHANGED <<rows, drawn, pending, done, call, input>>

(* The writes of closePeriod; of postJournalAtomically; of the first half  *)
(* of a trust transaction, its journal included, which stay in it.         *)
Act(r) ==
  LET kind == input[r].kind IN
  /\ pc[r] = "act"
  /\ IF kind \in Trust THEN UNCHANGED done ELSE done' = done \union {r}
  /\ IF kind = "CLOSE_PERIOD" THEN UNCHANGED call
                              ELSE call' = [call EXCEPT ![<<r, "journal">>] = Started("DONE")]
  /\ Goto(r, CASE kind = "POST_JOURNAL"       -> "answered"
               [] kind = "TRANSFER_TO_OFFICE" -> "settle"
               [] OTHER                       -> "write")
  /\ UNCHANGED <<rows, drawn, pending, input>>

(* postOfficeSideSettlement *)
Settle(r) ==
  /\ pc[r] = "settle"
  /\ call' = [call EXCEPT ![<<r, "office">>] = Started("DONE")]
  /\ Goto(r, "write")
  /\ UNCHANGED <<rows, drawn, pending, done, input>>

(* await logAdminAction(...) *)
Write(r) ==
  /\ pc[r] = "write"
  /\ call' = [call EXCEPT ![<<r, "action">>] = Started("DONE")]
  /\ Goto(r, "await")
  /\ UNCHANGED <<rows, drawn, pending, done, input>>

-------------------------------------------------------------------------------
(* logSecurityEvent: on the client of the request, or of its transaction.  *)
(* Fault: the row is written by the root client, whatever the request has. *)
InTx_Never(w) == FALSE

InTx(w) == input[w[1]].kind \in Trust /\ w[2] # "failure"

(* Fault: the last row is searched without the tenant. *)
Mine_AnyTenant(w) == rows \union (IF InTx(w) THEN pending[w[1]] ELSE {})

(* The rows a call sees: READ COMMITTED, and what its transaction wrote.   *)
Mine(w) ==
  {x \in rows \union (IF InTx(w) THEN pending[w[1]] ELSE {}) : x.tenant = input[w[1]].tenant}

(* Fault: the first row of the tenant is taken for the last. *)
Find_Oldest(w) ==
  /\ call[w].at = "find"
  /\ \E previousHash \in Calls \union {Genesis} :
       /\ \/ Mine(w) = {} /\ previousHash = Genesis
          \/ \E last \in Mine(w) : (\A x \in Mine(w) : last.seq <= x.seq) /\ previousHash = last.by
       /\ call' = [call EXCEPT ![w].at = "create", ![w].saw = previousHash]
  /\ UNCHANGED <<rows, drawn, pending, done, pc, input>>

(* Fault: the first row of a tenant names no predecessor. *)
Find_NoGenesis(w) ==
  /\ call[w].at = "find"
  /\ \E previousHash \in Calls \union {"null"} :
       /\ \/ Mine(w) = {} /\ previousHash = "null"
          \/ \E last \in Mine(w) : (\A x \in Mine(w) : x.seq <= last.seq) /\ previousHash = last.by
       /\ call' = [call EXCEPT ![w].at = "create", ![w].saw = previousHash]
  /\ UNCHANGED <<rows, drawn, pending, done, pc, input>>

Find(w) ==
  /\ call[w].at = "find"
  /\ \E previousHash \in Calls \union {Genesis} :
       /\ \/ Mine(w) = {} /\ previousHash = Genesis
          \/ \E last \in Mine(w) : (\A x \in Mine(w) : x.seq <= last.seq) /\ previousHash = last.by
       /\ call' = [call EXCEPT ![w].at = "create", ![w].saw = previousHash]
  /\ UNCHANGED <<rows, drawn, pending, done, pc, input>>

NewRow(w) ==
  [by |-> w, says |-> call[w].says, tenant |-> input[w[1]].tenant, seq |-> drawn + 1,
   prev |-> call[w].saw]

Create(w) ==
  /\ call[w].at = "create"
  /\ drawn' = drawn + 1
  /\ IF InTx(w)
     THEN pending' = [pending EXCEPT ![w[1]] = @ \union {NewRow(w)}] /\ UNCHANGED rows
     ELSE rows' = rows \union {NewRow(w)} /\ UNCHANGED pending
  /\ call' = [call EXCEPT ![w] = Written]
  /\ UNCHANGED <<done, pc, input>>

(* An error of either statement; one in a transaction is the transaction's, *)
(* whose Fail it is.                                                       *)
Lose(w) ==
  /\ call[w].at \in {"find", "create"}
  /\ ~InTx(w)
  /\ call' = [call EXCEPT ![w] = Lost]
  /\ UNCHANGED <<rows, drawn, pending, done, pc, input>>

-------------------------------------------------------------------------------
(* Calls of a transaction that are under way when it ends: the next        *)
(* statement finds it closed, and nobody learns of it.                     *)
Left(w, r) == w[1] = r /\ InTx(w) /\ call[w].at \notin Resting

(* Fault: the row of the transaction is not awaited. *)
Commit_NotAwaited(r) ==
  /\ pc[r] = "await"
  /\ input[r].kind \in Trust
  /\ rows' = rows \union pending[r]
  /\ pending' = [pending EXCEPT ![r] = {}]
  /\ call' = [w \in Calls |-> IF Left(w, r) THEN Lost ELSE call[w]]
  /\ done' = done \union {r}
  /\ Goto(r, "answered")
  /\ UNCHANGED <<drawn, input>>

(* The end of the transaction of a trust transaction, and its answer.      *)
Commit(r) ==
  /\ pc[r] = "await"
  /\ input[r].kind \in Trust
  /\ call[<<r, "action">>].at = "written"
  /\ rows' = rows \union pending[r]
  /\ pending' = [pending EXCEPT ![r] = {}]
  /\ call' = [w \in Calls |-> IF Left(w, r) THEN Lost ELSE call[w]]
  /\ done' = done \union {r}
  /\ Goto(r, "answered")
  /\ UNCHANGED <<drawn, input>>

Answer(r) ==
  /\ pc[r] = "await"
  /\ input[r].kind \notin Trust
  /\ call[<<r, "action">>].at = "written"
  /\ Goto(r, "answered")
  /\ UNCHANGED <<rows, drawn, pending, done, call, input>>

(* An error is thrown: the transaction is rolled back, a journal that was  *)
(* not posted is reported as such, and status 500 is reported once more,   *)
(* when the answer is gone.                                                *)
Fail(r) ==
  /\ \/ pc[r] \in {"act", "settle", "write"}
     \/ /\ pc[r] = "await"
        /\ \/ input[r].kind \in Trust
           \/ call[<<r, "action">>].at = "lost"
  /\ pending' = [pending EXCEPT ![r] = {}]
  /\ \E status \in {422, 500} :
       /\ status = 500 \/ pc[r] # "await"
       /\ call' = [w \in Calls |->
            CASE w = <<r, "failure">> /\ status = 500 -> Started("FAILED")
              [] w = <<r, "journal">> /\ pc[r] = "act" /\ input[r].kind = "POST_JOURNAL"
                   -> Started("FAILED")
              [] Left(w, r) -> Lost
              [] OTHER -> call[w]]
  /\ Goto(r, "failed")
  /\ UNCHANGED <<rows, drawn, done, input>>

(* The process ends, and with it what is under way. *)
Crash ==
  LET hit == {r \in Requests : ~AtRest(r)} IN
  /\ hit # {}
  /\ pc' = [r \in Requests |-> IF pc[r] \in {"idle", "answered"} THEN pc[r] ELSE "failed"]
  /\ call' = [w \in Calls |-> IF call[w].at \in Resting THEN call[w] ELSE Lost]
  /\ pending' = [r \in Requests |-> {}]
  /\ UNCHANGED <<rows, drawn, done, input>>

Step(r) == Begin(r) \/ Act(r) \/ Settle(r) \/ Write(r) \/ Commit(r) \/ Answer(r) \/ Fail(r)
Log(w) == Find(w) \/ Create(w) \/ Lose(w)
Finished == (\A r \in Requests : pc[r] # "idle" /\ AtRest(r)) /\ UNCHANGED vars

Next == (\E r \in Requests : Step(r)) \/ (\E w \in Calls : Log(w)) \/ Crash \/ Finished
Spec == Init /\ [][Next]_vars

-------------------------------------------------------------------------------
(* The shapes of the rows, the calls and the requests. *)
TypeOK ==
  /\ rows \subseteq Row
  /\ drawn \in Nat
  /\ pending \in [Requests -> SUBSET Row]
  /\ done \subseteq Requests
  /\ pc \in [Requests -> {"idle", "act", "settle", "write", "await", "answered", "failed"}]
  /\ call \in [Calls -> Call]
  /\ input \in [Requests -> Body]

(* However calls overlap and transactions end, every row can be traced     *)
(* back to the first: its previousHash is the hash of a row of the same    *)
(* tenant with a smaller sequence number, committed no later than it.      *)
LinksAreBackward ==
  \A x \in rows :
    \/ x.prev = Genesis
    \/ \E y \in rows : y.by = x.prev /\ y.tenant = x.tenant /\ y.seq < x.seq

(* The unique index of the hash and the sequence: one row for a call, and  *)
(* no two rows in one place of the order the chain is verified in.         *)
OrderIsTotal == \A x, y \in rows : (x.by = y.by \/ x.seq = y.seq) => x = y

(* What the trail says was done was done: no row outlives a rollback.      *)
AuditedHappened == \A x \in rows : x.says = "DONE" => x.by[1] \in done

(* No money moves in trust without its row, and who closed a period is not *)
(* answered before the row of it: in between an error or a crash may come. *)
DoneIsAudited ==
  \A r \in done :
    input[r].kind \in Trust \/ (input[r].kind = "CLOSE_PERIOD" /\ pc[r] = "answered")
      => \E x \in rows : x.by = <<r, "action">>

(* verifyHashChain, on the rows of each tenant in the order of the         *)
(* sequence: the migration that added it promises "no forking".            *)
ChainVerifies ==
  \A x, y \in rows :
    /\ x.tenant = y.tenant
    /\ y.seq < x.seq
    /\ \A z \in rows : z.tenant = x.tenant /\ z.seq < x.seq => z.seq <= y.seq
    => x.prev = y.by
===============================================================================
