----------------------------- MODULE Notifications -----------------------------
(***************************************************************************)
(* Queued notifications: the job of NotificationQueueService is taken by a *)
(* worker of the queue, which tells its recipients one after the other,   *)
(* on each channel that the job asks for and they want; BullMQ runs a job  *)
(* again when it failed, and when its worker is gone.  SMS is sent as EMAIL*)
(* is; nothing is sent by PUSH.                                            *)
(***************************************************************************)
EXTENDS Integers, Sequences, FiniteSets

CONSTANTS
  Jobs, Users,
  Recipients,      \* the recipients of each job, in order
  MaxAttempts,     \* attempts of defaultJobOptions
  MaxStalls,       \* maxStalledCount of BullMQ
  MaxEvents        \* bound: faults, reports and changes of users

(* sendNow refuses a list without recipients. *)
ASSUME RecipientsAssumption == Recipients \in [Jobs -> Seq(Users) \ {<<>>}]
ASSUME BoundsAssumption ==
  MaxAttempts \in Nat \ {0} /\ MaxStalls \in Nat /\ MaxEvents \in Nat

VARIABLES
  queue,      \* state of each job of the queue integrations
  attempts,   \* how often it failed
  stalls,     \* how often its worker was gone
  run,        \* where sendNow is with the job
  rows,       \* Notification, numbered per job
  mails,      \* what the provider accepted
  reports,    \* what it reported of them
  ledger,     \* NotificationDeliveryAttempt
  active,     \* the users whose User.status is ACTIVE
  asked,      \* the channels of each job
  smtp,       \* whether the worker has the credentials of a mail server
  events      \* how much of that there was

vars == <<queue, attempts, stalls, run, rows, mails, reports, ledger, active,
          asked, smtp, events>>
given == <<asked, smtp>>

Channels == {"SYSTEM_ALERT", "EMAIL"}
Status == {"PENDING", "SENT", "DELIVERED", "FAILED", "BOUNCED"}
Idle == [at |-> "idle", from |-> 0, wanted |-> <<>>, todo |-> {}, result |-> "none"]

Event == events < MaxEvents /\ events' = events + 1
Fine == UNCHANGED events

Init ==
  /\ events = 0
  /\ queue = [j \in Jobs |-> "absent"]
  /\ attempts = [j \in Jobs |-> 0]
  /\ stalls = [j \in Jobs |-> 0]
  /\ run = [j \in Jobs |-> Idle]
  /\ rows = [j \in Jobs |-> <<>>]
  /\ mails = [j \in Jobs |-> <<>>]
  /\ reports = {}
  /\ ledger = {}
  /\ active = Users
  /\ asked = [j \in Jobs |-> {}]
  /\ smtp \in BOOLEAN

-------------------------------------------------------------------------------
(* NotificationQueueService.enqueue: a digest asks for EMAIL, a reminder   *)
(* for one channel; a job that names none asks for all.                    *)
Enqueue(j, channels) ==
  /\ queue[j] = "absent"
  /\ queue' = [queue EXCEPT ![j] = "waiting"]
  /\ asked' = [asked EXCEPT ![j] = channels]
  /\ UNCHANGED <<attempts, stalls, run, rows, mails, reports, ledger, active, smtp, events>>

Take(j) ==
  /\ queue[j] = "waiting"
  /\ queue' = [queue EXCEPT ![j] = "active"]
  /\ run' = [run EXCEPT ![j] = [Idle EXCEPT !.at = "resolve", !.from = Len(rows[j])]]
  /\ UNCHANGED <<attempts, stalls, rows, mails, reports, ledger, active, given, events>>

(* passive-capture.worker.ts takes jobs of the same queue and completes    *)
(* those it does not know.                                                 *)
Skip(j) ==
  /\ queue[j] = "waiting"
  /\ queue' = [queue EXCEPT ![j] = "completed"]
  /\ UNCHANGED <<attempts, stalls, run, rows, mails, reports, ledger, active, given, events>>

(* Fault: the job is tried once more than it should. *)
Throw_OnceMore(j) ==
  /\ attempts' = [attempts EXCEPT ![j] = @ + 1]
  /\ queue' = [queue EXCEPT ![j] = IF attempts[j] < MaxAttempts THEN "waiting" ELSE "failed"]
  /\ run' = [run EXCEPT ![j] = Idle]
  /\ UNCHANGED <<stalls, mails, reports, active, given>>

(* sendNow throws: the job failed, and waits for its next attempt if any.  *)
Throw(j) ==
  /\ attempts' = [attempts EXCEPT ![j] = @ + 1]
  /\ queue' = [queue EXCEPT ![j] = IF attempts[j] + 1 < MaxAttempts THEN "waiting" ELSE "failed"]
  /\ run' = [run EXCEPT ![j] = Idle]
  /\ UNCHANGED <<stalls, mails, reports, active, given>>

Move(j, at) == run' = [run EXCEPT ![j].at = at]

(* Fault: the last recipient is left out. *)
Proceed_LeavesOutLast(j, wanted, todo) ==
  LET more == todo # {} \/ Len(wanted) + 1 < Len(Recipients[j]) IN
  /\ run' = [run EXCEPT ![j] = [@ EXCEPT
       !.at = IF todo # {} THEN "create" ELSE IF more THEN "resolve" ELSE "told",
       !.wanted = wanted, !.todo = todo, !.result = "none"]]
  /\ queue' = IF more THEN queue ELSE [queue EXCEPT ![j] = "completed"]

(* The next channel of the recipient, the next recipient, or the end.      *)
Proceed(j, wanted, todo) ==
  LET more == todo # {} \/ Len(wanted) < Len(Recipients[j]) IN
  /\ run' = [run EXCEPT ![j] = [@ EXCEPT
       !.at = IF todo # {} THEN "create" ELSE IF more THEN "resolve" ELSE "told",
       !.wanted = wanted, !.todo = todo, !.result = "none"]]
  /\ queue' = IF more THEN queue ELSE [queue EXCEPT ![j] = "completed"]

Recipient(j) == Recipients[j][Len(run[j].wanted) + 1]

(* Fault: the worker waits until an inactive recipient is active again. *)
Resolve_Waits(j) ==
  /\ run[j].at = "resolve" /\ Recipient(j) \in active
  /\ \E todo \in SUBSET asked[j] : Proceed(j, Append(run[j].wanted, todo), todo)
  /\ UNCHANGED <<attempts, stalls, rows, mails, reports, ledger, active, given, events>>

(* resolveRecipient, filterChannelsForRecipient: a recipient who is not    *)
(* active fails the job, as an error of a statement does.  Of the channels *)
(* asked for, his preferences, which he may change at any time, his address*)
(* and his number leave some, or none, and he is passed over.              *)
Resolve(j) ==
  /\ run[j].at = "resolve"
  /\ \/ Recipient(j) \notin active /\ Throw(j) /\ Fine
     \/ Throw(j) /\ Event
     \/ /\ Recipient(j) \in active
        /\ \E todo \in SUBSET asked[j] : Proceed(j, Append(run[j].wanted, todo), todo)
        /\ UNCHANGED <<attempts, stalls, mails, reports, active, given>>
        /\ Fine
  /\ UNCHANGED <<rows, ledger>>

(* Channels are served in the order of the registry.                       *)
Channel(j) == IF "SYSTEM_ALERT" \in run[j].todo THEN "SYSTEM_ALERT" ELSE "EMAIL"

NewRow(j) ==
  [to |-> Len(run[j].wanted), channel |-> Channel(j), status |-> "PENDING", mail |-> 0,
   provider |-> IF Channel(j) = "EMAIL" THEN "smtp" ELSE "system"]

(* notification.create, outside the try block *)
Create(j) ==
  /\ run[j].at = "create"
  /\ \/ /\ rows' = [rows EXCEPT ![j] = Append(@, NewRow(j))]
        /\ run' = [run EXCEPT ![j].at = IF Channel(j) = "EMAIL" THEN "send" ELSE "update"]
        /\ UNCHANGED <<queue, attempts, stalls, mails, reports, active, given>>
        /\ Fine
     \/ Throw(j) /\ UNCHANGED rows /\ Event
  /\ UNCHANGED ledger

(* EmailService.send: without a mail server it says accepted of a mail that*)
(* goes nowhere.  An error of the server is a refusal, also when the       *)
(* connection is lost after the mail was taken; one of the assertions      *)
(* before it reaches the catch block.                                      *)
Send(j) ==
  /\ run[j].at = "send"
  /\ \/ /\ smtp
        /\ \E taken, told \in BOOLEAN :
             /\ told => taken
             /\ IF told THEN Fine ELSE Event
             /\ mails' = IF taken THEN [mails EXCEPT ![j] = Append(@, Len(rows[j]))] ELSE mails
             /\ run' = [run EXCEPT ![j] = [@ EXCEPT !.at = "update",
                                                    !.result = IF told THEN "accepted" ELSE "refused"]]
     \/ /\ ~smtp
        /\ run' = [run EXCEPT ![j] = [@ EXCEPT !.at = "update", !.result = "simulated"]]
        /\ UNCHANGED mails
        /\ Fine
     \/ Move(j, "correct") /\ UNCHANGED mails /\ Event
  /\ UNCHANGED <<queue, attempts, stalls, rows, reports, ledger, active, given>>

(* The current row, changed by a statement that answers or, although it    *)
(* may have been carried out, fails.                                       *)
Put(j, row) == rows' = [rows EXCEPT ![j][Len(rows[j])] = row]

Answered(j, status) ==
  [rows[j][Len(rows[j])] EXCEPT
     !.status = status,
     !.mail = IF run[j].result = "accepted" THEN Len(mails[j]) ELSE 0,
     !.provider = IF run[j].result = "simulated" THEN "simulated" ELSE @]

(* Fault: whether the provider accepted the mail is not looked at. *)
Update_AlwaysSent(j) ==
  /\ run[j].at = "update"
  /\ \/ /\ Put(j, Answered(j, "SENT"))
        /\ (Move(j, "record") /\ Fine) \/ (Move(j, "correct") /\ Event)
     \/ UNCHANGED rows /\ Move(j, "correct") /\ Event
  /\ UNCHANGED <<queue, attempts, stalls, mails, reports, ledger, active, given>>

(* notification.update: SENT or FAILED, with the message of the provider *)
Update(j) ==
  LET ok == Channel(j) = "SYSTEM_ALERT" \/ run[j].result \in {"accepted", "simulated"} IN
  /\ run[j].at = "update"
  /\ \/ /\ Put(j, Answered(j, IF ok THEN "SENT" ELSE "FAILED"))
        /\ (Move(j, "record") /\ Fine) \/ (Move(j, "correct") /\ Event)
     \/ UNCHANGED rows /\ Move(j, "correct") /\ Event
  /\ UNCHANGED <<queue, attempts, stalls, mails, reports, ledger, active, given>>

(* Fault: a row that could not be updated is sent again. *)
Correct_SendsAgain(j) ==
  /\ run[j].at = "correct"
  /\ Move(j, IF Channel(j) = "EMAIL" THEN "send" ELSE "update")
  /\ UNCHANGED <<queue, attempts, stalls, rows, mails, reports, ledger, active, given, events>>

(* The catch block, whose own error ends sendNow. *)
Correct(j) ==
  /\ run[j].at = "correct"
  /\ \/ /\ Put(j, [rows[j][Len(rows[j])] EXCEPT !.status = "FAILED"])
        /\ \/ /\ run' = [run EXCEPT ![j] = [@ EXCEPT !.at = "record", !.result = "error"]]
              /\ UNCHANGED <<queue, attempts, stalls, mails, reports, active, given>>
              /\ Fine
           \/ Throw(j) /\ Event
     \/ UNCHANGED rows /\ Throw(j) /\ Event
  /\ UNCHANGED ledger

Entry(j) ==
  [row |-> <<j, Len(rows[j])>>,
   status |-> CASE run[j].result \in {"accepted", "simulated"} -> "ACCEPTED"
                [] run[j].result \in {"refused", "error"} -> "FAILED"
                [] OTHER -> "DELIVERED"]

(* recordDeliveryAttemptSafely, whose errors are not thrown. *)
Record(j) ==
  /\ run[j].at = "record"
  /\ \/ ledger' = ledger \union {Entry(j)} /\ Fine
     \/ UNCHANGED ledger /\ Event
  /\ Proceed(j, run[j].wanted, run[j].todo \ {Channel(j)})
  /\ UNCHANGED <<attempts, stalls, rows, mails, reports, active, given>>

Work(j) == Take(j) \/ Resolve(j) \/ Create(j) \/ Send(j) \/ Update(j) \/ Correct(j) \/ Record(j)

-------------------------------------------------------------------------------
(* updateProviderStatus: a report on a mail no row names is answered 404;  *)
(* the others are written in the order they arrive, whatever they say.     *)
Report(j, m, status) ==
  /\ m \in 1..Len(mails[j])
  /\ reports' = reports \union {[mail |-> <<j, m>>, status |-> status]}
  /\ Event
  /\ rows' = [rows EXCEPT ![j] = [k \in 1..Len(@) |->
       IF @[k].mail = m THEN [@[k] EXCEPT !.status = status] ELSE @[k]]]
  /\ UNCHANGED <<queue, attempts, stalls, run, mails, ledger, active, given>>

(* A user is deactivated, or activated again; a recipient who is an address*)
(* and no user always is active.                                           *)
Change(u) ==
  /\ active' \in {active \ {u}, active \union {u}} \ {active}
  /\ Event
  /\ UNCHANGED <<queue, attempts, stalls, run, rows, mails, reports, ledger, given>>

Busy(j) == run[j].at \notin {"idle", "told"}

(* The worker is gone, and a new one started, which takes what is waiting  *)
(* and may have been given, or have lost, its mail server.                 *)
Crash ==
  /\ \E j \in Jobs : Busy(j)
  /\ run' = [j \in Jobs |-> IF Busy(j) THEN Idle ELSE run[j]]
  /\ smtp' \in BOOLEAN
  /\ Event
  /\ UNCHANGED <<queue, attempts, stalls, rows, mails, reports, ledger, active, asked>>

(* BullMQ finds a job whose lock was not renewed. *)
Stalled(j) ==
  /\ queue[j] = "active" /\ run[j].at = "idle"
  /\ stalls' = [stalls EXCEPT ![j] = @ + 1]
  /\ queue' = [queue EXCEPT ![j] = IF stalls[j] < MaxStalls THEN "waiting" ELSE "failed"]
  /\ UNCHANGED <<attempts, run, rows, mails, reports, ledger, active, given, events>>

Next ==
  \/ \E j \in Jobs, channels \in (SUBSET Channels) \ {{}} : Enqueue(j, channels)
  \/ \E j \in Jobs : Skip(j) \/ Work(j) \/ Stalled(j)
  \/ \E j \in Jobs : \E m \in 1..Len(mails[j]), status \in Status : Report(j, m, status)
  \/ \E u \in Users : Change(u)
  \/ Crash

Spec == Init /\ [][Next]_vars

(* The worker works on, and BullMQ looks for stalled jobs every 30 seconds. *)
Fairness == \A j \in Jobs : WF_vars(Work(j)) /\ WF_vars(Stalled(j))
FairSpec == Spec /\ Fairness

-------------------------------------------------------------------------------
(* The shapes of the rows, the jobs and the mails. *)
TypeOK ==
  /\ queue \in [Jobs -> {"absent", "waiting", "active", "completed", "failed"}]
  /\ attempts \in [Jobs -> 0..MaxAttempts]
  /\ stalls \in [Jobs -> 0..MaxStalls + 1]
  /\ events \in 0..MaxEvents
  /\ \A j \in Jobs :
       /\ Len(run[j].wanted) \in 0..Len(Recipients[j])
       /\ run[j].from \in 0..Len(rows[j])
       /\ \A k \in 1..Len(rows[j]) :
            /\ rows[j][k].to \in 1..Len(Recipients[j])
            /\ rows[j][k].channel \in Channels
            /\ rows[j][k].status \in Status
            /\ rows[j][k].mail \in 0..Len(mails[j])
       /\ \A m \in 1..Len(mails[j]) : mails[j][m] \in 1..Len(rows[j])

(* What the try of a job that ended made of it: a row of its own for each  *)
(* channel each recipient wanted, and none that waits for its answer but   *)
(* by the word of the provider; those of earlier tries are counted.        *)
Reported(j, k, status) == [mail |-> <<j, rows[j][k].mail>>, status |-> status] \in reports
Open(j) == {k \in 1..Len(rows[j]) :
              rows[j][k].status = "PENDING" /\ ~Reported(j, k, "PENDING")}
RowsFor(j, n, channel) ==
  {k \in run[j].from + 1..Len(rows[j]) : rows[j][k].to = n /\ rows[j][k].channel = channel}

Handled(j) ==
  /\ Len(run[j].wanted) = Len(Recipients[j])
  /\ \A n \in 1..Len(Recipients[j]), channel \in Channels :
       Cardinality(RowsFor(j, n, channel)) = IF channel \in run[j].wanted[n] THEN 1 ELSE 0
  /\ \A k \in Open(j) : k <= run[j].from
  /\ Cardinality(Open(j)) <= attempts[j] + stalls[j]

(* A job the notification worker completed was handled: its last try made  *)
(* one row, sent or failed, for each channel a recipient wanted, nobody    *)
(* being left out or told twice by it, and a row is left without an answer *)
(* by no try but one that failed or whose worker was gone.                 *)
CompletedWasHandled == \A j \in Jobs : run[j].at = "told" => Handled(j)

(* The worker "processes notification.dispatch jobs from the integrations  *)
(* queue": a job that is completed was handled.                            *)
JobsAreProcessed ==
  \A j \in Jobs : queue[j] = "completed" => run[j].at = "told" /\ Handled(j)

(* A row claims no more than happened: what is SENT by mail was accepted,  *)
(* as the mail of that row, or is marked as simulated, what is DELIVERED or*)
(* BOUNCED was reported to be so, and the ledger says ACCEPTED of such rows*)
(* only.                                                                   *)
RowsAreTruthful ==
  \A j \in Jobs : \A k \in 1..Len(rows[j]) :
    LET row == rows[j][k] IN
    /\ row.mail # 0 => mails[j][row.mail] = k /\ row.provider = "smtp"
    /\ row.channel = "EMAIL" /\ row.status = "SENT" => row.mail # 0 \/ row.provider = "simulated"
    /\ row.status \in {"DELIVERED", "BOUNCED"} => Reported(j, k, row.status)
    /\ [row |-> <<j, k>>, status |-> "ACCEPTED"] \in ledger =>
         row.mail # 0 \/ row.provider = "simulated"

(* A recipient gets a mail for each try of the job at most, and a mail has *)
(* a row of its own: whatever is sent twice is counted and traced.         *)
Tries(j) == attempts[j] + stalls[j] + (IF queue[j] \in {"active", "completed"} THEN 1 ELSE 0)
MailsWithinTries ==
  \A j \in Jobs :
    /\ \A n \in 1..Len(Recipients[j]) :
         Cardinality({m \in 1..Len(mails[j]) : rows[j][mails[j][m]].to = n}) <= Tries(j)
    /\ \A m, q \in 1..Len(mails[j]) : mails[j][m] = mails[j][q] => m = q

(* Every job ends, completed or, after its attempts, failed.               *)
EveryJobEnds == \A j \in Jobs : queue[j] = "waiting" ~> queue[j] \in {"completed", "failed"}
===============================================================================
