------------------------- MODULE NotificationsProofs -------------------------
(***************************************************************************)
(* Theorems about Notifications, for any jobs, users and recipients, any   *)
(* number of attempts and of stalls, and however many faults there are.    *)
(***************************************************************************)
EXTENDS Notifications, FiniteSetTheorems, TLAPS

Steps == {"resolve", "create", "send", "update", "correct", "record"}
WithRow == {"send", "update", "correct", "record"}
Row == [to : Nat, channel : Channels, status : Status, mail : Nat,
        provider : {"system", "smtp", "simulated"}]
RunType == [at : Steps \union {"idle", "told"}, from : Nat, wanted : Seq(SUBSET Channels),
            todo : SUBSET Channels, result : {"none", "accepted", "refused", "simulated", "error"}]

Shape ==
  /\ queue \in [Jobs -> {"absent", "waiting", "active", "completed", "failed"}]
  /\ attempts \in [Jobs -> Nat]
  /\ stalls \in [Jobs -> Nat]
  /\ run \in [Jobs -> RunType]
  /\ rows \in [Jobs -> Seq(Row)]
  /\ mails \in [Jobs -> Seq(Nat)]
  /\ asked \in [Jobs -> SUBSET Channels]
  /\ events \in 0..MaxEvents

(* The recipient sendNow is at, the last whose channels it knows.           *)
At(j) == Len(run[j].wanted)
Taken(j) == run[j].result \in {"accepted", "simulated"}

(* A job that may still be run has tries left; sendNow runs for an active   *)
(* job, has channels to serve unless it is between two recipients, and has  *)
(* an answer of the provider only after it sent a mail.                     *)
Placed(j) ==
  /\ attempts[j] <= MaxAttempts /\ stalls[j] <= MaxStalls + 1
  /\ queue[j] \in {"absent", "waiting", "active"} => attempts[j] < MaxAttempts /\ stalls[j] <= MaxStalls
  /\ run[j].at = "idle" => run[j] = Idle
  /\ run[j].at = "told" => queue[j] = "completed" /\ run[j].todo = {} /\ At(j) = Len(Recipients[j])
  /\ run[j].at \in Steps => queue[j] = "active" /\ At(j) <= Len(Recipients[j])
  /\ run[j].at = "resolve" => run[j].todo = {} /\ At(j) < Len(Recipients[j])
  /\ run[j].at \in Steps \ {"resolve"} =>
       At(j) # 0 /\ run[j].todo # {} /\ run[j].todo \subseteq run[j].wanted[At(j)]
  /\ run[j].at = "send" => Channel(j) = "EMAIL"
  /\ Taken(j) => run[j].at \in {"update", "correct", "record"} /\ Channel(j) = "EMAIL"

Backed(row) == row.mail # 0 \/ row.provider = "simulated"

(* The last row is the one sendNow works on: it names no mail before it is  *)
(* updated, and its mail is the last.                                       *)
Current(j) ==
  LET last == Len(rows[j]) IN
  run[j].at \in WithRow =>
    /\ last # 0
    /\ rows[j][last].to = At(j)
    /\ rows[j][last].channel = Channel(j)
    /\ run[j].at \in {"send", "update"} =>
         rows[j][last].mail = 0 /\ (Channel(j) = "EMAIL" => rows[j][last].provider = "smtp")
    /\ run[j].at = "send" => \A m \in 1..Len(mails[j]) : mails[j][m] # last
    /\ run[j].at = "update" /\ run[j].result = "accepted" =>
         Len(mails[j]) # 0 /\ mails[j][Len(mails[j])] = last
    /\ run[j].at = "record" => last \notin Open(j)
    /\ run[j].at = "record" /\ Taken(j) => Backed(rows[j][last])

(* What the rows, the mails and the ledger say of one another.              *)
RowTraced(j, k) ==
  /\ rows[j][k].to \in 1..Len(Recipients[j])
  /\ rows[j][k].mail # 0 =>
       /\ rows[j][k].mail \in 1..Len(mails[j]) /\ mails[j][rows[j][k].mail] = k
       /\ rows[j][k].provider = "smtp"
  /\ rows[j][k].channel = "EMAIL" /\ rows[j][k].status = "SENT" => Backed(rows[j][k])
  /\ rows[j][k].status \in {"DELIVERED", "BOUNCED"} => Reported(j, k, rows[j][k].status)

Traced(j) ==
  /\ \A k \in 1..Len(rows[j]) : RowTraced(j, k)
  /\ \A m \in 1..Len(mails[j]) : mails[j][m] \in 1..Len(rows[j])
  /\ \A m, q \in 1..Len(mails[j]) : mails[j][m] = mails[j][q] => m = q

Recorded(j) ==
  \A e \in ledger : e.row[1] = j /\ e.status = "ACCEPTED" =>
    e.row[2] \in 1..Len(rows[j]) /\ Backed(rows[j][e.row[2]])

(* A row was left open by a try that failed; the row a try is at may be     *)
(* left by it.                                                              *)
AtRow(j) == queue[j] = "active" /\ run[j].at \notin {"resolve", "create"}
LeftOpen(j) == {k \in Open(j) : ~(AtRow(j) /\ k = Len(rows[j]))}
OpenCounted(j) == Cardinality(LeftOpen(j)) <= attempts[j] + stalls[j]

(* The try has one row for each channel it is past or at, and no other, and *)
(* leaves none open behind it.                                              *)
Done(j, n, channel) ==
  /\ n \in 1..At(j) /\ channel \in run[j].wanted[n]
  /\ n = At(j) => channel \notin run[j].todo \/ (run[j].at \in WithRow /\ channel = Channel(j))

Exact(j) ==
  run[j].at \in Steps \union {"told"} =>
    /\ run[j].from <= Len(rows[j])
    /\ \A n \in 1..Len(Recipients[j]), channel \in Channels :
         IF Done(j, n, channel) THEN \E k \in 1..Len(rows[j]) : RowsFor(j, n, channel) = {k}
                                ELSE RowsFor(j, n, channel) = {}
    /\ \A k \in LeftOpen(j) : k <= run[j].from

(* A mail was sent to a recipient by a try that failed, or by this one.     *)
MailsTo(j, n) == {m \in 1..Len(mails[j]) : rows[j][mails[j][m]].to = n}
Sent(j, n) ==
  \/ queue[j] = "completed"
  \/ /\ queue[j] = "active"
     /\ \/ run[j].at = "idle" \/ At(j) > n
        \/ At(j) = n /\ run[j].at = "resolve"
        \/ At(j) = n /\ Channel(j) = "EMAIL" /\ run[j].at \in {"update", "correct", "record"}
MailsCounted(j) ==
  \A n \in 1..Len(Recipients[j]) :
    Cardinality(MailsTo(j, n)) <= attempts[j] + stalls[j] + (IF Sent(j, n) THEN 1 ELSE 0)

JobInv(j) ==
  /\ Placed(j)
  /\ Current(j)
  /\ Traced(j)
  /\ Recorded(j)
  /\ Exact(j)
  /\ OpenCounted(j)
  /\ MailsCounted(j)

Inv == Shape /\ \A j \in Jobs : JobInv(j)

-------------------------------------------------------------------------------
(* What a step leaves of a job it is not about.                             *)
Untouched(i) ==
  /\ queue'[i] = queue[i]
  /\ attempts'[i] = attempts[i]
  /\ stalls'[i] = stalls[i]
  /\ run'[i] = run[i]
  /\ rows'[i] = rows[i]
  /\ mails'[i] = mails[i]

(* The ledger says nothing new of a row of job i.                           *)
NothingRecorded(i) == \A e \in ledger' : e \in ledger \/ e.row[1] # i

(* A row says what it said, and no mail is gone.                            *)
LEMMA RowKept ==
  ASSUME NEW j \in Jobs, NEW k, RowTraced(j, k), rows'[j][k] = rows[j][k],
         Len(mails[j]) \in Nat, Len(mails'[j]) \in Nat, Len(mails[j]) <= Len(mails'[j]),
         \A m \in 1..Len(mails[j]) : mails'[j][m] = mails[j][m], reports \subseteq reports'
  PROVE  RowTraced(j, k)'
<1>. DEFINE row == rows[j][k]
<1>1. row.mail # 0 =>
        row.mail \in 1..Len(mails[j]) /\ mails[j][row.mail] = k /\ row.provider = "smtp"
  BY DEF RowTraced
<1>2. row.mail # 0 => row.mail \in 1..Len(mails'[j]) /\ mails'[j][row.mail] = k
  BY <1>1
<1>3. row.status \in {"DELIVERED", "BOUNCED"} => Reported(j, k, row.status)'
  BY DEF RowTraced, Reported
<1>4. /\ row.to \in 1..Len(Recipients[j])
      /\ row.channel = "EMAIL" /\ row.status = "SENT" => Backed(row)
  BY DEF RowTraced
<1>. QED  BY <1>1, <1>2, <1>3, <1>4 DEF RowTraced, Backed

LEMMA TraceKept ==
  ASSUME Shape, NEW j \in Jobs, Traced(j), rows'[j] = rows[j], mails'[j] = mails[j], reports \subseteq reports'
  PROVE  Traced(j)'
<1>1. Len(mails[j]) \in Nat
  BY DEF Shape
<1>2. ASSUME NEW k \in 1..Len(rows[j]) PROVE RowTraced(j, k)'
  BY <1>1, RowKept DEF Traced
<1>. QED  BY <1>2 DEF Traced

(* Rows that stay as they are, and those that are settled, are not opened.  *)
LEMMA OpenShrinks ==
  ASSUME Shape, NEW j \in Jobs, Len(rows'[j]) = Len(rows[j]), reports \subseteq reports',
         \A k \in 1..Len(rows[j]) : rows'[j][k] = rows[j][k] \/ k \notin Open(j)'
  PROVE  Open(j)' \subseteq Open(j)
<1>. SUFFICES ASSUME NEW k \in Open(j)' PROVE k \in Open(j)
  OBVIOUS
<1>1. /\ k \in 1..Len(rows'[j]) /\ rows'[j][k].status = "PENDING"
      /\ ~([mail |-> <<j, rows'[j][k].mail>>, status |-> "PENDING"] \in reports')
  BY DEF Open, Reported
<1>2. rows'[j][k] = rows[j][k]
  BY <1>1
<1>. QED  BY <1>1, <1>2 DEF Open, Reported

(* The rows of the try for a channel stay the same when none is added.      *)
LEMMA RowsForKept ==
  ASSUME NEW j \in Jobs, run'[j].from = run[j].from, Len(rows'[j]) = Len(rows[j]),
         Len(rows[j]) \in Nat, run[j].from \in Nat,
         \A k \in 1..Len(rows[j]) : rows'[j][k].to = rows[j][k].to /\ rows'[j][k].channel = rows[j][k].channel,
         NEW n, NEW channel
  PROVE  RowsFor(j, n, channel)' = RowsFor(j, n, channel)
<1>1. \A k \in run[j].from + 1..Len(rows[j]) : k \in 1..Len(rows[j])
  OBVIOUS
<1>. QED  BY <1>1 DEF RowsFor

LEMMA ExactKept ==
  ASSUME Shape, NEW j \in Jobs, Exact(j), run[j].at \in Steps \union {"told"}, run'[j].from = run[j].from,
         Len(rows'[j]) = Len(rows[j]),
         \A k \in 1..Len(rows[j]) : rows'[j][k].to = rows[j][k].to /\ rows'[j][k].channel = rows[j][k].channel,
         \A n \in 1..Len(Recipients[j]), channel \in Channels :
           Done(j, n, channel)' <=> Done(j, n, channel),
         LeftOpen(j)' \subseteq LeftOpen(j)
  PROVE  Exact(j)'
<1>1. Len(rows[j]) \in Nat /\ run[j].from \in Nat
  BY DEF Shape, RunType
<1>2. \A n, channel : RowsFor(j, n, channel)' = RowsFor(j, n, channel)
  BY <1>1, RowsForKept
<1>3. ASSUME NEW n \in 1..Len(Recipients[j]), NEW channel \in Channels
      PROVE  IF Done(j, n, channel)' THEN \E k \in 1..Len(rows'[j]) : RowsFor(j, n, channel)' = {k}
                                     ELSE RowsFor(j, n, channel)' = {}
  BY <1>2 DEF Exact
<1>. QED  BY <1>3 DEF Exact

(* Rows are left open one at a time, by a try that is counted.              *)
LEMMA OpenIsFinite ==
  ASSUME Shape, NEW j \in Jobs
  PROVE  IsFiniteSet(LeftOpen(j)) /\ Cardinality(LeftOpen(j)) \in Nat
<1>1. LeftOpen(j) \subseteq 1..Len(rows[j]) /\ Len(rows[j]) \in Nat
  BY DEF LeftOpen, Open, Shape
<1>2. IsFiniteSet(1..Len(rows[j]))
  BY <1>1, FS_Interval
<1>. QED  BY <1>1, <1>2, FS_Subset, FS_CardinalityType

LEMMA UntouchedKeeps ==
  ASSUME Shape, NEW i \in Jobs, JobInv(i), Untouched(i), reports \subseteq reports', NothingRecorded(i)
  PROVE  JobInv(i)'
<1>1. Open(i)' \subseteq Open(i)
  BY OpenShrinks DEF Untouched
<1>2. LeftOpen(i)' \subseteq LeftOpen(i)
  BY <1>1 DEF LeftOpen, AtRow, Untouched
<1>3. Placed(i)'
  BY DEF JobInv, Placed, At, Taken, Channel, Untouched
<1>4. Current(i)'
  BY <1>1 DEF JobInv, Current, At, Taken, Channel, Backed, Untouched
<1>5. Traced(i)'
  BY TraceKept DEF JobInv, Untouched
<1>6. Recorded(i)'
  BY DEF JobInv, Recorded, Untouched, NothingRecorded
<1>7. Exact(i)'
  <2>1. CASE run[i].at \in Steps \union {"told"}
    <3>1. \A n, channel : Done(i, n, channel)' <=> Done(i, n, channel)
      BY DEF Done, At, Channel, Untouched
    <3>. QED  BY <1>2, <2>1, <3>1, ExactKept DEF JobInv, Untouched
  <2>2. CASE run[i].at \notin Steps \union {"told"}
    BY <2>2 DEF Exact, Untouched
  <2>. QED  BY <2>1, <2>2
<1>8. OpenCounted(i)'
  <2>1. IsFiniteSet(LeftOpen(i))
    BY OpenIsFinite
  <2>2. /\ IsFiniteSet(LeftOpen(i)') /\ Cardinality(LeftOpen(i)') <= Cardinality(LeftOpen(i))
        /\ Cardinality(LeftOpen(i)) \in Nat /\ Cardinality(LeftOpen(i)') \in Nat
    BY <1>2, <2>1, FS_Subset, FS_CardinalityType
  <2>. QED  BY <2>2 DEF JobInv, OpenCounted, Untouched, Shape
<1>9. ASSUME NEW n PROVE MailsTo(i, n)' = MailsTo(i, n) /\ Sent(i, n)' = Sent(i, n)
  BY DEF MailsTo, Sent, At, Channel, Untouched
<1>10. MailsCounted(i)'
  BY <1>9 DEF JobInv, MailsCounted, Untouched
<1>. QED  BY <1>3, <1>4, <1>5, <1>6, <1>7, <1>8, <1>10 DEF JobInv

LEMMA NoneLeft ==
  ASSUME Shape, NEW j \in Jobs, OpenCounted(j), LeftOpen(j)' \subseteq LeftOpen(j),
         attempts'[j] \in Nat, stalls'[j] \in Nat,
         attempts[j] + stalls[j] <= attempts'[j] + stalls'[j]
  PROVE  OpenCounted(j)'
<1>1. IsFiniteSet(LeftOpen(j)) /\ Cardinality(LeftOpen(j)) \in Nat
  BY OpenIsFinite
<1>2. Cardinality(LeftOpen(j)') <= Cardinality(LeftOpen(j)) /\ IsFiniteSet(LeftOpen(j)')
  BY <1>1, FS_Subset
<1>3. Cardinality(LeftOpen(j)') \in Nat
  BY <1>2, FS_CardinalityType
<1>. QED  BY <1>1, <1>2, <1>3 DEF OpenCounted, Shape

LEMMA NoneLeftInTry ==
  ASSUME Shape, NEW j \in Jobs, OpenCounted(j), LeftOpen(j)' \subseteq LeftOpen(j),
         attempts'[j] = attempts[j], stalls'[j] = stalls[j]
  PROVE  OpenCounted(j)'
<1>1. attempts[j] \in Nat /\ stalls[j] \in Nat /\ attempts[j] + stalls[j] <= attempts'[j] + stalls'[j]
  BY DEF Shape
<1>. QED  BY <1>1, NoneLeft

LEMMA OneLeft ==
  ASSUME Shape, NEW j \in Jobs, OpenCounted(j), NEW k, LeftOpen(j)' \subseteq LeftOpen(j) \union {k},
         attempts'[j] \in Nat, stalls'[j] \in Nat,
         attempts[j] + stalls[j] + 1 <= attempts'[j] + stalls'[j]
  PROVE  OpenCounted(j)'
<1>. DEFINE S == LeftOpen(j) \union {k}
<1>1. IsFiniteSet(LeftOpen(j)) /\ Cardinality(LeftOpen(j)) \in Nat
  BY OpenIsFinite
<1>2. IsFiniteSet(S) /\ Cardinality(S) <= Cardinality(LeftOpen(j)) + 1 /\ Cardinality(S) \in Nat
  <2>1. /\ IsFiniteSet(S)
        /\ Cardinality(S) = IF k \in LeftOpen(j) THEN Cardinality(LeftOpen(j))
                                                 ELSE Cardinality(LeftOpen(j)) + 1
    BY <1>1, FS_AddElement
  <2>. QED  BY <1>1, <2>1
<1>3. Cardinality(LeftOpen(j)') <= Cardinality(S) /\ IsFiniteSet(LeftOpen(j)')
  BY <1>2, FS_Subset
<1>4. Cardinality(LeftOpen(j)') \in Nat
  BY <1>3, FS_CardinalityType
<1>. QED  BY <1>1, <1>2, <1>3, <1>4 DEF OpenCounted, Shape

(* A step that sends nothing may not take a try off the count.              *)
Count(j, n) == attempts[j] + stalls[j] + (IF Sent(j, n) THEN 1 ELSE 0)

LEMMA MailsAreFinite ==
  ASSUME Shape, NEW j \in Jobs, NEW n
  PROVE  IsFiniteSet(MailsTo(j, n)) /\ Cardinality(MailsTo(j, n)) \in Nat
<1>1. MailsTo(j, n) \subseteq 1..Len(mails[j]) /\ Len(mails[j]) \in Nat
  BY DEF MailsTo, Shape
<1>2. IsFiniteSet(1..Len(mails[j]))
  BY <1>1, FS_Interval
<1>. QED  BY <1>1, <1>2, FS_Subset, FS_CardinalityType

LEMMA NothingSent ==
  ASSUME Shape, Shape', NEW j \in Jobs, Traced(j), MailsCounted(j), mails'[j] = mails[j],
         \A k \in 1..Len(rows[j]) : rows'[j][k].to = rows[j][k].to,
         \A n \in 1..Len(Recipients[j]) : Count(j, n) <= Count(j, n)'
  PROVE  MailsCounted(j)'
<1>. SUFFICES ASSUME NEW n \in 1..Len(Recipients[j])
              PROVE  Cardinality(MailsTo(j, n)') <= Count(j, n)'
  BY DEF MailsCounted, Count
<1>1. MailsTo(j, n)' = MailsTo(j, n)
  BY DEF MailsTo, Traced
<1>2. Cardinality(MailsTo(j, n)) <= Count(j, n) /\ Cardinality(MailsTo(j, n)) \in Nat
  BY MailsAreFinite DEF MailsCounted, Count
<1>3. Count(j, n) \in Nat /\ Count(j, n)' \in Nat
  <2>1. attempts[j] \in Nat /\ stalls[j] \in Nat /\ attempts'[j] \in Nat /\ stalls'[j] \in Nat
    BY DEF Shape
  <2>2. Count(j, n) \in Nat
    BY <2>1 DEF Count
  <2>3. Count(j, n)' \in Nat
    BY <2>1 DEF Count
  <2>. QED  BY <2>2, <2>3
<1>. QED  BY <1>1, <1>2, <1>3

LEMMA CountKept ==
  ASSUME Shape, NEW j \in Jobs, NEW n, attempts'[j] = attempts[j], stalls'[j] = stalls[j],
         Sent(j, n) => Sent(j, n)'
  PROVE  Count(j, n) <= Count(j, n)'
<1>1. attempts[j] \in Nat /\ stalls[j] \in Nat
  BY DEF Shape
<1>. QED  BY <1>1 DEF Count

(* Rows that name a mail, or are marked, go on to be so.                    *)
LEMMA RecordKept ==
  ASSUME NEW j \in Jobs, Recorded(j), NothingRecorded(j), Len(rows[j]) \in Nat, Len(rows'[j]) \in Nat,
         Len(rows[j]) <= Len(rows'[j]),
         \A k \in 1..Len(rows[j]) : Backed(rows[j][k]) => Backed(rows'[j][k])
  PROVE  Recorded(j)'
<1>. SUFFICES ASSUME NEW e \in ledger', e.row[1] = j, e.status = "ACCEPTED"
              PROVE  e.row[2] \in 1..Len(rows'[j]) /\ Backed(rows'[j][e.row[2]])
  BY DEF Recorded, Backed
<1>1. e \in ledger
  BY DEF NothingRecorded
<1>2. e.row[2] \in 1..Len(rows[j]) /\ Backed(rows[j][e.row[2]])
  BY <1>1 DEF Recorded
<1>. QED  BY <1>2 DEF Backed

-------------------------------------------------------------------------------
(* What the statements do to the rows and to where sendNow is.              *)
LEMMA RowOf ==
  ASSUME Shape, NEW j \in Jobs
  PROVE  /\ rows[j] \in Seq(Row) /\ Len(rows[j]) \in Nat
         /\ \A k \in 1..Len(rows[j]) : rows[j][k] \in Row
         /\ mails[j] \in Seq(Nat) /\ Len(mails[j]) \in Nat
         /\ \A m \in 1..Len(mails[j]) : mails[j][m] \in Nat
BY DEF Shape

LEMMA RunOf ==
  ASSUME Shape, NEW j \in Jobs
  PROVE  /\ run[j] \in RunType /\ At(j) \in Nat /\ run[j].from \in Nat
         /\ run[j].wanted \in Seq(SUBSET Channels) /\ run[j].todo \subseteq Channels
         /\ Channel(j) \in Channels /\ (run[j].todo # {} => Channel(j) \in run[j].todo)
         /\ Len(Recipients[j]) \in Nat /\ Len(Recipients[j]) # 0
<1>1. run[j] \in RunType
  BY DEF Shape
<1>2. run[j].wanted \in Seq(SUBSET Channels) /\ run[j].todo \subseteq Channels /\ run[j].from \in Nat
  BY <1>1 DEF RunType
<1>3. Recipients[j] \in Seq(Users) /\ Recipients[j] # <<>>
  BY RecipientsAssumption
<1>. QED  BY <1>1, <1>2, <1>3 DEF At, Channel, Channels

(* The rows of a job after one was put in the place of its last.            *)
LEMMA PutIs ==
  ASSUME Shape, NEW j \in Jobs, Len(rows[j]) # 0, NEW row \in Row, Put(j, row)
  PROVE  /\ rows' \in [Jobs -> Seq(Row)]
         /\ \A i \in Jobs \ {j} : rows'[i] = rows[i]
         /\ Len(rows'[j]) = Len(rows[j])
         /\ \A k \in 1..Len(rows[j]) : rows'[j][k] = IF k = Len(rows[j]) THEN row ELSE rows[j][k]
<1>. DEFINE last == Len(rows[j])
<1>1. last \in 1..last
  BY RowOf
<1>2. rows' = [rows EXCEPT ![j] = [rows[j] EXCEPT ![last] = row]]
  BY DEF Put
<1>3. rows'[j] = [rows[j] EXCEPT ![last] = row] /\ \A i \in Jobs \ {j} : rows'[i] = rows[i]
  BY <1>2 DEF Shape
<1>4. [rows[j] EXCEPT ![last] = row] \in Seq(Row) /\ Len([rows[j] EXCEPT ![last] = row]) = last
  BY <1>1, RowOf
<1>5. rows' \in [Jobs -> Seq(Row)]
  BY <1>2, <1>4 DEF Shape
<1>6. ASSUME NEW k \in 1..last
      PROVE  rows'[j][k] = IF k = last THEN row ELSE rows[j][k]
  BY <1>3, RowOf
<1>. QED  BY <1>3, <1>4, <1>5, <1>6

LEMMA NewRowIs ==
  ASSUME Shape, NEW j \in Jobs, rows' = [rows EXCEPT ![j] = Append(@, NewRow(j))]
  PROVE  /\ rows' \in [Jobs -> Seq(Row)]
         /\ \A i \in Jobs \ {j} : rows'[i] = rows[i]
         /\ Len(rows'[j]) = Len(rows[j]) + 1
         /\ \A k \in 1..Len(rows[j]) : rows'[j][k] = rows[j][k]
         /\ rows'[j][Len(rows[j]) + 1] = NewRow(j)
<1>1. NewRow(j) \in Row
  BY RunOf DEF NewRow, Row, Status, At
<1>2. Append(rows[j], NewRow(j)) \in Seq(Row)
  BY <1>1, RowOf
<1>3. rows'[j] = Append(rows[j], NewRow(j)) /\ \A i \in Jobs \ {j} : rows'[i] = rows[i]
  BY DEF Shape
<1>. QED  BY <1>1, <1>2, <1>3, RowOf DEF Shape

LEMMA MailIs ==
  ASSUME Shape, NEW j \in Jobs, mails' = [mails EXCEPT ![j] = Append(@, Len(rows[j]))]
  PROVE  /\ mails' \in [Jobs -> Seq(Nat)]
         /\ \A i \in Jobs \ {j} : mails'[i] = mails[i]
         /\ Len(mails'[j]) = Len(mails[j]) + 1
         /\ \A m \in 1..Len(mails[j]) : mails'[j][m] = mails[j][m]
         /\ mails'[j][Len(mails[j]) + 1] = Len(rows[j])
<1>1. Append(mails[j], Len(rows[j])) \in Seq(Nat)
  BY RowOf
<1>2. mails'[j] = Append(mails[j], Len(rows[j])) /\ \A i \in Jobs \ {j} : mails'[i] = mails[i]
  BY DEF Shape
<1>. QED  BY <1>1, <1>2, RowOf DEF Shape

LEMMA ReportIs ==
  ASSUME Shape, NEW j \in Jobs, NEW m \in Nat, NEW status \in Status, Report(j, m, status)
  PROVE  /\ rows' \in [Jobs -> Seq(Row)]
         /\ \A i \in Jobs \ {j} : rows'[i] = rows[i]
         /\ Len(rows'[j]) = Len(rows[j])
         /\ \A k \in 1..Len(rows[j]) :
              /\ rows'[j][k].to = rows[j][k].to
              /\ rows'[j][k].channel = rows[j][k].channel
              /\ rows'[j][k].provider = rows[j][k].provider
              /\ rows'[j][k].mail = rows[j][k].mail
              /\ rows[j][k].mail = m => rows'[j][k].status = status
              /\ rows[j][k].mail # m => rows'[j][k] = rows[j][k]
<1>. DEFINE last == Len(rows[j])
            row(k) == IF rows[j][k].mail = m THEN [rows[j][k] EXCEPT !.status = status] ELSE rows[j][k]
            s == [k \in 1..last |-> row(k)]
<1>1. rows' = [rows EXCEPT ![j] = s]
  BY DEF Report, Shape
<1>2. ASSUME NEW k \in 1..last
      PROVE  /\ row(k) \in Row
             /\ row(k).to = rows[j][k].to /\ row(k).channel = rows[j][k].channel
             /\ row(k).provider = rows[j][k].provider /\ row(k).mail = rows[j][k].mail
             /\ rows[j][k].mail = m => row(k).status = status
             /\ rows[j][k].mail # m => row(k) = rows[j][k]
  <2>1. rows[j][k] \in Row
    BY RowOf
  <2>. QED  BY <2>1 DEF Row
<1>3. s \in Seq(Row) /\ Len(s) = last /\ \A k \in 1..last : s[k] = row(k)
  <2>. HIDE DEF row
  <2>1. s \in [1..last -> Row] /\ last \in Nat
    BY <1>2, RowOf
  <2>. QED  BY <2>1
<1>4. rows'[j] = s /\ \A i \in Jobs \ {j} : rows'[i] = rows[i]
  BY <1>1 DEF Shape
<1>. HIDE DEF s, row
<1>5. rows' \in [Jobs -> Seq(Row)]
  BY <1>1, <1>3 DEF Shape
<1>. QED  BY <1>2, <1>3, <1>4, <1>5

(* sendNow goes on to another place, at the same recipient and channel.     *)
Stays(j) ==
  /\ run'[j].from = run[j].from /\ run'[j].wanted = run[j].wanted /\ run'[j].todo = run[j].todo
  /\ At(j)' = At(j) /\ Channel(j)' = Channel(j)

LEMMA GoesIs ==
  ASSUME Shape, NEW j \in Jobs, NEW at \in Steps,
         NEW result \in {"none", "accepted", "refused", "simulated", "error"},
         run' = [run EXCEPT ![j] = [@ EXCEPT !.at = at, !.result = result]]
  PROVE  /\ run' \in [Jobs -> RunType]
         /\ \A i \in Jobs \ {j} : run'[i] = run[i]
         /\ run'[j].at = at /\ run'[j].result = result /\ Stays(j)
<1>. DEFINE new == [run[j] EXCEPT !.at = at, !.result = result]
<1>1. /\ new \in RunType /\ new.at = at /\ new.result = result
      /\ new.from = run[j].from /\ new.wanted = run[j].wanted /\ new.todo = run[j].todo
  BY RunOf DEF RunType
<1>2. run' = [run EXCEPT ![j] = new]
  OBVIOUS
<1>. HIDE DEF new
<1>3. run' \in [Jobs -> RunType] /\ run'[j] = new /\ \A i \in Jobs \ {j} : run'[i] = run[i]
  BY <1>1, <1>2 DEF Shape
<1>. QED  BY <1>1, <1>3 DEF Stays, At, Channel

LEMMA MoveIs ==
  ASSUME Shape, NEW j \in Jobs, NEW at \in Steps, Move(j, at)
  PROVE  /\ run' \in [Jobs -> RunType]
         /\ \A i \in Jobs \ {j} : run'[i] = run[i]
         /\ run'[j].at = at /\ run'[j].result = run[j].result /\ Stays(j)
<1>1. run[j] \in RunType /\ run[j].result \in {"none", "accepted", "refused", "simulated", "error"}
  BY RunOf DEF RunType
<1>2. [run[j] EXCEPT !.at = at] = [run[j] EXCEPT !.at = at, !.result = run[j].result]
  BY <1>1 DEF RunType
<1>3. run' = [run EXCEPT ![j] = [run[j] EXCEPT !.at = at]]
  BY DEF Move
<1>4. run' = [run EXCEPT ![j] = [@ EXCEPT !.at = at, !.result = run[j].result]]
  BY <1>2, <1>3
<1>. QED  BY <1>1, <1>4, GoesIs

LEMMA IdleIs ==
  /\ Idle \in RunType /\ Idle.at = "idle" /\ Idle.result = "none" /\ Idle.todo = {}
  /\ Idle.wanted = <<>> /\ Idle.from = 0
BY DEF Idle, RunType, Steps, Channels

LEMMA ThrowIs ==
  ASSUME Shape, NEW j \in Jobs, Throw(j)
  PROVE  /\ attempts'[j] = attempts[j] + 1 /\ stalls'[j] = stalls[j] /\ run'[j] = Idle
         /\ queue'[j] = IF attempts[j] + 1 < MaxAttempts THEN "waiting" ELSE "failed"
         /\ mails' = mails /\ reports' = reports /\ asked' = asked
         /\ \A i \in Jobs \ {j} :
              /\ queue'[i] = queue[i] /\ attempts'[i] = attempts[i] /\ stalls'[i] = stalls[i]
              /\ run'[i] = run[i] /\ mails'[i] = mails[i]
         /\ queue' \in [Jobs -> {"absent", "waiting", "active", "completed", "failed"}]
         /\ attempts' \in [Jobs -> Nat] /\ stalls' \in [Jobs -> Nat]
         /\ run' \in [Jobs -> RunType] /\ mails' \in [Jobs -> Seq(Nat)]
BY IdleIs DEF Throw, Shape, given

LEMMA EventsIs ==
  ASSUME Shape, Event \/ Fine
  PROVE  events' \in 0..MaxEvents
BY BoundsAssumption DEF Shape, Event, Fine

(* A try that throws, with its row changed by the catch block or not.       *)
LEMMA ThrowKeeps ==
  ASSUME Shape, Shape', NEW j \in Jobs, JobInv(j), run[j].at \in Steps, Throw(j), ledger' = ledger,
         Traced(j)', Len(rows'[j]) = Len(rows[j]),
         \A k \in 1..Len(rows[j]) :
           rows'[j][k].to = rows[j][k].to /\ (Backed(rows[j][k]) => Backed(rows'[j][k])),
         Open(j)' \subseteq Open(j)
  PROVE  JobInv(j)'
<1>1. /\ attempts[j] < MaxAttempts /\ stalls[j] <= MaxStalls /\ queue[j] = "active"
      /\ attempts[j] \in Nat /\ stalls[j] \in Nat
  BY DEF JobInv, Placed, Shape
<1>2. Placed(j)'
  BY <1>1, ThrowIs, IdleIs, BoundsAssumption DEF Placed, Steps, Taken
<1>3. Current(j)' /\ Exact(j)'
  BY ThrowIs, IdleIs DEF Current, Exact, Steps, WithRow
<1>4. Recorded(j)'
  BY RecordKept, RowOf DEF JobInv, NothingRecorded
<1>5. OpenCounted(j)'
  <2>1. LeftOpen(j)' \subseteq LeftOpen(j) \union {Len(rows[j])}
    BY DEF LeftOpen
  <2>2. attempts'[j] \in Nat /\ stalls'[j] \in Nat /\ attempts[j] + stalls[j] + 1 <= attempts'[j] + stalls'[j]
    BY <1>1, ThrowIs
  <2>. QED  BY <2>1, <2>2, OneLeft DEF JobInv
<1>6. MailsCounted(j)'
  <2>1. ASSUME NEW n \in 1..Len(Recipients[j]) PROVE Count(j, n) <= Count(j, n)'
    BY <1>1, ThrowIs DEF Count
  <2>. QED  BY <2>1, NothingSent, ThrowIs DEF JobInv
<1>. QED  BY <1>2, <1>3, <1>4, <1>5, <1>6 DEF JobInv

-------------------------------------------------------------------------------
(* Step by step: what a step on job j keeps of j, and that it is about j.   *)
Only(j) ==
  /\ Shape'
  /\ reports \subseteq reports'
  /\ \A i \in Jobs \ {j} : Untouched(i) /\ NothingRecorded(i)

(* Steps of the queue, which send nothing and change no row.                *)
LEMMA QueueStep ==
  ASSUME Shape, NEW j \in Jobs, JobInv(j),
         (\E channels \in SUBSET Channels : Enqueue(j, channels)) \/ Skip(j) \/ Take(j) \/ Stalled(j)
  PROVE  Only(j) /\ JobInv(j)'
<1>. DEFINE states == {"absent", "waiting", "active", "completed", "failed"}
            Enqueued == \E channels \in SUBSET Channels : Enqueue(j, channels)
<1>1. /\ queue \in [Jobs -> states] /\ attempts[j] \in Nat /\ stalls[j] \in Nat
      /\ run[j] \in RunType /\ Len(rows[j]) \in Nat
  BY DEF Shape
<1>2. /\ rows' = rows /\ mails' = mails /\ reports' = reports /\ ledger' = ledger /\ attempts' = attempts
      /\ events' = events /\ asked' \in [Jobs -> SUBSET Channels]
      /\ \A i \in Jobs \ {j} : queue'[i] = queue[i] /\ stalls'[i] = stalls[i] /\ run'[i] = run[i]
  BY DEF Enqueue, Skip, Take, Stalled, Shape, given
<1>3. Open(j)' = Open(j)
  BY <1>2 DEF Open, Reported
<1>4. Traced(j)' /\ Recorded(j)'
  BY <1>2, TraceKept, RecordKept, RowOf DEF JobInv, NothingRecorded
<1>5. CASE Enqueued \/ Skip(j)
  <2>1. /\ queue[j] \in {"absent", "waiting"} /\ queue' \in [Jobs -> states]
        /\ queue'[j] \in {"waiting", "completed"}
        /\ stalls' = stalls /\ run' = run
    BY <1>1, <1>5 DEF Enqueue, Skip
  <2>2. Only(j)
    BY <1>2, <2>1 DEF Only, Shape, Untouched, NothingRecorded
  <2>3. run[j] = Idle
    BY <1>1, <2>1 DEF JobInv, Placed, RunType
  <2>4. Placed(j)' /\ Current(j)' /\ Exact(j)'
    BY <1>2, <2>1, <2>3, IdleIs DEF JobInv, Placed, Current, Exact, Steps, WithRow, Taken
  <2>5. OpenCounted(j)'
    <3>1. LeftOpen(j)' \subseteq LeftOpen(j)
      BY <1>2, <1>3, <2>1 DEF LeftOpen, AtRow
    <3>. QED  BY <1>1, <1>2, <2>1, <3>1, NoneLeft DEF JobInv
  <2>6. MailsCounted(j)'
    <3>1. ASSUME NEW n \in 1..Len(Recipients[j]) PROVE Count(j, n) <= Count(j, n)'
      BY <1>1, <1>2, <2>1 DEF Count, Sent
    <3>. QED  BY <1>2, <2>2, <3>1, NothingSent DEF JobInv, Only
  <2>. QED  BY <1>4, <2>2, <2>4, <2>5, <2>6 DEF JobInv
<1>6. CASE Take(j)
  <2>. DEFINE new == [Idle EXCEPT !.at = "resolve", !.from = Len(rows[j])]
  <2>1. /\ queue[j] = "waiting" /\ queue' \in [Jobs -> states] /\ queue'[j] = "active"
        /\ stalls' = stalls /\ run' = [run EXCEPT ![j] = new]
    BY <1>1, <1>6 DEF Take
  <2>2. /\ new \in RunType /\ new.at = "resolve" /\ new.from = Len(rows[j]) /\ new.wanted = <<>>
        /\ new.todo = {} /\ new.result = "none" /\ Len(new.wanted) = 0
    BY <1>1, IdleIs DEF RunType, Steps
  <2>. HIDE DEF new
  <2>3. run' \in [Jobs -> RunType] /\ run'[j] = new
    BY <2>1, <2>2 DEF Shape
  <2>4. Only(j)
    BY <1>2, <2>1, <2>3 DEF Only, Shape, Untouched, NothingRecorded
  <2>5. Placed(j)'
    <3>1. Len(Recipients[j]) \in Nat /\ Len(Recipients[j]) # 0
      BY RunOf
    <3>. QED  BY <1>2, <2>1, <2>2, <2>3, <3>1 DEF JobInv, Placed, Steps, At, Taken
  <2>6. Current(j)'
    BY <2>2, <2>3 DEF Current, WithRow
  <2>7. Exact(j)'
    <3>1. ASSUME NEW n \in 1..Len(Recipients[j]), NEW channel \in Channels
          PROVE  ~Done(j, n, channel)' /\ RowsFor(j, n, channel)' = {}
      BY <1>1, <1>2, <2>2, <2>3 DEF Done, RowsFor, At
    <3>2. \A k \in LeftOpen(j)' : k <= Len(rows[j])
      BY <1>1, <1>2 DEF LeftOpen, Open
    <3>. QED  BY <1>1, <1>2, <2>2, <2>3, <3>1, <3>2 DEF Exact
  <2>8. OpenCounted(j)'
    <3>1. LeftOpen(j)' \subseteq LeftOpen(j)
      BY <1>2, <1>3, <2>1, <2>2, <2>3 DEF LeftOpen, AtRow
    <3>. QED  BY <1>1, <1>2, <2>1, <3>1, NoneLeft DEF JobInv
  <2>9. MailsCounted(j)'
    <3>1. ASSUME NEW n \in 1..Len(Recipients[j]) PROVE Count(j, n) <= Count(j, n)'
      BY <1>1, <1>2, <2>1 DEF Count, Sent
    <3>. QED  BY <1>2, <2>4, <3>1, NothingSent DEF JobInv, Only
  <2>. QED  BY <1>4, <2>4, <2>5, <2>6, <2>7, <2>8, <2>9 DEF JobInv
<1>7. CASE Stalled(j)
  <2>1. /\ queue[j] = "active" /\ queue' \in [Jobs -> states] /\ run[j].at = "idle" /\ run' = run
        /\ queue'[j] = IF stalls[j] < MaxStalls THEN "waiting" ELSE "failed"
        /\ stalls' \in [Jobs -> Nat] /\ stalls'[j] = stalls[j] + 1
    BY <1>1, <1>7 DEF Stalled, Shape
  <2>2. Only(j)
    BY <1>2, <2>1 DEF Only, Shape, Untouched, NothingRecorded
  <2>3. run[j] = Idle
    BY <2>1 DEF JobInv, Placed
  <2>4. Placed(j)' /\ Current(j)' /\ Exact(j)'
    BY <1>1, <1>2, <2>1, <2>3, BoundsAssumption, IdleIs
       DEF JobInv, Placed, Current, Exact, Steps, WithRow, Taken
  <2>5. OpenCounted(j)'
    <3>1. LeftOpen(j)' \subseteq LeftOpen(j) \union {Len(rows[j])}
      BY <1>2, <1>3 DEF LeftOpen
    <3>2. attempts'[j] = attempts[j] /\ attempts[j] + stalls[j] + 1 <= attempts'[j] + stalls'[j]
      BY <1>1, <1>2, <2>1
    <3>. QED  BY <1>1, <2>2, <3>1, <3>2, OneLeft DEF JobInv, Only, Shape
  <2>6. MailsCounted(j)'
    <3>1. ASSUME NEW n \in 1..Len(Recipients[j]) PROVE Count(j, n) <= Count(j, n)'
      BY <1>1, <1>2, <2>1 DEF Count
    <3>. QED  BY <1>2, <2>2, <3>1, NothingSent DEF JobInv, Only
  <2>. QED  BY <1>4, <2>2, <2>4, <2>5, <2>6 DEF JobInv
<1>. QED  BY <1>5, <1>6, <1>7

(* sendNow goes on to a place where it has no row, or is done.              *)
LEMMA ProceedIs ==
  ASSUME Shape, NEW j \in Jobs, NEW wanted \in Seq(SUBSET Channels), NEW todo \in SUBSET Channels,
         Proceed(j, wanted, todo)
  PROVE  /\ run' \in [Jobs -> RunType] /\ queue' \in [Jobs -> {"absent", "waiting", "active", "completed", "failed"}]
         /\ \A i \in Jobs \ {j} : run'[i] = run[i] /\ queue'[i] = queue[i]
         /\ run'[j].result = "none" /\ run'[j].from = run[j].from
         /\ run'[j].wanted = wanted /\ run'[j].todo = todo
         /\ run'[j].at = IF todo # {} THEN "create"
                         ELSE IF Len(wanted) < Len(Recipients[j]) THEN "resolve" ELSE "told"
         /\ queue'[j] = IF run'[j].at = "told" THEN "completed" ELSE queue[j]
<1>. DEFINE more == todo # {} \/ Len(wanted) < Len(Recipients[j])
            at == IF todo # {} THEN "create" ELSE IF more THEN "resolve" ELSE "told"
            new == [run[j] EXCEPT !.at = at, !.wanted = wanted, !.todo = todo, !.result = "none"]
<1>1. at \in Steps \union {"told"} /\ (at = "told" <=> ~more)
  BY DEF Steps
<1>2. /\ new \in RunType /\ new.at = at /\ new.result = "none" /\ new.from = run[j].from
      /\ new.wanted = wanted /\ new.todo = todo
  <2>. HIDE DEF at
  <2>. QED  BY <1>1, RunOf DEF RunType
<1>3. run' = [run EXCEPT ![j] = new] /\ queue' = IF more THEN queue ELSE [queue EXCEPT ![j] = "completed"]
  BY DEF Proceed
<1>. HIDE DEF new
<1>4. run' \in [Jobs -> RunType] /\ run'[j] = new /\ \A i \in Jobs \ {j} : run'[i] = run[i]
  BY <1>2, <1>3 DEF Shape
<1>5. /\ queue' \in [Jobs -> {"absent", "waiting", "active", "completed", "failed"}]
      /\ queue'[j] = IF more THEN queue[j] ELSE "completed"
      /\ \A i \in Jobs \ {j} : queue'[i] = queue[i]
  BY <1>3 DEF Shape
<1>. QED  BY <1>1, <1>2, <1>4, <1>5

(* It goes on from a recipient resolved or a channel served: what the try   *)
(* is past is what it was past or at, and its last row is not left open.    *)
LEMMA ProceedKeeps ==
  ASSUME Shape, Shape', NEW j \in Jobs, JobInv(j), run[j].at \in Steps,
         NEW wanted \in Seq(SUBSET Channels), NEW todo \in SUBSET Channels, Proceed(j, wanted, todo),
         attempts' = attempts, stalls' = stalls, rows' = rows, mails' = mails, reports' = reports,
         Recorded(j)', Len(wanted) <= Len(Recipients[j]),
         todo # {} => Len(wanted) # 0 /\ todo \subseteq wanted[Len(wanted)],
         \/ run[j].at = "resolve" /\ Len(wanted) = At(j) + 1
         \/ run[j].at = "record" /\ Len(wanted) = At(j) /\ (Channel(j) = "EMAIL" => todo = {}),
         \A n \in 1..Len(Recipients[j]), channel \in Channels :
           Done(j, n, channel) <=>
             n \in 1..Len(wanted) /\ channel \in wanted[n] /\ (n = Len(wanted) => channel \notin todo)
  PROVE  JobInv(j)'
<1>1. /\ run'[j].result = "none" /\ run'[j].from = run[j].from
      /\ run'[j].wanted = wanted /\ run'[j].todo = todo
      /\ run'[j].at = IF todo # {} THEN "create"
                      ELSE IF Len(wanted) < Len(Recipients[j]) THEN "resolve" ELSE "told"
      /\ queue'[j] = IF run'[j].at = "told" THEN "completed" ELSE queue[j]
  BY ProceedIs
<1>2. queue[j] = "active" /\ Len(wanted) \in Nat /\ At(j)' = Len(wanted) /\ At(j) \in Nat
      /\ Len(Recipients[j]) \in Nat
  BY <1>1, RunOf DEF JobInv, Placed, At
<1>3. Placed(j)'
  BY <1>1, <1>2 DEF JobInv, Placed, Steps, Taken
<1>4. Current(j)'
  BY <1>1 DEF Current, WithRow
<1>5. Traced(j)'
  BY TraceKept DEF JobInv
<1>6. Open(j)' = Open(j)
  BY DEF Open, Reported
<1>7. LeftOpen(j)' \subseteq LeftOpen(j)
  <2>1. run[j].at = "record" => Len(rows[j]) \notin Open(j)
    BY DEF JobInv, Current, WithRow
  <2>2. run[j].at = "resolve" \/ run[j].at = "record"
    OBVIOUS
  <2>. QED  BY <1>6, <2>1, <2>2 DEF LeftOpen, AtRow
<1>8. Exact(j)'
  <2>1. ASSUME NEW n \in 1..Len(Recipients[j]), NEW channel \in Channels
        PROVE  Done(j, n, channel)' <=> Done(j, n, channel)
    <3>1. run'[j].at \notin WithRow
      BY <1>1 DEF WithRow
    <3>. QED  BY <1>1, <1>2, <3>1 DEF Done
  <2>. QED  BY <1>1, <1>7, <2>1, ExactKept DEF JobInv
<1>9. OpenCounted(j)'
  BY <1>7, NoneLeftInTry DEF JobInv
<1>10. MailsCounted(j)'
  <2>1. ASSUME NEW n \in 1..Len(Recipients[j]), Sent(j, n) PROVE Sent(j, n)'
    <3>1. CASE run'[j].at = "told"
      BY <1>1, <3>1 DEF Sent
    <3>2. CASE run'[j].at # "told" /\ At(j)' > n
      BY <1>1, <1>2, <3>2 DEF Sent
    <3>3. CASE run'[j].at # "told" /\ ~(At(j)' > n)
      <4>1. n = At(j) /\ At(j)' = n /\ run[j].at = "record" /\ Channel(j) = "EMAIL"
        BY <1>2, <2>1, <3>3 DEF Sent
      <4>. QED  BY <1>1, <1>2, <3>3, <4>1 DEF Sent
    <3>. QED  BY <3>1, <3>2, <3>3
  <2>2. \A n \in 1..Len(Recipients[j]) : Count(j, n) <= Count(j, n)'
    BY <2>1, CountKept
  <2>. QED  BY <2>2, NothingSent DEF JobInv
<1>. QED  BY <1>3, <1>4, <1>5, <1>8, <1>9, <1>10 DEF JobInv

(* The channels of the next recipient are known, and none is served.        *)
LEMMA ResolveStep ==
  ASSUME Shape, NEW j \in Jobs, JobInv(j), Resolve(j)
  PROVE  Only(j) /\ JobInv(j)'
<1>1. /\ run[j].at = "resolve" /\ run[j].at \in Steps
      /\ rows' = rows /\ ledger' = ledger /\ (Event \/ Fine)
  BY DEF Resolve, Steps
<1>2. events' \in 0..MaxEvents
  BY <1>1, EventsIs
<1>3. CASE Throw(j)
  <2>1. Only(j)
    BY <1>1, <1>2, <1>3, ThrowIs DEF Only, Shape, Untouched, NothingRecorded
  <2>2. Traced(j)' /\ Open(j)' \subseteq Open(j)
    BY <1>1, <1>3, ThrowIs, TraceKept DEF JobInv, Open, Reported
  <2>. QED  BY <1>1, <1>3, <2>1, <2>2, ThrowKeeps DEF Only, Backed
<1>4. CASE ~Throw(j)
  <2>1. PICK todo \in SUBSET asked[j] : Proceed(j, Append(run[j].wanted, todo), todo)
    BY <1>4 DEF Resolve
  <2>. DEFINE wanted == Append(run[j].wanted, todo)
  <2>2. attempts' = attempts /\ stalls' = stalls /\ mails' = mails /\ reports' = reports /\ asked' = asked
    BY <1>4 DEF Resolve, given
  <2>3. todo \in SUBSET Channels
    BY DEF Shape
  <2>4. /\ wanted \in Seq(SUBSET Channels) /\ Len(wanted) = At(j) + 1 /\ wanted[Len(wanted)] = todo
        /\ \A n \in 1..At(j) : wanted[n] = run[j].wanted[n]
        /\ At(j) \in Nat /\ Len(Recipients[j]) \in Nat
    BY <2>3, RunOf DEF At
  <2>. HIDE DEF wanted
  <2>5. Proceed(j, wanted, todo)
    BY <2>1 DEF wanted
  <2>6. Only(j)
    <3>1. /\ run' \in [Jobs -> RunType]
          /\ queue' \in [Jobs -> {"absent", "waiting", "active", "completed", "failed"}]
          /\ \A i \in Jobs \ {j} : run'[i] = run[i] /\ queue'[i] = queue[i]
      BY <2>3, <2>4, <2>5, ProceedIs
    <3>. QED  BY <1>1, <1>2, <2>2, <3>1 DEF Only, Shape, Untouched, NothingRecorded
  <2>7. At(j) < Len(Recipients[j]) /\ run[j].todo = {}
    BY <1>1 DEF JobInv, Placed
  <2>8. Recorded(j)'
    BY <1>1, RecordKept, RowOf DEF JobInv, NothingRecorded
  <2>9. ASSUME NEW n \in 1..Len(Recipients[j]), NEW channel \in Channels
        PROVE  Done(j, n, channel) <=>
                 n \in 1..Len(wanted) /\ channel \in wanted[n] /\ (n = Len(wanted) => channel \notin todo)
    BY <2>4, <2>7 DEF Done
  <2>10. Shape'
    BY <2>6 DEF Only
  <2>11. Len(wanted) <= Len(Recipients[j]) /\ (todo # {} => Len(wanted) # 0 /\ todo \subseteq wanted[Len(wanted)])
    BY <2>4, <2>7
  <2>12. JobInv(j)'
    BY <1>1, <2>2, <2>3, <2>4, <2>5, <2>8, <2>9, <2>10, <2>11, ProceedKeeps
  <2>. QED  BY <2>6, <2>12
<1>. QED  BY <1>3, <1>4

(* The row that is new is the one the try is at.                            *)
LEMMA CreateStep ==
  ASSUME Shape, NEW j \in Jobs, JobInv(j), Create(j)
  PROVE  Only(j) /\ JobInv(j)'
<1>1. run[j].at = "create" /\ run[j].at \in Steps /\ ledger' = ledger /\ (Event \/ Fine)
  BY DEF Create, Steps
<1>2. events' \in 0..MaxEvents
  BY <1>1, EventsIs
<1>3. CASE Throw(j) /\ rows' = rows
  <2>1. Only(j)
    BY <1>1, <1>2, <1>3, ThrowIs DEF Only, Shape, Untouched, NothingRecorded
  <2>2. Traced(j)' /\ Open(j)' \subseteq Open(j)
    BY <1>3, ThrowIs, TraceKept DEF JobInv, Open, Reported
  <2>. QED  BY <1>1, <1>3, <2>1, <2>2, ThrowKeeps DEF Only, Backed
<1>4. CASE ~(Throw(j) /\ rows' = rows)
  <2>. DEFINE at == IF Channel(j) = "EMAIL" THEN "send" ELSE "update"
              len == Len(rows[j])
  <2>1. /\ rows' = [rows EXCEPT ![j] = Append(@, NewRow(j))] /\ Move(j, at) /\ asked' = asked
        /\ queue' = queue /\ attempts' = attempts /\ stalls' = stalls /\ mails' = mails /\ reports' = reports
    BY <1>4 DEF Create, Move, given
  <2>2. /\ run' \in [Jobs -> RunType] /\ \A i \in Jobs \ {j} : run'[i] = run[i]
        /\ run'[j].at = at /\ run'[j].result = run[j].result /\ Stays(j)
    <3>1. at \in Steps
      BY DEF Steps
    <3>. HIDE DEF at
    <3>. QED  BY <2>1, <3>1, MoveIs
  <2>3. /\ rows' \in [Jobs -> Seq(Row)] /\ \A i \in Jobs \ {j} : rows'[i] = rows[i]
        /\ Len(rows'[j]) = len + 1 /\ \A k \in 1..len : rows'[j][k] = rows[j][k]
        /\ rows'[j][len + 1] = NewRow(j)
    BY <2>1, NewRowIs
  <2>4. /\ NewRow(j).to = At(j) /\ NewRow(j).channel = Channel(j)
        /\ NewRow(j).status = "PENDING" /\ NewRow(j).mail = 0
        /\ Channel(j) = "EMAIL" => NewRow(j).provider = "smtp"
    BY DEF NewRow, At
  <2>5. len \in Nat /\ Len(mails[j]) \in Nat /\ \A k \in 1..len + 1 : k \in 1..len \/ k = len + 1
    BY RowOf
  <2>6. Only(j)
    BY <1>1, <1>2, <2>1, <2>2, <2>3 DEF Only, Shape, Untouched, NothingRecorded
  <2>7. /\ queue[j] = "active" /\ At(j) \in 1..Len(Recipients[j]) /\ ~Taken(j)
        /\ Channel(j) \in run[j].todo /\ Channel(j) \in Channels /\ run[j].todo \subseteq run[j].wanted[At(j)]
    BY <1>1, RunOf DEF JobInv, Placed, Steps
  <2>8. Placed(j)'
    BY <1>1, <2>1, <2>2, <2>7 DEF JobInv, Placed, Steps, Stays, Taken
  <2>9. Traced(j)'
    <3>1. Traced(j)
      BY DEF JobInv
    <3>2. ASSUME NEW k \in 1..len + 1 PROVE RowTraced(j, k)'
      <4>1. CASE k \in 1..len
        <5>1. RowTraced(j, k)
          BY <3>1, <4>1 DEF Traced
        <5>. QED  BY <2>1, <2>3, <2>5, <4>1, <5>1, RowKept
      <4>2. CASE k = len + 1
        BY <2>3, <2>4, <2>7, <4>2 DEF RowTraced
      <4>. QED  BY <2>5, <4>1, <4>2
    <3>3. \A m \in 1..Len(mails[j]) : mails[j][m] \in 1..len + 1
      BY <2>5, <3>1 DEF Traced
    <3>. QED  BY <2>1, <2>3, <3>1, <3>2, <3>3 DEF Traced
  <2>10. Current(j)'
    <3>1. \A m \in 1..Len(mails[j]) : mails[j][m] # len + 1
      BY <2>5 DEF JobInv, Traced
    <3>2. run[j].result # "accepted"
      BY <2>7 DEF Taken
    <3>. QED  BY <2>1, <2>2, <2>3, <2>4, <2>5, <3>1, <3>2 DEF Current, Stays, WithRow
  <2>11. Recorded(j)'
    BY <1>1, <2>3, <2>5, RecordKept DEF JobInv, NothingRecorded
  <2>12. LeftOpen(j)' \subseteq LeftOpen(j)
    <3>. SUFFICES ASSUME NEW k \in LeftOpen(j)' PROVE k \in LeftOpen(j)
      OBVIOUS
    <3>1. AtRow(j)' /\ ~AtRow(j)
      BY <1>1, <2>1, <2>2, <2>7 DEF AtRow
    <3>2. k \in 1..len /\ k \in Open(j)'
      BY <2>3, <2>5, <3>1 DEF LeftOpen, Open
    <3>3. k \in Open(j)
      BY <2>1, <2>3, <3>2 DEF Open, Reported
    <3>. QED  BY <3>1, <3>3 DEF LeftOpen
  <2>13. Exact(j)'
    <3>1. /\ run[j].from \in Nat /\ run[j].from <= len /\ run'[j].from = run[j].from
          /\ run'[j].wanted = run[j].wanted /\ run'[j].todo = run[j].todo
          /\ At(j)' = At(j) /\ Channel(j)' = Channel(j) /\ run'[j].at \in WithRow /\ run[j].at \notin WithRow
      BY <1>1, <2>2, RunOf DEF JobInv, Exact, Stays, WithRow
    <3>2. ASSUME NEW n \in 1..Len(Recipients[j]), NEW channel \in Channels
          PROVE  IF Done(j, n, channel)' THEN \E k \in 1..len + 1 : RowsFor(j, n, channel)' = {k}
                                         ELSE RowsFor(j, n, channel)' = {}
      <4>1. \A k \in run[j].from + 1..len + 1 : k \in run[j].from + 1..len \/ k = len + 1
        BY <2>5, <3>1
      <4>2. len + 1 \in run[j].from + 1..len + 1 /\ \A k \in run[j].from + 1..len : k \in 1..len /\ k \in run[j].from + 1..len + 1
        BY <2>5, <3>1
      <4>3. RowsFor(j, n, channel)' =
              {k \in run[j].from + 1..len + 1 : rows'[j][k].to = n /\ rows'[j][k].channel = channel}
        BY <2>3, <3>1 DEF RowsFor
      <4>4. CASE n = At(j) /\ channel = Channel(j)
        <5>1. ~Done(j, n, channel) /\ Done(j, n, channel)'
          BY <2>7, <3>1, <4>4 DEF Done
        <5>2. RowsFor(j, n, channel) = {}
          BY <1>1, <5>1 DEF JobInv, Exact
        <5>3. \A k \in run[j].from + 1..len : ~(rows'[j][k].to = n /\ rows'[j][k].channel = channel)
          BY <2>3, <4>2, <5>2 DEF RowsFor
        <5>4. RowsFor(j, n, channel)' = {len + 1}
          BY <2>3, <2>4, <4>1, <4>2, <4>3, <4>4, <5>3
        <5>5. len + 1 \in 1..len + 1
          BY <2>5
        <5>. QED  BY <5>1, <5>4, <5>5
      <4>5. CASE ~(n = At(j) /\ channel = Channel(j))
        <5>1. Done(j, n, channel)' <=> Done(j, n, channel)
          BY <3>1, <4>5 DEF Done
        <5>2. RowsFor(j, n, channel)' = RowsFor(j, n, channel)
          BY <2>3, <2>4, <4>1, <4>2, <4>3, <4>5 DEF RowsFor
        <5>3. IF Done(j, n, channel) THEN \E k \in 1..len : RowsFor(j, n, channel) = {k}
                                     ELSE RowsFor(j, n, channel) = {}
          BY <1>1 DEF JobInv, Exact
        <5>. QED  BY <2>5, <5>1, <5>2, <5>3
      <4>. QED  BY <4>4, <4>5
    <3>3. \A k \in LeftOpen(j)' : k <= run[j].from
      BY <1>1, <2>12 DEF JobInv, Exact
    <3>. QED  BY <2>3, <2>5, <3>1, <3>2, <3>3 DEF Exact
  <2>14. OpenCounted(j)'
    BY <2>1, <2>12, NoneLeftInTry DEF JobInv
  <2>15. MailsCounted(j)'
    <3>1. ASSUME NEW n \in 1..Len(Recipients[j]) PROVE Count(j, n) <= Count(j, n)'
      <4>1. Sent(j, n) => Sent(j, n)'
        BY <1>1, <2>1, <2>2 DEF Sent, Stays
      <4>. QED  BY <2>1, <4>1, CountKept
    <3>. QED  BY <2>1, <2>3, <2>6, <3>1, NothingSent DEF JobInv, Only
  <2>. QED  BY <2>6, <2>8, <2>9, <2>10, <2>11, <2>13, <2>14, <2>15 DEF JobInv
<1>. QED  BY <1>3, <1>4

(* The mail is one more to the recipient sendNow is at, who had none of     *)
(* this try.                                                                *)
LEMMA SendStep ==
  ASSUME Shape, NEW j \in Jobs, JobInv(j), Send(j)
  PROVE  Only(j) /\ JobInv(j)'
<1>. DEFINE last == Len(rows[j])
            len == Len(mails[j])
<1>1. /\ run[j].at = "send"
      /\ queue' = queue /\ attempts' = attempts /\ stalls' = stalls /\ rows' = rows
      /\ reports' = reports /\ ledger' = ledger /\ asked' = asked /\ (Event \/ Fine)
  BY DEF Send, given
<1>2. events' \in 0..MaxEvents
  BY <1>1, EventsIs
<1>3. PICK taken \in BOOLEAN :
        /\ mails' = IF taken THEN [mails EXCEPT ![j] = Append(@, Len(rows[j]))] ELSE mails
        /\ run' \in [Jobs -> RunType] /\ \A i \in Jobs \ {j} : run'[i] = run[i]
        /\ run'[j].at \in {"update", "correct"} /\ Stays(j)
        /\ run'[j].result = "accepted" => taken /\ run'[j].at = "update"
  <2>1. CASE \E taken, told \in BOOLEAN :
               /\ told => taken
               /\ mails' = IF taken THEN [mails EXCEPT ![j] = Append(@, Len(rows[j]))] ELSE mails
               /\ run' = [run EXCEPT ![j] = [@ EXCEPT !.at = "update",
                                                      !.result = IF told THEN "accepted" ELSE "refused"]]
    <3>1. PICK taken \in BOOLEAN, told \in BOOLEAN :
               /\ told => taken
               /\ mails' = IF taken THEN [mails EXCEPT ![j] = Append(@, Len(rows[j]))] ELSE mails
               /\ run' = [run EXCEPT ![j] = [@ EXCEPT !.at = "update",
                                                      !.result = IF told THEN "accepted" ELSE "refused"]]
      BY <2>1
    <3>. DEFINE result == IF told THEN "accepted" ELSE "refused"
    <3>2. result \in {"none", "accepted", "refused", "simulated", "error"} /\ "update" \in Steps
          /\ (result = "accepted" => told)
      BY DEF Steps
    <3>3. run' = [run EXCEPT ![j] = [@ EXCEPT !.at = "update", !.result = result]]
      BY <3>1
    <3>. HIDE DEF result
    <3>4. /\ run' \in [Jobs -> RunType] /\ \A i \in Jobs \ {j} : run'[i] = run[i]
          /\ run'[j].at = "update" /\ run'[j].result = result /\ Stays(j)
      BY <3>2, <3>3, GoesIs
    <3>. QED  BY <3>1, <3>2, <3>4
  <2>2. CASE /\ run' = [run EXCEPT ![j] = [@ EXCEPT !.at = "update", !.result = "simulated"]]
             /\ mails' = mails
    <3>1. "update" \in Steps /\ "simulated" # "accepted"
      BY DEF Steps
    <3>2. /\ run' \in [Jobs -> RunType] /\ \A i \in Jobs \ {j} : run'[i] = run[i]
          /\ run'[j].at = "update" /\ run'[j].result = "simulated" /\ Stays(j)
      BY <2>2, <3>1, GoesIs
    <3>. QED  BY <2>2, <3>1, <3>2
  <2>3. CASE Move(j, "correct") /\ mails' = mails
    <3>1. "correct" \in Steps
      BY DEF Steps
    <3>2. /\ run' \in [Jobs -> RunType] /\ \A i \in Jobs \ {j} : run'[i] = run[i]
          /\ run'[j].at = "correct" /\ run'[j].result = run[j].result /\ Stays(j)
      BY <2>3, <3>1, MoveIs
    <3>3. run[j].result # "accepted"
      BY <1>1 DEF JobInv, Placed, Taken
    <3>. QED  BY <2>3, <3>2, <3>3
  <2>. QED  BY <2>1, <2>2, <2>3 DEF Send
<1>4. /\ mails' \in [Jobs -> Seq(Nat)] /\ \A i \in Jobs \ {j} : mails'[i] = mails[i]
      /\ \A m \in 1..len : mails'[j][m] = mails[j][m]
      /\ taken => Len(mails'[j]) = len + 1 /\ mails'[j][len + 1] = last
      /\ ~taken => mails'[j] = mails[j]
  <2>1. CASE taken
    BY <1>3, <2>1, MailIs
  <2>2. CASE ~taken
    BY <1>3, <2>2 DEF Shape
  <2>. QED  BY <2>1, <2>2
<1>5. Only(j)
  BY <1>1, <1>2, <1>3, <1>4 DEF Only, Shape, Untouched, NothingRecorded
<1>6. /\ last \in Nat /\ last # 0 /\ last \in 1..last /\ len \in Nat
      /\ \A m \in 1..len + 1 : m \in 1..len \/ m = len + 1
      /\ At(j) \in 1..Len(Recipients[j]) /\ Channel(j) = "EMAIL" /\ queue[j] = "active"
      /\ rows[j][last].to = At(j) /\ rows[j][last].channel = Channel(j)
      /\ rows[j][last].mail = 0 /\ rows[j][last].provider = "smtp"
      /\ \A m \in 1..len : mails[j][m] # last
  <2>1. /\ last # 0 /\ rows[j][last].to = At(j) /\ rows[j][last].channel = Channel(j)
        /\ rows[j][last].mail = 0 /\ (Channel(j) = "EMAIL" => rows[j][last].provider = "smtp")
        /\ \A m \in 1..len : mails[j][m] # last
    BY <1>1 DEF JobInv, Current, WithRow
  <2>2. At(j) \in 1..Len(Recipients[j]) /\ Channel(j) = "EMAIL" /\ queue[j] = "active"
    BY <1>1, RunOf DEF JobInv, Placed, Steps
  <2>3. last \in Nat /\ len \in Nat
    BY RowOf
  <2>. QED  BY <2>1, <2>2, <2>3
<1>7. Placed(j)'
  BY <1>1, <1>3, <1>6 DEF JobInv, Placed, Steps, Stays, Taken
<1>8. Current(j)'
  BY <1>1, <1>3, <1>4, <1>6 DEF Current, Stays, WithRow
<1>9. Traced(j)'
  <2>1. Traced(j)
    BY DEF JobInv
  <2>2. CASE taken
    <3>1. /\ Len(mails'[j]) = len + 1 /\ mails'[j][len + 1] = last
          /\ \A m \in 1..len : mails'[j][m] = mails[j][m]
      BY <1>4, <2>2
    <3>2. ASSUME NEW k \in 1..last PROVE RowTraced(j, k)'
      <4>1. RowTraced(j, k)
        BY <2>1 DEF Traced
      <4>. QED  BY <1>1, <1>6, <3>1, <4>1, RowKept
    <3>3. \A m \in 1..len : mails[j][m] \in 1..last
      BY <2>1 DEF Traced
    <3>4. \A m \in 1..len + 1 : mails'[j][m] \in 1..last
      BY <1>6, <3>1, <3>3
    <3>5. ASSUME NEW m \in 1..len + 1, NEW q \in 1..len + 1, mails'[j][m] = mails'[j][q] PROVE m = q
      <4>1. CASE m \in 1..len /\ q \in 1..len
        BY <2>1, <3>1, <3>5, <4>1 DEF Traced
      <4>2. CASE m = len + 1 /\ q \in 1..len
        BY <1>6, <3>1, <3>5, <4>2
      <4>3. CASE m \in 1..len /\ q = len + 1
        BY <1>6, <3>1, <3>5, <4>3
      <4>. QED  BY <1>6, <4>1, <4>2, <4>3
    <3>. QED  BY <1>1, <3>1, <3>2, <3>4, <3>5 DEF Traced
  <2>3. CASE ~taken
    BY <1>1, <1>4, <2>1, <2>3, TraceKept
  <2>. QED  BY <2>2, <2>3
<1>10. Recorded(j)'
  BY <1>1, <1>6, RecordKept DEF JobInv, NothingRecorded, Backed
<1>11. LeftOpen(j)' \subseteq LeftOpen(j)
  BY <1>1, <1>3 DEF LeftOpen, AtRow, Open, Reported
<1>12. Exact(j)'
  <2>1. \A n, channel : Done(j, n, channel)' <=> Done(j, n, channel)
    BY <1>1, <1>3 DEF Done, Stays, WithRow
  <2>. QED  BY <1>1, <1>3, <1>11, <2>1, ExactKept DEF JobInv, Stays, Steps
<1>13. OpenCounted(j)'
  BY <1>1, <1>11, NoneLeftInTry DEF JobInv
<1>14. MailsCounted(j)'
  <2>1. attempts[j] \in Nat /\ stalls[j] \in Nat
    BY DEF Shape
  <2>. SUFFICES ASSUME NEW n \in 1..Len(Recipients[j])
                PROVE  Cardinality(MailsTo(j, n)') <= Count(j, n)'
    BY DEF MailsCounted, Count
  <2>2. Cardinality(MailsTo(j, n)) <= Count(j, n) /\ IsFiniteSet(MailsTo(j, n))
        /\ Cardinality(MailsTo(j, n)) \in Nat
    BY MailsAreFinite DEF JobInv, MailsCounted, Count
  <2>3. CASE ~taken \/ At(j) # n
    <3>1. MailsTo(j, n)' = MailsTo(j, n)
      <4>1. CASE taken
        <5>1. At(j) # n
          BY <2>3, <4>1
        <5>2. ASSUME NEW m \in 1..len + 1
              PROVE  m \in MailsTo(j, n)' <=> m \in MailsTo(j, n)
          <6>1. CASE m \in 1..len
            BY <1>1, <1>4, <4>1, <6>1 DEF MailsTo
          <6>2. CASE m = len + 1
            BY <1>1, <1>4, <1>6, <4>1, <5>1, <6>2 DEF MailsTo
          <6>. QED  BY <1>6, <6>1, <6>2
        <5>3. MailsTo(j, n) \subseteq 1..len + 1 /\ MailsTo(j, n)' \subseteq 1..len + 1
          BY <1>4, <1>6, <4>1 DEF MailsTo
        <5>. QED  BY <5>2, <5>3
      <4>2. CASE ~taken
        BY <1>1, <1>4, <4>2 DEF MailsTo
      <4>. QED  BY <4>1, <4>2
    <3>2. Count(j, n) <= Count(j, n)' /\ Count(j, n) \in Nat /\ Count(j, n)' \in Nat
      <4>1. Sent(j, n) => Sent(j, n)'
        BY <1>1, <1>3 DEF Sent, Stays
      <4>. QED  BY <1>1, <2>1, <4>1 DEF Count
    <3>. QED  BY <2>2, <3>1, <3>2
  <2>4. CASE taken /\ At(j) = n
    <3>1. MailsTo(j, n)' = MailsTo(j, n) \union {len + 1}
      <4>1. ASSUME NEW m \in 1..len + 1
            PROVE  m \in MailsTo(j, n)' <=> m \in MailsTo(j, n) \/ m = len + 1
        <5>1. CASE m \in 1..len
          BY <1>1, <1>4, <1>6, <2>4, <5>1 DEF MailsTo
        <5>2. CASE m = len + 1
          BY <1>1, <1>4, <1>6, <2>4, <5>2 DEF MailsTo
        <5>. QED  BY <1>6, <5>1, <5>2
      <4>2. MailsTo(j, n) \subseteq 1..len + 1 /\ MailsTo(j, n)' \subseteq 1..len + 1 /\ len + 1 \in 1..len + 1
        BY <1>4, <1>6, <2>4 DEF MailsTo
      <4>. QED  BY <4>1, <4>2
    <3>2. /\ IsFiniteSet(MailsTo(j, n) \union {len + 1})
          /\ Cardinality(MailsTo(j, n) \union {len + 1}) =
               IF len + 1 \in MailsTo(j, n) THEN Cardinality(MailsTo(j, n)) ELSE Cardinality(MailsTo(j, n)) + 1
      BY <2>2, FS_AddElement
    <3>3. Cardinality(MailsTo(j, n)') <= Cardinality(MailsTo(j, n)) + 1 /\ Cardinality(MailsTo(j, n)') \in Nat
      BY <2>2, <3>1, <3>2
    <3>4. ~Sent(j, n) /\ Sent(j, n)'
      <4>1. n \in Nat /\ n # 0
        OBVIOUS
      <4>. QED  BY <1>1, <1>3, <1>6, <2>4, <4>1 DEF Sent, Stays
    <3>5. Count(j, n) = attempts[j] + stalls[j] /\ Count(j, n)' = attempts[j] + stalls[j] + 1
      BY <1>1, <2>1, <3>4 DEF Count
    <3>. QED  BY <2>1, <2>2, <3>3, <3>5
  <2>. QED  BY <2>3, <2>4
<1>. QED  BY <1>5, <1>7, <1>8, <1>9, <1>10, <1>12, <1>13, <1>14 DEF JobInv

(* The current row is put back with what became of it, by a statement after *)
(* which it is settled.                                                     *)
LEMMA PutKeeps ==
  ASSUME Shape, NEW j \in Jobs, Traced(j), Len(rows[j]) # 0, NEW row \in Row, Put(j, row),
         mails' = mails, reports' = reports, row.status \in {"SENT", "FAILED"},
         row.to = rows[j][Len(rows[j])].to, row.channel = rows[j][Len(rows[j])].channel,
         row.mail # 0 => /\ row.mail \in 1..Len(mails[j]) /\ mails[j][row.mail] = Len(rows[j])
                         /\ row.provider = "smtp",
         row.channel = "EMAIL" /\ row.status = "SENT" => Backed(row),
         Backed(rows[j][Len(rows[j])]) => Backed(row)
  PROVE  /\ Traced(j)' /\ Open(j)' \subseteq Open(j) /\ Len(rows[j]) \notin Open(j)'
         /\ rows' \in [Jobs -> Seq(Row)] /\ \A i \in Jobs \ {j} : rows'[i] = rows[i]
         /\ Len(rows'[j]) = Len(rows[j]) /\ rows'[j][Len(rows[j])] = row
         /\ \A k \in 1..Len(rows[j]) :
              /\ rows'[j][k].to = rows[j][k].to /\ rows'[j][k].channel = rows[j][k].channel
              /\ Backed(rows[j][k]) => Backed(rows'[j][k])
<1>. DEFINE last == Len(rows[j])
<1>1. /\ rows' \in [Jobs -> Seq(Row)] /\ \A i \in Jobs \ {j} : rows'[i] = rows[i]
      /\ Len(rows'[j]) = last
      /\ \A k \in 1..last : rows'[j][k] = IF k = last THEN row ELSE rows[j][k]
      /\ last \in 1..last
  BY PutIs, RowOf
<1>2. last \notin Open(j)'
  BY <1>1 DEF Open
<1>3. Open(j)' \subseteq Open(j)
  BY <1>1, <1>2, OpenShrinks
<1>4. ASSUME NEW k \in 1..last PROVE RowTraced(j, k)'
  <2>1. RowTraced(j, k)
    BY DEF Traced
  <2>2. CASE k = last
    BY <1>1, <2>1, <2>2 DEF RowTraced, Backed
  <2>3. CASE k # last
    <3>1. rows'[j][k] = rows[j][k]
      BY <1>1, <2>3
    <3>. QED  BY <2>1, <3>1, RowKept, RowOf
  <2>. QED  BY <2>2, <2>3
<1>5. Traced(j)'
  BY <1>1, <1>4 DEF Traced
<1>6. ASSUME NEW k \in 1..last
      PROVE  /\ rows'[j][k].to = rows[j][k].to /\ rows'[j][k].channel = rows[j][k].channel
             /\ Backed(rows[j][k]) => Backed(rows'[j][k])
  <2>1. CASE k = last
    BY <1>1, <2>1
  <2>2. CASE k # last
    BY <1>1, <2>2
  <2>. QED  BY <2>1, <2>2
<1>. QED  BY <1>1, <1>2, <1>3, <1>5, <1>6

(* A step on the current row after which sendNow goes on.                   *)
LEMMA WorkGoesOn ==
  ASSUME Shape, Shape', NEW j \in Jobs, JobInv(j), Traced(j)', Current(j)',
         queue' = queue, attempts' = attempts, stalls' = stalls, mails' = mails, ledger' = ledger,
         run[j].at \in {"update", "correct"}, run'[j].at \in {"correct", "record"}, Stays(j),
         Taken(j)' => Taken(j),
         Len(rows'[j]) = Len(rows[j]), Open(j)' \subseteq Open(j),
         \A k \in 1..Len(rows[j]) :
           /\ rows'[j][k].to = rows[j][k].to /\ rows'[j][k].channel = rows[j][k].channel
           /\ Backed(rows[j][k]) => Backed(rows'[j][k])
  PROVE  JobInv(j)'
<1>1. Placed(j)'
  BY DEF JobInv, Placed, Steps, Stays
<1>2. Recorded(j)'
  BY RecordKept, RowOf DEF JobInv, NothingRecorded
<1>3. LeftOpen(j)' \subseteq LeftOpen(j)
  BY DEF LeftOpen, AtRow
<1>4. Exact(j)'
  <2>1. \A n, channel : Done(j, n, channel)' <=> Done(j, n, channel)
    BY DEF Done, Stays, WithRow
  <2>. QED  BY <1>3, <2>1, ExactKept DEF JobInv, Stays, Steps
<1>5. OpenCounted(j)'
  BY <1>3, NoneLeftInTry DEF JobInv
<1>6. MailsCounted(j)'
  <2>1. ASSUME NEW n \in 1..Len(Recipients[j]) PROVE Count(j, n) <= Count(j, n)'
    <3>1. Sent(j, n) => Sent(j, n)'
      BY DEF Sent, Stays
    <3>. QED  BY <3>1, CountKept
  <2>. QED  BY <2>1, NothingSent DEF JobInv
<1>. QED  BY <1>1, <1>2, <1>4, <1>5, <1>6 DEF JobInv

LEMMA UpdateStep ==
  ASSUME Shape, NEW j \in Jobs, JobInv(j), Update(j)
  PROVE  Only(j) /\ JobInv(j)'
<1>. DEFINE last == Len(rows[j])
            ok == Channel(j) = "SYSTEM_ALERT" \/ run[j].result \in {"accepted", "simulated"}
            status == IF ok THEN "SENT" ELSE "FAILED"
            row == Answered(j, status)
<1>1. /\ run[j].at = "update" /\ asked' = asked
      /\ queue' = queue /\ attempts' = attempts /\ stalls' = stalls /\ mails' = mails
      /\ reports' = reports /\ ledger' = ledger
  BY DEF Update, given
<1>2. events' \in 0..MaxEvents /\ (Move(j, "record") \/ Move(j, "correct"))
  BY EventsIs DEF Update
<1>3. /\ run' \in [Jobs -> RunType] /\ \A i \in Jobs \ {j} : run'[i] = run[i]
      /\ run'[j].at \in {"correct", "record"} /\ run'[j].result = run[j].result /\ Stays(j)
  <2>1. "record" \in Steps /\ "correct" \in Steps
    BY DEF Steps
  <2>2. CASE Move(j, "record")
    BY <2>1, <2>2, MoveIs
  <2>3. CASE Move(j, "correct")
    BY <2>1, <2>3, MoveIs
  <2>. QED  BY <1>2, <2>2, <2>3
<1>4. /\ last \in Nat /\ last # 0 /\ last \in 1..last /\ Len(mails[j]) \in Nat
      /\ rows[j][last] \in Row /\ rows[j][last].to = At(j) /\ rows[j][last].channel = Channel(j)
      /\ rows[j][last].mail = 0 /\ (Channel(j) = "EMAIL" => rows[j][last].provider = "smtp")
      /\ run[j].result = "accepted" => Len(mails[j]) # 0 /\ mails[j][Len(mails[j])] = last
      /\ run[j].result \in {"accepted", "simulated"} => Channel(j) = "EMAIL"
  <2>1. run[j].at \in WithRow
    BY <1>1 DEF WithRow
  <2>2. last # 0 /\ last \in Nat
    BY <2>1, RowOf DEF JobInv, Current
  <2>. QED  BY <1>1, <2>1, <2>2, RowOf DEF JobInv, Current, Placed, Taken
<1>5. /\ row \in Row /\ row.to = rows[j][last].to /\ row.channel = rows[j][last].channel
      /\ row.status = status /\ row.status \in {"SENT", "FAILED"}
      /\ row.mail = IF run[j].result = "accepted" THEN Len(mails[j]) ELSE 0
      /\ row.provider = IF run[j].result = "simulated" THEN "simulated" ELSE rows[j][last].provider
  <2>1. status \in Status /\ status \in {"SENT", "FAILED"}
    BY DEF Status
  <2>. HIDE DEF status
  <2>. QED  BY <1>4, <2>1 DEF Answered, Row
<1>6. row.mail # 0 => row.mail \in 1..Len(mails[j]) /\ mails[j][row.mail] = last /\ row.provider = "smtp"
  BY <1>4, <1>5
<1>7. row.channel = "EMAIL" /\ row.status = "SENT" => Backed(row)
  BY <1>4, <1>5 DEF Backed
<1>8. Taken(j) => Backed(row)
  BY <1>4, <1>5 DEF Backed, Taken
<1>9. Backed(rows[j][last]) => Backed(row)
  BY <1>4, <1>5 DEF Backed
<1>10. CASE Put(j, row)
  <2>. HIDE DEF row, ok
  <2>1. /\ Traced(j)' /\ Open(j)' \subseteq Open(j) /\ last \notin Open(j)'
        /\ rows' \in [Jobs -> Seq(Row)] /\ \A i \in Jobs \ {j} : rows'[i] = rows[i]
        /\ Len(rows'[j]) = last /\ rows'[j][last] = row
        /\ \A k \in 1..last :
             /\ rows'[j][k].to = rows[j][k].to /\ rows'[j][k].channel = rows[j][k].channel
             /\ Backed(rows[j][k]) => Backed(rows'[j][k])
    BY <1>1, <1>4, <1>5, <1>6, <1>7, <1>9, <1>10, PutKeeps DEF JobInv
  <2>2. Only(j)
    BY <1>1, <1>2, <1>3, <2>1 DEF Only, Shape, Untouched, NothingRecorded
  <2>3. Current(j)'
    BY <1>3, <1>4, <1>5, <1>8, <2>1 DEF Current, Stays, Taken, WithRow
  <2>4. Taken(j)' => Taken(j)
    BY <1>3 DEF Taken
  <2>. QED  BY <1>1, <1>3, <2>1, <2>2, <2>3, <2>4, WorkGoesOn DEF Only
<1>11. CASE rows' = rows /\ Move(j, "correct")
  <2>1. Only(j)
    BY <1>1, <1>2, <1>3, <1>11 DEF Only, Shape, Untouched, NothingRecorded
  <2>2. Traced(j)' /\ Open(j)' \subseteq Open(j)
    BY <1>1, <1>11, TraceKept DEF JobInv, Open, Reported
  <2>3. run'[j].at = "correct"
    BY <1>11, MoveIs DEF Steps
  <2>4. Current(j)'
    BY <1>1, <1>3, <1>4, <1>11, <2>3 DEF Current, Stays, WithRow
  <2>5. Taken(j)' => Taken(j)
    BY <1>3 DEF Taken
  <2>. QED  BY <1>1, <1>3, <1>11, <2>1, <2>2, <2>4, <2>5, WorkGoesOn DEF Only, Backed
<1>. QED  BY <1>10, <1>11 DEF Update

LEMMA CorrectStep ==
  ASSUME Shape, NEW j \in Jobs, JobInv(j), Correct(j)
  PROVE  Only(j) /\ JobInv(j)'
<1>. DEFINE last == Len(rows[j])
            row == [rows[j][last] EXCEPT !.status = "FAILED"]
<1>1. run[j].at = "correct" /\ run[j].at \in Steps /\ ledger' = ledger /\ (Event \/ Fine)
  BY DEF Correct, Steps
<1>2. events' \in 0..MaxEvents
  BY <1>1, EventsIs
<1>3. /\ last \in Nat /\ last # 0 /\ last \in 1..last /\ rows[j][last] \in Row
      /\ rows[j][last].to = At(j) /\ rows[j][last].channel = Channel(j)
  <2>1. run[j].at \in WithRow
    BY <1>1 DEF WithRow
  <2>2. last # 0 /\ last \in Nat
    BY <2>1, RowOf DEF JobInv, Current
  <2>. QED  BY <2>1, <2>2, RowOf DEF JobInv, Current
<1>4. RowTraced(j, last)
  BY <1>3 DEF JobInv, Traced
<1>5. /\ row \in Row /\ row.to = rows[j][last].to /\ row.channel = rows[j][last].channel
      /\ row.status = "FAILED" /\ row.mail = rows[j][last].mail /\ row.provider = rows[j][last].provider
  BY <1>3 DEF Row, Status
<1>6. /\ row.mail # 0 => row.mail \in 1..Len(mails[j]) /\ mails[j][row.mail] = last /\ row.provider = "smtp"
      /\ Backed(rows[j][last]) => Backed(row)
  BY <1>4, <1>5 DEF RowTraced, Backed
<1>7. ASSUME mails' = mails, reports' = reports
      PROVE  /\ Traced(j)' /\ Open(j)' \subseteq Open(j)
             /\ rows' \in [Jobs -> Seq(Row)] /\ \A i \in Jobs \ {j} : rows'[i] = rows[i]
             /\ Len(rows'[j]) = last
             /\ Put(j, row) => last \notin Open(j)'
             /\ \A k \in 1..last :
                  /\ rows'[j][k].to = rows[j][k].to /\ rows'[j][k].channel = rows[j][k].channel
                  /\ Backed(rows[j][k]) => Backed(rows'[j][k])
  <2>1. CASE Put(j, row)
    <3>. HIDE DEF row
    <3>1. row.status \in {"SENT", "FAILED"} /\ row.status # "SENT"
      BY <1>5
    <3>. QED  BY <1>3, <1>5, <1>6, <1>7, <2>1, <3>1, PutKeeps DEF JobInv
  <2>2. CASE ~Put(j, row)
    <3>1. rows' = rows
      BY <2>2 DEF Correct
    <3>2. Traced(j)' /\ Open(j)' \subseteq Open(j)
      BY <1>7, <3>1, TraceKept DEF JobInv, Open, Reported
    <3>. QED  BY <2>2, <3>1, <3>2 DEF Shape, Backed
  <2>. QED  BY <2>1, <2>2
<1>8. CASE Throw(j)
  <2>1. mails' = mails /\ reports' = reports
    BY <1>8, ThrowIs
  <2>2. Only(j)
    BY <1>1, <1>2, <1>7, <1>8, <2>1, ThrowIs DEF Only, Shape, Untouched, NothingRecorded
  <2>3. Shape'
    BY <2>2 DEF Only
  <2>4. JobInv(j)'
    BY <1>1, <1>7, <1>8, <2>1, <2>3, ThrowKeeps
  <2>. QED  BY <2>2, <2>4
<1>9. CASE ~Throw(j)
  <2>1. /\ Put(j, row) /\ run' = [run EXCEPT ![j] = [@ EXCEPT !.at = "record", !.result = "error"]]
        /\ queue' = queue /\ attempts' = attempts /\ stalls' = stalls /\ mails' = mails
        /\ reports' = reports /\ asked' = asked
    BY <1>9 DEF Correct, given
  <2>2. /\ run' \in [Jobs -> RunType] /\ \A i \in Jobs \ {j} : run'[i] = run[i]
        /\ run'[j].at = "record" /\ run'[j].result = "error" /\ Stays(j)
    BY <2>1, GoesIs DEF Steps
  <2>3. Only(j)
    BY <1>1, <1>2, <1>7, <2>1, <2>2 DEF Only, Shape, Untouched, NothingRecorded
  <2>4. Current(j)'
    BY <1>3, <1>7, <2>1, <2>2 DEF Current, Stays, Taken, WithRow
  <2>5. Shape' /\ (Taken(j)' => Taken(j))
    BY <2>2, <2>3 DEF Only, Taken
  <2>6. JobInv(j)'
    BY <1>1, <1>7, <2>1, <2>2, <2>4, <2>5, WorkGoesOn
  <2>. QED  BY <2>3, <2>6
<1>. QED  BY <1>8, <1>9

(* The entry says ACCEPTED of a row that is backed; the channel is served.  *)
LEMMA RecordStep ==
  ASSUME Shape, NEW j \in Jobs, JobInv(j), Record(j)
  PROVE  Only(j) /\ JobInv(j)'
<1>. DEFINE last == Len(rows[j])
            wanted == run[j].wanted
            todo == run[j].todo \ {Channel(j)}
<1>1. /\ run[j].at = "record" /\ run[j].at \in Steps /\ Proceed(j, wanted, todo)
      /\ ledger' = ledger \union {Entry(j)} \/ ledger' = ledger
      /\ attempts' = attempts /\ stalls' = stalls /\ rows' = rows /\ mails' = mails
      /\ reports' = reports /\ asked' = asked
  BY DEF Record, Steps, given
<1>2. events' \in 0..MaxEvents
  BY EventsIs DEF Record
<1>3. /\ wanted \in Seq(SUBSET Channels) /\ todo \in SUBSET Channels /\ Len(wanted) = At(j)
      /\ At(j) \in 1..Len(Recipients[j]) /\ todo \subseteq wanted[Len(wanted)]
      /\ Channel(j) \in run[j].todo /\ (Channel(j) = "EMAIL" => todo = {})
      /\ run[j].todo \subseteq wanted[Len(wanted)] /\ Len(Recipients[j]) \in Nat
  <2>1. Channel(j) = "EMAIL" => todo = {}
    BY RunOf DEF Channel, Channels
  <2>2. /\ At(j) # 0 /\ run[j].todo # {} /\ run[j].todo \subseteq run[j].wanted[At(j)]
        /\ At(j) <= Len(Recipients[j])
    BY <1>1 DEF JobInv, Placed, Steps
  <2>. QED  BY <2>1, <2>2, RunOf DEF At
<1>4. /\ last \in Nat /\ last # 0 /\ last \in 1..last
      /\ Taken(j) => Backed(rows[j][last])
  BY <1>1, RowOf DEF JobInv, Current, WithRow
<1>5. /\ Entry(j).row[1] = j /\ Entry(j).row[2] = last
      /\ Entry(j).status = "ACCEPTED" => Taken(j)
  BY RunOf DEF Entry, RunType, Taken
<1>6. Recorded(j)'
  BY <1>1, <1>4, <1>5 DEF JobInv, Recorded, Backed
<1>7. ASSUME NEW n \in 1..Len(Recipients[j]), NEW channel \in Channels
      PROVE  Done(j, n, channel) <=>
               n \in 1..Len(wanted) /\ channel \in wanted[n] /\ (n = Len(wanted) => channel \notin todo)
  BY <1>1, <1>3 DEF Done, WithRow
<1>. HIDE DEF wanted, todo
<1>8. Only(j)
  <2>1. /\ run' \in [Jobs -> RunType]
        /\ queue' \in [Jobs -> {"absent", "waiting", "active", "completed", "failed"}]
        /\ \A i \in Jobs \ {j} : run'[i] = run[i] /\ queue'[i] = queue[i]
    BY <1>1, <1>3, ProceedIs
  <2>. QED  BY <1>1, <1>2, <1>5, <2>1 DEF Only, Shape, Untouched, NothingRecorded
<1>9. Shape' /\ Len(wanted) <= Len(Recipients[j])
      /\ (todo # {} => Len(wanted) # 0 /\ todo \subseteq wanted[Len(wanted)])
  BY <1>3, <1>8 DEF Only
<1>10. JobInv(j)'
  BY <1>1, <1>3, <1>6, <1>7, <1>9, ProceedKeeps
<1>. QED  BY <1>8, <1>10

(* The provider reports on a mail while sendNow may be anywhere.            *)
LEMMA ReportStep ==
  ASSUME Shape, NEW j \in Jobs, JobInv(j), NEW m \in 1..Len(mails[j]), NEW status \in Status,
         Report(j, m, status)
  PROVE  Only(j) /\ JobInv(j)'
<1>. DEFINE last == Len(rows[j])
            report == [mail |-> <<j, m>>, status |-> status]
<1>1. /\ queue' = queue /\ attempts' = attempts /\ stalls' = stalls /\ run' = run /\ mails' = mails
      /\ ledger' = ledger /\ reports' = reports \union {report} /\ m \in Nat /\ m # 0 /\ asked' = asked
  BY RowOf DEF Report, given
<1>2. events' \in 0..MaxEvents
  BY EventsIs DEF Report
<1>3. /\ rows' \in [Jobs -> Seq(Row)]
      /\ \A i \in Jobs \ {j} : rows'[i] = rows[i]
      /\ Len(rows'[j]) = last
      /\ \A k \in 1..last :
           /\ rows'[j][k].to = rows[j][k].to
           /\ rows'[j][k].channel = rows[j][k].channel
           /\ rows'[j][k].provider = rows[j][k].provider
           /\ rows'[j][k].mail = rows[j][k].mail
           /\ rows[j][k].mail = m => rows'[j][k].status = status
           /\ rows[j][k].mail # m => rows'[j][k] = rows[j][k]
  BY <1>1, ReportIs
<1>4. Only(j)
  BY <1>1, <1>2, <1>3 DEF Only, Shape, Untouched, NothingRecorded
<1>5. Placed(j)'
  BY <1>1 DEF JobInv, Placed, At, Taken, Channel
<1>6. last \in Nat /\ (last # 0 => last \in 1..last)
  BY RowOf
<1>7. \A k \in 1..last : rows[j][k].mail = m => k \notin Open(j)'
  BY <1>1, <1>3 DEF Open, Reported
<1>8. Open(j)' \subseteq Open(j)
  BY <1>1, <1>3, <1>7, OpenShrinks
<1>9. LeftOpen(j)' \subseteq LeftOpen(j)
  BY <1>1, <1>3, <1>8 DEF LeftOpen, AtRow
<1>10. Current(j)'
  BY <1>1, <1>3, <1>6, <1>8 DEF JobInv, Current, At, Taken, Channel, Backed
<1>11. Traced(j)'
  <2>1. ASSUME NEW k \in 1..last PROVE RowTraced(j, k)'
    <3>1. RowTraced(j, k)
      BY DEF JobInv, Traced
    <3>2. CASE rows[j][k].mail = m
      <4>1. Reported(j, k, rows[j][k].status)'
        BY <1>1, <1>3, <3>2 DEF Reported
      <4>. QED  BY <1>1, <1>3, <3>1, <3>2, <4>1 DEF RowTraced, Backed, Reported
    <3>3. CASE rows[j][k].mail # m
      BY <1>1, <1>3, <3>1, <3>3, RowKept, RowOf
    <3>. QED  BY <3>2, <3>3
  <2>. QED  BY <1>1, <1>3, <2>1 DEF JobInv, Traced
<1>12. Recorded(j)'
  BY <1>1, <1>3, <1>6, RecordKept DEF JobInv, NothingRecorded, Backed
<1>13. Exact(j)'
  <2>1. CASE run[j].at \in Steps \union {"told"}
    <3>1. \A n, channel : Done(j, n, channel)' <=> Done(j, n, channel)
      BY <1>1 DEF Done, At, Channel
    <3>. QED  BY <1>1, <1>3, <1>9, <2>1, <3>1, ExactKept DEF JobInv
  <2>2. CASE run[j].at \notin Steps \union {"told"}
    BY <1>1, <2>2 DEF Exact
  <2>. QED  BY <2>1, <2>2
<1>14. OpenCounted(j)'
  BY <1>1, <1>9, NoneLeftInTry DEF JobInv
<1>15. MailsCounted(j)'
  <2>1. ASSUME NEW n \in 1..Len(Recipients[j]) PROVE Count(j, n) <= Count(j, n)'
    <3>1. Sent(j, n)' = Sent(j, n)
      BY <1>1 DEF Sent, At, Channel
    <3>. QED  BY <1>1, <3>1, CountKept
  <2>. QED  BY <1>1, <1>3, <1>4, <2>1, NothingSent DEF JobInv, Only
<1>. QED  BY <1>4, <1>5, <1>10, <1>11, <1>12, <1>13, <1>14, <1>15 DEF JobInv

-------------------------------------------------------------------------------
LEMMA InitInv == Init => Inv
<1>. SUFFICES ASSUME Init PROVE Inv
  OBVIOUS
<1>1. Shape
  <2>1. <<>> \in Seq(Row) /\ <<>> \in Seq(Nat)
    OBVIOUS
  <2>. QED  BY <2>1, IdleIs, BoundsAssumption DEF Init, Shape
<1>2. ASSUME NEW j \in Jobs PROVE JobInv(j)
  <2>1. /\ queue[j] = "absent" /\ attempts[j] = 0 /\ stalls[j] = 0 /\ run[j] = Idle
        /\ rows[j] = <<>> /\ mails[j] = <<>> /\ ledger = {}
        /\ Len(rows[j]) = 0 /\ Len(mails[j]) = 0 /\ \A k \in 1..0 : FALSE
    BY DEF Init
  <2>2. Placed(j) /\ Current(j) /\ Traced(j) /\ Recorded(j) /\ Exact(j)
    BY <2>1, IdleIs, BoundsAssumption
       DEF Placed, Current, Traced, Recorded, Exact, Steps, WithRow, Taken
  <2>3. OpenCounted(j)
    <3>1. LeftOpen(j) = {}
      BY <2>1 DEF LeftOpen, Open
    <3>. QED  BY <2>1, <3>1, FS_EmptySet DEF OpenCounted
  <2>4. MailsCounted(j)
    <3>1. ASSUME NEW n PROVE MailsTo(j, n) = {} /\ ~Sent(j, n)
      BY <2>1 DEF MailsTo, Sent
    <3>2. Cardinality({}) = 0
      BY FS_EmptySet
    <3>3. ASSUME NEW n PROVE Cardinality(MailsTo(j, n)) <= attempts[j] + stalls[j] + (IF Sent(j, n) THEN 1 ELSE 0)
      BY <2>1, <3>1, <3>2
    <3>. QED  BY <3>3 DEF MailsCounted
  <2>. QED  BY <2>2, <2>3, <2>4 DEF JobInv
<1>. QED  BY <1>1, <1>2 DEF Inv

LEMMA CrashStep ==
  ASSUME Inv, Crash
  PROVE  Inv'
<1>1. /\ queue' = queue /\ attempts' = attempts /\ stalls' = stalls /\ rows' = rows /\ mails' = mails
      /\ reports' = reports /\ ledger' = ledger /\ asked' = asked /\ Event
      /\ run' = [j \in Jobs |-> IF Busy(j) THEN Idle ELSE run[j]]
  BY DEF Crash
<1>2. Shape /\ Shape'
  <2>1. events' \in 0..MaxEvents
    BY <1>1, EventsIs DEF Inv
  <2>. QED  BY <1>1, <2>1, IdleIs DEF Inv, Shape
<1>3. ASSUME NEW j \in Jobs PROVE JobInv(j)'
  <2>1. JobInv(j)
    BY DEF Inv
  <2>2. CASE ~Busy(j)
    <3>1. Untouched(j) /\ NothingRecorded(j)
      BY <1>1, <2>2 DEF Untouched, NothingRecorded
    <3>. QED  BY <1>1, <1>2, <2>1, <3>1, UntouchedKeeps
  <2>3. CASE Busy(j)
    <3>1. /\ run'[j] = Idle /\ queue[j] = "active"
          /\ attempts[j] \in Nat /\ stalls[j] \in Nat
      <4>1. run[j] \in RunType
        BY <1>2 DEF Shape
      <4>2. run[j].at \in Steps
        BY <2>3, <4>1 DEF Busy, RunType
      <4>. QED  BY <1>1, <1>2, <2>1, <2>3, <4>2 DEF JobInv, Placed, Shape
    <3>2. Placed(j)' /\ Current(j)' /\ Exact(j)'
      BY <1>1, <2>1, <3>1, IdleIs DEF JobInv, Placed, Current, Exact, Steps, WithRow, Taken
    <3>3. Traced(j)' /\ Recorded(j)'
      BY <1>1, <1>2, <2>1, TraceKept, RecordKept, RowOf DEF JobInv, NothingRecorded, Backed
    <3>4. OpenCounted(j)'
      <4>1. LeftOpen(j)' \subseteq LeftOpen(j)
        BY <1>1, <3>1, IdleIs DEF LeftOpen, AtRow, Open, Reported
      <4>. QED  BY <1>1, <1>2, <2>1, <4>1, NoneLeftInTry DEF JobInv
    <3>5. MailsCounted(j)'
      <4>1. ASSUME NEW n \in 1..Len(Recipients[j]) PROVE Count(j, n) <= Count(j, n)'
        <5>1. Sent(j, n)'
          BY <1>1, <3>1, IdleIs DEF Sent
        <5>. QED  BY <1>1, <1>2, <5>1, CountKept
      <4>. QED  BY <1>1, <1>2, <2>1, <4>1, NothingSent DEF JobInv
    <3>. QED  BY <3>2, <3>3, <3>4, <3>5 DEF JobInv
  <2>. QED  BY <2>2, <2>3
<1>. QED  BY <1>2, <1>3 DEF Inv

LEMMA NextInv == Inv /\ [Next]_vars => Inv'
<1>. SUFFICES ASSUME Inv, [Next]_vars PROVE Inv'
  OBVIOUS
<1>1. ASSUME NEW j \in Jobs, Only(j), JobInv(j)' PROVE Inv'
  <2>1. ASSUME NEW i \in Jobs PROVE JobInv(i)'
    <3>1. CASE i = j
      BY <1>1, <3>1
    <3>2. CASE i # j
      BY <1>1, <3>2, UntouchedKeeps DEF Inv, Only
    <3>. QED  BY <3>1, <3>2
  <2>. QED  BY <1>1, <2>1 DEF Inv, Only
<1>2. ASSUME NEW j \in Jobs,
             (\E channels \in SUBSET Channels : Enqueue(j, channels)) \/ Skip(j) \/ Work(j) \/ Stalled(j)
      PROVE  Inv'
  <2>1. Shape /\ JobInv(j)
    BY DEF Inv
  <2>2. Only(j) /\ JobInv(j)'
    BY <1>2, <2>1, QueueStep, ResolveStep, CreateStep, SendStep, UpdateStep, CorrectStep, RecordStep DEF Work
  <2>. QED  BY <1>1, <2>2
<1>3. ASSUME NEW j \in Jobs, NEW m \in 1..Len(mails[j]), NEW status \in Status, Report(j, m, status)
      PROVE  Inv'
  <2>1. Only(j) /\ JobInv(j)'
    BY <1>3, ReportStep DEF Inv
  <2>. QED  BY <1>1, <2>1
<1>4. ASSUME NEW u \in Users, Change(u) PROVE Inv'
  <2>1. /\ queue' = queue /\ attempts' = attempts /\ stalls' = stalls /\ run' = run /\ rows' = rows
        /\ mails' = mails /\ reports' = reports /\ ledger' = ledger /\ asked' = asked
        /\ events' \in 0..MaxEvents
    BY <1>4, EventsIs DEF Change, Inv, given
  <2>2. ASSUME NEW i \in Jobs PROVE JobInv(i)'
    BY <2>1, UntouchedKeeps DEF Inv, Untouched, NothingRecorded
  <2>. QED  BY <2>1, <2>2 DEF Inv, Shape
<1>5. CASE UNCHANGED vars
  <2>1. ASSUME NEW i \in Jobs PROVE JobInv(i)'
    BY <1>5, UntouchedKeeps DEF Inv, Untouched, NothingRecorded, vars
  <2>. QED  BY <1>5, <2>1 DEF Inv, Shape, vars
<1>. QED  BY <1>2, <1>3, <1>4, <1>5, CrashStep DEF Next

(* Whatever fails, crashes, or is reported, the worker, the rows, the mails *)
(* and the ledger agree on what was done for each job.                      *)
THEOREM Invariance == Spec => []Inv
<1>. QED  BY InitInv, NextInv, PTL DEF Spec

(* Jobs, rows and mails keep their shapes, and no job is tried more often   *)
(* than its attempts and its stalls allow.                                  *)
THEOREM TypeCorrect == Spec => []TypeOK
<1>. SUFFICES ASSUME Inv PROVE TypeOK
  BY Invariance, PTL
<1>1. attempts \in [Jobs -> 0..MaxAttempts] /\ stalls \in [Jobs -> 0..MaxStalls + 1]
  <2>1. ASSUME NEW j \in Jobs PROVE attempts[j] \in 0..MaxAttempts /\ stalls[j] \in 0..MaxStalls + 1
    BY BoundsAssumption DEF Inv, Shape, JobInv, Placed
  <2>. QED  BY <2>1 DEF Inv, Shape
<1>2. ASSUME NEW j \in Jobs
      PROVE  /\ Len(run[j].wanted) \in 0..Len(Recipients[j])
             /\ run[j].from \in 0..Len(rows[j])
             /\ \A k \in 1..Len(rows[j]) :
                  /\ rows[j][k].to \in 1..Len(Recipients[j])
                  /\ rows[j][k].channel \in Channels
                  /\ rows[j][k].status \in Status
                  /\ rows[j][k].mail \in 0..Len(mails[j])
             /\ \A m \in 1..Len(mails[j]) : mails[j][m] \in 1..Len(rows[j])
  <2>1. Shape /\ JobInv(j)
    BY DEF Inv
  <2>2. /\ run[j] \in RunType /\ At(j) \in Nat /\ run[j].from \in Nat
        /\ Len(Recipients[j]) \in Nat /\ Len(rows[j]) \in Nat
    BY <2>1, RunOf, RowOf
  <2>3. Len(run[j].wanted) \in 0..Len(Recipients[j]) /\ run[j].from \in 0..Len(rows[j])
    <3>1. CASE run[j].at = "idle"
      <4>1. run[j].from = 0 /\ Len(run[j].wanted) = 0
        BY <2>1, <3>1, IdleIs DEF JobInv, Placed
      <4>. QED  BY <2>2, <4>1
    <3>2. CASE run[j].at \in Steps \union {"told"}
      <4>1. At(j) <= Len(Recipients[j]) /\ run[j].from <= Len(rows[j])
        BY <2>1, <2>2, <3>2 DEF JobInv, Placed, Exact
      <4>. QED  BY <2>2, <4>1 DEF At
    <3>. QED  BY <2>2, <3>1, <3>2 DEF RunType
  <2>4. ASSUME NEW k \in 1..Len(rows[j])
        PROVE  /\ rows[j][k].to \in 1..Len(Recipients[j])
               /\ rows[j][k].channel \in Channels
               /\ rows[j][k].status \in Status
               /\ rows[j][k].mail \in 0..Len(mails[j])
    <3>1. rows[j][k] \in Row /\ RowTraced(j, k) /\ Len(mails[j]) \in Nat
      BY <2>1, RowOf DEF JobInv, Traced
    <3>. QED  BY <3>1 DEF Row, RowTraced
  <2>. QED  BY <2>1, <2>3, <2>4 DEF JobInv, Traced
<1>. QED  BY <1>1, <1>2 DEF TypeOK, Inv, Shape

(* However the provider reports, the statements fail and the worker         *)
(* crashes, a row claims no more than happened.                             *)
THEOREM RowsTruthful == Spec => []RowsAreTruthful
<1>. SUFFICES ASSUME Inv PROVE RowsAreTruthful
  BY Invariance, PTL
<1>. SUFFICES ASSUME NEW j \in Jobs, NEW k \in 1..Len(rows[j])
              PROVE  /\ rows[j][k].mail # 0 => mails[j][rows[j][k].mail] = k /\ rows[j][k].provider = "smtp"
                     /\ rows[j][k].channel = "EMAIL" /\ rows[j][k].status = "SENT" => Backed(rows[j][k])
                     /\ rows[j][k].status \in {"DELIVERED", "BOUNCED"} => Reported(j, k, rows[j][k].status)
                     /\ [row |-> <<j, k>>, status |-> "ACCEPTED"] \in ledger => Backed(rows[j][k])
  BY DEF RowsAreTruthful, Backed
<1>1. RowTraced(j, k) /\ Recorded(j)
  BY DEF Inv, JobInv, Traced
<1>2. [row |-> <<j, k>>, status |-> "ACCEPTED"] \in ledger => Backed(rows[j][k])
  <2>. DEFINE e == [row |-> <<j, k>>, status |-> "ACCEPTED"]
  <2>1. e.row[1] = j /\ e.row[2] = k /\ e.status = "ACCEPTED"
    OBVIOUS
  <2>. HIDE DEF e
  <2>2. e \in ledger => Backed(rows[j][k])
    BY <1>1, <2>1 DEF Recorded
  <2>. QED  BY <2>2 DEF e
<1>. QED  BY <1>1, <1>2 DEF RowTraced

(* A recipient gets one mail per try of the job at most, and each mail has  *)
(* a row of its own.                                                        *)
THEOREM MailsBounded == Spec => []MailsWithinTries
<1>. SUFFICES ASSUME Inv PROVE MailsWithinTries
  BY Invariance, PTL
<1>. SUFFICES ASSUME NEW j \in Jobs
              PROVE  /\ \A n \in 1..Len(Recipients[j]) : Cardinality(MailsTo(j, n)) <= Tries(j)
                     /\ \A m, q \in 1..Len(mails[j]) : mails[j][m] = mails[j][q] => m = q
  BY DEF MailsWithinTries, MailsTo
<1>1. Shape /\ Traced(j) /\ MailsCounted(j) /\ attempts[j] \in Nat /\ stalls[j] \in Nat
  BY DEF Inv, JobInv, Shape
<1>2. ASSUME NEW n \in 1..Len(Recipients[j]) PROVE Cardinality(MailsTo(j, n)) <= Tries(j)
  <2>1. Cardinality(MailsTo(j, n)) <= Count(j, n) /\ Cardinality(MailsTo(j, n)) \in Nat
    BY <1>1, MailsAreFinite DEF MailsCounted, Count
  <2>2. Sent(j, n) => queue[j] \in {"active", "completed"}
    BY DEF Sent
  <2>3. Count(j, n) <= Tries(j) /\ Count(j, n) \in Nat /\ Tries(j) \in Nat
    BY <1>1, <2>2 DEF Count, Tries
  <2>. QED  BY <2>1, <2>3
<1>. QED  BY <1>1, <1>2 DEF Traced

(* When sendNow returns, the try made one row for each channel a recipient  *)
(* wanted and no other, left none of them open, and each row that is open   *)
(* was left so by a try that is counted.                                    *)
THEOREM HandledWhenTold == Spec => []CompletedWasHandled
<1>. SUFFICES ASSUME Inv PROVE CompletedWasHandled
  BY Invariance, PTL
<1>. SUFFICES ASSUME NEW j \in Jobs, run[j].at = "told" PROVE Handled(j)
  BY DEF CompletedWasHandled
<1>1. /\ Shape /\ JobInv(j) /\ queue[j] = "completed" /\ run[j].todo = {} /\ At(j) = Len(Recipients[j])
      /\ Len(Recipients[j]) \in Nat
  BY RunOf DEF Inv, JobInv, Placed
<1>2. ASSUME NEW n \in 1..Len(Recipients[j]), NEW channel \in Channels
      PROVE  Cardinality(RowsFor(j, n, channel)) = IF channel \in run[j].wanted[n] THEN 1 ELSE 0
  <2>1. Done(j, n, channel) <=> channel \in run[j].wanted[n]
    BY <1>1 DEF Done
  <2>2. IF Done(j, n, channel) THEN \E k \in 1..Len(rows[j]) : RowsFor(j, n, channel) = {k}
                               ELSE RowsFor(j, n, channel) = {}
    BY <1>1 DEF JobInv, Exact
  <2>3. CASE Done(j, n, channel)
    <3>1. PICK k : RowsFor(j, n, channel) = {k}
      BY <2>2, <2>3
    <3>. QED  BY <2>1, <2>3, <3>1, FS_Singleton
  <2>4. CASE ~Done(j, n, channel)
    BY <2>1, <2>2, <2>4, FS_EmptySet
  <2>. QED  BY <2>3, <2>4
<1>3. LeftOpen(j) = Open(j)
  BY <1>1 DEF LeftOpen, AtRow
<1>4. \A k \in Open(j) : k <= run[j].from
  BY <1>1, <1>3 DEF JobInv, Exact
<1>5. Cardinality(Open(j)) <= attempts[j] + stalls[j]
  BY <1>1, <1>3 DEF JobInv, OpenCounted
<1>. QED  BY <1>1, <1>2, <1>4, <1>5 DEF Handled, At
===============================================================================
