--------------------------- MODULE TrustLedgerProofs ---------------------------
(***************************************************************************)
(* Theorems about TrustLedger, for any number of accounts, holders,        *)
(* requests, references and amounts.                                       *)
(***************************************************************************)
EXTENDS TrustLedger, LedgerSumsTheorems

(* What the assumptions say of the body of a request. *)
LEMMA BodyType ==
  ASSUME NEW in \in Inputs
  PROVE  /\ in.kind \in Kinds
         /\ in.account \in Accounts
         /\ in.holder \in Holders
         /\ in.amount \in Nat \ {0}
         /\ in.reference \in STRING
         /\ in.period \in Periods
         /\ in.invoice \in Invoices \union {NoInvoice}
         /\ in.drn \in Drns \union {NoDrn}
BY ConstantsAssumption DEF InputType

LEMMA DeltaIsInt ==
  ASSUME NEW in \in Inputs
  PROVE  Delta(in) \in Int /\ RowDelta(in) \in Int
BY BodyType DEF Delta, RowDelta, Kinds, TransactionTypes, Inflows, Outflows

(* A request only runs the statements of its kind of body: postInterest or *)
(* create, and the invoice statements only for a transfer that names one.  *)
InterestPath == {"checkInterest", "insertInterest", "creditAccount"}
CreatePath   == {"checkAccount", "checkMatter", "checkDue", "insert", "moveAccount",
                 "applyDelta", "postTrust", "postOffice", "readInvoice", "writeInvoice"}

PathOK ==
  \A r \in Requests :
    /\ pc[r] \in InterestPath => input[r].kind = "POST_INTEREST"
    /\ pc[r] \in CreatePath => input[r].kind # "POST_INTEREST"
    /\ pc[r] \in {"readInvoice", "writeInvoice"} => input[r].invoice # NoInvoice

-------------------------------------------------------------------------------
(* Type correctness.  The five shapes a step of a request can have.        *)
LEMMA RollbackType ==
  ASSUME TypeOK, NEW r \in Requests, Rollback(r)
  PROVE  TypeOK'
BY DEF Rollback, TypeOK, Goto, db, Pcs, Finished

LEMMA GotoType ==
  ASSUME TypeOK, NEW r \in Requests, NEW l \in Pcs,
         Goto(r, l), UNCHANGED <<db, input, seenPaid, locks>>
  PROVE  TypeOK'
BY DEF TypeOK, Goto, db, locks

LEMMA CheckType ==
  ASSUME TypeOK, NEW r \in Requests, NEW l \in Pcs, NEW ok, Check(r, ok, l)
  PROVE  TypeOK'
<1>1. CASE ok
  BY <1>1, GotoType DEF Check
<1>2. CASE ~ok
  BY <1>2, GotoType DEF Check, Pcs, Finished
<1>. QED  BY <1>1, <1>2

LEMMA LockAccountType ==
  ASSUME TypeOK, NEW r \in Requests, NEW l \in Pcs, LockAccount(r, l)
  PROVE  TypeOK'
BY BodyType DEF LockAccount, Goto, TypeOK, db

LEMMA PostJournalType ==
  ASSUME TypeOK, NEW r \in Requests, NEW l \in Pcs, PostJournal(r, l)
  PROVE  TypeOK'
BY RollbackType, GotoType DEF PostJournal

LEMMA CommitType ==
  ASSUME TypeOK, NEW r \in Requests, Commit(r)
  PROVE  TypeOK'
<1>. DEFINE in == input[r]
<1>1. in \in Inputs
  BY DEF TypeOK
<1>2. /\ in.account \in Accounts
      /\ in.holder \in Holders
      /\ in.amount \in Nat \ {0}
      /\ in.reference \in STRING
      /\ in.period \in Periods
      /\ in.invoice \in Invoices \union {NoInvoice}
      /\ in.drn \in Drns \union {NoDrn}
  BY <1>1, BodyType
<1>3. Delta(in) \in Int /\ RowDelta(in) \in Int
  BY <1>1, DeltaIsInt
<1>. HIDE DEF in
<1>4. MoveMoney(in)
  BY DEF Commit, in
<1>5. (currentBalance \in [Accounts -> Int])' /\ (booked \in [Accounts -> Int])'
  BY <1>2, <1>3, <1>4 DEF MoveMoney, TypeOK
<1>6. (ledger \in [Accounts -> [Holders -> Int]])'
  BY <1>2, <1>3, <1>4 DEF MoveMoney, TypeOK
<1>7. (/\ trustBalance \in [MatterHolders -> Int]
       /\ references \subseteq STRING
       /\ interestRefs \subseteq STRING
       /\ trustBank \in [Periods -> Int]
       /\ officeBank \in [Periods -> Int]
       /\ paidAmount \in [Invoices -> Nat]
       /\ drnStatus \in [Drns -> {"PENDING", "SETTLED"}])'
  <2>1. CASE PublishInterest(r)
    <3>1. (interestRefs \subseteq STRING)'
      BY <2>1, <1>2 DEF PublishInterest, TypeOK, in
    <3>2. (trustBalance \in [MatterHolders -> Int])'
      <4>1. CASE in.holder \in MatterHolders
        BY <2>1, <1>2, <4>1 DEF PublishInterest, TypeOK, in
      <4>2. CASE in.holder \notin MatterHolders
        BY <2>1, <4>2 DEF PublishInterest, TypeOK, in
      <4>. QED  BY <4>1, <4>2
    <3>. QED  BY <2>1, <3>1, <3>2 DEF PublishInterest, TypeOK
  <2>2. CASE PublishTransaction(r)
    <3>1. (references \subseteq STRING)'
      BY <2>2, <1>2 DEF PublishTransaction, TypeOK, in
    <3>2. (trustBank \in [Periods -> Int])'
      BY <2>2, <1>2, <1>3 DEF PublishTransaction, TypeOK, in
    <3>3. (officeBank \in [Periods -> Int])'
      BY <2>2, <1>2 DEF PublishTransaction, TypeOK, in
    <3>4. (paidAmount \in [Invoices -> Nat])'
      BY <2>2, <1>2 DEF PublishTransaction, TypeOK, in
    <3>5. (drnStatus \in [Drns -> {"PENDING", "SETTLED"}])'
      BY <2>2, <1>2 DEF PublishTransaction, TypeOK, in
    <3>. QED  BY <2>2, <3>1, <3>2, <3>3, <3>4, <3>5 DEF PublishTransaction, TypeOK
  <2>. QED  BY <2>1, <2>2 DEF Commit
<1>8. (/\ active \in [Accounts -> BOOLEAN]
       /\ period \in [Periods -> {"OPEN", "CLOSED"}]
       /\ pc \in [Requests -> Pcs]
       /\ input \in [Requests -> Inputs]
       /\ seenPaid \in [Requests -> Nat]
       /\ accountLock \in [Accounts -> Requests \union {NoRequest}]
       /\ invoiceLock \in [Invoices -> Requests \union {NoRequest}])'
  BY DEF Commit, Goto, TypeOK, Pcs, Finished
<1>. QED  BY <1>5, <1>6, <1>7, <1>8 DEF TypeOK

(* Every step keeps every variable in its type. *)
LEMMA TypeStep ==
  ASSUME TypeOK, PathOK, [Next]_vars
  PROVE  TypeOK'
<1>1. ASSUME NEW r \in Requests, Submit(r) PROVE TypeOK'
  BY <1>1, GotoType DEF Submit, Pcs, Validating
<1>2. ASSUME NEW r \in Requests, CheckAccount(r) PROVE TypeOK'
  BY <1>2, CheckType DEF CheckAccount, Pcs, Validating
<1>3. ASSUME NEW r \in Requests, CheckMatter(r) PROVE TypeOK'
  BY <1>3, CheckType DEF CheckMatter, Pcs, Validating, InTx
<1>4. ASSUME NEW r \in Requests, CheckDue(r) PROVE TypeOK'
  BY <1>4, CheckType DEF CheckDue, Pcs, InTx
<1>5. ASSUME NEW r \in Requests, InsertTransaction(r) PROVE TypeOK'
  BY <1>5, RollbackType, GotoType DEF InsertTransaction, Pcs, InTx
<1>6. ASSUME NEW r \in Requests, MoveAccount(r) PROVE TypeOK'
  BY <1>6, RollbackType, LockAccountType DEF MoveAccount, Pcs, InTx, Moved
<1>7. ASSUME NEW r \in Requests, ApplyDelta(r) PROVE TypeOK'
  BY <1>7, RollbackType, GotoType DEF ApplyDelta, Pcs, InTx, Moved
<1>8. ASSUME NEW r \in Requests, PostTrustJournal(r) PROVE TypeOK'
  BY <1>8, PostJournalType DEF PostTrustJournal, Pcs, InTx, Moved
<1>9. ASSUME NEW r \in Requests, PostOfficeJournal(r) PROVE TypeOK'
  BY <1>9, PostJournalType DEF PostOfficeJournal, Pcs, InTx, Moved
<1>10. ASSUME NEW r \in Requests, ReadInvoice(r) PROVE TypeOK'
  <2>1. input[r].invoice \in Invoices
    BY <1>10, BodyType DEF ReadInvoice, PathOK, TypeOK
  <2>. QED  BY <1>10, <2>1 DEF ReadInvoice, Goto, TypeOK, db, locks, Pcs, InTx, Moved
<1>11. ASSUME NEW r \in Requests, WriteInvoice(r) PROVE TypeOK'
  BY <1>11 DEF WriteInvoice, Goto, TypeOK, db, Pcs, InTx, Moved
<1>12. ASSUME NEW r \in Requests, CheckInterest(r) PROVE TypeOK'
  BY <1>12, CheckType DEF CheckInterest, Pcs, InTx
<1>13. ASSUME NEW r \in Requests, InsertInterest(r) PROVE TypeOK'
  BY <1>13, RollbackType, GotoType DEF InsertInterest, Pcs, InTx
<1>14. ASSUME NEW r \in Requests, CreditAccount(r) PROVE TypeOK'
  BY <1>14, LockAccountType DEF CreditAccount, Pcs, InTx, Moved
<1>15. ASSUME NEW r \in Requests, Commit(r) PROVE TypeOK'
  BY <1>15, CommitType
<1>16. ASSUME NEW r \in Requests, Abort(r) PROVE TypeOK'
  BY <1>16, RollbackType DEF Abort
<1>17. ASSUME NEW a \in Accounts, Archive(a) PROVE TypeOK'
  BY <1>17 DEF Archive, TypeOK, locks
<1>18. ASSUME NEW p \in Periods, ClosePeriod(p) PROVE TypeOK'
  BY <1>18 DEF ClosePeriod, TypeOK, locks
<1>19. ASSUME UNCHANGED vars PROVE TypeOK'
  BY <1>19 DEF TypeOK, vars, db, locks
<1>. QED
  BY <1>1, <1>2, <1>3, <1>4, <1>5, <1>6, <1>7, <1>8, <1>9, <1>10, <1>11, <1>12,
     <1>13, <1>14, <1>15, <1>16, <1>17, <1>18, <1>19 DEF Next, Step, Quiescent

(* A step from one statement to another that keeps to the paths. *)
LEMMA PathGoto ==
  ASSUME TypeOK, PathOK, NEW r \in Requests, NEW l, Goto(r, l), input' = input,
         l \in InterestPath => input[r].kind = "POST_INTEREST",
         l \in CreatePath => input[r].kind # "POST_INTEREST",
         l \in {"readInvoice", "writeInvoice"} => input[r].invoice # NoInvoice
  PROVE  PathOK'
BY DEF PathOK, Goto, TypeOK

LEMMA PathRollback ==
  ASSUME TypeOK, PathOK, NEW r \in Requests, Rollback(r)
  PROVE  PathOK'
BY PathGoto DEF Rollback, InterestPath, CreatePath

(* A check that a request of the path passes or fails. *)
LEMMA PathCheck ==
  ASSUME TypeOK, PathOK, NEW r \in Requests, NEW ok, NEW l, Check(r, ok, l),
         l \in InterestPath => input[r].kind = "POST_INTEREST",
         l \in CreatePath => input[r].kind # "POST_INTEREST",
         l \notin {"readInvoice", "writeInvoice"}
  PROVE  PathOK'
<1>1. CASE ok
  BY <1>1, PathGoto DEF Check
<1>2. CASE ~ok
  BY <1>2, PathGoto DEF Check, InterestPath, CreatePath
<1>. QED  BY <1>1, <1>2

(* Every step keeps the requests to their paths. *)
LEMMA PathStep ==
  ASSUME TypeOK, PathOK, [Next]_vars
  PROVE  PathOK'
<1>. USE DEF InterestPath, CreatePath
<1>1. ASSUME NEW r \in Requests, Submit(r) PROVE PathOK'
  BY <1>1, PathGoto DEF Submit
<1>2. ASSUME NEW r \in Requests, CheckAccount(r) PROVE PathOK'
  BY <1>2, PathCheck DEF CheckAccount, PathOK
<1>3. ASSUME NEW r \in Requests, CheckMatter(r) PROVE PathOK'
  BY <1>3, PathCheck DEF CheckMatter, PathOK
<1>4. ASSUME NEW r \in Requests, CheckDue(r) PROVE PathOK'
  BY <1>4, PathCheck DEF CheckDue, PathOK
<1>5. ASSUME NEW r \in Requests, InsertTransaction(r) PROVE PathOK'
  BY <1>5, PathRollback, PathGoto DEF InsertTransaction, PathOK
<1>6. ASSUME NEW r \in Requests, MoveAccount(r) PROVE PathOK'
  BY <1>6, PathRollback, PathGoto DEF MoveAccount, LockAccount, PathOK
<1>7. ASSUME NEW r \in Requests, ApplyDelta(r) PROVE PathOK'
  BY <1>7, PathRollback, PathGoto DEF ApplyDelta, PathOK
<1>8. ASSUME NEW r \in Requests, PostTrustJournal(r) PROVE PathOK'
  BY <1>8, PathRollback, PathGoto DEF PostTrustJournal, PostJournal, PathOK
<1>9. ASSUME NEW r \in Requests, PostOfficeJournal(r) PROVE PathOK'
  BY <1>9, PathRollback, PathGoto DEF PostOfficeJournal, PostJournal, PathOK
<1>10. ASSUME NEW r \in Requests, ReadInvoice(r) PROVE PathOK'
  BY <1>10, PathGoto DEF ReadInvoice, PathOK
<1>11. ASSUME NEW r \in Requests, WriteInvoice(r) PROVE PathOK'
  BY <1>11, PathGoto DEF WriteInvoice
<1>12. ASSUME NEW r \in Requests, CheckInterest(r) PROVE PathOK'
  BY <1>12, PathCheck DEF CheckInterest, PathOK
<1>13. ASSUME NEW r \in Requests, InsertInterest(r) PROVE PathOK'
  BY <1>13, PathRollback, PathGoto DEF InsertInterest, PathOK
<1>14. ASSUME NEW r \in Requests, CreditAccount(r) PROVE PathOK'
  BY <1>14, PathGoto DEF CreditAccount, LockAccount
<1>15. ASSUME NEW r \in Requests, Commit(r) PROVE PathOK'
  BY <1>15, PathGoto DEF Commit
<1>16. ASSUME NEW r \in Requests, Abort(r) PROVE PathOK'
  BY <1>16, PathRollback DEF Abort
<1>17. ASSUME NEW a \in Accounts, Archive(a) PROVE PathOK'
  BY <1>17 DEF Archive, PathOK
<1>18. ASSUME NEW p \in Periods, ClosePeriod(p) PROVE PathOK'
  BY <1>18 DEF ClosePeriod, PathOK
<1>19. ASSUME UNCHANGED vars PROVE PathOK'
  BY <1>19 DEF PathOK, vars
<1>. QED
  BY <1>1, <1>2, <1>3, <1>4, <1>5, <1>6, <1>7, <1>8, <1>9, <1>10, <1>11, <1>12,
     <1>13, <1>14, <1>15, <1>16, <1>17, <1>18, <1>19 DEF Next, Step, Quiescent

LEMMA TypeInit == Init => TypeOK /\ PathOK
<1>. SUFFICES ASSUME Init PROVE TypeOK /\ PathOK
  OBVIOUS
<1>1. \A a \in Accounts : Total(Opening[a]) \in Int
  BY TotalIsInt, ConstantsAssumption
<1>2. Opening \in [Accounts -> [Holders -> Int]]
  BY ConstantsAssumption
<1>. QED
  BY <1>1, <1>2, ConstantsAssumption
  DEF Init, TypeOK, PathOK, Pcs, InterestPath, CreatePath

(* Every variable keeps its type, in every behaviour of the program: the   *)
(* lock columns name live requests, no counter leaves the integers.        *)
THEOREM TypeCorrect == Spec => []TypeOK
<1>1. Init => TypeOK /\ PathOK
  BY TypeInit
<1>2. TypeOK /\ PathOK /\ [Next]_vars => (TypeOK /\ PathOK)'
  BY TypeStep, PathStep
<1>. QED  BY <1>1, <1>2, PTL DEF Spec

-------------------------------------------------------------------------------
(***************************************************************************)
(* The money.  A transaction that has moved the control balance holds the  *)
(* row of its account, so between its check of the ledger and its commit   *)
(* no other transaction commits a movement of that account.                *)
(***************************************************************************)
HoldsItsRow ==
  \A r \in Requests : pc[r] \in Moved => accountLock[input[r].account] = r

IInv ==
  /\ TypeOK
  /\ PathOK
  /\ HoldsItsRow
  /\ CheckedFundsStayAvailable
  /\ LedgersNeverNegative
  /\ ControlMatchesLedgers

(* The part of IInv a step other than a commit can disturb. *)
Held == HoldsItsRow /\ CheckedFundsStayAvailable

(* A transaction goes from one statement to the next with the same rows. *)
LEMMA HeldGoto ==
  ASSUME TypeOK, Held, NEW r \in Requests, NEW l, Goto(r, l),
         UNCHANGED <<input, ledger, accountLock>>,
         l \in Moved => pc[r] \in Moved,
         l \in Moved \ {"applyDelta"}
           => \/ pc[r] \in Moved \ {"applyDelta"}
              \/ ledger[input[r].account][input[r].holder] + Delta(input[r]) >= 0
  PROVE  Held'
<1>1. HoldsItsRow'
  BY DEF Held, HoldsItsRow, Goto, TypeOK
<1>2. CheckedFundsStayAvailable'
  BY DEF Held, CheckedFundsStayAvailable, Goto, TypeOK, Delta
<1>. QED  BY <1>1, <1>2 DEF Held

LEMMA HeldRollback ==
  ASSUME TypeOK, Held, NEW r \in Requests, Rollback(r)
  PROVE  Held'
<1>1. HoldsItsRow'
  BY BodyType DEF Held, HoldsItsRow, Rollback, Goto, TypeOK, Moved
<1>2. CheckedFundsStayAvailable'
  BY DEF Held, CheckedFundsStayAvailable, Rollback, Goto, TypeOK, Delta, Moved, db
<1>. QED  BY <1>1, <1>2 DEF Held

LEMMA HeldCheck ==
  ASSUME TypeOK, Held, NEW r \in Requests, NEW ok, NEW l, Check(r, ok, l), l \notin Moved
  PROVE  Held'
<1>1. CASE ok
  BY <1>1, HeldGoto DEF Check, db, locks
<1>2. CASE ~ok
  BY <1>2, HeldGoto DEF Check, db, locks, Moved
<1>. QED  BY <1>1, <1>2

(* A transaction takes the row of its account, which nobody holds. *)
LEMMA HeldLockAccount ==
  ASSUME TypeOK, Held, NEW r \in Requests, NEW l, LockAccount(r, l),
         l # "applyDelta"
           => ledger[input[r].account][input[r].holder] + Delta(input[r]) >= 0
  PROVE  Held'
<1>1. HoldsItsRow'
  <2>. SUFFICES ASSUME NEW q \in Requests, pc'[q] \in Moved
                PROVE  accountLock'[input[q].account] = q
    BY DEF HoldsItsRow, LockAccount
  <2>1. input[r].account \in Accounts /\ input[q].account \in Accounts
    BY BodyType DEF TypeOK
  <2>2. CASE q = r
    BY <2>1, <2>2 DEF LockAccount, TypeOK
  <2>3. CASE q # r
    <3>1. accountLock[input[q].account] = q
      BY <2>3 DEF Held, HoldsItsRow, LockAccount, Goto, TypeOK
    <3>2. input[q].account # input[r].account
      BY <3>1, ConstantsAssumption DEF LockAccount
    <3>. QED  BY <2>1, <3>1, <3>2 DEF LockAccount, TypeOK
  <2>. QED  BY <2>2, <2>3
<1>2. CheckedFundsStayAvailable'
  BY DEF Held, CheckedFundsStayAvailable, LockAccount, Goto, TypeOK, Delta, db
<1>. QED  BY <1>1, <1>2 DEF Held

(* A commit publishes one movement of one ledger. *)
LEMMA CommitMoves ==
  ASSUME TypeOK, NEW r \in Requests, Commit(r)
  PROVE  LET in == input[r] IN
         /\ in.account \in Accounts
         /\ in.holder \in Holders
         /\ Delta(in) \in Int
         /\ ledger'[in.account] = [ledger[in.account] EXCEPT ![in.holder] = @ + Delta(in)]
         /\ ledger'[in.account][in.holder] = ledger[in.account][in.holder] + Delta(in)
         /\ currentBalance'[in.account] = currentBalance[in.account] + Delta(in)
         /\ \A h \in Holders \ {in.holder} : ledger'[in.account][h] = ledger[in.account][h]
         /\ \A a \in Accounts \ {in.account} :
              ledger'[a] = ledger[a] /\ currentBalance'[a] = currentBalance[a]
<1>. DEFINE in == input[r]
<1>1. in.account \in Accounts /\ in.holder \in Holders /\ Delta(in) \in Int
  BY BodyType, DeltaIsInt DEF TypeOK
<1>2. MoveMoney(in)
  BY DEF Commit
<1>. HIDE DEF in
<1>3. ledger'[in.account] = [ledger[in.account] EXCEPT ![in.holder] = @ + Delta(in)]
  BY <1>1, <1>2 DEF MoveMoney, TypeOK
<1>4. /\ ledger'[in.account][in.holder] = ledger[in.account][in.holder] + Delta(in)
      /\ \A h \in Holders \ {in.holder} : ledger'[in.account][h] = ledger[in.account][h]
  BY <1>1, <1>3 DEF TypeOK
<1>5. currentBalance'[in.account] = currentBalance[in.account] + Delta(in)
  BY <1>1, <1>2 DEF MoveMoney, TypeOK
<1>6. \A a \in Accounts \ {in.account} :
        ledger'[a] = ledger[a] /\ currentBalance'[a] = currentBalance[a]
  BY <1>1, <1>2 DEF MoveMoney, TypeOK
<1>. QED  BY <1>1, <1>3, <1>4, <1>5, <1>6 DEF in

(* A commit frees its own rows only, and the movement it publishes is of   *)
(* an account in which nobody else has checked funds.                      *)
LEMMA HeldCommit ==
  ASSUME TypeOK, Held, NEW r \in Requests, Commit(r)
  PROVE  Held'
<1>1. \A q \in Requests : pc'[q] \in Moved => q # r /\ pc[q] \in Moved /\ pc'[q] = pc[q]
  BY DEF Commit, Goto, TypeOK, Moved
<1>2. \A q \in Requests : pc[q] \in Moved /\ q # r => input[q].account # input[r].account
  BY DEF Held, HoldsItsRow, Commit, Moved
<1>3. \A q \in Requests : input[q].account \in Accounts
  BY BodyType DEF TypeOK
<1>4. HoldsItsRow'
  BY <1>1, <1>3 DEF Held, HoldsItsRow, Commit
<1>5. CheckedFundsStayAvailable'
  <2>. SUFFICES ASSUME NEW q \in Requests, pc'[q] \in Moved \ {"applyDelta"}
                PROVE  ledger'[input[q].account][input[q].holder] + Delta(input[q]) >= 0
    BY DEF CheckedFundsStayAvailable, Commit, Delta
  <2>1. ledger'[input[q].account] = ledger[input[q].account]
    <3>1. \A a \in Accounts \ {input[r].account} : ledger'[a] = ledger[a]
      BY CommitMoves
    <3>2. input[q].account # input[r].account
      BY <1>1, <1>2
    <3>. QED  BY <1>3, <3>1, <3>2
  <2>. QED  BY <1>1, <2>1 DEF Held, CheckedFundsStayAvailable
<1>. QED  BY <1>4, <1>5 DEF Held

(* Every step keeps the rows held and the checked funds available. *)
LEMMA HeldStep ==
  ASSUME IInv, [Next]_vars
  PROVE  Held'
<1>. USE DEF Moved
<1>0. TypeOK /\ PathOK /\ Held /\ LedgersNeverNegative
  BY DEF IInv, Held
<1>1. ASSUME NEW r \in Requests, Submit(r) PROVE Held'
  BY <1>0, <1>1, HeldGoto DEF Submit, db, locks
<1>2. ASSUME NEW r \in Requests, CheckAccount(r) PROVE Held'
  BY <1>0, <1>2, HeldCheck DEF CheckAccount
<1>3. ASSUME NEW r \in Requests, CheckMatter(r) PROVE Held'
  BY <1>0, <1>3, HeldCheck DEF CheckMatter
<1>4. ASSUME NEW r \in Requests, CheckDue(r) PROVE Held'
  BY <1>0, <1>4, HeldCheck DEF CheckDue
<1>5. ASSUME NEW r \in Requests, InsertTransaction(r) PROVE Held'
  BY <1>0, <1>5, HeldRollback, HeldGoto DEF InsertTransaction, db, locks
<1>6. ASSUME NEW r \in Requests, MoveAccount(r) PROVE Held'
  BY <1>0, <1>6, HeldRollback, HeldLockAccount DEF MoveAccount
<1>7. ASSUME NEW r \in Requests, ApplyDelta(r) PROVE Held'
  <2>1. CASE ledger[input[r].account][input[r].holder] + Delta(input[r]) < 0
    BY <1>0, <1>7, <2>1, HeldRollback DEF ApplyDelta
  <2>2. CASE ~ (ledger[input[r].account][input[r].holder] + Delta(input[r]) < 0)
    <3>1. ledger[input[r].account][input[r].holder] + Delta(input[r]) >= 0
      BY <1>0, <2>2, BodyType, DeltaIsInt DEF TypeOK
    <3>. QED  BY <1>0, <1>7, <2>2, <3>1, HeldGoto DEF ApplyDelta, db, locks
  <2>. QED  BY <2>1, <2>2
<1>8. ASSUME NEW r \in Requests, PostTrustJournal(r) PROVE Held'
  BY <1>0, <1>8, HeldRollback, HeldGoto DEF PostTrustJournal, PostJournal, db, locks
<1>9. ASSUME NEW r \in Requests, PostOfficeJournal(r) PROVE Held'
  BY <1>0, <1>9, HeldRollback, HeldGoto DEF PostOfficeJournal, PostJournal, db, locks
<1>10. ASSUME NEW r \in Requests, ReadInvoice(r) PROVE Held'
  BY <1>0, <1>10, HeldGoto DEF ReadInvoice, db, locks
<1>11. ASSUME NEW r \in Requests, WriteInvoice(r) PROVE Held'
  BY <1>0, <1>11, HeldGoto DEF WriteInvoice, db
<1>12. ASSUME NEW r \in Requests, CheckInterest(r) PROVE Held'
  BY <1>0, <1>12, HeldCheck DEF CheckInterest
<1>13. ASSUME NEW r \in Requests, InsertInterest(r) PROVE Held'
  BY <1>0, <1>13, HeldRollback, HeldGoto DEF InsertInterest, db, locks
<1>14. ASSUME NEW r \in Requests, CreditAccount(r) PROVE Held'
  <2>1. Delta(input[r]) = input[r].amount
    BY <1>0, <1>14 DEF CreditAccount, PathOK, InterestPath, Delta
  <2>2. ledger[input[r].account][input[r].holder] + Delta(input[r]) >= 0
    <3>1. /\ input[r].account \in Accounts
          /\ input[r].holder \in Holders
          /\ input[r].amount \in Nat
      BY <1>0, BodyType DEF TypeOK
    <3>2. ledger[input[r].account][input[r].holder] \in Int
      BY <1>0, <3>1 DEF TypeOK
    <3>. QED  BY <1>0, <2>1, <3>1, <3>2 DEF LedgersNeverNegative
  <2>. QED  BY <1>0, <1>14, <2>2, HeldLockAccount DEF CreditAccount
<1>15. ASSUME NEW r \in Requests, Commit(r) PROVE Held'
  BY <1>0, <1>15, HeldCommit
<1>16. ASSUME NEW r \in Requests, Abort(r) PROVE Held'
  BY <1>0, <1>16, HeldRollback DEF Abort
<1>17. ASSUME NEW a \in Accounts, Archive(a) PROVE Held'
  BY <1>0, <1>17 DEF Archive, Held, HoldsItsRow, CheckedFundsStayAvailable, Delta, locks
<1>18. ASSUME NEW p \in Periods, ClosePeriod(p) PROVE Held'
  BY <1>0, <1>18 DEF ClosePeriod, Held, HoldsItsRow, CheckedFundsStayAvailable, Delta, locks
<1>19. ASSUME UNCHANGED vars PROVE Held'
  BY <1>0, <1>19 DEF vars, db, locks, Held, HoldsItsRow, CheckedFundsStayAvailable, Delta
<1>. QED
  BY <1>1, <1>2, <1>3, <1>4, <1>5, <1>6, <1>7, <1>8, <1>9, <1>10, <1>11, <1>12,
     <1>13, <1>14, <1>15, <1>16, <1>17, <1>18, <1>19 DEF Next, Step, Quiescent

-------------------------------------------------------------------------------
(* Only a commit changes a ledger or a control balance. *)
LEMMA OnlyCommitMoves ==
  ASSUME TypeOK, [Next]_vars, \A r \in Requests : ~Commit(r)
  PROVE  UNCHANGED <<ledger, currentBalance>>
BY SMTT(30) DEF Next, Step, Quiescent, Submit, Check, Rollback, CheckAccount, CheckMatter,
       CheckDue, InsertTransaction, MoveAccount, LockAccount, ApplyDelta, PostJournal,
       PostTrustJournal, PostOfficeJournal, ReadInvoice, WriteInvoice, CheckInterest,
       InsertInterest, CreditAccount, Abort, Archive, ClosePeriod, vars, db

LEMMA IInvInit == Init => IInv
<1>. SUFFICES ASSUME Init PROVE IInv
  OBVIOUS
<1>1. TypeOK /\ PathOK
  BY TypeInit
<1>2. HoldsItsRow /\ CheckedFundsStayAvailable
  BY DEF Init, HoldsItsRow, CheckedFundsStayAvailable, Moved
<1>3. LedgersNeverNegative
  BY ConstantsAssumption DEF Init, LedgersNeverNegative
<1>4. ControlMatchesLedgers
  BY DEF Init, ControlMatchesLedgers
<1>. QED  BY <1>1, <1>2, <1>3, <1>4 DEF IInv

LEMMA IInvStep == IInv /\ [Next]_vars => IInv'
<1>. SUFFICES ASSUME IInv, [Next]_vars PROVE IInv'
  OBVIOUS
<1>1. TypeOK' /\ PathOK' /\ Held'
  BY TypeStep, PathStep, HeldStep DEF IInv
<1>2. ASSUME NEW r \in Requests, Commit(r)
      PROVE  LedgersNeverNegative' /\ ControlMatchesLedgers'
  <2>. DEFINE in == input[r]
  <2>1. /\ in.account \in Accounts
        /\ in.holder \in Holders
        /\ Delta(in) \in Int
        /\ ledger'[in.account] = [ledger[in.account] EXCEPT ![in.holder] = @ + Delta(in)]
        /\ ledger'[in.account][in.holder] = ledger[in.account][in.holder] + Delta(in)
        /\ currentBalance'[in.account] = currentBalance[in.account] + Delta(in)
        /\ \A h \in Holders \ {in.holder} : ledger'[in.account][h] = ledger[in.account][h]
        /\ \A a \in Accounts \ {in.account} :
             ledger'[a] = ledger[a] /\ currentBalance'[a] = currentBalance[a]
    BY <1>2, CommitMoves DEF IInv
  <2>2. ledger[in.account][in.holder] + Delta(in) >= 0
    BY <1>2 DEF IInv, CheckedFundsStayAvailable, Commit, Moved
  <2>3. ledger[in.account] \in [Holders -> Int]
    BY <2>1 DEF IInv, TypeOK
  <2>4. Total(ledger'[in.account]) = Total(ledger[in.account]) + Delta(in)
    BY <2>1, <2>3, TotalOfChange
  <2>. HIDE DEF in
  <2>5. LedgersNeverNegative'
    BY <2>1, <2>2 DEF IInv, LedgersNeverNegative
  <2>6. ControlMatchesLedgers'
    BY <2>1, <2>4 DEF IInv, ControlMatchesLedgers
  <2>. QED  BY <2>5, <2>6
<1>3. ASSUME \A r \in Requests : ~Commit(r)
      PROVE  LedgersNeverNegative' /\ ControlMatchesLedgers'
  BY <1>3, OnlyCommitMoves DEF IInv, LedgersNeverNegative, ControlMatchesLedgers
<1>. QED  BY <1>1, <1>2, <1>3 DEF IInv, Held

(* IInv is an invariant: the strengthening that makes the next theorems    *)
(* inductive.                                                              *)
THEOREM Invariance == Spec => []IInv
BY IInvInit, IInvStep, PTL DEF Spec

(* No client's money is spent for another client: no ledger is ever        *)
(* negative, however many requests race on however many accounts.          *)
THEOREM ClientsNeverSubsidiseEachOther == Spec => []LedgersNeverNegative
<1>1. IInv => LedgersNeverNegative
  BY DEF IInv
<1>. QED  BY <1>1, Invariance, PTL

(* Control balance = sum of the client ledgers, for any number of ledgers. *)
THEOREM ControlReconciles == Spec => []ControlMatchesLedgers
<1>1. IInv => ControlMatchesLedgers
  BY DEF IInv
<1>. QED  BY <1>1, Invariance, PTL

(* No account is overdrawn: a consequence of the two facts above, although *)
(* REVERSAL and ADJUSTMENT decrement the control balance unconditionally.  *)
THEOREM AccountsCovered == Spec => []AccountsNeverNegative
<1>1. IInv => AccountsNeverNegative
  <2>. SUFFICES ASSUME IInv, NEW a \in Accounts PROVE currentBalance[a] >= 0
    BY DEF AccountsNeverNegative
  <2>1. ledger[a] \in [Holders -> Int] /\ \A h \in Holders : ledger[a][h] >= 0
    BY DEF IInv, TypeOK, LedgersNeverNegative
  <2>. QED  BY <2>1, TotalNotNegative DEF IInv, ControlMatchesLedgers
<1>. QED  BY <1>1, Invariance, PTL

(* A check of the ledger stays true until the commit that relies on it.    *)
THEOREM ChecksDoNotGoStale == Spec => []CheckedFundsStayAvailable
<1>1. IInv => CheckedFundsStayAvailable
  BY DEF IInv
<1>. QED  BY <1>1, Invariance, PTL

(* Movements of one account are serialised by its row. *)
THEOREM MoversAreSerialised == Spec => []OneMoverPerAccount
<1>1. IInv => OneMoverPerAccount
  BY DEF IInv, HoldsItsRow, OneMoverPerAccount
<1>. QED  BY <1>1, Invariance, PTL

-------------------------------------------------------------------------------
(* TrustLedger implements TrustBook: a commit is one movement of the book, *)
(* every other step leaves the book as it is.                              *)
THEOREM ImplementsBook == Spec => BookSpec
<1>1. Init => Book!Init
  BY DEF Init, Book!Init, Total, RunningTotal, Book!Total, Book!RunningTotal
<1>2. IInv /\ [Next]_vars => [Book!Next]_(Book!vars)
  <2>. SUFFICES ASSUME IInv, [Next]_vars PROVE [Book!Next]_(Book!vars)
    OBVIOUS
  <2>1. ASSUME NEW r \in Requests, Commit(r) PROVE Book!Next
    <3>. DEFINE in == input[r]
    <3>1. in \in Inputs /\ in.account \in Accounts /\ in.holder \in Holders
      BY BodyType DEF IInv, TypeOK
    <3>2. ledger[in.account][in.holder] + Delta(in) >= 0
      BY <2>1 DEF IInv, CheckedFundsStayAvailable, Commit, Moved
    <3>3. Book!Move(in.account, in.holder, Delta(in))
      BY <2>1, <3>2 DEF Commit, MoveMoney, Book!Move
    <3>. QED  BY <3>1, <3>3 DEF Book!Next, Book!Holders, Holders
  <2>2. ASSUME \A r \in Requests : ~Commit(r) PROVE UNCHANGED Book!vars
    BY <2>2, OnlyCommitMoves DEF IInv, Book!vars
  <2>. QED  BY <2>1, <2>2
<1>. QED  BY <1>1, <1>2, Invariance, PTL DEF Spec, BookSpec, Book!Spec

(* A row lock ends with the transaction that took it. *)
THEOREM RowsAreReleasedByTheirHolder == Spec => HeldRowsAreReleasedByTheirHolder
<1>1. ASSUME TypeOK, [Next]_vars, NEW a \in Accounts,
             accountLock[a] # NoRequest, accountLock'[a] # accountLock[a]
      PROVE  pc'[accountLock[a]] \in {"created", "failed"}
  <2>1. ASSUME NEW r \in Requests, Rollback(r)
        PROVE  pc'[accountLock[a]] \in {"created", "failed"}
    BY <1>1, <2>1 DEF Rollback, Goto, TypeOK
  <2>2. ASSUME NEW r \in Requests, Commit(r)
        PROVE  pc'[accountLock[a]] \in {"created", "failed"}
    BY <1>1, <2>2 DEF Commit, Goto, TypeOK
  <2>3. ASSUME NEW r \in Requests, NEW l, LockAccount(r, l)
        PROVE  FALSE
    BY <1>1, <2>3, BodyType DEF LockAccount, TypeOK
  <2>4. \/ \E r \in Requests : Rollback(r) \/ Commit(r)
        \/ \E r \in Requests, l \in {"applyDelta", "commit"} : LockAccount(r, l)
        \/ UNCHANGED accountLock
    BY <1>1 DEF Next, Step, Quiescent, Submit, Check, CheckAccount, CheckMatter,
       CheckDue, InsertTransaction, MoveAccount, ApplyDelta, PostJournal,
       PostTrustJournal, PostOfficeJournal, ReadInvoice, WriteInvoice, CheckInterest,
       InsertInterest, CreditAccount, Abort, Archive, ClosePeriod, vars, locks
  <2>. QED  BY <1>1, <2>1, <2>2, <2>3, <2>4
<1>2. TypeOK /\ [Next]_vars
      => [\A a \in Accounts : accountLock[a] # NoRequest /\ accountLock'[a] # accountLock[a]
            => pc'[accountLock[a]] \in {"created", "failed"}]_vars
  BY <1>1
<1>. QED  BY <1>2, TypeCorrect, PTL DEF Spec, HeldRowsAreReleasedByTheirHolder

-------------------------------------------------------------------------------
(***************************************************************************)
(* A reference moves money at most once.  Inserted are the statements      *)
(* after a request has written its TrustTransaction row.                   *)
(***************************************************************************)
Inserted == Moved \union {"moveAccount", "creditAccount"}

OfInterest(r) == input[r].kind = "POST_INTEREST"

(* The committed references that r would collide with. *)
Written(r) == IF OfInterest(r) THEN interestRefs ELSE references

SameKey(q, r) ==
  input[q].reference = input[r].reference /\ (OfInterest(q) <=> OfInterest(r))

RefInv ==
  /\ \A r \in Requests : pc[r] = "created" => input[r].reference \in Written(r)
  /\ \A r \in Requests : pc[r] \in Inserted => input[r].reference \notin Written(r)
  /\ \A q, r \in Requests :
       pc[q] \in Inserted /\ pc[r] \in Inserted /\ SameKey(q, r) => q = r
  /\ \A q, r \in Requests :
       pc[q] = "created" /\ pc[r] = "created" /\ SameKey(q, r) => q = r

(* Steps that write no TrustTransaction row. *)
LEMMA RefGoto ==
  ASSUME TypeOK, RefInv, NEW r \in Requests, NEW l, Goto(r, l),
         UNCHANGED <<input, references, interestRefs>>,
         l \in Inserted => pc[r] \in Inserted, l # "created"
  PROVE  RefInv'
<1>1. \A q \in Requests : /\ pc'[q] = "created" => pc[q] = "created"
                          /\ pc'[q] \in Inserted => pc[q] \in Inserted
  BY DEF Goto, TypeOK
<1>2. \A q \in Requests : Written(q)' = Written(q)
  BY DEF Written, OfInterest
<1>3. \A p, q \in Requests : SameKey(p, q)' <=> SameKey(p, q)
  BY DEF SameKey, OfInterest
<1>. QED  BY <1>1, <1>2, <1>3 DEF RefInv

(* The insertion of a row whose reference nobody has written. *)
LEMMA RefInsert ==
  ASSUME TypeOK, RefInv, NEW r \in Requests, NEW l, Goto(r, l),
         UNCHANGED <<input, references, interestRefs>>,
         l \in Inserted, l # "created",
         Writing(r) = {}, input[r].reference \notin Written(r)
  PROVE  RefInv'
<1>1. \A q \in Requests : /\ pc'[q] = "created" => pc[q] = "created"
                          /\ pc'[q] \in Inserted => q = r \/ pc[q] \in Inserted
  BY DEF Goto, TypeOK
<1>2. \A q \in Requests : Written(q)' = Written(q)
  BY DEF Written, OfInterest
<1>3. \A p, q \in Requests : SameKey(p, q)' <=> SameKey(p, q)
  BY DEF SameKey, OfInterest
<1>4. \A q \in Requests \ {r} : pc[q] \in Inserted => ~SameKey(q, r) /\ ~SameKey(r, q)
  BY DEF Writing, SameKey, OfInterest, Inserted
<1>. QED  BY <1>1, <1>2, <1>3, <1>4 DEF RefInv

(* A commit makes one inserted reference a written one. *)
LEMMA RefCommit ==
  ASSUME TypeOK, RefInv, NEW r \in Requests, Commit(r)
  PROVE  RefInv'
<1>1. /\ pc[r] \in Inserted
      /\ pc' = [pc EXCEPT ![r] = "created"]
      /\ input' = input
  BY DEF Commit, Goto, Inserted, Moved
<1>2. \A q \in Requests \ {r} : pc'[q] = pc[q]
  BY <1>1 DEF TypeOK
<1>3. \A q \in Requests :
        Written(q)' = IF OfInterest(q) <=> OfInterest(r)
                      THEN Written(q) \union {input[r].reference} ELSE Written(q)
  BY DEF Commit, PublishInterest, PublishTransaction, Written, OfInterest
<1>4. \A p, q \in Requests : SameKey(p, q)' <=> SameKey(p, q)
  BY <1>1 DEF SameKey, OfInterest
<1>5. pc'[r] = "created" /\ "created" \notin Inserted
  BY <1>1 DEF TypeOK, Inserted, Moved
<1>6. \A q \in Requests : pc'[q] = "created" => input'[q].reference \in Written(q)'
  BY <1>1, <1>2, <1>3 DEF RefInv
<1>7. \A q \in Requests : pc'[q] \in Inserted => input'[q].reference \notin Written(q)'
  BY <1>1, <1>2, <1>3, <1>5 DEF RefInv, SameKey
<1>8. \A p, q \in Requests :
        pc'[p] \in Inserted /\ pc'[q] \in Inserted /\ SameKey(p, q)' => p = q
  BY <1>2, <1>4, <1>5 DEF RefInv
<1>9. \A q \in Requests \ {r} : pc[q] = "created" => ~SameKey(q, r) /\ ~SameKey(r, q)
  BY <1>1 DEF RefInv, SameKey, Written
<1>10. \A p, q \in Requests :
        pc'[p] = "created" /\ pc'[q] = "created" /\ SameKey(p, q)' => p = q
  BY <1>2, <1>4, <1>9 DEF RefInv
<1>. QED  BY <1>6, <1>7, <1>8, <1>10 DEF RefInv

LEMMA RefStep ==
  ASSUME TypeOK, PathOK, RefInv, [Next]_vars
  PROVE  RefInv'
<1>. USE DEF Moved, Inserted
<1>1. ASSUME NEW r \in Requests, Submit(r) PROVE RefInv'
  BY <1>1, RefGoto DEF Submit, db
<1>2. ASSUME NEW r \in Requests, NEW ok, NEW l \in {"checkMatter", "checkDue", "insert", "insertInterest"},
             Check(r, ok, l)
      PROVE  RefInv'
  <2>1. CASE ok
    BY <1>2, <2>1, RefGoto DEF Check, db
  <2>2. CASE ~ok
    BY <1>2, <2>2, RefGoto DEF Check, db
  <2>. QED  BY <2>1, <2>2
<1>3. ASSUME NEW r \in Requests, Rollback(r) PROVE RefInv'
  BY <1>3, RefGoto DEF Rollback, db
<1>4. ASSUME NEW r \in Requests, InsertTransaction(r) PROVE RefInv'
  <2>1. ~OfInterest(r)
    BY <1>4 DEF InsertTransaction, PathOK, CreatePath, OfInterest
  <2>. QED  BY <1>3, <1>4, <2>1, RefInsert DEF InsertTransaction, Written, db
<1>5. ASSUME NEW r \in Requests, InsertInterest(r) PROVE RefInv'
  <2>1. OfInterest(r)
    BY <1>5 DEF InsertInterest, PathOK, InterestPath, OfInterest
  <2>. QED  BY <1>3, <1>5, <2>1, RefInsert DEF InsertInterest, Written, db
<1>6. ASSUME NEW r \in Requests, MoveAccount(r) \/ CreditAccount(r) PROVE RefInv'
  BY <1>3, <1>6, RefGoto DEF MoveAccount, CreditAccount, LockAccount, db
<1>7. ASSUME NEW r \in Requests,
             ApplyDelta(r) \/ PostTrustJournal(r) \/ PostOfficeJournal(r)
      PROVE  RefInv'
  BY <1>3, <1>7, RefGoto DEF ApplyDelta, PostTrustJournal, PostOfficeJournal, PostJournal, db
<1>8. ASSUME NEW r \in Requests, ReadInvoice(r) \/ WriteInvoice(r) PROVE RefInv'
  BY <1>8, RefGoto DEF ReadInvoice, WriteInvoice, db
<1>9. ASSUME NEW r \in Requests, Commit(r) PROVE RefInv'
  BY <1>9, RefCommit
<1>10. ASSUME UNCHANGED <<pc, input, references, interestRefs>> PROVE RefInv'
  BY <1>10 DEF RefInv, Written, SameKey, OfInterest
<1>11. ASSUME NEW r \in Requests,
              CheckAccount(r) \/ CheckMatter(r) \/ CheckDue(r) \/ CheckInterest(r)
       PROVE  RefInv'
  BY <1>2, <1>11 DEF CheckAccount, CheckMatter, CheckDue, CheckInterest
<1>. QED
  BY <1>1, <1>3, <1>4, <1>5, <1>6, <1>7, <1>8, <1>9, <1>10, <1>11
  DEF Next, Step, Quiescent, Abort, Archive, ClosePeriod, vars, db

(* However many requests retry or race with one reference, at most one of  *)
(* them has moved money.                                                   *)
THEOREM ReferencesAreSpentOnce == Spec => []ReferenceMovesMoneyOnce
<1>1. Init => RefInv
  BY DEF Init, RefInv, Inserted, Moved
<1>2. TypeOK /\ PathOK /\ RefInv /\ [Next]_vars => RefInv'
  BY RefStep
<1>3. RefInv => ReferenceMovesMoneyOnce
  BY DEF RefInv, ReferenceMovesMoneyOnce, Created, SameKey, OfInterest
<1>4. Init => TypeOK /\ PathOK
  BY TypeInit
<1>5. TypeOK /\ PathOK /\ [Next]_vars => (TypeOK /\ PathOK)'
  BY TypeStep, PathStep
<1>. QED  BY <1>1, <1>2, <1>3, <1>4, <1>5, PTL DEF Spec
===============================================================================
