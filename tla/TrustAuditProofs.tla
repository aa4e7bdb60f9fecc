---------------------------- MODULE TrustAuditProofs ----------------------------
(***************************************************************************)
(* Theorems about the audit of the trust books, for any number of          *)
(* accounts, holders, requests, references and amounts.                    *)
(***************************************************************************)
EXTENDS TrustAudit, TrustLedgerProofs, SetSumsTheorems

(***************************************************************************)
(* Two of the audits fail for some bodies (README.md, section 8).  The     *)
(* exact equations that hold for all bodies say by how much: reversals and *)
(* adjustments move money without a debit or credit on their row, and      *)
(* posted interest moves money without a journal.                          *)
(***************************************************************************)
Deltas == [r \in Requests |-> Delta(input[r])]
Adjustments(a) ==
  {r \in Created : input[r].kind \in {"REVERSAL", "ADJUSTMENT"} /\ input[r].account = a}
InterestPostings == {r \in Created : input[r].kind = "POST_INTEREST"}

BalanceExplained ==
  \A a \in Accounts :
    MovedSinceOpening[a] = booked[a] + SumFunctionOnSet(Deltas, Adjustments(a))

BankExplained ==
  SumFunctionOnSet(trustBank, Periods) + AmountOf(InterestPostings)
    = SumFunctionOnSet(MovedSinceOpening, Accounts)

AuditInv == BalanceExplained /\ BankExplained /\ OfficeReceivesWhatTrustReleases

-------------------------------------------------------------------------------
LEMMA CreatedIsFinite ==
  ASSUME NEW S, S \subseteq Created
  PROVE  IsFiniteSet(S)
BY FiniteAssumption, FS_Subset DEF Created

LEMMA MovedIsInt ==
  ASSUME TypeOK
  PROVE  \A a \in Accounts : Total(Opening[a]) \in Int /\ MovedSinceOpening[a] \in Int
<1>1. \A a \in Accounts : Opening[a] \in [Holders -> Int]
  BY ConstantsAssumption
<1>2. \A a \in Accounts : Total(Opening[a]) \in Int
  BY <1>1, TotalIsInt
<1>. QED  BY <1>2 DEF MovedSinceOpening, TypeOK

(* The amounts of a set of committed requests, and of one request more. *)
LEMMA AmountOfInt ==
  ASSUME TypeOK, NEW S, S \subseteq Created
  PROVE  AmountOf(S) \in Int
<1>. DEFINE f == [r \in Requests |-> input[r].amount]
<1>1. IsFiniteSet(S)
  BY CreatedIsFinite
<1>2. \A r \in S : f[r] \in Int
  BY BodyType DEF TypeOK, Created
<1>. HIDE DEF f
<1>3. SumFunctionOnSet(f, S) \in Int
  BY <1>1, <1>2, SumIsInt
<1>. QED  BY <1>3 DEF AmountOf, f

LEMMA AmountOfMore ==
  ASSUME TypeOK, NEW S, S \subseteq Created, NEW r \in Requests, r \notin S
  PROVE  AmountOf(S \union {r}) = AmountOf(S) + input[r].amount
<1>. DEFINE f == [q \in Requests |-> input[q].amount]
<1>1. IsFiniteSet(S)
  BY CreatedIsFinite
<1>2. \A q \in S \union {r} : f[q] \in Int
  BY BodyType DEF TypeOK, Created
<1>3. f[r] = input[r].amount
  OBVIOUS
<1>. HIDE DEF f
<1>4. SumFunctionOnSet(f, S \union {r}) = SumFunctionOnSet(f, S) + f[r]
  BY <1>1, <1>2, SumAdd
<1>. QED  BY <1>3, <1>4 DEF AmountOf, f

-------------------------------------------------------------------------------
(* Only a commit changes what the audit reads. *)
LEMMA AuditQuiet ==
  ASSUME TypeOK, [Next]_vars, \A r \in Requests : ~Commit(r)
  PROVE  /\ UNCHANGED <<currentBalance, booked, trustBank, officeBank, paidAmount, input>>
         /\ Created' = Created
<1>. DEFINE Quiet == /\ UNCHANGED <<currentBalance, booked, trustBank, officeBank, paidAmount, input>>
                     /\ \/ pc' = pc
                        \/ \E r \in Requests, l \in Pcs \ {"created"} : Goto(r, l) /\ pc[r] # "created"
<1>1. ASSUME NEW r \in Requests, pc[r] # "created", Rollback(r) PROVE Quiet
  BY <1>1 DEF Rollback, db, Pcs, Finished
<1>2. ASSUME NEW r \in Requests, pc[r] # "created", NEW l \in Pcs \ {"created"}, Goto(r, l),
             UNCHANGED <<db, input>>
      PROVE  Quiet
  BY <1>2 DEF db
<1>3. ASSUME NEW r \in Requests,
             CheckAccount(r) \/ CheckMatter(r) \/ CheckDue(r) \/ CheckInterest(r) \/ Submit(r)
      PROVE  Quiet
  <2>1. /\ pc[r] # "created"
        /\ \E l \in Pcs \ {"created"} : Goto(r, l)
        /\ UNCHANGED <<db, input>>
    BY <1>3 DEF CheckAccount, CheckMatter, CheckDue, CheckInterest, Submit, Check, Pcs, Validating,
       InTx, Finished
  <2>. QED  BY <1>2, <2>1
<1>4. ASSUME NEW r \in Requests,
             InsertTransaction(r) \/ InsertInterest(r) \/ MoveAccount(r) \/ CreditAccount(r)
      PROVE  Quiet
  <2>1. /\ pc[r] # "created"
        /\ \/ Rollback(r)
           \/ (\E l \in Pcs \ {"created"} : Goto(r, l)) /\ UNCHANGED <<db, input>>
    BY <1>4 DEF InsertTransaction, InsertInterest, MoveAccount, CreditAccount, LockAccount,
       Pcs, InTx, Moved
  <2>. QED  BY <1>1, <1>2, <2>1
<1>5. ASSUME NEW r \in Requests,
             \/ ApplyDelta(r) \/ PostTrustJournal(r) \/ PostOfficeJournal(r)
             \/ ReadInvoice(r) \/ WriteInvoice(r)
      PROVE  Quiet
  <2>1. /\ pc[r] # "created"
        /\ \/ Rollback(r)
           \/ (\E l \in Pcs \ {"created"} : Goto(r, l)) /\ UNCHANGED <<db, input>>
    BY <1>5 DEF ApplyDelta, PostTrustJournal, PostOfficeJournal, PostJournal, ReadInvoice,
       WriteInvoice, Pcs, InTx, Moved
  <2>. QED  BY <1>1, <1>2, <2>1
<1>6. ASSUME NEW r \in Requests, Abort(r) PROVE Quiet
  BY <1>1, <1>6 DEF Abort, Validating, InTx, Moved
<1>7. ASSUME \/ UNCHANGED vars
             \/ \E a \in Accounts : Archive(a)
             \/ \E p \in Periods : ClosePeriod(p)
      PROVE  Quiet
  BY <1>7 DEF vars, db, Archive, ClosePeriod
<1>8. Quiet
  <2>. HIDE DEF Quiet
  <2>. QED  BY <1>3, <1>4, <1>5, <1>6, <1>7 DEF Next, Step, Quiescent
<1>9. \A q \in Requests : pc'[q] = "created" <=> pc[q] = "created"
  BY <1>8 DEF Goto, TypeOK
<1>. QED  BY <1>8, <1>9 DEF Created

(* What a commit changes of it. *)
LEMMA CommitAudit ==
  ASSUME TypeOK, NEW r \in Requests, Commit(r)
  PROVE  LET in == input[r]
             journalled == in.kind # "POST_INTEREST"
         IN
         /\ input' = input
         /\ r \notin Created
         /\ Created' = Created \union {r}
         /\ \A a \in Accounts :
              /\ MovedSinceOpening'[a] =
                   MovedSinceOpening[a] + (IF a = in.account THEN Delta(in) ELSE 0)
              /\ booked'[a] = booked[a] + (IF a = in.account THEN RowDelta(in) ELSE 0)
         /\ \A p \in Periods :
              /\ trustBank'[p] =
                   trustBank[p] + (IF journalled /\ p = in.period THEN Delta(in) ELSE 0)
              /\ officeBank'[p] =
                   officeBank[p] + (IF in.kind = "TRANSFER_TO_OFFICE" /\ p = in.period
                                    THEN in.amount ELSE 0)
<1>. DEFINE in == input[r]
<1>1. /\ in.account \in Accounts /\ in.period \in Periods /\ in.amount \in Int
      /\ Delta(in) \in Int /\ RowDelta(in) \in Int
  BY BodyType, DeltaIsInt DEF TypeOK
<1>2. input' = input
  BY DEF Commit
<1>3. r \notin Created /\ Created' = Created \union {r}
  BY DEF Commit, Goto, TypeOK, Created
<1>4. MoveMoney(in)
  BY DEF Commit
<1>5. IF in.kind = "POST_INTEREST" THEN PublishInterest(r) ELSE PublishTransaction(r)
  BY DEF Commit
<1>6. \A a \in Accounts :
        /\ currentBalance'[a] = currentBalance[a] + (IF a = in.account THEN Delta(in) ELSE 0)
        /\ booked'[a] = booked[a] + (IF a = in.account THEN RowDelta(in) ELSE 0)
  <2>. HIDE DEF in
  <2>. QED  BY <1>1, <1>4 DEF MoveMoney, TypeOK
<1>7. \A a \in Accounts :
        MovedSinceOpening'[a] = MovedSinceOpening[a] + (IF a = in.account THEN Delta(in) ELSE 0)
  <2>1. \A a \in Accounts : Total(Opening[a]) \in Int /\ currentBalance[a] \in Int
    BY MovedIsInt DEF TypeOK
  <2>2. \A a \in Accounts :
          /\ MovedSinceOpening[a] = currentBalance[a] - Total(Opening[a])
          /\ MovedSinceOpening'[a] = currentBalance'[a] - Total(Opening[a])
    BY DEF MovedSinceOpening
  <2>. HIDE DEF in
  <2>. QED  BY <1>1, <1>6, <2>1, <2>2
<1>8. \A p \in Periods :
        /\ trustBank'[p] =
             trustBank[p] + (IF in.kind # "POST_INTEREST" /\ p = in.period THEN Delta(in) ELSE 0)
        /\ officeBank'[p] =
             officeBank[p] + (IF in.kind = "TRANSFER_TO_OFFICE" /\ p = in.period
                              THEN in.amount ELSE 0)
  <2>1. CASE in.kind = "POST_INTEREST"
    BY <1>1, <1>5, <2>1 DEF PublishInterest, TypeOK
  <2>2. CASE in.kind # "POST_INTEREST" /\ in.kind # "TRANSFER_TO_OFFICE"
    BY <1>1, <1>5, <2>2 DEF PublishTransaction, TypeOK
  <2>3. CASE in.kind = "TRANSFER_TO_OFFICE"
    BY <1>1, <1>5, <2>3 DEF PublishTransaction, TypeOK
  <2>. QED  BY <2>1, <2>2, <2>3
<1>. QED  BY <1>2, <1>3, <1>6, <1>7, <1>8

-------------------------------------------------------------------------------
(* The balance of an account, row by row. *)
LEMMA BalanceCommit ==
  ASSUME TypeOK, BalanceExplained, NEW r \in Requests, Commit(r)
  PROVE  BalanceExplained'
<1>. SUFFICES ASSUME NEW a \in Accounts
              PROVE  MovedSinceOpening'[a] = booked'[a] + SumFunctionOnSet(Deltas, Adjustments(a))'
  BY DEF BalanceExplained
<1>. DEFINE in == input[r]
            K == Adjustments(a)
            adjusts == in.kind \in {"REVERSAL", "ADJUSTMENT"} /\ in.account = a
<1>1. /\ input' = input /\ r \notin Created /\ Created' = Created \union {r}
      /\ MovedSinceOpening'[a] = MovedSinceOpening[a] + (IF a = in.account THEN Delta(in) ELSE 0)
      /\ booked'[a] = booked[a] + (IF a = in.account THEN RowDelta(in) ELSE 0)
  BY CommitAudit
<1>2. Deltas' = Deltas /\ Adjustments(a)' = IF adjusts THEN K \union {r} ELSE K
  BY <1>1 DEF Deltas, Adjustments
<1>3. IsFiniteSet(K) /\ r \notin K
  BY <1>1, CreatedIsFinite DEF Adjustments
<1>4. Delta(in) \in Int /\ RowDelta(in) \in Int /\ Deltas[r] = Delta(in)
  BY DeltaIsInt DEF TypeOK, Deltas
<1>5. \A q \in K \union {r} : Deltas[q] \in Int
  BY DeltaIsInt DEF TypeOK, Deltas, Adjustments, Created
<1>6. /\ SumFunctionOnSet(Deltas, K) \in Int
      /\ SumFunctionOnSet(Deltas, K \union {r}) = SumFunctionOnSet(Deltas, K) + Delta(in)
  <2>. HIDE DEF K, in
  <2>. QED  BY <1>3, <1>4, <1>5, SumIsInt, SumAdd
<1>7. SumFunctionOnSet(Deltas, Adjustments(a))'
        = SumFunctionOnSet(Deltas, K) + (IF adjusts THEN Delta(in) ELSE 0)
  <2>1. CASE adjusts
    BY <1>2, <1>6, <2>1
  <2>2. CASE ~adjusts
    BY <1>2, <1>6, <2>2
  <2>. QED  BY <2>1, <2>2
<1>8. RowDelta(in) = IF in.kind \in {"REVERSAL", "ADJUSTMENT"} THEN 0 ELSE Delta(in)
  BY DEF RowDelta
<1>9. MovedSinceOpening[a] = booked[a] + SumFunctionOnSet(Deltas, K) /\ booked[a] \in Int
  BY DEF BalanceExplained, TypeOK
<1>. HIDE DEF in, K
<1>. QED  BY <1>1, <1>4, <1>6, <1>7, <1>8, <1>9

(* The two banks, table by table: one entry of each moves. *)
LEMMA TablesMove ==
  ASSUME TypeOK, NEW r \in Requests, Commit(r)
  PROVE  LET in == input[r] IN
         /\ SumFunctionOnSet(MovedSinceOpening, Accounts)'
              = SumFunctionOnSet(MovedSinceOpening, Accounts) + Delta(in)
         /\ SumFunctionOnSet(trustBank, Periods)'
              = SumFunctionOnSet(trustBank, Periods)
                  + (IF in.kind = "POST_INTEREST" THEN 0 ELSE Delta(in))
         /\ SumFunctionOnSet(officeBank, Periods)'
              = SumFunctionOnSet(officeBank, Periods)
                  + (IF in.kind = "TRANSFER_TO_OFFICE" THEN in.amount ELSE 0)
<1>. DEFINE in == input[r]
            M == MovedSinceOpening
            N == MovedSinceOpening'
            toBank == IF in.kind = "POST_INTEREST" THEN 0 ELSE Delta(in)
            toOffice == IF in.kind = "TRANSFER_TO_OFFICE" THEN in.amount ELSE 0
<1>1. /\ in.account \in Accounts /\ in.period \in Periods /\ in.amount \in Int
      /\ Delta(in) \in Int /\ toBank \in Int /\ toOffice \in Int
  BY BodyType, DeltaIsInt DEF TypeOK
<1>2. /\ \A a \in Accounts : N[a] = M[a] + (IF a = in.account THEN Delta(in) ELSE 0)
      /\ \A p \in Periods : trustBank'[p] = trustBank[p] + (IF p = in.period THEN toBank ELSE 0)
      /\ \A p \in Periods : officeBank'[p] = officeBank[p] + (IF p = in.period THEN toOffice ELSE 0)
  <2>1. /\ \A a \in Accounts : N[a] = M[a] + (IF a = in.account THEN Delta(in) ELSE 0)
        /\ \A p \in Periods : trustBank'[p] = trustBank[p]
              + (IF in.kind # "POST_INTEREST" /\ p = in.period THEN Delta(in) ELSE 0)
        /\ \A p \in Periods : officeBank'[p] = officeBank[p]
              + (IF in.kind = "TRANSFER_TO_OFFICE" /\ p = in.period THEN in.amount ELSE 0)
    BY CommitAudit
  <2>. HIDE DEF in, M, N
  <2>. QED  BY <2>1
<1>3. /\ \A a \in Accounts : M[a] \in Int
      /\ \A p \in Periods : trustBank[p] \in Int /\ officeBank[p] \in Int
  BY MovedIsInt DEF TypeOK
<1>. HIDE DEF in, M, N, toBank, toOffice
<1>4. SumFunctionOnSet(N, Accounts) = SumFunctionOnSet(M, Accounts) + Delta(in)
  <2>1. (\A a \in Accounts \ {in.account} : N[a] = M[a]) /\ N[in.account] = M[in.account] + Delta(in)
    BY <1>1, <1>2, <1>3
  <2>. QED  BY <1>1, <1>3, <2>1, FiniteAssumption, SumOfChange
<1>5. SumFunctionOnSet(trustBank', Periods) = SumFunctionOnSet(trustBank, Periods) + toBank
  <2>1. /\ \A p \in Periods \ {in.period} : trustBank'[p] = trustBank[p]
        /\ trustBank'[in.period] = trustBank[in.period] + toBank
    BY <1>1, <1>2, <1>3
  <2>. QED  BY <1>1, <1>3, <2>1, FiniteAssumption, SumOfChange
<1>6. SumFunctionOnSet(officeBank', Periods) = SumFunctionOnSet(officeBank, Periods) + toOffice
  <2>1. /\ \A p \in Periods \ {in.period} : officeBank'[p] = officeBank[p]
        /\ officeBank'[in.period] = officeBank[in.period] + toOffice
    BY <1>1, <1>2, <1>3
  <2>. QED  BY <1>1, <1>3, <2>1, FiniteAssumption, SumOfChange
<1>. QED  BY <1>4, <1>5, <1>6 DEF M, N, in, toBank, toOffice

LEMMA BankCommit ==
  ASSUME TypeOK, BankExplained, OfficeReceivesWhatTrustReleases, NEW r \in Requests, Commit(r)
  PROVE  BankExplained' /\ OfficeReceivesWhatTrustReleases'
<1>. DEFINE in == input[r]
            B == SumFunctionOnSet(trustBank, Periods)
            O == SumFunctionOnSet(officeBank, Periods)
            M == SumFunctionOnSet(MovedSinceOpening, Accounts)
            I == AmountOf(InterestPostings)
            X == AmountOf(Transfers)
<1>1. input' = input /\ r \notin Created /\ Created' = Created \union {r}
  BY CommitAudit
<1>2. in.kind \in Kinds /\ in.amount \in Int
  BY BodyType DEF TypeOK
<1>3. /\ M' = M + Delta(in)
      /\ B' = B + (IF in.kind = "POST_INTEREST" THEN 0 ELSE Delta(in))
      /\ O' = O + (IF in.kind = "TRANSFER_TO_OFFICE" THEN in.amount ELSE 0)
  BY TablesMove, Zenon
<1>4. M \in Int /\ B \in Int /\ O \in Int /\ Delta(in) \in Int
  BY FiniteAssumption, MovedIsInt, DeltaIsInt, SumIsInt DEF TypeOK
<1>5. I \in Int /\ I' = I + (IF in.kind = "POST_INTEREST" THEN in.amount ELSE 0)
  <2>1. /\ InterestPostings \subseteq Created /\ r \notin InterestPostings
        /\ InterestPostings' = IF in.kind = "POST_INTEREST" THEN InterestPostings \union {r}
                               ELSE InterestPostings
    BY <1>1 DEF InterestPostings
  <2>2. I \in Int
    BY <2>1, AmountOfInt
  <2>3. CASE in.kind = "POST_INTEREST"
    <3>1. AmountOf(InterestPostings \union {r}) = AmountOf(InterestPostings) + in.amount
      BY <2>1, AmountOfMore
    <3>. QED  BY <1>1, <2>1, <2>2, <2>3, <3>1 DEF AmountOf
  <2>4. CASE in.kind # "POST_INTEREST"
    BY <1>1, <2>1, <2>2, <2>4 DEF AmountOf
  <2>. QED  BY <2>2, <2>3, <2>4
<1>6. X \in Int /\ X' = X + (IF in.kind = "TRANSFER_TO_OFFICE" THEN in.amount ELSE 0)
  <2>1. /\ Transfers \subseteq Created /\ r \notin Transfers
        /\ Transfers' = IF in.kind = "TRANSFER_TO_OFFICE" THEN Transfers \union {r} ELSE Transfers
    BY <1>1 DEF Transfers
  <2>2. X \in Int
    BY <2>1, AmountOfInt
  <2>3. CASE in.kind = "TRANSFER_TO_OFFICE"
    <3>1. AmountOf(Transfers \union {r}) = AmountOf(Transfers) + in.amount
      BY <2>1, AmountOfMore
    <3>. QED  BY <1>1, <2>1, <2>2, <2>3, <3>1 DEF AmountOf
  <2>4. CASE in.kind # "TRANSFER_TO_OFFICE"
    BY <1>1, <2>1, <2>2, <2>4 DEF AmountOf
  <2>. QED  BY <2>2, <2>3, <2>4
<1>7. in.kind = "POST_INTEREST" => Delta(in) = in.amount
  BY DEF Delta
<1>8. B + I = M /\ O = X
  BY DEF BankExplained, OfficeReceivesWhatTrustReleases
<1>9. B' + I' = M' /\ O' = X'
  <2>. HIDE DEF in, B, O, M, I, X
  <2>. QED  BY <1>2, <1>3, <1>4, <1>5, <1>6, <1>7, <1>8
<1>. QED  BY <1>9 DEF BankExplained, OfficeReceivesWhatTrustReleases

-------------------------------------------------------------------------------
LEMMA AuditInit == Init => AuditInv
<1>. SUFFICES ASSUME Init PROVE AuditInv
  OBVIOUS
<1>1. Created = {}
  BY DEF Init, Created
<1>2. \A a \in Accounts : Adjustments(a) = {}
  BY <1>1 DEF Adjustments
<1>3. InterestPostings = {} /\ Transfers = {}
  BY <1>1 DEF InterestPostings, Transfers
<1>4. SumFunctionOnSet(Deltas, {}) = 0 /\ AmountOf({}) = 0
  BY SumEmpty DEF AmountOf
<1>5. TypeOK
  BY TypeInit
<1>6. \A a \in Accounts : MovedSinceOpening[a] = 0 /\ booked[a] = 0
  <2>1. \A a \in Accounts : Total(Opening[a]) \in Int
    BY <1>5, MovedIsInt
  <2>2. \A a \in Accounts :
          MovedSinceOpening[a] = Total(Opening[a]) - Total(Opening[a]) /\ booked[a] = 0
    BY DEF Init, MovedSinceOpening
  <2>. QED  BY <2>1, <2>2
<1>7. BalanceExplained
  BY <1>2, <1>4, <1>6 DEF BalanceExplained
<1>8. \A p \in Periods : trustBank[p] = 0 /\ officeBank[p] = 0
  BY DEF Init
<1>9. /\ SumFunctionOnSet(trustBank, Periods) = 0
      /\ SumFunctionOnSet(officeBank, Periods) = 0
      /\ SumFunctionOnSet(MovedSinceOpening, Accounts) = 0
  BY <1>6, <1>8, FiniteAssumption, SumOfZeros
<1>10. BankExplained /\ OfficeReceivesWhatTrustReleases
  BY <1>3, <1>4, <1>9 DEF BankExplained, OfficeReceivesWhatTrustReleases
<1>. QED  BY <1>7, <1>10 DEF AuditInv

LEMMA AuditStep == TypeOK /\ AuditInv /\ [Next]_vars => AuditInv'
<1>. SUFFICES ASSUME TypeOK, AuditInv, [Next]_vars PROVE AuditInv'
  OBVIOUS
<1>1. ASSUME NEW r \in Requests, Commit(r)
      PROVE  AuditInv'
  BY <1>1, BalanceCommit, BankCommit DEF AuditInv
<1>2. ASSUME \A r \in Requests : ~Commit(r)
      PROVE  AuditInv'
  <2>1. /\ UNCHANGED <<currentBalance, booked, trustBank, officeBank, paidAmount, input>>
        /\ Created' = Created
    BY <1>2, AuditQuiet
  <2>. QED
    BY <2>1 DEF AuditInv, BalanceExplained, BankExplained, OfficeReceivesWhatTrustReleases,
       MovedSinceOpening, Deltas, Adjustments, InterestPostings, Transfers, AmountOf
<1>. QED  BY <1>1, <1>2

(* The exact audit, for all bodies: the balance of an account is its rows  *)
(* and its reversals and adjustments; the bank of the ledger and the       *)
(* interest postings together are the control balances; and the office     *)
(* has received what trust released.                                       *)
THEOREM AuditIsExact == Spec => []AuditInv
BY AuditInit, AuditStep, TypeCorrect, PTL DEF Spec

(* A transfer's two journals are never apart, whatever is aborted. *)
THEOREM OfficeIsCreditedInFull == Spec => []OfficeReceivesWhatTrustReleases
<1>1. AuditInv => OfficeReceivesWhatTrustReleases
  BY DEF AuditInv
<1>. QED  BY <1>1, AuditIsExact, PTL

(* Where nobody reverses or adjusts, rows and balances agree: the audit    *)
(* check fails because of those two kinds of transaction and nothing else. *)
THEOREM TransactionsExplain ==
  ASSUME \A in \in Inputs : in.kind \notin {"REVERSAL", "ADJUSTMENT"}
  PROVE  Spec => []TransactionsExplainBalance
<1>1. TypeOK /\ AuditInv => TransactionsExplainBalance
  <2>. SUFFICES ASSUME TypeOK, AuditInv, NEW a \in Accounts
                PROVE  MovedSinceOpening[a] = booked[a]
    BY DEF TransactionsExplainBalance
  <2>1. Adjustments(a) = {}
    BY DEF Adjustments, Created, TypeOK
  <2>2. SumFunctionOnSet(Deltas, Adjustments(a)) = 0
    BY <2>1, SumEmpty
  <2>3. booked[a] \in Int
    BY DEF TypeOK
  <2>. QED  BY <2>2, <2>3 DEF AuditInv, BalanceExplained
<1>. QED  BY <1>1, AuditIsExact, TypeCorrect, PTL

(* Where nobody posts interest, ledger and trust accounts agree. *)
THEOREM LedgerBankMatches ==
  ASSUME \A in \in Inputs : in.kind # "POST_INTEREST"
  PROVE  Spec => []LedgerBankMatchesControl
<1>1. TypeOK /\ AuditInv => LedgerBankMatchesControl
  <2>. SUFFICES ASSUME TypeOK, AuditInv PROVE LedgerBankMatchesControl
    OBVIOUS
  <2>1. InterestPostings = {}
    BY DEF InterestPostings, Created, TypeOK
  <2>2. AmountOf(InterestPostings) = 0
    BY <2>1, SumEmpty DEF AmountOf
  <2>3. SumFunctionOnSet(trustBank, Periods) \in Int
    BY FiniteAssumption, SumIsInt DEF TypeOK
  <2>. QED  BY <2>2, <2>3 DEF AuditInv, BankExplained, LedgerBankMatchesControl
<1>. QED  BY <1>1, AuditIsExact, TypeCorrect, PTL

-------------------------------------------------------------------------------
(***************************************************************************)
(* The read-modify-write of Invoice.paidAmount.  Nothing locks the invoice *)
(* between its two statements: what keeps another transfer out is the row  *)
(* of the trust account, so the transfers of one invoice have to come from *)
(* one account.                                                            *)
(***************************************************************************)
IsTransfer(in) == in.kind = "TRANSFER_TO_OFFICE" /\ in.invoice # NoInvoice

OneAccountPerInvoice ==
  \A x, y \in Inputs :
    IsTransfer(x) /\ IsTransfer(y) /\ x.invoice = y.invoice => x.account = y.account

(* What a transfer read of the paid amount is still what is stored. *)
SeenIsCurrent ==
  \A r \in Requests :
    pc[r] \in {"writeInvoice", "commit"} /\ IsTransfer(input[r])
      => seenPaid[r] = paidAmount[input[r].invoice]

PaidInv == PaidIsWhatWasTransferred /\ SeenIsCurrent

LEMMA SeenStep ==
  ASSUME IInv, SeenIsCurrent, [Next]_vars, \A r \in Requests : ~Commit(r)
  PROVE  SeenIsCurrent'
<1>1. UNCHANGED <<paidAmount, input>>
  BY AuditQuiet DEF IInv
<1>. SUFFICES ASSUME NEW q \in Requests, pc'[q] \in {"writeInvoice", "commit"},
                     IsTransfer(input[q])
              PROVE  seenPaid'[q] = paidAmount[input[q].invoice]
  BY <1>1 DEF SeenIsCurrent
<1>2. CASE \E r \in Requests : ReadInvoice(r)
  BY <1>2 DEF ReadInvoice, Goto, SeenIsCurrent, IInv, TypeOK
<1>3. CASE \E r \in Requests : WriteInvoice(r)
  BY <1>3 DEF WriteInvoice, Goto, SeenIsCurrent, IInv, TypeOK
<1>4. CASE \E r \in Requests : PostTrustJournal(r) \/ PostOfficeJournal(r)
  BY <1>4 DEF PostTrustJournal, PostOfficeJournal, PostJournal, Rollback, Goto, SeenIsCurrent,
     IsTransfer, IInv, TypeOK
<1>5. CASE \E r \in Requests : CreditAccount(r)
  BY <1>5 DEF CreditAccount, LockAccount, Goto, SeenIsCurrent, IsTransfer, IInv, TypeOK,
     PathOK, InterestPath
<1>6. CASE \A r \in Requests :
             ~ \/ ReadInvoice(r) \/ WriteInvoice(r) \/ PostTrustJournal(r)
               \/ PostOfficeJournal(r) \/ CreditAccount(r)
  <2>1. ASSUME NEW r \in Requests, Rollback(r)
        PROVE  seenPaid'[q] = seenPaid[q] /\ pc'[q] = pc[q]
    BY <2>1 DEF Rollback, Goto, IInv, TypeOK
  <2>2. ASSUME NEW r \in Requests, NEW l, l \notin {"writeInvoice", "commit"}, Goto(r, l),
               seenPaid' = seenPaid
        PROVE  seenPaid'[q] = seenPaid[q] /\ pc'[q] = pc[q]
    BY <2>2 DEF Goto, IInv, TypeOK
  <2>3. ASSUME NEW r \in Requests,
               CheckAccount(r) \/ CheckMatter(r) \/ CheckDue(r) \/ CheckInterest(r) \/ Submit(r)
        PROVE  seenPaid'[q] = seenPaid[q] /\ pc'[q] = pc[q]
    <3>1. (\E l : l \notin {"writeInvoice", "commit"} /\ Goto(r, l)) /\ seenPaid' = seenPaid
      BY <2>3 DEF CheckAccount, CheckMatter, CheckDue, CheckInterest, Submit, Check
    <3>. QED  BY <2>2, <3>1
  <2>4. ASSUME NEW r \in Requests,
               InsertTransaction(r) \/ InsertInterest(r) \/ MoveAccount(r) \/ ApplyDelta(r)
        PROVE  seenPaid'[q] = seenPaid[q] /\ pc'[q] = pc[q]
    <3>1. \/ Rollback(r)
          \/ (\E l : l \notin {"writeInvoice", "commit"} /\ Goto(r, l)) /\ seenPaid' = seenPaid
      BY <2>4 DEF InsertTransaction, InsertInterest, MoveAccount, ApplyDelta, LockAccount
    <3>. QED  BY <2>1, <2>2, <3>1
  <2>5. ASSUME NEW r \in Requests, Abort(r)
        PROVE  seenPaid'[q] = seenPaid[q] /\ pc'[q] = pc[q]
    BY <2>1, <2>5 DEF Abort
  <2>6. ASSUME \/ UNCHANGED vars
               \/ \E a \in Accounts : Archive(a)
               \/ \E p \in Periods : ClosePeriod(p)
        PROVE  seenPaid'[q] = seenPaid[q] /\ pc'[q] = pc[q]
    BY <2>6 DEF vars, Archive, ClosePeriod
  <2>7. seenPaid'[q] = seenPaid[q] /\ pc'[q] = pc[q]
    BY <1>6, <2>3, <2>4, <2>5, <2>6 DEF Next, Step, Quiescent
  <2>. QED  BY <2>7 DEF SeenIsCurrent
<1>. QED  BY <1>2, <1>3, <1>4, <1>5, <1>6

LEMMA PaidCommit ==
  ASSUME OneAccountPerInvoice, IInv, PaidInv, NEW r \in Requests, Commit(r)
  PROVE  PaidInv'
<1>. DEFINE in == input[r]
<1>1. input' = input /\ r \notin Created /\ Created' = Created \union {r}
  BY CommitAudit DEF IInv
<1>2. \A q \in Requests : input[q] \in Inputs
  BY DEF IInv, TypeOK
<1>3. in.amount \in Int /\ (IsTransfer(in) => in.invoice \in Invoices)
  BY <1>2, BodyType DEF IsTransfer
<1>4. /\ \A i \in Invoices : IsTransfer(in) /\ i = in.invoice
                              => paidAmount'[i] = paidAmount[i] + in.amount
      /\ \A i \in Invoices : ~(IsTransfer(in) /\ i = in.invoice)
                              => paidAmount'[i] = paidAmount[i]
  <2>1. CASE IsTransfer(in)
    <3>1. paidAmount' = [paidAmount EXCEPT ![in.invoice] = seenPaid[r] + in.amount]
      BY <2>1 DEF Commit, PublishTransaction, IsTransfer
    <3>2. seenPaid[r] = paidAmount[in.invoice]
      BY <2>1 DEF PaidInv, SeenIsCurrent, Commit
    <3>. HIDE DEF in
    <3>. QED  BY <1>3, <2>1, <3>1, <3>2 DEF IInv, TypeOK
  <2>2. CASE ~IsTransfer(in)
    <3>1. paidAmount' = paidAmount
      BY <2>2 DEF Commit, PublishTransaction, PublishInterest, IsTransfer
    <3>. QED  BY <2>2, <3>1
  <2>. QED  BY <2>1, <2>2
<1>5. PaidIsWhatWasTransferred'
  <2>. SUFFICES ASSUME NEW i \in Invoices
                PROVE  paidAmount'[i] = AmountOf({q \in Transfers : input[q].invoice = i})'
    BY DEF PaidIsWhatWasTransferred
  <2>. DEFINE K == {q \in Transfers : input[q].invoice = i}
              mine == IsTransfer(in) /\ i = in.invoice
  <2>1. K \subseteq Created /\ r \notin K
    BY <1>1 DEF Transfers
  <2>2. i # NoInvoice
    BY ConstantsAssumption
  <2>3. K' = IF mine THEN K \union {r} ELSE K
    BY <1>1, <2>2 DEF Transfers, IsTransfer
  <2>4. paidAmount[i] = AmountOf(K)
    BY DEF PaidInv, PaidIsWhatWasTransferred
  <2>5. CASE mine
    <3>1. AmountOf(K \union {r}) = AmountOf(K) + in.amount
      <4>1. TypeOK
        BY DEF IInv
      <4>. HIDE DEF K
      <4>. QED  BY <2>1, <4>1, AmountOfMore
    <3>2. AmountOf(K)' = AmountOf(K) + in.amount
      <4>. HIDE DEF K
      <4>. QED  BY <1>1, <2>3, <2>5, <3>1 DEF AmountOf
    <3>. QED  BY <1>4, <2>4, <2>5, <3>2
  <2>6. CASE ~mine
    <3>1. AmountOf(K)' = AmountOf(K)
      BY <1>1, <2>3, <2>6 DEF AmountOf
    <3>. QED  BY <1>4, <2>4, <2>6, <3>1
  <2>. QED  BY <2>5, <2>6
<1>6. SeenIsCurrent'
  <2>. SUFFICES ASSUME NEW q \in Requests, pc'[q] \in {"writeInvoice", "commit"},
                       IsTransfer(input[q])
                PROVE  seenPaid'[q] = paidAmount'[input[q].invoice]
    BY <1>1 DEF SeenIsCurrent
  <2>1. q # r /\ pc[q] = pc'[q] /\ seenPaid' = seenPaid
    BY DEF Commit, Goto, IInv, TypeOK
  <2>2. pc[q] \in Moved /\ pc[r] \in Moved
    BY <2>1 DEF Moved, Commit
  <2>3. input[q].account # in.account
    BY <2>1, <2>2 DEF IInv, HoldsItsRow
  <2>4. ~(IsTransfer(in) /\ input[q].invoice = in.invoice)
    BY <1>2, <2>3 DEF OneAccountPerInvoice
  <2>5. input[q].invoice \in Invoices
    BY <1>2, BodyType DEF IsTransfer
  <2>6. seenPaid[q] = paidAmount[input[q].invoice]
    BY <2>1 DEF PaidInv, SeenIsCurrent
  <2>. QED  BY <1>4, <2>1, <2>4, <2>5, <2>6
<1>. QED  BY <1>5, <1>6 DEF PaidInv

(* An invoice has been paid what was transferred for it, whatever races,   *)
(* aborts and reversals there are, as long as each invoice is paid from    *)
(* one trust account.                                                      *)
THEOREM NoTransferIsLost ==
  ASSUME OneAccountPerInvoice
  PROVE  Spec => []PaidIsWhatWasTransferred
<1>1. Init => PaidInv
  <2>. SUFFICES ASSUME Init PROVE PaidInv
    OBVIOUS
  <2>1. Transfers = {}
    BY DEF Init, Created, Transfers
  <2>2. \A i \in Invoices : {r \in Transfers : input[r].invoice = i} = {}
    BY <2>1
  <2>3. AmountOf({}) = 0
    BY SumEmpty DEF AmountOf
  <2>4. PaidIsWhatWasTransferred
    BY <2>2, <2>3 DEF Init, PaidIsWhatWasTransferred
  <2>5. SeenIsCurrent
    BY DEF Init, SeenIsCurrent
  <2>. QED  BY <2>4, <2>5 DEF PaidInv
<1>2. IInv /\ PaidInv /\ [Next]_vars => PaidInv'
  <2>. SUFFICES ASSUME IInv, PaidInv, [Next]_vars PROVE PaidInv'
    OBVIOUS
  <2>1. ASSUME NEW r \in Requests, Commit(r) PROVE PaidInv'
    BY <2>1, PaidCommit
  <2>2. ASSUME \A r \in Requests : ~Commit(r) PROVE PaidInv'
    <3>1. /\ UNCHANGED <<paidAmount, input>>
          /\ Created' = Created
      BY <2>2, AuditQuiet DEF IInv
    <3>2. PaidIsWhatWasTransferred'
      BY <3>1 DEF PaidInv, PaidIsWhatWasTransferred, Transfers, AmountOf
    <3>. QED  BY <2>2, <3>2, SeenStep DEF PaidInv
  <2>. QED  BY <2>1, <2>2
<1>3. PaidInv => PaidIsWhatWasTransferred
  BY DEF PaidInv
<1>. QED  BY <1>1, <1>2, <1>3, Invariance, PTL DEF Spec
===============================================================================
