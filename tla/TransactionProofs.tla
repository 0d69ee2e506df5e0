------------------------- MODULE TransactionProofs -------------------------
(***************************************************************************)
(* What is decided under a lock.  The completion of a job, statement by    *)
(* statement, for any set of domains and any number of rollbacks, retries  *)
(* and pauses.  Admission: replays agree and the limit on unfinished jobs  *)
(* holds for any number of people and of concurrent requests.              *)
(***************************************************************************)
EXTENDS CompletionTxn, Admission, FiniteSetTheorems, TLAPS

-----------------------------------------------------------------------------
(* Completion                                                              *)

\* The transactions that run complete_if_finished.
Completers == Domains \cup {ResumeTxn}

\* The statements each kind of transaction can be at.
StepsOK ==
  /\ \A x \in Completers : txn[x].step \in {"closed", "lock", "update", "commit"}
  /\ txn[SweepTxn].step \in {"closed", "wait", "commit"}
  /\ txn[RetryTxn].step \in {"closed", "rows", "reopen", "wait", "commit"}
  /\ \A x \in Txns : txn[x].step = "closed" => txn[x] = Closed

\* complete_if_finished has the job's row from its SELECT ... FOR UPDATE to its
\* commit, and only who has it has decided on a new status.
LockOK ==
  /\ \A x \in Completers : txn[x].step \in {"update", "commit"} => holder = x
  /\ \A x \in Txns : txn[x].job # "same" => holder = x /\ txn[x].step = "commit"
  /\ txn[SweepTxn].step = "commit" => txn[SweepTxn].job = "done"
  /\ \A x \in Txns : holder = x => txn[x].step \in {"update", "commit"}

\* The uncommitted rows: finish has its own, which is still running for everyone
\* else; a retry has failed ones; the others have none.
WritesOK ==
  /\ \A d, e \in Domains : d # e => txn[d].writes[e] = "same"
  /\ \A d \in Domains : txn[d].step # "closed" =>
       row[d] = "running" /\ txn[d].writes[d] \in {"answer", "failed"}
  /\ \A x \in {ResumeTxn, SweepTxn}, d \in Domains : txn[x].writes[d] = "same"
  /\ \A d \in Domains : /\ txn[RetryTxn].writes[d] \in {"same", "queued"}
                        /\ txn[RetryTxn].writes[d] = "queued" => row[d] = "failed"
  /\ txn[RetryTxn].step \in {"reopen", "wait"} \/ txn[RetryTxn].job # "same" =>
       \E d \in Domains : txn[RetryTxn].writes[d] = "queued"

\* The decision is still right when it is committed: nobody else could change the
\* status, nor finish the last row.
DecisionOK ==
  /\ \A x \in Txns \ {RetryTxn} : txn[x].job = "done" => status \in Active
  /\ \A x \in Txns \ {RetryTxn} : txn[x].job # "running"
  /\ txn[RetryTxn].job # "same" => status = "done"
  /\ \A x \in Completers :
       txn[x].step = "commit" /\ txn[x].job = "same" /\ status \in Active => Unfinished(View(x))

\* An active job with nothing left is about to be completed by the resume.
CompletionDue == status \in Active /\ ~Unfinished(row) => txn[ResumeTxn].step # "closed"

\* Before the first retry the rows that a completion counted stay finished.
UnretriedOK ==
  /\ left.retries <= MaxRetries
  /\ left.retries = MaxRetries =>
       /\ txn[RetryTxn].step = "closed"
       /\ status = "done" => ~Unfinished(row)
       /\ \A x \in Txns : txn[x].job = "done" => ~Unfinished(View(x))
       /\ txn[SweepTxn].step # "closed" => ~Unfinished(row)

\* The inductive invariant of the transactions.
CompletionInv ==
  /\ TypeOK /\ StepsOK /\ LockOK /\ WritesOK /\ DecisionOK /\ CompletionDue /\ UnretriedOK

-----------------------------------------------------------------------------
\* The names of the transactions tell them apart.
LEMMA Names ==
  /\ SweepTxn \in Txns /\ RetryTxn \in Txns /\ ResumeTxn \in Txns /\ Domains \subseteq Txns
  /\ Completers \subseteq Txns /\ Txns = Completers \cup {SweepTxn, RetryTxn}
  /\ SweepTxn \notin Completers /\ RetryTxn \notin Completers /\ SweepTxn # RetryTxn
  /\ SweepTxn \notin Domains /\ RetryTxn \notin Domains /\ ResumeTxn \notin Domains
  /\ ResumeTxn \in Completers /\ Domains \subseteq Completers /\ NoTxn \notin Txns
BY NamesAssumption DEF Txns, Completers

\* The step sets the record of transaction x and no other.
Becomes(x, s, w, j) ==
  /\ txn' \in [Txns -> Txn]
  /\ txn'[x].step = s /\ txn'[x].writes = w /\ txn'[x].job = j
  /\ \A y \in Txns : y # x => txn'[y] = txn[y]

\* What a transaction sees before it has written anything.
LEMMA ViewIs ==
  ASSUME TypeOK, NEW x \in Txns
  PROVE  /\ View(x) \in [Domains -> RowStates]
         /\ \A d \in Domains : View(x)[d] = IF txn[x].writes[d] = "same" THEN row[d]
                                                                      ELSE txn[x].writes[d]
BY DEF View, TypeOK, Txn

\* Any step that sets one record to a record.
LEMMA BecomesOne ==
  ASSUME TypeOK, NEW x \in Txns, NEW s, NEW w, NEW j,
         [step |-> s, writes |-> w, job |-> j] \in Txn,
         txn' = [txn EXCEPT ![x] = [step |-> s, writes |-> w, job |-> j]]
  PROVE  Becomes(x, s, w, j)
BY DEF Becomes, TypeOK

\* A statement that only moves the transaction on.
LEMMA StepIs ==
  ASSUME TypeOK, NEW x \in Txns, NEW s, Step(x, s),
         s \in {"closed", "lock", "update", "rows", "reopen", "wait", "commit"}
  PROVE  Becomes(x, s, txn[x].writes, txn[x].job)
BY Zenon DEF Step, Becomes, TypeOK, Txn

\* A statement that also decides on a status, or writes rows.
LEMMA DecideIs ==
  ASSUME TypeOK, NEW x \in Txns, NEW s, NEW j \in {"same", "done", "running"},
         s \in {"closed", "lock", "update", "rows", "reopen", "wait", "commit"},
         txn' = [txn EXCEPT ![x].step = s, ![x].job = j]
  PROVE  Becomes(x, s, txn[x].writes, j)
BY ZenonT(30) DEF Becomes, TypeOK, Txn

\* A transaction that writes goes on.
LEMMA WriteIs ==
  ASSUME TypeOK, NEW x \in Txns, NEW s, NEW w \in [Domains -> RowStates \cup {"same"}],
         s \in {"closed", "lock", "update", "rows", "reopen", "wait", "commit"},
         txn' = [txn EXCEPT ![x].step = s, ![x].writes = w]
  PROVE  Becomes(x, s, w, txn[x].job)
BY Zenon DEF Becomes, TypeOK, Txn

\* A transaction that ends, committed or rolled back.
LEMMA EndIs ==
  ASSUME TypeOK, NEW x \in Txns, txn' = [txn EXCEPT ![x] = Closed]
  PROVE  Becomes(x, "closed", [d \in Domains |-> "same"], "same") /\ txn'[x] = Closed
<1>1. Closed \in Txn
  BY DEF Closed, Txn
<1>2. QED
  BY <1>1, BecomesOne, Zenon DEF Closed, TypeOK

-----------------------------------------------------------------------------
\* finish writes its row; for everyone else it is still running.
LEMMA FinishRowKeeps ==
  ASSUME CompletionInv, NEW d \in Domains, NEW res \in {"answer", "failed"}, FinishRow(d, res)
  PROVE  CompletionInv'
<1> DEFINE w == [txn[d].writes EXCEPT ![d] = res]
<1>0. TypeOK /\ StepsOK /\ LockOK /\ WritesOK /\ DecisionOK /\ CompletionDue /\ UnretriedOK
  BY DEF CompletionInv
<1>1. /\ txn[d] = Closed /\ txn[d] \in Txn /\ row[d] = "running" /\ d \in Txns
      /\ UNCHANGED <<status, row, holder, left>>
  BY <1>0, Names DEF FinishRow, StepsOK, TypeOK
<1>2. Becomes(d, "lock", w, "same")
  <2>1. [step |-> "lock", writes |-> w, job |-> "same"] \in Txn
    BY <1>1 DEF Txn, RowStates, Closed
  <2>2. txn' = [txn EXCEPT ![d] = [step |-> "lock", writes |-> w, job |-> "same"]]
    BY <1>0, <1>1 DEF FinishRow, Closed, TypeOK
  <2>3. QED
    BY <2>1, <2>2, <1>0, <1>1, BecomesOne, Zenon
<1>3. w[d] = res /\ \A e \in Domains : e # d => w[e] = "same"
  BY <1>1 DEF Closed
<1> HIDE DEF w
<1>4. TypeOK' /\ StepsOK'
  BY <1>0, <1>1, <1>2, Names DEF TypeOK, StepsOK, Becomes, Completers
<1>5. LockOK'
  BY <1>0, <1>1, <1>2, Names DEF LockOK, Becomes, Completers, Closed
<1>6. WritesOK'
  BY <1>0, <1>1, <1>2, <1>3, Names DEF WritesOK, Becomes, Completers
<1>7. /\ Unfinished(row)' <=> Unfinished(row)
      /\ \A x \in Txns : x # d => (Unfinished(View(x))' <=> Unfinished(View(x)))
  BY <1>1, <1>2, Zenon DEF View, Becomes, Unfinished
<1>8. DecisionOK'
  BY <1>0, <1>1, <1>2, <1>7, Names DEF DecisionOK, Becomes
<1>9. CompletionDue'
  BY <1>0, <1>1, <1>2, <1>7, Names, Zenon DEF CompletionDue, Becomes
<1>10. UnretriedOK'
  BY <1>0, <1>1, <1>2, <1>7, Names DEF UnretriedOK, Becomes
<1>11. QED
  BY <1>4, <1>5, <1>6, <1>8, <1>9, <1>10 DEF CompletionInv

\* SELECT ... FOR UPDATE: the job's row is now the transaction's.
LEMMA LockJobKeeps ==
  ASSUME CompletionInv, NEW x \in Txns, LockJob(x)
  PROVE  CompletionInv'
<1>0. TypeOK /\ StepsOK /\ LockOK /\ WritesOK /\ DecisionOK /\ CompletionDue /\ UnretriedOK
  BY DEF CompletionInv
<1>1. /\ txn[x].step = "lock" /\ holder = NoTxn /\ holder' = x
      /\ UNCHANGED <<status, row, left>>
  BY DEF LockJob, LockFree
<1>2. Becomes(x, "update", txn[x].writes, txn[x].job)
  BY <1>0, StepIs DEF LockJob
<1>3. x \in Completers /\ \A y \in Txns : txn[y].job = "same"
  BY <1>0, <1>1, Names DEF StepsOK, LockOK, TypeOK, Txn
<1>4. TypeOK' /\ StepsOK'
  BY <1>0, <1>1, <1>2, <1>3, Names DEF TypeOK, StepsOK, Becomes
<1>5. LockOK'
  BY <1>0, <1>1, <1>2, <1>3, Names DEF LockOK, Becomes
<1>6. WritesOK'
  BY <1>0, <1>1, <1>2, <1>3, Names DEF WritesOK, Becomes
<1>7. /\ Unfinished(row)' <=> Unfinished(row)
      /\ \A y \in Txns : Unfinished(View(y))' <=> Unfinished(View(y))
  BY <1>1, <1>2, Zenon DEF View, Becomes, Unfinished
<1>8. DecisionOK'
  BY <1>0, <1>1, <1>2, <1>3, <1>7, Names DEF DecisionOK, Becomes
<1>9. CompletionDue'
  BY <1>0, <1>1, <1>2, <1>7, Names DEF CompletionDue, Becomes
<1>10. UnretriedOK'
  BY <1>0, <1>1, <1>2, <1>3, <1>7, Names DEF UnretriedOK, Becomes
<1>11. QED
  BY <1>4, <1>5, <1>6, <1>8, <1>9, <1>10 DEF CompletionInv

\* UPDATE ... AND NOT EXISTS: the decision is right when it is taken.
LEMMA CompleteJobKeeps ==
  ASSUME CompletionInv, NEW x \in Txns, CompleteJob(x)
  PROVE  CompletionInv'
<1> DEFINE j == IF status \in Active /\ ~Unfinished(View(x)) THEN "done" ELSE "same"
<1>0. TypeOK /\ StepsOK /\ LockOK /\ WritesOK /\ DecisionOK /\ CompletionDue /\ UnretriedOK
  BY DEF CompletionInv
<1>1. txn[x].step = "update" /\ UNCHANGED <<status, row, holder, left>>
  BY DEF CompleteJob
<1>2. Becomes(x, "commit", txn[x].writes, j)
  <2>1. txn' = [txn EXCEPT ![x].step = "commit", ![x].job = j] /\ j \in {"same", "done"}
    BY DEF CompleteJob
  <2> HIDE DEF j
  <2>2. QED
    BY <1>0, <2>1, DecideIs, Zenon
<1>3. /\ x \in Completers /\ holder = x
      /\ \A y \in Txns : y # x => txn[y].job = "same" /\ txn[y].step # "update"
  BY <1>0, <1>1, Names DEF StepsOK, LockOK, TypeOK, Txn
<1>4. /\ j = "done" => status \in Active /\ ~Unfinished(View(x))
      /\ j = "same" /\ status \in Active => Unfinished(View(x))
      /\ j \in {"same", "done"}
  OBVIOUS
<1> HIDE DEF j
<1>5. TypeOK' /\ StepsOK' /\ LockOK' /\ WritesOK'
  <2>1. TypeOK' /\ StepsOK'
    BY <1>0, <1>1, <1>2, <1>3, Names DEF TypeOK, StepsOK, Becomes
  <2>2. LockOK'
    BY <1>0, <1>1, <1>2, <1>3, Names DEF LockOK, Becomes
  <2>3. WritesOK'
    BY <1>0, <1>1, <1>2, <1>3, Names DEF WritesOK, Becomes
  <2>4. QED
    BY <2>1, <2>2, <2>3, Zenon
<1>6. /\ Unfinished(row)' <=> Unfinished(row)
      /\ \A y \in Txns : Unfinished(View(y))' <=> Unfinished(View(y))
  BY <1>1, <1>2 DEF View, Becomes, Unfinished
<1>7. DecisionOK'
  BY <1>0, <1>1, <1>2, <1>3, <1>4, <1>6, Names DEF DecisionOK, Becomes
<1>8. CompletionDue'
  BY <1>0, <1>1, <1>2, <1>6, Names DEF CompletionDue, Becomes
<1>9. UnretriedOK'
  BY <1>0, <1>1, <1>2, <1>3, <1>4, <1>6, Names DEF UnretriedOK, Becomes
<1>10. QED
  BY <1>5, <1>7, <1>8, <1>9 DEF CompletionInv

\* What a commit changes: finish its own row, a retry the failed ones it queued, the
\* others none.
LEMMA CommitRows ==
  ASSUME CompletionInv, NEW x \in Txns, Commit(x)
  PROVE  /\ x \in Domains =>
              /\ row[x] = "running" /\ row'[x] \in {"answer", "failed"}
              /\ \A d \in Domains : d # x => row'[d] = row[d]
         /\ x \in {ResumeTxn, SweepTxn} => \A d \in Domains : row'[d] = row[d]
         /\ x = RetryTxn => \A d \in Domains :
              \/ row'[d] = row[d] /\ txn[x].writes[d] = "same"
              \/ row[d] = "failed" /\ row'[d] = "queued"
<1>1. TypeOK /\ WritesOK /\ txn[x].step = "commit"
  BY DEF CompletionInv, Commit
<1>2. \A d \in Domains : row'[d] = IF txn[x].writes[d] = "same" THEN row[d]
                                                               ELSE txn[x].writes[d]
  BY <1>1, ViewIs, Zenon DEF Commit
<1>3. QED
  BY <1>1, <1>2, Names DEF WritesOK

\* The commit: who decided on a status had the row, and what it counted still holds.
LEMMA CommitKeeps ==
  ASSUME CompletionInv, NEW x \in Txns, Commit(x)
  PROVE  CompletionInv'
<1>0. TypeOK /\ StepsOK /\ LockOK /\ WritesOK /\ DecisionOK /\ CompletionDue /\ UnretriedOK
  BY DEF CompletionInv
<1>1. /\ txn[x].step = "commit" /\ row' = View(x) /\ left' = left
      /\ status' = IF txn[x].job = "same" THEN status ELSE txn[x].job
      /\ holder' = IF holder = x THEN NoTxn ELSE holder
      /\ txn' = [txn EXCEPT ![x] = Closed]
  BY DEF Commit, Release
<1>2. Becomes(x, "closed", [d \in Domains |-> "same"], "same") /\ txn'[x] = Closed
  BY <1>0, <1>1, EndIs, Zenon
<1>3. /\ row' \in [Domains -> RowStates]
      /\ \A d \in Domains : row'[d] = IF txn[x].writes[d] = "same" THEN row[d]
                                                                  ELSE txn[x].writes[d]
  BY <1>0, <1>1, ViewIs, Zenon
<1>4. \A y \in Txns : y # x =>
        /\ txn[y].job # "same" => holder = y
        /\ holder = y /\ x # RetryTxn => FALSE
  BY <1>0, <1>1, Names, Zenon DEF LockOK
<1>5. TypeOK' /\ StepsOK'
  BY <1>0, <1>1, <1>2, <1>3, Names DEF TypeOK, StepsOK, Becomes, Txn
<1>6. LockOK'
  BY <1>0, <1>1, <1>2, Names DEF LockOK, Becomes
<1>7. /\ x \in Domains =>
           /\ row[x] = "running" /\ row'[x] \in {"answer", "failed"}
           /\ \A d \in Domains : d # x => row'[d] = row[d]
      /\ x \in {ResumeTxn, SweepTxn} => \A d \in Domains : row'[d] = row[d]
      /\ x = RetryTxn => \A d \in Domains :
           \/ row'[d] = row[d] /\ txn[x].writes[d] = "same"
           \/ row[d] = "failed" /\ row'[d] = "queued"
  BY CommitRows, Zenon
<1>8. WritesOK'
  BY <1>0, <1>1, <1>2, <1>3, <1>7, Names DEF WritesOK, Becomes, StepsOK, Closed, Completers
<1>9. DecisionOK'
  <2>1. \A y \in Txns : y # x /\ txn[y].job # "same" => status' = status
    BY <1>0, <1>1, <1>4, Names, Zenon DEF LockOK
  <2>2. ASSUME NEW y \in Completers, y # x, txn[y].step = "commit", txn[y].job = "same",
               status' \in Active
        PROVE  Unfinished(View(y))'
    <3>1. x = RetryTxn /\ status' = status
      BY <1>0, <1>1, <2>2, Names, Zenon DEF LockOK
    <3>2. PICK d \in Domains : View(y)[d] \in Pending
      BY <1>0, <2>2, <3>1, Zenon DEF DecisionOK, Unfinished
    <3>3. View(y)'[d] = View(y)[d]
      BY <1>2, <1>7, <2>2, <3>1, <3>2, Names DEF View, Becomes, Pending
    <3>4. QED
      BY <3>2, <3>3 DEF Unfinished
  <2>3. QED
    BY <1>0, <1>1, <1>2, <2>1, <2>2, Names, Zenon DEF DecisionOK, Becomes
<1>10. CompletionDue'
  <2>1. CASE x \in Completers \cup {SweepTxn}
    BY <1>0, <1>1, <2>1, Names DEF CompletionDue, DecisionOK, LockOK, Active, TypeOK, Txn
  <2>2. CASE x = RetryTxn
    <3>1. CASE txn[x].job # "same"
      BY <1>0, <1>3, <2>2, <3>1 DEF WritesOK, CompletionDue, Unfinished, Pending
    <3>2. CASE txn[x].job = "same"
      BY <1>0, <1>1, <1>2, <1>7, <2>2, <3>2, Names DEF CompletionDue, Unfinished, Pending, Becomes
    <3>3. QED
      BY <3>1, <3>2, Zenon
  <2>3. QED
    BY <2>1, <2>2, Names, Zenon
<1>11. UnretriedOK'
  <2>1. left'.retries <= MaxRetries
    BY <1>0, <1>1, Zenon DEF UnretriedOK
  <2> SUFFICES ASSUME left.retries = MaxRetries
               PROVE  /\ txn'[RetryTxn].step = "closed"
                      /\ status' = "done" => ~Unfinished(row)'
                      /\ \A y \in Txns : txn'[y].job = "done" => ~Unfinished(View(y))'
                      /\ txn'[SweepTxn].step # "closed" => ~Unfinished(row)'
    BY <1>1, <2>1, Zenon DEF UnretriedOK
  <2>2. x # RetryTxn /\ txn'[RetryTxn].step = "closed"
    BY <1>0, <1>1, <1>2, Names, Zenon DEF UnretriedOK, Becomes
  <2>3. ~Unfinished(row) => \A d \in Domains : row'[d] = row[d]
    BY <1>7, <2>2, Names DEF Unfinished, Pending, Completers
  <2>4. ASSUME status' = "done" PROVE ~Unfinished(row)'
    <3>1. CASE txn[x].job = "same"
      BY <1>0, <1>1, <2>3, <2>4, <3>1 DEF UnretriedOK, Unfinished
    <3>2. CASE txn[x].job # "same"
      BY <1>0, <1>1, <2>4, <3>2, Zenon DEF UnretriedOK, Unfinished
    <3>3. QED
      BY <3>1, <3>2, Zenon
  <2>5. \A y \in Txns : txn'[y].job # "done"
    BY <1>0, <1>1, <1>2, <1>4, <2>2, Names DEF Becomes, LockOK
  <2>6. txn'[SweepTxn].step # "closed" => ~Unfinished(row)'
    BY <1>0, <1>2, <2>3, Names DEF Becomes, UnretriedOK, Unfinished
  <2>7. QED
    BY <2>2, <2>4, <2>5, <2>6
<1>12. QED
  BY <1>5, <1>6, <1>8, <1>9, <1>10, <1>11 DEF CompletionInv

\* A rollback leaves the committed rows and status as they were.
LEMMA AbortKeeps ==
  ASSUME CompletionInv, NEW x \in Txns, Abort(x)
  PROVE  CompletionInv'
<1>0. TypeOK /\ StepsOK /\ LockOK /\ WritesOK /\ DecisionOK /\ CompletionDue /\ UnretriedOK
  BY DEF CompletionInv
<1>1. /\ x # ResumeTxn /\ txn[x].step # "closed" /\ UNCHANGED <<status, row>>
      /\ left' = [left EXCEPT !.aborts = @ - 1] /\ left.aborts > 0
      /\ holder' = IF holder = x THEN NoTxn ELSE holder
  BY DEF Abort, Release
<1>2. Becomes(x, "closed", [d \in Domains |-> "same"], "same") /\ txn'[x] = Closed
  BY <1>0, EndIs DEF Abort
<1>3. /\ Unfinished(row)' <=> Unfinished(row)
      /\ \A y \in Txns : y # x => (Unfinished(View(y))' <=> Unfinished(View(y)))
  BY <1>1, <1>2 DEF View, Becomes, Unfinished
<1>4. left' \in [aborts : Nat, retries : Nat, pauses : Nat] /\ left'.retries = left.retries
  BY <1>0, <1>1 DEF TypeOK
<1>5. TypeOK' /\ StepsOK'
  BY <1>0, <1>1, <1>2, <1>3, <1>4, Names DEF TypeOK, StepsOK, Becomes
<1>6. LockOK'
  BY <1>0, <1>1, <1>2, <1>3, <1>4, Names DEF LockOK, Becomes
<1>7. WritesOK'
  BY <1>0, <1>1, <1>2, <1>3, <1>4, Names DEF WritesOK, Becomes
<1>8. DecisionOK'
  BY <1>0, <1>1, <1>2, <1>3, <1>4, Names DEF DecisionOK, Becomes
<1>9. CompletionDue'
  BY <1>0, <1>1, <1>2, <1>3, <1>4, Names DEF CompletionDue, Becomes
<1>10. UnretriedOK'
  BY <1>0, <1>1, <1>2, <1>3, <1>4, Names DEF UnretriedOK, Becomes
<1>11. QED
  BY <1>5, <1>6, <1>7, <1>8, <1>9, <1>10 DEF CompletionInv

\* The sweep's snapshot: nothing was left.
LEMMA SweepSelectKeeps ==
  ASSUME CompletionInv, SweepSelect
  PROVE  CompletionInv'
<1>0. TypeOK /\ StepsOK /\ LockOK /\ WritesOK /\ DecisionOK /\ CompletionDue /\ UnretriedOK
  BY Zenon DEF CompletionInv
<1>1. /\ txn[SweepTxn] = Closed /\ txn[SweepTxn].step = "closed" /\ ~Unfinished(row)
      /\ UNCHANGED <<status, row, holder, left>>
  BY <1>0, Names, Zenon DEF SweepSelect, StepsOK
<1>2. Becomes(SweepTxn, "wait", [d \in Domains |-> "same"], "same")
  BY <1>0, <1>1, StepIs, Names DEF SweepSelect, Closed
<1>3. /\ Unfinished(row)' <=> Unfinished(row)
      /\ \A y \in Txns : y # SweepTxn => (Unfinished(View(y))' <=> Unfinished(View(y)))
  BY <1>1, <1>2, Zenon DEF View, Becomes, Unfinished
<1>4. TypeOK' /\ StepsOK'
  BY <1>0, <1>1, <1>2, <1>3, Names DEF TypeOK, StepsOK, Becomes
<1>5. LockOK'
  BY <1>0, <1>1, <1>2, <1>3, Names DEF LockOK, Becomes
<1>6. WritesOK'
  BY <1>0, <1>1, <1>2, <1>3, Names DEF WritesOK, Becomes
<1>7. DecisionOK'
  BY <1>0, <1>1, <1>2, <1>3, Names DEF DecisionOK, Becomes
<1>8. CompletionDue'
  BY <1>0, <1>1, <1>2, <1>3, Names, Zenon DEF CompletionDue, Becomes
<1>9. UnretriedOK'
  BY <1>0, <1>1, <1>2, <1>3, Names DEF UnretriedOK, Becomes
<1>10. QED
  BY <1>4, <1>5, <1>6, <1>7, <1>8, <1>9 DEF CompletionInv

\* The sweep has the row and the job is still active.
LEMMA SweepDecides ==
  ASSUME CompletionInv, LockFree, txn[SweepTxn].step = "wait",
         SweepRecheck, holder' = SweepTxn, UNCHANGED <<status, row, left>>,
         txn' = [txn EXCEPT ![SweepTxn].step = "commit", ![SweepTxn].job = "done"]
  PROVE  CompletionInv'
<1>0. TypeOK /\ StepsOK /\ LockOK /\ WritesOK /\ DecisionOK /\ CompletionDue /\ UnretriedOK
  BY DEF CompletionInv
<1>1. /\ holder = NoTxn /\ status \in Active
      /\ \A y \in Txns : txn[y].job = "same"
  BY <1>0, Names DEF LockFree, SweepRecheck, LockOK
<1>2. Becomes(SweepTxn, "commit", txn[SweepTxn].writes, "done")
  BY <1>0, Names, DecideIs, Zenon
<1>3. /\ Unfinished(row)' <=> Unfinished(row)
      /\ \A y \in Txns : Unfinished(View(y))' <=> Unfinished(View(y))
  BY <1>2 DEF View, Becomes, Unfinished
<1>4. Unfinished(View(SweepTxn)) <=> Unfinished(row)
  BY <1>0, Names, ViewIs DEF WritesOK, Unfinished
<1>5. TypeOK' /\ StepsOK'
  BY <1>0, <1>1, <1>2, <1>3, <1>4, Names DEF TypeOK, StepsOK, Becomes
<1>6. LockOK'
  BY <1>0, <1>1, <1>2, <1>3, <1>4, Names DEF LockOK, Becomes
<1>7. WritesOK'
  BY <1>0, <1>1, <1>2, <1>3, <1>4, Names DEF WritesOK, Becomes
<1>8. DecisionOK'
  BY <1>0, <1>1, <1>2, <1>3, <1>4, Names DEF DecisionOK, Becomes
<1>9. CompletionDue'
  BY <1>0, <1>1, <1>2, <1>3, <1>4, Names DEF CompletionDue, Becomes
<1>10. UnretriedOK'
  BY <1>0, <1>1, <1>2, <1>3, <1>4, Names, Zenon DEF UnretriedOK, Becomes
<1>11. QED
  BY <1>5, <1>6, <1>7, <1>8, <1>9, <1>10 DEF CompletionInv

\* The sweep has the row and the job is no longer active.
LEMMA SweepGivesUp ==
  ASSUME CompletionInv, LockFree, txn[SweepTxn].step = "wait",
         ~SweepRecheck, Step(SweepTxn, "closed"), UNCHANGED <<holder, status, row, left>>
  PROVE  CompletionInv'
<1>0. TypeOK /\ StepsOK /\ LockOK /\ WritesOK /\ DecisionOK /\ CompletionDue /\ UnretriedOK
  BY DEF CompletionInv
<1>1. holder = NoTxn /\ txn[SweepTxn].job = "same"
  BY <1>0, Names, Zenon DEF LockFree, LockOK
<1>2. Becomes(SweepTxn, "closed", txn[SweepTxn].writes, "same")
  BY <1>0, <1>1, StepIs, Names, Zenon
<1>3. /\ Unfinished(row)' <=> Unfinished(row)
      /\ \A y \in Txns : Unfinished(View(y))' <=> Unfinished(View(y))
  BY <1>2, Zenon DEF View, Becomes, Unfinished
<1>4. txn'[SweepTxn] = Closed
  <2>1. txn[SweepTxn].writes = [d \in Domains |-> "same"]
    BY <1>0, Names DEF WritesOK, TypeOK, Txn
  <2>2. txn'[SweepTxn] \in Txn
    BY <1>2, Names, Zenon DEF Becomes
  <2>3. QED
    BY <1>2, <2>1, <2>2, Zenon DEF Becomes, Txn, Closed
<1>5. TypeOK' /\ StepsOK'
  BY <1>0, <1>1, <1>2, <1>3, <1>4, Names DEF TypeOK, StepsOK, Becomes
<1>6. LockOK'
  BY <1>0, <1>1, <1>2, <1>3, <1>4, Names, SMTT(30) DEF LockOK, Becomes
<1>7. WritesOK'
  BY <1>0, <1>1, <1>2, <1>3, <1>4, Names DEF WritesOK, Becomes
<1>8. DecisionOK'
  BY <1>0, <1>1, <1>2, <1>3, <1>4, Names, Zenon DEF DecisionOK, Becomes
<1>9. CompletionDue'
  BY <1>0, <1>1, <1>2, <1>3, <1>4, Names, Zenon DEF CompletionDue, Becomes
<1>10. UnretriedOK'
  BY <1>0, <1>1, <1>2, <1>3, <1>4, Names DEF UnretriedOK, Becomes
<1>11. QED
  BY <1>5, <1>6, <1>7, <1>8, <1>9, <1>10 DEF CompletionInv

\* A retry begins: from here on the job counts as retried.
LEMMA RetryCheckKeeps ==
  ASSUME CompletionInv, RetryCheck
  PROVE  CompletionInv'
<1>0. TypeOK /\ StepsOK /\ LockOK /\ WritesOK /\ DecisionOK /\ CompletionDue /\ UnretriedOK
  BY DEF CompletionInv
<1>1. /\ txn[RetryTxn].step = "closed" /\ txn[RetryTxn] = Closed /\ UNCHANGED <<status, row, holder>>
      /\ left' = [left EXCEPT !.retries = @ - 1] /\ left.retries > 0
  BY <1>0, Names DEF RetryCheck, StepsOK
<1>2. Becomes(RetryTxn, "rows", [d \in Domains |-> "same"], "same")
  BY <1>0, <1>1, StepIs, Names DEF RetryCheck, Closed
<1>3. /\ Unfinished(row)' <=> Unfinished(row)
      /\ \A y \in Txns : y # RetryTxn => (Unfinished(View(y))' <=> Unfinished(View(y)))
  BY <1>1, <1>2 DEF View, Becomes, Unfinished
<1>4. /\ left' \in [aborts : Nat, retries : Nat, pauses : Nat] /\ left'.retries <= MaxRetries
      /\ left'.retries # MaxRetries
  BY <1>0, <1>1, BoundsAssumption DEF TypeOK, UnretriedOK
<1>5. TypeOK' /\ StepsOK'
  BY <1>0, <1>1, <1>2, <1>3, <1>4, Names DEF TypeOK, StepsOK, Becomes
<1>6. LockOK'
  BY <1>0, <1>1, <1>2, <1>3, <1>4, Names DEF LockOK, Becomes
<1>7. WritesOK'
  BY <1>0, <1>1, <1>2, <1>3, <1>4, Names DEF WritesOK, Becomes
<1>8. DecisionOK'
  BY <1>0, <1>1, <1>2, <1>3, <1>4, Names DEF DecisionOK, Becomes
<1>9. CompletionDue'
  BY <1>0, <1>1, <1>2, <1>3, <1>4, Names DEF CompletionDue, Becomes
<1>10. UnretriedOK'
  BY <1>0, <1>1, <1>2, <1>3, <1>4, Names DEF UnretriedOK, Becomes
<1>11. QED
  BY <1>5, <1>6, <1>7, <1>8, <1>9, <1>10 DEF CompletionInv

\* The failed rows are queued, for the retry alone.
LEMMA RetryRowsKeeps ==
  ASSUME CompletionInv, RetryRows
  PROVE  CompletionInv'
<1>0. TypeOK /\ StepsOK /\ LockOK /\ WritesOK /\ DecisionOK /\ CompletionDue /\ UnretriedOK
  BY DEF CompletionInv
<1>1. txn[RetryTxn].step = "rows" /\ txn[RetryTxn].job = "same" /\ UNCHANGED <<status, row, holder, left>>
  BY <1>0, Names DEF RetryRows, LockOK
<1>2. PICK s \in {"commit", "reopen"}, w \in [Domains -> {"same", "queued"}] :
        /\ Becomes(RetryTxn, s, w, "same")
        /\ s = "reopen" => \E d \in Domains : w[d] = "queued"
        /\ \A d \in Domains : w[d] = "queued" => row[d] = "failed"
  <2> DEFINE S == {d \in Domains : row[d] = "failed"}
             w == [d \in Domains |-> IF d \in S THEN "queued" ELSE "same"]
             s == IF S = {} THEN "commit" ELSE "reopen"
  <2>1. txn' = [txn EXCEPT ![RetryTxn].step = s, ![RetryTxn].writes = w]
    BY DEF RetryRows
  <2>2. /\ w \in [Domains -> {"same", "queued"}] /\ s \in {"commit", "reopen"}
        /\ s = "reopen" => \E d \in Domains : w[d] = "queued"
        /\ \A d \in Domains : w[d] = "queued" => row[d] = "failed"
    OBVIOUS
  <2> HIDE DEF w, s
  <2>3. Becomes(RetryTxn, s, w, "same")
    <3>1. w \in [Domains -> RowStates \cup {"same"}]
      BY <2>2 DEF RowStates
    <3>2. s \in {"closed", "lock", "update", "rows", "reopen", "wait", "commit"}
      BY <2>2
    <3>3. Becomes(RetryTxn, s, w, txn[RetryTxn].job)
      BY <1>0, <2>1, <3>1, <3>2, Names, WriteIs, Zenon
    <3>4. QED
      BY <1>1, <3>3
  <2>4. QED
    BY <2>2, <2>3
<1>3. /\ Unfinished(row)' <=> Unfinished(row)
      /\ \A y \in Txns : y # RetryTxn => (Unfinished(View(y))' <=> Unfinished(View(y)))
  BY <1>1, <1>2 DEF View, Becomes, Unfinished
<1>4. TypeOK' /\ StepsOK'
  BY <1>0, <1>1, <1>2, <1>3, Names DEF TypeOK, StepsOK, Becomes
<1>5. LockOK'
  BY <1>0, <1>1, <1>2, <1>3, Names DEF LockOK, Becomes
<1>6. WritesOK'
  BY <1>0, <1>1, <1>2, <1>3, Names DEF WritesOK, Becomes
<1>7. DecisionOK'
  BY <1>0, <1>1, <1>2, <1>3, Names DEF DecisionOK, Becomes
<1>8. CompletionDue'
  BY <1>0, <1>1, <1>2, <1>3, Names, Zenon DEF CompletionDue, Becomes
<1>9. UnretriedOK'
  BY <1>0, <1>1, <1>2, <1>3, Names DEF UnretriedOK, Becomes
<1>10. QED
  BY <1>4, <1>5, <1>6, <1>7, <1>8, <1>9 DEF CompletionInv

\* The retry finds the job done, or leaves its status alone.
LEMMA RetrySelectKeeps ==
  ASSUME CompletionInv, RetrySelect
  PROVE  CompletionInv'
<1>0. TypeOK /\ StepsOK /\ LockOK /\ WritesOK /\ DecisionOK /\ CompletionDue /\ UnretriedOK
  BY DEF CompletionInv
<1>1. txn[RetryTxn].step = "reopen" /\ txn[RetryTxn].job = "same" /\ UNCHANGED <<status, row, holder, left>>
  BY <1>0, Names, Zenon DEF RetrySelect, LockOK
<1>2. PICK s \in {"wait", "commit"} : Becomes(RetryTxn, s, txn[RetryTxn].writes, "same")
  <2>1. Step(RetryTxn, "wait") \/ Step(RetryTxn, "commit")
    BY Zenon DEF RetrySelect
  <2>2. QED
    BY <1>0, <1>1, <2>1, StepIs, Names
<1>3. /\ Unfinished(row)' <=> Unfinished(row)
      /\ \A y \in Txns : y # RetryTxn => (Unfinished(View(y))' <=> Unfinished(View(y)))
  BY <1>1, <1>2, Zenon DEF View, Becomes, Unfinished
<1>4. TypeOK' /\ StepsOK'
  BY <1>0, <1>1, <1>2, <1>3, Names DEF TypeOK, StepsOK, Becomes
<1>5. LockOK'
  BY <1>0, <1>1, <1>2, <1>3, Names DEF LockOK, Becomes
<1>6. WritesOK'
  BY <1>0, <1>1, <1>2, <1>3, Names DEF WritesOK, Becomes
<1>7. DecisionOK'
  BY <1>0, <1>1, <1>2, <1>3, Names, Zenon DEF DecisionOK, Becomes
<1>8. CompletionDue'
  BY <1>0, <1>1, <1>2, <1>3, Names, Zenon DEF CompletionDue, Becomes
<1>9. UnretriedOK'
  BY <1>0, <1>1, <1>2, <1>3, Names DEF UnretriedOK, Becomes
<1>10. QED
  BY <1>4, <1>5, <1>6, <1>7, <1>8, <1>9, Zenon DEF CompletionInv

\* The retry opens a job that is done while it has the row.
LEMMA RetryUpdateKeeps ==
  ASSUME CompletionInv, RetryUpdate
  PROVE  CompletionInv'
<1>0. TypeOK /\ StepsOK /\ LockOK /\ WritesOK /\ DecisionOK /\ CompletionDue /\ UnretriedOK
  BY DEF CompletionInv
<1>1. /\ txn[RetryTxn].step = "wait" /\ holder = NoTxn /\ UNCHANGED <<status, row, left>>
      /\ \A y \in Txns : txn[y].job = "same"
  BY <1>0, Names DEF RetryUpdate, LockFree, LockOK
<1>2. PICK j \in {"same", "running"} :
        /\ Becomes(RetryTxn, "commit", txn[RetryTxn].writes, j)
        /\ j = "same" => holder' = holder
        /\ j = "running" => holder' = RetryTxn /\ status = "done"
  <2>1. CASE status = "done"
    <3>1. Becomes(RetryTxn, "commit", txn[RetryTxn].writes, "running") /\ holder' = RetryTxn
      BY <1>0, <2>1, Names, DecideIs DEF RetryUpdate
    <3>2. QED
      BY <2>1, <3>1
  <2>2. CASE status # "done"
    <3>1. Step(RetryTxn, "commit") /\ holder' = holder
      BY <2>2, Zenon DEF RetryUpdate
    <3>2. Becomes(RetryTxn, "commit", txn[RetryTxn].writes, "same")
      BY <1>0, <1>1, <3>1, StepIs, Names, Zenon
    <3>3. QED
      BY <3>1, <3>2
  <2>3. QED
    BY <2>1, <2>2
<1>3. /\ Unfinished(row)' <=> Unfinished(row)
      /\ \A y \in Txns : y # RetryTxn => (Unfinished(View(y))' <=> Unfinished(View(y)))
  BY <1>1, <1>2, Zenon DEF View, Becomes, Unfinished
<1>4. TypeOK' /\ StepsOK'
  BY <1>0, <1>1, <1>2, <1>3, Names DEF TypeOK, StepsOK, Becomes
<1>5. LockOK'
  BY <1>0, <1>1, <1>2, <1>3, Names DEF LockOK, Becomes
<1>6. WritesOK'
  BY <1>0, <1>1, <1>2, <1>3, Names DEF WritesOK, Becomes
<1>7. DecisionOK'
  BY <1>0, <1>1, <1>2, <1>3, Names, Zenon DEF DecisionOK, Becomes
<1>8. CompletionDue'
  BY <1>0, <1>1, <1>2, <1>3, Names, Zenon DEF CompletionDue, Becomes
<1>9. UnretriedOK'
  BY <1>0, <1>1, <1>2, <1>3, Names DEF UnretriedOK, Becomes
<1>10. QED
  BY <1>4, <1>5, <1>6, <1>7, <1>8, <1>9 DEF CompletionInv

\* claim and requeue: a pending row stays pending, and nobody has written it.
LEMMA RowMoves ==
  ASSUME CompletionInv, NEW d \in Domains, NEW p \in Pending, RowFree(d), row[d] \in Pending,
         row' = [row EXCEPT ![d] = p], UNCHANGED <<status, holder, txn, left>>
  PROVE  CompletionInv'
<1>0. TypeOK /\ StepsOK /\ LockOK /\ WritesOK /\ DecisionOK /\ CompletionDue /\ UnretriedOK
  BY DEF CompletionInv
<1>1. /\ row' \in [Domains -> RowStates] /\ row'[d] \in Pending
      /\ \A e \in Domains : e # d => row'[e] = row[e]
  BY <1>0, Zenon DEF TypeOK, RowStates, Pending
<1>2. txn[d].step = "closed" /\ \A x \in Txns : txn[x].writes[d] = "same"
  BY <1>0, Names, Zenon DEF RowFree, WritesOK
<1>3. /\ Unfinished(row)' /\ Unfinished(row)
      /\ \A x \in Txns : Unfinished(View(x))' /\ Unfinished(View(x))
  BY <1>1, <1>2, Zenon DEF View, Unfinished
<1>4. TypeOK' /\ StepsOK'
  BY <1>0, <1>1, <1>2, <1>3, Names, Zenon DEF TypeOK, StepsOK
<1>5. LockOK'
  BY <1>0, <1>1, <1>2, <1>3, Names, Zenon DEF LockOK
<1>6. WritesOK'
  BY <1>0, <1>1, <1>2, <1>3, Names DEF WritesOK, Pending
<1>7. DecisionOK'
  BY <1>0, <1>1, <1>2, <1>3, Names, Zenon DEF DecisionOK
<1>8. CompletionDue'
  BY <1>0, <1>1, <1>2, <1>3, Names, Zenon DEF CompletionDue
<1>9. UnretriedOK'
  BY <1>0, <1>1, <1>2, <1>3, Names DEF UnretriedOK
<1>10. QED
  BY <1>4, <1>5, <1>6, <1>7, <1>8, <1>9 DEF CompletionInv

\* pause and cancel: nobody has the job's row, and the job is active no longer.
LEMMA StatusMoves ==
  ASSUME CompletionInv, LockFree, status \in Active \cup {"paused"},
         status' \in {"paused", "cancelled"}, UNCHANGED <<row, holder, txn>>,
         left' \in [aborts : Nat, retries : Nat, pauses : Nat], left'.retries = left.retries
  PROVE  CompletionInv'
<1>0. TypeOK /\ StepsOK /\ LockOK /\ WritesOK /\ DecisionOK /\ CompletionDue /\ UnretriedOK
  BY DEF CompletionInv
<1>1. status' \notin Active /\ status # "done" /\ status' # "done"
  BY Zenon DEF Active
<1>2. \A x \in Txns : txn[x].job = "same"
  BY <1>0, Names DEF LockFree, LockOK
<1>3. /\ Unfinished(row)' <=> Unfinished(row)
      /\ \A x \in Txns : Unfinished(View(x))' <=> Unfinished(View(x))
  BY Zenon DEF View, Unfinished
<1>4. TypeOK' /\ StepsOK'
  BY <1>0, <1>1, <1>2, <1>3, Names, Zenon DEF TypeOK, StepsOK
<1>5. LockOK'
  BY <1>0, <1>1, <1>2, <1>3, Names, Zenon DEF LockOK
<1>6. WritesOK'
  BY <1>0, <1>1, <1>2, <1>3, Names DEF WritesOK
<1>7. DecisionOK'
  BY <1>0, <1>1, <1>2, <1>3, Names, Zenon DEF DecisionOK
<1>8. CompletionDue'
  BY <1>0, <1>1, <1>2, <1>3, Names, Zenon DEF CompletionDue
<1>9. UnretriedOK'
  BY <1>0, <1>1, <1>2, <1>3, Names, Zenon DEF UnretriedOK
<1>10. QED
  BY <1>4, <1>5, <1>6, <1>7, <1>8, <1>9 DEF CompletionInv

\* resume_job: the completion that follows it is due until it commits.
LEMMA ResumeJobKeeps ==
  ASSUME CompletionInv, ResumeJob
  PROVE  CompletionInv'
<1>0. TypeOK /\ StepsOK /\ LockOK /\ WritesOK /\ DecisionOK /\ CompletionDue /\ UnretriedOK
  BY DEF CompletionInv
<1>1. /\ txn[ResumeTxn].step = "closed" /\ txn[ResumeTxn] = Closed /\ holder = NoTxn
      /\ status = "paused" /\ status' = "running" /\ UNCHANGED <<row, holder, left>>
      /\ \A x \in Txns : txn[x].job = "same"
      /\ \A x \in Completers : txn[x].step # "commit"
  BY <1>0, Names DEF ResumeJob, StepsOK, LockFree, LockOK
<1>2. Becomes(ResumeTxn, "lock", [d \in Domains |-> "same"], "same")
  BY <1>0, <1>1, StepIs, Names DEF ResumeJob, Closed
<1>3. /\ Unfinished(row)' <=> Unfinished(row)
      /\ \A y \in Txns : y # ResumeTxn => (Unfinished(View(y))' <=> Unfinished(View(y)))
  BY <1>1, <1>2, Zenon DEF View, Becomes, Unfinished
<1>4. TypeOK' /\ StepsOK'
  BY <1>0, <1>1, <1>2, <1>3, Names DEF TypeOK, StepsOK, Becomes
<1>5. LockOK'
  BY <1>0, <1>1, <1>2, <1>3, Names, SMTT(30) DEF LockOK, Becomes
<1>6. WritesOK'
  BY <1>0, <1>1, <1>2, <1>3, Names DEF WritesOK, Becomes
<1>7. DecisionOK'
  BY <1>0, <1>1, <1>2, <1>3, Names, Zenon DEF DecisionOK, Becomes
<1>8. CompletionDue'
  BY <1>0, <1>1, <1>2, <1>3, Names, Zenon DEF CompletionDue, Becomes
<1>9. UnretriedOK'
  BY <1>0, <1>1, <1>2, <1>3, Names DEF UnretriedOK, Becomes
<1>10. QED
  BY <1>4, <1>5, <1>6, <1>7, <1>8, <1>9 DEF CompletionInv

-----------------------------------------------------------------------------
\* No transaction is open at the start, and every row is pending.
LEMMA CompletionInvInit == Init => CompletionInv
<1> SUFFICES ASSUME Init PROVE CompletionInv
  BY Zenon
<1>1. /\ status = "running" /\ row \in [Domains -> {"queued", "running"}] /\ holder = NoTxn
      /\ txn = [x \in Txns |-> Closed]
      /\ left = [aborts |-> MaxAborts, retries |-> MaxRetries, pauses |-> MaxPauses]
      /\ Closed \in Txn
  BY Zenon DEF Init, Closed, Txn
<1>2. \A x \in Txns : /\ txn[x] = Closed /\ txn[x].step = "closed" /\ txn[x].job = "same"
                      /\ \A d \in Domains : txn[x].writes[d] = "same"
  BY <1>1, Zenon DEF Closed
<1>3. Unfinished(row)
  BY <1>1, StartedAssumption, Zenon DEF Unfinished, Pending
<1>4. TypeOK
  BY <1>1, BoundsAssumption, Zenon DEF TypeOK, RowStates
<1>5. StepsOK /\ LockOK
  BY <1>1, <1>2, Names DEF StepsOK, LockOK
<1>6. WritesOK /\ DecisionOK
  BY <1>1, <1>2, Names DEF WritesOK, DecisionOK
<1>7. CompletionDue
  BY <1>3, Zenon DEF CompletionDue
<1>8. UnretriedOK
  BY <1>1, <1>2, BoundsAssumption, Names DEF UnretriedOK
<1>9. QED
  BY <1>4, <1>5, <1>6, <1>7, <1>8 DEF CompletionInv

\* Every statement of every transaction keeps the invariant.
LEMMA CompletionInvStep == CompletionInv /\ [Next]_vars => CompletionInv'
<1> SUFFICES ASSUME CompletionInv, [Next]_vars PROVE CompletionInv'
  OBVIOUS
<1>1. ASSUME NEW d \in Domains, NEW res \in {"answer", "failed"}, FinishRow(d, res)
      PROVE  CompletionInv'
  BY <1>1, FinishRowKeeps, Zenon
<1>2. ASSUME NEW d \in Domains, ClaimRow(d) \/ RequeueRow(d)
      PROVE  CompletionInv'
  BY <1>2, RowMoves DEF ClaimRow, RequeueRow, Pending
<1>3. ASSUME NEW x \in Txns, LockJob(x) \/ CompleteJob(x) \/ Commit(x) \/ Abort(x)
      PROVE  CompletionInv'
  BY <1>3, LockJobKeeps, CompleteJobKeeps, CommitKeeps, AbortKeeps
<1>4. CASE SweepSelect \/ SweepUpdate
  BY <1>4, SweepSelectKeeps, SweepDecides, SweepGivesUp DEF SweepUpdate
<1>5. CASE RetryCheck \/ RetryRows \/ RetrySelect \/ RetryUpdate
  BY <1>5, RetryCheckKeeps, RetryRowsKeeps, RetrySelectKeeps, RetryUpdateKeeps
<1>6. CASE PauseJob \/ CancelJob
  <2>1. left \in [aborts : Nat, retries : Nat, pauses : Nat]
    BY DEF CompletionInv, TypeOK
  <2>2. /\ left' \in [aborts : Nat, retries : Nat, pauses : Nat]
        /\ left'.retries = left.retries
    BY <1>6, <2>1 DEF PauseJob, CancelJob
  <2>3. QED
    BY <1>6, <2>2, StatusMoves DEF PauseJob, CancelJob
<1>7. CASE ResumeJob
  BY <1>7, ResumeJobKeeps, SMTT(30)
<1>8. CASE UNCHANGED vars
  BY <1>8 DEF vars, CompletionInv, TypeOK, StepsOK, LockOK, WritesOK, DecisionOK,
              CompletionDue, UnretriedOK, View, Unfinished
<1>9. QED
  BY <1>1, <1>2, <1>3, <1>4, <1>5, <1>6, <1>7, <1>8 DEF Next

\* The inductive invariant holds in every reachable state.
THEOREM CompletionInvariant == Spec => []CompletionInv
<1>1. QED
  BY CompletionInvInit, CompletionInvStep, PTL DEF Spec

\* Rows, lock and transactions keep their types.
THEOREM CompletionTypes == Spec => []TypeOK
<1>1. CompletionInv => TypeOK
  BY DEF CompletionInv
<1>2. QED
  BY <1>1, CompletionInvariant, PTL

\* complete_if_finished loses no completion: of the transactions that finish the
\* last domains, the one that commits last sees them all, whatever is rolled back,
\* paused, resumed or retried in between.
THEOREM NoCompletionIsLost == Spec => []NoLostCompletion
<1>1. CompletionInv => NoLostCompletion
  BY Names, Zenon DEF CompletionInv, CompletionDue, NoLostCompletion
<1>2. QED
  BY <1>1, CompletionInvariant, PTL

\* A job that was never retried is marked done only when nothing is left, by finish
\* and by the sweep, whose snapshot of the rows is older than its update.
THEOREM UnretriedCompletionIsRight == Spec => []UnretriedDoneMeansFinished
<1>1. CompletionInv => UnretriedDoneMeansFinished
  BY Zenon DEF CompletionInv, UnretriedOK, UnretriedDoneMeansFinished, DoneMeansFinished
<1>2. QED
  BY <1>1, CompletionInvariant, PTL

\* No statement brings a cancelled job back: a commit that sets the status was
\* decided on while the job's row, which it has had since, was not cancelled.
THEOREM CancelledIsNeverOverwritten == Spec => CancelledStays
<1>1. CompletionInv /\ [Next]_vars => [status = "cancelled" => status' = "cancelled"]_vars
  <2> SUFFICES ASSUME CompletionInv, Next, status = "cancelled"
               PROVE  status' = "cancelled"
    BY Zenon DEF vars
  <2>1. ASSUME NEW x \in Txns, Commit(x) PROVE status' = status
    <3>1. txn[x].job = "same"
      BY Names, Zenon DEF CompletionInv, DecisionOK, Active, TypeOK, Txn
    <3>2. QED
      BY <2>1, <3>1, Zenon DEF Commit
  <2>2. QED
    BY <2>1, Zenon DEF Next, FinishRow, ClaimRow, RequeueRow, LockJob, CompleteJob, Abort, SweepSelect,
                SweepUpdate, RetryCheck, RetryRows, RetrySelect, RetryUpdate, PauseJob,
                CancelJob, ResumeJob, Active
<1>2. QED
  BY <1>1, CompletionInvariant, PTL DEF Spec, CancelledStays

-----------------------------------------------------------------------------
(* Until its first retry the job lives as JobLifecycle says.               *)

\* What the job's owner may see of a step.
Seen == Lifecycle!Next \/ UNCHANGED Lifecycle!view

\* A step that commits nothing but moves between queued and running is not seen.
LEMMA UnseenStep ==
  ASSUME status' = status,
         \A d \in Domains : row'[d] = row[d] \/ (row[d] \in Pending /\ row'[d] \in Pending)
  PROVE  Seen
<1>1. \A r \in {"job"} \X Domains : r[2] \in Domains
  OBVIOUS
<1>2. Outcome' = Outcome
  BY <1>1 DEF Outcome
<1>3. QED
  BY <1>2 DEF Seen, Lifecycle!view

\* A domain is pending for the owner while its row is queued or running.
LEMMA PendingIs ==
  ASSUME NEW w \in [Domains -> RowStates], NEW o,
         o = [r \in {"job"} \X Domains |-> IF w[r[2]] \in Pending THEN "pending" ELSE w[r[2]]]
  PROVE  Lifecycle!Pending(o, "job") <=> Unfinished(w)
<1>1. \A d \in Domains : o[<<"job", d>>] = "pending" <=> w[d] \in Pending
  BY DEF RowStates, Pending
<1>2. QED
  BY <1>1, Zenon DEF Lifecycle!Pending, Unfinished

\* Before the first retry a commit completes the job when nothing is left in the rows
\* it commits, and only then.
LEMMA CommitDecision ==
  ASSUME CompletionInv, left.retries = MaxRetries, NEW x \in Txns, Commit(x)
  PROVE  status' = IF status \in Active /\ ~Unfinished(row') THEN "done" ELSE status
<1>0. TypeOK /\ StepsOK /\ LockOK /\ DecisionOK /\ UnretriedOK
  BY DEF CompletionInv
<1>1. /\ txn[x].step = "commit" /\ row' = View(x)
      /\ status' = IF txn[x].job = "same" THEN status ELSE txn[x].job
  BY DEF Commit
<1>2. x # RetryTxn /\ txn[x].job \in {"same", "done"}
  BY <1>0, <1>1, Names DEF UnretriedOK, DecisionOK, TypeOK, Txn
<1>3. CASE txn[x].job = "done"
  BY <1>0, <1>1, <1>2, <1>3 DEF DecisionOK, UnretriedOK
<1>4. CASE txn[x].job = "same"
  <2>1. x \in Completers
    BY <1>0, <1>1, <1>2, <1>4, Names, Zenon DEF LockOK
  <2>2. QED
    BY <1>0, <1>1, <1>4, <2>1 DEF DecisionOK
<1>5. QED
  BY <1>2, <1>3, <1>4, Zenon

\* finish: the result and the completion it calls for are committed together.
LEMMA FinishIsSeen ==
  ASSUME CompletionInv, left.retries = MaxRetries, NEW d \in Domains, Commit(d)
  PROVE  Seen
<1> DEFINE r == <<"job", d>>
           res == row'[d]
<1>1. d \in Txns /\ TypeOK
  BY Names, Zenon DEF CompletionInv
<1>2. /\ row[d] = "running" /\ res \in {"answer", "failed"}
      /\ \A e \in Domains : e # d => row'[e] = row[e]
  BY <1>1, CommitRows
<1>3. row' \in [Domains -> RowStates]
  BY <1>1, ViewIs DEF Commit
<1>4. status' = IF status \in Active /\ ~Unfinished(row') THEN "done" ELSE status
  BY <1>1, CommitDecision
<1>5. Outcome[r] = "pending" /\ Outcome' = [Outcome EXCEPT ![r] = res]
  <2>1. Outcome[r] = "pending"
    BY <1>2 DEF Outcome, Pending
  <2>2. \A q \in {"job"} \X Domains : q[2] \in Domains /\ (q # r => q[2] # d)
    OBVIOUS
  <2>3. \A q \in {"job"} \X Domains : Outcome'[q] = IF q = r THEN res ELSE Outcome[q]
    BY <1>2, <2>2 DEF Outcome, Pending
  <2>4. QED
    BY <2>1, <2>3 DEF Outcome
<1>6. Lifecycle!Pending(Outcome', "job") <=> Unfinished(row')
  BY <1>3, PendingIs DEF Outcome
<1>7. [j \in {"job"} |-> status'] = Lifecycle!Settled(Outcome', {r[1]})
  BY <1>4, <1>6 DEF Lifecycle!Settled, Lifecycle!Active, Active
<1>8. Lifecycle!Record(r, res)
  BY <1>5, <1>7 DEF Lifecycle!Record
<1>9. r \in Lifecycle!Rows /\ res \in Lifecycle!Results
  BY <1>2 DEF Lifecycle!Rows, Lifecycle!Results
<1>10. QED
  BY <1>8, <1>9, Zenon DEF Seen, Lifecycle!Next

\* The completion after a resume, and the sweep's, change the status alone.
LEMMA CompletionIsSeen ==
  ASSUME CompletionInv, left.retries = MaxRetries, NEW x \in {ResumeTxn, SweepTxn}, Commit(x)
  PROVE  Seen
<1>1. x \in Txns /\ TypeOK
  BY Names, Zenon DEF CompletionInv
<1>2. \A d \in Domains : row'[d] = row[d]
  BY <1>1, CommitRows
<1>3. row \in [Domains -> RowStates] /\ row' \in [Domains -> RowStates]
  BY <1>1, ViewIs DEF Commit, TypeOK
<1>4. row' = row
  BY <1>2, <1>3
<1>5. status' = IF status \in Active /\ ~Unfinished(row) THEN "done" ELSE status
  BY <1>1, <1>4, CommitDecision
<1>6. Lifecycle!Pending(Outcome, "job") <=> Unfinished(row)
  BY <1>3, PendingIs DEF Outcome
<1>7. [j \in {"job"} |-> status'] = Lifecycle!Settled(Outcome, {"job"})
  BY <1>5, <1>6 DEF Lifecycle!Settled, Lifecycle!Active, Active
<1>8. Outcome' = Outcome
  BY <1>4, Zenon DEF Outcome
<1>9. Lifecycle!Complete({"job"})
  BY <1>7, <1>8 DEF Lifecycle!Complete
<1>10. QED
  BY <1>9, Zenon DEF Seen, Lifecycle!Next

\* pause, cancel and resume are seen as what they are.
LEMMA StatusIsSeen ==
  ASSUME PauseJob \/ CancelJob \/ ResumeJob
  PROVE  Seen
<1>1. Outcome' = Outcome
  BY DEF PauseJob, CancelJob, ResumeJob, Outcome
<1>2. CASE PauseJob
  <2>1. Lifecycle!Pause
    BY <1>1, <1>2 DEF PauseJob, Lifecycle!Pause, Lifecycle!Active, Active
  <2>2. QED
    BY <2>1, Zenon DEF Seen, Lifecycle!Next
<1>3. CASE CancelJob
  <2>1. Lifecycle!Cancel("job")
    BY <1>1, <1>3 DEF CancelJob, Lifecycle!Cancel, Lifecycle!Active, Active
  <2>2. QED
    BY <2>1, Zenon DEF Seen, Lifecycle!Next
<1>4. CASE ResumeJob
  <2>1. Lifecycle!Resume({"job"})
    BY <1>1, <1>4 DEF ResumeJob, Lifecycle!Resume
  <2>2. QED
    BY <2>1, Zenon DEF Seen, Lifecycle!Next
<1>5. QED
  BY <1>2, <1>3, <1>4

\* Statement by statement, with rollbacks, pauses and the sweep at any point, a job
\* that was not retried does what JobLifecycle says in whole transactions: this is
\* why JobQueue may take each transaction of finish, resume and sweep as one step.
THEOREM UnretriedJobImplementsLifecycle == Spec => UnretriedImplements
<1>1. CompletionInv /\ CompletionInv' /\ [Next]_vars
        => [left'.retries = MaxRetries => [Lifecycle!Next]_(Lifecycle!view)]_vars
  <2> SUFFICES ASSUME CompletionInv, CompletionInv', Next, left'.retries = MaxRetries
               PROVE  Seen
    BY Zenon DEF Seen
  <2>0. left.retries = MaxRetries
    <3>1. /\ left.retries \in Nat /\ left.retries <= MaxRetries
          /\ left \in [aborts : Nat, retries : Nat, pauses : Nat]
      BY DEF CompletionInv, TypeOK, UnretriedOK
    <3>2. left'.retries = left.retries \/ left'.retries = left.retries - 1
      BY <3>1 DEF Next, FinishRow, ClaimRow, RequeueRow, LockJob, CompleteJob, Commit, Abort,
                  SweepSelect, SweepUpdate, RetryCheck, RetryRows, RetrySelect, RetryUpdate,
                  PauseJob, CancelJob, ResumeJob
    <3>3. QED
      BY <3>1, <3>2, BoundsAssumption
  <2>1. ASSUME NEW d \in Domains, ClaimRow(d) \/ RequeueRow(d) PROVE Seen
    <3>1. /\ status' = status /\ row[d] \in Pending /\ row \in [Domains -> RowStates]
          /\ \E p \in Pending : row' = [row EXCEPT ![d] = p]
      BY <2>1 DEF ClaimRow, RequeueRow, Pending, CompletionInv, TypeOK
    <3>2. \A e \in Domains : row'[e] = row[e] \/ (row[e] \in Pending /\ row'[e] \in Pending)
      BY <3>1, Zenon
    <3>3. QED
      BY <3>1, <3>2, UnseenStep, Zenon
  <2>2. ASSUME NEW x \in Txns, Commit(x) PROVE Seen
    <3>1. x # RetryTxn
      BY <2>0, <2>2 DEF Commit, CompletionInv, UnretriedOK
    <3>2. x \in Domains \/ x \in {ResumeTxn, SweepTxn}
      BY <3>1, Zenon DEF Txns
    <3>3. QED
      BY <2>0, <2>2, <3>2, FinishIsSeen, CompletionIsSeen, Zenon
  <2>3. CASE UNCHANGED <<status, row>>
    <3>1. status' = status /\ \A d \in Domains : row'[d] = row[d]
      BY <2>3, Zenon
    <3>2. QED
      BY <3>1, UnseenStep, Zenon
  <2>4. CASE PauseJob \/ CancelJob \/ ResumeJob
    BY <2>4, StatusIsSeen, Zenon
  <2>5. QED
    BY <2>1, <2>2, <2>3, <2>4, Zenon DEF Next, FinishRow, LockJob, CompleteJob, Abort,
       SweepSelect, SweepUpdate, RetryCheck, RetryRows, RetrySelect, RetryUpdate
<1>2. QED
  BY <1>1, CompletionInvariant, CompletionInvStep, PTL DEF Spec, UnretriedImplements

-----------------------------------------------------------------------------
(* Admission                                                               *)

\* A job and a request, as the properties see them.
Job == [owner : People, key : STRING, print : Prints, byAdmin : BOOLEAN,
        status : {"queued", "running", "paused", "done", "cancelled"}, retried : BOOLEAN]
Places == {"auth", "insert", "slot", "parse", "lock", "replay", "webhook", "count", "create", "over"}
Answers == {"none", "rate_limited", "acting_user_revoked", "busy", "invalid", "replayed",
            "idempotency_conflict", "invalid_webhook_url", "job_limit_reached", "created"}
Place == [st : Places, answer : Answers, job : Nat]

\* The types.
AdmissionType ==
  /\ admWant \in Scenarios
  /\ admLock \in [People -> Requests \cup {Nobody}]
  /\ admReq \in [Requests -> Place]
  /\ admJobs \in Seq(Job)

\* The part of _create_job under the advisory lock, and what comes after _replay.
Locked == {"replay", "webhook", "count", "create"}
Replayed == {"webhook", "count", "create"}

\* Job j is what request r asks for.
Fits(r, j) ==
  /\ j \in DOMAIN admJobs
  /\ admJobs[j].owner = Person(r)
  /\ admJobs[j].key = admWant[r].key /\ admJobs[j].print = admWant[r].print

\* What holds of a request where it stands.
Placed(r) ==
  /\ admReq[r].st \in Locked => admLock[Person(r)] = r
  /\ admReq[r].st \in Replayed /\ admWant[r].key # NoIdem => WithKey(r) = {}
  /\ admReq[r].st = "create" /\ ~admWant[r].admin =>
       Cardinality(Counted(Person(r))) < MAX_ACTIVE_JOBS_PER_USER
  /\ admReq[r].job # NoJob => Fits(r, admReq[r].job)

\* One job per person and key.
OneJobPerKey ==
  \A i, j \in DOMAIN admJobs :
    admJobs[i].owner = admJobs[j].owner /\ admJobs[i].key = admJobs[j].key
      /\ admJobs[i].key # NoIdem => i = j

\* The inductive invariant of admission.
AdmissionInv ==
  /\ AdmissionType /\ OneJobPerKey /\ ActiveLimit
  /\ \A r \in Requests : Placed(r)

\* Requests are for people, with the fields of a request.
LEMMA WantTypes ==
  ASSUME AdmissionType, NEW r \in Requests
  PROVE  /\ Person(r) \in People /\ admWant[r].admin \in BOOLEAN
         /\ admWant[r].key \in STRING /\ admWant[r].print \in Prints
<1>1. admWant \in Scenarios /\ admWant[r] \in [person : STRING, admin : BOOLEAN, key : STRING,
                                               print : Prints, file : BOOLEAN]
  BY AdmissionAssumption, Zenon DEF AdmissionType
<1>2. Person(r) \in People
  BY <1>1 DEF Person, People
<1>3. QED
  BY <1>1, <1>2, Zenon

\* The jobs are finitely many, so the unfinished ones are too.
LEMMA CountedFinite ==
  ASSUME AdmissionType, NEW p
  PROVE  /\ DOMAIN admJobs = 1..Len(admJobs) /\ Len(admJobs) \in Nat
         /\ IsFiniteSet(Counted(p)) /\ Cardinality(Counted(p)) \in Nat
<1>1. DOMAIN admJobs = 1..Len(admJobs) /\ Len(admJobs) \in Nat
  BY DEF AdmissionType
<1>2. IsFiniteSet(DOMAIN admJobs)
  BY <1>1, FS_Interval
<1>3. Counted(p) \subseteq DOMAIN admJobs
  BY DEF Counted, UnfinishedJobs
<1>4. QED
  BY <1>1, <1>2, <1>3, FS_Subset, FS_CardinalityType

\* At first there are no jobs and no request holds a lock.
LEMMA AdmissionInvInit == AdmissionInit => AdmissionInv
<1> SUFFICES ASSUME AdmissionInit PROVE AdmissionInv
  OBVIOUS
<1>0. /\ admJobs = <<>> /\ admWant \in Scenarios
      /\ admLock = [p \in People |-> Nobody]
      /\ admReq = [r \in Requests |-> [st |-> "auth", answer |-> "none", job |-> NoJob]]
  BY Zenon DEF AdmissionInit
<1>1. AdmissionType
  <2>1. [st |-> "auth", answer |-> "none", job |-> NoJob] \in Place
    BY DEF Place, Places, Answers, NoJob
  <2>2. admReq \in [Requests -> Place]
    BY <1>0, <2>1, Zenon
  <2>3. admLock \in [People -> Requests \cup {Nobody}]
    BY <1>0
  <2>4. <<>> \in Seq(Job)
    OBVIOUS
  <2>5. QED
    BY <1>0, <2>2, <2>3, <2>4, Zenon DEF AdmissionType
<1>2. DOMAIN admJobs = {}
  <2>1. DOMAIN << >> = {}
    OBVIOUS
  <2>2. QED
    BY <1>0, <2>1
<1>3. ActiveLimit
  <2>1. \A p : Counted(p) = {}
    BY <1>2, Zenon DEF Counted, UnfinishedJobs
  <2>2. Cardinality({}) <= MAX_ACTIVE_JOBS_PER_USER
    BY FS_EmptySet, AdmissionAssumption
  <2>3. QED
    BY <2>1, <2>2, Zenon DEF ActiveLimit
<1>4. \A r \in Requests : Placed(r)
  BY <1>0, Zenon DEF Placed, Locked, Replayed, NoJob
<1>5. QED
  BY <1>1, <1>2, <1>3, <1>4, Zenon DEF AdmissionInv, OneJobPerKey

\* A step of request r that creates no job: where it stands is right, and the other
\* requests keep what they hold.
Moves(r) ==
  /\ UNCHANGED <<admWant, admJobs>>
  /\ admReq' \in [Requests -> Place]
  /\ admLock' \in [People -> Requests \cup {Nobody}]
  /\ \A q \in Requests \ {r} : /\ admReq'[q] = admReq[q]
                               /\ \A p \in People : admLock[p] = q => admLock'[p] = q
  /\ Placed(r)'

\* Such a step keeps the invariant.
LEMMA MovesKeep ==
  ASSUME AdmissionInv, NEW r \in Requests, Moves(r)
  PROVE  AdmissionInv'
<1>1. AdmissionType'
  BY Zenon DEF AdmissionInv, AdmissionType, Moves
<1>2. OneJobPerKey' /\ ActiveLimit'
  BY DEF AdmissionInv, OneJobPerKey, ActiveLimit, Counted, UnfinishedJobs, Moves
<1>3. ASSUME NEW q \in Requests PROVE Placed(q)'
  <2>1. CASE q = r
    BY <2>1, Zenon DEF Moves
  <2>2. CASE q # r
    <3>1. Person(q) \in People
      BY WantTypes DEF AdmissionInv
    <3>2. Placed(q)
      BY Zenon DEF AdmissionInv
    <3>3. /\ admReq'[q] = admReq[q] /\ admWant' = admWant /\ admJobs' = admJobs
          /\ admLock[Person(q)] = q => admLock'[Person(q)] = q
      BY <2>2, <3>1, Zenon DEF Moves
    <3>4. QED
      BY <3>2, <3>3, Zenon DEF Placed, Person, WithKey, Counted, UnfinishedJobs, Fits
  <2>3. QED
    BY <2>1, <2>2, Zenon
<1>4. QED
  BY <1>1, <1>2, <1>3, Zenon DEF AdmissionInv

\* An answer without a job, or with one that fits, is such a step.
LEMMA AnswerMoves ==
  ASSUME AdmissionInv, NEW r \in Requests, NEW a \in Answers, NEW j \in Nat,
         Answer(r, a, j), UNCHANGED <<admWant, admJobs>>, j = NoJob \/ Fits(r, j)
  PROVE  Moves(r)
<1>1. admReq' = [admReq EXCEPT ![r] = [st |-> "over", answer |-> a, job |-> j]]
  BY Zenon DEF Answer
<1>2. admLock' = [p \in People |-> IF admLock[p] = r THEN Nobody ELSE admLock[p]]
  BY Zenon DEF Answer
<1>3. [st |-> "over", answer |-> a, job |-> j] \in Place
  BY Zenon DEF Place, Places
<1>4. admReq' \in [Requests -> Place]
  BY <1>1, <1>3, Zenon DEF AdmissionInv, AdmissionType
<1>5. admLock' \in [People -> Requests \cup {Nobody}]
  BY <1>2, Zenon DEF AdmissionInv, AdmissionType
<1>6. \A q \in Requests \ {r} : admReq'[q] = admReq[q]
  BY <1>1, Zenon DEF AdmissionInv, AdmissionType
<1>7. \A q \in Requests \ {r} : \A p \in People : admLock[p] = q => admLock'[p] = q
  BY <1>2, Zenon
<1>8. admReq'[r] = [st |-> "over", answer |-> a, job |-> j]
  BY <1>1, Zenon DEF AdmissionInv, AdmissionType
<1>9. Placed(r)'
  <2>1. admReq'[r].st = "over" /\ admReq'[r].job = j
    BY <1>8, SMTT(30)
  <2>2. j # NoJob => Fits(r, j)'
    BY Zenon DEF Fits, Person
  <2>3. QED
    BY <2>1, <2>2, Zenon DEF Placed, Locked, Replayed
<1>10. QED
  BY <1>4, <1>5, <1>6, <1>7, <1>9, Zenon DEF Moves

\* So is going on to a place that is right for the request.
LEMMA GoMoves ==
  ASSUME AdmissionInv, NEW r \in Requests, NEW s \in Places, Go(r, s),
         UNCHANGED <<admWant, admJobs, admLock>>,
         s \in Locked => admLock[Person(r)] = r,
         s \in Replayed /\ admWant[r].key # NoIdem => WithKey(r) = {},
         s = "create" /\ ~admWant[r].admin =>
           Cardinality(Counted(Person(r))) < MAX_ACTIVE_JOBS_PER_USER
  PROVE  Moves(r)
<1>1. admReq \in [Requests -> Place] /\ admLock \in [People -> Requests \cup {Nobody}]
  BY DEF AdmissionInv, AdmissionType
<1>2. admReq' = [admReq EXCEPT ![r].st = s]
  BY DEF Go
<1>3. admReq' \in [Requests -> Place]
  BY <1>1, <1>2 DEF Place
<1>4. \A q \in Requests \ {r} : admReq'[q] = admReq[q]
  BY <1>1, <1>2
<1>5. admReq'[r].st = s /\ admReq'[r].job = admReq[r].job
  BY <1>1, <1>2 DEF Place
<1>6. Placed(r)'
  <2>1. admReq[r].job # NoJob => Fits(r, admReq[r].job)
    BY Zenon DEF AdmissionInv, Placed
  <2>2. QED
    BY <1>5, <2>1, Zenon DEF Placed, Person, WithKey, Counted, UnfinishedJobs, Fits
<1>7. QED
  BY <1>1, <1>3, <1>4, <1>6, Zenon DEF Moves

\* The steps of a request before the lock.
LEMMA EarlySteps ==
  ASSUME AdmissionInv, NEW r \in Requests, NEW b \in BOOLEAN,
         \/ AdminKey(r) \/ ActingPerson(r) \/ InsertPerson(r) \/ UploadSlot(r)
         \/ UploadBusy(r) \/ Authenticate(r, b) \/ Parse(r, b)
  PROVE  Moves(r)
<1>1. CASE \E s \in {"auth", "insert", "slot", "parse", "lock"} :
             Go(r, s) /\ UNCHANGED <<admWant, admJobs, admLock>>
  BY <1>1, GoMoves, Zenon DEF Places, Locked, Replayed
<1>2. CASE \E a \in {"rate_limited", "acting_user_revoked", "busy", "invalid"} :
             Answer(r, a, NoJob) /\ UNCHANGED <<admWant, admJobs>>
  BY <1>2, AnswerMoves DEF Answers, NoJob
<1>3. AfterAuth(r) \in {"slot", "parse"}
  BY Zenon DEF AfterAuth
<1>4. CASE AdminKey(r)
  BY <1>1, <1>3, <1>4 DEF AdminKey, Keep
<1>5. CASE ActingPerson(r)
  BY <1>1, <1>2, <1>5, Zenon DEF ActingPerson, Keep
<1>6. CASE InsertPerson(r)
  BY <1>1, <1>6, Zenon DEF InsertPerson, Keep
<1>7. CASE UploadSlot(r)
  BY <1>1, <1>7, Zenon DEF UploadSlot
<1>8. CASE UploadBusy(r)
  BY <1>2, <1>8, Zenon DEF UploadBusy
<1>9. CASE Authenticate(r, b)
  BY <1>1, <1>2, <1>3, <1>9, Zenon DEF Authenticate, Keep
<1>10. CASE Parse(r, b)
  BY <1>1, <1>2, <1>10 DEF Parse, Keep
<1>11. QED
  BY <1>4, <1>5, <1>6, <1>7, <1>8, <1>9, <1>10

\* pg_advisory_xact_lock waits until no other request of the person holds it.
LEMMA LockStep ==
  ASSUME AdmissionInv, NEW r \in Requests, AdvisoryLock(r)
  PROVE  Moves(r)
<1>1. admReq \in [Requests -> Place] /\ admLock \in [People -> Requests \cup {Nobody}]
  BY Zenon DEF AdmissionInv, AdmissionType
<1>2. Person(r) \in People
  BY WantTypes DEF AdmissionInv
<1>3. /\ admReq' = [admReq EXCEPT ![r].st = "replay"]
      /\ admLock' = [admLock EXCEPT ![Person(r)] = r] /\ admLock[Person(r)] = Nobody
      /\ admWant' = admWant /\ admJobs' = admJobs
  BY DEF AdvisoryLock, Go
<1>4. admReq' \in [Requests -> Place]
  BY <1>1, <1>3 DEF Place, Places
<1>5. admLock' \in [People -> Requests \cup {Nobody}]
  BY <1>1, <1>3, Zenon
<1>6. \A q \in Requests \ {r} : admReq'[q] = admReq[q]
  BY <1>1, <1>3
<1>7. \A q \in Requests \ {r} : \A p \in People : admLock[p] = q => admLock'[p] = q
  BY <1>1, <1>2, <1>3, AdmissionAssumption
<1>8. admReq'[r].st = "replay" /\ admReq'[r].job = admReq[r].job
  BY <1>1, <1>3, Zenon DEF Place
<1>9. Placed(r)'
  <2>1. admReq[r].job # NoJob => Fits(r, admReq[r].job)
    BY DEF AdmissionInv, Placed
  <2>2. admLock'[Person(r)] = r
    BY <1>1, <1>2, <1>3, Zenon
  <2>3. QED
    BY <1>3, <1>8, <2>1, <2>2, Zenon DEF Placed, Person, Fits, Replayed
<1>10. QED
  BY <1>3, <1>4, <1>5, <1>6, <1>7, <1>9, Zenon DEF Moves

\* The steps under the lock, up to the one that creates the job.
LEMMA LockedSteps ==
  ASSUME AdmissionInv, NEW r \in Requests, NEW b \in BOOLEAN,
         Replay(r) \/ ValidateWebhook(r, b) \/ CountJobs(r)
  PROVE  Moves(r)
<1>1. /\ admReq[r].st \in Locked => admLock[Person(r)] = r
      /\ admReq[r].st \in Replayed /\ admWant[r].key # NoIdem => WithKey(r) = {}
  BY Zenon DEF AdmissionInv, Placed
<1>2. CASE Replay(r)
  <2>1. UNCHANGED <<admWant, admJobs>> /\ admReq[r].st = "replay"
    BY <1>2, Zenon DEF Replay, Stands
  <2>2. CASE admWant[r].key = NoIdem \/ WithKey(r) = {}
    <3>1. Go(r, "webhook") /\ UNCHANGED admLock
      BY <1>2, <2>2, Zenon DEF Replay, Keep
    <3>2. QED
      BY <1>1, <2>1, <2>2, <3>1, GoMoves, Zenon DEF Places, Locked, Replayed
  <2>3. CASE ~(admWant[r].key = NoIdem \/ WithKey(r) = {})
    <3> DEFINE j == CHOOSE i \in WithKey(r) : TRUE
    <3>1. j \in WithKey(r)
      BY <2>3
    <3>2. IF admJobs[j].print \in {NoPrint, admWant[r].print} THEN Answer(r, "replayed", j)
          ELSE Answer(r, "idempotency_conflict", NoJob)
      BY <1>2, <2>3, Zenon DEF Replay
    <3> HIDE DEF j
    <3>0. admJobs[j].print # NoPrint
      <4>1. admJobs[j] \in Job
        BY <3>1 DEF WithKey, AdmissionInv, AdmissionType
      <4>2. QED
        BY <4>1, Zenon DEF Job, Prints
    <3>3. j \in Nat /\ (admJobs[j].print = admWant[r].print => Fits(r, j))
      BY <3>1, CountedFinite DEF WithKey, Fits, AdmissionInv
    <3>4. QED
      BY <2>1, <3>0, <3>2, <3>3, AnswerMoves DEF Answers, NoJob
  <2>4. QED
    BY <2>2, <2>3
<1>3. CASE ValidateWebhook(r, b)
  <2>1. UNCHANGED <<admWant, admJobs>> /\ admReq[r].st = "webhook"
    BY <1>3, Zenon DEF ValidateWebhook, Stands
  <2>2. CASE Go(r, "count") /\ UNCHANGED admLock
    BY <1>1, <2>1, <2>2, GoMoves, Zenon DEF Places, Locked, Replayed
  <2>3. CASE Answer(r, "invalid_webhook_url", NoJob)
    BY <2>1, <2>3, AnswerMoves, Zenon DEF Answers, NoJob
  <2>4. QED
    BY <1>3, <2>2, <2>3 DEF ValidateWebhook, Keep
<1>4. CASE CountJobs(r)
  <2>1. UNCHANGED <<admWant, admJobs>> /\ admReq[r].st = "count"
    BY <1>4, Zenon DEF CountJobs, Stands
  <2>2. CASE Answer(r, "job_limit_reached", NoJob)
    BY <2>1, <2>2, AnswerMoves, SMTT(30) DEF Answers, NoJob
  <2>3. CASE /\ Go(r, "create") /\ UNCHANGED admLock
             /\ ~(~admWant[r].admin
                   /\ Cardinality(UnfinishedJobs(Person(r))) >= MAX_ACTIVE_JOBS_PER_USER)
    <3>1. Cardinality(Counted(Person(r))) <= Cardinality(UnfinishedJobs(Person(r)))
          /\ Cardinality(UnfinishedJobs(Person(r))) \in Nat
          /\ Cardinality(Counted(Person(r))) \in Nat
      <4>1. IsFiniteSet(DOMAIN admJobs)
        BY CountedFinite, FS_Interval DEF AdmissionInv
      <4>2. UnfinishedJobs(Person(r)) \subseteq DOMAIN admJobs
            /\ Counted(Person(r)) \subseteq UnfinishedJobs(Person(r))
        BY Zenon DEF UnfinishedJobs, Counted
      <4>3. IsFiniteSet(UnfinishedJobs(Person(r)))
        BY <4>1, <4>2, FS_Subset, Zenon
      <4>4. QED
        BY <4>2, <4>3, FS_Subset, FS_CardinalityType, Zenon
    <3>2. ~admWant[r].admin => Cardinality(Counted(Person(r))) < MAX_ACTIVE_JOBS_PER_USER
      BY <2>3, <3>1, AdmissionAssumption
    <3>3. QED
      BY <1>1, <2>1, <2>3, <3>2, GoMoves, Zenon DEF Places, Locked, Replayed
  <2>4. QED
    BY <1>4, <2>2, <2>3, Zenon DEF CountJobs, Keep
<1>5. QED
  BY <1>2, <1>3, <1>4, Zenon

\* create_job: the lock has kept everyone else of the person away since _replay
\* and since the count.
LEMMA CreateKeeps ==
  ASSUME AdmissionInv, NEW r \in Requests, NEW s \in {"queued", "done"}, CreateJob(r, s)
  PROVE  AdmissionInv'
<1> DEFINE n == Len(admJobs) + 1
           new == [owner |-> Person(r), key |-> admWant[r].key, print |-> admWant[r].print,
                   byAdmin |-> admWant[r].admin, status |-> s, retried |-> FALSE]
<1>1. /\ admReq[r].st = "create" /\ admLock[Person(r)] = r
      /\ admWant[r].key # NoIdem => WithKey(r) = {}
      /\ ~admWant[r].admin => Cardinality(Counted(Person(r))) < MAX_ACTIVE_JOBS_PER_USER
  BY DEF AdmissionInv, Placed, Locked, Replayed, CreateJob, Stands
<1>2. /\ Answer(r, "created", n) /\ admJobs' = Append(admJobs, new)
      /\ admWant' = admWant
  BY <1>1, Zenon DEF CreateJob
<1>3. /\ AdmissionType /\ Person(r) \in People /\ admWant[r].admin \in BOOLEAN
      /\ admWant[r].key \in STRING /\ admWant[r].print \in Prints
  BY WantTypes, Zenon DEF AdmissionInv
<1>4. /\ new \in Job /\ admJobs \in Seq(Job) /\ n \in Nat /\ n # NoJob
      /\ DOMAIN admJobs = 1..Len(admJobs) /\ Len(admJobs) \in Nat
  BY <1>3 DEF AdmissionType, Job, NoJob
<1>5. /\ new.owner = Person(r) /\ new.key = admWant[r].key /\ new.print = admWant[r].print
      /\ new.byAdmin = admWant[r].admin
  BY Zenon
<1> HIDE DEF new
<1>6. /\ admJobs' \in Seq(Job) /\ DOMAIN admJobs' = DOMAIN admJobs \cup {n}
      /\ admJobs'[n] = new /\ \A j \in DOMAIN admJobs : admJobs'[j] = admJobs[j]
      /\ n \notin DOMAIN admJobs
  BY <1>2, <1>4, SMTT(30)
<1>7. /\ admReq' = [admReq EXCEPT ![r] = [st |-> "over", answer |-> "created", job |-> n]]
      /\ admLock' = [p \in People |-> IF admLock[p] = r THEN Nobody ELSE admLock[p]]
  BY <1>2, Zenon DEF Answer
<1>8. AdmissionType'
  <2>1. [st |-> "over", answer |-> "created", job |-> n] \in Place
    BY <1>4, Zenon DEF Place, Places, Answers
  <2>2. admReq' \in [Requests -> Place]
    BY <1>3, <1>7, <2>1, Zenon DEF AdmissionType
  <2>3. admLock' \in [People -> Requests \cup {Nobody}]
    BY <1>3, <1>7, Zenon DEF AdmissionType
  <2>4. QED
    BY <1>2, <1>3, <1>6, <2>2, <2>3, Zenon DEF AdmissionType
<1>9. OneJobPerKey'
  <2> SUFFICES ASSUME NEW i \in DOMAIN admJobs', NEW j \in DOMAIN admJobs',
                      admJobs'[i].owner = admJobs'[j].owner,
                      admJobs'[i].key = admJobs'[j].key, admJobs'[i].key # NoIdem
               PROVE  i = j
    BY Zenon DEF OneJobPerKey
  <2>1. CASE i \in DOMAIN admJobs /\ j \in DOMAIN admJobs
    BY <1>6, <2>1, Zenon DEF AdmissionInv, OneJobPerKey
  <2>2. ASSUME NEW k \in DOMAIN admJobs, admJobs[k].owner = new.owner,
               admJobs[k].key = new.key, new.key # NoIdem
        PROVE  FALSE
    BY <1>1, <1>5, <2>2, Zenon DEF WithKey
  <2>3. QED
    BY <1>6, <2>1, <2>2, Zenon
<1>10. ASSUME NEW p \in People
       PROVE  /\ p # Person(r) \/ admWant[r].admin => Counted(p)' = Counted(p)
              /\ Counted(p)' \subseteq Counted(p) \cup {n}
  BY <1>5, <1>6, Zenon DEF Counted, UnfinishedJobs
<1>11. ActiveLimit'
  <2> SUFFICES ASSUME NEW p \in People PROVE Cardinality(Counted(p)') <= MAX_ACTIVE_JOBS_PER_USER
    BY Zenon DEF ActiveLimit
  <2>1. Cardinality(Counted(p)) <= MAX_ACTIVE_JOBS_PER_USER
    BY Zenon DEF AdmissionInv, ActiveLimit
  <2>2. CASE p # Person(r) \/ admWant[r].admin
    BY <1>10, <2>1, <2>2, Zenon
  <2>3. CASE p = Person(r) /\ ~admWant[r].admin
    <3>1. Cardinality(Counted(p)) + 1 <= MAX_ACTIVE_JOBS_PER_USER
          /\ IsFiniteSet(Counted(p)) /\ Cardinality(Counted(p)) \in Nat
      BY <1>1, <1>3, <2>3, CountedFinite, AdmissionAssumption, SMTT(30)
    <3> DEFINE C == Counted(p) \cup {n}
    <3>2. IsFiniteSet(C) /\ (Cardinality(C) = Cardinality(Counted(p))
                              \/ Cardinality(C) = Cardinality(Counted(p)) + 1)
      BY <3>1, FS_AddElement, Zenon
    <3>3. Cardinality(Counted(p)') <= Cardinality(C) /\ Cardinality(Counted(p)') \in Nat
      BY <1>10, <3>2, FS_Subset, FS_CardinalityType, Zenon
    <3> HIDE DEF C
    <3>4. QED
      BY <3>1, <3>2, <3>3, AdmissionAssumption, SMTT(30)
  <2>4. QED
    BY <2>2, <2>3
<1>12. ASSUME NEW q \in Requests PROVE Placed(q)'
  <2>1. CASE q = r
    <3>1. admReq'[q].st = "over" /\ admReq'[q].job = n
      BY <1>3, <1>7, <2>1, Zenon DEF AdmissionType
    <3>2. /\ n \in DOMAIN admJobs' /\ admJobs'[n].owner = Person(q)'
          /\ admJobs'[n].key = admWant'[q].key /\ admJobs'[n].print = admWant'[q].print
      BY <1>2, <1>5, <1>6, <2>1 DEF Person
    <3>3. QED
      BY <3>1, <3>2, Zenon DEF Placed, Locked, Replayed, Fits
  <2>2. CASE q # r
    <3>1. admReq'[q] = admReq[q] /\ Person(q) \in People /\ Person(q)' = Person(q) /\ Placed(q)
      <4>1. admReq'[q] = admReq[q]
        BY <1>3, <1>7, <2>2, Zenon DEF AdmissionType
      <4>2. Person(q) \in People
        BY <1>3, WantTypes, Zenon
      <4>3. Person(q)' = Person(q)
        BY <1>2 DEF Person
      <4>4. QED
        BY <4>1, <4>2, <4>3, Zenon DEF AdmissionInv
    <3>2. ASSUME admReq[q].job # NoJob PROVE Fits(q, admReq[q].job)'
      <4> DEFINE j == admReq[q].job
      <4>1. j \in DOMAIN admJobs /\ Fits(q, j)
        BY <3>1, <3>2, ZenonT(30) DEF Placed, Fits
      <4>2. admJobs'[j] = admJobs[j] /\ j \in DOMAIN admJobs'
        BY <1>6, <4>1
      <4>3. QED
        BY <1>2, <3>1, <4>1, <4>2, Zenon DEF Fits
    <3>3. CASE admReq[q].st \in Locked
      <4>1. admLock[Person(q)] = q /\ Person(q) # Person(r)
        BY <1>1, <2>2, <3>1, <3>3, Zenon DEF Placed
      <4>2. admLock'[Person(q)] = q
        BY <1>7, <2>2, <3>1, <4>1, Zenon
      <4>3. Counted(Person(q))' = Counted(Person(q))
        BY <1>10, <3>1, <4>1
      <4>4. WithKey(q)' = WithKey(q)
        BY <1>2, <1>5, <1>6, <3>1, <4>1, Zenon DEF WithKey
      <4>5. QED
        BY <1>2, <3>1, <3>2, <4>2, <4>3, <4>4, Zenon DEF Placed
    <3>4. CASE admReq[q].st \notin Locked
      BY <3>1, <3>2, <3>4, Zenon DEF Placed, Locked, Replayed
    <3>5. QED
      BY <3>3, <3>4, Zenon
  <2>3. QED
    BY <2>1, <2>2
<1>13. QED
  BY <1>8, <1>9, <1>11, <1>12, Zenon DEF AdmissionInv

\* What happens to a job afterwards never makes it count again.
LEMMA JobStepKeeps ==
  ASSUME AdmissionInv, NEW j \in DOMAIN admJobs, JobMoves(j)
  PROVE  AdmissionInv'
<1>1. PICK from \in SUBSET {"queued", "running", "paused", "done"},
           to \in {"running", "paused", "done", "cancelled"} :
        /\ JobStep(j, from, to)
        /\ to \in ACTIVE_STATUSES => from \subseteq ACTIVE_STATUSES \/ "done" \in from
  BY DEF JobMoves, ACTIVE_STATUSES
<1>2. /\ admJobs[j].status \in from
      /\ admJobs' = [admJobs EXCEPT ![j].status = to, ![j].retried = @ \/ "done" \in from]
      /\ admWant' = admWant /\ admReq' = admReq /\ admLock' = admLock
  BY <1>1, Zenon DEF JobStep
<1>3. AdmissionType /\ admJobs \in Seq(Job) /\ admJobs[j] \in Job
  BY DEF AdmissionInv, AdmissionType
<1>4. /\ admJobs' \in Seq(Job) /\ DOMAIN admJobs' = DOMAIN admJobs
      /\ \A i \in DOMAIN admJobs : i # j => admJobs'[i] = admJobs[i]
      /\ admJobs'[j].owner = admJobs[j].owner /\ admJobs'[j].key = admJobs[j].key
      /\ admJobs'[j].print = admJobs[j].print /\ admJobs'[j].byAdmin = admJobs[j].byAdmin
      /\ admJobs'[j].status = to
      /\ admJobs'[j].retried = (admJobs[j].retried \/ "done" \in from)
  <2> DEFINE new == [admJobs[j] EXCEPT !.status = to, !.retried = @ \/ "done" \in from]
  <2>1. admJobs' = [admJobs EXCEPT ![j] = new]
    BY <1>2, Zenon
  <2>2. /\ new \in Job /\ new.owner = admJobs[j].owner /\ new.key = admJobs[j].key
        /\ new.print = admJobs[j].print /\ new.byAdmin = admJobs[j].byAdmin
        /\ new.status = to /\ new.retried = (admJobs[j].retried \/ "done" \in from)
    BY <1>3, Zenon DEF Job
  <2> HIDE DEF new
  <2>3. QED
    BY <1>3, <2>1, <2>2
<1>5. \A p : Counted(p)' \subseteq Counted(p)
  BY <1>1, <1>2, <1>4, Zenon DEF Counted, UnfinishedJobs, ACTIVE_STATUSES
<1>6. \A p \in People : Cardinality(Counted(p)') <= Cardinality(Counted(p))
                        /\ Cardinality(Counted(p)) \in Nat /\ Cardinality(Counted(p)') \in Nat
  BY <1>3, <1>5, CountedFinite, FS_Subset, FS_CardinalityType
<1>7. AdmissionType'
  BY <1>2, <1>3, <1>4, Zenon DEF AdmissionType
<1>8. OneJobPerKey'
  BY <1>4 DEF AdmissionInv, OneJobPerKey
<1>9. ActiveLimit'
  BY <1>6, AdmissionAssumption DEF AdmissionInv, ActiveLimit
<1>10. ASSUME NEW q \in Requests PROVE Placed(q)'
  <2>1. Placed(q) /\ Person(q) \in People /\ Person(q)' = Person(q)
    BY <1>2, <1>3, WantTypes DEF AdmissionInv, Person
  <2>2. WithKey(q)' = WithKey(q)
    BY <1>2, <1>4, <2>1 DEF WithKey
  <2>3. \A i : Fits(q, i) => Fits(q, i)'
    BY <1>2, <1>4, <2>1, Zenon DEF Fits
  <2>4. Cardinality(Counted(Person(q))) < MAX_ACTIVE_JOBS_PER_USER
        => Cardinality(Counted(Person(q))') < MAX_ACTIVE_JOBS_PER_USER
    BY <1>6, <2>1, AdmissionAssumption
  <2>5. QED
    BY <1>2, <2>1, <2>2, <2>3, <2>4 DEF Placed
<1>11. QED
  BY <1>7, <1>8, <1>9, <1>10, Zenon DEF AdmissionInv

\* Every step keeps the invariant.
LEMMA AdmissionInvStep == AdmissionInv /\ [AdmissionNext]_admVars => AdmissionInv'
<1> SUFFICES ASSUME AdmissionInv, [AdmissionNext]_admVars PROVE AdmissionInv'
  OBVIOUS
<1>1. ASSUME NEW r \in Requests, RequestStep(r) PROVE AdmissionInv'
  <2>1. CASE \E s \in {"queued", "done"} : CreateJob(r, s)
    BY <2>1, CreateKeeps
  <2>2. CASE \E b \in BOOLEAN :
               \/ AdminKey(r) \/ ActingPerson(r) \/ InsertPerson(r) \/ UploadSlot(r)
               \/ UploadBusy(r) \/ Authenticate(r, b) \/ Parse(r, b)
    BY <2>2, EarlySteps, MovesKeep, Zenon
  <2>3. CASE AdvisoryLock(r)
    BY <2>3, LockStep, MovesKeep
  <2>4. CASE \E b \in BOOLEAN : Replay(r) \/ ValidateWebhook(r, b) \/ CountJobs(r)
    BY <2>4, LockedSteps, MovesKeep
  <2>5. QED
    BY <1>1, <2>1, <2>2, <2>3, <2>4 DEF RequestStep
<1>2. ASSUME NEW j \in DOMAIN admJobs, JobMoves(j) PROVE AdmissionInv'
  BY <1>2, JobStepKeeps
<1>3. CASE UNCHANGED <<admWant, admLock, admReq, admJobs>>
  <2>1. AdmissionType' /\ OneJobPerKey'
    BY <1>3, Zenon DEF AdmissionInv, AdmissionType, OneJobPerKey
  <2>2. ActiveLimit'
    BY <1>3, Zenon DEF AdmissionInv, ActiveLimit, Counted, UnfinishedJobs
  <2>3. ASSUME NEW q \in Requests PROVE Placed(q)'
    BY <1>3, Zenon DEF AdmissionInv, Placed, Person, WithKey, Counted, UnfinishedJobs, Fits
  <2>4. QED
    BY <2>1, <2>2, <2>3 DEF AdmissionInv
<1>4. ASSUME NEW p \in People, Revoke(p) PROVE AdmissionInv'
  BY <1>3, <1>4 DEF Revoke
<1>5. CASE UNCHANGED admVars
  BY <1>3, <1>5, SMTT(30) DEF admVars
<1>6. QED
  BY <1>1, <1>2, <1>4, <1>5, Zenon DEF AdmissionNext

\* Two jobs that fit two requests with the same key are one job.
LEMMA AdmissionInvAgrees == AdmissionInv => ReplaysAgree
<1> SUFFICES ASSUME AdmissionInv, NEW r \in Requests, NEW q \in Requests
             PROVE  /\ admReq[r].answer # "server_error"
                    /\ /\ admReq[r].job # NoJob /\ admReq[q].job # NoJob
                       /\ admWant[r].key # NoIdem
                       /\ admWant[r].key = admWant[q].key /\ Person(r) = Person(q)
                       => admReq[r].job = admReq[q].job /\ admWant[r].print = admWant[q].print
  BY Zenon DEF ReplaysAgree
<1>1. admReq[r].answer # "server_error"
  BY Zenon DEF AdmissionInv, AdmissionType, Place, Answers
<1>2. Placed(r) /\ Placed(q) /\ OneJobPerKey
  BY DEF AdmissionInv
<1>3. QED
  BY <1>1, <1>2, Zenon DEF Placed, Fits, OneJobPerKey

\* However requests overlap, one Idempotency-Key of a person stands for one job
\* with one content, and the unique index is never hit (_replay, the advisory lock).
THEOREM ReplaysAlwaysAgree == AdmissionSpec => []ReplaysAgree
<1>1. AdmissionInit => AdmissionInv
  BY AdmissionInvInit
<1>2. AdmissionInv /\ [AdmissionNext]_admVars => AdmissionInv'
  BY AdmissionInvStep
<1>3. AdmissionInv => ReplaysAgree
  BY AdmissionInvAgrees
<1>4. QED
  BY <1>1, <1>2, <1>3, PTL DEF AdmissionSpec

\* However requests overlap, they never leave a person with more unfinished jobs
\* than the limit, admins and retried jobs aside (_create_job).
THEOREM ActiveLimitIsKept == AdmissionSpec => []ActiveLimit
<1>1. AdmissionInit => AdmissionInv
  BY AdmissionInvInit
<1>2. AdmissionInv /\ [AdmissionNext]_admVars => AdmissionInv'
  BY AdmissionInvStep
<1>3. AdmissionInv => ActiveLimit
  BY DEF AdmissionInv
<1>4. QED
  BY <1>1, <1>2, <1>3, PTL DEF AdmissionSpec

=============================================================================
