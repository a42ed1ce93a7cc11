------------------------ MODULE ServiceSafetyProofs -------------------------
(***************************************************************************)
(* The safety properties of Service: that open transactions do not get in  *)
(* each other's way, and what follows from it.                             *)
(***************************************************************************)
EXTENDS ServiceTypeProofs

(***************************************************************************)
(* A step of one worker leaves the local variables of the others alone.    *)
(***************************************************************************)
SamePR(v) ==
  /\ pc'[v] = pc[v] /\ req'[v] = req[v] /\ reply'[v] = reply[v]
  /\ pr'[v] = pr[v] /\ fromTeam'[v] = fromTeam[v] /\ todo'[v] = todo[v]

SameTask(v) ==
  /\ at'[v] = at[v] /\ task'[v] = task[v] /\ answer'[v] = answer[v]
  /\ job'[v] = job[v]

\* Going on and answering touch the variables of the worker only.
LEMMA AnswerLocal ==
  ASSUME NEW w \in Workers, NEW v \in Workers \ {w}, Typed, NEW code,
         Answer(w, code)
  PROVE  SamePR(v)
  BY DEF SamePR, Answer, Typed, TypeOK, LocalsTypeOK

\* The next statement of a request,
LEMMA ContinueLocal ==
  ASSUME NEW w \in Workers, NEW v \in Workers \ {w}, Typed, NEW label,
         Continue(w, label),
         NEW x, pr' = pr \/ pr' = [pr EXCEPT ![w] = x],
         NEW y, fromTeam' = fromTeam \/ fromTeam' = [fromTeam EXCEPT ![w] = y],
         NEW z, todo' = todo \/ todo' = [todo EXCEPT ![w] = z]
  PROVE  SamePR(v)
  BY DEF SamePR, Continue, Typed, TypeOK, LocalsTypeOK

\* the answer to a task,
LEMMA FinishLocal ==
  ASSUME NEW w \in Workers, NEW v \in Workers \ {w}, TaskLocalsTypeOK,
         NEW code, Finish(w, code)
  PROVE  SameTask(v)
  BY DEF SameTask, Finish, TaskLocalsTypeOK

\* its next statement,
LEMMA ProceedLocal ==
  ASSUME NEW w \in Workers, NEW v \in Workers \ {w}, TaskLocalsTypeOK,
         NEW label, Proceed(w, label), NEW j, SetJob(w, j) \/ UNCHANGED job
  PROVE  SameTask(v)
  BY DEF SameTask, Proceed, SetJob, TaskLocalsTypeOK

\* and so every step of the pull request endpoints
LEMMA PRStepLocal ==
  ASSUME NEW w \in Workers, NEW v \in Workers \ {w}, Typed, WorkerStep(w)
  PROVE  SamePR(v)
<1>1. CASE Receive(w)
  BY <1>1 DEF Receive, SamePR, Typed, TypeOK, LocalsTypeOK
<1>2. CASE \E code : Answer(w, code)
  BY <1>2, AnswerLocal
<1>3. CASE Step(w) /\ ~(\E code : Answer(w, code))
  <2>1. \E label : Continue(w, label)
    BY <1>3
       DEF Step, CreateStep, ReassignStep, CheckPRExists, ReadAuthor,
           SelectReviewers, InsertPR, CommitPR, ReadHeader, ReadReviewers,
           SetMerged, ReadOldUser, PickReplacement, IssueDelete, LockRows,
           InsertRow, CommitReassign, BreakDeadlock, AnswerWritten
  <2>2. pr' = pr \/ \E x : pr' = [pr EXCEPT ![w] = x]
    <3>1. CASE ReadReviewers(w)
      <4>1. pr' = pr \/ pr' = [pr EXCEPT ![w].reviewers = reviewers[req[w].pr]]
        BY <1>3, <3>1 DEF ReadReviewers
      <4> QED BY <4>1
    <3>2. CASE ~ReadReviewers(w)
      BY <1>3, <3>2
         DEF Step, CreateStep, ReassignStep, CheckPRExists, ReadAuthor,
             SelectReviewers, InsertPR, CommitPR, ReadHeader,
             SetMerged, ReadOldUser, PickReplacement, IssueDelete, LockRows,
             InsertRow, CommitReassign, BreakDeadlock, AnswerWritten
    <3> QED BY <3>1, <3>2
  <2>3. fromTeam' = fromTeam \/ \E y : fromTeam' = [fromTeam EXCEPT ![w] = y]
    BY <1>3
       DEF Step, CreateStep, ReassignStep, CheckPRExists, ReadAuthor,
           SelectReviewers, InsertPR, CommitPR, ReadHeader, ReadReviewers,
           SetMerged, ReadOldUser, PickReplacement, IssueDelete, LockRows,
           InsertRow, CommitReassign, BreakDeadlock, AnswerWritten
  <2>4. todo' = todo \/ \E z : todo' = [todo EXCEPT ![w] = z]
    BY <1>3
       DEF Step, CreateStep, ReassignStep, CheckPRExists, ReadAuthor,
           SelectReviewers, InsertPR, CommitPR, ReadHeader, ReadReviewers,
           SetMerged, ReadOldUser, PickReplacement, IssueDelete, LockRows,
           InsertRow, CommitReassign, BreakDeadlock, AnswerWritten
  <2> QED BY <2>1, <2>2, <2>3, <2>4, ContinueLocal
<1> QED BY <1>1, <1>2, <1>3 DEF WorkerStep, Fail

\* and of the others.
LEMMA TaskStepLocal ==
  ASSUME NEW w \in Workers, NEW v \in Workers \ {w}, TaskLocalsTypeOK,
         TeamStep(w) \/ UserStep(w)
  PROVE  SameTask(v)
<1>1. CASE \E code : Finish(w, code)
  BY <1>1, FinishLocal
<1>2. CASE ~(\E code : Finish(w, code))
  <2>1. (\E label : Proceed(w, label)) /\ (UNCHANGED job \/ \E j : SetJob(w, j))
    BY <1>2
       DEF TeamStep, UserStep, AddStep, DeactivateStep, PickStep, CheckTeam,
           InsertTeam, CommitTeam, UpsertMember, FindTeam, ListMembers,
           TeamExists, ReadTargets, ReadAffected, ReadNextPR, ReadCurrent,
           PickFromTeam, ReadAuthorTeam, PickFromAuthorTeam, PickFromAll,
           Replace, Settle, DeleteCurrent, LockCurrent, InsertReplacement,
           CommitReplacements, IssueDeactivation, DeactivateMembers, SetFlag,
           ReadBack, FindUser, ListReviews, CountReviews, FinishWritten
  <2> QED BY <2>1, ProceedLocal
<1> QED BY <1>1, <1>2

\* So whatever one worker does, the others are where they were.
LEMMA ActionLocal ==
  ASSUME NEW w \in Workers, NEW v \in Workers \ {w}, ServiceTyped,
         ServiceAction(w)
  PROVE  SamePR(v) /\ SameTask(v)
<1>1. Typed /\ TaskLocalsTypeOK
  BY DEF ServiceTyped, ServiceTypeOK, TeamsTypeOK, TaskLocalsTypeOK, Typed
<1>2. UNCHANGED locals => SamePR(v)
  BY DEF locals, SamePR
<1>3. UNCHANGED teamVars \/ UNCHANGED taskLocals => SameTask(v)
  BY DEF teamVars, taskLocals, SameTask
<1>4. CASE ReceivePR(w)
  BY <1>1, <1>4, PRStepLocal
     DEF ReceivePR, WorkerStep, SameTask, TaskLocalsTypeOK
<1>5. CASE ReceiveTask(w) /\ UNCHANGED locals
  BY <1>1, <1>2, <1>5 DEF ReceiveTask, SameTask, TaskLocalsTypeOK
<1>6. CASE PRStep(w)
  BY <1>1, <1>3, <1>6, PRStepLocal DEF PRStep, WorkerStep
<1>7. CASE TaskStep(w)
  BY <1>1, <1>2, <1>7, TaskStepLocal DEF TaskStep
<1>8. CASE TaskFailure(w)
  BY <1>1, <1>2, <1>8, FinishLocal DEF TaskFailure, TaskFail
<1>9. CASE BreakTaskDeadlock(w)
  BY <1>1, <1>2, <1>3, <1>9, FinishLocal, AnswerLocal DEF BreakTaskDeadlock
<1> QED
  BY <1>4, <1>5, <1>6, <1>7, <1>8, <1>9 DEF ServiceAction, ReceiveAny
(***************************************************************************)
(* Isolation.  What a step may do to the pull request tables and the open  *)
(* transactions, and from which state of the transaction:                  *)
(***************************************************************************)
ReplacesRows(w) == tx[w].pr # None /\ tx[w].author = None

StoreStep(w) ==
  \/ UNCHANGED <<author, reviewers, tx>>
  \/ Rollback(w)
  \/ \E p \in PRs, a \in Users : InsertPullRequest(w, p, a)
  \/ /\ tx[w].pr # None /\ tx[w].author # None
     /\ \E R \in SUBSET Users : CommitPullRequest(w, R)
  \/ \E p \in PRs : PRExists(p) /\ StartDeleteReviewers(w, p)
  \/ /\ ReplacesRows(w) /\ tx[w].deleted = {} /\ tx[w].inserted = {}
     /\ FinishDeleteReviewers(w)
  \/ ReplacesRows(w) /\ \E u \in Users : InsertReviewer(w, u)
  \/ ReplacesRows(w) /\ CommitReviewers(w)

\* The pairs of transactions, and each of them, of Isolation.
Apart(v, w) ==
  tx[v].pr = tx[w].pr =>
    /\ (tx[v].deleted \cup tx[v].inserted)
         \cap (tx[w].deleted \cup tx[w].inserted) = {}
    /\ tx[v].author = None \/ tx[w].author = None

OnItsRows(w) ==
  tx[w].pr # None =>
    /\ tx[w].seen \cup tx[w].deleted \subseteq reviewers[tx[w].pr]
    /\ tx[w].inserted \cap reviewers[tx[w].pr] \subseteq tx[w].deleted
    /\ tx[w].author # None => ~PRExists(tx[w].pr)

\* Isolation, as something of each pair of workers and of each worker.
LEMMA IsolationParts ==
  Isolation <=>
    /\ \A v, w \in Workers : v # w => Apart(v, w)
    /\ \A w \in Workers : OnItsRows(w) /\ TxShape(w)
    /\ \A p \in PRs : ~PRExists(p) => reviewers[p] = {}
  BY DEF Isolation, TransactionsIsolated, Apart, OnItsRows

\* The same after a step in which only one transaction changes, for which it
\* is enough to look at that one.
LEMMA OneTransaction ==
  ASSUME NEW w \in Workers, StoreTypeOK, Isolation,
         UNCHANGED <<author, reviewers>>,
         NEW t, tx' = [tx EXCEPT ![w] = t],
         \A v \in Workers \ {w} : Apart(v, w)',
         OnItsRows(w)', TxShape(w)'
  PROVE  Isolation'
<1>1. \A v \in Workers \ {w} : tx'[v] = tx[v]
  BY DEF StoreTypeOK
<1>2. ASSUME NEW v \in Workers \ {w} PROVE OnItsRows(v)' /\ TxShape(v)'
  <2>1. OnItsRows(v) /\ TxShape(v) /\ tx'[v] = tx[v]
    BY <1>1, IsolationParts
  <2> QED BY <2>1 DEF OnItsRows, TxShape, PRExists
<1>3. ASSUME NEW v \in Workers, NEW x \in Workers, v # x PROVE Apart(v, x)'
  <2>1. CASE v # w /\ x # w
    BY <1>1, <1>3, <2>1, IsolationParts DEF Apart
  <2>2. CASE v = w \/ x = w
    BY <1>3, <2>2 DEF Apart
  <2> QED BY <2>1, <2>2
<1>4. \A p \in PRs : ~PRExists(p)' => reviewers'[p] = {}
  BY IsolationParts DEF PRExists
<1>5. \A x \in Workers : OnItsRows(x)' /\ TxShape(x)'
  BY <1>2
<1> QED
  BY <1>3, <1>4, <1>5
     DEF Isolation, TransactionsIsolated, Apart, OnItsRows
\* An aborted transaction is out of the way.
LEMMA RollbackIsolated ==
  ASSUME NEW w \in Workers, StoreTypeOK, Isolation, Rollback(w)
  PROVE  Isolation'
<1>1. tx' = [tx EXCEPT ![w] = NoTx] /\ UNCHANGED <<author, reviewers>>
  BY DEF Rollback, tables
<1>2. tx'[w] = NoTx /\ \A v \in Workers \ {w} : tx'[v] = tx[v]
  BY <1>1 DEF StoreTypeOK
<1>3. OnItsRows(w)' /\ TxShape(w)'
  BY <1>2, StoreAssumption DEF OnItsRows, TxShape, NoTx
<1>4. \A v \in Workers \ {w} : Apart(v, w)'
  BY <1>2 DEF Apart, NoTx
<1> QED BY <1>1, <1>3, <1>4, OneTransaction

\* The INSERT of a pull request waits for the others of it.
LEMMA InsertPRIsolated ==
  ASSUME NEW w \in Workers, NEW p \in PRs, NEW a \in Users, StoreTypeOK,
         Isolation, InsertPullRequest(w, p, a)
  PROVE  Isolation'
<1> DEFINE t == [NoTx EXCEPT !.pr = p, !.author = a]
<1>1. t.pr = p /\ t.author = a /\ t.seen = {} /\ t.deleted = {}
      /\ t.inserted = {}
  BY DEF NoTx
<1>2. tx' = [tx EXCEPT ![w] = t] /\ UNCHANGED <<author, reviewers>>
  BY DEF InsertPullRequest, tables
<1>3. ~PRExists(p) /\ \A v \in Workers \ {w} : tx[v].pr = p => tx[v].author = None
  BY DEF InsertPullRequest, OthersInsertingPR
<1> HIDE DEF t
<1>4. tx'[w] = t /\ \A v \in Workers \ {w} : tx'[v] = tx[v]
  BY <1>2 DEF StoreTypeOK
<1>5. OnItsRows(w)' /\ TxShape(w)'
  BY <1>1, <1>2, <1>3, <1>4, StoreAssumption DEF OnItsRows, TxShape, PRExists
<1>6. \A v \in Workers \ {w} : Apart(v, w)'
  BY <1>1, <1>3, <1>4 DEF Apart
<1> QED BY <1>2, <1>5, <1>6, OneTransaction

\* The DELETE, issued, owns no rows yet;
LEMMA DeleteIsolated ==
  ASSUME NEW w \in Workers, NEW p \in PRs, PRExists(p), StoreTypeOK,
         Isolation, StartDeleteReviewers(w, p)
  PROVE  Isolation'
<1> DEFINE t == [NoTx EXCEPT !.pr = p, !.seen = reviewers[p]]
<1>1. t.pr = p /\ t.author = None /\ t.seen = reviewers[p] /\ t.deleted = {}
      /\ t.inserted = {}
  BY DEF NoTx
<1>2. tx' = [tx EXCEPT ![w] = t] /\ UNCHANGED <<author, reviewers>>
  BY DEF StartDeleteReviewers, tables
<1> HIDE DEF t
<1>3. tx'[w] = t /\ \A v \in Workers \ {w} : tx'[v] = tx[v]
  BY <1>2 DEF StoreTypeOK
<1>4. OnItsRows(w)' /\ TxShape(w)'
  BY <1>1, <1>2, <1>3, StoreAssumption DEF OnItsRows, TxShape, PRExists
<1>5. \A v \in Workers \ {w} : Apart(v, w)'
  BY <1>1, <1>3 DEF Apart
<1> QED BY <1>2, <1>4, <1>5, OneTransaction

\* it gets those that nobody holds,
LEMMA LockIsolated ==
  ASSUME NEW w \in Workers, StoreTypeOK, Isolation, ReplacesRows(w),
         tx[w].deleted = {}, tx[w].inserted = {}, FinishDeleteReviewers(w)
  PROVE  Isolation'
<1> DEFINE t == [tx[w] EXCEPT !.deleted = tx[w].seen, !.seen = {}]
<1>1. tx[w] \in Transactions /\ tx \in [Workers -> Transactions]
  BY DEF StoreTypeOK
<1>2. t.pr = tx[w].pr /\ t.author = None /\ t.seen = {}
      /\ t.deleted = tx[w].seen /\ t.inserted = {}
  BY <1>1 DEF Transactions, ReplacesRows
<1>3. tx' = [tx EXCEPT ![w] = t] /\ UNCHANGED <<author, reviewers>>
  BY <1>1 DEF FinishDeleteReviewers, tables, Transactions
<1>4. \A v \in Workers \ {w} :
        tx[v].pr = tx[w].pr =>
          tx[w].seen \cap (tx[v].deleted \cup tx[v].inserted) = {}
  BY DEF FinishDeleteReviewers, Holders
<1> HIDE DEF t
<1>5. tx'[w] = t /\ \A v \in Workers \ {w} : tx'[v] = tx[v]
  BY <1>1, <1>3
<1>6. OnItsRows(w) /\ TxShape(w)
  BY IsolationParts
<1>7. OnItsRows(w)' /\ TxShape(w)'
  BY <1>2, <1>3, <1>5, <1>6 DEF OnItsRows, TxShape, PRExists, ReplacesRows
<1>8. \A v \in Workers \ {w} : Apart(v, w)'
  BY <1>2, <1>4, <1>5 DEF Apart
<1> QED BY <1>3, <1>7, <1>8, OneTransaction

\* and an INSERT one that nobody holds and that is not there any more.
LEMMA InsertIsolated ==
  ASSUME NEW w \in Workers, NEW u \in Users, StoreTypeOK, Isolation,
         ReplacesRows(w), InsertReviewer(w, u)
  PROVE  Isolation'
<1> DEFINE t == [tx[w] EXCEPT !.inserted = @ \cup {u}]
<1>1. tx[w] \in Transactions /\ tx \in [Workers -> Transactions]
  BY DEF StoreTypeOK
<1>2. t.pr = tx[w].pr /\ t.author = None /\ t.seen = tx[w].seen
      /\ t.deleted = tx[w].deleted /\ t.inserted = tx[w].inserted \cup {u}
  BY <1>1 DEF Transactions, ReplacesRows
<1>3. tx' = [tx EXCEPT ![w] = t] /\ UNCHANGED <<author, reviewers>>
  BY <1>1 DEF InsertReviewer, tables, Transactions
<1>4. \A v \in Workers \ {w} :
        tx[v].pr = tx[w].pr => u \notin tx[v].deleted \cup tx[v].inserted
  BY DEF InsertReviewer, Holders
<1>5. u \in reviewers[tx[w].pr] => u \in tx[w].deleted
  BY DEF InsertReviewer, DuplicateReviewer
<1> HIDE DEF t
<1>6. tx'[w] = t /\ \A v \in Workers \ {w} : tx'[v] = tx[v]
  BY <1>1, <1>3
<1>7. /\ OnItsRows(w) /\ TxShape(w)
      /\ \A v \in Workers \ {w} : Apart(v, w)
  BY IsolationParts
<1>8. OnItsRows(w)' /\ TxShape(w)'
  BY <1>2, <1>3, <1>5, <1>6, <1>7 DEF OnItsRows, TxShape, PRExists, ReplacesRows
<1>9. \A v \in Workers \ {w} : Apart(v, w)'
  BY <1>2, <1>4, <1>6, <1>7 DEF Apart
<1> QED BY <1>3, <1>8, <1>9, OneTransaction

\* The COMMIT of a pull request meets no other transaction on it.
LEMMA CommitPRIsolated ==
  ASSUME NEW w \in Workers, NEW R \in SUBSET Users, StoreTypeOK, Isolation,
         tx[w].pr # None, tx[w].author # None, CommitPullRequest(w, R)
  PROVE  Isolation'
<1> DEFINE p == tx[w].pr
<1>1. p \in PRs /\ tx \in [Workers -> Transactions]
  BY DEF StoreTypeOK, Transactions
<1>2. ~PRExists(p)
  BY IsolationParts DEF OnItsRows
<1>3. tx'[w] = NoTx /\ \A v \in Workers \ {w} : tx'[v] = tx[v]
  BY <1>1 DEF CommitPullRequest
<1>4. /\ author'[p] # None
      /\ \A q \in PRs \ {p} : author'[q] = author[q]
                              /\ reviewers'[q] = reviewers[q]
  BY <1>1 DEF CommitPullRequest, StoreTypeOK
<1>5. ASSUME NEW v \in Workers \ {w}
      PROVE  /\ tx[v].pr # p /\ tx[v].pr \in PRs \cup {None}
             /\ OnItsRows(v)' /\ TxShape(v)'
  <2>1. OnItsRows(v) /\ TxShape(v) /\ Apart(v, w)
    BY IsolationParts
  <2>2. tx[v].pr # p
    BY <1>2, <2>1 DEF Apart, TxShape
  <2>3. tx[v].pr \in PRs \cup {None}
    BY <1>1 DEF Transactions
  <2> HIDE DEF p
  <2> QED BY <1>3, <1>4, <2>1, <2>2, <2>3 DEF OnItsRows, TxShape, PRExists
<1>6. OnItsRows(w)' /\ TxShape(w)'
  BY <1>3 DEF OnItsRows, TxShape, NoTx
<1>7. ASSUME NEW v \in Workers, NEW x \in Workers, v # x PROVE Apart(v, x)'
  <2>1. CASE v # w /\ x # w
    BY <1>3, <1>7, <2>1, IsolationParts DEF Apart
  <2>2. CASE v = w \/ x = w
    BY <1>3, <1>7, <2>2 DEF Apart, NoTx
  <2> QED BY <2>1, <2>2
<1>8. ASSUME NEW q \in PRs, ~PRExists(q)' PROVE reviewers'[q] = {}
  BY <1>4, <1>8, IsolationParts DEF PRExists
<1>9. \A v \in Workers : OnItsRows(v)' /\ TxShape(v)'
  BY <1>5, <1>6
<1> QED
  BY <1>7, <1>8, <1>9 DEF Isolation, TransactionsIsolated, Apart, OnItsRows

\* What the COMMIT of a replacement does to the rows and to the others.
LEMMA CommitReviewersFacts ==
  ASSUME NEW w \in Workers, StoreTypeOK, tx[w].pr \in PRs, CommitReviewers(w)
  PROVE  /\ tx'[w] = NoTx /\ UNCHANGED author
         /\ reviewers'[tx[w].pr] =
              (reviewers[tx[w].pr] \ tx[w].deleted) \cup tx[w].inserted
         /\ \A q \in PRs \ {tx[w].pr} : reviewers'[q] = reviewers[q]
         /\ \A v \in Workers \ {w} :
              /\ tx'[v].pr = tx[v].pr /\ tx'[v].author = tx[v].author
              /\ tx'[v].deleted = tx[v].deleted
              /\ tx'[v].inserted = tx[v].inserted
              /\ tx'[v].seen = IF tx[v].pr = tx[w].pr
                               THEN tx[v].seen \ tx[w].deleted ELSE tx[v].seen
              /\ tx[v].pr # tx[w].pr => tx'[v] = tx[v]
<1>1. tx \in [Workers -> Transactions] /\ reviewers \in [PRs -> SUBSET Users]
  BY DEF StoreTypeOK
<1>2. tx'[w] = NoTx /\ UNCHANGED author
  BY DEF CommitReviewers
<1>3. /\ reviewers'[tx[w].pr] =
           (reviewers[tx[w].pr] \ tx[w].deleted) \cup tx[w].inserted
      /\ \A q \in PRs \ {tx[w].pr} : reviewers'[q] = reviewers[q]
  BY <1>1 DEF CommitReviewers
<1>4. ASSUME NEW v \in Workers \ {w}
      PROVE  /\ tx'[v].pr = tx[v].pr /\ tx'[v].author = tx[v].author
             /\ tx'[v].deleted = tx[v].deleted
             /\ tx'[v].inserted = tx[v].inserted
             /\ tx'[v].seen = IF tx[v].pr = tx[w].pr
                              THEN tx[v].seen \ tx[w].deleted ELSE tx[v].seen
             /\ tx[v].pr # tx[w].pr => tx'[v] = tx[v]
  <2>1. tx[v] \in Transactions
    BY <1>1
  <2>2. tx'[v] = IF tx[v].pr = tx[w].pr
                 THEN [tx[v] EXCEPT !.seen = @ \ tx[w].deleted] ELSE tx[v]
    BY DEF CommitReviewers
  <2> QED BY <2>1, <2>2 DEF Transactions
<1> QED BY <1>2, <1>3, <1>4

\* It removes only rows it owns and adds only rows that nobody else does.
LEMMA CommitReviewersIsolated ==
  ASSUME NEW w \in Workers, StoreTypeOK, Isolation, ReplacesRows(w),
         CommitReviewers(w)
  PROVE  Isolation'
<1> DEFINE p == tx[w].pr
<1>1. p \in PRs /\ p # None /\ PRExists(p)
  BY IsolationParts DEF StoreTypeOK, Transactions, ReplacesRows, TxShape
<1>2. OnItsRows(w)' /\ TxShape(w)'
  <2>1. tx'[w] = NoTx
    BY <1>1, CommitReviewersFacts
  <2> QED BY <2>1 DEF OnItsRows, TxShape, NoTx
<1>3. ASSUME NEW v \in Workers \ {w} PROVE OnItsRows(v)' /\ TxShape(v)'
  <2>1. OnItsRows(v) /\ TxShape(v) /\ Apart(v, w) /\ tx[v] \in Transactions
    BY IsolationParts DEF StoreTypeOK
  <2>2. CASE tx[v].pr = p
    <3>1. /\ tx'[v].pr = p /\ tx'[v].author = tx[v].author
          /\ tx'[v].deleted = tx[v].deleted /\ tx'[v].inserted = tx[v].inserted
          /\ tx'[v].seen = tx[v].seen \ tx[w].deleted
          /\ reviewers'[p] = (reviewers[p] \ tx[w].deleted) \cup tx[w].inserted
          /\ UNCHANGED author
      BY <1>1, <2>2, CommitReviewersFacts
    <3>2. tx[v].author = None
      BY <1>1, <2>1, <2>2 DEF OnItsRows
    <3>3. (tx[v].deleted \cup tx[v].inserted)
            \cap (tx[w].deleted \cup tx[w].inserted) = {}
      BY <2>1, <2>2 DEF Apart
    <3>4. /\ tx[v].seen \cup tx[v].deleted \subseteq reviewers[p]
          /\ tx[v].inserted \cap reviewers[p] \subseteq tx[v].deleted
      BY <1>1, <2>1, <2>2 DEF OnItsRows
    <3>5. TxShape(v)'
      BY <1>1, <3>1, <3>2 DEF TxShape, PRExists
    <3> HIDE DEF p
    <3>6. OnItsRows(v)'
      BY <3>1, <3>2, <3>3, <3>4 DEF OnItsRows
    <3> QED BY <3>5, <3>6
  <2>3. CASE tx[v].pr # p
    <3>1. tx'[v] = tx[v] /\ UNCHANGED author
      BY <1>1, <2>3, CommitReviewersFacts
    <3>2. tx[v].pr \in PRs => reviewers'[tx[v].pr] = reviewers[tx[v].pr]
      BY <1>1, <2>3, CommitReviewersFacts
    <3>3. tx[v].pr \in PRs \cup {None}
      BY <2>1 DEF Transactions
    <3> QED BY <2>1, <3>1, <3>2, <3>3 DEF OnItsRows, TxShape, PRExists
  <2> QED BY <2>2, <2>3
<1>4. ASSUME NEW v \in Workers, NEW x \in Workers, v # x PROVE Apart(v, x)'
  <2>1. CASE v # w /\ x # w
    <3>1. Apart(v, x)
      BY <1>4, IsolationParts
    <3>2. ASSUME NEW y \in Workers \ {w}
          PROVE  /\ tx'[y].pr = tx[y].pr /\ tx'[y].author = tx[y].author
                 /\ tx'[y].deleted = tx[y].deleted
                 /\ tx'[y].inserted = tx[y].inserted
      BY <1>1, CommitReviewersFacts
    <3> QED BY <2>1, <3>1, <3>2 DEF Apart
  <2>2. CASE v = w \/ x = w
    BY <1>1, <1>4, <2>2, CommitReviewersFacts DEF Apart, NoTx
  <2> QED BY <2>1, <2>2
<1>5. ASSUME NEW q \in PRs, ~PRExists(q)' PROVE reviewers'[q] = {}
  <2>1. q # p /\ reviewers[q] = {}
    BY <1>1, <1>5, CommitReviewersFacts, IsolationParts DEF PRExists
  <2> QED BY <1>1, <2>1, CommitReviewersFacts
<1>6. \A v \in Workers : OnItsRows(v)' /\ TxShape(v)'
  BY <1>2, <1>3
<1> QED
  BY <1>4, <1>5, <1>6 DEF Isolation, TransactionsIsolated, Apart, OnItsRows

\* Together:
LEMMA StoreStepIsolated ==
  ASSUME NEW w \in Workers, StoreTypeOK, Isolation, StoreStep(w)
  PROVE  Isolation'
<1>1. CASE UNCHANGED <<author, reviewers, tx>>
  BY <1>1 DEF Isolation, TransactionsIsolated, TxShape, PRExists
<1> QED
  BY <1>1, RollbackIsolated, InsertPRIsolated, DeleteIsolated, LockIsolated,
     InsertIsolated, CommitPRIsolated, CommitReviewersIsolated DEF StoreStep
-----------------------------------------------------------------------------
(***************************************************************************)
(* Every step of a worker is one of those, because its transaction and     *)
(* what it knows of its pull request are in phase with its statement.      *)
(***************************************************************************)
Own(w) == ServiceTxPhase(w) /\ KnownPRs(w) /\ Replaces(w)

\* A worker at a statement of the pull request endpoints.
LEMMA PRPhases ==
  ASSUME NEW w \in Workers, ServiceTyped, Own(w), pc[w] # "idle"
  PROVE  /\ at[w] = "idle" /\ TxPhase(w)
         /\ req[w].pr \in PRs /\ req[w].pr # None
         /\ pc[w] \in CreatePCs \cup ReassignPCs =>
              req[w].user \in Users /\ req[w].user # None
         /\ pc[w] \in {"reviewers", "setstatus"} \cup ReassignPCs =>
              PRExists(req[w].pr)
         /\ todo[w] \subseteq Users
<1>1. Typed /\ todo[w] \subseteq Users
  BY DEF ServiceTyped, ServiceTypeOK, Typed, TypeOK, LocalsTypeOK
<1>2. at[w] = "idle" /\ TxPhase(w)
  BY DEF ServiceTyped, TasksOK, TaskPhase, Own, ServiceTxPhase, OpenLabels
<1> QED BY <1>1, <1>2, TypedRequest, StoreAssumption DEF Own, KnownPRs

\* A worker that deactivates a team.
LEMMA TaskPhases ==
  ASSUME NEW w \in Workers, ServiceTyped, Own(w), at[w] # "idle"
  PROVE  /\ pc[w] = "idle"
         /\ job[w].prs \subseteq PRs /\ job[w].list \subseteq Users
         /\ at[w] \in WorkLabels =>
              job[w].pr \in PRs /\ job[w].pr # None /\ PRExists(job[w].pr)
         /\ at[w] \in OpenLabels =>
              tx[w].pr = job[w].pr /\ tx[w].author = None
         /\ at[w] \notin OpenLabels => tx[w] = NoTx
         /\ at[w] = "locking" => tx[w].deleted = {} /\ tx[w].inserted = {}
         /\ at[w] = "inserting" => tx[w].seen = {}
<1>1. pc[w] = "idle" /\ (at[w] \in WorkLabels => job[w].pr \in PRs)
  BY DEF ServiceTyped, TasksOK, TaskPhase
<1> QED
  BY <1>1, JobFacts, StoreAssumption
     DEF Own, ServiceTxPhase, KnownPRs, TxPhase, TxPCs

\* Each statement of the pull request endpoints is one of Store,
LEMMA PRStoreStep ==
  ASSUME NEW w \in Workers, ServiceTyped, Own(w), Step(w) \/ Fail(w)
  PROVE  StoreStep(w)
<1>1. pc[w] # "idle"
  BY StepsAreBusy
<1>2. CASE UNCHANGED <<tables, tx>> \/ Rollback(w)
  BY <1>2 DEF StoreStep, tables
<1>3. CASE InsertPR(w)
  BY <1>1, <1>2, <1>3, PRPhases DEF InsertPR, StoreStep, CreatePCs
<1>4. CASE CommitPR(w)
  <2>1. /\ pc[w] = "commitpr" /\ CommitPullRequest(w, todo[w])
        /\ pc[w] \in CreatePCs
    BY <1>4 DEF CommitPR, CreatePCs
  <2>2. tx[w].pr # None /\ tx[w].author # None /\ todo[w] \in SUBSET Users
    BY <1>1, <2>1, PRPhases DEF TxPhase
  <2> QED BY <2>1, <2>2 DEF StoreStep
<1>5. CASE SetMerged(w)
  BY <1>5 DEF SetMerged, UpdatePullRequestStatus, StoreStep
<1>6. CASE IssueDelete(w)
  <2>1. pc[w] \in ReassignPCs /\ StartDeleteReviewers(w, req[w].pr)
    BY <1>6 DEF IssueDelete, ReassignPCs
  <2> QED BY <1>1, <2>1, PRPhases DEF StoreStep
<1>7. CASE pc[w] \in {"locking", "inserting"}
  <2>1. ReplacesRows(w)
    BY <1>1, <1>7, PRPhases DEF TxPhase, ReplacesRows
  <2>2. pc[w] = "locking" => tx[w].deleted = {} /\ tx[w].inserted = {}
    BY <1>1, PRPhases DEF TxPhase
  <2>3. CASE LockRows(w)
    BY <2>1, <2>2, <2>3 DEF LockRows, StoreStep
  <2>4. CASE InsertRow(w) /\ ~Rollback(w)
    <3>1. PICK u \in NextRows(w) : InsertReviewer(w, u)
      BY <2>4 DEF InsertRow
    <3>2. u \in Users
      BY <1>1, <3>1, PRPhases DEF NextRows
    <3> QED BY <2>1, <3>1, <3>2 DEF StoreStep
  <2>5. CASE CommitReassign(w)
    BY <2>1, <2>5 DEF CommitReassign, StoreStep
  <2> QED
    BY <1>2, <1>7, <2>3, <2>4, <2>5
       DEF Step, CreateStep, ReassignStep, CheckPRExists, ReadAuthor,
           SelectReviewers, InsertPR, CommitPR, ReadHeader, ReadReviewers,
           SetMerged, ReadOldUser, PickReplacement, IssueDelete, InsertRow,
           BreakDeadlock, Fail
<1> QED
  BY <1>2, <1>3, <1>4, <1>5, <1>6, <1>7
     DEF Step, CreateStep, ReassignStep, CheckPRExists, ReadAuthor,
         SelectReviewers, ReadHeader, ReadReviewers, ReadOldUser,
         PickReplacement, LockRows, InsertRow, CommitReassign, BreakDeadlock,
         Fail

\* each of the other endpoints is,
LEMMA TaskStoreStep ==
  ASSUME NEW w \in Workers, ServiceTyped, Own(w), TeamStep(w) \/ UserStep(w)
  PROVE  StoreStep(w)
<1>1. CASE UNCHANGED <<prTables, tx>>
  BY <1>1 DEF StoreStep, prTables
<1>2. CASE Rollback(w)
  BY <1>2 DEF StoreStep
<1>3. CASE DeleteCurrent(w)
  <2>1. at[w] \in WorkLabels /\ at[w] # "idle"
        /\ StartDeleteReviewers(w, job[w].pr)
    BY <1>3 DEF DeleteCurrent, WorkLabels, PickLabels
  <2> QED BY <2>1, TaskPhases DEF StoreStep
<1>4. CASE at[w] \in OpenLabels
  <2>1. ReplacesRows(w) /\ job[w].list \subseteq Users
    BY <1>4, TaskPhases DEF OpenLabels, WorkLabels, ReplacesRows
  <2>2. at[w] = "locking" => tx[w].deleted = {} /\ tx[w].inserted = {}
    BY TaskPhases
  <2>3. CASE LockCurrent(w)
    BY <2>1, <2>2, <2>3 DEF LockCurrent, StoreStep
  <2>4. CASE InsertReplacement(w) /\ ~Rollback(w)
    BY <2>1, <2>4 DEF InsertReplacement, StoreStep
  <2>5. CASE CommitReplacements(w)
    BY <2>1, <2>5 DEF CommitReplacements, StoreStep
  <2>6. LockCurrent(w) \/ InsertReplacement(w) \/ CommitReplacements(w)
    BY <1>4
       DEF OpenLabels, TeamStep, UserStep, AddStep, DeactivateStep, PickStep,
           CheckTeam, InsertTeam, CommitTeam, UpsertMember, FindTeam,
           ListMembers, TeamExists, ReadTargets, ReadAffected, ReadNextPR,
           ReadCurrent, PickFromTeam, ReadAuthorTeam, PickFromAuthorTeam,
           PickFromAll, DeleteCurrent, IssueDeactivation, DeactivateMembers,
           SetFlag, ReadBack, FindUser, ListReviews, CountReviews
  <2> QED BY <1>2, <2>3, <2>4, <2>5, <2>6
<1>5. CASE ~DeleteCurrent(w) /\ at[w] \notin OpenLabels
  <2>1. ~LockCurrent(w) /\ ~InsertReplacement(w) /\ ~CommitReplacements(w)
    BY <1>5
       DEF LockCurrent, InsertReplacement, CommitReplacements, OpenLabels
  <2>2. KeepTables => UNCHANGED <<prTables, tx>>
    BY DEF KeepTables, tables, prTables
  <2>3. UNCHANGED <<tables, tx>> => UNCHANGED <<prTables, tx>>
    BY DEF tables, prTables
  <2>4. CASE SetFlag(w)
    BY <1>1, <2>3, <2>4 DEF SetFlag, UpdateUserIsActive
  <2>5. CASE CommitTeam(w) \/ UpsertMember(w) \/ DeactivateMembers(w)
    BY <1>1, <2>3, <2>5
       DEF CommitTeam, UpsertMember, DeactivateMembers, CreateOrUpdateUser,
           BulkDeactivateUsersByTeam
  <2> QED
    BY <1>1, <1>5, <2>1, <2>2, <2>4, <2>5
       DEF TeamStep, UserStep, AddStep, DeactivateStep, PickStep,
           CheckTeam, InsertTeam, FindTeam,
           ListMembers, TeamExists, ReadTargets, ReadAffected, ReadNextPR,
           ReadCurrent, PickFromTeam, ReadAuthorTeam, PickFromAuthorTeam,
           PickFromAll, IssueDeactivation, ReadBack, FindUser, ListReviews,
           CountReviews
<1> QED BY <1>3, <1>4, <1>5

\* and so every step of a worker is.
LEMMA ActionStoreStep ==
  ASSUME NEW w \in Workers, ServiceTyped, Own(w), ServiceAction(w)
  PROVE  StoreStep(w)
<1>1. CASE ReceiveAny(w)
  BY <1>1
     DEF ReceiveAny, ReceivePR, Receive, ReceiveTask, KeepTables, StoreStep,
         tables
<1>2. CASE PRStep(w)
  BY <1>2, PRStoreStep DEF PRStep
<1>3. CASE TaskStep(w)
  BY <1>3, TaskStoreStep DEF TaskStep
<1>4. CASE TaskFailure(w) \/ BreakTaskDeadlock(w)
  BY <1>4 DEF TaskFailure, TaskFail, BreakTaskDeadlock, StoreStep
<1> QED BY <1>1, <1>2, <1>3, <1>4 DEF ServiceAction

\* What such a step leaves of the transactions of others, and of the rows.
LEMMA StoreStepOthers ==
  ASSUME NEW w \in Workers, NEW v \in Workers \ {w}, StoreTypeOK, StoreStep(w)
  PROVE  \/ tx'[v] = tx[v]
         \/ /\ tx[v].pr # None
            /\ tx'[v].pr = tx[v].pr /\ tx'[v].author = tx[v].author
            /\ tx'[v].deleted = tx[v].deleted
            /\ tx'[v].inserted = tx[v].inserted
            /\ tx'[v].seen \subseteq tx[v].seen
<1>1. CASE ReplacesRows(w) /\ CommitReviewers(w)
  <2>1. tx[w].pr \in PRs /\ tx[w].pr # None
    BY <1>1 DEF ReplacesRows, StoreTypeOK, Transactions
  <2>2. /\ tx'[v].pr = tx[v].pr /\ tx'[v].author = tx[v].author
        /\ tx'[v].deleted = tx[v].deleted
        /\ tx'[v].inserted = tx[v].inserted
        /\ tx'[v].seen = IF tx[v].pr = tx[w].pr
                         THEN tx[v].seen \ tx[w].deleted ELSE tx[v].seen
        /\ tx[v].pr # tx[w].pr => tx'[v] = tx[v]
    BY <1>1, <2>1, CommitReviewersFacts
  <2> QED BY <2>1, <2>2
<1> QED
  BY <1>1
     DEF StoreStep, StoreTypeOK, Rollback, InsertPullRequest,
         CommitPullRequest, StartDeleteReviewers, FinishDeleteReviewers,
         InsertReviewer

\* A pull request is never removed.
LEMMA RowsStay ==
  ASSUME NEW w \in Workers, NEW p \in PRs, StoreTypeOK, StoreStep(w),
         PRExists(p)
  PROVE  PRExists(p)'
  BY DEF StoreStep, StoreTypeOK, Rollback, InsertPullRequest,
         CommitPullRequest, StartDeleteReviewers, FinishDeleteReviewers,
         InsertReviewer, CommitReviewers, tables, PRExists

\* So a step of one worker keeps every other in phase.
LEMMA OwnOthers ==
  ASSUME NEW w \in Workers, NEW v \in Workers \ {w}, ServiceTyped, Own(v),
         Own(w), ServiceAction(w)
  PROVE  Own(v)'
<1>1. SamePR(v) /\ SameTask(v) /\ StoreTypeOK /\ StoreStep(w)
  BY ActionLocal, ActionStoreStep, JobFacts
<1>2. ServiceTxPhase(v)' /\ Replaces(v)'
  <2>1. CASE tx'[v] = tx[v]
    BY <1>1, <2>1
       DEF Own, ServiceTxPhase, TxPhase, NoTx, Replaces, SamePR, SameTask
  <2>2. CASE tx'[v] # tx[v]
    BY <1>1, <2>2, StoreStepOthers
       DEF Own, ServiceTxPhase, TxPhase, NoTx, Replaces, SamePR, SameTask
  <2> QED BY <2>1, <2>2
<1>3. KnownPRs(v)'
  <2>1. pc[v] # "idle" => req[v].pr \in PRs
    BY PRPhases
  <2>2. at[v] \in WorkLabels => job[v].pr \in PRs
    BY DEF ServiceTyped, TasksOK, TaskPhase
  <2>3. job[v].prs \subseteq PRs
    BY JobFacts
  <2>4. pc[v] \in {"reviewers", "setstatus"} \cup ReassignPCs => pc[v] # "idle"
    BY DEF ReassignPCs
  <2>5. \A p \in PRs : PRExists(p) => PRExists(p)'
    BY <1>1, RowsStay
  <2> QED
    BY <1>1, <2>1, <2>2, <2>3, <2>4, <2>5
       DEF Own, KnownPRs, SamePR, SameTask, PRExists
<1> QED BY <1>2, <1>3 DEF Own
-----------------------------------------------------------------------------
(***************************************************************************)
(* The worker that takes the step stays in phase itself.                   *)
(***************************************************************************)

\* Without a transaction it is, if it knows what it needs.
LEMMA OwnQuiet ==
  ASSUME NEW w \in Workers, pc'[w] \notin TxPCs, at'[w] \notin OpenLabels,
         tx'[w] = NoTx, KnownPRs(w)', pc'[w] = "delete" => todo'[w] # {}
  PROVE  Own(w)'
  BY DEF Own, ServiceTxPhase, TxPhase, Replaces, TxPCs, WritePCs, OpenLabels

\* Outside of WorkLabels and the pull request endpoints little is needed.
LEMMA KnownIdle ==
  ASSUME NEW w \in Workers, ServiceTyped, KnownPRs(w), StoreStep(w),
         pc'[w] \in {"idle", "exists", "author", "candidates", "insertpr",
                     "commitpr", "header"},
         at'[w] \notin WorkLabels, job'[w].prs \subseteq job[w].prs
  PROVE  KnownPRs(w)'
<1>1. StoreTypeOK /\ job[w].prs \subseteq PRs
  BY JobFacts
<1>2. \A p \in job[w].prs : PRExists(p)'
  BY <1>1, RowsStay DEF KnownPRs
<1> QED BY <1>2 DEF KnownPRs, ReassignPCs, PRExists

\* An answer ends it all.
LEMMA OwnAnswer ==
  ASSUME NEW w \in Workers, ServiceTyped, Own(w), StoreStep(w), NEW code,
         Answer(w, code), UNCHANGED taskLocals, at[w] = "idle",
         tx'[w] = NoTx
  PROVE  Own(w)'
<1>1. pc'[w] = "idle" /\ at'[w] = "idle" /\ job'[w] = job[w]
  BY DEF Answer, taskLocals, ServiceTyped, ServiceTypeOK, TypeOK, LocalsTypeOK
<1>2. KnownPRs(w)'
  BY <1>1, KnownIdle DEF Own, WorkLabels, PickLabels
<1> QED BY <1>1, <1>2, OwnQuiet DEF TxPCs, OpenLabels

\* The same for a task.
LEMMA OwnFinish ==
  ASSUME NEW w \in Workers, ServiceTyped, Own(w), StoreStep(w), NEW code,
         Finish(w, code), UNCHANGED locals, pc[w] = "idle",
         tx'[w] = NoTx
  PROVE  Own(w)'
<1>1. pc'[w] = "idle" /\ at'[w] = "idle" /\ job'[w] = NoJob
  BY DEF Finish, locals, ServiceTyped, ServiceTypeOK, TeamsTypeOK
<1>2. KnownPRs(w)'
  BY <1>1, KnownIdle DEF Own, WorkLabels, PickLabels, NoJob
<1> QED BY <1>1, <1>2, OwnQuiet DEF TxPCs, OpenLabels

\* So does the arrival of a request.
LEMMA OwnReceive ==
  ASSUME NEW w \in Workers, ServiceTyped, Own(w), ReceiveAny(w)
  PROVE  Own(w)'
<1>1. StoreStep(w)
  BY ActionStoreStep DEF ServiceAction
<1>2. Idle(w)
  BY DEF ReceiveAny, ReceivePR, ReceiveTask, Idle
<1>3. tx[w] = NoTx /\ tx'[w] = NoTx
  BY <1>2
     DEF Own, ServiceTxPhase, TxPhase, TxPCs, OpenLabels, Idle, ReceiveAny,
         ReceivePR, Receive, ReceiveTask, KeepTables
<1>4. /\ pc'[w] \in {"idle", "exists", "header"}
      /\ at'[w] \notin WorkLabels /\ job'[w] = job[w]
  <2>1. CASE ReceivePR(w)
    BY <1>2, <2>1, RequestFacts
       DEF ReceivePR, Receive, Idle, Entry, Operations, WorkLabels, PickLabels,
           ServiceTyped, ServiceTypeOK, TypeOK, LocalsTypeOK
  <2>2. CASE pc[w] = "idle" /\ ReceiveTask(w) /\ UNCHANGED locals
    <3>1. /\ pc'[w] = "idle" /\ job'[w] = job[w]
          /\ at'[w] \in {"idle", "team", "exists", "found", "setflag", "user",
                         "stats"}
      <4>1. PICK r \in TaskRequests :
              at' = [at EXCEPT ![w] = IF Refused(r) THEN "idle"
                                      ELSE FirstLabel[r.op]]
        BY <2>2 DEF ReceiveTask
      <4>2. Refused(r) \/ r.op \in {"teamAdd", "teamDeactivate", "teamGet",
                                    "setIsActive", "getReview", "stats"}
        BY ServerAssumption
           DEF TaskRequests, Tasks, Operations, UserEndpoints, ReadEndpoints,
               Refused
      <4>3. at'[w] = IF Refused(r) THEN "idle" ELSE FirstLabel[r.op]
        BY <4>1 DEF ServiceTyped, ServiceTypeOK, TeamsTypeOK
      <4>4. ~Refused(r) =>
              FirstLabel[r.op] \in {"team", "exists", "found", "setflag",
                                    "user", "stats"}
        BY <4>2 DEF FirstLabel
      <4> QED BY <2>2, <4>3, <4>4 DEF locals, ReceiveTask
    <3> QED BY <3>1 DEF WorkLabels, PickLabels
  <2> QED BY <2>1, <2>2 DEF ReceiveAny
<1>5. KnownPRs(w)'
  BY <1>1, <1>4, KnownIdle DEF Own
<1> QED
  BY <1>3, <1>4, <1>5, OwnQuiet DEF TxPCs, OpenLabels, WorkLabels

\* The pull request endpoints between two autocommitted statements,
LEMMA OwnContinue ==
  ASSUME NEW w \in Workers, ServiceTyped, Own(w), StoreStep(w),
         at[w] = "idle", UNCHANGED <<teamVars, tx>>, pc[w] \notin TxPCs,
         NEW label, Continue(w, label), label \notin TxPCs,
         label \in {"reviewers", "setstatus"} \cup ReassignPCs =>
           req[w].pr \in PRs /\ PRExists(req[w].pr),
         label = "delete" => todo'[w] # {}
  PROVE  Own(w)'
<1>1. /\ pc'[w] = label /\ at'[w] = "idle" /\ job'[w] = job[w]
      /\ req'[w] = req[w] /\ tx'[w] = NoTx /\ job[w].prs \subseteq PRs
      /\ StoreTypeOK
  BY JobFacts
     DEF Continue, teamVars, taskLocals, ServiceTyped, ServiceTypeOK, TypeOK,
         LocalsTypeOK, Own, ServiceTxPhase, TxPhase, OpenLabels
<1>2. \A p \in PRs : PRExists(p) => PRExists(p)'
  BY <1>1, RowsStay
<1>3. KnownPRs(w)'
  BY <1>1, <1>2 DEF Own, KnownPRs, WorkLabels, PickLabels, PRExists
<1> QED BY <1>1, <1>3, OwnQuiet DEF OpenLabels

\* and in a transaction.
LEMMA OwnPRStep ==
  ASSUME NEW w \in Workers, ServiceTyped, Own(w), PRStep(w)
  PROVE  Own(w)'
<1>1. /\ StoreStep(w) /\ pc[w] # "idle" /\ at[w] = "idle"
      /\ UNCHANGED <<teamVars, taskLocals>> /\ (Step(w) \/ Fail(w))
      /\ StoreTypeOK /\ pc \in [Workers -> PCs] /\ todo \in [Workers -> SUBSET Users]
      /\ pr \in [Workers -> [author : Users \cup {None}, status : Statuses,
                         reviewers : SUBSET Users]]
  BY ActionStoreStep, PRStoreStep, StepsAreBusy, PRPhases, JobFacts
     DEF PRStep, teamVars, ServiceTyped, ServiceTypeOK, TypeOK, LocalsTypeOK
<1>2. tx \in [Workers -> Transactions]
  BY <1>1 DEF StoreTypeOK
<1>3. pc[w] \notin TxPCs => tx[w] = NoTx
  BY <1>1, PRPhases DEF TxPhase
<1>4. CASE (\E code : Answer(w, code)) /\ UNCHANGED tx /\ pc[w] \notin TxPCs
  BY <1>1, <1>3, <1>4, OwnAnswer
<1>5. CASE (\E code : Answer(w, code)) /\ Rollback(w)
  <2>1. tx'[w] = NoTx
    BY <1>2, <1>5 DEF Rollback
  <2> QED BY <1>1, <1>5, <2>1, OwnAnswer
<1>6. CASE CommitPR(w) \/ CommitReassign(w)
  <2>1. tx'[w] = NoTx /\ \E code : Answer(w, code)
    BY <1>2, <1>6
       DEF CommitPR, CommitReassign, CommitPullRequest, CommitReviewers,
           AnswerWritten
  <2> QED BY <1>1, <2>1, OwnAnswer
<1>7. ASSUME UNCHANGED tx, pc[w] \notin TxPCs,
             NEW label \in {"author", "candidates", "insertpr", "reviewers",
                            "setstatus", "olduser", "pick", "delete"},
             Continue(w, label),
             label \in {"reviewers", "setstatus", "olduser", "pick", "delete"}
               => PRExists(req[w].pr),
             label = "delete" => todo'[w] # {}
      PROVE  Own(w)'
  <2>1. label \notin TxPCs /\ req[w].pr \in PRs
    BY <1>1, PRPhases DEF TxPCs
  <2>2. label \in {"reviewers", "setstatus"} \cup ReassignPCs =>
          PRExists(req[w].pr)
    BY <1>7 DEF ReassignPCs
  <2> QED BY <1>1, <1>7, <2>1, <2>2, OwnContinue
<1>8. CASE CheckPRExists(w)
  BY <1>4, <1>7, <1>8 DEF CheckPRExists, TxPCs
<1>9. CASE ReadAuthor(w)
  BY <1>4, <1>7, <1>9 DEF ReadAuthor, TxPCs
<1>10. CASE SelectReviewers(w)
  BY <1>4, <1>7, <1>10 DEF SelectReviewers, TxPCs
<1>11. CASE ReadHeader(w)
  BY <1>4, <1>7, <1>11 DEF ReadHeader, TxPCs
<1>12. CASE ReadReviewers(w)
  <2>1. PRExists(req[w].pr)
    BY <1>1, <1>12, PRPhases DEF ReadReviewers
  <2> QED BY <1>4, <1>7, <1>12, <2>1 DEF ReadReviewers, TxPCs
<1>13. CASE SetMerged(w)
  BY <1>4, <1>13 DEF SetMerged, UpdatePullRequestStatus, AnswerWritten, TxPCs
<1>14. CASE ReadOldUser(w)
  <2>1. PRExists(req[w].pr)
    BY <1>1, <1>14, PRPhases DEF ReadOldUser, ReassignPCs
  <2> QED BY <1>4, <1>7, <1>14, <2>1 DEF ReadOldUser, TxPCs
<1>15. CASE PickReplacement(w)
  <2>1. PRExists(req[w].pr)
    BY <1>1, <1>15, PRPhases DEF PickReplacement, ReassignPCs
  <2>2. (\E code : Answer(w, code)) \/ (Continue(w, "delete") /\ todo'[w] # {})
    BY <1>1, <1>15 DEF PickReplacement
  <2> QED BY <1>4, <1>7, <1>15, <2>1, <2>2 DEF PickReplacement, TxPCs
<1>16. CASE Fail(w) \/ BreakDeadlock(w)
  BY <1>5, <1>16 DEF Fail, BreakDeadlock
<1>17. PRExists(req[w].pr) => PRExists(req[w].pr)'
  <2>1. req[w].pr \in PRs /\ (PRExists(req[w].pr) => author'[req[w].pr] # None)
    BY <1>1, PRPhases, RowsStay DEF PRExists
  <2>2. UNCHANGED req \/ \E code : Answer(w, code)
    BY <1>1
       DEF Step, CreateStep, ReassignStep, CheckPRExists, ReadAuthor,
           SelectReviewers, InsertPR, CommitPR, ReadHeader, ReadReviewers,
           SetMerged, ReadOldUser, PickReplacement, IssueDelete, LockRows,
           InsertRow, CommitReassign, BreakDeadlock, Fail, Continue,
           AnswerWritten
  <2>3. UNCHANGED req
    BY <2>2 DEF Answer
  <2> QED BY <2>1, <2>3 DEF PRExists
<1>18. \A p \in job[w].prs : PRExists(p)'
  BY <1>1, JobFacts, RowsStay DEF Own, KnownPRs
<1>19. ASSUME NEW label \in {"commitpr", "locking", "inserting"},
              Continue(w, label), TxPhase(w)',
              label # "commitpr" =>
                PRExists(req[w].pr) /\ todo'[w] \cup tx'[w].inserted # {}
       PROVE  Own(w)'
  <2>1. pc'[w] = label /\ at'[w] = "idle" /\ job'[w] = job[w]
    BY <1>1, <1>19 DEF Continue, taskLocals
  <2>2. KnownPRs(w)'
    BY <1>17, <1>18, <1>19, <2>1
       DEF KnownPRs, ReassignPCs, WorkLabels, PickLabels, PRExists
  <2> QED
    BY <1>19, <2>1, <2>2
       DEF Own, ServiceTxPhase, OpenLabels, Replaces, WritePCs
<1>20. CASE InsertPR(w)
  <2>1. CASE InsertPullRequest(w, req[w].pr, req[w].user)
             /\ Continue(w, "commitpr")
    <3>1. /\ pc'[w] = "commitpr" /\ req'[w] = req[w]
          /\ tx'[w] = [NoTx EXCEPT !.pr = req[w].pr, !.author = req[w].user]
      BY <1>1, <1>2, <2>1 DEF Continue, InsertPullRequest
    <3>2. TxPhase(w)'
      BY <3>1 DEF TxPhase, TxPCs, NoTx
    <3> QED BY <1>19, <2>1, <3>2
  <2> QED BY <1>5, <1>20, <2>1 DEF InsertPR
<1>21. CASE IssueDelete(w)
  <2>1. /\ pc'[w] = "locking" /\ req'[w] = req[w] /\ todo'[w] = todo[w]
        /\ tx'[w] = [NoTx EXCEPT !.pr = req[w].pr, !.seen = reviewers[req[w].pr]]
    BY <1>1, <1>2, <1>21 DEF Continue, IssueDelete, StartDeleteReviewers
  <2>2. TxPhase(w)' /\ tx'[w].inserted = {}
    BY <2>1 DEF TxPhase, TxPCs, NoTx
  <2>3. PRExists(req[w].pr)
    BY <1>1, <1>21, PRPhases DEF IssueDelete, ReassignPCs
  <2>4. todo[w] # {}
    BY <1>3, <1>21 DEF IssueDelete, Own, Replaces, WritePCs, TxPCs, NoTx
  <2> QED BY <1>19, <1>21, <2>1, <2>2, <2>3, <2>4 DEF IssueDelete
<1>22. CASE LockRows(w)
  <2>1. /\ pc'[w] = "inserting" /\ req'[w] = req[w] /\ todo'[w] = todo[w]
        /\ tx'[w] = [tx[w] EXCEPT !.deleted = tx[w].seen, !.seen = {}]
    BY <1>1, <1>2, <1>22
       DEF Continue, LockRows, FinishDeleteReviewers, Transactions
  <2>2. /\ tx'[w].pr = tx[w].pr /\ tx'[w].author = tx[w].author
        /\ tx'[w].seen = {} /\ tx'[w].inserted = tx[w].inserted
    BY <1>2, <2>1 DEF Transactions
  <2>3. tx[w].pr = req[w].pr /\ tx[w].author = None /\ PRExists(req[w].pr)
    BY <1>1, <1>22, PRPhases DEF LockRows, TxPhase, ReassignPCs
  <2>4. todo[w] \cup tx[w].inserted # {}
    BY <1>22 DEF LockRows, Own, Replaces, WritePCs
  <2>5. TxPhase(w)'
    BY <2>1, <2>2, <2>3 DEF TxPhase, TxPCs
  <2> QED BY <1>19, <1>22, <2>1, <2>2, <2>3, <2>4, <2>5 DEF LockRows
<1>23. CASE InsertRow(w)
  <2>1. ASSUME NEW u, InsertReviewer(w, u), Continue(w, "inserting"),
               pc[w] = "inserting"
        PROVE  Own(w)'
    <3>1. /\ pc'[w] = "inserting" /\ req'[w] = req[w]
          /\ tx'[w] = [tx[w] EXCEPT !.inserted = @ \cup {u}]
      BY <1>1, <1>2, <2>1 DEF Continue, InsertReviewer, Transactions
    <3>2. /\ tx'[w].pr = tx[w].pr /\ tx'[w].author = tx[w].author
          /\ tx'[w].seen = tx[w].seen /\ u \in tx'[w].inserted
      BY <1>2, <3>1 DEF Transactions
    <3>3. /\ tx[w].pr = req[w].pr /\ tx[w].author = None /\ tx[w].seen = {}
          /\ PRExists(req[w].pr)
      BY <1>1, <2>1, PRPhases DEF TxPhase, ReassignPCs
    <3>4. TxPhase(w)'
      BY <3>1, <3>2, <3>3 DEF TxPhase, TxPCs
    <3> QED BY <1>19, <2>1, <3>2, <3>3, <3>4
  <2> QED BY <1>5, <1>23, <2>1 DEF InsertRow
<1> QED
  BY <1>1, <1>6, <1>8, <1>9, <1>10, <1>11, <1>12, <1>13, <1>14, <1>15, <1>16,
     <1>20, <1>21, <1>22, <1>23 DEF Step, CreateStep, ReassignStep
\* The team and user endpoints between two autocommitted statements,
LEMMA OwnProceed ==
  ASSUME NEW w \in Workers, ServiceTyped, Own(w), StoreStep(w),
         at[w] \notin OpenLabels \cup {"idle"}, UNCHANGED <<locals, tx>>,
         NEW label, Proceed(w, label), label \notin OpenLabels,
         NEW j, SetJob(w, j), j.prs \subseteq PRs,
         \A p \in j.prs : PRExists(p),
         label \in WorkLabels => j.pr \in PRs /\ PRExists(j.pr)
  PROVE  Own(w)'
<1>1. /\ at'[w] = label /\ pc'[w] = "idle" /\ job'[w] = j
      /\ tx'[w] = NoTx /\ StoreTypeOK
  BY TaskPhases, JobFacts
     DEF Proceed, SetJob, locals, ServiceTyped, ServiceTypeOK, TeamsTypeOK
<1>2. \A p \in PRs : PRExists(p) => PRExists(p)'
  BY <1>1, RowsStay
<1>3. KnownPRs(w)'
  BY <1>1, <1>2 DEF KnownPRs, ReassignPCs, PRExists
<1> QED BY <1>1, <1>3, OwnQuiet DEF TxPCs

\* The statements of CreateTeam, GetTeam and the user endpoints,
LEMMA OwnTeamStep ==
  ASSUME NEW w \in Workers, ServiceTyped, Own(w), UNCHANGED locals,
         AddStep(w) \/ FindTeam(w) \/ ListMembers(w) \/ UserStep(w)
  PROVE  Own(w)'
<1>1. /\ StoreStep(w) /\ UNCHANGED tx
      /\ at[w] \notin DeactivateLabels \cup {"idle"}
  BY TaskStoreStep
     DEF TeamStep, AddStep, UserStep, CheckTeam, InsertTeam, CommitTeam,
         UpsertMember, FindTeam, ListMembers, SetFlag, ReadBack, FindUser,
         ListReviews, CountReviews, KeepTables, CreateOrUpdateUser,
         UpdateUserIsActive, DeactivateLabels, PickLabels
<1>2. at[w] \notin OpenLabels \cup {"idle"}
  BY <1>1 DEF OpenLabels, DeactivateLabels
<1>3. pc[w] = "idle" /\ tx[w] = NoTx /\ tx'[w] = NoTx
  BY <1>1, <1>2, TaskPhases
<1>4. job[w].prs \subseteq PRs /\ \A p \in job[w].prs : PRExists(p)
  BY JobFacts DEF Own, KnownPRs
<1>5. CASE \E code : Finish(w, code)
  BY <1>1, <1>3, <1>5, OwnFinish
<1>6. ASSUME NEW label \in Labels \ DeactivateLabels, Proceed(w, label),
             NEW j, SetJob(w, j), j.prs = job[w].prs
      PROVE  Own(w)'
  <2>1. label \notin OpenLabels \cup WorkLabels
    BY <1>6 DEF OpenLabels, WorkLabels, DeactivateLabels
  <2> QED BY <1>1, <1>2, <1>4, <1>6, <2>1, OwnProceed
<1>7. CASE UNCHANGED job
  <2>1. SetJob(w, job[w])
    BY <1>7, SameJob
  <2>2. (\E code : Finish(w, code)) \/
        \E label \in {"insertteam", "committeam", "members", "listed",
                      "readback", "reviews"} : Proceed(w, label)
    BY <1>7
       DEF AddStep, UserStep, CheckTeam, InsertTeam, CommitTeam,
         UpsertMember, FindTeam, ListMembers, SetFlag, ReadBack, FindUser,
         ListReviews, CountReviews, FinishWritten, Labels, DeactivateLabels,
         PickLabels, AddLabels
  <2>3. {"insertteam", "committeam", "members", "listed", "readback",
         "reviews"} \subseteq Labels \ DeactivateLabels
    BY DEF Labels, DeactivateLabels, PickLabels, AddLabels
  <2> QED BY <1>5, <1>6, <2>1, <2>2, <2>3
<1>8. CASE \E S : /\ SetJob(w, [job[w] EXCEPT !.list = S])
                  /\ Proceed(w, "members")
  <2>1. PICK S : SetJob(w, [job[w] EXCEPT !.list = S]) /\ Proceed(w, "members")
    BY <1>8
  <2>2. [job[w] EXCEPT !.list = S].prs = job[w].prs
    BY JobFacts DEF Jobs
  <2>3. "members" \in Labels \ DeactivateLabels
    BY DEF Labels, DeactivateLabels, PickLabels, AddLabels
  <2> QED BY <1>6, <2>1, <2>2, <2>3
<1>9. CASE CommitTeam(w)
  BY <1>5, <1>8, <1>9 DEF CommitTeam, FinishWritten
<1>10. CASE UpsertMember(w)
  <2>1. (\E code : Finish(w, code)) \/
        \E u : /\ SetJob(w, [job[w] EXCEPT !.list = @ \ {u}])
               /\ Proceed(w, "members")
    BY <1>10 DEF UpsertMember, FinishWritten
  <2> QED BY <1>5, <1>8, <2>1
<1> QED
  BY <1>5, <1>7, <1>9, <1>10
     DEF AddStep, UserStep, CheckTeam, InsertTeam, FindTeam, ListMembers,
         SetFlag, ReadBack, FindUser, ListReviews, CountReviews

\* the search of a deactivation,
LEMMA OwnSearch ==
  ASSUME NEW w \in Workers, ServiceTyped, Own(w), UNCHANGED locals,
         \/ TeamExists(w) \/ ReadTargets(w) \/ ReadAffected(w)
         \/ ReadNextPR(w) \/ ReadCurrent(w) \/ PickStep(w)
         \/ IssueDeactivation(w) \/ DeactivateMembers(w)
  PROVE  Own(w)'
<1>1. /\ StoreStep(w) /\ UNCHANGED tx
      /\ at[w] \notin OpenLabels \cup {"idle"}
  BY TaskStoreStep
     DEF TeamStep, DeactivateStep, TeamExists, ReadTargets, ReadAffected,
         ReadNextPR, ReadCurrent, PickStep, PickFromTeam, ReadAuthorTeam,
         PickFromAuthorTeam, PickFromAll, IssueDeactivation,
         DeactivateMembers, KeepTables, BulkDeactivateUsersByTeam, OpenLabels
<1>2. pc[w] = "idle" /\ tx[w] = NoTx /\ tx'[w] = NoTx
  BY <1>1, TaskPhases
<1>3. job[w].prs \subseteq PRs /\ \A p \in job[w].prs : PRExists(p)
  BY JobFacts DEF Own, KnownPRs
<1>4. CASE \E code : Finish(w, code)
  BY <1>1, <1>2, <1>4, OwnFinish
<1>5. ASSUME NEW label, label \notin OpenLabels, Proceed(w, label),
             NEW j, SetJob(w, j), j.prs \subseteq job[w].prs,
             label \in WorkLabels => at[w] \in WorkLabels /\ j.pr = job[w].pr
      PROVE  Own(w)'
  <2>1. label \in WorkLabels => j.pr \in PRs /\ PRExists(j.pr)
    BY <1>1, <1>5, TaskPhases
  <2> QED BY <1>1, <1>3, <1>5, <2>1, OwnProceed
<1>6. ASSUME NEW label, label \notin OpenLabels, Proceed(w, label),
             UNCHANGED job, label \in WorkLabels => at[w] \in WorkLabels
      PROVE  Own(w)'
  BY <1>5, <1>6, SameJob
<1>7. CASE TeamExists(w)
  BY <1>4, <1>6, <1>7 DEF TeamExists, OpenLabels, WorkLabels, PickLabels
<1>8. CASE ReadTargets(w) /\ ~(\E code : Finish(w, code))
  <2>1. PICK S : /\ SetJob(w, [job[w] EXCEPT !.targets = S])
                 /\ Proceed(w, "affected")
    BY <1>8 DEF ReadTargets
  <2>2. [job[w] EXCEPT !.targets = S].prs = job[w].prs
    BY JobFacts DEF Jobs
  <2>3. "affected" \notin OpenLabels \cup WorkLabels
    BY DEF OpenLabels, WorkLabels, PickLabels
  <2> QED BY <1>5, <2>1, <2>2, <2>3
<1>9. CASE ReadAffected(w)
  <2> DEFINE S == GetOpenPullRequestsByReviewers(job[w].targets)
             j == [job[w] EXCEPT !.prs = S]
  <2>1. SetJob(w, j) /\ Proceed(w, "nextpr")
    BY <1>9 DEF ReadAffected
  <2>2. j.prs = S
    BY JobFacts DEF Jobs
  <2>3. S \subseteq PRs /\ \A p \in S : PRExists(p)
    BY DEF GetOpenPullRequestsByReviewers
  <2>4. "nextpr" \notin OpenLabels \cup WorkLabels
    BY DEF OpenLabels, WorkLabels, PickLabels
  <2> HIDE DEF j, S
  <2> QED BY <1>1, <2>1, <2>2, <2>3, <2>4, OwnProceed
<1>10. CASE ReadNextPR(w)
  <2>1. PICK p \in job[w].prs :
          SetJob(w, [job[w] EXCEPT !.prs = @ \ {p}, !.pr = p,
                                   !.author = author[p], !.status = status[p]])
    BY <1>10 DEF ReadNextPR
  <2> DEFINE j == [job[w] EXCEPT !.prs = @ \ {p}, !.pr = p,
                                 !.author = author[p], !.status = status[p]]
  <2>2. j.prs \subseteq job[w].prs /\ j.pr = p
    BY JobFacts DEF Jobs
  <2>3. SetJob(w, j) /\ Proceed(w, "current")
    BY <1>10, <2>1 DEF ReadNextPR
  <2>4. "current" \notin OpenLabels
    BY DEF OpenLabels
  <2> HIDE DEF j
  <2> QED BY <1>1, <1>3, <2>2, <2>3, <2>4, OwnProceed
<1>11. CASE ReadCurrent(w)
  <2>1. at[w] \in WorkLabels
    BY <1>11 DEF ReadCurrent, WorkLabels
  <2>2. CASE SetJob(w, NextPR(job[w])) /\ Proceed(w, "nextpr")
    <3>1. NextPR(job[w]).prs = job[w].prs
      BY JobFacts DEF NextPR, Jobs
    <3>2. "nextpr" \notin OpenLabels \cup WorkLabels
      BY DEF OpenLabels, WorkLabels, PickLabels
    <3> QED BY <1>5, <2>2, <3>1, <3>2
  <2>3. ASSUME NEW R, NEW S, NEW n, NEW label \in PickLabels \cup {"delete"},
               SetJob(w, [job[w] EXCEPT !.old = R, !.list = S, !.owed = n]),
               Proceed(w, label)
        PROVE  Own(w)'
    <3> DEFINE j == [job[w] EXCEPT !.old = R, !.list = S, !.owed = n]
    <3>1. j.prs = job[w].prs /\ j.pr = job[w].pr
      BY JobFacts DEF Jobs
    <3>2. SetJob(w, j) /\ label \notin OpenLabels
      BY <2>3 DEF OpenLabels, PickLabels
    <3> HIDE DEF j
    <3> QED BY <1>5, <2>1, <2>3, <3>1, <3>2
  <2> QED BY <1>11, <2>2, <2>3, FirstPickLabel DEF ReadCurrent
<1>12. ASSUME at[w] \in PickLabels, NEW found, NEW skipped,
              Settle(w, found, skipped)
       PROVE  Own(w)'
  <2> DEFINE j == [job[w] EXCEPT !.list = @ \cup found, !.owed = @ - 1,
                                 !.skipped = @ \cup skipped]
             label == IF job[w].owed = 1 THEN "delete" ELSE FirstPick(w)
  <2>1. SetJob(w, j) /\ Proceed(w, label)
    BY <1>12 DEF Settle
  <2>2. j.prs = job[w].prs /\ j.pr = job[w].pr
    BY JobFacts DEF Jobs
  <2>3. label \notin OpenLabels /\ at[w] \in WorkLabels
    BY <1>12, FirstPickLabel DEF OpenLabels, PickLabels, WorkLabels
  <2> HIDE DEF j, label
  <2> QED BY <1>5, <2>1, <2>2, <2>3
<1>13. ASSUME at[w] \in PickLabels, NEW S, Replace(w, S) PROVE Own(w)'
  BY <1>4, <1>12, <1>13 DEF Replace
<1>14. CASE PickStep(w)
  <2>1. at[w] \in PickLabels
    BY <1>14
       DEF PickStep, PickFromTeam, ReadAuthorTeam, PickFromAuthorTeam,
           PickFromAll, PickLabels
  <2>2. ASSUME NEW label \in {"author", "authorteam", "everyone"},
               Proceed(w, label), UNCHANGED job
        PROVE  Own(w)'
    <3>1. label \notin OpenLabels /\ at[w] \in WorkLabels
      BY <2>1 DEF OpenLabels, WorkLabels
    <3> QED BY <1>6, <2>2, <3>1
  <2>3. CASE ReadAuthorTeam(w)
    <3> DEFINE j == [job[w] EXCEPT !.cache[job[w].author] = team[job[w].author]]
    <3>1. SetJob(w, j) /\ Proceed(w, "authorteam")
      BY <2>3 DEF ReadAuthorTeam
    <3>2. j.prs = job[w].prs /\ j.pr = job[w].pr
      BY JobFacts DEF Jobs
    <3>3. "authorteam" \notin OpenLabels /\ at[w] \in WorkLabels
      BY <2>1 DEF OpenLabels, WorkLabels
    <3> HIDE DEF j
    <3> QED BY <1>5, <3>1, <3>2, <3>3
  <2> QED
    BY <1>12, <1>13, <1>14, <2>1, <2>2, <2>3
       DEF PickStep, PickFromTeam, PickFromAuthorTeam, PickFromAll
<1>15. CASE DeactivateMembers(w)
  BY <1>4, <1>15 DEF DeactivateMembers, FinishWritten
<1>16. CASE IssueDeactivation(w)
  <2> DEFINE j == [job[w] EXCEPT !.list = ActiveMembers(task[w].team)]
  <2>1. SetJob(w, j) /\ Proceed(w, "switchoff")
    BY <1>16 DEF IssueDeactivation
  <2>2. j.prs = job[w].prs
    BY JobFacts DEF Jobs
  <2>3. "switchoff" \notin OpenLabels \cup WorkLabels
    BY DEF OpenLabels, WorkLabels, PickLabels
  <2> HIDE DEF j
  <2> QED BY <1>5, <2>1, <2>2, <2>3
<1> QED
  BY <1>4, <1>7, <1>8, <1>9, <1>10, <1>11, <1>14, <1>15, <1>16
\* and its transactions.
LEMMA OwnReplacement ==
  ASSUME NEW w \in Workers, ServiceTyped, Own(w), UNCHANGED locals,
         \/ DeleteCurrent(w) \/ LockCurrent(w) \/ InsertReplacement(w)
         \/ CommitReplacements(w)
  PROVE  Own(w)'
<1>1. /\ StoreStep(w) /\ pc[w] = "idle" /\ pc'[w] = "idle"
      /\ at[w] \in {"delete", "locking", "inserting"}
      /\ tx \in [Workers -> Transactions] /\ at \in [Workers -> Labels]
      /\ job \in [Workers -> Jobs]
      /\ job[w].pr \in PRs /\ job[w].pr # None /\ PRExists(job[w].pr)
      /\ job[w].prs \subseteq PRs /\ \A p \in job[w].prs : PRExists(p)
  BY TaskStoreStep, TaskPhases
     DEF TeamStep, DeactivateStep, DeleteCurrent, LockCurrent,
         InsertReplacement, CommitReplacements, locals, WorkLabels,
         ServiceTyped, ServiceTypeOK, TypeOK, StoreTypeOK, TeamsTypeOK, Own,
         KnownPRs
<1>2. \A p \in PRs : PRExists(p) => PRExists(p)'
  BY <1>1, RowsStay, JobFacts
<1>3. ASSUME NEW label \in OpenLabels, Proceed(w, label),
             NEW j, SetJob(w, j), j.pr = job[w].pr, j.prs = job[w].prs,
             tx'[w].pr = job[w].pr, tx'[w].author = None,
             label = "locking" => tx'[w].deleted = {} /\ tx'[w].inserted = {},
             label = "inserting" => tx'[w].seen = {}
      PROVE  Own(w)'
  <2>1. at'[w] = label /\ job'[w] = j
    BY <1>1, <1>3 DEF Proceed, SetJob
  <2>2. KnownPRs(w)'
    BY <1>1, <1>2, <1>3, <2>1 DEF KnownPRs, ReassignPCs, PRExists
  <2> QED
    BY <1>1, <1>3, <2>1, <2>2
       DEF Own, ServiceTxPhase, OpenLabels, Replaces, WritePCs
<1>4. CASE (\E code : Finish(w, code)) /\ tx'[w] = NoTx
  BY <1>1, <1>4, OwnFinish
<1>5. CASE DeleteCurrent(w)
  <2>1. /\ tx'[w] = [NoTx EXCEPT !.pr = job[w].pr, !.seen = reviewers[job[w].pr]]
        /\ Proceed(w, "locking") /\ UNCHANGED job
    BY <1>1, <1>5 DEF DeleteCurrent, StartDeleteReviewers
  <2>2. /\ tx'[w].pr = job[w].pr /\ tx'[w].author = None
        /\ tx'[w].deleted = {} /\ tx'[w].inserted = {}
    BY <2>1 DEF NoTx
  <2>3. SetJob(w, job[w]) /\ "locking" \in OpenLabels
    BY <2>1, SameJob DEF OpenLabels
  <2> QED BY <1>3, <2>1, <2>2, <2>3
<1>6. CASE LockCurrent(w)
  <2>1. /\ tx' = [tx EXCEPT ![w].deleted = tx[w].seen, ![w].seen = {}]
        /\ Proceed(w, "inserting") /\ UNCHANGED job /\ at[w] = "locking"
    BY <1>6 DEF LockCurrent, FinishDeleteReviewers
  <2>2. /\ tx'[w].pr = tx[w].pr /\ tx'[w].author = tx[w].author
        /\ tx'[w].seen = {}
    BY <1>1, <2>1 DEF Transactions
  <2>3. tx[w].pr = job[w].pr /\ tx[w].author = None
    BY <1>1, <2>1, TaskPhases DEF OpenLabels
  <2>4. SetJob(w, job[w]) /\ "inserting" \in OpenLabels
    BY <2>1, SameJob DEF OpenLabels
  <2> QED BY <1>3, <2>1, <2>2, <2>3, <2>4
<1>7. CASE InsertReplacement(w)
  <2>1. ASSUME NEW u, InsertReviewer(w, u), Proceed(w, "inserting"),
               at[w] = "inserting",
               SetJob(w, [job[w] EXCEPT !.list = @ \ {u}])
        PROVE  Own(w)'
    <3> DEFINE j == [job[w] EXCEPT !.list = @ \ {u}]
    <3>1. j.pr = job[w].pr /\ j.prs = job[w].prs /\ SetJob(w, j)
      BY <1>1, <2>1 DEF Jobs
    <3>2. /\ tx'[w].pr = tx[w].pr /\ tx'[w].author = tx[w].author
          /\ tx'[w].seen = tx[w].seen
      BY <1>1, <2>1 DEF InsertReviewer, Transactions
    <3>3. tx[w].pr = job[w].pr /\ tx[w].author = None /\ tx[w].seen = {}
      BY <1>1, <2>1, TaskPhases DEF OpenLabels
    <3>4. "inserting" \in OpenLabels
      BY DEF OpenLabels
    <3> HIDE DEF j
    <3> QED BY <1>3, <2>1, <3>1, <3>2, <3>3, <3>4
  <2>2. Rollback(w) => tx'[w] = NoTx
    BY <1>1 DEF Rollback
  <2> QED BY <1>4, <1>7, <2>1, <2>2 DEF InsertReplacement
<1>8. CASE CommitReplacements(w)
  <2>1. tx'[w] = NoTx
    BY <1>8 DEF CommitReplacements, CommitReviewers
  <2>2. CASE SetJob(w, NextPR(job[w])) /\ Proceed(w, "nextpr")
    <3>1. NextPR(job[w]).prs = job[w].prs
      BY <1>1 DEF NextPR, Jobs
    <3>2. at'[w] = "nextpr" /\ job'[w].prs = job[w].prs
      BY <1>1, <2>2, <3>1 DEF Proceed, SetJob
    <3>3. at'[w] \notin OpenLabels \cup WorkLabels
      BY <3>2 DEF OpenLabels, WorkLabels, PickLabels
    <3>4. KnownPRs(w)'
      BY <1>1, <3>2, <3>3, KnownIdle DEF Own
    <3> QED BY <1>1, <2>1, <3>3, <3>4, OwnQuiet DEF TxPCs
  <2> QED BY <1>4, <1>8, <2>1, <2>2 DEF CommitReplacements
<1> QED BY <1>5, <1>6, <1>7, <1>8

\* Together, every step keeps everybody in phase.
LEMMA OwnStep ==
  ASSUME NEW w \in Workers, ServiceTyped, Own(w), ServiceAction(w)
  PROVE  Own(w)'
<1>1. StoreStep(w) /\ StoreTypeOK
  BY ActionStoreStep, JobFacts
<1>2. Rollback(w) => tx'[w] = NoTx
  BY <1>1 DEF Rollback, StoreTypeOK
<1>3. CASE TaskStep(w)
  BY <1>3, OwnTeamStep, OwnSearch, OwnReplacement
     DEF TaskStep, TeamStep, DeactivateStep
<1>4. CASE TaskFailure(w)
  BY <1>1, <1>2, <1>4, TaskPhases, OwnFinish DEF TaskFailure, TaskFail
<1>5. CASE BreakTaskDeadlock(w)
  BY <1>1, <1>2, <1>5, TaskPhases, PRPhases, OwnFinish, OwnAnswer
     DEF BreakTaskDeadlock
<1> QED
  BY <1>3, <1>4, <1>5, OwnReceive, OwnPRStep DEF ServiceAction

-----------------------------------------------------------------------------
(***************************************************************************)
(* A deactivation never writes an empty list without having noted why.     *)
(***************************************************************************)

\* The step that takes a deactivation to, or keeps it in, writing a list.
WriteLabels == {"delete", "locking", "inserting"}

\* It is one of these.
LEMMA WriteSteps ==
  ASSUME NEW w \in Workers, ServiceTyped, Own(w), ServiceAction(w),
         at'[w] \in WriteLabels
  PROVE  \/ ReadCurrent(w) \/ PickStep(w) \/ DeleteCurrent(w)
         \/ LockCurrent(w) \/ InsertReplacement(w)
<1>1. at'[w] # "idle" /\ at \in [Workers -> Labels]
  BY DEF WriteLabels, ServiceTyped, ServiceTypeOK, TeamsTypeOK
<1>2. \A code : ~Finish(w, code)
  BY <1>1 DEF Finish
<1>3. \A label : Proceed(w, label) => label \in WriteLabels
  BY <1>1 DEF Proceed
<1>4. ~PRStep(w)
  <2>1. PRStep(w) => at[w] = "idle" /\ at' = at
    BY StepsAreBusy, PRPhases DEF PRStep, teamVars, taskLocals
  <2> QED BY <1>1, <2>1
<1>5. ~ReceiveAny(w)
  <2>1. ~ReceivePR(w)
    BY <1>1 DEF ReceivePR, Idle
  <2>2. ~ReceiveTask(w)
    <3>1. SUFFICES ASSUME NEW r \in TaskRequests, ~Refused(r),
                          at' = [at EXCEPT ![w] = FirstLabel[r.op]]
                   PROVE  FALSE
      BY <1>1 DEF ReceiveTask
    <3>2. r.op \in {"teamAdd", "teamDeactivate", "teamGet", "setIsActive",
                    "getReview", "stats"}
      BY <3>1, ServerAssumption
         DEF TaskRequests, Tasks, Operations, UserEndpoints, ReadEndpoints,
             Refused
    <3>3. at'[w] = FirstLabel[r.op]
      BY <1>1, <3>1
    <3> QED BY <3>2, <3>3 DEF FirstLabel, WriteLabels
  <2> QED BY <2>1, <2>2 DEF ReceiveAny
<1>6. ~TaskFailure(w)
  BY <1>2 DEF TaskFailure, TaskFail
<1>7. ~BreakTaskDeadlock(w)
  <2>1. BreakTaskDeadlock(w) => at[w] = "idle" /\ at' = at
    BY <1>2, PRPhases DEF BreakTaskDeadlock, taskLocals
  <2> QED BY <1>1, <2>1
<1>8. TeamStep(w) \/ UserStep(w)
  BY <1>4, <1>5, <1>6, <1>7 DEF ServiceAction, TaskStep
<1>9. \A label \in {"insertteam", "committeam", "members", "listed", "targets",
                    "affected", "nextpr", "current", "switchoff", "readback",
                    "reviews"} : ~Proceed(w, label)
  BY <1>3 DEF WriteLabels
<1> QED
  BY <1>2, <1>8, <1>9
     DEF TeamStep, UserStep, AddStep, DeactivateStep, CheckTeam,
         InsertTeam, CommitTeam, UpsertMember, FindTeam, ListMembers,
         TeamExists, ReadTargets, ReadAffected, ReadNextPR,
         CommitReplacements, IssueDeactivation, DeactivateMembers, SetFlag,
         ReadBack, FindUser, ListReviews, CountReviews, FinishWritten

\* The searches account for whom they do not replace,
LEMMA AccountedSearch ==
  ASSUME NEW w \in Workers, ServiceTyped, at'[w] \in WriteLabels,
         ReadCurrent(w) \/ PickStep(w)
  PROVE  Accounted(w)'
<1>1. at \in [Workers -> Labels] /\ job \in [Workers -> Jobs]
  BY DEF ServiceTyped, ServiceTypeOK, TeamsTypeOK
<1>2. \A code : ~Finish(w, code)
  BY <1>1 DEF Finish, WriteLabels
<1>3. \A label : Proceed(w, label) => label \in WriteLabels
  BY <1>1 DEF Proceed
<1>4. PickLabels \cap WriteLabels = {} /\ "nextpr" \notin WriteLabels
  BY DEF PickLabels, WriteLabels
<1>5. CASE ReadCurrent(w)
  <2> DEFINE now == reviewers[job[w].pr]
  <2>1. /\ now \cap job[w].targets = {}
        /\ job' = [job EXCEPT ![w] =
                     [job[w] EXCEPT !.old = now, !.list = Kept(w, now),
                          !.owed = Cardinality(now \cap job[w].targets)]]
    BY <1>3, <1>4, <1>5, FirstPickLabel DEF ReadCurrent, SetJob
  <2>2. job'[w].old = now /\ job'[w].list = now
    BY <1>1, <2>1 DEF Kept, Jobs
  <2> QED BY <2>2 DEF Accounted
<1>6. ASSUME NEW found, NEW skipped, Settle(w, found, skipped),
             found # {} \/ job[w].pr \in skipped
      PROVE  Accounted(w)'
  <2>1. /\ job'[w].list = job[w].list \cup found
        /\ job'[w].skipped = job[w].skipped \cup skipped
        /\ job'[w].pr = job[w].pr
    BY <1>1, <1>6 DEF Settle, SetJob, Jobs
  <2> QED BY <1>6, <2>1 DEF Accounted
<1>7. ASSUME NEW S, Replace(w, S) PROVE Accounted(w)'
  BY <1>2, <1>6, <1>7 DEF Replace
<1>8. CASE PickStep(w)
  <2>1. \A label \in {"author", "authorteam", "everyone"} : ~Proceed(w, label)
    BY <1>3 DEF WriteLabels
  <2> QED
    BY <1>6, <1>7, <1>8, <2>1
       DEF PickStep, PickFromTeam, ReadAuthorTeam, PickFromAuthorTeam,
           PickFromAll
<1> QED BY <1>5, <1>8

\* and so does what is written of their list.
LEMMA AccountedStep ==
  ASSUME NEW w \in Workers, ServiceTyped, Own(w), Accounted(w),
         ServiceAction(w)
  PROVE  Accounted(w)'
<1> SUFFICES ASSUME at'[w] \in WriteLabels PROVE Accounted(w)'
  BY DEF Accounted, WriteLabels
<1>1. /\ job \in [Workers -> Jobs] /\ tx \in [Workers -> Transactions]
      /\ at \in [Workers -> Labels]
  BY DEF ServiceTyped, ServiceTypeOK, TypeOK, StoreTypeOK, TeamsTypeOK
<1>2. CASE DeleteCurrent(w) \/ LockCurrent(w)
  <2>1. job' = job /\ at[w] \in {"delete", "locking"}
    BY <1>2 DEF DeleteCurrent, LockCurrent
  <2>2. tx[w].inserted = {}
    BY <2>1, TaskPhases DEF NoTx, OpenLabels
  <2> QED BY <2>1, <2>2 DEF Accounted
<1>3. CASE InsertReplacement(w)
  <2>1. PICK u : /\ at[w] = "inserting"
                 /\ InsertReviewer(w, u)
                 /\ SetJob(w, [job[w] EXCEPT !.list = @ \ {u}])
    BY <1>1, <1>3 DEF InsertReplacement, Finish, WriteLabels
  <2>2. tx'[w].inserted = tx[w].inserted \cup {u}
    BY <1>1, <2>1 DEF InsertReviewer, Transactions
  <2>3. /\ job'[w].list = job[w].list \ {u} /\ job'[w].old = job[w].old
        /\ job'[w].pr = job[w].pr /\ job'[w].skipped = job[w].skipped
    BY <1>1, <2>1 DEF SetJob, Jobs
  <2> QED BY <2>1, <2>2, <2>3 DEF Accounted
<1> QED BY <1>2, <1>3, WriteSteps, AccountedSearch

\* Nobody else's step changes what it has to account for.
LEMMA AccountedOthers ==
  ASSUME NEW w \in Workers, NEW v \in Workers \ {w}, ServiceTyped, Own(w),
         Accounted(v), ServiceAction(w)
  PROVE  Accounted(v)'
<1>1. SameTask(v) /\ StoreTypeOK /\ StoreStep(w)
  BY ActionLocal, ActionStoreStep, JobFacts
<1>2. tx'[v].inserted = tx[v].inserted
  BY <1>1, StoreStepOthers
<1> QED BY <1>1, <1>2 DEF SameTask, Accounted
-----------------------------------------------------------------------------
\* No transaction is open at the start,
LEMMA ServiceRowsInit == ServiceInit => ServiceRows
  BY DEF ServiceInit, Init, StoreInit, TeamsInit, ServiceRows, Isolation,
         TransactionsIsolated, TxShape, NoTx, ServiceTxPhase, TxPhase,
         OpenLabels, TxPCs, KnownPRs, ReassignPCs, WorkLabels, PickLabels,
         NoJob, Replaces, WritePCs, Accounted

\* and every step keeps those that are open apart.
LEMMA ServiceRowsNext ==
  ServiceTyped /\ ServiceRows /\ [ServiceNext]_serviceVars => ServiceRows'
<1> SUFFICES ASSUME ServiceTyped, ServiceRows, [ServiceNext]_serviceVars
             PROVE  ServiceRows'
  OBVIOUS
<1>1. CASE UNCHANGED serviceVars
  BY <1>1
     DEF serviceVars, vars, tables, locals, teamVars, taskLocals, ServiceRows,
         Isolation, TransactionsIsolated, TxShape, ServiceTxPhase, TxPhase,
         KnownPRs, Replaces, Accounted, PRExists
<1>2. ASSUME NEW w \in Workers, ServiceAction(w) PROVE ServiceRows'
  <2>1. \A v \in Workers : Own(v) /\ Accounted(v)
    BY DEF ServiceRows, Own
  <2>2. Isolation'
    BY <1>2, <2>1, ActionStoreStep, StoreStepIsolated, JobFacts
       DEF ServiceRows
  <2>3. ASSUME NEW v \in Workers PROVE Own(v)'
    BY <1>2, <2>1, OwnStep, OwnOthers
  <2>4. ASSUME NEW v \in Workers PROVE Accounted(v)'
    BY <1>2, <2>1, AccountedStep, AccountedOthers
  <2> QED BY <2>2, <2>3, <2>4 DEF ServiceRows, Own
<1> QED BY <1>1, <1>2 DEF ServiceNext, ServiceAction

-----------------------------------------------------------------------------
\* Only COMMITs change the reviewer rows.
LEMMA ReviewersChange ==
  ASSUME NEW w \in Workers, ServiceAction(w), reviewers' # reviewers
  PROVE  CommitPR(w) \/ CommitReassign(w) \/ CommitReplacements(w)
<1>1. /\ ~UNCHANGED tables /\ ~UNCHANGED <<prTables, tx>> /\ ~Rollback(w)
      /\ ~KeepTables
  BY DEF tables, prTables, Rollback, KeepTables
<1>2. ~ReceiveAny(w) /\ ~TaskFailure(w) /\ ~BreakTaskDeadlock(w)
  BY <1>1
     DEF ReceiveAny, ReceivePR, Receive, ReceiveTask, TaskFailure, TaskFail,
         BreakTaskDeadlock
<1>3. CASE Step(w) \/ Fail(w)
  BY <1>1, <1>3
     DEF Step, CreateStep, ReassignStep, CheckPRExists, ReadAuthor,
         SelectReviewers, InsertPR, ReadHeader, ReadReviewers, SetMerged,
         ReadOldUser, PickReplacement, IssueDelete, LockRows, InsertRow,
         BreakDeadlock, Fail, InsertPullRequest, UpdatePullRequestStatus,
         StartDeleteReviewers, FinishDeleteReviewers, InsertReviewer
<1>4. CASE TeamStep(w) \/ UserStep(w)
  BY <1>1, <1>4
     DEF TeamStep, UserStep, AddStep, DeactivateStep, PickStep, CheckTeam,
         InsertTeam, CommitTeam, UpsertMember, FindTeam, ListMembers,
         TeamExists, ReadTargets, ReadAffected, ReadNextPR, ReadCurrent,
         PickFromTeam, ReadAuthorTeam, PickFromAuthorTeam, PickFromAll,
         DeleteCurrent, LockCurrent, InsertReplacement, IssueDeactivation,
         DeactivateMembers, SetFlag, ReadBack, FindUser, ListReviews,
         CountReviews,
         CreateOrUpdateUser, UpdateUserIsActive, BulkDeactivateUsersByTeam,
         StartDeleteReviewers, FinishDeleteReviewers, InsertReviewer
<1> QED
  BY <1>2, <1>3, <1>4 DEF ServiceAction, PRStep, TaskStep

\* A step that takes the last reviewer of a pull request away is the COMMIT of
\* a deactivation that accounts for it.
LEMMA Emptied ==
  ASSUME ServiceTyped, ServiceRows, ServiceNext,
         NEW p \in PRs, reviewers[p] # {}, reviewers'[p] = {}
  PROVE  \E w \in Workers : WritesEmptyList(w, p)
<1>1. PICK w \in Workers : ServiceAction(w)
  BY DEF ServiceNext, ServiceAction
<1>2. Own(w) /\ Accounted(w) /\ StoreTypeOK /\ StoreStep(w) /\ Isolation
  BY <1>1, ActionStoreStep, JobFacts DEF ServiceRows, Own
<1>3. CASE CommitPR(w)
  <2>1. pc[w] = "commitpr" /\ CommitPullRequest(w, todo[w])
    BY <1>3 DEF CommitPR
  <2>2. tx[w].pr \in PRs /\ tx[w].pr # None /\ tx[w].author # None
    BY <1>2, <2>1, PRPhases DEF TxPhase, CreatePCs
  <2>3. reviewers[tx[w].pr] = {}
    BY <1>2, <2>2, IsolationParts DEF OnItsRows
  <2> QED BY <1>2, <2>1, <2>2, <2>3 DEF CommitPullRequest, StoreTypeOK
<1>4. ASSUME tx[w].pr \in PRs, CommitReviewers(w)
      PROVE  tx[w].pr = p /\ tx[w].inserted = {}
  <2>1. tx[w].pr = p
    BY <1>2, <1>4, CommitReviewersFacts
  <2> QED BY <1>2, <1>4, <2>1, CommitReviewersFacts
<1>5. CASE CommitReassign(w)
  <2>1. pc[w] = "inserting" /\ CommitReviewers(w) /\ todo[w] = {}
    BY <1>5 DEF CommitReassign
  <2>2. tx[w].pr \in PRs
    BY <1>2, <2>1, PRPhases DEF TxPhase
  <2> QED BY <1>2, <1>4, <2>1, <2>2 DEF Own, Replaces, WritePCs
<1>6. CASE CommitReplacements(w)
  <2>1. at[w] = "inserting" /\ CommitReviewers(w) /\ job[w].list = {}
    BY <1>6 DEF CommitReplacements
  <2>2. tx[w].pr \in PRs /\ tx[w].pr = job[w].pr
    BY <1>2, <2>1, TaskPhases DEF OpenLabels, WorkLabels
  <2>3. at'[w] \in {"nextpr", "idle"}
    BY <1>6 DEF CommitReplacements, Proceed, Finish, ServiceTyped,
                ServiceTypeOK, TeamsTypeOK
  <2>4. job[w].pr = p /\ tx[w].inserted = {}
    BY <1>4, <2>1, <2>2
  <2> QED BY <1>2, <2>1, <2>3, <2>4 DEF Accounted, WritesEmptyList
<1> QED BY <1>1, <1>3, <1>5, <1>6, ReviewersChange

\* What takes the last reviewer of a pull request away is the COMMIT of a
\* deactivation that has noted that it found no substitute (team.go:145), or
\* that read no reviewers: no reassignment does, whatever it overlaps with, and
\* no statement that fails.
THEOREM OnlyWantEmpties == ServiceSpec => EmptiedForWantOfSubstitutes
<1>1. ServiceTyped /\ ServiceRows /\ [ServiceNext]_serviceVars =>
        [\A p \in PRs :
           reviewers[p] # {} /\ reviewers'[p] = {} =>
             \E w \in Workers : WritesEmptyList(w, p)]_serviceVars
  BY Emptied
<1> QED
  BY <1>1, ServiceTypedInit, ServiceTypedNext, ServiceRowsInit,
     ServiceRowsNext, PTL DEF ServiceSpec, EmptiedForWantOfSubstitutes
=============================================================================
