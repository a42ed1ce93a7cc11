---------------------- MODULE PullRequestsSafetyProofs ----------------------
(***************************************************************************)
(* The safety properties of PullRequests, for any users, teams, pull       *)
(* requests and workers: each layer of IInv is preserved by every step in  *)
(* which the layers it rests on hold, and IInv implies the properties.     *)
(***************************************************************************)
EXTENDS PullRequestsTypeProofs

\* What a step of another worker leaves of v: all of its own state, and its
\* transaction but for rows its DELETE need no longer wait for.
KeptBy(v) ==
  /\ pc'[v] = pc[v] /\ req'[v] = req[v] /\ reply'[v] = reply[v]
  /\ pr'[v] = pr[v] /\ fromTeam'[v] = fromTeam[v] /\ todo'[v] = todo[v]
  /\ tx'[v].pr = tx[v].pr /\ tx'[v].author = tx[v].author
  /\ tx'[v].deleted = tx[v].deleted /\ tx'[v].inserted = tx[v].inserted
  /\ tx'[v].seen \subseteq tx[v].seen

\* A step of worker w leaves of every other worker what KeptBy says.
LEMMA Frame ==
  ASSUME Basics, NEW w \in Workers, WorkerStep(w),
         NEW v \in Workers, v # w
  PROVE  KeptBy(v)
<1>1. /\ pc \in [Workers -> PCs] /\ tx \in [Workers -> Transactions]
      /\ req \in [Workers -> Requests \cup {NoRequest}]
      /\ reply \in [Workers -> Codes]
      /\ pr \in [Workers -> [author : Users \cup {None}, status : Statuses,
                             reviewers : SUBSET Users]]
      /\ fromTeam \in [Workers -> Teams \cup {None}]
      /\ todo \in [Workers -> SUBSET Users]
  BY DEF Basics, TypeOK, StoreTypeOK, LocalsTypeOK
<1>2. pc'[v] = pc[v] /\ req'[v] = req[v] /\ reply'[v] = reply[v]
  BY <1>1 DEF WorkerStep, Step, CreateStep, ReassignStep, Receive,
     CheckPRExists, ReadAuthor, SelectReviewers, InsertPR, CommitPR,
     ReadHeader, ReadReviewers, SetMerged, ReadOldUser, PickReplacement,
     IssueDelete, LockRows, InsertRow, CommitReassign, BreakDeadlock, Fail,
     AnswerWritten, Answer, Continue
<1>3. pr'[v] = pr[v] /\ fromTeam'[v] = fromTeam[v] /\ todo'[v] = todo[v]
  BY <1>1 DEF WorkerStep, Step, CreateStep, ReassignStep, Receive,
     CheckPRExists, ReadAuthor, SelectReviewers, InsertPR, CommitPR,
     ReadHeader, ReadReviewers, SetMerged, ReadOldUser, PickReplacement,
     IssueDelete, LockRows, InsertRow, CommitReassign, BreakDeadlock, Fail,
     AnswerWritten, Answer
<1>4. \/ tx'[v] = tx[v]
      \/ CommitReviewers(w)
  BY <1>1 DEF WorkerStep, Step, CreateStep, ReassignStep, Receive,
     CheckPRExists, ReadAuthor, SelectReviewers, InsertPR, CommitPR,
     ReadHeader, ReadReviewers, SetMerged, ReadOldUser, PickReplacement,
     IssueDelete, LockRows, InsertRow, CommitReassign, BreakDeadlock, Fail,
     InsertPullRequest, CommitPullRequest, UpdatePullRequestStatus,
     StartDeleteReviewers, FinishDeleteReviewers, InsertReviewer, Rollback
<1>5. CASE CommitReviewers(w)
  BY <1>1, <1>2, <1>3, <1>5 DEF CommitReviewers, Transactions, KeptBy
<1> QED BY <1>2, <1>3, <1>4, <1>5 DEF KeptBy

\* From which statement a worker gets to each other one.
LEMMA Sources ==
  ASSUME Basics, NEW w \in Workers, WorkerStep(w)
  PROVE  /\ pc'[w] \in {"exists", "header"} => Receive(w)
         /\ pc'[w] = "author" => CheckPRExists(w)
         /\ pc'[w] = "candidates" => ReadAuthor(w)
         /\ pc'[w] = "insertpr" => SelectReviewers(w)
         /\ pc'[w] = "commitpr" => InsertPR(w)
         /\ pc'[w] = "reviewers" => ReadHeader(w)
         /\ pc'[w] \in {"setstatus", "olduser"} => ReadReviewers(w)
         /\ pc'[w] = "pick" => ReadOldUser(w)
         /\ pc'[w] = "delete" => PickReplacement(w)
         /\ pc'[w] = "locking" => IssueDelete(w)
         /\ pc'[w] = "inserting" => LockRows(w) \/ InsertRow(w)
<1>1. pc \in [Workers -> PCs]
  BY DEF Basics, TypeOK, LocalsTypeOK
<1>2. CASE Receive(w)
  <2>1. PICK r \in Requests : pc' = [pc EXCEPT ![w] = Entry[r.op]]
    BY <1>2 DEF Receive
  <2> QED BY <1>1, <1>2, <2>1, RequestFacts DEF Entry, Operations
<1>3. CASE Fail(w) \/ CommitPR(w) \/ SetMerged(w) \/ CommitReassign(w) \/ BreakDeadlock(w)
  BY <1>1, <1>3 DEF Fail, CommitPR, SetMerged, CommitReassign, BreakDeadlock,
     AnswerWritten, Answer
<1>4. CASE CheckPRExists(w) \/ ReadAuthor(w) \/ SelectReviewers(w)
           \/ InsertPR(w) \/ ReadHeader(w) \/ ReadReviewers(w)
           \/ ReadOldUser(w) \/ PickReplacement(w)
           \/ IssueDelete(w) \/ LockRows(w) \/ InsertRow(w)
  <2>1. pc'[w] = "idle" \/ Continue(w, pc'[w])
    BY <1>1, <1>4 DEF CheckPRExists, ReadAuthor, SelectReviewers, InsertPR, ReadHeader, ReadReviewers, ReadOldUser, PickReplacement, IssueDelete, LockRows, InsertRow, Answer, Continue
  <2> QED
  BY <1>1, <1>4 DEF CheckPRExists, ReadAuthor, SelectReviewers, InsertPR,
     ReadHeader, ReadReviewers, ReadOldUser, PickReplacement, IssueDelete,
     LockRows, InsertRow, Answer, Continue
<1> QED BY <1>2, <1>3, <1>4 DEF WorkerStep, Step, CreateStep, ReassignStep

\* Only three statements of these endpoints change a table of pull requests.
LEMMA Writers ==
  ASSUME NEW w \in Workers, WorkerStep(w)
  PROVE  /\ UNCHANGED userTable
         /\ \/ UNCHANGED prTables
            \/ CommitPR(w) \/ SetMerged(w) \/ CommitReassign(w)
  BY DEF WorkerStep, Step, CreateStep, ReassignStep, Receive,
     CheckPRExists, ReadAuthor, SelectReviewers, InsertPR, CommitPR,
     ReadHeader, ReadReviewers, SetMerged, ReadOldUser, PickReplacement,
     IssueDelete, LockRows, InsertRow, CommitReassign, BreakDeadlock, Fail,
     InsertPullRequest, CommitPullRequest, UpdatePullRequestStatus,
     CommitReviewers, StartDeleteReviewers, FinishDeleteReviewers,
     InsertReviewer, Rollback, tables, userTable, prTables

-----------------------------------------------------------------------------
\* Whoever opens a create transaction finds no row and no other inserter.
LEMMA InsertingAlone ==
  ASSUME Basics, NEW w \in Workers, InsertPR(w), pc'[w] = "commitpr"
  PROVE  /\ author[req[w].pr] = None
         /\ req[w].pr \in PRs /\ req'[w] = req[w]
         /\ UNCHANGED prTables
         /\ \A v \in Workers \ {w} :
              ~(pc[v] = "commitpr" /\ req[v].pr = req[w].pr)
<1>1. pc[w] = "insertpr" /\ pc \in [Workers -> PCs]
  BY DEF InsertPR, Basics, TypeOK, LocalsTypeOK
<1>2. /\ InsertPullRequest(w, req[w].pr, req[w].user)
      /\ Continue(w, "commitpr")
  BY <1>1 DEF InsertPR, Answer
<1>3. ASSUME NEW v \in Workers \ {w}, pc[v] = "commitpr", req[v].pr = req[w].pr
      PROVE  FALSE
  <2>1. tx[v].pr = req[w].pr /\ tx[v].author \in Users
    BY <1>3, RequestOf DEF Basics, TxOK, TxPhase, CreatePCs
  <2> QED BY <1>2, <2>1, StoreAssumption DEF InsertPullRequest, OthersInsertingPR
<1> QED
  BY <1>1, <1>2, <1>3, RequestOf
     DEF InsertPullRequest, PRExists, Continue, tables, prTables

\* A row of pull_requests keeps its author; only a create adds one.
LEMMA AuthorKept ==
  ASSUME Basics, Rows, NEW w \in Workers, WorkerStep(w), NEW p \in PRs
  PROVE  /\ author[p] # None => author'[p] = author[p]
         /\ author'[p] # author[p] =>
              CommitPR(w) /\ pc[w] = "commitpr" /\ p = req[w].pr
<1>1. CASE CommitPR(w)
  <2>1. pc[w] = "commitpr" /\ tx[w].pr = req[w].pr /\ CommitPullRequest(w, todo[w])
    BY <1>1 DEF CommitPR, Basics, TxOK, TxPhase
  <2>2. author[req[w].pr] = None
    BY <2>1 DEF Rows, PRPhase
  <2> QED
    BY <1>1, <2>1, <2>2 DEF CommitPullRequest, Basics, TypeOK, StoreTypeOK
<1>2. CASE UNCHANGED author
  BY <1>2
<1> QED
  BY <1>1, <1>2, Writers
     DEF prTables, SetMerged, UpdatePullRequestStatus, CommitReassign,
         CommitReviewers

\* Between reading a pull request and replacing its reviewers, a reassignment
\* keeps what it has read and writes no row of a table.
LEMMA ReassignmentKeeps ==
  ASSUME Basics, NEW w \in Workers, WorkerStep(w),
         pc'[w] \in ReassignPCs \ {"olduser"}
  PROVE  /\ pc[w] \in ReassignPCs
         /\ pr'[w] = pr[w] /\ req'[w] = req[w]
         /\ UNCHANGED prTables
<1>1. CASE ReadOldUser(w) \/ PickReplacement(w)
  BY <1>1 DEF ReadOldUser, PickReplacement, Answer, Continue, tables, prTables,
     Basics, TypeOK, LocalsTypeOK, ReassignPCs
<1>2. CASE IssueDelete(w) \/ LockRows(w) \/ InsertRow(w)
  BY <1>2 DEF IssueDelete, LockRows, InsertRow, Answer, Continue,
     StartDeleteReviewers, FinishDeleteReviewers, InsertReviewer, tables,
     prTables, Basics, TypeOK, LocalsTypeOK, ReassignPCs
<1> QED BY <1>1, <1>2, Sources DEF ReassignPCs

\* What a worker knows after the second query of GetPullRequest.
LEMMA Reading ==
  ASSUME Basics, NEW w \in Workers, ReadReviewers(w), pc'[w] # "idle"
  PROVE  /\ pc[w] = "reviewers" /\ req'[w] = req[w] /\ ~IsMerged(w)
         /\ pr'[w].author = pr[w].author
         /\ pr'[w].reviewers = reviewers[req[w].pr]
         /\ UNCHANGED <<prTables, tx>>
         /\ pc'[w] = "olduser" => req[w].user \in reviewers[req[w].pr]
  BY DEF ReadReviewers, Answer, Continue, tables, prTables, Basics, TypeOK,
     LocalsTypeOK

\* The layer Rows is preserved by every step.
LEMMA RowsNext == Basics /\ Rows /\ [Next]_vars => Rows'
<1> SUFFICES ASSUME Basics, Rows, [Next]_vars PROVE Rows'
  OBVIOUS
<1>1. CASE UNCHANGED <<prTables, tx, locals>>
  BY <1>1 DEF Rows, RowsConsistent, SoleInserter, PRPhase, prTables, locals
<1>2. ASSUME NEW w \in Workers, WorkerStep(w) PROVE Rows'
  <2>1. RowsConsistent'
    <3>1. CASE CommitPR(w)
      <4>1. tx[w].author # None /\ CommitPullRequest(w, todo[w])
        BY <3>1, RequestOf, StoreAssumption
           DEF CommitPR, Basics, TxOK, TxPhase, CreatePCs
      <4> QED
        BY <4>1 DEF CommitPullRequest, Rows, RowsConsistent, Basics, TypeOK,
                    StoreTypeOK
    <3>2. CASE SetMerged(w)
      <4>1. /\ author[req[w].pr] # None /\ req[w].pr \in PRs
            /\ UpdatePullRequestStatus(w, req[w].pr)
        BY <3>2, RequestOf DEF SetMerged, Rows, PRPhase
      <4> QED
        BY <4>1 DEF UpdatePullRequestStatus, Rows, RowsConsistent, Basics,
                    TypeOK, StoreTypeOK
    <3>3. CASE CommitReassign(w)
      <4>1. /\ author[req[w].pr] # None /\ tx[w].pr = req[w].pr
            /\ CommitReviewers(w)
        BY <3>3 DEF CommitReassign, Rows, PRPhase, ReassignPCs, Basics, TxOK,
                    TxPhase
      <4> QED
        BY <4>1 DEF CommitReviewers, Rows, RowsConsistent, Basics, TypeOK,
                    StoreTypeOK
    <3> QED
      BY <1>2, <3>1, <3>2, <3>3, Writers DEF prTables, Rows, RowsConsistent
  <2>2. SoleInserter'
    <3>1. ASSUME NEW v \in Workers \ {w}, pc'[w] = "commitpr",
                 pc'[v] = "commitpr", req'[v].pr = req'[w].pr
          PROVE  FALSE
      BY <1>2, <3>1, Frame, Sources, InsertingAlone DEF KeptBy
    <3> QED BY <1>2, <3>1, Frame DEF KeptBy, Rows, SoleInserter
  <2>3. ASSUME NEW v \in Workers, v # w PROVE PRPhase(v)'
    <3>1. KeptBy(v) /\ PRPhase(v)
      BY <1>2, <2>3, Frame DEF Rows
    <3>2. pc[v] # "idle" => req[v].pr \in PRs
      BY RequestOf
    <3>3. ~(pc[v] = "commitpr" /\ pc[w] = "commitpr" /\ req[v].pr = req[w].pr)
      BY <2>3 DEF Rows, SoleInserter
    <3> QED
      BY <1>2, <3>1, <3>2, <3>3, AuthorKept
         DEF KeptBy, PRPhase, ReassignPCs
  <2>4. PRPhase(w)'
    <3>1. CASE pc'[w] = "commitpr"
      BY <1>2, <3>1, Sources, InsertingAlone DEF PRPhase, ReassignPCs, prTables
    <3>2. CASE pc'[w] = "reviewers"
      <4>1. /\ pc[w] = "header" /\ PRExists(req[w].pr)
            /\ pr' = [pr EXCEPT ![w] = [author |-> author[req[w].pr],
                                        status |-> status[req[w].pr],
                                        reviewers |-> {}]]
            /\ req' = req /\ author' = author
        BY <1>2, <3>2, Sources
           DEF ReadHeader, Answer, Continue, tables, Basics, TypeOK,
               LocalsTypeOK
      <4> QED
        BY <3>2, <4>1
           DEF PRExists, PRPhase, ReassignPCs, Basics, TypeOK, LocalsTypeOK
    <3>3. CASE pc'[w] \in {"setstatus"} \cup ReassignPCs
      <4>1. /\ pc[w] \in {"reviewers"} \cup ReassignPCs
            /\ pr'[w].author = pr[w].author /\ req'[w] = req[w]
            /\ author' = author
        BY <1>2, <3>3, Sources, Reading, ReassignmentKeeps
           DEF prTables, ReassignPCs
      <4> QED BY <3>3, <4>1 DEF Rows, PRPhase, ReassignPCs
    <3> QED BY <3>1, <3>2, <3>3 DEF PRPhase
  <2> QED BY <2>1, <2>2, <2>3, <2>4 DEF Rows
<1>3. CASE UsersStep
  BY <1>1, <1>3 DEF UsersStep, UpdateUserIsActive, CreateOrUpdateUser
<1>4. CASE UNCHANGED vars
  BY <1>1, <1>4 DEF vars, tables, prTables
<1> QED BY <1>2, <1>3, <1>4 DEF Next, WorkerStep

-----------------------------------------------------------------------------
\* What a reassignment has begun to write it goes on writing.
LEMMA Pending ==
  ASSUME Basics, NEW w \in Workers, WorkerStep(w),
         pc'[w] \in {"locking", "inserting"}
  PROVE  /\ pc[w] \in WritePCs
         /\ todo'[w] \cup tx'[w].inserted = todo[w] \cup tx[w].inserted
<1>1. /\ tx \in [Workers -> Transactions] /\ todo \in [Workers -> SUBSET Users]
      /\ pc \in [Workers -> PCs]
  BY DEF Basics, TypeOK, StoreTypeOK, LocalsTypeOK
<1>2. CASE IssueDelete(w)
  <2>1. pc[w] = "delete" /\ todo'[w] = todo[w] /\ tx'[w].inserted = {}
    BY <1>1, <1>2 DEF IssueDelete, StartDeleteReviewers, NoTx
  <2>2. tx[w].inserted = {}
    BY <2>1 DEF Basics, TxOK, TxPhase, TxPCs, NoTx
  <2> QED BY <2>1, <2>2 DEF WritePCs
<1>3. CASE LockRows(w)
  BY <1>1, <1>3 DEF LockRows, FinishDeleteReviewers, Transactions, WritePCs
<1>4. CASE InsertRow(w)
  <2>1. PICK u \in todo[w] : /\ InsertReviewer(w, u)
                             /\ todo' = [todo EXCEPT ![w] = @ \ {u}]
    BY <1>1, <1>4 DEF InsertRow, NextRows, Answer
  <2>2. tx'[w].inserted = tx[w].inserted \cup {u}
    BY <1>1, <2>1 DEF InsertReviewer, Transactions
  <2> QED BY <1>1, <1>4, <2>1, <2>2 DEF InsertRow, WritePCs
<1> QED BY <1>2, <1>3, <1>4, Sources

\* What PickReplacement has chosen from.
LEMMA Picking ==
  ASSUME Basics, NEW w \in Workers, PickReplacement(w), pc'[w] = "delete"
  PROVE  /\ pc[w] = "pick"
         /\ \E new \in ReplacementCandidates(w) :
              todo'[w] = (pr[w].reviewers \ {req[w].user}) \cup {new}
         /\ tx'[w].inserted = {}
<1>1. /\ pc \in [Workers -> PCs] /\ todo \in [Workers -> SUBSET Users]
  BY DEF Basics, TypeOK, LocalsTypeOK
<1>2. pc[w] = "pick" /\ UNCHANGED tx
  BY DEF PickReplacement
<1>3. tx[w].inserted = {}
  BY <1>2 DEF Basics, TxOK, TxPhase, TxPCs, NoTx
<1> QED BY <1>1, <1>2, <1>3 DEF PickReplacement, Answer

\* What SelectReviewers has chosen from.
LEMMA Selecting ==
  ASSUME Basics, NEW w \in Workers, SelectReviewers(w)
  PROVE  /\ pc[w] = "candidates" /\ req'[w] = req[w]
         /\ todo'[w] \subseteq CreateCandidates(w)
  BY DEF SelectReviewers, ReviewerChoices, Continue, Basics, TypeOK,
         LocalsTypeOK

\* Between the choice and the COMMIT a create keeps what it has chosen.
LEMMA Inserting ==
  ASSUME Basics, NEW w \in Workers, InsertPR(w), pc'[w] = "commitpr"
  PROVE  pc[w] = "insertpr" /\ req'[w] = req[w] /\ todo'[w] = todo[w]
  BY DEF InsertPR, Answer, Continue, Basics, TypeOK, LocalsTypeOK

\* What the two transactions that write reviewers leave: a create adds a row
\* and the reviewers it has chosen, ...
LEMMA CommittedPR ==
  ASSUME Basics, NEW w \in Workers, CommitPR(w)
  PROVE  /\ pc[w] = "commitpr" /\ req[w].op = "create"
         /\ req[w].pr \in PRs /\ req[w].user \in Users
         /\ author' = [author EXCEPT ![req[w].pr] = req[w].user]
         /\ status' = [status EXCEPT ![req[w].pr] = "OPEN"]
         /\ reviewers' = [reviewers EXCEPT ![req[w].pr] = todo[w]]
         /\ UNCHANGED mergedAt
  BY RequestOf DEF CommitPR, CommitPullRequest, Basics, TxOK, TxPhase, PhaseOK,
     CreatePCs

\* ... and a reassignment sets its reviewers when it commits.
LEMMA CommittedReassign ==
  ASSUME Basics, NEW w \in Workers, CommitReassign(w)
  PROVE  /\ pc[w] = "inserting" /\ req[w].op = "reassign"
         /\ req[w].pr \in PRs /\ todo[w] = {}
         /\ reviewers' = [reviewers EXCEPT ![req[w].pr] =
                            (@ \ tx[w].deleted) \cup tx[w].inserted]
         /\ UNCHANGED <<author, status, mergedAt>>
  BY RequestOf DEF CommitReassign, CommitReviewers, Basics, TxOK, TxPhase,
     PhaseOK, ReassignPCs

\* The UPDATE of a merge changes the status and the time, and no more.
LEMMA CommittedMerge ==
  ASSUME Basics, NEW w \in Workers, SetMerged(w)
  PROVE  /\ pc[w] = "setstatus" /\ req[w].op = "merge" /\ req[w].pr \in PRs
         /\ status' = [status EXCEPT ![req[w].pr] = "MERGED"]
         /\ mergedAt' = [mergedAt EXCEPT ![req[w].pr] = w]
         /\ UNCHANGED <<author, reviewers>>
  BY RequestOf DEF SetMerged, UpdatePullRequestStatus, Basics, PhaseOK

-----------------------------------------------------------------------------
\* The layer AuthorExcluded is preserved by every step.
LEMMA AuthorExcludedNext ==
  Basics /\ Rows /\ AuthorExcluded /\ [Next]_vars => AuthorExcluded'
<1> SUFFICES ASSUME Basics, Rows, AuthorExcluded, [Next]_vars
             PROVE  AuthorExcluded'
  OBVIOUS
<1>1. CASE UNCHANGED <<prTables, tx, locals>>
  BY <1>1 DEF AuthorExcluded, AuthorNeverReviews, Excluded, prTables, locals
<1>2. ASSUME NEW w \in Workers, WorkerStep(w) PROVE AuthorExcluded'
  <2>1. AuthorNeverReviews'
    <3>1. author \in [PRs -> Users \cup {None}] /\ reviewers \in [PRs -> SUBSET Users]
      BY DEF Basics, TypeOK, StoreTypeOK
    <3>2. CASE CommitPR(w)
      BY <3>1, <3>2, CommittedPR
         DEF AuthorExcluded, AuthorNeverReviews, Excluded
    <3>3. CASE SetMerged(w)
      BY <3>3, CommittedMerge DEF AuthorExcluded, AuthorNeverReviews
    <3>4. CASE CommitReassign(w)
      <4>1. author[req[w].pr] \notin tx[w].inserted
        BY <3>4, CommittedReassign
           DEF AuthorExcluded, Excluded, WritePCs, Rows, PRPhase, ReassignPCs
      <4> QED
        BY <3>1, <3>4, <4>1, CommittedReassign
           DEF AuthorExcluded, AuthorNeverReviews
    <3> QED
      BY <1>2, <3>2, <3>3, <3>4, Writers
         DEF prTables, AuthorExcluded, AuthorNeverReviews
  <2>2. ASSUME NEW v \in Workers, v # w PROVE Excluded(v)'
    BY <1>2, <2>2, Frame DEF KeptBy, AuthorExcluded, Excluded
  <2>3. Excluded(w)'
    <3>1. CASE pc'[w] = "insertpr"
      BY <1>2, <3>1, Sources, Selecting
         DEF CreateCandidates, GetActiveUsersByTeam, Excluded, ReassignPCs,
             WritePCs
    <3>2. CASE pc'[w] = "commitpr"
      BY <1>2, <3>2, Sources, Inserting
         DEF AuthorExcluded, Excluded, ReassignPCs, WritePCs
    <3>3. CASE pc'[w] = "olduser"
      <4>1. ReadReviewers(w) /\ pc'[w] # "idle" /\ req[w].pr \in PRs
        BY <1>2, <3>3, Sources, RequestOf DEF ReadReviewers
      <4> QED
        BY <3>3, <4>1, Reading
           DEF AuthorExcluded, AuthorNeverReviews, Excluded, Rows, PRPhase,
               WritePCs
    <3>4. CASE pc'[w] = "delete"
      <4>1. PickReplacement(w) /\ pr'[w] = pr[w]
        BY <1>2, <3>4, Sources, ReassignmentKeeps DEF ReassignPCs
      <4>2. pr[w].author \notin pr[w].reviewers
        BY <3>4, <4>1, Picking DEF AuthorExcluded, Excluded, ReassignPCs
      <4> QED
        BY <3>4, <4>1, <4>2, Picking DEF ReplacementCandidates, Excluded
    <3>5. CASE pc'[w] \in {"pick", "locking", "inserting"}
      BY <1>2, <3>5, ReassignmentKeeps, Pending
         DEF AuthorExcluded, Excluded, ReassignPCs, WritePCs
    <3> QED
      BY <3>1, <3>2, <3>3, <3>4, <3>5 DEF Excluded, ReassignPCs, WritePCs
  <2> QED BY <2>1, <2>2, <2>3 DEF AuthorExcluded
<1>3. CASE UsersStep
  BY <1>1, <1>3 DEF UsersStep, UpdateUserIsActive, CreateOrUpdateUser
<1>4. CASE UNCHANGED vars
  BY <1>1, <1>4 DEF vars, tables, prTables
<1> QED BY <1>2, <1>3, <1>4 DEF Next, WorkerStep

\* The layer Replacing is preserved by every step.
LEMMA ReplacingNext == Basics /\ Replacing /\ [Next]_vars => Replacing'
<1> SUFFICES ASSUME Basics, Replacing, [Next]_vars PROVE Replacing'
  OBVIOUS
<1>1. CASE UNCHANGED <<tx, locals>>
  BY <1>1 DEF Replacing, Replaces, locals
<1>2. ASSUME NEW w \in Workers, WorkerStep(w) PROVE Replacing'
  <2>1. ASSUME NEW v \in Workers, v # w PROVE Replaces(v)'
    BY <1>2, <2>1, Frame DEF KeptBy, Replacing, Replaces
  <2>2. Replaces(w)'
    <3>1. CASE pc'[w] = "delete"
      BY <1>2, <3>1, Sources, Picking DEF Replaces
    <3>2. CASE pc'[w] \in {"locking", "inserting"}
      BY <1>2, <3>2, Pending DEF Replacing, Replaces
    <3> QED BY <3>1, <3>2 DEF Replaces, WritePCs
  <2> QED BY <2>1, <2>2 DEF Replacing
<1>3. CASE UsersStep
  BY <1>1, <1>3 DEF UsersStep, UpdateUserIsActive, CreateOrUpdateUser
<1>4. CASE UNCHANGED vars
  BY <1>1, <1>4 DEF vars
<1> QED BY <1>2, <1>3, <1>4 DEF Next, WorkerStep

-----------------------------------------------------------------------------
\* A worker outside a transaction, or with one just begun, owns no key; the
\* steps that acquire keys find them free.
LEMMA KeysAcquired ==
  ASSUME Basics, NEW w \in Workers, WorkerStep(w), Keys(w)' # {},
         NEW v \in Workers, v # w, tx[v].pr = tx'[w].pr,
         Keys(v) \cap Keys(w) = {} \/ tx[v].pr # tx[w].pr
  PROVE  Keys(v) \cap Keys(w)' = {}
<1>1. Basics'
  BY BasicsNext DEF WorkerStep, Next
<1>2. pc'[w] \in {"locking", "inserting"}
  BY <1>1 DEF Basics, TxOK, TxPhase, TxPCs, NoTx, Keys
<1>3. tx \in [Workers -> Transactions] /\ pc \in [Workers -> PCs]
  BY DEF Basics, TypeOK, StoreTypeOK, LocalsTypeOK
<1>4. CASE IssueDelete(w)
  BY <1>3, <1>4 DEF IssueDelete, StartDeleteReviewers, NoTx, Keys
<1>5. CASE LockRows(w)
  <2>1. pc[w] = "locking" /\ FinishDeleteReviewers(w)
    BY <1>5 DEF LockRows
  <2>2. tx[w].inserted = {}
    BY <2>1 DEF Basics, TxOK, TxPhase
  <2>3. Keys(w)' = tx[w].seen /\ tx'[w].pr = tx[w].pr
    BY <1>3, <2>1, <2>2 DEF FinishDeleteReviewers, Keys, Transactions
  <2> QED BY <2>1, <2>3 DEF FinishDeleteReviewers, Holders, Keys
<1>6. CASE InsertRow(w)
  <2>1. PICK u : InsertReviewer(w, u)
    BY <1>2, <1>3, <1>6 DEF InsertRow, Answer
  <2>2. Keys(w)' = Keys(w) \cup {u} /\ tx'[w].pr = tx[w].pr
    BY <1>3, <2>1 DEF InsertReviewer, Keys, Transactions
  <2> QED BY <2>1, <2>2 DEF InsertReviewer, Holders, Keys
<1> QED BY <1>2, <1>4, <1>5, <1>6, Sources

\* The layer Locks is preserved by every step.
LEMMA LocksNext == Basics /\ Rows /\ Locks /\ [Next]_vars => Locks'
<1> SUFFICES ASSUME Basics, Rows, Locks, [Next]_vars PROVE Locks'
  OBVIOUS
<1>1. CASE UNCHANGED <<prTables, tx, locals>>
  BY <1>1 DEF Locks, SoleOwners, OwnRows, Keys, prTables, locals
<1>2. ASSUME NEW w \in Workers, WorkerStep(w) PROVE Locks'
  <2>1. SoleOwners'
    <3>1. ASSUME NEW v \in Workers, v # w, tx'[v].pr = tx'[w].pr
          PROVE  Keys(v)' \cap Keys(w)' = {}
      <4>1. Keys(v)' = Keys(v) /\ tx'[v].pr = tx[v].pr
        BY <1>2, <3>1, Frame DEF KeptBy, Keys
      <4>2. Keys(v) \cap Keys(w) = {} \/ tx[v].pr # tx[w].pr
        BY <3>1 DEF Locks, SoleOwners
      <4> QED BY <1>2, <3>1, <4>1, <4>2, KeysAcquired
    <3>2. ASSUME NEW v \in Workers, NEW u \in Workers, v # u, v # w, u # w,
                 tx'[v].pr = tx'[u].pr
          PROVE  Keys(v)' \cap Keys(u)' = {}
      BY <1>2, <3>2, Frame DEF KeptBy, Keys, Locks, SoleOwners
    <3> QED BY <3>1, <3>2 DEF SoleOwners
  <2>2. ASSUME NEW v \in Workers, v # w PROVE OwnRows(v)'
    <3> SUFFICES ASSUME pc[v] \in {"locking", "inserting"}
                 PROVE  OwnRows(v)'
      BY <1>2, <2>2, Frame DEF KeptBy, OwnRows
    <3> DEFINE p == req[v].pr
    <3>1. KeptBy(v) /\ p \in PRs /\ tx[v].pr = p /\ author[p] # None
      BY <1>2, <2>2, Frame, RequestOf
         DEF Basics, TxOK, TxPhase, Rows, PRPhase, ReassignPCs
    <3>2. /\ tx[v].seen \cup tx[v].deleted \subseteq reviewers[p]
          /\ tx[v].inserted \cap reviewers[p] \subseteq tx[v].deleted
      BY DEF Locks, OwnRows
    <3>3. CASE reviewers'[p] = reviewers[p]
      BY <3>1, <3>2, <3>3 DEF KeptBy, OwnRows
    <3>4. CASE CommitPR(w)
      <4>1. p # req[w].pr
        BY <3>1, <3>4, CommittedPR DEF Rows, PRPhase
      <4> QED
        BY <3>1, <3>3, <3>4, <4>1, CommittedPR
           DEF Basics, TypeOK, StoreTypeOK
    <3>5. CASE CommitReassign(w) /\ req[w].pr = p
      <4>1. /\ reviewers'[p] = (reviewers[p] \ tx[w].deleted) \cup tx[w].inserted
            /\ tx[w].pr = p
        BY <3>1, <3>5, CommittedReassign
           DEF Basics, TypeOK, StoreTypeOK, TxOK, TxPhase
      <4>2. Keys(v) \cap Keys(w) = {}
        BY <2>2, <3>1, <4>1 DEF Locks, SoleOwners
      <4>3. tx'[v].seen = tx[v].seen \ tx[w].deleted
        BY <2>2, <3>1, <3>5, <4>1
           DEF CommitReassign, CommitReviewers, Basics, TypeOK, StoreTypeOK,
               Transactions
      <4> QED BY <3>1, <3>2, <4>1, <4>2, <4>3 DEF KeptBy, OwnRows, Keys
    <3>6. CASE CommitReassign(w) /\ req[w].pr # p
      BY <3>1, <3>3, <3>6, CommittedReassign DEF Basics, TypeOK, StoreTypeOK
    <3> QED
      BY <1>2, <3>3, <3>4, <3>5, <3>6, Writers, CommittedMerge DEF prTables
  <2>3. OwnRows(w)'
    <3>1. tx \in [Workers -> Transactions] /\ pc \in [Workers -> PCs]
          /\ reviewers \in [PRs -> SUBSET Users]
      BY DEF Basics, TypeOK, StoreTypeOK, LocalsTypeOK
    <3> SUFFICES ASSUME pc'[w] \in {"locking", "inserting"}
                 PROVE  OwnRows(w)'
      BY DEF OwnRows
    <3>2. req'[w] = req[w] /\ reviewers' = reviewers
      BY <1>2, ReassignmentKeeps DEF ReassignPCs, prTables
    <3>3. CASE IssueDelete(w)
      BY <3>1, <3>2, <3>3
         DEF IssueDelete, StartDeleteReviewers, NoTx, OwnRows
    <3>4. CASE LockRows(w)
      <4>1. pc[w] = "locking" /\ FinishDeleteReviewers(w)
        BY <3>4 DEF LockRows
      <4>2. tx[w].inserted = {}
        BY <4>1 DEF Basics, TxOK, TxPhase
      <4>3. /\ tx'[w].seen = {} /\ tx'[w].deleted = tx[w].seen
            /\ tx'[w].inserted = {}
        BY <3>1, <4>1, <4>2 DEF FinishDeleteReviewers, Transactions
      <4> QED BY <3>2, <4>1, <4>3 DEF Locks, OwnRows
    <3>5. CASE InsertRow(w)
      <4>1. pc[w] = "inserting" /\ \E u : InsertReviewer(w, u)
        BY <3>1, <3>5 DEF InsertRow, Answer
      <4>2. PICK u : InsertReviewer(w, u)
        BY <4>1
      <4>3. /\ tx'[w].seen = tx[w].seen /\ tx'[w].deleted = tx[w].deleted
            /\ tx'[w].inserted = tx[w].inserted \cup {u}
        BY <3>1, <4>2 DEF InsertReviewer, Transactions
      <4>4. u \notin reviewers[req[w].pr] \ tx[w].deleted
        BY <4>1, <4>2
           DEF InsertReviewer, DuplicateReviewer, Basics, TxOK, TxPhase
      <4> QED BY <3>2, <4>1, <4>3, <4>4 DEF Locks, OwnRows
    <3> QED BY <1>2, <3>3, <3>4, <3>5, Sources
  <2> QED BY <2>1, <2>2, <2>3 DEF Locks
<1>3. CASE UsersStep
  BY <1>1, <1>3 DEF UsersStep, UpdateUserIsActive, CreateOrUpdateUser
<1>4. CASE UNCHANGED vars
  BY <1>1, <1>4 DEF vars, tables, prTables
<1> QED BY <1>2, <1>3, <1>4 DEF Next, WorkerStep

-----------------------------------------------------------------------------
\* The answers a step may give.
LEMMA GivenAnswers ==
  ASSUME TypeOK, NEW w \in Workers, WorkerStep(w)
  PROVE  \/ reply'[w] = "none"
         \/ /\ req'[w] = req[w]
            /\ \/ reply'[w] = reply[w]
               \/ reply'[w] \in {"PR_EXISTS", "NOT_FOUND", "NOT_ASSIGNED",
                                 "NO_CANDIDATE", "ERROR"}
               \/ (CommitPR(w) \/ SetMerged(w) \/ CommitReassign(w))
                    /\ reply'[w] = "OK"
               \/ /\ pc[w] = "reviewers" /\ IsMerged(w)
                  /\ reply'[w] \in {"OK", "PR_MERGED"}
                  /\ req[w].op \in {"merge", "reassign"}
<1>1. reply \in [Workers -> Codes]
  BY DEF TypeOK, LocalsTypeOK
<1>2. CASE Receive(w)
  BY <1>1, <1>2 DEF Receive
<1>3. CASE CheckPRExists(w) \/ ReadAuthor(w) \/ SelectReviewers(w)
           \/ InsertPR(w) \/ ReadHeader(w) \/ ReadOldUser(w)
           \/ PickReplacement(w) \/ IssueDelete(w) \/ LockRows(w)
           \/ InsertRow(w) \/ BreakDeadlock(w) \/ Fail(w)
  BY <1>1, <1>3 DEF CheckPRExists, ReadAuthor, SelectReviewers, InsertPR,
     ReadHeader, ReadOldUser, PickReplacement, IssueDelete, LockRows,
     InsertRow, BreakDeadlock, Fail, Answer, Continue
<1>4. CASE ReadReviewers(w)
  BY <1>1, <1>4 DEF ReadReviewers, Answer, Continue
<1>5. CASE CommitPR(w) \/ SetMerged(w) \/ CommitReassign(w)
  BY <1>1, <1>5 DEF CommitPR, SetMerged, CommitReassign, AnswerWritten, Answer
<1> QED
  BY <1>2, <1>3, <1>4, <1>5 DEF WorkerStep, Step, CreateStep, ReassignStep

\* The layer Creations is preserved by every step.
LEMMA CreationsNext == Basics /\ Rows /\ Creations /\ [Next]_vars => Creations'
<1> SUFFICES ASSUME Basics, Rows, Creations, [Next]_vars PROVE Creations'
  OBVIOUS
<1>1. CASE UNCHANGED <<prTables, locals>>
  BY <1>1 DEF Creations, HasCreated, prTables, locals
<1>2. ASSUME NEW w \in Workers, WorkerStep(w) PROVE Creations'
  <2>1. ASSUME NEW v \in Workers, NEW p \in PRs, HasCreated(v, p)'
        PROVE  \/ HasCreated(v, p)
               \/ v = w /\ CommitPR(w) /\ p = req[w].pr /\ req'[w] = req[w]
    <3>1. CASE v # w
      BY <1>2, <2>1, <3>1, Frame DEF KeptBy, HasCreated
    <3>2. CASE v = w
      <4>1. req'[w].op = "create" /\ reply'[w] = "OK" /\ req'[w].pr = p
        BY <2>1, <3>2 DEF HasCreated
      <4>2. pc[w] = "reviewers" => req[w].op # "create" \/ ~IsMerged(w)
                                   \/ req'[w].op # "create"
        BY DEF Basics, PhaseOK, ReadPCs
      <4>3. /\ SetMerged(w) => req[w].op = "merge"
            /\ CommitReassign(w) => req[w].op = "reassign"
            /\ pc[w] = "reviewers" => req[w].op \in {"merge", "reassign"}
        BY CommittedMerge, CommittedReassign DEF Basics, PhaseOK, ReadPCs
      <4> QED
        BY <1>2, <3>2, <4>1, <4>3, GivenAnswers DEF HasCreated, Basics
    <3> QED BY <3>1, <3>2
  <2>2. ASSUME NEW v \in Workers, NEW p \in PRs, HasCreated(v, p)
        PROVE  author[p] # None /\ author'[p] = author[p] /\ author[p] = req[v].user
    BY <1>2, <2>2, AuthorKept DEF Creations
  <2>3. ASSUME CommitPR(w)
        PROVE  /\ author[req[w].pr] = None /\ req[w].user # None
               /\ author'[req[w].pr] = req[w].user
    BY <2>3, CommittedPR, StoreAssumption
       DEF Rows, PRPhase, Basics, TypeOK, StoreTypeOK
  <2>4. ASSUME NEW v \in Workers, NEW p \in PRs, HasCreated(v, p)'
        PROVE  author'[p] = req'[v].user /\ author'[p] # None
    <3>1. CASE HasCreated(v, p)
      <4>1. req'[v] = req[v]
        BY <1>2, <2>4, <3>1, Frame, GivenAnswers
           DEF KeptBy, HasCreated, Basics
      <4> QED BY <2>2, <3>1, <4>1
    <3> QED BY <2>1, <2>3, <2>4, <3>1
  <2>5. ASSUME NEW v \in Workers, NEW u \in Workers, v # u, NEW p \in PRs,
               HasCreated(v, p)', HasCreated(u, p)'
        PROVE  FALSE
    BY <2>1, <2>2, <2>3, <2>5 DEF Creations
  <2> QED BY <2>4, <2>5 DEF Creations
<1>3. CASE UsersStep
  BY <1>1, <1>3 DEF UsersStep, UpdateUserIsActive, CreateOrUpdateUser
<1>4. CASE UNCHANGED vars
  BY <1>1, <1>4 DEF vars, tables, prTables
<1> QED BY <1>2, <1>3, <1>4 DEF Next, WorkerStep

\* The layer Merges is preserved by every step.
LEMMA MergesNext == Basics /\ Rows /\ Merges /\ [Next]_vars => Merges'
<1> SUFFICES ASSUME Basics, Rows, Merges, [Next]_vars PROVE Merges'
  OBVIOUS
<1>1. CASE UNCHANGED <<prTables, locals>>
  BY <1>1 DEF Merges, KnowsMerged, Merged, IsMerged, prTables, locals
<1>2. ASSUME NEW w \in Workers, WorkerStep(w) PROVE Merges'
  <2>1. status \in [PRs -> Statuses] /\ mergedAt \in [PRs -> Workers \cup {None}]
    BY DEF Basics, TypeOK, StoreTypeOK
  <2>2. ASSUME NEW p \in PRs PROVE Merged(p) => Merged(p)'
    <3>1. CASE CommitPR(w)
      <4>1. author[req[w].pr] = None /\ status[req[w].pr] = "OPEN"
        BY <3>1, CommittedPR DEF Rows, RowsConsistent, PRPhase
      <4> QED BY <2>1, <3>1, <4>1, CommittedPR DEF Merged
    <3>2. CASE SetMerged(w)
      BY <2>1, <3>2, CommittedMerge, StoreAssumption DEF Merged
    <3>3. CASE CommitReassign(w)
      BY <3>3, CommittedReassign DEF Merged
    <3> QED BY <1>2, <3>1, <3>2, <3>3, Writers DEF prTables, Merged
  <2>3. ASSUME NEW p \in PRs, status'[p] = "MERGED" PROVE mergedAt'[p] # None
    <3>1. CASE SetMerged(w) /\ p = req[w].pr
      BY <2>1, <3>1, CommittedMerge, StoreAssumption
    <3>2. CASE ~(SetMerged(w) /\ p = req[w].pr)
      <4>1. status[p] = "MERGED"
        BY <1>2, <2>1, <2>3, <3>2, Writers, CommittedPR, CommittedMerge,
           CommittedReassign DEF prTables
      <4> QED BY <2>2, <4>1 DEF Merges, Merged
    <3> QED BY <3>1, <3>2
  <2>4. ASSUME NEW v \in Workers, v # w, KnowsMerged(v)'
        PROVE  (req[v].pr \in PRs /\ Merged(req[v].pr))'
    <3>1. req'[v] = req[v] /\ KnowsMerged(v)
      BY <1>2, <2>4, Frame DEF KeptBy, KnowsMerged, IsMerged
    <3> QED BY <2>2, <3>1 DEF Merges, Merged
  <2>5. ASSUME KnowsMerged(w)' PROVE (req[w].pr \in PRs /\ Merged(req[w].pr))'
    <3>1. CASE pc'[w] = "reviewers" /\ IsMerged(w)'
      <4>1. /\ pc[w] = "header" /\ pr'[w].status = status[req[w].pr]
            /\ req' = req /\ status' = status
        BY <1>2, <3>1, Sources
           DEF ReadHeader, Answer, Continue, tables, Basics, TypeOK,
               LocalsTypeOK
      <4>2. req[w].pr \in PRs
        BY <4>1, RequestOf
      <4> QED BY <2>3, <3>1, <4>1, <4>2 DEF IsMerged, Merged
    <3>2. CASE reply'[w] = "PR_MERGED" \/ (req'[w].op = "merge" /\ reply'[w] = "OK")
      <4>1. CASE req'[w] = req[w] /\ KnowsMerged(w)
        BY <2>2, <4>1 DEF Merges, Merged
      <4>2. CASE SetMerged(w) /\ req'[w] = req[w]
        BY <2>1, <4>2, CommittedMerge, StoreAssumption DEF Merged
      <4>3. /\ CommitPR(w) => req[w].op = "create"
            /\ CommitReassign(w) => req[w].op = "reassign"
        BY CommittedPR, CommittedReassign
      <4> QED
        BY <1>2, <3>2, <4>1, <4>2, <4>3, GivenAnswers
           DEF KnowsMerged, Basics
    <3> QED BY <2>5, <3>1, <3>2 DEF KnowsMerged
  <2> QED BY <2>3, <2>4, <2>5 DEF Merges
<1>3. CASE UsersStep
  BY <1>1, <1>3 DEF UsersStep, UpdateUserIsActive, CreateOrUpdateUser
<1>4. CASE UNCHANGED vars
  BY <1>1, <1>4 DEF vars, tables, prTables
<1> QED BY <1>2, <1>3, <1>4 DEF Next, WorkerStep

\* While nobody moves to another team, Teammates is preserved by every step.
LEMMA TeammatesNext ==
  Basics /\ Rows /\ Teammates /\ [Next /\ NobodyMoves]_vars => Teammates'
<1> SUFFICES ASSUME Basics, Rows, Teammates, [Next /\ NobodyMoves]_vars
             PROVE  /\ \A p \in PRs : OnTeamOf(author[p], reviewers[p])'
                    /\ \A v \in Workers :
                         ReadTeamCurrent(v)' /\ AssignsTeammates(v)'
  BY DEF Teammates
<1> DEFINE ShareTeam == \A p \in PRs : OnTeamOf(author[p], reviewers[p])
<1>1. CASE NobodyMoves /\ UNCHANGED <<prTables, tx, locals>>
  <2>1. ASSUME NEW a \in Users, NEW S \in SUBSET Users, OnTeamOf(a, S)
        PROVE  \A u \in S : team'[u] = team'[a] /\ team'[u] # None
    BY <1>1, <2>1 DEF OnTeamOf, NobodyMoves
  <2>2. ASSUME NEW p \in PRs PROVE OnTeamOf(author[p], reviewers[p])'
    <3>1. CASE reviewers[p] = {}
      BY <1>1, <3>1 DEF OnTeamOf, prTables
    <3>2. CASE reviewers[p] # {}
      <4>1. author[p] \in Users /\ reviewers[p] \in SUBSET Users
        BY <3>2 DEF Rows, RowsConsistent, Basics, TypeOK, StoreTypeOK
      <4> QED BY <1>1, <2>1, <4>1 DEF Teammates, OnTeamOf, prTables
    <3> QED BY <3>1, <3>2
  <2>3. ASSUME NEW v \in Workers
        PROVE  ReadTeamCurrent(v)' /\ AssignsTeammates(v)'
    <3>1. pc[v] \in {"candidates", "pick"} \cup CreatePCs \cup ReassignPCs =>
            req[v].user \in Users
      BY RequestFacts DEF Basics, PhaseOK, CreatePCs, ReassignPCs
    <3>2. pc[v] \in ReassignPCs => pr[v].author \in Users
      BY DEF Rows, PRPhase, Basics, TypeOK, LocalsTypeOK
    <3>3. /\ todo[v] \in SUBSET Users /\ pr[v].reviewers \in SUBSET Users
          /\ tx[v].inserted \in SUBSET Users
      BY DEF Basics, TypeOK, StoreTypeOK, LocalsTypeOK, Transactions
    <3>4. ReadTeamCurrent(v)'
      BY <1>1, <3>1 DEF Teammates, ReadTeamCurrent, NobodyMoves, locals
    <3>5. AssignsTeammates(v)'
      <4>1. pc[v] \in {"insertpr", "commitpr"} =>
              \A u \in todo[v] :
                team'[u] = team'[req[v].user] /\ team'[u] # None
        BY <2>1, <3>1, <3>3 DEF Teammates, AssignsTeammates, CreatePCs
      <4>2. pc[v] \in ReassignPCs =>
              \A u \in pr[v].reviewers \cup {req[v].user} :
                team'[u] = team'[pr[v].author] /\ team'[u] # None
        <5> SUFFICES ASSUME pc[v] \in ReassignPCs
                     PROVE \A u \in pr[v].reviewers \cup {req[v].user} :
                       team'[u] = team'[pr[v].author] /\ team'[u] # None
          OBVIOUS
        <5>1. OnTeamOf(pr[v].author, pr[v].reviewers \cup {req[v].user})
          BY DEF Teammates, AssignsTeammates
        <5>2. /\ pr[v].author \in Users
              /\ pr[v].reviewers \cup {req[v].user} \in SUBSET Users
          BY <3>1, <3>2, <3>3
        <5> QED BY <2>1, <5>1, <5>2
      <4>3. pc[v] \in WritePCs =>
              \A u \in todo[v] \cup tx[v].inserted :
                team'[u] = team'[pr[v].author] /\ team'[u] # None
        <5> SUFFICES ASSUME pc[v] \in WritePCs
                     PROVE \A u \in todo[v] \cup tx[v].inserted :
                       team'[u] = team'[pr[v].author] /\ team'[u] # None
          OBVIOUS
        <5>1. OnTeamOf(pr[v].author, todo[v] \cup tx[v].inserted)
          BY DEF Teammates, AssignsTeammates
        <5>2. /\ pr[v].author \in Users
              /\ todo[v] \cup tx[v].inserted \in SUBSET Users
          BY <3>2, <3>3 DEF ReassignPCs, WritePCs
        <5> QED BY <2>1, <5>1, <5>2
      <4> QED
        BY <1>1, <4>1, <4>2, <4>3 DEF AssignsTeammates, OnTeamOf, locals
    <3> QED BY <3>4, <3>5
  <2> QED BY <2>2, <2>3
<1>2. ASSUME NEW w \in Workers, WorkerStep(w)
      PROVE  ShareTeam' /\ \A v \in Workers :
                             ReadTeamCurrent(v)' /\ AssignsTeammates(v)'
  <2>1. team' = team
    BY <1>2, Writers DEF userTable
  <2>2. ShareTeam'
    <3>1. reviewers \in [PRs -> SUBSET Users] /\ author \in [PRs -> Users \cup {None}]
      BY DEF Basics, TypeOK, StoreTypeOK
    <3>2. CASE CommitPR(w)
      BY <2>1, <3>1, <3>2, CommittedPR DEF Teammates, AssignsTeammates, OnTeamOf
    <3>3. CASE CommitReassign(w)
      <4>1. OnTeamOf(author[req[w].pr], tx[w].inserted)
        BY <3>3, CommittedReassign
           DEF Teammates, AssignsTeammates, WritePCs, Rows, PRPhase,
               ReassignPCs
      <4> QED BY <2>1, <3>1, <3>3, <4>1, CommittedReassign
           DEF Teammates, OnTeamOf
    <3> QED
      BY <1>2, <2>1, <3>2, <3>3, Writers, CommittedMerge
         DEF prTables, Teammates, OnTeamOf
  <2>3. ASSUME NEW v \in Workers, v # w
        PROVE  ReadTeamCurrent(v)' /\ AssignsTeammates(v)'
    BY <1>2, <2>1, <2>3, Frame
       DEF KeptBy, Teammates, ReadTeamCurrent, AssignsTeammates, OnTeamOf
  <2>4. ReadTeamCurrent(w)'
    <3>1. CASE ReadAuthor(w) \/ ReadOldUser(w)
      BY <2>1, <3>1
         DEF ReadAuthor, ReadOldUser, Answer, Continue, ReadTeamCurrent, UserExists,
             Basics, TypeOK, LocalsTypeOK
    <3> QED BY <1>2, <3>1, Sources DEF ReadTeamCurrent
  <2>5. AssignsTeammates(w)'
    <3>1. CASE pc'[w] = "insertpr"
      BY <1>2, <2>1, <3>1, Sources, Selecting
         DEF CreateCandidates, GetActiveUsersByTeam, Teammates,
             ReadTeamCurrent, AssignsTeammates, OnTeamOf, ReassignPCs,
             WritePCs
    <3>2. CASE pc'[w] = "commitpr"
      BY <1>2, <2>1, <3>2, Sources, Inserting
         DEF Teammates, AssignsTeammates, OnTeamOf, ReassignPCs, WritePCs
    <3>3. CASE pc'[w] = "olduser"
      <4>1. ReadReviewers(w) /\ pc'[w] # "idle" /\ req[w].pr \in PRs
        BY <1>2, <3>3, Sources, RequestOf DEF ReadReviewers
      <4> QED
        BY <2>1, <3>3, <4>1, Reading
           DEF Teammates, AssignsTeammates, OnTeamOf, Rows, PRPhase, WritePCs
    <3>4. CASE pc'[w] = "delete"
      <4>1. PickReplacement(w) /\ pr'[w] = pr[w] /\ req'[w] = req[w]
        BY <1>2, <3>4, Sources, ReassignmentKeeps DEF ReassignPCs
      <4>2. /\ fromTeam[w] = team[req[w].user]
            /\ fromTeam[w] # None
            /\ OnTeamOf(pr[w].author, pr[w].reviewers \cup {req[w].user})
        BY <3>4, <4>1, Picking
           DEF Teammates, ReadTeamCurrent, AssignsTeammates, ReassignPCs
      <4>3. OnTeamOf(pr[w].author, todo'[w] \cup tx'[w].inserted)
        BY <3>4, <4>1, <4>2, Picking
           DEF ReplacementCandidates, GetActiveUsersByTeam, OnTeamOf
      <4> QED BY <2>1, <3>4, <4>1, <4>2, <4>3
           DEF AssignsTeammates, OnTeamOf
    <3>5. CASE pc'[w] \in {"pick", "locking", "inserting"}
      BY <1>2, <2>1, <3>5, ReassignmentKeeps, Pending
         DEF Teammates, AssignsTeammates, OnTeamOf, ReassignPCs, WritePCs
    <3> QED
      BY <3>1, <3>2, <3>3, <3>4, <3>5
         DEF AssignsTeammates, OnTeamOf, ReassignPCs, WritePCs
  <2> QED BY <2>2, <2>3, <2>4, <2>5
<1>3. CASE UsersStep /\ NobodyMoves
  BY <1>1, <1>3 DEF UsersStep, UpdateUserIsActive, CreateOrUpdateUser
<1>4. CASE UNCHANGED vars
  BY <1>1, <1>4 DEF vars, tables, userTable, prTables, NobodyMoves
<1> QED BY <1>2, <1>3, <1>4 DEF Next, WorkerStep

-----------------------------------------------------------------------------
\* The inductive invariant holds initially.
LEMMA IInvInit == Init => IInv
<1> SUFFICES ASSUME Init PROVE IInv
  OBVIOUS
<1>1. Basics
  BY BasicsInit
<1>2. Rows /\ AuthorExcluded
  BY StoreAssumption
     DEF Init, StoreInit, Rows, RowsConsistent, SoleInserter, PRPhase,
         AuthorExcluded, AuthorNeverReviews, Excluded, ReassignPCs, WritePCs
<1>3. Locks
  BY DEF Init, StoreInit, NoTx, Locks, SoleOwners, Keys, OwnRows
<1>4. Creations /\ Merges /\ Replacing
  BY DEF Init, StoreInit, Creations, HasCreated, Merges, KnowsMerged,
         Replacing, Replaces, WritePCs
<1> QED BY <1>1, <1>2, <1>3, <1>4 DEF IInv

\* Every step preserves it.
LEMMA IInvNext == IInv /\ [Next]_vars => IInv'
  BY BasicsNext, RowsNext, AuthorExcludedNext, LocksNext, CreationsNext,
     MergesNext, ReplacingNext DEF IInv

\* The invariants of the layers hold in every reachable state.
THEOREM Inductive == Spec => []IInv
  BY IInvInit, IInvNext, PTL DEF Spec

\* Nobody ever reviews their own pull request.
THEOREM AuthorsNeverReview == Spec => []AuthorNeverReviews
<1>1. IInv => AuthorNeverReviews
  BY DEF IInv, AuthorExcluded
<1> QED BY <1>1, Inductive, PTL

\* While nobody moves to another team, reviewers are teammates of the author.
THEOREM ReviewersAreTeammates == SettledSpec => []ReviewersShareTeam
<1>1. Init => IInv /\ Teammates
  BY IInvInit
     DEF Init, StoreInit, Teammates, OnTeamOf, ReadTeamCurrent,
         AssignsTeammates, ReassignPCs, WritePCs
<1>2. IInv /\ Teammates /\ [Next /\ NobodyMoves]_vars => (IInv /\ Teammates)'
  BY IInvNext, TeammatesNext DEF IInv
<1>3. Teammates => ReviewersShareTeam
  BY DEF Teammates, OnTeamOf, ReviewersShareTeam
<1> QED BY <1>1, <1>2, <1>3, PTL DEF SettledSpec

\* Of all creates of a pull request one is answered with success.
THEOREM OneCreation == Spec => []CreatedOnce
<1>1. ASSUME IInv PROVE CreatedOnce
  <2>1. ASSUME NEW w \in Workers, req[w].op = "create" PROVE req[w].pr \in PRs
    BY <1>1, <2>1, RequestFacts
       DEF IInv, Basics, TypeOK, LocalsTypeOK, NoRequest
  <2> QED
    BY <1>1, <2>1 DEF IInv, Creations, HasCreated, CreatedOnce
<1> QED BY <1>1, Inductive, PTL

\* An answer that a pull request is merged stays true.
THEOREM MergesHold == Spec => []MergedAnswersHold
<1>1. IInv => MergedAnswersHold
  BY DEF IInv, Merges, KnowsMerged, Merged, MergedAnswersHold
<1> QED BY <1>1, Inductive, PTL

\* A pull request with reviewers keeps having some.
THEOREM ReviewersRemain == Spec => ReviewersNeverRunOut
<1>1. ASSUME IInv, [Next]_vars
      PROVE  [\A p \in PRs : reviewers[p] # {} => reviewers'[p] # {}]_vars
  <2>1. reviewers \in [PRs -> SUBSET Users]
    BY <1>1 DEF IInv, Basics, TypeOK, StoreTypeOK
  <2>2. ASSUME NEW w \in Workers, WorkerStep(w), NEW p \in PRs, reviewers[p] # {}
        PROVE  reviewers'[p] # {}
    <3>1. CASE CommitPR(w)
      BY <1>1, <2>1, <2>2, <3>1, CommittedPR
         DEF IInv, Rows, RowsConsistent, PRPhase
    <3>2. CASE CommitReassign(w)
      <4>1. tx[w].inserted # {}
        BY <1>1, <3>2, CommittedReassign
           DEF IInv, Replacing, Replaces, WritePCs
      <4> QED BY <1>1, <2>1, <2>2, <3>2, <4>1, CommittedReassign DEF IInv
    <3> QED
      BY <1>1, <2>2, <3>1, <3>2, Writers, CommittedMerge DEF IInv, prTables
  <2>3. CASE UsersStep
    BY <2>3 DEF UsersStep, UpdateUserIsActive, CreateOrUpdateUser, prTables
  <2> QED BY <1>1, <2>2, <2>3 DEF Next, WorkerStep
<1> QED BY <1>1, Inductive, PTL DEF Spec, ReviewersNeverRunOut
====
