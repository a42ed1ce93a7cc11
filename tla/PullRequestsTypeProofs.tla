----------------------- MODULE PullRequestsTypeProofs -----------------------
(***************************************************************************)
(* Type correctness of PullRequests, together with the phase of each       *)
(* worker and of its transaction, on which the type of the reviewer rows   *)
(* depends: Basics is inductive on its own.                                *)
(***************************************************************************)
EXTENDS PullRequestsInvariants, TLAPS

\* What a request received from a client looks like (the parsed bodies of the
\* handlers in server.go).
LEMMA RequestFacts ==
  ASSUME NEW r \in Requests
  PROVE  /\ r.op \in Operations
         /\ r.pr \in PRs
         /\ r.user \in Users \cup {None}
         /\ r.op \in {"create", "reassign"} => r.user \in Users
  BY DEF Requests, Operations

\* Answering a request leaves the local variables typed.
LEMMA AnswerTypes ==
  ASSUME NEW w \in Workers, LocalsTypeOK, NEW code \in Codes, Answer(w, code)
  PROVE  LocalsTypeOK'
  BY DEF LocalsTypeOK, Answer, NoPR, Statuses, PCs

\* So does going on to the next statement.
LEMMA ContinueTypes ==
  ASSUME NEW w \in Workers, LocalsTypeOK, NEW label \in PCs, Continue(w, label),
         (pr \in [Workers -> [author : Users \cup {None}, status : Statuses,
                         reviewers : SUBSET Users]])',
         (fromTeam \in [Workers -> Teams \cup {None}])',
         (todo \in [Workers -> SUBSET Users])'
  PROVE  LocalsTypeOK'
  BY DEF LocalsTypeOK, Continue

\* A worker whose statement and transaction are untouched is still in phase.
LEMMA OthersKeepTx ==
  ASSUME NEW v \in Workers, TxOK,
         pc'[v] = pc[v], req'[v] = req[v], tx'[v] = tx[v]
  PROVE  TxPhase(v)'
  BY DEF TxOK, TxPhase, NoTx

\* A worker outside every transaction is in phase.
LEMMA NoTxOutside ==
  ASSUME NEW v \in Workers, pc'[v] \notin TxPCs, tx'[v] = NoTx
  PROVE  TxPhase(v)'
  BY DEF TxPhase, TxPCs

\* What a step keeps: types and phases whatever transactions are open, and if
\* only pull request requests open them, their phases too.
Preserved == Typed' /\ (TxOK => TxOK')

\* After an answer the worker has no transaction open (BEGIN ... COMMIT or
\* Rollback are within one call of postgres.go).
LEMMA AnswerTx ==
  ASSUME NEW w \in Workers, Typed, TxOK, NEW code, Answer(w, code),
         \/ UNCHANGED tx /\ pc[w] \notin TxPCs
         \/ tx' = [tx EXCEPT ![w] = NoTx]
  PROVE  TxOK'
<1>1. pc \in [Workers -> PCs] /\ tx \in [Workers -> Transactions]
  BY DEF Typed, TypeOK, StoreTypeOK, LocalsTypeOK
<1>2. ASSUME NEW v \in Workers, v # w PROVE TxPhase(v)'
  BY <1>1, <1>2, OthersKeepTx DEF Answer, Typed
<1>3. pc'[w] = "idle" /\ tx'[w] = NoTx
  BY <1>1 DEF Answer, Typed, TxOK, TxPhase
<1> QED BY <1>2, <1>3, NoTxOutside DEF TxOK, TxPCs

\* Nor has one that goes on between two autocommitted statements.
LEMMA ContinueTx ==
  ASSUME NEW w \in Workers, Typed, TxOK, NEW label, Continue(w, label),
         label \notin TxPCs, UNCHANGED tx, pc[w] \notin TxPCs
  PROVE  TxOK'
<1>1. pc \in [Workers -> PCs] /\ tx \in [Workers -> Transactions]
  BY DEF Typed, TypeOK, StoreTypeOK, LocalsTypeOK
<1>2. ASSUME NEW v \in Workers, v # w PROVE TxPhase(v)'
  BY <1>1, <1>2, OthersKeepTx DEF Continue, Typed
<1>3. pc'[w] = label /\ tx'[w] = NoTx
  BY <1>1 DEF Continue, Typed, TxOK, TxPhase
<1> QED BY <1>2, <1>3, NoTxOutside DEF TxOK, TxPCs

\* The store stays typed when only transactions change, ...
LEMMA TablesUnchangedTypes ==
  ASSUME StoreTypeOK, UNCHANGED tables, tx' \in [Workers -> Transactions]
  PROVE  StoreTypeOK'
  BY DEF StoreTypeOK, tables

\* ... and when nothing of it does.
LEMMA QueryTypes ==
  ASSUME StoreTypeOK, UNCHANGED <<tables, tx>>
  PROVE  StoreTypeOK'
  BY DEF StoreTypeOK, tables

\* The empty transaction is a transaction.
LEMMA NoTxType == NoTx \in Transactions
  BY DEF NoTx, Transactions

\* A rollback leaves the store typed.
LEMMA RollbackTypes ==
  ASSUME NEW w \in Workers, StoreTypeOK, Rollback(w)
  PROVE  StoreTypeOK'
<1>1. tx' \in [Workers -> Transactions]
  BY NoTxType DEF StoreTypeOK, Rollback
<1> QED BY <1>1, TablesUnchangedTypes DEF Rollback

\* What a worker knows of its request and transaction by its statement.
LEMMA TypedRequest ==
  ASSUME NEW w \in Workers, Typed, pc[w] # "idle"
  PROVE  /\ req[w] \in Requests
         /\ req[w].pr \in PRs
         /\ pc[w] \in CreatePCs \cup ReassignPCs => req[w].user \in Users
  BY RequestFacts DEF Typed, PhaseOK

\* So its request names a pull request, and a user where its handler needs one.
LEMMA RequestOf ==
  ASSUME NEW w \in Workers, Basics, pc[w] # "idle"
  PROVE  /\ req[w] \in Requests
         /\ req[w].pr \in PRs
         /\ pc[w] \in CreatePCs \cup ReassignPCs => req[w].user \in Users
  BY TypedRequest DEF Basics, Typed

\* Typed is preserved by each action: the arrival of a request,
LEMMA ReceiveTypes ==
  ASSUME NEW w \in Workers, Typed, Receive(w) PROVE Preserved
<1>1. PICK r \in Requests : /\ req' = [req EXCEPT ![w] = r]
                            /\ pc' = [pc EXCEPT ![w] = Entry[r.op]]
  BY DEF Receive
<1>2. /\ Entry[r.op] \in {"exists", "header"}
      /\ Entry[r.op] = "exists" => r.op = "create"
      /\ Entry[r.op] = "header" => r.op \in {"merge", "reassign"}
  BY RequestFacts DEF Entry, Operations
<1>3. StoreTypeOK'
  BY QueryTypes DEF Receive, Typed, TypeOK
<1>4. LocalsTypeOK'
  BY <1>1, <1>2 DEF Receive, Typed, TypeOK, LocalsTypeOK, PCs, Codes
<1>5. PhaseOK'
  BY <1>1, <1>2 DEF Typed, TypeOK, LocalsTypeOK, PhaseOK, CreatePCs, ReadPCs, ReassignPCs
<1>6. ASSUME TxOK PROVE TxOK'
  <2>1. ASSUME NEW v \in Workers, v # w PROVE TxPhase(v)'
    BY <1>1, <1>6, <2>1, OthersKeepTx DEF Receive, Typed, TypeOK, LocalsTypeOK
  <2>2. pc'[w] \notin TxPCs /\ tx'[w] = NoTx
    BY <1>1, <1>2, <1>6 DEF Receive, Typed, TypeOK, LocalsTypeOK, TxOK, TxPhase,
       TxPCs
  <2> QED BY <2>1, <2>2, NoTxOutside DEF TxOK
<1> QED BY <1>3, <1>4, <1>5, <1>6 DEF Preserved, Typed, TypeOK

\* An idle worker is in phase whatever it has answered.
LEMMA AnswerPhase ==
  ASSUME NEW w \in Workers, Typed, NEW code, Answer(w, code)
  PROVE  PhaseOK'
  BY DEF Typed, TypeOK, LocalsTypeOK, Answer, PhaseOK, CreatePCs, ReadPCs,
         ReassignPCs

\* A query after which the request is answered preserves Typed.
LEMMA AnswerQuery ==
  ASSUME NEW w \in Workers, Typed, NEW code \in Codes, Answer(w, code),
         pc[w] \notin TxPCs, UNCHANGED <<tables, tx>>
  PROVE  Preserved
  BY AnswerTypes, AnswerPhase, AnswerTx, QueryTypes
     DEF Preserved, Typed, TypeOK

\* So does an error answer that rolls back.
LEMMA AnswerRollback ==
  ASSUME NEW w \in Workers, Typed, NEW code \in Codes, Answer(w, code),
         Rollback(w)
  PROVE  Preserved
  BY AnswerTypes, AnswerPhase, AnswerTx, RollbackTypes
     DEF Preserved, Typed, TypeOK, Rollback

\* The statements a request of each kind may go on to.
Allowed(op, label) ==
  \/ label \in CreatePCs /\ op = "create"
  \/ label \in ReadPCs /\ op \in {"merge", "reassign"}
  \/ label = "setstatus" /\ op = "merge"
  \/ label \in ReassignPCs /\ op = "reassign"

\* Going on to a statement of the same use case keeps the worker in phase.
LEMMA ContinuePhase ==
  ASSUME NEW w \in Workers, Typed, pc[w] # "idle", NEW label,
         Allowed(req[w].op, label), Continue(w, label)
  PROVE  PhaseOK'
  BY DEF Typed, TypeOK, LocalsTypeOK, Continue, PhaseOK, Allowed, CreatePCs,
         ReadPCs, ReassignPCs

\* A query after which the request goes on preserves Typed.
LEMMA ContinueQuery ==
  ASSUME NEW w \in Workers, Typed, pc[w] \notin TxPCs \cup {"idle"},
         NEW label, Allowed(req[w].op, label), label \notin TxPCs,
         Continue(w, label), UNCHANGED <<tables, tx>>,
         (pr \in [Workers -> [author : Users \cup {None}, status : Statuses,
                         reviewers : SUBSET Users]])',
         (fromTeam \in [Workers -> Teams \cup {None}])',
         (todo \in [Workers -> SUBSET Users])'
  PROVE  Preserved
<1>1. label \in PCs
  BY DEF Allowed, PCs, CreatePCs, ReadPCs, ReassignPCs
<1> QED
  BY <1>1, ContinueTypes, ContinuePhase, ContinueTx, QueryTypes
     DEF Preserved, Typed, TypeOK

\* CreatePullRequest preserves Typed: the existence check,
LEMMA CheckPRExistsTypes ==
  ASSUME NEW w \in Workers, Typed, CheckPRExists(w) PROVE Preserved
<1>1. req[w].op = "create" /\ pc[w] = "exists" /\ UNCHANGED <<tables, tx>>
  BY DEF CheckPRExists, Typed, PhaseOK, CreatePCs
<1>2. CASE Answer(w, "PR_EXISTS")
  BY <1>1, <1>2, AnswerQuery DEF Codes, TxPCs
<1>3. CASE Continue(w, "author") /\ UNCHANGED <<pr, fromTeam, todo>>
  BY <1>1, <1>3, ContinueQuery
     DEF Allowed, CreatePCs, TxPCs, Typed, TypeOK, LocalsTypeOK
<1> QED BY <1>2, <1>3 DEF CheckPRExists

\* the query for the author,
LEMMA ReadAuthorTypes ==
  ASSUME NEW w \in Workers, Typed, ReadAuthor(w) PROVE Preserved
<1>1. req[w].op = "create" /\ pc[w] = "author" /\ UNCHANGED <<tables, tx>>
  BY DEF ReadAuthor, Typed, PhaseOK, CreatePCs
<1>2. CASE Answer(w, "NOT_FOUND")
  BY <1>1, <1>2, AnswerQuery DEF Codes, TxPCs
<1>3. CASE /\ fromTeam' = [fromTeam EXCEPT ![w] = team[req[w].user]]
           /\ Continue(w, "candidates")
           /\ UNCHANGED <<pr, todo>>
  <2>1. team[req[w].user] \in Teams \cup {None}
    BY <1>1, TypedRequest DEF CreatePCs, Typed, TypeOK, StoreTypeOK
  <2>2. (fromTeam \in [Workers -> Teams \cup {None}])'
    BY <1>3, <2>1 DEF Typed, TypeOK, LocalsTypeOK
  <2> QED
    BY <1>1, <1>3, <2>2, ContinueQuery
       DEF Allowed, CreatePCs, TxPCs, Typed, TypeOK, LocalsTypeOK
<1> QED BY <1>2, <1>3 DEF ReadAuthor

\* the query for candidates and the choice among them,
LEMMA SelectReviewersTypes ==
  ASSUME NEW w \in Workers, Typed, SelectReviewers(w) PROVE Preserved
<1>1. req[w].op = "create" /\ pc[w] = "candidates" /\ UNCHANGED <<tables, tx>>
  BY DEF SelectReviewers, Typed, PhaseOK, CreatePCs
<1>2. PICK R \in SUBSET Users : todo' = [todo EXCEPT ![w] = R]
  BY DEF SelectReviewers, ReviewerChoices, CreateCandidates,
         GetActiveUsersByTeam
<1>3. (todo \in [Workers -> SUBSET Users])'
  BY <1>2 DEF Typed, TypeOK, LocalsTypeOK
<1> QED
  BY <1>1, <1>3, ContinueQuery
     DEF SelectReviewers, Allowed, CreatePCs, TxPCs, Typed, TypeOK,
         LocalsTypeOK

\* the INSERT that opens the transaction,
LEMMA InsertPRTypes ==
  ASSUME NEW w \in Workers, Typed, InsertPR(w) PROVE Preserved
<1>1. req[w].op = "create" /\ pc[w] = "insertpr" /\ UNCHANGED tables
  BY DEF InsertPR, InsertPullRequest, Rollback, Typed, PhaseOK, CreatePCs
<1>2. CASE Answer(w, "ERROR") /\ Rollback(w)
  BY <1>1, <1>2, AnswerRollback DEF Codes
<1>3. CASE /\ InsertPullRequest(w, req[w].pr, req[w].user)
           /\ Continue(w, "commitpr")
           /\ UNCHANGED <<pr, fromTeam, todo>>
  <2> DEFINE t == [NoTx EXCEPT !.pr = req[w].pr, !.author = req[w].user]
  <2>1. t \in Transactions
    BY <1>1, TypedRequest DEF CreatePCs, NoTx, Transactions
  <2>2. tx' = [tx EXCEPT ![w] = t]
    BY <1>3 DEF InsertPullRequest
  <2>3. StoreTypeOK'
    BY <1>1, <2>1, <2>2, TablesUnchangedTypes
       DEF Typed, TypeOK, StoreTypeOK
  <2>4. LocalsTypeOK'
    BY <1>3, ContinueTypes DEF Typed, TypeOK, LocalsTypeOK, PCs
  <2>5. PhaseOK'
    BY <1>1, <1>3, ContinuePhase DEF Allowed, CreatePCs
  <2>6. ASSUME TxOK PROVE TxOK'
    <3>1. pc \in [Workers -> PCs] /\ tx \in [Workers -> Transactions]
      BY DEF Typed, TypeOK, StoreTypeOK, LocalsTypeOK
    <3>2. ASSUME NEW v \in Workers, v # w PROVE TxPhase(v)'
      BY <1>3, <2>2, <2>6, <3>1, <3>2, OthersKeepTx DEF Continue
    <3>3. TxPhase(w)'
      BY <1>3, <2>2, <3>1 DEF Continue, TxPhase, TxPCs, NoTx
    <3> QED BY <3>2, <3>3 DEF TxOK
  <2> QED BY <2>3, <2>4, <2>5, <2>6 DEF Preserved, Typed, TypeOK
<1> QED BY <1>2, <1>3 DEF InsertPR

\* and the COMMIT.
LEMMA CommitPRTypes ==
  ASSUME NEW w \in Workers, Typed, CommitPR(w) PROVE Preserved
<1>1. PICK code \in Codes : /\ pc[w] = "commitpr" /\ Answer(w, code)
                               /\ CommitPullRequest(w, todo[w])
  BY DEF CommitPR, AnswerWritten, Codes
<1>2. todo[w] \in SUBSET Users /\ tx[w].author \in Users \cup {None}
  BY DEF Typed, TypeOK, StoreTypeOK, LocalsTypeOK, Transactions
<1>3. tx' \in [Workers -> Transactions]
  BY <1>1, NoTxType DEF CommitPullRequest, Typed, TypeOK, StoreTypeOK
<1>4. StoreTypeOK'
  BY <1>1, <1>2, <1>3
     DEF CommitPullRequest, Typed, TypeOK, StoreTypeOK, Statuses, userTable
<1>5. LocalsTypeOK' /\ PhaseOK'
  BY <1>1, AnswerTypes, AnswerPhase DEF Typed, TypeOK, Codes
<1>6. TxOK => TxOK'
  BY <1>1, AnswerTx DEF CommitPullRequest
<1> QED BY <1>4, <1>5, <1>6 DEF Preserved, Typed, TypeOK

\* GetPullRequest preserves Typed: the query for the row,
LEMMA ReadHeaderTypes ==
  ASSUME NEW w \in Workers, Typed, ReadHeader(w) PROVE Preserved
<1>1. /\ req[w].op \in {"merge", "reassign"}
      /\ pc[w] = "header" /\ UNCHANGED <<tables, tx>>
  BY DEF ReadHeader, Typed, PhaseOK, ReadPCs
<1>2. CASE Answer(w, "NOT_FOUND")
  BY <1>1, <1>2, AnswerQuery DEF Codes, TxPCs
<1>3. CASE /\ pr' = [pr EXCEPT ![w] = [author |-> author[req[w].pr],
                                       status |-> status[req[w].pr],
                                       reviewers |-> {}]]
           /\ Continue(w, "reviewers")
           /\ UNCHANGED <<fromTeam, todo>>
  <2>1. author[req[w].pr] \in Users \cup {None} /\ status[req[w].pr] \in Statuses
    BY <1>1, TypedRequest DEF Typed, TypeOK, StoreTypeOK
  <2>2. (pr \in [Workers -> [author : Users \cup {None}, status : Statuses,
                            reviewers : SUBSET Users]])'
    BY <1>3, <2>1 DEF Typed, TypeOK, LocalsTypeOK
  <2> QED
    BY <1>1, <1>3, <2>2, ContinueQuery
       DEF Allowed, ReadPCs, TxPCs, Typed, TypeOK, LocalsTypeOK
<1> QED BY <1>2, <1>3 DEF ReadHeader

\* and the one for the reviewers, with the decision of the use case.
LEMMA ReadReviewersTypes ==
  ASSUME NEW w \in Workers, Typed, ReadReviewers(w) PROVE Preserved
<1>1. pc[w] = "reviewers" /\ UNCHANGED <<tables, tx>>
  BY DEF ReadReviewers
<1>2. ASSUME NEW code \in {"OK", "PR_MERGED", "NOT_ASSIGNED"}, Answer(w, code)
      PROVE  Preserved
  BY <1>1, <1>2, AnswerQuery DEF Codes, TxPCs
<1>3. ASSUME NEW label, Allowed(req[w].op, label), label \notin TxPCs,
             pr' = [pr EXCEPT ![w].reviewers = reviewers[req[w].pr]],
             Continue(w, label), UNCHANGED <<fromTeam, todo>>
      PROVE  Preserved
  <2>1. reviewers[req[w].pr] \in SUBSET Users
    BY <1>1, TypedRequest DEF Typed, TypeOK, StoreTypeOK
  <2>2. (pr \in [Workers -> [author : Users \cup {None}, status : Statuses,
                            reviewers : SUBSET Users]])'
    BY <1>3, <2>1 DEF Typed, TypeOK, LocalsTypeOK
  <2> QED
    BY <1>1, <1>3, <2>2, ContinueQuery
       DEF TxPCs, Typed, TypeOK, LocalsTypeOK
<1> QED
  BY <1>2, <1>3 DEF ReadReviewers, Allowed, ReassignPCs, TxPCs

\* MergePullRequest preserves Typed with its UPDATE.
LEMMA SetMergedTypes ==
  ASSUME NEW w \in Workers, Typed, SetMerged(w) PROVE Preserved
<1>1. PICK code \in Codes : /\ pc[w] = "setstatus" /\ Answer(w, code)
                               /\ UpdatePullRequestStatus(w, req[w].pr)
  BY DEF SetMerged, AnswerWritten, Codes
<1>2. StoreTypeOK'
  BY <1>1 DEF UpdatePullRequestStatus, Typed, TypeOK, StoreTypeOK, Statuses,
              userTable
<1>3. LocalsTypeOK' /\ PhaseOK'
  BY <1>1, AnswerTypes, AnswerPhase DEF Typed, TypeOK, Codes
<1>4. TxOK => TxOK'
  BY <1>1, AnswerTx DEF UpdatePullRequestStatus, TxPCs
<1> QED BY <1>2, <1>3, <1>4 DEF Preserved, Typed, TypeOK

\* ReassignReviewer preserves Typed: the query for the old reviewer,
LEMMA ReadOldUserTypes ==
  ASSUME NEW w \in Workers, Typed, ReadOldUser(w) PROVE Preserved
<1>1. req[w].op = "reassign" /\ pc[w] = "olduser" /\ UNCHANGED <<tables, tx>>
  BY DEF ReadOldUser, Typed, PhaseOK, ReassignPCs
<1>2. CASE Answer(w, "NOT_FOUND")
  BY <1>1, <1>2, AnswerQuery DEF Codes, TxPCs
<1>3. CASE /\ fromTeam' = [fromTeam EXCEPT ![w] = team[req[w].user]]
           /\ Continue(w, "pick")
           /\ UNCHANGED <<pr, todo>>
  <2>1. team[req[w].user] \in Teams \cup {None}
    BY <1>1, TypedRequest DEF ReassignPCs, Typed, TypeOK, StoreTypeOK
  <2>2. (fromTeam \in [Workers -> Teams \cup {None}])'
    BY <1>3, <2>1 DEF Typed, TypeOK, LocalsTypeOK
  <2> QED
    BY <1>1, <1>3, <2>2, ContinueQuery
       DEF Allowed, ReassignPCs, TxPCs, Typed, TypeOK, LocalsTypeOK
<1> QED BY <1>2, <1>3 DEF ReadOldUser

\* the query for candidates and the choice of one,
LEMMA PickReplacementTypes ==
  ASSUME NEW w \in Workers, Typed, PickReplacement(w) PROVE Preserved
<1>1. req[w].op = "reassign" /\ pc[w] = "pick" /\ UNCHANGED <<tables, tx>>
  BY DEF PickReplacement, Typed, PhaseOK, ReassignPCs
<1>2. CASE Answer(w, "NO_CANDIDATE")
  BY <1>1, <1>2, AnswerQuery DEF Codes, TxPCs
<1>3. ASSUME NEW new \in ReplacementCandidates(w),
             todo' = [todo EXCEPT ![w] =
                        (pr[w].reviewers \ {req[w].user}) \cup {new}],
             Continue(w, "delete"), UNCHANGED <<pr, fromTeam>>
      PROVE  Preserved
  <2>1. new \in Users /\ pr[w].reviewers \in SUBSET Users
    BY DEF ReplacementCandidates, GetActiveUsersByTeam, Typed, TypeOK,
           LocalsTypeOK
  <2>2. (todo \in [Workers -> SUBSET Users])'
    BY <1>3, <2>1 DEF Typed, TypeOK, LocalsTypeOK
  <2> QED
    BY <1>1, <1>3, <2>2, ContinueQuery
       DEF Allowed, ReassignPCs, TxPCs, Typed, TypeOK, LocalsTypeOK
<1> QED BY <1>2, <1>3 DEF PickReplacement

\* The steps of a transaction after which it is still open.
LEMMA StaysInTransaction ==
  ASSUME NEW w \in Workers, Typed, pc[w] \in {"delete", "locking", "inserting"},
         NEW label \in {"locking", "inserting"}, Continue(w, label),
         UNCHANGED <<tables, pr, fromTeam>>,
         todo' \in [Workers -> SUBSET Users],
         NEW t \in Transactions, tx' = [tx EXCEPT ![w] = t],
         TxOK => t.pr = req[w].pr /\ t.author = None,
         label = "locking" => t.deleted = {} /\ t.inserted = {},
         TxOK /\ label = "inserting" => t.seen = {}
  PROVE  Preserved
<1>1. pc \in [Workers -> PCs] /\ tx \in [Workers -> Transactions]
  BY DEF Typed, TypeOK, StoreTypeOK, LocalsTypeOK
<1>2. StoreTypeOK'
  BY <1>1, TablesUnchangedTypes DEF Typed, TypeOK
<1>3. LocalsTypeOK'
  BY ContinueTypes DEF Typed, TypeOK, LocalsTypeOK, PCs
<1>4. req[w].op = "reassign"
  BY DEF Typed, PhaseOK, ReassignPCs
<1>5. PhaseOK'
  BY <1>4, ContinuePhase DEF Allowed, ReassignPCs
<1>6. ASSUME TxOK PROVE TxOK'
  <2>1. ASSUME NEW v \in Workers, v # w PROVE TxPhase(v)'
    BY <1>1, <1>6, <2>1, OthersKeepTx DEF Continue
  <2>2. TxPhase(w)'
    BY <1>1, <1>6 DEF Continue, TxPhase, TxPCs
  <2> QED BY <2>1, <2>2 DEF TxOK
<1> QED BY <1>2, <1>3, <1>5, <1>6 DEF Preserved, Typed, TypeOK

\* the DELETE as it is issued,
LEMMA IssueDeleteTypes ==
  ASSUME NEW w \in Workers, Typed, IssueDelete(w) PROVE Preserved
<1> DEFINE t == [NoTx EXCEPT !.pr = req[w].pr, !.seen = reviewers[req[w].pr]]
<1>1. pc[w] = "delete" /\ req[w].pr \in PRs
  BY TypedRequest DEF IssueDelete
<1>2. t \in Transactions /\ t.pr = req[w].pr /\ t.author = None
      /\ t.deleted = {} /\ t.inserted = {}
  BY <1>1 DEF NoTx, Transactions, Typed, TypeOK, StoreTypeOK
<1>3. /\ tx' = [tx EXCEPT ![w] = t] /\ UNCHANGED <<tables, pr, fromTeam, todo>>
      /\ Continue(w, "locking")
  BY DEF IssueDelete, StartDeleteReviewers
<1>4. todo' \in [Workers -> SUBSET Users]
  BY <1>3 DEF Typed, TypeOK, LocalsTypeOK
<1> HIDE DEF t
<1> QED BY <1>1, <1>2, <1>3, <1>4, StaysInTransaction

\* the DELETE as it returns,
LEMMA LockRowsTypes ==
  ASSUME NEW w \in Workers, Typed, LockRows(w) PROVE Preserved
<1> DEFINE t == [tx[w] EXCEPT !.deleted = tx[w].seen, !.seen = {}]
<1>1. pc[w] = "locking" /\ tx[w] \in Transactions
  BY DEF LockRows, Typed, TypeOK, StoreTypeOK
<1>2. TxOK => tx[w].pr = req[w].pr /\ tx[w].author = None
  BY <1>1 DEF TxOK, TxPhase
<1>3. /\ t \in Transactions /\ t.seen = {}
      /\ TxOK => t.pr = req[w].pr /\ t.author = None
  BY <1>1, <1>2 DEF Transactions
<1>4. /\ tx' = [tx EXCEPT ![w].deleted = tx[w].seen, ![w].seen = {}]
      /\ UNCHANGED <<tables, pr, fromTeam, todo>>
      /\ Continue(w, "inserting")
  BY DEF LockRows, FinishDeleteReviewers
<1>5. tx' = [tx EXCEPT ![w] = t]
  BY <1>1, <1>4 DEF Typed, TypeOK, StoreTypeOK, Transactions
<1>6. todo' \in [Workers -> SUBSET Users]
  BY <1>4 DEF Typed, TypeOK, LocalsTypeOK
<1> HIDE DEF t
<1> QED BY <1>1, <1>3, <1>4, <1>5, <1>6, StaysInTransaction

\* each INSERT,
LEMMA InsertRowTypes ==
  ASSUME NEW w \in Workers, Typed, InsertRow(w) PROVE Preserved
<1>1. pc[w] = "inserting" /\ tx[w] \in Transactions
  BY DEF InsertRow, Typed, TypeOK, StoreTypeOK
<1>2. TxOK => tx[w].pr = req[w].pr /\ tx[w].author = None /\ tx[w].seen = {}
  BY <1>1 DEF TxOK, TxPhase
<1>3. CASE Answer(w, "ERROR") /\ Rollback(w)
  BY <1>3, AnswerRollback DEF Codes
<1>4. ASSUME NEW u \in NextRows(w), InsertReviewer(w, u),
             todo' = [todo EXCEPT ![w] = @ \ {u}],
             Continue(w, "inserting"), UNCHANGED <<pr, fromTeam>>
      PROVE  Preserved
  <2> DEFINE t == [tx[w] EXCEPT !.inserted = @ \cup {u}]
  <2>1. todo \in [Workers -> SUBSET Users]
    BY DEF Typed, TypeOK, LocalsTypeOK
  <2>2. u \in Users
    BY <2>1 DEF NextRows
  <2>3. /\ t \in Transactions
        /\ TxOK => t.pr = req[w].pr /\ t.author = None /\ t.seen = {}
    BY <1>1, <1>2, <2>2 DEF Transactions
  <2>4. tx' = [tx EXCEPT ![w] = t] /\ UNCHANGED tables
    BY <1>4 DEF InsertReviewer
  <2>5. todo' \in [Workers -> SUBSET Users]
    BY <1>4, <2>1
  <2> HIDE DEF t
  <2> QED BY <1>1, <1>4, <2>3, <2>4, <2>5, StaysInTransaction
<1> QED BY <1>3, <1>4 DEF InsertRow

\* A transaction is one still when it need not wait for rows any more.
LEMMA SkipRowsType ==
  ASSUME NEW t \in Transactions, NEW S
  PROVE  [t EXCEPT !.seen = @ \ S] \in Transactions
  BY DEF Transactions

\* The COMMIT of the reviewers leaves the store typed.
LEMMA CommitReviewersTypes ==
  ASSUME NEW w \in Workers, StoreTypeOK, CommitReviewers(w)
  PROVE  StoreTypeOK'
<1>1. tx \in [Workers -> Transactions]
  BY DEF StoreTypeOK
<1>2. tx' \in [Workers -> Transactions]
  <2>1. ASSUME NEW v \in Workers PROVE tx'[v] \in Transactions
    <3>1. tx[v] \in Transactions
      BY <1>1
    <3>2. [tx[v] EXCEPT !.seen = @ \ tx[w].deleted] \in Transactions
      BY <3>1, SkipRowsType
    <3> QED BY <3>1, <3>2, NoTxType DEF CommitReviewers
  <2> QED BY <2>1 DEF CommitReviewers
<1>3. reviewers' \in [PRs -> SUBSET Users]
  BY <1>1 DEF CommitReviewers, Transactions, StoreTypeOK
<1> QED BY <1>2, <1>3 DEF CommitReviewers, StoreTypeOK, userTable

\* and the COMMIT, which wakes the DELETEs that waited for it.
LEMMA CommitReassignTypes ==
  ASSUME NEW w \in Workers, Typed, CommitReassign(w) PROVE Preserved
<1>1. PICK code \in Codes : /\ pc[w] = "inserting" /\ Answer(w, code)
                               /\ CommitReviewers(w)
  BY DEF CommitReassign, AnswerWritten, Codes
<1>2. tx \in [Workers -> Transactions] /\ pc \in [Workers -> PCs]
  BY DEF Typed, TypeOK, StoreTypeOK, LocalsTypeOK
<1>3. \A v \in Workers : v # w =>
         \/ tx'[v] = tx[v]
         \/ /\ tx[v].pr = tx[w].pr
            /\ tx'[v] = [tx[v] EXCEPT !.seen = @ \ tx[w].deleted]
  BY <1>1, <1>2 DEF CommitReviewers
<1>4. tx'[w] = NoTx
  BY <1>1 DEF CommitReviewers
<1>7. StoreTypeOK'
  BY <1>1, CommitReviewersTypes DEF Typed, TypeOK
<1>8. LocalsTypeOK' /\ PhaseOK'
  BY <1>1, AnswerTypes, AnswerPhase DEF Typed, TypeOK, Codes
<1>9. ASSUME TxOK, NEW v \in Workers, v # w PROVE TxPhase(v)'
  <2>1. pc'[v] = pc[v] /\ req'[v] = req[v]
    BY <1>1, <1>2, <1>9 DEF Answer
  <2>2. CASE tx'[v] = tx[v]
    BY <1>9, <2>1, <2>2, OthersKeepTx
  <2>3. CASE /\ tx[v].pr = tx[w].pr
             /\ tx'[v] = [tx[v] EXCEPT !.seen = @ \ tx[w].deleted]
    <3>1. tx[w].pr # None
      BY <1>1, <1>9, TypedRequest, StoreAssumption DEF TxOK, TxPhase
    <3>2. pc[v] \in TxPCs
      BY <1>9, <2>3, <3>1 DEF TxOK, TxPhase, NoTx
    <3>3. /\ tx'[v].seen = tx[v].seen \ tx[w].deleted
          /\ tx'[v].pr = tx[v].pr /\ tx'[v].author = tx[v].author
          /\ tx'[v].deleted = tx[v].deleted
          /\ tx'[v].inserted = tx[v].inserted
      BY <1>2, <2>3 DEF Transactions
    <3> QED BY <1>9, <2>1, <3>2, <3>3 DEF TxOK, TxPhase
  <2> QED BY <1>3, <1>9, <2>2, <2>3
<1>10. TxPhase(w)'
  BY <1>1, <1>2, <1>4, NoTxOutside DEF Answer, TxPCs
<1> QED BY <1>7, <1>8, <1>9, <1>10 DEF Preserved, Typed, TypeOK, TxOK

\* The victim of the deadlock detector preserves Typed,
LEMMA BreakDeadlockTypes ==
  ASSUME NEW w \in Workers, Typed, BreakDeadlock(w) PROVE Preserved
  BY AnswerRollback DEF BreakDeadlock, Codes

\* a failed statement does,
LEMMA FailTypes ==
  ASSUME NEW w \in Workers, Typed, Fail(w) PROVE Preserved
  BY AnswerRollback DEF Fail, Codes

\* and so do the statements of the other endpoints.
LEMMA UsersStepTypes ==
  ASSUME Typed, UsersStep PROVE Preserved
<1>1. UNCHANGED <<prTables, tx, locals>>
  BY DEF UsersStep, UpdateUserIsActive, CreateOrUpdateUser
<1>2. team' \in [Users -> Teams \cup {None}] /\ active' \in [Users -> BOOLEAN]
  BY DEF UsersStep, UpdateUserIsActive, CreateOrUpdateUser,
         Typed, TypeOK, StoreTypeOK
<1> QED
  BY <1>1, <1>2
     DEF Preserved, Typed, TypeOK, StoreTypeOK, LocalsTypeOK, PhaseOK, TxOK,
         TxPhase,         prTables, locals

\* Basics holds in every initial state.
LEMMA BasicsInit == Init => Basics
<1> SUFFICES ASSUME Init PROVE Basics
  OBVIOUS
<1>1. StoreTypeOK
  BY NoTxType DEF Init, StoreInit, StoreTypeOK, Statuses
<1>2. LocalsTypeOK
  BY DEF Init, LocalsTypeOK, PCs, NoPR, Codes, Statuses
<1>3. PhaseOK /\ TxOK
  BY DEF Init, StoreInit, PhaseOK, TxOK, TxPhase, TxPCs, CreatePCs, ReadPCs,
         ReassignPCs
<1> QED BY <1>1, <1>2, <1>3 DEF Basics, TypeOK

\* Every step of a worker, and of the other endpoints, keeps what Preserved
\* says.
WorkerStep(w) == Receive(w) \/ Step(w) \/ Fail(w)

\* Together, every step of a worker preserves Typed.
LEMMA WorkerStepTypes ==
  ASSUME NEW w \in Workers, Typed, WorkerStep(w) PROVE Preserved
  BY ReceiveTypes, CheckPRExistsTypes, ReadAuthorTypes,
     SelectReviewersTypes, InsertPRTypes, CommitPRTypes, ReadHeaderTypes,
     ReadReviewersTypes, SetMergedTypes, ReadOldUserTypes,
     PickReplacementTypes, IssueDeleteTypes, LockRowsTypes,
     InsertRowTypes, CommitReassignTypes, BreakDeadlockTypes, FailTypes
     DEF WorkerStep, Step, CreateStep, ReassignStep

\* Basics is inductive on its own.
LEMMA BasicsNext == Basics /\ [Next]_vars => Basics'
<1> SUFFICES ASSUME Basics, [Next]_vars PROVE Basics'
  OBVIOUS
<1>1. CASE UNCHANGED vars
  BY <1>1 DEF vars, tables, locals, Basics, TypeOK, StoreTypeOK, LocalsTypeOK,
              PhaseOK, TxOK, TxPhase
<1>2. CASE Preserved
  BY <1>2 DEF Basics, Preserved, Typed
<1>3. Typed
  BY DEF Basics, Typed
<1> QED
  BY <1>1, <1>2, <1>3, WorkerStepTypes, UsersStepTypes DEF Next, WorkerStep

\* Every variable has its type in every reachable state: statuses are those of
\* the CHECK constraint in 001_init.up.sql, rows and locals those of the code.
THEOREM TypeCorrect == Spec => []TypeOK
<1>1. Spec => []Basics
  BY BasicsInit, BasicsNext, PTL DEF Spec
<1> QED BY <1>1, PTL DEF Basics
====
