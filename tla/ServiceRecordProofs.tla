------------------------ MODULE ServiceRecordProofs -------------------------
(***************************************************************************)
(* Proofs about what the service writes and what it answers: that it names *)
(* only users and teams there are, that teams and pull requests are        *)
(* created once, that a merge stays, and that every domain error has a     *)
(* response.                                                               *)
(***************************************************************************)
EXTENDS ServiceSafetyProofs, PullRequestsSafetyProofs

(***************************************************************************)
(* References.  Users and teams are never removed.                         *)
(***************************************************************************)
LEMMA UsersStay ==
  ASSUME NEW w \in Workers, ServiceTyped, ServiceAction(w)
  PROVE  /\ \A u \in Users : UserExists(u) => UserExists(u)'
         /\ teams \subseteq teams'
         /\ team' # team => UpsertMember(w)
         /\ teams' # teams => CommitTeam(w)
         /\ active' # active => TeamStep(w) \/ UserStep(w)
<1>1. CASE UNCHANGED <<team, active, teams>>
  BY <1>1 DEF UserExists
<1>2. CASE UpsertMember(w)
  <2>1. task[w].team \in Teams /\ None \notin Teams
    BY <1>2, StoreAssumption
       DEF UpsertMember, AddLabels, ServiceTyped, TasksOK, TaskPhase
  <2>2. PICK u : CreateOrUpdateUser(u, task[w].team, u \in task[w].on)
    BY <1>2 DEF UpsertMember
  <2>3. \A v \in Users : team'[v] = team[v] \/ team'[v] = task[w].team
    BY <2>2, JobFacts DEF CreateOrUpdateUser, StoreTypeOK
  <2>4. UNCHANGED teams /\ TeamStep(w)
    BY <1>2 DEF UpsertMember, TeamStep, AddStep
  <2> QED BY <1>2, <2>1, <2>3, <2>4 DEF UserExists
<1>3. ~UNCHANGED <<tables, teams>> => ~KeepTables
  BY DEF KeepTables
<1>4. UNCHANGED tables => UNCHANGED <<team, active>>
  BY DEF tables
<1>5. CASE ReceiveAny(w) \/ TaskFailure(w) \/ BreakTaskDeadlock(w)
  BY <1>1, <1>4, <1>5
     DEF ReceiveAny, ReceivePR, Receive, ReceiveTask, TaskFailure, TaskFail,
         BreakTaskDeadlock, Rollback, KeepTables
<1>6. CASE PRStep(w)
  <2>1. UNCHANGED teams /\ (Step(w) \/ Fail(w))
    BY <1>6 DEF PRStep, teamVars
  <2>2. UNCHANGED <<team, active>>
    BY <1>4, <2>1
     DEF Step, CreateStep, ReassignStep, CheckPRExists, ReadAuthor,
         SelectReviewers, InsertPR, CommitPR, ReadHeader, ReadReviewers,
         SetMerged, ReadOldUser, PickReplacement, IssueDelete, LockRows,
         InsertRow, CommitReassign, BreakDeadlock, Fail, InsertPullRequest,
         CommitPullRequest, UpdatePullRequestStatus, StartDeleteReviewers,
         FinishDeleteReviewers, InsertReviewer, CommitReviewers, Rollback,
         userTable
  <2> QED BY <1>1, <2>1, <2>2
<1>7. CASE TaskStep(w) /\ ~UpsertMember(w)
  <2>1. UNCHANGED team
    BY <1>4, <1>7
     DEF TaskStep, TeamStep, UserStep, AddStep, DeactivateStep, PickStep,
         CheckTeam, InsertTeam, CommitTeam, FindTeam, ListMembers, TeamExists,
         ReadTargets, ReadAffected, ReadNextPR, ReadCurrent, PickFromTeam,
         ReadAuthorTeam, PickFromAuthorTeam, PickFromAll, DeleteCurrent,
         LockCurrent, InsertReplacement, CommitReplacements, IssueDeactivation,
         DeactivateMembers, SetFlag, ReadBack, FindUser, ListReviews,
         CountReviews, UpdateUserIsActive, BulkDeactivateUsersByTeam,
         StartDeleteReviewers, FinishDeleteReviewers, InsertReviewer,
         CommitReviewers, Rollback, userTable, KeepTables
  <2>2. UNCHANGED teams \/ (CommitTeam(w) /\ teams' = teams \cup {task[w].team})
    BY <1>7
     DEF TaskStep, TeamStep, UserStep, AddStep, DeactivateStep, PickStep,
         CheckTeam, InsertTeam, CommitTeam, FindTeam, ListMembers, TeamExists,
         ReadTargets, ReadAffected, ReadNextPR, ReadCurrent, PickFromTeam,
         ReadAuthorTeam, PickFromAuthorTeam, PickFromAll, DeleteCurrent,
         LockCurrent, InsertReplacement, CommitReplacements, IssueDeactivation,
         DeactivateMembers, SetFlag, ReadBack, FindUser, ListReviews,
         CountReviews, KeepTables
  <2> QED BY <1>7, <2>1, <2>2 DEF UserExists, TaskStep
<1> QED BY <1>2, <1>5, <1>6, <1>7 DEF ServiceAction

\* A set of registered users stays one.
LEMMA RegisteredStay ==
  ASSUME NEW w \in Workers, ServiceTyped, ServiceAction(w),
         NEW S \in SUBSET Users, Registered(S)
  PROVE  \A u \in S : team'[u] # None
  BY UsersStay DEF Registered, UserExists

\* Active users are registered: setIsActive finds a row or changes nothing.
LEMMA ActiveRegistered ==
  ASSUME NEW w \in Workers, ServiceTyped, References, ServiceAction(w)
  PROVE  \A u \in Users : active'[u] => team'[u] # None
<1>1. CASE UNCHANGED active
  BY <1>1, UsersStay DEF References, UserExists
<1>2. CASE SetFlag(w)
  <2>1. CASE UNCHANGED tables
    BY <1>1, <2>1 DEF tables
  <2>2. ASSUME NEW u \in task[w].members,
               UpdateUserIsActive(u, u \in task[w].on)
        PROVE  \A v \in Users : active'[v] => team'[v] # None
    <3>1. \A v \in Users : active'[v] => active[v] \/ v = u
      BY <2>2, JobFacts DEF UpdateUserIsActive, StoreTypeOK
    <3>2. UNCHANGED team /\ team[u] # None
      BY <2>2 DEF UpdateUserIsActive, UserExists
    <3> QED BY <3>1, <3>2 DEF References, UserExists
  <2> QED BY <1>2, <2>1, <2>2 DEF SetFlag
<1>3. CASE UpsertMember(w)
  <2>1. task[w].team \in Teams /\ None \notin Teams
    BY <1>3, StoreAssumption
       DEF UpsertMember, AddLabels, ServiceTyped, TasksOK, TaskPhase
  <2>2. PICK u \in job[w].list :
          CreateOrUpdateUser(u, task[w].team, u \in task[w].on)
    BY <1>3 DEF UpsertMember
  <2>3. \A v \in Users : active'[v] => active[v] \/ v = u
    BY <2>2, JobFacts DEF CreateOrUpdateUser, StoreTypeOK
  <2>4. team'[u] = task[w].team
    BY <2>2, JobFacts DEF CreateOrUpdateUser, StoreTypeOK
  <2> QED BY <2>1, <2>3, <2>4, UsersStay DEF References, UserExists
<1>4. CASE DeactivateMembers(w)
  <2>1. UNCHANGED team /\ \A v \in Users : active'[v] => active[v]
    BY <1>4 DEF IssueDeactivation, DeactivateMembers, BulkDeactivateUsersByTeam
  <2> QED BY <2>1 DEF References, UserExists
<1>5. CASE /\ TeamStep(w) \/ UserStep(w)
           /\ ~(SetFlag(w) \/ UpsertMember(w) \/ DeactivateMembers(w))
  <2>1. UNCHANGED tables => UNCHANGED active
    BY DEF tables
  <2>2. UNCHANGED active
    BY <1>5, <2>1
     DEF TeamStep, UserStep, AddStep, DeactivateStep, PickStep,
         CheckTeam, InsertTeam, CommitTeam, FindTeam, ListMembers,
         TeamExists, ReadTargets, ReadAffected, ReadNextPR, ReadCurrent,
         PickFromTeam, ReadAuthorTeam, PickFromAuthorTeam, PickFromAll,
         DeleteCurrent, LockCurrent, InsertReplacement, CommitReplacements,
         IssueDeactivation, ReadBack, FindUser, ListReviews, CountReviews,
         StartDeleteReviewers, FinishDeleteReviewers, InsertReviewer,
         CommitReviewers, Rollback, userTable, KeepTables
  <2> QED BY <1>1, <2>2
<1> QED BY <1>1, <1>2, <1>3, <1>4, <1>5, UsersStay
\* What the steps of the pull request endpoints make of the sets of users they
\* work with,
LEMMA PRLocals ==
  ASSUME NEW w \in Workers, ServiceTyped, Step(w) \/ Fail(w)
  PROVE  /\ \A u \in todo'[w] :
              \/ u \in todo[w] \cup pr[w].reviewers
              \/ u \in Users /\ active[u]
         /\ pr'[w].reviewers \in {{}, pr[w].reviewers, reviewers[req[w].pr]}
         /\ req'[w] = req[w]
         /\ pc'[w] = "candidates" => UserExists(req[w].user)
         /\ pc'[w] = "insertpr" => pc[w] = "candidates"
<1>1. /\ pc \in [Workers -> PCs] /\ todo \in [Workers -> SUBSET Users]
      /\ pr \in [Workers -> [author : Users \cup {None}, status : Statuses,
                         reviewers : SUBSET Users]]
  BY DEF ServiceTyped, ServiceTypeOK, TypeOK, LocalsTypeOK
<1>2. req'[w] = req[w] /\ (pc'[w] = "insertpr" => pc[w] = "candidates")
  BY <1>1
     DEF Step, CreateStep, ReassignStep, CheckPRExists, ReadAuthor,
         SelectReviewers, InsertPR, CommitPR, ReadHeader, ReadReviewers,
         SetMerged, ReadOldUser, PickReplacement, IssueDelete, LockRows,
         InsertRow, CommitReassign, BreakDeadlock, Fail, Continue, Answer,
         AnswerWritten
<1>3. pc'[w] = "candidates" => UserExists(req[w].user)
  BY <1>1
     DEF Step, CreateStep, ReassignStep, CheckPRExists, ReadAuthor,
         SelectReviewers, InsertPR, CommitPR, ReadHeader, ReadReviewers,
         SetMerged, ReadOldUser, PickReplacement, IssueDelete, LockRows,
         InsertRow, CommitReassign, BreakDeadlock, Fail, Continue, Answer,
         AnswerWritten
<1>4. CASE \E code : Answer(w, code)
  <2>1. todo'[w] = {} /\ pr'[w] = NoPR
    BY <1>1, <1>4 DEF Answer
  <2> QED BY <1>2, <1>3, <2>1 DEF NoPR
<1>5. CASE SelectReviewers(w)
  <2>1. PICK R \in ReviewerChoices(CreateCandidates(w)) :
          todo' = [todo EXCEPT ![w] = R]
    BY <1>5 DEF SelectReviewers
  <2>2. \A u \in R : u \in Users /\ active[u]
    BY <2>1 DEF ReviewerChoices, CreateCandidates, GetActiveUsersByTeam
  <2>3. UNCHANGED pr
    BY <1>5 DEF SelectReviewers
  <2> QED BY <1>1, <1>2, <1>3, <2>1, <2>2, <2>3
<1>6. CASE PickReplacement(w) /\ ~(\E code : Answer(w, code))
  <2>1. PICK new \in ReplacementCandidates(w) :
          todo' = [todo EXCEPT ![w] =
                     (pr[w].reviewers \ {req[w].user}) \cup {new}]
    BY <1>6 DEF PickReplacement
  <2>2. new \in Users /\ active[new]
    BY <2>1 DEF ReplacementCandidates, GetActiveUsersByTeam
  <2>3. todo'[w] = (pr[w].reviewers \ {req[w].user}) \cup {new}
    BY <1>1, <2>1
  <2>4. UNCHANGED pr
    BY <1>6 DEF PickReplacement
  <2> QED BY <1>2, <1>3, <2>2, <2>3, <2>4
<1>7. CASE InsertRow(w) /\ ~(\E code : Answer(w, code))
  <2>1. todo'[w] \subseteq todo[w] /\ UNCHANGED pr
    BY <1>1, <1>7 DEF InsertRow
  <2> QED BY <1>2, <1>3, <2>1
<1>8. CASE UNCHANGED <<todo, pr>>
  BY <1>2, <1>3, <1>8
<1>9. CASE /\ UNCHANGED todo
           /\ pr' = [pr EXCEPT ![w] = [author |-> author[req[w].pr],
                                       status |-> status[req[w].pr],
                                       reviewers |-> {}]]
  <2>1. pr'[w].reviewers = {}
    BY <1>1, <1>9
  <2> QED BY <1>2, <1>3, <1>9, <2>1
<1>10. CASE /\ UNCHANGED todo
            /\ pr' = [pr EXCEPT ![w].reviewers = reviewers[req[w].pr]]
  <2>1. pr'[w].reviewers = reviewers[req[w].pr]
    BY <1>1, <1>10
  <2> QED BY <1>2, <1>3, <1>10, <2>1
<1>11. CASE ReadHeader(w) \/ ReadReviewers(w)
  BY <1>4, <1>9, <1>10, <1>11 DEF ReadHeader, ReadReviewers
<1> QED
  BY <1>4, <1>5, <1>6, <1>7, <1>8, <1>11
     DEF Step, CreateStep, ReassignStep, CheckPRExists, ReadAuthor,
         InsertPR, CommitPR, SetMerged, ReadOldUser, IssueDelete, LockRows,
         CommitReassign, BreakDeadlock, Fail, AnswerWritten

\* and every step of its worker of a transaction.
LEMMA TxLocals ==
  ASSUME NEW w \in Workers, ServiceTyped, ServiceAction(w)
  PROVE  /\ \/ tx'[w].author \in {None, tx[w].author}
            \/ pc[w] = "insertpr" /\ tx'[w].author = req[w].user
         /\ \A u \in tx'[w].inserted :
              \/ u \in tx[w].inserted
              \/ pc[w] = "inserting" /\ u \in todo[w]
              \/ at[w] = "inserting" /\ u \in job[w].list
<1>1. tx \in [Workers -> Transactions]
  BY JobFacts DEF StoreTypeOK
<1>2. CASE UNCHANGED tx
  BY <1>2
<1>3. CASE Rollback(w) \/ (\E R : CommitPullRequest(w, R)) \/ CommitReviewers(w)
  <2>1. tx'[w] = NoTx
    BY <1>1, <1>3 DEF Rollback, CommitPullRequest, CommitReviewers
  <2> QED BY <2>1 DEF NoTx
<1>4. CASE InsertPR(w) /\ ~Rollback(w)
  <2>1. tx'[w] = [NoTx EXCEPT !.pr = req[w].pr, !.author = req[w].user]
        /\ pc[w] = "insertpr"
    BY <1>1, <1>4 DEF InsertPR, InsertPullRequest
  <2> QED BY <2>1 DEF NoTx
<1>5. CASE \E p : StartDeleteReviewers(w, p)
  <2>1. PICK p : tx'[w] = [NoTx EXCEPT !.pr = p, !.seen = reviewers[p]]
    BY <1>1, <1>5 DEF StartDeleteReviewers
  <2> QED BY <2>1 DEF NoTx
<1>6. CASE FinishDeleteReviewers(w)
  BY <1>1, <1>6 DEF FinishDeleteReviewers, Transactions
<1>7. ASSUME NEW u, InsertReviewer(w, u),
             \/ pc[w] = "inserting" /\ u \in todo[w]
             \/ at[w] = "inserting" /\ u \in job[w].list
      PROVE  /\ tx'[w].author = tx[w].author
             /\ \A x \in tx'[w].inserted : x \in tx[w].inserted \/ x = u
  BY <1>1, <1>7 DEF InsertReviewer, Transactions
<1>8. CASE InsertRow(w) /\ ~Rollback(w)
  <2>1. PICK u \in NextRows(w) : InsertReviewer(w, u)
    BY <1>8 DEF InsertRow
  <2>2. pc[w] = "inserting" /\ u \in todo[w]
    BY <1>8, <2>1 DEF InsertRow, NextRows
  <2> QED BY <1>7, <2>1, <2>2
<1>9. CASE InsertReplacement(w) /\ ~Rollback(w)
  <2>1. PICK u \in job[w].list : InsertReviewer(w, u)
    BY <1>9 DEF InsertReplacement
  <2>2. at[w] = "inserting"
    BY <1>9 DEF InsertReplacement
  <2> QED BY <1>7, <2>1, <2>2
<1>10. CASE ReceiveAny(w) \/ TaskFailure(w) \/ BreakTaskDeadlock(w)
  BY <1>2, <1>3, <1>10
     DEF ReceiveAny, ReceivePR, Receive, ReceiveTask, TaskFailure, TaskFail,
         BreakTaskDeadlock, KeepTables
<1>11. CASE Step(w) \/ Fail(w)
  BY <1>2, <1>3, <1>4, <1>5, <1>6, <1>8, <1>11
     DEF Step, CreateStep, ReassignStep, CheckPRExists, ReadAuthor,
         SelectReviewers, CommitPR, ReadHeader, ReadReviewers,
         SetMerged, ReadOldUser, PickReplacement, IssueDelete, LockRows,
         CommitReassign, BreakDeadlock, Fail, UpdatePullRequestStatus
<1>12. CASE TeamStep(w) \/ UserStep(w)
  BY <1>2, <1>3, <1>5, <1>6, <1>9, <1>12
     DEF TeamStep, UserStep, AddStep, DeactivateStep, PickStep, CheckTeam,
         InsertTeam, CommitTeam, UpsertMember, FindTeam, ListMembers,
         TeamExists, ReadTargets, ReadAffected, ReadNextPR, ReadCurrent,
         PickFromTeam, ReadAuthorTeam, PickFromAuthorTeam, PickFromAll,
         DeleteCurrent, LockCurrent, CommitReplacements, IssueDeactivation,
         DeactivateMembers, SetFlag, ReadBack, FindUser, ListReviews,
         CountReviews, CreateOrUpdateUser, UpdateUserIsActive,
         BulkDeactivateUsersByTeam, KeepTables
<1> QED
  BY <1>10, <1>11, <1>12 DEF ServiceAction, PRStep, TaskStep
\* The users a deactivation is going to assign were reviewers or are active.
LEMMA TaskLocals ==
  ASSUME NEW w \in Workers, ServiceTyped, TeamStep(w) \/ UserStep(w),
         at'[w] \in ListLabels
  PROVE  \A u \in job'[w].list :
           \/ at[w] \in ListLabels /\ u \in job[w].list
           \/ u \in Users /\ active[u]
           \/ at[w] = "current" /\ u \in reviewers[job[w].pr]
<1>1. at \in [Workers -> Labels] /\ job \in [Workers -> Jobs]
  BY DEF ServiceTyped, ServiceTypeOK, TeamsTypeOK
<1>2. ~\E code : Finish(w, code)
  BY <1>1
     DEF Finish, ListLabels, WorkLabels, PickLabels
<1>3. ASSUME NEW label \in Labels \ ListLabels, Proceed(w, label)
      PROVE  FALSE
  BY <1>1, <1>3 DEF Proceed
<1>4. \A label \in {"insertteam", "committeam", "members", "listed", "readback",
                    "reviews", "targets", "affected", "nextpr", "current",
                    "switchoff"} :
        label \in Labels \ ListLabels
  BY DEF Labels, ListLabels, WorkLabels, PickLabels, AddLabels, DeactivateLabels
<1>5. ASSUME at[w] \in ListLabels, UNCHANGED job
      PROVE  \A u \in job'[w].list : at[w] \in ListLabels /\ u \in job[w].list
  BY <1>5
<1>6. ASSUME at[w] \in ListLabels, NEW S \in SUBSET Users,
             NEW found \in SUBSET S, NEW skipped, Settle(w, found, skipped),
             \A u \in S : active[u]
      PROVE  \A u \in job'[w].list :
               \/ at[w] \in ListLabels /\ u \in job[w].list
               \/ u \in Users /\ active[u]
  <2> DEFINE j == [job[w] EXCEPT !.list = @ \cup found, !.owed = @ - 1,
                                 !.skipped = @ \cup skipped]
  <2>1. job'[w] = j
    BY <1>1, <1>6 DEF Settle, SetJob
  <2>2. j.list = job[w].list \cup found
    BY <1>1 DEF Jobs
  <2> HIDE DEF j
  <2> QED BY <1>6, <2>1, <2>2
<1>7. ASSUME at[w] \in ListLabels, NEW S \in SUBSET Users, Replace(w, S),
             \A u \in S : active[u]
      PROVE  \A u \in job'[w].list :
               \/ at[w] \in ListLabels /\ u \in job[w].list
               \/ u \in Users /\ active[u]
  <2>1. PICK new \in S : Settle(w, {new}, {})
    BY <1>2, <1>7 DEF Replace
  <2> QED BY <1>6, <1>7, <2>1
<1>8. CASE PickFromTeam(w)
  <2>1. at[w] \in ListLabels
    BY <1>8 DEF PickFromTeam, ListLabels, WorkLabels, PickLabels
  <2> DEFINE S == Usable(w, ActiveMembers(task[w].team))
  <2>2. S \subseteq Users /\ \A u \in S : active[u]
    BY DEF Usable, ActiveMembers
  <2>3. Replace(w, S) \/ UNCHANGED job
    BY <1>8 DEF PickFromTeam
  <2> HIDE DEF S
  <2> QED BY <1>5, <1>7, <2>1, <2>2, <2>3
<1>9. CASE PickFromAuthorTeam(w)
  <2>1. at[w] \in ListLabels
    BY <1>9 DEF PickFromAuthorTeam, ListLabels, WorkLabels, PickLabels
  <2> DEFINE a == job[w].author
             S == Usable(w, GetActiveUsersByTeam(job[w].cache[a], a))
  <2>2. S \subseteq Users /\ \A u \in S : active[u]
    BY DEF Usable, GetActiveUsersByTeam
  <2>3. Replace(w, S) \/ UNCHANGED job
    BY <1>9 DEF PickFromAuthorTeam
  <2> HIDE DEF S
  <2> QED BY <1>5, <1>7, <2>1, <2>2, <2>3
<1>10. CASE PickFromAll(w)
  <2>1. at[w] \in ListLabels
    BY <1>10 DEF PickFromAll, ListLabels, WorkLabels, PickLabels
  <2> DEFINE S == Usable(w, GetAllActiveUsers(job[w].list \cup job[w].targets))
  <2>2. S \subseteq Users /\ \A u \in S : active[u]
    BY DEF Usable, GetAllActiveUsers
  <2>3. Replace(w, S) \/ Settle(w, {}, {job[w].pr})
    BY <1>10 DEF PickFromAll
  <2> HIDE DEF S
  <2> QED BY <1>6, <1>7, <2>1, <2>2, <2>3
<1>11. CASE ReadAuthorTeam(w)
  <2> DEFINE j == [job[w] EXCEPT !.cache[job[w].author] = team[job[w].author]]
  <2>1. at[w] \in ListLabels /\ job'[w] = j
    BY <1>1, <1>11
       DEF ReadAuthorTeam, SetJob, ListLabels, WorkLabels, PickLabels
  <2>2. j.list = job[w].list
    BY <1>1 DEF Jobs
  <2> HIDE DEF j
  <2> QED BY <2>1, <2>2
<1>12. CASE ReadCurrent(w)
  <2>1. ~Proceed(w, "nextpr")
    BY <1>3, <1>4
  <2>2. PICK R, n : SetJob(w, [job[w] EXCEPT !.old = R,
                                   !.list = Kept(w, reviewers[job[w].pr]),
                                   !.owed = n])
    BY <1>12, <2>1 DEF ReadCurrent
  <2> DEFINE j == [job[w] EXCEPT !.old = R,
                                 !.list = Kept(w, reviewers[job[w].pr]),
                                 !.owed = n]
  <2>3. job'[w] = j
    BY <1>1, <2>2 DEF SetJob
  <2>4. j.list \subseteq reviewers[job[w].pr]
    BY <1>1 DEF Jobs, Kept
  <2> HIDE DEF j
  <2> QED BY <1>12, <2>3, <2>4 DEF ReadCurrent
<1>13. CASE DeleteCurrent(w) \/ LockCurrent(w)
  BY <1>5, <1>13 DEF DeleteCurrent, LockCurrent, ListLabels, WorkLabels
<1>14. CASE InsertReplacement(w)
  <2>1. PICK u : SetJob(w, [job[w] EXCEPT !.list = @ \ {u}])
    BY <1>2, <1>14 DEF InsertReplacement
  <2>2. job'[w].list = job[w].list \ {u} /\ at[w] \in ListLabels
    BY <1>1, <1>14, <2>1
       DEF InsertReplacement, SetJob, Jobs, ListLabels, WorkLabels
  <2> QED BY <2>2
<1>15. CASE CommitReplacements(w)
  BY <1>2, <1>3, <1>4, <1>15 DEF CommitReplacements
<1> QED
  BY <1>2, <1>3, <1>4, <1>8, <1>9, <1>10, <1>11, <1>12, <1>13, <1>14, <1>15
     DEF TeamStep, UserStep, AddStep, DeactivateStep, PickStep, CheckTeam,
         InsertTeam, CommitTeam, UpsertMember, FindTeam, ListMembers,
         TeamExists, ReadTargets, ReadAffected, ReadNextPR, IssueDeactivation,
         DeactivateMembers, SetFlag, ReadBack, FindUser, ListReviews,
         CountReviews, FinishWritten

\* A statement of the team and user endpoints ends or proceeds.
LEMMA TaskStepShape ==
  ASSUME NEW w \in Workers, TeamStep(w) \/ UserStep(w)
  PROVE  /\ at[w] # "idle"
         /\ (\E code : Finish(w, code)) \/ (\E label : Proceed(w, label))
  BY DEF TeamStep, UserStep, AddStep, DeactivateStep, PickStep, CheckTeam,
         InsertTeam, CommitTeam, UpsertMember, FindTeam, ListMembers,
         TeamExists, ReadTargets, ReadAffected, ReadNextPR, ReadCurrent,
         PickFromTeam, ReadAuthorTeam, PickFromAuthorTeam, PickFromAll,
         Replace, Settle, DeleteCurrent, LockCurrent, InsertReplacement,
         CommitReplacements, IssueDeactivation, DeactivateMembers, SetFlag,
         ReadBack, FindUser, ListReviews, CountReviews, FinishWritten

\* A request gets to the label of the upserts only from the COMMIT of its team
\* or from an upsert.
LEMMA ToMembers ==
  ASSUME NEW w \in Workers, ServiceTyped, TeamStep(w) \/ UserStep(w),
         at'[w] = "members"
  PROVE  /\ UNCHANGED task
         /\ CommitTeam(w) \/ (at[w] = "members" /\ UNCHANGED teams)
<1>1. at \in [Workers -> Labels]
  BY DEF ServiceTyped, ServiceTypeOK, TeamsTypeOK
<1>2. ASSUME NEW code, Finish(w, code) PROVE FALSE
  BY <1>1, <1>2 DEF Finish
<1>3. ASSUME NEW label, Proceed(w, label) PROVE label = "members"
  BY <1>1, <1>3 DEF Proceed
<1>4. \A x : FirstPick(x) # "members"
  BY DEF FirstPick
<1>5. CASE UpsertMember(w)
  <2>1. PICK u : Proceed(w, "members")
    BY <1>2, <1>5 DEF UpsertMember, FinishWritten
  <2> QED BY <1>5, <2>1 DEF UpsertMember, Proceed
<1>6. CASE CommitTeam(w)
  <2>1. Proceed(w, "members")
    BY <1>2, <1>6 DEF CommitTeam, FinishWritten
  <2> QED BY <1>6, <2>1 DEF Proceed
<1>7. ~ReadCurrent(w)
  <2>1. SUFFICES ASSUME ReadCurrent(w) PROVE FALSE
    OBVIOUS
  <2>2. \E label : Proceed(w, label) /\ label \in {"nextpr", "delete", FirstPick(w)}
    BY <2>1 DEF ReadCurrent
  <2> QED BY <1>3, <1>4, <2>2
<1>8. ASSUME NEW found, NEW skipped, Settle(w, found, skipped) PROVE FALSE
  <2>1. \E label : Proceed(w, label) /\ label \in {"delete", FirstPick(w)}
    BY <1>8 DEF Settle
  <2> QED BY <1>3, <1>4, <2>1
<1>9. ~PickStep(w)
  <2>1. SUFFICES ASSUME PickStep(w) PROVE FALSE
    OBVIOUS
  <2>2. \/ \E code : Finish(w, code)
        \/ \E found, skipped : Settle(w, found, skipped)
        \/ \E label : Proceed(w, label)
                      /\ label \in {"author", "authorteam", "everyone"}
    BY <2>1
       DEF PickStep, PickFromTeam, ReadAuthorTeam, PickFromAuthorTeam,
           PickFromAll, Replace
  <2> QED BY <1>2, <1>3, <1>8, <2>2
<1> QED
  BY <1>2, <1>3, <1>5, <1>6, <1>7, <1>9
     DEF TeamStep, UserStep, AddStep, DeactivateStep, CheckTeam, InsertTeam,
         FindTeam, ListMembers, TeamExists, ReadTargets, ReadAffected,
         ReadNextPR, DeleteCurrent, LockCurrent, InsertReplacement,
         CommitReplacements, IssueDeactivation, DeactivateMembers, SetFlag,
         ReadBack, FindUser, ListReviews, CountReviews, FinishWritten

\* What an arriving request is: it names a team if it adds one.
LEMMA NewTask ==
  ASSUME NEW w \in Workers, ServiceTyped, ReceiveTask(w)
  PROVE  /\ at'[w] \in {"idle", "team", "exists", "found", "setflag", "user",
                        "stats"}
         /\ answer'[w] \in {"none", "BAD_REQUEST", "NO_CANDIDATE"}
         /\ task'[w].op = "teamAdd" => task'[w].team \in Teams
         /\ at'[w] # "idle" =>
              /\ task'[w].op \in {"teamAdd", "teamDeactivate", "teamGet",
                                  "setIsActive", "getReview", "stats"}
              /\ at'[w] = FirstLabel[task'[w].op]
         /\ answer'[w] = "NO_CANDIDATE" => task'[w].op = "teamDeactivate"
<1>1. PICK r \in TaskRequests :
        /\ task' = [task EXCEPT ![w] = r]
        /\ at' = [at EXCEPT ![w] = IF Refused(r) THEN "idle"
                                   ELSE FirstLabel[r.op]]
        /\ answer' = [answer EXCEPT ![w] =
                        IF ~Refused(r) THEN "none"
                        ELSE IF r.op = "malformed" THEN "BAD_REQUEST"
                        ELSE "NO_CANDIDATE"]
  BY DEF ReceiveTask
<1>2. /\ task'[w] = r
      /\ at'[w] = IF Refused(r) THEN "idle" ELSE FirstLabel[r.op]
      /\ answer'[w] = IF ~Refused(r) THEN "none"
                      ELSE IF r.op = "malformed" THEN "BAD_REQUEST"
                      ELSE "NO_CANDIDATE"
  BY <1>1 DEF ServiceTyped, ServiceTypeOK, TeamsTypeOK
<1>3. Refused(r) \/ r.op \in {"teamAdd", "teamDeactivate", "teamGet",
                              "setIsActive", "getReview", "stats"}
  BY ServerAssumption
     DEF TaskRequests, Tasks, Operations, UserEndpoints, ReadEndpoints, Refused
<1>4. ~Refused(r) => FirstLabel[r.op] \in {"team", "exists", "found", "setflag",
                                           "user", "stats"}
  BY <1>3 DEF FirstLabel
<1>5. r.op = "teamAdd" => r.team \in Teams
  BY DEF TaskRequests, Tasks
<1>6. Refused(r) /\ r.op # "malformed" => r.op = "teamDeactivate"
  BY DEF Refused, TaskRequests
<1> QED BY <1>2, <1>3, <1>4, <1>5, <1>6 DEF FirstLabel

\* Members are added to a team that has been committed.
LEMMA MembersOfTeams ==
  ASSUME NEW w \in Workers, ServiceTyped, ServiceAction(w),
         at[w] = "members" => task[w].team \in teams, at'[w] = "members"
  PROVE  task'[w].team \in teams'
<1>1. at \in [Workers -> Labels] /\ task \in [Workers -> Tasks]
  BY DEF ServiceTyped, ServiceTypeOK, TeamsTypeOK
<1>2. ~\E code : Finish(w, code)
  BY <1>1 DEF Finish
<1>3. CASE TaskStep(w)
  <2>1. /\ UNCHANGED task
        /\ CommitTeam(w) \/ (at[w] = "members" /\ UNCHANGED teams)
    BY <1>3, ToMembers DEF TaskStep
  <2>2. CommitTeam(w) => teams' = teams \cup {task[w].team}
    BY DEF CommitTeam
  <2> QED BY <2>1, <2>2
<1>4. CASE UNCHANGED <<at, task, teams>>
  BY <1>4
<1>5. CASE ReceiveAny(w)
  <2>1. ~ReceivePR(w)
    BY DEF ReceivePR, Idle
  <2> QED BY <1>5, <2>1, NewTask DEF ReceiveAny
<1> QED
  BY <1>2, <1>3, <1>4, <1>5
     DEF ServiceAction, PRStep, TaskFailure, TaskFail, BreakTaskDeadlock,
         teamVars, taskLocals

\* What a worker has read and will write stays registered when it takes a
\* step itself,
LEMMA OwnReferences ==
  ASSUME NEW w \in Workers, ServiceTyped, ServiceRows, References,
         ServiceAction(w)
  PROVE  RegisteredBy(w)'
<1>1. /\ RegisteredBy(w) /\ Own(w) /\ StoreTypeOK
      /\ todo[w] \subseteq Users /\ pr[w].reviewers \subseteq Users
      /\ tx[w].inserted \subseteq Users /\ tx[w].author \in Users \cup {None}
      /\ job[w].list \subseteq Users
      /\ pc \in [Workers -> PCs] /\ at \in [Workers -> Labels]
  BY JobFacts
     DEF References, ServiceRows, Own, ServiceTyped, ServiceTypeOK, TypeOK,
         LocalsTypeOK, TeamsTypeOK, StoreTypeOK, Transactions
<1>2. /\ \A u \in Users : UserExists(u) => UserExists(u)'
      /\ \A u \in Users : active[u] => UserExists(u)
      /\ \A p \in PRs : reviewers[p] \subseteq Users /\ Registered(reviewers[p])
  BY <1>1, UsersStay DEF References, StoreTypeOK
<1>3. pc[w] # "idle" => req[w].pr \in PRs
  BY <1>1, PRPhases
<1>4. pc[w] \in {"candidates", "insertpr"} =>
        req[w].user \in Users /\ UserExists(req[w].user)
  BY <1>1, PRPhases DEF RegisteredBy, CreatePCs
<1>5. /\ Registered(tx[w].inserted)'
      /\ tx'[w].author # None => UserExists(tx[w].author)'
  <2>1. \A u \in tx'[w].inserted : u \in Users /\ UserExists(u)
    BY <1>1, TxLocals DEF RegisteredBy, Registered, ListLabels, WorkLabels
  <2>2. tx'[w].author # None =>
          tx'[w].author \in Users /\ UserExists(tx'[w].author)
    BY <1>1, <1>4, TxLocals DEF RegisteredBy
  <2> QED BY <1>2, <2>1, <2>2 DEF Registered, UserExists
<1>6. /\ Registered(todo[w])' /\ Registered(pr[w].reviewers)'
      /\ pc'[w] \in {"candidates", "insertpr"} => UserExists(req[w].user)'
  <2>1. CASE UNCHANGED locals
    <3>1. /\ todo'[w] = todo[w] /\ pr'[w] = pr[w] /\ pc'[w] = pc[w]
          /\ req'[w] = req[w]
      BY <2>1 DEF locals
    <3> QED BY <1>1, <1>2, <1>4, <3>1 DEF RegisteredBy, Registered, UserExists
  <2>2. CASE Step(w) \/ Fail(w)
    <3>1. pc[w] # "idle" /\ req[w].pr \in PRs
      BY <1>3, <2>2, StepsAreBusy
    <3>2. \A u \in todo'[w] : u \in Users /\ UserExists(u)
      BY <1>1, <1>2, <2>2, PRLocals DEF RegisteredBy, Registered
    <3>3. \A u \in pr'[w].reviewers : u \in Users /\ UserExists(u)
      BY <1>1, <1>2, <2>2, <3>1, PRLocals DEF RegisteredBy, Registered
    <3>4. pc'[w] \in {"candidates", "insertpr"} =>
            req'[w].user \in Users /\ UserExists(req'[w].user)
      <4>1. pc'[w] = "candidates" => pc[w] = "author"
        BY <1>1, <2>2
           DEF Step, CreateStep, ReassignStep, CheckPRExists, ReadAuthor,
               SelectReviewers, InsertPR, CommitPR, ReadHeader, ReadReviewers,
               SetMerged, ReadOldUser, PickReplacement, IssueDelete, LockRows,
               InsertRow, CommitReassign, BreakDeadlock, Fail, Continue,
               Answer, AnswerWritten
      <4>2. pc[w] = "author" => req[w].user \in Users
        BY <1>1, PRPhases DEF CreatePCs
      <4> QED BY <1>4, <2>2, <4>1, <4>2, PRLocals
    <3> QED BY <1>2, <3>2, <3>3, <3>4 DEF Registered, UserExists
  <2>3. CASE \E code : Answer(w, code)
    <3>1. todo'[w] = {} /\ pr'[w] = NoPR /\ pc'[w] = "idle"
      BY <1>1, <2>3 DEF Answer, ServiceTyped, ServiceTypeOK, TypeOK, LocalsTypeOK
    <3> QED BY <3>1 DEF Registered, NoPR
  <2>4. CASE Receive(w)
    <3>1. todo'[w] = todo[w] /\ pr'[w] = pr[w]
      BY <2>4 DEF Receive
    <3>2. pc'[w] \notin {"candidates", "insertpr"}
      BY <1>1, <2>4, RequestFacts DEF Receive, Entry, Operations
    <3> QED BY <1>1, <1>2, <3>1, <3>2 DEF RegisteredBy, Registered, UserExists
  <2> QED
    BY <2>1, <2>2, <2>3, <2>4
       DEF ServiceAction, ReceiveAny, ReceivePR, PRStep, TaskStep, TaskFailure,
           BreakTaskDeadlock
<1>7. at'[w] \in ListLabels => Registered(job[w].list)'
  <2>1. CASE at'[w] = at[w] /\ job'[w] = job[w]
    BY <1>1, <1>2, <2>1 DEF RegisteredBy, Registered, UserExists
  <2>2. CASE \E code : Finish(w, code)
    <3>1. at'[w] = "idle"
      BY <1>1, <2>2 DEF Finish
    <3> QED BY <3>1 DEF ListLabels, WorkLabels, PickLabels
  <2>3. CASE ReceiveTask(w)
    BY <2>3, NewTask DEF ListLabels, WorkLabels, PickLabels
  <2>4. CASE TaskStep(w)
    <3>1. SUFFICES ASSUME at'[w] \in ListLabels PROVE Registered(job[w].list)'
      OBVIOUS
    <3>2. at[w] = "current" => job[w].pr \in PRs
      BY DEF ServiceTyped, TasksOK, TaskPhase, WorkLabels
    <3>3. \A u \in job'[w].list : u \in Users /\ UserExists(u)
      BY <1>1, <1>2, <2>4, <3>1, <3>2, TaskLocals
         DEF RegisteredBy, Registered, TaskStep
    <3> QED BY <1>2, <3>3 DEF Registered, UserExists
  <2> QED
    BY <2>1, <2>2, <2>3, <2>4
       DEF ServiceAction, ReceiveAny, ReceivePR, PRStep, TaskFailure, TaskFail,
           BreakTaskDeadlock, teamVars, taskLocals
<1>8. at'[w] = "members" => task'[w].team \in teams'
  BY <1>1, MembersOfTeams DEF RegisteredBy
<1> QED BY <1>5, <1>6, <1>7, <1>8 DEF RegisteredBy, UserExists, Registered

\* and when another does.
LEMMA OtherReferences ==
  ASSUME NEW w \in Workers, NEW v \in Workers \ {w}, ServiceTyped, ServiceRows,
         References, ServiceAction(w)
  PROVE  RegisteredBy(v)'
<1>1. SamePR(v) /\ SameTask(v) /\ StoreTypeOK /\ StoreStep(w)
  BY ActionLocal, ActionStoreStep, JobFacts DEF ServiceRows, Own
<1>2. tx'[v].author = tx[v].author /\ tx'[v].inserted = tx[v].inserted
  BY <1>1, StoreStepOthers
<1>3. /\ RegisteredBy(v) /\ Own(v)
      /\ todo[v] \subseteq Users /\ pr[v].reviewers \subseteq Users
      /\ tx[v].inserted \subseteq Users /\ tx[v].author \in Users \cup {None}
      /\ job[v].list \subseteq Users
  BY JobFacts
     DEF References, ServiceRows, Own, ServiceTyped, ServiceTypeOK, TypeOK,
         LocalsTypeOK, StoreTypeOK, Transactions
<1>4. pc[v] \in {"candidates", "insertpr"} => req[v].user \in Users
  BY <1>3, PRPhases DEF CreatePCs
<1>5. (\A u \in Users : UserExists(u) => UserExists(u)') /\ teams \subseteq teams'
  BY UsersStay
<1> QED
  BY <1>1, <1>2, <1>3, <1>4, <1>5
     DEF RegisteredBy, Registered, UserExists, SamePR, SameTask

\* Reviewers are written from what the transactions know,
LEMMA ReviewersRegistered ==
  ASSUME NEW w \in Workers, ServiceTyped, ServiceRows, References,
         ServiceAction(w), NEW p \in PRs
  PROVE  reviewers'[p] \subseteq Users /\ Registered(reviewers'[p])
<1>1. Own(w) /\ StoreTypeOK /\ RegisteredBy(w) /\ todo[w] \subseteq Users
      /\ tx[w].inserted \subseteq Users
  BY JobFacts
     DEF References, ServiceRows, Own, ServiceTyped, ServiceTypeOK, TypeOK,
         LocalsTypeOK, StoreTypeOK, Transactions
<1>2. reviewers[p] \subseteq Users /\ Registered(reviewers[p])
  BY <1>1 DEF References, StoreTypeOK
<1>3. CASE UNCHANGED reviewers
  BY <1>2, <1>3
<1>4. CASE CommitPR(w)
  <2>1. reviewers'[p] = reviewers[p] \/ reviewers'[p] = todo[w]
    BY <1>1, <1>4 DEF CommitPR, CommitPullRequest, StoreTypeOK
  <2> QED BY <1>1, <1>2, <2>1 DEF RegisteredBy
<1>5. ASSUME CommitReviewers(w), tx[w].pr \in PRs
      PROVE  reviewers'[p] \subseteq Users /\ Registered(reviewers'[p])
  <2>1. reviewers'[p] \subseteq reviewers[p] \cup tx[w].inserted
    BY <1>1, <1>5, CommitReviewersFacts
  <2> QED BY <1>1, <1>2, <2>1 DEF RegisteredBy, Registered
<1>6. CASE CommitReassign(w)
  <2>1. tx[w].pr \in PRs
    BY <1>1, <1>6, PRPhases DEF CommitReassign, TxPhase
  <2> QED BY <1>5, <1>6, <2>1 DEF CommitReassign
<1>7. CASE CommitReplacements(w)
  <2>1. tx[w].pr \in PRs
    BY <1>1, <1>7, TaskPhases DEF CommitReplacements, OpenLabels, WorkLabels
  <2> QED BY <1>5, <1>7, <2>1 DEF CommitReplacements
<1> QED BY <1>3, <1>4, <1>6, <1>7, ReviewersChange

\* and so are authors.
LEMMA AuthorsRegistered ==
  ASSUME NEW w \in Workers, ServiceTyped, ServiceRows, References,
         ServiceAction(w), NEW p \in PRs, author'[p] # None
  PROVE  author'[p] \in Users /\ UserExists(author'[p])
<1>1. /\ StoreStep(w) /\ StoreTypeOK /\ RegisteredBy(w)
      /\ author[p] \in Users \cup {None} /\ tx[w].author \in Users \cup {None}
      /\ author[p] # None => UserExists(author[p])
  BY JobFacts, ActionStoreStep
     DEF References, ServiceRows, Own, StoreTypeOK, Transactions
<1>2. author'[p] \in {author[p], tx[w].author}
  BY <1>1
     DEF StoreStep, StoreTypeOK, Rollback, InsertPullRequest,
         CommitPullRequest, StartDeleteReviewers, FinishDeleteReviewers,
         InsertReviewer, CommitReviewers, tables
<1> QED BY <1>1, <1>2 DEF RegisteredBy

\* A service that starts refers to nothing that is not there,
LEMMA ReferencesInit ==
  ASSUME ServiceInit PROVE References
<1>1. /\ todo = [w \in Workers |-> {}] /\ pr = [w \in Workers |-> NoPR]
      /\ tx = [w \in Workers |-> NoTx] /\ pc = [w \in Workers |-> "idle"]
      /\ at = [w \in Workers |-> "idle"]
  BY DEF ServiceInit, Init, StoreInit, TeamsInit
<1>2. \A w \in Workers : RegisteredBy(w)
  BY <1>1
     DEF RegisteredBy, Registered, NoPR, NoTx, ListLabels, WorkLabels,
         PickLabels
<1>3. /\ \A u \in Users : team[u] # None => team[u] \in teams
      /\ \A u \in Users : active[u] => UserExists(u)
      /\ \A p \in PRs : reviewers[p] = {} /\ author[p] = None
  BY DEF ServiceInit, Init, StoreInit, TeamsInit, UserExists
<1> QED BY <1>2, <1>3 DEF References, Registered

\* and no step makes it.
LEMMA ReferencesNext ==
  ASSUME ServiceTyped, ServiceRows, References, [ServiceNext]_serviceVars
  PROVE  References'
<1>1. CASE UNCHANGED serviceVars
  BY <1>1
     DEF serviceVars, vars, teamVars, taskLocals, tables, locals, References,
         RegisteredBy, Registered, UserExists
<1>2. ASSUME NEW w \in Workers, ServiceAction(w) PROVE References'
  <2>1. ASSUME NEW u \in Users, team'[u] # None PROVE team'[u] \in teams'
    <3>1. CASE team' = team
      BY <1>2, <2>1, <3>1, UsersStay DEF References
    <3>2. CASE UpsertMember(w)
      <4>1. task[w].team \in teams /\ teams' = teams
        BY <3>2 DEF UpsertMember, References, RegisteredBy
      <4>2. team'[u] \in {team[u], task[w].team}
        BY <3>2, JobFacts DEF UpsertMember, CreateOrUpdateUser, StoreTypeOK
      <4> QED BY <2>1, <4>1, <4>2 DEF References
    <3> QED BY <1>2, <3>1, <3>2, UsersStay
  <2>2. \A u \in Users : active'[u] => UserExists(u)'
    BY <1>2, ActiveRegistered DEF UserExists
  <2>3. \A u \in Users : UserExists(u) => UserExists(u)'
    BY <1>2, UsersStay
  <2>4. \A p \in PRs : Registered(reviewers[p])'
    BY <1>2, <2>3, ReviewersRegistered DEF Registered, UserExists
  <2>5. \A p \in PRs : author'[p] # None => UserExists(author[p])'
    BY <1>2, <2>3, AuthorsRegistered DEF UserExists
  <2>6. \A v \in Workers : RegisteredBy(v)'
    BY <1>2, OwnReferences, OtherReferences
  <2> QED BY <2>1, <2>2, <2>4, <2>5, <2>6 DEF References
<1> QED BY <1>1, <1>2 DEF ServiceNext, ServiceAction

\* The foreign keys of the tables never stop a statement (001_init.up.sql):
\* every user and team that a request is going to write has been committed,
\* and nothing removes it meanwhile.
THEOREM ReferencesAlwaysHold == ServiceSpec => []ReferencesHold
<1>1. References => ReferencesHold
  BY DEF References, ReferencesHold, RegisteredBy, Registered, ListLabels,
         WorkLabels, PickLabels
<1> QED
  BY <1>1, ServiceTypedInit, ServiceTypedNext, ServiceRowsInit,
     ServiceRowsNext, ReferencesInit, ReferencesNext, PTL DEF ServiceSpec
-----------------------------------------------------------------------------
(***************************************************************************)
(* Answers.  The three parts of AnswersOf:                                 *)
(***************************************************************************)
InUseCase(w) ==
  at[w] # "idle" => task[w].op \in DOMAIN LabelsOf /\ at[w] \in LabelsOf[task[w].op]

Replies(w) ==
  reply[w] \in {"none", "ERROR"} \/
    /\ req[w].op \in Operations
    /\ reply[w] \in {"OK"} \cup Handled[req[w].op]

AnswersTask(w) ==
  answer[w] \in {"none", "ERROR", "BAD_REQUEST"} \/
    /\ task[w].op \in DOMAIN LabelsOf
    /\ answer[w] \in {"OK"} \cup Handled[task[w].op]

\* The conjuncts of AnswersOf.
LEMMA AnswersParts ==
  ASSUME NEW w
  PROVE  AnswersOf(w) <=> InUseCase(w) /\ Replies(w) /\ AnswersTask(w)
  BY DEF AnswersOf, InUseCase, Replies, AnswersTask

\* The pull request endpoints answer with what their handlers know.
LEMMA PRReplies ==
  ASSUME NEW w \in Workers, ServiceTyped, Replies(w), Step(w) \/ Fail(w)
  PROVE  Replies(w)'
<1>1. /\ pc \in [Workers -> PCs] /\ reply \in [Workers -> Codes]
      /\ req[w].op \in Operations /\ req'[w] = req[w] /\ PhaseOK
  BY StepsAreBusy, TypedRequest, RequestFacts, PRLocals
     DEF ServiceTyped, ServiceTypeOK, TypeOK, LocalsTypeOK, Typed
<1>2. CASE UNCHANGED reply
  BY <1>1, <1>2 DEF Replies
<1>3. ASSUME NEW code \in {"OK", "ERROR"} \cup Handled[req[w].op],
             Answer(w, code)
      PROVE  Replies(w)'
  <2>1. reply'[w] = code
    BY <1>1, <1>3 DEF Answer
  <2> QED BY <1>1, <2>1 DEF Replies
<1>4. CASE CheckPRExists(w)
  <2>1. req[w].op = "create"
    BY <1>1, <1>4 DEF CheckPRExists, PhaseOK, CreatePCs
  <2>2. "PR_EXISTS" \in Handled[req[w].op]
    BY <2>1 DEF Handled
  <2> QED BY <1>2, <1>3, <1>4, <2>2 DEF CheckPRExists, Continue
<1>5. CASE ReadAuthor(w) \/ Fail(w)
  <2>1. pc[w] = "author" => req[w].op = "create"
    BY <1>1 DEF PhaseOK, CreatePCs
  <2>2. pc[w] = "author" => "NOT_FOUND" \in Handled[req[w].op]
    BY <2>1 DEF Handled
  <2> QED BY <1>2, <1>3, <1>5, <2>2 DEF ReadAuthor, Fail, Continue
<1>6. CASE ReadHeader(w)
  <2>1. req[w].op \in {"merge", "reassign"}
    BY <1>1, <1>6 DEF ReadHeader, PhaseOK, ReadPCs
  <2>2. "NOT_FOUND" \in Handled[req[w].op]
    BY <2>1 DEF Handled
  <2> QED BY <1>2, <1>3, <1>6, <2>2 DEF ReadHeader, Continue
<1>7. CASE ReadReviewers(w)
  <2>1. req[w].op = "reassign" =>
          {"PR_MERGED", "NOT_ASSIGNED"} \subseteq Handled[req[w].op]
    BY DEF Handled
  <2> QED BY <1>2, <1>3, <1>7, <2>1 DEF ReadReviewers, Continue
<1>8. CASE ReadOldUser(w) \/ PickReplacement(w)
  <2>1. req[w].op = "reassign"
    BY <1>1, <1>8 DEF ReadOldUser, PickReplacement, PhaseOK, ReassignPCs
  <2>2. {"NOT_FOUND", "NO_CANDIDATE"} \subseteq Handled[req[w].op]
    BY <2>1 DEF Handled
  <2> QED
    BY <1>2, <1>3, <1>8, <2>2 DEF ReadOldUser, PickReplacement, Continue
<1> QED
  BY <1>2, <1>3, <1>4, <1>5, <1>6, <1>7, <1>8
     DEF Step, CreateStep, ReassignStep, SelectReviewers, InsertPR, CommitPR,
         SetMerged, IssueDelete, LockRows, InsertRow, CommitReassign,
         BreakDeadlock, Continue, AnswerWritten

\* The statement tells the endpoint.
LEMMA EndpointOf ==
  ASSUME NEW w \in Workers, ServiceTyped, InUseCase(w), at[w] # "idle"
  PROVE  /\ at[w] \in AddLabels => task[w].op = "teamAdd"
         /\ at[w] \in DeactivateLabels => task[w].op = "teamDeactivate"
         /\ at[w] \in {"found", "listed"} => task[w].op = "teamGet"
         /\ at[w] \in {"setflag", "readback"} => task[w].op = "setIsActive"
         /\ at[w] \in {"user", "reviews"} => task[w].op = "getReview"
         /\ at[w] = "stats" => task[w].op = "stats"
  BY DEF InUseCase, LabelsOf, AddLabels, DeactivateLabels, PickLabels

\* A request of the other endpoints stays in its use case,
LEMMA ProceedInUseCase ==
  ASSUME NEW w \in Workers, ServiceTyped, AnswersOf(w), NEW label,
         Proceed(w, label), task[w].op \in DOMAIN LabelsOf,
         label \in LabelsOf[task[w].op]
  PROVE  InUseCase(w)' /\ AnswersTask(w)'
<1>1. at'[w] = label /\ task'[w] = task[w] /\ answer'[w] = answer[w]
  BY DEF Proceed, ServiceTyped, ServiceTypeOK, TeamsTypeOK
<1> QED BY <1>1, AnswersParts DEF InUseCase, AnswersTask

\* and is answered with what the handler knows.
LEMMA FinishAnswers ==
  ASSUME NEW w \in Workers, ServiceTyped, task[w].op \in DOMAIN LabelsOf,
         NEW code \in {"OK", "ERROR"} \cup Handled[task[w].op],
         Finish(w, code)
  PROVE  InUseCase(w)' /\ AnswersTask(w)'
<1>1. /\ at'[w] = "idle" /\ answer'[w] = code
      /\ task'[w].op = task[w].op
  BY DEF Finish, ServiceTyped, ServiceTypeOK, TeamsTypeOK, Tasks
<1> QED BY <1>1 DEF InUseCase, AnswersTask

\* The statements of the team and user endpoints keep their answers in order.
LEMMA TaskAnswers ==
  ASSUME NEW w \in Workers, ServiceTyped, AnswersOf(w), TeamStep(w) \/ UserStep(w)
  PROVE  InUseCase(w)' /\ AnswersTask(w)'
<1>1. /\ InUseCase(w) /\ at[w] # "idle" /\ task[w].op \in DOMAIN LabelsOf
      /\ at[w] \in LabelsOf[task[w].op]
  BY TaskStepShape, AnswersParts DEF InUseCase
<1>2. ASSUME NEW code \in {"OK", "ERROR"}, Finish(w, code)
      PROVE  InUseCase(w)' /\ AnswersTask(w)'
  BY <1>1, <1>2, FinishAnswers
<1>3. CASE AddStep(w)
  <2>1. task[w].op = "teamAdd"
    BY <1>1, <1>3, EndpointOf
       DEF AddStep, CheckTeam, InsertTeam, CommitTeam, UpsertMember, AddLabels
  <2>2. "TEAM_EXISTS" \in Handled[task[w].op]
        /\ {"insertteam", "committeam", "members"} \subseteq LabelsOf[task[w].op]
    BY <2>1 DEF Handled, LabelsOf, AddLabels
  <2>3. CASE Finish(w, "TEAM_EXISTS")
    BY <1>1, <2>2, <2>3, FinishAnswers
  <2>4. ASSUME NEW label \in {"insertteam", "committeam", "members"},
               Proceed(w, label)
        PROVE  InUseCase(w)' /\ AnswersTask(w)'
    BY <1>1, <2>2, <2>4, ProceedInUseCase
  <2> QED
    BY <1>2, <1>3, <2>3, <2>4
       DEF AddStep, CheckTeam, InsertTeam, CommitTeam, UpsertMember,
           FinishWritten
<1>4. CASE DeactivateStep(w)
  <2>1. task[w].op = "teamDeactivate"
    BY <1>1, <1>4, EndpointOf
       DEF DeactivateStep, PickStep, TeamExists, ReadTargets, ReadAffected,
           ReadNextPR, ReadCurrent, PickFromTeam, ReadAuthorTeam,
           PickFromAuthorTeam, PickFromAll, DeleteCurrent, LockCurrent,
           InsertReplacement, CommitReplacements, IssueDeactivation,
           DeactivateMembers, DeactivateLabels, PickLabels
  <2>2. {"NOT_FOUND", "NO_CANDIDATE"} \subseteq Handled[task[w].op]
        /\ LabelsOf[task[w].op] = DeactivateLabels
    BY <2>1 DEF Handled, LabelsOf
  <2>3. ASSUME NEW code \in {"OK", "ERROR", "NOT_FOUND", "NO_CANDIDATE"},
               Finish(w, code)
        PROVE  InUseCase(w)' /\ AnswersTask(w)'
    BY <1>1, <2>2, <2>3, FinishAnswers
  <2>4. ASSUME NEW label \in DeactivateLabels, Proceed(w, label)
        PROVE  InUseCase(w)' /\ AnswersTask(w)'
    BY <1>1, <2>2, <2>4, ProceedInUseCase
  <2>5. FirstPick(w) \in DeactivateLabels
        /\ \A label \in {"targets", "affected", "nextpr", "current", "delete",
                         "locking", "inserting", "author", "authorteam",
                         "everyone", "switchoff"} : label \in DeactivateLabels
    BY FirstPickLabel DEF DeactivateLabels, PickLabels
  <2>6. ASSUME NEW found, NEW skipped, Settle(w, found, skipped)
        PROVE  InUseCase(w)' /\ AnswersTask(w)'
    BY <2>4, <2>5, <2>6 DEF Settle
  <2>7. CASE PickStep(w)
    <3>1. \/ Finish(w, "ERROR")
          \/ \E found, skipped : Settle(w, found, skipped)
          \/ \E label \in {"author", "authorteam", "everyone"} :
               Proceed(w, label)
      BY <2>7
         DEF PickStep, PickFromTeam, ReadAuthorTeam, PickFromAuthorTeam,
             PickFromAll, Replace
    <3> QED BY <2>3, <2>4, <2>5, <2>6, <3>1
  <2>8. CASE ReadCurrent(w)
    <3>1. \E label \in {"nextpr", "delete", FirstPick(w)} : Proceed(w, label)
      BY <2>8 DEF ReadCurrent
    <3> QED BY <2>4, <2>5, <3>1
  <2>9. CASE DeactivateMembers(w)
    <3>1. \E code \in {"OK", "ERROR", "NO_CANDIDATE"} : Finish(w, code)
      BY <2>9 DEF IssueDeactivation, DeactivateMembers, FinishWritten
    <3> QED BY <2>3, <3>1
  <2> QED
    BY <1>4, <2>3, <2>4, <2>5, <2>7, <2>8, <2>9
       DEF DeactivateStep, TeamExists, ReadTargets, ReadAffected, ReadNextPR,
           DeleteCurrent, LockCurrent, InsertReplacement, CommitReplacements,
           IssueDeactivation
<1>5. CASE FindTeam(w) \/ ListMembers(w) \/ UserStep(w)
  <2>1. /\ FindTeam(w) => task[w].op = "teamGet"
        /\ SetFlag(w) \/ ReadBack(w) => task[w].op = "setIsActive"
        /\ FindUser(w) => task[w].op = "getReview"
    BY <1>1, EndpointOf DEF FindTeam, SetFlag, ReadBack, FindUser
  <2>2. \A op \in {"teamGet", "setIsActive", "getReview"} :
          "NOT_FOUND" \in Handled[op]
    BY DEF Handled
  <2>3. CASE /\ Finish(w, "NOT_FOUND")
             /\ FindTeam(w) \/ SetFlag(w) \/ ReadBack(w) \/ FindUser(w)
    BY <1>1, <2>1, <2>2, <2>3, FinishAnswers
  <2>4. CASE FindTeam(w) /\ Proceed(w, "listed")
    <3>1. "listed" \in LabelsOf[task[w].op]
      BY <2>1, <2>4 DEF LabelsOf
    <3> QED BY <1>1, <2>4, <3>1, ProceedInUseCase
  <2>5. CASE SetFlag(w) /\ Proceed(w, "readback")
    <3>1. "readback" \in LabelsOf[task[w].op]
      BY <2>1, <2>5 DEF LabelsOf
    <3> QED BY <1>1, <2>5, <3>1, ProceedInUseCase
  <2>6. CASE FindUser(w) /\ Proceed(w, "reviews")
    <3>1. "reviews" \in LabelsOf[task[w].op]
      BY <2>1, <2>6 DEF LabelsOf
    <3> QED BY <1>1, <2>6, <3>1, ProceedInUseCase
  <2> QED
    BY <1>2, <1>5, <2>3, <2>4, <2>5, <2>6
       DEF UserStep, FindTeam, ListMembers, SetFlag, ReadBack, FindUser,
           ListReviews, CountReviews
<1> QED BY <1>3, <1>4, <1>5 DEF TeamStep

\* Whatever a worker does, its answers stay in order,
LEMMA OwnAnswers ==
  ASSUME NEW w \in Workers, ServiceTyped, AnswersOf(w), ServiceAction(w)
  PROVE  AnswersOf(w)'
<1>1. InUseCase(w) /\ Replies(w) /\ AnswersTask(w) /\ TaskPhase(w)
  BY AnswersParts DEF ServiceTyped, TasksOK
<1>2. UNCHANGED locals => Replies(w)'
  BY <1>1 DEF locals, Replies
<1>3. UNCHANGED teamVars \/ UNCHANGED taskLocals =>
        InUseCase(w)' /\ AnswersTask(w)'
  BY <1>1 DEF teamVars, taskLocals, InUseCase, AnswersTask
<1>4. CASE ReceivePR(w)
  <2>1. /\ reply'[w] = "none" /\ answer'[w] = "none" /\ at'[w] = "idle"
    BY <1>4
       DEF ReceivePR, Idle, Receive, ServiceTyped, ServiceTypeOK, TypeOK,
           LocalsTypeOK, TeamsTypeOK
  <2> QED BY <2>1 DEF InUseCase, Replies, AnswersTask, AnswersOf
<1>5. CASE ReceiveTask(w) /\ UNCHANGED locals
  <2>1. InUseCase(w)'
    <3>1. SUFFICES ASSUME at'[w] # "idle"
                   PROVE  task'[w].op \in DOMAIN LabelsOf
                          /\ at'[w] \in LabelsOf[task'[w].op]
      BY DEF InUseCase
    <3>2. /\ task'[w].op \in {"teamAdd", "teamDeactivate", "teamGet",
                              "setIsActive", "getReview", "stats"}
          /\ at'[w] = FirstLabel[task'[w].op]
      BY <1>5, <3>1, NewTask
    <3> QED BY <3>2 DEF LabelsOf, FirstLabel, AddLabels, DeactivateLabels
  <2>2. AnswersTask(w)'
    <3>1. answer'[w] = "NO_CANDIDATE" =>
            /\ task'[w].op = "teamDeactivate"
            /\ "NO_CANDIDATE" \in Handled["teamDeactivate"]
            /\ "teamDeactivate" \in DOMAIN LabelsOf
      BY <1>5, NewTask DEF Handled, LabelsOf
    <3>2. answer'[w] \in {"none", "BAD_REQUEST", "NO_CANDIDATE"}
      BY <1>5, NewTask
    <3> QED BY <3>1, <3>2 DEF AnswersTask
  <2> QED BY <1>2, <1>5, <2>1, <2>2 DEF AnswersOf, InUseCase, Replies, AnswersTask
<1>6. Replies(w)' /\ InUseCase(w)' /\ AnswersTask(w)' => AnswersOf(w)'
  BY DEF AnswersOf, InUseCase, Replies, AnswersTask
<1>7. CASE PRStep(w)
  BY <1>1, <1>3, <1>6, <1>7, PRReplies DEF PRStep
<1>8. CASE TaskStep(w)
  BY <1>2, <1>6, <1>8, TaskAnswers DEF TaskStep
<1>9. CASE TaskFailure(w)
  BY <1>1, <1>2, <1>6, <1>9, FinishAnswers DEF TaskFailure, TaskFail, InUseCase
<1>10. CASE BreakTaskDeadlock(w)
  <2>1. CASE at[w] # "idle" /\ Finish(w, "ERROR") /\ UNCHANGED locals
    BY <1>1, <1>2, <1>6, <2>1, FinishAnswers DEF InUseCase
  <2>2. CASE Answer(w, "ERROR") /\ UNCHANGED taskLocals
    <3>1. reply'[w] = "ERROR"
      BY <2>2 DEF Answer, ServiceTyped, ServiceTypeOK, TypeOK, LocalsTypeOK
    <3>2. Replies(w)'
      BY <3>1 DEF Replies
    <3> QED BY <1>3, <1>6, <2>2, <3>2
  <2> QED BY <1>10, <2>1, <2>2 DEF BreakTaskDeadlock
<1> QED
  BY <1>4, <1>5, <1>7, <1>8, <1>9, <1>10 DEF ServiceAction, ReceiveAny

\* and so do those of the others.
LEMMA AnswersNext ==
  ASSUME ServiceTyped, Answers, [ServiceNext]_serviceVars
  PROVE  Answers'
<1>1. CASE UNCHANGED serviceVars
  BY <1>1 DEF serviceVars, vars, teamVars, taskLocals, locals, Answers, AnswersOf
<1>2. ASSUME NEW w \in Workers, ServiceAction(w), NEW v \in Workers
      PROVE  AnswersOf(v)'
  <2>1. CASE v = w
    BY <1>2, <2>1, OwnAnswers DEF Answers
  <2>2. CASE v # w
    <3>1. SamePR(v) /\ SameTask(v) /\ AnswersOf(v)
      BY <1>2, <2>2, ActionLocal DEF Answers
    <3> QED BY <3>1 DEF SamePR, SameTask, AnswersOf
  <2> QED BY <2>1, <2>2
<1> QED BY <1>1, <1>2 DEF ServiceNext, ServiceAction, Answers

\* Nothing has been answered at the start.
LEMMA AnswersInit ==
  ASSUME ServiceInit PROVE Answers
  BY DEF ServiceInit, Init, TeamsInit, Answers, AnswersOf

\* Every domain error that a use case returns has a response of its own in the
\* switch of its handler (handler/server.go).
THEOREM DomainErrorsAlwaysAnswered == ServiceSpec => []DomainErrorsAnswered
<1>1. ASSUME Answers, NEW w \in Workers
      PROVE  /\ reply[w] \notin {"none", "ERROR"} =>
                  HTTPStatus(req[w].op, reply[w]) # 500
             /\ answer[w] \notin {"none", "ERROR"} =>
                  HTTPStatus(task[w].op, answer[w]) # 500
  <2>1. AnswersOf(w)
    BY <1>1 DEF Answers
  <2>2. reply[w] \notin {"none", "ERROR"} =>
          reply[w] \in {"OK", "BAD_REQUEST"} \cup Handled[req[w].op]
    BY <2>1 DEF AnswersOf
  <2>3. answer[w] \notin {"none", "ERROR"} =>
          answer[w] \in {"OK", "BAD_REQUEST"} \cup Handled[task[w].op]
    BY <2>1 DEF AnswersOf
  <2>4. reply[w] \notin {"none", "ERROR"} =>
          HTTPStatus(req[w].op, reply[w]) # 500
    BY <2>2 DEF HTTPStatus
  <2>5. answer[w] \notin {"none", "ERROR"} =>
          HTTPStatus(task[w].op, answer[w]) # 500
    BY <2>3 DEF HTTPStatus
  <2> QED BY <2>4, <2>5
<1>2. Answers => DomainErrorsAnswered
  BY <1>1 DEF DomainErrorsAnswered
<1> QED
  BY <1>2, ServiceTypedInit, ServiceTypedNext, AnswersInit, AnswersNext, PTL
     DEF ServiceSpec
-----------------------------------------------------------------------------
(***************************************************************************)
(* Teams.  What becomes of the request that is adding one:                 *)
(***************************************************************************)
LEMMA AddingSteps ==
  ASSUME NEW w \in Workers, NEW t \in Teams, ServiceTyped, AnswersOf(w),
         ServiceAction(w)
  PROVE  /\ Adds(w, t)' =>
              \/ Adds(w, t) /\ UNCHANGED teams
              \/ /\ t \notin teams /\ UNCHANGED teams
                 /\ OthersAddingTeam(w, t) = {}
         /\ Added(w, t)' =>
              \/ Added(w, t) /\ UNCHANGED teams
              \/ Adds(w, t) /\ teams' = teams \cup {t}
<1>1. /\ at \in [Workers -> Labels] /\ task \in [Workers -> Tasks]
      /\ answer \in [Workers -> Codes] /\ TaskPhase(w)
  BY DEF ServiceTyped, ServiceTypeOK, TeamsTypeOK, TasksOK
<1>2. CASE UNCHANGED <<at, task, answer, teams>>
  BY <1>2 DEF Adds, Added
<1>3. CASE ReceiveAny(w)
  <2>1. /\ answer'[w] # "OK" /\ at'[w] # "members" /\ at'[w] # "committeam"
        /\ UNCHANGED teams
    <3>1. CASE ReceivePR(w)
      BY <1>1, <3>1 DEF ReceivePR, Idle
    <3>2. CASE ReceiveTask(w)
      BY <3>2, NewTask DEF ReceiveTask, KeepTables
    <3> QED BY <1>3, <3>1, <3>2 DEF ReceiveAny
  <2> QED BY <2>1 DEF Adds, Added
<1>4. ASSUME NEW code, Finish(w, code)
      PROVE  /\ at'[w] = "idle" /\ answer'[w] = code
             /\ task'[w].op = task[w].op /\ task'[w].team = task[w].team
  BY <1>1, <1>4 DEF Finish, Tasks
<1>5. ASSUME NEW label, Proceed(w, label)
      PROVE  /\ at'[w] = label /\ answer'[w] = answer[w] /\ task'[w] = task[w]
  BY <1>1, <1>5 DEF Proceed
<1>6. CASE TaskFailure(w) \/ BreakTaskDeadlock(w)
  <2>1. CASE Finish(w, "ERROR")
    BY <1>4, <2>1 DEF Adds, Added
  <2>2. CASE UNCHANGED taskLocals
    BY <1>2, <1>6, <2>2
       DEF TaskFailure, TaskFail, BreakTaskDeadlock, taskLocals
  <2> QED BY <1>6, <2>1, <2>2 DEF TaskFailure, TaskFail, BreakTaskDeadlock
<1>7. CASE AddStep(w)
  <2>1. CASE CheckTeam(w)
    <3>1. (\E code : code # "OK" /\ Finish(w, code)) \/ Proceed(w, "insertteam")
      BY <2>1 DEF CheckTeam
    <3>2. answer[w] = "none"
      BY <1>1, <2>1 DEF CheckTeam, TaskPhase
    <3> QED BY <1>4, <1>5, <3>1, <3>2 DEF Adds, Added
  <2>2. CASE InsertTeam(w)
    <3>1. CASE Finish(w, "ERROR")
      BY <1>4, <3>1 DEF Adds, Added
    <3>2. CASE task[w].team \notin teams /\ Proceed(w, "committeam")
      <4>1. answer[w] = "none"
        BY <1>1, <2>2 DEF InsertTeam, TaskPhase
      <4> QED
        BY <1>5, <2>2, <3>2, <4>1 DEF InsertTeam, KeepTables, Adds, Added
    <3> QED BY <2>2, <3>1, <3>2 DEF InsertTeam
  <2>3. CASE CommitTeam(w)
    <3>1. at[w] = "committeam" /\ teams' = teams \cup {task[w].team}
      BY <2>3 DEF CommitTeam
    <3>2. (\E code : Finish(w, code)) \/ Proceed(w, "members")
      BY <2>3 DEF CommitTeam, FinishWritten
    <3>3. at'[w] # "committeam" /\ task'[w].team = task[w].team
      BY <1>4, <1>5, <3>2
    <3> QED BY <3>1, <3>3 DEF Adds, Added
  <2>4. CASE UpsertMember(w)
    <3>1. at[w] = "members" /\ UNCHANGED teams
      BY <2>4 DEF UpsertMember
    <3>2. (\E code : Finish(w, code)) \/ Proceed(w, "members")
      BY <2>4 DEF UpsertMember, FinishWritten
    <3>3. /\ at'[w] # "committeam" /\ task'[w].team = task[w].team
          /\ task'[w].op = task[w].op
      BY <1>4, <1>5, <3>2
    <3> QED BY <3>1, <3>3 DEF Adds, Added
  <2> QED BY <1>7, <2>1, <2>2, <2>3, <2>4 DEF AddStep
<1>8. CASE (TeamStep(w) \/ UserStep(w)) /\ ~AddStep(w)
  <2>1. at[w] \notin AddLabels /\ at[w] # "idle"
    BY <1>8
       DEF TeamStep, UserStep, DeactivateStep, PickStep, FindTeam, ListMembers,
           TeamExists, ReadTargets, ReadAffected, ReadNextPR, ReadCurrent,
           PickFromTeam, ReadAuthorTeam, PickFromAuthorTeam, PickFromAll,
           DeleteCurrent, LockCurrent, InsertReplacement, CommitReplacements,
           IssueDeactivation, DeactivateMembers, SetFlag, ReadBack, FindUser,
           ListReviews, CountReviews, AddLabels
  <2>2. task[w].op # "teamAdd"
    BY <2>1, AnswersParts DEF InUseCase, LabelsOf
  <2>3. InUseCase(w)'
    BY <1>8, TaskAnswers
  <2>4. task'[w].op = task[w].op
    BY <1>4, <1>5, <1>8, TaskStepShape
  <2>5. at'[w] # "committeam"
    BY <2>2, <2>3, <2>4
       DEF InUseCase, LabelsOf, AddLabels, DeactivateLabels, PickLabels
  <2> QED BY <2>2, <2>4, <2>5 DEF Adds, Added
<1> QED
  BY <1>2, <1>3, <1>6, <1>7, <1>8
     DEF ServiceAction, PRStep, TaskStep, teamVars, taskLocals

\* Who is told that a team exists has seen it committed.
LEMMA OwnKnowledge ==
  ASSUME NEW w \in Workers, ServiceTyped, AnswersOf(w), KnowsTeams,
         ServiceAction(w), task'[w].op = "teamAdd"
  PROVE  /\ task'[w].team \in Teams
         /\ answer'[w] = "TEAM_EXISTS" => task'[w].team \in teams'
<1>1. /\ at \in [Workers -> Labels] /\ task \in [Workers -> Tasks]
      /\ answer \in [Workers -> Codes] /\ teams \subseteq teams'
  BY UsersStay DEF ServiceTyped, ServiceTypeOK, TeamsTypeOK
<1>2. CASE /\ task'[w].op = task[w].op /\ task'[w].team = task[w].team
           /\ answer'[w] # answer[w] => answer'[w] # "TEAM_EXISTS"
  BY <1>1, <1>2 DEF KnowsTeams
<1>3. ASSUME NEW code, Finish(w, code)
      PROVE  /\ answer'[w] = code
             /\ task'[w].op = task[w].op /\ task'[w].team = task[w].team
  BY <1>1, <1>3 DEF Finish, Tasks
<1>4. CASE ReceiveAny(w)
  <2>1. CASE ReceivePR(w)
    <3>1. task'[w] = NoTask
      BY <1>1, <2>1 DEF ReceivePR
    <3> QED BY <3>1 DEF NoTask
  <2>2. CASE ReceiveTask(w)
    BY <2>2, NewTask
  <2> QED BY <1>4, <2>1, <2>2 DEF ReceiveAny
<1>5. CASE UNCHANGED <<task, answer>>
  BY <1>2, <1>5
<1>6. CASE \E code : code # "TEAM_EXISTS" /\ Finish(w, code)
  BY <1>2, <1>3, <1>6
<1>7. CASE CheckTeam(w) /\ Finish(w, "TEAM_EXISTS")
  <2>1. task[w].team \in teams
    BY <1>1, <1>7 DEF CheckTeam, Finish, Proceed, Labels, AddLabels
  <2> QED BY <1>1, <1>3, <1>7, <2>1 DEF KnowsTeams
<1>8. CASE TeamStep(w) \/ UserStep(w)
  BY <1>5, <1>6, <1>7, <1>8
     DEF TeamStep, UserStep, AddStep, DeactivateStep, PickStep, CheckTeam,
         InsertTeam, CommitTeam, UpsertMember, FindTeam, ListMembers,
         TeamExists, ReadTargets, ReadAffected, ReadNextPR, ReadCurrent,
         PickFromTeam, ReadAuthorTeam, PickFromAuthorTeam, PickFromAll,
         Replace, Settle, DeleteCurrent, LockCurrent, InsertReplacement,
         CommitReplacements, IssueDeactivation, DeactivateMembers, SetFlag,
         ReadBack, FindUser, ListReviews, CountReviews, FinishWritten, Proceed
<1> QED
  BY <1>4, <1>5, <1>6, <1>8
     DEF ServiceAction, PRStep, TaskStep, TaskFailure, TaskFail,
         BreakTaskDeadlock, teamVars, taskLocals

\* The same for every worker: teams are never removed.
LEMMA KnowsTeamsNext ==
  ASSUME ServiceTyped, Answers, KnowsTeams, [ServiceNext]_serviceVars
  PROVE  KnowsTeams'
<1>1. CASE UNCHANGED serviceVars
  BY <1>1 DEF serviceVars, teamVars, taskLocals, KnowsTeams
<1>2. ASSUME NEW w \in Workers, ServiceAction(w),
             NEW v \in Workers, task'[v].op = "teamAdd"
      PROVE  /\ task'[v].team \in Teams
             /\ answer'[v] = "TEAM_EXISTS" => task'[v].team \in teams'
  <2>1. CASE v = w
    BY <1>2, <2>1, OwnKnowledge DEF Answers
  <2>2. CASE v # w
    BY <1>2, <2>2, ActionLocal, UsersStay DEF SameTask, KnowsTeams
  <2> QED BY <2>1, <2>2
<1> QED BY <1>1, <1>2 DEF ServiceNext, ServiceAction, KnowsTeams

\* Whoever commits a team has inserted it alone.
LEMMA CreatorsNext ==
  ASSUME ServiceTyped, Answers, Creators, [ServiceNext]_serviceVars
  PROVE  Creators'
<1>1. CASE UNCHANGED serviceVars
  BY <1>1 DEF serviceVars, teamVars, taskLocals, Creators, Adds, Added
<1>2. ASSUME NEW w \in Workers, ServiceAction(w), NEW t \in Teams
      PROVE  \A x \in Workers :
               /\ Adds(x, t)' =>
                    t \notin teams' /\ \A v \in Workers \ {x} : ~Adds(v, t)'
               /\ Added(x, t)' =>
                    t \in teams' /\ \A v \in Workers \ {x} : ~Added(v, t)'
  <2>1. ASSUME NEW v \in Workers \ {w}
        PROVE  (Adds(v, t)' <=> Adds(v, t)) /\ (Added(v, t)' <=> Added(v, t))
    BY <1>2, <2>1, ActionLocal DEF SameTask, Adds, Added
  <2>2. /\ Adds(w, t)' =>
             \/ Adds(w, t) /\ UNCHANGED teams
             \/ /\ t \notin teams /\ UNCHANGED teams
                /\ \A v \in Workers \ {w} : ~Adds(v, t)
        /\ Added(w, t)' =>
             \/ Added(w, t) /\ UNCHANGED teams
             \/ Adds(w, t) /\ teams' = teams \cup {t}
    BY <1>2, AddingSteps DEF Answers, OthersAddingTeam, Adds
  <2>3. \A x \in Workers :
          /\ Adds(x, t) => t \notin teams /\ \A v \in Workers \ {x} : ~Adds(v, t)
          /\ Added(x, t) => t \in teams /\ \A v \in Workers \ {x} : ~Added(v, t)
    BY DEF Creators
  <2>4. teams \subseteq teams' /\ (t \in teams' => t \in teams \/ Adds(w, t))
    BY <1>2, UsersStay DEF CommitTeam, Adds
  <2> QED BY <2>1, <2>2, <2>3, <2>4
<1> QED BY <1>1, <1>2 DEF ServiceNext, ServiceAction, Creators

\* At the start nobody has been told anything of a team.
LEMMA TeamsOnceInit ==
  ASSUME ServiceInit PROVE Creators /\ KnowsTeams
  BY DEF ServiceInit, TeamsInit, NoTask, Creators, KnowsTeams, Adds, Added

\* Of all requests to add a team at most one is answered with success, although
\* the check and the INSERT are two statements (postgres.go:42 and :51), and
\* the team of every such answer, or that it exists, is there.
THEOREM TeamsCreatedOnce == ServiceSpec => []TeamCreatedOnce
<1>1. Creators /\ KnowsTeams => TeamCreatedOnce
  BY DEF Creators, KnowsTeams, TeamCreatedOnce, Added
<1> QED
  BY <1>1, ServiceTypedInit, ServiceTypedNext, AnswersInit, AnswersNext,
     TeamsOnceInit, CreatorsNext, KnowsTeamsNext, PTL DEF ServiceSpec

-----------------------------------------------------------------------------
(***************************************************************************)
(* Records: what the answers to creates and merges say of the tables.      *)
(***************************************************************************)

\* Only two statements write the row of a pull request.
LEMMA PRWriters ==
  ASSUME NEW w \in Workers, ServiceAction(w)
  PROVE  \/ UNCHANGED <<author, status, mergedAt>>
         \/ PRStep(w) /\ (CommitPR(w) \/ SetMerged(w))
<1>1. UNCHANGED tables \/ UNCHANGED prTables => UNCHANGED <<author, status, mergedAt>>
  BY DEF tables, prTables
<1>2. CASE ReceiveAny(w) \/ TaskFailure(w) \/ BreakTaskDeadlock(w)
  BY <1>1, <1>2
     DEF ReceiveAny, ReceivePR, Receive, ReceiveTask, TaskFailure, TaskFail,
         BreakTaskDeadlock, Rollback, KeepTables
<1>3. CASE PRStep(w)
  <2>1. WorkerStep(w)
    BY <1>3 DEF PRStep, WorkerStep
  <2>2. CommitReassign(w) => UNCHANGED <<author, status, mergedAt>>
    BY DEF CommitReassign, CommitReviewers
  <2> QED BY <1>1, <1>3, <2>1, <2>2, Writers
<1>4. CASE TaskStep(w)
  BY <1>1, <1>4
     DEF TaskStep, TeamStep, UserStep, AddStep, DeactivateStep, PickStep,
         CheckTeam, InsertTeam, CommitTeam, UpsertMember, FindTeam,
         ListMembers, TeamExists, ReadTargets, ReadAffected, ReadNextPR,
         ReadCurrent, PickFromTeam, ReadAuthorTeam, PickFromAuthorTeam,
         PickFromAll, DeleteCurrent, LockCurrent, InsertReplacement,
         CommitReplacements, IssueDeactivation, DeactivateMembers, SetFlag,
         ReadBack, FindUser, ListReviews, CountReviews, KeepTables,
         CreateOrUpdateUser, BulkDeactivateUsersByTeam, UpdateUserIsActive,
         StartDeleteReviewers, FinishDeleteReviewers, InsertReviewer, Rollback,
         CommitReviewers
<1> QED BY <1>2, <1>3, <1>4 DEF ServiceAction

\* A create that commits finds no row, and leaves one that is open;
LEMMA RowCreated ==
  ASSUME NEW w \in Workers, ServiceTyped, ServiceRows, CommitPR(w)
  PROVE  /\ req[w].op = "create" /\ req[w].pr \in PRs /\ req[w].user # None
         /\ ~PRExists(req[w].pr)
         /\ author' = [author EXCEPT ![req[w].pr] = req[w].user]
         /\ status' = [status EXCEPT ![req[w].pr] = "OPEN"]
         /\ UNCHANGED mergedAt
<1>1. /\ pc[w] = "commitpr" /\ CommitPullRequest(w, todo[w]) /\ Own(w)
      /\ PhaseOK
  BY DEF CommitPR, ServiceRows, Own, ServiceTyped
<1>2. /\ TxPhase(w) /\ req[w].pr \in PRs /\ req[w].pr # None
      /\ req[w].user # None
  BY <1>1, PRPhases DEF CreatePCs
<1>3. /\ tx[w].pr = req[w].pr /\ tx[w].author = req[w].user
      /\ req[w].op = "create"
  BY <1>1, <1>2 DEF TxPhase, PhaseOK, CreatePCs
<1>4. ~PRExists(req[w].pr)
  BY <1>2, <1>3 DEF ServiceRows, Isolation, TransactionsIsolated
<1> QED BY <1>1, <1>2, <1>3, <1>4 DEF CommitPullRequest

\* a merge finds a row, and leaves it with a time.
LEMMA RowMerged ==
  ASSUME NEW w \in Workers, ServiceTyped, ServiceRows, SetMerged(w)
  PROVE  /\ req[w].op = "merge" /\ req[w].pr \in PRs /\ PRExists(req[w].pr)
         /\ status' = [status EXCEPT ![req[w].pr] = "MERGED"]
         /\ mergedAt' = [mergedAt EXCEPT ![req[w].pr] = w]
         /\ UNCHANGED author
<1>1. pc[w] = "setstatus" /\ Own(w) /\ PhaseOK
  BY DEF SetMerged, ServiceRows, Own, ServiceTyped
<1>2. req[w].pr \in PRs /\ PRExists(req[w].pr) /\ req[w].op = "merge"
  BY <1>1, PRPhases DEF PhaseOK
<1> QED BY <1>2 DEF SetMerged, UpdatePullRequestStatus

\* So rows keep their author, and what is merged stays merged.
LEMMA RecordsKept ==
  ASSUME NEW w \in Workers, ServiceTyped, ServiceRows, Records,
         ServiceAction(w), NEW p \in PRs
  PROVE  /\ PRExists(p) => author'[p] = author[p]
         /\ ~PRExists(p)' => status'[p] = "OPEN"
         /\ Merged(p) => Merged(p)'
         /\ status'[p] = "MERGED" => mergedAt'[p] # None
<1>1. /\ author \in [PRs -> Users \cup {None}] /\ status \in [PRs -> Statuses]
      /\ mergedAt \in [PRs -> Workers \cup {None}]
  BY DEF ServiceTyped, ServiceTypeOK, TypeOK, StoreTypeOK
<1>2. /\ ~PRExists(p) => status[p] = "OPEN"
      /\ status[p] = "MERGED" => mergedAt[p] # None
  BY DEF Records, Merges
<1>3. CASE UNCHANGED <<author, status, mergedAt>>
  BY <1>2, <1>3 DEF PRExists, Merged
<1>4. CASE CommitPR(w)
  <2>1. status[req[w].pr] = "OPEN"
    BY <1>4, RowCreated DEF Records
  <2> QED BY <1>1, <1>2, <1>4, <2>1, RowCreated DEF PRExists, Merged
<1>5. CASE SetMerged(w)
  BY <1>1, <1>2, <1>5, RowMerged, StoreAssumption DEF PRExists, Merged
<1> QED BY <1>3, <1>4, <1>5, PRWriters

\* The answers that a step gives to a request to a pull request.
LEMMA RepliesGiven ==
  ASSUME NEW w \in Workers, ServiceTyped, ServiceAction(w)
  PROVE  \/ reply'[w] = "none"
         \/ /\ req'[w] = req[w]
            /\ \/ reply'[w] = reply[w]
               \/ reply'[w] \notin {"OK", "PR_MERGED"}
               \/ /\ PRStep(w) /\ reply'[w] = "OK"
                  /\ CommitPR(w) \/ SetMerged(w) \/ CommitReassign(w)
               \/ /\ pc[w] = "reviewers" /\ IsMerged(w)
                  /\ req[w].op \in {"merge", "reassign"}
<1>1. TypeOK /\ reply \in [Workers -> Codes]
  BY DEF ServiceTyped, ServiceTypeOK, TypeOK, LocalsTypeOK
<1>2. CASE UNCHANGED locals
  BY <1>2 DEF locals
<1>3. CASE ReceivePR(w)
  BY <1>1, <1>3 DEF ReceivePR, Receive
<1>4. CASE PRStep(w)
  <2>1. WorkerStep(w)
    BY <1>4 DEF PRStep, WorkerStep
  <2> QED BY <1>1, <1>4, <2>1, GivenAnswers
<1>5. CASE BreakTaskDeadlock(w)
  BY <1>1, <1>2, <1>5 DEF BreakTaskDeadlock, Answer
<1> QED
  BY <1>2, <1>3, <1>4, <1>5
     DEF ServiceAction, ReceiveAny, TaskStep, TaskFailure

\* Who gets to the reviewers of a pull request has just read its status.
LEMMA StatusRead ==
  ASSUME NEW w \in Workers, ServiceTyped, ServiceAction(w),
         pc'[w] = "reviewers", IsMerged(w)'
  PROVE  /\ req'[w] = req[w]
         /\ \/ pc[w] = "reviewers" /\ IsMerged(w)
            \/ pc[w] = "header" /\ status[req[w].pr] = "MERGED"
<1>1. /\ pc \in [Workers -> PCs]
      /\ pr \in [Workers -> [author : Users \cup {None}, status : Statuses,
                         reviewers : SUBSET Users]]
  BY DEF ServiceTyped, ServiceTypeOK, TypeOK, LocalsTypeOK
<1>2. ~\E code : Answer(w, code)
  BY <1>1 DEF Answer
<1>3. \A label : Continue(w, label) => label = "reviewers" /\ req'[w] = req[w]
  BY <1>1 DEF Continue
<1>4. CASE UNCHANGED locals
  BY <1>4 DEF locals, IsMerged
<1>5. CASE ReceivePR(w)
  <2>1. PICK r \in Requests : pc' = [pc EXCEPT ![w] = Entry[r.op]]
    BY <1>5 DEF ReceivePR, Receive
  <2> QED BY <1>1, <2>1, RequestFacts DEF Entry, Operations
<1>6. CASE Step(w) \/ Fail(w)
  <2>1. CASE ReadHeader(w)
    BY <1>1, <1>2, <1>3, <2>1 DEF ReadHeader, IsMerged
  <2> QED
    BY <1>2, <1>3, <1>6, <2>1
       DEF Step, CreateStep, ReassignStep, CheckPRExists, ReadAuthor,
           SelectReviewers, InsertPR, CommitPR, ReadReviewers, SetMerged,
           ReadOldUser, PickReplacement, IssueDelete, LockRows, InsertRow,
           CommitReassign, BreakDeadlock, Fail, AnswerWritten
<1>7. CASE BreakTaskDeadlock(w)
  BY <1>2, <1>4, <1>7 DEF BreakTaskDeadlock
<1> QED
  BY <1>4, <1>5, <1>6, <1>7
     DEF ServiceAction, ReceiveAny, PRStep, TaskStep, TaskFailure

\* Who has created a pull request: those who had, and who commits one.
LEMMA CreatorsOfPRs ==
  ASSUME NEW w \in Workers, ServiceTyped, ServiceRows, ServiceAction(w),
         NEW v \in Workers, NEW p \in PRs, HasCreated(v, p)'
  PROVE  /\ req'[v] = req[v]
         /\ \/ HasCreated(v, p)
            \/ v = w /\ CommitPR(w) /\ p = req[w].pr
<1>1. CASE v # w
  BY <1>1, ActionLocal DEF SamePR, HasCreated
<1>2. CASE v = w
  <2>1. req'[w].op = "create" /\ reply'[w] = "OK" /\ req'[w].pr = p
    BY <1>2 DEF HasCreated
  <2>2. SetMerged(w) => req[w].op = "merge"
    BY RowMerged
  <2>3. CommitReassign(w) => req[w].op = "reassign"
    BY DEF CommitReassign, ServiceTyped, PhaseOK, ReassignPCs
  <2> QED BY <1>2, <2>1, <2>2, <2>3, RepliesGiven DEF HasCreated
<1> QED BY <1>1, <1>2

\* Who was told or has read that a pull request is merged can rely on it.
LEMMA MergedKnown ==
  ASSUME NEW w \in Workers, ServiceTyped, ServiceRows, Records,
         ServiceAction(w), NEW v \in Workers, KnowsMerged(v)'
  PROVE  (req[v].pr \in PRs /\ Merged(req[v].pr))'
<1>1. ASSUME KnowsMerged(v), req'[v] = req[v]
      PROVE  (req[v].pr \in PRs /\ Merged(req[v].pr))'
  <2>1. req[v].pr \in PRs /\ Merged(req[v].pr)
    BY <1>1 DEF Records, Merges
  <2> QED BY <1>1, <2>1, RecordsKept
<1>2. CASE v # w
  BY <1>1, <1>2, ActionLocal DEF SamePR, KnowsMerged, IsMerged
<1>3. CASE v = w /\ pc'[w] = "reviewers" /\ IsMerged(w)'
  <2>1. CASE pc[w] = "reviewers" /\ IsMerged(w)
    BY <1>1, <1>3, <2>1, StatusRead DEF KnowsMerged
  <2>2. CASE pc[w] = "header" /\ status[req[w].pr] = "MERGED"
    <3>1. req[w].pr \in PRs
      BY <2>2, PRPhases DEF ServiceRows, Own
    <3>2. Merged(req[w].pr)
      BY <2>2, <3>1 DEF Records, Merges, Merged
    <3> QED BY <1>3, <3>1, <3>2, StatusRead, RecordsKept
  <2> QED BY <1>3, <2>1, <2>2, StatusRead
<1>4. CASE /\ v = w
           /\ \/ req'[w].op = "merge" /\ reply'[w] = "OK"
              \/ reply'[w] = "PR_MERGED"
  <2>1. CASE SetMerged(w) /\ req'[w] = req[w]
    <3>1. status \in [PRs -> Statuses] /\ mergedAt \in [PRs -> Workers \cup {None}]
      BY DEF ServiceTyped, ServiceTypeOK, TypeOK, StoreTypeOK
    <3> QED BY <1>4, <2>1, <3>1, RowMerged, StoreAssumption DEF Merged
  <2>2. CommitPR(w) => req[w].op = "create"
    BY RowCreated
  <2>3. CommitReassign(w) => req[w].op = "reassign"
    BY DEF CommitReassign, ServiceTyped, PhaseOK, ReassignPCs
  <2> QED BY <1>1, <1>4, <2>1, <2>2, <2>3, RepliesGiven DEF KnowsMerged
<1> QED BY <1>2, <1>3, <1>4 DEF KnowsMerged

\* A migrated database has no pull requests,
LEMMA RecordsInit ==
  ASSUME ServiceInit PROVE Records
  BY DEF ServiceInit, Init, StoreInit, NoRequest, Records, Creations,
         HasCreated, Merges, KnowsMerged

\* and every step keeps the answers true.
LEMMA RecordsNext ==
  ASSUME ServiceTyped, ServiceRows, Records, [ServiceNext]_serviceVars
  PROVE  Records'
<1>1. CASE UNCHANGED serviceVars
  BY <1>1
     DEF serviceVars, vars, tables, prTables, locals, Records, Creations,
         HasCreated, Merges, KnowsMerged, Merged, IsMerged, PRExists
<1>2. ASSUME NEW w \in Workers, ServiceAction(w) PROVE Records'
  <2>1. Merges'
    BY <1>2, RecordsKept, MergedKnown DEF Merges
  <2>2. ASSUME NEW v \in Workers, NEW p \in PRs, HasCreated(v, p)
        PROVE  /\ PRExists(p) /\ author'[p] = author[p]
               /\ author[p] = req[v].user /\ author[p] # None
    BY <1>2, <2>2, RecordsKept DEF Records, Creations, PRExists
  <2>3. ASSUME CommitPR(w)
        PROVE  author'[req[w].pr] = req[w].user /\ req[w].user # None
    BY <1>2, <2>3, RowCreated DEF ServiceTyped, ServiceTypeOK, TypeOK, StoreTypeOK
  <2>4. ASSUME NEW v \in Workers, NEW p \in PRs, HasCreated(v, p)'
        PROVE  author'[p] = req'[v].user /\ author'[p] # None
    BY <1>2, <2>2, <2>3, <2>4, CreatorsOfPRs
  <2>5. ASSUME NEW v \in Workers, NEW u \in Workers, v # u, NEW p \in PRs,
               HasCreated(v, p)', HasCreated(u, p)'
        PROVE  FALSE
    <3>1. CASE HasCreated(v, p) /\ HasCreated(u, p)
      BY <2>5, <3>1 DEF Records, Creations
    <3>2. ~(CommitPR(w) /\ p = req[w].pr /\ PRExists(p))
      BY <1>2, RowCreated
    <3> QED BY <1>2, <2>2, <2>5, <3>1, <3>2, CreatorsOfPRs
  <2>6. Creations'
    BY <2>4, <2>5 DEF Creations
  <2> QED BY <1>2, <2>1, <2>6, RecordsKept DEF Records
<1> QED BY <1>1, <1>2 DEF ServiceNext, ServiceAction

\* So the layer holds of the whole service, deactivations included.
LEMMA RecordsTrue == ServiceSpec => []Records
BY ServiceTypedInit, ServiceTypedNext, ServiceRowsInit, ServiceRowsNext,
   RecordsInit, RecordsNext, PTL DEF ServiceSpec

\* Of all creates of a pull request one is answered with success, although the
\* check and the INSERT are two statements (pullrequest.go:28 and :61),
\* whatever the other endpoints do meanwhile.
THEOREM PRsCreatedOnce == ServiceSpec => []CreatedOnce
<1>1. ASSUME ServiceTyped, Records PROVE CreatedOnce
  <2>1. ASSUME NEW w \in Workers, req[w].op = "create" PROVE req[w].pr \in PRs
    BY <1>1, <2>1, RequestFacts
       DEF ServiceTyped, ServiceTypeOK, TypeOK, LocalsTypeOK, NoRequest
  <2> QED
    BY <1>1, <2>1 DEF Records, Creations, HasCreated, CreatedOnce
<1> QED
  BY <1>1, RecordsTrue, ServiceTypedInit, ServiceTypedNext, PTL DEF ServiceSpec

\* An answer that a pull request is merged stays true, whatever the other
\* endpoints do.
THEOREM MergesAlwaysHold == ServiceSpec => []MergedAnswersHold
<1>1. Records => MergedAnswersHold
  BY DEF Records, Merges, KnowsMerged, Merged, MergedAnswersHold
<1> QED BY <1>1, RecordsTrue, PTL

-----------------------------------------------------------------------------
\* All layers of the invariant hold of the service, for any requests in any
\* overlap.
THEOREM ServiceInductive == ServiceSpec => []ServiceInv
<1>1. ServiceInit => ServiceInv
  BY ServiceTypedInit, ServiceRowsInit, RecordsInit, ReferencesInit,
     TeamsOnceInit, AnswersInit DEF ServiceInv
<1>2. ServiceInv /\ [ServiceNext]_serviceVars => ServiceInv'
  BY ServiceTypedNext, ServiceRowsNext, RecordsNext, ReferencesNext,
     CreatorsNext, KnowsTeamsNext, AnswersNext DEF ServiceInv
<1> QED BY <1>1, <1>2, PTL DEF ServiceSpec

=============================================================================
