----------------------- MODULE ServiceRefinementProofs -----------------------
(***************************************************************************)
(* What Service implements.  But for the deactivation of teams, the team   *)
(* and user endpoints are to the pull request endpoints the changes of the *)
(* users table that PullRequests has as UsersStep.  With one worker, all   *)
(* of its requests add up to the visible steps of TeamBoard.               *)
(***************************************************************************)
EXTENDS SerialServiceInvariants, ServiceRecordProofs, SerialPullRequestsProofs

\* Requests in work are of endpoints that there are.
Arrived == \A w \in Workers : at[w] # "idle" => task[w].op \in Endpoints

\* That stays so.
LEMMA ArrivedNext ==
  ASSUME ServiceTyped, Arrived, [ServiceNext]_serviceVars PROVE Arrived'
<1>1. CASE UNCHANGED serviceVars
  BY <1>1 DEF serviceVars, teamVars, taskLocals, Arrived
<1>2. ASSUME NEW w \in Workers, ServiceAction(w), NEW v \in Workers,
             at'[v] # "idle"
      PROVE  task'[v].op \in Endpoints
  <2>1. CASE v # w
    BY <1>2, <2>1, ActionLocal DEF SameTask, Arrived
  <2>2. CASE v = w
    <3>1. at \in [Workers -> Labels] /\ task \in [Workers -> Tasks]
      BY DEF ServiceTyped, ServiceTypeOK, TeamsTypeOK
    <3>2. ASSUME NEW code, Finish(w, code) PROVE FALSE
      BY <1>2, <2>2, <3>1, <3>2 DEF Finish
    <3>3. CASE UNCHANGED <<at, task>>
      BY <1>2, <2>2, <3>3 DEF Arrived
    <3>4. CASE TaskStep(w)
      <4>1. at[w] # "idle" /\ task' = task
        BY <3>2, <3>4, TaskStepShape DEF TaskStep, Proceed
      <4> QED BY <2>2, <4>1 DEF Arrived
    <3>5. CASE ReceivePR(w)
      BY <1>2, <2>2, <3>5 DEF ReceivePR, Idle
    <3>6. CASE ReceiveTask(w)
      BY <2>2, <3>1, <3>6 DEF ReceiveTask, TaskRequests
    <3> QED
      BY <1>2, <3>2, <3>3, <3>4, <3>5, <3>6
         DEF ServiceAction, ReceiveAny, PRStep, TaskFailure, TaskFail,
             BreakTaskDeadlock, teamVars, taskLocals
  <2> QED BY <2>1, <2>2
<1> QED BY <1>1, <1>2 DEF ServiceNext, ServiceAction, Arrived

-----------------------------------------------------------------------------
\* Where nobody deactivates a team, the team and user endpoints have no
\* transaction on pull requests,
LEMMA NobodyDeactivates ==
  ASSUME "teamDeactivate" \notin Endpoints, ServiceTyped, Answers, Arrived,
         ServiceRows, NEW w \in Workers, at[w] # "idle"
  PROVE  at[w] \notin DeactivateLabels /\ tx[w] = NoTx
<1>1. at[w] \notin DeactivateLabels
  BY EndpointOf, AnswersParts DEF Answers, Arrived
<1>2. pc[w] = "idle"
  BY DEF ServiceTyped, TasksOK, TaskPhase
<1>3. at[w] \notin OpenLabels
  BY <1>1 DEF OpenLabels, DeactivateLabels
<1> QED
  BY <1>1, <1>2, <1>3 DEF ServiceRows, ServiceTxPhase, TxPhase, TxPCs

\* they write users or nothing,
LEMMA TaskStepMaps ==
  ASSUME "teamDeactivate" \notin Endpoints, ServiceTyped, Answers, Arrived,
         ServiceRows, NEW w \in Workers, TaskStep(w)
  PROVE  UsersStep \/ UNCHANGED vars
<1>1. /\ UNCHANGED locals /\ at[w] # "idle" /\ InUseCase(w)
      /\ task[w].op \in Endpoints /\ at[w] \notin DeactivateLabels
      /\ task[w].members \subseteq Users /\ job[w].list \subseteq Users
  BY TaskStepShape, NobodyDeactivates, AnswersParts, JobFacts
     DEF TaskStep, Answers, Arrived
<1>2. ~DeactivateStep(w)
  BY <1>1
     DEF DeactivateStep, PickStep, TeamExists, ReadTargets, ReadAffected,
         ReadNextPR, ReadCurrent, PickFromTeam, ReadAuthorTeam,
         PickFromAuthorTeam, PickFromAll, DeleteCurrent, LockCurrent,
         InsertReplacement, CommitReplacements, IssueDeactivation,
         DeactivateMembers, DeactivateLabels, PickLabels
<1>3. CASE UpsertMember(w)
  <2>1. "teamAdd" \in Endpoints /\ task[w].team \in Teams
    BY <1>1, <1>3 DEF UpsertMember, ServiceTyped, TasksOK, TaskPhase, AddLabels
  <2>2. PICK u \in Users :
          CreateOrUpdateUser(u, task[w].team, u \in task[w].on)
    BY <1>1, <1>3 DEF UpsertMember
  <2>3. (u \in task[w].on) \in BOOLEAN
    OBVIOUS
  <2>4. \E b \in BOOLEAN : CreateOrUpdateUser(u, task[w].team, b)
    BY <2>2, <2>3
  <2> QED BY <1>1, <2>1, <2>4 DEF UsersStep
<1>4. CASE SetFlag(w)
  <2>1. "setIsActive" \in Endpoints
    BY <1>1, <1>4, EndpointOf DEF SetFlag
  <2>2. CASE UNCHANGED <<tables, tx>>
    BY <1>1, <2>2 DEF vars
  <2>3. ASSUME NEW u \in Users, UpdateUserIsActive(u, u \in task[w].on)
        PROVE  UsersStep
    <3>1. (u \in task[w].on) \in BOOLEAN
      OBVIOUS
    <3>2. \E b \in BOOLEAN : UpdateUserIsActive(u, b)
      BY <2>3, <3>1
    <3> QED BY <1>1, <2>1, <3>2 DEF UsersStep
  <2> QED BY <1>1, <1>4, <2>2, <2>3 DEF SetFlag
<1>5. CASE ~UpsertMember(w) /\ ~SetFlag(w)
  <2>1. UNCHANGED <<tables, tx>>
    BY <1>2, <1>5
       DEF TaskStep, TeamStep, UserStep, AddStep, CheckTeam, InsertTeam,
           CommitTeam, FindTeam, ListMembers, ReadBack, FindUser, ListReviews,
           CountReviews, KeepTables
  <2> QED BY <1>1, <2>1 DEF vars
<1> QED BY <1>3, <1>4, <1>5

\* rolling back changes nothing,
LEMMA RollbackMaps ==
  ASSUME NEW w \in Workers, ServiceTyped, tx[w] = NoTx, Rollback(w),
         UNCHANGED locals
  PROVE  UNCHANGED vars
<1>1. tx' = tx
  BY JobFacts DEF Rollback, StoreTypeOK
<1> QED BY <1>1 DEF Rollback, vars

\* and they are in no deadlock: who inserts a team waits for one that waits
\* for nobody.
LEMMA DeadlockMaps ==
  ASSUME "teamDeactivate" \notin Endpoints, ServiceTyped, Answers, Arrived,
         ServiceRows, NEW w \in Workers, BreakTaskDeadlock(w)
  PROVE  BreakDeadlock(w) \/ UNCHANGED vars
<1>1. PICK S \in SUBSET Workers :
        w \in S /\ Deadlocked(S) /\ \A v \in S : ~Deadlocked(S \ {v})
  BY DEF BreakTaskDeadlock, Victim
<1>2. ASSUME NEW v \in Workers, at[v] # "idle" PROVE WaitsFor(v) = {}
  BY <1>2 DEF WaitsFor, ServiceTyped, TasksOK, TaskPhase
<1>3. ASSUME NEW v \in Workers, at[v] # "insertteam" PROVE TaskWaitsFor(v) = {}
  BY <1>3, NobodyDeactivates DEF TaskWaitsFor, DeactivateLabels
<1>4. ASSUME NEW v \in S PROVE TaskWaitsFor(v) = {}
  <2>1. SUFFICES ASSUME at[v] = "insertteam" PROVE FALSE
    BY <1>3
  <2>2. AllWaitsFor(v) \cap S # {} /\ WaitsFor(v) = {}
    BY <1>1, <1>2, <2>1 DEF Deadlocked
  <2>3. PICK u \in S : at[u] = "committeam"
    BY <2>1, <2>2 DEF AllWaitsFor, TaskWaitsFor, OthersAddingTeam
  <2>4. AllWaitsFor(u) = {}
    BY <1>2, <1>3, <2>3 DEF AllWaitsFor
  <2> QED BY <1>1, <2>4 DEF Deadlocked
<1>5. \A T \in SUBSET S : Deadlocked(T) <=> Circular(T)
  BY <1>4 DEF Deadlocked, Circular, AllWaitsFor
<1>6. \E T \in SUBSET Workers :
        w \in T /\ Circular(T) /\ \A v \in T : ~Circular(T \ {v})
  <2>1. Circular(S)
    BY <1>1, <1>5
  <2>2. \A v \in S : ~Circular(S \ {v})
    BY <1>1, <1>5
  <2> QED BY <1>1, <2>1, <2>2
<1>7. CASE at[w] # "idle" /\ UNCHANGED locals
  BY <1>7, NobodyDeactivates, RollbackMaps DEF BreakTaskDeadlock
<1>8. CASE Answer(w, "ERROR")
  BY <1>6, <1>8 DEF BreakTaskDeadlock, BreakDeadlock
<1> QED BY <1>7, <1>8 DEF BreakTaskDeadlock

\* Together, every step is one of PullRequests or none.
LEMMA ServiceStepMaps ==
  ASSUME "teamDeactivate" \notin Endpoints, ServiceTyped, Answers, Arrived,
         ServiceRows, [ServiceNext]_serviceVars
  PROVE  [Next]_vars
<1>1. CASE UNCHANGED serviceVars
  BY <1>1 DEF serviceVars
<1>2. ASSUME NEW w \in Workers, ServiceAction(w) PROVE [Next]_vars
  <2>1. CASE ReceivePR(w)
    BY <2>1 DEF ReceivePR, Next
  <2>2. CASE ReceiveTask(w) /\ UNCHANGED locals
    BY <2>2 DEF ReceiveTask, KeepTables, vars
  <2>3. CASE PRStep(w)
    BY <2>3 DEF PRStep, Next
  <2>4. CASE TaskStep(w)
    BY <2>4, TaskStepMaps DEF Next
  <2>5. CASE TaskFailure(w)
    BY <2>5, NobodyDeactivates, RollbackMaps DEF TaskFailure, TaskFail
  <2>6. CASE BreakTaskDeadlock(w)
    BY <2>6, DeadlockMaps DEF Next, Step
  <2> QED
    BY <1>2, <2>1, <2>2, <2>3, <2>4, <2>5, <2>6 DEF ServiceAction, ReceiveAny
<1> QED BY <1>1, <1>2 DEF ServiceNext, ServiceAction

\* Without /team/deactivate the service does to pull requests what PullRequests
\* says: composing the endpoints adds no behaviour.
THEOREM ServiceImplementsPullRequests ==
  ASSUME "teamDeactivate" \notin Endpoints PROVE ServiceSpec => Spec
<1>1. ServiceInit => Init /\ Arrived
  BY DEF ServiceInit, TeamsInit, Arrived
<1>2. /\ ServiceTyped /\ Answers /\ Arrived /\ ServiceRows
      /\ [ServiceNext]_serviceVars
      => [Next]_vars
  BY ServiceStepMaps
<1> QED
  BY <1>1, <1>2, ServiceTypedInit, ServiceTypedNext, AnswersInit, AnswersNext,
     ArrivedNext, ServiceRowsInit, ServiceRowsNext, PTL DEF ServiceSpec, Spec

\* So nobody reviews their own pull request, whatever teams and users do
\* meanwhile; only a deactivation can assign the author (team.go:220).
THEOREM OnlyDeactivationAssignsAuthors ==
  ASSUME "teamDeactivate" \notin Endpoints
  PROVE  ServiceSpec => []AuthorNeverReviews
  BY ServiceImplementsPullRequests, AuthorsNeverReview, PTL

\* And while nobody moves to another team either, all reviewers are teammates
\* of the author, whatever requests overlap.
THEOREM MovesAloneSplitTeams ==
  ASSUME "teamDeactivate" \notin Endpoints
  PROVE  ServiceSpec /\ [][NobodyMoves]_serviceVars => []ReviewersShareTeam
<1>1. ServiceInit => Init /\ Arrived
  BY DEF ServiceInit, TeamsInit, Arrived
<1>2. /\ ServiceTyped /\ Answers /\ Arrived /\ ServiceRows
      /\ [ServiceNext]_serviceVars /\ [NobodyMoves]_serviceVars
      => [Next /\ NobodyMoves]_vars
  <2>1. UNCHANGED serviceVars => UNCHANGED vars
    BY DEF serviceVars
  <2> QED BY <2>1, ServiceStepMaps
<1>3. ServiceSpec /\ [][NobodyMoves]_serviceVars => SettledSpec
  BY <1>1, <1>2, ServiceTypedInit, ServiceTypedNext, AnswersInit, AnswersNext,
     ArrivedNext, ServiceRowsInit, ServiceRowsNext, PTL
     DEF ServiceSpec, SettledSpec
<1> QED BY <1>3, ReviewersAreTeammates, PTL

-----------------------------------------------------------------------------
(***************************************************************************)
(* With one worker, Service keeps the promises of TeamBoard.               *)
(***************************************************************************)

\* What is known of a service with one worker from the invariants of every
\* service.
Base ==
  /\ \A v, w \in Workers : v = w
  /\ ServiceTyped /\ ServiceRows /\ References /\ Answers /\ Creators

\* The steps of the worker at requests to the team and user endpoints.
TaskAction(w) ==
  \/ pc[w] = "idle" /\ ReceiveTask(w) /\ UNCHANGED locals
  \/ TaskStep(w) \/ TaskFailure(w)

\* There is nobody to wait for.
LEMMA NoWaiting ==
  ASSUME Base, NEW w \in Workers
  PROVE  ~BreakTaskDeadlock(w)
<1>1. WaitsFor(w) = {} /\ TaskWaitsFor(w) = {}
  BY DEF Base, WaitsFor, TaskWaitsFor, Holders, OthersInsertingPR,
     OthersAddingTeam
<1> QED
  BY <1>1 DEF Base, BreakTaskDeadlock, Victim, Deadlocked, AllWaitsFor

\* So a step is one at a pull request request, or one at another.
LEMMA SoloActions ==
  ASSUME Base, NEW w \in Workers, ServiceAction(w)
  PROVE  \/ at[w] = "idle" /\ SerialStep(w) /\ (ReceivePR(w) \/ PRStep(w))
         \/ TaskAction(w)
<1>1. CASE ReceivePR(w)
  BY <1>1 DEF Base, ReceivePR, Idle, SerialStep, AllIdle
<1>2. CASE PRStep(w)
  <2>1. pc[w] # "idle"
    BY <1>2, StepsAreBusy DEF PRStep
  <2> QED
    BY <1>2, <2>1
       DEF PRStep, SerialStep, Base, ServiceTyped, TasksOK, TaskPhase
<1> QED
  BY <1>1, <1>2, NoWaiting DEF ServiceAction, ReceiveAny, TaskAction

\* Outside its transactions, requests to pull requests meet what they know.
LEMMA SoloSerial ==
  ASSUME Base, SerialRows, NEW w \in Workers, at[w] = "idle"
  PROVE  SerialInv
<1>1. TxOK
  BY DEF Base, ServiceRows, ServiceTxPhase, TxOK, OpenLabels
<1>2. RegisteredReviewers
  BY DEF Base, References, Registered, RegisteredReviewers
<1> QED
  BY <1>1, <1>2
     DEF Base, ServiceTyped, ServiceTypeOK, SerialRows, SerialInv, Basics,
         ReassignsAlone

\* These requests keep what SerialRows says, ...
LEMMA PRKeepsRows ==
  ASSUME Base, SerialRows, NEW w \in Workers, at[w] = "idle", SerialStep(w)
  PROVE  SerialRows'
<1>1. SerialInv /\ [SerialNext]_vars /\ WorkerStep(w)
  BY SoloSerial DEF SerialNext, SerialStep, WorkerStep
<1>2. SerialInv'
  BY <1>1, SerialInvNext
<1>3. /\ mergedAt \in [PRs -> Workers \cup {None}] /\ status \in [PRs -> Statuses]
      /\ Basics
  BY <1>1 DEF SerialInv, Basics, TypeOK, StoreTypeOK
<1>4. ASSUME NEW p \in PRs, mergedAt'[p] # None PROVE status'[p] = "MERGED"
  <2>1. CASE CommitPR(w)
    <3>1. /\ author[req[w].pr] = None /\ status[req[w].pr] = "OPEN"
      BY <1>1, <2>1, CommittedPR DEF SerialInv, Rows, RowsConsistent, PRPhase
    <3> QED BY <1>3, <1>4, <2>1, <3>1, CommittedPR DEF SerialRows
  <2>2. CASE SetMerged(w)
    BY <1>3, <1>4, <2>2, CommittedMerge DEF SerialRows
  <2> QED
    BY <1>1, <1>3, <1>4, <2>1, <2>2, Writers, CommittedReassign
       DEF prTables, SerialRows
<1> QED BY <1>2, <1>4 DEF SerialInv, SerialRows

\* ... and the others change nothing of it but reviewers.
LEMMA TaskActionFacts ==
  ASSUME Base, NEW w \in Workers, TaskAction(w)
  PROVE  /\ UNCHANGED <<author, status, mergedAt, locals>>
         /\ pc[w] = "idle"
         /\ reviewers' = reviewers \/ CommitReplacements(w)
<1>1. UNCHANGED locals
  BY DEF TaskAction, TaskStep, TaskFailure
<1>2. CASE ReceiveTask(w) /\ pc[w] = "idle"
  BY <1>1, <1>2 DEF ReceiveTask, KeepTables, tables, prTables
<1>3. CASE TaskStep(w)
  <2>1. pc[w] = "idle"
    BY <1>3, TaskStepShape DEF TaskStep, Base, ServiceTyped, TasksOK, TaskPhase
  <2>2. CASE KeepTables
    BY <1>1, <2>1, <2>2 DEF KeepTables, tables, prTables
  <2>3. CASE UpsertMember(w) \/ SetFlag(w) \/ DeactivateMembers(w)
    BY <1>1, <2>1, <2>3
       DEF UpsertMember, CreateOrUpdateUser, SetFlag, UpdateUserIsActive,
           DeactivateMembers, BulkDeactivateUsersByTeam, tables, prTables
  <2>4. CASE CommitTeam(w) \/ DeleteCurrent(w) \/ LockCurrent(w)
             \/ InsertReplacement(w)
    BY <1>1, <2>1, <2>4
       DEF CommitTeam, DeleteCurrent, LockCurrent, InsertReplacement,
           StartDeleteReviewers, FinishDeleteReviewers, InsertReviewer,
           Rollback, tables, prTables
  <2>5. CASE CommitReplacements(w)
    BY <1>1, <2>1, <2>5 DEF CommitReplacements, CommitReviewers
  <2> QED
    BY <1>3, <2>2, <2>3, <2>4, <2>5
       DEF TaskStep, TeamStep, UserStep, AddStep, CheckTeam, InsertTeam,
           FindTeam, ListMembers, ReadBack, FindUser, ListReviews,
           CountReviews, DeactivateStep, PickStep, TeamExists, ReadTargets,
           ReadAffected, ReadNextPR, ReadCurrent, PickFromTeam,
           ReadAuthorTeam, PickFromAuthorTeam, PickFromAll, IssueDeactivation
<1>4. CASE TaskFailure(w)
  BY <1>1, <1>4
     DEF TaskFailure, TaskFail, Rollback, tables, prTables, Base, ServiceTyped,
         TasksOK, TaskPhase
<1> QED BY <1>2, <1>3, <1>4 DEF TaskAction

\* How many come with a team's substitutes, for those of it who leave.
LEMMA Substituted ==
  ASSUME NEW R \in SUBSET Users, NEW T \in SUBSET Users, NEW F \in SUBSET Users,
         Cardinality(R) <= 2, Cardinality(F) <= Cardinality(R \cap T)
  PROVE  Cardinality((R \ T) \cup F) <= 2
<1>1. IsFiniteSet(R) /\ IsFiniteSet(F) /\ IsFiniteSet(R \ T) /\ IsFiniteSet(R \cap T)
  <2>1. R \ T \in SUBSET Users /\ R \cap T \in SUBSET Users
    OBVIOUS
  <2> QED BY <2>1, FS_Subset, UsersAssumption
<1>2. /\ Cardinality(R) \in Nat /\ Cardinality(F) \in Nat
      /\ Cardinality(R \ T) \in Nat /\ Cardinality(R \cap T) \in Nat
      /\ Cardinality((R \ T) \cap F) \in Nat
  <2>1. IsFiniteSet((R \ T) \cap F)
    BY <1>1, FS_Intersection
  <2> QED BY <1>1, <2>1, FS_CardinalityType
<1>3. Cardinality(R \ T) = Cardinality(R) - Cardinality(R \cap T)
  BY <1>1, FS_Difference
<1>4. Cardinality((R \ T) \cup F) =
        Cardinality(R \ T) + Cardinality(F) - Cardinality((R \ T) \cap F)
  BY <1>1, FS_Union
<1> QED BY <1>2, <1>3, <1>4

\* What a deactivation knows of the pull request in work, typed.
LEMMA WorkFacts ==
  ASSUME Base, NEW w \in Workers, at[w] \in WorkLabels
  PROVE  /\ job[w].pr \in PRs /\ job[w].pr # None
         /\ reviewers[job[w].pr] \in SUBSET Users
         /\ job[w].targets \in SUBSET Users /\ job[w].list \in SUBSET Users
         /\ tx[w].inserted \in SUBSET Users
         /\ job[w].owed \in Nat
         /\ at[w] \in {"locking", "inserting"} => tx[w].pr = job[w].pr
         /\ at[w] # "inserting" => tx[w].inserted = {}
<1>1. at[w] # "idle" /\ Own(w)
  BY DEF WorkLabels, PickLabels, Base, ServiceRows, Own
<1>2. tx[w] \in Transactions /\ reviewers \in [PRs -> SUBSET Users]
  BY DEF Base, ServiceTyped, ServiceTypeOK, TypeOK, StoreTypeOK
<1> QED
  BY <1>1, <1>2, TaskPhases, JobFacts
     DEF Base, Transactions, OpenLabels, NoTx

\* What a deactivation commits: members out, substitutes in.
LEMMA Relieved ==
  ASSUME Base, SoloInv, NEW w \in Workers, CommitReplacements(w)
  PROVE  /\ at[w] = "inserting" /\ job[w].pr \in PRs
         /\ Substituting(w) /\ job[w].owed = 0
         /\ reviewers' = [reviewers EXCEPT ![job[w].pr] =
                            (@ \ Leaving(w)) \cup Found(w)]
<1> DEFINE p == job[w].pr
<1>1. /\ at[w] = "inserting" /\ job[w].list = {} /\ CommitReviewers(w)
  BY DEF CommitReplacements
<1>2. /\ p \in PRs /\ reviewers[p] \in SUBSET Users /\ tx[w].pr = p
      /\ tx[w].deleted = reviewers[p] /\ Substituting(w) /\ job[w].owed = 0
  BY <1>1, WorkFacts DEF WorkLabels, SoloInv, Relieving, ListLabels, PickLabels
<1>3. tx[w].inserted \cap reviewers[p] = reviewers[p] \ job[w].targets
  BY <1>1, <1>2 DEF Substituting
<1>4. tx[w].inserted = (reviewers[p] \ Leaving(w)) \cup Found(w)
  BY <1>1, <1>3 DEF Leaving, Found
<1>5. (reviewers[p] \ tx[w].deleted) \cup tx[w].inserted
        = (reviewers[p] \ Leaving(w)) \cup Found(w)
  BY <1>2, <1>4
<1> QED BY <1>1, <1>2, <1>5 DEF CommitReviewers

\* So never more substitutes than members who leave.
LEMMA TaskKeepsTwo ==
  ASSUME Base, SoloInv, NEW w \in Workers, TaskAction(w)
  PROVE  AtMostTwoReviewers'
<1>1. reviewers \in [PRs -> SUBSET Users]
  BY DEF Base, ServiceTyped, ServiceTypeOK, TypeOK, StoreTypeOK
<1>2. CASE reviewers' = reviewers
  BY <1>2 DEF SoloInv, SerialRows, AtMostTwoReviewers
<1>3. CASE CommitReplacements(w)
  <2> DEFINE p == job[w].pr
             R == reviewers[p]
             F == Found(w)
  <2>1. /\ p \in PRs /\ Substituting(w) /\ job[w].owed = 0
        /\ at[w] = "inserting"
        /\ reviewers' = [reviewers EXCEPT ![p] = (@ \ Leaving(w)) \cup F]
    BY <1>3, Relieved
  <2>2. /\ R \in SUBSET Users /\ job[w].targets \in SUBSET Users
        /\ F \in SUBSET Users
    BY <2>1, WorkFacts DEF WorkLabels, Found
  <2>3. /\ Cardinality(F) \in Nat /\ Cardinality(R \cap job[w].targets) \in Nat
    <3>1. IsFiniteSet(F) /\ IsFiniteSet(R \cap job[w].targets)
      <4>1. R \cap job[w].targets \in SUBSET Users
        BY <2>2
      <4> QED BY <2>2, <4>1, FS_Subset, UsersAssumption
    <3> QED BY <3>1, FS_CardinalityType
  <2>4. Cardinality(F) <= Cardinality(R \cap job[w].targets)
    BY <2>1, <2>3 DEF Substituting, Leaving
  <2>5. R \ Leaving(w) = R \ job[w].targets
    BY DEF Leaving
  <2>6. Cardinality((R \ Leaving(w)) \cup F) <= 2
    BY <2>1, <2>2, <2>4, <2>5, Substituted
       DEF SoloInv, SerialRows, AtMostTwoReviewers
  <2> QED
    BY <1>1, <2>1, <2>6 DEF SoloInv, SerialRows, AtMostTwoReviewers
<1> QED BY <1>2, <1>3, TaskActionFacts

\* The rows stay consistent under the other requests.
LEMMA TaskKeepsRows ==
  ASSUME Base, Base', SoloInv, NEW w \in Workers, TaskAction(w)
  PROVE  SerialRows'
<1>1. UNCHANGED <<author, status, mergedAt, locals>>
  BY TaskActionFacts
<1>2. \A v \in Workers : pc[v] = "idle"
  BY TaskActionFacts DEF Base
<1>3. Rows'
  <2>1. RowsConsistent'
    BY <1>1
       DEF SoloInv, SerialRows, Rows, RowsConsistent, Base, ServiceRows,
           Isolation, PRExists
  <2> QED
    BY <1>1, <1>2, <2>1
       DEF Rows, SoleInserter, PRPhase, ReassignPCs, locals
<1>4. Merges' /\ BusyUntilAnswered'
  BY <1>1
     DEF SoloInv, SerialRows, Merges, KnowsMerged, IsMerged, Merged,
         BusyUntilAnswered, locals
<1>5. Informed'
  BY <1>1, <1>2
     DEF Informed, CreateKnows, ReassignKnows, ReassignPCs, WritePCs, locals
<1>6. (\A p \in PRs : mergedAt[p] # None => status[p] = "MERGED")'
  BY <1>1 DEF SoloInv, SerialRows
<1> QED BY <1>3, <1>4, <1>5, <1>6, TaskKeepsTwo DEF SerialRows

-----------------------------------------------------------------------------
\* Where a statement of the team and user endpoints leads.
LEMMA TaskShapes ==
  ASSUME Base, NEW w \in Workers, TaskStep(w)
  PROVE  /\ at[w] # "idle" /\ UNCHANGED locals
         /\ \/ \E code \in Codes \ {"none"} : Finish(w, code)
            \/ /\ at[w] \notin JobLabels
               /\ UNCHANGED <<task, answer, job, tx>>
               /\ \/ at'[w] = "insertteam" \/ at'[w] = "committeam"
                  \/ at'[w] = "listed" /\ FindTeam(w)
                  \/ at'[w] = "targets" /\ TeamExists(w)
                  \/ at'[w] = "reviews" /\ FindUser(w)
                  \/ at'[w] = "readback" /\ SetFlag(w)
            \/ /\ at'[w] = "members" /\ (CommitTeam(w) \/ UpsertMember(w))
               /\ UNCHANGED <<task, answer, tx>>
            \/ /\ DeactivateStep(w) /\ at[w] # "exists"
               /\ at'[w] \in {"affected"} \cup LoopLabels
               /\ UNCHANGED <<task, answer, teams>>
<1>1. at[w] # "idle" /\ UNCHANGED locals /\ at \in [Workers -> Labels]
  BY TaskStepShape
     DEF TaskStep, Base, ServiceTyped, ServiceTypeOK, TeamsTypeOK
<1>2. CASE CheckTeam(w) \/ InsertTeam(w)
  BY <1>1, <1>2
     DEF CheckTeam, InsertTeam, Proceed, KeepTables, Codes, JobLabels,
         WorkLabels, PickLabels
<1>3. CASE CommitTeam(w) \/ UpsertMember(w)
  BY <1>1, <1>3
     DEF CommitTeam, UpsertMember, CreateOrUpdateUser, FinishWritten, Proceed,
         Codes
<1>4. CASE FindTeam(w) \/ ListMembers(w) \/ TeamExists(w) \/ FindUser(w)
           \/ ListReviews(w) \/ CountReviews(w) \/ ReadBack(w) \/ SetFlag(w)
  BY <1>1, <1>4
     DEF FindTeam, ListMembers, TeamExists, FindUser, ListReviews,
         CountReviews, ReadBack, SetFlag, UpdateUserIsActive, Proceed,
         KeepTables, Codes, JobLabels, WorkLabels, PickLabels
<1>5. CASE ReadTargets(w) \/ ReadAffected(w) \/ ReadNextPR(w) \/ ReadCurrent(w)
  <2>1. FirstPick(w) \in PickLabels
    BY FirstPickLabel
  <2> QED
    BY <1>1, <1>5, <2>1
       DEF ReadTargets, ReadAffected, ReadNextPR, ReadCurrent, Proceed,
           KeepTables, Codes, LoopLabels, WorkLabels, PickLabels,
           DeactivateStep
<1>6. CASE PickStep(w)
  <2>1. FirstPick(w) \in PickLabels
    BY FirstPickLabel
  <2> QED
    BY <1>1, <1>6, <2>1
       DEF PickStep, PickFromTeam, ReadAuthorTeam, PickFromAuthorTeam,
           PickFromAll, Replace, Settle, Proceed, KeepTables, Codes,
           LoopLabels, WorkLabels, PickLabels, DeactivateStep
<1>7. CASE DeleteCurrent(w) \/ LockCurrent(w) \/ InsertReplacement(w)
           \/ CommitReplacements(w) \/ IssueDeactivation(w)
           \/ DeactivateMembers(w)
  BY <1>1, <1>7
     DEF DeleteCurrent, LockCurrent, InsertReplacement, CommitReplacements,
         IssueDeactivation, DeactivateMembers, FinishWritten, Proceed,
         KeepTables, Codes, LoopLabels, WorkLabels, PickLabels, DeactivateStep
<1> QED
  BY <1>2, <1>3, <1>4, <1>5, <1>6, <1>7, <1>1
     DEF TaskStep, TeamStep, UserStep, AddStep, DeactivateStep

\* What an answer leaves of a request.
LEMMA Finished ==
  ASSUME Base, NEW w \in Workers, NEW code, Finish(w, code)
  PROVE  /\ at'[w] = "idle" /\ answer'[w] = code /\ job'[w] = NoJob
         /\ task'[w] = [task[w] EXCEPT !.members = {}, !.on = {}]
BY DEF Finish, Base, ServiceTyped, ServiceTypeOK, TeamsTypeOK

\* Pull request requests leave the state of the other endpoints alone.
LEMMA PRTasks ==
  ASSUME Base, NEW w \in Workers, at[w] = "idle", ReceivePR(w) \/ PRStep(w)
  PROVE  /\ at'[w] = "idle" /\ job'[w] = job[w] /\ UNCHANGED teams
         /\ \/ task'[w] = NoTask /\ answer'[w] = "none"
            \/ UNCHANGED teamVars /\ pc[w] # "idle"
BY StepsAreBusy
   DEF ReceivePR, PRStep, teamVars, taskLocals, Base, ServiceTyped,
       ServiceTypeOK, TeamsTypeOK

\* A request arrives with its data.
LEMMA Arriving ==
  ASSUME Base, NEW w \in Workers, ReceiveTask(w)
  PROVE  \E r \in TaskRequests :
           /\ task'[w] = r
           /\ Refused(r) => at'[w] = "idle" /\ answer'[w] =
                IF r.op = "malformed" THEN "BAD_REQUEST" ELSE "NO_CANDIDATE"
           /\ ~Refused(r) =>
                /\ at'[w] = FirstLabel[r.op] /\ answer'[w] = "none"
                /\ at'[w] \in {"team", "exists", "found", "setflag", "user",
                               "stats"}
<1>1. PICK r \in TaskRequests :
        /\ task' = [task EXCEPT ![w] = r]
        /\ at' = [at EXCEPT ![w] = IF Refused(r) THEN "idle"
                                   ELSE FirstLabel[r.op]]
        /\ answer' = [answer EXCEPT ![w] =
                        IF ~Refused(r) THEN "none"
                        ELSE IF r.op = "malformed" THEN "BAD_REQUEST"
                        ELSE "NO_CANDIDATE"]
  BY DEF ReceiveTask
<1>2. /\ task'[w] = r
      /\ at'[w] = IF Refused(r) THEN "idle" ELSE FirstLabel[r.op]
      /\ answer'[w] = IF ~Refused(r) THEN "none"
                      ELSE IF r.op = "malformed" THEN "BAD_REQUEST"
                      ELSE "NO_CANDIDATE"
  BY <1>1 DEF Base, ServiceTyped, ServiceTypeOK, TeamsTypeOK
<1>3. Refused(r) \/ r.op \in {"teamAdd", "teamDeactivate", "teamGet",
                              "setIsActive", "getReview", "stats"}
  BY ServerAssumption
     DEF TaskRequests, Tasks, Operations, UserEndpoints, ReadEndpoints, Refused
<1>4. ~Refused(r) => FirstLabel[r.op] \in {"team", "exists", "found", "setflag",
                                           "user", "stats"}
  BY <1>3 DEF FirstLabel
<1> QED BY <1>2, <1>4

\* One request at a time, with variables of its own.
LEMMA OneAtATimeNext ==
  ASSUME Base, Base', NEW w \in Workers, OneAtATime(w), ServiceAction(w)
  PROVE  OneAtATime(w)'
<1>1. CASE at[w] = "idle" /\ (ReceivePR(w) \/ PRStep(w))
  BY <1>1, PRTasks
     DEF OneAtATime, NoTask, teamVars, taskLocals, JobLabels, WorkLabels,
         PickLabels
<1>2. CASE TaskAction(w)
  <2>1. pc'[w] = "idle"
    BY <1>2, TaskActionFacts DEF locals
  <2>2. CASE ReceiveTask(w) /\ pc[w] = "idle"
    <3>1. at[w] = "idle" /\ UNCHANGED job
      BY <2>2 DEF ReceiveTask
    <3>2. job'[w] = NoJob
      BY <3>1 DEF OneAtATime, JobLabels, WorkLabels, PickLabels
    <3>3. /\ at'[w] \in {"idle", "team", "exists", "found", "setflag", "user",
                         "stats"}
          /\ at'[w] = "idle" => answer'[w] # "none"
      BY <2>2, Arriving
    <3> QED BY <2>1, <3>2, <3>3 DEF OneAtATime
  <2>3. ASSUME NEW code \in Codes \ {"none"}, Finish(w, code)
        PROVE  OneAtATime(w)'
    BY <2>1, <2>3, Finished DEF OneAtATime
  <2>4. CASE TaskStep(w)
    <3>1. CASE at[w] \notin JobLabels /\ UNCHANGED job /\ at'[w] \notin {"idle", "members"}
      BY <2>1, <3>1 DEF OneAtATime
    <3>2. CASE at'[w] = "members" /\ (CommitTeam(w) \/ UpsertMember(w))
      <4>1. at[w] \in {"committeam", "members"} /\ job \in [Workers -> Jobs]
        BY <3>2
           DEF CommitTeam, UpsertMember, Base, ServiceTyped, ServiceTypeOK,
               TeamsTypeOK
      <4>2. job[w].pr = None /\ job[w].skipped = {}
        BY <4>1 DEF OneAtATime, NoJob, JobLabels, WorkLabels, PickLabels
      <4>3. job'[w].pr = job[w].pr /\ job'[w].skipped = job[w].skipped
        <5>1. ASSUME NEW code, Finish(w, code) PROVE FALSE
          BY <3>2, <5>1, Finished
        <5>2. \E L : SetJob(w, [job[w] EXCEPT !.list = L])
          BY <3>2, <5>1 DEF CommitTeam, UpsertMember, FinishWritten
        <5> QED BY <4>1, <5>2 DEF SetJob, Jobs
      <4> QED BY <2>1, <3>2, <4>2, <4>3 DEF OneAtATime, JobLabels
    <3>3. CASE at'[w] \in {"affected"} \cup LoopLabels
      BY <2>1, <3>3 DEF OneAtATime, JobLabels, LoopLabels, WorkLabels, PickLabels
    <3>4. CASE at[w] \notin JobLabels /\ UNCHANGED job
               /\ at'[w] \in {"insertteam", "committeam", "listed", "targets",
                              "reviews", "readback"}
      BY <3>1, <3>4
    <3> QED
      <4>1. \/ \E code \in Codes \ {"none"} : Finish(w, code)
            \/ at[w] \notin JobLabels /\ UNCHANGED job
                 /\ at'[w] \in {"insertteam", "committeam", "listed", "targets",
                                "reviews", "readback"}
            \/ at'[w] = "members" /\ (CommitTeam(w) \/ UpsertMember(w))
            \/ at'[w] \in {"affected"} \cup LoopLabels
        BY <2>4, TaskShapes
      <4> QED BY <2>3, <3>2, <3>3, <3>4, <4>1
  <2>5. CASE TaskFailure(w)
    BY <2>3, <2>5 DEF TaskFailure, TaskFail, Codes
  <2> QED BY <1>2, <2>2, <2>4, <2>5 DEF TaskAction
<1> QED BY <1>1, <1>2, SoloActions

\* At none of these statements there is nothing to know.
LEMMA NothingToKnow ==
  ASSUME NEW w \in Workers,
         at'[w] \in {"idle", "team", "exists", "found", "stats", "insertteam",
                     "committeam", "members"}
  PROVE  StillSo(w)' /\ Loop(w)' /\ Relieving(w)'
BY DEF StillSo, Loop, Relieving, LoopLabels, WorkLabels, ListLabels,
       PickLabels, DeactivateLabels

\* What has been found is still so, for nobody else changes it.
LEMMA StillSoNext ==
  ASSUME Base, Base', NEW w \in Workers, StillSo(w), ServiceAction(w)
  PROVE  StillSo(w)'
<1>1. ASSUME at'[w] \in {"idle", "team", "exists", "found", "stats",
                         "insertteam", "committeam", "members"}
      PROVE  StillSo(w)'
  BY <1>1, NothingToKnow
<1>2. CASE at[w] = "idle" /\ (ReceivePR(w) \/ PRStep(w))
  BY <1>1, <1>2, PRTasks
<1>3. CASE ReceiveTask(w)
  <2>1. PICK r \in TaskRequests :
          /\ task'[w] = r
          /\ at'[w] \in {"setflag", "user"} =>
               ~Refused(r) /\ at'[w] = FirstLabel[r.op]
          /\ at'[w] \in {"idle", "team", "exists", "found", "setflag", "user",
                         "stats"}
    BY <1>3, Arriving
  <2>2. CASE at'[w] \in {"setflag", "user"}
    <3>1. r.op \in {"setIsActive", "getReview"}
      <4>1. r.op \in {"teamAdd", "teamDeactivate", "teamGet", "setIsActive",
                      "getReview", "stats"}
        BY <2>1, <2>2, ServerAssumption
           DEF TaskRequests, Tasks, Operations, UserEndpoints, ReadEndpoints,
               Refused
      <4> QED BY <2>1, <2>2, <4>1 DEF FirstLabel
    <3>2. Cardinality(r.members) = 1 /\ r.members \in SUBSET Users
      BY <3>1 DEF TaskRequests, Tasks
    <3>3. \E u \in r.members : r.members = {u}
      <4>1. IsFiniteSet(r.members)
        BY <3>2, FS_Subset, UsersAssumption
      <4> QED BY <3>2, <4>1, FS_Singleton
    <3> QED
      BY <2>1, <2>2, <3>2, <3>3 DEF StillSo, DeactivateLabels, PickLabels
  <2> QED BY <1>1, <2>1, <2>2
<1>4. CASE TaskStep(w)
  <2>1. ASSUME NEW code, Finish(w, code) PROVE StillSo(w)'
    BY <1>1, <2>1, Finished
  <2>2. CASE \/ at'[w] = "listed" /\ FindTeam(w)
             \/ at'[w] = "targets" /\ TeamExists(w)
    BY <2>1, <2>2
       DEF FindTeam, TeamExists, Proceed, KeepTables, StillSo,
           DeactivateLabels, PickLabels
  <2>3. CASE at'[w] = "reviews" /\ FindUser(w)
    BY <2>1, <2>3
       DEF FindUser, Proceed, KeepTables, StillSo, DeactivateLabels,
           PickLabels, tables, UserExists
  <2>4. CASE at'[w] = "readback" /\ SetFlag(w)
    <3>1. ~\E code : Finish(w, code)
      BY <2>4, Finished
    <3>2. PICK u \in task[w].members :
            UpdateUserIsActive(u, u \in task[w].on) /\ UNCHANGED task
      BY <2>4, <3>1 DEF SetFlag, Proceed
    <3>3. task[w].members = {u} /\ u \in Users
      BY <2>4, <3>2, JobFacts DEF SetFlag, StillSo, Base
    <3>4. /\ UserExists(u) /\ UNCHANGED team
          /\ active'[u] = (u \in task[w].on)
      BY <3>2, <3>3, JobFacts DEF UpdateUserIsActive, StoreTypeOK, Base
    <3> QED
      BY <2>4, <3>2, <3>3, <3>4
         DEF StillSo, DeactivateLabels, PickLabels, UserExists
  <2>5. CASE /\ DeactivateStep(w) /\ at[w] # "exists"
             /\ at'[w] \in {"affected"} \cup LoopLabels
             /\ UNCHANGED <<task, answer, teams>>
    <3>1. at[w] \in DeactivateLabels \ {"exists"}
      BY <2>5
         DEF DeactivateStep, PickStep, TeamExists, ReadTargets, ReadAffected,
             ReadNextPR, ReadCurrent, PickFromTeam, ReadAuthorTeam,
             PickFromAuthorTeam, PickFromAll, DeleteCurrent, LockCurrent,
             InsertReplacement, CommitReplacements, IssueDeactivation,
             DeactivateMembers, DeactivateLabels, PickLabels
    <3> QED
      BY <2>5, <3>1
         DEF StillSo, LoopLabels, WorkLabels, PickLabels, DeactivateLabels
  <2>6. \/ \E code : Finish(w, code)
        \/ at'[w] \in {"insertteam", "committeam", "members"}
        \/ at'[w] = "listed" /\ FindTeam(w)
        \/ at'[w] = "targets" /\ TeamExists(w)
        \/ at'[w] = "reviews" /\ FindUser(w)
        \/ at'[w] = "readback" /\ SetFlag(w)
        \/ /\ DeactivateStep(w) /\ at[w] # "exists"
           /\ at'[w] \in {"affected"} \cup LoopLabels
           /\ UNCHANGED <<task, answer, teams>>
    BY <1>4, TaskShapes
  <2>7. at'[w] \in {"insertteam", "committeam", "members"} => StillSo(w)'
    BY <1>1
  <2> QED BY <2>1, <2>2, <2>3, <2>4, <2>5, <2>6, <2>7
<1>5. CASE TaskFailure(w)
  BY <1>1, <1>5, Finished DEF TaskFailure, TaskFail
<1> QED BY <1>2, <1>3, <1>4, <1>5, SoloActions DEF TaskAction

-----------------------------------------------------------------------------
(***************************************************************************)
(* The loop of DeactivateTeam: what it knows of the pull requests it has   *)
(* still to look at, and of the substitutes it has found so far.           *)
(***************************************************************************)

\* What a statement of the worker leaves behind.
LEMMA Going ==
  ASSUME Base, NEW w \in Workers, NEW label, Proceed(w, label)
  PROVE  /\ at'[w] = label /\ UNCHANGED <<task, answer>>
         /\ \A j : SetJob(w, j) => job'[w] = j
BY DEF Base, ServiceTyped, ServiceTypeOK, TeamsTypeOK, Proceed, SetJob

\* More of what a deactivation knows of the pull request in work.
LEMMA JobTypes ==
  ASSUME Base, NEW w \in Workers
  PROVE  /\ job[w] \in Jobs /\ job[w].skipped \in SUBSET PRs
         /\ job[w].cache \in [Users -> Teams \cup {None}]
         /\ at[w] \in WorkLabels =>
              /\ author[job[w].pr] \in Users /\ author[job[w].pr] # None
              /\ at[w] # "idle"
         /\ at[w] \in PickLabels => job[w].owed # 0
<1>1. job[w] \in Jobs
  BY JobFacts DEF Base
<1>2. ASSUME at[w] \in WorkLabels
      PROVE  /\ author[job[w].pr] \in Users /\ author[job[w].pr] # None
             /\ at[w] # "idle"
  <2>1. at[w] # "idle" /\ Own(w)
    BY <1>2 DEF WorkLabels, PickLabels, Base, ServiceRows, Own
  <2>2. job[w].pr \in PRs /\ PRExists(job[w].pr)
    BY <1>2, <2>1, TaskPhases DEF Base
  <2> QED
    BY <2>1, <2>2 DEF Base, ServiceTyped, ServiceTypeOK, TypeOK, StoreTypeOK, PRExists
<1> QED BY <1>1, <1>2 DEF Jobs, Base, ServiceTyped, TasksOK, TaskPhase

\* The queries for the members and for the pull requests begin the loop,
LEMMA LoopBegins ==
  ASSUME Base, NEW w \in Workers, OneAtATime(w), Loop(w),
         ReadTargets(w) \/ ReadAffected(w), at'[w] # "idle"
  PROVE  Loop(w)' /\ Relieving(w)'
<1>1. ASSUME NEW code, Finish(w, code) PROVE FALSE
  BY <1>1, Finished
<1>2. CASE ReadTargets(w)
  <2> DEFINE T == ActiveMembers(task[w].team)
  <2>1. job[w] = NoJob
    BY <1>2 DEF ReadTargets, OneAtATime, JobLabels, WorkLabels, PickLabels
  <2>2. /\ T # {} /\ SetJob(w, [job[w] EXCEPT !.targets = T])
        /\ Proceed(w, "affected") /\ KeepTables
    BY <1>1, <1>2 DEF ReadTargets
  <2>3. /\ job'[w] = [NoJob EXCEPT !.targets = T] /\ at'[w] = "affected"
        /\ UNCHANGED task
    BY <2>1, <2>2, Going
  <2>4. T' = T
    BY <2>2, <2>3 DEF KeepTables, tables, ActiveMembers
  <2>5. /\ job'[w].targets = T /\ job'[w].pr = None /\ job'[w].skipped = {}
        /\ \A u \in Users : job'[w].cache[u] = None
    BY <2>3 DEF NoJob
  <2> QED
    BY <2>2, <2>3, <2>4, <2>5
       DEF Loop, Relieving, LoopLabels, WorkLabels, ListLabels, PickLabels
<1>3. CASE ReadAffected(w)
  <2>1. /\ SetJob(w, [job[w] EXCEPT
                        !.prs = GetOpenPullRequestsByReviewers(job[w].targets)])
        /\ Proceed(w, "nextpr") /\ KeepTables /\ at[w] = "affected"
    BY <1>3 DEF ReadAffected
  <2>2. /\ job'[w] = [job[w] EXCEPT
                        !.prs = GetOpenPullRequestsByReviewers(job[w].targets)]
        /\ at'[w] = "nextpr" /\ UNCHANGED task
    BY <2>1, Going
  <2>3. /\ job'[w].targets = job[w].targets /\ job'[w].pr = job[w].pr
        /\ job'[w].skipped = job[w].skipped /\ job'[w].cache = job[w].cache
        /\ job'[w].prs = GetOpenPullRequestsByReviewers(job[w].targets)
    BY <2>2, JobTypes DEF Jobs
  <2>4. job[w].pr = None /\ job[w].skipped = {}
    BY <2>1 DEF Loop
  <2>5. /\ GetOpenPullRequestsByReviewers(job[w].targets)' =
             GetOpenPullRequestsByReviewers(job'[w].targets)
        /\ ActiveMembers(task[w].team)' = ActiveMembers(task[w].team)
        /\ UNCHANGED team
    BY <2>1, <2>2
       DEF KeepTables, tables, ActiveMembers, GetOpenPullRequestsByReviewers,
           PRExists
  <2>6. None \notin job'[w].prs
    BY <2>3, StoreAssumption DEF GetOpenPullRequestsByReviewers
  <2> QED
    BY <2>1, <2>2, <2>3, <2>4, <2>5, <2>6
       DEF Loop, Relieving, LoopLabels, WorkLabels, ListLabels, PickLabels
<1> QED BY <1>2, <1>3

\* the next pull request is one of these,
LEMMA LoopTakes ==
  ASSUME Base, NEW w \in Workers, Loop(w), ReadNextPR(w)
  PROVE  Loop(w)' /\ Relieving(w)'
<1>1. PICK p \in job[w].prs :
        SetJob(w, [job[w] EXCEPT !.prs = @ \ {p}, !.pr = p,
                                 !.author = author[p], !.status = status[p]])
  BY DEF ReadNextPR
<1>2. at[w] = "nextpr" /\ Proceed(w, "current") /\ KeepTables
  BY DEF ReadNextPR
<1>3. /\ job'[w] = [job[w] EXCEPT !.prs = @ \ {p}, !.pr = p,
                                  !.author = author[p], !.status = status[p]]
      /\ at'[w] = "current" /\ UNCHANGED task
  BY <1>1, <1>2, Going
<1>4. /\ job'[w].targets = job[w].targets /\ job'[w].prs = job[w].prs \ {p}
      /\ job'[w].pr = p /\ job'[w].author = author[p]
      /\ job'[w].status = status[p] /\ job'[w].skipped = job[w].skipped
      /\ job'[w].cache = job[w].cache
  BY <1>3, JobTypes DEF Jobs
<1>5. /\ job[w].pr = None
      /\ GetOpenPullRequestsByReviewers(job[w].targets) = job[w].prs
      /\ job[w].skipped \cap job[w].prs = {}
  BY <1>2 DEF Loop, LoopLabels
<1>6. p \in PRs /\ p # None /\ status[p] = "OPEN" /\ p \notin job[w].skipped
  BY <1>5, StoreAssumption DEF GetOpenPullRequestsByReviewers
<1>7. /\ GetOpenPullRequestsByReviewers(job[w].targets)' =
           GetOpenPullRequestsByReviewers(job'[w].targets)
      /\ ActiveMembers(task[w].team)' = ActiveMembers(task[w].team)
      /\ UNCHANGED <<team, author>>
  BY <1>2, <1>3
     DEF KeepTables, tables, ActiveMembers, GetOpenPullRequestsByReviewers,
         PRExists
<1>8. /\ job[w].targets = ActiveMembers(task[w].team) /\ job[w].targets # {}
      /\ \A u \in Users : job[w].cache[u] \in {None, team[u]}
  BY <1>2 DEF Loop, LoopLabels
<1>9. Loop(w)'
  BY <1>3, <1>4, <1>5, <1>6, <1>7, <1>8
     DEF Loop, LoopLabels, WorkLabels, PickLabels
<1> QED
  BY <1>3, <1>4, <1>6, <1>9 DEF Relieving, ListLabels, WorkLabels, PickLabels

\* At the statements for one pull request, only what was found changes.
LEMMA LoopStays ==
  ASSUME Base, NEW w \in Workers, Loop(w), at[w] \in WorkLabels,
         at'[w] \in WorkLabels,
         UNCHANGED <<tables, task>>,
         job'[w].targets = job[w].targets, job'[w].prs = job[w].prs,
         job'[w].pr = job[w].pr, job'[w].author = job[w].author,
         job'[w].status = job[w].status,
         job'[w].skipped \subseteq job[w].skipped \cup {job[w].pr},
         \A u \in Users : job'[w].cache[u] \in {None, team[u]},
         at'[w] = "authorteam" =>
           job'[w].cache[author[job[w].pr]] = team[author[job[w].pr]]
  PROVE  /\ Loop(w)'
         /\ Leaving(w)' = Leaving(w) /\ Available(w)' = Available(w)
         /\ Near(w)' = Near(w)
<1>1. /\ GetOpenPullRequestsByReviewers(job[w].targets)' =
           GetOpenPullRequestsByReviewers(job[w].targets)
      /\ ActiveMembers(task[w].team)' = ActiveMembers(task[w].team)
      /\ UNCHANGED <<team, active, author, reviewers>>
  BY DEF tables, ActiveMembers, GetOpenPullRequestsByReviewers, PRExists
<1>2. Loop(w)'
  BY <1>1 DEF Loop, LoopLabels, WorkLabels, PickLabels
<1>3. Leaving(w)' = Leaving(w) /\ Available(w)' = Available(w)
  BY <1>1 DEF Leaving, Available
<1>4. Near(w)' = Near(w)
  BY <1>1, <1>3 DEF Near
<1> QED BY <1>2, <1>3, <1>4

\* Where the search for a substitute begins, an author in the cache is there
\* with their team.
LEMMA FirstPicks ==
  ASSUME Base, NEW w \in Workers, Loop(w), at[w] \in WorkLabels
  PROVE  /\ FirstPick(w) \in {"sameteam", "author", "authorteam"}
         /\ FirstPick(w) = "authorteam" =>
              job[w].cache[author[job[w].pr]] = team[author[job[w].pr]]
<1>1. /\ job[w].author = author[job[w].pr] /\ author[job[w].pr] \in Users
      /\ job[w].cache[author[job[w].pr]] \in
           {None, team[author[job[w].pr]]}
  BY JobTypes DEF Loop, LoopLabels
<1> QED BY <1>1 DEF FirstPick

\* The reviewers who stay are kept, and those who leave are counted.
LEMMA LoopLists ==
  ASSUME Base, NEW w \in Workers, Loop(w), Relieving(w), ReadCurrent(w)
  PROVE  Loop(w)' /\ Relieving(w)'
<1> DEFINE now  == reviewers[job[w].pr]
           gone == now \cap job[w].targets
           j == [job[w] EXCEPT !.old = now, !.list = Kept(w, now),
                               !.owed = Cardinality(gone)]
           label == IF gone = {} THEN "delete" ELSE FirstPick(w)
<1>1. at[w] = "current" /\ KeepTables
  BY DEF ReadCurrent
<1>2. at[w] \in WorkLabels /\ job[w].status = "OPEN"
  BY <1>1 DEF Loop, WorkLabels
<1>3. SetJob(w, j) /\ Proceed(w, label)
  BY <1>2 DEF ReadCurrent, IsOpen
<1>4. job'[w] = j /\ at'[w] = label /\ UNCHANGED task
  BY <1>3, Going
<1>5. /\ job'[w].targets = job[w].targets /\ job'[w].prs = job[w].prs
      /\ job'[w].pr = job[w].pr /\ job'[w].author = job[w].author
      /\ job'[w].status = job[w].status /\ job'[w].skipped = job[w].skipped
      /\ job'[w].cache = job[w].cache
      /\ job'[w].list = now \ job[w].targets
      /\ job'[w].owed = Cardinality(gone)
  BY <1>4, JobTypes DEF Jobs, Kept
<1>6. /\ label \in {"delete", "sameteam", "author", "authorteam"}
      /\ label \in WorkLabels /\ label # "current"
      /\ label = "authorteam" =>
           job[w].cache[author[job[w].pr]] = team[author[job[w].pr]]
  BY <1>2, FirstPicks DEF WorkLabels, PickLabels
<1>7. \A u \in Users : job[w].cache[u] \in {None, team[u]}
  BY <1>2 DEF Loop, LoopLabels
<1>8. UNCHANGED <<tables, tx>>
  BY <1>1 DEF KeepTables
<1>9. /\ Loop(w)' /\ Leaving(w)' = Leaving(w) /\ Available(w)' = Available(w)
      /\ Near(w)' = Near(w)
  <2> HIDE DEF label
  <2> QED BY <1>2, <1>4, <1>5, <1>6, <1>7, <1>8, LoopStays
<1>10. /\ tx'[w].inserted = {} /\ reviewers' = reviewers
       /\ job[w].pr \notin job[w].skipped
  BY <1>1, <1>2, <1>8, WorkFacts DEF Relieving, tables
<1>11. /\ Found(w)' = {}
       /\ (job[w].list \cup tx[w].inserted)' \cap reviewers'[job'[w].pr]
            = now \ job[w].targets
  BY <1>5, <1>10 DEF Found
<1>12. Cardinality(gone) \in Nat /\ Cardinality({}) = 0
  <2>1. now \in SUBSET Users
    BY <1>2, WorkFacts
  <2>2. gone \in SUBSET Users
    BY <2>1
  <2>3. IsFiniteSet(gone)
    BY <2>2, UsersAssumption, FS_Subset
  <2> QED BY <2>3, FS_CardinalityType, FS_EmptySet
<1>13. Cardinality(Leaving(w)) = Cardinality(gone)
  BY DEF Leaving
<1>14. Substituting(w)'
  <2> HIDE DEF label, gone, now
  <2> QED
    BY <1>4, <1>5, <1>6, <1>9, <1>10, <1>11, <1>12, <1>13 DEF Substituting, now
<1>15. label = "delete" => job'[w].owed = 0
  <2>1. label = "delete" => gone = {}
    BY <1>2, FirstPicks
  <2> QED BY <1>5, <1>12, <2>1
<1> QED
  BY <1>4, <1>6, <1>9, <1>14, <1>15 DEF Relieving

\* The candidates of the two searches are those not found yet.
LEMMA Candidates ==
  ASSUME Base, NEW w \in Workers, Loop(w), Relieving(w), at[w] \in PickLabels
  PROVE  /\ Usable(w, ActiveMembers(task[w].team)) = {}
         /\ at[w] = "authorteam" =>
              Usable(w, GetActiveUsersByTeam(job[w].cache[job[w].author],
                                             job[w].author))
                = Near(w) \ Found(w)
         /\ Usable(w, GetAllActiveUsers(job[w].list \cup job[w].targets))
              = Available(w) \ Found(w)
<1>1. at[w] \in WorkLabels /\ at[w] \in ListLabels
  BY DEF WorkLabels, ListLabels, PickLabels
<1>2. /\ job[w].targets = ActiveMembers(task[w].team)
      /\ job[w].author = author[job[w].pr]
      /\ at[w] = "authorteam" =>
           job[w].cache[job[w].author] = team[author[job[w].pr]]
  BY <1>1 DEF Loop, LoopLabels
<1>3. /\ tx[w].inserted = {} /\ job[w].list \in SUBSET Users
      /\ job[w].list \cap reviewers[job[w].pr]
           = reviewers[job[w].pr] \ job[w].targets
  BY <1>1, WorkFacts DEF Relieving, Substituting, PickLabels
<1>4. Usable(w, ActiveMembers(task[w].team)) = {}
  BY <1>2 DEF Usable
<1>5. Usable(w, GetAllActiveUsers(job[w].list \cup job[w].targets))
        = Available(w) \ Found(w)
  BY <1>3 DEF Usable, GetAllActiveUsers, Available, Found
<1>6. ASSUME at[w] = "authorteam"
      PROVE  Usable(w, GetActiveUsersByTeam(job[w].cache[job[w].author],
                                            job[w].author))
               = Near(w) \ Found(w)
  BY <1>2, <1>3, <1>6 DEF Usable, GetActiveUsersByTeam, Near, Available, Found
<1> QED BY <1>4, <1>5, <1>6

\* Users can be counted: one more is found, or nobody.
LEMMA OneMore ==
  ASSUME NEW F \in SUBSET Users, NEW new \in Users \ F
  PROVE  /\ Cardinality(F \cup {new}) = Cardinality(F) + 1
         /\ Cardinality(F) \in Nat
<1>1. IsFiniteSet(F)
  BY FS_Subset, UsersAssumption
<1> QED BY <1>1, FS_AddElement, FS_CardinalityType

\* A reviewer is settled by a substitute, from the author's team if anybody is
\* left there, or by nobody when nobody is left.
LEMMA Settles ==
  ASSUME Base, NEW w \in Workers, Loop(w), Relieving(w), at[w] \in PickLabels,
         KeepTables, NEW F \in SUBSET Users, NEW S \in SUBSET PRs,
         Settle(w, F, S),
         \/ /\ \E new \in Available(w) \ Found(w) :
                 F = {new} /\ (new \in Near(w) \/ Near(w) \subseteq Found(w))
            /\ S = {}
         \/ /\ F = {} /\ S = {job[w].pr}
            /\ Available(w) \subseteq Found(w)
  PROVE  Loop(w)' /\ Relieving(w)'
<1> DEFINE j == [job[w] EXCEPT !.list = @ \cup F, !.owed = @ - 1,
                               !.skipped = @ \cup S]
           label == IF job[w].owed = 1 THEN "delete" ELSE FirstPick(w)
<1>1. at[w] \in WorkLabels /\ at[w] \in ListLabels
  BY DEF WorkLabels, ListLabels, PickLabels
<1>2. SetJob(w, j) /\ Proceed(w, label)
  BY DEF Settle
<1>3. job'[w] = j /\ at'[w] = label /\ UNCHANGED task
  BY <1>2, Going
<1>4. /\ job'[w].targets = job[w].targets /\ job'[w].prs = job[w].prs
      /\ job'[w].pr = job[w].pr /\ job'[w].author = job[w].author
      /\ job'[w].status = job[w].status
      /\ job'[w].skipped = job[w].skipped \cup S
      /\ job'[w].cache = job[w].cache
      /\ job'[w].list = job[w].list \cup F
      /\ job'[w].owed = job[w].owed - 1
  BY <1>3, JobTypes DEF Jobs
<1>5. /\ label \in {"delete", "sameteam", "author", "authorteam"}
      /\ label \in WorkLabels /\ label # "current"
      /\ label = "authorteam" =>
           job[w].cache[author[job[w].pr]] = team[author[job[w].pr]]
  BY <1>1, FirstPicks DEF WorkLabels, PickLabels
<1>6. \A u \in Users : job[w].cache[u] \in {None, team[u]}
  BY <1>1 DEF Loop, LoopLabels
<1>7. UNCHANGED <<tables, tx>>
  BY DEF KeepTables
<1>8. /\ Loop(w)' /\ Leaving(w)' = Leaving(w) /\ Available(w)' = Available(w)
      /\ Near(w)' = Near(w)
  <2> HIDE DEF label
  <2> QED BY <1>1, <1>3, <1>4, <1>5, <1>6, <1>7, LoopStays
<1>9. /\ tx'[w].inserted = {} /\ tx[w].inserted = {} /\ reviewers' = reviewers
      /\ Substituting(w) /\ job[w].owed \in Nat \ {0}
      /\ job[w].list \in SUBSET Users /\ reviewers[job[w].pr] \in SUBSET Users
      /\ job[w].targets \in SUBSET Users
  BY <1>1, <1>7, WorkFacts, JobTypes DEF Relieving, tables, PickLabels
<1>10. /\ F \cap reviewers[job[w].pr] = {} /\ F \subseteq Available(w)
       /\ Found(w) \in SUBSET Users
  BY <1>9 DEF Available, Found
<1>11. /\ Found(w)' = Found(w) \cup F
       /\ (job[w].list \cup tx[w].inserted)' \cap reviewers'[job'[w].pr]
            = reviewers[job[w].pr] \ job[w].targets
  BY <1>4, <1>9, <1>10 DEF Found, Substituting
<1>12. Cardinality(Found(w)) \in Nat /\ Cardinality(Leaving(w)) \in Nat
  <2>1. Leaving(w) \in SUBSET Users
    BY <1>9 DEF Leaving
  <2>2. IsFiniteSet(Found(w)) /\ IsFiniteSet(Leaving(w))
    BY <1>10, <2>1, FS_Subset, UsersAssumption
  <2> QED BY <2>2, FS_CardinalityType
<1> DEFINE settled == Cardinality(Leaving(w)) - job[w].owed
<1>13. Cardinality(Leaving(w)) - job'[w].owed = settled + 1 /\ settled \in Int
  BY <1>4, <1>9, <1>12
<1>14. /\ Found(w) \subseteq Available(w) /\ settled >= 0
       /\ job[w].pr \notin job[w].skipped => Cardinality(Found(w)) = settled
       /\ job[w].pr \in job[w].skipped =>
            Found(w) = Available(w) /\ Cardinality(Found(w)) < settled
       /\ Near(w) \subseteq Found(w) \/ Found(w) \subseteq Near(w)
  BY <1>9 DEF Substituting
<1>15. ASSUME Found(w) \cup F \subseteq Available(w),
              \/ /\ job[w].pr \notin job[w].skipped \cup S
                 /\ Cardinality(Found(w) \cup F) = settled + 1
              \/ /\ job[w].pr \in job[w].skipped \cup S
                 /\ Found(w) \cup F = Available(w)
                 /\ Cardinality(Found(w) \cup F) < settled + 1,
              \/ Near(w) \subseteq Found(w) \cup F
              \/ Found(w) \cup F \subseteq Near(w)
       PROVE  Substituting(w)'
  <2>1. Cardinality(Leaving(w)') - job'[w].owed = settled + 1
    BY <1>8, <1>13
  <2>2. (Cardinality(Leaving(w)) - job[w].owed)' >= 0
    BY <1>13, <1>14, <2>1
  <2>3. Found(w)' \subseteq Available(w)'
    BY <1>8, <1>11, <1>15
  <2>4. at'[w] # "everyone"
    BY <1>3, <1>5
  <2>5. Near(w)' \subseteq Found(w)' \/ Found(w)' \subseteq Near(w)'
    BY <1>8, <1>11, <1>15
  <2>6. job'[w].pr \notin job'[w].skipped =>
          Cardinality(Found(w)') = Cardinality(Leaving(w)') - job'[w].owed
    BY <1>4, <1>11, <1>15, <2>1
  <2>7. job'[w].pr \in job'[w].skipped =>
          /\ Found(w)' = Available(w)'
          /\ Cardinality(Found(w)') < Cardinality(Leaving(w)') - job'[w].owed
    BY <1>4, <1>8, <1>11, <1>15, <2>1
  <2>8. (job[w].list \cup tx[w].inserted)' \cap reviewers'[job'[w].pr]
            = reviewers'[job'[w].pr] \ job'[w].targets
    BY <1>4, <1>9, <1>11
  <2> HIDE DEF settled, label
  <2> QED BY <2>2, <2>3, <2>4, <2>5, <2>6, <2>7, <2>8 DEF Substituting
<1>16. Substituting(w)'
  <2>1. CASE \E new \in Available(w) \ Found(w) :
               F = {new} /\ (new \in Near(w) \/ Near(w) \subseteq Found(w))
    <3>1. PICK new \in Available(w) \ Found(w) :
            F = {new} /\ (new \in Near(w) \/ Near(w) \subseteq Found(w))
      BY <2>1
    <3>2. S = {} /\ new \in Users
      BY <3>1 DEF Available
    <3>3. job[w].pr \notin job[w].skipped
      BY <1>14, <3>1
    <3>4. Cardinality(Found(w) \cup F) = settled + 1
      BY <1>10, <1>14, <3>1, <3>2, <3>3, OneMore
    <3>5. Near(w) \subseteq Found(w) \cup F \/ Found(w) \cup F \subseteq Near(w)
      BY <1>14, <3>1
    <3>6. Found(w) \cup F \subseteq Available(w)
      BY <1>10, <1>14
    <3> HIDE DEF settled, label
    <3> QED BY <1>15, <3>2, <3>3, <3>4, <3>5, <3>6
  <2>2. CASE F = {} /\ S = {job[w].pr} /\ Available(w) \subseteq Found(w)
    <3>1. Found(w) \cup F = Available(w) /\ Found(w) \cup F = Found(w)
      BY <1>14, <2>2
    <3>2. Cardinality(Found(w)) < settled + 1
      BY <1>12, <1>13, <1>14
    <3>3. Near(w) \subseteq Found(w) \cup F
      BY <3>1 DEF Near
    <3>4. job[w].pr \in job[w].skipped \cup S
      BY <2>2
    <3> HIDE DEF settled, label
    <3> QED BY <1>15, <3>1, <3>2, <3>3, <3>4
  <2> QED BY <2>1, <2>2
<1>17. label = "delete" => job'[w].owed = 0
  <2>1. label = "delete" => job[w].owed = 1
    BY <1>1, FirstPicks
  <2> QED BY <1>4, <2>1
<1> QED
  BY <1>3, <1>5, <1>8, <1>16, <1>17 DEF Relieving

\* With nobody else who shuffles, a source that has candidates gives one.
LEMMA NoRace ==
  ASSUME Base, NEW w \in Workers, NEW C, Replace(w, C)
  PROVE  \E new \in C : Settle(w, {new}, {})
BY DEF Base, Replace, RacingShuffle

\* On to another source, with the author perhaps read.
LEMMA Onward ==
  ASSUME Base, NEW w \in Workers, Loop(w), Relieving(w), at[w] \in PickLabels,
         KeepTables, UNCHANGED task, at'[w] \in PickLabels,
         job'[w] \in {job[w],
                      [job[w] EXCEPT !.cache[job[w].author] =
                                       team[job[w].author]]},
         at'[w] = "authorteam" =>
           job'[w].cache[author[job[w].pr]] = team[author[job[w].pr]],
         at'[w] = "everyone" => Near(w) \subseteq Found(w)
  PROVE  Loop(w)' /\ Relieving(w)'
<1>1. /\ at[w] \in WorkLabels /\ at[w] \in ListLabels
      /\ at'[w] \in WorkLabels /\ at'[w] # "current"
  BY DEF WorkLabels, ListLabels, PickLabels
<1>2. /\ \A u \in Users : job[w].cache[u] \in {None, team[u]}
      /\ job[w].author = author[job[w].pr] /\ author[job[w].pr] \in Users
  BY <1>1, JobTypes DEF Loop, LoopLabels
<1>3. /\ job'[w].targets = job[w].targets /\ job'[w].prs = job[w].prs
      /\ job'[w].pr = job[w].pr /\ job'[w].author = job[w].author
      /\ job'[w].status = job[w].status
      /\ job'[w].skipped = job[w].skipped
      /\ job'[w].list = job[w].list /\ job'[w].owed = job[w].owed
  BY JobTypes DEF Jobs
<1>4. \A u \in Users : job'[w].cache[u] \in {None, team[u]}
  BY <1>2, JobTypes DEF Jobs
<1>5. UNCHANGED <<tables, tx>>
  BY DEF KeepTables
<1>6. /\ Loop(w)' /\ Leaving(w)' = Leaving(w) /\ Available(w)' = Available(w)
      /\ Near(w)' = Near(w)
  BY <1>1, <1>3, <1>4, <1>5, LoopStays
<1>7. Found(w)' = Found(w) /\ UNCHANGED <<reviewers, tx>>
  BY <1>3, <1>5 DEF Found, tables
<1>8. Substituting(w)'
  BY <1>1, <1>3, <1>6, <1>7 DEF Relieving, Substituting
<1> QED BY <1>6, <1>8 DEF Relieving, PickLabels

\* So the search keeps what is known,
LEMMA LoopPicks ==
  ASSUME Base, NEW w \in Workers, Loop(w), Relieving(w), PickStep(w)
  PROVE  Loop(w)' /\ Relieving(w)'
<1>1. at[w] \in PickLabels /\ at[w] \in WorkLabels /\ KeepTables
  BY DEF PickStep, PickFromTeam, ReadAuthorTeam, PickFromAuthorTeam,
         PickFromAll, PickLabels, WorkLabels
<1>2. /\ job[w].author = author[job[w].pr] /\ author[job[w].pr] \in Users
      /\ job[w].cache[author[job[w].pr]] \in {None, team[author[job[w].pr]]}
      /\ job[w].pr \in PRs
  BY <1>1, JobTypes, WorkFacts DEF Loop, LoopLabels
<1>3. /\ Substituting(w) /\ Found(w) \subseteq Available(w)
      /\ Available(w) \subseteq Users
  BY <1>1 DEF Relieving, ListLabels, PickLabels, Substituting, Available
<1>4. CASE PickFromTeam(w)
  <2> DEFINE label == IF job[w].cache[job[w].author] = None
                      THEN "author" ELSE "authorteam"
  <2>1. Proceed(w, label) /\ UNCHANGED job
    <3>1. ~Replace(w, {})
      BY DEF Base, Replace, RacingShuffle
    <3> QED BY <1>1, <1>4, <3>1, Candidates DEF PickFromTeam
  <2>2. at'[w] = label /\ UNCHANGED task
    BY <2>1, Going
  <2>3. label \in {"author", "authorteam"} /\ label \in PickLabels
    BY DEF PickLabels
  <2> QED BY <1>1, <1>2, <2>1, <2>2, <2>3, Onward
<1>5. CASE ReadAuthorTeam(w)
  <2>1. /\ SetJob(w, [job[w] EXCEPT !.cache[job[w].author] =
                                      team[job[w].author]])
        /\ Proceed(w, "authorteam")
    BY <1>5 DEF ReadAuthorTeam
  <2>2. /\ job'[w] = [job[w] EXCEPT !.cache[job[w].author] =
                                      team[job[w].author]]
        /\ at'[w] = "authorteam" /\ UNCHANGED task
    BY <2>1, Going
  <2>3. job'[w].cache[author[job[w].pr]] = team[author[job[w].pr]]
    BY <1>2, <2>2, JobTypes DEF Jobs
  <2>4. "authorteam" \in PickLabels
    BY DEF PickLabels
  <2> QED BY <1>1, <2>2, <2>3, <2>4, Onward
<1>6. CASE PickFromAuthorTeam(w)
  <2>1. at[w] = "authorteam"
    BY <1>6 DEF PickFromAuthorTeam
  <2> DEFINE C == Near(w) \ Found(w)
  <2>2. \/ Replace(w, C)
        \/ C = {} /\ Proceed(w, "everyone") /\ UNCHANGED job
    BY <1>1, <1>6, <2>1, Candidates DEF PickFromAuthorTeam
  <2>3. CASE Replace(w, C)
    <3>1. PICK new \in C : Settle(w, {new}, {})
      BY <2>3, NoRace
    <3>2. new \in Available(w) \ Found(w) /\ new \in Near(w)
      BY <3>1 DEF Near
    <3>3. {new} \in SUBSET Users /\ {} \in SUBSET PRs
      BY <1>3, <3>2
    <3> QED BY <1>1, <3>1, <3>2, <3>3, Settles
  <2>4. CASE C = {} /\ Proceed(w, "everyone") /\ UNCHANGED job
    <3>1. at'[w] = "everyone" /\ UNCHANGED task /\ "everyone" \in PickLabels
      BY <2>4, Going DEF PickLabels
    <3>2. Near(w) \subseteq Found(w)
      BY <2>4
    <3> QED BY <1>1, <2>4, <3>1, <3>2, Onward
  <2> QED BY <2>2, <2>3, <2>4
<1>7. CASE PickFromAll(w)
  <2>1. at[w] = "everyone"
    BY <1>7 DEF PickFromAll
  <2> DEFINE C == Available(w) \ Found(w)
  <2>2. \/ Replace(w, C)
        \/ C = {} /\ Settle(w, {}, {job[w].pr})
    BY <1>1, <1>7, Candidates DEF PickFromAll
  <2>3. Near(w) \subseteq Found(w)
    BY <1>3, <2>1 DEF Substituting
  <2>4. CASE Replace(w, C)
    <3>1. PICK new \in C : Settle(w, {new}, {})
      BY <2>4, NoRace
    <3>2. {new} \in SUBSET Users /\ {} \in SUBSET PRs
      BY <1>3, <3>1
    <3> QED BY <1>1, <2>3, <3>1, <3>2, Settles
  <2>5. CASE C = {} /\ Settle(w, {}, {job[w].pr})
    <3>1. {job[w].pr} \in SUBSET PRs /\ Available(w) \subseteq Found(w)
      BY <1>2, <2>5
    <3> QED BY <1>1, <2>5, <3>1, Settles
  <2> QED BY <2>2, <2>4, <2>5
<1> QED BY <1>4, <1>5, <1>6, <1>7 DEF PickStep

\* With the job as it is, only the transaction goes on.
LEMMA LoopWaits ==
  ASSUME Base, NEW w \in Workers, Loop(w), at[w] \in WorkLabels,
         at'[w] \in WorkLabels \ PickLabels, UNCHANGED <<tables, task>>,
         NEW L \in SUBSET Users, job'[w] = [job[w] EXCEPT !.list = L]
  PROVE  /\ Loop(w)'
         /\ Leaving(w)' = Leaving(w) /\ Available(w)' = Available(w)
         /\ Near(w)' = Near(w)
         /\ job'[w].list = L /\ job'[w].pr = job[w].pr
         /\ job'[w].owed = job[w].owed /\ job'[w].skipped = job[w].skipped
         /\ job'[w].targets = job[w].targets /\ UNCHANGED reviewers
<1>1. /\ job'[w].targets = job[w].targets /\ job'[w].prs = job[w].prs
      /\ job'[w].pr = job[w].pr /\ job'[w].author = job[w].author
      /\ job'[w].status = job[w].status
      /\ job'[w].skipped = job[w].skipped
      /\ job'[w].cache = job[w].cache
      /\ job'[w].list = L /\ job'[w].owed = job[w].owed
  BY JobTypes DEF Jobs
<1>2. \A u \in Users : job'[w].cache[u] \in {None, team[u]}
  BY <1>1 DEF Loop, LoopLabels
<1>3. at'[w] # "authorteam" /\ at'[w] \in WorkLabels /\ UNCHANGED reviewers
  BY DEF PickLabels, tables
<1>4. job'[w].skipped \subseteq job[w].skipped \cup {job[w].pr}
  BY <1>1
<1> QED BY <1>1, <1>2, <1>3, <1>4, LoopStays

\* What is to be inserted and what has been are the new reviewers.
LEMMA SameSubstitutes ==
  ASSUME NEW w \in Workers, Substituting(w), at'[w] # "everyone",
         Leaving(w)' = Leaving(w), Available(w)' = Available(w),
         Near(w)' = Near(w), job'[w].pr = job[w].pr,
         job'[w].owed = job[w].owed, job'[w].skipped = job[w].skipped,
         job'[w].targets = job[w].targets, UNCHANGED reviewers,
         job'[w].list \cup tx'[w].inserted = job[w].list \cup tx[w].inserted
  PROVE  Substituting(w)'
<1>1. Found(w)' = Found(w)
  BY DEF Found
<1> QED BY <1>1 DEF Substituting

\* and so does the transaction that replaces the reviewers.
LEMMA LoopWrites ==
  ASSUME Base, NEW w \in Workers, Loop(w), Relieving(w),
         DeleteCurrent(w) \/ LockCurrent(w) \/ InsertReplacement(w),
         at'[w] # "idle"
  PROVE  Loop(w)' /\ Relieving(w)'
<1>1. /\ at[w] \in {"delete", "locking", "inserting"}
      /\ at[w] \in WorkLabels /\ at[w] \in ListLabels
  BY DEF DeleteCurrent, LockCurrent, InsertReplacement, WorkLabels, ListLabels,
         PickLabels
<1>2. /\ Substituting(w) /\ job[w].owed = 0
      /\ job[w].list \in SUBSET Users /\ tx[w].inserted \in SUBSET Users
      /\ at[w] # "inserting" => tx[w].inserted = {}
      /\ at[w] \in {"locking", "inserting"} => tx[w].pr = job[w].pr
      /\ tx[w] \in Transactions /\ tx \in [Workers -> Transactions]
      /\ job \in [Workers -> Jobs]
  BY <1>1, WorkFacts
     DEF Relieving, Base, ServiceTyped, ServiceTypeOK, TypeOK, StoreTypeOK,
         TeamsTypeOK
<1>3. {"locking", "inserting"} \subseteq WorkLabels \ PickLabels
  BY DEF WorkLabels, PickLabels
<1>4. CASE DeleteCurrent(w)
  <2>1. /\ at'[w] = "locking" /\ UNCHANGED <<task, job, tables>>
    BY <1>4, Going DEF DeleteCurrent, StartDeleteReviewers
  <2>2. tx'[w].seen = reviewers[job[w].pr] /\ tx'[w].inserted = {}
    BY <1>2, <1>4 DEF DeleteCurrent, StartDeleteReviewers, NoTx
  <2>3. job'[w] = [job[w] EXCEPT !.list = job[w].list]
    BY <1>2, <2>1 DEF Jobs
  <2>4. tx[w].inserted = {}
    BY <1>2, <1>4 DEF DeleteCurrent
  <2> QED
    BY <1>1, <1>2, <1>3, <2>1, <2>2, <2>3, <2>4, LoopWaits, SameSubstitutes
       DEF Relieving
<1>5. CASE LockCurrent(w)
  <2>1. at'[w] = "inserting" /\ UNCHANGED <<task, job, tables>>
    BY <1>5, Going DEF LockCurrent, FinishDeleteReviewers
  <2>2. tx'[w].deleted = tx[w].seen /\ tx'[w].inserted = tx[w].inserted
    BY <1>2, <1>5 DEF LockCurrent, FinishDeleteReviewers, Transactions
  <2>3. job'[w] = [job[w] EXCEPT !.list = job[w].list]
    BY <1>2, <2>1 DEF Jobs
  <2>4. tx[w].seen = reviewers[job[w].pr]
    BY <1>5 DEF LockCurrent, Relieving
  <2>5. /\ Loop(w)'
        /\ Leaving(w)' = Leaving(w) /\ Available(w)' = Available(w)
        /\ Near(w)' = Near(w)
        /\ job'[w].list = job[w].list /\ job'[w].pr = job[w].pr
        /\ job'[w].owed = job[w].owed /\ job'[w].skipped = job[w].skipped
        /\ job'[w].targets = job[w].targets /\ UNCHANGED reviewers
    BY <1>1, <1>2, <1>3, <2>1, <2>3, LoopWaits
  <2>6. Substituting(w)'
    BY <1>2, <2>1, <2>2, <2>5, SameSubstitutes
  <2> QED BY <1>2, <2>1, <2>2, <2>4, <2>5, <2>6 DEF Relieving
<1>6. CASE InsertReplacement(w)
  <2>1. PICK u \in job[w].list :
          /\ InsertReviewer(w, u)
          /\ SetJob(w, [job[w] EXCEPT !.list = @ \ {u}])
          /\ Proceed(w, "inserting")
    BY <1>6, Finished DEF InsertReplacement
  <2>2. /\ at'[w] = "inserting" /\ UNCHANGED <<task, tables>>
        /\ job'[w] = [job[w] EXCEPT !.list = @ \ {u}]
    BY <2>1, Going DEF InsertReviewer
  <2>3. /\ tx'[w].deleted = tx[w].deleted
        /\ tx'[w].inserted = tx[w].inserted \cup {u}
    BY <1>2, <2>1 DEF InsertReviewer, Transactions
  <2>4. /\ job'[w] = [job[w] EXCEPT !.list = job[w].list \ {u}]
        /\ job[w].list \ {u} \in SUBSET Users
    BY <1>2, <2>2
  <2>5. tx[w].deleted = reviewers[job[w].pr]
    BY <1>6 DEF InsertReplacement, Relieving
  <2>6. (job[w].list \ {u}) \cup tx'[w].inserted
          = job[w].list \cup tx[w].inserted
    BY <2>1, <2>3
  <2> QED
    BY <1>1, <1>2, <1>3, <2>2, <2>3, <2>4, <2>5, <2>6, LoopWaits,
       SameSubstitutes
       DEF Relieving
<1> QED BY <1>4, <1>5, <1>6

\* The pull request that is done has no reviewer left who leaves.
LEMMA LoopEnds ==
  ASSUME Base, SoloInv, NEW w \in Workers, CommitReplacements(w),
         at'[w] # "idle"
  PROVE  Loop(w)' /\ Relieving(w)'
<1> DEFINE p == job[w].pr
<1>1. /\ SetJob(w, NextPR(job[w])) /\ Proceed(w, "nextpr")
      /\ CommitReviewers(w)
  BY Finished DEF CommitReplacements
<1>2. job'[w] = NextPR(job[w]) /\ at'[w] = "nextpr" /\ UNCHANGED task
  BY <1>1, Going
<1>3. /\ job'[w].targets = job[w].targets /\ job'[w].prs = job[w].prs
      /\ job'[w].pr = None /\ job'[w].skipped = job[w].skipped
      /\ job'[w].cache = job[w].cache
  BY <1>2, JobTypes DEF NextPR, Jobs
<1>4. /\ at[w] = "inserting" /\ p \in PRs /\ p # None
      /\ Substituting(w)
      /\ reviewers' = [reviewers EXCEPT ![p] = (@ \ Leaving(w)) \cup Found(w)]
  BY Relieved, StoreAssumption
<1>5. /\ job[w].targets = ActiveMembers(task[w].team) /\ job[w].targets # {}
      /\ \A u \in Users : job[w].cache[u] \in {None, team[u]}
      /\ GetOpenPullRequestsByReviewers(job[w].targets) = job[w].prs \cup {p}
      /\ p \notin job[w].prs /\ job[w].skipped \cap job[w].prs = {}
  BY <1>4 DEF SoloInv, Loop, LoopLabels, WorkLabels
<1>6. /\ UNCHANGED <<team, active, author, status>>
      /\ reviewers \in [PRs -> SUBSET Users]
  BY <1>1
     DEF CommitReviewers, userTable, Base, ServiceTyped, ServiceTypeOK, TypeOK,
         StoreTypeOK
<1>7. ActiveMembers(task[w].team)' = ActiveMembers(task[w].team)
  BY <1>2, <1>6 DEF ActiveMembers
<1>8. /\ reviewers'[p] \cap job[w].targets = {}
      /\ \A q \in PRs \ {p} : reviewers'[q] = reviewers[q]
  BY <1>4, <1>6 DEF Substituting, Leaving, Available
<1>9. GetOpenPullRequestsByReviewers(job[w].targets)' = job[w].prs
  <2>1. GetOpenPullRequestsByReviewers(job[w].targets)' =
          GetOpenPullRequestsByReviewers(job[w].targets) \ {p}
    BY <1>3, <1>6, <1>8 DEF GetOpenPullRequestsByReviewers, PRExists
  <2> QED BY <1>5, <2>1
<1>10. None \notin job[w].prs
  BY JobFacts, StoreAssumption DEF Base
<1> QED
  BY <1>2, <1>3, <1>5, <1>6, <1>7, <1>9, <1>10
     DEF Loop, Relieving, LoopLabels, WorkLabels, ListLabels, PickLabels

\* The bulk UPDATE finds those whom it was to find.
LEMMA LoopIssues ==
  ASSUME Base, NEW w \in Workers, Loop(w), IssueDeactivation(w)
  PROVE  Loop(w)' /\ Relieving(w)'
<1> DEFINE t == task[w].team
           j == [job[w] EXCEPT !.list = ActiveMembers(t)]
<1>1. /\ at[w] = "nextpr" /\ job[w].prs = {} /\ KeepTables
      /\ SetJob(w, j) /\ Proceed(w, "switchoff")
  BY DEF IssueDeactivation
<1>2. job'[w] = j /\ at'[w] = "switchoff" /\ UNCHANGED task
  BY <1>1, Going
<1>3. /\ job'[w].targets = job[w].targets /\ job'[w].prs = job[w].prs
      /\ job'[w].pr = job[w].pr /\ job'[w].skipped = job[w].skipped
      /\ job'[w].cache = job[w].cache /\ job'[w].list = ActiveMembers(t)
  BY <1>2, JobTypes DEF Jobs
<1>4. /\ job[w].targets = ActiveMembers(t) /\ job[w].targets # {}
      /\ \A u \in Users : job[w].cache[u] \in {None, team[u]}
      /\ job[w].pr = None
      /\ GetOpenPullRequestsByReviewers(job[w].targets) =
           job[w].prs \cup ({job[w].pr} \ {None})
      /\ job[w].pr \notin job[w].prs /\ job[w].skipped \cap job[w].prs = {}
  BY <1>1 DEF Loop, LoopLabels
<1>5. /\ GetOpenPullRequestsByReviewers(job[w].targets)' =
           GetOpenPullRequestsByReviewers(job'[w].targets)
      /\ ActiveMembers(t)' = ActiveMembers(t)
      /\ UNCHANGED team
  BY <1>1, <1>2
     DEF KeepTables, tables, ActiveMembers, GetOpenPullRequestsByReviewers,
         PRExists
<1> QED
  BY <1>1, <1>2, <1>3, <1>4, <1>5
     DEF Loop, Relieving, LoopLabels, WorkLabels, ListLabels, PickLabels

-----------------------------------------------------------------------------
(***************************************************************************)
(* All steps together: the inductive invariant.                            *)
(***************************************************************************)

\* Only in the loop there is something to know of it.
LEMMA OutsideLoop ==
  ASSUME NEW w \in Workers, at'[w] \notin {"affected"} \cup LoopLabels
  PROVE  Loop(w)' /\ Relieving(w)'
BY DEF Loop, Relieving, LoopLabels, WorkLabels, ListLabels, PickLabels

\* Every statement keeps what a deactivation knows.
LEMMA LoopNext ==
  ASSUME Base, SoloInv, NEW w \in Workers, ServiceAction(w)
  PROVE  Loop(w)' /\ Relieving(w)'
<1>1. ASSUME at'[w] \in {"idle", "team", "exists", "found", "setflag", "user",
                         "stats", "insertteam", "committeam", "members",
                         "listed", "targets", "reviews", "readback"}
      PROVE  Loop(w)' /\ Relieving(w)'
  BY <1>1, OutsideLoop DEF LoopLabels, WorkLabels, PickLabels
<1>2. CASE at[w] = "idle" /\ (ReceivePR(w) \/ PRStep(w))
  BY <1>1, <1>2, PRTasks
<1>3. CASE ReceiveTask(w)
  BY <1>1, <1>3, Arriving
<1>4. CASE TaskStep(w)
  <2>1. \/ \E code : Finish(w, code)
        \/ at'[w] \in {"insertteam", "committeam", "members", "listed",
                       "targets", "reviews", "readback"}
        \/ DeactivateStep(w) /\ at'[w] \in {"affected"} \cup LoopLabels
    BY <1>4, TaskShapes
  <2>2. ASSUME NEW code, Finish(w, code) PROVE at'[w] = "idle"
    BY <2>2, Finished
  <2>3. CASE at'[w] = "idle"
    BY <1>1, <2>3
  <2>4. CASE DeactivateStep(w) /\ at'[w] \in {"affected"} \cup LoopLabels
    <3>1. at'[w] \notin {"idle", "targets"} /\ OneAtATime(w) /\ Loop(w)
          /\ Relieving(w)
      BY <2>4 DEF LoopLabels, WorkLabels, PickLabels, SoloInv
    <3>2. CASE TeamExists(w)
      BY <2>2, <3>1, <3>2, Going DEF TeamExists
    <3>3. CASE DeactivateMembers(w)
      BY <2>2, <3>1, <3>3 DEF DeactivateMembers, FinishWritten
    <3> QED
      BY <2>4, <3>1, <3>2, <3>3, LoopBegins, LoopTakes, LoopLists, LoopPicks,
         LoopWrites, LoopEnds, LoopIssues
         DEF DeactivateStep
  <2> QED BY <1>1, <2>1, <2>2, <2>3, <2>4
<1>5. CASE TaskFailure(w)
  BY <1>1, <1>5, Finished DEF TaskFailure, TaskFail
<1> QED BY <1>2, <1>3, <1>4, <1>5, SoloActions DEF TaskAction

\* A merge still knows the status when it writes it.
LEMMA MergeKnowsNext ==
  ASSUME Base, SoloInv, NEW w \in Workers, ServiceAction(w)
  PROVE  MergeKnows(w)'
<1>1. CASE at[w] = "idle" /\ SerialStep(w)
  <2>1. Basics /\ WorkerStep(w) /\ MergeKnows(w)
    BY <1>1, SoloSerial DEF SoloInv, SerialInv, SerialStep, WorkerStep
  <2>2. CASE pc'[w] = "reviewers"
    BY <2>1, <2>2, Sources
       DEF MergeKnows, ReadHeader, Answer, Continue, tables, Basics, TypeOK,
           LocalsTypeOK
  <2>3. CASE pc'[w] = "setstatus"
    <3>1. ReadReviewers(w) /\ pc'[w] # "idle"
      BY <2>1, <2>3, Sources
    <3>2. /\ req[w].op = "merge" /\ pr[w].status # "MERGED"
          /\ req'[w] = req[w] /\ UNCHANGED status
      BY <2>1, <2>3, <3>1
         DEF ReadReviewers, IsMerged, Answer, Continue, tables, Basics, TypeOK,
             LocalsTypeOK
    <3>3. status[req[w].pr] \in Statuses
      BY <2>1, <3>1, RequestOf
         DEF ReadReviewers, Basics, TypeOK, StoreTypeOK
    <3> QED
      BY <2>1, <2>3, <3>1, <3>2, <3>3 DEF ReadReviewers, MergeKnows, Statuses
  <2> QED BY <2>2, <2>3 DEF MergeKnows
<1>2. CASE TaskAction(w)
  <2>1. pc[w] = "idle" /\ UNCHANGED locals
    BY <1>2, TaskActionFacts
  <2> QED BY <2>1 DEF MergeKnows, locals
<1> QED BY <1>1, <1>2, SoloActions

\* SoloInv holds at the start,
LEMMA SoloInvInit == ServiceInit => SoloInv
<1> SUFFICES ASSUME ServiceInit PROVE SoloInv
  OBVIOUS
<1>1. Init /\ TeamsInit
  BY DEF ServiceInit
<1>2. SerialRows
  BY <1>1, SerialInvInit DEF SerialInv, SerialRows, Init, StoreInit
<1>3. ASSUME NEW w \in Workers
      PROVE  /\ OneAtATime(w) /\ MergeKnows(w) /\ StillSo(w)
             /\ Loop(w) /\ Relieving(w)
  BY <1>1
     DEF Init, MergeKnows, TeamsInit, NoTask, OneAtATime, StillSo, Loop, Relieving,
         JobLabels, LoopLabels, WorkLabels, ListLabels, PickLabels,
         DeactivateLabels
<1> QED BY <1>2, <1>3 DEF SoloInv

\* and every step keeps it.
LEMMA SoloInvNext ==
  Base /\ Base' /\ SoloInv /\ [ServiceNext]_serviceVars => SoloInv'
<1> SUFFICES ASSUME Base, Base', SoloInv, [ServiceNext]_serviceVars
             PROVE  SoloInv'
  OBVIOUS
<1>1. CASE UNCHANGED serviceVars
  <2>1. UNCHANGED <<tables, tx, locals, teamVars>>
    BY <1>1 DEF serviceVars, vars
  <2>2. SerialRows'
    <3>1. Rows' /\ Merges' /\ BusyUntilAnswered' /\ AtMostTwoReviewers'
      BY <2>1
         DEF tables, locals, SoloInv, SerialRows, Rows, RowsConsistent,
             SoleInserter, PRPhase, PRExists, Merges, KnowsMerged, IsMerged,
             Merged, BusyUntilAnswered, AtMostTwoReviewers
    <3>2. ASSUME NEW w \in Workers PROVE CreateKnows(w)' /\ ReassignKnows(w)'
      <4>1. Substitutes(w)' = Substitutes(w)
        BY <2>1 DEF tables, locals, Substitutes, GetActiveUsersByTeam
      <4>2. CreateKnows(w) /\ ReassignKnows(w)
        BY DEF SoloInv, SerialRows, Informed
      <4>3. CreateKnows(w)'
        BY <2>1, <4>2
           DEF tables, locals, CreateKnows, UserExists, GetActiveUsersByTeam,
               ReviewerChoices
      <4>4. ReassignKnows(w)'
        BY <2>1, <4>1, <4>2 DEF tables, locals, ReassignKnows
      <4> QED BY <4>3, <4>4
    <3>3. (\A p \in PRs : mergedAt[p] # None => status[p] = "MERGED")'
      BY <2>1 DEF tables, SoloInv, SerialRows
    <3> QED BY <3>1, <3>2, <3>3 DEF SerialRows, Informed
  <2>3. ASSUME NEW w \in Workers
        PROVE  OneAtATime(w)' /\ MergeKnows(w)' /\ StillSo(w)'
    BY <2>1
       DEF MergeKnows, tables, locals, teamVars, taskLocals, SoloInv, OneAtATime, StillSo,
           UserExists
  <2>4. ASSUME NEW w \in Workers PROVE Loop(w)'
    BY <2>1
       DEF tables, teamVars, taskLocals, SoloInv, Loop, ActiveMembers,
           GetOpenPullRequestsByReviewers, PRExists
  <2>5. ASSUME NEW w \in Workers PROVE Relieving(w)'
    <3>1. /\ Leaving(w)' = Leaving(w) /\ Available(w)' = Available(w)
          /\ Near(w)' = Near(w) /\ Found(w)' = Found(w)
      BY <2>1 DEF tables, teamVars, taskLocals, Leaving, Available, Near, Found
    <3> QED
      BY <2>1, <3>1
         DEF tables, teamVars, taskLocals, SoloInv, Relieving, Substituting
  <2> QED BY <2>2, <2>3, <2>4, <2>5 DEF SoloInv
<1>2. ASSUME NEW w \in Workers, ServiceAction(w) PROVE SoloInv'
  <2>1. SerialRows'
    BY <1>2, SoloActions, PRKeepsRows, TaskKeepsRows DEF SoloInv
  <2>2. /\ OneAtATime(w)' /\ MergeKnows(w)' /\ StillSo(w)'
        /\ Loop(w)' /\ Relieving(w)'
    BY <1>2, OneAtATimeNext, MergeKnowsNext, StillSoNext, LoopNext DEF SoloInv
  <2>3. \A v \in Workers : v = w
    BY DEF Base
  <2> QED BY <2>1, <2>2, <2>3 DEF SoloInv
<1> QED BY <1>1, <1>2 DEF ServiceNext, ServiceAction

\* A service with one worker is at any time in a state SoloInv describes.
THEOREM SoloInductive ==
  ASSUME Workers = {Only}
  PROVE  ServiceSpec => [](Base /\ SoloInv)
<1>1. \A v, w \in Workers : v = w
  OBVIOUS
<1>2. ServiceSpec => [](ServiceTyped /\ ServiceRows /\ References /\ Answers
                        /\ Creators)
  BY ServiceTypedInit, ServiceTypedNext, ServiceRowsInit, ServiceRowsNext,
     ReferencesInit, ReferencesNext, AnswersInit, AnswersNext, TeamsOnceInit,
     CreatorsNext, PTL
     DEF ServiceSpec
<1> QED
  BY <1>1, <1>2, SoloInvInit, SoloInvNext, PTL DEF ServiceSpec, Base

-----------------------------------------------------------------------------
(***************************************************************************)
(* What it is for: the promises that hold of requests that do not overlap. *)
(***************************************************************************)

\* So a service with one worker never assigns more than two reviewers,
\* whatever teams it deactivates and whichever statements fail.
THEOREM SoloTwoReviewersAtMost ==
  ASSUME Workers = {Only} PROVE ServiceSpec => []AtMostTwoReviewers
<1>1. SoloInv => AtMostTwoReviewers
  BY DEF SoloInv, SerialRows
<1> QED BY <1>1, SoloInductive, PTL

\* What a step does to a pull request.
LEMMA SoloAssigns ==
  ASSUME Base, SoloInv, [ServiceNext]_serviceVars, NEW p \in PRs
  PROVE  \A u \in reviewers'[p] \ reviewers[p] : active[u]
<1>1. reviewers \in [PRs -> SUBSET Users]
  BY DEF Base, ServiceTyped, ServiceTypeOK, TypeOK, StoreTypeOK
<1>2. CASE UNCHANGED serviceVars
  BY <1>2 DEF serviceVars, vars, tables
<1>3. ASSUME NEW w \in Workers, ServiceAction(w)
      PROVE  \A u \in reviewers'[p] \ reviewers[p] : active[u]
  <2>1. CASE at[w] = "idle" /\ SerialStep(w)
    <3>1. SerialInv /\ [SerialNext]_vars
      BY <2>1, SoloSerial DEF SoloInv, SerialNext, SerialStep
    <3> QED BY <3>1, WhoIsAssigned
  <2>2. CASE TaskAction(w)
    <3>1. reviewers' = reviewers \/ CommitReplacements(w)
      BY <2>2, TaskActionFacts
    <3>2. CASE CommitReplacements(w)
      <4>1. /\ job[w].pr \in PRs /\ Substituting(w)
            /\ reviewers' = [reviewers EXCEPT ![job[w].pr] =
                               (@ \ Leaving(w)) \cup Found(w)]
        BY <3>2, Relieved
      <4>2. \A u \in Found(w) : active[u]
        BY <4>1 DEF Substituting, Available
      <4> QED BY <1>1, <4>1, <4>2
    <3> QED BY <3>1, <3>2
  <2> QED BY <1>3, <2>1, <2>2, SoloActions
<1> QED BY <1>2, <1>3 DEF ServiceNext, ServiceAction

\* It assigns only who is active, ...
THEOREM SoloActiveAssigned ==
  ASSUME Workers = {Only} PROVE ServiceSpec => OnlyActiveAssigned
<1>1. Base /\ SoloInv /\ [ServiceNext]_serviceVars =>
        [\A p \in PRs : \A u \in reviewers'[p] \ reviewers[p] : active[u]]_vars
  BY SoloAssigns
<1> QED BY <1>1, SoloInductive, PTL DEF ServiceSpec, OnlyActiveAssigned

\* ... and a repeated merge never overwrites the time of the first.
THEOREM SoloMergesOnce ==
  ASSUME Workers = {Only} PROVE ServiceSpec => MergedAtOnce
<1>1. ASSUME Base, SoloInv, NEW w \in Workers, SetMerged(w)
      PROVE  mergedAt[req[w].pr] = None
  <2>1. status[req[w].pr] = "OPEN"
    BY <1>1 DEF SetMerged, SoloInv, MergeKnows
  <2>2. req[w].pr \in PRs
    <3>1. pc[w] = "setstatus" /\ at[w] = "idle"
      BY <1>1 DEF SetMerged, Base, ServiceTyped, TasksOK, TaskPhase
    <3>2. Basics
      BY <1>1, <3>1, SoloSerial DEF SoloInv, SerialInv
    <3> QED BY <3>1, <3>2, RequestOf
  <2> QED BY <1>1, <2>1, <2>2 DEF SoloInv, SerialRows
<1>2. Base /\ SoloInv =>
        [\A w \in Workers : SetMerged(w) => mergedAt[req[w].pr] = None]_vars
  BY <1>1
<1> QED BY <1>2, SoloInductive, PTL DEF ServiceSpec, MergedAtOnce

-----------------------------------------------------------------------------
(***************************************************************************)
(* The refinement: every statement is one step of TeamBoard, or none.      *)
(***************************************************************************)

\* Both modules count alike.
LEMMA CountsAlike ==
  ASSUME NEW S PROVE Teamwork!Cardinality(S) = Cardinality(S)
BY Zenon DEF Teamwork!Cardinality, Cardinality

\* A request in work is one that waits, of the endpoint of its statement, and
\* an idle worker has none.
LEMMA WaitsAtTeamwork ==
  ASSUME Base, SoloInv, Only \in Workers
  PROVE  /\ at[Only] # "idle" =>
              /\ answer[Only] = "none" /\ ~Teamwork!Idle
              /\ \A op : Teamwork!Waiting(op) <=> task[Only].op = op
         /\ at[Only] = "idle" => Teamwork!Idle
         /\ at[Only] \in AddLabels => Teamwork!Waiting("teamAdd")
         /\ at[Only] \in DeactivateLabels => Teamwork!Waiting("teamDeactivate")
         /\ at[Only] \in {"found", "listed"} => Teamwork!Waiting("teamGet")
         /\ at[Only] \in {"setflag", "readback"} =>
              Teamwork!Waiting("setIsActive")
         /\ at[Only] \in {"user", "reviews"} => Teamwork!Waiting("getReview")
         /\ at[Only] = "stats" => Teamwork!Waiting("stats")
<1>1. /\ InUseCase(Only) /\ ServiceTyped
      /\ at[Only] # "idle" => answer[Only] = "none"
  BY AnswersParts DEF Base, Answers, ServiceTyped, TasksOK, TaskPhase
<1>2. at[Only] # "idle" => task[Only].op # "none"
  BY <1>1 DEF InUseCase, LabelsOf
<1>3. at[Only] = "idle" => Teamwork!Idle
  BY DEF SoloInv, OneAtATime, Teamwork!Idle
<1>4. CASE at[Only] = "idle"
  BY <1>3, <1>4 DEF AddLabels, DeactivateLabels, PickLabels
<1>5. CASE at[Only] # "idle"
  BY <1>1, <1>2, <1>5, EndpointOf DEF Teamwork!Idle, Teamwork!Waiting
<1> QED BY <1>4, <1>5

\* An answer tells the board,
LEMMA FinishTells ==
  ASSUME Base, Only \in Workers, NEW code, Finish(Only, code)
  PROVE  Teamwork!Tell(code)
<1>1. /\ at'[Only] = "idle" /\ answer'[Only] = code
      /\ task'[Only] = [task[Only] EXCEPT !.members = {}, !.on = {}]
      /\ job'[Only] = NoJob
  BY Finished
<1>2. job'[Only].skipped = {}
  BY <1>1 DEF NoJob
<1> QED BY <1>1, <1>2 DEF Teamwork!Tell

\* reports what was done,
LEMMA WrittenReports ==
  ASSUME Base, Only \in Workers, NEW code, FinishWritten(Only, code)
  PROVE  Teamwork!Report(code)
BY FinishTells DEF FinishWritten, Teamwork!Report

\* or refuses,
LEMMA FinishRefuses ==
  ASSUME Base, Only \in Workers, NEW code, Finish(Only, code),
         UNCHANGED <<tables, teams>>
  PROVE  Teamwork!Refuse(code)
BY FinishTells
   DEF Teamwork!Refuse, Teamwork!users, Teamwork!board, tables

\* perhaps because of an error.
LEMMA ErrorGivesUp ==
  ASSUME Base, SoloInv, Only \in Workers, at[Only] # "idle",
         Finish(Only, "ERROR"), UNCHANGED <<tables, teams>>
  PROVE  Teamwork!GiveUp
BY FinishRefuses, WaitsAtTeamwork DEF Teamwork!GiveUp

\* A statement between is no step of the board.
LEMMA ProceedStutters ==
  ASSUME Base, Only \in Workers, NEW label, Proceed(Only, label),
         at[Only] # "members", label # "members",
         (job[Only].skipped \ {job[Only].pr})' =
           job[Only].skipped \ {job[Only].pr},
         UNCHANGED <<tables, teams>>
  PROVE  UNCHANGED Teamwork!vars
<1>1. at'[Only] = label /\ UNCHANGED <<task, answer>>
  BY Going
<1> QED
  BY <1>1 DEF Teamwork!vars, Teamwork!users, Teamwork!board, tables

\* Outside of the loops nothing is left over.
LEMMA NothingShort ==
  ASSUME Base, SoloInv, Only \in Workers
  PROVE  /\ at[Only] \notin JobLabels =>
              job[Only] = NoJob /\ job[Only].skipped \ {job[Only].pr} = {}
         /\ at[Only] = "members" =>
              job[Only].skipped = {} /\ job[Only].pr = None
<1>1. OneAtATime(Only)
  BY DEF SoloInv
<1> QED BY <1>1 DEF OneAtATime, NoJob

\* The pull request endpoints,
LEMMA OthersMap ==
  ASSUME Base, SoloInv, Only \in Workers, at[Only] = "idle",
         ReceivePR(Only) \/ PRStep(Only)
  PROVE  Teamwork!Others
<1>1. UNCHANGED userTable
  BY Writers DEF ReceivePR, PRStep, WorkerStep
<1>2. /\ at'[Only] = "idle" /\ job'[Only] = job[Only] /\ UNCHANGED teams
      /\ task'[Only].op = "none" /\ answer'[Only] = "none"
  BY PRTasks DEF NoTask, teamVars, taskLocals, SoloInv, OneAtATime
<1>3. Teamwork!Idle
  BY WaitsAtTeamwork
<1> QED
  BY <1>1, <1>2, <1>3 DEF Teamwork!Others, Teamwork!users, userTable

\* the arrival of a request,
LEMMA ArrivalMaps ==
  ASSUME Base, SoloInv, Only \in Workers, ReceiveTask(Only)
  PROVE  Teamwork!Ask
<1>1. at[Only] = "idle" /\ UNCHANGED <<job, tables, teams>>
  BY DEF ReceiveTask, KeepTables
<1>2. PICK r \in TaskRequests :
           /\ task'[Only] = r
           /\ Refused(r) => at'[Only] = "idle" /\ answer'[Only] =
                IF r.op = "malformed" THEN "BAD_REQUEST" ELSE "NO_CANDIDATE"
           /\ ~Refused(r) =>
                /\ at'[Only] = FirstLabel[r.op] /\ answer'[Only] = "none"
                /\ at'[Only] \in {"team", "exists", "found", "setflag", "user",
                               "stats"}
  BY Arriving
<1>3. at'[Only] # "members" /\ Teamwork!Idle
  BY <1>1, <1>2, WaitsAtTeamwork
<1>4. /\ answer'[Only] \in {"none", "BAD_REQUEST", "NO_CANDIDATE"}
      /\ answer'[Only] = "BAD_REQUEST" <=> task'[Only].op = "malformed"
      /\ answer'[Only] = "NO_CANDIDATE" =>
           task'[Only].op = "teamDeactivate" /\ task'[Only].strategy = "invalid"
  BY <1>2 DEF Refused, TaskRequests
<1> QED
  BY <1>1, <1>3, <1>4
     DEF Teamwork!Ask, Teamwork!users, Teamwork!board, tables

\* the statements of CreateTeam,
LEMMA AddingMaps ==
  ASSUME Base, SoloInv, Only \in Workers, AddStep(Only)
  PROVE  \/ Teamwork!TeamExists \/ Teamwork!Register
         \/ (\E u \in job[Only].list : Teamwork!Enroll(u))
            /\ at[Only] = "members"
         \/ Teamwork!GiveUp \/ UNCHANGED Teamwork!vars
<1>1. at[Only] \in AddLabels /\ at[Only] # "idle"
  BY DEF AddStep, CheckTeam, InsertTeam, CommitTeam, UpsertMember, AddLabels
<1>2. /\ Teamwork!Waiting("teamAdd") /\ task[Only].team \in Teams
      /\ task[Only].members \subseteq Users
  BY <1>1, WaitsAtTeamwork, JobFacts DEF Base, ServiceTyped, TasksOK, TaskPhase
<1>3. CASE CheckTeam(Only) \/ InsertTeam(Only)
  <2>1. at[Only] # "members" /\ UNCHANGED <<tables, teams>>
    BY <1>3 DEF CheckTeam, InsertTeam, KeepTables
  <2>2. CASE Finish(Only, "TEAM_EXISTS") /\ task[Only].team \in teams
    BY <1>2, <2>1, <2>2, FinishRefuses DEF Teamwork!TeamExists
  <2>3. CASE Finish(Only, "ERROR")
    BY <1>1, <2>1, <2>3, ErrorGivesUp
  <2>4. ASSUME NEW label \in {"insertteam", "committeam"},
               Proceed(Only, label), UNCHANGED job
        PROVE  UNCHANGED Teamwork!vars
    BY <2>1, <2>4, ProceedStutters
  <2> QED BY <1>3, <2>2, <2>3, <2>4 DEF CheckTeam, InsertTeam
<1>4. CASE CommitTeam(Only)
  <2>1. at[Only] = "committeam" /\ task[Only].team \notin teams
    BY <1>2, <1>4 DEF CommitTeam, Base, Creators, Adds
  <2>2. /\ teams' = teams \cup {task[Only].team} /\ UNCHANGED tables
        /\ job[Only].skipped \ {job[Only].pr} = {}
    BY <1>4, <2>1, NothingShort DEF CommitTeam, JobLabels, WorkLabels, PickLabels
  <2>3. CASE task[Only].members = {} /\ FinishWritten(Only, "OK")
    BY <1>2, <2>1, <2>2, <2>3, WrittenReports
       DEF Teamwork!Register, Teamwork!users, Teamwork!board, tables
  <2>4. CASE Finish(Only, "ERROR")
    BY <1>2, <2>1, <2>2, <2>4, FinishTells
       DEF Teamwork!Register, Teamwork!users, Teamwork!board, tables
  <2>5. CASE /\ task[Only].members # {}
             /\ SetJob(Only, [job[Only] EXCEPT !.list = task[Only].members])
             /\ Proceed(Only, "members")
    <3>1. /\ at'[Only] = "members" /\ UNCHANGED <<task, answer>>
          /\ job'[Only] = [job[Only] EXCEPT !.list = task[Only].members]
      BY <2>5, Going
    <3>2. /\ job'[Only].list = task[Only].members
          /\ job'[Only].skipped = job[Only].skipped
          /\ job'[Only].pr = job[Only].pr
      BY <3>1, JobTypes DEF Jobs
    <3> QED
      BY <1>2, <2>1, <2>2, <2>5, <3>1, <3>2
         DEF Teamwork!Register, Teamwork!users, Teamwork!board, tables
  <2> QED BY <1>4, <2>3, <2>4, <2>5 DEF CommitTeam
<1>5. CASE UpsertMember(Only)
  <2>1. at[Only] = "members" /\ UNCHANGED teams
    BY <1>5 DEF UpsertMember
  <2>2. PICK u \in job[Only].list :
          /\ CreateOrUpdateUser(u, task[Only].team, u \in task[Only].on)
          /\ \/ job[Only].list = {u} /\ FinishWritten(Only, "OK")
             \/ /\ job[Only].list # {u}
                /\ SetJob(Only, [job[Only] EXCEPT !.list = @ \ {u}])
                /\ Proceed(Only, "members")
             \/ Finish(Only, "ERROR")
    BY <1>5 DEF UpsertMember
  <2>3. /\ team' = [team EXCEPT ![u] = task[Only].team]
        /\ active' = [active EXCEPT ![u] = u \in task[Only].on]
        /\ UNCHANGED <<author, status, reviewers>>
    BY <2>2 DEF CreateOrUpdateUser, prTables
  <2>4. CASE /\ job[Only].list # {u}
             /\ SetJob(Only, [job[Only] EXCEPT !.list = @ \ {u}])
             /\ Proceed(Only, "members")
    <3>1. /\ at'[Only] = "members" /\ UNCHANGED <<task, answer>>
          /\ job'[Only] = [job[Only] EXCEPT !.list = @ \ {u}]
      BY <2>4, Going
    <3>2. /\ job'[Only].list = job[Only].list \ {u}
          /\ job'[Only].skipped = job[Only].skipped
          /\ job'[Only].pr = job[Only].pr
      BY <3>1, JobTypes DEF Jobs
    <3>3. Teamwork!Enroll(u)
      BY <1>2, <2>1, <2>2, <2>3, <2>4, <3>1, <3>2
         DEF Teamwork!Enroll, Teamwork!board
    <3> QED BY <2>1, <3>3
  <2>5. CASE job[Only].list = {u} /\ FinishWritten(Only, "OK")
    <3>1. Teamwork!Enroll(u)
      BY <1>2, <2>1, <2>2, <2>3, <2>5, WrittenReports
         DEF Teamwork!Enroll, Teamwork!board
    <3> QED BY <2>1, <3>1
  <2>6. CASE Finish(Only, "ERROR")
    <3>1. Teamwork!Enroll(u)
      BY <1>2, <2>1, <2>2, <2>3, <2>6, FinishTells
         DEF Teamwork!Enroll, Teamwork!board
    <3> QED BY <2>1, <3>1
  <2> QED BY <2>2, <2>4, <2>5, <2>6
<1> QED BY <1>3, <1>4, <1>5 DEF AddStep

\* those of GetTeam and the user endpoints,
LEMMA UserMaps ==
  ASSUME Base, SoloInv, Only \in Workers,
         FindTeam(Only) \/ ListMembers(Only) \/ UserStep(Only)
  PROVE  \/ Teamwork!NotFound \/ Teamwork!Look \/ Teamwork!Flag
         \/ Teamwork!Confirm \/ UNCHANGED Teamwork!vars
<1>1. /\ at[Only] \in {"found", "listed", "setflag", "readback", "user",
                       "reviews", "stats"}
      /\ UNCHANGED teams /\ StillSo(Only)
  BY DEF FindTeam, ListMembers, UserStep, SetFlag, ReadBack, FindUser,
         ListReviews, CountReviews, KeepTables, SoloInv
<1>2. job[Only].skipped \ {job[Only].pr} = {}
  BY <1>1, NothingShort DEF JobLabels, WorkLabels, PickLabels
<1>3. ASSUME NEW label \in {"listed", "reviews"}, Proceed(Only, label),
             UNCHANGED job, UNCHANGED tables
      PROVE  UNCHANGED Teamwork!vars
  BY <1>1, <1>3, ProceedStutters
<1>4. CASE FindTeam(Only) \/ ListMembers(Only) \/ CountReviews(Only)
  <2>1. UNCHANGED tables
    BY <1>4 DEF FindTeam, ListMembers, CountReviews, KeepTables
  <2>2. CASE FindTeam(Only)
    BY <1>1, <1>3, <2>1, <2>2, FinishRefuses, WaitsAtTeamwork
       DEF FindTeam, Teamwork!NotFound
  <2>3. CASE ListMembers(Only)
    <3>1. task[Only].team \in teams /\ at[Only] = "listed"
      BY <1>1, <2>3 DEF ListMembers, StillSo
    <3> QED
      BY <1>1, <2>1, <2>3, <3>1, FinishRefuses, WaitsAtTeamwork
         DEF ListMembers, Teamwork!Look
  <2>4. CASE CountReviews(Only)
    BY <1>1, <2>1, <2>4, FinishRefuses, WaitsAtTeamwork
       DEF CountReviews, Teamwork!Look
  <2> QED BY <1>4, <2>2, <2>3, <2>4
<1>5. CASE FindUser(Only)
  <2>1. PICK u \in Users : task[Only].members = {u}
    BY <1>1, <1>5 DEF FindUser, StillSo
  <2>2. /\ UNCHANGED tables /\ at[Only] = "user"
        /\ \/ team[u] = None /\ Finish(Only, "NOT_FOUND")
           \/ Proceed(Only, "reviews") /\ UNCHANGED job
    BY <1>5, <2>1 DEF FindUser, KeepTables, UserExists
  <2>3. CASE team[u] = None /\ Finish(Only, "NOT_FOUND")
    <3>1. Teamwork!Waiting("getReview") /\ Teamwork!Refuse("NOT_FOUND")
      BY <1>1, <2>2, <2>3, FinishRefuses, WaitsAtTeamwork
    <3> QED BY <2>1, <2>3, <3>1 DEF Teamwork!NotFound
  <2> QED BY <1>3, <2>2, <2>3
<1>6. CASE ListReviews(Only)
  <2>1. /\ at[Only] = "reviews" /\ Finish(Only, "OK")
        /\ UNCHANGED <<tables, teams>>
    BY <1>6 DEF ListReviews, KeepTables
  <2>2. \A u \in task[Only].members : team[u] # None
    BY <1>1, <2>1 DEF StillSo, UserExists
  <2>3. Teamwork!Waiting("getReview") /\ Teamwork!Refuse("OK")
    BY <2>1, FinishRefuses, WaitsAtTeamwork
  <2> QED BY <2>2, <2>3 DEF Teamwork!Look
<1>7. CASE ReadBack(Only)
  <2>1. at[Only] = "readback" /\ UNCHANGED <<tables, teams>>
    BY <1>7 DEF ReadBack, KeepTables
  <2>2. \A u \in task[Only].members :
          team[u] # None /\ active[u] = (u \in task[Only].on)
    BY <1>1, <2>1 DEF StillSo, UserExists
  <2>3. Finish(Only, "OK")
    BY <1>7, <2>2 DEF ReadBack, UserExists
  <2>4. Teamwork!Waiting("setIsActive") /\ Teamwork!Refuse("OK")
    BY <2>1, <2>3, FinishRefuses, WaitsAtTeamwork
  <2> QED BY <2>2, <2>4 DEF Teamwork!Confirm
<1>8. CASE SetFlag(Only)
  <2>1. PICK u \in Users : task[Only].members = {u}
    BY <1>1, <1>8 DEF SetFlag, StillSo
  <2>2. /\ at[Only] = "setflag" /\ Teamwork!Waiting("setIsActive")
    BY <1>1, <1>8, WaitsAtTeamwork DEF SetFlag
  <2>3. \/ /\ UpdateUserIsActive(u, u \in task[Only].on)
           /\ \/ Proceed(Only, "readback") /\ UNCHANGED job
              \/ Finish(Only, "ERROR")
        \/ /\ team[u] = None /\ Finish(Only, "NOT_FOUND") /\ UNCHANGED tables
    BY <1>8, <2>1 DEF SetFlag, UserExists
  <2>4. CASE team[u] = None /\ Finish(Only, "NOT_FOUND") /\ UNCHANGED tables
    <3>1. Teamwork!Refuse("NOT_FOUND")
      BY <1>1, <2>4, FinishRefuses
    <3> QED BY <2>1, <2>2, <2>4, <3>1 DEF Teamwork!NotFound
  <2>5. CASE UpdateUserIsActive(u, u \in task[Only].on)
    <3>1. /\ team[u] # None /\ u \in task[Only].members
          /\ active' = [active EXCEPT ![u] = u \in task[Only].on]
          /\ UNCHANGED <<teams, team, author, status, reviewers>>
      BY <1>1, <2>1, <2>5 DEF UpdateUserIsActive, UserExists, prTables
    <3>2. CASE Proceed(Only, "readback") /\ UNCHANGED job
      <4>1. at'[Only] = "readback" /\ UNCHANGED <<task, answer>>
        BY <3>2, Going
      <4> QED
        BY <2>2, <3>1, <3>2, <4>1 DEF Teamwork!Flag, Teamwork!board
    <3>3. CASE Finish(Only, "ERROR")
      <4>1. Teamwork!Tell("ERROR")
        BY <3>3, FinishTells
      <4> QED BY <2>2, <3>1, <4>1 DEF Teamwork!Flag, Teamwork!board
    <3>4. \/ Proceed(Only, "readback") /\ UNCHANGED job
          \/ Finish(Only, "ERROR")
      <4>1. team[u] # None
        BY <3>1
      <4> QED BY <2>3, <4>1
    <3> QED BY <3>2, <3>3, <3>4
  <2> QED BY <2>3, <2>4, <2>5
<1> QED
  BY <1>4, <1>5, <1>6, <1>7, <1>8 DEF UserStep

\* those with which a deactivation reads,
LEMMA ReadingMaps ==
  ASSUME Base, SoloInv, Only \in Workers,
         \/ TeamExists(Only) \/ ReadTargets(Only) \/ ReadAffected(Only)
         \/ ReadNextPR(Only) \/ ReadCurrent(Only) \/ IssueDeactivation(Only)
  PROVE  Teamwork!NotFound \/ UNCHANGED Teamwork!vars
<1>1. /\ at[Only] \in {"exists", "targets", "affected", "nextpr", "current"}
      /\ UNCHANGED <<tables, teams>>
  BY DEF TeamExists, ReadTargets, ReadAffected, ReadNextPR, ReadCurrent,
         IssueDeactivation, KeepTables
<1>2. /\ OneAtATime(Only) /\ StillSo(Only) /\ Loop(Only) /\ Relieving(Only)
      /\ Teamwork!Waiting("teamDeactivate")
  BY <1>1, WaitsAtTeamwork DEF SoloInv, DeactivateLabels
<1>3. ASSUME NEW label, Proceed(Only, label), label # "members",
             NEW j, SetJob(Only, j),
             j.skipped \ {j.pr} = job[Only].skipped \ {job[Only].pr}
      PROVE  UNCHANGED Teamwork!vars
  BY <1>1, <1>3, Going, ProceedStutters
<1>4. job[Only] \in Jobs /\ job[Only].skipped \in SUBSET PRs
  BY JobTypes
<1>5. CASE TeamExists(Only) \/ ReadTargets(Only)
  <2>1. CASE Finish(Only, "NOT_FOUND")
    <3>1. task[Only].team \notin teams \/ ActiveMembers(task[Only].team) = {}
      <4>1. at'[Only] = "idle"
        BY <2>1, Finished
      <4>2. ~Proceed(Only, "targets") /\ ~Proceed(Only, "affected")
        BY <4>1, Going
      <4> QED BY <1>5, <4>2 DEF TeamExists, ReadTargets
    <3>2. Teamwork!Members = ActiveMembers(task[Only].team)
      BY DEF Teamwork!Members, ActiveMembers
    <3> QED
      BY <1>1, <1>2, <2>1, <3>1, <3>2, FinishRefuses DEF Teamwork!NotFound
  <2>2. CASE Proceed(Only, "targets") /\ UNCHANGED job
    BY <1>1, <2>2, ProceedStutters
  <2>3. ASSUME NEW T, Proceed(Only, "affected"),
               SetJob(Only, [job[Only] EXCEPT !.targets = T])
        PROVE  UNCHANGED Teamwork!vars
    <3>1. /\ [job[Only] EXCEPT !.targets = T].skipped = job[Only].skipped
          /\ [job[Only] EXCEPT !.targets = T].pr = job[Only].pr
      BY <1>4 DEF Jobs
    <3> QED BY <1>3, <2>3, <3>1
  <2> QED BY <1>5, <2>1, <2>2, <2>3 DEF TeamExists, ReadTargets
<1>6. CASE ReadAffected(Only)
  <2> DEFINE j == [job[Only] EXCEPT
                     !.prs = GetOpenPullRequestsByReviewers(job[Only].targets)]
  <2>1. j.skipped = job[Only].skipped /\ j.pr = job[Only].pr
    BY <1>4 DEF Jobs
  <2>2. SetJob(Only, j) /\ Proceed(Only, "nextpr")
    BY <1>6 DEF ReadAffected
  <2> HIDE DEF j
  <2> QED BY <1>3, <2>1, <2>2
<1>7. CASE ReadNextPR(Only)
  <2>1. PICK p \in job[Only].prs :
          SetJob(Only, [job[Only] EXCEPT !.prs = @ \ {p}, !.pr = p,
                                         !.author = author[p],
                                         !.status = status[p]])
    BY <1>7 DEF ReadNextPR
  <2> DEFINE j == [job[Only] EXCEPT !.prs = @ \ {p}, !.pr = p,
                                    !.author = author[p], !.status = status[p]]
  <2>2. j.skipped = job[Only].skipped /\ j.pr = p
    BY <1>4 DEF Jobs
  <2>3. p \notin job[Only].skipped /\ job[Only].pr = None /\ None \notin PRs
    BY <1>2, <1>7, StoreAssumption DEF ReadNextPR, Loop, LoopLabels
  <2>4. SetJob(Only, j) /\ Proceed(Only, "current")
    BY <1>7, <2>1 DEF ReadNextPR
  <2>5. j.skipped \ {j.pr} = job[Only].skipped \ {job[Only].pr}
    BY <1>4, <2>2, <2>3
  <2> HIDE DEF j
  <2> QED BY <1>3, <2>4, <2>5
<1>8. CASE ReadCurrent(Only)
  <2> DEFINE now  == reviewers[job[Only].pr]
             gone == now \cap job[Only].targets
             j == [job[Only] EXCEPT !.old = now, !.list = Kept(Only, now),
                                    !.owed = Cardinality(gone)]
             label == IF gone = {} THEN "delete" ELSE FirstPick(Only)
  <2>1. job[Only].status = "OPEN"
    BY <1>2, <1>8 DEF ReadCurrent, Loop, WorkLabels
  <2>2. SetJob(Only, j) /\ Proceed(Only, label)
    BY <1>8, <2>1 DEF ReadCurrent, IsOpen
  <2>3. j.skipped = job[Only].skipped /\ j.pr = job[Only].pr
    BY <1>4 DEF Jobs
  <2>4. label # "members"
    BY FirstPickLabel DEF PickLabels
  <2> HIDE DEF j, label
  <2> QED BY <1>3, <2>2, <2>3, <2>4
<1>9. CASE IssueDeactivation(Only)
  <2> DEFINE j == [job[Only] EXCEPT !.list = ActiveMembers(task[Only].team)]
  <2>1. j.skipped = job[Only].skipped /\ j.pr = job[Only].pr
    BY <1>4 DEF Jobs
  <2>2. SetJob(Only, j) /\ Proceed(Only, "switchoff")
    BY <1>9 DEF IssueDeactivation
  <2> HIDE DEF j
  <2> QED BY <1>3, <2>1, <2>2
<1> QED BY <1>5, <1>6, <1>7, <1>8, <1>9

\* looks for substitutes
LEMMA PickingMaps ==
  ASSUME Base, SoloInv, Only \in Workers, PickStep(Only)
  PROVE  UNCHANGED Teamwork!vars
<1>1. at[Only] \in PickLabels /\ KeepTables
  BY DEF PickStep, PickFromTeam, ReadAuthorTeam, PickFromAuthorTeam,
         PickFromAll, PickLabels
<1>2. UNCHANGED <<tables, teams>> /\ at[Only] # "members"
  BY <1>1 DEF KeepTables, PickLabels
<1>3. job[Only] \in Jobs
  BY JobTypes
<1>4. ASSUME NEW label \in {"author", "authorteam", "everyone"},
             Proceed(Only, label), UNCHANGED job
      PROVE  UNCHANGED Teamwork!vars
  BY <1>2, <1>4, ProceedStutters
<1>5. ASSUME NEW F, NEW S \in {{}, {job[Only].pr}}, Settle(Only, F, S)
      PROVE  UNCHANGED Teamwork!vars
  <2> DEFINE j == [job[Only] EXCEPT !.list = @ \cup F, !.owed = @ - 1,
                                    !.skipped = @ \cup S]
             label == IF job[Only].owed = 1 THEN "delete" ELSE FirstPick(Only)
  <2>1. SetJob(Only, j) /\ Proceed(Only, label)
    BY <1>5 DEF Settle
  <2>2. j.skipped = job[Only].skipped \cup S /\ j.pr = job[Only].pr
    BY <1>3 DEF Jobs
  <2>3. label # "members"
    BY FirstPickLabel DEF PickLabels
  <2> HIDE DEF j, label
  <2>4. job'[Only] = j
    BY <2>1, Going
  <2>5. (job[Only].skipped \ {job[Only].pr})' =
          job[Only].skipped \ {job[Only].pr}
    BY <2>2, <2>4
  <2> QED BY <1>2, <2>1, <2>3, <2>5, ProceedStutters
<1>6. ASSUME NEW C, Replace(Only, C) PROVE UNCHANGED Teamwork!vars
  BY <1>5, <1>6, NoRace
<1>7. CASE ReadAuthorTeam(Only)
  <2> DEFINE j == [job[Only] EXCEPT !.cache[job[Only].author] =
                                      team[job[Only].author]]
  <2>1. SetJob(Only, j) /\ Proceed(Only, "authorteam")
    BY <1>7 DEF ReadAuthorTeam
  <2>2. j.skipped = job[Only].skipped /\ j.pr = job[Only].pr
    BY <1>3 DEF Jobs
  <2> HIDE DEF j
  <2>3. job'[Only] = j
    BY <2>1, Going
  <2> QED BY <1>2, <2>1, <2>2, <2>3, ProceedStutters
<1> QED
  BY <1>4, <1>5, <1>6, <1>7
     DEF PickStep, PickFromTeam, PickFromAuthorTeam, PickFromAll

\* writes the new reviewers of a pull request,
LEMMA WritingMaps ==
  ASSUME Base, SoloInv, Only \in Workers,
         DeleteCurrent(Only) \/ LockCurrent(Only) \/ InsertReplacement(Only)
  PROVE  Teamwork!GiveUp \/ UNCHANGED Teamwork!vars
<1>1. /\ at[Only] \notin {"members", "idle"} /\ UNCHANGED <<tables, teams>>
      /\ job[Only] \in Jobs
  BY JobTypes
     DEF DeleteCurrent, LockCurrent, InsertReplacement, StartDeleteReviewers,
         FinishDeleteReviewers, InsertReviewer, Rollback
<1>2. ASSUME NEW label \in {"locking", "inserting"}, Proceed(Only, label),
             UNCHANGED job
      PROVE  UNCHANGED Teamwork!vars
  BY <1>1, <1>2, ProceedStutters
<1>3. CASE InsertReplacement(Only)
  <2>1. PICK u \in job[Only].list :
          \/ /\ SetJob(Only, [job[Only] EXCEPT !.list = @ \ {u}])
             /\ Proceed(Only, "inserting")
          \/ Finish(Only, "ERROR")
    BY <1>3 DEF InsertReplacement
  <2>2. CASE Finish(Only, "ERROR")
    BY <1>1, <2>2, ErrorGivesUp
  <2>3. CASE /\ SetJob(Only, [job[Only] EXCEPT !.list = @ \ {u}])
             /\ Proceed(Only, "inserting")
    <3>1. job'[Only] = [job[Only] EXCEPT !.list = @ \ {u}]
      BY <2>3, Going
    <3>2. job'[Only].skipped = job[Only].skipped /\ job'[Only].pr = job[Only].pr
      BY <1>1, <3>1 DEF Jobs
    <3> QED BY <1>1, <2>3, <3>2, ProceedStutters
  <2> QED BY <2>1, <2>2, <2>3
<1> QED BY <1>2, <1>3 DEF DeleteCurrent, LockCurrent

\* One substitute for each who leaves, or all who could come.
LEMMA AsManyAsThereAre ==
  ASSUME NEW A \in SUBSET Users, NEW N \in SUBSET A, NEW F \in SUBSET A,
         NEW n \in Nat, NEW missing \in BOOLEAN,
         ~missing => Cardinality(F) = n,
         missing => F = A /\ Cardinality(F) < n,
         N \subseteq F \/ F \subseteq N
  PROVE  /\ Cardinality(F) = Teamwork!AtMost(n, A)
         /\ Cardinality(F \cap N) = Teamwork!AtMost(n, N)
         /\ missing <=> Cardinality(A) < n
<1>1. /\ IsFiniteSet(A) /\ IsFiniteSet(N) /\ IsFiniteSet(F)
      /\ F \cap N \in SUBSET F /\ F \cap N \in SUBSET N
  BY FS_Subset, UsersAssumption
<1>2. /\ Cardinality(A) \in Nat /\ Cardinality(F) \in Nat
      /\ Cardinality(N) \in Nat
      /\ Cardinality(F) <= Cardinality(A)
  BY <1>1, FS_CardinalityType, FS_Subset
<1>3. N \subseteq F => F \cap N = N /\ Cardinality(N) <= Cardinality(F)
  BY <1>1, FS_Subset
<1>4. F \subseteq N => F \cap N = F /\ Cardinality(F) <= Cardinality(N)
  BY <1>1, FS_Subset
<1>5. /\ Teamwork!AtMost(n, A) = IF n < Cardinality(A) THEN n ELSE Cardinality(A)
      /\ Teamwork!AtMost(n, N) = IF n < Cardinality(N) THEN n ELSE Cardinality(N)
  BY CountsAlike DEF Teamwork!AtMost
<1>6. missing => F \cap N = N /\ Cardinality(N) <= Cardinality(F)
  BY <1>1, <1>3, FS_Subset
<1>7. CASE missing
  BY <1>2, <1>5, <1>6, <1>7
<1>8. CASE ~missing
  <2>1. Cardinality(F) = n
    BY <1>8
  <2>2. CASE N \subseteq F
    BY <1>2, <1>3, <1>5, <1>8, <2>1, <2>2
  <2>3. CASE F \subseteq N
    BY <1>2, <1>4, <1>5, <1>8, <2>1, <2>3
  <2> QED BY <2>2, <2>3
<1> QED BY <1>7, <1>8

\* commits them
LEMMA RelievingMaps ==
  ASSUME Base, SoloInv, Only \in Workers, CommitReplacements(Only)
  PROVE  \E p \in PRs : Teamwork!Relieve(p)
<1> DEFINE p == job[Only].pr
           n == Cardinality(Leaving(Only))
<1>1. /\ at[Only] = "inserting" /\ p \in PRs /\ p # None
      /\ Substituting(Only) /\ job[Only].owed = 0
      /\ reviewers' = [reviewers EXCEPT ![p] =
                         (@ \ Leaving(Only)) \cup Found(Only)]
  BY Relieved, StoreAssumption
<1>2. /\ job[Only].targets = ActiveMembers(task[Only].team)
      /\ p \in GetOpenPullRequestsByReviewers(job[Only].targets)
  BY <1>1 DEF SoloInv, Loop, LoopLabels, WorkLabels
<1>3. /\ Teamwork!Members = job[Only].targets
      /\ status[p] = "OPEN" /\ Leaving(Only) # {}
      /\ Leaving(Only) = reviewers[p] \cap Teamwork!Members
  BY <1>2
     DEF Teamwork!Members, ActiveMembers, GetOpenPullRequestsByReviewers, Leaving
<1>4. /\ Leaving(Only) \in SUBSET Users
      /\ Available(Only) \in SUBSET Users /\ Near(Only) \in SUBSET Available(Only)
      /\ Found(Only) \in SUBSET Available(Only)
  BY <1>1, WorkFacts
     DEF WorkLabels, Leaving, Available, Near, Substituting
<1>5. n \in Nat /\ n > 0
  <2>1. IsFiniteSet(Leaving(Only))
    BY <1>4, FS_Subset, UsersAssumption
  <2>2. n \in Nat /\ n # 0
    BY <1>3, <2>1, FS_CardinalityType, FS_EmptySet
  <2> QED BY <2>2
<1> DEFINE missing == p \in job[Only].skipped
<1>6. /\ ~missing => Cardinality(Found(Only)) = n
      /\ missing => Found(Only) = Available(Only)
                      /\ Cardinality(Found(Only)) < n
      /\ Near(Only) \subseteq Found(Only) \/ Found(Only) \subseteq Near(Only)
  BY <1>1, <1>5 DEF Substituting
<1>7. /\ Cardinality(Found(Only)) = Teamwork!AtMost(n, Available(Only))
      /\ Cardinality(Found(Only) \cap Near(Only)) =
           Teamwork!AtMost(n, Near(Only))
      /\ missing <=> Cardinality(Available(Only)) < n
  <2> HIDE DEF n, missing
  <2>1. missing \in BOOLEAN
    BY DEF missing
  <2> QED BY <1>4, <1>5, <1>6, <2>1, AsManyAsThereAre
<1>8. /\ Available(Only) =
           {u \in Users : active[u]} \ (Teamwork!Members \cup reviewers[p])
      /\ Near(Only) = {u \in Available(Only) : team[u] = team[author[p]]}
                        \ {author[p]}
  BY <1>3 DEF Available, Near
<1>9. /\ Teamwork!Waiting("teamDeactivate")
      /\ UNCHANGED <<teams, team, active, author, status>>
  BY <1>1, WaitsAtTeamwork
     DEF CommitReplacements, CommitReviewers, DeactivateLabels, userTable
<1>10. \/ /\ (job[Only].skipped \ {p} # {})' =
                (job[Only].skipped \ {p} # {} \/ Cardinality(Available(Only)) < n)
          /\ at'[Only] = "nextpr" /\ UNCHANGED <<task, answer>>
       \/ Teamwork!Tell("ERROR")
  <2>1. CASE Finish(Only, "ERROR")
    BY <2>1, FinishTells
  <2>2. CASE SetJob(Only, NextPR(job[Only])) /\ Proceed(Only, "nextpr")
    <3>1. /\ job'[Only] = NextPR(job[Only]) /\ at'[Only] = "nextpr"
          /\ UNCHANGED <<task, answer>>
      BY <2>2, Going
    <3>2. /\ job'[Only].skipped = job[Only].skipped /\ job'[Only].pr = None
          /\ None \notin job[Only].skipped
      BY <3>1, JobTypes, StoreAssumption DEF NextPR, Jobs
    <3>3. (job[Only].skipped \ {p} # {})' = (job[Only].skipped # {})
      BY <3>2
    <3>4. (job[Only].skipped # {})
             = (job[Only].skipped \ {p} # {} \/ missing)
      OBVIOUS
    <3> HIDE DEF missing, p, n
    <3> QED BY <1>7, <3>1, <3>3, <3>4 DEF p
  <2> QED BY <2>1, <2>2 DEF CommitReplacements
<1>11. \A S : Teamwork!Cardinality(S) = Cardinality(S)
  BY CountsAlike
<1>12. Teamwork!Relieve(p)
  <2> HIDE DEF p
  <2>1. /\ Teamwork!Waiting("teamDeactivate")
        /\ status[p] = "OPEN"
        /\ Teamwork!Cardinality(reviewers[p] \cap Teamwork!Members) > 0
    BY <1>3, <1>5, <1>9, <1>11 DEF p
  <2>2. /\ Found(Only) \in SUBSET Available(Only)
        /\ Teamwork!Cardinality(Found(Only)) =
             Teamwork!AtMost(n, Available(Only))
        /\ Teamwork!Cardinality(Found(Only) \cap Near(Only)) =
             Teamwork!AtMost(n, Near(Only))
        /\ reviewers' = [reviewers EXCEPT
                           ![p] = (@ \ Leaving(Only)) \cup Found(Only)]
    BY <1>1, <1>4, <1>7, <1>11 DEF p
  <2>3. \/ /\ (job[Only].skipped \ {job[Only].pr} # {})' =
                (job[Only].skipped \ {job[Only].pr} # {}
                  \/ Teamwork!Cardinality(Available(Only)) < n)
           /\ at'[Only] = "nextpr" /\ UNCHANGED <<task, answer>>
        \/ Teamwork!Tell("ERROR")
    BY <1>10, <1>11 DEF p
  <2>4. /\ at[Only] = "inserting"
        /\ UNCHANGED <<teams, team, active, author, status>>
    BY <1>1, <1>9
  <2>5. n = Teamwork!Cardinality(Leaving(Only))
    BY <1>11
  <2>6. /\ Leaving(Only) = reviewers[p] \cap Teamwork!Members
        /\ Available(Only) =
             {u \in Users : active[u]} \ (Teamwork!Members \cup reviewers[p])
        /\ Near(Only) = {u \in Available(Only) : team[u] = team[author[p]]}
                          \ {author[p]}
    BY <1>3, <1>8 DEF p
  <2> HIDE DEF n
  <2> QED
    BY <2>1, <2>2, <2>3, <2>4, <2>5, <2>6
       DEF Teamwork!Relieve, Teamwork!users
<1> QED
  BY <1>1, <1>12

\* and deactivates the team when no open pull request has one of its members.
LEMMA DismissingMaps ==
  ASSUME Base, SoloInv, Only \in Workers, DeactivateMembers(Only)
  PROVE  Teamwork!Dismiss
<1> DEFINE t == task[Only].team
<1>1. /\ at[Only] = "switchoff"
      /\ active' = [u \in Users |->
                      active[u] /\ ~(u \in job[Only].list /\ team[u] = t)]
      /\ UNCHANGED <<team, author, status, reviewers, teams>>
      /\ FinishWritten(Only, IF job[Only].skipped = {}
                             THEN "OK" ELSE "NO_CANDIDATE")
  BY DEF DeactivateMembers, BulkDeactivateUsersByTeam, prTables
<1>2. /\ job[Only].targets = ActiveMembers(t) /\ job[Only].targets # {}
      /\ GetOpenPullRequestsByReviewers(job[Only].targets) = {}
      /\ t \in teams /\ job[Only].pr = None
      /\ job[Only].prs = {} /\ job[Only].list = job[Only].targets
  BY <1>1 DEF SoloInv, Loop, LoopLabels, StillSo, DeactivateLabels
<1>3. Teamwork!Members = job[Only].targets
  BY <1>2 DEF Teamwork!Members, ActiveMembers
<1>4. ASSUME NEW p \in PRs, status[p] = "OPEN"
      PROVE  reviewers[p] \cap Teamwork!Members = {}
  <2>1. CASE PRExists(p)
    BY <1>2, <1>3, <1>4, <2>1 DEF GetOpenPullRequestsByReviewers
  <2>2. CASE ~PRExists(p)
    <3>1. reviewers[p] = {}
      BY <2>2, Zenon DEF Base, ServiceRows, Isolation
    <3> QED BY <3>1
  <2> QED BY <2>1, <2>2
<1>5. active' = [u \in Users |-> active[u] /\ u \notin Teamwork!Members]
  <2>1. active \in [Users -> BOOLEAN]
    BY DEF Base, ServiceTyped, ServiceTypeOK, TypeOK, StoreTypeOK
  <2>2. \A u \in Users :
          (active[u] /\ ~(u \in job[Only].list /\ team[u] = t)) =
            (active[u] /\ u \notin Teamwork!Members)
    BY <1>2, <1>3, <2>1, Zenon DEF ActiveMembers
  <2> QED BY <1>1, <2>2
<1>6. job[Only].skipped \ {job[Only].pr} # {} <=> job[Only].skipped # {}
  BY <1>2, JobTypes, StoreAssumption
<1>7. \/ Teamwork!Report("OK")
      \/ /\ job[Only].skipped \ {job[Only].pr} # {}
         /\ Teamwork!Report("NO_CANDIDATE")
  BY <1>1, <1>6, WrittenReports
<1>8. Teamwork!Waiting("teamDeactivate")
  BY <1>1, WaitsAtTeamwork DEF DeactivateLabels
<1> QED
  BY <1>1, <1>2, <1>3, <1>4, <1>5, <1>7, <1>8
     DEF Teamwork!Dismiss, Teamwork!board

\* A failure gives the request up, whatever it has done before.
LEMMA FailureMaps ==
  ASSUME Base, SoloInv, Only \in Workers, TaskFailure(Only)
  PROVE  Teamwork!GiveUp
<1>1. /\ at[Only] # "idle" /\ Finish(Only, "ERROR")
      /\ UNCHANGED <<tables, teams>>
  BY DEF TaskFailure, TaskFail, Rollback
<1> QED BY <1>1, ErrorGivesUp

\* With one worker every step of the service is one the board allows.
LEMMA TeamworkNext ==
  ASSUME Base, SoloInv, Only \in Workers, [ServiceNext]_serviceVars
  PROVE  [Teamwork!Next]_(Teamwork!vars)
<1>1. CASE UNCHANGED serviceVars
  BY <1>1
     DEF serviceVars, vars, teamVars, taskLocals, tables, Teamwork!vars,
         Teamwork!users, Teamwork!board
<1>2. ASSUME NEW w \in Workers, ServiceAction(w)
      PROVE  Teamwork!Next \/ UNCHANGED Teamwork!vars
  <2>1. w = Only
    BY DEF Base
  <2>2. \/ at[Only] = "idle" /\ (ReceivePR(Only) \/ PRStep(Only))
        \/ ReceiveTask(Only) \/ TaskStep(Only) \/ TaskFailure(Only)
    BY <1>2, <2>1, SoloActions DEF TaskAction
  <2>3. CASE at[Only] = "idle" /\ (ReceivePR(Only) \/ PRStep(Only))
    BY <2>3, OthersMap DEF Teamwork!Next
  <2>4. CASE ReceiveTask(Only)
    BY <2>4, ArrivalMaps DEF Teamwork!Next
  <2>5. CASE TaskFailure(Only)
    BY <2>5, FailureMaps DEF Teamwork!Next
  <2>6. CASE AddStep(Only)
    BY <2>6, AddingMaps DEF Teamwork!Next
  <2>7. CASE FindTeam(Only) \/ ListMembers(Only) \/ UserStep(Only)
    BY <2>7, UserMaps DEF Teamwork!Next
  <2>8. CASE DeactivateStep(Only)
    <3>1. \/ TeamExists(Only) \/ ReadTargets(Only) \/ ReadAffected(Only)
             \/ ReadNextPR(Only) \/ ReadCurrent(Only)
             \/ IssueDeactivation(Only)
          \/ PickStep(Only)
          \/ DeleteCurrent(Only) \/ LockCurrent(Only) \/ InsertReplacement(Only)
          \/ CommitReplacements(Only)
          \/ DeactivateMembers(Only)
      BY <2>8 DEF DeactivateStep
    <3> QED
      BY <3>1, ReadingMaps, PickingMaps, WritingMaps, RelievingMaps,
         DismissingMaps
         DEF Teamwork!Next
  <2> QED
    BY <2>2, <2>3, <2>4, <2>5, <2>6, <2>7, <2>8 DEF TaskStep, TeamStep
<1> QED BY <1>1, <1>2 DEF ServiceNext, ServiceAction

\* So do the states in which a service starts.
LEMMA TeamworkInit ==
  ASSUME Only \in Workers, ServiceInit
  PROVE  Teamwork!Init
<1>1. /\ at[Only] = "idle" /\ task[Only] = NoTask /\ answer[Only] = "none"
      /\ job[Only] = NoJob /\ teams \subseteq Teams
  BY DEF ServiceInit, TeamsInit
<1>2. /\ team \in [Users -> Teams \cup {None}] /\ active \in [Users -> BOOLEAN]
      /\ author = [p \in PRs |-> None] /\ status = [p \in PRs |-> "OPEN"]
      /\ reviewers = [p \in PRs |-> {}]
  BY DEF ServiceInit, Init, StoreInit
<1>3. team \in [Users -> teams \cup {None}]
  BY <1>2 DEF ServiceInit, TeamsInit
<1>4. job[Only].skipped \ {job[Only].pr} = {}
  BY <1>1 DEF NoJob
<1> QED
  BY <1>1, <1>2, <1>3, <1>4 DEF Teamwork!Init, NoTask

\* The statements of a service with one worker add up to the steps TeamBoard
\* promises to the callers of the team and user endpoints.
THEOREM SoloImplementsTeamBoard ==
  ASSUME Workers = {Only}
  PROVE  ServiceSpec => TeamsImplement
<1>1. Only \in Workers
  OBVIOUS
<1>2. ServiceInit => Teamwork!Init
  BY <1>1, TeamworkInit
<1>3. Base /\ SoloInv /\ [ServiceNext]_serviceVars
        => [Teamwork!Next]_(Teamwork!vars)
  BY <1>1, TeamworkNext
<1>4. ServiceSpec => [](Base /\ SoloInv)
  BY SoloInductive
<1> QED
  BY <1>2, <1>3, <1>4, PTL DEF ServiceSpec, TeamsImplement, Teamwork!Spec

=============================================================================
