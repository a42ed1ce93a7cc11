-------------------------- MODULE ServiceTypeProofs -------------------------
(***************************************************************************)
(* Type correctness of Service, with the phase of each worker.             *)
(***************************************************************************)
EXTENDS ServiceInvariants, PullRequestsTypeProofs, FiniteSetTheorems

\* The local variables of the team and user endpoints have their types.
TaskLocalsTypeOK ==
  /\ at \in [Workers -> Labels]
  /\ task \in [Workers -> Tasks]
  /\ answer \in [Workers -> Codes]
  /\ job \in [Workers -> Jobs]

\* The initial job is a job.
LEMMA NoJobType == NoJob \in Jobs
  BY DEF NoJob, Jobs, Statuses

\* A step of one worker leaves the phases of the others alone.
LEMMA OtherTasks ==
  ASSUME NEW v \in Workers, TasksOK, pc'[v] = pc[v], at'[v] = at[v],
         task'[v] = task[v], answer'[v] = answer[v], job'[v] = job[v]
  PROVE  TaskPhase(v)'
  BY DEF TasksOK, TaskPhase

\* The answer to a request ends it and leaves the worker idle.
LEMMA FinishTypes ==
  ASSUME NEW w \in Workers, ServiceTyped, NEW code \in Codes, Finish(w, code),
         UNCHANGED locals, StoreTypeOK', teams' \subseteq Teams
  PROVE  ServiceTyped'
<1>1. TaskLocalsTypeOK
  BY DEF ServiceTyped, ServiceTypeOK, TeamsTypeOK, TaskLocalsTypeOK
<1>2. [task[w] EXCEPT !.members = {}, !.on = {}] \in Tasks
  BY <1>1 DEF TaskLocalsTypeOK, Tasks
<1>3. task' = [task EXCEPT ![w] = [task[w] EXCEPT !.members = {}, !.on = {}]]
  BY <1>1 DEF Finish, TaskLocalsTypeOK, Tasks
<1>4. at' \in [Workers -> Labels] /\ at'[w] = "idle"
  BY <1>1 DEF Finish, TaskLocalsTypeOK, Labels
<1>5. task' \in [Workers -> Tasks]
  BY <1>1, <1>2, <1>3 DEF TaskLocalsTypeOK
<1>6. answer' \in [Workers -> Codes] /\ job' \in [Workers -> Jobs]
  BY <1>1, NoJobType DEF Finish, TaskLocalsTypeOK
<1>7. ServiceTypeOK'
  BY <1>4, <1>5, <1>6
     DEF ServiceTyped, ServiceTypeOK, TypeOK, LocalsTypeOK, TeamsTypeOK, locals
<1>8. PhaseOK'
  BY DEF ServiceTyped, PhaseOK, locals
<1>9. ASSUME NEW v \in Workers PROVE TaskPhase(v)'
  <2>1. CASE v = w
    BY <1>4, <2>1
       DEF TaskPhase, AddLabels, DeactivateLabels, WorkLabels, PickLabels
  <2>2. CASE v # w
    BY <1>1, <2>2, OtherTasks
       DEF Finish, ServiceTyped, TaskLocalsTypeOK, locals
  <2> QED BY <2>1, <2>2
<1> QED BY <1>7, <1>8, <1>9 DEF ServiceTyped, TasksOK

\* The request goes on to another statement of its use case.
LEMMA ProceedTypes ==
  ASSUME NEW w \in Workers, ServiceTyped, at[w] # "idle",
         NEW label \in Labels \ {"idle"}, Proceed(w, label),
         NEW j \in Jobs, SetJob(w, j),
         label \in AddLabels => at[w] \in AddLabels,
         label \in DeactivateLabels => at[w] \in DeactivateLabels,
         label \in WorkLabels => j.pr \in PRs,
         label \in PickLabels => j.owed # 0,
         UNCHANGED locals, StoreTypeOK', teams' \subseteq Teams
  PROVE  ServiceTyped'
<1>1. TaskLocalsTypeOK
  BY DEF ServiceTyped, ServiceTypeOK, TeamsTypeOK, TaskLocalsTypeOK
<1>2. /\ at' \in [Workers -> Labels] /\ at'[w] = label
      /\ job' \in [Workers -> Jobs] /\ job'[w] = j
      /\ UNCHANGED <<task, answer>>
  BY <1>1 DEF Proceed, SetJob, TaskLocalsTypeOK
<1>3. ServiceTypeOK'
  BY <1>1, <1>2
     DEF ServiceTyped, ServiceTypeOK, TypeOK, LocalsTypeOK, TeamsTypeOK, locals,
         TaskLocalsTypeOK
<1>4. PhaseOK'
  BY DEF ServiceTyped, PhaseOK, locals
<1>5. ASSUME NEW v \in Workers PROVE TaskPhase(v)'
  <2>1. CASE v = w
    BY <1>2, <2>1 DEF ServiceTyped, TasksOK, TaskPhase, locals
  <2>2. CASE v # w
    BY <1>1, <1>2, <2>2, OtherTasks
       DEF Proceed, SetJob, ServiceTyped, TaskLocalsTypeOK, locals
  <2> QED BY <2>1, <2>2
<1> QED BY <1>3, <1>4, <1>5 DEF ServiceTyped, TasksOK

\* A job that is not touched is set to what it was.
LEMMA SameJob ==
  ASSUME NEW w \in Workers, ServiceTyped, UNCHANGED job
  PROVE  job[w] \in Jobs /\ SetJob(w, job[w])
  BY DEF ServiceTyped, ServiceTypeOK, TeamsTypeOK, SetJob

\* What is known of the job and the task of a worker.
LEMMA JobFacts ==
  ASSUME NEW w \in Workers, ServiceTyped
  PROVE  /\ job[w] \in Jobs /\ task[w] \in Tasks /\ at[w] \in Labels
         /\ task[w].team \in Teams \cup {None} /\ task[w].members \subseteq Users
         /\ job[w].list \subseteq Users /\ job[w].targets \subseteq Users
         /\ job[w].pr \in PRs \cup {None} /\ job[w].owed \in Nat
         /\ job[w].prs \subseteq PRs
         /\ teams \subseteq Teams /\ StoreTypeOK
  BY DEF ServiceTyped, ServiceTypeOK, TypeOK, TeamsTypeOK, Jobs, Tasks

\* A query of a request that is answered with it, or goes on.
LEMMA KeptTables ==
  ASSUME ServiceTyped, KeepTables
  PROVE  StoreTypeOK' /\ teams' \subseteq Teams
  BY QueryTypes
     DEF KeepTables, ServiceTyped, ServiceTypeOK, TypeOK, TeamsTypeOK

\* CreateTeam keeps the types: the check and the INSERT,
LEMMA CheckTeamTypes ==
  ASSUME NEW w \in Workers, ServiceTyped, UNCHANGED locals,
         CheckTeam(w) \/ InsertTeam(w)
  PROVE  ServiceTyped'
<1>1. StoreTypeOK' /\ teams' \subseteq Teams
  BY KeptTables DEF CheckTeam, InsertTeam
<1>2. ASSUME NEW code \in {"TEAM_EXISTS", "ERROR"}, Finish(w, code)
      PROVE  ServiceTyped'
  BY <1>1, <1>2, FinishTypes DEF Codes
<1>3. ASSUME NEW label \in {"insertteam", "committeam"}, Proceed(w, label),
             UNCHANGED job, at[w] \in {"team", "insertteam"}
      PROVE  ServiceTyped'
  BY <1>1, <1>3, SameJob, ProceedTypes
     DEF AddLabels, DeactivateLabels, PickLabels, WorkLabels, Labels
<1> QED BY <1>2, <1>3 DEF CheckTeam, InsertTeam

\* the COMMIT,
LEMMA CommitTeamTypes ==
  ASSUME NEW w \in Workers, ServiceTyped, UNCHANGED locals, CommitTeam(w)
  PROVE  ServiceTyped'
<1>1. at[w] = "committeam" /\ task[w].team \in Teams
  BY DEF CommitTeam, ServiceTyped, TasksOK, TaskPhase, AddLabels
<1>2. StoreTypeOK' /\ teams' \subseteq Teams
  BY <1>1, QueryTypes, JobFacts DEF CommitTeam
<1>3. ASSUME NEW code \in {"OK", "ERROR"}, Finish(w, code)
      PROVE  ServiceTyped'
  BY <1>2, <1>3, FinishTypes DEF Codes
<1>4. ASSUME SetJob(w, [job[w] EXCEPT !.list = task[w].members]),
             Proceed(w, "members")
      PROVE  ServiceTyped'
  <2>1. [job[w] EXCEPT !.list = task[w].members] \in Jobs
    BY JobFacts DEF Jobs
  <2> QED
    BY <1>1, <1>2, <1>4, <2>1, ProceedTypes
       DEF AddLabels, DeactivateLabels, PickLabels, WorkLabels, Labels
<1> QED BY <1>3, <1>4 DEF CommitTeam, FinishWritten

\* and each upsert.
LEMMA UpsertMemberTypes ==
  ASSUME NEW w \in Workers, ServiceTyped, UNCHANGED locals, UpsertMember(w)
  PROVE  ServiceTyped'
<1>1. at[w] = "members" /\ task[w].team \in Teams
  BY DEF UpsertMember, ServiceTyped, TasksOK, TaskPhase, AddLabels
<1>2. PICK u \in job[w].list :
        /\ CreateOrUpdateUser(u, task[w].team, u \in task[w].on)
        /\ \/ job[w].list = {u} /\ FinishWritten(w, "OK")
           \/ /\ SetJob(w, [job[w] EXCEPT !.list = @ \ {u}])
              /\ Proceed(w, "members")
           \/ Finish(w, "ERROR")
  BY DEF UpsertMember
<1>3. team' \in [Users -> Teams \cup {None}] /\ active' \in [Users -> BOOLEAN]
  BY <1>1, <1>2, JobFacts DEF CreateOrUpdateUser, StoreTypeOK
<1>4. StoreTypeOK' /\ teams' \subseteq Teams
  BY <1>2, <1>3, JobFacts
     DEF UpsertMember, CreateOrUpdateUser, StoreTypeOK, prTables
<1>5. ASSUME NEW code \in {"OK", "ERROR"}, Finish(w, code)
      PROVE  ServiceTyped'
  BY <1>4, <1>5, FinishTypes DEF Codes
<1>6. ASSUME SetJob(w, [job[w] EXCEPT !.list = @ \ {u}]), Proceed(w, "members")
      PROVE  ServiceTyped'
  <2>1. [job[w] EXCEPT !.list = @ \ {u}] \in Jobs
    BY JobFacts DEF Jobs
  <2> QED
    BY <1>1, <1>4, <1>6, <2>1, ProceedTypes
       DEF AddLabels, DeactivateLabels, PickLabels, WorkLabels, Labels
<1> QED BY <1>2, <1>5, <1>6 DEF FinishWritten

\* The reading endpoints keep the types, and so does setIsActive.
LEMMA ReadStepTypes ==
  ASSUME NEW w \in Workers, ServiceTyped, UNCHANGED locals,
         \/ FindTeam(w) \/ ListMembers(w) \/ ReadBack(w) \/ FindUser(w)
         \/ ListReviews(w) \/ CountReviews(w)
  PROVE  ServiceTyped'
<1>1. StoreTypeOK' /\ teams' \subseteq Teams
  BY KeptTables
     DEF FindTeam, ListMembers, ReadBack, FindUser, ListReviews, CountReviews
<1>2. ASSUME NEW code \in {"OK", "NOT_FOUND"}, Finish(w, code)
      PROVE  ServiceTyped'
  BY <1>1, <1>2, FinishTypes DEF Codes
<1>3. ASSUME NEW label \in {"listed", "reviews"}, Proceed(w, label),
             UNCHANGED job, at[w] # "idle"
      PROVE  ServiceTyped'
  BY <1>1, <1>3, SameJob, ProceedTypes
     DEF AddLabels, DeactivateLabels, PickLabels, WorkLabels, Labels
<1> QED
  BY <1>2, <1>3
     DEF FindTeam, ListMembers, ReadBack, FindUser, ListReviews, CountReviews

\* The UPDATE of setIsActive, which may find no row.
LEMMA SetFlagTypes ==
  ASSUME NEW w \in Workers, ServiceTyped, UNCHANGED locals, SetFlag(w)
  PROVE  ServiceTyped'
<1>1. StoreTypeOK'
  <2>1. CASE UNCHANGED <<tables, tx>>
    BY <2>1, JobFacts, QueryTypes
  <2>2. ASSUME NEW u \in task[w].members,
               UpdateUserIsActive(u, u \in task[w].on)
        PROVE  StoreTypeOK'
    BY <2>2, JobFacts DEF UpdateUserIsActive, StoreTypeOK, prTables
  <2> QED BY <2>1, <2>2 DEF SetFlag
<1>2. teams' \subseteq Teams /\ at[w] = "setflag"
  BY JobFacts DEF SetFlag
<1>3. ASSUME NEW code \in {"NOT_FOUND", "ERROR"}, Finish(w, code)
      PROVE  ServiceTyped'
  BY <1>1, <1>2, <1>3, FinishTypes DEF Codes
<1>4. ASSUME Proceed(w, "readback"), UNCHANGED job PROVE ServiceTyped'
  BY <1>1, <1>2, <1>4, SameJob, ProceedTypes
     DEF AddLabels, DeactivateLabels, PickLabels, WorkLabels, Labels
<1> QED BY <1>3, <1>4 DEF SetFlag

\* DeactivateTeam keeps the types.  Every query it goes on from with another
\* job is of this form.
LEMMA DeactivateTypes ==
  ASSUME NEW w \in Workers, ServiceTyped, UNCHANGED locals,
         at[w] \in DeactivateLabels, StoreTypeOK', UNCHANGED teams,
         NEW label \in DeactivateLabels, Proceed(w, label),
         NEW j \in Jobs, SetJob(w, j),
         label \in WorkLabels => j.pr \in PRs,
         label \in PickLabels => j.owed # 0
  PROVE  ServiceTyped'
<1>1. /\ at[w] # "idle" /\ label \in Labels \ {"idle"} /\ label \notin AddLabels
      /\ teams' \subseteq Teams
  BY JobFacts DEF DeactivateLabels, AddLabels, PickLabels, Labels
<1> QED BY <1>1, ProceedTypes

\* An answer in the middle of it.
LEMMA DeactivateAnswers ==
  ASSUME NEW w \in Workers, ServiceTyped, UNCHANGED locals, StoreTypeOK',
         UNCHANGED teams,
         NEW code \in {"OK", "NOT_FOUND", "NO_CANDIDATE", "ERROR"},
         Finish(w, code)
  PROVE  ServiceTyped'
  BY JobFacts, FinishTypes DEF Codes

\* The queries for the team, its members, the pull requests and the next one,
LEMMA ReadTeamTypes ==
  ASSUME NEW w \in Workers, ServiceTyped, UNCHANGED locals,
         TeamExists(w) \/ ReadTargets(w) \/ ReadAffected(w) \/ ReadNextPR(w)
  PROVE  ServiceTyped'
<1>1. StoreTypeOK' /\ UNCHANGED teams
  BY KeptTables
     DEF TeamExists, ReadTargets, ReadAffected, ReadNextPR, KeepTables
<1>2. at[w] \in DeactivateLabels
  BY DEF TeamExists, ReadTargets, ReadAffected, ReadNextPR, DeactivateLabels
<1>3. CASE Finish(w, "NOT_FOUND")
  BY <1>1, <1>3, DeactivateAnswers
<1>4. CASE Proceed(w, "targets") /\ UNCHANGED job
  BY <1>1, <1>2, <1>4, SameJob, DeactivateTypes
     DEF DeactivateLabels, WorkLabels, PickLabels
<1>5. CASE ReadTargets(w) /\ ~Finish(w, "NOT_FOUND")
  <2>1. [job[w] EXCEPT !.targets = ActiveMembers(task[w].team)] \in Jobs
    BY JobFacts DEF Jobs, ActiveMembers
  <2> QED
    BY <1>1, <1>2, <1>5, <2>1, DeactivateTypes
       DEF ReadTargets, DeactivateLabels, WorkLabels, PickLabels
<1>6. CASE ReadAffected(w)
  <2>1. [job[w] EXCEPT !.prs = GetOpenPullRequestsByReviewers(job[w].targets)]
          \in Jobs
    BY JobFacts DEF Jobs, GetOpenPullRequestsByReviewers
  <2> QED
    BY <1>1, <1>2, <1>6, <2>1, DeactivateTypes
       DEF ReadAffected, DeactivateLabels, WorkLabels, PickLabels
<1>7. CASE ReadNextPR(w)
  <2>1. PICK p \in job[w].prs :
          SetJob(w, [job[w] EXCEPT !.prs = @ \ {p}, !.pr = p,
                                   !.author = author[p], !.status = status[p]])
    BY <1>7 DEF ReadNextPR
  <2>2. p \in PRs /\ author[p] \in Users \cup {None} /\ status[p] \in Statuses
    BY JobFacts DEF StoreTypeOK
  <2> DEFINE j == [job[w] EXCEPT !.prs = @ \ {p}, !.pr = p,
                                 !.author = author[p], !.status = status[p]]
  <2>3. j \in Jobs /\ j.pr = p
    BY <2>2, JobFacts DEF Jobs
  <2>4. SetJob(w, j) /\ Proceed(w, "current")
    BY <1>7, <2>1 DEF ReadNextPR
  <2>5. "current" \in DeactivateLabels \ PickLabels
    BY DEF DeactivateLabels, PickLabels
  <2> HIDE DEF j
  <2> QED BY <1>1, <1>2, <2>2, <2>3, <2>4, <2>5, DeactivateTypes
<1> QED
  BY <1>3, <1>4, <1>5, <1>6, <1>7 DEF TeamExists

\* the reviewers of that one,
LEMMA NextPRType ==
  ASSUME NEW w \in Workers, ServiceTyped
  PROVE  NextPR(job[w]) \in Jobs
  BY JobFacts DEF NextPR, Jobs, Statuses

\* The search for a replacement begins at one of its labels.
LEMMA FirstPickLabel == ASSUME NEW w PROVE FirstPick(w) \in PickLabels
  BY DEF FirstPick, PickLabels

\* so its reviewers are read and those to replace counted,
LEMMA ReadCurrentTypes ==
  ASSUME NEW w \in Workers, ServiceTyped, UNCHANGED locals, ReadCurrent(w)
  PROVE  ServiceTyped'
<1> DEFINE now  == reviewers[job[w].pr]
           gone == now \cap job[w].targets
           j == [job[w] EXCEPT !.old = now, !.list = Kept(w, now),
                               !.owed = Cardinality(gone)]
<1>1. StoreTypeOK' /\ UNCHANGED teams /\ at[w] = "current"
  BY KeptTables DEF ReadCurrent, KeepTables
<1>2. job[w].pr \in PRs
  BY <1>1 DEF ServiceTyped, TasksOK, TaskPhase, WorkLabels
<1>3. now \subseteq Users
  BY <1>2, JobFacts DEF StoreTypeOK
<1>4. Cardinality(gone) \in Nat /\ (gone # {} => Cardinality(gone) # 0)
  <2>1. IsFiniteSet(gone)
    BY <1>3, UsersAssumption, FS_Subset
  <2> QED BY <2>1, FS_CardinalityType, FS_EmptySet
<1>5. CASE SetJob(w, NextPR(job[w])) /\ Proceed(w, "nextpr")
  BY <1>1, <1>5, NextPRType, DeactivateTypes
     DEF DeactivateLabels, WorkLabels, PickLabels
<1>6. CASE SetJob(w, j) /\ Proceed(w, IF gone = {} THEN "delete" ELSE FirstPick(w))
  <2>1. j \in Jobs /\ j.pr = job[w].pr /\ j.owed = Cardinality(gone)
    BY <1>3, <1>4, JobFacts DEF Jobs, Kept
  <2>2. SetJob(w, j)
    BY <1>6
  <2>3. CASE gone = {}
    <3>1. Proceed(w, "delete")
      BY <1>6, <2>3
    <3>2. {"current", "delete"} \subseteq DeactivateLabels \ PickLabels
      BY DEF DeactivateLabels, PickLabels
    <3> HIDE DEF j, gone, now
    <3> QED BY <1>1, <1>2, <2>1, <2>2, <3>1, <3>2, DeactivateTypes
  <2>4. CASE gone # {}
    <3>1. Proceed(w, FirstPick(w))
      BY <1>6, <2>4
    <3>2. FirstPick(w) \in DeactivateLabels /\ "current" \in DeactivateLabels
      BY FirstPickLabel DEF DeactivateLabels
    <3>3. j.owed # 0
      BY <1>4, <2>1, <2>4
    <3> HIDE DEF j, gone, now
    <3> QED BY <1>1, <1>2, <2>1, <2>2, <3>1, <3>2, <3>3, DeactivateTypes
  <2> QED BY <2>3, <2>4
<1> QED BY <1>5, <1>6 DEF ReadCurrent

\* the search for replacements, which finds one or gives up,
LEMMA SettleTypes ==
  ASSUME NEW w \in Workers, ServiceTyped, UNCHANGED locals, KeepTables,
         at[w] \in PickLabels, NEW found \in SUBSET Users,
         NEW skipped \in SUBSET PRs, Settle(w, found, skipped)
  PROVE  ServiceTyped'
<1> DEFINE j == [job[w] EXCEPT !.list = @ \cup found, !.owed = @ - 1,
                               !.skipped = @ \cup skipped]
           label == IF job[w].owed = 1 THEN "delete" ELSE FirstPick(w)
<1>1. StoreTypeOK' /\ UNCHANGED teams
  BY KeptTables DEF KeepTables
<1>2. job[w].pr \in PRs /\ job[w].owed \in Nat \ {0} /\ job[w] \in Jobs
  BY JobFacts DEF ServiceTyped, TasksOK, TaskPhase, WorkLabels
<1>3. job[w].owed - 1 \in Nat /\ (job[w].owed # 1 => job[w].owed - 1 # 0)
  BY <1>2
<1>4. j \in Jobs /\ j.pr = job[w].pr /\ j.owed = job[w].owed - 1
  BY <1>2, <1>3 DEF Jobs
<1>5. SetJob(w, j) /\ Proceed(w, label)
  BY DEF Settle
<1>6. /\ label \in DeactivateLabels /\ at[w] \in DeactivateLabels
      /\ label \in PickLabels => job[w].owed # 1
  BY FirstPickLabel DEF DeactivateLabels, PickLabels
<1> HIDE DEF j, label
<1> QED BY <1>1, <1>2, <1>3, <1>4, <1>5, <1>6, DeactivateTypes

\* which takes one of the candidates of a source,
LEMMA ReplaceTypes ==
  ASSUME NEW w \in Workers, ServiceTyped, UNCHANGED locals, KeepTables,
         at[w] \in PickLabels, NEW candidates \in SUBSET Users,
         Replace(w, candidates)
  PROVE  ServiceTyped'
<1>1. StoreTypeOK' /\ UNCHANGED teams
  BY KeptTables DEF KeepTables
<1>2. CASE Finish(w, "ERROR")
  BY <1>1, <1>2, DeactivateAnswers
<1>3. ASSUME NEW new \in candidates, Settle(w, {new}, {}) PROVE ServiceTyped'
  <2>1. {new} \in SUBSET Users /\ {} \in SUBSET PRs
    OBVIOUS
  <2> QED BY <1>3, <2>1, SettleTypes
<1> QED BY <1>2, <1>3 DEF Replace

\* or goes on to the next source,
LEMMA NextPickTypes ==
  ASSUME NEW w \in Workers, ServiceTyped, UNCHANGED locals, KeepTables,
         at[w] \in PickLabels, NEW label \in PickLabels, Proceed(w, label),
         NEW j \in Jobs, SetJob(w, j), j.pr = job[w].pr, j.owed = job[w].owed
  PROVE  ServiceTyped'
<1>1. StoreTypeOK' /\ UNCHANGED teams
  BY KeptTables DEF KeepTables
<1>2. job[w].pr \in PRs /\ job[w].owed # 0
  BY DEF ServiceTyped, TasksOK, TaskPhase, WorkLabels
<1>3. label \in DeactivateLabels /\ at[w] \in DeactivateLabels
  BY DEF DeactivateLabels
<1> QED BY <1>1, <1>2, <1>3, DeactivateTypes

\* whichever the strategy allows,
LEMMA PickStepTypes ==
  ASSUME NEW w \in Workers, ServiceTyped, UNCHANGED locals, PickStep(w)
  PROVE  ServiceTyped'
<1>1. at[w] \in PickLabels /\ KeepTables
  BY DEF PickStep, PickFromTeam, ReadAuthorTeam, PickFromAuthorTeam,
         PickFromAll, PickLabels
<1>2. ASSUME NEW label \in {"author", "authorteam", "everyone"},
             Proceed(w, label), UNCHANGED job
      PROVE  ServiceTyped'
  <2>1. label \in PickLabels
    BY DEF PickLabels
  <2> QED BY <1>1, <1>2, <2>1, SameJob, NextPickTypes
<1>3. CASE PickFromTeam(w)
  <2>1. Usable(w, ActiveMembers(task[w].team)) \in SUBSET Users
    BY DEF Usable, ActiveMembers
  <2> QED BY <1>1, <1>2, <1>3, <2>1, ReplaceTypes DEF PickFromTeam
<1>4. CASE ReadAuthorTeam(w)
  <2> DEFINE t == team[job[w].author]
             j == [job[w] EXCEPT !.cache[job[w].author] = t]
  <2>1. job[w].author \in Users => t \in Teams \cup {None}
    BY JobFacts DEF StoreTypeOK
  <2>2. job[w].author \notin Users =>
          [job[w].cache EXCEPT ![job[w].author] = t] = job[w].cache
    BY JobFacts DEF Jobs
  <2>3. [job[w].cache EXCEPT ![job[w].author] = t]
          \in [Users -> Teams \cup {None}]
    <3>1. job[w].cache \in [Users -> Teams \cup {None}]
      BY JobFacts DEF Jobs
    <3> HIDE DEF t
    <3> QED BY <2>1, <2>2, <3>1
  <2>4. j = [job[w] EXCEPT !.cache = [job[w].cache EXCEPT ![job[w].author] = t]]
    BY JobFacts DEF Jobs
  <2>5. j \in Jobs /\ j.pr = job[w].pr /\ j.owed = job[w].owed
    BY <2>3, <2>4, JobFacts DEF Jobs
  <2>6. SetJob(w, j) /\ Proceed(w, "authorteam") /\ "authorteam" \in PickLabels
    BY <1>4 DEF ReadAuthorTeam, PickLabels
  <2> HIDE DEF j
  <2> QED BY <1>1, <2>5, <2>6, NextPickTypes
<1>5. CASE PickFromAuthorTeam(w)
  <2>1. Usable(w, GetActiveUsersByTeam(job[w].cache[job[w].author],
                                       job[w].author)) \in SUBSET Users
    BY DEF Usable, GetActiveUsersByTeam
  <2> QED BY <1>1, <1>2, <1>5, <2>1, ReplaceTypes DEF PickFromAuthorTeam
<1>6. CASE PickFromAll(w)
  <2>1. Usable(w, GetAllActiveUsers(job[w].list \cup job[w].targets))
          \in SUBSET Users
    BY DEF Usable, GetAllActiveUsers
  <2>2. CASE Settle(w, {}, {job[w].pr})
    <3>1. {job[w].pr} \in SUBSET PRs /\ {} \in SUBSET Users
      BY <1>1 DEF ServiceTyped, TasksOK, TaskPhase, WorkLabels
    <3> QED BY <1>1, <2>2, <3>1, SettleTypes
  <2> QED BY <1>1, <1>6, <2>1, <2>2, ReplaceTypes DEF PickFromAll
<1> QED BY <1>3, <1>4, <1>5, <1>6 DEF PickStep

\* the transaction that replaces the reviewers of one pull request,
LEMMA OwnTransaction ==
  ASSUME NEW w \in Workers, ServiceTyped, UNCHANGED <<tables, teams, locals>>,
         at[w] \in {"delete", "locking", "inserting"},
         NEW t \in Transactions, tx' = [tx EXCEPT ![w] = t],
         NEW label \in {"locking", "inserting"}, Proceed(w, label),
         NEW j \in Jobs, SetJob(w, j), j.pr = job[w].pr
  PROVE  ServiceTyped'
<1>1. StoreTypeOK' /\ UNCHANGED teams
  <2>1. tx' \in [Workers -> Transactions]
    BY JobFacts DEF StoreTypeOK
  <2> QED BY <2>1, JobFacts, TablesUnchangedTypes
<1>2. job[w].pr \in PRs
  BY DEF ServiceTyped, TasksOK, TaskPhase, WorkLabels
<1>3. /\ label \in DeactivateLabels /\ at[w] \in DeactivateLabels
      /\ label \notin PickLabels
  BY DEF DeactivateLabels, PickLabels
<1> QED BY <1>1, <1>2, <1>3, DeactivateTypes

\* its DELETE as it is issued,
LEMMA DeleteCurrentTypes ==
  ASSUME NEW w \in Workers, ServiceTyped, UNCHANGED locals, DeleteCurrent(w)
  PROVE  ServiceTyped'
<1> DEFINE t == [NoTx EXCEPT !.pr = job[w].pr, !.seen = reviewers[job[w].pr]]
<1>1. at[w] = "delete" /\ job[w].pr \in PRs
  BY DEF DeleteCurrent, ServiceTyped, TasksOK, TaskPhase, WorkLabels
<1>2. t \in Transactions
  BY <1>1, JobFacts DEF NoTx, Transactions, StoreTypeOK
<1>3. tx' = [tx EXCEPT ![w] = t] /\ UNCHANGED <<tables, teams, job>>
      /\ Proceed(w, "locking")
  BY DEF DeleteCurrent, StartDeleteReviewers
<1> HIDE DEF t
<1> QED BY <1>1, <1>2, <1>3, SameJob, OwnTransaction

\* the DELETE as it returns,
LEMMA LockCurrentTypes ==
  ASSUME NEW w \in Workers, ServiceTyped, UNCHANGED locals, LockCurrent(w)
  PROVE  ServiceTyped'
<1> DEFINE t == [tx[w] EXCEPT !.deleted = tx[w].seen, !.seen = {}]
<1>1. tx[w] \in Transactions
  BY JobFacts DEF StoreTypeOK
<1>2. t \in Transactions
  BY <1>1 DEF Transactions
<1>3. /\ tx' = [tx EXCEPT ![w].deleted = tx[w].seen, ![w].seen = {}]
      /\ UNCHANGED <<tables, teams, job>>
      /\ Proceed(w, "inserting") /\ at[w] = "locking"
  BY DEF LockCurrent, FinishDeleteReviewers
<1>4. tx' = [tx EXCEPT ![w] = t]
  BY <1>1, <1>3, JobFacts DEF StoreTypeOK, Transactions
<1> HIDE DEF t
<1> QED BY <1>2, <1>3, <1>4, SameJob, OwnTransaction

\* each INSERT,
LEMMA InsertReplacementTypes ==
  ASSUME NEW w \in Workers, ServiceTyped, UNCHANGED locals,
         InsertReplacement(w)
  PROVE  ServiceTyped'
<1>1. at[w] = "inserting" /\ UNCHANGED teams /\ tx[w] \in Transactions
  BY JobFacts DEF InsertReplacement, StoreTypeOK
<1>2. CASE Finish(w, "ERROR") /\ Rollback(w)
  BY <1>1, <1>2, JobFacts, RollbackTypes, DeactivateAnswers
<1>3. ASSUME NEW u \in job[w].list, InsertReviewer(w, u),
             SetJob(w, [job[w] EXCEPT !.list = @ \ {u}]),
             Proceed(w, "inserting")
      PROVE  ServiceTyped'
  <2> DEFINE t == [tx[w] EXCEPT !.inserted = @ \cup {u}]
             j == [job[w] EXCEPT !.list = @ \ {u}]
  <2>1. t \in Transactions
    BY <1>1, JobFacts DEF Transactions
  <2>2. j \in Jobs /\ j.pr = job[w].pr
    BY JobFacts DEF Jobs
  <2>3. tx' = [tx EXCEPT ![w] = t] /\ UNCHANGED tables /\ SetJob(w, j)
    BY <1>3 DEF InsertReviewer
  <2> HIDE DEF t, j
  <2> QED BY <1>1, <1>3, <2>1, <2>2, <2>3, OwnTransaction
<1> QED BY <1>2, <1>3 DEF InsertReplacement

\* its COMMIT,
LEMMA CommitReplacementsTypes ==
  ASSUME NEW w \in Workers, ServiceTyped, UNCHANGED locals,
         CommitReplacements(w)
  PROVE  ServiceTyped'
<1>1. at[w] = "inserting" /\ UNCHANGED teams /\ CommitReviewers(w)
  BY DEF CommitReplacements
<1>2. StoreTypeOK'
  BY <1>1, JobFacts, CommitReviewersTypes
<1>3. CASE Finish(w, "ERROR")
  BY <1>1, <1>2, <1>3, DeactivateAnswers
<1>4. CASE SetJob(w, NextPR(job[w])) /\ Proceed(w, "nextpr")
  <2>1. {"inserting", "nextpr"} \subseteq DeactivateLabels
        /\ "nextpr" \notin WorkLabels \cup PickLabels
    BY DEF DeactivateLabels, WorkLabels, PickLabels
  <2> QED BY <1>1, <1>2, <1>4, <2>1, NextPRType, DeactivateTypes
<1> QED BY <1>3, <1>4 DEF CommitReplacements

\* the bulk update as it finds its rows,
LEMMA IssueDeactivationTypes ==
  ASSUME NEW w \in Workers, ServiceTyped, UNCHANGED locals,
         IssueDeactivation(w)
  PROVE  ServiceTyped'
<1>1. StoreTypeOK' /\ UNCHANGED teams
  BY KeptTables DEF IssueDeactivation, KeepTables
<1>2. [job[w] EXCEPT !.list = ActiveMembers(task[w].team)] \in Jobs
  BY JobFacts DEF Jobs, ActiveMembers
<1>3. {"nextpr", "switchoff"} \subseteq DeactivateLabels
      /\ "switchoff" \notin WorkLabels \cup PickLabels
  BY DEF DeactivateLabels, WorkLabels, PickLabels
<1> QED BY <1>1, <1>2, <1>3, DeactivateTypes DEF IssueDeactivation

\* and when it changes them, with the answer.
LEMMA DeactivateMembersTypes ==
  ASSUME NEW w \in Workers, ServiceTyped, UNCHANGED locals,
         DeactivateMembers(w)
  PROVE  ServiceTyped'
<1>1. StoreTypeOK' /\ UNCHANGED teams
  BY JobFacts
     DEF DeactivateMembers, BulkDeactivateUsersByTeam, StoreTypeOK, prTables
<1>2. \E code \in {"OK", "NO_CANDIDATE", "ERROR"} : Finish(w, code)
  BY DEF DeactivateMembers, FinishWritten
<1> QED BY <1>1, <1>2, DeactivateAnswers

\* A failed statement and the victim of a deadlock keep the types.
LEMMA TaskFailTypes ==
  ASSUME NEW w \in Workers, ServiceTyped, UNCHANGED <<locals, teams>>,
         Finish(w, "ERROR"), Rollback(w)
  PROVE  ServiceTyped'
  BY JobFacts, RollbackTypes, DeactivateAnswers

\* A step of a pull request request leaves the other requests alone.
LEMMA PRStepTypes ==
  ASSUME NEW w \in Workers, ServiceTyped, Preserved,
         at[w] = "idle", UNCHANGED teamVars,
         NEW label, pc' = [pc EXCEPT ![w] = label]
  PROVE  ServiceTyped'
<1>1. ServiceTypeOK' /\ PhaseOK'
  BY DEF ServiceTyped, ServiceTypeOK, TeamsTypeOK, Preserved, Typed, teamVars,
         taskLocals
<1>2. ASSUME NEW v \in Workers PROVE TaskPhase(v)'
  BY DEF ServiceTyped, ServiceTypeOK, TypeOK, LocalsTypeOK, TasksOK, TaskPhase,
         teamVars, taskLocals, AddLabels, DeactivateLabels, WorkLabels,
         PickLabels
<1> QED BY <1>1, <1>2 DEF ServiceTyped, TasksOK

\* Only a worker that is not idle takes a step of a request.
LEMMA StepsAreBusy ==
  ASSUME NEW w \in Workers, Step(w) \/ Fail(w)
  PROVE  /\ pc[w] # "idle"
         /\ \E label : pc' = [pc EXCEPT ![w] = label]
<1>1. pc[w] # "idle"
  <2>1. CASE BreakDeadlock(w)
    <3>1. WaitsFor(w) # {}
      BY <2>1 DEF BreakDeadlock, Circular
    <3> QED BY <3>1 DEF WaitsFor
  <2> QED
    BY <2>1
       DEF Step, CreateStep, ReassignStep, CheckPRExists, ReadAuthor,
           SelectReviewers, InsertPR, CommitPR, ReadHeader, ReadReviewers,
           SetMerged, ReadOldUser, PickReplacement, IssueDelete, LockRows,
           InsertRow, CommitReassign, Fail
<1>2. \E label : pc' = [pc EXCEPT ![w] = label]
  BY DEF Step, CreateStep, ReassignStep, CheckPRExists, ReadAuthor,
         SelectReviewers, InsertPR, CommitPR, ReadHeader, ReadReviewers,
         SetMerged, ReadOldUser, PickReplacement, IssueDelete, LockRows,
         InsertRow, CommitReassign, BreakDeadlock, Fail, Continue, Answer,
         AnswerWritten
<1> QED BY <1>1, <1>2

\* The arrival of a request of the pull request endpoints,
LEMMA ReceivePRTypes ==
  ASSUME NEW w \in Workers, ServiceTyped, ReceivePR(w)
  PROVE  ServiceTyped'
<1>1. Typed /\ TaskLocalsTypeOK /\ teams \subseteq Teams
  BY DEF ServiceTyped, ServiceTypeOK, TeamsTypeOK, TaskLocalsTypeOK, Typed
<1>2. Preserved
  BY <1>1, WorkerStepTypes DEF ReceivePR, WorkerStep
<1>3. NoTask \in Tasks
  BY DEF NoTask, Tasks, Strategies
<1>4. ServiceTypeOK' /\ PhaseOK'
  BY <1>1, <1>2, <1>3
     DEF ReceivePR, ServiceTypeOK, TeamsTypeOK, TaskLocalsTypeOK, Preserved,
         Typed, Codes
<1>5. ASSUME NEW v \in Workers PROVE TaskPhase(v)'
  <2>1. CASE v = w
    BY <2>1
       DEF ReceivePR, Idle, TaskPhase, AddLabels, DeactivateLabels, WorkLabels,
           PickLabels
  <2>2. CASE v # w
    BY <1>1, <2>2, OtherTasks
       DEF ReceivePR, Receive, ServiceTyped, ServiceTypeOK, TypeOK,
           LocalsTypeOK, TaskLocalsTypeOK
  <2> QED BY <2>1, <2>2
<1> QED BY <1>4, <1>5 DEF ServiceTyped, TasksOK

\* and of one of the others.
LEMMA ReceiveTaskTypes ==
  ASSUME NEW w \in Workers, ServiceTyped, pc[w] = "idle", ReceiveTask(w),
         UNCHANGED locals
  PROVE  ServiceTyped'
<1>1. PICK r \in TaskRequests :
        /\ task' = [task EXCEPT ![w] = r]
        /\ at' = [at EXCEPT ![w] = IF Refused(r) THEN "idle"
                                   ELSE FirstLabel[r.op]]
        /\ answer' = [answer EXCEPT ![w] =
                        IF ~Refused(r) THEN "none"
                        ELSE IF r.op = "malformed" THEN "BAD_REQUEST"
                        ELSE "NO_CANDIDATE"]
  BY DEF ReceiveTask
<1>2. /\ r \in Tasks
      /\ r.op \in {"teamAdd", "teamDeactivate", "teamGet", "setIsActive",
                  "getReview", "stats", "malformed"}
      /\ r.op = "teamAdd" => r.team \in Teams
  BY ServerAssumption
     DEF TaskRequests, Tasks, Operations, UserEndpoints, ReadEndpoints
<1> DEFINE l == IF Refused(r) THEN "idle" ELSE FirstLabel[r.op]
           c == IF ~Refused(r) THEN "none"
                ELSE IF r.op = "malformed" THEN "BAD_REQUEST"
                ELSE "NO_CANDIDATE"
<1>3. /\ l \in Labels /\ l \notin WorkLabels
      /\ l \in AddLabels => r.op = "teamAdd"
      /\ l \in DeactivateLabels => r.op = "teamDeactivate"
      /\ l # "idle" => c = "none"
  <2>1. CASE Refused(r)
    BY <2>1 DEF Labels, AddLabels, DeactivateLabels, WorkLabels, PickLabels
  <2>2. CASE ~Refused(r)
    <3>1. r.op \in {"teamAdd", "teamDeactivate", "teamGet", "setIsActive",
                    "getReview", "stats"}
      BY <1>2, <2>2 DEF Refused
    <3>2. /\ r.op = "teamAdd" => l = "team"
          /\ r.op = "teamDeactivate" => l = "exists"
          /\ r.op \notin {"teamAdd", "teamDeactivate"} =>
               l \in {"found", "setflag", "user", "stats"}
      BY <2>2, <3>1 DEF FirstLabel
    <3>3. c = "none"
      BY <2>2
    <3> HIDE DEF l, c
    <3> QED
      BY <3>1, <3>2, <3>3
         DEF Labels, AddLabels, DeactivateLabels, WorkLabels, PickLabels
  <2> QED BY <2>1, <2>2
<1>4. c \in Codes
  BY DEF Codes
<1>5. TaskLocalsTypeOK /\ StoreTypeOK' /\ teams' \subseteq Teams
  BY KeptTables
     DEF ReceiveTask, ServiceTyped, ServiceTypeOK, TeamsTypeOK,
         TaskLocalsTypeOK
<1>6. /\ task' = [task EXCEPT ![w] = r] /\ at' = [at EXCEPT ![w] = l]
      /\ answer' = [answer EXCEPT ![w] = c] /\ UNCHANGED job
  BY <1>1 DEF ReceiveTask
<1> HIDE DEF l, c
<1>7. ServiceTypeOK'
  BY <1>2, <1>3, <1>4, <1>5, <1>6
     DEF TaskLocalsTypeOK, ServiceTyped, ServiceTypeOK, TypeOK, LocalsTypeOK,
         TeamsTypeOK, locals
<1>8. PhaseOK'
  BY DEF ServiceTyped, PhaseOK, locals
<1>9. ASSUME NEW v \in Workers PROVE TaskPhase(v)'
  <2>1. CASE v = w
    BY <1>2, <1>3, <1>5, <1>6, <2>1
       DEF TaskPhase, TaskLocalsTypeOK, locals, WorkLabels
  <2>2. CASE v # w
    BY <1>5, <1>6, <2>2, OtherTasks DEF ServiceTyped, TaskLocalsTypeOK, locals
  <2> QED BY <2>1, <2>2
<1> QED BY <1>7, <1>8, <1>9 DEF ServiceTyped, TasksOK

\* The typed layer is inductive.
LEMMA ServiceTypedInit == ServiceInit => ServiceTyped
<1> SUFFICES ASSUME ServiceInit PROVE ServiceTyped
  OBVIOUS
<1>1. TypeOK /\ PhaseOK
  BY BasicsInit DEF ServiceInit, Basics
<1>2. NoTask \in Tasks
  BY DEF NoTask, Tasks, Strategies
<1>3. TeamsTypeOK
  BY <1>2, NoJobType DEF ServiceInit, TeamsInit, TeamsTypeOK, Labels, Codes
<1>4. TasksOK
  BY DEF ServiceInit, TeamsInit, TasksOK, TaskPhase, AddLabels,
         DeactivateLabels, WorkLabels, PickLabels
<1> QED BY <1>1, <1>3, <1>4 DEF ServiceTyped, ServiceTypeOK

\* So every statement of the team and user endpoints keeps the types,
LEMMA TaskStepTypes ==
  ASSUME NEW w \in Workers, ServiceTyped, TaskStep(w) PROVE ServiceTyped'
  BY CheckTeamTypes, CommitTeamTypes, UpsertMemberTypes, ReadStepTypes,
     SetFlagTypes, ReadTeamTypes, ReadCurrentTypes, PickStepTypes,
     DeleteCurrentTypes, LockCurrentTypes, InsertReplacementTypes,
     CommitReplacementsTypes, IssueDeactivationTypes, DeactivateMembersTypes
     DEF TaskStep, TeamStep, UserStep, AddStep, DeactivateStep

\* so does the detector of deadlocks,
LEMMA BreakTaskDeadlockTypes ==
  ASSUME NEW w \in Workers, ServiceTyped, BreakTaskDeadlock(w)
  PROVE  ServiceTyped'
<1>1. CASE Finish(w, "ERROR") /\ UNCHANGED locals
  BY <1>1, TaskFailTypes DEF BreakTaskDeadlock
<1>2. CASE pc[w] # "idle" /\ Answer(w, "ERROR") /\ UNCHANGED taskLocals
  <2>1. Typed /\ at[w] = "idle" /\ UNCHANGED teamVars
    BY <1>2 DEF ServiceTyped, ServiceTypeOK, Typed, TasksOK, TaskPhase,
                BreakTaskDeadlock, teamVars
  <2>2. Preserved
    BY <1>2, <2>1, AnswerRollback DEF BreakTaskDeadlock, Codes
  <2> QED BY <1>2, <2>1, <2>2, PRStepTypes DEF Answer
<1> QED BY <1>1, <1>2 DEF BreakTaskDeadlock

\* and with it every step of the service.
LEMMA ServiceTypedNext ==
  ServiceTyped /\ [ServiceNext]_serviceVars => ServiceTyped'
<1> SUFFICES ASSUME ServiceTyped, [ServiceNext]_serviceVars
             PROVE  ServiceTyped'
  OBVIOUS
<1>1. CASE UNCHANGED serviceVars
  BY <1>1 DEF serviceVars, vars, tables, locals, teamVars, taskLocals,
              ServiceTyped, ServiceTypeOK, TypeOK, StoreTypeOK, LocalsTypeOK,
              TeamsTypeOK, PhaseOK, TasksOK, TaskPhase
<1>2. ASSUME NEW w \in Workers, PRStep(w) PROVE ServiceTyped'
  <2>1. Typed /\ pc[w] # "idle" /\ at[w] = "idle"
    BY <1>2, StepsAreBusy
       DEF PRStep, ServiceTyped, ServiceTypeOK, Typed, TasksOK, TaskPhase
  <2>2. Preserved
    BY <1>2, <2>1, WorkerStepTypes DEF PRStep, WorkerStep
  <2>3. PICK label : pc' = [pc EXCEPT ![w] = label]
    BY <1>2, StepsAreBusy DEF PRStep
  <2> QED BY <1>2, <2>1, <2>2, <2>3, PRStepTypes DEF PRStep
<1>3. ASSUME NEW w \in Workers, TaskFailure(w) PROVE ServiceTyped'
  BY <1>3, TaskFailTypes DEF TaskFailure, TaskFail
<1> QED
  BY <1>1, <1>2, <1>3, ReceivePRTypes, ReceiveTaskTypes, TaskStepTypes,
     BreakTaskDeadlockTypes
     DEF ServiceNext, ReceiveAny

\* Every variable of the service has its type in every reachable state.
THEOREM ServiceTypeCorrect == ServiceSpec => []ServiceTypeOK
<1>1. ServiceSpec => []ServiceTyped
  BY ServiceTypedInit, ServiceTypedNext, PTL DEF ServiceSpec
<1> QED BY <1>1, PTL DEF ServiceTyped
====
