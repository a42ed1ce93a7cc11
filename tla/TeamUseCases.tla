---------------------------- MODULE TeamUseCases ----------------------------
(***************************************************************************)
(* The team endpoints: /team/add, /team/deactivate and /team/get           *)
(* (backend/internal/usecase/team.go) with the teams table.  As in         *)
(* PullRequests, a step of a worker is one statement and the code that     *)
(* follows it up to the next statement or the answer.                      *)
(*                                                                         *)
(* Only the team transaction and the replacement of one pull request's     *)
(* reviewers are atomic: the members of a new team, and the pull requests  *)
(* of a deactivated one, are written one after another.                    *)
(***************************************************************************)
EXTENDS Server

VARIABLES
  teams,    \* the committed rows of the teams table
  at,       \* at[w]: the statement worker w runs next, "idle" between requests
  task,     \* task[w]: the request in work, or the last one answered
  answer,   \* answer[w]: the answer to task[w], "none" before it
  job       \* job[w]: the local variables of the use case

taskLocals == <<at, task, answer, job>>
teamVars   == <<teams, taskLocals>>

\* The second strategy is what an empty one becomes.
Strategies == {"author_team", "same_team", "invalid"}

Tasks ==
  [op : {"teamAdd", "teamDeactivate", "teamGet", "setIsActive", "getReview",
         "stats", "malformed", "none"},
   team : Teams \cup {None},
   members : SUBSET Users,    \* the users the request names
   on : SUBSET Users,         \* those of them with is_active = true
   strategy : Strategies]

NoTask == [op |-> "none", team |-> None, members |-> {}, on |-> {},
           strategy |-> "same_team"]

Jobs ==
  [targets : SUBSET Users,    \* the members to deactivate, as first read
   prs : SUBSET PRs,          \* pull requests still to look at
   pr : PRs \cup {None},      \* the one in work,
   author : Users \cup {None},
   status : Statuses,
   old : SUBSET Users,        \* its reviewers as read, and
   list : SUBSET Users,       \* its new ones; members still to upsert; those
                              \* whom the bulk UPDATE has found
   owed : Nat,                \* its reviewers still to be replaced
   cache : [Users -> Teams \cup {None}],   \* the authors read, by their team
   skipped : SUBSET PRs]      \* pull requests without enough replacements

NoJob == [targets |-> {}, prs |-> {}, pr |-> None, author |-> None,
          status |-> "OPEN", old |-> {}, list |-> {}, owed |-> 0,
          cache |-> [u \in Users |-> None], skipped |-> {}]

AddLabels  == {"team", "insertteam", "committeam", "members"}
PickLabels == {"sameteam", "author", "authorteam", "everyone"}
DeactivateLabels ==
  {"exists", "targets", "affected", "nextpr", "current", "delete", "locking",
   "inserting", "switchoff"} \cup PickLabels
Labels == {"idle", "found", "listed", "setflag", "readback", "user", "reviews",
           "stats"} \cup AddLabels \cup DeactivateLabels

TeamsTypeOK ==
  /\ teams \subseteq Teams
  /\ at \in [Workers -> Labels]
  /\ task \in [Workers -> Tasks]
  /\ answer \in [Workers -> Codes]
  /\ job \in [Workers -> Jobs]

\* Teams that no user is on may exist as well.
TeamsInit ==
  /\ teams \in {T \in SUBSET Teams : \A u \in Users : team[u] \in T \cup {None}}
  /\ at = [w \in Workers |-> "idle"]
  /\ task = [w \in Workers |-> NoTask]
  /\ answer = [w \in Workers |-> "none"]
  /\ job = [w \in Workers |-> NoJob]

-----------------------------------------------------------------------------
Proceed(w, label) ==
  /\ at' = [at EXCEPT ![w] = label]
  /\ UNCHANGED <<task, answer>>

\* The local variables of the request die with its answer.
Finish(w, code) ==
  /\ at' = [at EXCEPT ![w] = "idle"]
  /\ answer' = [answer EXCEPT ![w] = code]
  /\ task' = [task EXCEPT ![w].members = {}, ![w].on = {}]
  /\ job' = [job EXCEPT ![w] = NoJob]

\* The last statement of the request has taken effect, or its result is lost.
FinishWritten(w, code) ==
  \E c \in IF MayFail THEN {code, "ERROR"} ELSE {code} : Finish(w, c)

SetJob(w, j) == job' = [job EXCEPT ![w] = j]

KeepTables == UNCHANGED <<tables, tx, teams>>

-----------------------------------------------------------------------------
(***************************************************************************)
(* CreateTeam: a transaction for the team, then one upsert per member.     *)
(***************************************************************************)

CheckTeam(w) ==
  /\ at[w] = "team"
  /\ \/ task[w].team \in teams /\ Finish(w, "TEAM_EXISTS")
     \/ /\ task[w].team \notin teams
        /\ Proceed(w, "insertteam")
        /\ UNCHANGED job
  /\ KeepTables

\* Sessions that have inserted the row of team t and not yet committed it: an
\* INSERT of it waits for them.
OthersAddingTeam(w, t) ==
  {v \in Workers \ {w} : at[v] = "committeam" /\ task[v].team = t}

\* Mutant: INSERT ... ON CONFLICT DO NOTHING, which takes the team as added.
InsertTeamIfAbsent(w) ==
  /\ at[w] = "insertteam"
  /\ Proceed(w, "committeam")
  /\ UNCHANGED job
  /\ KeepTables

\* A duplicate key is not a domain error.
InsertTeam(w) ==
  /\ at[w] = "insertteam"
  /\ OthersAddingTeam(w, task[w].team) = {}
  /\ \/ task[w].team \in teams /\ Finish(w, "ERROR")
     \/ /\ task[w].team \notin teams
        /\ Proceed(w, "committeam")
        /\ UNCHANGED job
  /\ KeepTables

\* Mutant: the transaction is not committed, and the deferred Rollback ends it.
CommitForgotten(w) ==
  /\ at[w] = "committeam"
  /\ \/ task[w].members = {} /\ FinishWritten(w, "OK")
     \/ /\ task[w].members # {}
        /\ SetJob(w, [job[w] EXCEPT !.list = task[w].members])
        /\ Proceed(w, "members")
  /\ KeepTables

CommitTeam(w) ==
  /\ at[w] = "committeam"
  /\ teams' = teams \cup {task[w].team}
  /\ \/ task[w].members = {} /\ FinishWritten(w, "OK")
     \/ /\ task[w].members # {}
        /\ SetJob(w, [job[w] EXCEPT !.list = task[w].members])
        /\ Proceed(w, "members")
     \/ MayFail /\ task[w].members # {} /\ Finish(w, "ERROR")
  /\ UNCHANGED <<tables, tx>>

UpsertMember(w) ==
  /\ at[w] = "members"
  /\ \E u \in job[w].list :
       /\ CreateOrUpdateUser(u, task[w].team, u \in task[w].on)
       /\ \/ job[w].list = {u} /\ FinishWritten(w, "OK")
          \/ /\ job[w].list # {u}
             /\ SetJob(w, [job[w] EXCEPT !.list = @ \ {u}])
             /\ Proceed(w, "members")
          \/ MayFail /\ job[w].list # {u} /\ Finish(w, "ERROR")
  /\ UNCHANGED teams

AddStep(w) ==
  CheckTeam(w) \/ InsertTeam(w) \/ CommitTeam(w) \/ UpsertMember(w)

-----------------------------------------------------------------------------
(***************************************************************************)
(* GetTeam: two queries; what they return is the answer.                   *)
(***************************************************************************)

FindTeam(w) ==
  /\ at[w] = "found"
  /\ \/ task[w].team \notin teams /\ Finish(w, "NOT_FOUND")
     \/ task[w].team \in teams /\ Proceed(w, "listed") /\ UNCHANGED job
  /\ KeepTables

ListMembers(w) ==
  /\ at[w] = "listed"
  /\ Finish(w, "OK")
  /\ KeepTables

-----------------------------------------------------------------------------
(***************************************************************************)
(* DeactivateTeam: read the members and the open pull requests they        *)
(* review, replace the reviewers of one pull request after another, then   *)
(* deactivate the team.                                                    *)
(***************************************************************************)

TeamExists(w) ==
  /\ at[w] = "exists"
  /\ \/ task[w].team \notin teams /\ Finish(w, "NOT_FOUND")
     \/ task[w].team \in teams /\ Proceed(w, "targets") /\ UNCHANGED job
  /\ KeepTables

\* GetUsersByTeam, of which the active ones are kept.
ActiveMembers(t) == {u \in Users : team[u] = t /\ active[u]}

ReadTargets(w) ==
  /\ at[w] = "targets"
  /\ LET targets == ActiveMembers(task[w].team) IN
       \/ targets = {} /\ Finish(w, "NOT_FOUND")
       \/ /\ targets # {}
          /\ SetJob(w, [job[w] EXCEPT !.targets = targets])
          /\ Proceed(w, "affected")
  /\ KeepTables

GetOpenPullRequestsByReviewers(R) ==
  {p \in PRs : status[p] = "OPEN" /\ PRExists(p) /\ reviewers[p] \cap R # {}}

ReadAffected(w) ==
  /\ at[w] = "affected"
  /\ SetJob(w, [job[w] EXCEPT
                  !.prs = GetOpenPullRequestsByReviewers(job[w].targets)])
  /\ Proceed(w, "nextpr")
  /\ KeepTables

\* GetPullRequest of the next one in the list: its row, ...
ReadNextPR(w) ==
  /\ at[w] = "nextpr"
  /\ \E p \in job[w].prs :
       SetJob(w, [job[w] EXCEPT !.prs = @ \ {p}, !.pr = p,
                                !.author = author[p], !.status = status[p]])
  /\ Proceed(w, "current")
  /\ KeepTables

\* The query with which the search for a replacement begins.
FirstPick(w) ==
  IF task[w].strategy = "same_team" THEN "sameteam"
  ELSE IF job[w].cache[job[w].author] = None THEN "author" ELSE "authorteam"

IsOpen(w) == job[w].status = "OPEN"

\* What goes on to the next pull request forgets this one.
NextPR(j) == [j EXCEPT !.pr = None, !.author = None, !.status = "OPEN",
                       !.old = {}, !.list = {}, !.owed = 0]

\* Mutant: those who leave are listed with their substitutes.
KeptAll(w, now) == now

\* The reviewers who are not to be deactivated stay.
Kept(w, now) == now \ job[w].targets

\* ... and its reviewers.
ReadCurrent(w) ==
  /\ at[w] = "current"
  /\ LET now  == reviewers[job[w].pr]
         gone == now \cap job[w].targets
     IN \/ /\ ~IsOpen(w)
           /\ SetJob(w, NextPR(job[w]))
           /\ Proceed(w, "nextpr")
        \/ /\ IsOpen(w)
           /\ SetJob(w, [job[w] EXCEPT !.old = now, !.list = Kept(w, now),
                                       !.owed = Cardinality(gone)])
           /\ Proceed(w, IF gone = {} THEN "delete" ELSE FirstPick(w))
  /\ KeepTables

-----------------------------------------------------------------------------
(***************************************************************************)
(* pickReplacement: the members of the team itself if the strategy says    *)
(* so, then those of the author's team, then all active users.             *)
(***************************************************************************)

\* Mutant: the members to deactivate are not filtered out.
UsableUnfiltered(w, candidates) == candidates \ job[w].list

\* filterCandidates.  The reviewers still to be replaced are in targets.
Usable(w, candidates) == candidates \ (job[w].list \cup job[w].targets)

\* All DeactivateTeam requests shuffle with one rand.Rand and no lock: of two
\* that may be shuffling at the same time, either may panic, which breaks the
\* connection of its client.
RacingShuffle(w) ==
  \E v \in Workers \ {w} : at[v] \in PickLabels \cup {"delete"}

\* One reviewer is settled: whoever is found takes the place.
Settle(w, found, skipped) ==
  /\ SetJob(w, [job[w] EXCEPT !.list = @ \cup found, !.owed = @ - 1,
                              !.skipped = @ \cup skipped])
  /\ Proceed(w, IF job[w].owed = 1 THEN "delete" ELSE FirstPick(w))

Replace(w, candidates) ==
  \/ \E new \in candidates : Settle(w, {new}, {})
  \/ /\ Cardinality(candidates) > 1
     /\ RacingShuffle(w)
     /\ Finish(w, "ERROR")

\* No candidates: on to the author, whose row may be in the cache.
PickFromTeam(w) ==
  /\ at[w] = "sameteam"
  /\ LET candidates == Usable(w, ActiveMembers(task[w].team)) IN
       \/ Replace(w, candidates)
       \/ /\ candidates = {}
          /\ Proceed(w, IF job[w].cache[job[w].author] = None
                        THEN "author" ELSE "authorteam")
          /\ UNCHANGED job
  /\ KeepTables

\* getAuthor.  The author is registered for ever: NOT_FOUND does not happen.
ReadAuthorTeam(w) ==
  /\ at[w] = "author"
  /\ SetJob(w, [job[w] EXCEPT !.cache[job[w].author] = team[job[w].author]])
  /\ Proceed(w, "authorteam")
  /\ KeepTables

PickFromAuthorTeam(w) ==
  /\ at[w] = "authorteam"
  /\ LET a == job[w].author
         candidates == Usable(w, GetActiveUsersByTeam(job[w].cache[a], a))
     IN \/ Replace(w, candidates)
        \/ candidates = {} /\ Proceed(w, "everyone") /\ UNCHANGED job
  /\ KeepTables

\* GetAllActiveUsers, which knows nothing of the author.
GetAllActiveUsers(exclude) == {u \in Users : active[u]} \ exclude

PickFromAll(w) ==
  /\ at[w] = "everyone"
  /\ LET candidates ==
           Usable(w, GetAllActiveUsers(job[w].list \cup job[w].targets))
     IN \/ Replace(w, candidates)
        \/ candidates = {} /\ Settle(w, {}, {job[w].pr})
  /\ KeepTables

-----------------------------------------------------------------------------
(***************************************************************************)
(* UpdatePullRequestReviewers, and the end of the loop.                    *)
(***************************************************************************)

DeleteCurrent(w) ==
  /\ at[w] = "delete"
  /\ StartDeleteReviewers(w, job[w].pr)
  /\ Proceed(w, "locking")
  /\ UNCHANGED <<teams, job>>

LockCurrent(w) ==
  /\ at[w] = "locking"
  /\ FinishDeleteReviewers(w)
  /\ Proceed(w, "inserting")
  /\ UNCHANGED <<teams, job>>

\* The rows are inserted in the order of the old ones, which is any order.
InsertReplacement(w) ==
  /\ at[w] = "inserting"
  /\ \E u \in job[w].list :
       \/ /\ InsertReviewer(w, u)
          /\ SetJob(w, [job[w] EXCEPT !.list = @ \ {u}])
          /\ Proceed(w, "inserting")
       \/ /\ InsertReviewerFails(w, u)
          /\ Finish(w, "ERROR")
          /\ Rollback(w)
  /\ UNCHANGED teams

CommitReplacements(w) ==
  /\ at[w] = "inserting"
  /\ job[w].list = {}
  /\ CommitReviewers(w)
  /\ \/ SetJob(w, NextPR(job[w])) /\ Proceed(w, "nextpr")
     \/ MayFail /\ Finish(w, "ERROR")
  /\ UNCHANGED teams

\* The bulk UPDATE finds its rows, which ...
IssueDeactivation(w) ==
  /\ at[w] = "nextpr"
  /\ job[w].prs = {}
  /\ SetJob(w, [job[w] EXCEPT !.list = ActiveMembers(task[w].team)])
  /\ Proceed(w, "switchoff")
  /\ KeepTables

\* ... it changes when it has locked them.
DeactivateMembers(w) ==
  /\ at[w] = "switchoff"
  /\ BulkDeactivateUsersByTeam(task[w].team, job[w].list)
  /\ FinishWritten(w, IF job[w].skipped = {} THEN "OK" ELSE "NO_CANDIDATE")
  /\ UNCHANGED teams

PickStep(w) ==
  \/ PickFromTeam(w) \/ ReadAuthorTeam(w)
  \/ PickFromAuthorTeam(w) \/ PickFromAll(w)

DeactivateStep(w) ==
  \/ TeamExists(w) \/ ReadTargets(w) \/ ReadAffected(w)
  \/ ReadNextPR(w) \/ ReadCurrent(w)
  \/ PickStep(w)
  \/ DeleteCurrent(w) \/ LockCurrent(w) \/ InsertReplacement(w)
  \/ CommitReplacements(w) \/ IssueDeactivation(w) \/ DeactivateMembers(w)

TeamStep(w) == AddStep(w) \/ FindTeam(w) \/ ListMembers(w) \/ DeactivateStep(w)

\* A statement of the request fails without effect, and whatever was committed
\* before stays.
TaskFail(w) ==
  /\ MayFail
  /\ at[w] # "idle"
  /\ Finish(w, "ERROR")
  /\ Rollback(w)
  /\ UNCHANGED teams

\* The sessions the statement of w waits for.
TaskWaitsFor(w) ==
  LET rows == IF at[w] = "locking" THEN tx[w].seen
              ELSE IF at[w] = "inserting" THEN job[w].list
              ELSE {}
  IN IF at[w] = "insertteam" THEN OthersAddingTeam(w, task[w].team)
     ELSE UNION {Holders(w, tx[w].pr, u) : u \in rows}

=============================================================================
