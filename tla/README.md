# Verification of the PR reviewer assignment service

TLA+ models of the service in `backend/`, the TLC runs that check them on small
instances, and proofs, checked by TLAPS, of what matters most for every number
of users, teams, pull requests and concurrent requests.

The service takes no lock of its own, names no isolation level and keeps
nothing in memory between requests: every request runs its SQL statements in a
goroutine of its own, and the statements of all requests interleave. What can
go wrong is between the statements, and that is what is modelled. Paths below
are relative to `src/`; `pullrequest.go`, `team.go` and `user.go` are in
`backend/internal/usecase/`, `postgres.go` is in
`backend/internal/adapter/repository/postgres/`, `app.go` is in
`backend/internal/app/`.

## The system

| Component | State | Operations | Hard about it |
|---|---|---|---|
| Pull request use cases (`pullrequest.go`) | local values of a request | create, merge, reassign, statistics | decisions on rows read several statements ago; concurrent requests on one pull request; a statement that fails or whose result is lost |
| Team use cases (`team.go`) | one shared `rand.Rand` | add and read a team; deactivate a team, with replacement of its reviewers | a sequence of transactions that can stop anywhere; candidates gone stale; the unsynchronised generator; three sources of candidates |
| User use cases (`user.go`) | none | switch `isActive`; list the reviews of a user | races with every assignment |
| Repository (`postgres.go`) | tables `teams`, `users`, `pull_requests`, `pull_request_reviewers`; open transactions | the statements; three transactions (`CreateTeam`, `CreatePullRequest`, `UpdatePullRequestReviewers`) | READ COMMITTED: a snapshot per statement, row and key locks, deadlocks |
| Handlers (`backend/internal/input/http/handler/server.go`) and generated server | none | decode, call the use case, map domain errors to statuses, anything else to 500 | each handler has a switch of its own |
| Application (`app.go`) | pool of 25 connections, server | start, serve, shut down | requests that hold a connection while others wait; ten seconds to drain, then the database is closed under what still runs; the next process finds the tables as they are |
| Configuration, migrations, generated client | none | | |

The handlers call the use cases, the use cases call the repository, and the
requests meet in the database and in the pool of connections only.

What makes each correct:

* pull requests: nobody reviews their own; at most two reviewers, active and of
  the author's team; one creation; MERGED for ever, with its reviewers and its
  time; an answer that agrees with what was done; no request stuck;
* teams: one creation; after a deactivation no active member, and none of those
  who were deactivated still a reviewer of something open; substitutes from the
  author's team first; a pull request loses its last reviewer only when nobody
  can take the place;
* users: the user answered with is the user as changed;
* all of them: rows refer to rows that exist, and every domain error has a
  response;
* application: no connection lost, no request waiting for ever, and a process
  that stops when it is told to.

Some of these the code does not keep when requests overlap or fail: see
*Findings*.

## Modules

| Module | Models |
|---|---|
| `Store` | the tables of users and pull requests, the statements on them, and PostgreSQL's transactions as the code uses them |
| `Server` | the routes, the answers of the use cases and the status each handler makes of them |
| `PullRequests` | create, merge and reassign: one step per statement, any number of requests at once |
| `TeamUseCases` | the teams table; `CreateTeam`, `GetTeam`, `DeactivateTeam` with `pickReplacement` |
| `UserUseCases` | `SetUserIsActive`, `GetUserReviews`, the statistics, and how a request of the team and user endpoints arrives |
| `Service` | all nine endpoints over one database, with deadlocks between all of them |
| `Lifecycle` | the process around `Service`: pool, signal, drain, timeout, kill, restart |
| `ReviewBoard` | abstract: a pull request request takes effect and is answered in one step |
| `TeamBoard` | abstract: the visible steps of the team and user requests, whatever statements they are made of |
| `SerialPullRequests` | `PullRequests` where reassignments do not overlap; the documented promises; the mapping to `ReviewBoard` |
| `SerialService` | `Service` with one worker; the mapping to `TeamBoard` |
| `PullRequestsInvariants`, `ServiceInvariants` | the inductive invariants of any overlap, in layers |
| `SerialInvariants`, `SerialServiceInvariants` | those of requests that do not overlap |
| `PullRequestsTypeProofs`, `PullRequestsSafetyProofs`, `SerialPullRequestsProofs`, `ServiceTypeProofs`, `ServiceSafetyProofs`, `ServiceRecordProofs`, `ServiceRefinementProofs`, `LifecycleProofs` | the theorems |
| `MCPullRequests`, `MCService`, `MCLifecycle` | the instances for TLC |

Each of `Store`, `Server`, `PullRequests` extends the one before it; so does
`TeamUseCases` extend `Server` and `UserUseCases` extend that; `Service` joins
`PullRequests` and `UserUseCases`, and `Lifecycle` extends `Service`.
Definitions named after a Go function model that function. Mutants (the
definitions whose comment starts with *Mutant*) are plausible bugs, kept beside
the definition they would replace; no specification uses them.

### State

* `team`, `active`, `author`, `status`, `mergedAt`, `reviewers`, `teams` are
  the committed tables. A user or pull request without a row has team or author
  `None`. Usernames, titles and creation times are left out: nothing is decided
  on them. `merged_at` is named by the session that wrote it, which is enough to
  tell a second write from the first.
* `tx[w]` is the transaction on reviewers or on a new pull request that is open
  in the session of worker `w`: what it has inserted and deleted, and, for a
  DELETE that waits, the rows it has seen. The transaction of `CreateTeam` has
  inserted one key, and is open while `at[w] = "committeam"`.
* `pc`, `req`, `reply`, `pr`, `fromTeam`, `todo` belong to a request of the
  pull request endpoints: the statement it is at, what it asks for, its answer
  and the local values the code carries from statement to statement.
* `at`, `task`, `answer`, `job` are the same for the other six endpoints. `job`
  holds the locals of `DeactivateTeam`: the members read, the pull requests
  listed, the one in work with the author, status and reviewers it was read
  with, its new list of reviewers, how many are still to be replaced, the cache
  of authors, the pull requests without a replacement, and at the end the rows
  the bulk UPDATE has found. A worker serves one request at a time, of either
  kind.
* `phase` and `conns` are the state of the process and the workers that hold a
  connection.

### Steps

A step is one statement and the Go code after it up to the next statement or
the answer. That is the right grain because only statements see or change what
requests share.

* `GetPullRequest` is two statements, `ReadHeader` and `ReadReviewers`, or
  `ReadNextPR` and `ReadCurrent` when `DeactivateTeam` calls it; `GetTeam` is
  `FindTeam` and `ListMembers`; `SetUserIsActive` is `SetFlag` and `ReadBack`.
* The transaction of `CreatePullRequest` is two steps, the INSERT that takes
  the key and the COMMIT: nobody can see its reviewer rows in between.
* The transaction of `UpdatePullRequestReviewers` is four kinds of steps: the
  snapshot of the DELETE (`IssueDelete`, `DeleteCurrent`), its return
  (`LockRows`, `LockCurrent`), one INSERT for each reviewer (`InsertRow`,
  `InsertReplacement`) and the COMMIT. A DELETE that waited skips the rows the
  other transaction has deleted and does not see those it has inserted, as READ
  COMMITTED has it. It is modelled to lock its rows all at once.
* `CreateTeam` is the check, the INSERT, the COMMIT and one `UpsertMember` for
  each member, in any order. The check is inside the transaction, which holds
  nothing yet.
* `DeactivateTeam` reads the team, its members and their open pull requests,
  then goes through these one at a time: each is read again, each reviewer to
  be replaced runs the queries of `pickReplacement`, and one transaction writes
  the list. The bulk UPDATE ends it, in two steps: it finds the rows of those
  who are on the team and active (`IssueDeactivation`), and it switches off
  those of them who still are when it has locked their rows
  (`DeactivateMembers`), so that it misses who joins in between. It locks its
  rows all at once. The order of the pull requests and the bias of the random
  choice are left open.
* `SetUserIsActive` answers `NOT_FOUND` at either of its statements; at the
  second, where the user has just been updated and rows of users are never
  removed, that answer cannot come.
* One `rand.Rand`, not safe for concurrent use, is shared by all deactivations.
  While two may be shuffling, the shuffle may panic (`RacingShuffle`); net/http
  recovers the goroutine, and the client sees a broken connection. A shuffle
  that does not panic yields some candidate, which is any candidate already.
* `BreakDeadlock` and `BreakTaskDeadlock` are PostgreSQL's deadlock detector:
  one request of a cycle of waits gets an error.
* `Fail` and `TaskFail`: any statement may fail (connection lost, client gone
  and its context cancelled). `AnswerWritten` and `FinishWritten`: the result of
  a statement that did take effect may be lost. The deferred Rollback is part
  of the step. Failures are allowed when `MayFail` is TRUE.
* In `PullRequests` alone, `UsersStep` stands for the statements by which
  `/users/setIsActive` and `/team/add` change the users table, in any order.
  `/team/deactivate` is not part of it: a deactivation replaces reviewers too,
  so `PullRequests` describes the service while no team is deactivated.
  `Service` has all endpoints themselves, and the proof that without
  `/team/deactivate` it is `PullRequests` (see *Proofs*).
* In `Lifecycle` a statement needs a connection (`Acquire`), which goes back
  after it unless a transaction is open (`Release`). `Signal` closes the
  listener; `Close` is the end of the ten seconds, or a kill; then every request
  in work fails (`CutOff`), the process is gone (`Exit`) and the next one starts
  on the tables it has left (`Start`).

## Runs

`Endpoints` names the requests that may arrive, to shape an instance. Users,
teams, pull requests and workers are symmetric, and symmetry is used where no
liveness is checked. Except in `service`, `teams`, `lifecycle`,
`author_assigned` and `deactivated_reviewing`, a worker that has answered takes
the next request, so requests come without end.

| Run | Instance | Shows |
|---|---|---|
| `overlap` | 4 users, 2 teams, 1 pull request, 2 workers, failures; at any time users join either team and are switched on and off, but nobody moves (`SettledSpec`) | `AuthorNeverReviews`, `CreatedOnce`, `MergedAnswersHold`, `ReviewersShareTeam`, `ReviewersNeverRunOut` hold of the pull request endpoints in any overlap; all layers of `IInv` |
| `serial` | 4 users, 2 teams, 1 pull request, 2 workers, failures, all changes of users | the documented promises, and `Implements`, when reassignments do not overlap with anything and users change only while nothing runs; their invariant `SerialInv` |
| `answered` | 4 users, 1 team, 1 pull request, 2 workers, failures, users unchanged, fairness | `EveryRequestAnswered` |
| `service` | 3 users, 2 teams, 1 pull request, 2 workers, one request each, all endpoints, failures | the types, `ReferencesHold`, `TeamCreatedOnce`, `DomainErrorsAnswered`, `CreatedOnce`, `EmptiedForWantOfSubstitutes` for any two requests in any overlap; all layers of `ServiceInv` |
| `teams` | 4 users, 2 teams, 2 pull requests, 1 worker, one request, all endpoints, failures | `TeamsImplement`, `AtMostTwoReviewers`, `OnlyActiveAssigned`, `MergedAtOnce` for a request that runs alone, and stops anywhere; the invariant `SoloInv` of such requests |
| `lifecycle` | 5 users, 2 teams, 3 workers, 2 connections, all endpoints, failures, fairness | `ConnectionsAccounted`, `RequestsAnswered`, `ShutdownCompletes` |

### Bounds

* One pull request is enough for the pull request endpoints: requests on
  different ones share only the users table, which `UsersStep` changes more
  freely than they read it. `teams` has two, because a deactivation goes from
  one to the next with what it has cached and skipped.
* Four users are an author, two reviewers and one replacement, which two
  overlapping reassignments both choose; five, one for each, are used where the
  union of their choices is the point (`reviewers_grow`, `lifecycle`).
* `overlap` leaves moves between teams out (`NobodyMoves`), which
  `ReviewersShareTeam` needs. Its other properties do not mention teams, and
  since any user may join and be switched on and off before any statement, every
  set of candidates that one query can return occurs without a move; that they
  hold with moves too is proved. Of the endpoints that change users only
  `/team/add` is there: its upsert does what an UPDATE of the flag does.
* `service` does not repeat `MergedAnswersHold`: to undo a merge that was
  answered takes two creates and a merge, and its two workers serve one request
  each. In `overlap` requests come without end.
* `service` starts from every roster in which the pull request may have been
  created (`StandingInit`), so that the one request of each worker meets
  whatever requests before it have left. Deadlock detection is not part of its
  next-state relation: two requests only wait for each other in a circle when a
  third has committed in between. That is in `lifecycle`.
* `teams` starts from every roster, with every choice of reviewers that was
  possible when all users were on one team, merged or not (`WornInit`). A
  request to add a team that exists names no member there: it is refused before
  it looks at them.
* `lifecycle` starts in the middle of three deactivations (`RushInit`), at a
  state the server gets into: all three ran against the team of one reviewer;
  the first has committed its replacement, answered, and deactivated; the third
  had issued its DELETE before that COMMIT, waited, and found its rows gone; the
  second is about to issue its own, which sees the rows the first has added.
  From there the two can wait for each other's keys, and one more request of
  any kind may arrive, the signal come, the time run out, and the process start
  again. Two connections for three requests make them wait.

Deadlock checking is off only where requests come to an end because each worker
serves one: `service`, `teams`, `lifecycle`, `author_assigned` and `deactivated_reviewing`.

### Fairness

`answered` assumes strong fairness of each request's steps: a goroutine is never
starved by the Go scheduler, and PostgreSQL grants a lock to waiters in the
order they came, so that a step enabled again and again happens. It starts from
the roster in which all users are active teammates (`FullRosterInit`), where
most requests get to the row locks. `lifecycle` assumes the same of the
statements of a request (`Serve`) and of getting a connection (`Acquire`):
database/sql hands them out in the order they were asked for. When the pool has
been closed, the statements that are left fail, and the process ends (`CutOff`,
`Exit`, weak fairness). No fairness makes a request arrive, a statement fail, a
signal or a timeout come, or the process start again.

### Refinements

* `Implements`: tables and answers are mapped to `ReviewBoard` by name and the
  rest is forgotten, so that a request takes effect there at its COMMIT or
  UPDATE and is refused at the statement that decided it. `ReviewBoard` lets
  the service give up on a request, with or without having carried it out, but
  never in part. The refinement fails as soon as reassign overlaps with
  anything: the findings are the reason.
* `TeamsImplement`: `TeamBoard` promises what callers see of a team or user
  request: a team that is registered and then filled, pull requests that are
  relieved of the leaving members one at a time, with as many substitutes as
  there are and from the author's team first, and a dismissal that happens only
  when no open pull request has one of them left. `NO_CANDIDATE` is told only if
  someone could not be substituted; whether it is told then is left open, for
  the documents disagree (see *Findings*). The author is not excluded as a
  last resort, as the code has it (`author_assigned` says what is wrong with
  that). Any step may be the last one before the request is given up: that is
  what the code promises, no more.

### Findings

Runs that show what the code does against what the repository says of it.

| Run | Property | What happens |
|---|---|---|
| `merged_not_frozen` | `FrozenOnceMerged` | the reviewers of a merged pull request change: the status is checked statements before the replacement is written (`pullrequest.go:100`, `:167`) |
| `reviewers_grow` | `AtMostTwoReviewers` | two reassignments of different reviewers, `a` and `b`, leave four: one has written `{b, c}`, the DELETE of the other waits, does not see `c`, and `{a, d}` is added (`postgres.go:341`) |
| `inactive_assigned` | `OnlyActiveAssigned` | a user deactivated after the candidates were read is assigned (`pullrequest.go:43`, `:61`) |
| `create_race` | `CreateAnswers` | the second of two creates is answered 500 (`pullrequest.go:28`, `:61`) |
| `author_assigned` | `AuthorNeverReviews` | one deactivation, alone, makes the author a reviewer of the own pull request: the last resort of `pickReplacement` does not exclude the author (`team.go:220`) |
| `deactivated_reviewing` | `NobodyLeftReviewing` | a deactivation has listed the open pull requests when a create, which has read its candidates before, commits: who is switched off reviews an open pull request (`team.go:94`, `:154`) |

`FrozenOnceMerged`, `AtMostTwoReviewers` and `OnlyActiveAssigned` hold in
`serial`, where reassignments run alone and users change only while nothing
runs: what breaks them is the overlap. So it is with `NobodyLeftReviewing`,
which in `TeamsImplement` is the guard of `Dismiss`: it holds of a deactivation
that runs alone.

The models contain four more disagreements with the documents, which have no
run of their own:

* Any failure of the query for the author is answered 404 "author not found"
  (`pullrequest.go:39`, `Fail` at `"author"`), while
  `backend/api/openapi.yaml:381` says of that answer "Автор/команда не найдены".
* A deactivation that could not replace someone is answered 409 after
  everything, the deactivation included, is committed (`team.go:145`, `:162`),
  as `README.md:69` says. The example of the answer 200 in
  `backend/api/openapi.yaml:272-282` has `skipped_prs: 1`; the code never
  answers 200 with more than zero. `TeamBoard` allows either answer.
* A substitute should be of the team of whom it replaces
  (`TaskDescription.md:20`). The team is read at `pullrequest.go:117` and the
  substitute written at `:167`: if the replaced reviewer moves to another team
  in between, the substitute is of the team that was left. It is why
  `ReviewersShareTeam` needs `NobodyMoves`.
* `DeactivateTeam` checks the status when it reads a pull request
  (`team.go:111`) and replaces its reviewers later (`:149`): a merge in between
  has the same effect as in `merged_not_frozen`.

They show more that a reader of the code may not expect, and that no document
contradicts:

* `same_team`, the default strategy, never finds a candidate in the team when
  nothing overlaps, because all active members of the team are being
  deactivated (`team.go:76`, `:189`); when someone joins the team in between,
  they are chosen and then deactivated with it (`:154`).
* A user who joins the team, or is switched on, while the bulk UPDATE of a
  deactivation runs stays active after it was answered with success
  (`postgres.go:104`).
* `CreateTeam` that fails after its transaction leaves a team with some of its
  members, and a repetition is answered `TEAM_EXISTS`.
* The user that `/users/setIsActive` answers with ("Обновлённый пользователь",
  `backend/api/openapi.yaml:317`) is read back in a second statement
  (`user.go:29`), and may show the flag another request has set meanwhile;
  alone it does not (`Confirm` of `TeamBoard`).
* Two merges that overlap both write `merged_at` (`pullrequest.go:82`); one
  after the other they do not (`MergedAtOnce`).
* Two replacements that overlap can end in a duplicate key, answered 500, or in
  a deadlock, which fails one of them.

## Proofs

TLAPS proves, for any set of teams, pull requests and workers, any finite set
of users, any number of connections and any `Endpoints` and `MayFail`:

| Module | Theorem | Of | Property |
|---|---|---|---|
| `PullRequestsTypeProofs` | `TypeCorrect` | `Spec` | `TypeOK` |
| `PullRequestsSafetyProofs` | `Inductive` | `Spec` | `IInv` |
| | `AuthorsNeverReview` | `Spec` | `AuthorNeverReviews` |
| | `ReviewersAreTeammates` | `SettledSpec` | `ReviewersShareTeam` |
| | `OneCreation` | `Spec` | `CreatedOnce` |
| | `MergesHold` | `Spec` | `MergedAnswersHold` |
| | `ReviewersRemain` | `Spec` | `ReviewersNeverRunOut` |
| `SerialPullRequestsProofs` | `SerialInductive` | `SerialSpec` | `SerialInv` |
| | `TwoReviewersAtMost` | `SerialSpec` | `AtMostTwoReviewers` |
| | `MergedFreezes` | `SerialSpec` | `FrozenOnceMerged` |
| | `ActiveAssigned` | `SerialSpec` | `OnlyActiveAssigned` |
| | `SerialImplementsBoard` | `SerialSpec` | `Implements`: refines `ReviewBoard` |
| `ServiceTypeProofs` | `ServiceTypeCorrect` | `ServiceSpec` | `ServiceTypeOK` |
| `ServiceSafetyProofs` | `OnlyWantEmpties` | `ServiceSpec` | `EmptiedForWantOfSubstitutes` |
| `ServiceRecordProofs` | `ReferencesAlwaysHold` | `ServiceSpec` | `ReferencesHold` |
| | `TeamsCreatedOnce` | `ServiceSpec` | `TeamCreatedOnce` |
| | `DomainErrorsAlwaysAnswered` | `ServiceSpec` | `DomainErrorsAnswered` |
| | `PRsCreatedOnce` | `ServiceSpec` | `CreatedOnce` |
| | `MergesAlwaysHold` | `ServiceSpec` | `MergedAnswersHold` |
| | `ServiceInductive` | `ServiceSpec` | `ServiceInv` |
| `ServiceRefinementProofs` | `ServiceImplementsPullRequests` | `ServiceSpec` without `teamDeactivate` | refines `Spec` |
| | `OnlyDeactivationAssignsAuthors` | `ServiceSpec` without `teamDeactivate` | `AuthorNeverReviews` |
| | `MovesAloneSplitTeams` | `ServiceSpec` without `teamDeactivate`, nobody moves | `ReviewersShareTeam` |
| | `SoloInductive` | `ServiceSpec`, one worker | `SoloInv` |
| | `SoloTwoReviewersAtMost` | `ServiceSpec`, one worker | `AtMostTwoReviewers` |
| | `SoloActiveAssigned` | `ServiceSpec`, one worker | `OnlyActiveAssigned` |
| | `SoloMergesOnce` | `ServiceSpec`, one worker | `MergedAtOnce` |
| | `SoloImplementsTeamBoard` | `ServiceSpec`, one worker | `TeamsImplement`: refines `TeamBoard` |
| `LifecycleProofs` | `LifecycleServes` | `LifecycleSpec` | refines `ServiceSpec` |
| | `ReferencesHoldAcrossRestarts` | `LifecycleSpec` | `ReferencesHold` |
| | `ConnectionsAlwaysAccounted` | `LifecycleSpec` | `ConnectionsAccounted` |

The only assumptions are those of the modules: `None` is not a user, a team, a
pull request or a worker; `Endpoints` and `MayFail` have their types; users are
finitely many, so that reviewers can be counted; the pool has at least one
connection. `SerialSpec` lets reassignments run alone and users change only while
nothing runs; creates and merges overlap. *One worker* is the hypothesis `Workers = {Only}`: requests come
one after the other, without end, and any statement of theirs may fail. It is
what the promises of *Findings* need, for each of them fails as soon as two
requests overlap.

### Pull request endpoints

None of these invariants is inductive. That the author is never assigned, for
instance, rests on what a reassignment read some statements ago still being
without the author, on the author of a row never changing, and on no row
appearing twice. `IInv` says these things in layers, each preserved by every
step from a state in which the ones before it hold:

* `Basics`: types, which statements a request can be at, and what its
  transaction holds there;
* `Rows`: a pull request without a row has nothing else; one inserter; who has
  read a row knows its author;
* `AuthorExcluded`: what will be written does not contain the author;
* `Locks`: rows and keys have one owner, who knows what is in the table;
* `Creations`, `Merges`, `Replacing`: what the answers, the status and the rows
  to insert say of the tables.

`Teammates` stands beside it, inductive only while nobody moves from one team to
another: the reviewers, those who are going to be, and the team a reassignment
has read are of the author's team.

`PullRequestsTypeProofs` proves `Basics` action by action.
`PullRequestsSafetyProofs` first proves what a step leaves of the other
requests (`Frame`), from where a request gets to each statement (`Sources`) and
which steps write (`Writers`); each layer then needs only the steps that disturb
it.

### The whole service

`ServiceInvariants` has layers of its own, since a deactivation breaks
`AuthorExcluded`:

* `ServiceTyped`: types, and that a worker is at statements of one use case
  only, with a pull request in work where one is needed;
* `ServiceRows`: each transaction is open exactly at the statements between its
  BEGIN and its end, and works on a pull request that exists; a deactivation
  that is about to write an empty list has noted why (`Accounted`), which is
  what `EmptiedForWantOfSubstitutes` rests on. It includes what PostgreSQL's
  locks give as `Store` has them, whatever the use cases do: that open
  transactions do not own the same key (`TransactionsIsolated`). That is a lemma
  of these proofs and says nothing of the service's own code;
* `References`: whatever a request has read of users and may write later, on
  its own and in its transaction, is registered; registered users and created
  teams stay;
* `Creators`, `KnowsTeams`: who has inserted a team is alone until the COMMIT,
  and whoever was told of a team can find it;
* `Answers`: a worker is at statements of its own use case, so that it answers
  with errors its handler knows;
* `Records`: what was answered to creates and merges, and the status a request
  has read, agree with the rows (`Creations` and `Merges` of the pull request
  endpoints); a deactivation does not write these columns, but opens
  transactions beside theirs. `ServiceInv` joins all layers.

The proofs of `ServiceSafetyProofs` need each statement of either kind of
request only as one of the few operations of `Store` (`StoreStep`), for which
isolation is proved once; `ActionLocal` says that a step leaves the local
variables of all other workers. `LifecycleServes` then carries everything over
to the process with its restarts: the pool decides only when a statement runs.
`ConnectionsAlwaysAccounted` adds who holds a connection (`Pool`).

### Requests that do not overlap

That there are two reviewers at most is as little inductive as the rest: a
reassignment adds whomever it has picked several statements ago, to whatever
its transaction has found. `SerialInv` says that nothing has changed in
between:

* `ReassignsAlone`: no request is in work beside a reassignment;
* `CreateKnows`: the reviewers a create has chosen are a choice among the
  active teammates there are now;
* `ReassignKnows`: a reassignment has read the status and the reviewers there
  are; what it still has to insert and what it has inserted are these reviewers
  with the old one exchanged for a user who may take the place now; the rows it
  deletes are all the rows there are.

So what the COMMIT writes is what an indivisible step would have written, which
is `SerialImplementsBoard`: the proof has one lemma for each kind of step, most
of them that an answer that leaves the tables alone is a `Refuse` of
`ReviewBoard`, and that going on to the next statement is no step of it.

A deactivation, in `Service` with one worker, works on many pull requests one
after another, and what it promises of the last must still be true of the
first. `SoloInv` extends `SerialInv`, whose parts it holds in the form
`SerialRows` (a deactivation has transactions too), by

* `OneAtATime`, `StillSo`, `MergeKnows`: the worker has one request, and what
  its statements have read of users, teams and the status is still so;
* `Loop`: of the open pull requests, exactly those still on the list, and the
  one in work, have somebody who leaves among their reviewers, and those to be
  skipped are not on the list any more;
* `Substituting`: the list for the one in work, with what is already inserted,
  consists of the reviewers who stay and of one substitute for each reviewer
  who has been settled, unless nobody was left to choose from; and the
  substitutes are of the author's team as long as that has any;
* `Relieving`: nothing is owed when the list is written, and all rows there are
  will go.

`Loop` is why nobody is dismissed while they still review something open,
`Substituting` why a list never grows, why `NO_CANDIDATE` is answered only if
someone could not be substituted, and why substitutes come from the author's
team first. `SoloImplementsTeamBoard` maps each statement to its step of
`TeamBoard`, with one lemma per use case, and for `DeactivateTeam` one per step
that `TeamBoard` sees. While a request to a pull request is in work, `SerialInv`
holds, and its proofs are used as they are (`SoloSerial`).

TLC found each of these invariants, `IInv`, `ServiceInv`, `SerialInv` and
`SoloInv`, to hold on the instances of `overlap`, `service`, `serial` and
`teams` before it was proved, and checks them in these runs.

### Model-checked only

Liveness (`EveryRequestAnswered`, `RequestsAnswered`, `ShutdownCompletes`),
which is out of the prover's reach. Every invariant and action property that a
run expects to hold is proved, and so are both refinements.

## Not modelled

* What a query returns to the client: the rows of `GetTeam`, of the reviews of a
  user and of the statistics are not kept, so that no property speaks of them.
  Of `reassigned_prs` (which counts reviewers) and `skipped_prs` only whether
  something was skipped is kept.
* Foreign keys as a reason to fail: `ReferencesHold` shows that no statement
  violates one, and the locks they take do not conflict with the UPDATEs the
  service runs.
* JSON, CORS, `/health` and logging: nothing is decided on them. A body that
  cannot be decoded is the request `malformed`. A request whose lists name a
  user twice is not among the inputs.
* Configuration and migrations end before the first request, and a failure of
  theirs ends the process; what they leave is `StoreInit`. The generated client
  holds no state and nothing calls it. The embedded copy of the API description
  (`gen/spec.go`) is data.
* The server sets no timeout on a request: a client that goes away cancels the
  context of its request, which to the statements is `Fail`.
* The crash of PostgreSQL: its transactions are durable or rolled back, which to
  the service is a failure of all statements in work.
