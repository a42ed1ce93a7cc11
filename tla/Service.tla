------------------------------ MODULE Service -------------------------------
(***************************************************************************)
(* The whole service: every worker takes requests of any endpoint, one     *)
(* after another, and all of them work on one database without a lock of   *)
(* the program's own.                                                      *)
(***************************************************************************)
EXTENDS PullRequests, UserUseCases

serviceVars == <<vars, teamVars>>

ServiceInit == Init /\ TeamsInit

Idle(w) == pc[w] = "idle" /\ at[w] = "idle"

\* A pull request request takes the worker; what it was asked before by the
\* other endpoints is over.
ReceivePR(w) ==
  /\ Idle(w)
  /\ Receive(w)
  /\ task' = [task EXCEPT ![w] = NoTask]
  /\ answer' = [answer EXCEPT ![w] = "none"]
  /\ UNCHANGED <<teams, at, job>>

PRStep(w) == (Step(w) \/ Fail(w)) /\ UNCHANGED teamVars

ReceiveAny(w) ==
  \/ ReceivePR(w)
  \/ pc[w] = "idle" /\ ReceiveTask(w) /\ UNCHANGED locals

TaskStep(w) == (TeamStep(w) \/ UserStep(w)) /\ UNCHANGED locals

TaskFailure(w) == TaskFail(w) /\ UNCHANGED locals

\* The deadlocks that a team request takes part in, alone with its kind or
\* with reassignments.
AllWaitsFor(w) == WaitsFor(w) \cup TaskWaitsFor(w)

Deadlocked(S) == S # {} /\ \A v \in S : AllWaitsFor(v) \cap S # {}

Victim(w) ==
  \E S \in SUBSET Workers :
    w \in S /\ Deadlocked(S) /\ \A v \in S : ~Deadlocked(S \ {v})

BreakTaskDeadlock(w) ==
  /\ Victim(w)
  /\ \/ /\ at[w] # "idle"
        /\ Finish(w, "ERROR")
        /\ UNCHANGED locals
     \/ /\ pc[w] # "idle"
        /\ Answer(w, "ERROR")
        /\ UNCHANGED taskLocals
  /\ Rollback(w)
  /\ UNCHANGED teams

ServiceNext ==
  \E w \in Workers :
    ReceiveAny(w) \/ PRStep(w) \/ TaskStep(w) \/ TaskFailure(w)
      \/ BreakTaskDeadlock(w)

ServiceSpec == ServiceInit /\ [][ServiceNext]_serviceVars

-----------------------------------------------------------------------------
(***************************************************************************)
(* Properties.                                                             *)
(***************************************************************************)

ServiceTypeOK == TypeOK /\ TeamsTypeOK

\* The foreign keys of 001_init.up.sql never stop a statement of the code: the
\* team of a user and the users of a pull request are there when they are
\* written, although each was looked up in an earlier statement, if at all.
ReferencesHold ==
  /\ \A u \in Users : team[u] # None => team[u] \in teams
  /\ \A p \in PRs :
       /\ \A u \in reviewers[p] : UserExists(u)
       /\ author[p] # None => UserExists(author[p])
  /\ \A w \in Workers :
       /\ at[w] = "members" => task[w].team \in teams
       /\ \A u \in todo[w] : UserExists(u)
       /\ at[w] \in PickLabels \cup {"delete", "locking", "inserting"} =>
            \A u \in job[w].list : UserExists(u)

\* Of all requests to add a team at most one is answered with success, although
\* the check and the INSERT are two statements (postgres.go:42 and :51), and
\* the team of every answer that there is one is there.
TeamCreatedOnce ==
  \A v, w \in Workers :
    /\ task[v].op = "teamAdd" /\ answer[v] \in {"OK", "TEAM_EXISTS"}
    /\ task[w].op = "teamAdd" /\ answer[w] \in {"OK", "TEAM_EXISTS"}
    => /\ task[w].team \in teams
       /\ task[v].team = task[w].team /\ answer[v] = "OK" /\ answer[w] = "OK"
            => v = w

\* The COMMIT (postgres.go:356) by which a deactivation writes an empty list of
\* reviewers, having noted that it found no substitute (team.go:145) or having
\* read the pull request without reviewers.
WritesEmptyList(w, p) ==
  /\ at[w] = "inserting" /\ at'[w] # "inserting" /\ job[w].pr = p
  /\ job[w].list = {} /\ tx[w].inserted = {}
  /\ p \in job[w].skipped \/ job[w].old = {}

\* Nothing else takes the last reviewer of a pull request away: no reassignment
\* and no deactivation with a substitute, whatever they overlap with, and
\* whichever statement fails, deadlocks, or panics.
EmptiedForWantOfSubstitutes ==
  [][\A p \in PRs :
       reviewers[p] # {} /\ reviewers'[p] = {} =>
         \E w \in Workers : WritesEmptyList(w, p)]_serviceVars

\* backend/api/openapi.yaml:259: /team/deactivate reassigns safely:
\* whoever it switches off is left without an open pull request to review.
NobodyLeftReviewing ==
  [][\A w \in Workers : \A u \in Users :
       at[w] = "switchoff" /\ at'[w] # "switchoff" /\ active[u] /\ ~active'[u]
         => \A p \in PRs : status[p] = "OPEN" => u \notin reviewers[p]
    ]_serviceVars

\* Every domain error a use case returns has a response of its own in the
\* switch of its handler (handler/server.go): only failures, lost races and
\* deadlocks are answered 500.
DomainErrorsAnswered ==
  \A w \in Workers :
    /\ reply[w] \notin {"none", "ERROR"} => HTTPStatus(req[w].op, reply[w]) # 500
    /\ answer[w] \notin {"none", "ERROR"} =>
         HTTPStatus(task[w].op, answer[w]) # 500

=============================================================================
