-------------------------- MODULE ServiceInvariants -------------------------
(***************************************************************************)
(* The inductive invariants behind the safety properties of Service, in    *)
(* layers as in PullRequestsInvariants.                                    *)
(***************************************************************************)
EXTENDS Service, PullRequestsInvariants

\* The statements at which a deactivation has a pull request in work, and
\* those among them at which it has the reviewers to be.
WorkLabels == PickLabels \cup {"current", "delete", "locking", "inserting"}
ListLabels == WorkLabels \ {"current"}

\* A worker serves one request at a time, and is only at statements of the use
\* case it asks for.
TaskPhase(w) ==
  /\ at[w] # "idle" => pc[w] = "idle" /\ answer[w] = "none"
  /\ at[w] \in AddLabels =>
       task[w].op = "teamAdd" /\ task[w].team \in Teams
  /\ at[w] \in DeactivateLabels => task[w].op = "teamDeactivate"
  /\ at[w] \in WorkLabels => job[w].pr \in PRs
  /\ at[w] \in PickLabels => job[w].owed # 0

TasksOK == \A w \in Workers : TaskPhase(w)

ServiceTyped == ServiceTypeOK /\ PhaseOK /\ TasksOK

\* The steps of one worker.
ServiceAction(w) ==
  ReceiveAny(w) \/ PRStep(w) \/ TaskStep(w) \/ TaskFailure(w)
    \/ BreakTaskDeadlock(w)

-----------------------------------------------------------------------------
\* Transactions are open where TxPhase says, and while a deactivation replaces
\* the reviewers of the pull request in work.
OpenLabels == {"locking", "inserting"}

ServiceTxPhase(w) ==
  /\ at[w] \notin OpenLabels => TxPhase(w)
  /\ at[w] \in OpenLabels => tx[w].pr = job[w].pr /\ tx[w].author = None
  /\ at[w] = "locking" => tx[w].deleted = {} /\ tx[w].inserted = {}
  /\ at[w] = "inserting" => tx[w].seen = {}

\* What a request has read of a pull request it has read of one with a row.
KnownPRs(w) ==
  /\ pc[w] \in {"reviewers", "setstatus"} \cup ReassignPCs =>
       PRExists(req[w].pr)
  /\ at[w] \in WorkLabels => PRExists(job[w].pr)
  /\ \A p \in job[w].prs : PRExists(p)

\* A transaction inserts a pull request that is not there, or replaces the
\* reviewers of one that is.
TxShape(w) ==
  /\ tx[w].pr = None => tx[w] = NoTx
  /\ tx[w].author # None =>
       tx[w].seen = {} /\ tx[w].deleted = {} /\ tx[w].inserted = {}
  /\ tx[w].pr # None /\ tx[w].author = None => PRExists(tx[w].pr)

\* What PostgreSQL's locks give, whatever the use cases do: open transactions
\* never own the same key of one pull request, and no commit of theirs meets a
\* row it does not expect: what is deleted or about to be is there, what is
\* inserted is new.
TransactionsIsolated ==
  /\ \A v, w \in Workers :
       v # w /\ tx[v].pr = tx[w].pr =>
         /\ (tx[v].deleted \cup tx[v].inserted)
              \cap (tx[w].deleted \cup tx[w].inserted) = {}
         /\ tx[v].author = None \/ tx[w].author = None
  /\ \A w \in Workers :
       tx[w].pr # None =>
         /\ tx[w].seen \cup tx[w].deleted \subseteq reviewers[tx[w].pr]
         /\ tx[w].inserted \cap reviewers[tx[w].pr] \subseteq tx[w].deleted
         /\ tx[w].author # None => ~PRExists(tx[w].pr)

Isolation ==
  /\ TransactionsIsolated
  /\ \A w \in Workers : TxShape(w)
  /\ \A p \in PRs : ~PRExists(p) => reviewers[p] = {}

\* A deactivation that is going to write nobody in place of the reviewers it
\* has read has noted the pull request as skipped.
Accounted(w) ==
  at[w] \in {"delete", "locking", "inserting"} =>
    \/ job[w].old = {} \/ job[w].pr \in job[w].skipped
    \/ job[w].list \cup tx[w].inserted # {}

ServiceRows ==
  /\ Isolation
  /\ \A w \in Workers :
       ServiceTxPhase(w) /\ KnownPRs(w) /\ Replaces(w) /\ Accounted(w)

-----------------------------------------------------------------------------
\* What the answers to creates and merges say of the tables; a pull request
\* without a row is not merged.
Records ==
  /\ \A p \in PRs : ~PRExists(p) => status[p] = "OPEN"
  /\ Creations /\ Merges

-----------------------------------------------------------------------------
\* Whom the service knows stays known: what requests have read of users and
\* are going to write names rows of the users table, and of the teams table.
Registered(S) == \A u \in S : UserExists(u)

RegisteredBy(w) ==
  /\ Registered(todo[w]) /\ Registered(pr[w].reviewers)
  /\ Registered(tx[w].inserted)
  /\ tx[w].author # None => UserExists(tx[w].author)
  /\ pc[w] \in {"candidates", "insertpr"} => UserExists(req[w].user)
  /\ at[w] \in ListLabels => Registered(job[w].list)
  /\ at[w] = "members" => task[w].team \in teams

References ==
  /\ \A u \in Users : team[u] # None => team[u] \in teams
  /\ \A u \in Users : active[u] => UserExists(u)
  /\ \A p \in PRs : Registered(reviewers[p])
  /\ \A p \in PRs : author[p] # None => UserExists(author[p])
  /\ \A w \in Workers : RegisteredBy(w)

-----------------------------------------------------------------------------
\* Who has inserted a team alone knows it until it commits, and of those who
\* committed it there is one.
Adds(w, t) == at[w] = "committeam" /\ task[w].team = t

Added(w, t) ==
  /\ task[w].op = "teamAdd" /\ task[w].team = t
  /\ at[w] = "members" \/ answer[w] = "OK"

Creators ==
  \A w \in Workers, t \in Teams :
    /\ Adds(w, t) => t \notin teams /\ \A v \in Workers \ {w} : ~Adds(v, t)
    /\ Added(w, t) => t \in teams /\ \A v \in Workers \ {w} : ~Added(v, t)

KnowsTeams ==
  \A w \in Workers :
    task[w].op = "teamAdd" =>
      /\ task[w].team \in Teams
      /\ answer[w] = "TEAM_EXISTS" => task[w].team \in teams

-----------------------------------------------------------------------------
\* The use case a worker is in, and the answers that it has.
LabelsOf ==
  [teamAdd |-> AddLabels, teamDeactivate |-> DeactivateLabels,
   teamGet |-> {"found", "listed"}, setIsActive |-> {"setflag", "readback"},
   getReview |-> {"user", "reviews"}, stats |-> {"stats"}]

AnswersOf(w) ==
  /\ at[w] # "idle" =>
       task[w].op \in DOMAIN LabelsOf /\ at[w] \in LabelsOf[task[w].op]
  /\ reply[w] \in {"none", "ERROR"} \/
       /\ req[w].op \in Operations
       /\ reply[w] \in {"OK"} \cup Handled[req[w].op]
  /\ answer[w] \in {"none", "ERROR", "BAD_REQUEST"} \/
       /\ task[w].op \in DOMAIN LabelsOf
       /\ answer[w] \in {"OK"} \cup Handled[task[w].op]

Answers == \A w \in Workers : AnswersOf(w)

\* The layers together.
ServiceInv ==
  /\ ServiceTyped /\ ServiceRows /\ Records
  /\ References /\ Creators /\ KnowsTeams /\ Answers

=============================================================================
