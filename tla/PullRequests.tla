---------------------------- MODULE PullRequests ----------------------------
(***************************************************************************)
(* The pull request endpoints: /pullRequest/create, /pullRequest/merge and *)
(* /pullRequest/reassign (backend/internal/usecase/pullrequest.go and the  *)
(* handlers that call it).                                                 *)
(*                                                                         *)
(* The server runs every request in its own goroutine and takes no lock,   *)
(* so the statements of concurrent requests interleave freely; one step of *)
(* a worker is one statement and the code that follows it up to the next   *)
(* statement or the answer.  The statements by which /users/setIsActive    *)
(* and /team/add change the users table are steps of their own             *)
(* (UsersStep).  /team/deactivate, which replaces reviewers itself, is not *)
(* part of this module: it describes the service while no team is          *)
(* deactivated, and Service what it does when one is.                      *)
(***************************************************************************)
EXTENDS Server

VARIABLES
  pc,        \* pc[w]: the statement worker w runs next, "idle" between requests
  req,       \* req[w]: the request in work, or the last one answered
  reply,     \* reply[w]: the answer to req[w], "none" before it
  pr,        \* pr[w]: the object GetPullRequest has filled so far
  fromTeam,  \* fromTeam[w]: the team name read from the author or old reviewer
  todo       \* todo[w]: reviewers still to INSERT

locals == <<pc, req, reply, pr, fromTeam, todo>>
vars   == <<tables, tx, locals>>

Requests ==
  {r \in [op : Endpoints \cap Operations, pr : PRs, user : Users \cup {None}] :
     (r.op = "merge") <=> (r.user = None)}

NoRequest == [op |-> "none", pr |-> None, user |-> None]

NoPR == [author |-> None, status |-> "OPEN", reviewers |-> {}]

PCs == {"idle", "exists", "author", "candidates", "insertpr", "commitpr",
        "header", "reviewers", "setstatus", "olduser", "pick",
        "delete", "locking", "inserting"}

\* The first statement of each use case.
Entry == [create |-> "exists", merge |-> "header", reassign |-> "header"]

Init ==
  /\ StoreInit
  /\ pc = [w \in Workers |-> "idle"]
  /\ req = [w \in Workers |-> NoRequest]
  /\ reply = [w \in Workers |-> "none"]
  /\ pr = [w \in Workers |-> NoPR]
  /\ fromTeam = [w \in Workers |-> None]
  /\ todo = [w \in Workers |-> {}]

-----------------------------------------------------------------------------
\* Worker w goes on to the statement named by label.
Continue(w, label) ==
  /\ pc' = [pc EXCEPT ![w] = label]
  /\ UNCHANGED <<req, reply>>

\* The handler answers: a domain error by its code, any other error with
\* status 500, here "ERROR".  The request's local values die with it.
Answer(w, code) ==
  /\ pc' = [pc EXCEPT ![w] = "idle"]
  /\ reply' = [reply EXCEPT ![w] = code]
  /\ pr' = [pr EXCEPT ![w] = NoPR]
  /\ fromTeam' = [fromTeam EXCEPT ![w] = None]
  /\ todo' = [todo EXCEPT ![w] = {}]
  /\ UNCHANGED req

\* A statement that writes has taken effect; its result may be lost on the way
\* back, and the handler then answers as for a failure.
AnswerWritten(w) ==
  \E code \in IF MayFail THEN {"OK", "ERROR"} ELSE {"OK"} : Answer(w, code)

\* A new request reaches an idle worker.
Receive(w) ==
  /\ pc[w] = "idle"
  /\ \E r \in Requests :
       /\ req' = [req EXCEPT ![w] = r]
       /\ pc' = [pc EXCEPT ![w] = Entry[r.op]]
  /\ reply' = [reply EXCEPT ![w] = "none"]
  /\ UNCHANGED <<tables, tx, pr, fromTeam, todo>>

-----------------------------------------------------------------------------
(***************************************************************************)
(* CreatePullRequest                                                       *)
(***************************************************************************)

CheckPRExists(w) ==
  /\ pc[w] = "exists"
  /\ \/ /\ PRExists(req[w].pr)
        /\ Answer(w, "PR_EXISTS")
     \/ /\ ~PRExists(req[w].pr)
        /\ Continue(w, "author")
        /\ UNCHANGED <<pr, fromTeam, todo>>
  /\ UNCHANGED <<tables, tx>>

ReadAuthor(w) ==
  /\ pc[w] = "author"
  /\ \/ /\ ~UserExists(req[w].user)
        /\ Answer(w, "NOT_FOUND")
     \/ /\ UserExists(req[w].user)
        /\ fromTeam' = [fromTeam EXCEPT ![w] = team[req[w].user]]
        /\ Continue(w, "candidates")
        /\ UNCHANGED <<pr, todo>>
  /\ UNCHANGED <<tables, tx>>

\* Mutant: one reviewer too many.
ThreeChoices(candidates) ==
  {R \in SUBSET candidates :
     Cardinality(R) = IF Cardinality(candidates) < 3
                      THEN Cardinality(candidates) ELSE 3}

\* selectReviewers: two of the candidates, or all if there are fewer.  The
\* shuffle makes every such choice possible.
ReviewerChoices(candidates) ==
  {R \in SUBSET candidates :
     Cardinality(R) = IF Cardinality(candidates) < 2
                      THEN Cardinality(candidates) ELSE 2}

CreateCandidates(w) == GetActiveUsersByTeam(fromTeam[w], req[w].user)

SelectReviewers(w) ==
  /\ pc[w] = "candidates"
  /\ \E R \in ReviewerChoices(CreateCandidates(w)) :
       todo' = [todo EXCEPT ![w] = R]
  /\ Continue(w, "insertpr")
  /\ UNCHANGED <<tables, tx, pr, fromTeam>>

\* The INSERT into pull_requests; a duplicate key is not a domain error.
InsertPR(w) ==
  /\ pc[w] = "insertpr"
  /\ \/ /\ InsertPullRequest(w, req[w].pr, req[w].user)
        /\ Continue(w, "commitpr")
        /\ UNCHANGED <<pr, fromTeam, todo>>
     \/ /\ InsertPullRequestFails(w, req[w].pr)
        /\ Answer(w, "ERROR")
        /\ Rollback(w)

CommitPR(w) ==
  /\ pc[w] = "commitpr"
  /\ CommitPullRequest(w, todo[w])
  /\ AnswerWritten(w)

-----------------------------------------------------------------------------
(***************************************************************************)
(* GetPullRequest, two queries outside any transaction, used by merge and  *)
(* reassign.                                                               *)
(***************************************************************************)

ReadHeader(w) ==
  /\ pc[w] = "header"
  /\ LET p == req[w].pr IN
       \/ /\ ~PRExists(p)
          /\ Answer(w, "NOT_FOUND")
       \/ /\ PRExists(p)
          /\ pr' = [pr EXCEPT ![w] = [author |-> author[p],
                                      status |-> status[p],
                                      reviewers |-> {}]]
          /\ Continue(w, "reviewers")
          /\ UNCHANGED <<fromTeam, todo>>
  /\ UNCHANGED <<tables, tx>>

\* Mutant: the status is not looked at.
NeverMerged(w) == FALSE

IsMerged(w) == pr[w].status = "MERGED"

\* The second query; the use case then decides on what it has read.
ReadReviewers(w) ==
  /\ pc[w] = "reviewers"
  /\ LET now == reviewers[req[w].pr]
         KeepReading(label) ==
           /\ pr' = [pr EXCEPT ![w].reviewers = now]
           /\ Continue(w, label)
           /\ UNCHANGED <<fromTeam, todo>>
     IN \/ req[w].op = "merge" /\ IsMerged(w) /\ Answer(w, "OK")
        \/ req[w].op = "merge" /\ ~IsMerged(w) /\ KeepReading("setstatus")
        \/ req[w].op = "reassign" /\ IsMerged(w) /\ Answer(w, "PR_MERGED")
        \/ /\ req[w].op = "reassign" /\ ~IsMerged(w)
           /\ req[w].user \notin now
           /\ Answer(w, "NOT_ASSIGNED")
        \/ /\ req[w].op = "reassign" /\ ~IsMerged(w)
           /\ req[w].user \in now
           /\ KeepReading("olduser")
  /\ UNCHANGED <<tables, tx>>

(***************************************************************************)
(* MergePullRequest                                                        *)
(***************************************************************************)

SetMerged(w) ==
  /\ pc[w] = "setstatus"
  /\ UpdatePullRequestStatus(w, req[w].pr)
  /\ AnswerWritten(w)

-----------------------------------------------------------------------------
(***************************************************************************)
(* ReassignReviewer                                                        *)
(***************************************************************************)

ReadOldUser(w) ==
  /\ pc[w] = "olduser"
  /\ \/ /\ ~UserExists(req[w].user)
        /\ Answer(w, "NOT_FOUND")
     \/ /\ UserExists(req[w].user)
        /\ fromTeam' = [fromTeam EXCEPT ![w] = team[req[w].user]]
        /\ Continue(w, "pick")
        /\ UNCHANGED <<pr, todo>>
  /\ UNCHANGED <<tables, tx>>

\* Mutants: the author is not left out; the other reviewers are not.
ReplacementsWithAuthor(w) ==
  GetActiveUsersByTeam(fromTeam[w], req[w].user) \ pr[w].reviewers

ReplacementsWithAssigned(w) ==
  GetActiveUsersByTeam(fromTeam[w], req[w].user) \ {pr[w].author}

\* Active members of the replaced reviewer's team, without that reviewer, the
\* author and the reviewers read before.
ReplacementCandidates(w) ==
  GetActiveUsersByTeam(fromTeam[w], req[w].user)
    \ ({pr[w].author} \cup pr[w].reviewers)

PickReplacement(w) ==
  /\ pc[w] = "pick"
  /\ \/ /\ ReplacementCandidates(w) = {}
        /\ Answer(w, "NO_CANDIDATE")
     \/ \E new \in ReplacementCandidates(w) :
          /\ todo' = [todo EXCEPT ![w] =
                        (pr[w].reviewers \ {req[w].user}) \cup {new}]
          /\ Continue(w, "delete")
          /\ UNCHANGED <<pr, fromTeam>>
  /\ UNCHANGED <<tables, tx>>

\* UpdatePullRequestReviewers: the DELETE is issued ...
IssueDelete(w) ==
  /\ pc[w] = "delete"
  /\ StartDeleteReviewers(w, req[w].pr)
  /\ Continue(w, "locking")
  /\ UNCHANGED <<pr, fromTeam, todo>>

\* ... and returns when it has locked its rows;
LockRows(w) ==
  /\ pc[w] = "locking"
  /\ FinishDeleteReviewers(w)
  /\ Continue(w, "inserting")
  /\ UNCHANGED <<pr, fromTeam, todo>>

\* then the new reviewers are inserted, those kept before the new one.
NextRows(w) ==
  LET kept == todo[w] \cap pr[w].reviewers
  IN IF kept # {} THEN kept ELSE todo[w]

InsertRow(w) ==
  /\ pc[w] = "inserting"
  /\ \E u \in NextRows(w) :
       \/ /\ InsertReviewer(w, u)
          /\ todo' = [todo EXCEPT ![w] = @ \ {u}]
          /\ Continue(w, "inserting")
          /\ UNCHANGED <<pr, fromTeam>>
       \/ /\ InsertReviewerFails(w, u)
          /\ Answer(w, "ERROR")
          /\ Rollback(w)

CommitReassign(w) ==
  /\ pc[w] = "inserting"
  /\ todo[w] = {}
  /\ CommitReviewers(w)
  /\ AnswerWritten(w)

-----------------------------------------------------------------------------
\* The sessions the statement of w waits for, and PostgreSQL's deadlock
\* detector, which fails the statement of one session of a cycle of waits.
WaitsFor(w) ==
  LET rows == IF pc[w] = "locking" THEN tx[w].seen
              ELSE IF pc[w] = "inserting" THEN NextRows(w)
              ELSE {}
  IN IF pc[w] = "insertpr" THEN OthersInsertingPR(w, req[w].pr)
     ELSE UNION {Holders(w, tx[w].pr, u) : u \in rows}

Circular(S) == S # {} /\ \A v \in S : WaitsFor(v) \cap S # {}

BreakDeadlock(w) ==
  /\ \E S \in SUBSET Workers :
       w \in S /\ Circular(S) /\ \A v \in S : ~Circular(S \ {v})
  /\ Answer(w, "ERROR")
  /\ Rollback(w)

\* A statement of the request fails and has no effect.  Every error is passed
\* on and becomes a 500, except that CreatePullRequest reports any error of
\* reading the author as NOT_FOUND.  A crash of the server is the failure of
\* every request.
Fail(w) ==
  /\ MayFail
  /\ pc[w] # "idle"
  /\ Answer(w, IF pc[w] = "author" THEN "NOT_FOUND" ELSE "ERROR")
  /\ Rollback(w)

\* A statement of another endpoint changes the users table: the UPDATE of
\* setIsActive, or the upsert of one member of a new team.
UsersStep ==
  /\ \/ /\ "setIsActive" \in Endpoints
        /\ \E u \in Users, b \in BOOLEAN : UpdateUserIsActive(u, b)
     \/ /\ "teamAdd" \in Endpoints
        /\ \E u \in Users, t \in Teams, b \in BOOLEAN :
             CreateOrUpdateUser(u, t, b)
  /\ UNCHANGED locals

CreateStep(w) ==
  \/ CheckPRExists(w) \/ ReadAuthor(w) \/ SelectReviewers(w)
  \/ InsertPR(w) \/ CommitPR(w)

ReassignStep(w) ==
  \/ ReadOldUser(w) \/ PickReplacement(w)
  \/ IssueDelete(w) \/ LockRows(w) \/ InsertRow(w) \/ CommitReassign(w)

Step(w) ==
  \/ CreateStep(w)
  \/ ReadHeader(w) \/ ReadReviewers(w) \/ SetMerged(w)
  \/ ReassignStep(w)
  \/ BreakDeadlock(w)

Next ==
  \/ \E w \in Workers : Receive(w) \/ Step(w) \/ Fail(w)
  \/ UsersStep

Spec == Init /\ [][Next]_vars

\* A request in work keeps running, and PostgreSQL wakes the waiters of a row
\* in the order they came: a statement that can proceed again and again does.
\* Nothing makes a client send a request, a statement fail, or a user change.
Fairness == \A w \in Workers : SF_vars(Step(w))

FairSpec == Spec /\ Fairness

\* Users may be added to teams and switched on and off, but none of them moves
\* from one team to another.
NobodyMoves == \A u \in Users : team[u] # None => team'[u] = team[u]

SettledSpec == Init /\ [][Next /\ NobodyMoves]_vars

-----------------------------------------------------------------------------
(***************************************************************************)
(* Properties.                                                             *)
(***************************************************************************)

\* The state variables have their types (the Go structs and SQL columns).
LocalsTypeOK ==
  /\ pc \in [Workers -> PCs]
  /\ req \in [Workers -> Requests \cup {NoRequest}]
  /\ reply \in [Workers -> Codes]
  /\ pr \in [Workers -> [author : Users \cup {None}, status : Statuses,
                         reviewers : SUBSET Users]]
  /\ fromTeam \in [Workers -> Teams \cup {None}]
  /\ todo \in [Workers -> SUBSET Users]

TypeOK == StoreTypeOK /\ LocalsTypeOK

\* However create and reassign requests interleave with each other and with
\* changes of the users table, nobody is a reviewer of their own pull request
\* (the exclusions at pullrequest.go:43 and :131 suffice).
AuthorNeverReviews == \A p \in PRs : author[p] \notin reviewers[p]

\* While no team is deactivated and nobody moves from one team to another
\* (SettledSpec), every reviewer is a member of the author's team, however
\* creates and reassignments overlap with each other and with users who join
\* teams: a reassignment draws from the team of whom it replaces
\* (pullrequest.go:123), and so does the one after it.
ReviewersShareTeam ==
  \A p \in PRs : \A u \in reviewers[p] : team[u] = team[author[p]]

\* Of all requests to create a pull request at most one is answered with
\* success, and the stored author is the one it named, although the existence
\* check and the INSERT are two statements (pullrequest.go:28 and :61).
CreatedOnce ==
  \A v, w \in Workers :
    /\ req[v].op = "create" /\ reply[v] = "OK"
    /\ req[w].op = "create" /\ reply[w] = "OK"
    /\ req[v].pr = req[w].pr
    => v = w /\ author[req[w].pr] = req[w].user

\* An answer that a pull request is merged stays true: to the merge itself,
\* first or repeated, and to a reassignment refused because of it.
MergedAnswersHold ==
  \A w \in Workers :
    \/ req[w].op = "merge" /\ reply[w] = "OK"
    \/ reply[w] = "PR_MERGED"
    => status[req[w].pr] = "MERGED" /\ mergedAt[req[w].pr] # None

\* Reassignment never leaves a pull request without reviewers that had some,
\* whichever requests overlap and whichever statement of the replacement
\* fails: the DELETE and the INSERTs commit together (postgres.go:334).
ReviewersNeverRunOut ==
  [][\A p \in PRs : reviewers[p] # {} => reviewers'[p] # {}]_vars

\* Every request is answered in the end, also those that waited for the rows
\* of another reassignment or were caught in a deadlock with one.
EveryRequestAnswered ==
  \A w \in Workers : pc[w] # "idle" ~> pc[w] = "idle"

=============================================================================
