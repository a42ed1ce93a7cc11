------------------------------- MODULE Store -------------------------------
(***************************************************************************)
(* The PostgreSQL database behind the service, as the repository in        *)
(* backend/internal/adapter/repository/postgres/postgres.go uses it: the   *)
(* rows of users, pull_requests and pull_request_reviewers, and the state  *)
(* of the transactions that are open on them.                              *)
(*                                                                         *)
(* The code never names an isolation level, so every transaction runs at   *)
(* PostgreSQL's default, READ COMMITTED: each statement reads the rows     *)
(* committed when it starts.  Autocommitted statements on one row are      *)
(* single steps.  A DELETE or an UPDATE of many rows takes its snapshot    *)
(* first and locks the rows afterwards, here all at once.  A DELETE waits  *)
(* for a transaction that has already deleted one of them, then skips the  *)
(* rows that transaction removed and never sees the rows it added; an      *)
(* UPDATE looks again whether the rows it has found still meet its WHERE   *)
(* clause, and never at others.  An INSERT waits for an open transaction   *)
(* that holds the same key and fails if the key is there once nobody holds *)
(* it.                                                                     *)
(***************************************************************************)

CONSTANTS
  Users,     \* user_id values
  Teams,     \* team_name values
  PRs,       \* pull_request_id values
  Workers,   \* requests the server handles at the same time; each has its
             \* own database session, and a session serves one request after
             \* another
  None       \* "no such row", "not read yet"

ASSUME StoreAssumption ==
  /\ None \notin Users
  /\ None \notin Teams
  /\ None \notin PRs
  /\ None \notin Workers

VARIABLES
  team,       \* team[u]: users.team_name, None when u has no row
  active,     \* active[u]: users.is_active
  author,     \* author[p]: pull_requests.author_id, None when p has no row
  status,     \* status[p]: pull_requests.status
  mergedAt,   \* mergedAt[p]: pull_requests.merged_at, a time being named by
              \* the session that took it
  reviewers,  \* reviewers[p]: committed rows of pull_request_reviewers of p
  tx          \* tx[w]: the transaction open in session w

userTable == <<team, active>>
prTables  == <<author, status, mergedAt, reviewers>>
tables    == <<team, active, author, status, mergedAt, reviewers>>

Statuses == {"OPEN", "MERGED"}

\* A transaction works on the rows of one pull request: the author of a
\* pull_requests row it has inserted, the reviewer rows its DELETE has seen
\* and not yet locked, those it has deleted, and those it has inserted.
Transactions ==
  [pr : PRs \cup {None}, author : Users \cup {None},
   seen : SUBSET Users, deleted : SUBSET Users, inserted : SUBSET Users]

NoTx == [pr |-> None, author |-> None,
         seen |-> {}, deleted |-> {}, inserted |-> {}]

StoreTypeOK ==
  /\ team \in [Users -> Teams \cup {None}]
  /\ active \in [Users -> BOOLEAN]
  /\ author \in [PRs -> Users \cup {None}]
  /\ status \in [PRs -> Statuses]
  /\ mergedAt \in [PRs -> Workers \cup {None}]
  /\ reviewers \in [PRs -> SUBSET Users]
  /\ tx \in [Workers -> Transactions]

\* The migrated database with any roster of users the team and user
\* endpoints may have left in it, and no pull request yet.
StoreInit ==
  /\ team \in [Users -> Teams \cup {None}]
  /\ active \in [Users -> BOOLEAN]
  /\ \A u \in Users : team[u] = None => ~active[u]
  /\ author = [p \in PRs |-> None]
  /\ status = [p \in PRs |-> "OPEN"]
  /\ mergedAt = [p \in PRs |-> None]
  /\ reviewers = [p \in PRs |-> {}]
  /\ tx = [w \in Workers |-> NoTx]

-----------------------------------------------------------------------------
(***************************************************************************)
(* Queries.                                                                *)
(***************************************************************************)

UserExists(u) == team[u] # None

PRExists(p) == author[p] # None

\* Mutants: the WHERE clause without is_active, and without team_name.
GetUsersOfTeam(t, exclude) == {u \in Users : team[u] = t /\ u # exclude}

GetActiveUsers(t, exclude) == {u \in Users : active[u] /\ u # exclude}

GetActiveUsersByTeam(t, exclude) ==
  {u \in Users : team[u] = t /\ active[u] /\ u # exclude}

-----------------------------------------------------------------------------
(***************************************************************************)
(* Autocommitted statements.                                               *)
(***************************************************************************)

UpdateUserIsActive(u, isActive) ==
  /\ UserExists(u)
  /\ active' = [active EXCEPT ![u] = isActive]
  /\ UNCHANGED <<team, prTables, tx>>

\* The upsert behind team creation: a user that exists moves to the new team.
CreateOrUpdateUser(u, t, isActive) ==
  /\ team' = [team EXCEPT ![u] = t]
  /\ active' = [active EXCEPT ![u] = isActive]
  /\ UNCHANGED <<prTables, tx>>

\* The UPDATE has found the rows of these users when it started.
BulkDeactivateUsersByTeam(t, found) ==
  /\ active' = [u \in Users |-> active[u] /\ ~(u \in found /\ team[u] = t)]
  /\ UNCHANGED <<team, prTables, tx>>

\* Mutant: a status the table's CHECK does not know.
UpdateStatusToClosed(w, p) ==
  /\ status' = [status EXCEPT ![p] = "CLOSED"]
  /\ mergedAt' = [mergedAt EXCEPT ![p] = w]
  /\ UNCHANGED <<userTable, author, reviewers, tx>>

\* The UPDATE has no condition on the status the row has by then.
UpdatePullRequestStatus(w, p) ==
  /\ status' = [status EXCEPT ![p] = "MERGED"]
  /\ mergedAt' = [mergedAt EXCEPT ![p] = w]
  /\ UNCHANGED <<userTable, author, reviewers, tx>>

-----------------------------------------------------------------------------
(***************************************************************************)
(* The transaction of CreatePullRequest.  Nothing of it is visible to any  *)
(* other session before the COMMIT, so the INSERTs of the reviewer rows    *)
(* are part of the committing step.                                        *)
(***************************************************************************)

OthersInsertingPR(w, p) ==
  {v \in Workers \ {w} : tx[v].pr = p /\ tx[v].author # None}

\* Mutant: INSERT ... ON CONFLICT DO UPDATE, as CreateOrUpdateUser has it.
UpsertPullRequest(w, p, a) ==
  /\ OthersInsertingPR(w, p) = {}
  /\ tx' = [tx EXCEPT ![w] = [NoTx EXCEPT !.pr = p, !.author = a]]
  /\ UNCHANGED tables

InsertPullRequest(w, p, a) ==
  /\ OthersInsertingPR(w, p) = {}
  /\ ~PRExists(p)
  /\ tx' = [tx EXCEPT ![w] = [NoTx EXCEPT !.pr = p, !.author = a]]
  /\ UNCHANGED tables

InsertPullRequestFails(w, p) ==
  /\ OthersInsertingPR(w, p) = {}
  /\ PRExists(p)

CommitPullRequest(w, assigned) ==
  LET p == tx[w].pr IN
  /\ author' = [author EXCEPT ![p] = tx[w].author]
  /\ status' = [status EXCEPT ![p] = "OPEN"]
  /\ reviewers' = [reviewers EXCEPT ![p] = assigned]
  /\ tx' = [tx EXCEPT ![w] = NoTx]
  /\ UNCHANGED <<userTable, mergedAt>>

-----------------------------------------------------------------------------
(***************************************************************************)
(* The transaction of UpdatePullRequestReviewers: DELETE all reviewer rows *)
(* of the pull request, INSERT the new ones one at a time, COMMIT.         *)
(***************************************************************************)

\* Open transactions of other sessions that hold the row of reviewer u.
Holders(w, p, u) ==
  {v \in Workers \ {w} : tx[v].pr = p /\ u \in tx[v].deleted \cup tx[v].inserted}

StartDeleteReviewers(w, p) ==
  /\ tx' = [tx EXCEPT ![w] = [NoTx EXCEPT !.pr = p, !.seen = reviewers[p]]]
  /\ UNCHANGED tables

FinishDeleteReviewers(w) ==
  /\ \A u \in tx[w].seen : Holders(w, tx[w].pr, u) = {}
  /\ tx' = [tx EXCEPT ![w].deleted = tx[w].seen, ![w].seen = {}]
  /\ UNCHANGED tables

DuplicateReviewer(w, u) == u \in reviewers[tx[w].pr] \ tx[w].deleted

InsertReviewer(w, u) ==
  /\ Holders(w, tx[w].pr, u) = {}
  /\ ~DuplicateReviewer(w, u)
  /\ tx' = [tx EXCEPT ![w].inserted = @ \cup {u}]
  /\ UNCHANGED tables

InsertReviewerFails(w, u) ==
  /\ Holders(w, tx[w].pr, u) = {}
  /\ DuplicateReviewer(w, u)

\* The rows a committed transaction deleted are gone for every DELETE that
\* was waiting for them.
CommitReviewers(w) ==
  LET p == tx[w].pr IN
  /\ reviewers' =
       [reviewers EXCEPT ![p] = (@ \ tx[w].deleted) \cup tx[w].inserted]
  /\ tx' = [v \in Workers |->
              IF v = w THEN NoTx
              ELSE IF tx[v].pr = p
                   THEN [tx[v] EXCEPT !.seen = @ \ tx[w].deleted]
                   ELSE tx[v]]
  /\ UNCHANGED <<userTable, author, status, mergedAt>>

\* Mutants: the DELETE runs outside the transaction; the deferred Rollback is
\* missing, and the session stays in its transaction.
RollbackWithoutDeletes(w) ==
  /\ reviewers' = [p \in PRs |-> IF p = tx[w].pr
                                THEN reviewers[p] \ tx[w].deleted
                                ELSE reviewers[p]]
  /\ tx' = [tx EXCEPT ![w] = NoTx]
  /\ UNCHANGED <<userTable, author, status, mergedAt>>

RollbackForgotten(w) == UNCHANGED <<tables, tx>>

\* A statement failed or the request ended: whatever w had not committed is
\* gone (the deferred tx.Rollback).
Rollback(w) ==
  /\ tx' = [tx EXCEPT ![w] = NoTx]
  /\ UNCHANGED tables

=============================================================================
