----------------------- MODULE PullRequestsInvariants -----------------------
(***************************************************************************)
(* The inductive invariants behind the safety properties of PullRequests,  *)
(* in layers: each is preserved by every step from a state in which the    *)
(* ones before it hold.                                                    *)
(***************************************************************************)
EXTENDS PullRequests

CreatePCs   == {"exists", "author", "candidates", "insertpr", "commitpr"}
ReadPCs     == {"header", "reviewers"}
ReassignPCs == {"olduser", "pick", "delete", "locking", "inserting"}

\* A worker is only at statements of the use case its request asks for.
PhaseOK ==
  \A w \in Workers :
    /\ pc[w] # "idle" => req[w] \in Requests
    /\ pc[w] \in CreatePCs => req[w].op = "create"
    /\ pc[w] \in ReadPCs => req[w].op \in {"merge", "reassign"}
    /\ pc[w] = "setstatus" => req[w].op = "merge"
    /\ pc[w] \in ReassignPCs => req[w].op = "reassign"

Typed == TypeOK /\ PhaseOK

\* A transaction is open exactly at the statements between its BEGIN and its
\* COMMIT, and is on the pull request of the request.
TxPCs == {"commitpr", "locking", "inserting"}

TxPhase(w) ==
  /\ pc[w] = "commitpr" =>
       /\ tx[w].pr = req[w].pr /\ tx[w].author = req[w].user
       /\ tx[w].seen = {} /\ tx[w].deleted = {} /\ tx[w].inserted = {}
  /\ pc[w] \in {"locking", "inserting"} =>
       tx[w].pr = req[w].pr /\ tx[w].author = None
  /\ pc[w] = "locking" => tx[w].deleted = {} /\ tx[w].inserted = {}
  /\ pc[w] = "inserting" => tx[w].seen = {}
  /\ pc[w] \notin TxPCs => tx[w] = NoTx

TxOK == \A w \in Workers : TxPhase(w)

Basics == TypeOK /\ PhaseOK /\ TxOK

-----------------------------------------------------------------------------
\* A pull request without a row has no reviewer rows and is not merged.
RowsConsistent ==
  \A p \in PRs : author[p] = None => reviewers[p] = {} /\ status[p] = "OPEN"

\* A pull request that is being inserted has no row yet, and one inserter.
SoleInserter ==
  \A v, w \in Workers :
    pc[v] = "commitpr" /\ pc[w] = "commitpr" /\ req[v].pr = req[w].pr => v = w

\* Who has read a pull request works on one that has a row, with that author.
PRPhase(w) ==
  /\ pc[w] = "commitpr" => author[req[w].pr] = None
  /\ pc[w] \in {"reviewers", "setstatus"} \cup ReassignPCs =>
       author[req[w].pr] # None /\ pr[w].author = author[req[w].pr]

Rows == RowsConsistent /\ SoleInserter /\ \A w \in Workers : PRPhase(w)

-----------------------------------------------------------------------------
WritePCs == {"delete", "locking", "inserting"}

\* What a request is going to write never contains the author.
Excluded(w) ==
  /\ pc[w] \in {"insertpr", "commitpr"} => req[w].user \notin todo[w]
  /\ pc[w] \in ReassignPCs => pr[w].author \notin pr[w].reviewers
  /\ pc[w] \in WritePCs => pr[w].author \notin todo[w] \cup tx[w].inserted

AuthorExcluded == AuthorNeverReviews /\ \A w \in Workers : Excluded(w)

\* Of the transactions that replace reviewers of one pull request, each owns
\* its keys alone and knows the rows they have.
Keys(w) == tx[w].deleted \cup tx[w].inserted

SoleOwners ==
  \A v, w \in Workers :
    v # w /\ tx[v].pr = tx[w].pr => Keys(v) \cap Keys(w) = {}

OwnRows(w) ==
  pc[w] \in {"locking", "inserting"} =>
    /\ tx[w].seen \cup tx[w].deleted \subseteq reviewers[req[w].pr]
    /\ tx[w].inserted \cap reviewers[req[w].pr] \subseteq tx[w].deleted

Locks == SoleOwners /\ \A w \in Workers : OwnRows(w)

\* A create that was answered with success has left its author's row, and no
\* other create of the same pull request was.
HasCreated(w, p) == req[w].op = "create" /\ reply[w] = "OK" /\ req[w].pr = p

Creations ==
  \A w \in Workers, p \in PRs :
    HasCreated(w, p) =>
      /\ author[p] = req[w].user /\ author[p] # None
      /\ \A v \in Workers \ {w} : ~HasCreated(v, p)

\* MERGED comes with a time, and who has read or been told it can rely on it.
Merged(p) == status[p] = "MERGED" /\ mergedAt[p] # None

KnowsMerged(w) ==
  \/ req[w].op = "merge" /\ reply[w] = "OK"
  \/ reply[w] = "PR_MERGED"
  \/ pc[w] = "reviewers" /\ IsMerged(w)

Merges ==
  /\ \A p \in PRs : status[p] = "MERGED" => mergedAt[p] # None
  /\ \A w \in Workers :
       KnowsMerged(w) => req[w].pr \in PRs /\ Merged(req[w].pr)

\* A replacement that has begun puts somebody in.
Replaces(w) == pc[w] \in WritePCs => todo[w] \cup tx[w].inserted # {}

Replacing == \A w \in Workers : Replaces(w)

IInv ==
  /\ Basics /\ Rows /\ AuthorExcluded /\ Locks
  /\ Creations /\ Merges /\ Replacing

-----------------------------------------------------------------------------
\* While nobody moves from one team to another, who is on a team stays there:
\* what requests have read of teams is current, and whom they are going to
\* assign is on the author's team.
OnTeamOf(a, S) == \A u \in S : team[u] = team[a] /\ team[u] # None

ReadTeamCurrent(w) ==
  pc[w] \in {"candidates", "pick"} =>
    fromTeam[w] = team[req[w].user] /\ fromTeam[w] # None

AssignsTeammates(w) ==
  /\ pc[w] \in {"insertpr", "commitpr"} => OnTeamOf(req[w].user, todo[w])
  /\ pc[w] \in ReassignPCs =>
       OnTeamOf(pr[w].author, pr[w].reviewers \cup {req[w].user})
  /\ pc[w] \in WritePCs =>
       OnTeamOf(pr[w].author, todo[w] \cup tx[w].inserted)

Teammates ==
  /\ \A p \in PRs : OnTeamOf(author[p], reviewers[p])
  /\ \A w \in Workers : ReadTeamCurrent(w) /\ AssignsTeammates(w)

=============================================================================
