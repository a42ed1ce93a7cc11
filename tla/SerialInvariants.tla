-------------------------- MODULE SerialInvariants --------------------------
(***************************************************************************)
(* The inductive invariant behind what SerialPullRequests promises: what a *)
(* request has read is still so when it writes, because nobody else writes *)
(* it meanwhile.                                                           *)
(***************************************************************************)
EXTENDS SerialPullRequests, PullRequestsInvariants

\* While a request to reassign is in work no other is.
ReassignsAlone ==
  \A v, w \in Workers : Reassigning(v) /\ pc[w] # "idle" => v = w

\* A worker is busy from the arrival of a request to its answer.
BusyUntilAnswered ==
  \A w \in Workers :
    pc[w] # "idle" <=> req[w].op # "none" /\ reply[w] = "none"

RegisteredReviewers == \A p \in PRs : \A u \in reviewers[p] : UserExists(u)

\* A create has read the author's team, and chosen reviewers, as they are.
CreateKnows(w) ==
  /\ pc[w] \in {"candidates", "insertpr", "commitpr"} =>
       UserExists(req[w].user)
  /\ pc[w] = "candidates" => fromTeam[w] = team[req[w].user]
  /\ pc[w] \in {"insertpr", "commitpr"} =>
       todo[w] \in ReviewerChoices(
                     GetActiveUsersByTeam(team[req[w].user], req[w].user))

\* Who may take the place of the reviewer to be replaced.
Substitutes(w) ==
  GetActiveUsersByTeam(team[req[w].user], req[w].user)
    \ ({author[req[w].pr]} \cup reviewers[req[w].pr])

\* A reassignment has read the pull request as it is, replaces one of its
\* reviewers, and deletes all rows there are.
ReassignKnows(w) ==
  LET p == req[w].pr IN
  /\ pc[w] = "reviewers" /\ req[w].op = "reassign" => pr[w].status = status[p]
  /\ pc[w] \in ReassignPCs =>
       /\ status[p] = "OPEN"
       /\ req[w].user \in reviewers[p] /\ pr[w].reviewers = reviewers[p]
  /\ pc[w] = "pick" => fromTeam[w] = team[req[w].user]
  /\ pc[w] \in WritePCs =>
       \E new \in Substitutes(w) :
         todo[w] \cup tx[w].inserted = (reviewers[p] \ {req[w].user}) \cup {new}
  /\ pc[w] = "locking" => tx[w].seen = reviewers[p]
  /\ pc[w] = "inserting" => tx[w].deleted = reviewers[p]

Informed == \A w \in Workers : CreateKnows(w) /\ ReassignKnows(w)

SerialInv ==
  /\ Basics /\ Rows /\ Merges
  /\ ReassignsAlone /\ BusyUntilAnswered
  /\ RegisteredReviewers /\ AtMostTwoReviewers /\ Informed

=============================================================================
