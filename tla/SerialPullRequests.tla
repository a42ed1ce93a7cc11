------------------------ MODULE SerialPullRequests --------------------------
(***************************************************************************)
(* PullRequests under the restriction for which it keeps the promises of   *)
(* ReviewBoard, answers included: creates and merges in any overlap, but   *)
(* reassignments, and changes of users, only while nothing else runs.  Any *)
(* statement may fail.                                                     *)
(***************************************************************************)
EXTENDS PullRequests

AllIdle == \A w \in Workers : pc[w] = "idle"

Reassigning(w) == pc[w] # "idle" /\ req[w].op = "reassign"

SerialNext ==
  \/ \E w \in Workers :
       /\ Receive(w)
       /\ AllIdle \/ (req'[w].op # "reassign"
                        /\ \A v \in Workers : ~Reassigning(v))
  \/ \E w \in Workers : Step(w) \/ Fail(w)
  \/ UsersStep /\ AllIdle

SerialSpec == Init /\ [][SerialNext]_vars

-----------------------------------------------------------------------------
Board == INSTANCE ReviewBoard WITH Clients <- Workers

\* The statements of a request and the code between them (pullrequest.go and
\* postgres.go) add up to one indivisible step of the promised service, at
\* the commit or at the statement whose result decides the answer.
Implements == Board!Spec

\* TaskDescription.md:17, entity/pullrequest.go:19: at most two reviewers.
AtMostTwoReviewers == \A p \in PRs : Cardinality(reviewers[p]) <= 2

\* TaskDescription.md:21: once merged, a pull request keeps its reviewers.
FrozenOnceMerged ==
  [][\A p \in PRs : status[p] = "MERGED" => reviewers'[p] = reviewers[p]]_vars

\* TaskDescription.md:28: only a user who is active is assigned to a review.
OnlyActiveAssigned ==
  [][\A p \in PRs : \A u \in reviewers'[p] \ reviewers[p] : active[u]]_vars

\* TaskDescription.md:29: merging again returns the state there is, so the
\* UPDATE that writes merged_at never meets a row that has one.
MergedAtOnce ==
  [][\A w \in Workers : SetMerged(w) => mergedAt[req[w].pr] = None]_vars

\* docs/perf/k6-script.js:22: "create status is 201 or 409" for an author who
\* exists.
CreateAnswers ==
  \A w \in Workers :
    req[w].op = "create" /\ reply[w] # "none" /\ UserExists(req[w].user)
      => reply[w] \in {"OK", "PR_EXISTS"}

=============================================================================
