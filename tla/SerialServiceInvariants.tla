---------------------- MODULE SerialServiceInvariants -----------------------
(***************************************************************************)
(* The inductive invariants behind what SerialService promises of a        *)
(* service with one worker, beyond those of ServiceInvariants.             *)
(***************************************************************************)
EXTENDS SerialService, ServiceInvariants, SerialInvariants

\* What SerialInv says is true whoever works, but that a deactivation has
\* transactions of its own.
SerialRows ==
  /\ Rows /\ Merges /\ BusyUntilAnswered /\ AtMostTwoReviewers /\ Informed
  /\ \A p \in PRs : mergedAt[p] # None => status[p] = "MERGED"

\* A request of the other endpoints is over when one to a pull request is in
\* work, and its local variables are gone when it is answered.
JobLabels == {"members", "affected", "nextpr", "switchoff"} \cup WorkLabels

OneAtATime(w) ==
  /\ pc[w] # "idle" => task[w].op = "none" /\ answer[w] = "none"
  /\ at[w] = "idle" /\ answer[w] = "none" => task[w].op = "none"
  /\ at[w] \notin JobLabels => job[w] = NoJob
  /\ at[w] = "members" => job[w].pr = None /\ job[w].skipped = {}

\* What the statements of these requests have found is still so.
StillSo(w) ==
  /\ at[w] \in {"setflag", "readback", "user", "reviews"} =>
       \E u \in Users : task[w].members = {u}
  /\ at[w] \in {"readback", "reviews"} =>
       \A u \in task[w].members : UserExists(u)
  /\ at[w] = "readback" =>
       \A u \in task[w].members : active[u] = (u \in task[w].on)
  /\ at[w] \in ({"listed"} \cup DeactivateLabels) \ {"exists"} =>
       task[w].team \in teams

\* A merge has read the status that the pull request has.
MergeKnows(w) ==
  /\ pc[w] = "reviewers" => pr[w].status = status[req[w].pr]
  /\ pc[w] = "setstatus" => status[req[w].pr] = "OPEN"

-----------------------------------------------------------------------------
\* The pull requests that a deactivation still has to look at are those with
\* members of the team among their reviewers.
LoopLabels == {"nextpr", "switchoff"} \cup WorkLabels

Loop(w) ==
  /\ at[w] \in {"affected"} \cup LoopLabels =>
       /\ job[w].targets = ActiveMembers(task[w].team)
       /\ job[w].targets # {}
       /\ \A u \in Users : job[w].cache[u] \in {None, team[u]}
  /\ at[w] = "affected" => job[w].skipped = {}
  /\ at[w] \in {"affected", "nextpr", "switchoff"} => job[w].pr = None
  /\ at[w] = "switchoff" => job[w].prs = {} /\ job[w].list = job[w].targets
  /\ at[w] \in LoopLabels =>
       /\ GetOpenPullRequestsByReviewers(job[w].targets) =
            job[w].prs \cup ({job[w].pr} \ {None})
       /\ job[w].pr \notin job[w].prs
       /\ job[w].skipped \cap job[w].prs = {}
  /\ at[w] \in WorkLabels =>
       job[w].author = author[job[w].pr] /\ job[w].status = "OPEN"
  /\ at[w] = "authorteam" => job[w].cache[job[w].author] = team[job[w].author]

\* For the pull request in work: who leaves, who could come, who of these is
\* of the author's team, and who has been found.
Leaving(w) == reviewers[job[w].pr] \cap job[w].targets

Available(w) ==
  {u \in Users : active[u]} \ (job[w].targets \cup reviewers[job[w].pr])

Near(w) ==
  {u \in Available(w) : team[u] = team[author[job[w].pr]]}
    \ {author[job[w].pr]}

Found(w) == (job[w].list \cup tx[w].inserted) \ reviewers[job[w].pr]

\* One is found for each reviewer that has been settled, in the author's team
\* first, unless there was nobody left; then the pull request is skipped.
Substituting(w) ==
  LET p == job[w].pr
      settled == Cardinality(Leaving(w)) - job[w].owed
  IN /\ (job[w].list \cup tx[w].inserted) \cap reviewers[p]
          = reviewers[p] \ job[w].targets
     /\ Found(w) \subseteq Available(w)
     /\ settled >= 0
     /\ p \notin job[w].skipped => Cardinality(Found(w)) = settled
     /\ p \in job[w].skipped =>
          Found(w) = Available(w) /\ Cardinality(Found(w)) < settled
     /\ Near(w) \subseteq Found(w) \/ Found(w) \subseteq Near(w)
     /\ at[w] = "everyone" => Near(w) \subseteq Found(w)

Relieving(w) ==
  /\ at[w] = "current" => job[w].pr \notin job[w].skipped
  /\ at[w] \in ListLabels => Substituting(w)
  /\ at[w] \in {"delete", "locking", "inserting"} => job[w].owed = 0
  /\ at[w] = "locking" => tx[w].seen = reviewers[job[w].pr]
  /\ at[w] = "inserting" => tx[w].deleted = reviewers[job[w].pr]

SoloInv ==
  /\ SerialRows
  /\ \A w \in Workers :
       OneAtATime(w) /\ MergeKnows(w) /\ StillSo(w) /\ Loop(w) /\ Relieving(w)

=============================================================================
