--------------------------- MODULE MCPullRequests ---------------------------
(***************************************************************************)
(* Instances of PullRequests for TLC.                                      *)
(***************************************************************************)
EXTENDS SerialInvariants, TLC

\* Users, teams, pull requests and workers are interchangeable.
Symmetry == Permutations(Users) \cup Permutations(Teams)
              \cup Permutations(PRs) \cup Permutations(Workers)

\* Everybody is on one team and active: the rosters with most choices.
FullRosterInit ==
  /\ Init
  /\ \E t \in Teams : \A u \in Users : team[u] = t /\ active[u]

\* Only requests of the pull request endpoints arrive: users stay as they are.
RequestsNext == \E w \in Workers : Receive(w) \/ Step(w) \/ Fail(w)

FullRosterFairSpec == FullRosterInit /\ [][RequestsNext]_vars /\ Fairness

=============================================================================
