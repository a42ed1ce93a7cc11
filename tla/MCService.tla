----------------------------- MODULE MCService ------------------------------
(***************************************************************************)
(* Instances of Service for TLC: servers started on a database that was    *)
(* used before, in which every request of the run may be the next one.     *)
(***************************************************************************)
EXTENDS SerialServiceInvariants, TLC

DataSymmetry ==
  Permutations(Users) \cup Permutations(Teams) \cup Permutations(PRs)

Symmetry == DataSymmetry \cup Permutations(Workers)

WorkersInit ==
  /\ tx = [w \in Workers |-> NoTx]
  /\ pc = [w \in Workers |-> "idle"]
  /\ req = [w \in Workers |-> NoRequest]
  /\ reply = [w \in Workers |-> "none"]
  /\ pr = [w \in Workers |-> NoPR]
  /\ fromTeam = [w \in Workers |-> None]
  /\ todo = [w \in Workers |-> {}]
  /\ TeamsInit

RosterInit ==
  /\ team \in [Users -> Teams \cup {None}]
  /\ active \in [Users -> BOOLEAN]
  /\ \A u \in Users : team[u] = None => ~active[u]
  /\ author \in {a \in [PRs -> Users \cup {None}] :
                   \A p \in PRs : a[p] # None => team[a[p]] # None}

\* Some pull requests were created, one after another, for the roster there is.
StandingInit ==
  /\ RosterInit
  /\ reviewers \in {R \in [PRs -> SUBSET Users] :
       \A p \in PRs :
         IF author[p] = None THEN R[p] = {}
         ELSE R[p] \in ReviewerChoices(
                         GetActiveUsersByTeam(team[author[p]], author[p]))}
  /\ status = [p \in PRs |-> "OPEN"]
  /\ mergedAt = [p \in PRs |-> None]
  /\ WorkersInit

\* Either there is no pull request yet, or all were created when all users were
\* active on one team, and some were merged; then the other team took some of
\* the users over, and some were switched off.
WornInit ==
  /\ RosterInit
  /\ reviewers \in {R \in [PRs -> SUBSET Users] :
       \A p \in PRs :
         R[p] \in IF author[p] = None THEN {{}}
                  ELSE ReviewerChoices(Users \ {author[p]})}
  /\ status \in {S \in [PRs -> Statuses] :
       \A p \in PRs : author[p] = None => S[p] = "OPEN"}
  /\ mergedAt \in {M \in [PRs -> Workers \cup {None}] :
       \A p \in PRs : (M[p] # None) <=> (status[p] = "MERGED")}
  /\ WorkersInit
  /\ \/ \A p \in PRs : author[p] = None
     \/ /\ \A p \in PRs : author[p] # None
        /\ \A u \in Users : UserExists(u)
        /\ teams = Teams

\* Every worker serves one request, at any time.  Deadlocks are not part of it:
\* two requests only wait for each other if a third has committed before, as
\* in MCLifecycle.
Fresh(w) == req[w].op = "none" /\ task[w].op = "none"

Once(w) ==
  \/ Fresh(w) /\ ReceiveAny(w)
  \/ PRStep(w) \/ TaskStep(w) \/ TaskFailure(w)

OnceSpec == StandingInit /\ [][\E w \in Workers : Once(w)]_serviceVars

\* One worker serves one request; one to add a team that exists names nobody.
Solo ==
  /\ Once(Only)
  /\ task'[Only].op = "teamAdd" /\ task'[Only].team \in teams /\ Fresh(Only)
       => task'[Only].members = {}

SoloSpec == WornInit /\ [][Solo]_serviceVars

=============================================================================
