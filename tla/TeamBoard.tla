------------------------------ MODULE TeamBoard -----------------------------
(***************************************************************************)
(* The use cases of team.go and user.go as their callers see them through  *)
(* port/usecase.go, one request at a time.  Adding and deactivating a team *)
(* are promised as what they are: a series of visible steps, any of which  *)
(* may be the last one before the request is given up.                     *)
(***************************************************************************)
EXTENDS FiniteSets, Integers

CONSTANTS Users, Teams, PRs, None

VARIABLES
  teams,       \* the teams there are
  team,        \* the team of a user, None for a user nobody has registered
  active,      \* the isActive flag of a user
  author,      \* the author of a pull request, None before it is created
  status,      \* "OPEN" or "MERGED"
  reviewers,   \* the set of assigned reviewers of a pull request
  asked,       \* the request that was sent last, its data while it waits
  told,        \* the answer to it, "none" before it
  left,        \* members of the team just added who are not yet on it
  added,       \* whether the request has added its team
  short        \* whether a pull request was left without a substitute

board == <<author, status, reviewers>>
users == <<team, active>>
vars  == <<teams, users, board, asked, told, left, added, short>>

Init ==
  /\ teams \subseteq Teams
  /\ team \in [Users -> teams \cup {None}]
  /\ active \in [Users -> BOOLEAN]
  /\ author \in [PRs -> Users \cup {None}]
  /\ status \in [PRs -> {"OPEN", "MERGED"}]
  /\ reviewers \in [PRs -> SUBSET Users]
  /\ asked.op = "none" /\ told = "none"
  /\ left = {} /\ ~added /\ ~short

-----------------------------------------------------------------------------
Waiting(op) == asked.op = op /\ told = "none"

Idle == asked.op = "none" \/ told # "none"

Tell(code) ==
  /\ told' = code
  /\ asked' = [asked EXCEPT !.members = {}, !.on = {}]
  /\ left' = {} /\ ~added' /\ ~short'

\* What was done is reported, unless the report is lost.
Report(code) == \E c \in {code, "ERROR"} : Tell(c)

Refuse(code) == Tell(code) /\ UNCHANGED <<teams, users, board>>

\* A request that cannot be understood is refused at once.
Ask ==
  /\ Idle
  /\ told' \in {"none", "BAD_REQUEST", "NO_CANDIDATE"}
  /\ told' = "BAD_REQUEST" <=> asked'.op = "malformed"
  /\ told' = "NO_CANDIDATE" =>
       asked'.op = "teamDeactivate" /\ asked'.strategy = "invalid"
  /\ UNCHANGED <<teams, users, board, left, added, short>>

-----------------------------------------------------------------------------
Register ==
  /\ Waiting("teamAdd") /\ ~added
  /\ asked.team \notin teams
  /\ teams' = teams \cup {asked.team}
  /\ \/ asked.members = {} /\ Report("OK")
     \/ /\ asked.members # {}
        /\ left' = asked.members /\ added'
        /\ UNCHANGED <<asked, told, short>>
     \/ Tell("ERROR")
  /\ UNCHANGED <<users, board>>

\* One member more; the last one completes the team.
Enroll(u) ==
  /\ Waiting("teamAdd") /\ u \in left
  /\ team' = [team EXCEPT ![u] = asked.team]
  /\ active' = [active EXCEPT ![u] = u \in asked.on]
  /\ \/ left = {u} /\ Report("OK")
     \/ /\ left # {u} /\ left' = left \ {u}
        /\ UNCHANGED <<asked, told, added, short>>
     \/ Tell("ERROR")
  /\ UNCHANGED <<teams, board>>

Members == {u \in Users : team[u] = asked.team /\ active[u]}

AtMost(n, S) == IF n < Cardinality(S) THEN n ELSE Cardinality(S)

\* All members of the team leave an open pull request, and as many active
\* users of other teams take their places: teammates of the author as long as
\* there are any.  Of the others the author may be one, as the code has it.
Relieve(p) ==
  LET leaving   == reviewers[p] \cap Members
      available == {u \in Users : active[u]} \ (Members \cup reviewers[p])
      near      == {u \in available : team[u] = team[author[p]]} \ {author[p]}
      n         == Cardinality(leaving)
  IN /\ Waiting("teamDeactivate")
     /\ status[p] = "OPEN" /\ n > 0
     /\ \E new \in SUBSET available :
          /\ Cardinality(new) = AtMost(n, available)
          /\ Cardinality(new \cap near) = AtMost(n, near)
          /\ reviewers' = [reviewers EXCEPT ![p] = (@ \ leaving) \cup new]
     /\ \/ /\ short' = (short \/ Cardinality(available) < n)
           /\ UNCHANGED <<asked, told, left, added>>
        \/ Tell("ERROR")
     /\ UNCHANGED <<teams, users, author, status>>

\* Nobody is deactivated who still reviews an open pull request.  What is told
\* when somebody could not be substituted is left open: the repository
\* documents both a success that counts the pull requests skipped and 409.
Dismiss ==
  /\ Waiting("teamDeactivate")
  /\ asked.team \in teams /\ Members # {}
  /\ \A p \in PRs : status[p] = "OPEN" => reviewers[p] \cap Members = {}
  /\ active' = [u \in Users |-> active[u] /\ u \notin Members]
  /\ \/ Report("OK")
     \/ short /\ Report("NO_CANDIDATE")
  /\ UNCHANGED <<teams, team, board>>

Flag ==
  /\ Waiting("setIsActive")
  /\ \E u \in asked.members :
       /\ team[u] # None
       /\ active' = [active EXCEPT ![u] = u \in asked.on]
  /\ \/ UNCHANGED <<asked, told, left, added, short>>
     \/ Tell("ERROR")
  /\ UNCHANGED <<teams, team, board>>

\* The user who is shown has the flag that was asked for.
Confirm ==
  /\ Waiting("setIsActive")
  /\ \A u \in asked.members : team[u] # None /\ active[u] = (u \in asked.on)
  /\ Refuse("OK")

Look ==
  \/ Waiting("teamGet") /\ asked.team \in teams /\ Refuse("OK")
  \/ Waiting("getReview") /\ (\A u \in asked.members : team[u] # None)
       /\ Refuse("OK")
  \/ Waiting("stats") /\ Refuse("OK")

NotFound ==
  /\ \/ Waiting("teamGet") /\ asked.team \notin teams
     \/ Waiting("teamDeactivate") /\ (asked.team \notin teams \/ Members = {})
     \/ /\ Waiting("getReview") \/ Waiting("setIsActive")
        /\ \A u \in asked.members : team[u] = None
  /\ Refuse("NOT_FOUND")

TeamExists ==
  /\ Waiting("teamAdd") /\ ~added
  /\ asked.team \in teams
  /\ Refuse("TEAM_EXISTS")

GiveUp == ~Idle /\ Refuse("ERROR")

\* The pull request endpoints do what they like with the pull requests while
\* none of these requests is in work.
Others ==
  /\ Idle
  /\ asked'.op = "none" /\ told' = "none"
  /\ UNCHANGED <<teams, users, left, added, short>>

Next ==
  \/ Ask \/ Register \/ (\E u \in left : Enroll(u)) \/ TeamExists
  \/ (\E p \in PRs : Relieve(p)) \/ Dismiss
  \/ Flag \/ Confirm \/ Look \/ NotFound \/ GiveUp \/ Others

Spec == Init /\ [][Next]_vars

=============================================================================
