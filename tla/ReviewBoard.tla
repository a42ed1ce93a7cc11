---------------------------- MODULE ReviewBoard ----------------------------
(***************************************************************************)
(* The use cases of pullrequest.go as their callers see them through       *)
(* port/usecase.go, with no database in sight: every request takes effect, *)
(* and is given its answer, in one indivisible step.                       *)
(***************************************************************************)
EXTENDS FiniteSets, Integers

CONSTANTS
  Users, Teams, PRs,
  Clients,     \* where requests come from, each with one request at a time
  None

VARIABLES
  team,        \* the team of a user, None for a user nobody has registered
  active,      \* the isActive flag of a user
  author,      \* the author of a pull request, None before it is created
  status,      \* "OPEN" or "MERGED"
  reviewers,   \* the set of assigned reviewers of a pull request
  req,         \* the request a client has sent last
  reply        \* the answer to it, "none" while the client waits

board == <<author, status, reviewers>>
vars  == <<team, active, board, req, reply>>

Requests == [op : {"create", "merge", "reassign"}, pr : PRs,
             user : Users \cup {None}]

Init ==
  /\ team \in [Users -> Teams \cup {None}]
  /\ active \in [Users -> BOOLEAN]
  /\ author = [p \in PRs |-> None]
  /\ status = [p \in PRs |-> "OPEN"]
  /\ reviewers = [p \in PRs |-> {}]
  /\ req = [c \in Clients |-> [op |-> "none", pr |-> None, user |-> None]]
  /\ reply = [c \in Clients |-> "none"]

-----------------------------------------------------------------------------
Busy(c) == req[c].op # "none" /\ reply[c] = "none"

Ask(c) ==
  /\ ~Busy(c)
  /\ \E r \in Requests : req' = [req EXCEPT ![c] = r]
  /\ reply' = [reply EXCEPT ![c] = "none"]
  /\ UNCHANGED <<team, active, board>>

Waiting(c, op) == Busy(c) /\ req[c].op = op

Reply(c, code) ==
  /\ reply' = [reply EXCEPT ![c] = code]
  /\ UNCHANGED <<team, active, req>>

\* A request that has been carried out is told so, unless that is lost.
ReplyDone(c) == \E code \in {"OK", "ERROR"} : Reply(c, code)

\* A request refused with code changes nothing.
Refuse(c, code) == Reply(c, code) /\ UNCHANGED board

Teammates(u) == {v \in Users : team[v] = team[u] /\ active[v]} \ {u}

\* Two active teammates of the author, or all of them if there are fewer.
Create(c) ==
  LET p == req[c].pr
      a == req[c].user
      R == Teammates(a)
  IN /\ Waiting(c, "create")
     /\ \/ author[p] # None /\ Refuse(c, "PR_EXISTS")
        \/ team[a] = None /\ Refuse(c, "NOT_FOUND")
        \/ /\ author[p] = None /\ team[a] # None
           /\ author' = [author EXCEPT ![p] = a]
           /\ \E S \in SUBSET R :
                /\ Cardinality(S) = 2 \/ (S = R /\ Cardinality(S) < 2)
                /\ reviewers' = [reviewers EXCEPT ![p] = S]
           /\ UNCHANGED status
           /\ ReplyDone(c)

Merge(c) ==
  LET p == req[c].pr IN
  /\ Waiting(c, "merge")
  /\ \/ author[p] = None /\ Refuse(c, "NOT_FOUND")
     \/ /\ author[p] # None
        /\ status' = [status EXCEPT ![p] = "MERGED"]
        /\ UNCHANGED <<author, reviewers>>
        /\ ReplyDone(c)

\* One reviewer gives way to an active teammate of theirs who is neither the
\* author nor a reviewer already.
Reassign(c) ==
  LET p == req[c].pr
      old == req[c].user
      substitutes == Teammates(old) \ (reviewers[p] \cup {author[p]})
  IN /\ Waiting(c, "reassign")
     /\ \/ author[p] = None /\ Refuse(c, "NOT_FOUND")
        \/ status[p] = "MERGED" /\ Refuse(c, "PR_MERGED")
        \/ /\ author[p] # None /\ status[p] = "OPEN"
           /\ \/ old \notin reviewers[p] /\ Refuse(c, "NOT_ASSIGNED")
              \/ /\ old \in reviewers[p]
                 /\ substitutes = {}
                 /\ Refuse(c, "NO_CANDIDATE")
              \/ /\ old \in reviewers[p]
                 /\ \E new \in substitutes :
                      reviewers' =
                        [reviewers EXCEPT ![p] = (@ \ {old}) \cup {new}]
                 /\ UNCHANGED <<author, status>>
                 /\ ReplyDone(c)

\* The service may give up on a request, without a trace of it on the board.
\* A create is then also told NOT_FOUND, as the code does, although the author
\* may exist (backend/api/openapi.yaml:381 says otherwise).
GiveUp(c) ==
  /\ Busy(c)
  /\ \/ Refuse(c, "ERROR")
     \/ req[c].op = "create" /\ Refuse(c, "NOT_FOUND")

\* The user and team endpoints change users as they like.
ChangeUsers ==
  /\ team' \in [Users -> Teams \cup {None}]
  /\ active' \in [Users -> BOOLEAN]
  /\ UNCHANGED <<board, req, reply>>

Next ==
  \/ \E c \in Clients :
       Ask(c) \/ Create(c) \/ Merge(c) \/ Reassign(c) \/ GiveUp(c)
  \/ ChangeUsers

Spec == Init /\ [][Next]_vars

=============================================================================
