---------------------------- MODULE UserUseCases ----------------------------
(***************************************************************************)
(* The user endpoints /users/setIsActive and /users/getReview              *)
(* (backend/internal/usecase/user.go) and /stats/reviewers, and how a      *)
(* request of the team and user endpoints arrives.  What a query returns   *)
(* to the client is not state: only the code of the answer is kept.        *)
(***************************************************************************)
EXTENDS TeamUseCases

\* SetUserIsActive for the one user the request names: the UPDATE, which finds
\* the row or does not, ...
SetFlag(w) ==
  /\ at[w] = "setflag"
  /\ \E u \in task[w].members :
       \/ /\ UpdateUserIsActive(u, u \in task[w].on)
          /\ \/ Proceed(w, "readback") /\ UNCHANGED job
             \/ MayFail /\ Finish(w, "ERROR")
       \/ /\ ~UserExists(u)
          /\ Finish(w, "NOT_FOUND")
          /\ UNCHANGED <<tables, tx>>
  /\ UNCHANGED teams

\* ... and the query for the user to answer with, in a second statement.
ReadBack(w) ==
  /\ at[w] = "readback"
  /\ \E u \in task[w].members :
       Finish(w, IF UserExists(u) THEN "OK" ELSE "NOT_FOUND")
  /\ KeepTables

\* GetUserReviews: the user, then the pull requests.
FindUser(w) ==
  /\ at[w] = "user"
  /\ \E u \in task[w].members :
       \/ ~UserExists(u) /\ Finish(w, "NOT_FOUND")
       \/ UserExists(u) /\ Proceed(w, "reviews") /\ UNCHANGED job
  /\ KeepTables

ListReviews(w) ==
  /\ at[w] = "reviews"
  /\ Finish(w, "OK")
  /\ KeepTables

CountReviews(w) ==
  /\ at[w] = "stats"
  /\ Finish(w, "OK")
  /\ KeepTables

UserStep(w) ==
  \/ SetFlag(w) \/ ReadBack(w)
  \/ FindUser(w) \/ ListReviews(w)
  \/ CountReviews(w)

-----------------------------------------------------------------------------
\* The first statement of each use case.
FirstLabel ==
  [teamAdd |-> "team", teamDeactivate |-> "exists", teamGet |-> "found",
   setIsActive |-> "setflag", getReview |-> "user", stats |-> "stats"]

\* What clients send: a member is named once, the other fields are empty
\* where an endpoint has none.
TaskRequests ==
  {r \in Tasks :
     /\ r.op \in Endpoints
     /\ r.on \subseteq r.members
     /\ r.op = "teamAdd" \/ Cardinality(r.members) =
          IF r.op \in {"setIsActive", "getReview"} THEN 1 ELSE 0
     /\ r.on # {} => r.op \in {"teamAdd", "setIsActive"}
     /\ (r.team # None) <=> r.op \in {"teamAdd", "teamDeactivate", "teamGet"}
     /\ r.op = "teamDeactivate" \/ r.strategy = "same_team"}

\* Requests that are answered before any statement: those the generated code
\* rejects, and a deactivation by a strategy that does not exist.
Refused(r) == r.op = "malformed" \/ r.strategy = "invalid"

\* A new request reaches an idle worker.
ReceiveTask(w) ==
  /\ at[w] = "idle"
  /\ \E r \in TaskRequests :
       /\ task' = [task EXCEPT ![w] = r]
       /\ at' = [at EXCEPT ![w] = IF Refused(r) THEN "idle"
                                  ELSE FirstLabel[r.op]]
       /\ answer' = [answer EXCEPT ![w] =
                       IF ~Refused(r) THEN "none"
                       ELSE IF r.op = "malformed" THEN "BAD_REQUEST"
                       ELSE "NO_CANDIDATE"]
  /\ UNCHANGED job
  /\ KeepTables

=============================================================================
