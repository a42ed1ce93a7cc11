------------------------------- MODULE Server -------------------------------
(***************************************************************************)
(* What reaches the use cases through HTTP and what they answer: the       *)
(* routes of backend/internal/input/http/gen/server.go and the handlers of *)
(* backend/internal/input/http/handler/server.go.                          *)
(***************************************************************************)
EXTENDS FiniteSets, Integers, Store

CONSTANTS
  Endpoints,   \* which requests arrive, to shape instances
  MayFail      \* can a statement fail: connection lost, client gone and its
               \* context cancelled, victim of PostgreSQL's deadlock detector

Operations    == {"create", "merge", "reassign"}
UserEndpoints == {"setIsActive", "teamAdd", "teamDeactivate"}
ReadEndpoints == {"teamGet", "getReview", "stats"}

\* "malformed" is a request to any route whose body cannot be decoded or that
\* lacks its query parameter.
ASSUME ServerAssumption ==
  /\ Endpoints \subseteq
       Operations \cup UserEndpoints \cup ReadEndpoints \cup {"malformed"}
  /\ MayFail \in BOOLEAN

\* Only so many users are registered that they can be counted.
ASSUME UsersAssumption == IsFiniteSet(Users)

\* The answer of a use case: success, a domain error, or any other error; and
\* that of the generated code to a malformed request.
Codes == {"none", "OK", "TEAM_EXISTS", "PR_EXISTS", "NOT_FOUND", "PR_MERGED",
          "NOT_ASSIGNED", "NO_CANDIDATE", "ERROR", "BAD_REQUEST"}

\* The domain errors each handler turns into a response of its own.
Handled ==
  [create         |-> {"PR_EXISTS", "NOT_FOUND"},
   merge          |-> {"NOT_FOUND"},
   reassign       |-> {"NOT_FOUND", "PR_MERGED", "NOT_ASSIGNED",
                       "NO_CANDIDATE"},
   setIsActive    |-> {"NOT_FOUND"},
   teamAdd        |-> {"TEAM_EXISTS"},
   teamDeactivate |-> {"NOT_FOUND", "NO_CANDIDATE"},
   teamGet        |-> {"NOT_FOUND"},
   getReview      |-> {"NOT_FOUND"},
   stats          |-> {},
   malformed      |-> {}]

\* Mutant: the handlers know no conflicts.
StatusWithoutConflicts(op, code) ==
  CASE code = "OK" -> IF op \in {"create", "teamAdd"} THEN 201 ELSE 200
    [] code = "BAD_REQUEST" -> 400
    [] code \in Handled[op] /\ code = "TEAM_EXISTS" -> 400
    [] code \in Handled[op] /\ code = "NOT_FOUND" -> 404
    [] OTHER -> 500

\* The status line of the answer.
HTTPStatus(op, code) ==
  CASE code = "OK" -> IF op \in {"create", "teamAdd"} THEN 201 ELSE 200
    [] code = "BAD_REQUEST" -> 400
    [] code \in Handled[op] /\ code = "TEAM_EXISTS" -> 400
    [] code \in Handled[op] /\ code = "NOT_FOUND" -> 404
    [] code \in Handled[op] \ {"TEAM_EXISTS", "NOT_FOUND"} -> 409
    [] OTHER -> 500

=============================================================================
