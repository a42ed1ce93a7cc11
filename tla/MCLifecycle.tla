---------------------------- MODULE MCLifecycle -----------------------------
(***************************************************************************)
(* Instances of Lifecycle for TLC: three requests and two connections.     *)
(* The run starts from a state the server gets into: three requests to     *)
(* deactivate the team of one reviewer have run at the same time.  The     *)
(* first is answered; the second has chosen its replacement and not yet    *)
(* begun its transaction; the third began its DELETE before the first      *)
(* committed, and found no row when it got on.  Both have chosen another   *)
(* replacement than the first, so that their transactions may deadlock.    *)
(***************************************************************************)
EXTENDS Lifecycle

CONSTANTS
  Alice, Rob, Rita, Ben, Dan,    \* the author, the reviewer who leaves, the
                                 \* one who stays, and two of their team
  Left, Stay,                    \* Rob's team and that of all others
  Answered, Second, Third        \* the workers of the three requests

Deactivation ==
  [NoTask EXCEPT !.op = "teamDeactivate", !.team = Left,
                 !.strategy = "author_team"]

\* Second and third have looked for a replacement and found Dan.
Chosen(p) ==
  [NoJob EXCEPT !.targets = {Rob}, !.pr = p, !.author = Alice,
                !.old = {Rob, Rita}, !.list = {Rita, Dan}, !.cache[Alice] = Stay]

RushInit ==
  /\ team = [u \in Users |-> IF u = Rob THEN Left ELSE Stay]
  /\ active = [u \in Users |-> u # Rob]
  /\ teams = {Left, Stay}
  /\ \E p \in PRs :
       /\ author = [q \in PRs |-> IF q = p THEN Alice ELSE None]
       /\ reviewers = [q \in PRs |-> IF q = p THEN {Rita, Ben} ELSE {}]
       /\ tx = [w \in Workers |->
                  IF w = Third THEN [NoTx EXCEPT !.pr = p] ELSE NoTx]
       /\ job = [w \in Workers |->
                   IF w \in {Second, Third} THEN Chosen(p) ELSE NoJob]
  /\ status = [p \in PRs |-> "OPEN"]
  /\ mergedAt = [p \in PRs |-> None]
  /\ pc = [w \in Workers |-> "idle"]
  /\ req = [w \in Workers |-> NoRequest]
  /\ reply = [w \in Workers |-> "none"]
  /\ pr = [w \in Workers |-> NoPR]
  /\ fromTeam = [w \in Workers |-> None]
  /\ todo = [w \in Workers |-> {}]
  /\ at = [w \in Workers |-> IF w = Second THEN "delete"
                             ELSE IF w = Third THEN "inserting" ELSE "idle"]
  /\ task = [w \in Workers |-> Deactivation]
  /\ answer = [w \in Workers |-> IF w = Answered THEN "OK" ELSE "none"]
  /\ phase = "serving" /\ conns = {Third}

\* One more request, while the other two are in work; a new team has one member.
AcceptOne ==
  /\ task[Answered] = Deactivation
  /\ Accept(Answered)
  /\ Cardinality(task'[Answered].members) <= 1

RushNext ==
  \/ AcceptOne
  \/ \E w \in Workers : Acquire(w) \/ Serve(w) \/ Abort(w)
  \/ Signal \/ Close \/ Exit \/ Start

RushSpec == RushInit /\ [][RushNext]_lifeVars /\ LifecycleFairness

=============================================================================
