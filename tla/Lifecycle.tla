----------------------------- MODULE Lifecycle ------------------------------
(***************************************************************************)
(* The server process around the service (backend/internal/app/app.go):    *)
(* it starts, serves, and on a signal lets the requests in work end before *)
(* it exits, for ten seconds at most.  Every statement runs on one of the  *)
(* connections of the pool, which a transaction keeps until it ends.       *)
(***************************************************************************)
EXTENDS Service

CONSTANT MaxOpenConns    \* 25 in app.go; a request waits when all are taken

ASSUME LifecycleAssumption == MaxOpenConns \in Nat \ {0}

VARIABLES
  phase,   \* of the process: "closing" when it exits with requests in work
  conns    \* the workers that hold a connection

lifeVars == <<serviceVars, phase, conns>>

Phases == {"serving", "draining", "closing", "stopped"}

LifecycleInit == ServiceInit /\ phase = "serving" /\ conns = {}

\* Between BeginTx and Commit or Rollback.
InTransaction(w) ==
  \/ pc[w] \in {"commitpr", "locking", "inserting"}
  \/ at[w] \in {"insertteam", "committeam", "locking", "inserting"}

-----------------------------------------------------------------------------
\* Mutant: the listener is not closed before the requests in work are awaited.
AcceptWhileDraining(w) ==
  /\ phase \in {"serving", "draining"}
  /\ ReceiveAny(w)
  /\ UNCHANGED <<phase, conns>>

Accept(w) ==
  /\ phase = "serving"
  /\ ReceiveAny(w)
  /\ UNCHANGED <<phase, conns>>

\* database/sql hands a connection to the request that asked first.
Acquire(w) ==
  /\ phase \in {"serving", "draining"}
  /\ ~Idle(w) /\ w \notin conns
  /\ Cardinality(conns) < MaxOpenConns
  /\ conns' = conns \cup {w}
  /\ UNCHANGED <<serviceVars, phase>>

\* Mutant: CreateTeam without the deferred Rollback; the early return for a
\* team that exists leaves its transaction open.
ReleaseUnlessTeamExists(w) ==
  conns' = IF InTransaction(w)' \/ (at[w] = "team" /\ answer'[w] = "TEAM_EXISTS")
           THEN conns ELSE conns \ {w}

\* After a statement the connection goes back, unless a transaction is open.
Release(w) == conns' = IF InTransaction(w)' THEN conns ELSE conns \ {w}

Serve(w) ==
  /\ w \in conns
  /\ \/ Step(w) /\ UNCHANGED teamVars
     \/ TaskStep(w)
     \/ BreakTaskDeadlock(w)
  /\ Release(w)
  /\ UNCHANGED phase

\* The request fails, while it waits for a connection or with one.
Abort(w) ==
  /\ \/ Fail(w) /\ UNCHANGED teamVars
     \/ TaskFailure(w)
  /\ conns' = conns \ {w}
  /\ UNCHANGED phase

-----------------------------------------------------------------------------
\* SIGINT or SIGTERM: srv.Shutdown takes no more requests.
Signal ==
  /\ phase = "serving" /\ phase' = "draining"
  /\ UNCHANGED <<serviceVars, conns>>

\* The ten seconds are over and Start returns, or the process is killed: the
\* pool is closed and the requests that are left are cut off.
Close ==
  /\ MayFail
  /\ phase \in {"serving", "draining"} /\ phase' = "closing"
  /\ UNCHANGED <<serviceVars, conns>>

CutOff(w) == phase = "closing" /\ Abort(w)

Exit ==
  /\ phase \in {"draining", "closing"}
  /\ \A w \in Workers : Idle(w)
  /\ phase' = "stopped"
  /\ UNCHANGED <<serviceVars, conns>>

\* The next process finds the tables as they are; its migrations change
\* nothing, and its pool is empty.
Start ==
  /\ phase = "stopped" /\ phase' = "serving"
  /\ conns' = {}
  /\ UNCHANGED serviceVars

LifecycleNext ==
  \/ \E w \in Workers : Accept(w) \/ Acquire(w) \/ Serve(w) \/ Abort(w)
  \/ Signal \/ Close \/ Exit \/ Start

LifecycleSpec == LifecycleInit /\ [][LifecycleNext]_lifeVars

\* Connections and locks are granted in the order they were asked for; nothing
\* makes a request arrive or fail, a signal come or the process start again.
\* When the pool is closed the process ends, and with it what is in work.
LifecycleFairness ==
  /\ \A w \in Workers :
       /\ SF_lifeVars(Acquire(w)) /\ SF_lifeVars(Serve(w))
       /\ WF_lifeVars(CutOff(w))
  /\ WF_lifeVars(Exit)

-----------------------------------------------------------------------------
(***************************************************************************)
(* Properties.                                                             *)
(***************************************************************************)

\* No connection is lost to the pool: only requests in work hold one, and a
\* request that has a transaction open never waits for a second one (so that
\* 25 of them cannot wait for each other).
ConnectionsAccounted ==
  /\ \A w \in conns : ~Idle(w)
  /\ \A w \in Workers : InTransaction(w) => w \in conns
  /\ \A w \in Workers : tx[w] # NoTx => InTransaction(w)
  /\ Cardinality(conns) <= MaxOpenConns

\* Every request of every endpoint is answered in the end, although it waits
\* for connections, for the rows of other transactions, in deadlocks, and may
\* be cut off.
RequestsAnswered == \A w \in Workers : ~Idle(w) ~> Idle(w)

\* A process that was told to stop does, also if its ten seconds never end.
ShutdownCompletes == phase \in {"draining", "closing"} ~> phase = "stopped"

=============================================================================
