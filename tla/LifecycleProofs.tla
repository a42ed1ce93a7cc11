-------------------------- MODULE LifecycleProofs ---------------------------
(***************************************************************************)
(* Proofs about Lifecycle: that a server process with its pool and its     *)
(* ends serves as Service says, and that its connections come back.        *)
(***************************************************************************)
EXTENDS Lifecycle, ServiceRecordProofs

\* Every step of the process is one of the service, or none that it sees.
LEMMA LifecycleStepsServe ==
  ASSUME [LifecycleNext]_lifeVars PROVE [ServiceNext]_serviceVars
<1>1. CASE UNCHANGED lifeVars
  BY <1>1 DEF lifeVars
<1>2. ASSUME NEW w \in Workers, Accept(w)
      PROVE  ServiceNext
  BY <1>2 DEF Accept, ServiceNext
<1>3. ASSUME NEW w \in Workers, Serve(w)
      PROVE  ServiceNext
  BY <1>3 DEF Serve, ServiceNext, PRStep
<1>4. ASSUME NEW w \in Workers, Abort(w)
      PROVE  ServiceNext
  BY <1>4 DEF Abort, ServiceNext, PRStep
<1>5. ASSUME NEW w \in Workers, Acquire(w)
      PROVE  UNCHANGED serviceVars
  BY <1>5 DEF Acquire
<1>6. CASE Signal \/ Close \/ Exit \/ Start
  BY <1>6 DEF Signal, Close, Exit, Start
<1> QED BY <1>1, <1>2, <1>3, <1>4, <1>5, <1>6 DEF LifecycleNext

\* A process that runs out of connections, is told to stop, is cut off and
\* starts again on the tables it left (app.go) does nothing that the service
\* without all that does not: what is proved of Service is true of it.
THEOREM LifecycleServes == LifecycleSpec => ServiceSpec
<1>1. LifecycleInit => ServiceInit
  BY DEF LifecycleInit
<1>2. [LifecycleNext]_lifeVars => [ServiceNext]_serviceVars
  BY LifecycleStepsServe
<1> QED BY <1>1, <1>2, PTL DEF LifecycleSpec, ServiceSpec

\* So the process that starts after one was cut off, wherever its requests
\* were, finds rows that refer to rows that exist.
THEOREM ReferencesHoldAcrossRestarts == LifecycleSpec => []ReferencesHold
BY LifecycleServes, ReferencesAlwaysHold

-----------------------------------------------------------------------------
(***************************************************************************)
(* Connections.                                                            *)
(***************************************************************************)

\* A stopped process has nothing in work, so that the next one may begin with
\* an empty pool.
Pool ==
  /\ conns \subseteq Workers /\ IsFiniteSet(conns)
  /\ Cardinality(conns) <= MaxOpenConns
  /\ \A w \in conns : ~Idle(w)
  /\ \A w \in Workers : InTransaction(w) => w \in conns
  /\ phase = "stopped" => \A w \in Workers : Idle(w)

\* An idle worker has no transaction, and others are what they were.
LEMMA IdleFacts ==
  ASSUME NEW w PROVE Idle(w) => ~InTransaction(w)
  BY DEF Idle, InTransaction

\* Nor does it begin or end a transaction of another worker.
LEMMA SameInPool ==
  ASSUME NEW w \in Workers, NEW v \in Workers \ {w}, ServiceTyped,
         ServiceAction(w)
  PROVE  (Idle(v)' <=> Idle(v)) /\ (InTransaction(v)' <=> InTransaction(v))
  BY ActionLocal DEF SamePR, SameTask, Idle, InTransaction

\* Taking a worker's connection back leaves a pool that is in order, if it has
\* no transaction any more.
LEMMA PoolReleased ==
  ASSUME NEW w \in Workers, ServiceTyped, Pool, ServiceAction(w),
         conns' = conns \ {w}, ~InTransaction(w)', UNCHANGED phase,
         phase # "stopped"
  PROVE  Pool'
<1>1. /\ IsFiniteSet(conns \ {w})
      /\ Cardinality(conns \ {w}) \in Nat /\ Cardinality(conns) \in Nat
      /\ Cardinality(conns \ {w}) <= Cardinality(conns)
  <2>1. IsFiniteSet(conns) /\ conns \ {w} \subseteq conns
    BY DEF Pool
  <2> QED BY <2>1, FS_Subset, FS_CardinalityType
<1>2. Cardinality(conns \ {w}) <= MaxOpenConns
  BY <1>1, LifecycleAssumption DEF Pool
<1>3. \A v \in conns \ {w} : v \in Workers \ {w} /\ ~Idle(v)'
  BY SameInPool DEF Pool
<1>4. \A v \in Workers : InTransaction(v)' => v \in conns \ {w}
  BY SameInPool DEF Pool
<1> QED BY <1>1, <1>2, <1>3, <1>4 DEF Pool

\* Keeping it does too, if it has one.
LEMMA PoolKept ==
  ASSUME NEW w \in Workers, ServiceTyped, Pool, ServiceAction(w),
         conns' = conns, w \in conns, InTransaction(w)', UNCHANGED phase,
         phase # "stopped"
  PROVE  Pool'
<1>1. \A v \in conns : ~Idle(v)'
  BY SameInPool, IdleFacts DEF Pool, Idle, InTransaction
<1>2. \A v \in Workers : InTransaction(v)' => v \in conns
  BY SameInPool DEF Pool
<1> QED BY <1>1, <1>2 DEF Pool

\* So does every step of the process,
LEMMA PoolNext ==
  ASSUME ServiceTyped, Pool, [LifecycleNext]_lifeVars
  PROVE  Pool'
<1>1. CASE UNCHANGED lifeVars
  BY <1>1
     DEF lifeVars, serviceVars, vars, locals, teamVars, taskLocals, Pool, Idle,
         InTransaction
<1>2. ASSUME NEW w \in Workers, Accept(w) PROVE Pool'
  <2>1. ServiceAction(w) /\ Idle(w) /\ phase = "serving"
        /\ UNCHANGED <<phase, conns>>
    BY <1>2
       DEF Accept, ServiceAction, ReceiveAny, ReceivePR, ReceiveTask, Idle
  <2>2. w \notin conns
    BY <2>1 DEF Pool
  <2>3. ~InTransaction(w)'
    <3>1. CASE ReceivePR(w)
      BY <2>1, <3>1, RequestFacts
         DEF ReceivePR, Receive, Idle, Entry, Operations, InTransaction,
             ServiceTyped, ServiceTypeOK, TypeOK, LocalsTypeOK
    <3>2. CASE ReceiveTask(w) /\ UNCHANGED locals
      <4>1. PICK r \in TaskRequests :
              at' = [at EXCEPT ![w] = IF Refused(r) THEN "idle"
                                      ELSE FirstLabel[r.op]]
        BY <3>2 DEF ReceiveTask
      <4>2. Refused(r) \/ r.op \in {"teamAdd", "teamDeactivate", "teamGet",
                                    "setIsActive", "getReview", "stats"}
        BY ServerAssumption
           DEF TaskRequests, Tasks, Operations, UserEndpoints, ReadEndpoints,
               Refused
      <4>3. at'[w] = IF Refused(r) THEN "idle" ELSE FirstLabel[r.op]
        BY <4>1 DEF ServiceTyped, ServiceTypeOK, TeamsTypeOK
      <4>4. ~Refused(r) =>
              FirstLabel[r.op] \in {"team", "exists", "found", "setflag",
                                    "user", "stats"}
        BY <4>2 DEF FirstLabel
      <4>5. pc'[w] = "idle"
        BY <2>1, <3>2 DEF Idle, locals
      <4> QED BY <4>3, <4>4, <4>5 DEF InTransaction
    <3> QED BY <1>2, <3>1, <3>2 DEF Accept, ReceiveAny
  <2>4. conns' = conns \ {w}
    BY <2>1, <2>2
  <2> QED BY <2>1, <2>3, <2>4, PoolReleased
<1>3. ASSUME NEW w \in Workers, Acquire(w) PROVE Pool'
  <2>1. /\ UNCHANGED serviceVars /\ UNCHANGED phase
        /\ conns' = conns \cup {w} /\ w \notin conns /\ ~Idle(w)
        /\ Cardinality(conns) < MaxOpenConns /\ phase # "stopped"
    BY <1>3 DEF Acquire
  <2>2. IsFiniteSet(conns') /\ Cardinality(conns') = Cardinality(conns) + 1
        /\ Cardinality(conns) \in Nat
    BY <2>1, FS_AddElement, FS_CardinalityType DEF Pool
  <2>3. Cardinality(conns') <= MaxOpenConns
    BY <2>1, <2>2, LifecycleAssumption
  <2>4. \A v : (Idle(v)' <=> Idle(v)) /\ (InTransaction(v)' <=> InTransaction(v))
    BY <2>1
       DEF serviceVars, vars, locals, teamVars, taskLocals, Idle, InTransaction
  <2> QED BY <2>1, <2>2, <2>3, <2>4 DEF Pool
<1>4. ASSUME NEW w \in Workers, Serve(w) PROVE Pool'
  <2>1. ServiceAction(w)
    BY <1>4 DEF Serve, ServiceAction, PRStep
  <2>2. w \in conns /\ UNCHANGED phase /\ phase # "stopped"
    BY <1>4 DEF Serve, Pool
  <2>3. conns' = IF InTransaction(w)' THEN conns ELSE conns \ {w}
    BY <1>4 DEF Serve, Release
  <2> QED BY <2>1, <2>2, <2>3, PoolReleased, PoolKept
<1>5. ASSUME NEW w \in Workers, Abort(w) PROVE Pool'
  <2>1. /\ ServiceAction(w) /\ conns' = conns \ {w} /\ UNCHANGED phase
        /\ ~Idle(w)
    BY <1>5
       DEF Abort, Fail, TaskFailure, TaskFail, ServiceAction, PRStep, Idle
  <2>2. phase # "stopped"
    BY <2>1 DEF Pool
  <2>3. pc'[w] = "idle" /\ at'[w] = "idle"
    BY <1>5
       DEF Abort, Fail, TaskFailure, TaskFail, Answer, Finish, teamVars,
           taskLocals, locals, ServiceTyped, ServiceTypeOK, TypeOK,
           LocalsTypeOK, TeamsTypeOK, TasksOK, TaskPhase
  <2> QED BY <2>1, <2>2, <2>3, PoolReleased DEF InTransaction
<1>6. CASE Signal \/ Close \/ Exit \/ Start
  <2>1. \A v : (Idle(v)' <=> Idle(v)) /\ (InTransaction(v)' <=> InTransaction(v))
    BY <1>6
       DEF Signal, Close, Exit, Start, serviceVars, vars, locals, teamVars,
           taskLocals, Idle, InTransaction
  <2>2. CASE Signal \/ Close \/ Exit
    BY <2>1, <2>2 DEF Signal, Close, Exit, Pool
  <2>3. CASE Start
    <3>1. \A v \in Workers : ~InTransaction(v)
      BY <2>3, IdleFacts DEF Start, Pool
    <3>2. IsFiniteSet({}) /\ Cardinality({}) <= MaxOpenConns
      BY FS_EmptySet, LifecycleAssumption
    <3> QED BY <2>1, <2>3, <3>1, <3>2 DEF Start, Pool
  <2> QED BY <1>6, <2>2, <2>3
<1> QED BY <1>1, <1>2, <1>3, <1>4, <1>5, <1>6 DEF LifecycleNext

\* and it starts with an empty pool.
LEMMA PoolInit ==
  ASSUME LifecycleInit PROVE Pool
<1>1. \A w \in Workers : Idle(w)
  BY DEF LifecycleInit, ServiceInit, Init, TeamsInit, Idle
<1>2. IsFiniteSet({}) /\ Cardinality({}) <= MaxOpenConns
  BY FS_EmptySet, LifecycleAssumption
<1> QED BY <1>1, <1>2, IdleFacts DEF LifecycleInit, Pool

\* No connection is lost to the pool, whatever is refused, fails or deadlocks:
\* only requests in work hold one, and a transaction is open only between its
\* BEGIN and its end, with one.
THEOREM ConnectionsAlwaysAccounted == LifecycleSpec => []ConnectionsAccounted
<1>1. ASSUME ServiceTyped, ServiceRows, NEW w \in Workers, tx[w] # NoTx
      PROVE  InTransaction(w)
  BY <1>1
     DEF ServiceRows, ServiceTxPhase, OpenLabels, TxPhase, TxPCs, InTransaction
<1>2. ServiceTyped /\ ServiceRows /\ Pool => ConnectionsAccounted
  BY <1>1 DEF Pool, ConnectionsAccounted
<1>3. LifecycleInit => ServiceInit
  BY DEF LifecycleInit
<1> QED
  BY <1>2, <1>3, PoolInit, PoolNext, LifecycleStepsServe, ServiceTypedInit,
     ServiceTypedNext, ServiceRowsInit, ServiceRowsNext, PTL DEF LifecycleSpec

=============================================================================
