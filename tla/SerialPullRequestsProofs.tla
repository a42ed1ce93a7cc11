---------------------- MODULE SerialPullRequestsProofs ----------------------
(***************************************************************************)
(* What SerialPullRequests promises, for any users, teams, pull requests   *)
(* and workers: SerialInv is inductive, the properties follow from it, and *)
(* so does that each step of the code is a step of ReviewBoard, or none.   *)
(***************************************************************************)
EXTENDS SerialInvariants, PullRequestsSafetyProofs, FiniteSetTheorems

\* A step of worker w as SerialNext allows it.
SerialStep(w) ==
  \/ /\ Receive(w)
     /\ AllIdle \/ (req'[w].op # "reassign"
                      /\ \A v \in Workers : ~Reassigning(v))
  \/ Step(w) \/ Fail(w)

\* The choice of reviewers is of candidates, two at most, and all of them if
\* it is fewer than two.
LEMMA Choosing ==
  ASSUME NEW C \in SUBSET Users, NEW R \in ReviewerChoices(C)
  PROVE  /\ R \subseteq C /\ Cardinality(R) <= 2
         /\ Cardinality(R) = 2 \/ (R = C /\ Cardinality(R) < 2)
<1>1. IsFiniteSet(C)
  BY FS_Subset, UsersAssumption
<1>2. R \in SUBSET C
  BY DEF ReviewerChoices
<1>3. Cardinality(C) \in Nat /\ (Cardinality(C) = Cardinality(R) => R = C)
  BY <1>1, <1>2, FS_Subset, FS_CardinalityType
<1>4. Cardinality(R) = IF Cardinality(C) < 2 THEN Cardinality(C) ELSE 2
  BY DEF ReviewerChoices
<1> QED BY <1>2, <1>3, <1>4

\* Taking one reviewer out and putting another in makes them no more.
LEMMA Swapping ==
  ASSUME NEW R \in SUBSET Users, Cardinality(R) <= 2,
         NEW old \in R, NEW new
  PROVE  Cardinality((R \ {old}) \cup {new}) <= 2
<1>1. IsFiniteSet(R) /\ Cardinality(R) \in Nat
  BY FS_Subset, FS_CardinalityType, UsersAssumption
<1>2. IsFiniteSet(R \ {old}) /\ Cardinality(R \ {old}) = Cardinality(R) - 1
  BY <1>1, FS_RemoveElement
<1>3. /\ IsFiniteSet((R \ {old}) \cup {new})
      /\ Cardinality((R \ {old}) \cup {new}) =
           IF new \in R \ {old} THEN Cardinality(R \ {old})
                               ELSE Cardinality(R \ {old}) + 1
  <2> DEFINE Q == R \ {old}
  <2>1. IsFiniteSet(Q)
    BY <1>2
  <2> HIDE DEF Q
  <2>2. /\ IsFiniteSet(Q \cup {new})
        /\ Cardinality(Q \cup {new}) =
             IF new \in Q THEN Cardinality(Q) ELSE Cardinality(Q) + 1
    BY <2>1, FS_AddElement
  <2> QED BY <2>2 DEF Q
<1> QED BY <1>1, <1>2, <1>3

-----------------------------------------------------------------------------
\* PostgreSQL breaks no deadlock of an idle worker.
LEMMA DeadlockedBusy ==
  ASSUME NEW w \in Workers, BreakDeadlock(w)
  PROVE  pc[w] # "idle"
<1>1. WaitsFor(w) # {}
  BY DEF BreakDeadlock, Circular
<1> QED BY <1>1 DEF WaitsFor

\* But for the arrival of a request, a step is one of a busy worker that goes
\* on with it or answers it.
LEMMA AnswersOrContinues ==
  ASSUME Basics, NEW w \in Workers, Step(w) \/ Fail(w)
  PROVE  /\ pc[w] # "idle" /\ req' = req
         /\ \/ \E code \in Codes \ {"none"} : Answer(w, code)
            \/ \E label \in PCs \ {"idle"} : Continue(w, label)
<1>1. CASE CommitPR(w) \/ SetMerged(w) \/ CommitReassign(w)
  BY <1>1 DEF CommitPR, SetMerged, CommitReassign, AnswerWritten, Answer, Codes
<1>2. CASE CheckPRExists(w) \/ ReadAuthor(w) \/ SelectReviewers(w)
           \/ InsertPR(w)
  BY <1>2 DEF CheckPRExists, ReadAuthor, SelectReviewers, InsertPR, Answer,
     Continue, Codes, PCs
<1>3. CASE ReadHeader(w) \/ ReadReviewers(w)
  BY <1>3 DEF ReadHeader, ReadReviewers, Answer, Continue, Codes, PCs
<1>4. CASE ReadOldUser(w) \/ PickReplacement(w) \/ IssueDelete(w)
           \/ LockRows(w) \/ InsertRow(w)
  BY <1>4 DEF ReadOldUser, PickReplacement, IssueDelete, LockRows, InsertRow,
     Answer, Continue, Codes, PCs
<1>5. CASE BreakDeadlock(w) \/ Fail(w)
  <2>1. pc[w] # "idle"
    BY <1>5, DeadlockedBusy DEF Fail
  <2>2. Answer(w, "NOT_FOUND") \/ Answer(w, "ERROR")
    BY <1>5 DEF BreakDeadlock, Fail
  <2> QED BY <2>1, <2>2 DEF Answer, Codes
<1> QED BY <1>1, <1>2, <1>3, <1>4, <1>5 DEF Step, CreateStep, ReassignStep

\* While a worker reassigns, no other moves; and none begins to while another
\* is busy.
LEMMA OthersRest ==
  ASSUME Basics, ReassignsAlone, NEW w \in Workers, SerialStep(w),
         NEW v \in Workers, v # w
  PROVE  /\ ~Reassigning(v)
         /\ Reassigning(w)' => pc[v] = "idle"
<1>1. CASE Receive(w)
  <2>1. pc[w] = "idle" /\ (AllIdle \/ (req'[w].op # "reassign"
                             /\ \A u \in Workers : ~Reassigning(u)))
    BY <1>1, AnswersOrContinues DEF SerialStep, Receive
  <2> QED BY <2>1 DEF AllIdle, Reassigning
<1>2. CASE Step(w) \/ Fail(w)
  BY <1>2, AnswersOrContinues DEF Reassigning, ReassignsAlone
<1> QED BY <1>1, <1>2 DEF SerialStep

\* A reassignment in work stays the only request in work.
LEMMA ReassignsAloneNext ==
  ASSUME Basics, ReassignsAlone, NEW w \in Workers, SerialStep(w)
  PROVE  ReassignsAlone'
<1>1. WorkerStep(w)
  BY DEF SerialStep, WorkerStep
<1>2. ASSUME NEW v \in Workers, v # w PROVE ~Reassigning(v)'
  BY <1>1, <1>2, Frame, OthersRest DEF KeptBy, Reassigning
<1>3. ASSUME NEW v \in Workers, v # w, Reassigning(w)' PROVE pc'[v] = "idle"
  BY <1>1, <1>3, Frame, OthersRest DEF KeptBy
<1> QED BY <1>2, <1>3 DEF ReassignsAlone

\* Who gets a request is busy until it has answered it.
LEMMA BusyNext ==
  ASSUME Basics, BusyUntilAnswered, NEW w \in Workers, SerialStep(w)
  PROVE  BusyUntilAnswered'
<1>1. WorkerStep(w)
  BY DEF SerialStep, WorkerStep
<1>2. /\ pc \in [Workers -> PCs] /\ reply \in [Workers -> Codes]
      /\ req \in [Workers -> Requests \cup {NoRequest}]
  BY DEF Basics, TypeOK, LocalsTypeOK
<1>3. ASSUME NEW v \in Workers, v # w
      PROVE  (pc[v] # "idle" <=> req[v].op # "none" /\ reply[v] = "none")'
  BY <1>1, <1>3, Frame DEF KeptBy, BusyUntilAnswered
<1>4. (pc[w] # "idle" <=> req[w].op # "none" /\ reply[w] = "none")'
  <2>1. CASE Receive(w)
    <3>1. PICK r \in Requests : /\ req' = [req EXCEPT ![w] = r]
                                /\ pc' = [pc EXCEPT ![w] = Entry[r.op]]
      BY <2>1 DEF Receive
    <3>2. r.op \in Operations
      BY RequestFacts
    <3>3. Entry[r.op] # "idle" /\ r.op # "none"
      BY <3>2 DEF Operations, Entry
    <3> QED BY <1>2, <2>1, <3>1, <3>3 DEF Receive
  <2>2. CASE Step(w) \/ Fail(w)
    <3>1. pc[w] # "idle" /\ req' = req /\ req[w].op # "none" /\ reply[w] = "none"
      BY <2>2, AnswersOrContinues DEF BusyUntilAnswered
    <3>2. CASE \E code \in Codes \ {"none"} : Answer(w, code)
      BY <1>2, <3>2 DEF Answer
    <3>3. CASE \E label \in PCs \ {"idle"} : Continue(w, label)
      BY <1>2, <3>1, <3>3 DEF Continue
    <3> QED BY <2>2, <3>2, <3>3, AnswersOrContinues
  <2> QED BY <2>1, <2>2 DEF SerialStep
<1> QED BY <1>3, <1>4 DEF BusyUntilAnswered

-----------------------------------------------------------------------------
\* What a create has chosen while nobody changes users: candidates, two of
\* them, or all if there are fewer.
LEMMA Chosen ==
  ASSUME Basics, NEW w \in Workers, CreateKnows(w),
         pc[w] \in {"insertpr", "commitpr"}
  PROVE  LET mates == GetActiveUsersByTeam(team[req[w].user], req[w].user)
         IN /\ UserExists(req[w].user) /\ todo[w] \subseteq mates
            /\ Cardinality(todo[w]) <= 2
            /\ \/ Cardinality(todo[w]) = 2
               \/ todo[w] = mates /\ Cardinality(todo[w]) < 2
<1> DEFINE mates == GetActiveUsersByTeam(team[req[w].user], req[w].user)
<1>1. UserExists(req[w].user) /\ todo[w] \in ReviewerChoices(mates)
  BY DEF CreateKnows
<1>2. mates \in SUBSET Users
  BY DEF GetActiveUsersByTeam
<1> QED BY <1>1, <1>2, Choosing

\* What a reassignment commits: its reviewer replaced by a substitute.
LEMMA Replaced ==
  ASSUME Basics, NEW w \in Workers, ReassignKnows(w), CommitReassign(w)
  PROVE  /\ req[w].pr \in PRs /\ status[req[w].pr] = "OPEN"
         /\ req[w].user \in reviewers[req[w].pr]
         /\ \E new \in Substitutes(w) :
              reviewers' = [reviewers EXCEPT ![req[w].pr] =
                              (@ \ {req[w].user}) \cup {new}]
<1> DEFINE p   == req[w].pr
           old == req[w].user
<1>1. /\ pc[w] = "inserting" /\ p \in PRs /\ todo[w] = {}
      /\ reviewers' = [reviewers EXCEPT ![p] =
                         (@ \ tx[w].deleted) \cup tx[w].inserted]
  BY CommittedReassign
<1>2. /\ status[p] = "OPEN" /\ old \in reviewers[p]
      /\ tx[w].deleted = reviewers[p]
  BY <1>1 DEF ReassignKnows, ReassignPCs
<1>3. PICK new \in Substitutes(w) :
        todo[w] \cup tx[w].inserted = (reviewers[p] \ {old}) \cup {new}
  BY <1>1 DEF ReassignKnows, WritePCs
<1>4. (reviewers[p] \ tx[w].deleted) \cup tx[w].inserted
        = (reviewers[p] \ {old}) \cup {new}
  BY <1>1, <1>2, <1>3
<1>5. reviewers' = [reviewers EXCEPT ![p] = (@ \ {old}) \cup {new}]
  BY <1>1, <1>4
<1> QED BY <1>1, <1>2, <1>3, <1>5

\* Reviewers stay registered, and two at most.
LEMMA ReviewersNext ==
  ASSUME Basics, Informed, RegisteredReviewers, AtMostTwoReviewers,
         NEW w \in Workers, WorkerStep(w)
  PROVE  RegisteredReviewers' /\ AtMostTwoReviewers'
<1>1. reviewers \in [PRs -> SUBSET Users] /\ UNCHANGED userTable
  BY Writers DEF Basics, TypeOK, StoreTypeOK
<1>2. CreateKnows(w) /\ ReassignKnows(w)
  BY DEF Informed
<1>3. CASE reviewers' = reviewers
  BY <1>1, <1>3
     DEF RegisteredReviewers, AtMostTwoReviewers, UserExists, userTable
<1>4. CASE CommitPR(w)
  <2>1. /\ \A u \in todo[w] : UserExists(u)
        /\ Cardinality(todo[w]) <= 2
    BY <1>2, <1>4, Chosen, CommittedPR DEF GetActiveUsersByTeam, UserExists
  <2> QED
    BY <1>1, <1>4, <2>1, CommittedPR
       DEF RegisteredReviewers, AtMostTwoReviewers, UserExists, userTable
<1>5. CASE CommitReassign(w)
  <2> DEFINE p   == req[w].pr
             old == req[w].user
  <2>1. PICK new \in Substitutes(w) :
          /\ p \in PRs /\ old \in reviewers[p]
          /\ reviewers' = [reviewers EXCEPT ![p] = (@ \ {old}) \cup {new}]
    BY <1>2, <1>5, Replaced
  <2>2. UserExists(old) /\ UserExists(new)
    BY <2>1
       DEF Substitutes, GetActiveUsersByTeam, RegisteredReviewers, UserExists
  <2>3. Cardinality((reviewers[p] \ {old}) \cup {new}) <= 2
    BY <1>1, <2>1, Swapping DEF AtMostTwoReviewers
  <2>4. RegisteredReviewers'
    BY <1>1, <2>1, <2>2 DEF RegisteredReviewers, UserExists, userTable
  <2>5. AtMostTwoReviewers'
    BY <1>1, <2>1, <2>3 DEF AtMostTwoReviewers
  <2> QED BY <2>4, <2>5
<1> QED
  BY <1>3, <1>4, <1>5, Writers, CommittedMerge DEF prTables

-----------------------------------------------------------------------------
\* A create stays informed, as users do not change under it.
LEMMA CreateKnowsNext ==
  ASSUME Basics, NEW w \in Workers, CreateKnows(w), WorkerStep(w)
  PROVE  CreateKnows(w)'
<1>1. UNCHANGED userTable
  BY Writers
<1>2. CASE pc'[w] = "candidates"
  <2>1. /\ UserExists(req[w].user) /\ req'[w] = req[w]
        /\ fromTeam'[w] = team[req[w].user]
    BY <1>2, Sources
       DEF ReadAuthor, Answer, Continue, Basics, TypeOK, LocalsTypeOK
  <2> QED BY <1>1, <1>2, <2>1 DEF CreateKnows, UserExists, userTable
<1>3. CASE pc'[w] = "insertpr"
  <2>1. /\ SelectReviewers(w) /\ todo \in [Workers -> SUBSET Users]
    BY <1>3, Sources DEF Basics, TypeOK, LocalsTypeOK
  <2>2. /\ pc[w] = "candidates" /\ req'[w] = req[w]
        /\ todo'[w] \in ReviewerChoices(CreateCandidates(w))
    BY <2>1 DEF SelectReviewers, Continue
  <2> QED
    BY <1>1, <1>3, <2>2
       DEF CreateKnows, CreateCandidates, GetActiveUsersByTeam, UserExists,
           userTable
<1>4. CASE pc'[w] = "commitpr"
  BY <1>1, <1>4, Sources, Inserting
     DEF CreateKnows, GetActiveUsersByTeam, UserExists, userTable
<1> QED BY <1>2, <1>3, <1>4 DEF CreateKnows

\* So does a reassignment, as nobody else writes.
LEMMA ReassignKnowsNext ==
  ASSUME Basics, Rows, NEW w \in Workers, ReassignKnows(w), WorkerStep(w)
  PROVE  ReassignKnows(w)'
<1>1. UNCHANGED userTable
  BY Writers
<1> DEFINE p == req[w].pr
<1>2. CASE pc'[w] = "reviewers"
  <2>1. /\ pr'[w].status = status[p] /\ req'[w] = req[w] /\ status' = status
    BY <1>2, Sources
       DEF ReadHeader, Answer, Continue, tables, Basics, TypeOK, LocalsTypeOK
  <2> QED BY <1>2, <2>1 DEF ReassignKnows, ReassignPCs, WritePCs
<1>3. CASE pc'[w] = "olduser"
  <2>1. /\ ReadReviewers(w) /\ pc'[w] # "idle"
    BY <1>3, Sources
  <2>2. req[w].op = "reassign"
    BY <1>3, <2>1, Reading DEF ReadReviewers, Continue, Basics, TypeOK, LocalsTypeOK
  <2>3. /\ pr[w].status = status[p] /\ pr[w].status # "MERGED" /\ p \in PRs
    BY <2>1, <2>2, Reading, RequestOf DEF ReassignKnows, IsMerged
  <2>4. status[p] = "OPEN"
    BY <2>3 DEF Basics, TypeOK, StoreTypeOK, Statuses
  <2> QED
    BY <1>3, <2>1, <2>4, Reading
       DEF ReassignKnows, ReassignPCs, WritePCs, prTables
<1> SUFFICES ASSUME pc'[w] \in ReassignPCs \ {"olduser"}
             PROVE  ReassignKnows(w)'
  BY <1>2, <1>3 DEF ReassignKnows, ReassignPCs, WritePCs
<1>4. /\ pc[w] \in ReassignPCs /\ pr'[w] = pr[w] /\ req'[w] = req[w]
      /\ UNCHANGED prTables
  BY ReassignmentKeeps
<1>5. /\ status[p] = "OPEN" /\ req[w].user \in reviewers[p]
      /\ pr[w].reviewers = reviewers[p] /\ pr[w].author = author[p]
  BY <1>4 DEF ReassignKnows, Rows, PRPhase
<1>6. Substitutes(w)' = Substitutes(w)
  BY <1>1, <1>4
     DEF Substitutes, GetActiveUsersByTeam, userTable, prTables
<1>7. pc'[w] = "pick" => fromTeam'[w] = team'[req'[w].user]
  BY <1>1, <1>4, Sources
     DEF ReadOldUser, Answer, Continue, userTable, Basics, TypeOK, LocalsTypeOK
<1>8. pc'[w] \in WritePCs =>
        \E new \in Substitutes(w) :
          todo'[w] \cup tx'[w].inserted
            = (reviewers[p] \ {req[w].user}) \cup {new}
  <2>1. CASE pc'[w] = "delete"
    <3>1. PickReplacement(w) /\ pc[w] = "pick"
      BY <2>1, Sources, Picking
    <3>2. ReplacementCandidates(w) = Substitutes(w)
      BY <1>5, <3>1
         DEF ReplacementCandidates, Substitutes, ReassignKnows
    <3> QED BY <1>5, <2>1, <3>1, <3>2, Picking
  <2>2. CASE pc'[w] \in {"locking", "inserting"}
    BY <2>2, Pending DEF ReassignKnows
  <2> QED BY <2>1, <2>2 DEF WritePCs
<1>9. pc'[w] = "locking" => tx'[w].seen = reviewers[p]
  <2>1. tx \in [Workers -> Transactions]
    BY DEF Basics, TypeOK, StoreTypeOK
  <2>2. IssueDelete(w) => tx'[w].seen = reviewers[p]
    BY <2>1 DEF IssueDelete, StartDeleteReviewers, NoTx
  <2> QED BY <2>2, Sources
<1>10. pc'[w] = "inserting" => tx'[w].deleted = reviewers[p]
  <2>1. tx \in [Workers -> Transactions]
    BY DEF Basics, TypeOK, StoreTypeOK
  <2>2. CASE LockRows(w)
    BY <2>1, <2>2
       DEF LockRows, FinishDeleteReviewers, Transactions, ReassignKnows
  <2>3. CASE InsertRow(w) /\ pc'[w] = "inserting"
    <3>1. pc[w] = "inserting" /\ \E u : InsertReviewer(w, u)
      BY <2>3 DEF InsertRow, Answer, Basics, TypeOK, LocalsTypeOK
    <3> QED BY <2>1, <3>1 DEF InsertReviewer, Transactions, ReassignKnows
  <2> QED BY <2>2, <2>3, Sources
<1> QED
  BY <1>4, <1>5, <1>6, <1>7, <1>8, <1>9, <1>10
     DEF ReassignKnows, ReassignPCs, prTables

\* All stay informed: who reassigns is alone, and no step changes users.
LEMMA InformedNext ==
  ASSUME Basics, Rows, ReassignsAlone, Informed, NEW w \in Workers, SerialStep(w)
  PROVE  Informed'
<1>1. WorkerStep(w)
  BY DEF SerialStep, WorkerStep
<1>2. CreateKnows(w)' /\ ReassignKnows(w)'
  BY <1>1, CreateKnowsNext, ReassignKnowsNext DEF Informed
<1>3. ASSUME NEW v \in Workers, v # w
      PROVE  CreateKnows(v)' /\ ReassignKnows(v)'
  <2>1. KeptBy(v) /\ UNCHANGED userTable
    BY <1>1, <1>3, Frame, Writers
  <2>2. ~Reassigning(v)
    BY <1>3, OthersRest
  <2>3. CreateKnows(v)'
    BY <2>1
       DEF KeptBy, Informed, CreateKnows, GetActiveUsersByTeam, UserExists,
           userTable
  <2>4. ReassignKnows(v)'
    BY <2>1, <2>2
       DEF KeptBy, ReassignKnows, Reassigning, Basics, PhaseOK, ReassignPCs,
           WritePCs
  <2> QED BY <2>3, <2>4
<1> QED BY <1>2, <1>3 DEF Informed

-----------------------------------------------------------------------------
\* The inductive invariant holds initially.
LEMMA SerialInvInit == Init => SerialInv
<1> SUFFICES ASSUME Init PROVE SerialInv
  OBVIOUS
<1>1. Basics /\ Rows /\ Merges
  BY IInvInit DEF IInv
<1>2. ReassignsAlone /\ BusyUntilAnswered
  BY DEF Init, NoRequest, ReassignsAlone, Reassigning, BusyUntilAnswered
<1>3. RegisteredReviewers /\ AtMostTwoReviewers
  BY FS_EmptySet
     DEF Init, StoreInit, RegisteredReviewers, AtMostTwoReviewers
<1>4. Informed
  BY DEF Init, Informed, CreateKnows, ReassignKnows, ReassignPCs, WritePCs
<1> QED BY <1>1, <1>2, <1>3, <1>4 DEF SerialInv

\* What changes of the users table keep, while no request is in work: who is
\* registered stays so.
LEMMA UsersStepFacts ==
  ASSUME Basics, UsersStep
  PROVE  /\ UNCHANGED <<prTables, tx, locals>>
         /\ \A u \in Users : UserExists(u) => UserExists(u)'
<1>1. team \in [Users -> Teams \cup {None}]
  BY DEF Basics, TypeOK, StoreTypeOK
<1> QED
  BY <1>1, StoreAssumption
     DEF UsersStep, UpdateUserIsActive, CreateOrUpdateUser,
         UserExists

\* It is preserved by every step.
LEMMA SerialInvNext == SerialInv /\ [SerialNext]_vars => SerialInv'
<1> SUFFICES ASSUME SerialInv, [SerialNext]_vars PROVE SerialInv'
  OBVIOUS
<1>1. [Next]_vars
  BY DEF SerialNext, Next
<1>2. Basics' /\ Rows' /\ Merges'
  BY <1>1, BasicsNext, RowsNext, MergesNext DEF SerialInv
<1>3. ASSUME NEW w \in Workers, SerialStep(w) PROVE SerialInv'
  BY <1>2, <1>3, ReassignsAloneNext, BusyNext, ReviewersNext, InformedNext
     DEF SerialInv, SerialStep, WorkerStep
<1>4. CASE UsersStep /\ AllIdle
  <2>1. /\ UNCHANGED <<prTables, tx, locals>>
        /\ \A u \in Users : UserExists(u) => UserExists(u)'
    BY <1>4, UsersStepFacts DEF SerialInv
  <2>2. ReassignsAlone' /\ BusyUntilAnswered'
    BY <2>1 DEF SerialInv, ReassignsAlone, Reassigning, BusyUntilAnswered, locals
  <2>3. RegisteredReviewers' /\ AtMostTwoReviewers'
    BY <2>1
       DEF SerialInv, RegisteredReviewers, AtMostTwoReviewers, prTables,
           Basics, TypeOK, StoreTypeOK
  <2>4. Informed'
    BY <1>4, <2>1
       DEF AllIdle, locals, Informed, CreateKnows, ReassignKnows, ReassignPCs,
           WritePCs
  <2> QED BY <1>2, <2>2, <2>3, <2>4 DEF SerialInv
<1>5. CASE UNCHANGED vars
  <2>1. ReassignsAlone' /\ BusyUntilAnswered'
    BY <1>5
       DEF vars, locals, SerialInv, ReassignsAlone, Reassigning,
           BusyUntilAnswered
  <2>2. RegisteredReviewers' /\ AtMostTwoReviewers'
    BY <1>5
       DEF vars, tables, userTable, prTables, SerialInv, RegisteredReviewers,
           UserExists, AtMostTwoReviewers
  <2>3. Informed'
    BY <1>5
       DEF vars, tables, userTable, prTables, locals, SerialInv, Informed,
           CreateKnows, ReassignKnows, Substitutes, GetActiveUsersByTeam,
           UserExists
  <2> QED BY <1>2, <2>1, <2>2, <2>3 DEF SerialInv
<1> QED BY <1>3, <1>4, <1>5 DEF SerialNext, SerialStep

\* While reassignments run alone, requests know what they act on.
THEOREM SerialInductive == SerialSpec => []SerialInv
BY SerialInvInit, SerialInvNext, PTL DEF SerialSpec

\* So no pull request ever has more than two reviewers.
THEOREM TwoReviewersAtMost == SerialSpec => []AtMostTwoReviewers
<1>1. SerialInv => AtMostTwoReviewers
  BY DEF SerialInv
<1> QED BY <1>1, SerialInductive, PTL

\* What a step does to the reviewers of a pull request.
LEMMA WhoIsAssigned ==
  ASSUME SerialInv, [SerialNext]_vars, NEW p \in PRs,
         reviewers'[p] # reviewers[p]
  PROVE  /\ status[p] = "OPEN"
         /\ \A u \in reviewers'[p] \ reviewers[p] : active[u]
<1>1. reviewers \in [PRs -> SUBSET Users]
  BY DEF SerialInv, Basics, TypeOK, StoreTypeOK
<1>2. PICK w \in Workers : WorkerStep(w)
  <2>1. CASE UsersStep
    BY <2>1, UsersStepFacts DEF prTables, SerialInv
  <2> QED BY <2>1 DEF SerialNext, WorkerStep, vars, tables, prTables
<1>3. Basics /\ Rows /\ CreateKnows(w) /\ ReassignKnows(w)
  BY DEF SerialInv, Informed
<1>4. CASE CommitPR(w)
  <2>1. /\ p = req[w].pr /\ reviewers'[p] = todo[w]
        /\ \A u \in todo[w] : active[u]
    BY <1>1, <1>3, <1>4, CommittedPR, Chosen DEF GetActiveUsersByTeam
  <2>2. status[p] = "OPEN"
    BY <1>3, <1>4, <2>1, CommittedPR DEF Rows, RowsConsistent, PRPhase
  <2> QED BY <2>1, <2>2
<1>5. CASE CommitReassign(w)
  BY <1>1, <1>3, <1>5, Replaced DEF Substitutes, GetActiveUsersByTeam
<1> QED
  BY <1>2, <1>3, <1>4, <1>5, Writers, CommittedMerge DEF prTables

\* Once merged, a pull request keeps its reviewers.
THEOREM MergedFreezes == SerialSpec => FrozenOnceMerged
<1>1. ASSUME SerialInv, [SerialNext]_vars
      PROVE  [\A p \in PRs : status[p] = "MERGED" =>
                              reviewers'[p] = reviewers[p]]_vars
  BY <1>1, WhoIsAssigned
<1> QED BY <1>1, SerialInductive, PTL DEF SerialSpec, FrozenOnceMerged

\* Only who is active is assigned.
THEOREM ActiveAssigned == SerialSpec => OnlyActiveAssigned
<1>1. ASSUME SerialInv, [SerialNext]_vars
      PROVE  [\A p \in PRs : \A u \in reviewers'[p] \ reviewers[p] :
                active[u]]_vars
  BY <1>1, WhoIsAssigned
<1> QED BY <1>1, SerialInductive, PTL DEF SerialSpec, OnlyActiveAssigned

-----------------------------------------------------------------------------
(***************************************************************************)
(* Every step of the code is one of ReviewBoard, or none.                  *)
(***************************************************************************)

\* Both modules count alike.
LEMMA SameCardinality ==
  ASSUME NEW S PROVE Board!Cardinality(S) = Cardinality(S)
BY Zenon DEF Board!Cardinality, Cardinality

\* A request in work is one the board has not answered.
LEMMA WaitsAtBoard ==
  ASSUME SerialInv, NEW w \in Workers, pc[w] # "idle"
  PROVE  /\ Board!Busy(w)
         /\ pc[w] \in CreatePCs => Board!Waiting(w, "create")
         /\ pc[w] \in ReadPCs => req[w].op \in {"merge", "reassign"}
         /\ pc[w] = "setstatus" => Board!Waiting(w, "merge")
         /\ pc[w] \in ReassignPCs => Board!Waiting(w, "reassign")
<1>1. Board!Busy(w)
  BY DEF SerialInv, BusyUntilAnswered, Board!Busy
<1> QED BY <1>1 DEF Board!Waiting, SerialInv, Basics, PhaseOK

\* Answering gives the reply of the board,
LEMMA AnswerReplies ==
  ASSUME NEW w \in Workers, NEW code, Answer(w, code), UNCHANGED userTable
  PROVE  Board!Reply(w, code)
BY DEF Answer, Board!Reply, userTable

\* and with tables untouched it is a refusal.
LEMMA AnswerRefuses ==
  ASSUME NEW w \in Workers, NEW code, Answer(w, code), UNCHANGED tables
  PROVE  Board!Refuse(w, code)
BY AnswerReplies DEF Board!Refuse, Board!board, tables, userTable, prTables

\* The answer to what has been done is the board's.
LEMMA AnswerWrittenReplies ==
  ASSUME NEW w \in Workers, AnswerWritten(w), UNCHANGED userTable
  PROVE  Board!ReplyDone(w)
BY AnswerReplies DEF AnswerWritten, Board!ReplyDone

\* Going on to the next statement with the tables untouched is no step of it.
LEMMA ContinueStutters ==
  ASSUME NEW w \in Workers, NEW label, Continue(w, label), UNCHANGED tables
  PROVE  UNCHANGED Board!vars
BY DEF Continue, Board!vars, Board!board, tables, userTable, prTables

\* The arrival of a request,
LEMMA ReceiveMaps ==
  ASSUME SerialInv, NEW w \in Workers, Receive(w)
  PROVE  Board!Ask(w)
<1>1. ~Board!Busy(w)
  BY DEF Receive, SerialInv, BusyUntilAnswered, Board!Busy
<1>2. PICK r \in Requests : req' = [req EXCEPT ![w] = r]
  BY DEF Receive
<1>3. r \in Board!Requests
  BY DEF Requests, Board!Requests, Operations
<1> QED
  BY <1>1, <1>2, <1>3
     DEF Receive, Board!Ask, Board!board, tables, userTable, prTables

\* an error,
LEMMA ErrorMaps ==
  ASSUME SerialInv, NEW w \in Workers, pc[w] # "idle",
         Answer(w, "ERROR"), UNCHANGED tables
  PROVE  Board!GiveUp(w)
BY WaitsAtBoard, AnswerRefuses DEF Board!GiveUp

\* a failure,
LEMMA FailMaps ==
  ASSUME SerialInv, NEW w \in Workers, Fail(w)
  PROVE  Board!GiveUp(w)
<1>1. pc[w] # "idle" /\ UNCHANGED tables
  BY DEF Fail, Rollback
<1>2. CASE pc[w] = "author"
  <2>1. Answer(w, "NOT_FOUND")
    BY <1>2 DEF Fail
  <2> QED
    BY <1>1, <1>2, <2>1, WaitsAtBoard, AnswerRefuses
       DEF Board!GiveUp, Board!Waiting, CreatePCs
<1>3. CASE pc[w] # "author"
  BY <1>1, <1>3, ErrorMaps DEF Fail
<1> QED BY <1>2, <1>3

\* the statements of a create,
LEMMA CreateMaps ==
  ASSUME SerialInv, NEW w \in Workers, CreateStep(w)
  PROVE  Board!Create(w) \/ Board!GiveUp(w) \/ UNCHANGED Board!vars
<1>1. pc[w] \in CreatePCs /\ pc[w] # "idle"
  BY DEF CreateStep, CheckPRExists, ReadAuthor, SelectReviewers, InsertPR,
     CommitPR, CreatePCs
<1>2. Board!Waiting(w, "create")
  BY <1>1, WaitsAtBoard
<1>3. CASE CheckPRExists(w)
  BY <1>2, <1>3, AnswerRefuses, ContinueStutters
     DEF CheckPRExists, PRExists, Board!Create
<1>4. CASE ReadAuthor(w)
  BY <1>2, <1>4, AnswerRefuses, ContinueStutters
     DEF ReadAuthor, UserExists, Board!Create
<1>5. CASE SelectReviewers(w)
  BY <1>5, ContinueStutters DEF SelectReviewers
<1>6. CASE InsertPR(w)
  <2>1. UNCHANGED tables
    BY <1>6 DEF InsertPR, InsertPullRequest, Rollback
  <2> QED
    BY <1>1, <1>6, <2>1, ErrorMaps, ContinueStutters DEF InsertPR
<1>7. CASE CommitPR(w)
  <2> DEFINE p == req[w].pr
             a == req[w].user
  <2>1. /\ pc[w] = "commitpr" /\ p \in PRs
        /\ author' = [author EXCEPT ![p] = a]
        /\ status' = [status EXCEPT ![p] = "OPEN"]
        /\ reviewers' = [reviewers EXCEPT ![p] = todo[w]]
    BY <1>7, CommittedPR DEF SerialInv
  <2>2. author[p] = None /\ status[p] = "OPEN"
    BY <2>1 DEF SerialInv, Rows, RowsConsistent, PRPhase
  <2>3. status' = status
    BY <2>1, <2>2 DEF SerialInv, Basics, TypeOK, StoreTypeOK
  <2>4. /\ team[a] # None /\ todo[w] \subseteq Board!Teammates(a)
        /\ \/ Cardinality(todo[w]) = 2
           \/ todo[w] = Board!Teammates(a) /\ Cardinality(todo[w]) < 2
    <3>1. Board!Teammates(a) = GetActiveUsersByTeam(team[a], a)
      BY DEF Board!Teammates, GetActiveUsersByTeam
    <3> QED
      BY <2>1, <3>1, Chosen DEF SerialInv, Informed, UserExists
  <2>5. Board!ReplyDone(w)
    BY <1>7, AnswerWrittenReplies DEF CommitPR, CommitPullRequest
  <2> QED
    BY <1>2, <2>1, <2>2, <2>3, <2>4, <2>5, SameCardinality DEF Board!Create
<1> QED BY <1>3, <1>4, <1>5, <1>6, <1>7 DEF CreateStep

\* the statements of GetPullRequest, which decide what a merge or a
\* reassignment answers when there is nothing to do,
LEMMA ReadMaps ==
  ASSUME SerialInv, NEW w \in Workers, ReadHeader(w) \/ ReadReviewers(w)
  PROVE  Board!Merge(w) \/ Board!Reassign(w) \/ UNCHANGED Board!vars
<1> DEFINE p == req[w].pr
<1>1. pc[w] \in ReadPCs /\ pc[w] # "idle" /\ UNCHANGED tables
  BY DEF ReadHeader, ReadReviewers, ReadPCs
<1>2. /\ req[w].op = "merge" => Board!Waiting(w, "merge")
      /\ req[w].op = "reassign" => Board!Waiting(w, "reassign")
      /\ req[w].op \in {"merge", "reassign"}
  BY <1>1, WaitsAtBoard DEF Board!Waiting
<1>3. CASE ReadHeader(w)
  BY <1>1, <1>2, <1>3, AnswerRefuses, ContinueStutters
     DEF ReadHeader, PRExists, Board!Merge, Board!Reassign
<1>4. CASE ReadReviewers(w)
  <2>1. /\ pc[w] = "reviewers" /\ p \in PRs /\ author[p] # None
        /\ ReassignKnows(w)
    BY <1>4, RequestOf
       DEF ReadReviewers, SerialInv, Informed, Rows, PRPhase
  <2>2. IsMerged(w) => status[p] = "MERGED"
    BY <2>1 DEF SerialInv, Merges, KnowsMerged, Merged
  <2>3. CASE \E label : Continue(w, label)
    BY <1>1, <2>3, ContinueStutters
  <2>4. CASE req[w].op = "merge" /\ IsMerged(w) /\ Answer(w, "OK")
    <3>1. status' = [status EXCEPT ![p] = "MERGED"]
      BY <1>1, <2>2, <2>4
         DEF tables, prTables, SerialInv, Basics, TypeOK, StoreTypeOK
    <3>2. Board!ReplyDone(w)
      <4>1. Board!Reply(w, "OK")
        BY <1>1, <2>4, AnswerReplies DEF tables, userTable
      <4> QED BY <4>1 DEF Board!ReplyDone
    <3> QED
      BY <1>1, <1>2, <2>1, <2>4, <3>1, <3>2
         DEF tables, prTables, Board!Merge
  <2>5. CASE req[w].op = "reassign" /\ IsMerged(w) /\ Answer(w, "PR_MERGED")
    BY <1>1, <1>2, <2>2, <2>5, AnswerRefuses DEF Board!Reassign
  <2>6. CASE /\ req[w].op = "reassign" /\ ~IsMerged(w)
             /\ req[w].user \notin reviewers[p]
             /\ Answer(w, "NOT_ASSIGNED")
    <3>1. status[p] = "OPEN"
      BY <2>1, <2>6
         DEF ReassignKnows, IsMerged, SerialInv, Basics, TypeOK, StoreTypeOK,
             Statuses
    <3> QED
      BY <1>1, <1>2, <2>1, <2>6, <3>1, AnswerRefuses DEF Board!Reassign
  <2> QED BY <1>4, <2>3, <2>4, <2>5, <2>6 DEF ReadReviewers
<1> QED BY <1>3, <1>4

\* the UPDATE of a merge,
LEMMA MergeMaps ==
  ASSUME SerialInv, NEW w \in Workers, SetMerged(w)
  PROVE  Board!Merge(w)
<1>1. /\ pc[w] = "setstatus" /\ req[w].pr \in PRs
      /\ status' = [status EXCEPT ![req[w].pr] = "MERGED"]
      /\ UNCHANGED <<author, reviewers>>
  BY CommittedMerge DEF SerialInv
<1>2. Board!Waiting(w, "merge") /\ author[req[w].pr] # None
  BY <1>1, WaitsAtBoard DEF SerialInv, Rows, PRPhase
<1>3. Board!ReplyDone(w)
  BY AnswerWrittenReplies DEF SetMerged, UpdatePullRequestStatus
<1> QED BY <1>1, <1>2, <1>3 DEF Board!Merge

\* and the statements of a reassignment.
LEMMA ReassignMaps ==
  ASSUME SerialInv, NEW w \in Workers, ReassignStep(w)
  PROVE  Board!Reassign(w) \/ Board!GiveUp(w) \/ UNCHANGED Board!vars
<1> DEFINE p == req[w].pr
           old == req[w].user
<1>1. pc[w] \in ReassignPCs /\ pc[w] # "idle"
  BY DEF ReassignStep, ReadOldUser, PickReplacement, IssueDelete, LockRows,
     InsertRow, CommitReassign, ReassignPCs
<1>2. /\ Board!Waiting(w, "reassign") /\ p \in PRs /\ author[p] # None
      /\ status[p] = "OPEN" /\ old \in reviewers[p]
      /\ pr[w].author = author[p] /\ pr[w].reviewers = reviewers[p]
      /\ ReassignKnows(w)
  BY <1>1, WaitsAtBoard, RequestOf
     DEF SerialInv, Informed, ReassignKnows, Rows, PRPhase
<1>3. Substitutes(w) =
        Board!Teammates(old) \ (reviewers[p] \cup {author[p]})
  BY DEF Substitutes, GetActiveUsersByTeam, Board!Teammates
<1>4. CASE ReadOldUser(w)
  <2>1. UserExists(old)
    BY <1>2 DEF SerialInv, RegisteredReviewers
  <2> QED BY <1>4, <2>1, ContinueStutters DEF ReadOldUser
<1>5. CASE PickReplacement(w)
  <2>1. CASE ReplacementCandidates(w) = {} /\ Answer(w, "NO_CANDIDATE")
    <3>1. Substitutes(w) = {}
      BY <1>2, <1>5, <2>1
         DEF PickReplacement, ReassignKnows, ReplacementCandidates, Substitutes
    <3>2. Board!Refuse(w, "NO_CANDIDATE")
      BY <1>5, <2>1, AnswerRefuses DEF PickReplacement
    <3> QED BY <1>2, <1>3, <3>1, <3>2 DEF Board!Reassign
  <2> QED BY <1>5, <2>1, ContinueStutters DEF PickReplacement
<1>6. CASE IssueDelete(w) \/ LockRows(w) \/ InsertRow(w)
  <2>1. UNCHANGED tables
    BY <1>6 DEF IssueDelete, LockRows, InsertRow, StartDeleteReviewers,
       FinishDeleteReviewers, InsertReviewer, Rollback
  <2> QED
    BY <1>1, <1>6, <2>1, ErrorMaps, ContinueStutters
       DEF IssueDelete, LockRows, InsertRow
<1>7. CASE CommitReassign(w)
  <2>1. \E new \in Substitutes(w) :
          reviewers' = [reviewers EXCEPT ![p] = (@ \ {old}) \cup {new}]
    BY <1>2, <1>7, Replaced DEF SerialInv
  <2>2. UNCHANGED <<author, status>> /\ Board!ReplyDone(w)
    BY <1>7, AnswerWrittenReplies DEF CommitReassign, CommitReviewers
  <2> QED BY <1>2, <1>3, <2>1, <2>2 DEF Board!Reassign
<1> QED BY <1>4, <1>5, <1>6, <1>7 DEF ReassignStep

\* Together, every step of a worker or of the users is one of the board.
LEMMA SerialStepMaps ==
  SerialInv /\ SerialInv' /\ [SerialNext]_vars => [Board!Next]_(Board!vars)
<1> SUFFICES ASSUME SerialInv, SerialInv', [SerialNext]_vars
             PROVE  [Board!Next]_(Board!vars)
  OBVIOUS
<1>1. CASE UNCHANGED vars
  BY <1>1
     DEF vars, tables, userTable, prTables, locals, Board!vars, Board!board
<1>2. ASSUME NEW w \in Workers, WorkerStep(w)
      PROVE  [Board!Next]_(Board!vars)
  <2>1. CASE BreakDeadlock(w)
    BY <2>1, DeadlockedBusy, ErrorMaps
       DEF BreakDeadlock, Rollback, Board!Next
  <2> QED
    BY <1>2, <2>1, ReceiveMaps, FailMaps, CreateMaps, ReadMaps, MergeMaps,
       ReassignMaps
       DEF WorkerStep, Step, Board!Next
<1>3. CASE UsersStep
  <2>1. UNCHANGED <<prTables, tx, locals>>
    BY <1>3, UsersStepFacts DEF SerialInv
  <2>2. team' \in [Users -> Teams \cup {None}] /\ active' \in [Users -> BOOLEAN]
    BY DEF SerialInv, Basics, TypeOK, StoreTypeOK
  <2> QED
    BY <2>1, <2>2
       DEF prTables, locals, Board!Next, Board!ChangeUsers, Board!board
<1> QED BY <1>1, <1>2, <1>3 DEF SerialNext, WorkerStep

\* The statements of concurrent requests add up to indivisible steps: creates
\* and merges in any overlap, reassignments alone, implement ReviewBoard.
THEOREM SerialImplementsBoard == SerialSpec => Implements
<1>1. Init => Board!Init
  BY DEF Init, StoreInit, NoRequest, Board!Init
<1> QED
  BY <1>1, SerialStepMaps, SerialInductive, PTL
     DEF SerialSpec, Implements, Board!Spec

=============================================================================
