------------------------ MODULE ClaimCreationProofs ------------------------
(***************************************************************************)
(* Proofs about ClaimCreation, for every set of requests, keys, results    *)
(* and failure codes and for every bound.                                  *)
(***************************************************************************)
EXTENDS ClaimCreation, TLAPS

\* The record a thread carries fits its control point: a caller holds the
\* operation as it reserved it, a reconciler one whose outcome is open, a
\* settler one with a recorded result.
ThreadOK(t) ==
    /\ t.pc \in {"call", "called"} => t.op = FreshOperation(t.payload)
    /\ t.pc \in {"reconcile", "reconciled"} =>
         /\ t.op \in Operations
         /\ ValidOperation(t.op)
         /\ t.op.status \in {"prepared", "unknown_outcome"}
         /\ t.op.payload = t.payload
    /\ t.pc \in {"reload", "settle"} =>
         /\ t.op \in Operations
         /\ ValidOperation(t.op)
         /\ t.op.status = "settlement_pending"
         /\ t.op.payload = t.payload

ThreadsOK == \A s \in Requests : ThreadOK(req[s])

TypeInv == TypeOK /\ ThreadsOK

USE CreationConstants

LEMMA ConstantRecords ==
    /\ IdleThread \in Threads /\ ThreadOK(IdleThread)
    /\ IdleThread.pc = "idle"
    /\ NewClaim \in Claims
    /\ NoAnswer \in Answers
    /\ NoOperation \notin Operations
    /\ NoOperation.status = "absent"
    /\ NoResult \notin Results
BY DEF IdleThread, Threads, ThreadOK, NewClaim, Claims, NoAnswer, Answers, NoOperation,
       Operations, Statuses, NoResult, NoFingerprint, ControlPoints, Payloads

\* What a claim version becomes when a service writes it.
LEMMA ClaimUpdate ==
    ASSUME NEW c \in Claims, NEW result \in Results \cup {NoResult},
           NEW fingerprint \in Payloads \cup {NoFingerprint},
           NEW terminal \in {"none", "completed", "closed"}, NEW n \in Nat
    PROVE  [c EXCEPT !.external = result, !.fingerprint = fingerprint,
                     !.terminal = terminal, !.revision = n] \in Claims
BY DEF Claims

LEMMA FreshIsValid ==
    ASSUME NEW p \in Payloads
    PROVE  FreshOperation(p) \in Operations /\ ValidOperation(FreshOperation(p))
           /\ FreshOperation(p).payload = p
BY DEF FreshOperation, Operations, ValidOperation, Statuses, Deliveries, NoFailure, NoResult,
       FailureCodes

LEMMA RecordedIsValid ==
    ASSUME NEW o \in Operations, NEW result \in Results
    PROVE  /\ Recorded(o, result) \in Operations
           /\ ValidOperation(Recorded(o, result))
           /\ Recorded(o, result).status = "settlement_pending"
           /\ Recorded(o, result).payload = o.payload
           /\ Recorded(o, result).result = result
BY DEF Recorded, Operations, ValidOperation, Statuses, Deliveries, NoFailure, NoResult,
       FailureCodes

LEMMA UnknownIsValid ==
    ASSUME NEW o \in Operations, ValidOperation(o),
           o.status \in {"prepared", "unknown_outcome"}
    PROVE  /\ Unknown(o) \in Operations
           /\ ValidOperation(Unknown(o))
           /\ Unknown(o).status = "unknown_outcome"
           /\ Unknown(o).payload = o.payload
BY DEF Unknown, Operations, ValidOperation, Statuses, Deliveries, NoFailure, NoResult,
       FailureCodes, Classify

LEMMA FailedIsValid ==
    ASSUME NEW o \in Operations, o.result = NoResult,
           NEW code \in FailureCodes, NEW delivery \in Deliveries
    PROVE  /\ Failed(o, code, delivery) \in Operations
           /\ ValidOperation(Failed(o, code, delivery))
           /\ Failed(o, code, delivery).status = Classify(code, delivery)
           /\ Failed(o, code, delivery).payload = o.payload
           /\ Classify(code, delivery) \in {"retryable_failure", "terminal_failure", "unknown_outcome"}
BY DEF Failed, Operations, ValidOperation, Statuses, Deliveries, NoFailure, NoResult,
       FailureCodes, Classify

LEMMA AcceptedIsValid ==
    ASSUME NEW o \in Operations, ValidOperation(o), o.status = "settlement_pending"
    PROVE  /\ [o EXCEPT !.status = "accepted"] \in Operations
           /\ ValidOperation([o EXCEPT !.status = "accepted"])
           /\ o.result \in Results
BY DEF Operations, ValidOperation, Statuses

\* Control points at which a thread carries nothing that ThreadOK speaks of.
Unburdened ==
    {"idle", "gate", "decide", "snapshot", "load", "lookup", "reserve", "recover", "remember"}

LEMMA MovedThread ==
    ASSUME NEW t \in Threads, NEW pc \in Unburdened
    PROVE  At(t, pc) \in Threads /\ ThreadOK(At(t, pc))
BY ConstantRecords DEF At, Threads, ThreadOK, Unburdened, ControlPoints

LEMMA ThreadUpdate ==
    ASSUME NEW r \in Requests, req \in [Requests -> Threads], ThreadsOK,
           NEW t \in Threads, ThreadOK(t), req' = [req EXCEPT ![r] = t]
    PROVE  req' \in [Requests -> Threads] /\ ThreadsOK'
<1>1. req' \in [Requests -> Threads]
  OBVIOUS
<1>2. \A s \in Requests : req'[s] = IF s = r THEN t ELSE req[s]
  OBVIOUS
<1>3. QED
  BY <1>1, <1>2 DEF ThreadsOK

\* A thread that goes to a control point where it carries nothing.
LEMMA GotoUpdate ==
    ASSUME NEW r \in Requests, req \in [Requests -> Threads], ThreadsOK,
           NEW pc \in Unburdened, Goto(r, pc)
    PROVE  req' \in [Requests -> Threads] /\ ThreadsOK'
<1>1. req[r] \in Threads
  OBVIOUS
<1>2. At(req[r], pc) \in Threads /\ ThreadOK(At(req[r], pc))
  BY <1>1, MovedThread
<1>3. req' = [req EXCEPT ![r] = At(req[r], pc)]
  BY DEF Goto
<1>4. QED
  BY <1>2, <1>3, ThreadUpdate

\* What save_claim_creation_operation leaves behind.
LEMMA SaveKeepsTypes ==
    ASSUME TypeInv, NEW r \in Requests,
           NEW updated \in Operations, ValidOperation(updated),
           NEW pc \in {"idle", "settle", "reload"},
           pc # "idle" => /\ updated.status = "settlement_pending"
                          /\ updated.payload = req[r].payload,
           SaveOperation(r, updated, pc)
    PROVE  /\ op' \in Operations \cup {NoOperation}
           /\ op' # NoOperation => ValidOperation(op')
           /\ req' \in [Requests -> Threads]
           /\ ThreadsOK'
<1> USE DEF TypeInv, TypeOK
<1>1. CASE /\ op' = updated
           /\ req' = [req EXCEPT ![r] = At([@ EXCEPT !.op = updated, !.answer = NoAnswer], pc)]
  <2> DEFINE t == [req[r] EXCEPT !.op = updated, !.answer = NoAnswer]
  <2>1. req[r] \in Threads
    OBVIOUS
  <2>2. t \in Threads /\ t.op = updated /\ t.payload = req[r].payload
    BY <2>1, ConstantRecords DEF Threads
  <2>3. At(t, pc) \in Threads /\ ThreadOK(At(t, pc))
    <3>1. CASE pc = "idle"
      BY <3>1, ConstantRecords DEF At
    <3>2. CASE pc # "idle"
      <4>1. At(t, pc) = [t EXCEPT !.pc = pc]
        BY <3>2 DEF At
      <4>2. [t EXCEPT !.pc = pc] \in Threads
        BY <2>2 DEF Threads, ControlPoints
      <4>3. /\ [t EXCEPT !.pc = pc].pc \in {"settle", "reload"}
            /\ [t EXCEPT !.pc = pc].op = updated
            /\ [t EXCEPT !.pc = pc].payload = req[r].payload
        BY <2>2, <3>2 DEF Threads
      <4>4. ThreadOK([t EXCEPT !.pc = pc])
        BY <3>2, <4>3 DEF ThreadOK
      <4>5. QED
        BY <4>1, <4>2, <4>4
    <3>3. QED
      BY <3>1, <3>2
  <2>4. req' = [req EXCEPT ![r] = At(t, pc)]
    BY <1>1
  <2>5. req' \in [Requests -> Threads] /\ ThreadsOK'
    BY <2>3, <2>4, ThreadUpdate
  <2>6. QED
    BY <1>1, <2>5
<1>2. CASE UNCHANGED op /\ Goto(r, "idle")
  BY <1>2, GotoUpdate DEF Unburdened
<1>3. QED
  BY <1>1, <1>2 DEF SaveOperation

-----------------------------------------------------------------------------
(* Type correctness.                                                       *)

LEMMA TypeInit == Init => TypeInv
BY ConstantRecords DEF Init, TypeInv, TypeOK, ThreadsOK, NewClaim

LEMMA TypeReceive ==
    ASSUME TypeInv, NEW r \in Requests, Receive(r)
    PROVE  TypeInv'
<1> USE DEF TypeInv, TypeOK
<1>1. req[r] \in Threads
  OBVIOUS
<1>2. CASE ClaimantRequest(r)
  <2>1. PICK k \in Keys, rev \in 1..claim.revision :
          req' = [req EXCEPT ![r].pc = "gate", ![r].path = "claimant",
                             ![r].payload = [key |-> k, revision |-> rev, evidence |-> 0]]
    BY <1>2 DEF ClaimantRequest
  <2> DEFINE t == [req[r] EXCEPT !.pc = "gate", !.path = "claimant",
                                 !.payload = [key |-> k, revision |-> rev, evidence |-> 0]]
  <2>2. rev \in Nat
    BY DEF Claims
  <2>3. t \in Threads /\ ThreadOK(t)
    BY <1>1, <2>2 DEF Threads, ThreadOK, ControlPoints, Payloads
  <2>4. req' = [req EXCEPT ![r] = t]
    BY <2>1
  <2>5. req' \in [Requests -> Threads] /\ ThreadsOK'
    BY <2>3, <2>4, ThreadUpdate
  <2>6. QED
    BY <1>2, <2>5 DEF ClaimantRequest
<1>3. ASSUME NEW k \in Keys, NEW rev \in 1..claim.revision, NEW snapshot \in 0..evidence,
             IntegrationRequest(r, k, rev, snapshot)
      PROVE  TypeInv'
  <2> DEFINE t == [req[r] EXCEPT !.pc = "load", !.path = "integration",
                                 !.payload = [key |-> k, revision |-> rev, evidence |-> snapshot]]
  <2>1. rev \in Nat /\ snapshot \in Nat
    BY DEF Claims
  <2>2. t \in Threads /\ ThreadOK(t)
    BY <1>1, <2>1 DEF Threads, ThreadOK, ControlPoints, Payloads
  <2>3. req' = [req EXCEPT ![r] = t]
    BY <1>3 DEF IntegrationRequest
  <2>4. req' \in [Requests -> Threads] /\ ThreadsOK'
    BY <2>2, <2>3, ThreadUpdate
  <2>5. QED
    BY <1>3, <2>4 DEF IntegrationRequest
<1>4. QED
  BY <1>2, <1>3 DEF Receive

\* The steps of a request up to the reservation.
LEMMA TypeBeforeCall ==
    ASSUME TypeInv, NEW r \in Requests,
           Gate(r) \/ Decide(r) \/ Snapshot(r) \/ Load(r) \/ Lookup(r) \/ Recover(r)
    PROVE  TypeInv'
<1> USE DEF TypeInv, TypeOK
<1>1. req[r] \in Threads /\ req[r].payload \in Payloads
  BY DEF Threads
<1>2. CASE Gate(r)
  <2>1. \E pc \in Unburdened : Goto(r, pc)
    BY <1>2 DEF Gate, Unburdened
  <2>2. req' \in [Requests -> Threads] /\ ThreadsOK'
    BY <2>1, GotoUpdate
  <2>3. QED
    BY <1>2, <2>2 DEF Gate
<1>3. CASE Decide(r)
  <2>1. Goto(r, "snapshot")
    BY <1>3 DEF Decide
  <2>2. req' \in [Requests -> Threads] /\ ThreadsOK'
    BY <2>1, GotoUpdate DEF Unburdened
  <2>3. decisions' \in [Keys -> Nat]
    BY <1>1, <1>3 DEF Decide, Payloads
  <2>4. QED
    BY <1>3, <2>2, <2>3 DEF Decide
<1>4. CASE Snapshot(r)
  <2> DEFINE t == [req[r] EXCEPT !.pc = "load", !.payload.evidence = evidence]
  <2>1. t \in Threads /\ ThreadOK(t)
    BY <1>1 DEF Threads, ThreadOK, ControlPoints, Payloads
  <2>2. req' = [req EXCEPT ![r] = t]
    BY <1>4 DEF Snapshot
  <2>3. req' \in [Requests -> Threads] /\ ThreadsOK'
    BY <2>1, <2>2, ThreadUpdate
  <2>4. QED
    BY <1>4, <2>3 DEF Snapshot
<1>5. CASE Load(r)
  <2> DEFINE t == [req[r] EXCEPT !.claim = claim]
             pc == IF claim.external = NoResult THEN "lookup"
                   ELSE IF claim.fingerprint = req[r].payload THEN Answered(r) ELSE "idle"
  <2>1. t \in Threads
    BY <1>1 DEF Threads
  <2>2. pc \in Unburdened
    BY DEF Unburdened, Answered
  <2>3. At(t, pc) \in Threads /\ ThreadOK(At(t, pc))
    BY <2>1, <2>2, MovedThread
  <2>4. req' = [req EXCEPT ![r] = At(t, pc)]
    BY <1>5 DEF Load
  <2>5. req' \in [Requests -> Threads] /\ ThreadsOK'
    BY <2>3, <2>4, ThreadUpdate
  <2>6. QED
    BY <1>5, <2>5 DEF Load
<1>6. ASSUME NEW c \in Claims, NEW pc, pc \in Unburdened \/ pc = RecoveryPoint(req[r].payload, op),
             NEW o, o = op \/ o = NoOperation,
             pc \notin Unburdened => o = op /\ op # NoOperation,
             req' = [req EXCEPT ![r] = At([@ EXCEPT !.op = o, !.claim = c], pc)]
      PROVE  req' \in [Requests -> Threads] /\ ThreadsOK'
  <2> DEFINE t == [req[r] EXCEPT !.op = o, !.claim = c]
  <2>1. t \in Threads /\ t.op = o /\ t.payload = req[r].payload
    BY <1>1, <1>6, ConstantRecords DEF Threads
  <2>2. At(t, pc) \in Threads /\ ThreadOK(At(t, pc))
    <3>1. CASE pc \in Unburdened
      BY <2>1, <3>1, MovedThread
    <3>2. CASE pc \notin Unburdened
      <4>1. op \in Operations /\ o = op /\ ValidOperation(op)
        BY <1>6, <3>2
      <4>2. \/ pc = "settle" /\ op.status = "settlement_pending" /\ op.payload = req[r].payload
            \/ /\ pc = "reconcile"
               /\ op.status \in {"prepared", "unknown_outcome"}
               /\ op.payload = req[r].payload
        BY <1>6, <3>2 DEF RecoveryPoint, Unburdened
      <4>3. At(t, pc) = [t EXCEPT !.pc = pc]
        BY <4>2 DEF At
      <4>4. [t EXCEPT !.pc = pc] \in Threads
        BY <2>1, <4>2 DEF Threads, ControlPoints
      <4>5. /\ [t EXCEPT !.pc = pc].pc = pc
            /\ [t EXCEPT !.pc = pc].op = op
            /\ [t EXCEPT !.pc = pc].payload = req[r].payload
        BY <2>1, <4>1 DEF Threads
      <4>6. ThreadOK([t EXCEPT !.pc = pc])
        BY <4>1, <4>2, <4>5 DEF ThreadOK
      <4>7. QED
        BY <4>3, <4>4, <4>6
    <3>3. QED
      BY <3>1, <3>2
  <2>3. req' = [req EXCEPT ![r] = At(t, pc)]
    BY <1>6
  <2>4. QED
    BY <2>2, <2>3, ThreadUpdate
<1>7. CASE Lookup(r)
  <2> DEFINE p == req[r].payload
             existing == op # NoOperation /\ op.payload.key = p.key
             current == req[r].claim.terminal = "none" /\ req[r].claim.revision = p.revision
             point == IF existing THEN RecoveryPoint(p, op) ELSE "reserve"
             pc == IF (~existing /\ ~current) \/ decisions[p.key] # p.revision THEN "idle"
                   ELSE IF point = "reserve" /\ ~(current /\ evidence = p.evidence) THEN "idle"
                   ELSE point
             o == IF existing THEN op ELSE NoOperation
  <2>1. req' = [req EXCEPT ![r] = At([@ EXCEPT !.op = o], pc)]
    BY <1>7 DEF Lookup
  <2>2. req[r].claim \in Claims /\ [req[r] EXCEPT !.op = o] = [req[r] EXCEPT !.op = o, !.claim = req[r].claim]
    BY <1>1 DEF Threads
  <2>3. req' = [req EXCEPT ![r] = At([@ EXCEPT !.op = o, !.claim = req[r].claim], pc)]
    BY <2>1, <2>2
  <2>4. pc \in Unburdened \/ (existing /\ pc = RecoveryPoint(p, op))
    BY DEF Unburdened
  <2>5. req' \in [Requests -> Threads] /\ ThreadsOK'
    BY <1>6, <2>2, <2>3, <2>4
  <2>6. QED
    BY <1>7, <2>5 DEF Lookup
<1>8. CASE Recover(r)
  <2> DEFINE point == RecoveryPoint(req[r].payload, op)
             pc == IF point = "reserve" THEN "idle" ELSE point
  <2>1. req' = [req EXCEPT ![r] = At([@ EXCEPT !.op = op, !.claim = claim], pc)]
    BY <1>8 DEF Recover
  <2>2. pc \in Unburdened \/ pc = RecoveryPoint(req[r].payload, op)
    BY DEF Unburdened
  <2>3. pc \notin Unburdened => op # NoOperation
    BY ConstantRecords DEF RecoveryPoint, Unburdened
  <2>4. req' \in [Requests -> Threads] /\ ThreadsOK'
    BY <1>6, <2>1, <2>2, <2>3
  <2>5. QED
    BY <1>8, <2>4 DEF Recover
<1>9. QED
  BY <1>2, <1>3, <1>4, <1>5, <1>7, <1>8

\* The steps of a request from the reservation to the settlement.
LEMMA TypeFromReserve ==
    ASSUME TypeInv, NEW r \in Requests,
           Reserve(r) \/ Call(r) \/ Called(r) \/ Reconcile(r) \/ Reconciled(r)
           \/ Reload(r) \/ Settle(r) \/ Remember(r)
    PROVE  TypeInv'
<1> USE DEF TypeInv, TypeOK
<1>1. req[r] \in Threads /\ req[r].payload \in Payloads /\ req[r].answer \in Answers
      /\ req[r].claim \in Claims /\ ThreadOK(req[r])
  BY DEF Threads, ThreadsOK
<1>2. CASE Reserve(r)
  <2> DEFINE p == req[r].payload
             t == [req[r] EXCEPT !.pc = "call", !.op = FreshOperation(p)]
  <2>1. CASE op' = FreshOperation(p) /\ req' = [req EXCEPT ![r].pc = "call", ![r].op = FreshOperation(p)]
    <3>1. FreshOperation(p) \in Operations /\ ValidOperation(FreshOperation(p))
      BY <1>1, FreshIsValid
    <3>2. t \in Threads /\ ThreadOK(t)
      BY <1>1, <3>1 DEF Threads, ThreadOK, ControlPoints
    <3>3. req' = [req EXCEPT ![r] = t]
      BY <2>1
    <3>4. req' \in [Requests -> Threads] /\ ThreadsOK'
      BY <3>2, <3>3, ThreadUpdate
    <3>5. QED
      BY <1>2, <2>1, <3>1, <3>4 DEF Reserve
  <2>2. CASE UNCHANGED op /\ (Goto(r, "recover") \/ Goto(r, "idle"))
    <3>1. req' \in [Requests -> Threads] /\ ThreadsOK'
      BY <2>2, GotoUpdate DEF Unburdened
    <3>2. QED
      BY <1>2, <2>2, <3>1 DEF Reserve
  <2>3. QED
    BY <1>2, <2>1, <2>2 DEF Reserve
<1>3. CASE Call(r)
  <2>1. PICK a \in Answers :
          /\ req' = [req EXCEPT ![r].pc = "called", ![r].answer = a]
          /\ lodged' \in CASE a.kind \in {"result", "invalid"} -> {lodged + 1}
                           [] a.kind = "failure" /\ a.delivery = "submitted" -> {lodged, lodged + 1}
                           [] OTHER -> {lodged}
    BY <1>3 DEF Call
  <2> DEFINE t == [req[r] EXCEPT !.pc = "called", !.answer = a]
  <2>2. t \in Threads /\ ThreadOK(t)
    BY <1>1, <1>3 DEF Threads, ThreadOK, ControlPoints, Call
  <2>3. req' = [req EXCEPT ![r] = t]
    BY <2>1
  <2>4. req' \in [Requests -> Threads] /\ ThreadsOK'
    BY <2>2, <2>3, ThreadUpdate
  <2>5. lodged' \in Nat
    BY <2>1
  <2>6. QED
    BY <1>3, <2>4, <2>5 DEF Call
<1>4. CASE Called(r)
  <2> DEFINE a == req[r].answer
  <2>1. /\ req[r].op = FreshOperation(req[r].payload)
        /\ req[r].op \in Operations
        /\ req[r].op.result = NoResult
        /\ req[r].op.payload = req[r].payload
    BY <1>1, <1>4, FreshIsValid DEF Called, ThreadOK, FreshOperation
  <2>2. CASE a.kind = "result" /\ SaveOperation(r, Recorded(req[r].op, a.result), "settle")
    <3>1. a.result \in Results
      BY <1>1, <2>2 DEF Answers
    <3> DEFINE u == Recorded(req[r].op, a.result)
    <3>2. /\ u \in Operations /\ ValidOperation(u)
          /\ u.status = "settlement_pending" /\ u.payload = req[r].payload
      <4> HIDE DEF TypeInv, TypeOK
      <4>1. req[r].op \in Operations
        BY <2>1
      <4>2. /\ u \in Operations /\ ValidOperation(u)
            /\ u.status = "settlement_pending" /\ u.payload = req[r].op.payload
        BY <3>1, <4>1, RecordedIsValid
      <4>3. QED
        BY <2>1, <4>2
    <3>3. SaveOperation(r, u, "settle")
      BY <2>2
    <3> HIDE DEF u
    <3>4. /\ op' \in Operations \cup {NoOperation}
          /\ op' # NoOperation => ValidOperation(op')
          /\ req' \in [Requests -> Threads]
          /\ ThreadsOK'
      BY <3>2, <3>3, SaveKeepsTypes
    <3>5. QED
      BY <1>4, <3>4 DEF Called
  <2>3. CASE a.kind = "failure" /\ SaveOperation(r, Failed(req[r].op, a.code, a.delivery), "idle")
    <3>1. a.code \in FailureCodes /\ a.delivery \in Deliveries
      BY <1>1, <2>3 DEF Answers
    <3>2. QED
      BY <1>4, <2>1, <2>3, <3>1, FailedIsValid, SaveKeepsTypes DEF Called
  <2>4. CASE Goto(r, "idle") /\ UNCHANGED op
    <3>1. req' \in [Requests -> Threads] /\ ThreadsOK'
      BY <2>4, GotoUpdate DEF Unburdened
    <3>2. QED
      BY <1>4, <2>4, <3>1 DEF Called
  <2>5. QED
    BY <1>4, <2>2, <2>3, <2>4 DEF Called
<1>5. CASE Reconcile(r)
  <2>1. PICK a \in Answers : req' = [req EXCEPT ![r].pc = "reconciled", ![r].answer = a]
    BY <1>5 DEF Reconcile
  <2> DEFINE t == [req[r] EXCEPT !.pc = "reconciled", !.answer = a]
  <2>2. t \in Threads /\ ThreadOK(t)
    BY <1>1, <1>5 DEF Threads, ThreadOK, ControlPoints, Reconcile
  <2>3. req' = [req EXCEPT ![r] = t]
    BY <2>1
  <2>4. req' \in [Requests -> Threads] /\ ThreadsOK'
    BY <2>2, <2>3, ThreadUpdate
  <2>5. QED
    BY <1>5, <2>4 DEF Reconcile
<1>6. CASE Reconciled(r)
  <2> DEFINE a == req[r].answer
  <2>1. /\ req[r].op \in Operations
        /\ ValidOperation(req[r].op)
        /\ req[r].op.status \in {"prepared", "unknown_outcome"}
        /\ req[r].op.payload = req[r].payload
    BY <1>1, <1>6 DEF Reconciled, ThreadOK
  <2>2. CASE a.kind = "result" /\ SaveOperation(r, Recorded(req[r].op, a.result), "reload")
    <3>1. a.result \in Results
      BY <1>1, <2>2 DEF Answers
    <3> DEFINE u == Recorded(req[r].op, a.result)
    <3>2. /\ u \in Operations /\ ValidOperation(u)
          /\ u.status = "settlement_pending" /\ u.payload = req[r].payload
      <4> HIDE DEF TypeInv, TypeOK
      <4>1. req[r].op \in Operations
        BY <2>1
      <4>2. /\ u \in Operations /\ ValidOperation(u)
            /\ u.status = "settlement_pending" /\ u.payload = req[r].op.payload
        BY <3>1, <4>1, RecordedIsValid
      <4>3. QED
        BY <2>1, <4>2
    <3>3. SaveOperation(r, u, "reload")
      BY <2>2
    <3> HIDE DEF u
    <3>4. /\ op' \in Operations \cup {NoOperation}
          /\ op' # NoOperation => ValidOperation(op')
          /\ req' \in [Requests -> Threads]
          /\ ThreadsOK'
      BY <3>2, <3>3, SaveKeepsTypes
    <3>5. QED
      BY <1>6, <3>4 DEF Reconciled
  <2>3. CASE SaveOperation(r, Unknown(req[r].op), "idle")
    BY <1>6, <2>1, <2>3, UnknownIsValid, SaveKeepsTypes DEF Reconciled
  <2>4. CASE Goto(r, "idle") /\ UNCHANGED op
    <3>1. req' \in [Requests -> Threads] /\ ThreadsOK'
      BY <2>4, GotoUpdate DEF Unburdened
    <3>2. QED
      BY <1>6, <2>4, <3>1 DEF Reconciled
  <2>5. QED
    BY <1>6, <2>2, <2>3, <2>4 DEF Reconciled
<1>7. CASE Reload(r)
  <2> DEFINE t == [req[r] EXCEPT !.pc = "settle", !.claim = claim]
  <2>1. t \in Threads /\ ThreadOK(t)
    BY <1>1, <1>7 DEF Threads, ThreadOK, ControlPoints, Reload
  <2>2. req' = [req EXCEPT ![r] = t]
    BY <1>7 DEF Reload
  <2>3. req' \in [Requests -> Threads] /\ ThreadsOK'
    BY <2>1, <2>2, ThreadUpdate
  <2>4. QED
    BY <1>7, <2>3 DEF Reload
<1>8. CASE Settle(r)
  <2> DEFINE o == req[r].op
             c == req[r].claim
  <2>1. o \in Operations /\ ValidOperation(o) /\ o.status = "settlement_pending"
    BY <1>1, <1>8 DEF Settle, ThreadOK
  <2>2. \E pc \in Unburdened : Goto(r, pc)
    BY <1>8 DEF Settle, Answered, Unburdened
  <2>3. req' \in [Requests -> Threads] /\ ThreadsOK'
    BY <2>2, GotoUpdate
  <2>4. o.result \in Results /\ o.payload \in Payloads
        /\ [o EXCEPT !.status = "accepted"] \in Operations
        /\ ValidOperation([o EXCEPT !.status = "accepted"])
    BY <2>1, AcceptedIsValid DEF Operations
  <2>5. claim' \in Claims
    <3>1. CASE UNCHANGED claim
      BY <3>1
    <3>2. CASE claim' = [c EXCEPT
               !.external = o.result,
               !.fingerprint = o.payload,
               !.terminal = IF o.result = "created" THEN "completed" ELSE "none",
               !.revision = c.revision + 1]
      <4>1. c.revision + 1 \in Nat
        BY <1>1 DEF Claims
      <4>2. (IF o.result = "created" THEN "completed" ELSE "none") \in {"none", "completed", "closed"}
        OBVIOUS
      <4>3. QED
        BY <1>1, <2>4, <3>2, <4>1, <4>2, ClaimUpdate
    <3>3. QED
      BY <1>8, <3>1, <3>2 DEF Settle, SettledClaim
  <2>6. op' \in Operations \cup {NoOperation} /\ (op' # NoOperation => ValidOperation(op'))
    BY <1>8, <2>4 DEF Settle
  <2>7. QED
    BY <1>8, <2>3, <2>5, <2>6 DEF Settle
<1>9. CASE Remember(r)
  <2>1. req' \in [Requests -> Threads] /\ ThreadsOK'
    BY <1>9, GotoUpdate DEF Remember, Unburdened
  <2>2. idempotency' \in [Keys -> Nat]
    BY <1>1, <1>9 DEF Remember, Payloads
  <2>3. QED
    BY <1>9, <2>1, <2>2 DEF Remember
<1>10. QED
  BY <1>2, <1>3, <1>4, <1>5, <1>6, <1>7, <1>8, <1>9

LEMMA TypeRest ==
    ASSUME TypeInv, (\E r \in Requests : Crash(r)) \/ Environment
    PROVE  TypeInv'
<1> USE DEF TypeInv, TypeOK
<1>1. ASSUME NEW r \in Requests, Crash(r) PROVE TypeInv'
  <2>1. req' \in [Requests -> Threads] /\ ThreadsOK'
    BY <1>1, GotoUpdate DEF Crash, Unburdened
  <2>2. QED
    BY <1>1, <2>1 DEF Crash
<1>2. CASE Environment
  <2>1. claim' \in Claims
    <3> DEFINE n == claim.revision + 1
    <3>1. claim \in Claims /\ n \in Nat
      BY DEF Claims
    <3>2. \/ claim' = [claim EXCEPT !.revision = n]
          \/ claim' = [[claim EXCEPT !.revision = n] EXCEPT !.terminal = "none"]
          \/ claim' = [[claim EXCEPT !.revision = n] EXCEPT !.terminal = "closed"]
      BY <1>2 DEF Environment, ClaimMutation, EvidenceMutation, CloseClaim, ReopenClaim, Advance
    <3> HIDE DEF n
    <3>3. QED
      BY <3>1, <3>2 DEF Claims
  <2>2. evidence' \in Nat
    BY <1>2 DEF Environment, ClaimMutation, EvidenceMutation, CloseClaim, ReopenClaim
  <2>3. UNCHANGED <<decisions, op, idempotency, lodged, req, crashes>>
    BY <1>2 DEF Environment, ClaimMutation, EvidenceMutation, CloseClaim, ReopenClaim
  <2>4. QED
    BY <2>1, <2>2, <2>3 DEF ThreadsOK
<1>3. QED
  BY <1>1, <1>2

LEMMA TypeStep == TypeInv /\ [Next]_vars => TypeInv'
<1> SUFFICES ASSUME TypeInv, [Next]_vars PROVE TypeInv'
  OBVIOUS
<1>1. CASE UNCHANGED vars
  BY <1>1 DEF vars, TypeInv, TypeOK, ThreadsOK
<1>2. CASE Next
  BY <1>2, TypeReceive, TypeBeforeCall, TypeFromReserve, TypeRest DEF Next, Progress
<1>3. QED
  BY <1>1, <1>2

\* Every record the services store or hold has its declared shape and passes
\* the validator of ClaimCreationOperationRecord, so the revalidation inside
\* assert_claim_creation_operation_transition never refuses one.
THEOREM TypeCorrect == Spec => []TypeOK
<1>1. Spec => []TypeInv
  BY TypeInit, TypeStep, PTL DEF Spec
<1>2. TypeInv => TypeOK
  BY DEF TypeInv
<1>3. QED
  BY <1>1, <1>2, PTL

-----------------------------------------------------------------------------
(* At most one create request takes effect.                                *)

Calling(t) == t.pc \in {"call", "called"}

\* What a thread knows of the operation and of the claims service.  Only the
\* thread that reserved the operation calls; before it does nothing has been
\* lodged, and an answer it or a reconciler holds agrees with what was.
ThreadSafe(t) ==
    /\ Calling(t) =>
         /\ op # NoOperation
         /\ op.payload = t.payload
         /\ op.status \notin {"retryable_failure", "terminal_failure"}
    /\ t.pc = "call" => lodged = 0
    /\ t.pc \in {"called", "reconciled"} /\ t.answer.kind \in {"result", "invalid"} => lodged = 1
    /\ /\ t.pc = "called" /\ t.answer.kind = "failure"
       /\ t.answer.delivery = "not_submitted"
       => lodged = 0
    /\ t.pc \in {"reload", "settle"} =>
         op # NoOperation /\ op.payload = t.payload /\ op.result = t.op.result

Open == op = NoOperation \/ op.status = "retryable_failure"

LodgeInv ==
    /\ lodged \in {0, 1}
    /\ Open => lodged = 0 /\ \A s \in Requests : ~Calling(req[s])
    /\ op # NoOperation /\ op.status \in {"settlement_pending", "accepted"} => lodged = 1
    /\ \A r, s \in Requests : Calling(req[r]) /\ Calling(req[s]) => r = s
    /\ \A s \in Requests : ThreadSafe(req[s])

\* A thread that read the present revision read the present claim.
VersionInv ==
    /\ claim.revision >= 1
    /\ claim.revision = 1 => claim = NewClaim
    /\ \A s \in Requests :
         /\ req[s].claim.revision <= claim.revision
         /\ req[s].claim.revision = claim.revision => req[s].claim = claim

\* A thread past the authorisation check was authorised, and one about to
\* remember its response answers for the revision the claim was settled for.
ResponseOK(t) ==
    /\ t.payload.revision >= 1
    /\ t.pc \in {"reconcile", "reconciled", "reserve", "recover", "call", "called",
                 "reload", "settle"} => decisions[t.payload.key] # 0
    /\ t.pc = "remember" =>
         /\ claim.external # NoResult
         /\ claim.fingerprint.revision = t.payload.revision
         /\ decisions[t.payload.key] # 0

ResponseInv ==
    /\ \A s \in Requests : ResponseOK(req[s])
    /\ claim.external # NoResult => decisions[claim.fingerprint.key] # 0
    /\ RememberedIsSettled

SafeInv == TypeInv /\ LodgeInv /\ AcceptedIffSettled /\ VersionInv /\ ResponseInv

LEMMA SafeInit == Init => SafeInv
<1> SUFFICES ASSUME Init PROVE SafeInv
  OBVIOUS
<1>1. TypeInv
  BY TypeInit
<1>2. LodgeInv
  BY ConstantRecords DEF Init, LodgeInv, ThreadSafe, Calling, Open
<1>3. AcceptedIffSettled
  BY DEF Init, AcceptedIffSettled, NewClaim
<1>4. VersionInv
  BY DEF Init, VersionInv, NewClaim, IdleThread
<1>5. ResponseInv
  BY DEF Init, ResponseInv, ResponseOK, RememberedIsSettled, NewClaim, IdleThread
<1>6. QED
  BY <1>1, <1>2, <1>3, <1>4, <1>5 DEF SafeInv

\* A step that only moves one thread.
LEMMA ThreadStep ==
    ASSUME SafeInv, NEW r \in Requests, NEW t \in Threads,
           req' = [req EXCEPT ![r] = t],
           UNCHANGED <<claim, decisions, op, idempotency, lodged>>,
           t.claim \in {req[r].claim, claim, NewClaim},
           Calling(t) => Calling(req[r]),
           ThreadSafe(t), ResponseOK(t)
    PROVE  LodgeInv' /\ AcceptedIffSettled' /\ VersionInv' /\ ResponseInv'
<1>1. \A s \in Requests : req'[s] = IF s = r THEN t ELSE req[s]
  BY DEF SafeInv, TypeInv, TypeOK
<1>2. LodgeInv'
  BY <1>1 DEF SafeInv, LodgeInv, ThreadSafe, Calling, Open
<1>3. AcceptedIffSettled'
  BY DEF SafeInv, AcceptedIffSettled
<1>4. VersionInv'
  <2>1. NewClaim.revision = 1 /\ claim.revision \in Nat
    BY DEF NewClaim, SafeInv, TypeInv, TypeOK, Claims
  <2>2. QED
    BY <1>1, <2>1 DEF SafeInv, VersionInv
<1>5. ResponseInv'
  BY <1>1 DEF SafeInv, ResponseInv, ResponseOK, RememberedIsSettled
<1>6. QED
  BY <1>2, <1>3, <1>4, <1>5

\* A request that ends, by an answer, a refusal or a crash.
LEMMA EndStep ==
    ASSUME SafeInv, NEW r \in Requests, Goto(r, "idle"),
           UNCHANGED <<claim, decisions, op, idempotency, lodged>>
    PROVE  LodgeInv' /\ AcceptedIffSettled' /\ VersionInv' /\ ResponseInv'
<1>1. req' = [req EXCEPT ![r] = IdleThread]
  BY DEF Goto, At
<1>2. IdleThread \in Threads /\ IdleThread.pc = "idle" /\ IdleThread.claim = NewClaim
      /\ IdleThread.payload.revision = 1
  BY ConstantRecords DEF IdleThread
<1>3. ThreadSafe(IdleThread) /\ ResponseOK(IdleThread) /\ ~Calling(IdleThread)
  BY <1>2 DEF ThreadSafe, ResponseOK, Calling
<1>4. QED
  BY <1>1, <1>2, <1>3, ThreadStep

LEMMA SafeReceive ==
    ASSUME SafeInv, NEW r \in Requests, Receive(r)
    PROVE  LodgeInv' /\ AcceptedIffSettled' /\ VersionInv' /\ ResponseInv'
<1>1. req \in [Requests -> Threads] /\ req[r] \in Threads /\ claim.revision \in Nat /\ evidence \in Nat
  BY DEF SafeInv, TypeInv, TypeOK, Claims
<1>2. CASE ClaimantRequest(r)
  <2>1. PICK k \in Keys, rev \in 1..claim.revision :
          req' = [req EXCEPT ![r].pc = "gate", ![r].path = "claimant",
                             ![r].payload = [key |-> k, revision |-> rev, evidence |-> 0]]
    BY <1>2 DEF ClaimantRequest
  <2> DEFINE t == [req[r] EXCEPT !.pc = "gate", !.path = "claimant",
                                 !.payload = [key |-> k, revision |-> rev, evidence |-> 0]]
  <2>2. t \in Threads /\ t.pc = "gate" /\ t.claim = req[r].claim
        /\ t.payload = [key |-> k, revision |-> rev, evidence |-> 0]
    <3>1. rev \in Nat
      BY <1>1
    <3>2. QED
      BY <1>1, <3>1 DEF Threads, ControlPoints, Payloads
  <2>3. ThreadSafe(t) /\ ResponseOK(t) /\ ~Calling(t)
    BY <1>1, <2>2 DEF ThreadSafe, ResponseOK, Calling
  <2>4. req' = [req EXCEPT ![r] = t]
    BY <2>1
  <2>5. UNCHANGED <<claim, decisions, op, idempotency, lodged>>
    BY <1>2 DEF ClaimantRequest
  <2> HIDE DEF t
  <2>6. QED
    BY <2>2, <2>3, <2>4, <2>5, ThreadStep
<1>3. ASSUME NEW k \in Keys, NEW rev \in 1..claim.revision, NEW snapshot \in 0..evidence,
             IntegrationRequest(r, k, rev, snapshot)
      PROVE  LodgeInv' /\ AcceptedIffSettled' /\ VersionInv' /\ ResponseInv'
  <2> DEFINE t == [req[r] EXCEPT !.pc = "load", !.path = "integration",
                                 !.payload = [key |-> k, revision |-> rev, evidence |-> snapshot]]
  <2>1. t \in Threads /\ t.pc = "load" /\ t.claim = req[r].claim
        /\ t.payload = [key |-> k, revision |-> rev, evidence |-> snapshot]
    <3>1. rev \in Nat /\ snapshot \in Nat
      BY <1>1
    <3>2. QED
      BY <1>1, <3>1 DEF Threads, ControlPoints, Payloads
  <2>2. ThreadSafe(t) /\ ResponseOK(t) /\ ~Calling(t)
    BY <1>1, <2>1 DEF ThreadSafe, ResponseOK, Calling
  <2>3. req' = [req EXCEPT ![r] = t]
    BY <1>3 DEF IntegrationRequest
  <2>4. UNCHANGED <<claim, decisions, op, idempotency, lodged>>
    BY <1>3 DEF IntegrationRequest
  <2> HIDE DEF t
  <2>5. QED
    BY <2>1, <2>2, <2>3, <2>4, ThreadStep
<1>4. QED
  BY <1>2, <1>3 DEF Receive

\* A thread that goes on with what it holds to a point where it does not call.
LEMMA MoveStep ==
    ASSUME SafeInv, NEW r \in Requests, NEW pc \in {"decide", "recover", "remember"}, Goto(r, pc),
           pc # "decide" => decisions[req[r].payload.key] # 0,
           pc = "remember" => /\ claim.external # NoResult
                              /\ claim.fingerprint.revision = req[r].payload.revision,
           UNCHANGED <<claim, decisions, op, idempotency, lodged>>
    PROVE  LodgeInv' /\ AcceptedIffSettled' /\ VersionInv' /\ ResponseInv'
<1>1. req \in [Requests -> Threads] /\ req[r] \in Threads /\ req[r].payload.revision >= 1
  BY DEF SafeInv, TypeInv, TypeOK, ResponseInv, ResponseOK
<1> DEFINE t == [req[r] EXCEPT !.pc = pc]
<1>2. t \in Threads /\ t.pc = pc /\ t.claim = req[r].claim /\ t.payload = req[r].payload
  BY <1>1 DEF Threads, ControlPoints
<1>3. ThreadSafe(t) /\ ResponseOK(t) /\ ~Calling(t)
  BY <1>1, <1>2 DEF ThreadSafe, ResponseOK, Calling
<1>4. req' = [req EXCEPT ![r] = t]
  BY DEF Goto, At
<1> HIDE DEF t
<1>5. QED
  BY <1>2, <1>3, <1>4, ThreadStep

\* create_claim_from_confirmed_report up to the call of create_external_claim.
LEMMA SafeClaimant ==
    ASSUME SafeInv, NEW r \in Requests, Gate(r) \/ Decide(r) \/ Snapshot(r)
    PROVE  LodgeInv' /\ AcceptedIffSettled' /\ VersionInv' /\ ResponseInv'
<1>1. /\ req \in [Requests -> Threads] /\ req[r] \in Threads
      /\ req[r].payload \in Payloads /\ req[r].payload.revision >= 1
      /\ decisions \in [Keys -> Nat] /\ evidence \in Nat
  BY DEF SafeInv, TypeInv, TypeOK, Threads, ResponseInv, ResponseOK
<1>2. CASE Gate(r)
  <2>1. UNCHANGED <<claim, decisions, op, idempotency, lodged>>
    BY <1>2 DEF Gate
  <2>2. \/ Goto(r, "idle")
        \/ Goto(r, "decide")
        \/ Goto(r, "remember") /\ RecoveredDecision(req[r].payload)
    BY <1>2 DEF Gate
  <2>3. QED
    BY <2>1, <2>2, EndStep, MoveStep DEF RecoveredDecision
<1>3. CASE Decide(r)
  <2> DEFINE t == [req[r] EXCEPT !.pc = "snapshot"]
  <2>1. t \in Threads /\ t.pc = "snapshot" /\ t.claim = req[r].claim /\ t.payload = req[r].payload
    BY <1>1 DEF Threads, ControlPoints
  <2>2. req' = [req EXCEPT ![r] = t]
    BY <1>3 DEF Decide, Goto, At
  <2>3. \A s \in Requests : req'[s] = IF s = r THEN t ELSE req[s]
    BY <1>1, <2>2
  <2>4. UNCHANGED <<claim, op, idempotency, lodged>>
    BY <1>3 DEF Decide
  <2>5. \A k \in Keys : decisions[k] # 0 => decisions'[k] # 0
    BY <1>1, <1>3 DEF Decide, Payloads
  <2> HIDE DEF t
  <2>6. LodgeInv'
    BY <2>1, <2>3, <2>4 DEF SafeInv, LodgeInv, ThreadSafe, Calling, Open
  <2>7. AcceptedIffSettled'
    BY <2>4 DEF SafeInv, AcceptedIffSettled
  <2>8. VersionInv'
    BY <2>1, <2>3, <2>4 DEF SafeInv, VersionInv
  <2>9. ResponseInv'
    <3>1. ASSUME NEW s \in Requests PROVE ResponseOK(req[s])'
      <4>1. req[s].payload.key \in Keys
        BY DEF SafeInv, TypeInv, TypeOK, Threads, Payloads
      <4>2. QED
        BY <1>1, <2>1, <2>3, <2>4, <2>5, <4>1 DEF SafeInv, ResponseInv, ResponseOK
    <3>2. (claim.external # NoResult => decisions[claim.fingerprint.key] # 0)'
      <4>1. claim.external # NoResult => claim.fingerprint.key \in Keys
        <5>1. claim.external # NoResult => op # NoOperation /\ claim.fingerprint = op.payload
          BY DEF SafeInv, AcceptedIffSettled
        <5>2. op # NoOperation => op.payload.key \in Keys
          BY DEF SafeInv, TypeInv, TypeOK, Operations, Payloads
        <5>3. QED
          BY <5>1, <5>2
      <4>2. QED
        BY <2>4, <2>5, <4>1 DEF SafeInv, ResponseInv
    <3>3. RememberedIsSettled'
      BY <2>4, <2>5 DEF SafeInv, ResponseInv, RememberedIsSettled
    <3>4. QED
      BY <3>1, <3>2, <3>3 DEF ResponseInv
  <2>10. QED
    BY <2>6, <2>7, <2>8, <2>9
<1>4. CASE Snapshot(r)
  <2> DEFINE t == [req[r] EXCEPT !.pc = "load", !.payload.evidence = evidence]
  <2>1. t \in Threads /\ t.pc = "load" /\ t.claim = req[r].claim
        /\ t.payload.revision = req[r].payload.revision
    BY <1>1 DEF Threads, ControlPoints, Payloads
  <2>2. ThreadSafe(t) /\ ResponseOK(t) /\ ~Calling(t)
    BY <1>1, <2>1 DEF ThreadSafe, ResponseOK, Calling
  <2>3. req' = [req EXCEPT ![r] = t] /\ UNCHANGED <<claim, decisions, op, idempotency, lodged>>
    BY <1>4 DEF Snapshot
  <2> HIDE DEF t
  <2>4. QED
    BY <2>1, <2>2, <2>3, ThreadStep
<1>5. QED
  BY <1>2, <1>3, <1>4

\* create_external_claim up to the reservation, and the steps after it that
\* change neither the operation nor what was lodged.
LEMMA SafeReads ==
    ASSUME SafeInv, NEW r \in Requests, Load(r) \/ Lookup(r) \/ Recover(r) \/ Reconcile(r) \/ Reload(r)
    PROVE  LodgeInv' /\ AcceptedIffSettled' /\ VersionInv' /\ ResponseInv'
<1>1. /\ req \in [Requests -> Threads] /\ req[r] \in Threads
      /\ req[r].payload \in Payloads /\ req[r].claim \in Claims /\ claim \in Claims
      /\ ThreadSafe(req[r]) /\ ResponseOK(req[r]) /\ ThreadOK(req[r])
      /\ op \in Operations \cup {NoOperation}
      /\ op # NoOperation => ValidOperation(op)
      /\ decisions \in [Keys -> Nat]
  BY DEF SafeInv, TypeInv, TypeOK, ThreadsOK, Threads, ResponseInv, LodgeInv
<1>2. UNCHANGED <<claim, decisions, op, idempotency, lodged>>
  BY DEF Load, Lookup, Recover, Reconcile, Reload
<1>3. CASE Load(r)
  <2> DEFINE t == [req[r] EXCEPT !.claim = claim]
             pc == IF claim.external = NoResult THEN "lookup"
                   ELSE IF claim.fingerprint = req[r].payload THEN Answered(r) ELSE "idle"
  <2>1. req' = [req EXCEPT ![r] = At(t, pc)]
    BY <1>3 DEF Load
  <2>2. CASE pc = "idle"
    <3>1. Goto(r, "idle")
      BY <2>1, <2>2 DEF Goto, At
    <3>2. QED
      BY <1>2, <3>1, EndStep
  <2>3. CASE pc # "idle"
    <3> DEFINE u == [t EXCEPT !.pc = pc]
    <3>1. pc = "lookup" \/ (/\ pc = "remember" /\ claim.external # NoResult
                            /\ claim.fingerprint = req[r].payload)
      BY <2>3 DEF Answered
    <3>2. u \in Threads /\ u.pc = pc /\ u.claim = claim /\ u.payload = req[r].payload
      BY <1>1, <3>1 DEF Threads, ControlPoints
    <3>3. ResponseOK(u)
      <4>1. claim.external # NoResult => decisions[claim.fingerprint.key] # 0
        BY DEF SafeInv, ResponseInv
      <4>2. QED
        BY <1>1, <3>1, <3>2, <4>1 DEF ResponseOK
    <3>4. ThreadSafe(u) /\ ~Calling(u)
      BY <3>1, <3>2 DEF ThreadSafe, Calling
    <3>5. req' = [req EXCEPT ![r] = u]
      BY <2>1, <2>3 DEF At
    <3> HIDE DEF u
    <3>6. QED
      BY <1>2, <3>2, <3>3, <3>4, <3>5, ThreadStep
  <2>4. QED
    BY <2>2, <2>3
<1>4. ASSUME NEW c \in {req[r].claim, claim}, NEW pc,
             NEW o, o = op \/ o = NoOperation,
             pc # "idle" => decisions[req[r].payload.key] # 0,
             \/ pc \in {"idle", "reserve"}
             \/ o = op /\ op # NoOperation /\ pc = RecoveryPoint(req[r].payload, op),
             req' = [req EXCEPT ![r] = At([@ EXCEPT !.op = o, !.claim = c], pc)]
      PROVE  LodgeInv' /\ AcceptedIffSettled' /\ VersionInv' /\ ResponseInv'
  <2> DEFINE t == [req[r] EXCEPT !.op = o, !.claim = c]
             u == [t EXCEPT !.pc = pc]
  <2>1. t \in Threads /\ t.op = o /\ t.payload = req[r].payload /\ t.claim = c
    BY <1>1, <1>4, ConstantRecords DEF Threads
  <2>2. CASE pc = "idle"
    <3>1. Goto(r, "idle")
      BY <1>4, <2>2 DEF Goto, At
    <3>2. QED
      BY <1>2, <3>1, EndStep
  <2>3. CASE pc # "idle"
    <3>1. \/ pc \in {"reserve", "reconcile"}
          \/ /\ pc = "settle" /\ o = op /\ op # NoOperation
             /\ op.payload = req[r].payload
      BY <1>4, <2>3 DEF RecoveryPoint
    <3>2. u \in Threads /\ u.pc = pc /\ u.claim = c /\ u.payload = req[r].payload /\ u.op = o
      BY <2>1, <3>1 DEF Threads, ControlPoints
    <3>3. ThreadSafe(u) /\ ~Calling(u)
      BY <3>1, <3>2 DEF ThreadSafe, Calling
    <3>4. ResponseOK(u)
      BY <1>1, <1>4, <2>3, <3>1, <3>2 DEF ResponseOK
    <3>5. req' = [req EXCEPT ![r] = u]
      BY <1>4, <2>3 DEF At
    <3> HIDE DEF u
    <3>6. QED
      BY <1>2, <3>2, <3>3, <3>4, <3>5, ThreadStep
  <2>4. QED
    BY <2>2, <2>3
<1>5. CASE Lookup(r)
  <2> DEFINE p == req[r].payload
             existing == op # NoOperation /\ op.payload.key = p.key
             current == req[r].claim.terminal = "none" /\ req[r].claim.revision = p.revision
             point == IF existing THEN RecoveryPoint(p, op) ELSE "reserve"
             pc == IF (~existing /\ ~current) \/ decisions[p.key] # p.revision THEN "idle"
                   ELSE IF point = "reserve" /\ ~(current /\ evidence = p.evidence) THEN "idle"
                   ELSE point
             o == IF existing THEN op ELSE NoOperation
  <2>1. req' = [req EXCEPT ![r] = At([@ EXCEPT !.op = o], pc)]
    BY <1>5 DEF Lookup
  <2>2. [req[r] EXCEPT !.op = o] = [req[r] EXCEPT !.op = o, !.claim = req[r].claim]
    BY <1>1 DEF Threads
  <2>3. req' = [req EXCEPT ![r] = At([@ EXCEPT !.op = o, !.claim = req[r].claim], pc)]
    BY <2>1, <2>2
  <2>4. pc # "idle" => decisions[p.key] # 0
    BY <1>1 DEF ResponseOK
  <2>5. pc \in {"idle", "reserve"} \/ (o = op /\ op # NoOperation /\ pc = RecoveryPoint(p, op))
    OBVIOUS
  <2>6. o = op \/ o = NoOperation
    OBVIOUS
  <2> HIDE DEF pc, o
  <2>7. QED
    BY <1>4, <2>3, <2>4, <2>5, <2>6
<1>6. CASE Recover(r)
  <2> DEFINE point == RecoveryPoint(req[r].payload, op)
             pc == IF point = "reserve" THEN "idle" ELSE point
  <2>1. req' = [req EXCEPT ![r] = At([@ EXCEPT !.op = op, !.claim = claim], pc)]
    BY <1>6 DEF Recover
  <2>2. pc \in {"idle", "reserve"} \/ (op # NoOperation /\ pc = RecoveryPoint(req[r].payload, op))
    BY ConstantRecords DEF RecoveryPoint
  <2>3. decisions[req[r].payload.key] # 0
    BY <1>1, <1>6 DEF Recover, ResponseOK
  <2> HIDE DEF pc
  <2>4. QED
    BY <1>4, <2>1, <2>2, <2>3
<1>7. CASE Reconcile(r)
  <2>1. PICK a \in Answers :
          /\ a.kind \in {"result", "invalid"} => lodged > 0
          /\ req' = [req EXCEPT ![r].pc = "reconciled", ![r].answer = a]
    BY <1>7 DEF Reconcile
  <2> DEFINE t == [req[r] EXCEPT !.pc = "reconciled", !.answer = a]
  <2>2. t \in Threads /\ t.pc = "reconciled" /\ t.answer = a /\ t.claim = req[r].claim
        /\ t.payload = req[r].payload
    BY <1>1 DEF Threads, ControlPoints
  <2>3. ThreadSafe(t) /\ ~Calling(t)
    BY <2>1, <2>2 DEF ThreadSafe, Calling, SafeInv, LodgeInv
  <2>4. ResponseOK(t)
    BY <1>1, <1>7, <2>2 DEF ResponseOK, Reconcile
  <2>5. req' = [req EXCEPT ![r] = t]
    BY <2>1
  <2> HIDE DEF t
  <2>6. QED
    BY <1>2, <2>2, <2>3, <2>4, <2>5, ThreadStep
<1>8. CASE Reload(r)
  <2> DEFINE t == [req[r] EXCEPT !.pc = "settle", !.claim = claim]
  <2>1. t \in Threads /\ t.pc = "settle" /\ t.claim = claim /\ t.payload = req[r].payload
        /\ t.op = req[r].op
    BY <1>1 DEF Threads, ControlPoints
  <2>2. ThreadSafe(t) /\ ~Calling(t)
    BY <1>1, <1>8, <2>1 DEF ThreadSafe, Calling, Reload
  <2>3. ResponseOK(t)
    BY <1>1, <1>8, <2>1 DEF ResponseOK, Reload
  <2>4. req' = [req EXCEPT ![r] = t]
    BY <1>8 DEF Reload
  <2> HIDE DEF t
  <2>5. QED
    BY <1>2, <2>1, <2>2, <2>3, <2>4, ThreadStep
<1>9. QED
  BY <1>3, <1>5, <1>6, <1>7, <1>8

\* No thread is about to settle while the operation has no result.
LEMMA NoSettlerWithoutResult ==
    ASSUME SafeInv, op = NoOperation \/ op.result = NoResult, NEW s \in Requests
    PROVE  req[s].pc \notin {"reload", "settle"}
<1>1. ThreadOK(req[s]) /\ ThreadSafe(req[s])
  BY DEF SafeInv, TypeInv, ThreadsOK, LodgeInv
<1>2. req[s].pc \in {"reload", "settle"} => req[s].op.result \in Results
  BY <1>1, AcceptedIsValid DEF ThreadOK
<1>3. QED
  BY <1>1, <1>2, ConstantRecords DEF ThreadSafe

LEMMA SafeReserve ==
    ASSUME SafeInv, NEW r \in Requests, Reserve(r)
    PROVE  LodgeInv' /\ AcceptedIffSettled' /\ VersionInv' /\ ResponseInv'
<1> DEFINE p == req[r].payload
           t == [req[r] EXCEPT !.pc = "call", !.op = FreshOperation(p)]
<1>1. /\ req \in [Requests -> Threads] /\ req[r] \in Threads /\ p \in Payloads
      /\ op \in Operations \cup {NoOperation}
      /\ op # NoOperation => ValidOperation(op)
      /\ ResponseOK(req[r])
  BY DEF SafeInv, TypeInv, TypeOK, Threads, ResponseInv
<1>2. UNCHANGED <<claim, decisions, idempotency, lodged>> /\ req[r].pc = "reserve"
  BY DEF Reserve
<1>3. decisions[p.key] # 0
  BY <1>1, <1>2 DEF ResponseOK
<1>4. CASE UNCHANGED op /\ Goto(r, "recover")
  BY <1>2, <1>3, <1>4, MoveStep
<1>5. CASE UNCHANGED op /\ Goto(r, "idle")
  BY <1>2, <1>5, EndStep
<1>6. CASE /\ Open /\ claim.external = NoResult
           /\ op' = FreshOperation(p)
           /\ req' = [req EXCEPT ![r].pc = "call", ![r].op = FreshOperation(p)]
  <2>1. /\ FreshOperation(p) \in Operations
        /\ op'.payload = p /\ op'.status = "prepared" /\ op' # NoOperation
    BY <1>1, <1>6, FreshIsValid, ConstantRecords DEF FreshOperation
  <2>2. t \in Threads /\ t.pc = "call" /\ t.claim = req[r].claim /\ t.payload = p
    BY <1>1, <2>1 DEF Threads, ControlPoints
  <2>3. \A s \in Requests : req'[s] = IF s = r THEN t ELSE req[s]
    BY <1>1, <1>6
  <2> HIDE DEF t
  <2>4. lodged = 0 /\ \A s \in Requests : ~Calling(req[s])
    BY <1>6 DEF SafeInv, LodgeInv
  <2>5. \A s \in Requests : req[s].pc \notin {"reload", "settle"}
    <3>1. op = NoOperation \/ op.result = NoResult
      BY <1>1, <1>6 DEF Open, ValidOperation
    <3>2. QED
      BY <3>1, NoSettlerWithoutResult
  <2>6. LodgeInv'
    <3>1. \A s \in Requests : ThreadSafe(req[s])'
      BY <1>2, <2>1, <2>2, <2>3, <2>4, <2>5 DEF SafeInv, LodgeInv, ThreadSafe, Calling
    <3>2. QED
      BY <1>2, <2>1, <2>2, <2>3, <2>4, <3>1 DEF LodgeInv, Calling, Open
  <2>7. AcceptedIffSettled'
    BY <1>2, <1>6, <2>1 DEF AcceptedIffSettled
  <2>8. VersionInv'
    BY <1>2, <2>2, <2>3 DEF SafeInv, VersionInv
  <2>9. ResponseInv'
    BY <1>1, <1>2, <1>3, <2>2, <2>3 DEF SafeInv, ResponseInv, ResponseOK, RememberedIsSettled
  <2>10. QED
    BY <2>6, <2>7, <2>8, <2>9
<1>7. QED
  BY <1>4, <1>5, <1>6 DEF Reserve, Open

LEMMA SafeCall ==
    ASSUME SafeInv, NEW r \in Requests, Call(r)
    PROVE  LodgeInv' /\ AcceptedIffSettled' /\ VersionInv' /\ ResponseInv'
<1>1. /\ req \in [Requests -> Threads] /\ req[r] \in Threads /\ req[r].pc = "call"
      /\ ThreadSafe(req[r]) /\ ResponseOK(req[r])
      /\ op \in Operations \cup {NoOperation}
      /\ UNCHANGED <<claim, decisions, op, idempotency>>
  BY DEF Call, SafeInv, TypeInv, TypeOK, LodgeInv, ResponseInv
<1>2. PICK a \in Answers \ {NoAnswer} :
        /\ req' = [req EXCEPT ![r].pc = "called", ![r].answer = a]
        /\ lodged' \in CASE a.kind \in {"result", "invalid"} -> {lodged + 1}
                         [] a.kind = "failure" /\ a.delivery = "submitted" -> {lodged, lodged + 1}
                         [] OTHER -> {lodged}
  BY DEF Call
<1> DEFINE t == [req[r] EXCEPT !.pc = "called", !.answer = a]
<1>3. t \in Threads /\ t.pc = "called" /\ t.claim = req[r].claim /\ t.payload = req[r].payload
      /\ t.answer = a
  BY <1>1, <1>2 DEF Threads, ControlPoints
<1>4. \A s \in Requests : req'[s] = IF s = r THEN t ELSE req[s]
  BY <1>1, <1>2
<1> HIDE DEF t
<1>5. lodged = 0 /\ lodged' \in {0, 1}
      /\ (a.kind \in {"result", "invalid"} => lodged' = 1)
      /\ (a.kind = "failure" /\ a.delivery = "not_submitted" => lodged' = 0)
  BY <1>1, <1>2 DEF ThreadSafe
<1>6. \A s \in Requests : s # r => ~Calling(req[s])
  BY <1>1 DEF SafeInv, LodgeInv, Calling
<1>7. LodgeInv'
  <2>1. ~Open /\ op.payload = req[r].payload
        /\ op.status \notin {"settlement_pending", "accepted", "terminal_failure"}
    BY <1>1, <1>5 DEF SafeInv, LodgeInv, ThreadSafe, Calling, Open
  <2>2. \A s \in Requests : s # r => req[s].pc # "reconciled" \/ req[s].answer.kind \notin {"result", "invalid"}
    BY <1>5 DEF SafeInv, LodgeInv, ThreadSafe
  <2>3. \A s \in Requests : ThreadSafe(req[s])'
    BY <1>1, <1>3, <1>4, <1>5, <1>6, <2>1, <2>2 DEF SafeInv, LodgeInv, ThreadSafe, Calling, Open
  <2>4. QED
    BY <1>1, <1>3, <1>4, <1>5, <1>6, <2>1, <2>3 DEF LodgeInv, Calling, Open
<1>8. AcceptedIffSettled'
  BY <1>1 DEF SafeInv, AcceptedIffSettled
<1>9. VersionInv'
  BY <1>1, <1>3, <1>4 DEF SafeInv, VersionInv
<1>10. ResponseInv'
  BY <1>1, <1>3, <1>4 DEF SafeInv, ResponseInv, ResponseOK, RememberedIsSettled
<1>11. QED
  BY <1>7, <1>8, <1>9, <1>10

\* save_claim_creation_operation, for whatever record a thread may hand it.
LEMMA SafeSave ==
    ASSUME SafeInv, NEW r \in Requests,
           NEW u \in Operations, ValidOperation(u),
           NEW pc \in {"idle", "settle", "reload"},
           SaveOperation(r, u, pc),
           UNCHANGED <<claim, decisions, idempotency, lodged>>,
           u.status \in {"settlement_pending", "retryable_failure", "terminal_failure", "unknown_outcome"},
           u.status = "settlement_pending" => lodged = 1,
           u.status = "retryable_failure" => lodged = 0,
           u.status \in {"retryable_failure", "terminal_failure"} => Calling(req[r]),
           pc # "idle" => /\ u.status = "settlement_pending" /\ u.payload = req[r].payload
                          /\ decisions[req[r].payload.key] # 0
    PROVE  LodgeInv' /\ AcceptedIffSettled' /\ VersionInv' /\ ResponseInv'
<1>1. /\ req \in [Requests -> Threads] /\ req[r] \in Threads
      /\ op \in Operations \cup {NoOperation}
      /\ op # NoOperation => ValidOperation(op)
      /\ ResponseOK(req[r])
  BY DEF SafeInv, TypeInv, TypeOK, ResponseInv
<1>2. CASE UNCHANGED op /\ Goto(r, "idle")
  BY <1>2, EndStep
<1>3. CASE /\ TransitionPermitted(op, u) /\ op' = u
           /\ req' = [req EXCEPT ![r] = At([@ EXCEPT !.op = u, !.answer = NoAnswer], pc)]
  <2> DEFINE t == At([req[r] EXCEPT !.op = u, !.answer = NoAnswer], pc)
  <2>1. /\ t \in Threads /\ t.pc = pc /\ t.claim \in {req[r].claim, NewClaim}
        /\ t.payload.revision >= 1
        /\ pc # "idle" => t.op = u /\ t.payload = req[r].payload
    <3>1. CASE pc = "idle"
      BY <3>1, ConstantRecords DEF At, IdleThread
    <3>2. CASE pc # "idle"
      <4> DEFINE v == [[req[r] EXCEPT !.op = u, !.answer = NoAnswer] EXCEPT !.pc = pc]
      <4>1. /\ v \in Threads /\ v.pc = pc /\ v.claim = req[r].claim
            /\ v.op = u /\ v.payload = req[r].payload
        BY <1>1, <3>2, ConstantRecords DEF Threads, ControlPoints
      <4>2. t = v
        BY <3>2 DEF At
      <4> HIDE DEF t, v
      <4>3. QED
        BY <1>1, <4>1, <4>2 DEF ResponseOK
    <3>3. QED
      BY <3>1, <3>2
  <2>2. \A s \in Requests : req'[s] = IF s = r THEN t ELSE req[s]
    BY <1>1, <1>3
  <2> HIDE DEF t
  <2>3. /\ op # NoOperation /\ op.payload = u.payload /\ op.result = NoResult
        /\ op.status \in {"prepared", "unknown_outcome"}
    <3>1. op # NoOperation /\ op \in Operations /\ op.payload = u.payload
          /\ u.status \in AllowedTransitions[op.status] /\ op.status \in Statuses
      BY <1>1, <1>3 DEF TransitionPermitted, Operations
    <3>2. op.status \in {"prepared", "unknown_outcome"}
      BY <3>1 DEF AllowedTransitions, Statuses
    <3>3. QED
      BY <1>1, <3>1, <3>2 DEF ValidOperation
  <2>4. \A s \in Requests : req[s].pc \notin {"reload", "settle"}
    BY <2>3, NoSettlerWithoutResult
  <2>5. u # NoOperation
    BY ConstantRecords
  <2>6. u.status \in {"retryable_failure", "terminal_failure"} => \A s \in Requests : ~Calling(req'[s])
    <3>1. u.status \in {"retryable_failure", "terminal_failure"} =>
            \A s \in Requests : s # r => ~Calling(req[s])
      BY DEF SafeInv, LodgeInv
    <3>2. ~Calling(t)
      BY <2>1 DEF Calling
    <3>3. QED
      BY <2>2, <3>1, <3>2
  <2>7. ASSUME NEW s \in Requests PROVE ThreadSafe(req[s])'
    <3>1. CASE s = r
      <4>1. req'[s] = t
        BY <2>2, <3>1
      <4>2. QED
        BY <1>3, <2>1, <2>3, <2>5, <4>1 DEF ThreadSafe, Calling
    <3>2. CASE s # r
      <4>1. req'[s] = req[s] /\ ThreadSafe(req[s]) /\ req[s].pc \notin {"reload", "settle"}
        BY <2>2, <2>4, <3>2 DEF SafeInv, LodgeInv
      <4>2. Calling(req[s]) => u.status \notin {"retryable_failure", "terminal_failure"}
        BY <2>6, <4>1
      <4>3. QED
        BY <1>3, <2>3, <2>5, <4>1, <4>2 DEF ThreadSafe, Calling
    <3>3. QED
      BY <3>1, <3>2
  <2>8. LodgeInv'
    <3>1. Open' => lodged' = 0 /\ \A s \in Requests : ~Calling(req'[s])
      BY <1>3, <2>5, <2>6 DEF Open
    <3>2. (op # NoOperation /\ op.status \in {"settlement_pending", "accepted"} => lodged = 1)'
      BY <1>3
    <3>3. \A x, y \in Requests : Calling(req'[x]) /\ Calling(req'[y]) => x = y
      BY <2>1, <2>2 DEF SafeInv, LodgeInv, Calling
    <3>4. QED
      BY <2>7, <3>1, <3>2, <3>3 DEF SafeInv, LodgeInv, Calling
  <2>9. AcceptedIffSettled'
    BY <1>3, <2>3 DEF SafeInv, AcceptedIffSettled
  <2>10. VersionInv'
    <3>1. NewClaim.revision = 1 /\ claim.revision \in Nat
      BY DEF NewClaim, SafeInv, TypeInv, TypeOK, Claims
    <3>2. QED
      BY <2>1, <2>2, <3>1 DEF SafeInv, VersionInv
  <2>11. ResponseInv'
    BY <1>1, <2>1, <2>2 DEF SafeInv, ResponseInv, ResponseOK, RememberedIsSettled
  <2>12. QED
    BY <2>8, <2>9, <2>10, <2>11
<1>4. QED
  BY <1>2, <1>3 DEF SaveOperation

\* What follows the create call or the reconciliation.
LEMMA SafeOutcome ==
    ASSUME SafeInv, NEW r \in Requests, Called(r) \/ Reconciled(r)
    PROVE  LodgeInv' /\ AcceptedIffSettled' /\ VersionInv' /\ ResponseInv'
<1> DEFINE a == req[r].answer
           o == req[r].op
<1>1. /\ req[r] \in Threads /\ a \in Answers /\ req[r].payload \in Payloads
      /\ ThreadOK(req[r]) /\ ThreadSafe(req[r]) /\ ResponseOK(req[r])
  BY DEF SafeInv, TypeInv, TypeOK, ThreadsOK, Threads, LodgeInv, ResponseInv
<1>2. UNCHANGED <<claim, decisions, idempotency, lodged>>
  BY DEF Called, Reconciled
<1>3. /\ req[r].pc \in {"called", "reconciled"}
      /\ o \in Operations /\ ValidOperation(o) /\ o.payload = req[r].payload
      /\ o.status \in {"prepared", "unknown_outcome"}
      /\ req[r].pc = "called" => o.result = NoResult
      /\ decisions[req[r].payload.key] # 0
  <2>1. req[r].pc \in {"called", "reconciled"}
    BY DEF Called, Reconciled
  <2>2. CASE req[r].pc = "called"
    BY <1>1, <2>2, FreshIsValid DEF ThreadOK, FreshOperation, ResponseOK
  <2>3. CASE req[r].pc = "reconciled"
    BY <1>1, <2>3 DEF ThreadOK, ResponseOK
  <2>4. QED
    BY <2>1, <2>2, <2>3
<1> HIDE DEF o
<1>4. ASSUME a.kind = "result", NEW pc \in {"settle", "reload"},
             SaveOperation(r, Recorded(o, a.result), pc)
      PROVE  LodgeInv' /\ AcceptedIffSettled' /\ VersionInv' /\ ResponseInv'
  <2> DEFINE u == Recorded(o, a.result)
  <2>1. a.result \in Results
    BY <1>1, <1>4 DEF Answers
  <2>2. u \in Operations /\ ValidOperation(u) /\ u.status = "settlement_pending" /\ u.payload = o.payload
    BY <1>3, <2>1, RecordedIsValid
  <2>3. lodged = 1
    BY <1>1, <1>3, <1>4 DEF ThreadSafe
  <2>4. SaveOperation(r, u, pc)
    BY <1>4
  <2> HIDE DEF u
  <2>5. QED
    BY <1>2, <1>3, <2>2, <2>3, <2>4, SafeSave
<1>5. ASSUME req[r].pc = "called", a.kind = "failure", SaveOperation(r, Failed(o, a.code, a.delivery), "idle")
      PROVE  LodgeInv' /\ AcceptedIffSettled' /\ VersionInv' /\ ResponseInv'
  <2> DEFINE u == Failed(o, a.code, a.delivery)
  <2>1. a.code \in FailureCodes /\ a.delivery \in Deliveries
    BY <1>1, <1>5 DEF Answers
  <2>2. /\ u \in Operations /\ ValidOperation(u) /\ u.status = Classify(a.code, a.delivery)
        /\ u.status \in {"retryable_failure", "terminal_failure", "unknown_outcome"}
    BY <1>3, <1>5, <2>1, FailedIsValid
  <2>3. u.status = "retryable_failure" => lodged = 0
    BY <1>1, <1>5, <2>2 DEF Classify, ThreadSafe
  <2>4. Calling(req[r])
    BY <1>5 DEF Calling
  <2>5. SaveOperation(r, u, "idle")
    BY <1>5
  <2> HIDE DEF u
  <2>6. QED
    BY <1>2, <2>2, <2>3, <2>4, <2>5, SafeSave
<1>6. ASSUME SaveOperation(r, Unknown(o), "idle")
      PROVE  LodgeInv' /\ AcceptedIffSettled' /\ VersionInv' /\ ResponseInv'
  <2> DEFINE u == Unknown(o)
  <2>1. u \in Operations /\ ValidOperation(u) /\ u.status = "unknown_outcome"
    BY <1>3, UnknownIsValid
  <2>2. SaveOperation(r, u, "idle")
    BY <1>6
  <2> HIDE DEF u
  <2>3. QED
    BY <1>2, <2>1, <2>2, SafeSave
<1>7. CASE Goto(r, "idle") /\ UNCHANGED op
  BY <1>2, <1>7, EndStep
<1>8. \/ a.kind = "result" /\ (\E pc \in {"settle", "reload"} : SaveOperation(r, Recorded(o, a.result), pc))
      \/ req[r].pc = "called" /\ a.kind = "failure" /\ SaveOperation(r, Failed(o, a.code, a.delivery), "idle")
      \/ SaveOperation(r, Unknown(o), "idle")
      \/ Goto(r, "idle") /\ UNCHANGED op
  BY DEF Called, Reconciled, o
<1>9. QED
  BY <1>4, <1>5, <1>6, <1>7, <1>8

\* The fields of the claim that settlement writes.
LEMMA SettledFields ==
    ASSUME NEW c \in Claims, NEW o \in Operations
    PROVE  /\ SettledClaim(c, o).external = o.result
           /\ SettledClaim(c, o).fingerprint = o.payload
           /\ SettledClaim(c, o).revision = c.revision + 1
BY DEF SettledClaim, Claims

\* What a settling thread holds.
LEMMA Settler ==
    ASSUME SafeInv, NEW r \in Requests, Settle(r)
    PROVE  /\ req \in [Requests -> Threads] /\ req[r] \in Threads /\ req[r].pc = "settle"
           /\ req[r].op \in Operations /\ ValidOperation(req[r].op)
           /\ req[r].op.status = "settlement_pending"
           /\ req[r].op.payload = req[r].payload /\ req[r].op.result \in Results
           /\ claim \in Claims /\ req[r].claim \in Claims
           /\ ThreadSafe(req[r]) /\ ResponseOK(req[r])
<1>1. req[r].pc = "settle"
  BY DEF Settle
<1>2. /\ req \in [Requests -> Threads] /\ req[r] \in Threads
      /\ claim \in Claims /\ req[r].claim \in Claims
      /\ ThreadOK(req[r]) /\ ThreadSafe(req[r]) /\ ResponseOK(req[r])
  BY DEF SafeInv, TypeInv, TypeOK, ThreadsOK, Threads, LodgeInv, ResponseInv
<1>3. /\ req[r].op \in Operations /\ ValidOperation(req[r].op)
      /\ req[r].op.status = "settlement_pending" /\ req[r].op.payload = req[r].payload
  BY <1>1, <1>2 DEF ThreadOK
<1>4. req[r].op.result \in Results
  BY <1>3, AcceptedIsValid
<1>5. QED
  BY <1>1, <1>2, <1>3, <1>4

\* The effect of save_claim_creation_outcome: it is refused, or it settles the
\* stored claim, which the thread had read, with the stored operation's result.
LEMMA SettleEffect ==
    ASSUME SafeInv, NEW r \in Requests, Settle(r)
    PROVE  \/ Goto(r, "idle") /\ UNCHANGED <<claim, op>>
           \/ /\ Goto(r, Answered(r))
              /\ req[r].claim = claim /\ claim.external = NoResult /\ claim.terminal = "none"
              /\ claim'.external = req[r].op.result /\ claim'.external \in Results
              /\ claim'.external # NoResult
              /\ claim'.fingerprint = req[r].op.payload
              /\ claim'.revision = claim.revision + 1
              /\ op' # NoOperation /\ op'.status = "accepted"
              /\ op'.payload = req[r].op.payload /\ op'.result = req[r].op.result
              /\ op # NoOperation /\ op.payload = req[r].op.payload
              /\ op.result = req[r].op.result /\ lodged = 1
<1> DEFINE o == req[r].op
<1>1. CASE /\ MaySettle(r)
           /\ claim' = SettledClaim(req[r].claim, o)
           /\ op' = [o EXCEPT !.status = "accepted"]
           /\ Goto(r, Answered(r))
  <2>1. req[r].claim = claim /\ claim.external = NoResult /\ claim.terminal = "none"
    BY <1>1 DEF MaySettle, SafeInv, VersionInv
  <2>2. o \in Operations /\ ValidOperation(o) /\ o.status = "settlement_pending" /\ o.result \in Results
        /\ claim \in Claims /\ ThreadSafe(req[r]) /\ req[r].pc = "settle"
        /\ o.payload = req[r].payload
    BY Settler
  <2>3. /\ claim'.external = o.result /\ claim'.fingerprint = o.payload
        /\ claim'.revision = claim.revision + 1 /\ claim'.external # NoResult
    BY <1>1, <2>1, <2>2, SettledFields, ConstantRecords
  <2>4. /\ op' # NoOperation /\ op'.status = "accepted"
        /\ op'.payload = o.payload /\ op'.result = o.result
    <3>1. op' \in Operations
      BY <1>1, <2>2, AcceptedIsValid
    <3>2. QED
      BY <1>1, <2>2, <3>1, ConstantRecords DEF Operations
  <2>5. op # NoOperation /\ op.payload = o.payload /\ op.result = o.result /\ lodged = 1
    <3>1. op # NoOperation /\ op.payload = o.payload /\ op.result = o.result
      BY <2>2 DEF ThreadSafe
    <3>2. op.result # NoResult
      BY <2>2, <3>1, ConstantRecords
    <3>3. op.status \in {"settlement_pending", "accepted"}
      BY <3>1, <3>2 DEF SafeInv, TypeInv, TypeOK, ValidOperation
    <3>4. QED
      BY <3>1, <3>3 DEF SafeInv, LodgeInv
  <2> HIDE DEF o
  <2>6. QED
    BY <1>1, <2>1, <2>2, <2>3, <2>4, <2>5 DEF o
<1>2. CASE ~MaySettle(r) /\ Goto(r, "idle") /\ UNCHANGED <<claim, op>>
  BY <1>2
<1>3. QED
  BY <1>1, <1>2 DEF Settle

LEMMA SafeSettle ==
    ASSUME SafeInv, NEW r \in Requests, Settle(r)
    PROVE  LodgeInv' /\ AcceptedIffSettled' /\ VersionInv' /\ ResponseInv'
<1> DEFINE o == req[r].op
<1>1. /\ req \in [Requests -> Threads] /\ req[r] \in Threads /\ req[r].pc = "settle"
      /\ o.payload = req[r].payload
      /\ ThreadSafe(req[r]) /\ ResponseOK(req[r])
      /\ UNCHANGED <<decisions, idempotency, lodged>>
  BY Settler DEF Settle
<1>2. CASE Goto(r, "idle") /\ UNCHANGED <<claim, op>>
  BY <1>1, <1>2, EndStep
<1>3. CASE ~(Goto(r, "idle") /\ UNCHANGED <<claim, op>>)
  <2>1. req[r].claim = claim /\ claim.external = NoResult /\ Goto(r, Answered(r))
    BY <1>3, SettleEffect
  <2>2. /\ claim'.external = o.result /\ claim'.fingerprint = o.payload
        /\ claim'.revision = claim.revision + 1 /\ claim'.external # NoResult
    BY <1>3, SettleEffect
  <2>3. /\ op' # NoOperation /\ op'.status = "accepted"
        /\ op'.payload = o.payload /\ op'.result = o.result
    BY <1>3, SettleEffect
  <2>4. op # NoOperation /\ op.payload = o.payload /\ op.result = o.result /\ lodged = 1
    BY <1>3, SettleEffect
  <2> DEFINE t == At(req[r], Answered(r))
  <2>5. /\ t \in Threads /\ t.pc \in {"idle", "remember"}
        /\ t.claim \in {claim, NewClaim} /\ t.payload.revision >= 1
        /\ t.pc = "remember" => t.payload = req[r].payload
    <3>1. CASE Answered(r) = "idle"
      BY <3>1, ConstantRecords DEF At, IdleThread
    <3>2. CASE Answered(r) = "remember"
      <4> DEFINE v == [req[r] EXCEPT !.pc = "remember"]
      <4>1. v \in Threads /\ v.pc = "remember" /\ v.claim = req[r].claim /\ v.payload = req[r].payload
        BY <1>1 DEF Threads, ControlPoints
      <4>2. t = v
        BY <3>2 DEF At
      <4> HIDE DEF t, v
      <4>3. QED
        BY <1>1, <2>1, <4>1, <4>2 DEF ResponseOK
    <3>3. QED
      BY <3>1, <3>2 DEF Answered
  <2>6. \A s \in Requests : req'[s] = IF s = r THEN t ELSE req[s]
    BY <1>1, <2>1 DEF Goto
  <2> HIDE DEF t, o
  <2>7. LodgeInv'
    <3>1. ASSUME NEW s \in Requests PROVE ThreadSafe(req[s])'
      <4>1. CASE s = r
        BY <2>5, <2>6, <4>1 DEF ThreadSafe, Calling
      <4>2. CASE s # r
        <5>1. req'[s] = req[s] /\ ThreadSafe(req[s])
          BY <2>6, <4>2 DEF SafeInv, LodgeInv
        <5>2. QED
          BY <1>1, <2>3, <2>4, <5>1 DEF ThreadSafe, Calling
      <4>3. QED
        BY <4>1, <4>2
    <3>2. \A x, y \in Requests : Calling(req'[x]) /\ Calling(req'[y]) => x = y
      BY <2>5, <2>6 DEF SafeInv, LodgeInv, Calling
    <3>3. QED
      BY <1>1, <2>3, <2>4, <3>1, <3>2 DEF LodgeInv, Open, Calling
  <2>8. AcceptedIffSettled'
    BY <2>2, <2>3 DEF AcceptedIffSettled
  <2>9. VersionInv'
    <3>1. NewClaim.revision = 1 /\ claim.revision \in Nat /\ claim.revision >= 1
          /\ \A s \in Requests : req[s].claim.revision \in Nat /\ req[s].claim.revision <= claim.revision
      BY DEF NewClaim, SafeInv, TypeInv, TypeOK, Claims, Threads, VersionInv
    <3>2. \A s \in Requests : req'[s].claim.revision < claim'.revision
      BY <2>2, <2>5, <2>6, <3>1
    <3>3. \A s \in Requests : req'[s].claim.revision \in Nat
      BY <2>5, <2>6, <3>1
    <3>4. QED
      BY <2>2, <3>1, <3>2, <3>3 DEF VersionInv
  <2>10. ResponseInv'
    <3>1. ASSUME NEW s \in Requests PROVE ResponseOK(req[s])'
      <4>1. CASE s = r
        BY <1>1, <2>2, <2>5, <2>6, <4>1 DEF ResponseOK
      <4>2. CASE s # r
        BY <1>1, <2>1, <2>6, <4>2 DEF SafeInv, ResponseInv, ResponseOK
      <4>3. QED
        BY <4>1, <4>2
    <3>2. decisions'[claim'.fingerprint.key] # 0
      BY <1>1, <2>2 DEF ResponseOK
    <3>3. RememberedIsSettled'
      BY <1>1, <2>1 DEF SafeInv, ResponseInv, RememberedIsSettled
    <3>4. QED
      BY <3>1, <3>2, <3>3 DEF ResponseInv
  <2>11. QED
    BY <2>7, <2>8, <2>9, <2>10
<1>4. QED
  BY <1>2, <1>3

LEMMA SafeRemember ==
    ASSUME SafeInv, NEW r \in Requests, Remember(r)
    PROVE  LodgeInv' /\ AcceptedIffSettled' /\ VersionInv' /\ ResponseInv'
<1>1. /\ req \in [Requests -> Threads] /\ req[r] \in Threads /\ req[r].pc = "remember"
      /\ req[r].payload \in Payloads /\ req[r].payload.key \in Keys
      /\ ResponseOK(req[r]) /\ idempotency \in [Keys -> Nat]
      /\ UNCHANGED <<claim, decisions, op, lodged>>
  BY DEF Remember, SafeInv, TypeInv, TypeOK, Threads, Payloads, ResponseInv
<1>2. IdleThread \in Threads /\ IdleThread.pc = "idle" /\ IdleThread.claim = NewClaim
      /\ IdleThread.payload.revision = 1
  BY ConstantRecords DEF IdleThread
<1>3. \A s \in Requests : req'[s] = IF s = r THEN IdleThread ELSE req[s]
  BY <1>1 DEF Remember, Goto, At
<1>4. LodgeInv'
  BY <1>1, <1>2, <1>3 DEF SafeInv, LodgeInv, ThreadSafe, Calling, Open
<1>5. AcceptedIffSettled'
  BY <1>1 DEF SafeInv, AcceptedIffSettled
<1>6. VersionInv'
  <2>1. NewClaim.revision = 1 /\ claim.revision \in Nat
    BY DEF NewClaim, SafeInv, TypeInv, TypeOK, Claims
  <2>2. QED
    BY <1>1, <1>2, <1>3, <2>1 DEF SafeInv, VersionInv
<1>7. ResponseInv'
  <2>1. \A s \in Requests : ResponseOK(req[s])'
    BY <1>1, <1>2, <1>3 DEF SafeInv, ResponseInv, ResponseOK
  <2>2. RememberedIsSettled'
    <3>1. ASSUME NEW k \in Keys, idempotency'[k] # 0
          PROVE  /\ claim.external # NoResult
                 /\ claim.fingerprint.revision = idempotency'[k]
                 /\ decisions[k] # 0
      <4>1. CASE idempotency'[k] = idempotency[k]
        BY <3>1, <4>1 DEF SafeInv, ResponseInv, RememberedIsSettled
      <4>2. CASE k = req[r].payload.key /\ idempotency'[k] = req[r].payload.revision
        BY <1>1, <4>2 DEF ResponseOK
      <4>3. QED
        BY <1>1, <4>1, <4>2 DEF Remember
    <3>2. QED
      BY <1>1, <3>1 DEF RememberedIsSettled
  <2>3. QED
    BY <1>1, <2>1, <2>2 DEF SafeInv, ResponseInv
<1>8. QED
  BY <1>4, <1>5, <1>6, <1>7

\* Other services leave the result and its fingerprint alone.
LEMMA EnvironmentFields ==
    ASSUME TypeOK, Environment
    PROVE  /\ claim'.external = claim.external /\ claim'.fingerprint = claim.fingerprint
           /\ claim'.revision = claim.revision + 1
           /\ UNCHANGED <<decisions, op, idempotency, lodged, req>>
<1>1. claim \in Claims
  BY DEF TypeOK
<1>2. CASE ClaimMutation \/ EvidenceMutation
  BY <1>1, <1>2 DEF ClaimMutation, EvidenceMutation, Advance, Claims
<1>3. CASE CloseClaim
  BY <1>1, <1>3 DEF CloseClaim, Advance, Claims
<1>4. CASE ReopenClaim
  BY <1>1, <1>4 DEF ReopenClaim, Advance, Claims
<1>5. QED
  BY <1>2, <1>3, <1>4 DEF Environment

LEMMA SafeEnvironment ==
    ASSUME SafeInv, Environment
    PROVE  LodgeInv' /\ AcceptedIffSettled' /\ VersionInv' /\ ResponseInv'
<1>1. /\ claim'.external = claim.external /\ claim'.fingerprint = claim.fingerprint
      /\ claim'.revision = claim.revision + 1
      /\ UNCHANGED <<decisions, op, idempotency, lodged, req>>
  BY EnvironmentFields DEF SafeInv, TypeInv
<1>2. LodgeInv'
  BY <1>1 DEF SafeInv, LodgeInv, ThreadSafe, Calling, Open
<1>3. AcceptedIffSettled'
  BY <1>1 DEF SafeInv, AcceptedIffSettled
<1>4. VersionInv'
  <2>1. claim.revision \in Nat /\ \A s \in Requests : req[s].claim.revision \in Nat
    BY DEF SafeInv, TypeInv, TypeOK, Claims, Threads
  <2>2. QED
    BY <1>1, <2>1 DEF SafeInv, VersionInv
<1>5. ResponseInv'
  BY <1>1 DEF SafeInv, ResponseInv, ResponseOK, RememberedIsSettled
<1>6. QED
  BY <1>2, <1>3, <1>4, <1>5

LEMMA SafeStep == SafeInv /\ [Next]_vars => SafeInv'
<1> SUFFICES ASSUME SafeInv, [Next]_vars PROVE SafeInv'
  OBVIOUS
<1>1. TypeInv'
  BY TypeStep DEF SafeInv
<1>2. CASE UNCHANGED vars
  BY <1>1, <1>2 DEF vars, SafeInv, LodgeInv, ThreadSafe, Calling, Open, AcceptedIffSettled,
                    VersionInv, ResponseInv, ResponseOK, RememberedIsSettled
<1>3. ASSUME NEW r \in Requests, Crash(r)
      PROVE  LodgeInv' /\ AcceptedIffSettled' /\ VersionInv' /\ ResponseInv'
  BY <1>3, EndStep DEF Crash
<1>4. CASE Next
  <2>1. LodgeInv' /\ AcceptedIffSettled' /\ VersionInv' /\ ResponseInv'
    BY <1>3, <1>4, SafeReceive, SafeClaimant, SafeReads, SafeReserve, SafeCall, SafeOutcome,
       SafeSettle, SafeRemember, SafeEnvironment DEF Next, Progress
  <2>2. QED
    BY <1>1, <2>1 DEF SafeInv
<1>5. QED
  BY <1>2, <1>4

LEMMA SafeAlways == Spec => []SafeInv
<1>1. Init => SafeInv
  BY SafeInit
<1>2. SafeInv /\ [Next]_vars => SafeInv'
  BY SafeStep
<1>3. QED
  BY <1>1, <1>2, PTL DEF Spec

\* An operation that a retry may send again has never reached the claims
\* service (the retryable_failure status of domain/claim_creation.py).
THEOREM RetryIsSafe == Spec => []RetryableIsUnsubmitted
<1>1. SafeInv => RetryableIsUnsubmitted
  BY DEF SafeInv, LodgeInv, Open, RetryableIsUnsubmitted
<1>2. QED
  BY <1>1, SafeAlways, PTL

\* The operation is accepted exactly when the claim carries its result
\* (save_claim_creation_outcome writes both, nothing else writes either).
THEOREM AcceptedExactlyWhenSettled == Spec => []AcceptedIffSettled
<1>1. SafeInv => AcceptedIffSettled
  BY DEF SafeInv
<1>2. QED
  BY <1>1, SafeAlways, PTL

\* A response remembered under an idempotency key belongs to the revision the
\* claim was settled for (create_claim_from_confirmed_report).
THEOREM RememberedResponsesSettled == Spec => []RememberedIsSettled
<1>1. SafeInv => RememberedIsSettled
  BY DEF SafeInv, ResponseInv
<1>2. QED
  BY <1>1, SafeAlways, PTL

\* Every step that writes the operation once it has a result keeps the result.
LEMMA ResultKept ==
    SafeInv /\ [Next]_vars =>
      [op # NoOperation /\ op.result # NoResult =>
          op' # NoOperation /\ op'.result = op.result /\ op'.payload = op.payload]_op
<1> SUFFICES ASSUME SafeInv, [Next]_vars, op' # op, op # NoOperation, op.result # NoResult
             PROVE  op' # NoOperation /\ op'.result = op.result /\ op'.payload = op.payload
  OBVIOUS
<1>1. op \in Operations /\ ValidOperation(op) /\ op.status \in {"settlement_pending", "accepted"}
  BY DEF SafeInv, TypeInv, TypeOK, ValidOperation
<1>2. ASSUME NEW r \in Requests, NEW u, NEW pc, SaveOperation(r, u, pc),
             u.status \in {"settlement_pending", "retryable_failure", "terminal_failure", "unknown_outcome"}
      PROVE  FALSE
  BY <1>1, <1>2 DEF SaveOperation, TransitionPermitted, AllowedTransitions, Statuses
<1>3. ASSUME NEW r \in Requests, Called(r) \/ Reconciled(r) PROVE FALSE
  <2>1. /\ ThreadOK(req[r]) /\ req[r].answer \in Answers /\ req[r].payload \in Payloads
    BY DEF SafeInv, TypeInv, TypeOK, ThreadsOK, Threads
  <2>2. req[r].op \in Operations /\ ValidOperation(req[r].op)
        /\ req[r].op.status \in {"prepared", "unknown_outcome"}
        /\ (req[r].pc = "called" => req[r].op.result = NoResult)
    <3>1. CASE req[r].pc = "called"
      BY <2>1, <3>1, FreshIsValid DEF ThreadOK, FreshOperation
    <3>2. CASE req[r].pc = "reconciled"
      BY <2>1, <3>2 DEF ThreadOK
    <3>3. QED
      BY <1>3, <3>1, <3>2 DEF Called, Reconciled
  <2>3. CASE /\ req[r].answer.kind = "result"
             /\ \E pc \in {"settle", "reload"} : SaveOperation(r, Recorded(req[r].op, req[r].answer.result), pc)
    <3>1. req[r].answer.result \in Results
      BY <2>1, <2>3 DEF Answers
    <3> DEFINE o == req[r].op
               result == req[r].answer.result
    <3>a. o \in Operations /\ result \in Results
      BY <2>2, <3>1
    <3> HIDE DEF o, result
    <3>b. Recorded(o, result).status = "settlement_pending"
      BY <3>a, RecordedIsValid
    <3>2. Recorded(req[r].op, req[r].answer.result).status = "settlement_pending"
      BY <3>b DEF o, result
    <3>3. QED
      BY <1>2, <2>3, <3>2
  <2>4. CASE /\ req[r].pc = "called" /\ req[r].answer.kind = "failure"
             /\ SaveOperation(r, Failed(req[r].op, req[r].answer.code, req[r].answer.delivery), "idle")
    <3>1. req[r].answer.code \in FailureCodes /\ req[r].answer.delivery \in Deliveries
      BY <2>1, <2>4 DEF Answers
    <3>2. Failed(req[r].op, req[r].answer.code, req[r].answer.delivery).status
            \in {"retryable_failure", "terminal_failure", "unknown_outcome"}
      BY <2>2, <2>4, <3>1, FailedIsValid
    <3>3. QED
      BY <1>2, <2>4, <3>2
  <2>5. CASE SaveOperation(r, Unknown(req[r].op), "idle")
    BY <1>2, <2>2, <2>5, UnknownIsValid
  <2>6. QED
    BY <1>3, <2>3, <2>4, <2>5 DEF Called, Reconciled
<1>4. ASSUME NEW r \in Requests, Reserve(r) PROVE FALSE
  BY <1>1, <1>4 DEF Reserve
<1>5. ASSUME NEW r \in Requests, Settle(r)
      PROVE  op' # NoOperation /\ op'.result = op.result /\ op'.payload = op.payload
  BY <1>5, SettleEffect
<1>6. QED
  <2>1. PICK r \in Requests : Called(r) \/ Reconciled(r) \/ Reserve(r) \/ Settle(r)
    BY DEF vars, Next, Receive, Progress, Environment, ClaimantRequest, IntegrationRequest, Gate,
           Decide, Snapshot, Load, Lookup, Recover, Call, Reconcile, Reload, Remember, Crash,
           ClaimMutation, EvidenceMutation, CloseClaim, ReopenClaim
  <2>2. QED
    BY <1>3, <1>4, <1>5, <2>1

\* A provider result recorded on the operation is never replaced or dropped,
\* whatever a slower thread still writes (save_claim_creation_operation).
THEOREM RecordedResultSurvives == Spec => ResultNeverLost
<1>1. SafeInv /\ [Next]_vars =>
        [op # NoOperation /\ op.result # NoResult =>
          op' # NoOperation /\ op'.result = op.result /\ op'.payload = op.payload]_op
  BY ResultKept
<1>2. QED
  BY <1>1, SafeAlways, PTL DEF Spec, ResultNeverLost

\* Settlement is a compare-and-set on the claim's revision and never gives a
\* closed claim a result (_settle_recorded_claim_creation).
THEOREM SettlementLosesNoUpdate == Spec => NoLostUpdate
<1>1. SafeInv /\ [Next]_vars =>
        [/\ claim'.revision = claim.revision + 1
         /\ claim.terminal = "closed" => claim'.external = claim.external]_claim
  <2> SUFFICES ASSUME SafeInv, [Next]_vars, claim' # claim
               PROVE  /\ claim'.revision = claim.revision + 1
                      /\ claim.terminal = "closed" => claim'.external = claim.external
    OBVIOUS
  <2>1. Environment \/ \E r \in Requests : Settle(r)
    BY DEF vars, Next, Receive, Progress, ClaimantRequest, IntegrationRequest, Gate,
           Decide, Snapshot, Load, Lookup, Reserve, Recover, Call, Called, Reconcile, Reconciled,
           Reload, Remember, Crash
  <2>2. CASE Environment
    BY <2>2, EnvironmentFields DEF SafeInv, TypeInv
  <2>3. ASSUME NEW r \in Requests, Settle(r)
        PROVE  claim'.revision = claim.revision + 1 /\ claim.terminal # "closed"
    BY <2>3, SettleEffect
  <2>4. QED
    BY <2>1, <2>2, <2>3
<1>2. QED
  BY <1>1, SafeAlways, PTL DEF Spec, NoLostUpdate

\* Creation implements ClaimLodgement: for any number of requests, retries and
\* crashes the claims service acts on at most one create request, and the claim
\* records its outcome once, afterwards (create_external_claim).
THEOREM LodgesOnce == Spec => LodgedOnce
<1>1. Init => Lodgement!Init
  BY DEF Init, Lodgement!Init, NewClaim
<1>2. SafeInv /\ [Next]_vars => [Lodgement!Next]_(Lodgement!lodgementVars)
  <2> SUFFICES ASSUME SafeInv, [Next]_vars
               PROVE  Lodgement!Next \/ UNCHANGED <<lodged, claim.external>>
    BY DEF Lodgement!lodgementVars
  <2>1. CASE UNCHANGED vars
    BY <2>1 DEF vars
  <2>2. CASE Environment
    BY <2>2, EnvironmentFields DEF SafeInv, TypeInv
  <2>3. ASSUME NEW r \in Requests, Settle(r)
        PROVE  Lodgement!Next \/ UNCHANGED <<lodged, claim.external>>
    <3>1. UNCHANGED lodged
      BY <2>3 DEF Settle
    <3>2. \/ UNCHANGED claim
          \/ lodged = 1 /\ claim.external = NoResult /\ claim'.external \in Results
      BY <2>3, SettleEffect
    <3>3. QED
      BY <3>1, <3>2 DEF Lodgement!Next, Lodgement!Record
  <2>4. ASSUME NEW r \in Requests, Call(r)
        PROVE  Lodgement!Next \/ UNCHANGED <<lodged, claim.external>>
    <3>1. UNCHANGED claim /\ req[r].pc = "call" /\ ThreadSafe(req[r])
      BY <2>4 DEF Call, SafeInv, LodgeInv
    <3>2. lodged = 0
      BY <3>1 DEF ThreadSafe
    <3>3. lodged' \in {lodged, lodged + 1}
      BY <2>4 DEF Call
    <3>4. QED
      BY <3>1, <3>2, <3>3 DEF Lodgement!Next, Lodgement!Lodge
  <2>5. CASE Next /\ ~Environment /\ ~(\E r \in Requests : Settle(r) \/ Call(r))
    <3>1. UNCHANGED <<claim, lodged>>
      BY <2>5 DEF Next, Receive, Progress, ClaimantRequest, IntegrationRequest, Gate,
             Decide, Snapshot, Load, Lookup, Reserve, Recover, Called, Reconcile, Reconciled,
             Reload, Remember, Crash
    <3>2. QED
      BY <3>1
  <2>6. QED
    BY <2>1, <2>2, <2>3, <2>4, <2>5
<1>3. QED
  BY <1>1, <1>2, SafeAlways, PTL DEF Spec, LodgedOnce, Lodgement!Spec
=============================================================================
