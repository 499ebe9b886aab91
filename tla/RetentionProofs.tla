-------------------------- MODULE RetentionProofs --------------------------
(***************************************************************************)
(* Proofs about Retention, for any workers, staff, inventory of objects    *)
(* and records, holds and limits.                                          *)
(*                                                                         *)
(* Of each step that changes the stored operation the first half of the    *)
(* proof shows that it leaves an operation that agrees with the two        *)
(* stores; the second half that every worker's control point, and what an  *)
(* open transaction saw, still say the truth about it.                     *)
(***************************************************************************)
EXTENDS Retention, FiniteSetTheorems, TLAPS

-----------------------------------------------------------------------------
(* The invariant.                                                          *)

\* Types, without the validation of the stored operation.
TypeInv ==
    /\ claim \in [revision : Nat, terminal : Nat]
    /\ work \in BOOLEAN
    /\ op \in Operations \cup {NoOperation}
    /\ holds \in [Holds -> {"absent", "active", "released"}]
    /\ bytes \subseteq Objects
    /\ records \subseteq Records
    /\ reopening \in Nat
    /\ worker \in [Workers -> WorkerStates]
    /\ staff \in [Staff -> StaffStates]
    /\ faults \in Nat /\ crashes \in Nat
    /\ leeway \in BOOLEAN

\* An operation agrees with what is left in the two stores.  An open
\* authorization is of a target not done yet, so no result can undo one.
Agrees(o, objects, stored) ==
    /\ ValidOperation(o)
    /\ ~o.frozen => o.targets = {}
    /\ o.active # NoAuthorization => o.step[o.active.target] # "satisfied"
    /\ \A t \in Objects : o.step[t] = "satisfied" => t \notin objects
    /\ \A t \in Deleted \cup Anonymised : o.step[t] = "satisfied" <=> t \notin stored
    /\ stored # Records => o.frozen /\ Unsatisfied(o, Objects) = {}

StoreInv ==
    /\ Retained \cup Links \subseteq records
    /\ IF op = NoOperation THEN records = Records ELSE Agrees(op, bytes, records)
    /\ op = NoOperation \/ ~op.frozen => bytes = Objects

\* A reservation that is about to be inserted.
NewOperation(o) ==
    /\ o \in Operations
    /\ o.status \in {"reserved", "held"} /\ ~o.frozen /\ o.targets = {}
    /\ o.step = [t \in Targets |-> "pending"] /\ o.attempts = [t \in Targets |-> 0]
    /\ o.steps = 0 /\ o.authorized = 0 /\ o.active = NoAuthorization

\* What the snapshot of an open transaction said of the operation: it is still so
\* of the stored operation o as long as nobody has written that since.
SnapshotHolds(state, o) ==
    /\ state.pc = "freezing" => ~o.frozen /\ Cardinality(Objects \cup Records) <= TargetLimit
    /\ state.pc = "authorizing" =>
         /\ o.active = NoAuthorization
         /\ o.step[state.target] # "satisfied" /\ o.authorized < EvidenceLimit
    /\ state.pc = "settling" => o.active = state.authorization /\ o.steps < EvidenceLimit
    /\ state.pc = "applying" =>
         /\ o.step[state.target] # "satisfied" /\ o.steps < EvidenceLimit
         /\ Unsatisfied(o, Objects) = {}

\* Control points at which a worker goes by an operation it read.
Holding ==
    {"freeze", "freezing", "objects", "save_held", "authorize", "authorizing", "settling",
     "records", "apply", "applying", "failure"}
Transacting == {"freezing", "authorizing", "settling", "applying"}

\* What a worker's control point says of the stored operation o and of the
\* bytes: targets it knows of stay targets, and a result it reports is true.
WorkerOK(state, o, objects) ==
    /\ state.pc = "reserve" => NewOperation(state.op)
    /\ state.pc \notin {"idle", "reserve"} => o # NoOperation
    /\ state.pc \in Holding =>
         /\ state.op \in Operations /\ state.op.targets \subseteq o.targets
         /\ state.op.revision <= o.revision
    /\ state.pc = "authorizing" => state.target \in o.targets \cap Objects
    /\ state.pc \in {"delete", "settle", "settling"} =>
         /\ state.authorization \in Authorizations \ {NoAuthorization}
         /\ state.authorization.target = state.target
         /\ state.target \in o.targets \cap Objects
    /\ state.pc \in {"settle", "settling"} =>
         /\ state.outcome # "none"
         /\ state.outcome = "satisfied" => state.target \notin objects
    /\ state.pc \in {"apply", "applying", "uncertain", "failure"} =>
         state.target \in o.targets \cap Records
    /\ state.pc \in Transacting /\ state.op.revision = o.revision => SnapshotHolds(state, o)

WorkersInv == \A w \in Workers : WorkerOK(worker[w], op, bytes)

\* A transaction that did not see an active hold and can still commit is one that
\* was open when the hold was placed without writing the operation.
HoldInv == ActiveHolds # {} /\ InFlight # {} => leeway

IInv == TypeInv /\ StoreInv /\ WorkersInv /\ HoldInv

\* What HoldStopsCleanup says of one step.
BlockedByHold ==
    ActiveHolds # {} =>
      \/ leeway
      \/ /\ records' = records
         /\ op # NoOperation => op'.authorized = op.authorized

\* The operation n is o, or o written by somebody.
Later(n, o) ==
    \/ n = o
    \/ /\ n \in Operations
       /\ o # NoOperation => o.targets \subseteq n.targets /\ n.revision > o.revision

-----------------------------------------------------------------------------
(* The operation's record.                                                 *)

LEMMA LimitsAreNumbers ==
  /\ TargetLimit \in Nat /\ EvidenceLimit \in Nat /\ MaxRevision \in Nat
  /\ MaxFaults \in Nat /\ MaxCrashes \in Nat
BY RetentionConstants

LEMMA Classes ==
  /\ Objects \cap Records = {} /\ ClaimRecord \in Records
  /\ \A t \in Deleted \cup Anonymised : t \in Records /\ t \notin Retained \cup Links
  /\ \A t \in Retained \cup Links : t \in Records /\ t \notin Deleted \cup Anonymised
  /\ Records = Deleted \cup Anonymised \cup Retained \cup Links
  /\ Targets = Objects \cup Records
BY RetentionConstants DEF Records, Targets

LEMMA NoOperationIsNone == NoOperation \notin Operations
BY DEF NoOperation, Operations

\* Appending evidence changes the target's entries and the status only.
LEMMA AfterStepFields ==
  ASSUME NEW o \in Operations, NEW t \in Targets, NEW s \in StepStatuses
  PROVE  LET n == AfterStep(o, t, s)
         IN /\ n \in Operations
            /\ n.frozen = o.frozen /\ n.targets = o.targets /\ n.active = o.active
            /\ n.authorized = o.authorized /\ n.steps = o.steps + 1
            /\ n.revision = o.revision + 1
            /\ n.step = [o.step EXCEPT ![t] = s]
            /\ n.attempts = [o.attempts EXCEPT ![t] = @ + 1]
            /\ n.status \in {"reserved", "completed", "reconciliation_required"}
            /\ n.status = "completed" => AllSatisfied(n)
            /\ n.status = "reconciliation_required" => s # "satisfied"
<1> DEFINE step == [o.step EXCEPT ![t] = s]
<1> DEFINE attempts == [o.attempts EXCEPT ![t] = @ + 1]
<1> DEFINE next == [o EXCEPT !.revision = @ + 1, !.step[t] = s, !.attempts[t] = @ + 1, !.steps = @ + 1]
<1> DEFINE status == IF s # "satisfied" THEN "reconciliation_required"
                     ELSE IF AllSatisfied(next) THEN "completed" ELSE "reserved"
<1>1. /\ o.step \in [Targets -> StepStatuses] /\ o.attempts \in [Targets -> Nat]
      /\ o.revision \in Nat /\ o.steps \in Nat
  BY DEF Operations
<1>2. step \in [Targets -> StepStatuses] /\ attempts \in [Targets -> Nat]
      /\ o.revision + 1 \in Nat /\ o.steps + 1 \in Nat
  BY <1>1
<1>3. next = [o EXCEPT !.revision = o.revision + 1, !.step = step, !.attempts = attempts,
                       !.steps = o.steps + 1]
  BY DEF Operations
<1>4. AfterStep(o, t, s) = [next EXCEPT !.status = status]
  BY DEF AfterStep
<1>5. status \in {"reserved", "completed", "reconciliation_required"}
  OBVIOUS
<1> HIDE DEF step, attempts, next, status
<1>6. /\ next \in Operations
      /\ next.frozen = o.frozen /\ next.targets = o.targets /\ next.active = o.active
      /\ next.authorized = o.authorized /\ next.steps = o.steps + 1
      /\ next.revision = o.revision + 1
      /\ next.step = step /\ next.attempts = attempts
  BY <1>2, <1>3 DEF Operations
<1> DEFINE n == [next EXCEPT !.status = status]
<1>7. /\ n \in Operations
      /\ n.frozen = next.frozen /\ n.targets = next.targets /\ n.active = next.active
      /\ n.authorized = next.authorized /\ n.steps = next.steps /\ n.revision = next.revision
      /\ n.step = next.step /\ n.attempts = next.attempts /\ n.status = status
  BY <1>5, <1>6 DEF Operations, Statuses
<1>8. AllSatisfied(n) <=> AllSatisfied(next)
  BY <1>7 DEF AllSatisfied, Unsatisfied
<1> HIDE DEF n
<1>9. n.status = "completed" => AllSatisfied(n)
  BY <1>7, <1>8 DEF status
<1>10. n.status = "reconciliation_required" => s # "satisfied"
  BY <1>7 DEF status
<1>11. QED
  BY <1>4, <1>5, <1>6, <1>7, <1>9, <1>10 DEF n, step, attempts

\* Evidence for a target not done yet, which the stores bear out.
LEMMA EvidenceAgrees ==
  ASSUME NEW o \in Operations, NEW objects, NEW stored, Agrees(o, objects, stored),
         NEW t \in o.targets, NEW s \in StepStatuses, o.step[t] # "satisfied",
         o.steps < EvidenceLimit,
         NEW n \in Operations,
         n.frozen = o.frozen, n.targets = o.targets, n.authorized = o.authorized,
         n.steps = o.steps + 1, n.step = [o.step EXCEPT ![t] = s],
         n.attempts = [o.attempts EXCEPT ![t] = @ + 1],
         n.status = "completed" => AllSatisfied(n),
         n.status = "reconciliation_required" => s # "satisfied" /\ s # "pending",
         n.active \in {o.active, NoAuthorization},
         n.active # NoAuthorization => n.active.target # t,
         NEW left,
         t \in Objects /\ s = "satisfied" => t \notin objects,
         \A r \in Deleted \cup Anonymised : r # t => (r \in left <=> r \in stored),
         t \in Deleted \cup Anonymised => (s = "satisfied" <=> t \notin left),
         left # Records => t \in Records /\ Unsatisfied(o, Objects) = {}
  PROVE  Agrees(n, objects, left)
<1>1. /\ t \in Targets /\ o.targets \subseteq Targets
      /\ o.step \in [Targets -> StepStatuses] /\ o.attempts \in [Targets -> Nat]
      /\ o.steps \in Nat /\ o.active \in Authorizations \cup {NoAuthorization}
  BY DEF Operations
<1>2. \A r \in Targets : n.step[r] = IF r = t THEN s ELSE o.step[r]
  BY <1>1
<1>3. \A r \in Targets : r # t => n.attempts[r] = o.attempts[r]
  BY <1>1
<1>4. ValidOperation(n)
  <2>1. n.status = "reconciliation_required" => NeedsReconciliation(n)
    BY <1>1, <1>2 DEF NeedsReconciliation, StepStatuses
  <2>2. n.active # NoAuthorization => n.active.target \in n.targets \cap Objects
    BY DEF Agrees, ValidOperation
  <2>3. \A r \in Targets : n.attempts[r] > 0 => r \in n.targets
    BY <1>3 DEF Agrees, ValidOperation
  <2>4. n.steps <= EvidenceLimit
    BY <1>1, LimitsAreNumbers
  <2>5. QED
    BY <2>1, <2>2, <2>3, <2>4 DEF Agrees, ValidOperation
<1>5. n.active # NoAuthorization => n.step[n.active.target] # "satisfied"
  <2>1. n.active # NoAuthorization => n.active.target \in Targets
    BY <1>1, Classes DEF Agrees, ValidOperation
  <2>2. QED
    BY <1>2, <2>1 DEF Agrees
<1>6. \A r \in Objects : n.step[r] = "satisfied" => r \notin objects
  BY <1>2, Classes DEF Agrees
<1>7. \A r \in Deleted \cup Anonymised : n.step[r] = "satisfied" <=> r \notin left
  BY <1>2, Classes DEF Agrees
<1>8. left # Records => n.frozen /\ Unsatisfied(n, Objects) = {}
  <2> SUFFICES ASSUME left # Records PROVE n.frozen /\ Unsatisfied(n, Objects) = {}
    OBVIOUS
  <2>1. t \notin Objects /\ Unsatisfied(o, Objects) = {}
    BY Classes
  <2>2. Unsatisfied(n, Objects) = {}
    BY <1>1, <1>2, <2>1 DEF Unsatisfied
  <2>3. QED
    BY <2>2 DEF Agrees
<1>9. QED
  BY <1>4, <1>5, <1>6, <1>7, <1>8 DEF Agrees

-----------------------------------------------------------------------------
(* The steps of a worker.                                                  *)

\* Of a worker that does not move: writing the operation ends what its snapshot
\* said, and refuses its commit.
LEMMA OtherWorker ==
  ASSUME NEW state \in WorkerStates, NEW o \in Operations \cup {NoOperation}, NEW n, Later(n, o),
         NEW objects, NEW left, left \subseteq objects, WorkerOK(state, o, objects)
  PROVE  /\ WorkerOK(state, n, left)
         /\ n # o /\ state.pc \in {"authorizing", "applying"} => state.op.revision # n.revision
<1>1. CASE n = o
  BY <1>1 DEF WorkerOK
<1>2. CASE n # o
  <2>1. CASE state.pc \in {"idle", "reserve"}
    BY <2>1 DEF WorkerOK, Holding, Transacting
  <2>2. CASE state.pc \notin {"idle", "reserve"}
    <3>1. /\ o \in Operations /\ n \in Operations /\ n # NoOperation
          /\ o.targets \subseteq n.targets /\ n.revision > o.revision
      BY <1>2, <2>2, NoOperationIsNone DEF WorkerOK, Later
    <3>2. state.pc \in Holding => state.op \in Operations /\ state.op.revision <= o.revision
      BY DEF WorkerOK
    <3>3. state.pc \in Holding => state.op.revision < n.revision
      BY <3>1, <3>2 DEF Operations
    <3>4. state.pc \in Transacting \cup {"authorizing", "applying"} => state.op.revision # n.revision
      BY <3>1, <3>2, <3>3 DEF Holding, Transacting, Operations
    <3>5. state.pc \in Holding => state.op.revision <= n.revision
      BY <3>1, <3>2, <3>3 DEF Operations
    <3>6. QED
      BY <2>2, <3>1, <3>2, <3>4, <3>5 DEF WorkerOK
  <2>3. QED
    BY <2>1, <2>2
<1>3. QED
  BY <1>1, <1>2

\* A worker goes to a state that is right about what is stored now; the others
\* stay right, since targets are only added and bytes only deleted.  Only while
\* no hold is active does a destroying transaction begin.
LEMMA WorkerStep ==
  ASSUME TypeInv, WorkersInv, HoldInv, NEW w \in Workers, NEW state \in WorkerStates,
         worker' = [worker EXCEPT ![w] = state], WorkerOK(state, op', bytes'),
         Later(op', op), bytes' \subseteq bytes, holds' = holds,
         op' = op => leeway' = leeway,
         state.pc \in {"authorizing", "applying"} => ActiveHolds = {}
  PROVE  WorkersInv' /\ HoldInv' /\ worker' \in [Workers -> WorkerStates]
<1>1. worker' \in [Workers -> WorkerStates] /\ worker'[w] = state
      /\ \A v \in Workers : v # w => worker'[v] = worker[v]
  BY DEF TypeInv
<1>2. ASSUME NEW v \in Workers, v # w
      PROVE  /\ WorkerOK(worker'[v], op', bytes')
             /\ op' # op /\ worker'[v].pc \in {"authorizing", "applying"} =>
                  worker'[v].op.revision # op'.revision
  BY <1>1, <1>2, OtherWorker DEF TypeInv, WorkersInv
<1>3. WorkersInv'
  BY <1>1, <1>2 DEF WorkersInv
<1>4. HoldInv'
  <2> SUFFICES ASSUME ActiveHolds # {},
                      NEW v \in Workers, worker'[v].pc \in {"authorizing", "applying"},
                      op'.revision = worker'[v].op.revision
               PROVE  leeway'
    BY DEF HoldInv, ActiveHolds, InFlight, At, Unconflicted, Local
  <2>1. v # w
    BY <1>1
  <2>2. op' = op /\ worker'[v] = worker[v]
    BY <1>1, <1>2, <2>1
  <2>3. v \in InFlight
    BY <2>2 DEF InFlight, At, Unconflicted, Local
  <2>4. QED
    BY <2>2, <2>3 DEF HoldInv
<1>5. QED
  BY <1>1, <1>3, <1>4

\* The operation is written by somebody who is not a worker.
LEMMA WorkersUnmoved ==
  ASSUME TypeInv, WorkersInv, worker' = worker, bytes' = bytes, Later(op', op)
  PROVE  /\ WorkersInv' /\ InFlight' \subseteq InFlight
         /\ op' # op => InFlight' = {}
<1>1. ASSUME NEW v \in Workers
      PROVE  /\ WorkerOK(worker'[v], op', bytes')
             /\ op' # op /\ worker'[v].pc \in {"authorizing", "applying"} =>
                  worker'[v].op.revision # op'.revision
  BY <1>1, OtherWorker DEF TypeInv, WorkersInv
<1>2. WorkersInv'
  BY <1>1 DEF WorkersInv
<1>3. \A v \in InFlight' : /\ v \in Workers /\ worker'[v].pc \in {"authorizing", "applying"}
                          /\ op'.revision = worker'[v].op.revision
  BY DEF InFlight, At, Unconflicted, Local
<1>4. op' # op => InFlight' = {}
  BY <1>1, <1>3
<1>5. op' = op => InFlight' = InFlight
  BY DEF InFlight, At, Unconflicted, Local
<1>6. QED
  BY <1>2, <1>4, <1>5

LEMMA IdleState ==
  ASSUME NEW o, NEW objects
  PROVE  IdleWorker \in WorkerStates /\ WorkerOK(IdleWorker, o, objects)
         /\ IdleWorker.pc = "idle"
BY DEF IdleWorker, WorkerStates, WorkerPoints, Outcomes, WorkerOK, Holding, Transacting

\* The states Proceed leads to.
LEMMA ProceedState ==
  ASSUME NEW o \in Operations, NEW stored, stored # NoOperation,
         o.targets \subseteq stored.targets, o.revision <= stored.revision, NEW objects,
         NEW pc \in {"freeze", "objects", "save_held", "authorize", "records"}
  PROVE  LET state == [IdleWorker EXCEPT !.pc = pc, !.op = o]
         IN state \in WorkerStates /\ WorkerOK(state, stored, objects) /\ state.pc = pc
<1> DEFINE state == [IdleWorker EXCEPT !.pc = pc, !.op = o]
<1>1. IdleWorker \in WorkerStates
  BY IdleState
<1>2. state \in WorkerStates /\ state.pc = pc /\ state.op = o
  BY <1>1 DEF WorkerStates, WorkerPoints
<1> HIDE DEF state
<1>3. WorkerOK(state, stored, objects)
  BY <1>2 DEF WorkerOK, Holding, Transacting
<1>4. QED
  BY <1>2, <1>3 DEF state

LEMMA RereadState ==
  ASSUME NEW stored, stored # NoOperation, NEW objects, NEW pc \in {"load", "refresh"}
  PROVE  LET state == [IdleWorker EXCEPT !.pc = pc]
         IN state \in WorkerStates /\ WorkerOK(state, stored, objects) /\ state.pc = pc
<1> DEFINE state == [IdleWorker EXCEPT !.pc = pc]
<1>1. state \in WorkerStates /\ state.pc = pc
  BY IdleState DEF WorkerStates, WorkerPoints
<1> HIDE DEF state
<1>2. WorkerOK(state, stored, objects)
  BY <1>1 DEF WorkerOK, Holding, Transacting
<1>3. QED
  BY <1>1, <1>2 DEF state

\* A step that writes neither store nor operation.
LEMMA ReadStep ==
  ASSUME IInv, NEW w \in Workers, NEW state \in WorkerStates, Goto(w, state),
         WorkerOK(state, op, bytes),
         state.pc \in {"authorizing", "applying"} => ActiveHolds = {},
         UNCHANGED <<claim, work, op, holds, bytes, records, reopening, staff, leeway>>,
         faults' \in Nat, crashes' \in Nat
  PROVE  IInv' /\ BlockedByHold
<1>1. WorkersInv' /\ HoldInv' /\ worker' \in [Workers -> WorkerStates]
  BY WorkerStep DEF IInv, Goto, Later
<1>2. TypeInv'
  BY <1>1 DEF IInv, TypeInv
<1>3. StoreInv'
  BY DEF IInv, StoreInv
<1>4. QED
  BY <1>1, <1>2, <1>3 DEF IInv, BlockedByHold

LEMMA StopKeeps ==
  ASSUME IInv, NEW w \in Workers, Stop(w),
         UNCHANGED <<claim, work, op, holds, bytes, records, reopening, staff, leeway>>,
         faults' \in Nat, crashes' \in Nat
  PROVE  IInv' /\ BlockedByHold
BY IdleState, ReadStep DEF Stop

\* Of a worker that holds an operation: it goes on with that, or with a fresh one.
LEMMA ProceedKeeps ==
  ASSUME IInv, NEW w \in Workers, op # NoOperation,
         NEW o \in Operations, o.targets \subseteq op.targets, o.revision <= op.revision,
         NEW pc \in {"freeze", "objects", "save_held", "authorize", "records"},
         Proceed(w, pc, o), UNCHANGED shared
  PROVE  IInv' /\ BlockedByHold
<1> DEFINE state == [IdleWorker EXCEPT !.pc = pc, !.op = o]
<1>1. state \in WorkerStates /\ WorkerOK(state, op, bytes) /\ state.pc = pc
  BY ProceedState
<1>2. Goto(w, state)
  BY DEF Proceed
<1> HIDE DEF state
<1>3. faults' \in Nat /\ crashes' \in Nat
  BY DEF IInv, TypeInv, shared
<1>4. QED
  BY <1>1, <1>2, <1>3, ReadStep DEF shared

LEMMA RereadKeeps ==
  ASSUME IInv, NEW w \in Workers, op # NoOperation, NEW pc \in {"load", "refresh"},
         Reread(w, pc), UNCHANGED shared
  PROVE  IInv' /\ BlockedByHold
<1> DEFINE state == [IdleWorker EXCEPT !.pc = pc]
<1>1. state \in WorkerStates /\ WorkerOK(state, op, bytes) /\ state.pc = pc
  BY RereadState
<1>2. Goto(w, state)
  BY DEF Reread
<1> HIDE DEF state
<1>3. faults' \in Nat /\ crashes' \in Nat
  BY DEF IInv, TypeInv, shared
<1>4. QED
  BY <1>1, <1>2, <1>3, ReadStep DEF shared

LEMMA ReservationIsNew ==
  ASSUME claim.terminal \in Nat
  PROVE  NewOperation(Reservation)
<1>1. Reservation \in Operations
  BY DEF Reservation, Operations, Statuses, StepStatuses
<1>2. QED
  BY <1>1 DEF Reservation, NewOperation

LEMMA StartReservationKeeps ==
  ASSUME IInv, NEW w \in Workers, StartReservation(w)
  PROVE  IInv' /\ BlockedByHold
<1> DEFINE state == [IdleWorker EXCEPT !.pc = "reserve", !.op = Reservation]
<1>1. NewOperation(Reservation)
  BY ReservationIsNew DEF IInv, TypeInv
<1>2. state \in WorkerStates /\ state.pc = "reserve" /\ state.op = Reservation
  BY <1>1, IdleState DEF NewOperation, WorkerStates, WorkerPoints
<1>3. state \in WorkerStates /\ WorkerOK(state, op, bytes)
  BY <1>1, <1>2 DEF WorkerOK, Holding, Transacting
<1>4. Goto(w, state)
  BY DEF StartReservation, Proceed
<1> HIDE DEF state
<1>5. faults' \in Nat /\ crashes' \in Nat
  BY DEF IInv, TypeInv, StartReservation, shared
<1>6. QED
  BY <1>2, <1>3, <1>4, <1>5, ReadStep DEF StartReservation, shared

\* A new operation agrees with stores from which nothing was taken.
LEMMA NewAgrees ==
  ASSUME NEW o, NewOperation(o), NEW objects
  PROVE  Agrees(o, objects, Records)
<1>1. o.targets = {} /\ Cardinality(o.targets) = 0
  BY FS_EmptySet DEF NewOperation
<1>2. ValidOperation(o)
  BY <1>1, LimitsAreNumbers DEF NewOperation, ValidOperation
<1>3. \A t \in Targets : o.step[t] = "pending"
  BY DEF NewOperation
<1>4. QED
  BY <1>2, <1>3, Classes DEF Agrees, NewOperation

LEMMA CommitReservationKeeps ==
  ASSUME IInv, NEW w \in Workers, CommitReservation(w)
  PROVE  IInv' /\ BlockedByHold
<1>1. CASE op # NoOperation
  <2>1. op' = op /\ Stop(w)
    BY <1>1 DEF CommitReservation
  <2>2. QED
    BY <2>1, StopKeeps DEF CommitReservation, IInv, TypeInv
<1>2. CASE op = NoOperation
  <2>1. op' = Local(w) /\ NewOperation(op')
    BY <1>2 DEF CommitReservation, IInv, WorkersInv, WorkerOK, At, Local
  <2>2. op' \in Operations /\ op' # NoOperation
    BY <2>1, NoOperationIsNone DEF NewOperation
  <2>3. WorkersInv' /\ HoldInv' /\ worker' \in [Workers -> WorkerStates]
    BY <1>2, <2>2, IdleState, WorkerStep DEF IInv, CommitReservation, Stop, Goto, Later
  <2>4. TypeInv'
    BY <2>2, <2>3 DEF IInv, TypeInv, CommitReservation
  <2>5. StoreInv'
    <3>1. Agrees(op', bytes', Records) /\ records' = Records
      BY <1>2, <2>1, NewAgrees DEF IInv, StoreInv, CommitReservation
    <3>2. bytes' = bytes /\ bytes = Objects
      BY <1>2 DEF IInv, StoreInv, CommitReservation
    <3>3. Retained \cup Links \subseteq records'
      BY <3>1 DEF IInv, StoreInv, CommitReservation
    <3>4. QED
      BY <2>2, <3>1, <3>2, <3>3 DEF StoreInv
  <2>6. QED
    BY <1>2, <2>3, <2>4, <2>5 DEF IInv, BlockedByHold, CommitReservation
<1>3. QED
  BY <1>1, <1>2

LEMMA DiscoverPendingKeeps ==
  ASSUME IInv, NEW w \in Workers, DiscoverPending(w)
  PROVE  IInv' /\ BlockedByHold
<1>1. op # NoOperation /\ op \in Operations /\ op.revision <= op.revision
  BY DEF DiscoverPending, Pending, IInv, TypeInv, Operations
<1>2. Reread(w, "load") \/ Proceed(w, "freeze", op)
  BY DEF DiscoverPending
<1>3. QED
  BY <1>1, <1>2, ProceedKeeps, RereadKeeps DEF DiscoverPending

\* What a worker may rely on once it has found an operation, and what one that
\* holds it.
LEMMA OperationKnown ==
  ASSUME IInv, NEW w \in Workers, worker[w].pc \notin {"idle", "reserve"}
  PROVE  /\ op # NoOperation /\ op \in Operations /\ Agrees(op, bytes, records)
         /\ op.revision \in Nat
         /\ worker[w] \in WorkerStates /\ WorkerOK(worker[w], op, bytes)
         /\ faults \in Nat /\ crashes \in Nat
BY DEF IInv, TypeInv, StoreInv, WorkersInv, WorkerOK, Operations

LEMMA LocalKnown ==
  ASSUME IInv, NEW w \in Workers, worker[w].pc \in Holding
  PROVE  /\ op # NoOperation /\ op \in Operations /\ Agrees(op, bytes, records)
         /\ Local(w) \in Operations /\ Local(w).targets \subseteq op.targets
         /\ Local(w).revision <= op.revision
         /\ worker[w] \in WorkerStates /\ WorkerOK(worker[w], op, bytes)
         /\ faults \in Nat /\ crashes \in Nat
<1>1. worker[w].pc \notin {"idle", "reserve"}
  BY DEF Holding
<1>2. QED
  BY <1>1, OperationKnown DEF WorkerOK, Local

\* An unwritten operation is as the snapshot of the open transaction said.
LEMMA SnapshotStands ==
  ASSUME IInv, NEW w \in Workers, worker[w].pc \in Transacting, Unconflicted(w)
  PROVE  SnapshotHolds(worker[w], op)
BY DEF IInv, WorkersInv, WorkerOK, Unconflicted, Local

\* A refused transaction forgets its snapshot and begins again.
LEMMA RerunKeeps ==
  ASSUME IInv, NEW w \in Workers,
         NEW pc, <<worker[w].pc, pc>> \in {<<"freezing", "freeze">>, <<"authorizing", "authorize">>,
                                         <<"settling", "settle">>, <<"applying", "apply">>},
         Rerun(w, pc), UNCHANGED shared
  PROVE  IInv' /\ BlockedByHold
<1> DEFINE state == [worker[w] EXCEPT !.pc = pc, !.held = FALSE, !.seen = 0]
<1>1. /\ worker[w] \in WorkerStates /\ WorkerOK(worker[w], op, bytes) /\ worker[w].pc \in Transacting
      /\ faults' \in Nat /\ crashes' \in Nat
  BY OperationKnown DEF Transacting, shared
<1>2. /\ state \in WorkerStates /\ state.pc = pc /\ state.op = worker[w].op
      /\ state.target = worker[w].target /\ state.authorization = worker[w].authorization
      /\ state.outcome = worker[w].outcome
  BY <1>1 DEF WorkerStates, WorkerPoints
<1>3. Goto(w, state)
  BY DEF Rerun
<1> HIDE DEF state
<1>4. WorkerOK(state, op, bytes)
  BY <1>1, <1>2 DEF WorkerOK, Holding, Transacting
<1>5. QED
  BY <1>1, <1>2, <1>3, <1>4, ReadStep DEF shared

\* A step that writes the operation, and perhaps destroys a record.
LEMMA WriteStep ==
  ASSUME IInv, NEW w \in Workers, NEW state \in WorkerStates, Goto(w, state),
         op # NoOperation, op' \in Operations, op.targets \subseteq op'.targets,
         op'.revision = op.revision + 1, op.frozen => op'.frozen,
         records' \subseteq records, Retained \cup Links \subseteq records',
         Agrees(op', bytes, records'), WorkerOK(state, op', bytes),
         state.pc \notin {"authorizing", "applying"},
         ActiveHolds # {} => leeway \/ (records' = records /\ op'.authorized = op.authorized),
         UNCHANGED <<claim, work, holds, bytes, reopening, staff>>, leeway' \in BOOLEAN,
         faults' \in Nat, crashes' \in Nat
  PROVE  IInv' /\ BlockedByHold
<1>1. op' # NoOperation /\ op'.revision > op.revision
  BY NoOperationIsNone DEF IInv, TypeInv, Operations
<1>2. op' # op /\ Later(op', op)
  BY <1>1 DEF Later, IInv, TypeInv, Operations
<1>3. WorkersInv' /\ HoldInv' /\ worker' \in [Workers -> WorkerStates]
  BY <1>2, WorkerStep DEF IInv, Goto
<1>4. TypeInv'
  BY <1>3 DEF IInv, TypeInv
<1>5. StoreInv'
  BY <1>1 DEF IInv, StoreInv
<1>6. QED
  BY <1>3, <1>4, <1>5 DEF IInv, BlockedByHold

LEMMA StartFreezeKeeps ==
  ASSUME IInv, NEW w \in Workers, StartFreeze(w)
  PROVE  IInv' /\ BlockedByHold
<1> DEFINE state == [IdleWorker EXCEPT !.pc = "freezing", !.op = op]
<1>1. /\ op # NoOperation /\ op \in Operations /\ op.revision <= op.revision
      /\ faults' \in Nat /\ crashes' \in Nat
  BY LocalKnown DEF StartFreeze, At, Holding, Operations, shared
<1>2. CASE Stop(w)
  BY <1>1, <1>2, StopKeeps DEF StartFreeze, shared
<1>3. CASE FreezePermitted(Local(w)) /\ Goto(w, state)
  <2>1. state \in WorkerStates /\ state.pc = "freezing" /\ state.op = op
    BY <1>1, IdleState DEF WorkerStates, WorkerPoints
  <2>2. ~op.frozen /\ bytes = Objects /\ records = Records
    BY <1>1, <1>3 DEF FreezePermitted, IInv, StoreInv, Agrees
  <2>3. Cardinality(Objects \cup Records) <= TargetLimit
    BY <1>3, <2>2 DEF FreezePermitted
  <2> HIDE DEF state
  <2>4. WorkerOK(state, op, bytes)
    BY <1>1, <2>1, <2>2, <2>3 DEF WorkerOK, Holding, Transacting, SnapshotHolds
  <2>5. QED
    BY <1>1, <1>3, <2>1, <2>4, ReadStep DEF StartFreeze, shared
<1>4. QED
  BY <1>2, <1>3 DEF StartFreeze, Proceed

LEMMA CommitFreezeKeeps ==
  ASSUME IInv, NEW w \in Workers, CommitFreeze(w)
  PROVE  IInv' /\ BlockedByHold
<1>1. /\ op # NoOperation /\ op \in Operations /\ Agrees(op, bytes, records)
      /\ worker[w].pc = "freezing" /\ faults' \in Nat /\ crashes' \in Nat
  BY LocalKnown DEF CommitFreeze, At, Holding
<1>2. CASE op' = op /\ Rerun(w, "freeze")
  BY <1>1, <1>2, RerunKeeps DEF CommitFreeze, shared
<1>3. CASE Unconflicted(w) /\ Reread(w, "load")
           /\ op' = [op EXCEPT !.revision = @ + 1, !.status = "reserved", !.frozen = TRUE,
                               !.targets = bytes \cup records]
  <2> DEFINE n == [op EXCEPT !.revision = @ + 1, !.status = "reserved", !.frozen = TRUE,
                             !.targets = bytes \cup records]
  <2> DEFINE state == [IdleWorker EXCEPT !.pc = "load"]
  <2>1. ~op.frozen /\ Cardinality(bytes \cup records) <= TargetLimit
    <3>1. ~op.frozen /\ Cardinality(Objects \cup Records) <= TargetLimit
      BY <1>1, <1>3, SnapshotStands DEF SnapshotHolds, Transacting
    <3>2. bytes = Objects /\ records = Records
      BY <1>1, <3>1 DEF IInv, StoreInv, Agrees
    <3>3. QED
      BY <3>1, <3>2
  <2>2. /\ op.targets = {} /\ records = Records /\ op.active = NoAuthorization
        /\ \A t \in Targets : ~(op.attempts[t] > 0)
    BY <1>1, <2>1 DEF Agrees, ValidOperation
  <2>3. bytes \cup records \subseteq Targets
    BY Classes DEF IInv, TypeInv
  <2> DEFINE revision == op.revision + 1
  <2> DEFINE targets == bytes \cup records
  <2>4. revision \in Nat /\ targets \in SUBSET Targets
    BY <1>1, <2>3 DEF Operations
  <2>5. n = [op EXCEPT !.revision = revision, !.status = "reserved", !.frozen = TRUE,
                        !.targets = targets]
    BY <1>1 DEF Operations
  <2> HIDE DEF revision, targets, n
  <2>6. /\ n \in Operations
        /\ n.frozen /\ n.targets = targets /\ n.status = "reserved" /\ n.revision = revision
        /\ n.step = op.step /\ n.attempts = op.attempts /\ n.steps = op.steps
        /\ n.authorized = op.authorized /\ n.active = op.active
    BY <1>1, <2>4, <2>5 DEF Operations, Statuses
  <2>7. op' = n /\ Goto(w, state) /\ n.revision = op.revision + 1
    BY <1>3, <2>6 DEF Reread, n, revision
  <2>8. ValidOperation(n)
    BY <1>1, <2>1, <2>2, <2>6 DEF Agrees, ValidOperation, targets
  <2>9. Agrees(n, bytes, records)
    BY <1>1, <2>2, <2>6, <2>8 DEF Agrees
  <2>10. state \in WorkerStates /\ WorkerOK(state, n, bytes) /\ state.pc = "load"
    BY <2>6, NoOperationIsNone, RereadState
  <2> HIDE DEF state
  <2>11. QED
    BY <1>1, <2>2, <2>6, <2>7, <2>9, <2>10, WriteStep DEF CommitFreeze, IInv, StoreInv, TypeInv
<1>4. QED
  BY <1>2, <1>3 DEF CommitFreeze

LEMMA LoadOperationKeeps ==
  ASSUME IInv, NEW w \in Workers, LoadOperation(w)
  PROVE  IInv' /\ BlockedByHold
<1>1. /\ op # NoOperation /\ op \in Operations /\ op.revision <= op.revision
      /\ faults' \in Nat /\ crashes' \in Nat
  BY OperationKnown DEF LoadOperation, At, shared
<1>2. QED
  BY <1>1, StopKeeps, ProceedKeeps DEF LoadOperation, shared

LEMMA ChecksKeep ==
  ASSUME IInv, NEW w \in Workers,
         CheckHoldsForObjects(w) \/ RefreshForHold(w) \/ FinishObjects(w)
  PROVE  IInv' /\ BlockedByHold
<1>1. /\ op # NoOperation /\ op \in Operations /\ op.revision <= op.revision
      /\ UNCHANGED shared /\ faults' \in Nat /\ crashes' \in Nat
  BY OperationKnown DEF CheckHoldsForObjects, RefreshForHold, FinishObjects, At, shared
<1>2. CASE CheckHoldsForObjects(w) \/ FinishObjects(w)
  <2>1. /\ Local(w) \in Operations /\ Local(w).targets \subseteq op.targets
        /\ Local(w).revision <= op.revision
    BY <1>2, LocalKnown DEF CheckHoldsForObjects, FinishObjects, At, Holding
  <2>2. \/ Stop(w) \/ Reread(w, "refresh")
        \/ Proceed(w, "authorize", Local(w)) \/ Proceed(w, "records", Local(w))
    BY <1>2 DEF CheckHoldsForObjects, FinishObjects
  <2>3. QED
    BY <1>1, <2>1, <2>2, StopKeeps, RereadKeeps, ProceedKeeps DEF shared
<1>3. CASE RefreshForHold(w)
  BY <1>1, <1>3, StopKeeps, ProceedKeeps DEF RefreshForHold, shared
<1>4. QED
  BY <1>2, <1>3

\* A change of status alone.
LEMMA StatusAgrees ==
  ASSUME NEW o \in Operations, NEW objects, NEW stored, Agrees(o, objects, stored),
         NEW status \in Statuses,
         status = "completed" => AllSatisfied(o),
         status = "reconciliation_required" => NeedsReconciliation(o)
  PROVE  LET n == [o EXCEPT !.revision = @ + 1, !.status = status]
         IN /\ n \in Operations /\ Agrees(n, objects, stored)
            /\ n.targets = o.targets /\ n.authorized = o.authorized /\ n.frozen = o.frozen
            /\ n.revision = o.revision + 1
<1> DEFINE n == [o EXCEPT !.revision = @ + 1, !.status = status]
<1> DEFINE revision == o.revision + 1
<1>1. /\ n \in Operations
      /\ n.frozen = o.frozen /\ n.targets = o.targets /\ n.status = status
      /\ n.step = o.step /\ n.attempts = o.attempts /\ n.steps = o.steps
      /\ n.authorized = o.authorized /\ n.active = o.active /\ n.revision = revision
  <2>1. revision \in Nat /\ n = [o EXCEPT !.revision = revision, !.status = status]
    BY DEF Operations
  <2> HIDE DEF revision, n
  <2>2. QED
    BY <2>1 DEF Operations
<1> HIDE DEF n
<1>2. ValidOperation(n)
  BY <1>1 DEF Agrees, ValidOperation, AllSatisfied, NeedsReconciliation, Unsatisfied
<1>3. Agrees(n, objects, stored)
  BY <1>1, <1>2 DEF Agrees, Unsatisfied
<1>4. QED
  BY <1>1, <1>3 DEF n

LEMMA SaveHeldKeeps ==
  ASSUME IInv, NEW w \in Workers, SaveHeld(w)
  PROVE  IInv' /\ BlockedByHold
<1>1. /\ op # NoOperation /\ op \in Operations /\ Agrees(op, bytes, records)
      /\ faults' \in Nat /\ crashes' \in Nat
  BY LocalKnown DEF SaveHeld, At, Holding
<1>2. CASE op' = op
  BY <1>1, <1>2, StopKeeps DEF SaveHeld
<1>3. CASE op' = Held(op)
  <2>1. /\ op' \in Operations /\ Agrees(op', bytes, records)
        /\ op'.targets = op.targets /\ op'.authorized = op.authorized
        /\ op'.frozen = op.frozen /\ op'.revision = op.revision + 1
    BY <1>1, <1>3, StatusAgrees DEF Held, Statuses
  <2>2. IdleWorker \in WorkerStates /\ WorkerOK(IdleWorker, op', bytes) /\ IdleWorker.pc = "idle"
    BY IdleState
  <2>3. QED
    BY <1>1, <2>1, <2>2, WriteStep DEF SaveHeld, Stop, IInv, StoreInv, TypeInv
<1>4. QED
  BY <1>2, <1>3 DEF SaveHeld

\* The worker has an authorization of the operation o and calls the object store.
LEMMA DeleteState ==
  ASSUME NEW o, o # NoOperation, NEW a \in Authorizations \ {NoAuthorization},
         a.target \in o.targets \cap Objects, NEW objects
  PROVE  LET state == [IdleWorker EXCEPT !.pc = "delete", !.target = a.target,
                                         !.authorization = a]
         IN state \in WorkerStates /\ WorkerOK(state, o, objects) /\ state.pc = "delete"
<1> DEFINE state == [IdleWorker EXCEPT !.pc = "delete", !.target = a.target, !.authorization = a]
<1>1. a.target \in Targets
  BY Classes
<1>2. /\ state \in WorkerStates /\ state.pc = "delete"
      /\ state.target = a.target /\ state.authorization = a
  BY <1>1, IdleState DEF WorkerStates, WorkerPoints
<1> HIDE DEF state
<1>3. WorkerOK(state, o, objects)
  BY <1>2 DEF WorkerOK, Holding, Transacting
<1>4. QED
  BY <1>2, <1>3 DEF state

LEMMA StartAuthorizationKeeps ==
  ASSUME IInv, NEW w \in Workers, StartAuthorization(w)
  PROVE  IInv' /\ BlockedByHold
<1>1. /\ op # NoOperation /\ op \in Operations /\ Agrees(op, bytes, records)
      /\ Local(w) \in Operations /\ Local(w).targets \subseteq op.targets
      /\ Local(w).revision <= op.revision
      /\ worker[w] \in WorkerStates /\ worker[w].pc = "authorize"
      /\ UNCHANGED shared /\ faults' \in Nat /\ crashes' \in Nat
  BY LocalKnown DEF StartAuthorization, At, Holding, shared
<1>2. PICK t \in Unsatisfied(Local(w), Objects) :
        \/ Stop(w)
        \/ op.active # NoAuthorization /\ op.active.target = t /\ Delete(w, op.active)
        \/ /\ op.active = NoAuthorization /\ AuthorizationPermitted(Local(w), t)
           /\ Goto(w, [worker[w] EXCEPT !.pc = "authorizing", !.target = t])
  BY DEF StartAuthorization
<1>3. t \in op.targets \cap Objects /\ t \in Targets
  BY <1>1, <1>2, Classes DEF Unsatisfied
<1>4. CASE Stop(w)
  BY <1>1, <1>4, StopKeeps DEF shared
<1>5. CASE op.active # NoAuthorization /\ op.active.target = t /\ Delete(w, op.active)
  <2> DEFINE state == [IdleWorker EXCEPT !.pc = "delete", !.target = op.active.target,
                                         !.authorization = op.active]
  <2>1. op.active \in Authorizations \ {NoAuthorization}
    BY <1>1, <1>5 DEF Operations
  <2>2. state \in WorkerStates /\ WorkerOK(state, op, bytes) /\ state.pc = "delete"
    BY <1>1, <1>3, <1>5, <2>1, DeleteState
  <2>3. Goto(w, state)
    BY <1>5 DEF Delete
  <2> HIDE DEF state
  <2>4. QED
    BY <1>1, <2>2, <2>3, ReadStep DEF shared
<1>6. CASE /\ op.active = NoAuthorization /\ AuthorizationPermitted(Local(w), t)
           /\ Goto(w, [worker[w] EXCEPT !.pc = "authorizing", !.target = t])
  <2> DEFINE state == [worker[w] EXCEPT !.pc = "authorizing", !.target = t]
  <2>1. /\ state \in WorkerStates /\ state.pc = "authorizing" /\ state.op = Local(w)
        /\ state.target = t
    BY <1>1, <1>3 DEF WorkerStates, WorkerPoints, Local
  <2>2. ActiveHolds = {} /\ op.step[t] # "satisfied" /\ op.authorized < EvidenceLimit
    BY <1>6 DEF AuthorizationPermitted
  <2>3. Goto(w, state)
    BY <1>6
  <2> HIDE DEF state
  <2>4. WorkerOK(state, op, bytes)
    BY <1>1, <1>3, <1>6, <2>1, <2>2 DEF WorkerOK, Holding, Transacting, SnapshotHolds
  <2>5. QED
    BY <1>1, <2>1, <2>2, <2>3, <2>4, ReadStep DEF shared
<1>7. QED
  BY <1>2, <1>4, <1>5, <1>6

LEMMA CommitAuthorizationKeeps ==
  ASSUME IInv, NEW w \in Workers, CommitAuthorization(w)
  PROVE  IInv' /\ BlockedByHold
<1> DEFINE t == worker[w].target
<1> DEFINE granted == [target |-> t, attempt |-> op.attempts[t] + 1]
<1>1. /\ op # NoOperation /\ op \in Operations /\ Agrees(op, bytes, records)
      /\ t \in op.targets \cap Objects /\ worker[w].pc = "authorizing"
      /\ UNCHANGED <<claim, work, holds, bytes, records, reopening, staff, faults, crashes>>
      /\ faults' \in Nat /\ crashes' \in Nat
  BY LocalKnown DEF CommitAuthorization, At, Holding, WorkerOK
<1>2. t \in Targets
  BY <1>1, Classes
<1>3. CASE UNCHANGED <<op, leeway>> /\ Rerun(w, "authorize")
  BY <1>1, <1>3, RerunKeeps DEF shared
<1>4. CASE /\ Unconflicted(w)
           /\ op' = [op EXCEPT !.revision = @ + 1, !.active = granted, !.authorized = @ + 1]
           /\ leeway' = FALSE /\ Delete(w, granted)
  <2>1. op.attempts[t] \in Nat /\ op.authorized \in Nat
    BY <1>1, <1>2 DEF Operations
  <2>2. granted \in Authorizations \ {NoAuthorization} /\ granted.target = t
    BY <1>1, <2>1 DEF Authorizations, NoAuthorization
  <2>3. op' = [op EXCEPT !.revision = @ + 1, !.active = granted, !.authorized = @ + 1]
    BY <1>4
  <2>4. /\ op.active = NoAuthorization /\ op.step[t] # "satisfied"
        /\ op.authorized < EvidenceLimit
    BY <1>1, <1>4, SnapshotStands DEF SnapshotHolds, Transacting
  <2>5. ActiveHolds # {} => leeway
    BY <1>1, <1>4 DEF IInv, HoldInv, InFlight, At
  <2> DEFINE state == [IdleWorker EXCEPT !.pc = "delete", !.target = granted.target,
                                         !.authorization = granted]
  <2>6. Goto(w, state)
    BY <1>4 DEF Delete
  <2> HIDE DEF granted
  <2>7. /\ op' \in Operations
        /\ op'.frozen = op.frozen /\ op'.targets = op.targets /\ op'.status = op.status
        /\ op'.step = op.step /\ op'.attempts = op.attempts /\ op'.steps = op.steps
        /\ op'.authorized = op.authorized + 1 /\ op'.active = granted
        /\ op'.revision = op.revision + 1
    <3> DEFINE revision == op.revision + 1
    <3> DEFINE authorized == op.authorized + 1
    <3>1. revision \in Nat /\ authorized \in Nat
      BY <1>1, <2>1 DEF Operations
    <3>2. op' = [op EXCEPT !.revision = revision, !.active = granted, !.authorized = authorized]
      BY <1>1, <2>3 DEF Operations
    <3> HIDE DEF revision, authorized
    <3>3. op'.authorized = authorized /\ op'.revision = revision
      BY <1>1, <3>2 DEF Operations
    <3>4. /\ op' \in Operations
          /\ op'.frozen = op.frozen /\ op'.targets = op.targets /\ op'.status = op.status
          /\ op'.step = op.step /\ op'.attempts = op.attempts /\ op'.steps = op.steps
          /\ op'.active = granted
      BY <1>1, <2>2, <3>1, <3>2 DEF Operations
    <3>5. QED
      BY <3>3, <3>4 DEF authorized, revision
  <2>8. ValidOperation(op')
    <3>1. op'.authorized <= EvidenceLimit
      BY <2>1, <2>4, <2>7, LimitsAreNumbers
    <3>2. QED
      BY <1>1, <2>2, <2>7, <3>1
         DEF Agrees, ValidOperation, AllSatisfied, NeedsReconciliation, Unsatisfied
  <2>9. Agrees(op', bytes, records)
    BY <1>1, <2>2, <2>4, <2>7, <2>8 DEF Agrees, Unsatisfied
  <2>10. state \in WorkerStates /\ WorkerOK(state, op', bytes) /\ state.pc = "delete"
    BY <1>1, <2>2, <2>7, NoOperationIsNone, DeleteState
  <2> HIDE DEF state
  <2>11. QED
    BY <1>1, <1>4, <2>5, <2>6, <2>7, <2>9, <2>10, WriteStep DEF IInv, StoreInv, TypeInv
<1>5. QED
  BY <1>3, <1>4 DEF CommitAuthorization

LEMMA DeleteObjectKeeps ==
  ASSUME IInv, NEW w \in Workers, DeleteObject(w)
  PROVE  IInv' /\ BlockedByHold
<1>1. /\ op # NoOperation /\ op \in Operations /\ Agrees(op, bytes, records)
      /\ worker[w] \in WorkerStates /\ WorkerOK(worker[w], op, bytes) /\ worker[w].pc = "delete"
  BY OperationKnown DEF DeleteObject, At
<1>2. PICK outcome \in {"satisfied", "failed", "unknown"} :
        /\ bytes' \in {bytes, bytes \ {worker[w].target}}
        /\ outcome = "satisfied" => worker[w].target \notin bytes'
        /\ Goto(w, [worker[w] EXCEPT !.pc = "settle", !.outcome = outcome])
  BY DEF DeleteObject
<1> DEFINE state == [worker[w] EXCEPT !.pc = "settle", !.outcome = outcome]
<1>3. /\ state \in WorkerStates /\ state.pc = "settle" /\ state.outcome = outcome
      /\ state.target = worker[w].target
      /\ state.authorization = worker[w].authorization
  BY <1>1 DEF WorkerStates, WorkerPoints, Outcomes
<1>4. Goto(w, state)
  BY <1>2
<1> HIDE DEF state
<1>5. WorkerOK(state, op, bytes')
  BY <1>1, <1>2, <1>3 DEF WorkerOK, Holding, Transacting
<1>6. op' = op /\ records' = records /\ bytes' \subseteq bytes
  BY <1>2 DEF DeleteObject
<1>7. WorkersInv' /\ HoldInv' /\ worker' \in [Workers -> WorkerStates]
  BY <1>1, <1>3, <1>4, <1>5, <1>6, WorkerStep DEF IInv, Goto, Later, DeleteObject
<1>8. TypeInv'
  BY <1>6, <1>7 DEF IInv, TypeInv, DeleteObject
<1>9. StoreInv'
  <2>1. op.frozen
    BY <1>1 DEF WorkerOK, Agrees
  <2>2. QED
    BY <1>1, <1>6, <2>1 DEF IInv, StoreInv, Agrees
<1>10. QED
  BY <1>6, <1>7, <1>8, <1>9 DEF IInv, BlockedByHold

\* A worker that returns to the objects or the records with the operation it wrote.
LEMMA WriteAndProceed ==
  ASSUME IInv, NEW w \in Workers, op # NoOperation, op' \in Operations, op'.targets = op.targets,
         op'.revision = op.revision + 1, op'.frozen = op.frozen,
         records' \subseteq records, Retained \cup Links \subseteq records',
         Agrees(op', bytes, records'),
         ActiveHolds # {} => leeway \/ (records' = records /\ op'.authorized = op.authorized),
         UNCHANGED <<claim, work, holds, bytes, reopening, staff, faults, crashes>>,
         leeway' \in BOOLEAN,
         NEW pc \in {"authorize", "records"}, Stop(w) \/ Proceed(w, pc, op')
  PROVE  IInv' /\ BlockedByHold
<1> DEFINE state == [IdleWorker EXCEPT !.pc = pc, !.op = op']
<1>0. op'.revision <= op'.revision
  BY DEF Operations
<1>1. state \in WorkerStates /\ WorkerOK(state, op', bytes) /\ state.pc = pc
  BY <1>0, NoOperationIsNone, ProceedState
<1>2. IdleWorker \in WorkerStates /\ WorkerOK(IdleWorker, op', bytes) /\ IdleWorker.pc = "idle"
  BY IdleState
<1> HIDE DEF state
<1>3. PICK s \in WorkerStates : /\ Goto(w, s) /\ WorkerOK(s, op', bytes)
                               /\ s.pc \notin {"authorizing", "applying"}
  BY <1>1, <1>2 DEF Stop, Proceed, state
<1>4. faults' \in Nat /\ crashes' \in Nat
  BY DEF IInv, TypeInv
<1>5. QED
  BY <1>3, <1>4, WriteStep

LEMMA StartObjectResultKeeps ==
  ASSUME IInv, NEW w \in Workers, StartObjectResult(w)
  PROVE  IInv' /\ BlockedByHold
<1> DEFINE a == worker[w].authorization
<1> DEFINE held == ActiveHolds # {}
<1> DEFINE state == [worker[w] EXCEPT !.pc = "settling", !.op = op, !.held = held]
<1>1. /\ op # NoOperation /\ op \in Operations /\ op.revision <= op.revision
      /\ worker[w] \in WorkerStates /\ WorkerOK(worker[w], op, bytes) /\ worker[w].pc = "settle"
      /\ UNCHANGED shared /\ faults' \in Nat /\ crashes' \in Nat
  BY OperationKnown DEF StartObjectResult, At, shared
<1>2. CASE Stop(w) \/ Proceed(w, "authorize", op)
  BY <1>1, <1>2, StopKeeps, ProceedKeeps DEF shared
<1>3. CASE ResultAwaited(a) /\ Goto(w, state)
  <2>1. held \in BOOLEAN
    OBVIOUS
  <2> HIDE DEF held
  <2>2. /\ state \in WorkerStates /\ state.pc = "settling" /\ state.op = op
        /\ state.target = worker[w].target /\ state.authorization = worker[w].authorization
        /\ state.outcome = worker[w].outcome
    BY <1>1, <2>1 DEF WorkerStates, WorkerPoints
  <2>3. op.active = a /\ op.steps < EvidenceLimit
    BY <1>3 DEF ResultAwaited
  <2> HIDE DEF state
  <2>4. WorkerOK(state, op, bytes)
    BY <1>1, <2>2, <2>3 DEF WorkerOK, Holding, Transacting, SnapshotHolds
  <2>5. QED
    BY <1>1, <1>3, <2>2, <2>4, ReadStep DEF shared
<1>4. QED
  BY <1>2, <1>3 DEF StartObjectResult, AfterResult

LEMMA CommitObjectResultKeeps ==
  ASSUME IInv, NEW w \in Workers, CommitObjectResult(w)
  PROVE  IInv' /\ BlockedByHold
<1> DEFINE a == worker[w].authorization
<1> DEFINE t == worker[w].target
<1> DEFINE s == worker[w].outcome
<1>1. /\ op # NoOperation /\ op \in Operations /\ Agrees(op, bytes, records)
      /\ worker[w] \in WorkerStates /\ WorkerOK(worker[w], op, bytes) /\ worker[w].pc = "settling"
  BY OperationKnown DEF CommitObjectResult, At
<1>2. /\ a \in Authorizations \ {NoAuthorization} /\ t \in op.targets \cap Objects
      /\ a.target = t
      /\ s \in {"satisfied", "failed", "unknown"}
      /\ s = "satisfied" => t \notin bytes
  BY <1>1 DEF WorkerOK, WorkerStates, Outcomes
<1>3. /\ UNCHANGED <<claim, work, holds, bytes, records, reopening, staff, faults, crashes, leeway>>
      /\ faults' \in Nat /\ crashes' \in Nat
  BY DEF CommitObjectResult, IInv, TypeInv
<1>4. AfterResult(w, op', TRUE) => Stop(w) \/ Proceed(w, "authorize", op')
  BY DEF AfterResult
<1>5. CASE op' = op /\ Rerun(w, "settle")
  BY <1>1, <1>3, <1>5, RerunKeeps DEF shared
<1>6. CASE Unconflicted(w) /\ op' = Settled(t, s, worker[w].held) /\ AfterResult(w, op', TRUE)
  <2> DEFINE n == AfterStep(op, t, s)
  <2> DEFINE next == [n EXCEPT !.active = NoAuthorization]
  <2>0. t \in Targets
    <3> HIDE DEF t, a
    <3>1. QED
      BY <1>2, Classes
  <2>1. t \in Targets /\ s \in StepStatuses
    <3> HIDE DEF t, a, s
    <3>1. QED
      BY <1>2, <2>0 DEF StepStatuses
  <2>2. /\ n \in Operations
        /\ n.frozen = op.frozen /\ n.targets = op.targets
        /\ n.authorized = op.authorized /\ n.steps = op.steps + 1 /\ n.revision = op.revision + 1
        /\ n.step = [op.step EXCEPT ![t] = s]
        /\ n.attempts = [op.attempts EXCEPT ![t] = @ + 1]
        /\ n.status = "completed" => AllSatisfied(n)
        /\ n.status = "reconciliation_required" => s # "satisfied"
    BY <1>1, <2>1, AfterStepFields
  <2>3. op' = next \/ op' = [next EXCEPT !.status = "held"]
    BY <1>6 DEF Settled
  <2> HIDE DEF n
  <2>4. /\ op' \in Operations /\ op'.status \in {n.status, "held"}
        /\ op'.frozen = n.frozen /\ op'.targets = n.targets /\ op'.authorized = n.authorized
        /\ op'.steps = n.steps /\ op'.step = n.step /\ op'.attempts = n.attempts
        /\ op'.active = NoAuthorization /\ op'.revision = n.revision
    <3>1. /\ next \in Operations /\ next.status = n.status
          /\ next.frozen = n.frozen /\ next.targets = n.targets /\ next.authorized = n.authorized
          /\ next.steps = n.steps /\ next.step = n.step /\ next.attempts = n.attempts
          /\ next.active = NoAuthorization /\ next.revision = n.revision
      BY <2>2 DEF Operations
    <3> HIDE DEF next
    <3>2. QED
      BY <2>3, <3>1 DEF Operations, Statuses
  <2>5. op.step[t] # "satisfied" /\ op.steps < EvidenceLimit /\ op.active = a
    <3>1. op.active = a /\ op.steps < EvidenceLimit
      BY <1>1, <1>6, SnapshotStands DEF SnapshotHolds, Transacting
    <3>2. QED
      BY <1>1, <1>2, <3>1 DEF Agrees
  <2>6. op'.status = "completed" => AllSatisfied(op')
    BY <2>2, <2>4 DEF AllSatisfied, Unsatisfied
  <2>7. records # Records => FALSE
    BY <1>1, <1>2, <2>5 DEF Agrees, Unsatisfied
  <2>8. t \notin Deleted \cup Anonymised
    BY <1>2, Classes
  <2>9. Agrees(op', bytes, records)
    <3> HIDE DEF t, a, s, next
    <3>1. op'.status = "reconciliation_required" => s # "satisfied" /\ s # "pending"
      <4>1. op'.status = "reconciliation_required" => n.status = "reconciliation_required"
        BY <2>4
      <4>2. s # "pending"
        BY <1>2
      <4>3. QED
        BY <2>2, <4>1, <4>2
    <3>2. QED
      BY <1>1, <1>2, <2>1, <2>2, <2>4, <2>5, <2>6, <2>7, <2>8, <3>1, EvidenceAgrees
  <2>10. QED
    BY <1>1, <1>3, <1>4, <1>6, <2>2, <2>4, <2>9, WriteAndProceed DEF IInv, StoreInv, TypeInv
<1>7. QED
  BY <1>5, <1>6 DEF CommitObjectResult

LEMMA CheckHoldsForRecordKeeps ==
  ASSUME IInv, NEW w \in Workers, CheckHoldsForRecord(w)
  PROVE  IInv' /\ BlockedByHold
<1>1. /\ op # NoOperation
      /\ Local(w) \in Operations /\ Local(w).targets \subseteq op.targets
      /\ Local(w).revision <= op.revision
      /\ UNCHANGED shared /\ faults' \in Nat /\ crashes' \in Nat
  BY LocalKnown DEF CheckHoldsForRecord, At, Holding, shared
<1>2. CASE Stop(w) \/ Reread(w, "refresh")
  BY <1>1, <1>2, StopKeeps, RereadKeeps DEF shared
<1>3. ASSUME NEW t \in NextRecords(Local(w)),
             Goto(w, [IdleWorker EXCEPT !.pc = "apply", !.op = Local(w), !.target = t])
      PROVE  IInv' /\ BlockedByHold
  <2> DEFINE state == [IdleWorker EXCEPT !.pc = "apply", !.op = Local(w), !.target = t]
  <2>1. t \in op.targets \cap Records /\ t \in Targets
    BY <1>1, <1>3, Classes DEF NextRecords, Unsatisfied
  <2>2. state \in WorkerStates /\ state.pc = "apply" /\ state.op = Local(w) /\ state.target = t
    BY <1>1, <2>1, IdleState DEF WorkerStates, WorkerPoints
  <2>3. Goto(w, state)
    BY <1>3
  <2> HIDE DEF state
  <2>4. WorkerOK(state, op, bytes)
    BY <1>1, <2>1, <2>2 DEF WorkerOK, Holding, Transacting
  <2>5. QED
    BY <1>1, <2>2, <2>3, <2>4, ReadStep DEF shared
<1>4. QED
  BY <1>2, <1>3 DEF CheckHoldsForRecord

LEMMA StartRecordStepKeeps ==
  ASSUME IInv, NEW w \in Workers, StartRecordStep(w)
  PROVE  IInv' /\ BlockedByHold
<1> DEFINE state == [worker[w] EXCEPT !.pc = "applying", !.seen = claim.revision]
<1>1. /\ op # NoOperation /\ op \in Operations
      /\ worker[w] \in WorkerStates /\ WorkerOK(worker[w], op, bytes) /\ worker[w].pc = "apply"
      /\ UNCHANGED shared /\ faults' \in Nat /\ crashes' \in Nat
  BY OperationKnown DEF StartRecordStep, At, shared
<1>2. CASE Stop(w)
  BY <1>1, <1>2, StopKeeps DEF shared
<1>3. CASE RecordStepPermitted(Local(w), worker[w].target) /\ Goto(w, state)
  <2>1. claim.revision \in Nat
    BY DEF IInv, TypeInv
  <2>2. /\ state \in WorkerStates /\ state.pc = "applying" /\ state.op = worker[w].op
        /\ state.target = worker[w].target
    BY <1>1, <2>1 DEF WorkerStates, WorkerPoints
  <2>3. /\ op.step[worker[w].target] # "satisfied" /\ op.steps < EvidenceLimit
        /\ Unsatisfied(op, Objects) = {} /\ ActiveHolds = {}
    BY <1>3 DEF RecordStepPermitted
  <2> HIDE DEF state
  <2>4. WorkerOK(state, op, bytes)
    BY <1>1, <2>2, <2>3 DEF WorkerOK, Holding, Transacting, SnapshotHolds
  <2>5. QED
    BY <1>1, <1>3, <2>2, <2>3, <2>4, ReadStep DEF shared
<1>4. QED
  BY <1>2, <1>3 DEF StartRecordStep

\* Destroying or verifying a record, in the transaction that says so.
LEMMA RecordStepAgrees ==
  ASSUME IInv, op # NoOperation, NEW t \in op.targets \cap Records,
         op.step[t] # "satisfied", op.steps < EvidenceLimit, Unsatisfied(op, Objects) = {},
         RecordStep(t)
  PROVE  /\ op' \in Operations /\ op'.targets = op.targets
         /\ op'.frozen = op.frozen /\ op'.revision = op.revision + 1
         /\ records' \subseteq records /\ Retained \cup Links \subseteq records'
         /\ Agrees(op', bytes, records')
<1> DEFINE s == IF Located(t) THEN "satisfied" ELSE "missing"
<1> DEFINE n == AfterStep(op, t, s)
<1>1. op \in Operations /\ Agrees(op, bytes, records) /\ Retained \cup Links \subseteq records
      /\ records \subseteq Records
  BY DEF IInv, TypeInv, StoreInv
<1>2. t \in Targets /\ t \in Records /\ t \notin Objects
  BY Classes
<1>3. s \in StepStatuses /\ s # "pending"
  BY DEF StepStatuses
<1>4. op' = n /\ records' = IF Located(t) THEN records \ ({t} \cap (Deleted \cup Anonymised)) ELSE records
  BY DEF RecordStep
<1>5. op.step[t] # "satisfied" /\ op.steps < EvidenceLimit /\ Unsatisfied(op, Objects) = {}
  OBVIOUS
<1>6. /\ n \in Operations
      /\ n.frozen = op.frozen /\ n.targets = op.targets /\ n.active = op.active
      /\ n.authorized = op.authorized /\ n.steps = op.steps + 1 /\ n.revision = op.revision + 1
      /\ n.step = [op.step EXCEPT ![t] = s]
      /\ n.attempts = [op.attempts EXCEPT ![t] = @ + 1]
      /\ n.status = "completed" => AllSatisfied(n)
      /\ n.status = "reconciliation_required" => s # "satisfied"
  BY <1>1, <1>2, <1>3, AfterStepFields
<1>7. records' \subseteq records /\ Retained \cup Links \subseteq records'
  BY <1>1, <1>4, Classes
<1>8. \A r \in Deleted \cup Anonymised : r # t => (r \in records' <=> r \in records)
  BY <1>4
<1>9. t \in Deleted \cup Anonymised => t \in records /\ Located(t)
  BY <1>1, <1>5, Classes DEF Agrees, Located
<1>10. t \in Deleted \cup Anonymised => (s = "satisfied" <=> t \notin records')
  BY <1>4, <1>9
<1>11. n.active # NoAuthorization => n.active.target # t
  BY <1>1, <1>2, <1>6 DEF Agrees, ValidOperation
<1> HIDE DEF n, s
<1>12. Agrees(n, bytes, records')
  BY <1>1, <1>2, <1>3, <1>5, <1>6, <1>7, <1>8, <1>10, <1>11, EvidenceAgrees
<1>13. QED
  BY <1>4, <1>5, <1>6, <1>7, <1>12

\* A record step that commits does so on the operation of its snapshot, and under
\* a hold only if it was open when that was placed.
LEMMA RecordStepCommits ==
  ASSUME IInv, NEW w \in Workers, At(w, "applying"), RecordStepUnconflicted(w),
         RecordStep(worker[w].target)
  PROVE  /\ op' \in Operations /\ op'.targets = op.targets
         /\ op'.frozen = op.frozen /\ op'.revision = op.revision + 1
         /\ records' \subseteq records /\ Retained \cup Links \subseteq records'
         /\ Agrees(op', bytes, records')
         /\ ActiveHolds # {} => leeway
<1>1. /\ op # NoOperation /\ worker[w].pc = "applying"
      /\ worker[w].target \in op.targets \cap Records
  BY OperationKnown DEF At, WorkerOK
<1>2. /\ op.step[worker[w].target] # "satisfied" /\ op.steps < EvidenceLimit
      /\ Unsatisfied(op, Objects) = {}
  BY <1>1, SnapshotStands DEF RecordStepUnconflicted, SnapshotHolds, Transacting
<1>3. ActiveHolds # {} => leeway
  BY DEF RecordStepUnconflicted, IInv, HoldInv, InFlight
<1>4. QED
  BY <1>1, <1>2, <1>3, RecordStepAgrees

LEMMA CommitRecordStepKeeps ==
  ASSUME IInv, NEW w \in Workers, CommitRecordStep(w)
  PROVE  IInv' /\ BlockedByHold
<1>1. /\ op # NoOperation /\ worker[w].pc = "applying" /\ At(w, "applying")
      /\ UNCHANGED <<claim, work, holds, bytes, reopening, staff, faults, crashes>>
  BY OperationKnown DEF CommitRecordStep, At
<1>2. CASE UNCHANGED <<op, records, leeway>> /\ Rerun(w, "apply")
  BY <1>1, <1>2, RerunKeeps DEF shared
<1>3. CASE /\ RecordStepUnconflicted(w) /\ RecordStep(worker[w].target) /\ leeway' = FALSE
           /\ Stop(w) \/ Proceed(w, "records", op')
  <2>1. /\ op' \in Operations /\ op'.targets = op.targets
        /\ op'.frozen = op.frozen /\ op'.revision = op.revision + 1
        /\ records' \subseteq records /\ Retained \cup Links \subseteq records'
        /\ Agrees(op', bytes, records')
        /\ ActiveHolds # {} => leeway
    BY <1>1, <1>3, RecordStepCommits
  <2>2. QED
    BY <1>1, <1>3, <2>1, WriteAndProceed
<1>4. QED
  BY <1>2, <1>3 DEF CommitRecordStep

LEMMA RecordStepUncertainKeeps ==
  ASSUME IInv, NEW w \in Workers, RecordStepUncertain(w)
  PROVE  IInv' /\ BlockedByHold
<1> DEFINE state == [IdleWorker EXCEPT !.pc = "uncertain", !.target = worker[w].target]
<1>1. /\ op # NoOperation /\ op \in Operations
      /\ worker[w].target \in op.targets \cap Records
      /\ UNCHANGED <<claim, work, holds, bytes, reopening, staff, crashes>>
      /\ faults' \in Nat /\ crashes' \in Nat
  BY OperationKnown DEF RecordStepUncertain, At, WorkerOK
<1>2. worker[w].target \in Targets
  BY <1>1, Classes
<1>3. state \in WorkerStates /\ state.pc = "uncertain" /\ state.target = worker[w].target
  BY <1>2, IdleState DEF WorkerStates, WorkerPoints
<1>4. Goto(w, state)
  BY DEF RecordStepUncertain
<1> HIDE DEF state
<1>5. CASE UNCHANGED <<op, records, leeway>>
  <2>1. WorkerOK(state, op, bytes)
    BY <1>1, <1>3 DEF WorkerOK, Holding, Transacting
  <2>2. QED
    BY <1>1, <1>3, <1>4, <1>5, <2>1, ReadStep
<1>6. CASE /\ At(w, "applying") /\ RecordStepUnconflicted(w) /\ RecordStep(worker[w].target)
           /\ leeway' = FALSE
  <2>1. /\ op' \in Operations /\ op'.targets = op.targets
        /\ op'.frozen = op.frozen /\ op'.revision = op.revision + 1
        /\ records' \subseteq records /\ Retained \cup Links \subseteq records'
        /\ Agrees(op', bytes, records')
        /\ ActiveHolds # {} => leeway
    BY <1>1, <1>6, RecordStepCommits
  <2>2. WorkerOK(state, op', bytes)
    BY <1>1, <1>3, <2>1, NoOperationIsNone DEF WorkerOK, Holding, Transacting
  <2>3. QED
    BY <1>1, <1>3, <1>4, <1>6, <2>1, <2>2, WriteStep
<1>7. QED
  BY <1>5, <1>6 DEF RecordStepUncertain

LEMMA ReloadUncertainKeeps ==
  ASSUME IInv, NEW w \in Workers, ReloadUncertain(w)
  PROVE  IInv' /\ BlockedByHold
<1> DEFINE state == [worker[w] EXCEPT !.pc = "failure", !.op = op]
<1>1. /\ op # NoOperation /\ op \in Operations
      /\ worker[w] \in WorkerStates /\ WorkerOK(worker[w], op, bytes) /\ worker[w].pc = "uncertain"
      /\ UNCHANGED shared /\ faults' \in Nat /\ crashes' \in Nat
      /\ op.revision <= op.revision
  BY OperationKnown DEF ReloadUncertain, At, shared
<1>2. /\ state \in WorkerStates /\ state.pc = "failure"
      /\ state.op = op /\ state.target = worker[w].target
  BY <1>1 DEF WorkerStates, WorkerPoints
<1>3. CASE Goto(w, state)
  <2> HIDE DEF state
  <2>1. WorkerOK(state, op, bytes)
    BY <1>1, <1>2 DEF WorkerOK, Holding, Transacting
  <2>2. QED
    BY <1>1, <1>2, <1>3, <2>1, ReadStep DEF shared
<1>4. CASE Stop(w) \/ Proceed(w, "records", op)
  BY <1>1, <1>4, StopKeeps, ProceedKeeps DEF shared
<1>5. QED
  BY <1>3, <1>4 DEF ReloadUncertain

LEMMA RecordFailureKeeps ==
  ASSUME IInv, NEW w \in Workers, RecordFailure(w)
  PROVE  IInv' /\ BlockedByHold
<1> DEFINE t == worker[w].target
<1> DEFINE n == AfterStep(op, t, "unknown")
<1>1. /\ op # NoOperation /\ op \in Operations /\ Agrees(op, bytes, records)
      /\ t \in op.targets /\ t \in Records /\ t \in Targets /\ t \notin Objects
      /\ UNCHANGED <<claim, work, holds, bytes, records, reopening, staff, faults, crashes, leeway>>
      /\ records \subseteq Records /\ Retained \cup Links \subseteq records /\ leeway \in BOOLEAN
  BY LocalKnown, Classes DEF RecordFailure, At, Holding, WorkerOK, IInv, TypeInv, StoreInv
<1>2. CASE op' = op
  BY <1>1, <1>2, StopKeeps DEF RecordFailure, IInv, TypeInv
<1>3. CASE FailureRecorded(Local(w), t) /\ op' = n
  <2>1. op.step[t] # "satisfied" /\ op.steps < EvidenceLimit
    BY <1>3 DEF FailureRecorded
  <2>2. /\ n \in Operations
        /\ n.frozen = op.frozen /\ n.targets = op.targets /\ n.active = op.active
        /\ n.authorized = op.authorized /\ n.steps = op.steps + 1 /\ n.revision = op.revision + 1
        /\ n.step = [op.step EXCEPT ![t] = "unknown"]
        /\ n.attempts = [op.attempts EXCEPT ![t] = @ + 1]
        /\ n.status = "completed" => AllSatisfied(n)
    BY <1>1, AfterStepFields DEF StepStatuses
  <2>3. n.active # NoAuthorization => n.active.target # t
    BY <1>1, <2>2 DEF Agrees, ValidOperation
  <2>4. t \in Deleted \cup Anonymised => t \in records
    BY <1>1, <2>1 DEF Agrees
  <2>5. records # Records => Unsatisfied(op, Objects) = {}
    BY <1>1 DEF Agrees
  <2> HIDE DEF n, t
  <2>6. Agrees(n, bytes, records)
    BY <1>1, <2>1, <2>2, <2>3, <2>4, <2>5, EvidenceAgrees DEF StepStatuses
  <2>7. QED
    BY <1>1, <1>3, <2>2, <2>6, WriteAndProceed DEF RecordFailure
<1>4. QED
  BY <1>2, <1>3 DEF RecordFailure

LEMMA CrashWorkerKeeps ==
  ASSUME IInv, NEW w \in Workers, CrashWorker(w)
  PROVE  IInv' /\ BlockedByHold
BY StopKeeps DEF CrashWorker, IInv, TypeInv

-----------------------------------------------------------------------------
(* The steps of staff and of the Claim.                                    *)

LEMMA NothingMoved ==
  ASSUME IInv, TypeInv', UNCHANGED <<op, holds, bytes, records, worker, leeway>>
  PROVE  IInv' /\ BlockedByHold
<1>1. StoreInv' /\ WorkersInv'
  BY DEF IInv, StoreInv, WorkersInv
<1>2. HoldInv'
  BY DEF IInv, HoldInv, ActiveHolds, InFlight, At, Unconflicted, Local
<1>3. QED
  BY <1>1, <1>2 DEF IInv, BlockedByHold

\* A step that only moves hold requests.
LEMMA OfferHoldActionKeeps ==
  ASSUME IInv, NEW s \in Staff, NEW action \in {"apply", "release"}, NEW h \in Holds,
         OfferHoldAction(s, action, h)
  PROVE  IInv' /\ BlockedByHold
<1> DEFINE state == [IdleStaff EXCEPT !.pc = "offered", !.action = action, !.hold = h,
                                      !.revision = claim.revision]
<1>1. claim.revision \in Nat
  BY DEF IInv, TypeInv
<1>2. state \in StaffStates
  BY <1>1 DEF IdleStaff, StaffStates
<1>3. staff' = [staff EXCEPT ![s] = state]
  BY DEF OfferHoldAction, Request
<1> HIDE DEF state
<1>4. staff' \in [Staff -> StaffStates]
  BY <1>2, <1>3 DEF IInv, TypeInv
<1>5. UNCHANGED <<claim, work, op, holds, bytes, records, reopening, worker, faults, crashes, leeway>>
  BY DEF OfferHoldAction
<1>6. TypeInv'
  BY <1>4, <1>5 DEF IInv, TypeInv
<1>7. QED
  BY <1>5, <1>6, NothingMoved

LEMMA SnapshotHoldActionKeeps ==
  ASSUME IInv, NEW s \in Staff, SnapshotHoldAction(s)
  PROVE  IInv' /\ BlockedByHold
<1> DEFINE others == ActiveHolds \ {staff[s].hold} # {}
<1> DEFINE state == [staff[s] EXCEPT !.pc = "commit", !.op = op, !.others = others]
<1>1. staff[s] \in StaffStates /\ op \in Operations \cup {NoOperation} /\ others \in BOOLEAN
  BY DEF IInv, TypeInv
<1>2. staff' = [staff EXCEPT ![s] = state] \/ staff' = [staff EXCEPT ![s] = IdleStaff]
  BY DEF SnapshotHoldAction, Request
<1> HIDE DEF others
<1>3. state \in StaffStates /\ IdleStaff \in StaffStates
  BY <1>1, NoOperationIsNone DEF IdleStaff, StaffStates
<1> HIDE DEF state
<1>4. staff' \in [Staff -> StaffStates]
  BY <1>2, <1>3 DEF IInv, TypeInv
<1>5. UNCHANGED <<claim, work, op, holds, bytes, records, reopening, worker, faults, crashes, leeway>>
  BY DEF SnapshotHoldAction
<1>6. TypeInv'
  BY <1>4, <1>5 DEF IInv, TypeInv
<1>7. QED
  BY <1>5, <1>6, NothingMoved

\* The operation held or resumed is the stored one, so its evidence still stands.
LEMMA CommitHoldActionKeeps ==
  ASSUME IInv, NEW s \in Staff, CommitHoldAction(s)
  PROVE  IInv' /\ BlockedByHold
<1>1. UNCHANGED <<claim, work, bytes, records, reopening, worker, faults, crashes>>
  BY DEF CommitHoldAction
<1>2. staff' \in [Staff -> StaffStates]
  <2> DEFINE state == [staff[s] EXCEPT !.pc = "offered"]
  <2>1. staff' = [staff EXCEPT ![s] = state] \/ staff' = [staff EXCEPT ![s] = IdleStaff]
    BY DEF CommitHoldAction, Request
  <2>2. state \in StaffStates /\ IdleStaff \in StaffStates
    BY DEF IInv, TypeInv, StaffStates, IdleStaff
  <2> HIDE DEF state
  <2>3. QED
    BY <2>1, <2>2 DEF IInv, TypeInv
<1>3. holds' \in [Holds -> {"absent", "active", "released"}]
  BY DEF CommitHoldAction, IInv, TypeInv
<1>4. leeway' \in BOOLEAN
  BY Zenon DEF CommitHoldAction, IInv, TypeInv
<1>5. \/ op' = op
      \/ op # NoOperation /\ (op' = Held(op) \/ op' = Resumed(op))
  BY DEF CommitHoldAction, WritesOperation
<1>6. Later(op', op) => WorkersInv' /\ HoldInv'
  <2> SUFFICES ASSUME Later(op', op) PROVE WorkersInv' /\ HoldInv'
    OBVIOUS
  <2>1. WorkersInv' /\ InFlight' \subseteq InFlight /\ (op' # op => InFlight' = {})
    BY <1>1, WorkersUnmoved DEF IInv
  <2>2. HoldInv'
    <3> DEFINE h == staff[s].hold
    <3>1. CASE UNCHANGED <<holds, leeway>>
      BY <2>1, <3>1 DEF IInv, HoldInv, ActiveHolds
    <3>2. CASE /\ leeway' = (~WritesOperation(s) /\ InFlight # {})
               /\ WritesOperation(s) => op # NoOperation /\ op' = Held(op)
      <4>1. ASSUME WritesOperation(s) PROVE op' # op
        <5>1. op \in Operations /\ Agrees(op, bytes, records) /\ op' = Held(op)
          BY <3>2, <4>1 DEF IInv, TypeInv, StoreInv
        <5>2. op' = [op EXCEPT !.revision = @ + 1, !.status = "held"] /\ op.revision \in Nat
          BY <5>1 DEF Held, Operations
        <5>3. op'.revision = op.revision + 1
          BY <5>1, <5>2 DEF Operations
        <5>4. op'.revision # op.revision
          <6> DEFINE r == op.revision
          <6>1. r \in Nat
            BY <5>2
          <6> HIDE DEF r
          <6>2. r + 1 # r
            BY <6>1
          <6>3. QED
            BY <5>3, <6>2 DEF r
        <5>5. QED
          BY <5>4
      <4>2. WritesOperation(s) => InFlight' = {}
        BY <2>1, <4>1
      <4>3. QED
        BY <2>1, <3>2, <4>2 DEF HoldInv
    <3>3. CASE /\ holds' = [holds EXCEPT ![h] = "released"]
               /\ leeway' = (leeway /\ ActiveHolds \ {h} # {})
      <4>1. ActiveHolds' \subseteq ActiveHolds \ {h}
        BY <3>3 DEF ActiveHolds, IInv, TypeInv
      <4>2. QED
        BY <2>1, <3>3, <4>1 DEF IInv, HoldInv
    <3>4. WritesOperation(s) => staff[s].op # NoOperation
      BY DEF WritesOperation
    <3>5. QED
      BY <3>1, <3>2, <3>3, <3>4 DEF CommitHoldAction
  <2>3. QED
    BY <2>1, <2>2
<1>7. CASE op' = op
  <2>1. WorkersInv' /\ HoldInv'
    BY <1>6, <1>7 DEF Later
  <2>2. QED
    BY <1>1, <1>2, <1>3, <1>4, <1>7, <2>1 DEF IInv, TypeInv, StoreInv, BlockedByHold
<1>8. CASE op # NoOperation /\ (op' = Held(op) \/ op' = Resumed(op))
  <2>1. op \in Operations /\ Agrees(op, bytes, records)
    BY <1>8 DEF IInv, TypeInv, StoreInv
  <2> DEFINE status == IF AllSatisfied(op) THEN "completed"
                       ELSE IF NeedsReconciliation(op) THEN "reconciliation_required"
                       ELSE "reserved"
  <2>2. status \in Statuses /\ (status = "completed" => AllSatisfied(op))
        /\ (status = "reconciliation_required" => NeedsReconciliation(op))
    BY DEF Statuses
  <2>3. Resumed(op) = [op EXCEPT !.revision = @ + 1, !.status = status]
    BY DEF Resumed
  <2> HIDE DEF status
  <2>4. /\ op' \in Operations /\ Agrees(op', bytes, records)
        /\ op'.targets = op.targets /\ op'.authorized = op.authorized
        /\ op'.frozen = op.frozen /\ op'.revision = op.revision + 1
    <3>1. CASE op' = Held(op)
      BY <2>1, <3>1, StatusAgrees DEF Held, Statuses
    <3>2. CASE op' = Resumed(op)
      <4>1. op' = [op EXCEPT !.revision = @ + 1, !.status = status]
        BY <2>3, <3>2
      <4>2. QED
        BY <2>1, <2>2, <4>1, StatusAgrees
    <3>3. QED
      BY <1>8, <3>1, <3>2
  <2>5. op' # NoOperation
    BY <2>4, NoOperationIsNone
  <2>6. WorkersInv' /\ HoldInv'
    <3>1. op'.revision > op.revision
      BY <2>1, <2>4 DEF Operations
    <3>2. QED
      BY <1>6, <2>4, <3>1 DEF Later
  <2>7. StoreInv'
    BY <1>1, <2>1, <2>4, <2>5, NoOperationIsNone DEF IInv, StoreInv
  <2>8. TypeInv'
    BY <1>1, <1>2, <1>3, <1>4, <2>4 DEF IInv, TypeInv
  <2>9. QED
    BY <1>1, <2>4, <2>6, <2>7, <2>8 DEF IInv, BlockedByHold
<1>9. QED
  BY <1>5, <1>7, <1>8

LEMMA ClaimKeeps ==
  ASSUME IInv, Terminate \/ StartReopen \/ CommitReopen \/ ResolveHandoff
  PROVE  IInv' /\ BlockedByHold
<1>1. UNCHANGED <<op, holds, bytes, records, worker, staff, faults, crashes, leeway>>
  BY DEF Terminate, StartReopen, CommitReopen, ResolveHandoff
<1>2. claim' \in [revision : Nat, terminal : Nat]
  <2> DEFINE next == claim.revision + 1
  <2>1. next \in Nat /\ claim \in [revision : Nat, terminal : Nat]
    BY DEF IInv, TypeInv
  <2>2. claim' \in {claim, [revision |-> next, terminal |-> next],
                    [revision |-> next, terminal |-> 0], [claim EXCEPT !.revision = next]}
    BY <2>1 DEF Terminate, StartReopen, CommitReopen, ResolveHandoff
  <2> HIDE DEF next
  <2>3. QED
    BY <2>1, <2>2
<1>3. reopening' \in Nat
  BY DEF IInv, TypeInv, Terminate, StartReopen, CommitReopen, ResolveHandoff
<1>4. work' \in BOOLEAN
  <2>1. work' = work \/ work' = FALSE
    BY Zenon DEF Terminate, StartReopen, CommitReopen, ResolveHandoff
  <2>2. QED
    BY <2>1, Zenon DEF IInv, TypeInv
<1>5. TypeInv'
  BY <1>1, <1>2, <1>3, <1>4 DEF IInv, TypeInv
<1>6. QED
  BY <1>1, <1>5, NothingMoved

-----------------------------------------------------------------------------
(* The theorems.                                                           *)

LEMMA InitInv == Init => IInv
<1> SUFFICES ASSUME Init PROVE IInv
  OBVIOUS
<1>1. IdleStaff \in StaffStates
  BY DEF IdleStaff, StaffStates
<1>2. \A w \in Workers : worker[w] \in WorkerStates /\ WorkerOK(worker[w], op, bytes)
  BY IdleState DEF Init
<1>3. TypeInv
  BY <1>1, IdleState DEF Init, TypeInv
<1>4. StoreInv
  BY Classes DEF Init, StoreInv
<1>5. HoldInv
  BY DEF Init, HoldInv, ActiveHolds
<1>6. QED
  BY <1>2, <1>3, <1>4, <1>5 DEF IInv, WorkersInv

LEMMA StepInv == IInv /\ [Next]_vars => IInv' /\ [BlockedByHold]_vars
<1> SUFFICES ASSUME IInv, [Next]_vars PROVE IInv' /\ [BlockedByHold]_vars
  OBVIOUS
<1>1. CASE UNCHANGED vars
  <2>1. TypeInv'
    BY <1>1 DEF vars, IInv, TypeInv
  <2>2. QED
    BY <1>1, <2>1, NothingMoved DEF vars
<1>2. ASSUME NEW w \in Workers, Work(w) PROVE IInv' /\ BlockedByHold
  BY <1>2, StartReservationKeeps, CommitReservationKeeps, DiscoverPendingKeeps,
     StartFreezeKeeps, CommitFreezeKeeps, LoadOperationKeeps, ChecksKeep, SaveHeldKeeps,
     StartAuthorizationKeeps, CommitAuthorizationKeeps, DeleteObjectKeeps,
     StartObjectResultKeeps, CommitObjectResultKeeps, CheckHoldsForRecordKeeps,
     StartRecordStepKeeps, CommitRecordStepKeeps, RecordStepUncertainKeeps,
     ReloadUncertainKeeps, RecordFailureKeeps
     DEF Work
<1>3. ASSUME NEW w \in Workers, CrashWorker(w) PROVE IInv' /\ BlockedByHold
  BY <1>3, CrashWorkerKeeps
<1>4. ASSUME NEW s \in Staff, HoldRequest(s) PROVE IInv' /\ BlockedByHold
  BY <1>4, OfferHoldActionKeeps, SnapshotHoldActionKeeps, CommitHoldActionKeeps DEF HoldRequest
<1>5. QED
  BY <1>1, <1>2, <1>3, <1>4, ClaimKeeps DEF Next

LEMMA Invariance == Spec => []IInv
BY InitInv, StepInv, PTL DEF Spec

\* Every stored operation passes the record's own validation, whatever two
\* workers, staff and the object store do to it (RetentionOperation.validate_operation).
THEOREM TypeCorrect == Spec => []TypeOK
<1>1. IInv => TypeOK
  BY DEF IInv, TypeInv, StoreInv, Agrees, TypeOK
<1>2. QED
  BY <1>1, Invariance, PTL

\* What the operation's evidence says is destroyed is destroyed, and nothing that
\* was to be kept is missing (record_retention_object_result,
\* apply_retention_record_target).
THEOREM EvidenceIsTruthful == Spec => []EvidenceTruthful
<1>1. IInv => EvidenceTruthful
  BY DEF IInv, StoreInv, Agrees, EvidenceTruthful
<1>2. QED
  BY <1>1, Invariance, PTL

\* No record is destroyed while bytes of a frozen object are left
\* (apply_retention_record_target begins only then).
THEOREM BytesGoFirst == Spec => []BytesBeforeRecords
<1>1. ASSUME IInv, records # Records PROVE op.targets \cap bytes = {}
  <2>1. bytes \subseteq Objects /\ Unsatisfied(op, Objects) = {}
        /\ \A t \in Objects : op.step[t] = "satisfied" => t \notin bytes
    BY <1>1 DEF IInv, TypeInv, StoreInv, Agrees
  <2>2. QED
    BY <2>1 DEF Unsatisfied
<1>2. IInv => BytesBeforeRecords
  BY <1>1 DEF BytesBeforeRecords
<1>3. QED
  BY <1>2, Invariance, PTL

\* A hold stops cleanup, for any number of workers, holds and requests: under an
\* active hold only a transaction that was open when the hold was placed, by a
\* transaction that found no operation, still authorizes or destroys, and once
\* (authorize_retention_object_target, apply_retention_record_target,
\* _persist_retention_hold).
THEOREM HoldsStopCleanup == Spec => HoldStopsCleanup
<1>1. [BlockedByHold]_vars => [ActiveHolds # {} =>
                                 \/ leeway
                                 \/ /\ records' = records
                                    /\ op # NoOperation => op'.authorized = op.authorized]_vars
  BY DEF BlockedByHold
<1>2. QED
  BY <1>1, StepInv, Invariance, PTL DEF Spec, HoldStopsCleanup
=============================================================================
