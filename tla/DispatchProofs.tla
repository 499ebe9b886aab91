--------------------------- MODULE DispatchProofs ---------------------------
(***************************************************************************)
(* Proofs about Dispatch, for any callers, reconcilers and receivers, any  *)
(* number of permissions and any bounds.                                   *)
(***************************************************************************)
EXTENDS Dispatch, FiniteSetTheorems, WellFoundedInduction, TLAPS

-----------------------------------------------------------------------------
(* The latest settlement.                                                  *)

\* A family of subsets of a finite set has a member that is minimal.
LEMMA MinimalSubset ==
  ASSUME NEW S, IsFiniteSet(S), NEW family, \A T \in family : T \subseteq S, family # {}
  PROVE  \E T \in family : \A U \in family : ~(U \subseteq T /\ U # T)
<1> DEFINE order == StrictSubsetOrdering(S)
<1>1. IsWellFoundedOn(order, SUBSET S)
  BY FS_StrictSubsetOrderingWellFounded, FS_FiniteSubsetsOfFinite
<1>2. \A T, U \in SUBSET S : U \subseteq T /\ U # T => <<U, T>> \in order
  BY DEF StrictSubsetOrdering
<1> HIDE DEF order
<1>3. \E T \in family : \A U \in family : ~(<<U, T>> \in order)
  BY <1>1, WFMin
<1>4. QED
  BY <1>2, <1>3

\* A finite set of integers has a greatest member.
LEMMA GreatestMember ==
  ASSUME NEW S, IsFiniteSet(S), S \subseteq Int, S # {}
  PROVE  Max(S) \in S /\ \A y \in S : Max(S) >= y
<1> DEFINE Bounded(T) == \E x \in T : \A y \in T : x >= y
           family == {T \in SUBSET S : T # {} /\ ~Bounded(T)}
<1>1. Bounded(S)
  <2>1. ASSUME NEW T \in family, \A U \in family : ~(U \subseteq T /\ U # T)
        PROVE  FALSE
    <3>1. PICK x \in T : TRUE
      BY <2>1
    <3>2. T \ {x} \notin family
      BY <2>1, <3>1
    <3>3. CASE T \ {x} = {}
      BY <2>1, <3>1, <3>3
    <3>4. CASE Bounded(T \ {x})
      <4>1. PICK z \in T \ {x} : \A y \in T \ {x} : z >= y
        BY <3>4
      <4>2. x \in Int /\ z \in Int /\ T \subseteq Int
        BY <2>1, <3>1, <4>1
      <4>3. CASE x >= z
        BY <2>1, <3>1, <4>1, <4>2, <4>3
      <4>4. CASE z >= x
        BY <2>1, <3>1, <4>1, <4>2, <4>4
      <4>5. QED
        BY <4>2, <4>3, <4>4
    <3>5. QED
      BY <2>1, <3>2, <3>3, <3>4
  <2>2. family = {}
    <3>1. \A T \in family : T \subseteq S
      OBVIOUS
    <3> HIDE DEF family
    <3>2. QED
      BY <2>1, <3>1, MinimalSubset
  <2>3. QED
    BY <2>2
<1>2. QED
  BY <1>1 DEF Max

-----------------------------------------------------------------------------
(* The invariant.                                                          *)

TaskRecords == [status : Statuses, submitted : BOOLEAN, updated : Nat]

CallerSteps == {"idle", "prepare", "task", "request", "reserve", "call", "send", "settle",
                "item", "release", "material", "evidence", "link", "free", "save"}

CallerStates ==
    [pc : CallerSteps, consent : Consents \cup {0}, revision : Nat, task : TaskRecords,
     sent : BOOLEAN, answer : Answers]
ReconcilerStates ==
    [pc : {"idle", "ask", "settle", "complete"}, consent : Consents \cup {0}, revision : Nat]
ReceiverStates ==
    [pc : {"idle", "ask", "arrive", "bind", "result", "verify"}, consent : Consents \cup {0},
     receipt : Nat, revision : Nat, bound : BOOLEAN, ready : BOOLEAN]

\* Types.  Revisions and the order of settlements are numbers, unbounded.
RecordTypes ==
    /\ claim \in [revision : Nat, routing : Consents \cup {0}, bound : BOOLEAN]
    /\ consents \in [Consents -> {"none", "granted", "withdrawn"}]
    /\ withdrawal \in Consents \cup {0}
    /\ operation \in [Consents -> [status : Statuses, revision : Nat,
                                   result : Routed \cup {"none"}]]
    /\ task \in [Consents -> TaskRecords]
    /\ request \in [Consents -> RequestType]
    /\ material \in [Consents -> [status : {"none", "pending", "ready"},
                                  receipt : Nat \cup {NoReceipt}, linked : BOOLEAN]]
    /\ result \in [Consents -> {"none", "unverified", "verified"}]
    /\ provider \in [Consents -> Routed \cup {"none", "refused"}]
    /\ returned \in [Consents -> Nat \cup {NoReceipt}]

ThreadTypes ==
    /\ caller \in [Callers -> CallerStates]
    /\ reconciler \in [Reconcilers -> ReconcilerStates]
    /\ receiver \in [Receivers -> ReceiverStates]

TypeInv == RecordTypes /\ ThreadTypes

\* An accepted operation is backed by its task, the provider and a recorded
\* send, and an unknown outcome by its reservation.
StoreInv ==
    /\ \A k \in Consents :
         /\ operation[k].status = "accepted" =>
              /\ task[k].status = "accepted" /\ request[k].sent
              /\ provider[k] \in Routed /\ operation[k].result = provider[k]
         /\ task[k].status = "unknown" => request[k].reserved
    /\ claim.routing # 0 =>
         /\ operation[claim.routing].status = "accepted"
         /\ material[claim.routing].status # "none" /\ material[claim.routing].linked

\* The report: one receipt per task, and material names no other.
ReportInv ==
    \A k \in Consents :
      /\ material[k].receipt \in {NoReceipt, returned[k]}
      /\ result[k] # "none" => claim.routing = k /\ returned[k] # NoReceipt

\* Callers between the reservation and its release.
Holders == {"call", "send", "settle", "item", "release"}

\* What a caller's control point says of the records of its permission.
CallerOK(c) ==
    LET t == caller[c]
        k == caller[c].consent
    IN  /\ t.pc # "idle" => k \in Consents
        /\ t.pc \in {"material", "evidence", "link", "free", "save"} =>
             operation[k].status = "accepted"
        /\ t.pc \in {"link", "free", "save"} => material[k].status # "none"
        /\ t.pc \in {"free", "save"} => material[k].linked
        /\ t.pc = "settle" \/ (t.pc \in {"call", "send"} /\ t.sent) => request[k].sent
        /\ t.pc \in {"send", "settle"} /\ t.answer.code \in Routed => provider[k] = t.answer.code
        /\ t.pc \in Holders /\ operation[k].status # "accepted" =>
             /\ request[k].reserved
             /\ task[k].status = "unknown" =>
                  t.pc = "item" /\ Classified(t.task, t.answer) = "unknown"

\* Until an operation is accepted, one caller holds its reservation.
OneHolder ==
    \A c, d \in Callers :
      /\ caller[c].pc \in Holders /\ caller[d].pc \in Holders
      /\ caller[c].consent = caller[d].consent
      /\ operation[caller[c].consent].status # "accepted"
      => c = d

CallersInv == (\A c \in Callers : CallerOK(c)) /\ OneHolder

\* A reconciliation whose revision is still the Claim's precedes any routing.
ReconcilerOK(q) ==
    LET s == reconciler[q]
    IN  /\ s.pc # "idle" => s.consent \in Consents
        /\ s.pc \in {"ask", "settle"} =>
             s.revision <= claim.revision /\ (s.revision = claim.revision => claim.routing = 0)
        /\ s.pc = "settle" => provider[s.consent] \in Routed

\* A receiver works on the routed task, with the receipt it was answered.
ReceiverOK(p) ==
    LET s == receiver[p]
    IN  /\ s.pc # "idle" => s.consent \in Consents /\ s.consent = claim.routing
        /\ s.pc \in {"arrive", "bind", "result", "verify"} => returned[s.consent] = s.receipt

ThreadsInv ==
    /\ CallersInv
    /\ \A q \in Reconcilers : ReconcilerOK(q)
    /\ \A p \in Receivers : ReceiverOK(p)

IInv == TypeInv /\ StoreInv /\ ReportInv /\ ThreadsInv

-----------------------------------------------------------------------------
(* Records that are written.                                               *)

LEMMA AnswersExist == NoAnswer \in Answers /\ Replay \in Answers
BY DEF NoAnswer, Replay, Answers

LEMMA NoTaskTyped == NoTask \in TaskRecords
BY DEF NoTask, TaskRecords, Statuses

\* The latest settlement has a number.
LEMMA LatestIsNumber ==
  ASSUME task \in [Consents -> TaskRecords], Consents # {}
  PROVE  Max({task[j].updated : j \in Consents}) \in Nat
<1> DEFINE numbers == {task[j].updated : j \in Consents}
           number == [j \in Consents |-> task[j].updated]
<1>1. IsFiniteSet(Consents)
  BY DispatchAssumption, FS_Interval DEF Consents
<1>2. number \in Surjection(Consents, numbers)
  BY DEF Surjection
<1>3. IsFiniteSet(numbers)
  <2> HIDE DEF numbers, number
  <2>1. QED
    BY <1>1, <1>2, FS_Surjection
<1>4. numbers \subseteq Nat
  BY DEF TaskRecords
<1>5. numbers # {}
  OBVIOUS
<1> HIDE DEF numbers
<1>6. numbers \subseteq Int
  BY <1>4
<1>7. Max(numbers) \in numbers
  BY <1>3, <1>5, <1>6, GreatestMember
<1>8. QED
  BY <1>4, <1>7 DEF numbers

LEMMA IdleStates ==
  /\ IdleCaller \in CallerStates /\ IdleCaller.pc = "idle"
  /\ IdleReconciler \in ReconcilerStates /\ IdleReconciler.pc = "idle"
  /\ IdleReceiver \in ReceiverStates /\ IdleReceiver.pc = "idle"
BY AnswersExist, NoTaskTyped
DEF IdleCaller, CallerStates, CallerSteps, IdleReconciler, ReconcilerStates, IdleReceiver,
    ReceiverStates

LEMMA StateAt ==
  ASSUME NEW step \in CallerSteps, NEW k \in Consents
  PROVE  /\ At(step, k) \in CallerStates
         /\ At(step, k).pc = step /\ At(step, k).consent = k
         /\ ~At(step, k).sent
BY AnswersExist, NoTaskTyped DEF At, IdleCaller, CallerStates, CallerSteps

LEMMA StateHolding ==
  ASSUME NEW step \in {"ask", "verify", "result"}, NEW k \in Consents, NEW r \in Nat
  PROVE  /\ Holding(step, k, r) \in ReceiverStates
         /\ Holding(step, k, r).pc = step /\ Holding(step, k, r).consent = k
         /\ Holding(step, k, r).receipt = r
BY DEF Holding, IdleReceiver, ReceiverStates

-----------------------------------------------------------------------------
(* What the steps of others leave to a thread.                             *)

\* What no step takes back.
Kept ==
    \A k \in Consents :
      /\ operation[k].status = "accepted" => operation'[k].status = "accepted"
      /\ request[k].sent => request'[k].sent
      /\ material[k].status # "none" => material'[k].status # "none"
      /\ material[k].linked => material'[k].linked
      /\ provider[k] \in Routed => provider'[k] = provider[k]

\* A reservation that is neither given back nor becomes an unknown outcome's.
HoldKept(k) ==
    /\ request[k].reserved => request'[k].reserved
    /\ task'[k].status = "unknown" => task[k].status = "unknown"

HoldsFor(state, k) == state.pc \in Holders /\ state.consent = k

\* A caller that does not move stays right.
LEMMA CallerStays ==
  ASSUME TypeInv, NEW c \in Callers, CallerOK(c), caller'[c] = caller[c], Kept,
         \A k \in Consents :
           HoldsFor(caller[c], k) => HoldKept(k) \/ operation'[k].status = "accepted"
  PROVE  CallerOK(c)'
<1> DEFINE t == caller[c]
           k == caller[c].consent
<1>1. CASE t.pc = "idle"
  BY <1>1 DEF CallerOK, Holders
<1>2. CASE t.pc # "idle"
  <2>1. k \in Consents
    BY <1>2 DEF CallerOK
  <2>2. t.pc \in Holders /\ operation'[k].status # "accepted" =>
          /\ request'[k].reserved
          /\ task'[k].status = "unknown" => t.pc = "item" /\ Classified(t.task, t.answer) = "unknown"
    BY <2>1 DEF CallerOK, Kept, HoldKept, HoldsFor
  <2>3. QED
    BY <2>1, <2>2 DEF CallerOK, Kept
<1>3. QED
  BY <1>1, <1>2

\* One caller moves: as far as the others go it is enough that it takes
\* nothing back but its own reservation.
LEMMA CallersStay ==
  ASSUME TypeInv, CallersInv, NEW c \in Callers, Kept,
         \A d \in Callers \ {c} : caller'[d] = caller[d],
         \A k \in Consents :
           HoldKept(k) \/ operation'[k].status = "accepted" \/ HoldsFor(caller[c], k),
         CallerOK(c)',
         \A k \in Consents : HoldsFor(caller'[c], k) =>
           \/ HoldsFor(caller[c], k) \/ operation'[k].status = "accepted"
           \/ \A d \in Callers \ {c} : ~HoldsFor(caller[d], k)
  PROVE  CallersInv'
<1>1. ASSUME NEW d \in Callers \ {c}
      PROVE  CallerOK(d)'
  <2>1. CallerOK(d)
    BY DEF CallersInv
  <2>2. \A k \in Consents :
          HoldsFor(caller[d], k) => HoldKept(k) \/ operation'[k].status = "accepted"
    BY DEF CallersInv, OneHolder, HoldsFor, Kept
  <2>3. QED
    BY <2>1, <2>2, CallerStays
<1>2. OneHolder'
  <2>1. SUFFICES ASSUME NEW a \in Callers, NEW b \in Callers, NEW k,
                        HoldsFor(caller'[a], k), HoldsFor(caller'[b], k),
                        operation'[k].status # "accepted"
                 PROVE  a = b
    BY DEF OneHolder, HoldsFor
  <2>2. k \in Consents
    BY <1>1, <2>1 DEF CallerOK, HoldsFor, Holders
  <2>3. operation[k].status # "accepted"
    BY <2>1, <2>2 DEF Kept
  <2>4. HoldsFor(caller[a], k) /\ HoldsFor(caller[b], k) => a = b
    BY <2>3 DEF CallersInv, OneHolder, HoldsFor
  <2>5. QED
    BY <2>1, <2>2, <2>4
<1>3. QED
  BY <1>1, <1>2 DEF CallersInv

\* No caller moves.
LEMMA CallersUnmoved ==
  ASSUME TypeInv, CallersInv, Kept, caller' = caller,
         \A k \in Consents : HoldKept(k) \/ operation'[k].status = "accepted"
  PROVE  CallersInv'
<1>1. \A c \in Callers : CallerOK(c)'
  BY CallerStays DEF CallersInv
<1>2. OneHolder'
  BY DEF CallersInv, OneHolder, Kept, CallerOK, Holders
<1>3. QED
  BY <1>1, <1>2 DEF CallersInv

\* Reconcilers and receivers that do not move.
LEMMA ReconcilersStay ==
  ASSUME TypeInv, \A q \in Reconcilers : ReconcilerOK(q), Kept, reconciler' = reconciler,
         \/ claim' = claim
         \/ claim'.revision = claim.revision + 1
  PROVE  \A q \in Reconcilers : ReconcilerOK(q)'
<1>1. SUFFICES ASSUME NEW q \in Reconcilers
               PROVE  ReconcilerOK(q)'
  OBVIOUS
<1>2. reconciler[q].revision \in Nat /\ claim.revision \in Nat
  BY DEF TypeInv, RecordTypes, ThreadTypes, ReconcilerStates
<1>3. reconciler[q].pc = "settle" => reconciler[q].consent \in Consents
  BY DEF ReconcilerOK
<1>4. QED
  BY <1>2, <1>3 DEF ReconcilerOK, Kept

LEMMA ReceiversStay ==
  ASSUME \A p \in Receivers : ReceiverOK(p), receiver' = receiver, returned' = returned,
         claim'.routing = claim.routing
  PROVE  \A p \in Receivers : ReceiverOK(p)'
BY DEF ReceiverOK

-----------------------------------------------------------------------------
(* The steps of the claimant.                                              *)

\* A step that moves no thread and writes nothing but the Claim's revision
\* and permissions.
LEMMA ClaimMoves ==
  ASSUME IInv,
         claim' \in [revision : Nat, routing : Consents \cup {0}, bound : BOOLEAN],
         claim'.routing = claim.routing,
         claim' = claim \/ claim'.revision = claim.revision + 1,
         consents' \in [Consents -> {"none", "granted", "withdrawn"}],
         withdrawal' \in Consents \cup {0},
         UNCHANGED <<operation, task, request, material, result, world, caller, reconciler,
                     receiver>>
  PROVE  IInv'
<1> USE DEF world
<1>1. TypeInv'
  BY DEF IInv, TypeInv, RecordTypes, ThreadTypes
<1>2. Kept /\ \A k \in Consents : HoldKept(k)
  BY DEF Kept, HoldKept
<1>3. CallersInv'
  BY <1>2, CallersUnmoved DEF IInv, ThreadsInv
<1>4. \A q \in Reconcilers : ReconcilerOK(q)'
  BY <1>2, ReconcilersStay DEF IInv, ThreadsInv
<1>5. \A p \in Receivers : ReceiverOK(p)'
  BY ReceiversStay DEF IInv, ThreadsInv
<1>6. StoreInv' /\ ReportInv'
  BY DEF IInv, StoreInv, ReportInv
<1>7. QED
  BY <1>1, <1>3, <1>4, <1>5, <1>6 DEF IInv, ThreadsInv

LEMMA ClaimantSteps ==
  ASSUME IInv, \/ \E k \in Consents : Grant(k) \/ CheckWithdrawal(k)
               \/ Withdraw \/ ChangeClaim
  PROVE  IInv'
<1> USE DEF records
<1>0. /\ claim \in [revision : Nat, routing : Consents \cup {0}, bound : BOOLEAN]
      /\ consents \in [Consents -> {"none", "granted", "withdrawn"}]
      /\ withdrawal \in Consents \cup {0}
  BY DEF IInv, TypeInv, RecordTypes
<1> DEFINE moved == [claim EXCEPT !.revision = @ + 1]
<1>1. /\ moved \in [revision : Nat, routing : Consents \cup {0}, bound : BOOLEAN]
      /\ moved.routing = claim.routing /\ moved.revision = claim.revision + 1
  BY <1>0
<1>2. ASSUME NEW k \in Consents, Grant(k)
      PROVE  IInv'
  <2>1. /\ claim' = moved
        /\ consents' \in [Consents -> {"none", "granted", "withdrawn"}]
        /\ withdrawal' \in Consents \cup {0}
        /\ UNCHANGED <<records, world, caller, reconciler, receiver>>
    BY <1>0, <1>2 DEF Grant, CheckedAnew
  <2> HIDE DEF moved
  <2>2. QED
    BY <1>1, <2>1, ClaimMoves
<1>3. ASSUME NEW k \in Consents, CheckWithdrawal(k)
      PROVE  IInv'
  <2>1. /\ claim' = claim /\ consents' = consents /\ withdrawal' \in Consents \cup {0}
        /\ UNCHANGED <<records, world, caller, reconciler, receiver>>
    BY <1>3 DEF CheckWithdrawal
  <2>2. QED
    BY <1>0, <2>1, ClaimMoves
<1>4. CASE Withdraw
  <2>1. /\ claim' = moved
        /\ consents' \in [Consents -> {"none", "granted", "withdrawn"}]
        /\ withdrawal' \in Consents \cup {0}
        /\ UNCHANGED <<records, world, caller, reconciler, receiver>>
    BY <1>0, <1>4 DEF Withdraw
  <2> HIDE DEF moved
  <2>2. QED
    BY <1>1, <2>1, ClaimMoves
<1>5. CASE ChangeClaim
  <2>1. /\ claim' = moved /\ consents' = consents
        /\ withdrawal' \in Consents \cup {0}
        /\ UNCHANGED <<records, world, caller, reconciler, receiver>>
    BY <1>0, <1>5 DEF ChangeClaim, CheckedAnew
  <2> HIDE DEF moved
  <2>2. QED
    BY <1>0, <1>1, <2>1, ClaimMoves
<1>6. QED
  BY <1>2, <1>3, <1>4, <1>5

-----------------------------------------------------------------------------
(* The steps of a caller.                                                  *)

\* A caller's step that changes neither the Claim nor the report.
LEMMA CallerMoves ==
  ASSUME IInv, NEW c \in Callers, NEW state \in CallerStates,
         caller' = [caller EXCEPT ![c] = state],
         UNCHANGED <<claim, consents, withdrawal, result, returned, reconciler, receiver>>,
         RecordTypes', Kept, StoreInv', ReportInv',
         \A k \in Consents :
           HoldKept(k) \/ operation'[k].status = "accepted" \/ HoldsFor(caller[c], k),
         CallerOK(c)',
         \A k \in Consents : HoldsFor(state, k) =>
           \/ HoldsFor(caller[c], k) \/ operation'[k].status = "accepted"
           \/ \A d \in Callers \ {c} : ~HoldsFor(caller[d], k)
  PROVE  IInv'
<1>1. caller'[c] = state /\ \A d \in Callers \ {c} : caller'[d] = caller[d]
  BY DEF IInv, TypeInv, ThreadTypes
<1>2. TypeInv'
  BY DEF IInv, TypeInv, ThreadTypes
<1>3. CallersInv'
  BY <1>1, CallersStay DEF IInv, ThreadsInv
<1>4. \A q \in Reconcilers : ReconcilerOK(q)'
  BY ReconcilersStay DEF IInv, ThreadsInv
<1>5. \A p \in Receivers : ReceiverOK(p)'
  BY ReceiversStay DEF IInv, ThreadsInv
<1>6. QED
  BY <1>2, <1>3, <1>4, <1>5 DEF IInv, ThreadsInv

\* One that writes nothing that the invariant is about.
LEMMA CallerAlone ==
  ASSUME IInv, NEW c \in Callers, NEW state \in CallerStates,
         caller' = [caller EXCEPT ![c] = state],
         UNCHANGED <<claim, consents, withdrawal, operation, task, request, material, result,
                     world, reconciler, receiver>>,
         CallerOK(c)',
         \A k \in Consents : HoldsFor(state, k) => HoldsFor(caller[c], k)
  PROVE  IInv'
<1> USE DEF world
<1>1. RecordTypes' /\ StoreInv' /\ ReportInv'
  BY DEF IInv, TypeInv, RecordTypes, StoreInv, ReportInv
<1>2. Kept /\ \A k \in Consents : HoldKept(k)
  BY DEF Kept, HoldKept
<1>3. QED
  BY <1>1, <1>2, CallerMoves

LEMMA CallerStops ==
  ASSUME IInv, NEW c \in Callers, Stop(c),
         UNCHANGED <<claim, consents, withdrawal, operation, task, request, material, result,
                     world, reconciler, receiver>>
  PROVE  IInv'
<1>1. CallerOK(c)'
  BY IdleStates DEF CallerOK, Stop, Holders, IInv, TypeInv, ThreadTypes
<1>2. \A k \in Consents : ~HoldsFor(IdleCaller, k)
  BY IdleStates DEF HoldsFor, Holders
<1>3. QED
  BY <1>1, <1>2, IdleStates, CallerAlone DEF Stop

\* What is known of a caller that is not idle.
LEMMA CallerFacts ==
  ASSUME IInv, NEW c \in Callers, caller[c].pc # "idle"
  PROVE  /\ caller[c] \in CallerStates /\ caller[c].consent \in Consents /\ CallerOK(c)
         /\ RecordTypes /\ StoreInv /\ ReportInv
         /\ \A step \in CallerSteps :
              /\ [caller[c] EXCEPT !.pc = step] \in CallerStates
              /\ [caller[c] EXCEPT !.pc = step].pc = step
              /\ [caller[c] EXCEPT !.pc = step].consent = caller[c].consent
              /\ [caller[c] EXCEPT !.pc = step].task = caller[c].task
              /\ [caller[c] EXCEPT !.pc = step].sent = caller[c].sent
              /\ [caller[c] EXCEPT !.pc = step].answer = caller[c].answer
<1>1. caller[c] \in CallerStates /\ CallerOK(c) /\ RecordTypes /\ StoreInv /\ ReportInv
  BY DEF IInv, TypeInv, ThreadTypes, ThreadsInv, CallersInv
<1>2. caller[c].consent \in Consents
  BY <1>1 DEF CallerOK
<1>3. QED
  BY <1>1, <1>2 DEF CallerStates

LEMMA RouteStep ==
  ASSUME IInv, NEW c \in Callers, NEW k \in Consents, Route(c, k)
  PROVE  IInv'
<1>0. /\ claim \in [revision : Nat, routing : Consents \cup {0}, bound : BOOLEAN]
      /\ consents \in [Consents -> {"none", "granted", "withdrawn"}]
      /\ withdrawal \in Consents \cup {0}
      /\ caller \in [Callers -> CallerStates]
  BY DEF IInv, TypeInv, RecordTypes, ThreadTypes
<1> DEFINE start == [IdleCaller EXCEPT !.consent = k, !.revision = claim.revision]
<1>1. CASE UNCHANGED caller
  BY <1>0, <1>1, ClaimMoves DEF Route
<1>2. CASE /\ operation[k].status = "accepted"
           /\ caller' = [caller EXCEPT ![c] = [At("material", k) EXCEPT !.answer = Replay]]
  <2> DEFINE state == [At("material", k) EXCEPT !.answer = Replay]
  <2>1. state \in CallerStates /\ state.pc = "material" /\ state.consent = k
    BY StateAt, AnswersExist DEF CallerStates, CallerSteps
  <2>2. caller' = [caller EXCEPT ![c] = state] /\ caller'[c] = state
    BY <1>0, <1>2
  <2> HIDE DEF state
  <2>3. CallerOK(c)'
    BY <1>2, <2>1, <2>2 DEF CallerOK, Route, Holders
  <2>4. \A j \in Consents : ~HoldsFor(state, j)
    BY <2>1 DEF HoldsFor, Holders
  <2>5. QED
    BY <2>1, <2>2, <2>3, <2>4, CallerAlone DEF Route
<1>3. ASSUME NEW step \in {"prepare", "task"},
             caller' = [caller EXCEPT ![c] = [start EXCEPT !.pc = step]]
      PROVE  IInv'
  <2> DEFINE state == [start EXCEPT !.pc = step]
  <2>1. state \in CallerStates /\ state.pc = step /\ state.consent = k
    BY <1>0, IdleStates DEF CallerStates, CallerSteps
  <2>2. caller' = [caller EXCEPT ![c] = state] /\ caller'[c] = state
    BY <1>0, <1>3
  <2> HIDE DEF state
  <2>3. CallerOK(c)'
    BY <1>3, <2>1, <2>2 DEF CallerOK, Holders
  <2>4. \A j \in Consents : ~HoldsFor(state, j)
    BY <2>1 DEF HoldsFor, Holders
  <2>5. QED
    BY <2>1, <2>2, <2>3, <2>4, CallerAlone DEF Route
<1>4. QED
  BY <1>1, <1>2, <1>3 DEF Route

LEMMA PrepareStep ==
  ASSUME IInv, NEW c \in Callers, Prepare(c)
  PROVE  IInv'
<1> DEFINE k == caller[c].consent
           state == [caller[c] EXCEPT !.pc = "task"]
<1>0. caller[c].pc = "prepare" /\ caller[c].pc # "idle"
  BY DEF Prepare
<1>1. /\ k \in Consents /\ RecordTypes /\ StoreInv /\ ReportInv
      /\ caller \in [Callers -> CallerStates]
      /\ state \in CallerStates /\ state.pc = "task" /\ state.consent = k
  BY <1>0, CallerFacts DEF IInv, TypeInv, ThreadTypes, CallerSteps
<1>2. CASE Stop(c) /\ UNCHANGED operation
  BY <1>2, CallerStops DEF Prepare
<1>3. CASE /\ operation[k].status = "none"
           /\ operation' = [operation EXCEPT ![k] =
                 [status |-> "prepared", revision |-> claim.revision, result |-> "none"]]
           /\ Go(c, "task")
  <2>1. caller' = [caller EXCEPT ![c] = state] /\ caller'[c] = state
    BY <1>1, <1>3 DEF Go
  <2>2. /\ \A j \in Consents : j # k => operation'[j] = operation[j]
        /\ operation'[k].status = "prepared"
    BY <1>1, <1>3 DEF RecordTypes
  <2>3. RecordTypes'
    <3>1. [status |-> "prepared", revision |-> claim.revision, result |-> "none"]
             \in [status : Statuses, revision : Nat, result : Routed \cup {"none"}]
      BY <1>1 DEF RecordTypes, Statuses
    <3>2. operation' \in [Consents -> [status : Statuses, revision : Nat,
                                       result : Routed \cup {"none"}]]
      BY <1>1, <1>3, <3>1 DEF RecordTypes
    <3>3. QED
      BY <1>1, <3>2 DEF RecordTypes, Prepare, world
  <2>4. Kept /\ \A j \in Consents : HoldKept(j)
    BY <1>3, <2>2 DEF Kept, HoldKept, Prepare, world
  <2>5. StoreInv' /\ ReportInv'
    BY <1>1, <1>3, <2>2 DEF StoreInv, ReportInv, Prepare, world, RecordTypes
  <2> HIDE DEF state
  <2>6. CallerOK(c)'
    BY <1>1, <2>1 DEF CallerOK, Holders
  <2>7. \A j \in Consents : ~HoldsFor(state, j)
    BY <1>1 DEF HoldsFor, Holders
  <2>8. UNCHANGED <<claim, consents, withdrawal, result, returned, reconciler, receiver>>
    BY DEF Prepare, world
  <2>9. QED
    BY <1>1, <2>1, <2>3, <2>4, <2>5, <2>6, <2>7, <2>8, CallerMoves
<1>4. QED
  BY <1>2, <1>3 DEF Prepare

LEMMA PrepareTaskStep ==
  ASSUME IInv, NEW c \in Callers, PrepareTask(c)
  PROVE  IInv'
<1> DEFINE k == caller[c].consent
           held == IF task[k].status = "none" THEN [task[k] EXCEPT !.status = "prepared"]
                                              ELSE task[k]
           state == [caller[c] EXCEPT !.pc = "request", !.task = held]
<1>0. caller[c].pc = "task" /\ caller[c].pc # "idle"
  BY DEF PrepareTask
<1>1. /\ k \in Consents /\ RecordTypes /\ StoreInv /\ ReportInv
      /\ caller \in [Callers -> CallerStates] /\ caller[c] \in CallerStates
  BY <1>0, CallerFacts DEF IInv, TypeInv, ThreadTypes
<1>2. /\ held \in TaskRecords
      /\ held.status = IF task[k].status = "none" THEN "prepared" ELSE task[k].status
  <2>1. task[k] \in [status : Statuses, submitted : BOOLEAN, updated : Nat]
    BY <1>1 DEF RecordTypes, TaskRecords
  <2>2. "prepared" \in Statuses
    BY DEF Statuses
  <2>3. QED
    BY <2>1, <2>2 DEF TaskRecords
<1>3. /\ task' = [task EXCEPT ![k] = held]
      /\ caller' = [caller EXCEPT ![c] = [caller[c] EXCEPT !.pc = "request", !.task = held]]
      /\ UNCHANGED <<claim, consents, withdrawal, operation, request, material, result,
                     world, reconciler, receiver>>
  BY DEF PrepareTask
<1> HIDE DEF held
<1>4. state \in CallerStates /\ state.pc = "request" /\ state.consent = k
  BY <1>1, <1>2 DEF CallerStates, CallerSteps
<1> HIDE DEF state
<1>5. caller' = [caller EXCEPT ![c] = state] /\ caller'[c] = state
  BY <1>1, <1>3 DEF state
<1>6. task'[k] = held /\ \A j \in Consents : j # k => task'[j] = task[j]
  BY <1>1, <1>3 DEF RecordTypes
<1>7. RecordTypes'
  BY <1>1, <1>2, <1>3 DEF RecordTypes, world
<1>8. Kept /\ \A j \in Consents : HoldKept(j)
  BY <1>1, <1>2, <1>3, <1>6 DEF Kept, HoldKept, world
<1>9. StoreInv' /\ ReportInv'
  BY <1>1, <1>2, <1>3, <1>6 DEF StoreInv, ReportInv, world
<1>10. CallerOK(c)' /\ \A j \in Consents : ~HoldsFor(state, j)
  BY <1>1, <1>4, <1>5 DEF CallerOK, Holders, HoldsFor
<1>11. QED
  BY <1>3, <1>4, <1>5, <1>7, <1>8, <1>9, <1>10, CallerMoves DEF world

\* A write to the request of the caller's permission that keeps its send.
LEMMA RequestWritten ==
  ASSUME IInv, NEW c \in Callers, caller[c].pc # "idle", NEW r \in RequestType,
         request' = [request EXCEPT ![caller[c].consent] = r],
         request[caller[c].consent].sent => r.sent,
         request[caller[c].consent].reserved => r.reserved,
         UNCHANGED <<claim, consents, withdrawal, operation, task, material, result, world>>
  PROVE  /\ RecordTypes' /\ Kept /\ StoreInv' /\ ReportInv'
         /\ request'[caller[c].consent] = r
         /\ \A k \in Consents : HoldKept(k)
<1> DEFINE k == caller[c].consent
<1>1. k \in Consents /\ RecordTypes /\ StoreInv /\ ReportInv
  BY CallerFacts
<1>2. request'[k] = r /\ \A j \in Consents : j # k => request'[j] = request[j]
  BY <1>1 DEF RecordTypes
<1>3. RecordTypes'
  BY <1>1 DEF RecordTypes, world
<1>4. Kept /\ \A j \in Consents : HoldKept(j)
  BY <1>1, <1>2 DEF Kept, HoldKept, world
<1>5. StoreInv' /\ ReportInv'
  BY <1>1, <1>2 DEF StoreInv, ReportInv, world
<1>6. QED
  BY <1>2, <1>3, <1>4, <1>5

LEMMA PrepareRequestStep ==
  ASSUME IInv, NEW c \in Callers, PrepareRequest(c)
  PROVE  IInv'
<1> DEFINE k == caller[c].consent
           state == [caller[c] EXCEPT !.pc = "reserve"]
           r == [request[k] EXCEPT !.stored = TRUE]
<1>0. caller[c].pc = "request" /\ caller[c].pc # "idle"
  BY DEF PrepareRequest
<1>1. /\ k \in Consents /\ RecordTypes /\ request[k] \in RequestType
      /\ caller \in [Callers -> CallerStates]
      /\ state \in CallerStates /\ state.pc = "reserve" /\ state.consent = k
  BY <1>0, CallerFacts DEF IInv, TypeInv, ThreadTypes, RecordTypes, CallerSteps
<1>2. CASE Stop(c) /\ UNCHANGED request
  BY <1>2, CallerStops DEF PrepareRequest
<1>3. CASE request' = [request EXCEPT ![k].stored = TRUE] /\ Go(c, "reserve")
  <2>1. caller' = [caller EXCEPT ![c] = state] /\ caller'[c] = state
    BY <1>1, <1>3 DEF Go
  <2>2. /\ r \in RequestType /\ r.sent = request[k].sent /\ r.reserved = request[k].reserved
        /\ request' = [request EXCEPT ![k] = r]
    BY <1>1, <1>3 DEF RecordTypes, RequestType
  <2> HIDE DEF r, state
  <2>3. UNCHANGED <<claim, consents, withdrawal, operation, task, material, result, world,
                    reconciler, receiver>>
    BY DEF PrepareRequest
  <2>4. /\ RecordTypes' /\ Kept /\ StoreInv' /\ ReportInv'
        /\ \A j \in Consents : HoldKept(j)
    BY <1>0, <2>2, <2>3, RequestWritten
  <2>5. CallerOK(c)' /\ \A j \in Consents : ~HoldsFor(state, j)
    BY <1>1, <2>1 DEF CallerOK, Holders, HoldsFor
  <2>6. QED
    BY <1>1, <2>1, <2>3, <2>4, <2>5, CallerMoves DEF world
<1>4. QED
  BY <1>2, <1>3 DEF PrepareRequest

\* The reservation is free: nobody holds it while the operation is open.
LEMMA ReserveStep ==
  ASSUME IInv, NEW c \in Callers, Reserve(c)
  PROVE  IInv'
<1> DEFINE k == caller[c].consent
           state == [caller[c] EXCEPT !.pc = "call", !.sent = request[k].sent]
           r == [request[k] EXCEPT !.reserved = TRUE, !.named = TRUE]
<1>0. caller[c].pc = "reserve" /\ caller[c].pc # "idle"
  BY DEF Reserve
<1>1. /\ k \in Consents /\ RecordTypes /\ StoreInv /\ CallersInv
      /\ caller \in [Callers -> CallerStates] /\ caller[c] \in CallerStates
      /\ request[k] \in RequestType
  BY <1>0, CallerFacts DEF IInv, TypeInv, ThreadTypes, ThreadsInv, RecordTypes
<1>2. CASE Stop(c) /\ UNCHANGED request
  BY <1>2, CallerStops DEF Reserve
<1>3. CASE /\ ~request[k].reserved
           /\ request' = [request EXCEPT ![k].reserved = TRUE, ![k].named = TRUE]
           /\ caller' = [caller EXCEPT ![c].pc = "call", ![c].sent = request[k].sent]
  <2>1. /\ state \in CallerStates /\ state.pc = "call" /\ state.consent = k
        /\ state.sent = request[k].sent
        /\ caller' = [caller EXCEPT ![c] = state] /\ caller'[c] = state
    BY <1>1, <1>3 DEF CallerStates, CallerSteps, RequestType
  <2>2. /\ r \in RequestType /\ r.sent = request[k].sent /\ r.reserved
        /\ request' = [request EXCEPT ![k] = r]
    BY <1>1, <1>3 DEF RecordTypes, RequestType
  <2> HIDE DEF r, state
  <2>3. UNCHANGED <<claim, consents, withdrawal, operation, task, material, result, world,
                    reconciler, receiver>>
    BY DEF Reserve
  <2>4. /\ RecordTypes' /\ Kept /\ StoreInv' /\ ReportInv'
        /\ request'[k] = r
        /\ \A j \in Consents : HoldKept(j)
    BY <1>0, <2>2, <2>3, RequestWritten
  <2>5. task[k].status # "unknown"
    BY <1>1, <1>3 DEF StoreInv
  <2>6. CallerOK(c)'
    BY <1>1, <2>1, <2>2, <2>3, <2>4, <2>5 DEF CallerOK, Holders
  <2>7. operation[k].status # "accepted" => \A d \in Callers : ~HoldsFor(caller[d], k)
    BY <1>1, <1>3 DEF CallersInv, CallerOK, HoldsFor
  <2>8. \A j \in Consents : HoldsFor(state, j) =>
           operation'[j].status = "accepted" \/ \A d \in Callers \ {c} : ~HoldsFor(caller[d], j)
    BY <2>1, <2>3, <2>7 DEF HoldsFor
  <2>9. QED
    BY <1>1, <2>1, <2>3, <2>4, <2>6, <2>8, CallerMoves DEF world
<1>4. QED
  BY <1>2, <1>3 DEF Reserve

\* What the provider holds of a request it does not take back, and a routing
\* it answers is the one it holds.
LEMMA ProviderKeeps ==
  ASSUME RecordTypes, NEW k \in Consents, NEW answer \in Answers, Provides(k, answer)
  PROVE  /\ provider' \in [Consents -> Routed \cup {"none", "refused"}]
         /\ \A j \in Consents : provider[j] \in Routed => provider'[j] = provider[j]
         /\ answer.code \in Routed => provider'[k] = answer.code
<1>1. provider \in [Consents -> Routed \cup {"none", "refused"}]
  BY DEF RecordTypes
<1>2. CASE answer.code \in Routed
  <2>1. provider[k] \in {"none", answer.code} /\ provider' = [provider EXCEPT ![k] = answer.code]
    BY <1>2 DEF Provides, Routed
  <2>2. QED
    BY <1>1, <1>2, <2>1 DEF Routed
<1>3. CASE answer.code = "timeout" /\ answer.submitted
  <2>1. PICK left \in IF provider[k] = "none" THEN {"none"} \cup Routed ELSE {provider[k]} :
                provider' = [provider EXCEPT ![k] = left]
    BY <1>3 DEF Provides, Routed
  <2>2. QED
    BY <1>1, <1>3, <2>1 DEF Routed
<1>4. CASE answer.code = "malformed" /\ answer.submitted
  <2>1. provider' = [provider EXCEPT ![k] = IF provider[k] = "none" THEN "refused" ELSE provider[k]]
    BY <1>4 DEF Provides, Routed
  <2>2. QED
    BY <1>1, <1>4, <2>1 DEF Routed
<1>5. CASE /\ answer.code \notin Routed
           /\ ~(answer.code = "timeout" /\ answer.submitted)
           /\ ~(answer.code = "malformed" /\ answer.submitted)
  <2>1. provider' = provider
    BY <1>5 DEF Provides
  <2>2. QED
    BY <1>1, <1>5, <2>1
<1>6. QED
  BY <1>2, <1>3, <1>4, <1>5

LEMMA CallStep ==
  ASSUME IInv, NEW c \in Callers, Call(c)
  PROVE  IInv'
<1> DEFINE k == caller[c].consent
<1>0. caller[c].pc = "call" /\ caller[c].pc # "idle"
  BY DEF Call
<1>1. /\ k \in Consents /\ RecordTypes /\ StoreInv /\ ReportInv /\ CallerOK(c)
      /\ caller \in [Callers -> CallerStates] /\ caller[c] \in CallerStates
  BY <1>0, CallerFacts DEF IInv, TypeInv, ThreadTypes
<1>2. PICK answer \in Answers \ {NoAnswer, Replay} :
          /\ Provides(k, answer)
          /\ caller' = [caller EXCEPT ![c].pc = "send", ![c].answer = answer]
  BY DEF Call
<1> DEFINE state == [caller[c] EXCEPT !.pc = "send", !.answer = answer]
<1>3. /\ state \in CallerStates /\ state.pc = "send" /\ state.consent = k
      /\ state.sent = caller[c].sent /\ state.answer = answer
      /\ caller' = [caller EXCEPT ![c] = state] /\ caller'[c] = state
  BY <1>1, <1>2 DEF CallerStates, CallerSteps
<1> HIDE DEF state
<1>4. UNCHANGED <<claim, consents, withdrawal, operation, task, request, material, result,
                  returned, reconciler, receiver>>
  BY DEF Call, records
<1>5. /\ provider' \in [Consents -> Routed \cup {"none", "refused"}]
      /\ \A j \in Consents : provider[j] \in Routed => provider'[j] = provider[j]
      /\ answer.code \in Routed => provider'[k] = answer.code
  BY <1>1, <1>2, ProviderKeeps
<1>6. RecordTypes'
  BY <1>1, <1>4, <1>5 DEF RecordTypes
<1>7. Kept /\ \A j \in Consents : HoldKept(j)
  BY <1>4, <1>5 DEF Kept, HoldKept
<1>8. StoreInv' /\ ReportInv'
  BY <1>1, <1>4, <1>5 DEF StoreInv, ReportInv
<1>9. CallerOK(c)'
  BY <1>0, <1>1, <1>3, <1>4, <1>5 DEF CallerOK, Holders
<1>10. \A j \in Consents : HoldsFor(state, j) => HoldsFor(caller[c], j)
  BY <1>0, <1>3 DEF HoldsFor, Holders
<1>11. QED
  BY <1>3, <1>4, <1>6, <1>7, <1>8, <1>9, <1>10, CallerMoves

LEMMA RecordSendStep ==
  ASSUME IInv, NEW c \in Callers, RecordSend(c)
  PROVE  IInv'
<1> DEFINE k == caller[c].consent
           state == [caller[c] EXCEPT !.pc = "settle"]
           r == [request[k] EXCEPT !.sent = TRUE, !.reserved = TRUE]
<1>0. caller[c].pc = "send" /\ caller[c].pc # "idle"
  BY DEF RecordSend
<1>1. /\ k \in Consents /\ RecordTypes /\ request[k] \in RequestType /\ CallerOK(c)
      /\ caller \in [Callers -> CallerStates]
      /\ state \in CallerStates /\ state.pc = "settle" /\ state.consent = k
      /\ state.answer = caller[c].answer
  BY <1>0, CallerFacts DEF IInv, TypeInv, ThreadTypes, RecordTypes, CallerSteps
<1>2. UNCHANGED <<claim, consents, withdrawal, operation, task, material, result, world,
                  reconciler, receiver>>
  BY DEF RecordSend
<1>3. CASE Stop(c) /\ UNCHANGED request
  BY <1>2, <1>3, CallerStops
<1>4. \A j \in Consents : HoldsFor(state, j) => HoldsFor(caller[c], j)
  BY <1>0, <1>1 DEF HoldsFor, Holders
<1>5. CASE caller[c].sent /\ UNCHANGED request /\ Go(c, "settle")
  <2>1. caller' = [caller EXCEPT ![c] = state] /\ caller'[c] = state
    BY <1>1, <1>5 DEF Go
  <2> HIDE DEF state
  <2>2. CallerOK(c)'
    BY <1>0, <1>1, <1>2, <1>5, <2>1 DEF CallerOK, Holders, world
  <2>3. QED
    BY <1>1, <1>2, <1>4, <1>5, <2>1, <2>2, CallerAlone
<1>6. CASE /\ request' = [request EXCEPT ![k].sent = TRUE, ![k].reserved = TRUE]
           /\ Go(c, "settle")
  <2>1. caller' = [caller EXCEPT ![c] = state] /\ caller'[c] = state
    BY <1>1, <1>6 DEF Go
  <2>2. /\ r \in RequestType /\ r.sent /\ r.reserved
        /\ request' = [request EXCEPT ![k] = r]
    BY <1>1, <1>6 DEF RecordTypes, RequestType
  <2> HIDE DEF r, state
  <2>3. /\ RecordTypes' /\ Kept /\ StoreInv' /\ ReportInv'
        /\ request'[k] = r
        /\ \A j \in Consents : HoldKept(j)
    BY <1>0, <1>2, <2>2, RequestWritten
  <2>4. CallerOK(c)'
    BY <1>0, <1>1, <1>2, <2>1, <2>2, <2>3 DEF CallerOK, Holders, world
  <2>5. QED
    BY <1>1, <1>2, <1>4, <2>1, <2>3, <2>4, CallerMoves DEF world
<1>7. QED
  BY <1>3, <1>5, <1>6 DEF RecordSend

\* A settlement writes operation and task of one permission.
LEMMA SettlementWrites ==
  ASSUME RecordTypes, NEW k \in Consents, NEW status \in Statuses, NEW submitted \in BOOLEAN,
         NEW routing \in Routed \cup {"none"}, Settlement(k, status, submitted, routing)
  PROVE  /\ operation' \in [Consents -> [status : Statuses, revision : Nat,
                                         result : Routed \cup {"none"}]]
         /\ task' \in [Consents -> TaskRecords]
         /\ operation'[k].status = status /\ operation'[k].result = routing
         /\ task'[k].status = status
         /\ \A j \in Consents : j # k => operation'[j] = operation[j] /\ task'[j] = task[j]
<1> DEFINE latest == Max({task[j].updated : j \in Consents})
           settled == [status |-> status, submitted |-> submitted, updated |-> 1 + latest]
           o == [operation[k] EXCEPT !.status = status, !.result = routing]
<1>1. latest \in Nat
  BY LatestIsNumber DEF RecordTypes
<1>2. operation' = [operation EXCEPT ![k] = o] /\ task' = [task EXCEPT ![k] = settled]
  BY DEF Settlement, RecordTypes
<1> HIDE DEF latest
<1>3. settled \in TaskRecords /\ settled.status = status
  BY <1>1 DEF TaskRecords
<1>4. operation[k] \in [status : Statuses, revision : Nat, result : Routed \cup {"none"}]
  BY DEF RecordTypes
<1>5. /\ o \in [status : Statuses, revision : Nat, result : Routed \cup {"none"}]
      /\ o.status = status /\ o.result = routing
  BY <1>4
<1> HIDE DEF settled, o
<1>6. QED
  BY <1>2, <1>3, <1>5 DEF RecordTypes

LEMMA FailureClasses ==
  ASSUME NEW held, NEW answer
  PROVE  Classified(held, answer) \in {"terminal", "unknown", "retryable"}
BY DEF Classified

LEMMA SettleFailureStep ==
  ASSUME IInv, NEW c \in Callers, SettleFailure(c)
  PROVE  IInv'
<1> DEFINE k == caller[c].consent
           held == caller[c].task
           status == Classified(held, caller[c].answer)
           submitted == held.submitted \/ caller[c].answer.submitted
           state == IF status = "retryable" THEN At("release", k)
                                            ELSE [caller[c] EXCEPT !.pc = "item"]
<1>0. caller[c].pc = "settle" /\ caller[c].pc # "idle"
  BY DEF SettleFailure
<1>1. /\ k \in Consents /\ RecordTypes /\ StoreInv /\ ReportInv /\ CallerOK(c)
      /\ caller \in [Callers -> CallerStates] /\ caller[c] \in CallerStates
  BY <1>0, CallerFacts DEF IInv, TypeInv, ThreadTypes
<1>2. UNCHANGED <<claim, consents, withdrawal, request, material, result, world, reconciler,
                  receiver>>
  BY DEF SettleFailure
<1>3. CASE Stop(c) /\ UNCHANGED <<operation, task>>
  BY <1>2, <1>3, CallerStops
<1>4. CASE /\ ~Settled(k)
           /\ Settlement(k, status, submitted, "none")
           /\ IF status = "retryable" THEN caller' = [caller EXCEPT ![c] = At("release", k)]
                                      ELSE Go(c, "item")
  <2>1. status \in {"terminal", "unknown", "retryable"} /\ status \in Statuses
    BY FailureClasses DEF Statuses
  <2>2. submitted \in BOOLEAN
    OBVIOUS
  <2>3. caller' = [caller EXCEPT ![c] = state] /\ caller'[c] = state
    BY <1>1, <1>4 DEF Go
  <2>4. /\ At("release", k) \in CallerStates
        /\ At("release", k).pc = "release" /\ At("release", k).consent = k
    BY <1>1, StateAt DEF CallerSteps
  <2>5. /\ state \in CallerStates /\ state.consent = k
        /\ IF status = "retryable" THEN state.pc = "release"
             ELSE state.pc = "item" /\ state.task = held /\ state.answer = caller[c].answer
    <3>1. CASE status = "retryable"
      BY <2>4, <3>1
    <3>2. CASE status # "retryable"
      BY <1>1, <3>2 DEF CallerStates, CallerSteps
    <3>3. QED
      BY <3>1, <3>2
  <2> HIDE DEF status, state, submitted
  <2>6. /\ operation' \in [Consents -> [status : Statuses, revision : Nat,
                                        result : Routed \cup {"none"}]]
        /\ task' \in [Consents -> TaskRecords]
        /\ operation'[k].status = status /\ task'[k].status = status
        /\ \A j \in Consents : j # k => operation'[j] = operation[j] /\ task'[j] = task[j]
    BY <1>1, <1>4, <2>1, <2>2, SettlementWrites
  <2>7. operation[k].status # "accepted" /\ request[k].reserved
    BY <1>0, <1>1, <1>4 DEF CallerOK, Holders, Settled
  <2>8. RecordTypes'
    BY <1>1, <1>2, <2>6 DEF RecordTypes, world
  <2>9. Kept /\ \A j \in Consents : HoldKept(j) \/ HoldsFor(caller[c], j)
    BY <1>0, <1>2, <2>6, <2>7 DEF Kept, HoldKept, HoldsFor, Holders, world
  <2>10. StoreInv' /\ ReportInv'
    BY <1>1, <1>2, <2>1, <2>6, <2>7 DEF StoreInv, ReportInv, RecordTypes, world
  <2>11. CallerOK(c)'
    BY <1>1, <1>2, <2>1, <2>3, <2>5, <2>6, <2>7 DEF CallerOK, Holders, status
  <2>12. \A j \in Consents : HoldsFor(state, j) => HoldsFor(caller[c], j)
    BY <1>0, <2>5 DEF HoldsFor, Holders
  <2>13. QED
    BY <1>2, <2>3, <2>5, <2>8, <2>9, <2>10, <2>11, <2>12, CallerMoves DEF world
<1>5. QED
  BY <1>3, <1>4 DEF SettleFailure

\* A reservation is given back by a caller that may do so.
LEMMA ReservationGivenBack ==
  ASSUME IInv, NEW c \in Callers, NEW k \in Consents, caller[c].consent = k,
         caller[c].pc \in {"settle", "release", "free"},
         request' = [request EXCEPT ![k].reserved = FALSE],
         UNCHANGED <<claim, consents, withdrawal, operation, task, material, result, world>>
  PROVE  /\ RecordTypes' /\ Kept /\ StoreInv' /\ ReportInv'
         /\ \A j \in Consents :
              HoldKept(j) \/ operation'[j].status = "accepted" \/ HoldsFor(caller[c], j)
<1> DEFINE r == [request[k] EXCEPT !.reserved = FALSE]
<1>1. RecordTypes /\ StoreInv /\ ReportInv /\ CallerOK(c) /\ request[k] \in RequestType
  BY CallerFacts DEF RecordTypes
<1>2. /\ r \in RequestType /\ r.sent = request[k].sent
      /\ request' = [request EXCEPT ![k] = r]
  BY <1>1 DEF RecordTypes, RequestType
<1> HIDE DEF r
<1>3. request'[k] = r /\ \A j \in Consents : j # k => request'[j] = request[j]
  BY <1>1, <1>2 DEF RecordTypes
<1>4. task[k].status # "unknown"
  BY <1>1 DEF CallerOK, StoreInv, Holders
<1>5. RecordTypes'
  <2>1. request' \in [Consents -> RequestType]
    BY <1>1, <1>2 DEF RecordTypes
  <2>2. QED
    BY <1>1, <2>1 DEF RecordTypes, world
<1>6. Kept
  BY <1>2, <1>3 DEF Kept, world
<1>7. \A j \in Consents : j # k => HoldKept(j)
  BY <1>3 DEF HoldKept
<1>8. operation'[k].status = "accepted" \/ HoldsFor(caller[c], k)
  BY <1>1 DEF CallerOK, HoldsFor, Holders
<1>9. StoreInv' /\ ReportInv'
  BY <1>1, <1>2, <1>3, <1>4 DEF StoreInv, ReportInv, world
<1>10. QED
  BY <1>5, <1>6, <1>7, <1>8, <1>9

LEMMA SettleAcceptanceStep ==
  ASSUME IInv, NEW c \in Callers, SettleAcceptance(c)
  PROVE  IInv'
<1> DEFINE k == caller[c].consent
           code == caller[c].answer.code
           state == At("material", k)
<1>0. caller[c].pc = "settle" /\ caller[c].pc # "idle" /\ code \in Routed
  BY DEF SettleAcceptance
<1>1. /\ k \in Consents /\ RecordTypes /\ StoreInv /\ ReportInv /\ CallerOK(c)
      /\ caller \in [Callers -> CallerStates]
  BY <1>0, CallerFacts DEF IInv, TypeInv, ThreadTypes
<1>2. UNCHANGED <<claim, consents, withdrawal, material, result, world, reconciler, receiver>>
  BY DEF SettleAcceptance
<1>3. CASE /\ ~Settled(k)
           /\ Settlement(k, "accepted", TRUE, code)
           /\ caller' = [caller EXCEPT ![c] = At("material", k)]
           /\ UNCHANGED request
  <2>1. /\ state \in CallerStates /\ state.pc = "material" /\ state.consent = k
        /\ caller' = [caller EXCEPT ![c] = state] /\ caller'[c] = state
    BY <1>1, <1>3, StateAt DEF CallerSteps
  <2> HIDE DEF state
  <2>2. /\ operation' \in [Consents -> [status : Statuses, revision : Nat,
                                        result : Routed \cup {"none"}]]
        /\ task' \in [Consents -> TaskRecords]
        /\ operation'[k].status = "accepted" /\ operation'[k].result = code
        /\ task'[k].status = "accepted"
        /\ \A j \in Consents : j # k => operation'[j] = operation[j] /\ task'[j] = task[j]
    <3>1. "accepted" \in Statuses /\ code \in Routed \cup {"none"} /\ TRUE \in BOOLEAN
      BY <1>0 DEF Statuses
    <3> HIDE DEF code
    <3>2. QED
      BY <1>1, <1>3, <3>1, SettlementWrites
  <2>3. request[k].sent /\ provider[k] = code
    BY <1>0, <1>1 DEF CallerOK
  <2>4. RecordTypes'
    BY <1>1, <1>2, <1>3, <2>2 DEF RecordTypes, world
  <2>5. Kept /\ \A j \in Consents : HoldKept(j)
    BY <1>2, <1>3, <2>2 DEF Kept, HoldKept, world
  <2>6. StoreInv' /\ ReportInv'
    <3>1. operation[k].status # "accepted"
      BY <1>3 DEF Settled
    <3>2. /\ operation'[k].status = "accepted" /\ operation'[k].result = provider'[k]
          /\ task'[k].status = "accepted" /\ request'[k].sent /\ provider'[k] \in Routed
      BY <1>0, <1>2, <1>3, <2>2, <2>3 DEF world
    <3>3. claim.routing # 0 => claim.routing \in Consents \ {k}
      BY <1>1, <3>1 DEF StoreInv, RecordTypes
    <3>4. ReportInv'
      BY <1>1, <1>2 DEF ReportInv, world
    <3>5. StoreInv'
      BY <1>1, <1>2, <1>3, <2>2, <3>2, <3>3 DEF StoreInv, world
    <3>6. QED
      BY <3>4, <3>5
  <2>7. CallerOK(c)' /\ \A j \in Consents : ~HoldsFor(state, j)
    BY <1>1, <2>1, <2>2 DEF CallerOK, Holders, HoldsFor
  <2>8. QED
    BY <1>2, <2>1, <2>4, <2>5, <2>6, <2>7, CallerMoves DEF world
<1>4. CASE request' = [request EXCEPT ![k].reserved = FALSE] /\ Stop(c) /\ UNCHANGED <<operation, task>>
  <2>1. /\ RecordTypes' /\ Kept /\ StoreInv' /\ ReportInv'
        /\ \A j \in Consents :
             HoldKept(j) \/ operation'[j].status = "accepted" \/ HoldsFor(caller[c], j)
    BY <1>0, <1>1, <1>2, <1>4, ReservationGivenBack
  <2>2. /\ caller' = [caller EXCEPT ![c] = IdleCaller] /\ caller'[c] = IdleCaller
    BY <1>1, <1>4 DEF Stop
  <2>3. CallerOK(c)' /\ \A j \in Consents : ~HoldsFor(IdleCaller, j)
    BY <2>2, IdleStates DEF CallerOK, Holders, HoldsFor
  <2>4. QED
    BY <1>2, <2>1, <2>2, <2>3, IdleStates, CallerMoves DEF world
<1>5. CASE Stop(c) /\ UNCHANGED <<operation, task, request>>
  BY <1>2, <1>5, CallerStops
<1>6. QED
  BY <1>3, <1>4, <1>5 DEF SettleAcceptance

LEMMA SaveItemStep ==
  ASSUME IInv, NEW c \in Callers, SaveItem(c)
  PROVE  IInv'
<1> DEFINE k == caller[c].consent
           state == At("release", k)
<1>0. caller[c].pc = "item" /\ caller[c].pc # "idle"
  BY DEF SaveItem
<1>1. /\ k \in Consents /\ CallerOK(c) /\ caller \in [Callers -> CallerStates]
  BY <1>0, CallerFacts DEF IInv, TypeInv, ThreadTypes
<1>2. UNCHANGED <<claim, consents, withdrawal, operation, task, request, material, result,
                  world, reconciler, receiver>>
  BY DEF SaveItem
<1>3. CASE Stop(c)
  BY <1>2, <1>3, CallerStops
<1>4. CASE /\ Classified(caller[c].task, caller[c].answer) # "unknown"
           /\ caller' = [caller EXCEPT ![c] = At("release", k)]
  <2>1. /\ state \in CallerStates /\ state.pc = "release" /\ state.consent = k
        /\ caller' = [caller EXCEPT ![c] = state] /\ caller'[c] = state
    BY <1>1, <1>4, StateAt DEF CallerSteps
  <2> HIDE DEF state
  <2>2. CallerOK(c)'
    BY <1>0, <1>1, <1>2, <1>4, <2>1 DEF CallerOK, Holders
  <2>3. \A j \in Consents : HoldsFor(state, j) => HoldsFor(caller[c], j)
    BY <1>0, <2>1 DEF HoldsFor, Holders
  <2>4. QED
    BY <1>2, <2>1, <2>2, <2>3, CallerAlone
<1>5. QED
  BY <1>3, <1>4 DEF SaveItem

LEMMA ReleaseStep ==
  ASSUME IInv, NEW c \in Callers, Release(c)
  PROVE  IInv'
<1> DEFINE k == caller[c].consent
           saving == [caller[c] EXCEPT !.pc = "save"]
<1>0. caller[c].pc \in {"release", "free"} /\ caller[c].pc # "idle"
  BY DEF Release
<1>1. /\ k \in Consents /\ CallerOK(c) /\ caller \in [Callers -> CallerStates]
      /\ saving \in CallerStates /\ saving.pc = "save" /\ saving.consent = k
  BY <1>0, CallerFacts DEF IInv, TypeInv, ThreadTypes, CallerSteps
<1>2. /\ request' = [request EXCEPT ![k].reserved = FALSE]
      /\ UNCHANGED <<claim, consents, withdrawal, operation, task, material, result, world,
                     reconciler, receiver>>
  BY DEF Release
<1>3. /\ RecordTypes' /\ Kept /\ StoreInv' /\ ReportInv'
      /\ \A j \in Consents :
           HoldKept(j) \/ operation'[j].status = "accepted" \/ HoldsFor(caller[c], j)
  BY <1>0, <1>1, <1>2, ReservationGivenBack
<1>4. CASE caller[c].pc = "free"
  <2>1. caller' = [caller EXCEPT ![c] = saving] /\ caller'[c] = saving
    BY <1>1, <1>4 DEF Release, Go
  <2> HIDE DEF saving
  <2>2. CallerOK(c)' /\ \A j \in Consents : ~HoldsFor(saving, j)
    BY <1>1, <1>2, <1>4, <2>1 DEF CallerOK, Holders, HoldsFor
  <2>3. QED
    BY <1>1, <1>2, <1>3, <2>1, <2>2, CallerMoves DEF world
<1>5. CASE caller[c].pc # "free"
  <2>1. caller' = [caller EXCEPT ![c] = IdleCaller] /\ caller'[c] = IdleCaller
    BY <1>1, <1>5 DEF Release, Stop
  <2>2. CallerOK(c)' /\ \A j \in Consents : ~HoldsFor(IdleCaller, j)
    BY <2>1, IdleStates DEF CallerOK, Holders, HoldsFor
  <2>3. QED
    BY <1>2, <1>3, <2>1, <2>2, IdleStates, CallerMoves DEF world
<1>6. QED
  BY <1>4, <1>5

\* A write to the awaited material that names no other receipt.
Materials == [status : {"none", "pending", "ready"}, receipt : Nat \cup {NoReceipt},
              linked : BOOLEAN]

LEMMA MaterialWritten ==
  ASSUME IInv, NEW k \in Consents, NEW m \in Materials,
         material' = [material EXCEPT ![k] = m],
         m.status # "none" \/ material[k].status = "none",
         material[k].linked => m.linked,
         m.receipt \in {NoReceipt, returned[k]},
         UNCHANGED <<claim, consents, withdrawal, operation, task, request, result, world>>
  PROVE  /\ RecordTypes' /\ Kept /\ StoreInv' /\ ReportInv'
         /\ material'[k] = m
         /\ \A j \in Consents : HoldKept(j)
<1>1. RecordTypes /\ StoreInv /\ ReportInv
  BY DEF IInv, TypeInv
<1>2. material'[k] = m /\ \A j \in Consents : j # k => material'[j] = material[j]
  BY <1>1 DEF RecordTypes
<1>3. RecordTypes'
  <2>1. material' \in [Consents -> Materials]
    BY <1>1 DEF RecordTypes, Materials
  <2>2. QED
    BY <1>1, <2>1 DEF RecordTypes, Materials, world
<1>4. Kept /\ \A j \in Consents : HoldKept(j)
  BY <1>1, <1>2 DEF Kept, HoldKept, world
<1>5. StoreInv'
  BY <1>1, <1>2 DEF StoreInv, RecordTypes, world
<1>6. ReportInv'
  BY <1>1, <1>2 DEF ReportInv, world
<1>7. QED
  BY <1>2, <1>3, <1>4, <1>5, <1>6

LEMMA ReadMaterialStep ==
  ASSUME IInv, NEW c \in Callers, ReadMaterial(c)
  PROVE  IInv'
<1> DEFINE k == caller[c].consent
           held == material[k]
           step == CASE held.status = "none" -> "evidence"
                     [] held.status # "none" /\ ~held.linked -> "link"
                     [] OTHER -> AfterMaterial(c)
           state == [caller[c] EXCEPT !.pc = step]
<1>0. caller[c].pc = "material" /\ caller[c].pc # "idle"
  BY DEF ReadMaterial
<1>1. \/ step = "evidence"
      \/ step = "link" /\ held.status # "none"
      \/ step \in {"free", "save"} /\ held.status # "none" /\ held.linked
  BY DEF AfterMaterial
<1>2. caller' = [caller EXCEPT ![c] = state]
  BY DEF ReadMaterial, Go
<1> HIDE DEF step
<1>3. step \in CallerSteps
  BY <1>1 DEF CallerSteps
<1>4. /\ k \in Consents /\ CallerOK(c) /\ caller \in [Callers -> CallerStates]
      /\ state \in CallerStates /\ state.pc = step /\ state.consent = k
  BY <1>0, <1>3, CallerFacts DEF IInv, TypeInv, ThreadTypes
<1>5. UNCHANGED <<claim, consents, withdrawal, operation, task, request, material, result,
                  world, reconciler, receiver>>
  BY DEF ReadMaterial, records
<1> HIDE DEF state
<1>6. caller'[c] = state
  BY <1>2, <1>4
<1>7. CallerOK(c)' /\ \A j \in Consents : ~HoldsFor(state, j)
  BY <1>0, <1>1, <1>4, <1>5, <1>6 DEF CallerOK, Holders, HoldsFor
<1>8. QED
  BY <1>2, <1>4, <1>5, <1>7, CallerAlone

LEMMA SaveEvidenceStep ==
  ASSUME IInv, NEW c \in Callers, SaveEvidence(c)
  PROVE  IInv'
<1> DEFINE k == caller[c].consent
           state == [caller[c] EXCEPT !.pc = "link"]
           m == [material[k] EXCEPT !.status = "pending", !.receipt = NoReceipt]
<1>0. caller[c].pc = "evidence" /\ caller[c].pc # "idle"
  BY DEF SaveEvidence
<1>1. /\ k \in Consents /\ CallerOK(c) /\ caller \in [Callers -> CallerStates]
      /\ state \in CallerStates /\ state.pc = "link" /\ state.consent = k
      /\ material \in [Consents -> Materials] /\ material[k] \in Materials
  BY <1>0, CallerFacts DEF IInv, TypeInv, ThreadTypes, CallerSteps, RecordTypes, Materials
<1>2. /\ m \in Materials /\ m.status = "pending" /\ m.linked = material[k].linked
      /\ m.receipt = NoReceipt
      /\ material' = [material EXCEPT ![k] = m]
      /\ caller' = [caller EXCEPT ![c] = state] /\ caller'[c] = state
      /\ UNCHANGED <<claim, consents, withdrawal, operation, task, request, result, world,
                     reconciler, receiver>>
  BY <1>1 DEF SaveEvidence, Go, Materials
<1> HIDE DEF m, state
<1>3. /\ RecordTypes' /\ Kept /\ StoreInv' /\ ReportInv' /\ material'[k] = m
      /\ \A j \in Consents : HoldKept(j)
  BY <1>1, <1>2, MaterialWritten
<1>4. CallerOK(c)' /\ \A j \in Consents : ~HoldsFor(state, j)
  BY <1>0, <1>1, <1>2, <1>3 DEF CallerOK, Holders, HoldsFor
<1>5. QED
  BY <1>1, <1>2, <1>3, <1>4, CallerMoves DEF world

LEMMA SaveLinkStep ==
  ASSUME IInv, NEW c \in Callers, SaveLink(c)
  PROVE  IInv'
<1> DEFINE k == caller[c].consent
           step == AfterMaterial(c)
           state == [caller[c] EXCEPT !.pc = step]
           m == [material[k] EXCEPT !.linked = TRUE]
<1>0. caller[c].pc = "link" /\ caller[c].pc # "idle"
  BY DEF SaveLink
<1>1. step \in {"free", "save"} /\ step \in CallerSteps
  BY DEF AfterMaterial, CallerSteps
<1> HIDE DEF step
<1>2. /\ k \in Consents /\ CallerOK(c) /\ caller \in [Callers -> CallerStates]
      /\ state \in CallerStates /\ state.pc = step /\ state.consent = k
      /\ material \in [Consents -> Materials] /\ material[k] \in Materials /\ ReportInv
  BY <1>0, <1>1, CallerFacts DEF IInv, TypeInv, ThreadTypes, RecordTypes, Materials
<1>3. /\ m \in Materials /\ m.status = material[k].status /\ m.linked
      /\ m.receipt = material[k].receipt
      /\ material' = [material EXCEPT ![k] = m]
      /\ UNCHANGED <<claim, consents, withdrawal, operation, task, request, result, world,
                     reconciler, receiver>>
  BY <1>2 DEF SaveLink, Materials
<1>4. caller' = [caller EXCEPT ![c] = state] /\ caller'[c] = state
  BY <1>2 DEF SaveLink, Go, step
<1> HIDE DEF m, state
<1>5. m.status # "none" /\ m.receipt \in {NoReceipt, returned[k]}
  BY <1>0, <1>2, <1>3 DEF CallerOK, ReportInv
<1>6. /\ RecordTypes' /\ Kept /\ StoreInv' /\ ReportInv' /\ material'[k] = m
      /\ \A j \in Consents : HoldKept(j)
  BY <1>2, <1>3, <1>5, MaterialWritten
<1>7. CallerOK(c)' /\ \A j \in Consents : ~HoldsFor(state, j)
  BY <1>0, <1>1, <1>2, <1>3, <1>4, <1>5, <1>6 DEF CallerOK, Holders, HoldsFor
<1>8. QED
  BY <1>2, <1>3, <1>4, <1>6, <1>7, CallerMoves DEF world

\* The first to save carries the routing; nothing was reported before.
LEMMA SaveRoutingStep ==
  ASSUME IInv, NEW c \in Callers, SaveRouting(c)
  PROVE  IInv'
<1> DEFINE k == caller[c].consent
           routed == [claim EXCEPT !.routing = k, !.revision = claim.revision + 1]
<1>0. caller[c].pc = "save" /\ caller[c].pc # "idle"
  BY DEF SaveRouting
<1>1. /\ k \in Consents /\ CallerOK(c) /\ caller \in [Callers -> CallerStates]
      /\ RecordTypes /\ StoreInv /\ ReportInv
      /\ claim \in [revision : Nat, routing : Consents \cup {0}, bound : BOOLEAN]
  BY <1>0, CallerFacts DEF IInv, TypeInv, ThreadTypes, RecordTypes
<1>2. /\ UNCHANGED <<consents, operation, task, request, material, result, item, world,
                     reconciler, receiver>>
      /\ Stop(c)
      /\ withdrawal' \in Consents \cup {0}
  BY <1>1 DEF SaveRouting, records, CheckedAnew, RecordTypes
<1>3. CASE claim' = claim
  <2>1. withdrawal' = withdrawal
    BY <1>3 DEF SaveRouting, CheckedAnew
  <2>2. QED
    BY <1>2, <1>3, <2>1, CallerStops
<1>4. CASE claim.routing = 0 /\ claim' = routed
  <2>1. /\ routed \in [revision : Nat, routing : Consents \cup {0}, bound : BOOLEAN]
        /\ routed.routing = k /\ routed.revision = claim.revision + 1
    <3>1. claim.revision + 1 \in Nat /\ k \in Consents \cup {0}
      BY <1>1
    <3> HIDE DEF k
    <3>2. QED
      BY <1>1, <3>1
  <2> HIDE DEF routed
  <2>2. /\ caller' = [caller EXCEPT ![c] = IdleCaller] /\ caller'[c] = IdleCaller
        /\ \A d \in Callers \ {c} : caller'[d] = caller[d]
    BY <1>1, <1>2 DEF Stop
  <2>3. TypeInv'
    BY <1>1, <1>2, <1>4, <2>1, <2>2, IdleStates
    DEF IInv, TypeInv, RecordTypes, ThreadTypes, world
  <2>4. Kept /\ \A j \in Consents : HoldKept(j)
    BY <1>2 DEF Kept, HoldKept, world
  <2>5. CallerOK(c)' /\ \A j \in Consents : ~HoldsFor(caller'[c], j)
    BY <2>2, IdleStates DEF CallerOK, Holders, HoldsFor
  <2>6. CallersInv'
    BY <2>2, <2>4, <2>5, CallersStay DEF IInv, ThreadsInv
  <2>7. \A q \in Reconcilers : ReconcilerOK(q)'
    BY <1>2, <1>4, <2>1, <2>4, ReconcilersStay DEF IInv, ThreadsInv
  <2>8. \A p \in Receivers : ReceiverOK(p)'
    BY <1>2, <1>4 DEF IInv, ThreadsInv, ReceiverOK, world, Consents
  <2>9. StoreInv'
    BY <1>0, <1>1, <1>2, <1>4, <2>1 DEF StoreInv, CallerOK, world
  <2>10. ReportInv'
    BY <1>1, <1>2, <1>4 DEF ReportInv, world, Consents
  <2>11. QED
    BY <2>3, <2>6, <2>7, <2>8, <2>9, <2>10 DEF IInv, ThreadsInv
<1>5. QED
  BY <1>3, <1>4 DEF SaveRouting

LEMMA CallerOrAsk ==
  ASSUME IInv, NEW c \in Callers,
         Ask(c) \/ CallerStep(c) \/ \E k \in Consents : RouteStored(c, k)
  PROVE  IInv'
<1>1. CASE Ask(c)
  <2>1. Active \in Consents
    <3> DEFINE granted == {k \in Consents : consents[k] = "granted"}
    <3>1. granted # {} /\ Active = Max(granted)
      BY <1>1 DEF Ask, Active
    <3>2. IsFiniteSet(Consents) /\ Consents \subseteq Int
      BY DispatchAssumption, FS_Interval DEF Consents
    <3>3. granted \in SUBSET Consents
      OBVIOUS
    <3> HIDE DEF granted
    <3>4. IsFiniteSet(granted) /\ granted \subseteq Int
      BY <3>2, <3>3, FS_Subset
    <3>5. QED
      BY <3>1, <3>3, <3>4, GreatestMember
  <2>2. QED
    BY <1>1, <2>1, RouteStep DEF Ask
<1>2. ASSUME NEW k \in Consents, RouteStored(c, k)
      PROVE  IInv'
  BY <1>2, RouteStep DEF RouteStored
<1>3. CASE CallerStep(c)
  BY <1>3, PrepareStep, PrepareTaskStep, PrepareRequestStep, ReserveStep, CallStep,
     RecordSendStep, SettleFailureStep, SettleAcceptanceStep, SaveItemStep, ReleaseStep,
     ReadMaterialStep, SaveEvidenceStep, SaveLinkStep, SaveRoutingStep
  DEF CallerStep
<1>4. QED
  BY <1>1, <1>2, <1>3

-----------------------------------------------------------------------------
(* The steps of a reconciler.                                              *)

\* One reconciler moves and nothing else that the invariant is about.
LEMMA ReconcilerMoves ==
  ASSUME IInv, NEW q \in Reconcilers, NEW state \in ReconcilerStates,
         reconciler' = [reconciler EXCEPT ![q] = state],
         UNCHANGED <<claim, consents, withdrawal, operation, task, request, material, result,
                     world, caller, receiver>>,
         ReconcilerOK(q)'
  PROVE  IInv'
<1> USE DEF world
<1>1. TypeInv'
  BY DEF IInv, TypeInv, RecordTypes, ThreadTypes
<1>2. Kept /\ \A k \in Consents : HoldKept(k)
  BY DEF Kept, HoldKept
<1>3. CallersInv'
  BY <1>2, CallersUnmoved DEF IInv, ThreadsInv
<1>4. \A p \in Reconcilers : ReconcilerOK(p)'
  <2>1. \A p \in Reconcilers \ {q} : reconciler'[p] = reconciler[p]
    BY DEF IInv, TypeInv, ThreadTypes
  <2>2. QED
    BY <2>1 DEF IInv, ThreadsInv, ReconcilerOK
<1>5. \A p \in Receivers : ReceiverOK(p)'
  BY ReceiversStay DEF IInv, ThreadsInv
<1>6. StoreInv' /\ ReportInv'
  BY DEF IInv, StoreInv, ReportInv
<1>7. QED
  BY <1>1, <1>3, <1>4, <1>5, <1>6 DEF IInv, ThreadsInv

LEMMA ReconcilerStops ==
  ASSUME IInv, NEW q \in Reconcilers, reconciler' = [reconciler EXCEPT ![q] = IdleReconciler],
         UNCHANGED <<claim, consents, withdrawal, operation, task, request, material, result,
                     world, caller, receiver>>
  PROVE  IInv'
<1>1. ReconcilerOK(q)'
  BY IdleStates DEF ReconcilerOK, IInv, TypeInv, ThreadTypes
<1>2. QED
  BY <1>1, IdleStates, ReconcilerMoves

LEMMA ReconcileStep ==
  ASSUME IInv, NEW q \in Reconcilers, NEW k \in Consents, Reconcile(q, k)
  PROVE  IInv'
<1> DEFINE state == [pc |-> "ask", consent |-> k, revision |-> claim.revision]
<1>1. claim.revision \in Nat /\ reconciler \in [Reconcilers -> ReconcilerStates]
  BY DEF IInv, TypeInv, RecordTypes, ThreadTypes
<1>2. /\ claim.routing = 0
      /\ reconciler' = [reconciler EXCEPT ![q] = state]
      /\ UNCHANGED <<claim, consents, withdrawal, operation, task, request, material, result,
                     world, caller, receiver>>
  BY DEF Reconcile
<1>3. /\ state \in ReconcilerStates
      /\ state.pc = "ask" /\ state.consent = k /\ state.revision = claim.revision
  BY <1>1 DEF ReconcilerStates
<1> HIDE DEF state
<1>4. ReconcilerOK(q)'
  BY <1>1, <1>2, <1>3 DEF ReconcilerOK
<1>5. QED
  BY <1>2, <1>3, <1>4, ReconcilerMoves

LEMMA CheckStatusStep ==
  ASSUME IInv, NEW q \in Reconcilers, CheckStatus(q)
  PROVE  IInv'
<1> DEFINE state == [reconciler[q] EXCEPT !.pc = "settle"]
<1>1. /\ reconciler \in [Reconcilers -> ReconcilerStates] /\ reconciler[q] \in ReconcilerStates
      /\ ReconcilerOK(q) /\ reconciler[q].pc = "ask"
  BY DEF IInv, TypeInv, ThreadTypes, ThreadsInv, CheckStatus
<1>2. UNCHANGED <<claim, consents, withdrawal, operation, task, request, material, result,
                  world, caller, receiver>>
  BY DEF CheckStatus, records
<1>3. CASE reconciler' = [reconciler EXCEPT ![q] = IdleReconciler]
  BY <1>2, <1>3, ReconcilerStops
<1>4. CASE /\ provider[reconciler[q].consent] \in Routed
           /\ reconciler' = [reconciler EXCEPT ![q].pc = "settle"]
  <2>1. /\ state \in ReconcilerStates /\ state.pc = "settle"
        /\ state.consent = reconciler[q].consent /\ state.revision = reconciler[q].revision
        /\ reconciler' = [reconciler EXCEPT ![q] = state] /\ reconciler'[q] = state
    BY <1>1, <1>4 DEF ReconcilerStates
  <2> HIDE DEF state
  <2>2. ReconcilerOK(q)'
    BY <1>1, <1>2, <1>4, <2>1 DEF ReconcilerOK, world
  <2>3. QED
    BY <1>2, <2>1, <2>2, ReconcilerMoves
<1>5. QED
  BY <1>3, <1>4 DEF CheckStatus

\* The reconciliation settles everything at once, and takes the reservation
\* from whoever holds it: the operation is accepted from then on.
LEMMA SettleReconciliationStep ==
  ASSUME IInv, NEW q \in Reconcilers, SettleReconciliation(q)
  PROVE  IInv'
<1> DEFINE k == reconciler[q].consent
           done == [IdleReconciler EXCEPT !.pc = "complete", !.consent = k]
           routed == [claim EXCEPT !.routing = k, !.revision = @ + 1]
           o == [operation[k] EXCEPT !.status = "accepted", !.result = provider[k]]
           t == [task[k] EXCEPT !.status = "accepted", !.submitted = TRUE]
           r == [request[k] EXCEPT !.sent = TRUE, !.reserved = FALSE]
           m == [material[k] EXCEPT !.status = "pending", !.linked = TRUE]
<1>1. /\ reconciler \in [Reconcilers -> ReconcilerStates] /\ reconciler[q] \in ReconcilerStates
      /\ ReconcilerOK(q) /\ reconciler[q].pc = "settle"
      /\ RecordTypes /\ StoreInv /\ ReportInv
  BY DEF IInv, TypeInv, ThreadTypes, ThreadsInv, SettleReconciliation
<1>2. k \in Consents /\ provider[k] \in Routed
  BY <1>1 DEF ReconcilerOK
<1>3. UNCHANGED <<consents, result, item, world, caller, receiver>>
  BY DEF SettleReconciliation
<1>4. CASE /\ reconciler' = [reconciler EXCEPT ![q] = IdleReconciler]
           /\ UNCHANGED <<claim, operation, task, request, material>>
  <2>1. withdrawal' = withdrawal
    BY <1>4 DEF SettleReconciliation, CheckedAnew
  <2>2. QED
    BY <1>3, <1>4, <2>1, ReconcilerStops
<1>5. CASE /\ claim.revision = reconciler[q].revision
           /\ operation[k].status \in {"unknown", "prepared"}
           /\ material[k].status = "none"
           /\ claim' = [claim EXCEPT !.routing = k, !.revision = @ + 1]
           /\ operation' = [operation EXCEPT ![k].status = "accepted", ![k].result = provider[k]]
           /\ task' = [task EXCEPT ![k].status = "accepted", ![k].submitted = TRUE]
           /\ request' = [request EXCEPT ![k].sent = TRUE, ![k].reserved = FALSE]
           /\ material' = [material EXCEPT ![k].status = "pending", ![k].linked = TRUE]
           /\ reconciler' = [reconciler EXCEPT ![q] =
                               [IdleReconciler EXCEPT !.pc = "complete", !.consent = k]]
  <2>1. claim.routing = 0
    BY <1>1, <1>5 DEF ReconcilerOK
  <2>2. /\ claim' \in [revision : Nat, routing : Consents \cup {0}, bound : BOOLEAN]
        /\ claim'.routing = k /\ claim'.revision = claim.revision + 1
    <3>1. claim \in [revision : Nat, routing : Consents \cup {0}, bound : BOOLEAN]
      BY <1>1 DEF RecordTypes
    <3>2. claim.revision + 1 \in Nat /\ k \in Consents \cup {0}
      BY <1>2, <3>1
    <3> HIDE DEF k
    <3>3. QED
      BY <1>5, <3>1, <3>2
  <2>3. /\ o \in [status : Statuses, revision : Nat, result : Routed \cup {"none"}]
        /\ o.status = "accepted" /\ o.result = provider[k]
    <3>1. operation[k] \in [status : Statuses, revision : Nat, result : Routed \cup {"none"}]
      BY <1>1, <1>2 DEF RecordTypes
    <3>2. "accepted" \in Statuses /\ provider[k] \in Routed \cup {"none"}
      BY <1>2 DEF Statuses
    <3>3. QED
      BY <3>1, <3>2
  <2>4. t \in TaskRecords /\ t.status = "accepted"
    <3>1. task[k] \in [status : Statuses, submitted : BOOLEAN, updated : Nat]
      BY <1>1, <1>2 DEF RecordTypes, TaskRecords
    <3>2. "accepted" \in Statuses
      BY DEF Statuses
    <3>3. QED
      BY <3>1, <3>2 DEF TaskRecords
  <2>5. r \in RequestType /\ r.sent
    <3>1. request[k] \in RequestType
      BY <1>1, <1>2 DEF RecordTypes
    <3>2. QED
      BY <3>1 DEF RequestType
  <2>6. m \in Materials /\ m.status = "pending" /\ m.linked /\ m.receipt = material[k].receipt
    <3>1. material[k] \in Materials
      BY <1>1, <1>2 DEF RecordTypes, Materials
    <3>2. QED
      BY <3>1 DEF Materials
  <2>7. /\ operation' = [operation EXCEPT ![k] = o] /\ task' = [task EXCEPT ![k] = t]
        /\ request' = [request EXCEPT ![k] = r] /\ material' = [material EXCEPT ![k] = m]
    BY <1>1, <1>2, <1>5 DEF RecordTypes
  <2>8. /\ operation'[k] = o /\ task'[k] = t /\ request'[k] = r /\ material'[k] = m
        /\ \A j \in Consents : j # k =>
             /\ operation'[j] = operation[j] /\ task'[j] = task[j]
             /\ request'[j] = request[j] /\ material'[j] = material[j]
    BY <1>1, <1>2, <2>7 DEF RecordTypes
  <2> HIDE DEF o, t, r, m
  <2>9. withdrawal' \in Consents \cup {0}
    BY <1>1, <1>5 DEF SettleReconciliation, CheckedAnew, RecordTypes
  <2>10. RecordTypes'
    BY <1>1, <1>2, <1>3, <2>2, <2>3, <2>4, <2>5, <2>6, <2>7, <2>9
    DEF RecordTypes, Materials, world
  <2>11. /\ done \in ReconcilerStates /\ done.pc = "complete" /\ done.consent = k
    BY <1>2, IdleStates DEF ReconcilerStates
  <2>12. /\ reconciler' = [reconciler EXCEPT ![q] = done] /\ reconciler'[q] = done
         /\ \A p \in Reconcilers \ {q} : reconciler'[p] = reconciler[p]
    BY <1>1, <1>5
  <2> HIDE DEF done
  <2>13. ThreadTypes'
    BY <1>1, <1>3, <2>11, <2>12 DEF IInv, TypeInv, ThreadTypes
  <2>14. Kept
    BY <1>1, <1>2, <1>3, <2>3, <2>5, <2>6, <2>8 DEF Kept, world
  <2>15. CallersInv'
    <3>1. \A j \in Consents : HoldKept(j) \/ operation'[j].status = "accepted"
      BY <2>3, <2>8 DEF HoldKept
    <3>2. QED
      BY <1>3, <2>14, <3>1, CallersUnmoved DEF IInv, ThreadsInv
  <2>16. \A p \in Reconcilers : ReconcilerOK(p)'
    <3>1. ReconcilerOK(q)'
      BY <1>2, <2>11, <2>12 DEF ReconcilerOK
    <3>2. ASSUME NEW p \in Reconcilers \ {q}
          PROVE  ReconcilerOK(p)'
      <4>1. reconciler[p].revision \in Nat /\ claim.revision \in Nat /\ ReconcilerOK(p)
        BY <1>1 DEF IInv, RecordTypes, ThreadsInv, ReconcilerStates
      <4>2. QED
        BY <1>3, <2>2, <2>12, <4>1 DEF ReconcilerOK, world
    <3>3. QED
      BY <3>1, <3>2
  <2>17. \A p \in Receivers : ReceiverOK(p)'
    BY <1>3, <2>1 DEF IInv, ThreadsInv, ReceiverOK, world, Consents
  <2>18. StoreInv'
    BY <1>1, <1>2, <1>3, <2>2, <2>3, <2>4, <2>5, <2>6, <2>8 DEF StoreInv, world
  <2>19. ReportInv'
    BY <1>1, <1>3, <2>1, <2>6, <2>8 DEF ReportInv, world, Consents
  <2>20. QED
    BY <2>10, <2>13, <2>15, <2>16, <2>17, <2>18, <2>19 DEF IInv, TypeInv, ThreadsInv
<1>6. QED
  BY <1>4, <1>5 DEF SettleReconciliation

LEMMA ReconcilerSteps ==
  ASSUME IInv, NEW q \in Reconcilers,
         \/ CheckStatus(q) \/ SettleReconciliation(q) \/ CompleteItem(q)
         \/ \E k \in Consents : Reconcile(q, k) \/ ReplayReconciliation(q, k)
  PROVE  IInv'
<1>1. CASE CompleteItem(q)
  BY <1>1, ReconcilerStops DEF CompleteItem
<1>2. ASSUME NEW k \in Consents, ReplayReconciliation(q, k)
      PROVE  IInv'
  <2>1. /\ claim \in [revision : Nat, routing : Consents \cup {0}, bound : BOOLEAN]
        /\ consents \in [Consents -> {"none", "granted", "withdrawn"}]
        /\ withdrawal \in Consents \cup {0}
    BY DEF IInv, TypeInv, RecordTypes
  <2>2. QED
    BY <1>2, <2>1, ClaimMoves DEF ReplayReconciliation
<1>3. QED
  BY <1>1, <1>2, CheckStatusStep, SettleReconciliationStep, ReconcileStep

-----------------------------------------------------------------------------
(* The steps of a receiver.                                                *)

\* One receiver moves; what it writes is for the report.
LEMMA ReceiverMoves ==
  ASSUME IInv, NEW p \in Receivers, NEW state \in ReceiverStates,
         receiver' = [receiver EXCEPT ![p] = state],
         UNCHANGED <<operation, task, request, provider, caller, reconciler>>,
         RecordTypes', StoreInv', ReportInv', Kept,
         claim'.routing = claim.routing,
         claim' = claim \/ claim'.revision = claim.revision + 1,
         \A k \in Consents : returned[k] # NoReceipt => returned'[k] = returned[k],
         ReceiverOK(p)'
  PROVE  IInv'
<1>1. TypeInv'
  BY DEF IInv, TypeInv, ThreadTypes
<1>2. \A k \in Consents : HoldKept(k)
  BY DEF HoldKept
<1>3. CallersInv'
  BY <1>2, CallersUnmoved DEF IInv, ThreadsInv
<1>4. \A q \in Reconcilers : ReconcilerOK(q)'
  BY ReconcilersStay DEF IInv, ThreadsInv
<1>5. ASSUME NEW a \in Receivers \ {p}
      PROVE  ReceiverOK(a)'
  <2>1. receiver'[a] = receiver[a] /\ receiver[a] \in ReceiverStates /\ ReceiverOK(a)
    BY DEF IInv, TypeInv, ThreadTypes, ThreadsInv
  <2>2. receiver[a].receipt # NoReceipt
    BY <2>1 DEF ReceiverStates, NoReceipt
  <2>3. QED
    BY <2>1, <2>2 DEF ReceiverOK
<1>6. QED
  BY <1>1, <1>3, <1>4, <1>5 DEF IInv, ThreadsInv

\* One that writes nothing.
LEMMA ReceiverAlone ==
  ASSUME IInv, NEW p \in Receivers, NEW state \in ReceiverStates,
         receiver' = [receiver EXCEPT ![p] = state],
         UNCHANGED <<claim, consents, withdrawal, operation, task, request, material, result,
                     world, caller, reconciler>>,
         ReceiverOK(p)'
  PROVE  IInv'
<1>1. RecordTypes' /\ StoreInv' /\ ReportInv' /\ Kept
  BY DEF IInv, TypeInv, RecordTypes, StoreInv, ReportInv, Kept, world
<1>2. QED
  BY <1>1, ReceiverMoves DEF world

LEMMA ReceiverStops ==
  ASSUME IInv, NEW p \in Receivers, receiver' = [receiver EXCEPT ![p] = IdleReceiver],
         UNCHANGED <<claim, consents, withdrawal, operation, task, request, material, result,
                     world, caller, reconciler>>
  PROVE  IInv'
<1>1. ReceiverOK(p)'
  BY IdleStates DEF ReceiverOK, IInv, TypeInv, ThreadTypes
<1>2. QED
  BY <1>1, IdleStates, ReceiverAlone

\* What is known of a receiver that is not idle.
LEMMA ReceiverFacts ==
  ASSUME IInv, NEW p \in Receivers
  PROVE  /\ receiver \in [Receivers -> ReceiverStates] /\ receiver[p] \in ReceiverStates
         /\ receiver[p].receipt \in Nat /\ ReceiverOK(p)
         /\ RecordTypes /\ StoreInv /\ ReportInv
BY DEF IInv, TypeInv, ThreadTypes, ThreadsInv, ReceiverStates

LEMMA ReceiveStep ==
  ASSUME IInv, NEW p \in Receivers, NEW r \in Nat, Receive(p, r)
  PROVE  IInv'
<1> DEFINE k == claim.routing
           begin == [Holding("ask", k, r) EXCEPT !.revision = claim.revision,
                                                 !.bound = claim.bound]
<1>1. /\ receiver \in [Receivers -> ReceiverStates] /\ RecordTypes /\ ReportInv
      /\ claim \in [revision : Nat, routing : Consents \cup {0}, bound : BOOLEAN]
  BY ReceiverFacts DEF RecordTypes
<1>2. k \in Consents
  BY <1>1 DEF Receive
<1>3. UNCHANGED <<claim, consents, withdrawal, operation, task, request, material, result,
                  world, caller, reconciler>>
  BY DEF Receive, records
<1>4. CASE /\ result[k] = "unverified" /\ material[k].receipt = r
           /\ receiver' = [receiver EXCEPT ![p] = Holding("verify", k, r)]
  <2> DEFINE state == Holding("verify", k, r)
  <2>1. /\ state \in ReceiverStates /\ state.pc = "verify" /\ state.consent = k
        /\ state.receipt = r
    BY <1>2, StateHolding
  <2> HIDE DEF state
  <2>2. receiver'[p] = state
    BY <1>1, <1>4 DEF state
  <2>3. returned[k] = r
    BY <1>1, <1>2, <1>4 DEF ReportInv, NoReceipt
  <2>4. ReceiverOK(p)'
    BY <1>2, <1>3, <2>1, <2>2, <2>3 DEF ReceiverOK, world
  <2>5. QED
    BY <1>3, <1>4, <2>1, <2>4, ReceiverAlone DEF state
<1>5. CASE receiver' = [receiver EXCEPT ![p] = begin]
  <2>1. begin \in ReceiverStates /\ begin.pc = "ask" /\ begin.consent = k
    <3>1. /\ Holding("ask", k, r) \in ReceiverStates
          /\ Holding("ask", k, r).pc = "ask" /\ Holding("ask", k, r).consent = k
      BY <1>2, StateHolding
    <3>2. claim.revision \in Nat /\ claim.bound \in BOOLEAN
      BY <1>1
    <3>3. QED
      BY <3>1, <3>2 DEF ReceiverStates
  <2> HIDE DEF begin
  <2>2. receiver'[p] = begin
    BY <1>1, <1>5
  <2>3. ReceiverOK(p)'
    BY <1>2, <1>3, <2>1, <2>2 DEF ReceiverOK
  <2>4. QED
    BY <1>3, <1>5, <2>1, <2>3, ReceiverAlone
<1>6. QED
  BY <1>4, <1>5 DEF Receive

\* The service answers one receipt of a task, for good.
LEMMA AskReportStep ==
  ASSUME IInv, NEW p \in Receivers, AskReport(p)
  PROVE  IInv'
<1> DEFINE k == receiver[p].consent
           state == [receiver[p] EXCEPT !.pc = "arrive", !.ready = (material[k].status = "ready")]
<1>1. /\ receiver \in [Receivers -> ReceiverStates] /\ receiver[p] \in ReceiverStates
      /\ receiver[p].receipt \in Nat
      /\ RecordTypes /\ StoreInv /\ ReportInv /\ k \in Consents /\ k = claim.routing
  BY ReceiverFacts DEF AskReport, ReceiverOK
<1>2. UNCHANGED <<claim, consents, withdrawal, operation, task, request, material, result,
                  provider, caller, reconciler>>
  BY DEF AskReport, records
<1>3. CASE receiver' = [receiver EXCEPT ![p] = IdleReceiver] /\ UNCHANGED returned
  BY <1>2, <1>3, ReceiverStops DEF world
<1>4. CASE /\ returned[k] \in {NoReceipt, receiver[p].receipt}
           /\ returned' = [returned EXCEPT ![k] = receiver[p].receipt]
           /\ receiver' = [receiver EXCEPT ![p].pc = "arrive",
                                           ![p].ready = material[k].status = "ready"]
  <2>1. /\ state \in ReceiverStates /\ state.pc = "arrive" /\ state.consent = k
        /\ state.receipt = receiver[p].receipt
        /\ receiver' = [receiver EXCEPT ![p] = state] /\ receiver'[p] = state
    BY <1>1, <1>4 DEF ReceiverStates
  <2> HIDE DEF state
  <2>2. /\ returned' \in [Consents -> Nat \cup {NoReceipt}]
        /\ returned'[k] = receiver[p].receipt
        /\ \A j \in Consents : returned[j] # NoReceipt => returned'[j] = returned[j]
    BY <1>1, <1>4 DEF RecordTypes
  <2>3. RecordTypes' /\ StoreInv' /\ Kept
    BY <1>1, <1>2, <2>2 DEF RecordTypes, StoreInv, Kept
  <2>4. ReportInv'
    BY <1>1, <1>2, <2>2 DEF ReportInv
  <2>5. ReceiverOK(p)'
    BY <1>1, <1>2, <2>1, <2>2 DEF ReceiverOK
  <2>6. QED
    BY <1>2, <2>1, <2>2, <2>3, <2>4, <2>5, ReceiverMoves
<1>5. QED
  BY <1>3, <1>4 DEF AskReport

LEMMA ArriveStep ==
  ASSUME IInv, NEW p \in Receivers, Arrive(p)
  PROVE  IInv'
<1> DEFINE k == receiver[p].consent
           state == [receiver[p] EXCEPT !.pc = "bind", !.ready = FALSE]
           m == [material[k] EXCEPT !.status = "ready", !.receipt = receiver[p].receipt]
<1>1. /\ receiver \in [Receivers -> ReceiverStates] /\ receiver[p] \in ReceiverStates
      /\ receiver[p].receipt \in Nat /\ returned[k] = receiver[p].receipt
      /\ k \in Consents /\ k = claim.routing
      /\ material \in [Consents -> Materials] /\ material[k] \in Materials
  BY ReceiverFacts DEF Arrive, ReceiverOK, RecordTypes, Materials
<1>2. UNCHANGED <<claim, consents, withdrawal, operation, task, request, result, world, caller,
                  reconciler>>
  BY DEF Arrive
<1>3. /\ state \in ReceiverStates /\ state.pc = "bind" /\ state.consent = k
      /\ state.receipt = receiver[p].receipt
      /\ receiver' = [receiver EXCEPT ![p] = state] /\ receiver'[p] = state
  BY <1>1 DEF Arrive, ReceiverStates
<1> HIDE DEF state
<1>4. ReceiverOK(p)'
  BY <1>1, <1>2, <1>3 DEF ReceiverOK, world
<1>5. CASE material' = material
  BY <1>2, <1>3, <1>4, <1>5, ReceiverAlone
<1>6. CASE material' = [material EXCEPT ![k].status = "ready",
                                        ![k].receipt = receiver[p].receipt]
  <2>1. /\ m \in Materials /\ m.status = "ready" /\ m.linked = material[k].linked
        /\ m.receipt = returned[k]
        /\ material' = [material EXCEPT ![k] = m]
    BY <1>1, <1>6 DEF Materials
  <2> HIDE DEF m
  <2>2. RecordTypes' /\ Kept /\ StoreInv' /\ ReportInv'
    BY <1>1, <1>2, <2>1, MaterialWritten
  <2>3. QED
    BY <1>2, <1>3, <1>4, <2>2, ReceiverMoves DEF world
<1>7. QED
  BY <1>5, <1>6 DEF Arrive

LEMMA BindStep ==
  ASSUME IInv, NEW p \in Receivers, Bind(p)
  PROVE  IInv'
<1> DEFINE k == receiver[p].consent
           receipt == receiver[p].receipt
           ready == material[k].status = "ready"
           bound == [revision |-> claim.revision + 1, routing |-> claim.routing, bound |-> ready]
           state == Holding("result", k, receipt)
<1>1. /\ receiver \in [Receivers -> ReceiverStates]
      /\ receipt \in Nat /\ returned[k] = receipt
      /\ k \in Consents /\ k = claim.routing
      /\ RecordTypes /\ StoreInv /\ ReportInv
      /\ claim \in [revision : Nat, routing : Consents \cup {0}, bound : BOOLEAN]
  BY ReceiverFacts DEF Bind, ReceiverOK, RecordTypes
<1>2. UNCHANGED <<consents, operation, task, request, material, result, world, caller,
                  reconciler>>
  BY DEF Bind, records
<1>3. /\ state \in ReceiverStates /\ state.pc = "result" /\ state.consent = k
      /\ state.receipt = receipt
  BY <1>1, StateHolding
<1>4. claim' = claim \/ claim' = [claim EXCEPT !.bound = ready, !.revision = @ + 1]
  BY DEF Bind
<1>5. /\ claim' \in [revision : Nat, routing : Consents \cup {0}, bound : BOOLEAN]
      /\ claim'.routing = claim.routing
      /\ claim' = claim \/ claim'.revision = claim.revision + 1
  <2>1. claim.revision + 1 \in Nat /\ ready \in BOOLEAN
    BY <1>1
  <2> HIDE DEF ready
  <2>2. QED
    BY <1>1, <1>4, <2>1
<1>6. claim' = claim => withdrawal' = withdrawal
  BY DEF Bind, CheckedAnew
<1>7. withdrawal' \in Consents \cup {0}
  BY <1>1 DEF Bind, CheckedAnew, RecordTypes
<1>8. CASE receiver' = [receiver EXCEPT ![p] = IdleReceiver] /\ claim' = claim
  BY <1>2, <1>6, <1>8, ReceiverStops
<1>9. CASE receiver' = [receiver EXCEPT ![p] = Holding("result", k, receipt)]
  <2>1. receiver' = [receiver EXCEPT ![p] = state]
    BY <1>9
  <2> HIDE DEF state
  <2>2. receiver'[p] = state
    BY <1>1, <2>1
  <2>3. ReceiverOK(p)'
    BY <1>1, <1>2, <1>3, <1>5, <2>2 DEF ReceiverOK, world
  <2>4. RecordTypes' /\ StoreInv' /\ ReportInv' /\ Kept
    BY <1>1, <1>2, <1>5, <1>7 DEF RecordTypes, StoreInv, ReportInv, Kept, world
  <2>5. QED
    BY <1>2, <1>3, <1>5, <2>1, <2>3, <2>4, ReceiverMoves DEF world
<1>10. QED
  BY <1>8, <1>9 DEF Bind

\* A result is written for the routed task, whose receipt is known.
LEMMA ResultSteps ==
  ASSUME IInv, NEW p \in Receivers, SaveResult(p) \/ Verify(p)
  PROVE  IInv'
<1> DEFINE k == receiver[p].consent
           state == [receiver[p] EXCEPT !.pc = "verify"]
<1>1. /\ receiver \in [Receivers -> ReceiverStates] /\ receiver[p] \in ReceiverStates
      /\ returned[k] = receiver[p].receipt /\ returned[k] # NoReceipt
      /\ k \in Consents /\ k = claim.routing
      /\ RecordTypes /\ StoreInv /\ ReportInv
  BY ReceiverFacts DEF SaveResult, Verify, ReceiverOK, NoReceipt
<1>2. UNCHANGED <<claim, consents, withdrawal, operation, task, request, material, world, caller,
                  reconciler>>
  BY DEF SaveResult, Verify
<1>3. CASE result' = result /\ receiver' = [receiver EXCEPT ![p] = IdleReceiver]
  BY <1>2, <1>3, ReceiverStops
<1>4. ASSUME NEW how \in {"unverified", "verified"}, result' = [result EXCEPT ![k] = how],
             NEW next \in ReceiverStates, receiver' = [receiver EXCEPT ![p] = next],
             next.pc = "idle" \/ (next.pc = "verify" /\ next.consent = k
                                    /\ next.receipt = receiver[p].receipt)
      PROVE  IInv'
  <2>1. RecordTypes' /\ StoreInv' /\ Kept
    BY <1>1, <1>2, <1>4 DEF RecordTypes, StoreInv, Kept, world
  <2>2. ReportInv'
    BY <1>1, <1>2, <1>4 DEF ReportInv, RecordTypes, world
  <2>3. receiver'[p] = next
    BY <1>1, <1>4
  <2>4. ReceiverOK(p)'
    BY <1>1, <1>2, <1>4, <2>3 DEF ReceiverOK, world
  <2>5. QED
    BY <1>2, <1>4, <2>1, <2>2, <2>4, ReceiverMoves DEF world
<1>5. CASE SaveResult(p)
  <2>1. CASE /\ result' = [result EXCEPT ![k] = "unverified"]
             /\ receiver' = [receiver EXCEPT ![p].pc = "verify"]
    <3>1. /\ state \in ReceiverStates /\ state.pc = "verify" /\ state.consent = k
          /\ state.receipt = receiver[p].receipt
          /\ receiver' = [receiver EXCEPT ![p] = state]
      BY <1>1, <2>1 DEF ReceiverStates
    <3> HIDE DEF state
    <3>2. QED
      BY <1>4, <2>1, <3>1
  <2>2. QED
    BY <1>3, <1>5, <2>1 DEF SaveResult
<1>6. CASE Verify(p)
  BY <1>3, <1>4, <1>6, IdleStates DEF Verify
<1>7. QED
  BY <1>5, <1>6

LEMMA ReceiverSteps ==
  ASSUME IInv, NEW p \in Receivers,
         \/ AskReport(p) \/ Arrive(p) \/ Bind(p) \/ SaveResult(p) \/ Verify(p)
         \/ \E r \in Revisions : Receive(p, r)
  PROVE  IInv'
<1>1. Revisions \subseteq Nat
  BY DEF Revisions
<1>2. QED
  BY <1>1, AskReportStep, ArriveStep, BindStep, ResultSteps, ReceiveStep

-----------------------------------------------------------------------------
(* The theorems.                                                           *)

LEMMA InterruptStep ==
  ASSUME IInv, Interrupt
  PROVE  IInv'
<1>1. UNCHANGED <<claim, consents, withdrawal, operation, task, request, material, result, world>>
  BY DEF Interrupt, records
<1>2. ASSUME NEW c \in Callers, Stop(c), UNCHANGED <<reconciler, receiver>>
      PROVE  IInv'
  BY <1>1, <1>2, CallerStops
<1>3. ASSUME NEW q \in Reconcilers, UNCHANGED <<caller, receiver>>,
             reconciler' = [reconciler EXCEPT ![q] = IdleReconciler]
      PROVE  IInv'
  BY <1>1, <1>3, ReconcilerStops
<1>4. ASSUME NEW p \in Receivers, UNCHANGED <<caller, reconciler>>,
             receiver' = [receiver EXCEPT ![p] = IdleReceiver]
      PROVE  IInv'
  BY <1>1, <1>4, ReceiverStops
<1>5. QED
  BY <1>2, <1>3, <1>4 DEF Interrupt

LEMMA InvariantStep ==
  ASSUME IInv, [Next]_vars
  PROVE  IInv'
<1>1. CASE Next
  BY <1>1, ClaimantSteps, CallerOrAsk, ReconcilerSteps, ReceiverSteps, InterruptStep DEF Next
<1>2. CASE UNCHANGED vars
  <2>1. UNCHANGED <<claim, consents, withdrawal, operation, task, request, material, result,
                    world, caller, reconciler, receiver>>
    BY <1>2 DEF vars, world
  <2>2. /\ claim \in [revision : Nat, routing : Consents \cup {0}, bound : BOOLEAN]
        /\ consents \in [Consents -> {"none", "granted", "withdrawn"}]
        /\ withdrawal \in Consents \cup {0}
    BY DEF IInv, TypeInv, RecordTypes
  <2>3. QED
    BY <2>1, <2>2, ClaimMoves
<1>3. QED
  BY <1>1, <1>2

LEMMA InvariantInit ==
  ASSUME Init
  PROVE  IInv
<1>1. RecordTypes
  BY NoTaskTyped DEF Init, RecordTypes, Statuses, RequestType, Routed
<1>2. ThreadTypes
  BY IdleStates DEF Init, ThreadTypes
<1>3. StoreInv /\ ReportInv
  BY DEF Init, StoreInv, ReportInv, NoTask
<1>4. ThreadsInv
  BY IdleStates
  DEF Init, ThreadsInv, CallersInv, OneHolder, CallerOK, ReconcilerOK, ReceiverOK, Holders
<1>5. QED
  BY <1>1, <1>2, <1>3, <1>4 DEF IInv, TypeInv

LEMMA InvariantHolds == Spec => []IInv
<1>1. IInv /\ [Next]_vars => IInv'
  BY InvariantStep
<1>2. QED
  BY <1>1, InvariantInit, PTL DEF Spec

\* All records and threads keep their types, revisions and the order of
\* settlements unbounded.
THEOREM TypeCorrect == Spec => []TypeInv
<1>1. IInv => TypeInv
  BY DEF IInv
<1>2. QED
  BY <1>1, InvariantHolds, PTL

\* A routing on the Claim rests on a request the provider holds, a recorded
\* send, an accepted operation and task, and linked material, whichever of the
\* interrupted runs of route_assessor and of the reconciliations wrote them.
THEOREM RoutingIsBacked == Spec => []RoutingBacked
<1>1. IInv => RoutingBacked
  BY DEF IInv, TypeInv, RecordTypes, StoreInv, RoutingBacked
<1>2. QED
  BY <1>1, InvariantHolds, PTL

\* A result is of the routed task and of the one receipt that the provider
\* answered, however receipts overlap (receive_assessor_result).
THEOREM ResultIsTraced == Spec => []ResultTraced
<1>1. IInv => ResultTraced
  BY DEF IInv, TypeInv, RecordTypes, StoreInv, ReportInv, ResultTraced, Consents
<1>2. QED
  BY <1>1, InvariantHolds, PTL

\* A request of unknown outcome is not sent again: its reservation outlives
\* the attempt, and only its one holder could give it back (route_assessor).
THEOREM UnknownIsNotResent == Spec => UnknownNotResent
<1>1. ASSUME IInv, NEW c \in Callers, Call(c)
      PROVE  task[caller[c].consent].status # "unknown"
  <2>1. caller[c].pc = "call" /\ caller[c].pc # "idle"
    BY <1>1 DEF Call
  <2>2. CallerOK(c) /\ caller[c].consent \in Consents /\ StoreInv
    BY <1>1, <2>1, CallerFacts
  <2>3. QED
    BY <2>1, <2>2 DEF CallerOK, Holders, StoreInv
<1>2. IInv => [\A c \in Callers : Call(c) => task[caller[c].consent].status # "unknown"]_vars
  BY <1>1
<1>3. QED
  BY <1>2, InvariantHolds, PTL DEF UnknownNotResent
=============================================================================
