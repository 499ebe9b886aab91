------------------------- MODULE MessageTurnProofs -------------------------
(***************************************************************************)
(* Proofs about MessageTurn, for every set of threads, keys, messages and  *)
(* recovery rules and for every bound.                                     *)
(***************************************************************************)
EXTENDS MessageTurn, TLAPS

USE MessageTurnAssumption

\* The stages at which a thread relies on the record of its key.
Held == {"safety", "model", "recover", "commit", "freeze", "settling"}

\* A thread past acceptance finds the record of its key, and one about to
\* freeze its response finds the answer in it.
Holding ==
  \A w \in Requests :
    /\ req[w].at \in Held => record[req[w].key] # NoRecord
    /\ req[w].at = "freeze" => record[req[w].key].result = "answer"

\* What was told under a key is what its record says.
ToldAsRecorded ==
  \A k \in Keys : \A r \in told[k] :
    /\ record[k] # NoRecord
    /\ r.result = record[k].result
    /\ r.revision = record[k].revision

RecordInv == TypeOK /\ Holding /\ ToldAsRecorded

----------------------------------------------------------------------------
(***************************************************************************)
(* What any step of the thread w does to the records and the threads.      *)
(***************************************************************************)
OnlyThread(w) == \A v \in Requests : v # w => req'[v] = req[v]

\* Records are never removed nor given to another message, and an outcome
\* is never replaced.
RecordsKept ==
  \A k \in Keys : record[k] # NoRecord =>
    /\ record'[k] # NoRecord
    /\ record'[k].message = record[k].message
    /\ record[k].result # "open" =>
         \/ record'[k] = record[k]
         \/ /\ record[k].result = "answer"
            /\ record'[k] = [record[k] EXCEPT !.frozen = TRUE]

\* A response that is sent is the one the record has.
ToldTruly ==
  \A k \in Keys : \A r \in told'[k] :
    \/ r \in told[k]
    \/ /\ record'[k] # NoRecord
       /\ r.result = record'[k].result
       /\ r.revision = record'[k].revision

ThreadHolds(w) ==
  /\ req'[w].at \in Held => record'[req'[w].key] # NoRecord
  /\ req'[w].at = "freeze" => record'[req'[w].key].result = "answer"

Effect(w) ==
  TypeOK' /\ OnlyThread(w) /\ RecordsKept /\ ToldTruly /\ ThreadHolds(w)

LEMMA Active ==
  ASSUME TypeOK, NEW w \in Requests, req[w].at \in Stages
  PROVE  req[w] \in Request
BY DEF TypeOK, Idle, Stages

\* A finished outcome keeps its result and its revision.
LEMMA OutcomeStays ==
  ASSUME TypeOK, RecordsKept, NEW k \in Keys, record[k] # NoRecord,
         record[k].result # "open"
  PROVE  /\ record'[k].result = record[k].result
         /\ record'[k].revision = record[k].revision
<1>1. record[k] \in IdempotencyRecord
  BY DEF TypeOK
<1>2. CASE record'[k] = record[k]
  BY <1>2
<1>3. CASE record'[k] = [record[k] EXCEPT !.frozen = TRUE]
  BY <1>1, <1>3 DEF IdempotencyRecord
<1>4. QED
  BY <1>2, <1>3 DEF RecordsKept

LEMMA EffectKeepsInv ==
  ASSUME RecordInv, NEW w \in Requests, Effect(w)
  PROVE  RecordInv'
<1>1. ToldAsRecorded'
  <2>1. SUFFICES ASSUME NEW k \in Keys, NEW r \in told'[k]
                 PROVE  /\ record'[k] # NoRecord
                        /\ r.result = record'[k].result
                        /\ r.revision = record'[k].revision
    BY DEF ToldAsRecorded
  <2>2. CASE r \in told[k]
    <3>1. /\ record[k] # NoRecord
          /\ r.result = record[k].result
          /\ r.revision = record[k].revision
      BY <2>2 DEF RecordInv, ToldAsRecorded
    <3>2. r \in Response
      BY <2>2 DEF RecordInv, TypeOK
    <3>3. record[k].result # "open"
      BY <3>1, <3>2 DEF Response
    <3>4. QED
      BY <3>1, <3>3, OutcomeStays DEF Effect, RecordsKept, RecordInv
  <2>3. QED
    BY <2>2 DEF Effect, ToldTruly
<1>2. Holding'
  <2>1. SUFFICES ASSUME NEW v \in Requests
                 PROVE  /\ req'[v].at \in Held => record'[req'[v].key] # NoRecord
                        /\ req'[v].at = "freeze" => record'[req'[v].key].result = "answer"
    BY DEF Holding
  <2>2. CASE v = w
    BY <2>2 DEF Effect, ThreadHolds
  <2>3. CASE v # w
    <3>1. req'[v] = req[v]
      BY <2>3 DEF Effect, OnlyThread
    <3>2. CASE req[v].at \in Held
      <4>1. record[req[v].key] # NoRecord
        BY <3>2 DEF RecordInv, Holding
      <4>2. req[v] \in Request
        BY <3>2, Active DEF RecordInv, Held, Stages
      <4>3. req[v].key \in Keys
        BY <4>2 DEF Request
      <4>4. record'[req[v].key] # NoRecord
        BY <4>1, <4>3 DEF Effect, RecordsKept
      <4>5. ASSUME req[v].at = "freeze" PROVE record'[req[v].key].result = "answer"
        <5>1. record[req[v].key].result = "answer"
          BY <4>5 DEF RecordInv, Holding
        <5>2. QED
          BY <5>1, <4>1, <4>3, OutcomeStays DEF Effect, RecordInv
      <4>6. QED
        BY <3>1, <4>4, <4>5
    <3>3. CASE req[v].at \notin Held
      BY <3>1, <3>3 DEF Held
    <3>4. QED
      BY <3>2, <3>3
  <2>4. QED
    BY <2>2, <2>3
<1>3. QED
  BY <1>1, <1>2 DEF RecordInv, Effect

----------------------------------------------------------------------------
(***************************************************************************)
(* The pieces the actions are made of.                                     *)
(***************************************************************************)
LEMMA ThreadMoves ==
  ASSUME TypeOK, NEW w \in Requests, NEW t \in Request \union {Idle},
         req' = [req EXCEPT ![w] = t]
  PROVE  /\ req' \in [Requests -> Request \union {Idle}]
         /\ req'[w] = t
         /\ OnlyThread(w)
BY DEF TypeOK, OnlyThread

LEMMA Goes ==
  ASSUME TypeOK, NEW w \in Requests, req[w] \in Request, NEW s \in Stages,
         GoTo(w, s)
  PROVE  /\ req' \in [Requests -> Request \union {Idle}]
         /\ req'[w] = [req[w] EXCEPT !.at = s]
         /\ req'[w].at = s /\ req'[w].key = req[w].key
         /\ OnlyThread(w)
<1>1. [req[w] EXCEPT !.at = s] \in Request
  BY DEF Request
<1>2. req' = [req EXCEPT ![w] = [req[w] EXCEPT !.at = s]]
  BY DEF GoTo, TypeOK
<1>3. /\ req' \in [Requests -> Request \union {Idle}]
      /\ req'[w] = [req[w] EXCEPT !.at = s]
      /\ OnlyThread(w)
  BY <1>1, <1>2, ThreadMoves
<1>4. QED
  BY <1>3 DEF Request

LEMMA Refuses ==
  ASSUME TypeOK, NEW w \in Requests, req[w] \in Request, Refuse(w)
  PROVE  /\ req' \in [Requests -> Request \union {Idle}]
         /\ req'[w] = [req[w] EXCEPT !.at = "settle"]
         /\ req'[w].at = "settle"
         /\ OnlyThread(w)
<1>1. "settle" \in Stages
  BY DEF Stages
<1>2. QED
  BY <1>1, Goes DEF Refuse

LEMMA Ends ==
  ASSUME TypeOK, NEW w \in Requests, End(w)
  PROVE  /\ req' \in [Requests -> Request \union {Idle}]
         /\ req'[w] = Idle
         /\ req'[w].at = "idle"
         /\ OnlyThread(w)
<1>1. Idle \in Request \union {Idle}
  OBVIOUS
<1>2. QED
  BY <1>1, ThreadMoves DEF End, Idle

\* A thread outside the stages that rely on a record relies on none.
LEMMA HoldsNothing ==
  ASSUME NEW w \in Requests, req'[w].at \notin Held
  PROVE  ThreadHolds(w)
BY DEF ThreadHolds, Held

LEMMA SameRecords ==
  ASSUME record' = record
  PROVE  RecordsKept
BY DEF RecordsKept

LEMMA SameTold ==
  ASSUME told' = told
  PROVE  ToldTruly
BY DEF ToldTruly

\* A record that is not there, or that is open, is given an outcome.
LEMMA RecordWritten ==
  ASSUME TypeOK, NEW k \in Keys, NEW r \in IdempotencyRecord,
         record[k] = NoRecord \/ (record[k].result = "open" /\ r.message = record[k].message),
         record' = [record EXCEPT ![k] = r]
  PROVE  /\ record' \in [Keys -> IdempotencyRecord \union {NoRecord}]
         /\ record'[k] = r
         /\ RecordsKept
<1>1. /\ record' \in [Keys -> IdempotencyRecord \union {NoRecord}]
      /\ record'[k] = r
      /\ \A j \in Keys : j # k => record'[j] = record[j]
  BY DEF TypeOK
<1>2. RecordsKept
  BY <1>1, NoRecordAssumption DEF RecordsKept
<1>3. QED
  BY <1>1, <1>2

LEMMA Responds ==
  ASSUME TypeOK, NEW w \in Requests, req[w] \in Request,
         NEW result \in {"recovery", "saved", "answer"}, NEW revision \in Nat,
         Respond(w, result, revision),
         record'[req[w].key] # NoRecord,
         record'[req[w].key].result = result,
         record'[req[w].key].revision = revision
  PROVE  /\ told' \in [Keys -> SUBSET Response]
         /\ ToldTruly
         /\ req' \in [Requests -> Request \union {Idle}]
         /\ req'[w].at = "idle"
         /\ OnlyThread(w)
<1> DEFINE x == [result |-> result, revision |-> revision]
           k == req[w].key
<1>1. x \in Response /\ x.result = result /\ x.revision = revision
  BY DEF Response
<1>2. k \in Keys
  BY DEF Request
<1>3. told' = [told EXCEPT ![k] = told[k] \union {x}]
  BY <1>2 DEF Respond, TypeOK
<1> HIDE DEF x, k
<1>4. told' \in [Keys -> SUBSET Response]
  BY <1>1, <1>2, <1>3 DEF TypeOK
<1>5. told'[k] = told[k] \union {x} /\ \A j \in Keys : j # k => told'[j] = told[j]
  BY <1>2, <1>3 DEF TypeOK
<1>6. ToldTruly
  <2>1. SUFFICES ASSUME NEW j \in Keys, NEW r \in told'[j], r \notin told[j]
                 PROVE  /\ record'[j] # NoRecord
                        /\ r.result = record'[j].result
                        /\ r.revision = record'[j].revision
    BY DEF ToldTruly
  <2>2. j = k /\ r = x
    BY <1>5, <2>1
  <2>3. QED
    BY <2>2, <1>1 DEF k
<1>7. QED
  BY <1>4, <1>6, Ends DEF Respond

\* The stored outcome is sent again.
LEMMA Replays ==
  ASSUME TypeOK, NEW w \in Requests, req[w] \in Request,
         NEW r \in IdempotencyRecord, Replay(w, r),
         record'[req[w].key] = r
  PROVE  /\ told' \in [Keys -> SUBSET Response]
         /\ ToldTruly
         /\ req' \in [Requests -> Request \union {Idle}]
         /\ req'[w].at \in {"idle", "settle"}
         /\ OnlyThread(w)
<1>1. CASE r.result = "open"
  <2>1. Refuse(w) /\ told' = told
    BY <1>1 DEF Replay
  <2>2. QED
    BY <2>1, Refuses, SameTold DEF TypeOK
<1>2. CASE r.result = "error"
  <2>1. End(w) /\ told' = told
    BY <1>2 DEF Replay
  <2>2. QED
    BY <2>1, Ends, SameTold DEF TypeOK
<1>3. CASE r.result \notin {"open", "error"}
  <2>1. Respond(w, r.result, r.revision)
    BY <1>3 DEF Replay
  <2>2. r.result \in {"recovery", "saved", "answer"} /\ r.revision \in Nat
    BY <1>3 DEF IdempotencyRecord, Results
  <2>3. QED
    BY <2>1, <2>2, Responds, NoRecordAssumption
<1>4. QED
  BY <1>1, <1>2, <1>3

----------------------------------------------------------------------------
(***************************************************************************)
(* Every action has such an effect.                                        *)
(***************************************************************************)
LEMMA SubmitEffect ==
  ASSUME RecordInv, NEW w \in Requests, Submit(w)
  PROVE  Effect(w)
<1>1. TypeOK
  BY DEF RecordInv
<1>2. PICK k \in Keys, m \in Messages, e \in 1..Revision :
        req' = [req EXCEPT ![w] =
                 [at |-> "find", key |-> k, message |-> m, expected |-> e,
                  retry |-> FALSE, rule |-> NoRule, before |-> 0,
                  confirm |-> FALSE, revision |-> 0]]
  BY DEF Submit
<1>3. [at |-> "find", key |-> k, message |-> m, expected |-> e,
       retry |-> FALSE, rule |-> NoRule, before |-> 0,
       confirm |-> FALSE, revision |-> 0] \in Request
  BY DEF Request, Stages
<1>4. /\ req' \in [Requests -> Request \union {Idle}]
      /\ req'[w].at = "find"
      /\ OnlyThread(w)
  BY <1>1, <1>2, <1>3, ThreadMoves
<1>5. TypeOK'
  <2>1. sent' \in 0..MaxRequests
    BY <1>1 DEF Submit, TypeOK
  <2>2. QED
    BY <1>1, <1>4, <2>1 DEF Submit, TypeOK
<1>6. ThreadHolds(w)
  BY <1>4, HoldsNothing DEF Held
<1>7. RecordsKept /\ ToldTruly
  BY SameRecords, SameTold DEF Submit
<1>8. QED
  BY <1>4, <1>5, <1>6, <1>7 DEF Effect

LEMMA FindKeyEffect ==
  ASSUME RecordInv, NEW w \in Requests, FindKey(w)
  PROVE  Effect(w)
<1> DEFINE r == record[req[w].key]
<1>1. TypeOK
  BY DEF RecordInv
<1>2. req[w] \in Request
  BY <1>1, Active DEF FindKey, At, Stages
<1>3. /\ told' \in [Keys -> SUBSET Response]
      /\ ToldTruly
      /\ req' \in [Requests -> Request \union {Idle}]
      /\ req'[w].at \in {"classify", "idle", "settle"}
      /\ OnlyThread(w)
  <2>1. CASE GoTo(w, "classify") /\ told' = told
    <3>1. "classify" \in Stages
      BY DEF Stages
    <3>2. QED
      BY <1>1, <1>2, <2>1, <3>1, Goes, SameTold DEF TypeOK
  <2>2. CASE r # NoRecord /\ Replay(w, r)
    <3>1. r \in IdempotencyRecord /\ record'[req[w].key] = r
      BY <1>1, <1>2, <2>2 DEF TypeOK, Request, FindKey
    <3>2. QED
      BY <1>1, <1>2, <2>2, <3>1, Replays
  <2>3. CASE Refuse(w) /\ told' = told
    BY <1>1, <1>2, <2>3, Refuses, SameTold DEF TypeOK
  <2>4. QED
    BY <2>1, <2>2, <2>3 DEF FindKey
<1>4. TypeOK'
  BY <1>1, <1>3 DEF FindKey, TypeOK
<1>5. ThreadHolds(w)
  BY <1>3, HoldsNothing DEF Held
<1>6. RecordsKept
  BY SameRecords DEF FindKey
<1>7. QED
  BY <1>3, <1>4, <1>5, <1>6 DEF Effect

LEMMA ClassifyEffect ==
  ASSUME RecordInv, NEW w \in Requests, Classify(w)
  PROVE  Effect(w)
<1>1. TypeOK
  BY DEF RecordInv
<1>2. req[w] \in Request
  BY <1>1, Active DEF Classify, At, Stages
<1>3. /\ req' \in [Requests -> Request \union {Idle}]
      /\ req'[w].at \in {"load", "alias"}
      /\ OnlyThread(w)
  <2>1. CASE \E s \in {"load", "alias"} : GoTo(w, s)
    <3>1. {"load", "alias"} \subseteq Stages
      BY DEF Stages
    <3>2. QED
      BY <1>1, <1>2, <2>1, <3>1, Goes
  <2>2. CASE \E c \in Checkpoints(req[w].message) :
                req' = [req EXCEPT ![w].at = "load", ![w].retry = TRUE,
                             ![w].rule = message[req[w].message].recovery,
                             ![w].before = record[c].before,
                             ![w].confirm = record[c].confirm]
    <3>1. PICK c \in Checkpoints(req[w].message) :
                req' = [req EXCEPT ![w].at = "load", ![w].retry = TRUE,
                             ![w].rule = message[req[w].message].recovery,
                             ![w].before = record[c].before,
                             ![w].confirm = record[c].confirm]
      BY <2>2
    <3>2. c \in Keys /\ record[c] # NoRecord
      BY DEF Checkpoints, KeysOf
    <3>3. record[c].before \in Nat /\ record[c].confirm \in BOOLEAN
      BY <1>1, <3>2 DEF TypeOK, IdempotencyRecord
    <3>4. message[req[w].message].recovery \in Rules \union {NoRule}
      BY <1>1, <1>2 DEF TypeOK, Request, MessageRecord
    <3> DEFINE t == [req[w] EXCEPT !.at = "load", !.retry = TRUE,
                             !.rule = message[req[w].message].recovery,
                             !.before = record[c].before,
                             !.confirm = record[c].confirm]
    <3>5. t \in Request /\ t.at = "load"
      BY <1>2, <3>3, <3>4 DEF Request, Stages
    <3>6. req' = [req EXCEPT ![w] = t]
      BY <1>1, <3>1 DEF TypeOK
    <3> HIDE DEF t
    <3>7. QED
      BY <1>1, <3>5, <3>6, ThreadMoves
  <2>3. QED
    BY <2>1, <2>2 DEF Classify
<1>4. TypeOK'
  BY <1>1, <1>3 DEF Classify, TypeOK
<1>5. ThreadHolds(w)
  BY <1>3, HoldsNothing DEF Held
<1>6. RecordsKept /\ ToldTruly
  BY SameRecords, SameTold DEF Classify
<1>7. QED
  BY <1>3, <1>4, <1>5, <1>6 DEF Effect

LEMMA AliasEffect ==
  ASSUME RecordInv, NEW w \in Requests, Alias(w)
  PROVE  Effect(w)
<1> DEFINE k == req[w].key
<1>1. TypeOK
  BY DEF RecordInv
<1>2. req[w] \in Request /\ k \in Keys
  BY <1>1, Active DEF Alias, At, Stages, Request
<1>3. /\ told' \in [Keys -> SUBSET Response]
      /\ ToldTruly
      /\ req' \in [Requests -> Request \union {Idle}]
      /\ req'[w].at \in {"idle", "settle"}
      /\ OnlyThread(w)
      /\ record' \in [Keys -> IdempotencyRecord \union {NoRecord}]
      /\ RecordsKept
  <2>1. CASE Refuse(w) /\ record' = record /\ told' = told
    BY <1>1, <1>2, <2>1, Refuses, SameTold, SameRecords DEF TypeOK
  <2>2. CASE \E o \in Best(req[w].message) :
               /\ MayAlias(k, o)
               /\ record' = [record EXCEPT ![k] = record[o]]
               /\ Replay(w, record[o])
    <3>1. PICK o \in Best(req[w].message) :
               /\ MayAlias(k, o)
               /\ record' = [record EXCEPT ![k] = record[o]]
               /\ Replay(w, record[o])
      BY <2>2
    <3>2. o \in Keys /\ record[o] \in IdempotencyRecord
      BY <1>1 DEF Best, KeysOf, TypeOK
    <3>3. /\ record' \in [Keys -> IdempotencyRecord \union {NoRecord}]
          /\ record'[k] = record[o]
          /\ RecordsKept
      <4>1. CASE record[k] = NoRecord
        BY <1>1, <1>2, <3>1, <3>2, <4>1, RecordWritten
      <4>2. CASE record[k] = record[o]
        <5>1. record' = record
          BY <1>1, <1>2, <3>1, <4>2 DEF TypeOK
        <5>2. QED
          BY <1>1, <5>1, <4>2, SameRecords DEF TypeOK
      <4>3. QED
        BY <3>1, <4>1, <4>2 DEF MayAlias
    <3>4. QED
      BY <1>1, <1>2, <3>1, <3>2, <3>3, Replays
  <2>3. QED
    BY <2>1, <2>2 DEF Alias
<1>4. TypeOK'
  BY <1>1, <1>3 DEF Alias, TypeOK
<1>5. ThreadHolds(w)
  BY <1>3, HoldsNothing DEF Held
<1>6. QED
  BY <1>3, <1>4, <1>5 DEF Effect

\* The revision is a positive number and grows by one with each write.
LEMMA RevisionGrows ==
  ASSUME TypeOK
  PROVE  /\ Revision \in Nat /\ Revision >= 1
         /\ \A x \in Messages \union {Other} :
              /\ Append(log, x) \in Seq(Messages \union {Other})
              /\ log' = Append(log, x) => Revision' = Revision + 1
BY DEF TypeOK, Revision

LEMMA StillHolds ==
  ASSUME RecordInv, NEW w \in Requests, req[w].at \in Held, record' = record,
         req'[w].key = req[w].key, req'[w].at # "freeze"
  PROVE  ThreadHolds(w)
BY DEF RecordInv, Holding, ThreadHolds

LEMMA LoadEffect ==
  ASSUME RecordInv, NEW w \in Requests, Load(w)
  PROVE  Effect(w)
<1>1. TypeOK
  BY DEF RecordInv
<1>2. req[w] \in Request
  BY <1>1, Active DEF Load, At, Stages
<1>3. /\ req' \in [Requests -> Request \union {Idle}]
      /\ req'[w].at \in {"settle", "idle", "handover", "accept"}
      /\ OnlyThread(w)
  <2>1. CASE Refuse(w)
    BY <1>1, <1>2, <2>1, Refuses
  <2>2. CASE End(w)
    BY <1>1, <2>2, Ends
  <2>3. CASE GoTo(w, "handover")
    <3>1. "handover" \in Stages
      BY DEF Stages
    <3>2. QED
      BY <1>1, <1>2, <2>3, <3>1, Goes
  <2>4. CASE \E before, confirm :
               /\ before \in Nat /\ confirm \in BOOLEAN
               /\ req' = [req EXCEPT ![w].at = "accept",
                                ![w].before = before, ![w].confirm = confirm]
    <3>1. PICK before, confirm :
               /\ before \in Nat /\ confirm \in BOOLEAN
               /\ req' = [req EXCEPT ![w].at = "accept",
                                ![w].before = before, ![w].confirm = confirm]
      BY <2>4
    <3> DEFINE t == [req[w] EXCEPT !.at = "accept", !.before = before, !.confirm = confirm]
    <3>2. t \in Request /\ t.at = "accept"
      BY <1>2, <3>1 DEF Request, Stages
    <3>3. req' = [req EXCEPT ![w] = t]
      BY <1>1, <3>1 DEF TypeOK
    <3> HIDE DEF t
    <3>4. QED
      BY <1>1, <3>2, <3>3, ThreadMoves
  <2>5. CASE \E shown \in BOOLEAN :
               LET before == IF req[w].retry THEN req[w].before ELSE Revision
                   confirm == IF req[w].retry THEN ConfirmationKept(w) ELSE shown
               IN /\ req[w].retry => shown
                  /\ req' = [req EXCEPT ![w].at = "accept",
                               ![w].before = before, ![w].confirm = confirm]
    <3>1. PICK shown \in BOOLEAN :
            req' = [req EXCEPT ![w].at = "accept",
                      ![w].before = IF req[w].retry THEN req[w].before ELSE Revision,
                      ![w].confirm = IF req[w].retry THEN ConfirmationKept(w) ELSE shown]
      BY <2>5
    <3>2. (IF req[w].retry THEN req[w].before ELSE Revision) \in Nat
      BY <1>1, <1>2, RevisionGrows DEF Request
    <3>3. ConfirmationKept(w) \in BOOLEAN
      BY DEF ConfirmationKept
    <3>4. (IF req[w].retry THEN ConfirmationKept(w) ELSE shown) \in BOOLEAN
      BY <3>3
    <3>5. QED
      BY <2>4, <3>1, <3>2, <3>4
  <2>6. QED
    BY <2>1, <2>2, <2>3, <2>5 DEF Load
<1>4. TypeOK'
  BY <1>1, <1>3 DEF Load, TypeOK
<1>5. ThreadHolds(w)
  BY <1>3, HoldsNothing DEF Held
<1>6. RecordsKept /\ ToldTruly
  BY SameRecords, SameTold DEF Load
<1>7. QED
  BY <1>3, <1>4, <1>5, <1>6 DEF Effect

LEMMA Saves ==
  ASSUME TypeOK, NEW w \in Requests, req[w] \in Request,
         NEW r \in IdempotencyRecord, KeyFree(w), SaveMessage(w, r)
  PROVE  /\ log' \in Seq(Messages \union {Other})
         /\ message' \in [Messages -> MessageRecord]
         /\ record' \in [Keys -> IdempotencyRecord \union {NoRecord}]
         /\ record'[req[w].key] = r
         /\ RecordsKept
         /\ \A m \in Messages : message[m].saved => message'[m].saved
         /\ message'[req[w].message].saved
<1>1. req[w].key \in Keys /\ req[w].message \in Messages
  BY DEF Request
<1>2. log' \in Seq(Messages \union {Other})
  BY <1>1, RevisionGrows DEF SaveMessage
<1>3. /\ record' \in [Keys -> IdempotencyRecord \union {NoRecord}]
      /\ record'[req[w].key] = r
      /\ RecordsKept
  BY <1>1, RecordWritten DEF SaveMessage, KeyFree
<1>4. /\ message' \in [Messages -> MessageRecord]
      /\ \A m \in Messages : message[m].saved => message'[m].saved
      /\ message'[req[w].message].saved
  BY <1>1 DEF SaveMessage, TypeOK, MessageRecord
<1>5. QED
  BY <1>2, <1>3, <1>4

LEMMA CheckpointTyped ==
  ASSUME NEW m \in Messages, NEW b \in Nat, NEW c \in BOOLEAN, NEW i \in BOOLEAN
  PROVE  /\ Checkpoint(m, b, c, i) \in IdempotencyRecord
         /\ Checkpoint(m, b, c, i).message = m
BY DEF Checkpoint, IdempotencyRecord, Results

LEMMA HandoverEffect ==
  ASSUME RecordInv, NEW w \in Requests, Handover(w)
  PROVE  Effect(w)
<1>1. TypeOK
  BY DEF RecordInv
<1>2. req[w] \in Request /\ req[w].message \in Messages
  BY <1>1, Active DEF Handover, At, Stages, Request
<1>3. /\ log' \in Seq(Messages \union {Other})
      /\ message' \in [Messages -> MessageRecord]
      /\ record' \in [Keys -> IdempotencyRecord \union {NoRecord}]
      /\ told' \in [Keys -> SUBSET Response]
      /\ RecordsKept
      /\ ToldTruly
      /\ req' \in [Requests -> Request \union {Idle}]
      /\ req'[w].at \in {"idle", "settle"}
      /\ OnlyThread(w)
  <2>1. CASE /\ KeyFree(w)
             /\ SaveMessage(w, [Checkpoint(req[w].message, 0, FALSE, FALSE)
                                  EXCEPT !.result = "saved", !.revision = Revision + 1])
             /\ Respond(w, "saved", Revision + 1)
    <3> DEFINE r == [Checkpoint(req[w].message, 0, FALSE, FALSE)
                                  EXCEPT !.result = "saved", !.revision = Revision + 1]
    <3>1. Revision + 1 \in Nat
      BY <1>1, RevisionGrows
    <3>2. r \in IdempotencyRecord /\ r.result = "saved" /\ r.revision = Revision + 1
      BY <1>2, <3>1 DEF Checkpoint, IdempotencyRecord, Results
    <3>3. SaveMessage(w, r)
      BY <2>1
    <3> HIDE DEF r
    <3>4. /\ log' \in Seq(Messages \union {Other})
          /\ message' \in [Messages -> MessageRecord]
          /\ record' \in [Keys -> IdempotencyRecord \union {NoRecord}]
          /\ record'[req[w].key] = r
          /\ RecordsKept
      BY <1>1, <1>2, <2>1, <3>2, <3>3, Saves
    <3>5. r # NoRecord
      BY <3>2, NoRecordAssumption
    <3>6. QED
      BY <1>1, <1>2, <2>1, <3>1, <3>2, <3>4, <3>5, Responds
  <2>2. CASE /\ Refuse(w) \/ End(w)
             /\ UNCHANGED <<log, message, record, told>>
    BY <1>1, <1>2, <2>2, Refuses, Ends, SameRecords, SameTold DEF TypeOK
  <2>3. QED
    BY <2>1, <2>2 DEF Handover
<1>4. TypeOK'
  BY <1>1, <1>3 DEF Handover, TypeOK
<1>5. ThreadHolds(w)
  BY <1>3, HoldsNothing DEF Held
<1>6. QED
  BY <1>3, <1>4, <1>5 DEF Effect

LEMMA AcceptNewEffect ==
  ASSUME RecordInv, NEW w \in Requests, AcceptNew(w)
  PROVE  Effect(w)
<1>1. TypeOK
  BY DEF RecordInv
<1>2. req[w] \in Request /\ req[w].message \in Messages
  BY <1>1, Active DEF AcceptNew, At, Stages, Request
<1>3. /\ log' \in Seq(Messages \union {Other})
      /\ message' \in [Messages -> MessageRecord]
      /\ record' \in [Keys -> IdempotencyRecord \union {NoRecord}]
      /\ RecordsKept
      /\ req' \in [Requests -> Request \union {Idle}]
      /\ OnlyThread(w)
      /\ ThreadHolds(w)
  <2>1. CASE /\ KeyFree(w)
             /\ SaveMessage(w, Checkpoint(req[w].message, req[w].before,
                                          req[w].confirm, TRUE))
             /\ req' = [req EXCEPT ![w].at = "safety", ![w].expected = Revision + 1]
    <3> DEFINE r == Checkpoint(req[w].message, req[w].before, req[w].confirm, TRUE)
               t == [req[w] EXCEPT !.at = "safety", !.expected = Revision + 1]
    <3>1. r \in IdempotencyRecord
      BY <1>2, CheckpointTyped DEF Request
    <3>2. SaveMessage(w, r)
      BY <2>1
    <3>3. Revision + 1 \in Nat
      BY <1>1, RevisionGrows
    <3>4. t \in Request /\ t.at = "safety" /\ t.key = req[w].key
      BY <1>2, <3>3 DEF Request, Stages
    <3>5. req' = [req EXCEPT ![w] = t]
      BY <1>1, <2>1 DEF TypeOK
    <3> HIDE DEF r, t
    <3>6. /\ log' \in Seq(Messages \union {Other})
          /\ message' \in [Messages -> MessageRecord]
          /\ record' \in [Keys -> IdempotencyRecord \union {NoRecord}]
          /\ record'[req[w].key] = r
          /\ RecordsKept
      BY <1>1, <1>2, <2>1, <3>1, <3>2, Saves
    <3>7. /\ req' \in [Requests -> Request \union {Idle}]
          /\ req'[w] = t
          /\ OnlyThread(w)
      BY <1>1, <3>4, <3>5, ThreadMoves
    <3>8. ThreadHolds(w)
      BY <3>1, <3>4, <3>6, <3>7, NoRecordAssumption DEF ThreadHolds
    <3>9. QED
      BY <3>6, <3>7, <3>8
  <2>2. CASE Refuse(w) /\ UNCHANGED <<log, message, record>>
    <3>1. req'[w].at \notin Held
      BY <1>1, <1>2, <2>2, Refuses DEF Held
    <3>2. QED
      BY <1>1, <1>2, <2>2, <3>1, Refuses, HoldsNothing, SameRecords DEF TypeOK
  <2>3. QED
    BY <2>1, <2>2 DEF AcceptNew
<1>4. TypeOK'
  BY <1>1, <1>3 DEF AcceptNew, TypeOK
<1>5. ToldTruly
  BY SameTold DEF AcceptNew
<1>6. QED
  BY <1>3, <1>4, <1>5 DEF Effect

LEMMA AcceptRetryEffect ==
  ASSUME RecordInv, NEW w \in Requests, AcceptRetry(w)
  PROVE  Effect(w)
<1> DEFINE k == req[w].key
<1>1. TypeOK
  BY DEF RecordInv
<1>2. req[w] \in Request /\ req[w].message \in Messages /\ k \in Keys
  BY <1>1, Active DEF AcceptRetry, At, Stages, Request
<1>3. "safety" \in Stages
  BY DEF Stages
<1>4. /\ record' \in [Keys -> IdempotencyRecord \union {NoRecord}]
      /\ RecordsKept
      /\ req' \in [Requests -> Request \union {Idle}]
      /\ OnlyThread(w)
      /\ ThreadHolds(w)
  <2>1. CASE /\ record[k] = NoRecord
             /\ record' = [record EXCEPT ![k] =
                             Checkpoint(req[w].message, req[w].before,
                                        req[w].confirm, FALSE)]
             /\ GoTo(w, "safety")
    <3> DEFINE r == Checkpoint(req[w].message, req[w].before, req[w].confirm, FALSE)
    <3>1. r \in IdempotencyRecord
      BY <1>2, CheckpointTyped DEF Request
    <3>2. record' = [record EXCEPT ![k] = r]
      BY <2>1
    <3> HIDE DEF r
    <3>3. /\ record' \in [Keys -> IdempotencyRecord \union {NoRecord}]
          /\ record'[k] = r
          /\ RecordsKept
      BY <1>1, <1>2, <2>1, <3>1, <3>2, RecordWritten
    <3>4. /\ req' \in [Requests -> Request \union {Idle}]
          /\ req'[w].at = "safety" /\ req'[w].key = k
          /\ OnlyThread(w)
      BY <1>1, <1>2, <1>3, <2>1, Goes
    <3>5. ThreadHolds(w)
      BY <3>1, <3>3, <3>4, NoRecordAssumption DEF ThreadHolds
    <3>6. QED
      BY <3>3, <3>4, <3>5
  <2>2. CASE record[k] # NoRecord /\ GoTo(w, "safety") /\ record' = record
    <3>1. /\ req' \in [Requests -> Request \union {Idle}]
          /\ req'[w].at = "safety" /\ req'[w].key = k
          /\ OnlyThread(w)
      BY <1>1, <1>2, <1>3, <2>2, Goes
    <3>2. ThreadHolds(w)
      BY <2>2, <3>1 DEF ThreadHolds
    <3>3. QED
      BY <1>1, <2>2, <3>1, <3>2, SameRecords DEF TypeOK
  <2>3. CASE End(w) /\ record' = record
    <3>1. req'[w].at \notin Held
      BY <1>1, <2>3, Ends DEF Held
    <3>2. QED
      BY <1>1, <2>3, <3>1, Ends, HoldsNothing, SameRecords DEF TypeOK
  <2>4. QED
    BY <2>1, <2>2, <2>3 DEF AcceptRetry
<1>5. TypeOK'
  BY <1>1, <1>4 DEF AcceptRetry, TypeOK
<1>6. ToldTruly
  BY SameTold DEF AcceptRetry
<1>7. QED
  BY <1>4, <1>5, <1>6 DEF Effect

LEMMA SafetyEffect ==
  ASSUME RecordInv, NEW w \in Requests, Safety(w)
  PROVE  Effect(w)
<1>1. TypeOK
  BY DEF RecordInv
<1>2. req[w] \in Request /\ req[w].message \in Messages
  BY <1>1, Active DEF Safety, At, Stages, Request
<1>3. /\ log' \in Seq(Messages \union {Other})
      /\ conversation' \in {"agent", "human", "closed"}
      /\ notified' \subseteq Alarms
      /\ req' \in [Requests -> Request \union {Idle}]
      /\ req'[w].at \in {"model", "settle"} /\ req'[w].key = req[w].key
      /\ OnlyThread(w)
  <2>1. CASE GoTo(w, "model") /\ UNCHANGED <<log, conversation, notified>>
    <3>1. "model" \in Stages
      BY DEF Stages
    <3>2. QED
      BY <1>1, <1>2, <2>1, <3>1, Goes DEF TypeOK
  <2>2. CASE /\ Interrupts(req[w].message)
             /\ log' = Append(log, req[w].message)
             /\ conversation' = "human"
             /\ notified' = notified \union {req[w].message}
             /\ req' = [req EXCEPT ![w].at = "model", ![w].expected = Revision + 1]
    <3> DEFINE t == [req[w] EXCEPT !.at = "model", !.expected = Revision + 1]
    <3>1. Revision + 1 \in Nat
      BY <1>1, RevisionGrows
    <3>2. t \in Request /\ t.at = "model" /\ t.key = req[w].key
      BY <1>2, <3>1 DEF Request, Stages
    <3>3. req' = [req EXCEPT ![w] = t]
      BY <1>1, <2>2 DEF TypeOK
    <3> HIDE DEF t
    <3>4. /\ req' \in [Requests -> Request \union {Idle}]
          /\ req'[w] = t
          /\ OnlyThread(w)
      BY <1>1, <3>2, <3>3, ThreadMoves
    <3>5. log' \in Seq(Messages \union {Other})
      BY <1>1, <1>2, <2>2, RevisionGrows
    <3>6. notified' \subseteq Alarms
      BY <1>1, <2>2 DEF Interrupts, TypeOK
    <3>7. QED
      BY <2>2, <3>2, <3>4, <3>5, <3>6
  <2>3. CASE Refuse(w) /\ UNCHANGED <<log, conversation, notified>>
    BY <1>1, <1>2, <2>3, Refuses DEF TypeOK, Request
  <2>4. QED
    BY <2>1, <2>2, <2>3 DEF Safety
<1>4. TypeOK'
  BY <1>1, <1>3 DEF Safety, TypeOK
<1>5. ThreadHolds(w)
  BY <1>3, StillHolds DEF Safety, At, Held
<1>6. RecordsKept /\ ToldTruly
  BY SameRecords, SameTold DEF Safety
<1>7. QED
  BY <1>3, <1>4, <1>5, <1>6 DEF Effect

LEMMA ProposeEffect ==
  ASSUME RecordInv, NEW w \in Requests, Propose(w)
  PROVE  Effect(w)
<1>1. TypeOK
  BY DEF RecordInv
<1>2. req[w] \in Request
  BY <1>1, Active DEF Propose, At, Stages
<1>3. /\ req' \in [Requests -> Request \union {Idle}]
      /\ req'[w].at \in {"commit", "recover", "settle"} /\ req'[w].key = req[w].key
      /\ OnlyThread(w)
  <2>1. CASE GoTo(w, "commit")
    <3>1. "commit" \in Stages
      BY DEF Stages
    <3>2. QED
      BY <1>1, <1>2, <2>1, <3>1, Goes
  <2>2. CASE \E r \in Rules :
          req' = [req EXCEPT ![w].at = "recover", ![w].rule = r,
                             ![w].revision = Revision]
    <3>1. PICK r \in Rules :
          req' = [req EXCEPT ![w].at = "recover", ![w].rule = r,
                             ![w].revision = Revision]
      BY <2>2
    <3> DEFINE t == [req[w] EXCEPT !.at = "recover", !.rule = r, !.revision = Revision]
    <3>2. t \in Request /\ t.at = "recover" /\ t.key = req[w].key
      BY <1>1, <1>2, RevisionGrows DEF Request, Stages
    <3>3. req' = [req EXCEPT ![w] = t]
      BY <1>1, <3>1 DEF TypeOK
    <3> HIDE DEF t
    <3>4. QED
      BY <1>1, <3>2, <3>3, ThreadMoves
  <2>3. CASE Refuse(w)
    BY <1>1, <1>2, <2>3, Refuses DEF Request
  <2>4. QED
    BY <2>1, <2>2, <2>3 DEF Propose
<1>4. TypeOK'
  BY <1>1, <1>3 DEF Propose, TypeOK
<1>5. ThreadHolds(w)
  BY <1>3, StillHolds DEF Propose, At, Held
<1>6. RecordsKept /\ ToldTruly
  BY SameRecords, SameTold DEF Propose
<1>7. QED
  BY <1>3, <1>4, <1>5, <1>6 DEF Effect

\* The record of a thread that relies on one.
LEMMA HeldRecord ==
  ASSUME RecordInv, NEW w \in Requests, req[w].at \in Held
  PROVE  /\ req[w] \in Request
         /\ req[w].key \in Keys
         /\ record[req[w].key] \in IdempotencyRecord
<1>1. req[w] \in Request
  BY Active DEF RecordInv, Held, Stages
<1>2. req[w].key \in Keys
  BY <1>1 DEF Request
<1>3. QED
  BY <1>1, <1>2 DEF RecordInv, Holding, TypeOK

LEMMA RecoverEffect ==
  ASSUME RecordInv, NEW w \in Requests, Recover(w)
  PROVE  Effect(w)
<1> DEFINE k == req[w].key
<1>1. TypeOK
  BY DEF RecordInv
<1>2. req[w] \in Request /\ k \in Keys /\ record[k] \in IdempotencyRecord
  BY HeldRecord DEF Recover, At, Held
<1>3. /\ message' \in [Messages -> MessageRecord]
      /\ record' \in [Keys -> IdempotencyRecord \union {NoRecord}]
      /\ told' \in [Keys -> SUBSET Response]
      /\ RecordsKept
      /\ ToldTruly
      /\ req' \in [Requests -> Request \union {Idle}]
      /\ req'[w].at = "idle"
      /\ OnlyThread(w)
  <2>1. CASE /\ Unsettled(k)
             /\ message' = [message EXCEPT ![req[w].message].recovery = req[w].rule]
             /\ record' = [record EXCEPT ![k].result = "recovery",
                                         ![k].revision = req[w].revision]
             /\ Respond(w, "recovery", req[w].revision)
    <3> DEFINE r == [record[k] EXCEPT !.result = "recovery", !.revision = req[w].revision]
    <3>1. /\ r \in IdempotencyRecord /\ r.message = record[k].message
          /\ r.result = "recovery" /\ r.revision = req[w].revision
      BY <1>2 DEF IdempotencyRecord, Results, Request
    <3>2. record' = [record EXCEPT ![k] = r]
      BY <1>1, <1>2, <2>1 DEF TypeOK
    <3> HIDE DEF r
    <3>3. /\ record' \in [Keys -> IdempotencyRecord \union {NoRecord}]
          /\ record'[k] = r
          /\ RecordsKept
      BY <1>1, <1>2, <2>1, <3>1, <3>2, RecordWritten DEF Unsettled
    <3>4. message' \in [Messages -> MessageRecord]
      BY <1>1, <1>2, <2>1 DEF TypeOK, MessageRecord, Request
    <3>5. r # NoRecord /\ req[w].revision \in Nat
      BY <1>2, <3>1, NoRecordAssumption DEF Request
    <3>6. /\ told' \in [Keys -> SUBSET Response]
          /\ ToldTruly
          /\ req' \in [Requests -> Request \union {Idle}]
          /\ req'[w].at = "idle"
          /\ OnlyThread(w)
      BY <1>1, <1>2, <2>1, <3>1, <3>3, <3>5, Responds
    <3>7. QED
      BY <3>3, <3>4, <3>6
  <2>2. CASE End(w) /\ UNCHANGED <<message, record, told>>
    BY <1>1, <2>2, Ends, SameRecords, SameTold DEF TypeOK
  <2>3. QED
    BY <2>1, <2>2 DEF Recover
<1>4. TypeOK'
  BY <1>1, <1>3 DEF Recover, TypeOK
<1>5. ThreadHolds(w)
  BY <1>3, HoldsNothing DEF Held
<1>6. QED
  BY <1>3, <1>4, <1>5 DEF Effect

LEMMA CommitEffect ==
  ASSUME RecordInv, NEW w \in Requests, Commit(w)
  PROVE  Effect(w)
<1> DEFINE k == req[w].key
<1>1. TypeOK
  BY DEF RecordInv
<1>2. req[w] \in Request /\ k \in Keys /\ record[k] \in IdempotencyRecord
  BY HeldRecord DEF Commit, At, Held
<1>3. /\ log' \in Seq(Messages \union {Other})
      /\ conversation' \in {"agent", "human", "closed"}
      /\ decisions' \subseteq [message : Messages, key : Keys, revision : Nat]
      /\ record' \in [Keys -> IdempotencyRecord \union {NoRecord}]
      /\ RecordsKept
      /\ req' \in [Requests -> Request \union {Idle}]
      /\ OnlyThread(w)
      /\ ThreadHolds(w)
  <2>1. CASE /\ MayCommit(w)
             /\ log' = Append(log, req[w].message)
             /\ decisions' = decisions \union
                  {[message |-> req[w].message, key |-> k, revision |-> Revision + 1]}
             /\ record' = [record EXCEPT ![k].result = "answer",
                                         ![k].revision = Revision + 1]
             /\ conversation' \in {conversation, "human"}
             /\ GoTo(w, "freeze")
    <3> DEFINE r == [record[k] EXCEPT !.result = "answer", !.revision = Revision + 1]
    <3>1. Revision + 1 \in Nat
      BY <1>1, RevisionGrows
    <3>2. r \in IdempotencyRecord /\ r.message = record[k].message /\ r.result = "answer"
      BY <1>2, <3>1 DEF IdempotencyRecord, Results
    <3>3. record' = [record EXCEPT ![k] = r]
      BY <1>1, <1>2, <2>1 DEF TypeOK
    <3> HIDE DEF r
    <3>4. /\ record' \in [Keys -> IdempotencyRecord \union {NoRecord}]
          /\ record'[k] = r
          /\ RecordsKept
      BY <1>1, <1>2, <2>1, <3>2, <3>3, RecordWritten DEF MayCommit, Unsettled
    <3>5. "freeze" \in Stages
      BY DEF Stages
    <3>6. /\ req' \in [Requests -> Request \union {Idle}]
          /\ req'[w].key = k
          /\ OnlyThread(w)
      BY <1>1, <1>2, <2>1, <3>5, Goes
    <3>7. ThreadHolds(w)
      BY <3>2, <3>4, <3>6, NoRecordAssumption DEF ThreadHolds
    <3>8. log' \in Seq(Messages \union {Other})
      BY <1>1, <1>2, <2>1, RevisionGrows DEF Request
    <3>9. decisions' \subseteq [message : Messages, key : Keys, revision : Nat]
      BY <1>1, <1>2, <2>1, <3>1 DEF TypeOK, Request
    <3>10. conversation' \in {"agent", "human", "closed"}
      BY <1>1, <2>1 DEF TypeOK
    <3>11. QED
      BY <3>4, <3>6, <3>7, <3>8, <3>9, <3>10
  <2>2. CASE Refuse(w) /\ UNCHANGED <<log, decisions, record, conversation>>
    <3>1. req'[w].at \notin Held
      BY <1>1, <1>2, <2>2, Refuses DEF Held
    <3>2. QED
      BY <1>1, <1>2, <2>2, <3>1, Refuses, HoldsNothing, SameRecords DEF TypeOK
  <2>3. QED
    BY <2>1, <2>2 DEF Commit
<1>4. TypeOK'
  BY <1>1, <1>3 DEF Commit, TypeOK
<1>5. ToldTruly
  BY SameTold DEF Commit
<1>6. QED
  BY <1>3, <1>4, <1>5 DEF Effect

LEMMA FreezeEffect ==
  ASSUME RecordInv, NEW w \in Requests, Freeze(w)
  PROVE  Effect(w)
<1> DEFINE k == req[w].key
           r == [record[k] EXCEPT !.frozen = TRUE]
<1>1. TypeOK
  BY DEF RecordInv
<1>2. req[w] \in Request /\ k \in Keys /\ record[k] \in IdempotencyRecord
  BY HeldRecord DEF Freeze, At, Held
<1>3. record[k].result = "answer"
  BY DEF RecordInv, Holding, Freeze, At
<1>4. /\ r \in IdempotencyRecord /\ r.message = record[k].message
      /\ r.result = "answer" /\ r.revision = record[k].revision /\ r.revision \in Nat
  BY <1>2, <1>3 DEF IdempotencyRecord
<1>5. record' = [record EXCEPT ![k] = r]
  BY <1>1, <1>2 DEF Freeze, TypeOK
<1>6. /\ record' \in [Keys -> IdempotencyRecord \union {NoRecord}]
      /\ record'[k] = r
      /\ \A j \in Keys : j # k => record'[j] = record[j]
  <2> HIDE DEF r
  <2>1. QED
    BY <1>1, <1>2, <1>4, <1>5 DEF TypeOK
<1>7. RecordsKept
  <2>1. SUFFICES ASSUME NEW j \in Keys, record[j] # NoRecord
                 PROVE  /\ record'[j] # NoRecord
                        /\ record'[j].message = record[j].message
                        /\ \/ record'[j] = record[j]
                           \/ /\ record[j].result = "answer"
                              /\ record'[j] = [record[j] EXCEPT !.frozen = TRUE]
    BY DEF RecordsKept
  <2>2. CASE j = k
    BY <2>2, <1>3, <1>4, <1>6, NoRecordAssumption
  <2>3. CASE j # k
    BY <2>1, <2>3, <1>6
  <2>4. QED
    BY <2>2, <2>3
<1>8. Respond(w, "answer", r.revision)
  BY <1>4 DEF Freeze
<1> HIDE DEF r
<1>9. r # NoRecord
  BY <1>4, NoRecordAssumption
<1>10. /\ told' \in [Keys -> SUBSET Response]
       /\ ToldTruly
       /\ req' \in [Requests -> Request \union {Idle}]
       /\ req'[w].at = "idle"
       /\ OnlyThread(w)
  BY <1>1, <1>2, <1>4, <1>6, <1>8, <1>9, Responds
<1>11. TypeOK'
  BY <1>1, <1>6, <1>10 DEF Freeze, TypeOK
<1>12. ThreadHolds(w)
  BY <1>10, HoldsNothing DEF Held
<1>13. QED
  BY <1>7, <1>10, <1>11, <1>12 DEF Effect

LEMMA SettleEffect ==
  ASSUME RecordInv, NEW w \in Requests, Settle(w)
  PROVE  Effect(w)
<1>1. TypeOK
  BY DEF RecordInv
<1>2. req[w] \in Request /\ req[w].message \in Messages
  BY <1>1, Active DEF Settle, At, Stages, Request
<1>3. /\ req' \in [Requests -> Request \union {Idle}]
      /\ OnlyThread(w)
      /\ ThreadHolds(w)
  <2>1. CASE /\ ToSettle(w)
             /\ req' = [req EXCEPT ![w].at = "settling",
                                   ![w].rule = message[req[w].message].recovery]
    <3> DEFINE t == [req[w] EXCEPT !.at = "settling",
                                   !.rule = message[req[w].message].recovery]
    <3>1. message[req[w].message].recovery \in Rules \union {NoRule}
      BY <1>1, <1>2 DEF TypeOK, MessageRecord
    <3>2. t \in Request /\ t.at = "settling" /\ t.key = req[w].key
      BY <1>2, <3>1 DEF Request, Stages
    <3>3. req' = [req EXCEPT ![w] = t]
      BY <1>1, <2>1 DEF TypeOK
    <3> HIDE DEF t
    <3>4. /\ req' \in [Requests -> Request \union {Idle}]
          /\ req'[w] = t
          /\ OnlyThread(w)
      BY <1>1, <3>2, <3>3, ThreadMoves
    <3>5. record'[req[w].key] # NoRecord
      BY <2>1 DEF ToSettle, Settle
    <3>6. QED
      BY <3>2, <3>4, <3>5 DEF ThreadHolds
  <2>2. CASE End(w)
    <3>1. req'[w].at \notin Held
      BY <1>1, <2>2, Ends DEF Held
    <3>2. QED
      BY <1>1, <2>2, <3>1, Ends, HoldsNothing
  <2>3. QED
    BY <2>1, <2>2 DEF Settle
<1>4. TypeOK'
  BY <1>1, <1>3 DEF Settle, TypeOK
<1>5. RecordsKept /\ ToldTruly
  BY SameRecords, SameTold DEF Settle
<1>6. QED
  BY <1>3, <1>4, <1>5 DEF Effect

LEMMA SettleErrorEffect ==
  ASSUME RecordInv, NEW w \in Requests, SettleError(w)
  PROVE  Effect(w)
<1> DEFINE k == req[w].key
<1>1. TypeOK
  BY DEF RecordInv
<1>2. req[w] \in Request /\ k \in Keys /\ record[k] \in IdempotencyRecord
  BY HeldRecord DEF SettleError, At, Held
<1>3. /\ message' \in [Messages -> MessageRecord]
      /\ record' \in [Keys -> IdempotencyRecord \union {NoRecord}]
      /\ RecordsKept
  <2>1. CASE /\ Unsettled(k)
             /\ record' = [record EXCEPT ![k].result = "error"]
             /\ message' = [message EXCEPT ![req[w].message].recovery = req[w].rule]
    <3> DEFINE r == [record[k] EXCEPT !.result = "error"]
    <3>1. r \in IdempotencyRecord /\ r.message = record[k].message
      BY <1>2 DEF IdempotencyRecord, Results
    <3>2. record' = [record EXCEPT ![k] = r]
      BY <1>1, <1>2, <2>1 DEF TypeOK
    <3> HIDE DEF r
    <3>3. /\ record' \in [Keys -> IdempotencyRecord \union {NoRecord}]
          /\ RecordsKept
      BY <1>1, <1>2, <2>1, <3>1, <3>2, RecordWritten DEF Unsettled
    <3>4. message' \in [Messages -> MessageRecord]
      BY <1>1, <1>2, <2>1 DEF TypeOK, MessageRecord, Request
    <3>5. QED
      BY <3>3, <3>4
  <2>2. CASE UNCHANGED <<record, message>>
    BY <1>1, <2>2, SameRecords DEF TypeOK
  <2>3. QED
    BY <2>1, <2>2 DEF SettleError
<1>4. /\ req' \in [Requests -> Request \union {Idle}]
      /\ req'[w].at = "idle"
      /\ OnlyThread(w)
  BY <1>1, Ends DEF SettleError
<1>5. TypeOK'
  BY <1>1, <1>3, <1>4 DEF SettleError, TypeOK
<1>6. ThreadHolds(w)
  BY <1>4, HoldsNothing DEF Held
<1>7. ToldTruly
  BY SameTold DEF SettleError
<1>8. QED
  BY <1>3, <1>4, <1>5, <1>6, <1>7 DEF Effect

LEMMA CrashEffect ==
  ASSUME RecordInv, NEW w \in Requests, Crash(w)
  PROVE  Effect(w)
<1>1. TypeOK
  BY DEF RecordInv
<1>2. /\ req' \in [Requests -> Request \union {Idle}]
      /\ req'[w].at = "idle"
      /\ OnlyThread(w)
  BY <1>1, Ends DEF Crash
<1>3. crashes' \in 0..MaxCrashes
  BY <1>1 DEF Crash, TypeOK
<1>4. TypeOK'
  BY <1>1, <1>2, <1>3 DEF Crash, TypeOK
<1>5. ThreadHolds(w)
  BY <1>2, HoldsNothing DEF Held
<1>6. RecordsKept /\ ToldTruly
  BY SameRecords, SameTold DEF Crash
<1>7. QED
  BY <1>2, <1>4, <1>5, <1>6 DEF Effect

LEMMA OtherMutationTyped ==
  ASSUME RecordInv, OtherMutation
  PROVE  RecordInv' /\ RecordsKept
<1>1. TypeOK
  BY DEF RecordInv
<1>2. log' \in Seq(Messages \union {Other})
  BY <1>1, RevisionGrows DEF OtherMutation
<1>3. TypeOK'
  BY <1>1, <1>2 DEF OtherMutation, TypeOK
<1>4. Holding' /\ ToldAsRecorded'
  BY DEF OtherMutation, RecordInv, Holding, ToldAsRecorded
<1>5. RecordsKept
  BY SameRecords DEF OtherMutation
<1>6. QED
  BY <1>3, <1>4, <1>5 DEF RecordInv

----------------------------------------------------------------------------
\* Every step of a thread has an effect as described, so it keeps the
\* invariant and replaces no outcome.
LEMMA ThreadStep ==
  ASSUME RecordInv, NEW w \in Requests, Submit(w) \/ Step(w) \/ Crash(w)
  PROVE  Effect(w)
<1>1. CASE Submit(w) \/ Crash(w)
  BY <1>1, SubmitEffect, CrashEffect
<1>2. CASE FindKey(w) \/ Classify(w) \/ Alias(w) \/ Load(w) \/ Handover(w)
  BY <1>2, FindKeyEffect, ClassifyEffect, AliasEffect, LoadEffect, HandoverEffect
<1>3. CASE AcceptNew(w) \/ AcceptRetry(w) \/ Safety(w) \/ Propose(w) \/ Recover(w)
  BY <1>3, AcceptNewEffect, AcceptRetryEffect, SafetyEffect, ProposeEffect, RecoverEffect
<1>4. CASE Commit(w) \/ Freeze(w) \/ Settle(w) \/ SettleError(w)
  BY <1>4, CommitEffect, FreezeEffect, SettleEffect, SettleErrorEffect
<1>5. QED
  BY <1>1, <1>2, <1>3, <1>4 DEF Step

LEMMA RecordInvStep ==
  ASSUME RecordInv, [Next]_vars
  PROVE  RecordInv' /\ RecordsKept
<1>1. CASE \E w \in Requests : Submit(w) \/ Step(w) \/ Crash(w)
  BY <1>1, ThreadStep, EffectKeepsInv DEF Effect
<1>2. CASE OtherMutation
  BY <1>2, OtherMutationTyped
<1>3. CASE UNCHANGED vars
  BY <1>3, SameRecords DEF vars, RecordInv, TypeOK, Holding, ToldAsRecorded
<1>4. QED
  BY <1>1, <1>2, <1>3 DEF Next

LEMMA RecordInvInit ==
  ASSUME Init
  PROVE  RecordInv
<1>1. TypeOK
  <2>1. message \in [Messages -> MessageRecord]
    BY DEF Init, MessageRecord
  <2>2. 0 \in 0..MaxRequests /\ 0 \in 0..MaxCrashes
    OBVIOUS
  <2>3. log \in Seq(Messages \union {Other})
    BY DEF Init
  <2>4. QED
    BY <2>1, <2>2, <2>3 DEF Init, TypeOK
<1>2. Holding /\ ToldAsRecorded
  BY DEF Init, Holding, ToldAsRecorded, Held, Idle
<1>3. QED
  BY <1>1, <1>2 DEF RecordInv

LEMMA RecordInvariant == Spec => []RecordInv
<1>1. Init => RecordInv
  BY RecordInvInit
<1>2. RecordInv /\ [Next]_vars => RecordInv'
  BY RecordInvStep
<1>3. QED
  BY <1>1, <1>2, PTL DEF Spec

\* Stored records and thread states keep their types, and only a message that
\* asks for a person gets a safety handoff, in every execution of
\* submit_message.
THEOREM TypeCorrect == Spec => []TypeOK
<1>1. RecordInv => TypeOK
  BY DEF RecordInv
<1>2. QED
  BY <1>1, RecordInvariant, PTL

\* All successful responses under one idempotency key are the same turn,
\* whoever answers: owner, retry, alias or replay.
THEOREM KeyTellsOneTurn == Spec => []OneTurnPerKey
<1>1. RecordInv => OneTurnPerKey
  <2>1. SUFFICES ASSUME RecordInv, NEW k \in Keys, NEW r \in told[k], NEW s \in told[k]
                 PROVE  r = s
    BY DEF OneTurnPerKey
  <2>2. r \in Response /\ s \in Response
    BY <2>1 DEF RecordInv, TypeOK
  <2>3. r.result = s.result /\ r.revision = s.revision
    BY <2>1 DEF RecordInv, ToldAsRecorded
  <2>4. QED
    BY <2>2, <2>3 DEF Response
<1>2. QED
  BY <1>1, RecordInvariant, PTL

\* No step of any request, retry or error handler replaces the outcome a key
\* has been given.
THEOREM OutcomesFinal == Spec => OutcomeFinal
<1>1. RecordInv /\ [Next]_vars =>
        [\A k \in Keys :
           record[k] # NoRecord /\ record[k].result # "open" =>
             \/ record'[k] = record[k]
             \/ /\ record[k].result = "answer"
                /\ record'[k] = [record[k] EXCEPT !.frozen = TRUE]]_vars
  BY RecordInvStep DEF RecordsKept
<1>2. QED
  BY <1>1, RecordInvariant, PTL DEF Spec, OutcomeFinal

----------------------------------------------------------------------------
(***************************************************************************)
(* One answer per message.  A decision is committed on the revision its    *)
(* thread holds, which is older than any decision on the same message: so  *)
(* a second one finds the Claim moved.                                     *)
(***************************************************************************)
Accepted == {"safety", "model", "recover", "commit"}
Arriving == {"load", "handover", "accept"}
Unread == {"find", "classify"}

\* A thread never expects a revision that is not there; the message it works
\* on is stored once it retries or has accepted it; and the revision it holds
\* precedes every decision on that message.  Only Classify makes it a retry.
ThreadInv(w) ==
  /\ req[w].at # "idle" => req[w].expected <= Revision
  /\ req[w].at \in Accepted \/ (req[w].at \in Arriving /\ req[w].retry) =>
       message[req[w].message].saved
  /\ req[w].at \in Accepted \union Arriving =>
       \A d \in decisions : d.message = req[w].message => req[w].expected < d.revision
  /\ req[w].at \in Unread => ~req[w].retry

\* A decision is on a stored message and no later than the Claim.
DecisionsStored ==
  \A d \in decisions : message[d.message].saved /\ d.revision <= Revision

TurnInv ==
  /\ AnsweredOnce
  /\ DecisionsStored
  /\ \A w \in Requests : ThreadInv(w)

\* What a step other than a commit may do.
NoDecision ==
  /\ decisions' = decisions
  /\ Revision <= Revision'
  /\ \A m \in Messages : message[m].saved => message'[m].saved

LEMMA TurnKept ==
  ASSUME RecordInv, RecordInv', TurnInv, NEW w \in Requests, OnlyThread(w),
         NoDecision, ThreadInv(w)'
  PROVE  TurnInv'
<1>1. Revision \in Nat /\ Revision' \in Nat
  BY RevisionGrows DEF RecordInv, TypeOK, Revision
<1>2. AnsweredOnce'
  BY DEF AnsweredOnce, TurnInv, NoDecision
<1>3. DecisionsStored'
  <2>1. SUFFICES ASSUME NEW d \in decisions
                 PROVE  message'[d.message].saved /\ d.revision <= Revision'
    BY DEF DecisionsStored, NoDecision
  <2>2. d.message \in Messages /\ d.revision \in Nat
    BY DEF RecordInv, TypeOK
  <2>3. message[d.message].saved /\ d.revision <= Revision
    BY DEF TurnInv, DecisionsStored
  <2>4. QED
    BY <1>1, <2>2, <2>3 DEF NoDecision
<1>4. ASSUME NEW v \in Requests, v # w
      PROVE  ThreadInv(v)'
  <2>1. req'[v] = req[v] /\ ThreadInv(v)
    BY <1>4 DEF OnlyThread, TurnInv
  <2>2. CASE req[v].at = "idle"
    BY <2>1, <2>2 DEF ThreadInv, Accepted, Arriving, Unread
  <2>3. CASE req[v] \in Request
    <3>1. req[v].message \in Messages /\ req[v].expected \in Nat
      BY <2>3 DEF Request
    <3>2. req'[v].at # "idle" => req'[v].expected <= Revision'
      BY <1>1, <2>1, <3>1 DEF ThreadInv, NoDecision
    <3>3. QED
      BY <2>1, <3>1, <3>2 DEF ThreadInv, NoDecision
  <2>4. QED
    BY <2>2, <2>3 DEF RecordInv, TypeOK, Idle
<1>5. QED
  BY <1>2, <1>3, <1>4 DEF TurnInv

\* A thread that stops working on its message.
LEMMA Leaves ==
  ASSUME RecordInv, TurnInv, NEW w \in Requests, req[w] \in Request, NoDecision,
         RecordInv',
         \/ req'[w].at = "idle"
         \/ /\ req'[w].at \notin Accepted \union Arriving
            /\ req'[w].expected = req[w].expected
            /\ req[w].at # "idle"
            /\ req'[w].at \in Unread => ~req'[w].retry
  PROVE  ThreadInv(w)'
<1>1. Revision \in Nat /\ Revision' \in Nat /\ req[w].expected \in Nat
  BY RevisionGrows DEF RecordInv, TypeOK, Revision, Request
<1>2. req[w].at # "idle" => req[w].expected <= Revision
  BY DEF TurnInv, ThreadInv
<1>3. QED
  BY <1>1, <1>2 DEF ThreadInv, NoDecision, Accepted, Arriving, Unread

\* A thread that goes on working on its message.
LEMMA GoesOn ==
  ASSUME RecordInv, TurnInv, NEW w \in Requests, req[w] \in Request, NoDecision,
         RecordInv',
         req'[w].at \notin Unread \union {"idle"},
         req'[w].expected = req[w].expected,
         req'[w].message = req[w].message,
         req[w].at \in Accepted \union Arriving,
         \/ req[w].at \in Accepted
         \/ req'[w].at \notin Accepted /\ req'[w].retry = req[w].retry
         \/ req[w].retry
  PROVE  ThreadInv(w)'
<1>1. /\ Revision \in Nat /\ Revision' \in Nat /\ req[w].expected \in Nat
      /\ req[w].message \in Messages
  BY RevisionGrows DEF RecordInv, TypeOK, Revision, Request
<1>2. ThreadInv(w)
  BY DEF TurnInv
<1>3. req'[w].expected <= Revision'
  BY <1>1, <1>2 DEF ThreadInv, NoDecision, Accepted, Arriving
<1>4. \A d \in decisions' : d.message = req'[w].message => req'[w].expected < d.revision
  BY <1>2 DEF ThreadInv, NoDecision
<1>5. req'[w].at \in Accepted \/ (req'[w].at \in Arriving /\ req'[w].retry) =>
        message'[req'[w].message].saved
  BY <1>1, <1>2 DEF ThreadInv, NoDecision
<1>6. QED
  BY <1>3, <1>4, <1>5 DEF ThreadInv

\* Nothing that the turn invariant mentions is written.
LEMMA Quiet ==
  ASSUME RecordInv, UNCHANGED <<log, message, decisions>>
  PROVE  NoDecision
BY RevisionGrows DEF RecordInv, NoDecision, Revision

\* No decision on a message that is not stored.
LEMMA NotStored ==
  ASSUME TurnInv, NEW m \in Messages, ~message[m].saved
  PROVE  \A d \in decisions : d.message # m
BY DEF TurnInv, DecisionsStored

\* A thread that holds the Claim's revision works on an unanswered message.
LEMMA HolderFirst ==
  ASSUME RecordInv, TurnInv, NEW w \in Requests,
         req[w].at \in Accepted \union Arriving, RevisionHeld(w)
  PROVE  \A d \in decisions : d.message # req[w].message
<1>1. ASSUME NEW d \in decisions, d.message = req[w].message
      PROVE  FALSE
  <2>1. d.revision <= Revision /\ req[w].expected < d.revision
    BY <1>1 DEF TurnInv, DecisionsStored, ThreadInv
  <2>2. Revision \in Nat /\ d.revision \in Nat /\ req[w].expected = Revision
    BY RevisionGrows DEF RecordInv, TypeOK, RevisionHeld
  <2>3. QED
    BY <2>1, <2>2
<1>2. QED
  BY <1>1

\* The steps that look, replay, refuse or end.
LEMMA PassingTurn ==
  ASSUME RecordInv, RecordInv', TurnInv, NEW w \in Requests, OnlyThread(w),
         FindKey(w) \/ Alias(w) \/ Settle(w) \/ Freeze(w) \/ Crash(w)
  PROVE  TurnInv'
<1>1. TypeOK
  BY DEF RecordInv
<1>2. req[w] \in Request /\ req[w].at # "idle"
  BY <1>1, Active DEF FindKey, Alias, Settle, Freeze, Crash, At, Stages, TypeOK, Idle, Request
<1>3. NoDecision
  BY Quiet DEF FindKey, Alias, Settle, Freeze, Crash
<1> DEFINE Left == \/ req'[w].at = "idle"
                   \/ /\ req'[w].at \notin Accepted \union Arriving
                      /\ req'[w].expected = req[w].expected
                      /\ req'[w].at \in Unread => ~req'[w].retry
<1>4. ASSUME NEW s \in {"classify", "settle"}, GoTo(w, s),
             s = "classify" => req[w].at = "find"
      PROVE  Left
  <2>1. s \in Stages
    BY DEF Stages
  <2>2. req'[w] = [req[w] EXCEPT !.at = s]
    BY <1>1, <1>2, <1>4, <2>1, Goes
  <2>3. QED
    <3>1. s = "classify" => ~req[w].retry
      BY <1>4 DEF TurnInv, ThreadInv, Unread
    <3>2. QED
      BY <1>2, <2>2, <3>1 DEF Request, Accepted, Arriving, Unread
<1>5. ASSUME End(w) PROVE Left
  BY <1>1, <1>5, Ends
<1>6. ASSUME NEW r, Replay(w, r) PROVE Left
  <2>1. Refuse(w) \/ End(w)
    BY <1>6 DEF Replay, Respond
  <2>2. QED
    BY <2>1, <1>4, <1>5 DEF Refuse
<1>7. Left
  <2>1. CASE FindKey(w)
    BY <2>1, <1>4, <1>6 DEF FindKey, Refuse, At
  <2>2. CASE Alias(w)
    BY <2>2, <1>4, <1>6 DEF Alias, Refuse
  <2>3. CASE Settle(w)
    <3>1. CASE End(w)
      BY <3>1, <1>5
    <3>2. CASE req' = [req EXCEPT ![w].at = "settling",
                              ![w].rule = message[req[w].message].recovery]
      BY <1>1, <1>2, <3>2 DEF TypeOK, Request, Accepted, Arriving, Unread
    <3>3. QED
      BY <2>3, <3>1, <3>2 DEF Settle
  <2>4. CASE Freeze(w) \/ Crash(w)
    BY <2>4, <1>5 DEF Freeze, Crash, Respond
  <2>5. QED
    BY <2>1, <2>2, <2>3, <2>4
<1>8. ThreadInv(w)'
  BY <1>2, <1>3, <1>7, Leaves
<1>9. QED
  BY <1>3, <1>8, TurnKept

\* The steps that write a recovery or an error onto the message.
LEMMA RecoveringTurn ==
  ASSUME RecordInv, RecordInv', TurnInv, NEW w \in Requests, OnlyThread(w),
         Recover(w) \/ SettleError(w)
  PROVE  TurnInv'
<1>1. TypeOK
  BY DEF RecordInv
<1>2. req[w] \in Request /\ req[w].message \in Messages
  BY <1>1, Active DEF Recover, SettleError, At, Stages, Request
<1>3. \A m \in Messages : message[m].saved => message'[m].saved
  <2>1. CASE message' = [message EXCEPT ![req[w].message].recovery = req[w].rule]
    BY <1>1, <1>2, <2>1 DEF TypeOK, MessageRecord
  <2>2. CASE message' = message
    BY <2>2
  <2>3. QED
    BY <2>1, <2>2 DEF Recover, SettleError
<1>4. NoDecision
  <2>1. decisions' = decisions /\ log' = log
    BY DEF Recover, SettleError
  <2>2. QED
    BY <1>1, <1>3, <2>1, RevisionGrows DEF NoDecision, Revision
<1>5. End(w)
  BY DEF Recover, SettleError, Respond
<1>6. ThreadInv(w)'
  BY <1>1, <1>2, <1>4, <1>5, Ends, Leaves
<1>7. QED
  BY <1>4, <1>6, TurnKept

LEMMA SubmitTurn ==
  ASSUME RecordInv, RecordInv', TurnInv, NEW w \in Requests, OnlyThread(w), Submit(w)
  PROVE  TurnInv'
<1>1. NoDecision /\ Revision' = Revision
  BY Quiet DEF Submit, Revision
<1>2. PICK e \in 1..Revision :
        req'[w].at = "find" /\ req'[w].expected = e /\ ~req'[w].retry
  BY DEF Submit, RecordInv, TypeOK
<1>3. ThreadInv(w)'
  <2>1. Revision \in Nat
    BY RevisionGrows DEF RecordInv
  <2>2. QED
    BY <1>1, <1>2, <2>1 DEF ThreadInv, Accepted, Arriving, Unread
<1>4. QED
  BY <1>1, <1>3, TurnKept

\* A request is classified as new only if its message is not stored, and as a
\* retry only if it is stored and not answered.
LEMMA ClassifyTurn ==
  ASSUME RecordInv, RecordInv', TurnInv, NEW w \in Requests, OnlyThread(w), Classify(w)
  PROVE  TurnInv'
<1> DEFINE m == req[w].message
<1>1. TypeOK
  BY DEF RecordInv
<1>2. req[w] \in Request /\ m \in Messages /\ req[w].expected \in Nat
  BY <1>1, Active DEF Classify, At, Stages, Request
<1>3. NoDecision /\ Revision' = Revision
  BY Quiet DEF Classify, Revision
<1>4. req[w].expected <= Revision
  BY DEF TurnInv, ThreadInv, Classify, At
<1>5. ~req[w].retry
  BY DEF TurnInv, ThreadInv, Classify, At, Unread
<1>6. CASE GoTo(w, "alias")
  <2>1. "alias" \in Stages
    BY DEF Stages
  <2>2. req'[w] = [req[w] EXCEPT !.at = "alias"]
    BY <1>1, <1>2, <1>6, <2>1, Goes
  <2>3. /\ req'[w].at \notin Accepted \union Arriving \union Unread
        /\ req'[w].expected = req[w].expected
        /\ req[w].at # "idle"
    BY <1>2, <2>2 DEF Request, Accepted, Arriving, Unread, Classify, At
  <2>4. ThreadInv(w)'
    BY <1>2, <1>3, <2>3, Leaves
  <2>5. QED
    BY <1>3, <2>4, TurnKept
<1>7. ASSUME \A d \in decisions : d.message # m,
             req'[w].at = "load", req'[w].expected = req[w].expected,
             req'[w].message = m,
             req'[w].retry => message[m].saved
      PROVE  TurnInv'
  <2>1. message' = message /\ decisions' = decisions
    BY DEF Classify
  <2>2. ThreadInv(w)'
    BY <1>2, <1>3, <1>4, <1>7, <2>1 DEF ThreadInv, Accepted, Arriving, Unread
  <2>3. QED
    BY <1>3, <2>2, TurnKept
<1>8. CASE ~message[m].saved /\ GoTo(w, "load")
  <2>1. \A d \in decisions : d.message # m
    BY <1>2, <1>8, NotStored
  <2>2. "load" \in Stages
    BY DEF Stages
  <2>3. req'[w] = [req[w] EXCEPT !.at = "load"]
    BY <1>1, <1>2, <1>8, <2>2, Goes
  <2>4. QED
    BY <1>2, <1>5, <1>7, <2>1, <2>3 DEF Request
<1>9. CASE /\ message[m].saved
           /\ \E c \in Checkpoints(m) :
                /\ Retryable(m, c)
                /\ req' = [req EXCEPT ![w].at = "load", ![w].retry = TRUE,
                             ![w].rule = message[m].recovery,
                             ![w].before = record[c].before,
                             ![w].confirm = record[c].confirm]
  <2>1. ~Decided(m)
    BY <1>9 DEF Retryable
  <2>2. req'[w].at = "load" /\ req'[w].expected = req[w].expected /\ req'[w].message = m
    BY <1>1, <1>2, <1>9 DEF TypeOK, Request
  <2>3. QED
    BY <1>7, <1>9, <2>1, <2>2 DEF Decided
<1>10. QED
  BY <1>6, <1>8, <1>9 DEF Classify

\* The steps that read, ask the model or reserve a retry's key, and leave the
\* Claim and the message alone.
LEMMA WorkingTurn ==
  ASSUME RecordInv, RecordInv', TurnInv, NEW w \in Requests, OnlyThread(w),
         Load(w) \/ AcceptRetry(w) \/ Propose(w)
  PROVE  TurnInv'
<1>1. TypeOK
  BY DEF RecordInv
<1>2. /\ req[w] \in Request
      /\ req[w].at \in {"load", "accept", "model"}
      /\ req[w].at = "accept" => req[w].retry
  BY <1>1, Active DEF Load, AcceptRetry, Propose, At, Stages
<1>3. NoDecision
  BY Quiet DEF Load, AcceptRetry, Propose
<1> DEFINE On == /\ req'[w].at \notin Unread \union {"idle"}
                 /\ req'[w].expected = req[w].expected
                 /\ req'[w].message = req[w].message
                 /\ req'[w].retry = req[w].retry
                 /\ req[w].at = "load" => req'[w].at \notin Accepted
<1>4. ASSUME NEW s \in {"settle", "handover", "safety", "commit"}, GoTo(w, s),
             req[w].at = "load" => s \notin Accepted
      PROVE  On
  <2>1. s \in Stages
    BY DEF Stages
  <2>2. req'[w] = [req[w] EXCEPT !.at = s]
    BY <1>1, <1>2, <1>4, <2>1, Goes
  <2>3. QED
    BY <1>2, <1>4, <2>2 DEF Request, Unread
<1>5. End(w) \/ On
  <2>1. CASE Load(w)
    <3>1. req[w].at = "load"
      BY <2>1 DEF Load, At
    <3>2. CASE Refuse(w) \/ GoTo(w, "handover")
      BY <1>4, <3>1, <3>2 DEF Refuse, Accepted
    <3>3. CASE \E before, confirm :
                 req' = [req EXCEPT ![w].at = "accept",
                                ![w].before = before, ![w].confirm = confirm]
      BY <1>1, <1>2, <3>3 DEF TypeOK, Request, Accepted, Unread
    <3>4. Refuse(w) \/ GoTo(w, "handover") \/ End(w) \/
            \E before, confirm :
                 req' = [req EXCEPT ![w].at = "accept",
                                ![w].before = before, ![w].confirm = confirm]
      BY <2>1 DEF Load
    <3>5. QED
      BY <3>2, <3>3, <3>4
  <2>2. CASE AcceptRetry(w)
    BY <1>4, <2>2 DEF AcceptRetry, At
  <2>3. CASE Propose(w)
    <3>1. CASE \E r \in Rules :
                 req' = [req EXCEPT ![w].at = "recover", ![w].rule = r,
                                    ![w].revision = Revision]
      <4>1. req[w].at # "load"
        BY <2>3 DEF Propose, At
      <4>2. /\ req'[w].at = "recover" /\ req'[w].expected = req[w].expected
            /\ req'[w].message = req[w].message /\ req'[w].retry = req[w].retry
        BY <1>1, <1>2, <3>1 DEF TypeOK, Request
      <4>3. QED
        BY <4>1, <4>2 DEF Unread
    <3>2. CASE GoTo(w, "commit") \/ Refuse(w)
      BY <1>4, <2>3, <3>2 DEF Refuse, Propose, At
    <3>3. QED
      BY <2>3, <3>1, <3>2 DEF Propose
  <2>4. QED
    BY <2>1, <2>2, <2>3
<1>6. ThreadInv(w)'
  <2>1. CASE End(w)
    BY <1>1, <1>2, <1>3, <2>1, Ends, Leaves
  <2>2. CASE On
    <3>1. req[w].at \in Accepted \union Arriving
      BY <1>2 DEF Accepted, Arriving
    <3>2. \/ req[w].at \in Accepted
          \/ req'[w].at \notin Accepted /\ req'[w].retry = req[w].retry
          \/ req[w].retry
      BY <1>2, <2>2 DEF Accepted
    <3>3. QED
      BY <1>2, <1>3, <2>2, <3>1, <3>2, GoesOn
  <2>3. QED
    BY <1>5, <2>1, <2>2
<1>7. QED
  BY <1>3, <1>6, TurnKept

\* A message is stored: no decision names it yet.
LEMMA SavingTurn ==
  ASSUME RecordInv, RecordInv', TurnInv, NEW w \in Requests, OnlyThread(w),
         Handover(w) \/ AcceptNew(w)
  PROVE  TurnInv'
<1>1. TypeOK
  BY DEF RecordInv
<1>2. /\ req[w] \in Request
      /\ req[w].message \in Messages
      /\ req[w].at \in {"handover", "accept"}
  BY <1>1, Active DEF Handover, AcceptNew, At, Stages, Request
<1>3. decisions' = decisions
  BY DEF Handover, AcceptNew
<1>4. CASE UNCHANGED <<log, message>> /\ (Refuse(w) \/ End(w))
  <2>1. NoDecision
    BY <1>3, <1>4, Quiet
  <2>2. ThreadInv(w)'
    <3>1. CASE Refuse(w)
      <4>1. req'[w] = [req[w] EXCEPT !.at = "settle"]
        BY <1>1, <1>2, <3>1, Refuses
      <4>2. /\ req'[w].at \notin Accepted \union Arriving \union Unread
            /\ req'[w].expected = req[w].expected
            /\ req[w].at # "idle"
        BY <1>2, <4>1 DEF Request, Accepted, Arriving, Unread
      <4>3. QED
        BY <1>2, <2>1, <4>2, Leaves
    <3>2. CASE End(w)
      BY <1>1, <1>2, <2>1, <3>2, Ends, Leaves
    <3>3. QED
      BY <1>4, <3>1, <3>2
  <2>3. QED
    BY <2>1, <2>2, TurnKept
<1>5. ASSUME NEW r, SaveMessage(w, r)
      PROVE  /\ NoDecision
             /\ Revision' = Revision + 1
             /\ message'[req[w].message].saved
  <2>1. /\ \A m \in Messages : message[m].saved => message'[m].saved
        /\ message'[req[w].message].saved
    BY <1>1, <1>2, <1>5 DEF SaveMessage, TypeOK, MessageRecord
  <2>2. Revision' = Revision + 1 /\ Revision \in Nat
    BY <1>1, <1>2, <1>5, RevisionGrows DEF SaveMessage
  <2>3. QED
    BY <1>3, <2>1, <2>2 DEF NoDecision
<1>6. CASE \E r : SaveMessage(w, r) /\ End(w)
  <2>1. NoDecision
    BY <1>5, <1>6
  <2>2. ThreadInv(w)'
    BY <1>1, <1>2, <1>6, <2>1, Ends, Leaves
  <2>3. QED
    BY <2>1, <2>2, TurnKept
<1>7. CASE /\ Fresh(w)
           /\ \E r : SaveMessage(w, r)
           /\ req' = [req EXCEPT ![w].at = "safety", ![w].expected = Revision + 1]
  <2>1. /\ NoDecision
        /\ Revision' = Revision + 1
        /\ message'[req[w].message].saved
    BY <1>5, <1>7
  <2>2. \A d \in decisions : d.message # req[w].message
    BY <1>2, <1>7, NotStored DEF Fresh
  <2>3. /\ req'[w].at = "safety" /\ req'[w].expected = Revision + 1
        /\ req'[w].message = req[w].message
    BY <1>1, <1>2, <1>7 DEF TypeOK, Request
  <2>4. ThreadInv(w)'
    <3>1. Revision \in Nat
      BY <1>1, RevisionGrows
    <3>2. QED
      BY <1>3, <2>1, <2>2, <2>3, <3>1 DEF ThreadInv, Unread
  <2>5. QED
    BY <2>1, <2>4, TurnKept
<1>8. CASE Handover(w)
  BY <1>4, <1>6, <1>8 DEF Handover, Respond
<1>9. CASE AcceptNew(w)
  BY <1>4, <1>7, <1>9 DEF AcceptNew
<1>10. QED
  BY <1>8, <1>9

LEMMA SafetyTurn ==
  ASSUME RecordInv, RecordInv', TurnInv, NEW w \in Requests, OnlyThread(w), Safety(w)
  PROVE  TurnInv'
<1>1. TypeOK
  BY DEF RecordInv
<1>2. /\ req[w] \in Request
      /\ req[w].message \in Messages
      /\ req[w].at = "safety"
  BY <1>1, Active DEF Safety, At, Stages, Request
<1>3. decisions' = decisions /\ message' = message
  BY DEF Safety
<1>4. ASSUME log' = log, NEW s \in {"model", "settle"}, GoTo(w, s)
      PROVE  TurnInv'
  <2>1. NoDecision
    BY <1>3, <1>4, Quiet
  <2>2. s \in Stages
    BY DEF Stages
  <2>3. req'[w] = [req[w] EXCEPT !.at = s]
    BY <1>1, <1>2, <1>4, <2>2, Goes
  <2>4. /\ req'[w].at \notin Unread \union {"idle"}
        /\ req'[w].expected = req[w].expected
        /\ req'[w].message = req[w].message
        /\ req[w].at \in Accepted
    BY <1>2, <2>3 DEF Request, Unread, Accepted
  <2>5. ThreadInv(w)'
    BY <1>2, <2>1, <2>4, GoesOn
  <2>6. QED
    BY <2>1, <2>5, TurnKept
<1>5. CASE /\ RevisionHeld(w)
           /\ log' = Append(log, req[w].message)
           /\ req' = [req EXCEPT ![w].at = "model", ![w].expected = Revision + 1]
  <2>1. Revision' = Revision + 1 /\ Revision \in Nat
    BY <1>1, <1>2, <1>5, RevisionGrows
  <2>2. NoDecision
    BY <1>3, <2>1 DEF NoDecision
  <2>3. \A d \in decisions : d.message # req[w].message
    BY <1>2, <1>5, HolderFirst DEF Accepted
  <2>4. message[req[w].message].saved
    BY <1>2 DEF TurnInv, ThreadInv, Accepted
  <2>5. /\ req'[w].at = "model" /\ req'[w].expected = Revision + 1
        /\ req'[w].message = req[w].message
    BY <1>1, <1>2, <1>5 DEF TypeOK, Request
  <2>6. ThreadInv(w)'
    BY <1>3, <2>1, <2>3, <2>4, <2>5 DEF ThreadInv, Unread
  <2>7. QED
    BY <2>2, <2>6, TurnKept
<1>6. QED
  BY <1>4, <1>5 DEF Safety, Refuse

\* The commit: its message had no decision, and every other thread's
\* revision is older than the new one.
LEMMA CommitTurn ==
  ASSUME RecordInv, RecordInv', TurnInv, NEW w \in Requests, OnlyThread(w), Commit(w)
  PROVE  TurnInv'
<1> DEFINE e == [message |-> req[w].message, key |-> req[w].key, revision |-> Revision + 1]
<1>1. TypeOK
  BY DEF RecordInv
<1>2. /\ req[w] \in Request
      /\ req[w].message \in Messages
      /\ req[w].at = "commit"
  BY <1>1, Active DEF Commit, At, Stages, Request
<1>3. message' = message
  BY DEF Commit
<1>4. CASE Refuse(w) /\ UNCHANGED <<log, decisions>>
  <2>1. NoDecision
    BY <1>3, <1>4, Quiet
  <2>2. req'[w] = [req[w] EXCEPT !.at = "settle"]
    BY <1>1, <1>2, <1>4, Refuses
  <2>3. /\ req'[w].at \notin Accepted \union Arriving \union Unread
        /\ req'[w].expected = req[w].expected
        /\ req[w].at # "idle"
    BY <1>2, <2>2 DEF Request, Accepted, Arriving, Unread
  <2>4. ThreadInv(w)'
    BY <1>2, <2>1, <2>3, Leaves
  <2>5. QED
    BY <2>1, <2>4, TurnKept
<1>5. CASE /\ RevisionHeld(w)
           /\ log' = Append(log, req[w].message)
           /\ decisions' = decisions \union {e}
           /\ GoTo(w, "freeze")
  <2>1. Revision' = Revision + 1 /\ Revision \in Nat
    BY <1>1, <1>2, <1>5, RevisionGrows
  <2>2. \A d \in decisions : d.message # req[w].message
    BY <1>2, <1>5, HolderFirst DEF Accepted
  <2>3. message[req[w].message].saved
    BY <1>2 DEF TurnInv, ThreadInv, Accepted
  <2>4. e.message = req[w].message /\ e.revision = Revision + 1
    OBVIOUS
  <2> HIDE DEF e
  <2>5. AnsweredOnce'
    BY <1>5, <2>2, <2>4 DEF AnsweredOnce, TurnInv
  <2>6. DecisionsStored'
    <3>1. SUFFICES ASSUME NEW d \in decisions'
                   PROVE  message[d.message].saved /\ d.revision <= Revision + 1
      BY <1>3, <2>1 DEF DecisionsStored
    <3>2. CASE d = e
      BY <3>2, <2>1, <2>3, <2>4
    <3>3. CASE d \in decisions
      <4>1. d.revision \in Nat /\ d.revision <= Revision /\ message[d.message].saved
        BY <1>1, <3>3 DEF TypeOK, TurnInv, DecisionsStored
      <4>2. QED
        BY <2>1, <4>1
    <3>4. QED
      BY <1>5, <3>2, <3>3
  <2>7. ASSUME NEW v \in Requests, v # w PROVE ThreadInv(v)'
    <3>1. req'[v] = req[v] /\ ThreadInv(v)
      BY <2>7 DEF OnlyThread, TurnInv
    <3>2. CASE req[v].at = "idle"
      BY <3>1, <3>2 DEF ThreadInv, Accepted, Arriving, Unread
    <3>3. CASE req[v] \in Request /\ req[v].at # "idle"
      <4>1. req[v].expected \in Nat /\ req[v].expected <= Revision
        BY <3>1, <3>3 DEF Request, ThreadInv
      <4>2. req[v].expected < e.revision /\ req[v].expected <= Revision'
        BY <2>1, <2>4, <4>1
      <4>3. QED
        BY <1>3, <1>5, <3>1, <4>2 DEF ThreadInv
    <3>4. QED
      BY <1>1, <3>2, <3>3 DEF TypeOK, Idle
  <2>8. ThreadInv(w)'
    <3>1. "freeze" \in Stages
      BY DEF Stages
    <3>2. req'[w] = [req[w] EXCEPT !.at = "freeze"]
      BY <1>1, <1>2, <1>5, <3>1, Goes
    <3>3. req'[w].at = "freeze" /\ req'[w].expected = req[w].expected
      BY <1>2, <3>2 DEF Request
    <3>4. req[w].expected = Revision
      BY <1>5 DEF RevisionHeld
    <3>5. QED
      BY <2>1, <3>3, <3>4 DEF ThreadInv, Accepted, Arriving, Unread
  <2>9. QED
    BY <2>5, <2>6, <2>7, <2>8 DEF TurnInv
<1>6. QED
  BY <1>4, <1>5 DEF Commit, MayCommit

LEMMA OtherMutationTurn ==
  ASSUME RecordInv, RecordInv', TurnInv, OtherMutation
  PROVE  TurnInv'
<1>1. TypeOK
  BY DEF RecordInv
<1>2. Revision' = Revision + 1 /\ Revision \in Nat
  BY <1>1, RevisionGrows DEF OtherMutation
<1>3. message' = message /\ decisions' = decisions /\ req' = req
  BY DEF OtherMutation
<1>4. AnsweredOnce'
  BY <1>3 DEF AnsweredOnce, TurnInv
<1>5. DecisionsStored'
  <2>1. SUFFICES ASSUME NEW d \in decisions
                 PROVE  message[d.message].saved /\ d.revision <= Revision + 1
    BY <1>2, <1>3 DEF DecisionsStored
  <2>2. d.revision \in Nat /\ d.revision <= Revision /\ message[d.message].saved
    BY <1>1 DEF TypeOK, TurnInv, DecisionsStored
  <2>3. QED
    BY <1>2, <2>2
<1>6. ASSUME NEW v \in Requests PROVE ThreadInv(v)'
  <2>1. ThreadInv(v)
    BY DEF TurnInv
  <2>2. CASE req[v].at = "idle"
    BY <1>3, <2>1, <2>2 DEF ThreadInv
  <2>3. CASE req[v] \in Request /\ req[v].at # "idle"
    <3>1. req[v].expected \in Nat /\ req[v].expected <= Revision
      BY <2>1, <2>3 DEF Request, ThreadInv
    <3>2. req[v].expected <= Revision'
      BY <1>2, <3>1
    <3>3. QED
      BY <1>3, <2>1, <3>2 DEF ThreadInv
  <2>4. QED
    BY <1>1, <2>2, <2>3 DEF TypeOK, Idle
<1>7. QED
  BY <1>4, <1>5, <1>6 DEF TurnInv

LEMMA TurnInvStep ==
  ASSUME RecordInv, TurnInv, [Next]_vars
  PROVE  TurnInv'
<1>1. RecordInv'
  BY RecordInvStep
<1>2. ASSUME NEW w \in Requests, Submit(w) \/ Step(w) \/ Crash(w)
      PROVE  TurnInv'
  <2>1. OnlyThread(w)
    BY <1>2, ThreadStep DEF Effect
  <2>2. CASE Submit(w)
    BY <1>1, <2>1, <2>2, SubmitTurn
  <2>3. CASE FindKey(w) \/ Alias(w) \/ Settle(w) \/ Freeze(w) \/ Crash(w)
    BY <1>1, <2>1, <2>3, PassingTurn
  <2>4. CASE Classify(w)
    BY <1>1, <2>1, <2>4, ClassifyTurn
  <2>5. CASE Load(w) \/ AcceptRetry(w) \/ Propose(w)
    BY <1>1, <2>1, <2>5, WorkingTurn
  <2>6. CASE Handover(w) \/ AcceptNew(w)
    BY <1>1, <2>1, <2>6, SavingTurn
  <2>7. CASE Safety(w)
    BY <1>1, <2>1, <2>7, SafetyTurn
  <2>8. CASE Recover(w) \/ SettleError(w)
    BY <1>1, <2>1, <2>8, RecoveringTurn
  <2>9. CASE Commit(w)
    BY <1>1, <2>1, <2>9, CommitTurn
  <2>10. QED
    BY <1>2, <2>2, <2>3, <2>4, <2>5, <2>6, <2>7, <2>8, <2>9 DEF Step
<1>3. CASE OtherMutation
  BY <1>1, <1>3, OtherMutationTurn
<1>4. CASE UNCHANGED vars
  BY <1>4 DEF vars, TurnInv, AnsweredOnce, DecisionsStored, ThreadInv, Revision
<1>5. QED
  BY <1>2, <1>3, <1>4 DEF Next

\* A claimant message has at most one Agent decision, however many requests,
\* keys and retries carry it and whatever fails in between.
THEOREM MessageAnsweredOnce == Spec => []AnsweredOnce
<1>1. Init => TurnInv
  BY DEF Init, TurnInv, AnsweredOnce, DecisionsStored, ThreadInv, Idle,
         Accepted, Arriving, Unread
<1>2. RecordInv /\ TurnInv /\ [Next]_vars => TurnInv'
  BY TurnInvStep
<1>3. TurnInv => AnsweredOnce
  BY DEF TurnInv
<1>4. QED
  BY <1>1, <1>2, <1>3, RecordInvariant, PTL DEF Spec
----------------------------------------------------------------------------
(***************************************************************************)
(* What the Agent may answer to.  While a thread holds the Claim's         *)
(* revision, nothing has happened since it judged the Claim but the        *)
(* writing of its own message.                                             *)
(***************************************************************************)
\* A thread that has read the Claim and not yet answered.
Judged == {"accept", "safety", "model", "recover", "commit"}

\* Where in the Claim's history a checkpoint says its message is.
PlacedAt(m, i) == i \in DOMAIN log /\ log[i] = m

PlaceOfRecord(k) ==
  record[k] # NoRecord /\ record[k].inbound => PlacedAt(record[k].message, record[k].before)

\* A retry knows its message's place; a new message is to be written where the
\* Claim was read; and what was judged holds as long as the revision does.
PlaceOfThread(w) ==
  /\ req[w].at = "load" /\ req[w].retry => PlacedAt(req[w].message, req[w].before)
  /\ req[w].at = "accept" /\ ~req[w].retry => req[w].before = req[w].expected
  /\ req[w].at \in Judged => req[w].before # 0
  /\ req[w].at \in Judged /\ RevisionHeld(w) =>
       /\ ~req[w].retry /\ req[w].message \notin Alarms => conversation = "agent"
       /\ req[w].confirm => \A i \in req[w].before .. Len(log) : log[i] = req[w].message

PlaceInv ==
  /\ \A k \in Keys : PlaceOfRecord(k)
  /\ \A w \in Requests : PlaceOfThread(w)

\* The Claim stays, or moves on.
ClaimStays == log' = log /\ conversation' = conversation
ClaimMoves == \E x \in Messages \union {Other} : log' = Append(log, x)

\* Two records of one turn, as far as the checkpoint goes.
SameTurn(r, s) == r.message = s.message /\ r.before = s.before /\ r.inbound = s.inbound

\* Every record is an earlier one's, or a copy of it, or has a place of its own.
Descends(k) ==
  record'[k] # NoRecord =>
    \/ \E j \in Keys : record[j] # NoRecord /\ SameTurn(record'[k], record[j])
    \/ PlaceOfRecord(k)'

LEMMA PlaceStays ==
  ASSUME TypeOK, ClaimStays \/ ClaimMoves
  PROVE  \A m, i : PlacedAt(m, i) => i \in DOMAIN log' /\ log'[i] = m
<1>1. CASE ClaimStays
  BY <1>1 DEF ClaimStays, PlacedAt
<1>2. CASE ClaimMoves
  <2>1. PICK x \in Messages \union {Other} : log' = Append(log, x)
    BY <1>2 DEF ClaimMoves
  <2>2. log \in Seq(Messages \union {Other})
    BY DEF TypeOK
  <2>3. QED
    BY <2>1, <2>2 DEF PlacedAt
<1>3. QED
  BY <1>1, <1>2

LEMMA PlaceMoves ==
  ASSUME RecordInv, TurnInv, PlaceInv, ClaimStays \/ ClaimMoves,
         \A k \in Keys : Descends(k),
         NEW W \in SUBSET Requests, \A w \in W : PlaceOfThread(w)',
         \A v \in Requests \ W : req'[v] = req[v]
  PROVE  PlaceInv'
<1>1. TypeOK
  BY DEF RecordInv
<1>2. ASSUME NEW k \in Keys
      PROVE  PlaceOfRecord(k)'
  <2>1. SUFFICES ASSUME NEW j \in Keys, record[j] # NoRecord, SameTurn(record'[k], record[j]),
                        record'[k].inbound
                 PROVE  record'[k].before \in DOMAIN log' /\ log'[record'[k].before] = record'[k].message
    BY <1>2 DEF Descends, PlaceOfRecord, PlacedAt
  <2>2. PlacedAt(record[j].message, record[j].before)
    BY <2>1 DEF PlaceInv, PlaceOfRecord, SameTurn
  <2>3. record[j].before \in DOMAIN log' /\ log'[record[j].before] = record[j].message
    BY <1>1, <2>2, PlaceStays
  <2>4. QED
    BY <2>1, <2>3 DEF SameTurn
<1>3. ASSUME NEW v \in Requests \ W
      PROVE  PlaceOfThread(v)'
  <2>1. PlaceOfThread(v) /\ req'[v] = req[v] /\ ThreadInv(v)
    BY <1>3 DEF PlaceInv, TurnInv
  <2>2. PlacedAt(req[v].message, req[v].before) =>
          req[v].before \in DOMAIN log' /\ log'[req[v].before] = req[v].message
    BY <1>1, PlaceStays
  <2>3. CASE ClaimStays
    BY <2>1, <2>2, <2>3 DEF PlaceOfThread, PlacedAt, ClaimStays, RevisionHeld, Revision
  <2>4. CASE ClaimMoves
    <3>1. Revision' = Revision + 1 /\ Revision \in Nat
      BY <1>1, <2>4, RevisionGrows DEF ClaimMoves
    <3>2. req[v].at \in Judged => req[v].expected \in Nat /\ req[v].expected <= Revision
      <4>1. req[v].at \in Judged => req[v] \in Request /\ req[v].at # "idle"
        BY <1>1, Active DEF Judged, Accepted, Stages
      <4>2. QED
        BY <2>1, <4>1 DEF ThreadInv, Request
    <3>3. req[v].at \in Judged => req[v].expected # Revision'
      BY <3>1, <3>2
    <3>4. QED
      BY <2>1, <2>2, <3>3 DEF PlaceOfThread, PlacedAt, RevisionHeld
  <2>5. QED
    BY <2>3, <2>4
<1>4. QED
  BY <1>2, <1>3 DEF PlaceInv

\* Records that stay, or are written by a thread that keeps their turn.
LEMMA RecordsDescend ==
  ASSUME TypeOK,
         \/ record' = record
         \/ \E k \in Keys : \E r :
              /\ record' = [record EXCEPT ![k] = r]
              /\ \E j \in Keys : record[j] # NoRecord /\ SameTurn(r, record[j])
  PROVE  \A k \in Keys : Descends(k)
BY DEF TypeOK, Descends, SameTurn

LEMMA ThreadPlaceMoves ==
  ASSUME RecordInv, TurnInv, PlaceInv, ClaimStays \/ ClaimMoves, \A k \in Keys : Descends(k),
         NEW w \in Requests, PlaceOfThread(w)', OnlyThread(w)
  PROVE  PlaceInv'
<1> DEFINE W == {w}
<1>1. W \in SUBSET Requests /\ (\A v \in W : v = w) /\ \A v \in Requests \ W : v # w
  OBVIOUS
<1> HIDE DEF W
<1>2. \A v \in W : PlaceOfThread(v)'
  BY <1>1
<1>3. \A v \in Requests \ W : req'[v] = req[v]
  BY <1>1 DEF OnlyThread
<1>4. QED
  BY <1>1, <1>2, <1>3, PlaceMoves

LEMMA ThreadLeaves ==
  ASSUME NEW w \in Requests, req'[w].at \notin {"load"} \union Judged
  PROVE  PlaceOfThread(w)'
BY DEF PlaceOfThread, Judged

\* A thread that goes on holding what it judged.
LEMMA ThreadStays ==
  ASSUME PlaceInv, NEW w \in Requests, ClaimStays, req[w].at \in Judged, req'[w].at \in Accepted,
         req'[w].expected = req[w].expected, req'[w].message = req[w].message,
         req'[w].retry = req[w].retry, req'[w].before = req[w].before,
         req'[w].confirm = req[w].confirm
  PROVE  PlaceOfThread(w)'
BY DEF PlaceInv, PlaceOfThread, Judged, Accepted, ClaimStays, RevisionHeld, Revision

\* A response that is sent or sent again ends the request or refuses it.
LEMMA ReplayEnds ==
  ASSUME TypeOK, NEW w \in Requests, req[w] \in Request, NEW r,
         Replay(w, r) \/ Refuse(w) \/ End(w)
  PROVE  req'[w].at \in {"idle", "settle"}
BY Refuses, Ends DEF Replay, Respond

\* The steps that look, replay, refuse, end or write an outcome.
LEMMA PassingPlace ==
  ASSUME RecordInv, TurnInv, PlaceInv, NEW w \in Requests, OnlyThread(w),
         \/ Submit(w) \/ FindKey(w) \/ Alias(w) \/ Recover(w) \/ Freeze(w) \/ Settle(w)
         \/ SettleError(w) \/ Crash(w)
  PROVE  PlaceInv'
<1>1. TypeOK
  BY DEF RecordInv
<1>2. ClaimStays
  BY DEF ClaimStays, Submit, FindKey, Alias, Recover, Freeze, Settle, SettleError, Crash
<1>3. ~At(w, "idle") => req[w] \in Request
  BY <1>1 DEF TypeOK, Idle, At
<1>4. req'[w].at \in {"find", "classify", "idle", "settle", "settling"}
  <2>1. CASE Submit(w)
    BY <1>1, <2>1 DEF Submit, TypeOK
  <2>2. CASE FindKey(w)
    <3>1. CASE GoTo(w, "classify")
      BY <1>1, <3>1 DEF GoTo, TypeOK
    <3>2. QED
      BY <1>1, <1>3, <2>2, <3>1, ReplayEnds DEF FindKey, At
  <2>3. CASE Alias(w)
    BY <1>1, <1>3, <2>3, ReplayEnds DEF Alias, At
  <2>4. CASE Settle(w)
    <3>1. CASE End(w)
      BY <1>1, <3>1, Ends
    <3>2. CASE req' = [req EXCEPT ![w].at = "settling",
                              ![w].rule = message[req[w].message].recovery]
      BY <1>1, <1>3, <2>4, <3>2 DEF TypeOK, Request, Settle, At
    <3>3. QED
      BY <2>4, <3>1, <3>2 DEF Settle
  <2>5. CASE Recover(w) \/ Freeze(w) \/ SettleError(w) \/ Crash(w)
    BY <1>1, <2>5, Ends DEF Recover, Freeze, SettleError, Crash, Respond
  <2>6. QED
    BY <2>1, <2>2, <2>3, <2>4, <2>5
<1>5. PlaceOfThread(w)'
  BY <1>4, ThreadLeaves DEF Judged, Accepted
<1>6. \A k \in Keys : Descends(k)
  <2>1. CASE record' = record
    BY <1>1, <2>1, RecordsDescend
  <2>2. CASE Alias(w)
    <3>1. PICK o \in Best(req[w].message) :
             record' = record \/ record' = [record EXCEPT ![req[w].key] = record[o]]
      BY <2>2 DEF Alias
    <3>2. o \in Keys /\ record[o] # NoRecord /\ SameTurn(record[o], record[o])
      BY DEF Best, KeysOf, SameTurn
    <3>3. req[w].key \in Keys
      BY <1>3, <2>2 DEF Alias, At, Request
    <3> DEFINE r == record[o]
    <3>4. record' = record \/ record' = [record EXCEPT ![req[w].key] = r]
      BY <3>1
    <3>5. SameTurn(r, record[o])
      BY <3>2
    <3> HIDE DEF r
    <3>6. QED
      BY <1>1, <3>2, <3>3, <3>4, <3>5, RecordsDescend
  <2>3. CASE Recover(w) \/ Freeze(w) \/ SettleError(w)
    <3> DEFINE k == req[w].key
    <3>1. req[w].at \in Held
      BY <2>3 DEF Recover, Freeze, SettleError, At, Held
    <3>2. k \in Keys /\ record[k] \in IdempotencyRecord
      BY <3>1, HeldRecord
    <3>3. CASE \E x, y : record' = [record EXCEPT ![k].result = x, ![k].revision = y]
      <4>1. PICK x, y : record' = [record EXCEPT ![k].result = x, ![k].revision = y]
        BY <3>3
      <4> DEFINE r == [record[k] EXCEPT !.result = x, !.revision = y]
      <4>2. SameTurn(r, record[k])
        BY <3>2 DEF SameTurn, IdempotencyRecord
      <4>3. record' = [record EXCEPT ![k] = r]
        BY <1>1, <3>2, <4>1 DEF TypeOK
      <4> HIDE DEF r, k
      <4>4. QED
        BY <1>1, <3>2, <4>2, <4>3, NoRecordAssumption, RecordsDescend
    <3>4. CASE record' = [record EXCEPT ![k].frozen = TRUE]
      <4> DEFINE r == [record[k] EXCEPT !.frozen = TRUE]
      <4>1. SameTurn(r, record[k])
        BY <3>2 DEF SameTurn, IdempotencyRecord
      <4>2. record' = [record EXCEPT ![k] = r]
        BY <1>1, <3>2, <3>4 DEF TypeOK
      <4> HIDE DEF r, k
      <4>3. QED
        BY <1>1, <3>2, <4>1, <4>2, NoRecordAssumption, RecordsDescend
    <3>5. CASE record' = [record EXCEPT ![k].result = "error"]
      <4> DEFINE r == [record[k] EXCEPT !.result = "error"]
      <4>1. SameTurn(r, record[k])
        BY <3>2 DEF SameTurn, IdempotencyRecord
      <4>2. record' = [record EXCEPT ![k] = r]
        BY <1>1, <3>2, <3>5 DEF TypeOK
      <4> HIDE DEF r, k
      <4>3. QED
        BY <1>1, <3>2, <4>1, <4>2, NoRecordAssumption, RecordsDescend
    <3>6. QED
      BY <2>1, <2>3, <3>3, <3>4, <3>5 DEF Recover, Freeze, SettleError
  <2>4. QED
    BY <2>1, <2>2, <2>3 DEF Submit, FindKey, Settle, Crash
<1>7. QED
  BY <1>2, <1>5, <1>6, ThreadPlaceMoves

LEMMA ClassifyPlace ==
  ASSUME RecordInv, TurnInv, PlaceInv, NEW w \in Requests, OnlyThread(w), Classify(w)
  PROVE  PlaceInv'
<1> DEFINE m == req[w].message
<1>1. TypeOK /\ ClaimStays /\ record' = record
  BY DEF RecordInv, ClaimStays, Classify
<1>2. req[w] \in Request /\ m \in Messages
  BY <1>1, Active DEF Classify, At, Stages, Request
<1>3. ~req[w].retry
  BY DEF TurnInv, ThreadInv, Classify, At, Unread
<1>4. ASSUME NEW s \in {"load", "alias"}, GoTo(w, s)
      PROVE  PlaceOfThread(w)'
  <2>1. s \in Stages
    BY DEF Stages
  <2>2. req'[w] = [req[w] EXCEPT !.at = s] /\ req'[w].at = s
    BY <1>1, <1>2, <1>4, <2>1, Goes
  <2>3. ~req'[w].retry
    BY <1>2, <1>3, <2>2 DEF Request
  <2>4. req'[w].at \notin Judged /\ req'[w].at # "accept"
    BY <2>2 DEF Judged
  <2>5. QED
    BY <2>3, <2>4 DEF PlaceOfThread
<1>5. ASSUME \E c \in Checkpoints(m) :
               req' = [req EXCEPT ![w].at = "load", ![w].retry = TRUE,
                                  ![w].rule = message[m].recovery,
                                  ![w].before = record[c].before,
                                  ![w].confirm = record[c].confirm]
      PROVE  PlaceOfThread(w)'
  <2>1. PICK c \in Checkpoints(m) :
             req' = [req EXCEPT ![w].at = "load", ![w].retry = TRUE,
                                ![w].rule = message[m].recovery,
                                ![w].before = record[c].before,
                                ![w].confirm = record[c].confirm]
    BY <1>5
  <2>2. req'[w].at = "load" /\ req'[w].before = record[c].before /\ req'[w].message = m
    BY <1>1, <1>2, <2>1 DEF TypeOK, Request
  <2>3. c \in Keys /\ record[c] # NoRecord /\ record[c].inbound /\ record[c].message = m
    BY DEF Checkpoints, KeysOf
  <2>4. PlacedAt(m, record[c].before)
    BY <2>3 DEF PlaceInv, PlaceOfRecord
  <2>5. req'[w].at \notin Judged /\ req'[w].at # "accept"
    BY <2>2 DEF Judged
  <2>6. QED
    BY <1>1, <2>2, <2>4, <2>5 DEF PlaceOfThread, PlacedAt, ClaimStays
<1>6. PlaceOfThread(w)'
  <2>1. CASE GoTo(w, "load")
    BY <1>4, <2>1
  <2>2. CASE GoTo(w, "alias")
    BY <1>4, <2>2
  <2>3. QED
    BY <1>5, <2>1, <2>2 DEF Classify
<1>7. QED
  BY <1>1, <1>6, RecordsDescend, ThreadPlaceMoves

\* The Agent may answer when nobody else has the conversation, and the
\* confirmation counts when nothing was written since it was shown, or, for a
\* retry, nothing but its message.
LEMMA LoadPlace ==
  ASSUME RecordInv, TurnInv, PlaceInv, NEW w \in Requests, OnlyThread(w), Load(w)
  PROVE  PlaceInv'
<1>1. TypeOK /\ ClaimStays /\ record' = record
  BY DEF RecordInv, ClaimStays, Load
<1>2. req[w] \in Request /\ req[w].at = "load"
  BY <1>1, Active DEF Load, At, Stages
<1>3. ASSUME Refuse(w) \/ End(w)
      PROVE  PlaceOfThread(w)'
  <2>1. req'[w].at \in {"settle", "idle"}
    BY <1>1, <1>2, <1>3, Refuses, Ends
  <2>2. req'[w].at \notin {"load"} \union Judged
    BY <2>1 DEF Judged
  <2>3. QED
    BY <2>2, ThreadLeaves
<1>4. ASSUME GoTo(w, "handover")
      PROVE  PlaceOfThread(w)'
  <2>1. "handover" \in Stages
    BY DEF Stages
  <2>2. req'[w].at = "handover"
    BY <1>1, <1>2, <1>4, <2>1, Goes
  <2>3. req'[w].at \notin {"load"} \union Judged
    BY <2>2 DEF Judged
  <2>4. QED
    BY <2>3, ThreadLeaves
<1>5. ASSUME /\ conversation # "closed" /\ ~(conversation = "human" /\ ~req[w].retry) /\ RevisionHeld(w)
             /\ \E shown \in BOOLEAN :
                  LET before == IF req[w].retry THEN req[w].before ELSE Revision
                      confirm == IF req[w].retry THEN ConfirmationKept(w) ELSE shown
                  IN /\ req[w].retry => shown
                     /\ req' = [req EXCEPT ![w].at = "accept",
                                  ![w].before = before, ![w].confirm = confirm]
      PROVE  PlaceOfThread(w)'
  <2>1. PICK shown \in BOOLEAN :
          req' = [req EXCEPT ![w].at = "accept",
                    ![w].before = IF req[w].retry THEN req[w].before ELSE Revision,
                    ![w].confirm = IF req[w].retry THEN ConfirmationKept(w) ELSE shown]
    BY <1>5
  <2>2. /\ req'[w].at = "accept" /\ req'[w].message = req[w].message
        /\ req'[w].retry = req[w].retry /\ req'[w].expected = req[w].expected
        /\ req'[w].before = IF req[w].retry THEN req[w].before ELSE Revision
        /\ req'[w].confirm = IF req[w].retry THEN ConfirmationKept(w) ELSE shown
    BY <1>1, <1>2, <2>1 DEF TypeOK, Request
  <2>3. Revision' = Revision /\ req[w].expected = Revision /\ Len(log) \in Nat /\ Revision = Len(log) + 1
    BY <1>1, <1>5 DEF ClaimStays, Revision, RevisionHeld, TypeOK
  <2>4. ~req[w].retry => conversation = "agent"
    BY <1>1, <1>5 DEF TypeOK
  <2>5. ASSUME req'[w].confirm, NEW i \in req'[w].before .. Len(log)
        PROVE  log[i] = req[w].message
    <3>1. CASE req[w].retry
      <4>1. ConfirmationKept(w) /\ req'[w].before = req[w].before
        BY <2>2, <2>5, <3>1
      <4>2. Len(log) + 1 = req[w].before + 1 /\ req[w].before \in Nat
        BY <1>2, <2>3, <4>1 DEF ConfirmationKept, Request
      <4>3. i = req[w].before
        BY <2>3, <2>5, <4>1, <4>2
      <4>4. PlacedAt(req[w].message, req[w].before)
        BY <1>2, <3>1 DEF PlaceInv, PlaceOfThread
      <4>5. QED
        BY <4>3, <4>4 DEF PlacedAt
    <3>2. CASE ~req[w].retry
      BY <2>2, <2>3, <2>5, <3>2
    <3>3. QED
      BY <3>1, <3>2
  <2>6. req'[w].before # 0
    <3>1. req[w].retry => PlacedAt(req[w].message, req[w].before)
      BY <1>2 DEF PlaceInv, PlaceOfThread
    <3>2. 0 \notin DOMAIN log
      BY <1>1 DEF TypeOK
    <3>3. QED
      BY <2>2, <2>3, <3>1, <3>2 DEF PlacedAt
  <2>7. ~req'[w].retry => req'[w].before = req'[w].expected
    BY <2>2, <2>3
  <2>8. log' = log /\ conversation' = conversation
    BY <1>1 DEF ClaimStays
  <2>9. QED
    BY <2>2, <2>4, <2>5, <2>6, <2>7, <2>8 DEF PlaceOfThread
<1>6. PlaceOfThread(w)'
  BY <1>3, <1>4, <1>5 DEF Load
<1>7. QED
  BY <1>1, <1>6, RecordsDescend, ThreadPlaceMoves

\* A saved message: its record, if it is a checkpoint, has the place it was
\* written at.
LEMMA SavedDescends ==
  ASSUME TypeOK, NEW w \in Requests, req[w] \in Request, NEW r \in IdempotencyRecord,
         SaveMessage(w, r),
         r.inbound => r.message = req[w].message /\ r.before = Revision
  PROVE  ClaimMoves /\ \A k \in Keys : Descends(k)
<1> DEFINE key == req[w].key
<1>1. /\ log' = Append(log, req[w].message) /\ req[w].message \in Messages
      /\ record' = [record EXCEPT ![key] = r] /\ key \in Keys
  BY DEF SaveMessage, Request
<1>2. log \in Seq(Messages \union {Other})
  BY DEF TypeOK
<1>3. Revision \in DOMAIN log' /\ log'[Revision] = req[w].message
  BY <1>1, <1>2 DEF Revision
<1> HIDE DEF key
<1>4. record'[key] = r /\ \A k \in Keys : k # key => record'[k] = record[k]
  BY <1>1 DEF TypeOK
<1>5. r.inbound => r.before \in DOMAIN log' /\ log'[r.before] = r.message
  BY <1>3
<1>6. ASSUME NEW k \in Keys PROVE Descends(k)
  <2>1. CASE k = key
    <3>1. PlaceOfRecord(k)'
      BY <1>4, <1>5, <2>1 DEF PlaceOfRecord, PlacedAt
    <3>2. QED
      BY <3>1 DEF Descends
  <2>2. CASE k # key
    BY <1>4, <2>2 DEF Descends, SameTurn
  <2>3. QED
    BY <2>1, <2>2
<1>7. QED
  BY <1>1, <1>6 DEF ClaimMoves

LEMMA HandoverPlace ==
  ASSUME RecordInv, TurnInv, PlaceInv, NEW w \in Requests, OnlyThread(w), Handover(w)
  PROVE  PlaceInv'
<1>1. TypeOK
  BY DEF RecordInv
<1>2. req[w] \in Request /\ req[w].message \in Messages /\ Revision + 1 \in Nat
  BY <1>1, Active, RevisionGrows DEF Handover, At, Stages, Request
<1>3. Refuse(w) \/ End(w)
  BY DEF Handover, Respond
<1>4. PlaceOfThread(w)'
  <2>1. req'[w].at \in {"settle", "idle"}
    BY <1>1, <1>2, <1>3, Refuses, Ends
  <2>2. req'[w].at \notin {"load"} \union Judged
    BY <2>1 DEF Judged
  <2>3. QED
    BY <2>2, ThreadLeaves
<1>5. CASE record' = record /\ log' = log
  BY <1>1, <1>4, <1>5, RecordsDescend, ThreadPlaceMoves DEF ClaimStays, Handover
<1>6. CASE SaveMessage(w, [Checkpoint(req[w].message, 0, FALSE, FALSE)
                             EXCEPT !.result = "saved", !.revision = Revision + 1])
  <2> DEFINE r == [Checkpoint(req[w].message, 0, FALSE, FALSE)
                     EXCEPT !.result = "saved", !.revision = Revision + 1]
  <2>1. r \in IdempotencyRecord /\ ~r.inbound
    BY <1>2 DEF Checkpoint, IdempotencyRecord, Results
  <2> HIDE DEF r
  <2>2. SaveMessage(w, r)
    BY <1>6 DEF r
  <2>3. QED
    BY <1>1, <1>2, <1>4, <2>1, <2>2, SavedDescends, ThreadPlaceMoves
<1>7. QED
  BY <1>5, <1>6 DEF Handover

LEMMA AcceptNewPlace ==
  ASSUME RecordInv, TurnInv, PlaceInv, NEW w \in Requests, OnlyThread(w), AcceptNew(w)
  PROVE  PlaceInv'
<1>1. TypeOK /\ conversation' = conversation
  BY DEF RecordInv, AcceptNew
<1>2. /\ req[w] \in Request /\ req[w].message \in Messages /\ req[w].before \in Nat
      /\ req[w].confirm \in BOOLEAN /\ req[w].at = "accept" /\ ~req[w].retry
  BY <1>1, Active DEF AcceptNew, At, Stages, Request
<1>3. CASE Refuse(w) /\ record' = record /\ log' = log
  <2>1. PlaceOfThread(w)'
    <3>1. req'[w].at = "settle"
      BY <1>1, <1>2, <1>3, Refuses
    <3>2. req'[w].at \notin {"load"} \union Judged
      BY <3>1 DEF Judged
    <3>3. QED
      BY <3>2, ThreadLeaves
  <2>2. QED
    BY <1>1, <1>3, <2>1, RecordsDescend, ThreadPlaceMoves DEF ClaimStays
<1>4. CASE /\ RevisionHeld(w)
           /\ SaveMessage(w, Checkpoint(req[w].message, req[w].before, req[w].confirm, TRUE))
           /\ req' = [req EXCEPT ![w].at = "safety", ![w].expected = Revision + 1]
  <2> DEFINE r == Checkpoint(req[w].message, req[w].before, req[w].confirm, TRUE)
  <2>1. r \in IdempotencyRecord
    BY <1>2, CheckpointTyped
  <2>2. r.message = req[w].message /\ r.before = req[w].before
    BY DEF Checkpoint
  <2>3. req[w].before = Revision
    BY <1>2, <1>4 DEF PlaceInv, PlaceOfThread, RevisionHeld
  <2> HIDE DEF r
  <2>4. ClaimMoves /\ \A k \in Keys : Descends(k)
    <3>1. SaveMessage(w, r)
      BY <1>4 DEF r
    <3>2. QED
      BY <1>1, <1>2, <2>1, <2>2, <2>3, <3>1, SavedDescends
  <2>5. /\ req'[w].at = "safety" /\ req'[w].message = req[w].message
        /\ req'[w].retry = req[w].retry /\ req'[w].before = req[w].before
        /\ req'[w].confirm = req[w].confirm
    BY <1>1, <1>2, <1>4 DEF TypeOK, Request
  <2>6. req[w].message \notin Alarms => conversation = "agent"
    BY <1>2, <1>4 DEF PlaceInv, PlaceOfThread, Judged
  <2>7. \A i \in req[w].before .. Len(log') : log'[i] = req[w].message
    <3>1. log \in Seq(Messages \union {Other}) /\ log' = Append(log, req[w].message)
      BY <1>1, <1>4 DEF TypeOK, SaveMessage
    <3>2. req[w].before = Len(log) + 1
      BY <2>3 DEF Revision
    <3>3. QED
      BY <3>1, <3>2
  <2>8. PlaceOfThread(w)'
    <3>1. req[w].before # 0
      BY <1>2 DEF PlaceInv, PlaceOfThread, Judged
    <3>2. QED
      BY <1>1, <1>2, <2>5, <2>6, <2>7, <3>1 DEF PlaceOfThread
  <2>9. QED
    BY <2>4, <2>8, ThreadPlaceMoves
<1>5. QED
  BY <1>3, <1>4 DEF AcceptNew

LEMMA AcceptRetryPlace ==
  ASSUME RecordInv, TurnInv, PlaceInv, NEW w \in Requests, OnlyThread(w), AcceptRetry(w)
  PROVE  PlaceInv'
<1>1. TypeOK /\ ClaimStays
  BY DEF RecordInv, ClaimStays, AcceptRetry
<1>2. /\ req[w] \in Request /\ req[w].at = "accept" /\ req[w].key \in Keys
  BY <1>1, Active DEF AcceptRetry, At, Stages, Request
<1>3. PlaceOfThread(w)'
  <2>1. CASE GoTo(w, "safety")
    <3>1. "safety" \in Stages
      BY DEF Stages
    <3>2. req'[w] = [req[w] EXCEPT !.at = "safety"]
      BY <1>1, <1>2, <2>1, <3>1, Goes
    <3>3. /\ req'[w].at = "safety" /\ req'[w].message = req[w].message
          /\ req'[w].retry = req[w].retry /\ req'[w].before = req[w].before
          /\ req'[w].confirm = req[w].confirm /\ req'[w].expected = req[w].expected
      BY <1>2, <3>2 DEF Request
    <3>4. req[w].at \in Judged /\ req'[w].at \in Accepted
      BY <1>2, <3>3 DEF Judged, Accepted
    <3>5. QED
      BY <1>1, <3>3, <3>4, ThreadStays
  <2>2. CASE End(w)
    <3>1. req'[w].at = "idle"
      BY <1>1, <2>2, Ends
    <3>2. req'[w].at \notin {"load"} \union Judged
      BY <3>1 DEF Judged
    <3>3. QED
      BY <3>2, ThreadLeaves
  <2>3. QED
    BY <2>1, <2>2 DEF AcceptRetry
<1>4. \A k \in Keys : Descends(k)
  <2>1. CASE record' = record
    BY <1>1, <2>1, RecordsDescend
  <2>2. CASE record' = [record EXCEPT ![req[w].key] =
                          Checkpoint(req[w].message, req[w].before, req[w].confirm, FALSE)]
    <3> DEFINE r == Checkpoint(req[w].message, req[w].before, req[w].confirm, FALSE)
               key == req[w].key
    <3>1. ~r.inbound
      BY DEF Checkpoint
    <3> HIDE DEF r, key
    <3>2. record'[key] = r /\ \A k \in Keys : k # key => record'[k] = record[k]
      BY <1>1, <1>2, <2>2 DEF TypeOK, r, key
    <3>3. QED
      BY <3>1, <3>2 DEF Descends, SameTurn, PlaceOfRecord
  <2>3. QED
    BY <2>1, <2>2 DEF AcceptRetry
<1>5. QED
  BY <1>1, <1>3, <1>4, ThreadPlaceMoves

LEMMA SafetyPlace ==
  ASSUME RecordInv, TurnInv, PlaceInv, NEW w \in Requests, OnlyThread(w), Safety(w)
  PROVE  PlaceInv'
<1>1. TypeOK /\ record' = record
  BY DEF RecordInv, Safety
<1>2. req[w] \in Request /\ req[w].at = "safety" /\ req[w].message \in Messages
  BY <1>1, Active DEF Safety, At, Stages, Request
<1>3. \A k \in Keys : Descends(k)
  BY <1>1, RecordsDescend
<1>4. ASSUME ClaimStays, NEW s \in {"model", "settle"}, GoTo(w, s)
      PROVE  PlaceInv'
  <2>1. s \in Stages
    BY DEF Stages
  <2>2. req'[w] = [req[w] EXCEPT !.at = s]
    BY <1>1, <1>2, <1>4, <2>1, Goes
  <2>3. /\ req'[w].at = s /\ req'[w].message = req[w].message
        /\ req'[w].retry = req[w].retry /\ req'[w].before = req[w].before
        /\ req'[w].confirm = req[w].confirm /\ req'[w].expected = req[w].expected
    BY <1>2, <2>2 DEF Request
  <2>4. PlaceOfThread(w)'
    <3>1. CASE s = "model"
      <4>1. req[w].at \in Judged /\ req'[w].at \in Accepted
        BY <1>2, <2>3, <3>1 DEF Judged, Accepted
      <4>2. QED
        BY <1>4, <2>3, <4>1, ThreadStays
    <3>2. CASE s = "settle"
      <4>1. req'[w].at \notin {"load"} \union Judged
        BY <2>3, <3>2 DEF Judged
      <4>2. QED
        BY <4>1, ThreadLeaves
    <3>3. QED
      BY <3>1, <3>2
  <2>5. QED
    BY <1>3, <1>4, <2>4, ThreadPlaceMoves
<1>5. CASE /\ Interrupts(req[w].message)
           /\ RevisionHeld(w)
           /\ log' = Append(log, req[w].message)
           /\ req' = [req EXCEPT ![w].at = "model", ![w].expected = Revision + 1]
  <2>1. /\ req'[w].at = "model" /\ req'[w].message = req[w].message
        /\ req'[w].before = req[w].before /\ req'[w].confirm = req[w].confirm
    BY <1>1, <1>2, <1>5 DEF TypeOK, Request
  <2>2. ASSUME req[w].confirm, NEW i \in req[w].before .. Len(log')
        PROVE  log'[i] = req[w].message
    <3>1. \A j \in req[w].before .. Len(log) : log[j] = req[w].message
      BY <1>2, <1>5, <2>2 DEF PlaceInv, PlaceOfThread, Judged, Accepted
    <3>2. log \in Seq(Messages \union {Other}) /\ PlaceOfThread(w)
      BY <1>1 DEF TypeOK, PlaceInv
    <3>3. log' = Append(log, req[w].message) /\ Len(log') = Len(log) + 1 /\ Len(log) \in Nat
      BY <1>5, <3>2
    <3>4. CASE i = Len(log) + 1
      BY <3>2, <3>3, <3>4
    <3>5. CASE i \in 1 .. Len(log)
      <4>1. log'[i] = log[i]
        BY <3>2, <3>3, <3>5
      <4>2. i \in req[w].before .. Len(log)
        BY <2>2, <3>3, <3>5
      <4>3. QED
        BY <3>1, <4>1, <4>2
    <3>6. req[w].before \in Nat \ {0}
      BY <1>2, <3>2 DEF PlaceOfThread, Judged, Request
    <3>7. QED
      BY <2>2, <3>3, <3>4, <3>5, <3>6
  <2>3. PlaceOfThread(w)'
    <3>1. req[w].before # 0
      BY <1>2 DEF PlaceInv, PlaceOfThread, Judged
    <3>2. req[w].message \in Alarms
      BY <1>5 DEF Interrupts
    <3>3. QED
      BY <2>1, <2>2, <3>1, <3>2 DEF PlaceOfThread
  <2>4. ClaimMoves
    BY <1>2, <1>5 DEF ClaimMoves
  <2>5. QED
    BY <1>3, <2>3, <2>4, ThreadPlaceMoves
<1>6. QED
  BY <1>4, <1>5 DEF Safety, Refuse, ClaimStays

LEMMA ProposePlace ==
  ASSUME RecordInv, TurnInv, PlaceInv, NEW w \in Requests, OnlyThread(w), Propose(w)
  PROVE  PlaceInv'
<1>1. TypeOK /\ record' = record /\ ClaimStays
  BY DEF RecordInv, Propose, ClaimStays
<1>2. req[w] \in Request /\ req[w].at = "model"
  BY <1>1, Active DEF Propose, At, Stages
<1>3. ASSUME Refuse(w)
      PROVE  PlaceOfThread(w)'
  <2>1. req'[w].at = "settle"
    BY <1>1, <1>2, <1>3, Refuses
  <2>2. req'[w].at \notin {"load"} \union Judged
    BY <2>1 DEF Judged
  <2>3. QED
    BY <2>2, ThreadLeaves
<1>4. ASSUME GoTo(w, "commit")
      PROVE  PlaceOfThread(w)'
  <2>1. "commit" \in Stages
    BY DEF Stages
  <2>2. req'[w] = [req[w] EXCEPT !.at = "commit"]
    BY <1>1, <1>2, <1>4, <2>1, Goes
  <2>3. /\ req'[w].at = "commit" /\ req'[w].message = req[w].message
        /\ req'[w].retry = req[w].retry /\ req'[w].before = req[w].before
        /\ req'[w].confirm = req[w].confirm /\ req'[w].expected = req[w].expected
    BY <1>2, <2>2 DEF Request
  <2>4. req[w].at \in Judged /\ req'[w].at \in Accepted
    BY <1>2, <2>3 DEF Judged, Accepted
  <2>5. QED
    BY <1>1, <2>3, <2>4, ThreadStays
<1>5. ASSUME \E r \in Rules :
               req' = [req EXCEPT ![w].at = "recover", ![w].rule = r, ![w].revision = Revision]
      PROVE  PlaceOfThread(w)'
  <2>1. /\ req'[w].at = "recover" /\ req'[w].message = req[w].message
        /\ req'[w].retry = req[w].retry /\ req'[w].before = req[w].before
        /\ req'[w].confirm = req[w].confirm /\ req'[w].expected = req[w].expected
    BY <1>1, <1>2, <1>5 DEF TypeOK, Request
  <2>2. req[w].at \in Judged /\ req'[w].at \in Accepted
    BY <1>2, <2>1 DEF Judged, Accepted
  <2>3. QED
    BY <1>1, <2>1, <2>2, ThreadStays
<1>6. PlaceOfThread(w)'
  BY <1>3, <1>4, <1>5 DEF Propose
<1>7. QED
  BY <1>1, <1>6, RecordsDescend, ThreadPlaceMoves

LEMMA CommitPlace ==
  ASSUME RecordInv, TurnInv, PlaceInv, NEW w \in Requests, OnlyThread(w), Commit(w)
  PROVE  PlaceInv'
<1> DEFINE key == req[w].key
<1>1. TypeOK
  BY DEF RecordInv
<1>2. /\ req[w] \in Request /\ key \in Keys /\ req[w].message \in Messages
      /\ record[key] \in IdempotencyRecord
  BY HeldRecord DEF Commit, At, Held, Request
<1>3. ASSUME NEW s \in {"freeze", "settle"}, GoTo(w, s)
      PROVE  PlaceOfThread(w)'
  <2>1. s \in Stages
    BY DEF Stages
  <2>2. req'[w].at = s
    BY <1>1, <1>2, <1>3, <2>1, Goes
  <2>3. req'[w].at \notin {"load"} \union Judged
    BY <2>2 DEF Judged
  <2>4. QED
    BY <2>3, ThreadLeaves
<1>4. CASE /\ log' = Append(log, req[w].message)
           /\ record' = [record EXCEPT ![key].result = "answer", ![key].revision = Revision + 1]
           /\ GoTo(w, "freeze")
  <2> DEFINE r == [record[key] EXCEPT !.result = "answer", !.revision = Revision + 1]
  <2>1. SameTurn(r, record[key])
    BY <1>2 DEF SameTurn, IdempotencyRecord
  <2>2. record' = [record EXCEPT ![key] = r]
    BY <1>1, <1>2, <1>4 DEF TypeOK
  <2> HIDE DEF r, key
  <2>3. \A k \in Keys : Descends(k)
    BY <1>1, <1>2, <2>1, <2>2, NoRecordAssumption, RecordsDescend
  <2>4. ClaimMoves
    BY <1>2, <1>4 DEF ClaimMoves
  <2>5. PlaceOfThread(w)'
    BY <1>3, <1>4
  <2>6. QED
    BY <2>3, <2>4, <2>5, ThreadPlaceMoves
<1>5. CASE GoTo(w, "settle") /\ UNCHANGED <<log, record, conversation>>
  <2>1. ClaimStays /\ record' = record
    BY <1>5 DEF ClaimStays
  <2>2. PlaceOfThread(w)'
    BY <1>3, <1>5
  <2>3. QED
    BY <1>1, <2>1, <2>2, RecordsDescend, ThreadPlaceMoves
<1>6. QED
  BY <1>4, <1>5 DEF Commit, Refuse

LEMMA OtherMutationPlace ==
  ASSUME RecordInv, TurnInv, PlaceInv, OtherMutation
  PROVE  PlaceInv'
<1> DEFINE W == {}
<1>1. \A k \in Keys : Descends(k)
  BY RecordsDescend DEF RecordInv, OtherMutation
<1>2. ClaimMoves
  BY DEF ClaimMoves, OtherMutation
<1>3. W \in SUBSET Requests /\ (\A w \in W : FALSE) /\ \A v \in Requests \ W : req'[v] = req[v]
  BY DEF OtherMutation
<1> HIDE DEF W
<1>4. \A w \in W : PlaceOfThread(w)'
  BY <1>3
<1>5. QED
  BY <1>1, <1>2, <1>3, <1>4, PlaceMoves

LEMMA PlaceInvStep ==
  ASSUME RecordInv, TurnInv, PlaceInv, [Next]_vars
  PROVE  PlaceInv'
<1>1. ASSUME NEW w \in Requests, Submit(w) \/ Step(w) \/ Crash(w)
      PROVE  PlaceInv'
  <2>1. OnlyThread(w)
    BY <1>1, ThreadStep DEF Effect
  <2>2. CASE \/ Submit(w) \/ FindKey(w) \/ Alias(w) \/ Recover(w) \/ Freeze(w) \/ Settle(w)
             \/ SettleError(w) \/ Crash(w)
    BY <2>1, <2>2, PassingPlace
  <2>3. CASE Classify(w)
    BY <2>1, <2>3, ClassifyPlace
  <2>4. CASE Load(w)
    BY <2>1, <2>4, LoadPlace
  <2>5. CASE Handover(w)
    BY <2>1, <2>5, HandoverPlace
  <2>6. CASE AcceptNew(w)
    BY <2>1, <2>6, AcceptNewPlace
  <2>7. CASE AcceptRetry(w)
    BY <2>1, <2>7, AcceptRetryPlace
  <2>8. CASE Safety(w)
    BY <2>1, <2>8, SafetyPlace
  <2>9. CASE Propose(w)
    BY <2>1, <2>9, ProposePlace
  <2>10. CASE Commit(w)
    BY <2>1, <2>10, CommitPlace
  <2>11. QED
    BY <1>1, <2>2, <2>3, <2>4, <2>5, <2>6, <2>7, <2>8, <2>9, <2>10 DEF Step
<1>2. CASE OtherMutation
  BY <1>2, OtherMutationPlace
<1>3. CASE UNCHANGED vars
  BY <1>3 DEF vars, PlaceInv, PlaceOfRecord, PlaceOfThread, PlacedAt, RevisionHeld, Revision
<1>4. QED
  BY <1>1, <1>2, <1>3 DEF Next

\* A thread that answers committed on the revision it judged.
LEMMA AnswersOnItsRevision ==
  ASSUME RecordInv, Next, NEW w \in Requests, Answering(w)
  PROVE  req[w].at = "commit" /\ RevisionHeld(w)
<1>1. PICK v \in Requests : Submit(v) \/ Step(v) \/ Crash(v)
  <2>1. ~OtherMutation
    BY DEF Answering, At, OtherMutation
  <2>2. QED
    BY <2>1 DEF Next
<1>2. v = w
  <2>1. OnlyThread(v)
    BY <1>1, ThreadStep DEF Effect
  <2>2. req'[w] # req[w]
    BY DEF Answering, At
  <2>3. QED
    BY <2>1, <2>2 DEF OnlyThread
<1>3. TypeOK /\ req[w].at = "commit" /\ req'[w].at = "freeze"
  BY DEF RecordInv, Answering, At
<1>4. req[w] \in Request
  BY <1>3, Active DEF Stages
<1>5. ~Crash(w)
  BY <1>3, Ends DEF Crash
<1>6. Commit(w)
  BY <1>1, <1>2, <1>3, <1>5 DEF Step, Submit, FindKey, Classify, Alias, Load, Handover, AcceptNew,
     AcceptRetry, Safety, Propose, Recover, Freeze, Settle, SettleError, At
<1>7. ~Refuse(w)
  BY <1>3, <1>4, Refuses
<1>8. QED
  BY <1>3, <1>6, <1>7 DEF Commit, MayCommit

LEMMA PlaceInvariant == Spec => [](RecordInv /\ PlaceInv)
<1>1. Init => TurnInv
  BY DEF Init, TurnInv, AnsweredOnce, DecisionsStored, ThreadInv, Idle,
         Accepted, Arriving, Unread
<1>2. Init => PlaceInv
  BY DEF Init, PlaceInv, PlaceOfRecord, PlaceOfThread, Idle, Judged
<1>3. RecordInv /\ TurnInv /\ [Next]_vars => TurnInv'
  BY TurnInvStep
<1>4. RecordInv /\ TurnInv /\ PlaceInv /\ [Next]_vars => PlaceInv'
  BY PlaceInvStep
<1>5. QED
  BY <1>1, <1>2, <1>3, <1>4, RecordInvariant, PTL DEF Spec

\* The Agent answers a new message only while no person has the conversation,
\* although it looked at who has it before the model was asked: the second
\* compare-and-swap fails when anything was committed since.
THEOREM AgentKeepsOut == Spec => AgentStaysOut
<1>1. RecordInv /\ PlaceInv /\ [Next]_vars =>
        [\A w \in Requests :
           Answering(w) /\ ~req[w].retry /\ req[w].message \notin Alarms =>
             conversation = "agent"]_vars
  <2>1. SUFFICES ASSUME RecordInv, PlaceInv, Next, NEW w \in Requests, Answering(w),
                        ~req[w].retry, req[w].message \notin Alarms
                 PROVE  conversation = "agent"
    OBVIOUS
  <2>2. req[w].at \in Judged /\ RevisionHeld(w)
    BY <2>1, AnswersOnItsRevision DEF Judged
  <2>3. QED
    BY <2>1, <2>2 DEF PlaceInv, PlaceOfThread
<1>2. QED
  BY <1>1, PlaceInvariant, PTL DEF Spec, AgentStaysOut

\* A confirmation counts only for a Claim nothing but its own message was
\* written to since it was shown: it dies with the first other commit, and no
\* retry under any key brings it back.
THEOREM ConfirmationStaysDead == Spec => ConfirmationNotRevived
<1>1. RecordInv /\ PlaceInv /\ [Next]_vars =>
        [\A w \in Requests :
           Answering(w) /\ req[w].confirm =>
             \A i \in req[w].before..Len(log) : log[i] = req[w].message]_vars
  <2>1. SUFFICES ASSUME RecordInv, PlaceInv, Next, NEW w \in Requests, Answering(w),
                        req[w].confirm
                 PROVE  \A i \in req[w].before..Len(log) : log[i] = req[w].message
    OBVIOUS
  <2>2. req[w].at \in Judged /\ RevisionHeld(w)
    BY <2>1, AnswersOnItsRevision DEF Judged
  <2>3. QED
    BY <2>1, <2>2 DEF PlaceInv, PlaceOfThread
<1>2. QED
  BY <1>1, PlaceInvariant, PTL DEF Spec, ConfirmationNotRevived

----------------------------------------------------------------------------
(***************************************************************************)
(* No message is left hanging.  A stored message is answered, handed over, *)
(* open to a retry, or carried by a thread whose key's checkpoint is still *)
(* open; whoever closes that checkpoint answers the message or opens it to *)
(* a retry.                                                                *)
(***************************************************************************)
\* What opens an accepted message to a retry.
Failed(m) == \E k \in KeysOf(m) : record[k].inbound /\ record[k].result = "error"
Repairable(m) == message[m].recovery # NoRule \/ Failed(m)

HandedOver(m) == \E k \in KeysOf(m) : record[k].result = "saved"

\* The thread will answer, recover or settle the checkpoint of m.
Carrying == {"safety", "model", "recover", "commit", "settle", "settling"}
Carries(w, m) ==
  /\ req[w].at \in Carrying
  /\ req[w].message = m
  /\ req[w].key \in KeysOf(m)
  /\ record[req[w].key].inbound /\ record[req[w].key].result = "open"

\* A record is of a stored message, an answer of an answered one; and only a
\* retry, or an alias of one, has a record without a checkpoint.
RecordOK(k) ==
  record[k] # NoRecord =>
    /\ message[record[k].message].saved
    /\ record[k].result = "answer" => Decided(record[k].message)
    /\ ~record[k].inbound /\ record[k].result # "saved" => Repairable(record[k].message)

\* A message is accepted once: its checkpoints are copies of one.
OneCheckpoint ==
  \A j, k \in Keys :
    /\ record[j] # NoRecord /\ record[k] # NoRecord
    /\ record[j].message = record[k].message
    /\ record[j].inbound /\ record[k].inbound
    => record[j].before = record[k].before

\* An error that is settled with an old copy of the message, and so takes its
\* recovery rule away, leaves a failed checkpoint in its place.
ThreadOK(w) ==
  /\ req[w].at \in Held => record[req[w].key].message = req[w].message
  /\ req[w].at = "recover" => req[w].rule # NoRule
  /\ req[w].at \in {"load", "accept"} /\ req[w].retry => Repairable(req[w].message)
  /\ req[w].at = "settling" /\ req[w].rule = NoRule =>
       record[req[w].key].inbound \/ Failed(req[w].message)

Resolved(m) == Decided(m) \/ Repairable(m)

MessageOK(m) ==
  message[m].saved =>
    /\ \E k \in KeysOf(m) : record[k].inbound \/ record[k].result = "saved"
    /\ \/ Resolved(m) \/ HandedOver(m)
       \/ crashes # 0 \/ \E w \in Requests : Carries(w, m)

HangInv ==
  /\ OneCheckpoint
  /\ \A k \in Keys : RecordOK(k)
  /\ \A w \in Requests : ThreadOK(w)
  /\ \A m \in Messages : MessageOK(m)

\* What every step leaves: the turn each record stands for, and all that
\* resolves a message.  Who closes an open record resolves its message.
Kept(m) ==
  /\ message[m].saved => message'[m].saved
  /\ Repairable(m) => Repairable(m)'

Closes(k) == record[k] # NoRecord /\ record[k].result = "open" /\ record'[k].result # "open"

Progress ==
  /\ decisions \subseteq decisions'
  /\ crashes # 0 => crashes' # 0
  /\ \A m \in Messages : Kept(m)
  /\ \A k \in Keys : record[k] # NoRecord => SameTurn(record'[k], record[k])
  /\ \A k \in Keys : Closes(k) => \A m \in Messages : record[k].message = m => Resolved(m)'

\* The record is an earlier one, or a copy of it.
Like(k) ==
  \E j \in Keys :
    /\ record[j] # NoRecord
    /\ SameTurn(record'[k], record[j])
    /\ record'[k].result = record[j].result

\* A finished record keeps its result.
LEMMA ResultStays ==
  ASSUME RecordInv, RecordsKept, NEW k \in Keys, record[k] # NoRecord,
         record[k].result # "open"
  PROVE  record'[k] # NoRecord /\ record'[k].result = record[k].result
BY OutcomeStays DEF RecordInv, RecordsKept

LEMMA FailedStays ==
  ASSUME RecordInv, RecordsKept, NEW m \in Messages, Failed(m),
         \A k \in Keys : record[k] # NoRecord => SameTurn(record'[k], record[k])
  PROVE  Failed(m)'
<1>1. PICK k \in Keys : /\ record[k] # NoRecord /\ record[k].message = m
                        /\ record[k].inbound /\ record[k].result = "error"
  BY DEF Failed, KeysOf
<1>2. record'[k] # NoRecord /\ record'[k].result = "error"
  BY <1>1, ResultStays
<1>3. record'[k].message = m /\ record'[k].inbound
  BY <1>1 DEF SameTurn
<1>4. QED
  BY <1>2, <1>3 DEF Failed, KeysOf

LEMMA HandedOverStays ==
  ASSUME RecordInv, RecordsKept, Progress, NEW m \in Messages, HandedOver(m)
  PROVE  HandedOver(m)'
<1>1. PICK k \in Keys : /\ record[k] # NoRecord /\ record[k].message = m
                        /\ record[k].result = "saved"
  BY DEF HandedOver, KeysOf
<1>2. record'[k] # NoRecord /\ record'[k].result = "saved"
  BY <1>1, ResultStays
<1>3. record'[k].message = m
  BY <1>1 DEF Progress, SameTurn
<1>4. QED
  BY <1>2, <1>3 DEF HandedOver, KeysOf

LEMMA ResolvedStays ==
  ASSUME Progress, NEW m \in Messages, Resolved(m)
  PROVE  Resolved(m)'
BY DEF Progress, Resolved, Kept, Decided

\* A copy of a sound record is sound.
LEMMA LikeIsOK ==
  ASSUME RecordInv, HangInv, Progress, NEW k \in Keys, Like(k)
  PROVE  RecordOK(k)'
<1>1. PICK j \in Keys : /\ record[j] # NoRecord
                        /\ SameTurn(record'[k], record[j])
                        /\ record'[k].result = record[j].result
  BY DEF Like
<1>2. PICK m \in Messages : m = record[j].message
  BY <1>1 DEF RecordInv, TypeOK, IdempotencyRecord
<1>3. record'[k].message = m /\ record'[k].inbound = record[j].inbound
  BY <1>1, <1>2 DEF SameTurn
<1>4. /\ message[m].saved
      /\ record[j].result = "answer" => Decided(m)
      /\ ~record[j].inbound /\ record[j].result # "saved" => Repairable(m)
  BY <1>1, <1>2 DEF HangInv, RecordOK
<1>5. /\ message'[m].saved
      /\ Decided(m) => Decided(m)'
      /\ Repairable(m) => Repairable(m)'
  BY <1>4 DEF Progress, Kept, Decided
<1>6. QED
  BY <1>1, <1>3, <1>4, <1>5 DEF RecordOK

\* The thread of another request goes on.
LEMMA OtherThreadOK ==
  ASSUME RecordInv, RecordsKept, HangInv, Progress, NEW v \in Requests, req'[v] = req[v]
  PROVE  ThreadOK(v)'
<1>1. CASE req[v].at \notin Held \union {"load", "accept"}
  BY <1>1 DEF ThreadOK, Held
<1>2. CASE req[v].at \in Held \union {"load", "accept"}
  <2>1. req[v] \in Request
    BY <1>2, Active DEF RecordInv, Held, Stages
  <2>2. PICK m \in Messages, k \in Keys : m = req[v].message /\ k = req[v].key
    BY <2>1 DEF Request
  <2>3. ThreadOK(v) /\ req'[v].message = m /\ req'[v].key = k
    BY <2>2 DEF HangInv
  <2>4. ASSUME req[v].at \in Held
        PROVE  record'[k].message = m /\ record'[k].inbound = record[k].inbound
    <3>1. record[k] # NoRecord /\ record[k].message = m
      BY <2>2, <2>3, <2>4 DEF RecordInv, Holding, ThreadOK
    <3>2. QED
      BY <3>1 DEF Progress, SameTurn
  <2>5. (Repairable(m) => Repairable(m)') /\ (Failed(m) => Failed(m)')
    BY FailedStays DEF Progress, Kept
  <2>6. /\ req[v].at = "recover" => req[v].rule # NoRule
        /\ req[v].at \in {"load", "accept"} /\ req[v].retry => Repairable(m)
        /\ req[v].at = "settling" /\ req[v].rule = NoRule => record[k].inbound \/ Failed(m)
    BY <2>2, <2>3 DEF ThreadOK
  <2>7. "settling" \in Held
    BY DEF Held
  <2>8. QED
    BY <2>3, <2>4, <2>5, <2>6, <2>7 DEF ThreadOK
<1>3. QED
  BY <1>1, <1>2

\* A thread that carries m goes on unless the checkpoint is closed.
LEMMA OtherCarries ==
  ASSUME RecordInv, RecordsKept, Progress, NEW v \in Requests, req'[v] = req[v],
         NEW m \in Messages, Carries(v, m)
  PROVE  Carries(v, m)' \/ Resolved(m)'
<1>1. PICK k \in Keys : /\ k = req[v].key /\ record[k] # NoRecord /\ record[k].message = m
                        /\ record[k].inbound /\ record[k].result = "open"
  BY DEF Carries, KeysOf
<1>2. record'[k] # NoRecord /\ record'[k].message = m /\ record'[k].inbound
  BY <1>1 DEF RecordsKept, Progress, SameTurn
<1>3. CASE record'[k].result = "open"
  <2>1. req'[v].at \in Carrying /\ req'[v].message = m /\ req'[v].key = k
    BY <1>1 DEF Carries
  <2>2. QED
    BY <1>2, <1>3, <2>1 DEF Carries, KeysOf
<1>4. CASE record'[k].result # "open"
  BY <1>1, <1>4 DEF Progress, Closes
<1>5. QED
  BY <1>3, <1>4

LEMMA HangMoves ==
  ASSUME RecordInv, RecordsKept, HangInv, NEW w \in Requests, OnlyThread(w), Progress,
         \A k \in Keys : record'[k] # NoRecord => Like(k) \/ RecordOK(k)',
         OneCheckpoint', ThreadOK(w)',
         \A m \in Messages : message'[m].saved /\ ~message[m].saved => MessageOK(m)',
         \A m \in Messages : Carries(w, m) => Carries(w, m)' \/ Resolved(m)' \/ crashes' # 0
  PROVE  HangInv'
<1>1. ASSUME NEW k \in Keys PROVE RecordOK(k)'
  <2>1. CASE record'[k] = NoRecord
    BY <2>1 DEF RecordOK
  <2>2. CASE record'[k] # NoRecord
    BY <2>2, LikeIsOK
  <2>3. QED
    BY <2>1, <2>2
<1>2. ASSUME NEW v \in Requests PROVE ThreadOK(v)'
  <2>1. CASE v = w
    BY <2>1
  <2>2. CASE v # w
    BY <2>2, OtherThreadOK DEF OnlyThread
  <2>3. QED
    BY <2>1, <2>2
<1>3. ASSUME NEW m \in Messages, message[m].saved PROVE MessageOK(m)'
  <2>1. MessageOK(m)
    BY DEF HangInv
  <2>2. \E k \in Keys : /\ record'[k] # NoRecord /\ record'[k].message = m
                        /\ record'[k].inbound \/ record'[k].result = "saved"
    <3>1. PICK k \in Keys : /\ record[k] # NoRecord /\ record[k].message = m
                            /\ record[k].inbound \/ record[k].result = "saved"
      BY <1>3, <2>1 DEF MessageOK, KeysOf
    <3>2. record'[k] # NoRecord /\ record'[k].message = m /\ record'[k].inbound = record[k].inbound
      BY <3>1 DEF RecordsKept, Progress, SameTurn
    <3>3. record[k].result = "saved" => record'[k].result = "saved"
      BY <3>1, ResultStays
    <3>4. QED
      BY <3>1, <3>2, <3>3
  <2>3. \/ Resolved(m)' \/ HandedOver(m)' \/ crashes' # 0
        \/ \E v \in Requests : Carries(v, m)'
    <3>1. CASE Resolved(m)
      BY <3>1, ResolvedStays
    <3>2. CASE HandedOver(m)
      BY <3>2, HandedOverStays
    <3>3. CASE crashes # 0
      BY <3>3 DEF Progress
    <3>4. ASSUME NEW v \in Requests, Carries(v, m)
          PROVE  Carries(v, m)' \/ Resolved(m)' \/ crashes' # 0
      <4>1. CASE v = w
        BY <3>4, <4>1
      <4>2. CASE v # w
        BY <3>4, <4>2, OtherCarries DEF OnlyThread
      <4>3. QED
        BY <4>1, <4>2
    <3>5. QED
      BY <1>3, <2>1, <3>1, <3>2, <3>3, <3>4 DEF MessageOK
  <2>4. QED
    BY <2>2, <2>3 DEF MessageOK, KeysOf
<1>4. ASSUME NEW m \in Messages PROVE MessageOK(m)'
  <2>1. CASE message[m].saved
    BY <1>3, <2>1
  <2>2. CASE ~message[m].saved
    BY <2>2 DEF MessageOK
  <2>3. QED
    BY <2>1, <2>2
<1>5. QED
  BY <1>1, <1>2, <1>4 DEF HangInv

\* Steps that write nothing but the thread and the Claim.
Silent == UNCHANGED <<message, record, decisions>>

LEMMA SilentHang ==
  ASSUME RecordInv, HangInv, NEW w \in Requests, OnlyThread(w), Silent,
         crashes # 0 => crashes' # 0, ThreadOK(w)',
         \A m \in Messages : Carries(w, m) => Carries(w, m)' \/ crashes' # 0
  PROVE  HangInv'
<1>1. message' = message /\ record' = record /\ decisions' = decisions
  BY DEF Silent
<1>2. RecordsKept
  BY <1>1, SameRecords
<1>3. Progress
  BY <1>1 DEF Progress, Kept, Repairable, Failed, KeysOf, SameTurn, Closes
<1>4. \A k \in Keys : record'[k] # NoRecord => Like(k)
  BY <1>1 DEF Like, SameTurn
<1>5. OneCheckpoint'
  BY <1>1 DEF HangInv, OneCheckpoint
<1>6. \A m \in Messages : ~(message'[m].saved /\ ~message[m].saved)
  BY <1>1
<1>7. QED
  BY <1>2, <1>3, <1>4, <1>5, <1>6, HangMoves

\* The thread goes on carrying its message.
LEMMA OnwardHang ==
  ASSUME RecordInv, HangInv, NEW w \in Requests, OnlyThread(w), Silent, crashes' = crashes,
         req'[w].at \in {"model", "recover", "commit", "settle"},
         req'[w].message = req[w].message, req'[w].key = req[w].key,
         req'[w].at # "settle" => req[w].at \in Held,
         req'[w].at = "recover" => req'[w].rule # NoRule
  PROVE  HangInv'
<1>1. message' = message /\ record' = record /\ decisions' = decisions
  BY DEF Silent
<1>2. ThreadOK(w)'
  <2>1. req[w].at \in Held => record[req[w].key].message = req[w].message
    BY DEF HangInv, ThreadOK
  <2>2. "settle" \notin Held
    BY DEF Held
  <2>3. QED
    BY <1>1, <2>1, <2>2 DEF ThreadOK
<1>3. \A m \in Messages : Carries(w, m) => Carries(w, m)'
  BY <1>1 DEF Carries, KeysOf, Carrying
<1>4. QED
  BY <1>2, <1>3, SilentHang

LEMMA RefuseHang ==
  ASSUME RecordInv, HangInv, NEW w \in Requests, req[w] \in Request, Refuse(w), Silent,
         crashes' = crashes
  PROVE  HangInv'
<1>1. req'[w] = [req[w] EXCEPT !.at = "settle"] /\ req'[w].at = "settle" /\ OnlyThread(w)
  BY Refuses DEF RecordInv
<1>2. req'[w].message = req[w].message /\ req'[w].key = req[w].key
  BY <1>1 DEF Request
<1>3. QED
  BY <1>1, <1>2, OnwardHang

\* A thread that carries nothing may go anywhere that needs nothing.
LEMMA FreeHang ==
  ASSUME RecordInv, HangInv, NEW w \in Requests, OnlyThread(w), Silent, crashes' = crashes,
         req'[w].at \in {"idle", "find", "classify", "alias", "handover"},
         \A m \in Messages : ~Carries(w, m)
  PROVE  HangInv'
<1>1. ThreadOK(w)'
  BY DEF ThreadOK, Held
<1>2. QED
  BY <1>1, SilentHang

LEMMA EndHang ==
  ASSUME RecordInv, HangInv, NEW w \in Requests, End(w), Silent, crashes' = crashes,
         \A m \in Messages : ~Carries(w, m)
  PROVE  HangInv'
<1>1. req'[w].at = "idle" /\ OnlyThread(w)
  BY Ends DEF RecordInv
<1>2. QED
  BY <1>1, FreeHang

LEMMA NotCarrying ==
  ASSUME NEW w \in Requests, req[w].at \notin Carrying
  PROVE  \A m \in Messages : ~Carries(w, m)
BY DEF Carries

LEMMA SubmitHang ==
  ASSUME RecordInv, HangInv, NEW w \in Requests, OnlyThread(w), Submit(w)
  PROVE  HangInv'
<1>1. req'[w].at = "find"
  BY DEF Submit, RecordInv, TypeOK
<1>2. Silent /\ crashes' = crashes
  BY DEF Silent, Submit
<1>3. req[w].at \notin Carrying
  BY DEF Submit, At, Carrying
<1>4. QED
  BY <1>1, <1>2, <1>3, NotCarrying, FreeHang

LEMMA FindKeyHang ==
  ASSUME RecordInv, HangInv, NEW w \in Requests, OnlyThread(w), FindKey(w)
  PROVE  HangInv'
<1>1. TypeOK
  BY DEF RecordInv
<1>2. req[w] \in Request /\ req[w].at \notin Carrying
  BY <1>1, Active DEF FindKey, At, Stages, Carrying
<1>3. Silent /\ crashes' = crashes
  BY DEF Silent, FindKey
<1>4. CASE GoTo(w, "classify")
  <2>1. "classify" \in Stages
    BY DEF Stages
  <2>2. req'[w].at = "classify"
    BY <1>1, <1>2, <1>4, <2>1, Goes
  <2>3. QED
    BY <1>2, <1>3, <2>2, NotCarrying, FreeHang
<1>5. CASE Refuse(w)
  BY <1>2, <1>3, <1>5, RefuseHang
<1>6. CASE End(w)
  BY <1>2, <1>3, <1>6, NotCarrying, EndHang
<1>7. QED
  BY <1>4, <1>5, <1>6 DEF FindKey, Replay, Respond

LEMMA ClassifyHang ==
  ASSUME RecordInv, TurnInv, HangInv, NEW w \in Requests, OnlyThread(w), Classify(w)
  PROVE  HangInv'
<1>1. TypeOK
  BY DEF RecordInv
<1>2. req[w] \in Request /\ req[w].at \notin Carrying /\ req[w].message \in Messages
  BY <1>1, Active DEF Classify, At, Stages, Carrying, Request
<1>3. Silent /\ crashes' = crashes /\ message' = message /\ record' = record
  BY DEF Silent, Classify
<1>4. PICK m \in Messages : m = req[w].message
  BY <1>2
<1>5. CASE GoTo(w, "alias")
  <2>1. "alias" \in Stages
    BY DEF Stages
  <2>2. req'[w].at = "alias"
    BY <1>1, <1>2, <1>5, <2>1, Goes
  <2>3. QED
    BY <1>2, <1>3, <2>2, NotCarrying, FreeHang
<1>6. CASE GoTo(w, "load")
  <2>1. "load" \in Stages
    BY DEF Stages
  <2>2. req'[w] = [req[w] EXCEPT !.at = "load"] /\ req'[w].at = "load"
    BY <1>1, <1>2, <1>6, <2>1, Goes
  <2>3. ~req[w].retry
    BY DEF TurnInv, ThreadInv, Classify, At, Unread
  <2>4. ~req'[w].retry
    BY <1>2, <2>2, <2>3 DEF Request
  <2>5. ThreadOK(w)'
    BY <2>2, <2>4 DEF ThreadOK, Held
  <2>6. QED
    BY <1>2, <1>3, <2>5, NotCarrying, SilentHang
<1>7. CASE \E c \in Checkpoints(m) :
             /\ Retryable(m, c)
             /\ req' = [req EXCEPT ![w].at = "load", ![w].retry = TRUE,
                                   ![w].rule = message[m].recovery,
                                   ![w].before = record[c].before,
                                   ![w].confirm = record[c].confirm]
  <2>1. PICK c \in Checkpoints(m) :
             /\ Retryable(m, c)
             /\ req' = [req EXCEPT ![w].at = "load", ![w].retry = TRUE,
                                   ![w].rule = message[m].recovery,
                                   ![w].before = record[c].before,
                                   ![w].confirm = record[c].confirm]
    BY <1>7
  <2>2. req'[w].at = "load" /\ req'[w].message = m
    BY <1>1, <1>2, <1>4, <2>1 DEF TypeOK, Request
  <2>3. Repairable(m)
    BY <2>1 DEF Retryable, Checkpoints, Repairable, Failed
  <2>4. Repairable(m)'
    BY <1>3, <2>3 DEF Repairable, Failed, KeysOf
  <2>5. ThreadOK(w)'
    BY <2>2, <2>4 DEF ThreadOK, Held
  <2>6. QED
    BY <1>2, <1>3, <2>5, NotCarrying, SilentHang
<1>8. QED
  BY <1>4, <1>5, <1>6, <1>7 DEF Classify

LEMMA LoadHang ==
  ASSUME RecordInv, HangInv, NEW w \in Requests, OnlyThread(w), Load(w)
  PROVE  HangInv'
<1>1. TypeOK
  BY DEF RecordInv
<1>2. /\ req[w] \in Request /\ req[w].at \notin Carrying /\ req[w].message \in Messages
      /\ req[w].at = "load"
  BY <1>1, Active DEF Load, At, Stages, Carrying, Request
<1>3. Silent /\ crashes' = crashes /\ message' = message /\ record' = record
  BY DEF Silent, Load
<1>4. CASE Refuse(w)
  BY <1>2, <1>3, <1>4, RefuseHang
<1>5. CASE End(w)
  BY <1>2, <1>3, <1>5, NotCarrying, EndHang
<1>6. CASE GoTo(w, "handover")
  <2>1. "handover" \in Stages
    BY DEF Stages
  <2>2. req'[w].at = "handover"
    BY <1>1, <1>2, <1>6, <2>1, Goes
  <2>3. QED
    BY <1>2, <1>3, <2>2, NotCarrying, FreeHang
<1>7. CASE \E before, confirm :
             req' = [req EXCEPT ![w].at = "accept", ![w].before = before, ![w].confirm = confirm]
  <2>1. /\ req'[w].at = "accept" /\ req'[w].message = req[w].message
        /\ req'[w].retry = req[w].retry
    BY <1>1, <1>2, <1>7 DEF TypeOK, Request
  <2>2. PICK m \in Messages : m = req[w].message
    BY <1>2
  <2>3. req[w].retry => Repairable(m)
    BY <1>2, <2>2 DEF HangInv, ThreadOK
  <2>4. req'[w].retry => Repairable(m)'
    BY <1>3, <2>1, <2>3 DEF Repairable, Failed, KeysOf
  <2>5. ThreadOK(w)'
    BY <2>1, <2>2, <2>4 DEF ThreadOK, Held
  <2>6. QED
    BY <1>2, <1>3, <2>5, NotCarrying, SilentHang
<1>8. QED
  BY <1>4, <1>5, <1>6, <1>7 DEF Load

LEMMA SafetyHang ==
  ASSUME RecordInv, HangInv, NEW w \in Requests, OnlyThread(w), Safety(w)
  PROVE  HangInv'
<1>1. TypeOK
  BY DEF RecordInv
<1>2. req[w] \in Request /\ req[w].at \in Held
  BY <1>1, Active DEF Safety, At, Stages, Held
<1>3. Silent /\ crashes' = crashes
  BY DEF Silent, Safety
<1>4. CASE Refuse(w)
  BY <1>2, <1>3, <1>4, RefuseHang
<1>5. CASE \E e : req' = [req EXCEPT ![w].at = "model", ![w].expected = e]
  <2>1. req'[w].at = "model" /\ req'[w].message = req[w].message /\ req'[w].key = req[w].key
    BY <1>1, <1>2, <1>5 DEF TypeOK, Request
  <2>2. QED
    BY <1>2, <1>3, <2>1, OnwardHang
<1>6. CASE GoTo(w, "model")
  <2>1. "model" \in Stages
    BY DEF Stages
  <2>2. req'[w] = [req[w] EXCEPT !.at = "model"] /\ req'[w].at = "model"
    BY <1>1, <1>2, <1>6, <2>1, Goes
  <2>3. req'[w].message = req[w].message /\ req'[w].key = req[w].key
    BY <1>2, <2>2 DEF Request
  <2>4. QED
    BY <1>2, <1>3, <2>2, <2>3, OnwardHang
<1>7. QED
  BY <1>4, <1>5, <1>6 DEF Safety

LEMMA ProposeHang ==
  ASSUME RecordInv, HangInv, NEW w \in Requests, OnlyThread(w), Propose(w)
  PROVE  HangInv'
<1>1. TypeOK
  BY DEF RecordInv
<1>2. req[w] \in Request /\ req[w].at \in Held
  BY <1>1, Active DEF Propose, At, Stages, Held
<1>3. Silent /\ crashes' = crashes
  BY DEF Silent, Propose
<1>4. CASE Refuse(w)
  BY <1>2, <1>3, <1>4, RefuseHang
<1>5. CASE \E r \in Rules :
             req' = [req EXCEPT ![w].at = "recover", ![w].rule = r, ![w].revision = Revision]
  <2>1. PICK r \in Rules :
             req' = [req EXCEPT ![w].at = "recover", ![w].rule = r, ![w].revision = Revision]
    BY <1>5
  <2>2. /\ req'[w].at = "recover" /\ req'[w].message = req[w].message
        /\ req'[w].key = req[w].key /\ req'[w].rule = r
    BY <1>1, <1>2, <2>1 DEF TypeOK, Request
  <2>3. r # NoRule
    OBVIOUS
  <2>4. QED
    BY <1>2, <1>3, <2>2, <2>3, OnwardHang
<1>6. CASE GoTo(w, "commit")
  <2>1. "commit" \in Stages
    BY DEF Stages
  <2>2. req'[w] = [req[w] EXCEPT !.at = "commit"] /\ req'[w].at = "commit"
    BY <1>1, <1>2, <1>6, <2>1, Goes
  <2>3. req'[w].message = req[w].message /\ req'[w].key = req[w].key
    BY <1>2, <2>2 DEF Request
  <2>4. QED
    BY <1>2, <1>3, <2>2, <2>3, OnwardHang
<1>7. QED
  BY <1>4, <1>5, <1>6 DEF Propose

\* The copy of the message that is about to be written back.
LEMMA SettleHang ==
  ASSUME RecordInv, HangInv, NEW w \in Requests, OnlyThread(w), Settle(w)
  PROVE  HangInv'
<1>1. TypeOK
  BY DEF RecordInv
<1>2. req[w] \in Request /\ req[w].at = "settle"
  BY <1>1, Active DEF Settle, At, Stages
<1>3. Silent /\ crashes' = crashes /\ message' = message /\ record' = record
  BY DEF Silent, Settle
<1>4. PICK m \in Messages, k \in Keys : m = req[w].message /\ k = req[w].key
  BY <1>2 DEF Request
<1>5. CASE ~ToSettle(w) /\ End(w)
  <2>1. \A n \in Messages : ~Carries(w, n)
    BY <1>5 DEF ToSettle, Carries, KeysOf
  <2>2. QED
    BY <1>3, <1>5, <2>1, EndHang
<1>6. CASE ToSettle(w) /\ req' = [req EXCEPT ![w].at = "settling",
                                             ![w].rule = message[req[w].message].recovery]
  <2>1. req'[w].at = "settling" /\ req'[w].message = m /\ req'[w].key = k
        /\ req'[w].rule = message[m].recovery
    BY <1>1, <1>2, <1>4, <1>6 DEF TypeOK, Request
  <2>2. record[k] # NoRecord /\ record[k].message = m /\ record[k].result = "open"
    BY <1>4, <1>6 DEF ToSettle
  <2>3. message[m].recovery = NoRule => record[k].inbound \/ Failed(m)
    BY <2>2 DEF HangInv, RecordOK, Repairable
  <2>4. Failed(m) => Failed(m)'
    BY <1>3 DEF Failed, KeysOf
  <2>5. ThreadOK(w)'
    BY <1>3, <2>1, <2>2, <2>3, <2>4 DEF ThreadOK
  <2>6. \A n \in Messages : Carries(w, n) => Carries(w, n)'
    BY <1>3, <1>4, <2>1 DEF Carries, KeysOf, Carrying
  <2>7. QED
    BY <1>3, <2>5, <2>6, SilentHang
<1>7. QED
  BY <1>5, <1>6 DEF Settle

LEMMA CrashHang ==
  ASSUME RecordInv, HangInv, NEW w \in Requests, OnlyThread(w), Crash(w)
  PROVE  HangInv'
<1>1. TypeOK
  BY DEF RecordInv
<1>2. Silent /\ crashes' # 0
  BY <1>1 DEF Silent, Crash, TypeOK
<1>3. ThreadOK(w)'
  BY <1>1, Ends DEF Crash, ThreadOK, Held
<1>4. QED
  BY <1>2, <1>3, SilentHang

\* One record is written: an outcome, an alias or a new one.
LEMMA WriteHang ==
  ASSUME RecordInv, RecordsKept, HangInv, NEW w \in Requests, OnlyThread(w),
         NEW key \in Keys, NEW r \in IdempotencyRecord,
         record' = [record EXCEPT ![key] = r],
         record[key] # NoRecord => SameTurn(r, record[key]),
         \/ ~r.inbound
         \/ \E j \in Keys : record[j] # NoRecord /\ SameTurn(r, record[j])
         \/ \A j \in Keys : record[j] # NoRecord => record[j].message # r.message,
         decisions \subseteq decisions', crashes' = crashes, \A m \in Messages : Kept(m),
         record[key] # NoRecord /\ record[key].result = "open" /\ r.result # "open" =>
           \A m \in Messages : record[key].message = m => Resolved(m)',
         RecordOK(key)', ThreadOK(w)',
         \A m \in Messages : message'[m].saved /\ ~message[m].saved => MessageOK(m)',
         \A m \in Messages : Carries(w, m) => Carries(w, m)' \/ Resolved(m)'
  PROVE  HangInv'
<1>1. record'[key] = r /\ \A k \in Keys : k # key => record'[k] = record[k]
  BY DEF RecordInv, TypeOK
<1>2. Progress
  BY <1>1 DEF Progress, SameTurn, Closes
<1>3. ASSUME NEW k \in Keys, record'[k] # NoRecord
      PROVE  Like(k) \/ RecordOK(k)'
  <2>1. CASE k = key
    BY <2>1
  <2>2. CASE k # key
    BY <1>1, <1>3, <2>2 DEF Like, SameTurn
  <2>3. QED
    BY <2>1, <2>2
<1>4. OneCheckpoint'
  <2>1. SUFFICES ASSUME NEW j \in Keys, NEW k \in Keys,
                        record'[j] # NoRecord, record'[k] # NoRecord,
                        record'[j].message = record'[k].message,
                        record'[j].inbound, record'[k].inbound
                 PROVE  record'[j].before = record'[k].before
    BY DEF OneCheckpoint
  <2>2. CASE \E i \in Keys : record[i] # NoRecord /\ SameTurn(r, record[i])
    <3>1. ASSUME NEW i \in Keys, record'[i] # NoRecord
          PROVE  \E o \in Keys : record[o] # NoRecord /\ SameTurn(record'[i], record[o])
      BY <1>1, <2>2, <3>1 DEF SameTurn
    <3>2. QED
      BY <2>1, <3>1 DEF SameTurn, HangInv, OneCheckpoint
  <2>3. CASE ~r.inbound
    BY <1>1, <2>1, <2>3 DEF HangInv, OneCheckpoint
  <2>4. CASE \A i \in Keys : record[i] # NoRecord => record[i].message # r.message
    BY <1>1, <2>1, <2>4 DEF HangInv, OneCheckpoint
  <2>5. QED
    BY <2>2, <2>3, <2>4
<1>5. QED
  BY <1>2, <1>3, <1>4, HangMoves

\* A record is written and the messages are not.
LEMMA MessagesKept ==
  ASSUME RecordInv, RecordsKept, message' = message,
         \A k \in Keys : record[k] # NoRecord => SameTurn(record'[k], record[k])
  PROVE  \A m \in Messages : Kept(m)
BY FailedStays DEF Kept, Repairable

LEMMA SameTurns ==
  ASSUME TypeOK, NEW key \in Keys, NEW r, record' = [record EXCEPT ![key] = r],
         record[key] # NoRecord => SameTurn(r, record[key])
  PROVE  \A k \in Keys : record[k] # NoRecord => SameTurn(record'[k], record[k])
BY DEF TypeOK, SameTurn

LEMMA AliasHang ==
  ASSUME RecordInv, RecordsKept, HangInv, NEW w \in Requests, OnlyThread(w), Alias(w)
  PROVE  HangInv'
<1>1. TypeOK
  BY DEF RecordInv
<1>2. req[w] \in Request /\ req[w].at \notin Carrying
  BY <1>1, Active DEF Alias, At, Stages, Carrying
<1>3. PICK key \in Keys : key = req[w].key
  BY <1>2 DEF Request
<1>4. UNCHANGED <<message, decisions, crashes>>
  BY DEF Alias
<1>5. \A m \in Messages : ~Carries(w, m)
  BY <1>2, NotCarrying
<1>6. CASE Refuse(w) /\ record' = record
  BY <1>2, <1>4, <1>6, RefuseHang DEF Silent
<1>7. CASE \E o \in Best(req[w].message) :
             /\ MayAlias(key, o)
             /\ record' = [record EXCEPT ![key] = record[o]]
             /\ Replay(w, record[o])
  <2>1. PICK o \in Keys : /\ record[o] # NoRecord
                          /\ record[key] \in {NoRecord, record[o]}
                          /\ record' = [record EXCEPT ![key] = record[o]]
                          /\ Replay(w, record[o])
    BY <1>7 DEF Best, KeysOf, MayAlias
  <2>2. PICK r \in IdempotencyRecord : r = record[o]
    BY <1>1, <2>1 DEF TypeOK
  <2>3. SameTurn(r, record[o]) /\ (record[key] # NoRecord => record[key] = r)
    BY <2>1, <2>2 DEF SameTurn
  <2>4. record' = [record EXCEPT ![key] = r]
    BY <2>1, <2>2
  <2>5. \A m \in Messages : Kept(m)
    <3>1. record[key] # NoRecord => SameTurn(r, record[key])
      BY <2>3 DEF SameTurn
    <3>2. \A k \in Keys : record[k] # NoRecord => SameTurn(record'[k], record[k])
      BY <1>1, <2>4, <3>1, SameTurns
    <3>3. QED
      BY <1>4, <3>2, MessagesKept
  <2>6. record'[key] = record[o] /\ record'[key] # NoRecord
    BY <1>1, <2>1 DEF TypeOK
  <2>7. RecordOK(key)'
    <3>1. PICK m \in Messages : m = record[o].message
      BY <2>2 DEF IdempotencyRecord
    <3>2. /\ message[m].saved
          /\ record[o].result = "answer" => Decided(m)
          /\ ~record[o].inbound /\ record[o].result # "saved" => Repairable(m)
      BY <2>1, <3>1 DEF HangInv, RecordOK
    <3>3. message' = message /\ (Decided(m) => Decided(m)') /\ (Repairable(m) => Repairable(m)')
      BY <1>4, <2>5 DEF Decided, Kept
    <3>4. QED
      BY <2>6, <3>1, <3>2, <3>3 DEF RecordOK
  <2>8. ThreadOK(w)'
    <3>1. req'[w].at \in {"idle", "settle"}
      BY <1>1, <1>2, <2>1, ReplayEnds
    <3>2. QED
      BY <3>1 DEF ThreadOK, Held
  <2>9. QED
    BY <1>4, <1>5, <2>1, <2>3, <2>4, <2>5, <2>7, <2>8, WriteHang DEF SameTurn
<1>8. QED
  BY <1>3, <1>4, <1>6, <1>7 DEF Alias

LEMMA FreezeHang ==
  ASSUME RecordInv, RecordsKept, HangInv, NEW w \in Requests, OnlyThread(w), Freeze(w)
  PROVE  HangInv'
<1>1. TypeOK
  BY DEF RecordInv
<1>2. req[w].at = "freeze" /\ req[w].at \in Held /\ req[w].at \notin Carrying
  BY DEF Freeze, At, Held, Carrying
<1>3. PICK key \in Keys : key = req[w].key
  BY <1>2, HeldRecord
<1>4. record[key] \in IdempotencyRecord /\ record[key].result = "answer"
  BY <1>2, <1>3, HeldRecord DEF RecordInv, Holding
<1>5. record[key] # NoRecord
  BY <1>4, NoRecordAssumption
<1>6. PICK r \in IdempotencyRecord : r = [record[key] EXCEPT !.frozen = TRUE]
  BY <1>4 DEF IdempotencyRecord
<1>7. SameTurn(r, record[key]) /\ r.result = "answer"
  BY <1>4, <1>6 DEF SameTurn, IdempotencyRecord
<1>8. record' = [record EXCEPT ![key] = r] /\ record'[key] = r
  BY <1>1, <1>3, <1>6 DEF Freeze, TypeOK
<1>9. UNCHANGED <<message, decisions, crashes>>
  BY DEF Freeze
<1>10. \A m \in Messages : Kept(m)
  <2>1. \A k \in Keys : record[k] # NoRecord => SameTurn(record'[k], record[k])
    BY <1>1, <1>7, <1>8, SameTurns
  <2>2. QED
    BY <1>9, <2>1, MessagesKept
<1>11. RecordOK(key)'
  <2>1. PICK m \in Messages : m = record[key].message
    BY <1>4 DEF IdempotencyRecord
  <2>2. message[m].saved /\ Decided(m) /\ (~record[key].inbound => Repairable(m))
    BY <1>4, <1>5, <2>1 DEF HangInv, RecordOK
  <2>3. message'[m].saved /\ Decided(m)' /\ (~record[key].inbound => Repairable(m)')
    BY <1>9, <1>10, <2>2 DEF Decided, Kept
  <2>4. QED
    BY <1>7, <1>8, <2>1, <2>3 DEF RecordOK, SameTurn
<1>12. ThreadOK(w)'
  <2>1. req'[w].at = "idle"
    BY <1>1, Ends DEF Freeze, Respond
  <2>2. QED
    BY <2>1 DEF ThreadOK, Held
<1>13. \A m \in Messages : ~Carries(w, m)
  BY <1>2, NotCarrying
<1>14. QED
  BY <1>4, <1>5, <1>7, <1>8, <1>9, <1>10, <1>11, <1>12, <1>13, WriteHang

\* A new message is stored with a record of its own: a response, or the
\* checkpoint its thread carries.
LEMMA SavedHang ==
  ASSUME RecordInv, RecordsKept, HangInv, NEW w \in Requests, OnlyThread(w), req[w] \in Request,
         NEW r \in IdempotencyRecord, SaveMessage(w, r), KeyFree(w), Fresh(w),
         r.message = req[w].message, UNCHANGED <<decisions, crashes>>,
         req[w].at \notin Carrying, req'[w].key = req[w].key \/ req'[w].at = "idle",
         \/ r.result = "saved" /\ ~r.inbound /\ req'[w].at = "idle"
         \/ r.result = "open" /\ r.inbound /\ req'[w].at = "safety"
              /\ req'[w].message = req[w].message
  PROVE  HangInv'
<1>1. TypeOK
  BY DEF RecordInv
<1>2. PICK key \in Keys, m \in Messages : key = req[w].key /\ m = req[w].message
  BY DEF Request
<1>3. record[key] = NoRecord /\ ~message[m].saved /\ r.message = m
  BY <1>2 DEF KeyFree, Fresh
<1>4. /\ record' = [record EXCEPT ![key] = r]
      /\ message' = [message EXCEPT ![m].saved = TRUE]
  BY <1>2 DEF SaveMessage
<1>5. record'[key] = r /\ r # NoRecord
  BY <1>1, <1>4, NoRecordAssumption DEF TypeOK
<1>6. /\ message'[m].saved
      /\ \A n \in Messages : message'[n].recovery = message[n].recovery
      /\ \A n \in Messages : n # m => message'[n] = message[n]
  BY <1>1, <1>4 DEF TypeOK, MessageRecord
<1>7. \A n \in Messages : Kept(n)
  <2>1. \A k \in Keys : record[k] # NoRecord => SameTurn(record'[k], record[k])
    BY <1>1, <1>3, <1>4, SameTurns
  <2>2. \A n \in Messages : Failed(n) => Failed(n)'
    BY <2>1, FailedStays
  <2>3. QED
    BY <1>6, <2>2 DEF Kept, Repairable
<1>8. \A j \in Keys : record[j] # NoRecord => record[j].message # m
  BY <1>3 DEF HangInv, RecordOK
<1>9. RecordOK(key)'
  BY <1>3, <1>5, <1>6 DEF RecordOK
<1>10. ThreadOK(w)'
  BY <1>2, <1>3, <1>5 DEF ThreadOK, Held
<1>11. MessageOK(m)'
  <2>1. key \in Keys /\ record'[key] # NoRecord /\ record'[key].message = m
    BY <1>3, <1>5
  <2>2. CASE r.result = "saved"
    BY <1>5, <2>1, <2>2 DEF MessageOK, KeysOf, HandedOver
  <2>3. CASE r.result = "open"
    <3>1. req'[w].at \in Carrying /\ req'[w].message = m /\ req'[w].key = key /\ r.inbound
      BY <1>2, <2>3 DEF Carrying
    <3>2. Carries(w, m)'
      BY <1>5, <2>1, <2>3, <3>1 DEF Carries, KeysOf
    <3>3. QED
      BY <1>5, <2>1, <3>1, <3>2 DEF MessageOK, KeysOf
  <2>4. QED
    BY <2>2, <2>3
<1>12. \A n \in Messages : message'[n].saved /\ ~message[n].saved => MessageOK(n)'
  BY <1>6, <1>11
<1>13. \A n \in Messages : ~Carries(w, n)
  BY NotCarrying
<1>14. QED
  BY <1>3, <1>4, <1>7, <1>8, <1>9, <1>10, <1>12, <1>13, WriteHang

LEMMA HandoverHang ==
  ASSUME RecordInv, RecordsKept, HangInv, NEW w \in Requests, OnlyThread(w), Handover(w)
  PROVE  HangInv'
<1>1. TypeOK
  BY DEF RecordInv
<1>2. /\ req[w] \in Request /\ req[w].at \notin Carrying /\ req[w].message \in Messages
      /\ Revision + 1 \in Nat
  BY <1>1, Active, RevisionGrows DEF Handover, At, Stages, Carrying, Request
<1>3. UNCHANGED <<decisions, crashes>>
  BY DEF Handover
<1>4. CASE Refuse(w) /\ UNCHANGED <<message, record>>
  BY <1>2, <1>3, <1>4, RefuseHang DEF Silent
<1>5. CASE End(w) /\ UNCHANGED <<message, record>>
  BY <1>2, <1>3, <1>5, NotCarrying, EndHang DEF Silent
<1>6. CASE /\ KeyFree(w) /\ Fresh(w) /\ End(w)
           /\ SaveMessage(w, [Checkpoint(req[w].message, 0, FALSE, FALSE)
                                EXCEPT !.result = "saved", !.revision = Revision + 1])
  <2> DEFINE r == [Checkpoint(req[w].message, 0, FALSE, FALSE)
                     EXCEPT !.result = "saved", !.revision = Revision + 1]
  <2>1. /\ r \in IdempotencyRecord /\ ~r.inbound /\ r.result = "saved"
        /\ r.message = req[w].message
    BY <1>2 DEF Checkpoint, IdempotencyRecord, Results
  <2>2. SaveMessage(w, r)
    BY <1>6
  <2> HIDE DEF r
  <2>3. req'[w].at = "idle"
    BY <1>1, <1>6, Ends
  <2>4. QED
    BY <1>2, <1>3, <1>6, <2>1, <2>2, <2>3, SavedHang
<1>7. QED
  BY <1>4, <1>5, <1>6 DEF Handover, Respond

LEMMA AcceptNewHang ==
  ASSUME RecordInv, RecordsKept, HangInv, NEW w \in Requests, OnlyThread(w), AcceptNew(w)
  PROVE  HangInv'
<1>1. TypeOK
  BY DEF RecordInv
<1>2. /\ req[w] \in Request /\ req[w].at \notin Carrying /\ req[w].message \in Messages
      /\ req[w].before \in Nat /\ req[w].confirm \in BOOLEAN
  BY <1>1, Active DEF AcceptNew, At, Stages, Carrying, Request
<1>3. UNCHANGED <<decisions, crashes>>
  BY DEF AcceptNew
<1>4. CASE Refuse(w) /\ UNCHANGED <<message, record>>
  BY <1>2, <1>3, <1>4, RefuseHang DEF Silent
<1>5. CASE /\ KeyFree(w) /\ Fresh(w)
           /\ SaveMessage(w, Checkpoint(req[w].message, req[w].before, req[w].confirm, TRUE))
           /\ req' = [req EXCEPT ![w].at = "safety", ![w].expected = Revision + 1]
  <2> DEFINE r == Checkpoint(req[w].message, req[w].before, req[w].confirm, TRUE)
  <2>1. r \in IdempotencyRecord
    BY <1>2, CheckpointTyped
  <2>2. r.inbound /\ r.result = "open" /\ r.message = req[w].message
    BY DEF Checkpoint
  <2>3. SaveMessage(w, r)
    BY <1>5
  <2> HIDE DEF r
  <2>4. req'[w].at = "safety" /\ req'[w].message = req[w].message /\ req'[w].key = req[w].key
    BY <1>1, <1>2, <1>5 DEF TypeOK, Request
  <2>5. QED
    BY <1>2, <1>3, <1>5, <2>1, <2>2, <2>3, <2>4, SavedHang
<1>6. QED
  BY <1>4, <1>5 DEF AcceptNew

LEMMA AcceptRetryHang ==
  ASSUME RecordInv, TurnInv, RecordsKept, HangInv, NEW w \in Requests, OnlyThread(w),
         AcceptRetry(w)
  PROVE  HangInv'
<1>1. TypeOK
  BY DEF RecordInv
<1>2. /\ req[w] \in Request /\ req[w].at = "accept" /\ req[w].retry /\ req[w].at \notin Carrying
      /\ req[w].before \in Nat /\ req[w].confirm \in BOOLEAN
  BY <1>1, Active DEF AcceptRetry, At, Stages, Carrying, Request
<1>3. PICK key \in Keys, m \in Messages : key = req[w].key /\ m = req[w].message
  BY <1>2 DEF Request
<1>4. UNCHANGED <<message, decisions, crashes>>
  BY DEF AcceptRetry
<1>5. message[m].saved /\ Repairable(m)
  BY <1>2, <1>3 DEF TurnInv, ThreadInv, Arriving, HangInv, ThreadOK
<1>6. \A n \in Messages : ~Carries(w, n)
  BY <1>2, NotCarrying
<1>7. ASSUME GoTo(w, "safety"), record'[key].message = m
      PROVE  ThreadOK(w)'
  <2>1. "safety" \in Stages
    BY DEF Stages
  <2>2. req'[w] = [req[w] EXCEPT !.at = "safety"] /\ req'[w].at = "safety"
    BY <1>1, <1>2, <1>7, <2>1, Goes
  <2>3. req'[w].message = m /\ req'[w].key = key
    BY <1>2, <1>3, <2>2 DEF Request
  <2>4. QED
    BY <1>7, <2>2, <2>3 DEF ThreadOK
<1>8. CASE End(w) /\ record' = record
  BY <1>4, <1>6, <1>8, EndHang DEF Silent
<1>9. CASE GoTo(w, "safety") /\ record' = record /\ record[key].message = m
  <2>1. ThreadOK(w)'
    BY <1>7, <1>9
  <2>2. QED
    BY <1>4, <1>6, <1>9, <2>1, SilentHang DEF Silent
<1>10. CASE /\ record[key] = NoRecord /\ GoTo(w, "safety")
            /\ record' = [record EXCEPT ![key] =
                            Checkpoint(m, req[w].before, req[w].confirm, FALSE)]
  <2>1. PICK r \in IdempotencyRecord : r = Checkpoint(m, req[w].before, req[w].confirm, FALSE)
    BY <1>2, CheckpointTyped
  <2>2. ~r.inbound /\ r.result = "open" /\ r.message = m
    BY <2>1 DEF Checkpoint
  <2>3. record' = [record EXCEPT ![key] = r] /\ record'[key] = r
    BY <1>1, <1>10, <2>1 DEF TypeOK
  <2>4. \A n \in Messages : Kept(n)
    <3>1. \A k \in Keys : record[k] # NoRecord => SameTurn(record'[k], record[k])
      BY <1>1, <1>10, <2>3, SameTurns
    <3>2. QED
      BY <1>4, <3>1, MessagesKept
  <2>5. RecordOK(key)'
    <3>1. message'[m].saved /\ Repairable(m)'
      BY <1>5, <2>4 DEF Kept
    <3>2. QED
      BY <2>2, <2>3, <3>1 DEF RecordOK
  <2>6. ThreadOK(w)'
    BY <1>7, <1>10, <2>2, <2>3
  <2>7. QED
    BY <1>4, <1>6, <1>10, <2>2, <2>3, <2>4, <2>5, <2>6, WriteHang
<1>11. QED
  BY <1>3, <1>8, <1>9, <1>10 DEF AcceptRetry

\* The recovery rule of a message is written, or taken away where a checkpoint
\* has failed.
LEMMA RuleWritten ==
  ASSUME RecordInv, RecordsKept,
         \A k \in Keys : record[k] # NoRecord => SameTurn(record'[k], record[k]),
         NEW m \in Messages, NEW rule,
         message' = [message EXCEPT ![m].recovery = rule], rule # NoRule \/ Failed(m)'
  PROVE  /\ \A n \in Messages : Kept(n) /\ message'[n].saved = message[n].saved
         /\ Repairable(m)'
<1>1. /\ message'[m].recovery = rule
      /\ \A n \in Messages : message'[n].saved = message[n].saved
      /\ \A n \in Messages : n # m => message'[n] = message[n]
  BY DEF RecordInv, TypeOK, MessageRecord
<1>2. Repairable(m)'
  BY <1>1 DEF Repairable
<1>3. \A n \in Messages : Failed(n) => Failed(n)'
  BY FailedStays
<1>4. ASSUME NEW n \in Messages PROVE Kept(n)
  BY <1>1, <1>2, <1>3 DEF Kept, Repairable
<1>5. QED
  BY <1>1, <1>2, <1>4

\* An open record is closed with the outcome of its message.
LEMMA ClosingHang ==
  ASSUME RecordInv, RecordsKept, HangInv, NEW w \in Requests, OnlyThread(w),
         req[w].at \in Held, NEW key \in Keys, key = req[w].key,
         NEW m \in Messages, m = req[w].message,
         NEW r \in IdempotencyRecord, SameTurn(r, record[key]),
         record' = [record EXCEPT ![key] = r],
         r.result = "answer" => Decided(m)', record[key].result = "open",
         decisions \subseteq decisions', crashes' = crashes,
         \A n \in Messages : Kept(n) /\ message'[n].saved = message[n].saved,
         Resolved(m)', req'[w].at \in {"idle", "freeze"},
         req'[w].at = "freeze" => req'[w].key = key /\ req'[w].message = m
  PROVE  HangInv'
<1>1. /\ record[key] # NoRecord /\ record[key].message = m /\ record'[key] = r
      /\ r # NoRecord /\ r.message = m /\ r.inbound = record[key].inbound
  BY NoRecordAssumption DEF RecordInv, TypeOK, Holding, HangInv, ThreadOK, SameTurn
<1>2. RecordOK(key)'
  <2>1. message[m].saved /\ (~record[key].inbound => Repairable(m))
    BY <1>1 DEF HangInv, RecordOK
  <2>2. message'[m].saved /\ (~record[key].inbound => Repairable(m)')
    BY <2>1 DEF Kept
  <2>3. QED
    BY <1>1, <2>2 DEF RecordOK
<1>3. ThreadOK(w)'
  <2>1. CASE req'[w].at = "idle"
    BY <2>1 DEF ThreadOK, Held
  <2>2. CASE req'[w].at = "freeze"
    BY <1>1, <2>2 DEF ThreadOK
  <2>3. QED
    BY <2>1, <2>2
<1>4. \A n \in Messages : Carries(w, n) => Resolved(n)'
  BY DEF Carries
<1>5. \A n \in Messages : record[key].message = n => Resolved(n)'
  BY <1>1
<1>6. \E j \in Keys : record[j] # NoRecord /\ SameTurn(r, record[j])
  BY <1>1
<1>7. QED
  BY <1>1, <1>2, <1>3, <1>4, <1>5, <1>6, WriteHang

LEMMA RecoverHang ==
  ASSUME RecordInv, RecordsKept, HangInv, NEW w \in Requests, OnlyThread(w), Recover(w)
  PROVE  HangInv'
<1>1. TypeOK
  BY DEF RecordInv
<1>2. req[w].at = "recover" /\ req[w].at \in Held
  BY DEF Recover, At, Held
<1>3. PICK key \in Keys, m \in Messages : key = req[w].key /\ m = req[w].message
  BY <1>2, HeldRecord DEF Request
<1>4. record[key] \in IdempotencyRecord /\ req[w].rule # NoRule /\ req[w].revision \in Nat
  BY <1>2, <1>3, HeldRecord DEF HangInv, ThreadOK, Request
<1>5. UNCHANGED <<decisions, crashes>>
  BY DEF Recover
<1>6. CASE ~Unsettled(key) /\ End(w) /\ UNCHANGED <<message, record>>
  <2>1. \A n \in Messages : ~Carries(w, n)
    BY <1>3, <1>6 DEF Carries, Unsettled
  <2>2. QED
    BY <1>5, <1>6, <2>1, EndHang DEF Silent
<1>7. CASE /\ Unsettled(key) /\ End(w)
           /\ message' = [message EXCEPT ![m].recovery = req[w].rule]
           /\ record' = [record EXCEPT ![key].result = "recovery",
                                       ![key].revision = req[w].revision]
  <2>1. PICK r \in IdempotencyRecord :
          r = [record[key] EXCEPT !.result = "recovery", !.revision = req[w].revision]
    BY <1>4 DEF IdempotencyRecord, Results
  <2>2. SameTurn(r, record[key]) /\ r.result = "recovery"
    BY <1>4, <2>1 DEF SameTurn, IdempotencyRecord
  <2>3. record' = [record EXCEPT ![key] = r]
    BY <1>1, <1>7, <2>1 DEF TypeOK
  <2>4. \A k \in Keys : record[k] # NoRecord => SameTurn(record'[k], record[k])
    BY <1>1, <2>2, <2>3, SameTurns
  <2>5. PICK rule : rule = req[w].rule
    OBVIOUS
  <2>6. /\ \A n \in Messages : Kept(n) /\ message'[n].saved = message[n].saved
        /\ Repairable(m)'
    BY <1>4, <1>7, <2>4, <2>5, RuleWritten
  <2>7. req'[w].at = "idle"
    BY <1>1, <1>7, Ends
  <2>8. Resolved(m)'
    BY <2>6 DEF Resolved
  <2>9. QED
    BY <1>2, <1>3, <1>5, <1>7, <2>2, <2>3, <2>6, <2>7, <2>8, ClosingHang DEF Unsettled
<1>8. QED
  BY <1>3, <1>6, <1>7 DEF Recover, Respond

LEMMA SettleErrorHang ==
  ASSUME RecordInv, RecordsKept, HangInv, NEW w \in Requests, OnlyThread(w), SettleError(w)
  PROVE  HangInv'
<1>1. TypeOK
  BY DEF RecordInv
<1>2. req[w].at = "settling" /\ req[w].at \in Held
  BY DEF SettleError, At, Held
<1>3. PICK key \in Keys, m \in Messages : key = req[w].key /\ m = req[w].message
  BY <1>2, HeldRecord DEF Request
<1>4. record[key] \in IdempotencyRecord /\ record[key] # NoRecord /\ record[key].message = m
  BY <1>2, <1>3, HeldRecord DEF HangInv, ThreadOK, RecordInv, Holding
<1>5. UNCHANGED <<decisions, crashes>> /\ End(w)
  BY DEF SettleError
<1>6. CASE ~Unsettled(key) /\ UNCHANGED <<message, record>>
  <2>1. \A n \in Messages : ~Carries(w, n)
    BY <1>3, <1>6 DEF Carries, Unsettled
  <2>2. QED
    BY <1>5, <1>6, <2>1, EndHang DEF Silent
<1>7. CASE /\ Unsettled(key)
           /\ record' = [record EXCEPT ![key].result = "error"]
           /\ message' = [message EXCEPT ![m].recovery = req[w].rule]
  <2>1. PICK r \in IdempotencyRecord : r = [record[key] EXCEPT !.result = "error"]
    BY <1>4 DEF IdempotencyRecord, Results
  <2>2. SameTurn(r, record[key]) /\ r.result = "error"
    BY <1>4, <2>1 DEF SameTurn, IdempotencyRecord
  <2>3. record' = [record EXCEPT ![key] = r] /\ record'[key] = r
    BY <1>1, <1>7, <2>1 DEF TypeOK
  <2>4. \A k \in Keys : record[k] # NoRecord => SameTurn(record'[k], record[k])
    BY <1>1, <2>2, <2>3, SameTurns
  <2>5. PICK rule : rule = req[w].rule
    OBVIOUS
  <2>6. rule # NoRule \/ Failed(m)'
    <3>1. rule # NoRule \/ record[key].inbound \/ Failed(m)
      BY <1>2, <1>3, <2>5 DEF HangInv, ThreadOK
    <3>2. CASE record[key].inbound
      <4>1. record'[key] # NoRecord /\ record'[key].message = m /\ record'[key].inbound
        BY <1>4, <2>2, <2>3, <3>2, NoRecordAssumption DEF SameTurn
      <4>2. record'[key].result = "error"
        BY <2>2, <2>3
      <4>3. QED
        BY <4>1, <4>2 DEF Failed, KeysOf
    <3>3. CASE Failed(m)
      BY <2>4, <3>3, FailedStays
    <3>4. QED
      BY <3>1, <3>2, <3>3
  <2>7. /\ \A n \in Messages : Kept(n) /\ message'[n].saved = message[n].saved
        /\ Repairable(m)'
    BY <1>7, <2>4, <2>5, <2>6, RuleWritten
  <2>8. req'[w].at = "idle"
    BY <1>1, <1>5, Ends
  <2>9. Resolved(m)'
    BY <2>7 DEF Resolved
  <2>10. QED
    BY <1>2, <1>3, <1>5, <1>7, <2>2, <2>3, <2>7, <2>8, <2>9, ClosingHang DEF Unsettled
<1>8. QED
  BY <1>3, <1>6, <1>7 DEF SettleError

LEMMA CommitHang ==
  ASSUME RecordInv, RecordsKept, HangInv, NEW w \in Requests, OnlyThread(w), Commit(w)
  PROVE  HangInv'
<1>1. TypeOK
  BY DEF RecordInv
<1>2. req[w] \in Request /\ req[w].at = "commit" /\ req[w].at \in Held
  BY HeldRecord DEF Commit, At, Held
<1>3. PICK key \in Keys, m \in Messages : key = req[w].key /\ m = req[w].message
  BY <1>2 DEF Request
<1>4. record[key] \in IdempotencyRecord /\ record[key] # NoRecord
  BY <1>2, <1>3, HeldRecord DEF RecordInv, Holding
<1>5. UNCHANGED <<message, crashes>>
  BY DEF Commit
<1>6. CASE Refuse(w) /\ UNCHANGED <<decisions, record>>
  BY <1>2, <1>5, <1>6, RefuseHang DEF Silent
<1>7. CASE /\ Unsettled(key) /\ GoTo(w, "freeze")
           /\ decisions' = decisions \union {[message |-> m, key |-> key, revision |-> Revision + 1]}
           /\ record' = [record EXCEPT ![key].result = "answer", ![key].revision = Revision + 1]
  <2>1. Revision + 1 \in Nat
    BY <1>1, RevisionGrows
  <2>2. PICK r \in IdempotencyRecord :
          r = [record[key] EXCEPT !.result = "answer", !.revision = Revision + 1]
    BY <1>4, <2>1 DEF IdempotencyRecord, Results
  <2>3. SameTurn(r, record[key])
    BY <1>4, <2>2 DEF SameTurn, IdempotencyRecord
  <2>4. record' = [record EXCEPT ![key] = r]
    BY <1>1, <1>7, <2>2 DEF TypeOK
  <2>5. \A k \in Keys : record[k] # NoRecord => SameTurn(record'[k], record[k])
    BY <1>1, <2>3, <2>4, SameTurns
  <2>6. \A n \in Messages : Kept(n) /\ message'[n].saved = message[n].saved
    BY <1>5, <2>5, MessagesKept
  <2>7. Decided(m)' /\ decisions \subseteq decisions'
    <3> DEFINE d == [message |-> m, key |-> key, revision |-> Revision + 1]
    <3>1. d \in decisions' /\ d.message = m
      BY <1>7
    <3>2. QED
      BY <1>7, <3>1 DEF Decided
  <2>8. "freeze" \in Stages
    BY DEF Stages
  <2>9. req'[w] = [req[w] EXCEPT !.at = "freeze"] /\ req'[w].at = "freeze"
    BY <1>1, <1>2, <1>7, <2>8, Goes
  <2>10. req'[w].key = key /\ req'[w].message = m
    BY <1>2, <1>3, <2>9 DEF Request
  <2>11. Resolved(m)'
    BY <2>7 DEF Resolved
  <2>12. QED
    BY <1>2, <1>3, <1>5, <1>7, <2>3, <2>4, <2>6, <2>7, <2>9, <2>10, <2>11, ClosingHang
       DEF Unsettled
<1>8. QED
  BY <1>3, <1>6, <1>7 DEF Commit, MayCommit

LEMMA HangInvStep ==
  ASSUME RecordInv, TurnInv, HangInv, [Next]_vars
  PROVE  HangInv'
<1>1. RecordsKept
  BY RecordInvStep
<1>2. ASSUME NEW w \in Requests, Submit(w) \/ Step(w) \/ Crash(w)
      PROVE  HangInv'
  <2>1. OnlyThread(w)
    BY <1>2, ThreadStep DEF Effect
  <2>2. CASE Submit(w) \/ FindKey(w) \/ Classify(w) \/ Load(w) \/ Crash(w)
    BY <2>1, <2>2, SubmitHang, FindKeyHang, ClassifyHang, LoadHang, CrashHang
  <2>3. CASE Alias(w) \/ Handover(w) \/ AcceptNew(w) \/ AcceptRetry(w)
    BY <1>1, <2>1, <2>3, AliasHang, HandoverHang, AcceptNewHang, AcceptRetryHang
  <2>4. CASE Safety(w) \/ Propose(w) \/ Settle(w)
    BY <2>1, <2>4, SafetyHang, ProposeHang, SettleHang
  <2>5. CASE Recover(w) \/ Commit(w) \/ Freeze(w) \/ SettleError(w)
    BY <1>1, <2>1, <2>5, RecoverHang, CommitHang, FreezeHang, SettleErrorHang
  <2>6. QED
    BY <1>2, <2>2, <2>3, <2>4, <2>5 DEF Step
<1>3. CASE UNCHANGED <<message, record, decisions, req, crashes>>
  BY <1>3 DEF HangInv, OneCheckpoint, RecordOK, ThreadOK, MessageOK, Resolved, Repairable,
     Failed, HandedOver, Carries, KeysOf, Decided
<1>4. QED
  BY <1>2, <1>3 DEF Next, vars, OtherMutation

\* When no thread is at work on a stored message and none died, it was
\* answered, handed to a person, or a request that names it again is taken for
\* a retry and not for a repetition.
THEOREM NobodyIsLeftHanging == Spec => []NeverLeftHanging
<1>1. Init => TurnInv
  BY DEF Init, TurnInv, AnsweredOnce, DecisionsStored, ThreadInv, Idle,
         Accepted, Arriving, Unread
<1>2. Init => HangInv
  BY DEF Init, HangInv, OneCheckpoint, RecordOK, ThreadOK, MessageOK, Idle, Held
<1>3. RecordInv /\ TurnInv /\ [Next]_vars => TurnInv'
  BY TurnInvStep
<1>4. RecordInv /\ TurnInv /\ HangInv /\ [Next]_vars => HangInv'
  BY HangInvStep
<1>5. RecordInv /\ HangInv => NeverLeftHanging
  <2>1. SUFFICES ASSUME RecordInv, HangInv, NEW m \in Messages, message[m].saved, crashes = 0,
                        \A w \in Requests : At(w, "idle") \/ req[w].message # m
                 PROVE  Concluded(m)
    BY DEF NeverLeftHanging
  <2>2. ASSUME NEW w \in Requests PROVE ~Carries(w, m)
    <3>1. req[w].at = "idle" \/ req[w].message # m
      BY <2>1 DEF At
    <3>2. "idle" \notin Carrying
      BY DEF Carrying
    <3>3. QED
      BY <3>1, <3>2 DEF Carries
  <2>3. MessageOK(m)
    BY <2>1 DEF HangInv
  <2>4. Decided(m) \/ HandedOver(m) \/ Repairable(m)
    BY <2>1, <2>2, <2>3 DEF MessageOK, Resolved
  <2>5. CASE Decided(m) \/ HandedOver(m)
    BY <2>5 DEF Concluded, HandedOver
  <2>6. CASE Repairable(m) /\ ~Decided(m) /\ ~HandedOver(m)
    <3>1. \A k \in KeysOf(m) : k \in Keys /\ record[k] # NoRecord /\ record[k].message = m
      BY DEF KeysOf
    <3>2. ASSUME NEW k \in KeysOf(m), record[k].inbound
          PROVE  k \in Checkpoints(m)
      <4>1. \A j \in KeysOf(m) : record[j].inbound => record[k].before = record[j].before
        BY <2>1, <3>1, <3>2 DEF HangInv, OneCheckpoint
      <4>2. record[k].before \in Nat
        BY <2>1, <3>1 DEF RecordInv, TypeOK, IdempotencyRecord
      <4>3. \A j \in KeysOf(m) : record[j].inbound => record[k].before <= record[j].before
        BY <4>1, <4>2
      <4>4. QED
        BY <3>2, <4>3 DEF Checkpoints
    <3>3. \A k \in Best(m) : record[k].result # "answer"
      BY <2>1, <2>6, <3>1 DEF Best, HangInv, RecordOK
    <3>4. PICK c \in KeysOf(m) :
            record[c].inbound /\ (message[m].recovery # NoRule \/ record[c].result = "error")
      BY <2>1, <2>3, <2>6 DEF MessageOK, HandedOver, Repairable, Failed
    <3>5. c \in Checkpoints(m)
      BY <3>2, <3>4
    <3>6. Retryable(m, c)
      BY <2>6, <3>3, <3>4 DEF Retryable
    <3>7. QED
      BY <3>5, <3>6 DEF Concluded
  <2>7. QED
    BY <2>4, <2>5, <2>6
<1>6. QED
  BY <1>1, <1>2, <1>3, <1>4, <1>5, RecordInvariant, PTL DEF Spec
=============================================================================
