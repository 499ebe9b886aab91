----------------------------- MODULE Repository -----------------------------
(***************************************************************************)
(* The persistence repository under concurrent calls, with either backend: *)
(* in memory (repositories/fixture.py) or MongoDB (repositories/           *)
(* mongodb.py), as configured when the process starts.                     *)
(*                                                                         *)
(* In memory there are no transactions: what makes a method atomic is a    *)
(* lock some methods take, tests that precede the first assignment, and,   *)
(* for some, a copy of the dictionaries that is put back when they raise.  *)
(* In MongoDB most methods are one transaction, with a snapshot of their   *)
(* own, and some are plain operations.  MemoryMethods and MongoMethods say *)
(* which method does what, PersistenceContract what a caller is promised;  *)
(* here calls of any two methods run write by write.                       *)
(*                                                                         *)
(* All records concern one Claim.  The store is the set of pairs <<t, d>>  *)
(* such that what the call t wrote in the dictionary (or record type) d is *)
(* in effect; a revision of the Claim, say, is the set of calls that wrote *)
(* "claims".                                                               *)
(***************************************************************************)
EXTENDS Naturals, Sequences, FiniteSets

Memory == INSTANCE MemoryMethods
Mongo == INSTANCE MongoMethods
Contract == INSTANCE PersistenceContract

CONSTANTS
    Calls,      \* concurrent calls
    Earlier     \* stands for what was there before, and for nobody

ASSUME CallsAssumption == Earlier \notin Calls

VARIABLES
    backend,    \* "memory" or "mongo"
    store,      \* the writes in effect
    sequence,   \* _realtime_sequence, or the realtime_sequence document
    search,     \* the evidence and handoffs the Claim's staff_search was built from (MongoDB)
    lock,       \* the call that holds _claim_mutation_lock, or Earlier (in memory)
    call,       \* the calls
    destroyed,  \* classes of records retention has removed
    retry       \* calls of one method carry one idempotency key

repositoryVars == <<backend, store, sequence, search, lock, call, destroyed, retry>>

Methods == DOMAIN Contract!Table
Row(m) == IF backend = "memory" THEN Memory!Table[m] ELSE Mongo!Table[m]
Of(t) == Row(call[t].method)
Promised(t) == Contract!Table[call[t].method]

\* The record a name of MongoMethods stands for.
RecordOf(d) ==
    CASE d \in {"bare_claims", "moved_claims"} -> "claims"
      [] d = "moved_evidence" -> "evidence"
      [] d = "moved_handoffs" -> "handoffs"
      [] OTHER -> d
Includes(t, d) == \E i \in DOMAIN Of(t).writes : Of(t).writes[i] = d
WritesOf(t) == {RecordOf(Of(t).writes[i]) : i \in DOMAIN Of(t).writes}

Locks(t) == Of(t).guard \in {"lock", "serial", "restore"}
Copies(t) == Of(t).guard \in {"serial", "restore", "transaction"}
Transaction(t) == Of(t).guard = "transaction"
Protected(t) == Of(t).guard # "none"

NoCopy == [store |-> {}, sequence |-> 0]
IdleCall == [pc |-> "idle", method |-> "save_claim", seen |-> {}, next |-> 1, number |-> 0,
         target |-> "claims", copy |-> NoCopy]

\* Claims without a projection, and with one of the customer's reference only,
\* which StaffClaimSearchProjection does not validate.
Absent == {<<Earlier, "staff_search">>}
Partial == {<<Earlier, "customer_reference">>}

RepositoryTypeOK ==
    /\ backend \in {"memory", "mongo"}
    /\ \A p \in store : p[1] \in Calls \cup {Earlier}
    /\ sequence \in Nat
    /\ lock \in Calls \cup {Earlier}
    /\ \A t \in Calls : /\ call[t].pc \in {"idle", "called", "admitted", "entered", "writing", "left", "returned"}
                        /\ call[t].method \in Methods
                        /\ call[t].next \in 1 .. Len(Of(t).writes) + 1
    /\ destroyed \subseteq Memory!Destroyable
    /\ retry \in BOOLEAN

\* Access to the Claim may be closed from the beginning.
RepositoryInit ==
    /\ backend \in {"memory", "mongo"}
    /\ store \in {{}, {<<Earlier, "retention_index">>}}
    /\ sequence = 0
    /\ search = {}
    /\ lock = Earlier
    /\ call = [t \in Calls |-> IdleCall]
    /\ destroyed = {}
    /\ retry \in BOOLEAN

-----------------------------------------------------------------------------
(* What a call sees, and what it may not write.                             *)

In(dictionaries, s) == {p \in s : p[2] \in dictionaries}

\* A transaction tests its snapshot.
View(t) == IF Transaction(t) THEN call[t].copy.store ELSE store

AccessOpen(t) == In({"retention_index"}, View(t)) = {}
SameKey(t, u) == retry /\ call[u].method = call[t].method
KeyUsed(t) == \E u \in Calls \ {t} : SameKey(t, u) /\ <<u, "idempotency">> \in View(t)

\* Records calls of different methods may have in common, one document each;
\* the others are inserted under an identity of their own.
SharedRecords ==
    {"claims", "sessions", "follow_ups", "follow_up_operations", "evidence", "handoffs", "staff_presence",
     "account_records", "assets", "external_tasks", "external_task_requests", "external_task_results",
     "claim_creation_operations", "assessor_routing_operations", "staff_agent_sessions",
     "retention_operations", "retention_index", "retention_holds", "realtime_events"}

\* Mutant: the projection follows evidence alone.
RefreshingEvidence == {"evidence"}

\* _put refreshes the Claim's staff_search after these.
Refreshing == {"evidence", "handoffs"}
\* (Where they are moved, the Claim is moved with them.)
Documents(d) == {RecordOf(d)} \cup (IF RecordOf(d) \in Refreshing THEN {"claims"} ELSE {})
Shared(t, u, d) == d \in SharedRecords \/ (d = "idempotency" /\ SameKey(t, u))

\* Documents of open transactions (MongoDB holds each from its write on).
Written(t) == UNION {Documents(Of(t).writes[i]) : i \in 1 .. call[t].next - 1}
Holds(t, d) == Transaction(t) /\ call[t].pc = "writing" /\ d \in Written(t)

\* Another transaction has d, or has committed it since t's snapshot.
WriteConflict(t, d) ==
    \E u \in Calls \ {t} : Shared(t, u, d) /\
        \/ Holds(u, d)
        \/ \E i \in DOMAIN Of(u).writes :
               /\ d \in Documents(Of(u).writes[i])
               /\ <<u, RecordOf(Of(u).writes[i])>> \in store \ call[t].copy.store

-----------------------------------------------------------------------------
(* The steps of a call.                                                     *)

\* The service has read the records and calls the method with what follows.
Call(t, m) ==
    /\ call[t].pc = "idle"
    /\ call' = [call EXCEPT ![t] = [IdleCall EXCEPT !.pc = "called", !.method = m,
                                               !.seen = In(Row(m).expects, store)]]
    /\ UNCHANGED <<backend, store, sequence, search, lock, destroyed, retry>>

\* save_idempotency (in memory) tests the access before it takes the lock.
TestAccessFirst(t) ==
    /\ call[t].pc = "called" /\ Of(t).early
    /\ call' = [call EXCEPT ![t].pc = IF AccessOpen(t) THEN "admitted" ELSE "left"]
    /\ UNCHANGED <<backend, store, sequence, search, lock, destroyed, retry>>

\* The lock, and the copy where there is one; or the snapshot.
Enter(t) ==
    /\ call[t].pc = IF Of(t).early THEN "admitted" ELSE "called"
    /\ Locks(t) \/ Transaction(t)
    /\ Locks(t) => lock = Earlier
    /\ lock' = IF Locks(t) THEN t ELSE lock
    /\ call' = [call EXCEPT ![t].pc = "entered",
                            ![t].copy = IF Copies(t) THEN [store |-> store, sequence |-> sequence] ELSE NoCopy]
    /\ UNCHANGED <<backend, store, sequence, search, destroyed, retry>>

Entered(t) == call[t].pc = IF Locks(t) \/ Transaction(t) THEN "entered" ELSE "called"
LockAfter(t) == IF Locks(t) THEN Earlier ELSE lock

\* Mutant: only records that were there when they were read are compared.
AdmissibleWhereSeen(t) ==
    /\ "open" \in Of(t).checks /\ ~Of(t).early => AccessOpen(t)
    /\ "key" \in Of(t).checks => ~KeyUsed(t)
    /\ call[t].seen \subseteq View(t)

Admissible(t) ==
    /\ "open" \in Of(t).checks /\ ~Of(t).early => AccessOpen(t)
    /\ "key" \in Of(t).checks => ~KeyUsed(t)
    /\ In(Of(t).expects, View(t)) = call[t].seen

\* The tests succeed.  In memory, _prepare_realtime_mutation takes the next
\* number now; the counter of MongoDB is a document of the transaction.
Pass(t, target) ==
    /\ Entered(t)
    /\ Admissible(t)
    /\ "destroyed" \notin WritesOf(t) => target = IdleCall.target
    /\ call' = [call EXCEPT ![t].pc = "writing", ![t].target = target,
                            ![t].number = (IF Transaction(t) THEN call[t].copy.sequence ELSE sequence) + 1]
    /\ UNCHANGED <<backend, store, sequence, search, lock, destroyed, retry>>

\* What the writes of t among the first n leave of the store s.
After(t, n, s) ==
    LET done == {RecordOf(Of(t).writes[i]) : i \in 1 .. n}
    IN  (IF "destroyed" \in done THEN s \ In({call[t].target}, s) ELSE s) \cup {<<t, d>> : d \in done}

\* The next assignment (_commit_realtime_event for the event), or the next
\* plain operation, which waits for a transaction that holds its document.
Assign(t) ==
    /\ call[t].pc = "writing"
    /\ ~Transaction(t)
    /\ call[t].next <= Len(Of(t).writes)
    /\ LET d == Of(t).writes[call[t].next]
           pops == d = "destroyed"
       IN  /\ \A u \in Calls \ {t} : ~Holds(u, d)
           /\ Of(t).guard = "compare" => Admissible(t)
           /\ store' = (IF pops THEN store \ In({call[t].target}, store) ELSE store) \cup {<<t, d>>}
           /\ sequence' = IF d = "realtime_events" THEN call[t].number ELSE sequence
           /\ destroyed' = IF pops THEN destroyed \cup {call[t].target} ELSE destroyed
    /\ call' = [call EXCEPT ![t].next = @ + 1]
    /\ UNCHANGED <<backend, search, lock, retry>>

\* The next write of a transaction, which nobody sees yet.
WriteInTransaction(t) ==
    /\ call[t].pc = "writing"
    /\ Transaction(t)
    /\ call[t].next <= Len(Of(t).writes)
    /\ \A d \in Documents(Of(t).writes[call[t].next]) : ~WriteConflict(t, d)
    /\ call' = [call EXCEPT ![t].next = @ + 1]
    /\ UNCHANGED <<backend, store, sequence, search, lock, destroyed, retry>>

\* with_transaction runs the body again, with the same arguments.
RunAgain(t) ==
    /\ call[t].pc = "writing"
    /\ Transaction(t)
    /\ call[t].next <= Len(Of(t).writes)
    /\ \E d \in Documents(Of(t).writes[call[t].next]) : WriteConflict(t, d)
    /\ call' = [call EXCEPT ![t].pc = "called", ![t].next = 1, ![t].number = 0,
                            ![t].target = IdleCall.target, ![t].copy = NoCopy]
    /\ UNCHANGED <<backend, store, sequence, search, lock, destroyed, retry>>

\* What is in place after the method has raised.  (The in-memory settlements
\* call wrapped methods, which put back more; what they put back besides is
\* what methods without the lock wrote meanwhile.)
PutBack(t) ==
    CASE Of(t).guard = "serial" -> call[t].copy.store
      [] Of(t).guard = "restore" -> (store \ In(WritesOf(t), store)) \cup In(WritesOf(t), call[t].copy.store)
      [] OTHER -> store

\* Mutant: the counter is not among what is put back.
SequenceAsItIs(t) == sequence

PutBackSequence(t) ==
    IF Of(t).guard \in {"serial", "restore"} THEN call[t].copy.sequence ELSE sequence

\* A test fails, before the first write or, where the row says so, after
\* some (in a transaction, and in a comparing write, after any).
Raise(t) ==
    /\ \/ Entered(t)
       \/ call[t].pc = "writing" /\ call[t].next - 1 \in 1 .. Of(t).late
       \/ call[t].pc = "writing" /\ Transaction(t)
       \/ call[t].pc = "writing" /\ call[t].next = 1 /\ Of(t).guard = "compare" /\ ~Admissible(t)
    /\ store' = PutBack(t)
    /\ sequence' = PutBackSequence(t)
    /\ lock' = LockAfter(t)
    /\ call' = [call EXCEPT ![t].pc = "left", ![t].copy = NoCopy]
    /\ UNCHANGED <<backend, search, destroyed, retry>>

\* The record is there already and nothing is to be done.
ReturnUnchanged(t) ==
    /\ Entered(t)
    /\ lock' = LockAfter(t)
    /\ call' = [call EXCEPT ![t].pc = "left", ![t].copy = NoCopy]
    /\ UNCHANGED <<backend, store, sequence, search, destroyed, retry>>

Return(t) ==
    /\ call[t].pc = "writing"
    /\ ~Transaction(t)
    /\ call[t].next > Len(Of(t).writes)
    /\ lock' = LockAfter(t)
    /\ call' = [call EXCEPT ![t].pc = "returned", ![t].copy = NoCopy]
    /\ UNCHANGED <<backend, store, sequence, search, destroyed, retry>>

\* What a transaction makes of the projection: a Claim replaced bare has none;
\* one moved keeps what it has and gets the customer's reference; else the last
\* projection made was of the snapshot and of the transaction's own writes.
ProjectionAfter(t) ==
    LET n == Len(Of(t).writes)
    IN  IF Includes(t, "bare_claims") THEN Absent
        ELSE IF Includes(t, "moved_claims")
             THEN IF search \in {Absent, Partial} THEN Partial ELSE In(Refreshing, After(t, n, search))
        ELSE IF "claims" \in Written(t) THEN In(Refreshing, After(t, n, call[t].copy.store))
        ELSE search

\* Everything the transaction wrote takes effect.
Commit(t) ==
    /\ call[t].pc = "writing"
    /\ Transaction(t)
    /\ call[t].next > Len(Of(t).writes)
    /\ store' = After(t, Len(Of(t).writes), store)
    /\ sequence' = IF "realtime_events" \in WritesOf(t) THEN call[t].number ELSE sequence
    /\ destroyed' = IF "destroyed" \in WritesOf(t) THEN destroyed \cup {call[t].target} ELSE destroyed
    /\ search' = ProjectionAfter(t)
    /\ call' = [call EXCEPT ![t].pc = "returned", ![t].copy = NoCopy]
    /\ UNCHANGED <<backend, lock, retry>>

RepositoryNext ==
    \E t \in Calls :
        \/ \E m \in Methods : Call(t, m)
        \/ \E d \in Memory!Destroyable : Pass(t, d)
        \/ TestAccessFirst(t) \/ Enter(t) \/ ReturnUnchanged(t) \/ Raise(t)
        \/ Assign(t) \/ Return(t)
        \/ WriteInTransaction(t) \/ RunAgain(t) \/ Commit(t)

RepositorySpec == RepositoryInit /\ [][RepositoryNext]_repositoryVars

-----------------------------------------------------------------------------
(* Properties.                                                              *)

Returned(t) == call[t].pc = "returned"

\* Whatever the backend, a call that raised has left nothing behind, although
\* nothing is rolled back in most in-memory methods; and the records a method
\* promises to write are in effect when it has returned, and stay, whatever
\* is put back or run again by the others, until retention destroys them.
\* (In memory, save_message_recovery may raise between its two messages, and
\* what methods without the lock write may be lost.)
AsPromised ==
    \A t \in Calls :
        /\ call[t].pc = "left" /\ ~(backend = "memory" /\ call[t].method = "save_message_recovery")
             => \A p \in store : p[1] # t
        /\ Returned(t) /\ (backend = "mongo" \/ Protected(t))
             => \A d \in Promised(t).records : <<t, d>> \in store \/ d \in destroyed

\* Of two calls that were given the same revision (or record) of what both
\* write, one returns; and one of two with the same unused key.
OneWinner ==
    \A t, u \in Calls : t # u /\ Returned(t) /\ Returned(u) /\ Protected(t) /\ Protected(u) =>
        /\ \A d \in (Promised(t).compares \cap Promised(u).compares \cap WritesOf(t) \cap WritesOf(u)) \ destroyed :
             In({d}, call[t].seen) # In({d}, call[u].seen)
        /\ ~(SameKey(t, u) /\ "key" \in Of(t).checks)

\* The events in the store are numbered without a gap and without a
\* repetition, after every roll-back and every repeated transaction too.
EventsNumbered ==
    LET publishers == {t \in Calls : <<t, "realtime_events">> \in store}
    IN  /\ lock = Earlier => {call[t].number : t \in publishers} = 1 .. sequence
        /\ \A t, u \in publishers : call[t].number = call[u].number => t = u

\* Staff search never goes by an outdated projection: whoever wrote the Claim,
\* its evidence and its handoffs at the same time, the projection is the one of
\* the evidence and handoffs there are, or it is not complete, and that only
\* where one of the methods that replace the Claim bare has returned (until
\* retention begins to destroy records).
SearchNeverStale ==
    backend = "mongo" /\ destroyed = {} =>
        \/ search = In({"evidence", "handoffs"}, store)
        \/ search \in {Absent, Partial} /\ \E t \in Calls : Returned(t) /\ Includes(t, "bare_claims")

-----------------------------------------------------------------------------
(* What does not hold (README, section 6).                                  *)

\* What a method without the lock has written stays as well.
UnlockedKept ==
    \A t \in Calls : Returned(t) => \A d \in WritesOf(t) : <<t, d>> \in store \/ d \in destroyed

\* A Claim keeps its projection.
SearchKept == search # Absent

\* What a search finds on a Claim is a projection.
SearchReadable == search # Partial

\* A call decides on records that still are as it read them when it takes effect.
DecidedOnCurrent ==
    [][\A t \in Calls : Commit(t) => In(Promised(t).compares, store) = In(Promised(t).compares, call[t].seen)]_repositoryVars

\* Nothing is written by a method that tests the access, once it is closed.
ClosedMeansClosed ==
    [][\A t \in Calls : Commit(t) /\ "open" \in Of(t).checks => In({"retention_index"}, store) = {}]_repositoryVars
=============================================================================
