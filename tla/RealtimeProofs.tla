--------------------------- MODULE RealtimeProofs ---------------------------
(***************************************************************************)
(* Proofs about Realtime, for any publishers and browsers, any capacity of *)
(* a queue, any replay window and any bounds.                              *)
(***************************************************************************)
EXTENDS Realtime, FiniteSetTheorems, WellFoundedInduction, TLAPS

-----------------------------------------------------------------------------
(* The invariant.                                                          *)

\* One transaction at a time has a number, the last one taken, and what is
\* durable are all numbers before it: numbers become visible in order.
LastDurable == IF CounterFree THEN counter ELSE counter - 1

NumberingInv ==
    /\ \A p, q \in Publishers : txn[p].seq # 0 /\ txn[q].seq # 0 => p = q
    /\ \A p \in Publishers : txn[p].seq # 0 => txn[p].seq = counter
    /\ Visible = 1 .. LastDurable

\* The page is what is durable next, without a gap, and is offered only while
\* the dispatcher publishes; only open subscriptions are owed anything.
DispatcherInv ==
    /\ processed \in 0 .. LastDurable
    /\ \A e \in page : e \in Visible /\ processed < e
    /\ \A e \in page, n \in Visible : processed < n /\ n < e => n \in page
    /\ page = {} \/ dstate \in {"starting", "gap"} => ~offering
    /\ dstate = "starting" => page = {}
    /\ dstate \notin {"gap"} /\ ~offering => todo = {} /\ clearing = Nobody
    /\ todo \subseteq Subscribed
    /\ clearing # Nobody => clearing \in Subscribed \ todo
    /\ dropped => clearing # Nobody

\* The two ends of a stream.
StreamOK(c) ==
    LET queue == sub[c].queue
    IN  /\ client[c].phase = "off" => sub[c] = NoSubscription
        /\ client[c].phase # "open" => client[c].backlog = {} /\ ~client[c].signal
        /\ client[c].phase # "off" /\ ~sub[c].registered => queue = <<Resync>> /\ sub[c].latest = 0
        /\ sub[c].registered => dstate # "starting"
        /\ sub[c].registered /\ dstate = "gap" =>
             c \in todo \/ clearing = c \/ Occurs(Resync, queue)
        /\ \A i, j \in DOMAIN queue : i < j => queue[i] < queue[j]
        /\ \A i \in DOMAIN queue :
             queue[i] # Resync => queue[i] \in Addressed(c) /\ queue[i] <= sub[c].latest
        /\ sub[c].latest <= processed
             \/ (offering /\ sub[c].latest = First(page) /\ c \notin todo)
        /\ client[c].backlog \subseteq Addressed(c)
        /\ client[c].cursor \in 0 .. LastDurable

\* A number c knows, or that is on its way to it.
Coming(c, n) == n \in client[c].known \/ n \in client[c].backlog \/ Occurs(n, sub[c].queue)

\* What the backlog and the queue bring leaves nothing out below it, unless a
\* signal comes first.
BacklogOK(c) ==
    \A b \in client[c].backlog, n \in Addressed(c) :
        n <= b => n \in client[c].known \/ n \in client[c].backlog

QueueOK(c) ==
    Current(c) /\ ~client[c].signal /\ ~Occurs(Resync, sub[c].queue) /\ ~(dropped /\ clearing = c) =>
      \A i \in DOMAIN sub[c].queue : \A n \in Addressed(c) :
        n <= sub[c].queue[i] => Coming(c, n)

HonestOK(c) ==
    client[c].cursor # 0 => \A n \in Addressed(c) : n <= client[c].cursor => n \in client[c].known

CoveredOK(c) == Current(c) => Covered(c)

BrowserOK(c) == BacklogOK(c) /\ QueueOK(c) /\ HonestOK(c) /\ CoveredOK(c)

BrowsersInv == \A c \in Clients : StreamOK(c) /\ (c \notin torn => BrowserOK(c))

IInv == TypeOK /\ NumberingInv /\ DispatcherInv /\ BrowsersInv

-----------------------------------------------------------------------------
(* Numbers and queues.                                                     *)

\* A set of natural numbers that is not empty has a first.
LEMMA FirstExists ==
  ASSUME NEW numbers \in SUBSET Nat, numbers # {}
  PROVE  First(numbers) \in numbers /\ \A m \in numbers : First(numbers) <= m
<1> DEFINE below == OpToRel(<, Nat)
<1>1. IsWellFoundedOn(below, Nat)
  BY NatLessThanWellFounded
<1>2. \A m, n \in Nat : m < n => <<m, n>> \in below
  BY DEF OpToRel
<1> HIDE DEF below
<1>3. PICK n \in numbers : \A m \in numbers : ~(<<m, n>> \in below)
  BY <1>1, WFMin
<1>4. ASSUME NEW m \in numbers
      PROVE  n <= m
  <2>1. m \in Nat /\ n \in Nat
    BY <1>4
  <2>2. ~(m < n)
    BY <2>1, <1>2, <1>3
  <2>3. QED
    BY <2>1, <2>2
<1>5. QED
  BY <1>4 DEF First

\* LastDurable is a number, and no transaction has a number that is durable.
LEMMA DurableNumbers ==
  ASSUME TypeOK, NumberingInv
  PROVE  /\ LastDurable \in Nat /\ LastDurable <= counter /\ counter \in Nat
         /\ \A n \in Visible : n \in Nat /\ 0 < n /\ n <= LastDurable
         /\ \A p \in Publishers : txn[p].seq # 0 =>
              ~CounterFree /\ LastDurable = counter - 1
<1>1. counter \in Nat
  BY BoundsAssumption DEF TypeOK
<1>2. ~CounterFree => counter # 0
  BY DEF NumberingInv, CounterFree
<1>3. LastDurable \in Nat /\ LastDurable <= counter
  BY <1>1, <1>2 DEF LastDurable
<1>4. \A p \in Publishers : txn[p].seq # 0 => ~CounterFree
  BY DEF CounterFree
<1>5. QED
  BY <1>1, <1>3, <1>4 DEF NumberingInv, LastDurable

\* A page is an interval of the durable numbers.
LEMMA ReplayedInterval ==
  ASSUME TypeOK, NumberingInv, NEW n \in 0 .. LastDurable, NEW limit \in Nat
  PROVE  /\ \A e \in ReplayAfter(n, limit) : e \in Visible /\ n < e /\ e <= n + limit
         /\ \A e \in Visible : n < e /\ e <= n + limit => e \in ReplayAfter(n, limit)
<1> DEFINE later == {e \in Visible : e > n}
<1>1. LastDurable \in Nat /\ Visible = 1 .. LastDurable /\ n \in Nat
  BY DurableNumbers DEF NumberingInv
<1>2. ASSUME NEW e \in later
      PROVE  Cardinality({d \in later : d < e}) = e - n - 1
  <2>1. {d \in later : d < e} = (n + 1) .. (e - 1)
    BY <1>1, <1>2
  <2>2. e \in Int /\ n + 1 <= e
    BY <1>1, <1>2
  <2>3. Cardinality((n + 1) .. (e - 1)) = IF n + 1 > e - 1 THEN 0 ELSE (e - 1) - (n + 1) + 1
    BY <1>1, <2>2, FS_Interval
  <2> DEFINE earlier == {d \in later : d < e}
  <2>4. earlier = (n + 1) .. (e - 1)
    BY <2>1
  <2> HIDE DEF earlier, later
  <2>5. Cardinality(earlier) = e - n - 1
    BY <1>1, <2>2, <2>3, <2>4
  <2>6. QED
    BY <2>5 DEF earlier
<1>3. ReplayAfter(n, limit) = {e \in later : Cardinality({d \in later : d < e}) < limit}
  BY DEF ReplayAfter
<1>4. \A e \in later : Cardinality({d \in later : d < e}) < limit <=> e <= n + limit
  BY <1>1, <1>2
<1> HIDE DEF later
<1>5. ReplayAfter(n, limit) = {e \in later : e <= n + limit}
  BY <1>3, <1>4
<1>6. QED
  BY <1>5 DEF later

\* When one event more than the window is asked for and not found, the window
\* holds all there is.
LEMMA WindowHoldsAll ==
  ASSUME TypeOK, NumberingInv, NEW n \in 0 .. LastDurable,
         ~(Cardinality(ReplayAfter(n, ReplayLimit + 1)) > ReplayLimit)
  PROVE  \A e \in Visible : n < e => e \in ReplayAfter(n, ReplayLimit)
<1>1. LastDurable \in Nat /\ Visible = 1 .. LastDurable /\ n \in Nat /\ ReplayLimit \in Nat
  BY DurableNumbers, BoundsAssumption DEF NumberingInv
<1>2. ASSUME NEW e \in Visible, n < e, e > n + ReplayLimit
      PROVE  FALSE
  <2>1. ReplayAfter(n, ReplayLimit + 1) = (n + 1) .. (n + ReplayLimit + 1)
    <3>1. /\ \A d \in ReplayAfter(n, ReplayLimit + 1) :
               d \in Visible /\ n < d /\ d <= n + (ReplayLimit + 1)
          /\ \A d \in Visible : n < d /\ d <= n + (ReplayLimit + 1) =>
               d \in ReplayAfter(n, ReplayLimit + 1)
      BY <1>1, ReplayedInterval
    <3> DEFINE found == ReplayAfter(n, ReplayLimit + 1)
    <3> HIDE DEF found
    <3>2. \A d \in Visible : d \in Nat /\ d >= 1
      BY <1>1
    <3>3. e \in Nat
      BY <1>2, <3>2
    <3>4. \A d \in found : d \in (n + 1) .. (n + ReplayLimit + 1)
      BY <1>1, <3>1, <3>2 DEF found
    <3>5. \A d \in (n + 1) .. (n + ReplayLimit + 1) : d \in found
      BY <1>1, <1>2, <3>1, <3>3 DEF found
    <3>6. QED
      BY <3>4, <3>5 DEF found
  <2>2. Cardinality((n + 1) .. (n + ReplayLimit + 1)) = ReplayLimit + 1
    BY <1>1, FS_Interval
  <2>3. QED
    BY <1>1, <2>1, <2>2
<1>3. \A e \in Visible : n < e => e <= n + ReplayLimit
  BY <1>1, <1>2
<1>4. \A e \in Visible : n < e /\ e <= n + ReplayLimit => e \in ReplayAfter(n, ReplayLimit)
  BY <1>1, ReplayedInterval
<1>5. QED
  BY <1>3, <1>4

\* Reading the head of a queue, and adding to its end.
LEMMA HeadRead ==
  ASSUME NEW S, NEW queue \in Seq(S), queue # <<>>
  PROVE  /\ Tail(queue) \in Seq(S) /\ Len(Tail(queue)) = Len(queue) - 1
         /\ Head(queue) = queue[1] /\ 1 \in DOMAIN queue /\ Head(queue) \in S
         /\ \A i \in DOMAIN Tail(queue) : i \in Nat /\ i + 1 \in DOMAIN queue /\ Tail(queue)[i] = queue[i + 1]
         /\ \A n : Occurs(n, queue) <=> n = Head(queue) \/ Occurs(n, Tail(queue))
<1>1. /\ Tail(queue) \in Seq(S) /\ Len(Tail(queue)) = Len(queue) - 1
      /\ Head(queue) = queue[1] /\ 1 \in DOMAIN queue /\ Head(queue) \in S
      /\ \A i \in DOMAIN Tail(queue) : i \in Nat /\ i + 1 \in DOMAIN queue /\ Tail(queue)[i] = queue[i + 1]
  OBVIOUS
<1>2. \A i \in DOMAIN queue : i = 1 \/ (i - 1 \in DOMAIN Tail(queue) /\ Tail(queue)[i - 1] = queue[i])
  OBVIOUS
<1>3. QED
  BY <1>1, <1>2 DEF Occurs

LEMMA EndAdded ==
  ASSUME NEW S, NEW queue \in Seq(S), NEW n \in S
  PROVE  /\ Append(queue, n) \in Seq(S) /\ Len(Append(queue, n)) = Len(queue) + 1
         /\ \A i \in DOMAIN Append(queue, n) :
              i \in Nat /\ ((i \in DOMAIN queue /\ Append(queue, n)[i] = queue[i])
                              \/ (i = Len(queue) + 1 /\ Append(queue, n)[i] = n))
         /\ \A i \in DOMAIN queue : i <= Len(queue)
         /\ \A m : Occurs(m, Append(queue, n)) <=> m = n \/ Occurs(m, queue)
<1>1. /\ Append(queue, n) \in Seq(S) /\ Len(Append(queue, n)) = Len(queue) + 1
      /\ \A i \in DOMAIN Append(queue, n) :
           i \in Nat /\ ((i \in DOMAIN queue /\ Append(queue, n)[i] = queue[i])
                           \/ (i = Len(queue) + 1 /\ Append(queue, n)[i] = n))
      /\ \A i \in DOMAIN queue : i <= Len(queue)
  OBVIOUS
<1>2. /\ \A i \in DOMAIN queue : i \in DOMAIN Append(queue, n) /\ Append(queue, n)[i] = queue[i]
      /\ Len(queue) + 1 \in DOMAIN Append(queue, n) /\ Append(queue, n)[Len(queue) + 1] = n
  OBVIOUS
<1>3. QED
  BY <1>1, <1>2 DEF Occurs

-----------------------------------------------------------------------------
(* What a step leaves alone.                                               *)

Queues == Seq(0 .. MaxEvents)
SubscriptionStates == [registered : BOOLEAN, queue : Queues, latest : 0 .. MaxEvents]
ClientStates ==
    [phase : {"off", "replaying", "open"}, cursor : 0 .. MaxEvents, reload : BOOLEAN,
     backlog : SUBSET Numbers, signal : BOOLEAN, known : SUBSET Numbers]

DispatcherTypes ==
    /\ dstate \in {"starting", "gap"} \union Live
    /\ processed \in 0 .. MaxEvents
    /\ page \subseteq Numbers
    /\ drain \in {"idle", "more", "last"}
    /\ offering \in BOOLEAN
    /\ todo \subseteq Clients
    /\ clearing \in Clients \union {Nobody}
    /\ dropped \in BOOLEAN

StoreTypes ==
    /\ Visible \subseteq Numbers
    /\ \A n \in Visible : events[n] \in Kinds
    /\ counter \in 0 .. MaxEvents
    /\ txn \in [Publishers -> [seq : 0 .. MaxEvents, kind : Kinds]]

BrowserTypes ==
    /\ sub \in [Clients -> SubscriptionStates]
    /\ \A c \in Clients : Len(sub[c].queue) <= QueueCapacity
    /\ client \in [Clients -> ClientStates]
    /\ torn \subseteq Clients

BoundTypes == failures \in 0 .. MaxFailures /\ drops \in 0 .. MaxDrops

LEMMA TypesInParts ==
  TypeOK <=> StoreTypes /\ DispatcherTypes /\ BrowserTypes /\ BoundTypes
BY DEF TypeOK, StoreTypes, DispatcherTypes, BrowserTypes, BoundTypes, Queues, SubscriptionStates,
       ClientStates

LEMMA TypesInPartsNext ==
  TypeOK' <=> StoreTypes' /\ DispatcherTypes' /\ BrowserTypes' /\ BoundTypes'
BY DEF TypeOK, StoreTypes, DispatcherTypes, BrowserTypes, BoundTypes, Queues, SubscriptionStates,
       ClientStates, Visible, Clients, Numbers, Live

\* The store as it is keeps its types and its numbering.
LEMMA StoreStays ==
  ASSUME StoreTypes, NumberingInv, UNCHANGED store
  PROVE  /\ StoreTypes' /\ NumberingInv' /\ LastDurable' = LastDurable /\ Visible' = Visible
         /\ \A c : Addressed(c)' = Addressed(c)
BY DEF StoreTypes, NumberingInv, store, LastDurable, Visible, CounterFree, Addressed, Permits

\* A stream that a step leaves alone, with what the dispatcher holds for it.
SameFor(c) ==
    /\ sub'[c] = sub[c] /\ client'[c] = client[c]
    /\ c \in todo' <=> c \in todo
    /\ clearing' = c <=> clearing = c
    /\ dropped' /\ clearing' = c <=> dropped /\ clearing = c
    /\ c \in torn' <=> c \in torn

LEMMA StreamStays ==
  ASSUME StoreTypes, NumberingInv, UNCHANGED <<store, dstate, processed, page, offering>>,
         NEW c \in Clients, SameFor(c), StreamOK(c), c \notin torn => BrowserOK(c)
  PROVE  StreamOK(c)' /\ (c \notin torn' => BrowserOK(c)')
<1>1. LastDurable' = LastDurable /\ Addressed(c)' = Addressed(c)
  BY StoreStays
<1>2. StreamOK(c)'
  BY <1>1 DEF StreamOK, SameFor
<1>3. BacklogOK(c)' <=> BacklogOK(c)
  BY <1>1 DEF BacklogOK, SameFor
<1>4. QueueOK(c)' <=> QueueOK(c)
  BY <1>1 DEF QueueOK, SameFor, Current, Coming
<1>5. HonestOK(c)' <=> HonestOK(c)
  BY <1>1 DEF HonestOK, SameFor
<1>6. CoveredOK(c)' <=> CoveredOK(c)
  BY <1>1 DEF CoveredOK, SameFor, Current, Covered, Owed, Signalled, Live
<1>7. QED
  BY <1>2, <1>3, <1>4, <1>5, <1>6 DEF BrowserOK, SameFor

\* A step of one stream.
LEMMA StreamMoves ==
  ASSUME IInv, NEW c \in Clients,
         UNCHANGED <<store, dstate, processed, page, drain, offering>>,
         NEW s \in SubscriptionStates, sub' = [sub EXCEPT ![c] = s], Len(s.queue) <= QueueCapacity,
         NEW k \in ClientStates, client' = [client EXCEPT ![c] = k],
         DispatcherTypes', DispatcherInv', BoundTypes',
         torn' \subseteq Clients, torn' \ {c} = torn \ {c},
         todo' \ {c} = todo \ {c},
         \A d \in Clients \ {c} :
            (clearing' = d <=> clearing = d) /\ (dropped' /\ clearing' = d <=> dropped /\ clearing = d),
         StreamOK(c)', c \notin torn' => BrowserOK(c)'
  PROVE  IInv'
<1>1. StoreTypes /\ DispatcherTypes /\ BrowserTypes /\ NumberingInv /\ BrowsersInv
  BY TypesInParts DEF IInv
<1>2. StoreTypes' /\ NumberingInv'
  BY <1>1, StoreStays
<1>3. sub \in [Clients -> SubscriptionStates] /\ client \in [Clients -> ClientStates]
  BY <1>1 DEF BrowserTypes
<1>4. /\ sub' \in [Clients -> SubscriptionStates] /\ client' \in [Clients -> ClientStates]
      /\ sub'[c] = s /\ client'[c] = k
      /\ \A d \in Clients \ {c} : sub'[d] = sub[d] /\ client'[d] = client[d]
  BY <1>3
<1>5. BrowserTypes'
  BY <1>1, <1>4 DEF BrowserTypes, Clients
<1>6. ASSUME NEW d \in Clients
      PROVE  StreamOK(d)' /\ (d \notin torn' => BrowserOK(d)')
  <2>1. CASE d = c
    BY <2>1
  <2>2. CASE d # c
    <3>1. SameFor(d)
      BY <1>4, <2>2 DEF SameFor
    <3>2. QED
      BY <1>1, <3>1, StreamStays DEF BrowsersInv
  <2>3. QED
    BY <2>1, <2>2
<1>7. BrowsersInv'
  BY <1>6 DEF BrowsersInv, Clients
<1>8. QED
  BY <1>2, <1>5, <1>7, TypesInPartsNext DEF IInv

\* A step of the dispatcher that leaves the subscriptions as they are.
LEMMA DispatcherMoves ==
  ASSUME IInv, UNCHANGED <<store, browsers, clearing>>, DispatcherTypes', DispatcherInv', BoundTypes',
         \A c \in Subscribed :
            /\ dstate' # "starting"
            /\ dstate' = "gap" => c \in todo' \/ clearing = c \/ Occurs(Resync, sub[c].queue)
            /\ \A n \in Visible : Owed(c, n) => Owed(c, n)' \/ (dstate' = "gap" /\ c \in todo'),
         \A c \in Clients :
            /\ sub[c].latest <= processed \/ (offering /\ sub[c].latest = First(page) /\ c \notin todo) =>
                 sub[c].latest <= processed' \/ (offering' /\ sub[c].latest = First(page') /\ c \notin todo')
            /\ dstate = "gap" /\ c \in todo => dstate' = "gap" /\ c \in todo'
  PROVE  IInv'
<1>1. StoreTypes /\ DispatcherTypes /\ BrowserTypes /\ NumberingInv /\ BrowsersInv
  BY TypesInParts DEF IInv
<1>2. StoreTypes' /\ NumberingInv' /\ LastDurable' = LastDurable /\ \A c : Addressed(c)' = Addressed(c)
  BY <1>1, StoreStays
<1>3. BrowserTypes'
  BY <1>1 DEF BrowserTypes, browsers, Clients
<1>4. ASSUME NEW c \in Clients
      PROVE  StreamOK(c)' /\ (c \notin torn' => BrowserOK(c)')
  <2>1. StreamOK(c) /\ (c \notin torn => BrowserOK(c))
    BY <1>1 DEF BrowsersInv
  <2>2. Addressed(c)' = Addressed(c) /\ LastDurable' = LastDurable
    BY <1>2
  <2>3. StreamOK(c)'
    BY <2>1, <2>2 DEF StreamOK, browsers, Subscribed
  <2>4. BacklogOK(c)' <=> BacklogOK(c)
    BY <2>2 DEF BacklogOK, browsers
  <2>5. QueueOK(c)' <=> QueueOK(c)
    BY <2>2 DEF QueueOK, browsers, Current, Coming
  <2>6. HonestOK(c)' <=> HonestOK(c)
    BY <2>2 DEF HonestOK, browsers
  <2>7. CoveredOK(c) => CoveredOK(c)'
    <3>1. SUFFICES ASSUME Covered(c), NEW n \in Addressed(c)
                   PROVE  \/ n \in client[c].known \/ n \in client[c].backlog \/ Occurs(n, sub[c].queue)
                          \/ Owed(c, n)' \/ Signalled(c)'
      BY <2>2 DEF CoveredOK, Covered, Current, browsers
    <3>2. Signalled(c) => Signalled(c)'
      BY DEF Signalled, browsers
    <3>3. Owed(c, n) => Owed(c, n)' \/ Signalled(c)'
      BY DEF Owed, Signalled, Subscribed, Addressed
    <3>4. QED
      BY <3>1, <3>2, <3>3 DEF Covered
  <2>8. QED
    BY <2>1, <2>3, <2>4, <2>5, <2>6, <2>7 DEF BrowserOK, browsers
<1>5. BrowsersInv'
  BY <1>4 DEF BrowsersInv, Clients
<1>6. QED
  BY <1>2, <1>3, <1>5, TypesInPartsNext DEF IInv

-----------------------------------------------------------------------------
(* Publication.                                                            *)

\* Numbers are taken and given back without a trace.
LEMMA NumbersMove ==
  ASSUME IInv, UNCHANGED <<events, dispatcher, browsers, failures, drops>>, StoreTypes',
         NumberingInv', LastDurable' = LastDurable
  PROVE  IInv'
<1>1. DispatcherTypes' /\ BrowserTypes' /\ BoundTypes'
  BY TypesInParts DEF IInv, DispatcherTypes, BrowserTypes, BoundTypes, dispatcher, browsers, Live,
                      Clients, Numbers
<1>2. \A c : Addressed(c)' = Addressed(c)
  BY DEF Addressed, Visible, Permits
<1>3. DispatcherInv'
  BY DEF IInv, DispatcherInv, dispatcher, browsers, Visible, Subscribed, Clients
<1>4. ASSUME NEW c \in Clients
      PROVE  StreamOK(c)' /\ (c \notin torn' => BrowserOK(c)')
  <2>1. StreamOK(c) /\ (c \notin torn => BrowserOK(c))
    BY DEF IInv, BrowsersInv
  <2>2. StreamOK(c)'
    BY <1>2, <2>1 DEF StreamOK, dispatcher, browsers
  <2>3. BacklogOK(c)' <=> BacklogOK(c)
    BY <1>2 DEF BacklogOK, browsers
  <2>4. QueueOK(c)' <=> QueueOK(c)
    BY <1>2 DEF QueueOK, Current, Coming, dispatcher, browsers
  <2>5. HonestOK(c)' <=> HonestOK(c)
    BY <1>2 DEF HonestOK, browsers
  <2>6. CoveredOK(c)' <=> CoveredOK(c)
    BY <1>2 DEF CoveredOK, Current, Covered, Owed, Signalled, Live, dispatcher, browsers
  <2>7. QED
    BY <2>1, <2>2, <2>3, <2>4, <2>5, <2>6 DEF BrowserOK, browsers
<1>5. BrowsersInv'
  BY <1>4 DEF BrowsersInv, Clients
<1>6. QED
  BY <1>1, <1>3, <1>5, TypesInPartsNext DEF IInv

LEMMA TakeSequenceStep ==
  ASSUME IInv, NEW p \in Publishers, NEW kind \in Kinds, TakeSequence(p, kind)
  PROVE  IInv'
<1>1. StoreTypes /\ NumberingInv /\ counter \in Nat /\ MaxEvents \in Nat
  BY TypesInParts, DurableNumbers, BoundsAssumption DEF IInv
<1>2. counter' = counter + 1 /\ counter + 1 \in 0 .. MaxEvents /\ events' = events /\ CounterFree
  BY <1>1 DEF TakeSequence
<1>3. /\ txn' \in [Publishers -> [seq : 0 .. MaxEvents, kind : Kinds]]
      /\ txn'[p].seq = counter + 1 /\ \A q \in Publishers \ {p} : txn'[q].seq = 0
  <2>1. /\ txn \in [Publishers -> [seq : 0 .. MaxEvents, kind : Kinds]]
        /\ txn' = [txn EXCEPT ![p] = [seq |-> counter + 1, kind |-> kind]]
        /\ [seq |-> counter + 1, kind |-> kind] \in [seq : 0 .. MaxEvents, kind : Kinds]
    BY <1>1, <1>2 DEF TakeSequence, StoreTypes
  <2>2. QED
    BY <1>2, <2>1 DEF CounterFree
<1>4. StoreTypes'
  BY <1>1, <1>2, <1>3 DEF StoreTypes, Visible, Numbers
<1>5. LastDurable = counter /\ LastDurable' = counter
  BY <1>1, <1>2, <1>3 DEF LastDurable, CounterFree
<1>6. NumberingInv'
  BY <1>1, <1>2, <1>3, <1>5 DEF NumberingInv, Visible
<1>7. QED
  BY <1>4, <1>5, <1>6, NumbersMove DEF TakeSequence

LEMMA AbortStep ==
  ASSUME IInv, NEW p \in Publishers, Abort(p)
  PROVE  IInv'
<1>1. /\ StoreTypes /\ NumberingInv /\ counter \in Nat /\ MaxEvents \in Nat /\ LastDurable \in Nat
      /\ LastDurable = counter - 1
  BY TypesInParts, DurableNumbers, BoundsAssumption DEF IInv, Abort
<1>2. counter' = counter - 1 /\ counter - 1 \in 0 .. MaxEvents /\ events' = events
  BY <1>1 DEF Abort, StoreTypes
<1>3. /\ txn' \in [Publishers -> [seq : 0 .. MaxEvents, kind : Kinds]]
      /\ \A q \in Publishers : txn'[q].seq = 0
  <2>1. /\ txn \in [Publishers -> [seq : 0 .. MaxEvents, kind : Kinds]]
        /\ txn' = [txn EXCEPT ![p] = NoTransaction]
        /\ NoTransaction \in [seq : 0 .. MaxEvents, kind : Kinds]
    BY <1>1, KindsAssumption DEF Abort, StoreTypes, NoTransaction
  <2>2. \A q \in Publishers \ {p} : txn[q].seq = 0
    BY <1>1 DEF NumberingInv, Abort
  <2>3. QED
    BY <2>1, <2>2 DEF NoTransaction
<1>4. StoreTypes'
  BY <1>1, <1>2, <1>3 DEF StoreTypes, Visible, Numbers
<1>5. LastDurable' = LastDurable
  BY <1>1, <1>2, <1>3 DEF LastDurable, CounterFree
<1>6. NumberingInv'
  BY <1>1, <1>2, <1>3, <1>5 DEF NumberingInv, Visible
<1>7. QED
  BY <1>4, <1>5, <1>6, NumbersMove DEF Abort

\* What is committed is past everything durable: nobody's cursor, queue or
\* page has passed it, and every open subscription is still to be offered it.
LEMMA CommitStep ==
  ASSUME IInv, NEW p \in Publishers, Commit(p)
  PROVE  IInv'
<1> DEFINE n == txn[p].seq
<1>1. /\ StoreTypes /\ NumberingInv /\ DispatcherInv /\ BrowsersInv /\ counter \in Nat
      /\ MaxEvents \in Nat /\ LastDurable \in Nat /\ LastDurable = counter - 1 /\ n = counter
      /\ n \in Numbers /\ txn[p].kind \in Kinds
  <2>1. StoreTypes /\ NumberingInv /\ DispatcherInv /\ BrowsersInv /\ MaxEvents \in Nat
    BY TypesInParts, BoundsAssumption DEF IInv
  <2>2. counter \in Nat /\ LastDurable \in Nat /\ LastDurable = counter - 1 /\ n = counter
    BY DurableNumbers DEF IInv, NumberingInv, Commit
  <2>3. n \in Numbers /\ txn[p].kind \in Kinds
    BY <2>1, <2>2 DEF StoreTypes, Numbers, Commit
  <2>4. QED
    BY <2>1, <2>2, <2>3
<1>2. /\ Visible' = Visible \union {n} /\ events'[n] = txn[p].kind
      /\ \A m \in Visible : m < n /\ m \in Nat /\ events'[m] = events[m]
  <2>1. \A m \in Visible : m < n /\ m \in Nat
    BY <1>1 DEF NumberingInv
  <2>2. events' = [m \in Visible \union {n} |-> IF m = n THEN txn[p].kind ELSE events[m]]
    BY DEF Commit
  <2>3. QED
    BY <2>1, <2>2, <1>1 DEF Visible
<1>3. /\ txn' \in [Publishers -> [seq : 0 .. MaxEvents, kind : Kinds]]
      /\ \A q \in Publishers : txn'[q].seq = 0
  <2>1. /\ txn \in [Publishers -> [seq : 0 .. MaxEvents, kind : Kinds]]
        /\ txn' = [txn EXCEPT ![p] = NoTransaction]
        /\ NoTransaction \in [seq : 0 .. MaxEvents, kind : Kinds]
    BY <1>1, KindsAssumption DEF Commit, StoreTypes, NoTransaction
  <2>2. \A q \in Publishers \ {p} : txn[q].seq = 0
    BY <1>1 DEF NumberingInv, Commit
  <2>3. QED
    BY <2>1, <2>2 DEF NoTransaction
<1>4. StoreTypes'
  BY <1>1, <1>2, <1>3 DEF StoreTypes, Numbers, Commit
<1>5. LastDurable' = n
  BY <1>1, <1>3 DEF LastDurable, CounterFree, Commit
<1>6. NumberingInv'
  <2>1. Visible' = 1 .. n
    BY <1>1, <1>2 DEF NumberingInv
  <2>2. QED
    BY <1>3, <1>5, <2>1 DEF NumberingInv
<1>7. DispatcherTypes' /\ BrowserTypes' /\ BoundTypes'
  BY TypesInParts DEF IInv, DispatcherTypes, BrowserTypes, BoundTypes, dispatcher, browsers, Live,
                      Clients, Numbers, Commit
<1>8. UNCHANGED <<dispatcher, browsers>>
  BY DEF Commit
<1> HIDE DEF n
<1>9. processed \in Nat /\ processed < n
  BY <1>1 DEF DispatcherInv
<1>10. n \notin page /\ \A e \in page : e \in Nat /\ e < n
  BY <1>1, <1>2 DEF DispatcherInv
<1>11. DispatcherInv'
  BY <1>1, <1>2, <1>5, <1>8, <1>10 DEF DispatcherInv, dispatcher, browsers, Subscribed, Clients
<1>12. \A c : Addressed(c) \subseteq Addressed(c)' /\ Addressed(c)' \subseteq Addressed(c) \union {n}
  BY <1>2 DEF Addressed, Permits
<1>13. ASSUME NEW c \in Clients
       PROVE  StreamOK(c)' /\ (c \notin torn' => BrowserOK(c)')
  <2>1. StreamOK(c) /\ (c \notin torn => BrowserOK(c))
    BY <1>1 DEF BrowsersInv
  <2>2. /\ Addressed(c) \subseteq Addressed(c)' /\ Addressed(c)' \subseteq Addressed(c) \union {n}
        /\ \A m \in Addressed(c) : m \in Nat /\ m < n
    BY <1>2, <1>12 DEF Addressed
  <2>3. client[c].cursor \in Nat /\ client[c].cursor < n
    BY <1>1, <2>1 DEF StreamOK
  <2>4. StreamOK(c)'
    BY <1>1, <1>5, <1>8, <2>1, <2>2, <2>3 DEF StreamOK, dispatcher, browsers
  <2>5. BacklogOK(c) => BacklogOK(c)'
    <3>1. \A b \in client[c].backlog : b \in Nat /\ b < n
      BY <2>1, <2>2 DEF StreamOK
    <3>2. n \in Nat
      BY <1>1
    <3>3. \A b \in client[c].backlog : ~(n <= b)
      BY <3>1, <3>2
    <3>4. QED
      BY <1>8, <2>2, <3>3 DEF BacklogOK, browsers
  <2>6. QueueOK(c) => QueueOK(c)'
    <3>1. SUFFICES ASSUME ~Occurs(Resync, sub[c].queue), NEW i \in DOMAIN sub[c].queue
                   PROVE  ~(n <= sub[c].queue[i])
      BY <1>8, <2>2 DEF QueueOK, Current, Coming, dispatcher, browsers
    <3>2. sub[c].queue[i] \in Addressed(c)
      BY <2>1, <3>1 DEF StreamOK, Occurs
    <3>3. QED
      BY <1>1, <2>2, <3>2
  <2>7. HonestOK(c) => HonestOK(c)'
    <3>1. ~(n <= client[c].cursor)
      BY <1>1, <2>3
    <3>2. QED
      BY <1>8, <2>2, <3>1 DEF HonestOK, browsers
  <2>8. CoveredOK(c) => CoveredOK(c)'
    <3>1. SUFFICES ASSUME Current(c), Covered(c)
                   PROVE  Covered(c)'
      BY <1>8 DEF CoveredOK, Current, browsers
    <3>2. Signalled(c)' <=> Signalled(c)
      BY <1>8 DEF Signalled, dispatcher, browsers
    <3>3. \A m : Owed(c, m)' <=> Owed(c, m)
      BY <1>8 DEF Owed, Live, dispatcher, browsers
    <3>4. Owed(c, n) \/ Signalled(c)
      <4>1. CASE ~sub[c].registered
        <5>1. sub[c].queue = <<Resync>>
          BY <2>1, <3>1, <4>1 DEF StreamOK, Current
        <5>2. Occurs(Resync, <<Resync>>)
          BY DEF Occurs
        <5>3. QED
          BY <5>1, <5>2 DEF Signalled
      <4>2. CASE sub[c].registered /\ dstate = "gap"
        BY <2>1, <4>2 DEF StreamOK, Signalled
      <4>3. CASE sub[c].registered /\ dstate # "gap"
        <5>1. dstate \in Live
          BY <2>1, <4>3, TypesInParts DEF StreamOK, IInv, DispatcherTypes
        <5>2. offering => page # {}
          BY <1>1 DEF DispatcherInv
        <5>3. page \in SUBSET Nat
          BY <1>10
        <5>4. offering => First(page) # n
          BY <1>10, <5>2, <5>3, FirstExists
        <5>5. QED
          BY <1>1, <1>9, <4>3, <5>1, <5>4 DEF Owed
      <4>4. QED
        BY <4>1, <4>2, <4>3
    <3>5. QED
      BY <1>8, <2>2, <3>1, <3>2, <3>3, <3>4 DEF Covered, browsers
  <2>9. QED
    BY <1>8, <2>1, <2>4, <2>5, <2>6, <2>7, <2>8 DEF BrowserOK, browsers
<1>14. BrowsersInv'
  BY <1>13 DEF BrowsersInv, Clients
<1>15. QED
  BY <1>4, <1>6, <1>7, <1>11, <1>14, TypesInPartsNext DEF IInv

-----------------------------------------------------------------------------
(* The dispatcher.                                                         *)

LEMMA ReadHighWatermarkStep ==
  ASSUME IInv, ReadHighWatermark
  PROVE  IInv'
<1>1. StoreTypes /\ DispatcherTypes /\ NumberingInv /\ DispatcherInv /\ BrowsersInv /\ LastDurable \in Nat
      /\ counter \in 0 .. MaxEvents /\ LastDurable <= counter /\ MaxEvents \in Nat
  BY TypesInParts, DurableNumbers, BoundsAssumption DEF IInv, StoreTypes
<1>2. HighWatermark \in 0 .. LastDurable
  <2>1. LastDurable \in Visible \union {0} /\ \A e \in Visible : e <= LastDurable
    BY <1>1 DEF NumberingInv
  <2>2. HighWatermark \in Visible \union {0}
    BY <2>1 DEF HighWatermark
  <2>3. QED
    BY <1>1, <2>2 DEF NumberingInv
<1>3. DispatcherTypes'
  BY <1>1, <1>2 DEF ReadHighWatermark, DispatcherTypes, browsers, Live, Clients, Numbers
<1>4. Subscribed = {} /\ page = {} /\ ~offering /\ todo = {} /\ clearing = Nobody /\ ~dropped
  BY <1>1 DEF ReadHighWatermark, DispatcherInv, BrowsersInv, StreamOK, Subscribed
<1>5. DispatcherInv'
  <2>1. LastDurable' = LastDurable /\ Visible' = Visible
    BY <1>1, StoreStays DEF ReadHighWatermark
  <2>2. QED
    BY <1>1, <1>2, <1>4, <2>1 DEF ReadHighWatermark, DispatcherInv, browsers, Subscribed, Clients
<1>6. \A c \in Clients : sub[c].latest = 0
  BY <1>1, <1>4 DEF BrowsersInv, StreamOK, Subscribed, NoSubscription
<1>7. QED
  BY <1>2, <1>3, <1>4, <1>5, <1>6, <1>1, TypesInParts, DispatcherMoves
     DEF ReadHighWatermark, IInv, BoundTypes

LEMMA ReadPageStep ==
  ASSUME IInv, ReadPage
  PROVE  IInv'
<1> DEFINE found == ReplayAfter(processed, ReplayLimit)
<1>1. StoreTypes /\ DispatcherTypes /\ NumberingInv /\ DispatcherInv /\ ReplayLimit \in Nat
  BY TypesInParts, BoundsAssumption DEF IInv
<1>2. /\ page' = found /\ drain' \in {"more", "last"} /\ dstate \in Live \union {"gap"}
      /\ page = {} /\ todo = {} /\ clearing = Nobody
      /\ UNCHANGED <<store, dstate, processed, offering, todo, clearing, browsers, failures, drops>>
  BY DEF ReadPage, Idle
<1>3. /\ \A e \in found : e \in Visible /\ processed < e /\ e <= processed + ReplayLimit
      /\ \A e \in Visible : processed < e /\ e <= processed + ReplayLimit => e \in found
  BY <1>1, ReplayedInterval DEF IInv, DispatcherInv
<1> HIDE DEF found
<1>4. ~offering
  BY <1>1, <1>2 DEF DispatcherInv
<1>5. DispatcherTypes'
  BY <1>1, <1>2, <1>3 DEF DispatcherTypes, StoreTypes, browsers, Live, Clients, Numbers
<1>6. LastDurable' = LastDurable /\ Visible' = Visible /\ LastDurable \in Nat
  BY <1>1, <1>2, StoreStays, DurableNumbers DEF IInv
<1>7. \A e \in found, n \in Visible : processed < n /\ n < e => n \in found
  <2>1. processed \in Nat /\ \A n \in Visible : n \in Nat
    BY <1>1, <1>6 DEF DispatcherInv, NumberingInv
  <2>2. QED
    BY <1>1, <1>3, <2>1
<1>8. DispatcherInv'
  BY <1>1, <1>2, <1>3, <1>4, <1>6, <1>7 DEF DispatcherInv, browsers, Subscribed, Clients, Live
<1>9. \A c \in Clients, n \in Visible : Owed(c, n) => Owed(c, n)'
  BY <1>2, <1>4 DEF Owed, browsers, Live
<1>10. \A c \in Subscribed : dstate # "starting" /\ (dstate = "gap" => Occurs(Resync, sub[c].queue))
  <2>1. Nobody \notin Clients
    BY ClientsAssumption DEF Clients
  <2>2. QED
    BY <1>2, <2>1 DEF IInv, BrowsersInv, StreamOK, Subscribed
<1>11. BoundTypes' /\ Subscribed \subseteq Clients
  BY <1>2, TypesInParts DEF IInv, BoundTypes, Subscribed
<1>12. QED
  BY <1>2, <1>4, <1>5, <1>8, <1>9, <1>10, <1>11, DispatcherMoves

LEMMA PublishStep ==
  ASSUME IInv, Publish
  PROVE  IInv'
<1>1. StoreTypes /\ DispatcherTypes /\ NumberingInv /\ DispatcherInv
  BY TypesInParts DEF IInv
<1>2. /\ page # {} /\ dstate \in Live /\ ~offering /\ offering' = TRUE /\ todo' = Subscribed
      /\ UNCHANGED <<store, dstate, processed, page, drain, clearing, browsers, failures, drops>>
  BY DEF Publish
<1>3. todo = {} /\ clearing = Nobody /\ dstate # "gap" /\ dstate # "starting" /\ Subscribed \subseteq Clients
  BY <1>1, <1>2 DEF DispatcherInv, Live, Subscribed
<1>4. DispatcherTypes'
  BY <1>1, <1>2, <1>3 DEF DispatcherTypes, browsers, Live, Clients, Numbers
<1>5. LastDurable' = LastDurable /\ Visible' = Visible
  BY <1>1, <1>2, StoreStays
<1>6. DispatcherInv'
  BY <1>1, <1>2, <1>3, <1>5 DEF DispatcherInv, browsers, Subscribed, Clients
<1>7. \A c \in Subscribed, n \in Visible : Owed(c, n) => Owed(c, n)'
  BY <1>2 DEF Owed, browsers, Live
<1>8. BoundTypes'
  BY <1>2, TypesInParts DEF IInv, BoundTypes
<1>9. QED
  BY <1>2, <1>3, <1>4, <1>6, <1>7, <1>8, DispatcherMoves

LEMMA AdvanceStep ==
  ASSUME IInv, Advance
  PROVE  IInv'
<1> DEFINE n == First(page)
<1>1. StoreTypes /\ DispatcherTypes /\ NumberingInv /\ DispatcherInv /\ BrowsersInv
  BY TypesInParts DEF IInv
<1>2. /\ page # {} /\ todo = {} /\ clearing = Nobody /\ (dstate = "gap" \/ offering)
      /\ processed' = n /\ page' = page \ {n} /\ offering' = FALSE
      /\ UNCHANGED <<store, dstate, drain, todo, clearing, browsers, failures, drops>>
  BY DEF Advance
<1>3. LastDurable' = LastDurable /\ Visible' = Visible /\ LastDurable \in Nat
      /\ \A m \in Visible : m \in Nat /\ m <= LastDurable
  BY <1>1, <1>2, StoreStays, DurableNumbers DEF IInv
<1>4. page \in SUBSET Nat /\ processed \in Nat
  BY <1>1, <1>3 DEF DispatcherInv
<1>5. n \in page /\ (\A m \in page : n <= m) /\ n \in Nat
  BY <1>2, <1>4, FirstExists
<1> HIDE DEF n
<1>6. processed < n /\ n \in Visible
  BY <1>1, <1>5 DEF DispatcherInv
<1>7. \A m \in Visible : processed < m => n <= m
  BY <1>1, <1>3, <1>5 DEF DispatcherInv
<1>8. DispatcherTypes'
  <2>1. n \in 0 .. MaxEvents /\ page \ {n} \subseteq Numbers
    BY <1>1, <1>5, BoundsAssumption DEF DispatcherTypes, Numbers
  <2>2. QED
    BY <1>1, <1>2, <2>1 DEF DispatcherTypes, browsers, Live, Clients, Numbers
<1>9. DispatcherInv'
  <2>1. \A e \in page' : e \in Visible /\ n < e
    BY <1>1, <1>2, <1>3, <1>5 DEF DispatcherInv
  <2>2. \A e \in page', m \in Visible : n < m /\ m < e => m \in page'
    BY <1>1, <1>2, <1>3, <1>4, <1>5, <1>6 DEF DispatcherInv
  <2>3. n \in 0 .. LastDurable
    BY <1>3, <1>5, <1>6
  <2>4. QED
    BY <1>1, <1>2, <1>3, <2>1, <2>2, <2>3 DEF DispatcherInv, browsers, Subscribed, Clients
<1>10. \A c \in Subscribed, m \in Visible : Owed(c, m) => Owed(c, m)'
  <2>1. SUFFICES ASSUME NEW c \in Subscribed, NEW m \in Visible, Owed(c, m)
                 PROVE  n < m /\ dstate \in Live
    BY <1>2 DEF Owed, browsers, Live
  <2>2. dstate \in Live /\ processed < m
    BY <2>1, <1>3, <1>4 DEF Owed
  <2>3. m # n
    BY <1>1, <1>2, <2>1, <2>2 DEF Owed, Live, n
  <2>4. QED
    BY <1>3, <1>5, <1>7, <2>2, <2>3
<1>11. \A c \in Clients : sub[c].latest <= processed \/ sub[c].latest = n => sub[c].latest <= processed'
  <2>1. \A c \in Clients : sub[c].latest \in Nat
    BY TypesInParts DEF IInv, BrowserTypes, SubscriptionStates
  <2>2. QED
    BY <1>2, <1>4, <1>5, <1>6, <2>1
<1>12. \A c \in Subscribed : dstate # "starting" /\ (dstate = "gap" => Occurs(Resync, sub[c].queue))
  <2>1. Nobody \notin Clients
    BY ClientsAssumption DEF Clients
  <2>2. QED
    BY <1>1, <1>2, <2>1 DEF BrowsersInv, StreamOK, Subscribed
<1>13. BoundTypes' /\ Subscribed \subseteq Clients
  BY <1>2, TypesInParts DEF IInv, BoundTypes, Subscribed
<1>14. QED
  BY <1>2, <1>8, <1>9, <1>10, <1>11, <1>12, <1>13, DispatcherMoves DEF n

LEMMA FinishDrainStep ==
  ASSUME IInv, FinishDrain
  PROVE  IInv'
<1>1. StoreTypes /\ DispatcherTypes /\ NumberingInv /\ DispatcherInv /\ BrowsersInv
  BY TypesInParts DEF IInv
<1>2. /\ page = {} /\ todo = {} /\ clearing = Nobody /\ drain' = "idle"
      /\ dstate' = IF dstate = "gap" THEN "ready" ELSE dstate
      /\ UNCHANGED <<store, processed, page, offering, todo, clearing, browsers, failures, drops>>
  BY DEF FinishDrain, Idle
<1>3. DispatcherTypes'
  BY <1>1, <1>2 DEF DispatcherTypes, browsers, Live, Clients, Numbers
<1>4. LastDurable' = LastDurable /\ Visible' = Visible
  BY <1>1, <1>2, StoreStays
<1>5. DispatcherInv'
  BY <1>1, <1>2, <1>4 DEF DispatcherInv, browsers, Subscribed, Clients
<1>6. \A c \in Subscribed, n \in Visible : Owed(c, n) => Owed(c, n)'
  BY <1>2 DEF Owed, browsers, Live
<1>7. dstate' # "gap" /\ \A c \in Subscribed : dstate' # "starting"
  BY <1>1, <1>2 DEF BrowsersInv, StreamOK, Subscribed
<1>8. BoundTypes'
  BY <1>2, TypesInParts DEF IInv, BoundTypes
<1>9. QED
  BY <1>2, <1>3, <1>5, <1>6, <1>7, <1>8, DispatcherMoves

\* An outage puts every open subscription on the list of those to be told.
LEMMA StoreFailsStep ==
  ASSUME IInv, StoreFails
  PROVE  IInv'
<1>1. StoreTypes /\ DispatcherTypes /\ NumberingInv /\ DispatcherInv /\ MaxFailures \in Nat
      /\ BoundTypes
  BY TypesInParts, BoundsAssumption DEF IInv
<1>2. /\ page = {} /\ todo = {} /\ clearing = Nobody /\ dstate' = "gap" /\ drain' = "idle"
      /\ todo' = Subscribed /\ failures < MaxFailures /\ failures' = failures + 1
      /\ dstate \in Live \union {"gap"}
      /\ UNCHANGED <<store, processed, page, offering, clearing, browsers, drops>>
  BY DEF StoreFails, Idle
<1>3. ~offering /\ Subscribed \subseteq Clients
  BY <1>1, <1>2 DEF DispatcherInv, Subscribed
<1>4. DispatcherTypes'
  BY <1>1, <1>2, <1>3 DEF DispatcherTypes, browsers, Live, Clients, Numbers
<1>5. LastDurable' = LastDurable /\ Visible' = Visible
  BY <1>1, <1>2, StoreStays
<1>6. DispatcherInv'
  BY <1>1, <1>2, <1>3, <1>5 DEF DispatcherInv, browsers, Subscribed, Clients, Live
<1>7. BoundTypes'
  BY <1>1, <1>2 DEF BoundTypes
<1>8. QED
  BY <1>2, <1>3, <1>4, <1>6, <1>7, DispatcherMoves

LEMMA SourceSteps ==
  ASSUME IInv, SourceFails \/ SourceReady
  PROVE  IInv'
<1>1. StoreTypes /\ DispatcherTypes /\ NumberingInv /\ DispatcherInv
  BY TypesInParts DEF IInv
<1>2. /\ dstate \in Live /\ dstate' \in Live
      /\ UNCHANGED <<store, processed, page, drain, offering, todo, clearing, browsers, failures, drops>>
  BY DEF SourceFails, SourceReady, Live
<1>3. DispatcherTypes'
  BY <1>1, <1>2 DEF DispatcherTypes, browsers, Live, Clients, Numbers
<1>4. LastDurable' = LastDurable /\ Visible' = Visible
  BY <1>1, <1>2, StoreStays
<1>5. dstate # "starting" /\ dstate # "gap" /\ dstate' # "starting" /\ dstate' # "gap"
  BY <1>2 DEF Live
<1>6. DispatcherInv'
  BY <1>1, <1>2, <1>4, <1>5 DEF DispatcherInv, browsers, Subscribed, Clients
<1>7. \A c \in Subscribed, n \in Visible : Owed(c, n) => Owed(c, n)'
  BY <1>2 DEF Owed, browsers, Live
<1>8. BoundTypes'
  BY <1>2, TypesInParts DEF IInv, BoundTypes
<1>9. QED
  BY <1>2, <1>3, <1>5, <1>6, <1>7, <1>8, DispatcherMoves

-----------------------------------------------------------------------------
(* The subscriptions.                                                      *)

\* What every step of one stream needs to know of it.
LEMMA StreamFacts ==
  ASSUME IInv, NEW c \in Clients
  PROVE  /\ sub[c] \in SubscriptionStates /\ client[c] \in ClientStates
         /\ sub[c].queue \in Seq(0 .. MaxEvents) /\ Len(sub[c].queue) <= QueueCapacity
         /\ sub[c].latest \in 0 .. MaxEvents /\ sub[c].registered \in BOOLEAN
         /\ StreamOK(c) /\ (c \notin torn => BrowserOK(c))
         /\ sub = [sub EXCEPT ![c] = sub[c]] /\ client = [client EXCEPT ![c] = client[c]]
         /\ sub \in [Clients -> SubscriptionStates] /\ client \in [Clients -> ClientStates]
         /\ c # Nobody /\ MaxEvents \in Nat /\ QueueCapacity \in Nat \ {0}
         /\ Resync \in 0 .. MaxEvents
         /\ StoreTypes /\ DispatcherTypes /\ BrowserTypes /\ BoundTypes /\ NumberingInv /\ DispatcherInv
         /\ torn \subseteq Clients
<1>1. StoreTypes /\ DispatcherTypes /\ BrowserTypes /\ BoundTypes
  BY TypesInParts DEF IInv
<1>2. c # Nobody /\ MaxEvents \in Nat /\ QueueCapacity \in Nat \ {0}
  BY ClientsAssumption, BoundsAssumption DEF Clients
<1>3. /\ sub \in [Clients -> SubscriptionStates] /\ client \in [Clients -> ClientStates]
      /\ Len(sub[c].queue) <= QueueCapacity /\ torn \subseteq Clients
  BY <1>1 DEF BrowserTypes
<1>4. /\ sub[c].queue \in Seq(0 .. MaxEvents)
      /\ sub[c].latest \in 0 .. MaxEvents /\ sub[c].registered \in BOOLEAN
  BY <1>3 DEF SubscriptionStates, Queues
<1>5. QED
  BY <1>1, <1>2, <1>3, <1>4 DEF IInv, BrowsersInv, Resync

LEMMA RequireResyncStep ==
  ASSUME IInv, NEW c \in Clients, RequireResync(c)
  PROVE  IInv'
<1>1. /\ dstate = "gap" /\ clearing = Nobody /\ c \in todo /\ todo' = todo \ {c} /\ clearing' = c
      /\ UNCHANGED <<store, dstate, processed, page, drain, offering, browsers, failures, drops>>
  BY DEF RequireResync
<1>2. LastDurable' = LastDurable /\ Visible' = Visible /\ Addressed(c)' = Addressed(c)
  BY <1>1, StreamFacts, StoreStays
<1>3. ~dropped /\ c \in Subscribed /\ ~offering
  BY <1>1, StreamFacts DEF DispatcherInv
<1>4. DispatcherTypes' /\ BoundTypes'
  BY <1>1, StreamFacts DEF DispatcherTypes, BoundTypes, browsers, Live, Clients, Numbers
<1>5. DispatcherInv'
  BY <1>1, <1>2, <1>3, StreamFacts DEF DispatcherInv, browsers, Subscribed, Clients
<1>6. StreamOK(c)'
  BY <1>1, <1>2, <1>3, StreamFacts DEF StreamOK, browsers, Subscribed
<1>7. c \notin torn' => BrowserOK(c)'
  <2>1. BacklogOK(c) => BacklogOK(c)'
    BY <1>1, <1>2 DEF BacklogOK, browsers
  <2>2. QueueOK(c) => QueueOK(c)'
    BY <1>1, <1>2, <1>3 DEF QueueOK, browsers, Current, Coming
  <2>3. HonestOK(c) => HonestOK(c)'
    BY <1>1, <1>2 DEF HonestOK, browsers
  <2>4. CoveredOK(c)'
    BY <1>1 DEF CoveredOK, Covered, Signalled
  <2>5. QED
    BY <1>1, <2>1, <2>2, <2>3, <2>4, StreamFacts DEF BrowserOK, browsers
<1>8. /\ sub' = [sub EXCEPT ![c] = sub[c]] /\ client' = [client EXCEPT ![c] = client[c]]
      /\ torn' = torn /\ dropped' = dropped
  BY <1>1, StreamFacts DEF browsers
<1>9. \A d \in Clients \ {c} :
        (clearing' = d <=> clearing = d) /\ (dropped' /\ clearing' = d <=> dropped /\ clearing = d)
  BY <1>1, <1>8, StreamFacts
<1>10. /\ sub[c] \in SubscriptionStates /\ client[c] \in ClientStates /\ torn \subseteq Clients
       /\ Len(sub[c].queue) <= QueueCapacity
  BY StreamFacts
<1>11. UNCHANGED <<store, dstate, processed, page, drain, offering>> /\ todo' \ {c} = todo \ {c}
  BY <1>1
<1>12. QED
  BY <1>4, <1>5, <1>6, <1>7, <1>8, <1>9, <1>10, <1>11, StreamMoves

\* An offer queues the event as the last one, or finds the queue full and
\* begins to empty it; an event that is refused does not concern the browser.
LEMMA OfferStep ==
  ASSUME IInv, NEW c \in Clients, Offer(c)
  PROVE  IInv'
<1> DEFINE n == First(page)
           accepted == Permits(c, events[n]) /\ n > sub[c].latest
           full == Len(sub[c].queue) = QueueCapacity
           s == IF ~accepted THEN sub[c]
                ELSE [sub[c] EXCEPT !.latest = n,
                                    !.queue = IF full THEN @ ELSE Append(@, n)]
<1>1. /\ offering /\ clearing = Nobody /\ c \in todo /\ todo' = todo \ {c}
      /\ clearing' = IF accepted /\ full THEN c ELSE Nobody
      /\ UNCHANGED <<store, dstate, processed, page, drain, offering, client, dropped, torn, failures, drops>>
  BY DEF Offer
<1>2. sub' = [sub EXCEPT ![c] = s]
  BY StreamFacts DEF Offer
<1>3. LastDurable' = LastDurable /\ Visible' = Visible /\ Addressed(c)' = Addressed(c)
  BY <1>1, StreamFacts, StoreStays
<1>4. /\ ~dropped /\ c \in Subscribed /\ page # {} /\ dstate # "gap" /\ dstate # "starting"
  BY <1>1, StreamFacts DEF DispatcherInv
<1>5. page \in SUBSET Nat /\ page \subseteq Visible /\ page \subseteq Numbers
  BY StreamFacts, DurableNumbers DEF DispatcherInv, IInv, DispatcherTypes
<1>6. /\ n \in page /\ (\A m \in page : n <= m) /\ n \in Nat /\ n \in Visible /\ n \in 0 .. MaxEvents
      /\ n # Resync
  <2>1. n \in page /\ \A m \in page : n <= m
    BY <1>4, <1>5, FirstExists
  <2>2. n \in 1 .. MaxEvents /\ MaxEvents \in Nat
    BY <1>5, <2>1, BoundsAssumption DEF Numbers
  <2> HIDE DEF n
  <2>3. QED
    BY <1>5, <2>1, <2>2 DEF Resync
<1>7. processed < n /\ processed \in Nat /\ \A m \in Visible : processed < m => n <= m
  <2>1. processed < n /\ processed \in Nat
    BY <1>6, StreamFacts DEF DispatcherInv, DispatcherTypes
  <2>2. \A m \in Visible : m \in Nat
    BY DurableNumbers DEF IInv
  <2>3. QED
    BY <1>6, <2>1, <2>2, StreamFacts DEF DispatcherInv
<1>8. sub[c].latest <= processed /\ sub[c].latest < n /\ sub[c].latest \in Nat
  <2>1. sub[c].latest <= processed /\ sub[c].latest \in Nat
    BY <1>1, StreamFacts DEF StreamOK
  <2>2. QED
    BY <1>6, <1>7, <2>1
<1>9. accepted <=> n \in Addressed(c)
  BY <1>6, <1>8 DEF Addressed
<1>10. /\ s \in SubscriptionStates /\ Len(s.queue) <= QueueCapacity /\ s.registered = sub[c].registered
       /\ s.latest = IF accepted THEN n ELSE sub[c].latest
       /\ s.queue = IF accepted /\ ~full THEN Append(sub[c].queue, n) ELSE sub[c].queue
  <2> DEFINE longer == Append(sub[c].queue, n)
  <2>1. longer \in Queues /\ Len(longer) = Len(sub[c].queue) + 1
    BY <1>6, StreamFacts, EndAdded DEF Queues
  <2>2. Len(sub[c].queue) \in Nat
    BY StreamFacts
  <2> HIDE DEF longer
  <2>3. CASE accepted /\ ~full
    <3>1. s = [sub[c] EXCEPT !.latest = n, !.queue = longer]
      BY <2>3 DEF longer
    <3>2. Len(longer) <= QueueCapacity
      BY <2>1, <2>2, <2>3, StreamFacts
    <3>3. s \in SubscriptionStates
      BY <1>6, <2>1, <3>1, StreamFacts DEF SubscriptionStates
    <3>4. s.queue = longer /\ s.latest = n /\ s.registered = sub[c].registered
      BY <3>1, StreamFacts DEF SubscriptionStates
    <3> HIDE DEF s
    <3>5. QED
      BY <2>3, <3>2, <3>3, <3>4 DEF longer
  <2>4. CASE accepted /\ full
    <3>1. s = [sub[c] EXCEPT !.latest = n, !.queue = sub[c].queue]
      BY <2>4
    <3>2. QED
      BY <1>6, <2>4, <3>1, StreamFacts DEF SubscriptionStates
  <2>5. CASE ~accepted
    BY <2>5, StreamFacts
  <2>6. QED
    BY <2>3, <2>4, <2>5
<1>11. sub'[c] = s /\ \A d \in Clients \ {c} : sub'[d] = sub[d]
  BY <1>2, StreamFacts
<1> HIDE DEF n, s, full, accepted
<1>12. DispatcherTypes' /\ BoundTypes'
  BY <1>1, StreamFacts DEF DispatcherTypes, BoundTypes, Live, Clients, Numbers
<1>13. Subscribed' = Subscribed
  BY <1>10, <1>11 DEF Subscribed, Clients
<1>14. DispatcherInv'
  BY <1>1, <1>3, <1>4, <1>13, StreamFacts DEF DispatcherInv
<1>15. /\ accepted /\ ~full =>
            /\ \A i \in DOMAIN s.queue : i \in Nat /\ ((i \in DOMAIN sub[c].queue /\ s.queue[i] = sub[c].queue[i])
                                         \/ (i = Len(sub[c].queue) + 1 /\ s.queue[i] = n))
            /\ \A i \in DOMAIN sub[c].queue : i <= Len(sub[c].queue)
            /\ \A m : Occurs(m, s.queue) <=> m = n \/ Occurs(m, sub[c].queue)
       /\ ~(accepted /\ ~full) => s.queue = sub[c].queue
  BY <1>6, <1>10, StreamFacts, EndAdded
<1>16. \A i \in DOMAIN sub[c].queue : sub[c].queue[i] < n /\ i \in Nat /\ sub[c].queue[i] \in Nat
  <2>1. SUFFICES ASSUME NEW i \in DOMAIN sub[c].queue
                 PROVE  sub[c].queue[i] < n /\ i \in Nat /\ sub[c].queue[i] \in Nat
    OBVIOUS
  <2>2. sub[c].queue[i] \in 0 .. MaxEvents /\ i \in Nat
    BY <2>1, StreamFacts
  <2>3. sub[c].queue[i] = 0 \/ sub[c].queue[i] <= sub[c].latest
    BY <2>1, StreamFacts DEF StreamOK, Resync
  <2>4. QED
    BY <1>6, <1>7, <1>8, <2>2, <2>3
<1>17. StreamOK(c)'
  <2>1. \A i, j \in DOMAIN s.queue : i < j => s.queue[i] < s.queue[j]
    <3>1. CASE accepted /\ ~full
      <4>1. SUFFICES ASSUME NEW i \in DOMAIN s.queue, NEW j \in DOMAIN s.queue, i < j
                     PROVE  s.queue[i] < s.queue[j]
        OBVIOUS
      <4>2. i \in DOMAIN sub[c].queue /\ s.queue[i] = sub[c].queue[i]
        BY <3>1, <4>1, <1>15, StreamFacts
      <4>3. QED
        BY <3>1, <4>1, <4>2, <1>15, <1>16, StreamFacts DEF StreamOK
    <3>2. QED
      BY <3>1, <1>15, StreamFacts DEF StreamOK
  <2>2. \A i \in DOMAIN s.queue :
          s.queue[i] # Resync => s.queue[i] \in Addressed(c) /\ s.queue[i] <= s.latest
    <3>1. CASE accepted
      BY <3>1, <1>6, <1>9, <1>10, <1>15, <1>16, StreamFacts DEF StreamOK
    <3>2. CASE ~accepted
      BY <3>2, <1>10, <1>15, StreamFacts DEF StreamOK
    <3>3. QED
      BY <3>1, <3>2
  <2>3. s.latest <= processed \/ (offering /\ s.latest = First(page) /\ c \notin todo')
    BY <1>1, <1>8, <1>10 DEF n
  <2>4. client[c].phase # "off" /\ sub[c].registered
    BY <1>4, StreamFacts DEF StreamOK, Subscribed, NoSubscription
  <2>5. /\ client'[c] = client[c] /\ sub'[c].registered /\ sub'[c].queue = s.queue
        /\ sub'[c].latest = s.latest /\ LastDurable' = LastDurable
        /\ dstate' # "gap" /\ dstate' # "starting" /\ Addressed(c)' = Addressed(c)
        /\ processed' = processed /\ page' = page /\ offering' = offering
    BY <1>1, <1>3, <1>4, <1>10, <1>11, <2>4
  <2>6. StreamOK(c)
    BY StreamFacts
  <2>7. QED
    BY <2>1, <2>2, <2>3, <2>4, <2>5, <2>6 DEF StreamOK
<1>18. c \notin torn' => BrowserOK(c)'
  <2>1. SUFFICES ASSUME c \notin torn
                 PROVE  BrowserOK(c)'
    BY <1>1
  <2>2. \A m : Occurs(m, sub[c].queue) => Occurs(m, s.queue)
    BY <1>15
  <2>3. BacklogOK(c)' /\ HonestOK(c)'
    BY <1>1, <1>3, <2>1, StreamFacts DEF BrowserOK, BacklogOK, HonestOK
  <2>4. CoveredOK(c)'
    <3>1. SUFFICES ASSUME Covered(c), NEW m \in Addressed(c)
                   PROVE  \/ m \in client[c].known \/ m \in client[c].backlog \/ Occurs(m, s.queue)
                          \/ Owed(c, m)' \/ Signalled(c)'
      BY <1>1, <1>3, <1>11, <2>1, StreamFacts DEF BrowserOK, CoveredOK, Covered, Current
    <3>2. Signalled(c) => Signalled(c)'
      BY <1>1, <1>4, <1>11, <2>2, StreamFacts DEF Signalled
    <3>3. Owed(c, m) /\ m # n => Owed(c, m)'
      BY <1>1, <1>10, <1>11 DEF Owed, Live, n
    <3>4. m = n => Occurs(m, s.queue) \/ Signalled(c)'
      BY <1>1, <1>9, <1>15, <3>1 DEF Signalled
    <3>5. QED
      BY <3>1, <3>2, <3>3, <3>4, <2>2 DEF Covered
  <2>5. QueueOK(c)'
    <3>1. SUFFICES ASSUME Current(c), ~client[c].signal, ~Occurs(Resync, s.queue),
                          NEW i \in DOMAIN s.queue, NEW m \in Addressed(c), m <= s.queue[i]
                   PROVE  m \in client[c].known \/ m \in client[c].backlog \/ Occurs(m, s.queue)
      BY <1>1, <1>3, <1>11 DEF QueueOK, Current, Coming
    <3>2. ~Occurs(Resync, sub[c].queue) /\ QueueOK(c) /\ Covered(c)
      BY <2>1, <2>2, <3>1, StreamFacts DEF BrowserOK, CoveredOK
    <3>3. CASE i \in DOMAIN sub[c].queue /\ s.queue[i] = sub[c].queue[i]
      BY <1>4, <2>2, <3>1, <3>2, <3>3 DEF QueueOK, Coming
    <3>4. CASE accepted /\ ~full /\ s.queue[i] = n
      <4>1. ~Signalled(c)
        BY <1>1, <1>4, <3>1, <3>2, StreamFacts DEF Signalled
      <4>2. Owed(c, m) => m = n
        <5>1. m \in Visible /\ m \in Nat
          BY <3>1, DurableNumbers DEF Addressed, IInv
        <5>2. QED
          BY <1>6, <1>7, <3>1, <3>4, <5>1 DEF Owed
      <4>3. QED
        BY <1>15, <2>2, <3>1, <3>2, <3>4, <4>1, <4>2 DEF Covered
    <3>5. QED
      BY <1>15, <3>1, <3>3, <3>4
  <2>6. QED
    BY <2>3, <2>4, <2>5 DEF BrowserOK
<1>19. \A d \in Clients \ {c} :
        (clearing' = d <=> clearing = d) /\ (dropped' /\ clearing' = d <=> dropped /\ clearing = d)
  <2>1. Nobody \notin Clients
    BY ClientsAssumption DEF Clients
  <2>2. QED
    BY <1>1, <2>1
<1>20. client' = [client EXCEPT ![c] = client[c]] /\ torn' = torn
  BY <1>1, StreamFacts
<1>21. QED
  BY <1>1, <1>2, <1>10, <1>12, <1>14, <1>17, <1>18, <1>19, <1>20, StreamMoves, StreamFacts

\* While a queue is emptied the browser counts as told.
LEMMA DropOneStep ==
  ASSUME IInv, NEW c \in Clients, clearing = c, DropOne
  PROVE  IInv'
<1> DEFINE s == [sub[c] EXCEPT !.queue = Tail(@)]
<1>1. c \notin todo /\ c \in Subscribed /\ c # Nobody
  BY StreamFacts DEF DispatcherInv
<1>2. /\ sub[c].queue # <<>> /\ dropped' = TRUE /\ sub' = [sub EXCEPT ![c] = s]
      /\ UNCHANGED <<store, dispatcher, client, torn, failures, drops>>
  BY <1>1, StreamFacts DEF DropOne
<1>3. c \in Clients /\ c \in Subscribed /\ c = clearing /\ clearing' = c /\ c # Nobody
  BY <1>1, <1>2, StreamFacts DEF dispatcher
<1>4. LastDurable' = LastDurable /\ Visible' = Visible /\ Addressed(c)' = Addressed(c)
  BY <1>2, <1>3, StreamFacts, StoreStays
<1>5. /\ Tail(sub[c].queue) \in Queues /\ Len(Tail(sub[c].queue)) = Len(sub[c].queue) - 1
      /\ \A i \in DOMAIN Tail(sub[c].queue) :
           i \in Nat /\ i + 1 \in DOMAIN sub[c].queue /\ Tail(sub[c].queue)[i] = sub[c].queue[i + 1]
  <2>1. sub[c].queue \in Seq(0 .. MaxEvents) /\ sub[c].queue # <<>>
    BY <1>2, StreamFacts
  <2>2. QED
    BY <2>1, HeadRead DEF Queues
<1>6. /\ s \in SubscriptionStates /\ s.queue = Tail(sub[c].queue)
      /\ s.registered = sub[c].registered /\ s.latest = sub[c].latest
  BY <1>3, <1>5, StreamFacts DEF SubscriptionStates
<1>7. Len(s.queue) <= QueueCapacity
  BY <1>3, <1>5, <1>6, StreamFacts
<1> HIDE DEF s
<1>8. sub'[c] = s /\ \A d \in Clients \ {c} : sub'[d] = sub[d]
  BY <1>2, <1>3, StreamFacts
<1>9. DispatcherTypes' /\ BoundTypes'
  BY <1>2, <1>3, StreamFacts DEF DispatcherTypes, BoundTypes, dispatcher, Live, Clients, Numbers
<1>10. Subscribed' = Subscribed
  BY <1>6, <1>8 DEF Subscribed, Clients
<1>11. DispatcherInv'
  BY <1>2, <1>3, <1>4, <1>10, StreamFacts DEF DispatcherInv, dispatcher
<1>12. StreamOK(c)'
  <2>1. StreamOK(c) /\ sub[c].registered
    BY <1>3, StreamFacts DEF Subscribed
  <2>2. \A i, j \in DOMAIN s.queue : i < j => s.queue[i] < s.queue[j]
    BY <1>5, <1>6, <2>1 DEF StreamOK
  <2>3. \A i \in DOMAIN s.queue :
          s.queue[i] # Resync => s.queue[i] \in Addressed(c) /\ s.queue[i] <= s.latest
    BY <1>5, <1>6, <2>1 DEF StreamOK
  <2>4. /\ client'[c] = client[c] /\ LastDurable' = LastDurable /\ Addressed(c)' = Addressed(c)
        /\ UNCHANGED <<dstate, processed, page, offering, todo, clearing>>
        /\ client[c].phase # "off"
    BY <1>2, <1>4, <2>1 DEF dispatcher, StreamOK, NoSubscription
  <2>5. QED
    BY <1>3, <1>6, <1>8, <2>1, <2>2, <2>3, <2>4 DEF StreamOK
<1>13. c \notin torn' => BrowserOK(c)'
  <2>1. BacklogOK(c) => BacklogOK(c)'
    BY <1>2, <1>4 DEF BacklogOK
  <2>2. QueueOK(c)'
    BY <1>2, <1>3 DEF QueueOK
  <2>3. HonestOK(c) => HonestOK(c)'
    BY <1>2, <1>4 DEF HonestOK
  <2>4. CoveredOK(c)'
    BY <1>3 DEF CoveredOK, Covered, Signalled
  <2>5. QED
    BY <1>2, <1>3, <2>1, <2>2, <2>3, <2>4, StreamFacts DEF BrowserOK
<1>14. client' = [client EXCEPT ![c] = client[c]] /\ client[c] \in ClientStates /\ torn' \subseteq Clients
  BY <1>2, <1>3, StreamFacts
<1>15. /\ \A d \in Clients \ {c} :
            (clearing' = d <=> clearing = d) /\ (dropped' /\ clearing' = d <=> dropped /\ clearing = d)
       /\ UNCHANGED <<store, dstate, processed, page, drain, offering>>
       /\ todo' = todo /\ torn' = torn
  BY <1>2, <1>3 DEF dispatcher
<1>16. QED
  BY <1>2, <1>3, <1>6, <1>7, <1>9, <1>11, <1>12, <1>13, <1>14, <1>15, StreamMoves

LEMMA PutSignalStep ==
  ASSUME IInv, NEW c \in Clients, clearing = c, PutSignal
  PROVE  IInv'
<1> DEFINE s == [sub[c] EXCEPT !.queue = <<Resync>>]
<1>1. c \notin todo /\ c \in Subscribed /\ c # Nobody
  BY StreamFacts DEF DispatcherInv
<1>2. /\ sub' = [sub EXCEPT ![c] = s] /\ clearing' = Nobody /\ dropped' = FALSE
      /\ UNCHANGED <<store, dstate, processed, page, drain, offering, todo, client, torn, failures, drops>>
  BY <1>1, StreamFacts DEF PutSignal
<1>3. c \in Clients /\ c \in Subscribed /\ c = clearing /\ c # Nobody /\ Nobody \notin Clients
  BY <1>1, StreamFacts, ClientsAssumption DEF Clients
<1>4. LastDurable' = LastDurable /\ Visible' = Visible /\ Addressed(c)' = Addressed(c)
  BY <1>2, <1>3, StreamFacts, StoreStays
<1>5. <<Resync>> \in Queues /\ Len(<<Resync>>) = 1
  BY <1>3, StreamFacts DEF Queues
<1>6. /\ s \in SubscriptionStates /\ s.queue = <<Resync>>
      /\ s.registered = sub[c].registered /\ s.latest = sub[c].latest
  BY <1>3, <1>5, StreamFacts DEF SubscriptionStates
<1>7. Len(s.queue) <= QueueCapacity
  BY <1>3, <1>5, <1>6, StreamFacts
<1> HIDE DEF s
<1>8. sub'[c] = s /\ \A d \in Clients \ {c} : sub'[d] = sub[d]
  BY <1>2, <1>3, StreamFacts
<1>9. DispatcherTypes' /\ BoundTypes'
  BY <1>2, <1>3, StreamFacts DEF DispatcherTypes, BoundTypes, Live, Clients, Numbers
<1>10. Subscribed' = Subscribed
  BY <1>6, <1>8 DEF Subscribed, Clients
<1>11. DispatcherInv'
  BY <1>2, <1>3, <1>4, <1>10, StreamFacts DEF DispatcherInv
<1>12. Occurs(Resync, s.queue)
  BY <1>5, <1>6 DEF Occurs
<1>13. StreamOK(c)'
  <2>1. StreamOK(c) /\ sub[c].registered
    BY <1>3, StreamFacts DEF Subscribed
  <2>2. /\ \A i, j \in DOMAIN s.queue : i < j => s.queue[i] < s.queue[j]
        /\ \A i \in DOMAIN s.queue : s.queue[i] = Resync
    BY <1>6
  <2>3. /\ client'[c] = client[c] /\ LastDurable' = LastDurable /\ Addressed(c)' = Addressed(c)
        /\ UNCHANGED <<dstate, processed, page, offering, todo>>
        /\ client[c].phase # "off"
    BY <1>2, <1>4, <2>1 DEF StreamOK, NoSubscription
  <2>4. QED
    BY <1>6, <1>8, <1>12, <2>1, <2>2, <2>3 DEF StreamOK
<1>14. c \notin torn' => BrowserOK(c)'
  <2>1. BacklogOK(c) => BacklogOK(c)'
    BY <1>2, <1>4 DEF BacklogOK
  <2>2. QueueOK(c)'
    BY <1>8, <1>12 DEF QueueOK
  <2>3. HonestOK(c) => HonestOK(c)'
    BY <1>2, <1>4 DEF HonestOK
  <2>4. CoveredOK(c)'
    BY <1>8, <1>12 DEF CoveredOK, Covered, Signalled
  <2>5. QED
    BY <1>2, <1>3, <2>1, <2>2, <2>3, <2>4, StreamFacts DEF BrowserOK
<1>15. client' = [client EXCEPT ![c] = client[c]] /\ client[c] \in ClientStates /\ torn' \subseteq Clients
  BY <1>2, <1>3, StreamFacts
<1>16. \A d \in Clients \ {c} :
         (clearing' = d <=> clearing = d) /\ (dropped' /\ clearing' = d <=> dropped /\ clearing = d)
  BY <1>2, <1>3
<1>17. QED
  BY <1>2, <1>3, <1>6, <1>7, <1>9, <1>11, <1>13, <1>14, <1>15, <1>16, StreamMoves

-----------------------------------------------------------------------------
(* Streams and browsers.                                                   *)

LEMMA ConnectStep ==
  ASSUME IInv, NEW c \in Clients, Connect(c)
  PROVE  IInv'
<1> DEFINE s == IF dstate \in Live THEN [NoSubscription EXCEPT !.registered = TRUE]
                ELSE [NoSubscription EXCEPT !.queue = <<Resync>>]
           k == [client[c] EXCEPT !.phase = "replaying"]
<1>1. /\ client[c].phase = "off" /\ sub' = [sub EXCEPT ![c] = s] /\ client' = [client EXCEPT ![c] = k]
      /\ UNCHANGED <<store, dispatcher, dropped, torn, failures, drops>>
  BY StreamFacts DEF Connect
<1>2. LastDurable' = LastDurable /\ Visible' = Visible /\ Addressed(c)' = Addressed(c)
  BY <1>1, StreamFacts, StoreStays
<1>3. <<Resync>> \in Queues /\ Len(<<Resync>>) = 1 /\ <<>> \in Queues /\ Len(<<>>) = 0 /\ 0 \in 0 .. MaxEvents
  BY StreamFacts DEF Queues
<1>4. /\ s \in SubscriptionStates /\ s.latest = 0 /\ (s.registered <=> dstate \in Live)
      /\ s.queue = IF dstate \in Live THEN <<>> ELSE <<Resync>>
  <2>1. CASE dstate \in Live
    <3>1. s = [registered |-> TRUE, queue |-> <<>>, latest |-> 0]
      BY <2>1 DEF NoSubscription
    <3>2. QED
      BY <1>3, <2>1, <3>1 DEF SubscriptionStates
  <2>2. CASE dstate \notin Live
    <3> DEFINE q == <<Resync>>
    <3>1. s = [registered |-> FALSE, queue |-> q, latest |-> 0]
      BY <2>2 DEF NoSubscription
    <3>2. q \in Queues
      BY <1>3
    <3> HIDE DEF q, s
    <3>3. s \in SubscriptionStates /\ s.latest = 0 /\ s.registered = FALSE /\ s.queue = q
      BY <1>3, <3>1, <3>2 DEF SubscriptionStates
    <3>4. QED
      BY <2>2, <3>3 DEF q
  <2>3. QED
    BY <2>1, <2>2
<1>5. Len(s.queue) <= QueueCapacity
  BY <1>3, <1>4, StreamFacts
<1>6. /\ k \in ClientStates /\ k.phase = "replaying" /\ k.cursor = client[c].cursor
      /\ k.backlog = client[c].backlog /\ k.signal = client[c].signal /\ k.known = client[c].known
  BY StreamFacts DEF ClientStates
<1> HIDE DEF s, k
<1>7. /\ sub'[c] = s /\ client'[c] = k /\ \A d \in Clients \ {c} : sub'[d] = sub[d]
  BY <1>1, StreamFacts
<1>8. StreamOK(c) /\ ~sub[c].registered /\ c \notin Subscribed
  BY <1>1, StreamFacts DEF StreamOK, NoSubscription, Subscribed
<1>9. DispatcherTypes' /\ BoundTypes'
  BY <1>1, StreamFacts DEF DispatcherTypes, BoundTypes, dispatcher, Live, Clients, Numbers
<1>10. Subscribed \subseteq Subscribed'
  BY <1>7, <1>8 DEF Subscribed, Clients
<1>11. DispatcherInv'
  BY <1>1, <1>2, <1>10, StreamFacts DEF DispatcherInv, dispatcher
<1>12. StreamOK(c)'
  <2>1. /\ \A i, j \in DOMAIN s.queue : i < j => s.queue[i] < s.queue[j]
        /\ \A i \in DOMAIN s.queue : s.queue[i] = Resync
    BY <1>4
  <2>2. 0 <= processed
    BY StreamFacts DEF DispatcherTypes
  <2>3. UNCHANGED <<dstate, processed, page, offering, todo, clearing>>
    BY <1>1 DEF dispatcher
  <2>4. dstate \in Live => dstate # "starting" /\ dstate # "gap"
    BY DEF Live
  <2>5. QED
    BY <1>1, <1>2, <1>4, <1>6, <1>7, <1>8, <2>1, <2>2, <2>3, <2>4 DEF StreamOK
<1>13. c \notin torn' => BrowserOK(c)'
  <2>1. BacklogOK(c)'
    BY <1>1, <1>6, <1>7, <1>8 DEF BacklogOK, StreamOK
  <2>2. QueueOK(c)' /\ CoveredOK(c)'
    BY <1>6, <1>7 DEF QueueOK, CoveredOK, Current
  <2>3. HonestOK(c) => HonestOK(c)'
    BY <1>2, <1>6, <1>7 DEF HonestOK
  <2>4. QED
    BY <1>1, <2>1, <2>2, <2>3, StreamFacts DEF BrowserOK
<1>14. /\ \A d \in Clients \ {c} :
            (clearing' = d <=> clearing = d) /\ (dropped' /\ clearing' = d <=> dropped /\ clearing = d)
       /\ UNCHANGED <<store, dstate, processed, page, drain, offering>>
       /\ todo' = todo /\ torn' = torn /\ torn' \subseteq Clients
  BY <1>1, StreamFacts DEF dispatcher
<1>15. QED
  BY <1>1, <1>4, <1>5, <1>6, <1>9, <1>11, <1>12, <1>13, <1>14, StreamMoves

\* A browser that reads on while its subscription stays as it is.
LEMMA BrowserReads ==
  ASSUME IInv, NEW c \in Clients,
         UNCHANGED <<store, dispatcher, sub, dropped, failures, drops>>,
         NEW k \in ClientStates, client' = [client EXCEPT ![c] = k],
         torn' \subseteq Clients, torn' \ {c} = torn \ {c},
         client[c].phase # "off", k.phase = "open",
         k.backlog \subseteq Addressed(c), k.cursor \in 0 .. LastDurable,
         c \notin torn' => BrowserOK(c)'
  PROVE  IInv'
<1>1. LastDurable' = LastDurable /\ Visible' = Visible /\ Addressed(c)' = Addressed(c)
  BY StreamFacts, StoreStays
<1>2. client'[c] = k /\ sub' = [sub EXCEPT ![c] = sub[c]] /\ sub'[c] = sub[c]
  BY StreamFacts
<1>3. DispatcherTypes' /\ BoundTypes'
  BY StreamFacts DEF DispatcherTypes, BoundTypes, dispatcher, Live, Clients, Numbers
<1>4. DispatcherInv'
  <2>1. Subscribed' = Subscribed
    BY DEF Subscribed, Clients
  <2>2. QED
    BY <1>1, <2>1, StreamFacts DEF DispatcherInv, dispatcher
<1>5. StreamOK(c)'
  BY <1>1, <1>2, StreamFacts DEF StreamOK, dispatcher
<1>6. /\ \A d \in Clients \ {c} :
           (clearing' = d <=> clearing = d) /\ (dropped' /\ clearing' = d <=> dropped /\ clearing = d)
      /\ UNCHANGED <<store, dstate, processed, page, drain, offering>> /\ todo' = todo
      /\ sub[c] \in SubscriptionStates /\ Len(sub[c].queue) <= QueueCapacity
  BY StreamFacts DEF dispatcher
<1>7. QED
  BY <1>2, <1>3, <1>4, <1>5, <1>6, StreamMoves

\* The backlog holds all that is durable past the cursor, or a signal follows
\* it; below the cursor everything is known.
LEMMA ReplayStep ==
  ASSUME IInv, NEW c \in Clients, Replay(c)
  PROVE  IInv'
<1> DEFINE k == [client[c] EXCEPT !.phase = "open", !.backlog = Backlog(c), !.signal = Exceeded(c),
                                  !.reload = MustReload(c)]
           window == ReplayAfter(client[c].cursor, ReplayLimit)
<1>1. /\ client[c].phase = "replaying" /\ client' = [client EXCEPT ![c] = k]
      /\ UNCHANGED <<store, dispatcher, sub, dropped, torn, failures, drops>>
  BY StreamFacts DEF Replay
<1>2. LastDurable' = LastDurable /\ Visible' = Visible /\ Addressed(c)' = Addressed(c)
  BY <1>1, StreamFacts, StoreStays
<1>3. client[c].cursor \in 0 .. LastDurable /\ LastDurable \in Nat /\ client[c].cursor \in Nat
      /\ \A n \in Visible : n \in Nat /\ n \in Numbers
  BY StreamFacts, DurableNumbers DEF StreamOK, IInv, StoreTypes
<1>4. /\ \A e \in window : e \in Visible /\ client[c].cursor < e /\ e <= client[c].cursor + ReplayLimit
      /\ \A e \in Visible : client[c].cursor < e /\ e <= client[c].cursor + ReplayLimit => e \in window
  BY <1>3, ReplayedInterval, BoundsAssumption DEF IInv
<1>5. client[c].cursor # 0 /\ ~Exceeded(c) => \A e \in Visible : client[c].cursor < e => e \in window
  BY <1>3, WindowHoldsAll DEF IInv, Exceeded
<1> HIDE DEF window
<1>6. /\ client[c].cursor = 0 => Backlog(c) = {}
      /\ client[c].cursor # 0 => Backlog(c) = {n \in window : Permits(c, events[n])}
  BY DEF Backlog, window
<1>7. Backlog(c) \subseteq Addressed(c) /\ Backlog(c) \subseteq Numbers
  BY <1>3, <1>4, <1>6 DEF Addressed
<1>8. /\ k \in ClientStates /\ k.phase = "open" /\ k.cursor = client[c].cursor /\ k.backlog = Backlog(c)
      /\ k.signal = Exceeded(c) /\ k.reload = MustReload(c) /\ k.known = client[c].known
  BY <1>7, StreamFacts DEF ClientStates, Exceeded, MustReload
<1> HIDE DEF k
<1>9. client'[c] = k
  BY <1>1, StreamFacts
<1>10. c \notin torn' => BrowserOK(c)'
  <2>1. SUFFICES ASSUME HonestOK(c)
                 PROVE  BrowserOK(c)'
    BY <1>1, StreamFacts DEF BrowserOK
  <2>2. HonestOK(c)'
    BY <1>2, <1>8, <1>9, <2>1 DEF HonestOK
  <2>3. BacklogOK(c)'
    <3>1. SUFFICES ASSUME client[c].cursor # 0, NEW b \in Backlog(c), NEW n \in Addressed(c), n <= b
                   PROVE  n \in client[c].known \/ n \in Backlog(c)
      BY <1>2, <1>6, <1>8, <1>9 DEF BacklogOK
    <3>2. n \in Visible /\ n \in Nat /\ Permits(c, events[n])
      BY <1>3, <3>1 DEF Addressed
    <3>3. CASE n <= client[c].cursor
      BY <2>1, <3>1, <3>3 DEF HonestOK
    <3>4. CASE client[c].cursor < n
      <4>1. b \in window /\ b \in Nat /\ ReplayLimit \in Nat
        BY <1>3, <1>4, <1>6, <3>1, BoundsAssumption
      <4>2. n <= client[c].cursor + ReplayLimit
        BY <1>3, <1>4, <3>1, <3>2, <4>1
      <4>3. QED
        BY <1>4, <1>6, <3>1, <3>2, <3>4, <4>2
    <3>5. QED
      BY <1>3, <3>2, <3>3, <3>4
  <2>4. ASSUME ~k.reload, ~k.signal, NEW n \in Addressed(c)
        PROVE  n \in k.known \/ n \in k.backlog
    <3>1. client[c].cursor # 0 /\ ~Exceeded(c)
      BY <1>8, <2>4 DEF MustReload
    <3>2. n \in Visible /\ n \in Nat /\ Permits(c, events[n])
      BY <1>3, <2>4 DEF Addressed
    <3>3. CASE n <= client[c].cursor
      BY <1>8, <2>1, <2>4, <3>1, <3>3 DEF HonestOK
    <3>4. CASE client[c].cursor < n
      BY <1>5, <1>6, <1>8, <3>1, <3>2, <3>4
    <3>5. QED
      BY <1>3, <3>2, <3>3, <3>4
  <2>5. QueueOK(c)'
    BY <1>2, <1>9, <2>4 DEF QueueOK, Current, Coming
  <2>6. CoveredOK(c)'
    BY <1>2, <1>9, <2>4 DEF CoveredOK, Covered, Current, Signalled
  <2>7. QED
    BY <2>2, <2>3, <2>5, <2>6 DEF BrowserOK
<1>11. torn' = torn /\ torn \subseteq Clients
  BY <1>1, StreamFacts
<1>12. QED
  BY <1>1, <1>3, <1>7, <1>8, <1>10, <1>11, BrowserReads

LEMMA SnapshotStep ==
  ASSUME IInv, NEW c \in Clients, Snapshot(c)
  PROVE  IInv'
<1> DEFINE k == [client[c] EXCEPT !.reload = FALSE, !.known = @ \union Addressed(c)]
<1>1. /\ client[c].phase = "open" /\ client' = [client EXCEPT ![c] = k] /\ torn' = torn \ {c}
      /\ UNCHANGED <<store, dispatcher, sub, dropped, failures, drops>>
  BY StreamFacts DEF Snapshot
<1>2. LastDurable' = LastDurable /\ Visible' = Visible /\ Addressed(c)' = Addressed(c)
  BY <1>1, StreamFacts, StoreStays
<1>3. Addressed(c) \subseteq Numbers
  BY StreamFacts DEF Addressed, StoreTypes
<1>4. /\ k \in ClientStates /\ k.phase = "open" /\ k.cursor = client[c].cursor
      /\ k.backlog = client[c].backlog /\ Addressed(c) \subseteq k.known
  BY <1>1, <1>3, StreamFacts DEF ClientStates
<1> HIDE DEF k
<1>5. client'[c] = k
  BY <1>1, StreamFacts
<1>6. BrowserOK(c)'
  BY <1>2, <1>4, <1>5 DEF BrowserOK, BacklogOK, QueueOK, Coming, HonestOK, CoveredOK, Covered
<1>7. torn' \subseteq Clients /\ torn' \ {c} = torn \ {c} /\ StreamOK(c)
  BY <1>1, StreamFacts
<1>8. k.backlog \subseteq Addressed(c) /\ k.cursor \in 0 .. LastDurable
  BY <1>4, <1>7 DEF StreamOK
<1>9. QED
  BY <1>1, <1>4, <1>6, <1>7, <1>8, BrowserReads

\* A stream that ends leaves no trace with the dispatcher, and the browser what
\* it has acknowledged.
LEMMA StreamEnds ==
  ASSUME IInv, NEW c \in Clients, Closed(c), UNCHANGED <<store, torn>>, BoundTypes',
         client[c].phase # "off",
         NEW k \in ClientStates, client' = [client EXCEPT ![c] = k],
         k.phase = "off", k.backlog = {}, ~k.signal, k.known = client[c].known,
         k.cursor \in {0, client[c].cursor}
  PROVE  IInv'
<1>1. /\ sub' = [sub EXCEPT ![c] = NoSubscription] /\ todo' = todo \ {c}
      /\ clearing' = IF clearing = c THEN Nobody ELSE clearing
      /\ dropped' = (dropped /\ clearing # c)
      /\ UNCHANGED <<dstate, processed, page, drain, offering>>
  BY DEF Closed
<1>2. LastDurable' = LastDurable /\ Visible' = Visible /\ Addressed(c)' = Addressed(c) /\ LastDurable \in Nat
  BY <1>1, StreamFacts, StoreStays, DurableNumbers DEF IInv
<1>3. NoSubscription \in SubscriptionStates /\ Len(NoSubscription.queue) <= QueueCapacity
  <2>1. <<>> \in Queues /\ Len(<<>>) = 0 /\ 0 \in 0 .. MaxEvents
    BY StreamFacts DEF Queues
  <2>2. QED
    BY <2>1, StreamFacts DEF NoSubscription, SubscriptionStates
<1>4. /\ sub'[c] = NoSubscription /\ client'[c] = k
      /\ \A d \in Clients \ {c} : sub'[d] = sub[d]
  BY <1>1, StreamFacts
<1>5. DispatcherTypes'
  BY <1>1, StreamFacts DEF DispatcherTypes, Live, Clients, Numbers
<1>6. Subscribed \ {c} \subseteq Subscribed'
  BY <1>4 DEF Subscribed, Clients
<1>7. DispatcherInv'
  BY <1>1, <1>2, <1>6, StreamFacts DEF DispatcherInv
<1>8. StreamOK(c)'
  <2>1. /\ NoSubscription.queue = <<>> /\ NoSubscription.latest = 0 /\ ~NoSubscription.registered
    BY DEF NoSubscription
  <2>2. processed' = processed /\ 0 <= processed
    BY <1>1, StreamFacts DEF DispatcherTypes
  <2>3. k.cursor \in 0 .. LastDurable
    BY <1>2, StreamFacts DEF StreamOK
  <2>4. QED
    BY <1>2, <1>4, <2>1, <2>2, <2>3 DEF StreamOK
<1>9. c \notin torn' => BrowserOK(c)'
  <2>1. BacklogOK(c)' /\ QueueOK(c)' /\ CoveredOK(c)'
    BY <1>4 DEF BacklogOK, QueueOK, CoveredOK, Current
  <2>2. HonestOK(c) => HonestOK(c)'
    BY <1>2, <1>4 DEF HonestOK
  <2>3. QED
    BY <2>1, <2>2, StreamFacts DEF BrowserOK
<1>10. \A d \in Clients \ {c} :
         (clearing' = d <=> clearing = d) /\ (dropped' /\ clearing' = d <=> dropped /\ clearing = d)
  <2>1. Nobody \notin Clients
    BY ClientsAssumption DEF Clients
  <2>2. QED
    BY <1>1, <2>1
<1>11. todo' \ {c} = todo \ {c} /\ torn' \ {c} = torn \ {c} /\ torn' \subseteq Clients
  BY <1>1, StreamFacts
<1>12. QED
  BY <1>1, <1>3, <1>5, <1>7, <1>8, <1>9, <1>10, <1>11, StreamMoves

LEMMA EndSteps ==
  ASSUME IInv, NEW c \in Clients, DeliverSignal(c) \/ Disconnect(c)
  PROVE  IInv'
<1> DEFINE k == Off(client[c])
           l == [Off(client[c]) EXCEPT !.cursor = 0]
<1>1. /\ k \in ClientStates /\ k.phase = "off" /\ k.backlog = {} /\ ~k.signal
      /\ k.known = client[c].known /\ k.cursor = client[c].cursor
  BY StreamFacts DEF ClientStates, Off
<1>2. /\ l \in ClientStates /\ l.phase = "off" /\ l.backlog = {} /\ ~l.signal
      /\ l.known = client[c].known /\ l.cursor = 0
  <2>1. l = [k EXCEPT !.cursor = 0] /\ 0 \in 0 .. MaxEvents
    BY StreamFacts
  <2> HIDE DEF k, l
  <2>2. QED
    BY <1>1, <2>1 DEF ClientStates
<1>3. CASE DeliverSignal(c)
  <2>1. /\ client[c].phase # "off" /\ client' = [client EXCEPT ![c] = l] /\ Closed(c)
        /\ UNCHANGED <<store, torn, failures, drops>>
    BY <1>3, StreamFacts DEF DeliverSignal
  <2>2. BoundTypes'
    BY <2>1, StreamFacts DEF BoundTypes
  <2> HIDE DEF l
  <2>3. QED
    BY <1>2, <2>1, <2>2, StreamEnds
<1>4. CASE Disconnect(c)
  <2>1. /\ client[c].phase # "off" /\ client' = [client EXCEPT ![c] = k] /\ Closed(c)
        /\ UNCHANGED <<store, torn, failures>> /\ drops < MaxDrops /\ drops' = drops + 1
    BY <1>4, StreamFacts DEF Disconnect
  <2>2. BoundTypes'
    BY <2>1, StreamFacts, BoundsAssumption DEF BoundTypes
  <2> HIDE DEF k
  <2>3. QED
    BY <1>1, <2>1, <2>2, StreamEnds
<1>5. QED
  BY <1>3, <1>4

\* What a browser keeps when it receives an event.
LEMMA ReceivedState ==
  ASSUME IInv, NEW c \in Clients, NEW n \in Addressed(c), HonestOK(c) \/ c \in torn
  PROVE  /\ Received(c, n) \in ClientStates
         /\ Received(c, n).phase = client[c].phase /\ Received(c, n).reload = client[c].reload
         /\ Received(c, n).backlog = client[c].backlog /\ Received(c, n).signal = client[c].signal
         /\ client[c].known \subseteq Received(c, n).known
         /\ c \notin torn => n \in Received(c, n).known
         /\ Received(c, n).cursor \in {client[c].cursor, n}
         /\ Received(c, n).cursor = client[c].cursor => n <= client[c].cursor
         /\ n \in 0 .. LastDurable /\ n \in Numbers /\ n # 0
<1>1. n \in Nat /\ n \in Visible /\ n # 0 /\ n \in Numbers /\ n \in 0 .. LastDurable /\ MaxEvents \in Nat
      /\ n \in 0 .. MaxEvents
  <2>1. n \in Visible /\ n \in Numbers /\ MaxEvents \in Nat
    BY StreamFacts DEF Addressed, StoreTypes
  <2>2. QED
    BY <2>1, DurableNumbers DEF IInv, Numbers
<1>2. client[c] \in ClientStates /\ client[c].cursor \in Nat
  BY StreamFacts DEF ClientStates
<1>3. CASE n <= client[c].cursor
  <2>1. Received(c, n) = client[c]
    BY <1>3 DEF Received
  <2>2. c \notin torn => n \in client[c].known
    BY <1>1, <1>2, <1>3 DEF HonestOK
  <2>3. QED
    BY <1>1, <1>2, <1>3, <2>1, <2>2
<1>4. CASE ~(n <= client[c].cursor)
  <2>1. Received(c, n) = [client[c] EXCEPT !.cursor = n, !.known = @ \union {n}]
    BY <1>4 DEF Received
  <2>2. n # client[c].cursor
    BY <1>1, <1>2, <1>4
  <2> DEFINE r == Received(c, n)
             known == client[c].known \union {n}
  <2>3. known \in SUBSET Numbers
    BY <1>1, <1>2 DEF ClientStates
  <2>4. r = [client[c] EXCEPT !.cursor = n, !.known = known]
    BY <2>1
  <2>5. n \in known /\ client[c].known \subseteq known
    OBVIOUS
  <2> HIDE DEF r, known
  <2>6. /\ r \in ClientStates /\ r.cursor = n /\ r.known = known /\ r.phase = client[c].phase
        /\ r.reload = client[c].reload /\ r.backlog = client[c].backlog /\ r.signal = client[c].signal
    BY <1>1, <1>2, <2>3, <2>4 DEF ClientStates
  <2>7. QED
    BY <1>1, <2>2, <2>5, <2>6 DEF r
<1>5. QED
  BY <1>3, <1>4

LEMMA DeliverReplayedStep ==
  ASSUME IInv, NEW c \in Clients, DeliverReplayed(c)
  PROVE  IInv'
<1> DEFINE n == First(client[c].backlog)
           r == Received(c, n)
           k == [r EXCEPT !.backlog = @ \ {n}]
<1>1. /\ client[c].phase = "open" /\ ~client[c].reload /\ client[c].backlog # {}
      /\ client' = [client EXCEPT ![c] = k]
      /\ UNCHANGED <<store, dispatcher, sub, dropped, torn, failures, drops>>
  BY StreamFacts DEF DeliverReplayed
<1>2. LastDurable' = LastDurable /\ Visible' = Visible /\ Addressed(c)' = Addressed(c)
  BY <1>1, StreamFacts, StoreStays
<1>3. client[c].backlog \subseteq Addressed(c) /\ client[c].backlog \in SUBSET Nat
      /\ client[c].cursor \in 0 .. LastDurable
  <2>1. client[c].backlog \subseteq Addressed(c) /\ client[c].cursor \in 0 .. LastDurable
    BY StreamFacts DEF StreamOK
  <2>2. Addressed(c) \subseteq Nat
    BY DurableNumbers DEF Addressed, IInv
  <2>3. QED
    BY <2>1, <2>2
<1>4. n \in client[c].backlog /\ n \in Addressed(c) /\ \A m \in client[c].backlog : n <= m
  BY <1>1, <1>3, FirstExists
<1> HIDE DEF n
<1>5. HonestOK(c) \/ c \in torn
  BY StreamFacts DEF BrowserOK
<1>6. /\ r \in ClientStates /\ r.phase = "open" /\ ~r.reload /\ r.backlog = client[c].backlog
      /\ r.signal = client[c].signal /\ client[c].known \subseteq r.known
      /\ c \notin torn => n \in r.known
      /\ r.cursor \in {client[c].cursor, n} /\ n \in 0 .. LastDurable
  BY <1>1, <1>4, <1>5, ReceivedState
<1> HIDE DEF r
<1>7. /\ k \in ClientStates /\ k.phase = "open" /\ ~k.reload /\ k.backlog = client[c].backlog \ {n}
      /\ k.signal = client[c].signal /\ k.known = r.known /\ k.cursor = r.cursor
  BY <1>6 DEF ClientStates
<1> HIDE DEF k
<1>8. client'[c] = k
  BY <1>1, StreamFacts
<1>9. c \notin torn' => BrowserOK(c)'
  <2>1. SUFFICES ASSUME BrowserOK(c), n \in k.known
                 PROVE  BrowserOK(c)'
    BY <1>1, <1>6, <1>7, StreamFacts
  <2>2. client[c].known \subseteq k.known /\ Current(c) /\ Current(c)'
    BY <1>1, <1>6, <1>7, <1>8 DEF Current
  <2>3. BacklogOK(c)'
    BY <1>2, <1>7, <1>8, <2>1, <2>2 DEF BrowserOK, BacklogOK
  <2>4. HonestOK(c)'
    <3>1. SUFFICES ASSUME k.cursor # 0, NEW m \in Addressed(c), m <= k.cursor
                   PROVE  m \in k.known
      BY <1>2, <1>8 DEF HonestOK
    <3>2. CASE k.cursor = client[c].cursor
      BY <2>1, <2>2, <3>1, <3>2 DEF BrowserOK, HonestOK
    <3>3. CASE k.cursor = n
      <4>1. m \in client[c].known \/ m \in client[c].backlog
        BY <1>4, <2>1, <3>1, <3>3 DEF BrowserOK, BacklogOK
      <4>2. m \in client[c].backlog => m = n
        BY <1>3, <1>4, <3>1, <3>3
      <4>3. QED
        BY <2>1, <2>2, <4>1, <4>2
    <3>4. QED
      BY <1>6, <1>7, <3>2, <3>3
  <2>5. \A m : Coming(c, m) => Coming(c, m)'
    BY <1>1, <1>7, <1>8, <2>1, <2>2 DEF Coming
  <2>6. QueueOK(c)'
    BY <1>1, <1>2, <1>7, <1>8, <2>1, <2>2, <2>5 DEF BrowserOK, QueueOK, dispatcher
  <2>7. CoveredOK(c)'
    <3>1. SUFFICES ASSUME NEW m \in Addressed(c)
                   PROVE  Coming(c, m)' \/ Owed(c, m)' \/ Signalled(c)'
      BY <1>2 DEF CoveredOK, Covered, Coming
    <3>2. Coming(c, m) \/ Owed(c, m) \/ Signalled(c)
      BY <2>1, <2>2 DEF BrowserOK, CoveredOK, Covered, Coming
    <3>3. Owed(c, m) => Owed(c, m)'
      BY <1>1 DEF Owed, dispatcher, Live
    <3>4. Signalled(c) => Signalled(c)'
      BY <1>1, <1>7, <1>8 DEF Signalled, dispatcher
    <3>5. QED
      BY <2>5, <3>2, <3>3, <3>4
  <2>8. QED
    BY <2>3, <2>4, <2>6, <2>7 DEF BrowserOK
<1>10. torn' = torn /\ torn \subseteq Clients /\ k.backlog \subseteq Addressed(c)
       /\ k.cursor \in 0 .. LastDurable
  BY <1>1, <1>3, <1>6, <1>7, StreamFacts
<1>11. QED
  BY <1>1, <1>7, <1>9, <1>10, BrowserReads

\* An event read from the queue completes what is known up to it, unless
\* something was dropped before it: then the browser counts as torn.
LEMMA DeliverLiveStep ==
  ASSUME IInv, NEW c \in Clients, DeliverLive(c)
  PROVE  IInv'
<1> DEFINE queue == sub[c].queue
           rest == Tail(queue)
           n == Head(queue)
           s == [sub[c] EXCEPT !.queue = Tail(@)]
           k == Received(c, n)
<1>1. /\ client[c].phase = "open" /\ ~client[c].reload /\ client[c].backlog = {} /\ ~client[c].signal
      /\ queue # <<>> /\ n # Resync
      /\ client' = [client EXCEPT ![c] = k] /\ sub' = [sub EXCEPT ![c] = s]
      /\ torn' = IF dropped /\ clearing = c THEN torn \union {c} ELSE torn
      /\ UNCHANGED <<store, dispatcher, dropped, failures, drops>>
  BY StreamFacts DEF DeliverLive
<1>2. LastDurable' = LastDurable /\ Visible' = Visible /\ Addressed(c)' = Addressed(c)
  BY <1>1, StreamFacts, StoreStays
<1>3. queue \in Seq(0 .. MaxEvents)
  BY StreamFacts
<1> HIDE DEF queue
<1>4. /\ rest \in Queues /\ Len(rest) = Len(queue) - 1
      /\ n = queue[1] /\ 1 \in DOMAIN queue /\ n \in 0 .. MaxEvents
      /\ \A i \in DOMAIN rest : i \in Nat /\ i + 1 \in DOMAIN queue /\ rest[i] = queue[i + 1]
      /\ \A m : Occurs(m, queue) <=> m = n \/ Occurs(m, rest)
  BY <1>1, <1>3, HeadRead DEF Queues
<1>5. s = [sub[c] EXCEPT !.queue = rest]
  BY DEF queue
<1> HIDE DEF rest, n, s
<1>6. /\ s \in SubscriptionStates /\ s.queue = rest
      /\ s.registered = sub[c].registered /\ s.latest = sub[c].latest
  BY <1>4, <1>5, StreamFacts DEF SubscriptionStates
<1>7. Len(s.queue) <= QueueCapacity
  BY <1>3, <1>4, <1>6, StreamFacts DEF queue
<1>8. /\ StreamOK(c) /\ n \in Addressed(c)
      /\ \A i, j \in DOMAIN queue : i < j => queue[i] < queue[j]
  BY <1>1, <1>4, StreamFacts DEF StreamOK, queue
<1>9. sub[c].registered
  <2>1. ~sub[c].registered => queue = <<Resync>>
    BY <1>1, <1>8 DEF StreamOK, queue
  <2>2. queue = <<Resync>> => n = Resync
    BY <1>4
  <2>3. QED
    BY <1>1, <2>1, <2>2
<1>10. \A i \in DOMAIN rest : n < rest[i] /\ rest[i] \in Nat
  <2>1. \A i \in DOMAIN rest : 1 < i + 1 /\ i + 1 \in DOMAIN queue /\ rest[i] = queue[i + 1]
    <3>1. \A i \in DOMAIN rest : i >= 1
      BY <1>4 DEF Queues
    <3>2. QED
      BY <1>4, <3>1
  <2>2. \A i \in DOMAIN rest : rest[i] \in 0 .. MaxEvents
    <3>1. rest \in Seq(0 .. MaxEvents)
      BY <1>4 DEF Queues
    <3>2. QED
      BY <3>1, BoundsAssumption
  <2>3. QED
    BY <1>4, <1>8, <2>1, <2>2
<1>11. n \in Nat /\ n # 0 /\ ~Occurs(Resync, queue)
  <2>1. n \in Nat /\ n # 0
    BY <1>1, <1>4 DEF Resync
  <2>2. ~Occurs(Resync, rest)
    BY <1>10, <2>1 DEF Occurs, Resync
  <2>3. QED
    BY <1>1, <1>4, <2>1, <2>2
<1>12. /\ k \in ClientStates /\ k.phase = "open" /\ ~k.reload /\ k.backlog = {} /\ ~k.signal
       /\ client[c].known \subseteq k.known
       /\ c \notin torn => n \in k.known
       /\ k.cursor \in {client[c].cursor, n} /\ n \in 0 .. LastDurable
  <2>1. HonestOK(c) \/ c \in torn
    BY StreamFacts DEF BrowserOK
  <2>2. QED
    BY <1>1, <1>8, <2>1, ReceivedState
<1> HIDE DEF k
<1>13. /\ sub'[c] = s /\ client'[c] = k /\ \A d \in Clients \ {c} : sub'[d] = sub[d]
  BY <1>1, StreamFacts
<1>14. DispatcherTypes' /\ BoundTypes'
  BY <1>1, StreamFacts DEF DispatcherTypes, BoundTypes, dispatcher, Live, Clients, Numbers
<1>15. Subscribed' = Subscribed
  BY <1>6, <1>13 DEF Subscribed, Clients
<1>16. DispatcherInv'
  BY <1>1, <1>2, <1>15, StreamFacts DEF DispatcherInv, dispatcher
<1>17. StreamOK(c)'
  <2>1. \A i, j \in DOMAIN rest : i < j => rest[i] < rest[j]
    BY <1>4, <1>8
  <2>2. \A i \in DOMAIN rest :
          rest[i] # Resync => rest[i] \in Addressed(c) /\ rest[i] <= sub[c].latest
    BY <1>4, <1>8 DEF StreamOK, queue
  <2>3. Occurs(Resync, queue) => Occurs(Resync, rest)
    BY <1>11
  <2>4. k.cursor \in 0 .. LastDurable
    BY <1>8, <1>12 DEF StreamOK
  <2>5. UNCHANGED <<dstate, processed, page, offering, todo, clearing>>
    BY <1>1 DEF dispatcher
  <2>6. QED
    BY <1>2, <1>6, <1>8, <1>9, <1>12, <1>13, <2>1, <2>2, <2>3, <2>4, <2>5 DEF StreamOK, queue
<1>18. c \notin torn' => BrowserOK(c)'
  <2>1. SUFFICES ASSUME BrowserOK(c), n \in k.known, ~(dropped /\ clearing = c)
                 PROVE  BrowserOK(c)'
    BY <1>1, <1>12, StreamFacts
  <2>2. Current(c)
    BY <1>1 DEF Current
  <2>3. \A m \in Addressed(c) : m \in Nat
    BY DurableNumbers DEF Addressed, IInv
  <2>4. \A i \in DOMAIN queue : \A m \in Addressed(c) : m <= queue[i] => Coming(c, m)
    BY <1>1, <1>11, <2>1, <2>2 DEF BrowserOK, QueueOK, queue
  <2>5. \A m : Coming(c, m) => m \in k.known \/ Occurs(m, rest)
    BY <1>1, <1>4, <1>12, <2>1 DEF Coming, queue
  <2>6. BacklogOK(c)'
    BY <1>12, <1>13 DEF BacklogOK
  <2>7. QueueOK(c)'
    <3>1. SUFFICES ASSUME NEW i \in DOMAIN rest, NEW m \in Addressed(c), m <= rest[i]
                   PROVE  m \in k.known \/ Occurs(m, rest)
      BY <1>2, <1>6, <1>13 DEF QueueOK, Coming
    <3>2. QED
      BY <1>4, <2>4, <2>5, <3>1
  <2>8. HonestOK(c)'
    <3>1. SUFFICES ASSUME k.cursor # 0, NEW m \in Addressed(c), m <= k.cursor
                   PROVE  m \in k.known
      BY <1>2, <1>13 DEF HonestOK
    <3>2. CASE k.cursor = client[c].cursor
      BY <1>12, <2>1, <3>1, <3>2 DEF BrowserOK, HonestOK
    <3>3. CASE k.cursor = n
      <4>1. m \in k.known \/ Occurs(m, rest)
        BY <1>4, <2>4, <2>5, <3>1, <3>3
      <4>2. ~Occurs(m, rest)
        BY <1>10, <1>11, <2>3, <3>1, <3>3 DEF Occurs
      <4>3. QED
        BY <4>1, <4>2
    <3>4. QED
      BY <1>12, <3>2, <3>3
  <2>9. CoveredOK(c)'
    <3>1. SUFFICES ASSUME NEW m \in Addressed(c)
                   PROVE  m \in k.known \/ Occurs(m, rest) \/ Owed(c, m)' \/ Signalled(c)'
      BY <1>2, <1>6, <1>13 DEF CoveredOK, Covered
    <3>2. Coming(c, m) \/ Owed(c, m) \/ Signalled(c)
      BY <2>1, <2>2 DEF BrowserOK, CoveredOK, Covered, Coming
    <3>3. Owed(c, m) => Owed(c, m)'
      BY <1>1, <1>6, <1>13 DEF Owed, dispatcher, Live
    <3>4. Signalled(c) => Signalled(c)'
      BY <1>1, <1>11 DEF Signalled, dispatcher, queue
    <3>5. QED
      BY <2>5, <3>2, <3>3, <3>4
  <2>10. QED
    BY <2>6, <2>7, <2>8, <2>9 DEF BrowserOK
<1>19. /\ \A d \in Clients \ {c} :
            (clearing' = d <=> clearing = d) /\ (dropped' /\ clearing' = d <=> dropped /\ clearing = d)
       /\ UNCHANGED <<store, dstate, processed, page, drain, offering>>
       /\ todo' = todo /\ torn' \ {c} = torn \ {c} /\ torn' \subseteq Clients
  BY <1>1, StreamFacts DEF dispatcher
<1>20. QED
  BY <1>1, <1>6, <1>7, <1>12, <1>14, <1>16, <1>17, <1>18, <1>19, StreamMoves

\* A process that starts again has no subscription and owes nobody anything.
LEMMA RestartStep ==
  ASSUME IInv, Restart
  PROVE  IInv'
<1>1. /\ failures < MaxFailures /\ failures' = failures + 1 /\ dstate' = "starting" /\ processed' = 0
      /\ page' = {} /\ drain' = "idle" /\ offering' = FALSE /\ todo' = {} /\ clearing' = Nobody
      /\ sub' = [c \in Clients |-> NoSubscription] /\ client' = [c \in Clients |-> Off(client[c])]
      /\ dropped' = FALSE /\ UNCHANGED <<store, torn, drops>>
  BY DEF Restart
<1>2. StoreTypes /\ DispatcherTypes /\ BrowserTypes /\ BoundTypes /\ NumberingInv /\ BrowsersInv
  BY TypesInParts DEF IInv
<1>3. StoreTypes' /\ NumberingInv' /\ LastDurable' = LastDurable /\ \A c : Addressed(c)' = Addressed(c)
  BY <1>1, <1>2, StoreStays
<1>4. /\ MaxEvents \in Nat /\ QueueCapacity \in Nat /\ MaxFailures \in Nat /\ LastDurable \in Nat
  BY BoundsAssumption, DurableNumbers DEF IInv
<1>5. NoSubscription \in SubscriptionStates /\ Len(NoSubscription.queue) <= QueueCapacity
      /\ NoSubscription.queue = <<>> /\ NoSubscription.latest = 0 /\ ~NoSubscription.registered
  <2>1. <<>> \in Queues /\ Len(<<>>) = 0 /\ 0 \in 0 .. MaxEvents
    BY <1>4 DEF Queues
  <2>2. QED
    BY <1>4, <2>1 DEF NoSubscription, SubscriptionStates
<1>6. ASSUME NEW c \in Clients
      PROVE  /\ Off(client[c]) \in ClientStates /\ Off(client[c]).phase = "off"
             /\ Off(client[c]).backlog = {} /\ ~Off(client[c]).signal
             /\ Off(client[c]).known = client[c].known /\ Off(client[c]).cursor = client[c].cursor
  <2>1. client[c] \in ClientStates
    BY <1>2, <1>6 DEF BrowserTypes
  <2>2. QED
    BY <2>1 DEF Off, ClientStates
<1>7. \A c \in Clients : sub'[c] = NoSubscription /\ client'[c] = Off(client[c])
  BY <1>1
<1>8. Clients' = Clients /\ Live' = Live /\ Numbers' = Numbers
  BY DEF Clients, Live, Numbers
<1>9. DispatcherTypes' /\ BoundTypes'
  <2>1. failures' \in 0 .. MaxFailures
    BY <1>1, <1>2, <1>4 DEF BoundTypes
  <2>2. 0 \in 0 .. MaxEvents
    BY <1>4
  <2>3. QED
    BY <1>1, <1>2, <2>1, <2>2 DEF DispatcherTypes, BoundTypes, Live, Clients, Numbers
<1>10. BrowserTypes'
  <2>1. sub' \in [Clients -> SubscriptionStates]
    BY <1>1, <1>5
  <2>2. client' \in [Clients -> ClientStates]
    BY <1>1, <1>6
  <2>3. QED
    BY <1>1, <1>2, <1>5, <1>7, <1>8, <2>1, <2>2 DEF BrowserTypes
<1>11. DispatcherInv'
  BY <1>1, <1>3, <1>4 DEF DispatcherInv
<1>12. ASSUME NEW c \in Clients
       PROVE  StreamOK(c)' /\ (c \notin torn' => BrowserOK(c)')
  <2>1. StreamOK(c) /\ (c \notin torn => BrowserOK(c))
    BY <1>2, <1>12 DEF BrowsersInv
  <2>2. StreamOK(c)'
    <3>1. sub'[c] = NoSubscription /\ client'[c] = Off(client[c]) /\ processed' = 0
      BY <1>1, <1>7
    <3>2. client[c].cursor \in 0 .. LastDurable'
      BY <1>3, <2>1 DEF StreamOK
    <3>3. \A i \in DOMAIN NoSubscription.queue : FALSE
      BY <1>5
    <3>4. NoSubscription.latest <= 0
      BY <1>5
    <3>5. QED
      BY <1>5, <1>6, <3>1, <3>2, <3>3, <3>4 DEF StreamOK
  <2>3. BacklogOK(c)' /\ QueueOK(c)' /\ CoveredOK(c)'
    BY <1>6, <1>7 DEF BacklogOK, QueueOK, CoveredOK, Current
  <2>4. HonestOK(c) => HonestOK(c)'
    BY <1>3, <1>6, <1>7 DEF HonestOK
  <2>5. QED
    BY <1>1, <2>1, <2>2, <2>3, <2>4 DEF BrowserOK
<1>13. BrowsersInv'
  BY <1>8, <1>12 DEF BrowsersInv
<1>14. QED
  BY <1>3, <1>9, <1>10, <1>11, <1>13, TypesInPartsNext DEF IInv

-----------------------------------------------------------------------------
(* The invariant holds.                                                    *)

LEMMA InvariantInit == Init => IInv
<1> SUFFICES ASSUME Init
             PROVE  IInv
  OBVIOUS
<1>1. /\ events = [n \in {} |-> "shared"] /\ counter = 0 /\ txn = [p \in Publishers |-> NoTransaction]
      /\ dstate = "starting" /\ processed = 0 /\ page = {} /\ drain = "idle" /\ offering = FALSE
      /\ todo = {} /\ clearing = Nobody /\ sub = [c \in Clients |-> NoSubscription]
      /\ dropped = FALSE /\ torn = {} /\ failures = 0 /\ drops = 0
  BY DEF Init
<1> DEFINE k == [phase |-> "off", cursor |-> 0, reload |-> FALSE, backlog |-> {}, signal |-> FALSE,
                 known |-> {}]
<1>2. client = [c \in Clients |-> k]
  BY DEF Init
<1>3. 0 \in 0 .. MaxEvents /\ 0 \in 0 .. MaxFailures /\ 0 \in 0 .. MaxDrops /\ QueueCapacity \in Nat
  BY BoundsAssumption
<1>4. Visible = {}
  BY <1>1 DEF Visible
<1>5. NoTransaction \in [seq : 0 .. MaxEvents, kind : Kinds] /\ NoTransaction.seq = 0
  BY <1>3, KindsAssumption DEF NoTransaction
<1>6. \A p \in Publishers : txn[p].seq = 0
  BY <1>1, <1>5
<1>7. NoSubscription \in SubscriptionStates /\ Len(NoSubscription.queue) <= QueueCapacity
      /\ NoSubscription.queue = <<>> /\ NoSubscription.latest = 0 /\ ~NoSubscription.registered
  <2>1. <<>> \in Queues /\ Len(<<>>) = 0
    BY DEF Queues
  <2>2. QED
    BY <1>3, <2>1 DEF NoSubscription, SubscriptionStates
<1>8. /\ k \in ClientStates /\ k.phase = "off" /\ k.backlog = {} /\ ~k.signal /\ k.cursor = 0
  BY <1>3 DEF ClientStates
<1> HIDE DEF k
<1>9. StoreTypes
  BY <1>1, <1>3, <1>4, <1>5 DEF StoreTypes
<1>10. DispatcherTypes
  BY <1>1, <1>3 DEF DispatcherTypes
<1>11. BrowserTypes /\ BoundTypes
  BY <1>1, <1>2, <1>3, <1>7, <1>8 DEF BrowserTypes, BoundTypes
<1>12. LastDurable = 0
  BY <1>1, <1>6 DEF LastDurable, CounterFree
<1>13. NumberingInv
  <2>1. 1 .. 0 = {}
    OBVIOUS
  <2>2. QED
    BY <1>4, <1>6, <1>12, <2>1 DEF NumberingInv
<1>14. DispatcherInv
  BY <1>1, <1>12 DEF DispatcherInv
<1>15. ASSUME NEW c \in Clients
       PROVE  StreamOK(c) /\ BrowserOK(c)
  <2>1. sub[c] = NoSubscription /\ client[c] = k
    BY <1>1, <1>2
  <2>2. \A i \in DOMAIN NoSubscription.queue : FALSE
    BY <1>7
  <2>3. StreamOK(c)
    BY <1>1, <1>7, <1>8, <1>12, <2>1, <2>2 DEF StreamOK
  <2>4. BrowserOK(c)
    BY <1>8, <2>1 DEF BrowserOK, BacklogOK, QueueOK, HonestOK, CoveredOK, Current
  <2>5. QED
    BY <2>3, <2>4
<1>16. BrowsersInv
  BY <1>15 DEF BrowsersInv
<1>17. QED
  BY <1>9, <1>10, <1>11, <1>13, <1>14, <1>16, TypesInParts DEF IInv

LEMMA StutteringStep ==
  ASSUME IInv, UNCHANGED vars
  PROVE  IInv'
<1>1. UNCHANGED <<events, dispatcher, browsers, failures, drops>> /\ UNCHANGED store
  BY DEF vars, store
<1>2. StoreTypes' /\ NumberingInv' /\ LastDurable' = LastDurable
  BY <1>1, StoreStays, TypesInParts DEF IInv
<1>3. QED
  BY <1>1, <1>2, NumbersMove

LEMMA InvariantStep == IInv /\ [Next]_vars => IInv'
<1> SUFFICES ASSUME IInv, [Next]_vars
             PROVE  IInv'
  OBVIOUS
<1>1. CASE Publication
  <2>1. PICK p \in Publishers : Commit(p) \/ Abort(p) \/ \E kind \in Kinds : TakeSequence(p, kind)
    BY <1>1 DEF Publication
  <2>2. QED
    BY <2>1, CommitStep, AbortStep, TakeSequenceStep
<1>2. CASE DispatcherStep
  <2>1. clearing # Nobody => clearing \in Clients
    BY DEF IInv, TypeOK
  <2>2. CASE DropOne
    <3>1. clearing \in Clients
      BY <2>1, <2>2 DEF DropOne
    <3>2. PICK c \in Clients : clearing = c
      BY <3>1
    <3>3. QED
      BY <2>2, <3>2, DropOneStep
  <2>3. CASE PutSignal
    <3>1. clearing \in Clients
      BY <2>1, <2>3 DEF PutSignal
    <3>2. PICK c \in Clients : clearing = c
      BY <3>1
    <3>3. QED
      BY <2>3, <3>2, PutSignalStep
  <2>4. CASE \E c \in Clients : Offer(c) \/ RequireResync(c)
    BY <2>4, OfferStep, RequireResyncStep
  <2>5. QED
    BY <1>2, <2>2, <2>3, <2>4, ReadHighWatermarkStep, ReadPageStep, PublishStep, AdvanceStep,
       FinishDrainStep DEF DispatcherStep
<1>3. CASE Environment
  <2>1. CASE \E c \in Clients : Disconnect(c)
    BY <2>1, EndSteps
  <2>2. QED
    BY <1>3, <2>1, StoreFailsStep, SourceSteps, RestartStep DEF Environment
<1>4. CASE \E c \in Clients : BrowserStep(c)
  <2>1. PICK c \in Clients : BrowserStep(c)
    BY <1>4
  <2>2. QED
    BY <2>1, ConnectStep, ReplayStep, SnapshotStep, EndSteps, DeliverReplayedStep, DeliverLiveStep
       DEF BrowserStep
<1>5. CASE UNCHANGED vars
  BY <1>5, StutteringStep
<1>6. QED
  BY <1>1, <1>2, <1>3, <1>4, <1>5 DEF Next

LEMMA InvariantHolds == Spec => []IInv
<1>1. IInv /\ [Next]_vars => IInv'
  BY InvariantStep
<1>2. QED
  BY <1>1, InvariantInit, PTL DEF Spec

\* The store, the dispatcher, every subscription and every browser keep their
\* types, and no queue grows past its capacity (RealtimeSubscription.offer).
THEOREM TypeCorrect == Spec => []TypeOK
<1>1. IInv => TypeOK
  BY DEF IInv
<1>2. QED
  BY <1>1, InvariantHolds, PTL

\* A browser whose stream is open and whose snapshot is loaded misses nothing:
\* subscribe before replay, fan-out before the cursor, no registration during a
\* gap and numbers that become visible in order are enough, through outages,
\* restarts, overflows and broken connections (services/realtime.py).
THEOREM NothingIsMissed == Spec => []NothingMissed
<1>1. IInv => NothingMissed
  BY DEF IInv, BrowsersInv, BrowserOK, CoveredOK, NothingMissed
<1>2. QED
  BY <1>1, InvariantHolds, PTL

\* A cursor a browser holds stands for everything up to it: what a later replay
\* will not bring is known (dispatcher.replay, the clients' connect).
THEOREM CursorIsHonest == Spec => []CursorHonest
<1>1. IInv => CursorHonest
  BY DEF IInv, BrowsersInv, BrowserOK, HonestOK, CursorHonest
<1>2. QED
  BY <1>1, InvariantHolds, PTL
=============================================================================
