------------------------------ MODULE Realtime ------------------------------
(***************************************************************************)
(* Realtime invalidation events: what one committed mutation has to go     *)
(* through before every browser that may see it knows of it.               *)
(*                                                                         *)
(* A mutation publishes its event in its own transaction, and takes the    *)
(* event's number from a counter document inside that transaction          *)
(* (repositories/mongodb.py).  One dispatcher thread per process reads the *)
(* durable events in order and offers each to the open subscriptions, each *)
(* of which has a bounded queue (services/realtime.py).  A browser opens a *)
(* stream, which subscribes first and replays what follows the browser's   *)
(* cursor after that (api/realtime.py), and loads a snapshot when it has   *)
(* no cursor (customer and workbench clients).                             *)
(*                                                                         *)
(* An event is its number; 0 in a queue is the resynchronisation signal    *)
(* and 0 as a cursor is no cursor.                                         *)
(***************************************************************************)
EXTENDS Integers, Sequences, FiniteSets

CONSTANTS
  Publishers,     \* concurrent transactions that publish
  Claimants,      \* browsers of the claimant of these events
  Staff,          \* Workbench browsers
  Nobody,         \* no subscription
  QueueCapacity,  \* RealtimeDispatcher(queue_capacity)
  ReplayLimit,    \* RealtimeDispatcher(replay_limit)
  Kinds,          \* kinds of event published, of: shared, staff, progress
  MaxEvents,      \* bound on published events
  MaxFailures,    \* bound on event-store outages and process restarts
  MaxDrops        \* bound on broken connections

ASSUME ClientsAssumption ==
  /\ Claimants \cap Staff = {}
  /\ Nobody \notin Claimants \union Staff

ASSUME KindsAssumption == Kinds \subseteq {"shared", "staff", "progress"} /\ "shared" \in Kinds

ASSUME BoundsAssumption ==
  /\ QueueCapacity \in Nat \ {0}
  /\ ReplayLimit \in Nat \ {0}
  /\ MaxEvents \in Nat
  /\ MaxFailures \in Nat
  /\ MaxDrops \in Nat

Clients == Claimants \union Staff
Resync == 0
Numbers == 1..MaxEvents

VARIABLES
  events,      \* the durable events: number |-> kind
  counter,     \* realtime_sequence:global, as the holder of its lock sees it
  txn,         \* each publisher's open transaction: 0, or the number it took
  dstate,      \* RealtimeDispatcher._state
  processed,   \* _processed_cursor
  page,        \* what is left of the page being drained, oldest first
  drain,       \* "idle", "more" (the last page was full) or "last"
  offering,    \* the head of the page is being offered
  todo,        \* subscriptions still to be offered it, or still to be told
  clearing,    \* the subscription whose queue is being emptied
  sub,         \* each browser's subscription
  client,      \* each browser: its stream's phase, its cursor, its view
  dropped,     \* history: something was dropped from the queue being emptied
  torn,        \* history: browsers that were sent an event out of such a
               \* queue, past what was dropped, and took no snapshot since
  failures, drops

store == <<events, counter, txn>>
dispatcher == <<dstate, processed, page, drain, offering, todo, clearing>>
browsers == <<sub, client, dropped, torn>>
vars == <<store, dispatcher, browsers, failures, drops>>

Visible == DOMAIN events

\* realtime_publication_for, AgentTurnProgressPublication: a mutation with
\* nothing a claimant may see is for staff, progress is for the claimant.
Audiences(kind) ==
  CASE kind = "shared"   -> {"claimant", "staff"}
    [] kind = "staff"    -> {"staff"}
    [] kind = "progress" -> {"claimant"}

\* RealtimeScope.permits.  An event of another claimant is a "staff" event as
\* far as the claimants of this model go.
Permits(c, kind) == (IF c \in Staff THEN "staff" ELSE "claimant") \in Audiences(kind)

Addressed(c) == {n \in Visible : Permits(c, events[n])}
\* replay_realtime_events: the first `limit` durable events past a number.
\* Its callers take them in order.
ReplayAfter(n, limit) ==
  LET later == {e \in Visible : e > n}
  IN  {e \in later : Cardinality({d \in later : d < e}) < limit}

First(numbers) == CHOOSE n \in numbers : \A m \in numbers : n <= m

HighWatermark ==
  CHOOSE n \in Visible \union {0} : \A e \in Visible : e <= n

NoSubscription == [registered |-> FALSE, queue |-> <<>>, latest |-> 0]
Subscribed == {c \in Clients : sub[c].registered}
Live == {"ready", "degraded"}

TypeOK ==
  /\ Visible \subseteq Numbers
  /\ \A n \in Visible : events[n] \in Kinds
  /\ counter \in 0..MaxEvents
  /\ txn \in [Publishers -> [seq : 0..MaxEvents, kind : Kinds]]
  /\ dstate \in {"starting", "gap"} \union Live
  /\ processed \in 0..MaxEvents
  /\ page \subseteq Numbers
  /\ drain \in {"idle", "more", "last"}
  /\ offering \in BOOLEAN
  /\ todo \subseteq Clients
  /\ clearing \in Clients \union {Nobody}
  /\ sub \in [Clients -> [registered : BOOLEAN, queue : Seq(0..MaxEvents),
                          latest : 0..MaxEvents]]
  /\ \A c \in Clients : Len(sub[c].queue) <= QueueCapacity
  /\ client \in [Clients -> [phase : {"off", "replaying", "open"},
                             cursor : 0..MaxEvents, reload : BOOLEAN,
                             backlog : SUBSET Numbers, signal : BOOLEAN,
                             known : SUBSET Numbers]]
  /\ dropped \in BOOLEAN
  /\ torn \subseteq Clients
  /\ failures \in 0..MaxFailures
  /\ drops \in 0..MaxDrops

NoTransaction == [seq |-> 0, kind |-> "shared"]

Init ==
  /\ events = [n \in {} |-> "shared"]
  /\ counter = 0
  /\ txn = [p \in Publishers |-> NoTransaction]
  /\ dstate = "starting"
  /\ processed = 0
  /\ page = {}
  /\ drain = "idle"
  /\ offering = FALSE
  /\ todo = {}
  /\ clearing = Nobody
  /\ sub = [c \in Clients |-> NoSubscription]
  /\ client = [c \in Clients |-> [phase |-> "off", cursor |-> 0, reload |-> FALSE,
                                  backlog |-> {}, signal |-> FALSE, known |-> {}]]
  /\ dropped = FALSE
  /\ torn = {}
  /\ failures = 0
  /\ drops = 0

-----------------------------------------------------------------------------
(* Publication *)
\* Mutant: the number is taken outside the transaction.
CounterUnlocked == TRUE

\* The counter document is written inside the transaction, so a transaction
\* that wants the next number waits for, or aborts on, the one that has it.
CounterFree == \A p \in Publishers : txn[p].seq = 0

TakeSequence(p, kind) ==
  /\ txn[p].seq = 0
  /\ CounterFree
  /\ counter < MaxEvents
  /\ counter' = counter + 1
  /\ txn' = [txn EXCEPT ![p] = [seq |-> counter + 1, kind |-> kind]]
  /\ UNCHANGED <<events, dispatcher, browsers, failures, drops>>

Commit(p) ==
  /\ txn[p].seq # 0
  /\ events' = [n \in Visible \union {txn[p].seq} |->
                  IF n = txn[p].seq THEN txn[p].kind ELSE events[n]]
  /\ txn' = [txn EXCEPT ![p] = NoTransaction]
  /\ UNCHANGED <<counter, dispatcher, browsers, failures, drops>>

\* The increment goes with the transaction.
Abort(p) ==
  /\ txn[p].seq # 0
  /\ counter' = counter - 1
  /\ txn' = [txn EXCEPT ![p] = NoTransaction]
  /\ UNCHANGED <<events, dispatcher, browsers, failures, drops>>

-----------------------------------------------------------------------------
(* The dispatcher thread *)

\* _run, up to its loop: what is already durable is not published.
ReadHighWatermark ==
  /\ dstate = "starting"
  /\ processed' = HighWatermark
  /\ dstate' = "ready"
  /\ UNCHANGED <<store, page, drain, offering, todo, clearing, browsers, failures, drops>>

Idle == page = {} /\ todo = {} /\ clearing = Nobody
\* Mutant: durable events are read only while the change stream is up.
ReadPageOnWake ==
  LET found == ReplayAfter(processed, ReplayLimit)
  IN  /\ dstate \in {"ready", "gap"}
      /\ Idle
      /\ drain # "last"
      /\ found # {} \/ dstate = "gap" \/ drain = "more"
      /\ page' = found
      /\ drain' = IF Cardinality(found) = ReplayLimit THEN "more" ELSE "last"
      /\ UNCHANGED <<store, dstate, processed, offering, todo, clearing, browsers,
                     failures, drops>>

\* One page of _drain_durable_events.  A poll that finds nothing in a live
\* state changes nothing and is no step.
ReadPage ==
  LET found == ReplayAfter(processed, ReplayLimit)
  IN  /\ dstate \in Live \union {"gap"}
      /\ Idle
      /\ drain # "last"
      /\ found # {} \/ dstate = "gap" \/ drain = "more"
      /\ page' = found
      /\ drain' = IF Cardinality(found) = ReplayLimit THEN "more" ELSE "last"
      /\ UNCHANGED <<store, dstate, processed, offering, todo, clearing, browsers,
                     failures, drops>>

\* _publish takes the subscriptions under the lock and offers outside it.
Publish ==
  /\ page # {}
  /\ dstate \in Live
  /\ ~offering
  /\ offering' = TRUE
  /\ todo' = Subscribed
  /\ UNCHANGED <<store, dstate, processed, page, drain, clearing, browsers, failures, drops>>

\* RealtimeSubscription.offer, up to the emptying of a full queue.
Offer(c) ==
  LET n == First(page)
      accepted == Permits(c, events[n]) /\ n > sub[c].latest
      full == Len(sub[c].queue) = QueueCapacity
  IN  /\ offering
      /\ clearing = Nobody
      /\ c \in todo
      /\ todo' = todo \ {c}
      /\ clearing' = IF accepted /\ full THEN c ELSE Nobody
      /\ sub' = IF ~accepted THEN sub
                ELSE [sub EXCEPT ![c].latest = n,
                                 ![c].queue = IF full THEN @ ELSE Append(@, n)]
      /\ UNCHANGED <<store, dstate, processed, page, drain, offering, client, dropped,
                     torn, failures, drops>>

\* The loop of get_nowait that empties a queue, one item at a time: the
\* stream that reads the queue goes on reading it.
DropOne ==
  /\ clearing # Nobody
  /\ sub[clearing].queue # <<>>
  /\ sub' = [sub EXCEPT ![clearing].queue = Tail(@)]
  /\ dropped' = TRUE
  /\ UNCHANGED <<store, dispatcher, client, torn, failures, drops>>
PutSignal ==
  /\ clearing # Nobody
  /\ sub[clearing].queue = <<>>
  /\ sub' = [sub EXCEPT ![clearing].queue = <<Resync>>]
  /\ clearing' = Nobody
  /\ dropped' = FALSE
  /\ UNCHANGED <<store, dstate, processed, page, drain, offering, todo, client, torn,
                 failures, drops>>
\* The cursor moves past an event when it has been offered to everyone, or,
\* while a gap is being recovered, without its being offered at all.
Advance ==
  /\ page # {}
  /\ IF dstate = "gap" THEN TRUE ELSE offering
  /\ todo = {} /\ clearing = Nobody
  /\ processed' = First(page)
  /\ page' = page \ {First(page)}
  /\ offering' = FALSE
  /\ UNCHANGED <<store, dstate, drain, todo, clearing, browsers, failures, drops>>
FinishDrain ==
  /\ Idle
  /\ drain = "last"
  /\ drain' = "idle"
  /\ dstate' = IF dstate = "gap" THEN "ready" ELSE dstate
  /\ UNCHANGED <<store, processed, page, offering, todo, clearing, browsers, failures, drops>>

\* replay_realtime_events raises: _begin_recovery stops new subscriptions and
\* takes the open ones, which are told one after the other.
StoreFails ==
  /\ failures < MaxFailures
  /\ failures' = failures + 1
  /\ dstate \in Live \union {"gap"}
  /\ Idle
  /\ drain # "last"
  /\ dstate' = "gap"
  /\ drain' = "idle"
  /\ todo' = Subscribed
  /\ UNCHANGED <<store, processed, page, offering, clearing, browsers, drops>>

RequireResync(c) ==
  /\ dstate = "gap"
  /\ clearing = Nobody
  /\ c \in todo
  /\ todo' = todo \ {c}
  /\ clearing' = c
  /\ UNCHANGED <<store, dstate, processed, page, drain, offering, browsers, failures, drops>>

\* The change stream is only a wake-up: it moves between two states that
\* everything else treats alike.
SourceFails ==
  /\ dstate = "ready"
  /\ dstate' = "degraded"
  /\ UNCHANGED <<store, processed, page, drain, offering, todo, clearing, browsers,
                 failures, drops>>

SourceReady ==
  /\ dstate = "degraded"
  /\ dstate' = "ready"
  /\ UNCHANGED <<store, processed, page, drain, offering, todo, clearing, browsers,
                 failures, drops>>

\* What is left of a stream that ended: what the browser has acknowledged.
Off(state) ==
  [state EXCEPT !.phase = "off", !.backlog = {}, !.signal = FALSE, !.reload = FALSE]

\* The process stops and starts again: nothing of the above was durable.
Restart ==
  /\ failures < MaxFailures
  /\ failures' = failures + 1
  /\ dstate' = "starting"
  /\ processed' = 0
  /\ page' = {}
  /\ drain' = "idle"
  /\ offering' = FALSE
  /\ todo' = {}
  /\ clearing' = Nobody
  /\ sub' = [c \in Clients |-> NoSubscription]
  /\ client' = [c \in Clients |-> Off(client[c])]
  /\ dropped' = FALSE
  /\ UNCHANGED <<store, torn, drops>>

-----------------------------------------------------------------------------
(* Streams and browsers *)

\* subscribe, under the lock: a stream that arrives while nobody publishes is
\* not registered but told to resynchronise.
Connect(c) ==
  /\ client[c].phase = "off"
  /\ client' = [client EXCEPT ![c].phase = "replaying"]
  /\ sub' = [sub EXCEPT ![c] =
               IF dstate \in Live THEN [NoSubscription EXCEPT !.registered = TRUE]
               ELSE [NoSubscription EXCEPT !.queue = <<Resync>>]]
  /\ UNCHANGED <<store, dispatcher, dropped, torn, failures, drops>>
\* dispatcher.replay: one event more than the window is asked for, to learn
\* whether the window was exceeded; if so, a signal follows the backlog.
Exceeded(c) ==
  /\ client[c].cursor # 0
  /\ Cardinality(ReplayAfter(client[c].cursor, ReplayLimit + 1)) > ReplayLimit

Backlog(c) ==
  IF client[c].cursor = 0 THEN {}
  ELSE {n \in ReplayAfter(client[c].cursor, ReplayLimit) : Permits(c, events[n])}

\* connect() of the two clients: without a cursor both load a snapshot once
\* the stream is open; the claimant's does so whenever it reopens.
MustReload(c) == client[c].cursor = 0 \/ c \in Claimants

Replay(c) ==
  /\ client[c].phase = "replaying"
  /\ client' = [client EXCEPT ![c].phase = "open", ![c].backlog = Backlog(c),
                              ![c].signal = Exceeded(c), ![c].reload = MustReload(c)]
  /\ UNCHANGED <<store, dispatcher, sub, dropped, torn, failures, drops>>

\* onOpen, before any delivery is consumed.
Snapshot(c) ==
  /\ client[c].phase = "open"
  /\ client[c].reload
  /\ client' = [client EXCEPT ![c].reload = FALSE, ![c].known = @ \union Addressed(c)]
  /\ torn' = torn \ {c}
  /\ UNCHANGED <<store, dispatcher, sub, dropped, failures, drops>>

\* What a stream that ends leaves behind: unsubscribe closes the
\* subscription, and what the dispatcher still does to it has no effect.
Closed(c) ==
  /\ sub' = [sub EXCEPT ![c] = NoSubscription]
  /\ todo' = todo \ {c}
  /\ clearing' = IF clearing = c THEN Nobody ELSE clearing
  /\ dropped' = (dropped /\ clearing # c)
  /\ UNCHANGED <<dstate, processed, page, drain, offering>>

\* events(): the backlog, then the queue.  What is not past the cursor is
\* skipped; a signal ends the stream and makes the browser drop its cursor.
DeliverSignal(c) ==
  /\ client[c].phase = "open" /\ ~client[c].reload
  /\ client[c].backlog = {}
  /\ client[c].signal \/ (sub[c].queue # <<>> /\ Head(sub[c].queue) = Resync)
  /\ client' = [client EXCEPT ![c] = [Off(@) EXCEPT !.cursor = 0]]
  /\ Closed(c)
  /\ UNCHANGED <<store, torn, failures, drops>>
Received(c, n) ==
  IF n <= client[c].cursor THEN client[c]
  ELSE [client[c] EXCEPT !.cursor = n, !.known = @ \union {n}]

DeliverReplayed(c) ==
  /\ client[c].phase = "open" /\ ~client[c].reload
  /\ client[c].backlog # {}
  /\ LET n == First(client[c].backlog)
     IN  client' = [client EXCEPT ![c] = [Received(c, n) EXCEPT !.backlog = @ \ {n}]]
  /\ UNCHANGED <<store, dispatcher, sub, dropped, torn, failures, drops>>
\* Mutant: the queue is read before the backlog has been sent.
DeliverLiveFirst(c) ==
  /\ client[c].phase = "open" /\ ~client[c].reload
  /\ sub[c].queue # <<>>
  /\ Head(sub[c].queue) # Resync
  /\ client' = [client EXCEPT ![c] = Received(c, Head(sub[c].queue))]
  /\ sub' = [sub EXCEPT ![c].queue = Tail(@)]
  /\ torn' = IF dropped /\ clearing = c THEN torn \union {c} ELSE torn
  /\ UNCHANGED <<store, dispatcher, dropped, failures, drops>>

DeliverLive(c) ==
  /\ client[c].phase = "open" /\ ~client[c].reload
  /\ client[c].backlog = {} /\ ~client[c].signal
  /\ sub[c].queue # <<>>
  /\ Head(sub[c].queue) # Resync
  /\ client' = [client EXCEPT ![c] = Received(c, Head(sub[c].queue))]
  /\ sub' = [sub EXCEPT ![c].queue = Tail(@)]
  /\ torn' = IF dropped /\ clearing = c THEN torn \union {c} ELSE torn
  /\ UNCHANGED <<store, dispatcher, dropped, failures, drops>>

\* The connection breaks at any point; the browser keeps what it has
\* acknowledged.
Disconnect(c) ==
  /\ drops < MaxDrops
  /\ drops' = drops + 1
  /\ client[c].phase # "off"
  /\ client' = [client EXCEPT ![c] = Off(@)]
  /\ Closed(c)
  /\ UNCHANGED <<store, torn, failures>>

-----------------------------------------------------------------------------
DispatcherStep ==
  \/ ReadHighWatermark \/ ReadPage \/ Publish \/ DropOne \/ PutSignal \/ Advance
  \/ FinishDrain
  \/ \E c \in Clients : Offer(c) \/ RequireResync(c)

BrowserStep(c) ==
  Connect(c) \/ Replay(c) \/ Snapshot(c) \/ DeliverSignal(c) \/ DeliverReplayed(c)
  \/ DeliverLive(c)

Environment ==
  \/ StoreFails \/ SourceFails \/ SourceReady \/ Restart
  \/ \E c \in Clients : Disconnect(c)

Publication ==
  \E p \in Publishers : Commit(p) \/ Abort(p) \/ \E kind \in Kinds : TakeSequence(p, kind)

Next == Publication \/ DispatcherStep \/ Environment \/ \E c \in Clients : BrowserStep(c)

Spec == Init /\ [][Next]_vars

\* The dispatcher thread loops for ever and a browser reconnects until its
\* page is closed; nothing else is obliged to happen.
FairSpec ==
  Spec /\ WF_vars(DispatcherStep) /\ \A c \in Clients : WF_vars(BrowserStep(c))

-----------------------------------------------------------------------------
(* Properties *)

Occurs(n, s) == \E i \in DOMAIN s : s[i] = n

\* The dispatcher has the event n still to offer to c.
Owed(c, n) ==
  /\ sub[c].registered
  /\ dstate \in Live
  /\ n > processed
  /\ offering /\ n = First(page) => c \in todo

\* c has been, or is about to be, told to start again from a snapshot.
Signalled(c) ==
  \/ client[c].signal \/ Occurs(Resync, sub[c].queue)
  \/ clearing = c
  \/ dstate = "gap" /\ c \in todo

\* Every durable event that concerns c is known to it, or is on its way to it
\* in the replayed backlog, in its queue or in the dispatcher's hands, or a
\* resynchronisation is.
Covered(c) ==
  \A n \in Addressed(c) :
    \/ n \in client[c].known
    \/ n \in client[c].backlog \/ Occurs(n, sub[c].queue)
    \/ Owed(c, n)
    \/ Signalled(c)

Current(c) == client[c].phase = "open" /\ ~client[c].reload

\* services/realtime.py, api/realtime.py: a browser whose stream is open and
\* whose snapshot is loaded misses nothing.  This needs the subscription to
\* precede the replay, the fan-out to precede the cursor, the refusal to
\* register during a gap, and event numbers that become visible in order.
NothingMissed == \A c \in Clients \ torn : Current(c) => Covered(c)

\* docs/api.md "Reconnect replays events strictly after the acknowledged
\* cursor": a cursor a browser holds, connected or not, stands for everything
\* up to it, since that is what no later replay will bring.
CursorHonest ==
  \A c \in Clients \ torn :
    client[c].cursor # 0 =>
      \A n \in Addressed(c) : n <= client[c].cursor => n \in client[c].known

\* docs/api.md "so recovery has no unobserved event window": the same of every
\* browser, also of one that was sent an event from a queue being emptied.
NoUnobservedWindow == \A c \in Clients : Current(c) => Covered(c)

\* Every durable event that concerns a browser becomes known to it, through
\* outages of the store, restarts, overflows and broken connections.
EventuallyKnown ==
  \A c \in Clients : \A n \in Numbers :
    (n \in Addressed(c)) ~> (n \in client[c].known \/ c \in torn)
=============================================================================
