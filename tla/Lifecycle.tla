------------------------------- MODULE Lifecycle -------------------------------
(***************************************************************************)
(* The life of one consumer of src/src/consumer.ts: what it subscribes to, *)
(* start(), which opens a consumption per ladder level, stop(), which may  *)
(* come at any time of it and has a deadline, the stop the pipeline        *)
(* decides, what becomes of deliveries, parked records and handlers        *)
(* meanwhile, and the slots parked records take when their time comes.     *)
(*                                                                         *)
(* An action is a stretch of code without an await, or a step of the       *)
(* broker, the adapter or a handler, which are external.  What a delivery  *)
(* does on its way is ConsumerPipeline's; here it is behind `ready`, with  *)
(* its handler, parked, or over.                                           *)
(***************************************************************************)
EXTENDS Journey

CONSTANTS
    Partitions,
    Topic,         \* Topic[p]: the topic p is of
    concurrency,   \* re-entries of a level at a time
    Records,       \* bound on what is delivered of a partition
    MaxFaults      \* bound on failed calls, failed handlers and revocations

ASSUME LifecycleAssumption ==
    /\ IsFiniteSet(Partitions) /\ DOMAIN Topic = Partitions
    /\ concurrency \in Nat \ {0}
    /\ Records \in Nat /\ MaxFaults \in Nat

VARIABLES
    state,           \* idle, starting, running, stopping, stopped
    start,           \* the await start() stands at, or how it settled
    stop,            \* the await doStop() stands at
    ready,           \* whether markReady() was called
    startAbandoned,
    visible,         \* whether every metadata shows the retry topics and DLQs
    membership,      \* membership[l]: the consumption of level l
    handles,         \* levels whose handle is wired
    delivery,        \* delivery[p]: the open delivery of p, active once process() works on it
    handling,        \* partitions whose handler was called and did not return
    delivered,       \* how many of p's records were delivered
    parked,          \* parked[p]: the parked record of p, and its re-entry
    paused,
    gate,            \* gate[l]: the Slots of level l
    passing,         \* passing[l]: discarded waiters of l that were woken and did not go on yet
    faults

calls == <<subscribed, state, start, stop, ready, startAbandoned, visible>>
works == <<delivery, handling, delivered, parked, paused, gate, passing>>
vars  == <<calls, membership, handles, works, faults>>

\* The partitions the consumption of level l reads, and the level of a partition.
Read(p) == Topic[p] \in Consumed
Level(p) == routes[Topic[p]].level
On(l) == {p \in Partitions : Read(p) /\ Level(p) = l}

Fault == faults < MaxFaults /\ faults' = faults + 1

-----------------------------------------------------------------------------
(* subscribe(), subscribeBatch(), and what every end of the consumer does. *)

Subscribe(t) ==
    /\ state = "idle"
    /\ SubscribeTo(t)
    /\ UNCHANGED <<state, start, stop, ready, startAbandoned, visible, membership, handles, works, faults>>

\* finish(): the breakers go with the consumer.
Finish ==
    /\ state' = "stopped"
    /\ breakers' = {}
    /\ UNCHANGED routes

-----------------------------------------------------------------------------
(* The slots of a level: takeSlot() and freeSlot(), on the gate and the     *)
(* parked records.                                                          *)

\* Variant: the slot a discarded waiter was woken for goes to nobody.
NextWokenNever(l, g, k) == gate' = g /\ parked' = k

\* waiting.shift()?.(), once the gates are g and the parked records are k.
NextWoken(l, g, k) ==
    IF g[l].waiting = <<>>
    THEN gate' = g /\ parked' = k
    ELSE /\ gate' = [g EXCEPT ![l].waiting = Tail(@)]
         /\ parked' = [k EXCEPT ![Head(g[l].waiting)] = "woken"]

\* The record's time came, or its waiter was woken: a slot, or the end of the line.
\* With the slot it leaves `parked` and goes through the pipeline.
TakesSlot(p) ==
    LET l == Level(p)
    IN IF gate[l].active < concurrency
       THEN /\ gate' = [gate EXCEPT ![l].active = @ + 1]
            /\ parked' = [parked EXCEPT ![p] = "active"]
       ELSE /\ gate' = [gate EXCEPT ![l].waiting = Append(@, p)]
            /\ parked' = [parked EXCEPT ![p] = "waiting"]

TimeComes(p) ==
    /\ parked[p] = "sleeping"
    /\ TakesSlot(p)
    /\ UNCHANGED <<calls, membership, handles, delivery, handling, delivered, paused, passing, faults>>

WokenGoesOn(p) ==
    /\ parked[p] = "woken"
    /\ TakesSlot(p)
    /\ UNCHANGED <<calls, membership, handles, delivery, handling, delivered, paused, passing, faults>>

\* takeSlot()'s way out for a record that was discarded: a free slot it was
\* woken for goes to the next in line.
PassesOn(l) ==
    /\ passing[l] > 0
    /\ passing' = [passing EXCEPT ![l] = @ - 1]
    /\ IF gate[l].active < concurrency
       THEN NextWoken(l, gate, parked)
       ELSE UNCHANGED <<gate, parked>>
    /\ UNCHANGED <<calls, membership, handles, delivery, handling, delivered, paused, faults>>

Waiters == {p \in Partitions : parked[p] \in {"waiting", "woken"}}
Parked == {p \in Partitions : parked[p] = "sleeping"} \union Waiters

\* p out of the line, where it stands in it.
Without(line, p) ==
    IF p \in Range(line) THEN RemoveAt(line, CHOOSE i \in DOMAIN line : line[i] = p) ELSE line

\* discardParked() of the partitions S: the waiters among them leave the line
\* of their level, as `lines` says, and wake to find themselves discarded.
DiscardParked(S, lines) ==
    /\ parked' = [p \in Partitions |-> IF p \in S \intersect Parked THEN "none" ELSE parked[p]]
    /\ gate' = [l \in Levels |-> [gate[l] EXCEPT !.waiting = lines[l]]]
    /\ passing' = [l \in Levels |->
                     passing[l] + Cardinality(On(l) \intersect S \intersect Waiters)]

\* A re-entry is over: freeSlot(), and the partition resumes.
ReentryOver(p, pc) ==
    /\ NextWoken(Level(p), [gate EXCEPT ![Level(p)].active = @ - 1], [parked EXCEPT ![p] = pc])
    /\ paused' = paused \ {p}
    /\ UNCHANGED passing

-----------------------------------------------------------------------------
(* stop(), from its call to the handlers. *)

\* Up to the wait for the handlers.
BeginDraining ==
    /\ state' = "stopping"
    /\ stop' = "draining"
    /\ DiscardParked(Partitions, [l \in Levels |-> <<>>])
    /\ UNCHANGED <<subscribed, paused>>

Stop ==
    /\ stop = "none"
    /\ CASE state = "starting" ->
              stop' = "waiting" /\ UNCHANGED <<subscribed, state, parked, gate, passing, paused>>
         [] state \in {"idle", "stopped"} ->
              Finish /\ stop' = "done" /\ UNCHANGED <<parked, gate, passing, paused>>
         [] state = "running" -> BeginDraining
    /\ UNCHANGED <<start, ready, startAbandoned, visible, membership, handles, delivery, handling, delivered, faults>>

\* start() settled what the stop waits for: it failed, or has its handles.
StartSettled ==
    /\ stop = "waiting" /\ ready
    /\ IF state = "stopped"
       THEN stop' = "done" /\ Finish /\ UNCHANGED <<parked, gate, passing, paused>>
       ELSE BeginDraining
    /\ UNCHANGED <<start, ready, startAbandoned, visible, membership, handles, delivery, handling, delivered, faults>>

\* Variant: the deadline is looked at only where start() joins.
AbandonStartJoining ==
    /\ stop = "waiting" /\ ~ready
    /\ start \notin {"connecting", "preparing", "creating"}
    /\ startAbandoned' = TRUE
    /\ Finish
    /\ stop' = "done"
    /\ UNCHANGED <<start, ready, visible, membership, handles, works, faults>>

\* The deadline passed on a start that hangs.
AbandonStart ==
    /\ stop = "waiting" /\ ~ready
    /\ startAbandoned' = TRUE
    /\ Finish
    /\ stop' = "done"
    /\ UNCHANGED <<start, ready, visible, membership, handles, works, faults>>

\* leave(): every wired handle is stopped.
Leave ==
    /\ membership' = [l \in Levels |-> IF l \in handles THEN "leaving" ELSE membership[l]]
    /\ handles' = {}

ActiveOf(S) == {p \in S : delivery[p] = "active"}
ReentriesOf(S) == {p \in S : parked[p] = "active"}

Drained ==
    /\ stop = "draining"
    /\ ActiveOf(Partitions) \union ReentriesOf(Partitions) = {}
    /\ stop' = "leaving"
    /\ Leave
    /\ UNCHANGED <<subscribed, state, start, ready, startAbandoned, visible, works, faults>>

\* The deadline passed on what is active: the deliveries are released, the
\* handlers run on with nobody interested, and the shutdown controller keeps
\* those out that were not called yet.  Of the re-entries only the slots are left.
DeadlinePasses ==
    /\ stop = "draining"
    /\ ActiveOf(Partitions) \union ReentriesOf(Partitions) # {}
    /\ stop' = "leaving"
    /\ delivery' = [p \in Partitions |-> IF delivery[p] = "active" THEN "abandoned" ELSE delivery[p]]
    /\ parked' = [p \in Partitions |-> IF parked[p] = "active" THEN "abandoned" ELSE parked[p]]
    /\ gate' = [l \in Levels |-> [gate[l] EXCEPT !.active = @ - Cardinality(ReentriesOf(On(l)))]]
    /\ paused' = paused \ ReentriesOf(Partitions)
    /\ Leave
    /\ UNCHANGED <<subscribed, state, start, ready, startAbandoned, visible, handling, delivered, passing, faults>>

LeavingDone == \A l \in Levels : membership[l] # "leaving"

Left ==
    /\ stop = "leaving" /\ LeavingDone
    /\ stop' = "done"
    /\ Finish
    /\ UNCHANGED <<start, ready, startAbandoned, visible, membership, handles, works, faults>>

-----------------------------------------------------------------------------
(* start(). *)

Start ==
    /\ state = "idle" /\ Consumed # {}
    /\ state' = "starting"
    /\ start' = "connecting"
    /\ UNCHANGED <<subscribed, stop, ready, startAbandoned, visible, membership, handles, works, faults>>

\* start()'s catch: what was delivered meanwhile is let go.
Refuse ==
    /\ Finish
    /\ ready' = TRUE
    /\ start' = "refused"
    /\ UNCHANGED membership

\* An answer of the broker, unless a stop began meanwhile.
Connected ==
    /\ start = "connecting"
    /\ IF stop # "none" THEN Refuse ELSE start' = "preparing" /\ UNCHANGED <<subscribed, state, ready, membership>>
    /\ UNCHANGED <<stop, startAbandoned, visible, handles, works, faults>>

\* Every level is joined at once, unless a stop began meanwhile.
Join ==
    /\ IF stop # "none"
       THEN Refuse
       ELSE /\ start' = "joining"
            /\ membership' = [l \in Levels |-> "joining"]
            /\ UNCHANGED <<subscribed, state, ready>>
    /\ UNCHANGED <<stop, startAbandoned, visible, handles, works, faults>>

\* prepareTopics() without autoCreateTopics: every topic is there, or none is joined.
Looked ==
    /\ start = "preparing"
    /\ \/ visible /\ Join
       \/ /\ ~visible
          /\ Refuse
          /\ UNCHANGED <<stop, startAbandoned, visible, handles, works, faults>>

\* prepareTopics() with autoCreateTopics, an option that is read here only: the
\* controller accepts the topics, or has them.
CreateTopics ==
    /\ start = "preparing"
    /\ start' = "creating"
    /\ UNCHANGED <<subscribed, state, stop, ready, startAbandoned, visible, membership, handles, works, faults>>

\* The metadata follows, or somebody else creates the topics.
TopicsAppear ==
    /\ start \in {"preparing", "creating"} /\ ~visible
    /\ visible' = TRUE
    /\ UNCHANGED <<subscribed, state, start, stop, ready, startAbandoned, membership, handles, works, faults>>

\* Variant: createTopics() is done once the controller accepted them.
CreatedAtOnce ==
    /\ start = "creating"
    /\ Join

\* createTopics() resolves once it saw the topics listed.
Created ==
    /\ start = "creating" /\ visible
    /\ Join

\* The topics cannot be listed, or do not appear before the adapter's deadline.
CreationFails ==
    /\ start = "creating"
    /\ Fault
    /\ Refuse
    /\ UNCHANGED <<stop, startAbandoned, visible, handles, works>>

StartFails ==
    /\ start \in {"connecting", "preparing"}
    /\ Fault
    /\ Refuse
    /\ UNCHANGED <<stop, startAbandoned, visible, handles, works>>

\* consume() of a level resolves, or rejects.
Opens(l) ==
    /\ membership[l] = "joining"
    /\ membership' = [membership EXCEPT ![l] = "open"]
    /\ UNCHANGED <<calls, handles, works, faults>>

OpenFails(l) ==
    /\ membership[l] = "joining"
    /\ Fault
    /\ membership' = [membership EXCEPT ![l] = "failed"]
    /\ UNCHANGED <<calls, handles, works>>

Opened == start = "joining" /\ \A l \in Levels : membership[l] # "joining"

\* A level failed, or a retry delay is too long for a client that cannot pause
\* (which the options decide, and only this step reads): all are closed again.
Unwind ==
    /\ Opened
    /\ Finish
    /\ ready' = TRUE
    /\ start' = "unwinding"
    /\ membership' = [l \in Levels |-> IF membership[l] = "open" THEN "leaving" ELSE "failed"]
    /\ UNCHANGED <<stop, startAbandoned, visible, handles, works, faults>>

Unwound ==
    /\ start = "unwinding" /\ LeavingDone
    /\ Refuse
    /\ UNCHANGED <<stop, startAbandoned, visible, handles, works, faults>>

\* All joined: the consumer runs, or lets the stop that began meanwhile finish.
Runs ==
    /\ Opened
    /\ \A l \in Levels : membership[l] = "open"
    /\ handles' = Levels
    /\ ready' = TRUE
    /\ IF stop = "none"
       THEN state' = "running" /\ start' = "returned"
       ELSE start' = "awaiting" /\ UNCHANGED state
    /\ UNCHANGED <<subscribed, stop, startAbandoned, visible, membership, works, faults>>

\* Variant: the stop is trusted to have closed what start() opened.
GivesWayTrusting ==
    /\ start = "awaiting" /\ stop = "done"
    /\ start' = "leaving"
    /\ UNCHANGED <<subscribed, state, stop, ready, startAbandoned, visible, membership, handles, works, faults>>

\* `stopping` settled: what it left open is closed here.
GivesWay ==
    /\ start = "awaiting" /\ stop = "done"
    /\ start' = "leaving"
    /\ Leave
    /\ UNCHANGED <<subscribed, state, stop, ready, startAbandoned, visible, works, faults>>

GaveWay ==
    /\ start = "leaving" /\ LeavingDone
    /\ start' = "refused"
    /\ UNCHANGED <<subscribed, state, stop, ready, startAbandoned, visible, membership, handles, works, faults>>

-----------------------------------------------------------------------------
(* The adapter and the handlers. *)

\* The pipeline has the delivery of p on a running consumer: it is active, and
\* decodes, or it parks.
Processed(p) ==
    \/ delivery' = [delivery EXCEPT ![p] = "active"] /\ UNCHANGED <<parked, paused>>
    \/ /\ Level(p) > 0 /\ parked[p] = "none"
       /\ delivery' = [delivery EXCEPT ![p] = "none"]
       /\ parked' = [parked EXCEPT ![p] = "sleeping"]
       /\ paused' = paused \union {p}

\* receive(): straight to the pipeline, or behind `ready`.
Deliver(p) ==
    /\ Read(p)
    /\ membership[Level(p)] = "open"
    /\ delivery[p] = "none" /\ p \notin paused /\ delivered[p] < Records
    /\ delivered' = [delivered EXCEPT ![p] = @ + 1]
    /\ IF state = "running"
       THEN Processed(p)
       ELSE delivery' = [delivery EXCEPT ![p] = "queued"] /\ UNCHANGED <<parked, paused>>
    /\ UNCHANGED <<calls, membership, handles, handling, gate, passing, faults>>

\* What waited for `ready` goes on, or settles at once when the consumer does not run.
ReadyReached(p) ==
    /\ delivery[p] = "queued" /\ ready
    /\ IF state = "running"
       THEN Processed(p)
       ELSE delivery' = [delivery EXCEPT ![p] = "none"] /\ UNCHANGED <<parked, paused>>
    /\ UNCHANGED <<calls, membership, handles, handling, delivered, gate, passing, faults>>

\* Variant: that a shutdown gave up while the record was decoded is not looked at.
CalledAnyway(p) ==
    /\ p \notin handling
    /\ delivery[p] \in {"active", "abandoned"} \/ parked[p] \in {"active", "abandoned"}
    /\ handling' = handling \union {p}
    /\ UNCHANGED <<calls, membership, handles, delivery, delivered, parked, paused, gate, passing, faults>>

\* toMessage() resolved, and no shutdown gave up on the record meanwhile.
HandlerCalled(p) ==
    /\ p \notin handling
    /\ delivery[p] = "active" \/ parked[p] = "active"
    /\ handling' = handling \union {p}
    /\ UNCHANGED <<calls, membership, handles, delivery, delivered, parked, paused, gate, passing, faults>>

\* The delivery is over: the handler returned, or was never called.
DeliveryEnds(p) ==
    /\ delivery[p] \in {"active", "abandoned"}
    /\ delivery' = [delivery EXCEPT ![p] = "none"]
    /\ handling' = handling \ {p}
    /\ UNCHANGED <<calls, membership, handles, delivered, parked, paused, gate, passing, faults>>

ReentryEnds(p) ==
    /\ parked[p] = "active"
    /\ ReentryOver(p, "none")
    /\ handling' = handling \ {p}
    /\ UNCHANGED <<calls, membership, handles, delivery, delivered, faults>>

AbandonedEnds(p) ==
    /\ parked[p] = "abandoned"
    /\ parked' = [parked EXCEPT ![p] = "none"]
    /\ handling' = handling \ {p}
    /\ UNCHANGED <<calls, membership, handles, delivery, delivered, paused, gate, passing, faults>>

\* stopFromPipeline(): a handler aborted, or the pipeline itself failed.
PipelineStops(p) ==
    /\ delivery[p] = "active" /\ stop = "none"
    /\ Fault
    /\ delivery' = [delivery EXCEPT ![p] = "none"]
    /\ handling' = handling \ {p}
    /\ BeginDraining
    /\ UNCHANGED <<start, ready, startAbandoned, visible, membership, handles, delivered>>

\* settleRevoked() of a parked partition: it comes back and flows again.
Revoke(p) ==
    /\ p \in Parked
    /\ membership[Level(p)] = "open"
    /\ Fault
    /\ DiscardParked({p}, [l \in Levels |-> Without(gate[l].waiting, p)])
    /\ paused' = paused \ {p}
    /\ delivered' = [delivered EXCEPT ![p] = 0]
    /\ UNCHANGED <<calls, membership, handles, delivery, handling>>

\* handle.stop() is done once the deliveries of its level are settled, or it
\* rejects: leave() waits for either (consumer.ts:756).
Leaves(l) ==
    /\ membership[l] = "leaving"
    /\ \A p \in On(l) : delivery[p] \notin {"queued", "active"}
    /\ membership' = [membership EXCEPT ![l] = "left"]
    /\ UNCHANGED <<calls, handles, works, faults>>

-----------------------------------------------------------------------------
Init ==
    /\ NothingSubscribed
    /\ state = "idle" /\ start = "none" /\ stop = "none"
    /\ ready = FALSE /\ startAbandoned = FALSE /\ visible = FALSE
    /\ membership = [l \in Levels |-> "none"]
    /\ handles = {}
    /\ delivery = [p \in Partitions |-> "none"]
    /\ handling = {}
    /\ delivered = [p \in Partitions |-> 0]
    /\ parked = [p \in Partitions |-> "none"]
    /\ paused = {}
    /\ gate = [l \in Levels |-> [active |-> 0, waiting |-> <<>>]]
    /\ passing = [l \in Levels |-> 0]
    /\ faults = 0

Next ==
    \/ \E t \in Requests : Subscribe(t)
    \/ Start \/ Connected \/ StartFails
    \/ Looked \/ CreateTopics \/ TopicsAppear \/ Created \/ CreationFails
    \/ Unwind \/ Unwound \/ Runs \/ GivesWay \/ GaveWay
    \/ Stop \/ StartSettled \/ AbandonStart \/ Drained \/ DeadlinePasses \/ Left
    \/ \E l \in Levels : Opens(l) \/ OpenFails(l) \/ Leaves(l) \/ PassesOn(l)
    \/ \E p \in Partitions :
          \/ Deliver(p) \/ ReadyReached(p) \/ HandlerCalled(p) \/ DeliveryEnds(p) \/ PipelineStops(p)
          \/ TimeComes(p) \/ WokenGoesOn(p) \/ ReentryEnds(p) \/ AbandonedEnds(p) \/ Revoke(p)

\* Promises that are settled go on, deadlines pass, an adapter stops once its
\* deliveries are settled and retry delays end.  The broker may never answer,
\* and a handler may never return.
Fairness ==
    /\ WF_vars(StartSettled) /\ WF_vars(AbandonStart) /\ WF_vars(Drained)
    /\ WF_vars(DeadlinePasses) /\ WF_vars(Left)
    /\ WF_vars(Unwind \/ Unwound \/ Runs \/ GivesWay \/ GaveWay)
    /\ \A l \in Levels : WF_vars(Leaves(l)) /\ WF_vars(PassesOn(l))
    /\ \A p \in Partitions :
          WF_vars(ReadyReached(p)) /\ WF_vars(TimeComes(p)) /\ WF_vars(WokenGoesOn(p))

Spec == Init /\ [][Next]_vars /\ Fairness

-----------------------------------------------------------------------------
TypeOK ==
    /\ state \in {"idle", "starting", "running", "stopping", "stopped"}
    /\ start \in {"none", "connecting", "preparing", "creating", "joining", "unwinding",
                  "awaiting", "leaving", "returned", "refused"}
    /\ stop \in {"none", "waiting", "draining", "leaving", "done"}
    /\ {ready, startAbandoned, visible} \subseteq BOOLEAN
    /\ membership \in [Levels -> {"none", "joining", "open", "failed", "leaving", "left"}]
    /\ handles \subseteq Levels /\ paused \subseteq Partitions /\ handling \subseteq Partitions
    /\ delivery \in [Partitions -> {"none", "queued", "active", "abandoned"}]
    /\ parked \in [Partitions -> {"none", "sleeping", "waiting", "woken", "active", "abandoned"}]
    /\ delivered \in [Partitions -> 0..Records] /\ faults \in 0..MaxFaults
    /\ gate \in [Levels -> [active : Nat, waiting : Seq(Partitions)]]
    /\ passing \in [Levels -> Nat]

\* Whatever it subscribed to before it starts, in whatever order: no message is
\* sent round, and every message keeps to the subscription it belongs to.
SubscriptionsAgree == state = "idle" => RefusedWhenClashing
FailuresEnd == state = "idle" => FailuresRunOut
OwnersKept  == state = "idle" => StaysWithItsOwner

\* The slots of a level are those of its re-entries, never more than allowed,
\* and nobody waits for a slot that is free unless someone was woken for it.
SlotsHandedOn ==
    TypeOK /\ \A l \in Levels :
        /\ gate[l].active = Cardinality(ReentriesOf(On(l)))
        /\ gate[l].active <= concurrency
        /\ Range(gate[l].waiting) = {p \in On(l) : parked[p] = "waiting"}
        /\ gate[l].waiting # <<>> /\ gate[l].active < concurrency
             => passing[l] > 0 \/ \E p \in On(l) : parked[p] = "woken"

\* Once start() and stop() have both settled no membership is left behind,
\* whenever the stop came and whatever failed (consumer.ts:680-690, 727-752),
\* and a consumer that stopped listens to no breaker.
NothingLeftOpen ==
    /\ stop = "done" /\ start \in {"none", "returned", "refused"} =>
          \A l \in Levels : membership[l] \notin {"joining", "open", "leaving"}
    /\ state = "stopped" => breakers = {}

\* No level is joined before the topics its records are forwarded to are there,
\* which "the controller accepted them" does not say (adapters/confluent/index.ts:627-630).
JoinsWhatExists == \A l \in Levels : membership[l] # "none" => visible

Active == ActiveOf(Partitions) \union ReentriesOf(Partitions)

\* Once a stop began nothing becomes active that it does not wait for: not a
\* delivery that waited for start(), nor a parked record whose time comes, nor one
\* of a start() that was given up on.  A record that was being decoded may still
\* get its handler while the stop waits for it, and not once the stop gave up.
StopWaitsForHandlers ==
    [][stop # "none" => Active' \subseteq Active /\ (stop = "draining" \/ handling' \subseteq handling)]_vars

\* A stop ends, though the broker never answers a start() under it and handlers
\* hang; a start() that has to undo what it opened gets to the end of it; and
\* a parked record whose time came is let in, as long as slots come free.
EverythingEnds ==
    /\ stop # "none" ~> stop = "done"
    /\ start \in {"unwinding", "awaiting", "leaving"} ~> start = "refused"
    /\ (\A l \in Levels : []<>(gate[l].active < concurrency)) =>
          \A p \in Partitions : p \in Waiters ~> p \notin Waiters
=============================================================================
