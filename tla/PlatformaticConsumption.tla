----------------------- MODULE PlatformaticConsumption -----------------------
(***************************************************************************)
(* One consumption of src/src/adapters/platformatic/index.ts, from the     *)
(* connection it is opened on to its end: the loop that reads the client's *)
(* stream, the queue per partition with its workers in front of            *)
(* eachMessage, back-pressure, and what rebalances, a failed stream, a     *)
(* lost membership, a stop and a disconnect do to them.                    *)
(*                                                                         *)
(* Offsets count from 1; committed[p] is the last one the group is past.   *)
(* An action is a stretch of code without an await, or a step of the       *)
(* client, the group or the core, which are external.  The client hands    *)
(* the messages of different partitions over in any order, keeps what it   *)
(* had fetched through a rebalance, and replaces its assignments and tells *)
(* of it by a join event in one turn.  The core handles a record and       *)
(* commits before the delivery settles, or parks it: pauses the partition, *)
(* handles the record when it is due, and resumes.                         *)
(*                                                                         *)
(* A partition nothing was committed of is read from its first record when *)
(* the consumption is fromBeginning, else from the end of the log (mode    *)
(* 'committed', fallbackMode): what is before that is passed over.         *)
(***************************************************************************)
EXTENDS PlatformaticConnection, Naturals, Sequences, FiniteSets, SequencesExt

CONSTANTS
    Partitions,
    Records,            \* how many records each partition has
    Concurrency,        \* ConsumeOptions.concurrency
    fromBeginning,      \* ConsumeOptions.fromBeginning
    bufferedMessages,   \* messages held before the stream is left alone
    ClientBuffer,       \* bound on what the stream holds of a partition
    MaxTroubles         \* bound on what disturbs one that started: rebalances, failed
                        \* streams, opens and commits, lost memberships and the stop

ASSUME ConsumptionAssumption ==
    /\ IsFiniteSet(Partitions)
    /\ Records \in [Partitions -> Nat] /\ fromBeginning \in BOOLEAN
    /\ {Concurrency, bufferedMessages, ClientBuffer} \subseteq Nat \ {0}
    /\ MaxTroubles \in Nat

VARIABLES
    (* the group *)
    committed,    \* the group's committed offsets
    done,         \* <<p, o>>: records the group is done with: handled by this member
                  \* or another, or passed over by a stream that began behind them
    member,       \* whether the client is a member
    (* the client *)
    assignments,  \* consumer.assignments
    fetched,      \* the last offset fetched
    buffer,       \* what was fetched and not handed over
    (* the consumption *)
    gate,         \* queues, ready, running, queued, paused, lastQueued, keys, epochs
    assigned,     \* what it owned at the last join
    lost,         \* what it lost since the stream was opened
    stream,       \* whether this.stream is set
    loop,         \* the await run() stands at
    pulled,       \* the message that waits for room, as a sequence
    rotating, stopped,
    (* the core *)
    parked,       \* parked[p]: the parked record, or 0
    reentered,    \* partitions whose parked record has come back and is handled
    settled,      \* running partitions whose promise settled
    revoked,      \* running partitions whose delivery is older than a revocation
    troubles

group  == <<committed, done, member>>
client == <<assignments, fetched, buffer>>
reader == <<stream, loop, pulled, rotating, stopped>>
owned  == <<assigned, lost>>
core   == <<parked, reentered, settled, revoked>>
vars   == <<connection, group, client, gate, reader, owned, core, troubles>>

\* Bound: nothing but its stop befalls what outlived a disconnect.
Trouble == ~released /\ troubles < MaxTroubles /\ troubles' = troubles + 1

\* consume() resolved: the core has a handle, and disconnect() knows of it.
Begun == loop \notin {"none", "starting"}

-----------------------------------------------------------------------------
(* The gate in front of eachMessage, as functions of its state.  `waiting` *)
(* is the range of `ready`, `active` the number of running partitions.     *)

Running(g) == {p \in Partitions : g.running[p] # 0}

MarkReady(g, p) ==
    IF p \in Range(g.ready) \/ p \in Running(g) \/ p \in g.paused \/ g.queues[p] = <<>>
    THEN g
    ELSE [g EXCEPT !.ready = Append(@, p)]

\* deliver() up to eachMessage: a message of a partition that is not owned is
\* skipped, and what is behind it lines up again.
Take(g, p) ==
    LET h == [g EXCEPT !.queues[p] = Tail(@), !.queued = @ - 1]
    IN IF p \in assignments
       THEN [h EXCEPT !.running[p] = Head(g.queues[p]), !.epochs = @ \union {p}]
       ELSE MarkReady([h EXCEPT !.lastQueued[p] = 0, !.epochs = @ \ {p}], p)

\* One turn of dispatch().
DispatchOne(g) ==
    LET p == Head(g.ready)
        h == [g EXCEPT !.ready = Tail(@)]
    IN IF p \in g.paused THEN h ELSE Take(h, p)

SlotFree(g) == Cardinality(Running(g)) < Concurrency

Dispatch(g) ==
    LET turn[n \in Nat] ==
            IF n = 0 THEN g
            ELSE LET h == turn[n - 1]
                 IN IF SlotFree(h) /\ h.ready # <<>> THEN DispatchOne(h) ELSE h
    IN IF stopped THEN g ELSE turn[Len(g.ready) + g.queued]

\* markReady() and dispatch(), when p may go on.
Flows(g, p) == Dispatch(MarkReady(g, p))

\* The line without those of S.
Remaining(line, S) ==
    LET left[n \in 0..Len(line)] ==
            IF n = 0 THEN <<>>
            ELSE IF line[n] \in S THEN left[n - 1]
            ELSE Append(left[n - 1], line[n])
    IN left[Len(line)]

\* The places of the queues of S that hold a message.
Places(queues, S) == UNION {{p} \X DOMAIN queues[p] : p \in S}

\* Variant: the messages dropped still count.
DiscardUncounted(g, S) ==
    [g EXCEPT !.queues = [p \in Partitions |-> IF p \in S THEN <<>> ELSE g.queues[p]],
              !.ready = Remaining(@, S),
              !.keys = @ \ S]

\* discard() of every partition of S.
Discard(g, S) ==
    [g EXCEPT !.queues = [p \in Partitions |-> IF p \in S THEN <<>> ELSE g.queues[p]],
              !.queued = @ - Cardinality(Places(g.queues, S)),
              !.ready = Remaining(@, S),
              !.keys = @ \ S]

\* The rest of discard(key, true): a pause belongs to the assignment.
Forget(g, S) ==
    [g EXCEPT !.lastQueued = [p \in Partitions |-> IF p \in S THEN 0 ELSE g.lastQueued[p]],
              !.epochs = @ \ S,
              !.paused = @ \ S]

\* Variant: the refetch after a rotation is taken for a repeat.
RotatedRemembering(g) == Discard(g, g.keys)

\* What rotate() leaves of the gate.
Rotated(g) == [Discard(g, g.keys) EXCEPT !.lastQueued = [p \in Partitions |-> 0]]

\* enqueue().
Enqueued(g, p, o) ==
    IF p \notin assignments \/ o <= g.lastQueued[p] THEN g
    ELSE Flows([g EXCEPT !.lastQueued[p] = o, !.queues[p] = Append(@, o),
                         !.keys = @ \union {p}, !.queued = @ + 1], p)

\* release(), once the gate is g: the reader that waits for room goes on.
\* dispatch() calls it with each message it takes.
Release(g, halted) ==
    loop' = IF loop = "room" /\ (g.queued < bufferedMessages \/ halted) THEN "granted" ELSE loop

\* The gate becomes g after a dispatch.
GateAfter(g) ==
    /\ gate' = g
    /\ IF g.queued < gate.queued THEN Release(g, stopped) ELSE UNCHANGED loop

-----------------------------------------------------------------------------
(* The client, the group and the other members: external. *)

Fetch(p) ==
    /\ stream /\ p \in assignments /\ member
    /\ fetched[p] < Records[p] /\ Len(buffer[p]) < ClientBuffer
    /\ fetched' = [fetched EXCEPT ![p] = @ + 1]
    /\ buffer' = [buffer EXCEPT ![p] = Append(@, fetched[p] + 1)]
    /\ UNCHANGED <<connection, group, assignments, gate, reader, owned, core, troubles>>

\* Another member works on what is not this one's (what it does before this
\* consumption, and after its stop, is left out).  It finds nothing committed, too.
OtherWorks(p) ==
    /\ p \notin assignments \/ ~member
    /\ ~stopped /\ Begun
    /\ \E o \in (committed[p] + 1)..Records[p] :
          /\ o = committed[p] + 1 \/ (~fromBeginning /\ committed[p] = 0)
          /\ committed' = [committed EXCEPT ![p] = o]
          /\ done' = done \union ({p} \X ((committed[p] + 1)..o))
    /\ UNCHANGED <<connection, member, client, gate, reader, owned, core, troubles>>

Offsets == UNION {1..Records[p] : p \in Partitions}

\* Where a stream begins that finds nothing committed: the end of the log is not
\* before what was fetched from it.
StartsAfter(p) == IF fromBeginning THEN {0} ELSE fetched[p]..Records[p]

\* The stream begins to read S, of which nothing is committed, and is after
\* `places` in the other partitions.
ReadOn(S, places) ==
    \E begins \in [S -> Offsets \union {0}] :
        /\ \A p \in S : begins[p] \in StartsAfter(p)
        /\ fetched' = [p \in Partitions |-> IF p \in S THEN begins[p] ELSE places[p]]
        /\ done' = done \union UNION {{p} \X (1..begins[p]) : p \in S}

NoneCommitted == {p \in Partitions : committed[p] = 0}

-----------------------------------------------------------------------------
(* The loop: run(), pump(), backoff(). *)

\* pump() returned.
PumpReturned ==
    /\ pulled' = <<>>
    /\ stream' = FALSE
    /\ loop' = IF stopped THEN "ended" ELSE IF rotating THEN "opening" ELSE "backoff"
    /\ rotating' = (rotating /\ stopped)
    /\ UNCHANGED stopped

\* The stream yields a message, held back while too many are queued.
Pull(p) ==
    /\ loop = "pumping" /\ stream /\ ~stopped /\ buffer[p] # <<>>
    /\ buffer' = [buffer EXCEPT ![p] = Tail(@)]
    /\ IF gate.queued >= bufferedMessages
       THEN /\ loop' = "room"
            /\ pulled' = <<p, Head(buffer[p])>>
            /\ UNCHANGED gate
       ELSE /\ gate' = Enqueued(gate, p, Head(buffer[p]))
            /\ UNCHANGED <<loop, pulled>>
    /\ UNCHANGED <<connection, group, assignments, fetched, stream, rotating, stopped,
                   owned, core, troubles>>

\* There is room: the message goes in, unless the stream was replaced.
Granted ==
    /\ loop = "granted"
    /\ IF stopped \/ ~stream
       THEN PumpReturned /\ UNCHANGED gate
       ELSE /\ gate' = Enqueued(gate, pulled[1], pulled[2])
            /\ loop' = "pumping"
            /\ pulled' = <<>>
            /\ UNCHANGED <<stream, rotating, stopped>>
    /\ UNCHANGED <<connection, group, client, owned, core, troubles>>

PumpEnds ==
    /\ loop = "pumping"
    /\ ~stream \/ stopped
    /\ PumpReturned
    /\ UNCHANGED <<connection, group, client, gate, owned, core, troubles>>

\* The client gives the stream up.
StreamFails ==
    /\ loop = "pumping" /\ stream /\ ~stopped
    /\ Trouble
    /\ PumpReturned
    /\ UNCHANGED <<connection, group, client, gate, owned, core>>

\* Variant: the first failure of the stream is the last.
BackoffEndsAll ==
    /\ loop = "backoff"
    /\ loop' = "ended"
    /\ UNCHANGED <<connection, group, client, gate, stream, pulled, rotating, stopped, owned, core, troubles>>

BackoffEnds ==
    /\ loop = "backoff"
    /\ loop' = IF stopped THEN "ended" ELSE "opening"
    /\ UNCHANGED <<connection, group, client, gate, stream, pulled, rotating, stopped, owned, core, troubles>>

Opened ==
    /\ loop = "opening" /\ member
    /\ stream' = TRUE
    /\ loop' = "pumping"
    /\ assigned' = assignments
    /\ lost' = {}
    /\ ReadOn(assignments \intersect NoneCommitted, committed)
    /\ buffer' = [p \in Partitions |-> <<>>]
    /\ UNCHANGED <<connection, committed, member, assignments, gate, pulled, rotating, stopped,
                   core, troubles>>

OpenFails ==
    /\ loop = "opening" /\ ~stopped
    /\ Trouble
    /\ loop' = "backoff"
    /\ UNCHANGED <<connection, group, client, gate, stream, pulled, rotating, stopped, owned, core>>

\* open() rejects on a client that closes.
OpenRefused ==
    /\ loop = "opening" /\ stopped
    /\ loop' = "ended"
    /\ UNCHANGED <<connection, group, client, gate, stream, pulled, rotating, stopped, owned, core, troubles>>

-----------------------------------------------------------------------------
(* The events of the client. *)

\* Variant: a partition that came back is read from the old stream.
ComesBackIgnored(back) == FALSE

ComesBack(back) == back # {}

\* A rebalance completes, the client's part of it: what is fetched stays, what has
\* a committed offset is read from there, and what the stream has read nothing of
\* and nobody committed, from where such a partition begins.
Assign(A) ==
    /\ assignments' = A
    /\ ReadOn(IF stream THEN {p \in A \intersect NoneCommitted : fetched[p] = 0} ELSE {},
              [p \in Partitions |-> IF p \in A \ NoneCommitted THEN committed[p] ELSE fetched[p]])
    /\ UNCHANGED buffer

\* joined(), with the assignments A.
Joined(A) ==
    LET held == assigned \union gate.keys \union gate.epochs \union gate.paused
                  \union {p \in Partitions : gate.lastQueued[p] # 0}
        lostNow == held \ A
        rotate == ComesBack((lost \union lostNow) \intersect A) /\ stream /\ ~stopped
        g == Forget(Discard(gate, lostNow), lostNow)
        h == IF rotate THEN Rotated(g) ELSE g
    IN /\ gate' = h
       /\ assigned' = A
       /\ lost' = IF rotate THEN {} ELSE (lost \union lostNow) \ A
       /\ rotating' = (rotating \/ rotate)
       /\ stream' = (stream /\ ~rotate)
       /\ Release(h, stopped)
       /\ parked' = [p \in Partitions |-> IF p \in lostNow THEN 0 ELSE parked[p]]
       /\ reentered' = reentered \ lostNow
       /\ revoked' = revoked \union (lostNow \intersect Running(gate))
       /\ UNCHANGED <<pulled, stopped, settled>>

Rebalance(A) ==
    /\ member /\ ~stopped
    /\ Assign(A) /\ Joined(A)
    /\ Trouble
    /\ UNCHANGED <<connection, committed, member>>

\* What consume() does first for a client that is not a member.
Rejoin(A) ==
    /\ loop = "opening" /\ ~member /\ ~stopped
    /\ member' = TRUE
    /\ Assign(A) /\ Joined(A)
    /\ UNCHANGED <<connection, committed, troubles>>

\* `error`: the membership is gone, and the stream with it.
Expelled ==
    /\ member /\ ~stopped
    /\ Trouble
    /\ member' = FALSE
    /\ stream' = FALSE
    /\ UNCHANGED <<connection, committed, done, client, gate, loop, pulled, rotating, stopped, owned, core>>

-----------------------------------------------------------------------------
(* The core, behind eachMessage, pause() and resume(). *)

\* A record done: its offset is committed, or the commit fails.
Done(p, o) ==
    /\ done' = done \union {<<p, o>>}
    /\ \/ /\ member
          /\ committed' = [committed EXCEPT ![p] = o]
          /\ UNCHANGED troubles
       \/ /\ IF member THEN Trouble ELSE UNCHANGED troubles
          /\ UNCHANGED committed
    /\ UNCHANGED member

Unsettled == Running(gate) \ settled

CoreHandles(p) ==
    /\ p \in Unsettled \ revoked
    /\ Done(p, gate.running[p])
    /\ settled' = settled \union {p}
    /\ UNCHANGED <<connection, client, gate, reader, owned, parked, reentered, revoked>>

\* Revoked meanwhile, or the consumer stops: left to the next member.
CoreLeaves(p) ==
    /\ p \in Unsettled
    /\ p \in revoked \/ stopped
    /\ settled' = settled \union {p}
    /\ UNCHANGED <<connection, group, client, gate, reader, owned, parked, reentered, revoked, troubles>>

CoreParks(p) ==
    /\ p \in Unsettled \ revoked
    /\ ~stopped
    /\ parked' = [parked EXCEPT ![p] = gate.running[p]]
    /\ gate' = [gate EXCEPT !.paused = @ \union {p}]
    /\ settled' = settled \union {p}
    /\ UNCHANGED <<connection, group, client, reader, owned, reentered, revoked, troubles>>

\* The parked record's time comes, and it is handled.
Reenters(p) ==
    /\ parked[p] # 0 /\ p \notin reentered
    /\ Done(p, parked[p])
    /\ reentered' = reentered \union {p}
    /\ UNCHANGED <<connection, client, gate, reader, owned, parked, settled, revoked>>

\* resume().
Resume(p) ==
    /\ p \in reentered
    /\ parked' = [parked EXCEPT ![p] = 0]
    /\ reentered' = reentered \ {p}
    /\ GateAfter(Flows([gate EXCEPT !.paused = @ \ {p}], p))
    /\ UNCHANGED <<connection, group, client, stream, pulled, rotating, stopped, owned, settled, revoked, troubles>>

\* deliver() after eachMessage.
DeliveryEnds(p) ==
    LET freed == [gate EXCEPT !.running[p] = 0]
    IN /\ p \in settled
       /\ settled' = settled \ {p}
       /\ revoked' = revoked \ {p}
       /\ GateAfter(IF stopped THEN freed ELSE Flows(freed, p))
       /\ UNCHANGED <<connection, group, client, stream, pulled, rotating, stopped, owned, parked,
                      reentered, troubles>>

-----------------------------------------------------------------------------
(* consume(). *)

Consume ==
    /\ loop = "none" /\ connected
    /\ loop' = "starting"
    /\ UNCHANGED <<connection, group, client, gate, stream, pulled, rotating, stopped, owned, core, troubles>>

\* consumption.start() is done: the group has a member, the only one so far,
\* with a stream open and a loop over it.
Started ==
    /\ loop = "starting"
    /\ loop' = "pumping"
    /\ member' = TRUE /\ stream' = TRUE
    /\ assignments' = Partitions /\ assigned' = Partitions
    /\ ReadOn(NoneCommitted, committed)
    /\ UNCHANGED <<connection, committed, buffer, gate, pulled, rotating, stopped, lost, core, troubles>>

StartFails ==
    /\ loop = "starting"
    /\ loop' = "none"
    /\ UNCHANGED <<connection, group, client, gate, stream, pulled, rotating, stopped, owned, core, troubles>>

-----------------------------------------------------------------------------
(* stop(), disconnect(). *)

\* The reader does not wait any longer.
Halted == CASE loop = "backoff" -> "ended" [] loop = "room" -> "granted" [] OTHER -> loop

\* Up to closeConsumer().  The core forgot what it had parked.
Stops ==
    /\ stopped' = TRUE
    /\ loop' = Halted
    /\ stream' = FALSE
    /\ parked' = [p \in Partitions |-> 0] /\ reentered' = {}
    /\ UNCHANGED <<group, client, gate, pulled, rotating, owned, settled, revoked>>

\* The core stops its handle, in any case once the adapter disconnected.
Stop ==
    /\ Begun /\ ~stopped
    /\ Trouble \/ (released /\ UNCHANGED troubles)
    /\ Stops
    /\ UNCHANGED connection

\* disconnect() stops the consumptions there are: one that still starts is not
\* among them.
Disconnects ==
    /\ Disconnect
    /\ IF Begun /\ ~stopped
       THEN Stops /\ Trouble
       ELSE UNCHANGED <<group, client, gate, reader, owned, core, troubles>>

\* The client closed: it is no longer a member.
Closed ==
    /\ stopped /\ member
    /\ member' = FALSE
    /\ UNCHANGED <<connection, committed, done, client, gate, reader, owned, core, troubles>>

\* The loop is done, and what was queued goes.
StopFinishes ==
    /\ stopped /\ ~member /\ loop = "ended"
    /\ loop' = "closed"
    /\ gate' = [gate EXCEPT !.queues = [p \in Partitions |-> <<>>], !.keys = {},
                            !.ready = <<>>, !.queued = 0]
    /\ UNCHANGED <<connection, group, client, stream, pulled, rotating, stopped, owned, core, troubles>>

-----------------------------------------------------------------------------
\* The fields of a consumption as it is built.
Fields ==
    /\ gate = [queues |-> [p \in Partitions |-> <<>>], keys |-> {}, ready |-> <<>>,
               running |-> [p \in Partitions |-> 0], queued |-> 0, paused |-> {},
               lastQueued |-> [p \in Partitions |-> 0], epochs |-> {}]
    /\ lost = {}
    /\ rotating = FALSE /\ stopped = FALSE

Init ==
    /\ Disconnected
    /\ Fields
    /\ committed = [p \in Partitions |-> 0]
    /\ done = {}
    /\ member = FALSE
    /\ assignments = {} /\ assigned = {}
    /\ fetched = [p \in Partitions |-> 0]
    /\ buffer = [p \in Partitions |-> <<>>]
    /\ stream = FALSE
    /\ loop = "none"
    /\ pulled = <<>>
    /\ parked = [p \in Partitions |-> 0] /\ reentered = {}
    /\ settled = {}
    /\ revoked = {}
    /\ troubles = 0

Connecting(A) == A /\ UNCHANGED <<group, client, gate, reader, owned, core, troubles>>

Answers == Connecting(Loaded) \/ Connecting(Reached) \/ Started
Read ==
    \/ Granted \/ PumpEnds \/ BackoffEnds \/ Opened \/ OpenRefused
    \/ \E A \in SUBSET Partitions : Rejoin(A)
StopGoesOn == (released /\ Stop) \/ Closed \/ StopFinishes
Core(p) == CoreHandles(p) \/ CoreLeaves(p) \/ Reenters(p)

Next ==
    \/ Connecting(Connect) \/ Connecting(Loaded) \/ Connecting(Reached)
    \/ Connecting(AttemptFails)
    \/ Consume \/ Started \/ StartFails
    \/ \E p \in Partitions :
          \/ Fetch(p) \/ OtherWorks(p) \/ Pull(p)
          \/ CoreHandles(p) \/ CoreLeaves(p) \/ CoreParks(p) \/ Reenters(p)
          \/ Resume(p) \/ DeliveryEnds(p)
    \/ \E A \in SUBSET Partitions : Rebalance(A) \/ Rejoin(A)
    \/ Granted \/ PumpEnds \/ StreamFails \/ BackoffEnds \/ Opened \/ OpenFails \/ OpenRefused
    \/ Expelled \/ Stop \/ Disconnects \/ Closed \/ StopFinishes

\* A stream yields what it has of every partition, a connect, an open or a
\* rejoin is answered, the core settles what it has in hand, resumes what it
\* paused and closes what a disconnect left it, and other members work.
\* Nothing has to fail, rebalance, park, stop or disconnect.
Fairness ==
    /\ \A p \in Partitions :
          /\ WF_vars(Fetch(p)) /\ WF_vars(OtherWorks(p))
          /\ WF_vars(Pull(p)) /\ WF_vars(Core(p))
          /\ WF_vars(Resume(p)) /\ WF_vars(DeliveryEnds(p))
    /\ WF_vars(Answers \/ Read) /\ WF_vars(StopGoesOn)

Spec == Init /\ [][Next]_vars /\ Fairness

-----------------------------------------------------------------------------
TypeOK ==
    /\ ConnectionTypeOK
    /\ committed \in [Partitions -> Nat] /\ done \subseteq Partitions \X Nat
    /\ {member, stream, rotating, stopped} \subseteq BOOLEAN /\ troubles \in 0..MaxTroubles
    /\ fetched \in [Partitions -> Nat] /\ buffer \in [Partitions -> Seq(Nat)]
    /\ loop \in {"none", "starting", "pumping", "room", "granted", "backoff", "opening", "ended", "closed"}
    /\ UNION {assignments, assigned, lost, reentered, settled, revoked, gate.paused, gate.keys, gate.epochs}
         \subseteq Partitions
    /\ gate.queues \in [Partitions -> Seq(Nat)] /\ gate.ready \in Seq(Partitions)
    /\ gate.running \in [Partitions -> Nat] /\ gate.lastQueued \in [Partitions -> Nat]
    /\ gate.queued \in Nat
    /\ parked \in [Partitions -> Nat]

\* A partition with messages, neither in delivery nor paused, is in line once,
\* and nothing is in line while a slot is free.
EveryoneInLine ==
    /\ \A p \in Partitions :
          gate.queues[p] # <<>> /\ p \notin Running(gate) \union gate.paused /\ ~stopped
            => p \in Range(gate.ready)
    /\ IsInjective(gate.ready)
    /\ Cardinality(Running(gate)) < Concurrency /\ ~stopped => gate.ready = <<>>

\* What is counted is what is queued, never more than asked for, and a reader
\* waits for room only while there is none.
RoomIsCounted ==
    /\ gate.queued = Cardinality(Places(gate.queues, Partitions))
    /\ gate.queued <= bufferedMessages
    /\ loop = "room" => gate.queued = bufferedMessages /\ ~stopped

\* The gate, the line and the counter agree at every instant.
Consistent == TypeOK /\ EveryoneInLine /\ RoomIsCounted

\* What the group is past was handled, by whichever member, or is older than the
\* first commit and was passed over, which takes a consumption not fromBeginning.
CommittedIsDone ==
    \A p \in Partitions : \A o \in 1..committed[p] : <<p, o>> \in done

\* What was queued and dropped comes again when the stream is replaced: of what
\* the old one handed over of a partition this member kept (it has delivered from
\* it, and its queue went), the new one passes over only what is still in hand.
DroppedComesAgain ==
    [][~stream /\ stream' => \A p \in gate.epochs :
          gate.lastQueued[p] = 0 /\ buffer[p] = <<>> =>
              \A o \in 1..fetched[p] :
                  <<p, o>> \in done' \ done => o \in {gate.running[p], parked[p]}]_vars

\* What the core sees of this: a delivery until its promise settled, the pauses
\* it asked for, and the place a partition is read from next.
Delivering == [p \in Partitions |-> IF p \in settled THEN 0 ELSE gate.running[p]]
Pauses == IF stopped THEN {} ELSE gate.paused

Place(g, p) == IF g.queues[p] # <<>> THEN Head(g.queues[p]) - 1 ELSE g.lastQueued[p]
ReadUpTo == [p \in Partitions |-> IF p \notin assignments \/ stopped THEN 0 ELSE Place(gate, p)]

\* It is what the core asks of an adapter.
Contract == INSTANCE DeliveryContract WITH
    Offsets <- Offsets, delivering <- Delivering, paused <- Pauses, last <- ReadUpTo,
    fresh <- NoneCommitted

ImplementsContract == Contract!Spec

\* A stop ends the loop, wherever it stands; without one the group
\* gets done with every record.  After a disconnect no client is left, nor a consumption, of
\* whatever connect() or consume() it overtook.
EverythingSettles ==
    <>[](/\ released => ~clients /\ loop \in {"none", "closed"}
         /\ IF stopped THEN loop = "closed"
            ELSE Begun => \A p \in Partitions : \A o \in 1..Records[p] : <<p, o>> \in done)
=============================================================================
