------------------------------- MODULE Harbor -------------------------------
(***************************************************************************)
(* The harbor around its pipelines: the lazy single-flight connection and  *)
(* the shutdown of src/src/harbor.ts, the sends of src/src/producer.ts,    *)
(* and the transactions of src/src/transaction.ts, one after the other on  *)
(* the adapter's transactional producer.                                   *)
(*                                                                         *)
(* call[t] and plain[s] name the await a call of transaction() or send()   *)
(* stands at; send[<<t, n>>] is the nth send of the function of t, which   *)
(* need not await it.  An action is what runs between two awaits.          *)
(***************************************************************************)
EXTENDS TransactionalProducer, Sequences, FiniteSets

CONSTANTS
    Transactions,  \* the calls of transaction()
    TxSends,       \* pairs <<t, n>>, n > 0: the sends their functions make
    Consuming,     \* the transactions of a handler, which commit its offsets along
    Sends,         \* the calls of send()
    MaxCalls,      \* bound on calls of transaction() and send() together
    MaxFaults      \* bound on failed calls of the client

ASSUME HarborAssumption == /\ TxSends \subseteq Transactions \X (Nat \ {0})
                           /\ Consuming \subseteq Transactions
                           /\ {MaxCalls, MaxFaults, MaxTakes} \subseteq Nat

VARIABLES
    state,       \* Harbor.state
    connecting,  \* Harbor.connecting: "none", "pending", "landed" (the client is
                 \* open, then() has not run), "releasing", "done"
    held,        \* Harbor.adapterConnected
    closed,      \* closedController aborted
    shutdown,    \* the await doShutdown stands at
    expired,     \* its deadline passed
    call,        \* the calls of transaction()
    turns,       \* the calls of transaction() in the order they were made
    send,        \* the sends of their functions
    told,        \* transactions whose error is a FencedError
    lost,        \* transactions whose commit landed and was answered with an error
    plain,       \* the calls of send()
    faults       \* bounded by MaxFaults

lifecycle == <<state, connecting, held, closed, shutdown, expired>>
running   == <<call, turns, send, told, lost>>
vars == <<adapter, broker, lifecycle, running, plain, faults>>

Ended == {"committed", "rejected"}

\* A transaction open on the client, or being opened.
Open == {"opening", "running", "settling", "offsets", "committing", "unwinding", "aborting"}

Settled == {"done", "rejected"}

SendsOf(t) == {r \in TxSends : r[1] = t}

Unsettled == {"pending", "fencing", "expiring"}

\* track(): what a shutdown waits for.
Producing == \/ \E t \in Transactions : call[t] \notin Ended \union {"none"}
             \/ \E s \in Sends : plain[s] \notin Settled \union {"none"}

IsClosed == state \in {"closing", "closed"}

Called == Cardinality({t \in Transactions : call[t] # "none"})
            + Cardinality({s \in Sends : plain[s] # "none"})

Fault == faults < MaxFaults /\ faults' = faults + 1

-----------------------------------------------------------------------------
(* The connection. *)

\* The calls that await the promise of connect() go with it.
Waiting == {t \in Transactions : call[t] = "connecting"}
SendsWaiting == {s \in Sends : plain[s] = "connecting"}

\* connect(): joins the attempt in flight, or begins one.
JoinConnect ==
    IF connecting = "none"
    THEN connecting' = "pending" /\ state' = "connecting"
    ELSE UNCHANGED <<connecting, state>>

\* The application calls connect() on its own.
Connect ==
    /\ ~IsClosed /\ connecting = "none"
    /\ JoinConnect
    /\ UNCHANGED <<adapter, broker, held, closed, shutdown, expired, running, plain, faults>>

\* adapter.connect() resolved.
ConnectLands ==
    /\ connecting = "pending"
    /\ connecting' = "landed"
    /\ OpenConnection
    /\ UNCHANGED <<state, held, closed, shutdown, expired, running, plain, faults>>

\* Variant: the connection is the harbor's whatever the shutdown did.
ConnectSettlesOpen ==
    /\ connecting = "landed"
    /\ connecting' = "done"
    /\ held' = TRUE
    /\ state' = IF state = "connecting" THEN "connected" ELSE state
    /\ UNCHANGED <<adapter, broker, closed, shutdown, expired, running, plain, faults>>

\* then(): after the shutdown stopped waiting, the client is released.
ConnectSettles ==
    /\ connecting = "landed"
    /\ IF state = "closed"
       THEN /\ connecting' = "releasing"
            /\ Disconnect
            /\ UNCHANGED <<held, state>>
       ELSE /\ connecting' = "done"
            /\ held' = TRUE
            /\ state' = IF state = "connecting" THEN "connected" ELSE state
            /\ UNCHANGED <<adapter, broker>>
    /\ UNCHANGED <<closed, shutdown, expired, running, plain, faults>>

LateRelease ==
    /\ connecting = "releasing"
    /\ connecting' = "done"
    /\ UNCHANGED <<adapter, broker, state, held, closed, shutdown, expired, running, plain, faults>>

\* adapter.connect() rejected: every caller that waited is told, the next
\* one begins a new attempt.
ConnectFails ==
    /\ connecting = "pending"
    /\ Fault
    /\ connecting' = "none"
    /\ state' = IF state = "connecting" THEN "idle" ELSE state
    /\ call' = [t \in Transactions |-> IF t \in Waiting THEN "rejected" ELSE call[t]]
    /\ plain' = [s \in Sends |-> IF s \in SendsWaiting THEN "rejected" ELSE plain[s]]
    /\ UNCHANGED <<adapter, broker, held, closed, shutdown, expired, turns, send, told, lost>>

\* ensureConnected() refuses: not the client's holder, and connect() throws.
Refused == ~(held /\ ~closed) /\ IsClosed

\* ensureConnected() returns at once, or awaits connect().
EnsureConnected == IF held /\ ~closed THEN UNCHANGED <<connecting, state>> ELSE JoinConnect

\* The await of ensureConnected() is over.
Ensured == connecting = "done"

-----------------------------------------------------------------------------
(* send(): tracked from the call on, and retried unless the harbor closed. *)

SendBegins(s) ==
    /\ plain[s] = "none" /\ Called < MaxCalls
    /\ plain' = [plain EXCEPT ![s] = "encoding"]
    /\ UNCHANGED <<adapter, broker, lifecycle, running, faults>>

\* toRecords() refused a message, or the harbor the send, or it goes on.
SendEncoded(s) ==
    /\ plain[s] = "encoding"
    /\ \/ /\ plain' = [plain EXCEPT ![s] = "rejected"]
          /\ UNCHANGED <<connecting, state>>
       \/ /\ Refused
          /\ plain' = [plain EXCEPT ![s] = "rejected"]
          /\ UNCHANGED <<connecting, state>>
       \/ /\ ~Refused
          /\ plain' = [plain EXCEPT ![s] = "connecting"]
          /\ EnsureConnected
    /\ UNCHANGED <<adapter, broker, held, closed, shutdown, expired, running, faults>>

\* The first attempt, or the next one after its backoff.
SendTries(s) ==
    /\ \/ plain[s] = "connecting" /\ Ensured
       \/ plain[s] = "backoff"
    /\ plain' = [plain EXCEPT ![s] = IF closed THEN "rejected" ELSE "producing"]
    /\ UNCHANGED <<adapter, broker, lifecycle, running, faults>>

\* A release flushes the attempt under way, or fails it.
SendAcknowledged(s) ==
    /\ plain[s] = "producing"
    /\ plain' = [plain EXCEPT ![s] = "done"]
    /\ UNCHANGED <<adapter, broker, lifecycle, running, faults>>

SendFails(s) ==
    /\ plain[s] = "producing"
    /\ \/ Fault /\ \E next \in {"backoff", "rejected"} : plain' = [plain EXCEPT ![s] = next]
       \/ ~client /\ plain' = [plain EXCEPT ![s] = "rejected"] /\ UNCHANGED faults
    /\ UNCHANGED <<adapter, broker, lifecycle, running>>

-----------------------------------------------------------------------------
(* transaction(): the turn, and the client's transaction. *)

Goto(t, pc) == call' = [call EXCEPT ![t] = pc]

Ask(t) ==
    /\ call[t] = "none" /\ Called < MaxCalls
    /\ IF closed
       THEN Goto(t, "rejected") /\ UNCHANGED turns
       ELSE Goto(t, "queued") /\ turns' = Append(turns, t)
    /\ UNCHANGED <<adapter, broker, lifecycle, send, told, lost, plain, faults>>

\* The calls made before t, which its turn waits for.
Before(t) == {turns[i] : i \in {j \in DOMAIN turns : \E k \in DOMAIN turns : turns[k] = t /\ j < k}}

\* Variant: the turn is over once the function and its sends are.
TurnUnwound(t) == \A u \in Before(t) : call[u] \in Ended \union {"aborting"}

Turn(t) == \A u \in Before(t) : call[u] \in Ended

\* execute() up to its first await.
Start(t) ==
    /\ call[t] = "queued" /\ Turn(t)
    /\ IF Refused
       THEN Goto(t, "rejected") /\ UNCHANGED <<connecting, state>>
       ELSE Goto(t, "connecting") /\ EnsureConnected
    /\ UNCHANGED <<adapter, broker, held, closed, shutdown, expired, turns, send, told, lost, plain, faults>>

\* adapter.transaction(): a producer to begin on, or one to open first.
Begin(t) ==
    /\ call[t] = "connecting" /\ Ensured
    /\ \/ ~client /\ Goto(t, "rejected") /\ UNCHANGED <<adapter, broker, told>>
       \/ /\ client /\ fenced
          /\ Goto(t, "rejected") /\ told' = told \union {t}
          /\ UNCHANGED <<adapter, broker>>
       \/ /\ client /\ ~fenced /\ producer = "none"
          /\ Goto(t, "opening") /\ UNCHANGED <<adapter, broker, told>>
       \/ /\ client /\ ~fenced /\ producer = "fenced"
          /\ Goto(t, "rejected") /\ told' = told \union {t}
          /\ FencedAtBegin
       \/ /\ client /\ ~fenced /\ producer # "none"
          /\ Goto(t, "running")
          /\ overdue' = FALSE
          /\ UNCHANGED <<client, producer, fenced, discarded, broker, told>>
    /\ UNCHANGED <<lifecycle, turns, send, lost, plain, faults>>

\* The producer opened for t is ready: the function runs, unless the client
\* was released meanwhile.
Opened(t) ==
    /\ call[t] = "opening"
    /\ Reopen
    /\ Goto(t, IF client THEN "running" ELSE "rejected")
    /\ UNCHANGED <<lifecycle, turns, send, told, lost, plain, faults>>

\* A producer is being opened for t, or has one to begin on.
Beginning(t) ==
    \/ call[t] = "opening"
    \/ call[t] = "connecting" /\ Ensured /\ client /\ ~fenced /\ producer # "none"

BeginFails(t) ==
    /\ Beginning(t)
    /\ Fault
    /\ Goto(t, "rejected")
    /\ UNCHANGED <<adapter, broker, lifecycle, turns, send, told, lost, plain>>

\* The platformatic client keeps a begin it could not finish: its producer is
\* given up, and the begin tried again on a new one until adminTimeoutMs.
BeginAgain(t) ==
    /\ Beginning(t)
    /\ Fault
    /\ producer' = "none"
    /\ Goto(t, "connecting") \/ Goto(t, "rejected")
    /\ UNCHANGED <<client, fenced, discarded, overdue, broker, lifecycle, turns, send, told, lost, plain>>

-----------------------------------------------------------------------------
(* The function of a transaction and its sends, awaited or not. *)

TxSend(r) ==
    /\ call[r[1]] = "running"
    /\ send[r] = "none"
    /\ send' = [send EXCEPT ![r] = IF closed THEN "refused" ELSE "pending"]
    /\ UNCHANGED <<adapter, broker, lifecycle, call, turns, told, lost, plain, faults>>

\* The broker acknowledged, or the acknowledgment was lost.
TxSendLands(r) ==
    /\ send[r] = "pending"
    /\ Answers(r[1])
    /\ Add(r)
    /\ \/ send' = [send EXCEPT ![r] = "acked"] /\ UNCHANGED faults
       \/ send' = [send EXCEPT ![r] = "failed"] /\ Fault
    /\ UNCHANGED <<adapter, lifecycle, call, turns, told, lost, plain>>

\* The broker refused, the value did not encode, or the producer went.
TxSendFails(r) ==
    /\ send[r] = "pending"
    /\ \/ Fault
       \/ (~client \/ r[1] \in discarded) /\ UNCHANGED faults
    /\ send' = [send EXCEPT ![r] = "failed"]
    /\ UNCHANGED <<adapter, broker, lifecycle, call, turns, told, lost, plain>>

\* failed(): the time is read, the producer dropped, and its disconnect
\* awaited before the connection is marked.
TxSendFenced(r) ==
    /\ send[r] = "pending"
    /\ AnswersFenced(r[1])
    /\ Discard(r[1])
    /\ send' = [send EXCEPT ![r] = IF IsFence THEN "fencing" ELSE "expiring"]
    /\ UNCHANGED <<client, fenced, overdue, broker, lifecycle, call, turns, told, lost, plain, faults>>

TxSendDropped(r) ==
    /\ \/ /\ send[r] = "fencing"
          /\ fenced' = TRUE
          /\ told' = told \union {r[1]}
       \/ /\ send[r] = "expiring"
          /\ UNCHANGED <<fenced, told>>
    /\ send' = [send EXCEPT ![r] = "failed"]
    /\ UNCHANGED <<client, producer, discarded, overdue, broker, lifecycle, call, turns, lost, plain, faults>>

\* The function resolves, or throws; its scope closes either way.
FunctionReturns(t) ==
    /\ call[t] = "running"
    /\ Goto(t, "settling")
    /\ UNCHANGED <<adapter, broker, lifecycle, turns, send, told, lost, plain, faults>>

FunctionThrows(t) ==
    /\ call[t] = "running"
    /\ Goto(t, "unwinding")
    /\ UNCHANGED <<adapter, broker, lifecycle, turns, send, told, lost, plain, faults>>

\* Variant: only the sends that failed so far are looked at.
SendsSettleEarly(t) ==
    /\ call[t] = "settling"
    /\ Goto(t, IF closed \/ \E r \in SendsOf(t) : send[r] = "failed" THEN "unwinding"
               ELSE IF t \in Consuming THEN "offsets" ELSE "committing")
    /\ UNCHANGED <<adapter, broker, lifecycle, turns, send, told, lost, plain, faults>>

\* Promise.all(sends), then what is left to do.
SendsSettle(t) ==
    /\ call[t] = "settling"
    /\ \/ /\ \E r \in SendsOf(t) : send[r] = "failed"
          /\ Goto(t, "unwinding")
       \/ /\ \A r \in SendsOf(t) : send[r] \notin Unsettled \union {"failed"}
          /\ Goto(t, IF closed THEN "unwinding"
                     ELSE IF t \in Consuming THEN "offsets" ELSE "committing")
    /\ UNCHANGED <<adapter, broker, lifecycle, turns, send, told, lost, plain, faults>>

-----------------------------------------------------------------------------
(* The end of a transaction. *)

OffsetsLand(t) ==
    /\ call[t] = "offsets"
    /\ Answers(t)
    /\ Add(<<t, 0>>)
    /\ Goto(t, "committing")
    /\ UNCHANGED <<adapter, lifecycle, turns, send, told, lost, plain, faults>>

CommitLands(t) ==
    /\ call[t] = "committing"
    /\ Answers(t)
    /\ CommitOpen
    /\ \/ Goto(t, "committed") /\ UNCHANGED <<lost, faults>>
       \/ Goto(t, "unwinding") /\ lost' = lost \union {t} /\ Fault
    /\ UNCHANGED <<adapter, lifecycle, turns, send, told, plain>>

\* sendOffsets() or commit() failed without an effect.
StepFails(t) ==
    /\ call[t] \in {"offsets", "committing"}
    /\ \/ Fault
       \/ ~client /\ UNCHANGED faults
    /\ Goto(t, "unwinding")
    /\ UNCHANGED <<adapter, broker, lifecycle, turns, send, told, lost, plain>>

StepFenced(t) ==
    /\ call[t] \in {"offsets", "committing"}
    /\ AnswersFenced(t)
    /\ Fail(t)
    /\ told' = IF IsFence THEN told \union {t} ELSE told
    /\ Goto(t, "unwinding")
    /\ UNCHANGED <<lifecycle, turns, send, lost, plain, faults>>

\* Variant: the abort does not wait for the sends.
UnwindAtOnce(t) ==
    /\ call[t] = "unwinding"
    /\ Goto(t, "aborting")
    /\ UNCHANGED <<adapter, broker, lifecycle, turns, send, told, lost, plain, faults>>

\* Promise.allSettled(sends) before the abort.
Unwind(t) ==
    /\ call[t] = "unwinding"
    /\ \A r \in SendsOf(t) : send[r] \notin Unsettled
    /\ Goto(t, "aborting")
    /\ UNCHANGED <<adapter, broker, lifecycle, turns, send, told, lost, plain, faults>>

\* abort(), best effort: nothing to abort through a producer dropped before.
Abort(t) ==
    /\ call[t] = "aborting"
    /\ \/ t \in discarded /\ UNCHANGED <<adapter, broker, faults>>
       \/ Answers(t) /\ AbortOpen /\ UNCHANGED <<adapter, faults>>
       \/ AnswersFenced(t) /\ Fail(t) /\ UNCHANGED faults
       \/ t \notin discarded /\ client /\ Fault /\ AbortFails(t)
       \/ t \notin discarded /\ ~client /\ AbortFails(t) /\ UNCHANGED faults
    /\ Goto(t, "rejected")
    /\ UNCHANGED <<lifecycle, turns, send, told, lost, plain>>

\* The transaction in progress is open past its timeout.
Overdue ==
    /\ ~overdue
    /\ \E t \in Transactions : call[t] \in Open \ {"opening"}
    /\ overdue' = TRUE
    /\ UNCHANGED <<client, producer, fenced, discarded, broker, lifecycle, running, plain, faults>>

-----------------------------------------------------------------------------
(* shutdown(). *)

Shutdown ==
    /\ shutdown = "none"
    /\ shutdown' = "consumers"
    /\ state' = "closing"
    /\ UNCHANGED <<adapter, broker, connecting, held, closed, expired, running, plain, faults>>

\* Every consumer.stop() settled.
ConsumersStopped ==
    /\ shutdown = "consumers"
    /\ shutdown' = "connect"
    /\ UNCHANGED <<adapter, broker, state, connecting, held, closed, expired, running, plain, faults>>

ConnectWaited ==
    /\ shutdown = "connect"
    /\ connecting \notin {"pending", "landed"} \/ expired
    /\ shutdown' = "drain"
    /\ UNCHANGED <<adapter, broker, state, connecting, held, closed, expired, running, plain, faults>>

\* closedController.abort(), with the transaction runner's listener, up to the
\* await of the release.
Close(refused) ==
    /\ closed' = TRUE
    /\ call' = [t \in Transactions |-> IF t \in refused THEN "rejected" ELSE call[t]]
    /\ IF held
       THEN Disconnect /\ shutdown' = "disconnect" /\ UNCHANGED state
       ELSE /\ shutdown' = "done" /\ state' = "closed"
            /\ UNCHANGED <<adapter, broker>>
    /\ UNCHANGED <<connecting, held, expired, turns, send, told, lost, plain, faults>>

Queued == {t \in Transactions : call[t] = "queued"}

\* Variant: only the transaction in progress is waited for, not its queue.
DrainedInProgress ==
    /\ shutdown = "drain"
    /\ \/ expired
       \/ /\ \A t \in Transactions : call[t] \notin Open
          /\ \A s \in Sends : plain[s] \in Settled \union {"none"}
    /\ Close(Queued)

\* Variant: the calls that wait for their turn are not refused.
DrainedUnrefused ==
    /\ shutdown = "drain"
    /\ ~Producing \/ expired
    /\ Close({})

\* Variant: the deadline does not end the wait.
DrainedUnbounded ==
    /\ shutdown = "drain"
    /\ ~Producing
    /\ Close(Queued)

\* The loop over what is in flight, with what began meanwhile.
Drained ==
    /\ shutdown = "drain"
    /\ ~Producing \/ expired
    /\ Close(Queued)

\* adapter.disconnect() settled.
Disconnected ==
    /\ shutdown = "disconnect"
    /\ shutdown' = "done"
    /\ state' = "closed"
    /\ UNCHANGED <<adapter, broker, connecting, held, closed, expired, running, plain, faults>>

\* The shutdown's timeout.
Expire ==
    /\ shutdown \notin {"none", "done"} /\ ~expired
    /\ expired' = TRUE
    /\ UNCHANGED <<adapter, broker, state, connecting, held, closed, shutdown, running, plain, faults>>

-----------------------------------------------------------------------------
Init ==
    /\ AdapterInit /\ BrokerInit
    /\ state = "idle"
    /\ connecting = "none"
    /\ held = FALSE
    /\ closed = FALSE
    /\ shutdown = "none"
    /\ expired = FALSE
    /\ call = [t \in Transactions |-> "none"]
    /\ turns = <<>>
    /\ send = [r \in TxSends |-> "none"]
    /\ told = {}
    /\ lost = {}
    /\ plain = [s \in Sends |-> "none"]
    /\ faults = 0

Connection == Connect \/ ConnectLands \/ ConnectSettles \/ LateRelease \/ ConnectFails

Sending(s) == SendBegins(s) \/ SendEncoded(s) \/ SendTries(s) \/ SendAcknowledged(s) \/ SendFails(s)

Transacting(t) ==
    \/ Ask(t) \/ Start(t) \/ Begin(t) \/ Opened(t)
    \/ BeginFails(t) \/ BeginAgain(t)
    \/ FunctionReturns(t) \/ FunctionThrows(t) \/ SendsSettle(t)
    \/ OffsetsLand(t) \/ CommitLands(t) \/ StepFails(t) \/ StepFenced(t)
    \/ Unwind(t) \/ Abort(t)

TxSending(r) ==
    TxSend(r) \/ TxSendLands(r) \/ TxSendFails(r) \/ TxSendFenced(r) \/ TxSendDropped(r)

Closing == Shutdown \/ ConsumersStopped \/ ConnectWaited \/ Drained \/ Disconnected \/ Expire

OtherInstance == OtherTakes /\ UNCHANGED <<lifecycle, running, plain, faults>>

TimesOut == BrokerTimesOut /\ UNCHANGED <<lifecycle, running, plain, faults>>

Next ==
    \/ Connection
    \/ Closing
    \/ \E s \in Sends : Sending(s)
    \/ \E t \in Transactions : Transacting(t)
    \/ \E r \in TxSends : TxSending(r)
    \/ Overdue
    \/ OtherInstance
    \/ TimesOut

Spec == Init /\ [][Next]_vars

\* What runs on its own: the harbor's continuations and the clock.  A
\* connection may never be answered, a function may never return, and the stop
\* of a consumer and the client's disconnect have no bound here: none is fair.
FairSpec ==
    /\ Spec
    /\ WF_vars(ConnectSettles) /\ WF_vars(ConnectWaited)
    /\ WF_vars(Drained) /\ WF_vars(Expire)

-----------------------------------------------------------------------------
(* Properties. *)

Records == TxSends \union {<<t, 0>> : t \in Consuming}

\* The shape of the state, and how the flags of the connection go together.
TypeOK ==
    /\ client \in BOOLEAN /\ fenced \in BOOLEAN /\ overdue \in BOOLEAN
    /\ producer \in {"none", "current", "fenced"}
    /\ discarded \subseteq Transactions
    /\ holder \in {"nobody", "harbor", "other"}
    /\ open \subseteq Records /\ visible \subseteq Records
    /\ takes \in 0..MaxTakes /\ faults \in 0..MaxFaults
    /\ state \in {"idle", "connecting", "connected", "closing", "closed"}
    /\ connecting \in {"none", "pending", "landed", "releasing", "done"}
    /\ held \in BOOLEAN /\ closed \in BOOLEAN /\ expired \in BOOLEAN
    /\ shutdown \in {"none", "consumers", "connect", "drain", "disconnect", "done"}
    /\ held => connecting = "done"
    /\ state = "connecting" => connecting \in {"pending", "landed"}
    /\ state = "closed" <=> shutdown = "done"
    /\ call \in [Transactions -> Ended \union Open \union {"none", "queued", "connecting"}]
    /\ turns \in Seq(Transactions)
    /\ send \in [TxSends -> Unsettled \union {"none", "acked", "failed", "refused"}]
    /\ told \subseteq Transactions /\ lost \subseteq Transactions
    /\ plain \in [Sends -> Settled \union {"none", "encoding", "connecting", "producing", "backoff"}]

\* What t produced, and what of it is visible.
Produced(t) == {r \in SendsOf(t) : send[r] \notin {"none", "refused"}}
                 \union {r \in {<<t, 0>>} : t \in Consuming}
VisibleOf(t) == {r \in visible : r[1] = t}

\* A read-committed consumer sees all a transaction produced, with its
\* offsets, or none of it, through lost answers, failed aborts, fences,
\* timeouts and releases (transaction.ts:2-7).
AllOrNothing == \A t \in Transactions : VisibleOf(t) \in {{}, Produced(t)}

\* What a call of transaction() was answered is what happened: resolved, its
\* records are visible; rejected, they are not and no later commit will make
\* them, unless the answer of its own commit was lost.
OutcomeHolds ==
    \A t \in Transactions :
        /\ call[t] = "committed" => Produced(t) \subseteq visible
        /\ call[t] \in Ended \ {"committed"} /\ t \notin lost => VisibleOf(t) = {}

\* Transactions never overlap on the client, and no send of one that ended is
\* left to land in the next (transaction.ts:90-103).
OneAtATime ==
    /\ \A t, u \in Transactions : call[t] \in Open /\ call[u] \in Open => t = u
    /\ \A r \in TxSends : send[r] \in Unsettled => call[r[1]] \in Open

\* The adapter takes the id for lost only when another instance took it: a
\* transaction the broker timed out does not silence the harbor
\* (confluent/index.ts:446-464).
FencedByAnother == fenced => takes > 0

\* Once a transaction's error is that it was fenced, the harbor never takes
\* the id back from the instance that holds it (README.md:231).
FencedStaysQuiet ==
    [][told # {} => ~(holder = "other" /\ holder' = "harbor")]_vars

\* After the shutdown no client is left open, however late a connection or a
\* transactional producer was answered.
ClientReleased ==
    /\ shutdown = "done" /\ connecting \notin {"pending", "landed"} => ~client
    /\ producer # "none" => client

\* The client is released under a call only past the shutdown's timeout.
ReleasedWhenDrained == [][client /\ ~client' => expired \/ ~Producing]_vars

\* Two awaits of a shutdown have no deadline: the stops of the consumers
\* (harbor.ts:345) and the release of the client (harbor.ts:365).  Nothing holds it
\* on the way from the one to the other: no connection, send, transaction or
\* function that hangs, and none begun meanwhile.
ShutdownProceeds == shutdown \in {"connect", "drain"} ~> shutdown \in {"disconnect", "done"}

\* A call that waits for its turn once the consumers are stopped does not wait
\* for good, though the transaction in progress may never end, nor the release.
QueueReleased ==
    \A t \in Transactions :
        (shutdown \in {"connect", "drain"} /\ call[t] = "queued") ~> call[t] # "queued"
=============================================================================
