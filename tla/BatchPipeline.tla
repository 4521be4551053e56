---------------------------- MODULE BatchPipeline ----------------------------
(***************************************************************************)
(* One member of a consumer group whose subscriptions take batches: the    *)
(* same ConsumerPipeline of src/src/consumer.ts as in the module of that   *)
(* name, with collect(), flushBatch() and handleBatch() where a single     *)
(* message has its handler.                                                *)
(*                                                                         *)
(* A delivery that joins a batch settles at once, except for the one that  *)
(* fills it.  So a partition has at most one delivery that has not joined  *)
(* (arrival), a batch that collects, and a batch that runs.  The client    *)
(* and the group are those of ConsumerPipeline; a partition's client does  *)
(* not deliver through a pause and waits for its open delivery before it   *)
(* releases the partition.                                                 *)
(***************************************************************************)
EXTENDS AtLeastOnce, FiniteSets

CONSTANTS
    Size,         \* subscribeBatch option: the records that fill a batch
    Concurrency,  \* consumer option: partitions a consumption runs at once
    Dlq,          \* whether a DLQ is enabled
    Undecodable,  \* messages the serializer rejects
    Overrun,      \* whether a partition may be released under a running batch
    StopWaits,    \* whether the adapter's stop() waits for the open deliveries
    MaxFaults     \* bound on rebalances, stops, crashes and failed calls

ASSUME BatchAssumption == /\ Size \in Nat \ {0}
                          /\ Concurrency \in Nat \ {0}
                          /\ Dlq \in BOOLEAN
                          /\ Overrun \in BOOLEAN
                          /\ StopWaits \in BOOLEAN
                          /\ MaxFaults \in Nat

VARIABLES
    state,        \* ConsumerPipeline.state
    gaveUp,       \* shutdownController aborted: running batches are abandoned
    arrival,      \* arrival[p]: the record of p on its way to a batch
    collecting,   \* batches[p]: the offsets collected so far
    running,      \* runningBatches[p]
    revocations,  \* how many times each partition was revoked
    stale,        \* history: partitions revoked under a delivery queued behind readiness
    paused,       \* partitions the adapter was told to pause
    assigned,     \* partitions the client delivers from
    revoking,     \* partitions whose revocation callback is running
    position,     \* position[p]: the last record of p the client delivered
    elapsed,      \* elapsed[p]: how many records of p outlived their retry delay
    faults        \* bounded by MaxFaults

memory == <<state, gaveUp, arrival, collecting, running, revocations, stale>>
client == <<paused, assigned, revoking, position>>
vars == <<ledger, memory, client, elapsed, faults>>

Nowhere == [pc |-> "none", offset |-> 0, revocation |-> 0, reentry |-> FALSE]

\* left: the records still to forward; ran: whether the handler had the batch;
\* open: the adapter waits for the delivery that filled it; reentry: a parked
\* record filled it.
NoBatch == [pc |-> "none", items |-> <<>>, left |-> {}, ran |-> FALSE,
            open |-> FALSE, reentry |-> FALSE, revocation |-> 0]

Begun(p, items) == [NoBatch EXCEPT !.pc = "decoding", !.items = items,
                                   !.revocation = revocations[p]]

Runs(p) == running[p].pc # "none"
Items(p) == {running[p].items[i] : i \in DOMAIN running[p].items}
Last(p) == running[p].items[Len(running[p].items)]
Decodable(p) == {o \in Items(p) : log[p][o] \notin Undecodable}
Least(S) == CHOOSE o \in S : \A i \in S : o <= i

OpenDelivery(p) ==
    running[p].open \/ (arrival[p].pc \in {"queued", "sleeping", "waiting"} /\ ~arrival[p].reentry)

\* A re-entry that has not ended: it holds a slot of its consumption.
HoldsSlot(p) == running[p].reentry \/ arrival[p].reentry

SameLevel(p) == {q \in Partitions : Level[q] = Level[p]}

Due(p, o) == Level[p] = 0 \/ o <= elapsed[p]
Drained == state \notin {"starting", "running"}
Lost(p) == state # "running" \/ revocations[p] # arrival[p].revocation

Fault == faults < MaxFaults /\ faults' = faults + 1 /\ UNCHANGED elapsed

-----------------------------------------------------------------------------
(* From the delivery to the batch. *)

\* The delivery ends without joining; a re-entry resumes its partition.
Dropped(p) ==
    /\ arrival' = [arrival EXCEPT ![p] = Nowhere]
    /\ paused' = IF arrival[p].reentry THEN paused \ {p} ELSE paused
    /\ UNCHANGED <<collecting, running>>

\* The record joins the batch of its partition; the one that fills it runs it.
Join(p, o, reentry) ==
    LET items == Append(collecting[p], o)
        full == Len(items) >= Size
    IN /\ arrival' = [arrival EXCEPT ![p] = Nowhere]
       /\ collecting' = [collecting EXCEPT ![p] = IF full THEN <<>> ELSE items]
       /\ running' = IF full
                     THEN [running EXCEPT ![p] = [Begun(p, items) EXCEPT !.open = ~reentry, !.reentry = reentry]]
                     ELSE running
       /\ paused' = IF reentry /\ ~full THEN paused \ {p} ELSE paused

At(p, pc, o, reentry) ==
    arrival' = [arrival EXCEPT ![p] = [pc |-> pc, offset |-> o, revocation |-> revocations[p],
                                       reentry |-> reentry]]

\* Variant: the delivery does not wait for the running batch.
CollectAtOnce(p, o, reentry) == Join(p, o, reentry)

\* collect(), up to its await.
Collect(p, o, reentry) ==
    IF Runs(p)
    THEN At(p, "waiting", o, reentry) /\ UNCHANGED <<collecting, running, paused>>
    ELSE Join(p, o, reentry)

\* process(), up to its first await: a record that is not due is parked, or
\* waits in the delivery when the pause failed.
Process(p, o) ==
    \/ Due(p, o) /\ Collect(p, o, FALSE)
    \/ /\ ~Due(p, o)
       /\ \/ At(p, "parked", o, FALSE) /\ paused' = paused \union {p}
          \/ At(p, "sleeping", o, FALSE) /\ UNCHANGED paused
       /\ UNCHANGED <<collecting, running>>

Deliver(p) ==
    LET o == position[p] + 1
    IN /\ p \in assigned \ paused
       /\ arrival[p].pc = "none"
       /\ ~OpenDelivery(p)
       /\ o <= Len(log[p])
       /\ Cardinality({q \in SameLevel(p) : OpenDelivery(q)}) < Concurrency
       /\ position' = [position EXCEPT ![p] = o]
       /\ IF state = "running"
          THEN Process(p, o)
          ELSE At(p, "queued", o, FALSE) /\ UNCHANGED <<collecting, running, paused>>
       /\ UNCHANGED <<ledger, state, gaveUp, revocations, stale, assigned, revoking, elapsed, faults>>

\* A delivery queued behind readiness.
Ready(p) ==
    /\ arrival[p].pc = "queued"
    /\ state # "starting"
    /\ IF state = "running" THEN Process(p, arrival[p].offset) ELSE Dropped(p)
    /\ UNCHANGED <<ledger, state, gaveUp, revocations, stale, assigned, revoking, position, elapsed, faults>>

\* The retry delay of a parked record passed and a slot is free.
Reenter(p) ==
    /\ arrival[p].pc = "parked"
    /\ Due(p, arrival[p].offset)
    /\ Cardinality({q \in SameLevel(p) : HoldsSlot(q)}) < Concurrency
    /\ Collect(p, arrival[p].offset, TRUE)
    /\ UNCHANGED <<ledger, state, gaveUp, revocations, stale, assigned, revoking, position, elapsed, faults>>

\* The delay waited out in the delivery ends, or the drain signal cut it.
SleepEnds(p) ==
    /\ arrival[p].pc = "sleeping"
    /\ Due(p, arrival[p].offset) \/ Drained
    /\ IF Lost(p) THEN Dropped(p) ELSE Collect(p, arrival[p].offset, FALSE)
    /\ UNCHANGED <<ledger, state, gaveUp, revocations, stale, assigned, revoking, position, elapsed, faults>>

\* Variant: what happened while the record waited is not looked at.
WakeJoins(p) ==
    /\ arrival[p].pc = "waiting"
    /\ ~Runs(p)
    /\ Join(p, arrival[p].offset, arrival[p].reentry)
    /\ UNCHANGED <<ledger, state, gaveUp, revocations, stale, assigned, revoking, position, elapsed, faults>>

\* Variant: the record that waited is left to the next owner, whoever that is.
WakeDrops(p) ==
    /\ arrival[p].pc = "waiting"
    /\ ~Runs(p)
    /\ Dropped(p)
    /\ UNCHANGED <<ledger, state, gaveUp, revocations, stale, assigned, revoking, position, elapsed, faults>>

\* The batch ahead is done: the record joins the next one, unless the batch
\* stopped the consumer or the partition was taken away.
Wake(p) ==
    /\ arrival[p].pc = "waiting"
    /\ ~Runs(p)
    /\ IF Lost(p) THEN Dropped(p) ELSE Join(p, arrival[p].offset, arrival[p].reentry)
    /\ UNCHANGED <<ledger, state, gaveUp, revocations, stale, assigned, revoking, position, elapsed, faults>>

\* maxWait passed since the batch's first record.
MaxWait(p) ==
    /\ collecting[p] # <<>>
    /\ collecting' = [collecting EXCEPT ![p] = <<>>]
    /\ running' = [running EXCEPT ![p] = Begun(p, collecting[p])]
    /\ UNCHANGED <<ledger, state, gaveUp, arrival, revocations, stale, client, elapsed, faults>>

-----------------------------------------------------------------------------
(* handleBatch().  Nothing but the batch changes, unless said otherwise. *)

Goto(p, batch) ==
    /\ running' = [running EXCEPT ![p] = batch]
    /\ UNCHANGED <<state, gaveUp, arrival, collecting, revocations, stale, client>>

\* The run is over: the delivery that filled the batch settles.
End(p) ==
    /\ running' = [running EXCEPT ![p] = NoBatch]
    /\ paused' = IF running[p].reentry THEN paused \ {p} ELSE paused
    /\ UNCHANGED <<state, gaveUp, arrival, collecting, revocations, stale, assigned, revoking, position>>

\* stopFromPipeline() and the synchronous part of doStop(): what collects and
\* what is parked is discarded, without a resume; the runs of `gone` end.
StopWith(gone) ==
    /\ state' = IF Drained THEN state ELSE "stopping"
    /\ collecting' = IF Drained THEN collecting ELSE [p \in Partitions |-> <<>>]
    /\ arrival' = [p \in Partitions |-> IF ~Drained /\ arrival[p].pc = "parked" THEN Nowhere ELSE arrival[p]]
    /\ running' = [p \in Partitions |-> IF p \in gone THEN NoBatch ELSE running[p]]
    /\ paused' = paused \ {p \in gone : running[p].reentry}
    /\ UNCHANGED <<gaveUp, revocations, stale, assigned, revoking, position>>

\* Where forwardFailed() sends the first of `left`: only what a handler
\* failed on can be retried.
Forward(p, left, ran) ==
    \/ /\ ran /\ NextLevel(p) # {}
       /\ Goto(p, [running[p] EXCEPT !.pc = "retrying", !.left = left, !.ran = ran])
    \/ Goto(p, [running[p] EXCEPT !.pc = IF Dlq THEN "deadLettering" ELSE "crashing",
                                  !.left = left, !.ran = ran])

\* Variant: the handler gets the batch before the undecodable records of it
\* went down their ladder.
HandlerFirst(p, left, ran) ==
    \/ /\ ~ran /\ Decodable(p) # {}
       /\ Goto(p, [running[p] EXCEPT !.pc = "handling", !.left = left, !.ran = TRUE])
    \/ /\ ran \/ Decodable(p) = {}
       /\ IF left # {} THEN Forward(p, left, ran)
          ELSE Goto(p, [running[p] EXCEPT !.pc = "committing", !.left = {}])

\* The next thing handleBatch() awaits, with `left` to forward: a produce, the
\* handler when it had no turn yet (or the breaker before it), the commit.
Proceed(p, left, ran) ==
    IF left # {} THEN Forward(p, left, ran)
    ELSE IF ~ran /\ Decodable(p) # {}
    THEN \E pc \in {"handling", "held"} :
             Goto(p, [running[p] EXCEPT !.pc = pc, !.left = {}, !.ran = TRUE])
    ELSE IF gaveUp THEN End(p)
    ELSE Goto(p, [running[p] EXCEPT !.pc = "committing", !.left = {}])

\* Every record of the batch went through toMessage().
Decoded(p) ==
    /\ running[p].pc = "decoding"
    /\ IF gaveUp THEN End(p) ELSE Proceed(p, Items(p) \ Decodable(p), FALSE)
    /\ UNCHANGED <<ledger, elapsed, faults>>

\* guarded() wakes: released, probed, or the hold ran out and fails the batch.
HoldWakes(p) ==
    /\ running[p].pc = "held"
    /\ IF Drained \/ revocations[p] # running[p].revocation
       THEN End(p)
       ELSE \/ Goto(p, [running[p] EXCEPT !.pc = "handling"])
            \/ Forward(p, Decodable(p), TRUE)
    /\ UNCHANGED <<ledger, elapsed, faults>>

HandlerReturns(p) ==
    /\ running[p].pc = "handling"
    /\ ResolveAll(p, Decodable(p))
    /\ Proceed(p, {}, TRUE)
    /\ UNCHANGED <<elapsed, faults>>

\* The handler threw: everything failed, or what its BatchFailedError names.
HandlerFails(p) ==
    /\ running[p].pc = "handling"
    /\ \E failed \in (SUBSET Decodable(p)) \ {{}} :
          /\ ResolveAll(p, Decodable(p) \ failed)
          /\ IF gaveUp THEN End(p) ELSE Forward(p, failed, TRUE)
    /\ UNCHANGED <<elapsed, faults>>

\* Variant: an abort ends the batch and not the consumer.
AbortEndsBatch(p) ==
    /\ running[p].pc = "handling"
    /\ Fault
    /\ End(p)
    /\ UNCHANGED ledger

\* The handler threw harbor.abort(), or its producer was fenced, alone or as
\* the cause of a BatchFailedError.
HandlerAborts(p) ==
    /\ running[p].pc = "handling"
    /\ Fault
    /\ IF gaveUp THEN End(p) ELSE StopWith({p})
    /\ UNCHANGED ledger

\* A BatchFailedError names a message that is not in the batch.
HandlerNamesStranger(p) ==
    /\ running[p].pc = "handling"
    /\ Fault
    /\ IF gaveUp THEN End(p) ELSE Goto(p, [running[p] EXCEPT !.pc = "crashing"])
    /\ UNCHANGED ledger

\* The handler's transaction committed, with the offset after the last record,
\* which the coordinator takes from a member of the group that holds the partition.
HandlerTransacts(p) ==
    /\ running[p].pc = "handling"
    /\ \E o \in Decodable(p) : <<p, o>> \notin handled
    /\ p \in assigned \union revoking
    /\ TransactAll(p, Decodable(p), Last(p))
    /\ UNCHANGED <<memory, client, elapsed, faults>>

HopAcknowledged(p) ==
    LET o == Least(running[p].left)
    IN /\ \/ running[p].pc = "retrying" /\ \E t \in NextLevel(p) : Hop(p, o, t)
          \/ running[p].pc = "deadLettering" /\ DeadLetter(p, o)
       /\ Proceed(p, running[p].left \ {o}, running[p].ran)
       /\ UNCHANGED <<elapsed, faults>>

\* The produce failed; the record may have landed all the same.
HopFails(p) ==
    LET o == Least(running[p].left)
    IN /\ running[p].pc \in {"retrying", "deadLettering"}
       /\ Fault
       /\ \/ UNCHANGED ledger
          \/ running[p].pc = "retrying" /\ \E t \in NextLevel(p) : Copy(p, o, t)
          \/ running[p].pc = "deadLettering" /\ CopyToDlq(p, o)
       /\ Goto(p, [running[p] EXCEPT !.pc = "crashing"])

\* runBatch() crashes the consumer before the delivery that waits resumes.
Crash(p) ==
    /\ running[p].pc = "crashing"
    /\ StopWith({p})
    /\ UNCHANGED <<ledger, elapsed, faults>>

CommitLands(p) ==
    /\ running[p].pc = "committing"
    /\ state # "stopped"
    /\ Commit(p, Last(p))
    /\ End(p)
    /\ UNCHANGED <<elapsed, faults>>

CommitFails(p) ==
    /\ running[p].pc = "committing"
    /\ IF state = "stopped" THEN UNCHANGED <<elapsed, faults>> ELSE Fault
    /\ End(p)
    /\ UNCHANGED ledger

-----------------------------------------------------------------------------
(* The consumer's life, and the group around it. *)

Started ==
    /\ state = "starting"
    /\ state' = "running"
    /\ UNCHANGED <<ledger, gaveUp, arrival, collecting, running, revocations, stale, client, elapsed, faults>>

Stop ==
    /\ state \in {"starting", "running"}
    /\ Fault
    /\ StopWith({})
    /\ UNCHANGED ledger

\* Variant: only the delivery that filled a batch is abandoned, not a flushed batch.
GiveUpFilled ==
    /\ state = "stopping" /\ ~gaveUp
    /\ \E p \in Partitions : Runs(p) /\ running[p].open
    /\ gaveUp' = TRUE
    /\ running' = [p \in Partitions |-> [running[p] EXCEPT !.open = FALSE]]
    /\ UNCHANGED <<ledger, state, arrival, collecting, revocations, stale, client, elapsed, faults>>

\* The stop timeout passed: the running batches are abandoned, the deliveries
\* that filled them reported settled.
GiveUp ==
    /\ state = "stopping" /\ ~gaveUp
    /\ \E p \in Partitions : Runs(p)
    /\ gaveUp' = TRUE
    /\ running' = [p \in Partitions |-> [running[p] EXCEPT !.open = FALSE]]
    /\ UNCHANGED <<ledger, state, arrival, collecting, revocations, stale, client, elapsed, faults>>

\* leave() and finish(), once the running batches settled or were abandoned.
Leave ==
    /\ state = "stopping"
    /\ gaveUp \/ ~ \E p \in Partitions : Runs(p)
    /\ StopWaits => ~ \E p \in Partitions : OpenDelivery(p)
    /\ state' = "stopped"
    /\ assigned' = {}
    /\ revoking' = {}
    /\ paused' = {}
    /\ UNCHANGED <<ledger, gaveUp, arrival, collecting, running, revocations, stale, position, elapsed, faults>>

\* Variant: the batch goes on collecting.
RevokeKeepsBatch(p) ==
    /\ p \in assigned
    /\ state \in {"starting", "running", "stopping"}
    /\ Fault
    /\ assigned' = assigned \ {p}
    /\ revoking' = revoking \union {p}
    /\ revocations' = [revocations EXCEPT ![p] = @ + 1]
    /\ stale' = IF arrival[p].pc = "queued" THEN stale \union {p} ELSE stale
    /\ IF arrival[p].pc = "parked"
       THEN arrival' = [arrival EXCEPT ![p] = Nowhere] /\ paused' = paused \ {p}
       ELSE UNCHANGED <<arrival, paused>>
    /\ UNCHANGED <<ledger, state, gaveUp, collecting, running, position>>

\* A rebalance takes p away: its batch runs now, its parked record is dropped.
\* A delivery queued behind readiness passes for a fresh one afterwards (the
\* run QueuedBehindReady of ConsumerPipeline) and joins a batch on a partition
\* that is gone: what is said of batches below leaves such partitions out.
Revoke(p) ==
    /\ p \in assigned
    /\ state \in {"starting", "running", "stopping"}
    /\ Fault
    /\ assigned' = assigned \ {p}
    /\ revoking' = revoking \union {p}
    /\ revocations' = [revocations EXCEPT ![p] = @ + 1]
    /\ stale' = IF arrival[p].pc = "queued" THEN stale \union {p} ELSE stale
    /\ collecting' = [collecting EXCEPT ![p] = <<>>]
    /\ running' = IF collecting[p] = <<>> THEN running
                  ELSE [running EXCEPT ![p] = Begun(p, collecting[p])]
    /\ IF arrival[p].pc = "parked"
       THEN arrival' = [arrival EXCEPT ![p] = Nowhere] /\ paused' = paused \ {p}
       ELSE UNCHANGED <<arrival, paused>>
    /\ UNCHANGED <<ledger, state, gaveUp, position>>

\* The client releases p once its batch ran and its delivery settled; with
\* Overrun the batch may have outlived maxProcessingTime.
Release(p) ==
    /\ p \in revoking
    /\ arrival[p].pc = "none"
    /\ Overrun \/ gaveUp \/ ~Runs(p)
    /\ revoking' = revoking \ {p}
    /\ paused' = paused \ {p}
    /\ UNCHANGED <<ledger, memory, assigned, position, elapsed, faults>>

\* As for single messages: the group has committed on p before, or is fromBeginning.
Assign(p) ==
    /\ p \notin assigned \union revoking
    /\ state \in {"starting", "running"}
    /\ assigned' = assigned \union {p}
    /\ position' = [position EXCEPT ![p] = committed[p]]
    /\ UNCHANGED <<ledger, memory, paused, revoking, elapsed, faults>>

Elapse(p) ==
    /\ Level[p] > 0
    /\ elapsed[p] < Len(log[p])
    /\ elapsed' = [elapsed EXCEPT ![p] = @ + 1]
    /\ UNCHANGED <<ledger, memory, client, faults>>

\* Whoever owns p meanwhile; its batches of one stand for all.
OtherMember(p) ==
    LET o == committed[p] + 1
    IN /\ p \notin assigned \union revoking
       /\ o <= Len(log[p])
       /\ IF <<p, o>> \in handled
          THEN Commit(p, o)
          ELSE \/ Resolve(p, o)
               \/ \E t \in NextLevel(p) : Hop(p, o, t)
               \/ Dlq /\ DeadLetter(p, o)
       /\ UNCHANGED <<memory, client, elapsed, faults>>

Fresh ==
    /\ state = "starting"
    /\ gaveUp = FALSE
    /\ arrival = [p \in Partitions |-> Nowhere]
    /\ collecting = [p \in Partitions |-> <<>>]
    /\ running = [p \in Partitions |-> NoBatch]
    /\ revocations = [p \in Partitions |-> 0] /\ stale = {}
    /\ paused = {} /\ assigned = {} /\ revoking = {}
    /\ position = [p \in Partitions |-> 0]

NewConsumer ==
    /\ state' = "starting"
    /\ gaveUp' = FALSE
    /\ arrival' = [p \in Partitions |-> Nowhere]
    /\ collecting' = [p \in Partitions |-> <<>>]
    /\ running' = [p \in Partitions |-> NoBatch]
    /\ revocations' = [p \in Partitions |-> 0] /\ stale' = {}
    /\ paused' = {} /\ assigned' = {} /\ revoking' = {}
    /\ position' = [p \in Partitions |-> 0]

Restart ==
    /\ state = "stopped"
    /\ NewConsumer
    /\ UNCHANGED <<ledger, elapsed, faults>>

Die ==
    /\ state # "stopped"
    /\ Fault
    /\ NewConsumer
    /\ UNCHANGED ledger

-----------------------------------------------------------------------------
Init == LedgerInit /\ Fresh /\ elapsed = [p \in Partitions |-> 0] /\ faults = 0

\* What the pipeline does by itself, the handler apart.
PipelineStep(p) ==
    \/ Ready(p) \/ Reenter(p) \/ SleepEnds(p) \/ Wake(p) \/ MaxWait(p)
    \/ Decoded(p) \/ HoldWakes(p) \/ HopAcknowledged(p) \/ Crash(p) \/ CommitLands(p)

HandlerEnds(p) == HandlerReturns(p) \/ HandlerFails(p)

RunFails(p) == HandlerAborts(p) \/ HandlerNamesStranger(p) \/ HopFails(p) \/ CommitFails(p)

Next ==
    \/ \E p \in Partitions : PipelineStep(p) \/ HandlerEnds(p) \/ RunFails(p) \/ HandlerTransacts(p)
    \/ Started \/ Stop \/ GiveUp \/ Leave \/ Restart \/ Die
    \/ \E p \in Partitions :
          Deliver(p) \/ Revoke(p) \/ Release(p) \/ Assign(p) \/ Elapse(p) \/ OtherMember(p)

Spec == Init /\ [][Next]_vars

\* The pipeline's awaits end, the client delivers and assigns, a stop meets its
\* deadline and an operator starts the next consumer.  A handler ends, unless a
\* stop comes first: then it may hang.
Fairness ==
    /\ \A p \in Partitions : /\ WF_vars(PipelineStep(p)) /\ WF_vars(~Drained /\ HandlerEnds(p))
                             /\ WF_vars(Assign(p)) /\ WF_vars(Release(p)) /\ WF_vars(Elapse(p))
    /\ WF_vars(\E p \in Partitions : Deliver(p))
    /\ WF_vars(Started) /\ WF_vars(GiveUp) /\ WF_vars(Leave) /\ WF_vars(Restart)

FairSpec == Spec /\ Fairness

-----------------------------------------------------------------------------
TypeOK ==
    /\ LedgerTypeOK
    /\ state \in {"starting", "running", "stopping", "stopped"}
    /\ gaveUp \in BOOLEAN
    /\ \A p \in Partitions :
          /\ arrival[p].pc \in {"none", "queued", "parked", "sleeping", "waiting"}
          /\ running[p].pc \in {"none", "decoding", "held", "handling", "retrying",
                                "deadLettering", "committing", "crashing"}
          /\ arrival[p].offset \in Nat /\ arrival[p].revocation \in Nat /\ arrival[p].reentry \in BOOLEAN
          /\ running[p].left \subseteq Items(p) /\ Len(running[p].items) <= Size
          /\ Runs(p) <=> running[p].items # <<>>
          /\ {running[p].open, running[p].reentry, running[p].ran} \subseteq BOOLEAN
    /\ revocations \in [Partitions -> Nat] /\ stale \subseteq Partitions
    /\ paused \subseteq Partitions /\ assigned \subseteq Partitions /\ revoking \subseteq Partitions
    /\ position \in [Partitions -> Nat] /\ elapsed \in [Partitions -> Nat]
    /\ faults \in 0..MaxFaults

\* One batch per partition at a time: nothing collects beside a running batch,
\* and a record that waits is not overtaken by a batch that forms without it.
OneBatchAtATime ==
    TypeOK /\ \A p \in Partitions : collecting[p] # <<>> =>
        ~Runs(p) /\ arrival[p].pc # "waiting" /\ Len(collecting[p]) < Size

Consecutive(items) == \A i \in 1..(Len(items) - 1) : items[i + 1] = items[i] + 1

\* A batch is consecutive records of its partition and, but for its own,
\* nothing before them waits for an outcome: its one commit covers them all.
\* Not so where a queued delivery outlived a revocation.
BatchesInOrder ==
    \A p \in Partitions \ stale : \A items \in {collecting[p], running[p].items} :
        items # <<>> => Consecutive(items) /\ PrefixHandled(p, items[1] - 1)

\* A batch only collects on a partition this member owns: one left behind
\* after a revocation would run under the next owner.  A delivery that was
\* queued through the revocation does leave one behind.
CollectsWhatItOwns == \A p \in Partitions \ stale : collecting[p] # <<>> => p \in assigned

\* The committed offset of a partition never moves back, except by a commit in
\* flight when the shutdown gave up on its batch, or by a batch left behind as
\* CollectsWhatItOwns says.
CommitsMoveForward ==
    [][\A p \in Partitions \ stale : committed'[p] < committed[p] => gaveUp]_vars

\* Every message a producer wrote is eventually handled or dead-lettered.
EveryMessageResolved ==
    <>(\A m \in Messages : Produced(m) => m \in done \/ m \in dead)

\* A stop ends, whatever the handlers do.
ShutdownEnds == state = "stopping" ~> state # "stopping"

\* No handler starts on a consumer whose shutdown gave up.
NoLateHandler ==
    [][\A p \in Partitions :
          running'[p].pc = "handling" /\ running[p].pc # "handling" => ~gaveUp]_vars
=============================================================================
