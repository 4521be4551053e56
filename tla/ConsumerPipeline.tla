--------------------------- MODULE ConsumerPipeline ---------------------------
(***************************************************************************)
(* One member of a consumer group: the ConsumerPipeline of                 *)
(* src/src/consumer.ts with single-message subscriptions, from the         *)
(* delivery of a record to the commit of the offset after it.              *)
(*                                                                         *)
(* A work is one run of receive(): a delivery of the adapter, or the       *)
(* re-entry of a parked retry message.  Its pc names the await it stands   *)
(* at.  Between two awaits the code is synchronous, so an action is one    *)
(* such stretch with everything it changes.  Time is not modelled, except  *)
(* for what a retry delay tells: the records of a retry topic become due   *)
(* in the order of their offsets, and stay due.  A deadline passes and a   *)
(* hold runs out at any moment.                                            *)
(*                                                                         *)
(* The client behind the adapter is external: it delivers the records of a *)
(* partition in order, one open delivery at a time, and rebalances as it   *)
(* likes.  The other members of the group run the same code; of them only  *)
(* what they do to the logs and offsets is kept (OtherMember).             *)
(***************************************************************************)
EXTENDS AtLeastOnce, FiniteSets

CONSTANTS
    Works,        \* names for the works in flight
    Concurrency,  \* consumer option: partitions a consumption runs at once
    Dlq,          \* whether a DLQ is enabled
    SharedDlq,    \* whether it is one DLQ for all the owners of a shared retry topic
    Undecodable,  \* messages the serializer rejects
    Unplaced,     \* messages whose tracking block names no owner of a shared retry topic
    Overrun,      \* whether a partition may be released under a running work (see Release)
    PauseLeaks,   \* whether the adapter may deliver on a paused partition
    MaxFaults,    \* bound on rebalances, stops, crashes, failed calls and leaking pauses
    NONE

ASSUME PipelineAssumption == /\ Concurrency \in Nat \ {0}
                             /\ Dlq \in BOOLEAN
                             /\ SharedDlq \in BOOLEAN /\ (SharedDlq => Dlq)
                             /\ Overrun \in BOOLEAN
                             /\ PauseLeaks \in BOOLEAN
                             /\ MaxFaults \in Nat
                             /\ NONE \notin Works \union Partitions

VARIABLES
    state,        \* ConsumerPipeline.state
    stopReason,   \* ConsumerPipeline.stopReason
    gaveUp,       \* shutdownController aborted: running handlers are abandoned
    work,         \* the works in flight (deliveries, and what parked holds)
    parked,       \* parked[p]: the work waiting for its retry delay, or NONE
    revocations,  \* how many times each partition was revoked
    paused,       \* partitions the adapter was told to pause
    assigned,     \* partitions the client delivers from
    revoking,     \* partitions whose revocation callback is running
    position,     \* position[p]: the last record of p the client delivered
    elapsed,      \* elapsed[p]: how many records of p outlived their retry delay
    faults        \* bounded by MaxFaults

memory == <<state, stopReason, gaveUp, work, parked, revocations>>
client == <<paused, assigned, revoking, position>>
vars == <<ledger, memory, client, elapsed, faults>>

\* Where a running handler or a forward stands: Delivery.active in the code.
ActivePcs == {"decoding", "held", "handling", "retrying", "deadLettering",
              "committing", "crashing"}
Pcs == {"free", "arrived", "parked", "behind", "sleeping"} \union ActivePcs

Free == [pc |-> "free", partition |-> NONE, offset |-> 0, received |-> 0,
         revocation |-> 0, reentry |-> FALSE, open |-> FALSE, ahead |-> NONE]

Active(w) == work[w].pc \in ActivePcs
On(p) == {w \in Works : work[w].pc # "free" /\ work[w].partition = p}

\* The works of one consumption: each level is a group member of its own.
SameLevel(p) == {w \in Works : work[w].pc # "free" /\ Level[work[w].partition] = Level[p]}

RecordOf(w) == log[work[w].partition][work[w].offset]

\* Whether the retry delay of the record passed; an original topic has none.
Due(p, o) == Level[p] = 0 \/ o <= elapsed[p]

Fault == faults < MaxFaults /\ faults' = faults + 1 /\ UNCHANGED elapsed

-----------------------------------------------------------------------------
(* A work ends: its promise settles, a behind work that waited for it is   *)
(* woken, a re-entry frees its slot and resumes the partition.             *)

\* Variant: a behind work is not woken.
WithoutWaking(S) == [w \in Works |-> IF w \in S THEN Free ELSE work[w]]

Without(S) ==
    [w \in Works |-> IF w \in S THEN Free
                     ELSE IF work[w].ahead \in S THEN [work[w] EXCEPT !.ahead = NONE]
                     ELSE work[w]]

\* Variant: the pause outlives the re-entry.
ResumedNever(S) == paused

Resumed(S) == paused \ {work[w].partition : w \in {v \in S : work[v].reentry}}

Settle(w) ==
    /\ work' = Without({w})
    /\ paused' = Resumed({w})
    /\ UNCHANGED <<state, stopReason, gaveUp, parked, revocations, assigned, revoking, position>>

Goto(w, pc) ==
    /\ work' = [work EXCEPT ![w].pc = pc]
    /\ UNCHANGED <<state, stopReason, gaveUp, parked, revocations, client>>

\* lost(): the consumer is not running anymore, or the partition was revoked
\* since process() began.
Lost(w) == state # "running" \/ revocations[work[w].partition] # work[w].revocation

\* drainController: a stop began.
Drained == state \notin {"starting", "running"}

Parked == {w \in Works : work[w].pc = "parked"}

\* stopFromPipeline() and the synchronous part of doStop(): the works in
\* `gone` end with it, parked ones among them, without a resume.
StopWith(reason, gone) ==
    /\ IF Drained
       THEN /\ work' = Without(gone)
            /\ UNCHANGED <<state, stopReason, parked>>
       ELSE /\ work' = Without(gone \union Parked)
            /\ state' = "stopping"
            /\ stopReason' = reason
            /\ parked' = [p \in Partitions |-> NONE]
    /\ paused' = Resumed(gone)
    /\ UNCHANGED <<gaveUp, revocations, assigned, revoking, position>>

-----------------------------------------------------------------------------
(* receive() and process(), up to the first await. *)

\* The record of a shared retry topic names no subscription of this consumer.
NoOwner(p, o) == Level[p] > 0 /\ log[p][o] \in Unplaced

Process(w, delivery) ==
    LET p == delivery.partition
        begun(pc) == [delivery EXCEPT !.pc = pc, !.revocation = revocations[p]]
    IN \/ /\ NoOwner(p, delivery.offset)
          /\ work' = [work EXCEPT ![w] = begun(IF SharedDlq THEN "deadLettering" ELSE "crashing")]
          /\ UNCHANGED <<parked, paused>>
       \/ /\ ~NoOwner(p, delivery.offset) /\ Due(p, delivery.offset)
          /\ work' = [work EXCEPT ![w] = begun("decoding")]
          /\ UNCHANGED <<parked, paused>>
       \/ \* not due: park it, or wait in the delivery when the pause failed
          /\ ~NoOwner(p, delivery.offset) /\ ~Due(p, delivery.offset)
          /\ parked[p] = NONE
          /\ \/ /\ work' = [work EXCEPT ![w] = [begun("parked") EXCEPT !.open = FALSE]]
                /\ parked' = [parked EXCEPT ![p] = w]
                /\ paused' = paused \union {p}
             \/ /\ work' = [work EXCEPT ![w] = begun("sleeping")]
                /\ UNCHANGED <<parked, paused>>
       \/ \* not due, delivered through the pause: wait behind the parked one
          /\ ~NoOwner(p, delivery.offset) /\ ~Due(p, delivery.offset)
          /\ parked[p] # NONE
          /\ work' = [work EXCEPT ![w] = [begun("behind") EXCEPT !.ahead = parked[p]]]
          /\ UNCHANGED <<parked, paused>>

\* The adapter delivers the next record of p: in order, one open delivery per
\* partition, at most `concurrency` per consumption.
Deliver(w, p) ==
    LET delivery == [Free EXCEPT !.pc = "arrived", !.partition = p, !.open = TRUE,
                                 !.offset = position[p] + 1, !.received = revocations[p]]
    IN /\ work[w].pc = "free"
       /\ p \in assigned
       /\ IF p \in paused THEN PauseLeaks /\ Fault ELSE UNCHANGED faults
       /\ position[p] < Len(log[p])
       /\ \A v \in On(p) : ~work[v].open
       /\ Cardinality({v \in SameLevel(p) : work[v].open}) < Concurrency
       /\ position' = [position EXCEPT ![p] = @ + 1]
       /\ IF state = "running"
          THEN Process(w, delivery)
          ELSE work' = [work EXCEPT ![w] = delivery] /\ UNCHANGED <<parked, paused>>
       /\ UNCHANGED <<ledger, state, stopReason, gaveUp, revocations, assigned, revoking, elapsed>>

\* A delivery queued behind readiness: processed once start() is done,
\* unwound on a consumer that is not running.
Ready(w) ==
    /\ work[w].pc = "arrived"
    /\ state # "starting"
    /\ IF state = "running"
       THEN /\ Process(w, work[w])
            /\ UNCHANGED <<state, stopReason, gaveUp, revocations, assigned, revoking, position>>
       ELSE Settle(w)
    /\ UNCHANGED <<ledger, elapsed, faults>>

\* Variant: the partition resumes when the re-entry starts, not when it is done.
ReenterResumes(w) ==
    LET p == work[w].partition
    IN /\ work[w].pc = "parked"
       /\ Due(p, work[w].offset)
       /\ parked' = [parked EXCEPT ![p] = NONE]
       /\ paused' = paused \ {p}
       /\ work' = [work EXCEPT ![w].pc = "decoding", ![w].reentry = TRUE, ![w].revocation = revocations[p]]
       /\ UNCHANGED <<ledger, state, stopReason, gaveUp, revocations, assigned, revoking, position, elapsed, faults>>

\* The retry delay of a parked message passed and a slot is free: it goes
\* through receive() again, due, and without a delivery of the adapter.
Reenter(w) ==
    LET p == work[w].partition
    IN /\ work[w].pc = "parked"
       /\ Due(p, work[w].offset)
       /\ Cardinality({v \in SameLevel(p) : work[v].reentry}) < Concurrency
       /\ parked' = [parked EXCEPT ![p] = NONE]
       /\ work' = [work EXCEPT ![w].pc = "decoding", ![w].reentry = TRUE,
                               ![w].received = revocations[p], ![w].revocation = revocations[p]]
       /\ UNCHANGED <<ledger, state, stopReason, gaveUp, revocations, client, elapsed, faults>>

\* The parked message ahead is done; the one behind waits for what is left of
\* its own delay.
WakeBehind(w) ==
    /\ work[w].pc = "behind" /\ work[w].ahead = NONE
    /\ IF Lost(w) THEN Settle(w) ELSE Goto(w, "sleeping")
    /\ UNCHANGED <<ledger, elapsed, faults>>

\* The delay waited out in the delivery ends, or the drain signal cut it.
SleepEnds(w) ==
    /\ work[w].pc = "sleeping"
    /\ Due(work[w].partition, work[w].offset) \/ Drained
    /\ IF Lost(w) THEN Settle(w) ELSE Goto(w, "decoding")
    /\ UNCHANGED <<ledger, elapsed, faults>>

-----------------------------------------------------------------------------
(* The handler, through the breaker. *)

\* Where forwardFailed() sends a message: the next level when there is one
\* and retryIf agrees, the DLQ otherwise, and a crash with neither.
Forwarded(w, retryable) ==
    \/ /\ retryable /\ NextLevel(work[w].partition) # {}
       /\ Goto(w, "retrying")
    \/ Goto(w, IF Dlq THEN "deadLettering" ELSE "crashing")

\* toMessage() is done.  The breaker, open, may hold the message.
Decoded(w) ==
    /\ work[w].pc = "decoding"
    /\ IF gaveUp THEN Settle(w)
       ELSE IF RecordOf(w) \in Undecodable THEN Forwarded(w, FALSE)
       ELSE Goto(w, "handling") \/ Goto(w, "held")
    /\ UNCHANGED <<ledger, elapsed, faults>>

\* Variant: a released hold counts as processed.
HoldReleasedCommits(w) ==
    /\ work[w].pc = "held"
    /\ IF Drained THEN Goto(w, "committing") ELSE Goto(w, "handling") \/ Forwarded(w, TRUE)
    /\ UNCHANGED <<ledger, elapsed, faults>>

\* guarded() wakes: a stop or a revocation releases the message uncommitted,
\* otherwise the probe runs it or the hold ran out.
HoldWakes(w) ==
    /\ work[w].pc = "held"
    /\ IF Drained \/ revocations[work[w].partition] # work[w].revocation
       THEN Settle(w)
       ELSE Goto(w, "handling") \/ Forwarded(w, TRUE)
    /\ UNCHANGED <<ledger, elapsed, faults>>

HandlerReturns(w) ==
    /\ work[w].pc = "handling"
    /\ Resolve(work[w].partition, work[w].offset)
    /\ IF gaveUp THEN Settle(w) ELSE Goto(w, "committing")
    /\ UNCHANGED <<elapsed, faults>>

HandlerThrows(w) ==
    /\ work[w].pc = "handling"
    /\ IF gaveUp THEN Settle(w) ELSE Forwarded(w, TRUE)
    /\ UNCHANGED <<ledger, elapsed, faults>>

\* Variant: an abort ends the delivery and not the consumer.
AbortSettles(w) ==
    /\ work[w].pc = "handling"
    /\ Fault
    /\ Settle(w)
    /\ UNCHANGED ledger

\* The handler threw harbor.abort(), or its producer was fenced.
HandlerAborts(w) ==
    /\ work[w].pc = "handling"
    /\ Fault
    /\ IF gaveUp THEN Settle(w) ELSE StopWith("abort", {w})
    /\ UNCHANGED ledger

\* The handler's transaction committed, this record's offset with it.  The
\* coordinator takes the offsets of a transaction with the group's metadata, from a
\* member that owns the partition or is giving it up, and aborts what others send.
HandlerTransacts(w) ==
    LET p == work[w].partition
    IN /\ work[w].pc = "handling"
       /\ <<p, work[w].offset>> \notin handled
       /\ p \in assigned \union revoking
       /\ Transact(p, work[w].offset)
       /\ UNCHANGED <<memory, client, elapsed, faults>>

-----------------------------------------------------------------------------
(* Forwarding and committing. *)

\* commit(): nothing is committed once shutdown gave up on the delivery.
CommitNext(w) == IF gaveUp THEN Settle(w) ELSE Goto(w, "committing")

HopAcknowledged(w) ==
    /\ \/ /\ work[w].pc = "retrying"
          /\ \E t \in NextLevel(work[w].partition) : Hop(work[w].partition, work[w].offset, t)
       \/ /\ work[w].pc = "deadLettering"
          /\ DeadLetter(work[w].partition, work[w].offset)
    /\ CommitNext(w)
    /\ UNCHANGED <<elapsed, faults>>

\* Variant: the offset is committed whether the produce landed or not.
HopFailsCommits(w) ==
    /\ work[w].pc \in {"retrying", "deadLettering"}
    /\ Fault
    /\ Goto(w, "committing")
    /\ UNCHANGED ledger

\* The produce failed; the record may have landed all the same.
HopFails(w) ==
    /\ work[w].pc \in {"retrying", "deadLettering"}
    /\ Fault
    /\ \/ UNCHANGED ledger
       \/ /\ work[w].pc = "retrying"
          /\ \E t \in NextLevel(work[w].partition) : Copy(work[w].partition, work[w].offset, t)
       \/ work[w].pc = "deadLettering" /\ CopyToDlq(work[w].partition, work[w].offset)
    /\ Goto(w, "crashing")

\* Variant: the rejection is reported and the consumer carries on.
CrashSwallowed(w) ==
    /\ work[w].pc = "crashing"
    /\ Settle(w)
    /\ UNCHANGED <<ledger, elapsed, faults>>

\* The rejection reaches crash(): the consumer stops, the message uncommitted.
Crash(w) ==
    /\ work[w].pc = "crashing"
    /\ StopWith("crash", {w})
    /\ UNCHANGED <<ledger, elapsed, faults>>

\* The broker takes a commit from a member of the group, whoever owns the partition.
CommitLands(w) ==
    /\ work[w].pc = "committing"
    /\ state # "stopped"
    /\ Commit(work[w].partition, work[w].offset)
    /\ Settle(w)
    /\ UNCHANGED <<elapsed, faults>>

\* Reported, and the pipeline carries on.
CommitFails(w) ==
    /\ work[w].pc = "committing"
    /\ IF state = "stopped" THEN UNCHANGED <<elapsed, faults>> ELSE Fault
    /\ Settle(w)
    /\ UNCHANGED ledger

-----------------------------------------------------------------------------
(* The consumer's life, and the group around it. *)

\* start() obtained its handles.
Started ==
    /\ state = "starting"
    /\ state' = "running"
    /\ UNCHANGED <<ledger, stopReason, gaveUp, work, parked, revocations, client, elapsed, faults>>

Stop ==
    /\ state \in {"starting", "running"}
    /\ Fault
    /\ StopWith("shutdown", {})
    /\ UNCHANGED ledger

\* The stop timeout passed with handlers running: they are abandoned and
\* their deliveries reported settled.
GiveUp ==
    /\ state = "stopping" /\ ~gaveUp
    /\ \E w \in Works : Active(w)
    /\ gaveUp' = TRUE
    /\ work' = [w \in Works |-> IF Active(w) THEN [work[w] EXCEPT !.open = FALSE] ELSE work[w]]
    /\ UNCHANGED <<ledger, state, stopReason, parked, revocations, client, elapsed, faults>>

\* leave() and finish(), once the running handlers settled or were abandoned.
Leave ==
    /\ state = "stopping"
    /\ gaveUp \/ ~ \E w \in Works : Active(w)
    /\ state' = "stopped"
    /\ assigned' = {}
    /\ revoking' = {}
    /\ paused' = {}
    /\ UNCHANGED <<ledger, stopReason, gaveUp, work, parked, revocations, position, elapsed, faults>>

\* A rebalance takes p away: settleRevoked(), up to its await.
Revoke(p) ==
    /\ p \in assigned
    /\ state \in {"starting", "running", "stopping"}
    /\ Fault
    /\ assigned' = assigned \ {p}
    /\ revoking' = revoking \union {p}
    /\ revocations' = [revocations EXCEPT ![p] = @ + 1]
    /\ IF parked[p] = NONE
       THEN UNCHANGED <<work, parked, paused>>
       ELSE /\ work' = Without({parked[p]})
            /\ parked' = [parked EXCEPT ![p] = NONE]
            /\ paused' = paused \ {p}
    /\ UNCHANGED <<ledger, state, stopReason, gaveUp, position>>

\* Variant: the release does not wait for the revocation callback.
ReleaseAtOnce(p) ==
    /\ p \in revoking
    /\ revoking' = revoking \ {p}
    /\ paused' = paused \ {p}
    /\ UNCHANGED <<ledger, memory, assigned, position, elapsed, faults>>

\* The client releases p, its pause with it: when the works on it settled,
\* when shutdown gave up on them or, with Overrun, whenever it likes -- its
\* wait passed maxProcessingTime, or the client released p before it told.
Release(p) ==
    /\ p \in revoking
    /\ Overrun \/ gaveUp \/ On(p) = {}
    /\ revoking' = revoking \ {p}
    /\ paused' = paused \ {p}
    /\ UNCHANGED <<ledger, memory, assigned, position, elapsed, faults>>

\* The group assigns p to this member, which reads from the committed offset: the
\* group has committed one on every partition before, or is fromBeginning (what
\* happens otherwise is in PlatformaticConsumption).
Assign(p) ==
    /\ p \notin assigned \union revoking
    /\ state \in {"starting", "running"}
    /\ assigned' = assigned \union {p}
    /\ position' = [position EXCEPT ![p] = committed[p]]
    /\ UNCHANGED <<ledger, memory, paused, revoking, elapsed, faults>>

\* Time passes: the next record of a retry topic becomes due.
Elapse(p) ==
    /\ Level[p] > 0
    /\ elapsed[p] < Len(log[p])
    /\ elapsed' = [elapsed EXCEPT ![p] = @ + 1]
    /\ UNCHANGED <<ledger, memory, client, faults>>

\* Whoever owns p meanwhile, one record at a time.
OtherMember(p) ==
    LET o == committed[p] + 1
    IN /\ p \notin assigned \union revoking
       /\ o <= Len(log[p])
       /\ IF <<p, o>> \in handled
          THEN Commit(p, o)
          ELSE \/ Resolve(p, o)
               \/ \E t \in NextLevel(p) : Hop(p, o, t)
               \/ Dlq /\ DeadLetter(p, o)
       /\ UNCHANGED <<memory, client, elapsed, faults>>

\* A consumer just built, its start() called; the client has no assignment yet.
Fresh ==
    /\ state = "starting"
    /\ stopReason = NONE
    /\ gaveUp = FALSE
    /\ work = [w \in Works |-> Free]
    /\ parked = [p \in Partitions |-> NONE]
    /\ revocations = [p \in Partitions |-> 0]
    /\ paused = {}
    /\ assigned = {}
    /\ revoking = {}
    /\ position = [p \in Partitions |-> 0]

NewConsumer ==
    /\ state' = "starting"
    /\ stopReason' = NONE
    /\ gaveUp' = FALSE
    /\ work' = [w \in Works |-> Free]
    /\ parked' = [p \in Partitions |-> NONE]
    /\ revocations' = [p \in Partitions |-> 0]
    /\ paused' = {}
    /\ assigned' = {}
    /\ revoking' = {}
    /\ position' = [p \in Partitions |-> 0]

\* A new consumer takes the place of the one that stopped.
Restart ==
    /\ state = "stopped"
    /\ NewConsumer
    /\ UNCHANGED <<ledger, elapsed, faults>>

\* The process dies with everything it holds in memory, and is started again.
Die ==
    /\ state # "stopped"
    /\ Fault
    /\ NewConsumer
    /\ UNCHANGED ledger

-----------------------------------------------------------------------------
Init == LedgerInit /\ Fresh /\ elapsed = [p \in Partitions |-> 0] /\ faults = 0

WorkStep(w) ==
    \/ Ready(w) \/ Reenter(w) \/ WakeBehind(w) \/ SleepEnds(w)
    \/ Decoded(w) \/ HoldWakes(w)
    \/ HandlerReturns(w) \/ HandlerThrows(w)
    \/ HopAcknowledged(w) \/ Crash(w) \/ CommitLands(w)

WorkFails(w) == HandlerAborts(w) \/ HopFails(w) \/ CommitFails(w)

Next ==
    \/ \E w \in Works : WorkStep(w) \/ WorkFails(w) \/ HandlerTransacts(w)
    \/ \E w \in Works, p \in Partitions : Deliver(w, p)
    \/ Started \/ Stop \/ GiveUp \/ Leave \/ Restart \/ Die
    \/ \E p \in Partitions : Revoke(p) \/ Release(p) \/ Assign(p) \/ Elapse(p) \/ OtherMember(p)

Spec == Init /\ [][Next]_vars

\* What keeps the system going: every await of the pipeline ends (handlers
\* return or throw, sleeps and calls are bounded), the client delivers what is
\* left to deliver where it is not paused, the group assigns every partition, a stop runs to its end
\* and an operator starts the next consumer.  No fault is ever forced.
Fairness ==
    /\ \A w \in Works : WF_vars(WorkStep(w))
    /\ WF_vars(\E w \in Works, p \in Partitions : p \notin paused /\ Deliver(w, p))
    /\ \A p \in Partitions : WF_vars(Assign(p)) /\ WF_vars(Release(p)) /\ WF_vars(Elapse(p))
    /\ WF_vars(Started) /\ WF_vars(Leave) /\ WF_vars(Restart)

FairSpec == Spec /\ Fairness

-----------------------------------------------------------------------------
WorkRecord == [pc : Pcs, partition : Partitions \union {NONE}, offset : Nat,
               received : Nat, revocation : Nat, reentry : BOOLEAN,
               open : BOOLEAN, ahead : Works \union {NONE}]

CountersOK == elapsed \in [Partitions -> Nat] /\ faults \in 0..MaxFaults

TypeOK ==
    /\ LedgerTypeOK
    /\ CountersOK
    /\ state \in {"starting", "running", "stopping", "stopped"}
    /\ stopReason \in {NONE, "shutdown", "abort", "crash"}
    /\ gaveUp \in BOOLEAN
    /\ work \in [Works -> WorkRecord]
    /\ parked \in [Partitions -> Works \union {NONE}]
    /\ revocations \in [Partitions -> Nat]
    /\ paused \subseteq Partitions /\ assigned \subseteq Partitions /\ revoking \subseteq Partitions
    /\ position \in [Partitions -> Nat]

\* A record is worked on only once every record before it has a safe outcome:
\* what makes one commit cover all of them.
InOrder ==
    \A w \in Works : Active(w) => PrefixHandled(work[w].partition, work[w].offset - 1)

\* A running consumer never works on two records of a partition at a time,
\* the parked ones that come back beside the adapter's gate included.
OneAtATime ==
    state = "running" =>
        \A v, w \in Works : Active(v) /\ Active(w) /\ work[v].partition = work[w].partition => v = w

\* A partition is paused exactly while one of its records waits for its retry
\* delay or runs after it: a pause left behind would starve the partition, a
\* pause lifted early would let the next record overtake the parked one.
PausedWhileParked ==
    state = "running" =>
        \A p \in assigned : p \in paused <=> \E w \in On(p) : work[w].pc = "parked" \/ work[w].reentry

\* A record delivered through a pause waits for a work that is still there,
\* holds an earlier record and will wake it: it is never left behind for good.
BehindAParkedOne ==
    \A w \in Works : work[w].pc = "behind" /\ work[w].ahead # NONE =>
        /\ work[w].ahead \in On(work[w].partition)
        /\ work[work[w].ahead].offset < work[w].offset

\* The committed offset of a partition never moves back, whoever commits,
\* except by a commit of a member whose shutdown gave up on its handlers, which
\* was on its way then: what an abandoned handler returns, throws or still
\* forwards is not committed (consumer.ts:1153, 1510).
CommitsMoveForward ==
    [][/\ \A p \in Partitions : committed'[p] < committed[p] => gaveUp
       /\ \A w \in Works : gaveUp /\ work'[w].pc = "committing" => work[w].pc = "committing"]_vars

\* Every message a producer wrote is eventually handled or dead-lettered.
EveryMessageResolved ==
    \A m \in Messages : Produced(m) => <>(m \in done \/ m \in dead)

\* A delivery that came before its partition was revoked is left to the next
\* owner: its processing does not start.
StaleDeliveryNotRun ==
    [][\A w \in Works : Active(w)' /\ ~Active(w)
            => work'[w].received = revocations[work'[w].partition]]_vars
=============================================================================
