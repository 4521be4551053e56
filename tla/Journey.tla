-------------------------------- MODULE Journey --------------------------------
(***************************************************************************)
(* Where a message goes that no handler can take: from the topic it was    *)
(* produced to, along the retry topics its consumer routes, to a DLQ and   *)
(* back into service.  Who takes it on a shared retry topic is said by the *)
(* tracking headers it carries (src/src/headers.ts), which come from the   *)
(* network and may hold anything.                                          *)
(***************************************************************************)
EXTENDS Subscriptions

CONSTANT Strangers   \* topics no consumer here subscribes to, as a header may name one

\* subscribe() takes no topic without a name.
ASSUME JourneyAssumption == "" \notin Requests

\* The tracking headers: the count and the instant as far as they parse.
NoBlock == [count |-> 0, original |-> "", since |-> FALSE]

Blocks == [count : {0, 1}, original : Requests \union Strangers \union {""}, since : BOOLEAN]

\* readRetryInfo(): a block that is not whole counts for nothing.
RetryInfo(block) ==
    IF block.count >= 1 /\ block.original # "" /\ block.since THEN block ELSE NoBlock

\* What process() reads of the message m, on a retry topic only.
Info(m) == IF routes[m.topic].level > 0 THEN RetryInfo(m.block) ELSE NoBlock

\* ownerOf(): a topic of one subscription is its own whatever the headers say.
Owner(m) ==
    LET owners == routes[m.topic].owners
    IN IF Cardinality(owners) = 1 THEN owners ELSE owners \intersect {Info(m).original}

\* Variant: the hop says where the message comes from, not where it was produced.
WrittenAtHop(m, t) ==
    [count |-> Info(m).count + 1, original |-> m.topic, since |-> TRUE]

\* writeRetryInfo(), for a failure under the subscription to t.
Written(m, t) ==
    [count    |-> Info(m).count + 1,
     original |-> IF Info(m) = NoBlock THEN t ELSE Info(m).original,
     since    |-> TRUE]

\* forwardFailed(): the next level of t, or its DLQ.
Forwarded(m, t, wantsRetry) ==
    LET level == routes[m.topic].level + 1
    IN [topic |-> IF wantsRetry /\ level <= Len(RetryNaming[t]) THEN RetryNaming[t][level]
                  ELSE DlqNaming[t],
        block |-> Written(m, t)]

\* deadLetterUnroutable(): to the DLQ the owners share, or nowhere.
Unroutable(m) ==
    LET dlqs == {DlqNaming[t] : t \in routes[m.topic].owners}
    IN {[m EXCEPT !.topic = dlq] : dlq \in {d \in dlqs : dlqs = {d}}}

\* Where m may be once it failed; nowhere is a consumer that stopped at it.
Fails(m) ==
    IF Owner(m) = {} THEN Unroutable(m)
    ELSE {Forwarded(m, t, wantsRetry) : t \in Owner(m), wantsRetry \in BOOLEAN}

\* redrive() of the topic m is on, without `to`: refused without a target.
Redriven(m) ==
    {[topic |-> target, block |-> NoBlock] : target \in {m.block.original} \ {"", m.topic}}

-----------------------------------------------------------------------------
\* Where m may be after n failures.
After(m, n) ==
    LET after[k \in 0..n] ==
            IF k = 0 THEN {m}
            ELSE UNION {Fails(f) : f \in {f \in after[k - 1] : f.topic \in Consumed}}
    IN after[n]

Failures == 0..Cardinality(Levels)

\* However it came to a topic and whatever its headers hold, a message that
\* fails again and again is out of the consumer's reach after one failure a
\* level: no naming the consumer accepted sends it round.
FailuresRunOut ==
    \A topic \in Consumed, block \in Blocks :
        \A m \in After([topic |-> topic, block |-> block], Cardinality(Levels)) :
            m.topic \notin Consumed

\* A message produced to t is in the hands of t's subscription on every topic
\* it fails along, is dead-lettered to t's DLQ with all its failures counted,
\* and a redrive brings it back to t, its ladder fresh.
StaysWithItsOwner ==
    \A t \in Accepted, block \in Blocks, n \in Failures :
        \A m \in After([topic |-> t, block |-> block], n) :
            IF m.topic \in Consumed
            THEN Owner(m) = {t}
            ELSE /\ m.topic = DlqNaming[t] /\ m.block.count = n
                 /\ Redriven(m) = {[topic |-> t, block |-> NoBlock]}
=============================================================================
