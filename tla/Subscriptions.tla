----------------------------- MODULE Subscriptions -----------------------------
(***************************************************************************)
(* What a consumer of src/src/consumer.ts is asked to consume before it    *)
(* starts: subscribe() and subscribeBatch(), the topics each subscription  *)
(* plans (src/src/retry-topics.ts), which of them the consumer routes, and *)
(* the circuit breakers it listens to (src/src/breaker.ts).                *)
(***************************************************************************)
EXTENDS Naturals, Sequences, FiniteSets, SequencesExt

CONSTANTS
    Requests,      \* topics an application may subscribe to
    RetryNaming,   \* RetryNaming[t]: what retry.topicNaming gives for t, level by level
    DlqNaming,     \* DlqNaming[t]: what dlq.topicNaming gives
    Batch,         \* those subscribed with subscribeBatch()
    Guarded,       \* those with a breaker
    Levels         \* of the ladder, 0 for the original topics

ASSUME SubscriptionsAssumption ==
    /\ Batch \subseteq Requests /\ Guarded \subseteq Requests
    /\ IsFiniteSet(Levels) /\ Levels = 0..(Cardinality(Levels) - 1)
    /\ \A t \in Requests : /\ RetryNaming[t] \in Seq(Range(RetryNaming[t]))
                           /\ Len(RetryNaming[t]) = Cardinality(Levels) - 1

VARIABLES
    routes,        \* routes[t] for a topic t that is consumed: its level and owners
    breakers       \* subscriptions whose breaker is listened to

subscribed == <<routes, breakers>>

-----------------------------------------------------------------------------
(* TopicPlan. *)

ConsumedTopics(t) == <<t>> \o RetryNaming[t]

PlanRefused(t) ==
    \/ ~IsInjective(ConsumedTopics(t))
    \/ DlqNaming[t] \in Range(ConsumedTopics(t))

LevelOf(t, topic) == CHOOSE l \in 0..Len(RetryNaming[t]) : ConsumedTopics(t)[l + 1] = topic

-----------------------------------------------------------------------------
(* route(). *)

Consumed == DOMAIN routes

\* Variant: the level of a shared retry topic is not looked at.
SharesAnyLevel(t) ==
    \E l \in 1..Len(RetryNaming[t]) :
        LET topic == RetryNaming[t][l]
        IN topic \in Consumed /\
             (topic = t \/ t \in Batch \/ routes[topic].owners \intersect Batch # {})

\* A retry topic another subscription has already: only at the same level, and
\* only between subscriptions that take one message at a time.
SharesWrongly(t) ==
    \E l \in 1..Len(RetryNaming[t]) :
        LET topic == RetryNaming[t][l]
        IN topic \in Consumed /\
             \/ routes[topic].level # l
             \/ t \in Batch \/ routes[topic].owners \intersect Batch # {}

\* Variant: what the new subscription consumes is not looked up among the DLQs.
DlqConsumedOneWay(t) == DlqNaming[t] \in Consumed

\* A DLQ that is consumed, the new subscription's or one taken before.
DlqConsumed(t) ==
    \/ DlqNaming[t] \in Consumed
    \/ \E topic \in Consumed : \E owner \in routes[topic].owners :
          DlqNaming[owner] \in Range(ConsumedTopics(t))

Refused(t) == PlanRefused(t) \/ t \in Consumed \/ SharesWrongly(t) \/ DlqConsumed(t)

\* The routes with t among them.
Routed(t) ==
    [topic \in Consumed \union Range(ConsumedTopics(t)) |->
        IF topic \in Consumed
        THEN [routes[topic] EXCEPT !.owners =
                IF topic \in Range(ConsumedTopics(t)) THEN @ \union {t} ELSE @]
        ELSE [level |-> LevelOf(t, topic), owners |-> {t}]]

\* A refused subscription lets its breaker go again.
SubscribeTo(t) ==
    IF Refused(t)
    THEN UNCHANGED subscribed
    ELSE /\ routes' = Routed(t)
         /\ breakers' = breakers \union ({t} \intersect Guarded)

NothingSubscribed == routes = <<>> /\ breakers = {}

-----------------------------------------------------------------------------
(* The same said of two subscriptions, without an order between them. *)

Compatible(t, u) ==
    /\ DlqNaming[t] \notin Range(ConsumedTopics(u))
    /\ DlqNaming[u] \notin Range(ConsumedTopics(t))
    /\ \A topic \in Range(ConsumedTopics(t)) \intersect Range(ConsumedTopics(u)) :
          LevelOf(t, topic) = LevelOf(u, topic) /\ LevelOf(t, topic) > 0 /\ {t, u} \intersect Batch = {}

Accepted == {t \in Requests : t \in Consumed /\ t \in routes[t].owners}

\* Whichever came first, a subscription is taken exactly when it agrees with
\* every one taken: one delay to a topic, no batch mixed with others, and no
\* dead letter consumed by those who write it.
RefusedWhenClashing ==
    \A t \in Requests \ Accepted :
        Refused(t) <=> PlanRefused(t) \/ \E u \in Accepted : ~Compatible(t, u)
=============================================================================
