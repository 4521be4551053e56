---------------------------- MODULE LifecycleProofs ----------------------------
(***************************************************************************)
(* The safety of a consumer's life, for any subscriptions, partitions,     *)
(* ladder, concurrency and bounds: nothing it opened is left behind, no    *)
(* level is joined before its topics are there, nothing becomes active     *)
(* once a stop began and no handler is called that the stop does not wait  *)
(* for, the slots of parked records are handed on, and no message that     *)
(* fails is sent round or leaves its subscription.                         *)
(***************************************************************************)
EXTENDS Lifecycle, FiniteSetTheorems, SequenceTheorems, NaturalsInduction, WellFoundedInduction, TLAPS

-----------------------------------------------------------------------------
(* start() and stop() next to each other. *)

Memberships == {"none", "joining", "open", "failed", "leaving", "left"}

Control ==
    /\ state \in {"idle", "starting", "running", "stopping", "stopped"}
    /\ start \in {"none", "connecting", "preparing", "creating", "joining", "unwinding",
                  "awaiting", "leaving", "returned", "refused"}
    /\ stop \in {"none", "waiting", "draining", "leaving", "done"}
    /\ ready \in BOOLEAN /\ startAbandoned \in BOOLEAN /\ visible \in BOOLEAN
    /\ membership \in [Levels -> Memberships] /\ handles \subseteq Levels

\* What a stop may find of a start(), and how far it is with it.
Stages ==
    /\ start = "none" => <<state, stop>> \in {<<"idle", "none">>, <<"stopped", "done">>}
    /\ start \in {"connecting", "preparing", "creating", "joining"} =>
          <<state, stop>> \in {<<"starting", "none">>, <<"starting", "waiting">>, <<"stopped", "done">>}
    /\ start \in {"unwinding", "refused"} =>
          <<state, stop>> \in {<<"stopped", "none">>, <<"stopped", "waiting">>, <<"stopped", "done">>}
    /\ start = "awaiting" =>
          <<state, stop>> \in {<<"starting", "waiting">>, <<"stopping", "draining">>,
                               <<"stopping", "leaving">>, <<"stopped", "done">>}
    /\ start = "leaving" => <<state, stop>> = <<"stopped", "done">>
    /\ start = "returned" =>
          <<state, stop>> \in {<<"running", "none">>, <<"stopping", "draining">>,
                               <<"stopping", "leaving">>, <<"stopped", "done">>}
    /\ ready <=> start \in {"unwinding", "awaiting", "leaving", "returned", "refused"}

AllIn(S) == \A l \in Levels : membership[l] \in S

\* Who holds a membership: start() until its handles are wired, then whoever
\* comes first of the stop and of the start() that gives way.
Members ==
    /\ start \in {"none", "connecting", "preparing", "creating"} => handles = {} /\ AllIn({"none"})
    /\ start = "joining" => handles = {} /\ AllIn({"joining", "open", "failed"})
    /\ start = "unwinding" => handles = {} /\ AllIn({"leaving", "left", "failed"})
    /\ start = "leaving" => handles = {} /\ AllIn({"leaving", "left"})
    /\ start = "refused" => handles = {} /\ AllIn({"none", "failed", "left"})
    /\ start \in {"awaiting", "returned"} =>
          \/ /\ stop # "leaving" /\ (start = "returned" => stop # "done")
             /\ handles = Levels /\ AllIn({"open"})
          \/ /\ stop \in {"leaving", "done"}
             /\ handles = {} /\ AllIn({"leaving", "left"}) /\ (stop = "done" => AllIn({"left"}))

\* A consumer that stopped listens to no breaker.
Deaf == state = "stopped" => breakers = {}

\* Records are active on a running consumer, and on one that waits for them.
Served == state # "running" /\ stop # "draining" => Active = {}

Course == Control /\ Stages /\ Members /\ JoinsWhatExists /\ Deaf

\* The steps that start() and stop() are not about.
WorkStep ==
    \/ \E l \in Levels : PassesOn(l)
    \/ \E p \in Partitions :
          \/ Deliver(p) \/ ReadyReached(p) \/ HandlerCalled(p) \/ DeliveryEnds(p) \/ Revoke(p)
          \/ TimeComes(p) \/ WokenGoesOn(p) \/ ReentryEnds(p) \/ AbandonedEnds(p)

LEMMA WorkStepsApart ==
    ASSUME WorkStep
    PROVE  UNCHANGED <<calls, membership, handles>>
BY DEF WorkStep, PassesOn, Deliver, ReadyReached, HandlerCalled, DeliveryEnds, Revoke, TimeComes, WokenGoesOn,
       ReentryEnds, AbandonedEnds

LEMMA CourseApart ==
    ASSUME Course, UNCHANGED <<calls, membership, handles>>
    PROVE  Course'
BY DEF Course, Control, Stages, Members, AllIn, JoinsWhatExists, Deaf, calls, subscribed

\* Leave() lets every wired handle go.
LEMMA Leaving ==
    ASSUME Control, Leave
    PROVE  /\ handles' = {} /\ membership' \in [Levels -> Memberships]
           /\ handles = Levels => AllIn({"leaving"})'
           /\ handles = {} => membership' = membership
           /\ \A l \in Levels : membership'[l] # "none" => membership[l] # "none" \/ l \in handles
BY DEF Control, Leave, AllIn, Memberships

\* subscribe() and start().
LEMMA StartKeeps ==
    ASSUME Course,
           \/ \E t \in Requests : Subscribe(t)
           \/ Start \/ Connected \/ StartFails
           \/ Looked \/ CreateTopics \/ TopicsAppear \/ Created \/ CreationFails
    PROVE  Course'
<1>1. CASE \E t \in Requests : Subscribe(t)
  BY <1>1 DEF Course, Control, Stages, Members, AllIn, JoinsWhatExists, Deaf, Subscribe
<1>2. CASE Start
  BY <1>2 DEF Course, Control, Stages, Members, AllIn, JoinsWhatExists, Deaf, Start, subscribed
<1>3. CASE Connected \/ StartFails
  BY <1>3 DEF Course, Control, Stages, Members, AllIn, JoinsWhatExists, Deaf, Connected, StartFails,
              Refuse, Finish, subscribed
<1>4. CASE Looked \/ Created
  <2>1. CASE visible /\ stop = "none" /\ Join
    BY <1>4, <2>1 DEF Course, Control, Stages, Members, AllIn, JoinsWhatExists, Deaf, Looked, Created,
                      Join, Memberships, subscribed
  <2>2. CASE /\ Refuse /\ start \in {"preparing", "creating"}
             /\ UNCHANGED <<stop, startAbandoned, visible, handles>>
    BY <2>2 DEF Course, Control, Stages, Members, AllIn, JoinsWhatExists, Deaf, Refuse, Finish
  <2> QED
    BY <1>4, <2>1, <2>2 DEF Looked, Created, Join
<1>5. CASE CreateTopics \/ TopicsAppear
  <2>1. CASE CreateTopics
    BY <2>1 DEF Course, Control, Stages, Members, AllIn, JoinsWhatExists, Deaf, CreateTopics, subscribed
  <2>2. CASE TopicsAppear
    BY <2>2 DEF Course, Control, Stages, Members, AllIn, JoinsWhatExists, Deaf, TopicsAppear, subscribed
  <2> QED
    BY <1>5, <2>1, <2>2
<1>6. CASE CreationFails
  BY <1>6 DEF Course, Control, Stages, Members, AllIn, JoinsWhatExists, Deaf, CreationFails, Refuse, Finish
<1> QED
  BY <1>1, <1>2, <1>3, <1>4, <1>5, <1>6

\* The levels, and what start() does once they answered.
LEMMA LevelsKeep ==
    ASSUME Course,
           \/ \E l \in Levels : Opens(l) \/ OpenFails(l) \/ Leaves(l)
           \/ Unwind \/ Unwound \/ Runs \/ GivesWay \/ GaveWay
    PROVE  Course'
<1>1. ASSUME NEW l \in Levels, Opens(l) \/ OpenFails(l)
      PROVE  Course'
  <2>1. start = "joining"
    BY <1>1 DEF Course, Control, Members, AllIn, Opens, OpenFails
  <2> QED
    BY <1>1, <2>1 DEF Course, Control, Stages, Members, AllIn, JoinsWhatExists, Deaf, Opens, OpenFails,
                      Memberships, calls, subscribed
<1>2. ASSUME NEW l \in Levels, Leaves(l)
      PROVE  Course'
  BY <1>2 DEF Course, Control, Stages, Members, AllIn, JoinsWhatExists, Deaf, Leaves, Memberships, calls,
              subscribed
<1>3. CASE Unwind
  BY <1>3 DEF Course, Control, Stages, Members, AllIn, JoinsWhatExists, Deaf, Unwind, Opened, Finish,
              Memberships
<1>4. CASE Unwound
  BY <1>4 DEF Course, Control, Stages, Members, AllIn, JoinsWhatExists, Deaf, Unwound, LeavingDone,
              Refuse, Finish
<1>5. CASE Runs
  BY <1>5 DEF Course, Control, Stages, Members, AllIn, JoinsWhatExists, Deaf, Runs, Opened, subscribed
<1>6. CASE GivesWay
  <2>1. \/ handles = Levels /\ AllIn({"leaving"})'
        \/ handles = {} /\ membership' = membership /\ AllIn({"left"})
    BY <1>6, Leaving DEF Course, Members, GivesWay
  <2> QED
    BY <1>6, <2>1, Leaving DEF Course, Control, Stages, Members, AllIn, JoinsWhatExists, Deaf, GivesWay,
                               subscribed
<1>7. CASE GaveWay
  BY <1>7 DEF Course, Control, Stages, Members, AllIn, JoinsWhatExists, Deaf, GaveWay, LeavingDone,
              subscribed
<1> QED
  BY <1>1, <1>2, <1>3, <1>4, <1>5, <1>6, <1>7

\* stop(), and the stop the pipeline decides.
LEMMA StopKeeps ==
    ASSUME Course, Served,
           \/ Stop \/ StartSettled \/ AbandonStart \/ Drained \/ DeadlinePasses \/ Left
           \/ \E p \in Partitions : PipelineStops(p)
    PROVE  Course'
<1>1. CASE Stop
  <2>1. CASE state = "starting"
    BY <1>1, <2>1 DEF Course, Control, Stages, Members, AllIn, JoinsWhatExists, Deaf, Stop, subscribed
  <2>2. CASE state \in {"idle", "stopped"}
    BY <1>1, <2>2 DEF Course, Control, Stages, Members, AllIn, JoinsWhatExists, Deaf, Stop, Finish
  <2>3. CASE state = "running"
    BY <1>1, <2>3 DEF Course, Control, Stages, Members, AllIn, JoinsWhatExists, Deaf, Stop, BeginDraining,
                      subscribed
  <2>4. state # "stopping"
    BY <1>1 DEF Course, Control, Stages, Stop
  <2> QED
    BY <2>1, <2>2, <2>3, <2>4 DEF Course, Control
<1>2. CASE StartSettled
  <2>1. CASE state = "stopped"
    BY <1>2, <2>1 DEF Course, Control, Stages, Members, AllIn, JoinsWhatExists, Deaf, StartSettled, Finish
  <2>2. CASE state # "stopped"
    BY <1>2, <2>2 DEF Course, Control, Stages, Members, AllIn, JoinsWhatExists, Deaf, StartSettled,
                      BeginDraining, subscribed
  <2> QED
    BY <2>1, <2>2
<1>3. CASE AbandonStart
  BY <1>3 DEF Course, Control, Stages, Members, AllIn, JoinsWhatExists, Deaf, AbandonStart, Finish
<1>4. CASE Drained \/ DeadlinePasses
  <2>1. /\ Leave /\ stop = "draining" /\ stop' = "leaving"
        /\ UNCHANGED <<subscribed, state, start, ready, startAbandoned, visible>>
    BY <1>4 DEF Drained, DeadlinePasses
  <2>2. handles = Levels /\ AllIn({"leaving"})' /\ AllIn({"open"})
    BY <2>1, Leaving DEF Course, Control, Stages, Members
  <2> QED
    BY <2>1, <2>2, Leaving DEF Course, Control, Stages, Members, AllIn, JoinsWhatExists, Deaf, subscribed
<1>5. CASE Left
  BY <1>5 DEF Course, Control, Stages, Members, AllIn, JoinsWhatExists, Deaf, Left, LeavingDone, Finish
<1>6. ASSUME NEW p \in Partitions, PipelineStops(p)
      PROVE  Course'
  <2>1. UNCHANGED <<start, ready, startAbandoned, visible, membership, handles, subscribed>>
        /\ stop = "none" /\ state' = "stopping" /\ stop' = "draining"
    BY <1>6 DEF PipelineStops, BeginDraining
  <2>2. state = "running"
    BY <1>6 DEF Served, Active, ActiveOf, PipelineStops
  <2> QED
    BY <2>1, <2>2 DEF Course, Control, Stages, Members, AllIn, JoinsWhatExists, Deaf, subscribed
<1> QED
  BY <1>1, <1>2, <1>3, <1>4, <1>5, <1>6

-----------------------------------------------------------------------------
(* The lines before the slots. *)

Waits == {"none", "sleeping", "waiting", "woken", "active", "abandoned"}

Works ==
    /\ delivery \in [Partitions -> {"none", "queued", "active", "abandoned"}]
    /\ delivered \in [Partitions -> 0..Records] /\ faults \in 0..MaxFaults
    /\ paused \subseteq Partitions
    /\ parked \in [Partitions -> Waits]
    /\ gate \in [Levels -> [active : Nat, waiting : Seq(Partitions)]]
    /\ passing \in [Levels -> Nat]

Laddered == \A topic \in Consumed : routes[topic].level \in Levels

\* Only a started consumer has deliveries and parks, and only of what it consumes.
Placed == \A p \in Partitions : parked[p] # "none" \/ delivery[p] # "none" => Read(p) /\ state # "idle"

\* Nothing is parked but on a running consumer.
Still == state # "running" => Parked = {}

At(l, k, pc) == {p \in On(l) : k[p] = pc}

\* The slots g of level l and its parked records k, with n discarded waiters
\* that were woken: for a line to stand there, as many were let in or woken as
\* there are slots.
Kept(l, g, k, n) ==
    /\ g.active = Cardinality(At(l, k, "active")) /\ g.active <= concurrency
    /\ Range(g.waiting) = At(l, k, "waiting") /\ IsInjective(g.waiting)
    /\ g.waiting # <<>> => concurrency <= g.active + n + Cardinality(At(l, k, "woken"))

Lines == \A l \in Levels : Kept(l, gate[l], parked, passing[l])

Slots == Works /\ Laddered /\ Placed /\ Still /\ Lines

\* Who joins the line stands behind everybody.
LEMMA BehindTheLine ==
    ASSUME NEW p \in Partitions, NEW line \in Seq(Partitions), IsInjective(line), p \notin Range(line)
    PROVE  /\ Append(line, p) \in Seq(Partitions) /\ Append(line, p) # <<>>
           /\ Range(Append(line, p)) = Range(line) \union {p} /\ IsInjective(Append(line, p))
<1>1. /\ Append(line, p) \in Seq(Partitions) /\ Append(line, p) # <<>>
      /\ Len(Append(line, p)) = Len(line) + 1
      /\ \A i \in 1..Len(line) : Append(line, p)[i] = line[i]
      /\ Append(line, p)[Len(line) + 1] = p
  BY AppendProperties
<1>2. /\ Len(line) \in Nat /\ DOMAIN line = 1..Len(line)
      /\ DOMAIN Append(line, p) = 1..(Len(line) + 1)
  BY <1>1, LenProperties
<1>3. \A i \in 1..(Len(line) + 1) : i \in 1..Len(line) \/ i = Len(line) + 1
  BY <1>2
<1>4. 1..Len(line) \subseteq 1..(Len(line) + 1) /\ Len(line) + 1 \in 1..(Len(line) + 1)
  BY <1>2
<1>5. Range(Append(line, p)) = Range(line) \union {p}
  BY <1>1, <1>2, <1>3, <1>4 DEF Range
<1>6. \A i \in 1..Len(line) : line[i] # p
  BY <1>2 DEF Range
<1>7. IsInjective(Append(line, p))
  BY <1>1, <1>2, <1>3, <1>6 DEF IsInjective
<1> QED
  BY <1>1, <1>5, <1>7

\* Once the first in line goes, the others are there as before.
LEMMA TheRestOfTheLine ==
    ASSUME NEW line \in Seq(Partitions), line # <<>>, IsInjective(line)
    PROVE  Range(Tail(line)) = Range(line) \ {Head(line)} /\ IsInjective(Tail(line))
<1>1. /\ Tail(line) \in Seq(Partitions) /\ Len(Tail(line)) = Len(line) - 1
      /\ \A i \in 1..Len(Tail(line)) : Tail(line)[i] = line[i + 1]
  BY HeadTailProperties
<1>2. /\ Len(line) \in Nat \ {0} /\ DOMAIN line = 1..Len(line)
      /\ DOMAIN Tail(line) = 1..(Len(line) - 1) /\ Head(line) = line[1]
  BY <1>1, LenProperties, EmptySeq
<1>3. \A i \in 1..(Len(line) - 1) : i + 1 \in 1..Len(line) /\ i + 1 # 1
  BY <1>2
<1>4. \A i \in 1..Len(line) : i # 1 => \E j \in 1..(Len(line) - 1) : j + 1 = i
  <2> SUFFICES ASSUME NEW i \in 1..Len(line), i # 1
               PROVE  i - 1 \in 1..(Len(line) - 1) /\ (i - 1) + 1 = i
    OBVIOUS
  <2> QED
    BY <1>2
<1>5. 1 \in 1..Len(line)
  BY <1>2
<1>6. \A i \in 1..Len(line) : i # 1 => line[i] # line[1]
  BY <1>2, <1>5 DEF IsInjective
<1>7. Range(Tail(line)) = Range(line) \ {Head(line)}
  <2>1. \A x \in Range(Tail(line)) : x \in Range(line) \ {Head(line)}
    <3> SUFFICES ASSUME NEW i \in 1..(Len(line) - 1)
                 PROVE  Tail(line)[i] \in Range(line) \ {Head(line)}
      BY <1>2 DEF Range
    <3>1. Tail(line)[i] = line[i + 1]
      BY <1>1, <1>2
    <3>2. i + 1 \in DOMAIN line /\ line[i + 1] # Head(line)
      BY <1>2, <1>3, <1>6
    <3> QED
      BY <3>1, <3>2 DEF Range
  <2>2. \A x \in Range(line) \ {Head(line)} : x \in Range(Tail(line))
    <3> SUFFICES ASSUME NEW i \in 1..Len(line), line[i] # Head(line)
                 PROVE  line[i] \in Range(Tail(line))
      BY <1>2 DEF Range
    <3>1. PICK j \in 1..(Len(line) - 1) : j + 1 = i
      BY <1>2, <1>4
    <3>2. line[i] = Tail(line)[j] /\ j \in DOMAIN Tail(line)
      BY <1>1, <1>2, <3>1
    <3> QED
      BY <3>2 DEF Range
  <2> QED
    BY <2>1, <2>2
<1>8. IsInjective(Tail(line))
  <2> SUFFICES ASSUME NEW i \in 1..(Len(line) - 1), NEW j \in 1..(Len(line) - 1),
                      Tail(line)[i] = Tail(line)[j]
               PROVE  i = j
    BY <1>2 DEF IsInjective
  <2>1. line[i + 1] = line[j + 1] /\ i + 1 \in DOMAIN line /\ j + 1 \in DOMAIN line
    BY <1>1, <1>2, <1>3
  <2>2. i + 1 = j + 1
    BY <2>1 DEF IsInjective
  <2> QED
    BY <2>2, <1>2
<1> QED
  BY <1>7, <1>8

\* How many stand behind the i-th of n.
LEMMA Behind ==
    ASSUME NEW n \in Nat, NEW i \in 1..n
    PROVE  (IF i + 1 <= n THEN n - (i + 1) + 1 ELSE 0) = n - i
OBVIOUS

\* Who is discarded leaves the line, the others keep their order.
LEMMA OutOfTheLine ==
    ASSUME NEW line \in Seq(Partitions), IsInjective(line), NEW p
    PROVE  /\ Without(line, p) \in Seq(Partitions)
           /\ Range(Without(line, p)) = Range(line) \ {p} /\ IsInjective(Without(line, p))
<1>1. CASE p \notin Range(line)
  BY <1>1 DEF Without
<1>2. CASE p \in Range(line)
  <2>1. PICK i : i = CHOOSE j \in DOMAIN line : line[j] = p
    OBVIOUS
  <2>2. i \in DOMAIN line /\ line[i] = p
    BY <1>2, <2>1 DEF Range
  <2>3. Len(line) \in Nat /\ DOMAIN line = 1..Len(line) /\ i \in 1..Len(line)
    BY <2>2, LenProperties
  <2>18. Without(line, p) = SubSeq(line, 1, i - 1) \o SubSeq(line, i + 1, Len(line))
    BY <1>2, <2>1 DEF Without, RemoveAt
  <2>4. PICK s : s = SubSeq(line, 1, i - 1)
    OBVIOUS
  <2>5. PICK t : t = SubSeq(line, i + 1, Len(line))
    OBVIOUS
  <2>6. /\ \A j \in 1..(i - 1) : line[j] \in Partitions
        /\ \A j \in (i + 1)..Len(line) : line[j] \in Partitions
    BY <2>3, ElementOfSeq
  <2>7. /\ s \in Seq(Partitions) /\ Len(s) = i - 1
        /\ \A j \in 1..(i - 1) : s[j] = line[j]
    BY <2>3, <2>4, <2>6, SubSeqProperties
  <2>8. /\ t \in Seq(Partitions) /\ Len(t) = Len(line) - i
        /\ \A j \in 1..(Len(line) - i) : t[j] = line[j + i]
    <3>1. /\ t \in Seq(Partitions)
          /\ Len(t) = IF i + 1 <= Len(line) THEN Len(line) - (i + 1) + 1 ELSE 0
          /\ \A j \in 1..(Len(line) - (i + 1) + 1) : t[j] = line[(i + 1) + j - 1]
      BY <2>3, <2>5, <2>6, SubSeqProperties
    <3>2. Len(t) = Len(line) - i
      <4>1. (IF i + 1 <= Len(line) THEN Len(line) - (i + 1) + 1 ELSE 0) = Len(line) - i
        BY <2>3, Behind, Zenon
      <4>2. PICK e : e = IF i + 1 <= Len(line) THEN Len(line) - (i + 1) + 1 ELSE 0
        OBVIOUS
      <4>3. Len(t) = e /\ e = Len(line) - i
        BY <3>1, <4>1, <4>2
      <4> QED
        BY <4>3
    <3>3. ASSUME NEW j \in 1..(Len(line) - i)
          PROVE  t[j] = line[j + i]
      <4>1. j \in 1..(Len(line) - (i + 1) + 1) /\ (i + 1) + j - 1 = j + i
        BY <2>3
      <4> QED
        BY <3>1, <4>1
    <3> QED
      BY <3>1, <3>2, <3>3
  <2>9. PICK c : c = Without(line, p)
    OBVIOUS
  <2>10. c = s \o t
    BY <2>4, <2>5, <2>9, <2>18
  <2>11. /\ c \in Seq(Partitions) /\ Len(c) = Len(line) - 1
         /\ \A j \in 1..(Len(line) - 1) : c[j] = IF j < i THEN line[j] ELSE line[j + 1]
    <3>1. /\ c \in Seq(Partitions) /\ Len(c) = Len(s) + Len(t)
          /\ \A j \in 1..(Len(s) + Len(t)) : c[j] = IF j <= Len(s) THEN s[j] ELSE t[j - Len(s)]
      BY <2>7, <2>8, <2>10, ConcatProperties
    <3>2. Len(c) = Len(line) - 1 /\ Len(s) + Len(t) = Len(line) - 1
      BY <2>3, <2>7, <2>8, <3>1
    <3>3. ASSUME NEW j \in 1..(Len(line) - 1)
          PROVE  c[j] = IF j < i THEN line[j] ELSE line[j + 1]
      <4>1. c[j] = IF j <= i - 1 THEN s[j] ELSE t[j - (i - 1)]
        BY <2>7, <3>1, <3>2
      <4>2. CASE j < i
        BY <2>3, <2>7, <4>1, <4>2
      <4>3. CASE ~(j < i)
        <5>1. j - (i - 1) \in 1..(Len(line) - i) /\ (j - (i - 1)) + i = j + 1
          BY <2>3, <4>3
        <5>2. t[j - (i - 1)] = line[j + 1]
          BY <2>8, <5>1
        <5> QED
          BY <2>3, <4>1, <4>3, <5>2
      <4> QED
        BY <4>2, <4>3
    <3> QED
      BY <3>1, <3>2, <3>3
  <2>12. \A j \in 1..Len(line) : line[j] = p => j = i
    BY <2>2, <2>3 DEF IsInjective
  <2>13. DOMAIN c = 1..(Len(line) - 1)
    BY <2>11, LenProperties
  <2>14. ASSUME NEW j \in 1..(Len(line) - 1)
         PROVE  \E m \in 1..Len(line) : m # i /\ c[j] = line[m] /\ m = IF j < i THEN j ELSE j + 1
    BY <2>3, <2>11
  <2>15. ASSUME NEW m \in 1..Len(line), m # i
         PROVE  \E j \in 1..(Len(line) - 1) : c[j] = line[m]
    <3>1. CASE m < i
      <4>1. m \in 1..(Len(line) - 1)
        BY <2>3, <3>1
      <4> QED
        BY <2>11, <3>1, <4>1
    <3>2. CASE m > i
      <4>1. m - 1 \in 1..(Len(line) - 1) /\ ~(m - 1 < i) /\ (m - 1) + 1 = m
        BY <2>3, <3>2
      <4> QED
        BY <2>11, <4>1
    <3> QED
      BY <2>3, <2>15, <3>1, <3>2
  <2>16. Range(c) = Range(line) \ {p}
    <3>1. \A x \in Range(c) : x \in Range(line) \ {p}
      BY <2>3, <2>12, <2>13, <2>14 DEF Range
    <3>2. \A x \in Range(line) \ {p} : x \in Range(c)
      BY <2>2, <2>3, <2>13, <2>15 DEF Range
    <3> QED
      BY <3>1, <3>2
  <2>17. IsInjective(c)
    <3> SUFFICES ASSUME NEW a \in 1..(Len(line) - 1), NEW b \in 1..(Len(line) - 1), c[a] = c[b]
                 PROVE  a = b
      BY <2>13 DEF IsInjective
    <3>1. PICK m \in 1..Len(line) : m # i /\ c[a] = line[m] /\ m = IF a < i THEN a ELSE a + 1
      BY <2>14
    <3>2. PICK n \in 1..Len(line) : n # i /\ c[b] = line[n] /\ n = IF b < i THEN b ELSE b + 1
      BY <2>14
    <3>3. m = n
      BY <2>3, <3>1, <3>2 DEF IsInjective
    <3> QED
      BY <2>3, <3>1, <3>2, <3>3
  <2> QED
    BY <2>9, <2>11, <2>16, <2>17
<1> QED
  BY <1>1, <1>2

\* Those of a level are finitely many.
LEMMA AtFinite ==
    ASSUME NEW l, NEW k, NEW pc, NEW p
    PROVE  /\ IsFiniteSet(At(l, k, pc)) /\ Cardinality(At(l, k, pc)) \in Nat
           /\ p \notin At(l, k, pc) => Cardinality(At(l, k, pc) \union {p}) = Cardinality(At(l, k, pc)) + 1
           /\ p \in At(l, k, pc) => Cardinality(At(l, k, pc) \ {p}) = Cardinality(At(l, k, pc)) - 1
<1>1. IsFiniteSet(Partitions)
  BY LifecycleAssumption
<1>2. IsFiniteSet(At(l, k, pc))
  BY <1>1, FS_Subset DEF At, On
<1> QED
  BY <1>2, FS_CardinalityType, FS_AddElement, FS_RemoveElement

\* One record of a level goes from one place to another.
LEMMA OneMoves ==
    ASSUME NEW l, NEW p \in On(l), NEW k, NEW after, k[p] # after[p],
           \A q \in Partitions : q # p => after[q] = k[q]
    PROVE  /\ At(l, after, after[p]) = At(l, k, after[p]) \union {p} /\ p \notin At(l, k, after[p])
           /\ At(l, after, k[p]) = At(l, k, k[p]) \ {p} /\ p \in At(l, k, k[p])
           /\ \A pc : pc # k[p] /\ pc # after[p] => At(l, after, pc) = At(l, k, pc)
<1>1. \A q \in On(l) : q \in Partitions
  BY DEF On
<1> QED
  BY <1>1 DEF At

LEMMA FirstWoken ==
    ASSUME NEW l, NEW h \in On(l), NEW k, NEW after, k[h] = "waiting", after[h] = "woken",
           \A q \in Partitions : q # h => after[q] = k[q]
    PROVE  /\ At(l, after, "woken") = At(l, k, "woken") \union {h} /\ h \notin At(l, k, "woken")
           /\ At(l, after, "waiting") = At(l, k, "waiting") \ {h}
           /\ At(l, after, "active") = At(l, k, "active")
<1>1. \A q \in On(l) : q \in Partitions
  BY DEF On
<1> QED
  BY <1>1 DEF At

\* waiting.shift()?.() once a slot of level l is free: the line may be one short.
LEMMA Wakes ==
    ASSUME NEW l \in Levels, NEW g \in [Levels -> [active : Nat, waiting : Seq(Partitions)]],
           NEW k \in [Partitions -> Waits], NEW n \in Nat,
           g[l].active = Cardinality(At(l, k, "active")), g[l].active <= concurrency,
           Range(g[l].waiting) = At(l, k, "waiting"), IsInjective(g[l].waiting),
           g[l].waiting # <<>> => concurrency <= g[l].active + n + 1 + Cardinality(At(l, k, "woken")),
           NextWoken(l, g, k)
    PROVE  /\ gate' \in [Levels -> [active : Nat, waiting : Seq(Partitions)]]
           /\ parked' \in [Partitions -> Waits]
           /\ Kept(l, gate'[l], parked', n)
           /\ \A m \in Levels : m # l => gate'[m] = g[m]
           /\ \A q \in Partitions : parked'[q] # k[q] => q \in On(l) /\ k[q] = "waiting" /\ parked'[q] = "woken"
<1>1. CASE g[l].waiting = <<>>
  BY <1>1 DEF NextWoken, Kept
<1>2. CASE g[l].waiting # <<>>
  <2>14. PICK h : h = Head(g[l].waiting)
    OBVIOUS
  <2>1. g[l] \in [active : Nat, waiting : Seq(Partitions)] /\ g[l].waiting \in Seq(Partitions)
    OBVIOUS
  <2>2. /\ h \in Partitions /\ Tail(g[l].waiting) \in Seq(Partitions)
        /\ h \in Range(g[l].waiting)
    BY <1>2, <2>1, <2>14, HeadTailProperties, LenProperties, EmptySeq DEF Range
  <2>3. h \in On(l) /\ k[h] = "waiting"
    BY <2>2 DEF At
  <2>4. /\ gate' = [g EXCEPT ![l].waiting = Tail(g[l].waiting)]
        /\ parked' = [k EXCEPT ![h] = "woken"]
    BY <1>2, <2>14 DEF NextWoken
  <2>5. /\ gate' \in [Levels -> [active : Nat, waiting : Seq(Partitions)]]
        /\ gate'[l].waiting = Tail(g[l].waiting) /\ gate'[l].active = g[l].active
        /\ \A m \in Levels : m # l => gate'[m] = g[m]
    BY <2>1, <2>2, <2>4
  <2>6. "woken" \in Waits /\ "woken" # k[h]
    BY <2>3 DEF Waits
  <2>7. /\ parked' \in [Partitions -> Waits]
        /\ parked'[h] = "woken" /\ \A q \in Partitions : q # h => parked'[q] = k[q]
    BY <2>2, <2>4, <2>6
  <2>11. /\ At(l, parked', "woken") = At(l, k, "woken") \union {h} /\ h \notin At(l, k, "woken")
         /\ At(l, parked', "waiting") = At(l, k, "waiting") \ {h}
         /\ At(l, parked', "active") = At(l, k, "active")
    BY <2>3, <2>7, FirstWoken
  <2>12. Cardinality(At(l, k, "woken")) \in Nat
    BY AtFinite
  <2>13. Cardinality(At(l, parked', "woken")) = Cardinality(At(l, k, "woken")) + 1
    BY <2>11, AtFinite
  <2>8. Range(Tail(g[l].waiting)) = Range(g[l].waiting) \ {h} /\ IsInjective(Tail(g[l].waiting))
    BY <1>2, <2>1, <2>14, TheRestOfTheLine
  <2>9. g[l].active \in Nat /\ concurrency \in Nat
    BY <2>1, LifecycleAssumption
  <2>15. concurrency <= gate'[l].active + n + Cardinality(At(l, parked', "woken"))
    <3>1. PICK c \in Nat : c = Cardinality(At(l, k, "woken"))
      BY <2>12
    <3>2. concurrency <= g[l].active + n + 1 + c /\ Cardinality(At(l, parked', "woken")) = c + 1
      BY <1>2, <2>13, <3>1
    <3> QED
      BY <2>5, <2>9, <3>1, <3>2
  <2>10. Kept(l, gate'[l], parked', n)
    BY <2>5, <2>8, <2>11, <2>14, <2>15 DEF Kept
  <2> QED
    BY <2>2, <2>3, <2>4, <2>5, <2>7, <2>10
<1> QED
  BY <1>1, <1>2

\* The levels a step does not touch.
LEMMA OtherLevels ==
    ASSUME NEW m \in Levels, Kept(m, gate[m], parked, passing[m]), UNCHANGED routes,
           gate'[m] = gate[m], passing'[m] = passing[m],
           \A q \in On(m) : parked'[q] # parked[q] =>
              {parked[q], parked'[q]} \intersect {"waiting", "woken", "active"} = {}
    PROVE  Kept(m, gate[m], parked, passing[m])'
<1>1. On(m)' = On(m)
  BY DEF On, Read, Level, Consumed
<1>2. \A pc \in {"waiting", "woken", "active"} : At(m, parked, pc)' = At(m, parked, pc)
  BY <1>1 DEF At
<1> QED
  BY <1>2 DEF Kept

\* A record takes a slot, or a place in the line.
LEMMA Taken ==
    ASSUME Works, NEW p \in Partitions, NEW l \in Levels, p \in On(l), l = Level(p),
           Kept(l, gate[l], parked, passing[l]), UNCHANGED <<routes, passing>>,
           parked[p] \in {"sleeping", "woken"}, TakesSlot(p)
    PROVE  /\ gate' \in [Levels -> [active : Nat, waiting : Seq(Partitions)]]
           /\ parked' \in [Partitions -> Waits] /\ parked'[p] \in {"active", "waiting"}
           /\ \A m \in Levels : m # l => gate'[m] = gate[m]
           /\ \A q \in Partitions : q # p => parked'[q] = parked[q]
           /\ Kept(l, gate[l], parked, passing[l])'
<1>1. /\ gate \in [Levels -> [active : Nat, waiting : Seq(Partitions)]]
      /\ parked \in [Partitions -> Waits] /\ passing[l] \in Nat
      /\ gate[l] \in [active : Nat, waiting : Seq(Partitions)]
      /\ gate[l].active \in Nat /\ gate[l].waiting \in Seq(Partitions) /\ concurrency \in Nat
  BY LifecycleAssumption DEF Works
<1>2. /\ "active" \in Waits /\ "waiting" \in Waits
      /\ "active" # parked[p] /\ "waiting" # parked[p]
  BY DEF Waits
<1>3. On(l)' = On(l)
  BY DEF On, Read, Level, Consumed
<1>4. Kept(l, gate[l], parked, passing[l])' <=> Kept(l, gate'[l], parked', passing[l])
  BY <1>3 DEF Kept, At
<1>5. CASE gate[l].active < concurrency
  <2>8. PICK a \in Nat : a = gate[l].active + 1
    BY <1>1
  <2>1. /\ gate' = [gate EXCEPT ![l].active = a]
        /\ parked' = [parked EXCEPT ![p] = "active"]
    BY <1>5, <2>8 DEF TakesSlot
  <2>2. /\ gate' \in [Levels -> [active : Nat, waiting : Seq(Partitions)]]
        /\ gate'[l].active = a /\ gate'[l].waiting = gate[l].waiting
        /\ \A m \in Levels : m # l => gate'[m] = gate[m]
    BY <1>1, <2>1
  <2>3. /\ parked' \in [Partitions -> Waits]
        /\ parked'[p] = "active" /\ \A q \in Partitions : q # p => parked'[q] = parked[q]
    BY <1>1, <1>2, <2>1
  <2>6. /\ At(l, parked', "active") = At(l, parked, "active") \union {p} /\ p \notin At(l, parked, "active")
        /\ At(l, parked', "waiting") = At(l, parked, "waiting")
        /\ parked[p] = "woken" => /\ At(l, parked', "woken") = At(l, parked, "woken") \ {p}
                                  /\ p \in At(l, parked, "woken")
        /\ parked[p] # "woken" => At(l, parked', "woken") = At(l, parked, "woken")
    BY <2>3, OneMoves
  <2>7. Cardinality(At(l, parked', "active")) = Cardinality(At(l, parked, "active")) + 1
    BY <2>6, AtFinite
  <2>4. /\ Cardinality(At(l, parked, "woken")) \in Nat /\ Cardinality(At(l, parked', "woken")) \in Nat
        /\ Cardinality(At(l, parked', "woken")) >= Cardinality(At(l, parked, "woken")) - 1
    <3>1. Cardinality(At(l, parked, "woken")) \in Nat
      BY AtFinite
    <3>2. Cardinality(At(l, parked', "woken")) \in Nat
      BY AtFinite
    <3>3. parked[p] = "woken" =>
             Cardinality(At(l, parked', "woken")) = Cardinality(At(l, parked, "woken")) - 1
      BY <2>6, AtFinite
    <3> QED
      BY <2>6, <3>1, <3>2, <3>3
  <2>5. Kept(l, gate'[l], parked', passing[l])
    <3>1. concurrency <= gate[l].active + passing[l] + Cardinality(At(l, parked, "woken"))
          \/ gate[l].waiting = <<>>
      BY DEF Kept
    <3>2. gate'[l].waiting # <<>> =>
             concurrency <= gate'[l].active + passing[l] + Cardinality(At(l, parked', "woken"))
      BY <1>1, <2>2, <2>4, <2>8, <3>1
    <3>3. gate'[l].active = Cardinality(At(l, parked', "active")) /\ gate'[l].active <= concurrency
      BY <1>1, <1>5, <2>2, <2>7, <2>8 DEF Kept
    <3> QED
      BY <2>2, <2>6, <3>2, <3>3 DEF Kept
  <2> QED
    BY <1>1, <1>4, <2>1, <2>2, <2>3, <2>5
<1>6. CASE ~(gate[l].active < concurrency)
  <2>1. /\ gate' = [gate EXCEPT ![l].waiting = Append(gate[l].waiting, p)]
        /\ parked' = [parked EXCEPT ![p] = "waiting"]
    BY <1>6 DEF TakesSlot
  <2>2. p \notin Range(gate[l].waiting) /\ IsInjective(gate[l].waiting)
    BY DEF Kept, At
  <2>3. /\ Append(gate[l].waiting, p) \in Seq(Partitions)
        /\ Range(Append(gate[l].waiting, p)) = Range(gate[l].waiting) \union {p}
        /\ IsInjective(Append(gate[l].waiting, p))
    BY <1>1, <2>2, BehindTheLine
  <2>4. /\ gate' \in [Levels -> [active : Nat, waiting : Seq(Partitions)]]
        /\ gate'[l].active = gate[l].active /\ gate'[l].waiting = Append(gate[l].waiting, p)
        /\ \A m \in Levels : m # l => gate'[m] = gate[m]
    BY <1>1, <2>1, <2>3
  <2>5. /\ parked' \in [Partitions -> Waits]
        /\ parked'[p] = "waiting" /\ \A q \in Partitions : q # p => parked'[q] = parked[q]
    BY <1>1, <1>2, <2>1
  <2>8. /\ At(l, parked', "active") = At(l, parked, "active")
        /\ At(l, parked', "waiting") = At(l, parked, "waiting") \union {p}
    BY <2>5, OneMoves
  <2>6. Cardinality(At(l, parked', "woken")) \in Nat
    BY AtFinite
  <2>7. Kept(l, gate'[l], parked', passing[l])
    <3>1. concurrency <= gate'[l].active + passing[l] + Cardinality(At(l, parked', "woken"))
      BY <1>1, <1>6, <2>4, <2>6
    <3> QED
      BY <1>1, <2>3, <2>4, <2>8, <3>1 DEF Kept
  <2> QED
    BY <1>1, <1>4, <2>1, <2>4, <2>5, <2>7
<1> QED
  BY <1>5, <1>6

-----------------------------------------------------------------------------
(* The steps of start() and stop() on deliveries, lines and slots. *)

\* All of them but those that discard, or give up on handlers.
ControlStep ==
    \/ Start \/ Connected \/ StartFails
    \/ Looked \/ CreateTopics \/ TopicsAppear \/ Created \/ CreationFails
    \/ Unwind \/ Unwound \/ Runs \/ GivesWay \/ GaveWay
    \/ Stop /\ state # "running"
    \/ StartSettled /\ state = "stopped"
    \/ AbandonStart \/ Drained \/ Left
    \/ \E l \in Levels : Opens(l) \/ OpenFails(l) \/ Leaves(l)

LEMMA Faults ==
    ASSUME Works, Fault
    PROVE  faults' \in 0..MaxFaults
BY LifecycleAssumption DEF Works, Fault

LEMMA ControlApart ==
    ASSUME Course, Works, ControlStep
    PROVE  /\ UNCHANGED <<routes, works>> /\ faults' \in 0..MaxFaults
           /\ state' = "idle" => state = "idle"
           /\ state = "running" => state' = "running"
           /\ stop' = "none" => stop = "none"
<1>1. faults \in 0..MaxFaults
  BY DEF Works
<1>2. CASE Start \/ Connected
  BY <1>1, <1>2 DEF Course, Stages, Control, Start, Connected, Refuse, Finish, subscribed
<1>3. CASE StartFails \/ CreationFails
  BY <1>3, Faults DEF Course, Stages, Control, StartFails, CreationFails, Refuse, Finish, works
<1>4. CASE Looked \/ Created
  BY <1>1, <1>4 DEF Course, Stages, Control, Looked, Created, Join, Refuse, Finish, subscribed
<1>5. CASE CreateTopics \/ TopicsAppear
  BY <1>1, <1>5 DEF CreateTopics, TopicsAppear, subscribed
<1>6. CASE Unwind \/ Unwound
  BY <1>1, <1>6 DEF Course, Stages, Control, Unwind, Unwound, Opened, Refuse, Finish
<1>7. CASE Runs \/ GivesWay \/ GaveWay
  BY <1>1, <1>7 DEF Course, Stages, Control, Runs, GivesWay, GaveWay, Opened, subscribed
<1>8. CASE Stop /\ state # "running"
  BY <1>1, <1>8 DEF Course, Control, Stages, Stop, Finish, works, subscribed
<1>9. CASE StartSettled /\ state = "stopped"
  BY <1>1, <1>9 DEF StartSettled, Finish, works
<1>10. CASE AbandonStart \/ Drained \/ Left
  BY <1>1, <1>10 DEF Course, Control, Stages, AbandonStart, Drained, Left, Finish, works, subscribed
<1>11. ASSUME NEW l \in Levels, Opens(l) \/ OpenFails(l) \/ Leaves(l)
       PROVE  UNCHANGED <<calls, works>> /\ faults' \in 0..MaxFaults
  <2>1. CASE OpenFails(l)
    BY <2>1, Faults DEF OpenFails
  <2>2. CASE Opens(l) \/ Leaves(l)
    BY <1>1, <2>2 DEF Opens, Leaves
  <2> QED
    BY <1>11, <2>1, <2>2
<1>12. CASE \E l \in Levels : Opens(l) \/ OpenFails(l) \/ Leaves(l)
  BY <1>11, <1>12 DEF calls, subscribed
<1> QED
  BY <1>2, <1>3, <1>4, <1>5, <1>6, <1>7, <1>8, <1>9, <1>10, <1>12 DEF ControlStep

places == <<delivery, delivered, parked, paused, gate, passing>>

\* What leaves the lines and slots alone.
LEMMA SlotsApart ==
    ASSUME Slots, UNCHANGED <<routes, places>>, Works',
           state' = "idle" => state = "idle", state = "running" => state' = "running"
    PROVE  Slots'
<1>1. \A l : On(l)' = On(l)
  BY DEF On, Read, Level, Consumed
<1>2. Lines'
  <2>1. \A l, pc : At(l, parked, pc)' = At(l, parked, pc)
    BY <1>1 DEF At, places
  <2> QED
    BY <2>1 DEF Slots, Lines, Kept, places
<1>3. Laddered' /\ Placed' /\ Still'
  BY DEF Slots, Laddered, Placed, Still, Parked, Waiters, Read, Consumed, places
<1> QED
  BY <1>2, <1>3 DEF Slots

LEMMA Discards ==
    ASSUME Works, NEW S, NEW lines \in [Levels -> Seq(Partitions)], DiscardParked(S, lines)
    PROVE  /\ parked' \in [Partitions -> Waits]
           /\ \A p \in Partitions : parked'[p] = IF p \in S \intersect Parked THEN "none" ELSE parked[p]
           /\ gate' \in [Levels -> [active : Nat, waiting : Seq(Partitions)]]
           /\ \A l \in Levels : gate'[l].active = gate[l].active /\ gate'[l].waiting = lines[l]
           /\ passing' \in [Levels -> Nat]
           /\ \A l \in Levels : passing'[l] = passing[l] + Cardinality(On(l) \intersect S \intersect Waiters)
<1>1. /\ parked' \in [Partitions -> Waits]
      /\ \A p \in Partitions : parked'[p] = IF p \in S \intersect Parked THEN "none" ELSE parked[p]
  BY DEF Works, DiscardParked, Waits
<1>2. ASSUME NEW l \in Levels
      PROVE  /\ [gate[l] EXCEPT !.waiting = lines[l]] \in [active : Nat, waiting : Seq(Partitions)]
             /\ [gate[l] EXCEPT !.waiting = lines[l]].active = gate[l].active
             /\ [gate[l] EXCEPT !.waiting = lines[l]].waiting = lines[l]
  <2>1. gate[l] \in [active : Nat, waiting : Seq(Partitions)] /\ lines[l] \in Seq(Partitions)
    BY DEF Works
  <2> QED
    BY <2>1
<1>3. /\ gate' \in [Levels -> [active : Nat, waiting : Seq(Partitions)]]
      /\ \A l \in Levels : gate'[l].active = gate[l].active /\ gate'[l].waiting = lines[l]
  BY <1>2 DEF DiscardParked
<1>4. ASSUME NEW l \in Levels
      PROVE  passing[l] + Cardinality(On(l) \intersect S \intersect Waiters) \in Nat
  <2>1. IsFiniteSet(On(l) \intersect S \intersect Waiters)
    BY LifecycleAssumption, FS_Subset DEF On
  <2>2. Cardinality(On(l) \intersect S \intersect Waiters) \in Nat
    BY <2>1, FS_CardinalityType
  <2>3. passing[l] \in Nat
    BY DEF Works
  <2> QED
    BY <2>2, <2>3
<1>5. /\ passing' \in [Levels -> Nat]
      /\ \A l \in Levels : passing'[l] = passing[l] + Cardinality(On(l) \intersect S \intersect Waiters)
  BY <1>4 DEF DiscardParked
<1> QED
  BY <1>1, <1>3, <1>5

LEMMA NobodyInLine ==
    ASSUME NEW line \in Seq(Partitions), Range(line) = {}
    PROVE  line = <<>>
<1> SUFFICES ASSUME line # <<>>
             PROVE  FALSE
  OBVIOUS
<1>1. Len(line) \in Nat /\ Len(line) # 0 /\ DOMAIN line = 1..Len(line)
  BY LenProperties, EmptySeq
<1>2. 1 \in DOMAIN line
  BY <1>1
<1> QED
  BY <1>2 DEF Range

\* A stop begins: the lines are empty, the slots stay with who holds them.
LEMMA DrainingKeeps ==
    ASSUME Slots, BeginDraining, faults' \in 0..MaxFaults, UNCHANGED delivered,
           delivery' \in [Partitions -> {"none", "queued", "active", "abandoned"}],
           \A p \in Partitions : delivery'[p] # "none" => delivery[p] # "none"
    PROVE  /\ Slots' /\ stop' = "draining"
           /\ \A p \in Partitions : parked'[p] # parked[p] => parked'[p] = "none"
<1>1. Works /\ UNCHANGED <<routes, paused>> /\ state' = "stopping" /\ stop' = "draining"
  BY DEF Slots, BeginDraining, subscribed
<1>2. /\ parked' \in [Partitions -> Waits]
      /\ \A p \in Partitions : parked'[p] = IF p \in Parked THEN "none" ELSE parked[p]
      /\ gate' \in [Levels -> [active : Nat, waiting : Seq(Partitions)]]
      /\ \A l \in Levels : gate'[l].active = gate[l].active /\ gate'[l].waiting = <<>>
      /\ passing' \in [Levels -> Nat]
  <2>1. /\ [l \in Levels |-> <<>>] \in [Levels -> Seq(Partitions)]
        /\ \A l \in Levels : [m \in Levels |-> <<>>][l] = <<>>
    BY EmptySeq
  <2>2. DiscardParked(Partitions, [l \in Levels |-> <<>>])
    BY DEF BeginDraining
  <2> QED
    BY <1>1, <2>1, <2>2, Discards
<1>3. Works'
  BY <1>1, <1>2 DEF Works
<1>4. \A l : On(l)' = On(l)
  BY <1>1 DEF On, Read, Level, Consumed
<1>5. ASSUME NEW l \in Levels
      PROVE  Kept(l, gate[l], parked, passing[l])'
  <2>1. /\ At(l, parked, "active")' = At(l, parked, "active")
        /\ At(l, parked, "waiting")' = {}
    BY <1>2, <1>4 DEF At, On, Parked, Waiters
  <2>2. gate[l].active = Cardinality(At(l, parked, "active")) /\ gate[l].active <= concurrency
    BY DEF Slots, Lines, Kept
  <2>3. gate'[l].active = gate[l].active /\ gate'[l].waiting = <<>>
    BY <1>2
  <2>4. Range(<<>>) = {} /\ IsInjective(<<>>)
    BY DEF Range, IsInjective
  <2> QED
    BY <2>1, <2>2, <2>3, <2>4 DEF Kept
<1>6. Laddered' /\ Placed' /\ Still'
  BY <1>1, <1>2 DEF Slots, Laddered, Placed, Still, Parked, Waiters, Read, Consumed
<1> QED
  BY <1>1, <1>2, <1>3, <1>5, <1>6 DEF Slots, Lines

\* The stop gives up on handlers: of their re-entries only the slots are left.
LEMMA DeadlineKeeps ==
    ASSUME Course, Slots, DeadlinePasses
    PROVE  Slots'
<1>1. Works /\ UNCHANGED <<routes, state, passing, delivered, faults>> /\ state # "running"
  BY DEF Course, Control, Stages, Slots, DeadlinePasses, subscribed
<1>2. /\ parked' \in [Partitions -> Waits]
      /\ \A p \in Partitions : parked'[p] = IF parked[p] = "active" THEN "abandoned" ELSE parked[p]
      /\ delivery' \in [Partitions -> {"none", "queued", "active", "abandoned"}]
      /\ \A p \in Partitions : delivery'[p] # "none" => delivery[p] # "none"
      /\ paused' \subseteq Partitions
  BY <1>1 DEF Works, DeadlinePasses, Waits
<1>3. \A l : On(l)' = On(l)
  BY <1>1 DEF On, Read, Level, Consumed
<1>4. \A l \in Levels : At(l, parked, "active") = ReentriesOf(On(l))
  BY DEF At, ReentriesOf
<1>5. ASSUME NEW l \in Levels
      PROVE  /\ [gate[l] EXCEPT !.active = @ - Cardinality(ReentriesOf(On(l)))]
                   \in [active : Nat, waiting : Seq(Partitions)]
             /\ [gate[l] EXCEPT !.active = @ - Cardinality(ReentriesOf(On(l)))].active = 0
             /\ [gate[l] EXCEPT !.active = @ - Cardinality(ReentriesOf(On(l)))].waiting = gate[l].waiting
  <2>1. gate[l] \in [active : Nat, waiting : Seq(Partitions)]
    BY <1>1 DEF Works
  <2>2. gate[l].active \in Nat /\ gate[l].active = Cardinality(ReentriesOf(On(l)))
    BY <1>4, <2>1 DEF Slots, Lines, Kept
  <2>3. PICK n : n = gate[l].active - Cardinality(ReentriesOf(On(l)))
    OBVIOUS
  <2>4. n = 0
    BY <2>2, <2>3
  <2> QED
    BY <2>1, <2>3, <2>4
<1>6. /\ gate' \in [Levels -> [active : Nat, waiting : Seq(Partitions)]]
      /\ \A l \in Levels : gate'[l].active = 0 /\ gate'[l].waiting = gate[l].waiting
  BY <1>5 DEF DeadlinePasses
<1>7. Works'
  BY <1>1, <1>2, <1>6 DEF Works
<1>8. ASSUME NEW l \in Levels
      PROVE  Kept(l, gate[l], parked, passing[l])'
  <2>1. /\ At(l, parked, "active")' = {}
        /\ At(l, parked, "waiting")' = At(l, parked, "waiting")
    BY <1>2, <1>3 DEF At, On
  <2>2. Range(gate[l].waiting) = At(l, parked, "waiting") /\ IsInjective(gate[l].waiting)
    BY DEF Slots, Lines, Kept
  <2>3. At(l, parked, "waiting") = {}
    BY <1>1 DEF Slots, Still, Parked, Waiters, At, On
  <2>4. gate[l].waiting \in Seq(Partitions)
    BY <1>1 DEF Works
  <2>5. gate[l].waiting = <<>>
    BY <2>2, <2>3, <2>4, NobodyInLine
  <2>6. Cardinality({}) = 0 /\ concurrency \in Nat /\ 0 <= concurrency
    BY FS_EmptySet, LifecycleAssumption
  <2>7. gate'[l].active = 0 /\ gate'[l].waiting = gate[l].waiting
    BY <1>6
  <2> QED
    BY <2>1, <2>2, <2>5, <2>6, <2>7 DEF Kept
<1>9. Laddered' /\ Placed' /\ Still'
  BY <1>1, <1>2 DEF Slots, Laddered, Placed, Still, Parked, Waiters, Read, Consumed
<1> QED
  BY <1>7, <1>8, <1>9 DEF Slots, Lines

-----------------------------------------------------------------------------
(* The steps of the adapter, the handlers and the parked records. *)

LEMMA Housed ==
    ASSUME Slots, NEW p \in Partitions, Read(p)
    PROVE  Level(p) \in Levels /\ p \in On(Level(p)) /\ \A m : m # Level(p) => p \notin On(m)
BY DEF Slots, Laddered, Read, Level, On

\* Deliveries, the first wait of a record that parks and the end of a handler
\* nobody waits for.
LEMMA DeliveryKeeps ==
    ASSUME Course, Slots, NEW p \in Partitions,
           Deliver(p) \/ ReadyReached(p) \/ DeliveryEnds(p) \/ AbandonedEnds(p)
    PROVE  Slots'
<1>1. Works /\ UNCHANGED <<routes, state, gate, passing, faults>>
  BY DEF Slots, Deliver, ReadyReached, DeliveryEnds, AbandonedEnds, calls, subscribed
<1>2. /\ parked' \in [Partitions -> Waits]
      /\ \A q \in Partitions : parked'[q] # parked[q] =>
           \/ parked[q] = "abandoned" /\ parked'[q] = "none"
           \/ parked[q] = "none" /\ parked'[q] = "sleeping" /\ q = p /\ state = "running"
      /\ delivery' \in [Partitions -> {"none", "queued", "active", "abandoned"}]
      /\ paused' \subseteq Partitions
  <2>1. CASE DeliveryEnds(p)
    BY <1>1, <2>1 DEF DeliveryEnds, Works
  <2>2. CASE AbandonedEnds(p)
    BY <1>1, <2>2 DEF AbandonedEnds, Works, Waits
  <2>3. CASE Deliver(p) \/ ReadyReached(p)
    <3>1. \/ Processed(p) /\ state = "running"
          \/ /\ delivery' \in {[delivery EXCEPT ![p] = "queued"], [delivery EXCEPT ![p] = "none"]}
             /\ UNCHANGED <<parked, paused>>
      BY <2>3 DEF Deliver, ReadyReached
    <3> QED
      BY <1>1, <3>1 DEF Works, Processed, Waits
  <2> QED
    BY <2>1, <2>2, <2>3
<1>3. delivered' \in [Partitions -> 0..Records]
  <2>1. CASE Deliver(p)
    <3>1. delivered[p] \in 0..Records /\ delivered[p] < Records /\ Records \in Nat
      BY <1>1, <2>1, LifecycleAssumption DEF Deliver, Works
    <3>2. delivered[p] + 1 \in 0..Records
      BY <3>1
    <3> QED
      BY <1>1, <2>1, <3>2 DEF Deliver, Works
  <2>2. CASE ReadyReached(p) \/ DeliveryEnds(p) \/ AbandonedEnds(p)
    BY <1>1, <2>2 DEF ReadyReached, DeliveryEnds, AbandonedEnds, Works
  <2> QED
    BY <2>1, <2>2
<1>4. Works'
  BY <1>1, <1>2, <1>3 DEF Works
<1>5. ASSUME NEW m \in Levels
      PROVE  Kept(m, gate[m], parked, passing[m])'
  <2>1. Kept(m, gate[m], parked, passing[m])
    BY DEF Slots, Lines
  <2>2. \A q \in On(m) : parked'[q] # parked[q] =>
           {parked[q], parked'[q]} \intersect {"waiting", "woken", "active"} = {}
    BY <1>2 DEF On
  <2> QED
    BY <1>1, <2>1, <2>2, OtherLevels
<1>6. /\ parked[p] = "none" /\ parked'[p] = "sleeping" => Read(p)
      /\ \A q \in Partitions : delivery'[q] # "none" => delivery[q] # "none" \/ (Read(q) /\ state # "idle")
  <2>1. CASE Deliver(p)
    <3>1. Read(p) /\ membership[Level(p)] = "open"
      BY <2>1 DEF Deliver
    <3>2. state # "idle"
      BY <3>1, Housed DEF Course, Control, Stages, Members, AllIn
    <3>3. \A q \in Partitions : q # p => delivery'[q] = delivery[q]
      BY <1>1, <2>1 DEF Deliver, Processed, Works
    <3> QED
      BY <3>1, <3>2, <3>3
  <2>2. CASE ReadyReached(p)
    <3>1. Read(p) /\ state # "idle"
      BY <2>2 DEF ReadyReached, Slots, Placed
    <3>2. \A q \in Partitions : q # p => delivery'[q] = delivery[q]
      BY <1>1, <2>2 DEF ReadyReached, Processed, Works
    <3> QED
      BY <3>1, <3>2
  <2>3. CASE DeliveryEnds(p) \/ AbandonedEnds(p)
    BY <1>1, <2>3 DEF DeliveryEnds, AbandonedEnds, Works
  <2> QED
    BY <2>1, <2>2, <2>3
<1>7. Laddered' /\ Placed' /\ Still'
  BY <1>1, <1>2, <1>6 DEF Slots, Laddered, Placed, Still, Parked, Waiters, Read, Consumed
<1> QED
  BY <1>4, <1>5, <1>7 DEF Slots, Lines

\* A record's time comes, or it was woken.
LEMMA EntersKeeps ==
    ASSUME Slots, NEW p \in Partitions, TimeComes(p) \/ WokenGoesOn(p)
    PROVE  Slots' /\ state = "running"
<1>1. /\ Works /\ UNCHANGED <<routes, state, delivery, delivered, paused, passing, faults>>
      /\ parked[p] \in {"sleeping", "woken"} /\ TakesSlot(p)
  BY DEF Slots, TimeComes, WokenGoesOn, calls, subscribed
<1>2. state = "running" /\ Read(p)
  BY <1>1 DEF Slots, Still, Placed, Parked, Waiters
<1>3. PICK l \in Levels : l = Level(p) /\ p \in On(l) /\ \A m : m # l => p \notin On(m)
  BY <1>2, Housed
<1>4. Kept(l, gate[l], parked, passing[l])
  BY DEF Slots, Lines
<1>5. /\ gate' \in [Levels -> [active : Nat, waiting : Seq(Partitions)]]
      /\ parked' \in [Partitions -> Waits]
      /\ \A m \in Levels : m # l => gate'[m] = gate[m]
      /\ \A q \in Partitions : q # p => parked'[q] = parked[q]
      /\ Kept(l, gate[l], parked, passing[l])'
  BY <1>1, <1>3, <1>4, Taken
<1>6. ASSUME NEW m \in Levels
      PROVE  Kept(m, gate[m], parked, passing[m])'
  <2>1. CASE m = l
    BY <1>5, <2>1
  <2>2. CASE m # l
    <3>1. Kept(m, gate[m], parked, passing[m])
      BY DEF Slots, Lines
    <3>2. \A q \in On(m) : parked'[q] = parked[q]
      BY <1>3, <1>5, <2>2 DEF On
    <3>3. gate'[m] = gate[m] /\ passing'[m] = passing[m]
      BY <1>1, <1>5, <2>2
    <3> QED
      BY <1>1, <3>1, <3>2, <3>3, OtherLevels
  <2> QED
    BY <2>1, <2>2
<1>7. Works'
  BY <1>1, <1>5 DEF Works
<1>8. Laddered' /\ Placed' /\ Still'
  BY <1>1, <1>2, <1>5 DEF Slots, Laddered, Placed, Still, Read, Consumed
<1> QED
  BY <1>2, <1>6, <1>7, <1>8 DEF Slots, Lines

\* A line moves on: no record is parked that was not, none starts.
LEMMA WakingKeeps ==
    ASSUME Slots, NEW l \in Levels, UNCHANGED <<routes, state, delivery>>,
           parked' \in [Partitions -> Waits],
           \A q \in Partitions : parked'[q] # parked[q] =>
              /\ q \in On(l)
              /\ \/ parked[q] = "waiting" /\ parked'[q] = "woken"
                 \/ parked'[q] = "none",
           \A m \in Levels : m # l => gate'[m] = gate[m] /\ passing'[m] = passing[m],
           Kept(l, gate[l], parked, passing[l])', Works'
    PROVE  Slots'
<1>1. ASSUME NEW m \in Levels
      PROVE  Kept(m, gate[m], parked, passing[m])'
  <2>1. CASE m = l
    BY <2>1
  <2>2. CASE m # l
    <3>1. Kept(m, gate[m], parked, passing[m])
      BY DEF Slots, Lines
    <3>2. \A q \in On(m) : parked'[q] = parked[q]
      BY <2>2 DEF On
    <3>3. gate'[m] = gate[m] /\ passing'[m] = passing[m]
      BY <2>2
    <3> QED
      BY <3>1, <3>2, <3>3, OtherLevels
  <2> QED
    BY <2>1, <2>2
<1>2. Laddered' /\ Placed' /\ Still'
  BY DEF Slots, Laddered, Placed, Still, Parked, Waiters, Read, Consumed
<1> QED
  BY <1>1, <1>2 DEF Slots, Lines

\* The line is one slot short: the place of one more may be in any of the sums.
LEMMA OneShort ==
    ASSUME NEW a \in Nat, NEW n \in Nat, NEW w \in Nat
    PROVE  (a + 1) + n + w = a + n + 1 + w /\ a + (n + 1) + w = a + n + 1 + w
OBVIOUS

\* A re-entry is over, and the next in line is woken.
LEMMA ReentryKeeps ==
    ASSUME Slots, NEW p \in Partitions, ReentryEnds(p)
    PROVE  Slots'
<1>1. /\ Works /\ UNCHANGED <<routes, state, delivery, delivered, passing, faults>>
      /\ parked[p] = "active" /\ paused' \subseteq Partitions
  BY DEF Slots, Works, ReentryEnds, ReentryOver, calls, subscribed
<1>2. Read(p)
  BY <1>1 DEF Slots, Placed
<1>3. PICK l \in Levels : l = Level(p) /\ p \in On(l) /\ \A m : m # l => p \notin On(m)
  BY <1>2, Housed
<1>4. /\ gate \in [Levels -> [active : Nat, waiting : Seq(Partitions)]] /\ passing[l] \in Nat
      /\ gate[l] \in [active : Nat, waiting : Seq(Partitions)] /\ gate[l].active \in Nat
      /\ concurrency \in Nat /\ parked \in [Partitions -> Waits]
  BY <1>1, LifecycleAssumption DEF Works
<1>5. PICK k : k = [parked EXCEPT ![p] = "none"]
  OBVIOUS
<1>6. /\ k \in [Partitions -> Waits] /\ k[p] = "none"
      /\ \A q \in Partitions : q # p => k[q] = parked[q]
  BY <1>4, <1>5 DEF Waits
<1>7. /\ At(l, k, "active") = At(l, parked, "active") \ {p} /\ p \in At(l, parked, "active")
      /\ At(l, k, "waiting") = At(l, parked, "waiting")
      /\ At(l, k, "woken") = At(l, parked, "woken")
  BY <1>1, <1>3, <1>6 DEF At, On
<1>8. Cardinality(At(l, k, "active")) = Cardinality(At(l, parked, "active")) - 1
  BY <1>7, AtFinite
<1>9. Cardinality(At(l, k, "active")) \in Nat
  BY AtFinite
<1>10. Cardinality(At(l, k, "woken")) \in Nat
  BY AtFinite
<1>11. gate[l].active = Cardinality(At(l, parked, "active")) /\ gate[l].active <= concurrency
  BY DEF Slots, Lines, Kept
<1>12. PICK a \in Nat : a = gate[l].active - 1 /\ a + 1 = gate[l].active
  BY <1>4, <1>8, <1>9, <1>11
<1>13. PICK g : g = [gate EXCEPT ![l] = [gate[l] EXCEPT !.active = a]]
  OBVIOUS
<1>14. /\ g \in [Levels -> [active : Nat, waiting : Seq(Partitions)]]
       /\ g[l].active = a /\ g[l].waiting = gate[l].waiting
       /\ \A m \in Levels : m # l => g[m] = gate[m]
  BY <1>4, <1>13
<1>15. NextWoken(l, g, k)
  BY <1>3, <1>5, <1>12, <1>13 DEF ReentryEnds, ReentryOver
<1>16. g[l].active = Cardinality(At(l, k, "active")) /\ g[l].active <= concurrency
  BY <1>4, <1>8, <1>11, <1>12, <1>14
<1>17. Range(g[l].waiting) = At(l, k, "waiting") /\ IsInjective(g[l].waiting)
  BY <1>7, <1>14 DEF Slots, Lines, Kept
<1>18. g[l].waiting # <<>> =>
          concurrency <= g[l].active + passing[l] + 1 + Cardinality(At(l, k, "woken"))
  <2>1. gate[l].waiting # <<>> =>
           concurrency <= gate[l].active + passing[l] + Cardinality(At(l, parked, "woken"))
    BY DEF Slots, Lines, Kept
  <2>2. PICK w \in Nat : w = Cardinality(At(l, k, "woken"))
    BY <1>10
  <2>3. gate[l].waiting # <<>> => concurrency <= (a + 1) + passing[l] + w
    BY <1>7, <1>12, <2>1, <2>2
  <2>4. gate[l].waiting # <<>> => concurrency <= a + passing[l] + 1 + w
    BY <1>4, <2>3, OneShort
  <2> QED
    BY <1>14, <2>2, <2>4
<1>19. /\ gate' \in [Levels -> [active : Nat, waiting : Seq(Partitions)]]
       /\ parked' \in [Partitions -> Waits]
       /\ Kept(l, gate'[l], parked', passing[l])
       /\ \A m \in Levels : m # l => gate'[m] = g[m]
       /\ \A q \in Partitions : parked'[q] # k[q] => q \in On(l) /\ k[q] = "waiting" /\ parked'[q] = "woken"
  BY <1>4, <1>6, <1>14, <1>15, <1>16, <1>17, <1>18, Wakes
<1>20. Works'
  BY <1>1, <1>19 DEF Works
<1>21. Kept(l, gate[l], parked, passing[l])'
  <2>1. On(l)' = On(l)
    BY <1>1 DEF On, Read, Level, Consumed
  <2> QED
    BY <1>1, <1>19, <2>1 DEF Kept, At
<1>22. \A q \in Partitions : parked'[q] # parked[q] =>
          /\ q \in On(l)
          /\ \/ parked[q] = "waiting" /\ parked'[q] = "woken"
             \/ parked'[q] = "none"
  BY <1>3, <1>6, <1>19
<1>23. \A m \in Levels : m # l => gate'[m] = gate[m] /\ passing'[m] = passing[m]
  BY <1>1, <1>14, <1>19
<1> QED
  BY <1>1, <1>19, <1>20, <1>21, <1>22, <1>23, WakingKeeps

\* A discarded waiter was woken for a slot, and the next in line has it.
LEMMA PassingKeeps ==
    ASSUME Slots, NEW l \in Levels, PassesOn(l)
    PROVE  Slots'
<1>1. /\ Works /\ UNCHANGED <<routes, state, delivery, delivered, paused, faults>>
  BY DEF Slots, PassesOn, calls, subscribed
<1>2. /\ gate \in [Levels -> [active : Nat, waiting : Seq(Partitions)]] /\ passing[l] \in Nat
      /\ gate[l] \in [active : Nat, waiting : Seq(Partitions)] /\ gate[l].active \in Nat
      /\ concurrency \in Nat /\ parked \in [Partitions -> Waits]
  BY <1>1, LifecycleAssumption DEF Works
<1>3. PICK n \in Nat : n + 1 = passing[l] /\ n = passing[l] - 1
  BY <1>2 DEF PassesOn
<1>4. /\ passing' \in [Levels -> Nat] /\ passing'[l] = n
      /\ \A m \in Levels : m # l => passing'[m] = passing[m]
  BY <1>1, <1>3 DEF PassesOn, Works
<1>5. /\ gate[l].active = Cardinality(At(l, parked, "active")) /\ gate[l].active <= concurrency
      /\ Range(gate[l].waiting) = At(l, parked, "waiting") /\ IsInjective(gate[l].waiting)
  BY DEF Slots, Lines, Kept
<1>10. gate[l].waiting # <<>> =>
          concurrency <= gate[l].active + passing[l] + Cardinality(At(l, parked, "woken"))
  BY DEF Slots, Lines, Kept
<1>6. PICK w \in Nat : w = Cardinality(At(l, parked, "woken"))
  BY AtFinite
<1>7. On(l)' = On(l)
  BY <1>1 DEF On, Read, Level, Consumed
<1>8. CASE gate[l].active < concurrency
  <2>1. NextWoken(l, gate, parked)
    BY <1>8 DEF PassesOn
  <2>2. gate[l].waiting # <<>> => concurrency <= gate[l].active + (n + 1) + w
    BY <1>3, <1>6, <1>10
  <2>3. gate[l].waiting # <<>> => concurrency <= gate[l].active + n + 1 + w
    BY <1>2, <2>2, OneShort
  <2>7. gate[l].waiting # <<>> =>
           concurrency <= gate[l].active + n + 1 + Cardinality(At(l, parked, "woken"))
    BY <1>6, <2>3
  <2>8. /\ gate \in [Levels -> [active : Nat, waiting : Seq(Partitions)]]
        /\ parked \in [Partitions -> Waits] /\ n \in Nat
        /\ gate[l].active = Cardinality(At(l, parked, "active")) /\ gate[l].active <= concurrency
        /\ Range(gate[l].waiting) = At(l, parked, "waiting") /\ IsInjective(gate[l].waiting)
        /\ gate[l].waiting # <<>> =>
              concurrency <= gate[l].active + n + 1 + Cardinality(At(l, parked, "woken"))
        /\ NextWoken(l, gate, parked)
    BY <1>2, <1>3, <1>5, <2>1, <2>7
  <2>4. /\ gate' \in [Levels -> [active : Nat, waiting : Seq(Partitions)]]
        /\ parked' \in [Partitions -> Waits]
        /\ Kept(l, gate'[l], parked', n)
        /\ \A m \in Levels : m # l => gate'[m] = gate[m]
        /\ \A q \in Partitions : parked'[q] # parked[q] =>
              q \in On(l) /\ parked[q] = "waiting" /\ parked'[q] = "woken"
    BY ONLY <2>8, Wakes
  <2>5. Works'
    BY <1>1, <1>4, <2>4 DEF Works
  <2>6. Kept(l, gate[l], parked, passing[l])'
    BY <1>4, <1>7, <2>4 DEF Kept, At
  <2> QED
    BY <1>1, <1>4, <2>4, <2>5, <2>6, WakingKeeps
<1>9. CASE ~(gate[l].active < concurrency)
  <2>1. UNCHANGED <<gate, parked>>
    BY <1>9 DEF PassesOn
  <2>2. Works'
    BY <1>1, <1>4, <2>1 DEF Works
  <2>3. concurrency <= gate[l].active + n + w
    BY <1>2, <1>9
  <2>4. Kept(l, gate[l], parked, passing[l])'
    BY <1>4, <1>5, <1>6, <1>7, <2>1, <2>3 DEF Kept, At
  <2>5. /\ parked' \in [Partitions -> Waits]
        /\ \A q \in Partitions : parked'[q] = parked[q]
        /\ \A m \in Levels : m # l => gate'[m] = gate[m] /\ passing'[m] = passing[m]
    BY <1>2, <1>4, <2>1
  <2> QED
    BY <1>1, <2>2, <2>4, <2>5, WakingKeeps
<1> QED
  BY <1>8, <1>9

LEMMA SameGate ==
    ASSUME NEW g \in [active : Nat, waiting : Seq(Partitions)],
           NEW h \in [active : Nat, waiting : Seq(Partitions)],
           g.active = h.active, g.waiting = h.waiting
    PROVE  g = h
OBVIOUS

LEMMA OneLess ==
    ASSUME NEW c \in Nat, NEW a \in Nat, NEW n \in Nat, NEW m \in Nat, NEW w \in Nat, NEW v \in Nat,
           c <= a + n + w, m >= n,
           \/ v = w
           \/ v = w - 1 /\ m = n + 1
    PROVE  c <= a + m + v
OBVIOUS

\* A parked partition is revoked: its record leaves the line, and passes on
\* what it may have been woken for.
LEMMA RevokeKeeps ==
    ASSUME Slots, NEW p \in Partitions, Revoke(p)
    PROVE  Slots'
<1>1. /\ Works /\ UNCHANGED <<routes, state, delivery>>
      /\ p \in Parked /\ parked[p] \in {"sleeping", "waiting", "woken"}
      /\ DiscardParked({p}, [l \in Levels |-> Without(gate[l].waiting, p)])
      /\ faults' \in 0..MaxFaults /\ paused' \subseteq Partitions
  BY Faults DEF Slots, Works, Revoke, Parked, Waiters, calls, subscribed
<1>2. Read(p)
  BY <1>1 DEF Slots, Placed
<1>3. PICK l \in Levels : l = Level(p) /\ p \in On(l) /\ \A m : m # l => p \notin On(m)
  BY <1>2, Housed
<1>4. ASSUME NEW m \in Levels
      PROVE  /\ gate[m] \in [active : Nat, waiting : Seq(Partitions)]
             /\ gate[m].waiting \in Seq(Partitions) /\ IsInjective(gate[m].waiting)
             /\ Range(gate[m].waiting) = At(m, parked, "waiting")
             /\ Without(gate[m].waiting, p) \in Seq(Partitions)
             /\ Range(Without(gate[m].waiting, p)) = Range(gate[m].waiting) \ {p}
             /\ IsInjective(Without(gate[m].waiting, p))
  <2>1. /\ gate[m] \in [active : Nat, waiting : Seq(Partitions)]
        /\ gate[m].waiting \in Seq(Partitions)
    BY <1>1 DEF Works
  <2>2. IsInjective(gate[m].waiting) /\ Range(gate[m].waiting) = At(m, parked, "waiting")
    BY DEF Slots, Lines, Kept
  <2> QED
    BY <2>1, <2>2, OutOfTheLine
<1>5. PICK lines \in [Levels -> Seq(Partitions)] : lines = [m \in Levels |-> Without(gate[m].waiting, p)]
  BY <1>4
<1>6. /\ parked' \in [Partitions -> Waits]
      /\ \A q \in Partitions : parked'[q] = IF q \in {p} \intersect Parked THEN "none" ELSE parked[q]
      /\ gate' \in [Levels -> [active : Nat, waiting : Seq(Partitions)]]
      /\ \A m \in Levels : gate'[m].active = gate[m].active /\ gate'[m].waiting = lines[m]
      /\ passing' \in [Levels -> Nat]
      /\ \A m \in Levels :
            passing'[m] = passing[m] + Cardinality(On(m) \intersect {p} \intersect Waiters)
  BY <1>1, <1>5, Discards
<1>7. parked'[p] = "none" /\ \A q \in Partitions : q # p => parked'[q] = parked[q]
  BY <1>1, <1>6
<1>8. Works'
  <2>1. delivered' \in [Partitions -> 0..Records]
    BY <1>1, LifecycleAssumption DEF Revoke, Works
  <2> QED
    BY <1>1, <1>6, <2>1 DEF Works
<1>9. ASSUME NEW m \in Levels, m # l
      PROVE  gate'[m] = gate[m] /\ passing'[m] = passing[m]
  <2>1. p \notin Range(gate[m].waiting)
    BY <1>3, <1>4, <1>9 DEF At
  <2>2. gate'[m].waiting = gate[m].waiting /\ gate'[m].active = gate[m].active
    BY <1>5, <1>6, <2>1 DEF Without
  <2>3. gate'[m] \in [active : Nat, waiting : Seq(Partitions)]
    BY <1>6
  <2>4. On(m) \intersect {p} \intersect Waiters = {}
    BY <1>3, <1>9
  <2>5. passing'[m] = passing[m] + 0 /\ passing[m] \in Nat
    BY <1>1, <1>6, <2>4, FS_EmptySet DEF Works
  <2>6. gate'[m] = gate[m]
    BY <1>4, <2>2, <2>3, SameGate
  <2>7. passing'[m] = passing[m]
    BY <2>5
  <2> QED
    BY <2>6, <2>7
<1>10. /\ At(l, parked', "active") = At(l, parked, "active")
       /\ At(l, parked', "waiting") = At(l, parked, "waiting") \ {p}
       /\ At(l, parked', "woken") = At(l, parked, "woken") \ {p}
       /\ p \in At(l, parked, "woken") <=> parked[p] = "woken"
  BY <1>1, <1>3, <1>7 DEF At, On
<1>11. /\ gate'[l].active = gate[l].active
       /\ gate'[l].waiting = Without(gate[l].waiting, p)
  BY <1>5, <1>6
<1>12. gate'[l].waiting # <<>> => gate[l].waiting # <<>>
  <2>1. Range(<<>>) = {}
    BY DEF Range
  <2>2. ASSUME gate[l].waiting = <<>>
        PROVE  Without(gate[l].waiting, p) = <<>>
    BY <2>1, <2>2 DEF Without
  <2> QED
    BY <1>11, <2>2
<1>13. gate[l].active \in Nat /\ passing[l] \in Nat /\ passing'[l] \in Nat /\ concurrency \in Nat
  BY <1>1, <1>4, <1>6, LifecycleAssumption DEF Works
<1>14. PICK w \in Nat : w = Cardinality(At(l, parked, "woken"))
  BY AtFinite
<1>15. PICK v \in Nat : v = Cardinality(At(l, parked', "woken"))
  BY AtFinite
<1>16. parked[p] = "woken" => v = w - 1
  BY <1>10, <1>14, <1>15, AtFinite
<1>17. parked[p] # "woken" => v = w
  BY <1>10, <1>14, <1>15
<1>18. /\ parked[p] = "woken" => passing'[l] = passing[l] + 1
       /\ passing'[l] >= passing[l]
  <2>1. CASE parked[p] = "sleeping"
    <3>1. On(l) \intersect {p} \intersect Waiters = {}
      BY <2>1 DEF Waiters
    <3>2. passing'[l] = passing[l] + 0
      BY <1>6, <3>1, FS_EmptySet
    <3> QED
      BY <1>13, <2>1, <3>2
  <2>2. CASE parked[p] # "sleeping"
    <3>1. On(l) \intersect {p} \intersect Waiters = {p}
      BY <1>1, <1>3, <2>2 DEF Waiters
    <3>3. Cardinality({p}) = 1
      BY FS_Singleton
    <3>2. passing'[l] = passing[l] + 1
      BY <1>6, <3>1, <3>3
    <3> QED
      BY <1>13, <3>2
  <2> QED
    BY <2>1, <2>2
<1>19. gate[l].waiting # <<>> => concurrency <= gate[l].active + passing[l] + w
  BY <1>14 DEF Slots, Lines, Kept
<1>20. gate[l].waiting # <<>> => concurrency <= gate[l].active + passing'[l] + v
  BY <1>13, <1>16, <1>17, <1>18, <1>19, OneLess
<1>21. Kept(l, gate[l], parked, passing[l])'
  <2>1. On(l)' = On(l)
    BY <1>1 DEF On, Read, Level, Consumed
  <2>2. \A pc : At(l, parked, pc)' = At(l, parked', pc)
    BY <2>1 DEF At
  <2>3. gate'[l].waiting # <<>> =>
           concurrency <= gate'[l].active + passing'[l] + Cardinality(At(l, parked', "woken"))
    BY <1>11, <1>12, <1>15, <1>20
  <2>4. gate'[l].active = Cardinality(At(l, parked', "active")) /\ gate'[l].active <= concurrency
    BY <1>10, <1>11 DEF Slots, Lines, Kept
  <2>5. Range(gate'[l].waiting) = At(l, parked', "waiting") /\ IsInjective(gate'[l].waiting)
    BY <1>4, <1>10, <1>11
  <2> QED
    BY <2>2, <2>3, <2>4, <2>5 DEF Kept
<1>22. \A q \in Partitions : parked'[q] # parked[q] => q \in On(l) /\ parked'[q] = "none"
  BY <1>3, <1>7
<1> QED
  BY <1>1, <1>6, <1>8, <1>9, <1>21, <1>22, WakingKeeps

-----------------------------------------------------------------------------
(* What the consumer is asked to consume. *)

\* The topics of a subscription, level by level.
LEMMA PlanOf ==
    ASSUME NEW t \in Requests
    PROVE  /\ Len(RetryNaming[t]) \in Nat /\ Levels = 0..Len(RetryNaming[t])
           /\ DOMAIN ConsumedTopics(t) = 1..(Len(RetryNaming[t]) + 1)
           /\ ConsumedTopics(t)[1] = t
           /\ \A l \in 1..Len(RetryNaming[t]) : ConsumedTopics(t)[l + 1] = RetryNaming[t][l]
<1>1. /\ RetryNaming[t] \in Seq(Range(RetryNaming[t]))
      /\ Len(RetryNaming[t]) = Cardinality(Levels) - 1 /\ Levels = 0..(Cardinality(Levels) - 1)
  BY SubscriptionsAssumption
<1>2. PICK S : S = Range(RetryNaming[t]) \union {t}
  OBVIOUS
<1>3. RetryNaming[t] \in Seq(S)
  BY <1>1, <1>2, SeqMonotonic
<1>4. <<t>> \in Seq(S) /\ Len(<<t>>) = 1 /\ <<t>>[1] = t
  BY <1>2
<1>5. PICK n \in Nat : n = Len(RetryNaming[t])
  BY <1>3, LenProperties
<1>6. PICK c : c = ConsumedTopics(t)
  OBVIOUS
<1>7. /\ c \in Seq(S) /\ Len(c) = 1 + n
      /\ \A i \in 1..(1 + n) : c[i] = IF i <= 1 THEN <<t>>[i] ELSE RetryNaming[t][i - 1]
  BY <1>3, <1>4, <1>5, <1>6, ConcatProperties DEF ConsumedTopics
<1>8. DOMAIN c = 1..(n + 1)
  BY <1>5, <1>7, LenProperties
<1>9. c[1] = t
  BY <1>4, <1>7
<1>10. ASSUME NEW l \in 1..n
       PROVE  c[l + 1] = RetryNaming[t][l]
  <2>1. l + 1 \in 1..(1 + n) /\ ~(l + 1 <= 1) /\ (l + 1) - 1 = l
    BY <1>5
  <2> QED
    BY <1>7, <2>1
<1> QED
  BY <1>1, <1>5, <1>6, <1>8, <1>9, <1>10

LEMMA TopicsOf ==
    ASSUME NEW t \in Requests
    PROVE  /\ t \in Range(ConsumedTopics(t))
           /\ \A topic \in Range(ConsumedTopics(t)) : LevelOf(t, topic) \in Levels
           /\ \A topic \in Range(ConsumedTopics(t)) :
                 \/ LevelOf(t, topic) = 0 /\ topic = t
                 \/ /\ LevelOf(t, topic) \in 1..Len(RetryNaming[t])
                    /\ topic = RetryNaming[t][LevelOf(t, topic)]
           /\ \A l \in 1..Len(RetryNaming[t]) : RetryNaming[t][l] \in Range(ConsumedTopics(t))
           /\ ~PlanRefused(t) =>
                 /\ LevelOf(t, t) = 0
                 /\ \A l \in 1..Len(RetryNaming[t]) : LevelOf(t, RetryNaming[t][l]) = l
<1>1. PICK n \in Nat : n = Len(RetryNaming[t])
  BY PlanOf
<1>2. PICK c : c = ConsumedTopics(t)
  OBVIOUS
<1>3. /\ Levels = 0..n /\ DOMAIN c = 1..(n + 1) /\ c[1] = t
      /\ \A l \in 1..n : c[l + 1] = RetryNaming[t][l]
  BY <1>1, <1>2, PlanOf
<1>4. ASSUME NEW topic \in Range(c)
      PROVE  LevelOf(t, topic) \in 0..n /\ c[LevelOf(t, topic) + 1] = topic
  <2>1. PICK i \in 1..(n + 1) : c[i] = topic
    BY <1>3 DEF Range
  <2>2. i - 1 \in 0..n /\ (i - 1) + 1 = i
    OBVIOUS
  <2>3. \E l \in 0..n : c[l + 1] = topic
    BY <2>1, <2>2
  <2>4. LevelOf(t, topic) = CHOOSE l \in 0..n : c[l + 1] = topic
    BY <1>1, <1>2 DEF LevelOf
  <2> QED
    BY <2>3, <2>4
<1>5. ASSUME NEW topic \in Range(c)
      PROVE  \/ LevelOf(t, topic) = 0 /\ topic = t
             \/ LevelOf(t, topic) \in 1..n /\ topic = RetryNaming[t][LevelOf(t, topic)]
  <2>1. PICK l \in 0..n : l = LevelOf(t, topic) /\ c[l + 1] = topic
    BY <1>4
  <2>2. CASE l = 0
    BY <1>3, <2>1, <2>2
  <2>3. CASE l # 0
    <3>1. l \in 1..n
      BY <2>3
    <3> QED
      BY <1>3, <2>1, <3>1
  <2> QED
    BY <2>2, <2>3
<1>6. 1 \in 1..(n + 1) /\ \A l \in 1..n : l + 1 \in 1..(n + 1)
  OBVIOUS
<1>7. t \in Range(c) /\ \A l \in 1..n : RetryNaming[t][l] \in Range(c)
  BY <1>3, <1>6 DEF Range
<1>8. ASSUME ~PlanRefused(t), NEW l \in 0..n
      PROVE  LevelOf(t, c[l + 1]) = l
  <2>1. l + 1 \in 1..(n + 1)
    OBVIOUS
  <2>2. c[l + 1] \in Range(c)
    BY <1>3, <2>1 DEF Range
  <2>3. PICK m \in 0..n : m = LevelOf(t, c[l + 1]) /\ c[m + 1] = c[l + 1]
    BY <1>4, <2>2
  <2>4. m + 1 \in 1..(n + 1)
    OBVIOUS
  <2>5. m + 1 = l + 1
    BY <1>2, <1>3, <1>8, <2>1, <2>3, <2>4 DEF PlanRefused, IsInjective
  <2> QED
    BY <2>3, <2>5
<1>9. ~PlanRefused(t) => LevelOf(t, t) = 0
  <2>1. 0 \in 0..n /\ 0 + 1 = 1
    OBVIOUS
  <2> QED
    BY <1>3, <1>8, <2>1
<1>10. ASSUME ~PlanRefused(t), NEW l \in 1..n
       PROVE  LevelOf(t, RetryNaming[t][l]) = l
  <2>1. l \in 0..n
    OBVIOUS
  <2> QED
    BY <1>3, <1>8, <1>10, <2>1
<1> QED
  BY <1>1, <1>2, <1>3, <1>4, <1>5, <1>7, <1>9, <1>10

\* A routed topic is one of the ladder of each of its owners, at the level it is
\* routed with, and of an accepted subscription all is routed but its DLQ.
Routing ==
    /\ \A topic \in Consumed :
          /\ routes[topic] \in [level : Levels, owners : SUBSET Requests]
          /\ routes[topic].owners \subseteq Accepted /\ routes[topic].owners # {}
          /\ IsFiniteSet(routes[topic].owners)
          /\ \A u \in routes[topic].owners :
                topic \in Range(ConsumedTopics(u)) /\ LevelOf(u, topic) = routes[topic].level
    /\ \A u \in Accepted :
          /\ \A topic \in Range(ConsumedTopics(u)) :
                topic \in Consumed /\ u \in routes[topic].owners
          /\ ~PlanRefused(u) /\ DlqNaming[u] \notin Consumed

\* The consumer refuses what clashes with an accepted subscription ...
LEMMA RefusesTheClashing ==
    ASSUME Routing, NEW t \in Requests, ~PlanRefused(t), NEW u \in Accepted, ~Compatible(t, u)
    PROVE  Refused(t)
<1>1. u \in Requests
  BY DEF Accepted
<1>2. CASE DlqNaming[t] \in Range(ConsumedTopics(u))
  BY <1>2 DEF Routing, Refused, DlqConsumed
<1>3. CASE DlqNaming[u] \in Range(ConsumedTopics(t))
  BY <1>3 DEF Accepted, Refused, DlqConsumed
<1>4. ASSUME NEW topic, topic \in Range(ConsumedTopics(t)), topic \in Range(ConsumedTopics(u)),
             ~(LevelOf(t, topic) = LevelOf(u, topic) /\ LevelOf(t, topic) > 0 /\ {t, u} \intersect Batch = {})
      PROVE  Refused(t)
  <2>1. /\ topic \in Consumed /\ u \in routes[topic].owners
        /\ routes[topic].level = LevelOf(u, topic)
    BY <1>4 DEF Routing
  <2>2. CASE LevelOf(t, topic) = 0 /\ topic = t
    BY <2>1, <2>2 DEF Refused
  <2>3. CASE /\ LevelOf(t, topic) \in 1..Len(RetryNaming[t])
             /\ topic = RetryNaming[t][LevelOf(t, topic)]
    <3>1. PICK l \in 1..Len(RetryNaming[t]) : l = LevelOf(t, topic) /\ topic = RetryNaming[t][l]
      BY <2>3
    <3>2. l > 0
      BY PlanOf
    <3>3. routes[topic].level # l \/ t \in Batch \/ routes[topic].owners \intersect Batch # {}
      BY <1>4, <2>1, <3>1, <3>2
    <3> QED
      BY <2>1, <3>1, <3>3 DEF Refused, SharesWrongly
  <2> QED
    BY <1>4, <2>2, <2>3, TopicsOf
<1> QED
  BY <1>2, <1>3, <1>4 DEF Compatible

\* ... and nothing else, as long as the plan itself is one.
LEMMA RefusesNothingElse ==
    ASSUME Routing, NEW t \in Requests, ~PlanRefused(t), Refused(t)
    PROVE  \E u \in Accepted : ~Compatible(t, u)
<1>1. CASE t \in Consumed
  <2>1. PICK u \in Accepted : t \in Range(ConsumedTopics(u))
    BY <1>1 DEF Routing
  <2>2. t \in Range(ConsumedTopics(t)) /\ LevelOf(t, t) = 0
    BY TopicsOf
  <2> QED
    BY <2>1, <2>2 DEF Compatible
<1>2. CASE SharesWrongly(t)
  <2>1. PICK l \in 1..Len(RetryNaming[t]) :
          /\ RetryNaming[t][l] \in Consumed
          /\ \/ routes[RetryNaming[t][l]].level # l
             \/ t \in Batch
             \/ routes[RetryNaming[t][l]].owners \intersect Batch # {}
    BY <1>2 DEF SharesWrongly
  <2>2. PICK topic : topic = RetryNaming[t][l]
    OBVIOUS
  <2>3. topic \in Range(ConsumedTopics(t)) /\ LevelOf(t, topic) = l
    BY <2>2, TopicsOf
  <2>4. /\ topic \in Consumed /\ routes[topic].owners # {} /\ routes[topic].owners \subseteq Accepted
        /\ \A u \in routes[topic].owners :
              topic \in Range(ConsumedTopics(u)) /\ LevelOf(u, topic) = routes[topic].level
    BY <2>1, <2>2 DEF Routing
  <2>5. PICK u \in routes[topic].owners : routes[topic].level # l \/ t \in Batch \/ u \in Batch
    BY <2>1, <2>2, <2>4
  <2>6. u \in Accepted /\ topic \in Range(ConsumedTopics(u)) /\ LevelOf(u, topic) = routes[topic].level
    BY <2>4
  <2> QED
    BY <2>3, <2>5, <2>6 DEF Compatible
<1>3. CASE DlqNaming[t] \in Consumed
  BY <1>3 DEF Routing, Compatible
<1>4. CASE \E topic \in Consumed : \E owner \in routes[topic].owners :
              DlqNaming[owner] \in Range(ConsumedTopics(t))
  BY <1>4 DEF Routing, Compatible
<1> QED
  BY <1>1, <1>2, <1>3, <1>4 DEF Refused, DlqConsumed

LEMMA RoutingAgrees ==
    ASSUME Routing
    PROVE  SubscriptionsAgree
<1>1. ASSUME NEW t \in Requests
      PROVE  Refused(t) <=> PlanRefused(t) \/ \E u \in Accepted : ~Compatible(t, u)
  <2>1. CASE PlanRefused(t)
    BY <2>1 DEF Refused
  <2>2. CASE ~PlanRefused(t)
    BY <2>2, RefusesTheClashing, RefusesNothingElse
  <2> QED
    BY <2>1, <2>2
<1> QED
  BY <1>1 DEF SubscriptionsAgree, RefusedWhenClashing

\* A subscription that is taken.
LEMMA RoutesKeep ==
    ASSUME Routing, NEW t \in Requests, SubscribeTo(t)
    PROVE  Routing'
<1>1. CASE Refused(t)
  BY <1>1 DEF SubscribeTo, subscribed, Routing, Accepted, Consumed
<1>2. CASE ~Refused(t)
  <2>1. routes' = Routed(t) /\ ~PlanRefused(t) /\ t \notin Consumed /\ ~SharesWrongly(t)
    BY <1>2 DEF SubscribeTo, Refused
  <2>2. Consumed' = Consumed \union Range(ConsumedTopics(t))
    BY <2>1 DEF Consumed, Routed
  <2>3. ASSUME NEW topic \in Consumed
        PROVE  /\ routes'[topic] \in [level : Levels, owners : SUBSET Requests]
               /\ routes'[topic].level = routes[topic].level
               /\ routes'[topic].owners =
                    IF topic \in Range(ConsumedTopics(t)) THEN routes[topic].owners \union {t}
                    ELSE routes[topic].owners
    <3>1. PICK r \in [level : Levels, owners : SUBSET Requests] : r = routes[topic]
      BY DEF Routing
    <3>2. PICK own \in SUBSET Requests :
             own = IF topic \in Range(ConsumedTopics(t)) THEN r.owners \union {t} ELSE r.owners
      BY <3>1
    <3>3. routes'[topic] = [r EXCEPT !.owners = own]
      BY <2>1, <3>1, <3>2 DEF Routed
    <3> QED
      BY <3>1, <3>2, <3>3
  <2>4. ASSUME NEW topic \in Range(ConsumedTopics(t)), topic \notin Consumed
        PROVE  /\ routes'[topic] \in [level : Levels, owners : SUBSET Requests]
               /\ routes'[topic].level = LevelOf(t, topic) /\ routes'[topic].owners = {t}
    <3>1. routes'[topic] = [level |-> LevelOf(t, topic), owners |-> {t}]
      BY <2>1, <2>4 DEF Routed
    <3>2. LevelOf(t, topic) \in Levels
      BY <2>4, TopicsOf
    <3> QED
      BY <3>1, <3>2
  <2>5. ASSUME NEW topic \in Range(ConsumedTopics(t)), topic \in Consumed
        PROVE  LevelOf(t, topic) = routes[topic].level
    <3>1. topic # t
      BY <2>1, <2>5
    <3>2. /\ LevelOf(t, topic) \in 1..Len(RetryNaming[t])
          /\ topic = RetryNaming[t][LevelOf(t, topic)]
      BY <3>1, TopicsOf
    <3> QED
      BY <2>1, <2>5, <3>2 DEF SharesWrongly
  <2>6. Accepted' = Accepted \union {t}
    <3>1. ASSUME NEW u \in Requests, u # t
          PROVE  u \in Accepted' <=> u \in Accepted
      BY <2>2, <2>3, <2>4, <3>1 DEF Accepted
    <3>2. t \in Accepted'
      BY <2>1, <2>2, <2>4, TopicsOf DEF Accepted
    <3> QED
      BY <3>1, <3>2 DEF Accepted
  <2>7. ASSUME NEW topic \in Consumed'
        PROVE  /\ routes'[topic] \in [level : Levels, owners : SUBSET Requests]
               /\ routes'[topic].owners \subseteq Accepted' /\ routes'[topic].owners # {}
               /\ IsFiniteSet(routes'[topic].owners)
               /\ \A u \in routes'[topic].owners :
                     topic \in Range(ConsumedTopics(u)) /\ LevelOf(u, topic) = routes'[topic].level
    <3>1. CASE topic \in Consumed
      <4>1. /\ routes[topic].owners \subseteq Accepted /\ routes[topic].owners # {}
            /\ \A u \in routes[topic].owners :
                  topic \in Range(ConsumedTopics(u)) /\ LevelOf(u, topic) = routes[topic].level
        BY <3>1 DEF Routing
      <4>2. IsFiniteSet(routes'[topic].owners)
        <5>1. PICK own : own = routes[topic].owners /\ IsFiniteSet(own)
          BY <3>1 DEF Routing
        <5>2. IsFiniteSet(own \union {t})
          BY <5>1, FS_AddElement
        <5> QED
          BY <2>3, <3>1, <5>1, <5>2
      <4> QED
        BY <2>3, <2>5, <2>6, <3>1, <4>1, <4>2
    <3>2. CASE topic \notin Consumed
      <4>1. topic \in Range(ConsumedTopics(t))
        BY <2>2, <3>2
      <4>2. /\ routes'[topic] \in [level : Levels, owners : SUBSET Requests]
            /\ routes'[topic].level = LevelOf(t, topic) /\ routes'[topic].owners = {t}
        BY <2>4, <3>2, <4>1
      <4>3. IsFiniteSet(routes'[topic].owners)
        BY <4>2, FS_Singleton
      <4> QED
        BY <2>6, <4>1, <4>2, <4>3
    <3> QED
      BY <3>1, <3>2
  <2>8. ASSUME NEW u \in Accepted', NEW topic \in Range(ConsumedTopics(u))
        PROVE  topic \in Consumed' /\ u \in routes'[topic].owners
    <3>1. CASE u = t
      BY <2>2, <2>3, <2>4, <3>1
    <3>2. CASE u # t
      <4>1. u \in Accepted
        BY <2>6, <3>2
      <4>2. topic \in Consumed /\ u \in routes[topic].owners
        BY <4>1 DEF Routing
      <4> QED
        BY <2>2, <2>3, <4>2
    <3> QED
      BY <3>1, <3>2
  <2>9. ASSUME NEW u \in Accepted'
        PROVE  ~PlanRefused(u) /\ DlqNaming[u] \notin Consumed'
    <3>1. CASE u = t
      BY <1>2, <2>1, <2>2, <3>1 DEF Refused, DlqConsumed, PlanRefused
    <3>2. CASE u # t
      <4>1. /\ u \in Accepted /\ u \in Consumed /\ u \in routes[u].owners
            /\ ~PlanRefused(u) /\ DlqNaming[u] \notin Consumed
        BY <2>6, <3>2 DEF Routing, Accepted
      <4>2. DlqNaming[u] \notin Range(ConsumedTopics(t))
        BY <1>2, <4>1 DEF Refused, DlqConsumed
      <4> QED
        BY <2>2, <4>1, <4>2
    <3> QED
      BY <3>1, <3>2
  <2> QED
    BY <2>7, <2>8, <2>9 DEF Routing
<1> QED
  BY <1>1, <1>2

LEMMA SubscribeKeeps ==
    ASSUME Slots, Routing, NEW t \in Requests, Subscribe(t)
    PROVE  Slots' /\ Routing'
<1>1. state = "idle" /\ SubscribeTo(t) /\ UNCHANGED <<state, works, faults>>
  BY DEF Subscribe
<1>2. Routing'
  BY <1>1, RoutesKeep
<1>3. Works /\ Works'
  BY <1>1 DEF Slots, Works, works
<1>4. \A p \in Partitions : parked[p] = "none" /\ delivery[p] = "none"
  BY <1>1 DEF Slots, Placed
<1>5. ASSUME NEW l \in Levels
      PROVE  Kept(l, gate[l], parked, passing[l])'
  <2>1. \A pc \in {"active", "waiting", "woken"} :
           At(l, parked, pc) = {} /\ At(l, parked, pc)' = {}
    BY <1>1, <1>4 DEF At, On, works
  <2>3. UNCHANGED <<gate, passing>>
    BY <1>1 DEF works
  <2>2. Kept(l, gate[l], parked, passing[l])
    BY DEF Slots, Lines
  <2> QED
    BY <2>1, <2>2, <2>3 DEF Kept
<1>6. Laddered'
  BY <1>2 DEF Routing, Laddered
<1>7. Placed' /\ Still'
  BY <1>1, <1>4 DEF Placed, Still, Parked, Waiters, works
<1> QED
  BY <1>2, <1>3, <1>5, <1>6, <1>7 DEF Slots, Lines

-----------------------------------------------------------------------------
(* Where a message goes that no handler can take. *)

\* Every nonempty set of numbers has a least one, so what holds of 0 and of
\* the next number holds of all.
LEMMA CountUp ==
    ASSUME NEW S, 0 \in S, \A n \in S : n + 1 \in S
    PROVE  Nat \subseteq S
<1> DEFINE T == Nat \ S
<1>1. SUFFICES ASSUME T # {} PROVE FALSE
  OBVIOUS
<1>2. IsWellFoundedOn(OpToRel(<, Nat), Nat)
  BY NatLessThanWellFounded
<1>3. \E x \in T : \A y \in T : ~ (<<y, x>> \in OpToRel(<, Nat))
  BY <1>1, <1>2, WFMin
<1>4. PICK x \in T : \A y \in T : ~(y < x)
  BY <1>3 DEF OpToRel
<1>5. x # 0 /\ x - 1 \in Nat /\ x - 1 < x /\ (x - 1) + 1 = x
  OBVIOUS
<1>6. x - 1 \in S
  BY <1>4, <1>5
<1> QED
  BY <1>5, <1>6

Iterates(f, F, x) == f[0] = x /\ \A n \in Nat : f[n + 1] = F[f[n]]

\* Going on from x by F is a function of how often.
LEMMA Iterated ==
    ASSUME NEW T, NEW F \in [T -> T], NEW x \in T
    PROVE  \E f \in [Nat -> T] : Iterates(f, F, x)
<1> DEFINE Upto(n, f) == f[0] = x /\ \A k \in Nat : k < n => f[k + 1] = F[f[k]]
           S == {n \in Nat : \E f \in [Nat -> T] : Upto(n, f)}
           Same == {n \in Nat : \A m \in Nat, f, g \in [Nat -> T] :
                       n <= m /\ Upto(n, f) /\ Upto(m, g) => f[n] = g[n]}
<1>1. Nat \subseteq S
  <2>1. 0 \in S
    <3>1. [n \in Nat |-> x] \in [Nat -> T] /\ Upto(0, [n \in Nat |-> x])
      OBVIOUS
    <3> QED
      BY <3>1
  <2>2. ASSUME NEW n \in S PROVE n + 1 \in S
    <3>1. PICK f \in [Nat -> T] : Upto(n, f)
      OBVIOUS
    <3>2. PICK g : g = [f EXCEPT ![n + 1] = F[f[n]]]
      OBVIOUS
    <3>3. g \in [Nat -> T] /\ g[n + 1] = F[f[n]] /\ \A k \in Nat : k # n + 1 => g[k] = f[k]
      BY <3>2
    <3>4. Upto(n + 1, g)
      <4>1. g[0] = x
        BY <3>1, <3>3
      <4>2. ASSUME NEW k \in Nat, k < n + 1
            PROVE  g[k + 1] = F[g[k]]
        <5>1. CASE k = n
          BY <3>3, <5>1
        <5>2. CASE k # n
          <6>1. k < n /\ k # n + 1 /\ k + 1 # n + 1
            BY <4>2, <5>2
          <6> QED
            BY <3>1, <3>3, <6>1
        <5> QED
          BY <5>1, <5>2
      <4> QED
        BY <4>1, <4>2
    <3> QED
      BY <3>3, <3>4
  <2> HIDE DEF S
  <2> QED
    BY <2>1, <2>2, CountUp
<1>2. Nat \subseteq Same
  <2>1. 0 \in Same
    OBVIOUS
  <2>2. ASSUME NEW n \in Same PROVE n + 1 \in Same
    <3> SUFFICES ASSUME NEW m \in Nat, NEW f \in [Nat -> T], NEW g \in [Nat -> T],
                        n + 1 <= m, Upto(n + 1, f), Upto(m, g)
                 PROVE  f[n + 1] = g[n + 1]
      OBVIOUS
    <3>1. Upto(n, f) /\ n <= m /\ n < m /\ n < n + 1
      OBVIOUS
    <3>2. f[n] = g[n]
      BY <3>1
    <3> QED
      BY <3>1, <3>2
  <2> HIDE DEF Same
  <2> QED
    BY <2>1, <2>2, CountUp
<1>3. \A n \in Nat : \E f \in [Nat -> T] : Upto(n, f)
  BY <1>1
<1> DEFINE h == [n \in Nat |-> CHOOSE f \in [Nat -> T] : Upto(n, f)]
<1>4. \A n \in Nat : h[n] \in [Nat -> T] /\ Upto(n, h[n])
  <2> SUFFICES ASSUME NEW n \in Nat
               PROVE  h[n] \in [Nat -> T] /\ Upto(n, h[n])
    OBVIOUS
  <2>1. h[n] = CHOOSE f \in [Nat -> T] : Upto(n, f)
    OBVIOUS
  <2> HIDE DEF h, Upto
  <2> QED
    BY <1>3, <2>1
<1> DEFINE r == [n \in Nat |-> h[n][n]]
<1> HIDE DEF h
<1>5. r \in [Nat -> T] /\ r[0] = x
  BY <1>4
<1>6. ASSUME NEW n \in Nat
      PROVE  r[n + 1] = F[r[n]]
  <2>1. Upto(n + 1, h[n + 1]) /\ Upto(n, h[n]) /\ h[n] \in [Nat -> T] /\ h[n + 1] \in [Nat -> T]
    BY <1>4
  <2>2. n < n + 1 /\ n <= n + 1 /\ n + 1 \in Nat /\ n \in Same
    <3> HIDE DEF Same
    <3> QED
      BY <1>2
  <2>3. h[n + 1][n + 1] = F[h[n + 1][n]]
    BY <2>1, <2>2
  <2>4. PICK f \in [Nat -> T], g \in [Nat -> T], m \in Nat : f = h[n] /\ g = h[n + 1] /\ m = n + 1
    BY <2>1
  <2>5. n <= m /\ Upto(n, f) /\ Upto(m, g) => f[n] = g[n]
    BY <2>2
  <2>6. h[n][n] = h[n + 1][n]
    BY <2>1, <2>2, <2>4, <2>5
  <2> QED
    BY <2>3, <2>6
<1> QED
  BY <1>5, <1>6 DEF Iterates


\* Where a message may be after n failures, given where each failure takes it.
LEMMA AfterWithin ==
    ASSUME NEW m, NEW n \in Nat, NEW J, m \in J[0],
           \A k \in Nat : k < n =>
              \A f \in J[k] : f.topic \in Consumed => Fails(f) \subseteq J[k + 1]
    PROVE  After(m, n) \subseteq J[n]
<1> DEFINE Step(s) == UNION {Fails(f) : f \in {f \in s : f.topic \in Consumed}}
           M == UNION {J[k] : k \in 0..n}
           F == [s \in SUBSET M |-> Step(s) \intersect M]
<1>1. \A s : \A k \in Nat : k < n /\ s \subseteq J[k] => Step(s) \subseteq J[k + 1]
  OBVIOUS
<1>2. \A k \in Nat : k <= n => J[k] \subseteq M
  OBVIOUS
<1>3. F \in [SUBSET M -> SUBSET M] /\ {m} \in SUBSET M
  BY <1>2
<1>4. PICK f \in [Nat -> SUBSET M] : f[0] = {m} /\ \A k \in Nat : f[k + 1] = F[f[k]]
  <2> DEFINE T == SUBSET M
             x == {m}
             G == F
  <2>1. G \in [T -> T] /\ x \in T
    BY <1>3
  <2> HIDE DEF T, x, G
  <2>2. \E f \in [Nat -> T] : f[0] = x /\ \A k \in Nat : f[k + 1] = G[f[k]]
    <3>1. \E f \in [Nat -> T] : Iterates(f, G, x)
      BY <2>1, Iterated
    <3> QED
      BY <3>1 DEF Iterates
  <2> QED
    BY <2>2 DEF T, x, G
<1> HIDE DEF Step, M
<1>5. \A k \in Nat : f[k + 1] = Step(f[k]) \intersect M
  BY <1>4
<1>6. ASSUME NEW k \in Nat, k <= n
      PROVE  f[k] \subseteq J[k]
  <2> DEFINE S == {i \in Nat : i <= n => f[i] \subseteq J[i]}
  <2>1. 0 \in S
    BY <1>4
  <2>2. ASSUME NEW i \in S PROVE i + 1 \in S
    <3> SUFFICES ASSUME i + 1 <= n PROVE f[i + 1] \subseteq J[i + 1]
      OBVIOUS
    <3>1. i < n /\ i <= n /\ i \in Nat
      OBVIOUS
    <3>2. Step(f[i]) \subseteq J[i + 1]
      BY <1>1, <3>1
    <3> QED
      BY <1>5, <3>1, <3>2
  <2>3. k \in S
    <3> HIDE DEF S
    <3> QED
      BY <2>1, <2>2, CountUp
  <2> QED
    BY <1>6, <2>3
<1>7. \A k \in Nat : k < n => f[k + 1] = Step(f[k])
  <2> SUFFICES ASSUME NEW k \in Nat, k < n PROVE f[k + 1] = Step(f[k])
    OBVIOUS
  <2>1. k <= n /\ k + 1 <= n /\ k + 1 \in Nat
    OBVIOUS
  <2>2. Step(f[k]) \subseteq J[k + 1] /\ J[k + 1] \subseteq M
    BY <1>1, <1>2, <1>6, <2>1
  <2> QED
    BY <1>5, <2>2
<1> DEFINE Is(a) == a = [k \in 0..n |-> IF k = 0 THEN {m} ELSE Step(a[k - 1])]
<1>8. \E a : Is(a)
  <2> DEFINE a == [k \in 0..n |-> f[k]]
  <2>1. ASSUME NEW k \in 0..n
        PROVE  f[k] = IF k = 0 THEN {m} ELSE Step(a[k - 1])
    <3>1. CASE k = 0
      BY <1>4, <3>1
    <3>2. CASE k # 0
      <4>1. k - 1 \in Nat /\ k - 1 < n /\ (k - 1) + 1 = k /\ k - 1 \in 0..n
        BY <3>2
      <4> QED
        BY <1>7, <3>2, <4>1
    <3> QED
      BY <3>1, <3>2
  <2>2. Is(a)
    BY <2>1
  <2> QED
    BY <2>2
<1> DEFINE c == CHOOSE a : Is(a)
<1>9. After(m, n) = c[n]
  BY DEF After, Step
<1>10. Is(c)
  <2> HIDE DEF Is
  <2> QED
    BY <1>8
<1> HIDE DEF c
<1>11. c[0] = {m} /\ \A k \in Nat : k < n => c[k + 1] = Step(c[k])
  <2>1. 0 \in 0..n
    OBVIOUS
  <2>2. ASSUME NEW k \in Nat, k < n PROVE c[k + 1] = Step(c[k])
    <3>1. k + 1 \in 0..n /\ k + 1 # 0 /\ (k + 1) - 1 = k
      BY <2>2
    <3> QED
      BY <1>10, <3>1
  <2> QED
    BY <1>10, <2>1, <2>2
<1>12. n \in {i \in Nat : i <= n => c[i] \subseteq J[i]}
  <2> DEFINE S == {i \in Nat : i <= n => c[i] \subseteq J[i]}
  <2>1. 0 \in S
    BY <1>11
  <2>2. ASSUME NEW i \in S PROVE i + 1 \in S
    <3> SUFFICES ASSUME i + 1 <= n PROVE c[i + 1] \subseteq J[i + 1]
      OBVIOUS
    <3>1. i < n /\ i <= n /\ i \in Nat
      OBVIOUS
    <3> QED
      BY <1>1, <1>11, <3>1
  <2>3. n \in S
    <3> HIDE DEF S
    <3> QED
      BY <2>1, <2>2, CountUp
  <2> QED
    BY <2>3
<1> QED
  BY <1>9, <1>12

\* What a message may be, its headers with it.
Names == Requests \union Strangers \union {""}
AnyBlock == [count : Nat, original : Names, since : BOOLEAN]
Messages == [topic : Consumed \union {DlqNaming[t] : t \in Requests}, block : AnyBlock]

LEMMA AnyInfo ==
    /\ NoBlock \in AnyBlock /\ Blocks \subseteq AnyBlock
    /\ \A block \in AnyBlock : RetryInfo(block) \in {block, NoBlock}
    /\ \A m \in Messages : m.block \in AnyBlock /\ Info(m) \in AnyBlock
<1>1. "" \in Names /\ Requests \union Strangers \union {""} \subseteq Names
  BY DEF Names
<1>2. PICK none \in Names : none = ""
  BY <1>1
<1>3. NoBlock = [count |-> 0, original |-> none, since |-> FALSE]
  BY <1>2 DEF NoBlock
<1>4. NoBlock \in AnyBlock
  BY <1>3 DEF AnyBlock
<1>5. Blocks \subseteq AnyBlock
  <2>1. PICK N : N = Requests \union Strangers \union {""}
    OBVIOUS
  <2>2. Blocks = [count : {0, 1}, original : N, since : BOOLEAN] /\ N \subseteq Names
    BY <1>1, <2>1 DEF Blocks
  <2> QED
    BY <2>2 DEF AnyBlock
<1>6. \A block : RetryInfo(block) \in {block, NoBlock}
  BY DEF RetryInfo
<1>7. \A m \in Messages : m.block \in AnyBlock
  BY DEF Messages
<1>8. \A m : Info(m) \in {m.block, NoBlock}
  BY <1>6 DEF Info
<1> QED
  BY <1>4, <1>5, <1>6, <1>7, <1>8

\* Headers that are whole count for what they say.
LEMMA WholeInfo ==
    ASSUME NEW t \in Requests, NEW k \in Nat \ {0}, NEW block,
           block = [count |-> k, original |-> t, since |-> TRUE]
    PROVE  RetryInfo(block) = block /\ block # NoBlock
<1>1. block.count = k /\ block.original = t /\ block.since = TRUE
  OBVIOUS
<1>2. t # ""
  BY JourneyAssumption
<1>3. block.count >= 1 /\ block.since
  BY <1>1
<1>4. NoBlock.count = 0
  BY DEF NoBlock
<1>5. block # NoBlock
  BY <1>1, <1>4
<1>6. RetryInfo(block) = block
  BY <1>1, <1>2, <1>3 DEF RetryInfo
<1> QED
  BY <1>5, <1>6

\* One more failure, for a subscription that is one.
LEMMA AnyWritten ==
    ASSUME NEW m \in Messages, NEW t \in Requests
    PROVE  Written(m, t) \in AnyBlock
<1>1. PICK info \in AnyBlock : info = Info(m)
  BY AnyInfo
<1>2. PICK original \in Names : original = IF info = NoBlock THEN t ELSE info.original
  <2>1. t \in Names /\ info.original \in Names
    BY <1>1 DEF Names, AnyBlock
  <2> QED
    BY <2>1
<1>3. Written(m, t) = [count |-> info.count + 1, original |-> original, since |-> TRUE]
  BY <1>1, <1>2 DEF Written
<1>4. info.count + 1 \in Nat
  BY DEF AnyBlock
<1> QED
  BY <1>3, <1>4 DEF AnyBlock

\* A forwarded message is on the next level of its owner, or on its DLQ.
LEMMA ForwardedOn ==
    ASSUME Routing, NEW m \in Messages, m.topic \in Consumed,
           NEW t \in routes[m.topic].owners, NEW wantsRetry \in BOOLEAN
    PROVE  LET f == Forwarded(m, t, wantsRetry)
               next == routes[m.topic].level + 1
           IN /\ f \in Messages /\ f.block = Written(m, t)
              /\ \/ f.topic = DlqNaming[t]
                 \/ /\ f.topic \in Consumed /\ routes[f.topic].level = next
                    /\ f.topic \in Range(ConsumedTopics(t)) /\ LevelOf(t, f.topic) = next
              /\ f.topic \in Consumed => routes[f.topic].level = next
<1>1. t \in Accepted /\ t \in Requests /\ ~PlanRefused(t) /\ DlqNaming[t] \notin Consumed
  BY DEF Routing, Accepted
<1>2. PICK l \in Nat : l = routes[m.topic].level
  <2>1. routes[m.topic].level \in Levels /\ Levels \subseteq Nat
    BY <1>1, PlanOf DEF Routing
  <2> QED
    BY <2>1
<1>3. PICK f : f = Forwarded(m, t, wantsRetry)
  OBVIOUS
<1>4. Written(m, t) \in AnyBlock
  BY <1>1, AnyWritten
<1>5. f.block = Written(m, t)
  BY <1>3 DEF Forwarded
<1>6. CASE f.topic = DlqNaming[t]
  <2>1. f \in Messages
    BY <1>1, <1>3, <1>4, <1>6 DEF Forwarded, Messages
  <2> QED
    BY <1>1, <1>3, <1>5, <1>6, <2>1
<1>7. CASE f.topic # DlqNaming[t]
  <2>1. f.topic = RetryNaming[t][l + 1] /\ l + 1 <= Len(RetryNaming[t])
    BY <1>2, <1>3, <1>7 DEF Forwarded
  <2>2. l + 1 \in 1..Len(RetryNaming[t])
    BY <1>1, <2>1, PlanOf
  <2>3. f.topic \in Range(ConsumedTopics(t)) /\ LevelOf(t, f.topic) = l + 1
    BY <1>1, <2>1, <2>2, TopicsOf
  <2>4. f.topic \in Consumed /\ t \in routes[f.topic].owners /\ routes[f.topic].level = l + 1
    BY <1>1, <2>3 DEF Routing
  <2>5. f \in Messages
    BY <1>3, <1>4, <2>4 DEF Forwarded, Messages
  <2> QED
    BY <1>2, <1>3, <1>5, <2>3, <2>4, <2>5
<1> QED
  BY <1>6, <1>7

\* However a message fails, it is a level further or out of reach.
LEMMA FailsUpwards ==
    ASSUME Routing, NEW m \in Messages, m.topic \in Consumed, NEW f \in Fails(m)
    PROVE  f \in Messages /\ (f.topic \in Consumed => routes[f.topic].level = routes[m.topic].level + 1)
<1>1. CASE Owner(m) = {}
  <2>1. PICK t \in routes[m.topic].owners : f = [m EXCEPT !.topic = DlqNaming[t]]
    BY <1>1 DEF Fails, Unroutable
  <2>2. t \in Requests /\ DlqNaming[t] \notin Consumed
    BY DEF Routing, Accepted
  <2>3. f \in Messages /\ f.topic = DlqNaming[t]
    BY <2>1, <2>2 DEF Messages
  <2> QED
    BY <2>2, <2>3
<1>2. CASE Owner(m) # {}
  <2>1. Owner(m) \subseteq routes[m.topic].owners
    BY DEF Owner
  <2>2. PICK t \in routes[m.topic].owners, wantsRetry \in BOOLEAN : f = Forwarded(m, t, wantsRetry)
    BY <1>2, <2>1 DEF Fails
  <2> QED
    BY <2>2, ForwardedOn
<1> QED
  BY <1>1, <1>2

LEMMA LevelsAre == Cardinality(Levels) \in Nat /\ Levels = 0..(Cardinality(Levels) - 1)
BY SubscriptionsAssumption, FS_CardinalityType

LEMMA RunsOut ==
    ASSUME Routing
    PROVE  FailuresRunOut
<1> DEFINE J == [k \in Nat |-> {f \in Messages : f.topic \in Consumed => k <= routes[f.topic].level}]
           n == Cardinality(Levels)
<1>1. n \in Nat /\ \A topic \in Consumed : routes[topic].level \in 0..(n - 1)
  BY LevelsAre DEF Routing
<1>2. ASSUME NEW topic \in Consumed, NEW block \in Blocks,
             NEW m \in After([topic |-> topic, block |-> block], n)
      PROVE  m.topic \notin Consumed
  <2> DEFINE first == [topic |-> topic, block |-> block]
  <2>1. block \in AnyBlock
    BY AnyInfo
  <2>2. first \in J[0]
    BY <1>1, <2>1 DEF Messages
  <2>3. ASSUME NEW k \in Nat, k < n, NEW f \in J[k], f.topic \in Consumed
        PROVE  Fails(f) \subseteq J[k + 1]
    BY <1>1, <2>3, FailsUpwards
  <2> HIDE DEF J, n, first
  <2>4. After(first, n) \subseteq J[n]
    BY <1>1, <2>2, <2>3, AfterWithin
  <2>5. m \in J[n]
    BY <2>4 DEF first
  <2> QED
    BY <1>1, <2>5 DEF J
<1> QED
  BY <1>2 DEF FailuresRunOut

\* A message on the ladder of t is t's as long as its headers say so.
LEMMA OwnerIs ==
    ASSUME Routing, NEW t \in Accepted, NEW m, m.topic \in Range(ConsumedTopics(t)),
           m.topic = t \/ Info(m).original = t
    PROVE  Owner(m) = {t}
<1>1. PICK owners : owners = routes[m.topic].owners
  OBVIOUS
<1>2. t \in owners /\ IsFiniteSet(owners) /\ m.topic \in Consumed
  BY <1>1 DEF Routing
<1>3. Cardinality(owners) = 1 => owners = {t}
  BY <1>2, FS_Singleton
<1>4. CASE m.topic = t
  <2>1. routes[t].level = 0
    BY <1>4, TopicsOf DEF Routing, Accepted
  <2>2. ASSUME NEW u \in owners
        PROVE  u = t
    <3>1. u \in Requests /\ t \in Range(ConsumedTopics(u)) /\ LevelOf(u, t) = 0
      BY <1>1, <1>2, <1>4, <2>1 DEF Routing, Accepted
    <3>2. 0 \notin 1..Len(RetryNaming[u])
      OBVIOUS
    <3> QED
      BY <3>1, <3>2, TopicsOf
  <2>3. owners = {t}
    BY <1>2, <2>2
  <2> QED
    BY <1>1, <2>3, FS_Singleton DEF Owner
<1>5. CASE Info(m).original = t
  BY <1>1, <1>2, <1>3, <1>5 DEF Owner
<1> QED
  BY <1>4, <1>5

\* Where a message produced to t is after k failures: on level k of t's ladder,
\* or on t's DLQ, with headers that say so.
Way(t, k) ==
    {m \in Messages :
        \/ /\ m.topic \in Range(ConsumedTopics(t)) /\ LevelOf(t, m.topic) = k
           /\ k # 0 => m.block = [count |-> k, original |-> t, since |-> TRUE]
        \/ m.topic = DlqNaming[t] /\ m.block.count = k /\ m.block.original = t}

LEMMA OnItsWay ==
    ASSUME Routing, NEW t \in Accepted, NEW k \in Nat, NEW m \in Way(t, k), m.topic \in Consumed
    PROVE  Owner(m) = {t} /\ Fails(m) \subseteq Way(t, k + 1)
<1>1. t \in Requests /\ DlqNaming[t] \notin Consumed
  BY DEF Routing, Accepted
<1>2. /\ m \in Messages /\ m.topic \in Range(ConsumedTopics(t)) /\ routes[m.topic].level = k
      /\ k # 0 => m.block = [count |-> k, original |-> t, since |-> TRUE]
  BY <1>1 DEF Way, Routing
<1>3. ASSUME k = 0
      PROVE  m.topic = t /\ Written(m, t) = [count |-> k + 1, original |-> t, since |-> TRUE]
  <2>1. m.topic = t
    <3>1. LevelOf(t, m.topic) = 0 /\ 0 \notin 1..Len(RetryNaming[t])
      BY <1>2, <1>3 DEF Routing
    <3> QED
      BY <1>1, <1>2, <3>1, TopicsOf
  <2>2. Info(m) = NoBlock /\ NoBlock.count = 0
    BY <1>2, <1>3 DEF Info, NoBlock
  <2>3. Written(m, t) = [count |-> k + 1, original |-> t, since |-> TRUE]
    BY <1>3, <2>2 DEF Written
  <2> QED
    BY <2>1, <2>3
<1>4. ASSUME k # 0
      PROVE  Info(m).original = t /\ Written(m, t) = [count |-> k + 1, original |-> t, since |-> TRUE]
  <2>1. /\ RetryInfo(m.block) = m.block /\ m.block # NoBlock
        /\ m.block.original = t /\ m.block.count = k
    BY <1>1, <1>2, <1>4, WholeInfo
  <2>2. Info(m) = m.block
    BY <1>2, <1>4, <2>1 DEF Info
  <2>3. Written(m, t) = [count |-> k + 1, original |-> t, since |-> TRUE]
    BY <2>1, <2>2 DEF Written
  <2>4. Info(m).original = t
    BY <2>1, <2>2
  <2> QED
    BY <2>3, <2>4
<1>5. Owner(m) = {t} /\ Written(m, t) = [count |-> k + 1, original |-> t, since |-> TRUE]
  BY <1>2, <1>3, <1>4, OwnerIs
<1>6. ASSUME NEW f \in Fails(m)
      PROVE  f \in Way(t, k + 1)
  <2>1. PICK wantsRetry \in BOOLEAN : f = Forwarded(m, t, wantsRetry)
    BY <1>5, <1>6 DEF Fails
  <2>2. t \in routes[m.topic].owners
    BY <1>2 DEF Routing
  <2>3. /\ f \in Messages /\ f.block = Written(m, t)
        /\ \/ f.topic = DlqNaming[t]
           \/ f.topic \in Range(ConsumedTopics(t)) /\ LevelOf(t, f.topic) = k + 1
    BY <1>2, <2>1, <2>2, ForwardedOn
  <2> QED
    BY <1>5, <2>3 DEF Way
<1> QED
  BY <1>5, <1>6

LEMMA Stays ==
    ASSUME Routing
    PROVE  StaysWithItsOwner
<1>1. ASSUME NEW t \in Accepted, NEW block \in Blocks, NEW n \in Failures,
             NEW m \in After([topic |-> t, block |-> block], n)
      PROVE  IF m.topic \in Consumed
             THEN Owner(m) = {t}
             ELSE /\ m.topic = DlqNaming[t] /\ m.block.count = n
                  /\ Redriven(m) = {[topic |-> t, block |-> NoBlock]}
  <2> DEFINE J == [k \in Nat |-> Way(t, k)]
             first == [topic |-> t, block |-> block]
  <2>1. /\ t \in Requests /\ t \in Consumed /\ n \in Nat
        /\ t \in Range(ConsumedTopics(t)) /\ DlqNaming[t] \notin Range(ConsumedTopics(t))
        /\ LevelOf(t, t) = 0
    <3>1. t \in Requests /\ t \in Consumed /\ ~PlanRefused(t)
      BY DEF Accepted, Routing
    <3>2. n \in Nat
      BY LevelsAre DEF Failures
    <3> QED
      BY <3>1, <3>2, TopicsOf DEF PlanRefused
  <2>2. first \in J[0]
    <3>1. block \in AnyBlock
      BY AnyInfo
    <3> QED
      BY <2>1, <3>1 DEF Messages, Way
  <2>3. ASSUME NEW k \in Nat, k < n, NEW f \in J[k], f.topic \in Consumed
        PROVE  Fails(f) \subseteq J[k + 1]
    BY <2>3, OnItsWay
  <2> HIDE DEF J, first
  <2>4. After(first, n) \subseteq J[n]
    BY <2>1, <2>2, <2>3, AfterWithin
  <2>5. m \in Way(t, n)
    BY <2>1, <2>4 DEF first, J
  <2>6. CASE m.topic \in Consumed
    BY <2>1, <2>5, <2>6, OnItsWay
  <2>7. CASE m.topic \notin Consumed
    <3>1. m.topic = DlqNaming[t] /\ m.block.count = n /\ m.block.original = t
      BY <2>5, <2>7 DEF Way, Routing
    <3>2. t # "" /\ t # m.topic
      BY <2>1, <3>1, JourneyAssumption
    <3>3. Redriven(m) = {[topic |-> t, block |-> NoBlock]}
      BY <3>1, <3>2 DEF Redriven
    <3> QED
      BY <2>7, <3>1, <3>3
  <2> QED
    BY <2>6, <2>7
<1> QED
  BY <1>1 DEF StaysWithItsOwner

-----------------------------------------------------------------------------
(* The whole life. *)

IInv == Course /\ Served /\ Slots /\ Routing /\ handling \subseteq Partitions

\* The steps that begin to drain, or give up on what drains.
DrainStep ==
    \/ Stop /\ state = "running"
    \/ StartSettled /\ state # "stopped"
    \/ \E p \in Partitions : PipelineStops(p)
    \/ DeadlinePasses

LEMMA NextIs ==
    ASSUME Next
    PROVE  \/ \E t \in Requests : Subscribe(t)
           \/ ControlStep \/ DrainStep \/ WorkStep
BY DEF Next, ControlStep, DrainStep, WorkStep

LEMMA CourseKept ==
    ASSUME Course, Served, Next
    PROVE  Course'
<1>1. CASE \E t \in Requests : Subscribe(t)
  BY <1>1, StartKeeps
<1>2. CASE ControlStep
  BY <1>2, StartKeeps, LevelsKeep, StopKeeps DEF ControlStep
<1>3. CASE DrainStep
  BY <1>3, StopKeeps DEF DrainStep
<1>4. CASE WorkStep
  BY <1>4, WorkStepsApart, CourseApart
<1> QED
  BY <1>1, <1>2, <1>3, <1>4, NextIs

\* What begins to drain.
LEMMA DrainKeeps ==
    ASSUME Course, Slots, DrainStep
    PROVE  /\ Slots' /\ stop' # "none" /\ UNCHANGED routes
           /\ stop # "none" => Active' \subseteq Active
<1>1. CASE (Stop /\ state = "running") \/ (StartSettled /\ state # "stopped")
  <2>1. BeginDraining /\ UNCHANGED <<delivery, delivered, faults>>
    <3>1. CASE Stop /\ state = "running"
      BY <3>1 DEF Stop
    <3>2. CASE StartSettled /\ state # "stopped"
      BY <3>2 DEF StartSettled
    <3> QED
      BY <1>1, <3>1, <3>2
  <2>2. /\ faults' \in 0..MaxFaults /\ UNCHANGED routes
        /\ delivery' \in [Partitions -> {"none", "queued", "active", "abandoned"}]
        /\ \A p \in Partitions : delivery'[p] # "none" => delivery[p] # "none"
    BY <2>1 DEF Slots, Works, BeginDraining, subscribed
  <2>3. /\ Slots' /\ stop' = "draining"
        /\ \A p \in Partitions : parked'[p] # parked[p] => parked'[p] = "none"
    BY <2>1, <2>2, DrainingKeeps
  <2> QED
    BY <2>1, <2>2, <2>3 DEF Active, ActiveOf, ReentriesOf
<1>2. ASSUME NEW p \in Partitions, PipelineStops(p)
      PROVE  Slots' /\ stop' # "none" /\ UNCHANGED routes /\ stop = "none"
  <2>1. /\ BeginDraining /\ UNCHANGED delivered /\ stop = "none" /\ faults' \in 0..MaxFaults
        /\ delivery' = [delivery EXCEPT ![p] = "none"]
    BY <1>2, Faults DEF PipelineStops, Slots
  <2>2. /\ UNCHANGED routes
        /\ delivery' \in [Partitions -> {"none", "queued", "active", "abandoned"}]
        /\ \A q \in Partitions : delivery'[q] # "none" => delivery[q] # "none"
    BY <2>1 DEF Slots, Works, BeginDraining, subscribed
  <2> QED
    BY <2>1, <2>2, DrainingKeeps
<1>3. CASE DeadlinePasses
  <2>1. /\ stop' # "none" /\ UNCHANGED routes
        /\ delivery' = [p \in Partitions |-> IF delivery[p] = "active" THEN "abandoned" ELSE delivery[p]]
        /\ parked' = [p \in Partitions |-> IF parked[p] = "active" THEN "abandoned" ELSE parked[p]]
    BY <1>3 DEF DeadlinePasses, subscribed
  <2> QED
    BY <1>3, <2>1, DeadlineKeeps DEF Active, ActiveOf, ReentriesOf
<1> QED
  BY <1>1, <1>2, <1>3 DEF DrainStep

\* Deliveries, re-entries and lines.
LEMMA WorkKeeps ==
    ASSUME Course, Slots, WorkStep
    PROVE  /\ Slots' /\ UNCHANGED <<routes, state, stop>>
           /\ state # "running" => Active' \subseteq Active
<1>1. UNCHANGED <<routes, state, stop>>
  BY WorkStepsApart DEF calls, subscribed
<1>2. ASSUME NEW l \in Levels, PassesOn(l)
      PROVE  Slots' /\ Active' \subseteq Active
  <2>1. Works /\ UNCHANGED delivery /\ (NextWoken(l, gate, parked) \/ UNCHANGED parked)
    BY <1>2 DEF PassesOn, Slots
  <2>2. \A q \in Partitions : parked'[q] = "active" => parked[q] = "active"
    BY <2>1 DEF NextWoken, Works
  <2> QED
    BY <1>2, <2>1, <2>2, PassingKeeps DEF Active, ActiveOf, ReentriesOf
<1>3. ASSUME NEW p \in Partitions, TimeComes(p) \/ WokenGoesOn(p)
      PROVE  Slots' /\ state = "running"
  BY <1>3, EntersKeeps
<1>4. ASSUME NEW p \in Partitions, ReentryEnds(p)
      PROVE  Slots' /\ Active' \subseteq Active
  <2>1. PICK k : k = [parked EXCEPT ![p] = "none"]
    OBVIOUS
  <2>2. PICK g : NextWoken(Level(p), g, k) /\ UNCHANGED delivery /\ Works
    BY <1>4, <2>1 DEF ReentryEnds, ReentryOver, Slots
  <2>3. \A q \in Partitions : parked'[q] = "active" => k[q] = "active"
    BY <2>1, <2>2 DEF NextWoken, Works
  <2>4. \A q \in Partitions : parked'[q] = "active" => parked[q] = "active"
    BY <2>1, <2>2, <2>3 DEF Works
  <2> QED
    BY <1>4, <2>2, <2>4, ReentryKeeps DEF Active, ActiveOf, ReentriesOf
<1>5. ASSUME NEW p \in Partitions, Revoke(p)
      PROVE  Slots' /\ Active' \subseteq Active
  <2>1. UNCHANGED delivery /\ \A q \in Partitions : parked'[q] # parked[q] => parked'[q] = "none"
    BY <1>5 DEF Revoke, DiscardParked
  <2> QED
    BY <1>5, <2>1, RevokeKeeps DEF Active, ActiveOf, ReentriesOf
<1>6. ASSUME NEW p \in Partitions,
             Deliver(p) \/ ReadyReached(p) \/ DeliveryEnds(p) \/ AbandonedEnds(p)
      PROVE  Slots' /\ (state # "running" => Active' \subseteq Active)
  <2>1. Works
    BY DEF Slots
  <2>2. ASSUME state # "running"
        PROVE  \A q \in Partitions : /\ delivery'[q] = "active" => delivery[q] = "active"
                                     /\ parked'[q] = "active" => parked[q] = "active"
    BY <1>6, <2>1, <2>2 DEF Deliver, ReadyReached, DeliveryEnds, AbandonedEnds, Works
  <2> QED
    BY <1>6, <2>2, DeliveryKeeps DEF Active, ActiveOf, ReentriesOf
<1>7. ASSUME NEW p \in Partitions, HandlerCalled(p)
      PROVE  Slots' /\ Active' \subseteq Active
  <2>1. UNCHANGED places /\ UNCHANGED faults
    BY <1>7 DEF HandlerCalled, places
  <2>2. Works'
    BY <2>1 DEF Slots, Works, places
  <2> QED
    BY <1>1, <2>1, <2>2, SlotsApart DEF Active, ActiveOf, ReentriesOf, places
<1> QED
  BY <1>1, <1>2, <1>3, <1>4, <1>5, <1>6, <1>7 DEF WorkStep

\* A handler is called on an active record, and nowhere else.
LEMMA HandlersCalled ==
    ASSUME Works, [Next]_vars, handling \subseteq Partitions
    PROVE  /\ handling' \subseteq Partitions
           /\ handling' \subseteq handling \/ (Active # {} /\ UNCHANGED <<calls, membership, handles>>)
<1>1. ASSUME NEW p \in Partitions, HandlerCalled(p)
      PROVE  handling' = handling \union {p} /\ Active # {} /\ UNCHANGED <<calls, membership, handles>>
  BY <1>1 DEF HandlerCalled, Active, ActiveOf, ReentriesOf
<1>2. CASE \E p \in Partitions :
             \/ Deliver(p) \/ ReadyReached(p) \/ DeliveryEnds(p) \/ PipelineStops(p) \/ Revoke(p)
             \/ TimeComes(p) \/ WokenGoesOn(p) \/ ReentryEnds(p) \/ AbandonedEnds(p)
  BY <1>2 DEF Deliver, ReadyReached, DeliveryEnds, PipelineStops, Revoke, TimeComes, WokenGoesOn,
              ReentryEnds, AbandonedEnds
<1>4. CASE \/ \E t \in Requests : Subscribe(t)
           \/ Start \/ Connected \/ StartFails
           \/ Looked \/ CreateTopics \/ TopicsAppear \/ Created \/ CreationFails
           \/ Unwind \/ Unwound \/ Runs \/ GivesWay \/ GaveWay
  BY <1>4 DEF Subscribe, Start, Connected, StartFails, Looked, CreateTopics, TopicsAppear, Created,
              CreationFails, Join, Unwind, Unwound, Runs, GivesWay, GaveWay, works
<1>5. CASE \/ Stop \/ StartSettled \/ AbandonStart \/ Drained \/ DeadlinePasses \/ Left
           \/ \E l \in Levels : Opens(l) \/ OpenFails(l) \/ Leaves(l) \/ PassesOn(l)
  BY <1>5 DEF Stop, StartSettled, AbandonStart, Drained, DeadlinePasses, Left, Opens, OpenFails, Leaves,
              PassesOn, works
<1>6. CASE UNCHANGED vars
  BY <1>6 DEF vars, works
<1> QED
  BY <1>1, <1>2, <1>4, <1>5, <1>6 DEF Next

\* The stop goes on from waiting for what is active when nothing is, or gives up on it.
LEMMA ServedStays ==
    ASSUME Course, Slots, Served,
           (\E t \in Requests : Subscribe(t)) \/ ControlStep \/ DrainStep \/ WorkStep
    PROVE  Served'
<1>1. CASE \E t \in Requests : Subscribe(t)
  BY <1>1 DEF Subscribe, works, Served, Active, ActiveOf, ReentriesOf
<1>2. CASE ControlStep
  <2>1. UNCHANGED works /\ (state = "running" => state' = "running")
    BY <1>2, ControlApart DEF Slots
  <2>2. stop = "draining" /\ stop' # "draining" => Active = {}
    BY <1>2 DEF ControlStep, Start, Connected, StartFails, Looked, CreateTopics, TopicsAppear, Created,
                CreationFails, Join, Unwind, Unwound, Runs, GivesWay, GaveWay, Stop, StartSettled,
                AbandonStart, Drained, Left, Opens, OpenFails, Leaves, calls, Active
  <2>3. Active' = Active
    BY <2>1 DEF works, Active, ActiveOf, ReentriesOf
  <2> QED
    BY <2>1, <2>2, <2>3 DEF Served
<1>3. CASE DrainStep
  <2>1. CASE DeadlinePasses
    BY <2>1 DEF DeadlinePasses, Slots, Works, Served, Active, ActiveOf, ReentriesOf
  <2>2. CASE ~DeadlinePasses
    BY <1>3, <2>2 DEF DrainStep, Stop, StartSettled, PipelineStops, BeginDraining, Served
  <2> QED
    BY <2>1, <2>2
<1>4. CASE WorkStep
  BY <1>4, WorkKeeps DEF Served
<1> QED
  BY <1>1, <1>2, <1>3, <1>4

LEMMA InitEstablishes ==
    ASSUME Init
    PROVE  IInv
<1>1. Course
  BY DEF Init, NothingSubscribed, Course, Control, Stages, Members, AllIn, Memberships, JoinsWhatExists, Deaf
<1>2. Served /\ handling \subseteq Partitions
  BY DEF Init, Served, Active, ActiveOf, ReentriesOf
<1>3. Routing
  <2>1. Consumed = {}
    BY DEF Init, NothingSubscribed, Consumed
  <2> QED
    BY <2>1 DEF Routing, Accepted
<1>4. Works
  <2>1. <<>> \in Seq(Partitions)
    BY EmptySeq
  <2>2. 0 \in 0..Records /\ 0 \in 0..MaxFaults /\ 0 \in Nat
    BY LifecycleAssumption
  <2> QED
    BY <2>1, <2>2 DEF Init, Works, Waits
<1>5. ASSUME NEW l \in Levels
      PROVE  Kept(l, gate[l], parked, passing[l])
  <2>1. gate[l].active = 0 /\ gate[l].waiting = <<>>
    BY DEF Init
  <2>2. At(l, parked, "active") = {} /\ At(l, parked, "waiting") = {}
    BY DEF Init, At, On
  <2>3. Cardinality({}) = 0 /\ concurrency \in Nat /\ 0 <= concurrency
    BY FS_EmptySet, LifecycleAssumption
  <2>4. Range(<<>>) = {} /\ IsInjective(<<>>)
    BY DEF Range, IsInjective
  <2> QED
    BY <2>1, <2>2, <2>3, <2>4 DEF Kept
<1>6. Laddered /\ Placed /\ Still
  BY <1>3 DEF Routing, Laddered, Init, Placed, Still, Parked, Waiters
<1> QED
  BY <1>1, <1>2, <1>3, <1>4, <1>5, <1>6 DEF IInv, Slots, Lines

LEMMA StepsKeep ==
    ASSUME IInv, [Next]_vars
    PROVE  IInv'
<1>0. (handling \subseteq Partitions)' /\ (Next \/ UNCHANGED vars)
  BY HandlersCalled DEF IInv, Slots
<1>1. CASE \E t \in Requests : Subscribe(t)
  <2>1. Course' /\ Slots' /\ Routing'
    BY <1>1, StartKeeps, SubscribeKeeps DEF IInv
  <2> QED
    BY <1>0, <1>1, <2>1, ServedStays DEF IInv
<1>2. CASE ControlStep
  <2>1. Course'
    BY <1>2, CourseKept, StartKeeps, LevelsKeep, StopKeeps DEF IInv, ControlStep
  <2>2. /\ UNCHANGED <<routes, works>> /\ faults' \in 0..MaxFaults
        /\ state' = "idle" => state = "idle"
        /\ state = "running" => state' = "running"
        /\ stop' = "none" => stop = "none"
    BY <1>2, ControlApart DEF IInv, Slots
  <2>3. Works'
    BY <2>2 DEF IInv, Slots, Works, works
  <2>4. Slots'
    BY <2>2, <2>3, SlotsApart DEF IInv, works, places
  <2>5. Served'
    BY <1>0, <1>2, ServedStays DEF IInv
  <2>6. Routing'
    BY <2>2 DEF IInv, Routing, Accepted, Consumed
  <2> QED
    BY <1>0, <2>1, <2>4, <2>5, <2>6 DEF IInv
<1>3. CASE DrainStep
  <2>1. Course' /\ Slots' /\ UNCHANGED routes
    BY <1>3, StopKeeps, DrainKeeps DEF IInv, DrainStep
  <2>2. Served'
    BY <1>0, <1>3, ServedStays DEF IInv
  <2> QED
    BY <1>0, <2>1, <2>2 DEF IInv, Routing, Accepted, Consumed
<1>4. CASE WorkStep
  <2>1. Course'
    BY <1>4, WorkStepsApart, CourseApart DEF IInv
  <2>2. Slots' /\ UNCHANGED <<routes, state, stop>> /\ (state # "running" => Active' \subseteq Active)
    BY <1>4, WorkKeeps DEF IInv
  <2>4. Served'
    BY <1>0, <1>4, ServedStays DEF IInv
  <2>5. Routing'
    BY <2>2 DEF IInv, Routing, Accepted, Consumed
  <2> QED
    BY <1>0, <2>1, <2>2, <2>4, <2>5 DEF IInv
<1>5. CASE UNCHANGED vars
  <2>1. Course'
    BY <1>5, CourseApart DEF IInv, vars
  <2>2. Works'
    BY <1>5 DEF IInv, Slots, Works, vars, works
  <2>3. UNCHANGED <<routes, works, state, stop>>
    BY <1>5 DEF vars, calls, subscribed
  <2>4. Slots'
    BY <2>2, <2>3, SlotsApart DEF IInv, works, places
  <2> QED
    BY <1>0, <2>1, <2>3, <2>4 DEF IInv, Served, Active, ActiveOf, ReentriesOf, Routing, Accepted, Consumed, works
<1> QED
  BY <1>1, <1>2, <1>3, <1>4, <1>5, NextIs

\* The inductive invariant, for every value of the constants.
THEOREM Invariance == Spec => []IInv
<1>1. Init => IInv
  BY InitEstablishes
<1>2. IInv /\ [Next]_vars => IInv'
  BY StepsKeep
<1> QED
  BY <1>1, <1>2, PTL DEF Spec

\* Whenever the stop came, and whatever failed, a consumer that is done with
\* start() and stop() left no membership behind and listens to no breaker.
THEOREM NothingLeft == Spec => []NothingLeftOpen
<1>1. IInv => NothingLeftOpen
  BY DEF IInv, Course, Control, Members, AllIn, Deaf, NothingLeftOpen
<1> QED
  BY <1>1, Invariance, PTL

\* No level is joined before its topics are there.
THEOREM TopicsFirst == Spec => []JoinsWhatExists
<1>1. IInv => JoinsWhatExists
  BY DEF IInv, Course
<1> QED
  BY <1>1, Invariance, PTL

\* Types, and the slots of a level: held by as many as run, never by more than
\* allowed, and free with somebody in line only while somebody is on the way.
THEOREM SlotsAreHandedOn == Spec => []SlotsHandedOn
<1>1. IInv => TypeOK
  BY DEF IInv, Course, Control, Slots, Works, Waits, Memberships, TypeOK
<1>2. ASSUME IInv, NEW l \in Levels
      PROVE  /\ gate[l].active = Cardinality(ReentriesOf(On(l)))
             /\ gate[l].active <= concurrency
             /\ Range(gate[l].waiting) = {p \in On(l) : parked[p] = "waiting"}
             /\ gate[l].waiting # <<>> /\ gate[l].active < concurrency
                  => passing[l] > 0 \/ \E p \in On(l) : parked[p] = "woken"
  <2>1. Kept(l, gate[l], parked, passing[l]) /\ Works
    BY <1>2 DEF IInv, Slots, Lines
  <2>2. At(l, parked, "active") = ReentriesOf(On(l))
    BY DEF At, ReentriesOf
  <2>3. gate[l].active \in Nat /\ passing[l] \in Nat /\ concurrency \in Nat
    <3>1. gate[l] \in [active : Nat, waiting : Seq(Partitions)]
      BY <2>1 DEF Works
    <3> QED
      BY <2>1, <3>1, LifecycleAssumption DEF Works
  <2>4. ASSUME gate[l].waiting # <<>>, gate[l].active < concurrency, passing[l] = 0
        PROVE  \E p \in On(l) : parked[p] = "woken"
    <3>1. PICK w \in Nat : w = Cardinality(At(l, parked, "woken"))
      BY AtFinite
    <3>2. concurrency <= gate[l].active + 0 + w
      BY <2>1, <2>4, <3>1 DEF Kept
    <3>3. w # 0
      BY <2>3, <2>4, <3>2
    <3>4. At(l, parked, "woken") # {}
      BY <3>1, <3>3, FS_EmptySet
    <3> QED
      BY <3>4 DEF At
  <2>5. passing[l] = 0 \/ passing[l] > 0
    BY <2>3
  <2>6. gate[l].active = Cardinality(ReentriesOf(On(l))) /\ gate[l].active <= concurrency
    BY <2>1, <2>2 DEF Kept
  <2>7. Range(gate[l].waiting) = {p \in On(l) : parked[p] = "waiting"}
    BY <2>1 DEF Kept, At
  <2> QED
    BY <2>4, <2>5, <2>6, <2>7
<1>3. IInv => SlotsHandedOn
  BY <1>1, <1>2 DEF SlotsHandedOn
<1> QED
  BY <1>3, Invariance, PTL

\* A subscription is taken exactly when it agrees with every one taken before,
\* in whatever order they come.
THEOREM OrderDoesNotMatter == Spec => []SubscriptionsAgree
<1>1. IInv => SubscriptionsAgree
  BY RoutingAgrees DEF IInv
<1> QED
  BY <1>1, Invariance, PTL

\* Whatever the subscriptions are named and whatever the headers of a message
\* hold, it is out of the consumer's reach after one failure a level.
THEOREM NoMessageGoesRound == Spec => []FailuresEnd
<1>1. IInv => FailuresEnd
  BY RunsOut DEF IInv, FailuresEnd
<1> QED
  BY <1>1, Invariance, PTL

\* A message keeps to its subscription along the ladder, on the DLQ and when it
\* is redriven, with every failure counted.
THEOREM MessagesKeepTheirOwner == Spec => []OwnersKept
<1>1. IInv => OwnersKept
  BY Stays DEF IInv, OwnersKept
<1> QED
  BY <1>1, Invariance, PTL

\* Once a stop began nothing becomes active, and a handler is called while the
\* stop waits for what is active or not at all.
THEOREM StoppingWaits == Spec => StopWaitsForHandlers
<1>1. ASSUME IInv, [Next]_vars, stop # "none"
      PROVE  Active' \subseteq Active
  <2>1. state # "running" \/ stop = "none"
    BY <1>1 DEF IInv, Course, Control, Stages
  <2>2. CASE \E t \in Requests : Subscribe(t)
    BY <2>2 DEF Subscribe, works, Active, ActiveOf, ReentriesOf
  <2>3. CASE ControlStep
    <3>1. UNCHANGED works
      BY <1>1, <2>3, ControlApart DEF IInv, Slots
    <3> QED
      BY <3>1 DEF works, Active, ActiveOf, ReentriesOf
  <2>4. CASE DrainStep
    BY <1>1, <2>4, DrainKeeps DEF IInv
  <2>5. CASE WorkStep
    BY <1>1, <2>1, <2>5, WorkKeeps DEF IInv
  <2>6. CASE UNCHANGED vars
    BY <2>6 DEF vars, works, Active, ActiveOf, ReentriesOf
  <2> QED
    BY <1>1, <2>2, <2>3, <2>4, <2>5, <2>6, NextIs
<1>2. ASSUME IInv, [Next]_vars, stop # "none"
      PROVE  stop = "draining" \/ handling' \subseteq handling
  <2>1. state # "running"
    BY <1>2 DEF IInv, Course, Control, Stages
  <2> QED
    BY <1>2, <2>1, HandlersCalled DEF IInv, Slots, Served
<1>3. IInv /\ [Next]_vars =>
        [stop # "none" => Active' \subseteq Active /\ (stop = "draining" \/ handling' \subseteq handling)]_vars
  BY <1>1, <1>2
<1> QED
  BY <1>3, Invariance, PTL DEF Spec, StopWaitsForHandlers
=============================================================================
