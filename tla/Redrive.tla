-------------------------------- MODULE Redrive --------------------------------
(***************************************************************************)
(* harbor.redrive() of src/src/redrive.ts over the in-memory adapter: runs *)
(* one after the other that drain a dead-letter topic back into service    *)
(* while dead letters still arrive, each hop under an instrumentation that *)
(* wraps it (src/src/instrumentation.ts), until nothing came for a while,  *)
(* `max` messages were done, or one failed.                                *)
(***************************************************************************)
EXTENDS MemoryAdapter

CONSTANTS
    Options,       \* what a redrive may be called with: [to, max, filter, wrap]; max = 0 for none
    Arrivals,      \* bound on the dead letters that arrive
    MaxRuns,       \* bound on the calls of redrive()
    MaxFaults      \* bound on failed sends, filters that throw and a harbor that closes

ASSUME RedriveAssumption ==
    /\ Backlog \in [Partitions -> Seq(BOOLEAN)]
    /\ Options \subseteq [to : BOOLEAN, max : Nat, filter : BOOLEAN, wrap : BOOLEAN]
    /\ {Arrivals, MaxRuns, MaxFaults} \subseteq Nat

VARIABLES
    phase,         \* the await redrive() stands at
    options,
    ready,         \* whether markReady() was called
    aborted,       \* stopController
    failure,       \* whether there was one
    fresh,         \* whether a message came since the idle sleep began
    awaited,       \* what of inFlight is still awaited at the end
    work,          \* work[p]: the await the message of p stands at
    hop,           \* hop[p]: its produceHop(), under wrapped()
    reprocessed, skipped,
    (* what is true of the dead letters, <<p, n>> the n-th of p *)
    copies,        \* copies[p][n]: how often it was re-injected
    filtered,      \* those the filter skipped
    repeated,      \* repeated[p][n]: failed commits after a re-injection
    arrivals, runs, faults

result == <<reprocessed, skipped>>
run    == <<phase, options, ready, aborted, failure, fresh, awaited>>
facts  == <<copies, filtered, repeated>>
bounds == <<arrivals, runs, faults>>
vars   == <<adapter, run, work, hop, result, facts, bounds>>

Fault == faults < MaxFaults /\ faults' = faults + 1

NoHop == [wrapper |-> "none", outcome |-> "none", known |-> FALSE]

\* The message in the hands of p's loop.
Current(p) == positions[p] + 1

InFlight == {p \in Partitions : work[p] # "none"}

-----------------------------------------------------------------------------
(* Dead letters arrive; `addressed` is whether one names a topic to go to. *)

DeadLettered(p, addressed) ==
    /\ arrivals < Arrivals /\ arrivals' = arrivals + 1
    /\ Append1(p, addressed)
    /\ copies' = [copies EXCEPT ![p] = Append(@, 0)]
    /\ repeated' = [repeated EXCEPT ![p] = Append(@, 0)]
    /\ UNCHANGED <<run, work, hop, result, filtered, runs, faults>>

-----------------------------------------------------------------------------
(* The run. *)

\* The variables of a run as it begins, and after it.
Locals ==
    /\ ready' = FALSE /\ aborted' = FALSE /\ failure' = FALSE /\ fresh' = FALSE
    /\ awaited' = {} /\ reprocessed' = 0 /\ skipped' = 0

Redrives(o) ==
    /\ phase = "none" /\ runs < MaxRuns /\ connected
    /\ runs' = runs + 1
    /\ Consume
    /\ phase' = "consuming" /\ options' = o
    /\ Locals
    /\ UNCHANGED <<work, hop, facts, arrivals, faults>>

\* consume() resolved: there is a handle to commit with.
Consuming ==
    /\ phase = "consuming"
    /\ phase' = "sleeping"
    /\ ready' = TRUE
    /\ UNCHANGED <<adapter, options, aborted, failure, fresh, awaited, work, hop, result, facts, bounds>>

\* The idle sleep is over: once more, or nothing came.
SleepEnds ==
    /\ phase = "sleeping" /\ ~aborted
    /\ IF ~fresh /\ InFlight = {}
       THEN phase' = "settling" /\ UNCHANGED fresh
       ELSE fresh /\ fresh' = FALSE /\ UNCHANGED phase
    /\ UNCHANGED <<adapter, options, ready, aborted, failure, awaited, work, hop, result, facts, bounds>>

\* A stop cuts the sleep.
SleepCut ==
    /\ phase = "sleeping" /\ aborted
    /\ phase' = "settling"
    /\ awaited' = InFlight
    /\ UNCHANGED <<adapter, options, ready, aborted, failure, fresh, work, hop, result, facts, bounds>>

\* What was in flight then is done: the consumption stops.
AllSettled ==
    /\ phase = "settling" /\ awaited = {}
    /\ phase' = "stopping"
    /\ aborted' = TRUE
    /\ Stop
    /\ UNCHANGED <<options, ready, failure, fresh, awaited, work, hop, result, facts, bounds>>

Returns ==
    /\ phase = "stopping"
    /\ Stopped
    /\ phase' = "none"
    /\ Locals
    /\ UNCHANGED <<options, work, hop, facts, bounds>>

-----------------------------------------------------------------------------
(* One message: one(), and what eachMessage makes of its end. *)

EachMessage(p) ==
    /\ Enters(p)
    /\ work' = [work EXCEPT ![p] = "ready"]
    /\ UNCHANGED <<run, hop, result, facts, bounds>>

\* The message failed: the run stops, uncommitted.
Fails(p) ==
    /\ work' = [work EXCEPT ![p] = "over"]
    /\ failure' = TRUE /\ aborted' = TRUE
    /\ UNCHANGED <<phase, options, ready, awaited>>

HopBegins(p) ==
    /\ work' = [work EXCEPT ![p] = "hop"]
    /\ hop' = [hop EXCEPT ![p] = 
                 IF options.wrap THEN [NoHop EXCEPT !.wrapper = "running"]
                 ELSE [wrapper |-> "settled", outcome |-> "pending", known |-> TRUE]]

\* Where a message goes: what the caller says, or its own header.
HasTarget(p) == options.to \/ log[p][Current(p)]

Considers(p) ==
    /\ fresh' = TRUE
    /\ CASE ~HasTarget(p) -> Fails(p) /\ UNCHANGED hop
         [] HasTarget(p) /\ options.filter ->
              work' = [work EXCEPT ![p] = "filter"]
              /\ UNCHANGED <<phase, options, ready, aborted, failure, awaited, hop>>
         [] HasTarget(p) /\ ~options.filter ->
              HopBegins(p) /\ UNCHANGED <<phase, options, ready, aborted, failure, awaited>>

\* Variant: the stop is not looked at.
OneAnyway(p) ==
    /\ work[p] = "ready" /\ ready
    /\ Considers(p)
    /\ UNCHANGED <<adapter, result, facts, bounds>>

\* A message that comes after the stop is left alone.
One(p) ==
    /\ work[p] = "ready" /\ ready
    /\ IF aborted
       THEN work' = [work EXCEPT ![p] = "over"] /\ UNCHANGED <<run, hop>>
       ELSE Considers(p)
    /\ UNCHANGED <<adapter, result, facts, bounds>>

Keeps(p) ==
    /\ work[p] = "filter"
    /\ HopBegins(p)
    /\ UNCHANGED <<adapter, run, result, facts, bounds>>

\* `false`, or what does not deserialize.
Skips(p) ==
    /\ work[p] = "filter"
    /\ work' = [work EXCEPT ![p] = "skip"]
    /\ filtered' = filtered \union {<<p, Current(p)>>}
    /\ UNCHANGED <<adapter, run, hop, result, copies, repeated, bounds>>

FilterThrows(p) ==
    /\ work[p] = "filter"
    /\ Fault
    /\ Fails(p)
    /\ UNCHANGED <<adapter, fresh, hop, result, facts, arrivals, runs>>

-----------------------------------------------------------------------------
(* produceHop(), through wrapped(). *)

\* Variant: the work starts without its promise being kept.
RunForgetting(h) == IF h.known THEN h ELSE [h EXCEPT !.outcome = "pending"]

\* The wrapper's run(): the work, once.
Run(h) == IF h.known THEN h ELSE [h EXCEPT !.outcome = "pending", !.known = TRUE]

WrapperRuns(p) ==
    /\ work[p] = "hop"
    /\ hop' = [hop EXCEPT ![p] = Run(@)]
    /\ UNCHANGED <<adapter, run, work, result, facts, bounds>>

\* It returns, or throws; work it did not run is run without it.
WrapperSettles(p) ==
    /\ work[p] = "hop" /\ hop[p].wrapper = "running"
    /\ hop' = [hop EXCEPT ![p] = [Run(@) EXCEPT !.wrapper = "settled"]]
    /\ UNCHANGED <<adapter, run, work, result, facts, bounds>>

\* The broker acknowledges, the record in the topic it goes to.
Acknowledged(p) ==
    /\ hop[p].outcome = "pending"
    /\ AppendElsewhere
    /\ hop' = [hop EXCEPT ![p].outcome = "ok"]
    /\ copies' = [copies EXCEPT ![p][Current(p)] = @ + 1]
    /\ UNCHANGED <<run, work, result, filtered, repeated, bounds>>

SendFails(p) ==
    /\ hop[p].outcome = "pending"
    /\ IF connected THEN Fault ELSE UNCHANGED faults
    /\ hop' = [hop EXCEPT ![p].outcome = "failed"]
    /\ UNCHANGED <<adapter, run, work, result, facts, arrivals, runs>>

HopEnds(p) ==
    /\ work[p] = "hop" /\ hop[p].wrapper = "settled" /\ hop[p].outcome \in {"ok", "failed"}
    /\ hop' = [hop EXCEPT ![p] = NoHop]
    /\ IF hop[p].outcome = "ok"
       THEN work' = [work EXCEPT ![p] = "commit"] /\ UNCHANGED <<phase, options, ready, aborted, failure, awaited>>
       ELSE Fails(p)
    /\ UNCHANGED <<adapter, fresh, result, facts, bounds>>

-----------------------------------------------------------------------------
(* commitAfter(), and the count. *)

CommitFails == ~Committable /\ UNCHANGED adapter

Counted(p) == work' = [work EXCEPT ![p] = "counted"]

SkipCommits(p) ==
    /\ work[p] = "skip"
    /\ Commit(p) \/ CommitFails
    /\ skipped' = skipped + 1
    /\ Counted(p)
    /\ UNCHANGED <<run, hop, reprocessed, facts, bounds>>

HopCommits(p) ==
    /\ work[p] = "commit"
    /\ \/ Commit(p) /\ UNCHANGED repeated
       \/ CommitFails /\ repeated' = [repeated EXCEPT ![p][Current(p)] = @ + 1]
    /\ reprocessed' = reprocessed + 1
    /\ Counted(p)
    /\ UNCHANGED <<run, hop, skipped, copies, filtered, bounds>>

\* Variant: one more than max.
EnoughOneMore == options.max > 0 /\ reprocessed + skipped > options.max

Enough == options.max > 0 /\ reprocessed + skipped >= options.max

\* The message is over, and the adapter's loop goes on.
Settles(p) ==
    /\ work[p] \in {"over", "counted"}
    /\ work' = [work EXCEPT ![p] = "none"]
    /\ aborted' = (aborted \/ (work[p] = "counted" /\ Enough))
    /\ awaited' = awaited \ {p}
    /\ Delivered(p)
    /\ UNCHANGED <<phase, options, ready, failure, fresh, hop, result, facts, bounds>>

-----------------------------------------------------------------------------
(* The adapter's own steps, and a harbor that closes under the run. *)

AdapterStep(A) == A /\ UNCHANGED <<run, work, hop, result, facts, bounds>>

HarborCloses == Disconnect /\ Fault /\ UNCHANGED <<run, work, hop, result, facts, arrivals, runs>>

Init ==
    /\ AdapterInit
    /\ phase = "none" /\ options \in Options
    /\ ready = FALSE /\ aborted = FALSE /\ failure = FALSE /\ fresh = FALSE /\ awaited = {}
    /\ work = [p \in Partitions |-> "none"]
    /\ hop = [p \in Partitions |-> NoHop]
    /\ reprocessed = 0 /\ skipped = 0
    /\ copies = [p \in Partitions |-> [n \in DOMAIN Backlog[p] |-> 0]] /\ repeated = copies
    /\ filtered = {}
    /\ arrivals = 0 /\ runs = 0 /\ faults = 0

Next ==
    \/ \E o \in Options : Redrives(o)
    \/ Consuming \/ SleepEnds \/ SleepCut \/ AllSettled \/ Returns \/ HarborCloses
    \/ \E p \in Partitions :
          \/ \E addressed \in BOOLEAN : DeadLettered(p, addressed)
          \/ EachMessage(p) \/ One(p) \/ Keeps(p) \/ Skips(p) \/ FilterThrows(p)
          \/ WrapperRuns(p) \/ WrapperSettles(p) \/ Acknowledged(p) \/ SendFails(p) \/ HopEnds(p)
          \/ SkipCommits(p) \/ HopCommits(p) \/ Settles(p)
          \/ AdapterStep(Looks(p)) \/ AdapterStep(TurnsBack(p))

\* What was woken goes on, sleeps end, a filter, a wrapper and the broker
\* answer.  Dead letters, closing and waiting for a drained topic are not owed.
Fairness ==
    /\ WF_vars(Consuming \/ SleepEnds \/ SleepCut \/ AllSettled \/ Returns)
    /\ \A p \in Partitions :
          /\ WF_vars(AdapterStep(Looks(p)) \/ AdapterStep(TurnsBack(p)) \/ EachMessage(p))
          /\ WF_vars(One(p) \/ Keeps(p) \/ Skips(p) \/ WrapperSettles(p) \/ HopEnds(p)
                       \/ SkipCommits(p) \/ HopCommits(p) \/ Settles(p))
          /\ WF_vars(Acknowledged(p) \/ SendFails(p))

Spec == Init /\ [][Next]_vars /\ Fairness

-----------------------------------------------------------------------------
TypeOK ==
    /\ AdapterTypeOK
    /\ phase \in {"none", "consuming", "sleeping", "settling", "stopping"}
    /\ work \in [Partitions -> {"none", "ready", "filter", "skip", "hop", "commit", "counted", "over"}]
    /\ {ready, aborted, failure, fresh} \subseteq BOOLEAN
    /\ awaited \subseteq Partitions /\ {reprocessed, skipped} \subseteq Nat

Letters == UNION {{p} \X DOMAIN log[p] : p \in Partitions}

\* The group is past a dead letter only when it is back in service or the
\* filter skipped it: one that failed, or came after the stop, is there for
\* the next redrive, and so is all behind it.
NoDeadLetterLost ==
    \A e \in Letters :
        e[2] <= committed[e[1]] => copies[e[1]][e[2]] > 0 \/ e \in filtered

\* A dead letter goes back twice only after a commit that failed, whatever an
\* instrumentation does around the produce.
OnceUnlessUncommitted ==
    \A e \in Letters : copies[e[1]][e[2]] <= 1 + repeated[e[1]][e[2]]

\* A run with a `max` stops there, but for what other loops are at: the gate of
\* the in-memory adapter lets more of them in than `concurrency`.
StopsAtMax ==
    /\ TypeOK /\ SlotsCounted
    /\ options.max > 0 => reprocessed + skipped < options.max + Cardinality(Partitions)

\* A redrive ends: nobody waits for a slot, an event or a message for ever.
RedriveEnds == phase # "none" ~> phase = "none"
=============================================================================
