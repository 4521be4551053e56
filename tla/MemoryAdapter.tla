----------------------------- MODULE MemoryAdapter -----------------------------
(***************************************************************************)
(* The in-memory adapter of src/src/testing/index.ts, for one topic that a *)
(* consumption reads and its group: the loop per partition, the slots they *)
(* share, the scanner that finds partitions, the wake-ups between them,    *)
(* commit, stop and the wait for a drained topic.                          *)
(*                                                                         *)
(* An action is a stretch of code without an await.  Offsets count from 1; *)
(* positions[p] and committed[p] are the last one the group is past.  What *)
(* a consumer does with a delivery, and the calls it makes, are conjoined  *)
(* by the module that extends this one.                                    *)
(***************************************************************************)
EXTENDS Naturals, Sequences, FiniteSets, SequencesExt

CONSTANTS
    Partitions,     \* of the topic that is read
    Backlog,        \* what is on it to begin with
    concurrency     \* ConsumeOptions.concurrency

ASSUME MemoryAdapterAssumption == IsFiniteSet(Partitions) /\ concurrency \in Nat \ {0}

VARIABLES
    (* the broker *)
    log,           \* log[p]: its records
    connected,
    (* the group *)
    committed, positions,
    (* the consumption *)
    stopped, active, waiting,
    at             \* the await each loop stands at

broker      == <<log, connected>>
group       == <<committed, positions>>
consumption == <<stopped, active, waiting, at>>
adapter     == <<broker, group, consumption>>

\* wake(): whoever waits for nextEvent() looks again.  (Who would find nothing
\* new is left asleep: a wake() for other topics, or for a position.)
Wake == [p \in Partitions |-> IF at[p] = "nextEvent" THEN "awake" ELSE at[p]]

-----------------------------------------------------------------------------
(* produce(). *)

\* append() of a record to partition p of the topic.
Append1(p, r) ==
    /\ connected
    /\ log' = [log EXCEPT ![p] = Append(@, r)]
    /\ at' = Wake
    /\ UNCHANGED <<connected, group, stopped, active, waiting>>

\* append() to some other topic.
AppendElsewhere == connected /\ UNCHANGED adapter

-----------------------------------------------------------------------------
(* runPartition(). *)

\* From the top of the loop, when `taken` slots are and the rest is as `line`
\* and `pcs` say: nothing to read yet, a slot, or the end of the line.
Goes(p, taken, line, pcs) ==
    IF stopped
    THEN /\ at' = [pcs EXCEPT ![p] = "ended"]
         /\ active' = taken /\ waiting' = line
    ELSE IF positions'[p] >= Len(log[p])
    THEN /\ at' = [pcs EXCEPT ![p] = "nextEvent"]
         /\ active' = taken /\ waiting' = line
    ELSE IF taken < concurrency
    THEN /\ at' = [pcs EXCEPT ![p] = "slot"]
         /\ active' = taken + 1 /\ waiting' = line
    ELSE /\ at' = [pcs EXCEPT ![p] = "waiting"]
         /\ active' = taken /\ waiting' = Append(line, p)

\* A group starts from its committed offset, or from the beginning.
Starts(p) == positions' = [positions EXCEPT ![p] = IF @ = 0 THEN committed[p] ELSE @]

Looks(p) ==
    /\ at[p] = "awake"
    /\ IF stopped THEN UNCHANGED positions ELSE Starts(p)
    /\ Goes(p, active, waiting, at)
    /\ UNCHANGED <<broker, committed, stopped>>

\* Variant: the one who waits longest is not told.
FinallyTellingNobody(p, taken) ==
    /\ positions' = [positions EXCEPT ![p] = @ + 1]
    /\ Goes(p, taken - 1, waiting, at)

\* The loop's finally, while `taken` slots are: release(), and around again.
\* The waiter that release() lets go takes its slot when it runs.
Finally(p, taken) ==
    /\ positions' = [positions EXCEPT ![p] = @ + 1]
    /\ IF waiting = <<>>
       THEN Goes(p, taken - 1, <<>>, at)
       ELSE Goes(p, taken - 1, Tail(waiting), [at EXCEPT ![Head(waiting)] = "granted"])

\* acquire() resolved: eachMessage() is called, unless the consumption stopped.
Entering(p) == at[p] \in {"slot", "granted"}
Taken(p) == IF at[p] = "granted" THEN active + 1 ELSE active

Enters(p) ==
    /\ Entering(p) /\ ~stopped
    /\ active' = Taken(p)
    /\ at' = [at EXCEPT ![p] = "eachMessage"]
    /\ UNCHANGED <<broker, group, stopped, waiting>>

TurnsBack(p) ==
    /\ Entering(p) /\ stopped
    /\ Finally(p, Taken(p))
    /\ UNCHANGED <<broker, committed, stopped>>

\* The promise of eachMessage() settled.
Delivered(p) ==
    /\ at[p] = "eachMessage"
    /\ Finally(p, active)
    /\ UNCHANGED <<broker, committed, stopped>>

-----------------------------------------------------------------------------
(* consume(), which starts the loop of every partition there is, and the    *)
(* handle.                                                                   *)

Consume ==
    /\ stopped' = FALSE /\ active' = 0 /\ waiting' = <<>>
    /\ at' = [p \in Partitions |-> "awake"]
    /\ UNCHANGED <<broker, committed, positions>>

Committable == connected /\ ~stopped

\* commit() of the record of p that is being delivered.
Commit(p) ==
    /\ Committable
    /\ committed' = [committed EXCEPT ![p] = positions[p] + 1]
    /\ UNCHANGED <<broker, positions, consumption>>

\* stop(), up to its wait for the loops.
Stop ==
    /\ stopped' = TRUE
    /\ at' = Wake
    /\ UNCHANGED <<broker, committed, positions, active, waiting>>

\* The loops are over, and the positions go with the member.
Stopped ==
    /\ stopped
    /\ \A p \in Partitions : at[p] = "ended"
    /\ positions' = [p \in Partitions |-> 0]
    /\ UNCHANGED <<broker, committed, consumption>>

Disconnect ==
    /\ connected
    /\ connected' = FALSE
    /\ UNCHANGED <<log, group, consumption>>

-----------------------------------------------------------------------------
AdapterInit ==
    /\ log = Backlog
    /\ connected = TRUE
    /\ committed = [p \in Partitions |-> 0]
    /\ positions = [p \in Partitions |-> 0]
    /\ stopped = TRUE /\ active = 0 /\ waiting = <<>>
    /\ at = [p \in Partitions |-> "ended"]

AdapterTypeOK ==
    /\ {connected, stopped} \subseteq BOOLEAN
    /\ active \in Nat
    /\ \A p \in Partitions : committed[p] \in 0..Len(log[p]) /\ positions[p] \in 0..Len(log[p])
    /\ at \in [Partitions -> {"awake", "nextEvent", "slot", "waiting", "granted",
                              "eachMessage", "ended"}]

\* The slots counted are those taken, and a loop that waits in line has somebody
\* ahead of it who will let it in.
SlotsCounted ==
    /\ active = Cardinality({p \in Partitions : at[p] \in {"slot", "eachMessage"}})
    /\ Range(waiting) = {p \in Partitions : at[p] = "waiting"} /\ IsInjective(waiting)
    /\ waiting # <<>> => \E p \in Partitions : at[p] \in {"slot", "granted", "eachMessage"}
=============================================================================
