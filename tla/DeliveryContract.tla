--------------------------- MODULE DeliveryContract ---------------------------
(***************************************************************************)
(* What the core asks of a consumption of an adapter (ConsumeOptions and   *)
(* ConsumerHandle in src/src/adapter.ts), as a specification every adapter *)
(* is to implement: in order within a partition, one delivery of a         *)
(* partition at a time, Concurrency partitions at most, and nothing from a *)
(* partition that is paused.                                               *)
(*                                                                         *)
(* Offsets count from 1.  The next delivery of a partition is the record   *)
(* after `last`, or one with nothing left to handle before it: the place a *)
(* client reads from after a rebalance, a restart or a failed stream.  It  *)
(* may have read on from there while an earlier record was queued.         *)
(***************************************************************************)
EXTENDS Naturals, FiniteSets

CONSTANTS
    Partitions,
    Offsets,        \* positive numbers
    Concurrency,    \* ConsumeOptions.concurrency
    fromBeginning   \* ConsumeOptions.fromBeginning

VARIABLES
    done,           \* <<p, o>>: records the group is done with: handled by this member
                    \* or another, or passed over
    fresh,          \* partitions of which nothing was committed yet
    delivering,     \* delivering[p]: the record whose promise is open, or 0
    parked,         \* parked[p]: the record the core holds through a pause, or 0
    paused,         \* partitions the core paused
    last            \* last[p]: the last record delivered, of this reading of p,
                    \* or the record before the place it goes on from

vars == <<done, fresh, delivering, parked, paused, last>>

PrefixDone(p, o) == \A i \in 1..o : <<p, i>> \in done

\* A partition nothing was committed of is read from its end unless fromBeginning:
\* what is before that is passed over.
PassesOver ==
    \E ends \in [fresh -> Offsets \union {0}] :
        done' = done \union (IF fromBeginning THEN {} ELSE UNION {{p} \X (1..ends[p]) : p \in fresh})

-----------------------------------------------------------------------------
(* The adapter. *)

Begins(p, o) ==
    /\ delivering[p] = 0
    /\ p \notin paused'
    /\ Cardinality({q \in Partitions : delivering[q] # 0}) < Concurrency
    /\ o = last[p] + 1 \/ PrefixDone(p, o - 1)
    /\ delivering' = [delivering EXCEPT ![p] = o]
    /\ \E l \in Offsets : /\ l = o \/ (l > o /\ PrefixDone(p, l))
                          /\ last' = [last EXCEPT ![p] = l]

Begin ==
    /\ UNCHANGED <<done, parked, paused>>
    /\ \E p \in Partitions, o \in Offsets : Begins(p, o)

\* The client reads some partitions from another place.
Seek ==
    /\ last' \in [Partitions -> Offsets \union {0}]
    /\ \A p \in Partitions : last'[p] = last[p] \/ PrefixDone(p, last'[p])
    /\ PassesOver
    /\ UNCHANGED <<delivering, parked, paused>>

\* The partitions S are another member's: their pauses end, what was parked on
\* them is dropped, and if they come back they are read from another place.
Revoke(S) ==
    /\ last' \in [Partitions -> Offsets \union {0}]
    /\ \A p \in Partitions : PrefixDone(p, last'[p]) \/ (p \notin S /\ last'[p] = last[p])
    /\ paused' = paused \ S
    /\ parked' = [p \in Partitions |-> IF p \in S THEN 0 ELSE parked[p]]
    /\ PassesOver
    /\ UNCHANGED delivering

-----------------------------------------------------------------------------
(* The core. *)

\* The promise settles, the record handled.
Handle(p) ==
    /\ delivering[p] # 0
    /\ done' = done \union {<<p, delivering[p]>>}
    /\ delivering' = [delivering EXCEPT ![p] = 0]
    /\ UNCHANGED <<parked, paused, last>>

\* It settles unhandled: the partition was revoked since.
Leave(p) ==
    /\ delivering[p] # 0
    /\ delivering[p] > last[p] \/ <<p, delivering[p]>> \in done
    /\ delivering' = [delivering EXCEPT ![p] = 0]
    /\ UNCHANGED <<done, parked, paused, last>>

\* It settles, the record waiting for its retry delay and the partition paused.
Park(p) ==
    /\ delivering[p] # 0 /\ parked[p] = 0
    /\ parked' = [parked EXCEPT ![p] = delivering[p]]
    /\ paused' = paused \union {p}
    /\ delivering' = [delivering EXCEPT ![p] = 0]
    /\ UNCHANGED <<done, last>>

\* The parked record's time came, or another member handled a record, the
\* first of those it found when nothing was committed.
HandledBeside(p, o) ==
    /\ \/ done' = done \union {<<p, o>>}
       \/ p \in fresh /\ ~fromBeginning /\ done' = done \union ({p} \X (1..o))
    /\ UNCHANGED <<delivering, parked, paused, last>>

\* The parked record is done and the partition flows again, at once when a
\* delivery is ready.
Resume(p) ==
    /\ <<p, parked[p]>> \in done
    /\ parked' = [parked EXCEPT ![p] = 0]
    /\ paused' = paused \ {p}
    /\ UNCHANGED done
    /\ \/ UNCHANGED <<delivering, last>>
       \/ \E q \in Partitions, o \in Offsets : Begins(q, o)

Init ==
    /\ done = {} /\ fresh = Partitions
    /\ delivering = [p \in Partitions |-> 0]
    /\ parked = [p \in Partitions |-> 0]
    /\ paused = {}
    /\ last = [p \in Partitions |-> 0]

Step ==
    \/ Begin \/ Seek
    \/ \E S \in SUBSET Partitions : Revoke(S)
    \/ \E p \in Partitions : Handle(p) \/ Leave(p) \/ Park(p) \/ Resume(p)
    \/ \E p \in Partitions, o \in Offsets : HandledBeside(p, o)

\* What was committed once stays committed.
Next == Step /\ fresh' \subseteq fresh

Spec == Init /\ [][Next]_vars

-----------------------------------------------------------------------------
\* No record is skipped: the group is done with whatever comes before the next
\* delivery, or the core has it in hand, as an open delivery or parked.  A commit of the offset
\* after a record covers all before it only because of this.
NothingSkipped ==
    \A p \in Partitions : \A i \in 1..last[p] :
        <<p, i>> \in done \/ delivering[p] = i \/ parked[p] = i
=============================================================================
