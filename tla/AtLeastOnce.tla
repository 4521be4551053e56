----------------------------- MODULE AtLeastOnce -----------------------------
(***************************************************************************)
(* What kafka-harbor promises (src/docs/delivery-semantics.md): a message  *)
(* is handled, dead-lettered, or still waiting uncommitted somewhere on    *)
(* the ladder of topics, at every instant.  The module holds the part of   *)
(* the world the promise is about -- the topics' logs, the group's         *)
(* committed offsets, what handlers did -- the effects the pipelines have  *)
(* on it, and the promise itself as a specification: an offset moves only  *)
(* past records whose outcome is safe.                                     *)
(*                                                                         *)
(* Offsets count from 1 here: committed[p] = n means that the first n      *)
(* records of p are behind the group, so the offset commit.ts calls        *)
(* offsetAfter(record at o) is n = o.                                      *)
(***************************************************************************)
EXTENDS Naturals, Sequences

CONSTANTS
    Partitions,   \* topic-partitions of the original topics and of the ladder
    Messages,     \* application messages; a hop copies one to another partition
    Level,        \* Level[p]: 0 on an original topic, n on the n-th retry topic
    Backlog       \* Backlog[p]: the records the producers wrote to p

ASSUME LadderAssumption == /\ Level \in [Partitions -> Nat]
                           /\ Backlog \in [Partitions -> Seq(Messages)]

VARIABLES
    log,          \* log[p]: the records of p, in offset order
    committed,    \* committed[p]: how many records of p the group committed
    handled,      \* <<p, o>>: records whose handler returned or whose hop was acknowledged
    done,         \* messages a handler returned for
    dead          \* messages a DLQ holds

ledger == <<log, committed, handled, done, dead>>

NextLevel(p) == {t \in Partitions : Level[t] = Level[p] + 1}

-----------------------------------------------------------------------------
(* The effects, unguarded: a pipeline adds the guards its code has. *)

\* The handler of the record returned.
Resolve(p, o) ==
    /\ handled' = handled \union {<<p, o>>}
    /\ done' = done \union {log[p][o]}
    /\ UNCHANGED <<log, committed, dead>>

\* The broker appended a copy of the record to t; nobody knows yet.
Copy(p, o, t) ==
    /\ log' = [log EXCEPT ![t] = Append(@, log[p][o])]
    /\ UNCHANGED <<committed, handled, done, dead>>

\* The same, on the DLQ.
CopyToDlq(p, o) ==
    /\ dead' = dead \union {log[p][o]}
    /\ UNCHANGED <<log, committed, handled, done>>

\* The broker acknowledged the copy on the retry topic t.
Hop(p, o, t) ==
    /\ log' = [log EXCEPT ![t] = Append(@, log[p][o])]
    /\ handled' = handled \union {<<p, o>>}
    /\ UNCHANGED <<committed, done, dead>>

\* The broker acknowledged the copy on the DLQ.
DeadLetter(p, o) ==
    /\ dead' = dead \union {log[p][o]}
    /\ handled' = handled \union {<<p, o>>}
    /\ UNCHANGED <<log, committed, done>>

\* The broker acknowledged the commit of the offset after record o.
Commit(p, o) ==
    /\ committed' = [committed EXCEPT ![p] = o]
    /\ UNCHANGED <<log, handled, done, dead>>

\* A transaction: what the handler did and the offset after it, together.
Transact(p, o) ==
    /\ handled' = handled \union {<<p, o>>}
    /\ done' = done \union {log[p][o]}
    /\ committed' = [committed EXCEPT ![p] = o]
    /\ UNCHANGED <<log, dead>>

\* The handler of a batch returned; it resolved for the records S of it.
ResolveAll(p, S) ==
    /\ handled' = handled \union ({p} \X S)
    /\ done' = done \union {log[p][o] : o \in S}
    /\ UNCHANGED <<log, committed, dead>>

\* The transaction of a batch's handler: the records S and the offset after o.
TransactAll(p, S, o) ==
    /\ handled' = handled \union ({p} \X S)
    /\ done' = done \union {log[p][i] : i \in S}
    /\ committed' = [committed EXCEPT ![p] = o]
    /\ UNCHANGED <<log, dead>>

-----------------------------------------------------------------------------
(* The promise. *)

PrefixHandled(p, o) == \A i \in 1..o : <<p, i>> \in handled

LedgerInit ==
    /\ log = Backlog
    /\ committed = [p \in Partitions |-> 0]
    /\ handled = {}
    /\ done = {}
    /\ dead = {}

\* One record at a time.
RecordEffect(p, o) ==
    \/ Resolve(p, o)
    \/ \E t \in NextLevel(p) : Copy(p, o, t) \/ Hop(p, o, t)
    \/ CopyToDlq(p, o) \/ DeadLetter(p, o)
    \/ PrefixHandled(p, o) /\ Commit(p, o)
    \/ PrefixHandled(p, o - 1) /\ Transact(p, o)

\* A batch at a time.
BatchEffect(p, S) ==
    \/ ResolveAll(p, S)
    \/ \E o \in 1..Len(log[p]) :
          /\ \A i \in (1..o) \ S : <<p, i>> \in handled
          /\ TransactAll(p, S, o)

PromiseNext ==
    \E p \in Partitions :
        \/ \E o \in 1..Len(log[p]) : RecordEffect(p, o)
        \/ \E S \in SUBSET (1..Len(log[p])) : BatchEffect(p, S)

PromiseSpec == LedgerInit /\ [][PromiseNext]_ledger

-----------------------------------------------------------------------------
\* The types of the ledger, the part of it every component's type invariant shares.
LedgerTypeOK ==
    /\ log \in [Partitions -> Seq(Messages)]
    /\ committed \in [Partitions -> Nat]
    /\ handled \subseteq Partitions \X Nat
    /\ done \subseteq Messages
    /\ dead \subseteq Messages

Uncommitted(m) ==
    \E p \in Partitions : \E o \in (committed[p] + 1)..Len(log[p]) : log[p][o] = m

Produced(m) == \E p \in Partitions : \E o \in 1..Len(Backlog[p]) : Backlog[p][o] = m

\* At-least-once: a message a producer wrote was handled, is on a DLQ, or has
\* a copy ahead of the committed offset of its partition, which the group
\* will read (again).  A commit that moved past a record before its handler
\* returned or its hop was acknowledged would leave the message nowhere.
NothingLost ==
    \A m \in Messages : Produced(m) => m \in done \/ m \in dead \/ Uncommitted(m)
=============================================================================
