----------------------- MODULE TransactionalProducer -----------------------
(***************************************************************************)
(* The connection of a client adapter and its transactional producer, over *)
(* what the broker keeps for the transactional id.  The connection, and    *)
(* the producer opened with it, are those of                               *)
(* src/src/adapters/confluent/index.ts; what each step does to an open     *)
(* transaction both adapters decide alike, and is translated from          *)
(* src/src/adapters/platformatic/index.ts.                                 *)
(*                                                                         *)
(* The broker lets one producer hold the id: whoever initialized last.  It *)
(* aborts a transaction open past transaction.timeout.ms, and both answer  *)
(* the producer that lost the id the same way, as fenced.  The adapter     *)
(* tells them apart by the time that passed since the transaction began,   *)
(* because after the first it must stay quiet and after the second it has  *)
(* to open a new producer.                                                 *)
(*                                                                         *)
(* The actions of an open transaction are Harbor's, which runs them; this  *)
(* module says what each answer of the client does.  A record is a pair    *)
(* <<transaction, n>>; <<t, 0>> stands for the offsets of t.               *)
(***************************************************************************)
EXTENDS Naturals

CONSTANT MaxTakes   \* bound on how often another instance takes the id

VARIABLES
    client,     \* whether the adapter holds a connection (kafka, producer, admin)
    producer,   \* `transactional`: "none", or whether the broker still has it as holder
    fenced,     \* connection.fenced
    discarded,  \* transactions whose handle dropped its producer
    overdue,    \* the transaction in progress is open past its timeout
    holder,     \* broker: who initialized the transactional id last
    open,       \* broker: the records of the transaction open under it
    visible,    \* broker: the records read-committed consumers see
    takes       \* how often another instance took the id

adapter == <<client, producer, fenced, discarded, overdue>>
broker  == <<holder, open, visible, takes>>

AdapterInit ==
    /\ client = FALSE
    /\ producer = "none"
    /\ fenced = FALSE
    /\ discarded = {}
    /\ overdue = FALSE

BrokerInit == holder = "nobody" /\ open = {} /\ visible = {} /\ takes = 0

\* The broker answers a step of transaction t through its handle.
Answers(t) == client /\ t \notin discarded /\ producer = "current"

\* It answers as fenced: another producer holds the id, or the transaction
\* timed out.
AnswersFenced(t) == client /\ t \notin discarded /\ producer = "fenced"

-----------------------------------------------------------------------------
(* Opening and releasing the connection. *)

\* initTransactions(): the id is this producer's, what was open is aborted.
Initialize == holder' = "harbor" /\ open' = {} /\ UNCHANGED <<visible, takes>>

\* open() with a transactionalId.
OpenConnection ==
    /\ Initialize
    /\ client' = TRUE
    /\ producer' = "current"
    /\ UNCHANGED <<fenced, discarded, overdue>>

\* disconnect(): the broker keeps what was open until it times out.
Disconnect ==
    /\ client' = FALSE
    /\ producer' = "none"
    /\ UNCHANGED <<fenced, discarded, overdue, broker>>

\* connectTransactional() in transaction(): a producer opened while the
\* adapter was released is disconnected again.
Reopen ==
    /\ Initialize
    /\ producer' = IF client THEN "current" ELSE "none"
    /\ overdue' = FALSE
    /\ UNCHANGED <<client, fenced, discarded>>

-----------------------------------------------------------------------------
(* What a failed step of a transaction does. *)

\* discardTransactional(), for the handle of t.
Discard(t) ==
    /\ discarded' = discarded \union {t}
    /\ producer' = "none"

\* Variant: the time the transaction was open is not looked at.
IsFenceAlways == TRUE

\* Whether a fenced answer can only mean another holder (failed()).
IsFence == ~overdue

\* failed() for a step nothing runs beside: the producer is dropped, and the
\* connection fenced unless the timeout may be why.
Fail(t) ==
    /\ Discard(t)
    /\ fenced' = (fenced \/ IsFence)
    /\ UNCHANGED <<client, overdue, broker>>

\* transaction(): the client reports the fence at begin.
FencedAtBegin ==
    /\ producer' = "none"
    /\ fenced' = TRUE
    /\ UNCHANGED <<client, discarded, overdue, broker>>

\* Variant: a failed abort leaves the producer for the next transaction.
AbortFailsKept(t) ==
    /\ UNCHANGED <<adapter, broker>>

\* abort() failed, and not as fenced: the producer is dropped all the same.
AbortFails(t) ==
    /\ Discard(t)
    /\ UNCHANGED <<client, fenced, overdue, broker>>

Add(r) == open' = open \union {r} /\ UNCHANGED <<holder, visible, takes>>

CommitOpen == visible' = visible \union open /\ open' = {} /\ UNCHANGED <<holder, takes>>

AbortOpen == open' = {} /\ UNCHANGED <<holder, visible, takes>>

-----------------------------------------------------------------------------
(* The broker and the other instances. *)

Lose == producer' = IF producer = "current" THEN "fenced" ELSE producer

\* Another instance initializes the id.
OtherTakes ==
    /\ takes < MaxTakes
    /\ takes' = takes + 1
    /\ holder' = "other"
    /\ open' = {}
    /\ Lose
    /\ UNCHANGED <<client, fenced, discarded, overdue, visible>>

\* The broker aborts a transaction open past its timeout; the producer that
\* has one in progress is past it by its own clock, which started earlier.
BrokerTimesOut ==
    /\ open # {}
    /\ overdue \/ producer = "none"
    /\ open' = {}
    /\ Lose
    /\ UNCHANGED <<client, fenced, discarded, overdue, holder, visible, takes>>
=============================================================================
