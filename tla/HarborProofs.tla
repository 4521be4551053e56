---------------------------- MODULE HarborProofs ----------------------------
(***************************************************************************)
(* The safety of Harbor for any transactions, sends and bounds: they never *)
(* overlap, they are all or nothing and what was answered is what          *)
(* happened, a fence is told from a timeout and respected, and the client  *)
(* is released once drained or expired, however late it opened.            *)
(***************************************************************************)
EXTENDS Harbor, TLAPS

\* A transaction begun on the client and not ended / one that holds the turn.
InProgress == Open \ {"opening"}
Active     == Open \union {"connecting"}

-----------------------------------------------------------------------------
(* The inductive invariant, by what it is about. *)

Typed ==
    /\ TypeOK
    /\ \A t \in Transactions : call[t] = "offsets" => t \in Consuming

\* Every call that did not end is in the queue, once, and the active one is
\* the first that did not end.
QueueOrder ==
    /\ \A i, j \in DOMAIN turns : turns[i] = turns[j] => i = j
    /\ \A i \in DOMAIN turns : call[turns[i]] # "none"
    /\ \A t \in Transactions : call[t] \notin Ended \union {"none"} =>
          \E i \in DOMAIN turns : turns[i] = t
    /\ \A t \in Transactions : call[t] \in Active => Turn(t)

\* The sends of a transaction begin after it did, and settle before its end.
SendsInside ==
    \A r \in TxSends :
        /\ send[r] # "none" => call[r[1]] \in InProgress \union Ended
        /\ send[r] \in Unsettled => call[r[1]] \in {"running", "settling", "unwinding"}

\* Who holds the client, and how far the shutdown is.
Connected ==
    /\ client => connecting \in {"landed", "done"}
    /\ client /\ connecting = "done" => held
    /\ producer # "none" => client
    /\ \A t \in Transactions : call[t] \in Open => connecting = "done"
    /\ IsClosed <=> shutdown # "none"
    /\ shutdown = "disconnect" => held
    /\ shutdown \in {"disconnect", "done"} /\ client => connecting = "landed"
    /\ shutdown \notin {"none", "consumers", "connect"} /\ connecting \in {"pending", "landed"} => expired

\* Why the broker answers as fenced while no other instance took the id: the
\* transaction in progress timed out, and its end will drop the producer.
FenceKnown ==
    /\ fenced => takes > 0
    /\ \A r \in TxSends : send[r] = "fencing" => takes > 0
    /\ producer = "fenced" /\ takes = 0 =>
          overdue /\ \E t \in Transactions : call[t] \in InProgress /\ t \notin discarded
    /\ told # {} => fenced /\ connecting = "done"
    /\ \A t \in Transactions : call[t] = "opening" => ~fenced

\* What is open under the harbor's producer is what its transaction produced.
OpenLedger ==
    producer = "current" =>
        /\ \A r \in open : call[r[1]] \in InProgress /\ r[1] \notin discarded
        /\ \A t \in Transactions : t \notin discarded =>
              /\ call[t] \in {"running", "settling", "offsets", "committing"} =>
                    \A r \in SendsOf(t) : send[r] = "acked" => r \in open
              /\ call[t] = "committing" /\ t \in Consuming => <<t, 0>> \in open

\* A transaction that reached its commit has no failed send, and one with
\* visible records was committed, answered or not.
VisibleLedger ==
    /\ \A t \in Transactions : call[t] \in {"offsets", "committing"} =>
          \A r \in SendsOf(t) : send[r] \in {"none", "acked", "refused"}
    /\ \A r \in (open \union visible) \intersect TxSends : send[r] \in {"acked", "failed"}
    /\ \A r \in visible :
          /\ \/ call[r[1]] = "committed"
             \/ r[1] \in lost /\ call[r[1]] \in {"unwinding", "aborting", "rejected"}
          /\ Produced(r[1]) \subseteq visible
    /\ \A t \in Transactions : call[t] = "committed" => Produced(t) \subseteq visible

IInv == Typed /\ QueueOrder /\ SendsInside /\ Connected /\ FenceKnown /\ OpenLedger /\ VisibleLedger

-----------------------------------------------------------------------------
(* Types. *)

\* A send is a pair of its transaction and a number, and never the pair that
\* stands for the offsets of a transaction.
LEMMA TxSendPairs ==
    /\ \A r \in TxSends : r[1] \in Transactions /\ r # <<r[1], 0>>
    /\ \A r \in Records : r[1] \in Transactions
    /\ \A t \in Transactions : <<t, 0>> \notin TxSends
BY HarborAssumption DEF Records

LEMMA TypedInit == Init => Typed
<1> SUFFICES ASSUME Init PROVE Typed
    OBVIOUS
<1> USE HarborAssumption DEF Init, AdapterInit, BrokerInit, TypeOK, Ended, Open, Unsettled, Settled
<1>1. turns \in Seq(Transactions)
  OBVIOUS
<1>2. /\ call \in [Transactions -> Ended \union Open \union {"none", "queued", "connecting"}]
      /\ send \in [TxSends -> Unsettled \union {"none", "acked", "failed", "refused"}]
      /\ plain \in [Sends -> Settled \union {"none", "encoding", "connecting", "producing", "backoff"}]
  OBVIOUS
<1>3. /\ takes \in 0..MaxTakes /\ faults \in 0..MaxFaults
      /\ open \subseteq Records /\ visible \subseteq Records /\ discarded \subseteq Transactions
      /\ told \subseteq Transactions /\ lost \subseteq Transactions
  OBVIOUS
<1>4. \A t \in Transactions : call[t] = "offsets" => t \in Consuming
  OBVIOUS
<1>5. TypeOK
  BY <1>1, <1>2, <1>3
<1> QED
  BY <1>4, <1>5 DEF Typed

LEMMA TypedStep == Typed /\ [Next]_vars => Typed'
<1> SUFFICES ASSUME Typed, [Next]_vars
             PROVE  Typed'
    OBVIOUS
<1> USE HarborAssumption
    DEF Typed, TypeOK, Ended, Open, Unsettled, Settled, Fault, Goto, adapter, broker, lifecycle, running
<1>1. CASE UNCHANGED vars
      BY <1>1 DEF vars, Records
<1>2. CASE Connect
      BY <1>2 DEF Connect, JoinConnect, IsClosed, Records
<1>3. CASE ConnectLands
      BY <1>3 DEF ConnectLands, OpenConnection, Initialize, Records
<1>4. CASE ConnectSettles
  <2>1. CASE state = "closed"
        BY <1>4, <2>1 DEF ConnectSettles, Disconnect, Records
  <2>2. CASE state # "closed"
        BY <1>4, <2>2 DEF ConnectSettles, Disconnect, Records
  <2> QED
      BY <2>1, <2>2
<1>5. CASE LateRelease
      BY <1>5 DEF LateRelease, Records
<1>6. CASE ConnectFails
      BY <1>6 DEF ConnectFails, Waiting, SendsWaiting, Records
<1>7. CASE Shutdown
      BY <1>7 DEF Shutdown, Records
<1>8. CASE ConsumersStopped
      BY <1>8 DEF ConsumersStopped, Records
<1>9. CASE ConnectWaited
      BY <1>9 DEF ConnectWaited, Records
<1>10. CASE Drained
  <2>1. call' \in [Transactions -> Ended \union Open \union {"none", "queued", "connecting"}]
        BY <1>10 DEF Drained, Close
  <2>2. \A t \in Transactions : call'[t] = "offsets" => call[t] = "offsets"
        BY <1>10 DEF Drained, Close
  <2>3. /\ UNCHANGED <<connecting, held, expired, turns, send, told, lost, plain, faults>>
        /\ UNCHANGED <<broker, fenced, discarded, overdue>> /\ closed' = TRUE
        BY <1>10 DEF Drained, Close, Disconnect
  <2>4. CASE held
        BY <1>10, <2>1, <2>2, <2>3, <2>4 DEF Drained, Close, Disconnect, Records
  <2>5. CASE ~held
        BY <1>10, <2>1, <2>2, <2>3, <2>5 DEF Drained, Close, Records
  <2> QED
      BY <2>4, <2>5
<1>11. CASE Disconnected
      BY <1>11 DEF Disconnected, Records
<1>12. CASE Expire
      BY <1>12 DEF Expire, Records
<1>13. ASSUME NEW s \in Sends, Sending(s)
      PROVE  Typed'
  <2>1. CASE SendBegins(s)
        BY <2>1, TxSendPairs DEF SendBegins, Records
  <2>2. CASE SendEncoded(s)
        BY <2>2, TxSendPairs DEF SendEncoded, EnsureConnected, JoinConnect, Refused, IsClosed, Records
  <2>3. CASE SendTries(s)
        BY <2>3, TxSendPairs DEF SendTries, Records
  <2>4. CASE SendAcknowledged(s)
        BY <2>4, TxSendPairs DEF SendAcknowledged, Records
  <2>5. CASE SendFails(s)
        BY <2>5, TxSendPairs DEF SendFails, Records
  <2> QED
      BY <1>13, <2>1, <2>2, <2>3, <2>4, <2>5 DEF Sending
<1>14. ASSUME NEW t \in Transactions, Transacting(t)
      PROVE  Typed'
  <2>1. CASE Ask(t)
    <3>1. /\ call' \in [Transactions -> Ended \union Open \union {"none", "queued", "connecting"}]
          /\ \A u \in Transactions : call'[u] = "offsets" => call[u] = "offsets"
          BY <2>1 DEF Ask
    <3>2. turns' \in Seq(Transactions)
      <4>1. turns' = turns \/ turns' = Append(turns, t)
            BY <2>1 DEF Ask
      <4>2. turns \in Seq(Transactions)
            OBVIOUS
      <4> HIDE DEF Typed
      <4> QED
          BY <4>1, <4>2
    <3>3. UNCHANGED <<adapter, broker, lifecycle, send, told, lost, plain, faults>>
          BY <2>1 DEF Ask
    <3> QED
        BY <3>1, <3>2, <3>3 DEF Records
  <2>2. CASE Start(t)
        BY <2>2, TxSendPairs DEF Start, EnsureConnected, JoinConnect, Refused, IsClosed, Records
  <2>3. CASE Begin(t)
    <3>1. /\ call' \in [Transactions -> Ended \union Open \union {"none", "queued", "connecting"}]
          /\ \A u \in Transactions : call'[u] = "offsets" => call[u] = "offsets"
          BY <2>3 DEF Begin
    <3>2. told' \subseteq Transactions
          BY <2>3 DEF Begin
    <3>3. /\ fenced' \in BOOLEAN /\ overdue' \in BOOLEAN
          /\ producer' \in {"none", "current", "fenced"}
          BY <2>3 DEF Begin, FencedAtBegin
    <3>4. UNCHANGED <<client, discarded, broker, lifecycle, turns, send, lost, plain, faults>>
          BY <2>3 DEF Begin, FencedAtBegin
    <3> QED
        BY <3>1, <3>2, <3>3, <3>4 DEF Records
  <2>4. CASE Opened(t)
    <3>1. /\ call' \in [Transactions -> Ended \union Open \union {"none", "queued", "connecting"}]
          /\ \A u \in Transactions : call'[u] = "offsets" => call[u] = "offsets"
          BY <2>4 DEF Opened
    <3>2. /\ overdue' \in BOOLEAN /\ producer' \in {"none", "current", "fenced"}
          /\ holder' \in {"nobody", "harbor", "other"} /\ open' \subseteq Records
          /\ UNCHANGED <<client, fenced, discarded, visible, takes>>
          BY <2>4 DEF Opened, Reopen, Initialize
    <3>3. UNCHANGED <<lifecycle, turns, send, told, lost, plain, faults>>
          BY <2>4 DEF Opened
    <3> QED
        BY <3>1, <3>2, <3>3 DEF Records
  <2>5. CASE BeginFails(t) \/ BeginAgain(t)
    <3>1. /\ call' \in [Transactions -> Ended \union Open \union {"none", "queued", "connecting"}]
          /\ \A u \in Transactions : call'[u] = "offsets" => call[u] = "offsets"
          BY <2>5 DEF BeginFails, BeginAgain
    <3>2. producer' \in {"none", "current", "fenced"} /\ faults' \in 0..MaxFaults
          BY <2>5 DEF BeginFails, BeginAgain
    <3>3. UNCHANGED <<client, fenced, discarded, overdue, broker, lifecycle, turns, send, told, lost, plain>>
          BY <2>5 DEF BeginFails, BeginAgain
    <3> QED
        BY <3>1, <3>2, <3>3 DEF Records
  <2>6. CASE FunctionReturns(t)
        BY <2>6, TxSendPairs DEF FunctionReturns, Records
  <2>7. CASE FunctionThrows(t)
        BY <2>7, TxSendPairs DEF FunctionThrows, Records
  <2>8. CASE SendsSettle(t)
    <3>1. call' \in [Transactions -> Ended \union Open \union {"none", "queued", "connecting"}]
          BY <2>8 DEF SendsSettle
    <3>2. \A u \in Transactions : call'[u] = "offsets" => u \in Consuming
          BY <2>8 DEF SendsSettle
    <3>3. UNCHANGED <<adapter, broker, lifecycle, turns, send, told, lost, plain, faults>>
          BY <2>8 DEF SendsSettle
    <3> QED
        BY <3>1, <3>2, <3>3 DEF Records
  <2>9. CASE OffsetsLand(t)
        BY <2>9, TxSendPairs DEF OffsetsLand, Add, Answers, Records
  <2>10. CASE CommitLands(t)
    <3>1. /\ call' \in [Transactions -> Ended \union Open \union {"none", "queued", "connecting"}]
          /\ \A u \in Transactions : call'[u] = "offsets" => call[u] = "offsets"
          BY <2>10 DEF CommitLands
    <3>2. lost' \subseteq Transactions /\ faults' \in 0..MaxFaults
          BY <2>10 DEF CommitLands
    <3>3. open' = {} /\ visible' \subseteq Records /\ UNCHANGED <<holder, takes>>
          BY <2>10 DEF CommitLands, CommitOpen
    <3>4. UNCHANGED <<adapter, lifecycle, turns, send, told, plain>>
          BY <2>10 DEF CommitLands
    <3> QED
        BY <3>1, <3>2, <3>3, <3>4 DEF Records
  <2>11. CASE StepFails(t)
        BY <2>11, TxSendPairs DEF StepFails, Records
  <2>12. CASE StepFenced(t)
        BY <2>12, TxSendPairs DEF StepFenced, Fail, Discard, IsFence, AnswersFenced, Records
  <2>13. CASE Unwind(t)
        BY <2>13, TxSendPairs DEF Unwind, Records
  <2>14. CASE Abort(t)
        BY <2>14, TxSendPairs DEF Abort, AbortOpen, Fail, Discard, IsFence, AbortFails, Answers, AnswersFenced, Records
  <2> QED
      BY <1>14, <2>1, <2>2, <2>3, <2>4, <2>5, <2>6, <2>7, <2>8, <2>9, <2>10, <2>11, <2>12, <2>13, <2>14 DEF Transacting
<1>15. ASSUME NEW r \in TxSends, TxSending(r)
      PROVE  Typed'
  <2>1. CASE TxSend(r)
        BY <2>1, TxSendPairs DEF TxSend, Records
  <2>2. CASE TxSendLands(r)
    <3>1. send' \in [TxSends -> Unsettled \union {"none", "acked", "failed", "refused"}]
      <4>1. \E next \in {"acked", "failed"} : send' = [send EXCEPT ![r] = next]
            BY <2>2 DEF TxSendLands
      <4> QED
          BY <4>1
    <3>2. /\ open' \subseteq Records /\ UNCHANGED <<holder, visible, takes>>
          /\ faults' \in 0..MaxFaults
          BY <2>2 DEF TxSendLands, Add, Records
    <3>3. UNCHANGED <<adapter, lifecycle, call, turns, told, lost, plain>>
          BY <2>2 DEF TxSendLands
    <3> QED
        BY <3>1, <3>2, <3>3 DEF Records
  <2>3. CASE TxSendFails(r)
        BY <2>3, TxSendPairs DEF TxSendFails, Records
  <2>4. CASE TxSendFenced(r)
        BY <2>4, TxSendPairs DEF TxSendFenced, Discard, IsFence, AnswersFenced, Records
  <2>5. CASE TxSendDropped(r)
    <3>1. fenced' \in BOOLEAN
      BY <2>5 DEF TxSendDropped
    <3>2. told' \subseteq Transactions
      BY <2>5, TxSendPairs DEF TxSendDropped
    <3>3. send' \in [TxSends -> Unsettled \union {"none", "acked", "failed", "refused"}]
      BY <2>5 DEF TxSendDropped
    <3>5. UNCHANGED <<client, producer, discarded, overdue, broker, lifecycle, call, turns, lost, plain, faults>>
      BY <2>5 DEF TxSendDropped
    <3>4. QED BY <3>1, <3>2, <3>3, <3>5 DEF Records
  <2> QED
      BY <1>15, <2>1, <2>2, <2>3, <2>4, <2>5 DEF TxSending
<1>16. CASE Overdue
      BY <1>16 DEF Overdue, Records
<1>17. CASE OtherInstance
      BY <1>17 DEF OtherInstance, OtherTakes, Lose, Records
<1>18. CASE TimesOut
      BY <1>18 DEF TimesOut, BrokerTimesOut, Lose, Records
<1> QED
    BY <1>1, <1>2, <1>3, <1>4, <1>5, <1>6, <1>7, <1>8, <1>9, <1>10, <1>11, <1>12, <1>13, <1>14, <1>15, <1>16, <1>17, <1>18 DEF Next, Connection, Closing

-----------------------------------------------------------------------------
(* The queue. *)

\* A call that runs on the client is the only one.
LEMMA Alone ==
    ASSUME Typed, QueueOrder,
           NEW t \in Transactions, call[t] \in Active,
           NEW u \in Transactions, call[u] \in Active
    PROVE  t = u
<1> USE DEF Ended, Open, Active, QueueOrder
<1>1. PICK i \in DOMAIN turns : turns[i] = t
      OBVIOUS
<1>2. PICK j \in DOMAIN turns : turns[j] = u
      OBVIOUS
<1>3. i \in Nat /\ j \in Nat
      BY DEF Typed, TypeOK
<1>4. ~(i < j)
  <2> SUFFICES ASSUME i < j PROVE FALSE
      OBVIOUS
  <2>1. t \in Before(u)
        BY <1>1, <1>2 DEF Before
  <2> QED
      BY <2>1 DEF Turn
<1>5. ~(j < i)
  <2> SUFFICES ASSUME j < i PROVE FALSE
      OBVIOUS
  <2>1. u \in Before(t)
        BY <1>1, <1>2 DEF Before
  <2> QED
      BY <2>1 DEF Turn
<1> QED
    BY <1>1, <1>2, <1>3, <1>4, <1>5

\* What no step does to a call, but asking for it: bring it to life or back
\* to life, or let it take the client before its turn.
CallsKept ==
    /\ turns' = turns
    /\ \A u \in Transactions :
          /\ call'[u] = "none" <=> call[u] = "none"
          /\ call[u] \in Ended => call'[u] \in Ended
          /\ call'[u] \in Active => call[u] \in Active \/ Turn(u)

LEMMA CallSteps ==
    ASSUME Typed, [Next]_vars
    PROVE  CallsKept \/ \E t \in Transactions : Ask(t)
<1> USE DEF Typed, TypeOK, CallsKept, Ended, Open, Active, Goto, adapter, broker, lifecycle, running
<1>1. CASE UNCHANGED vars
      BY <1>1 DEF vars
<1>2. CASE Connection
      BY <1>2 DEF Connection, Connect, ConnectLands, ConnectSettles, LateRelease, ConnectFails,
                  Waiting, SendsWaiting
<1>3. CASE Closing
  <2>1. CASE Drained
        BY <2>1 DEF Drained, Close, Queued
  <2>2. CASE ~Drained
        BY <1>3, <2>2 DEF Closing, Shutdown, ConsumersStopped, ConnectWaited, Disconnected, Expire
  <2> QED
      BY <2>1, <2>2
<1>4. ASSUME NEW s \in Sends, Sending(s)
      PROVE  CallsKept
      BY <1>4 DEF Sending, SendBegins, SendEncoded, SendTries, SendAcknowledged, SendFails
<1>5. ASSUME NEW t \in Transactions, Transacting(t), ~Ask(t)
      PROVE  CallsKept
  <2>1. CASE Start(t)
        BY <2>1 DEF Start
  <2>2. CASE Begin(t)
        BY <2>2 DEF Begin
  <2>3. CASE Opened(t) \/ BeginFails(t) \/ BeginAgain(t)
        BY <2>3 DEF Opened, Beginning, BeginFails, BeginAgain
  <2>4. CASE FunctionReturns(t) \/ FunctionThrows(t) \/ SendsSettle(t)
        BY <2>4 DEF FunctionReturns, FunctionThrows, SendsSettle
  <2>5. CASE OffsetsLand(t) \/ CommitLands(t) \/ StepFails(t) \/ StepFenced(t)
        BY <2>5 DEF OffsetsLand, CommitLands, StepFails, StepFenced
  <2>6. CASE Unwind(t) \/ Abort(t)
        BY <2>6 DEF Unwind, Abort
  <2> QED
      BY <1>5, <2>1, <2>2, <2>3, <2>4, <2>5, <2>6 DEF Transacting
<1>6. ASSUME NEW r \in TxSends, TxSending(r)
      PROVE  CallsKept
      BY <1>6 DEF TxSending, TxSend, TxSendLands, TxSendFails, TxSendFenced, TxSendDropped
<1>7. CASE Overdue \/ OtherInstance \/ TimesOut
      BY <1>7 DEF Overdue, OtherInstance, TimesOut
<1> QED
    BY <1>1, <1>2, <1>3, <1>4, <1>5, <1>6, <1>7 DEF Next

LEMMA QueueInit == Init => QueueOrder
BY DEF Init, QueueOrder, Ended, Open, Active

LEMMA QueueStep == Typed /\ Typed' /\ QueueOrder /\ [Next]_vars => QueueOrder'
<1> SUFFICES ASSUME Typed, Typed', QueueOrder, [Next]_vars
             PROVE  QueueOrder'
    OBVIOUS
<1> USE DEF Ended, Open, Active
<1>1. CASE CallsKept
  <2>1. \A t \in Transactions : Turn(t) => Turn(t)'
        BY <1>1 DEF CallsKept, Turn, Before, Typed, TypeOK
  <2> QED
      BY <1>1, <2>1 DEF CallsKept, QueueOrder, Typed, TypeOK
<1>2. ASSUME NEW t \in Transactions, Ask(t)
      PROVE  QueueOrder'
  <2>1. CASE closed
        BY <1>2, <2>1 DEF Ask, Goto, QueueOrder, Typed, TypeOK, Turn, Before
  <2>2. CASE ~closed
    <3>1. /\ turns' = Append(turns, t)
          /\ call' = [call EXCEPT ![t] = "queued"]
          /\ call[t] = "none"
          BY <1>2, <2>2 DEF Ask, Goto
    <3>2. /\ turns \in Seq(Transactions) /\ Len(turns) \in Nat
          /\ Len(turns') = Len(turns) + 1
          /\ \A i \in 1..Len(turns) : turns'[i] = turns[i]
          /\ turns'[Len(turns) + 1] = t
          BY <3>1 DEF Typed, TypeOK
    <3>3. DOMAIN turns = 1..Len(turns) /\ DOMAIN turns' = 1..(Len(turns) + 1)
          BY <3>1, <3>2 DEF Typed, TypeOK
    <3>4. \A i \in DOMAIN turns : turns[i] # t
          BY <3>1 DEF QueueOrder
    <3>5. \A u \in Transactions : u # t => call'[u] = call[u]
          BY <3>1 DEF Typed, TypeOK
    <3>6. call'[t] = "queued"
          BY <3>1 DEF Typed, TypeOK
    <3>7. \A i, j \in DOMAIN turns' : turns'[i] = turns'[j] => i = j
          BY <3>2, <3>3, <3>4 DEF QueueOrder
    <3>8. \A i \in DOMAIN turns' : call'[turns'[i]] # "none"
          BY <3>2, <3>3, <3>4, <3>5, <3>6 DEF QueueOrder
    <3>9. \A u \in Transactions : call'[u] \notin Ended \union {"none"} =>
             \E i \in DOMAIN turns' : turns'[i] = u
          BY <3>2, <3>3, <3>5 DEF QueueOrder
    <3>10. ASSUME NEW u \in Transactions, call'[u] \in Active
           PROVE  Turn(u)'
      <4>1. u # t /\ call[u] \in Active
            BY <3>5, <3>6, <3>10
      <4>2. ASSUME NEW v \in Before(u)'
            PROVE  call'[v] \in Ended
        <5>1. PICK i \in DOMAIN turns', k \in DOMAIN turns' : v = turns'[i] /\ turns'[k] = u /\ i < k
              BY <4>2 DEF Before
        <5>2. k \in DOMAIN turns /\ i \in DOMAIN turns
              BY <3>2, <3>3, <4>1, <5>1
        <5>3. v \in Before(u) /\ v \in Transactions /\ v # t
              BY <3>2, <3>3, <3>4, <5>1, <5>2 DEF Before
        <5> QED
            BY <3>5, <4>1, <5>3 DEF QueueOrder, Turn
      <4> QED
          BY <4>2 DEF Turn
    <3> QED
        BY <3>7, <3>8, <3>9, <3>10 DEF QueueOrder
  <2> QED
      BY <2>1, <2>2
<1> QED
    BY <1>1, <1>2, CallSteps

-----------------------------------------------------------------------------
(* The sends of a transaction. *)

LEMMA SendsInit == Init => SendsInside
BY DEF Init, SendsInside, Unsettled

LEMMA SendsStep == Typed /\ Typed' /\ SendsInside /\ [Next]_vars => SendsInside'
<1> SUFFICES ASSUME Typed, Typed', SendsInside, [Next]_vars
             PROVE  SendsInside'
    OBVIOUS
<1> USE TxSendPairs
    DEF Typed, TypeOK, SendsInside, Ended, Open, InProgress, Unsettled, Goto, adapter, broker, lifecycle, running
<1>1. CASE UNCHANGED vars
      BY <1>1 DEF vars
<1>2. CASE Connection
      BY <1>2 DEF Connection, Connect, ConnectLands, ConnectSettles, LateRelease, ConnectFails,
                  Waiting, SendsWaiting
<1>3. CASE Closing
  <2>1. CASE Drained
        BY <2>1 DEF Drained, Close, Queued
  <2>2. CASE ~Drained
        BY <1>3, <2>2 DEF Closing, Shutdown, ConsumersStopped, ConnectWaited, Disconnected, Expire
  <2> QED
      BY <2>1, <2>2
<1>4. ASSUME NEW s \in Sends, Sending(s)
      PROVE  SendsInside'
      BY <1>4 DEF Sending, SendBegins, SendEncoded, SendTries, SendAcknowledged, SendFails
<1>5. ASSUME NEW t \in Transactions, Transacting(t)
      PROVE  SendsInside'
  <2>1. CASE Ask(t) \/ Start(t)
        BY <2>1 DEF Ask, Start
  <2>2. CASE Begin(t)
        BY <2>2 DEF Begin
  <2>3. CASE Opened(t) \/ BeginFails(t) \/ BeginAgain(t)
        BY <2>3 DEF Opened, Beginning, BeginFails, BeginAgain
  <2>4. CASE FunctionReturns(t) \/ FunctionThrows(t)
        BY <2>4 DEF FunctionReturns, FunctionThrows
  <2>5. CASE SendsSettle(t)
        BY <2>5 DEF SendsSettle, SendsOf
  <2>6. CASE OffsetsLand(t) \/ CommitLands(t) \/ StepFails(t) \/ StepFenced(t)
        BY <2>6 DEF OffsetsLand, CommitLands, StepFails, StepFenced
  <2>7. CASE Unwind(t)
        BY <2>7 DEF Unwind, SendsOf
  <2>8. CASE Abort(t)
        BY <2>8 DEF Abort
  <2> QED
      BY <1>5, <2>1, <2>2, <2>3, <2>4, <2>5, <2>6, <2>7, <2>8 DEF Transacting
<1>6. ASSUME NEW r \in TxSends, TxSending(r)
      PROVE  SendsInside'
  <2>1. CASE TxSend(r)
        BY <2>1 DEF TxSend
  <2>2. CASE TxSendLands(r) \/ TxSendFails(r)
        BY <2>2 DEF TxSendLands, TxSendFails
  <2>3. CASE TxSendFenced(r) \/ TxSendDropped(r)
        BY <2>3 DEF TxSendFenced, TxSendDropped
  <2> QED
      BY <1>6, <2>1, <2>2, <2>3 DEF TxSending
<1>7. CASE Overdue \/ OtherInstance \/ TimesOut
      BY <1>7 DEF Overdue, OtherInstance, TimesOut
<1> QED
    BY <1>1, <1>2, <1>3, <1>4, <1>5, <1>6, <1>7 DEF Next

-----------------------------------------------------------------------------
(* The connection and the shutdown. *)

LEMMA ConnectedInit == Init => Connected
BY DEF Init, AdapterInit, Connected, IsClosed, Open

LEMMA ConnectedStep == Typed /\ Connected /\ [Next]_vars => Connected'
<1> SUFFICES ASSUME Typed, Connected, [Next]_vars
             PROVE  Connected'
    OBVIOUS
<1> USE DEF Typed, TypeOK, Connected, IsClosed, Ended, Open, Goto, adapter, broker, lifecycle, running
<1>1. CASE UNCHANGED vars
      BY <1>1 DEF vars
<1>2. CASE Connect
      BY <1>2 DEF Connect, JoinConnect
<1>3. CASE ConnectLands
      BY <1>3 DEF ConnectLands, OpenConnection
<1>4. CASE ConnectSettles
      BY <1>4 DEF ConnectSettles, Disconnect
<1>5. CASE LateRelease
      BY <1>5 DEF LateRelease
<1>6. CASE ConnectFails
      BY <1>6 DEF ConnectFails, Waiting
<1>7. CASE Drained
      BY <1>7 DEF Drained, Close, Disconnect, Queued
<1>8. CASE Closing /\ ~Drained
      BY <1>8 DEF Closing, Shutdown, ConsumersStopped, ConnectWaited, Disconnected, Expire
<1>9. ASSUME NEW s \in Sends, Sending(s)
      PROVE  Connected'
  <2>1. CASE SendEncoded(s)
        BY <2>1 DEF SendEncoded, EnsureConnected, JoinConnect, Refused
  <2>2. CASE ~SendEncoded(s)
        BY <1>9, <2>2 DEF Sending, SendBegins, SendTries, SendAcknowledged, SendFails
  <2> QED
      BY <2>1, <2>2
<1>10. ASSUME NEW t \in Transactions, Transacting(t)
       PROVE  Connected'
  <2>1. CASE Ask(t)
        BY <2>1 DEF Ask
  <2>2. CASE Start(t)
        BY <2>2 DEF Start, EnsureConnected, JoinConnect, Refused
  <2>3. CASE Begin(t)
        BY <2>3 DEF Begin, Ensured, FencedAtBegin
  <2>4. CASE Opened(t)
        BY <2>4 DEF Opened, Reopen
  <2>5. CASE BeginFails(t) \/ BeginAgain(t)
        BY <2>5 DEF Beginning, BeginFails, BeginAgain
  <2>6. CASE FunctionReturns(t) \/ FunctionThrows(t) \/ SendsSettle(t) \/ Unwind(t)
        BY <2>6 DEF FunctionReturns, FunctionThrows, SendsSettle, Unwind
  <2>7. CASE OffsetsLand(t) \/ CommitLands(t) \/ StepFails(t)
        BY <2>7 DEF OffsetsLand, CommitLands, StepFails
  <2>8. CASE StepFenced(t)
        BY <2>8 DEF StepFenced, Fail, Discard
  <2>9. CASE Abort(t)
        BY <2>9 DEF Abort, Fail, AbortFails, Discard
  <2> QED
      BY <1>10, <2>1, <2>2, <2>3, <2>4, <2>5, <2>6, <2>7, <2>8, <2>9 DEF Transacting
<1>11. ASSUME NEW r \in TxSends, TxSending(r)
       PROVE  Connected'
       BY <1>11 DEF TxSending, TxSend, TxSendLands, TxSendFails, TxSendFenced, TxSendDropped, Discard
<1>12. CASE Overdue
       BY <1>12 DEF Overdue
<1>13. CASE OtherInstance
       BY <1>13 DEF OtherInstance, OtherTakes, Lose
<1>14. CASE TimesOut
       BY <1>14 DEF TimesOut, BrokerTimesOut, Lose
<1> QED
    BY <1>1, <1>2, <1>3, <1>4, <1>5, <1>6, <1>7, <1>8, <1>9, <1>10, <1>11, <1>12, <1>13, <1>14
    DEF Next, Connection

-----------------------------------------------------------------------------
(* Fences and timeouts. *)

LEMMA FenceInit == Init => FenceKnown
BY DEF Init, AdapterInit, BrokerInit, FenceKnown

LEMMA FenceStep ==
    ASSUME Typed, Typed', QueueOrder, SendsInside, Connected, OpenLedger, FenceKnown, [Next]_vars
    PROVE  FenceKnown'
<1> USE TxSendPairs
    DEF Typed, TypeOK, FenceKnown, InProgress, Ended, Open, Unsettled, Goto, adapter, broker, lifecycle, running
<1>1. CASE UNCHANGED vars
      BY <1>1 DEF vars
<1>2. CASE Connect
      BY <1>2 DEF Connect, JoinConnect
<1>3. CASE ConnectLands
      BY <1>3 DEF ConnectLands, OpenConnection, Initialize
<1>4. CASE ConnectSettles
      BY <1>4 DEF ConnectSettles, Disconnect
<1>5. CASE LateRelease
      BY <1>5 DEF LateRelease
<1>6. CASE ConnectFails
      BY <1>6 DEF ConnectFails, Waiting
<1>7. CASE Drained
      BY <1>7 DEF Drained, Close, Disconnect, Queued
<1>8. CASE Closing /\ ~Drained
      BY <1>8 DEF Closing, Shutdown, ConsumersStopped, ConnectWaited, Disconnected, Expire
<1>9. ASSUME NEW s \in Sends, Sending(s)
      PROVE  FenceKnown'
  <2>1. CASE SendEncoded(s)
        BY <2>1 DEF SendEncoded, EnsureConnected, JoinConnect
  <2>2. CASE ~SendEncoded(s)
        BY <1>9, <2>2 DEF Sending, SendBegins, SendTries, SendAcknowledged, SendFails
  <2> QED
      BY <2>1, <2>2
<1>10. ASSUME NEW t \in Transactions, Transacting(t)
       PROVE  FenceKnown'
  <2>1. CASE Ask(t)
        BY <2>1 DEF Ask
  <2>2. CASE Start(t)
        BY <2>2 DEF Start, EnsureConnected, JoinConnect
  <2>3. CASE Begin(t)
    <3>1. \A u \in Transactions : call[u] \in Active => u = t
          BY <2>3, Alone DEF Begin, Active
    <3> QED
        BY <2>3, <3>1 DEF Begin, Ensured, FencedAtBegin, Active
  <2>4. CASE Opened(t)
        BY <2>4 DEF Opened, Reopen, Initialize
  <2>5. CASE BeginFails(t) \/ BeginAgain(t)
        BY <2>5 DEF Beginning, BeginFails, BeginAgain
  <2>6. CASE FunctionReturns(t) \/ FunctionThrows(t) \/ SendsSettle(t) \/ Unwind(t)
        BY <2>6 DEF FunctionReturns, FunctionThrows, SendsSettle, Unwind
  <2>7. CASE OffsetsLand(t)
        BY <2>7 DEF OffsetsLand, Add, Answers
  <2>8. CASE CommitLands(t)
        BY <2>8 DEF CommitLands, CommitOpen, Answers
  <2>9. CASE StepFails(t)
        BY <2>9 DEF StepFails
  <2>10. CASE StepFenced(t)
    <3>1. \A u \in Transactions : call[u] \in Active => u = t
          BY <2>10, Alone DEF StepFenced, Active
    <3> QED
        BY <2>10, <3>1 DEF StepFenced, AnswersFenced, Fail, Discard, IsFence, Active, Connected
  <2>11. CASE Abort(t)
    <3>1. \A u \in Transactions : call[u] \in Active => u = t
          BY <2>11, Alone DEF Abort, Active
    <3> QED
        BY <2>11, <3>1 DEF Abort, Answers, AnswersFenced, AbortOpen, Fail, AbortFails, Discard, IsFence, Active
  <2> QED
      BY <1>10, <2>1, <2>2, <2>3, <2>4, <2>5, <2>6, <2>7, <2>8, <2>9, <2>10, <2>11 DEF Transacting
<1>11. ASSUME NEW r \in TxSends, TxSending(r)
       PROVE  FenceKnown'
  <2>1. CASE TxSend(r)
        BY <2>1 DEF TxSend
  <2>2. CASE TxSendLands(r)
        BY <2>2 DEF TxSendLands, Add, Answers
  <2>3. CASE TxSendFails(r)
        BY <2>3 DEF TxSendFails
  <2>4. CASE TxSendFenced(r)
        BY <2>4 DEF TxSendFenced, AnswersFenced, Discard, IsFence
  <2>5. CASE TxSendDropped(r)
    <3>1. call[r[1]] \in {"running", "settling", "unwinding"}
          BY <2>5 DEF TxSendDropped, SendsInside
    <3>2. \A u \in Transactions : call[u] \in Active => u = r[1]
          BY <3>1, Alone DEF Active
    <3> QED
        BY <2>5, <3>1, <3>2 DEF TxSendDropped, Active, Connected
  <2> QED
      BY <1>11, <2>1, <2>2, <2>3, <2>4, <2>5 DEF TxSending
<1>12. CASE Overdue
       BY <1>12 DEF Overdue
<1>13. CASE OtherInstance
       BY <1>13 DEF OtherInstance, OtherTakes, Lose
<1>14. CASE TimesOut
       BY <1>14 DEF TimesOut, BrokerTimesOut, Lose, OpenLedger
<1> QED
    BY <1>1, <1>2, <1>3, <1>4, <1>5, <1>6, <1>7, <1>8, <1>9, <1>10, <1>11, <1>12, <1>13, <1>14
    DEF Next, Connection

-----------------------------------------------------------------------------
(* What is open, and what is visible. *)

LEMMA OpenInit == Init => OpenLedger
BY DEF Init, AdapterInit, OpenLedger

LEMMA OpenStep ==
    ASSUME Typed, Typed', QueueOrder, SendsInside, Connected, OpenLedger, VisibleLedger, [Next]_vars
    PROVE  OpenLedger'
<1> USE TxSendPairs
    DEF Typed, TypeOK, OpenLedger, SendsOf, InProgress, Ended, Open, Unsettled, Goto,
        adapter, broker, lifecycle, running
<1>1. CASE UNCHANGED vars
      BY <1>1 DEF vars
<1>2. CASE Connect
      BY <1>2 DEF Connect, JoinConnect
<1>3. CASE ConnectLands
      BY <1>3 DEF ConnectLands, OpenConnection, Initialize, Connected
<1>4. CASE ConnectSettles
      BY <1>4 DEF ConnectSettles, Disconnect
<1>5. CASE LateRelease
      BY <1>5 DEF LateRelease
<1>6. CASE ConnectFails
      BY <1>6 DEF ConnectFails, Waiting
<1>7. CASE Drained
      BY <1>7 DEF Drained, Close, Disconnect, Queued
<1>8. CASE Closing /\ ~Drained
      BY <1>8 DEF Closing, Shutdown, ConsumersStopped, ConnectWaited, Disconnected, Expire
<1>9. ASSUME NEW s \in Sends, Sending(s)
      PROVE  OpenLedger'
      BY <1>9 DEF Sending, SendBegins, SendEncoded, SendTries, SendAcknowledged, SendFails
<1>10. ASSUME NEW t \in Transactions, Transacting(t)
       PROVE  OpenLedger'
  <2>1. CASE Ask(t) \/ Start(t)
        BY <2>1 DEF Ask, Start
  <2>2. CASE Begin(t)
    <3>1. \A r \in SendsOf(t) : send[r] = "none"
          BY <2>2 DEF Begin, SendsInside
    <3> QED
        BY <2>2, <3>1 DEF Begin, FencedAtBegin
  <2>3. CASE Opened(t)
    <3>1. \A r \in SendsOf(t) : send[r] = "none"
          BY <2>3 DEF Opened, SendsInside
    <3>2. \A u \in Transactions : call[u] \in Active => u = t
          BY <2>3, Alone DEF Opened, Active
    <3> QED
        BY <2>3, <3>1, <3>2 DEF Opened, Reopen, Initialize, Active
  <2>4. CASE BeginFails(t) \/ BeginAgain(t)
        BY <2>4 DEF Beginning, BeginFails, BeginAgain
  <2>5. CASE FunctionReturns(t) \/ FunctionThrows(t) \/ Unwind(t)
        BY <2>5 DEF FunctionReturns, FunctionThrows, Unwind
  <2>6. CASE SendsSettle(t)
        BY <2>6 DEF SendsSettle
  <2>7. CASE OffsetsLand(t)
        BY <2>7 DEF OffsetsLand, Add, Answers
  <2>8. CASE CommitLands(t)
    <3>1. \A u \in Transactions : call[u] \in Active => u = t
          BY <2>8, Alone DEF CommitLands, Active
    <3> QED
        BY <2>8, <3>1 DEF CommitLands, CommitOpen, Active
  <2>9. CASE StepFails(t)
        BY <2>9 DEF StepFails
  <2>10. CASE StepFenced(t)
        BY <2>10 DEF StepFenced, Fail, Discard
  <2>11. CASE Abort(t)
    <3>1. \A u \in Transactions : call[u] \in Active => u = t
          BY <2>11, Alone DEF Abort, Active
    <3> QED
        BY <2>11, <3>1 DEF Abort, AbortOpen, Fail, AbortFails, Discard, Active
  <2> QED
      BY <1>10, <2>1, <2>2, <2>3, <2>4, <2>5, <2>6, <2>7, <2>8, <2>9, <2>10, <2>11 DEF Transacting
<1>11. ASSUME NEW r \in TxSends, TxSending(r)
       PROVE  OpenLedger'
  <2>1. CASE TxSend(r)
        BY <2>1 DEF TxSend
  <2>2. CASE TxSendLands(r)
        BY <2>2 DEF TxSendLands, Add, Answers, SendsInside
  <2>3. CASE TxSendFails(r)
        BY <2>3 DEF TxSendFails
  <2>4. CASE TxSendFenced(r)
        BY <2>4 DEF TxSendFenced, Discard
  <2>5. CASE TxSendDropped(r)
        BY <2>5 DEF TxSendDropped
  <2> QED
      BY <1>11, <2>1, <2>2, <2>3, <2>4, <2>5 DEF TxSending
<1>12. CASE Overdue
       BY <1>12 DEF Overdue
<1>13. CASE OtherInstance
       BY <1>13 DEF OtherInstance, OtherTakes, Lose
<1>14. CASE TimesOut
       BY <1>14 DEF TimesOut, BrokerTimesOut, Lose
<1> QED
    BY <1>1, <1>2, <1>3, <1>4, <1>5, <1>6, <1>7, <1>8, <1>9, <1>10, <1>11, <1>12, <1>13, <1>14
    DEF Next, Connection

LEMMA VisibleInit == Init => VisibleLedger
BY DEF Init, BrokerInit, VisibleLedger

\* The commit makes visible exactly what its transaction produced.
LEMMA CommitsWhole ==
    ASSUME Typed, QueueOrder, SendsInside, OpenLedger, VisibleLedger,
           NEW t \in Transactions, CommitLands(t)
    PROVE  /\ \A r \in open : r[1] = t
           /\ Produced(t) \subseteq open
           /\ \A r \in visible : r[1] # t
<1> USE DEF Ended, Open, InProgress, Active
<1>1. call[t] = "committing" /\ Answers(t)
      BY DEF CommitLands
<1>2. \A u \in Transactions : call[u] \in Active => u = t
      BY <1>1, Alone
<1>3. \A r \in open : r[1] \in Transactions /\ call[r[1]] \in InProgress
      BY <1>1, TxSendPairs DEF OpenLedger, Answers, Typed, TypeOK
<1>4. \A r \in SendsOf(t) : send[r] \notin {"none", "refused"} => r \in open
      BY <1>1, TxSendPairs DEF OpenLedger, VisibleLedger, SendsOf, Answers
<1>5. t \in Consuming => <<t, 0>> \in open
      BY <1>1 DEF OpenLedger, Answers
<1> QED
    BY <1>1, <1>2, <1>3, <1>4, <1>5 DEF Produced, VisibleLedger

\* What a transaction produced does not change once it is visible.
LEMMA VisibleStep ==
    ASSUME Typed, Typed', QueueOrder, SendsInside, OpenLedger, VisibleLedger, [Next]_vars
    PROVE  VisibleLedger'
<1> USE TxSendPairs
    DEF Typed, TypeOK, VisibleLedger, Produced, SendsOf, Ended, Open, Unsettled, Goto,
        adapter, broker, lifecycle, running
<1>1. CASE UNCHANGED vars
      BY <1>1 DEF vars
<1>2. CASE Connection
      BY <1>2 DEF Connection, Connect, ConnectLands, ConnectSettles, LateRelease, ConnectFails,
                  Waiting, OpenConnection, Initialize, Disconnect
<1>3. CASE Drained
      BY <1>3 DEF Drained, Close, Disconnect, Queued
<1>4. CASE Closing /\ ~Drained
      BY <1>4 DEF Closing, Shutdown, ConsumersStopped, ConnectWaited, Disconnected, Expire
<1>5. ASSUME NEW s \in Sends, Sending(s)
      PROVE  VisibleLedger'
      BY <1>5 DEF Sending, SendBegins, SendEncoded, SendTries, SendAcknowledged, SendFails
<1>6. ASSUME NEW t \in Transactions, Transacting(t)
      PROVE  VisibleLedger'
  <2>1. CASE Ask(t) \/ Start(t)
        BY <2>1 DEF Ask, Start
  <2>2. CASE Begin(t)
        BY <2>2 DEF Begin, FencedAtBegin
  <2>3. CASE Opened(t)
        BY <2>3 DEF Opened, Reopen, Initialize
  <2>4. CASE BeginFails(t) \/ BeginAgain(t)
        BY <2>4 DEF Beginning, BeginFails, BeginAgain
  <2>5. CASE FunctionReturns(t) \/ FunctionThrows(t) \/ Unwind(t)
        BY <2>5 DEF FunctionReturns, FunctionThrows, Unwind
  <2>6. CASE SendsSettle(t)
        BY <2>6 DEF SendsSettle
  <2>7. CASE OffsetsLand(t)
        BY <2>7 DEF OffsetsLand, Add
  <2>8. CASE CommitLands(t)
        BY <2>8, CommitsWhole DEF CommitLands, CommitOpen
  <2>9. CASE StepFails(t)
        BY <2>9 DEF StepFails
  <2>10. CASE StepFenced(t)
        BY <2>10 DEF StepFenced, Fail
  <2>11. CASE Abort(t)
        BY <2>11 DEF Abort, AbortOpen, Fail, AbortFails
  <2> QED
      BY <1>6, <2>1, <2>2, <2>3, <2>4, <2>5, <2>6, <2>7, <2>8, <2>9, <2>10, <2>11 DEF Transacting
<1>7. ASSUME NEW r \in TxSends, TxSending(r)
      PROVE  VisibleLedger'
  <2>1. CASE TxSend(r)
        BY <2>1 DEF TxSend
  <2>2. CASE TxSendLands(r)
        BY <2>2 DEF TxSendLands, Add, SendsInside
  <2>3. CASE TxSendFails(r)
        BY <2>3 DEF TxSendFails, SendsInside
  <2>4. CASE TxSendFenced(r)
        BY <2>4 DEF TxSendFenced, SendsInside
  <2>5. CASE TxSendDropped(r)
        BY <2>5 DEF TxSendDropped, SendsInside
  <2> QED
      BY <1>7, <2>1, <2>2, <2>3, <2>4, <2>5 DEF TxSending
<1>8. CASE Overdue
      BY <1>8 DEF Overdue
<1>9. CASE OtherInstance
      BY <1>9 DEF OtherInstance, OtherTakes
<1>10. CASE TimesOut
      BY <1>10 DEF TimesOut, BrokerTimesOut
<1> QED
    BY <1>1, <1>2, <1>3, <1>4, <1>5, <1>6, <1>7, <1>8, <1>9, <1>10 DEF Next

-----------------------------------------------------------------------------
(* The theorems. *)

LEMMA IInvInit == Init => IInv
BY TypedInit, QueueInit, SendsInit, ConnectedInit, FenceInit, OpenInit, VisibleInit DEF IInv

LEMMA IInvStep == IInv /\ [Next]_vars => IInv'
<1> SUFFICES ASSUME IInv, [Next]_vars
             PROVE  IInv'
    OBVIOUS
<1>1. Typed'
      BY TypedStep DEF IInv
<1>2. QueueOrder' /\ SendsInside' /\ Connected'
      BY <1>1, QueueStep, SendsStep, ConnectedStep DEF IInv
<1>3. FenceKnown' /\ OpenLedger' /\ VisibleLedger'
      BY <1>1, FenceStep, OpenStep, VisibleStep DEF IInv
<1> QED
    BY <1>1, <1>2, <1>3 DEF IInv

\* The invariant the properties follow from: the state has its shape, calls
\* take turns, sends stay within their transaction, the client is released
\* with the harbor, fences have their reason, and the broker's transaction is
\* the one in progress.
THEOREM Invariance == Spec => []IInv
<1>1. Init => IInv
      BY IInvInit
<1>2. IInv /\ [Next]_vars => IInv'
      BY IInvStep
<1> QED
    BY <1>1, <1>2, PTL DEF Spec

\* The state always has its shape, and the connection's flags agree.
THEOREM HarborTypes == Spec => []TypeOK
<1>1. IInv => TypeOK
      BY DEF IInv, Typed
<1> QED
    BY <1>1, Invariance, PTL

\* Transactions never overlap on the client, for any number of calls
\* (transaction.ts, run and execute).
THEOREM NoOverlap == Spec => []OneAtATime
<1>1. ASSUME IInv
      PROVE  OneAtATime
  <2>1. \A t, u \in Transactions : call[t] \in Open /\ call[u] \in Open => t = u
        BY <1>1, Alone DEF IInv, Active
  <2>2. \A r \in TxSends : send[r] \in Unsettled => call[r[1]] \in Open
        BY <1>1 DEF IInv, SendsInside, Open
  <2> QED
      BY <2>1, <2>2 DEF OneAtATime
<1> QED
    BY <1>1, Invariance, PTL

\* All a transaction produced becomes visible, or none of it, through any
\* number of lost answers, failed aborts, fences and timeouts.
THEOREM Atomicity == Spec => []AllOrNothing
<1>1. ASSUME IInv
      PROVE  AllOrNothing
  <2> SUFFICES ASSUME NEW t \in Transactions, VisibleOf(t) # {}
               PROVE  VisibleOf(t) = Produced(t)
      BY DEF AllOrNothing
  <2>1. PICK r \in visible : r[1] = t
        BY DEF VisibleOf
  <2>2. Produced(t) \subseteq visible
        BY <1>1, <2>1 DEF IInv, VisibleLedger
  <2>3. \A p \in Produced(t) : p[1] = t
        BY DEF Produced, SendsOf
  <2>4. ASSUME NEW p \in VisibleOf(t)
        PROVE  p \in Produced(t)
    <3>1. p \in Records /\ p \in visible /\ p[1] = t
          BY <1>1 DEF VisibleOf, IInv, Typed, TypeOK
    <3>2. CASE p \in TxSends
          BY <1>1, <3>1, <3>2 DEF Produced, SendsOf, IInv, VisibleLedger
    <3>3. CASE p \notin TxSends
          BY <3>1, <3>3 DEF Records, Produced
    <3> QED
        BY <3>2, <3>3
  <2> QED
      BY <2>2, <2>3, <2>4 DEF VisibleOf
<1> QED
    BY <1>1, Invariance, PTL

\* The answer of transaction() is what happened to its records.
THEOREM AnswersHold == Spec => []OutcomeHolds
<1>1. IInv => OutcomeHolds
      BY DEF IInv, VisibleLedger, OutcomeHolds, VisibleOf, Ended
<1> QED
    BY <1>1, Invariance, PTL

\* A timeout is never taken for a fence, for any number of transactions
\* (confluent/index.ts, failed).
THEOREM FenceHasAnotherHolder == Spec => []FencedByAnother
<1>1. IInv => FencedByAnother
      BY DEF IInv, FenceKnown, FencedByAnother
<1> QED
    BY <1>1, Invariance, PTL

\* Once a caller was told it is fenced, the harbor does not take the id back.
THEOREM FenceIsRespected == Spec => FencedStaysQuiet
<1>1. ASSUME IInv, [Next]_vars
      PROVE  [told # {} => ~(holder = "other" /\ holder' = "harbor")]_vars
  <2> SUFFICES ASSUME told # {}, holder = "other", holder' = "harbor"
               PROVE  FALSE
      OBVIOUS
  <2> USE DEF adapter, broker, lifecycle, running
  <2>1. fenced /\ connecting = "done" /\ \A t \in Transactions : call[t] # "opening"
        BY <1>1 DEF IInv, FenceKnown
  <2>2. CASE UNCHANGED vars
        BY <2>2 DEF vars
  <2>3. CASE Connection
        BY <2>1, <2>3 DEF Connection, Connect, ConnectLands, ConnectSettles, LateRelease, ConnectFails, Disconnect
  <2>4. CASE Closing
        BY <2>4 DEF Closing, Shutdown, ConsumersStopped, ConnectWaited, Drained, Close, Disconnect,
                    Disconnected, Expire
  <2>5. ASSUME NEW s \in Sends, Sending(s)
        PROVE  FALSE
        BY <2>5 DEF Sending, SendBegins, SendEncoded, SendTries, SendAcknowledged, SendFails
  <2>6. ASSUME NEW t \in Transactions, Transacting(t)
        PROVE  FALSE
    <3>1. CASE Opened(t)
          BY <2>1, <3>1 DEF Opened
    <3>2. CASE ~Opened(t)
          BY <2>6, <3>2 DEF Transacting, Ask, Start, Begin, FencedAtBegin, Beginning, BeginFails, BeginAgain, FunctionReturns,
                FunctionThrows, SendsSettle, OffsetsLand, Add, CommitLands, CommitOpen, StepFails,
                StepFenced, Fail, Unwind, Abort, AbortOpen, AbortFails
    <3> QED
        BY <3>1, <3>2
  <2>7. ASSUME NEW r \in TxSends, TxSending(r)
        PROVE  FALSE
        BY <2>7 DEF TxSending, TxSend, TxSendLands, Add, TxSendFails, TxSendFenced, TxSendDropped
  <2>8. CASE Overdue \/ OtherInstance \/ TimesOut
        BY <2>8 DEF Overdue, OtherInstance, OtherTakes, TimesOut, BrokerTimesOut
  <2> QED
      BY <1>1, <2>2, <2>3, <2>4, <2>5, <2>6, <2>7, <2>8 DEF Next
<1> QED
    BY <1>1, Invariance, PTL DEF Spec, FencedStaysQuiet

\* After the shutdown no client is left open, and no producer without one.
THEOREM ShutdownReleases == Spec => []ClientReleased
<1>1. IInv => ClientReleased
      BY DEF IInv, Typed, TypeOK, Connected, ClientReleased
<1> QED
    BY <1>1, Invariance, PTL

\* No client is released under a call before the shutdown's timeout.
THEOREM ReleaseWaits == Spec => ReleasedWhenDrained
<1>1. ASSUME IInv, [Next]_vars
      PROVE  [client /\ ~client' => expired \/ ~Producing]_vars
  <2> SUFFICES ASSUME client, ~client'
               PROVE  expired \/ ~Producing
      OBVIOUS
  <2> USE DEF adapter, broker, lifecycle, running
  <2>1. CASE UNCHANGED vars
        BY <2>1 DEF vars
  <2>2. CASE Connection
    <3>1. ConnectSettles /\ state = "closed"
          BY <2>2 DEF Connection, Connect, ConnectLands, OpenConnection, ConnectSettles, LateRelease, ConnectFails
    <3> QED
        BY <1>1, <3>1 DEF ConnectSettles, IInv, Typed, TypeOK, Connected
  <2>3. CASE Closing
    <3>1. Drained
          BY <2>3 DEF Closing, Shutdown, ConsumersStopped, ConnectWaited, Disconnected, Expire
    <3> QED
        BY <3>1 DEF Drained
  <2>4. ASSUME NEW s \in Sends, Sending(s)
        PROVE  FALSE
        BY <2>4 DEF Sending, SendBegins, SendEncoded, SendTries, SendAcknowledged, SendFails
  <2>5. ASSUME NEW t \in Transactions, Transacting(t)
        PROVE  FALSE
        BY <2>5 DEF Transacting, Ask, Start, Begin, FencedAtBegin, Opened, Reopen, Beginning, BeginFails, BeginAgain,
              FunctionReturns, FunctionThrows, SendsSettle, OffsetsLand, CommitLands, StepFails,
              StepFenced, Fail, Unwind, Abort, AbortFails
  <2>6. ASSUME NEW r \in TxSends, TxSending(r)
        PROVE  FALSE
        BY <2>6 DEF TxSending, TxSend, TxSendLands, TxSendFails, TxSendFenced, TxSendDropped
  <2>7. CASE Overdue \/ OtherInstance \/ TimesOut
        BY <2>7 DEF Overdue, OtherInstance, OtherTakes, TimesOut, BrokerTimesOut
  <2> QED
      BY <1>1, <2>1, <2>2, <2>3, <2>4, <2>5, <2>6, <2>7 DEF Next
<1> QED
    BY <1>1, Invariance, PTL DEF Spec, ReleasedWhenDrained
=============================================================================
