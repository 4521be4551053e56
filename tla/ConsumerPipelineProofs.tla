------------------------ MODULE ConsumerPipelineProofs ------------------------
(***************************************************************************)
(* ConsumerPipeline implements the promise of AtLeastOnce, for every       *)
(* ladder, backlog, number of works and bound on the faults, when the      *)
(* client delays the release of a partition until the works on it settled  *)
(* and delivers nothing on a paused partition.                             *)
(***************************************************************************)
EXTENDS ConsumerPipeline, AtLeastOnceProofs

WellBehavedClient == ~Overrun /\ ~PauseLeaks

Busy(w) == work[w].pc # "free"

\* No stop began / this member's commits still count as the owner's.
Serving == state \in {"starting", "running"}
Present == state # "stopped" /\ ~gaveUp

-----------------------------------------------------------------------------
(* The inductive invariant, by what it is about. *)

\* A work is about a record; it is the parked one of its partition when it
\* waits for its delay; it never waits behind another.
WorkShape(w) ==
    /\ ~Busy(w) => work[w] = Free
    /\ work[w].ahead = NONE /\ work[w].pc # "behind"
    /\ Busy(w) => /\ work[w].partition \in Partitions
                  /\ work[w].offset \in 1..Len(log[work[w].partition])
    /\ work[w].pc = "parked" => parked[work[w].partition] = w /\ state = "running"
    /\ Busy(w) /\ state = "starting" => work[w].pc = "arrived"

\* A work that may still reach its handler has every earlier record handled
\* before it; one that commits has its own handled as well.
WorkOrder(w) ==
    /\ Busy(w) /\ (Serving \/ Active(w)) => PrefixHandled(work[w].partition, work[w].offset - 1)
    /\ work[w].pc = "committing" => <<work[w].partition, work[w].offset>> \in handled

\* While the member is present the partition of a work is its own, or about to
\* be released.  In the first case the work is at the client's position and
\* keeps the client from delivering the next record, being the open delivery
\* or having the partition paused.
WorkPlace(w) ==
    Present /\ Busy(w) =>
        LET p == work[w].partition
        IN /\ p \in assigned \union revoking
           /\ committed[p] <= work[w].offset
           /\ p \in assigned => /\ work[w].offset = position[p]
                                /\ work[w].open \/ p \in paused
                                /\ Serving /\ work[w].pc # "arrived" => work[w].revocation = revocations[p]

Alone ==
    Present => \A v, w \in Works :
        Busy(v) /\ Busy(w) /\ work[v].partition = work[w].partition => v = w

\* What the client delivered and the pipeline finished is handled.
PartitionOrder(p) ==
    /\ parked[p] # NONE => work[parked[p]].pc = "parked" /\ work[parked[p]].partition = p
    /\ p \in assigned => p \notin revoking
    /\ Present /\ p \in assigned => committed[p] <= position[p] /\ position[p] <= Len(log[p])
    /\ Serving /\ p \in assigned =>
          /\ PrefixHandled(p, position[p] - 1)
          /\ \/ position[p] = 0 \/ <<p, position[p]>> \in handled
             \/ \E w \in Works : Busy(w) /\ work[w].partition = p

Phases ==
    /\ gaveUp => state \in {"stopping", "stopped"}
    /\ state = "stopped" => assigned \union revoking = {}

Pipe ==
    /\ TypeOK
    /\ Phases
    /\ Alone
    /\ \A w \in Works : WorkShape(w) /\ WorkOrder(w) /\ WorkPlace(w)
    /\ \A p \in Partitions : PartitionOrder(p)

IInv == LedgerInv /\ Pipe

-----------------------------------------------------------------------------
(* What the shapes of a step do to the works. *)

LEMMA WithoutFrees ==
  ASSUME NEW S \in SUBSET Works, \A v \in Works : work[v].ahead = NONE
  PROVE  Without(S) = [v \in Works |-> IF v \in S THEN Free ELSE work[v]]
  BY PipelineAssumption DEF Without

LEMMA FreeRecord ==
  /\ Free \in WorkRecord
  /\ Free.pc = "free" /\ Free.ahead = NONE /\ Free.partition = NONE
  BY DEF Free, WorkRecord, Pcs, ActivePcs

\* The commit a step may carry is one of the record the work w is about.
CommitsOnly(w) ==
    \/ committed' = committed
    \/ committed' = [committed EXCEPT ![work[w].partition] = work[w].offset]

LEMMA SettleKeeps ==
  ASSUME WellBehavedClient, Pipe, LedgerTypeOK', CountersOK', Grows,
         NEW w \in Works, Busy(w), work[w].pc # "parked", Settle(w), CommitsOnly(w),
         Serving /\ work[w].partition \in assigned
            => <<work[w].partition, work[w].offset>> \in handled'
  PROVE  Pipe'
  <1> DEFINE q == work[w].partition
  <1>1. q \in Partitions /\ work[w].offset \in 1..Len(log[q]) /\ Len(log[q]) \in Nat
    BY DEF Pipe, WorkShape, Grows
  <1>2. /\ \A v \in Works : v # w => work'[v] = work[v]
        /\ work'[w] = Free
        /\ work' \in [Works -> WorkRecord]
    <2>1. work' = [v \in Works |-> IF v \in {w} THEN Free ELSE work[v]]
      BY WithoutFrees DEF Settle, Pipe, WorkShape
    <2> QED
      BY <2>1, FreeRecord DEF Pipe, TypeOK
  <1>3. /\ UNCHANGED <<state, stopReason, gaveUp, parked, revocations, assigned, revoking, position>>
        /\ paused' \subseteq paused
        /\ \A p \in Partitions : p # q => (p \in paused' <=> p \in paused)
    BY DEF Settle, Resumed
  <1>4. TypeOK'
    BY <1>2, <1>3 DEF Pipe, TypeOK
  <1>5. Phases'
    BY <1>3 DEF Pipe, Phases
  <1>6. \A v \in Works : Busy(v)' => v # w /\ Busy(v) /\ work'[v] = work[v]
    BY <1>2, FreeRecord DEF Busy
  <1>7. Alone'
    BY <1>3, <1>6 DEF Pipe, Alone, Present
  <1>8. \A v \in Works : WorkShape(v)'
    <2> SUFFICES ASSUME NEW v \in Works PROVE WorkShape(v)'
      OBVIOUS
    <2>1. CASE v = w
      BY <1>2, <2>1, FreeRecord DEF WorkShape, Busy
    <2>2. CASE v # w
      BY <1>2, <1>3, <2>2 DEF Pipe, WorkShape, Busy, Grows
    <2> QED
      BY <2>1, <2>2
  <1>9. \A v \in Works : WorkOrder(v)'
    <2> SUFFICES ASSUME NEW v \in Works PROVE WorkOrder(v)'
      OBVIOUS
    <2>1. CASE v = w
      BY <1>2, <2>1, FreeRecord DEF WorkOrder, Busy, Active, ActivePcs
    <2>2. CASE v # w
      BY <1>2, <1>3, <2>2 DEF Pipe, WorkOrder, Busy, Active, Serving, Grows, PrefixHandled
    <2> QED
      BY <2>1, <2>2
  <1>10. ASSUME NEW v \in Works PROVE WorkPlace(v)'
    <2> SUFFICES ASSUME Present', Busy(v)' PROVE WorkPlace(v)'
      BY DEF WorkPlace
    <2>1. v # w /\ Busy(v) /\ work'[v] = work[v] /\ Present
      BY <1>3, <1>6 DEF Present
    <2>2. work[v].partition # q
      BY <2>1 DEF Pipe, Alone
    <2>3. work[v].partition \in Partitions
      BY <2>1 DEF Pipe, WorkShape
    <2>4. committed'[work[v].partition] = committed[work[v].partition]
      BY <2>2, <2>3, <1>1 DEF CommitsOnly, LedgerTypeOK
    <2>5. WorkPlace(v)
      BY DEF Pipe
    <2> QED
      BY <1>3, <2>1, <2>2, <2>3, <2>4, <2>5 DEF WorkPlace, Serving, Present
  <1>11. ASSUME NEW p \in Partitions PROVE PartitionOrder(p)'
    <2>0. PartitionOrder(p)
      BY DEF Pipe
    <2>1. parked'[p] # NONE => work'[parked'[p]].pc = "parked" /\ work'[parked'[p]].partition = p
      BY <1>2, <1>3, <2>0 DEF PartitionOrder, Pipe, TypeOK
    <2>2. p \in assigned' => p \notin revoking'
      BY <1>3, <2>0 DEF PartitionOrder
    <2>3. Present' /\ p \in assigned' => committed'[p] <= position'[p] /\ position'[p] <= Len(log'[p])
      <3> SUFFICES ASSUME Present, p \in assigned
                   PROVE  committed'[p] <= position[p] /\ position[p] <= Len(log'[p])
        BY <1>3 DEF Present
      <3>1. committed[p] <= position[p] /\ position[p] <= Len(log[p])
        BY <2>0 DEF PartitionOrder
      <3>2. position[p] <= Len(log'[p])
        BY <3>1 DEF Grows, Pipe, TypeOK
      <3>3. CASE p # q
        BY <3>1, <3>2, <3>3, <1>1 DEF CommitsOnly, Pipe, TypeOK, LedgerTypeOK
      <3>4. CASE p = q
        <4>1. work[w].offset = position[p]
          BY <3>4 DEF Pipe, WorkPlace
        <4> QED
          BY <4>1, <3>1, <3>2, <3>4, <1>1 DEF CommitsOnly, Pipe, TypeOK, LedgerTypeOK
      <3> QED
        BY <3>3, <3>4
    <2>4. ASSUME Serving', p \in assigned'
          PROVE  /\ PrefixHandled(p, position[p] - 1)'
                 /\ \/ position'[p] = 0 \/ <<p, position'[p]>> \in handled'
                    \/ \E v \in Works : Busy(v)' /\ work'[v].partition = p
      <3>1. Serving /\ p \in assigned /\ Present
        BY <1>3, <2>4 DEF Serving, Present, Pipe, Phases
      <3>2. PrefixHandled(p, position[p] - 1)'
        BY <1>3, <3>1, <2>0 DEF PartitionOrder, PrefixHandled, Grows
      <3>3. CASE \E v \in Works : Busy(v) /\ work[v].partition = p
        <4>1. PICK v \in Works : Busy(v) /\ work[v].partition = p
          BY <3>3
        <4>2. CASE v # w
          BY <3>2, <4>1, <4>2, <1>2 DEF Busy
        <4>3. CASE v = w
          <5>1. work[w].offset = position[p]
            BY <3>1, <4>1, <4>3 DEF Pipe, WorkPlace
          <5> QED
            BY <5>1, <3>1, <3>2, <4>1, <4>3, <1>3
        <4> QED
          BY <4>1, <4>2, <4>3
      <3>4. CASE position[p] = 0 \/ <<p, position[p]>> \in handled
        BY <3>2, <3>4, <1>3 DEF Grows
      <3> QED
        BY <3>1, <3>3, <3>4, <2>0 DEF PartitionOrder
    <2> QED
      BY <2>1, <2>2, <2>3, <2>4 DEF PartitionOrder
  <1> QED
    BY <1>4, <1>5, <1>7, <1>8, <1>9, <1>10, <1>11 DEF Pipe

LEMMA GotoKeeps ==
  ASSUME WellBehavedClient, Pipe, LedgerTypeOK', CountersOK', Grows, UNCHANGED committed,
         NEW w \in Works, NEW pc \in ActivePcs, Goto(w, pc),
         Busy(w), work[w].pc \notin {"parked", "arrived"}, Active(w) \/ Serving,
         pc = "committing" => <<work[w].partition, work[w].offset>> \in handled'
  PROVE  Pipe'
  <1>1. /\ \A v \in Works : v # w => work'[v] = work[v]
        /\ work'[w] = [work[w] EXCEPT !.pc = pc]
        /\ work' \in [Works -> WorkRecord]
    BY DEF Goto, Pipe, TypeOK, WorkRecord, Pcs
  <1>2. /\ work'[w].pc = pc /\ work'[w].partition = work[w].partition
        /\ work'[w].offset = work[w].offset /\ work'[w].open = work[w].open
        /\ work'[w].revocation = work[w].revocation /\ work'[w].ahead = work[w].ahead
    BY <1>1 DEF Pipe, TypeOK, WorkRecord
  <1>3. UNCHANGED <<state, stopReason, gaveUp, parked, revocations,
                    paused, assigned, revoking, position>>
    BY DEF Goto, client
  <1>4. pc # "free" /\ pc # "parked" /\ pc # "behind" /\ pc # "arrived"
    BY DEF ActivePcs
  <1>5. TypeOK'
    BY <1>1, <1>3 DEF Pipe, TypeOK
  <1>6. Phases'
    BY <1>3 DEF Pipe, Phases
  <1>7. \A v \in Works : Busy(v)' <=> Busy(v)
    BY <1>1, <1>2, <1>4 DEF Busy
  <1>8. \A v \in Works : /\ work'[v].partition = work[v].partition
                         /\ work'[v].offset = work[v].offset
    BY <1>1, <1>2
  <1>9. Alone'
    BY <1>3, <1>7, <1>8 DEF Pipe, Alone, Present
  <1>10. ASSUME NEW v \in Works PROVE WorkShape(v)'
    <2>1. CASE v = w
      BY <1>2, <1>3, <1>4, <2>1 DEF Pipe, WorkShape, Busy, Grows
    <2>2. CASE v # w
      BY <1>1, <1>3, <2>2 DEF Pipe, WorkShape, Busy, Grows
    <2> QED
      BY <2>1, <2>2
  <1>11. ASSUME NEW v \in Works PROVE WorkOrder(v)'
    <2>1. CASE v = w
      BY <1>2, <1>3, <2>1 DEF Pipe, WorkOrder, Busy, Active, Serving, Grows, PrefixHandled
    <2>2. CASE v # w
      BY <1>1, <1>3, <2>2 DEF Pipe, WorkOrder, Busy, Active, Serving, Grows, PrefixHandled
    <2> QED
      BY <2>1, <2>2
  <1>12. ASSUME NEW v \in Works PROVE WorkPlace(v)'
    <2>0. WorkPlace(v)
      BY DEF Pipe
    <2>1. CASE v = w
      BY <2>0, <1>2, <1>3, <1>4, <2>1 DEF WorkPlace, Busy, Serving, Present
    <2>2. CASE v # w
      BY <2>0, <1>1, <1>3, <2>2 DEF WorkPlace, Busy, Serving, Present
    <2> QED
      BY <2>1, <2>2
  <1>13. ASSUME NEW p \in Partitions PROVE PartitionOrder(p)'
    <2>0. PartitionOrder(p) /\ position[p] \in Nat
      BY DEF Pipe, TypeOK
    <2>1. parked'[p] # NONE => work'[parked'[p]].pc = "parked" /\ work'[parked'[p]].partition = p
      <3>1. parked[p] # NONE => parked[p] \in Works /\ parked[p] # w
        BY <2>0 DEF PartitionOrder, Pipe, TypeOK
      <3> QED
        BY <1>1, <1>3, <2>0, <3>1 DEF PartitionOrder
    <2>2. p \in assigned' => p \notin revoking'
      BY <1>3, <2>0 DEF PartitionOrder
    <2>3. Present' /\ p \in assigned' => committed'[p] <= position'[p] /\ position'[p] <= Len(log'[p])
      BY <1>3, <2>0 DEF PartitionOrder, Present, Grows
    <2>4. ASSUME Serving', p \in assigned'
          PROVE  /\ PrefixHandled(p, position[p] - 1)'
                 /\ \/ position'[p] = 0 \/ <<p, position'[p]>> \in handled'
                    \/ \E v \in Works : Busy(v)' /\ work'[v].partition = p
      BY <1>3, <1>7, <1>8, <2>0, <2>4 DEF PartitionOrder, Serving, PrefixHandled, Grows
    <2> QED
      BY <2>1, <2>2, <2>3, <2>4 DEF PartitionOrder
  <1> QED
    BY <1>5, <1>6, <1>9, <1>10, <1>11, <1>12, <1>13 DEF Pipe

LEMMA StopKeeps ==
  ASSUME WellBehavedClient, Pipe, LedgerTypeOK', CountersOK', Grows, UNCHANGED committed,
         NEW reason \in {"shutdown", "abort", "crash"},
         NEW gone \in SUBSET Works, \A v \in gone : Active(v), StopWith(reason, gone)
  PROVE  Pipe'
  <1> DEFINE ended == IF Drained THEN gone ELSE gone \union Parked
  <1>1. /\ \A v \in Works : work'[v] = IF v \in ended THEN Free ELSE work[v]
        /\ work' \in [Works -> WorkRecord]
    <2>1. \A v \in Works : work[v].ahead = NONE
      BY DEF Pipe, WorkShape
    <2>2. ended \in SUBSET Works
      BY DEF Parked
    <2>3. work' = Without(ended)
      BY DEF StopWith
    <2>4. work' = [v \in Works |-> IF v \in ended THEN Free ELSE work[v]]
      BY <2>1, <2>2, <2>3, WithoutFrees
    <2> QED
      BY <2>4, FreeRecord DEF Pipe, TypeOK
  <1>2. /\ UNCHANGED <<gaveUp, revocations, assigned, revoking, position>>
        /\ state' \in {"stopping", "stopped"} /\ stopReason' \in {NONE, "shutdown", "abort", "crash"}
        /\ parked' \in [Partitions -> Works \union {NONE}]
        /\ paused' = Resumed(gone)
        /\ Present' => Present
    BY DEF StopWith, Drained, Pipe, TypeOK, Present
  <1>3. TypeOK'
    BY <1>1, <1>2 DEF Pipe, TypeOK, Resumed
  <1>4. Phases' /\ ~Serving'
    <2>1. state' = "stopped" => state = "stopped"
      BY DEF StopWith
    <2> QED
      BY <1>2, <2>1 DEF Pipe, Phases, Serving
  <1>5. \A v \in Works : Busy(v)' => v \notin ended /\ Busy(v) /\ work'[v] = work[v]
    BY <1>1, FreeRecord DEF Busy
  <1>6. Alone'
    BY <1>2, <1>5 DEF Pipe, Alone
  <1>7. ASSUME NEW v \in Works PROVE WorkShape(v)'
    <2>1. CASE v \in ended
      BY <1>1, <2>1, FreeRecord DEF WorkShape, Busy
    <2>2. CASE v \notin ended
      <3>1. work'[v] = work[v] /\ WorkShape(v)
        BY <1>1, <2>2 DEF Pipe
      <3>2. work[v].pc # "parked"
        BY <3>1, <2>2 DEF WorkShape, Drained, Parked
      <3> QED
        BY <1>2, <3>1, <3>2 DEF WorkShape, Busy, Grows
    <2> QED
      BY <2>1, <2>2
  <1>8. ASSUME NEW v \in Works PROVE WorkOrder(v)'
    <2>1. CASE v \in ended
      BY <1>1, <1>4, <2>1, FreeRecord DEF WorkOrder, Busy, Active, ActivePcs
    <2>2. CASE v \notin ended
      BY <1>1, <1>4, <2>2 DEF Pipe, WorkOrder, Busy, Active, Grows, PrefixHandled
    <2> QED
      BY <2>1, <2>2
  <1>9. ASSUME NEW v \in Works PROVE WorkPlace(v)'
    <2> SUFFICES ASSUME Present', Busy(v)' PROVE WorkPlace(v)'
      BY DEF WorkPlace
    <2>1. v \notin ended /\ Busy(v) /\ work'[v] = work[v] /\ Present /\ WorkPlace(v)
      BY <1>2, <1>5 DEF Pipe
    <2>2. \A g \in gone : work[g].partition # work[v].partition
      BY <2>1 DEF Pipe, Alone, Active, ActivePcs, Busy
    <2>3. work[v].partition \in paused => work[v].partition \in paused'
      BY <1>2, <2>2 DEF Resumed
    <2> QED
      BY <1>2, <1>4, <2>1, <2>3 DEF WorkPlace
  <1>10. ASSUME NEW p \in Partitions PROVE PartitionOrder(p)'
    <2>0. PartitionOrder(p) /\ position[p] \in Nat
      BY DEF Pipe, TypeOK
    <2>1. parked'[p] # NONE => work'[parked'[p]].pc = "parked" /\ work'[parked'[p]].partition = p
      <3> SUFFICES ASSUME parked'[p] # NONE
                   PROVE  work'[parked'[p]].pc = "parked" /\ work'[parked'[p]].partition = p
        OBVIOUS
      <3>1. Drained /\ parked' = parked
        BY DEF StopWith
      <3>2. parked[p] \in Works /\ work[parked[p]].pc = "parked" /\ work[parked[p]].partition = p
        BY <2>0, <3>1 DEF PartitionOrder, Pipe, TypeOK
      <3>3. parked[p] \notin ended
        BY <3>1, <3>2 DEF Active, ActivePcs
      <3> QED
        BY <1>1, <3>1, <3>2, <3>3
    <2>2. p \in assigned' => p \notin revoking'
      BY <1>2, <2>0 DEF PartitionOrder
    <2>3. Present' /\ p \in assigned' => committed'[p] <= position'[p] /\ position'[p] <= Len(log'[p])
      BY <1>2, <2>0 DEF PartitionOrder, Grows
    <2> QED
      BY <1>4, <2>1, <2>2, <2>3 DEF PartitionOrder
  <1> QED
    BY <1>3, <1>4, <1>6, <1>7, <1>8, <1>9, <1>10 DEF Pipe

\* A delivery is placed in w as the record b: queued behind readiness, begun,
\* or parked.
LEMMA PlaceKeeps ==
  ASSUME WellBehavedClient, Pipe, LedgerTypeOK, CountersOK,
         UNCHANGED <<ledger, state, stopReason, gaveUp, revocations, assigned, revoking, elapsed, faults>>,
         NEW p \in Partitions, NEW w \in Works, NEW b \in WorkRecord,
         work[w].pc = "free" \/ work[w].partition = p, work[w].pc # "parked",
         work' = [work EXCEPT ![w] = b],
         b.partition = p, b.offset \in 1..Len(log[p]), b.ahead = NONE,
         b.pc \notin {"free", "behind", "committing"}, state = "running" \/ b.pc = "arrived",
         b.pc = "arrived" \/ b.revocation = revocations[p],
         \/ b.pc = "parked" /\ parked[p] = NONE /\ parked' = [parked EXCEPT ![p] = w]
               /\ paused' = paused \union {p}
         \/ b.pc # "parked" /\ UNCHANGED <<parked, paused>>,
         Serving \/ b.pc # "arrived" => PrefixHandled(p, b.offset - 1),
         Present => /\ p \in assigned \union revoking
                    /\ committed[p] <= b.offset
                    /\ p \in assigned => b.offset = position'[p] /\ (b.open \/ p \in paused')
                    /\ \A v \in Works : v # w /\ Busy(v) => work[v].partition # p,
         position' \in [Partitions -> Nat], \A r \in Partitions \ {p} : position'[r] = position[r]
  PROVE  Pipe'
  <1>1. /\ \A v \in Works : v # w => work'[v] = work[v]
        /\ work'[w] = b
        /\ work' \in [Works -> WorkRecord]
    BY DEF Pipe, TypeOK
  <1>2. UNCHANGED <<log, committed, handled, done, dead>> /\ Busy(w)'
    BY <1>1 DEF ledger, Busy
  <1>3. TypeOK'
    <2>1. parked' \in [Partitions -> Works \union {NONE}] /\ paused' \subseteq Partitions
      BY DEF Pipe, TypeOK
    <2>2. LedgerTypeOK' /\ CountersOK'
      BY <1>2 DEF LedgerTypeOK, CountersOK
    <2> QED
      BY <1>1, <2>1, <2>2 DEF Pipe, TypeOK
  <1>4. Phases'
    BY DEF Pipe, Phases
  <1>5. \A v \in Works : v # w => (Busy(v)' <=> Busy(v))
    BY <1>1 DEF Busy
  <1>6. Alone'
    BY <1>1, <1>5 DEF Pipe, Alone, Present
  <1>7. ASSUME NEW v \in Works PROVE WorkShape(v)'
    <2>1. CASE v = w
      BY <1>1, <1>2, <2>1 DEF WorkShape, Busy, Pipe, TypeOK
    <2>2. CASE v # w
      <3>1. work'[v] = work[v] /\ WorkShape(v)
        BY <1>1, <2>2 DEF Pipe
      <3>2. work[v].pc = "parked" => work[v].partition \in Partitions /\ parked[work[v].partition] = v
        BY <3>1 DEF WorkShape, Busy
      <3>3. work[v].pc = "parked" => parked'[work[v].partition] = v
        BY <3>2, PipelineAssumption DEF Pipe, TypeOK
      <3> QED
        BY <1>2, <3>1, <3>3 DEF WorkShape, Busy
    <2> QED
      BY <2>1, <2>2
  <1>8. ASSUME NEW v \in Works PROVE WorkOrder(v)'
    <2>1. CASE v = w
      BY <1>1, <1>2, <2>1 DEF WorkOrder, Serving, Active, ActivePcs, PrefixHandled
    <2>2. CASE v # w
      BY <1>1, <1>2, <2>2 DEF Pipe, WorkOrder, Busy, Serving, Active, PrefixHandled
    <2> QED
      BY <2>1, <2>2
  <1>9. ASSUME NEW v \in Works PROVE WorkPlace(v)'
    <2> SUFFICES ASSUME Present', Busy(v)' PROVE WorkPlace(v)'
      BY DEF WorkPlace
    <2>0. Present
      BY DEF Present
    <2>1. CASE v = w
      BY <1>1, <1>2, <2>0, <2>1 DEF WorkPlace
    <2>2. CASE v # w
      <3>1. work'[v] = work[v] /\ Busy(v) /\ WorkPlace(v) /\ work[v].partition # p
        BY <1>1, <1>5, <2>0, <2>2 DEF Pipe
      <3>2. work[v].partition \in Partitions
        BY <3>1 DEF Pipe, WorkShape
      <3>3. position'[work[v].partition] = position[work[v].partition]
        BY <3>1, <3>2
      <3> QED
        BY <1>2, <2>0, <3>1, <3>3 DEF WorkPlace, Serving
    <2> QED
      BY <2>1, <2>2
  <1>10. ASSUME NEW r \in Partitions PROVE PartitionOrder(r)'
    <2>0. PartitionOrder(r)
      BY DEF Pipe
    <2>1. parked'[r] # NONE => work'[parked'[r]].pc = "parked" /\ work'[parked'[r]].partition = r
      <3>1. CASE parked' = parked
        <4>1. parked[r] # NONE => parked[r] \in Works /\ parked[r] # w
          BY <2>0 DEF PartitionOrder, Pipe, TypeOK
        <4> QED
          BY <1>1, <2>0, <3>1, <4>1 DEF PartitionOrder
      <3>2. CASE b.pc = "parked" /\ parked' = [parked EXCEPT ![p] = w]
        <4>1. r # p /\ parked[r] # NONE => parked[r] \in Works /\ parked[r] # w
          BY <2>0 DEF PartitionOrder, Pipe, TypeOK
        <4> QED
          BY <1>1, <2>0, <3>2, <4>1 DEF PartitionOrder, Pipe, TypeOK
      <3> QED
        BY <3>1, <3>2
    <2>2. r \in assigned' => r \notin revoking'
      BY <2>0 DEF PartitionOrder
    <2>3. Present' /\ r \in assigned' => committed'[r] <= position'[r] /\ position'[r] <= Len(log'[r])
      <3>1. CASE r = p
        BY <1>2, <3>1 DEF Present
      <3>2. CASE r # p
        BY <1>2, <2>0, <3>2 DEF Present, PartitionOrder
      <3> QED
        BY <3>1, <3>2
    <2>4. ASSUME Serving', r \in assigned'
          PROVE  /\ PrefixHandled(r, position[r] - 1)'
                 /\ \/ position'[r] = 0 \/ <<r, position'[r]>> \in handled'
                    \/ \E v \in Works : Busy(v)' /\ work'[v].partition = r
      <3>0. Serving /\ Present
        BY <2>4 DEF Serving, Present, Pipe, Phases
      <3>1. CASE r = p
        BY <1>1, <1>2, <2>4, <3>0, <3>1 DEF PrefixHandled
      <3>2. CASE r # p
        <4>1. position'[r] = position[r] /\ r \in assigned
          BY <2>4, <3>2
        <4>2. PrefixHandled(r, position[r] - 1)'
          BY <1>2, <2>0, <3>0, <4>1 DEF PartitionOrder, PrefixHandled
        <4>3. ASSUME NEW v \in Works, Busy(v), work[v].partition = r
              PROVE  Busy(v)' /\ work'[v].partition = r
          <5>1. CASE v = w
            BY <4>3, <5>1, <3>2 DEF Busy
          <5>2. CASE v # w
            BY <1>1, <1>5, <4>3, <5>2
          <5> QED
            BY <5>1, <5>2
        <4> QED
          BY <1>2, <2>0, <3>0, <4>1, <4>2, <4>3 DEF PartitionOrder
      <3> QED
        BY <3>1, <3>2
    <2> QED
      BY <2>1, <2>2, <2>3, <2>4 DEF PartitionOrder
  <1> QED
    BY <1>3, <1>4, <1>6, <1>7, <1>8, <1>9, <1>10 DEF Pipe

-----------------------------------------------------------------------------
(* Every step of the pipeline is a step of the promise. *)

\* A work is about a record of the log.
LEMMA WorkRecordExists ==
  ASSUME Pipe, NEW w \in Works, Busy(w)
  PROVE  /\ work[w].partition \in Partitions
         /\ work[w].offset \in 1..Len(log[work[w].partition])
         /\ work[w].offset \in Nat
  BY DEF Pipe, TypeOK, WorkShape, WorkRecord

LEMMA StepPromise ==
  ASSUME WellBehavedClient, IInv, [Next]_vars
  PROVE  [PromiseNext]_ledger
  <1> USE DEF IInv
  <1>1. ASSUME NEW w \in Works, WorkStep(w) \/ WorkFails(w) \/ HandlerTransacts(w)
        PROVE  [PromiseNext]_ledger
    <2> DEFINE p == work[w].partition
               o == work[w].offset
    <2>0. Active(w) => Busy(w) /\ PrefixHandled(p, o - 1)
      BY DEF Active, ActivePcs, Busy, Pipe, WorkOrder
    <2>1. Active(w) => p \in Partitions /\ o \in 1..Len(log[p]) /\ o \in Nat
      BY <2>0, WorkRecordExists
    <2>2. CASE UNCHANGED ledger
      BY <2>2
    <2>3. CASE HandlerReturns(w)
      <3>1. Active(w) /\ Resolve(p, o)
        BY <2>3 DEF HandlerReturns, Active, ActivePcs
      <3> QED
        BY <2>1, <3>1 DEF PromiseNext, RecordEffect
    <2>4. CASE HandlerTransacts(w)
      <3>1. Active(w) /\ Transact(p, o)
        BY <2>4 DEF HandlerTransacts, Active, ActivePcs
      <3> QED
        BY <2>0, <2>1, <3>1 DEF PromiseNext, RecordEffect
    <2>5. CASE HopAcknowledged(w)
      <3>1. Active(w) /\ ((\E t \in NextLevel(p) : Hop(p, o, t)) \/ DeadLetter(p, o))
        BY <2>5 DEF HopAcknowledged, Active, ActivePcs
      <3> QED
        BY <2>1, <3>1 DEF PromiseNext, RecordEffect
    <2>6. CASE HopFails(w)
      <3>1. /\ Active(w)
            /\ UNCHANGED ledger \/ (\E t \in NextLevel(p) : Copy(p, o, t)) \/ CopyToDlq(p, o)
        BY <2>6 DEF HopFails, Active, ActivePcs
      <3> QED
        BY <2>1, <3>1 DEF PromiseNext, RecordEffect
    <2>7. CASE CommitLands(w)
      <3>1. Active(w) /\ Commit(p, o) /\ <<p, o>> \in handled
        BY <2>7 DEF CommitLands, Active, ActivePcs, Pipe, WorkOrder
      <3>2. PrefixHandled(p, o)
        <4> SUFFICES ASSUME NEW i \in 1..o PROVE <<p, i>> \in handled
          BY DEF PrefixHandled
        <4>1. i = o \/ i \in 1..(o - 1)
          BY <2>1, <3>1
        <4> QED
          BY <2>0, <3>1, <4>1 DEF PrefixHandled
      <3> QED
        BY <2>1, <3>1, <3>2 DEF PromiseNext, RecordEffect
    <2>8. CASE Ready(w) \/ Reenter(w) \/ WakeBehind(w) \/ SleepEnds(w)
      BY <2>2, <2>8 DEF Ready, Reenter, WakeBehind, SleepEnds
    <2>9. CASE Decoded(w) \/ HoldWakes(w) \/ HandlerThrows(w) \/ HandlerAborts(w) \/ Crash(w) \/ CommitFails(w)
      BY <2>2, <2>9 DEF Decoded, HoldWakes, HandlerThrows, HandlerAborts, Crash, CommitFails
    <2> QED
      BY <1>1, <2>3, <2>4, <2>5, <2>6, <2>7, <2>8, <2>9 DEF WorkStep, WorkFails
  <1>2. CASE \E w \in Works, p \in Partitions : Deliver(w, p)
    BY <1>2 DEF Deliver
  <1>3. CASE Started \/ Stop \/ GiveUp \/ Leave \/ Restart \/ Die
    BY <1>3 DEF Started, Stop, GiveUp, Leave, Restart, Die
  <1>4. CASE \E p \in Partitions : Revoke(p) \/ Release(p) \/ Assign(p) \/ Elapse(p)
    BY <1>4 DEF Revoke, Release, Assign, Elapse
  <1>5. ASSUME NEW p \in Partitions, OtherMember(p) PROVE [PromiseNext]_ledger
    <2> DEFINE o == committed[p] + 1
    <2>1. o \in 1..Len(log[p]) /\ committed[p] \in Nat
      <3>1. committed[p] \in Nat /\ log[p] \in Seq(Messages)
        BY DEF LedgerInv, LedgerTypeOK
      <3>2. Len(log[p]) \in Nat /\ o <= Len(log[p])
        BY <1>5, <3>1, LenProperties DEF OtherMember
      <3> QED
        BY <3>1, <3>2
    <2>2. CASE <<p, o>> \in handled /\ Commit(p, o)
      <3>1. \A i \in 1..o : i = o \/ i \in 1..committed[p]
        BY <2>1
      <3>2. PrefixHandled(p, o)
        BY <2>2, <3>1 DEF PrefixHandled, LedgerInv, CommittedHandled
      <3> QED
        BY <2>1, <2>2, <3>2 DEF PromiseNext, RecordEffect
    <2>3. CASE Resolve(p, o) \/ (\E t \in NextLevel(p) : Hop(p, o, t)) \/ DeadLetter(p, o)
      BY <2>1, <2>3 DEF PromiseNext, RecordEffect
    <2> QED
      BY <1>5, <2>2, <2>3 DEF OtherMember
  <1>6. CASE UNCHANGED vars
    BY <1>6 DEF vars
  <1> QED
    BY <1>1, <1>2, <1>3, <1>4, <1>5, <1>6 DEF Next

-----------------------------------------------------------------------------
(* The steps of a work. *)

LEMMA ActiveIs ==
  ASSUME NEW w \in Works, Active(w)
  PROVE  Busy(w) /\ work[w].pc \notin {"parked", "arrived", "behind", "sleeping"}
  BY DEF Active, ActivePcs, Busy

LEMMA ForwardedGoes ==
  ASSUME NEW w \in Works, NEW retryable \in BOOLEAN, Forwarded(w, retryable)
  PROVE  \E pc \in {"retrying", "deadLettering", "crashing"} : Goto(w, pc)
  BY DEF Forwarded

\* A settled record of a revoked partition, or of a consumer that is not
\* running, needs no outcome.
LEMMA LostSettles ==
  ASSUME Pipe, NEW w \in Works, Busy(w), work[w].pc # "arrived",
         Drained \/ revocations[work[w].partition] # work[w].revocation
  PROVE  ~(Serving /\ work[w].partition \in assigned)
  <1>1. Serving => Present /\ ~Drained
    BY DEF Pipe, Phases, Serving, Present, Drained
  <1> QED
    BY <1>1 DEF Pipe, WorkPlace

LEMMA GivenUpIsNotServing ==
  ASSUME Pipe, gaveUp PROVE ~Serving
  BY DEF Pipe, Phases, Serving

LEMMA WaitingKeeps ==
  ASSUME WellBehavedClient, Pipe, LedgerTypeOK', Grows, NEW w \in Works,
         WakeBehind(w) \/ SleepEnds(w) \/ Decoded(w) \/ HoldWakes(w)
  PROVE  Pipe'
  <1>1. UNCHANGED committed /\ CountersOK' /\ CommitsOnly(w)
    BY DEF WakeBehind, SleepEnds, Decoded, HoldWakes, ledger, CommitsOnly, Pipe, TypeOK, CountersOK
  <1>2. CASE WakeBehind(w)
    BY <1>2 DEF WakeBehind, Pipe, WorkShape
  <1>3. CASE SleepEnds(w)
    <2>1. Busy(w) /\ work[w].pc \notin {"parked", "arrived"} /\ state # "starting"
      BY <1>3 DEF SleepEnds, Busy, Pipe, WorkShape
    <2>2. CASE Lost(w) /\ Settle(w)
      <3>1. state \in {"starting", "running", "stopping", "stopped"}
        BY DEF Pipe, TypeOK
      <3>2. ~(Serving /\ work[w].partition \in assigned)
        BY <2>1, <2>2, <3>1, LostSettles DEF Lost, Drained
      <3> QED
        BY <1>1, <2>1, <2>2, <3>2, SettleKeeps
    <2>3. CASE ~Lost(w) /\ Goto(w, "decoding")
      <3>1. Serving /\ "decoding" \in ActivePcs
        BY <2>3 DEF Lost, Serving, ActivePcs
      <3> QED
        BY <1>1, <2>1, <2>3, <3>1, GotoKeeps
    <2> QED
      BY <1>3, <2>2, <2>3 DEF SleepEnds
  <1>4. CASE Decoded(w) \/ HoldWakes(w)
    <2>1. Active(w) /\ Busy(w) /\ work[w].pc \notin {"parked", "arrived"}
      BY <1>4, ActiveIs DEF Decoded, HoldWakes, Active, ActivePcs
    <2>2. CASE \E pc \in {"handling", "held", "retrying", "deadLettering", "crashing"} : Goto(w, pc)
      <3>1. PICK pc \in {"handling", "held", "retrying", "deadLettering", "crashing"} : Goto(w, pc)
        BY <2>2
      <3>2. pc \in ActivePcs /\ pc # "committing"
        BY DEF ActivePcs
      <3> QED
        BY <1>1, <2>1, <3>1, <3>2, GotoKeeps
    <2>3. CASE Settle(w) /\ ~(Serving /\ work[w].partition \in assigned)
      BY <1>1, <2>1, <2>3, SettleKeeps
    <2>4. CASE Decoded(w)
      <3>1. CASE gaveUp
        BY <2>3, <2>4, <3>1, GivenUpIsNotServing DEF Decoded
      <3>2. CASE Forwarded(w, FALSE) \/ Goto(w, "handling") \/ Goto(w, "held")
        BY <2>2, <3>2, ForwardedGoes
      <3> QED
        BY <2>4, <3>1, <3>2 DEF Decoded
    <2>5. CASE HoldWakes(w)
      <3>1. CASE Drained \/ revocations[work[w].partition] # work[w].revocation
        <4>1. Settle(w)
          BY <2>5, <3>1 DEF HoldWakes
        <4>2. ~(Serving /\ work[w].partition \in assigned)
          BY <2>1, <3>1, LostSettles
        <4> QED
          BY <2>3, <4>1, <4>2
      <3>2. CASE Forwarded(w, TRUE) \/ Goto(w, "handling")
        BY <2>2, <3>2, ForwardedGoes
      <3> QED
        BY <2>5, <3>1, <3>2 DEF HoldWakes
    <2> QED
      BY <1>4, <2>4, <2>5
  <1> QED
    BY <1>2, <1>3, <1>4

LEMMA HandlerKeeps ==
  ASSUME WellBehavedClient, Pipe, LedgerTypeOK', Grows, NEW w \in Works,
         HandlerReturns(w) \/ HandlerThrows(w) \/ HandlerAborts(w)
  PROVE  Pipe'
  <1>1. /\ Active(w) /\ Busy(w) /\ work[w].pc \notin {"parked", "arrived"}
        /\ UNCHANGED committed /\ CommitsOnly(w)
    BY ActiveIs DEF HandlerReturns, HandlerThrows, HandlerAborts, Active, ActivePcs, Resolve, ledger, CommitsOnly
  <1>2. CountersOK'
    <2>1. CASE UNCHANGED <<elapsed, faults>>
      BY <2>1 DEF CountersOK, Pipe, TypeOK
    <2>2. CASE Fault
      BY <2>2, PipelineAssumption DEF Fault, CountersOK, Pipe, TypeOK
    <2> QED
      BY <2>1, <2>2 DEF HandlerReturns, HandlerThrows, HandlerAborts
  <1>3. CASE gaveUp /\ Settle(w)
    BY <1>1, <1>2, <1>3, GivenUpIsNotServing, SettleKeeps
  <1>4. CASE HandlerReturns(w) /\ ~gaveUp
    <2>1. Goto(w, "committing") /\ <<work[w].partition, work[w].offset>> \in handled'
      BY <1>4 DEF HandlerReturns, Resolve
    <2>2. "committing" \in ActivePcs
      BY DEF ActivePcs
    <2> QED
      BY <1>1, <1>2, <2>1, <2>2, GotoKeeps
  <1>5. CASE HandlerThrows(w) /\ ~gaveUp
    <2>1. PICK pc \in {"retrying", "deadLettering", "crashing"} : Goto(w, pc)
      BY <1>5, ForwardedGoes DEF HandlerThrows
    <2>2. pc \in ActivePcs /\ pc # "committing"
      BY DEF ActivePcs
    <2> QED
      BY <1>1, <1>2, <2>1, <2>2, GotoKeeps
  <1>6. CASE HandlerAborts(w) /\ ~gaveUp
    <2>1. StopWith("abort", {w}) /\ {w} \in SUBSET Works /\ (\A v \in {w} : Active(v))
      BY <1>1, <1>6 DEF HandlerAborts
    <2> QED
      BY <1>1, <1>2, <2>1, StopKeeps
  <1> QED
    BY <1>3, <1>4, <1>5, <1>6 DEF HandlerReturns, HandlerThrows, HandlerAborts

LEMMA ForwardingKeeps ==
  ASSUME WellBehavedClient, Pipe, LedgerTypeOK', Grows, NEW w \in Works,
         HopAcknowledged(w) \/ HopFails(w) \/ Crash(w) \/ CommitLands(w) \/ CommitFails(w)
  PROVE  Pipe'
  <1>1. Active(w) /\ Busy(w) /\ work[w].pc \notin {"parked", "arrived"}
    BY ActiveIs DEF HopAcknowledged, HopFails, Crash, CommitLands, CommitFails, Active, ActivePcs
  <1>2. CountersOK'
    BY PipelineAssumption DEF HopAcknowledged, HopFails, Crash, CommitLands, CommitFails, Fault,
                              CountersOK, Pipe, TypeOK
  <1>3. "committing" \in ActivePcs /\ "crashing" \in ActivePcs
    BY DEF ActivePcs
  <1>4. CASE HopAcknowledged(w)
    <2>1. <<work[w].partition, work[w].offset>> \in handled' /\ UNCHANGED committed /\ CommitsOnly(w)
      BY <1>4 DEF HopAcknowledged, Hop, DeadLetter, CommitsOnly
    <2> QED
      BY <1>1, <1>2, <1>3, <1>4, <2>1, GotoKeeps, SettleKeeps DEF HopAcknowledged, CommitNext
  <1>5. CASE HopFails(w)
    <2>1. UNCHANGED committed /\ Goto(w, "crashing")
      BY <1>5 DEF HopFails, Copy, CopyToDlq, ledger
    <2> QED
      BY <1>1, <1>2, <1>3, <2>1, GotoKeeps
  <1>6. CASE Crash(w)
    <2>1. /\ UNCHANGED committed /\ StopWith("crash", {w})
          /\ {w} \in SUBSET Works /\ (\A v \in {w} : Active(v))
      BY <1>1, <1>6 DEF Crash, ledger
    <2> QED
      BY <1>2, <2>1, StopKeeps
  <1>7. CASE CommitLands(w) \/ CommitFails(w)
    <2>1. <<work[w].partition, work[w].offset>> \in handled
      BY <1>7 DEF CommitLands, CommitFails, Pipe, WorkOrder
    <2>2. <<work[w].partition, work[w].offset>> \in handled' /\ Settle(w) /\ CommitsOnly(w)
      BY <1>7, <2>1 DEF CommitLands, CommitFails, Commit, CommitsOnly, ledger, Grows
    <2> QED
      BY <1>1, <1>2, <2>2, SettleKeeps
  <1> QED
    BY <1>4, <1>5, <1>6, <1>7

\* What process() makes of a delivery when nothing is parked on its partition.
LEMMA ProcessPlaces ==
  ASSUME WellBehavedClient, Pipe, NEW w \in Works, NEW delivery \in WorkRecord,
         delivery.partition \in Partitions, delivery.ahead = NONE,
         parked[delivery.partition] = NONE, Process(w, delivery)
  PROVE  \E b \in WorkRecord :
            /\ work' = [work EXCEPT ![w] = b]
            /\ b.partition = delivery.partition /\ b.offset = delivery.offset /\ b.ahead = NONE
            /\ b.pc \in {"deadLettering", "crashing", "decoding", "parked", "sleeping"}
            /\ b.revocation = revocations[delivery.partition]
            /\ \/ /\ b.pc = "parked"
                  /\ parked' = [parked EXCEPT ![delivery.partition] = w]
                  /\ paused' = paused \union {delivery.partition}
               \/ b.pc # "parked" /\ b.open = delivery.open /\ UNCHANGED <<parked, paused>>
  <1> DEFINE p == delivery.partition
             begun(pc) == [delivery EXCEPT !.pc = pc, !.revocation = revocations[p]]
             held == [begun("parked") EXCEPT !.open = FALSE]
  <1>1. revocations[p] \in Nat
    BY DEF Pipe, TypeOK
  <1>2. ASSUME NEW pc \in {"deadLettering", "crashing", "decoding", "sleeping"}
        PROVE  /\ begun(pc) \in WorkRecord /\ begun(pc).pc = pc
               /\ begun(pc).partition = p /\ begun(pc).offset = delivery.offset
               /\ begun(pc).ahead = NONE /\ begun(pc).open = delivery.open
               /\ begun(pc).revocation = revocations[p]
    BY <1>1 DEF WorkRecord, Pcs, ActivePcs
  <1>3. /\ held \in WorkRecord /\ held.pc = "parked" /\ held.partition = p
        /\ held.offset = delivery.offset /\ held.ahead = NONE /\ held.revocation = revocations[p]
    BY <1>1 DEF WorkRecord, Pcs, ActivePcs
  <1>4. \/ /\ work' = [work EXCEPT ![w] = held]
           /\ parked' = [parked EXCEPT ![p] = w]
           /\ paused' = paused \union {p}
        \/ \E pc \in {"deadLettering", "crashing", "decoding", "sleeping"} :
              work' = [work EXCEPT ![w] = begun(pc)] /\ UNCHANGED <<parked, paused>>
    BY DEF Process
  <1>5. CASE /\ work' = [work EXCEPT ![w] = held]
             /\ parked' = [parked EXCEPT ![p] = w]
             /\ paused' = paused \union {p}
    <2> HIDE DEF held
    <2> QED
      BY <1>3, <1>5
  <1>6. ASSUME NEW pc \in {"deadLettering", "crashing", "decoding", "sleeping"},
               work' = [work EXCEPT ![w] = begun(pc)], UNCHANGED <<parked, paused>>
        PROVE  \E b \in WorkRecord :
                  /\ work' = [work EXCEPT ![w] = b]
                  /\ b.partition = p /\ b.offset = delivery.offset /\ b.ahead = NONE
                  /\ b.pc \in {"deadLettering", "crashing", "decoding", "sleeping"}
                  /\ b.revocation = revocations[p]
                  /\ b.pc # "parked" /\ b.open = delivery.open /\ UNCHANGED <<parked, paused>>
    <2>1. begun(pc) \in WorkRecord
      BY <1>2
    <2>2. WITNESS begun(pc) \in WorkRecord
    <2> HIDE DEF begun
    <2> QED
      BY <1>2, <1>6
  <1> QED
    BY <1>4, <1>5, <1>6

\* At most one work is about an assigned partition: without one that holds
\* the client's position, everything the client delivered is handled.
LEMMA QuietPartition ==
  ASSUME Pipe, NEW p \in Partitions, p \in assigned, Serving,
         \A v \in Works : Busy(v) => work[v].partition # p
  PROVE  PrefixHandled(p, position[p])
  <1>1. /\ PrefixHandled(p, position[p] - 1) /\ position[p] \in Nat
        /\ position[p] = 0 \/ <<p, position[p]>> \in handled
    BY DEF Pipe, PartitionOrder, TypeOK
  <1>2. \A i \in 1..position[p] : i = position[p] \/ i \in 1..(position[p] - 1)
    BY <1>1
  <1> QED
    BY <1>1, <1>2 DEF PrefixHandled

LEMMA DeliverKeeps ==
  ASSUME WellBehavedClient, Pipe, LedgerTypeOK, Grows,
         NEW w \in Works, NEW p \in Partitions, Deliver(w, p)
  PROVE  Pipe'
  <1> DEFINE delivery == [Free EXCEPT !.pc = "arrived", !.partition = p, !.open = TRUE,
                                      !.offset = position[p] + 1, !.received = revocations[p]]
  <1>1. /\ position[p] \in Nat /\ revocations[p] \in Nat
        /\ state \in {"starting", "running", "stopping", "stopped"}
    BY DEF Pipe, TypeOK
  <1>2. /\ delivery \in WorkRecord /\ delivery.pc = "arrived" /\ delivery.partition = p
        /\ delivery.offset = position[p] + 1 /\ delivery.open = TRUE /\ delivery.ahead = NONE
    <2>1. "arrived" \in Pcs /\ p \in Partitions \union {NONE} /\ position[p] + 1 \in Nat
      BY <1>1 DEF Pcs
    <2>2. /\ Free \in WorkRecord /\ Free.ahead = NONE
      BY FreeRecord
    <2>3. delivery \in WorkRecord
      BY <1>1, <2>1, <2>2 DEF WorkRecord
    <2>4. /\ delivery.pc = "arrived" /\ delivery.partition = p
          /\ delivery.offset = position[p] + 1 /\ delivery.open = TRUE
      BY <2>2 DEF WorkRecord
    <2> QED
      BY <2>2, <2>3, <2>4 DEF WorkRecord
  <1>3. /\ work[w].pc = "free" /\ p \in assigned /\ p \notin paused /\ position[p] < Len(log[p])
        /\ \A v \in Works : Busy(v) /\ work[v].partition = p => ~work[v].open
        /\ position' = [position EXCEPT ![p] = @ + 1]
        /\ UNCHANGED <<ledger, state, stopReason, gaveUp, revocations, assigned, revoking, elapsed, faults>>
    BY DEF Deliver, WellBehavedClient, On, Busy
  <1>4. Present => \A v \in Works : Busy(v) => work[v].partition # p
    BY <1>3 DEF Pipe, WorkPlace
  <1>5. Serving => Present
    BY DEF Serving, Present, Pipe, Phases
  <1>6. Serving => PrefixHandled(p, position[p])
    BY <1>3, <1>4, <1>5, QuietPartition
  <1>7. /\ delivery.offset \in 1..Len(log[p]) /\ delivery.offset - 1 = position[p]
        /\ position' \in [Partitions -> Nat] /\ position'[p] = delivery.offset
        /\ \A r \in Partitions \ {p} : position'[r] = position[r]
        /\ Present => committed[p] <= delivery.offset
    <2>1. Len(log[p]) \in Nat /\ committed[p] \in Nat
      BY DEF Grows, LedgerTypeOK
    <2>2. position \in [Partitions -> Nat]
      BY DEF Pipe, TypeOK
    <2>3. Present => committed[p] <= position[p]
      BY <1>3 DEF Pipe, PartitionOrder
    <2> HIDE DEF delivery
    <2> QED
      BY <1>1, <1>2, <1>3, <2>1, <2>2, <2>3
  <1> HIDE DEF delivery
  <1>8. CASE state # "running"
    <2>1. work' = [work EXCEPT ![w] = delivery] /\ UNCHANGED <<parked, paused>>
      BY <1>8 DEF Deliver, delivery
    <2>2. CountersOK
      BY DEF Pipe, TypeOK
    <2>3. /\ work[w].pc = "free" \/ work[w].partition = p
          /\ work[w].pc # "parked"
          /\ delivery.pc \notin {"free", "behind", "committing"}
          /\ delivery.pc # "parked"
      BY <1>2, <1>3
    <2>4. Serving \/ delivery.pc # "arrived" => PrefixHandled(p, delivery.offset - 1)
      BY <1>2, <1>6, <1>7
    <2>5. Present => /\ p \in assigned \union revoking
                     /\ committed[p] <= delivery.offset
                     /\ p \in assigned => delivery.offset = position'[p] /\ (delivery.open \/ p \in paused')
                     /\ \A v \in Works : v # w /\ Busy(v) => work[v].partition # p
      BY <1>2, <1>3, <1>4, <1>7
    <2> QED
      BY <1>2, <1>3, <1>7, <1>8, <2>1, <2>2, <2>3, <2>4, <2>5, PlaceKeeps
  <1>9. CASE state = "running"
    <2>0. Serving /\ Present
      BY <1>5, <1>9 DEF Serving
    <2>1. parked[p] = NONE
      BY <1>4, <2>0 DEF Pipe, TypeOK, PartitionOrder, Busy
    <2>2. Process(w, delivery)
      BY <1>9 DEF Deliver, delivery
    <2>3. PICK b \in WorkRecord :
            /\ work' = [work EXCEPT ![w] = b]
            /\ b.partition = p /\ b.offset = delivery.offset /\ b.ahead = NONE
            /\ b.pc \in {"deadLettering", "crashing", "decoding", "parked", "sleeping"}
            /\ b.revocation = revocations[p]
            /\ \/ /\ b.pc = "parked"
                  /\ parked' = [parked EXCEPT ![p] = w]
                  /\ paused' = paused \union {p}
               \/ b.pc # "parked" /\ b.open = delivery.open /\ UNCHANGED <<parked, paused>>
      BY <1>2, <2>1, <2>2, ProcessPlaces
    <2> QED
      <3>1. CountersOK
        BY DEF Pipe, TypeOK
      <3>2. /\ work[w].pc # "parked" /\ b.pc \notin {"free", "behind", "committing", "arrived"}
            /\ PrefixHandled(p, b.offset - 1)
        BY <1>3, <1>6, <1>7, <2>0, <2>3
      <3>3. /\ p \in assigned \union revoking /\ committed[p] <= b.offset
            /\ p \in assigned => b.offset = position'[p] /\ (b.open \/ p \in paused')
            /\ \A v \in Works : v # w /\ Busy(v) => work[v].partition # p
        BY <1>2, <1>3, <1>4, <1>7, <2>0, <2>3
      <3>4. \/ b.pc = "parked" /\ parked[p] = NONE /\ parked' = [parked EXCEPT ![p] = w]
                  /\ paused' = paused \union {p}
            \/ b.pc # "parked" /\ UNCHANGED <<parked, paused>>
        BY <2>1, <2>3
      <3>5. /\ b.partition = p /\ b.offset \in 1..Len(log[p]) /\ b.ahead = NONE
            /\ work' = [work EXCEPT ![w] = b] /\ b.revocation = revocations[p]
            /\ work[w].pc = "free"
        BY <1>3, <1>7, <2>3
      <3>6. /\ UNCHANGED <<ledger, state, stopReason, gaveUp, revocations, assigned, revoking, elapsed, faults>>
            /\ position' \in [Partitions -> Nat] /\ \A r \in Partitions \ {p} : position'[r] = position[r]
        BY <1>3, <1>7
      <3> QED
        BY <1>9, <3>1, <3>2, <3>3, <3>4, <3>5, <3>6, PlaceKeeps
  <1> QED
    BY <1>8, <1>9

LEMMA ReadyKeeps ==
  ASSUME WellBehavedClient, Pipe, LedgerTypeOK, LedgerTypeOK', Grows, NEW w \in Works, Ready(w)
  PROVE  Pipe'
  <1> DEFINE p == work[w].partition
  <1>1. /\ work[w].pc = "arrived" /\ Busy(w) /\ state # "starting" /\ UNCHANGED <<ledger, elapsed, faults>>
        /\ state \in {"starting", "running", "stopping", "stopped"}
        /\ work[w] \in WorkRecord /\ work[w].ahead = NONE
    BY DEF Ready, Busy, Pipe, TypeOK, WorkShape
  <1>2. CountersOK' /\ UNCHANGED committed /\ CommitsOnly(w)
    BY <1>1 DEF CountersOK, CommitsOnly, ledger, Pipe, TypeOK
  <1>3. CASE state # "running"
    BY <1>1, <1>2, <1>3, SettleKeeps DEF Ready, Serving
  <1>4. CASE state = "running"
    <2>0. Serving /\ Present
      BY <1>4 DEF Serving, Present, Pipe, Phases
    <2>1. p \in Partitions /\ work[w].offset \in 1..Len(log[p])
      BY <1>1, WorkRecordExists
    <2>2. parked[p] = NONE
      <3>1. parked[p] # NONE => /\ parked[p] \in Works /\ work[parked[p]].pc = "parked"
                                /\ work[parked[p]].partition = p
        BY <2>1 DEF Pipe, TypeOK, PartitionOrder
      <3>2. parked[p] # NONE => parked[p] = w
        BY <1>1, <2>0, <3>1 DEF Pipe, Alone, Busy
      <3> QED
        BY <1>1, <3>1, <3>2
    <2>3. Process(w, work[w]) /\ UNCHANGED <<state, stopReason, gaveUp, revocations, assigned, revoking, position>>
      BY <1>4 DEF Ready
    <2>4. PICK b \in WorkRecord :
            /\ work' = [work EXCEPT ![w] = b]
            /\ b.partition = p /\ b.offset = work[w].offset /\ b.ahead = NONE
            /\ b.pc \in {"deadLettering", "crashing", "decoding", "parked", "sleeping"}
            /\ b.revocation = revocations[p]
            /\ \/ /\ b.pc = "parked"
                  /\ parked' = [parked EXCEPT ![p] = w]
                  /\ paused' = paused \union {p}
               \/ b.pc # "parked" /\ b.open = work[w].open /\ UNCHANGED <<parked, paused>>
      BY <1>1, <2>1, <2>2, <2>3, ProcessPlaces
    <2>5. /\ PrefixHandled(p, work[w].offset - 1)
          /\ p \in assigned \union revoking /\ committed[p] <= work[w].offset
          /\ p \in assigned => work[w].offset = position[p] /\ (work[w].open \/ p \in paused)
          /\ \A v \in Works : v # w /\ Busy(v) => work[v].partition # p
      BY <1>1, <2>0 DEF Pipe, WorkOrder, WorkPlace, Alone
    <2>6. position' \in [Partitions -> Nat] /\ (\A r \in Partitions \ {p} : position'[r] = position[r])
      BY <2>3 DEF Pipe, TypeOK
    <2> QED
      BY <1>1, <1>4, <2>0, <2>1, <2>2, <2>3, <2>4, <2>5, <2>6, PlaceKeeps DEF Pipe, TypeOK
  <1> QED
    BY <1>3, <1>4

\* A parked message comes back in its own place.
LEMMA ReenterKeeps ==
  ASSUME WellBehavedClient, Pipe, LedgerTypeOK, NEW w \in Works, Reenter(w)
  PROVE  Pipe'
  <1> DEFINE p == work[w].partition
  <1>1. /\ work[w].pc = "parked" /\ Busy(w) /\ state = "running" /\ Serving
        /\ p \in Partitions /\ parked[p] = w
        /\ parked' = [parked EXCEPT ![p] = NONE]
        /\ UNCHANGED <<ledger, state, stopReason, gaveUp, revocations, client, elapsed, faults>>
    BY DEF Reenter, Pipe, WorkShape, Busy, Serving
  <1>2. /\ UNCHANGED <<log, committed, handled, done, dead>>
        /\ UNCHANGED <<state, stopReason, gaveUp, revocations, paused, assigned, revoking, position>>
    BY <1>1 DEF ledger, client
  <1>3. /\ \A v \in Works : v # w => work'[v] = work[v]
        /\ work' \in [Works -> WorkRecord]
        /\ work'[w].pc = "decoding" /\ work'[w].partition = p /\ work'[w].offset = work[w].offset
        /\ work'[w].open = work[w].open /\ work'[w].ahead = work[w].ahead
        /\ work'[w].revocation = revocations[p]
    <2>1. /\ work \in [Works -> WorkRecord] /\ revocations[p] \in Nat /\ "decoding" \in Pcs
      BY <1>1 DEF Pipe, TypeOK, Pcs, ActivePcs
    <2>2. work' = [work EXCEPT ![w] = [work[w] EXCEPT !.pc = "decoding", !.reentry = TRUE,
                                         !.received = revocations[p], !.revocation = revocations[p]]]
      BY <2>1 DEF Reenter, WorkRecord
    <2> QED
      BY <2>1, <2>2 DEF WorkRecord
  <1>4. TypeOK'
    <2>1. parked' \in [Partitions -> Works \union {NONE}]
      BY <1>1 DEF Pipe, TypeOK
    <2>2. LedgerTypeOK' /\ CountersOK'
      BY <1>1, <1>2 DEF LedgerTypeOK, CountersOK, Pipe, TypeOK
    <2> QED
      BY <1>2, <1>3, <2>1, <2>2 DEF Pipe, TypeOK
  <1>5. Phases'
    BY <1>2 DEF Pipe, Phases
  <1>6. \A v \in Works : /\ Busy(v)' <=> Busy(v)
                         /\ work'[v].partition = work[v].partition /\ work'[v].offset = work[v].offset
    BY <1>1, <1>3 DEF Busy
  <1>7. Alone'
    BY <1>2, <1>6 DEF Pipe, Alone, Present
  <1>8. ASSUME NEW v \in Works PROVE WorkShape(v)'
    <2>1. CASE v = w
      BY <1>1, <1>2, <1>3, <2>1 DEF Pipe, WorkShape, Busy
    <2>2. CASE v # w
      <3>1. work'[v] = work[v] /\ WorkShape(v)
        BY <1>3, <2>2 DEF Pipe
      <3>2. work[v].pc = "parked" => work[v].partition # p /\ work[v].partition \in Partitions
        BY <1>1, <2>2, <3>1 DEF WorkShape, Busy
      <3> QED
        BY <1>1, <1>2, <3>1, <3>2 DEF WorkShape, Busy, Pipe, TypeOK
    <2> QED
      BY <2>1, <2>2
  <1>9. ASSUME NEW v \in Works PROVE WorkOrder(v)'
    <2>1. CASE v = w
      BY <1>1, <1>2, <1>3, <2>1 DEF Pipe, WorkOrder, PrefixHandled
    <2>2. CASE v # w
      BY <1>2, <1>3, <2>2 DEF Pipe, WorkOrder, Busy, Active, Serving, PrefixHandled
    <2> QED
      BY <2>1, <2>2
  <1>10. ASSUME NEW v \in Works PROVE WorkPlace(v)'
    <2>1. CASE v = w
      BY <1>1, <1>2, <1>3, <2>1 DEF Pipe, WorkPlace, Busy, Present, Serving
    <2>2. CASE v # w
      BY <1>2, <1>3, <2>2 DEF Pipe, WorkPlace, Busy, Present, Serving
    <2> QED
      BY <2>1, <2>2
  <1>11. ASSUME NEW r \in Partitions PROVE PartitionOrder(r)'
    <2>0. PartitionOrder(r)
      BY DEF Pipe
    <2>1. parked'[r] # NONE => work'[parked'[r]].pc = "parked" /\ work'[parked'[r]].partition = r
      <3>1. parked'[r] # NONE => r # p /\ parked'[r] = parked[r] /\ parked[r] \in Works
        BY <1>1 DEF Pipe, TypeOK
      <3>2. parked'[r] # NONE => parked[r] # w
        BY <2>0, <3>1 DEF PartitionOrder
      <3> QED
        BY <1>3, <2>0, <3>1, <3>2 DEF PartitionOrder
    <2> QED
      BY <1>2, <1>6, <2>0, <2>1 DEF PartitionOrder, Present, Serving, PrefixHandled
  <1> QED
    BY <1>4, <1>5, <1>7, <1>8, <1>9, <1>10, <1>11 DEF Pipe

-----------------------------------------------------------------------------
(* The steps of the consumer and of the group. *)

\* A step of the ledger or of the clock that commits at most the record of
\* the work about the partition, or nothing this member owns.
LEMMA OutsideKeeps ==
  ASSUME Pipe, LedgerTypeOK', CountersOK', Grows, UNCHANGED <<memory, client>>,
         Present => /\ \A v \in Works : Busy(v) => committed'[work[v].partition] <= work[v].offset
                    /\ \A p \in assigned : committed'[p] <= position[p]
  PROVE  Pipe'
  <1>1. UNCHANGED <<state, stopReason, gaveUp, work, parked, revocations, paused, assigned, revoking, position>>
    BY DEF memory, client
  <1>2. TypeOK' /\ Phases' /\ Alone'
    BY <1>1 DEF Pipe, TypeOK, Phases, Alone, Busy, Present
  <1>3. ASSUME NEW v \in Works PROVE WorkShape(v)' /\ WorkOrder(v)' /\ WorkPlace(v)'
    <2>1. WorkShape(v)'
      BY <1>1 DEF Pipe, WorkShape, Busy, Grows
    <2>2. WorkOrder(v)'
      BY <1>1 DEF Pipe, WorkOrder, Busy, Serving, Active, Grows, PrefixHandled
    <2>3. WorkPlace(v)'
      BY <1>1 DEF Pipe, WorkPlace, Busy, Serving, Present
    <2> QED
      BY <2>1, <2>2, <2>3
  <1>4. ASSUME NEW p \in Partitions PROVE PartitionOrder(p)'
    <2>0. PartitionOrder(p) /\ position[p] \in Nat
      BY DEF Pipe, TypeOK
    <2> QED
      BY <1>1, <2>0 DEF PartitionOrder, Busy, Serving, Present, Grows, PrefixHandled
  <1> QED
    BY <1>2, <1>3, <1>4 DEF Pipe

LEMMA LedgerOnlyKeeps ==
  ASSUME Pipe, LedgerTypeOK, LedgerTypeOK', Grows,
         \/ \E w \in Works : HandlerTransacts(w)
         \/ \E p \in Partitions : Elapse(p) \/ OtherMember(p)
         \/ UNCHANGED vars
  PROVE  Pipe'
  <1>1. UNCHANGED <<memory, client>>
    BY DEF HandlerTransacts, Elapse, OtherMember, vars
  <1>2. /\ Present => \A v \in Works : Busy(v) => /\ committed[work[v].partition] <= work[v].offset
                                                  /\ work[v].partition \in assigned \union revoking
        /\ Present => \A p \in assigned : committed[p] <= position[p]
    BY DEF Pipe, WorkPlace, PartitionOrder, TypeOK
  <1>3. CASE \E w \in Works : HandlerTransacts(w)
    <2>1. PICK w \in Works : HandlerTransacts(w)
      BY <1>3
    <2> DEFINE p == work[w].partition
    <2>2. /\ Busy(w) /\ work[w].pc # "arrived" /\ p \in assigned \union revoking /\ p \in Partitions
          /\ committed' = [committed EXCEPT ![p] = work[w].offset]
          /\ UNCHANGED <<elapsed, faults>>
      BY <2>1 DEF HandlerTransacts, Transact, Busy, Pipe, TypeOK
    <2>3. CountersOK'
      BY <2>2 DEF Pipe, TypeOK, CountersOK
    <2>4. Present => \A v \in Works : Busy(v) => committed'[work[v].partition] <= work[v].offset
      <3> SUFFICES ASSUME Present, NEW v \in Works, Busy(v)
                   PROVE  committed'[work[v].partition] <= work[v].offset
        OBVIOUS
      <3>1. CASE v = w
        BY <2>2, <3>1, WorkRecordExists DEF LedgerTypeOK
      <3>2. CASE v # w
        <4>1. work[v].partition # p
          BY <2>2, <3>2 DEF Pipe, Alone
        <4> QED
          BY <1>2, <2>2, <4>1 DEF LedgerTypeOK
      <3> QED
        BY <3>1, <3>2
    <2>5. Present => \A r \in assigned : committed'[r] <= position[r]
      <3> SUFFICES ASSUME Present, NEW r \in assigned PROVE committed'[r] <= position[r]
        OBVIOUS
      <3>1. /\ p \in assigned => work[w].offset = position[p]
            /\ r \in Partitions /\ position[p] \in Nat
        BY <2>2 DEF Pipe, WorkPlace, TypeOK
      <3>2. committed'[r] = IF r = p THEN work[w].offset ELSE committed[r]
        BY <2>2, <3>1 DEF LedgerTypeOK
      <3> QED
        BY <1>2, <2>2, <3>1, <3>2
    <2> QED
      BY <1>1, <2>3, <2>4, <2>5, OutsideKeeps
  <1>4. CASE (\E p \in Partitions : Elapse(p)) \/ UNCHANGED vars
    <2>1. UNCHANGED committed /\ CountersOK'
      BY <1>4 DEF Elapse, vars, ledger, CountersOK, Pipe, TypeOK
    <2> QED
      BY <1>1, <1>2, <2>1, OutsideKeeps
  <1>5. ASSUME NEW p \in Partitions, OtherMember(p) PROVE Pipe'
    <2>1. /\ p \notin assigned \union revoking
          /\ CountersOK'
          /\ committed' = committed \/ committed' = [committed EXCEPT ![p] = committed[p] + 1]
      BY <1>5 DEF OtherMember, Resolve, Hop, DeadLetter, Commit, CountersOK, Pipe, TypeOK
    <2>2. \A r \in Partitions : r # p => committed'[r] = committed[r]
      BY <2>1 DEF LedgerTypeOK
    <2>3. \A v \in Works : Busy(v) => work[v].partition \in Partitions
      BY WorkRecordExists
    <2>4. assigned \subseteq Partitions
      BY DEF Pipe, TypeOK
    <2> QED
      BY <1>1, <1>2, <2>1, <2>2, <2>3, <2>4, OutsideKeeps
  <1> QED
    BY <1>3, <1>4, <1>5

LEMMA StartedKeeps ==
  ASSUME Pipe, LedgerTypeOK, Started PROVE Pipe'
  <1>1. /\ UNCHANGED <<log, committed, handled, done, dead, stopReason, gaveUp, work, parked,
                       revocations, paused, assigned, revoking, position, elapsed, faults>>
        /\ state = "starting" /\ state' = "running"
    BY DEF Started, ledger, client
  <1>2. TypeOK'
    BY <1>1 DEF Pipe, TypeOK, LedgerTypeOK, CountersOK
  <1>3. Phases' /\ Alone'
    BY <1>1 DEF Pipe, Phases, Alone, Busy, Present
  <1>4. ASSUME NEW v \in Works PROVE WorkShape(v)' /\ WorkOrder(v)' /\ WorkPlace(v)'
    <2>1. WorkShape(v)'
      BY <1>1 DEF Pipe, WorkShape, Busy
    <2>2. WorkOrder(v)'
      BY <1>1 DEF Pipe, WorkOrder, Busy, Serving, Active, PrefixHandled
    <2>3. WorkPlace(v)'
      BY <1>1 DEF Pipe, WorkPlace, Busy, Serving, Present
    <2> QED
      BY <2>1, <2>2, <2>3
  <1>5. ASSUME NEW p \in Partitions PROVE PartitionOrder(p)'
    BY <1>1 DEF Pipe, PartitionOrder, Busy, Serving, Present, PrefixHandled
  <1> QED
    BY <1>2, <1>3, <1>4, <1>5 DEF Pipe

\* Once shutdown gave up or the consumer left, what is left of its works
\* neither counts as the owner's nor reaches a handler again.
LEMMA RetiredKeeps ==
  ASSUME Pipe, LedgerTypeOK, GiveUp \/ Leave PROVE Pipe'
  <1>1. /\ UNCHANGED <<log, committed, handled, done, dead, stopReason, parked, revocations,
                       position, elapsed, faults>>
        /\ state = "stopping" /\ state' \in {"stopping", "stopped"} /\ gaveUp' \in BOOLEAN
        /\ ~Present' /\ ~Serving'
        /\ paused' \subseteq paused /\ assigned' \subseteq assigned /\ revoking' \subseteq revoking
    BY DEF GiveUp, Leave, ledger, client, Present, Serving, Pipe, TypeOK
  <1>2. /\ work' \in [Works -> WorkRecord]
        /\ \A v \in Works : /\ work'[v].pc = work[v].pc /\ work'[v].ahead = work[v].ahead
                            /\ work'[v].partition = work[v].partition
                            /\ work'[v].offset = work[v].offset
                            /\ ~Active(v) => work'[v] = work[v]
    <2>1. work \in [Works -> WorkRecord]
      BY DEF Pipe, TypeOK
    <2>2. CASE GiveUp
      <3>1. work' = [v \in Works |-> IF Active(v) THEN [work[v] EXCEPT !.open = FALSE] ELSE work[v]]
        BY <2>2 DEF GiveUp
      <3>2. \A v \in Works : /\ [work[v] EXCEPT !.open = FALSE] \in WorkRecord
                             /\ [work[v] EXCEPT !.open = FALSE].pc = work[v].pc
                             /\ [work[v] EXCEPT !.open = FALSE].ahead = work[v].ahead
                             /\ [work[v] EXCEPT !.open = FALSE].partition = work[v].partition
                             /\ [work[v] EXCEPT !.open = FALSE].offset = work[v].offset
        BY <2>1 DEF WorkRecord
      <3> QED
        BY <2>1, <3>1, <3>2
    <2>3. CASE Leave
      BY <2>1, <2>3 DEF Leave
    <2> QED
      BY <2>2, <2>3
  <1>3. TypeOK'
    BY <1>1, <1>2 DEF Pipe, TypeOK, LedgerTypeOK, CountersOK
  <1>4. Phases' /\ Alone'
    <2>1. state' = "stopped" => assigned' \union revoking' = {}
      BY <1>1 DEF GiveUp, Leave
    <2> QED
      BY <1>1, <2>1 DEF Phases, Alone
  <1>5. ASSUME NEW v \in Works PROVE WorkShape(v)' /\ WorkOrder(v)' /\ WorkPlace(v)'
    <2>1. WorkShape(v)'
      BY <1>1, <1>2, ActiveIs DEF Pipe, WorkShape, Busy
    <2>2. WorkOrder(v)'
      BY <1>1, <1>2 DEF Pipe, WorkOrder, Busy, Active, PrefixHandled
    <2>3. WorkPlace(v)'
      BY <1>1 DEF WorkPlace
    <2> QED
      BY <2>1, <2>2, <2>3
  <1>6. ASSUME NEW p \in Partitions PROVE PartitionOrder(p)'
    <2>1. parked[p] # NONE => parked[p] \in Works
      BY DEF Pipe, TypeOK
    <2> QED
      BY <1>1, <1>2, <2>1 DEF Pipe, PartitionOrder
  <1> QED
    BY <1>3, <1>4, <1>5, <1>6 DEF Pipe

LEMMA NewConsumerKeeps ==
  ASSUME Pipe, LedgerTypeOK, Restart \/ Die PROVE Pipe'
  <1>1. CountersOK'
    <2>1. CASE UNCHANGED <<elapsed, faults>>
      BY <2>1 DEF CountersOK, Pipe, TypeOK
    <2>2. CASE Fault
      BY <2>2, PipelineAssumption DEF Fault, CountersOK, Pipe, TypeOK
    <2> QED
      BY <2>1, <2>2 DEF Restart, Die
  <1>2. UNCHANGED <<log, committed, handled, done, dead>> /\ NewConsumer
    BY DEF Restart, Die, ledger
  <1>3. \A v \in Works : work'[v] = Free /\ ~Busy(v)' /\ ~Active(v)'
    BY <1>2, FreeRecord DEF NewConsumer, Busy, Active, ActivePcs
  <1>4. TypeOK'
    BY <1>1, <1>2, FreeRecord DEF NewConsumer, TypeOK, LedgerTypeOK
  <1>5. Phases' /\ Alone'
    BY <1>2, <1>3 DEF NewConsumer, Phases, Alone
  <1>6. ASSUME NEW v \in Works PROVE WorkShape(v)' /\ WorkOrder(v)' /\ WorkPlace(v)'
    BY <1>3, FreeRecord DEF WorkShape, WorkOrder, WorkPlace, Active, ActivePcs
  <1>7. ASSUME NEW p \in Partitions PROVE PartitionOrder(p)'
    BY <1>2 DEF NewConsumer, PartitionOrder
  <1> QED
    BY <1>4, <1>5, <1>6, <1>7 DEF Pipe

\* A revoked partition takes its parked record out of memory.
LEMMA RevokeKeeps ==
  ASSUME WellBehavedClient, Pipe, LedgerTypeOK, NEW p \in Partitions, Revoke(p) PROVE Pipe'
  <1> DEFINE gone == IF parked[p] = NONE THEN {} ELSE {parked[p]}
  <1>1. /\ UNCHANGED <<log, committed, handled, done, dead, state, stopReason, gaveUp, position>>
        /\ p \in assigned /\ assigned' = assigned \ {p} /\ revoking' = revoking \union {p}
        /\ revocations' = [revocations EXCEPT ![p] = @ + 1]
        /\ paused' = paused \/ paused' = paused \ {p}
    BY DEF Revoke, ledger
  <1>2. CountersOK'
    BY PipelineAssumption DEF Revoke, Fault, CountersOK, Pipe, TypeOK
  <1>3. /\ parked' \in [Partitions -> Works \union {NONE}]
        /\ parked'[p] = NONE /\ \A r \in Partitions : r # p => parked'[r] = parked[r]
    BY DEF Revoke, Pipe, TypeOK
  <1>4. /\ gone \in SUBSET Works
        /\ \A v \in gone : v = parked[p] /\ work[v].partition = p
        /\ \A v \in Works : work[v].ahead = NONE
    <2>1. parked[p] # NONE => parked[p] \in Works /\ work[parked[p]].partition = p
      BY DEF Pipe, TypeOK, PartitionOrder
    <2>2. \A v \in Works : work[v].ahead = NONE
      BY DEF Pipe, WorkShape
    <2> QED
      BY <2>1, <2>2
  <1>5. work' = [v \in Works |-> IF v \in gone THEN Free ELSE work[v]]
    <2>1. CASE parked[p] = NONE
      BY <2>1 DEF Revoke, Pipe, TypeOK
    <2>2. CASE parked[p] # NONE
      <3>1. work' = Without(gone)
        BY <2>2 DEF Revoke
      <3> QED
        BY <1>4, <3>1, WithoutFrees
    <2> QED
      BY <2>1, <2>2
  <1> HIDE DEF gone
  <1>6. /\ work' \in [Works -> WorkRecord]
        /\ \A v \in Works : v \notin gone => work'[v] = work[v]
        /\ \A v \in gone : v \in Works /\ work'[v] = Free
    BY <1>4, <1>5, FreeRecord DEF Pipe, TypeOK
  <1>7. TypeOK'
    <2>1. revocations' \in [Partitions -> Nat]
      BY <1>1 DEF Pipe, TypeOK
    <2> QED
      BY <1>1, <1>2, <1>3, <1>6, <2>1 DEF Pipe, TypeOK, LedgerTypeOK
  <1>8. \A v \in Works : Busy(v)' => v \notin gone /\ Busy(v) /\ work'[v] = work[v]
    BY <1>6, FreeRecord DEF Busy
  <1>9. Phases' /\ Alone'
    BY <1>1, <1>8 DEF Pipe, Phases, Alone, Present
  <1>10. ASSUME NEW v \in Works PROVE WorkShape(v)'
    <2>1. CASE v \in gone
      BY <1>6, <2>1, FreeRecord DEF WorkShape, Busy
    <2>2. CASE v \notin gone
      <3>1. work'[v] = work[v] /\ WorkShape(v)
        BY <1>6, <2>2 DEF Pipe
      <3>2. ASSUME work[v].pc = "parked" PROVE parked'[work[v].partition] = v
        <4>1. work[v].partition \in Partitions /\ parked[work[v].partition] = v
          BY <3>1, <3>2 DEF WorkShape, Busy
        <4>2. work[v].partition # p
          BY <2>2, <4>1, PipelineAssumption DEF gone
        <4> QED
          BY <1>3, <4>1, <4>2
      <3> QED
        BY <1>1, <3>1, <3>2 DEF WorkShape, Busy
    <2> QED
      BY <2>1, <2>2
  <1>11. ASSUME NEW v \in Works PROVE WorkOrder(v)'
    <2>1. CASE v \in gone
      BY <1>6, <2>1, FreeRecord DEF WorkOrder, Busy, Active, ActivePcs
    <2>2. CASE v \notin gone
      BY <1>1, <1>6, <2>2 DEF Pipe, WorkOrder, Busy, Serving, Active, PrefixHandled
    <2> QED
      BY <2>1, <2>2
  <1>12. ASSUME NEW v \in Works PROVE WorkPlace(v)'
    <2> SUFFICES ASSUME Present', Busy(v)' PROVE WorkPlace(v)'
      BY DEF WorkPlace
    <2>1. Busy(v) /\ work'[v] = work[v] /\ Present /\ WorkPlace(v) /\ work[v].partition \in Partitions
      BY <1>1, <1>8 DEF Present, Pipe, WorkShape
    <2>2. CASE work[v].partition = p
      BY <1>1, <2>1, <2>2 DEF WorkPlace
    <2>3. CASE work[v].partition # p
      <3>1. revocations'[work[v].partition] = revocations[work[v].partition]
        BY <1>1, <2>1, <2>3 DEF Pipe, TypeOK
      <3> QED
        BY <1>1, <2>1, <2>3, <3>1 DEF WorkPlace, Serving
    <2> QED
      BY <2>2, <2>3
  <1>13. ASSUME NEW r \in Partitions PROVE PartitionOrder(r)'
    <2>0. PartitionOrder(r)
      BY DEF Pipe
    <2>1. parked'[r] # NONE => work'[parked'[r]].pc = "parked" /\ work'[parked'[r]].partition = r
      <3>1. parked'[r] # NONE => r # p /\ parked'[r] = parked[r] /\ parked[r] \in Works
        BY <1>3 DEF Pipe, TypeOK
      <3>2. parked'[r] # NONE => parked[r] \notin gone
        BY <1>4, <2>0, <3>1 DEF PartitionOrder
      <3> QED
        BY <1>6, <2>0, <3>1, <3>2 DEF PartitionOrder
    <2>2. r \in assigned' => r # p /\ r \notin revoking' /\ r \in assigned
      BY <1>1, <2>0 DEF PartitionOrder
    <2>3. ASSUME r # p, \E v \in Works : Busy(v) /\ work[v].partition = r
          PROVE  \E v \in Works : Busy(v)' /\ work'[v].partition = r
      <3>1. PICK v \in Works : Busy(v) /\ work[v].partition = r
        BY <2>3
      <3>2. v \notin gone
        BY <1>4, <2>3, <3>1
      <3> QED
        BY <1>6, <3>1, <3>2 DEF Busy
    <2> QED
      BY <1>1, <2>0, <2>1, <2>2, <2>3 DEF PartitionOrder, Serving, Present, PrefixHandled
  <1> QED
    BY <1>7, <1>9, <1>10, <1>11, <1>12, <1>13 DEF Pipe

LEMMA ReleaseKeeps ==
  ASSUME WellBehavedClient, Pipe, LedgerTypeOK, NEW p \in Partitions, Release(p) PROVE Pipe'
  <1>1. /\ UNCHANGED <<log, committed, handled, done, dead, state, stopReason, gaveUp, work, parked,
                       revocations, assigned, position, elapsed, faults>>
        /\ p \in revoking /\ revoking' = revoking \ {p} /\ paused' = paused \ {p}
    BY DEF Release, ledger, memory
  <1>2. Present => \A v \in Works : Busy(v) => work[v].partition # p
    BY DEF Release, WellBehavedClient, Present, On, Busy
  <1>3. TypeOK'
    BY <1>1 DEF Pipe, TypeOK, LedgerTypeOK, CountersOK
  <1>4. Phases' /\ Alone'
    BY <1>1 DEF Pipe, Phases, Alone, Busy, Present
  <1>5. ASSUME NEW v \in Works PROVE WorkShape(v)' /\ WorkOrder(v)' /\ WorkPlace(v)'
    <2>1. WorkShape(v)'
      BY <1>1 DEF Pipe, WorkShape, Busy
    <2>2. WorkOrder(v)'
      BY <1>1 DEF Pipe, WorkOrder, Busy, Serving, Active, PrefixHandled
    <2>3. WorkPlace(v)'
      BY <1>1, <1>2 DEF Pipe, WorkPlace, Busy, Serving, Present
    <2> QED
      BY <2>1, <2>2, <2>3
  <1>6. ASSUME NEW r \in Partitions PROVE PartitionOrder(r)'
    BY <1>1 DEF Pipe, PartitionOrder, Busy, Serving, Present, PrefixHandled
  <1> QED
    BY <1>3, <1>4, <1>5, <1>6 DEF Pipe

\* A new assignment reads from the committed offset, behind which everything
\* is handled.
LEMMA AssignKeeps ==
  ASSUME WellBehavedClient, LedgerInv, Pipe, NEW p \in Partitions, Assign(p) PROVE Pipe'
  <1>1. /\ UNCHANGED <<log, committed, handled, done, dead, state, stopReason, gaveUp, work, parked,
                       revocations, paused, revoking, elapsed, faults>>
        /\ p \notin assigned \union revoking /\ assigned' = assigned \union {p}
        /\ position' = [position EXCEPT ![p] = committed[p]]
    BY DEF Assign, ledger, memory
  <1>2. LedgerTypeOK /\ committed[p] \in Nat /\ Len(log[p]) \in Nat
    BY LenProperties DEF LedgerInv, LedgerTypeOK
  <1>3. committed[p] = 0 \/ <<p, committed[p]>> \in handled
    BY <1>2 DEF LedgerInv, CommittedHandled, PrefixHandled
  <1>4. committed[p] <= Len(log[p])
    <2>1. CASE <<p, committed[p]>> \in handled
      BY <1>2, <2>1 DEF LedgerInv, HandledExist
    <2> QED
      BY <1>2, <1>3, <2>1
  <1>5. PrefixHandled(p, committed[p] - 1)
    BY <1>2 DEF LedgerInv, CommittedHandled, PrefixHandled
  <1>6. position' \in [Partitions -> Nat] /\ \A r \in Partitions : r # p => position'[r] = position[r]
    BY <1>1, <1>2 DEF Pipe, TypeOK
  <1>7. position'[p] = committed[p]
    BY <1>1 DEF Pipe, TypeOK
  <1>8. TypeOK'
    BY <1>1, <1>2, <1>6 DEF Pipe, TypeOK, LedgerTypeOK, CountersOK
  <1>9. Phases' /\ Alone'
    <2>1. state' # "stopped"
      BY DEF Assign, memory
    <2> QED
      BY <1>1, <2>1 DEF Pipe, Phases, Alone, Busy, Present
  <1>10. ASSUME NEW v \in Works PROVE WorkShape(v)' /\ WorkOrder(v)' /\ WorkPlace(v)'
    <2>1. WorkShape(v)'
      BY <1>1 DEF Pipe, WorkShape, Busy
    <2>2. WorkOrder(v)'
      BY <1>1 DEF Pipe, WorkOrder, Busy, Serving, Active, PrefixHandled
    <2>3. WorkPlace(v)'
      <3> SUFFICES ASSUME Present', Busy(v)' PROVE WorkPlace(v)'
        BY DEF WorkPlace
      <3>1. Present /\ Busy(v) /\ WorkPlace(v) /\ work[v].partition \in Partitions
        BY <1>1 DEF Present, Busy, Pipe, WorkShape
      <3>2. work[v].partition # p
        BY <1>1, <3>1 DEF WorkPlace
      <3> QED
        BY <1>1, <1>6, <3>1, <3>2 DEF WorkPlace, Serving
    <2> QED
      BY <2>1, <2>2, <2>3
  <1>11. ASSUME NEW r \in Partitions PROVE PartitionOrder(r)'
    <2>0. PartitionOrder(r)
      BY DEF Pipe
    <2>1. CASE r = p
      BY <1>1, <1>2, <1>3, <1>4, <1>5, <1>7, <2>0, <2>1 DEF PartitionOrder, PrefixHandled
    <2>2. CASE r # p
      BY <1>1, <1>6, <2>0, <2>2 DEF PartitionOrder, Busy, Serving, Present, PrefixHandled
    <2> QED
      BY <2>1, <2>2
  <1> QED
    BY <1>8, <1>9, <1>10, <1>11 DEF Pipe

-----------------------------------------------------------------------------
(* The theorems. *)

LEMMA InitInv == Init => IInv
  <1> SUFFICES ASSUME Init PROVE IInv
    OBVIOUS
  <1>1. LedgerInv /\ LedgerTypeOK
    BY LedgerInitInv DEF Init, LedgerInv
  <1>2. \A v \in Works : work[v] = Free /\ ~Busy(v) /\ ~Active(v)
    BY FreeRecord DEF Init, Fresh, Busy, Active, ActivePcs
  <1>3. TypeOK
    <2>1. CountersOK
      BY PipelineAssumption DEF Init, CountersOK
    <2>2. work \in [Works -> WorkRecord]
      BY FreeRecord DEF Init, Fresh
    <2> QED
      BY <1>1, <2>1, <2>2 DEF Init, Fresh, TypeOK
  <1>4. Phases /\ Alone
    BY <1>2 DEF Init, Fresh, Phases, Alone
  <1>5. \A v \in Works : WorkShape(v) /\ WorkOrder(v) /\ WorkPlace(v)
    BY <1>2, FreeRecord DEF WorkShape, WorkOrder, WorkPlace
  <1>6. \A p \in Partitions : PartitionOrder(p)
    BY DEF Init, Fresh, PartitionOrder
  <1> QED
    BY <1>1, <1>3, <1>4, <1>5, <1>6 DEF IInv, Pipe

LEMMA NextInv ==
  ASSUME WellBehavedClient, IInv, [Next]_vars
  PROVE  IInv'
  <1>1. [PromiseNext]_ledger
    BY StepPromise
  <1>2. LedgerInv /\ Pipe /\ LedgerTypeOK /\ LedgerInv' /\ LedgerTypeOK' /\ Grows
    BY <1>1, LedgerGrows DEF IInv, LedgerInv
  <1> SUFFICES Pipe'
    BY <1>2 DEF IInv
  <1>3. ASSUME NEW w \in Works, WorkStep(w) \/ WorkFails(w) PROVE Pipe'
    <2>1. CASE WakeBehind(w) \/ SleepEnds(w) \/ Decoded(w) \/ HoldWakes(w)
      BY <1>2, <2>1, WaitingKeeps
    <2>2. CASE HandlerReturns(w) \/ HandlerThrows(w) \/ HandlerAborts(w)
      BY <1>2, <2>2, HandlerKeeps
    <2>3. CASE HopAcknowledged(w) \/ HopFails(w) \/ Crash(w) \/ CommitLands(w) \/ CommitFails(w)
      BY <1>2, <2>3, ForwardingKeeps
    <2> QED
      BY <1>2, <1>3, <2>1, <2>2, <2>3, ReadyKeeps, ReenterKeeps DEF WorkStep, WorkFails
  <1>4. ASSUME NEW w \in Works, NEW p \in Partitions, Deliver(w, p) PROVE Pipe'
    BY <1>2, <1>4, DeliverKeeps
  <1>5. CASE Stop
    <2>1. StopWith("shutdown", {}) /\ UNCHANGED committed /\ CountersOK'
      BY <1>2, <1>5, PipelineAssumption DEF Stop, Fault, ledger, CountersOK, Pipe, TypeOK
    <2>2. {} \in SUBSET Works /\ (\A v \in {} : Active(v)) /\ "shutdown" \in {"shutdown", "abort", "crash"}
      OBVIOUS
    <2> QED
      BY <1>2, <2>1, <2>2, StopKeeps
  <1>6. CASE Started \/ GiveUp \/ Leave \/ Restart \/ Die
    <2>1. CASE Started
      BY <1>2, <2>1, StartedKeeps
    <2>2. CASE GiveUp \/ Leave
      BY <1>2, <2>2, RetiredKeeps
    <2>3. CASE Restart \/ Die
      BY <1>2, <2>3, NewConsumerKeeps
    <2> QED
      BY <1>6, <2>1, <2>2, <2>3
  <1>7. ASSUME NEW p \in Partitions, Revoke(p) \/ Release(p) \/ Assign(p) PROVE Pipe'
    BY <1>2, <1>7, RevokeKeeps, ReleaseKeeps, AssignKeeps
  <1>8. CASE \/ \E w \in Works : HandlerTransacts(w)
             \/ \E p \in Partitions : Elapse(p) \/ OtherMember(p)
             \/ UNCHANGED vars
    BY <1>2, <1>8, LedgerOnlyKeeps
  <1> QED
    BY <1>3, <1>4, <1>5, <1>6, <1>7, <1>8 DEF Next

LEMMA Invariance == ASSUME WellBehavedClient PROVE Spec => []IInv
  <1>1. IInv /\ [Next]_vars => IInv'
    BY NextInv
  <1> QED
    BY <1>1, InitInv, PTL DEF Spec

\* The types of the pipeline's state, the client's and the ledger's.
THEOREM TypeCorrect == ASSUME WellBehavedClient PROVE Spec => []TypeOK
  <1>1. IInv => TypeOK
    BY DEF IInv, Pipe
  <1> QED
    BY <1>1, Invariance, PTL

\* No record is worked on before every earlier record of its partition has a
\* safe outcome, whatever is parked, held, revoked, stopped or restarted.
THEOREM WorksInOrder == ASSUME WellBehavedClient PROVE Spec => []InOrder
  <1>1. IInv => InOrder
    BY ActiveIs DEF IInv, Pipe, WorkOrder, InOrder
  <1> QED
    BY <1>1, Invariance, PTL

\* Re-entered retry messages run beside the adapter's gate, and still a
\* partition has one record worked on at a time.
THEOREM WorksAlone == ASSUME WellBehavedClient PROVE Spec => []OneAtATime
  <1>1. IInv => OneAtATime
    BY ActiveIs DEF IInv, Pipe, Phases, Alone, Present, OneAtATime
  <1> QED
    BY <1>1, Invariance, PTL

\* What a work still does once the shutdown gave up on it is no commit.
LEMMA AbandonedCommitsNot ==
  ASSUME Pipe, [Next]_vars, gaveUp, NEW v \in Works, work'[v].pc = "committing"
  PROVE  work[v].pc = "committing"
  <1>1. /\ work \in [Works -> WorkRecord] /\ state \in {"stopping", "stopped"}
        /\ \A u \in Works : work[u].ahead = NONE
    BY DEF Pipe, TypeOK, Phases, WorkShape
  <1>2. ASSUME NEW S \in SUBSET Works, work' = Without(S)
        PROVE  work'[v] \in {work[v], Free}
    BY <1>1, <1>2, WithoutFrees
  <1>3. Free.pc # "committing"
    BY FreeRecord
  <1>4. ASSUME NEW w \in Works, Settle(w) PROVE work'[v] \in {work[v], Free}
    BY <1>2, <1>4 DEF Settle
  <1>5. ASSUME NEW w \in Works, NEW pc, pc # "committing", Goto(w, pc)
        PROVE  work[v].pc = "committing"
    BY <1>1, <1>5 DEF Goto
  <1>6. ASSUME NEW w \in Works, NEW reason, StopWith(reason, {w}) \/ StopWith(reason, {})
        PROVE  work'[v] \in {work[v], Free}
    BY <1>1, <1>2, <1>6 DEF StopWith, Drained
  <1>7. ASSUME NEW w \in Works,
               \/ WakeBehind(w) \/ SleepEnds(w) \/ Decoded(w) \/ HoldWakes(w) \/ HandlerReturns(w)
               \/ HandlerThrows(w) \/ HopAcknowledged(w) \/ CommitLands(w) \/ WorkFails(w) \/ Crash(w)
        PROVE  work[v].pc = "committing"
    <2>1. \/ Settle(w) \/ Goto(w, "sleeping") \/ Goto(w, "decoding") \/ Goto(w, "handling")
          \/ Goto(w, "held") \/ Goto(w, "retrying") \/ Goto(w, "deadLettering") \/ Goto(w, "crashing")
          \/ StopWith("crash", {w})
      BY <1>7 DEF WakeBehind, SleepEnds, Decoded, HoldWakes, HandlerReturns, HandlerThrows, HopAcknowledged,
            CommitNext, CommitLands, WorkFails, HandlerAborts, HopFails, CommitFails, Crash, Forwarded
    <2> QED
      BY <1>3, <1>4, <1>5, <1>6, <2>1
  <1>8. ASSUME NEW w \in Works, Ready(w) \/ Reenter(w) \/ HandlerTransacts(w)
        PROVE  work[v].pc = "committing"
    <2>1. CASE Ready(w)
      BY <1>1, <1>3, <1>4, <2>1 DEF Ready
    <2>2. CASE Reenter(w)
      BY <1>1, <2>2 DEF Reenter, Pipe, WorkShape
    <2>3. CASE HandlerTransacts(w)
      BY <2>3 DEF HandlerTransacts, memory
    <2> QED
      BY <1>8, <2>1, <2>2, <2>3
  <1>9. ASSUME NEW w \in Works, NEW p \in Partitions, Deliver(w, p)
        PROVE  work[v].pc = "committing"
    BY <1>1, <1>9 DEF Deliver, Free
  <1>10. CASE Stop
    BY <1>3, <1>6, <1>10 DEF Stop
  <1>11. CASE Started \/ GiveUp \/ Leave \/ UNCHANGED vars
    BY <1>1, <1>11 DEF Started, GiveUp, Leave, vars, memory
  <1>12. CASE Restart \/ Die
    BY <1>3, <1>12 DEF Restart, Die, NewConsumer
  <1>13. ASSUME NEW p \in Partitions, Revoke(p) \/ Release(p) \/ Assign(p) \/ Elapse(p) \/ OtherMember(p)
         PROVE  work[v].pc = "committing"
    <2>1. UNCHANGED work \/ (parked[p] \in Works /\ work' = Without({parked[p]}))
      BY <1>13 DEF Revoke, Release, Assign, Elapse, OtherMember, memory, Pipe, TypeOK
    <2> QED
      BY <1>2, <1>3, <2>1
  <1> QED
    BY <1>7, <1>8, <1>9, <1>10, <1>11, <1>12, <1>13 DEF Next, WorkStep

\* A commit of this member never takes back what a later owner committed,
\* unless its shutdown gave up on its handlers while it was on its way: a
\* handler that was abandoned commits nothing.
THEOREM OffsetsMoveForward == ASSUME WellBehavedClient PROVE Spec => CommitsMoveForward
  <1>1. ASSUME IInv, [Next]_vars, NEW p \in Partitions, committed'[p] < committed[p]
        PROVE  gaveUp
    <2>0. committed \in [Partitions -> Nat] /\ Pipe
      BY <1>1 DEF IInv, LedgerInv, LedgerTypeOK
    <2>1. committed' # committed
      BY <1>1, <2>0
    <2>2. CASE \E w \in Works : CommitLands(w) \/ HandlerTransacts(w)
      <3>1. PICK w \in Works : CommitLands(w) \/ HandlerTransacts(w)
        BY <2>2
      <3>2. /\ Busy(w) /\ work[w].partition \in Partitions /\ work[w].offset \in Nat
            /\ committed' = [committed EXCEPT ![work[w].partition] = work[w].offset]
        <4>1. Active(w)
          BY <3>1 DEF CommitLands, HandlerTransacts, Active, ActivePcs
        <4> QED
          BY <2>0, <3>1, <4>1, ActiveIs, WorkRecordExists DEF CommitLands, HandlerTransacts, Commit, Transact
      <3>3. state # "stopped"
        <4>1. CASE CommitLands(w)
          BY <4>1 DEF CommitLands
        <4>2. CASE HandlerTransacts(w)
          BY <2>0, <4>2 DEF HandlerTransacts, Pipe, Phases
        <4> QED
          BY <3>1, <4>1, <4>2
      <3>4. work[w].partition = p
        BY <1>1, <2>0, <3>2
      <3>5. Present => committed[p] <= work[w].offset
        BY <2>0, <3>2, <3>4 DEF Pipe, WorkPlace
      <3> QED
        BY <1>1, <2>0, <3>2, <3>3, <3>4, <3>5 DEF Present
    <2>3. CASE \E r \in Partitions : OtherMember(r)
      BY <1>1, <2>0, <2>1, <2>3 DEF OtherMember, Commit, Resolve, Hop, DeadLetter
    <2>4. CASE \E w \in Works : WorkStep(w) /\ ~CommitLands(w)
      BY <2>1, <2>4 DEF WorkStep, Ready, Reenter, WakeBehind, SleepEnds, Decoded, HoldWakes,
            HandlerReturns, HandlerThrows, HopAcknowledged, Crash, ledger, Resolve, Hop, DeadLetter
    <2>5. CASE \E w \in Works : WorkFails(w)
      BY <2>1, <2>5 DEF WorkFails, HandlerAborts, HopFails, CommitFails, ledger, Copy, CopyToDlq
    <2>6. CASE \/ \E w \in Works, r \in Partitions : Deliver(w, r)
               \/ Started \/ Stop \/ GiveUp \/ Leave \/ Restart \/ Die
               \/ \E r \in Partitions : Revoke(r) \/ Release(r) \/ Assign(r) \/ Elapse(r)
               \/ UNCHANGED vars
      BY <2>1, <2>6 DEF Deliver, Started, Stop, GiveUp, Leave, Restart, Die, Revoke, Release,
            Assign, Elapse, vars, ledger
    <2> QED
      BY <1>1, <2>2, <2>3, <2>4, <2>5, <2>6 DEF Next
  <1>2. IInv /\ [Next]_vars =>
          [/\ \A p \in Partitions : committed'[p] < committed[p] => gaveUp
           /\ \A w \in Works : gaveUp /\ work'[w].pc = "committing" => work[w].pc = "committing"]_vars
    BY <1>1, AbandonedCommitsNot DEF IInv
  <1> QED
    BY <1>2, Invariance, PTL DEF CommitsMoveForward, Spec

\* The pipeline keeps the promise: every step of it is a step of the abstract
\* specification, or one that leaves the ledger alone.
THEOREM KeepsThePromise == ASSUME WellBehavedClient PROVE Spec => PromiseSpec
  <1>1. Init => LedgerInit
    BY DEF Init
  <1>2. IInv /\ [Next]_vars => [PromiseNext]_ledger
    BY StepPromise
  <1> QED
    BY <1>1, <1>2, Invariance, PTL DEF Spec, PromiseSpec

\* At-least-once, under every interleaving of deliveries, retries, holds,
\* rebalances, stops, crashes and failed calls the model has.
THEOREM LosesNothing == ASSUME WellBehavedClient PROVE Spec => []NothingLost
  BY KeepsThePromise, PromiseKeepsMessages, PTL

-----------------------------------------------------------------------------
(* A partition is paused exactly while one of its records is parked, or runs *)
(* after it was.  The invariant next to IInv that says so.                   *)

Pauses ==
    /\ state = "starting" => paused = {}
    /\ paused \subseteq assigned \union revoking
    /\ \A w \in Works : work[w].pc = "arrived" => ~work[w].reentry
    /\ PausedWhileParked

Back(w) == work[w].pc = "parked" \/ work[w].reentry

\* A work ends, a stop comes, or a work moves on: nothing is parked by it.
LEMMA PausesSettle ==
  ASSUME Pipe, Pauses, NEW w \in Works, Busy(w), work[w].pc # "parked", Settle(w)
  PROVE  Pauses'
  <1> DEFINE q == work[w].partition
  <1>1. work' = [v \in Works |-> IF v \in {w} THEN Free ELSE work[v]]
    BY WithoutFrees DEF Settle, Pipe, WorkShape
  <1>2. /\ work'[w] = Free /\ \A v \in Works : v # w => work'[v] = work[v]
        /\ Free.pc = "free" /\ ~Free.reentry
    BY <1>1, FreeRecord DEF Free
  <1>3. /\ UNCHANGED <<state, assigned, revoking>> /\ paused' \subseteq paused
        /\ q \in paused' => q \in paused /\ ~work[w].reentry
        /\ \A p \in Partitions : p # q => (p \in paused' <=> p \in paused)
    BY DEF Settle, Resumed
  <1>4. \A v \in Works : work'[v].pc = "arrived" => ~work'[v].reentry
    BY <1>2 DEF Pauses
  <1>5. ASSUME state = "running", NEW p \in assigned
        PROVE  p \in paused' <=> \E v \in Works : work'[v].pc # "free" /\ work'[v].partition = p
                                                  /\ (work'[v].pc = "parked" \/ work'[v].reentry)
    <2>1. p \in paused <=> \E v \in Works : Busy(v) /\ work[v].partition = p /\ Back(v)
      BY <1>5 DEF Pauses, PausedWhileParked, On, Busy, Back
    <2>2. CASE p = q
      <3>1. \A v \in Works : Busy(v) /\ work[v].partition = p => v = w
        BY <1>5, <2>2 DEF Pipe, Phases, Alone, Present
      <3> QED
        BY <1>2, <1>3, <2>1, <2>2, <3>1 DEF Busy, Back
    <2>3. CASE p # q
      <3>1. p \in Partitions
        BY DEF Pipe, TypeOK
      <3> QED
        BY <1>2, <1>3, <2>1, <2>3, <3>1 DEF Busy, Back
    <2> QED
      BY <2>2, <2>3
  <1>6. PausedWhileParked'
    BY <1>3, <1>5 DEF PausedWhileParked, On
  <1> QED
    BY <1>3, <1>4, <1>6 DEF Pauses

LEMMA PausesStop ==
  ASSUME Pipe, Pauses, NEW reason, NEW gone \in SUBSET Works, StopWith(reason, gone)
  PROVE  Pauses'
  <1>1. /\ state' \notin {"starting", "running"} /\ UNCHANGED <<assigned, revoking>>
        /\ paused' \subseteq paused
    BY DEF StopWith, Drained, Resumed
  <1>2. PICK S \in SUBSET Works : work' = Without(S)
    BY DEF StopWith, Parked
  <1>3. \A v \in Works : work'[v] = Free \/ work'[v] = work[v]
    BY <1>2, WithoutFrees DEF Pipe, WorkShape
  <1>4. \A v \in Works : work'[v].pc = "arrived" => ~work'[v].reentry
    BY <1>3, FreeRecord DEF Pauses
  <1> QED
    BY <1>1, <1>4 DEF Pauses, PausedWhileParked

LEMMA PausesGoto ==
  ASSUME Pipe, Pauses, NEW w \in Works, NEW pc \in Pcs \ {"free", "arrived", "parked"},
         Busy(w), work[w].pc # "parked", Goto(w, pc)
  PROVE  Pauses'
  <1>1. /\ work'[w].pc = pc /\ work'[w].partition = work[w].partition
        /\ work'[w].reentry = work[w].reentry
        /\ \A v \in Works : v # w => work'[v] = work[v]
    BY DEF Goto, Pipe, TypeOK, WorkRecord
  <1>2. UNCHANGED <<state, paused, assigned, revoking>>
    BY DEF Goto, client
  <1>3. \A v \in Works : work'[v].pc = "arrived" => ~work'[v].reentry
    BY <1>1 DEF Pauses
  <1>4. \A p \in Partitions :
           (\E v \in On(p)' : work'[v].pc = "parked" \/ work'[v].reentry)
              <=> \E v \in On(p) : work[v].pc = "parked" \/ work[v].reentry
    BY <1>1 DEF On, Busy
  <1>5. PausedWhileParked'
    BY <1>2, <1>4 DEF Pauses, PausedWhileParked, Pipe, TypeOK
  <1> QED
    BY <1>2, <1>3, <1>5 DEF Pauses

\* A delivery is placed in w as the record b, on a partition nothing paused.
LEMMA PausesPlace ==
  ASSUME Pipe, Pauses, UNCHANGED <<state, assigned, revoking>>,
         NEW p \in assigned \union revoking, NEW w \in Works, NEW b \in WorkRecord,
         work[w].pc = "free" \/ (work[w].partition = p /\ ~Back(w)),
         \A v \in Works : v # w /\ Busy(v) => work[v].partition # p,
         p \in assigned /\ state = "running" => p \notin paused,
         work' = [work EXCEPT ![w] = b], b.partition = p, ~b.reentry, b.pc # "free",
         IF b.pc = "parked" THEN state = "running" /\ paused' = paused \union {p}
                            ELSE paused' = paused
  PROVE  Pauses'
  <1>1. work'[w] = b /\ \A v \in Works : v # w => work'[v] = work[v]
    BY DEF Pipe, TypeOK
  <1>2. \A v \in Works : work'[v].pc = "arrived" => ~work'[v].reentry
    BY <1>1 DEF Pauses
  <1>3. ASSUME state = "running", NEW r \in assigned
        PROVE  r \in paused' <=> \E v \in Works : work'[v].pc # "free" /\ work'[v].partition = r
                                                  /\ (work'[v].pc = "parked" \/ work'[v].reentry)
    <2>1. r \in paused <=> \E v \in Works : Busy(v) /\ work[v].partition = r /\ Back(v)
      BY <1>3 DEF Pauses, PausedWhileParked, On, Busy, Back
    <2>2. CASE r = p
      BY <1>1, <1>3, <2>2 DEF Busy
    <2>3. CASE r # p
      BY <1>1, <2>1, <2>3 DEF Busy, Back
    <2> QED
      BY <2>2, <2>3
  <1>4. PausedWhileParked'
    BY <1>3 DEF PausedWhileParked, On
  <1>5. paused' \subseteq assigned' \union revoking' /\ (state' = "starting" => paused' = {})
    BY DEF Pauses
  <1> QED
    BY <1>2, <1>4, <1>5 DEF Pauses

\* What process() makes of a delivery keeps where it came from.
LEMMA ProcessComesFrom ==
  ASSUME WellBehavedClient, Pipe, NEW w \in Works, NEW delivery \in WorkRecord,
         delivery.partition \in Partitions, parked[delivery.partition] = NONE, ~delivery.reentry,
         Process(w, delivery)
  PROVE  ~work'[w].reentry
  <1> DEFINE begun(pc) == [delivery EXCEPT !.pc = pc, !.revocation = revocations[delivery.partition]]
  <1>1. ASSUME NEW pc PROVE ~begun(pc).reentry /\ ~[begun(pc) EXCEPT !.open = FALSE].reentry
    BY DEF WorkRecord
  <1>2. \/ \E pc \in {"deadLettering", "crashing", "decoding", "sleeping"} :
              work' = [work EXCEPT ![w] = begun(pc)]
        \/ work' = [work EXCEPT ![w] = [begun("parked") EXCEPT !.open = FALSE]]
    BY DEF Process
  <1> HIDE DEF begun
  <1> QED
    BY <1>1, <1>2 DEF Pipe, TypeOK

LEMMA ParkedWork ==
  ASSUME Pipe, NEW p \in Partitions, parked[p] # NONE
  PROVE  parked[p] \in Works /\ work[parked[p]].pc = "parked" /\ work[parked[p]].partition = p
  <1>1. PartitionOrder(p) /\ parked \in [Partitions -> Works \union {NONE}]
    BY DEF Pipe, TypeOK
  <1> QED
    BY <1>1 DEF PartitionOrder

LEMMA PausesDeliver ==
  ASSUME WellBehavedClient, Pipe, Pauses, NEW w \in Works, NEW p \in Partitions, Deliver(w, p)
  PROVE  Pauses'
  <1> DEFINE delivery == [Free EXCEPT !.pc = "arrived", !.partition = p, !.open = TRUE,
                                      !.offset = position[p] + 1, !.received = revocations[p]]
  <1>0. position[p] + 1 \in Nat /\ revocations[p] \in Nat
    BY DEF Pipe, TypeOK
  <1>1. /\ delivery \in WorkRecord /\ delivery.pc = "arrived" /\ delivery.partition = p
        /\ delivery.ahead = NONE /\ ~delivery.reentry
    <2>1. "arrived" \in Pcs /\ Free \in WorkRecord /\ Free.ahead = NONE /\ ~Free.reentry
      BY FreeRecord DEF Pcs, Free
    <2> QED
      BY <1>0, <2>1 DEF WorkRecord
  <1>2. /\ work[w].pc = "free" /\ p \in assigned /\ p \notin paused
        /\ \A v \in Works : Busy(v) /\ work[v].partition = p => ~work[v].open
        /\ UNCHANGED <<state, gaveUp, revocations, assigned, revoking>>
    BY DEF Deliver, WellBehavedClient, On, Busy
  <1> HIDE DEF delivery
  <1>3. CASE state = "running"
    <2>1. Present
      BY <1>3 DEF Present, Pipe, Phases
    <2>2. ASSUME NEW v \in Works, Busy(v) PROVE work[v].partition # p
      <3>1. WorkPlace(v)
        BY DEF Pipe
      <3> QED
        BY <1>2, <2>1, <2>2, <3>1 DEF WorkPlace
    <2>3. parked[p] = NONE
      BY <2>2, ParkedWork DEF Busy
    <2>4. Process(w, delivery)
      BY <1>3 DEF Deliver, delivery
    <2>5. PICK b \in WorkRecord :
            /\ work' = [work EXCEPT ![w] = b]
            /\ b.partition = p
            /\ b.pc \in {"deadLettering", "crashing", "decoding", "parked", "sleeping"}
            /\ \/ b.pc = "parked" /\ paused' = paused \union {p}
               \/ b.pc # "parked" /\ UNCHANGED <<parked, paused>>
      BY <1>1, <2>3, <2>4, ProcessPlaces
    <2>6. work'[w] = b /\ ~b.reentry
      BY <1>1, <2>3, <2>4, <2>5, ProcessComesFrom DEF Pipe, TypeOK
    <2> QED
      BY <1>2, <1>3, <2>2, <2>5, <2>6, PausesPlace
  <1>4. CASE state # "running"
    <2>1. work' = [work EXCEPT ![w] = delivery] /\ UNCHANGED paused
      BY <1>4 DEF Deliver, delivery
    <2>2. \A v \in Works : work'[v] = delivery \/ work'[v] = work[v]
      BY <2>1 DEF Pipe, TypeOK
    <2>3. \A v \in Works : work'[v].pc = "arrived" => ~work'[v].reentry
      BY <1>1, <2>2 DEF Pauses
    <2> QED
      BY <1>2, <1>4, <2>1, <2>3 DEF Pauses, PausedWhileParked
  <1> QED
    BY <1>3, <1>4

LEMMA PausesReady ==
  ASSUME WellBehavedClient, Pipe, Pauses, NEW w \in Works, Ready(w)
  PROVE  Pauses'
  <1> DEFINE p == work[w].partition
  <1>1. /\ work[w].pc = "arrived" /\ Busy(w) /\ work[w] \in WorkRecord /\ work[w].ahead = NONE
        /\ p \in Partitions /\ ~work[w].reentry
    BY DEF Ready, Busy, Pipe, TypeOK, WorkShape, Pauses
  <1>2. CASE state # "running"
    BY <1>1, <1>2, PausesSettle DEF Ready
  <1>3. CASE state = "running"
    <2>1. Present /\ p \in assigned \union revoking
      BY <1>1, <1>3 DEF Present, Pipe, Phases, WorkPlace
    <2>2. \A v \in Works : v # w /\ Busy(v) => work[v].partition # p
      BY <1>1, <2>1 DEF Pipe, Alone
    <2>3. parked[p] = NONE
      <3>1. parked[p] # NONE => /\ parked[p] \in Works /\ work[parked[p]].pc = "parked"
                                /\ work[parked[p]].partition = p
        BY <1>1, ParkedWork
      <3> QED
        BY <1>1, <2>2, <3>1 DEF Busy
    <2>4. Process(w, work[w]) /\ UNCHANGED <<state, assigned, revoking>>
      BY <1>3 DEF Ready
    <2>5. PICK b \in WorkRecord :
            /\ work' = [work EXCEPT ![w] = b]
            /\ b.partition = p
            /\ b.pc \in {"deadLettering", "crashing", "decoding", "parked", "sleeping"}
            /\ \/ b.pc = "parked" /\ paused' = paused \union {p}
               \/ b.pc # "parked" /\ UNCHANGED <<parked, paused>>
      BY <1>1, <2>3, <2>4, ProcessPlaces
    <2>6. work'[w] = b /\ ~b.reentry
      BY <1>1, <2>3, <2>4, <2>5, ProcessComesFrom DEF Pipe, TypeOK
    <2>7. p \in assigned => p \notin paused
      BY <1>1, <1>3, <2>2 DEF Pauses, PausedWhileParked, On, Busy
    <2>8. ~Back(w)
      BY <1>1 DEF Back
    <2> QED
      BY <1>3, <2>1, <2>2, <2>4, <2>5, <2>6, <2>7, <2>8, PausesPlace
  <1> QED
    BY <1>2, <1>3

\* A parked record runs: it still counts as one the partition is paused for.
LEMMA PausesReenter ==
  ASSUME Pipe, Pauses, NEW w \in Works, Reenter(w)
  PROVE  Pauses'
  <1>1. /\ work[w].pc = "parked" /\ UNCHANGED <<state, paused, assigned, revoking>>
        /\ work' = [work EXCEPT ![w] = [work[w] EXCEPT !.pc = "decoding", !.reentry = TRUE,
                        !.received = revocations[work[w].partition],
                        !.revocation = revocations[work[w].partition]]]
    BY DEF Reenter, client
  <1>2. /\ work'[w].pc = "decoding" /\ work'[w].partition = work[w].partition
        /\ work'[w].reentry /\ \A v \in Works : v # w => work'[v] = work[v]
    BY <1>1 DEF Pipe, TypeOK, WorkRecord
  <1>3. \A v \in Works : work'[v].pc = "arrived" => ~work'[v].reentry
    BY <1>2 DEF Pauses
  <1>4. \A p \in Partitions :
           (\E v \in On(p)' : work'[v].pc = "parked" \/ work'[v].reentry)
              <=> \E v \in On(p) : work[v].pc = "parked" \/ work[v].reentry
    BY <1>1, <1>2 DEF On
  <1>5. PausedWhileParked'
    BY <1>1, <1>4 DEF Pauses, PausedWhileParked, Pipe, TypeOK
  <1> QED
    BY <1>1, <1>3, <1>5 DEF Pauses

\* The member and the group around it: what changes the pauses or the works.
LEMMA PausesOutside ==
  ASSUME WellBehavedClient, Pipe, Pauses,
         \/ Started \/ GiveUp \/ Leave \/ Restart \/ Die
         \/ \E p \in Partitions : Revoke(p) \/ Release(p) \/ Assign(p)
  PROVE  Pauses'
  <1>1. CASE Started
    <2>1. state = "starting" /\ state' = "running" /\ UNCHANGED <<work, paused, assigned, revoking>>
      BY <1>1 DEF Started, client
    <2>2. \A v \in Works : Busy(v) => ~Back(v)
      BY <2>1 DEF Pipe, WorkShape, Pauses, Back
    <2> QED
      BY <2>1, <2>2 DEF Pauses, PausedWhileParked, On, Busy, Back
  <1>2. CASE GiveUp
    <2>1. /\ state = "stopping" /\ UNCHANGED <<state, paused, assigned, revoking>>
          /\ work' = [w \in Works |-> IF Active(w) THEN [work[w] EXCEPT !.open = FALSE] ELSE work[w]]
      BY <1>2 DEF GiveUp, client
    <2>2. \A v \in Works : work'[v].pc = work[v].pc /\ work'[v].reentry = work[v].reentry
      BY <2>1 DEF Pipe, TypeOK, WorkRecord
    <2> QED
      BY <2>1, <2>2 DEF Pauses, PausedWhileParked
  <1>3. CASE Leave
    BY <1>3 DEF Leave, Pauses, PausedWhileParked
  <1>4. CASE Restart \/ Die
    <2>1. /\ state' = "starting" /\ paused' = {} /\ \A v \in Works : work'[v] = Free
      BY <1>4 DEF Restart, Die, NewConsumer
    <2> QED
      BY <2>1, FreeRecord DEF Pauses, PausedWhileParked
  <1>5. ASSUME NEW p \in Partitions, Revoke(p) PROVE Pauses'
    <2>1. /\ assigned' = assigned \ {p} /\ revoking' = revoking \union {p} /\ UNCHANGED state
          /\ paused' \subseteq paused
          /\ \A r \in Partitions : r # p => (r \in paused' <=> r \in paused)
      BY <1>5 DEF Revoke
    <2>2. \A v \in Works : \/ work'[v] = work[v]
                           \/ work'[v] = Free /\ work[v].partition = p
      <3>1. CASE parked[p] = NONE
        BY <1>5, <3>1 DEF Revoke
      <3>2. CASE parked[p] # NONE
        <4>1. parked[p] \in Works /\ work[parked[p]].partition = p
          BY <3>2 DEF Pipe, TypeOK, PartitionOrder
        <4>2. work' = [v \in Works |-> IF v \in {parked[p]} THEN Free ELSE work[v]]
          BY <1>5, <3>2, <4>1, WithoutFrees DEF Revoke, Pipe, WorkShape
        <4> QED
          BY <4>1, <4>2
      <3> QED
        BY <3>1, <3>2
    <2>3. \A v \in Works : work'[v].pc = "arrived" => ~work'[v].reentry
      BY <2>2, FreeRecord DEF Pauses
    <2>4. ASSUME NEW r \in assigned'
          PROVE (\E v \in On(r)' : work'[v].pc = "parked" \/ work'[v].reentry)
                   <=> \E v \in On(r) : work[v].pc = "parked" \/ work[v].reentry
      BY <2>1, <2>2, FreeRecord DEF On
    <2>5. PausedWhileParked'
      BY <2>1, <2>4 DEF Pauses, PausedWhileParked, Pipe, TypeOK
    <2> QED
      BY <2>1, <2>3, <2>5 DEF Pauses
  <1>6. ASSUME NEW p \in Partitions, Release(p) PROVE Pauses'
    <2>1. /\ revoking' = revoking \ {p} /\ paused' = paused \ {p} /\ p \notin assigned
          /\ UNCHANGED <<state, work, assigned>>
      BY <1>6 DEF Release, memory, Pipe, PartitionOrder
    <2> QED
      BY <2>1 DEF Pauses, PausedWhileParked, On
  <1>7. ASSUME NEW p \in Partitions, Assign(p) PROVE Pauses'
    <2>1. /\ p \notin assigned \union revoking /\ assigned' = assigned \union {p}
          /\ UNCHANGED <<state, work, paused, revoking>>
      BY <1>7 DEF Assign, memory
    <2>2. state = "running" => \A v \in Works : Busy(v) => work[v].partition # p
      BY <2>1 DEF Pipe, Phases, Present, WorkPlace
    <2>3. p \notin paused
      BY <2>1 DEF Pauses
    <2> QED
      BY <2>1, <2>2, <2>3 DEF Pauses, PausedWhileParked, On, Busy
  <1> QED
    BY <1>1, <1>2, <1>3, <1>4, <1>5, <1>6, <1>7

LEMMA PausesNext ==
  ASSUME WellBehavedClient, IInv, Pauses, [Next]_vars
  PROVE  Pauses'
  <1>0. Pipe
    BY DEF IInv
  <1>1. ASSUME NEW w \in Works, WorkStep(w) \/ WorkFails(w) PROVE Pauses'
    <2>1. CASE Ready(w) \/ Reenter(w)
      BY <1>0, <2>1, PausesReady, PausesReenter
    <2>2. CASE ~(Ready(w) \/ Reenter(w))
      <3>1. Busy(w) /\ work[w].pc # "parked"
        BY <1>1, <2>2 DEF WorkStep, WorkFails, WakeBehind, SleepEnds, Decoded, HoldWakes, HandlerReturns,
              HandlerThrows, HopAcknowledged, Crash, CommitLands, HandlerAborts, HopFails, CommitFails, Busy
      <3>2. \/ Settle(w)
            \/ \E pc \in Pcs \ {"free", "arrived", "parked"} : Goto(w, pc)
            \/ \E reason : StopWith(reason, {w})
        BY <1>1, <2>2 DEF WorkStep, WorkFails, WakeBehind, SleepEnds, Decoded, HoldWakes, HandlerReturns,
              HandlerThrows, HopAcknowledged, CommitNext, Crash, CommitLands, HandlerAborts, HopFails,
              CommitFails, Forwarded, Pcs, ActivePcs
      <3> QED
        BY <1>0, <3>1, <3>2, PausesSettle, PausesGoto, PausesStop
    <2> QED
      BY <2>1, <2>2
  <1>2. ASSUME NEW w \in Works, NEW p \in Partitions, Deliver(w, p) PROVE Pauses'
    BY <1>0, <1>2, PausesDeliver
  <1>3. CASE Stop
    BY <1>0, <1>3, PausesStop DEF Stop
  <1>4. CASE \/ Started \/ GiveUp \/ Leave \/ Restart \/ Die
             \/ \E p \in Partitions : Revoke(p) \/ Release(p) \/ Assign(p)
    BY <1>0, <1>4, PausesOutside
  <1>5. CASE \/ \E w \in Works : HandlerTransacts(w)
             \/ \E p \in Partitions : Elapse(p) \/ OtherMember(p)
             \/ UNCHANGED vars
    <2>1. UNCHANGED <<state, work, paused, assigned, revoking>>
      BY <1>5 DEF HandlerTransacts, Elapse, OtherMember, vars, memory, client
    <2> QED
      BY <2>1 DEF Pauses, PausedWhileParked, On
  <1> QED
    BY <1>1, <1>2, <1>3, <1>4, <1>5 DEF Next

\* No pause is left behind and none is lifted early: a partition is paused
\* exactly while one of its records waits for its delay or runs after it.
THEOREM PausedForTheParked == ASSUME WellBehavedClient PROVE Spec => []PausedWhileParked
  <1>1. Init => Pauses
    BY FreeRecord DEF Init, Fresh, Pauses, PausedWhileParked
  <1>2. IInv /\ Pauses /\ [Next]_vars => Pauses'
    BY PausesNext
  <1>3. Pauses => PausedWhileParked
    BY DEF Pauses
  <1> QED
    BY <1>1, <1>2, <1>3, Invariance, PTL DEF Spec

-----------------------------------------------------------------------------
(* A client that delivers through a pause.  Two records of a partition may   *)
(* then be in hand, and the later one waits behind the parked one: what is   *)
(* needed is the order they were delivered in, and that a partition is not   *)
(* read anew under them.                                                     *)

ShapesOK ==
    /\ work \in [Works -> WorkRecord]
    /\ parked \in [Partitions -> Works \union {NONE}]
    /\ position \in [Partitions -> Nat] /\ revocations \in [Partitions -> Nat]
    /\ committed \in [Partitions -> Nat]

\* A work is about a record the client delivered, the last one while its
\* promise is open.  One that waits behind another keeps its promise open, and
\* the other one does not.
InHand(w) ==
    /\ ~Busy(w) => work[w] = Free
    /\ Busy(w) => work[w].partition \in Partitions /\ work[w].offset <= position[work[w].partition]
    /\ Busy(w) /\ work[w].open => work[w].offset = position[work[w].partition]
    /\ work[w].pc \in {"arrived", "behind"} => work[w].open
    /\ work[w].pc = "parked" => ~work[w].open
    /\ work[w].pc # "behind" => work[w].ahead = NONE
    /\ work[w].ahead # NONE => LET a == work[w].ahead
                               IN  Busy(a) /\ ~work[a].open /\ work[a].partition = work[w].partition
    /\ Busy(w) /\ Serving => work[w].partition \in assigned \union revoking

\* The open delivery of a partition is the latest record of it in hand.
Latest ==
    \A v, w \in Works :
        v # w /\ Busy(v) /\ Busy(w) /\ work[v].partition = work[w].partition /\ work[w].open
           => ~work[v].open /\ work[v].offset < work[w].offset

Registered(p) == parked[p] # NONE => work[parked[p]].pc = "parked" /\ work[parked[p]].partition = p

HandInv ==
    /\ ShapesOK
    /\ gaveUp => ~Serving
    /\ Latest
    /\ \A w \in Works : InHand(w)
    /\ \A p \in Partitions : Registered(p)

\* Works end, with their registration; nothing else of them moves.
LEMMA HandFewer ==
  ASSUME HandInv, NEW S \in SUBSET Works, work' = Without(S), UNCHANGED position,
         revocations' \in [Partitions -> Nat],
         committed' \in [Partitions -> Nat], parked' \in [Partitions -> Works \union {NONE}],
         \A p \in Partitions : parked'[p] # NONE => parked'[p] = parked[p] /\ parked[p] \notin S,
         Serving' => Serving /\ assigned \union revoking \subseteq assigned' \union revoking',
         gaveUp' => ~Serving'
  PROVE  HandInv'
  <1>1. NONE \notin Works
    BY PipelineAssumption
  <1>2. ASSUME NEW v \in Works
        PROVE  /\ v \in S => work'[v] = Free
               /\ v \notin S => /\ work'[v].pc = work[v].pc /\ work'[v].partition = work[v].partition
                                /\ work'[v].offset = work[v].offset /\ work'[v].open = work[v].open
                                /\ work'[v].ahead = IF work[v].ahead \in S THEN NONE ELSE work[v].ahead
                                /\ work[v].ahead \notin S => work'[v] = work[v]
               /\ work'[v] \in WorkRecord
    <2>1. work[v] \in WorkRecord /\ Free \in WorkRecord
      BY FreeRecord DEF HandInv, ShapesOK
    <2>2. CASE v \in S
      BY <2>1, <2>2 DEF Without
    <2>3. CASE v \notin S /\ work[v].ahead \in S
      <3>1. work'[v] = [work[v] EXCEPT !.ahead = NONE]
        BY <2>3 DEF Without
      <3> QED
        BY <2>1, <2>3, <3>1 DEF WorkRecord
    <2>4. CASE v \notin S /\ work[v].ahead \notin S
      BY <2>1, <2>4 DEF Without
    <2> QED
      BY <2>2, <2>3, <2>4
  <1>3. ShapesOK'
    <2>1. work' \in [Works -> WorkRecord]
      BY <1>2 DEF Without
    <2> QED
      BY <2>1 DEF HandInv, ShapesOK
  <1>4. ASSUME NEW v \in Works, Busy(v)'
        PROVE  /\ v \notin S /\ Busy(v) /\ work'[v].pc = work[v].pc
               /\ work'[v].partition = work[v].partition
               /\ work'[v].offset = work[v].offset /\ work'[v].open = work[v].open
    BY <1>2, <1>4, FreeRecord DEF Busy
  <1>5. Latest'
    BY <1>4 DEF HandInv, Latest
  <1>6. ASSUME NEW v \in Works PROVE InHand(v)'
    <2>0. InHand(v)
      BY DEF HandInv
    <2>1. CASE v \in S
      BY <1>2, <2>1, FreeRecord DEF InHand, Busy
    <2>2. CASE v \notin S
      <3>1. ~Busy(v)' => work'[v] = Free
        <4> SUFFICES ASSUME ~Busy(v)' PROVE work'[v] = Free
          OBVIOUS
        <4>1. ~Busy(v)
          BY <1>2, <2>2 DEF Busy
        <4>2. work[v] = Free /\ work[v].ahead \notin S
          BY <1>1, <2>0, <4>1, FreeRecord DEF InHand
        <4> QED
          BY <1>2, <2>2, <4>2
      <3>2. work'[v].ahead # NONE => /\ work'[work'[v].ahead].pc # "free" /\ ~work'[work'[v].ahead].open
                                     /\ work'[work'[v].ahead].partition = work'[v].partition
        <4> SUFFICES ASSUME work'[v].ahead # NONE
                     PROVE  /\ work'[work'[v].ahead].pc # "free" /\ ~work'[work'[v].ahead].open
                            /\ work'[work'[v].ahead].partition = work'[v].partition
          OBVIOUS
        <4>1. work[v].ahead \notin S /\ work'[v] = work[v] /\ work[v].ahead # NONE
          BY <1>2, <2>2
        <4>2. work[v].ahead \in Works
          BY <4>1 DEF HandInv, ShapesOK, WorkRecord
        <4>3. /\ Busy(work[v].ahead) /\ ~work[work[v].ahead].open
              /\ work[work[v].ahead].partition = work[v].partition
          BY <2>0, <4>1 DEF InHand
        <4> QED
          BY <1>2, <4>1, <4>2, <4>3 DEF Busy
      <3>3. Busy(v)' <=> Busy(v)
        BY <1>2, <2>2 DEF Busy
      <3>4. /\ Busy(v)' => work'[v].partition \in Partitions /\ work'[v].offset <= position'[work'[v].partition]
            /\ Busy(v)' /\ work'[v].open => work'[v].offset = position'[work'[v].partition]
        BY <1>2, <2>0, <2>2, <3>3 DEF InHand
      <3>5. /\ work'[v].pc \in {"arrived", "behind"} => work'[v].open
            /\ work'[v].pc = "parked" => ~work'[v].open
            /\ work'[v].pc # "behind" => work'[v].ahead = NONE
            /\ Busy(v)' /\ Serving' => work'[v].partition \in assigned' \union revoking'
        BY <1>2, <2>0, <2>2, <3>3 DEF InHand
      <3> QED
        BY <3>1, <3>2, <3>4, <3>5 DEF InHand, Busy
    <2> QED
      BY <2>1, <2>2
  <1>7. ASSUME NEW p \in Partitions PROVE Registered(p)'
    <2> SUFFICES ASSUME parked'[p] # NONE
                 PROVE  work'[parked'[p]].pc = "parked" /\ work'[parked'[p]].partition = p
      BY DEF Registered
    <2>1. parked'[p] = parked[p] /\ parked[p] \notin S /\ parked[p] \in Works
      BY DEF HandInv, ShapesOK
    <2>2. work[parked[p]].pc = "parked" /\ work[parked[p]].partition = p
      BY <2>1 DEF HandInv, Registered
    <2> QED
      BY <1>2, <2>1, <2>2
  <1> QED
    BY <1>3, <1>5, <1>6, <1>7 DEF HandInv

\* One work becomes the record b about p: it goes on, or a delivery begins.
Takes(w, b, p) ==
    /\ work' = [work EXCEPT ![w] = b] /\ UNCHANGED revocations
    /\ committed' \in [Partitions -> Nat] /\ position' \in [Partitions -> Nat]
    /\ parked' \in [Partitions -> Works \union {NONE}]
    /\ b.partition = p /\ b.pc # "free"
    /\ Serving' => /\ Serving /\ assigned \union revoking \subseteq assigned' \union revoking'
                   /\ p \in assigned \union revoking
    /\ gaveUp' => ~Serving'
    /\ \A r \in Partitions : r # p => position'[r] = position[r]
    /\ position[p] <= position'[p] /\ b.offset <= position'[p]
    /\ b.open => b.offset = position'[p]
    /\ \A v \in Works : v # w /\ Busy(v) /\ work[v].partition = p =>
           /\ work[v].open => position'[p] = position[p] /\ ~b.open /\ b.offset < position[p]
           /\ b.open => work[v].offset < b.offset
    /\ Busy(w) => work[w].partition = p /\ (b.open => work[w].open)
    /\ b.pc \in {"arrived", "behind"} => b.open
    /\ b.pc = "parked" => ~b.open
    /\ b.pc # "behind" => b.ahead = NONE
    /\ b.ahead # NONE => /\ b.ahead \in Works \ {w} /\ Busy(b.ahead)
                         /\ ~work[b.ahead].open /\ work[b.ahead].partition = p
    /\ \A r \in Partitions : parked'[r] # NONE =>
           \/ parked'[r] = w /\ b.pc = "parked" /\ r = p
           \/ parked'[r] # w /\ parked'[r] = parked[r]

LEMMA HandPlace ==
  ASSUME HandInv, NEW w \in Works, NEW b \in WorkRecord, NEW p \in Partitions, Takes(w, b, p)
  PROVE  HandInv'
  <1> USE DEF Takes
  <1>1. /\ work'[w] = b /\ \A v \in Works : v # w => work'[v] = work[v]
        /\ work' \in [Works -> WorkRecord]
    BY DEF HandInv, ShapesOK
  <1>2. ShapesOK'
    BY <1>1 DEF HandInv, ShapesOK
  <1>3. \A v \in Works : v # w => (Busy(v)' <=> Busy(v))
    BY <1>1 DEF Busy
  <1>4. \A v \in Works : Busy(v) => /\ work[v].partition \in Partitions
                                    /\ work[v].offset <= position[work[v].partition]
                                    /\ work[v].offset \in Nat
                                    /\ work[v].open => work[v].offset = position[work[v].partition]
    BY DEF HandInv, ShapesOK, InHand, WorkRecord
  <1>5. Latest'
    <2> SUFFICES ASSUME NEW v \in Works, NEW x \in Works, v # x, Busy(v)', Busy(x)',
                        work'[v].partition = work'[x].partition, work'[x].open
                 PROVE  ~work'[v].open /\ work'[v].offset < work'[x].offset
      BY DEF Latest
    <2>1. CASE v # w /\ x # w
      BY <1>1, <1>3, <2>1 DEF HandInv, Latest
    <2>2. CASE x = w
      <3>1. /\ Busy(v) /\ work[v].partition = p /\ b.open /\ work'[v] = work[v] /\ work'[x] = b
        BY <1>1, <1>3, <2>2
      <3> QED
        BY <2>2, <3>1
    <2>3. CASE v = w
      <3>1. /\ Busy(x) /\ work[x].partition = p /\ work[x].open /\ work'[x] = work[x] /\ work'[v] = b
        BY <1>1, <1>3, <2>3
      <3>2. ~b.open /\ b.offset < position[p] /\ work[x].offset = position[p]
        BY <1>4, <2>3, <3>1
      <3> QED
        BY <3>1, <3>2
    <2> QED
      BY <2>1, <2>2, <2>3
  <1>6. ASSUME NEW v \in Works, v # w PROVE InHand(v)'
    <2>0. InHand(v) /\ work'[v] = work[v] /\ (Busy(v)' <=> Busy(v))
      BY <1>1, <1>3, <1>6 DEF HandInv
    <2>1. ASSUME Busy(v)
          PROVE  /\ work[v].offset <= position'[work[v].partition]
                 /\ work[v].open => work[v].offset = position'[work[v].partition]
      <3>1. position \in [Partitions -> Nat]
        BY DEF HandInv, ShapesOK
      <3>2. CASE work[v].partition # p
        BY <1>4, <2>1, <3>2
      <3>3. CASE work[v].partition = p
        BY <1>4, <1>6, <2>1, <3>1, <3>3
      <3> QED
        BY <3>2, <3>3
    <2>2. ASSUME NEW a \in Works, work[v].ahead = a
          PROVE  work'[a].pc # "free" /\ ~work'[a].open /\ work'[a].partition = work[v].partition
      <3>1. a # NONE
        BY PipelineAssumption
      <3>2. Busy(a) /\ ~work[a].open /\ work[a].partition = work[v].partition
        BY <2>0, <2>2, <3>1 DEF InHand
      <3>3. CASE a = w
        BY <1>1, <3>2, <3>3 DEF Busy
      <3>4. CASE a # w
        BY <1>1, <3>2, <3>4 DEF Busy
      <3> QED
        BY <3>3, <3>4
    <2>3. work[v].ahead # NONE => work[v].ahead \in Works
      BY DEF HandInv, ShapesOK, WorkRecord
    <2>4. /\ Busy(v)' => work'[v].partition \in Partitions /\ work'[v].offset <= position'[work'[v].partition]
          /\ Busy(v)' /\ work'[v].open => work'[v].offset = position'[work'[v].partition]
      BY <1>4, <2>0, <2>1
    <2>5. work'[v].ahead # NONE => /\ work'[work'[v].ahead].pc # "free" /\ ~work'[work'[v].ahead].open
                                   /\ work'[work'[v].ahead].partition = work'[v].partition
      BY <2>0, <2>2, <2>3
    <2>6. /\ ~Busy(v)' => work'[v] = Free
          /\ work'[v].pc \in {"arrived", "behind"} => work'[v].open
          /\ work'[v].pc = "parked" => ~work'[v].open
          /\ work'[v].pc # "behind" => work'[v].ahead = NONE
          /\ Busy(v)' /\ Serving' => work'[v].partition \in assigned' \union revoking'
      BY <2>0 DEF InHand
    <2> QED
      BY <2>4, <2>5, <2>6 DEF InHand, Busy
  <1>7. InHand(w)'
    <2>1. Busy(w)'
      BY <1>1 DEF Busy
    <2>2. b.ahead # NONE => Busy(b.ahead)' /\ ~work'[b.ahead].open /\ work'[b.ahead].partition = p
      BY <1>1 DEF Busy
    <2> QED
      BY <1>1, <2>1, <2>2 DEF InHand
  <1>8. ASSUME NEW r \in Partitions PROVE Registered(r)'
    <2>1. CASE parked'[r] = NONE
      BY <2>1 DEF Registered
    <2>2. CASE parked'[r] = w /\ b.pc = "parked" /\ r = p
      BY <1>1, <2>2 DEF Registered
    <2>3. CASE parked'[r] # NONE /\ parked'[r] # w /\ parked'[r] = parked[r]
      <3>1. parked[r] \in Works /\ work[parked[r]].pc = "parked" /\ work[parked[r]].partition = r
        BY <2>3 DEF HandInv, ShapesOK, Registered
      <3> QED
        BY <1>1, <2>3, <3>1 DEF Registered
    <2> QED
      BY <2>1, <2>2, <2>3
  <1> QED
    BY <1>2, <1>5, <1>6, <1>7, <1>8 DEF HandInv

\* Nothing happens to the works: the consumer, the client or the ledger moves.
LEMMA HandOutside ==
  ASSUME HandInv, UNCHANGED <<work, parked, position, revocations>>, committed' \in [Partitions -> Nat],
         Serving' => /\ Serving
                     /\ \A v \in Works : Busy(v) /\ work[v].partition \in assigned \union revoking
                            => work[v].partition \in assigned' \union revoking',
         gaveUp' => ~Serving'
  PROVE  HandInv'
  <1>1. ShapesOK' /\ Latest' /\ \A p \in Partitions : Registered(p)'
    BY DEF HandInv, ShapesOK, Latest, Registered, Busy
  <1>2. ASSUME NEW v \in Works PROVE InHand(v)'
    <2>1. InHand(v)
      BY DEF HandInv
    <2> QED
      BY <2>1 DEF InHand, Busy
  <1> QED
    BY <1>1, <1>2 DEF HandInv

LEMMA HandSettle ==
  ASSUME HandInv, NEW w \in Works, Busy(w), work[w].pc # "parked", Settle(w),
         committed' \in [Partitions -> Nat]
  PROVE  HandInv'
  <1>1. /\ work' = Without({w}) /\ {w} \in SUBSET Works
        /\ UNCHANGED <<state, gaveUp, parked, revocations, assigned, revoking, position>>
    BY DEF Settle
  <1>2. \A p \in Partitions : parked'[p] # NONE => parked'[p] = parked[p] /\ parked[p] \notin {w}
    BY <1>1 DEF HandInv, Registered
  <1>3. parked' \in [Partitions -> Works \union {NONE}]
    BY <1>1 DEF HandInv, ShapesOK
  <1> QED
    BY <1>1, <1>2, <1>3, HandFewer DEF HandInv, ShapesOK, Serving

LEMMA HandStop ==
  ASSUME HandInv, NEW reason, NEW gone \in SUBSET Works, \A w \in gone : work[w].pc # "parked",
         StopWith(reason, gone), committed' \in [Partitions -> Nat]
  PROVE  HandInv'
  <1>1. UNCHANGED <<gaveUp, revocations, assigned, revoking, position>> /\ ~Serving'
    BY DEF StopWith, Drained, Serving
  <1>2. CASE Drained
    <2>1. work' = Without(gone) /\ parked' = parked
      BY <1>2 DEF StopWith
    <2>2. \A p \in Partitions : parked'[p] # NONE => parked'[p] = parked[p] /\ parked[p] \notin gone
      BY <2>1 DEF HandInv, Registered
    <2>3. parked' \in [Partitions -> Works \union {NONE}]
      BY <2>1 DEF HandInv, ShapesOK
    <2> QED
      BY <1>1, <2>1, <2>2, <2>3, HandFewer DEF HandInv, ShapesOK
  <1>3. CASE ~Drained
    <2>1. /\ work' = Without(gone \union Parked) /\ parked' = [p \in Partitions |-> NONE]
          /\ gone \union Parked \in SUBSET Works
      BY <1>3 DEF StopWith, Parked
    <2>2. \A p \in Partitions : parked'[p] = NONE
      BY <2>1
    <2>3. parked' \in [Partitions -> Works \union {NONE}]
      BY <2>1
    <2> QED
      BY <1>1, <2>1, <2>2, <2>3, HandFewer DEF HandInv, ShapesOK
  <1> QED
    BY <1>2, <1>3

\* What the other works of the partition of w say about w.
LEMMA HandBeside ==
  ASSUME HandInv, NEW w \in Works, Busy(w), NEW v \in Works, v # w, Busy(v),
         work[v].partition = work[w].partition
  PROVE  /\ work[v].open => ~work[w].open /\ work[w].offset < position[work[w].partition]
         /\ work[w].open => work[v].offset < work[w].offset
  <1>1. work[v].open => ~work[w].open /\ work[w].offset < work[v].offset
    BY DEF HandInv, Latest
  <1>2. work[v].open => work[v].offset = position[work[w].partition]
    BY DEF HandInv, InHand
  <1>3. work[w].open => work[v].offset < work[w].offset
    BY DEF HandInv, Latest
  <1> QED
    BY <1>1, <1>2, <1>3

\* A work goes from one await to the next, or comes back from its delay.
LEMMA HandMoves ==
  ASSUME HandInv, NEW w \in Works, Busy(w), NEW b \in WorkRecord, work' = [work EXCEPT ![w] = b],
         b.partition = work[w].partition, b.offset = work[w].offset, b.open = work[w].open,
         b.ahead = NONE, b.pc \notin {"free", "arrived", "behind", "parked"},
         UNCHANGED <<state, gaveUp, revocations, assigned, revoking, position>>,
         committed' \in [Partitions -> Nat], parked' \in [Partitions -> Works \union {NONE}],
         \A r \in Partitions : parked'[r] # NONE => parked'[r] # w /\ parked'[r] = parked[r]
  PROVE  HandInv'
  <1> DEFINE p == work[w].partition
  <1>1. /\ p \in Partitions /\ work[w].offset <= position[p]
        /\ work[w].open => work[w].offset = position[p]
        /\ Serving => p \in assigned \union revoking
    BY DEF HandInv, InHand
  <1>2. /\ position' \in [Partitions -> Nat] /\ position[p] <= position'[p]
        /\ \A r \in Partitions : r # p => position'[r] = position[r]
    BY <1>1 DEF HandInv, ShapesOK
  <1>3. \A v \in Works : v # w /\ Busy(v) /\ work[v].partition = p =>
             /\ work[v].open => position'[p] = position[p] /\ ~b.open /\ b.offset < position[p]
             /\ b.open => work[v].offset < b.offset
    BY HandBeside
  <1>4. /\ Serving' => Serving /\ assigned \union revoking \subseteq assigned' \union revoking'
                       /\ p \in assigned \union revoking
        /\ gaveUp' => ~Serving'
    BY <1>1 DEF HandInv, Serving
  <1>5. b.offset <= position'[p] /\ (b.open => b.offset = position'[p])
    BY <1>1
  <1>6. Takes(w, b, p)
    BY <1>1, <1>2, <1>3, <1>4, <1>5 DEF Takes
  <1> QED
    BY <1>1, <1>6, HandPlace

LEMMA HandGoto ==
  ASSUME HandInv, NEW w \in Works, Busy(w), NEW pc \in Pcs \ {"free", "arrived", "behind", "parked"},
         work[w].pc # "parked", work[w].ahead = NONE, Goto(w, pc), committed' \in [Partitions -> Nat]
  PROVE  HandInv'
  <1> DEFINE b == [work[w] EXCEPT !.pc = pc]
  <1>1. work[w] \in WorkRecord
    BY DEF HandInv, ShapesOK
  <1>2. /\ b \in WorkRecord /\ b.pc = pc /\ b.partition = work[w].partition
        /\ b.offset = work[w].offset /\ b.open = work[w].open /\ b.ahead = NONE
    BY <1>1 DEF WorkRecord
  <1>3. /\ work' = [work EXCEPT ![w] = b]
        /\ UNCHANGED <<state, gaveUp, parked, revocations, assigned, revoking, position>>
    BY DEF Goto, client
  <1>4. /\ parked' \in [Partitions -> Works \union {NONE}]
        /\ \A r \in Partitions : parked'[r] # NONE => parked'[r] # w /\ parked'[r] = parked[r]
    BY <1>3 DEF HandInv, ShapesOK, Registered
  <1> HIDE DEF b
  <1> QED
    BY <1>2, <1>3, <1>4, HandMoves

LEMMA HandReenter ==
  ASSUME HandInv, NEW w \in Works, Reenter(w), committed' \in [Partitions -> Nat]
  PROVE  HandInv'
  <1> DEFINE p == work[w].partition
             b == [work[w] EXCEPT !.pc = "decoding", !.reentry = TRUE, !.received = revocations[p],
                                  !.revocation = revocations[p]]
  <1>1. /\ work[w].pc = "parked" /\ Busy(w) /\ work[w] \in WorkRecord /\ work[w].ahead = NONE
        /\ p \in Partitions /\ revocations[p] \in Nat
    BY DEF Reenter, HandInv, ShapesOK, InHand, Busy
  <1>2. /\ b \in WorkRecord /\ b.pc = "decoding" /\ b.partition = p
        /\ b.offset = work[w].offset /\ b.open = work[w].open /\ b.ahead = NONE
    BY <1>1 DEF WorkRecord, Pcs, ActivePcs
  <1>3. /\ work' = [work EXCEPT ![w] = b] /\ parked' = [parked EXCEPT ![p] = NONE]
        /\ UNCHANGED <<state, gaveUp, revocations, assigned, revoking, position>>
    BY DEF Reenter, client
  <1>4. /\ parked' \in [Partitions -> Works \union {NONE}]
        /\ \A r \in Partitions : parked'[r] # NONE => parked'[r] # w /\ parked'[r] = parked[r]
    BY <1>1, <1>3 DEF HandInv, ShapesOK, Registered
  <1> HIDE DEF b
  <1> QED
    BY <1>1, <1>2, <1>3, <1>4, HandMoves

\* process(): a delivery goes on, is parked, or waits behind the parked one.
LEMMA HandProcess ==
  ASSUME HandInv, NEW w \in Works, NEW delivery \in WorkRecord, NEW p \in Partitions,
         delivery.partition = p, delivery.open, delivery.ahead = NONE, Process(w, delivery)
  PROVE  \E b \in WorkRecord :
            /\ work' = [work EXCEPT ![w] = b]
            /\ b.partition = p /\ b.offset = delivery.offset /\ b.pc \notin {"free", "arrived"}
            /\ \/ /\ b.pc = "parked" /\ ~b.open /\ b.ahead = NONE
                  /\ parked[p] = NONE /\ parked' = [parked EXCEPT ![p] = w]
               \/ /\ b.pc = "behind" /\ b.open /\ b.ahead = parked[p] /\ parked[p] # NONE
                  /\ parked' = parked
               \/ /\ b.pc \notin {"parked", "behind"} /\ b.open /\ b.ahead = NONE
                  /\ parked' = parked
  <1> DEFINE begun(pc) == [delivery EXCEPT !.pc = pc, !.revocation = revocations[p]]
             held == [begun("parked") EXCEPT !.open = FALSE]
             after == [begun("behind") EXCEPT !.ahead = parked[p]]
  <1>1. revocations[p] \in Nat /\ parked[p] \in Works \union {NONE}
    BY DEF HandInv, ShapesOK
  <1>2. ASSUME NEW pc \in {"deadLettering", "crashing", "decoding", "sleeping"}
        PROVE  /\ begun(pc) \in WorkRecord /\ begun(pc).pc = pc
               /\ begun(pc).partition = p /\ begun(pc).offset = delivery.offset
               /\ begun(pc).ahead = NONE /\ begun(pc).open
    BY <1>1 DEF WorkRecord, Pcs, ActivePcs
  <1>3. /\ held \in WorkRecord /\ held.pc = "parked" /\ held.partition = p
        /\ held.offset = delivery.offset /\ held.ahead = NONE /\ ~held.open
    BY <1>1 DEF WorkRecord, Pcs, ActivePcs
  <1>4. /\ after \in WorkRecord /\ after.pc = "behind" /\ after.partition = p
        /\ after.offset = delivery.offset /\ after.ahead = parked[p] /\ after.open
    BY <1>1 DEF WorkRecord, Pcs, ActivePcs
  <1>5. \/ /\ work' = [work EXCEPT ![w] = held]
           /\ parked[p] = NONE /\ parked' = [parked EXCEPT ![p] = w]
        \/ /\ work' = [work EXCEPT ![w] = after]
           /\ parked[p] # NONE /\ parked' = parked
        \/ \E pc \in {"deadLettering", "crashing", "decoding", "sleeping"} :
              work' = [work EXCEPT ![w] = begun(pc)] /\ parked' = parked
    BY DEF Process
  <1> HIDE DEF begun, held, after
  <1>6. CASE /\ work' = [work EXCEPT ![w] = held]
             /\ parked[p] = NONE /\ parked' = [parked EXCEPT ![p] = w]
    BY <1>3, <1>6
  <1>7. CASE /\ work' = [work EXCEPT ![w] = after]
             /\ parked[p] # NONE /\ parked' = parked
    BY <1>4, <1>7
  <1>8. CASE \E pc \in {"deadLettering", "crashing", "decoding", "sleeping"} :
                work' = [work EXCEPT ![w] = begun(pc)] /\ parked' = parked
    <2>1. PICK pc \in {"deadLettering", "crashing", "decoding", "sleeping"} :
                work' = [work EXCEPT ![w] = begun(pc)] /\ parked' = parked
      BY <1>8
    <2>2. /\ begun(pc) \in WorkRecord /\ begun(pc).pc \notin {"free", "arrived", "parked", "behind"}
          /\ begun(pc).partition = p /\ begun(pc).offset = delivery.offset
          /\ begun(pc).ahead = NONE /\ begun(pc).open
      BY <1>2
    <2> QED
      BY <2>1, <2>2
  <1> QED
    BY <1>5, <1>6, <1>7, <1>8

\* What process() makes of a delivery that is the latest of its partition.
LEMMA HandProcessed ==
  ASSUME HandInv, NEW w \in Works, NEW delivery \in WorkRecord, NEW p \in Partitions,
         delivery.partition = p, delivery.open, delivery.ahead = NONE, Process(w, delivery),
         UNCHANGED <<state, gaveUp, revocations, assigned, revoking>>, committed' \in [Partitions -> Nat],
         Serving => p \in assigned \union revoking,
         position' \in [Partitions -> Nat], \A r \in Partitions : r # p => position'[r] = position[r],
         position[p] <= position'[p], delivery.offset = position'[p],
         \A v \in Works : v # w /\ Busy(v) /\ work[v].partition = p =>
             ~work[v].open /\ work[v].offset < delivery.offset,
         Busy(w) => work[w].partition = p /\ work[w].open, work[w].pc # "parked"
  PROVE  HandInv'
  <1>1. PICK b \in WorkRecord :
            /\ work' = [work EXCEPT ![w] = b]
            /\ b.partition = p /\ b.offset = delivery.offset /\ b.pc \notin {"free", "arrived"}
            /\ \/ /\ b.pc = "parked" /\ ~b.open /\ b.ahead = NONE
                  /\ parked[p] = NONE /\ parked' = [parked EXCEPT ![p] = w]
               \/ /\ b.pc = "behind" /\ b.open /\ b.ahead = parked[p] /\ parked[p] # NONE
                  /\ parked' = parked
               \/ /\ b.pc \notin {"parked", "behind"} /\ b.open /\ b.ahead = NONE
                  /\ parked' = parked
    BY HandProcess
  <1>2. \A r \in Partitions : parked[r] # NONE =>
            /\ parked[r] \in Works /\ parked[r] # w /\ Busy(parked[r])
            /\ work[parked[r]].partition = r /\ ~work[parked[r]].open
    BY DEF HandInv, ShapesOK, Registered, InHand, Busy
  <1>3. parked \in [Partitions -> Works \union {NONE}] /\ parked' \in [Partitions -> Works \union {NONE}]
    BY <1>1 DEF HandInv, ShapesOK
  <1>4. \A r \in Partitions : parked'[r] # NONE =>
             \/ parked'[r] = w /\ b.pc = "parked" /\ r = p
             \/ parked'[r] # w /\ parked'[r] = parked[r]
    BY <1>1, <1>2, <1>3
  <1>5. /\ b.pc \in {"arrived", "behind"} => b.open
        /\ b.pc = "parked" => ~b.open
        /\ b.pc # "behind" => b.ahead = NONE
        /\ b.ahead # NONE => /\ b.ahead \in Works \ {w} /\ Busy(b.ahead)
                             /\ ~work[b.ahead].open /\ work[b.ahead].partition = p
    BY <1>1, <1>2
  <1>6. /\ Serving' => Serving /\ assigned \union revoking \subseteq assigned' \union revoking'
                       /\ p \in assigned \union revoking
        /\ gaveUp' => ~Serving'
    BY DEF HandInv, Serving
  <1>7. /\ b.offset <= position'[p] /\ (b.open => b.offset = position'[p])
        /\ Busy(w) => work[w].partition = p /\ (b.open => work[w].open)
    BY <1>1
  <1>8. \A v \in Works : v # w /\ Busy(v) /\ work[v].partition = p =>
             /\ work[v].open => position'[p] = position[p] /\ ~b.open /\ b.offset < position[p]
             /\ b.open => work[v].offset < b.offset
    BY <1>1
  <1>9. Takes(w, b, p)
    BY <1>1, <1>3, <1>4, <1>5, <1>6, <1>7, <1>8 DEF Takes
  <1> QED
    BY <1>9, HandPlace

LEMMA HandDeliver ==
  ASSUME HandInv, NEW w \in Works, NEW p \in Partitions, Deliver(w, p), committed' \in [Partitions -> Nat]
  PROVE  HandInv'
  <1> DEFINE delivery == [Free EXCEPT !.pc = "arrived", !.partition = p, !.open = TRUE,
                                      !.offset = position[p] + 1, !.received = revocations[p]]
  <1>0. position \in [Partitions -> Nat] /\ position[p] \in Nat /\ revocations[p] \in Nat
    BY DEF HandInv, ShapesOK
  <1>1. /\ delivery \in WorkRecord /\ delivery.pc = "arrived" /\ delivery.partition = p
        /\ delivery.offset = position[p] + 1 /\ delivery.open /\ delivery.ahead = NONE
    <2>1. "arrived" \in Pcs /\ Free \in WorkRecord /\ Free.ahead = NONE /\ position[p] + 1 \in Nat
      BY <1>0, FreeRecord DEF Pcs
    <2> QED
      BY <1>0, <2>1 DEF WorkRecord
  <1>2. /\ work[w].pc = "free" /\ ~Busy(w) /\ p \in assigned
        /\ \A v \in Works : Busy(v) /\ work[v].partition = p => ~work[v].open
        /\ position' = [position EXCEPT ![p] = @ + 1]
        /\ UNCHANGED <<state, gaveUp, revocations, assigned, revoking>>
    BY DEF Deliver, On, Busy
  <1> HIDE DEF delivery
  <1>3. /\ position' \in [Partitions -> Nat] /\ \A r \in Partitions : r # p => position'[r] = position[r]
        /\ position[p] <= position'[p] /\ delivery.offset = position'[p] /\ position[p] < delivery.offset
    BY <1>0, <1>1, <1>2
  <1>4. ASSUME NEW v \in Works, Busy(v), work[v].partition = p
        PROVE  ~work[v].open /\ work[v].offset < delivery.offset
    <2>1. work[v].offset <= position[p] /\ work[v].offset \in Nat
      BY <1>4 DEF HandInv, ShapesOK, InHand, WorkRecord
    <2> QED
      BY <1>0, <1>1, <1>2, <1>4, <2>1
  <1>5. CASE state = "running"
    <2>1. Process(w, delivery)
      BY <1>5 DEF Deliver, delivery
    <2> QED
      BY <1>1, <1>2, <1>3, <1>4, <2>1, HandProcessed
  <1>6. CASE state # "running"
    <2>1. work' = [work EXCEPT ![w] = delivery] /\ UNCHANGED parked
      BY <1>6 DEF Deliver, delivery
    <2>2. /\ parked' \in [Partitions -> Works \union {NONE}]
          /\ \A r \in Partitions : parked'[r] # NONE => parked'[r] # w /\ parked'[r] = parked[r]
      BY <1>2, <2>1 DEF HandInv, ShapesOK, Registered
    <2>3. /\ Serving' => Serving /\ assigned \union revoking \subseteq assigned' \union revoking'
                         /\ p \in assigned \union revoking
          /\ gaveUp' => ~Serving'
      BY <1>2 DEF HandInv, Serving
    <2>4. \A v \in Works : v # w /\ Busy(v) /\ work[v].partition = p =>
             /\ work[v].open => position'[p] = position[p] /\ ~delivery.open /\ delivery.offset < position[p]
             /\ delivery.open => work[v].offset < delivery.offset
      BY <1>4
    <2>5. delivery.offset <= position'[p] /\ (delivery.open => delivery.offset = position'[p])
      BY <1>3
    <2>6. Takes(w, delivery, p)
      BY <1>1, <1>2, <1>3, <2>1, <2>2, <2>3, <2>4, <2>5 DEF Takes
    <2> QED
      BY <1>1, <2>6, HandPlace
  <1> QED
    BY <1>5, <1>6

LEMMA HandReady ==
  ASSUME HandInv, NEW w \in Works, Ready(w), committed' \in [Partitions -> Nat]
  PROVE  HandInv'
  <1> DEFINE p == work[w].partition
  <1>1. /\ work[w].pc = "arrived" /\ Busy(w) /\ work[w] \in WorkRecord /\ work[w].ahead = NONE
        /\ p \in Partitions /\ work[w].open /\ work[w].offset = position[p]
        /\ Serving => p \in assigned \union revoking
    BY DEF Ready, Busy, HandInv, ShapesOK, InHand
  <1>2. CASE state # "running"
    BY <1>1, <1>2, HandSettle DEF Ready
  <1>3. CASE state = "running"
    <2>1. Process(w, work[w]) /\ UNCHANGED <<state, gaveUp, revocations, assigned, revoking, position>>
      BY <1>3 DEF Ready
    <2>2. \A v \in Works : v # w /\ Busy(v) /\ work[v].partition = p =>
              ~work[v].open /\ work[v].offset < work[w].offset
      BY <1>1 DEF HandInv, Latest
    <2>3. /\ position' \in [Partitions -> Nat] /\ \A r \in Partitions : r # p => position'[r] = position[r]
          /\ position[p] <= position'[p] /\ work[w].offset = position'[p]
      BY <1>1, <2>1 DEF HandInv, ShapesOK
    <2> QED
      BY <1>1, <2>1, <2>2, <2>3, HandProcessed
  <1> QED
    BY <1>2, <1>3

\* A revocation ends the parked work; the partition stays in hand until the
\* works on it settled.
LEMMA HandRebalance ==
  ASSUME ~Overrun, HandInv, NEW p \in Partitions, Revoke(p) \/ Release(p) \/ Assign(p),
         committed' \in [Partitions -> Nat]
  PROVE  HandInv'
  <1>1. CASE Revoke(p)
    <2>1. /\ UNCHANGED <<state, gaveUp, position>>
          /\ assigned \union revoking \subseteq assigned' \union revoking'
          /\ revocations' = [revocations EXCEPT ![p] = @ + 1]
      BY <1>1 DEF Revoke
    <2>2. CASE parked[p] = NONE
      <3>1. UNCHANGED <<work, parked>>
        BY <1>1, <2>2 DEF Revoke
      <3>2. ASSUME NEW v \in Works PROVE InHand(v)'
        <4>1. InHand(v)
          BY DEF HandInv
        <4> QED
          BY <2>1, <3>1, <4>1 DEF InHand, Busy, Serving
      <3>3. ShapesOK'
        BY <2>1, <3>1 DEF HandInv, ShapesOK
      <3> QED
        BY <2>1, <3>1, <3>2, <3>3 DEF HandInv, Latest, Registered, Busy, Serving
    <2>3. CASE parked[p] # NONE
      <3>1. /\ work' = Without({parked[p]}) /\ parked' = [parked EXCEPT ![p] = NONE]
            /\ parked[p] \in Works /\ work[parked[p]].partition = p
        BY <1>1, <2>3 DEF Revoke, HandInv, ShapesOK, Registered
      <3>2. \A r \in Partitions : parked'[r] # NONE => parked'[r] = parked[r] /\ parked[r] \notin {parked[p]}
        BY <3>1 DEF HandInv, ShapesOK, Registered
      <3>3. parked' \in [Partitions -> Works \union {NONE}] /\ revocations' \in [Partitions -> Nat]
        BY <2>1, <3>1 DEF HandInv, ShapesOK
      <3>4. {parked[p]} \in SUBSET Works
        BY <3>1
      <3> QED
        BY <2>1, <3>1, <3>2, <3>3, <3>4, HandFewer DEF HandInv, Serving
    <2> QED
      BY <2>2, <2>3
  <1>2. CASE Release(p)
    <2>1. /\ UNCHANGED <<state, gaveUp, work, parked, revocations, position, assigned>>
          /\ revoking' = revoking \ {p} /\ (gaveUp \/ On(p) = {})
      BY <1>2 DEF Release, memory
    <2>2. On(p) = {} => \A v \in Works : Busy(v) => work[v].partition # p
      BY DEF On, Busy
    <2> QED
      BY <2>1, <2>2, HandOutside DEF HandInv, Serving
  <1>3. CASE Assign(p)
    <2>1. /\ UNCHANGED <<state, gaveUp, work, parked, revocations, revoking>> /\ Serving
          /\ p \notin assigned \union revoking /\ assigned' = assigned \union {p}
          /\ position' = [position EXCEPT ![p] = committed[p]]
      BY <1>3 DEF Assign, memory, Serving
    <2>2. \A v \in Works : Busy(v) => work[v].partition # p
      BY <2>1 DEF HandInv, InHand
    <2>3. ShapesOK' /\ \A r \in Partitions : r # p => position'[r] = position[r]
      BY <2>1 DEF HandInv, ShapesOK
    <2>4. ASSUME NEW v \in Works PROVE InHand(v)'
      <3>1. InHand(v)
        BY DEF HandInv
      <3> QED
        BY <2>1, <2>2, <2>3, <3>1 DEF InHand, Busy, Serving
    <2> QED
      BY <2>1, <2>3, <2>4 DEF HandInv, Latest, Registered, Busy, Serving
  <1> QED
    BY <1>1, <1>2, <1>3

\* The shutdown abandons the running handlers: their promises are settled.
LEMMA HandGiveUp ==
  ASSUME HandInv, GiveUp, committed' \in [Partitions -> Nat]
  PROVE  HandInv'
  <1>1. /\ state = "stopping" /\ UNCHANGED <<state, parked, revocations, position>>
        /\ work' = [w \in Works |-> IF Active(w) THEN [work[w] EXCEPT !.open = FALSE] ELSE work[w]]
        /\ ~Serving'
    BY DEF GiveUp, client, Serving
  <1>2. ASSUME NEW v \in Works
        PROVE  /\ work'[v].pc = work[v].pc /\ work'[v].partition = work[v].partition
               /\ work'[v].offset = work[v].offset /\ work'[v].ahead = work[v].ahead
               /\ work'[v].open => work[v].open
               /\ ~Active(v) => work'[v] = work[v]
               /\ work'[v] \in WorkRecord
    <2>1. work[v] \in WorkRecord
      BY DEF HandInv, ShapesOK
    <2>2. CASE Active(v)
      <3>1. work'[v] = [work[v] EXCEPT !.open = FALSE]
        BY <1>1, <2>2
      <3> QED
        BY <2>1, <2>2, <3>1 DEF WorkRecord
    <2>3. CASE ~Active(v)
      BY <1>1, <2>1, <2>3
    <2> QED
      BY <2>2, <2>3
  <1>3. ShapesOK'
    <2>1. work' \in [Works -> WorkRecord]
      BY <1>1, <1>2
    <2> QED
      BY <1>1, <2>1 DEF HandInv, ShapesOK
  <1>4. Latest'
    BY <1>2 DEF HandInv, Latest, Busy
  <1>5. ASSUME NEW v \in Works PROVE InHand(v)'
    <2>0. InHand(v)
      BY DEF HandInv
    <2>1. work[v].ahead # NONE => work[v].ahead \in Works
      BY DEF HandInv, ShapesOK, WorkRecord
    <2>2. work'[v].ahead # NONE => /\ work'[work'[v].ahead].pc # "free" /\ ~work'[work'[v].ahead].open
                                   /\ work'[work'[v].ahead].partition = work'[v].partition
      BY <1>2, <2>0, <2>1 DEF InHand, Busy
    <2>3. /\ work[v].pc \in {"arrived", "behind", "free"} => ~Active(v)
          /\ Busy(v)' <=> Busy(v)
      BY <1>2 DEF Active, ActivePcs, Busy
    <2>4. /\ ~Busy(v)' => work'[v] = Free
          /\ Busy(v)' => work'[v].partition \in Partitions /\ work'[v].offset <= position'[work'[v].partition]
          /\ Busy(v)' /\ work'[v].open => work'[v].offset = position'[work'[v].partition]
      BY <1>1, <1>2, <2>0, <2>3 DEF InHand, Busy
    <2>5. /\ work'[v].pc \in {"arrived", "behind"} => work'[v].open
          /\ work'[v].pc = "parked" => ~work'[v].open
          /\ work'[v].pc # "behind" => work'[v].ahead = NONE
      BY <1>2, <2>0, <2>3 DEF InHand
    <2> QED
      BY <1>1, <2>2, <2>4, <2>5 DEF InHand, Busy
  <1>6. \A p \in Partitions : Registered(p)'
    <2> SUFFICES ASSUME NEW p \in Partitions PROVE Registered(p)'
      OBVIOUS
    <2>1. parked[p] # NONE => parked[p] \in Works
      BY DEF HandInv, ShapesOK
    <2> QED
      BY <1>1, <1>2, <2>1 DEF HandInv, Registered
  <1> QED
    BY <1>1, <1>3, <1>4, <1>5, <1>6 DEF HandInv

LEMMA HandFresh ==
  ASSUME committed \in [Partitions -> Nat], state = "starting", ~gaveUp,
         work = [w \in Works |-> Free], parked = [p \in Partitions |-> NONE],
         revocations = [p \in Partitions |-> 0], position = [p \in Partitions |-> 0]
  PROVE  HandInv
  <1>1. ShapesOK
    BY FreeRecord DEF ShapesOK
  <1>2. \A w \in Works : work[w] = Free /\ ~Busy(w)
    BY FreeRecord DEF Busy
  <1>3. \A w \in Works : InHand(w)
    BY <1>2, FreeRecord DEF InHand
  <1> QED
    BY <1>1, <1>2, <1>3 DEF HandInv, Latest, Registered

\* Offsets that are committed are numbers, whoever commits them.
LEMMA CommitsNumbers ==
  ASSUME HandInv, [Next]_vars PROVE committed' \in [Partitions -> Nat]
  <1>1. committed \in [Partitions -> Nat] /\ \A w \in Works : work[w].offset \in Nat
    BY DEF HandInv, ShapesOK, WorkRecord
  <1>2. ASSUME NEW p, NEW o \in Nat, Commit(p, o) \/ Transact(p, o) PROVE committed' \in [Partitions -> Nat]
    BY <1>1, <1>2 DEF Commit, Transact
  <1>3. ASSUME NEW w \in Works, CommitLands(w) \/ HandlerTransacts(w) PROVE committed' \in [Partitions -> Nat]
    BY <1>1, <1>2, <1>3 DEF CommitLands, HandlerTransacts
  <1>4. ASSUME NEW p \in Partitions, OtherMember(p) PROVE committed' \in [Partitions -> Nat]
    <2>1. committed[p] + 1 \in Nat
      BY <1>1
    <2>2. CASE Commit(p, committed[p] + 1)
      BY <1>2, <2>1, <2>2
    <2>3. CASE ~Commit(p, committed[p] + 1)
      BY <1>1, <1>4, <2>3 DEF OtherMember, Resolve, Hop, DeadLetter
    <2> QED
      BY <2>2, <2>3
  <1>5. CASE UNCHANGED committed
    BY <1>1, <1>5
  <1>6. CASE \E w \in Works : WorkStep(w) /\ ~CommitLands(w)
    <2>1. UNCHANGED committed
      BY <1>6 DEF WorkStep, Ready, Reenter, WakeBehind, SleepEnds, Decoded, HoldWakes,
            HandlerReturns, HandlerThrows, HopAcknowledged, Crash, ledger, Resolve, Hop, DeadLetter
    <2> QED
      BY <1>5, <2>1
  <1>7. CASE \E w \in Works : WorkFails(w)
    <2>1. UNCHANGED committed
      BY <1>7 DEF WorkFails, HandlerAborts, HopFails, CommitFails, ledger, Copy, CopyToDlq
    <2> QED
      BY <1>5, <2>1
  <1>8. CASE \/ \E w \in Works, r \in Partitions : Deliver(w, r)
             \/ Started \/ Stop \/ GiveUp \/ Leave \/ Restart \/ Die
             \/ \E r \in Partitions : Revoke(r) \/ Release(r) \/ Assign(r) \/ Elapse(r)
             \/ UNCHANGED vars
    <2>1. UNCHANGED ledger
      <3>1. CASE \E w \in Works, r \in Partitions : Deliver(w, r)
        BY <3>1 DEF Deliver
      <3>2. CASE Started \/ Stop \/ GiveUp \/ Leave \/ Restart \/ Die
        BY <3>2 DEF Started, Stop, GiveUp, Leave, Restart, Die
      <3>3. CASE \E r \in Partitions : Revoke(r) \/ Release(r) \/ Assign(r) \/ Elapse(r)
        BY <3>3 DEF Revoke, Release, Assign, Elapse
      <3>4. CASE UNCHANGED vars
        BY <3>4 DEF vars
      <3> QED
        BY <1>8, <3>1, <3>2, <3>3, <3>4
    <2> QED
      BY <1>5, <2>1 DEF ledger
  <1> QED
    BY <1>3, <1>4, <1>6, <1>7, <1>8 DEF Next

LEMMA HandNext ==
  ASSUME ~Overrun, HandInv, [Next]_vars
  PROVE  HandInv'
  <1>0. committed' \in [Partitions -> Nat]
    BY CommitsNumbers
  <1>1. ASSUME NEW w \in Works, WorkStep(w) \/ WorkFails(w) PROVE HandInv'
    <2>1. CASE Ready(w) \/ Reenter(w)
      BY <1>0, <2>1, HandReady, HandReenter
    <2>2. CASE ~(Ready(w) \/ Reenter(w))
      <3>1. Busy(w) /\ work[w].pc # "parked"
        BY <1>1, <2>2 DEF WorkStep, WorkFails, WakeBehind, SleepEnds, Decoded, HoldWakes, HandlerReturns,
              HandlerThrows, HopAcknowledged, Crash, CommitLands, HandlerAborts, HopFails, CommitFails, Busy
      <3>2. work[w].ahead = NONE
        <4>1. work[w].pc # "behind" => work[w].ahead = NONE
          BY DEF HandInv, InHand
        <4> QED
          BY <1>1, <2>2, <4>1 DEF WorkStep, WorkFails, WakeBehind, SleepEnds, Decoded, HoldWakes, HandlerReturns,
                HandlerThrows, HopAcknowledged, Crash, CommitLands, HandlerAborts, HopFails, CommitFails
      <3>3. \/ Settle(w)
            \/ \E pc \in Pcs \ {"free", "arrived", "behind", "parked"} : Goto(w, pc)
            \/ \E reason : StopWith(reason, {w})
        BY <1>1, <2>2 DEF WorkStep, WorkFails, WakeBehind, SleepEnds, Decoded, HoldWakes, HandlerReturns,
              HandlerThrows, HopAcknowledged, CommitNext, Crash, CommitLands, HandlerAborts, HopFails,
              CommitFails, Forwarded, Pcs, ActivePcs
      <3>4. ASSUME NEW reason, StopWith(reason, {w}) PROVE HandInv'
        <4>1. {w} \in SUBSET Works /\ \A v \in {w} : work[v].pc # "parked"
          BY <3>1
        <4> QED
          BY <1>0, <3>4, <4>1, HandStop
      <3> QED
        BY <1>0, <3>1, <3>2, <3>3, <3>4, HandSettle, HandGoto
    <2> QED
      BY <2>1, <2>2
  <1>2. ASSUME NEW w \in Works, NEW p \in Partitions, Deliver(w, p) PROVE HandInv'
    BY <1>0, <1>2, HandDeliver
  <1>3. CASE Stop
    <2>1. {} \in SUBSET Works /\ \A v \in {} : work[v].pc # "parked"
      OBVIOUS
    <2> QED
      BY <1>0, <1>3, <2>1, HandStop DEF Stop
  <1>4. ASSUME NEW p \in Partitions, Revoke(p) \/ Release(p) \/ Assign(p) PROVE HandInv'
    BY <1>0, <1>4, HandRebalance
  <1>5. CASE GiveUp
    BY <1>0, <1>5, HandGiveUp
  <1>6. CASE Restart \/ Die
    <2>1. /\ state' = "starting" /\ ~gaveUp' /\ work' = [w \in Works |-> Free]
          /\ parked' = [p \in Partitions |-> NONE] /\ revocations' = [p \in Partitions |-> 0]
          /\ position' = [p \in Partitions |-> 0]
      BY <1>6 DEF Restart, Die, NewConsumer
    <2>2. ShapesOK'
      BY <1>0, <2>1, FreeRecord DEF ShapesOK
    <2>3. \A w \in Works : work'[w] = Free /\ ~Busy(w)'
      BY <2>1, FreeRecord DEF Busy
    <2>4. \A w \in Works : InHand(w)'
      BY <2>3, FreeRecord DEF InHand
    <2> QED
      BY <2>1, <2>2, <2>3, <2>4 DEF HandInv, Latest, Registered
  <1>7. CASE Started \/ Leave
    <2>1. /\ UNCHANGED <<work, parked, position, revocations, gaveUp>>
          /\ Serving' => Serving /\ UNCHANGED <<assigned, revoking>>
      BY <1>7 DEF Started, Leave, Serving, client
    <2> QED
      BY <1>0, <2>1, HandOutside DEF HandInv
  <1>8. CASE \/ \E w \in Works : HandlerTransacts(w)
             \/ \E p \in Partitions : Elapse(p) \/ OtherMember(p)
             \/ UNCHANGED vars
    <2>1. UNCHANGED <<state, gaveUp, work, parked, revocations, position, assigned, revoking>>
      BY <1>8 DEF HandlerTransacts, Elapse, OtherMember, vars, memory, client
    <2> QED
      BY <1>0, <2>1, HandOutside DEF HandInv, Serving
  <1> QED
    BY <1>1, <1>2, <1>3, <1>4, <1>5, <1>6, <1>7, <1>8 DEF Next

\* A record that waits behind a parked one waits for a work that is still there
\* and holds an earlier record of its partition, though the client delivers
\* through pauses; a client that releases a partition under its works could
\* read a record anew behind the same record parked.
THEOREM WaitsBehindEarlier == ASSUME ~Overrun PROVE Spec => []BehindAParkedOne
  <1>1. Init => HandInv
    BY HandFresh, LedgerInitInv DEF Init, Fresh, LedgerInv, LedgerTypeOK
  <1>2. HandInv /\ [Next]_vars => HandInv'
    BY HandNext
  <1>3. ASSUME HandInv, NEW w \in Works, work[w].pc = "behind", work[w].ahead # NONE
        PROVE  /\ work[w].ahead \in On(work[w].partition)
               /\ work[work[w].ahead].offset < work[w].offset
    <2>1. PICK a \in Works : a = work[w].ahead
      BY <1>3 DEF HandInv, ShapesOK, WorkRecord
    <2>2. /\ Busy(a) /\ ~work[a].open /\ work[a].partition = work[w].partition
          /\ Busy(w) /\ work[w].open
      BY <1>3, <2>1 DEF HandInv, InHand, Busy
    <2>3. work[a].offset < work[w].offset
      BY <1>3, <2>2 DEF HandInv, Latest
    <2> QED
      BY <2>1, <2>2, <2>3 DEF On, Busy
  <1>4. HandInv => BehindAParkedOne
    BY <1>3 DEF BehindAParkedOne
  <1> QED
    BY <1>1, <1>2, <1>4, PTL DEF Spec
=============================================================================
