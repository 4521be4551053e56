-------------------------- MODULE BatchPipelineProofs --------------------------
(***************************************************************************)
(* BatchPipeline implements the promise of AtLeastOnce, for every ladder,  *)
(* backlog, batch size and bound on the faults, and whatever the client    *)
(* does: also when it releases a partition under a running batch, or       *)
(* revokes one under a queued delivery.  Where no such delivery outlived a *)
(* revocation, batches are consecutive records of partitions the member    *)
(* owns; and with a client that waits for a batch before it releases the   *)
(* partition, its commits only move forward there.                         *)
(***************************************************************************)
EXTENDS BatchPipeline, AtLeastOnceProofs, WellFoundedInduction

Serving == state \in {"starting", "running"}

-----------------------------------------------------------------------------
(* The invariant of any client, by what it is about. *)

ArrivalRecord == [pc : {"none", "queued", "parked", "sleeping", "waiting"},
                  offset : Nat, revocation : Nat, reentry : BOOLEAN]

BatchRecord == [pc : {"none", "decoding", "held", "handling", "retrying",
                      "deadLettering", "committing", "crashing"},
                items : Seq(Nat), left : SUBSET Nat, ran : BOOLEAN,
                open : BOOLEAN, reentry : BOOLEAN, revocation : Nat]

Types ==
    /\ state \in {"starting", "running", "stopping", "stopped"}
    /\ gaveUp \in BOOLEAN
    /\ arrival \in [Partitions -> ArrivalRecord]
    /\ collecting \in [Partitions -> Seq(Nat)]
    /\ running \in [Partitions -> BatchRecord]
    /\ revocations \in [Partitions -> Nat]
    /\ paused \subseteq Partitions /\ assigned \subseteq Partitions /\ revoking \subseteq Partitions
    /\ position \in [Partitions -> Nat]

CountersOK == elapsed \in [Partitions -> Nat] /\ faults \in 0..MaxFaults

\* The records of a batch, and the last of them: what its commit covers.
RecordsOf(items) == {items[i] : i \in DOMAIN items}
EndOf(items) == items[Len(items)]

HasArrival(p) == arrival[p].pc # "none"
OutcomeOf(p, o) == <<p, o>> \in handled

\* The records of p in a batch that this assignment of p formed: such a batch
\* does not end without an outcome for each while the consumer serves.
OnHand(p) == RecordsOf(collecting[p]) \union
             (IF running[p].revocation = revocations[p] THEN Items(p) ELSE {})

AccountedUpTo(p, n) == \A i \in 1..n : OutcomeOf(p, i) \/ i \in OnHand(p)

\* A batch holds records of its partition, and while one runs none collects.
Shapes(p) ==
    /\ Runs(p) <=> running[p].items # <<>>
    /\ running[p].left \subseteq Items(p)
    /\ Len(running[p].items) <= Size /\ Len(collecting[p]) < Size
    /\ Items(p) \subseteq 1..Len(log[p]) /\ RecordsOf(collecting[p]) \subseteq 1..Len(log[p])
    /\ Runs(p) \/ arrival[p].pc = "waiting" => collecting[p] = <<>>
    /\ HasArrival(p) => arrival[p].offset \in 1..Len(log[p])
    /\ running[p].revocation <= revocations[p]
    /\ arrival[p].revocation <= revocations[p]

\* What is empty before readiness, and after a stop.
Phases(p) ==
    /\ state = "starting" => /\ ~Runs(p) /\ collecting[p] = <<>>
                             /\ arrival[p].pc \in {"none", "queued"}
    /\ collecting[p] # <<>> \/ arrival[p].pc = "parked" => state = "running"
    /\ arrival[p].pc = "parked" => arrival[p].revocation = revocations[p]
    /\ gaveUp => ~Serving

\* How far the run of a batch got.
Progress(p) ==
    /\ running[p].pc \in {"retrying", "deadLettering"} =>
          /\ running[p].left # {}
          /\ \A i \in (IF running[p].ran THEN Items(p) ELSE Items(p) \ Decodable(p)) \ running[p].left :
                OutcomeOf(p, i)
    /\ running[p].pc \in {"held", "handling"} =>
          /\ running[p].ran /\ Decodable(p) # {}
          /\ \A i \in Items(p) \ Decodable(p) : OutcomeOf(p, i)
    /\ running[p].pc = "committing" => \A i \in Items(p) : OutcomeOf(p, i)

\* Nothing before the end of a batch is without an outcome, but its own.
Covers(p, items) ==
    items # <<>> => \A i \in 1..EndOf(items) : OutcomeOf(p, i) \/ i \in RecordsOf(items)

\* Nothing before a record on its way to a batch is without an outcome, but
\* what is in a batch.
Arrives(p) ==
    HasArrival(p) /\ Serving /\ (arrival[p].pc = "queued" \/ arrival[p].revocation = revocations[p])
        => /\ AccountedUpTo(p, arrival[p].offset - 1)
           /\ arrival[p].pc = "queued" => collecting[p] = <<>> /\ ~Runs(p)

\* Nothing the client delivered is without an outcome, but the record on its
\* way and what is in a batch.
Reads(p) ==
    Serving =>
        /\ HasArrival(p) => p \in assigned \union revoking
        /\ p \in assigned =>
              /\ HasArrival(p) => /\ arrival[p].offset = position[p]
                                  /\ arrival[p].revocation = revocations[p]
              /\ AccountedUpTo(p, IF HasArrival(p) THEN position[p] - 1 ELSE position[p])

Batching(p) ==
    /\ Shapes(p) /\ Phases(p) /\ Progress(p)
    /\ Covers(p, collecting[p]) /\ Covers(p, running[p].items)
    /\ Arrives(p) /\ Reads(p)

Pipe == Types /\ CountersOK /\ \A p \in Partitions : Batching(p)

IInv == LedgerInv /\ Pipe

-----------------------------------------------------------------------------
(* What holds of a partition that was not revoked under a queued delivery. *)

\* The records of a batch follow each other from the first one on.
InARow(items) == \A i \in DOMAIN items : items[i] = items[1] + i - 1

InOrder(p, items) == items # <<>> => InARow(items) /\ PrefixHandled(p, items[1] - 1)

Ordered(p) ==
    /\ InOrder(p, collecting[p]) /\ InOrder(p, running[p].items)
    /\ collecting[p] # <<>> =>
          /\ p \in assigned
          /\ EndOf(collecting[p]) = IF HasArrival(p) THEN position[p] - 1 ELSE position[p]
    /\ HasArrival(p) /\ Serving /\ (arrival[p].pc = "queued" \/ arrival[p].revocation = revocations[p])
          => p \in assigned

OrderInv == IInv /\ \A p \in Partitions \ stale : Ordered(p)

\* What a client adds that also delays the release of a partition until its
\* batch ran.
Present == state # "stopped" /\ ~gaveUp

Ahead(p) ==
    /\ Present /\ Runs(p) => /\ p \in assigned \union revoking
                             /\ committed[p] <= EndOf(running[p].items)
                             /\ p \in assigned => EndOf(running[p].items) <= position[p]
    /\ Present /\ p \in assigned => committed[p] <= position[p]
    /\ collecting[p] # <<>> => committed[p] <= EndOf(collecting[p])

AheadInv == /\ OrderInv
            /\ state = "stopped" => assigned \union revoking = {}
            /\ \A p \in Partitions \ stale : Ahead(p)

-----------------------------------------------------------------------------
(* The operators the model is built from. *)

LEMMA RecordsOfNone == RecordsOf(<<>>) = {}
  BY DEF RecordsOf

LEMMA RecordsOfAppend ==
  ASSUME NEW s \in Seq(Nat), NEW o \in Nat
  PROVE  /\ Append(s, o) \in Seq(Nat) /\ Append(s, o) # <<>>
         /\ Len(s) \in Nat /\ Len(Append(s, o)) = Len(s) + 1
         /\ EndOf(Append(s, o)) = o
         /\ RecordsOf(Append(s, o)) = RecordsOf(s) \union {o}
  <1>1. /\ Append(s, o) \in Seq(Nat) /\ Len(s) \in Nat /\ Len(Append(s, o)) = Len(s) + 1
        /\ DOMAIN s = 1..Len(s) /\ DOMAIN Append(s, o) = 1..(Len(s) + 1)
        /\ \A i \in 1..Len(s) : Append(s, o)[i] = s[i]
        /\ Append(s, o)[Len(s) + 1] = o
    BY AppendProperties, LenProperties
  <1>2. 1..(Len(s) + 1) = (1..Len(s)) \union {Len(s) + 1}
    BY <1>1
  <1>3. RecordsOf(Append(s, o)) = RecordsOf(s) \union {o}
    BY <1>1, <1>2 DEF RecordsOf
  <1>4. Append(s, o) # <<>>
    BY <1>1
  <1> QED
    BY <1>1, <1>3, <1>4 DEF EndOf

LEMMA EndIsRecord ==
  ASSUME NEW s \in Seq(Nat)
  PROVE  /\ RecordsOf(s) \subseteq Nat
         /\ s # <<>> => EndOf(s) \in RecordsOf(s)
  <1>1. Len(s) \in Nat /\ DOMAIN s = 1..Len(s) /\ \A i \in 1..Len(s) : s[i] \in Nat
    BY LenProperties, ElementOfSeq
  <1>2. s # <<>> => Len(s) \in 1..Len(s)
    BY <1>1, EmptySeq
  <1> QED
    BY <1>1, <1>2 DEF RecordsOf, EndOf

\* The record forwardFailed() takes next exists: a set of offsets has a least.
LEMMA LeastIsMember ==
  ASSUME NEW S \in SUBSET Nat, S # {}
  PROVE  Least(S) \in S
  <1>1. PICK m \in S : \A k \in S : <<k, m>> \notin OpToRel(<, Nat)
    BY WFMin, NatLessThanWellFounded, Zenon
  <1>2. m \in Nat /\ \A k \in S : k \in Nat
    OBVIOUS
  <1>3. \A k \in S : ~(k < m)
    BY <1>1, <1>2, Zenon DEF OpToRel
  <1>4. \E o \in S : \A i \in S : o <= i
    BY <1>2, <1>3
  <1> QED
    BY <1>4 DEF Least

LEMMA BatchFacts ==
  ASSUME Pipe, LedgerTypeOK, NEW p \in Partitions
  PROVE  /\ running[p] \in BatchRecord /\ arrival[p] \in ArrivalRecord
         /\ collecting[p] \in Seq(Nat) /\ revocations[p] \in Nat /\ position[p] \in Nat
         /\ Items(p) = RecordsOf(running[p].items) /\ Items(p) \subseteq Nat
         /\ Decodable(p) \subseteq Items(p)
         /\ Last(p) = EndOf(running[p].items)
         /\ Runs(p) => Last(p) \in Items(p)
         /\ Len(log[p]) \in Nat /\ committed[p] \in Nat
         /\ Batching(p)
  <1>1. running[p] \in BatchRecord /\ running[p].items \in Seq(Nat) /\ Batching(p)
    BY DEF Pipe, Types, BatchRecord
  <1>2. Items(p) = RecordsOf(running[p].items) /\ Last(p) = EndOf(running[p].items)
    BY DEF Items, RecordsOf, Last, EndOf
  <1>3. Items(p) \subseteq Nat /\ (Runs(p) => Last(p) \in Items(p))
    BY <1>1, <1>2, EndIsRecord DEF Batching, Shapes
  <1>4. Len(log[p]) \in Nat /\ committed[p] \in Nat
    BY LenProperties DEF LedgerTypeOK
  <1> QED
    BY <1>1, <1>2, <1>3, <1>4 DEF Pipe, Types, Decodable

LEMMA EmptyBatch ==
  /\ NoBatch \in BatchRecord /\ Nowhere \in ArrivalRecord
  /\ NoBatch.pc = "none" /\ NoBatch.items = <<>> /\ NoBatch.left = {} /\ NoBatch.revocation = 0
  /\ Nowhere.pc = "none" /\ Nowhere.revocation = 0
  <1>1. <<>> \in Seq(Nat)
    OBVIOUS
  <1> QED
    BY <1>1 DEF NoBatch, Nowhere, BatchRecord, ArrivalRecord

-----------------------------------------------------------------------------
(* A step is about one partition: the others keep what they have. *)

\* The state of p itself.
Same(p) ==
    /\ arrival'[p] = arrival[p] /\ collecting'[p] = collecting[p] /\ running'[p] = running[p]
    /\ revocations'[p] = revocations[p] /\ position'[p] = position[p]
    /\ p \in assigned' <=> p \in assigned
    /\ p \in revoking' <=> p \in revoking

Only(p) == /\ UNCHANGED <<state, gaveUp>>
           /\ \A q \in Partitions \ {p} : Same(q)

LEMMA SameKeeps ==
  ASSUME Pipe, LedgerTypeOK, Grows, Kept, NEW p \in Partitions, Same(p), UNCHANGED <<state, gaveUp>>
  PROVE  Batching(p)'
  <1>1. /\ Batching(p) /\ Items(p) \subseteq 1..Len(log[p])
        /\ Len(log[p]) \in Nat /\ Len(log'[p]) \in Nat /\ Len(log[p]) <= Len(log'[p])
    BY DEF Pipe, Grows, Batching, Shapes
  <1>2. Items(p)' = Items(p) /\ (Runs(p)' <=> Runs(p)) /\ (HasArrival(p)' <=> HasArrival(p))
    BY DEF Same, Items, Runs, HasArrival
  <1>3. Decodable(p)' = Decodable(p)
    BY <1>1, <1>2 DEF Kept, Decodable
  <1>4. OnHand(p)' = OnHand(p)
    BY <1>2 DEF Same, OnHand
  <1>5. \A o : OutcomeOf(p, o) => OutcomeOf(p, o)'
    BY DEF Grows, OutcomeOf
  <1>6. Shapes(p)' /\ Phases(p)'
    BY <1>1, <1>2 DEF Same, Batching, Shapes, Phases, Serving
  <1>7. Progress(p)'
    BY <1>1, <1>2, <1>3, <1>5 DEF Same, Batching, Progress
  <1>8. Covers(p, collecting[p])' /\ Covers(p, running[p].items)'
    BY <1>1, <1>5 DEF Same, Batching, Covers
  <1>9. Arrives(p)' /\ Reads(p)'
    BY <1>1, <1>2, <1>4, <1>5 DEF Same, Batching, Arrives, Reads, AccountedUpTo, Serving
  <1> QED
    BY <1>6, <1>7, <1>8, <1>9 DEF Batching

LEMMA OnlyKeeps ==
  ASSUME Pipe, LedgerTypeOK, Grows, Kept, NEW p \in Partitions, Only(p),
         Types', CountersOK', Batching(p)'
  PROVE  Pipe'
  BY SameKeeps DEF Only, Pipe

\* Every partition keeps what it has.
LEMMA NoneKeeps ==
  ASSUME Pipe, LedgerTypeOK, Grows, Kept, CountersOK', UNCHANGED <<state, gaveUp>>,
         paused' \subseteq Partitions,
         UNCHANGED <<arrival, collecting, running, revocations, assigned, revoking, position>>
  PROVE  Pipe'
  <1>1. \A p \in Partitions : Same(p)
    BY DEF Same
  <1>2. Types'
    BY DEF Pipe, Types
  <1> QED
    BY <1>1, <1>2, SameKeeps DEF Pipe

-----------------------------------------------------------------------------
(* What the shapes of a step do to the partition p it is about.  A step about *)
(* a delivery may also move the client's position to it.                      *)

\* The client's side of p, when the record at o is what it delivered last.
Delivered(p, o) ==
    /\ position' \in [Partitions -> Nat]
    /\ \A q \in Partitions \ {p} : position'[q] = position[q]
    /\ p \in assigned => position'[p] = o
    /\ UNCHANGED <<state, gaveUp, revocations, assigned, revoking>>

\* A record that arrives: everything before it has an outcome or is in a batch.
Arriving(p, o) ==
    /\ o \in 1..Len(log[p])
    /\ Serving => p \in assigned \union revoking /\ AccountedUpTo(p, o - 1)

LEMMA AtKeeps ==
  ASSUME Pipe, LedgerTypeOK, Grows, Kept, CountersOK', NEW p \in Partitions, NEW o \in Nat,
         NEW pc \in {"queued", "parked", "sleeping", "waiting"}, NEW reentry \in BOOLEAN,
         At(p, pc, o, reentry), UNCHANGED <<collecting, running>>, paused' \subseteq Partitions,
         Delivered(p, o), Arriving(p, o),
         pc = "waiting" => Runs(p),
         pc # "queued" => state = "running",
         pc = "queued" => state # "running"
  PROVE  Pipe'
  <1> DEFINE new == [pc |-> pc, offset |-> o, revocation |-> revocations[p], reentry |-> reentry]
  <1>0. /\ Batching(p) /\ Items(p) \subseteq Nat /\ revocations[p] \in Nat
        /\ Len(log[p]) \in Nat /\ Len(log'[p]) \in Nat /\ Len(log[p]) <= Len(log'[p])
    BY BatchFacts DEF Grows
  <1>1. /\ new \in ArrivalRecord /\ new.pc = pc /\ new.offset = o /\ new.revocation = revocations[p]
        /\ arrival' = [arrival EXCEPT ![p] = new]
    BY <1>0 DEF At, ArrivalRecord
  <1>2. arrival' \in [Partitions -> ArrivalRecord] /\ arrival'[p] = new
        /\ \A q \in Partitions \ {p} : arrival'[q] = arrival[q]
    <2>1. arrival \in [Partitions -> ArrivalRecord]
      BY DEF Pipe, Types
    <2> QED
      BY <1>1, <2>1
  <1> HIDE DEF new
  <1>3. Types' /\ Only(p)
    BY <1>2 DEF Delivered, Only, Same, Pipe, Types
  <1>4. Items(p)' = Items(p) /\ (Runs(p)' <=> Runs(p)) /\ HasArrival(p)' /\ arrival'[p].pc = pc
    BY <1>1, <1>2 DEF Items, Runs, HasArrival
  <1>5. Decodable(p)' = Decodable(p) /\ OnHand(p)' = OnHand(p)
    <2>1. Items(p) \subseteq 1..Len(log[p])
      BY <1>0 DEF Batching, Shapes
    <2> QED
      BY <1>4, <2>1 DEF Delivered, Kept, Decodable, OnHand
  <1>6. \A i : OutcomeOf(p, i) => OutcomeOf(p, i)'
    BY DEF Grows, OutcomeOf
  <1>7. Shapes(p)'
    BY <1>0, <1>1, <1>2, <1>4 DEF Delivered, Arriving, Batching, Shapes
  <1>8. Phases(p)'
    BY <1>0, <1>1, <1>2, <1>4 DEF Delivered, Batching, Phases, Serving
  <1>9. Progress(p)' /\ Covers(p, collecting[p])' /\ Covers(p, running[p].items)'
    BY <1>0, <1>4, <1>5, <1>6 DEF Batching, Progress, Covers
  <1>10. Serving => AccountedUpTo(p, o - 1)'
    BY <1>5, <1>6 DEF Arriving, AccountedUpTo
  <1>11. Arrives(p)'
    BY <1>0, <1>1, <1>2, <1>4, <1>10 DEF Delivered, Arrives, Batching, Phases, Serving
  <1>12. Reads(p)'
    BY <1>1, <1>2, <1>4, <1>10 DEF Delivered, Arriving, Reads, Serving
  <1> QED
    BY <1>3, <1>7, <1>8, <1>9, <1>11, <1>12, OnlyKeeps DEF Batching

LEMMA DroppedKeeps ==
  ASSUME Pipe, LedgerTypeOK, Grows, Kept, CountersOK', NEW p \in Partitions,
         Dropped(p), Serving => p \notin assigned,
         UNCHANGED <<state, gaveUp, revocations, assigned, revoking, position>>
  PROVE  Pipe'
  <1>0. Batching(p) /\ Len(log[p]) \in Nat /\ Len(log'[p]) \in Nat /\ Len(log[p]) <= Len(log'[p])
    BY BatchFacts DEF Grows
  <1>1. /\ arrival' \in [Partitions -> ArrivalRecord] /\ arrival'[p] = Nowhere
        /\ \A q \in Partitions \ {p} : arrival'[q] = arrival[q]
        /\ paused' \subseteq paused /\ UNCHANGED <<collecting, running>>
    BY EmptyBatch DEF Dropped, Pipe, Types
  <1>2. Types' /\ Only(p)
    BY <1>1 DEF Only, Same, Pipe, Types
  <1>3. Items(p)' = Items(p) /\ (Runs(p)' <=> Runs(p)) /\ ~HasArrival(p)'
    BY <1>1, EmptyBatch DEF Items, Runs, HasArrival
  <1>4. Decodable(p)' = Decodable(p)
    BY <1>0, <1>3 DEF Batching, Shapes, Kept, Decodable
  <1>5. \A i : OutcomeOf(p, i) => OutcomeOf(p, i)'
    BY DEF Grows, OutcomeOf
  <1>6. Shapes(p)' /\ Phases(p)'
    <2>1. arrival'[p].pc = "none" /\ arrival'[p].revocation = 0 /\ revocations[p] \in Nat
      BY <1>1, EmptyBatch DEF Pipe, Types
    <2> QED
      BY <1>0, <1>1, <1>3, <2>1 DEF Batching, Shapes, Phases, Serving
  <1>7. Progress(p)' /\ Covers(p, collecting[p])' /\ Covers(p, running[p].items)'
    BY <1>0, <1>1, <1>3, <1>4, <1>5 DEF Batching, Progress, Covers
  <1>8. Arrives(p)' /\ Reads(p)'
    BY <1>3 DEF Arrives, Reads, Serving
  <1> QED
    BY <1>2, <1>6, <1>7, <1>8, OnlyKeeps DEF Batching

LEMMA BegunFacts ==
  ASSUME NEW p \in Partitions, NEW items \in Seq(Nat), revocations[p] \in Nat
  PROVE  /\ Begun(p, items) \in BatchRecord
         /\ Begun(p, items).pc = "decoding" /\ Begun(p, items).items = items
         /\ Begun(p, items).left = {} /\ Begun(p, items).revocation = revocations[p]
  BY DEF Begun, NoBatch, BatchRecord

\* The record at o joins the batch that collects.
LEMMA JoinKeeps ==
  ASSUME Pipe, LedgerTypeOK, UNCHANGED ledger, CountersOK', NEW p \in Partitions, NEW o \in Nat,
         NEW reentry \in BOOLEAN, Join(p, o, reentry), Delivered(p, o), Arriving(p, o),
         paused' \subseteq Partitions, state = "running", ~Runs(p)
  PROVE  Pipe'
  <1> DEFINE items == Append(collecting[p], o)
             full == Len(items) >= Size
             batch == [Begun(p, items) EXCEPT !.open = ~reentry, !.reentry = reentry]
  <1>0. /\ Batching(p) /\ collecting[p] \in Seq(Nat) /\ revocations[p] \in Nat
        /\ Len(log[p]) \in Nat /\ Items(p) = RecordsOf(running[p].items) /\ running[p].items = <<>>
        /\ log' = log /\ handled' = handled
    BY BatchFacts DEF ledger, Batching, Shapes
  <1>1. /\ items \in Seq(Nat) /\ items # <<>> /\ Len(items) = Len(collecting[p]) + 1
        /\ Len(collecting[p]) \in Nat /\ EndOf(items) = o
        /\ RecordsOf(items) = RecordsOf(collecting[p]) \union {o}
    BY <1>0, RecordsOfAppend
  <1>2. batch \in BatchRecord /\ batch.pc = "decoding" /\ batch.items = items /\ batch.left = {}
        /\ batch.revocation = revocations[p]
    <2>1. (~reentry) \in BOOLEAN
      OBVIOUS
    <2>2. /\ Begun(p, items) \in BatchRecord
          /\ Begun(p, items).pc = "decoding" /\ Begun(p, items).items = items
          /\ Begun(p, items).left = {} /\ Begun(p, items).revocation = revocations[p]
      BY <1>0, <1>1, BegunFacts
    <2> HIDE DEF items
    <2> QED
      BY <2>1, <2>2 DEF BatchRecord
  <1>3. /\ arrival' = [arrival EXCEPT ![p] = Nowhere]
        /\ collecting' = [collecting EXCEPT ![p] = IF full THEN <<>> ELSE items]
        /\ running' = IF full THEN [running EXCEPT ![p] = batch] ELSE running
    BY DEF Join
  <1> HIDE DEF items, batch
  <1>4. <<>> \in Seq(Nat) /\ RecordsOf(<<>>) = {} /\ Len(<<>>) = 0
    BY RecordsOfNone
  <1>5. /\ arrival' \in [Partitions -> ArrivalRecord] /\ arrival'[p] = Nowhere
        /\ \A q \in Partitions \ {p} : arrival'[q] = arrival[q]
        /\ collecting' \in [Partitions -> Seq(Nat)] /\ collecting'[p] = IF full THEN <<>> ELSE items
        /\ \A q \in Partitions \ {p} : collecting'[q] = collecting[q]
        /\ running' \in [Partitions -> BatchRecord] /\ running'[p] = IF full THEN batch ELSE running[p]
        /\ \A q \in Partitions \ {p} : running'[q] = running[q]
    BY <1>1, <1>2, <1>3, <1>4, EmptyBatch DEF Pipe, Types
  <1>6. Types' /\ Only(p) /\ Grows /\ Kept
    BY <1>0, <1>5, LenProperties DEF Delivered, Only, Same, Pipe, Types, Grows, Kept, LedgerTypeOK
  <1>7. ~HasArrival(p)' /\ arrival'[p].pc = "none" /\ arrival'[p].revocation = 0
    BY <1>5, EmptyBatch DEF HasArrival
  <1>8. Items(p)' = RecordsOf(running'[p].items) /\ (Runs(p)' <=> full)
    BY <1>2, <1>5 DEF Items, RecordsOf, Runs
  <1>9. RecordsOf(items) \subseteq 1..Len(log[p])
    BY <1>0, <1>1 DEF Batching, Shapes, Arriving
  <1>10. Shapes(p)'
    <2>1. CASE full
      <3>1. Len(items) <= Size
        BY <1>0, <1>1, BatchAssumption DEF Batching, Shapes
      <3>2. Size \in Nat /\ Size > 0
        BY BatchAssumption
      <3>3. running'[p] = batch /\ collecting'[p] = <<>> /\ Runs(p)' /\ Items(p)' = RecordsOf(items)
        BY <1>2, <1>5, <1>8, <2>1
      <3> HIDE DEF full
      <3> QED
        BY <1>0, <1>1, <1>2, <1>4, <1>7, <1>9, <3>1, <3>2, <3>3 DEF Delivered, Shapes
    <2>2. CASE ~full
      <3>1. Len(items) < Size
        BY <1>1, <2>2, BatchAssumption
      <3> QED
        BY <1>0, <1>1, <1>2, <1>4, <1>5, <1>7, <1>8, <1>9, <2>2, <3>1 DEF Delivered, Batching, Shapes
    <2> QED
      BY <2>1, <2>2
  <1>11. Phases(p)'
    BY <1>0, <1>7 DEF Delivered, Batching, Phases, Serving
  <1>12. Progress(p)'
    BY <1>0, <1>2, <1>5 DEF Progress, Runs
  <1>13. RecordsOf(items) \subseteq OnHand(p)' /\ OnHand(p) \subseteq OnHand(p)'
    <2>1. OnHand(p) = RecordsOf(collecting[p])
      BY <1>0, <1>4 DEF OnHand
    <2>2. OnHand(p)' = RecordsOf(items)
      <3>1. CASE full
        BY <1>2, <1>4, <1>5, <1>8, <3>1 DEF OnHand, Delivered
      <3>2. CASE ~full
        BY <1>0, <1>4, <1>5, <1>8, <3>2 DEF OnHand
      <3> QED
        BY <3>1, <3>2
    <2> QED
      BY <1>1, <2>1, <2>2
  <1>14. \A i \in 1..o : OutcomeOf(p, i) \/ i \in RecordsOf(items)
    <2>1. \A i \in 1..(o - 1) : OutcomeOf(p, i) \/ i \in RecordsOf(collecting[p])
      BY <1>0, <1>4 DEF Arriving, Serving, AccountedUpTo, OnHand
    <2> QED
      BY <1>1, <2>1
  <1>15. Covers(p, collecting[p])' /\ Covers(p, running[p].items)'
    BY <1>0, <1>1, <1>2, <1>5, <1>14 DEF Covers, OutcomeOf
  <1>16. Arrives(p)'
    BY <1>7 DEF Arrives
  <1>17. Reads(p)'
    BY <1>0, <1>7, <1>13, <1>14 DEF Reads, Delivered, AccountedUpTo, OutcomeOf
  <1> QED
    BY <1>6, <1>10, <1>11, <1>12, <1>15, <1>16, <1>17, OnlyKeeps DEF Batching

LEMMA LedgerStays ==
  ASSUME LedgerTypeOK, UNCHANGED ledger
  PROVE  Grows /\ Kept
  BY LenProperties DEF ledger, LedgerTypeOK, Grows, Kept

LEMMA CollectKeeps ==
  ASSUME Pipe, LedgerTypeOK, UNCHANGED ledger, CountersOK', NEW p \in Partitions, NEW o \in Nat,
         NEW reentry \in BOOLEAN, Collect(p, o, reentry), Delivered(p, o), Arriving(p, o),
         state = "running"
  PROVE  Pipe'
  <1>1. CASE Runs(p)
    <2>1. At(p, "waiting", o, reentry) /\ UNCHANGED <<collecting, running>> /\ paused' \subseteq Partitions
      BY <1>1 DEF Collect, Pipe, Types
    <2> QED
      BY <1>1, <2>1, LedgerStays, AtKeeps
  <1>2. CASE ~Runs(p)
    <2>1. Join(p, o, reentry) /\ paused' \subseteq Partitions
      BY <1>2 DEF Collect, Join, Pipe, Types
    <2> QED
      BY <1>2, <2>1, JoinKeeps
  <1> QED
    BY <1>1, <1>2

LEMMA ProcessKeeps ==
  ASSUME Pipe, LedgerTypeOK, UNCHANGED ledger, CountersOK', NEW p \in Partitions, NEW o \in Nat,
         Process(p, o), Delivered(p, o), Arriving(p, o), state = "running"
  PROVE  Pipe'
  <1>1. CASE Collect(p, o, FALSE)
    BY <1>1, CollectKeeps
  <1>2. ASSUME NEW pc \in {"parked", "sleeping"}, At(p, pc, o, FALSE),
               paused' \subseteq Partitions, UNCHANGED <<collecting, running>>
        PROVE  Pipe'
    BY <1>2, LedgerStays, AtKeeps
  <1> QED
    BY <1>1, <1>2 DEF Process, Pipe, Types

-----------------------------------------------------------------------------
(* The steps of a delivery. *)

LEMMA CountersStay == ASSUME Pipe, UNCHANGED <<elapsed, faults>> PROVE CountersOK'
  BY DEF Pipe, CountersOK

LEMMA DeliverBegins ==
  ASSUME Pipe, LedgerTypeOK, NEW p \in Partitions, Deliver(p)
  PROVE  \E o \in Nat : /\ o = position[p] + 1 /\ p \in assigned /\ ~HasArrival(p)
                        /\ Delivered(p, o) /\ Arriving(p, o) /\ CountersOK' /\ UNCHANGED ledger
                        /\ IF state = "running" THEN Process(p, o)
                           ELSE At(p, "queued", o, FALSE) /\ UNCHANGED <<collecting, running, paused>>
  <1> DEFINE o == position[p] + 1
  <1>1. /\ p \in assigned /\ ~HasArrival(p) /\ o <= Len(log[p])
        /\ position' = [position EXCEPT ![p] = o]
        /\ UNCHANGED <<state, gaveUp, revocations, assigned, revoking, elapsed, faults>>
        /\ UNCHANGED ledger
        /\ IF state = "running" THEN Process(p, o)
           ELSE At(p, "queued", o, FALSE) /\ UNCHANGED <<collecting, running, paused>>
    BY DEF Deliver, HasArrival
  <1>2. position[p] \in Nat /\ Len(log[p]) \in Nat /\ Batching(p) /\ o \in Nat
    BY BatchFacts
  <1>3. Delivered(p, o) /\ CountersOK'
    BY <1>1, <1>2, CountersStay DEF Delivered, Pipe, Types
  <1>4. Arriving(p, o)
    <2>1. Serving => AccountedUpTo(p, position[p])
      BY <1>1, <1>2 DEF Batching, Reads
    <2> QED
      BY <1>1, <1>2, <2>1 DEF Arriving
  <1> QED
    BY <1>1, <1>2, <1>3, <1>4

LEMMA DeliverKeeps ==
  ASSUME Pipe, LedgerTypeOK, NEW p \in Partitions, Deliver(p) PROVE Pipe'
  <1>1. PICK o \in Nat : /\ Delivered(p, o) /\ Arriving(p, o) /\ CountersOK' /\ UNCHANGED ledger
                         /\ IF state = "running" THEN Process(p, o)
                            ELSE At(p, "queued", o, FALSE) /\ UNCHANGED <<collecting, running, paused>>
    BY DeliverBegins
  <1>2. CASE state = "running"
    BY <1>1, <1>2, ProcessKeeps
  <1>3. CASE state # "running"
    <2>1. paused' \subseteq Partitions
      BY <1>1, <1>3 DEF Pipe, Types
    <2> QED
      BY <1>1, <1>3, <2>1, LedgerStays, AtKeeps
  <1> QED
    BY <1>2, <1>3

\* The record that arrived goes on its way.
LEMMA ArrivalGoesOn ==
  ASSUME Pipe, LedgerTypeOK, NEW p \in Partitions, HasArrival(p), state = "running",
         arrival[p].pc = "queued" \/ arrival[p].revocation = revocations[p],
         UNCHANGED <<state, gaveUp, revocations, assigned, revoking, position>>
  PROVE  /\ arrival[p].offset \in Nat /\ arrival[p].reentry \in BOOLEAN
         /\ Delivered(p, arrival[p].offset) /\ Arriving(p, arrival[p].offset)
  <1>1. Batching(p) /\ arrival[p] \in ArrivalRecord
    BY BatchFacts
  <1>2. Arriving(p, arrival[p].offset)
    BY <1>1 DEF Batching, Arrives, Reads, Shapes, Serving, Arriving
  <1>3. Delivered(p, arrival[p].offset)
    BY <1>1 DEF Delivered, Batching, Reads, Serving, Pipe, Types
  <1> QED
    BY <1>1, <1>2, <1>3 DEF ArrivalRecord

LEMMA ReadyKeeps ==
  ASSUME Pipe, LedgerTypeOK, NEW p \in Partitions, Ready(p) PROVE Pipe'
  <1>1. /\ HasArrival(p) /\ arrival[p].pc = "queued" /\ state # "starting" /\ CountersOK' /\ UNCHANGED ledger
        /\ UNCHANGED <<state, gaveUp, revocations, assigned, revoking, position>>
    BY CountersStay DEF Ready, HasArrival
  <1>2. CASE state = "running"
    <2>1. Process(p, arrival[p].offset)
      BY <1>2 DEF Ready
    <2> QED
      BY <1>1, <1>2, <2>1, ArrivalGoesOn, ProcessKeeps
  <1>3. CASE state # "running"
    <2>1. Dropped(p) /\ ~Serving
      BY <1>1, <1>3 DEF Ready, Serving
    <2> QED
      BY <1>1, <2>1, LedgerStays, DroppedKeeps
  <1> QED
    BY <1>2, <1>3

LEMMA ReenterKeeps ==
  ASSUME Pipe, LedgerTypeOK, NEW p \in Partitions, Reenter(p) PROVE Pipe'
  <1>1. /\ HasArrival(p) /\ arrival[p].pc = "parked" /\ CountersOK' /\ UNCHANGED ledger
        /\ UNCHANGED <<state, gaveUp, revocations, assigned, revoking, position>>
        /\ Collect(p, arrival[p].offset, TRUE)
    BY CountersStay DEF Reenter, HasArrival
  <1>2. state = "running" /\ arrival[p].revocation = revocations[p]
    BY <1>1, BatchFacts DEF Batching, Phases
  <1> QED
    BY <1>1, <1>2, ArrivalGoesOn, CollectKeeps

\* A record that waited and was not lost joins or waits again; a lost one is
\* dropped, and its partition is not this member's any more.
LEMMA WokenKeeps ==
  ASSUME Pipe, LedgerTypeOK, NEW p \in Partitions, arrival[p].pc \in {"sleeping", "waiting"},
         NEW reentry \in BOOLEAN, UNCHANGED ledger, CountersOK',
         UNCHANGED <<state, gaveUp, revocations, assigned, revoking, position>>,
         IF Lost(p) THEN Dropped(p)
         ELSE \/ Collect(p, arrival[p].offset, reentry)
              \/ ~Runs(p) /\ Join(p, arrival[p].offset, reentry)
  PROVE  Pipe'
  <1>1. HasArrival(p) /\ Batching(p)
    BY BatchFacts DEF HasArrival
  <1>2. CASE Lost(p)
    <2>1. Serving => p \notin assigned
      BY <1>1, <1>2 DEF Lost, Batching, Phases, Reads, Serving
    <2> QED
      BY <1>2, <2>1, LedgerStays, DroppedKeeps
  <1>3. CASE ~Lost(p)
    <2>1. state = "running" /\ arrival[p].revocation = revocations[p]
      BY <1>3 DEF Lost
    <2>2. paused \subseteq Partitions
      BY DEF Pipe, Types
    <2>3. /\ arrival[p].offset \in Nat /\ arrival[p].reentry \in BOOLEAN
          /\ Delivered(p, arrival[p].offset) /\ Arriving(p, arrival[p].offset)
      BY <1>1, <2>1, ArrivalGoesOn
    <2>4. CASE Collect(p, arrival[p].offset, reentry)
      BY <2>1, <2>3, <2>4, CollectKeeps
    <2>5. CASE ~Runs(p) /\ Join(p, arrival[p].offset, reentry)
      <3>1. paused' \subseteq Partitions
        BY <2>2, <2>5 DEF Join
      <3> QED
        BY <2>1, <2>3, <2>5, <3>1, JoinKeeps
    <2> QED
      BY <1>3, <2>4, <2>5
  <1> QED
    BY <1>2, <1>3

LEMMA SleepEndsKeeps ==
  ASSUME Pipe, LedgerTypeOK, NEW p \in Partitions, SleepEnds(p) PROVE Pipe'
  <1>1. /\ arrival[p].pc \in {"sleeping", "waiting"} /\ UNCHANGED ledger /\ CountersOK'
        /\ UNCHANGED <<state, gaveUp, revocations, assigned, revoking, position>>
        /\ IF Lost(p) THEN Dropped(p) ELSE Collect(p, arrival[p].offset, FALSE)
    BY CountersStay DEF SleepEnds
  <1> QED
    BY <1>1, WokenKeeps

LEMMA WakeKeeps ==
  ASSUME Pipe, LedgerTypeOK, NEW p \in Partitions, Wake(p) PROVE Pipe'
  <1>1. /\ arrival[p].pc \in {"sleeping", "waiting"} /\ UNCHANGED ledger /\ CountersOK'
        /\ UNCHANGED <<state, gaveUp, revocations, assigned, revoking, position>>
        /\ IF Lost(p) THEN Dropped(p) ELSE ~Runs(p) /\ Join(p, arrival[p].offset, arrival[p].reentry)
    BY CountersStay DEF Wake
  <1>2. arrival[p].reentry \in BOOLEAN
    BY BatchFacts DEF ArrivalRecord
  <1> QED
    BY <1>1, <1>2, WokenKeeps

-----------------------------------------------------------------------------
(* The run of a batch. *)

\* Only running[p] changes, to b.
RunSteps(p, b) ==
    /\ running' = [running EXCEPT ![p] = b]
    /\ UNCHANGED <<state, gaveUp, arrival, collecting, revocations, assigned, revoking, position>>
    /\ paused' \subseteq Partitions

LEMMA RunStepsIs ==
  ASSUME Pipe, LedgerTypeOK, Grows, Kept, NEW p \in Partitions, NEW b \in BatchRecord, RunSteps(p, b)
  PROVE  /\ Types' /\ Only(p) /\ running'[p] = b
         /\ Items(p)' = RecordsOf(b.items)
         /\ HasArrival(p)' <=> HasArrival(p)
         /\ \A i : OutcomeOf(p, i) => OutcomeOf(p, i)'
         /\ Len(log'[p]) \in Nat /\ Len(log[p]) <= Len(log'[p])
  <1>1. /\ running' \in [Partitions -> BatchRecord] /\ running'[p] = b
        /\ \A q \in Partitions \ {p} : running'[q] = running[q]
    BY DEF RunSteps, Pipe, Types
  <1>2. Types' /\ Only(p)
    BY <1>1 DEF RunSteps, Only, Same, Pipe, Types
  <1> QED
    BY <1>1, <1>2 DEF RunSteps, Items, RecordsOf, HasArrival, Grows, OutcomeOf

\* The run is over.  While the consumer serves and owns p still, that takes an
\* outcome for every record of the batch.
LEMMA EndKeeps ==
  ASSUME Pipe, LedgerTypeOK, Grows, Kept, CountersOK', NEW p \in Partitions, Runs(p), End(p),
         Serving /\ running[p].revocation = revocations[p] => \A i \in Items(p) : OutcomeOf(p, i)'
  PROVE  Pipe'
  <1>0. Batching(p) /\ revocations[p] \in Nat /\ Len(log[p]) \in Nat /\ collecting[p] = <<>>
    BY BatchFacts DEF Batching, Shapes
  <1>1. RunSteps(p, NoBatch)
    BY DEF End, RunSteps, Pipe, Types
  <1>2. /\ Types' /\ Only(p) /\ running'[p] = NoBatch
        /\ Items(p)' = {} /\ (HasArrival(p)' <=> HasArrival(p))
        /\ \A i : OutcomeOf(p, i) => OutcomeOf(p, i)'
        /\ Len(log'[p]) \in Nat /\ Len(log[p]) <= Len(log'[p])
    BY <1>1, RunStepsIs, EmptyBatch, RecordsOfNone
  <1>3. ~Runs(p)' /\ running'[p].items = <<>> /\ running'[p].left = {} /\ running'[p].pc = "none"
        /\ running'[p].revocation = 0 /\ Len(running'[p].items) = 0
    BY <1>2, EmptyBatch DEF Runs
  <1>4. RecordsOf(<<>>) = {}
    BY RecordsOfNone
  <1>5. Shapes(p)'
    BY <1>0, <1>1, <1>2, <1>3, <1>4, BatchAssumption DEF RunSteps, Batching, Shapes
  <1>6. Phases(p)'
    BY <1>0, <1>1, <1>3 DEF RunSteps, Batching, Phases, Serving
  <1>7. Progress(p)' /\ Covers(p, collecting[p])' /\ Covers(p, running[p].items)'
    BY <1>0, <1>1, <1>3 DEF RunSteps, Progress, Covers
  <1>8. ASSUME Serving, NEW n \in Nat, AccountedUpTo(p, n) PROVE AccountedUpTo(p, n)'
    BY <1>0, <1>1, <1>2, <1>4, <1>8 DEF AccountedUpTo, OnHand
  <1>9. Arrives(p)' /\ Reads(p)'
    <2>1. arrival[p].offset \in Nat /\ position[p] \in Nat
          /\ (HasArrival(p) => arrival[p].offset - 1 \in Nat)
      BY <1>0, BatchFacts DEF Batching, Shapes, ArrivalRecord
    <2>2. Arrives(p)'
      BY <1>0, <1>1, <1>2, <1>3, <1>8, <2>1 DEF RunSteps, Batching, Arrives, Serving
    <2>3. ASSUME Serving', p \in assigned'
          PROVE  AccountedUpTo(p, IF HasArrival(p) THEN position[p] - 1 ELSE position[p])'
      <3>1. Serving /\ AccountedUpTo(p, IF HasArrival(p) THEN position[p] - 1 ELSE position[p])
            /\ (HasArrival(p) => arrival[p].offset = position[p])
        BY <1>0, <1>1, <2>3 DEF RunSteps, Batching, Reads, Serving
      <3>2. (IF HasArrival(p) THEN position[p] - 1 ELSE position[p]) \in Nat
        BY <2>1, <3>1
      <3>3. AccountedUpTo(p, IF HasArrival(p) THEN position[p] - 1 ELSE position[p])'
            <=> \A i \in 1..(IF HasArrival(p) THEN position[p] - 1 ELSE position[p]) :
                    OutcomeOf(p, i)' \/ i \in OnHand(p)'
        BY <1>1, <1>2 DEF RunSteps, AccountedUpTo
      <3>4. \A i \in 1..(IF HasArrival(p) THEN position[p] - 1 ELSE position[p]) :
                    OutcomeOf(p, i)' \/ i \in OnHand(p)'
        BY <3>1, <3>2, <1>8 DEF AccountedUpTo
      <3> QED
        BY <3>3, <3>4
    <2> QED
      BY <1>0, <1>1, <1>2, <2>2, <2>3 DEF RunSteps, Batching, Reads, Serving
  <1> QED
    BY <1>2, <1>5, <1>6, <1>7, <1>9, OnlyKeeps DEF Batching

\* The run goes on with the same records.
LEMMA GotoKeeps ==
  ASSUME Pipe, LedgerTypeOK, Grows, Kept, CountersOK', NEW p \in Partitions, Runs(p),
         NEW b \in BatchRecord, Goto(p, b), b.pc # "none", b.items = running[p].items,
         b.revocation = running[p].revocation, b.left \subseteq Items(p), Progress(p)'
  PROVE  Pipe'
  <1>0. /\ Batching(p) /\ Items(p) = RecordsOf(running[p].items) /\ Len(log[p]) \in Nat
    BY BatchFacts
  <1>1. RunSteps(p, b)
    BY DEF Goto, client, RunSteps, Pipe, Types
  <1>2. /\ Types' /\ Only(p) /\ running'[p] = b
        /\ Items(p)' = Items(p) /\ (HasArrival(p)' <=> HasArrival(p))
        /\ \A i : OutcomeOf(p, i) => OutcomeOf(p, i)'
        /\ Len(log'[p]) \in Nat /\ Len(log[p]) <= Len(log'[p])
    BY <1>0, <1>1, RunStepsIs
  <1>3. Runs(p)'
    BY <1>2 DEF Runs
  <1>4. OnHand(p)' = OnHand(p)
    BY <1>1, <1>2 DEF RunSteps, OnHand
  <1>5. Shapes(p)'
    BY <1>0, <1>1, <1>2, <1>3 DEF RunSteps, Batching, Shapes
  <1>6. Phases(p)'
    BY <1>0, <1>1, <1>3 DEF RunSteps, Batching, Phases, Serving
  <1>7. Covers(p, collecting[p])' /\ Covers(p, running[p].items)'
    BY <1>0, <1>1, <1>2 DEF RunSteps, Batching, Covers
  <1>8. Arrives(p)' /\ Reads(p)'
    BY <1>0, <1>1, <1>2, <1>3, <1>4 DEF RunSteps, Batching, Arrives, Reads, AccountedUpTo, Serving
  <1> QED
    BY <1>2, <1>5, <1>6, <1>7, <1>8, OnlyKeeps DEF Batching

\* What an await of the run presupposes, of the batch b and of the outcomes
\* there are when it begins.
Awaits(p, b) ==
    /\ b.pc \in {"retrying", "deadLettering"} =>
          /\ b.left # {}
          /\ \A i \in (IF b.ran THEN Items(p) ELSE Items(p) \ Decodable(p)) \ b.left : OutcomeOf(p, i)'
    /\ b.pc \in {"held", "handling"} =>
          /\ b.ran /\ Decodable(p) # {}
          /\ \A i \in Items(p) \ Decodable(p) : OutcomeOf(p, i)'
    /\ b.pc = "committing" => \A i \in Items(p) : OutcomeOf(p, i)'

LEMMA GoesTo ==
  ASSUME Pipe, LedgerTypeOK, Grows, Kept, CountersOK', NEW p \in Partitions, Runs(p),
         NEW b \in BatchRecord, Goto(p, b), b.pc # "none", b.items = running[p].items,
         b.revocation = running[p].revocation, b.left \subseteq Items(p), Awaits(p, b)
  PROVE  Pipe'
  <1>1. RunSteps(p, b)
    BY DEF Goto, client, RunSteps, Pipe, Types
  <1>2. running'[p] = b /\ Items(p)' = Items(p)
    BY <1>1, RunStepsIs, BatchFacts
  <1>3. Items(p) \subseteq 1..Len(log[p])
    BY BatchFacts DEF Batching, Shapes
  <1>4. Decodable(p)' = Decodable(p)
    BY <1>2, <1>3 DEF Kept, Decodable
  <1>5. Progress(p)'
    BY <1>2, <1>4 DEF Awaits, Progress
  <1> QED
    BY <1>5, GotoKeeps

LEMMA ForwardKeeps ==
  ASSUME Pipe, LedgerTypeOK, Grows, Kept, CountersOK', NEW p \in Partitions, Runs(p),
         NEW left, left \subseteq Items(p), left # {}, NEW ran \in BOOLEAN, Forward(p, left, ran),
         \A i \in (IF ran THEN Items(p) ELSE Items(p) \ Decodable(p)) \ left : OutcomeOf(p, i)'
  PROVE  Pipe'
  <1>0. running[p] \in BatchRecord /\ left \in SUBSET Nat
    BY BatchFacts
  <1>1. ASSUME NEW pc \in {"retrying", "deadLettering", "crashing"},
               Goto(p, [running[p] EXCEPT !.pc = pc, !.left = left, !.ran = ran])
        PROVE  Pipe'
    <2> DEFINE b == [running[p] EXCEPT !.pc = pc, !.left = left, !.ran = ran]
    <2>1. /\ b \in BatchRecord /\ b.pc = pc /\ b.left = left /\ b.ran = ran
          /\ b.items = running[p].items /\ b.revocation = running[p].revocation
      BY <1>0 DEF BatchRecord
    <2>2. Goto(p, b)
      BY <1>1
    <2> HIDE DEF b
    <2>3. Awaits(p, b)
      BY <2>1 DEF Awaits
    <2> QED
      BY <2>1, <2>2, <2>3, GoesTo
  <1> QED
    BY <1>1 DEF Forward

LEMMA ProceedKeeps ==
  ASSUME Pipe, LedgerTypeOK, Grows, Kept, CountersOK', NEW p \in Partitions, Runs(p),
         NEW left, left \subseteq Items(p), NEW ran \in BOOLEAN, Proceed(p, left, ran),
         \A i \in (IF ran THEN Items(p) ELSE Items(p) \ Decodable(p)) \ left : OutcomeOf(p, i)'
  PROVE  Pipe'
  <1>0. running[p] \in BatchRecord /\ Decodable(p) \subseteq Items(p)
    BY BatchFacts
  <1>1. CASE left # {}
    <2>1. Forward(p, left, ran)
      BY <1>1 DEF Proceed
    <2> QED
      BY <1>1, <2>1, ForwardKeeps
  <1>2. CASE left = {} /\ ~ran /\ Decodable(p) # {}
    <2>1. PICK pc \in {"handling", "held"} : Goto(p, [running[p] EXCEPT !.pc = pc, !.left = {}, !.ran = TRUE])
      BY <1>2 DEF Proceed
    <2> DEFINE b == [running[p] EXCEPT !.pc = pc, !.left = {}, !.ran = TRUE]
    <2>2. /\ b \in BatchRecord /\ b.pc = pc /\ b.left = {} /\ b.ran
          /\ b.items = running[p].items /\ b.revocation = running[p].revocation
      BY <1>0 DEF BatchRecord
    <2>3. Goto(p, b)
      BY <2>1
    <2> HIDE DEF b
    <2>4. Awaits(p, b)
      BY <1>2, <2>2 DEF Awaits
    <2> QED
      BY <2>2, <2>3, <2>4, GoesTo
  <1>3. CASE left = {} /\ (ran \/ Decodable(p) = {})
    <2>1. \A i \in Items(p) : OutcomeOf(p, i)'
      BY <1>3
    <2>2. CASE gaveUp
      <3>1. End(p)
        BY <1>3, <2>2 DEF Proceed
      <3> QED
        BY <2>1, <3>1, EndKeeps
    <2>3. CASE ~gaveUp
      <3> DEFINE b == [running[p] EXCEPT !.pc = "committing", !.left = {}]
      <3>1. Goto(p, b)
        BY <1>3, <2>3 DEF Proceed
      <3>2. /\ b \in BatchRecord /\ b.pc = "committing" /\ b.left = {}
            /\ b.items = running[p].items /\ b.revocation = running[p].revocation
        BY <1>0 DEF BatchRecord
      <3> HIDE DEF b
      <3>3. Awaits(p, b)
        BY <2>1, <3>2 DEF Awaits
      <3> QED
        BY <3>1, <3>2, <3>3, GoesTo
    <2> QED
      BY <2>2, <2>3
  <1> QED
    BY <1>1, <1>2, <1>3

\* A run that is not served any more may end as it is.
LEMMA GaveUpEnds ==
  ASSUME Pipe, LedgerTypeOK, Grows, Kept, CountersOK', NEW p \in Partitions, Runs(p), End(p), gaveUp
  PROVE  Pipe'
  <1>1. ~Serving
    BY BatchFacts DEF Batching, Phases
  <1> QED
    BY <1>1, EndKeeps

LEMMA DecodedKeeps ==
  ASSUME Pipe, LedgerTypeOK, Grows, Kept, NEW p \in Partitions, Decoded(p) PROVE Pipe'
  <1>1. Runs(p) /\ CountersOK' /\ Items(p) \ Decodable(p) \subseteq Items(p)
    BY CountersStay DEF Decoded, Runs
  <1> QED
    BY <1>1, GaveUpEnds, ProceedKeeps DEF Decoded

LEMMA HoldWakesKeeps ==
  ASSUME Pipe, LedgerTypeOK, Grows, Kept, NEW p \in Partitions, HoldWakes(p) PROVE Pipe'
  <1>1. /\ Runs(p) /\ CountersOK' /\ running[p].pc = "held"
        /\ \A i : OutcomeOf(p, i) => OutcomeOf(p, i)'
    BY CountersStay DEF HoldWakes, Runs, Grows, OutcomeOf
  <1>2. /\ running[p] \in BatchRecord /\ running[p].ran /\ running[p].left \subseteq Items(p)
        /\ Decodable(p) # {} /\ Decodable(p) \subseteq Items(p)
        /\ \A i \in Items(p) \ Decodable(p) : OutcomeOf(p, i)'
    BY <1>1, BatchFacts DEF Batching, Progress, Shapes
  <1>3. CASE Drained \/ revocations[p] # running[p].revocation
    <2>1. End(p) /\ ~(Serving /\ running[p].revocation = revocations[p])
      BY <1>3 DEF HoldWakes, Serving, Drained
    <2> QED
      BY <1>1, <2>1, EndKeeps
  <1>4. CASE Goto(p, [running[p] EXCEPT !.pc = "handling"])
    <2> DEFINE b == [running[p] EXCEPT !.pc = "handling"]
    <2>1. /\ b \in BatchRecord /\ b.pc = "handling" /\ b.left = running[p].left /\ b.ran
          /\ b.items = running[p].items /\ b.revocation = running[p].revocation
      BY <1>2 DEF BatchRecord
    <2>2. Goto(p, b)
      BY <1>4
    <2> HIDE DEF b
    <2>3. Awaits(p, b)
      BY <1>2, <2>1 DEF Awaits
    <2> QED
      BY <1>1, <1>2, <2>1, <2>2, <2>3, GoesTo
  <1>5. CASE Forward(p, Decodable(p), TRUE)
    BY <1>1, <1>2, <1>5, ForwardKeeps
  <1> QED
    BY <1>3, <1>4, <1>5 DEF HoldWakes

\* A stop ends the runs of `gone`; what collects and what is parked is gone,
\* and nothing is served any more.
LEMMA StopKeeps ==
  ASSUME Pipe, LedgerTypeOK, Grows, Kept, CountersOK', NEW gone \in SUBSET Partitions, StopWith(gone)
  PROVE  Pipe'
  <1>1. /\ state' \in {"stopping", "stopped"} /\ UNCHANGED <<gaveUp, revocations, assigned, revoking, position>>
        /\ paused' \subseteq Partitions
        /\ \A p \in Partitions : /\ collecting'[p] = <<>>
                                 /\ arrival'[p] \in {arrival[p], Nowhere} /\ arrival'[p].pc # "parked"
                                 /\ running'[p] \in {running[p], NoBatch}
    <2>1. state' \in {"stopping", "stopped"}
      BY DEF StopWith, Drained, Pipe, Types
    <2>2. paused' \subseteq Partitions
      BY DEF StopWith, Pipe, Types
    <2>3. ASSUME NEW p \in Partitions PROVE collecting'[p] = <<>> /\ arrival'[p].pc # "parked"
      BY BatchFacts, EmptyBatch DEF StopWith, Drained, Batching, Phases
    <2> QED
      BY <2>1, <2>2, <2>3 DEF StopWith
  <1>2. Types' /\ ~Serving'
    <2>1. <<>> \in Seq(Nat)
      OBVIOUS
    <2> QED
      BY <1>1, <2>1, EmptyBatch DEF StopWith, Pipe, Types, Serving
  <1>3. ASSUME NEW p \in Partitions PROVE Batching(p)'
    <2>0. /\ Batching(p) /\ revocations[p] \in Nat /\ RecordsOf(<<>>) = {} /\ Len(<<>>) = 0
          /\ Len(log[p]) \in Nat /\ Len(log'[p]) \in Nat /\ Len(log[p]) <= Len(log'[p])
          /\ Items(p) = RecordsOf(running[p].items)
      BY BatchFacts, RecordsOfNone DEF Grows
    <2>1. Items(p)' = RecordsOf(running'[p].items)
      BY DEF Items, RecordsOf
    <2>2. \A i : OutcomeOf(p, i) => OutcomeOf(p, i)'
      BY DEF Grows, OutcomeOf
    <2>3. Shapes(p)'
      <3>1. CASE running'[p] = running[p]
        BY <1>1, <2>0, <2>1, <3>1, EmptyBatch, BatchAssumption DEF Batching, Shapes, Runs, HasArrival
      <3>2. CASE running'[p] = NoBatch
        BY <1>1, <2>0, <2>1, <3>2, EmptyBatch, BatchAssumption DEF Batching, Shapes, Runs, HasArrival
      <3> QED
        BY <1>1, <3>1, <3>2
    <2>4. Phases(p)'
      BY <1>1, <1>2 DEF Phases, Serving
    <2>5. Progress(p)'
      <3>1. CASE running'[p] = running[p]
        <4>1. Decodable(p)' = Decodable(p)
          BY <2>0, <2>1, <3>1 DEF Batching, Shapes, Kept, Decodable
        <4> QED
          BY <2>0, <2>1, <2>2, <3>1, <4>1 DEF Batching, Progress
      <3>2. CASE running'[p] = NoBatch
        BY <3>2, EmptyBatch DEF Progress
      <3> QED
        BY <1>1, <3>1, <3>2
    <2>6. Covers(p, collecting[p])' /\ Covers(p, running[p].items)'
      BY <1>1, <2>0, <2>2, EmptyBatch DEF Batching, Covers
    <2>7. Arrives(p)' /\ Reads(p)'
      BY <1>2 DEF Arrives, Reads
    <2> QED
      BY <2>3, <2>4, <2>5, <2>6, <2>7 DEF Batching
  <1> QED
    BY <1>2, <1>3 DEF Pipe

LEMMA FaultCounts == ASSUME Pipe, Fault PROVE CountersOK'
  BY BatchAssumption DEF Pipe, CountersOK, Fault

LEMMA HandlerKeeps ==
  ASSUME Pipe, LedgerTypeOK, Grows, Kept, NEW p \in Partitions,
         HandlerReturns(p) \/ HandlerFails(p) \/ HandlerAborts(p) \/ HandlerNamesStranger(p)
  PROVE  Pipe'
  <1>0. Runs(p) /\ running[p].pc = "handling"
    BY DEF HandlerReturns, HandlerFails, HandlerAborts, HandlerNamesStranger, Runs
  <1>1. /\ running[p] \in BatchRecord /\ Decodable(p) \subseteq Items(p) /\ running[p].left \subseteq Items(p)
        /\ \A i \in Items(p) \ Decodable(p) : OutcomeOf(p, i)
    BY <1>0, BatchFacts DEF Batching, Progress, Shapes
  <1>2. \A i : OutcomeOf(p, i) => OutcomeOf(p, i)'
    BY DEF Grows, OutcomeOf
  <1>3. CASE HandlerReturns(p)
    <2>1. \A i \in Decodable(p) : OutcomeOf(p, i)'
      BY <1>3 DEF HandlerReturns, ResolveAll, OutcomeOf
    <2>2. Proceed(p, {}, TRUE) /\ CountersOK'
      BY <1>3, CountersStay DEF HandlerReturns
    <2> QED
      BY <1>0, <1>1, <1>2, <2>1, <2>2, ProceedKeeps
  <1>4. CASE HandlerFails(p)
    <2>1. PICK failed \in (SUBSET Decodable(p)) \ {{}} :
              /\ ResolveAll(p, Decodable(p) \ failed)
              /\ IF gaveUp THEN End(p) ELSE Forward(p, failed, TRUE)
      BY <1>4 DEF HandlerFails
    <2>2. \A i \in Decodable(p) \ failed : OutcomeOf(p, i)'
      BY <2>1 DEF ResolveAll, OutcomeOf
    <2>3. failed \subseteq Items(p) /\ failed # {}
      BY <1>1, <2>1
    <2>4. CountersOK'
      BY <1>4, CountersStay DEF HandlerFails
    <2> QED
      BY <1>0, <1>1, <1>2, <2>1, <2>2, <2>3, <2>4, ForwardKeeps, GaveUpEnds
  <1>5. CASE HandlerAborts(p)
    <2>1. CountersOK' /\ {p} \in SUBSET Partitions
      BY <1>5, FaultCounts DEF HandlerAborts
    <2> QED
      BY <1>0, <1>5, <2>1, GaveUpEnds, StopKeeps DEF HandlerAborts
  <1>6. CASE HandlerNamesStranger(p)
    <2> DEFINE b == [running[p] EXCEPT !.pc = "crashing"]
    <2>1. /\ b \in BatchRecord /\ b.pc = "crashing" /\ b.left = running[p].left
          /\ b.items = running[p].items /\ b.revocation = running[p].revocation
      BY <1>1 DEF BatchRecord
    <2>2. CountersOK' /\ (IF gaveUp THEN End(p) ELSE Goto(p, b))
      BY <1>6, FaultCounts DEF HandlerNamesStranger
    <2> HIDE DEF b
    <2>3. Awaits(p, b)
      BY <2>1 DEF Awaits
    <2> QED
      BY <1>0, <1>1, <2>1, <2>2, <2>3, GaveUpEnds, GoesTo
  <1> QED
    BY <1>3, <1>4, <1>5, <1>6

LEMMA ForwardingKeeps ==
  ASSUME Pipe, LedgerTypeOK, Grows, Kept, NEW p \in Partitions,
         HopAcknowledged(p) \/ HopFails(p) \/ Crash(p) \/ CommitLands(p) \/ CommitFails(p)
  PROVE  Pipe'
  <1>0. Runs(p)
    BY DEF HopAcknowledged, HopFails, Crash, CommitLands, CommitFails, Runs
  <1>1. running[p] \in BatchRecord /\ Batching(p) /\ running[p].left \subseteq Items(p)
    BY BatchFacts DEF Batching, Shapes
  <1>2. \A i : OutcomeOf(p, i) => OutcomeOf(p, i)'
    BY DEF Grows, OutcomeOf
  <1>3. CASE HopAcknowledged(p)
    <2>0. PICK o : o = Least(running[p].left)
      OBVIOUS
    <2>1. /\ running[p].pc \in {"retrying", "deadLettering"} /\ handled' = handled \union {<<p, o>>}
          /\ Proceed(p, running[p].left \ {o}, running[p].ran) /\ CountersOK'
      BY <1>3, <2>0, CountersStay DEF HopAcknowledged, Hop, DeadLetter
    <2>2. OutcomeOf(p, o)' /\ running[p].left \ {o} \subseteq Items(p)
      BY <1>1, <2>1 DEF OutcomeOf
    <2>3. running[p].ran \in BOOLEAN
      BY <1>1 DEF BatchRecord
    <2>4. ASSUME NEW i \in (IF running[p].ran THEN Items(p) ELSE Items(p) \ Decodable(p)) \ (running[p].left \ {o})
          PROVE  OutcomeOf(p, i)'
      <3>1. CASE i = o
        BY <2>2, <3>1
      <3>2. CASE i \notin running[p].left
        BY <1>1, <1>2, <2>1, <3>2 DEF Batching, Progress
      <3> QED
        BY <3>1, <3>2
    <2> QED
      BY <1>0, <2>1, <2>2, <2>3, <2>4, ProceedKeeps
  <1>4. CASE HopFails(p)
    <2> DEFINE b == [running[p] EXCEPT !.pc = "crashing"]
    <2>1. /\ b \in BatchRecord /\ b.pc = "crashing" /\ b.left = running[p].left
          /\ b.items = running[p].items /\ b.revocation = running[p].revocation
      BY <1>1 DEF BatchRecord
    <2>2. CountersOK' /\ Goto(p, b)
      BY <1>4, FaultCounts DEF HopFails
    <2> HIDE DEF b
    <2>3. Awaits(p, b)
      BY <2>1 DEF Awaits
    <2> QED
      BY <1>0, <1>1, <2>1, <2>2, <2>3, GoesTo
  <1>5. CASE Crash(p)
    <2>1. CountersOK' /\ {p} \in SUBSET Partitions
      BY <1>5, CountersStay DEF Crash
    <2> QED
      BY <1>5, <2>1, StopKeeps DEF Crash
  <1>6. CASE CommitLands(p) \/ CommitFails(p)
    <2>1. running[p].pc = "committing" /\ End(p)
      BY <1>6 DEF CommitLands, CommitFails
    <2>2. \A i \in Items(p) : OutcomeOf(p, i)'
      BY <1>1, <1>2, <2>1 DEF Batching, Progress
    <2>3. CountersOK'
      BY <1>6, CountersStay, FaultCounts DEF CommitLands, CommitFails
    <2> QED
      BY <1>0, <2>1, <2>2, <2>3, EndKeeps
  <1> QED
    BY <1>3, <1>4, <1>5, <1>6

-----------------------------------------------------------------------------
(* The steps of the clock, the client, the group and the consumer's life. *)

\* What collects on p runs now: after maxWait, or because p is revoked (then
\* the batch is not of the assignment to come).
LEMMA BeginsKeeps ==
  ASSUME Pipe, LedgerTypeOK, UNCHANGED ledger, CountersOK', NEW p \in Partitions,
         collecting[p] # <<>>, UNCHANGED <<state, gaveUp, position>>,
         collecting' = [collecting EXCEPT ![p] = <<>>],
         running' = [running EXCEPT ![p] = Begun(p, collecting[p])],
         paused' \subseteq Partitions,
         \/ UNCHANGED <<arrival, revocations, assigned, revoking>>
         \/ /\ revocations' = [revocations EXCEPT ![p] = @ + 1]
            /\ assigned' = assigned \ {p} /\ revoking' = revoking \union {p}
            /\ arrival' = IF arrival[p].pc = "parked" THEN [arrival EXCEPT ![p] = Nowhere] ELSE arrival
  PROVE  Pipe'
  <1> DEFINE b == Begun(p, collecting[p])
  <1>0. /\ Batching(p) /\ collecting[p] \in Seq(Nat) /\ revocations[p] \in Nat /\ arrival[p] \in ArrivalRecord
        /\ Len(log[p]) \in Nat /\ log' = log /\ handled' = handled /\ running[p].items = <<>>
        /\ Items(p) = {} /\ state = "running" /\ Len(collecting[p]) \in Nat
    <2>1. Batching(p) /\ collecting[p] \in Seq(Nat) /\ Len(log[p]) \in Nat
      BY BatchFacts
    <2>2. ~Runs(p) /\ running[p].items = <<>> /\ Len(collecting[p]) \in Nat
      BY <2>1, LenProperties DEF Batching, Shapes
    <2> QED
      BY <2>1, <2>2, BatchFacts, RecordsOfNone DEF Batching, Phases, ledger
  <1>1. /\ b \in BatchRecord /\ b.pc = "decoding" /\ b.items = collecting[p]
        /\ b.left = {} /\ b.revocation = revocations[p]
    BY <1>0, BegunFacts
  <1>2. running' = [running EXCEPT ![p] = b] /\ <<>> \in Seq(Nat) /\ RecordsOf(<<>>) = {} /\ Len(<<>>) = 0
    BY RecordsOfNone
  <1> HIDE DEF b
  <1>3. /\ running' \in [Partitions -> BatchRecord] /\ running'[p] = b
        /\ \A q \in Partitions \ {p} : running'[q] = running[q]
        /\ collecting' \in [Partitions -> Seq(Nat)] /\ collecting'[p] = <<>>
        /\ \A q \in Partitions \ {p} : collecting'[q] = collecting[q]
    BY <1>1, <1>2 DEF Pipe, Types
  <1>4. /\ arrival' \in [Partitions -> ArrivalRecord] /\ arrival'[p] \in {arrival[p], Nowhere}
        /\ \A q \in Partitions \ {p} : arrival'[q] = arrival[q]
        /\ revocations' \in [Partitions -> Nat] /\ revocations'[p] \in {revocations[p], revocations[p] + 1}
        /\ \A q \in Partitions \ {p} : revocations'[q] = revocations[q]
        /\ assigned' \subseteq assigned /\ revoking' \subseteq Partitions
        /\ \A q \in Partitions \ {p} : (q \in assigned' <=> q \in assigned) /\ (q \in revoking' <=> q \in revoking)
    <2>1. CASE UNCHANGED <<arrival, revocations, assigned, revoking>>
      BY <2>1 DEF Pipe, Types
    <2>2. CASE /\ revocations' = [revocations EXCEPT ![p] = @ + 1]
               /\ assigned' = assigned \ {p} /\ revoking' = revoking \union {p}
               /\ arrival' = IF arrival[p].pc = "parked" THEN [arrival EXCEPT ![p] = Nowhere] ELSE arrival
      <3>1. revocations' \in [Partitions -> Nat] /\ revocations'[p] = revocations[p] + 1
            /\ \A q \in Partitions \ {p} : revocations'[q] = revocations[q]
        BY <1>0, <2>2 DEF Pipe, Types
      <3>2. arrival' \in [Partitions -> ArrivalRecord] /\ arrival'[p] \in {arrival[p], Nowhere}
            /\ \A q \in Partitions \ {p} : arrival'[q] = arrival[q]
        BY <2>2, EmptyBatch DEF Pipe, Types
      <3> QED
        BY <2>2, <3>1, <3>2 DEF Pipe, Types
    <2> QED
      BY <2>1, <2>2
  <1>5. Types' /\ Only(p) /\ Grows /\ Kept
    BY <1>3, <1>4, LedgerStays DEF Only, Same, Pipe, Types
  <1>6. Items(p)' = RecordsOf(collecting[p]) /\ Runs(p)'
    BY <1>1, <1>3 DEF Items, RecordsOf, Runs
  <1>7. Shapes(p)'
    <2>1. CASE arrival'[p] = arrival[p]
      BY <1>0, <1>1, <1>2, <1>3, <1>4, <1>6, <2>1, BatchAssumption DEF Batching, Shapes, HasArrival, ArrivalRecord
    <2>2. CASE arrival'[p] = Nowhere
      BY <1>0, <1>1, <1>2, <1>3, <1>4, <1>6, <2>2, EmptyBatch, BatchAssumption DEF Batching, Shapes, HasArrival
    <2> QED
      BY <1>4, <2>1, <2>2
  <1>8. Phases(p)'
    <2>1. arrival'[p].pc = "parked" => UNCHANGED <<arrival, revocations>>
      BY <1>4, EmptyBatch DEF Pipe, Types
    <2> QED
      BY <1>0, <1>3, <2>1 DEF Batching, Phases, Serving
  <1>9. Progress(p)' /\ Covers(p, collecting[p])' /\ Covers(p, running[p].items)'
    BY <1>0, <1>1, <1>3 DEF Progress, Covers, OutcomeOf, Batching
  <1>10. CASE UNCHANGED <<arrival, revocations, assigned, revoking>>
    <2>1. OnHand(p)' = OnHand(p) /\ (HasArrival(p)' <=> HasArrival(p))
      BY <1>0, <1>1, <1>2, <1>3, <1>6, <1>10 DEF OnHand, HasArrival
    <2>2. ~ (arrival[p].pc = "queued" /\ HasArrival(p))
      BY <1>0 DEF Batching, Arrives, Serving
    <2>3. Arrives(p)' /\ Reads(p)'
      BY <1>0, <1>3, <1>6, <1>10, <2>1, <2>2 DEF Batching, Arrives, Reads, AccountedUpTo, OutcomeOf, Serving, HasArrival
    <2> QED
      BY <1>5, <1>7, <1>8, <1>9, <2>3, OnlyKeeps DEF Batching
  <1>11. CASE revocations' = [revocations EXCEPT ![p] = @ + 1] /\ assigned' = assigned \ {p}
              /\ revoking' = revoking \union {p}
    <2>1. revocations'[p] = revocations[p] + 1 /\ p \notin assigned' /\ p \in revoking'
      BY <1>0, <1>11 DEF Pipe, Types
    <2>2. ~ (arrival[p].pc = "queued" /\ HasArrival(p)) /\ arrival[p].revocation <= revocations[p]
      BY <1>0 DEF Batching, Arrives, Serving, Shapes
    <2>3. arrival[p].revocation \in Nat /\ Nowhere.pc = "none"
      BY <1>0, EmptyBatch DEF ArrivalRecord
    <2>4. Arrives(p)' /\ Reads(p)'
      BY <1>0, <1>4, <2>1, <2>2, <2>3 DEF Arrives, Reads, HasArrival
    <2> QED
      BY <1>5, <1>7, <1>8, <1>9, <2>4, OnlyKeeps DEF Batching
  <1> QED
    BY <1>10, <1>11

LEMMA MaxWaitKeeps ==
  ASSUME Pipe, LedgerTypeOK, NEW p \in Partitions, MaxWait(p) PROVE Pipe'
  <1>1. /\ collecting[p] # <<>> /\ CountersOK' /\ UNCHANGED ledger
        /\ collecting' = [collecting EXCEPT ![p] = <<>>]
        /\ running' = [running EXCEPT ![p] = Begun(p, collecting[p])]
        /\ UNCHANGED <<state, gaveUp, position>> /\ UNCHANGED <<arrival, revocations, assigned, revoking>>
        /\ paused' \subseteq Partitions
    BY CountersStay DEF MaxWait, client, Pipe, Types
  <1> QED
    BY <1>1, BeginsKeeps

\* A revocation where nothing collects: the queued record stays, what is
\* parked is dropped, and whoever waits finds the partition revoked.
LEMMA RevokeKeeps ==
  ASSUME Pipe, LedgerTypeOK, NEW p \in Partitions, Revoke(p) PROVE Pipe'
  <1>0. /\ UNCHANGED ledger /\ UNCHANGED <<state, gaveUp, position>> /\ p \in assigned
        /\ revocations' = [revocations EXCEPT ![p] = @ + 1]
        /\ assigned' = assigned \ {p} /\ revoking' = revoking \union {p}
        /\ collecting' = [collecting EXCEPT ![p] = <<>>]
        /\ arrival' = IF arrival[p].pc = "parked" THEN [arrival EXCEPT ![p] = Nowhere] ELSE arrival
        /\ paused' \subseteq Partitions /\ CountersOK'
    BY FaultCounts DEF Revoke, Pipe, Types
  <1>1. CASE collecting[p] # <<>>
    <2>1. running' = [running EXCEPT ![p] = Begun(p, collecting[p])]
      BY <1>1 DEF Revoke
    <2> QED
      BY <1>0, <1>1, <2>1, BeginsKeeps
  <1>2. CASE collecting[p] = <<>>
    <2>0. /\ Batching(p) /\ revocations[p] \in Nat /\ arrival[p] \in ArrivalRecord /\ running[p] \in BatchRecord
          /\ Len(log[p]) \in Nat /\ log' = log /\ handled' = handled
      BY <1>0, BatchFacts DEF ledger
    <2>1. running' = running /\ collecting' = collecting
      BY <1>0, <1>2 DEF Revoke, Pipe, Types
    <2>2. /\ arrival' \in [Partitions -> ArrivalRecord]
          /\ arrival'[p] = IF arrival[p].pc = "parked" THEN Nowhere ELSE arrival[p]
          /\ \A q \in Partitions \ {p} : arrival'[q] = arrival[q]
          /\ revocations' \in [Partitions -> Nat] /\ revocations'[p] = revocations[p] + 1
          /\ \A q \in Partitions \ {p} : revocations'[q] = revocations[q]
          /\ assigned' \subseteq assigned /\ revoking' \subseteq Partitions
          /\ p \notin assigned' /\ p \in revoking'
          /\ \A q \in Partitions \ {p} : (q \in assigned' <=> q \in assigned) /\ (q \in revoking' <=> q \in revoking)
      BY <1>0, EmptyBatch DEF Pipe, Types
    <2>3. Types' /\ Only(p) /\ Grows /\ Kept
      BY <1>0, <2>1, <2>2, LedgerStays DEF Only, Same, Pipe, Types
    <2>4. Items(p)' = Items(p) /\ (Runs(p)' <=> Runs(p)) /\ Decodable(p)' = Decodable(p)
      BY <2>0, <2>1 DEF Items, Runs, Decodable
    <2>5. /\ arrival[p].revocation \in Nat /\ arrival[p].revocation <= revocations[p]
          /\ running[p].revocation \in Nat /\ running[p].revocation <= revocations[p]
      BY <2>0 DEF Batching, Shapes, ArrivalRecord, BatchRecord
    <2>6. Shapes(p)'
      BY <2>0, <2>1, <2>2, <2>4, <2>5, EmptyBatch DEF Batching, Shapes, HasArrival
    <2>7. Phases(p)'
      BY <1>0, <2>0, <2>1, <2>2, <2>4, EmptyBatch DEF Batching, Phases, Serving
    <2>8. Progress(p)' /\ Covers(p, collecting[p])' /\ Covers(p, running[p].items)'
      BY <2>0, <2>1, <2>4 DEF Batching, Progress, Covers, OutcomeOf
    <2>9. ASSUME HasArrival(p)', Serving', \/ arrival'[p].pc = "queued"
                                           \/ arrival'[p].revocation = revocations'[p]
          PROVE  /\ AccountedUpTo(p, arrival[p].offset - 1)'
                 /\ arrival'[p].pc = "queued" => collecting'[p] = <<>> /\ ~Runs(p)'
      <3>1. arrival'[p] = arrival[p] /\ arrival[p].pc = "queued" /\ HasArrival(p) /\ Serving
        BY <1>0, <2>0, <2>2, <2>5, <2>9, EmptyBatch DEF HasArrival, Serving
      <3>2. AccountedUpTo(p, arrival[p].offset - 1) /\ collecting[p] = <<>> /\ ~Runs(p)
        BY <2>0, <3>1 DEF Batching, Arrives
      <3>3. OnHand(p) = {}
        BY <2>0, <3>2, BatchFacts, RecordsOfNone DEF OnHand, Batching, Shapes
      <3> QED
        BY <2>0, <2>1, <2>4, <3>1, <3>2, <3>3 DEF AccountedUpTo, OutcomeOf
    <2>10. Arrives(p)' /\ Reads(p)'
      BY <2>2, <2>9 DEF Arrives, Reads
    <2> QED
      BY <1>0, <2>3, <2>6, <2>7, <2>8, <2>10, OnlyKeeps DEF Batching
  <1> QED
    BY <1>1, <1>2

LEMMA ReleaseKeeps ==
  ASSUME Pipe, LedgerTypeOK, NEW p \in Partitions, Release(p) PROVE Pipe'
  <1>1. /\ UNCHANGED <<state, gaveUp, arrival, collecting, running, revocations, assigned, position>>
        /\ UNCHANGED ledger /\ revoking' = revoking \ {p} /\ paused' = paused \ {p}
        /\ ~HasArrival(p) /\ CountersOK'
    BY CountersStay DEF Release, memory, HasArrival
  <1>2. Types' /\ Grows /\ Kept /\ log' = log /\ handled' = handled
    BY <1>1, LedgerStays DEF Pipe, Types, ledger
  <1>3. ASSUME NEW q \in Partitions PROVE Batching(q)'
    <2>1. Batching(q)
      BY DEF Pipe
    <2>2. CASE q = p
      BY <1>1, <1>2, <2>1, <2>2 DEF Batching, Shapes, Phases, Progress, Covers, Arrives, Reads,
            HasArrival, Serving, Runs, Items, Decodable, OnHand, AccountedUpTo, OutcomeOf
    <2>3. CASE q # p
      <3>1. Same(q)
        BY <1>1, <2>3 DEF Same
      <3> QED
        BY <1>1, <1>2, <3>1, SameKeeps
    <2> QED
      BY <2>2, <2>3
  <1> QED
    BY <1>1, <1>2, <1>3 DEF Pipe

\* A new assignment reads from the committed offset, behind which everything
\* has an outcome.
LEMMA AssignKeeps ==
  ASSUME LedgerInv, Pipe, LedgerTypeOK, NEW p \in Partitions, Assign(p) PROVE Pipe'
  <1>1. /\ UNCHANGED <<state, gaveUp, arrival, collecting, running, revocations, revoking, paused>>
        /\ UNCHANGED ledger /\ assigned' = assigned \union {p}
        /\ position' = [position EXCEPT ![p] = committed[p]]
        /\ p \notin assigned \union revoking /\ Serving /\ CountersOK'
    BY CountersStay DEF Assign, memory, Serving
  <1>2. committed[p] \in Nat /\ Batching(p) /\ log' = log /\ handled' = handled
    BY <1>1, BatchFacts DEF ledger
  <1>3. /\ position' \in [Partitions -> Nat] /\ position'[p] = committed[p]
        /\ \A q \in Partitions \ {p} : position'[q] = position[q]
    BY <1>1, <1>2 DEF Pipe, Types
  <1>4. Types' /\ Only(p) /\ Grows /\ Kept
    BY <1>1, <1>3, LedgerStays DEF Only, Same, Pipe, Types
  <1>5. ~HasArrival(p)
    BY <1>1, <1>2 DEF Batching, Reads
  <1>6. \A i \in 1..committed[p] : OutcomeOf(p, i)
    BY DEF LedgerInv, CommittedHandled, PrefixHandled, OutcomeOf
  <1>7. Shapes(p)' /\ Phases(p)' /\ Progress(p)' /\ Covers(p, collecting[p])' /\ Covers(p, running[p].items)'
    BY <1>1, <1>2 DEF Batching, Shapes, Phases, Progress, Covers, HasArrival, Serving, Runs, Items,
          Decodable, OutcomeOf
  <1>8. Arrives(p)' /\ Reads(p)'
    BY <1>1, <1>2, <1>3, <1>5, <1>6 DEF Arrives, Reads, AccountedUpTo, HasArrival, OutcomeOf
  <1> QED
    BY <1>1, <1>4, <1>7, <1>8, OnlyKeeps DEF Batching

LEMMA LifeKeeps ==
  ASSUME Pipe, LedgerTypeOK, Started \/ Stop \/ GiveUp \/ Leave PROVE Pipe'
  <1>0. UNCHANGED ledger /\ Grows /\ Kept
    BY LedgerStays DEF Started, Stop, GiveUp, Leave
  <1>1. CASE Stop
    <2>1. CountersOK' /\ {} \in SUBSET Partitions
      BY <1>1, FaultCounts DEF Stop
    <2> QED
      BY <1>0, <1>1, <2>1, StopKeeps DEF Stop
  <1>2. CASE Started
    <2>1. /\ state = "starting" /\ state' = "running" /\ log' = log /\ handled' = handled
          /\ UNCHANGED <<gaveUp, arrival, collecting, running, revocations, paused, assigned, revoking, position>>
      BY <1>0, <1>2 DEF Started, client, ledger
    <2>2. Types' /\ CountersOK' /\ Serving
      BY <1>2, <2>1, CountersStay DEF Started, Pipe, Types, Serving
    <2>3. ASSUME NEW p \in Partitions PROVE Batching(p)'
      <3>1. Batching(p)
        BY DEF Pipe
      <3> QED
        BY <2>1, <3>1 DEF Batching, Shapes, Phases, Progress, Covers, Arrives, Reads,
              HasArrival, Serving, Runs, Items, Decodable, OnHand, AccountedUpTo, OutcomeOf
    <2> QED
      BY <2>2, <2>3 DEF Pipe
  <1>3. CASE GiveUp
    <2>1. /\ state = "stopping" /\ gaveUp' = TRUE /\ log' = log /\ handled' = handled
          /\ UNCHANGED <<state, arrival, collecting, revocations, paused, assigned, revoking, position>>
          /\ running' = [p \in Partitions |-> [running[p] EXCEPT !.open = FALSE]]
      BY <1>0, <1>3 DEF GiveUp, client, ledger
    <2>2. \A p \in Partitions :
            /\ running'[p] \in BatchRecord /\ running'[p].pc = running[p].pc
            /\ running'[p].items = running[p].items /\ running'[p].left = running[p].left
            /\ running'[p].ran = running[p].ran /\ running'[p].revocation = running[p].revocation
      <3> SUFFICES ASSUME NEW p \in Partitions
                   PROVE /\ running'[p] \in BatchRecord /\ running'[p].pc = running[p].pc
                         /\ running'[p].items = running[p].items /\ running'[p].left = running[p].left
                         /\ running'[p].ran = running[p].ran /\ running'[p].revocation = running[p].revocation
        OBVIOUS
      <3>1. running'[p] = [running[p] EXCEPT !.open = FALSE] /\ running[p] \in BatchRecord
        BY <2>1 DEF Pipe, Types
      <3> QED
        BY <3>1 DEF BatchRecord
    <2>3. Types' /\ CountersOK' /\ ~Serving'
      BY <1>3, <2>1, <2>2, CountersStay DEF GiveUp, Pipe, Types, Serving
    <2>4. ASSUME NEW p \in Partitions PROVE Batching(p)'
      <3>1. Batching(p)
        BY DEF Pipe
      <3>2. Shapes(p)' /\ Phases(p)' /\ Progress(p)'
        BY <2>1, <2>2, <2>3, <3>1 DEF Batching, Shapes, Phases, Progress,
              HasArrival, Serving, Runs, Items, Decodable, OutcomeOf
      <3>3. Covers(p, collecting[p])' /\ Covers(p, running[p].items)'
        BY <2>1, <2>2, <3>1 DEF Batching, Covers, OutcomeOf
      <3>4. Arrives(p)' /\ Reads(p)'
        BY <2>3 DEF Arrives, Reads
      <3> QED
        BY <3>2, <3>3, <3>4 DEF Batching
    <2> QED
      BY <2>3, <2>4 DEF Pipe
  <1>4. CASE Leave
    <2>1. /\ state = "stopping" /\ state' = "stopped" /\ log' = log /\ handled' = handled
          /\ assigned' = {} /\ revoking' = {} /\ paused' = {}
          /\ UNCHANGED <<gaveUp, arrival, collecting, running, revocations, position>>
      BY <1>0, <1>4 DEF Leave, ledger
    <2>2. Types' /\ CountersOK' /\ ~Serving'
      BY <1>4, <2>1, CountersStay DEF Leave, Pipe, Types, Serving
    <2>3. ASSUME NEW p \in Partitions PROVE Batching(p)'
      <3>1. Batching(p)
        BY DEF Pipe
      <3>2. Shapes(p)' /\ Phases(p)' /\ Progress(p)' /\ Covers(p, collecting[p])' /\ Covers(p, running[p].items)'
        BY <2>1, <2>2, <3>1 DEF Batching, Shapes, Phases, Progress, Covers,
              HasArrival, Serving, Runs, Items, Decodable, OutcomeOf
      <3>3. Arrives(p)' /\ Reads(p)'
        BY <2>2 DEF Arrives, Reads
      <3> QED
        BY <3>2, <3>3 DEF Batching
    <2> QED
      BY <2>2, <2>3 DEF Pipe
  <1> QED
    BY <1>1, <1>2, <1>3, <1>4

LEMMA FreshPipe ==
  ASSUME LedgerTypeOK, CountersOK, Fresh PROVE Pipe
  <1>1. <<>> \in Seq(Nat) /\ Len(<<>>) = 0 /\ RecordsOf(<<>>) = {}
    BY RecordsOfNone
  <1>2. Types
    BY <1>1, EmptyBatch DEF Fresh, Types
  <1>3. ASSUME NEW p \in Partitions PROVE Batching(p)
    <2>1. /\ running[p] = NoBatch /\ arrival[p] = Nowhere /\ collecting[p] = <<>>
          /\ state = "starting" /\ ~gaveUp /\ revocations[p] = 0 /\ assigned = {}
      BY DEF Fresh
    <2>2. Items(p) = {} /\ ~Runs(p) /\ ~HasArrival(p) /\ Len(log[p]) \in Nat
      BY <1>1, <2>1, EmptyBatch, LenProperties DEF Items, RecordsOf, Runs, HasArrival, LedgerTypeOK
    <2>3. Shapes(p) /\ Phases(p)
      BY <1>1, <2>1, <2>2, EmptyBatch, BatchAssumption DEF Shapes, Phases, Runs, HasArrival, Serving
    <2>4. Progress(p) /\ Covers(p, collecting[p]) /\ Covers(p, running[p].items)
      BY <2>1, EmptyBatch DEF Progress, Covers
    <2>5. Arrives(p) /\ Reads(p)
      BY <2>1, <2>2 DEF Arrives, Reads
    <2> QED
      BY <2>3, <2>4, <2>5 DEF Batching
  <1> QED
    BY <1>2, <1>3 DEF Pipe

LEMMA NewConsumerKeeps ==
  ASSUME Pipe, LedgerTypeOK', Restart \/ Die PROVE Pipe'
  <1>1. CountersOK'
    BY CountersStay, FaultCounts DEF Restart, Die
  <1>2. Fresh'
    BY DEF Restart, Die, NewConsumer, Fresh
  <1>3. (LedgerTypeOK /\ CountersOK /\ Fresh => Pipe)'
    BY FreshPipe, PTL
  <1> QED
    BY <1>1, <1>2, <1>3

LEMMA LedgerOnlyKeeps ==
  ASSUME Pipe, LedgerTypeOK, Grows, Kept,
         \/ \E p \in Partitions : HandlerTransacts(p) \/ Elapse(p) \/ OtherMember(p)
         \/ UNCHANGED vars
  PROVE  Pipe'
  <1>1. /\ UNCHANGED <<state, gaveUp, arrival, collecting, running, revocations>>
        /\ UNCHANGED <<paused, assigned, revoking, position>>
    BY DEF HandlerTransacts, Elapse, OtherMember, vars, memory, client
  <1>2. CountersOK'
    <2>1. CASE \E p \in Partitions : Elapse(p)
      BY <2>1 DEF Elapse, Pipe, CountersOK
    <2>2. CASE (\E p \in Partitions : HandlerTransacts(p) \/ OtherMember(p)) \/ UNCHANGED vars
      BY <2>2, CountersStay DEF HandlerTransacts, OtherMember, vars
    <2> QED
      BY <2>1, <2>2
  <1> QED
    BY <1>1, <1>2, NoneKeeps DEF Pipe, Types

-----------------------------------------------------------------------------
(* Every step is one the promise allows. *)

\* A batch only holds records there are, and the end of it is one of them.
LEMMA BatchExists ==
  ASSUME Pipe, LedgerTypeOK, NEW p \in Partitions, Runs(p)
  PROVE  /\ Items(p) \subseteq 1..Len(log[p]) /\ Decodable(p) \subseteq 1..Len(log[p])
         /\ Last(p) \in 1..Len(log[p])
         /\ \A i \in 1..Last(p) : OutcomeOf(p, i) \/ i \in Items(p)
  BY BatchFacts DEF Batching, Shapes, Covers

LEMMA RunPromise ==
  ASSUME Pipe, LedgerTypeOK, NEW p \in Partitions,
         HandlerEnds(p) \/ HandlerTransacts(p) \/ HopAcknowledged(p) \/ HopFails(p) \/ CommitLands(p)
  PROVE  [PromiseNext]_ledger
  <1>0. Runs(p)
    BY DEF HandlerEnds, HandlerReturns, HandlerFails, HandlerTransacts, HopAcknowledged, HopFails,
           CommitLands, Runs
  <1>1. Batching(p) /\ Items(p) \subseteq Nat
    BY BatchFacts
  <1>2. CASE HandlerEnds(p)
    <2>1. PICK S \in SUBSET Decodable(p) : ResolveAll(p, S)
      <3>1. CASE HandlerReturns(p)
        BY <3>1 DEF HandlerReturns
      <3>2. CASE HandlerFails(p)
        <4>1. PICK failed : ResolveAll(p, Decodable(p) \ failed)
          BY <3>2 DEF HandlerFails
        <4> QED
          BY <4>1
      <3> QED
        BY <1>2, <3>1, <3>2 DEF HandlerEnds
    <2>2. S \in SUBSET (1..Len(log[p])) /\ BatchEffect(p, S)
      BY <1>0, <2>1, BatchExists DEF BatchEffect
    <2> QED
      BY <2>2 DEF PromiseNext
  <1>3. CASE HandlerTransacts(p)
    <2>1. \A i \in Items(p) \ Decodable(p) : OutcomeOf(p, i)
      BY <1>1, <1>3 DEF HandlerTransacts, Batching, Progress
    <2>2. \A i \in (1..Last(p)) \ Decodable(p) : <<p, i>> \in handled
      BY <1>0, <2>1, BatchExists DEF OutcomeOf
    <2>3. BatchEffect(p, Decodable(p))
      BY <1>0, <1>3, <2>2, BatchExists DEF HandlerTransacts, BatchEffect
    <2> QED
      BY <1>0, <2>3, BatchExists DEF PromiseNext
  <1>4. CASE HopAcknowledged(p) \/ HopFails(p)
    <2>1. running[p].pc \in {"retrying", "deadLettering"}
      BY <1>4 DEF HopAcknowledged, HopFails
    <2>2. running[p].left # {} /\ running[p].left \subseteq Items(p)
      BY <1>1, <2>1 DEF Batching, Progress, Shapes
    <2>3. PICK o : o = Least(running[p].left)
      OBVIOUS
    <2>4. o \in 1..Len(log[p])
      BY <1>0, <1>1, <2>2, <2>3, LeastIsMember, BatchExists
    <2>5. CASE UNCHANGED ledger
      BY <2>5
    <2>6. CASE \/ \E t \in NextLevel(p) : Hop(p, o, t) \/ Copy(p, o, t)
               \/ DeadLetter(p, o) \/ CopyToDlq(p, o)
      <3>1. RecordEffect(p, o)
        BY <2>6 DEF RecordEffect
      <3> QED
        BY <2>4, <3>1 DEF PromiseNext
    <2> QED
      BY <1>4, <2>3, <2>5, <2>6 DEF HopAcknowledged, HopFails
  <1>5. CASE CommitLands(p)
    <2>1. \A i \in Items(p) : OutcomeOf(p, i)
      BY <1>1, <1>5 DEF CommitLands, Batching, Progress
    <2>2. PrefixHandled(p, Last(p)) /\ Last(p) \in 1..Len(log[p])
      BY <1>0, <2>1, BatchExists DEF PrefixHandled, OutcomeOf
    <2>3. RecordEffect(p, Last(p))
      BY <1>5, <2>2 DEF CommitLands, RecordEffect
    <2> QED
      BY <2>2, <2>3 DEF PromiseNext
  <1> QED
    BY <1>2, <1>3, <1>4, <1>5

LEMMA OtherMemberPromise ==
  ASSUME LedgerInv, NEW p \in Partitions, OtherMember(p)
  PROVE  [PromiseNext]_ledger
  <1> DEFINE o == committed[p] + 1
  <1>1. /\ committed[p] \in Nat /\ Len(log[p]) \in Nat /\ o <= Len(log[p])
        /\ PrefixHandled(p, committed[p])
    BY LenProperties DEF LedgerInv, LedgerTypeOK, CommittedHandled, OtherMember
  <1>2. o \in 1..Len(log[p])
    BY <1>1
  <1>3. <<p, o>> \in handled => PrefixHandled(p, o)
    BY <1>1 DEF PrefixHandled
  <1>4. RecordEffect(p, o)
    BY <1>3 DEF OtherMember, RecordEffect
  <1> QED
    BY <1>2, <1>4 DEF PromiseNext

LEMMA StepPromise ==
  ASSUME IInv, [Next]_vars PROVE [PromiseNext]_ledger
  <1>0. Pipe /\ LedgerInv /\ LedgerTypeOK
    BY DEF IInv, LedgerInv
  <1>1. ASSUME NEW p \in Partitions,
               HandlerEnds(p) \/ HandlerTransacts(p) \/ HopAcknowledged(p) \/ HopFails(p) \/ CommitLands(p)
        PROVE  [PromiseNext]_ledger
    BY <1>0, <1>1, RunPromise
  <1>2. ASSUME NEW p \in Partitions, OtherMember(p) PROVE [PromiseNext]_ledger
    BY <1>0, <1>2, OtherMemberPromise
  <1>3. CASE \/ \E p \in Partitions : \/ Ready(p) \/ Reenter(p) \/ SleepEnds(p) \/ Wake(p) \/ MaxWait(p)
                                      \/ Decoded(p) \/ HoldWakes(p) \/ Crash(p)
                                      \/ HandlerAborts(p) \/ HandlerNamesStranger(p) \/ CommitFails(p)
             \/ Started \/ Stop \/ GiveUp \/ Leave \/ Restart \/ Die
             \/ \E p \in Partitions : Deliver(p) \/ Revoke(p) \/ Release(p) \/ Assign(p) \/ Elapse(p)
             \/ UNCHANGED vars
    BY <1>3 DEF Ready, Reenter, SleepEnds, Wake, MaxWait, Decoded, HoldWakes, Crash, HandlerAborts,
          HandlerNamesStranger, CommitFails, Started, Stop, GiveUp, Leave, Restart, Die, Deliver,
          Revoke, Release, Assign, Elapse, vars
  <1> QED
    BY <1>1, <1>2, <1>3 DEF Next, PipelineStep, RunFails

-----------------------------------------------------------------------------
(* The theorems about any client. *)

LEMMA InitInv == Init => IInv
  <1> SUFFICES ASSUME Init PROVE IInv
    OBVIOUS
  <1>1. LedgerInv /\ LedgerTypeOK
    BY LedgerInitInv DEF Init, LedgerInv
  <1>2. CountersOK
    BY BatchAssumption DEF Init, CountersOK
  <1> QED
    BY <1>1, <1>2, FreshPipe DEF Init, IInv

LEMMA NextInv ==
  ASSUME IInv, [Next]_vars PROVE IInv'
  <1>1. [PromiseNext]_ledger
    BY StepPromise
  <1>2. LedgerInv /\ Pipe /\ LedgerTypeOK /\ LedgerInv' /\ LedgerTypeOK' /\ Grows /\ Kept
    BY <1>1, LedgerGrows DEF IInv, LedgerInv
  <1> SUFFICES Pipe'
    BY <1>2 DEF IInv
  <1>3. ASSUME NEW p \in Partitions, PipelineStep(p) PROVE Pipe'
    <2>1. CASE Ready(p) \/ Reenter(p) \/ SleepEnds(p) \/ Wake(p) \/ MaxWait(p)
      BY <1>2, <2>1, ReadyKeeps, ReenterKeeps, SleepEndsKeeps, WakeKeeps, MaxWaitKeeps
    <2>2. CASE Decoded(p) \/ HoldWakes(p)
      BY <1>2, <2>2, DecodedKeeps, HoldWakesKeeps
    <2>3. CASE HopAcknowledged(p) \/ Crash(p) \/ CommitLands(p)
      BY <1>2, <2>3, ForwardingKeeps
    <2> QED
      BY <1>3, <2>1, <2>2, <2>3 DEF PipelineStep
  <1>4. ASSUME NEW p \in Partitions, HandlerEnds(p) \/ RunFails(p) PROVE Pipe'
    BY <1>2, <1>4, HandlerKeeps, ForwardingKeeps DEF HandlerEnds, RunFails
  <1>5. CASE Started \/ Stop \/ GiveUp \/ Leave
    BY <1>2, <1>5, LifeKeeps
  <1>6. CASE Restart \/ Die
    BY <1>2, <1>6, NewConsumerKeeps
  <1>7. ASSUME NEW p \in Partitions, Deliver(p) \/ Revoke(p) \/ Release(p) \/ Assign(p) PROVE Pipe'
    BY <1>2, <1>7, DeliverKeeps, RevokeKeeps, ReleaseKeeps, AssignKeeps
  <1>8. CASE \/ \E p \in Partitions : HandlerTransacts(p) \/ Elapse(p) \/ OtherMember(p)
             \/ UNCHANGED vars
    BY <1>2, <1>8, LedgerOnlyKeeps
  <1> QED
    BY <1>3, <1>4, <1>5, <1>6, <1>7, <1>8 DEF Next

LEMMA Invariance == Spec => []IInv
  <1>1. IInv /\ [Next]_vars => IInv'
    BY NextInv
  <1> QED
    BY <1>1, InitInv, PTL DEF Spec

\* Only a revocation adds to what is stale, and only its own partition.
StaleGrows == stale' \in {stale, {}} \union {stale \union {p} : p \in Partitions}

LEMMA StaleSteps ==
  ASSUME [Next]_vars
  PROVE  StaleGrows /\ (~(Restart \/ Die) => stale \subseteq stale')
  <1>1. ASSUME NEW p \in Partitions, PipelineStep(p) \/ HandlerEnds(p) \/ RunFails(p) \/ HandlerTransacts(p)
        PROVE  UNCHANGED stale
    <2>1. CASE Ready(p) \/ Reenter(p) \/ SleepEnds(p) \/ Wake(p) \/ MaxWait(p) \/ HandlerTransacts(p)
      BY <2>1 DEF Ready, Reenter, SleepEnds, Wake, MaxWait, HandlerTransacts, memory
    <2>2. ASSUME NEW left, NEW ran, Forward(p, left, ran) \/ Proceed(p, left, ran) PROVE UNCHANGED stale
      BY <2>2 DEF Forward, Proceed, Goto, End
    <2>3. CASE Decoded(p) \/ HoldWakes(p) \/ HopAcknowledged(p) \/ HandlerEnds(p)
      BY <2>2, <2>3 DEF Decoded, HoldWakes, HopAcknowledged, HandlerEnds, HandlerReturns, HandlerFails, Goto, End
    <2>4. CASE Crash(p) \/ CommitLands(p) \/ RunFails(p)
      BY <2>4 DEF Crash, CommitLands, RunFails, HandlerAborts, HandlerNamesStranger, HopFails, CommitFails,
            StopWith, Goto, End
    <2> QED
      BY <1>1, <2>1, <2>3, <2>4 DEF PipelineStep
  <1>2. ASSUME NEW p \in Partitions,
               Deliver(p) \/ Release(p) \/ Assign(p) \/ Elapse(p) \/ OtherMember(p)
        PROVE  UNCHANGED stale
    BY <1>2 DEF Deliver, Release, Assign, Elapse, OtherMember, memory
  <1>3. ASSUME NEW p \in Partitions, Revoke(p) PROVE StaleGrows /\ stale \subseteq stale'
    BY <1>3 DEF Revoke, StaleGrows
  <1>4. CASE Started \/ Stop \/ GiveUp \/ Leave \/ UNCHANGED vars
    BY <1>4 DEF Started, Stop, StopWith, GiveUp, Leave, vars, memory, StaleGrows
  <1>5. CASE Restart \/ Die
    BY <1>5 DEF Restart, Die, NewConsumer, StaleGrows
  <1> QED
    BY <1>1, <1>2, <1>3, <1>4, <1>5 DEF Next, StaleGrows

LEMMA StaleTyped == Spec => [](stale \subseteq Partitions)
  <1>1. Init => stale \subseteq Partitions
    BY DEF Init, Fresh
  <1>2. stale \subseteq Partitions /\ [Next]_vars => (stale \subseteq Partitions)'
    BY StaleSteps DEF StaleGrows
  <1> QED
    BY <1>1, <1>2, PTL DEF Spec

LEMMA TypesImply == IInv /\ stale \subseteq Partitions => TypeOK
  <1> SUFFICES ASSUME IInv, stale \subseteq Partitions PROVE TypeOK
    OBVIOUS
  <1>1. LedgerTypeOK /\ Pipe /\ Types /\ CountersOK
    BY DEF IInv, LedgerInv, Pipe
  <1>2. ASSUME NEW p \in Partitions
        PROVE  /\ running[p].left \subseteq Items(p) /\ Len(running[p].items) <= Size
               /\ Runs(p) <=> running[p].items # <<>>
               /\ running[p] \in BatchRecord /\ arrival[p] \in ArrivalRecord
    BY <1>1, BatchFacts DEF Batching, Shapes
  <1>3. ASSUME NEW p \in Partitions
        PROVE  /\ arrival[p].pc \in {"none", "queued", "parked", "sleeping", "waiting"}
               /\ running[p].pc \in {"none", "decoding", "held", "handling", "retrying",
                                     "deadLettering", "committing", "crashing"}
               /\ arrival[p].offset \in Nat /\ arrival[p].revocation \in Nat /\ arrival[p].reentry \in BOOLEAN
               /\ {running[p].open, running[p].reentry, running[p].ran} \subseteq BOOLEAN
    BY <1>2 DEF BatchRecord, ArrivalRecord
  <1> QED
    BY <1>1, <1>2, <1>3 DEF TypeOK, Types, CountersOK

\* While the batch of a partition runs, and while a record waits for it to
\* end, no other batch of the partition collects; a full one does not wait.
THEOREM OneBatch == Spec => []OneBatchAtATime
  <1>1. IInv /\ stale \subseteq Partitions => OneBatchAtATime
    <2> SUFFICES ASSUME IInv, stale \subseteq Partitions PROVE OneBatchAtATime
      OBVIOUS
    <2>1. TypeOK /\ \A p \in Partitions : Shapes(p)
      BY TypesImply DEF IInv, Pipe, Batching
    <2> QED
      BY <2>1 DEF Shapes, OneBatchAtATime
  <1> QED
    BY <1>1, Invariance, StaleTyped, PTL

\* The batch pipeline keeps the promise, whatever the client does: every step
\* is a step of the abstract specification, or one that leaves the ledger alone.
THEOREM BatchesKeepThePromise == Spec => PromiseSpec
  <1>1. Init => LedgerInit
    BY DEF Init
  <1>2. IInv /\ [Next]_vars => [PromiseNext]_ledger
    BY StepPromise
  <1> QED
    BY <1>1, <1>2, Invariance, PTL DEF Spec, PromiseSpec

\* At-least-once: no batch that is abandoned, released under its run, forwarded
\* in part or committed late loses a message.
THEOREM BatchesLoseNothing == Spec => []NothingLost
  BY BatchesKeepThePromise, PromiseKeepsMessages, PTL

-----------------------------------------------------------------------------
(* Order, on the partitions no queued delivery of which outlived a revocation. *)

LEMMA InOrderStays ==
  ASSUME Grows, NEW p \in Partitions, NEW items, InOrder(p, items) PROVE InOrder(p, items)'
  BY DEF InOrder, PrefixHandled, Grows

LEMMA InOrderNone == ASSUME NEW p \in Partitions PROVE InOrder(p, <<>>)' /\ InOrder(p, <<>>)
  BY DEF InOrder

\* The batches of p stay what they are, or one of them becomes the other, or
\* is gone.
LEMMA BatchesStayInOrder ==
  ASSUME Grows, NEW p \in Partitions, Ordered(p),
         collecting'[p] \in {collecting[p], <<>>},
         running'[p].items \in {running[p].items, collecting[p], <<>>}
  PROVE  InOrder(p, collecting[p])' /\ InOrder(p, running[p].items)'
  <1>1. InOrder(p, collecting[p]) /\ InOrder(p, running[p].items)
    BY DEF Ordered
  <1>2. \A items \in {collecting[p], running[p].items, <<>>} :
            items # <<>> => InARow(items) /\ \A i \in 1..(items[1] - 1) : <<p, i>> \in handled'
    BY <1>1 DEF InOrder, PrefixHandled, Grows
  <1> QED
    BY <1>2 DEF InOrder, PrefixHandled

LEMMA SameOrders ==
  ASSUME Grows, NEW p \in Partitions, Ordered(p), Same(p), UNCHANGED state PROVE Ordered(p)'
  <1>1. InOrder(p, collecting[p])' /\ InOrder(p, running[p].items)'
    BY BatchesStayInOrder DEF Same
  <1> QED
    BY <1>1 DEF Same, Ordered, HasArrival, Serving

\* The record at o is the next one after what collects, of a partition this
\* member owns.
NextUp(p, o) ==
    /\ p \in assigned
    /\ collecting[p] # <<>> => EndOf(collecting[p]) = o - 1

LEMMA AtOrders ==
  ASSUME Pipe, Grows, NEW p \in Partitions, NEW o \in Nat, NEW pc, NEW reentry, pc # "none", Ordered(p),
         At(p, pc, o, reentry), UNCHANGED <<collecting, running>>, Delivered(p, o), NextUp(p, o)
  PROVE  Ordered(p)'
  <1>1. InOrder(p, collecting[p])' /\ InOrder(p, running[p].items)'
    BY BatchesStayInOrder
  <1>2. HasArrival(p)'
    BY DEF At, HasArrival, Pipe, Types
  <1> QED
    BY <1>1, <1>2 DEF Ordered, NextUp, Delivered

LEMMA InARowAppend ==
  ASSUME NEW s \in Seq(Nat), NEW o \in Nat \ {0}, s # <<>> => InARow(s) /\ EndOf(s) = o - 1
  PROVE  InARow(Append(s, o)) /\ Append(s, o)[1] = IF s = <<>> THEN o ELSE s[1]
  <1>1. /\ Len(s) \in Nat /\ DOMAIN s = 1..Len(s) /\ DOMAIN Append(s, o) = 1..(Len(s) + 1)
        /\ \A i \in 1..Len(s) : Append(s, o)[i] = s[i] /\ s[i] \in Nat
        /\ Append(s, o)[Len(s) + 1] = o
    BY AppendProperties, LenProperties, ElementOfSeq
  <1>2. CASE s = <<>>
    BY <1>1, <1>2 DEF InARow
  <1>3. CASE s # <<>>
    <2>1. Len(s) > 0
      BY <1>1, <1>3, EmptySeq
    <2>2. Append(s, o)[1] = s[1] /\ s[1] \in Nat
      BY <1>1, <2>1
    <2>3. s[Len(s)] = s[1] + Len(s) - 1 /\ s[Len(s)] = o - 1
      BY <1>1, <1>3, <2>1 DEF InARow, EndOf
    <2>4. \A i \in 1..Len(s) : Append(s, o)[i] = s[1] + i - 1
      BY <1>1, <1>3 DEF InARow
    <2>5. Append(s, o)[Len(s) + 1] = s[1] + (Len(s) + 1) - 1
      <3>1. PICK n \in Nat : n = Len(s)
        BY LenProperties
      <3>2. PICK a \in Nat : a = s[1]
        BY <2>2
      <3>3. a + n - 1 = o - 1
        BY <2>3, <3>1, <3>2
      <3>4. o = a + (n + 1) - 1
        BY <3>3
      <3> QED
        BY <1>1, <3>1, <3>2, <3>4
    <2>6. \A i \in 1..(Len(s) + 1) : Append(s, o)[i] = s[1] + i - 1
      BY <1>1, <2>4, <2>5
    <2> QED
      BY <1>1, <1>3, <2>2, <2>6 DEF InARow
  <1> QED
    BY <1>2, <1>3

LEMMA JoinOrders ==
  ASSUME Pipe, LedgerTypeOK, UNCHANGED ledger, NEW p \in Partitions, NEW o \in Nat, NEW reentry \in BOOLEAN,
         Ordered(p), Join(p, o, reentry), Delivered(p, o), Arriving(p, o), NextUp(p, o),
         state = "running", ~Runs(p)
  PROVE  Ordered(p)'
  <1> DEFINE items == Append(collecting[p], o)
             full == Len(items) >= Size
  <1>0. /\ Batching(p) /\ collecting[p] \in Seq(Nat) /\ revocations[p] \in Nat /\ o \in Nat \ {0}
        /\ Items(p) = {} /\ running[p].items = <<>> /\ Len(log[p]) \in Nat
    <2>1. Batching(p) /\ running[p].items = <<>>
      BY BatchFacts DEF Batching, Shapes
    <2> QED
      BY <2>1, BatchFacts, RecordsOfNone DEF Arriving
  <1>1. items # <<>> /\ EndOf(items) = o /\ items \in Seq(Nat)
    BY <1>0, RecordsOfAppend
  <1>2. InARow(items) /\ items[1] = IF collecting[p] = <<>> THEN o ELSE collecting[p][1]
    BY <1>0, InARowAppend DEF Ordered, InOrder, NextUp
  <1>3. PrefixHandled(p, items[1] - 1)
    <2>1. CASE collecting[p] = <<>>
      <3>1. OnHand(p) = {}
        BY <1>0, <2>1, RecordsOfNone DEF OnHand
      <3> QED
        BY <1>2, <2>1, <3>1 DEF Arriving, Serving, AccountedUpTo, OutcomeOf, PrefixHandled
    <2>2. CASE collecting[p] # <<>>
      BY <1>2, <2>2 DEF Ordered, InOrder
    <2> QED
      BY <2>1, <2>2
  <1>4. /\ collecting'[p] = IF full THEN <<>> ELSE items
        /\ running'[p].items = IF full THEN items ELSE <<>>
    <2>1. Begun(p, items).items = items /\ Begun(p, items) \in BatchRecord
      BY <1>0, <1>1, BegunFacts
    <2>2. [Begun(p, items) EXCEPT !.open = ~reentry, !.reentry = reentry].items = items
      BY <2>1 DEF BatchRecord
    <2> QED
      BY <1>0, <2>2 DEF Join, Pipe, Types
  <1> HIDE DEF items, full
  <1>5. handled' = handled
    BY DEF ledger
  <1>6. InOrder(p, collecting[p])' /\ InOrder(p, running[p].items)'
    BY <1>2, <1>3, <1>4, <1>5 DEF InOrder, PrefixHandled
  <1>7. ~HasArrival(p)'
    BY EmptyBatch DEF Join, HasArrival, Pipe, Types
  <1> QED
    BY <1>1, <1>4, <1>6, <1>7 DEF Ordered, NextUp, Delivered

LEMMA CollectOrders ==
  ASSUME Pipe, LedgerTypeOK, UNCHANGED ledger, NEW p \in Partitions, NEW o \in Nat, NEW reentry \in BOOLEAN,
         Ordered(p), Collect(p, o, reentry), Delivered(p, o), Arriving(p, o), NextUp(p, o), state = "running"
  PROVE  Ordered(p)'
  <1>1. CASE Runs(p)
    BY <1>1, LedgerStays, AtOrders DEF Collect
  <1>2. CASE ~Runs(p)
    BY <1>2, JoinOrders DEF Collect
  <1> QED
    BY <1>1, <1>2

LEMMA ProcessOrders ==
  ASSUME Pipe, LedgerTypeOK, UNCHANGED ledger, NEW p \in Partitions, NEW o \in Nat,
         Ordered(p), Process(p, o), Delivered(p, o), Arriving(p, o), NextUp(p, o), state = "running"
  PROVE  Ordered(p)'
  <1>1. CASE Collect(p, o, FALSE)
    BY <1>1, CollectOrders
  <1>2. ASSUME NEW pc \in {"parked", "sleeping"}, At(p, pc, o, FALSE), UNCHANGED <<collecting, running>>
        PROVE  Ordered(p)'
    BY <1>2, LedgerStays, AtOrders
  <1> QED
    BY <1>1, <1>2 DEF Process

\* The record was not the next of a batch that collects.
LEMMA DroppedOrders ==
  ASSUME Pipe, Grows, NEW p \in Partitions, Ordered(p), Dropped(p), collecting[p] = <<>>,
         UNCHANGED <<state, assigned, revocations, position>>
  PROVE  Ordered(p)'
  <1>1. InOrder(p, collecting[p])' /\ InOrder(p, running[p].items)'
    BY BatchesStayInOrder DEF Dropped
  <1>2. ~HasArrival(p)' /\ collecting'[p] = <<>>
    BY EmptyBatch DEF Dropped, HasArrival, Pipe, Types
  <1> QED
    BY <1>1, <1>2 DEF Ordered

LEMMA DeliverOrders ==
  ASSUME Pipe, LedgerTypeOK, NEW p \in Partitions, Ordered(p), Deliver(p) PROVE Ordered(p)'
  <1>1. PICK o \in Nat : /\ o = position[p] + 1 /\ p \in assigned /\ ~HasArrival(p)
                         /\ Delivered(p, o) /\ Arriving(p, o) /\ CountersOK' /\ UNCHANGED ledger
                         /\ IF state = "running" THEN Process(p, o)
                            ELSE At(p, "queued", o, FALSE) /\ UNCHANGED <<collecting, running, paused>>
    BY DeliverBegins
  <1>2. NextUp(p, o)
    <2>1. position[p] \in Nat
      BY BatchFacts
    <2> QED
      BY <1>1, <2>1 DEF NextUp, Ordered
  <1>3. CASE state = "running"
    BY <1>1, <1>2, <1>3, ProcessOrders
  <1>4. CASE state # "running"
    BY <1>1, <1>2, <1>4, LedgerStays, AtOrders
  <1> QED
    BY <1>3, <1>4

\* A record that goes on its way is the next of its partition's batch.
LEMMA ArrivalIsNext ==
  ASSUME Pipe, LedgerTypeOK, NEW p \in Partitions, HasArrival(p), state = "running", Ordered(p),
         arrival[p].pc = "queued" \/ arrival[p].revocation = revocations[p]
  PROVE  NextUp(p, arrival[p].offset)
  <1>1. p \in assigned
    BY DEF Ordered, Serving
  <1>2. arrival[p].offset = position[p]
    BY <1>1, BatchFacts DEF Batching, Reads, Serving
  <1> QED
    BY <1>1, <1>2 DEF NextUp, Ordered

LEMMA WokenOrders ==
  ASSUME Pipe, LedgerTypeOK, NEW p \in Partitions, Ordered(p),
         Ready(p) \/ Reenter(p) \/ SleepEnds(p) \/ Wake(p)
  PROVE  Ordered(p)'
  <1>0. /\ HasArrival(p) /\ UNCHANGED ledger /\ Batching(p) /\ Grows
        /\ UNCHANGED <<state, gaveUp, revocations, assigned, revoking, position>>
        /\ arrival[p].reentry \in BOOLEAN
    BY BatchFacts, LedgerStays DEF Ready, Reenter, SleepEnds, Wake, HasArrival, ArrivalRecord
  <1>1. ASSUME state = "running", arrival[p].pc = "queued" \/ arrival[p].revocation = revocations[p]
        PROVE  /\ arrival[p].offset \in Nat /\ Delivered(p, arrival[p].offset)
               /\ Arriving(p, arrival[p].offset) /\ NextUp(p, arrival[p].offset)
    BY <1>0, <1>1, ArrivalGoesOn, ArrivalIsNext
  <1>2. ASSUME Dropped(p), state # "running" \/ (arrival[p].pc # "queued" /\ revocations[p] # arrival[p].revocation)
        PROVE  Ordered(p)'
    <2>1. collecting[p] = <<>>
      BY <1>0, <1>2 DEF Ordered, Batching, Phases, Reads, Serving
    <2> QED
      BY <1>0, <1>2, <2>1, DroppedOrders
  <1>3. CASE Ready(p)
    <2>1. CASE state = "running"
      <3>1. Process(p, arrival[p].offset) /\ arrival[p].pc = "queued"
        BY <1>3, <2>1 DEF Ready
      <3> QED
        BY <1>0, <1>1, <2>1, <3>1, ProcessOrders
    <2>2. CASE state # "running"
      BY <1>2, <1>3, <2>2 DEF Ready
    <2> QED
      BY <2>1, <2>2
  <1>4. CASE Reenter(p)
    <2>1. /\ state = "running" /\ arrival[p].revocation = revocations[p]
          /\ Collect(p, arrival[p].offset, TRUE)
      BY <1>0, <1>4 DEF Reenter, Batching, Phases
    <2> QED
      BY <1>0, <1>1, <2>1, CollectOrders
  <1>5. CASE SleepEnds(p)
    <2>1. CASE Lost(p)
      <3>1. Dropped(p) /\ arrival[p].pc # "queued"
        BY <1>5, <2>1 DEF SleepEnds
      <3> QED
        BY <1>2, <2>1, <3>1 DEF Lost
    <2>2. CASE ~Lost(p)
      <3>1. /\ state = "running" /\ arrival[p].revocation = revocations[p]
            /\ Collect(p, arrival[p].offset, FALSE)
        BY <1>5, <2>2 DEF SleepEnds, Lost
      <3> QED
        BY <1>0, <1>1, <3>1, CollectOrders
    <2> QED
      BY <2>1, <2>2
  <1>6. CASE Wake(p)
    <2>1. CASE Lost(p)
      <3>1. Dropped(p) /\ arrival[p].pc # "queued"
        BY <1>6, <2>1 DEF Wake
      <3> QED
        BY <1>2, <2>1, <3>1 DEF Lost
    <2>2. CASE ~Lost(p)
      <3>1. /\ state = "running" /\ arrival[p].revocation = revocations[p] /\ ~Runs(p)
            /\ Join(p, arrival[p].offset, arrival[p].reentry)
        BY <1>6, <2>2 DEF Wake, Lost
      <3> QED
        BY <1>0, <1>1, <3>1, JoinOrders
    <2> QED
      BY <2>1, <2>2
  <1> QED
    BY <1>3, <1>4, <1>5, <1>6

\* A step of the run leaves the batch what it is, or ends it.
LEMMA RunOrders ==
  ASSUME Pipe, Grows, NEW p \in Partitions, Ordered(p),
         running'[p].items \in {running[p].items, <<>>},
         UNCHANGED <<state, arrival, collecting, revocations, assigned, position>>
  PROVE  Ordered(p)'
  <1>1. InOrder(p, collecting[p])' /\ InOrder(p, running[p].items)'
    BY BatchesStayInOrder
  <1> QED
    BY <1>1 DEF Ordered, HasArrival, Serving

\* What collected on p runs, and is not collected any more.
LEMMA BeginsOrders ==
  ASSUME Pipe, Grows, NEW p \in Partitions, Ordered(p), MaxWait(p) \/ Revoke(p), p \notin stale'
  PROVE  Ordered(p)'
  <1>0. Batching(p) /\ collecting[p] \in Seq(Nat) /\ revocations[p] \in Nat /\ arrival[p] \in ArrivalRecord
    BY DEF Pipe, Types
  <1>1. Begun(p, collecting[p]).items = collecting[p]
    BY <1>0, BegunFacts
  <1>2. collecting'[p] = <<>> /\ running'[p].items \in {running[p].items, collecting[p]}
    BY <1>1 DEF MaxWait, Revoke, Pipe, Types
  <1>3. InOrder(p, collecting[p])' /\ InOrder(p, running[p].items)'
    BY <1>2, BatchesStayInOrder
  <1>4. HasArrival(p)' /\ Serving' /\ (arrival'[p].pc = "queued" \/ arrival'[p].revocation = revocations'[p])
          => p \in assigned'
    <2>1. CASE MaxWait(p)
      BY <2>1 DEF MaxWait, client, Ordered, HasArrival, Serving
    <2>2. CASE Revoke(p)
      <3>1. arrival[p].pc # "queued" /\ revocations'[p] = revocations[p] + 1
        BY <1>0, <2>2 DEF Revoke, Pipe, Types
      <3>2. arrival[p].revocation \in Nat /\ arrival[p].revocation <= revocations[p]
        BY <1>0 DEF Batching, Shapes, ArrivalRecord
      <3>3. arrival'[p] \in {arrival[p], Nowhere}
        BY <2>2 DEF Revoke, Pipe, Types
      <3> QED
        BY <1>0, <3>1, <3>2, <3>3, EmptyBatch DEF HasArrival
    <2> QED
      BY <2>1, <2>2
  <1> QED
    BY <1>2, <1>3, <1>4 DEF Ordered

\* The steps about one partition leave the others as they are.
LEMMA StepsOfOne ==
  ASSUME Pipe, LedgerTypeOK, NEW p \in Partitions,
         \/ Ready(p) \/ Reenter(p) \/ SleepEnds(p) \/ Wake(p) \/ MaxWait(p) \/ Deliver(p) \/ Revoke(p)
         \/ Release(p) \/ Assign(p) \/ HandlerTransacts(p) \/ Elapse(p) \/ OtherMember(p)
  PROVE  \A q \in Partitions \ {p} : Same(q)
  <1> SUFFICES ASSUME NEW q \in Partitions \ {p} PROVE Same(q)
    OBVIOUS
  <1> USE DEF Pipe, Types, Same
  <1>1. ASSUME NEW o \in Nat, NEW reentry \in BOOLEAN, Collect(p, o, reentry)
        PROVE  arrival'[q] = arrival[q] /\ collecting'[q] = collecting[q] /\ running'[q] = running[q]
    BY <1>1 DEF Collect, Join, At
  <1>2. ASSUME NEW o \in Nat, Process(p, o)
        PROVE  arrival'[q] = arrival[q] /\ collecting'[q] = collecting[q] /\ running'[q] = running[q]
    BY <1>1, <1>2 DEF Process, At
  <1>3. arrival[p].offset \in Nat /\ arrival[p].reentry \in BOOLEAN /\ position[p] + 1 \in Nat
    BY BatchFacts DEF ArrivalRecord
  <1>4. CASE Ready(p)
    BY <1>2, <1>3, <1>4 DEF Ready, Dropped
  <1>5. CASE Reenter(p) \/ SleepEnds(p)
    BY <1>1, <1>3, <1>5 DEF Reenter, SleepEnds, Dropped
  <1>6. CASE Wake(p)
    BY <1>6 DEF Wake, Dropped, Join
  <1>7. CASE MaxWait(p) \/ Revoke(p)
    BY <1>7 DEF MaxWait, Revoke, client
  <1>8. CASE Deliver(p)
    BY <1>2, <1>3, <1>8 DEF Deliver, At
  <1>9. CASE Release(p) \/ Assign(p) \/ HandlerTransacts(p) \/ Elapse(p) \/ OtherMember(p)
    BY <1>9 DEF Release, Assign, HandlerTransacts, Elapse, OtherMember, memory, client
  <1> QED
    BY <1>4, <1>5, <1>6, <1>7, <1>8, <1>9

\* A step of the run of p goes on with it, ends it, or stops the consumer.
RunSets(p, b) ==
    /\ running' = [running EXCEPT ![p] = b] /\ b.items \in {running[p].items, <<>>}
    /\ UNCHANGED <<state, gaveUp, arrival, collecting, revocations, assigned, revoking, position>>

LEMMA RunsOfOne ==
  ASSUME Pipe, LedgerTypeOK, NEW p \in Partitions,
         \/ Decoded(p) \/ HoldWakes(p) \/ HopAcknowledged(p) \/ Crash(p) \/ CommitLands(p)
         \/ HandlerEnds(p) \/ RunFails(p)
  PROVE  (\E b \in BatchRecord : RunSets(p, b)) \/ StopWith({p})
  <1>0. running[p] \in BatchRecord
    BY BatchFacts
  <1>1. ASSUME End(p) PROVE \E b \in BatchRecord : RunSets(p, b)
    BY <1>1, EmptyBatch DEF End, RunSets
  <1>2. ASSUME NEW pc \in {"held", "handling", "retrying", "deadLettering", "committing", "crashing"},
               Goto(p, [running[p] EXCEPT !.pc = pc])
        PROVE  \E b \in BatchRecord : RunSets(p, b)
    <2>1. [running[p] EXCEPT !.pc = pc] \in BatchRecord /\ [running[p] EXCEPT !.pc = pc].items = running[p].items
      BY <1>0 DEF BatchRecord
    <2> QED
      BY <1>2, <2>1 DEF Goto, client, RunSets
  <1>3. ASSUME NEW pc \in {"held", "handling", "retrying", "deadLettering", "committing", "crashing"},
               NEW left \in SUBSET Nat, NEW ran \in BOOLEAN,
               Goto(p, [running[p] EXCEPT !.pc = pc, !.left = left, !.ran = ran])
        PROVE  \E b \in BatchRecord : RunSets(p, b)
    <2> DEFINE b == [running[p] EXCEPT !.pc = pc, !.left = left, !.ran = ran]
    <2>1. b \in BatchRecord /\ b.items = running[p].items
      BY <1>0 DEF BatchRecord
    <2> QED
      BY <1>3, <2>1 DEF Goto, client, RunSets
  <1>4. ASSUME NEW pc \in {"committing"}, NEW left \in SUBSET Nat,
               Goto(p, [running[p] EXCEPT !.pc = pc, !.left = left])
        PROVE  \E b \in BatchRecord : RunSets(p, b)
    <2> DEFINE b == [running[p] EXCEPT !.pc = pc, !.left = left]
    <2>1. b \in BatchRecord /\ b.items = running[p].items
      BY <1>0 DEF BatchRecord
    <2> QED
      BY <1>4, <2>1 DEF Goto, client, RunSets
  <1>5. ASSUME NEW left \in SUBSET Nat, NEW ran \in BOOLEAN, Forward(p, left, ran)
        PROVE  \E b \in BatchRecord : RunSets(p, b)
    BY <1>3, <1>5 DEF Forward
  <1>6. ASSUME NEW left \in SUBSET Nat, NEW ran \in BOOLEAN, Proceed(p, left, ran)
        PROVE  \E b \in BatchRecord : RunSets(p, b)
    <2>1. {} \in SUBSET Nat /\ TRUE \in BOOLEAN
      OBVIOUS
    <2> QED
      BY <1>1, <1>3, <1>4, <1>5, <1>6, <2>1 DEF Proceed
  <1>7. /\ Items(p) \subseteq Nat /\ Decodable(p) \subseteq Nat /\ {} \in SUBSET Nat
        /\ running[p].left \in SUBSET Nat /\ running[p].ran \in BOOLEAN
    BY <1>0, BatchFacts DEF BatchRecord
  <1>8. CASE Decoded(p) \/ HoldWakes(p)
    BY <1>1, <1>2, <1>5, <1>6, <1>7, <1>8 DEF Decoded, HoldWakes
  <1>9. CASE HandlerEnds(p)
    <2>1. CASE HandlerReturns(p)
      BY <1>6, <1>7, <2>1 DEF HandlerReturns
    <2>2. CASE HandlerFails(p)
      <3>1. PICK failed \in SUBSET Decodable(p) : IF gaveUp THEN End(p) ELSE Forward(p, failed, TRUE)
        BY <2>2 DEF HandlerFails
      <3> QED
        BY <1>1, <1>5, <1>7, <3>1
    <2> QED
      BY <1>9, <2>1, <2>2 DEF HandlerEnds
  <1>10. CASE HopAcknowledged(p)
    BY <1>6, <1>7, <1>10 DEF HopAcknowledged
  <1>11. CASE Crash(p) \/ CommitLands(p) \/ RunFails(p)
    BY <1>1, <1>2, <1>11 DEF Crash, CommitLands, RunFails, HandlerAborts, HandlerNamesStranger,
          HopFails, CommitFails
  <1> QED
    BY <1>8, <1>9, <1>10, <1>11

LEMMA RestartOrders == ASSUME Restart \/ Die, NEW q \in Partitions PROVE Ordered(q)'
  <1>1. collecting'[q] = <<>> /\ running'[q].items = <<>> /\ ~HasArrival(q)'
    BY EmptyBatch DEF Restart, Die, NewConsumer, HasArrival
  <1> QED
    BY <1>1 DEF Ordered, InOrder

LEMMA OrderStays ==
  ASSUME IInv, NEW q \in Partitions, Ordered(q), q \notin stale', [Next]_vars PROVE Ordered(q)'
  <1>1. IInv' /\ Pipe /\ LedgerInv /\ LedgerTypeOK /\ Pipe'
    BY NextInv DEF IInv, LedgerInv
  <1>2. Grows
    BY <1>1, StepPromise, LedgerGrows DEF IInv
  <1>3. ASSUME StopWith({}) \/ (\E p \in Partitions : StopWith({p})) PROVE Ordered(q)'
    <2>1. ~Serving' /\ collecting'[q] = <<>> /\ running'[q].items \in {running[q].items, <<>>}
      <3>1. Batching(q)
        BY <1>1 DEF Pipe
      <3> QED
        BY <1>1, <1>3, <3>1, EmptyBatch DEF StopWith, Drained, Serving, Pipe, Types, Batching, Phases
    <2>2. InOrder(q, collecting[q])' /\ InOrder(q, running[q].items)'
      BY <1>1, <1>2, <2>1, BatchesStayInOrder
    <2> QED
      BY <2>1, <2>2 DEF Ordered
  <1>4. ASSUME NEW p \in Partitions,
               \/ Decoded(p) \/ HoldWakes(p) \/ HopAcknowledged(p) \/ Crash(p) \/ CommitLands(p)
               \/ HandlerEnds(p) \/ RunFails(p)
        PROVE  Ordered(q)'
    <2>1. CASE StopWith({p})
      BY <1>3, <2>1
    <2>2. ASSUME NEW b \in BatchRecord, RunSets(p, b) PROVE Ordered(q)'
      <3>1. UNCHANGED <<state, arrival, collecting, revocations, assigned, position>>
        BY <2>2 DEF RunSets
      <3>2. running'[q].items \in {running[q].items, <<>>}
        BY <1>1, <2>2 DEF RunSets, Pipe, Types
      <3> QED
        BY <1>1, <1>2, <3>1, <3>2, RunOrders
    <2> QED
      BY <1>1, <1>4, <2>1, <2>2, RunsOfOne
  <1>5. ASSUME NEW p \in Partitions,
               \/ Ready(p) \/ Reenter(p) \/ SleepEnds(p) \/ Wake(p) \/ MaxWait(p) \/ Deliver(p) \/ Revoke(p)
               \/ Release(p) \/ Assign(p) \/ HandlerTransacts(p) \/ Elapse(p) \/ OtherMember(p)
        PROVE  Ordered(q)'
    <2>1. UNCHANGED state
      BY <1>5 DEF Ready, Reenter, SleepEnds, Wake, MaxWait, Deliver, Revoke, Release, Assign,
            HandlerTransacts, Elapse, OtherMember, memory
    <2>2. CASE q # p
      <3>1. Same(q)
        BY <1>1, <1>5, <2>2, StepsOfOne
      <3> QED
        BY <1>1, <1>2, <2>1, <3>1, SameOrders
    <2>3. CASE q = p
      <3>1. CASE Ready(p) \/ Reenter(p) \/ SleepEnds(p) \/ Wake(p)
        BY <1>1, <2>3, <3>1, WokenOrders
      <3>2. CASE Deliver(p)
        BY <1>1, <2>3, <3>2, DeliverOrders
      <3>3. CASE MaxWait(p) \/ Revoke(p)
        BY <1>1, <1>2, <2>3, <3>3, BeginsOrders
      <3>4. CASE Release(p) \/ HandlerTransacts(p) \/ Elapse(p) \/ OtherMember(p)
        <4>1. UNCHANGED <<state, arrival, collecting, running, revocations, assigned, position>>
          BY <3>4 DEF Release, HandlerTransacts, Elapse, OtherMember, memory, client
        <4> QED
          BY <1>1, <1>2, <4>1, RunOrders
      <3>5. CASE Assign(p)
        <4>1. /\ p \notin assigned /\ assigned' = assigned \union {p}
              /\ UNCHANGED <<state, arrival, collecting, running, revocations>>
          BY <3>5 DEF Assign, memory
        <4>2. collecting[p] = <<>>
          BY <1>1, <2>3, <4>1 DEF Ordered
        <4>3. InOrder(p, collecting[p])' /\ InOrder(p, running[p].items)'
          BY <1>1, <2>3, <1>2, <4>1, BatchesStayInOrder
        <4> QED
          BY <1>1, <2>3, <4>1, <4>2, <4>3 DEF Ordered, HasArrival, Serving
      <3> QED
        BY <1>5, <3>1, <3>2, <3>3, <3>4, <3>5
    <2> QED
      BY <2>2, <2>3
  <1>6. CASE Stop
    BY <1>3, <1>6 DEF Stop
  <1>7. CASE Started \/ GiveUp \/ Leave
    <2>1. /\ UNCHANGED <<arrival, collecting, revocations, position>>
          /\ running'[q].items = running[q].items
          /\ Serving' => Serving /\ UNCHANGED assigned
          /\ collecting[q] # <<>> => UNCHANGED assigned
      <3>1. CASE Started
        BY <3>1 DEF Started, client, Serving
      <3>2. CASE GiveUp
        <4>1. [running[q] EXCEPT !.open = FALSE].items = running[q].items
          BY <1>1 DEF Pipe, Types, BatchRecord
        <4> QED
          BY <3>2, <4>1 DEF GiveUp, client, Serving
      <3>3. CASE Leave
        <4>1. Batching(q)
          BY <1>1 DEF Pipe
        <4> QED
          BY <3>3, <4>1 DEF Leave, Serving, Batching, Phases
      <3> QED
        BY <1>7, <3>1, <3>2, <3>3
    <2>2. InOrder(q, collecting[q])' /\ InOrder(q, running[q].items)'
      BY <1>1, <1>2, <2>1, BatchesStayInOrder
    <2> QED
      BY <1>1, <2>1, <2>2 DEF Ordered, HasArrival
  <1>8. CASE Restart \/ Die
    BY <1>8, RestartOrders
  <1>9. CASE UNCHANGED vars
    <2>1. Same(q) /\ UNCHANGED state
      BY <1>9 DEF vars, memory, client, Same
    <2> QED
      BY <1>1, <1>2, <2>1, SameOrders
  <1> QED
    BY <1>4, <1>5, <1>6, <1>7, <1>8, <1>9 DEF Next, PipelineStep

LEMMA OrderNext == ASSUME OrderInv, [Next]_vars PROVE OrderInv'
  <1> SUFFICES ASSUME NEW q \in Partitions, q \notin stale' PROVE Ordered(q)'
    BY NextInv DEF OrderInv
  <1>1. CASE q \notin stale
    BY <1>1, OrderStays DEF OrderInv
  <1>2. CASE q \in stale
    BY <1>2, StaleSteps, RestartOrders
  <1> QED
    BY <1>1, <1>2

LEMMA OrderInit == Init => OrderInv
  <1> SUFFICES ASSUME Init, NEW p \in Partitions PROVE Ordered(p)
    BY InitInv DEF OrderInv
  <1>1. collecting[p] = <<>> /\ running[p].items = <<>> /\ ~HasArrival(p)
    BY EmptyBatch DEF Init, Fresh, HasArrival
  <1> QED
    BY <1>1 DEF Ordered, InOrder

LEMMA OrderInvariance == Spec => []OrderInv
  <1>1. OrderInv /\ [Next]_vars => OrderInv'
    BY OrderNext
  <1> QED
    BY <1>1, OrderInit, PTL DEF Spec

\* A batch is a run of consecutive records, and everything before its first
\* one has an outcome: the one offset it commits covers nothing else.  Said of
\* every partition no queued delivery of which outlived a revocation.
THEOREM BatchesOfConsecutive == Spec => []BatchesInOrder
  <1>1. OrderInv => BatchesInOrder
    <2> SUFFICES ASSUME OrderInv, NEW p \in Partitions \ stale, NEW items \in {collecting[p], running[p].items},
                        items # <<>>
                 PROVE  Consecutive(items) /\ PrefixHandled(p, items[1] - 1)
      BY DEF BatchesInOrder
    <2>1. items \in Seq(Nat)
      BY DEF OrderInv, IInv, Pipe, Types, BatchRecord
    <2>2. InARow(items) /\ PrefixHandled(p, items[1] - 1)
      BY DEF OrderInv, Ordered, InOrder
    <2>3. Len(items) \in Nat /\ DOMAIN items = 1..Len(items) /\ \A i \in 1..Len(items) : items[i] \in Nat
      BY <2>1, LenProperties, ElementOfSeq
    <2>4. ASSUME NEW i \in 1..(Len(items) - 1) PROVE items[i + 1] = items[i] + 1
      <3>1. i \in DOMAIN items /\ i + 1 \in DOMAIN items /\ items[1] \in Nat
        BY <2>3
      <3>2. items[i] = items[1] + i - 1 /\ items[i + 1] = items[1] + (i + 1) - 1
        BY <2>2, <3>1 DEF InARow
      <3> QED
        BY <3>1, <3>2
    <2> QED
      BY <2>2, <2>4 DEF Consecutive
  <1> QED
    BY <1>1, OrderInvariance, PTL

\* No batch is left behind on a partition that was taken away, where it would
\* run under the next owner, unless one of its deliveries was queued behind
\* readiness through the revocation.
THEOREM CollectsOwned == Spec => []CollectsWhatItOwns
  <1>1. OrderInv => CollectsWhatItOwns
    BY DEF OrderInv, Ordered, CollectsWhatItOwns
  <1> QED
    BY <1>1, OrderInvariance, PTL

-----------------------------------------------------------------------------
(* Commits, for a client that also waits for a batch before it releases. *)

LEMMA SameAhead ==
  ASSUME NEW p \in Partitions, Ahead(p), Same(p), UNCHANGED <<state, gaveUp>>, committed'[p] = committed[p]
  PROVE  Ahead(p)'
  BY DEF Ahead, Same, Present, Runs

\* The record at o, the next of p, arrived: it is at or after the position.
LEMMA AtAhead ==
  ASSUME Pipe, NEW p \in Partitions, NEW o \in Nat, NEW pc, NEW reentry, Ahead(p),
         UNCHANGED <<collecting, running>>, Delivered(p, o), UNCHANGED committed, LedgerTypeOK,
         p \in assigned, position[p] <= o
  PROVE  Ahead(p)'
  <1>1. position[p] \in Nat /\ committed[p] \in Nat /\ Batching(p)
    BY BatchFacts
  <1>2. Runs(p) => EndOf(running[p].items) \in Nat
    BY BatchFacts
  <1> QED
    BY <1>1, <1>2 DEF Ahead, Delivered, Present, Runs

LEMMA JoinAhead ==
  ASSUME Pipe, LedgerTypeOK, NEW p \in Partitions, NEW o \in Nat, NEW reentry \in BOOLEAN, Ahead(p),
         Join(p, o, reentry), Delivered(p, o), UNCHANGED committed,
         p \in assigned, position[p] <= o, ~Runs(p), state = "running"
  PROVE  Ahead(p)'
  <1> DEFINE items == Append(collecting[p], o)
             full == Len(items) >= Size
  <1>0. /\ collecting[p] \in Seq(Nat) /\ revocations[p] \in Nat /\ position[p] \in Nat /\ committed[p] \in Nat
        /\ Present
    BY BatchFacts DEF Batching, Phases, Serving, Present
  <1>1. items # <<>> /\ EndOf(items) = o /\ items \in Seq(Nat)
    BY <1>0, RecordsOfAppend
  <1>2. /\ collecting'[p] = IF full THEN <<>> ELSE items
        /\ full => running'[p].items = items
        /\ ~full => running' = running
    <2>1. Begun(p, items).items = items /\ Begun(p, items) \in BatchRecord
      <3> HIDE DEF items
      <3> QED
        BY <1>0, <1>1, BegunFacts
    <2>2. [Begun(p, items) EXCEPT !.open = ~reentry, !.reentry = reentry].items = items
      BY <2>1 DEF BatchRecord
    <2> QED
      BY <2>2 DEF Join, Pipe, Types
  <1> HIDE DEF items, full
  <1>3. committed[p] <= o /\ position'[p] = o /\ p \in assigned'
    BY <1>0 DEF Ahead, Delivered
  <1>4. Runs(p)' => full
    BY <1>2 DEF Runs
  <1> QED
    BY <1>0, <1>1, <1>2, <1>3, <1>4 DEF Ahead

LEMMA CollectAhead ==
  ASSUME Pipe, LedgerTypeOK, NEW p \in Partitions, NEW o \in Nat, NEW reentry \in BOOLEAN, Ahead(p),
         Collect(p, o, reentry), Delivered(p, o), UNCHANGED committed,
         p \in assigned, position[p] <= o, state = "running"
  PROVE  Ahead(p)'
  <1>1. CASE Runs(p)
    BY <1>1, AtAhead DEF Collect
  <1>2. CASE ~Runs(p)
    BY <1>2, JoinAhead DEF Collect
  <1> QED
    BY <1>1, <1>2

LEMMA ProcessAhead ==
  ASSUME Pipe, LedgerTypeOK, NEW p \in Partitions, NEW o \in Nat, Ahead(p),
         Process(p, o), Delivered(p, o), UNCHANGED committed,
         p \in assigned, position[p] <= o, state = "running"
  PROVE  Ahead(p)'
  <1>1. CASE Collect(p, o, FALSE)
    BY <1>1, CollectAhead
  <1>2. CASE UNCHANGED <<collecting, running>>
    BY <1>2, AtAhead
  <1> QED
    BY <1>1, <1>2 DEF Process

LEMMA ArrivalAhead ==
  ASSUME Pipe, LedgerTypeOK, NEW p \in Partitions, Ordered(p), Ahead(p),
         Ready(p) \/ Reenter(p) \/ SleepEnds(p) \/ Wake(p) \/ Deliver(p)
  PROVE  Ahead(p)'
  <1>0. Batching(p) /\ position[p] \in Nat /\ arrival[p] \in ArrivalRecord
    BY BatchFacts
  <1>1. CASE Deliver(p)
    <2>1. PICK o \in Nat : /\ o = position[p] + 1 /\ p \in assigned /\ Delivered(p, o)
                           /\ UNCHANGED ledger
                           /\ IF state = "running" THEN Process(p, o)
                              ELSE At(p, "queued", o, FALSE) /\ UNCHANGED <<collecting, running, paused>>
      BY <1>1, DeliverBegins
    <2>2. position[p] <= o /\ UNCHANGED committed
      BY <1>0, <2>1 DEF ledger
    <2> QED
      BY <2>1, <2>2, ProcessAhead, AtAhead
  <1>2. CASE ~Deliver(p)
    <2>1. /\ HasArrival(p) /\ UNCHANGED committed
          /\ UNCHANGED <<state, gaveUp, revocations, assigned, revoking, position>>
          /\ arrival[p].reentry \in BOOLEAN
      BY <1>0, <1>2 DEF Ready, Reenter, SleepEnds, Wake, HasArrival, ledger, ArrivalRecord
    <2>2. ASSUME state = "running", arrival[p].pc = "queued" \/ arrival[p].revocation = revocations[p]
          PROVE  /\ arrival[p].offset \in Nat /\ Delivered(p, arrival[p].offset)
                 /\ p \in assigned /\ position[p] <= arrival[p].offset
      <3>1. p \in assigned
        BY <2>1, <2>2 DEF Ordered, Serving
      <3>2. arrival[p].offset = position[p]
        BY <1>0, <2>1, <2>2, <3>1 DEF Batching, Reads, Serving
      <3> QED
        BY <1>0, <2>1, <2>2, <3>1, <3>2, ArrivalGoesOn
    <2>3. CASE Dropped(p)
      BY <2>1, <2>3 DEF Dropped, Ahead, Present, Runs
    <2>4. CASE ~Dropped(p)
      <3>1. CASE Ready(p)
        <4>1. state = "running" /\ arrival[p].pc = "queued" /\ Process(p, arrival[p].offset)
          BY <2>4, <3>1 DEF Ready
        <4> QED
          BY <2>1, <2>2, <4>1, ProcessAhead
      <3>2. CASE Reenter(p)
        <4>1. /\ state = "running" /\ arrival[p].revocation = revocations[p]
              /\ Collect(p, arrival[p].offset, TRUE)
          BY <1>0, <3>2 DEF Reenter, Batching, Phases
        <4> QED
          BY <2>1, <2>2, <4>1, CollectAhead
      <3>3. CASE SleepEnds(p)
        <4>1. /\ state = "running" /\ arrival[p].revocation = revocations[p]
              /\ Collect(p, arrival[p].offset, FALSE)
          BY <2>4, <3>3 DEF SleepEnds, Lost
        <4> QED
          BY <2>1, <2>2, <4>1, CollectAhead
      <3>4. CASE Wake(p)
        <4>1. /\ state = "running" /\ arrival[p].revocation = revocations[p] /\ ~Runs(p)
              /\ Join(p, arrival[p].offset, arrival[p].reentry)
          BY <2>4, <3>4 DEF Wake, Lost
        <4> QED
          BY <2>1, <2>2, <4>1, JoinAhead
      <3> QED
        BY <1>2, <3>1, <3>2, <3>3, <3>4
    <2> QED
      BY <2>3, <2>4
  <1> QED
    BY <1>1, <1>2

LEMMA BeginsAhead ==
  ASSUME Pipe, LedgerTypeOK, NEW p \in Partitions, Ordered(p), Ahead(p), MaxWait(p) \/ Revoke(p)
  PROVE  Ahead(p)'
  <1>0. /\ Batching(p) /\ collecting[p] \in Seq(Nat) /\ revocations[p] \in Nat /\ position[p] \in Nat
        /\ collecting[p] # <<>> => EndOf(collecting[p]) \in Nat
    BY BatchFacts, EndIsRecord
  <1>1. Begun(p, collecting[p]).items = collecting[p]
    BY <1>0, BegunFacts
  <1>2. /\ collecting'[p] = <<>> /\ UNCHANGED <<state, gaveUp, committed, position>>
        /\ p \in assigned' \union revoking' \/ UNCHANGED <<assigned, revoking>>
        /\ assigned' \subseteq assigned
        /\ IF collecting[p] = <<>> THEN running'[p] = running[p] ELSE running'[p].items = collecting[p]
    BY <1>0, <1>1 DEF MaxWait, Revoke, Pipe, Types, ledger, client
  <1>3. CASE collecting[p] = <<>>
    BY <1>2, <1>3 DEF Ahead, Present, Runs
  <1>4. CASE collecting[p] # <<>>
    <2>1. p \in assigned /\ EndOf(collecting[p]) <= position[p] /\ committed[p] <= EndOf(collecting[p])
      BY <1>0, <1>4 DEF Ordered, Ahead
    <2>2. p \in assigned' \union revoking'
      BY <1>2, <2>1
    <2> QED
      BY <1>2, <1>4, <2>1, <2>2 DEF Ahead, Present
  <1> QED
    BY <1>3, <1>4

\* A step of the run commits the end of its batch, or nothing.
LEMMA RunAhead ==
  ASSUME Pipe, Pipe', LedgerTypeOK, NEW q \in Partitions, Ahead(q), NEW p \in Partitions,
         NEW b \in BatchRecord, RunSets(p, b), Runs(p),
         UNCHANGED committed \/ committed' = [committed EXCEPT ![p] = Last(p)]
  PROVE  Ahead(q)'
  <1>0. /\ UNCHANGED <<state, gaveUp, collecting, assigned, revoking, position>>
        /\ running'[q].items \in {running[q].items, <<>>}
    BY DEF RunSets, Pipe, Types
  <1>1. Runs(q)' => Runs(q) /\ running'[q].items = running[q].items
    BY <1>0 DEF Pipe, Batching, Shapes
  <1>2. CASE committed'[q] = committed[q]
    BY <1>0, <1>1, <1>2 DEF Ahead, Present
  <1>3. CASE q = p /\ committed'[q] = EndOf(running[q].items)
    <2>1. EndOf(running[q].items) \in Nat /\ collecting[q] = <<>>
      BY <1>3, BatchFacts DEF Batching, Shapes
    <2> QED
      BY <1>0, <1>1, <1>3, <2>1 DEF Ahead, Present
  <1> QED
    BY <1>2, <1>3, BatchFacts DEF LedgerTypeOK

\* A step that delivers nothing, releases nothing and commits nothing.
LEMMA LessAhead ==
  ASSUME Pipe, NEW q \in Partitions, Ahead(q), Present' => Present,
         running'[q] = running[q] \/ ~Runs(q)' \/ ~Present',
         collecting'[q] \in {collecting[q], <<>>}, UNCHANGED <<assigned, revoking, position, committed>>
  PROVE  Ahead(q)'
  <1>1. CASE running'[q] = running[q]
    BY <1>1 DEF Ahead, Runs
  <1>2. CASE ~Runs(q)' \/ ~Present'
    BY <1>2 DEF Ahead
  <1> QED
    BY <1>1, <1>2

LEMMA StopAhead ==
  ASSUME Pipe, NEW q \in Partitions, Ahead(q), NEW gone, StopWith(gone), UNCHANGED committed
  PROVE  Ahead(q)' /\ UNCHANGED assigned /\ (state' = "stopped" => state = "stopped")
  <1>1. /\ Present' => Present
        /\ running'[q] = running[q] \/ running'[q] = NoBatch
        /\ collecting'[q] \in {collecting[q], <<>>} /\ UNCHANGED <<assigned, revoking, position>>
        /\ state' = "stopped" => state = "stopped"
    BY DEF StopWith, Drained, Present
  <1>2. running'[q] = NoBatch => ~Runs(q)'
    BY EmptyBatch DEF Runs
  <1> QED
    BY <1>1, <1>2, LessAhead

\* What a step about p does to the committed offsets of the others.
LEMMA CommitsOfOne ==
  ASSUME LedgerTypeOK, NEW p \in Partitions, NEW q \in Partitions \ {p},
         \/ Ready(p) \/ Reenter(p) \/ SleepEnds(p) \/ Wake(p) \/ MaxWait(p) \/ Deliver(p) \/ Revoke(p)
         \/ Release(p) \/ Assign(p) \/ HandlerTransacts(p) \/ Elapse(p) \/ OtherMember(p)
  PROVE  committed'[q] = committed[q]
  <1>1. CASE OtherMember(p)
    BY <1>1 DEF OtherMember, Commit, Resolve, Hop, DeadLetter, LedgerTypeOK
  <1>2. CASE HandlerTransacts(p)
    BY <1>2 DEF HandlerTransacts, TransactAll, LedgerTypeOK
  <1> QED
    BY <1>1, <1>2 DEF Ready, Reenter, SleepEnds, Wake, MaxWait, Deliver, Revoke, Release, Assign, Elapse, ledger

\* The run of p commits the end of its batch, or nothing.
LEMMA RunCommits ==
  ASSUME Pipe, LedgerTypeOK, NEW p \in Partitions,
         \/ Decoded(p) \/ HoldWakes(p) \/ HopAcknowledged(p) \/ Crash(p) \/ CommitLands(p)
         \/ HandlerEnds(p) \/ RunFails(p) \/ HandlerTransacts(p)
  PROVE  /\ Runs(p)
         /\ \/ UNCHANGED committed
            \/ /\ CommitLands(p) \/ HandlerTransacts(p)
               /\ committed' = [committed EXCEPT ![p] = Last(p)]
  <1>1. CASE CommitLands(p) \/ HandlerTransacts(p)
    BY <1>1 DEF CommitLands, HandlerTransacts, Commit, TransactAll, Runs
  <1>2. CASE HandlerEnds(p)
    BY <1>2 DEF HandlerEnds, HandlerReturns, HandlerFails, ResolveAll, Runs
  <1>3. CASE RunFails(p)
    BY <1>3 DEF RunFails, HandlerAborts, HandlerNamesStranger, HopFails, CommitFails, Copy, CopyToDlq, ledger, Runs
  <1>4. CASE Decoded(p) \/ HoldWakes(p) \/ HopAcknowledged(p) \/ Crash(p)
    BY <1>4 DEF Decoded, HoldWakes, HopAcknowledged, Crash, Hop, DeadLetter, ledger, Runs
  <1> QED
    BY <1>1, <1>2, <1>3, <1>4

LEMMA RestartAhead == ASSUME Restart \/ Die, NEW q \in Partitions PROVE Ahead(q)'
  <1>1. collecting'[q] = <<>> /\ ~Runs(q)' /\ assigned' = {}
    BY EmptyBatch DEF Restart, Die, NewConsumer, Runs
  <1> QED
    BY <1>1 DEF Ahead

LEMMA AheadStays ==
  ASSUME ~Overrun, IInv, NEW q \in Partitions, Ordered(q), Ahead(q), [Next]_vars PROVE Ahead(q)'
  <1>1. /\ Pipe /\ Pipe' /\ LedgerTypeOK /\ \A p \in Partitions : Batching(p)
    BY NextInv DEF IInv, LedgerInv, Pipe
  <1>2. ASSUME NEW p \in Partitions,
               \/ Decoded(p) \/ HoldWakes(p) \/ HopAcknowledged(p) \/ Crash(p) \/ CommitLands(p)
               \/ HandlerEnds(p) \/ RunFails(p)
        PROVE  Ahead(q)'
    <2>1. /\ Runs(p)
          /\ UNCHANGED committed \/ committed' = [committed EXCEPT ![p] = Last(p)]
      BY <1>1, <1>2, RunCommits
    <2>2. CASE StopWith({p}) /\ UNCHANGED committed
      BY <1>1, <2>2, StopAhead
    <2>3. ASSUME NEW b \in BatchRecord, RunSets(p, b) PROVE Ahead(q)'
      BY <1>1, <2>1, <2>3, RunAhead DEF RunSets
    <2>4. CASE StopWith({p}) /\ committed' # committed
      <3>1. CommitLands(p)
        BY <1>1, <1>2, <2>1, <2>4, RunCommits, EmptyBatch DEF HandlerTransacts, StopWith, memory, Runs
      <3>2. End(p) /\ running[p] \in BatchRecord
        BY <1>1, <3>1, BatchFacts DEF CommitLands
      <3>3. RunSets(p, NoBatch) /\ NoBatch \in BatchRecord
        BY <3>2, EmptyBatch DEF End, RunSets
      <3> QED
        BY <2>3, <3>3
    <2> QED
      BY <1>1, <1>2, <2>2, <2>3, <2>4, RunsOfOne
  <1>3. ASSUME NEW p \in Partitions,
               \/ Ready(p) \/ Reenter(p) \/ SleepEnds(p) \/ Wake(p) \/ MaxWait(p) \/ Deliver(p) \/ Revoke(p)
               \/ Release(p) \/ Assign(p) \/ HandlerTransacts(p) \/ Elapse(p) \/ OtherMember(p)
        PROVE  Ahead(q)'
    <2>1. UNCHANGED <<state, gaveUp>>
      BY <1>3 DEF Ready, Reenter, SleepEnds, Wake, MaxWait, Deliver, Revoke, Release, Assign,
            HandlerTransacts, Elapse, OtherMember, memory, client
    <2>2. CASE q # p
      <3>1. Same(q) /\ committed'[q] = committed[q]
        BY <1>1, <1>3, <2>2, StepsOfOne, CommitsOfOne
      <3> QED
        BY <1>1, <2>1, <3>1, SameAhead
    <2>3. CASE q = p
      <3>1. CASE Ready(p) \/ Reenter(p) \/ SleepEnds(p) \/ Wake(p) \/ Deliver(p)
        BY <1>1, <2>1, <2>3, <3>1, ArrivalAhead
      <3>2. CASE MaxWait(p) \/ Revoke(p)
        BY <1>1, <2>1, <2>3, <3>2, BeginsAhead
      <3>3. CASE Release(p)
        <4>1. gaveUp \/ ~Runs(p)
          BY <3>3 DEF Release
        <4> QED
          BY <1>1, <2>1, <2>3, <3>3, <4>1 DEF Release, memory, ledger, Ahead, Present, Runs
      <3>4. CASE Assign(p)
        <4>1. /\ p \notin assigned \union revoking /\ position'[p] = committed[p] /\ committed[p] \in Nat
              /\ UNCHANGED <<state, gaveUp, running, collecting, committed>>
          BY <1>1, <3>4, BatchFacts DEF Assign, memory, ledger, Pipe, Types
        <4>2. collecting[p] = <<>> /\ (Present => ~Runs(p))
          BY <1>1, <2>3, <4>1 DEF Ordered, Ahead
        <4> QED
          BY <2>1, <2>3, <4>1, <4>2 DEF Ahead, Present, Runs
      <3>5. CASE HandlerTransacts(p)
        <4>1. /\ Runs(p)
              /\ UNCHANGED committed \/ committed' = [committed EXCEPT ![p] = Last(p)]
          BY <1>1, <3>5, RunCommits
        <4>2. running[p] \in BatchRecord
          BY <1>1, BatchFacts
        <4>3. RunSets(p, running[p])
          BY <1>1, <3>5 DEF HandlerTransacts, RunSets, memory, client, Pipe, Types
        <4> QED
          BY <1>1, <2>1, <4>1, <4>2, <4>3, RunAhead
      <3>6. CASE Elapse(p)
        <4>1. Same(p) /\ UNCHANGED committed
          BY <3>6 DEF Elapse, memory, client, ledger, Same
        <4> QED
          BY <1>1, <2>1, <2>3, <4>1, SameAhead
      <3>7. CASE OtherMember(p)
        <4>1. /\ p \notin assigned \union revoking
              /\ UNCHANGED <<running, collecting, assigned, revoking>>
          BY <3>7 DEF OtherMember, memory, client
        <4>2. collecting[p] = <<>> /\ (Present => ~Runs(p))
          BY <1>1, <2>3, <4>1 DEF Ordered, Ahead
        <4> QED
          BY <2>1, <2>3, <4>1, <4>2 DEF Ahead, Present, Runs
      <3> QED
        BY <1>3, <3>1, <3>2, <3>3, <3>4, <3>5, <3>6, <3>7
    <2> QED
      BY <2>2, <2>3
  <1>4. CASE Stop
    BY <1>1, <1>4, StopAhead DEF Stop, ledger
  <1>5. CASE Started \/ GiveUp
    <2>1. /\ Present' => Present
          /\ running'[q] = running[q] \/ ~Present'
          /\ UNCHANGED <<collecting, assigned, revoking, position, committed>>
      BY <1>5 DEF Started, GiveUp, client, ledger, Present
    <2> QED
      BY <1>1, <2>1, LessAhead
  <1>6. CASE Leave
    <2>1. collecting'[q] = <<>> /\ ~Present'
      BY <1>1, <1>6 DEF Leave, Present, Batching, Phases
    <2> QED
      BY <2>1 DEF Ahead
  <1>7. CASE Restart \/ Die
    BY <1>7, RestartAhead
  <1>8. CASE UNCHANGED vars
    BY <1>1, <1>8, SameAhead DEF vars, memory, client, ledger, Same
  <1> QED
    BY <1>2, <1>3, <1>4, <1>5, <1>6, <1>7, <1>8 DEF Next, PipelineStep

\* Nothing joins a consumer that stopped.
LEMMA StoppedStays ==
  ASSUME Pipe, LedgerTypeOK, state = "stopped" => assigned \union revoking = {}, [Next]_vars
  PROVE  state' = "stopped" => assigned' \union revoking' = {}
  <1>1. ASSUME NEW p \in Partitions,
               \/ Decoded(p) \/ HoldWakes(p) \/ HopAcknowledged(p) \/ Crash(p) \/ CommitLands(p)
               \/ HandlerEnds(p) \/ RunFails(p)
        PROVE  UNCHANGED <<assigned, revoking>> /\ (state' = "stopped" => state = "stopped")
    BY <1>1, RunsOfOne DEF RunSets, StopWith, Drained
  <1>2. ASSUME NEW p \in Partitions,
               \/ Ready(p) \/ Reenter(p) \/ SleepEnds(p) \/ Wake(p) \/ MaxWait(p) \/ Deliver(p) \/ Revoke(p)
               \/ Release(p) \/ Assign(p) \/ HandlerTransacts(p) \/ Elapse(p) \/ OtherMember(p)
        PROVE  state' = "stopped" => assigned' \union revoking' = {}
    BY <1>2 DEF Ready, Reenter, SleepEnds, Wake, MaxWait, Deliver, Revoke, Release, Assign,
          HandlerTransacts, Elapse, OtherMember, memory, client
  <1>3. CASE Started \/ Stop \/ GiveUp \/ Leave \/ Restart \/ Die \/ UNCHANGED vars
    BY <1>3 DEF Started, Stop, StopWith, Drained, GiveUp, Leave, Restart, Die, NewConsumer, vars, memory, client
  <1> QED
    BY <1>1, <1>2, <1>3 DEF Next, PipelineStep

LEMMA AheadNext == ASSUME ~Overrun, AheadInv, [Next]_vars PROVE AheadInv'
  <1>1. Pipe /\ LedgerTypeOK /\ OrderInv /\ OrderInv' /\ IInv
    BY OrderNext DEF AheadInv, OrderInv, IInv, LedgerInv
  <1>2. state' = "stopped" => assigned' \union revoking' = {}
    BY <1>1, StoppedStays DEF AheadInv
  <1>3. ASSUME NEW q \in Partitions, q \notin stale' PROVE Ahead(q)'
    <2>1. CASE q \notin stale
      BY <1>1, <2>1, AheadStays DEF AheadInv, OrderInv
    <2>2. CASE q \in stale
      BY <1>3, <2>2, StaleSteps, RestartAhead
    <2> QED
      BY <2>1, <2>2
  <1> QED
    BY <1>1, <1>2, <1>3 DEF AheadInv

LEMMA AheadInit == Init => AheadInv
  <1> SUFFICES ASSUME Init PROVE AheadInv
    OBVIOUS
  <1>1. \A p \in Partitions : collecting[p] = <<>> /\ ~Runs(p) /\ assigned = {} /\ state = "starting"
    BY EmptyBatch DEF Init, Fresh, Runs
  <1> QED
    BY <1>1, OrderInit DEF AheadInv, Ahead, Init, Fresh

\* The committed offset of a partition only moves back in a commit that was in
\* flight when the shutdown gave up on its batch, if the client waits for a
\* batch before it releases a partition.  Said of every partition no queued
\* delivery of which outlived a revocation.
THEOREM BatchCommitsMoveForward ==
  ASSUME ~Overrun PROVE Spec => CommitsMoveForward
  <1>1. AheadInv /\ [Next]_vars => AheadInv'
    BY AheadNext
  <1>2. ASSUME AheadInv, [Next]_vars, NEW p \in Partitions \ stale, committed'[p] < committed[p]
        PROVE  gaveUp
    <2>1. /\ Pipe /\ LedgerTypeOK /\ Ordered(p) /\ Ahead(p) /\ committed[p] \in Nat /\ Batching(p)
      BY <1>2, BatchFacts DEF AheadInv, OrderInv, IInv, LedgerInv
    <2>2. committed'[p] # committed[p]
      BY <1>2, <2>1
    <2>3. ASSUME NEW r \in Partitions,
                 \/ Decoded(r) \/ HoldWakes(r) \/ HopAcknowledged(r) \/ Crash(r) \/ CommitLands(r)
                 \/ HandlerEnds(r) \/ RunFails(r) \/ HandlerTransacts(r)
          PROVE  gaveUp
      <3>1. /\ Runs(r) /\ (CommitLands(r) \/ HandlerTransacts(r))
            /\ committed' = [committed EXCEPT ![r] = Last(r)]
        BY <2>1, <2>2, <2>3, RunCommits
      <3>2. r = p /\ committed'[p] = EndOf(running[p].items) /\ Runs(p) /\ EndOf(running[p].items) \in Nat
        BY <2>1, <2>2, <2>3, <3>1, BatchFacts, RunCommits DEF LedgerTypeOK
      <3>3. state # "stopped"
        BY <1>2, <3>1 DEF CommitLands, HandlerTransacts, AheadInv
      <3> QED
        BY <1>2, <2>1, <3>2, <3>3 DEF Ahead, Present
    <2>4. ASSUME NEW r \in Partitions, OtherMember(r) PROVE gaveUp
      BY <1>2, <2>1, <2>2, <2>4 DEF OtherMember, Commit, Resolve, Hop, DeadLetter, LedgerTypeOK
    <2>5. CASE \/ \E r \in Partitions : \/ Ready(r) \/ Reenter(r) \/ SleepEnds(r) \/ Wake(r) \/ MaxWait(r)
                                        \/ Deliver(r) \/ Revoke(r) \/ Release(r) \/ Assign(r) \/ Elapse(r)
               \/ Started \/ Stop \/ GiveUp \/ Leave \/ Restart \/ Die \/ UNCHANGED vars
      BY <2>2, <2>5 DEF Ready, Reenter, SleepEnds, Wake, MaxWait, Deliver, Revoke, Release, Assign,
            Elapse, Started, Stop, GiveUp, Leave, Restart, Die, vars, ledger
    <2> QED
      BY <1>2, <2>3, <2>4, <2>5 DEF Next, PipelineStep
  <1>3. AheadInv /\ [Next]_vars => [\A p \in Partitions \ stale : committed'[p] < committed[p] => gaveUp]_vars
    BY <1>2
  <1> QED
    BY <1>1, <1>3, AheadInit, PTL DEF Spec, CommitsMoveForward
=============================================================================
