--------------------- MODULE PlatformaticConsumptionProofs ---------------------
(***************************************************************************)
(* The safety of a consumption of the platformatic adapter, for any        *)
(* partitions, records, concurrency and buffers: its line and its counter  *)
(* agree, nothing is committed that the group is not done with, and what   *)
(* the core sees of it is what DeliveryContract promises.                  *)
(***************************************************************************)
EXTENDS PlatformaticConsumption, FiniteSetTheorems, SequenceTheorems, TLAPS

-----------------------------------------------------------------------------
(* The invariant, by what it is about. *)

Loops == {"none", "starting", "pumping", "room", "granted", "backoff", "opening", "ended", "closed"}

Gates ==
    [queues : [Partitions -> Seq(Offsets)], keys : SUBSET Partitions, ready : Seq(Partitions),
     running : [Partitions -> Offsets \union {0}], queued : Nat, paused : SUBSET Partitions,
     lastQueued : [Partitions -> Offsets \union {0}], epochs : SUBSET Partitions]

Types ==
    /\ ConnectionTypeOK
    /\ committed \in [Partitions -> Offsets \union {0}] /\ done \subseteq Partitions \X Offsets
    /\ member \in BOOLEAN /\ stream \in BOOLEAN /\ rotating \in BOOLEAN /\ stopped \in BOOLEAN
    /\ fetched \in [Partitions -> Offsets \union {0}] /\ buffer \in [Partitions -> Seq(Offsets)]
    /\ assignments \subseteq Partitions /\ assigned = assignments
    /\ lost \subseteq Partitions /\ lost \intersect assignments = {}
    /\ gate \in Gates /\ loop \in Loops
    /\ parked \in [Partitions -> Offsets \union {0}]
    /\ settled \subseteq Partitions /\ revoked \subseteq Partitions
    /\ troubles \in 0..MaxTroubles

\* The line, the counter and the slots of the gate g.
Fit(g) ==
    /\ IsInjective(g.ready)
    /\ \A p \in Range(g.ready) : g.queues[p] # <<>> /\ g.running[p] = 0 /\ p \notin g.paused
    /\ Cardinality(Running(g)) <= Concurrency
    /\ g.queued = Cardinality(Places(g.queues, Partitions))
    /\ \A p \in Partitions : g.queues[p] # <<>> => p \in g.keys

Ready(g, p) == g.queues[p] # <<>> /\ g.running[p] = 0 /\ p \notin g.paused

\* Every partition that may go on is in the line, and nobody waits for a free slot.
InLine(g) ==
    /\ \A p \in Partitions : Ready(g, p) => p \in Range(g.ready)
    /\ Cardinality(Running(g)) < Concurrency => g.ready = <<>>

Line == Fit(gate) /\ (~stopped => InLine(gate))

\* The reader waits only while there is no room, and then holds one message.
Room ==
    /\ gate.queued <= bufferedMessages
    /\ loop = "room" => gate.queued = bufferedMessages /\ ~stopped
    /\ loop = "granted" /\ ~stopped => gate.queued < bufferedMessages
    /\ IF loop \in {"room", "granted"} THEN pulled \in Partitions \X Offsets ELSE pulled = <<>>

\* What is known of a partition is of one that is owned.
Owned ==
    \A p \in Partitions : gate.queues[p] # <<>> \/ gate.lastQueued[p] # 0 => p \in assignments

-----------------------------------------------------------------------------
(* The records of a partition p, where the records D are done. *)

Through(D, p, o) == \A i \in 1..o : <<p, i>> \in D

\* Record o leaves nothing out behind record t.
Joins(D, p, o, t) == o <= t + 1 \/ Through(D, p, o - 1)

\* Record i is done, or the core will commit nothing after it before it is:
\* k is parked, and r in delivery.
Held(D, p, k, r, i) == <<p, i>> \in D \/ k = i \/ r = i

PlaceOf(s, l) == IF s # <<>> THEN Head(s) - 1 ELSE l

\* What is queued comes in order and without a gap after what is held.
Sorted(D, p, k, r, s, l) ==
    /\ \A i \in 1..PlaceOf(s, l) : Held(D, p, k, r, i)
    /\ \A n \in 1..(Len(s) - 1) : s[n] < s[n + 1] /\ Joins(D, p, s[n + 1], s[n])
    /\ s # <<>> => l = s[Len(s)]

\* What the stream hands over comes without a gap after what was queued up to l:
\* w waits for room, b is in the stream, f was fetched last.
Follows(D, p, w, l, b, f) ==
    LET tip == IF w # 0 THEN w ELSE l
    IN /\ w # 0 => Joins(D, p, w, l)
       /\ \A n \in 1..(Len(b) - 1) : Joins(D, p, b[n + 1], b[n])
       /\ IF b = <<>> THEN f <= tip \/ Through(D, p, f)
          ELSE Joins(D, p, b[1], tip) /\ (f = b[Len(b)] \/ Through(D, p, f))

-----------------------------------------------------------------------------

\* The record in delivery that the core handles before it settles.
Live(p) == IF p \in settled \union revoked THEN 0 ELSE gate.running[p]

Waiting(p) == IF pulled # <<>> /\ pulled[1] = p THEN pulled[2] ELSE 0

\* What the core has in hand: the group is done with everything before it.
Hands ==
    /\ settled \subseteq Running(gate) /\ revoked \subseteq Running(gate)
    /\ \A p \in Partitions :
          /\ gate.running[p] # 0 => Through(done, p, gate.running[p] - 1)
          /\ parked[p] # 0 => /\ Through(done, p, parked[p] - 1)
                              /\ p \in gate.paused /\ ~stopped
                              /\ gate.running[p] # 0 => p \in settled

Order ==
    ~stopped => \A p \in Partitions :
        Sorted(done, p, parked[p], Live(p), gate.queues[p], gate.lastQueued[p])

\* The stream holds nothing of p, and reads what is left to handle.
Unread(p) == Waiting(p) = 0 /\ buffer[p] = <<>> /\ Through(done, p, fetched[p])

Arrival ==
    stream /\ ~stopped => \A p \in Partitions \ lost :
        IF p \in assignments
        THEN Follows(done, p, Waiting(p), gate.lastQueued[p], buffer[p], fetched[p])
        ELSE Unread(p)

Fresh ==
    ~Begun => /\ ~member /\ ~stream /\ ~stopped /\ lost = {} /\ assignments = {}
              /\ \A p \in Partitions : Unread(p)

IInv == Types /\ Line /\ Room /\ Owned /\ CommittedIsDone /\ Hands /\ Order /\ Arrival /\ Fresh

\* A parked record that came back is done.
Returned ==
    /\ reentered \subseteq Partitions
    /\ \A p \in reentered : parked[p] # 0 /\ <<p, parked[p]>> \in done

Inv == IInv /\ Returned

-----------------------------------------------------------------------------
(* Numbers, sequences and sets. *)

\* Every nonempty set of numbers has a least one, so what holds of 0 and of
\* the next number holds of all.
LEMMA CountUp ==
    ASSUME NEW S, 0 \in S, \A n \in S : n + 1 \in S
    PROVE  Nat \subseteq S
<1> DEFINE T == Nat \ S
<1>1. SUFFICES ASSUME T # {} PROVE FALSE
  OBVIOUS
<1>2. IsWellFoundedOn(OpToRel(<, Nat), Nat)
  BY NatLessThanWellFounded
<1>3. \E x \in T : \A y \in T : ~ (<<y, x>> \in OpToRel(<, Nat))
  BY <1>1, <1>2, WFMin
<1>4. PICK x \in T : \A y \in T : ~(y < x)
  BY <1>3 DEF OpToRel
<1>5. x # 0 /\ x - 1 \in Nat /\ x - 1 < x /\ (x - 1) + 1 = x
  OBVIOUS
<1>6. x - 1 \in S
  BY <1>4, <1>5
<1> QED
  BY <1>5, <1>6

\* Offsets are positive, and everything below one is an offset or zero.
LEMMA OffsetsAre ==
    /\ Offsets \subseteq Nat \ {0} /\ 0 \notin Offsets
    /\ \A p \in Partitions : 1..Records[p] \subseteq Offsets
    /\ \A o \in Offsets : o - 1 \in Offsets \union {0}
    /\ \A o \in Offsets, i \in Nat : 1 <= i /\ i <= o => i \in Offsets
<1>1. Offsets \subseteq Nat \ {0}
  BY ConsumptionAssumption DEF Offsets
<1>2. \A p \in Partitions : 1..Records[p] \subseteq Offsets
  BY DEF Offsets
<1>3. ASSUME NEW o \in Offsets, NEW i \in Nat, 1 <= i, i <= o
      PROVE  i \in Offsets
  <2>1. PICK p \in Partitions : o \in 1..Records[p]
    BY DEF Offsets
  <2>2. Records[p] \in Nat
    BY ConsumptionAssumption
  <2>3. i \in 1..Records[p]
    BY <1>3, <2>1, <2>2
  <2> QED
    BY <2>3, <1>2
<1>4. ASSUME NEW o \in Offsets
      PROVE  o - 1 \in Offsets \union {0}
  <2>1. o \in Nat /\ o # 0
    BY <1>1
  <2>2. CASE o = 1
    BY <2>2
  <2>3. CASE o # 1
    <3>1. o - 1 \in Nat /\ 1 <= o - 1 /\ o - 1 <= o
      BY <2>1, <2>3
    <3> QED
      BY <1>3, <3>1
  <2> QED
    BY <2>2, <2>3
<1> QED
  BY <1>1, <1>2, <1>3, <1>4

\* An offset, or zero for none, is a number.
LEMMA NumbersAre ==
    \A o \in Offsets \union {0} : o \in Nat
BY OffsetsAre

\* One that was not in line goes to its end.
LEMMA AtTheEnd ==
    ASSUME NEW T, NEW p \in T, NEW line \in Seq(T)
    PROVE  /\ Append(line, p) \in Seq(T) /\ Append(line, p) # <<>>
           /\ Range(Append(line, p)) = Range(line) \union {p}
           /\ IsInjective(line) /\ p \notin Range(line) => IsInjective(Append(line, p))
<1>1. /\ Append(line, p) \in Seq(T) /\ Append(line, p) # <<>>
      /\ Len(Append(line, p)) = Len(line) + 1
      /\ \A i \in 1..Len(line) : Append(line, p)[i] = line[i]
      /\ Append(line, p)[Len(line) + 1] = p
  BY AppendProperties
<1>2. /\ Len(line) \in Nat /\ DOMAIN line = 1..Len(line)
      /\ DOMAIN Append(line, p) = 1..(Len(line) + 1)
  BY <1>1, LenProperties
<1>3. \A i \in 1..(Len(line) + 1) : i \in 1..Len(line) \/ i = Len(line) + 1
  BY <1>2
<1>4. 1..Len(line) \subseteq 1..(Len(line) + 1) /\ Len(line) + 1 \in 1..(Len(line) + 1)
  BY <1>2
<1>5. Range(Append(line, p)) = Range(line) \union {p}
  BY <1>1, <1>2, <1>3, <1>4 DEF Range
<1>6. p \notin Range(line) => \A i \in 1..Len(line) : line[i] # p
  BY <1>2 DEF Range
<1>7. IsInjective(line) /\ p \notin Range(line) => IsInjective(Append(line, p))
  BY <1>1, <1>2, <1>3, <1>6 DEF IsInjective
<1> QED
  BY <1>1, <1>5, <1>7

\* Once the first in line goes, the others are there as before.
LEMMA TheRestOfTheLine ==
    ASSUME NEW T, NEW line \in Seq(T), line # <<>>, IsInjective(line)
    PROVE  /\ Tail(line) \in Seq(T) /\ Head(line) \in Range(line) /\ Head(line) \in T
           /\ Range(Tail(line)) = Range(line) \ {Head(line)} /\ IsInjective(Tail(line))
<1>1. /\ Tail(line) \in Seq(T) /\ Len(Tail(line)) = Len(line) - 1 /\ Head(line) \in T
      /\ \A i \in 1..Len(Tail(line)) : Tail(line)[i] = line[i + 1]
  BY HeadTailProperties
<1>2. /\ Len(line) \in Nat \ {0} /\ DOMAIN line = 1..Len(line)
      /\ DOMAIN Tail(line) = 1..(Len(line) - 1) /\ Head(line) = line[1]
  BY <1>1, LenProperties, EmptySeq
<1>3. \A i \in 1..(Len(line) - 1) : i + 1 \in 1..Len(line) /\ i + 1 # 1
  BY <1>2
<1>4. \A i \in 1..Len(line) : i # 1 => \E j \in 1..(Len(line) - 1) : j + 1 = i
  <2> SUFFICES ASSUME NEW i \in 1..Len(line), i # 1
               PROVE  i - 1 \in 1..(Len(line) - 1) /\ (i - 1) + 1 = i
    OBVIOUS
  <2> QED
    BY <1>2
<1>5. 1 \in 1..Len(line)
  BY <1>2
<1>6. \A i \in 1..Len(line) : i # 1 => line[i] # line[1]
  BY <1>2, <1>5 DEF IsInjective
<1>7. Range(Tail(line)) = Range(line) \ {Head(line)}
  <2>1. \A x \in Range(Tail(line)) : x \in Range(line) \ {Head(line)}
    <3> SUFFICES ASSUME NEW i \in 1..(Len(line) - 1)
                 PROVE  Tail(line)[i] \in Range(line) \ {Head(line)}
      BY <1>2 DEF Range
    <3>1. Tail(line)[i] = line[i + 1]
      BY <1>1, <1>2
    <3>2. i + 1 \in DOMAIN line /\ line[i + 1] # Head(line)
      BY <1>2, <1>3, <1>6
    <3> QED
      BY <3>1, <3>2 DEF Range
  <2>2. \A x \in Range(line) \ {Head(line)} : x \in Range(Tail(line))
    <3> SUFFICES ASSUME NEW i \in 1..Len(line), line[i] # Head(line)
                 PROVE  line[i] \in Range(Tail(line))
      BY <1>2 DEF Range
    <3>1. PICK j \in 1..(Len(line) - 1) : j + 1 = i
      BY <1>2, <1>4
    <3>2. line[i] = Tail(line)[j] /\ j \in DOMAIN Tail(line)
      BY <1>1, <1>2, <3>1
    <3> QED
      BY <3>2 DEF Range
  <2> QED
    BY <2>1, <2>2
<1>8. IsInjective(Tail(line))
  <2> SUFFICES ASSUME NEW i \in 1..(Len(line) - 1), NEW j \in 1..(Len(line) - 1),
                      Tail(line)[i] = Tail(line)[j]
               PROVE  i = j
    BY <1>2 DEF IsInjective
  <2>1. line[i + 1] = line[j + 1] /\ i + 1 \in DOMAIN line /\ j + 1 \in DOMAIN line
    BY <1>1, <1>2, <1>3
  <2>2. i + 1 = j + 1
    BY <2>1 DEF IsInjective
  <2> QED
    BY <2>2, <1>2
<1>9. Head(line) \in Range(line)
  BY <1>2, <1>5 DEF Range
<1> QED
  BY <1>1, <1>7, <1>8, <1>9

\* The empty line has nobody in it.
LEMMA NobodyIn ==
    ASSUME NEW T, NEW line \in Seq(T)
    PROVE  line = <<>> <=> Range(line) = {}
<1>1. DOMAIN line = 1..Len(line) /\ Len(line) \in Nat
  BY LenProperties
<1>2. line # <<>> => Len(line) \in Nat \ {0}
  BY EmptySeq
<1>3. line = <<>> => Len(line) = 0
  BY EmptySeq
<1>4. CASE line = <<>>
  <2>1. 1..Len(line) = {}
    BY <1>3, <1>4
  <2> QED
    BY <1>1, <1>4, <2>1 DEF Range
<1>5. CASE line # <<>>
  <2>1. 1 \in 1..Len(line)
    BY <1>2, <1>5
  <2> QED
    BY <1>1, <1>5, <2>1 DEF Range
<1> QED
  BY <1>4, <1>5

\* Whoever is of S leaves the line, and the others stay.
LEMMA RemainingIs ==
    ASSUME NEW T, NEW line \in Seq(T), NEW S
    PROVE  /\ Remaining(line, S) \in Seq(T)
           /\ Range(Remaining(line, S)) = Range(line) \ S
           /\ IsInjective(line) => IsInjective(Remaining(line, S))
<1> DEFINE N == Len(line)
           Next1(n, s) == IF line[n] \in S THEN s ELSE Append(s, line[n])
           Is(a, m) == a = [n \in 0..m |-> IF n = 0 THEN <<>>
                                            ELSE IF line[n] \in S THEN a[n - 1]
                                            ELSE Append(a[n - 1], line[n])]
           InFront(n) == {line[i] : i \in 1..n} \ S
           Good(n, s) == /\ s \in Seq(T) /\ Range(s) = InFront(n)
                         /\ IsInjective(line) => IsInjective(s)
           Done1(m) == \E a : Is(a, m) /\ \A n \in 0..m : Good(n, a[n])
<1>1. N \in Nat /\ DOMAIN line = 1..N /\ \A i \in 1..N : line[i] \in T
  BY LenProperties, ElementOfSeq
<1>2. \A n \in Nat : n <= N => Done1(n)
  <2> DEFINE M == {n \in Nat : n <= N => Done1(n)}
  <2>1. 0 \in M
    <3> DEFINE a == [n \in 0..0 |-> <<>>]
    <3>1. \A n \in 0..0 : n = 0
      OBVIOUS
    <3>2. Is(a, 0)
      BY <3>1
    <3>3. Good(0, <<>>)
      <4>1. <<>> \in Seq(T) /\ Range(<<>>) = {} /\ IsInjective(<<>>)
        BY EmptySeq DEF Range, IsInjective
      <4>2. InFront(0) = {}
        OBVIOUS
      <4> QED
        BY <4>1, <4>2
    <3> QED
      BY <3>1, <3>2, <3>3
  <2>2. ASSUME NEW m \in M PROVE m + 1 \in M
    <3> SUFFICES ASSUME m + 1 <= N PROVE Done1(m + 1)
      <4> HIDE DEF Done1
      <4> QED
        OBVIOUS
    <3>1. m \in Nat /\ m <= N /\ m + 1 \in 1..N
      BY <1>1
    <3>2. PICK a : Is(a, m) /\ \A n \in 0..m : Good(n, a[n])
      BY <3>1
    <3> DEFINE x == IF line[m + 1] \in S THEN a[m] ELSE Append(a[m], line[m + 1])
               b == [n \in 0..(m + 1) |-> IF n = m + 1 THEN x ELSE a[n]]
    <3>3. \A n \in 0..m : n \in 0..(m + 1) /\ n # m + 1
      BY <3>1
    <3>4. \A n \in 0..(m + 1) : n # m + 1 => n \in 0..m
      BY <3>1
    <3>5. m \in 0..m /\ m + 1 \in 0..(m + 1) /\ (m + 1) - 1 = m /\ m + 1 # 0
      BY <3>1
    <3>6. \A n \in 0..m : b[n] = a[n]
      BY <3>3
    <3>7. b[m + 1] = x
      BY <3>5
    <3>8. Is(b, m + 1)
      <4>1. ASSUME NEW n \in 0..(m + 1)
            PROVE  b[n] = IF n = 0 THEN <<>>
                          ELSE IF line[n] \in S THEN b[n - 1] ELSE Append(b[n - 1], line[n])
        <5>1. CASE n = m + 1
          <6>1. b[m] = a[m]
            BY <3>5, <3>6
          <6> HIDE DEF b
          <6> QED
            BY <5>1, <6>1, <3>5, <3>7
        <5>2. CASE n # m + 1 /\ n = 0
          <6>1. n \in 0..m /\ a[n] = <<>>
            BY <3>2, <3>4, <5>2
          <6> HIDE DEF b
          <6> QED
            BY <5>2, <6>1, <3>6
        <5>3. CASE n # m + 1 /\ n # 0
          <6>1. n \in 0..m /\ n - 1 \in 0..m
            BY <3>1, <3>4, <5>3
          <6>2. a[n] = IF line[n] \in S THEN a[n - 1] ELSE Append(a[n - 1], line[n])
            BY <3>2, <5>3, <6>1
          <6>3. b[n] = a[n] /\ b[n - 1] = a[n - 1]
            BY <3>6, <6>1
          <6> HIDE DEF b
          <6> QED
            BY <5>3, <6>2, <6>3
        <5> QED
          BY <5>1, <5>2, <5>3
      <4>2. b = [n \in 0..(m + 1) |-> b[n]]
        OBVIOUS
      <4> HIDE DEF b
      <4> QED
        BY <4>1, <4>2
    <3>9. InFront(m + 1) = InFront(m) \union ({line[m + 1]} \ S)
      <4>1. 1..(m + 1) = (1..m) \union {m + 1}
        BY <3>1
      <4> QED
        BY <4>1
    <3>10. Good(m + 1, x)
      <4>1. a[m] \in Seq(T) /\ Range(a[m]) = InFront(m) /\ (IsInjective(line) => IsInjective(a[m]))
        BY <3>2, <3>5
      <4>2. line[m + 1] \in T
        BY <1>1, <3>1
      <4>3. CASE line[m + 1] \in S
        BY <4>1, <4>3, <3>9
      <4>4. CASE line[m + 1] \notin S
        <5>1. /\ Append(a[m], line[m + 1]) \in Seq(T)
              /\ Range(Append(a[m], line[m + 1])) = Range(a[m]) \union {line[m + 1]}
              /\ IsInjective(a[m]) /\ line[m + 1] \notin Range(a[m])
                   => IsInjective(Append(a[m], line[m + 1]))
          BY <4>1, <4>2, AtTheEnd
        <5>2. IsInjective(line) => line[m + 1] \notin InFront(m)
          <6>1. \A i \in 1..m : i \in DOMAIN line /\ m + 1 \in DOMAIN line /\ i # m + 1
            BY <1>1, <3>1
          <6> QED
            BY <6>1 DEF IsInjective
        <5> HIDE DEF InFront
        <5>3. x = Append(a[m], line[m + 1])
          BY <4>4
        <5>4. Range(x) = InFront(m + 1)
          BY <4>1, <4>4, <5>1, <5>3, <3>9
        <5> QED
          BY <4>1, <5>1, <5>2, <5>3, <5>4
      <4> QED
        BY <4>3, <4>4
    <3>11. \A n \in 0..(m + 1) : Good(n, b[n])
      <4> HIDE DEF b, Good
      <4> QED
        BY <3>2, <3>4, <3>6, <3>7, <3>10
    <3> HIDE DEF b, Good, Is
    <3> QED
      BY <3>8, <3>11
  <2> HIDE DEF M
  <2>3. Nat \subseteq M
    BY <2>1, <2>2, CountUp
  <2> QED
    BY <2>3 DEF M
<1>3. PICK a : Is(a, N) /\ \A n \in 0..N : Good(n, a[n])
  <2>1. Done1(N)
    <3> HIDE DEF Done1
    <3> QED
      BY <1>1, <1>2
  <2> HIDE DEF Is, Good
  <2> QED
    BY <2>1
<1> DEFINE c == CHOOSE left : Is(left, N)
<1>4. Is(c, N)
  <2> HIDE DEF Is
  <2> QED
    BY <1>3
<1>5. Remaining(line, S) = c[N]
  BY DEF Remaining
<1> HIDE DEF c
<1>6. \A n \in Nat : n <= N => c[n] = a[n]
  <2> DEFINE M == {n \in Nat : n <= N => c[n] = a[n]}
  <2>1. 0 \in M
    BY <1>1, <1>3, <1>4
  <2>2. ASSUME NEW m \in M PROVE m + 1 \in M
    <3> SUFFICES ASSUME m + 1 <= N PROVE c[m + 1] = a[m + 1]
      OBVIOUS
    <3>1. m \in Nat /\ m <= N /\ m + 1 \in 0..N /\ m + 1 # 0 /\ (m + 1) - 1 = m
      BY <1>1
    <3>2. c[m] = a[m]
      BY <3>1
    <3>3. c[m + 1] = IF line[m + 1] \in S THEN c[m] ELSE Append(c[m], line[m + 1])
      BY <1>4, <3>1
    <3>4. a[m + 1] = IF line[m + 1] \in S THEN a[m] ELSE Append(a[m], line[m + 1])
      BY <1>3, <3>1
    <3> QED
      BY <3>2, <3>3, <3>4
  <2> HIDE DEF M
  <2>3. Nat \subseteq M
    BY <2>1, <2>2, CountUp
  <2> QED
    BY <2>3 DEF M
<1>7. N \in 0..N /\ c[N] = a[N]
  BY <1>1, <1>6
<1>8. Good(N, c[N])
  <2> HIDE DEF Good
  <2> QED
    BY <1>3, <1>7
<1>9. InFront(N) = Range(line) \ S
  BY <1>1 DEF Range
<1> QED
  BY <1>5, <1>8, <1>9

-----------------------------------------------------------------------------
(* What is queued, and how many. *)

\* The places of the queues of S are finitely many: those up to their lengths.
LEMMA PlacesAre ==
    ASSUME NEW Q \in [Partitions -> Seq(Offsets)], NEW S \in SUBSET Partitions
    PROVE  /\ IsFiniteSet(Places(Q, S)) /\ Cardinality(Places(Q, S)) \in Nat
           /\ \A x : x \in Places(Q, S) <=> x \in S \X (Nat \ {0}) /\ x[2] <= Len(Q[x[1]])
<1>1. \A p \in Partitions : DOMAIN Q[p] = 1..Len(Q[p]) /\ Len(Q[p]) \in Nat
  BY LenProperties
<1>2. \A x : x \in Places(Q, S) <=> x \in S \X (Nat \ {0}) /\ x[2] <= Len(Q[x[1]])
  <2> SUFFICES ASSUME NEW x
               PROVE  x \in Places(Q, S) <=> x \in S \X (Nat \ {0}) /\ x[2] <= Len(Q[x[1]])
    OBVIOUS
  <2>1. x \in Places(Q, S) <=> \E p \in S : x \in {p} \X (1..Len(Q[p]))
    BY <1>1 DEF Places
  <2> QED
    BY <2>1, <1>1
<1> DEFINE F == {{p} \X DOMAIN Q[p] : p \in S}
           f == [p \in S |-> {p} \X DOMAIN Q[p]]
<1>3. IsFiniteSet(S)
  BY ConsumptionAssumption, FS_Subset
<1>4. f \in Surjection(S, F)
  BY DEF Surjection
<1>5. IsFiniteSet(F)
  <2> HIDE DEF f, F
  <2> QED
    BY <1>3, <1>4, FS_Surjection
<1>6. \A X \in F : IsFiniteSet(X)
  <2> SUFFICES ASSUME NEW p \in S PROVE IsFiniteSet({p} \X DOMAIN Q[p])
    OBVIOUS
  <2>1. IsFiniteSet({p})
    BY FS_Singleton
  <2>2. Len(Q[p]) \in Nat /\ DOMAIN Q[p] = 1..Len(Q[p])
    BY <1>1
  <2>3. IsFiniteSet(1..Len(Q[p]))
    BY <2>2, FS_Interval
  <2> QED
    BY <2>1, <2>2, <2>3, FS_Product
<1>7. Places(Q, S) = UNION F
  BY DEF Places
<1>8. IsFiniteSet(Places(Q, S))
  <2> HIDE DEF F
  <2> QED
    BY <1>5, <1>6, <1>7, FS_UNION
<1> QED
  BY <1>2, <1>8, FS_CardinalityType

\* The places of all queues are finitely many.
LEMMA AllPlaces ==
    ASSUME NEW Q \in [Partitions -> Seq(Offsets)]
    PROVE  /\ IsFiniteSet(Places(Q, Partitions)) /\ Cardinality(Places(Q, Partitions)) \in Nat
           /\ \A x : x \in Places(Q, Partitions)
                     <=> x \in Partitions \X (Nat \ {0}) /\ x[2] <= Len(Q[x[1]])
<1>1. PICK S \in SUBSET Partitions : S = Partitions
  OBVIOUS
<1> QED
  BY <1>1, PlacesAre

\* A message more is a place more.
LEMMA OneMorePlace ==
    ASSUME NEW Q \in [Partitions -> Seq(Offsets)], NEW p \in Partitions, NEW o \in Offsets
    PROVE  /\ [Q EXCEPT ![p] = Append(@, o)] \in [Partitions -> Seq(Offsets)]
           /\ Cardinality(Places([Q EXCEPT ![p] = Append(@, o)], Partitions))
                = Cardinality(Places(Q, Partitions)) + 1
<1> DEFINE R == [Q EXCEPT ![p] = Append(@, o)]
           n == Len(Q[p])
           here == <<p, n + 1>>
<1>1. Append(Q[p], o) \in Seq(Offsets) /\ Len(Append(Q[p], o)) = n + 1
  BY AppendProperties
<1>2. R \in [Partitions -> Seq(Offsets)] /\ R[p] = Append(Q[p], o)
      /\ \A q \in Partitions : q # p => R[q] = Q[q]
  BY <1>1
<1>3. n \in Nat
  BY LenProperties
<1> HIDE DEF R
<1>4. \A x : x \in Places(R, Partitions) <=> x \in Places(Q, Partitions) \union {here}
  <2> SUFFICES ASSUME NEW x
               PROVE  x \in Places(R, Partitions) <=> x \in Places(Q, Partitions) \union {here}
    OBVIOUS
  <2>1. x \in Places(Q, Partitions) <=> x \in Partitions \X (Nat \ {0}) /\ x[2] <= Len(Q[x[1]])
    BY AllPlaces
  <2>2. x \in Places(R, Partitions) <=> x \in Partitions \X (Nat \ {0}) /\ x[2] <= Len(R[x[1]])
    <3>1. R \in [Partitions -> Seq(Offsets)]
      BY <1>2
    <3> QED
      BY <3>1, AllPlaces
  <2>3. \A i \in Nat \ {0} : i <= n + 1 <=> i <= n \/ i = n + 1
    BY <1>3
  <2> QED
    BY <2>1, <2>2, <2>3, <1>1, <1>2
<1>5. here \notin Places(Q, Partitions)
  <2>1. ~(n + 1 <= n)
    BY <1>3
  <2> QED
    BY <2>1, AllPlaces
<1>6. Places(R, Partitions) = Places(Q, Partitions) \union {here}
  BY <1>4
<1>7. IsFiniteSet(Places(Q, Partitions))
  BY AllPlaces
<1>8. Cardinality(Places(R, Partitions)) = Cardinality(Places(Q, Partitions)) + 1
  <2> HIDE DEF here
  <2> QED
    BY <1>5, <1>6, <1>7, FS_AddElement
<1> QED
  BY <1>2, <1>8 DEF R

\* A message less is a place less.
LEMMA OnePlaceLess ==
    ASSUME NEW Q \in [Partitions -> Seq(Offsets)], NEW p \in Partitions, Q[p] # <<>>
    PROVE  /\ [Q EXCEPT ![p] = Tail(@)] \in [Partitions -> Seq(Offsets)]
           /\ Cardinality(Places([Q EXCEPT ![p] = Tail(@)], Partitions))
                = Cardinality(Places(Q, Partitions)) - 1
           /\ Cardinality(Places(Q, Partitions)) \in Nat \ {0}
<1> DEFINE R == [Q EXCEPT ![p] = Tail(@)]
           n == Len(Q[p])
           here == <<p, n>>
<1>1. Tail(Q[p]) \in Seq(Offsets) /\ Len(Tail(Q[p])) = n - 1
  BY HeadTailProperties
<1>2. R \in [Partitions -> Seq(Offsets)] /\ R[p] = Tail(Q[p])
      /\ \A q \in Partitions : q # p => R[q] = Q[q]
  BY <1>1
<1>3. n \in Nat \ {0}
  BY EmptySeq
<1> HIDE DEF R
<1>4. \A x : x \in Places(R, Partitions) <=> x \in Places(Q, Partitions) \ {here}
  <2> SUFFICES ASSUME NEW x
               PROVE  x \in Places(R, Partitions) <=> x \in Places(Q, Partitions) \ {here}
    OBVIOUS
  <2>1. x \in Places(Q, Partitions) <=> x \in Partitions \X (Nat \ {0}) /\ x[2] <= Len(Q[x[1]])
    BY AllPlaces
  <2>2. x \in Places(R, Partitions) <=> x \in Partitions \X (Nat \ {0}) /\ x[2] <= Len(R[x[1]])
    <3>1. R \in [Partitions -> Seq(Offsets)]
      BY <1>2
    <3> QED
      BY <3>1, AllPlaces
  <2>3. \A i \in Nat \ {0} : i <= n - 1 <=> i <= n /\ i # n
    BY <1>3
  <2>4. CASE x \in Partitions \X (Nat \ {0})
    <3>1. PICK q \in Partitions, i \in Nat \ {0} : x = <<q, i>>
      BY <2>4
    <3>2. x[1] = q /\ x[2] = i /\ (x = here <=> q = p /\ i = n)
      BY <3>1
    <3>3. CASE q = p
      <4>1. Len(R[q]) = n - 1 /\ Len(Q[q]) = n
        BY <3>3, <1>1, <1>2
      <4>2. x \in Places(R, Partitions) <=> i <= n - 1
        BY <2>2, <2>4, <3>2, <4>1
      <4>3. x \in Places(Q, Partitions) <=> i <= n
        BY <2>1, <2>4, <3>2, <4>1
      <4> QED
        BY <4>2, <4>3, <3>2, <3>3, <2>3
    <3>4. CASE q # p
      BY <2>1, <2>2, <2>4, <3>2, <3>4, <1>2
    <3> QED
      BY <3>3, <3>4
  <2> QED
    BY <2>1, <2>2, <2>4
<1>5. here \in Places(Q, Partitions)
  <2>1. n <= n /\ here \in Partitions \X (Nat \ {0})
    BY <1>3
  <2> QED
    BY <2>1, AllPlaces
<1>6. Places(R, Partitions) = Places(Q, Partitions) \ {here}
  BY <1>4
<1>7. IsFiniteSet(Places(Q, Partitions)) /\ Cardinality(Places(Q, Partitions)) \in Nat
  BY AllPlaces
<1>8. Cardinality(Places(R, Partitions)) = Cardinality(Places(Q, Partitions)) - 1
  <2> HIDE DEF here
  <2> QED
    BY <1>5, <1>6, <1>7, FS_RemoveElement
<1>9. Cardinality(Places(Q, Partitions)) # 0
  BY <1>5, <1>7, FS_EmptySet
<1> QED
  BY <1>2, <1>7, <1>8, <1>9 DEF R

\* The places of dropped queues are those there are no more.
LEMMA PlacesDropped ==
    ASSUME NEW Q \in [Partitions -> Seq(Offsets)], NEW S \in SUBSET Partitions
    PROVE  LET R == [p \in Partitions |-> IF p \in S THEN <<>> ELSE Q[p]]
           IN  /\ R \in [Partitions -> Seq(Offsets)]
               /\ Cardinality(Places(R, Partitions))
                    = Cardinality(Places(Q, Partitions)) - Cardinality(Places(Q, S))
               /\ Cardinality(Places(R, Partitions)) \in Nat /\ Cardinality(Places(Q, S)) \in Nat
<1> DEFINE R == [p \in Partitions |-> IF p \in S THEN <<>> ELSE Q[p]]
<1>1. <<>> \in Seq(Offsets) /\ Len(<<>>) = 0
  BY EmptySeq
<1>2. R \in [Partitions -> Seq(Offsets)] /\ \A q \in Partitions : R[q] = IF q \in S THEN <<>> ELSE Q[q]
  BY <1>1
<1> HIDE DEF R
<1>3. \A x : x \in Places(R, Partitions) <=> x \in Places(Q, Partitions) \ Places(Q, S)
  <2> SUFFICES ASSUME NEW x
               PROVE  x \in Places(R, Partitions) <=> x \in Places(Q, Partitions) \ Places(Q, S)
    OBVIOUS
  <2>1. x \in Places(Q, Partitions) <=> x \in Partitions \X (Nat \ {0}) /\ x[2] <= Len(Q[x[1]])
    BY AllPlaces
  <2>2. x \in Places(R, Partitions) <=> x \in Partitions \X (Nat \ {0}) /\ x[2] <= Len(R[x[1]])
    <3>1. R \in [Partitions -> Seq(Offsets)]
      BY <1>2
    <3> QED
      BY <3>1, AllPlaces
  <2>3. x \in Places(Q, S) <=> x \in S \X (Nat \ {0}) /\ x[2] <= Len(Q[x[1]])
    BY PlacesAre
  <2>4. \A q \in S : Len(R[q]) = 0
    BY <1>1, <1>2
  <2> QED
    BY <2>1, <2>2, <2>3, <2>4, <1>2
<1>4. Places(R, Partitions) = Places(Q, Partitions) \ Places(Q, S)
  BY <1>3
<1>5. Places(Q, Partitions) \cap Places(Q, S) = Places(Q, S)
  BY DEF Places
<1>6. IsFiniteSet(Places(Q, Partitions))
  BY PlacesAre
<1>7. Cardinality(Places(R, Partitions))
        = Cardinality(Places(Q, Partitions)) - Cardinality(Places(Q, S))
  <2>1. Cardinality(Places(Q, Partitions) \ Places(Q, S))
          = Cardinality(Places(Q, Partitions)) - Cardinality(Places(Q, Partitions) \cap Places(Q, S))
    BY <1>6, FS_Difference
  <2> QED
    BY <2>1, <1>4, <1>5
<1>8. Cardinality(Places(R, Partitions)) \in Nat /\ Cardinality(Places(Q, S)) \in Nat
  BY <1>2, PlacesAre
<1> QED
  BY <1>2, <1>7, <1>8 DEF R

-----------------------------------------------------------------------------
(* The line. *)

\* What the constants are, and the sizes of sets of partitions.
LEMMA BoundsAre ==
    /\ Concurrency \in Nat \ {0} /\ bufferedMessages \in Nat \ {0} /\ ClientBuffer \in Nat \ {0}
    /\ MaxTroubles \in Nat /\ Records \in [Partitions -> Nat] /\ IsFiniteSet(Partitions)
    /\ \A S \in SUBSET Partitions : IsFiniteSet(S) /\ Cardinality(S) \in Nat
<1>1. IsFiniteSet(Partitions)
  BY ConsumptionAssumption
<1>2. \A S \in SUBSET Partitions : IsFiniteSet(S) /\ Cardinality(S) \in Nat
  BY <1>1, FS_Subset, FS_CardinalityType
<1> QED
  BY <1>1, <1>2, ConsumptionAssumption

\* The running partitions are finitely many, those with a record in delivery.
LEMMA RunningAre ==
    ASSUME NEW g
    PROVE  /\ Running(g) \subseteq Partitions /\ Cardinality(Running(g)) \in Nat
           /\ \A p \in Partitions : p \in Running(g) <=> g.running[p] # 0
<1>1. Running(g) \subseteq Partitions /\ \A p \in Partitions : p \in Running(g) <=> g.running[p] # 0
  BY DEF Running
<1> QED
  BY <1>1, BoundsAre

\* What a turn leaves alone.
Alike(g, h) == h.paused = g.paused /\ h.lastQueued = g.lastQueued /\ h.keys = g.keys

Still(g, h) == h.running = g.running /\ h.queues = g.queues /\ h.queued = g.queued

\* The first of the queue of p goes to the core.
Began(g, h, p) ==
    /\ Ready(g, p) /\ Cardinality(Running(g)) < Concurrency
    /\ h.running = [g.running EXCEPT ![p] = Head(g.queues[p])]
    /\ h.queues = [g.queues EXCEPT ![p] = Tail(@)]
    /\ h.queued = g.queued - 1

\* markReady() puts p in line if it may go on, and changes nothing else.
LEMMA MarkReadyKeeps ==
    ASSUME NEW g \in Gates, Fit(g), NEW p \in Partitions, NEW h, h = MarkReady(g, p)
    PROVE  /\ h \in Gates /\ Fit(h) /\ Alike(g, h) /\ Still(g, h) /\ h.epochs = g.epochs
           /\ Range(h.ready) = Range(g.ready) \union {q \in {p} : Ready(g, q)}
<1>1. g.ready \in Seq(Partitions) /\ g.queues \in [Partitions -> Seq(Offsets)]
  BY DEF Gates
<1>2. \A q \in Range(g.ready) : Ready(g, q)
  BY DEF Fit, Ready
<1>3. CASE p \in Range(g.ready) \/ ~Ready(g, p)
  <2>1. h = g
    BY <1>3, <1>2, RunningAre DEF MarkReady, Ready
  <2> QED
    BY <2>1, <1>2, <1>3 DEF Alike, Still
<1>4. CASE p \notin Range(g.ready) /\ Ready(g, p)
  <2>1. h = [g EXCEPT !.ready = Append(@, p)]
    BY <1>4, RunningAre DEF MarkReady, Ready
  <2>2. /\ Append(g.ready, p) \in Seq(Partitions)
        /\ Range(Append(g.ready, p)) = Range(g.ready) \union {p}
        /\ IsInjective(Append(g.ready, p))
    BY <1>1, <1>4, AtTheEnd DEF Fit
  <2>3. h \in Gates
    BY <2>1, <2>2 DEF Gates
  <2>4. /\ h.ready = Append(g.ready, p) /\ h.queues = g.queues /\ h.running = g.running
        /\ h.queued = g.queued /\ h.paused = g.paused /\ h.lastQueued = g.lastQueued
        /\ h.keys = g.keys /\ h.epochs = g.epochs
    BY <2>1 DEF Gates
  <2>5. Running(h) = Running(g)
    BY <2>4 DEF Running
  <2>6. Fit(h)
    BY <2>2, <2>4, <2>5, <1>4 DEF Fit, Ready
  <2> QED
    BY <2>2, <2>3, <2>4, <2>6, <1>4 DEF Alike, Still
<1> QED
  BY <1>3, <1>4

\* The first in line is owned, and begins.
LEMMA DispatchOneKeeps ==
    ASSUME NEW g \in Gates, Fit(g), g.ready # <<>>, Cardinality(Running(g)) < Concurrency,
           \A q \in Partitions : g.queues[q] # <<>> => q \in assignments,
           NEW h, h = DispatchOne(g)
    PROVE  LET p == Head(g.ready)
           IN  /\ p \in Partitions /\ p \in Range(g.ready)
               /\ h \in Gates /\ Fit(h) /\ Alike(g, h) /\ Began(g, h, p)
               /\ Range(h.ready) = Range(g.ready) \ {p}
               /\ Cardinality(Running(h)) = Cardinality(Running(g)) + 1
<1> DEFINE p == Head(g.ready)
<1>1. g.ready \in Seq(Partitions) /\ g.queues \in [Partitions -> Seq(Offsets)] /\ g.epochs \subseteq Partitions
      /\ g.running \in [Partitions -> Offsets \union {0}] /\ g.queued \in Nat
  BY DEF Gates
<1>2. /\ Tail(g.ready) \in Seq(Partitions) /\ p \in Range(g.ready) /\ p \in Partitions
      /\ Range(Tail(g.ready)) = Range(g.ready) \ {p} /\ IsInjective(Tail(g.ready))
  BY <1>1, TheRestOfTheLine DEF Fit
<1>3. g.queues[p] # <<>> /\ g.running[p] = 0 /\ p \notin g.paused /\ p \in assignments
  BY <1>2 DEF Fit
<1> DEFINE o == Head(g.queues[p])
<1>4. o \in Offsets
  BY <1>1, <1>2, <1>3, HeadTailProperties
<1>5. /\ [g.queues EXCEPT ![p] = Tail(@)] \in [Partitions -> Seq(Offsets)]
      /\ Cardinality(Places([g.queues EXCEPT ![p] = Tail(@)], Partitions))
           = Cardinality(Places(g.queues, Partitions)) - 1
      /\ Cardinality(Places(g.queues, Partitions)) \in Nat \ {0}
  <2> HIDE DEF p
  <2> QED
    BY <1>1, <1>2, <1>3, OnePlaceLess
<1> HIDE DEF p, o
<1>6. h = [[[g EXCEPT !.ready = Tail(@)] EXCEPT !.queues[p] = Tail(@), !.queued = @ - 1]
             EXCEPT !.running[p] = o, !.epochs = @ \union {p}]
  BY <1>3 DEF DispatchOne, Take, p, o, Gates
<1>7. /\ h.ready = Tail(g.ready) /\ h.queues = [g.queues EXCEPT ![p] = Tail(@)]
      /\ h.running = [g.running EXCEPT ![p] = o] /\ h.queued = g.queued - 1
      /\ h.paused = g.paused /\ h.lastQueued = g.lastQueued /\ h.keys = g.keys
      /\ h.epochs = g.epochs \union {p}
  BY <1>6 DEF Gates
<1>8. g.queued = Cardinality(Places(g.queues, Partitions))
  BY DEF Fit
<1>9. h \in Gates
  <2>1. g.queued - 1 \in Nat
    BY <1>5, <1>8
  <2>2. [g.running EXCEPT ![p] = o] \in [Partitions -> Offsets \union {0}]
    BY <1>1, <1>4
  <2>3. g.epochs \union {p} \subseteq Partitions
    BY <1>1, <1>2
  <2>4. h = [queues |-> h.queues, keys |-> h.keys, ready |-> h.ready, running |-> h.running,
             queued |-> h.queued, paused |-> h.paused, lastQueued |-> h.lastQueued, epochs |-> h.epochs]
    BY <1>6 DEF Gates
  <2>5. g.keys \subseteq Partitions /\ g.paused \subseteq Partitions
        /\ g.lastQueued \in [Partitions -> Offsets \union {0}]
    BY DEF Gates
  <2> QED
    BY <2>1, <2>2, <2>3, <2>4, <2>5, <1>2, <1>5, <1>7 DEF Gates
<1>10. Running(h) = Running(g) \union {p} /\ p \notin Running(g)
  BY <1>1, <1>2, <1>3, <1>4, <1>7, OffsetsAre DEF Running
<1>11. Cardinality(Running(h)) = Cardinality(Running(g)) + 1
  <2>1. IsFiniteSet(Running(g))
    BY RunningAre, BoundsAre
  <2> QED
    BY <1>10, <2>1, FS_AddElement
<1>12. Fit(h)
  <2>1. Cardinality(Running(h)) <= Concurrency
    BY <1>11, RunningAre, BoundsAre
  <2>2. \A q \in Partitions : q # p => h.queues[q] = g.queues[q] /\ h.running[q] = g.running[q]
    BY <1>1, <1>7
  <2>3. Range(g.ready) \subseteq Partitions
    BY <1>1 DEF Range
  <2>4. \A q \in Range(h.ready) : h.queues[q] # <<>> /\ h.running[q] = 0 /\ q \notin h.paused
    BY <1>2, <1>7, <2>2, <2>3 DEF Fit
  <2>5. h.queued = Cardinality(Places(h.queues, Partitions))
    BY <1>5, <1>7, <1>8
  <2>6. \A q \in Partitions : h.queues[q] # <<>> => q \in h.keys
    BY <1>2, <1>3, <1>7, <2>2 DEF Fit
  <2> QED
    BY <2>1, <2>4, <2>5, <2>6, <1>2, <1>7 DEF Fit
<1>13. Began(g, h, p)
  BY <1>3, <1>7 DEF Began, Ready, o
<1> QED
  BY <1>2, <1>7, <1>9, <1>11, <1>12, <1>13 DEF p, Alike

\* A dispatch that comes to rest after one turn, or at once.
LEMMA Turns ==
    ASSUME NEW g \in Gates, NEW h, h = DispatchOne(g), ~stopped
    PROVE  /\ ~(SlotFree(g) /\ g.ready # <<>>) => Dispatch(g) = g
           /\ SlotFree(g) /\ g.ready # <<>> /\ ~(SlotFree(h) /\ h.ready # <<>>) => Dispatch(g) = h
<1> DEFINE Go(x) == SlotFree(x) /\ x.ready # <<>>
           Is(t) == t = [n \in Nat |-> IF n = 0 THEN g
                                       ELSE IF Go(t[n - 1]) THEN DispatchOne(t[n - 1]) ELSE t[n - 1]]
           c == CHOOSE turn : Is(turn)
           N == Len(g.ready) + g.queued
<1>1. Dispatch(g) = c[N]
  BY DEF Dispatch
<1>2. N \in Nat /\ (g.ready # <<>> => N >= 1)
  <2>1. g.ready \in Seq(Partitions) /\ g.queued \in Nat
    BY DEF Gates
  <2>2. Len(g.ready) \in Nat /\ (g.ready # <<>> => Len(g.ready) \in Nat \ {0})
    BY <2>1, LenProperties, EmptySeq
  <2> QED
    BY <2>1, <2>2
<1> HIDE DEF Go, N
<1>3. ASSUME NEW x, x = IF Go(g) THEN h ELSE g, ~Go(x)
      PROVE  c[0] = g /\ \A n \in Nat : n >= 1 => c[n] = x
  <2> DEFINE w == [n \in Nat |-> IF n = 0 THEN g ELSE x]
  <2>1. \A n \in Nat : w[n] = IF n = 0 THEN g ELSE IF Go(w[n - 1]) THEN DispatchOne(w[n - 1]) ELSE w[n - 1]
    <3> SUFFICES ASSUME NEW n \in Nat
                 PROVE  w[n] = IF n = 0 THEN g ELSE IF Go(w[n - 1]) THEN DispatchOne(w[n - 1]) ELSE w[n - 1]
      OBVIOUS
    <3>1. CASE n = 0
      BY <3>1
    <3>2. CASE n = 1
      <4>1. w[n - 1] = g /\ w[n] = x /\ n # 0
        BY <3>2
      <4> HIDE DEF w
      <4> QED
        BY <4>1, <1>3
    <3>3. CASE n # 0 /\ n # 1
      <4>1. n - 1 \in Nat /\ n - 1 # 0
        BY <3>3
      <4>2. w[n - 1] = x /\ w[n] = x
        BY <4>1, <3>3
      <4> HIDE DEF w
      <4> QED
        BY <4>2, <3>3, <1>3
    <3> QED
      BY <3>1, <3>2, <3>3
  <2>2. Is(w)
    <3>1. w = [n \in Nat |-> w[n]]
      OBVIOUS
    <3> HIDE DEF w
    <3> QED
      BY <2>1, <3>1
  <2>3. Is(c)
    <3> HIDE DEF Is, w
    <3> QED
      BY <2>2
  <2> HIDE DEF c
  <2>4. c[0] = g /\ \A n \in Nat : c[n + 1] = IF Go(c[n]) THEN DispatchOne(c[n]) ELSE c[n]
    <3>1. c[0] = g
      BY <2>3
    <3>2. ASSUME NEW n \in Nat PROVE c[n + 1] = IF Go(c[n]) THEN DispatchOne(c[n]) ELSE c[n]
      <4>1. n + 1 \in Nat /\ n + 1 # 0 /\ (n + 1) - 1 = n
        OBVIOUS
      <4> QED
        BY <2>3, <4>1
    <3> QED
      BY <3>1, <3>2
  <2> DEFINE M == {n \in Nat : c[n + 1] = x}
  <2>5. 0 \in M
    BY <2>4, <1>3
  <2>6. \A n \in M : n + 1 \in M
    BY <2>4, <1>3
  <2>7. Nat \subseteq M
    <3> HIDE DEF M
    <3> QED
      BY <2>5, <2>6, CountUp
  <2> SUFFICES ASSUME NEW n \in Nat, n >= 1 PROVE c[n] = x
    BY <2>4
  <2>8. n - 1 \in Nat /\ (n - 1) + 1 = n
    OBVIOUS
  <2> QED
    BY <2>7, <2>8
<1> HIDE DEF c
<1>4. CASE ~Go(g)
  <2>1. c[0] = g /\ \A n \in Nat : n >= 1 => c[n] = g
    BY <1>3, <1>4
  <2>2. c[N] = g
    BY <1>2, <2>1
  <2> QED
    BY <1>1, <1>4, <2>2 DEF Go
<1>5. CASE Go(g) /\ ~Go(h)
  <2>1. \A n \in Nat : n >= 1 => c[n] = h
    BY <1>3, <1>5
  <2>2. N >= 1
    BY <1>2, <1>5 DEF Go
  <2>3. c[N] = h
    BY <1>2, <2>1, <2>2
  <2> QED
    BY <1>1, <1>5, <2>3 DEF Go
<1> QED
  BY <1>4, <1>5 DEF Go

\* p may go on: it does, or whoever is before it, or a slot is missing.
LEMMA FlowsIs ==
    ASSUME NEW g \in Gates, Fit(g), NEW p \in Partitions, ~stopped,
           \A q \in Partitions : g.queues[q] # <<>> => q \in assignments,
           \A q \in Partitions \ {p} : Ready(g, q) => q \in Range(g.ready),
           Cardinality(Running(g)) + 1 < Concurrency => g.ready = <<>>,
           NEW h, h = Flows(g, p)
    PROVE  /\ h \in Gates /\ Fit(h) /\ InLine(h) /\ Alike(g, h)
           /\ \/ Still(g, h)
              \/ \E q \in Range(g.ready) \union {p} : q \in Partitions /\ Began(g, h, q)
<1> DEFINE m == MarkReady(g, p)
           n == Cardinality(Running(g))
<1>1. /\ m \in Gates /\ Fit(m) /\ Alike(g, m) /\ Still(g, m)
      /\ Range(m.ready) = Range(g.ready) \union {q \in {p} : Ready(g, q)}
  BY MarkReadyKeeps
<1> HIDE DEF m
<1>2. Running(m) = Running(g) /\ \A q \in Partitions : Ready(m, q) <=> Ready(g, q)
  BY <1>1 DEF Alike, Still, Running, Ready
<1>3. h = Dispatch(m)
  BY DEF Flows, m
<1>4. \A q \in Partitions : Ready(m, q) => q \in Range(m.ready)
  BY <1>1, <1>2
<1>5. g.ready \in Seq(Partitions) /\ m.ready \in Seq(Partitions)
  BY <1>1 DEF Gates
<1>6. n \in Nat /\ n <= Concurrency /\ Concurrency \in Nat \ {0}
  BY RunningAre, BoundsAre DEF Fit
<1>7. CASE SlotFree(m) /\ m.ready # <<>>
  <2> DEFINE d == DispatchOne(m)
             q == Head(m.ready)
  <2>1. n < Concurrency
    BY <1>2, <1>7 DEF SlotFree
  <2>2. \A r \in Partitions : m.queues[r] # <<>> => r \in assignments
    BY <1>1 DEF Still
  <2>3. /\ q \in Partitions /\ q \in Range(m.ready)
        /\ d \in Gates /\ Fit(d) /\ Alike(m, d) /\ Began(m, d, q)
        /\ Range(d.ready) = Range(m.ready) \ {q}
        /\ Cardinality(Running(d)) = n + 1
    BY <1>1, <1>2, <1>7, <2>1, <2>2, DispatchOneKeeps
  <2> HIDE DEF d, q
  <2>4. Cardinality(Running(d)) < Concurrency => d.ready = <<>>
    <3> SUFFICES ASSUME n + 1 < Concurrency PROVE d.ready = <<>>
      BY <2>3
    <3>1. Range(g.ready) = {}
      BY <1>5, NobodyIn
    <3>2. Range(d.ready) = {}
      BY <1>1, <2>3, <3>1
    <3>3. d.ready \in Seq(Partitions)
      BY <2>3 DEF Gates
    <3> QED
      BY <3>2, <3>3, NobodyIn
  <2>5. ~(SlotFree(d) /\ d.ready # <<>>)
    BY <2>4 DEF SlotFree
  <2>6. h = d
    BY <1>1, <1>3, <1>7, <2>5, Turns DEF d
  <2>7. \A r \in Partitions : Ready(d, r) => r \in Range(d.ready)
    <3> SUFFICES ASSUME NEW r \in Partitions, Ready(d, r) PROVE r \in Range(d.ready)
      OBVIOUS
    <3>1. d.running = [m.running EXCEPT ![q] = Head(m.queues[q])]
          /\ d.queues = [m.queues EXCEPT ![q] = Tail(@)] /\ d.paused = m.paused
      BY <2>3 DEF Began, Alike
    <3>2. /\ m.running \in [Partitions -> Offsets \union {0}]
          /\ m.queues \in [Partitions -> Seq(Offsets)] /\ m.queues[q] # <<>>
      BY <1>1, <2>3 DEF Gates, Began, Ready
    <3>3. Head(m.queues[q]) \in Offsets
      BY <2>3, <3>2, HeadTailProperties
    <3>4. d.running[q] # 0
      BY <2>3, <3>1, <3>2, <3>3, OffsetsAre
    <3>5. r # q
      BY <3>4 DEF Ready
    <3>6. Ready(m, r)
      BY <3>1, <3>2, <3>5, <2>3 DEF Ready
    <3> QED
      BY <1>4, <2>3, <3>5, <3>6
  <2>8. InLine(d)
    BY <2>4, <2>7 DEF InLine
  <2>9. Alike(g, d)
    BY <1>1, <2>3 DEF Alike
  <2>10. Began(g, d, q)
    BY <1>1, <1>2, <2>3 DEF Began, Still
  <2>11. q \in Range(g.ready) \union {p}
    BY <1>1, <2>3
  <2> QED
    BY <2>3, <2>6, <2>8, <2>9, <2>10, <2>11
<1>8. CASE ~(SlotFree(m) /\ m.ready # <<>>)
  <2>1. h = m
    BY <1>1, <1>3, <1>8, Turns
  <2>2. InLine(m)
    BY <1>4, <1>8 DEF InLine, SlotFree
  <2> QED
    BY <1>1, <2>1, <2>2
<1> QED
  BY <1>7, <1>8

-----------------------------------------------------------------------------
(* What goes, and what comes in. *)

\* discard() drops the queues of S, their places in line and in the count.
LEMMA DiscardKeeps ==
    ASSUME NEW g \in Gates, Fit(g), NEW S \in SUBSET Partitions, NEW h, h = Discard(g, S)
    PROVE  /\ h \in Gates /\ Fit(h) /\ (InLine(g) => InLine(h))
           /\ h.queues = [p \in Partitions |-> IF p \in S THEN <<>> ELSE g.queues[p]]
           /\ h.running = g.running /\ h.paused = g.paused /\ h.lastQueued = g.lastQueued
           /\ h.epochs = g.epochs /\ h.keys = g.keys \ S
           /\ h.queued <= g.queued
<1> DEFINE Q == [p \in Partitions |-> IF p \in S THEN <<>> ELSE g.queues[p]]
           R == Remaining(g.ready, S)
           n == g.queued - Cardinality(Places(g.queues, S))
<1>1. g.ready \in Seq(Partitions) /\ g.queues \in [Partitions -> Seq(Offsets)] /\ g.keys \subseteq Partitions
      /\ g.queued \in Nat /\ g.running \in [Partitions -> Offsets \union {0}]
      /\ g.epochs \subseteq Partitions /\ g.paused \subseteq Partitions
      /\ g.lastQueued \in [Partitions -> Offsets \union {0}]
  BY DEF Gates
<1>2. /\ Q \in [Partitions -> Seq(Offsets)]
      /\ Cardinality(Places(Q, Partitions))
           = Cardinality(Places(g.queues, Partitions)) - Cardinality(Places(g.queues, S))
      /\ Cardinality(Places(Q, Partitions)) \in Nat /\ Cardinality(Places(g.queues, S)) \in Nat
  BY <1>1, PlacesDropped
<1>3. R \in Seq(Partitions) /\ Range(R) = Range(g.ready) \ S /\ IsInjective(R)
  BY <1>1, RemainingIs DEF Fit
<1>4. n = Cardinality(Places(Q, Partitions)) /\ n \in Nat /\ n <= g.queued
  BY <1>1, <1>2 DEF Fit
<1>5. h = [g EXCEPT !.queues = Q, !.queued = n, !.ready = R, !.keys = @ \ S]
  BY DEF Discard
<1>6. \A q \in Partitions : Q[q] = IF q \in S THEN <<>> ELSE g.queues[q]
  OBVIOUS
<1> HIDE DEF Q, R, n
<1>7. /\ h.queues = Q /\ h.queued = n /\ h.ready = R /\ h.keys = g.keys \ S
      /\ h.running = g.running /\ h.paused = g.paused /\ h.lastQueued = g.lastQueued
      /\ h.epochs = g.epochs
  BY <1>5 DEF Gates
<1>8. h \in Gates
  <2>1. h = [queues |-> h.queues, keys |-> h.keys, ready |-> h.ready, running |-> h.running,
             queued |-> h.queued, paused |-> h.paused, lastQueued |-> h.lastQueued, epochs |-> h.epochs]
    BY <1>5 DEF Gates
  <2> QED
    BY <2>1, <1>1, <1>2, <1>3, <1>4, <1>7 DEF Gates
<1>9. Running(h) = Running(g)
  BY <1>7 DEF Running
<1>10. Range(g.ready) \subseteq Partitions
  BY <1>1 DEF Range
<1>11. Fit(h)
  <2>1. \A q \in Range(h.ready) : h.queues[q] # <<>> /\ h.running[q] = 0 /\ q \notin h.paused
    BY <1>3, <1>6, <1>7, <1>10 DEF Fit
  <2>2. \A q \in Partitions : h.queues[q] # <<>> => q \in h.keys
    BY <1>6, <1>7 DEF Fit
  <2>3. h.queued = Cardinality(Places(h.queues, Partitions))
    BY <1>4, <1>7
  <2> QED
    BY <2>1, <2>2, <2>3, <1>3, <1>7, <1>9 DEF Fit
<1>12. InLine(g) => InLine(h)
  <2> SUFFICES ASSUME InLine(g) PROVE InLine(h)
    OBVIOUS
  <2>1. \A q \in Partitions : Ready(h, q) => Ready(g, q) /\ q \notin S
    BY <1>6, <1>7 DEF Ready
  <2>2. \A q \in Partitions : Ready(h, q) => q \in Range(h.ready)
    BY <2>1, <1>3, <1>7 DEF InLine
  <2>3. g.ready = <<>> => h.ready = <<>>
    BY <1>1, <1>3, <1>7, NobodyIn
  <2> QED
    BY <2>2, <2>3, <1>9 DEF InLine
<1> QED
  BY <1>4, <1>7, <1>8, <1>11, <1>12 DEF Q

\* discard() with forget also drops what was known of S.
LEMMA ForgetKeeps ==
    ASSUME NEW g \in Gates, Fit(g), NEW S \in SUBSET Partitions, NEW h, h = Forget(g, S),
           \A p \in S : g.queues[p] = <<>>
    PROVE  /\ h \in Gates /\ Fit(h) /\ (InLine(g) => InLine(h))
           /\ h.queues = g.queues /\ h.running = g.running /\ h.paused = g.paused \ S
           /\ h.lastQueued = [p \in Partitions |-> IF p \in S THEN 0 ELSE g.lastQueued[p]]
           /\ h.queued = g.queued /\ h.keys = g.keys
<1> DEFINE L == [p \in Partitions |-> IF p \in S THEN 0 ELSE g.lastQueued[p]]
<1>1. h = [g EXCEPT !.lastQueued = L, !.epochs = @ \ S, !.paused = @ \ S]
  BY DEF Forget
<1>2. g.lastQueued \in [Partitions -> Offsets \union {0}]
  BY DEF Gates
<1>3. L \in [Partitions -> Offsets \union {0}]
  BY <1>2
<1> HIDE DEF L
<1>4. /\ h.queues = g.queues /\ h.queued = g.queued /\ h.ready = g.ready /\ h.keys = g.keys
      /\ h.running = g.running /\ h.paused = g.paused \ S /\ h.lastQueued = L
      /\ h.epochs = g.epochs \ S
  BY <1>1 DEF Gates
<1>5. h \in Gates
  BY <1>1, <1>3 DEF Gates
<1>6. Running(h) = Running(g)
  BY <1>4 DEF Running
<1>7. Fit(h)
  BY <1>4, <1>6 DEF Fit
<1>8. InLine(g) => InLine(h)
  BY <1>4, <1>6 DEF InLine, Ready
<1> QED
  BY <1>4, <1>5, <1>7, <1>8 DEF L

\* rotate() drops every queue and what was queued last.
LEMMA RotatedKeeps ==
    ASSUME NEW g \in Gates, Fit(g), NEW h, h = Rotated(g)
    PROVE  /\ h \in Gates /\ Fit(h) /\ (InLine(g) => InLine(h))
           /\ h.queues = [p \in Partitions |-> <<>>] /\ h.running = g.running /\ h.paused = g.paused
           /\ h.lastQueued = [p \in Partitions |-> 0] /\ h.queued <= g.queued
<1> DEFINE d == Discard(g, g.keys)
           L == [p \in Partitions |-> 0]
<1>1. g.keys \in SUBSET Partitions
  BY DEF Gates
<1>2. /\ d \in Gates /\ Fit(d) /\ (InLine(g) => InLine(d))
      /\ d.queues = [p \in Partitions |-> IF p \in g.keys THEN <<>> ELSE g.queues[p]]
      /\ d.running = g.running /\ d.paused = g.paused /\ d.queued <= g.queued
  <2> HIDE DEF d
  <2> QED
    BY <1>1, DiscardKeeps DEF d
<1>3. h = [d EXCEPT !.lastQueued = L]
  BY DEF Rotated
<1>4. L \in [Partitions -> Offsets \union {0}]
  OBVIOUS
<1> HIDE DEF d, L
<1>5. /\ h.queues = d.queues /\ h.queued = d.queued /\ h.ready = d.ready /\ h.keys = d.keys
      /\ h.running = d.running /\ h.paused = d.paused /\ h.lastQueued = L
  BY <1>2, <1>3 DEF Gates
<1>6. h \in Gates
  BY <1>2, <1>3, <1>4 DEF Gates
<1>7. Running(h) = Running(d)
  BY <1>5 DEF Running
<1>8. Fit(h)
  BY <1>2, <1>5, <1>7 DEF Fit
<1>9. InLine(g) => InLine(h)
  BY <1>2, <1>5, <1>7 DEF InLine, Ready
<1>10. \A p \in Partitions : p \notin g.keys => g.queues[p] = <<>>
  BY DEF Fit
<1>11. h.queues = [p \in Partitions |-> <<>>]
  BY <1>2, <1>5, <1>10
<1> QED
  BY <1>2, <1>5, <1>6, <1>8, <1>9, <1>11 DEF L

\* A message of an owned partition comes in, after those before it.
LEMMA EnqueuedIs ==
    ASSUME NEW g \in Gates, Fit(g), InLine(g), ~stopped,
           \A q \in Partitions : g.queues[q] # <<>> => q \in assignments,
           NEW p \in Partitions, p \in assignments, NEW o \in Offsets, o > g.lastQueued[p],
           NEW h, h = Enqueued(g, p, o)
    PROVE  \E e \in Gates :
             /\ Fit(e)
             /\ e.queues = [g.queues EXCEPT ![p] = Append(@, o)]
             /\ e.lastQueued = [g.lastQueued EXCEPT ![p] = o]
             /\ e.running = g.running /\ e.paused = g.paused /\ e.queued = g.queued + 1
             /\ h \in Gates /\ Fit(h) /\ InLine(h) /\ Alike(e, h)
             /\ Still(e, h) \/ Began(e, h, p)
<1> DEFINE Q == [g.queues EXCEPT ![p] = Append(@, o)]
           L == [g.lastQueued EXCEPT ![p] = o]
           e == [g EXCEPT !.lastQueued[p] = o, !.queues[p] = Append(@, o),
                          !.keys = @ \union {p}, !.queued = @ + 1]
<1>1. g.ready \in Seq(Partitions) /\ g.queues \in [Partitions -> Seq(Offsets)] /\ g.keys \subseteq Partitions
      /\ g.queued \in Nat /\ g.running \in [Partitions -> Offsets \union {0}]
      /\ g.epochs \subseteq Partitions /\ g.paused \subseteq Partitions
      /\ g.lastQueued \in [Partitions -> Offsets \union {0}]
  BY DEF Gates
<1>2. h = Flows(e, p)
  <2>1. g.lastQueued[p] \in Nat /\ o \in Nat
    <3>1. g.lastQueued[p] \in Offsets \union {0} /\ o \in Offsets \union {0}
      BY <1>1
    <3> QED
      BY <3>1, NumbersAre
  <2>2. ~(o <= g.lastQueued[p])
    BY <2>1
  <2> QED
    BY <2>2 DEF Enqueued
<1>3. /\ Q \in [Partitions -> Seq(Offsets)]
      /\ Cardinality(Places(Q, Partitions)) = Cardinality(Places(g.queues, Partitions)) + 1
  BY <1>1, OneMorePlace
<1>4. L \in [Partitions -> Offsets \union {0}]
  BY <1>1
<1>5. /\ e.queues = Q /\ e.queued = g.queued + 1 /\ e.ready = g.ready /\ e.keys = g.keys \union {p}
      /\ e.running = g.running /\ e.paused = g.paused /\ e.lastQueued = L /\ e.epochs = g.epochs
  BY DEF Gates
<1>6. \A q \in Partitions : Q[q] = IF q = p THEN Append(g.queues[p], o) ELSE g.queues[q]
  BY <1>1
<1>7. e = [g EXCEPT !.lastQueued = L, !.queues = Q, !.keys = @ \union {p}, !.queued = @ + 1]
  BY DEF Gates
<1> HIDE DEF e, Q, L
<1>8. e \in Gates
  <2>1. g.queued + 1 \in Nat /\ g.keys \union {p} \subseteq Partitions
    BY <1>1
  <2> QED
    BY <2>1, <1>3, <1>4, <1>7 DEF Gates
<1>9. Append(g.queues[p], o) # <<>>
  BY <1>1, AtTheEnd
<1>10. Running(e) = Running(g)
  BY <1>5 DEF Running
<1>11. Fit(e)
  <2>1. Range(g.ready) \subseteq Partitions
    BY <1>1 DEF Range
  <2>2. \A q \in Range(e.ready) : e.queues[q] # <<>> /\ e.running[q] = 0 /\ q \notin e.paused
    BY <2>1, <1>5, <1>6, <1>9 DEF Fit
  <2>3. e.queued = Cardinality(Places(e.queues, Partitions))
    BY <1>3, <1>5 DEF Fit
  <2>4. \A q \in Partitions : e.queues[q] # <<>> => q \in e.keys
    BY <1>5, <1>6 DEF Fit
  <2> QED
    BY <2>2, <2>3, <2>4, <1>5, <1>10 DEF Fit
<1>12. \A q \in Partitions : e.queues[q] # <<>> => q \in assignments
  BY <1>5, <1>6
<1>13. \A q \in Partitions \ {p} : Ready(e, q) => q \in Range(e.ready)
  BY <1>5, <1>6 DEF Ready, InLine
<1>14. Cardinality(Running(e)) < Concurrency => e.ready = <<>>
  BY <1>5, <1>10 DEF InLine
<1>15. Cardinality(Running(e)) + 1 < Concurrency => e.ready = <<>>
  BY <1>14, RunningAre, BoundsAre
<1>16. /\ h \in Gates /\ Fit(h) /\ InLine(h) /\ Alike(e, h)
       /\ \/ Still(e, h)
          \/ \E q \in Range(e.ready) \union {p} : q \in Partitions /\ Began(e, h, q)
  BY <1>2, <1>8, <1>11, <1>12, <1>13, <1>15, FlowsIs
<1>17. \A q : Began(e, h, q) => Range(e.ready) = {}
  BY <1>1, <1>5, <1>14, NobodyIn DEF Began
<1>18. Still(e, h) \/ Began(e, h, p)
  BY <1>16, <1>17
<1> QED
  BY <1>5, <1>8, <1>11, <1>16, <1>18 DEF Q, L

-----------------------------------------------------------------------------
(* The records of one partition. *)

\* The first of the queue goes into delivery: what was before it is done.
LEMMA SortedTakes ==
    ASSUME NEW D, NEW p, NEW s \in Seq(Offsets), s # <<>>, NEW l \in Offsets \union {0},
           Sorted(D, p, 0, 0, s, l)
    PROVE  /\ Head(s) \in Offsets /\ Through(D, p, Head(s) - 1)
           /\ Sorted(D, p, 0, Head(s), Tail(s), l)
           /\ \/ PlaceOf(Tail(s), l) = Head(s)
              \/ PlaceOf(Tail(s), l) > Head(s) /\ Through(D, p, PlaceOf(Tail(s), l))
           /\ PlaceOf(Tail(s), l) \in Offsets
<1> DEFINE t == Tail(s)
           o == Head(s)
           n == Len(s)
<1>1. /\ n \in Nat \ {0} /\ t \in Seq(Offsets) /\ Len(t) = n - 1 /\ o \in Offsets /\ o = s[1]
      /\ \A i \in 1..(n - 1) : t[i] = s[i + 1]
  BY HeadTailProperties, EmptySeq
<1>2. Offsets \subseteq Nat \ {0}
  BY OffsetsAre
<1>3. \A i \in 1..(o - 1) : Held(D, p, 0, 0, i)
  BY DEF Sorted, PlaceOf
<1>4. \A i \in 1..(o - 1) : <<p, i>> \in D
  BY <1>1, <1>2, <1>3 DEF Held
<1>5. \A i \in 1..(n - 1) : s[i] < s[i + 1] /\ Joins(D, p, s[i + 1], s[i])
  BY DEF Sorted
<1>6. l = s[n]
  BY DEF Sorted
<1>7. \A i \in 1..(Len(t) - 1) : t[i] < t[i + 1] /\ Joins(D, p, t[i + 1], t[i])
  <2> SUFFICES ASSUME NEW i \in 1..(Len(t) - 1)
               PROVE  t[i] < t[i + 1] /\ Joins(D, p, t[i + 1], t[i])
    OBVIOUS
  <2>1. i \in 1..(n - 1) /\ i + 1 \in 1..(n - 1)
    BY <1>1
  <2> QED
    BY <2>1, <1>1, <1>5
<1>8. CASE t = <<>>
  <2>1. n = 1 /\ l = o
    <3>1. Len(t) = 0
      BY <1>8, EmptySeq
    <3>2. n = 1
      BY <3>1, <1>1
    <3> QED
      BY <3>2, <1>1, <1>6
  <2>2. PlaceOf(t, l) = o
    BY <1>8, <2>1 DEF PlaceOf
  <2>3. \A i \in 1..o : Held(D, p, 0, o, i)
    <3>1. o \in Nat
      BY <1>1, <1>2
    <3>2. \A i \in 1..o : i \in 1..(o - 1) \/ i = o
      BY <3>1
    <3> QED
      BY <3>2, <1>4 DEF Held
  <2> QED
    BY <1>1, <1>4, <1>7, <1>8, <2>2, <2>3 DEF Sorted, Through
<1>9. CASE t # <<>>
  <2>1. Len(t) \in Nat \ {0}
    BY <1>1, <1>9, EmptySeq
  <2>2. n >= 2 /\ Head(t) = t[1] /\ 1 \in 1..(n - 1) /\ Len(t) \in 1..(n - 1)
    BY <1>1, <2>1
  <2>3. t[1] = s[2] /\ o < s[2] /\ Joins(D, p, s[2], o) /\ t[Len(t)] = s[n]
    BY <1>1, <1>5, <2>1, <2>2
  <2>4. s[2] \in Offsets /\ s[2] \in Nat /\ o \in Nat
    <3>1. 1 \in 1..Len(t)
      BY <1>1, <2>2
    <3>2. t[1] \in Offsets
      BY <1>1, <3>1, ElementOfSeq
    <3> QED
      BY <1>1, <1>2, <2>3, <3>2
  <2>5. PlaceOf(t, l) = s[2] - 1
    BY <1>9, <2>2, <2>3 DEF PlaceOf
  <2>6. s[2] = o + 1 \/ (s[2] - 1 > o /\ Through(D, p, s[2] - 1))
    BY <2>3, <2>4 DEF Joins
  <2>7. \A i \in 1..(s[2] - 1) : Held(D, p, 0, o, i)
    BY <1>4, <2>4, <2>6 DEF Held, Through
  <2>8. s[2] - 1 \in Offsets
    BY <1>1, <2>4, <2>6, OffsetsAre
  <2> QED
    BY <1>1, <1>4, <1>6, <1>7, <2>3, <2>4, <2>5, <2>6, <2>7, <2>8 DEF Sorted, Through
<1> QED
  BY <1>8, <1>9

\* One more comes in behind them.
LEMMA SortedAppends ==
    ASSUME NEW D, NEW p, NEW k, NEW r, NEW s \in Seq(Offsets), NEW l \in Offsets \union {0},
           NEW o \in Offsets, Sorted(D, p, k, r, s, l), o > l, Joins(D, p, o, l)
    PROVE  /\ Sorted(D, p, k, r, Append(s, o), o)
           /\ \/ PlaceOf(Append(s, o), o) = PlaceOf(s, l)
              \/ Through(D, p, PlaceOf(Append(s, o), o))
           /\ PlaceOf(Append(s, o), o) \in Offsets \union {0}
<1> DEFINE t == Append(s, o)
           n == Len(s)
<1>1. /\ t \in Seq(Offsets) /\ t # <<>> /\ Len(t) = n + 1 /\ t[n + 1] = o
      /\ \A i \in 1..n : t[i] = s[i]
      /\ n \in Nat /\ (s # <<>> => n # 0 /\ Head(s) = s[1])
      /\ Head(t) = t[1]
  BY AppendProperties, EmptySeq, LenProperties
<1>2. Offsets \subseteq Nat \ {0} /\ o \in Nat /\ l \in Nat
  BY OffsetsAre
<1>3. o = l + 1 \/ Through(D, p, o - 1)
  BY <1>2 DEF Joins
<1>4. \A i \in 1..(Len(t) - 1) : t[i] < t[i + 1] /\ Joins(D, p, t[i + 1], t[i])
  <2> SUFFICES ASSUME NEW i \in 1..n
               PROVE  t[i] < t[i + 1] /\ Joins(D, p, t[i + 1], t[i])
    BY <1>1
  <2>1. CASE i = n
    <3>1. s # <<>>
      BY <2>1, <1>1, EmptySeq
    <3>2. l = s[n]
      BY <3>1 DEF Sorted
    <3> QED
      BY <2>1, <3>2, <1>1, <1>2
  <2>2. CASE i # n
    <3>1. i \in 1..(n - 1) /\ i + 1 \in 1..n
      BY <2>2, <1>1
    <3> QED
      BY <3>1, <1>1 DEF Sorted
  <2> QED
    BY <2>1, <2>2
<1>5. Head(t) \in Offsets
  BY <1>1, HeadTailProperties
<1>6. PlaceOf(t, o) = Head(t) - 1 /\ PlaceOf(t, o) \in Offsets \union {0}
  BY <1>1, <1>5, OffsetsAre DEF PlaceOf
<1>7. CASE s = <<>>
  <2>1. n = 0 /\ Head(t) = o
    BY <1>1, <1>7, EmptySeq
  <2>2. PlaceOf(s, l) = l /\ PlaceOf(t, o) = o - 1
    BY <1>6, <1>7, <2>1 DEF PlaceOf
  <2>3. PlaceOf(t, o) = l \/ Through(D, p, o - 1)
    BY <1>2, <1>3, <2>2
  <2>4. \A i \in 1..PlaceOf(t, o) : Held(D, p, k, r, i)
    BY <2>2, <2>3 DEF Sorted, Held, Through
  <2> QED
    BY <1>1, <1>4, <1>6, <2>2, <2>3, <2>4 DEF Sorted
<1>8. CASE s # <<>>
  <2>1. 1 \in 1..n
    BY <1>1, <1>8
  <2>2. Head(t) = Head(s)
    BY <1>1, <1>8, <2>1
  <2>3. PlaceOf(t, o) = PlaceOf(s, l)
    BY <1>6, <1>8, <2>2 DEF PlaceOf
  <2> QED
    BY <1>1, <1>4, <1>6, <2>3 DEF Sorted
<1> QED
  BY <1>7, <1>8

\* What is held stays so while more is done.
LEMMA SortedStays ==
    ASSUME NEW D, NEW p, NEW k, NEW r, NEW s \in Seq(Offsets), NEW l \in Offsets \union {0},
           Sorted(D, p, k, r, s, l),
           NEW E, D \subseteq E, NEW j, NEW q,
           \A i \in Nat \ {0} : Held(D, p, k, r, i) => Held(E, p, j, q, i)
    PROVE  Sorted(E, p, j, q, s, l)
<1>1. \A i : Through(D, p, i) => Through(E, p, i)
  BY DEF Through
<1>2. PlaceOf(s, l) \in Nat
  <2>1. Offsets \subseteq Nat \ {0}
    BY OffsetsAre
  <2>2. CASE s # <<>>
    <3>1. PICK o \in Offsets : o = Head(s)
      BY <2>2, HeadTailProperties
    <3>2. o - 1 \in Nat
      BY <2>1
    <3> QED
      BY <2>2, <3>1, <3>2 DEF PlaceOf
  <2>3. CASE s = <<>>
    BY <2>3, NumbersAre DEF PlaceOf
  <2> QED
    BY <2>2, <2>3
<1>3. \A i \in 1..PlaceOf(s, l) : i \in Nat \ {0}
  BY <1>2
<1>4. \A o : \A t : Joins(D, p, o, t) => Joins(E, p, o, t)
  BY <1>1 DEF Joins
<1> QED
  BY <1>3, <1>4 DEF Sorted

\* Nothing is queued, and nothing counts as read.
LEMMA SortedAnew ==
    ASSUME NEW D, NEW p, NEW k, NEW r
    PROVE  Sorted(D, p, k, r, <<>>, 0) /\ PlaceOf(<<>>, 0) = 0 /\ Through(D, p, 0)
<1>1. Len(<<>>) = 0
  BY EmptySeq
<1> QED
  BY <1>1 DEF Sorted, PlaceOf, Through

\* What is done more leaves no gap.
LEMMA FollowsStays ==
    ASSUME NEW D, NEW p, NEW w, NEW l, NEW b, NEW f, Follows(D, p, w, l, b, f),
           NEW E, D \subseteq E
    PROVE  Follows(E, p, w, l, b, f)
<1>1. \A i : Through(D, p, i) => Through(E, p, i)
  BY DEF Through
<1>2. \A o : \A t : Joins(D, p, o, t) => Joins(E, p, o, t)
  BY <1>1 DEF Joins
<1> QED
  BY <1>1, <1>2 DEF Follows

\* One is fetched.
LEMMA FollowsFetches ==
    ASSUME NEW D, NEW p, NEW w \in Nat, NEW l \in Nat, NEW b \in Seq(Offsets), NEW f \in Nat,
           Follows(D, p, w, l, b, f), f + 1 \in Offsets
    PROVE  Follows(D, p, w, l, Append(b, f + 1), f + 1)
<1> DEFINE o == f + 1
           c == Append(b, o)
           n == Len(b)
           tip == IF w # 0 THEN w ELSE l
<1>1. /\ c # <<>> /\ Len(c) = n + 1 /\ c[n + 1] = o /\ \A i \in 1..n : c[i] = b[i]
      /\ n \in Nat /\ (b # <<>> => n # 0)
  BY AppendProperties, EmptySeq, LenProperties
<1>2. o - 1 = f /\ tip \in Nat
  OBVIOUS
<1>3. \A i \in 1..(Len(c) - 1) : Joins(D, p, c[i + 1], c[i])
  <2> SUFFICES ASSUME NEW i \in 1..n PROVE Joins(D, p, c[i + 1], c[i])
    BY <1>1
  <2>1. CASE i = n
    <3>1. b # <<>>
      BY <2>1, <1>1, EmptySeq
    <3>2. f = b[n] \/ Through(D, p, f)
      BY <3>1 DEF Follows
    <3>3. c[i + 1] = o /\ c[i] = b[n]
      BY <2>1, <1>1
    <3> QED
      BY <3>2, <3>3, <1>2 DEF Joins
  <2>2. CASE i # n
    <3>1. i \in 1..(n - 1) /\ i + 1 \in 1..n
      BY <2>2, <1>1
    <3> QED
      BY <3>1, <1>1 DEF Follows
  <2> QED
    BY <2>1, <2>2
<1>4. Joins(D, p, c[1], tip)
  <2>1. CASE b = <<>>
    <3>1. c[1] = o
      BY <2>1, <1>1, EmptySeq
    <3>2. f <= tip \/ Through(D, p, f)
      BY <2>1 DEF Follows
    <3> QED
      BY <3>1, <3>2, <1>2 DEF Joins
  <2>2. CASE b # <<>>
    <3>1. 1 \in 1..n
      BY <2>2, <1>1
    <3> QED
      BY <2>2, <3>1, <1>1 DEF Follows
  <2> QED
    BY <2>1, <2>2
<1> QED
  BY <1>1, <1>3, <1>4 DEF Follows

\* The first in the stream is handed over: it comes next after what was queued,
\* and either it waits for room, or is queued, or is one that was queued before.
LEMMA FollowsHands ==
    ASSUME NEW D, NEW p, NEW l \in Nat, NEW b \in Seq(Offsets), b # <<>>, NEW f \in Nat,
           Follows(D, p, 0, l, b, f)
    PROVE  /\ Head(b) \in Offsets /\ Tail(b) \in Seq(Offsets) /\ Joins(D, p, Head(b), l)
           /\ Follows(D, p, Head(b), l, Tail(b), f)
           /\ \A t \in Nat : t >= Head(b) => Follows(D, p, 0, t, Tail(b), f)
<1> DEFINE o == Head(b)
           c == Tail(b)
           n == Len(b)
<1>1. /\ o \in Offsets /\ o = b[1] /\ c \in Seq(Offsets) /\ Len(c) = n - 1 /\ n \in Nat \ {0}
      /\ \A i \in 1..(n - 1) : c[i] = b[i + 1]
  BY HeadTailProperties, EmptySeq
<1>2. o \in Nat \ {0}
  BY <1>1, OffsetsAre
<1>3. /\ Joins(D, p, o, l) /\ (f = b[n] \/ Through(D, p, f))
      /\ \A i \in 1..(n - 1) : Joins(D, p, b[i + 1], b[i])
  BY <1>1 DEF Follows
<1>4. \A i \in 1..(Len(c) - 1) : Joins(D, p, c[i + 1], c[i])
  <2> SUFFICES ASSUME NEW i \in 1..(Len(c) - 1) PROVE Joins(D, p, c[i + 1], c[i])
    OBVIOUS
  <2>1. i \in 1..(n - 1) /\ i + 1 \in 1..(n - 1)
    BY <1>1
  <2> QED
    BY <2>1, <1>1, <1>3
<1>5. c = <<>> => n = 1
  <2>1. c = <<>> => Len(c) = 0
    BY EmptySeq
  <2> QED
    BY <2>1, <1>1
<1>6. c # <<>> => /\ Joins(D, p, c[1], o) /\ (f = c[Len(c)] \/ Through(D, p, f))
                  /\ c[1] \in Nat
  <2> SUFFICES ASSUME c # <<>>
               PROVE  /\ Joins(D, p, c[1], o) /\ (f = c[Len(c)] \/ Through(D, p, f))
                      /\ c[1] \in Nat
    OBVIOUS
  <2>1. Len(c) \in Nat \ {0}
    BY <1>1, EmptySeq
  <2>2. 1 \in 1..(n - 1) /\ Len(c) \in 1..(n - 1) /\ Len(c) + 1 = n /\ 1 \in 1..Len(c)
    BY <1>1, <2>1
  <2>3. c[1] = b[1 + 1] /\ c[Len(c)] = b[n]
    BY <1>1, <2>2
  <2>4. c[1] \in Offsets
    BY <1>1, <2>2, ElementOfSeq
  <2> QED
    BY <2>2, <2>3, <2>4, <1>1, <1>3, OffsetsAre
<1>7. Follows(D, p, o, l, c, f)
  BY <1>1, <1>2, <1>3, <1>4, <1>5, <1>6 DEF Follows
<1>8. ASSUME NEW t \in Nat, t >= o
      PROVE  Follows(D, p, 0, t, c, f)
  <2>1. CASE c = <<>>
    <3>1. f <= t \/ Through(D, p, f)
      BY <2>1, <1>1, <1>2, <1>3, <1>5, <1>8
    <3> QED
      BY <2>1, <3>1, <1>4 DEF Follows
  <2>2. CASE c # <<>>
    <3>1. Joins(D, p, c[1], t)
      BY <2>2, <1>2, <1>6, <1>8 DEF Joins
    <3> QED
      BY <2>2, <3>1, <1>4, <1>6 DEF Follows
  <2> QED
    BY <2>1, <2>2
<1> QED
  BY <1>1, <1>3, <1>7, <1>8

\* The one that waited is queued, or was before.
LEMMA FollowsLetsIn ==
    ASSUME NEW D, NEW p, NEW w \in Nat \ {0}, NEW l, NEW b \in Seq(Offsets), NEW f \in Nat,
           Follows(D, p, w, l, b, f)
    PROVE  /\ Joins(D, p, w, l)
           /\ \A t \in Nat : t >= w => Follows(D, p, 0, t, b, f)
<1>1. ASSUME NEW t \in Nat, t >= w
      PROVE  Follows(D, p, 0, t, b, f)
  <2>1. CASE b = <<>>
    BY <1>1, <2>1 DEF Follows
  <2>2. CASE b # <<>>
    <3>1. Len(b) \in Nat \ {0} /\ 1 \in 1..Len(b)
      BY <2>2, EmptySeq
    <3>2. b[1] \in Nat
      BY <3>1, ElementOfSeq, OffsetsAre
    <3>3. Joins(D, p, b[1], w)
      BY <2>2 DEF Follows
    <3>4. Joins(D, p, b[1], t)
      BY <3>2, <3>3, <1>1 DEF Joins
    <3> QED
      BY <2>2, <3>4 DEF Follows
  <2> QED
    BY <2>1, <2>2
<1> QED
  BY <1>1 DEF Follows

\* The client reads on from where the group is, or holds nothing.
LEMMA FollowsMoved ==
    ASSUME NEW D, NEW p, NEW w, NEW l, NEW b, NEW f
    PROVE  /\ \A e : Follows(D, p, w, l, b, f) /\ Through(D, p, e) => Follows(D, p, w, l, b, e)
           /\ Through(D, p, f) => Follows(D, p, 0, l, <<>>, f)
<1>1. Len(<<>>) = 0
  BY EmptySeq
<1> QED
  BY <1>1 DEF Follows

-----------------------------------------------------------------------------
(* The steps keep the invariant. *)

\* A consumption that was not begun has it.
LEMMA InitEstablishes == Init => IInv
<1> SUFFICES ASSUME Init PROVE IInv
  OBVIOUS
<1>1. gate = [queues |-> [p \in Partitions |-> <<>>], keys |-> {}, ready |-> <<>>,
              running |-> [p \in Partitions |-> 0], queued |-> 0, paused |-> {},
              lastQueued |-> [p \in Partitions |-> 0], epochs |-> {}]
  BY DEF Init, Fields
<1>2. /\ gate.queues = [p \in Partitions |-> <<>>] /\ gate.keys = {} /\ gate.ready = <<>>
      /\ gate.running = [p \in Partitions |-> 0] /\ gate.queued = 0 /\ gate.paused = {}
      /\ gate.lastQueued = [p \in Partitions |-> 0]
  BY <1>1
<1>3. <<>> \in Seq(Offsets) /\ <<>> \in Seq(Partitions)
  BY EmptySeq
<1>4. gate \in Gates
  BY <1>1, <1>3 DEF Gates
<1>5. Types
  <2>1. ConnectionTypeOK
    BY DEF Init, Disconnected, ConnectionTypeOK
  <2>2. loop \in Loops
    BY DEF Init, Loops
  <2>3. buffer \in [Partitions -> Seq(Offsets)]
    BY <1>3 DEF Init
  <2>4. troubles \in 0..MaxTroubles
    BY BoundsAre DEF Init
  <2> QED
    BY <1>4, <2>1, <2>2, <2>3, <2>4 DEF Types, Init, Fields
<1>6. Line
  <2>1. Running(gate) = {}
    BY <1>2 DEF Running
  <2>2. Range(gate.ready) = {} /\ IsInjective(gate.ready)
    <3>1. DOMAIN <<>> = {}
      BY <1>3, LenProperties, EmptySeq
    <3> QED
      BY <1>2, <3>1 DEF Range, IsInjective
  <2>3. Cardinality(Running(gate)) = 0 /\ 0 <= Concurrency
    BY <2>1, FS_EmptySet, BoundsAre
  <2>4. Places(gate.queues, Partitions) = {}
    <3>1. \A p \in Partitions : DOMAIN gate.queues[p] = {}
      BY <1>2, <1>3, LenProperties, EmptySeq
    <3> QED
      BY <3>1 DEF Places
  <2>5. gate.queued = Cardinality(Places(gate.queues, Partitions))
    BY <1>2, <2>4, FS_EmptySet
  <2> QED
    BY <1>2, <2>2, <2>3, <2>5 DEF Line, Fit, InLine, Ready
<1>7. Room
  BY <1>2, BoundsAre DEF Room, Init
<1>8. Owned
  BY <1>2 DEF Owned
<1>9. \A p : Through(done, p, 0)
  BY DEF Through
<1>10. CommittedIsDone
  BY DEF CommittedIsDone, Init
<1>11. Hands
  BY <1>2 DEF Hands, Init
<1>12. Order
  BY <1>2, SortedAnew DEF Order
<1>13. Arrival
  BY DEF Arrival, Init
<1>14. Fresh
  BY <1>9 DEF Fresh, Init, Fields, Unread, Waiting
<1> QED
  BY <1>5, <1>6, <1>7, <1>8, <1>10, <1>11, <1>12, <1>13, <1>14 DEF IInv

\* The reader goes on or gives up, the client connects or leaves the group.
LEMMA ReaderKeeps ==
    ASSUME IInv, UNCHANGED <<committed, done, client, gate, stopped, owned, core>>,
           ConnectionTypeOK', troubles' \in 0..MaxTroubles,
           member' \in BOOLEAN, member' => member, stream' \in BOOLEAN,
           stream' => stream /\ pulled' = pulled,
           rotating' \in BOOLEAN, loop' \in Loops,
           IF loop' \in {"room", "granted"} THEN loop' = loop /\ pulled' = pulled ELSE pulled' = <<>>,
           Begun' \/ ~Begun
    PROVE  IInv'
<1> USE DEF client, owned, core
<1>1. Types'
  BY DEF IInv, Types
<1>2. Line'
  BY DEF IInv, Line
<1>3. Room'
  BY DEF IInv, Room
<1>4. Owned' /\ CommittedIsDone'
  BY DEF IInv, Owned, CommittedIsDone
<1>5. Hands'
  BY DEF IInv, Hands
<1>6. Order'
  BY DEF IInv, Order, Live
<1>7. Arrival'
  BY DEF IInv, Arrival, Waiting, Unread
<1>8. Fresh'
  <2>1. ~Begun => pulled = <<>>
    BY DEF IInv, Room, Begun
  <2>2. ~Begun' => pulled' = <<>>
    BY DEF Begun
  <2> QED
    BY <2>1, <2>2 DEF IInv, Fresh, Unread, Waiting
<1> QED
  BY <1>1, <1>2, <1>3, <1>4, <1>5, <1>6, <1>7, <1>8 DEF IInv

\* A stop: the reader is told, and the core forgets what it parked.
LEMMA StopsKeep ==
    ASSUME IInv, Stops, Begun, ConnectionTypeOK', troubles' \in 0..MaxTroubles
    PROVE  IInv'
<1> USE DEF Stops, group, client, owned
<1>1. loop' \in Loops /\ Begun'
      /\ (loop' \in {"room", "granted"} <=> loop \in {"room", "granted"}) /\ loop' # "room"
  BY DEF Halted, Begun, IInv, Types, Loops
<1>2. Types'
  BY <1>1 DEF IInv, Types
<1>3. Line'
  BY DEF IInv, Line
<1>4. Room'
  BY <1>1 DEF IInv, Room
<1>5. Owned' /\ CommittedIsDone'
  BY DEF IInv, Owned, CommittedIsDone
<1>6. Hands'
  BY DEF IInv, Hands
<1>7. Order' /\ Arrival' /\ Fresh'
  BY <1>1 DEF Order, Arrival, Fresh
<1> QED
  BY <1>2, <1>3, <1>4, <1>5, <1>6, <1>7 DEF IInv

\* The loop is done.
LEMMA StopFinishesKeeps ==
    ASSUME IInv, StopFinishes PROVE IInv'
<1> USE DEF StopFinishes, connection, group, client, owned, core
<1> DEFINE Q == [p \in Partitions |-> <<>>]
<1>1. <<>> \in Seq(Offsets) /\ <<>> \in Seq(Partitions) /\ gate \in Gates
  BY EmptySeq DEF IInv, Types
<1>2. gate' = [gate EXCEPT !.queues = Q, !.keys = {}, !.ready = <<>>, !.queued = 0]
  OBVIOUS
<1>3. Q \in [Partitions -> Seq(Offsets)]
  BY <1>1
<1>4. \A p \in Partitions : Q[p] = <<>>
  OBVIOUS
<1> HIDE DEF Q
<1>5. gate' \in Gates
  <2>0. PICK none \in Seq(Partitions) : none = <<>>
    BY <1>1
  <2>1. gate' = [queues |-> Q, keys |-> {}, ready |-> none, running |-> gate.running,
                 queued |-> 0, paused |-> gate.paused, lastQueued |-> gate.lastQueued,
                 epochs |-> gate.epochs]
    BY <1>1, <1>2, <2>0 DEF Gates
  <2>2. /\ gate.running \in [Partitions -> Offsets \union {0}] /\ gate.paused \in SUBSET Partitions
        /\ gate.lastQueued \in [Partitions -> Offsets \union {0}] /\ gate.epochs \in SUBSET Partitions
    BY <1>1 DEF Gates
  <2> QED
    BY <2>1, <2>2, <1>3 DEF Gates
<1>6. /\ gate'.queues = Q /\ gate'.keys = {} /\ gate'.ready = <<>> /\ gate'.queued = 0
      /\ gate'.running = gate.running /\ gate'.paused = gate.paused
      /\ gate'.lastQueued = gate.lastQueued
  BY <1>1, <1>2 DEF Gates
<1>7. Types'
  BY <1>5 DEF IInv, Types, Loops, ConnectionTypeOK
<1>8. Running(gate') = Running(gate)
  BY <1>6 DEF Running
<1>9. Line'
  <2>1. Range(<<>>) = {} /\ IsInjective(<<>>) /\ DOMAIN <<>> = {}
    <3>1. DOMAIN <<>> = {}
      BY <1>1, LenProperties, EmptySeq
    <3> QED
      BY <3>1 DEF Range, IsInjective
  <2>2. Places(Q, Partitions) = {}
    BY <1>4, <2>1 DEF Places
  <2>3. Cardinality(Places(Q, Partitions)) = 0
    BY <2>2, FS_EmptySet
  <2>4. Fit(gate')
    BY <1>4, <1>6, <1>8, <2>1, <2>3 DEF IInv, Line, Fit
  <2> QED
    BY <2>4 DEF Line
<1>10. Room'
  BY <1>6, BoundsAre DEF IInv, Room
<1>11. Owned' /\ CommittedIsDone'
  BY <1>4, <1>6 DEF IInv, Owned, CommittedIsDone
<1>12. Hands'
  BY <1>6, <1>8 DEF IInv, Hands
<1>13. Order' /\ Arrival' /\ Fresh'
  BY DEF Order, Arrival, Fresh, Begun
<1> QED
  BY <1>7, <1>9, <1>10, <1>11, <1>12, <1>13 DEF IInv

\* The record in delivery of p is handled, or left to the next member; records are
\* done with here or elsewhere.
LEMMA HandlingKeeps ==
    ASSUME IInv, Types', done \subseteq done', CommittedIsDone',
           UNCHANGED <<connection, member, client, gate, reader, owned, parked, revoked>>,
           NEW p \in Partitions,
           \/ settled' = settled
           \/ /\ settled' = settled \union {p} /\ gate.running[p] # 0
              /\ <<p, gate.running[p]>> \in done' \/ p \in revoked \/ stopped
    PROVE  IInv'
<1> USE DEF client, reader, owned
<1>0. gate \in Gates /\ parked \in [Partitions -> Offsets \union {0}]
  BY DEF IInv, Types
<1>1. Line'
  BY DEF IInv, Line
<1>2. Room'
  BY DEF IInv, Room
<1>3. Owned'
  BY DEF IInv, Owned
<1>4. \A q \in Partitions : \A i : Through(done, q, i) => Through(done', q, i)
  BY DEF Through
<1>5. Hands'
  <2>1. settled' \subseteq Running(gate')
    BY DEF IInv, Hands, Running
  <2> QED
    BY <1>4, <2>1 DEF IInv, Hands
<1>6. Order'
  <2> SUFFICES ASSUME ~stopped, NEW q \in Partitions
               PROVE  Sorted(done', q, parked'[q], Live(q)', gate'.queues[q], gate'.lastQueued[q])
    BY DEF Order
  <2>1. Sorted(done, q, parked[q], Live(q), gate.queues[q], gate.lastQueued[q])
    BY DEF IInv, Order
  <2>2. gate.queues[q] \in Seq(Offsets) /\ gate.lastQueued[q] \in Offsets \union {0}
    BY <1>0 DEF Gates
  <2>3. ASSUME NEW i \in Nat \ {0}, Held(done, q, parked[q], Live(q), i)
        PROVE  Held(done', q, parked'[q], Live(q)', i)
    BY <2>3 DEF Held, Live
  <2> QED
    BY <2>1, <2>2, <2>3, SortedStays
<1>7. Arrival'
  <2> SUFFICES ASSUME stream, ~stopped, NEW q \in Partitions \ lost
               PROVE  IF q \in assignments
                      THEN Follows(done', q, Waiting(q), gate.lastQueued[q], buffer[q], fetched[q])
                      ELSE Unread(q)'
    BY DEF Arrival, Waiting
  <2>1. CASE q \in assignments
    BY <2>1, FollowsStays DEF IInv, Arrival
  <2>2. CASE q \notin assignments
    BY <2>2, <1>4 DEF IInv, Arrival, Unread, Waiting
  <2> QED
    BY <2>1, <2>2
<1>8. Fresh'
  BY <1>4 DEF IInv, Fresh, Unread, Waiting, Begun
<1> QED
  BY <1>1, <1>2, <1>3, <1>5, <1>6, <1>7, <1>8 DEF IInv

\* The client fetches the next record.
LEMMA FetchKeeps ==
    ASSUME IInv, NEW p \in Partitions, Fetch(p)
    PROVE  IInv'
<1> USE DEF Fetch, connection, group, reader, owned, core
<1>1. /\ fetched \in [Partitions -> Offsets \union {0}] /\ buffer \in [Partitions -> Seq(Offsets)]
      /\ gate \in Gates /\ lost \intersect assignments = {}
  BY DEF IInv, Types
<1>2. fetched[p] \in Nat /\ fetched[p] + 1 \in Offsets
  <2>1. fetched[p] \in Nat
    BY <1>1, NumbersAre
  <2>2. Records[p] \in Nat /\ fetched[p] + 1 \in 1..Records[p]
    BY <2>1, BoundsAre
  <2> QED
    BY <2>1, <2>2, OffsetsAre
<1>3. Append(buffer[p], fetched[p] + 1) \in Seq(Offsets)
  BY <1>1, <1>2, AppendProperties
<1>4. Types'
  BY <1>1, <1>2, <1>3 DEF IInv, Types, ConnectionTypeOK
<1>5. Line' /\ Room' /\ Owned' /\ CommittedIsDone' /\ Hands'
  BY DEF IInv, Line, Room, Owned, CommittedIsDone, Hands
<1>6. Order'
  BY DEF IInv, Order, Live
<1>7. Begun /\ Begun'
  BY DEF IInv, Fresh, Begun
<1>8. Arrival'
  <2> SUFFICES ASSUME ~stopped, NEW q \in Partitions \ lost
               PROVE  IF q \in assignments
                      THEN Follows(done, q, Waiting(q), gate.lastQueued[q], buffer'[q], fetched'[q])
                      ELSE Unread(q)'
    BY DEF Arrival, Waiting
  <2>1. IF q \in assignments
        THEN Follows(done, q, Waiting(q), gate.lastQueued[q], buffer[q], fetched[q])
        ELSE Unread(q)
    BY DEF IInv, Arrival
  <2>2. CASE q # p
    <3>1. buffer'[q] = buffer[q] /\ fetched'[q] = fetched[q]
      BY <1>1, <2>2
    <3> QED
      BY <2>1, <3>1 DEF Unread, Waiting
  <2>3. CASE q = p
    <3>1. buffer'[q] = Append(buffer[q], fetched[q] + 1) /\ fetched'[q] = fetched[q] + 1
      BY <1>1, <2>3
    <3>2. Waiting(q) \in Nat
      <4>1. pulled # <<>> => pulled \in Partitions \X Offsets
        BY DEF IInv, Room
      <4> QED
        BY <4>1, NumbersAre DEF Waiting
    <3>3. gate.lastQueued[q] \in Nat
      <4>1. gate.lastQueued[q] \in Offsets \union {0}
        BY <1>1 DEF Gates
      <4> QED
        BY <4>1, NumbersAre
    <3> QED
      BY <1>1, <1>2, <2>1, <2>3, <3>1, <3>2, <3>3, FollowsFetches
  <2> QED
    BY <2>2, <2>3
<1> QED
  BY <1>4, <1>5, <1>6, <1>7, <1>8 DEF IInv, Fresh

\* The group is done with everything before what it is past.
LEMMA CommittedThrough ==
    ASSUME CommittedIsDone, NEW p \in Partitions
    PROVE  Through(done, p, committed[p])
BY DEF CommittedIsDone, Through

\* A stream begins to read S: the group is done with what is before its places.
LEMMA ReadOnIs ==
    ASSUME IInv, NEW S \in SUBSET Partitions,
           NEW places \in [Partitions -> Offsets \union {0}], ReadOn(S, places)
    PROVE  /\ fetched' \in [Partitions -> Offsets \union {0}]
           /\ \A p \in Partitions \ S : fetched'[p] = places[p]
           /\ \A p \in S : Through(done', p, fetched'[p])
           /\ done \subseteq done' /\ done' \subseteq Partitions \X Offsets
<1>1. PICK begins \in [S -> Offsets \union {0}] :
         /\ fetched' = [p \in Partitions |-> IF p \in S THEN begins[p] ELSE places[p]]
         /\ done' = done \union UNION {{p} \X (1..begins[p]) : p \in S}
  BY DEF ReadOn
<1>2. \A p \in S : begins[p] \in Offsets \union {0} /\ begins[p] \in Nat
  BY <1>1, NumbersAre
<1>3. fetched' \in [Partitions -> Offsets \union {0}]
      /\ (\A p \in S : fetched'[p] = begins[p]) /\ (\A p \in Partitions \ S : fetched'[p] = places[p])
  BY <1>1, <1>2
<1>4. \A p \in S : Through(done', p, fetched'[p])
  BY <1>1, <1>3 DEF Through
<1>5. ASSUME NEW p \in S, NEW i \in 1..begins[p] PROVE i \in Offsets
  <2>1. begins[p] \in Offsets /\ i \in Nat /\ 1 <= i /\ i <= begins[p]
    BY <1>2
  <2> QED
    BY <2>1, OffsetsAre
<1>6. UNION {{p} \X (1..begins[p]) : p \in S} \subseteq Partitions \X Offsets
  BY <1>5
<1>7. done' \subseteq Partitions \X Offsets
  BY <1>1, <1>6 DEF IInv, Types
<1> QED
  BY <1>1, <1>3, <1>4, <1>7

\* While nothing else changes, the group may get done with more.
LEMMA DoneMore ==
    ASSUME IInv, done \subseteq done'
    PROVE  /\ \A p, i : Through(done, p, i) => Through(done', p, i)
           /\ ~stopped => \A p \in Partitions :
                 Sorted(done', p, parked[p], Live(p), gate.queues[p], gate.lastQueued[p])
           /\ \A p \in Partitions :
                 /\ gate.running[p] # 0 => Through(done', p, gate.running[p] - 1)
                 /\ parked[p] # 0 => Through(done', p, parked[p] - 1)
           /\ \A p \in Partitions : \A o \in 1..committed[p] : <<p, o>> \in done'
<1>1. \A p, i : Through(done, p, i) => Through(done', p, i)
  BY DEF Through
<1>2. gate \in Gates
  BY DEF IInv, Types
<1>3. ASSUME ~stopped, NEW p \in Partitions
      PROVE  Sorted(done', p, parked[p], Live(p), gate.queues[p], gate.lastQueued[p])
  <2>1. Sorted(done, p, parked[p], Live(p), gate.queues[p], gate.lastQueued[p])
    BY <1>3 DEF IInv, Order
  <2>2. gate.queues[p] \in Seq(Offsets) /\ gate.lastQueued[p] \in Offsets \union {0}
    BY <1>2 DEF Gates
  <2>3. \A i \in Nat \ {0} :
           Held(done, p, parked[p], Live(p), i) => Held(done', p, parked[p], Live(p), i)
    BY DEF Held
  <2> QED
    BY <2>1, <2>2, <2>3, SortedStays
<1> QED
  BY <1>1, <1>3 DEF IInv, Hands, CommittedIsDone

\* A stream is open again, from where the group is.
LEMMA OpenedKeeps ==
    ASSUME IInv, Opened PROVE IInv'
<1> USE DEF Opened, connection, reader, owned, core
<1> DEFINE S == assignments \intersect NoneCommitted
<1>1. /\ committed \in [Partitions -> Offsets \union {0}] /\ <<>> \in Seq(Offsets)
      /\ pulled = <<>>
  BY EmptySeq DEF IInv, Types, Room
<1>2. buffer' \in [Partitions -> Seq(Offsets)] /\ \A q \in Partitions : buffer'[q] = <<>>
  BY <1>1
<1>3. loop' \in Loops /\ Begun' /\ loop' \notin {"room", "granted"}
  BY DEF Loops, Begun
<1>30. /\ fetched' \in [Partitions -> Offsets \union {0}]
       /\ \A p \in Partitions \ S : fetched'[p] = committed[p]
       /\ \A p \in S : Through(done', p, fetched'[p])
       /\ done \subseteq done' /\ done' \subseteq Partitions \X Offsets
  <2>1. S \in SUBSET Partitions
    BY DEF IInv, Types
  <2> QED
    BY <1>1, <2>1, ReadOnIs
<1> HIDE DEF S
<1>4. Types'
  BY <1>1, <1>2, <1>3, <1>30 DEF IInv, Types, ConnectionTypeOK
<1>5. Line' /\ Owned' /\ CommittedIsDone' /\ Hands'
  BY <1>30, DoneMore DEF IInv, Line, Owned, CommittedIsDone, Hands
<1>6. Room'
  BY <1>1, <1>3 DEF IInv, Room
<1>7. Order'
  BY <1>30, DoneMore DEF Order, Live
<1>8. \A q \in Partitions : Waiting(q)' = 0 /\ buffer'[q] = <<>> /\ Through(done', q, fetched'[q])
  BY <1>1, <1>2, <1>30, CommittedThrough, DoneMore DEF IInv, Waiting
<1>9. Arrival'
  BY <1>8, FollowsMoved DEF Arrival, Unread
<1> QED
  BY <1>3, <1>4, <1>5, <1>6, <1>7, <1>9 DEF IInv, Fresh

\* consume() is done: the consumption begins with all partitions.
LEMMA StartedKeeps ==
    ASSUME IInv, Started PROVE IInv'
<1> USE DEF Started, connection, core
<1> DEFINE S == NoneCommitted
<1>1. /\ committed \in [Partitions -> Offsets \union {0}] /\ pulled = <<>>
      /\ fetched \in [Partitions -> Offsets \union {0}]
  BY DEF IInv, Types, Room
<1>2. ~Begun /\ lost = {} /\ \A q \in Partitions : Unread(q)
  BY DEF Begun, IInv, Fresh
<1>3. loop' \in Loops /\ Begun' /\ loop' \notin {"room", "granted"}
  BY DEF Loops, Begun
<1>4. /\ fetched' \in [Partitions -> Offsets \union {0}]
      /\ \A p \in Partitions \ S : fetched'[p] = committed[p]
      /\ \A p \in S : Through(done', p, fetched'[p])
      /\ done \subseteq done' /\ done' \subseteq Partitions \X Offsets
  <2>1. S \in SUBSET Partitions
    BY DEF NoneCommitted
  <2> QED
    BY <1>1, <2>1, ReadOnIs
<1> HIDE DEF S
<1>5. Types'
  BY <1>2, <1>3, <1>4 DEF IInv, Types, ConnectionTypeOK
<1>6. Line' /\ Owned' /\ CommittedIsDone' /\ Hands'
  BY <1>4, DoneMore DEF IInv, Line, Owned, CommittedIsDone, Hands
<1>7. Room'
  BY <1>1, <1>3 DEF IInv, Room
<1>8. Order'
  BY <1>4, DoneMore DEF IInv, Order, Live
<1>9. \A q \in Partitions : Waiting(q)' = 0 /\ buffer'[q] = <<>> /\ Through(done', q, fetched'[q])
  BY <1>1, <1>2, <1>4, CommittedThrough, DoneMore DEF IInv, Waiting, Unread
<1>10. Arrival'
  BY <1>9, FollowsMoved DEF Arrival, Unread
<1> QED
  BY <1>3, <1>5, <1>6, <1>7, <1>8, <1>10 DEF IInv, Fresh

\* A delivery settles, its record parked and its partition paused.
LEMMA CoreParksKeeps ==
    ASSUME IInv, NEW p \in Partitions, CoreParks(p)
    PROVE  IInv'
<1> USE DEF CoreParks, connection, group, client, reader, owned
<1>1. gate \in Gates /\ parked \in [Partitions -> Offsets \union {0}]
  BY DEF IInv, Types
<1>2. /\ gate'.queues = gate.queues /\ gate'.ready = gate.ready /\ gate'.running = gate.running
      /\ gate'.queued = gate.queued /\ gate'.lastQueued = gate.lastQueued
      /\ gate'.keys = gate.keys /\ gate'.paused = gate.paused \union {p} /\ gate' \in Gates
  BY <1>1 DEF Gates
<1>3. /\ gate.running[p] # 0 /\ p \notin settled \union revoked /\ gate.running[p] \in Offsets \union {0}
      /\ Running(gate') = Running(gate) /\ parked[p] = 0
  <2>1. p \in Running(gate) /\ p \notin settled \union revoked
    BY DEF Unsettled
  <2>2. gate.running[p] # 0
    BY <2>1, RunningAre
  <2>3. parked[p] = 0
    BY <2>1, <2>2 DEF IInv, Hands
  <2>4. gate.running[p] \in Offsets \union {0}
    BY <1>1 DEF Gates
  <2> QED
    BY <1>2, <2>1, <2>2, <2>3, <2>4 DEF Running
<1>4. /\ parked'[p] = gate.running[p] /\ \A q \in Partitions : q # p => parked'[q] = parked[q]
      /\ parked' \in [Partitions -> Offsets \union {0}]
  BY <1>1, <1>3
<1>5. Types'
  BY <1>2, <1>4 DEF IInv, Types, ConnectionTypeOK
<1>6. Line'
  <2>1. \A q \in Range(gate.ready) : q # p
    BY <1>3 DEF IInv, Line, Fit
  <2>2. Fit(gate')
    BY <2>1, <1>2, <1>3 DEF IInv, Line, Fit
  <2>3. InLine(gate')
    BY <1>2, <1>3 DEF IInv, Line, InLine, Ready
  <2> QED
    BY <2>2, <2>3 DEF Line
<1>7. Room' /\ Owned' /\ CommittedIsDone'
  BY <1>2 DEF IInv, Room, Owned, CommittedIsDone
<1>8. Hands'
  <2>1. settled' \subseteq Running(gate')
    BY <1>3, RunningAre DEF IInv, Hands
  <2> QED
    BY <2>1, <1>2, <1>3, <1>4 DEF IInv, Hands
<1>9. Order'
  <2> SUFFICES ASSUME ~stopped, NEW q \in Partitions
               PROVE  Sorted(done, q, parked'[q], Live(q)', gate'.queues[q], gate'.lastQueued[q])
    BY DEF Order
  <2>1. Sorted(done, q, parked[q], Live(q), gate.queues[q], gate.lastQueued[q])
    BY DEF IInv, Order
  <2>2. gate.queues[q] \in Seq(Offsets) /\ gate.lastQueued[q] \in Offsets \union {0}
    BY <1>1 DEF Gates
  <2>3. ASSUME NEW i \in Nat \ {0}, Held(done, q, parked[q], Live(q), i)
        PROVE  Held(done, q, parked'[q], Live(q)', i)
    BY <2>3, <1>2, <1>3, <1>4 DEF Held, Live
  <2> QED
    BY <2>1, <2>2, <2>3, <1>2, SortedStays
<1>10. Arrival' /\ Fresh'
  BY <1>2 DEF IInv, Arrival, Fresh, Unread, Waiting, Begun
<1> QED
  BY <1>5, <1>6, <1>7, <1>8, <1>9, <1>10 DEF IInv

\* The gate goes on from e, and at most one delivery begins: that of q.
LEMMA GoingOn ==
    ASSUME NEW e \in Gates, NEW q \in Partitions, gate' \in Gates, Alike(e, gate'),
           Still(e, gate') \/ Began(e, gate', q),
           settled' \subseteq Running(e), revoked' \subseteq Running(e),
           \A p \in Partitions : e.running[p] # 0 => Through(done', p, e.running[p] - 1),
           \A p \in Partitions : parked'[p] # 0 =>
              /\ Through(done', p, parked'[p] - 1) /\ p \in e.paused /\ ~stopped'
              /\ e.running[p] # 0 => p \in settled',
           ~stopped',
           \A p \in Partitions :
              Sorted(done', p, parked'[p], IF p \in settled' \union revoked' THEN 0 ELSE e.running[p],
                     e.queues[p], e.lastQueued[p])
    PROVE  Hands' /\ Order'
<1>1. /\ gate'.paused = e.paused /\ gate'.lastQueued = e.lastQueued
      /\ e.queues \in [Partitions -> Seq(Offsets)] /\ e.running \in [Partitions -> Offsets \union {0}]
      /\ e.lastQueued \in [Partitions -> Offsets \union {0}]
  BY DEF Alike, Gates
<1>2. CASE Still(e, gate')
  <2>1. Running(gate') = Running(e)
    BY <1>2 DEF Still, Running
  <2> QED
    BY <1>1, <1>2, <2>1 DEF Hands, Order, Still, Live
<1>3. CASE Began(e, gate', q)
  <2> DEFINE o == Head(e.queues[q])
  <2>1. /\ e.queues[q] # <<>> /\ e.running[q] = 0 /\ q \notin e.paused
        /\ gate'.running = [e.running EXCEPT ![q] = o]
        /\ gate'.queues = [e.queues EXCEPT ![q] = Tail(@)]
    BY <1>3 DEF Began, Ready
  <2>2. parked'[q] = 0 /\ q \notin settled' \union revoked'
    BY <2>1, RunningAre
  <2>3. Sorted(done', q, 0, 0, e.queues[q], e.lastQueued[q])
    BY <2>1, <2>2
  <2>4. /\ o \in Offsets /\ Through(done', q, o - 1)
        /\ Sorted(done', q, 0, o, Tail(e.queues[q]), e.lastQueued[q])
    <3>1. e.queues[q] \in Seq(Offsets) /\ e.lastQueued[q] \in Offsets \union {0}
      BY <1>1
    <3> QED
      BY <2>1, <2>3, <3>1, SortedTakes
  <2> HIDE DEF o
  <2>5. \A p \in Partitions : /\ gate'.running[p] = IF p = q THEN o ELSE e.running[p]
                              /\ gate'.queues[p] = IF p = q THEN Tail(e.queues[q]) ELSE e.queues[p]
    BY <1>1, <2>1
  <2>6. Running(e) \subseteq Running(gate')
    BY <2>1, <2>5, RunningAre DEF Running
  <2>7. Hands'
    BY <1>1, <2>2, <2>4, <2>5, <2>6 DEF Hands
  <2>8. Order'
    <3> SUFFICES ASSUME NEW p \in Partitions
                 PROVE  Sorted(done', p, parked'[p], Live(p)', gate'.queues[p], gate'.lastQueued[p])
      BY DEF Order
    <3>1. CASE p = q
      BY <3>1, <1>1, <2>2, <2>4, <2>5 DEF Live
    <3>2. CASE p # q
      BY <3>2, <1>1, <2>5 DEF Live
    <3> QED
      BY <3>1, <3>2
  <2> QED
    BY <2>7, <2>8
<1> QED
  BY <1>2, <1>3

\* A message comes in, of an owned partition or not.
LEMMA EnqueueKeeps ==
    ASSUME IInv, ~stopped, UNCHANGED <<done, assignments, stopped, core>>,
           NEW p \in Partitions, NEW o \in Offsets, gate' = Enqueued(gate, p, o),
           p \in assignments => Joins(done, p, o, gate.lastQueued[p])
    PROVE  /\ gate' \in Gates /\ Line' /\ Owned' /\ Hands' /\ Order'
           /\ gate'.queued <= gate.queued + 1
           /\ gate'.lastQueued = IF p \in assignments /\ o > gate.lastQueued[p]
                                 THEN [gate.lastQueued EXCEPT ![p] = o] ELSE gate.lastQueued
<1> USE DEF core
<1>1. gate \in Gates /\ gate.queued \in Nat /\ gate.lastQueued \in [Partitions -> Offsets \union {0}]
      /\ gate.running \in [Partitions -> Offsets \union {0}] /\ gate.queues \in [Partitions -> Seq(Offsets)]
  BY DEF IInv, Types, Gates
<1>2. gate.lastQueued[p] \in Nat /\ o \in Nat /\ gate.lastQueued[p] \in Offsets \union {0}
  <2>1. gate.lastQueued[p] \in Offsets \union {0} /\ o \in Offsets \union {0}
    BY <1>1
  <2> QED
    BY <2>1, NumbersAre
<1>3. CASE ~(p \in assignments /\ o > gate.lastQueued[p])
  <2>1. gate' = gate
    BY <1>2, <1>3 DEF Enqueued
  <2> QED
    BY <1>1, <1>3, <2>1 DEF IInv, Line, Owned, Hands, Order, Live
<1>4. CASE p \in assignments /\ o > gate.lastQueued[p]
  <2>1. \A q \in Partitions : gate.queues[q] # <<>> => q \in assignments
    BY DEF IInv, Owned
  <2>2. PICK e \in Gates :
           /\ Fit(e)
           /\ e.queues = [gate.queues EXCEPT ![p] = Append(@, o)]
           /\ e.lastQueued = [gate.lastQueued EXCEPT ![p] = o]
           /\ e.running = gate.running /\ e.paused = gate.paused /\ e.queued = gate.queued + 1
           /\ gate' \in Gates /\ Fit(gate') /\ InLine(gate') /\ Alike(e, gate')
           /\ Still(e, gate') \/ Began(e, gate', p)
    <3>1. Fit(gate) /\ InLine(gate)
      BY DEF IInv, Line
    <3> QED
      BY <1>1, <1>4, <2>1, <3>1, EnqueuedIs
  <2>3. \A q \in Partitions :
           /\ e.queues[q] = IF q = p THEN Append(gate.queues[p], o) ELSE gate.queues[q]
           /\ e.lastQueued[q] = IF q = p THEN o ELSE gate.lastQueued[q]
    BY <1>1, <2>2
  <2>4. Running(e) = Running(gate)
    BY <2>2 DEF Running
  <2>5. \A q \in Partitions : Sorted(done, q, parked[q], Live(q), e.queues[q], e.lastQueued[q])
    <3> SUFFICES ASSUME NEW q \in Partitions
                 PROVE  Sorted(done, q, parked[q], Live(q), e.queues[q], e.lastQueued[q])
      OBVIOUS
    <3>1. Sorted(done, q, parked[q], Live(q), gate.queues[q], gate.lastQueued[q])
      BY DEF IInv, Order
    <3>2. CASE q # p
      BY <2>3, <3>1, <3>2
    <3>3. CASE q = p
      <4>1. gate.queues[p] \in Seq(Offsets)
        BY <1>1
      <4> QED
        BY <1>2, <1>4, <2>3, <3>1, <3>3, <4>1, SortedAppends
    <3> QED
      BY <3>2, <3>3
  <2>6. Hands' /\ Order'
    <3>1. /\ settled' \subseteq Running(e) /\ revoked' \subseteq Running(e)
          /\ \A q \in Partitions : e.running[q] # 0 => Through(done', q, e.running[q] - 1)
          /\ \A q \in Partitions : parked'[q] # 0 =>
                /\ Through(done', q, parked'[q] - 1) /\ q \in e.paused /\ ~stopped'
                /\ e.running[q] # 0 => q \in settled'
      BY <2>2, <2>4 DEF IInv, Hands
    <3>2. \A q \in Partitions :
             Sorted(done', q, parked'[q], IF q \in settled' \union revoked' THEN 0 ELSE e.running[q],
                    e.queues[q], e.lastQueued[q])
      BY <2>2, <2>5 DEF Live
    <3> QED
      BY <2>2, <3>1, <3>2, GoingOn
  <2>7. Line'
    BY <2>2 DEF Line
  <2>8. gate'.queued <= gate.queued + 1
    BY <1>1, <2>2 DEF Still, Began
  <2>9. gate'.lastQueued = e.lastQueued
    BY <2>2 DEF Alike
  <2>10. Owned'
    <3> SUFFICES ASSUME NEW q \in Partitions, gate'.queues[q] # <<>> \/ gate'.lastQueued[q] # 0
                 PROVE  q \in assignments
      BY DEF Owned
    <3>1. CASE q = p
      BY <3>1, <1>4
    <3>2. CASE q # p
      <4>1. e.queues \in [Partitions -> Seq(Offsets)]
        BY <2>2 DEF Gates
      <4>2. gate'.queues[q] = e.queues[q]
        BY <2>2, <3>2, <4>1 DEF Still, Began
      <4> QED
        BY <2>3, <2>9, <3>2, <4>2 DEF IInv, Owned
    <3> QED
      BY <3>1, <3>2
  <2> QED
    BY <1>4, <2>2, <2>6, <2>7, <2>8, <2>9, <2>10
<1> QED
  BY <1>3, <1>4

\* The stream yields a message: it is queued, or waits for room.
LEMMA PullKeeps ==
    ASSUME IInv, NEW p \in Partitions, Pull(p)
    PROVE  IInv'
<1> USE DEF Pull, connection, group, owned, core
<1> DEFINE o == Head(buffer[p])
<1>1. /\ buffer \in [Partitions -> Seq(Offsets)] /\ gate \in Gates /\ pulled = <<>>
      /\ lost \intersect assignments = {} /\ fetched \in [Partitions -> Offsets \union {0}]
  BY DEF IInv, Types, Room
<1>2. /\ o \in Offsets /\ Tail(buffer[p]) \in Seq(Offsets)
      /\ buffer[p] \in Seq(Offsets) /\ buffer[p] # <<>>
  BY <1>1, HeadTailProperties
<1>3. buffer' \in [Partitions -> Seq(Offsets)] /\ buffer'[p] = Tail(buffer[p])
      /\ \A q \in Partitions : q # p => buffer'[q] = buffer[q]
  BY <1>1, <1>2
<1>4. loop' \in Loops /\ Begun' /\ Begun /\ stream /\ ~stopped
  BY DEF IInv, Types, Begun, Loops
<1>5. \A q \in Partitions : gate.lastQueued[q] \in Nat /\ fetched[q] \in Nat
  <2>1. \A q \in Partitions : gate.lastQueued[q] \in Offsets \union {0} /\ fetched[q] \in Offsets \union {0}
    BY <1>1 DEF Gates
  <2> QED
    BY <2>1, NumbersAre
<1>6. \A q \in Partitions \ lost :
         IF q \in assignments
         THEN Follows(done, q, 0, gate.lastQueued[q], buffer[q], fetched[q])
         ELSE Unread(q)
  BY <1>1, <1>4 DEF IInv, Arrival, Waiting
<1>7. p \in assignments =>
         /\ Joins(done, p, o, gate.lastQueued[p])
         /\ Follows(done, p, o, gate.lastQueued[p], Tail(buffer[p]), fetched[p])
         /\ \A t \in Nat : t >= o => Follows(done, p, 0, t, Tail(buffer[p]), fetched[p])
  BY <1>1, <1>2, <1>5, <1>6, FollowsHands
<1>8. p \in assignments \/ p \in lost
  BY <1>2, <1>6 DEF Unread
<1>9. o \in Nat \ {0}
  BY <1>2, OffsetsAre
<1> HIDE DEF o
<1>10. CASE gate.queued >= bufferedMessages
  <2>1. loop' = "room" /\ pulled' = <<p, o>> /\ gate' = gate
    BY <1>10 DEF o
  <2>2. Types'
    BY <1>3, <1>4, <2>1 DEF IInv, Types, ConnectionTypeOK
  <2>3. Line' /\ Owned' /\ CommittedIsDone' /\ Hands'
    BY <2>1 DEF IInv, Line, Owned, CommittedIsDone, Hands
  <2>4. Order'
    BY <2>1 DEF IInv, Order, Live
  <2>5. Room'
    <3>1. gate.queued \in Nat /\ gate.queued <= bufferedMessages /\ bufferedMessages \in Nat
      BY <1>1, BoundsAre DEF IInv, Room, Gates
    <3>2. pulled' \in Partitions \X Offsets
      BY <1>2, <2>1 DEF o
    <3> QED
      BY <1>4, <1>10, <2>1, <3>1, <3>2 DEF Room
  <2>6. Waiting(p)' = o /\ \A q \in Partitions : q # p => Waiting(q)' = 0
    BY <2>1 DEF Waiting
  <2>7. Arrival'
    <3> SUFFICES ASSUME NEW q \in Partitions \ lost
                 PROVE  IF q \in assignments
                        THEN Follows(done, q, Waiting(q)', gate.lastQueued[q], buffer'[q], fetched[q])
                        ELSE Unread(q)'
      BY <2>1 DEF Arrival
    <3>1. CASE q = p
      BY <1>3, <1>7, <1>8, <2>6, <3>1
    <3>2. CASE q # p
      BY <1>3, <1>6, <2>6, <3>2 DEF Unread
    <3> QED
      BY <3>1, <3>2
  <2> QED
    BY <1>4, <2>2, <2>3, <2>4, <2>5, <2>7 DEF IInv, Fresh
<1>11. CASE ~(gate.queued >= bufferedMessages)
  <2>1. gate' = Enqueued(gate, p, o) /\ UNCHANGED <<loop, pulled>>
    BY <1>11 DEF o
  <2>2. /\ gate' \in Gates /\ Line' /\ Owned' /\ Hands' /\ Order'
        /\ gate'.queued <= gate.queued + 1
        /\ gate'.lastQueued = IF p \in assignments /\ o > gate.lastQueued[p]
                              THEN [gate.lastQueued EXCEPT ![p] = o] ELSE gate.lastQueued
    <3>1. o \in Offsets /\ UNCHANGED <<done, assignments, stopped, core>>
      BY <1>2 DEF o
    <3> QED
      BY <1>4, <1>7, <2>1, <3>1, EnqueueKeeps
  <2>3. Types'
    BY <1>3, <2>1, <2>2 DEF IInv, Types, ConnectionTypeOK
  <2>4. Room'
    <3>1. gate.queued \in Nat /\ gate'.queued \in Nat /\ bufferedMessages \in Nat
      BY <1>1, <2>2, BoundsAre DEF Gates
    <3> QED
      BY <1>11, <2>1, <2>2, <3>1 DEF IInv, Room
  <2>5. CommittedIsDone'
    BY DEF IInv, CommittedIsDone
  <2>6. \A q \in Partitions : Waiting(q)' = 0
    BY <1>1, <2>1 DEF Waiting
  <2>7. Arrival'
    <3> SUFFICES ASSUME NEW q \in Partitions \ lost
                 PROVE  IF q \in assignments
                        THEN Follows(done, q, 0, gate'.lastQueued[q], buffer'[q], fetched[q])
                        ELSE Unread(q)'
      BY <2>6 DEF Arrival
    <3>1. gate.lastQueued \in [Partitions -> Offsets \union {0}]
      BY <1>1 DEF Gates
    <3>2. CASE q = p
      <4>1. gate'.lastQueued[p] \in Nat /\ gate'.lastQueued[p] >= o
        BY <1>5, <1>8, <1>9, <2>2, <3>1, <3>2
      <4> QED
        BY <1>3, <1>7, <1>8, <3>2, <4>1
    <3>3. CASE q # p
      <4>1. gate'.lastQueued[q] = gate.lastQueued[q]
        BY <2>2, <3>1, <3>3
      <4> QED
        BY <1>3, <1>6, <2>6, <3>3, <4>1 DEF Unread
    <3> QED
      BY <3>2, <3>3
  <2> QED
    BY <1>4, <2>2, <2>3, <2>4, <2>5, <2>7 DEF IInv, Fresh
<1> QED
  BY <1>10, <1>11

\* The stream is over, whatever the reason.
LEMMA PumpReturnedKeeps ==
    ASSUME IInv, PumpReturned, Begun,
           UNCHANGED <<connection, committed, done, client, gate, owned, core>>,
           member' = member, troubles' \in 0..MaxTroubles
    PROVE  IInv'
<1>1. /\ pulled' = <<>> /\ stream' = FALSE /\ stopped' = stopped
      /\ loop' \in {"ended", "opening", "backoff"} /\ rotating' \in BOOLEAN
  BY DEF PumpReturned, IInv, Types
<1>2. loop' \in Loops /\ loop' \notin {"room", "granted"} /\ Begun'
  BY <1>1 DEF Loops, Begun
<1>3. ConnectionTypeOK' /\ member' \in BOOLEAN
  BY DEF connection, ConnectionTypeOK, IInv, Types
<1> QED
  BY <1>1, <1>2, <1>3, ReaderKeeps

\* There is room: the message that waited is queued, or dropped with its stream.
LEMMA GrantedKeeps ==
    ASSUME IInv, Granted PROVE IInv'
<1> USE DEF Granted
<1>1. CASE stopped \/ ~stream
  <2>1. Begun /\ troubles' \in 0..MaxTroubles
    BY DEF Begun, IInv, Types
  <2> QED
    BY <1>1, <2>1, PumpReturnedKeeps DEF group
<1>2. CASE ~(stopped \/ ~stream)
  <2> USE DEF connection, group, client, owned, core
  <2>1. /\ gate' = Enqueued(gate, pulled[1], pulled[2]) /\ loop' = "pumping" /\ pulled' = <<>>
        /\ stream /\ ~stopped /\ UNCHANGED <<stream, rotating, stopped>>
    BY <1>2
  <2>2. PICK p \in Partitions, o \in Offsets : pulled = <<p, o>>
    BY DEF IInv, Room
  <2>3. pulled # <<>> /\ pulled[1] = p /\ pulled[2] = o
    BY <2>2
  <2>4. Waiting(p) = o /\ \A q \in Partitions : q # p => Waiting(q) = 0
    BY <2>3 DEF Waiting
  <2>5. /\ gate \in Gates /\ buffer \in [Partitions -> Seq(Offsets)] /\ o \in Nat \ {0}
        /\ fetched \in [Partitions -> Offsets \union {0}] /\ lost \intersect assignments = {}
    BY OffsetsAre DEF IInv, Types
  <2>6. gate.lastQueued \in [Partitions -> Offsets \union {0}]
    BY <2>5 DEF Gates
  <2>7. /\ gate.lastQueued[p] \in Nat /\ fetched[p] \in Nat
    <3>1. gate.lastQueued[p] \in Offsets \union {0} /\ fetched[p] \in Offsets \union {0}
      BY <2>5, <2>6
    <3> QED
      BY <3>1, NumbersAre
  <2>8. \A q \in Partitions \ lost :
           IF q \in assignments
           THEN Follows(done, q, Waiting(q), gate.lastQueued[q], buffer[q], fetched[q])
           ELSE Unread(q)
    BY <2>1 DEF IInv, Arrival
  <2>9. p \in assignments =>
           /\ Joins(done, p, o, gate.lastQueued[p])
           /\ \A t \in Nat : t >= o => Follows(done, p, 0, t, buffer[p], fetched[p])
    BY <2>4, <2>5, <2>7, <2>8, FollowsLetsIn
  <2>10. p \in assignments \/ p \in lost
    BY <2>4, <2>5, <2>8 DEF Unread
  <2>11. /\ gate' \in Gates /\ Line' /\ Owned' /\ Hands' /\ Order'
         /\ gate'.queued <= gate.queued + 1
         /\ gate'.lastQueued = IF p \in assignments /\ o > gate.lastQueued[p]
                               THEN [gate.lastQueued EXCEPT ![p] = o] ELSE gate.lastQueued
    <3>1. UNCHANGED <<done, assignments, stopped, core>> /\ gate' = Enqueued(gate, p, o)
      BY <2>1, <2>3
    <3> QED
      BY <2>1, <2>9, <3>1, EnqueueKeeps
  <2>12. loop' \in Loops /\ Begun'
    BY <2>1 DEF Loops, Begun
  <2>13. Types'
    BY <2>1, <2>11, <2>12 DEF IInv, Types, ConnectionTypeOK
  <2>14. Room'
    <3>1. gate.queued \in Nat /\ gate'.queued \in Nat /\ bufferedMessages \in Nat
      BY <2>5, <2>11, BoundsAre DEF Gates
    <3> QED
      BY <2>1, <2>11, <3>1 DEF IInv, Room
  <2>15. CommittedIsDone'
    BY DEF IInv, CommittedIsDone
  <2>16. \A q \in Partitions : Waiting(q)' = 0
    BY <2>1 DEF Waiting
  <2>17. Arrival'
    <3> SUFFICES ASSUME NEW q \in Partitions \ lost
                 PROVE  IF q \in assignments
                        THEN Follows(done, q, 0, gate'.lastQueued[q], buffer[q], fetched[q])
                        ELSE Unread(q)'
      BY <2>16 DEF Arrival
    <3>1. CASE q = p
      <4>1. gate'.lastQueued[p] \in Nat /\ gate'.lastQueued[p] >= o
        BY <2>5, <2>6, <2>7, <2>10, <2>11, <3>1
      <4> QED
        BY <2>9, <2>10, <3>1, <4>1
    <3>2. CASE q # p
      <4>1. gate'.lastQueued[q] = gate.lastQueued[q]
        BY <2>6, <2>11, <3>2
      <4> QED
        BY <2>4, <2>8, <2>16, <3>2, <4>1 DEF Unread
    <3> QED
      BY <3>1, <3>2
  <2> QED
    BY <2>11, <2>12, <2>13, <2>14, <2>15, <2>17 DEF IInv, Fresh
<1> QED
  BY <1>1, <1>2

\* Fewer are queued, or as many: who waits for room goes on once there is some.
LEMMA RoomGoesOn ==
    ASSUME IInv, gate' \in Gates, gate'.queued <= gate.queued,
           UNCHANGED <<stopped, pulled>>,
           \/ Release(gate', stopped)
           \/ gate'.queued = gate.queued /\ UNCHANGED loop
    PROVE  Room' /\ loop' \in Loops /\ (Begun' <=> Begun)
<1>1. gate.queued \in Nat /\ gate'.queued \in Nat /\ bufferedMessages \in Nat
  BY BoundsAre DEF IInv, Types, Gates
<1>2. loop' = loop \/ (loop = "room" /\ loop' = "granted")
  BY DEF Release
<1>3. loop' \in Loops /\ (Begun' <=> Begun)
  BY <1>2 DEF Begun, IInv, Types, Loops
<1>4. Room'
  BY <1>1, <1>2 DEF IInv, Room, Release
<1> QED
  BY <1>3, <1>4

\* Where deliveries end and pauses do, the gate goes on from e.
LEMMA FlowKeeps ==
    ASSUME IInv, NEW e \in Gates, NEW p \in Partitions, ~stopped,
           GateAfter(Flows(e, p)),
           Fit(e), e.queues = gate.queues, e.lastQueued = gate.lastQueued, e.queued = gate.queued,
           \A q \in Partitions \ {p} : Ready(e, q) => q \in Range(e.ready),
           Cardinality(Running(e)) + 1 < Concurrency => e.ready = <<>>,
           UNCHANGED <<connection, group, client, stream, pulled, rotating, stopped, owned, troubles>>,
           parked' \in [Partitions -> Offsets \union {0}],
           settled' \subseteq Running(e), revoked' \subseteq Running(e),
           \A q \in Partitions : e.running[q] # 0 => Through(done, q, e.running[q] - 1),
           \A q \in Partitions : parked'[q] # 0 =>
              /\ Through(done, q, parked'[q] - 1) /\ q \in e.paused
              /\ e.running[q] # 0 => q \in settled',
           \A q \in Partitions :
              Sorted(done, q, parked'[q], IF q \in settled' \union revoked' THEN 0 ELSE e.running[q],
                     e.queues[q], e.lastQueued[q])
    PROVE  IInv' /\ Alike(e, gate') /\ (Still(e, gate') \/ \E q \in Partitions : Began(e, gate', q))
<1> USE DEF connection, group, client, owned
<1>1. \A q \in Partitions : e.queues[q] # <<>> => q \in assignments
  BY DEF IInv, Owned
<1>2. gate' = Flows(e, p)
  BY DEF GateAfter
<1>3. /\ gate' \in Gates /\ Fit(gate') /\ InLine(gate') /\ Alike(e, gate')
      /\ \/ Still(e, gate')
         \/ \E q \in Range(e.ready) \union {p} : q \in Partitions /\ Began(e, gate', q)
  BY <1>1, <1>2, FlowsIs
<1>4. PICK q \in Partitions : Still(e, gate') \/ Began(e, gate', q)
  BY <1>3
<1>5. Hands' /\ Order'
  <2>1. done' = done /\ ~stopped'
    OBVIOUS
  <2> QED
    BY <1>3, <1>4, <2>1, GoingOn
<1>6. gate'.queued <= gate.queued
  BY <1>4 DEF Still, Began, Gates
<1>7. Room' /\ loop' \in Loops /\ (Begun' <=> Begun)
  <2>1. gate.queued \in Nat /\ gate'.queued \in Nat
    BY <1>3 DEF IInv, Types, Gates
  <2>2. \/ Release(gate', stopped)
        \/ gate'.queued = gate.queued /\ UNCHANGED loop
    BY <1>2, <1>6, <2>1 DEF GateAfter
  <2> QED
    BY <1>3, <1>6, <2>2, RoomGoesOn
<1>8. Types'
  <2>1. settled' \subseteq Partitions /\ revoked' \subseteq Partitions
    BY RunningAre
  <2> QED
    BY <1>3, <1>7, <2>1 DEF IInv, Types, ConnectionTypeOK
<1>9. Line'
  BY <1>3 DEF Line
<1>10. gate'.lastQueued = gate.lastQueued
  BY <1>3 DEF Alike
<1>11. Owned'
  <2> SUFFICES ASSUME NEW r \in Partitions, gate'.queues[r] # <<>> \/ gate'.lastQueued[r] # 0
               PROVE  r \in assignments
    BY DEF Owned
  <2>1. gate'.queues[r] # <<>> => gate.queues[r] # <<>>
    <3>1. gate.queues \in [Partitions -> Seq(Offsets)]
      BY DEF IInv, Types, Gates
    <3>2. CASE Still(e, gate')
      BY <3>2 DEF Still
    <3>3. CASE Began(e, gate', q)
      BY <3>1, <3>3 DEF Began, Ready
    <3> QED
      BY <1>4, <3>2, <3>3
  <2> QED
    BY <1>10, <2>1 DEF IInv, Owned
<1>12. CommittedIsDone'
  BY DEF IInv, CommittedIsDone
<1>13. Arrival' /\ Fresh'
  BY <1>7, <1>10 DEF IInv, Arrival, Fresh, Unread, Waiting
<1> QED
  BY <1>3, <1>5, <1>7, <1>8, <1>9, <1>11, <1>12, <1>13 DEF IInv

\* A pause ends, and the gate goes on from it.
LEMMA ResumeKeeps ==
    ASSUME Inv, NEW p \in Partitions, Resume(p)
    PROVE  /\ IInv' /\ ~stopped
           /\ \E e \in Gates : /\ e = [gate EXCEPT !.paused = @ \ {p}] /\ Alike(e, gate')
                               /\ Still(e, gate') \/ \E q \in Partitions : Began(e, gate', q)
<1> USE DEF Resume
<1> DEFINE e == [gate EXCEPT !.paused = @ \ {p}]
<1>0. IInv /\ parked[p] # 0 /\ <<p, parked[p]>> \in done
  BY DEF Inv, Returned
<1>1. gate \in Gates /\ parked \in [Partitions -> Offsets \union {0}]
  BY <1>0 DEF IInv, Types
<1>2. /\ e \in Gates /\ e.queues = gate.queues /\ e.ready = gate.ready /\ e.running = gate.running
      /\ e.queued = gate.queued /\ e.lastQueued = gate.lastQueued
      /\ e.keys = gate.keys /\ e.paused = gate.paused \ {p}
  BY <1>1 DEF Gates
<1>3. ~stopped
  BY <1>0 DEF IInv, Hands
<1>4. GateAfter(Flows(e, p))
  OBVIOUS
<1> HIDE DEF e
<1>5. Running(e) = Running(gate)
  BY <1>2 DEF Running
<1>6. Fit(e)
  BY <1>0, <1>2, <1>5 DEF IInv, Line, Fit
<1>7. \A q \in Partitions \ {p} : Ready(e, q) => q \in Range(e.ready)
  BY <1>0, <1>2, <1>3 DEF IInv, Line, InLine, Ready
<1>8. Cardinality(Running(e)) + 1 < Concurrency => e.ready = <<>>
  <2>1. Cardinality(Running(e)) < Concurrency => e.ready = <<>>
    BY <1>0, <1>2, <1>3, <1>5 DEF IInv, Line, InLine
  <2> QED
    BY <2>1, RunningAre, BoundsAre
<1>9. parked'[p] = 0 /\ \A q \in Partitions : q # p => parked'[q] = parked[q]
  BY <1>1
<1>10. parked' \in [Partitions -> Offsets \union {0}]
  BY <1>1
<1>11. settled' \subseteq Running(e) /\ revoked' \subseteq Running(e)
  BY <1>0, <1>5 DEF IInv, Hands
<1>12. \A q \in Partitions : e.running[q] # 0 => Through(done, q, e.running[q] - 1)
  BY <1>0, <1>2 DEF IInv, Hands
<1>13. \A q \in Partitions : parked'[q] # 0 =>
          /\ Through(done, q, parked'[q] - 1) /\ q \in e.paused
          /\ e.running[q] # 0 => q \in settled'
  BY <1>0, <1>2, <1>9 DEF IInv, Hands
<1>14. ASSUME NEW q \in Partitions
       PROVE  Sorted(done, q, parked'[q], IF q \in settled' \union revoked' THEN 0 ELSE e.running[q],
                     e.queues[q], e.lastQueued[q])
  <2>1. Sorted(done, q, parked[q], Live(q), gate.queues[q], gate.lastQueued[q])
    BY <1>0, <1>3 DEF IInv, Order
  <2>2. gate.queues[q] \in Seq(Offsets) /\ gate.lastQueued[q] \in Offsets \union {0}
    BY <1>1 DEF Gates
  <2>3. ASSUME NEW i \in Nat \ {0}, Held(done, q, parked[q], Live(q), i)
        PROVE  Held(done, q, parked'[q], Live(q), i)
    BY <1>0, <2>3, <1>9 DEF Held
  <2>4. Sorted(done, q, parked'[q], Live(q), gate.queues[q], gate.lastQueued[q])
    BY <2>1, <2>2, <2>3, SortedStays
  <2> QED
    BY <2>4, <1>2 DEF Live
<1>15. UNCHANGED <<connection, group, client, stream, pulled, rotating, stopped, owned, troubles>>
  OBVIOUS
<1>16. IInv' /\ Alike(e, gate') /\ (Still(e, gate') \/ \E q \in Partitions : Began(e, gate', q))
  <2> HIDE DEF Resume
  <2> QED
    BY <1>2, <1>3, <1>4, <1>6, <1>7, <1>8, <1>10, <1>11, <1>12, <1>13, <1>14, <1>15, <1>0, FlowKeeps
<1> QED
  BY <1>2, <1>3, <1>16 DEF e

\* A worker is free, and the gate goes on from it.
LEMMA DeliveryEndsKeeps ==
    ASSUME IInv, NEW p \in Partitions, DeliveryEnds(p)
    PROVE  /\ IInv'
           /\ \E e \in Gates : /\ e = [gate EXCEPT !.running[p] = 0]
                               /\ IF stopped THEN gate' = e
                                  ELSE /\ Alike(e, gate')
                                       /\ Still(e, gate') \/ \E q \in Partitions : Began(e, gate', q)
<1> USE DEF DeliveryEnds
<1> DEFINE e == [gate EXCEPT !.running[p] = 0]
<1>1. gate \in Gates /\ parked \in [Partitions -> Offsets \union {0}]
      /\ gate.running \in [Partitions -> Offsets \union {0}]
  BY DEF IInv, Types, Gates
<1>2. /\ e \in Gates /\ e.queues = gate.queues /\ e.ready = gate.ready
      /\ e.running = [gate.running EXCEPT ![p] = 0]
      /\ e.queued = gate.queued /\ e.lastQueued = gate.lastQueued
      /\ e.keys = gate.keys /\ e.paused = gate.paused
  BY <1>1 DEF Gates
<1>3. /\ p \in settled /\ settled' = settled \ {p} /\ revoked' = revoked \ {p}
      /\ GateAfter(IF stopped THEN e ELSE Flows(e, p))
  OBVIOUS
<1> HIDE DEF e
<1>4. \A q \in Partitions : e.running[q] = IF q = p THEN 0 ELSE gate.running[q]
  BY <1>1, <1>2
<1>5. Running(e) = Running(gate) \ {p} /\ p \in Running(gate)
  BY <1>3, <1>4 DEF Running, IInv, Hands
<1>6. Cardinality(Running(gate)) = Cardinality(Running(e)) + 1
  <2>1. IsFiniteSet(Running(gate)) /\ Cardinality(Running(gate)) \in Nat /\ Cardinality(Running(e)) \in Nat
    BY RunningAre, BoundsAre
  <2>2. Cardinality(Running(e)) = Cardinality(Running(gate)) - 1
    BY <1>5, <2>1, FS_RemoveElement
  <2> QED
    BY <2>1, <2>2
<1>7. Fit(e)
  <2>1. Cardinality(Running(e)) <= Concurrency
    BY <1>6, RunningAre, BoundsAre DEF IInv, Line, Fit
  <2>2. Range(gate.ready) \subseteq Partitions
    <3>1. gate.ready \in Seq(Partitions)
      BY <1>1 DEF Gates
    <3> QED
      BY <3>1 DEF Range
  <2>3. \A q \in Range(e.ready) : e.queues[q] # <<>> /\ e.running[q] = 0 /\ q \notin e.paused
    BY <1>2, <1>4, <2>2 DEF IInv, Line, Fit
  <2> QED
    BY <1>2, <2>1, <2>3 DEF IInv, Line, Fit
<1>8. settled' \subseteq Running(e) /\ revoked' \subseteq Running(e)
  BY <1>3, <1>5 DEF IInv, Hands
<1>9. \A q \in Partitions : e.running[q] # 0 => Through(done, q, e.running[q] - 1)
  BY <1>4 DEF IInv, Hands
<1>10. \A q \in Partitions : parked'[q] # 0 =>
          /\ Through(done, q, parked'[q] - 1) /\ q \in e.paused
          /\ e.running[q] # 0 => q \in settled'
  BY <1>2, <1>3, <1>4 DEF IInv, Hands
<1>11. UNCHANGED <<connection, group, client, stream, pulled, rotating, stopped, owned, troubles>>
       /\ parked' = parked
  OBVIOUS
<1>12. CASE ~stopped
  <2>1. \A q \in Partitions \ {p} : Ready(e, q) => q \in Range(e.ready)
    BY <1>2, <1>4, <1>12 DEF IInv, Line, InLine, Ready
  <2>2. Cardinality(Running(e)) + 1 < Concurrency => e.ready = <<>>
    BY <1>2, <1>6, <1>12 DEF IInv, Line, InLine
  <2>3. \A q \in Partitions :
           Sorted(done, q, parked'[q], IF q \in settled' \union revoked' THEN 0 ELSE e.running[q],
                  e.queues[q], e.lastQueued[q])
    <3> SUFFICES ASSUME NEW q \in Partitions
                 PROVE  Sorted(done, q, parked[q],
                               IF q \in settled' \union revoked' THEN 0 ELSE e.running[q],
                               gate.queues[q], gate.lastQueued[q])
      BY <1>2, <1>11
    <3>1. Sorted(done, q, parked[q], Live(q), gate.queues[q], gate.lastQueued[q])
      BY <1>12 DEF IInv, Order
    <3>2. Live(q) = IF q \in settled' \union revoked' THEN 0 ELSE e.running[q]
      BY <1>3, <1>4 DEF Live
    <3> QED
      BY <3>1, <3>2
  <2>4. IInv' /\ Alike(e, gate') /\ (Still(e, gate') \/ \E q \in Partitions : Began(e, gate', q))
    <3>1. GateAfter(Flows(e, p)) /\ parked' \in [Partitions -> Offsets \union {0}]
      BY <1>1, <1>3, <1>11, <1>12
    <3> HIDE DEF DeliveryEnds
    <3> QED
      BY <1>2, <1>7, <1>8, <1>9, <1>10, <1>11, <1>12, <2>1, <2>2, <2>3, <3>1, FlowKeeps
  <2> QED
    BY <1>2, <1>12, <2>4 DEF e
<1>13. CASE stopped
  <2> USE DEF connection, group, client, owned
  <2>1. gate' = e /\ UNCHANGED loop
    <3>1. gate' = e
      BY <1>3, <1>13 DEF GateAfter
    <3>2. ~(e.queued < gate.queued)
      BY <1>1, <1>2 DEF Gates
    <3> QED
      BY <1>3, <1>13, <3>1, <3>2 DEF GateAfter
  <2>2. Types'
    BY <1>2, <1>3, <1>11, <2>1 DEF IInv, Types, ConnectionTypeOK
  <2>3. Line'
    BY <1>7, <1>11, <1>13, <2>1 DEF Line
  <2>4. Room'
    BY <1>2, <1>11, <2>1 DEF IInv, Room
  <2>5. Owned' /\ CommittedIsDone'
    BY <1>2, <1>11, <2>1 DEF IInv, Owned, CommittedIsDone
  <2>6. Hands'
    <3>1. \A q \in Partitions : parked[q] = 0
      BY <1>13 DEF IInv, Hands
    <3> QED
      BY <1>8, <1>9, <1>11, <2>1, <3>1 DEF Hands
  <2>7. Order' /\ Arrival' /\ Fresh'
    BY <1>11, <1>13, <2>1 DEF Order, Arrival, Fresh, IInv, Begun
  <2> QED
    BY <1>2, <1>13, <2>1, <2>2, <2>3, <2>4, <2>5, <2>6, <2>7 DEF IInv, e
<1> QED
  BY <1>12, <1>13

\* What joined() forgets.
LostNow(A) ==
    (assigned \union gate.keys \union gate.epochs \union gate.paused
       \union {p \in Partitions : gate.lastQueued[p] # 0}) \ A

Rotates(A) == (lost \union LostNow(A)) \intersect A # {} /\ stream /\ ~stopped

\* The gate after a join: of what is lost nothing stays, and of nothing if the
\* stream is left.
LEMMA JoinedGate ==
    ASSUME IInv, NEW A \in SUBSET Partitions, Joined(A)
    PROVE  /\ LostNow(A) \subseteq Partitions \ A
           /\ gate' \in Gates /\ Line'
           /\ gate'.running = gate.running /\ gate'.paused = gate.paused \ LostNow(A)
           /\ gate'.queued <= gate.queued
           /\ \A p \in Partitions :
                 IF p \in LostNow(A) \/ Rotates(A)
                 THEN gate'.queues[p] = <<>> /\ gate'.lastQueued[p] = 0
                 ELSE gate'.queues[p] = gate.queues[p] /\ gate'.lastQueued[p] = gate.lastQueued[p]
           /\ assigned' = A /\ Release(gate', stopped)
           /\ lost' = IF Rotates(A) THEN {} ELSE (lost \union LostNow(A)) \ A
           /\ rotating' = (rotating \/ Rotates(A)) /\ stream' = (stream /\ ~Rotates(A))
           /\ parked' = [p \in Partitions |-> IF p \in LostNow(A) THEN 0 ELSE parked[p]]
           /\ revoked' = revoked \union (LostNow(A) \intersect Running(gate))
           /\ UNCHANGED <<pulled, stopped, settled>>
<1> DEFINE S == LostNow(A)
           d == Discard(gate, S)
           f == Forget(d, S)
           r == Rotated(f)
<1>1. gate \in Gates /\ assigned \subseteq Partitions
  BY DEF IInv, Types
<1>2. S \in SUBSET Partitions /\ S \subseteq Partitions \ A
  BY <1>1 DEF LostNow, Gates
<1>3. /\ gate' = IF Rotates(A) THEN r ELSE f
      /\ assigned' = A /\ Release(gate', stopped)
      /\ lost' = IF Rotates(A) THEN {} ELSE (lost \union S) \ A
      /\ rotating' = (rotating \/ Rotates(A)) /\ stream' = (stream /\ ~Rotates(A))
      /\ parked' = [p \in Partitions |-> IF p \in S THEN 0 ELSE parked[p]]
      /\ revoked' = revoked \union (S \intersect Running(gate))
      /\ UNCHANGED <<pulled, stopped, settled>>
  BY DEF Joined, LostNow, Rotates, ComesBack
<1>4. Fit(gate) /\ (~stopped => InLine(gate))
  BY DEF IInv, Line
<1> HIDE DEF S
<1>5. /\ d \in Gates /\ Fit(d) /\ (InLine(gate) => InLine(d))
      /\ d.queues = [p \in Partitions |-> IF p \in S THEN <<>> ELSE gate.queues[p]]
      /\ d.running = gate.running /\ d.paused = gate.paused /\ d.lastQueued = gate.lastQueued
      /\ d.queued <= gate.queued
  BY <1>1, <1>2, <1>4, DiscardKeeps
<1> HIDE DEF d
<1>6. \A p \in S : d.queues[p] = <<>>
  BY <1>2, <1>5
<1>7. /\ f \in Gates /\ Fit(f) /\ (InLine(d) => InLine(f))
      /\ f.queues = d.queues /\ f.running = d.running /\ f.paused = d.paused \ S
      /\ f.lastQueued = [p \in Partitions |-> IF p \in S THEN 0 ELSE d.lastQueued[p]]
      /\ f.queued = d.queued
  BY <1>2, <1>5, <1>6, ForgetKeeps
<1> HIDE DEF f
<1>8. /\ r \in Gates /\ Fit(r) /\ (InLine(f) => InLine(r))
      /\ r.queues = [p \in Partitions |-> <<>>] /\ r.running = f.running /\ r.paused = f.paused
      /\ r.lastQueued = [p \in Partitions |-> 0] /\ r.queued <= f.queued
  BY <1>7, RotatedKeeps
<1> HIDE DEF r
<1>9. gate.queued \in Nat /\ d.queued \in Nat /\ f.queued \in Nat /\ r.queued \in Nat
  BY <1>1, <1>5, <1>7, <1>8 DEF Gates
<1>10. gate' \in Gates /\ Fit(gate') /\ (~stopped' => InLine(gate'))
       /\ gate'.running = gate.running /\ gate'.paused = gate.paused \ S /\ gate'.queued <= gate.queued
  BY <1>3, <1>4, <1>5, <1>7, <1>8, <1>9
<1>11. \A p \in Partitions :
          IF p \in S \/ Rotates(A)
          THEN gate'.queues[p] = <<>> /\ gate'.lastQueued[p] = 0
          ELSE gate'.queues[p] = gate.queues[p] /\ gate'.lastQueued[p] = gate.lastQueued[p]
  BY <1>3, <1>5, <1>7, <1>8
<1> QED
  BY <1>2, <1>3, <1>10, <1>11 DEF S, Line

\* A rebalance completes.
LEMMA JoinsKeep ==
    ASSUME IInv, NEW A \in SUBSET Partitions, Assign(A), Joined(A), Begun, ~stopped,
           UNCHANGED <<connection, committed>>,
           member' \in BOOLEAN, troubles' \in 0..MaxTroubles
    PROVE  IInv'
<1> DEFINE S == LostNow(A)
<1>1. /\ S \subseteq Partitions \ A
      /\ gate' \in Gates /\ Line'
      /\ gate'.running = gate.running /\ gate'.paused = gate.paused \ S
      /\ gate'.queued <= gate.queued
      /\ \A p \in Partitions :
            IF p \in S \/ Rotates(A)
            THEN gate'.queues[p] = <<>> /\ gate'.lastQueued[p] = 0
            ELSE gate'.queues[p] = gate.queues[p] /\ gate'.lastQueued[p] = gate.lastQueued[p]
      /\ assigned' = A /\ Release(gate', stopped)
      /\ lost' = IF Rotates(A) THEN {} ELSE (lost \union S) \ A
      /\ rotating' = (rotating \/ Rotates(A)) /\ stream' = (stream /\ ~Rotates(A))
      /\ parked' = [p \in Partitions |-> IF p \in S THEN 0 ELSE parked[p]]
      /\ revoked' = revoked \union (S \intersect Running(gate))
      /\ UNCHANGED <<pulled, stopped, settled>>
  BY JoinedGate
<1>2. /\ gate \in Gates /\ assigned = assignments /\ assignments \subseteq Partitions
      /\ committed \in [Partitions -> Offsets \union {0}] /\ fetched \in [Partitions -> Offsets \union {0}]
      /\ parked \in [Partitions -> Offsets \union {0}] /\ lost \subseteq Partitions
      /\ buffer \in [Partitions -> Seq(Offsets)]
  BY DEF IInv, Types
<1>3. \A p \in Partitions \ A : p \in assignments \/ gate.lastQueued[p] # 0 => p \in S
  BY <1>2 DEF LostNow
<1>4. \A p \in Partitions \ A : gate.queues[p] # <<>> => p \in S
  BY <1>2, <1>3 DEF IInv, Owned
<1> HIDE DEF S
<1>5. assignments' = A /\ buffer' = buffer
  BY DEF Assign
<1>6. /\ fetched' \in [Partitions -> Offsets \union {0}]
      /\ \A p \in Partitions : fetched'[p] = fetched[p] \/ Through(done', p, fetched'[p])
      /\ done \subseteq done' /\ done' \subseteq Partitions \X Offsets
  <2> DEFINE T == IF stream THEN {p \in A \intersect NoneCommitted : fetched[p] = 0} ELSE {}
             places == [p \in Partitions |-> IF p \in A \ NoneCommitted THEN committed[p] ELSE fetched[p]]
  <2>1. T \in SUBSET Partitions /\ ReadOn(T, places)
    BY DEF Assign
  <2>2. places \in [Partitions -> Offsets \union {0}]
        /\ \A p \in Partitions : places[p] = fetched[p] \/ places[p] = committed[p]
    BY <1>2
  <2> HIDE DEF T, places
  <2>3. /\ fetched' \in [Partitions -> Offsets \union {0}]
        /\ \A p \in Partitions \ T : fetched'[p] = places[p]
        /\ \A p \in T : Through(done', p, fetched'[p])
        /\ done \subseteq done' /\ done' \subseteq Partitions \X Offsets
    BY <2>1, <2>2, ReadOnIs
  <2>4. \A p \in Partitions : Through(done', p, committed[p])
    BY <2>3, CommittedThrough, DoneMore DEF IInv
  <2> QED
    BY <2>2, <2>3, <2>4
<1>7. Room' /\ loop' \in Loops /\ Begun'
  BY <1>1, RoomGoesOn
<1>8. parked' \in [Partitions -> Offsets \union {0}]
      /\ \A p \in Partitions : parked'[p] = IF p \in S THEN 0 ELSE parked[p]
  BY <1>1, <1>2
<1>9. Types'
  <2>1. rotating' \in BOOLEAN /\ stream' \in BOOLEAN /\ revoked' \subseteq Partitions
        /\ lost' \subseteq Partitions /\ lost' \intersect A = {}
    BY <1>1, <1>2, RunningAre DEF IInv, Types
  <2> QED
    BY <1>1, <1>2, <1>5, <1>6, <1>7, <1>8, <2>1 DEF IInv, Types, ConnectionTypeOK, connection
<1>10. Owned'
  BY <1>1, <1>3, <1>4, <1>5 DEF Owned
<1>11. CommittedIsDone'
  BY <1>6, DoneMore DEF CommittedIsDone
<1>12. Running(gate') = Running(gate)
  BY <1>1 DEF Running
<1>13. Hands'
  BY <1>1, <1>6, <1>8, <1>12, DoneMore DEF IInv, Hands
<1>14. Order'
  <2> SUFFICES ASSUME NEW p \in Partitions
               PROVE  Sorted(done', p, parked'[p], Live(p)', gate'.queues[p], gate'.lastQueued[p])
    BY DEF Order
  <2>1. CASE p \in S \/ Rotates(A)
    BY <1>1, <2>1, SortedAnew
  <2>2. CASE ~(p \in S \/ Rotates(A))
    BY <1>1, <1>6, <1>8, <2>2, DoneMore DEF Live
  <2> QED
    BY <2>1, <2>2
<1>15. Arrival'
  <2> SUFFICES ASSUME stream, ~Rotates(A), NEW p \in Partitions \ lost'
               PROVE  IF p \in A
                      THEN Follows(done', p, Waiting(p), gate'.lastQueued[p], buffer[p], fetched'[p])
                      ELSE Waiting(p) = 0 /\ buffer[p] = <<>> /\ Through(done', p, fetched'[p])
    BY <1>1, <1>5 DEF Arrival, Unread, Waiting
  <2>1. (lost \union S) \intersect A = {} /\ lost' = lost \union S
    BY <1>1 DEF Rotates, S
  <2>2. p \notin lost /\ p \notin S
    BY <2>1
  <2>3. IF p \in assignments
        THEN Follows(done', p, Waiting(p), gate.lastQueued[p], buffer[p], fetched[p])
        ELSE Waiting(p) = 0 /\ buffer[p] = <<>> /\ Through(done', p, fetched[p])
    BY <1>6, <2>2, FollowsStays, DoneMore DEF IInv, Arrival, Unread
  <2>4. gate'.lastQueued[p] = gate.lastQueued[p]
    BY <1>1, <2>2
  <2>5. fetched'[p] = fetched[p] \/ Through(done', p, fetched'[p])
    BY <1>6
  <2>6. CASE p \in assignments
    <3>1. p \in A
      BY <1>3, <2>2, <2>6
    <3> QED
      BY <2>3, <2>4, <2>5, <2>6, <3>1, FollowsMoved
  <2>7. CASE p \notin assignments
    <3>1. Waiting(p) = 0 /\ buffer[p] = <<>> /\ Through(done', p, fetched'[p])
      BY <2>3, <2>5, <2>7
    <3> QED
      BY <3>1, FollowsMoved
  <2> QED
    BY <2>6, <2>7
<1>16. Fresh'
  BY <1>7 DEF Fresh
<1> QED
  BY <1>1, <1>7, <1>9, <1>10, <1>11, <1>13, <1>14, <1>15, <1>16 DEF IInv

-----------------------------------------------------------------------------
\* A trouble is counted.
LEMMA TroublesAre ==
    ASSUME Trouble, troubles \in 0..MaxTroubles
    PROVE  troubles' \in 0..MaxTroubles
BY BoundsAre DEF Trouble

\* The records in the hands of the core exist.
LEMMA InHandIs ==
    ASSUME IInv, NEW p \in Partitions
    PROVE  /\ gate.running[p] \in Offsets \union {0} /\ parked[p] \in Offsets \union {0}
           /\ gate.running[p] # 0 => Through(done, p, gate.running[p] - 1)
           /\ parked[p] # 0 => Through(done, p, parked[p] - 1)
BY DEF IInv, Types, Gates, Hands

\* A record is handled, everything before it done.
LEMMA DoneKeeps ==
    ASSUME IInv, NEW p \in Partitions, NEW o \in Offsets, Done(p, o), Through(done, p, o - 1)
    PROVE  /\ committed' \in [Partitions -> Offsets \union {0}]
           /\ done' \subseteq Partitions \X Offsets /\ done \subseteq done'
           /\ <<p, o>> \in done' /\ member' = member
           /\ troubles' \in 0..MaxTroubles
           /\ CommittedIsDone'
<1>1. /\ committed \in [Partitions -> Offsets \union {0}]
      /\ done \subseteq Partitions \X Offsets /\ troubles \in 0..MaxTroubles
      /\ CommittedIsDone
  BY DEF IInv, Types
<1>2. /\ done' = done \union {<<p, o>>} /\ member' = member
      /\ committed' = committed \/ committed' = [committed EXCEPT ![p] = o]
      /\ troubles' = troubles \/ Trouble
  BY DEF Done
<1>3. troubles' \in 0..MaxTroubles
  BY <1>1, <1>2, TroublesAre
<1>4. CommittedIsDone'
  <2> SUFFICES ASSUME NEW q \in Partitions, NEW i \in 1..committed'[q]
               PROVE  <<q, i>> \in done'
    BY DEF CommittedIsDone
  <2>1. CASE committed'[q] = committed[q]
    BY <1>1, <1>2, <2>1 DEF CommittedIsDone
  <2>2. CASE q = p /\ committed'[q] = o
    <3>1. o \in Nat /\ i \in 1..o
      BY <2>2, NumbersAre
    <3>2. i = o \/ i \in 1..(o - 1)
      BY <3>1
    <3> QED
      BY <1>2, <2>2, <3>2 DEF Through
  <2> QED
    BY <1>1, <1>2, <2>1, <2>2
<1> QED
  BY <1>1, <1>2, <1>3, <1>4

\* What another member handles is the next of what is not owned.
LEMMA OtherWorksKeeps ==
    ASSUME IInv, NEW p \in Partitions, OtherWorks(p)
    PROVE  /\ IInv'
           /\ \E o \in Offsets :
                 \/ done' = done \union {<<p, o>>}
                 \/ p \in NoneCommitted /\ ~fromBeginning /\ done' = done \union ({p} \X (1..o))
<1> USE DEF OtherWorks
<1>1. committed \in [Partitions -> Offsets \union {0}] /\ committed[p] \in Nat
      /\ Records \in [Partitions -> Nat]
  BY NumbersAre, BoundsAre DEF IInv, Types
<1>2. PICK o \in (committed[p] + 1)..Records[p] :
         /\ o = committed[p] + 1 \/ (~fromBeginning /\ committed[p] = 0)
         /\ committed' = [committed EXCEPT ![p] = o]
         /\ done' = done \union ({p} \X ((committed[p] + 1)..o))
  OBVIOUS
<1>3. o \in Offsets /\ o \in Nat /\ (committed[p] + 1)..o \subseteq Offsets
  <2>1. o \in 1..Records[p] /\ (committed[p] + 1)..o \subseteq 1..Records[p]
    BY <1>1
  <2> QED
    BY <1>1, <2>1 DEF Offsets
<1>4. Types'
  BY <1>1, <1>2, <1>3
     DEF IInv, Types, ConnectionTypeOK, connection, client, reader, owned, core
<1>5. CommittedIsDone'
  <2> SUFFICES ASSUME NEW q \in Partitions, NEW i \in 1..committed'[q]
               PROVE  <<q, i>> \in done'
    BY DEF CommittedIsDone
  <2>1. CASE q # p
    BY <1>1, <1>2, <2>1 DEF IInv, CommittedIsDone
  <2>2. CASE q = p
    <3>1. i \in (committed[p] + 1)..o \/ i \in 1..committed[p]
      BY <1>1, <1>2, <1>3, <2>2
    <3> QED
      BY <1>2, <2>2, <3>1 DEF IInv, CommittedIsDone
  <2> QED
    BY <2>1, <2>2
<1>6. done \subseteq done'
      /\ UNCHANGED <<connection, member, client, gate, reader, owned, parked, revoked>>
      /\ settled' = settled
  BY <1>2 DEF core
<1>7. IInv'
  BY <1>4, <1>5, <1>6, HandlingKeeps
<1>8. CASE o = committed[p] + 1
  <2>1. (committed[p] + 1)..o = {o}
    BY <1>1, <1>8
  <2>2. done' = done \union {<<p, o>>}
    BY <1>2, <2>1
  <2> QED
    BY <1>3, <1>7, <2>2
<1>9. CASE ~fromBeginning /\ committed[p] = 0
  <2>1. p \in NoneCommitted /\ done' = done \union ({p} \X (1..o))
    BY <1>2, <1>9 DEF NoneCommitted
  <2> QED
    BY <1>3, <1>7, <1>9, <2>1
<1> QED
  BY <1>2, <1>8, <1>9

\* A delivery settles, its record handled.
LEMMA CoreHandlesKeeps ==
    ASSUME IInv, NEW p \in Partitions, CoreHandles(p)
    PROVE  IInv' /\ gate.running[p] \in Offsets
<1> USE DEF CoreHandles
<1> DEFINE o == gate.running[p]
<1>1. p \in Running(gate) /\ o # 0
  BY RunningAre DEF Unsettled
<1>2. o \in Offsets /\ Through(done, p, o - 1)
  BY <1>1, InHandIs
<1>3. Done(p, o) /\ settled' = settled \union {p}
      /\ UNCHANGED <<connection, client, gate, reader, owned, parked, revoked>>
  OBVIOUS
<1> HIDE DEF o
<1>4. /\ committed' \in [Partitions -> Offsets \union {0}]
      /\ done' \subseteq Partitions \X Offsets /\ done \subseteq done'
      /\ <<p, o>> \in done' /\ member' = member
      /\ troubles' \in 0..MaxTroubles
      /\ CommittedIsDone'
  BY <1>2, <1>3, DoneKeeps
<1>5. Types'
  BY <1>3, <1>4 DEF IInv, Types, ConnectionTypeOK, connection, client, reader, owned
<1>6. settled' = settled \union {p} /\ gate.running[p] # 0 /\ <<p, gate.running[p]>> \in done'
  BY <1>1, <1>3, <1>4 DEF o
<1> HIDE DEF CoreHandles
<1> QED
  BY <1>2, <1>3, <1>4, <1>5, <1>6, HandlingKeeps DEF o

\* A delivery settles, its record left to the next member.
LEMMA CoreLeavesKeeps ==
    ASSUME IInv, NEW p \in Partitions, CoreLeaves(p)
    PROVE  IInv'
<1> USE DEF CoreLeaves
<1>1. gate.running[p] # 0 /\ settled' = settled \union {p} /\ (p \in revoked \/ stopped)
  BY RunningAre DEF Unsettled
<1>2. Types'
  BY DEF IInv, Types, ConnectionTypeOK, connection, group, client, reader, owned
<1>3. CommittedIsDone' /\ done \subseteq done' /\ UNCHANGED member
  BY DEF IInv, CommittedIsDone, group
<1> QED
  BY <1>1, <1>2, <1>3, HandlingKeeps

\* A parked record is handled.
LEMMA ReentersKeeps ==
    ASSUME IInv, NEW p \in Partitions, Reenters(p)
    PROVE  IInv' /\ parked[p] \in Offsets
<1> USE DEF Reenters
<1> DEFINE o == parked[p]
<1>1. o \in Offsets /\ Through(done, p, o - 1)
  BY InHandIs
<1>2. Done(p, o) /\ UNCHANGED <<connection, client, gate, reader, owned, parked, settled, revoked>>
  OBVIOUS
<1> HIDE DEF o
<1>3. /\ committed' \in [Partitions -> Offsets \union {0}]
      /\ done' \subseteq Partitions \X Offsets /\ done \subseteq done'
      /\ member' = member /\ troubles' \in 0..MaxTroubles
      /\ CommittedIsDone'
  BY <1>1, <1>2, DoneKeeps
<1>4. Types'
  BY <1>2, <1>3 DEF IInv, Types, ConnectionTypeOK, connection, client, reader, owned, core
<1>5. UNCHANGED <<parked, revoked, settled>>
  BY <1>2
<1> HIDE DEF Reenters
<1> QED
  BY <1>1, <1>2, <1>3, <1>4, <1>5, HandlingKeeps DEF o

\* The client connects, or the reader goes from one await to the next.
LEMMA ReaderStepsKeep ==
    ASSUME IInv,
           \/ Connecting(Connect) \/ Connecting(Loaded) \/ Connecting(Reached)
           \/ Connecting(AttemptFails)
           \/ Consume \/ StartFails \/ BackoffEnds \/ OpenFails \/ OpenRefused
           \/ Expelled \/ Closed
    PROVE  IInv'
<1>1. /\ UNCHANGED <<committed, done, client, gate, stopped, owned, core>>
      /\ pulled' = pulled /\ rotating' = rotating
      /\ member' = member \/ member' = FALSE
      /\ stream' = stream \/ stream' = FALSE
  BY DEF Connecting, Consume, StartFails, BackoffEnds, OpenFails, OpenRefused, Expelled, Closed,
         group, reader
<1>2. /\ member \in BOOLEAN /\ stream \in BOOLEAN /\ rotating \in BOOLEAN /\ loop \in Loops
      /\ ConnectionTypeOK /\ troubles \in 0..MaxTroubles
      /\ IF loop \in {"room", "granted"} THEN TRUE ELSE pulled = <<>>
  BY DEF IInv, Types, Room
<1>3. ConnectionTypeOK'
  BY <1>2 DEF Connecting, Connect, Loaded, Reached, AttemptFails,
         Consume, StartFails, BackoffEnds, OpenFails, OpenRefused, Expelled, Closed,
         ConnectionTypeOK, connection
<1>4. troubles' \in 0..MaxTroubles
  <2>1. troubles' = troubles \/ Trouble
    BY DEF Connecting, Consume, StartFails, BackoffEnds, OpenFails, OpenRefused, Expelled, Closed
  <2> QED
    BY <1>2, <2>1, TroublesAre
<1>5. \/ loop' = loop
      \/ /\ loop \in {"none", "starting", "backoff", "opening"}
         /\ loop' \in Loops \ {"room", "granted"}
  BY DEF Connecting, Consume, StartFails, BackoffEnds, OpenFails, OpenRefused, Expelled, Closed,
         reader, Loops
<1>6. loop' \in Loops
      /\ IF loop' \in {"room", "granted"} THEN loop' = loop /\ pulled' = pulled ELSE pulled' = <<>>
  BY <1>1, <1>2, <1>5
<1>7. Begun' \/ ~Begun
  BY DEF Connecting, Consume, StartFails, BackoffEnds, OpenFails, OpenRefused, Expelled, Closed,
         reader, Begun
<1>8. member' \in BOOLEAN /\ (member' => member)
  <2>1. member \in BOOLEAN /\ (member' = member \/ member' = FALSE)
    BY <1>1, <1>2
  <2>2. member' \in BOOLEAN
    BY <2>1
  <2>3. member' => member
    BY <2>1
  <2> QED
    BY <2>2, <2>3
<1>9. stream' \in BOOLEAN /\ (stream' => stream /\ pulled' = pulled) /\ rotating' \in BOOLEAN
  <2>1. stream \in BOOLEAN /\ (stream' = stream \/ stream' = FALSE)
    BY <1>1, <1>2
  <2>2. stream' \in BOOLEAN
    BY <2>1
  <2>3. stream' => stream
    BY <2>1
  <2>4. rotating' \in BOOLEAN /\ pulled' = pulled
    BY <1>1, <1>2
  <2> QED
    BY <2>2, <2>3, <2>4
<1>10. UNCHANGED <<committed, done, client, gate, stopped, owned, core>>
  BY <1>1
<1> QED
  BY <1>3, <1>4, <1>6, <1>7, <1>8, <1>9, <1>10, ReaderKeeps

\* pump() returned.
LEMMA PumpEndsKeeps ==
    ASSUME IInv, PumpEnds \/ StreamFails
    PROVE  IInv'
<1>1. PumpReturned /\ UNCHANGED <<connection, group, client, gate, owned, core>> /\ Begun
      /\ (troubles' = troubles \/ Trouble)
  BY DEF PumpEnds, StreamFails, Begun
<1>2. troubles' \in 0..MaxTroubles
  BY <1>1, TroublesAre DEF IInv, Types
<1>3. UNCHANGED <<committed, done, member>>
  BY <1>1 DEF group
<1> QED
  BY <1>1, <1>2, <1>3, PumpReturnedKeeps

\* The core stops its handle.
LEMMA StopKeeps ==
    ASSUME IInv, Stop PROVE IInv'
<1>1. Stops /\ Begun /\ ConnectionTypeOK' /\ (Trouble \/ troubles' = troubles)
  BY DEF Stop, IInv, Types, ConnectionTypeOK, connection
<1> QED
  BY <1>1, TroublesAre, StopsKeep DEF IInv, Types

\* A disconnect stops the consumption there is.
LEMMA DisconnectsKeeps ==
    ASSUME IInv, Disconnects PROVE IInv'
<1>1. ConnectionTypeOK'
  BY DEF Disconnects, Disconnect, IInv, Types, ConnectionTypeOK
<1>2. CASE Begun /\ ~stopped
  <2>1. Stops /\ troubles' \in 0..MaxTroubles
    BY <1>2, TroublesAre DEF Disconnects, IInv, Types
  <2> QED
    BY <1>1, <1>2, <2>1, StopsKeep
<1>3. CASE ~(Begun /\ ~stopped)
  <2>1. UNCHANGED <<group, client, gate, reader, owned, core, troubles>>
    BY <1>3 DEF Disconnects
  <2>2. UNCHANGED <<committed, done, member, stream, loop, pulled, rotating, stopped>>
    BY <2>1 DEF group, reader
  <2>3. loop \in Loops /\ member \in BOOLEAN /\ stream \in BOOLEAN /\ rotating \in BOOLEAN
        /\ troubles \in 0..MaxTroubles
        /\ IF loop \in {"room", "granted"} THEN TRUE ELSE pulled = <<>>
    BY DEF IInv, Types, Room
  <2>4. Begun' \/ ~Begun
    BY <2>2 DEF Begun
  <2> QED
    BY <1>1, <2>1, <2>2, <2>3, <2>4, ReaderKeeps
<1> QED
  BY <1>2, <1>3

\* A rebalance, or a rejoin, of a consumption that began.
LEMMA RebalanceKeeps ==
    ASSUME IInv, NEW A \in SUBSET Partitions, Rebalance(A) \/ Rejoin(A)
    PROVE  IInv' /\ Begun
<1>1. Assign(A) /\ Joined(A) /\ ~stopped /\ UNCHANGED <<connection, committed>>
  BY DEF Rebalance, Rejoin
<1>2. Begun
  BY DEF Rebalance, Rejoin, Begun, IInv, Fresh
<1>3. member' \in BOOLEAN
  BY DEF Rebalance, Rejoin, IInv, Types
<1>4. troubles' \in 0..MaxTroubles
  BY TroublesAre DEF Rebalance, Rejoin, IInv, Types
<1> QED
  BY <1>1, <1>2, <1>3, <1>4, JoinsKeep

\* What came back stays done until the partition is resumed or lost.
LEMMA ReturnedKeeps == Inv /\ [Next]_vars => Returned'
<1> SUFFICES ASSUME Inv, [Next]_vars PROVE Returned'
  OBVIOUS
<1>0. /\ IInv /\ reentered \subseteq Partitions
      /\ \A p \in reentered : parked[p] # 0 /\ <<p, parked[p]>> \in done
      /\ parked \in [Partitions -> Offsets \union {0}] /\ assigned \subseteq Partitions
  BY DEF Inv, Returned, IInv, Types
<1>1. done \subseteq done'
  <2>1. ASSUME NEW p \in Partitions,
               Fetch(p) \/ OtherWorks(p) \/ Pull(p) \/ CoreHandles(p) \/ CoreLeaves(p) \/ CoreParks(p)
                 \/ Reenters(p) \/ Resume(p) \/ DeliveryEnds(p)
        PROVE  done \subseteq done'
    BY <2>1 DEF Fetch, OtherWorks, Pull, CoreHandles, CoreLeaves, CoreParks, Reenters, Resume, DeliveryEnds,
                Done, group
  <2>2. ASSUME NEW A \in SUBSET Partitions, Rebalance(A) \/ Rejoin(A)
        PROVE  done \subseteq done'
    BY <2>2 DEF Rebalance, Rejoin, Assign, ReadOn
  <2>3. CASE Started \/ Opened
    BY <2>3 DEF Started, Opened, ReadOn
  <2>4. CASE UNCHANGED done
    BY <2>4
  <2> QED
    BY <2>1, <2>2, <2>3, <2>4
       DEF Next, vars, group, Connecting, Consume, StartFails, Granted, PumpEnds, StreamFails, BackoffEnds,
           OpenFails, OpenRefused, Expelled, Stop, Stops, Disconnects, Closed, StopFinishes
<1>2. ASSUME \A p \in Partitions : p \in reentered' => p \in reentered /\ parked'[p] = parked[p],
             reentered' \subseteq Partitions
      PROVE  Returned'
  BY <1>0, <1>1, <1>2 DEF Returned
<1>3. CASE UNCHANGED <<parked, reentered>>
  BY <1>0, <1>2, <1>3
<1>4. ASSUME NEW p \in Partitions, CoreParks(p)
      PROVE  Returned'
  <2>1. parked[p] = 0
    <3>1. p \in Running(gate) /\ p \notin settled
      BY <1>4 DEF CoreParks, Unsettled
    <3> QED
      BY <1>0, <3>1, RunningAre DEF IInv, Hands
  <2>2. reentered' = reentered /\ \A q \in Partitions : q # p => parked'[q] = parked[q]
    BY <1>0, <1>4 DEF CoreParks
  <2> QED
    BY <1>0, <1>2, <2>1, <2>2
<1>5. ASSUME NEW p \in Partitions, Reenters(p)
      PROVE  Returned'
  <2>1. parked[p] # 0 /\ parked' = parked /\ reentered' = reentered \union {p}
        /\ <<p, parked[p]>> \in done'
    BY <1>5 DEF Reenters, Done
  <2> QED
    BY <1>0, <1>1, <2>1 DEF Returned
<1>6. ASSUME NEW p \in Partitions, Resume(p)
      PROVE  Returned'
  <2>1. reentered' = reentered \ {p} /\ \A q \in Partitions : q # p => parked'[q] = parked[q]
    BY <1>0, <1>6 DEF Resume
  <2> QED
    BY <1>0, <1>2, <2>1
<1>7. ASSUME NEW A \in SUBSET Partitions, Joined(A)
      PROVE  Returned'
  <2>1. PICK S : /\ reentered' = reentered \ S
                 /\ parked' = [p \in Partitions |-> IF p \in S THEN 0 ELSE parked[p]]
    BY <1>7 DEF Joined
  <2> QED
    BY <1>0, <1>2, <2>1
<1>8. CASE Stops
  BY <1>8 DEF Stops, Returned
<1>9. ASSUME NEW p \in Partitions,
             Fetch(p) \/ OtherWorks(p) \/ Pull(p) \/ CoreHandles(p) \/ CoreLeaves(p) \/ DeliveryEnds(p)
      PROVE  UNCHANGED <<parked, reentered>>
  BY <1>9 DEF Fetch, OtherWorks, Pull, CoreHandles, CoreLeaves, DeliveryEnds, core
<1> QED
  BY <1>3, <1>4, <1>5, <1>6, <1>7, <1>8, <1>9
     DEF Next, vars, core, Connecting, Consume, Started, StartFails, Granted, PumpEnds, StreamFails,
         BackoffEnds, Opened, OpenFails, OpenRefused, Rebalance, Rejoin, Expelled, Stop, Disconnects, Closed,
         StopFinishes

\* Every step keeps the invariant.
LEMMA StepsKeep == Inv /\ [Next]_vars => Inv'
<1> SUFFICES ASSUME Inv, [Next]_vars PROVE IInv'
  BY ReturnedKeeps DEF Inv
<1>0. IInv
  BY DEF Inv
<1> USE <1>0
<1>1. CASE UNCHANGED vars
  <2>1. UNCHANGED <<committed, done, member, client, gate, stopped, owned, core, connection,
                    stream, loop, pulled, rotating, troubles>>
    BY <1>1 DEF vars, group, reader
  <2>2. ConnectionTypeOK' /\ member \in BOOLEAN /\ stream \in BOOLEAN /\ rotating \in BOOLEAN
        /\ loop \in Loops /\ troubles \in 0..MaxTroubles
        /\ IF loop \in {"room", "granted"} THEN TRUE ELSE pulled = <<>>
    BY <2>1 DEF IInv, Types, Room, ConnectionTypeOK, connection
  <2>3. Begun' \/ ~Begun
    BY <2>1 DEF Begun
  <2> QED
    BY <2>1, <2>2, <2>3, ReaderKeeps
<1>2. CASE \/ Connecting(Connect) \/ Connecting(Loaded) \/ Connecting(Reached)
           \/ Connecting(AttemptFails)
           \/ Consume \/ StartFails \/ BackoffEnds \/ OpenFails \/ OpenRefused
           \/ Expelled \/ Closed
  BY <1>2, ReaderStepsKeep
<1>3. CASE Started \/ Opened \/ StopFinishes \/ Granted
  BY <1>3, StartedKeeps, OpenedKeeps, StopFinishesKeeps, GrantedKeeps
<1>4. CASE PumpEnds \/ StreamFails \/ Stop \/ Disconnects
  BY <1>4, PumpEndsKeeps, StopKeeps, DisconnectsKeeps
<1>5. ASSUME NEW p \in Partitions,
             Fetch(p) \/ OtherWorks(p) \/ Pull(p) \/ Resume(p) \/ DeliveryEnds(p)
      PROVE  IInv'
  BY <1>5, FetchKeeps, OtherWorksKeeps, PullKeeps, ResumeKeeps, DeliveryEndsKeeps
<1>6. ASSUME NEW p \in Partitions,
             CoreHandles(p) \/ CoreLeaves(p) \/ CoreParks(p) \/ Reenters(p)
      PROVE  IInv'
  BY <1>6, CoreHandlesKeeps, CoreLeavesKeeps, CoreParksKeeps, ReentersKeeps
<1>7. ASSUME NEW A \in SUBSET Partitions, Rebalance(A) \/ Rejoin(A)
      PROVE  IInv'
  BY <1>7, RebalanceKeeps
<1> QED
  BY <1>1, <1>2, <1>3, <1>4, <1>5, <1>6, <1>7 DEF Next

\* The inductive invariant holds at every instant.
LEMMA Invariance == Spec => []Inv
<1>1. Init => Inv
  BY InitEstablishes DEF Inv, Returned, Init
<1> QED
  BY <1>1, StepsKeep, PTL DEF Spec

-----------------------------------------------------------------------------
\* The gate, the line and the counter agree.
LEMMA InvConsistent == Inv => Consistent
<1> SUFFICES ASSUME Inv PROVE Consistent
  OBVIOUS
<1>1. Types /\ Fit(gate) /\ (~stopped => InLine(gate)) /\ Room /\ reentered \subseteq Partitions
  BY DEF Inv, Returned, IInv, Line
<1>2. gate \in Gates
  BY <1>1 DEF Types
<1>3. Offsets \subseteq Nat /\ Offsets \union {0} \subseteq Nat
  BY NumbersAre
<1>4. TypeOK
  <2>1. gate.queues \in [Partitions -> Seq(Offsets)] /\ gate.ready \in Seq(Partitions)
        /\ gate.running \in [Partitions -> Offsets \union {0}]
        /\ gate.lastQueued \in [Partitions -> Offsets \union {0}] /\ gate.queued \in Nat
        /\ gate.paused \subseteq Partitions /\ gate.keys \subseteq Partitions
        /\ gate.epochs \subseteq Partitions
    BY <1>2 DEF Gates
  <2>2. gate.queues \in [Partitions -> Seq(Nat)] /\ buffer \in [Partitions -> Seq(Nat)]
    <3>1. ASSUME NEW s \in Seq(Offsets) PROVE s \in Seq(Nat)
      BY <1>3, SeqMonotonic
    <3>2. \A p \in Partitions : gate.queues[p] \in Seq(Nat) /\ buffer[p] \in Seq(Nat)
      BY <1>1, <2>1, <3>1 DEF Types
    <3> QED
      BY <1>1, <2>1, <3>2 DEF Types
  <2>3. /\ gate.running \in [Partitions -> Nat] /\ gate.lastQueued \in [Partitions -> Nat]
        /\ committed \in [Partitions -> Nat] /\ fetched \in [Partitions -> Nat]
        /\ parked \in [Partitions -> Nat] /\ done \subseteq Partitions \X Nat
    BY <1>1, <1>3, <2>1 DEF Types
  <2>4. UNION {assignments, assigned, lost, reentered, settled, revoked, gate.paused, gate.keys, gate.epochs}
          \subseteq Partitions
    BY <1>1, <2>1 DEF Types
  <2> QED
    BY <1>1, <2>1, <2>2, <2>3, <2>4 DEF Types, TypeOK, Loops
<1>5. EveryoneInLine
  <2>1. ASSUME NEW p \in Partitions, gate.queues[p] # <<>>,
               p \notin Running(gate) \union gate.paused, ~stopped
        PROVE  p \in Range(gate.ready)
    BY <1>1, <2>1, RunningAre DEF InLine, Ready
  <2> QED
    BY <1>1, <2>1 DEF Fit, InLine, EveryoneInLine
<1>6. RoomIsCounted
  BY <1>1 DEF Fit, Room, RoomIsCounted
<1> QED
  BY <1>4, <1>5, <1>6 DEF Consistent

\* The gate, the line and the counter agree at every instant: whatever may be
\* delivered is in line exactly once, nobody waits for a slot that is free, and
\* what is counted is what is queued, never more than asked for
\* (markReady(), dispatch(), discard(), release()).
THEOREM LineAndCounterAgree == Spec => []Consistent
BY Invariance, InvConsistent, PTL

\* What the group is past was handled, by whichever member, or is older than the
\* first commit and was passed over by a stream that, not fromBeginning, began at
\* the end of the log: no rebalance, failed stream, lost membership, park or stop
\* makes this one commit past any other record.
THEOREM NothingCommittedUndone == Spec => []CommittedIsDone
<1>1. Inv => CommittedIsDone
  BY DEF Inv, IInv
<1> QED
  BY <1>1, Invariance, PTL

-----------------------------------------------------------------------------
(* What the core sees: every step is one of the contract, or none. *)

\* The prefix of the contract is that of the invariant.
LEMMA ThroughIs ==
    \A p, o : Contract!PrefixDone(p, o) <=> Through(done, p, o)
BY DEF Contract!PrefixDone, Through

\* Contract!Cardinality is that of FiniteSets.
LEMMA CardinalityIs ==
    \A S : Contract!Cardinality(S) = Cardinality(S)
BY DEF Contract!Cardinality, Cardinality

\* The place of a queue is an offset, or zero.
LEMMA PlaceOfIs ==
    ASSUME NEW g \in Gates, NEW p \in Partitions
    PROVE  PlaceOf(g.queues[p], g.lastQueued[p]) \in Offsets \union {0}
<1>1. g.queues[p] \in Seq(Offsets) /\ g.lastQueued[p] \in Offsets \union {0}
  BY DEF Gates
<1>2. g.queues[p] # <<>> => Head(g.queues[p]) \in Offsets
  BY <1>1, HeadTailProperties
<1> QED
  BY <1>1, <1>2, OffsetsAre DEF PlaceOf

\* The mapping, by partition.
Seen ==
    /\ ReadUpTo \in [Partitions -> Offsets \union {0}]
    /\ Delivering \in [Partitions -> Offsets \union {0}]
    /\ \A p \in Partitions :
          /\ ReadUpTo[p] = IF p \notin assignments \/ stopped THEN 0
                           ELSE PlaceOf(gate.queues[p], gate.lastQueued[p])
          /\ Delivering[p] = IF p \in settled THEN 0 ELSE gate.running[p]

\* The mapping has the types of the contract, before a step and after.
LEMMA SeenIs == (IInv => Seen) /\ (IInv' => Seen')
<1>1. ASSUME IInv PROVE Seen
  <2>1. gate \in Gates
    BY <1>1 DEF IInv, Types
  <2>2. \A p \in Partitions : PlaceOf(gate.queues[p], gate.lastQueued[p]) \in Offsets \union {0}
    BY <2>1, PlaceOfIs
  <2> QED
    BY <2>1, <2>2 DEF Seen, ReadUpTo, Delivering, Place, PlaceOf, Gates
<1>2. ASSUME IInv' PROVE Seen'
  <2>1. gate' \in Gates
    BY <1>2 DEF IInv, Types
  <2>2. \A p \in Partitions : PlaceOf(gate'.queues[p], gate'.lastQueued[p]) \in Offsets \union {0}
    BY <2>1, PlaceOfIs
  <2> QED
    BY <2>1, <2>2 DEF Seen, ReadUpTo, Delivering, Place, PlaceOf, Gates
<1> QED
  BY <1>1, <1>2

\* The core does not see it.
LEMMA Unseen ==
    ASSUME IInv, UNCHANGED <<committed, done, Delivering, parked, Pauses, ReadUpTo>>
    PROVE  [Contract!Step]_(Contract!vars)
BY DEF Contract!vars, NoneCommitted

\* A reading that begins passes over what the contract lets it.
LEMMA PassesIs ==
    /\ done' = done => Contract!PassesOver
    /\ \A S \in SUBSET Partitions : \A places :
          ReadOn(S, places) /\ S \subseteq NoneCommitted => Contract!PassesOver
<1>1. ASSUME done' = done PROVE Contract!PassesOver
  <2> DEFINE none == [p \in NoneCommitted |-> 0]
  <2>1. none \in [NoneCommitted -> Offsets \union {0}] /\ \A p \in NoneCommitted : 1..none[p] = {}
    OBVIOUS
  <2> HIDE DEF none
  <2>2. UNION {{p} \X (1..none[p]) : p \in NoneCommitted} = {}
    BY <2>1
  <2> QED
    BY <1>1, <2>1, <2>2 DEF Contract!PassesOver
<1>2. ASSUME NEW S \in SUBSET Partitions, NEW places, ReadOn(S, places), S \subseteq NoneCommitted
      PROVE  Contract!PassesOver
  <2>1. PICK begins \in [S -> Offsets \union {0}] :
           /\ \A p \in S : begins[p] \in StartsAfter(p)
           /\ done' = done \union UNION {{p} \X (1..begins[p]) : p \in S}
    BY <1>2 DEF ReadOn
  <2>2. CASE fromBeginning
    <3>1. \A p \in S : 1..begins[p] = {}
      BY <2>1, <2>2 DEF StartsAfter
    <3>2. UNION {{p} \X (1..begins[p]) : p \in S} = {}
      BY <3>1
    <3>3. done' = done
      BY <2>1, <3>2
    <3> QED
      BY <1>1, <3>3
  <2>3. CASE ~fromBeginning
    <3> DEFINE ends == [p \in NoneCommitted |-> IF p \in S THEN begins[p] ELSE 0]
    <3>1. /\ ends \in [NoneCommitted -> Offsets \union {0}]
          /\ \A p \in NoneCommitted : 1..ends[p] = IF p \in S THEN 1..begins[p] ELSE {}
      BY <2>1
    <3> HIDE DEF ends
    <3>2. UNION {{p} \X (1..ends[p]) : p \in NoneCommitted} = UNION {{p} \X (1..begins[p]) : p \in S}
      <4>1. \A x : x \in UNION {{p} \X (1..ends[p]) : p \in NoneCommitted}
                     <=> \E p \in NoneCommitted : x \in {p} \X (1..ends[p])
        OBVIOUS
      <4>2. \A x : x \in UNION {{p} \X (1..begins[p]) : p \in S} <=> \E p \in S : x \in {p} \X (1..begins[p])
        OBVIOUS
      <4>3. \A p \in NoneCommitted : {p} \X (1..ends[p]) = IF p \in S THEN {p} \X (1..begins[p]) ELSE {}
        BY <3>1
      <4> QED
        BY <1>2, <4>1, <4>2, <4>3
    <3> QED
      BY <2>1, <2>3, <3>1, <3>2 DEF Contract!PassesOver
  <2> QED
    BY <2>2, <2>3
<1> QED
  BY <1>1, <1>2

\* Of what something was committed, something stays committed.
LEMMA CommittedStays ==
    ASSUME IInv, [Next]_vars
    PROVE  NoneCommitted' \subseteq NoneCommitted
<1>0. committed \in [Partitions -> Offsets \union {0}] /\ 0 \notin Offsets /\ Offsets \subseteq Nat
  BY OffsetsAre DEF IInv, Types
<1>1. ASSUME committed' = committed PROVE NoneCommitted' \subseteq NoneCommitted
  BY <1>1 DEF NoneCommitted
<1>2. ASSUME NEW p \in Partitions, NEW o, o # 0, committed' = [committed EXCEPT ![p] = o]
      PROVE  NoneCommitted' \subseteq NoneCommitted
  BY <1>0, <1>2 DEF NoneCommitted
<1>3. ASSUME NEW p \in Partitions, CoreHandles(p) \/ Reenters(p)
      PROVE  NoneCommitted' \subseteq NoneCommitted
  <2>1. CASE CoreHandles(p)
    <3>1. gate.running[p] # 0
      BY <2>1, RunningAre DEF CoreHandles, Unsettled
    <3> QED
      BY <1>1, <1>2, <2>1, <3>1 DEF CoreHandles, Done
  <2>2. CASE Reenters(p)
    BY <1>1, <1>2, <2>2 DEF Reenters, Done
  <2> QED
    BY <1>3, <2>1, <2>2
<1>4. ASSUME NEW p \in Partitions, OtherWorks(p)
      PROVE  NoneCommitted' \subseteq NoneCommitted
  <2>1. committed[p] \in Nat
    BY <1>0, NumbersAre
  <2>2. PICK o \in (committed[p] + 1)..Records[p] : committed' = [committed EXCEPT ![p] = o]
    BY <1>4 DEF OtherWorks
  <2>3. o # 0
    BY <2>1, <2>2
  <2> QED
    BY <1>2, <2>2, <2>3
<1>5. ASSUME NEW p \in Partitions,
             Fetch(p) \/ Pull(p) \/ CoreLeaves(p) \/ CoreParks(p) \/ Resume(p) \/ DeliveryEnds(p)
      PROVE  committed' = committed
  BY <1>5 DEF Fetch, Pull, CoreLeaves, CoreParks, Resume, DeliveryEnds, group
<1> QED
  BY <1>1, <1>3, <1>4, <1>5
     DEF Next, vars, group, Connecting, Consume, Started, StartFails, Granted, PumpEnds, StreamFails,
         BackoffEnds, Opened, OpenFails, OpenRefused, Rebalance, Rejoin, Expelled, Stop, Stops, Disconnects,
         Closed, StopFinishes

\* Only the places change, to some with nothing left before them.
LEMMA Seeks ==
    ASSUME IInv, IInv', Contract!PassesOver, UNCHANGED <<Delivering, parked, Pauses>>,
           \A p \in Partitions : ReadUpTo'[p] = ReadUpTo[p] \/ Through(done, p, ReadUpTo'[p])
    PROVE  [Contract!Step]_(Contract!vars)
<1>1. ReadUpTo' \in [Partitions -> Offsets \union {0}]
  BY SeenIs DEF Seen
<1>2. Contract!Seek
  BY <1>1, ThroughIs DEF Contract!Seek
<1> QED
  BY <1>2 DEF Contract!Step

\* A delivery begins from the gate e.
LEMMA Begins ==
    ASSUME IInv, IInv', NEW e \in Gates, NEW q \in Partitions, Alike(e, gate'), Began(e, gate', q),
           ~stopped, UNCHANGED <<done, assignments, stopped>>, q \in assignments,
           Sorted(done, q, 0, 0, e.queues[q], e.lastQueued[q]),
           settled' \subseteq Running(e),
           \A p \in Partitions : Delivering[p] = IF p \in settled' THEN 0 ELSE e.running[p],
           \A p \in Partitions \ {q} : p \in assignments =>
              ReadUpTo[p] = PlaceOf(e.queues[p], e.lastQueued[p]),
           \/ ReadUpTo[q] = PlaceOf(e.queues[q], e.lastQueued[q])
           \/ Through(done, q, PlaceOf(e.queues[q], e.lastQueued[q]))
    PROVE  \E p \in Partitions, o \in Offsets : Contract!Begins(p, o)
<1> DEFINE s == e.queues[q]
           o == Head(s)
           l == PlaceOf(Tail(s), e.lastQueued[q])
<1>1. /\ s \in Seq(Offsets) /\ s # <<>> /\ e.lastQueued[q] \in Offsets \union {0}
      /\ e.running \in [Partitions -> Offsets \union {0}] /\ e.running[q] = 0
      /\ e.queues \in [Partitions -> Seq(Offsets)]
  BY DEF Gates, Began, Ready
<1>2. /\ o \in Offsets /\ Through(done, q, o - 1) /\ l \in Offsets
      /\ l = o \/ (l > o /\ Through(done, q, l))
  BY <1>1, SortedTakes
<1>3. /\ gate'.running = [e.running EXCEPT ![q] = o]
      /\ gate'.queues = [e.queues EXCEPT ![q] = Tail(s)]
      /\ gate'.lastQueued = e.lastQueued /\ gate'.paused = e.paused
      /\ q \notin e.paused /\ Cardinality(Running(e)) < Concurrency
  BY DEF Began, Alike, Ready
<1>4. q \notin settled' /\ \A p \in Partitions : p \in settled' => e.running[p] # 0
  BY <1>1, RunningAre
<1>5. Delivering' = [Delivering EXCEPT ![q] = o] /\ Delivering[q] = 0
  <2>1. \A p \in Partitions : Delivering'[p] = IF p \in settled' THEN 0 ELSE gate'.running[p]
    BY SeenIs DEF Seen
  <2>2. Delivering \in [Partitions -> Offsets \union {0}] /\ Delivering' \in [Partitions -> Offsets \union {0}]
    BY SeenIs DEF Seen
  <2>3. \A p \in Partitions : Delivering'[p] = IF p = q THEN o ELSE Delivering[p]
    BY <1>1, <1>3, <1>4, <2>1
  <2> QED
    BY <1>1, <1>4, <2>2, <2>3
<1>6. ReadUpTo' = [ReadUpTo EXCEPT ![q] = l]
  <2>1. /\ ReadUpTo \in [Partitions -> Offsets \union {0}]
        /\ ReadUpTo' \in [Partitions -> Offsets \union {0}]
        /\ \A p \in Partitions : p \notin assignments => ReadUpTo[p] = 0
        /\ \A p \in Partitions :
              ReadUpTo'[p] = IF p \notin assignments' \/ stopped' THEN 0
                             ELSE PlaceOf(gate'.queues[p], gate'.lastQueued[p])
    BY SeenIs DEF Seen
  <2>2. gate'.queues[q] = Tail(s) /\ \A p \in Partitions \ {q} : gate'.queues[p] = e.queues[p]
    BY <1>1, <1>3
  <2>3. \A p \in Partitions : ReadUpTo'[p] = IF p = q THEN l ELSE ReadUpTo[p]
    BY <1>3, <2>1, <2>2
  <2> QED
    BY <2>1, <2>3
<1>7. q \notin Pauses'
  BY <1>3 DEF Pauses
<1>8. Cardinality({p \in Partitions : Delivering[p] # 0}) < Concurrency
  <2>1. {p \in Partitions : Delivering[p] # 0} \subseteq Running(e)
    BY RunningAre
  <2>2. IsFiniteSet(Running(e))
    BY RunningAre, BoundsAre
  <2>3. Cardinality({p \in Partitions : Delivering[p] # 0}) <= Cardinality(Running(e))
    BY <2>1, <2>2, FS_Subset
  <2>4. Cardinality({p \in Partitions : Delivering[p] # 0}) \in Nat
    BY BoundsAre
  <2> QED
    BY <1>3, <2>3, <2>4, RunningAre, BoundsAre
<1>9. o = ReadUpTo[q] + 1 \/ Through(done, q, o - 1)
  BY <1>2
<1>10. Contract!Begins(q, o)
  <2> HIDE DEF o, l
  <2>1. \E t \in Offsets : /\ t = o \/ (t > o /\ Contract!PrefixDone(q, t))
                           /\ ReadUpTo' = [ReadUpTo EXCEPT ![q] = t]
    BY <1>2, <1>6, ThroughIs
  <2>2. o = ReadUpTo[q] + 1 \/ Contract!PrefixDone(q, o - 1)
    BY <1>9, ThroughIs
  <2> QED
    BY <1>5, <1>7, <1>8, <2>1, <2>2, CardinalityIs DEF Contract!Begins
<1> QED
  BY <1>2, <1>10

-----------------------------------------------------------------------------
\* A message came in through the gate e.
LEMMA EnqueueSeen ==
    ASSUME IInv, IInv', NEW p \in Partitions, NEW o \in Offsets, gate' = Enqueued(gate, p, o),
           ~stopped, UNCHANGED <<committed, done, assignments, stopped, core>>,
           p \in assignments => Joins(done, p, o, gate.lastQueued[p])
    PROVE  [Contract!Step]_(Contract!vars)
<1> USE DEF core
<1>1. /\ gate \in Gates /\ gate' \in Gates /\ gate.running \in [Partitions -> Offsets \union {0}]
      /\ gate.queues \in [Partitions -> Seq(Offsets)]
      /\ gate.lastQueued \in [Partitions -> Offsets \union {0}]
  BY DEF IInv, Types, Gates
<1>2. gate.lastQueued[p] \in Nat /\ o \in Nat
  <2>1. gate.lastQueued[p] \in Offsets \union {0} /\ o \in Offsets \union {0}
    BY <1>1
  <2> QED
    BY <2>1, NumbersAre
<1>3. CASE ~(p \in assignments /\ o > gate.lastQueued[p])
  <2>1. gate' = gate
    BY <1>2, <1>3 DEF Enqueued
  <2> QED
    BY <2>1, Unseen DEF Delivering, Pauses, ReadUpTo, Place
<1>4. CASE p \in assignments /\ o > gate.lastQueued[p]
  <2>1. \A q \in Partitions : gate.queues[q] # <<>> => q \in assignments
    BY DEF IInv, Owned
  <2>2. PICK e \in Gates :
           /\ Fit(e)
           /\ e.queues = [gate.queues EXCEPT ![p] = Append(@, o)]
           /\ e.lastQueued = [gate.lastQueued EXCEPT ![p] = o]
           /\ e.running = gate.running /\ e.paused = gate.paused /\ e.queued = gate.queued + 1
           /\ gate' \in Gates /\ Fit(gate') /\ InLine(gate') /\ Alike(e, gate')
           /\ Still(e, gate') \/ Began(e, gate', p)
    <3>1. Fit(gate) /\ InLine(gate)
      BY DEF IInv, Line
    <3> QED
      BY <1>1, <1>4, <2>1, <3>1, EnqueuedIs
  <2>3. Sorted(done, p, parked[p], Live(p), gate.queues[p], gate.lastQueued[p])
    BY DEF IInv, Order
  <2>4. /\ e.queues[p] = Append(gate.queues[p], o) /\ e.lastQueued[p] = o
        /\ \A q \in Partitions \ {p} : e.queues[q] = gate.queues[q] /\ e.lastQueued[q] = gate.lastQueued[q]
    BY <1>1, <2>2
  <2>5. /\ Sorted(done, p, parked[p], Live(p), e.queues[p], e.lastQueued[p])
        /\ \/ PlaceOf(e.queues[p], e.lastQueued[p]) = PlaceOf(gate.queues[p], gate.lastQueued[p])
           \/ Through(done, p, PlaceOf(e.queues[p], e.lastQueued[p]))
    <3>1. gate.queues[p] \in Seq(Offsets) /\ gate.lastQueued[p] \in Offsets \union {0}
      BY <1>1
    <3>2. Joins(done, p, o, gate.lastQueued[p]) /\ o > gate.lastQueued[p]
      BY <1>4
    <3>3. Sorted(done, p, parked[p], Live(p), Append(gate.queues[p], o), o)
      BY <2>3, <3>1, <3>2, SortedAppends
    <3>4. /\ Sorted(done, p, parked[p], Live(p), Append(gate.queues[p], o), o)
          /\ \/ PlaceOf(Append(gate.queues[p], o), o) = PlaceOf(gate.queues[p], gate.lastQueued[p])
             \/ Through(done, p, PlaceOf(Append(gate.queues[p], o), o))
          /\ PlaceOf(Append(gate.queues[p], o), o) \in Offsets \union {0}
      BY <2>3, <3>1, <3>2, SortedAppends
    <3> QED
      BY <2>4, <3>3, <3>4
  <2>6. /\ \A q \in Partitions : Delivering[q] = IF q \in settled THEN 0 ELSE e.running[q]
        /\ \A q \in Partitions : q \in assignments =>
              ReadUpTo[q] = PlaceOf(gate.queues[q], gate.lastQueued[q])
    BY <2>2, SeenIs DEF Seen
  <2>7. CASE Still(e, gate')
    <3>1. Delivering' = Delivering
      BY <2>2, <2>7 DEF Still, Delivering
    <3>2. Pauses' = Pauses
      BY <2>2 DEF Alike, Pauses
    <3>3. \A q \in Partitions : ReadUpTo'[q] = ReadUpTo[q] \/ Through(done, q, ReadUpTo'[q])
      <4>1. gate'.queues = e.queues /\ gate'.lastQueued = e.lastQueued
        BY <2>2, <2>7 DEF Still, Alike
      <4>2. \A q \in Partitions :
               ReadUpTo'[q] = IF q \notin assignments \/ stopped THEN 0
                              ELSE PlaceOf(e.queues[q], e.lastQueued[q])
        BY <4>1, SeenIs DEF Seen
      <4>3. \A q \in Partitions :
               ReadUpTo[q] = IF q \notin assignments \/ stopped THEN 0
                             ELSE PlaceOf(gate.queues[q], gate.lastQueued[q])
        BY SeenIs DEF Seen
      <4> QED
        BY <1>4, <2>4, <2>5, <4>2, <4>3
    <3> QED
      BY <3>1, <3>2, <3>3, PassesIs, Seeks
  <2>8. CASE Began(e, gate', p)
    <3>1. p \notin gate.paused /\ gate.running[p] = 0
      BY <2>2, <2>8 DEF Began, Ready
    <3>2. parked[p] = 0 /\ Live(p) = 0
      BY <3>1 DEF IInv, Hands, Live
    <3>3. Sorted(done, p, 0, 0, e.queues[p], e.lastQueued[p])
      BY <2>5, <3>2
    <3>4. settled' \subseteq Running(e)
      BY <2>2 DEF IInv, Hands, Running
    <3>5. \E q \in Partitions, i \in Offsets : Contract!Begins(q, i)
      <4>1. \/ ReadUpTo[p] = PlaceOf(e.queues[p], e.lastQueued[p])
            \/ Through(done, p, PlaceOf(e.queues[p], e.lastQueued[p]))
        BY <1>4, <2>5, <2>6
      <4>2. \A q \in Partitions \ {p} : q \in assignments =>
              ReadUpTo[q] = PlaceOf(e.queues[q], e.lastQueued[q])
        BY <2>4, <2>6
      <4>3. \A q \in Partitions : Delivering[q] = IF q \in settled' THEN 0 ELSE e.running[q]
        BY <2>6
      <4> QED
        BY <1>4, <2>2, <2>8, <3>3, <3>4, <4>1, <4>2, <4>3, Begins
    <3>6. Pauses' = Pauses
      BY <2>2 DEF Alike, Pauses
    <3>7. Contract!Begin
      BY <3>5, <3>6 DEF Contract!Begin
    <3> QED
      BY <3>7 DEF Contract!Step
  <2> QED
    BY <2>2, <2>7, <2>8
<1> QED
  BY <1>3, <1>4

\* A message pulled is queued, and may begin at once.
LEMMA PullSeen ==
    ASSUME IInv, IInv', NEW p \in Partitions, Pull(p)
    PROVE  [Contract!Step]_(Contract!vars)
<1> USE DEF Pull, group, core
<1> DEFINE o == Head(buffer[p])
<1>1. CASE gate' = gate
  BY <1>1, Unseen DEF Delivering, Pauses, ReadUpTo, Place
<1>2. CASE gate' # gate
  <2>1. gate' = Enqueued(gate, p, o) /\ ~stopped /\ stream /\ pulled = <<>>
    BY <1>2 DEF IInv, Room
  <2>2. buffer[p] \in Seq(Offsets) /\ buffer[p] # <<>> /\ o \in Offsets
    <3>1. buffer[p] \in Seq(Offsets) /\ buffer[p] # <<>>
      BY DEF IInv, Types
    <3> QED
      BY <3>1, HeadTailProperties
  <2>3. p \in assignments => Joins(done, p, o, gate.lastQueued[p])
    <3> SUFFICES ASSUME p \in assignments PROVE Joins(done, p, o, gate.lastQueued[p])
      OBVIOUS
    <3>1. Follows(done, p, 0, gate.lastQueued[p], buffer[p], fetched[p])
      BY <2>1 DEF IInv, Types, Arrival, Waiting
    <3>2. gate.lastQueued[p] \in Offsets \union {0} /\ fetched[p] \in Offsets \union {0}
      BY DEF IInv, Types, Gates
    <3> QED
      BY <2>2, <3>1, <3>2, NumbersAre, FollowsHands
  <2> HIDE DEF o
  <2>4. UNCHANGED <<committed, done, assignments, stopped, core>>
    OBVIOUS
  <2> HIDE DEF Pull
  <2> QED
    BY <2>1, <2>2, <2>3, <2>4, EnqueueSeen
<1> QED
  BY <1>1, <1>2

\* So is one that waited for room.
LEMMA GrantedSeen ==
    ASSUME IInv, IInv', Granted
    PROVE  [Contract!Step]_(Contract!vars)
<1> USE DEF Granted, group, client, core
<1>1. CASE stopped \/ ~stream
  <2>1. gate' = gate /\ UNCHANGED <<committed, done, assignments, stopped, core>>
    BY <1>1 DEF PumpReturned
  <2> QED
    BY <2>1, Unseen DEF Delivering, Pauses, ReadUpTo, Place
<1>2. CASE ~(stopped \/ ~stream)
  <2>1. PICK p \in Partitions, o \in Offsets : pulled = <<p, o>>
    BY DEF IInv, Room
  <2>2. /\ gate' = Enqueued(gate, p, o) /\ UNCHANGED <<committed, done, assignments, stopped, core>>
        /\ ~stopped /\ stream
    BY <1>2, <2>1
  <2>3. p \in assignments => Joins(done, p, o, gate.lastQueued[p])
    <3> SUFFICES ASSUME p \in assignments PROVE Joins(done, p, o, gate.lastQueued[p])
      OBVIOUS
    <3>1. Waiting(p) = o /\ o \in Nat \ {0}
      BY <2>1, OffsetsAre DEF Waiting
    <3>2. Follows(done, p, o, gate.lastQueued[p], buffer[p], fetched[p])
      BY <2>2, <3>1 DEF IInv, Types, Arrival
    <3>3. buffer[p] \in Seq(Offsets) /\ fetched[p] \in Offsets \union {0}
      BY DEF IInv, Types
    <3> QED
      BY <3>1, <3>2, <3>3, NumbersAre, FollowsLetsIn
  <2> QED
    BY <2>2, <2>3, EnqueueSeen
<1> QED
  BY <1>1, <1>2

\* The core resumes p, and the next of some partition may begin.
LEMMA ResumeSeen ==
    ASSUME Inv, IInv', NEW p \in Partitions, Resume(p)
    PROVE  [Contract!Step]_(Contract!vars)
<1>0. IInv
  BY DEF Inv
<1>1. PICK e \in Gates : /\ e = [gate EXCEPT !.paused = @ \ {p}] /\ Alike(e, gate')
                         /\ Still(e, gate') \/ \E q \in Partitions : Began(e, gate', q)
  BY ResumeKeeps
<1>2. ~stopped
  BY ResumeKeeps
<1>3. /\ UNCHANGED <<done, assignments, stopped, settled, revoked>>
      /\ <<p, parked[p]>> \in done /\ parked' = [parked EXCEPT ![p] = 0] /\ parked[p] # 0
  BY DEF Resume, group, client, Inv, Returned
<1>4. /\ gate \in Gates /\ parked \in [Partitions -> Offsets \union {0}]
      /\ gate.queues \in [Partitions -> Seq(Offsets)]
      /\ gate.lastQueued \in [Partitions -> Offsets \union {0}]
  BY <1>0 DEF IInv, Types, Gates
<1>5. /\ e.queues = gate.queues /\ e.running = gate.running /\ e.lastQueued = gate.lastQueued
      /\ e.paused = gate.paused \ {p}
  BY <1>1, <1>4 DEF Gates
<1>6. Pauses' = Pauses \ {p}
  BY <1>1, <1>2, <1>3, <1>5 DEF Pauses, Alike
<1>7. UNCHANGED <<Delivering, ReadUpTo>>
      \/ \E q \in Partitions, o \in Offsets : Contract!Begins(q, o)
  <2>1. CASE Still(e, gate')
    BY <1>1, <1>3, <1>5, <2>1 DEF Still, Alike, Delivering, ReadUpTo, Place
  <2>2. ASSUME NEW q \in Partitions, Began(e, gate', q)
        PROVE  \E r \in Partitions, o \in Offsets : Contract!Begins(r, o)
    <3>1. /\ e.running[q] = 0 /\ q \notin e.paused /\ e.queues[q] # <<>>
      BY <2>2 DEF Began, Ready
    <3>2. q \in assignments
      BY <1>0, <1>5, <3>1 DEF IInv, Owned
    <3>3. Sorted(done, q, parked[q], Live(q), gate.queues[q], gate.lastQueued[q])
      BY <1>0, <1>2 DEF IInv, Order
    <3>4. Live(q) = 0 /\ (q # p => parked[q] = 0)
      BY <1>0, <1>5, <3>1 DEF IInv, Hands, Live
    <3>5. Sorted(done, q, 0, 0, gate.queues[q], gate.lastQueued[q])
      <4>1. gate.queues[q] \in Seq(Offsets) /\ gate.lastQueued[q] \in Offsets \union {0}
        BY <1>4
      <4>2. ASSUME NEW i \in Nat \ {0}, Held(done, q, parked[q], Live(q), i)
            PROVE  Held(done, q, 0, 0, i)
        BY <1>3, <3>4, <4>2 DEF Held
      <4> QED
        BY <3>3, <4>1, <4>2, SortedStays
    <3>6. settled' \subseteq Running(e)
      BY <1>0, <1>3, <1>5 DEF IInv, Hands, Running
    <3>7. \A r \in Partitions : Delivering[r] = IF r \in settled' THEN 0 ELSE e.running[r]
      BY <1>0, <1>3, <1>5, SeenIs DEF Seen
    <3>8. \A r \in Partitions : r \in assignments =>
             ReadUpTo[r] = PlaceOf(e.queues[r], e.lastQueued[r])
      BY <1>0, <1>2, <1>5, SeenIs DEF Seen
    <3>9. UNCHANGED <<done, assignments, stopped>>
      BY <1>3
    <3> QED
      BY <1>0, <1>1, <1>2, <1>5, <2>2, <3>2, <3>5, <3>6, <3>7, <3>8, <3>9, Begins
  <2> QED
    BY <1>1, <2>1, <2>2
<1>8. Contract!Resume(p)
  BY <1>3, <1>6, <1>7 DEF Contract!Resume
<1> QED
  BY <1>8 DEF Contract!Step

\* A worker is free, and the next of some partition may begin.
LEMMA DeliveryEndsSeen ==
    ASSUME IInv, IInv', NEW p \in Partitions, DeliveryEnds(p)
    PROVE  [Contract!Step]_(Contract!vars)
<1>1. PICK e \in Gates : /\ e = [gate EXCEPT !.running[p] = 0]
                         /\ IF stopped THEN gate' = e
                            ELSE /\ Alike(e, gate')
                                 /\ Still(e, gate') \/ \E q \in Partitions : Began(e, gate', q)
  BY DeliveryEndsKeeps
<1>2. /\ UNCHANGED <<committed, done, assignments, stopped, parked>>
      /\ p \in settled /\ settled' = settled \ {p}
  BY DEF DeliveryEnds, group, client
<1>3. /\ gate \in Gates /\ gate.running \in [Partitions -> Offsets \union {0}]
      /\ settled \subseteq Running(gate)
  BY DEF IInv, Types, Gates, Hands
<1>4. /\ e.queues = gate.queues /\ e.running = [gate.running EXCEPT ![p] = 0]
      /\ e.lastQueued = gate.lastQueued /\ e.paused = gate.paused
  BY <1>1, <1>3 DEF Gates
<1>5. \A q \in Partitions : (IF q \in settled' THEN 0 ELSE e.running[q]) = Delivering[q]
  BY <1>2, <1>3, <1>4, SeenIs DEF Seen
<1>6. Pauses' = Pauses
  BY <1>1, <1>2, <1>4 DEF Pauses, Alike
<1>7. CASE stopped \/ Still(e, gate')
  <2>1. gate'.running = e.running
    BY <1>1, <1>7 DEF Still
  <2>2. Delivering' = Delivering
    <3>1. \A q \in Partitions : Delivering'[q] = Delivering[q]
      BY <1>5, <2>1, SeenIs DEF Seen
    <3> QED
      BY <3>1 DEF Delivering
  <2>3. ReadUpTo' = ReadUpTo
    BY <1>1, <1>2, <1>4, <1>7 DEF ReadUpTo, Place, Still, Alike
  <2> QED
    BY <1>2, <1>6, <2>2, <2>3, Unseen
<1>8. ASSUME ~stopped, NEW q \in Partitions, Began(e, gate', q)
      PROVE  [Contract!Step]_(Contract!vars)
  <2>1. e.running[q] = 0 /\ q \notin e.paused /\ e.queues[q] # <<>>
    BY <1>8 DEF Began, Ready
  <2>2. q \in assignments
    BY <1>4, <2>1 DEF IInv, Owned
  <2>3. Sorted(done, q, parked[q], Live(q), gate.queues[q], gate.lastQueued[q])
    BY <1>8 DEF IInv, Order
  <2>4. Live(q) = 0 /\ parked[q] = 0
    BY <1>2, <1>3, <1>4, <2>1 DEF IInv, Hands, Live
  <2>5. Sorted(done, q, 0, 0, e.queues[q], e.lastQueued[q])
    BY <1>4, <2>3, <2>4
  <2>6. settled' \subseteq Running(e)
    BY <1>2, <1>3, <1>4 DEF Running
  <2>7. \A r \in Partitions : r \in assignments =>
           ReadUpTo[r] = PlaceOf(e.queues[r], e.lastQueued[r])
    BY <1>4, <1>8, SeenIs DEF Seen
  <2>8. UNCHANGED <<done, assignments, stopped>> /\ Alike(e, gate')
    BY <1>1, <1>2, <1>8
  <2>9. \E r \in Partitions, o \in Offsets : Contract!Begins(r, o)
    BY <1>5, <1>8, <2>2, <2>5, <2>6, <2>7, <2>8, Begins
  <2>10. Contract!Begin
    BY <1>2, <1>6, <2>9 DEF Contract!Begin
  <2> QED
    BY <2>10 DEF Contract!Step
<1> QED
  BY <1>1, <1>7, <1>8

-----------------------------------------------------------------------------
\* The promise settles, the record handled.
LEMMA CoreHandlesSeen ==
    ASSUME IInv, IInv', NEW p \in Partitions, CoreHandles(p)
    PROVE  [Contract!Step]_(Contract!vars)
<1>1. /\ p \in Running(gate) /\ p \notin settled /\ settled' = settled \union {p}
      /\ done' = done \union {<<p, gate.running[p]>>}
      /\ UNCHANGED <<gate, assignments, stopped, parked>>
  BY DEF CoreHandles, Unsettled, Done, client, reader
<1>2. gate.running[p] # 0
  BY <1>1, RunningAre
<1>3. Delivering[p] = gate.running[p] /\ Delivering' = [Delivering EXCEPT ![p] = 0]
  <2>1. /\ Delivering \in [Partitions -> Offsets \union {0}]
        /\ Delivering' \in [Partitions -> Offsets \union {0}]
        /\ \A q \in Partitions : Delivering[q] = IF q \in settled THEN 0 ELSE gate.running[q]
        /\ \A q \in Partitions : Delivering'[q] = IF q \in settled' THEN 0 ELSE gate'.running[q]
    BY SeenIs DEF Seen
  <2>2. \A q \in Partitions : Delivering'[q] = IF q = p THEN 0 ELSE Delivering[q]
    BY <1>1, <2>1
  <2> QED
    BY <1>1, <2>1, <2>2
<1>4. Pauses' = Pauses /\ ReadUpTo' = ReadUpTo
  BY <1>1 DEF Pauses, ReadUpTo, Place
<1>5. Contract!Handle(p)
  BY <1>1, <1>2, <1>3, <1>4 DEF Contract!Handle
<1> QED
  BY <1>5 DEF Contract!Step

\* It leaves a record that is still to be read, or is done.
LEMMA CoreLeavesSeen ==
    ASSUME IInv, IInv', NEW p \in Partitions, CoreLeaves(p)
    PROVE  [Contract!Step]_(Contract!vars)
<1>1. /\ p \in Running(gate) /\ p \notin settled /\ settled' = settled \union {p}
      /\ UNCHANGED <<done, gate, assignments, stopped, parked>>
      /\ p \in revoked \/ stopped
  BY DEF CoreLeaves, Unsettled, group, client, reader
<1>2. gate.running[p] # 0 /\ gate.running[p] \in Nat \ {0}
  <2>1. gate.running[p] # 0
    BY <1>1, RunningAre
  <2> QED
    BY <2>1, InHandIs, OffsetsAre
<1>3. Delivering[p] = gate.running[p] /\ Delivering' = [Delivering EXCEPT ![p] = 0]
  <2>1. /\ Delivering \in [Partitions -> Offsets \union {0}]
        /\ Delivering' \in [Partitions -> Offsets \union {0}]
        /\ \A q \in Partitions : Delivering[q] = IF q \in settled THEN 0 ELSE gate.running[q]
        /\ \A q \in Partitions : Delivering'[q] = IF q \in settled' THEN 0 ELSE gate'.running[q]
    BY SeenIs DEF Seen
  <2>2. \A q \in Partitions : Delivering'[q] = IF q = p THEN 0 ELSE Delivering[q]
    BY <1>1, <2>1
  <2> QED
    BY <1>1, <2>1, <2>2
<1>4. Pauses' = Pauses /\ ReadUpTo' = ReadUpTo
  BY <1>1 DEF Pauses, ReadUpTo, Place
<1>5. gate.running[p] > ReadUpTo[p] \/ <<p, gate.running[p]>> \in done
  <2>1. /\ ReadUpTo[p] \in Offsets \union {0}
        /\ ReadUpTo[p] = IF p \notin assignments \/ stopped THEN 0
                         ELSE PlaceOf(gate.queues[p], gate.lastQueued[p])
    BY SeenIs DEF Seen
  <2>2. ReadUpTo[p] \in Nat
    BY <2>1, NumbersAre
  <2>3. CASE p \notin assignments \/ stopped
    BY <1>2, <2>1, <2>3
  <2>4. CASE ~(p \notin assignments \/ stopped) /\ ~(gate.running[p] > ReadUpTo[p])
    <3>1. gate.running[p] \in 1..PlaceOf(gate.queues[p], gate.lastQueued[p])
      BY <1>2, <2>1, <2>2, <2>4
    <3>2. Sorted(done, p, parked[p], Live(p), gate.queues[p], gate.lastQueued[p])
      BY <2>4 DEF IInv, Order
    <3>3. Held(done, p, parked[p], Live(p), gate.running[p])
      BY <3>1, <3>2 DEF Sorted
    <3>4. Live(p) = 0 /\ parked[p] = 0
      BY <1>1, <1>2, <2>4 DEF Live, IInv, Hands
    <3> QED
      BY <1>2, <3>3, <3>4 DEF Held
  <2> QED
    BY <2>3, <2>4
<1>6. Contract!Leave(p)
  BY <1>1, <1>2, <1>3, <1>4, <1>5 DEF Contract!Leave
<1> QED
  BY <1>6 DEF Contract!Step

\* It settles, the record parked.
LEMMA CoreParksSeen ==
    ASSUME IInv, IInv', NEW p \in Partitions, CoreParks(p)
    PROVE  [Contract!Step]_(Contract!vars)
<1>1. /\ p \in Running(gate) /\ p \notin settled /\ settled' = settled \union {p} /\ ~stopped
      /\ parked' = [parked EXCEPT ![p] = gate.running[p]]
      /\ gate' = [gate EXCEPT !.paused = @ \union {p}]
      /\ UNCHANGED <<done, assignments, stopped>>
  BY DEF CoreParks, Unsettled, group, client, reader
<1>2. gate.running[p] # 0 /\ gate \in Gates
  BY <1>1, RunningAre DEF IInv, Types
<1>3. /\ gate'.running = gate.running /\ gate'.queues = gate.queues
      /\ gate'.lastQueued = gate.lastQueued /\ gate'.paused = gate.paused \union {p}
  BY <1>1, <1>2 DEF Gates
<1>4. Delivering[p] = gate.running[p] /\ Delivering' = [Delivering EXCEPT ![p] = 0]
  <2>1. /\ Delivering \in [Partitions -> Offsets \union {0}]
        /\ Delivering' \in [Partitions -> Offsets \union {0}]
        /\ \A q \in Partitions : Delivering[q] = IF q \in settled THEN 0 ELSE gate.running[q]
        /\ \A q \in Partitions : Delivering'[q] = IF q \in settled' THEN 0 ELSE gate'.running[q]
    BY SeenIs DEF Seen
  <2>2. \A q \in Partitions : Delivering'[q] = IF q = p THEN 0 ELSE Delivering[q]
    BY <1>1, <1>3, <2>1
  <2> QED
    BY <1>1, <2>1, <2>2
<1>5. Pauses' = Pauses \union {p} /\ ReadUpTo' = ReadUpTo
  BY <1>1, <1>3 DEF Pauses, ReadUpTo, Place
<1>6. parked[p] = 0
  BY <1>1, <1>2 DEF IInv, Hands
<1>7. Contract!Park(p)
  BY <1>1, <1>2, <1>4, <1>5, <1>6 DEF Contract!Park
<1> QED
  BY <1>7 DEF Contract!Step

\* A record is done that is not in delivery here.
LEMMA HandledBesideSeen ==
    ASSUME IInv, IInv', NEW p \in Partitions, OtherWorks(p) \/ Reenters(p)
    PROVE  [Contract!Step]_(Contract!vars)
<1>1. UNCHANGED <<gate, settled, stopped, assignments, parked>>
  BY DEF OtherWorks, Reenters, client, reader, core
<1>2. PICK o \in Offsets :
         \/ done' = done \union {<<p, o>>}
         \/ p \in NoneCommitted /\ ~fromBeginning /\ done' = done \union ({p} \X (1..o))
  <2>1. CASE OtherWorks(p)
    BY <2>1, OtherWorksKeeps
  <2>2. CASE Reenters(p)
    BY <2>2, ReentersKeeps DEF Reenters, Done
  <2> QED
    BY <2>1, <2>2
<1>3. UNCHANGED <<Delivering, Pauses, ReadUpTo>>
  BY <1>1 DEF Delivering, Pauses, ReadUpTo, Place
<1>4. Contract!HandledBeside(p, o)
  BY <1>1, <1>2, <1>3 DEF Contract!HandledBeside
<1> QED
  BY <1>4 DEF Contract!Step

\* What is lost is revoked; of a stream that is left, all is read anew.
LEMMA RebalanceSeen ==
    ASSUME IInv, IInv', NEW A \in SUBSET Partitions, Rebalance(A) \/ Rejoin(A)
    PROVE  [Contract!Step]_(Contract!vars)
<1> DEFINE S == LostNow(A)
<1>1. Assign(A) /\ Joined(A) /\ ~stopped
  BY DEF Rebalance, Rejoin
<1>10. Contract!PassesOver
  <2>1. (IF stream THEN {p \in A \intersect NoneCommitted : fetched[p] = 0} ELSE {})
           \in SUBSET NoneCommitted
    OBVIOUS
  <2>2. NoneCommitted \subseteq Partitions
    BY DEF NoneCommitted
  <2> QED
    BY <1>1, <2>1, <2>2, PassesIs DEF Assign
<1>2. /\ S \subseteq Partitions
      /\ gate'.running = gate.running /\ gate'.paused = gate.paused \ S
      /\ \A p \in Partitions :
            IF p \in S \/ Rotates(A)
            THEN gate'.queues[p] = <<>> /\ gate'.lastQueued[p] = 0
            ELSE gate'.queues[p] = gate.queues[p] /\ gate'.lastQueued[p] = gate.lastQueued[p]
      /\ parked' = [p \in Partitions |-> IF p \in S THEN 0 ELSE parked[p]]
      /\ UNCHANGED <<stopped, settled>>
  BY <1>1, JoinedGate
<1>3. assignments' = A /\ assigned = assignments
  BY <1>1 DEF Assign, IInv, Types
<1>4. \A p \in Partitions \ A : p \in assignments => p \in S
  BY <1>3 DEF LostNow
<1> HIDE DEF S
<1>5. UNCHANGED Delivering
  BY <1>2 DEF Delivering
<1>6. Pauses' = Pauses \ S
  BY <1>1, <1>2 DEF Pauses
<1>7. ReadUpTo' \in [Partitions -> Offsets \union {0}]
  BY SeenIs DEF Seen
<1>8. ASSUME NEW p \in Partitions
      PROVE  Through(done, p, ReadUpTo'[p]) \/ (p \notin S /\ ReadUpTo'[p] = ReadUpTo[p])
  <2>1. ReadUpTo[p] = IF p \notin assignments \/ stopped THEN 0
                      ELSE PlaceOf(gate.queues[p], gate.lastQueued[p])
    BY SeenIs DEF Seen
  <2>2. ReadUpTo'[p] = IF p \notin A \/ stopped THEN 0
                       ELSE PlaceOf(gate'.queues[p], gate'.lastQueued[p])
    BY <1>2, <1>3, SeenIs DEF Seen
  <2>3. CASE p \in S \/ Rotates(A)
    <3>1. ReadUpTo'[p] = 0
      BY <1>2, <2>2, <2>3, SortedAnew
    <3> QED
      BY <3>1 DEF Through
  <2>4. CASE ~(p \in S \/ Rotates(A))
    <3>1. p \notin assignments => PlaceOf(gate.queues[p], gate.lastQueued[p]) = 0
      BY DEF IInv, Owned, PlaceOf
    <3> QED
      BY <1>2, <1>4, <2>1, <2>2, <2>4, <3>1
  <2> QED
    BY <2>3, <2>4
<1>9. Contract!Revoke(S)
  BY <1>2, <1>5, <1>6, <1>7, <1>8, <1>10, ThroughIs DEF Contract!Revoke
<1> QED
  BY <1>2, <1>9 DEF Contract!Step

\* A stop takes everything from the core.
LEMMA StopsSeen ==
    ASSUME IInv, IInv', Stops
    PROVE  [Contract!Step]_(Contract!vars)
<1>1. /\ stopped' /\ parked' = [p \in Partitions |-> 0]
      /\ UNCHANGED <<done, gate, settled>>
  BY DEF Stops, group
<1>2. Delivering' = Delivering /\ Pauses' = {}
  BY <1>1 DEF Delivering, Pauses
<1>3. ReadUpTo' \in [Partitions -> Offsets \union {0}] /\ \A p \in Partitions : ReadUpTo'[p] = 0
  BY <1>1, SeenIs DEF Seen
<1>4. Pauses \subseteq Partitions
  BY DEF Pauses, IInv, Types, Gates
<1>5. Contract!Revoke(Partitions)
  <2>1. \A p \in Partitions : Through(done, p, ReadUpTo'[p])
    BY <1>3 DEF Through
  <2> QED
    BY <1>1, <1>2, <1>3, <1>4, <2>1, ThroughIs, PassesIs DEF Contract!Revoke
<1> QED
  BY <1>5 DEF Contract!Step

\* The client begins with what the group has, and nothing is queued.
LEMMA StartedSeen ==
    ASSUME IInv, IInv', Started
    PROVE  [Contract!Step]_(Contract!vars)
<1>1. /\ assignments' = Partitions /\ UNCHANGED <<gate, stopped, parked, settled>>
      /\ ReadOn(NoneCommitted, committed)
  BY DEF Started, core
<1>2. assignments = {} /\ ~stopped
  BY DEF Started, IInv, Fresh, Begun
<1>3. UNCHANGED <<Delivering, Pauses>>
  BY <1>1 DEF Delivering, Pauses
<1>4. \A p \in Partitions : PlaceOf(gate.queues[p], gate.lastQueued[p]) = 0
  BY <1>2 DEF IInv, Owned, PlaceOf
<1>5. \A p \in Partitions : ReadUpTo'[p] = ReadUpTo[p]
  BY <1>1, <1>2, <1>4, SeenIs DEF Seen
<1>6. Contract!PassesOver
  <2>1. NoneCommitted \in SUBSET Partitions
    BY DEF NoneCommitted
  <2> QED
    BY <1>1, <2>1, PassesIs
<1> QED
  BY <1>1, <1>3, <1>5, <1>6, Seeks

\* A new stream is read from where the group is.
LEMMA OpenedSeen ==
    ASSUME IInv, IInv', Opened
    PROVE  [Contract!Step]_(Contract!vars)
<1>1. /\ UNCHANGED <<gate, assignments, stopped, parked, settled>>
      /\ ReadOn(assignments \intersect NoneCommitted, committed)
  BY DEF Opened, core
<1>2. UNCHANGED <<Delivering, Pauses, ReadUpTo>>
  BY <1>1 DEF Delivering, Pauses, ReadUpTo, Place
<1>3. Contract!PassesOver
  <2>1. assignments \intersect NoneCommitted \in SUBSET Partitions
        /\ assignments \intersect NoneCommitted \subseteq NoneCommitted
    BY DEF NoneCommitted
  <2> QED
    BY <1>1, <2>1, PassesIs
<1> QED
  BY <1>1, <1>2, <1>3, Seeks

\* The reader, the client and the connection are none of the core's.
LEMMA ReaderUnseen ==
    ASSUME IInv,
           \/ Connecting(Connect) \/ Connecting(Loaded) \/ Connecting(Reached)
           \/ Connecting(AttemptFails)
           \/ Consume \/ StartFails \/ BackoffEnds \/ OpenFails \/ OpenRefused
           \/ Expelled \/ Closed \/ PumpEnds \/ StreamFails
           \/ \E p \in Partitions : Fetch(p)
           \/ UNCHANGED vars
    PROVE  [Contract!Step]_(Contract!vars)
<1>1. UNCHANGED <<committed, done, gate, assignments, settled, parked, stopped>>
  BY DEF Connecting, Consume, StartFails, BackoffEnds, OpenFails, OpenRefused, Expelled, Closed,
         PumpEnds, StreamFails, PumpReturned, Fetch, vars, group, client, reader, core
<1> QED
  BY <1>1, Unseen DEF Delivering, Pauses, ReadUpTo, Place

\* What a stop drops in the end the core does not see any longer.
LEMMA StopFinishesUnseen ==
    ASSUME IInv, StopFinishes
    PROVE  [Contract!Step]_(Contract!vars)
<1>1. /\ stopped /\ UNCHANGED <<committed, done, assignments, settled, parked, stopped>>
      /\ gate'.running = gate.running
  BY DEF StopFinishes, group, client, core, IInv, Types, Gates
<1> QED
  BY <1>1, Unseen DEF Delivering, Pauses, ReadUpTo

\* Every step is one of the contract, or none.
LEMMA StepsSeen ==
    ASSUME Inv, IInv', [Next]_vars
    PROVE  [Contract!Step]_(Contract!vars)
<1>0. IInv
  BY DEF Inv
<1>1. CASE \/ Connecting(Connect) \/ Connecting(Loaded) \/ Connecting(Reached)
           \/ Connecting(AttemptFails)
           \/ Consume \/ StartFails \/ BackoffEnds \/ OpenFails \/ OpenRefused
           \/ Expelled \/ Closed \/ PumpEnds \/ StreamFails
           \/ \E p \in Partitions : Fetch(p)
           \/ UNCHANGED vars
  BY <1>0, <1>1, ReaderUnseen
<1>2. CASE Started \/ Opened \/ StopFinishes \/ Granted
  BY <1>0, <1>2, StartedSeen, OpenedSeen, StopFinishesUnseen, GrantedSeen
<1>3. CASE Stop \/ Disconnects
  <2>1. CASE Stops
    BY <1>0, <2>1, StopsSeen
  <2>2. CASE UNCHANGED <<group, client, gate, reader, owned, core, troubles>>
    BY <1>0, <2>2, Unseen DEF Delivering, Pauses, ReadUpTo, Place, group, client, reader, core
  <2> QED
    BY <1>3, <2>1, <2>2 DEF Stop, Disconnects
<1>4. ASSUME NEW p \in Partitions, Pull(p) \/ Resume(p) \/ DeliveryEnds(p)
      PROVE  [Contract!Step]_(Contract!vars)
  BY <1>0, <1>4, PullSeen, ResumeSeen, DeliveryEndsSeen
<1>5. ASSUME NEW p \in Partitions,
             CoreHandles(p) \/ CoreLeaves(p) \/ CoreParks(p) \/ OtherWorks(p) \/ Reenters(p)
      PROVE  [Contract!Step]_(Contract!vars)
  BY <1>0, <1>5, CoreHandlesSeen, CoreLeavesSeen, CoreParksSeen, HandledBesideSeen
<1>6. ASSUME NEW A \in SUBSET Partitions, Rebalance(A) \/ Rejoin(A)
      PROVE  [Contract!Step]_(Contract!vars)
  BY <1>0, <1>6, RebalanceSeen
<1> QED
  BY <1>1, <1>2, <1>3, <1>4, <1>5, <1>6 DEF Next

\* It begins as the contract does.
LEMMA InitSeen ==
    Init => Contract!Init
<1> SUFFICES ASSUME Init PROVE Contract!Init
  OBVIOUS
<1>1. /\ gate.running = [p \in Partitions |-> 0] /\ gate.paused = {}
      /\ assignments = {} /\ settled = {} /\ done = {} /\ parked = [p \in Partitions |-> 0]
  BY DEF Init, Fields
<1>2. NoneCommitted = Partitions
  BY DEF Init, NoneCommitted
<1> QED
  BY <1>1, <1>2 DEF Contract!Init, Delivering, Pauses, ReadUpTo

\* A consumption is what the core asks of an adapter: every step of the
\* consumption, of its client and of the core is a step of DeliveryContract as
\* the core sees it, or none.  Records of a partition come in order, one at a
\* time, none is left out that the group is not done with, Concurrency partitions
\* at most are in delivery, and none that is paused.  Only before the first commit
\* of a partition may a reading pass over records, and only without fromBeginning.
THEOREM ConsumptionImplementsContract == Spec => ImplementsContract
<1>1. [Next]_vars /\ Inv /\ Inv' => [Contract!Next]_(Contract!vars)
  <2> SUFFICES ASSUME Inv, Inv', [Next]_vars
               PROVE  [Contract!Next]_(Contract!vars)
    OBVIOUS
  <2>1. [Contract!Step]_(Contract!vars)
    BY StepsSeen DEF Inv
  <2>2. NoneCommitted' \subseteq NoneCommitted
    BY CommittedStays DEF Inv
  <2> QED
    BY <2>1, <2>2 DEF Contract!Next
<1> QED
  BY <1>1, InitSeen, Invariance, PTL DEF Spec, ImplementsContract, Contract!Spec

\* So nothing is left behind: with every record up to the place a partition is read
\* from the group is done, or it is in delivery or parked; a commit of an offset
\* covers those before it.
THEOREM ConsumptionSkipsNothing == Spec => []Contract!NothingSkipped
<1>1. Inv => Contract!NothingSkipped
  <2> SUFFICES ASSUME IInv, NEW p \in Partitions, NEW i \in 1..ReadUpTo[p]
               PROVE  <<p, i>> \in done \/ Delivering[p] = i \/ parked[p] = i
    BY DEF Contract!NothingSkipped, Inv
  <2>1. /\ ReadUpTo[p] = IF p \notin assignments \/ stopped THEN 0
                         ELSE PlaceOf(gate.queues[p], gate.lastQueued[p])
        /\ Delivering[p] = IF p \in settled THEN 0 ELSE gate.running[p]
    BY SeenIs DEF Seen
  <2>2. ~stopped /\ i \in 1..PlaceOf(gate.queues[p], gate.lastQueued[p]) /\ i # 0
    BY <2>1
  <2>3. Sorted(done, p, parked[p], Live(p), gate.queues[p], gate.lastQueued[p])
    BY <2>2 DEF IInv, Order
  <2>4. Held(done, p, parked[p], Live(p), i)
    BY <2>2, <2>3 DEF Sorted
  <2> QED
    BY <2>1, <2>2, <2>4 DEF Held, Live
<1> QED
  BY <1>1, Invariance, PTL
================================================================================
