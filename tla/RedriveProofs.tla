----------------------------- MODULE RedriveProofs -----------------------------
(***************************************************************************)
(* What a redrive keeps, for every number of partitions, dead letters,     *)
(* runs, faults and options: no dead letter is lost, none goes back twice  *)
(* but after a commit that failed, and a run with a `max` stops there.     *)
(***************************************************************************)
EXTENDS Redrive, FiniteSetTheorems, SequenceTheorems, TLAPS

Works == {"none", "ready", "filter", "skip", "hop", "commit", "counted", "over"}
Waits == {"awake", "nextEvent", "slot", "waiting", "granted", "eachMessage", "ended"}

HopRecord == [wrapper : {"none", "running", "settled"},
              outcome : {"none", "pending", "ok", "failed"}, known : BOOLEAN]

Types ==
    /\ log \in [Partitions -> Seq(BOOLEAN)]
    /\ connected \in BOOLEAN /\ stopped \in BOOLEAN
    /\ committed \in [Partitions -> Nat] /\ positions \in [Partitions -> Nat]
    /\ at \in [Partitions -> Waits]
    /\ phase \in {"none", "consuming", "sleeping", "settling", "stopping"}
    /\ options \in [to : BOOLEAN, max : Nat, filter : BOOLEAN, wrap : BOOLEAN]
    /\ ready \in BOOLEAN /\ aborted \in BOOLEAN /\ failure \in BOOLEAN /\ fresh \in BOOLEAN
    /\ awaited \subseteq Partitions
    /\ work \in [Partitions -> Works]
    /\ hop \in [Partitions -> HopRecord]
    /\ reprocessed \in Nat /\ skipped \in Nat
    /\ copies \in [Partitions -> Seq(Nat)] /\ repeated \in [Partitions -> Seq(Nat)]

\* The slots are counted, and who waits in line is let in by somebody.
Slots == waiting \in Seq(Partitions) /\ SlotsCounted

\* Where a run may be: without one nothing moves, and what stopped was aborted.
Phases ==
    /\ phase = "none" => /\ ~aborted /\ reprocessed = 0 /\ skipped = 0
                         /\ \A p \in Partitions : at[p] = "ended" /\ positions[p] = 0
    /\ stopped /\ phase # "none" => aborted

\* The loop of p, and the message in its hands.
Loop(p) ==
    /\ Len(copies[p]) = Len(log[p]) /\ Len(repeated[p]) = Len(log[p])
    /\ positions[p] <= Len(log[p]) /\ committed[p] <= Len(log[p])
    /\ at[p] \in {"slot", "waiting", "granted", "eachMessage"} => positions[p] < Len(log[p])
    /\ work[p] # "none" <=> at[p] = "eachMessage"
    /\ hop[p] # NoHop => work[p] = "hop"
    /\ hop[p].outcome # "none" => hop[p].known
    /\ work[p] = "over" => aborted

\* The group is not past what it reads, but for the commit of the message that
\* is counted.
Reads(p) ==
    /\ at[p] = "awake" => positions[p] = 0 \/ committed[p] <= positions[p]
    /\ at[p] \in {"nextEvent", "slot", "waiting", "granted", "eachMessage"} /\ work[p] # "counted"
          => committed[p] <= positions[p]
    /\ work[p] = "counted" => committed[p] <= positions[p] + 1

Done(p, n) == copies[p][n] > 0 \/ <<p, n>> \in filtered

DoneUpTo(p, n) == \A i \in 1..n : Done(p, i)

\* A message that is acknowledged and not committed yet.
Underway(p) == hop[p].outcome = "ok" \/ work[p] = "commit"

\* Everything the group is past is done, and so is everything the loop of p
\* read, unless it was told to stop before its message had a target.
Safe(p) ==
    /\ DoneUpTo(p, committed[p])
    /\ ~aborted \/ work[p] \in {"filter", "skip", "hop", "commit", "counted"} => DoneUpTo(p, positions[p])
    /\ work[p] \in {"skip", "counted"} \/ Underway(p) => Done(p, Current(p))

\* What the group is not past went back as often as a commit of it failed, but
\* for the message that is acknowledged and not committed yet.
Once(p) ==
    \A n \in 1..Len(log[p]) :
        /\ copies[p][n] <= 1 + repeated[p][n]
        /\ n > committed[p] /\ ~(n = Current(p) /\ Underway(p)) => copies[p][n] <= repeated[p][n]

Undecided == {p \in Partitions : work[p] \in {"filter", "skip", "hop", "commit"}}
Counting == {p \in Partitions : work[p] = "counted"}

\* How many messages a run with a `max` may still count.
Bounded ==
    options.max > 0 =>
        /\ ~aborted => reprocessed + skipped < options.max + Cardinality(Counting)
        /\ reprocessed + skipped + Cardinality(Undecided) < options.max + Cardinality(Partitions)

Each(p) == Loop(p) /\ Reads(p) /\ Safe(p) /\ Once(p)

IInv == Types /\ Phases /\ Slots /\ Bounded /\ \A p \in Partitions : Each(p)

-----------------------------------------------------------------------------
(* Sequences, one per partition. *)

\* A record more at the end of one of them.
LEMMA OneAppended ==
    ASSUME NEW S, NEW f \in [Partitions -> Seq(S)], NEW e \in S, NEW p \in Partitions,
           NEW g, g = [f EXCEPT ![p] = Append(@, e)]
    PROVE  /\ g \in [Partitions -> Seq(S)]
           /\ \A q \in Partitions : q # p => g[q] = f[q]
           /\ Len(g[p]) = Len(f[p]) + 1 /\ g[p][Len(f[p]) + 1] = e
           /\ \A i \in 1..Len(f[p]) : g[p][i] = f[p][i]
<1>1. f[p] \in Seq(S)
  OBVIOUS
<1>2. /\ Append(f[p], e) \in Seq(S)
      /\ Len(Append(f[p], e)) = Len(f[p]) + 1 /\ Append(f[p], e)[Len(f[p]) + 1] = e
      /\ \A i \in 1..Len(f[p]) : Append(f[p], e)[i] = f[p][i]
  BY <1>1, AppendProperties
<1>3. g[p] = Append(f[p], e) /\ \A q \in Partitions : q # p => g[q] = f[q]
  OBVIOUS
<1>4. g \in [Partitions -> Seq(S)]
  BY <1>2
<1> QED
  BY <1>2, <1>3, <1>4

\* One more at one place of one of them.
LEMMA OneMore ==
    ASSUME NEW f \in [Partitions -> Seq(Nat)], NEW p \in Partitions, NEW n \in 1..Len(f[p]),
           NEW g, g = [f EXCEPT ![p][n] = @ + 1]
    PROVE  /\ g \in [Partitions -> Seq(Nat)]
           /\ \A q \in Partitions : q # p => g[q] = f[q]
           /\ Len(g[p]) = Len(f[p]) /\ g[p][n] = f[p][n] + 1
           /\ \A i \in 1..Len(f[p]) : i # n => g[p][i] = f[p][i]
<1>1. f[p] \in Seq(Nat) /\ f[p][n] \in Nat
  BY ElementOfSeq
<1>2. f[p][n] + 1 \in Nat
  BY <1>1
<1>3. /\ [f[p] EXCEPT ![n] = f[p][n] + 1] \in Seq(Nat)
      /\ Len([f[p] EXCEPT ![n] = f[p][n] + 1]) = Len(f[p])
      /\ \A i \in 1..Len(f[p]) :
            [f[p] EXCEPT ![n] = f[p][n] + 1][i] = IF i = n THEN f[p][n] + 1 ELSE f[p][i]
  BY <1>1, <1>2, ExceptSeq
<1>4. g = [f EXCEPT ![p] = [f[p] EXCEPT ![n] = f[p][n] + 1]]
  OBVIOUS
<1>5. g[p] = [f[p] EXCEPT ![n] = f[p][n] + 1] /\ \A q \in Partitions : q # p => g[q] = f[q]
  BY <1>4
<1>6. g \in [Partitions -> Seq(Nat)]
  BY <1>3, <1>4
<1> QED
  BY <1>3, <1>5, <1>6

-----------------------------------------------------------------------------
(* The adapter's loop of a partition goes around. *)

\* Where the loop of p is after the top of it.
LEMMA AtTheTop ==
    ASSUME NEW p \in Partitions, NEW taken, NEW line, NEW pcs \in [Partitions -> Waits],
           log \in [Partitions -> Seq(BOOLEAN)], positions' \in [Partitions -> Nat],
           Goes(p, taken, line, pcs)
    PROVE  /\ at' \in [Partitions -> Waits]
           /\ \A q \in Partitions : q # p => at'[q] = pcs[q]
           /\ stopped => at'[p] = "ended"
           /\ ~stopped => at'[p] \in {"nextEvent", "slot", "waiting"}
           /\ at'[p] \in {"slot", "waiting"} => positions'[p] < Len(log[p])
<1>1. positions'[p] \in Nat /\ Len(log[p]) \in Nat
  BY LenProperties
<1>2. \E w \in {"ended", "nextEvent", "slot", "waiting"} :
         /\ at' = [pcs EXCEPT ![p] = w]
         /\ stopped => w = "ended"
         /\ ~stopped => w # "ended"
         /\ w \in {"slot", "waiting"} => positions'[p] < Len(log[p])
  BY <1>1 DEF Goes
<1> QED
  BY <1>2 DEF Waits

\* What the step of another loop may do to the loop of q: wake it, or let it in.
Woken(q) ==
    \/ at'[q] = at[q]
    \/ at[q] = "nextEvent" /\ at'[q] = "awake"
    \/ at[q] = "waiting" /\ at'[q] = "granted"

LEMMA FirstInLine ==
    ASSUME Types, Slots, waiting # <<>>
    PROVE  /\ Head(waiting) \in Partitions /\ at[Head(waiting)] = "waiting"
           /\ Tail(waiting) \in Seq(Partitions)
           /\ Len(Tail(waiting)) = Len(waiting) - 1
           /\ \A i \in 1..Len(Tail(waiting)) : Tail(waiting)[i] = waiting[i + 1]
<1>1. waiting \in Seq(Partitions) /\ Range(waiting) = {p \in Partitions : at[p] = "waiting"}
  BY DEF Slots, SlotsCounted
<1>2. /\ Head(waiting) \in Partitions /\ Tail(waiting) \in Seq(Partitions)
      /\ Len(Tail(waiting)) = Len(waiting) - 1
      /\ \A i \in 1..Len(Tail(waiting)) : Tail(waiting)[i] = waiting[i + 1]
  BY <1>1, HeadTailProperties
<1>3. Head(waiting) = waiting[1] /\ 1 \in DOMAIN waiting
  BY <1>1
<1>4. Head(waiting) \in Range(waiting)
  BY <1>3 DEF Range
<1> QED
  BY <1>1, <1>2, <1>4

\* The loop of p after its finally.
LEMMA AroundAgain ==
    ASSUME Types, Slots, NEW p \in Partitions, NEW taken, Finally(p, taken)
    PROVE  /\ positions' \in [Partitions -> Nat] /\ positions'[p] = positions[p] + 1
           /\ \A q \in Partitions : q # p => positions'[q] = positions[q] /\ Woken(q)
           /\ at' \in [Partitions -> Waits]
           /\ stopped => at'[p] = "ended"
           /\ ~stopped => at'[p] \in {"nextEvent", "slot", "waiting"}
           /\ at'[p] \in {"slot", "waiting"} => positions'[p] < Len(log[p])
<1>1. /\ positions' \in [Partitions -> Nat] /\ positions'[p] = positions[p] + 1
      /\ \A q \in Partitions : q # p => positions'[q] = positions[q]
  BY DEF Types, Finally
<1>2. PICK rest, pc :
         /\ pc \in [Partitions -> Waits]
         /\ Goes(p, taken - 1, rest, pc)
         /\ \A q \in Partitions : pc[q] = at[q] \/ (at[q] = "waiting" /\ pc[q] = "granted")
  <2>1. CASE waiting = <<>>
    BY <2>1 DEF Finally, Types
  <2>2. CASE waiting # <<>>
    <3>1. Head(waiting) \in Partitions /\ at[Head(waiting)] = "waiting"
      BY <2>2, FirstInLine
    <3>2. [at EXCEPT ![Head(waiting)] = "granted"] \in [Partitions -> Waits]
      BY DEF Types, Waits
    <3>3. \A q \in Partitions :
             \/ [at EXCEPT ![Head(waiting)] = "granted"][q] = at[q]
             \/ (at[q] = "waiting" /\ [at EXCEPT ![Head(waiting)] = "granted"][q] = "granted")
      BY <3>1 DEF Types
    <3> QED
      BY <2>2, <3>2, <3>3 DEF Finally
  <2> QED
    BY <2>1, <2>2
<1>3. log \in [Partitions -> Seq(BOOLEAN)]
  BY DEF Types
<1>4. /\ at' \in [Partitions -> Waits]
      /\ \A q \in Partitions : q # p => at'[q] = pc[q]
      /\ stopped => at'[p] = "ended"
      /\ ~stopped => at'[p] \in {"nextEvent", "slot", "waiting"}
      /\ at'[p] \in {"slot", "waiting"} => positions'[p] < Len(log[p])
  BY <1>1, <1>2, <1>3, AtTheTop
<1> QED
  BY <1>1, <1>2, <1>4 DEF Woken

-----------------------------------------------------------------------------
(* The slots. *)

Holders(pc) == {q \in Partitions : pc[q] \in {"slot", "eachMessage"}}
InLine(pc) == {q \in Partitions : pc[q] = "waiting"}

\* Somebody other than p will let the first in line in.
LetIn(p, pc) == \E q \in Partitions : q # p /\ pc[q] \in {"slot", "granted", "eachMessage"}

LEMMA HoldersFinite ==
    ASSUME NEW pc, NEW p
    PROVE  /\ IsFiniteSet(Holders(pc)) /\ Cardinality(Holders(pc)) \in Nat
           /\ IsFiniteSet(Holders(pc) \ {p}) /\ Cardinality(Holders(pc) \ {p}) \in Nat
<1>1. IsFiniteSet(Partitions)
  BY MemoryAdapterAssumption
<1>2. IsFiniteSet(Holders(pc)) /\ IsFiniteSet(Holders(pc) \ {p})
  BY <1>1, FS_Subset DEF Holders
<1> QED
  BY <1>2, FS_CardinalityType

\* Who joins the line stands behind everybody.
LEMMA BehindTheLine ==
    ASSUME NEW p \in Partitions, NEW line \in Seq(Partitions), IsInjective(line), p \notin Range(line)
    PROVE  /\ Append(line, p) \in Seq(Partitions) /\ Append(line, p) # <<>>
           /\ Range(Append(line, p)) = Range(line) \union {p} /\ IsInjective(Append(line, p))
<1>1. /\ Append(line, p) \in Seq(Partitions) /\ Append(line, p) # <<>>
      /\ Len(Append(line, p)) = Len(line) + 1
      /\ \A i \in 1..Len(line) : Append(line, p)[i] = line[i]
      /\ Append(line, p)[Len(line) + 1] = p
  BY AppendProperties
<1>2. /\ Len(line) \in Nat /\ DOMAIN line = 1..Len(line)
      /\ DOMAIN Append(line, p) = 1..(Len(line) + 1)
  BY <1>1, LenProperties
<1>3. \A i \in 1..(Len(line) + 1) : i \in 1..Len(line) \/ i = Len(line) + 1
  BY <1>2
<1>4. 1..Len(line) \subseteq 1..(Len(line) + 1) /\ Len(line) + 1 \in 1..(Len(line) + 1)
  BY <1>2
<1>5. Range(Append(line, p)) = Range(line) \union {p}
  BY <1>1, <1>2, <1>3, <1>4 DEF Range
<1>6. \A i \in 1..Len(line) : line[i] # p
  BY <1>2 DEF Range
<1>7. IsInjective(Append(line, p))
  BY <1>1, <1>2, <1>3, <1>6 DEF IsInjective
<1> QED
  BY <1>1, <1>5, <1>7

\* Once the first in line goes, the others are there as before.
LEMMA TheRestOfTheLine ==
    ASSUME NEW line \in Seq(Partitions), line # <<>>, IsInjective(line)
    PROVE  Range(Tail(line)) = Range(line) \ {Head(line)} /\ IsInjective(Tail(line))
<1>1. /\ Tail(line) \in Seq(Partitions) /\ Len(Tail(line)) = Len(line) - 1
      /\ \A i \in 1..Len(Tail(line)) : Tail(line)[i] = line[i + 1]
  BY HeadTailProperties
<1>2. /\ Len(line) \in Nat \ {0} /\ DOMAIN line = 1..Len(line)
      /\ DOMAIN Tail(line) = 1..(Len(line) - 1) /\ Head(line) = line[1]
  BY <1>1, LenProperties, EmptySeq
<1>3. \A i \in 1..(Len(line) - 1) : i + 1 \in 1..Len(line) /\ i + 1 # 1
  BY <1>2
<1>4. \A i \in 1..Len(line) : i # 1 => \E j \in 1..(Len(line) - 1) : j + 1 = i
  <2> SUFFICES ASSUME NEW i \in 1..Len(line), i # 1
               PROVE  i - 1 \in 1..(Len(line) - 1) /\ (i - 1) + 1 = i
    OBVIOUS
  <2> QED
    BY <1>2
<1>5. 1 \in 1..Len(line)
  BY <1>2
<1>6. \A i \in 1..Len(line) : i # 1 => line[i] # line[1]
  BY <1>2, <1>5 DEF IsInjective
<1>7. Range(Tail(line)) = Range(line) \ {Head(line)}
  <2>1. \A x \in Range(Tail(line)) : x \in Range(line) \ {Head(line)}
    <3> SUFFICES ASSUME NEW i \in 1..(Len(line) - 1)
                 PROVE  Tail(line)[i] \in Range(line) \ {Head(line)}
      BY <1>2 DEF Range
    <3>1. Tail(line)[i] = line[i + 1]
      BY <1>1, <1>2
    <3>2. i + 1 \in DOMAIN line /\ line[i + 1] # Head(line)
      BY <1>2, <1>3, <1>6
    <3> QED
      BY <3>1, <3>2 DEF Range
  <2>2. \A x \in Range(line) \ {Head(line)} : x \in Range(Tail(line))
    <3> SUFFICES ASSUME NEW i \in 1..Len(line), line[i] # Head(line)
                 PROVE  line[i] \in Range(Tail(line))
      BY <1>2 DEF Range
    <3>1. PICK j \in 1..(Len(line) - 1) : j + 1 = i
      BY <1>2, <1>4
    <3>2. line[i] = Tail(line)[j] /\ j \in DOMAIN Tail(line)
      BY <1>1, <1>2, <3>1
    <3> QED
      BY <3>2 DEF Range
  <2> QED
    BY <2>1, <2>2
<1>8. IsInjective(Tail(line))
  <2> SUFFICES ASSUME NEW i \in 1..(Len(line) - 1), NEW j \in 1..(Len(line) - 1),
                      Tail(line)[i] = Tail(line)[j]
               PROVE  i = j
    BY <1>2 DEF IsInjective
  <2>1. line[i + 1] = line[j + 1] /\ i + 1 \in DOMAIN line /\ j + 1 \in DOMAIN line
    BY <1>1, <1>2, <1>3
  <2>2. i + 1 = j + 1
    BY <2>1 DEF IsInjective
  <2> QED
    BY <2>2, <1>2
<1> QED
  BY <1>7, <1>8

LEMMA GoesCounted ==
    ASSUME NEW p \in Partitions, NEW taken, NEW line \in Seq(Partitions),
           NEW pc \in [Partitions -> Waits],
           taken = Cardinality(Holders(pc) \ {p}),
           Range(line) = InLine(pc) \ {p}, IsInjective(line),
           line # <<>> => LetIn(p, pc),
           Goes(p, taken, line, pc)
    PROVE  Slots'
<1>0. taken \in Nat /\ IsFiniteSet(Holders(pc) \ {p}) /\ p \notin Holders(pc) \ {p}
  BY HoldersFinite
<1>1. ASSUME NEW w \in {"ended", "nextEvent"}, at' = [pc EXCEPT ![p] = w],
             active' = taken, waiting' = line
      PROVE  Slots'
  <2>1. Holders(at') = Holders(pc) \ {p} /\ InLine(at') = InLine(pc) \ {p}
    BY <1>1 DEF Holders, InLine
  <2>2. LetIn(p, pc) => \E q \in Partitions : at'[q] \in {"slot", "granted", "eachMessage"}
    BY <1>1 DEF LetIn
  <2> QED
    BY <1>1, <2>1, <2>2 DEF Slots, SlotsCounted, Holders, InLine
<1>2. ASSUME at' = [pc EXCEPT ![p] = "slot"], active' = taken + 1, waiting' = line
      PROVE  Slots'
  <2>1. Holders(at') = (Holders(pc) \ {p}) \union {p} /\ InLine(at') = InLine(pc) \ {p}
    BY <1>2 DEF Holders, InLine
  <2>2. Cardinality(Holders(at')) = taken + 1
    BY <1>0, <2>1, FS_AddElement
  <2>3. at'[p] = "slot"
    BY <1>2
  <2> QED
    BY <1>2, <2>1, <2>2, <2>3 DEF Slots, SlotsCounted, Holders, InLine
<1>3. ASSUME at' = [pc EXCEPT ![p] = "waiting"], active' = taken, waiting' = Append(line, p),
             ~(taken < concurrency)
      PROVE  Slots'
  <2>1. Holders(at') = Holders(pc) \ {p} /\ InLine(at') = (InLine(pc) \ {p}) \union {p}
    BY <1>3 DEF Holders, InLine
  <2>2. Append(line, p) \in Seq(Partitions) /\ Range(Append(line, p)) = Range(line) \union {p}
        /\ IsInjective(Append(line, p))
    BY BehindTheLine
  <2>3. taken # 0
    BY <1>0, <1>3, MemoryAdapterAssumption
  <2>4. Holders(pc) \ {p} # {}
    BY <1>0, <2>3, FS_EmptySet
  <2>5. \E q \in Partitions : at'[q] \in {"slot", "granted", "eachMessage"}
    BY <2>1, <2>4 DEF Holders
  <2> QED
    BY <1>3, <2>1, <2>2, <2>5 DEF Slots, SlotsCounted, Holders, InLine
<1> QED
  BY <1>1, <1>2, <1>3 DEF Goes

\* A loop that held a slot, or counts one just granted, gives it back.
LEMMA GivenBack ==
    ASSUME Types, Slots, NEW p \in Partitions, NEW taken,
           \/ at[p] \in {"slot", "eachMessage"} /\ taken = active
           \/ at[p] = "granted" /\ taken = active + 1,
           Finally(p, taken)
    PROVE  Slots'
<1>0. /\ waiting \in Seq(Partitions) /\ IsInjective(waiting) /\ Range(waiting) = InLine(at)
      /\ active = Cardinality(Holders(at)) /\ active \in Nat /\ at \in [Partitions -> Waits]
  BY HoldersFinite DEF Slots, SlotsCounted, Holders, InLine, Types
<1>1. taken - 1 = Cardinality(Holders(at) \ {p})
  <2>1. IsFiniteSet(Holders(at)) /\ Cardinality(Holders(at)) \in Nat
    BY HoldersFinite
  <2>2. Cardinality(Holders(at) \ {p}) = IF p \in Holders(at) THEN active - 1 ELSE active
    BY <1>0, <2>1, FS_RemoveElement
  <2> QED
    BY <1>0, <2>2 DEF Holders
<1>2. CASE waiting = <<>>
  <2>1. Goes(p, taken - 1, <<>>, at)
    BY <1>2 DEF Finally
  <2>2. Range(<<>>) = InLine(at) \ {p} /\ <<>> \in Seq(Partitions) /\ IsInjective(<<>>)
    BY <1>0, <1>2 DEF InLine
  <2> QED
    BY <1>0, <1>1, <2>1, <2>2, GoesCounted
<1>3. CASE waiting # <<>>
  <2>1. Head(waiting) \in Partitions /\ at[Head(waiting)] = "waiting" /\ Tail(waiting) \in Seq(Partitions)
    BY <1>3, FirstInLine
  <2>2. PICK pc : pc = [at EXCEPT ![Head(waiting)] = "granted"]
    OBVIOUS
  <2>3. pc \in [Partitions -> Waits]
    BY <1>0, <2>2 DEF Waits
  <2>4. pc[Head(waiting)] = "granted" /\ \A q \in Partitions : q # Head(waiting) => pc[q] = at[q]
    BY <1>0, <2>1, <2>2
  <2>5. Holders(pc) = Holders(at) /\ InLine(pc) = InLine(at) \ {Head(waiting)}
    BY <2>1, <2>4 DEF Holders, InLine
  <2>6. p # Head(waiting) /\ InLine(pc) \ {p} = InLine(pc)
    BY <2>1, <2>5 DEF InLine
  <2>7. Range(Tail(waiting)) = InLine(pc) \ {p} /\ IsInjective(Tail(waiting))
    BY <1>0, <1>3, <2>5, <2>6, TheRestOfTheLine
  <2>8. LetIn(p, pc)
    BY <2>1, <2>4, <2>6 DEF LetIn
  <2>9. Goes(p, taken - 1, Tail(waiting), pc)
    BY <1>3, <2>2 DEF Finally
  <2>10. taken - 1 = Cardinality(Holders(pc) \ {p})
    BY <1>1, <2>5
  <2> QED
    BY <2>1, <2>3, <2>7, <2>8, <2>9, <2>10, GoesCounted
<1> QED
  BY <1>2, <1>3

\* A loop that looks holds none.
LEMMA LooksCounted ==
    ASSUME Types, Slots, NEW p \in Partitions, Looks(p)
    PROVE  Slots'
<1>1. /\ waiting \in Seq(Partitions) /\ IsInjective(waiting) /\ Range(waiting) = InLine(at)
      /\ active = Cardinality(Holders(at)) /\ at \in [Partitions -> Waits]
      /\ at[p] = "awake" /\ Goes(p, active, waiting, at)
  BY DEF Slots, SlotsCounted, Holders, InLine, Types, Looks
<1>2. Holders(at) \ {p} = Holders(at) /\ InLine(at) \ {p} = InLine(at)
  BY <1>1 DEF Holders, InLine
<1>3. waiting # <<>> => LetIn(p, at)
  BY <1>1 DEF LetIn, Slots, SlotsCounted
<1> QED
  BY <1>1, <1>2, <1>3, GoesCounted

LEMMA EntersCounted ==
    ASSUME Types, Slots, NEW p \in Partitions, Enters(p)
    PROVE  Slots'
<1>1. /\ waiting' = waiting /\ at' = [at EXCEPT ![p] = "eachMessage"] /\ at \in [Partitions -> Waits]
      /\ at[p] \in {"slot", "granted"} /\ active = Cardinality(Holders(at)) /\ active' = Taken(p)
  BY DEF Enters, Entering, Slots, SlotsCounted, Holders, Types
<1>2. at'[p] = "eachMessage" /\ \A q \in Partitions : q # p => at'[q] = at[q]
  BY <1>1
<1>3. Holders(at') = Holders(at) \union {p} /\ InLine(at') = InLine(at)
  BY <1>1, <1>2 DEF Holders, InLine
<1>4. IsFiniteSet(Holders(at))
  BY HoldersFinite
<1>5. active' = Cardinality(Holders(at'))
  <2>1. Cardinality(Holders(at')) = IF p \in Holders(at) THEN active ELSE active + 1
    BY <1>1, <1>3, <1>4, FS_AddElement
  <2> QED
    BY <1>1, <2>1 DEF Holders, Taken
<1> QED
  BY <1>1, <1>2, <1>3, <1>5 DEF Slots, SlotsCounted, Holders, InLine

\* Who is woken holds nothing.
LEMMA WokenCounted ==
    ASSUME Types, Slots, UNCHANGED <<active, waiting>>, at' = at \/ at' = Wake
    PROVE  Slots'
<1>1. /\ Holders(at') = Holders(at) /\ InLine(at') = InLine(at)
      /\ \A q \in Partitions : at[q] \in {"slot", "granted", "eachMessage"} => at'[q] = at[q]
  BY DEF Holders, InLine, Wake, Types
<1> QED
  BY <1>1 DEF Slots, SlotsCounted, Holders, InLine

LEMMA ConsumeCounted ==
    ASSUME active' = 0, waiting' = <<>>, \A p \in Partitions : at'[p] \in {"awake", "ended"}
    PROVE  Slots'
<1>1. Holders(at') = {} /\ InLine(at') = {}
  BY DEF Holders, InLine
<1>2. Cardinality({}) = 0 /\ <<>> \in Seq(Partitions) /\ Range(<<>>) = {} /\ IsInjective(<<>>)
  BY FS_EmptySet DEF Range, IsInjective
<1> QED
  BY <1>1, <1>2 DEF Slots, SlotsCounted, Holders, InLine

\* Every step counts the slots.
LEMMA SlotsKept ==
    ASSUME Types, Slots, [Next]_vars
    PROVE  Slots'
<1>1. ASSUME NEW o \in Options, Redrives(o)
      PROVE  Slots'
  BY <1>1, ConsumeCounted DEF Redrives, Consume
<1>2. CASE Consuming \/ SleepEnds \/ SleepCut \/ HarborCloses
  BY <1>2, WokenCounted DEF Consuming, SleepEnds, SleepCut, HarborCloses, Disconnect, adapter, consumption
<1>3. CASE AllSettled \/ Returns
  BY <1>3, WokenCounted DEF AllSettled, Stop, Returns, Stopped, consumption
<1>4. ASSUME NEW p \in Partitions, NEW addressed \in BOOLEAN, DeadLettered(p, addressed)
      PROVE  Slots'
  BY <1>4, WokenCounted DEF DeadLettered, Append1
<1>5. ASSUME NEW p \in Partitions, EachMessage(p)
      PROVE  Slots'
  BY <1>5, EntersCounted DEF EachMessage
<1>6. ASSUME NEW p \in Partitions, One(p) \/ Keeps(p) \/ Skips(p) \/ FilterThrows(p)
      PROVE  Slots'
  BY <1>6, WokenCounted DEF One, Keeps, Skips, FilterThrows, adapter, consumption
<1>7. ASSUME NEW p \in Partitions,
             WrapperRuns(p) \/ WrapperSettles(p) \/ Acknowledged(p) \/ SendFails(p) \/ HopEnds(p)
      PROVE  Slots'
  BY <1>7, WokenCounted DEF WrapperRuns, WrapperSettles, Acknowledged, AppendElsewhere, SendFails,
                            HopEnds, adapter, consumption
<1>8. ASSUME NEW p \in Partitions, SkipCommits(p) \/ HopCommits(p)
      PROVE  Slots'
  BY <1>8, WokenCounted DEF SkipCommits, HopCommits, Commit, CommitFails, adapter, consumption
<1>9. ASSUME NEW p \in Partitions, Settles(p)
      PROVE  Slots'
  BY <1>9, GivenBack DEF Settles, Delivered
<1>10. ASSUME NEW p \in Partitions, Looks(p)
       PROVE  Slots'
  BY <1>10, LooksCounted
<1>11. ASSUME NEW p \in Partitions, TurnsBack(p)
       PROVE  Slots'
  BY <1>11, GivenBack DEF TurnsBack, Entering, Taken
<1>12. CASE UNCHANGED vars
  BY <1>12, WokenCounted DEF vars, adapter, consumption
<1> QED
  BY <1>1, <1>2, <1>3, <1>4, <1>5, <1>6, <1>7, <1>8, <1>9, <1>10, <1>11, <1>12 DEF Next, AdapterStep

-----------------------------------------------------------------------------
(* The types. *)

LEMMA LookedAround ==
    ASSUME Types, NEW p \in Partitions, Looks(p)
    PROVE  /\ positions' \in [Partitions -> Nat]
           /\ \A q \in Partitions : q # p => positions'[q] = positions[q] /\ at'[q] = at[q]
           /\ at' \in [Partitions -> Waits]
           /\ positions'[p] = IF ~stopped /\ positions[p] = 0 THEN committed[p] ELSE positions[p]
           /\ stopped => at'[p] = "ended"
           /\ ~stopped => at'[p] \in {"nextEvent", "slot", "waiting"}
           /\ at'[p] \in {"slot", "waiting"} => positions'[p] < Len(log[p])
<1>1. /\ positions' \in [Partitions -> Nat]
      /\ \A q \in Partitions : q # p => positions'[q] = positions[q]
      /\ positions'[p] = IF ~stopped /\ positions[p] = 0 THEN committed[p] ELSE positions[p]
  BY DEF Types, Looks, Starts
<1>2. Goes(p, active, waiting, at) /\ at \in [Partitions -> Waits] /\ log \in [Partitions -> Seq(BOOLEAN)]
  BY DEF Types, Looks
<1>3. /\ at' \in [Partitions -> Waits]
      /\ \A q \in Partitions : q # p => at'[q] = at[q]
      /\ stopped => at'[p] = "ended"
      /\ ~stopped => at'[p] \in {"nextEvent", "slot", "waiting"}
      /\ at'[p] \in {"slot", "waiting"} => positions'[p] < Len(log[p])
  BY <1>1, <1>2, AtTheTop
<1> QED
  BY <1>1, <1>3

LEMMA WokenTypes ==
    ASSUME Types, at' = at \/ at' = Wake
    PROVE  at' \in [Partitions -> Waits] /\ \A q \in Partitions : Woken(q)
BY DEF Types, Wake, Woken, Waits

\* The place of the message in the hands of p's loop.
LEMMA CurrentPlace ==
    ASSUME Types, NEW p \in Partitions, Loop(p), work[p] # "none"
    PROVE  /\ Current(p) = positions[p] + 1 /\ Current(p) \in 1..Len(log[p])
           /\ Current(p) \in 1..Len(copies[p]) /\ Current(p) \in 1..Len(repeated[p])
           /\ at[p] = "eachMessage"
<1>1. /\ positions[p] \in Nat /\ Len(log[p]) \in Nat
      /\ Len(copies[p]) = Len(log[p]) /\ Len(repeated[p]) = Len(log[p])
      /\ at[p] = "eachMessage" /\ positions[p] < Len(log[p])
  BY LenProperties DEF Types, Loop
<1> QED
  BY <1>1 DEF Current

LEMMA HopTypes ==
    ASSUME Types, NEW p \in Partitions
    PROVE  /\ NoHop \in HopRecord
           /\ [NoHop EXCEPT !.wrapper = "running"] \in HopRecord
           /\ [wrapper |-> "settled", outcome |-> "pending", known |-> TRUE] \in HopRecord
           /\ hop[p] \in HopRecord /\ Run(hop[p]) \in HopRecord
           /\ [Run(hop[p]) EXCEPT !.wrapper = "settled"] \in HopRecord
           /\ [hop[p] EXCEPT !.outcome = "ok"] \in HopRecord
           /\ [hop[p] EXCEPT !.outcome = "failed"] \in HopRecord
<1>1. hop[p] \in HopRecord
  BY DEF Types
<1>2. Run(hop[p]) \in HopRecord
  BY <1>1 DEF Run, HopRecord
<1> QED
  BY <1>1, <1>2 DEF HopRecord, NoHop

LEMMA TypesKept ==
    ASSUME Types, Slots, \A p \in Partitions : Loop(p), [Next]_vars
    PROVE  Types'
<1>1. ASSUME NEW o \in Options, Redrives(o)
      PROVE  Types'
  <2>1. o \in [to : BOOLEAN, max : Nat, filter : BOOLEAN, wrap : BOOLEAN]
    BY RedriveAssumption
  <2>2. at' \in [Partitions -> Waits]
    BY <1>1 DEF Redrives, Consume, Waits
  <2> QED
    BY <1>1, <2>1, <2>2 DEF Types, Redrives, Consume, Locals, broker, facts
<1>2. CASE Consuming
  BY <1>2 DEF Types, Consuming, adapter, broker, group, consumption, result, facts
<1>3. CASE SleepEnds
  BY <1>3 DEF Types, SleepEnds, adapter, broker, group, consumption, result, facts
<1>4. CASE SleepCut
  <2>1. InFlight \subseteq Partitions
    BY DEF InFlight
  <2> QED
    BY <1>4, <2>1 DEF Types, SleepCut, adapter, broker, group, consumption, result, facts
<1>5. CASE AllSettled
  <2>1. at' \in [Partitions -> Waits]
    BY <1>5, WokenTypes DEF AllSettled, Stop
  <2> QED
    BY <1>5, <2>1 DEF Types, AllSettled, Stop, broker, result, facts
<1>6. CASE Returns
  <2>1. positions' \in [Partitions -> Nat]
    BY <1>6 DEF Returns, Stopped
  <2> QED
    BY <1>6, <2>1 DEF Types, Returns, Stopped, Locals, broker, consumption, facts
<1>7. CASE HarborCloses
  BY <1>7 DEF Types, HarborCloses, Disconnect, group, consumption, run, result, facts
<1>8. ASSUME NEW p \in Partitions, NEW addressed \in BOOLEAN, DeadLettered(p, addressed)
      PROVE  Types'
  <2>1. at' \in [Partitions -> Waits]
    BY <1>8, WokenTypes DEF DeadLettered, Append1
  <2>2. log' \in [Partitions -> Seq(BOOLEAN)]
    BY <1>8, OneAppended DEF Types, DeadLettered, Append1
  <2>3. copies' \in [Partitions -> Seq(Nat)] /\ repeated' \in [Partitions -> Seq(Nat)]
    <3>1. 0 \in Nat
      OBVIOUS
    <3> QED
      BY <1>8, <3>1, OneAppended DEF Types, DeadLettered
  <2> QED
    BY <1>8, <2>1, <2>2, <2>3 DEF Types, DeadLettered, Append1, group, run, result
<1>9. ASSUME NEW p \in Partitions, EachMessage(p)
      PROVE  Types'
  <2>1. at' \in [Partitions -> Waits] /\ work' \in [Partitions -> Works]
    BY <1>9 DEF Types, EachMessage, Enters, Waits, Works
  <2> QED
    BY <1>9, <2>1 DEF Types, EachMessage, Enters, broker, group, run, result, facts
<1>10. ASSUME NEW p \in Partitions, One(p)
       PROVE  Types'
  <2>1. work' \in [Partitions -> Works]
    BY <1>10 DEF Types, One, Considers, Fails, HopBegins, Works
  <2>2. hop' \in [Partitions -> HopRecord]
    BY <1>10, HopTypes DEF Types, One, Considers, HopBegins
  <2>3. aborted' \in BOOLEAN /\ failure' \in BOOLEAN /\ fresh' \in BOOLEAN
        /\ UNCHANGED <<phase, options, ready, awaited>>
    BY <1>10 DEF Types, One, Considers, Fails, run
  <2> QED
    BY <1>10, <2>1, <2>2, <2>3 DEF Types, One, adapter, broker, group, consumption, result, facts
<1>11. ASSUME NEW p \in Partitions, Keeps(p)
       PROVE  Types'
  <2>1. work' \in [Partitions -> Works] /\ hop' \in [Partitions -> HopRecord]
    BY <1>11, HopTypes DEF Types, Keeps, HopBegins, Works
  <2> QED
    BY <1>11, <2>1 DEF Types, Keeps, adapter, broker, group, consumption, run, result, facts
<1>12. ASSUME NEW p \in Partitions, Skips(p)
       PROVE  Types'
  <2>1. work' \in [Partitions -> Works]
    BY <1>12 DEF Types, Skips, Works
  <2> QED
    BY <1>12, <2>1 DEF Types, Skips, adapter, broker, group, consumption, run, result
<1>13. ASSUME NEW p \in Partitions, FilterThrows(p)
       PROVE  Types'
  <2>1. work' \in [Partitions -> Works]
    BY <1>13 DEF Types, FilterThrows, Fails, Works
  <2> QED
    BY <1>13, <2>1 DEF Types, FilterThrows, Fails, adapter, broker, group, consumption, result, facts
<1>14. ASSUME NEW p \in Partitions, WrapperRuns(p) \/ WrapperSettles(p)
       PROVE  Types'
  <2>1. hop' \in [Partitions -> HopRecord]
    BY <1>14, HopTypes DEF Types, WrapperRuns, WrapperSettles
  <2> QED
    BY <1>14, <2>1 DEF Types, WrapperRuns, WrapperSettles, adapter, broker, group, consumption, run,
                       result, facts
<1>15. ASSUME NEW p \in Partitions, Acknowledged(p)
       PROVE  Types'
  <2>1. hop' = [hop EXCEPT ![p] = [hop[p] EXCEPT !.outcome = "ok"]]
    BY <1>15 DEF Types, Acknowledged
  <2>2. hop' \in [Partitions -> HopRecord]
    BY <2>1, HopTypes DEF Types
  <2>3. work[p] # "none"
    <3>1. hop[p] # NoHop
      BY <1>15 DEF Acknowledged, NoHop
    <3> QED
      BY <3>1 DEF Loop
  <2>4. copies' \in [Partitions -> Seq(Nat)]
    <3>1. Current(p) \in 1..Len(copies[p]) /\ copies \in [Partitions -> Seq(Nat)]
      BY <2>3, CurrentPlace DEF Types
    <3>2. copies' = [copies EXCEPT ![p][Current(p)] = @ + 1]
      BY <1>15 DEF Acknowledged
    <3> QED
      BY <3>1, <3>2, OneMore
  <2> QED
    BY <1>15, <2>2, <2>4 DEF Types, Acknowledged, AppendElsewhere, adapter, broker, group, consumption,
                       run, result
<1>16. ASSUME NEW p \in Partitions, SendFails(p)
       PROVE  Types'
  <2>1. hop' = [hop EXCEPT ![p] = [hop[p] EXCEPT !.outcome = "failed"]]
    BY <1>16 DEF Types, SendFails
  <2>2. hop' \in [Partitions -> HopRecord]
    BY <2>1, HopTypes DEF Types
  <2> QED
    BY <1>16, <2>2 DEF Types, SendFails, adapter, broker, group, consumption, run, result, facts
<1>17. ASSUME NEW p \in Partitions, HopEnds(p)
       PROVE  Types'
  <2>1. work' \in [Partitions -> Works] /\ hop' \in [Partitions -> HopRecord]
    BY <1>17, HopTypes DEF Types, HopEnds, Fails, Works
  <2>2. aborted' \in BOOLEAN /\ failure' \in BOOLEAN /\ UNCHANGED <<phase, options, ready, awaited>>
    BY <1>17 DEF Types, HopEnds, Fails
  <2> QED
    BY <1>17, <2>1, <2>2 DEF Types, HopEnds, adapter, broker, group, consumption, result, facts
<1>18. ASSUME NEW p \in Partitions, SkipCommits(p) \/ HopCommits(p)
       PROVE  Types'
  <2>1. work' \in [Partitions -> Works]
    BY <1>18 DEF Types, SkipCommits, HopCommits, Counted, Works
  <2>2. positions[p] + 1 \in Nat
    BY DEF Types
  <2>3. /\ committed' \in [Partitions -> Nat]
        /\ UNCHANGED <<broker, positions, stopped, at>>
    BY <1>18, <2>2 DEF Types, SkipCommits, HopCommits, Commit, CommitFails, adapter, group, consumption
  <2>4. repeated' \in [Partitions -> Seq(Nat)]
    <3>1. Current(p) \in 1..Len(repeated[p]) /\ repeated \in [Partitions -> Seq(Nat)]
      BY <1>18, CurrentPlace DEF Types, SkipCommits, HopCommits
    <3>2. repeated' = repeated \/ repeated' = [repeated EXCEPT ![p][Current(p)] = @ + 1]
      BY <1>18 DEF SkipCommits, HopCommits, facts
    <3>3. CASE repeated' = repeated
      BY <3>1, <3>3
    <3>4. CASE repeated' = [repeated EXCEPT ![p][Current(p)] = @ + 1]
      BY <3>1, <3>4, OneMore
    <3> QED
      BY <3>2, <3>3, <3>4
  <2>5. /\ UNCHANGED <<run, hop, copies>>
        /\ reprocessed' \in Nat /\ skipped' \in Nat
    BY <1>18 DEF Types, SkipCommits, HopCommits, facts
  <2> QED
    BY <2>1, <2>3, <2>4, <2>5 DEF Types, broker, run
<1>19. ASSUME NEW p \in Partitions, Settles(p)
       PROVE  Types'
  <2>1. work' \in [Partitions -> Works] /\ aborted' \in BOOLEAN /\ awaited' \subseteq Partitions
    BY <1>19 DEF Types, Settles, Works
  <2>2. positions' \in [Partitions -> Nat] /\ at' \in [Partitions -> Waits]
        /\ UNCHANGED <<broker, committed, stopped>>
    BY <1>19, AroundAgain DEF Settles, Delivered
  <2> QED
    BY <1>19, <2>1, <2>2 DEF Types, Settles, broker, result, facts
<1>20. ASSUME NEW p \in Partitions, AdapterStep(Looks(p)) \/ AdapterStep(TurnsBack(p))
       PROVE  Types'
  <2>1. positions' \in [Partitions -> Nat] /\ at' \in [Partitions -> Waits]
        /\ UNCHANGED <<broker, committed, stopped>>
    BY <1>20, AroundAgain, LookedAround DEF AdapterStep, Looks, TurnsBack
  <2> QED
    BY <1>20, <2>1 DEF Types, AdapterStep, broker, run, result, facts
<1>21. CASE UNCHANGED vars
  BY <1>21 DEF Types, vars, adapter, broker, group, consumption, run, result, facts
<1> QED
  BY <1>1, <1>2, <1>3, <1>4, <1>5, <1>6, <1>7, <1>8, <1>9, <1>10, <1>11, <1>12, <1>13, <1>14, <1>15,
     <1>16, <1>17, <1>18, <1>19, <1>20, <1>21 DEF Next

-----------------------------------------------------------------------------
(* One partition at a time. *)

\* What a step leaves of a partition it is not about.
Still(q) ==
    /\ UNCHANGED <<log[q], committed[q], positions[q], work[q], hop[q], copies[q], repeated[q]>>
    /\ filtered \subseteq filtered'
    /\ aborted => aborted'
    /\ Woken(q)

LEMMA PartitionTypes ==
    ASSUME Types, NEW p \in Partitions
    PROVE  /\ positions[p] \in Nat /\ committed[p] \in Nat /\ Len(log[p]) \in Nat
           /\ work[p] \in Works /\ at[p] \in Waits /\ hop[p] \in HopRecord
           /\ copies[p] \in Seq(Nat) /\ repeated[p] \in Seq(Nat)
           /\ \A n \in 1..Len(copies[p]) : copies[p][n] \in Nat
           /\ \A n \in 1..Len(repeated[p]) : repeated[p][n] \in Nat
BY LenProperties, ElementOfSeq DEF Types

LEMMA StillKeeps ==
    ASSUME Types, NEW q \in Partitions, Each(q), Still(q)
    PROVE  Each(q)'
<1>1. Loop(q)'
  BY DEF Each, Loop, Still, Woken
<1>2. Reads(q)'
  BY DEF Each, Loop, Reads, Still, Woken
<1>3. \A n : Done(q, n) => Done(q, n)'
  BY DEF Done, Still
<1>4. Safe(q)'
  BY <1>3 DEF Each, Safe, Still, DoneUpTo, Underway, Current
<1>5. Once(q)'
  BY DEF Each, Once, Still, Underway, Current
<1> QED
  BY <1>1, <1>2, <1>4, <1>5 DEF Each

\* A step that takes the message of p on, short of its end.
SameMessage(p) ==
    /\ UNCHANGED <<log[p], committed[p], positions[p], at[p], copies[p], repeated[p], filtered>>
    /\ work[p] \in {"ready", "filter", "hop"}
    /\ work'[p] \in {"filter", "hop", "commit", "over"}
    /\ aborted => aborted'
    /\ work'[p] = "over" => aborted'
    /\ work[p] = "ready" /\ work'[p] # "over" => ~aborted
    /\ Underway(p)' <=> Underway(p)
    /\ hop'[p] # NoHop => work'[p] = "hop"
    /\ hop'[p].outcome # "none" => hop'[p].known

LEMMA SameMessageKeeps ==
    ASSUME Types, NEW p \in Partitions, Each(p), SameMessage(p)
    PROVE  Each(p)'
<1>1. Loop(p)'
  BY DEF Each, Loop, SameMessage
<1>2. Reads(p)'
  BY DEF Each, Loop, Reads, SameMessage
<1>3. \A n : Done(p, n) <=> Done(p, n)'
  BY DEF Done, SameMessage
<1>4. Safe(p)'
  BY <1>3 DEF Each, Safe, SameMessage, DoneUpTo, Current
<1>5. Once(p)'
  BY DEF Each, Once, SameMessage, Current
<1> QED
  BY <1>1, <1>2, <1>4, <1>5 DEF Each

\* Of a hop that has not begun, nothing is underway.
LEMMA NothingUnderway ==
    ASSUME NEW p \in Partitions, Loop(p), work[p] \notin {"hop", "commit"}
    PROVE  ~Underway(p) /\ hop[p] = NoHop
BY DEF Loop, Underway, NoHop

LEMMA MessageGoesOn ==
    ASSUME Types, NEW p \in Partitions, Each(p),
           \/ One(p) \/ Keeps(p) \/ FilterThrows(p)
           \/ WrapperRuns(p) \/ WrapperSettles(p) \/ SendFails(p) \/ HopEnds(p)
    PROVE  SameMessage(p)
<1>0. hop \in [Partitions -> HopRecord] /\ work \in [Partitions -> Works] /\ aborted \in BOOLEAN
  BY DEF Types
<1>a. ASSUME HopBegins(p)
      PROVE  work'[p] = "hop" /\ hop'[p].outcome \in {"none", "pending"}
             /\ (hop'[p].outcome # "none" => hop'[p].known)
  BY <1>0, <1>a DEF HopBegins, NoHop
<1>1. CASE One(p)
  <2>1. ~Underway(p) /\ hop[p] = NoHop
    BY <1>1, NothingUnderway DEF One, Each
  <2>2. CASE aborted
    <3>1. work' = [work EXCEPT ![p] = "over"] /\ UNCHANGED <<run, hop>>
      BY <1>1, <2>2 DEF One
    <3> QED
      BY <1>0, <1>1, <2>1, <2>2, <3>1 DEF One, SameMessage, adapter, broker, group, consumption, facts, run,
                                        Underway, NoHop
  <2>3. CASE ~aborted
    <3>1. Considers(p)
      BY <1>1, <2>3 DEF One
    <3>2. /\ work'[p] \in {"filter", "hop", "over"}
          /\ work'[p] = "over" => aborted'
          /\ hop'[p] # NoHop => work'[p] = "hop"
          /\ hop'[p].outcome \in {"none", "pending"}
          /\ hop'[p].outcome # "none" => hop'[p].known
      <4>1. CASE ~HasTarget(p)
        <5>1. Fails(p) /\ hop' = hop
          BY <3>1, <4>1 DEF Considers
        <5> QED
          BY <1>0, <2>1, <5>1 DEF Fails, NoHop
      <4>2. CASE HasTarget(p) /\ options.filter
        <5>1. work' = [work EXCEPT ![p] = "filter"] /\ hop' = hop
          BY <3>1, <4>2 DEF Considers
        <5> QED
          BY <1>0, <2>1, <5>1 DEF NoHop
      <4>3. CASE HasTarget(p) /\ ~options.filter
        BY <1>a, <3>1, <4>3 DEF Considers
      <4> QED
        BY <4>1, <4>2, <4>3
    <3> QED
      BY <1>1, <2>1, <2>3, <3>2 DEF One, SameMessage, adapter, broker, group, consumption, facts,
                                    Underway
  <2> QED
    BY <2>2, <2>3
<1>2. CASE Keeps(p)
  <2>1. ~Underway(p)
    BY <1>2, NothingUnderway DEF Keeps, Each
  <2>2. HopBegins(p)
    BY <1>2 DEF Keeps
  <2> QED
    BY <1>2, <1>a, <2>1, <2>2 DEF Keeps, SameMessage, adapter, broker, group, consumption, run, facts,
                                  Underway
<1>3. CASE FilterThrows(p)
  <2>1. ~Underway(p) /\ hop[p] = NoHop
    BY <1>3, NothingUnderway DEF FilterThrows, Each
  <2> QED
    BY <1>0, <1>3, <2>1 DEF FilterThrows, Fails, SameMessage, adapter, broker, group, consumption, facts,
                      Underway, NoHop
<1>4. CASE WrapperRuns(p) \/ WrapperSettles(p)
  <2>1. \/ hop'[p] = Run(hop[p])
        \/ hop'[p] = [Run(hop[p]) EXCEPT !.wrapper = "settled"]
    BY <1>0, <1>4 DEF WrapperRuns, WrapperSettles
  <2>2. hop[p] \in HopRecord /\ (hop[p].outcome # "none" => hop[p].known) /\ work[p] = "hop"
    BY <1>0, <1>4 DEF Each, Loop, WrapperRuns, WrapperSettles
  <2>3. Run(hop[p]).outcome = hop[p].outcome \/ (Run(hop[p]).outcome = "pending" /\ hop[p].outcome = "none")
    BY <2>2 DEF Run, HopRecord
  <2>4. Run(hop[p]).known
    BY <2>2 DEF Run, HopRecord
  <2>5. hop'[p].outcome = Run(hop[p]).outcome /\ hop'[p].known
    <3>1. PICK h \in HopRecord : h = Run(hop[p])
      BY HopTypes
    <3>2. [h EXCEPT !.wrapper = "settled"].outcome = h.outcome /\ [h EXCEPT !.wrapper = "settled"].known = h.known
      BY DEF HopRecord
    <3> QED
      BY <2>1, <2>4, <3>1, <3>2
  <2>6. Underway(p)' <=> Underway(p)
    BY <1>4, <2>2, <2>3, <2>5 DEF Underway, WrapperRuns, WrapperSettles
  <2> QED
    BY <1>4, <2>2, <2>5, <2>6 DEF WrapperRuns, WrapperSettles, SameMessage, adapter, broker, group,
                                  consumption, run, facts
<1>5. CASE SendFails(p)
  <2>1. hop'[p] = [hop[p] EXCEPT !.outcome = "failed"] /\ hop[p] \in HopRecord
        /\ hop[p].outcome = "pending"
    BY <1>0, <1>5 DEF SendFails
  <2>2. hop'[p].outcome = "failed" /\ hop'[p].known = hop[p].known /\ hop[p].known /\ work[p] = "hop"
    BY <2>1 DEF HopRecord, Each, Loop, NoHop
  <2>3. work' = work
    BY <1>5 DEF SendFails
  <2> QED
    BY <1>5, <2>1, <2>2, <2>3 DEF SendFails, SameMessage, adapter, broker, group, consumption, run, facts,
                             Underway
<1>6. CASE HopEnds(p)
  <2>1. hop'[p] = NoHop /\ work[p] = "hop"
    BY <1>0, <1>6 DEF HopEnds
  <2>2. CASE hop[p].outcome = "ok"
    <3>1. work'[p] = "commit" /\ aborted' = aborted
      BY <1>0, <1>6, <2>2 DEF HopEnds
    <3> QED
      BY <1>6, <2>1, <2>2, <3>1 DEF HopEnds, SameMessage, adapter, broker, group, consumption, facts,
                                    Underway, NoHop
  <2>3. CASE hop[p].outcome # "ok"
    <3>1. work'[p] = "over" /\ aborted'
      BY <1>0, <1>6, <2>3 DEF HopEnds, Fails
    <3> QED
      BY <1>6, <2>1, <2>3, <3>1 DEF HopEnds, SameMessage, adapter, broker, group, consumption, facts,
                                    Underway, NoHop
  <2> QED
    BY <2>2, <2>3
<1> QED
  BY <1>1, <1>2, <1>3, <1>4, <1>5, <1>6

LEMMA MessageComes ==
    ASSUME Types, NEW p \in Partitions, Each(p), EachMessage(p)
    PROVE  Each(p)'
<1>1. /\ UNCHANGED <<log, committed, positions, hop, copies, repeated, filtered, aborted>>
      /\ at[p] \in {"slot", "granted"} /\ at'[p] = "eachMessage" /\ work'[p] = "ready"
  BY DEF Types, EachMessage, Enters, Entering, broker, group, run, facts
<1>2. work[p] = "none" /\ hop[p] = NoHop /\ ~Underway(p)
  BY <1>1, NothingUnderway DEF Each, Loop
<1>3. ~Underway(p)'
  BY <1>1, <1>2 DEF Underway, NoHop
<1>4. Loop(p)'
  BY <1>1, <1>2 DEF Each, Loop, NoHop
<1>5. Reads(p)'
  BY <1>1, <1>2 DEF Each, Reads
<1>6. Safe(p)'
  BY <1>1, <1>3 DEF Each, Safe, DoneUpTo, Done
<1>7. Once(p)'
  BY <1>1, <1>2, <1>3 DEF Each, Once
<1> QED
  BY <1>4, <1>5, <1>6, <1>7 DEF Each

LEMMA MessageSkipped ==
    ASSUME Types, NEW p \in Partitions, Each(p), Skips(p)
    PROVE  Each(p)'
<1>1. /\ UNCHANGED <<log, committed, positions, at, hop, copies, repeated, aborted>>
      /\ work[p] = "filter" /\ work'[p] = "skip"
      /\ filtered' = filtered \union {<<p, Current(p)>>}
  BY DEF Types, Skips, adapter, broker, group, consumption, run
<1>2. hop[p] = NoHop /\ ~Underway(p)
  BY <1>1, NothingUnderway DEF Each
<1>3. ~Underway(p)'
  BY <1>1, <1>2 DEF Underway, NoHop
<1>4. Current(p)' = Current(p) /\ Done(p, Current(p))' /\ \A n : Done(p, n) => Done(p, n)'
  BY <1>1 DEF Done, Current
<1>5. Loop(p)'
  BY <1>1, <1>2 DEF Each, Loop, NoHop
<1>6. Reads(p)'
  BY <1>1 DEF Each, Reads
<1>7. Safe(p)'
  BY <1>1, <1>4 DEF Each, Safe, DoneUpTo, Current
<1>8. Once(p)'
  BY <1>1, <1>2, <1>3 DEF Each, Once
<1> QED
  BY <1>5, <1>6, <1>7, <1>8 DEF Each

LEMMA MessageAcknowledged ==
    ASSUME Types, NEW p \in Partitions, Each(p), Acknowledged(p)
    PROVE  Each(p)'
<1>0. hop \in [Partitions -> HopRecord] /\ hop[p].outcome = "pending"
  BY DEF Types, Acknowledged
<1>1. hop[p] # NoHop /\ work[p] = "hop" /\ hop[p].known
  BY <1>0 DEF Each, Loop, NoHop
<1>2. /\ UNCHANGED <<log, committed, positions, at, work, repeated, filtered, aborted>>
      /\ hop'[p].outcome = "ok" /\ hop'[p].known
  BY <1>0, <1>1 DEF Acknowledged, AppendElsewhere, adapter, broker, group, consumption, run, HopRecord
<1>3. /\ positions[p] \in Nat /\ committed[p] \in Nat /\ copies[p] \in Seq(Nat) /\ Len(copies[p]) \in Nat
      /\ \A n \in 1..Len(copies[p]) : copies[p][n] \in Nat /\ repeated[p][n] \in Nat
      /\ Len(copies[p]) = Len(log[p])
  <2>1. Len(copies[p]) = Len(log[p]) /\ Len(repeated[p]) = Len(log[p])
    BY DEF Each, Loop
  <2> QED
    BY <2>1, PartitionTypes
<1>4. Current(p) = positions[p] + 1 /\ Current(p) \in 1..Len(copies[p]) /\ Current(p)' = Current(p)
  BY <1>1, <1>2, CurrentPlace DEF Each, Current
<1>5. /\ Len(copies'[p]) = Len(copies[p]) /\ copies'[p][Current(p)] = copies[p][Current(p)] + 1
      /\ \A i \in 1..Len(copies[p]) : i # Current(p) => copies'[p][i] = copies[p][i]
  <2>1. copies \in [Partitions -> Seq(Nat)] /\ copies' = [copies EXCEPT ![p][Current(p)] = @ + 1]
    BY DEF Types, Acknowledged
  <2> QED
    BY <1>4, <2>1, OneMore
<1>6. committed[p] <= positions[p] /\ positions[p] < Len(log[p]) /\ committed[p] <= Len(log[p])
  BY <1>1 DEF Each, Loop, Reads
<1>7. \A n \in 1..Len(log[p]) : Done(p, n) => Done(p, n)'
  <2>1. ASSUME NEW n \in 1..Len(copies[p]), copies[p][n] > 0
        PROVE  copies'[p][n] > 0
    <3>1. copies[p][n] \in Nat
      BY <1>3
    <3>2. copies'[p][n] = copies[p][n] + 1 \/ copies'[p][n] = copies[p][n]
      BY <1>5
    <3> QED
      BY <2>1, <3>1, <3>2
  <2> QED
    BY <1>2, <1>3, <2>1 DEF Done
<1>8. Done(p, Current(p))'
  BY <1>2, <1>3, <1>4, <1>5 DEF Done
<1>9. Loop(p)'
  BY <1>1, <1>2, <1>5 DEF Each, Loop
<1>10. Reads(p)'
  BY <1>2 DEF Each, Reads
<1>11. Safe(p)'
  <2>1. DoneUpTo(p, committed[p]) /\ DoneUpTo(p, positions[p])
    BY <1>1 DEF Each, Safe
  <2>2. \A i \in 1..committed[p] : i \in 1..Len(log[p])
    BY <1>3, <1>6
  <2>3. \A i \in 1..positions[p] : i \in 1..Len(log[p])
    BY <1>3, <1>6
  <2> QED
    BY <1>2, <1>4, <1>7, <1>8, <2>1, <2>2, <2>3 DEF Safe, DoneUpTo
<1>12. Once(p)'
  <2>1. SUFFICES ASSUME NEW n \in 1..Len(log[p])
                 PROVE  /\ copies'[p][n] <= 1 + repeated[p][n]
                        /\ n > committed[p] /\ n # Current(p) => copies'[p][n] <= repeated[p][n]
    BY <1>2, <1>4 DEF Once, Underway
  <2>2. /\ copies[p][n] <= 1 + repeated[p][n]
        /\ n > committed[p] /\ ~(n = Current(p) /\ Underway(p)) => copies[p][n] <= repeated[p][n]
    BY DEF Each, Once
  <2>3. ~Underway(p)
    BY <1>0, <1>1 DEF Underway
  <2>4. n \in 1..Len(copies[p]) /\ copies[p][n] \in Nat /\ repeated[p][n] \in Nat
    BY <1>3
  <2>5. CASE n = Current(p)
    <3>1. n > committed[p]
      BY <1>3, <1>4, <1>6, <2>5
    <3> QED
      BY <1>5, <2>2, <2>3, <2>5, <2>4, <3>1
  <2>6. CASE n # Current(p)
    <3>1. copies'[p][n] = copies[p][n]
      BY <1>5, <2>6, <2>4
    <3> QED
      BY <2>2, <2>6, <3>1
  <2> QED
    BY <2>5, <2>6
<1> QED
  BY <1>9, <1>10, <1>11, <1>12 DEF Each

\* The commits, of what the filter skipped and of what was re-injected.
LEMMA MessageCommitted ==
    ASSUME Types, NEW p \in Partitions, Each(p), SkipCommits(p) \/ HopCommits(p)
    PROVE  Each(p)'
<1>1. /\ UNCHANGED <<log, positions, at, hop, copies, filtered, aborted>>
      /\ work[p] \in {"skip", "commit"} /\ work'[p] = "counted"
      /\ work[p] = "skip" => SkipCommits(p) /\ repeated' = repeated
  BY DEF Types, SkipCommits, HopCommits, Counted, Commit, CommitFails, adapter, broker, group,
         consumption, run, facts
<1>2. /\ positions[p] \in Nat /\ committed[p] \in Nat /\ repeated[p] \in Seq(Nat) /\ Len(log[p]) \in Nat
      /\ \A n \in 1..Len(log[p]) : copies[p][n] \in Nat /\ repeated[p][n] \in Nat
      /\ Len(repeated[p]) = Len(log[p])
  <2>1. Len(copies[p]) = Len(log[p]) /\ Len(repeated[p]) = Len(log[p])
    BY DEF Each, Loop
  <2> QED
    BY <2>1, PartitionTypes
<1>3. /\ Current(p) = positions[p] + 1 /\ Current(p) \in 1..Len(log[p]) /\ Current(p)' = Current(p)
      /\ at[p] = "eachMessage"
  BY <1>1, CurrentPlace DEF Each, Current
<1>4. committed[p] <= positions[p] /\ hop[p] = NoHop
  BY <1>1, <1>3 DEF Each, Reads, Loop
<1>5. \/ committed'[p] = Current(p) /\ repeated' = repeated
      \/ committed' = committed /\ repeated' = repeated /\ work[p] = "skip"
      \/ /\ committed' = committed /\ work[p] = "commit"
         /\ repeated' = [repeated EXCEPT ![p][Current(p)] = @ + 1]
  BY <1>1, <1>3 DEF Types, SkipCommits, HopCommits, Commit, CommitFails, adapter, group, facts
<1>6. /\ Len(repeated'[p]) = Len(repeated[p])
      /\ \A n \in 1..Len(log[p]) : repeated'[p][n] \in Nat /\ repeated'[p][n] >= repeated[p][n]
  <2>1. CASE repeated' = repeated
    BY <1>2, <2>1
  <2>2. CASE repeated' = [repeated EXCEPT ![p][Current(p)] = @ + 1]
    <3>1. repeated \in [Partitions -> Seq(Nat)]
      BY DEF Types
    <3>2. /\ Len(repeated'[p]) = Len(repeated[p])
          /\ repeated'[p][Current(p)] = repeated[p][Current(p)] + 1
          /\ \A i \in 1..Len(repeated[p]) : i # Current(p) => repeated'[p][i] = repeated[p][i]
      BY <1>2, <1>3, <2>2, <3>1, OneMore
    <3>3. ASSUME NEW n \in 1..Len(log[p])
          PROVE  repeated'[p][n] \in Nat /\ repeated'[p][n] >= repeated[p][n]
      <4>1. repeated[p][n] \in Nat /\ n \in 1..Len(repeated[p])
        BY <1>2
      <4>2. repeated'[p][n] = repeated[p][n] + 1 \/ repeated'[p][n] = repeated[p][n]
        BY <3>2, <4>1
      <4> QED
        BY <4>1, <4>2
    <3> QED
      BY <3>2, <3>3
  <2> QED
    BY <1>5, <2>1, <2>2
<1>7. committed'[p] <= Current(p) /\ committed'[p] >= committed[p] /\ committed'[p] \in Nat
  BY <1>2, <1>3, <1>4, <1>5
<1>8. Done(p, Current(p)) /\ DoneUpTo(p, positions[p])
  BY <1>1 DEF Each, Safe, Underway
<1>9. \A n : Done(p, n)' <=> Done(p, n)
  BY <1>1 DEF Done
<1>10. ~Underway(p)'
  BY <1>1, <1>4 DEF Underway, NoHop
<1>11. Loop(p)'
  BY <1>1, <1>2, <1>3, <1>4, <1>6, <1>7 DEF Each, Loop
<1>12. Reads(p)'
  BY <1>1, <1>3, <1>7 DEF Reads
<1>13. Safe(p)'
  <2>1. \A i \in 1..committed'[p] : i \in 1..positions[p] \/ i = Current(p)
    BY <1>2, <1>3, <1>7
  <2>2. DoneUpTo(p, committed[p])'
    BY <1>8, <1>9, <2>1 DEF DoneUpTo
  <2> QED
    BY <1>1, <1>3, <1>8, <1>9, <2>2 DEF Safe, DoneUpTo
<1>14. Once(p)'
  <2>1. SUFFICES ASSUME NEW n \in 1..Len(log[p])
                 PROVE  /\ copies[p][n] <= 1 + repeated'[p][n]
                        /\ n > committed'[p] => copies[p][n] <= repeated'[p][n]
    BY <1>1 DEF Once
  <2>2. /\ copies[p][n] <= 1 + repeated[p][n]
        /\ n > committed[p] /\ ~(n = Current(p) /\ Underway(p)) => copies[p][n] <= repeated[p][n]
    BY DEF Each, Once
  <2>3. n \in Nat /\ copies[p][n] \in Nat /\ repeated[p][n] \in Nat /\ repeated'[p][n] \in Nat
        /\ repeated'[p][n] >= repeated[p][n]
    BY <1>2, <1>6
  <2>4. copies[p][n] <= 1 + repeated'[p][n]
    BY <2>2, <2>3
  <2>5. ASSUME n > committed'[p]
        PROVE  copies[p][n] <= repeated'[p][n]
    <3>1. n > committed[p]
      BY <1>2, <1>7, <2>3, <2>5
    <3>2. CASE n # Current(p)
      BY <2>2, <2>3, <3>1, <3>2
    <3>3. CASE n = Current(p)
      <4>1. committed' = committed
        BY <1>5, <2>3, <2>5, <3>3
      <4>2. CASE work[p] = "skip"
        <5>1. ~Underway(p)
          BY <1>4, <4>2 DEF Underway, NoHop
        <5> QED
          BY <2>2, <2>3, <3>1, <5>1
      <4>3. CASE work[p] = "commit"
        <5>1. n # committed'[p]
          BY <1>7, <2>3, <2>5
        <5>2. repeated' = [repeated EXCEPT ![p][Current(p)] = @ + 1] /\ repeated \in [Partitions -> Seq(Nat)]
          BY <1>5, <3>3, <4>3, <5>1 DEF Types
        <5>3. repeated'[p][n] = repeated[p][n] + 1
          BY <1>2, <1>3, <3>3, <5>2, OneMore
        <5> QED
          BY <2>2, <2>3, <5>3
      <4> QED
        BY <1>1, <4>2, <4>3
    <3> QED
      BY <3>2, <3>3
  <2> QED
    BY <2>4, <2>5
<1> QED
  BY <1>11, <1>12, <1>13, <1>14 DEF Each

LEMMA MessageSettled ==
    ASSUME Types, Slots, NEW p \in Partitions, Each(p), Settles(p)
    PROVE  Each(p)'
<1>1. /\ UNCHANGED <<log, committed, hop, copies, repeated, filtered, stopped>>
      /\ work[p] \in {"over", "counted"} /\ work'[p] = "none"
      /\ aborted => aborted'
      /\ Finally(p, active)
  BY DEF Types, Settles, Delivered, broker, facts
<1>2. /\ positions'[p] = positions[p] + 1
      /\ at'[p] \in {"ended", "nextEvent", "slot", "waiting"}
      /\ at'[p] \in {"slot", "waiting"} => positions'[p] < Len(log[p])
  BY <1>1, AroundAgain
<1>3. positions[p] \in Nat /\ committed[p] \in Nat /\ Len(log[p]) \in Nat
  BY PartitionTypes
<1>4. /\ at[p] = "eachMessage" /\ hop[p] = NoHop /\ positions[p] < Len(log[p])
      /\ committed[p] <= positions[p] + 1
      /\ work[p] = "over" => aborted
  BY <1>1, <1>3 DEF Each, Loop, Reads
<1>5. ~Underway(p) /\ ~Underway(p)'
  BY <1>1, <1>4 DEF Underway, NoHop
<1>6. Loop(p)'
  BY <1>1, <1>2, <1>3, <1>4 DEF Each, Loop, NoHop
<1>7. Reads(p)'
  BY <1>1, <1>2, <1>4 DEF Reads
<1>8. Safe(p)'
  <2>1. ~aborted' => DoneUpTo(p, positions[p]) /\ Done(p, positions[p] + 1)
    BY <1>1, <1>4 DEF Each, Safe, Current
  <2>2. \A i \in 1..(positions[p] + 1) : i \in 1..positions[p] \/ i = positions[p] + 1
    BY <1>3
  <2>3. DoneUpTo(p, committed[p])
    BY DEF Each, Safe
  <2> QED
    BY <1>1, <1>2, <1>5, <2>1, <2>2, <2>3 DEF Safe, DoneUpTo, Done
<1>9. Once(p)'
  BY <1>1, <1>5 DEF Each, Once
<1> QED
  BY <1>6, <1>7, <1>8, <1>9 DEF Each

LEMMA LoopLooks ==
    ASSUME Types, NEW p \in Partitions, Each(p), AdapterStep(Looks(p))
    PROVE  Each(p)'
<1>1. /\ UNCHANGED <<log, committed, hop, copies, repeated, filtered, stopped, work, aborted>>
      /\ at[p] = "awake"
  BY DEF AdapterStep, Looks, broker, run, facts
<1>2. /\ positions'[p] = IF ~stopped /\ positions[p] = 0 THEN committed[p] ELSE positions[p]
      /\ at'[p] \in {"ended", "nextEvent", "slot", "waiting"}
      /\ stopped => at'[p] = "ended"
      /\ at'[p] \in {"slot", "waiting"} => positions'[p] < Len(log[p])
  BY LookedAround DEF AdapterStep
<1>3. positions[p] \in Nat /\ committed[p] \in Nat /\ Len(log[p]) \in Nat
  BY PartitionTypes
<1>4. /\ work[p] = "none" /\ hop[p] = NoHop /\ ~Underway(p)
      /\ positions[p] = 0 \/ committed[p] <= positions[p]
      /\ positions[p] <= Len(log[p]) /\ committed[p] <= Len(log[p])
  BY <1>1, NothingUnderway DEF Each, Loop, Reads
<1>5. ~Underway(p)'
  BY <1>1, <1>4 DEF Underway
<1>6. Loop(p)'
  BY <1>1, <1>2, <1>4 DEF Each, Loop, NoHop
<1>7. Reads(p)'
  BY <1>1, <1>2, <1>3, <1>4 DEF Reads
<1>8. Safe(p)'
  <2>1. positions'[p] = positions[p] \/ positions'[p] = committed[p]
    BY <1>2
  <2>2. DoneUpTo(p, committed[p]) /\ (~aborted => DoneUpTo(p, positions[p]))
    BY DEF Each, Safe
  <2> QED
    BY <1>1, <1>4, <1>5, <2>1, <2>2 DEF Safe, DoneUpTo, Done
<1>9. Once(p)'
  BY <1>1, <1>4, <1>5 DEF Each, Once
<1> QED
  BY <1>6, <1>7, <1>8, <1>9 DEF Each

LEMMA LoopTurnsBack ==
    ASSUME Types, Slots, Phases, NEW p \in Partitions, Each(p), AdapterStep(TurnsBack(p))
    PROVE  Each(p)'
<1>1. /\ UNCHANGED <<log, committed, hop, copies, repeated, filtered, stopped, work, aborted>>
      /\ at[p] \in {"slot", "granted"} /\ stopped
      /\ Finally(p, Taken(p))
  BY DEF AdapterStep, TurnsBack, Entering, broker, run, facts
<1>2. positions'[p] = positions[p] + 1 /\ at'[p] = "ended"
  BY <1>1, AroundAgain
<1>3. aborted
  BY <1>1 DEF Phases
<1>4. positions[p] \in Nat /\ Len(log[p]) \in Nat
  BY PartitionTypes
<1>5. work[p] = "none" /\ hop[p] = NoHop /\ ~Underway(p) /\ positions[p] < Len(log[p])
  BY <1>1, NothingUnderway DEF Each, Loop
<1>6. ~Underway(p)'
  BY <1>1, <1>5 DEF Underway
<1>7. Loop(p)'
  BY <1>1, <1>2, <1>4, <1>5 DEF Each, Loop, NoHop
<1>8. Reads(p)'
  BY <1>1, <1>2, <1>5 DEF Reads
<1>9. Safe(p)'
  BY <1>1, <1>3, <1>5, <1>6 DEF Each, Safe, DoneUpTo, Done
<1>10. Once(p)'
  BY <1>1, <1>5, <1>6 DEF Each, Once
<1> QED
  BY <1>7, <1>8, <1>9, <1>10 DEF Each

\* A dead letter arrives behind all the others.
LEMMA LetterArrives ==
    ASSUME Types, NEW p \in Partitions, Each(p), NEW addressed \in BOOLEAN, DeadLettered(p, addressed)
    PROVE  Each(p)'
<1>1. UNCHANGED <<committed, positions, hop, filtered, stopped, work, aborted>> /\ Woken(p)
  BY WokenTypes DEF DeadLettered, Append1, group, run
<1>2. Len(log'[p]) = Len(log[p]) + 1
  BY OneAppended DEF Types, DeadLettered, Append1
<1>3. /\ Len(copies'[p]) = Len(copies[p]) + 1 /\ copies'[p][Len(copies[p]) + 1] = 0
      /\ \A i \in 1..Len(copies[p]) : copies'[p][i] = copies[p][i]
  <2>1. 0 \in Nat /\ copies \in [Partitions -> Seq(Nat)] /\ copies' = [copies EXCEPT ![p] = Append(@, 0)]
    BY DEF Types, DeadLettered
  <2> QED
    BY <2>1, OneAppended
<1>4. /\ Len(repeated'[p]) = Len(repeated[p]) + 1 /\ repeated'[p][Len(repeated[p]) + 1] = 0
      /\ \A i \in 1..Len(repeated[p]) : repeated'[p][i] = repeated[p][i]
  <2>1. 0 \in Nat /\ repeated \in [Partitions -> Seq(Nat)]
        /\ repeated' = [repeated EXCEPT ![p] = Append(@, 0)]
    BY DEF Types, DeadLettered
  <2> QED
    BY <2>1, OneAppended
<1>5. /\ Len(log[p]) \in Nat /\ committed[p] \in Nat /\ positions[p] \in Nat
      /\ Len(copies[p]) = Len(log[p]) /\ Len(repeated[p]) = Len(log[p])
      /\ positions[p] <= Len(log[p]) /\ committed[p] <= Len(log[p])
      /\ at[p] \in {"slot", "waiting", "granted", "eachMessage"} => positions[p] < Len(log[p])
      /\ work[p] # "none" <=> at[p] = "eachMessage"
  BY PartitionTypes DEF Each, Loop
<1>6. Current(p)' = Current(p) /\ Current(p) = positions[p] + 1 /\ (Underway(p)' <=> Underway(p))
  BY <1>1 DEF Current, Underway
<1>7. \A i \in 1..Len(log[p]) : Done(p, i) => Done(p, i)'
  BY <1>1, <1>3, <1>5 DEF Done
<1>8. Loop(p)'
  BY <1>1, <1>2, <1>3, <1>4, <1>5 DEF Each, Loop, Woken
<1>9. Reads(p)'
  BY <1>1, <1>5 DEF Each, Reads, Woken
<1>10. Safe(p)'
  <2>1. \A n \in Nat : n <= Len(log[p]) /\ DoneUpTo(p, n) => \A i \in 1..n : Done(p, i)'
    BY <1>5, <1>7 DEF DoneUpTo
  <2>2. work[p] # "none" => Current(p) \in 1..Len(log[p])
    BY <1>5, <1>6
  <2>3. Underway(p) => work[p] # "none"
    BY DEF Underway, Each, Loop, NoHop
  <2>4. DoneUpTo(p, committed[p])'
    BY <1>1, <1>5, <2>1 DEF Each, Safe, DoneUpTo
  <2>5. ~aborted \/ work[p] \in {"filter", "skip", "hop", "commit", "counted"}
           => DoneUpTo(p, positions[p])'
    BY <1>1, <1>5, <2>1 DEF Each, Safe, DoneUpTo
  <2>6. work[p] \in {"skip", "counted"} \/ Underway(p) => Done(p, Current(p))'
    BY <1>6, <1>7, <2>2, <2>3 DEF Each, Safe, Done, Current
  <2> QED
    BY <1>1, <1>6, <2>4, <2>5, <2>6 DEF Safe
<1>11. Once(p)'
  <2>1. SUFFICES ASSUME NEW n \in 1..Len(log'[p])
                 PROVE  /\ copies'[p][n] <= 1 + repeated'[p][n]
                        /\ n > committed[p] /\ ~(n = Current(p) /\ Underway(p))
                              => copies'[p][n] <= repeated'[p][n]
    BY <1>1, <1>6 DEF Once
  <2>2. CASE n \in 1..Len(log[p])
    BY <1>3, <1>4, <1>5, <2>2 DEF Each, Once
  <2>3. CASE n = Len(log[p]) + 1
    BY <1>3, <1>4, <1>5, <2>3
  <2> QED
    BY <1>2, <1>5, <2>2, <2>3
<1> QED
  BY <1>8, <1>9, <1>10, <1>11 DEF Each

-----------------------------------------------------------------------------
(* A step of the run, of the harbor or of another partition. *)

LEMMA RunLeavesStill ==
    ASSUME Types, NEW q \in Partitions,
           \/ Consuming \/ SleepEnds \/ SleepCut \/ AllSettled \/ HarborCloses
           \/ UNCHANGED vars
    PROVE  Still(q)
<1>1. UNCHANGED <<log, committed, positions, work, hop, copies, repeated, filtered>>
  BY DEF Consuming, SleepEnds, SleepCut, AllSettled, Stop, HarborCloses, Disconnect, vars,
         adapter, broker, group, facts
<1>2. aborted => aborted'
  BY DEF Consuming, SleepEnds, SleepCut, AllSettled, HarborCloses, vars, run
<1>3. at' = at \/ at' = Wake
  BY DEF Consuming, SleepEnds, SleepCut, AllSettled, Stop, HarborCloses, Disconnect, vars,
         adapter, consumption
<1> QED
  BY <1>1, <1>2, <1>3, WokenTypes DEF Still

LEMMA OthersStill ==
    ASSUME Types, Slots, NEW p \in Partitions, NEW q \in Partitions, q # p,
           \/ \E addressed \in BOOLEAN : DeadLettered(p, addressed)
           \/ EachMessage(p) \/ One(p) \/ Keeps(p) \/ Skips(p) \/ FilterThrows(p)
           \/ WrapperRuns(p) \/ WrapperSettles(p) \/ Acknowledged(p) \/ SendFails(p) \/ HopEnds(p)
           \/ SkipCommits(p) \/ HopCommits(p) \/ Settles(p)
           \/ AdapterStep(Looks(p)) \/ AdapterStep(TurnsBack(p))
    PROVE  Still(q)
<1>1. CASE \E addressed \in BOOLEAN : DeadLettered(p, addressed)
  <2>1. UNCHANGED <<committed, positions, work, hop, filtered, aborted>> /\ Woken(q)
    BY <1>1, WokenTypes DEF DeadLettered, Append1, group, run
  <2>2. UNCHANGED <<log[q], copies[q], repeated[q]>>
    BY <1>1 DEF Types, DeadLettered, Append1
  <2> QED
    BY <2>1, <2>2 DEF Still
<1>2. CASE EachMessage(p)
  BY <1>2 DEF Types, Still, Woken, EachMessage, Enters, broker, group, run, facts
<1>3. CASE One(p)
  <2>1. UNCHANGED <<log, committed, positions, at, copies, repeated, filtered>>
    BY <1>3 DEF One, adapter, broker, group, consumption, facts
  <2>2. (aborted => aborted') /\ UNCHANGED <<work[q], hop[q]>>
    <3>1. CASE aborted
      BY <1>3, <3>1 DEF Types, One, run
    <3>2. CASE ~aborted
      BY <1>3, <3>2 DEF Types, One, Considers, Fails, HopBegins
    <3> QED
      BY <3>1, <3>2
  <2> QED
    BY <2>1, <2>2 DEF Still, Woken
<1>4. CASE Keeps(p) \/ Skips(p)
  BY <1>4 DEF Types, Still, Woken, Keeps, HopBegins, Skips, adapter, broker, group, consumption, run, facts
<1>5. CASE FilterThrows(p)
  BY <1>5 DEF Types, Still, Woken, FilterThrows, Fails, adapter, broker, group, consumption, facts
<1>6. CASE WrapperRuns(p) \/ WrapperSettles(p) \/ SendFails(p)
  BY <1>6 DEF Types, Still, Woken, WrapperRuns, WrapperSettles, SendFails, adapter, broker, group,
              consumption, run, facts
<1>7. CASE Acknowledged(p)
  BY <1>7 DEF Types, Still, Woken, Acknowledged, AppendElsewhere, adapter, broker, group,
              consumption, run
<1>8. CASE HopEnds(p)
  BY <1>8 DEF Types, Still, Woken, HopEnds, Fails, adapter, broker, group, consumption, facts
<1>9. CASE SkipCommits(p) \/ HopCommits(p)
  <2>1. UNCHANGED <<log, positions, at, hop, copies, filtered, aborted>>
    BY <1>9 DEF SkipCommits, HopCommits, Commit, CommitFails, adapter, broker, group,
                consumption, run, facts
  <2>2. UNCHANGED <<committed[q], work[q], repeated[q]>>
    BY <1>9 DEF Types, SkipCommits, HopCommits, Counted, Commit, CommitFails, adapter, group, facts
  <2> QED
    BY <2>1, <2>2 DEF Still, Woken
<1>10. CASE Settles(p)
  <2>1. UNCHANGED <<log, committed, hop, copies, repeated, filtered, work[q]>> /\ (aborted => aborted')
    BY <1>10 DEF Types, Settles, Delivered, broker, facts
  <2>2. positions'[q] = positions[q] /\ Woken(q)
    BY <1>10, AroundAgain DEF Settles, Delivered
  <2> QED
    BY <2>1, <2>2 DEF Still
<1>11. CASE AdapterStep(Looks(p)) \/ AdapterStep(TurnsBack(p))
  <2>1. UNCHANGED <<log, committed, hop, copies, repeated, filtered, work, aborted>>
    BY <1>11 DEF AdapterStep, Looks, TurnsBack, broker, run, facts
  <2>2. positions'[q] = positions[q] /\ Woken(q)
    BY <1>11, AroundAgain, LookedAround DEF AdapterStep, TurnsBack, Woken
  <2> QED
    BY <2>1, <2>2 DEF Still
<1> QED
  BY <1>1, <1>2, <1>3, <1>4, <1>5, <1>6, <1>7, <1>8, <1>9, <1>10, <1>11

\* A run begins from the committed offsets, and ends with its loops.
LEMMA RunBegins ==
    ASSUME Types, Phases, NEW q \in Partitions, Each(q), NEW o \in Options, Redrives(o)
    PROVE  Each(q)'
<1>1. /\ UNCHANGED <<log, committed, positions, work, hop, copies, repeated, filtered>>
      /\ at'[q] = "awake" /\ at[q] = "ended" /\ positions[q] = 0
  BY DEF Redrives, Consume, Phases, broker, facts
<1>2. work[q] = "none" /\ hop[q] = NoHop /\ ~Underway(q)
  BY <1>1, NothingUnderway DEF Each, Loop
<1>3. ~Underway(q)'
  BY <1>1, <1>2 DEF Underway
<1>4. Loop(q)' /\ Reads(q)'
  BY <1>1, <1>2 DEF Each, Loop, Reads, NoHop
<1>5. Safe(q)'
  BY <1>1, <1>2, <1>3 DEF Each, Safe, DoneUpTo, Done
<1>6. Once(q)'
  BY <1>1, <1>2, <1>3 DEF Each, Once
<1> QED
  BY <1>4, <1>5, <1>6 DEF Each

LEMMA RunReturns ==
    ASSUME Types, NEW q \in Partitions, Each(q), Returns
    PROVE  Each(q)'
<1>1. /\ UNCHANGED <<log, committed, at, work, hop, copies, repeated, filtered>>
      /\ at[q] = "ended" /\ positions'[q] = 0
  BY DEF Returns, Stopped, broker, consumption, facts
<1>2. work[q] = "none" /\ hop[q] = NoHop /\ ~Underway(q)
  BY <1>1, NothingUnderway DEF Each, Loop
<1>3. ~Underway(q)'
  BY <1>1, <1>2 DEF Underway
<1>4. Len(log[q]) \in Nat
  BY PartitionTypes
<1>5. Loop(q)' /\ Reads(q)'
  BY <1>1, <1>2, <1>4 DEF Each, Loop, Reads, NoHop
<1>6. Safe(q)'
  BY <1>1, <1>2, <1>3 DEF Each, Safe, DoneUpTo, Done
<1>7. Once(q)'
  BY <1>1, <1>2, <1>3 DEF Each, Once
<1> QED
  BY <1>5, <1>6, <1>7 DEF Each

LEMMA EachKept ==
    ASSUME Types, Slots, Phases, \A p \in Partitions : Each(p), [Next]_vars,
           NEW q \in Partitions
    PROVE  Each(q)'
<1>1. CASE \/ Consuming \/ SleepEnds \/ SleepCut \/ AllSettled \/ HarborCloses
           \/ UNCHANGED vars
  BY <1>1, RunLeavesStill, StillKeeps
<1>2. CASE \E o \in Options : Redrives(o)
  BY <1>2, RunBegins
<1>3. CASE Returns
  BY <1>3, RunReturns
<1>4. ASSUME NEW p \in Partitions,
             \/ \E addressed \in BOOLEAN : DeadLettered(p, addressed)
             \/ EachMessage(p) \/ One(p) \/ Keeps(p) \/ Skips(p) \/ FilterThrows(p)
             \/ WrapperRuns(p) \/ WrapperSettles(p) \/ Acknowledged(p) \/ SendFails(p) \/ HopEnds(p)
             \/ SkipCommits(p) \/ HopCommits(p) \/ Settles(p)
             \/ AdapterStep(Looks(p)) \/ AdapterStep(TurnsBack(p))
      PROVE  Each(q)'
  <2>1. CASE q # p
    BY <1>4, <2>1, OthersStill, StillKeeps
  <2>2. CASE q = p
    BY <1>4, <2>2, LetterArrives, MessageComes, MessageGoesOn, SameMessageKeeps, MessageSkipped,
       MessageAcknowledged, MessageCommitted, MessageSettled, LoopLooks, LoopTurnsBack
  <2> QED
    BY <2>1, <2>2
<1> QED
  BY <1>1, <1>2, <1>3, <1>4 DEF Next

-----------------------------------------------------------------------------
(* Where the run is. *)

\* A step of the loop of p, or of its message, is one of a loop that runs.
LEMMA LoopRuns ==
    ASSUME Types, Slots, NEW p \in Partitions, Each(p),
           \/ EachMessage(p) \/ One(p) \/ Keeps(p) \/ Skips(p) \/ FilterThrows(p)
           \/ WrapperRuns(p) \/ WrapperSettles(p) \/ Acknowledged(p) \/ SendFails(p) \/ HopEnds(p)
           \/ SkipCommits(p) \/ HopCommits(p) \/ Settles(p)
           \/ AdapterStep(Looks(p)) \/ AdapterStep(TurnsBack(p))
    PROVE  at[p] # "ended" /\ UNCHANGED <<phase, stopped, options>> /\ (aborted => aborted')
<1>1. CASE EachMessage(p)
  BY <1>1 DEF EachMessage, Enters, Entering, run
<1>2. CASE One(p)
  <2>1. at[p] # "ended" /\ stopped' = stopped
    BY <1>2 DEF One, adapter, consumption, Each, Loop
  <2>2. UNCHANGED <<phase, options>> /\ (aborted => aborted')
    <3>1. CASE aborted
      BY <1>2, <3>1 DEF One, run
    <3>2. CASE ~aborted
      BY <1>2, <3>2 DEF One, Considers, Fails
    <3> QED
      BY <3>1, <3>2
  <2> QED
    BY <2>1, <2>2
<1>3. CASE Keeps(p) \/ Skips(p) \/ FilterThrows(p)
  BY <1>3 DEF Keeps, Skips, FilterThrows, Fails, adapter, consumption, run, Each, Loop
<1>4. CASE WrapperRuns(p) \/ WrapperSettles(p) \/ HopEnds(p)
  BY <1>4 DEF WrapperRuns, WrapperSettles, HopEnds, Fails, adapter, consumption, run, Each, Loop
<1>5. CASE Acknowledged(p) \/ SendFails(p)
  <2>1. hop[p] # NoHop
    BY <1>5 DEF Acknowledged, SendFails, NoHop
  <2> QED
    BY <1>5, <2>1 DEF Acknowledged, AppendElsewhere, SendFails, adapter, consumption, run, Each, Loop
<1>6. CASE SkipCommits(p) \/ HopCommits(p)
  BY <1>6 DEF SkipCommits, HopCommits, Commit, CommitFails, adapter, consumption, run, Each, Loop
<1>7. CASE Settles(p)
  BY <1>7 DEF Settles, Delivered, Each, Loop
<1>8. CASE AdapterStep(Looks(p)) \/ AdapterStep(TurnsBack(p))
  BY <1>8 DEF AdapterStep, Looks, TurnsBack, Entering, run
<1> QED
  BY <1>1, <1>2, <1>3, <1>4, <1>5, <1>6, <1>7, <1>8

LEMMA PhasesKept ==
    ASSUME Types, Slots, Phases, \A p \in Partitions : Each(p), [Next]_vars
    PROVE  Phases'
<1>1. CASE \E o \in Options : Redrives(o)
  BY <1>1 DEF Phases, Redrives, Consume
<1>2. CASE Consuming \/ SleepEnds \/ SleepCut
  BY <1>2 DEF Phases, Consuming, SleepEnds, SleepCut, adapter, consumption
<1>3. CASE AllSettled
  BY <1>3 DEF Phases, AllSettled
<1>4. CASE Returns
  BY <1>4 DEF Phases, Returns, Stopped, Locals, consumption
<1>5. CASE HarborCloses \/ UNCHANGED vars
  BY <1>5 DEF Phases, HarborCloses, Disconnect, vars, adapter, group, consumption, run, result
<1>6. ASSUME NEW p \in Partitions, NEW addressed \in BOOLEAN, DeadLettered(p, addressed)
      PROVE  Phases'
  <2>1. UNCHANGED <<phase, aborted, stopped, reprocessed, skipped, positions>>
    BY <1>6 DEF DeadLettered, Append1, group, run, result
  <2>2. \A q \in Partitions : at[q] = "ended" => at'[q] = "ended"
    BY <1>6 DEF DeadLettered, Append1, Wake
  <2> QED
    BY <2>1, <2>2 DEF Phases
<1>7. ASSUME NEW p \in Partitions,
             \/ EachMessage(p) \/ One(p) \/ Keeps(p) \/ Skips(p) \/ FilterThrows(p)
             \/ WrapperRuns(p) \/ WrapperSettles(p) \/ Acknowledged(p) \/ SendFails(p) \/ HopEnds(p)
             \/ SkipCommits(p) \/ HopCommits(p) \/ Settles(p)
             \/ AdapterStep(Looks(p)) \/ AdapterStep(TurnsBack(p))
      PROVE  Phases'
  <2>1. at[p] # "ended" /\ UNCHANGED <<phase, stopped>> /\ (aborted => aborted')
    BY <1>7, LoopRuns
  <2>2. phase # "none"
    BY <2>1 DEF Phases
  <2> QED
    BY <2>1, <2>2 DEF Phases
<1> QED
  BY <1>1, <1>2, <1>3, <1>4, <1>5, <1>6, <1>7 DEF Next

-----------------------------------------------------------------------------
(* The count of a run with a `max`. *)

LEMMA CountsFinite ==
    /\ IsFiniteSet(Undecided) /\ Cardinality(Undecided) \in Nat
    /\ IsFiniteSet(Counting) /\ Cardinality(Counting) \in Nat
    /\ IsFiniteSet(Partitions) /\ Cardinality(Partitions) \in Nat
<1>1. IsFiniteSet(Partitions)
  BY MemoryAdapterAssumption
<1>2. IsFiniteSet(Undecided) /\ IsFiniteSet(Counting)
  BY <1>1, FS_Subset DEF Undecided, Counting
<1> QED
  BY <1>1, <1>2, FS_CardinalityType

\* With the message of p at the await w.
LEMMA CountsMove ==
    ASSUME Types, NEW p \in Partitions, NEW w \in Works, work' = [work EXCEPT ![p] = w]
    PROVE  /\ Cardinality(Undecided)' =
                 Cardinality(Undecided) - (IF p \in Undecided THEN 1 ELSE 0)
                     + (IF w \in {"filter", "skip", "hop", "commit"} THEN 1 ELSE 0)
           /\ Cardinality(Counting)' =
                 Cardinality(Counting) - (IF p \in Counting THEN 1 ELSE 0)
                     + (IF w = "counted" THEN 1 ELSE 0)
           /\ Cardinality(Undecided)' \in Nat /\ Cardinality(Counting)' \in Nat
<1>1. work'[p] = w /\ \A q \in Partitions : q # p => work'[q] = work[q]
  BY DEF Types
<1>2. /\ IsFiniteSet(Undecided \ {p}) /\ IsFiniteSet(Counting \ {p})
      /\ Cardinality(Undecided \ {p}) = Cardinality(Undecided) - (IF p \in Undecided THEN 1 ELSE 0)
      /\ Cardinality(Counting \ {p}) = Cardinality(Counting) - (IF p \in Counting THEN 1 ELSE 0)
  BY CountsFinite, FS_RemoveElement
<1>3. /\ Undecided' = IF w \in {"filter", "skip", "hop", "commit"} THEN (Undecided \ {p}) \union {p}
                      ELSE Undecided \ {p}
      /\ Counting' = IF w = "counted" THEN (Counting \ {p}) \union {p} ELSE Counting \ {p}
  BY <1>1 DEF Undecided, Counting
<1>4. /\ Cardinality(Undecided)' = Cardinality(Undecided \ {p})
                     + (IF w \in {"filter", "skip", "hop", "commit"} THEN 1 ELSE 0)
      /\ IsFiniteSet(Undecided')
  <2>1. p \notin Undecided \ {p}
    OBVIOUS
  <2>2. Cardinality(Undecided \ {p}) \in Nat
    BY <1>2, FS_CardinalityType
  <2>3. CASE w \in {"filter", "skip", "hop", "commit"}
    <3>1. Undecided' = (Undecided \ {p}) \union {p}
      BY <1>3, <2>3
    <3> QED
      BY <1>2, <2>1, <2>2, <2>3, <3>1, FS_AddElement
  <2>4. CASE w \notin {"filter", "skip", "hop", "commit"}
    <3>1. Undecided' = Undecided \ {p}
      BY <1>3, <2>4
    <3> QED
      BY <1>2, <2>2, <2>4, <3>1
  <2> QED
    BY <2>3, <2>4
<1>5. /\ Cardinality(Counting)' = Cardinality(Counting \ {p}) + (IF w = "counted" THEN 1 ELSE 0)
      /\ IsFiniteSet(Counting')
  <2>1. p \notin Counting \ {p}
    OBVIOUS
  <2>2. Cardinality(Counting \ {p}) \in Nat
    BY <1>2, FS_CardinalityType
  <2>3. CASE w = "counted"
    <3>1. Counting' = (Counting \ {p}) \union {p}
      BY <1>3, <2>3
    <3> QED
      BY <1>2, <2>1, <2>2, <2>3, <3>1, FS_AddElement
  <2>4. CASE w # "counted"
    <3>1. Counting' = Counting \ {p}
      BY <1>3, <2>4
    <3> QED
      BY <1>2, <2>2, <2>4, <3>1
  <2> QED
    BY <2>3, <2>4
<1>6. Cardinality(Undecided)' \in Nat /\ Cardinality(Counting)' \in Nat
  BY <1>4, <1>5, FS_CardinalityType
<1> QED
  BY <1>2, <1>4, <1>5, <1>6

\* A message the run has not looked at yet makes room for one more.
LEMMA RoomForOne ==
    ASSUME NEW p \in Partitions, p \notin Undecided, p \notin Counting
    PROVE  Cardinality(Undecided) + Cardinality(Counting) + 1 <= Cardinality(Partitions)
<1>1. Undecided \cap Counting = {} /\ Cardinality({}) = 0
  BY FS_EmptySet DEF Undecided, Counting
<1>2. /\ IsFiniteSet(Undecided \union Counting)
      /\ Cardinality(Undecided \union Counting) = Cardinality(Undecided) + Cardinality(Counting)
  <2>1. /\ IsFiniteSet(Undecided \union Counting)
        /\ Cardinality(Undecided \union Counting)
             = Cardinality(Undecided) + Cardinality(Counting) - Cardinality(Undecided \cap Counting)
    BY CountsFinite, FS_Union
  <2>2. Cardinality(Undecided \cap Counting) = 0
    BY <1>1
  <2> QED
    BY <2>1, <2>2, CountsFinite
<1>3. Cardinality((Undecided \union Counting) \union {p})
        = Cardinality(Undecided) + Cardinality(Counting) + 1
  BY <1>2, FS_AddElement
<1>4. (Undecided \union Counting) \union {p} \subseteq Partitions
  BY DEF Undecided, Counting
<1> QED
  BY <1>3, <1>4, CountsFinite, FS_Subset

LEMMA SameCount ==
    ASSUME Types, Bounded, UNCHANGED <<work, options, reprocessed, skipped>>, aborted => aborted'
    PROVE  Bounded'
BY DEF Bounded, Undecided, Counting

LEMMA NothingCounted ==
    ASSUME Types, Types', \A p \in Partitions : work'[p] = "none", reprocessed' = 0, skipped' = 0
    PROVE  Bounded'
<1>1. Undecided' = {} /\ Counting' = {}
  BY DEF Undecided, Counting
<1>2. Cardinality({}) = 0
  BY FS_EmptySet
<1>3. \/ IsFiniteSet(Partitions) /\ Cardinality(Partitions) \in Nat
  BY CountsFinite
<1>4. options'.max \in Nat
  BY DEF Types
<1> QED
  BY <1>1, <1>2, <1>3, <1>4 DEF Bounded

\* The message of p at the await w, `more` messages counted by then.
LEMMA CountMoves ==
    ASSUME Types, Bounded, NEW p \in Partitions, NEW w \in Works, NEW more \in {0, 1},
           work' = [work EXCEPT ![p] = w], options' = options,
           reprocessed' + skipped' = reprocessed + skipped + more,
           aborted => aborted',
           \* what counts one more came from a message under way, and the run
           \* looks at max again once a message is counted
           \/ more = 0 /\ w = "none" /\ p \notin Undecided
                /\ (options.max > 0 /\ ~aborted' /\ p \in Counting
                        => reprocessed + skipped < options.max)
           \/ more = 0 /\ w = "ready" /\ p \notin Undecided /\ p \notin Counting
           \/ more = 0 /\ w = "over" /\ p \notin Counting /\ aborted'
           \/ more = 0 /\ w \in {"filter", "skip", "hop", "commit"} /\ p \in Undecided
           \/ more = 0 /\ w \in {"filter", "skip", "hop", "commit"} /\ ~aborted
                /\ p \notin Undecided /\ p \notin Counting
           \/ more = 1 /\ w = "counted" /\ p \in Undecided
    PROVE  Bounded'
<1>1. /\ options.max \in Nat /\ reprocessed + skipped \in Nat
      /\ Cardinality(Partitions) \in Nat
      /\ Cardinality(Undecided) \in Nat /\ Cardinality(Counting) \in Nat
      /\ Cardinality(Undecided)' \in Nat /\ Cardinality(Counting)' \in Nat
  <2>1. Cardinality(Undecided)' \in Nat /\ Cardinality(Counting)' \in Nat
    BY CountsMove
  <2>2. options.max \in Nat /\ reprocessed \in Nat /\ skipped \in Nat
    BY DEF Types
  <2> QED
    BY <2>1, <2>2, CountsFinite
<1>2. /\ Cardinality(Undecided)' =
            Cardinality(Undecided) - (IF p \in Undecided THEN 1 ELSE 0)
                + (IF w \in {"filter", "skip", "hop", "commit"} THEN 1 ELSE 0)
      /\ Cardinality(Counting)' =
            Cardinality(Counting) - (IF p \in Counting THEN 1 ELSE 0)
                + (IF w = "counted" THEN 1 ELSE 0)
  BY CountsMove
<1>3. p \in Undecided => p \notin Counting
  BY DEF Undecided, Counting
<1>4. p \notin Undecided /\ p \notin Counting
         => Cardinality(Undecided) + Cardinality(Counting) + 1 <= Cardinality(Partitions)
  BY RoomForOne
<1>5. SUFFICES ASSUME options.max > 0
      PROVE  /\ ~aborted' => reprocessed' + skipped' < options.max + Cardinality(Counting)'
             /\ reprocessed' + skipped' + Cardinality(Undecided)' < options.max + Cardinality(Partitions)
  BY DEF Bounded
<1>6. /\ ~aborted => reprocessed + skipped < options.max + Cardinality(Counting)
      /\ reprocessed + skipped + Cardinality(Undecided) < options.max + Cardinality(Partitions)
  BY <1>5 DEF Bounded
<1> QED
  BY <1>1, <1>2, <1>3, <1>4, <1>5, <1>6

LEMMA BoundedKept ==
    ASSUME Types, Types', Slots, Phases, Bounded, \A p \in Partitions : Each(p), [Next]_vars
    PROVE  Bounded'
<1>0. work \in [Partitions -> Works] /\ reprocessed \in Nat /\ skipped \in Nat
      /\ {"none", "ready", "filter", "skip", "hop", "commit", "counted", "over"} = Works
  BY DEF Types, Works
<1>1. CASE (\E o \in Options : Redrives(o)) \/ Returns
  <2>1. \A p \in Partitions : at[p] = "ended"
    BY <1>1 DEF Redrives, Returns, Stopped, Phases
  <2>2. \A p \in Partitions : work'[p] = "none"
    BY <1>1, <2>1 DEF Redrives, Returns, Each, Loop
  <2>3. reprocessed' = 0 /\ skipped' = 0
    BY <1>1 DEF Redrives, Returns, Locals
  <2> QED
    BY <2>2, <2>3, NothingCounted
<1>2. CASE \/ Consuming \/ SleepEnds \/ SleepCut \/ AllSettled \/ HarborCloses \/ UNCHANGED vars
  <2>1. UNCHANGED <<work, options, reprocessed, skipped>> /\ (aborted => aborted')
    BY <1>2 DEF Consuming, SleepEnds, SleepCut, AllSettled, HarborCloses, vars, run, result
  <2> QED
    BY <2>1, SameCount
<1>3. ASSUME NEW p \in Partitions,
             \/ \E addressed \in BOOLEAN : DeadLettered(p, addressed)
             \/ WrapperRuns(p) \/ WrapperSettles(p) \/ Acknowledged(p) \/ SendFails(p)
             \/ AdapterStep(Looks(p)) \/ AdapterStep(TurnsBack(p))
      PROVE  Bounded'
  <2>1. UNCHANGED <<work, options, reprocessed, skipped>> /\ (aborted => aborted')
    BY <1>3 DEF DeadLettered, WrapperRuns, WrapperSettles, Acknowledged, SendFails, AdapterStep,
                run, result
  <2> QED
    BY <2>1, SameCount
<1>4. ASSUME NEW p \in Partitions, EachMessage(p)
      PROVE  Bounded'
  <2>1. work' = [work EXCEPT ![p] = "ready"] /\ UNCHANGED <<options, reprocessed, skipped, aborted>>
    BY <1>4 DEF EachMessage, run, result
  <2>2. work[p] = "none"
    BY <1>4 DEF EachMessage, Enters, Entering, Each, Loop
  <2>3. p \notin Undecided /\ p \notin Counting
    BY <2>2 DEF Undecided, Counting
  <2>4. reprocessed' + skipped' = reprocessed + skipped + 0
    BY <1>0, <2>1
  <2> QED
    BY <1>0, <2>1, <2>3, <2>4, CountMoves
<1>5. ASSUME NEW p \in Partitions, One(p)
      PROVE  Bounded'
  <2>1. p \notin Undecided /\ p \notin Counting
    BY <1>5 DEF One, Undecided, Counting
  <2>2. UNCHANGED <<reprocessed, skipped>> /\ options' = options /\ (aborted => aborted')
    BY <1>5, LoopRuns DEF One, result
  <2>3. \/ work' = [work EXCEPT ![p] = "over"] /\ aborted'
        \/ /\ ~aborted
           /\ work' = [work EXCEPT ![p] = "filter"] \/ work' = [work EXCEPT ![p] = "hop"]
    <3>1. CASE aborted
      BY <1>5, <2>2, <3>1 DEF One
    <3>2. CASE ~aborted
      BY <1>5, <3>2 DEF One, Considers, Fails, HopBegins
    <3> QED
      BY <3>1, <3>2
  <2>4. reprocessed' + skipped' = reprocessed + skipped + 0
    BY <1>0, <2>2
  <2>5. CASE work' = [work EXCEPT ![p] = "over"] /\ aborted'
    BY <1>0, <2>1, <2>2, <2>4, <2>5, CountMoves
  <2>6. CASE ~aborted /\ work' = [work EXCEPT ![p] = "filter"]
    BY <1>0, <2>1, <2>2, <2>4, <2>6, CountMoves
  <2>7. CASE ~aborted /\ work' = [work EXCEPT ![p] = "hop"]
    BY <1>0, <2>1, <2>2, <2>4, <2>7, CountMoves
  <2> QED
    BY <2>3, <2>5, <2>6, <2>7
<1>6. ASSUME NEW p \in Partitions, Keeps(p) \/ Skips(p) \/ FilterThrows(p) \/ HopEnds(p)
      PROVE  Bounded'
  <2>1. p \in Undecided /\ p \notin Counting
    BY <1>6 DEF Keeps, Skips, FilterThrows, HopEnds, Undecided, Counting
  <2>2. UNCHANGED <<reprocessed, skipped>> /\ options' = options /\ (aborted => aborted')
    BY <1>6, LoopRuns DEF Keeps, Skips, FilterThrows, HopEnds, result
  <2>3. \/ work' = [work EXCEPT ![p] = "over"] /\ aborted'
        \/ \E w \in {"filter", "skip", "hop", "commit"} : work' = [work EXCEPT ![p] = w]
    BY <1>6 DEF Keeps, Skips, FilterThrows, HopEnds, HopBegins, Fails
  <2>4. reprocessed' + skipped' = reprocessed + skipped + 0
    BY <1>0, <2>2
  <2>5. CASE work' = [work EXCEPT ![p] = "over"] /\ aborted'
    BY <1>0, <2>1, <2>2, <2>4, <2>5, CountMoves
  <2>6. ASSUME NEW w \in {"filter", "skip", "hop", "commit"}, work' = [work EXCEPT ![p] = w]
        PROVE  Bounded'
    <3>1. w \in Works
      BY DEF Works
    <3> QED
      BY <2>1, <2>2, <2>4, <2>6, <3>1, CountMoves
  <2> QED
    BY <2>3, <2>5, <2>6
<1>7. ASSUME NEW p \in Partitions, SkipCommits(p) \/ HopCommits(p)
      PROVE  Bounded'
  <2>1. p \in Undecided
    BY <1>7 DEF SkipCommits, HopCommits, Undecided
  <2>2. /\ reprocessed' + skipped' = reprocessed + skipped + 1
        /\ work' = [work EXCEPT ![p] = "counted"] /\ options' = options /\ aborted' = aborted
    BY <1>0, <1>7 DEF SkipCommits, HopCommits, Counted, run
  <2> QED
    BY <1>0, <2>1, <2>2, CountMoves
<1>8. ASSUME NEW p \in Partitions, Settles(p)
      PROVE  Bounded'
  <2>1. /\ work' = [work EXCEPT ![p] = "none"] /\ UNCHANGED <<reprocessed, skipped>>
        /\ options' = options /\ (aborted => aborted')
        /\ work[p] = "counted" /\ Enough => aborted'
        /\ p \notin Undecided
    BY <1>8 DEF Settles, result, Undecided
  <2>2. options.max > 0 /\ ~aborted' /\ p \in Counting => reprocessed + skipped < options.max
    <3>1. options.max \in Nat
      BY DEF Types
    <3> QED
      BY <1>0, <2>1, <3>1 DEF Enough, Counting
  <2>3. reprocessed' + skipped' = reprocessed + skipped + 0
    BY <1>0, <2>1
  <2> QED
    BY <1>0, <2>1, <2>2, <2>3, CountMoves
<1> QED
  BY <1>1, <1>2, <1>3, <1>4, <1>5, <1>6, <1>7, <1>8 DEF Next

-----------------------------------------------------------------------------
(* The invariant. *)

LEMMA Initially ==
    ASSUME Init
    PROVE  IInv
<1>1. \A p \in Partitions :
         /\ Backlog[p] \in Seq(BOOLEAN) /\ DOMAIN Backlog[p] = 1..Len(Backlog[p]) /\ Len(Backlog[p]) \in Nat
  BY RedriveAssumption, LenProperties
<1>2. \A p \in Partitions : copies[p] = [n \in 1..Len(Backlog[p]) |-> 0]
  BY <1>1 DEF Init
<1>3. \A p \in Partitions :
         /\ copies[p] \in Seq(Nat) /\ Len(copies[p]) = Len(Backlog[p])
         /\ \A n \in 1..Len(Backlog[p]) : copies[p][n] = 0
  <2> SUFFICES ASSUME NEW p \in Partitions
               PROVE  /\ copies[p] \in Seq(Nat) /\ Len(copies[p]) = Len(Backlog[p])
                      /\ \A n \in 1..Len(Backlog[p]) : copies[p][n] = 0
    OBVIOUS
  <2>1. copies[p] = [n \in 1..Len(Backlog[p]) |-> 0] /\ Len(Backlog[p]) \in Nat
    BY <1>1, <1>2
  <2> QED
    BY <2>1
<1>4. copies \in [Partitions -> Seq(Nat)] /\ repeated = copies
  BY <1>3 DEF Init
<1>5. Types
  <2>1. options \in [to : BOOLEAN, max : Nat, filter : BOOLEAN, wrap : BOOLEAN]
    BY RedriveAssumption DEF Init
  <2>2. hop \in [Partitions -> HopRecord]
    BY DEF Init, HopRecord, NoHop
  <2> QED
    BY <1>4, <2>1, <2>2, RedriveAssumption DEF Init, AdapterInit, Types, Waits, Works
<1>6. Phases /\ Slots
  <2>1. Holders(at) = {} /\ InLine(at) = {}
    BY DEF Init, AdapterInit, Holders, InLine
  <2>2. Cardinality({}) = 0 /\ <<>> \in Seq(Partitions) /\ Range(<<>>) = {} /\ IsInjective(<<>>)
    BY FS_EmptySet DEF Range, IsInjective
  <2>3. Slots
    BY <2>1, <2>2 DEF Init, AdapterInit, Slots, SlotsCounted, Holders, InLine
  <2> QED
    BY <2>3 DEF Init, AdapterInit, Phases
<1>7. Bounded
  <2>1. Undecided = {} /\ Counting = {} /\ Cardinality({}) = 0
    BY FS_EmptySet DEF Init, Undecided, Counting
  <2>2. options.max \in Nat /\ Cardinality(Partitions) \in Nat
    BY <1>5, CountsFinite DEF Types
  <2> QED
    BY <2>1, <2>2 DEF Init, Bounded
<1>8. ASSUME NEW p \in Partitions
      PROVE  Each(p)
  <2>1. /\ log[p] = Backlog[p] /\ committed[p] = 0 /\ positions[p] = 0 /\ at[p] = "ended"
        /\ work[p] = "none" /\ hop[p] = NoHop /\ ~aborted
    BY DEF Init, AdapterInit
  <2>2. ~Underway(p)
    BY <2>1 DEF Underway, NoHop
  <2>3. Loop(p) /\ Reads(p)
    BY <1>1, <1>3, <1>4, <2>1 DEF Loop, Reads, NoHop
  <2>4. Safe(p)
    BY <2>1, <2>2 DEF Safe, DoneUpTo
  <2>5. Once(p)
    BY <1>1, <1>3, <1>4, <2>1, <2>2 DEF Once
  <2> QED
    BY <2>3, <2>4, <2>5 DEF Each
<1> QED
  BY <1>5, <1>6, <1>7, <1>8 DEF IInv, Each

LEMMA StepKeeps ==
    ASSUME IInv, [Next]_vars
    PROVE  IInv'
<1>1. Types /\ Phases /\ Slots /\ Bounded /\ \A p \in Partitions : Each(p) /\ Loop(p)
  BY DEF IInv, Each
<1>2. Types' /\ Slots' /\ Phases'
  BY <1>1, TypesKept, SlotsKept, PhasesKept
<1>3. Bounded'
  BY <1>1, <1>2, BoundedKept
<1>4. \A p \in Partitions : Each(p)'
  BY <1>1, EachKept
<1> QED
  BY <1>2, <1>3, <1>4 DEF IInv, Each

\* The inductive invariant of a redrive.
THEOREM Invariance == Spec => []IInv
<1>1. Init => IInv
  BY Initially
<1>2. IInv /\ [Next]_vars => IInv'
  BY StepKeeps
<1> QED
  BY <1>1, <1>2, PTL DEF Spec

\* Over the in-memory adapter: nothing the group is past is neither back in
\* service nor skipped by the filter, whatever fails and whenever the run stops
\* (redrive.ts, one() and commitAfter()).
THEOREM NothingLostInRedrive == Spec => []NoDeadLetterLost
<1>1. IInv => NoDeadLetterLost
  <2> SUFFICES ASSUME IInv, NEW e \in Letters, e[2] <= committed[e[1]]
               PROVE  copies[e[1]][e[2]] > 0 \/ e \in filtered
    BY DEF NoDeadLetterLost
  <2>1. PICK p \in Partitions : e \in {p} \X DOMAIN log[p]
    BY DEF Letters
  <2>2. e = <<p, e[2]>> /\ e[1] = p /\ e[2] \in 1..Len(log[p])
    BY <2>1, LenProperties DEF IInv, Types
  <2>3. e[2] \in 1..committed[p]
    BY <2>2, PartitionTypes DEF IInv
  <2>4. Done(p, e[2])
    BY <2>3 DEF IInv, Each, Safe, DoneUpTo
  <2> QED
    BY <2>2, <2>4 DEF Done
<1> QED
  BY <1>1, Invariance, PTL

\* A dead letter is re-injected again only after a commit that failed, whatever
\* the instrumentation around the produce does (instrumentation.ts, wrapped()),
\* over an adapter whose failed produce never landed.
THEOREM ReinjectedOnce == Spec => []OnceUnlessUncommitted
<1>1. IInv => OnceUnlessUncommitted
  <2> SUFFICES ASSUME IInv, NEW e \in Letters
               PROVE  copies[e[1]][e[2]] <= 1 + repeated[e[1]][e[2]]
    BY DEF OnceUnlessUncommitted
  <2>1. PICK p \in Partitions : e \in {p} \X DOMAIN log[p]
    BY DEF Letters
  <2>2. e[1] = p /\ e[2] \in 1..Len(log[p])
    BY <2>1, LenProperties DEF IInv, Types
  <2> QED
    BY <2>2 DEF IInv, Each, Once
<1> QED
  BY <1>1, Invariance, PTL

\* A run with a `max` counts fewer than `max` and one more for every partition
\* over the in-memory adapter, and the adapter's slots are those its loops hold, however the loops
\* interleave (redrive.ts, the check of max; testing/index.ts, runPartition()).
THEOREM MaxRespected == Spec => []StopsAtMax
<1>1. IInv => StopsAtMax
  <2> SUFFICES ASSUME IInv
               PROVE  StopsAtMax
    OBVIOUS
  <2>1. \A p \in Partitions : committed[p] \in 0..Len(log[p]) /\ positions[p] \in 0..Len(log[p])
    BY PartitionTypes DEF IInv, Each, Loop
  <2>2. active \in Nat
    BY HoldersFinite DEF IInv, Slots, SlotsCounted, Holders
  <2>3. TypeOK
    BY <2>1, <2>2 DEF IInv, Types, TypeOK, AdapterTypeOK, Waits, Works
  <2>4. options.max > 0 => reprocessed + skipped < options.max + Cardinality(Partitions)
    <3>1. options.max \in Nat /\ reprocessed \in Nat /\ skipped \in Nat
      BY DEF IInv, Types
    <3> QED
      BY <3>1, CountsFinite DEF IInv, Bounded
  <2> QED
    BY <2>3, <2>4 DEF StopsAtMax, IInv, Slots
<1> QED
  BY <1>1, Invariance, PTL
=============================================================================
