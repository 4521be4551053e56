------------------------ MODULE DeliveryContractProofs ------------------------
(***************************************************************************)
(* An adapter that keeps the contract skips nothing, whatever the          *)
(* partitions, the offsets and the concurrency: NothingSkipped is an       *)
(* invariant of DeliveryContract!Spec.  It is inductive next to the types. *)
(***************************************************************************)
EXTENDS DeliveryContract, TLAPS

TypeOK ==
    /\ delivering \in [Partitions -> Offsets \union {0}]
    /\ parked \in [Partitions -> Offsets \union {0}]
    /\ last \in [Partitions -> Offsets \union {0}]

Inv == TypeOK /\ NothingSkipped

\* Offsets, and zero for none, are numbers.
LEMMA Numbers ==
    ASSUME Offsets \subseteq Nat \ {0}, TypeOK
    PROVE  \A p \in Partitions : last[p] \in Nat /\ delivering[p] \in Nat
<1>1. Offsets \union {0} \subseteq Nat
  OBVIOUS
<1>2. \A p \in Partitions :
        last[p] \in Offsets \union {0} /\ delivering[p] \in Offsets \union {0}
  BY DEF TypeOK
<1> QED BY <1>1, <1>2

\* What is after the last delivery begins: what was before it stays accounted for.
LEMMA BeginsKeeps ==
    ASSUME Offsets \subseteq Nat \ {0}, Inv,
           NEW p \in Partitions, NEW o \in Offsets, Begins(p, o),
           done' = done,
           \A q \in Partitions : parked'[q] = parked[q] \/ <<q, parked[q]>> \in done,
           parked' \in [Partitions -> Offsets \union {0}]
    PROVE  Inv'
<1>1. TypeOK'
  BY DEF Inv, TypeOK, Begins
<1>2. ASSUME NEW q \in Partitions, NEW i \in 1..last'[q]
      PROVE  <<q, i>> \in done' \/ delivering'[q] = i \/ parked'[q] = i
  <2>1. CASE q # p
    <3>1. last'[q] = last[q] /\ delivering'[q] = delivering[q]
      BY <2>1 DEF Inv, TypeOK, Begins
    <3>2. <<q, i>> \in done \/ delivering[q] = i \/ parked[q] = i
      BY <3>1 DEF Inv, NothingSkipped
    <3> QED BY <3>1, <3>2
  <2>2. CASE q = p
    <3>1. delivering'[q] = o /\ delivering[q] = 0 /\ o \in Nat
      BY <2>2 DEF Inv, TypeOK, Begins
    <3>2. last'[q] = o \/ PrefixDone(p, last'[q])
      BY <2>2 DEF Inv, TypeOK, Begins
    <3>3. CASE PrefixDone(p, last'[q])
      BY <3>3, <2>2 DEF PrefixDone
    <3>4. CASE last'[q] = o /\ i = o
      BY <3>1, <3>4
    <3>5. CASE last'[q] = o /\ i # o /\ o = last[p] + 1
      <4>1. last[p] \in Nat
        BY Numbers DEF Inv
      <4>2. i \in 1..last[p]
        BY <3>1, <3>5, <4>1
      <4>3. <<q, i>> \in done \/ delivering[q] = i \/ parked[q] = i
        BY <4>2, <2>2 DEF Inv, NothingSkipped
      <4> QED BY <4>3, <3>1, <4>1, <3>5
    <3>6. CASE last'[q] = o /\ i # o /\ PrefixDone(p, o - 1)
      <4>1. i \in 1..(o - 1)
        BY <3>1, <3>6
      <4> QED BY <4>1, <3>6, <2>2 DEF PrefixDone
    <3> QED BY <3>2, <3>3, <3>4, <3>5, <3>6 DEF Begins
  <2> QED BY <2>1, <2>2
<1> QED BY <1>1, <1>2 DEF Inv, NothingSkipped

\* Partitions read from another place: either nothing before it is missing, or it
\* is the place they were read from.
LEMMA SeeksKeep ==
    ASSUME Offsets \subseteq Nat \ {0}, Inv, NEW S \in SUBSET Partitions,
           last' \in [Partitions -> Offsets \union {0}],
           \A p \in Partitions :
              PrefixDone(p, last'[p]) \/ (p \notin S /\ last'[p] = last[p]),
           parked' = [p \in Partitions |-> IF p \in S THEN 0 ELSE parked[p]],
           done \subseteq done', UNCHANGED delivering
    PROVE  Inv'
<1>1. TypeOK'
  BY DEF Inv, TypeOK
<1>2. ASSUME NEW p \in Partitions, NEW i \in 1..last'[p]
      PROVE  <<p, i>> \in done' \/ delivering'[p] = i \/ parked'[p] = i
  <2>1. CASE PrefixDone(p, last'[p])
    BY <2>1 DEF PrefixDone
  <2>2. CASE p \notin S /\ last'[p] = last[p]
    <3>1. <<p, i>> \in done \/ delivering[p] = i \/ parked[p] = i
      BY <2>2 DEF Inv, NothingSkipped
    <3> QED BY <3>1, <2>2
  <2> QED BY <2>1, <2>2
<1> QED BY <1>1, <1>2 DEF Inv, NothingSkipped

\* A step of the core on one partition: the record that leaves its hands is
\* done, parked, or not before the place the partition is read from.
LEMMA SettlingKeeps ==
    ASSUME Offsets \subseteq Nat \ {0}, Inv, NEW p \in Partitions,
           done \subseteq done', last' = last, TypeOK',
           \A q \in Partitions : parked'[q] = parked[q] \/ parked[q] = 0,
           \A q \in Partitions \ {p} : delivering'[q] = delivering[q],
           \/ delivering'[p] = delivering[p]
           \/ <<p, delivering[p]>> \in done'
           \/ parked'[p] = delivering[p]
           \/ delivering[p] > last[p]
    PROVE  Inv'
<1>1. ASSUME NEW q \in Partitions, NEW i \in 1..last'[q]
      PROVE  <<q, i>> \in done' \/ delivering'[q] = i \/ parked'[q] = i
  <2>0. last[q] \in Nat /\ delivering[q] \in Nat
    BY Numbers DEF Inv
  <2>1. <<q, i>> \in done \/ delivering[q] = i \/ parked[q] = i
    BY DEF Inv, NothingSkipped
  <2>2. CASE parked[q] = i
    <3>1. i # 0
      BY <2>0
    <3> QED BY <3>1, <2>2
  <2>3. CASE delivering[q] = i
    <3>1. ~(delivering[q] > last[q])
      BY <2>0, <2>3
    <3> QED BY <3>1, <2>3
  <2> QED BY <2>1, <2>2, <2>3
<1> QED BY <1>1 DEF Inv, NothingSkipped

\* Whatever the partitions, the positive offsets and the concurrency.
THEOREM NothingIsSkipped ==
    ASSUME Offsets \subseteq Nat \ {0}
    PROVE  Spec => []NothingSkipped
<1>1. Init => Inv
  BY DEF Init, Inv, TypeOK, NothingSkipped
<1>2. Inv /\ [Next]_vars => Inv'
  <2> SUFFICES ASSUME Inv, [Next]_vars PROVE Inv'
    OBVIOUS
  <2>1. CASE Begin
    BY <2>1, BeginsKeeps DEF Begin, Inv, TypeOK
  <2>2. CASE Seek
    <3>1. PICK S \in SUBSET Partitions : S = {}
      OBVIOUS
    <3>2. parked' = [p \in Partitions |-> IF p \in S THEN 0 ELSE parked[p]]
      BY <2>2, <3>1 DEF Seek, Inv, TypeOK
    <3>3. \A p \in Partitions :
             PrefixDone(p, last'[p]) \/ (p \notin S /\ last'[p] = last[p])
      BY <2>2, <3>1 DEF Seek
    <3>4. last' \in [Partitions -> Offsets \union {0}] /\ done \subseteq done' /\ UNCHANGED delivering
      BY <2>2 DEF Seek, PassesOver
    <3> QED BY <3>2, <3>3, <3>4, SeeksKeep
  <2>3. ASSUME NEW S \in SUBSET Partitions, Revoke(S) PROVE Inv'
    BY <2>3, SeeksKeep DEF Revoke, PassesOver
  <2>4. ASSUME NEW p \in Partitions, Handle(p) PROVE Inv'
    <3>1. TypeOK'
      BY <2>4 DEF Handle, Inv, TypeOK
    <3>2. \A q \in Partitions \ {p} : delivering'[q] = delivering[q]
      BY <2>4 DEF Handle, Inv, TypeOK
    <3> QED BY <2>4, <3>1, <3>2, SettlingKeeps DEF Handle
  <2>5. ASSUME NEW p \in Partitions, Leave(p) PROVE Inv'
    <3>1. TypeOK'
      BY <2>5 DEF Leave, Inv, TypeOK
    <3>2. \A q \in Partitions \ {p} : delivering'[q] = delivering[q]
      BY <2>5 DEF Leave, Inv, TypeOK
    <3> QED BY <2>5, <3>1, <3>2, SettlingKeeps DEF Leave
  <2>6. ASSUME NEW p \in Partitions, Park(p) PROVE Inv'
    <3>1. TypeOK'
      BY <2>6 DEF Park, Inv, TypeOK
    <3>2. /\ \A q \in Partitions \ {p} : delivering'[q] = delivering[q]
          /\ \A q \in Partitions : parked'[q] = parked[q] \/ parked[q] = 0
          /\ parked'[p] = delivering[p]
      BY <2>6 DEF Park, Inv, TypeOK
    <3> QED BY <2>6, <3>1, <3>2, SettlingKeeps DEF Park
  <2>7. ASSUME NEW p \in Partitions, Resume(p) PROVE Inv'
    <3>1. /\ parked' \in [Partitions -> Offsets \union {0}]
          /\ \A q \in Partitions : parked'[q] = parked[q] \/ <<q, parked[q]>> \in done
      BY <2>7 DEF Resume, Inv, TypeOK
    <3>2. CASE \E q \in Partitions, o \in Offsets : Begins(q, o)
      BY <2>7, <3>1, <3>2, BeginsKeeps DEF Resume
    <3>3. CASE UNCHANGED <<delivering, last>>
      <4>1. TypeOK'
        BY <3>1, <3>3 DEF Inv, TypeOK
      <4>2. ASSUME NEW q \in Partitions, NEW i \in 1..last'[q]
            PROVE  <<q, i>> \in done' \/ delivering'[q] = i \/ parked'[q] = i
        <5>1. <<q, i>> \in done \/ delivering[q] = i \/ parked[q] = i
          BY <3>3 DEF Inv, NothingSkipped
        <5> QED BY <5>1, <3>1, <3>3, <2>7 DEF Resume
      <4> QED BY <4>1, <4>2 DEF Inv, NothingSkipped
    <3> QED BY <2>7, <3>2, <3>3 DEF Resume
  <2>8. ASSUME NEW p \in Partitions, NEW o \in Offsets, HandledBeside(p, o) PROVE Inv'
    <3>1. TypeOK'
      BY <2>8 DEF HandledBeside, Inv, TypeOK
    <3> QED BY <2>8, <3>1, SettlingKeeps DEF HandledBeside
  <2>9. CASE UNCHANGED vars
    BY <2>9 DEF vars, Inv, TypeOK, NothingSkipped
  <2> QED BY <2>1, <2>2, <2>3, <2>4, <2>5, <2>6, <2>7, <2>8, <2>9 DEF Next, Step
<1>3. Inv => NothingSkipped
  BY DEF Inv
<1> QED BY <1>1, <1>2, <1>3, PTL DEF Spec
===============================================================================
