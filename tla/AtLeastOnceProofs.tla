-------------------------- MODULE AtLeastOnceProofs --------------------------
(***************************************************************************)
(* The promise of AtLeastOnce keeps NothingLost, for every ladder, backlog *)
(* and set of messages.  NothingLost alone is not inductive: that a        *)
(* committed record is safe rests on the records whose outcome is safe, so *)
(* the invariant follows the unhandled copy of each message instead.       *)
(***************************************************************************)
EXTENDS AtLeastOnce, TLAPS, SequenceTheorems

\* Only what is in a log has an outcome.
HandledExist == \A r \in handled : r[2] \in 1..Len(log[r[1]])

\* Every produced message is done, dead, or has a copy without an outcome yet.
Unhandled(m) ==
    \E p \in Partitions : \E o \in 1..Len(log[p]) : log[p][o] = m /\ <<p, o>> \notin handled

Accounted == \A m \in Messages : Produced(m) => m \in done \/ m \in dead \/ Unhandled(m)

\* Everything behind a committed offset has a safe outcome.
CommittedHandled == \A p \in Partitions : PrefixHandled(p, committed[p])

LedgerInv == LedgerTypeOK /\ HandledExist /\ Accounted /\ CommittedHandled

LEMMA LedgerInitInv == LedgerInit => LedgerInv
  <1> SUFFICES ASSUME LedgerInit PROVE LedgerInv
    OBVIOUS
  <1>1. LedgerTypeOK
    BY LadderAssumption DEF LedgerInit, LedgerTypeOK
  <1>2. HandledExist
    BY DEF LedgerInit, HandledExist
  <1>3. Accounted
    BY DEF LedgerInit, Accounted, Unhandled, Produced
  <1>4. CommittedHandled
    BY DEF LedgerInit, CommittedHandled, PrefixHandled
  <1> QED
    BY <1>1, <1>2, <1>3, <1>4 DEF LedgerInv

\* A record that gets an outcome: its message is done, dead or copied to t.
LEMMA AppendKeeps ==
  ASSUME NEW t \in Partitions, NEW m \in Messages, LedgerTypeOK,
         log' = [log EXCEPT ![t] = Append(@, m)]
  PROVE  /\ log' \in [Partitions -> Seq(Messages)]
         /\ Len(log'[t]) = Len(log[t]) + 1
         /\ log'[t][Len(log[t]) + 1] = m
         /\ \A q \in Partitions : /\ Len(log[q]) \in Nat
                                  /\ Len(log[q]) <= Len(log'[q])
                                  /\ \A i \in 1..Len(log[q]) : log'[q][i] = log[q][i]
  <1>1. log[t] \in Seq(Messages) /\ log'[t] = Append(log[t], m)
    BY DEF LedgerTypeOK
  <1>2. /\ log'[t] \in Seq(Messages)
        /\ Len(log'[t]) = Len(log[t]) + 1
        /\ log'[t][Len(log[t]) + 1] = m
        /\ \A i \in 1..Len(log[t]) : log'[t][i] = log[t][i]
    BY <1>1, AppendProperties
  <1>3. \A q \in Partitions \ {t} : log'[q] = log[q]
    BY DEF LedgerTypeOK
  <1>4. \A q \in Partitions : Len(log[q]) \in Nat
    BY LenProperties DEF LedgerTypeOK
  <1>5. log' \in [Partitions -> Seq(Messages)]
    BY <1>2, <1>3 DEF LedgerTypeOK
  <1> QED
    BY <1>2, <1>3, <1>4, <1>5

\* Every effect on the ledger keeps the invariant; a commit when what it
\* covers is handled.
LEMMA LedgerStepInv ==
  ASSUME LedgerInv, [PromiseNext]_ledger
  PROVE  LedgerInv'
  <1> USE DEF LedgerInv
  <1>1. CASE UNCHANGED ledger
    BY <1>1 DEF ledger, LedgerTypeOK, HandledExist, Accounted, Unhandled, Produced,
                CommittedHandled, PrefixHandled
  <1>2. ASSUME NEW p \in Partitions, NEW o \in 1..Len(log[p]), RecordEffect(p, o)
        PROVE  LedgerInv'
    <2>a. log[p][o] \in Messages /\ o \in Nat /\ o > 0
      <3>1. log[p] \in Seq(Messages)
        BY DEF LedgerTypeOK
      <3> QED
        BY <3>1, ElementOfSeq, LenProperties
    <2>1. CASE Resolve(p, o) \/ DeadLetter(p, o) \/ CopyToDlq(p, o)
      <3>1. LedgerTypeOK'
        BY <2>1, <2>a DEF Resolve, DeadLetter, CopyToDlq, LedgerTypeOK
      <3>2. HandledExist'
        BY <2>1 DEF Resolve, DeadLetter, CopyToDlq, HandledExist
      <3>3. Accounted'
        BY <2>1 DEF Resolve, DeadLetter, CopyToDlq, Accounted, Unhandled, Produced
      <3>4. CommittedHandled'
        BY <2>1 DEF Resolve, DeadLetter, CopyToDlq, CommittedHandled, PrefixHandled
      <3> QED
        BY <3>1, <3>2, <3>3, <3>4
    <2>2. ASSUME NEW t \in NextLevel(p), Copy(p, o, t) \/ Hop(p, o, t)
          PROVE  LedgerInv'
      <3>t. t \in Partitions /\ t # p
        BY LadderAssumption DEF NextLevel
      <3>1. log' = [log EXCEPT ![t] = Append(@, log[p][o])]
        BY <2>2 DEF Copy, Hop
      <3>2. /\ log' \in [Partitions -> Seq(Messages)]
            /\ Len(log'[t]) = Len(log[t]) + 1
            /\ log'[t][Len(log[t]) + 1] = log[p][o]
            /\ \A q \in Partitions : /\ Len(log[q]) \in Nat
                                     /\ Len(log[q]) <= Len(log'[q])
                                     /\ \A i \in 1..Len(log[q]) : log'[q][i] = log[q][i]
        BY <3>1, <3>t, <2>a, AppendKeeps
      <3>3. /\ handled' = handled \/ handled' = handled \union {<<p, o>>}
            /\ committed' = committed /\ done' = done /\ dead' = dead
        BY <2>2 DEF Copy, Hop
      <3>4. LedgerTypeOK'
        BY <3>2, <3>3, <2>a DEF LedgerTypeOK
      <3>5. HandledExist'
        <4> SUFFICES ASSUME NEW r \in handled'
                     PROVE  r[2] \in 1..Len(log'[r[1]])
          BY DEF HandledExist
        <4>1. r[1] \in Partitions /\ r[2] \in 1..Len(log[r[1]])
          <5>1. CASE r \in handled
            BY <5>1 DEF HandledExist, LedgerTypeOK
          <5>2. CASE r = <<p, o>>
            BY <5>2
          <5> QED
            BY <5>1, <5>2, <3>3
        <4>2. Len(log'[r[1]]) \in Nat
          BY <4>1, <3>2, LenProperties
        <4> QED
          BY <4>1, <4>2, <3>2
      <3>6. ASSUME NEW m \in Messages, Produced(m)'
            PROVE  m \in done' \/ m \in dead' \/ Unhandled(m)'
        <4>1. Produced(m)
          BY <3>6 DEF Produced
        <4>2. CASE m = log[p][o]
          <5>1. <<t, Len(log[t]) + 1>> \notin handled'
            BY <3>2, <3>3, <3>t DEF HandledExist
          <5>2. Len(log[t]) + 1 \in 1..Len(log'[t])
            BY <3>2, <3>t
          <5> QED
            BY <5>1, <5>2, <3>2, <3>t, <4>2 DEF Unhandled
        <4>3. CASE m # log[p][o] /\ Unhandled(m)
          <5>1. PICK q \in Partitions : \E i \in 1..Len(log[q]) : log[q][i] = m /\ <<q, i>> \notin handled
            BY <4>3 DEF Unhandled
          <5>2. PICK i \in 1..Len(log[q]) : log[q][i] = m /\ <<q, i>> \notin handled
            BY <5>1
          <5>3. <<q, i>> \notin handled'
            BY <5>2, <4>3, <3>3
          <5>4. Len(log'[q]) \in Nat
            BY <3>2, LenProperties
          <5>5. i \in 1..Len(log'[q]) /\ log'[q][i] = m
            BY <5>2, <5>4, <3>2
          <5>6. Unhandled(m)'
            BY <5>3, <5>5 DEF Unhandled
          <5> QED
            BY <5>6
        <4> QED
          BY <4>1, <4>2, <4>3, <3>3 DEF Accounted
      <3>7. CommittedHandled'
        BY <3>3 DEF CommittedHandled, PrefixHandled
      <3> QED
        BY <3>4, <3>5, <3>6, <3>7 DEF Accounted
    <2>3. CASE PrefixHandled(p, o) /\ Commit(p, o)
      BY <2>3, <2>a DEF Commit, LedgerTypeOK, HandledExist, Accounted, Unhandled, Produced,
                        CommittedHandled, PrefixHandled
    <2>4. CASE PrefixHandled(p, o - 1) /\ Transact(p, o)
      <3>1. LedgerTypeOK'
        BY <2>4, <2>a DEF Transact, LedgerTypeOK
      <3>2. HandledExist'
        BY <2>4 DEF Transact, HandledExist
      <3>3. Accounted'
        BY <2>4 DEF Transact, Accounted, Unhandled, Produced
      <3>4. CommittedHandled'
        <4> SUFFICES ASSUME NEW q \in Partitions, NEW i \in 1..committed'[q]
                     PROVE  <<q, i>> \in handled'
          BY DEF CommittedHandled, PrefixHandled
        <4>1. handled' = handled \union {<<p, o>>}
          BY <2>4 DEF Transact
        <4>2. CASE q = p
          <5>1. i \in 1..o
            BY <2>4, <4>2 DEF Transact, LedgerTypeOK
          <5>2. i = o \/ i \in 1..(o - 1)
            BY <5>1, <2>a
          <5> QED
            BY <2>4, <4>1, <4>2, <5>2 DEF PrefixHandled
        <4>3. CASE q # p
          <5>1. i \in 1..committed[q]
            BY <2>4, <4>3 DEF Transact, LedgerTypeOK
          <5> QED
            BY <4>1, <5>1 DEF CommittedHandled, PrefixHandled
        <4> QED
          BY <4>2, <4>3
      <3> QED
        BY <3>1, <3>2, <3>3, <3>4
    <2> QED
      BY <1>2, <2>1, <2>2, <2>3, <2>4 DEF RecordEffect
  <1>3. ASSUME NEW p \in Partitions, NEW S \in SUBSET (1..Len(log[p])), BatchEffect(p, S)
        PROVE  LedgerInv'
    <2>a. \A i \in S : log[p][i] \in Messages /\ i \in Nat
      <3>1. log[p] \in Seq(Messages)
        BY DEF LedgerTypeOK
      <3> QED
        BY <3>1, ElementOfSeq, LenProperties
    <2>b. /\ handled' = handled \union ({p} \X S)
          /\ done' = done \union {log[p][i] : i \in S}
          /\ log' = log /\ dead' = dead
      BY <1>3 DEF BatchEffect, ResolveAll, TransactAll
    <2>1. LedgerTypeOK'
      <3>1. committed' \in [Partitions -> Nat]
        BY <1>3 DEF BatchEffect, ResolveAll, TransactAll, LedgerTypeOK
      <3>2. done' \subseteq Messages
        BY <2>a, <2>b DEF LedgerTypeOK
      <3>3. handled' \subseteq Partitions \X Nat
        BY <2>a, <2>b DEF LedgerTypeOK
      <3> QED
        BY <2>b, <3>1, <3>2, <3>3 DEF LedgerTypeOK
    <2>2. HandledExist'
      <3> SUFFICES ASSUME NEW r \in handled'
                   PROVE  r[2] \in 1..Len(log[r[1]])
        BY <2>b DEF HandledExist
      <3>1. CASE r \in handled
        BY <3>1 DEF HandledExist
      <3>2. CASE r \in {p} \X S
        BY <3>2
      <3> QED
        BY <2>b, <3>1, <3>2
    <2>3. ASSUME NEW m \in Messages, Produced(m)', ~(m \in done'), ~(m \in dead')
          PROVE  Unhandled(m)'
      <3>1. Produced(m) /\ m \notin done /\ m \notin dead
        BY <2>3, <2>b DEF Produced
      <3>2. PICK q \in Partitions : \E i \in 1..Len(log[q]) : log[q][i] = m /\ <<q, i>> \notin handled
        BY <3>1 DEF Accounted, Unhandled
      <3>3. PICK i \in 1..Len(log[q]) : log[q][i] = m /\ <<q, i>> \notin handled
        BY <3>2
      <3>4. <<q, i>> \notin {p} \X S
        BY <3>3, <2>b, <2>3
      <3> QED
        BY <3>3, <3>4, <2>b DEF Unhandled
    <2>4. CommittedHandled'
      <3> SUFFICES ASSUME NEW q \in Partitions, NEW i \in 1..committed'[q]
                   PROVE  <<q, i>> \in handled'
        BY DEF CommittedHandled, PrefixHandled
      <3>1. CASE ResolveAll(p, S)
        BY <2>b, <3>1 DEF ResolveAll, CommittedHandled, PrefixHandled
      <3>2. ASSUME NEW o \in 1..Len(log[p]), \A j \in (1..o) \ S : <<p, j>> \in handled,
                   TransactAll(p, S, o)
            PROVE  <<q, i>> \in handled'
        <4>1. committed' = [committed EXCEPT ![p] = o]
          BY <3>2 DEF TransactAll
        <4>2. CASE q = p
          <5>1. i \in 1..o
            BY <4>1, <4>2 DEF LedgerTypeOK
          <5> QED
            BY <2>b, <3>2, <4>2, <5>1
        <4>3. CASE q # p
          <5>1. i \in 1..committed[q]
            BY <4>1, <4>3 DEF LedgerTypeOK
          <5> QED
            BY <2>b, <5>1 DEF CommittedHandled, PrefixHandled
        <4> QED
          BY <4>2, <4>3
      <3> QED
        BY <1>3, <3>1, <3>2 DEF BatchEffect
    <2> QED
      BY <2>1, <2>2, <2>3, <2>4 DEF Accounted
  <1> QED
    BY <1>1, <1>2, <1>3 DEF PromiseNext

-----------------------------------------------------------------------------
(* The ledger only grows: what an earlier state knew of it stays true. *)

Grows ==
    /\ \A q \in Partitions : /\ Len(log[q]) \in Nat /\ Len(log'[q]) \in Nat
                             /\ Len(log[q]) <= Len(log'[q])
    /\ handled \subseteq handled'

\* No record is rewritten.
Kept == \A q \in Partitions : \A i \in 1..Len(log[q]) : log'[q][i] = log[q][i]

LEMMA LedgerGrows ==
  ASSUME LedgerInv, [PromiseNext]_ledger
  PROVE  LedgerInv' /\ LedgerTypeOK' /\ Grows /\ Kept
  <1>1. LedgerInv' /\ LedgerTypeOK /\ LedgerTypeOK'
    BY LedgerStepInv DEF LedgerInv
  <1>2. \A q \in Partitions : Len(log[q]) \in Nat /\ Len(log'[q]) \in Nat
    BY <1>1, LenProperties DEF LedgerTypeOK
  <1>3. CASE UNCHANGED ledger
    BY <1>1, <1>2, <1>3 DEF Grows, Kept, ledger
  <1>4. ASSUME NEW p \in Partitions, NEW o \in 1..Len(log[p]), RecordEffect(p, o)
        PROVE  Grows /\ Kept
    <2>1. CASE \E t \in NextLevel(p) : Copy(p, o, t) \/ Hop(p, o, t)
      <3>1. PICK t \in NextLevel(p) : Copy(p, o, t) \/ Hop(p, o, t)
        BY <2>1
      <3>2. t \in Partitions /\ log[p] \in Seq(Messages)
        BY <1>1 DEF NextLevel, LedgerTypeOK
      <3>3. log[p][o] \in Messages
        BY <3>2, ElementOfSeq
      <3>4. log' = [log EXCEPT ![t] = Append(@, log[p][o])]
        BY <3>1 DEF Copy, Hop
      <3>5. Kept /\ \A q \in Partitions : Len(log[q]) <= Len(log'[q])
        BY <1>1, <3>2, <3>3, <3>4, AppendKeeps DEF Kept
      <3> QED
        BY <1>2, <3>1, <3>5 DEF Grows, Copy, Hop
    <2>2. CASE log' = log /\ handled \subseteq handled'
      BY <1>2, <2>2 DEF Grows, Kept
    <2> QED
      BY <1>4, <2>1, <2>2 DEF RecordEffect, Resolve, CopyToDlq, DeadLetter, Commit, Transact
  <1>5. ASSUME NEW p \in Partitions, NEW S \in SUBSET (1..Len(log[p])), BatchEffect(p, S)
        PROVE  Grows /\ Kept
    <2>1. log' = log /\ handled \subseteq handled'
      BY <1>5 DEF BatchEffect, ResolveAll, TransactAll
    <2> QED
      BY <1>2, <2>1 DEF Grows, Kept
  <1> QED
    BY <1>1, <1>3, <1>4, <1>5 DEF PromiseNext

-----------------------------------------------------------------------------
(* The promise keeps every message. *)

LEMMA LedgerInvNothingLost == LedgerInv => NothingLost
  <1> SUFFICES ASSUME LedgerInv, NEW m \in Messages, Produced(m), m \notin done, m \notin dead
               PROVE  Uncommitted(m)
    BY DEF NothingLost
  <1>1. PICK p \in Partitions : \E o \in 1..Len(log[p]) : log[p][o] = m /\ <<p, o>> \notin handled
    BY DEF LedgerInv, Accounted, Unhandled
  <1>2. committed[p] \in Nat /\ Len(log[p]) \in Nat
    BY LenProperties DEF LedgerInv, LedgerTypeOK
  <1>3. PICK o \in 1..Len(log[p]) : log[p][o] = m /\ <<p, o>> \notin handled
    BY <1>1
  <1>4. o > committed[p]
    BY <1>2, <1>3 DEF LedgerInv, CommittedHandled, PrefixHandled
  <1> QED
    BY <1>2, <1>3, <1>4 DEF Uncommitted

\* At-least-once follows from the promise: an offset that only moves past
\* records whose handler returned or whose hop was acknowledged loses nothing.
THEOREM PromiseKeepsMessages == PromiseSpec => []NothingLost
  <1>1. LedgerInit => LedgerInv
    BY LedgerInitInv
  <1>2. LedgerInv /\ [PromiseNext]_ledger => LedgerInv'
    BY LedgerStepInv
  <1>3. LedgerInv => NothingLost
    BY LedgerInvNothingLost
  <1> QED
    BY <1>1, <1>2, <1>3, PTL DEF PromiseSpec
=============================================================================
