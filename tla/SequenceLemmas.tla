--------------------------- MODULE SequenceLemmas ---------------------------
(***************************************************************************)
(* What the proofs about queues need of sequences: a queue and the history *)
(* of what has left it, one behind the other, are what was ever put in.    *)
(* And induction over the natural numbers, in terms of sets: the provers   *)
(* can instantiate no theorem that has a predicate as a parameter.         *)
(***************************************************************************)
EXTENDS Integers, Sequences, SequenceTheorems, WellFoundedInduction, TLAPS

(***************************************************************************)
(* Pushing a value at the back of the queue extends, at the back, the      *)
(* history of what was ever pushed.                                        *)
(***************************************************************************)
LEMMA AppendConcat ==
  ASSUME NEW S, NEW s \in Seq(S), NEW t \in Seq(S), NEW e \in S
  PROVE  s \o Append(t, e) = Append(s \o t, e)
<1> DEFINE l == Append(s \o t, e)
           r == s \o Append(t, e)
<1>1. /\ s \o t \in Seq(S)
      /\ Len(s \o t) = Len(s) + Len(t)
      /\ \A i \in 1 .. Len(s) + Len(t) :
           (s \o t)[i] = IF i <= Len(s) THEN s[i] ELSE t[i - Len(s)]
  BY ConcatProperties
<1>2. /\ r \in Seq(S)
      /\ Len(r) = Len(s) + Len(t) + 1
      /\ \A i \in 1 .. Len(s) + Len(t) + 1 :
           r[i] = IF i <= Len(s) THEN s[i] ELSE Append(t, e)[i - Len(s)]
  <2>1. Append(t, e) \in Seq(S) /\ Len(Append(t, e)) = Len(t) + 1
    OBVIOUS
  <2>2. QED
    BY <2>1, ConcatProperties
<1>3. l \in Seq(S) /\ Len(l) = Len(r)
  BY <1>1, <1>2
<1>4. \A i \in 1 .. Len(l) : l[i] = r[i]
  BY <1>1, <1>2, <1>3
<1>5. QED
  BY <1>2, <1>3, <1>4, SeqEqual

(***************************************************************************)
(* Moving the front of the queue to the end of what was received leaves    *)
(* their concatenation alone.                                              *)
(***************************************************************************)
LEMMA HeadMoves ==
  ASSUME NEW S, NEW s \in Seq(S), NEW t \in Seq(S), t # << >>
  PROVE  Append(s, Head(t)) \o Tail(t) = s \o t
<1> DEFINE l == Append(s, Head(t)) \o Tail(t)
           r == s \o t
<1>1. /\ r \in Seq(S)
      /\ Len(r) = Len(s) + Len(t)
      /\ \A i \in 1 .. Len(s) + Len(t) :
           r[i] = IF i <= Len(s) THEN s[i] ELSE t[i - Len(s)]
  BY ConcatProperties
<1>2. /\ Append(s, Head(t)) \in Seq(S)
      /\ Len(Append(s, Head(t))) = Len(s) + 1
      /\ Tail(t) \in Seq(S)
      /\ Len(Tail(t)) = Len(t) - 1
  BY HeadTailProperties
<1>3. /\ l \in Seq(S)
      /\ Len(l) = Len(s) + Len(t)
      /\ \A i \in 1 .. Len(s) + Len(t) :
           l[i] = IF i <= Len(s) + 1 THEN Append(s, Head(t))[i] ELSE Tail(t)[i - (Len(s) + 1)]
  BY <1>2, ConcatProperties
<1>4. \A i \in 1 .. Len(l) : l[i] = r[i]
  BY <1>1, <1>3, HeadTailProperties
<1>5. QED
  BY <1>1, <1>3, <1>4, SeqEqual

-----------------------------------------------------------------------------
\* A set of natural numbers that is not empty has a least element.
LEMMA LeastNatural ==
  ASSUME NEW T \in SUBSET Nat, T # {}
  PROVE  \E x \in T : \A y \in T : x <= y
<1>1. IsWellFoundedOn(OpToRel(<, Nat), Nat)
  BY NatLessThanWellFounded
<1>2. \A x, y \in Nat : <<y, x>> \in OpToRel(<, Nat) <=> y < x
  BY DEF OpToRel
<1>3. PICK R : IsWellFoundedOn(R, Nat) /\ \A x, y \in Nat : <<y, x>> \in R <=> y < x
  BY <1>1, <1>2, Zenon
<1>4. PICK x \in T : \A y \in T : ~(<<y, x>> \in R)
  BY <1>3, WFMin, Zenon
<1>5. ASSUME NEW y \in T PROVE x <= y
  <2>1. x \in Nat /\ y \in Nat
    OBVIOUS
  <2>2. ~(y < x)
    BY <1>3, <1>4, <2>1, Zenon
  <2> QED
    BY ONLY <2>1, <2>2, SMT
<1> QED
  BY <1>5

\* Induction: a set that has 0, and with every n also n + 1, has every natural number.
LEMMA NaturalsBySteps ==
  ASSUME NEW G \in SUBSET Nat, 0 \in G, \A n \in G : n + 1 \in G
  PROVE  \A n \in Nat : n \in G
<1> SUFFICES ASSUME Nat \ G # {} PROVE FALSE
  OBVIOUS
<1>1. PICK x \in Nat \ G : \A y \in Nat \ G : x <= y
  BY LeastNatural
<1>2. x # 0 /\ x - 1 \in Nat /\ x - 1 \in G
  BY <1>1
<1> QED
  BY <1>2

\* The same from the top of an interval down to its bottom.
LEMMA IntervalDownwards ==
  ASSUME NEW lo \in Int, NEW hi \in Int, NEW G, hi \in G,
         \A n \in lo + 1..hi : n \in G => n - 1 \in G
  PROVE  \A n \in lo..hi : n \in G
<1> DEFINE K == {k \in Nat : hi - k >= lo => hi - k \in G}
<1>1. 0 \in K
  OBVIOUS
<1>2. ASSUME NEW k \in K PROVE k + 1 \in K
  <2>1. CASE hi - (k + 1) >= lo
    <3>1. hi - k \in lo + 1..hi /\ hi - k \in G /\ (hi - k) - 1 = hi - (k + 1) /\ k \in Nat
      BY <1>2, <2>1
    <3> QED
      BY <3>1
  <2> QED
    BY <2>1
<1> HIDE DEF K
<1>3. \A k \in Nat : k \in K
  BY <1>1, <1>2, NaturalsBySteps DEF K
<1>4. ASSUME NEW n \in lo..hi PROVE n \in G
  <2>1. hi - n \in Nat /\ hi - (hi - n) = n /\ n >= lo
    OBVIOUS
  <2>2. hi - n \in K
    BY <1>3, <2>1
  <2> QED
    BY <2>1, <2>2 DEF K
<1> QED
  BY <1>4
=============================================================================
