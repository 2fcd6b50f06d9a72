------------------------- MODULE EventPipeline_proofs -------------------------
(***************************************************************************)
(* Proofs about EventPipeline, for every number of events, queue, batch    *)
(* and attempt limit.  The inductive invariant has two layers: Tables is   *)
(* what the tables and the lines of the workers look like, Flow is that    *)
(* every stored event is done, in line or still with the durable worker,   *)
(* and that each stage works in the order of raw_chain_events.             *)
(***************************************************************************)
EXTENDS EventPipeline, WellFoundedInduction, TLAPS

-----------------------------------------------------------------------------
(* Induction over the naturals with the property given as a set: the induction *)
(* theorems of the library take it as an operator, which the backends cannot  *)
(* instantiate; that the order is well founded is stated without one, so a    *)
(* least counterexample can be taken.                                         *)

LessThan == {r \in Nat \X Nat : r[1] < r[2]}

(* The naturals are well founded. *)
LEMMA NatWF == IsWellFoundedOn(LessThan, Nat)
  BY NatLessThanWellFounded DEF OpToRel, LessThan

(* A set of naturals that is not empty has a least element. *)
LEMMA LeastElement ==
    ASSUME NEW T \in SUBSET Nat, T # {}
    PROVE  \E x \in T : \A y \in T : ~(y < x)
<1>2. PICK x \in T : \A y \in T : ~(<<y, x>> \in LessThan)
  BY NatWF, WFMin
<1>3. \A y \in T : <<y, x>> \in LessThan <=> y < x
  BY DEF LessThan
<1> QED BY <1>2, <1>3

(* Induction over the naturals, with the property as a set. *)
LEMMA SetInduction ==
    ASSUME NEW S \in SUBSET Nat, 0 \in S, \A n \in S : n + 1 \in S
    PROVE  S = Nat
<1> SUFFICES ASSUME Nat \ S # {} PROVE FALSE
  OBVIOUS
<1>1. PICK x \in Nat \ S : \A y \in Nat \ S : ~(y < x)
  BY LeastElement
<1>2. x # 0 /\ x - 1 \in Nat /\ x - 1 < x
  OBVIOUS
<1>3. x - 1 \in S
  BY <1>1, <1>2
<1> QED BY <1>2, <1>3

-----------------------------------------------------------------------------

(* S has, with a stored event, every event stored before it. *)
Closed(S, r) == \A i, j \in 1..Len(r) : i < j /\ r[j] \in S => r[i] \in S

(* The first k elements. *)
Prefix(s, k) == {s[i] : i \in 1..k}

(* What the first k batches in line for a stage will add to what it has     *)
(* done.                                                                    *)
Heads(qs, k) == UNION {Range(qs[i]) : i \in 1..k}
Line(done, b, qs, k) == done \cup Range(b) \cup Heads(qs, k)

-----------------------------------------------------------------------------
(* Sequences *)

(* The range of a sequence is the set of its elements. *)
LEMMA RangeIs == ASSUME NEW S, NEW s \in Seq(S)
                 PROVE  /\ Range(s) = {s[i] : i \in 1..Len(s)}
                        /\ Range(s) = Prefix(s, Len(s))
                        /\ Range(s) \subseteq S
                        /\ \A i \in 1..Len(s) : s[i] \in Range(s)
  BY DEF Range, Prefix

(* The empty sequence has an empty range. *)
LEMMA RangeEmpty == Range(<<>>) = {}
  BY DEF Range

(* Appending adds one element to the range. *)
LEMMA RangeAppend == ASSUME NEW S, NEW s \in Seq(S), NEW x \in S
                     PROVE  Range(Append(s, x)) = Range(s) \cup {x}
<1> DEFINE t == Append(s, x)
<1>1. t \in Seq(S) /\ Len(t) = Len(s) + 1 /\ t[Len(s) + 1] = x /\ \A i \in 1..Len(s) : t[i] = s[i]
  OBVIOUS
<1> HIDE DEF t
<1>2. Range(t) = {t[i] : i \in 1..Len(t)} /\ Range(s) = {s[i] : i \in 1..Len(s)}
  BY <1>1, RangeIs
<1>3. \A i \in 1..Len(t) : i \in 1..Len(s) \/ i = Len(s) + 1
  BY <1>1
<1>4. Len(s) \in Nat
  OBVIOUS
<1> QED BY <1>1, <1>2, <1>3, <1>4 DEF t

(* The range of a concatenation is the union of the ranges. *)
LEMMA RangeConcat == ASSUME NEW S, NEW s \in Seq(S), NEW t \in Seq(S)
                     PROVE  Range(s \o t) = Range(s) \cup Range(t)
<1> DEFINE u == s \o t
<1>1. /\ u \in Seq(S) /\ Len(u) = Len(s) + Len(t)
      /\ \A i \in 1..Len(s) : u[i] = s[i]
      /\ \A i \in 1..Len(t) : u[Len(s) + i] = t[i]
  OBVIOUS
<1> HIDE DEF u
<1>2. Range(u) = {u[i] : i \in 1..Len(u)} /\ Range(s) = {s[i] : i \in 1..Len(s)}
      /\ Range(t) = {t[i] : i \in 1..Len(t)}
  BY <1>1, RangeIs
<1>3. Len(s) \in Nat /\ Len(t) \in Nat
  OBVIOUS
<1>4. \A i \in 1..Len(u) : i \in 1..Len(s) \/ (i - Len(s) \in 1..Len(t) /\ Len(s) + (i - Len(s)) = i)
  BY <1>1, <1>3
<1>5. Range(u) \subseteq Range(s) \cup Range(t)
  <2> SUFFICES ASSUME NEW i \in 1..Len(u) PROVE u[i] \in Range(s) \cup Range(t)
    BY <1>2
  <2>1. CASE i \in 1..Len(s)
    BY <1>1, <1>2, <2>1
  <2>2. CASE i - Len(s) \in 1..Len(t) /\ Len(s) + (i - Len(s)) = i
    <3>1. u[i] = t[i - Len(s)]
      BY <1>1, <2>2
    <3> QED BY <1>2, <2>2, <3>1
  <2> QED BY <1>4, <2>1, <2>2
<1>6. \A i \in 1..Len(s) : i \in 1..Len(u)
  BY <1>1, <1>3
<1>7. \A i \in 1..Len(t) : Len(s) + i \in 1..Len(u)
  BY <1>1, <1>3
<1>8. Range(s) \cup Range(t) \subseteq Range(u)
  BY <1>1, <1>2, <1>6, <1>7
<1> QED BY <1>5, <1>8 DEF u

(* A prefix of a sequence is its head and a prefix of its tail. *)
LEMMA RangeTail == ASSUME NEW S, NEW s \in Seq(S), s # <<>>, NEW k \in 0..(Len(s) - 1)
                   PROVE  /\ Tail(s) \in Seq(S) /\ Len(Tail(s)) = Len(s) - 1 /\ Head(s) \in S
                          /\ Prefix(s, k + 1) = {Head(s)} \cup Prefix(Tail(s), k)
                          /\ Range(s) = {Head(s)} \cup Range(Tail(s))
<1> DEFINE t == Tail(s)
<1>1. /\ t \in Seq(S) /\ Len(t) = Len(s) - 1 /\ Head(s) = s[1] /\ Len(s) \in Nat /\ Len(s) > 0
      /\ \A i \in 1..(Len(s) - 1) : t[i] = s[i + 1]
  OBVIOUS
<1> HIDE DEF t
<1>2. ASSUME NEW m \in 0..(Len(s) - 1)
      PROVE  {s[i] : i \in 1..(m + 1)} = {Head(s)} \cup {t[i] : i \in 1..m}
  <2>1. \A i \in 1..(m + 1) : i = 1 \/ (i - 1 \in 1..m /\ t[i - 1] = s[i])
    BY <1>1
  <2>2. \A i \in 1..m : i + 1 \in 1..(m + 1) /\ t[i] = s[i + 1]
    BY <1>1
  <2>3. 1 \in 1..(m + 1)
    OBVIOUS
  <2>4. {s[i] : i \in 1..(m + 1)} \subseteq {Head(s)} \cup {t[i] : i \in 1..m}
    <3>1. Head(s) = s[1]
      BY <1>1
    <3>2. \A i \in 1..(m + 1) : s[i] = Head(s) \/ \E j \in 1..m : s[i] = t[j]
      BY <2>1, <3>1
    <3> QED BY <3>2, Zenon
  <2>5. {Head(s)} \cup {t[i] : i \in 1..m} \subseteq {s[i] : i \in 1..(m + 1)}
    BY <1>1, <2>2, <2>3
  <2> QED BY <2>4, <2>5
<1>3. Len(s) - 1 \in 0..(Len(s) - 1) /\ (Len(s) - 1) + 1 = Len(s)
  BY <1>1
<1>4. Range(s) = {s[i] : i \in 1..Len(s)} /\ Range(t) = {t[i] : i \in 1..Len(t)}
  BY <1>1, RangeIs
<1>5. {s[i] : i \in 1..Len(s)} = {Head(s)} \cup {t[i] : i \in 1..(Len(s) - 1)}
  BY <1>2, <1>3
<1>6. Head(s) \in S
  BY <1>1
<1>7. Prefix(s, k + 1) = {Head(s)} \cup Prefix(t, k)
  BY <1>2 DEF Prefix
<1> QED BY <1>1, <1>4, <1>5, <1>6, <1>7 DEF t

(* FirstOf has the elements of s that are in A, each once, and what it has  *)
(* up to a place is what a prefix of s has.                                 *)
LEMMA FirstOfIs ==
    ASSUME NEW S, NEW s \in Seq(S), NEW A
    PROVE  /\ FirstOf(s, A) \in Seq(S)
           /\ Range(FirstOf(s, A)) = Range(s) \cap A
           /\ IsInjective(FirstOf(s, A))
           /\ \A k \in 0..Len(FirstOf(s, A)) : \E j \in 0..Len(s) :
                  Prefix(FirstOf(s, A), k) = A \cap Prefix(s, j)
<1> DEFINE D == 0..Len(s)
           Step(t, i) == IF s[i] \in A \ Range(t) THEN Append(t, s[i]) ELSE t
           IsF(g, n) == g = [i \in 0..n |-> g[i]] /\ g[0] = <<>> /\ \A i \in 1..n : g[i] = Step(g[i - 1], i)
           F == CHOOSE g : g = [i \in D |-> IF i = 0 THEN <<>>
                         ELSE IF s[i] \in A \ Range(g[i - 1]) THEN Append(g[i - 1], s[i]) ELSE g[i - 1]]
           Good(t, n) == /\ t \in Seq(S)
                         /\ Range(t) = A \cap Prefix(s, n)
                         /\ IsInjective(t)
                         /\ \A k \in 0..Len(t) : \E j \in 0..n : Prefix(t, k) = A \cap Prefix(s, j)
<1>1. FirstOf(s, A) = F[Len(s)]
  BY DEF FirstOf
<1>2. \E g : IsF(g, Len(s))
  <2> DEFINE Q == {n \in Nat : \E g : IsF(g, n)}
  <2>1. 0 \in Q
    <3>1. IsF([i \in 0..0 |-> <<>>], 0)
      OBVIOUS
    <3> QED BY <3>1
  <2>2. ASSUME NEW n \in Q PROVE n + 1 \in Q
    <3>1. PICK g : IsF(g, n)
      BY <2>2
    <3> DEFINE h == [i \in 0..(n + 1) |-> IF i = n + 1 THEN Step(g[n], n + 1) ELSE g[i]]
    <3>2. n \in Nat
      BY <2>2
    <3>3. \A i \in 0..n : h[i] = g[i]
      BY <3>2
    <3>4. h[n + 1] = Step(g[n], n + 1) /\ h[n] = g[n]
      BY <3>2
    <3>5. h = [i \in 0..(n + 1) |-> h[i]]
      OBVIOUS
    <3> HIDE DEF h, Step
    <3>6. \A i \in 1..(n + 1) : i = n + 1 \/ (i \in 1..n /\ i \in 0..n /\ i - 1 \in 0..n)
      BY <3>2
    <3>7. IsF(h, n + 1)
      <4>1. h[0] = <<>>
        BY <3>1, <3>2, <3>3
      <4>2. ASSUME NEW i \in 1..(n + 1) PROVE h[i] = Step(h[i - 1], i)
        <5>1. CASE i = n + 1
          BY <3>2, <3>4, <5>1
        <5>2. CASE i # n + 1
          BY <3>1, <3>3, <3>6, <5>2
        <5> QED BY <5>1, <5>2
      <4> QED BY <3>5, <4>1, <4>2
    <3> HIDE DEF IsF
    <3> QED BY <3>2, <3>7
  <2> HIDE DEF Q
  <2>3. Q \in SUBSET Nat
    BY DEF Q
  <2>4. Q = Nat
    BY <2>1, <2>2, <2>3, SetInduction
  <2>5. Len(s) \in Nat
    OBVIOUS
  <2> QED BY <2>4, <2>5 DEF Q
<1>3. IsF(F, Len(s))
  <2>1. PICK g : IsF(g, Len(s))
    BY <1>2
  <2>2a. \A i \in D : i = 0 \/ i \in 1..Len(s)
    OBVIOUS
  <2>2. g = [i \in D |-> IF i = 0 THEN <<>>
                         ELSE IF s[i] \in A \ Range(g[i - 1]) THEN Append(g[i - 1], s[i]) ELSE g[i - 1]]
    BY <2>1, <2>2a
  <2>3. F = [i \in D |-> IF i = 0 THEN <<>>
                         ELSE IF s[i] \in A \ Range(F[i - 1]) THEN Append(F[i - 1], s[i]) ELSE F[i - 1]]
    BY <2>2
  <2> HIDE DEF F
  <2>4. Len(s) \in Nat /\ 0 \in D /\ \A i \in 1..Len(s) : i \in D /\ i # 0
    OBVIOUS
  <2>5. F[0] = <<>> /\ \A i \in 1..Len(s) : F[i] = Step(F[i - 1], i)
    BY <2>3, <2>4
  <2> QED BY <2>3, <2>5
<1> HIDE DEF F
<1>4. ASSUME NEW t, NEW n \in Nat, n < Len(s), Good(t, n) PROVE Good(Step(t, n + 1), n + 1)
  <2>1. s[n + 1] \in S /\ Prefix(s, n + 1) = Prefix(s, n) \cup {s[n + 1]}
    <3>1. n + 1 \in 1..Len(s)
      BY <1>4
    <3>2. \A i \in 1..(n + 1) : i \in 1..n \/ i = n + 1
      OBVIOUS
    <3>3. \A i \in 1..n : i \in 1..(n + 1)
      OBVIOUS
    <3> QED BY <3>1, <3>2, <3>3 DEF Prefix
  <2>2. t \in Seq(S) /\ Range(t) = A \cap Prefix(s, n) /\ IsInjective(t) /\ Len(t) \in Nat
        /\ \A k \in 0..Len(t) : \E j \in 0..n : Prefix(t, k) = A \cap Prefix(s, j)
    BY <1>4
  <2>3. CASE s[n + 1] \in A \ Range(t)
    <3> DEFINE u == Append(t, s[n + 1])
    <3>1. /\ u \in Seq(S) /\ Len(u) = Len(t) + 1 /\ u[Len(t) + 1] = s[n + 1]
          /\ \A i \in 1..Len(t) : u[i] = t[i]
      BY <2>1, <2>2
    <3>2. Range(u) = Range(t) \cup {s[n + 1]}
      BY <2>1, <2>2, RangeAppend
    <3>3. DOMAIN u = 1..Len(u) /\ DOMAIN t = 1..Len(t)
      BY <2>2, <3>1
    <3>4. Step(t, n + 1) = u
      BY <2>3
    <3> HIDE DEF u
    <3>5. Range(u) = A \cap Prefix(s, n + 1)
      BY <2>1, <2>2, <2>3, <3>2
    <3>6. IsInjective(u)
      <4>1. \A i \in 1..Len(t) : t[i] \in Range(t)
        BY <3>3 DEF Range
      <4>2. \A i \in 1..Len(u) : i \in 1..Len(t) \/ i = Len(t) + 1
        BY <2>2, <3>1
      <4>3. SUFFICES ASSUME NEW a \in 1..Len(u), NEW b \in 1..Len(u), u[a] = u[b] PROVE a = b
        BY <3>3 DEF IsInjective
      <4>4. CASE a \in 1..Len(t) /\ b \in 1..Len(t)
        BY <2>2, <3>1, <3>3, <4>3, <4>4 DEF IsInjective
      <4>5. CASE a = Len(t) + 1 /\ b \in 1..Len(t)
        BY <2>3, <3>1, <4>1, <4>3, <4>5
      <4>6. CASE b = Len(t) + 1 /\ a \in 1..Len(t)
        BY <2>3, <3>1, <4>1, <4>3, <4>6
      <4> QED BY <4>2, <4>3, <4>4, <4>5, <4>6
    <3>7. ASSUME NEW k \in 0..Len(u) PROVE \E j \in 0..(n + 1) : Prefix(u, k) = A \cap Prefix(s, j)
      <4>1. CASE k \in 0..Len(t)
        <5>1. Prefix(u, k) = Prefix(t, k)
          <6>1. \A i \in 1..k : u[i] = t[i]
            BY <2>2, <3>1, <4>1
          <6> QED BY <6>1 DEF Prefix
        <5>2. PICK j \in 0..n : Prefix(t, k) = A \cap Prefix(s, j)
          BY <2>2, <4>1
        <5>3. j \in 0..(n + 1)
          OBVIOUS
        <5> QED BY <5>1, <5>2, <5>3
      <4>2. CASE k = Len(u)
        <5>1. Prefix(u, k) = Range(u)
          BY <3>1, <4>2, RangeIs
        <5>2. n + 1 \in 0..(n + 1)
          OBVIOUS
        <5> QED BY <3>5, <5>1, <5>2
      <4> QED BY <2>2, <3>1, <4>1, <4>2
    <3> QED BY <3>1, <3>4, <3>5, <3>6, <3>7
  <2>4. CASE s[n + 1] \notin A \ Range(t)
    <3>1. Step(t, n + 1) = t
      BY <2>4
    <3>2. A \cap Prefix(s, n + 1) = A \cap Prefix(s, n)
      BY <2>1, <2>2, <2>4
    <3>3. \A j \in 0..n : j \in 0..(n + 1)
      OBVIOUS
    <3>4. \A k \in 0..Len(t) : \E j \in 0..(n + 1) : Prefix(t, k) = A \cap Prefix(s, j)
      BY <2>2, <3>3
    <3> QED BY <2>2, <3>1, <3>2, <3>4
  <2> QED BY <2>3, <2>4
<1>5. Good(<<>>, 0)
  <2>1. <<>> \in Seq(S) /\ Len(<<>>) = 0 /\ DOMAIN <<>> = {}
    OBVIOUS
  <2>2. Range(<<>>) = {} /\ IsInjective(<<>>)
    BY <2>1 DEF Range, IsInjective
  <2>3. Prefix(s, 0) = {} /\ Prefix(<<>>, 0) = {}
    BY DEF Prefix
  <2>4. ASSUME NEW k \in 0..Len(<<>>) PROVE \E j \in 0..0 : Prefix(<<>>, k) = A \cap Prefix(s, j)
    <3>1. k = 0
      BY <2>1
    <3>2. Prefix(<<>>, 0) = A \cap Prefix(s, 0) /\ 0 \in 0..0
      BY <2>3
    <3> QED BY <3>1, <3>2
  <2> QED BY <2>1, <2>2, <2>3, <2>4
<1> HIDE DEF Good, Step
<1>6. Good(F[Len(s)], Len(s))
  <2> DEFINE Q == {n \in Nat : n <= Len(s) => Good(F[n], n)}
  <2>1. 0 \in Q
    BY <1>3, <1>5
  <2>2. ASSUME NEW n \in Q PROVE n + 1 \in Q
    <3>1. SUFFICES ASSUME n + 1 <= Len(s) PROVE Good(F[n + 1], n + 1)
      OBVIOUS
    <3>2. n \in Nat /\ n < Len(s) /\ Good(F[n], n) /\ n + 1 \in 1..Len(s) /\ (n + 1) - 1 = n
      BY <2>2, <3>1
    <3>3. F[n + 1] = Step(F[n], n + 1)
      BY <1>3, <3>2
    <3> QED BY <1>4, <3>2, <3>3
  <2> HIDE DEF Q
  <2>3. Q \in SUBSET Nat
    BY DEF Q
  <2>4. Q = Nat
    BY <2>1, <2>2, <2>3, SetInduction
  <2>5. Len(s) \in Nat
    OBVIOUS
  <2> QED BY <2>4, <2>5 DEF Q
<1>7. Range(s) = Prefix(s, Len(s))
  BY RangeIs
<1> QED BY <1>1, <1>6, <1>7 DEF Good

(* Joining batches joins their elements. *)
LEMMA FlattenIs ==
    ASSUME NEW S, NEW qs \in Seq(Seq(S)), Len(qs) > 0
    PROVE  FlattenSeq(qs) \in Seq(S) /\ Range(FlattenSeq(qs)) = Heads(qs, Len(qs))
<1> DEFINE D == 1..Len(qs)
           IsF(g, n) == g = [i \in 1..n |-> g[i]] /\ \A i \in 1..n : g[i] = IF i = 1 THEN qs[i] ELSE g[i - 1] \o qs[i]
           F == CHOOSE g : g = [i \in D |-> IF i = 1 THEN qs[i] ELSE g[i - 1] \o qs[i]]
           Good(t, n) == t \in Seq(S) /\ Range(t) = Heads(qs, n)
<1>1. FlattenSeq(qs) = F[Len(qs)]
  BY DEF FlattenSeq
<1>2. \E g : IsF(g, Len(qs))
  <2> DEFINE Q == {n \in Nat : \E g : IsF(g, n)}
  <2>1. 0 \in Q
    <3>1. IsF([i \in 1..0 |-> <<>>], 0)
      OBVIOUS
    <3> QED BY <3>1
  <2>2. ASSUME NEW n \in Q PROVE n + 1 \in Q
    <3>1. PICK g : IsF(g, n)
      BY <2>2
    <3> DEFINE v == IF n + 1 = 1 THEN qs[n + 1] ELSE g[n] \o qs[n + 1]
               h == [i \in 1..(n + 1) |-> IF i = n + 1 THEN v ELSE g[i]]
    <3>2. n \in Nat
      BY <2>2
    <3>3. \A i \in 1..n : h[i] = g[i]
      BY <3>2
    <3>4. h[n + 1] = v
      BY <3>2
    <3>5. h = [i \in 1..(n + 1) |-> h[i]]
      OBVIOUS
    <3> HIDE DEF h
    <3>6. \A i \in 1..(n + 1) : i = n + 1 \/ (i \in 1..n /\ (i = 1 \/ i - 1 \in 1..n))
      BY <3>2
    <3>7. n + 1 = 1 \/ ((n + 1) - 1 = n /\ n \in 1..n)
      BY <3>2
    <3>8. IsF(h, n + 1)
      <4>2. ASSUME NEW i \in 1..(n + 1) PROVE h[i] = IF i = 1 THEN qs[i] ELSE h[i - 1] \o qs[i]
        <5>1. CASE i = n + 1
          BY <3>2, <3>3, <3>4, <3>7, <5>1
        <5>2. CASE i # n + 1
          BY <3>1, <3>3, <3>6, <5>2
        <5> QED BY <5>1, <5>2
      <4> QED BY <3>5, <4>2
    <3> HIDE DEF IsF
    <3> QED BY <3>2, <3>8
  <2> HIDE DEF Q
  <2>3. Q \in SUBSET Nat
    BY DEF Q
  <2>4. Q = Nat
    BY <2>1, <2>2, <2>3, SetInduction
  <2>5. Len(qs) \in Nat
    OBVIOUS
  <2> QED BY <2>4, <2>5 DEF Q
<1>3. \A i \in 1..Len(qs) : F[i] = IF i = 1 THEN qs[i] ELSE F[i - 1] \o qs[i]
  <2>1. PICK g : IsF(g, Len(qs))
    BY <1>2
  <2>2. g = [i \in D |-> IF i = 1 THEN qs[i] ELSE g[i - 1] \o qs[i]]
    BY <2>1
  <2>3. F = [i \in D |-> IF i = 1 THEN qs[i] ELSE F[i - 1] \o qs[i]]
    BY <2>2
  <2> HIDE DEF F
  <2> QED BY <2>3
<1> HIDE DEF F
<1>4. \A i \in 1..Len(qs) : qs[i] \in Seq(S)
  OBVIOUS
<1>5. \A n \in Nat : Heads(qs, n + 1) = Heads(qs, n) \cup Range(qs[n + 1])
  <2> SUFFICES ASSUME NEW n \in Nat PROVE Heads(qs, n + 1) = Heads(qs, n) \cup Range(qs[n + 1])
    OBVIOUS
  <2>1. 1..(n + 1) = 1..n \cup {n + 1}
    OBVIOUS
  <2> QED BY <2>1, Zenon DEF Heads
<1>6. Heads(qs, 0) = {}
  <2>1. 1..0 = {}
    OBVIOUS
  <2> QED BY <2>1, Zenon DEF Heads
<1> DEFINE Q == {n \in Nat : n + 1 <= Len(qs) => Good(F[n + 1], n + 1)}
<1>7. 0 \in Q
  <2>1. 1 \in 1..Len(qs) /\ 0 + 1 = 1
    OBVIOUS
  <2>2. F[1] = qs[1]
    BY <1>3, <2>1
  <2>3. Heads(qs, 1) = Range(qs[1])
    BY <1>5, <1>6, <2>1
  <2> QED BY <1>4, <2>1, <2>2, <2>3
<1>8. ASSUME NEW n \in Q PROVE n + 1 \in Q
  <2>1. SUFFICES ASSUME n + 2 <= Len(qs) PROVE Good(F[n + 2], n + 2)
    BY <1>8
  <2>2. n \in Nat /\ Good(F[n + 1], n + 1) /\ n + 2 \in 1..Len(qs) /\ (n + 2) - 1 = n + 1 /\ n + 2 # 1
        /\ (n + 1) + 1 = n + 2 /\ n + 1 \in Nat
    BY <1>8, <2>1
  <2>3. F[n + 2] = F[n + 1] \o qs[n + 2]
    BY <1>3, <2>2
  <2>4. qs[n + 2] \in Seq(S) /\ F[n + 1] \in Seq(S)
    BY <1>4, <2>2
  <2>5. Range(F[n + 1] \o qs[n + 2]) = Range(F[n + 1]) \cup Range(qs[n + 2])
    BY <2>4, RangeConcat
  <2>6. F[n + 1] \o qs[n + 2] \in Seq(S)
    BY <2>4
  <2>7. Heads(qs, n + 2) = Heads(qs, n + 1) \cup Range(qs[n + 2])
    BY <1>5, <2>2
  <2> QED BY <2>2, <2>3, <2>5, <2>6, <2>7
<1> HIDE DEF Q
<1>9. Q \in SUBSET Nat
  BY DEF Q
<1>10. Q = Nat
  BY <1>7, <1>8, <1>9, SetInduction
<1>11. Len(qs) - 1 \in Nat /\ (Len(qs) - 1) + 1 = Len(qs)
  OBVIOUS
<1>12. Good(F[Len(qs)], Len(qs))
  <2> DEFINE n == Len(qs) - 1
  <2>1. n + 1 <= Len(qs) /\ n \in Q
    BY <1>10, <1>11
  <2> HIDE DEF Good, n
  <2>2. Good(F[n + 1], n + 1)
    BY <2>1 DEF Q
  <2> QED BY <1>11, <2>2 DEF n
<1> QED BY <1>1, <1>12

(* No batches hold no events. *)
LEMMA HeadsNone == ASSUME NEW qs PROVE Heads(qs, 0) = {}
<1>1. 1..0 = {}
  OBVIOUS
<1> QED BY <1>1, Zenon DEF Heads

(* A batch put at the end of a queue leaves the earlier ones as they are. *)
LEMMA HeadsAppend ==
    ASSUME NEW S, NEW qs \in Seq(Seq(S)), NEW b \in Seq(S), NEW k \in 0..Len(qs)
    PROVE  /\ Heads(Append(qs, b), k) = Heads(qs, k)
           /\ Heads(Append(qs, b), Len(qs) + 1) = Heads(qs, Len(qs)) \cup Range(b)
<1> DEFINE u == Append(qs, b)
<1>1. /\ u[Len(qs) + 1] = b /\ Len(qs) \in Nat
      /\ \A i \in 1..Len(qs) : u[i] = qs[i]
  OBVIOUS
<1> HIDE DEF u
<1>2. \A i \in 1..k : u[i] = qs[i]
  <2>1. \A i \in 1..k : i \in 1..Len(qs)
    BY <1>1
  <2> QED BY <1>1, <2>1, Zenon
<1>3. 1..(Len(qs) + 1) = 1..Len(qs) \cup {Len(qs) + 1}
  BY <1>1
<1>4. Heads(u, k) = Heads(qs, k)
  BY <1>2, Zenon DEF Heads
<1>5. Heads(u, Len(qs) + 1) = Heads(qs, Len(qs)) \cup Range(b)
  BY <1>1, <1>3, Zenon DEF Heads
<1> QED BY <1>4, <1>5 DEF u

(* A stage that takes the first c batches leaves the others in line. *)
LEMMA HeadsTake ==
    ASSUME NEW S, NEW qs \in Seq(Seq(S)), NEW c \in 1..Len(qs)
    PROVE  /\ FlattenSeq(SubSeq(qs, 1, c)) \in Seq(S)
           /\ Range(FlattenSeq(SubSeq(qs, 1, c))) = Heads(qs, c)
<1> DEFINE pre == SubSeq(qs, 1, c)
<1>1. pre \in Seq(Seq(S)) /\ Len(pre) = c /\ c > 0 /\ \A i \in 1..c : pre[i] = qs[i]
  OBVIOUS
<1> HIDE DEF pre
<1>2. FlattenSeq(pre) \in Seq(S) /\ Range(FlattenSeq(pre)) = Heads(pre, c)
  BY <1>1, FlattenIs
<1>3. Heads(pre, c) = Heads(qs, c)
  BY <1>1, Zenon DEF Heads
<1> QED BY <1>2, <1>3 DEF pre

Joined(qs, c) == FlattenSeq(SubSeq(qs, 1, c))
After(qs, c) == SubSeq(qs, c + 1, Len(qs))

(* Taking batches off a queue into the worker keeps the order of the line. *)
LEMMA HeadsRest ==
    ASSUME NEW S, NEW qs \in Seq(Seq(S)), NEW c \in 1..Len(qs), NEW k \in 0..(Len(qs) - c), NEW done
    PROVE  /\ After(qs, c) \in Seq(Seq(S)) /\ Len(After(qs, c)) = Len(qs) - c
           /\ Line(done, Joined(qs, c), After(qs, c), k) = Line(done, <<>>, qs, c + k)
<1>0. PICK r, b : r = After(qs, c) /\ b = Joined(qs, c)
  OBVIOUS
<1>1. r \in Seq(Seq(S)) /\ Len(r) = Len(qs) - c /\ \A i \in 1..(Len(qs) - c) : r[i] = qs[c + i]
  BY <1>0 DEF After
<1>2. Heads(qs, c) \cup Heads(r, k) \subseteq Heads(qs, c + k)
  <2>1. \A i \in 1..c : i \in 1..(c + k)
    OBVIOUS
  <2>2. \A i \in 1..k : c + i \in 1..(c + k) /\ i \in 1..(Len(qs) - c)
    OBVIOUS
  <2>3. \A i \in 1..k : r[i] = qs[c + i]
    BY <1>1, <2>2
  <2> QED BY <2>1, <2>2, <2>3, Zenon DEF Heads
<1>3. Heads(qs, c + k) \subseteq Heads(qs, c) \cup Heads(r, k)
  <2>1. \A i \in 1..(c + k) : i \in 1..c \/ (i - c \in 1..k /\ r[i - c] = qs[i])
    <3> SUFFICES ASSUME NEW i \in 1..(c + k), i \notin 1..c PROVE i - c \in 1..k /\ r[i - c] = qs[i]
      OBVIOUS
    <3>1. i - c \in 1..k /\ i - c \in 1..(Len(qs) - c) /\ c + (i - c) = i
      OBVIOUS
    <3> QED BY <1>1, <3>1
  <2> QED BY <2>1, Zenon DEF Heads
<1>4. Range(b) = Heads(qs, c)
  BY <1>0, HeadsTake DEF Joined
<1>5. Line(done, b, r, k) = Line(done, <<>>, qs, c + k)
  BY <1>2, <1>3, <1>4, RangeEmpty DEF Line
<1> QED BY <1>0, <1>1, <1>5

-----------------------------------------------------------------------------
(* Positions in raw_chain_events *)

(* A set of numbers up to n has a greatest one. *)
LEMMA MaxIs ==
    ASSUME NEW n \in Nat, NEW S \in SUBSET (0..n), S # {}
    PROVE  Max(S) \in S /\ \A y \in S : y <= Max(S)
<1> DEFINE T == {n - x : x \in S}
<1>1. T \in SUBSET Nat /\ T # {}
  <2>1. \A x \in S : n - x \in Nat
    OBVIOUS
  <2> QED BY <2>1
<1>2. \A y \in S : n - y \in T
  OBVIOUS
<1>2a. \A z \in T : \E y \in S : z = n - y
  OBVIOUS
<1> HIDE DEF T
<1>3. PICK z \in T : \A y \in T : ~(y < z)
  BY <1>1, LeastElement
<1>4. PICK x \in S : z = n - x
  BY <1>2a
<1>5. \A y \in S : x >= y
  <2> SUFFICES ASSUME NEW y \in S PROVE x >= y
    OBVIOUS
  <2>1. ~(n - y < n - x)
    BY <1>2, <1>3, <1>4
  <2> QED BY <2>1
<1>6. \E m \in S : \A y \in S : m >= y
  BY <1>5
<1>7. Max(S) \in S /\ \A y \in S : Max(S) >= y
  BY <1>6, Zenon DEF Max
<1> QED BY <1>7

(* The ingest sequence of a stored event is where it is, and nowhere else. *)
LEMMA PositionIs ==
    ASSUME raw \in Seq(Events), IsInjective(raw), NEW e \in Stored
    PROVE  /\ Position(e) \in 1..Len(raw) /\ raw[Position(e)] = e
           /\ \A i \in 1..Len(raw) : raw[i] = e => i = Position(e)
<1>1. DOMAIN raw = 1..Len(raw)
  OBVIOUS
<1>2. \E i \in 1..Len(raw) : raw[i] = e
  BY <1>1 DEF Stored, Range
<1>3. Position(e) \in 1..Len(raw) /\ raw[Position(e)] = e
  BY <1>2, Zenon DEF Position
<1> QED BY <1>1, <1>3, Zenon DEF IsInjective

(* A checkpoint moved by a batch lies at its old place or at an event of    *)
(* the batch, and never moves back.                                         *)
LEMMA FurthestIs ==
    ASSUME raw \in Seq(Events), IsInjective(raw), NEW S \in SUBSET Stored, NEW old \in 0..Len(raw)
    PROVE  /\ Furthest(S, old) \in 0..Len(raw) /\ old <= Furthest(S, old)
           /\ \A e \in S : Position(e) <= Furthest(S, old)
           /\ Furthest(S, old) = old \/ \E e \in S : Furthest(S, old) = Position(e)
<1> DEFINE T == {Position(e) : e \in S} \cup {old}
<1>1. \A e \in S : Position(e) \in 1..Len(raw)
  BY PositionIs
<1>2. T \in SUBSET (0..Len(raw)) /\ T # {} /\ Len(raw) \in Nat
  BY <1>1
<1>3. old \in T /\ (\A e \in S : Position(e) \in T) /\ \A x \in T : x = old \/ \E e \in S : x = Position(e)
  OBVIOUS
<1>4. Furthest(S, old) = Max(T)
  BY DEF Furthest
<1> HIDE DEF T
<1>5. Max(T) \in T /\ \A y \in T : y <= Max(T)
  BY <1>2, MaxIs
<1> QED BY <1>2, <1>3, <1>4, <1>5

(* A checkpoint moved to the furthest of a set stays behind what is done.   *)
LEMMA FurthestReached ==
    ASSUME raw \in Seq(Events), IsInjective(raw), NEW S \in SUBSET Stored, NEW old \in 0..Len(raw),
           NEW P, Closed(P, raw), S \subseteq P, \A i \in 1..old : raw[i] \in P
    PROVE  \A i \in 1..Furthest(S, old) : raw[i] \in P
<1> DEFINE m == Furthest(S, old)
<1>1. m \in 0..Len(raw) /\ (m = old \/ \E e \in S : m = Position(e))
  BY FurthestIs
<1> HIDE DEF m
<1>2. CASE m = old
  BY <1>2 DEF m
<1>3. CASE \E e \in S : m = Position(e)
  <2>1. PICK e \in S : m = Position(e)
    BY <1>3
  <2>2. raw[m] = e /\ m \in 1..Len(raw)
    BY <2>1, PositionIs
  <2>3. \A i \in 1..m : i = m \/ (i \in 1..Len(raw) /\ i < m)
    BY <2>2
  <2> QED BY <2>1, <2>2, <2>3 DEF Closed, m
<1> QED BY <1>1, <1>2, <1>3

(* A worker takes at least one batch and no more than there are. *)
LEMMA CollectIs ==
    ASSUME NEW s, q[s] \in Seq(Seq(Events)), q[s] # <<>>
    PROVE  Collect(s) \in 1..Len(q[s])
<1> DEFINE D == 1..Len(q[s])
           S == {k \in D : Fits(s, k)}
<1>1. Len(q[s]) \in Nat /\ 1 \in D
  OBVIOUS
<1>2. S \in SUBSET (0..Len(q[s]))
  BY <1>1
<1>3. 1 \in S
  BY <1>1 DEF Fits
<1>4. \A k \in S : k \in D /\ Fits(s, k)
  OBVIOUS
<1>5. \A j \in D : Fits(s, j) => j \in S
  OBVIOUS
<1> HIDE DEF S
<1>6. Max(S) \in S /\ \A y \in S : y <= Max(S)
  BY <1>1, <1>2, <1>3, MaxIs
<1>7. \E k \in D : Fits(s, k) /\ \A j \in D : Fits(s, j) => j <= k
  BY <1>4, <1>5, <1>6
<1> QED BY <1>7, Zenon DEF Collect

-----------------------------------------------------------------------------
(* Closed sets *)

(* The union of two closed sets is closed. *)
LEMMA ClosedUnion == ASSUME NEW S, NEW T, NEW r, Closed(S, r), Closed(T, r)
                     PROVE  Closed(S \cup T, r)
  BY DEF Closed

(* A set with every stored event is closed. *)
LEMMA ClosedAll == ASSUME NEW E, NEW r \in Seq(E), NEW S, Range(r) \subseteq S
                   PROVE  Closed(S, r)
  BY RangeIs DEF Closed

(* Rows inserted behind the others leave a closed set of older events       *)
(* closed.                                                                  *)
LEMMA ClosedExtend ==
    ASSUME NEW E, NEW r \in Seq(E), NEW n \in Seq(E), NEW S, Closed(S, r), S \subseteq Range(r),
           Range(n) \cap Range(r) = {}
    PROVE  Closed(S, r \o n)
<1> DEFINE u == r \o n
<1>1. /\ Len(u) = Len(r) + Len(n) /\ \A i \in 1..Len(r) : u[i] = r[i]
      /\ \A i \in 1..Len(n) : u[Len(r) + i] = n[i]
      /\ Len(r) \in Nat /\ Len(n) \in Nat
  OBVIOUS
<1> HIDE DEF u
<1>2. \A j \in 1..Len(u) : u[j] \in S => j \in 1..Len(r)
  <2> SUFFICES ASSUME NEW j \in 1..Len(u), j \notin 1..Len(r) PROVE u[j] \notin S
    OBVIOUS
  <2>1. j - Len(r) \in 1..Len(n) /\ Len(r) + (j - Len(r)) = j
    BY <1>1
  <2>2. u[j] = n[j - Len(r)]
    BY <1>1, <2>1
  <2>3. n[j - Len(r)] \in Range(n)
    BY <2>1, RangeIs
  <2> QED BY <2>2, <2>3
<1>3. \A i, j \in 1..Len(u) : i < j /\ j \in 1..Len(r) => i \in 1..Len(r)
  BY <1>1
<1>4. Closed(S, u)
  BY <1>1, <1>2, <1>3 DEF Closed
<1> QED BY <1>4 DEF u

(* The prefixes of the rows are closed. *)
LEMMA ClosedPrefix ==
    ASSUME NEW E, NEW r \in Seq(E), IsInjective(r), NEW P, Closed(P, r), NEW A,
           Range(r) \subseteq P \cup A, NEW k \in 0..Len(r)
    PROVE  Closed(P \cup (A \cap Prefix(r, k)), r)
<1>1. DOMAIN r = 1..Len(r)
  OBVIOUS
<1>2. SUFFICES ASSUME NEW i \in 1..Len(r), NEW j \in 1..Len(r), i < j,
                      r[j] \in P \cup (A \cap Prefix(r, k))
               PROVE  r[i] \in P \cup (A \cap Prefix(r, k))
  BY DEF Closed
<1>3. CASE r[j] \in P
  BY <1>2, <1>3 DEF Closed
<1>4. CASE r[j] \in Prefix(r, k)
  <2>1. PICK m \in 1..k : r[m] = r[j]
    BY <1>4 DEF Prefix
  <2>2. m \in 1..Len(r)
    OBVIOUS
  <2>3. m = j
    BY <1>1, <2>1, <2>2 DEF IsInjective
  <2>4. i \in 1..k
    BY <1>2, <2>3
  <2>5. r[i] \in Prefix(r, k)
    BY <2>4 DEF Prefix
  <2>6. r[i] \in Range(r)
    BY RangeIs
  <2> QED BY <2>5, <2>6
<1> QED BY <1>2, <1>3, <1>4

-----------------------------------------------------------------------------
(* The inductive invariant: the tables and the lines of the workers *)

Statuses == {"NONE", "PROCESSING", "FAILED", "PROCESSED"}
Rows == [st : Statuses, tok : Nat, att : Nat]
Pcs == {"idle", "work", "save", "put state", "put archive", "dead"}
Workloads == [pc : Pcs, batch : Seq(Events)]

(* TypeOK by parts. *)
StoreOK ==
    /\ bad \in BadSets /\ row \in [Events -> Rows]
    /\ raw \in Seq(Events) /\ effects \in [Events -> Nat]
    /\ points \in [durable : Nat, state : Nat] /\ archived \in SUBSET Events
ProcessOK ==
    /\ mem \in SUBSET Events /\ own \in SUBSET Events /\ seen \in SUBSET Events
    /\ inc \in Nat /\ next \in 1..(N + 1) /\ quarantine \in BOOLEAN
    /\ phase \in {"down", "loading", "recovering", "archiving", "running", "stopping"}
    /\ todo \in Seq(Events) /\ fatal \in {"no", "bad", "duplicate", "database"}
    /\ zombie \in [tok : Nat, batch : Seq(Events)]
    /\ duplicates \in Nat /\ faults \in Nat /\ takeovers \in Nat
QueuesOK == q \in [Stages -> Seq(Seq(Events))]
WorkersOK == w \in [Stages -> Workloads]

(* The type invariant by tables, process, queues and workers. *)
LEMMA TypeParts == TypeOK <=> StoreOK /\ ProcessOK /\ QueuesOK /\ WorkersOK
  BY DEF TypeOK, StoreOK, ProcessOK, QueuesOK, WorkersOK, Rows, Statuses, Workloads, Pcs

(* A row of event_dedup exists for the events of raw_chain_events, which    *)
(* has each of them once.                                                   *)
RowsAreStored ==
    /\ \A e \in Events : row[e].st # "NONE" <=> e \in Stored
    /\ IsInjective(raw)

(* The stream is connected; the state worker lives. *)
Live == phase \in {"running", "stopping"} /\ ~quarantine
Alive == Live /\ w["state"].pc # "dead"

(* Without a stream nothing is in line, and an idle worker has nothing.     *)
Workers ==
    /\ ~Live => q = [s \in Stages |-> <<>>] /\ w = [s \in Stages |-> Idle]
    /\ w["durable"].pc # "dead" /\ w["archive"].pc \in {"idle", "work"}
    /\ w["state"].pc \in {"idle", "work", "dead"}
    /\ \A s \in Stages : w[s].pc \in {"idle", "dead"} => w[s].batch = <<>>
    /\ w["state"].pc = "dead" => fatal # "no"

(* What a stage has done and will have done with the first k batches in     *)
(* line.                                                                    *)
StateLine(k) == Line(Processed, w["state"].batch, q["state"], k)
ArchiveLine(k) == Line(archived, w["archive"].batch, q["archive"], k)
ToState == Line({}, w["state"].batch, q["state"], Len(q["state"]))
ToArchive == ArchiveLine(Len(q["archive"]))

(* What is in line is stored. *)
LinesAreStored ==
    /\ ToState \subseteq Stored /\ ToArchive \subseteq Stored /\ Range(todo) \subseteq Stored
    /\ w["durable"].pc \notin {"idle", "work"} => Range(w["durable"].batch) \subseteq Stored

(* Effects, checkpoints and the token of a process that lost the lease.     *)
Figures ==
    /\ \A e \in Events : effects[e] = IF e \in Processed THEN 1 ELSE 0
    /\ points.durable <= Len(raw) /\ points.state <= Len(raw)
    /\ takeovers = 0 => zombie = NoZombie
    /\ zombie.tok <= inc /\ (phase # "down" => zombie.tok < inc)

Tables == TypeOK /\ RowsAreStored /\ Workers /\ LinesAreStored /\ Figures

-----------------------------------------------------------------------------
(* What record_events, the commit of a state and mark_events_failed do to   *)
(* the rows                                                                 *)

(* Nobody else gets the claims of a process that lost the lease. *)
Fenced == \A e \in Events : \/ row'[e] = row[e] \/ row'[e].st # "PROCESSING"
                            \/ row'[e].tok # zombie.tok

(* The stored events are those of raw_chain_events. *)
LEMMA StoredIs ==
    ASSUME StoreOK PROVE Stored \in SUBSET Events /\ Stored = Prefix(raw, Len(raw))
  BY RangeIs DEF StoreOK, Stored

(* Only stored events are processed. *)
LEMMA ProcessedStored ==
    ASSUME StoreOK, RowsAreStored PROVE Processed \subseteq Stored
  BY DEF Processed, RowsAreStored

(* What record_events claims and inserts of a batch. *)
LEMMA ClaimedIs ==
    ASSUME NEW b \in Seq(Events)
    PROVE  /\ Claimed(b) \in Seq(Events)
           /\ Range(Claimed(b)) = {e \in Range(b) : Claimable(e)}
           /\ NewRows(b) \in Seq(Events) /\ IsInjective(NewRows(b))
           /\ Range(NewRows(b)) = {e \in Range(b) : row[e].st = "NONE"}
<1>1. Range(b) \subseteq Events
  BY RangeIs
<1>2. /\ Claimed(b) \in Seq(Events)
      /\ Range(Claimed(b)) = Range(b) \cap {e \in Events : Claimable(e)}
  BY FirstOfIs DEF Claimed
<1>3. /\ NewRows(b) \in Seq(Events) /\ IsInjective(NewRows(b))
      /\ Range(NewRows(b)) = Range(b) \cap {e \in Events : row[e].st = "NONE"}
  BY FirstOfIs DEF NewRows
<1> QED BY <1>1, <1>2, <1>3

(* New rows after the old ones repeat nothing. *)
LEMMA InjectiveConcat ==
    ASSUME NEW E, NEW r \in Seq(E), NEW n \in Seq(E), IsInjective(r), IsInjective(n),
           Range(n) \cap Range(r) = {}
    PROVE  IsInjective(r \o n)
<1> DEFINE u == r \o n
<1>1. /\ Len(u) = Len(r) + Len(n) /\ \A i \in 1..Len(r) : u[i] = r[i]
      /\ \A i \in 1..Len(n) : u[Len(r) + i] = n[i]
      /\ Len(r) \in Nat /\ Len(n) \in Nat /\ DOMAIN u = 1..Len(u)
      /\ DOMAIN r = 1..Len(r) /\ DOMAIN n = 1..Len(n)
  OBVIOUS
<1> HIDE DEF u
<1>2. \A i \in 1..Len(u) : \/ i \in 1..Len(r) /\ u[i] = r[i] /\ r[i] \in Range(r)
                           \/ i - Len(r) \in 1..Len(n) /\ u[i] = n[i - Len(r)] /\ n[i - Len(r)] \in Range(n)
  <2> SUFFICES ASSUME NEW i \in 1..Len(u), i \notin 1..Len(r)
               PROVE  i - Len(r) \in 1..Len(n) /\ u[i] = n[i - Len(r)] /\ n[i - Len(r)] \in Range(n)
    BY <1>1, RangeIs
  <2>1. i - Len(r) \in 1..Len(n) /\ Len(r) + (i - Len(r)) = i
    BY <1>1
  <2> QED BY <1>1, <2>1, RangeIs
<1>3. ASSUME NEW i \in 1..Len(u), NEW j \in 1..Len(u), u[i] = u[j] PROVE i = j
  <2>1. CASE i \in 1..Len(r) /\ j \in 1..Len(r)
    BY <1>1, <1>3, <2>1 DEF IsInjective
  <2>2. CASE i - Len(r) \in 1..Len(n) /\ j - Len(r) \in 1..Len(n)
    <3>1. n[i - Len(r)] = n[j - Len(r)]
      <4>1. i \notin 1..Len(r) /\ j \notin 1..Len(r)
        BY <1>1, <2>2
      <4> QED BY <1>2, <1>3, <4>1
    <3>2. i - Len(r) = j - Len(r)
      BY <1>1, <2>2, <3>1 DEF IsInjective
    <3> QED BY <1>1, <3>2
  <2> QED BY <1>2, <1>3, <2>1, <2>2
<1>4. IsInjective(u)
  BY <1>1, <1>3 DEF IsInjective
<1> QED BY <1>4 DEF u

(* Recording a batch. *)
LEMMA RecordIs ==
    ASSUME StoreOK, ProcessOK, RowsAreStored, NEW b \in Seq(Events), RecordEvents(b)
    PROVE  /\ row' \in [Events -> Rows] /\ raw' \in Seq(Events) /\ own' \in SUBSET Events
           /\ RowsAreStored' /\ Stored' = Stored \cup Range(b) /\ Processed' = Processed
           /\ Len(raw) <= Len(raw') /\ \A i \in 1..Len(raw) : raw'[i] = raw[i]
           /\ \A S \in SUBSET Stored : Closed(S, raw) => Closed(S, raw')
           /\ \A e \in Events :
                  \/ row'[e] = row[e]
                  \/ /\ row[e].st \in {"NONE", "FAILED"} /\ e \in Range(b)
                     /\ row'[e].st = "PROCESSING" /\ row'[e].tok = inc
           /\ \A e \in Range(b) : row'[e].st \notin {"NONE", "FAILED"}
           /\ own' = own \cup Range(Claimed(b)) /\ Claimed(b) \in Seq(Events)
           /\ Range(Claimed(b)) = {e \in Range(b) : Claimable(e)}
<1> DEFINE n == NewRows(b)
<1>0. Range(b) \subseteq Events /\ Stored \subseteq Events
  BY RangeIs, StoredIs
<1>1. /\ n \in Seq(Events) /\ IsInjective(n) /\ Range(n) = {e \in Range(b) : row[e].st = "NONE"}
  BY ClaimedIs
<1>2. /\ Claimed(b) \in Seq(Events) /\ Range(Claimed(b)) = {e \in Range(b) : Claimable(e)}
  BY ClaimedIs
<1>3. row' = ClaimRows(b) /\ raw' = raw \o n /\ own' = own \cup Range(Claimed(b))
  BY DEF RecordEvents, KeptTokens
<1> HIDE DEF n
<1>4. raw \in Seq(Events)
  BY DEF StoreOK
<1>5. raw' \in Seq(Events) /\ Len(raw) <= Len(raw') /\ \A i \in 1..Len(raw) : raw'[i] = raw[i]
  BY <1>1, <1>3, <1>4
<1>6. Stored' = Stored \cup Range(n)
  BY <1>1, <1>3, <1>4, RangeConcat DEF Stored
<1>7. ASSUME NEW e \in Events
      PROVE  /\ row'[e] \in Rows
             /\ \/ row'[e] = row[e] /\ (e \notin Range(b) \/ row[e].st \notin {"NONE", "FAILED"})
                \/ /\ row[e].st \in {"NONE", "FAILED"} /\ e \in Range(b)
                   /\ row'[e].st = "PROCESSING" /\ row'[e].tok = inc
  <2>1. row[e] \in Rows /\ inc \in Nat
    BY DEF StoreOK, ProcessOK
  <2>2. row'[e] = IF e \in Range(b) /\ row[e].st \in {"NONE", "FAILED"}
                  THEN [st |-> "PROCESSING", tok |-> inc, att |-> row[e].att + 1] ELSE row[e]
    BY <1>3 DEF ClaimRows
  <2> QED BY <2>1, <2>2 DEF Rows, Statuses
<1>8. row' \in [Events -> Rows]
  BY <1>3, <1>7 DEF ClaimRows
<1>9. Range(n) \cap Stored = {} /\ Range(b) \subseteq Stored \cup Range(n)
  BY <1>0, <1>1 DEF RowsAreStored
<1>10. Stored' = Stored \cup Range(b)
  BY <1>1, <1>6, <1>9
<1>11. Processed' = Processed
  BY <1>7 DEF Processed
<1>12. IsInjective(raw')
  BY <1>1, <1>3, <1>4, <1>9, InjectiveConcat DEF RowsAreStored, Stored
<1>13. \A e \in Events : row'[e].st # "NONE" <=> e \in Stored'
  BY <1>7, <1>10 DEF RowsAreStored
<1>14. ASSUME NEW S \in SUBSET Stored, Closed(S, raw) PROVE Closed(S, raw')
  BY <1>1, <1>3, <1>4, <1>9, <1>14, ClosedExtend DEF Stored
<1>15. own' \in SUBSET Events
  BY <1>0, <1>2, <1>3 DEF ProcessOK
<1>16. RowsAreStored'
  BY <1>12, <1>13 DEF RowsAreStored
<1>17. \A e \in Range(b) : row'[e].st \notin {"NONE", "FAILED"}
  BY <1>0, <1>7
<1> QED BY <1>2, <1>3, <1>5, <1>7, <1>8, <1>10, <1>11, <1>14, <1>15, <1>16, <1>17

(* Settling the claims of a batch. *)
LEMMA SettleIs ==
    ASSUME StoreOK, RowsAreStored, raw' = raw, NEW b \in Seq(Events), NEW tok, Holds(b, tok),
           NEW status \in {"FAILED", "PROCESSED"}, Settle(b, status)
    PROVE  /\ row' \in [Events -> Rows] /\ RowsAreStored' /\ Stored' = Stored
           /\ Range(b) \subseteq Stored /\ Range(b) \cap Processed = {}
           /\ Processed' = IF status = "PROCESSED" THEN Processed \cup Range(b) ELSE Processed
           /\ \A e \in Events : e \notin Range(b) => row'[e] = row[e]
           /\ \A e \in Range(b) : /\ row[e].st = "PROCESSING" /\ row[e].tok = tok
                                  /\ row'[e].st = status /\ row'[e].att = row[e].att
<1>1. Range(b) \subseteq Events
  BY RangeIs
<1>2. ASSUME NEW e \in Events
      PROVE  /\ row'[e] \in Rows
             /\ e \notin Range(b) => row'[e] = row[e]
             /\ e \in Range(b) => /\ row[e].st = "PROCESSING" /\ row[e].tok = tok
                                  /\ row'[e].st = status /\ row'[e].att = row[e].att
  <2>1. row[e] \in Rows
    BY DEF StoreOK
  <2>2. row'[e] = IF e \in Range(b) THEN [row[e] EXCEPT !.st = status, !.tok = 0] ELSE row[e]
    BY DEF Settle
  <2>3. CASE e \in Range(b)
    <3>1. row'[e] = [row[e] EXCEPT !.st = status, !.tok = 0]
      BY <2>2, <2>3
    <3>2. row[e].st = "PROCESSING" /\ row[e].tok = tok
      BY <2>3 DEF Holds
    <3>3. row'[e].st = status /\ row'[e].tok = 0 /\ row'[e].att = row[e].att
      BY <2>1, <3>1 DEF Rows
    <3>4. status \in Statuses
      BY DEF Statuses
    <3>5. row'[e] = [st |-> status, tok |-> 0, att |-> row[e].att] /\ row[e].att \in Nat
      BY <2>1, <3>1 DEF Rows
    <3>6. row'[e] \in Rows
      BY <3>4, <3>5 DEF Rows
    <3> QED BY <2>3, <3>2, <3>3, <3>6
  <2>4. CASE e \notin Range(b)
    BY <2>1, <2>2, <2>4
  <2> QED BY <2>3, <2>4
<1>3. row' \in [Events -> Rows]
  BY <1>2 DEF Settle
<1>4. Stored' = Stored
  BY DEF Stored
<1>5. RowsAreStored'
  BY <1>2, <1>4 DEF RowsAreStored
<1>6. Range(b) \subseteq Stored /\ Range(b) \cap Processed = {}
  BY <1>1, <1>2 DEF RowsAreStored, Processed
<1>7. Processed' = IF status = "PROCESSED" THEN Processed \cup Range(b) ELSE Processed
  BY <1>1, <1>2 DEF Processed
<1> QED BY <1>1, <1>2, <1>3, <1>4, <1>5, <1>6, <1>7

(* Giving the claims of a batch up. *)
LEMMA MarkFailedIs ==
    ASSUME StoreOK, RowsAreStored, NEW b \in Seq(Events), NEW tok, MarkFailed(b, tok)
    PROVE  /\ StoreOK' /\ RowsAreStored' /\ Stored' = Stored /\ Processed' = Processed
           /\ raw' = raw /\ effects' = effects /\ points' = points /\ archived' = archived
           /\ \A e \in Events :
                  \/ row'[e] = row[e]
                  \/ /\ row[e].st = "PROCESSING" /\ row[e].tok = tok /\ e \in Range(b)
                     /\ row'[e].st = "FAILED" /\ row'[e].att = row[e].att
<1>1. /\ bad' = bad /\ raw' = raw /\ effects' = effects /\ points' = points /\ archived' = archived
  BY DEF MarkFailed
<1>2. CASE UNCHANGED row
  BY <1>1, <1>2 DEF StoreOK, RowsAreStored, Stored, Processed
<1>3. CASE Holds(b, tok) /\ Settle(b, "FAILED")
  <2>1. /\ row' \in [Events -> Rows] /\ RowsAreStored' /\ Stored' = Stored
        /\ Processed' = Processed
        /\ \A e \in Events : e \notin Range(b) => row'[e] = row[e]
        /\ \A e \in Range(b) : /\ row[e].st = "PROCESSING" /\ row[e].tok = tok
                               /\ row'[e].st = "FAILED" /\ row'[e].att = row[e].att
    BY <1>1, <1>3, SettleIs
  <2>2. StoreOK'
    BY <1>1, <2>1 DEF StoreOK
  <2> QED BY <1>1, <2>1, <2>2
<1> QED BY <1>2, <1>3 DEF MarkFailed

(* Committing the state of a batch. *)
LEMMA CommitIs ==
    ASSUME Tables, NEW b \in Seq(Events), NEW tok, Holds(b, tok), CommitState(b)
    PROVE  /\ StoreOK' /\ RowsAreStored' /\ Stored' = Stored /\ Processed' = Processed \cup Range(b)
           /\ raw' = raw /\ archived' = archived /\ points'.durable = points.durable
           /\ points'.state = Furthest(Range(b), points.state) /\ points'.state <= Len(raw)
           /\ \A e \in Events : effects'[e] = IF e \in Processed' THEN 1 ELSE 0
           /\ Range(b) \subseteq Stored
           /\ \A e \in Events : e \notin Range(b) => row'[e] = row[e]
           /\ \A e \in Range(b) : row[e].st = "PROCESSING" /\ row[e].tok = tok /\ row'[e].st = "PROCESSED"
<1>0. StoreOK /\ RowsAreStored /\ Figures
  BY TypeParts DEF Tables
<1>1. bad' = bad /\ raw' = raw /\ archived' = archived /\ Settle(b, "PROCESSED") /\ FlushState(b)
      /\ points' = [points EXCEPT !.state = Furthest(Range(b), points.state)]
  BY DEF CommitState
<1>2. /\ row' \in [Events -> Rows] /\ RowsAreStored' /\ Stored' = Stored
      /\ Processed' = Processed \cup Range(b)
      /\ Range(b) \subseteq Stored /\ Range(b) \cap Processed = {}
      /\ \A e \in Events : e \notin Range(b) => row'[e] = row[e]
      /\ \A e \in Range(b) : /\ row[e].st = "PROCESSING" /\ row[e].tok = tok
                             /\ row'[e].st = "PROCESSED"
  BY <1>0, <1>1, SettleIs
<1>3. points.state \in 0..Len(raw) /\ raw \in Seq(Events) /\ IsInjective(raw)
  BY <1>0 DEF StoreOK, Figures, RowsAreStored
<1>4. Furthest(Range(b), points.state) \in 0..Len(raw)
  BY <1>2, <1>3, FurthestIs
<1>5. /\ points' \in [durable : Nat, state : Nat] /\ points'.durable = points.durable
      /\ points'.state = Furthest(Range(b), points.state) /\ points'.state <= Len(raw)
  <2>1. Furthest(Range(b), points.state) \in Nat /\ Furthest(Range(b), points.state) <= Len(raw)
    BY <1>3, <1>4
  <2>2. points \in [durable : Nat, state : Nat]
    BY <1>0 DEF StoreOK
  <2> HIDE DEF Furthest
  <2> QED BY <1>1, <2>1, <2>2
<1>6. effects' \in [Events -> Nat] /\ \A e \in Events : effects'[e] = IF e \in Processed' THEN 1 ELSE 0
  <2>1. \A e \in Events : effects'[e] = IF e \in Range(b) THEN effects[e] + 1 ELSE effects[e]
    BY <1>1 DEF FlushState
  <2>2. \A e \in Events : effects[e] = IF e \in Processed THEN 1 ELSE 0
    BY <1>0 DEF Figures
  <2>3. \A e \in Events : effects'[e] = IF e \in Processed' THEN 1 ELSE 0
    BY <1>2, <2>1, <2>2
  <2>4. effects' = [e \in Events |-> effects'[e]]
    BY <1>1 DEF FlushState
  <2> QED BY <2>3, <2>4
<1>7. StoreOK'
  BY <1>0, <1>1, <1>2, <1>5, <1>6 DEF StoreOK
<1> QED BY <1>1, <1>2, <1>5, <1>6, <1>7

-----------------------------------------------------------------------------
(* What a step that leaves something alone keeps *)

(* The parts of the first invariant. *)
LEMMA Parts ==
    ASSUME Tables
    PROVE  StoreOK /\ ProcessOK /\ QueuesOK /\ WorkersOK /\ RowsAreStored /\ Workers /\ LinesAreStored
           /\ Figures
  BY TypeParts DEF Tables

(* The first invariant from its parts, after a step. *)
LEMMA Whole ==
    ASSUME StoreOK', ProcessOK', QueuesOK', WorkersOK', RowsAreStored', Workers', LinesAreStored',
           Figures'
    PROVE  Tables'
<1>1. TypeOK'
  BY DEF TypeOK, StoreOK, ProcessOK, QueuesOK, WorkersOK, Rows, Statuses, Workloads, Pcs
<1> QED BY <1>1 DEF Tables

(* A step that leaves the tables alone keeps what is said of them. *)
LEMMA StoreSame ==
    ASSUME StoreOK, RowsAreStored, UNCHANGED store
    PROVE  /\ StoreOK' /\ RowsAreStored' /\ Stored' = Stored /\ Processed' = Processed
           /\ row' = row /\ raw' = raw /\ effects' = effects /\ points' = points /\ archived' = archived
  BY DEF store, StoreOK, RowsAreStored, Stored, Processed

(* A step that leaves queues and workers alone keeps the lines. *)
LEMMA LinesSame ==
    ASSUME UNCHANGED <<q, w>>, QueuesOK, WorkersOK
    PROVE  /\ QueuesOK' /\ WorkersOK' /\ ToState' = ToState
           /\ archived' = archived =>
                  ToArchive' = ToArchive /\ \A k : ArchiveLine(k)' = ArchiveLine(k)
           /\ Processed' = Processed => \A k : StateLine(k)' = StateLine(k)
  BY DEF QueuesOK, WorkersOK, ToState, ToArchive, ArchiveLine, StateLine

(* An empty queue and an idle worker add nothing to what is done. *)
LEMMA LineEmpty == ASSUME NEW done PROVE Line(done, <<>>, <<>>, Len(<<>>)) = done
<1>1. Len(<<>>) = 0
  OBVIOUS
<1> QED BY <1>1, RangeEmpty, HeadsNone DEF Line

(* Nothing in line. *)
LEMMA NoLines ==
    ASSUME q = [s \in Stages |-> <<>>], w = [s \in Stages |-> Idle]
    PROVE  ToState = {} /\ ToArchive = archived
<1>1. \A s \in Stages : q[s] = <<>> /\ w[s].batch = <<>>
  BY DEF Idle
<1>2. q["state"] = <<>> /\ w["state"].batch = <<>> /\ q["archive"] = <<>> /\ w["archive"].batch = <<>>
  BY <1>1 DEF Stages
<1> QED BY <1>2, LineEmpty DEF ToState, ToArchive, ArchiveLine

(* The same after a step. *)
LEMMA NoLinesNext ==
    ASSUME q' = [s \in Stages |-> <<>>], w' = [s \in Stages |-> Idle]
    PROVE  ToState' = {} /\ ToArchive' = archived'
<1>1. \A s \in Stages : q'[s] = <<>> /\ w'[s].batch = <<>>
  BY DEF Idle
<1>2. q'["state"] = <<>> /\ w'["state"].batch = <<>> /\ q'["archive"] = <<>> /\ w'["archive"].batch = <<>>
  BY <1>1 DEF Stages
<1> QED BY <1>2, LineEmpty DEF ToState, ToArchive, ArchiveLine

(* Effects, checkpoints and process numbers stand while no event is         *)
(* settled.                                                                 *)
LEMMA FiguresSame ==
    ASSUME Figures, effects' = effects, points' = points, Processed' = Processed,
           StoreOK, StoreOK', Len(raw) <= Len(raw'), zombie' = zombie, takeovers' = takeovers, inc' = inc,
           phase # "down" \/ phase' = "down"
    PROVE  Figures'
<1>1. Len(raw) \in Nat /\ Len(raw') \in Nat /\ points.durable \in Nat /\ points.state \in Nat
  BY DEF StoreOK
<1> QED BY <1>1 DEF Figures

(* A process that ends leaves the tables. *)
LEMMA GoneTables ==
    ASSUME Tables, Gone, StoreOK', RowsAreStored', Stored' = Stored, Processed' = Processed,
           raw' = raw, effects' = effects, points' = points, archived' = archived,
           zombie' \in [tok : Nat, batch : Seq(Events)],
           takeovers' \in Nat, duplicates' \in Nat, faults' \in Nat,
           takeovers' = 0 => zombie' = NoZombie, zombie'.tok <= inc
    PROVE  Tables'
<1>1. StoreOK /\ ProcessOK /\ QueuesOK /\ WorkersOK /\ RowsAreStored /\ Workers /\ LinesAreStored
      /\ Figures
  BY Parts
<1>2. /\ phase' = "down" /\ todo' = <<>> /\ mem' = {} /\ own' = {} /\ seen' = {} /\ fatal' = "no"
      /\ q' = [s \in Stages |-> <<>>] /\ w' = [s \in Stages |-> Idle]
      /\ inc' = inc /\ next' = next /\ quarantine' = quarantine
  BY DEF Gone
<1>3. ProcessOK'
  BY <1>1, <1>2 DEF ProcessOK
<1>4. QueuesOK' /\ WorkersOK'
  BY <1>2 DEF QueuesOK, WorkersOK, Workloads, Pcs, Idle
<1>5. Workers'
  <2>1. \A s \in Stages : w'[s].pc = "idle" /\ w'[s].batch = <<>>
    BY <1>2 DEF Idle
  <2> QED BY <1>2, <2>1 DEF Workers, Stages
<1>6. ToState' = {} /\ ToArchive' = archived
  BY <1>2, NoLinesNext
<1>7. archived \subseteq Stored
  BY <1>1 DEF LinesAreStored, ToArchive, ArchiveLine, Line
<1>8. LinesAreStored'
  <2>1. w'["durable"].pc = "idle" /\ Range(todo') = {}
    BY <1>2, RangeEmpty DEF Idle, Stages
  <2> QED BY <1>6, <1>7, <2>1 DEF LinesAreStored
<1>9. Figures'
  BY <1>1, <1>2 DEF Figures
<1> QED BY <1>1, <1>3, <1>4, <1>5, <1>8, <1>9, Whole

(* A drained stop leaves the tables alone. *)
LEMMA StopDrainedTables == ASSUME Tables, StopDrained PROVE Tables'
<1>1. Gone /\ UNCHANGED store /\ zombie' = zombie /\ UNCHANGED bounds
  BY DEF StopDrained
<1>2. StoreOK /\ ProcessOK /\ RowsAreStored /\ Figures
  BY Parts
<1>3. /\ StoreOK' /\ RowsAreStored' /\ Stored' = Stored /\ Processed' = Processed
      /\ raw' = raw /\ effects' = effects /\ points' = points /\ archived' = archived
  BY <1>1, <1>2, StoreSame
<1>4. /\ zombie' \in [tok : Nat, batch : Seq(Events)]
      /\ takeovers' \in Nat /\ duplicates' \in Nat /\ faults' \in Nat
      /\ takeovers' = 0 => zombie' = NoZombie
      /\ zombie'.tok <= inc
  BY <1>1, <1>2 DEF ProcessOK, Figures, bounds
<1> QED BY <1>1, <1>3, <1>4, GoneTables

(* A crash leaves the tables alone. *)
LEMMA CrashTables == ASSUME Tables, Crash PROVE Tables'
<1>1. Gone /\ UNCHANGED store /\ zombie' = zombie /\ faults' = faults + 1 /\ duplicates' = duplicates
      /\ takeovers' = takeovers
  BY DEF Crash
<1>2. StoreOK /\ ProcessOK /\ RowsAreStored /\ Figures
  BY Parts
<1>3. /\ StoreOK' /\ RowsAreStored' /\ Stored' = Stored /\ Processed' = Processed
      /\ raw' = raw /\ effects' = effects /\ points' = points /\ archived' = archived
  BY <1>1, <1>2, StoreSame
<1>4. /\ zombie' \in [tok : Nat, batch : Seq(Events)]
      /\ takeovers' \in Nat /\ duplicates' \in Nat /\ faults' \in Nat
      /\ takeovers' = 0 => zombie' = NoZombie
      /\ zombie'.tok <= inc
  BY <1>1, <1>2 DEF ProcessOK, Figures
<1> QED BY <1>1, <1>3, <1>4, GoneTables

(* A takeover leaves one open batch of the former process, under its token. *)
LEMMA TakeoverTables == ASSUME Tables, Takeover PROVE Tables'
<1>1. Gone /\ UNCHANGED store /\ zombie' = [tok |-> inc, batch |-> StateBatch] /\ faults' = faults + 1
      /\ duplicates' = duplicates /\ takeovers' = takeovers + 1
  BY DEF Takeover
<1>2. StoreOK /\ ProcessOK /\ RowsAreStored /\ Figures /\ WorkersOK
  BY Parts
<1>3. /\ StoreOK' /\ RowsAreStored' /\ Stored' = Stored /\ Processed' = Processed
      /\ raw' = raw /\ effects' = effects /\ points' = points /\ archived' = archived
  BY <1>1, <1>2, StoreSame
<1>4. StateBatch \in Seq(Events)
  BY <1>2 DEF WorkersOK, Workloads, StateBatch, Stages
<1>5. /\ zombie' \in [tok : Nat, batch : Seq(Events)]
      /\ takeovers' \in Nat /\ duplicates' \in Nat /\ faults' \in Nat
      /\ takeovers' = 0 => zombie' = NoZombie
      /\ zombie'.tok <= inc
  BY <1>1, <1>2, <1>4 DEF ProcessOK
<1> QED BY <1>1, <1>3, <1>5, GoneTables

(* A stop that gives up marks the batch it was applying as failed. *)
LEMMA StopTimesOutTables == ASSUME Tables, StopTimesOut PROVE Tables'
<1>1. Gone /\ MarkFailed(StateBatch, inc) /\ zombie' = zombie /\ UNCHANGED bounds
  BY DEF StopTimesOut
<1>2. StoreOK /\ ProcessOK /\ RowsAreStored /\ Figures /\ WorkersOK
  BY Parts
<1>3. StateBatch \in Seq(Events)
  BY <1>2 DEF WorkersOK, Workloads, StateBatch, Stages
<1>4. /\ StoreOK' /\ RowsAreStored' /\ Stored' = Stored /\ Processed' = Processed
      /\ raw' = raw /\ effects' = effects /\ points' = points /\ archived' = archived
  BY <1>1, <1>2, <1>3, MarkFailedIs
<1>5. /\ zombie' \in [tok : Nat, batch : Seq(Events)]
      /\ takeovers' \in Nat /\ duplicates' \in Nat /\ faults' \in Nat
      /\ takeovers' = 0 => zombie' = NoZombie
      /\ zombie'.tok <= inc
  BY <1>1, <1>2 DEF ProcessOK, Figures, bounds
<1> QED BY <1>1, <1>4, <1>5, GoneTables

(* A recovery that fails marks its event as failed and ends the process. *)
LEMMA RecoverFailsTables == ASSUME Tables, RecoverFails PROVE Tables'
<1>1. Gone /\ MarkFailed(<<Head(todo)>>, inc) /\ zombie' = zombie /\ duplicates' = duplicates
      /\ takeovers' = takeovers /\ (faults' = faults \/ faults' = faults + 1) /\ todo # <<>>
  BY DEF RecoverFails
<1>2. StoreOK /\ ProcessOK /\ RowsAreStored /\ Figures
  BY Parts
<1>3. <<Head(todo)>> \in Seq(Events)
  <2>1. Head(todo) \in Events
    BY <1>1, <1>2 DEF ProcessOK
  <2> QED BY <2>1
<1>4. /\ StoreOK' /\ RowsAreStored' /\ Stored' = Stored /\ Processed' = Processed
      /\ raw' = raw /\ effects' = effects /\ points' = points /\ archived' = archived
  BY <1>1, <1>2, <1>3, MarkFailedIs
<1>5. /\ zombie' \in [tok : Nat, batch : Seq(Events)]
      /\ takeovers' \in Nat /\ duplicates' \in Nat /\ faults' \in Nat
      /\ takeovers' = 0 => zombie' = NoZombie
      /\ zombie'.tok <= inc
  BY <1>1, <1>2 DEF ProcessOK, Figures
<1> QED BY <1>1, <1>4, <1>5, GoneTables

(* The steps of start(): nothing is in line. *)
LEMMA StartTables ==
    ASSUME Tables, UNCHANGED <<q, w>>, ~Live, StoreOK', RowsAreStored', Stored \subseteq Stored',
           archived' \subseteq Stored', ProcessOK', Figures', fatal' = fatal,
           Range(todo') \subseteq Stored'
    PROVE  Tables'
<1>1. StoreOK /\ ProcessOK /\ QueuesOK /\ WorkersOK /\ RowsAreStored /\ Workers /\ LinesAreStored
      /\ Figures
  BY Parts
<1>2. QueuesOK' /\ WorkersOK'
  BY <1>1, LinesSame
<1>3. /\ q' = [s \in Stages |-> <<>>] /\ w' = [s \in Stages |-> Idle]
  BY <1>1 DEF Workers
<1>4. Workers'
  <2>1. \A s \in Stages : w'[s].pc = "idle" /\ w'[s].batch = <<>>
    BY <1>3 DEF Idle
  <2> QED BY <1>3, <2>1 DEF Workers, Stages
<1>5. ToState' = {} /\ ToArchive' = archived'
  BY <1>3, NoLinesNext
<1>6. LinesAreStored'
  <2>1. w'["durable"].pc = "idle"
    BY <1>3 DEF Idle, Stages
  <2> QED BY <1>5, <2>1 DEF LinesAreStored
<1> QED BY <1>2, <1>4, <1>6, Whole

(* Only stored events are archived. *)
LEMMA ArchivedStored == ASSUME LinesAreStored PROVE archived \subseteq Stored
  BY DEF LinesAreStored, ToArchive, ArchiveLine, Line

(* Rehydration reads the tables and takes a new process number. *)
LEMMA BootTables == ASSUME Tables, Boot PROVE Tables'
<1>1. /\ phase = "down" /\ phase' = "loading" /\ inc' = inc + 1 /\ UNCHANGED store
      /\ mem' = {raw[i] : i \in ProcessedPrefix} /\ quarantine' = Quarantined
      /\ UNCHANGED <<todo, next, q, w, own, seen, fatal, zombie, bounds>>
  BY DEF Boot
<1>2. StoreOK /\ ProcessOK /\ RowsAreStored /\ Figures /\ LinesAreStored
  BY Parts
<1>3. /\ StoreOK' /\ RowsAreStored' /\ Stored' = Stored /\ Processed' = Processed
      /\ raw' = raw /\ effects' = effects /\ points' = points /\ archived' = archived
  BY <1>1, <1>2, StoreSame
<1>4. mem' \in SUBSET Events
  <2>1. \A i \in ProcessedPrefix : raw[i] \in Events
    BY <1>2 DEF StoreOK, ProcessedPrefix
  <2> QED BY <1>1, <2>1
<1>5. Quarantined \in BOOLEAN
  BY DEF Quarantined
<1>6. ProcessOK'
  BY <1>1, <1>2, <1>4, <1>5 DEF ProcessOK, bounds
<1>7. Figures'
  BY <1>1, <1>2, <1>3 DEF Figures, ProcessOK, bounds
<1>8. ~Live /\ Range(todo') \subseteq Stored'
  BY <1>1, <1>2, <1>3 DEF Live, LinesAreStored
<1> QED BY <1>1, <1>2, <1>3, <1>6, <1>7, <1>8, ArchivedStored, StartTables

(* The events to recover are stored ones. *)
LEMMA LoadTodoTables == ASSUME Tables, LoadTodo PROVE Tables'
<1>1. /\ phase = "loading" /\ phase' = "recovering" /\ UNCHANGED store
      /\ todo' = IF quarantine THEN <<>> ELSE LoadUnprocessed
      /\ UNCHANGED <<mem, inc, quarantine, next, q, w, own, seen, fatal, zombie, bounds>>
  BY DEF LoadTodo
<1>2. StoreOK /\ ProcessOK /\ RowsAreStored /\ Figures /\ LinesAreStored
  BY Parts
<1>3. /\ StoreOK' /\ RowsAreStored' /\ Stored' = Stored /\ Processed' = Processed
      /\ raw' = raw /\ effects' = effects /\ points' = points /\ archived' = archived
  BY <1>1, <1>2, StoreSame
<1>4. todo' \in Seq(Events)
  <2>1. raw \in Seq(Events)
    BY <1>2 DEF StoreOK
  <2>2. LoadUnprocessed \in Seq(Events)
    BY <2>1, FirstOfIs DEF LoadUnprocessed
  <2> QED BY <1>1, <2>2
<1>5. ProcessOK'
  BY <1>1, <1>2, <1>4 DEF ProcessOK, bounds
<1>6. Figures'
  BY <1>1, <1>2, <1>3 DEF Figures, ProcessOK, bounds
<1>7. ~Live /\ Range(todo') \subseteq Stored'
  <2>1. raw \in Seq(Events)
    BY <1>2 DEF StoreOK
  <2>2. Range(LoadUnprocessed) \subseteq Stored
    BY <2>1, FirstOfIs DEF LoadUnprocessed, Stored
  <2> QED BY <1>1, <1>3, <2>2, RangeEmpty DEF Live
<1> QED BY <1>1, <1>2, <1>3, <1>5, <1>6, <1>7, ArchivedStored, StartTables

(* The event being recovered. *)
LEMMA HeadIs == ASSUME ProcessOK, todo # <<>>
                PROVE  /\ Head(todo) \in Events /\ Tail(todo) \in Seq(Events)
                       /\ <<Head(todo)>> \in Seq(Events) /\ Range(<<Head(todo)>>) = {Head(todo)}
<1>1. Head(todo) \in Events /\ Tail(todo) \in Seq(Events)
  BY DEF ProcessOK
<1> DEFINE x == Head(todo)
<1> HIDE DEF x
<1>2. <<x>> \in Seq({x}) /\ Len(<<x>>) = 1 /\ <<x>>[1] = x /\ DOMAIN <<x>> = {1}
  OBVIOUS
<1>3. Range(<<x>>) = {x}
  BY <1>2 DEF Range
<1>4. x \in Events => <<x>> \in Seq(Events)
  OBVIOUS
<1> QED BY <1>1, <1>3, <1>4 DEF x

(* A claim of recovery changes one row. *)
LEMMA RecoverClaimIs ==
    ASSUME StoreOK, ProcessOK, RowsAreStored, RecoverClaim, NEW h, h = Head(todo), h \in Stored
    PROVE  /\ StoreOK' /\ RowsAreStored' /\ Stored' = Stored /\ Processed' = Processed
           /\ raw' = raw /\ effects' = effects /\ points' = points /\ archived' = archived
           /\ \A e \in Events : \/ row'[e] = row[e]
                                \/ e = h /\ row'[e].st = "PROCESSING" /\ row'[e].tok = inc
           /\ \/ h \in Processed /\ todo' = Tail(todo) /\ UNCHANGED <<row, own>>
              \/ h \notin Processed /\ todo' = todo /\ own' = own \cup {h}
<1>1. /\ todo # <<>> /\ UNCHANGED <<bad, raw, effects, points, archived>>
      /\ IF row[h].st = "PROCESSED"
         THEN todo' = Tail(todo) /\ UNCHANGED <<row, own>>
         ELSE /\ row' = [row EXCEPT ![h] = [st |-> "PROCESSING", tok |-> inc, att |-> row[h].att + 1]]
              /\ own' = own \cup {h} /\ UNCHANGED todo
  BY DEF RecoverClaim
<1>2. h \in Events
  BY <1>1, HeadIs
<1>3. Stored' = Stored
  BY <1>1 DEF Stored
<1>4. CASE row[h].st = "PROCESSED"
  <2>1. row' = row /\ h \in Processed
    BY <1>1, <1>2, <1>4 DEF Processed
  <2> QED BY <1>1, <1>3, <1>4, <2>1 DEF StoreOK, RowsAreStored, Processed
<1>5. CASE row[h].st # "PROCESSED"
  <2>1. row[h] \in Rows /\ inc \in Nat /\ row \in [Events -> Rows] /\ row[h].st # "NONE"
    BY <1>2 DEF StoreOK, ProcessOK, RowsAreStored
  <2>2. [st |-> "PROCESSING", tok |-> inc, att |-> row[h].att + 1] \in Rows
    BY <2>1 DEF Rows, Statuses
  <2>3. /\ row' \in [Events -> Rows] /\ row'[h].st = "PROCESSING" /\ row'[h].tok = inc
        /\ \A e \in Events : e # h => row'[e] = row[e]
    BY <1>1, <1>2, <1>5, <2>1, <2>2
  <2>4. Processed' = Processed /\ h \notin Processed
    BY <1>2, <1>5, <2>3 DEF Processed
  <2>5. RowsAreStored'
    BY <1>1, <1>2, <1>3, <2>1, <2>3 DEF RowsAreStored
  <2>6. StoreOK'
    BY <1>1, <2>3 DEF StoreOK
  <2> QED BY <1>1, <1>3, <1>5, <2>3, <2>4, <2>5, <2>6
<1> QED BY <1>4, <1>5

(* The event being recovered is stored. *)
LEMMA HeadStored == ASSUME ProcessOK, todo # <<>>, LinesAreStored
                    PROVE  Head(todo) \in Stored /\ Range(Tail(todo)) \subseteq Stored
<1>1. todo \in Seq(Events) /\ 0 \in 0..(Len(todo) - 1)
  BY DEF ProcessOK
<1>2. Range(todo) = {Head(todo)} \cup Range(Tail(todo))
  BY <1>1, RangeTail
<1> QED BY <1>2 DEF LinesAreStored

(* Claiming an event for recovery keeps the tables. *)
LEMMA RecoverClaimTables == ASSUME Tables, RecoverClaim PROVE Tables'
<1>1. /\ phase = "recovering" /\ todo # <<>>
      /\ UNCHANGED <<mem, inc, phase, quarantine, next, q, w, seen, fatal, zombie, bounds>>
  BY DEF RecoverClaim
<1>2. StoreOK /\ ProcessOK /\ RowsAreStored /\ Figures /\ LinesAreStored
  BY Parts
<1>3. PICK h : h = Head(todo) /\ h \in Stored /\ h \in Events
  BY <1>1, <1>2, HeadIs, HeadStored
<1>4. /\ StoreOK' /\ RowsAreStored' /\ Stored' = Stored /\ Processed' = Processed
      /\ raw' = raw /\ effects' = effects /\ points' = points /\ archived' = archived
      /\ \/ todo' = Tail(todo) /\ UNCHANGED own
         \/ todo' = todo /\ own' = own \cup {h}
  BY <1>2, <1>3, RecoverClaimIs
<1>5. todo' \in Seq(Events) /\ Range(todo') \subseteq Stored
  BY <1>1, <1>2, <1>4, HeadIs, HeadStored DEF ProcessOK, LinesAreStored
<1>6. own' \in SUBSET Events
  BY <1>2, <1>3, <1>4 DEF ProcessOK
<1>7. ProcessOK'
  BY <1>1, <1>2, <1>5, <1>6 DEF ProcessOK, bounds
<1>8. Figures'
  BY <1>1, <1>2, <1>4 DEF Figures, ProcessOK, bounds
<1>9. ~Live
  BY <1>1 DEF Live
<1> QED BY <1>1, <1>2, <1>4, <1>5, <1>7, <1>8, <1>9, ArchivedStored, StartTables

(* A recovered event is committed. *)
LEMMA RecoverApplyIs ==
    ASSUME StoreOK, ProcessOK, RowsAreStored, Figures, RecoverApply, NEW h, h = Head(todo)
    PROVE  /\ StoreOK' /\ RowsAreStored' /\ Stored' = Stored /\ Processed' = Processed \cup {h}
           /\ raw' = raw /\ points' = points /\ archived' = archived /\ h \in Stored
           /\ \A e \in Events : effects'[e] = IF e \in Processed' THEN 1 ELSE 0
           /\ \A e \in Events : row'[e] = row[e] \/ (e = h /\ row'[e].st = "PROCESSED")
           /\ todo' = Tail(todo) /\ own' = own \ {h} /\ mem' = mem \cup {h} /\ seen' = seen \cup {h}
<1>1. /\ todo # <<>> /\ UNCHANGED <<bad, raw, points, archived>>
      /\ Holds(<<h>>, inc) /\ Settle(<<h>>, "PROCESSED")
      /\ effects' = [effects EXCEPT ![h] = effects[h] + 1]
      /\ todo' = Tail(todo) /\ own' = own \ {h} /\ mem' = mem \cup {h} /\ seen' = seen \cup {h}
  BY DEF RecoverApply
<1>2. h \in Events /\ <<h>> \in Seq(Events) /\ Range(<<h>>) = {h}
  BY <1>1, HeadIs
<1>3. /\ row' \in [Events -> Rows] /\ RowsAreStored' /\ Stored' = Stored
      /\ Processed' = Processed \cup Range(<<h>>)
      /\ Range(<<h>>) \subseteq Stored /\ Range(<<h>>) \cap Processed = {}
      /\ \A e \in Events : e \notin Range(<<h>>) => row'[e] = row[e]
      /\ \A e \in Range(<<h>>) : row'[e].st = "PROCESSED"
  BY <1>1, <1>2, SettleIs
<1>4. h \in Stored /\ h \notin Processed /\ Processed' = Processed \cup {h}
  BY <1>2, <1>3
<1>5. \A e \in Events : row'[e] = row[e] \/ (e = h /\ row'[e].st = "PROCESSED")
  BY <1>2, <1>3
<1>6. effects \in [Events -> Nat] /\ \A e \in Events : effects[e] = IF e \in Processed THEN 1 ELSE 0
  BY DEF StoreOK, Figures
<1>7. \A e \in Events : effects'[e] = IF e = h THEN effects[e] + 1 ELSE effects[e]
  BY <1>1, <1>2, <1>6
<1>8. effects' \in [Events -> Nat] /\ \A e \in Events : effects'[e] = IF e \in Processed' THEN 1 ELSE 0
  BY <1>1, <1>2, <1>4, <1>6, <1>7
<1>9. StoreOK'
  BY <1>1, <1>3, <1>8 DEF StoreOK
<1> QED BY <1>1, <1>3, <1>4, <1>5, <1>8, <1>9

(* Applying a recovered event counts its one effect. *)
LEMMA RecoverApplyTables == ASSUME Tables, RecoverApply PROVE Tables'
<1>1. /\ phase = "recovering" /\ todo # <<>>
      /\ UNCHANGED <<inc, phase, quarantine, next, q, w, fatal, zombie, bounds>>
  BY DEF RecoverApply
<1>2. StoreOK /\ ProcessOK /\ RowsAreStored /\ Figures /\ LinesAreStored
  BY Parts
<1>3. PICK h : h = Head(todo) /\ h \in Events
  BY <1>1, <1>2, HeadIs
<1>4. /\ StoreOK' /\ RowsAreStored' /\ Stored' = Stored
      /\ raw' = raw /\ points' = points /\ archived' = archived
      /\ \A e \in Events : effects'[e] = IF e \in Processed' THEN 1 ELSE 0
      /\ todo' = Tail(todo) /\ own' = own \ {h} /\ mem' = mem \cup {h} /\ seen' = seen \cup {h}
  BY <1>2, <1>3, RecoverApplyIs
<1>5. todo' \in Seq(Events) /\ Range(todo') \subseteq Stored
  BY <1>1, <1>2, <1>4, HeadIs, HeadStored
<1>6. own' \in SUBSET Events /\ mem' \in SUBSET Events /\ seen' \in SUBSET Events
  BY <1>2, <1>3, <1>4 DEF ProcessOK
<1>7. ProcessOK'
  BY <1>1, <1>2, <1>5, <1>6 DEF ProcessOK, bounds
<1>8. Figures'
  BY <1>1, <1>2, <1>4 DEF Figures, ProcessOK, bounds
<1>9. ~Live
  BY <1>1 DEF Live
<1> QED BY <1>1, <1>2, <1>4, <1>5, <1>7, <1>8, <1>9, ArchivedStored, StartTables

(* The stream resumes at an event of the chain or behind the last. *)
LEMMA ResumeType == ASSUME StoreOK PROVE ResumeAt \in 1..(N + 1)
<1>1. raw \in Seq(Events) /\ N \in Nat \ {0} /\ Len(raw) \in Nat
  BY PipelineAssumption DEF StoreOK
<1>2. CASE ProcessedPrefix = {}
  BY <1>1, <1>2 DEF ResumeAt
<1>3. CASE ProcessedPrefix # {}
  <2> DEFINE m == CHOOSE i \in ProcessedPrefix : \A j \in ProcessedPrefix : j <= i
  <2>1. ProcessedPrefix \in SUBSET (0..Len(raw)) /\ \A i \in ProcessedPrefix : i \in 1..Len(raw)
    BY <1>1 DEF ProcessedPrefix
  <2>2. Max(ProcessedPrefix) \in ProcessedPrefix /\ \A y \in ProcessedPrefix : y <= Max(ProcessedPrefix)
    BY <1>1, <1>3, <2>1, MaxIs
  <2>3. m \in ProcessedPrefix
    BY <2>2
  <2>4. ResumeAt = raw[m] + 1
    BY <1>3 DEF ResumeAt
  <2> HIDE DEF m
  <2>5. raw[m] \in 1..N
    BY <1>1, <2>1, <2>3 DEF Events
  <2> QED BY <1>1, <2>4, <2>5
<1> QED BY <1>2, <1>3

(* The end of the recovery keeps the tables. *)
LEMMA EndRecoveryTables == ASSUME Tables, EndRecovery PROVE Tables'
<1>1. /\ phase = "recovering" /\ phase' = "archiving" /\ next' = ResumeAt /\ UNCHANGED store
      /\ UNCHANGED <<mem, inc, quarantine, todo, q, w, own, seen, fatal, zombie, bounds>>
  BY DEF EndRecovery
<1>2. StoreOK /\ ProcessOK /\ RowsAreStored /\ Figures /\ LinesAreStored
  BY Parts
<1>3. /\ StoreOK' /\ RowsAreStored' /\ Stored' = Stored /\ Processed' = Processed
      /\ raw' = raw /\ effects' = effects /\ points' = points /\ archived' = archived
  BY <1>1, <1>2, StoreSame
<1>4. next' \in 1..(N + 1)
  BY <1>1, <1>2, ResumeType
<1>5. ProcessOK'
  BY <1>1, <1>2, <1>4 DEF ProcessOK, bounds
<1>6. Figures'
  BY <1>1, <1>2, <1>3 DEF Figures, ProcessOK, bounds
<1>7. ~Live /\ Range(todo') \subseteq Stored'
  BY <1>1, <1>2, <1>3 DEF Live, LinesAreStored
<1> QED BY <1>1, <1>2, <1>3, <1>5, <1>6, <1>7, ArchivedStored, StartTables

(* The next rows to archive. *)
LEMMA SegmentIs ==
    ASSUME raw \in Seq(Events), NEW l \in Nat, l < Len(raw)
    PROVE  \E m \in (l + 1)..Len(raw) :
              Range(SubSeq(raw, l + 1, Min({l + BatchSize, Len(raw)}))) = {raw[i] : i \in (l + 1)..m}
<1>1. BatchSize \in Nat \ {0} /\ Len(raw) \in Nat
  BY PipelineAssumption
<1> DEFINE T == {l + BatchSize, Len(raw)}
           m == Min(T)
<1>2. \E x \in T : \A y \in T : x =< y
  BY <1>1
<1>3. m \in T /\ \A y \in T : m =< y
  BY <1>2, Zenon DEF Min
<1>4. m \in (l + 1)..Len(raw)
  <2>1. l + BatchSize \in T /\ Len(raw) \in T
    OBVIOUS
  <2>2. m = l + BatchSize \/ m = Len(raw)
    BY <1>3
  <2> HIDE DEF m, T
  <2>3. m =< Len(raw)
    BY <1>3, <2>1
  <2> QED BY <1>1, <2>2, <2>3
<1>5. Min({l + BatchSize, Len(raw)}) = m
  OBVIOUS
<1> HIDE DEF m, T
<1> DEFINE u == SubSeq(raw, l + 1, m)
<1>6. /\ u \in Seq(Events) /\ Len(u) = m - l /\ \A i \in 1..(m - l) : u[i] = raw[l + i]
  BY <1>4
<1> HIDE DEF u
<1>7. Range(u) = {u[i] : i \in 1..(m - l)}
  BY <1>6, RangeIs
<1>8. \A i \in 1..(m - l) : l + i \in (l + 1)..m
  BY <1>4
<1>9. \A i \in (l + 1)..m : i - l \in 1..(m - l) /\ l + (i - l) = i
  BY <1>4
<1>10. \A i \in (l + 1)..m : raw[i] = u[i - l]
  BY <1>6, <1>9
<1>11. Range(u) \subseteq {raw[i] : i \in (l + 1)..m}
  BY <1>6, <1>7, <1>8
<1>12. {raw[i] : i \in (l + 1)..m} \subseteq Range(u)
  BY <1>7, <1>9, <1>10
<1> QED BY <1>4, <1>5, <1>11, <1>12 DEF u

(* What start() archives. *)
LEMMA ArchiveRecoveryIs ==
    ASSUME StoreOK, RowsAreStored, archived \subseteq Stored, ArchiveRecovery
    PROVE  /\ archived' \subseteq Stored /\ UNCHANGED <<bad, row, raw, effects, points>>
           /\ \/ /\ phase' = phase
                 /\ Closed(archived, raw) => Closed(archived', raw)
              \/ /\ phase' = "running" /\ archived' = archived
                 /\ Closed(archived, raw) => Stored \subseteq archived
<1> DEFINE l == LastArchived
<1>1. /\ UNCHANGED <<bad, row, raw, effects, points>>
      /\ IF l < Len(raw)
         THEN /\ archived' = archived \cup Range(SubSeq(raw, l + 1, Min({l + BatchSize, Len(raw)})))
              /\ phase' = phase
         ELSE phase' = "running" /\ archived' = archived
  BY DEF ArchiveRecovery, RecordSegments
<1>2. raw \in Seq(Events) /\ IsInjective(raw) /\ 0 \in 0..Len(raw) /\ Len(raw) \in Nat
  BY DEF StoreOK, RowsAreStored
<1>3. /\ l \in 0..Len(raw) /\ \A e \in archived : Position(e) <= l
      /\ l = 0 \/ \E e \in archived : l = Position(e)
  BY <1>2, FurthestIs DEF LastArchived
<1> HIDE DEF l
<1>4. \A i \in 1..Len(raw) : raw[i] \in archived => i <= l
  <2> SUFFICES ASSUME NEW i \in 1..Len(raw), raw[i] \in archived PROVE i <= l
    OBVIOUS
  <2>1. i = Position(raw[i])
    BY <1>2, PositionIs
  <2> QED BY <1>3, <2>1
<1>5. ASSUME Closed(archived, raw) PROVE \A i \in 1..l : raw[i] \in archived
  <2>1. CASE l = 0
    BY <2>1
  <2>2. CASE \E e \in archived : l = Position(e)
    <3>1. l \in 1..Len(raw) /\ raw[l] \in archived
      BY <1>2, <2>2, PositionIs
    <3>2. \A i \in 1..l : i = l \/ (i \in 1..Len(raw) /\ i < l)
      BY <3>1
    <3> QED BY <1>5, <3>1, <3>2 DEF Closed
  <2> QED BY <1>3, <2>1, <2>2
<1>6. CASE l < Len(raw)
  <2>1. PICK m \in (l + 1)..Len(raw) :
           Range(SubSeq(raw, l + 1, Min({l + BatchSize, Len(raw)}))) = {raw[i] : i \in (l + 1)..m}
    BY <1>2, <1>3, <1>6, SegmentIs
  <2>2. archived' = archived \cup {raw[i] : i \in (l + 1)..m} /\ phase' = phase
    BY <1>1, <1>6, <2>1
  <2>3. \A i \in (l + 1)..m : i \in 1..Len(raw)
    BY <1>3
  <2>4. \A i \in 1..Len(raw) : raw[i] \in Stored
    BY <1>2, RangeIs DEF Stored
  <2>5. archived' \subseteq Stored
    BY <2>2, <2>3, <2>4
  <2>6. ASSUME Closed(archived, raw) PROVE Closed(archived', raw)
    <3>1. SUFFICES ASSUME NEW i \in 1..Len(raw), NEW j \in 1..Len(raw), i < j, raw[j] \in archived'
                   PROVE  raw[i] \in archived'
      BY DEF Closed
    <3>2. j <= m
      <4>1. CASE raw[j] \in archived
        BY <1>3, <1>4, <4>1
      <4>2. CASE \E k \in (l + 1)..m : raw[j] = raw[k]
        <5>1. PICK k \in (l + 1)..m : raw[j] = raw[k]
          BY <4>2
        <5>2. k \in 1..Len(raw) /\ DOMAIN raw = 1..Len(raw)
          BY <1>2, <2>3
        <5>3. j = k
          BY <1>2, <5>1, <5>2 DEF IsInjective
        <5> QED BY <5>3
      <4> QED BY <2>2, <3>1, <4>1, <4>2
    <3>3. i \in 1..l \/ i \in (l + 1)..m
      BY <1>3, <3>1, <3>2
    <3> QED BY <1>5, <2>2, <2>6, <3>3
  <2> QED BY <1>1, <2>2, <2>5, <2>6
<1>7. CASE ~(l < Len(raw))
  <2>1. l = Len(raw) /\ phase' = "running" /\ archived' = archived
    BY <1>1, <1>3, <1>7
  <2>2. ASSUME Closed(archived, raw) PROVE Stored \subseteq archived
    BY <1>2, <1>5, <2>1, <2>2, RangeIs DEF Stored
  <2> QED BY <1>1, <2>1, <2>2
<1> QED BY <1>6, <1>7

(* Archiving the backlog adds only stored events. *)
LEMMA ArchiveRecoveryTables == ASSUME Tables, ArchiveRecovery PROVE Tables'
<1>1. /\ phase = "archiving" /\ UNCHANGED <<mem, inc, quarantine, todo, next, q, w, own, seen, fatal,
                                             zombie, bounds>>
  BY DEF ArchiveRecovery
<1>2. StoreOK /\ ProcessOK /\ RowsAreStored /\ Figures /\ LinesAreStored /\ archived \subseteq Stored
  BY Parts, ArchivedStored
<1>3. /\ archived' \subseteq Stored /\ UNCHANGED <<bad, row, raw, effects, points>>
      /\ phase' = phase \/ phase' = "running"
  BY <1>2, ArchiveRecoveryIs
<1>4. Stored' = Stored /\ Processed' = Processed /\ Stored \subseteq Events
  BY <1>2, <1>3, StoredIs DEF Stored, Processed
<1>5. StoreOK' /\ RowsAreStored'
  BY <1>2, <1>3, <1>4 DEF StoreOK, RowsAreStored
<1>6. ProcessOK'
  BY <1>1, <1>2, <1>3 DEF ProcessOK, bounds
<1>7. Figures'
  BY <1>1, <1>2, <1>3, <1>4 DEF Figures, ProcessOK, bounds
<1>8. ~Live /\ Range(todo') \subseteq Stored'
  BY <1>1, <1>2, <1>4 DEF Live, LinesAreStored
<1> QED BY <1>1, <1>3, <1>4, <1>5, <1>6, <1>7, <1>8, StartTables

(* The steps of a stage. *)
LEMMA BusyIsLive == ASSUME Workers, NEW s \in Stages, w[s].pc # "idle" \/ q[s] # <<>> PROVE Live
  BY DEF Workers, Idle

(* The types of one stage. *)
LEMMA StageOK ==
    ASSUME QueuesOK, WorkersOK, NEW s \in Stages
    PROVE  q[s] \in Seq(Seq(Events)) /\ w[s] \in Workloads /\ w[s].batch \in Seq(Events) /\ w[s].pc \in Pcs
  BY DEF QueuesOK, WorkersOK, Workloads

(* A delivery only adds to the durable queue. *)
LEMMA DeliverTables == ASSUME Tables, NEW e \in Events, Deliver(e) PROVE Tables'
<1>1. /\ phase = "running" /\ ~quarantine /\ UNCHANGED store
      /\ q' = [q EXCEPT !["durable"] = Append(q["durable"], <<e>>)]
      /\ UNCHANGED <<mem, inc, phase, quarantine, todo, w, own, seen, fatal, zombie, faults, takeovers>>
      /\ \/ e = next /\ next' = next + 1 /\ duplicates' = duplicates
         \/ duplicates' = duplicates + 1 /\ next' = next
  BY DEF Deliver
<1>2. StoreOK /\ ProcessOK /\ QueuesOK /\ WorkersOK /\ RowsAreStored /\ Workers /\ LinesAreStored
      /\ Figures
  BY Parts
<1>3. /\ StoreOK' /\ RowsAreStored' /\ Stored' = Stored /\ Processed' = Processed
      /\ raw' = raw /\ effects' = effects /\ points' = points /\ archived' = archived
  BY <1>1, <1>2, StoreSame
<1>4. <<e>> \in Seq(Events)
  OBVIOUS
<1>5. Append(q["durable"], <<e>>) \in Seq(Seq(Events)) /\ "durable" \in Stages
  <2>1. q["durable"] \in Seq(Seq(Events)) /\ "durable" \in Stages
    BY <1>2, StageOK DEF Stages
  <2> QED BY <1>4, <2>1
<1>6. QueuesOK' /\ q'["state"] = q["state"] /\ q'["archive"] = q["archive"]
  BY <1>1, <1>2, <1>5 DEF QueuesOK, Stages
<1>7. ToState' = ToState /\ ToArchive' = ToArchive
  BY <1>1, <1>3, <1>6 DEF ToState, ToArchive, ArchiveLine
<1>8. next' \in 1..(N + 1)
  BY <1>1, <1>2, PipelineAssumption DEF ProcessOK, Events
<1>9. ProcessOK'
  BY <1>1, <1>2, <1>8 DEF ProcessOK
<1>10. Workers'
  BY <1>1, <1>2 DEF Workers, Live
<1>11. LinesAreStored'
  BY <1>1, <1>2, <1>3, <1>7 DEF LinesAreStored
<1>12. Figures'
  BY <1>1, <1>2, <1>3 DEF Figures
<1>13. WorkersOK'
  BY <1>1, <1>2 DEF WorkersOK
<1> QED BY <1>3, <1>6, <1>9, <1>10, <1>11, <1>12, <1>13, Whole

(* A stage takes batches off its queue: what is in line stays. *)
LEMMA TakeIs ==
    ASSUME Tables, NEW s \in Stages, Take(s), NEW done
    PROVE  /\ QueuesOK' /\ WorkersOK' /\ Live /\ w[s].pc = "idle" /\ w'[s].pc = "work"
           /\ \A t \in Stages : t # s => w'[t] = w[t] /\ q'[t] = q[t]
           /\ \E c \in 1..Len(q[s]) :
                 /\ c + Len(q'[s]) = Len(q[s])
                 /\ \A k \in 0..Len(q'[s]) :
                       /\ c + k \in 0..Len(q[s])
                       /\ Line(done, w'[s].batch, q'[s], k) = Line(done, w[s].batch, q[s], c + k)
<1>1. StoreOK /\ ProcessOK /\ QueuesOK /\ WorkersOK /\ RowsAreStored /\ Workers /\ LinesAreStored
      /\ Figures
  BY Parts
<1>2. /\ w[s].pc = "idle" /\ q[s] # <<>>
      /\ w' = [w EXCEPT ![s] = [pc |-> "work", batch |-> FlattenSeq(SubSeq(q[s], 1, Collect(s)))]]
      /\ q' = [q EXCEPT ![s] = SubSeq(q[s], Collect(s) + 1, Len(q[s]))]
  BY DEF Take
<1>3. Live /\ w[s].batch = <<>> /\ q[s] \in Seq(Seq(Events))
  BY <1>1, <1>2, BusyIsLive, StageOK DEF Workers
<1>4. PICK c \in 1..Len(q[s]) : c = Collect(s)
  BY <1>2, <1>3, CollectIs
<1>5. PICK b, r : b = Joined(q[s], c) /\ r = After(q[s], c)
  OBVIOUS
<1>7. /\ b \in Seq(Events) /\ Range(b) = Heads(q[s], c)
  BY <1>3, <1>5, HeadsTake DEF Joined
<1>6. r \in Seq(Seq(Events)) /\ Len(r) = Len(q[s]) - c
  <2>1. 0 \in 0..(Len(q[s]) - c)
    BY <1>3
  <2> QED BY <1>3, <1>5, <2>1, HeadsRest
<1>8. \A k \in 0..(Len(q[s]) - c) : Line(done, b, r, k) = Line(done, <<>>, q[s], c + k)
  <2> SUFFICES ASSUME NEW k \in 0..(Len(q[s]) - c)
               PROVE  Line(done, b, r, k) = Line(done, <<>>, q[s], c + k)
    OBVIOUS
  <2> QED BY <1>3, <1>5, HeadsRest
<1>9. w' = [w EXCEPT ![s] = [pc |-> "work", batch |-> b]] /\ q' = [q EXCEPT ![s] = r]
  BY <1>2, <1>4, <1>5 DEF Joined, After
<1>10. /\ w'[s].pc = "work" /\ w'[s].batch = b /\ q'[s] = r
       /\ \A t \in Stages : t # s => w'[t] = w[t] /\ q'[t] = q[t]
  BY <1>1, <1>9 DEF QueuesOK, WorkersOK
<1>11. QueuesOK' /\ WorkersOK'
  BY <1>1, <1>6, <1>7, <1>9 DEF QueuesOK, WorkersOK, Workloads, Pcs
<1>12. c + Len(q'[s]) = Len(q[s]) /\ Len(q[s]) \in Nat
  BY <1>3, <1>6, <1>10
<1>13. ASSUME NEW k \in 0..Len(q'[s])
       PROVE  /\ c + k \in 0..Len(q[s])
              /\ Line(done, w'[s].batch, q'[s], k) = Line(done, w[s].batch, q[s], c + k)
  <2>1. k \in 0..(Len(q[s]) - c) /\ c + k \in 0..Len(q[s])
    BY <1>7, <1>10, <1>12, <1>13
  <2> QED BY <1>3, <1>8, <1>10, <2>1
<1> QED BY <1>2, <1>3, <1>10, <1>11, <1>12, <1>13

(* Taking a batch keeps tables and lines. *)
LEMMA TakeTables == ASSUME Tables, NEW s \in Stages, Take(s)
                    PROVE  Tables' /\ ToState' = ToState /\ ToArchive' = ToArchive
<1>1. /\ UNCHANGED store /\ phase \in {"running", "stopping"}
      /\ UNCHANGED <<mem, inc, phase, quarantine, todo, next, own, seen, fatal, zombie, bounds>>
  BY DEF Take
<1>2. StoreOK /\ ProcessOK /\ QueuesOK /\ WorkersOK /\ RowsAreStored /\ Workers /\ LinesAreStored
      /\ Figures
  BY Parts
<1>3. /\ StoreOK' /\ RowsAreStored' /\ Stored' = Stored /\ Processed' = Processed
      /\ raw' = raw /\ effects' = effects /\ points' = points /\ archived' = archived
  BY <1>1, <1>2, StoreSame
<1>4. /\ QueuesOK' /\ WorkersOK' /\ Live /\ w[s].pc = "idle" /\ w'[s].pc = "work"
      /\ \A t \in Stages : t # s => w'[t] = w[t] /\ q'[t] = q[t]
  BY TakeIs
<1>5. ASSUME NEW done
      PROVE  Line(done, w'[s].batch, q'[s], Len(q'[s])) = Line(done, w[s].batch, q[s], Len(q[s]))
  <2>1. PICK c \in 1..Len(q[s]) :
           /\ c + Len(q'[s]) = Len(q[s])
           /\ \A k \in 0..Len(q'[s]) :
                 /\ c + k \in 0..Len(q[s])
                 /\ Line(done, w'[s].batch, q'[s], k) = Line(done, w[s].batch, q[s], c + k)
    BY TakeIs
  <2>2. Len(q'[s]) \in 0..Len(q'[s])
    <3>1. q'[s] \in Seq(Seq(Events))
      BY <1>4 DEF QueuesOK
    <3> QED BY <3>1
  <2> QED BY <2>1, <2>2
<1>6. ASSUME NEW t \in Stages, NEW done
      PROVE  Line(done, w'[t].batch, q'[t], Len(q'[t])) = Line(done, w[t].batch, q[t], Len(q[t]))
  BY <1>4, <1>5
<1>7. ToState' = ToState /\ ToArchive' = ToArchive
  BY <1>3, <1>6 DEF ToState, ToArchive, ArchiveLine, Stages
<1>8. ProcessOK'
  BY <1>1, <1>2 DEF ProcessOK, bounds
<1>9. Workers'
  <2>1. Live' /\ Live
    BY <1>1, <1>4 DEF Live
  <2> QED BY <1>1, <1>2, <1>4, <2>1 DEF Workers, Stages
<1>10. LinesAreStored'
  BY <1>1, <1>2, <1>3, <1>4, <1>7 DEF LinesAreStored, Stages
<1>11. Figures'
  BY <1>1, <1>2, <1>3 DEF Figures, bounds
<1> QED BY <1>3, <1>4, <1>7, <1>8, <1>9, <1>10, <1>11, Whole

(* A step of the durable worker that hands nothing on. *)
LEMMA DurableTables ==
    ASSUME Tables, Live, Live', NEW d \in Workloads, w' = [w EXCEPT !["durable"] = d], q' = q,
           d.pc # "dead", d.pc = "idle" => d.batch = <<>>,
           d.pc \notin {"idle", "work"} => Range(d.batch) \subseteq Stored',
           StoreOK', RowsAreStored', ProcessOK', Figures', Stored \subseteq Stored',
           archived' = archived, fatal' = fatal, todo' = todo
    PROVE  /\ Tables' /\ ToState' = ToState /\ ToArchive' = ToArchive
           /\ w'["durable"] = d /\ w'["state"] = w["state"] /\ w'["archive"] = w["archive"]
<1>1. StoreOK /\ ProcessOK /\ QueuesOK /\ WorkersOK /\ RowsAreStored /\ Workers /\ LinesAreStored
      /\ Figures
  BY Parts
<1>2. w'["durable"] = d /\ w'["state"] = w["state"] /\ w'["archive"] = w["archive"]
  BY <1>1 DEF WorkersOK, Stages
<1>3. WorkersOK' /\ QueuesOK'
  BY <1>1 DEF WorkersOK, QueuesOK
<1>4. ToState' = ToState /\ ToArchive' = ToArchive
  BY <1>2 DEF ToState, ToArchive, ArchiveLine
<1>5. Workers'
  <2>1. \A s \in Stages : w'[s].pc \in {"idle", "dead"} => w'[s].batch = <<>>
    BY <1>1, <1>2 DEF Workers, Stages
  <2> QED BY <1>1, <1>2, <2>1 DEF Workers
<1>6. LinesAreStored'
  BY <1>1, <1>2, <1>4 DEF LinesAreStored
<1> QED BY <1>2, <1>3, <1>4, <1>5, <1>6, Whole

(* After the durable insert the worker holds the events it claimed. *)
LEMMA DurableInsertTables ==
    ASSUME Tables, DurableInsert
    PROVE  /\ Tables' /\ ToState' = ToState /\ ToArchive' = ToArchive
           /\ w'["state"] = w["state"] /\ w'["archive"] = w["archive"]
           /\ \/ /\ Claimed(w["durable"].batch) = <<>>
                 /\ w'["durable"] = Idle
              \/ /\ w'["durable"].pc = "save"
                 /\ w'["durable"].batch = Claimed(w["durable"].batch)
<1>1. StoreOK /\ ProcessOK /\ QueuesOK /\ WorkersOK /\ RowsAreStored /\ Workers /\ LinesAreStored
      /\ Figures
  BY Parts
<1>2. PICK b : b = w["durable"].batch /\ b \in Seq(Events)
  BY <1>1, StageOK DEF Stages
<1>3. /\ w["durable"].pc = "work" /\ RecordEvents(b)
      /\ IF Claimed(b) = <<>> THEN w' = [w EXCEPT !["durable"] = Idle]
         ELSE w' = [w EXCEPT !["durable"] = [pc |-> "save", batch |-> Claimed(b)]]
      /\ UNCHANGED <<bad, effects, points, archived, mem, inc, phase, quarantine, todo, next, q, seen,
                     fatal, zombie, bounds>>
  BY <1>2 DEF DurableInsert, Done
<1>4. Live /\ Live'
  <2>1. Live
    BY <1>1, <1>3, BusyIsLive DEF Stages
  <2> QED BY <1>3, <2>1 DEF Live
<1>5. /\ row' \in [Events -> Rows] /\ raw' \in Seq(Events) /\ own' \in SUBSET Events
      /\ RowsAreStored' /\ Stored' = Stored \cup Range(b) /\ Processed' = Processed
      /\ Len(raw) <= Len(raw')
      /\ Claimed(b) \in Seq(Events) /\ Range(Claimed(b)) = {e \in Range(b) : Claimable(e)}
  BY <1>1, <1>2, <1>3, RecordIs
<1>6. StoreOK'
  BY <1>1, <1>3, <1>5 DEF StoreOK
<1>7. ProcessOK'
  BY <1>1, <1>3, <1>5 DEF ProcessOK, bounds
<1>8. Figures'
  <2>1. phase # "down" /\ takeovers' = takeovers
    BY <1>3, <1>4 DEF Live, bounds
  <2> QED BY <1>1, <1>3, <1>5, <1>6, <2>1, FiguresSame
<1>9. PICK d \in Workloads : /\ w' = [w EXCEPT !["durable"] = d]
                             /\ d.pc # "dead" /\ (d.pc = "idle" => d.batch = <<>>)
                             /\ d.pc \notin {"idle", "work"} => Range(d.batch) \subseteq Stored'
                             /\ \/ Claimed(b) = <<>> /\ d = Idle
                                \/ d.pc = "save" /\ d.batch = Claimed(b)
  <2>1. CASE Claimed(b) = <<>>
    <3>1. Idle \in Workloads /\ Idle.pc = "idle" /\ Idle.batch = <<>>
      BY DEF Idle, Workloads, Pcs
    <3> QED BY <1>3, <2>1, <3>1
  <2>2. CASE Claimed(b) # <<>>
    <3> DEFINE d == [pc |-> "save", batch |-> Claimed(b)]
    <3>1. d \in Workloads /\ d.pc = "save" /\ d.batch = Claimed(b)
      BY <1>5 DEF Workloads, Pcs
    <3>2. w' = [w EXCEPT !["durable"] = d]
      BY <1>3, <2>2
    <3>3. Range(Claimed(b)) \subseteq Stored'
      BY <1>5
    <3> HIDE DEF d
    <3> QED BY <3>1, <3>2, <3>3
  <2> QED BY <2>1, <2>2
<1>10. /\ Tables' /\ ToState' = ToState /\ ToArchive' = ToArchive
       /\ w'["durable"] = d /\ w'["state"] = w["state"] /\ w'["archive"] = w["archive"]
  <2>1. Stored \subseteq Stored' /\ q' = q /\ archived' = archived /\ fatal' = fatal /\ todo' = todo
    BY <1>3, <1>5
  <2> QED BY <1>4, <1>5, <1>6, <1>7, <1>8, <1>9, <2>1, DurableTables
<1> QED BY <1>2, <1>9, <1>10

(* An insert whose answer is lost is in the tables; the worker tries again. *)
LEMMA DurableInsertLostTables ==
    ASSUME Tables, DurableInsertLost
    PROVE  Tables' /\ ToState' = ToState /\ ToArchive' = ToArchive
<1>1. StoreOK /\ ProcessOK /\ QueuesOK /\ WorkersOK /\ RowsAreStored /\ Workers /\ LinesAreStored
      /\ Figures
  BY Parts
<1>2. PICK b : b = w["durable"].batch /\ b \in Seq(Events)
  BY <1>1, StageOK DEF Stages
<1>3. /\ w["durable"].pc = "work" /\ RecordEvents(b) /\ faults' = faults + 1
      /\ UNCHANGED <<bad, effects, points, archived, mem, inc, phase, quarantine, todo, next, q, w, seen,
                     fatal, zombie, duplicates, takeovers>>
  BY <1>2 DEF DurableInsertLost
<1>4. Live /\ Live'
  <2>1. Live
    BY <1>1, <1>3, BusyIsLive DEF Stages
  <2> QED BY <1>3, <2>1 DEF Live
<1>5. /\ row' \in [Events -> Rows] /\ raw' \in Seq(Events) /\ own' \in SUBSET Events
      /\ RowsAreStored' /\ Stored' = Stored \cup Range(b) /\ Processed' = Processed
      /\ Len(raw) <= Len(raw')
  BY <1>1, <1>2, <1>3, RecordIs
<1>6. StoreOK'
  BY <1>1, <1>3, <1>5 DEF StoreOK
<1>7. ProcessOK'
  BY <1>1, <1>3, <1>5 DEF ProcessOK
<1>8. Figures'
  <2>1. phase # "down"
    BY <1>4 DEF Live
  <2> QED BY <1>1, <1>3, <1>5, <1>6, <2>1, FiguresSame
<1>9. QueuesOK' /\ WorkersOK' /\ ToState' = ToState /\ ToArchive' = ToArchive
  BY <1>1, <1>3, LinesSame
<1>10. Workers'
  BY <1>1, <1>3, <1>4 DEF Workers
<1>11. LinesAreStored'
  BY <1>1, <1>3, <1>5, <1>9 DEF LinesAreStored
<1> QED BY <1>5, <1>6, <1>7, <1>8, <1>9, <1>10, <1>11, Whole

(* The durable checkpoint stops at a stored event. *)
LEMMA DurableCheckpointTables ==
    ASSUME Tables, DurableCheckpoint
    PROVE  /\ Tables' /\ ToState' = ToState /\ ToArchive' = ToArchive
           /\ w'["state"] = w["state"] /\ w'["archive"] = w["archive"]
           /\ w'["durable"].pc = "put state" /\ w'["durable"].batch = w["durable"].batch
           /\ Processed' = Processed /\ points'.state = points.state
<1>1. StoreOK /\ ProcessOK /\ QueuesOK /\ WorkersOK /\ RowsAreStored /\ Workers /\ LinesAreStored
      /\ Figures
  BY Parts
<1>2. PICK b : b = w["durable"].batch /\ b \in Seq(Events)
  BY <1>1, StageOK DEF Stages
<1>3. /\ w["durable"].pc = "save"
      /\ points' = [points EXCEPT !.durable = Furthest(Range(b), points.durable)]
      /\ w' = [w EXCEPT !["durable"] = [w["durable"] EXCEPT !.pc = "put state"]]
      /\ UNCHANGED <<bad, row, raw, effects, archived, mem, inc, phase, quarantine, todo, next, q, own,
                     seen, fatal, zombie, bounds>>
  BY <1>2 DEF DurableCheckpoint
<1>4. Live /\ Live'
  <2>1. Live
    BY <1>1, <1>3, BusyIsLive DEF Stages
  <2> QED BY <1>3, <2>1 DEF Live
<1>5. Range(b) \subseteq Stored
  BY <1>1, <1>2, <1>3 DEF LinesAreStored
<1>6. points.durable \in 0..Len(raw) /\ raw \in Seq(Events) /\ IsInjective(raw) /\ Len(raw) \in Nat
  BY <1>1 DEF StoreOK, Figures, RowsAreStored
<1>7. PICK m \in 0..Len(raw) : m = Furthest(Range(b), points.durable)
  BY <1>5, <1>6, FurthestIs
<1>8. /\ points' \in [durable : Nat, state : Nat] /\ points'.durable = m /\ points'.state = points.state
  <2>1. points \in [durable : Nat, state : Nat] /\ m \in Nat
    BY <1>1 DEF StoreOK
  <2>2. points' = [points EXCEPT !.durable = m]
    BY <1>3, <1>7
  <2> QED BY <2>1, <2>2
<1>9. Stored' = Stored /\ Processed' = Processed
  BY <1>3 DEF Stored, Processed
<1>10. StoreOK' /\ RowsAreStored'
  BY <1>1, <1>3, <1>8, <1>9 DEF StoreOK, RowsAreStored
<1>11. ProcessOK'
  BY <1>1, <1>3 DEF ProcessOK, bounds
<1>12. Figures'
  <2>1. points.state <= Len(raw)
    BY <1>1 DEF Figures
  <2>3. m <= Len(raw)
    BY <1>6, <1>7
  <2>4. raw' = raw
    BY <1>3
  <2>2. points'.durable <= Len(raw') /\ points'.state <= Len(raw')
    BY <1>8, <2>1, <2>3, <2>4
  <2> QED BY <1>1, <1>3, <1>9, <2>2 DEF Figures, bounds
<1>13. PICK d \in Workloads : /\ w' = [w EXCEPT !["durable"] = d]
                              /\ d.pc = "put state" /\ d.batch = b
  <2>1. w["durable"] \in Workloads
    BY <1>1, StageOK DEF Stages
  <2> DEFINE d == [w["durable"] EXCEPT !.pc = "put state"]
  <2>2. d \in Workloads /\ d.pc = "put state" /\ d.batch = b
    BY <1>2, <2>1 DEF Workloads, Pcs
  <2> QED BY <1>3, <2>2
<1>14. /\ Tables' /\ ToState' = ToState /\ ToArchive' = ToArchive
       /\ w'["durable"] = d /\ w'["state"] = w["state"] /\ w'["archive"] = w["archive"]
  <2>1. Stored \subseteq Stored' /\ q' = q /\ archived' = archived /\ fatal' = fatal /\ todo' = todo
        /\ d.pc # "dead" /\ (d.pc = "idle" => d.batch = <<>>)
        /\ (d.pc \notin {"idle", "work"} => Range(d.batch) \subseteq Stored')
    BY <1>3, <1>5, <1>9, <1>13
  <2> QED BY <1>4, <1>10, <1>11, <1>12, <1>13, <2>1, DurableTables
<1> QED BY <1>2, <1>8, <1>9, <1>13, <1>14

(* A checkpoint that is not saved sends the batch back to the insert. *)
LEMMA DurableCheckpointFailsTables ==
    ASSUME Tables, DurableCheckpointFails
    PROVE  /\ Tables' /\ ToState' = ToState /\ ToArchive' = ToArchive
           /\ w'["state"] = w["state"] /\ w'["archive"] = w["archive"]
           /\ w'["durable"].pc = "work" /\ w'["durable"].batch = w["durable"].batch
<1>1. StoreOK /\ ProcessOK /\ QueuesOK /\ WorkersOK /\ RowsAreStored /\ Workers /\ LinesAreStored
      /\ Figures
  BY Parts
<1>2. PICK b : b = w["durable"].batch /\ b \in Seq(Events)
  BY <1>1, StageOK DEF Stages
<1>3. /\ w["durable"].pc = "save" /\ UNCHANGED store /\ faults' = faults + 1
      /\ w' = [w EXCEPT !["durable"] = [w["durable"] EXCEPT !.pc = "work"]]
      /\ UNCHANGED <<mem, inc, phase, quarantine, todo, next, q, own, seen, fatal, zombie, duplicates,
                     takeovers>>
  BY DEF DurableCheckpointFails
<1>4. Live /\ Live'
  <2>1. Live
    BY <1>1, <1>3, BusyIsLive DEF Stages
  <2> QED BY <1>3, <2>1 DEF Live
<1>5. /\ StoreOK' /\ RowsAreStored' /\ Stored' = Stored /\ Processed' = Processed
      /\ raw' = raw /\ effects' = effects /\ points' = points /\ archived' = archived
  BY <1>1, <1>3, StoreSame
<1>6. ProcessOK'
  BY <1>1, <1>3 DEF ProcessOK
<1>7. Figures'
  BY <1>1, <1>3, <1>5 DEF Figures
<1>8. PICK d \in Workloads : /\ w' = [w EXCEPT !["durable"] = d]
                             /\ d.pc = "work" /\ d.batch = b
  <2>1. w["durable"] \in Workloads
    BY <1>1, StageOK DEF Stages
  <2> DEFINE d == [w["durable"] EXCEPT !.pc = "work"]
  <2>2. d \in Workloads /\ d.pc = "work" /\ d.batch = b
    BY <1>2, <2>1 DEF Workloads, Pcs
  <2> QED BY <1>3, <2>2
<1>9. /\ Tables' /\ ToState' = ToState /\ ToArchive' = ToArchive
      /\ w'["durable"] = d /\ w'["state"] = w["state"] /\ w'["archive"] = w["archive"]
  <2>1. Stored \subseteq Stored' /\ q' = q /\ archived' = archived /\ fatal' = fatal /\ todo' = todo
        /\ d.pc # "dead" /\ (d.pc = "idle" => d.batch = <<>>)
        /\ (d.pc \notin {"idle", "work"} => Range(d.batch) \subseteq Stored')
    BY <1>3, <1>5, <1>8
  <2> QED BY <1>4, <1>5, <1>6, <1>7, <1>8, <2>1, DurableTables
<1> QED BY <1>2, <1>8, <1>9

(* One more batch in line. *)
Longer(qs, c) == Append(qs, c)

(* A batch put at the end comes after everything in the line. *)
LEMMA LineAppend ==
    ASSUME NEW S, NEW qs \in Seq(Seq(S)), NEW c \in Seq(S), NEW done, NEW b
    PROVE  /\ Longer(qs, c) \in Seq(Seq(S)) /\ Len(Longer(qs, c)) = Len(qs) + 1
           /\ \A k \in 0..Len(qs) : Line(done, b, Longer(qs, c), k) = Line(done, b, qs, k)
           /\ Line(done, b, Longer(qs, c), Len(qs) + 1) = Line(done \cup Range(c), b, qs, Len(qs))
<1>0. PICK qn : qn = Longer(qs, c) /\ qn = Append(qs, c)
  BY DEF Longer
<1>1. qn \in Seq(Seq(S)) /\ Len(qn) = Len(qs) + 1
  BY <1>0
<1>2. Len(qs) \in 0..Len(qs)
  OBVIOUS
<1>3. \A k \in 0..Len(qs) : Heads(qn, k) = Heads(qs, k)
  BY <1>0, HeadsAppend
<1>4. Heads(qn, Len(qn)) = Heads(qs, Len(qs)) \cup Range(c)
  BY <1>0, <1>1, <1>2, HeadsAppend
<1> QED BY <1>0, <1>1, <1>3, <1>4 DEF Line

(* The durable worker hands a batch on. *)
LEMMA EnqueueIs ==
    ASSUME Tables, NEW s \in {"state", "archive"}, Enqueue(s), NEW b, b = w["durable"].batch, NEW done
    PROVE  /\ QueuesOK' /\ WorkersOK' /\ Live /\ b \in Seq(Events) /\ Range(b) \subseteq Stored
           /\ w["durable"].pc = (IF s = "state" THEN "put state" ELSE "put archive")
           /\ w'["state"] = w["state"] /\ w'["archive"] = w["archive"]
           /\ \A t \in Stages : t # s => q'[t] = q[t]
           /\ IF s = "state" THEN w'["durable"].pc = "put archive" /\ w'["durable"].batch = b
                             ELSE w'["durable"] = Idle
           /\ Len(q'[s]) = Len(q[s]) + 1
           /\ \A k \in 0..Len(q[s]) : Line(done, w'[s].batch, q'[s], k) = Line(done, w[s].batch, q[s], k)
           /\ Line(done, w'[s].batch, q'[s], Len(q'[s])) =
                  Line(done \cup Range(b), w[s].batch, q[s], Len(q[s]))
<1>1. StoreOK /\ ProcessOK /\ QueuesOK /\ WorkersOK /\ RowsAreStored /\ Workers /\ LinesAreStored
      /\ Figures
  BY Parts
<1>2. /\ w["durable"].pc = (IF s = "state" THEN "put state" ELSE "put archive")
      /\ q' = [q EXCEPT ![s] = Append(q[s], b)]
      /\ IF s = "state" THEN w' = [w EXCEPT !["durable"] = [w["durable"] EXCEPT !.pc = "put archive"]]
                        ELSE w' = [w EXCEPT !["durable"] = Idle]
  BY DEF Enqueue, Done
<1>3. s \in Stages /\ "durable" \in Stages /\ s # "durable"
  BY DEF Stages
<1>4. /\ q[s] \in Seq(Seq(Events)) /\ b \in Seq(Events) /\ w["durable"] \in Workloads
  BY <1>1, <1>3, StageOK
<1>5. Live /\ Range(b) \subseteq Stored
  BY <1>1, <1>2, <1>3, BusyIsLive DEF LinesAreStored
<1>6. PICK qn : qn = Longer(q[s], b)
  OBVIOUS
<1>7. /\ qn \in Seq(Seq(Events)) /\ Len(qn) = Len(q[s]) + 1
      /\ \A k \in 0..Len(q[s]) : Line(done, w[s].batch, qn, k) = Line(done, w[s].batch, q[s], k)
      /\ Line(done, w[s].batch, qn, Len(q[s]) + 1) = Line(done \cup Range(b), w[s].batch, q[s], Len(q[s]))
  BY <1>4, <1>6, LineAppend
<1>8. q' = [q EXCEPT ![s] = qn]
  BY <1>2, <1>6 DEF Longer
<1>9. QueuesOK' /\ q'[s] = qn /\ \A t \in Stages : t # s => q'[t] = q[t]
  BY <1>1, <1>3, <1>7, <1>8 DEF QueuesOK
<1>10. PICK d \in Workloads : /\ w' = [w EXCEPT !["durable"] = d]
                              /\ IF s = "state" THEN d.pc = "put archive" /\ d.batch = b ELSE d = Idle
  <2>1. Idle \in Workloads
    BY DEF Idle, Workloads, Pcs
  <2>2. /\ [w["durable"] EXCEPT !.pc = "put archive"] \in Workloads
        /\ [w["durable"] EXCEPT !.pc = "put archive"].pc = "put archive"
        /\ [w["durable"] EXCEPT !.pc = "put archive"].batch = b
    BY <1>4 DEF Workloads, Pcs
  <2> QED BY <1>2, <2>1, <2>2
<1>11. WorkersOK' /\ w'["durable"] = d /\ w'["state"] = w["state"] /\ w'["archive"] = w["archive"]
  BY <1>1, <1>10 DEF WorkersOK, Stages
<1>12. w'[s] = w[s]
  BY <1>11
<1> QED BY <1>2, <1>4, <1>5, <1>7, <1>9, <1>10, <1>11, <1>12

(* An idle worker holds nothing. *)
LEMMA IdleIs == Idle \in Workloads /\ Idle.pc = "idle" /\ Idle.batch = <<>>
  BY DEF Idle, Workloads, Pcs

(* A batch handed on is stored. *)
LEMMA EnqueueTables ==
    ASSUME Tables, NEW s \in {"state", "archive"}, Enqueue(s) PROVE Tables'
<1>1. StoreOK /\ ProcessOK /\ QueuesOK /\ WorkersOK /\ RowsAreStored /\ Workers /\ LinesAreStored
      /\ Figures
  BY Parts
<1>2. UNCHANGED <<store, mem, inc, phase, quarantine, todo, next, own, seen, fatal, zombie, bounds>>
  BY DEF Enqueue
<1>3. PICK b : b = w["durable"].batch
  OBVIOUS
<1>4. /\ QueuesOK' /\ WorkersOK' /\ Live /\ b \in Seq(Events) /\ Range(b) \subseteq Stored
      /\ w'["state"] = w["state"] /\ w'["archive"] = w["archive"]
      /\ \A t \in Stages : t # s => q'[t] = q[t]
      /\ IF s = "state" THEN w'["durable"].pc = "put archive" /\ w'["durable"].batch = b
                        ELSE w'["durable"] = Idle
  BY <1>3, EnqueueIs
<1>5. /\ StoreOK' /\ RowsAreStored' /\ Stored' = Stored /\ Processed' = Processed
      /\ raw' = raw /\ effects' = effects /\ points' = points /\ archived' = archived
  BY <1>1, <1>2, StoreSame
<1>6. ProcessOK'
  BY <1>1, <1>2 DEF ProcessOK, bounds
<1>7. Figures'
  BY <1>1, <1>2, <1>5 DEF Figures, bounds
<1>8. Workers'
  <2>1. Live'
    BY <1>2, <1>4 DEF Live
  <2>3. w'["durable"].pc = "put archive" \/ (w'["durable"].pc = "idle" /\ w'["durable"].batch = <<>>)
    BY <1>4, IdleIs
  <2>2. \A t \in Stages : w'[t].pc \in {"idle", "dead"} => w'[t].batch = <<>>
    BY <1>1, <1>4, <2>3 DEF Workers, Stages
  <2> QED BY <1>1, <1>2, <1>4, <2>1, <2>2, <2>3 DEF Workers
<1>9. ToState' \subseteq Stored /\ ToArchive' \subseteq Stored
  <2>1. CASE s = "state"
    <3>1. Line({}, w'[s].batch, q'[s], Len(q'[s])) = Line({} \cup Range(b), w[s].batch, q[s], Len(q[s]))
      BY <1>3, EnqueueIs
    <3>3. Line({} \cup Range(b), w[s].batch, q[s], Len(q[s])) = Line({}, w[s].batch, q[s], Len(q[s])) \cup Range(b)
      BY DEF Line
    <3>2. q'["archive"] = q["archive"]
      BY <1>4, <2>1 DEF Stages
    <3> QED BY <1>1, <1>4, <1>5, <2>1, <3>1, <3>2, <3>3 DEF ToState, ToArchive, ArchiveLine, LinesAreStored
  <2>2. CASE s = "archive"
    <3>1. Line(archived, w'[s].batch, q'[s], Len(q'[s])) =
              Line(archived \cup Range(b), w[s].batch, q[s], Len(q[s]))
      BY <1>3, EnqueueIs
    <3>3. Line(archived \cup Range(b), w[s].batch, q[s], Len(q[s])) =
              Line(archived, w[s].batch, q[s], Len(q[s])) \cup Range(b)
      BY DEF Line
    <3>2. q'["state"] = q["state"]
      BY <1>4, <2>2 DEF Stages
    <3> QED BY <1>1, <1>4, <1>5, <2>2, <3>1, <3>2, <3>3 DEF ToState, ToArchive, ArchiveLine, LinesAreStored
  <2> QED BY <2>1, <2>2
<1>10. LinesAreStored'
  BY <1>1, <1>2, <1>4, <1>5, <1>9, IdleIs DEF LinesAreStored
<1> QED BY <1>4, <1>5, <1>6, <1>7, <1>8, <1>10, Whole

(* A step that ends the work of the state worker. *)
LEMMA StateTables ==
    ASSUME Tables, Live, Live', NEW d \in {Idle, [pc |-> "dead", batch |-> <<>>]},
           w' = [w EXCEPT !["state"] = d], q' = q,
           d.pc = "dead" => fatal' # "no", w["state"].pc # "dead",
           StoreOK', RowsAreStored', ProcessOK', Figures', Stored' = Stored, archived' = archived,
           todo' = todo
    PROVE  /\ Tables' /\ ToState' \subseteq ToState /\ ToArchive' = ToArchive
           /\ w'["state"] = d /\ w'["durable"] = w["durable"] /\ w'["archive"] = w["archive"]
           /\ d.batch = <<>>
<1>1. StoreOK /\ ProcessOK /\ QueuesOK /\ WorkersOK /\ RowsAreStored /\ Workers /\ LinesAreStored
      /\ Figures
  BY Parts
<1>2. d \in Workloads /\ d.batch = <<>> /\ d.pc \in {"idle", "dead"}
  <2>1. CASE d = Idle
    BY <2>1, IdleIs
  <2>2. CASE d = [pc |-> "dead", batch |-> <<>>]
    BY <2>2 DEF Workloads, Pcs
  <2> QED BY <2>1, <2>2
<1>3. w'["state"] = d /\ w'["durable"] = w["durable"] /\ w'["archive"] = w["archive"]
  BY <1>1 DEF WorkersOK, Stages
<1>4. WorkersOK' /\ QueuesOK'
  BY <1>1, <1>2 DEF WorkersOK, QueuesOK
<1>5. ToArchive' = ToArchive
  BY <1>3 DEF ToArchive, ArchiveLine
<1>6. ToState' \subseteq ToState
  BY <1>2, <1>3, RangeEmpty DEF ToState, Line
<1>7. Workers'
  <2>1. \A s \in Stages : w'[s].pc \in {"idle", "dead"} => w'[s].batch = <<>>
    BY <1>1, <1>2, <1>3 DEF Workers, Stages
  <2> QED BY <1>1, <1>2, <1>3, <2>1 DEF Workers
<1>8. LinesAreStored'
  BY <1>1, <1>3, <1>5, <1>6 DEF LinesAreStored
<1> QED BY <1>2, <1>3, <1>4, <1>5, <1>6, <1>7, <1>8, Whole

(* A committed state batch counts one effect of each of its events. *)
LEMMA StateCommitTables ==
    ASSUME Tables, StateCommit
    PROVE  /\ Tables' /\ ToState' \subseteq ToState /\ ToArchive' = ToArchive /\ Live
           /\ w'["state"] = Idle /\ w'["durable"] = w["durable"] /\ w'["archive"] = w["archive"]
<1>1. StoreOK /\ ProcessOK /\ QueuesOK /\ WorkersOK /\ RowsAreStored /\ Workers /\ LinesAreStored
      /\ Figures
  BY Parts
<1>2. PICK b : b = StateBatch /\ b \in Seq(Events)
  BY <1>1, StageOK DEF Stages, StateBatch
<1>3. /\ w["state"].pc = "work" /\ Holds(b, inc) /\ CommitState(b)
      /\ mem' = mem \cup Range(b) /\ seen' = seen \cup Range(b) /\ own' = own \ Range(b)
      /\ w' = [w EXCEPT !["state"] = Idle]
      /\ UNCHANGED <<inc, phase, quarantine, todo, next, q, fatal, zombie, bounds>>
  BY <1>2 DEF StateCommit, Done
<1>4. Live /\ Live'
  <2>1. Live
    BY <1>1, <1>3, BusyIsLive DEF Stages
  <2> QED BY <1>3, <2>1 DEF Live
<1>5. /\ StoreOK' /\ RowsAreStored' /\ Stored' = Stored
      /\ raw' = raw /\ archived' = archived /\ points'.durable = points.durable
      /\ points'.state <= Len(raw)
      /\ \A e \in Events : effects'[e] = IF e \in Processed' THEN 1 ELSE 0
  BY <1>2, <1>3, CommitIs
<1>6. Range(b) \subseteq Events
  BY <1>2, RangeIs
<1>7. ProcessOK'
  BY <1>1, <1>3, <1>6 DEF ProcessOK, bounds
<1>8. Figures'
  BY <1>1, <1>3, <1>5 DEF Figures, bounds
<1>9. Idle.pc # "dead" /\ w["state"].pc # "dead" /\ q' = q /\ todo' = todo
  BY <1>3 DEF Idle
<1> QED BY <1>3, <1>4, <1>5, <1>7, <1>8, <1>9, StateTables

(* The state worker dies: what both ways have in common. *)
LEMMA StateDiesTables ==
    ASSUME Tables, w["state"].pc = "work", NEW b \in Seq(Events), b = StateBatch, NEW why \in {"bad", "duplicate", "database"},
           StateWorkerDies(why), StoreOK', RowsAreStored', Stored' = Stored, raw' = raw,
           archived' = archived, mem' = mem \/ mem' = mem \cup Range(b), faults' \in Nat,
           points'.durable = points.durable, points'.state <= Len(raw),
           \A e \in Events : effects'[e] = IF e \in Processed' THEN 1 ELSE 0
    PROVE  /\ Tables' /\ ToState' \subseteq ToState /\ ToArchive' = ToArchive /\ Live
           /\ w'["state"].pc = "dead" /\ w'["durable"] = w["durable"] /\ w'["archive"] = w["archive"]
<1>1. StoreOK /\ ProcessOK /\ QueuesOK /\ WorkersOK /\ RowsAreStored /\ Workers /\ LinesAreStored
      /\ Figures
  BY Parts
<1>2. /\ fatal' = (IF fatal = "no" THEN why ELSE fatal)
      /\ w' = [w EXCEPT !["state"] = [pc |-> "dead", batch |-> <<>>]]
      /\ seen' = seen \cup Range(b)
      /\ own' = own \ {e \in Range(b) : row'[e].st # "PROCESSING"}
      /\ UNCHANGED <<inc, phase, quarantine, todo, next, q, zombie, duplicates, takeovers>>
  BY DEF StateWorkerDies
<1>3. Live /\ Live'
  <2>1. Live
    BY <1>1, BusyIsLive DEF Stages
  <2> QED BY <1>2, <2>1 DEF Live
<1>4. Range(b) \subseteq Events
  BY RangeIs
<1>5. fatal' \in {"bad", "duplicate", "database"}
  BY <1>1, <1>2 DEF ProcessOK
<1>6. mem' \in SUBSET Events /\ own' \in SUBSET Events /\ seen' \in SUBSET Events
  BY <1>1, <1>2, <1>4 DEF ProcessOK
<1>7. ProcessOK'
  BY <1>1, <1>2, <1>5, <1>6 DEF ProcessOK
<1>8. Figures'
  BY <1>1, <1>2 DEF Figures
<1>9. PICK d \in {Idle, [pc |-> "dead", batch |-> <<>>]} :
         d.pc = "dead" /\ w' = [w EXCEPT !["state"] = d]
  BY <1>2
<1>10. q' = q /\ todo' = todo /\ fatal' # "no"
  BY <1>2, <1>5
<1>11. /\ Tables' /\ ToState' \subseteq ToState /\ ToArchive' = ToArchive
       /\ w'["state"] = d /\ w'["durable"] = w["durable"] /\ w'["archive"] = w["archive"]
  BY <1>3, <1>7, <1>8, <1>9, <1>10, StateTables
<1> QED BY <1>3, <1>9, <1>11

(* A state batch that raises ends the worker and is marked as failed. *)
LEMMA StateFailsTables ==
    ASSUME Tables, StateFails
    PROVE  /\ Tables' /\ ToState' \subseteq ToState /\ ToArchive' = ToArchive /\ Live
           /\ w'["state"].pc = "dead" /\ w'["durable"] = w["durable"] /\ w'["archive"] = w["archive"]
<1>1. StoreOK /\ ProcessOK /\ QueuesOK /\ WorkersOK /\ RowsAreStored /\ Workers /\ LinesAreStored
      /\ Figures
  BY Parts
<1>2. PICK b \in Seq(Events) : b = StateBatch
  BY <1>1, StageOK DEF Stages, StateBatch
<1>3. PICK why \in {"bad", "duplicate", "database"} :
         /\ w["state"].pc = "work" /\ MarkFailed(b, inc) /\ StateWorkerDies(why)
         /\ faults' = faults \/ faults' = faults + 1
         /\ mem' = mem
  BY <1>2 DEF StateFails
<1>4. /\ StoreOK' /\ RowsAreStored' /\ Stored' = Stored /\ Processed' = Processed
      /\ raw' = raw /\ effects' = effects /\ points' = points /\ archived' = archived
  BY <1>1, <1>2, <1>3, MarkFailedIs
<1>5. /\ \A e \in Events : effects'[e] = IF e \in Processed' THEN 1 ELSE 0
      /\ points'.durable = points.durable /\ points'.state <= Len(raw) /\ faults' \in Nat
  BY <1>1, <1>3, <1>4 DEF Figures, ProcessOK
<1> QED BY <1>2, <1>3, <1>4, <1>5, StateDiesTables

(* A state commit whose answer is lost is in the tables; the worker ends. *)
LEMMA StateCommitLostTables ==
    ASSUME Tables, StateCommitLost
    PROVE  /\ Tables' /\ ToState' \subseteq ToState /\ ToArchive' = ToArchive /\ Live
           /\ w'["state"].pc = "dead" /\ w'["durable"] = w["durable"] /\ w'["archive"] = w["archive"]
<1>1. StoreOK /\ ProcessOK /\ QueuesOK /\ WorkersOK /\ RowsAreStored /\ Workers /\ LinesAreStored
      /\ Figures
  BY Parts
<1>2. PICK b \in Seq(Events) : b = StateBatch
  BY <1>1, StageOK DEF Stages, StateBatch
<1>3. /\ w["state"].pc = "work" /\ Holds(b, inc) /\ CommitState(b) /\ StateWorkerDies("database")
      /\ faults' = faults + 1 /\ mem' = mem \cup Range(b)
  BY <1>2 DEF StateCommitLost
<1>4. /\ StoreOK' /\ RowsAreStored' /\ Stored' = Stored
      /\ raw' = raw /\ archived' = archived /\ points'.durable = points.durable
      /\ points'.state <= Len(raw)
      /\ \A e \in Events : effects'[e] = IF e \in Processed' THEN 1 ELSE 0
  BY <1>2, <1>3, CommitIs
<1>5. faults' \in Nat /\ "database" \in {"bad", "duplicate", "database"}
  BY <1>1, <1>3 DEF ProcessOK
<1> QED BY <1>2, <1>3, <1>4, <1>5, StateDiesTables

(* An archived batch was stored. *)
LEMMA ArchiveBatchTables ==
    ASSUME Tables, ArchiveBatch
    PROVE  /\ Tables' /\ ToState' = ToState /\ ToArchive' = ToArchive /\ Live
           /\ w'["state"] = w["state"] /\ w'["durable"] = w["durable"] /\ w'["archive"] = Idle
           /\ archived' = archived \cup Range(w["archive"].batch) /\ Processed' = Processed
           /\ Stored' = Stored
<1>1. StoreOK /\ ProcessOK /\ QueuesOK /\ WorkersOK /\ RowsAreStored /\ Workers /\ LinesAreStored
      /\ Figures
  BY Parts
<1>2. PICK b \in Seq(Events) : b = w["archive"].batch
  BY <1>1, StageOK DEF Stages
<1>3. /\ w["archive"].pc = "work" /\ archived' = archived \cup Range(b)
      /\ w' = [w EXCEPT !["archive"] = Idle]
      /\ UNCHANGED <<bad, row, raw, effects, points, mem, inc, phase, quarantine, todo, next, q, own, seen,
                     fatal, zombie, bounds>>
  BY <1>2 DEF ArchiveBatch, Done, RecordSegments
<1>4. Live /\ Live'
  <2>1. Live
    BY <1>1, <1>3, BusyIsLive DEF Stages
  <2> QED BY <1>3, <2>1 DEF Live
<1>5. w'["archive"] = Idle /\ w'["durable"] = w["durable"] /\ w'["state"] = w["state"]
  BY <1>1, <1>3 DEF WorkersOK, Stages
<1>6. WorkersOK' /\ QueuesOK'
  BY <1>1, <1>3, IdleIs DEF WorkersOK, QueuesOK
<1>7. Stored' = Stored /\ Processed' = Processed
  BY <1>3 DEF Stored, Processed
<1>8. ToState' = ToState
  BY <1>3, <1>5 DEF ToState
<1>9. ToArchive' = ToArchive
  BY <1>2, <1>3, <1>5, IdleIs, RangeEmpty DEF ToArchive, ArchiveLine, Line
<1>10. Range(b) \subseteq Events
  BY RangeIs
<1>11. StoreOK' /\ RowsAreStored'
  BY <1>1, <1>3, <1>7, <1>10 DEF StoreOK, RowsAreStored
<1>12. ProcessOK'
  BY <1>1, <1>3 DEF ProcessOK, bounds
<1>13. Figures'
  BY <1>1, <1>3, <1>7 DEF Figures, bounds
<1>14. Workers'
  <2>1. \A s \in Stages : w'[s].pc \in {"idle", "dead"} => w'[s].batch = <<>>
    BY <1>1, <1>5, IdleIs DEF Workers, Stages
  <2> QED BY <1>1, <1>3, <1>4, <1>5, <2>1, IdleIs DEF Workers
<1>15. LinesAreStored'
  BY <1>1, <1>3, <1>5, <1>7, <1>8, <1>9 DEF LinesAreStored
<1> QED BY <1>2, <1>3, <1>4, <1>5, <1>6, <1>7, <1>8, <1>9, <1>11, <1>12, <1>13, <1>14, <1>15, Whole

(* The beginning of a stop keeps the tables. *)
LEMMA BeginStopTables == ASSUME Tables, BeginStop PROVE Tables'
<1>1. StoreOK /\ ProcessOK /\ QueuesOK /\ WorkersOK /\ RowsAreStored /\ Workers /\ LinesAreStored
      /\ Figures
  BY Parts
<1>2. /\ phase = "running" /\ phase' = "stopping" /\ (faults' = faults \/ faults' = faults + 1)
      /\ UNCHANGED <<store, mem, inc, quarantine, todo, next, q, w, own, seen, fatal, zombie,
                     duplicates, takeovers>>
  BY DEF BeginStop
<1>3. /\ StoreOK' /\ RowsAreStored' /\ Stored' = Stored /\ Processed' = Processed
      /\ raw' = raw /\ effects' = effects /\ points' = points /\ archived' = archived
  BY <1>1, <1>2, StoreSame
<1>4. ProcessOK'
  BY <1>1, <1>2 DEF ProcessOK
<1>5. Figures'
  BY <1>1, <1>2, <1>3 DEF Figures
<1>6. Workers'
  BY <1>1, <1>2 DEF Workers, Live
<1>7. QueuesOK' /\ WorkersOK' /\ ToState' = ToState /\ ToArchive' = ToArchive
  BY <1>1, <1>2, <1>3, LinesSame
<1>8. LinesAreStored'
  BY <1>1, <1>2, <1>3, <1>7 DEF LinesAreStored
<1> QED BY <1>3, <1>4, <1>5, <1>6, <1>7, <1>8, Whole

(* A late answer of a process that lost the lease. *)
LEMMA ZombieTables ==
    ASSUME Tables, StoreOK', RowsAreStored', Stored' = Stored, raw' = raw, archived' = archived,
           points'.durable = points.durable, points'.state <= Len(raw),
           \A e \in Events : effects'[e] = IF e \in Processed' THEN 1 ELSE 0,
           zombie' = NoZombie, zombie # NoZombie,
           UNCHANGED <<mem, inc, phase, quarantine, todo, next, q, w, own, seen, fatal, bounds>>
    PROVE  Tables' /\ ToState' = ToState /\ ToArchive' = ToArchive /\ takeovers # 0
<1>1. StoreOK /\ ProcessOK /\ QueuesOK /\ WorkersOK /\ RowsAreStored /\ Workers /\ LinesAreStored
      /\ Figures
  BY Parts
<1>2. NoZombie \in [tok : Nat, batch : Seq(Events)] /\ NoZombie.tok = 0
  BY DEF NoZombie
<1>3. ProcessOK'
  BY <1>1, <1>2 DEF ProcessOK, bounds
<1>4. Figures'
  <2>1. zombie'.tok = 0 /\ inc \in Nat /\ zombie.tok \in Nat
    BY <1>1, <1>2 DEF ProcessOK
  <2> QED BY <1>1, <1>2, <2>1 DEF Figures, bounds
<1>5. Workers'
  BY <1>1 DEF Workers, Live
<1>6. QueuesOK' /\ WorkersOK' /\ ToState' = ToState /\ ToArchive' = ToArchive
  BY <1>1, LinesSame
<1>7. LinesAreStored'
  BY <1>1, <1>6 DEF LinesAreStored
<1>8. takeovers # 0
  BY <1>1 DEF Figures
<1> QED BY <1>3, <1>4, <1>5, <1>6, <1>7, <1>8, Whole

(* The open batch of a former process has its types. *)
LEMMA ZombieBatch == ASSUME ProcessOK PROVE zombie.batch \in Seq(Events) /\ zombie.tok \in Nat
  BY DEF ProcessOK

(* A former process that still holds its claims counts its effects once. *)
LEMMA ZombieCommitsTables ==
    ASSUME Tables, ZombieCommits
    PROVE  Tables' /\ ToState' = ToState /\ ToArchive' = ToArchive /\ takeovers # 0
<1>1. StoreOK /\ ProcessOK /\ RowsAreStored /\ Figures
  BY Parts
<1>2. PICK b \in Seq(Events) : b = zombie.batch
  BY <1>1, ZombieBatch
<1>3. /\ zombie # NoZombie /\ Holds(b, zombie.tok) /\ CommitState(b) /\ zombie' = NoZombie
      /\ UNCHANGED <<mem, inc, phase, quarantine, todo, next, q, w, own, seen, fatal, bounds>>
  BY <1>2 DEF ZombieCommits
<1>4. /\ StoreOK' /\ RowsAreStored' /\ Stored' = Stored
      /\ raw' = raw /\ archived' = archived /\ points'.durable = points.durable
      /\ points'.state <= Len(raw)
      /\ \A e \in Events : effects'[e] = IF e \in Processed' THEN 1 ELSE 0
  <2>1. PICK t : t = zombie.tok
    OBVIOUS
  <2> QED BY <1>3, <2>1, CommitIs
<1> QED BY <1>3, <1>4, ZombieTables

(* A former process that fails marks what it still holds as failed. *)
LEMMA ZombieFailsTables ==
    ASSUME Tables, ZombieFails
    PROVE  Tables' /\ ToState' = ToState /\ ToArchive' = ToArchive /\ takeovers # 0
<1>1. StoreOK /\ ProcessOK /\ RowsAreStored /\ Figures
  BY Parts
<1>2. PICK b \in Seq(Events), t \in Nat : b = zombie.batch /\ t = zombie.tok
  BY <1>1, ZombieBatch
<1>3. /\ zombie # NoZombie /\ MarkFailed(b, t) /\ zombie' = NoZombie
      /\ UNCHANGED <<mem, inc, phase, quarantine, todo, next, q, w, own, seen, fatal, bounds>>
  BY <1>2 DEF ZombieFails
<1>4. /\ StoreOK' /\ RowsAreStored' /\ Stored' = Stored /\ Processed' = Processed
      /\ raw' = raw /\ effects' = effects /\ points' = points /\ archived' = archived
  BY <1>1, <1>3, MarkFailedIs
<1>5. /\ \A e \in Events : effects'[e] = IF e \in Processed' THEN 1 ELSE 0
      /\ points'.durable = points.durable /\ points'.state <= Len(raw)
  BY <1>1, <1>4 DEF Figures
<1> QED BY <1>3, <1>4, <1>5, ZombieTables

(* The first invariant holds at the start. *)
LEMMA InitTables == ASSUME Init PROVE Tables
<1>1. /\ bad \in BadSets /\ row = [e \in Events |-> NoRow] /\ raw = <<>> /\ effects = [e \in Events |-> 0]
      /\ points = [durable |-> 0, state |-> 0] /\ archived = {}
      /\ mem = {} /\ inc = 0 /\ phase = "down" /\ quarantine = FALSE /\ todo = <<>> /\ next = 1
      /\ q = [s \in Stages |-> <<>>] /\ w = [s \in Stages |-> Idle]
      /\ own = {} /\ seen = {} /\ fatal = "no" /\ zombie = NoZombie
      /\ duplicates = 0 /\ faults = 0 /\ takeovers = 0
  BY DEF Init
<1>2. NoRow \in Rows /\ NoRow.st = "NONE"
  BY DEF NoRow, Rows, Statuses
<1>3. StoreOK
  BY <1>1, <1>2 DEF StoreOK
<1>4. ProcessOK
  <2>1. NoZombie \in [tok : Nat, batch : Seq(Events)] /\ 1 \in 1..(N + 1)
    BY PipelineAssumption DEF NoZombie
  <2>2. /\ mem \in SUBSET Events /\ own \in SUBSET Events /\ seen \in SUBSET Events
        /\ inc \in Nat /\ next \in 1..(N + 1) /\ todo \in Seq(Events)
        /\ duplicates \in Nat /\ faults \in Nat /\ takeovers \in Nat
    BY <1>1, <2>1
  <2>3. quarantine \in BOOLEAN
    BY <1>1
  <2> QED BY <1>1, <2>1, <2>2, <2>3 DEF ProcessOK
<1>5. QueuesOK /\ WorkersOK
  BY <1>1, IdleIs DEF QueuesOK, WorkersOK
<1>6. \A s \in Stages : w[s].pc = "idle" /\ w[s].batch = <<>>
  BY <1>1, IdleIs
<1>7. Workers
  BY <1>1, <1>6 DEF Workers, Stages
<1>8. Stored = {} /\ Range(todo) = {}
  BY <1>1, RangeEmpty DEF Stored
<1>9. ToState = {} /\ ToArchive = {}
  BY <1>1, NoLines
<1>10. LinesAreStored
  BY <1>6, <1>8, <1>9 DEF LinesAreStored, Stages
<1>11. RowsAreStored
  <2>1. IsInjective(raw)
    BY <1>1 DEF IsInjective
  <2> QED BY <1>1, <1>2, <1>8, <2>1 DEF RowsAreStored
<1>12. Figures
  <2>1. Processed = {}
    BY <1>1, <1>2 DEF Processed
  <2>2. Len(raw) = 0
    BY <1>1
  <2> QED BY <1>1, <2>1, <2>2 DEF Figures, NoZombie
<1> QED BY <1>3, <1>4, <1>5, <1>7, <1>10, <1>11, <1>12, TypeParts DEF Tables

(* A stuttering step keeps the first invariant. *)
LEMMA StutterTables == ASSUME Tables, UNCHANGED vars PROVE Tables'
<1>1. UNCHANGED store /\ UNCHANGED <<mem, inc, phase, quarantine, todo, next, q, w, own, seen, fatal, zombie>>
      /\ UNCHANGED bounds
  BY DEF vars
<1>2. StoreOK /\ ProcessOK /\ QueuesOK /\ WorkersOK /\ RowsAreStored /\ Workers /\ LinesAreStored
      /\ Figures
  BY Parts
<1>3. /\ StoreOK' /\ RowsAreStored' /\ Stored' = Stored /\ Processed' = Processed
      /\ raw' = raw /\ effects' = effects /\ points' = points /\ archived' = archived
  BY <1>1, <1>2, StoreSame
<1>4. QueuesOK' /\ WorkersOK' /\ ToState' = ToState /\ ToArchive' = ToArchive
  BY <1>1, <1>2, <1>3, LinesSame
<1>5. ProcessOK'
  BY <1>1, <1>2 DEF ProcessOK, bounds
<1>6. Workers' /\ LinesAreStored'
  BY <1>1, <1>2, <1>3, <1>4 DEF Workers, Live, LinesAreStored
<1>7. Figures'
  BY <1>1, <1>2, <1>3 DEF Figures, bounds
<1> QED BY <1>3, <1>4, <1>5, <1>6, <1>7, Whole

(* Every step keeps the first invariant. *)
LEMMA NextTables == ASSUME Tables, [Next]_vars PROVE Tables'
<1>1. CASE Start
  BY <1>1, BootTables, LoadTodoTables, RecoverClaimTables, RecoverApplyTables, EndRecoveryTables,
     ArchiveRecoveryTables DEF Start
<1>2. CASE Work
  BY <1>2, TakeTables, DurableInsertTables, DurableCheckpointTables, EnqueueTables, StateCommitTables,
     ArchiveBatchTables DEF Work
<1>3. CASE Fault
  BY <1>3, RecoverFailsTables, DurableInsertLostTables, DurableCheckpointFailsTables, StateFailsTables,
     StateCommitLostTables, CrashTables, TakeoverTables DEF Fault
<1>4. CASE \E e \in Events : Deliver(e)
  BY <1>4, DeliverTables
<1>5. CASE BeginStop \/ StopDrained \/ StopTimesOut \/ ZombieCommits \/ ZombieFails
  BY <1>5, BeginStopTables, StopDrainedTables, StopTimesOutTables, ZombieCommitsTables, ZombieFailsTables
<1>6. CASE UNCHANGED vars
  BY <1>6, StutterTables
<1> QED BY <1>1, <1>2, <1>3, <1>4, <1>5, <1>6 DEF Next

(* The rows of event_dedup and raw_chain_events agree, a stored event has   *)
(* one sequence, what a stage has in line is stored, and a commit changes   *)
(* effects and checkpoint together with the claims.                         *)
THEOREM SpecTables == Spec => []Tables
<1>1. Init => Tables
  BY InitTables
<1>2. Tables /\ [Next]_vars => Tables'
  BY NextTables
<1> QED BY <1>1, <1>2, PTL DEF Spec

(* Every variable keeps its type. *)
THEOREM SpecTypeOK == Spec => []TypeOK
<1>1. Tables => TypeOK
  BY DEF Tables
<1> QED BY <1>1, SpecTables, PTL

(* The state of an event is committed at most once, whatever is lost,       *)
(* repeated or restarted: the claims of mark_events_processed fence it.     *)
THEOREM SpecAppliedOnce == Spec => []AppliedOnce
<1>1. Tables => AppliedOnce
  BY DEF Tables, Figures, AppliedOnce
<1> QED BY <1>1, SpecTables, PTL

-----------------------------------------------------------------------------
(* The inductive invariant: what is in line is handed on, in the order of   *)
(* raw_chain_events                                                         *)

(* The claims of this process. *)
Mine(e) == row[e].st = "PROCESSING" /\ row[e].tok = inc /\ e \in own

(* With a stream, an open row that has not failed has a token of this       *)
(* process; while the state worker lives every open row is claimed; and     *)
(* while the durable worker claims, so is every row it has not handed on.   *)
RowsAreHeld == Live => \A e \in Stored : \/ row[e].st \in {"PROCESSED", "FAILED"}
                                         \/ row[e].st = "PROCESSING" /\ row[e].tok = inc
OpenIsMine == Alive => \A e \in Stored : e \in Processed \/ Mine(e)
LateIsMine == Live /\ w["durable"].pc \in {"work", "save"} =>
                  \A e \in Stored : e \in ToArchive \/ Mine(e)

(* Every stored event is done, or in line for the stage, or the durable     *)
(* worker still has it.                                                     *)
StateHandedOn ==
    Alive => \A e \in Stored :
        \/ e \in Processed \/ e \in ToState
        \/ w["durable"].pc \in {"work", "save", "put state"} /\ e \in Range(w["durable"].batch)
ArchiveHandedOn ==
    phase \in {"running", "stopping"} => \A e \in Stored :
        e \in ToArchive \/ e \in Range(w["durable"].batch)
StateBeforeArchive ==
    Live => \A e \in ToState :
        e \in ToArchive \/ (w["durable"].pc = "put archive" /\ e \in Range(w["durable"].batch))

(* The stages work in the order of raw_chain_events, and so does a process  *)
(* that lost the lease as long as it holds its claims.                      *)
StateInOrder ==
    /\ Closed(Processed, raw)
    /\ Alive => \A k \in 0..Len(q["state"]) : Closed(StateLine(k), raw)
ArchiveInOrder ==
    /\ Closed(archived, raw)
    /\ Live => \A k \in 0..Len(q["archive"]) : Closed(ArchiveLine(k), raw)
ZombieOrder == Holds(zombie.batch, zombie.tok) => Closed(Processed \cup Range(zombie.batch), raw)

(* The recovery of start(). *)
Recovery ==
    /\ phase = "loading" /\ ~quarantine => Exhausted = {}
    /\ phase = "recovering" /\ quarantine => todo = <<>>
    /\ phase = "recovering" /\ ~quarantine =>
           /\ Stored \ Processed \subseteq Range(todo)
           /\ \A k \in 0..Len(todo) : Closed(Processed \cup Prefix(todo, k), raw)
    /\ phase = "archiving" /\ ~quarantine => Stored \subseteq Processed

(* The state checkpoint and the memory. *)
Reached ==
    /\ \A i \in 1..points.state : raw[i] \in Processed
    /\ takeovers = 0 /\ phase # "down" /\ ~quarantine => Processed \subseteq mem

Flow == /\ RowsAreHeld /\ OpenIsMine /\ LateIsMine
        /\ StateHandedOn /\ ArchiveHandedOn /\ StateBeforeArchive
        /\ StateInOrder /\ ArchiveInOrder /\ ZombieOrder /\ Recovery /\ Reached

(* The claims of a process that lost the lease are not given to it again. *)
LEMMA ZombieKept ==
    ASSUME StoreOK, ProcessOK, RowsAreStored, ZombieOrder, Fenced, zombie' = zombie,
           Processed \subseteq Processed', Closed(Processed', raw'),
           \A S \in SUBSET Stored : Closed(S, raw) => Closed(S, raw')
    PROVE  ZombieOrder'
<1>1. PICK b \in Seq(Events), t \in Nat : b = zombie.batch /\ t = zombie.tok
  BY ZombieBatch
<1>2. SUFFICES ASSUME \A e \in Range(b) : row'[e].st = "PROCESSING" /\ row'[e].tok = t
               PROVE  Closed(Processed' \cup Range(b), raw')
  BY <1>1 DEF ZombieOrder, Holds
<1>3. Range(b) \subseteq Events
  BY RangeIs
<1>4. \A e \in Range(b) : row[e].st = "PROCESSING" /\ row[e].tok = t
  BY <1>1, <1>2, <1>3 DEF Fenced
<1>5. Closed(Processed \cup Range(b), raw)
  BY <1>1, <1>4 DEF ZombieOrder, Holds
<1>6. Processed \cup Range(b) \in SUBSET Stored
  BY <1>3, <1>4, ProcessedStored DEF RowsAreStored
<1>7. Closed(Processed \cup Range(b), raw')
  BY <1>5, <1>6
<1>8. Closed(Processed' \cup (Processed \cup Range(b)), raw')
  BY <1>7, ClosedUnion
<1>9. Processed' \cup (Processed \cup Range(b)) = Processed' \cup Range(b)
  OBVIOUS
<1> QED BY <1>8, <1>9

(* A step that leaves the claims alone is fenced. *)
LEMMA FencedSame == ASSUME row' = row PROVE Fenced
  BY DEF Fenced

(* A process that ends. *)
LEMMA GoneFlow ==
    ASSUME Flow, phase' = "down", Processed' = Processed, raw' = raw, archived' = archived,
           points' = points, ZombieOrder'
    PROVE  Flow'
<1>1. ~Live' /\ ~Alive'
  BY DEF Live, Alive
<1>2. RowsAreHeld' /\ OpenIsMine' /\ LateIsMine' /\ StateHandedOn' /\ ArchiveHandedOn' /\ StateBeforeArchive'
  BY <1>1 DEF RowsAreHeld, OpenIsMine, LateIsMine, StateHandedOn, ArchiveHandedOn, StateBeforeArchive
<1>3. StateInOrder' /\ ArchiveInOrder'
  BY <1>1 DEF Flow, StateInOrder, ArchiveInOrder
<1>4. Recovery' /\ Reached'
  BY DEF Flow, Recovery, Reached
<1> QED BY <1>2, <1>3, <1>4 DEF Flow

(* The parts of the second invariant. *)
LEMMA FlowParts ==
    ASSUME Flow
    PROVE  /\ RowsAreHeld /\ OpenIsMine /\ LateIsMine
           /\ StateHandedOn /\ ArchiveHandedOn /\ StateBeforeArchive
           /\ StateInOrder /\ ArchiveInOrder /\ ZombieOrder /\ Recovery /\ Reached
           /\ Closed(Processed, raw) /\ Closed(archived, raw)
  BY DEF Flow, StateInOrder, ArchiveInOrder

(* A drained stop or a crash leaves the order of the tables. *)
LEMMA StopFlow == ASSUME Tables, Flow, StopDrained \/ Crash PROVE Flow'
<1>1. phase' = "down" /\ UNCHANGED store /\ zombie' = zombie
  BY DEF StopDrained, Crash, Gone
<1>2. StoreOK /\ ProcessOK /\ RowsAreStored
  BY Parts
<1>3. /\ Processed' = Processed /\ row' = row /\ raw' = raw /\ points' = points /\ archived' = archived
  BY <1>1, <1>2, StoreSame
<1>4. ZombieOrder'
  BY <1>1, <1>2, <1>3, FlowParts, FencedSame, ZombieKept
<1> QED BY <1>1, <1>3, <1>4, GoneFlow

(* Marking a batch as failed gives nobody a claim. *)
LEMMA FailedFenced ==
    ASSUME StoreOK, RowsAreStored, NEW b \in Seq(Events), NEW tok, MarkFailed(b, tok)
    PROVE  Fenced
  BY MarkFailedIs DEF Fenced

(* A stop or a recovery that gives up leaves the order of the tables. *)
LEMMA GivenUpFlow == ASSUME Tables, Flow, StopTimesOut \/ RecoverFails PROVE Flow'
<1>1. StoreOK /\ ProcessOK /\ RowsAreStored /\ WorkersOK
  BY Parts
<1>2. PICK b \in Seq(Events) : MarkFailed(b, inc) /\ phase' = "down" /\ zombie' = zombie
  <2>1. CASE StopTimesOut
    <3>1. StateBatch \in Seq(Events)
      BY <1>1, StageOK DEF WorkersOK, Workloads, StateBatch, Stages
    <3> QED BY <2>1, <3>1 DEF StopTimesOut, Gone
  <2>2. CASE RecoverFails
    <3>1. <<Head(todo)>> \in Seq(Events)
      BY <1>1, <2>2, HeadIs DEF RecoverFails
    <3> QED BY <2>2, <3>1 DEF RecoverFails, Gone
  <2> QED BY <2>1, <2>2
<1>3. /\ Processed' = Processed /\ raw' = raw /\ points' = points /\ archived' = archived
  BY <1>1, <1>2, MarkFailedIs
<1>4. Fenced
  BY <1>1, <1>2, FailedFenced
<1>5. ZombieOrder'
  BY <1>1, <1>2, <1>3, <1>4, FlowParts, ZombieKept
<1> QED BY <1>2, <1>3, <1>5, GoneFlow

(* The line without queued batches is what is done and what is in work. *)
LEMMA LineNone == ASSUME NEW done, NEW b, NEW qs PROVE Line(done, b, qs, 0) = done \cup Range(b)
  BY HeadsNone DEF Line

(* The batch left open by a takeover is the next in ingest order. *)
LEMMA TakeoverFlow == ASSUME Tables, Flow, Takeover PROVE Flow'
<1>1. /\ phase' = "down" /\ UNCHANGED store /\ zombie' = [tok |-> inc, batch |-> StateBatch]
      /\ w["state"].pc = "work"
  BY DEF Takeover, Gone
<1>2. StoreOK /\ ProcessOK /\ RowsAreStored /\ Workers /\ WorkersOK /\ QueuesOK
  BY Parts
<1>3. /\ Processed' = Processed /\ row' = row /\ raw' = raw /\ points' = points /\ archived' = archived
  BY <1>1, <1>2, StoreSame
<1>4. Alive
  BY <1>1, <1>2, BusyIsLive DEF Alive, Stages
<1>5. 0 \in 0..Len(q["state"])
  <2>1. q["state"] \in Seq(Seq(Events))
    BY <1>2, StageOK DEF Stages
  <2> QED BY <2>1
<1>6. Closed(Processed \cup Range(StateBatch), raw)
  BY <1>4, <1>5, FlowParts, LineNone DEF StateInOrder, StateLine, StateBatch
<1>7. ZombieOrder'
  BY <1>1, <1>3, <1>6 DEF ZombieOrder
<1> QED BY <1>1, <1>3, <1>7, GoneFlow

-----------------------------------------------------------------------------
(* What a step of the stream or a worker keeps of Flow *)

(* The rows and the process stay. *)
LEMMA KeptFlow ==
    ASSUME Tables, Flow, row' = row, raw' = raw, points'.state = points.state,
           UNCHANGED <<mem, inc, quarantine, todo, own, zombie, takeovers>>,
           phase' = phase \/ (phase = "running" /\ phase' = "stopping"), Alive' => Alive
    PROVE  /\ RowsAreHeld' /\ OpenIsMine' /\ ZombieOrder' /\ Recovery' /\ Reached'
           /\ (Live' <=> Live) /\ Stored' = Stored /\ Processed' = Processed
           /\ \A e : Mine(e)' <=> Mine(e)
           /\ Closed(Processed', raw') /\ (archived' = archived => Closed(archived', raw'))
<1>1. StoreOK /\ ProcessOK /\ RowsAreStored
  BY Parts
<1>2. /\ RowsAreHeld /\ OpenIsMine /\ ZombieOrder /\ Recovery /\ Reached
      /\ Closed(Processed, raw) /\ Closed(archived, raw)
  BY FlowParts
<1>3. Stored' = Stored /\ Processed' = Processed /\ (Live' <=> Live)
  BY DEF Stored, Processed, Live
<1>4. \A e : Mine(e)' <=> Mine(e)
  BY DEF Mine
<1>5. RowsAreHeld' /\ OpenIsMine'
  BY <1>2, <1>3, <1>4 DEF RowsAreHeld, OpenIsMine
<1>6. Closed(Processed', raw') /\ (archived' = archived => Closed(archived', raw'))
  BY <1>2, <1>3
<1>7. ZombieOrder'
  BY <1>1, <1>2, <1>3, <1>6, FencedSame, ZombieKept
<1>8. Recovery'
  <2>1. Exhausted' = Exhausted
    BY <1>3 DEF Exhausted
  <2> QED BY <1>2, <1>3, <2>1 DEF Recovery
<1>9. Reached'
  BY <1>2, <1>3 DEF Reached
<1> QED BY <1>3, <1>4, <1>5, <1>6, <1>7, <1>8, <1>9

(* Fewer batches hold fewer events. *)
LEMMA HeadsIn == ASSUME NEW qs, NEW n \in Nat, NEW k \in 0..n PROVE Heads(qs, k) \subseteq Heads(qs, n)
<1>1. \A i \in 1..k : i \in 1..n
  OBVIOUS
<1> QED BY <1>1 DEF Heads

(* What is in line is stored. *)
LEMMA LineStored ==
    ASSUME StoreOK, RowsAreStored, LinesAreStored, QueuesOK
    PROVE  /\ \A k \in 0..Len(q["state"]) : StateLine(k) \in SUBSET Stored
           /\ \A k \in 0..Len(q["archive"]) : ArchiveLine(k) \in SUBSET Stored
<1>1. q["state"] \in Seq(Seq(Events)) /\ q["archive"] \in Seq(Seq(Events))
  BY DEF QueuesOK, Stages
<1>2. Len(q["state"]) \in Nat /\ Len(q["archive"]) \in Nat
  BY <1>1
<1>3. Processed \subseteq Stored
  BY ProcessedStored
<1>4. ASSUME NEW k \in 0..Len(q["state"]) PROVE StateLine(k) \subseteq Stored
  <2>1. Heads(q["state"], k) \subseteq Heads(q["state"], Len(q["state"]))
    BY <1>2, HeadsIn
  <2> QED BY <1>3, <2>1 DEF StateLine, ToState, Line, LinesAreStored
<1>5. ASSUME NEW k \in 0..Len(q["archive"]) PROVE ArchiveLine(k) \subseteq Stored
  <2>1. Heads(q["archive"], k) \subseteq Heads(q["archive"], Len(q["archive"]))
    BY <1>2, HeadsIn
  <2> QED BY <2>1 DEF ArchiveLine, ToArchive, Line, LinesAreStored
<1> QED BY <1>4, <1>5

(* A stage whose line stays. *)
LEMMA StateOrderSame ==
    ASSUME Tables, StateInOrder, Alive' => Alive, w'["state"].batch = w["state"].batch,
           q'["state"] = q["state"], Processed' = Processed,
           \A S \in SUBSET Stored : Closed(S, raw) => Closed(S, raw')
    PROVE  StateInOrder'
<1>1. StoreOK /\ RowsAreStored /\ LinesAreStored /\ QueuesOK
  BY Parts
<1>2. /\ \A k \in 0..Len(q["state"]) : StateLine(k) \in SUBSET Stored
      /\ Processed \in SUBSET Stored
  BY <1>1, LineStored, ProcessedStored
<1>3. \A k : StateLine(k)' = StateLine(k)
  BY DEF StateLine
<1> QED BY <1>2, <1>3 DEF StateInOrder

(* An untouched archive line stays in order while rows are only added. *)
LEMMA ArchiveOrderSame ==
    ASSUME Tables, ArchiveInOrder, Live' => Live, w'["archive"].batch = w["archive"].batch,
           q'["archive"] = q["archive"], archived' = archived,
           \A S \in SUBSET Stored : Closed(S, raw) => Closed(S, raw')
    PROVE  ArchiveInOrder'
<1>1. StoreOK /\ RowsAreStored /\ LinesAreStored /\ QueuesOK
  BY Parts
<1>2. /\ \A k \in 0..Len(q["archive"]) : ArchiveLine(k) \in SUBSET Stored
      /\ archived \in SUBSET Stored
  BY <1>1, LineStored, ArchivedStored
<1>3. \A k : ArchiveLine(k)' = ArchiveLine(k)
  BY DEF ArchiveLine
<1> QED BY <1>2, <1>3 DEF ArchiveInOrder

(* Nothing happens to the workers behind the durable queue. *)
LEMMA QuietFlow ==
    ASSUME Tables, Flow, UNCHANGED store, UNCHANGED <<mem, inc, quarantine, todo, own, zombie, takeovers, w>>,
           phase' = phase \/ (phase = "running" /\ phase' = "stopping"),
           q'["state"] = q["state"], q'["archive"] = q["archive"]
    PROVE  Flow'
<1>1. row' = row /\ raw' = raw /\ archived' = archived /\ points' = points
  BY DEF store
<1>2. Live' <=> Live
  BY DEF Live
<1>3. Alive' <=> Alive
  BY <1>2 DEF Alive
<1>4. /\ RowsAreHeld' /\ OpenIsMine' /\ ZombieOrder' /\ Recovery' /\ Reached'
      /\ Stored' = Stored /\ Processed' = Processed
      /\ \A e : Mine(e)' <=> Mine(e)
  BY <1>1, <1>3, KeptFlow
<1>5. /\ LateIsMine /\ StateHandedOn /\ ArchiveHandedOn /\ StateBeforeArchive /\ StateInOrder
      /\ ArchiveInOrder
  BY FlowParts
<1>6. StateInOrder' /\ ArchiveInOrder'
  BY <1>1, <1>2, <1>3, <1>4, <1>5, StateOrderSame, ArchiveOrderSame
<1>7. ToState' = ToState /\ ToArchive' = ToArchive
  BY <1>1 DEF ToState, ToArchive, ArchiveLine
<1>8. LateIsMine' /\ StateHandedOn' /\ ArchiveHandedOn' /\ StateBeforeArchive'
  BY <1>2, <1>3, <1>4, <1>5, <1>7 DEF LateIsMine, StateHandedOn, ArchiveHandedOn, StateBeforeArchive
<1> QED BY <1>4, <1>6, <1>8 DEF Flow

(* A delivery touches nothing behind the durable queue. *)
LEMMA DeliverFlow == ASSUME Tables, Flow, NEW e \in Events, Deliver(e) PROVE Flow'
<1>1. /\ UNCHANGED store /\ UNCHANGED <<mem, inc, phase, quarantine, todo, w, own, zombie, takeovers>>
      /\ q' = [q EXCEPT !["durable"] = Append(q["durable"], <<e>>)]
  BY DEF Deliver
<1>2. QueuesOK
  BY Parts
<1>3. q'["state"] = q["state"] /\ q'["archive"] = q["archive"]
  BY <1>1, <1>2 DEF QueuesOK, Stages
<1> QED BY <1>1, <1>3, QuietFlow

(* The beginning of a stop leaves the lines as they are. *)
LEMMA BeginStopFlow == ASSUME Tables, Flow, BeginStop PROVE Flow'
<1>1. /\ UNCHANGED store /\ UNCHANGED <<mem, inc, quarantine, todo, q, w, own, zombie, takeovers>>
      /\ phase = "running" /\ phase' = "stopping"
  BY DEF BeginStop
<1> QED BY <1>1, QuietFlow

(* A stuttering step keeps the second invariant. *)
LEMMA StutterFlow == ASSUME Tables, Flow, UNCHANGED vars PROVE Flow'
<1>1. /\ UNCHANGED store /\ UNCHANGED <<mem, inc, phase, quarantine, todo, q, w, own, zombie, takeovers>>
  BY DEF vars, bounds
<1> QED BY <1>1, QuietFlow


-----------------------------------------------------------------------------
(* start() *)

(* While a process starts, only the tables and its recovery have an order. *)
LEMMA StartFlow ==
    ASSUME phase' \notin {"running", "stopping"}, ZombieOrder', Closed(Processed', raw'),
           Closed(archived', raw'), Recovery', Reached'
    PROVE  Flow'
<1>1. ~Live' /\ ~Alive'
  BY DEF Live, Alive
<1>2. RowsAreHeld' /\ OpenIsMine' /\ LateIsMine' /\ StateHandedOn' /\ ArchiveHandedOn' /\ StateBeforeArchive'
  BY <1>1 DEF RowsAreHeld, OpenIsMine, LateIsMine, StateHandedOn, ArchiveHandedOn, StateBeforeArchive
<1>3. StateInOrder' /\ ArchiveInOrder'
  BY <1>1 DEF StateInOrder, ArchiveInOrder
<1> QED BY <1>2, <1>3 DEF Flow

(* With the processed rows in front, the prefix has all of them. *)
LEMMA PrefixIsAll ==
    ASSUME StoreOK, RowsAreStored, Closed(Processed, raw)
    PROVE  Processed \subseteq {raw[i] : i \in ProcessedPrefix}
<1>1. raw \in Seq(Events) /\ Processed \subseteq Stored
  BY ProcessedStored DEF StoreOK
<1>2. SUFFICES ASSUME NEW e \in Processed PROVE \E i \in ProcessedPrefix : raw[i] = e
  OBVIOUS
<1>3. PICK i \in 1..Len(raw) : raw[i] = e
  BY <1>1, RangeIs DEF Stored
<1>4. ASSUME NEW j \in Unresolved PROVE i < j
  <2>1. j \in 1..Len(raw) /\ raw[j] \notin Processed
    BY DEF Unresolved
  <2>2. j # i /\ ~(j < i)
    BY <1>2, <1>3, <2>1 DEF Closed
  <2> QED BY <2>1, <2>2
<1> QED BY <1>3, <1>4 DEF ProcessedPrefix

(* Rehydration applies every processed event, since they are a prefix. *)
LEMMA BootFlow == ASSUME Tables, Flow, Boot PROVE Flow'
<1>1. /\ phase' = "loading" /\ UNCHANGED store /\ zombie' = zombie
      /\ mem' = {raw[i] : i \in ProcessedPrefix} /\ quarantine' = Quarantined
  BY DEF Boot
<1>2. StoreOK /\ ProcessOK /\ RowsAreStored
  BY Parts
<1>3. /\ Stored' = Stored /\ Processed' = Processed
      /\ row' = row /\ raw' = raw /\ points' = points /\ archived' = archived
  BY <1>1, <1>2, StoreSame
<1>4. ZombieOrder /\ Reached /\ Closed(Processed, raw) /\ Closed(archived, raw)
  BY FlowParts
<1>5. ZombieOrder'
  BY <1>1, <1>2, <1>3, <1>4, FencedSame, ZombieKept
<1>6. Recovery'
  <2>1. Exhausted' = Exhausted
    BY <1>3 DEF Exhausted
  <2> QED BY <1>1, <2>1 DEF Recovery, Quarantined
<1>7. Processed \subseteq mem'
  BY <1>1, <1>2, <1>4, PrefixIsAll
<1>8. Reached'
  BY <1>3, <1>4, <1>7 DEF Reached
<1> QED BY <1>1, <1>3, <1>4, <1>5, <1>6, <1>8, StartFlow

(* The events to recover are all open ones, in ingest order. *)
LEMMA LoadTodoFlow == ASSUME Tables, Flow, LoadTodo PROVE Flow'
<1>1. /\ phase = "loading" /\ phase' = "recovering" /\ UNCHANGED store
      /\ todo' = IF quarantine THEN <<>> ELSE LoadUnprocessed
      /\ UNCHANGED <<mem, quarantine, zombie, takeovers>>
  BY DEF LoadTodo, bounds
<1>2. StoreOK /\ ProcessOK /\ RowsAreStored
  BY Parts
<1>3. /\ Stored' = Stored /\ Processed' = Processed
      /\ row' = row /\ raw' = raw /\ points' = points /\ archived' = archived
  BY <1>1, <1>2, StoreSame
<1>4. ZombieOrder /\ Recovery /\ Reached /\ Closed(Processed, raw) /\ Closed(archived, raw)
  BY FlowParts
<1>5. ZombieOrder'
  BY <1>1, <1>2, <1>3, <1>4, FencedSame, ZombieKept
<1>6. Reached'
  BY <1>1, <1>3, <1>4 DEF Reached
<1>7. ASSUME ~quarantine
      PROVE  /\ Stored \ Processed \subseteq Range(todo')
             /\ \A k \in 0..Len(todo') : Closed(Processed \cup Prefix(todo', k), raw)
  <2>1. PICK A : A = {e \in Events : row[e].st \in {"FAILED", "PROCESSING"} /\ row[e].att < MaxAttempts}
    OBVIOUS
  <2>2. todo' = FirstOf(raw, A)
    BY <1>1, <1>7, <2>1 DEF LoadUnprocessed
  <2>3. Exhausted = {}
    BY <1>1, <1>4, <1>7 DEF Recovery
  <2>4. Stored \subseteq Processed \cup A
    <3> SUFFICES ASSUME NEW e \in Stored, e \notin Processed PROVE e \in A
      OBVIOUS
    <3>1. e \in Events
      BY <1>2, StoredIs
    <3>2. row[e] \in Rows /\ row[e].st # "NONE"
      BY <1>2, <3>1 DEF StoreOK, RowsAreStored
    <3>3. row[e].st \in {"FAILED", "PROCESSING"}
      BY <3>1, <3>2 DEF Rows, Statuses, Processed
    <3>4. ~(row[e].att >= MaxAttempts)
      BY <2>3, <3>3 DEF Exhausted
    <3>5. row[e].att < MaxAttempts
      BY <3>2, <3>4, PipelineAssumption DEF Rows
    <3> QED BY <2>1, <3>1, <3>3, <3>5
  <2>5. raw \in Seq(Events) /\ IsInjective(raw)
    BY <1>2 DEF StoreOK, RowsAreStored
  <2>6. /\ Range(todo') = Range(raw) \cap A
        /\ \A k \in 0..Len(todo') : \E j \in 0..Len(raw) : Prefix(todo', k) = A \cap Prefix(raw, j)
    BY <2>2, <2>5, FirstOfIs
  <2>7. Stored \ Processed \subseteq Range(todo')
    BY <2>4, <2>6 DEF Stored
  <2>8. ASSUME NEW k \in 0..Len(todo') PROVE Closed(Processed \cup Prefix(todo', k), raw)
    <3>1. PICK j \in 0..Len(raw) : Prefix(todo', k) = A \cap Prefix(raw, j)
      BY <2>6, <2>8
    <3>2. PICK P : P = Processed
      OBVIOUS
    <3>3. Closed(P \cup (A \cap Prefix(raw, j)), raw)
      BY <1>4, <2>4, <2>5, <3>2, ClosedPrefix DEF Stored
    <3> QED BY <3>1, <3>2, <3>3
  <2> QED BY <2>7, <2>8
<1>8. Recovery'
  BY <1>1, <1>3, <1>7 DEF Recovery
<1> QED BY <1>1, <1>3, <1>4, <1>5, <1>6, <1>8, StartFlow

(* The list without its head, once that is processed. *)
LEMMA TodoTail ==
    ASSUME ProcessOK, todo # <<>>, NEW P, Stored \ P \subseteq Range(todo),
           \A k \in 0..Len(todo) : Closed(P \cup Prefix(todo, k), raw)
    PROVE  /\ Stored \ (P \cup {Head(todo)}) \subseteq Range(Tail(todo))
           /\ \A k \in 0..Len(Tail(todo)) : Closed((P \cup {Head(todo)}) \cup Prefix(Tail(todo), k), raw)
           /\ Closed(P \cup {Head(todo)}, raw)
<1>1. todo \in Seq(Events) /\ Len(todo) \in Nat
  BY DEF ProcessOK
<1>2. /\ Len(Tail(todo)) = Len(todo) - 1 /\ Len(todo) > 0
  BY <1>1
<1>3. \A k \in 0..(Len(todo) - 1) : Prefix(todo, k + 1) = {Head(todo)} \cup Prefix(Tail(todo), k)
  BY <1>1, RangeTail
<1>4. 0 \in 0..(Len(todo) - 1) /\ 1 \in 0..Len(todo)
  BY <1>1, <1>2
<1>5. Range(todo) = {Head(todo)} \cup Range(Tail(todo))
  BY <1>1, <1>4, RangeTail
<1>6. ASSUME NEW k \in 0..(Len(todo) - 1)
      PROVE  Closed((P \cup {Head(todo)}) \cup Prefix(Tail(todo), k), raw)
  <2>1. k + 1 \in 0..Len(todo)
    BY <1>1
  <2>2. Closed(P \cup Prefix(todo, k + 1), raw)
    BY <2>1
  <2>3. P \cup Prefix(todo, k + 1) = (P \cup {Head(todo)}) \cup Prefix(Tail(todo), k)
    BY <1>3
  <2> QED BY <2>2, <2>3
<1>7. Closed(P \cup {Head(todo)}, raw)
  <2>1. (P \cup {Head(todo)}) \cup Prefix(Tail(todo), 0) = P \cup {Head(todo)}
    BY DEF Prefix
  <2> QED BY <1>4, <1>6, <2>1
<1> QED BY <1>2, <1>5, <1>6, <1>7

(* Claiming the event being recovered keeps the order of the recovery. *)
LEMMA RecoverClaimFlow == ASSUME Tables, Flow, RecoverClaim PROVE Flow'
<1>1. /\ phase = "recovering" /\ todo # <<>>
      /\ UNCHANGED <<mem, inc, phase, quarantine, zombie, takeovers>>
  BY DEF RecoverClaim, bounds
<1>2. StoreOK /\ ProcessOK /\ RowsAreStored /\ Figures /\ LinesAreStored
  BY Parts
<1>3. PICK h : h = Head(todo) /\ h \in Stored /\ h \in Events
  BY <1>1, <1>2, HeadIs, HeadStored
<1>4. /\ StoreOK' /\ RowsAreStored' /\ Stored' = Stored /\ Processed' = Processed
      /\ raw' = raw /\ points' = points /\ archived' = archived
      /\ \A e \in Events : \/ row'[e] = row[e]
                           \/ e = h /\ row'[e].st = "PROCESSING" /\ row'[e].tok = inc
      /\ \/ h \in Processed /\ todo' = Tail(todo)
         \/ todo' = todo
  BY <1>2, <1>3, RecoverClaimIs
<1>5. ZombieOrder /\ Recovery /\ Reached /\ Closed(Processed, raw) /\ Closed(archived, raw)
  BY FlowParts
<1>6. inc # zombie.tok
  BY <1>1, <1>2 DEF Figures, ProcessOK
<1>7. Fenced
  BY <1>4, <1>6 DEF Fenced
<1>8. ZombieOrder'
  BY <1>1, <1>2, <1>4, <1>5, <1>7, ZombieKept
<1>9. Reached'
  BY <1>1, <1>4, <1>5 DEF Reached
<1>10. PICK P : P = Processed
  OBVIOUS
<1>11. /\ ~quarantine /\ Stored \ P \subseteq Range(todo)
       /\ \A k \in 0..Len(todo) : Closed(P \cup Prefix(todo, k), raw)
  BY <1>1, <1>5, <1>10 DEF Recovery
<1>12. ASSUME h \in Processed
       PROVE  /\ Stored \ P \subseteq Range(Tail(todo))
              /\ \A k \in 0..Len(Tail(todo)) : Closed(P \cup Prefix(Tail(todo), k), raw)
  <2>1. P \cup {Head(todo)} = P
    BY <1>3, <1>10, <1>12
  <2>2. /\ Stored \ (P \cup {Head(todo)}) \subseteq Range(Tail(todo))
        /\ \A k \in 0..Len(Tail(todo)) : Closed((P \cup {Head(todo)}) \cup Prefix(Tail(todo), k), raw)
    BY <1>1, <1>2, <1>11, TodoTail
  <2> QED BY <2>1, <2>2
<1>13. /\ Stored \ P \subseteq Range(todo')
       /\ \A k \in 0..Len(todo') : Closed(P \cup Prefix(todo', k), raw)
  BY <1>4, <1>11, <1>12
<1>14. Recovery'
  BY <1>1, <1>4, <1>10, <1>11, <1>13 DEF Recovery
<1> QED BY <1>1, <1>4, <1>5, <1>8, <1>9, <1>14, StartFlow

(* A recovered event is the next one in ingest order. *)
LEMMA RecoverApplyFlow == ASSUME Tables, Flow, RecoverApply PROVE Flow'
<1>1. /\ phase = "recovering" /\ todo # <<>>
      /\ UNCHANGED <<inc, phase, quarantine, zombie, takeovers>>
  BY DEF RecoverApply, bounds
<1>2. StoreOK /\ ProcessOK /\ RowsAreStored /\ Figures /\ LinesAreStored
  BY Parts
<1>3. PICK h : h = Head(todo)
  OBVIOUS
<1>4. /\ Stored' = Stored /\ Processed' = Processed \cup {h}
      /\ raw' = raw /\ points' = points /\ archived' = archived
      /\ \A e \in Events : row'[e] = row[e] \/ (e = h /\ row'[e].st = "PROCESSED")
      /\ todo' = Tail(todo) /\ mem' = mem \cup {h}
  BY <1>2, <1>3, RecoverApplyIs
<1>5. ZombieOrder /\ Recovery /\ Reached /\ Closed(archived, raw)
  BY FlowParts
<1>6. PICK P : P = Processed
  OBVIOUS
<1>7. /\ ~quarantine /\ Stored \ P \subseteq Range(todo)
      /\ \A k \in 0..Len(todo) : Closed(P \cup Prefix(todo, k), raw)
  BY <1>1, <1>5, <1>6 DEF Recovery
<1>8. /\ Stored \ (P \cup {Head(todo)}) \subseteq Range(Tail(todo))
      /\ \A k \in 0..Len(Tail(todo)) : Closed((P \cup {Head(todo)}) \cup Prefix(Tail(todo), k), raw)
      /\ Closed(P \cup {Head(todo)}, raw)
  BY <1>1, <1>2, <1>7, TodoTail
<1>9. Processed' = P \cup {Head(todo)}
  BY <1>3, <1>4, <1>6
<1>10. Closed(Processed', raw')
  BY <1>4, <1>8, <1>9
<1>11. Fenced
  BY <1>4 DEF Fenced
<1>12. ZombieOrder'
  BY <1>1, <1>2, <1>4, <1>5, <1>10, <1>11, ZombieKept
<1>13. Reached'
  BY <1>1, <1>4, <1>5 DEF Reached
<1>14. Recovery'
  BY <1>1, <1>4, <1>7, <1>8, <1>9 DEF Recovery
<1> QED BY <1>1, <1>4, <1>5, <1>10, <1>12, <1>13, <1>14, StartFlow

(* When the recovery ends, every stored event is processed, unless the      *)
(* pipeline is quarantined.                                                 *)
LEMMA EndRecoveryFlow == ASSUME Tables, Flow, EndRecovery PROVE Flow'
<1>1. /\ phase = "recovering" /\ phase' = "archiving" /\ todo = <<>> /\ UNCHANGED store
      /\ UNCHANGED <<mem, quarantine, zombie, takeovers>>
  BY DEF EndRecovery, bounds
<1>2. StoreOK /\ ProcessOK /\ RowsAreStored
  BY Parts
<1>3. /\ Stored' = Stored /\ Processed' = Processed
      /\ row' = row /\ raw' = raw /\ points' = points /\ archived' = archived
  BY <1>1, <1>2, StoreSame
<1>4. ZombieOrder /\ Recovery /\ Reached /\ Closed(Processed, raw) /\ Closed(archived, raw)
  BY FlowParts
<1>5. ZombieOrder'
  BY <1>1, <1>2, <1>3, <1>4, FencedSame, ZombieKept
<1>6. Reached'
  BY <1>1, <1>3, <1>4 DEF Reached
<1>7. ~quarantine => Stored \subseteq Processed
  <2>1. ~quarantine => Stored \ Processed \subseteq Range(todo)
    BY <1>1, <1>4 DEF Recovery
  <2>2. Range(todo) = {}
    BY <1>1, RangeEmpty
  <2> QED BY <2>1, <2>2
<1>8. Recovery'
  BY <1>1, <1>3, <1>7 DEF Recovery
<1> QED BY <1>1, <1>3, <1>4, <1>5, <1>6, <1>8, StartFlow

(* The archive backlog is written in ingest order, and all of it before the *)
(* workers start.                                                           *)
LEMMA ArchiveRecoveryFlow == ASSUME Tables, Flow, ArchiveRecovery PROVE Flow'
<1>1. /\ phase = "archiving"
      /\ UNCHANGED <<mem, inc, quarantine, todo, q, w, own, zombie, takeovers>>
  BY DEF ArchiveRecovery, bounds
<1>2. StoreOK /\ ProcessOK /\ RowsAreStored /\ LinesAreStored /\ Workers /\ archived \subseteq Stored
  BY Parts, ArchivedStored
<1>3. ZombieOrder /\ Recovery /\ Reached /\ Closed(Processed, raw) /\ Closed(archived, raw)
  BY FlowParts
<1>4. /\ row' = row /\ raw' = raw /\ points' = points
      /\ \/ phase' = phase /\ Closed(archived', raw)
         \/ phase' = "running" /\ archived' = archived /\ Stored \subseteq archived
  BY <1>2, <1>3, ArchiveRecoveryIs
<1>5. Stored' = Stored /\ Processed' = Processed
  BY <1>4 DEF Stored, Processed
<1>6. ZombieOrder'
  BY <1>1, <1>2, <1>3, <1>4, <1>5, FencedSame, ZombieKept
<1>7. Closed(Processed', raw') /\ Closed(archived', raw')
  BY <1>3, <1>4, <1>5
<1>8. Reached' /\ Recovery'
  BY <1>1, <1>3, <1>4, <1>5 DEF Reached, Recovery
<1>9. ~quarantine => Stored \subseteq Processed
  BY <1>1, <1>3 DEF Recovery
<1>10. CASE phase' = phase
  BY <1>1, <1>6, <1>7, <1>8, <1>10, StartFlow
<1>11. CASE phase' = "running" /\ archived' = archived /\ Stored \subseteq archived
  <2>1. /\ q' = [s \in Stages |-> <<>>] /\ w' = [s \in Stages |-> Idle]
    BY <1>1, <1>2 DEF Workers, Live
  <2>2. ToState' = {} /\ ToArchive' = archived'
    BY <2>1, NoLinesNext
  <2>3. /\ w'["durable"].pc = "idle" /\ w'["state"].batch = <<>> /\ w'["archive"].batch = <<>>
        /\ q'["state"] = <<>> /\ q'["archive"] = <<>>
    BY <2>1, IdleIs DEF Stages
  <2>4. Live' => Stored' \subseteq Processed'
    BY <1>1, <1>5, <1>9 DEF Live
  <2>5. RowsAreHeld' /\ OpenIsMine' /\ StateHandedOn'
    <3>1. RowsAreHeld'
      BY <2>4 DEF RowsAreHeld, Processed
    <3>2. OpenIsMine' /\ StateHandedOn'
      BY <2>4 DEF OpenIsMine, StateHandedOn, Alive
    <3> QED BY <3>1, <3>2
  <2>6. LateIsMine' /\ StateBeforeArchive'
    BY <2>2, <2>3 DEF LateIsMine, StateBeforeArchive
  <2>7. ArchiveHandedOn'
    BY <1>5, <1>11, <2>2 DEF ArchiveHandedOn
  <2>8. \A k \in 0..Len(<<>>) : k = 0
    <3>1. Len(<<>>) = 0
      OBVIOUS
    <3> QED BY <3>1
  <2>9. StateInOrder' /\ ArchiveInOrder'
    <3>1. ASSUME NEW done PROVE Line(done, <<>>, <<>>, 0) = done
      <4>1. Len(<<>>) = 0
        OBVIOUS
      <4> QED BY <4>1, LineEmpty
    <3>2. StateLine(0)' = Processed' /\ ArchiveLine(0)' = archived'
      BY <2>3, <3>1 DEF StateLine, ArchiveLine
    <3>3. /\ \A k \in 0..Len(q'["state"]) : Closed(StateLine(k)', raw')
          /\ \A k \in 0..Len(q'["archive"]) : Closed(ArchiveLine(k)', raw')
      BY <1>7, <2>3, <2>8, <3>2 DEF StateLine, ArchiveLine
    <3> QED BY <1>7, <3>3 DEF StateInOrder, ArchiveInOrder
  <2> QED BY <1>6, <1>8, <2>5, <2>6, <2>7, <2>9 DEF Flow
<1> QED BY <1>4, <1>10, <1>11


-----------------------------------------------------------------------------
(* The workers *)

(* An unchanged table keeps closed sets closed. *)
LEMMA StoredSame == ASSUME raw' = raw PROVE \A S \in SUBSET Stored : Closed(S, raw) => Closed(S, raw')
  OBVIOUS

(* While the durable worker is idle, everything stored has been handed on. *)
LEMMA HandedOn ==
    ASSUME Tables, Flow, Live, w["durable"].pc = "idle"
    PROVE  /\ \A e \in Stored : e \in ToArchive
           /\ Alive => \A e \in Stored : e \in Processed \/ e \in ToState
           /\ ToState \subseteq ToArchive
<1>1. Workers /\ ArchiveHandedOn /\ StateHandedOn /\ StateBeforeArchive
  BY Parts, FlowParts
<1>2. Range(w["durable"].batch) = {}
  BY <1>1, RangeEmpty DEF Workers, Stages
<1>3. \A e \in Stored : e \in ToArchive
  BY <1>1, <1>2 DEF ArchiveHandedOn, Live
<1>4. Alive => \A e \in Stored : e \in Processed \/ e \in ToState
  BY <1>1, <1>2 DEF StateHandedOn
<1>5. ToState \subseteq ToArchive
  BY <1>1, <1>2 DEF StateBeforeArchive
<1> QED BY <1>3, <1>4, <1>5

(* A batch taken into work stays where it was in the line. *)
LEMMA TakeFlow == ASSUME Tables, Flow, NEW s \in Stages, Take(s) PROVE Flow'
<1>1. /\ UNCHANGED store
      /\ UNCHANGED <<mem, inc, phase, quarantine, todo, own, zombie, takeovers>>
  BY DEF Take, bounds
<1>2. row' = row /\ raw' = raw /\ archived' = archived /\ points' = points
  BY <1>1 DEF store
<1>3. /\ QueuesOK' /\ Live /\ w[s].pc = "idle" /\ w'[s].pc = "work"
      /\ \A t \in Stages : t # s => w'[t] = w[t] /\ q'[t] = q[t]
  BY TakeIs
<1>4. Alive' => Alive
  BY <1>1, <1>3 DEF Alive, Live, Stages
<1>5. /\ RowsAreHeld' /\ OpenIsMine' /\ ZombieOrder' /\ Recovery' /\ Reached'
      /\ (Live' <=> Live) /\ Stored' = Stored /\ Processed' = Processed
      /\ \A e : Mine(e)' <=> Mine(e)
      /\ Closed(Processed', raw') /\ Closed(archived', raw')
  BY <1>1, <1>2, <1>4, KeptFlow
<1>6. ToState' = ToState /\ ToArchive' = ToArchive
  BY TakeTables
<1>7. /\ LateIsMine /\ StateHandedOn /\ ArchiveHandedOn /\ StateBeforeArchive /\ StateInOrder
      /\ ArchiveInOrder
  BY FlowParts
<1>8. LateIsMine' /\ StateHandedOn' /\ ArchiveHandedOn' /\ StateBeforeArchive'
  <2>1. CASE s = "durable"
    <3>1. /\ \A e \in Stored : e \in ToArchive
          /\ Alive => \A e \in Stored : e \in Processed \/ e \in ToState
          /\ ToState \subseteq ToArchive
      BY <1>3, <2>1, HandedOn
    <3> QED BY <1>4, <1>5, <1>6, <3>1 DEF LateIsMine, StateHandedOn, ArchiveHandedOn, StateBeforeArchive
  <2>2. CASE s # "durable"
    <3>1. w'["durable"] = w["durable"]
      BY <1>3, <2>2 DEF Stages
    <3> QED BY <1>1, <1>4, <1>5, <1>6, <1>7, <3>1
            DEF LateIsMine, StateHandedOn, ArchiveHandedOn, StateBeforeArchive
  <2> QED BY <2>1, <2>2
<1>9. StateInOrder'
  <2>1. CASE s = "state"
    <3>1. PICK done : done = Processed
      OBVIOUS
    <3>2. PICK c \in 1..Len(q[s]) :
             \A k \in 0..Len(q'[s]) :
                /\ c + k \in 0..Len(q[s])
                /\ Line(done, w'[s].batch, q'[s], k) = Line(done, w[s].batch, q[s], c + k)
      BY TakeIs
    <3>3. ASSUME Alive', NEW k \in 0..Len(q'["state"]) PROVE Closed(StateLine(k)', raw')
      <4>1. c + k \in 0..Len(q["state"]) /\ StateLine(k)' = StateLine(c + k)
        BY <1>5, <2>1, <3>1, <3>2, <3>3 DEF StateLine
      <4>2. Closed(StateLine(c + k), raw)
        BY <1>4, <1>7, <3>3, <4>1 DEF StateInOrder
      <4> QED BY <1>2, <4>1, <4>2
    <3> QED BY <1>5, <3>3 DEF StateInOrder
  <2>2. CASE s # "state"
    <3>1. w'["state"] = w["state"] /\ q'["state"] = q["state"]
      BY <1>3, <2>2 DEF Stages
    <3> QED BY <1>2, <1>4, <1>5, <1>7, <3>1, StoredSame, StateOrderSame
  <2> QED BY <2>1, <2>2
<1>10. ArchiveInOrder'
  <2>1. CASE s = "archive"
    <3>1. PICK done : done = archived
      OBVIOUS
    <3>2. PICK c \in 1..Len(q[s]) :
             \A k \in 0..Len(q'[s]) :
                /\ c + k \in 0..Len(q[s])
                /\ Line(done, w'[s].batch, q'[s], k) = Line(done, w[s].batch, q[s], c + k)
      BY TakeIs
    <3>3. ASSUME NEW k \in 0..Len(q'["archive"]) PROVE Closed(ArchiveLine(k)', raw')
      <4>1. c + k \in 0..Len(q["archive"]) /\ ArchiveLine(k)' = ArchiveLine(c + k)
        BY <1>2, <2>1, <3>1, <3>2, <3>3 DEF ArchiveLine
      <4>2. Closed(ArchiveLine(c + k), raw)
        BY <1>3, <1>7, <4>1 DEF ArchiveInOrder
      <4> QED BY <1>2, <4>1, <4>2
    <3> QED BY <1>5, <3>3 DEF ArchiveInOrder
  <2>2. CASE s # "archive"
    <3>1. w'["archive"] = w["archive"] /\ q'["archive"] = q["archive"]
      BY <1>3, <2>2 DEF Stages
    <3> QED BY <1>2, <1>5, <1>7, <3>1, StoredSame, ArchiveOrderSame
  <2> QED BY <2>1, <2>2
<1> QED BY <1>5, <1>8, <1>9, <1>10 DEF Flow

(* A step of the durable worker that leaves the rows and the lines. *)
LEMMA DurableKeptFlow ==
    ASSUME Tables, Flow, Live, row' = row, raw' = raw, archived' = archived, points'.state = points.state,
           UNCHANGED <<mem, inc, phase, quarantine, todo, own, zombie, takeovers, q>>,
           w'["state"] = w["state"], w'["archive"] = w["archive"],
           w["durable"].pc = "save", w'["durable"].pc \in {"work", "put state"},
           w'["durable"].batch = w["durable"].batch
    PROVE  Flow'
<1>1. (Alive' <=> Alive) /\ (Live' <=> Live)
  BY DEF Alive, Live
<1>2. /\ RowsAreHeld' /\ OpenIsMine' /\ ZombieOrder' /\ Recovery' /\ Reached'
      /\ Stored' = Stored /\ Processed' = Processed
      /\ \A e : Mine(e)' <=> Mine(e)
  BY <1>1, KeptFlow
<1>3. ToState' = ToState /\ ToArchive' = ToArchive
  BY DEF ToState, ToArchive, ArchiveLine
<1>4. /\ LateIsMine /\ StateHandedOn /\ ArchiveHandedOn /\ StateBeforeArchive /\ StateInOrder
      /\ ArchiveInOrder
  BY FlowParts
<1>5. LateIsMine' /\ StateHandedOn' /\ ArchiveHandedOn' /\ StateBeforeArchive'
  BY <1>1, <1>2, <1>3, <1>4 DEF LateIsMine, StateHandedOn, ArchiveHandedOn, StateBeforeArchive
<1>6. StateInOrder' /\ ArchiveInOrder'
  BY <1>1, <1>2, <1>4, StoredSame, StateOrderSame, ArchiveOrderSame
<1> QED BY <1>2, <1>5, <1>6 DEF Flow

(* The durable checkpoint does not touch the lines. *)
LEMMA DurableCheckpointFlow == ASSUME Tables, Flow, DurableCheckpoint \/ DurableCheckpointFails PROVE Flow'
<1>1. Live
  <2>1. Workers /\ w["durable"].pc = "save"
    BY Parts DEF DurableCheckpoint, DurableCheckpointFails
  <2> QED BY <2>1, BusyIsLive DEF Stages
<1>2. CASE DurableCheckpoint
  <2>1. /\ w'["state"] = w["state"] /\ w'["archive"] = w["archive"]
        /\ w'["durable"].pc = "put state" /\ w'["durable"].batch = w["durable"].batch
        /\ points'.state = points.state
    BY <1>2, DurableCheckpointTables
  <2>2. /\ row' = row /\ raw' = raw /\ archived' = archived /\ w["durable"].pc = "save"
        /\ UNCHANGED <<mem, inc, phase, quarantine, todo, own, zombie, takeovers, q>>
    BY <1>2 DEF DurableCheckpoint, bounds
  <2> QED BY <1>1, <2>1, <2>2, DurableKeptFlow
<1>3. CASE DurableCheckpointFails
  <2>1. /\ w'["state"] = w["state"] /\ w'["archive"] = w["archive"]
        /\ w'["durable"].pc = "work" /\ w'["durable"].batch = w["durable"].batch
    BY <1>3, DurableCheckpointFailsTables
  <2>2. /\ row' = row /\ raw' = raw /\ archived' = archived /\ w["durable"].pc = "save"
        /\ points'.state = points.state
        /\ UNCHANGED <<mem, inc, phase, quarantine, todo, own, zombie, takeovers, q>>
    BY <1>3 DEF DurableCheckpointFails, store
  <2> QED BY <1>1, <2>1, <2>2, DurableKeptFlow
<1> QED BY <1>2, <1>3

(* The durable worker hands a batch on: afterwards all rows are in line. *)
LEMMA EnqueueStateFlow == ASSUME Tables, Flow, Enqueue("state") PROVE Flow'
<1>1. UNCHANGED <<store, mem, inc, phase, quarantine, todo, own, zombie, takeovers>>
  BY DEF Enqueue, bounds
<1>2. row' = row /\ raw' = raw /\ archived' = archived /\ points' = points
  BY <1>1 DEF store
<1>3. StoreOK /\ RowsAreStored /\ LinesAreStored /\ QueuesOK
  BY Parts
<1>4. PICK b, P : b = w["durable"].batch /\ P = Processed
  OBVIOUS
<1>5. /\ QueuesOK' /\ Live /\ w["durable"].pc = "put state"
      /\ w'["state"] = w["state"] /\ w'["archive"] = w["archive"] /\ q'["archive"] = q["archive"]
      /\ w'["durable"].pc = "put archive" /\ w'["durable"].batch = b
      /\ Len(q'["state"]) = Len(q["state"]) + 1
  BY <1>4, EnqueueIs DEF Stages
<1>6. \A done : /\ \A k \in 0..Len(q["state"]) : Line(done, w'["state"].batch, q'["state"], k)
                                                   = Line(done, w["state"].batch, q["state"], k)
                /\ Line(done, w'["state"].batch, q'["state"], Len(q'["state"])) =
                       Line(done \cup Range(b), w["state"].batch, q["state"], Len(q["state"]))
  BY <1>4, EnqueueIs
<1>7. (Alive' <=> Alive) /\ (Live' <=> Live)
  BY <1>1, <1>5 DEF Alive, Live
<1>8. /\ RowsAreHeld' /\ OpenIsMine' /\ ZombieOrder' /\ Recovery' /\ Reached'
      /\ Stored' = Stored /\ Processed' = Processed
      /\ \A e : Mine(e)' <=> Mine(e)
      /\ Closed(Processed', raw')
  BY <1>1, <1>2, <1>7, KeptFlow
<1>9. /\ LateIsMine /\ StateHandedOn /\ ArchiveHandedOn /\ StateBeforeArchive /\ StateInOrder
      /\ ArchiveInOrder
  BY FlowParts
<1>10. ToArchive' = ToArchive /\ ToState' = ToState \cup Range(b)
  <2>1. ToArchive' = ToArchive
    BY <1>2, <1>5 DEF ToArchive, ArchiveLine
  <2>2. Line({} \cup Range(b), w["state"].batch, q["state"], Len(q["state"])) = ToState \cup Range(b)
    BY DEF Line, ToState
  <2> QED BY <1>6, <2>1, <2>2 DEF ToState
<1>11. LateIsMine' /\ StateHandedOn' /\ ArchiveHandedOn' /\ StateBeforeArchive'
  BY <1>1, <1>4, <1>5, <1>7, <1>8, <1>9, <1>10
     DEF LateIsMine, StateHandedOn, ArchiveHandedOn, StateBeforeArchive
<1>12. ArchiveInOrder'
  BY <1>2, <1>5, <1>7, <1>8, <1>9, StoredSame, ArchiveOrderSame
<1>13. ASSUME Alive', NEW k \in 0..Len(q'["state"]) PROVE Closed(StateLine(k)', raw')
  <2>1. Len(q["state"]) \in Nat
    <3>1. q["state"] \in Seq(Seq(Events))
      BY <1>3 DEF QueuesOK, Stages
    <3> QED BY <3>1
  <2>2. CASE k \in 0..Len(q["state"])
    <3>1. StateLine(k)' = StateLine(k)
      BY <1>6, <1>8, <2>2 DEF StateLine
    <3> QED BY <1>2, <1>7, <1>9, <1>13, <2>2, <3>1 DEF StateInOrder
  <2>3. CASE k = Len(q'["state"])
    <3>1. StateLine(k)' = Line(P \cup Range(b), w["state"].batch, q["state"], Len(q["state"]))
      BY <1>4, <1>6, <1>8, <2>3 DEF StateLine
    <3>2. Stored \subseteq Line(P \cup Range(b), w["state"].batch, q["state"], Len(q["state"]))
      BY <1>4, <1>5, <1>7, <1>9, <1>13 DEF StateHandedOn, ToState, Line
    <3>3. PICK S : S = StateLine(k)'
      OBVIOUS
    <3>4. Range(raw) \subseteq S /\ raw \in Seq(Events)
      BY <1>3, <3>1, <3>2, <3>3 DEF Stored, StoreOK
    <3>5. Closed(S, raw)
      BY <3>4, ClosedAll
    <3> QED BY <1>2, <3>3, <3>5
  <2>4. k \in 0..Len(q["state"]) \/ k = Len(q'["state"])
    <3>1. PICK n \in Nat : n = Len(q["state"])
      BY <2>1
    <3>2. Len(q'["state"]) = n + 1
      BY <1>5, <3>1
    <3>3. k \in 0..(n + 1)
      BY <3>2
    <3>4. k \in 0..n \/ k = n + 1
      BY <3>3
    <3> QED BY <3>1, <3>2, <3>4
  <2> QED BY <2>2, <2>3, <2>4
<1>14. StateInOrder'
  BY <1>8, <1>13 DEF StateInOrder
<1> QED BY <1>8, <1>11, <1>12, <1>14 DEF Flow

(* A batch handed to the archive comes after everything stored before it. *)
LEMMA EnqueueArchiveFlow == ASSUME Tables, Flow, Enqueue("archive") PROVE Flow'
<1>1. UNCHANGED <<store, mem, inc, phase, quarantine, todo, own, zombie, takeovers>>
  BY DEF Enqueue, bounds
<1>2. row' = row /\ raw' = raw /\ archived' = archived /\ points' = points
  BY <1>1 DEF store
<1>3. StoreOK /\ RowsAreStored /\ LinesAreStored /\ QueuesOK
  BY Parts
<1>4. PICK b, A : b = w["durable"].batch /\ A = archived
  OBVIOUS
<1>5. /\ QueuesOK' /\ Live /\ w["durable"].pc = "put archive"
      /\ w'["state"] = w["state"] /\ w'["archive"] = w["archive"] /\ q'["state"] = q["state"]
      /\ w'["durable"] = Idle
      /\ Len(q'["archive"]) = Len(q["archive"]) + 1
  BY <1>4, EnqueueIs DEF Stages
<1>6. \A done : /\ \A k \in 0..Len(q["archive"]) : Line(done, w'["archive"].batch, q'["archive"], k)
                                                     = Line(done, w["archive"].batch, q["archive"], k)
                /\ Line(done, w'["archive"].batch, q'["archive"], Len(q'["archive"])) =
                       Line(done \cup Range(b), w["archive"].batch, q["archive"], Len(q["archive"]))
  BY <1>4, EnqueueIs
<1>7. (Alive' <=> Alive) /\ (Live' <=> Live)
  BY <1>1, <1>5 DEF Alive, Live
<1>8. /\ RowsAreHeld' /\ OpenIsMine' /\ ZombieOrder' /\ Recovery' /\ Reached'
      /\ Stored' = Stored /\ Processed' = Processed
      /\ \A e : Mine(e)' <=> Mine(e)
      /\ Closed(archived', raw')
  BY <1>1, <1>2, <1>7, KeptFlow
<1>9. /\ LateIsMine /\ StateHandedOn /\ ArchiveHandedOn /\ StateBeforeArchive /\ StateInOrder
      /\ ArchiveInOrder
  BY FlowParts
<1>10. ToState' = ToState /\ ToArchive' = ToArchive \cup Range(b)
  <2>1. ToState' = ToState
    BY <1>2, <1>5 DEF ToState
  <2>2. Line(archived \cup Range(b), w["archive"].batch, q["archive"], Len(q["archive"]))
            = ToArchive \cup Range(b)
    BY DEF Line, ToArchive, ArchiveLine
  <2> QED BY <1>2, <1>6, <2>1, <2>2 DEF ToArchive, ArchiveLine
<1>15. w'["durable"].pc = "idle" /\ w'["durable"].batch = <<>>
  BY <1>5, IdleIs
<1>11. LateIsMine' /\ StateHandedOn' /\ ArchiveHandedOn' /\ StateBeforeArchive'
  BY <1>1, <1>4, <1>5, <1>7, <1>8, <1>9, <1>10, <1>15
     DEF LateIsMine, StateHandedOn, ArchiveHandedOn, StateBeforeArchive
<1>12. StateInOrder'
  BY <1>2, <1>5, <1>7, <1>8, <1>9, StoredSame, StateOrderSame
<1>13. ASSUME NEW k \in 0..Len(q'["archive"]) PROVE Closed(ArchiveLine(k)', raw')
  <2>1. Len(q["archive"]) \in Nat
    <3>1. q["archive"] \in Seq(Seq(Events))
      BY <1>3 DEF QueuesOK, Stages
    <3> QED BY <3>1
  <2>2. CASE k \in 0..Len(q["archive"])
    <3>1. ArchiveLine(k)' = ArchiveLine(k)
      BY <1>2, <1>6, <2>2 DEF ArchiveLine
    <3> QED BY <1>2, <1>5, <1>9, <2>2, <3>1 DEF ArchiveInOrder
  <2>3. CASE k = Len(q'["archive"])
    <3>1. ArchiveLine(k)' = ToArchive \cup Range(b)
      BY <1>10, <2>3 DEF ToArchive
    <3>2. Stored \subseteq ToArchive \cup Range(b)
      BY <1>4, <1>5, <1>9 DEF ArchiveHandedOn, Live
    <3>3. PICK S : S = ArchiveLine(k)'
      OBVIOUS
    <3>4. Range(raw) \subseteq S /\ raw \in Seq(Events)
      BY <1>3, <3>1, <3>2, <3>3 DEF Stored, StoreOK
    <3>5. Closed(S, raw)
      BY <3>4, ClosedAll
    <3> QED BY <1>2, <3>3, <3>5
  <2>4. k \in 0..Len(q["archive"]) \/ k = Len(q'["archive"])
    <3>1. PICK n \in Nat : n = Len(q["archive"])
      BY <2>1
    <3>2. Len(q'["archive"]) = n + 1
      BY <1>5, <3>1
    <3>3. k \in 0..(n + 1)
      BY <3>2
    <3>4. k \in 0..n \/ k = n + 1
      BY <3>3
    <3> QED BY <3>1, <3>2, <3>4
  <2> QED BY <2>2, <2>3, <2>4
<1>14. ArchiveInOrder'
  BY <1>8, <1>13 DEF ArchiveInOrder
<1> QED BY <1>8, <1>11, <1>12, <1>14 DEF Flow


(* record_events: what was claimed, and what is new, is claimed by this     *)
(* process and stays with the durable worker.                               *)
LEMMA RecordFlow ==
    ASSUME Tables, Flow, Live, w["durable"].pc = "work", NEW b \in Seq(Events), b = w["durable"].batch,
           RecordEvents(b),
           UNCHANGED <<points, archived, mem, inc, phase, quarantine, todo, q, zombie, takeovers>>,
           w'["state"] = w["state"], w'["archive"] = w["archive"],
           w'["durable"].pc \in {"idle", "work", "save"},
           \A e \in Range(Claimed(b)) : /\ w'["durable"].pc \in {"work", "save"}
                                        /\ e \in Range(w'["durable"].batch)
    PROVE  Flow'
<1>1. StoreOK /\ ProcessOK /\ RowsAreStored /\ Figures
  BY Parts
<1>2. /\ RowsAreHeld /\ OpenIsMine /\ LateIsMine
      /\ StateHandedOn /\ ArchiveHandedOn /\ StateBeforeArchive
      /\ StateInOrder /\ ArchiveInOrder /\ ZombieOrder /\ Recovery /\ Reached
      /\ Closed(Processed, raw)
  BY FlowParts
<1>3. /\ RowsAreStored' /\ Stored' = Stored \cup Range(b) /\ Processed' = Processed
      /\ Len(raw) <= Len(raw') /\ \A i \in 1..Len(raw) : raw'[i] = raw[i]
      /\ \A S \in SUBSET Stored : Closed(S, raw) => Closed(S, raw')
      /\ \A e \in Events :
             \/ row'[e] = row[e]
             \/ /\ row[e].st \in {"NONE", "FAILED"} /\ e \in Range(b)
                /\ row'[e].st = "PROCESSING" /\ row'[e].tok = inc
      /\ \A e \in Range(b) : row'[e].st \notin {"NONE", "FAILED"}
      /\ own' = own \cup Range(Claimed(b))
      /\ Range(Claimed(b)) = {e \in Range(b) : Claimable(e)}
  BY <1>1, RecordIs
<1>4. Range(b) \subseteq Events /\ Stored \subseteq Events /\ Processed \subseteq Stored
  BY <1>1, RangeIs, StoredIs, ProcessedStored
<1>5. (Live' <=> Live) /\ (Alive' <=> Alive)
  BY DEF Live, Alive
<1>6. ToState' = ToState /\ ToArchive' = ToArchive
  BY DEF ToState, ToArchive, ArchiveLine
<1>7. \A e \in Events : Mine(e) => Mine(e)'
  BY <1>3 DEF Mine
<1>8. \A e \in Range(Claimed(b)) : Mine(e)'
  <2> SUFFICES ASSUME NEW e \in Range(Claimed(b)) PROVE Mine(e)'
    OBVIOUS
  <2>1. e \in Range(b) /\ Claimable(e) /\ e \in own' /\ e \in Events
    BY <1>3, <1>4
  <2>2. CASE row[e].st \in {"NONE", "FAILED"}
    <3>1. row'[e].st = "PROCESSING" /\ row'[e].tok = inc
      BY <1>3, <2>1, <2>2
    <3> QED BY <2>1, <3>1 DEF Mine
  <2>3. CASE row[e].st = "PROCESSING" /\ row[e].tok = inc /\ e \in own
    BY <1>7, <2>1, <2>3 DEF Mine
  <2> QED BY <2>1, <2>2, <2>3 DEF Claimable
<1>9. \A e \in Stored' : e \in Stored \/ e \in Range(Claimed(b))
  <2> SUFFICES ASSUME NEW e \in Range(b), e \notin Stored PROVE e \in Range(Claimed(b))
    BY <1>3
  <2>1. row[e].st = "NONE"
    BY <1>1, <1>4 DEF RowsAreStored
  <2> QED BY <1>3, <2>1 DEF Claimable
<1>10. \A e \in Range(b) : Mine(e) => e \in Range(Claimed(b))
  BY <1>3 DEF Mine, Claimable
<1>11. RowsAreHeld'
  <2> SUFFICES ASSUME NEW e \in Stored'
               PROVE  \/ row'[e].st \in {"PROCESSED", "FAILED"}
                      \/ row'[e].st = "PROCESSING" /\ row'[e].tok = inc
    BY DEF RowsAreHeld
  <2>1. CASE e \in Stored
    <3>1. e \in Events
      BY <1>4, <2>1
    <3> QED BY <1>2, <1>3, <2>1, <3>1 DEF RowsAreHeld
  <2>2. CASE e \in Range(Claimed(b))
    BY <1>8, <2>2 DEF Mine
  <2> QED BY <1>9, <2>1, <2>2
<1>12. OpenIsMine'
  BY <1>2, <1>3, <1>4, <1>5, <1>7, <1>8, <1>9 DEF OpenIsMine
<1>13. LateIsMine'
  BY <1>2, <1>4, <1>5, <1>6, <1>7, <1>8, <1>9 DEF LateIsMine
<1>14. StateHandedOn'
  BY <1>2, <1>3, <1>5, <1>6, <1>9, <1>10 DEF StateHandedOn, OpenIsMine
<1>15. ArchiveHandedOn'
  BY <1>2, <1>6, <1>9, <1>10 DEF ArchiveHandedOn, LateIsMine
<1>16. StateBeforeArchive'
  BY <1>2, <1>6 DEF StateBeforeArchive
<1>17. StateInOrder' /\ ArchiveInOrder'
  BY <1>2, <1>3, <1>5, StateOrderSame, ArchiveOrderSame
<1>18. ZombieOrder'
  <2>1. inc # zombie.tok
    BY <1>1 DEF Figures, ProcessOK, Live
  <2>2. Fenced
    BY <1>3, <2>1 DEF Fenced
  <2>3. Closed(Processed', raw')
    BY <1>2, <1>3, <1>4
  <2> QED BY <1>1, <1>2, <1>3, <2>2, <2>3, ZombieKept
<1>19. Recovery'
  BY DEF Recovery, Live
<1>20. Reached'
  <2>1. \A i \in 1..points.state : i \in 1..Len(raw)
    BY <1>1 DEF Figures, StoreOK
  <2> QED BY <1>2, <1>3, <2>1 DEF Reached
<1> QED BY <1>11, <1>12, <1>13, <1>14, <1>15, <1>16, <1>17, <1>18, <1>19, <1>20 DEF Flow

(* The events a batch adds are the last stored ones, and this worker holds  *)
(* them.                                                                    *)
LEMMA DurableInsertFlow == ASSUME Tables, Flow, DurableInsert \/ DurableInsertLost PROVE Flow'
<1>1. ProcessOK /\ StoreOK /\ QueuesOK /\ WorkersOK /\ Workers
  BY Parts
<1>2. PICK b \in Seq(Events) : b = w["durable"].batch
  BY <1>1, StageOK DEF Stages
<1>3. /\ w["durable"].pc = "work" /\ RecordEvents(b)
      /\ UNCHANGED <<points, archived, mem, inc, phase, quarantine, todo, q, zombie, takeovers>>
  BY <1>2 DEF DurableInsert, DurableInsertLost, bounds
<1>4. Live
  BY <1>1, <1>3, BusyIsLive DEF Stages
<1>5. Range(Claimed(b)) = {e \in Range(b) : Claimable(e)}
  BY ClaimedIs
<1>6. CASE DurableInsert
  <2>1. /\ w'["state"] = w["state"] /\ w'["archive"] = w["archive"]
        /\ \/ Claimed(b) = <<>> /\ w'["durable"] = Idle
           \/ w'["durable"].pc = "save" /\ w'["durable"].batch = Claimed(b)
    BY <1>2, <1>6, DurableInsertTables
  <2>2. /\ w'["durable"].pc \in {"idle", "work", "save"}
        /\ \A e \in Range(Claimed(b)) : /\ w'["durable"].pc \in {"work", "save"}
                                        /\ e \in Range(w'["durable"].batch)
    <3>1. CASE Claimed(b) = <<>> /\ w'["durable"] = Idle
      BY <3>1, IdleIs, RangeEmpty
    <3>2. CASE w'["durable"].pc = "save" /\ w'["durable"].batch = Claimed(b)
      BY <3>2
    <3> QED BY <2>1, <3>1, <3>2
  <2> QED BY <1>2, <1>3, <1>4, <2>1, <2>2, RecordFlow
<1>7. CASE DurableInsertLost
  <2>1. w' = w
    BY <1>7 DEF DurableInsertLost
  <2>2. /\ w'["durable"].pc \in {"idle", "work", "save"}
        /\ \A e \in Range(Claimed(b)) : /\ w'["durable"].pc \in {"work", "save"}
                                        /\ e \in Range(w'["durable"].batch)
    BY <1>2, <1>3, <1>5, <2>1
  <2>3. w'["state"] = w["state"] /\ w'["archive"] = w["archive"]
    BY <2>1
  <2> QED BY <1>2, <1>3, <1>4, <2>2, <2>3, RecordFlow
<1> QED BY <1>6, <1>7


(* The state of a batch is committed, its answer may be lost. *)
LEMMA CommittedFlow ==
    ASSUME Tables, Flow, Alive, w["state"].pc = "work", NEW b \in Seq(Events), b = w["state"].batch,
           Holds(b, inc), CommitState(b), mem' = mem \cup Range(b), own \ Range(b) \subseteq own',
           UNCHANGED <<inc, phase, quarantine, todo, q, zombie, takeovers>>,
           w'["state"].batch = <<>>, w'["durable"] = w["durable"], w'["archive"] = w["archive"]
    PROVE  Flow'
<1>1. StoreOK /\ ProcessOK /\ RowsAreStored /\ Figures /\ QueuesOK
  BY Parts
<1>2. /\ RowsAreHeld /\ OpenIsMine /\ LateIsMine
      /\ StateHandedOn /\ ArchiveHandedOn /\ StateBeforeArchive
      /\ StateInOrder /\ ArchiveInOrder /\ ZombieOrder /\ Recovery /\ Reached
      /\ Closed(Processed, raw)
  BY FlowParts
<1>3. /\ Stored' = Stored /\ Processed' = Processed \cup Range(b)
      /\ raw' = raw /\ archived' = archived
      /\ points'.state = Furthest(Range(b), points.state)
      /\ Range(b) \subseteq Stored
      /\ \A e \in Events : e \notin Range(b) => row'[e] = row[e]
      /\ \A e \in Range(b) : row'[e].st = "PROCESSED"
  BY CommitIs
<1>4. Stored \subseteq Events /\ Live /\ (Live' <=> Live)
  BY <1>1, StoredIs DEF Live, Alive
<1>5. \A e \in Events : Mine(e) /\ e \notin Range(b) => Mine(e)'
  BY <1>3 DEF Mine
<1>6. /\ \A k : StateLine(k)' = StateLine(k)
      /\ ToState = Range(b) \cup ToState' /\ ToArchive' = ToArchive
  <2>1. Range(w'["state"].batch) = {} /\ q' = q
    BY RangeEmpty
  <2>2. ToState = Range(b) \cup ToState'
    BY <2>1 DEF ToState, Line
  <2>3. \A k : StateLine(k)' = StateLine(k)
    BY <1>3, <2>1 DEF StateLine, Line
  <2> QED BY <1>3, <2>2, <2>3 DEF ToArchive, ArchiveLine
<1>7. Closed(Processed', raw')
  <2>1. 0 \in 0..Len(q["state"])
    <3>1. q["state"] \in Seq(Seq(Events))
      BY <1>1 DEF QueuesOK, Stages
    <3> QED BY <3>1
  <2>2. StateLine(0) = Processed \cup Range(b)
    BY LineNone DEF StateLine
  <2> QED BY <1>2, <1>3, <2>1, <2>2 DEF StateInOrder
<1>8. RowsAreHeld'
  BY <1>2, <1>3, <1>4 DEF RowsAreHeld
<1>9. OpenIsMine'
  BY <1>2, <1>3, <1>4, <1>5 DEF OpenIsMine
<1>10. LateIsMine'
  <2>1. w["durable"].pc \in {"work", "save"} => Range(b) \subseteq ToArchive
    BY <1>2, <1>4, <1>6 DEF StateBeforeArchive
  <2> QED BY <1>2, <1>3, <1>4, <1>5, <1>6, <2>1 DEF LateIsMine
<1>11. StateHandedOn'
  BY <1>2, <1>3, <1>6 DEF StateHandedOn
<1>12. ArchiveHandedOn' /\ StateBeforeArchive'
  BY <1>2, <1>3, <1>4, <1>6 DEF ArchiveHandedOn, StateBeforeArchive
<1>13. StateInOrder'
  BY <1>2, <1>3, <1>6, <1>7 DEF StateInOrder
<1>14. ArchiveInOrder'
  BY <1>2, <1>3, <1>4, StoredSame, ArchiveOrderSame
<1>15. ZombieOrder'
  <2>1. Fenced
    BY <1>3 DEF Fenced
  <2> QED BY <1>1, <1>2, <1>3, <1>7, <2>1, ZombieKept
<1>16. Recovery'
  BY <1>4 DEF Recovery, Live
<1>17. Reached'
  <2>1. raw \in Seq(Events) /\ IsInjective(raw) /\ points.state \in 0..Len(raw)
    BY <1>1 DEF StoreOK, RowsAreStored, Figures
  <2>2. PICK P : P = Processed \cup Range(b)
    OBVIOUS
  <2>3. Closed(P, raw) /\ Range(b) \subseteq P /\ \A i \in 1..points.state : raw[i] \in P
    BY <1>2, <1>3, <1>7, <2>2 DEF Reached
  <2>4. \A i \in 1..Furthest(Range(b), points.state) : raw[i] \in P
    BY <1>3, <2>1, <2>3, FurthestReached
  <2>5. \A i \in 1..points'.state : raw'[i] \in Processed'
    BY <1>3, <2>2, <2>4
  <2> QED BY <1>2, <1>3, <2>5 DEF Reached
<1> QED BY <1>8, <1>9, <1>10, <1>11, <1>12, <1>13, <1>14, <1>15, <1>16, <1>17 DEF Flow

(* The batch committed next is the next in ingest order. *)
LEMMA StateCommitFlow == ASSUME Tables, Flow, StateCommit \/ StateCommitLost PROVE Flow'
<1>1. QueuesOK /\ WorkersOK /\ Workers /\ StoreOK /\ RowsAreStored
  BY Parts
<1>2. PICK b \in Seq(Events) : b = w["state"].batch /\ b = StateBatch
  BY <1>1, StageOK DEF Stages, StateBatch
<1>3. /\ w["state"].pc = "work" /\ Holds(b, inc) /\ CommitState(b) /\ mem' = mem \cup Range(b)
      /\ UNCHANGED <<inc, phase, quarantine, todo, q, zombie, takeovers>>
  BY <1>2 DEF StateCommit, StateCommitLost, StateWorkerDies, bounds
<1>4. Alive
  BY <1>1, <1>3, BusyIsLive DEF Alive, Stages
<1>5. CASE StateCommit
  <2>1. /\ w'["state"] = Idle /\ w'["durable"] = w["durable"] /\ w'["archive"] = w["archive"]
    BY <1>5, StateCommitTables
  <2>2. own \ Range(b) \subseteq own'
    BY <1>2, <1>5 DEF StateCommit
  <2> QED BY <1>2, <1>3, <1>4, <2>1, <2>2, IdleIs, CommittedFlow
<1>6. CASE StateCommitLost
  <2>1. /\ w'["durable"] = w["durable"] /\ w'["archive"] = w["archive"]
    BY <1>6, StateCommitLostTables
  <2>2. /\ own \ Range(b) \subseteq own'
        /\ w' = [w EXCEPT !["state"] = [pc |-> "dead", batch |-> <<>>]]
    BY <1>2, <1>6 DEF StateCommitLost, StateWorkerDies
  <2>3. w'["state"].batch = <<>>
    BY <1>1, <2>2 DEF WorkersOK, Stages
  <2> QED BY <1>2, <1>3, <1>4, <2>1, <2>2, <2>3, CommittedFlow
<1> QED BY <1>5, <1>6

(* A state worker that dies leaves the processed events a prefix. *)
LEMMA StateFailsFlow == ASSUME Tables, Flow, StateFails PROVE Flow'
<1>1. StoreOK /\ ProcessOK /\ RowsAreStored /\ QueuesOK /\ WorkersOK
  BY Parts
<1>2. /\ RowsAreHeld /\ OpenIsMine /\ LateIsMine
      /\ StateHandedOn /\ ArchiveHandedOn /\ StateBeforeArchive
      /\ StateInOrder /\ ArchiveInOrder /\ ZombieOrder /\ Recovery /\ Reached
      /\ Closed(Processed, raw)
  BY FlowParts
<1>3. PICK b \in Seq(Events) : b = w["state"].batch /\ b = StateBatch
  BY <1>1, StageOK DEF Stages, StateBatch
<1>4. /\ MarkFailed(b, inc) /\ mem' = mem
      /\ w' = [w EXCEPT !["state"] = [pc |-> "dead", batch |-> <<>>]]
      /\ own' = own \ {e \in Range(b) : row'[e].st # "PROCESSING"}
      /\ UNCHANGED <<inc, phase, quarantine, todo, q, zombie, takeovers>>
  BY <1>3 DEF StateFails, StateWorkerDies
<1>5. /\ Stored' = Stored /\ Processed' = Processed
      /\ raw' = raw /\ points' = points /\ archived' = archived
      /\ \A e \in Events :
             \/ row'[e] = row[e]
             \/ row[e].st = "PROCESSING" /\ e \in Range(b) /\ row'[e].st = "FAILED"
  BY <1>1, <1>4, MarkFailedIs
<1>6. /\ ToState' \subseteq ToState /\ ToArchive' = ToArchive /\ Live
      /\ w'["state"].pc = "dead" /\ w'["durable"] = w["durable"] /\ w'["archive"] = w["archive"]
  BY StateFailsTables
<1>7. ~Alive' /\ (Live' <=> Live) /\ Stored \subseteq Events
  BY <1>1, <1>4, <1>6, StoredIs DEF Alive, Live
<1>8. Range(b) \subseteq ToState
  BY <1>3 DEF ToState, Line
<1>9. RowsAreHeld'
  BY <1>2, <1>4, <1>5, <1>6, <1>7 DEF RowsAreHeld
<1>10. OpenIsMine' /\ StateHandedOn' /\ StateInOrder'
  BY <1>2, <1>5, <1>7 DEF OpenIsMine, StateHandedOn, StateInOrder
<1>11. LateIsMine'
  <2>1. w["durable"].pc \in {"work", "save"} => Range(b) \subseteq ToArchive
    BY <1>2, <1>6, <1>8 DEF StateBeforeArchive
  <2>2. \A e \in Events : Mine(e) /\ e \notin Range(b) => Mine(e)'
    BY <1>4, <1>5 DEF Mine
  <2> QED BY <1>2, <1>5, <1>6, <1>7, <2>1, <2>2 DEF LateIsMine
<1>12. ArchiveHandedOn' /\ StateBeforeArchive'
  BY <1>2, <1>4, <1>5, <1>6, <1>7 DEF ArchiveHandedOn, StateBeforeArchive
<1>13. ArchiveInOrder'
  <2>1. q'["archive"] = q["archive"]
    BY <1>4
  <2> QED BY <1>2, <1>5, <1>6, <1>7, <2>1, StoredSame, ArchiveOrderSame
<1>14. ZombieOrder'
  <2>1. Fenced
    BY <1>1, <1>4, FailedFenced
  <2> QED BY <1>1, <1>2, <1>4, <1>5, <2>1, ZombieKept
<1>15. Recovery'
  BY <1>4, <1>6 DEF Recovery, Live
<1>16. Reached'
  BY <1>2, <1>4, <1>5 DEF Reached
<1> QED BY <1>9, <1>10, <1>11, <1>12, <1>13, <1>14, <1>15, <1>16 DEF Flow

(* The batch archived next is the next in ingest order. *)
LEMMA ArchiveBatchFlow == ASSUME Tables, Flow, ArchiveBatch PROVE Flow'
<1>1. StoreOK /\ RowsAreStored /\ QueuesOK /\ WorkersOK
  BY Parts
<1>2. /\ LateIsMine /\ StateHandedOn /\ ArchiveHandedOn /\ StateBeforeArchive /\ StateInOrder
      /\ ArchiveInOrder
  BY FlowParts
<1>3. /\ row' = row /\ raw' = raw /\ points' = points /\ q' = q
      /\ UNCHANGED <<mem, inc, phase, quarantine, todo, own, zombie, takeovers>>
  BY DEF ArchiveBatch, bounds
<1>4. PICK b : b = w["archive"].batch
  OBVIOUS
<1>5. /\ ToState' = ToState /\ ToArchive' = ToArchive /\ Live
      /\ w'["state"] = w["state"] /\ w'["durable"] = w["durable"] /\ w'["archive"] = Idle
      /\ archived' = archived \cup Range(b)
  BY <1>4, ArchiveBatchTables
<1>6. (Live' <=> Live) /\ (Alive' <=> Alive)
  BY <1>3, <1>5 DEF Live, Alive
<1>7. /\ RowsAreHeld' /\ OpenIsMine' /\ ZombieOrder' /\ Recovery' /\ Reached'
      /\ Stored' = Stored /\ Processed' = Processed
      /\ \A e : Mine(e)' <=> Mine(e)
  BY <1>3, <1>6, KeptFlow
<1>8. LateIsMine' /\ StateHandedOn' /\ ArchiveHandedOn' /\ StateBeforeArchive'
  BY <1>2, <1>3, <1>5, <1>6, <1>7 DEF LateIsMine, StateHandedOn, ArchiveHandedOn, StateBeforeArchive
<1>9. StateInOrder'
  BY <1>2, <1>3, <1>5, <1>6, <1>7, StoredSame, StateOrderSame
<1>10. \A k : ArchiveLine(k)' = ArchiveLine(k)
  <2>1. Range(w'["archive"].batch) = {}
    BY <1>5, IdleIs, RangeEmpty
  <2> QED BY <1>3, <1>4, <1>5, <2>1 DEF ArchiveLine, Line
<1>11. Closed(archived', raw')
  <2>1. 0 \in 0..Len(q["archive"])
    <3>1. q["archive"] \in Seq(Seq(Events))
      BY <1>1 DEF QueuesOK, Stages
    <3> QED BY <3>1
  <2>2. ArchiveLine(0) = archived \cup Range(b)
    BY <1>4, LineNone DEF ArchiveLine
  <2> QED BY <1>2, <1>3, <1>5, <2>1, <2>2 DEF ArchiveInOrder
<1>12. ArchiveInOrder'
  BY <1>2, <1>3, <1>5, <1>10, <1>11 DEF ArchiveInOrder
<1> QED BY <1>7, <1>8, <1>9, <1>12 DEF Flow

-----------------------------------------------------------------------------
(* A late answer of a process that lost the lease *)

(* The open batch of a former process ends without disturbing the new one. *)
LEMMA ZombieFlow ==
    ASSUME Tables, Flow, raw' = raw, archived' = archived, Stored' = Stored,
           UNCHANGED <<mem, inc, phase, quarantine, todo, q, w, own, takeovers>>,
           zombie' = NoZombie, takeovers # 0, Processed \subseteq Processed', Closed(Processed', raw),
           Exhausted' \subseteq Exhausted, Live => \A e \in Events : row'[e] = row[e],
           \A i \in 1..points'.state : raw[i] \in Processed'
    PROVE  Flow'
<1>1. StoreOK /\ ProcessOK /\ RowsAreStored
  BY Parts
<1>2. /\ RowsAreHeld /\ OpenIsMine /\ LateIsMine
      /\ StateHandedOn /\ ArchiveHandedOn /\ StateBeforeArchive
      /\ StateInOrder /\ ArchiveInOrder /\ ZombieOrder /\ Recovery /\ Reached
  BY FlowParts
<1>3. (Live' <=> Live) /\ (Alive' <=> Alive) /\ Stored \subseteq Events
  BY <1>1, StoredIs DEF Live, Alive
<1>4. Live => Processed' = Processed /\ \A e \in Events : Mine(e)' <=> Mine(e)
  BY DEF Processed, Mine
<1>5. ToState' = ToState /\ ToArchive' = ToArchive
  BY DEF ToState, ToArchive, ArchiveLine
<1>6. RowsAreHeld'
  BY <1>2, <1>3 DEF RowsAreHeld
<1>7. OpenIsMine' /\ LateIsMine'
  BY <1>2, <1>3, <1>4, <1>5 DEF OpenIsMine, LateIsMine, Alive
<1>8. StateHandedOn' /\ ArchiveHandedOn' /\ StateBeforeArchive'
  BY <1>2, <1>3, <1>5 DEF StateHandedOn, ArchiveHandedOn, StateBeforeArchive
<1>9. StateInOrder'
  <2>1. Alive => \A k : StateLine(k)' = StateLine(k)
    BY <1>4 DEF StateLine, Alive
  <2> QED BY <1>2, <1>3, <2>1 DEF StateInOrder
<1>10. ArchiveInOrder'
  BY <1>2, <1>3, StoredSame, ArchiveOrderSame
<1>11. ZombieOrder'
  <2>1. Range(zombie'.batch) = {}
    BY RangeEmpty DEF NoZombie
  <2>2. Processed' \cup Range(zombie'.batch) = Processed'
    BY <2>1
  <2> QED BY <2>2 DEF ZombieOrder
<1>12. ASSUME NEW S, Closed(Processed \cup S, raw) PROVE Closed(Processed' \cup S, raw)
  <2>1. Closed(Processed' \cup (Processed \cup S), raw)
    BY <1>12, ClosedUnion
  <2>2. Processed' \cup (Processed \cup S) = Processed' \cup S
    OBVIOUS
  <2> QED BY <2>1, <2>2
<1>13. Recovery'
  <2>1. phase = "recovering" /\ ~quarantine =>
           \A k \in 0..Len(todo) : Closed(Processed' \cup Prefix(todo, k), raw)
    BY <1>2, <1>12 DEF Recovery
  <2>2. phase = "loading" /\ ~quarantine => Exhausted' = {}
    BY <1>2 DEF Recovery
  <2> QED BY <1>2, <2>1, <2>2 DEF Recovery
<1>14. Reached'
  BY DEF Reached
<1> QED BY <1>6, <1>7, <1>8, <1>9, <1>10, <1>11, <1>13, <1>14 DEF Flow

(* With a stream no claim of the other process is left. *)
LEMMA ZombieIsFenced ==
    ASSUME Tables, Flow, Live, NEW e \in Events, row[e].st = "PROCESSING" PROVE row[e].tok # zombie.tok
<1>1. ProcessOK /\ RowsAreStored /\ Figures /\ RowsAreHeld
  BY Parts, FlowParts
<1>2. e \in Stored
  BY <1>1 DEF RowsAreStored
<1>3. row[e].tok = inc
  BY <1>1, <1>2 DEF RowsAreHeld
<1>4. zombie.tok < inc /\ zombie.tok \in Nat /\ inc \in Nat
  BY <1>1 DEF Figures, Live, ProcessOK
<1> QED BY <1>3, <1>4

(* A former process that still holds its claims commits the next events in  *)
(* ingest order.                                                            *)
LEMMA ZombieCommitsFlow == ASSUME Tables, Flow, ZombieCommits PROVE Flow'
<1>1. StoreOK /\ ProcessOK /\ RowsAreStored /\ Figures
  BY Parts
<1>2. PICK b \in Seq(Events), t \in Nat : b = zombie.batch /\ t = zombie.tok
  BY <1>1, ZombieBatch
<1>3. /\ Holds(b, t) /\ CommitState(b) /\ zombie' = NoZombie
      /\ UNCHANGED <<mem, inc, phase, quarantine, todo, q, w, own, takeovers>>
  BY <1>2 DEF ZombieCommits, bounds
<1>4. /\ Stored' = Stored /\ Processed' = Processed \cup Range(b)
      /\ raw' = raw /\ archived' = archived
      /\ points'.state = Furthest(Range(b), points.state)
      /\ Range(b) \subseteq Stored
      /\ \A e \in Events : e \notin Range(b) => row'[e] = row[e]
      /\ \A e \in Range(b) : row[e].st = "PROCESSING" /\ row[e].tok = t /\ row'[e].st = "PROCESSED"
  BY <1>3, CommitIs
<1>5. takeovers # 0
  BY ZombieCommitsTables
<1>6. ZombieOrder /\ Reached /\ Stored \subseteq Events
  BY <1>1, FlowParts, StoredIs
<1>7. Closed(Processed', raw)
  BY <1>2, <1>3, <1>4, <1>6 DEF ZombieOrder
<1>8. Live => \A e \in Events : row'[e] = row[e]
  BY <1>2, <1>4, <1>6, ZombieIsFenced
<1>9. Exhausted' \subseteq Exhausted
  BY <1>4, <1>6 DEF Exhausted
<1>10. \A i \in 1..points'.state : raw[i] \in Processed'
  <2>1. raw \in Seq(Events) /\ IsInjective(raw) /\ points.state \in 0..Len(raw)
    BY <1>1 DEF StoreOK, RowsAreStored, Figures
  <2>2. PICK P : P = Processed \cup Range(b)
    OBVIOUS
  <2>3. Closed(P, raw) /\ Range(b) \subseteq P /\ \A i \in 1..points.state : raw[i] \in P
    BY <1>4, <1>6, <1>7, <2>2 DEF Reached
  <2>4. \A i \in 1..Furthest(Range(b), points.state) : raw[i] \in P
    BY <1>4, <2>1, <2>3, FurthestReached
  <2> QED BY <1>4, <2>2, <2>4
<1>11. Processed \subseteq Processed'
  BY <1>4
<1> QED BY <1>3, <1>4, <1>5, <1>7, <1>8, <1>9, <1>10, <1>11, ZombieFlow

(* A former process that fails leaves the order alone. *)
LEMMA ZombieFailsFlow == ASSUME Tables, Flow, ZombieFails PROVE Flow'
<1>1. StoreOK /\ ProcessOK /\ RowsAreStored
  BY Parts
<1>2. PICK b \in Seq(Events), t \in Nat : b = zombie.batch /\ t = zombie.tok
  BY <1>1, ZombieBatch
<1>3. /\ MarkFailed(b, t) /\ zombie' = NoZombie
      /\ UNCHANGED <<mem, inc, phase, quarantine, todo, q, w, own, takeovers>>
  BY <1>2 DEF ZombieFails, bounds
<1>4. /\ Stored' = Stored /\ Processed' = Processed
      /\ raw' = raw /\ points' = points /\ archived' = archived
      /\ \A e \in Events :
             \/ row'[e] = row[e]
             \/ /\ row[e].st = "PROCESSING" /\ row[e].tok = t
                /\ row'[e].st = "FAILED" /\ row'[e].att = row[e].att
  BY <1>1, <1>3, MarkFailedIs
<1>5. takeovers # 0
  BY ZombieFailsTables
<1>6. Closed(Processed, raw) /\ Reached /\ Stored \subseteq Events
  BY <1>1, FlowParts, StoredIs
<1>7. Live => \A e \in Events : row'[e] = row[e]
  BY <1>2, <1>4, ZombieIsFenced
<1>8. Exhausted' \subseteq Exhausted
  BY <1>4, <1>6 DEF Exhausted
<1>9. /\ \A i \in 1..points'.state : raw[i] \in Processed'
      /\ Processed \subseteq Processed' /\ Closed(Processed', raw)
  BY <1>4, <1>6 DEF Reached
<1> QED BY <1>3, <1>4, <1>5, <1>7, <1>8, <1>9, ZombieFlow


(* The second invariant holds at the start. *)
LEMMA InitFlow == ASSUME Init PROVE Flow
<1>1. /\ raw = <<>> /\ points = [durable |-> 0, state |-> 0] /\ phase = "down"
  BY DEF Init
<1>2. ~Live /\ ~Alive
  BY <1>1 DEF Live, Alive
<1>3. \A S : Closed(S, raw)
  <2>1. Len(raw) = 0
    BY <1>1
  <2> QED BY <2>1 DEF Closed
<1>4. RowsAreHeld /\ OpenIsMine /\ LateIsMine /\ StateHandedOn /\ ArchiveHandedOn /\ StateBeforeArchive
  BY <1>1, <1>2 DEF RowsAreHeld, OpenIsMine, LateIsMine, StateHandedOn, ArchiveHandedOn, StateBeforeArchive
<1>5. StateInOrder /\ ArchiveInOrder /\ ZombieOrder
  BY <1>2, <1>3 DEF StateInOrder, ArchiveInOrder, ZombieOrder
<1>6. Recovery /\ Reached
  BY <1>1 DEF Recovery, Reached
<1> QED BY <1>4, <1>5, <1>6 DEF Flow

(* Every step keeps the second invariant. *)
LEMMA NextFlow == ASSUME Tables, Flow, [Next]_vars PROVE Flow'
<1>1. CASE Start
  BY <1>1, BootFlow, LoadTodoFlow, RecoverClaimFlow, RecoverApplyFlow, EndRecoveryFlow,
     ArchiveRecoveryFlow DEF Start
<1>2. CASE Work
  BY <1>2, TakeFlow, DurableInsertFlow, DurableCheckpointFlow, EnqueueStateFlow, EnqueueArchiveFlow,
     StateCommitFlow, ArchiveBatchFlow DEF Work
<1>3. CASE Fault
  BY <1>3, GivenUpFlow, DurableInsertFlow, DurableCheckpointFlow, StateFailsFlow, StateCommitFlow,
     StopFlow, TakeoverFlow DEF Fault
<1>4. CASE \E e \in Events : Deliver(e)
  BY <1>4, DeliverFlow
<1>5. CASE BeginStop \/ StopDrained \/ StopTimesOut \/ ZombieCommits \/ ZombieFails
  BY <1>5, BeginStopFlow, StopFlow, GivenUpFlow, ZombieCommitsFlow, ZombieFailsFlow
<1>6. CASE UNCHANGED vars
  BY <1>6, StutterFlow
<1> QED BY <1>1, <1>2, <1>3, <1>4, <1>5, <1>6 DEF Next

-----------------------------------------------------------------------------
(* What follows from the invariant *)

(* The stages are handed every stored event, in the order of                *)
(* raw_chain_events, through restarts, lost answers and a lost lease.       *)
THEOREM SpecFlow == Spec => []Flow
<1>1. Init => Flow
  BY InitFlow
<1>2. Tables /\ Flow /\ [Next]_vars => Flow'
  BY NextFlow
<1> QED BY <1>1, <1>2, SpecTables, PTL DEF Spec

(* No processed row follows an open one in the order of ingest_sequence,    *)
(* so load_quarantined_event_protocols quarantines only for an event that   *)
(* used up its attempts.                                                    *)
THEOREM SpecProcessedInOrder == Spec => []ProcessedInOrder
<1>1. Flow => ProcessedInOrder
  BY DEF Flow, StateInOrder, Closed, ProcessedInOrder
<1> QED BY <1>1, SpecFlow, PTL

(* The checkpoints of save_stream_protocol_checkpoints never run ahead:     *)
(* what lies behind the state checkpoint is processed, what lies behind the *)
(* durable one is stored.                                                   *)
THEOREM SpecCheckpointsAreReached == Spec => []CheckpointsAreReached
<1>1. Tables /\ Flow => CheckpointsAreReached
  BY DEF Tables, Figures, Flow, Reached, CheckpointsAreReached
<1> QED BY <1>1, SpecTables, SpecFlow, PTL

(* The archive segments have no hole: every stored event up to the last     *)
(* archived sequence is in one, which is what lets start_background_workers *)
(* resume behind it.                                                        *)
THEOREM SpecArchiveHasNoHole == Spec => []ArchiveHasNoHole
<1>1. ASSUME Tables, Flow PROVE ArchiveHasNoHole
  <2>1. raw \in Seq(Events) /\ IsInjective(raw) /\ archived \subseteq Stored /\ Closed(archived, raw)
    BY <1>1, Parts, FlowParts, ArchivedStored DEF StoreOK, RowsAreStored
  <2>2. 0 \in 0..Len(raw) /\ \A i \in 1..0 : raw[i] \in archived
    BY <2>1
  <2>3. \A i \in 1..Furthest(archived, 0) : raw[i] \in archived
    <3>1. PICK A : A = archived
      OBVIOUS
    <3>2. \A i \in 1..Furthest(A, 0) : raw[i] \in A
      BY <2>1, <2>2, <3>1, FurthestReached
    <3> QED BY <3>1, <3>2
  <2> QED BY <2>3 DEF ArchiveHasNoHole, LastArchived
<1> QED BY <1>1, SpecTables, SpecFlow, PTL

(* A running process that took over from no live one has applied in memory  *)
(* every event the database calls processed, although it rehydrates only    *)
(* the processed prefix and recovers the rest one by one.                   *)
THEOREM SpecMemoryIsComplete == Spec => []MemoryIsComplete
<1>1. Flow => MemoryIsComplete
  BY DEF Flow, Reached, MemoryIsComplete
<1> QED BY <1>1, SpecFlow, PTL

(* A shutdown whose three joins succeed leaves no event open and none       *)
(* unarchived, unless the state worker died or the stream never started.    *)
THEOREM SpecDrainIsComplete == Spec => DrainIsComplete
<1>1. ASSUME Tables, Flow, StopDrained, fatal = "no", ~quarantine
      PROVE  Stored \subseteq Processed /\ Stored \subseteq archived
  <2>1. phase = "stopping" /\ \A s \in Stages : q[s] = <<>> /\ w[s].pc \in {"idle", "dead"}
    BY <1>1 DEF StopDrained, Drained
  <2>2. Workers
    BY <1>1, Parts
  <2>3. /\ q["state"] = <<>> /\ q["archive"] = <<>> /\ w["state"].batch = <<>> /\ w["archive"].batch = <<>>
        /\ w["durable"].pc = "idle" /\ w["state"].pc # "dead"
    BY <1>1, <2>1, <2>2 DEF Workers, Stages
  <2>4. Live /\ Alive
    BY <1>1, <2>1, <2>3 DEF Live, Alive
  <2>5. /\ \A e \in Stored : e \in ToArchive
        /\ \A e \in Stored : e \in Processed \/ e \in ToState
    BY <1>1, <2>3, <2>4, HandedOn
  <2>6. ToState = {} /\ ToArchive = archived
    BY <2>3, LineEmpty DEF ToState, ToArchive, ArchiveLine
  <2> QED BY <2>5, <2>6
<1>2. Tables /\ Flow /\ [Next]_vars =>
        [StopDrained /\ fatal = "no" /\ zombie = NoZombie /\ ~quarantine
            => Stored \subseteq Processed /\ Stored \subseteq archived]_vars
  BY <1>1
<1> QED BY <1>2, SpecTables, SpecFlow, PTL DEF Spec, DrainIsComplete

-----------------------------------------------------------------------------
(* The pipeline implements EventLog *)

(* A set of stored events that has, with each, all events stored before it, *)
(* is the first events of raw_chain_events, for some number of them.        *)
LEMMA ClosedIsPrefix ==
    ASSUME NEW E, NEW r \in Seq(E), NEW S, S \subseteq Range(r), Closed(S, r)
    PROVE  \E n \in 0..Len(r) : S = {r[i] : i \in 1..n}
<1> DEFINE Out == {k \in Nat : k \in 1..Len(r) /\ r[k] \notin S}
<1>1. Range(r) = {r[i] : i \in 1..Len(r)} /\ Len(r) \in Nat
  BY RangeIs DEF Prefix
<1>2. CASE Out = {}
  <2>1. S = {r[i] : i \in 1..Len(r)}
    BY <1>1, <1>2
  <2> QED BY <1>1, <2>1
<1>3. CASE Out # {}
  <2>1. PICK k \in Out : \A y \in Out : ~(y < k)
    <3>1. Out \in SUBSET Nat
      OBVIOUS
    <3> HIDE DEF Out
    <3> QED BY <1>3, <3>1, LeastElement
  <2>2. k \in 1..Len(r) /\ r[k] \notin S
    BY <2>1
  <2>3. \A i \in 1..(k - 1) : r[i] \in S
    BY <1>1, <2>1, <2>2
  <2>4. \A i \in 1..Len(r) : r[i] \in S => i < k
    BY <1>1, <2>2 DEF Closed
  <2>5. S = {r[i] : i \in 1..(k - 1)}
    BY <1>1, <2>2, <2>3, <2>4
  <2>6. k - 1 \in 0..Len(r)
    BY <1>1, <2>2
  <2> QED BY <2>5, <2>6
<1> QED BY <1>2, <1>3

(* What one step may do to the tables: new rows behind the old ones, or     *)
(* more processed events, or more archived ones.                            *)
Appends ==
    /\ Len(raw) <= Len(raw') /\ \A i \in 1..Len(raw) : raw'[i] = raw[i]
    /\ Processed' = Processed /\ archived' = archived
Processes == raw' = raw /\ archived' = archived /\ Processed \subseteq Processed'
Archives == raw' = raw /\ Processed' = Processed /\ archived \subseteq archived'

(* A step that leaves the tables alone processes nothing more. *)
LEMMA StoreProcesses == ASSUME UNCHANGED store PROVE Processes
  BY DEF store, Processes, Processed

(* record_events appends. *)
LEMMA InsertAppends ==
    ASSUME Tables, DurableInsert \/ DurableInsertLost PROVE Appends
<1>1. RecordEvents(w["durable"].batch) /\ archived' = archived
  BY DEF DurableInsert, DurableInsertLost
<1>2. StoreOK /\ ProcessOK /\ RowsAreStored /\ w["durable"].batch \in Seq(Events)
  BY Parts, StageOK DEF Stages
<1>3. Processed' = Processed /\ Len(raw) <= Len(raw') /\ \A i \in 1..Len(raw) : raw'[i] = raw[i]
  BY <1>1, <1>2, RecordIs
<1> QED BY <1>1, <1>3 DEF Appends

(* The commit of a state keeps what is processed, in this process and in    *)
(* one that lost the lease.                                                 *)
LEMMA CommitProcesses ==
    ASSUME Tables, StateCommit \/ StateCommitLost \/ ZombieCommits PROVE Processes
<1>1. PICK b, tok : b \in Seq(Events) /\ Holds(b, tok) /\ CommitState(b)
  <2>1. w["state"].batch \in Seq(Events) /\ zombie.batch \in Seq(Events)
    BY Parts, StageOK, ZombieBatch DEF Stages
  <2> QED BY <2>1 DEF StateCommit, StateCommitLost, ZombieCommits, StateBatch
<1>2. raw' = raw /\ archived' = archived /\ Processed' = Processed \cup Range(b)
  BY <1>1, CommitIs
<1> QED BY <1>2 DEF Processes

(* mark_events_failed opens no processed row again. *)
LEMMA FailureProcesses ==
    ASSUME Tables, StateFails \/ StopTimesOut \/ RecoverFails \/ ZombieFails PROVE Processes
<1>1. PICK b, tok : b \in Seq(Events) /\ MarkFailed(b, tok)
  <2>1. w["state"].batch \in Seq(Events) /\ zombie.batch \in Seq(Events) /\ ProcessOK
    BY Parts, StageOK, ZombieBatch DEF Stages
  <2>2. todo # <<>> => <<Head(todo)>> \in Seq(Events)
    BY <2>1, HeadIs
  <2> QED BY <2>1, <2>2 DEF StateFails, StopTimesOut, RecoverFails, ZombieFails, StateBatch
<1>2. raw' = raw /\ archived' = archived /\ Processed' = Processed
  BY <1>1, Parts, MarkFailedIs
<1> QED BY <1>2 DEF Processes

(* The recovery of start() takes nothing back. *)
LEMMA RecoveryProcesses == ASSUME Tables, RecoverClaim \/ RecoverApply PROVE Processes
<1>1. StoreOK /\ ProcessOK /\ RowsAreStored /\ Figures /\ LinesAreStored
  BY Parts
<1>2. todo # <<>>
  BY DEF RecoverClaim, RecoverApply
<1>3. PICK h : h = Head(todo) /\ h \in Stored
  BY <1>1, <1>2, HeadStored
<1>4. CASE RecoverClaim
  BY <1>1, <1>3, <1>4, RecoverClaimIs DEF Processes
<1>5. CASE RecoverApply
  BY <1>1, <1>3, <1>5, RecoverApplyIs DEF Processes
<1> QED BY <1>4, <1>5

(* Segments are added, never removed. *)
LEMMA SegmentsArchive == ASSUME ArchiveRecovery \/ ArchiveBatch PROVE Archives
  BY DEF ArchiveRecovery, ArchiveBatch, RecordSegments, Archives, Processed

(* Every step does one of the three. *)
LEMMA NextMoves == ASSUME Tables, [Next]_vars PROVE Appends \/ Processes \/ Archives
<1>1. CASE Start
  BY <1>1, StoreProcesses, RecoveryProcesses, SegmentsArchive
     DEF Start, Boot, LoadTodo, EndRecovery
<1>2. CASE Work
  <2>1. CASE \E s \in Stages : Take(s)
    BY <2>1, StoreProcesses DEF Take
  <2>2. CASE DurableCheckpoint
    <3>1. row' = row /\ raw' = raw /\ archived' = archived
      BY <2>2 DEF DurableCheckpoint
    <3> QED BY <3>1 DEF Processes, Processed
  <2>3. CASE \E s \in {"state", "archive"} : Enqueue(s)
    <3>1. UNCHANGED store
      BY <2>3 DEF Enqueue
    <3> QED BY <3>1, StoreProcesses
  <2> QED BY <1>2, <2>1, <2>2, <2>3, InsertAppends, CommitProcesses, SegmentsArchive DEF Work
<1>3. CASE Fault
  BY <1>3, StoreProcesses, FailureProcesses, InsertAppends, CommitProcesses
     DEF Fault, DurableCheckpointFails, Crash, Takeover
<1>4. CASE \E e \in Events : Deliver(e)
  BY <1>4, StoreProcesses DEF Deliver
<1>5. CASE BeginStop \/ StopDrained \/ StopTimesOut \/ ZombieCommits \/ ZombieFails
  BY <1>5, StoreProcesses, FailureProcesses, CommitProcesses DEF BeginStop, StopDrained
<1>6. CASE UNCHANGED vars
  BY <1>6, StoreProcesses DEF vars
<1> QED BY <1>1, <1>2, <1>3, <1>4, <1>5, <1>6 DEF Next

(* The tables keep their types over a step. *)
LEMMA TypePartsNext == TypeOK' <=> StoreOK' /\ ProcessOK' /\ QueuesOK' /\ WorkersOK'
  BY DEF TypeOK, StoreOK, ProcessOK, QueuesOK, WorkersOK, Rows, Statuses, Workloads, Pcs

(* The effects of the next state are those of the abstract application. *)
LEMMA EffectsAre ==
    ASSUME Tables, Tables', Processed \subseteq Processed'
    PROVE  effects' = [e \in Events |->
                          IF e \in Processed' \ Processed THEN effects[e] + 1 ELSE effects[e]]
<1>1. /\ effects \in [Events -> Nat] /\ effects' \in [Events -> Nat]
      /\ \A e \in Events : effects[e] = IF e \in Processed THEN 1 ELSE 0
      /\ \A e \in Events : effects'[e] = IF e \in Processed' THEN 1 ELSE 0
  BY TypeParts, TypePartsNext DEF Tables, StoreOK, Figures
<1>2. \A e \in Events :
        effects'[e] = IF e \in Processed' \ Processed THEN effects[e] + 1 ELSE effects[e]
  BY <1>1
<1> QED BY <1>1, <1>2

(* Every step of the pipeline is a step of the log or changes nothing of it. *)
LEMMA StepImplements ==
    ASSUME Tables, Flow, Tables', Flow', [Next]_vars PROVE [Log!Next]_(Log!vars)
<1>1. /\ raw' \in Seq(Events) /\ IsInjective(raw') /\ DOMAIN raw' = 1..Len(raw')
      /\ Processed' \subseteq Range(raw') /\ Closed(Processed', raw')
      /\ archived' \subseteq Range(raw') /\ Closed(archived', raw')
  <2>1. raw' \in Seq(Events) /\ IsInjective(raw')
    BY TypePartsNext DEF Tables, StoreOK, RowsAreStored
  <2>2. Processed' \subseteq Range(raw')
    BY DEF Tables, RowsAreStored, Processed, Stored
  <2>3. archived' \subseteq Range(raw')
    BY DEF Tables, LinesAreStored, ToArchive, ArchiveLine, Line, Stored
  <2>4. Closed(Processed', raw') /\ Closed(archived', raw')
    BY DEF Flow, StateInOrder, ArchiveInOrder
  <2> QED BY <2>1, <2>2, <2>3, <2>4
<1>2. CASE Appends
  <2>1. effects' = effects
    <3>1. effects \in [Events -> Nat]
      BY TypeParts DEF Tables, StoreOK
    <3> QED BY <1>2, <3>1, EffectsAre DEF Appends
  <2>2. \A i, j \in 1..Len(raw') : raw'[i] = raw'[j] => i = j
    BY <1>1 DEF IsInjective
  <2> QED BY <1>1, <1>2, <2>1, <2>2 DEF Appends, Log!Next, Log!Store
<1>3. CASE Processes
  <2>1. \E n \in 0..Len(raw') : Processed' = {raw'[i] : i \in 1..n}
    BY <1>1, ClosedIsPrefix
  <2>2. Processed' \in {{raw[i] : i \in 1..n} : n \in 0..Len(raw)}
    BY <1>3, <2>1 DEF Processes
  <2> QED BY <1>3, <2>2, EffectsAre DEF Processes, Log!Next, Log!Apply, Log!Prefixes
<1>4. CASE Archives
  <2>1. \E n \in 0..Len(raw') : archived' = {raw'[i] : i \in 1..n}
    BY <1>1, ClosedIsPrefix
  <2>2. archived' \in {{raw[i] : i \in 1..n} : n \in 0..Len(raw)}
    BY <1>4, <2>1 DEF Archives
  <2>3. effects' = effects
    <3>1. effects \in [Events -> Nat]
      BY TypeParts DEF Tables, StoreOK
    <3> QED BY <1>4, <3>1, EffectsAre DEF Archives
  <2> QED BY <1>4, <2>2, <2>3 DEF Archives, Log!Next, Log!Archive, Log!Prefixes
<1> QED BY <1>2, <1>3, <1>4, NextMoves

(* The pipeline implements EventLog: seen through its tables, without claims, *)
(* queues, workers and processes, every step stores new events behind the    *)
(* old ones, applies the next ones once each, archives the next ones, or     *)
(* changes nothing.                                                          *)
THEOREM SpecImplementsEventLog == Spec => ImplementsEventLog
<1>1. Init => Log!Init
  <2>1. ASSUME Init PROVE Processed = {}
    BY <2>1 DEF Init, Processed, NoRow
  <2> QED BY <2>1 DEF Init, Log!Init
<1>2. Tables /\ Flow /\ Tables' /\ Flow' /\ [Next]_vars => [Log!Next]_(Log!vars)
  BY StepImplements
<1> QED BY <1>1, <1>2, SpecTables, SpecFlow, PTL DEF Spec, ImplementsEventLog, Log!Spec
=============================================================================
