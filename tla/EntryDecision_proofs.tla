------------------------ MODULE EntryDecision_proofs ------------------------
(***************************************************************************)
(* Proofs about EntryDecision and MarketAnalysis.  What the process derived *)
(* from the events is what the set of applied events determines, whatever   *)
(* order they arrived in: trades, buyers, relations (StateOK, RelationsOK). *)
(* The clusters are components for all relations.  A pass in progress has   *)
(* seen what it will be judged by (EvalOK, SupplyOK), from which the three   *)
(* properties of an entry follow.                                           *)
(***************************************************************************)
EXTENDS EntryDecision, WellFoundedInduction, FiniteSetTheorems, TLAPS

-----------------------------------------------------------------------------
(* Induction over the naturals, with the property given as a set (see        *)
(* EventPipeline_proofs), and what the recursive functions of the model      *)
(* compute, step by step.                                                    *)

LessThan == {r \in Nat \X Nat : r[1] < r[2]}

(* A set of naturals that is not empty has a least element. *)
LEMMA LeastElement ==
    ASSUME NEW T \in SUBSET Nat, T # {}
    PROVE  \E x \in T : \A y \in T : ~(y < x)
<1>1. IsWellFoundedOn(LessThan, Nat)
  BY NatLessThanWellFounded DEF OpToRel, LessThan
<1>2. PICK x \in T : \A y \in T : ~(<<y, x>> \in LessThan)
  BY <1>1, WFMin
<1>3. \A y \in T : <<y, x>> \in LessThan <=> y < x
  BY DEF LessThan
<1> QED BY <1>2, <1>3

(* Induction over the naturals, with the property as a set. *)
LEMMA SetInduction ==
    ASSUME NEW S \in SUBSET Nat, 0 \in S, \A n \in S : n + 1 \in S
    PROVE  S = Nat
<1> SUFFICES ASSUME Nat \ S # {} PROVE FALSE
  OBVIOUS
<1>1. PICK x \in Nat \ S : \A y \in Nat \ S : ~(y < x)
  BY LeastElement
<1>2. x # 0 /\ x - 1 \in Nat /\ x - 1 < x
  OBVIOUS
<1>3. x - 1 \in S
  BY <1>1, <1>2
<1> QED BY <1>2, <1>3

(* The state m after each of the events of s is read again. *)
LEMMA RehydratedSteps ==
    ASSUME NEW S, NEW s \in Seq(S), NEW m
    PROVE  \E F : /\ Rehydrated(m, s) = F[Len(s)] /\ F[0] = m
                  /\ \A i \in 1..Len(s) : F[i] = Rehydrate(F[i - 1], s[i])
<1> DEFINE IsF(g, n) == /\ g = [i \in 0..n |-> g[i]] /\ g[0] = m
                        /\ \A i \in 1..n : g[i] = Rehydrate(g[i - 1], s[i])
           F == CHOOSE g : g = [i \in 0..Len(s) |->
                                  IF i = 0 THEN m ELSE Rehydrate(g[i - 1], s[i])]
           Q == {n \in Nat : \E g : IsF(g, n)}
<1>1. Rehydrated(m, s) = F[Len(s)]
  BY DEF Rehydrated
<1>2. Len(s) \in Nat
  OBVIOUS
<1>3. 0 \in Q
  <2>1. IsF([i \in 0..0 |-> m], 0)
    OBVIOUS
  <2> QED BY <2>1
<1>4. ASSUME NEW n \in Q PROVE n + 1 \in Q
  <2>1. PICK g : IsF(g, n)
    BY <1>4
  <2>2. n \in Nat
    BY <1>4
  <2> DEFINE h == [i \in 0..(n + 1) |->
                      IF i = n + 1 THEN Rehydrate(g[n], s[n + 1]) ELSE g[i]]
  <2>3. /\ \A i \in 0..n : h[i] = g[i]
        /\ h[n + 1] = Rehydrate(h[n], s[n + 1])
        /\ h = [i \in 0..(n + 1) |-> h[i]]
    BY <2>2
  <2> HIDE DEF h
  <2>4. ASSUME NEW i \in 1..(n + 1) PROVE h[i] = Rehydrate(h[i - 1], s[i])
    <3>1. CASE i = n + 1
      BY <2>2, <2>3, <3>1
    <3>2. CASE i # n + 1
      <4>1. i \in 1..n /\ i \in 0..n /\ i - 1 \in 0..n
        BY <2>2, <3>2
      <4> QED BY <2>1, <2>3, <4>1
    <3> QED BY <3>1, <3>2
  <2>5. h[0] = m
    <3>1. g[0] = m
      BY <2>1
    <3>2. 0 \in 0..n
      BY <2>2
    <3> QED BY <2>3, <3>1, <3>2
  <2>6. IsF(h, n + 1)
    BY <2>3, <2>4, <2>5
  <2> HIDE DEF IsF
  <2> QED BY <2>2, <2>6
<1>5. Q \in SUBSET Nat
  OBVIOUS
<1> HIDE DEF Q
<1>6. Q = Nat
  BY <1>3, <1>4, <1>5, SetInduction
<1>7. PICK g : IsF(g, Len(s))
  BY <1>2, <1>6 DEF Q
<1>8. \A i \in 0..Len(s) : i = 0 \/ i \in 1..Len(s)
  OBVIOUS
<1>9. g = [i \in 0..Len(s) |-> IF i = 0 THEN m ELSE Rehydrate(g[i - 1], s[i])]
  BY <1>7, <1>8
<1>10. F = [i \in 0..Len(s) |-> IF i = 0 THEN m ELSE Rehydrate(F[i - 1], s[i])]
  BY <1>9
<1> HIDE DEF F
<1>11. 0 \in 0..Len(s) /\ \A i \in 1..Len(s) : i \in 0..Len(s) /\ i # 0
  OBVIOUS
<1>12. F[0] = m /\ \A i \in 1..Len(s) : F[i] = Rehydrate(F[i - 1], s[i])
  BY <1>10, <1>11
<1> QED BY <1>1, <1>12
(* The list as Only reads on. *)
LEMMA OnlySteps ==
    ASSUME NEW T, NEW s \in Seq(T), NEW S
    PROVE  \E F : /\ Only(s, S) = F[Len(s)] /\ F[0] = <<>>
                  /\ \A i \in 1..Len(s) : F[i] = (IF s[i] \in S THEN Append(F[i - 1], s[i]) ELSE F[i - 1])
<1> DEFINE IsF(g, n) == /\ g = [i \in 0..n |-> g[i]] /\ g[0] = <<>>
                        /\ \A i \in 1..n : g[i] = (IF s[i] \in S THEN Append(g[i - 1], s[i]) ELSE g[i - 1])
           F == CHOOSE g : g = [i \in 0..Len(s) |->
                                  IF i = 0 THEN <<>> ELSE (IF s[i] \in S THEN Append(g[i - 1], s[i]) ELSE g[i - 1])]
           Q == {n \in Nat : \E g : IsF(g, n)}
<1>1. Only(s, S) = F[Len(s)]
  BY DEF Only
<1>2. Len(s) \in Nat
  OBVIOUS
<1>3. 0 \in Q
  <2>1. IsF([i \in 0..0 |-> <<>>], 0)
    OBVIOUS
  <2> QED BY <2>1
<1>4. ASSUME NEW n \in Q PROVE n + 1 \in Q
  <2>1. PICK g : IsF(g, n)
    BY <1>4
  <2>2. n \in Nat
    BY <1>4
  <2> DEFINE h == [i \in 0..(n + 1) |->
                      IF i = n + 1 THEN (IF s[n + 1] \in S THEN Append(g[n], s[n + 1]) ELSE g[n]) ELSE g[i]]
  <2>3. /\ \A i \in 0..n : h[i] = g[i]
        /\ h[n + 1] = (IF s[n + 1] \in S THEN Append(h[n], s[n + 1]) ELSE h[n])
        /\ h = [i \in 0..(n + 1) |-> h[i]]
    BY <2>2
  <2> HIDE DEF h
  <2>4. ASSUME NEW i \in 1..(n + 1) PROVE h[i] = (IF s[i] \in S THEN Append(h[i - 1], s[i]) ELSE h[i - 1])
    <3>1. CASE i = n + 1
      BY <2>2, <2>3, <3>1
    <3>2. CASE i # n + 1
      <4>1. i \in 1..n /\ i \in 0..n /\ i - 1 \in 0..n
        BY <2>2, <3>2
      <4> QED BY <2>1, <2>3, <4>1
    <3> QED BY <3>1, <3>2
  <2>5. h[0] = <<>>
    <3>1. g[0] = <<>>
      BY <2>1
    <3>2. 0 \in 0..n
      BY <2>2
    <3> QED BY <2>3, <3>1, <3>2
  <2>6. IsF(h, n + 1)
    BY <2>3, <2>4, <2>5
  <2> HIDE DEF IsF
  <2> QED BY <2>2, <2>6
<1>5. Q \in SUBSET Nat
  OBVIOUS
<1> HIDE DEF Q
<1>6. Q = Nat
  BY <1>3, <1>4, <1>5, SetInduction
<1>7. PICK g : IsF(g, Len(s))
  BY <1>2, <1>6 DEF Q
<1>8. \A i \in 0..Len(s) : i = 0 \/ i \in 1..Len(s)
  OBVIOUS
<1>9. g = [i \in 0..Len(s) |-> IF i = 0 THEN <<>> ELSE (IF s[i] \in S THEN Append(g[i - 1], s[i]) ELSE g[i - 1])]
  BY <1>7, <1>8
<1>10. F = [i \in 0..Len(s) |-> IF i = 0 THEN <<>> ELSE (IF s[i] \in S THEN Append(F[i - 1], s[i]) ELSE F[i - 1])]
  BY <1>9
<1> HIDE DEF F
<1>11. 0 \in 0..Len(s) /\ \A i \in 1..Len(s) : i \in 0..Len(s) /\ i # 0
  OBVIOUS
<1>12. F[0] = <<>> /\ \A i \in 1..Len(s) : F[i] = (IF s[i] \in S THEN Append(F[i - 1], s[i]) ELSE F[i - 1])
  BY <1>10, <1>11
<1> QED BY <1>1, <1>12
(* What is known of the buyers after each of the buys. *)
LEMMA RebuildSteps ==
    ASSUME NEW S, NEW buys \in Seq(S)
    PROVE  \E F : /\ Rebuild(buys) = F[Len(buys)] /\ F[0] = NoBuyers
                  /\ \A i \in 1..Len(buys) : F[i] = AddBuy(F[i - 1], buys[i])
<1> DEFINE IsF(g, n) == /\ g = [i \in 0..n |-> g[i]] /\ g[0] = NoBuyers
                        /\ \A i \in 1..n : g[i] = AddBuy(g[i - 1], buys[i])
           F == CHOOSE g : g = [i \in 0..Len(buys) |->
                                  IF i = 0 THEN NoBuyers ELSE AddBuy(g[i - 1], buys[i])]
           Q == {n \in Nat : \E g : IsF(g, n)}
<1>1. Rebuild(buys) = F[Len(buys)]
  BY DEF Rebuild
<1>2. Len(buys) \in Nat
  OBVIOUS
<1>3. 0 \in Q
  <2>1. IsF([i \in 0..0 |-> NoBuyers], 0)
    OBVIOUS
  <2> QED BY <2>1
<1>4. ASSUME NEW n \in Q PROVE n + 1 \in Q
  <2>1. PICK g : IsF(g, n)
    BY <1>4
  <2>2. n \in Nat
    BY <1>4
  <2> DEFINE h == [i \in 0..(n + 1) |->
                      IF i = n + 1 THEN AddBuy(g[n], buys[n + 1]) ELSE g[i]]
  <2>3. /\ \A i \in 0..n : h[i] = g[i]
        /\ h[n + 1] = AddBuy(h[n], buys[n + 1])
        /\ h = [i \in 0..(n + 1) |-> h[i]]
    BY <2>2
  <2> HIDE DEF h
  <2>4. ASSUME NEW i \in 1..(n + 1) PROVE h[i] = AddBuy(h[i - 1], buys[i])
    <3>1. CASE i = n + 1
      BY <2>2, <2>3, <3>1
    <3>2. CASE i # n + 1
      <4>1. i \in 1..n /\ i \in 0..n /\ i - 1 \in 0..n
        BY <2>2, <3>2
      <4> QED BY <2>1, <2>3, <4>1
    <3> QED BY <3>1, <3>2
  <2>5. h[0] = NoBuyers
    <3>1. g[0] = NoBuyers
      BY <2>1
    <3>2. 0 \in 0..n
      BY <2>2
    <3> QED BY <2>3, <3>1, <3>2
  <2>6. IsF(h, n + 1)
    BY <2>3, <2>4, <2>5
  <2> HIDE DEF IsF
  <2> QED BY <2>2, <2>6
<1>5. Q \in SUBSET Nat
  OBVIOUS
<1> HIDE DEF Q
<1>6. Q = Nat
  BY <1>3, <1>4, <1>5, SetInduction
<1>7. PICK g : IsF(g, Len(buys))
  BY <1>2, <1>6 DEF Q
<1>8. \A i \in 0..Len(buys) : i = 0 \/ i \in 1..Len(buys)
  OBVIOUS
<1>9. g = [i \in 0..Len(buys) |-> IF i = 0 THEN NoBuyers ELSE AddBuy(g[i - 1], buys[i])]
  BY <1>7, <1>8
<1>10. F = [i \in 0..Len(buys) |-> IF i = 0 THEN NoBuyers ELSE AddBuy(F[i - 1], buys[i])]
  BY <1>9
<1> HIDE DEF F
<1>11. 0 \in 0..Len(buys) /\ \A i \in 1..Len(buys) : i \in 0..Len(buys) /\ i # 0
  OBVIOUS
<1>12. F[0] = NoBuyers /\ \A i \in 1..Len(buys) : F[i] = AddBuy(F[i - 1], buys[i])
  BY <1>10, <1>11
<1> QED BY <1>1, <1>12
(* The path of find, step by step. *)
LEMMA FindSteps ==
    ASSUME NEW parent, NEW w \in Nat
    PROVE  \E F : /\ Find(parent, w) = F[w] /\ F[0] = [parent |-> parent, root |-> w]
                  /\ \A i \in 1..w : F[i] = Halved(F[i - 1])
<1> DEFINE IsF(g, n) == /\ g = [i \in 0..n |-> g[i]] /\ g[0] = [parent |-> parent, root |-> w]
                        /\ \A i \in 1..n : g[i] = Halved(g[i - 1])
           F == CHOOSE g : g = [i \in 0..w |->
                                  IF i = 0 THEN [parent |-> parent, root |-> w] ELSE Halved(g[i - 1])]
           Q == {n \in Nat : \E g : IsF(g, n)}
<1>1. Find(parent, w) = F[w]
  BY DEF Find
<1>2. w \in Nat
  OBVIOUS
<1>3. 0 \in Q
  <2>1. IsF([i \in 0..0 |-> [parent |-> parent, root |-> w]], 0)
    OBVIOUS
  <2> QED BY <2>1
<1>4. ASSUME NEW n \in Q PROVE n + 1 \in Q
  <2>1. PICK g : IsF(g, n)
    BY <1>4
  <2>2. n \in Nat
    BY <1>4
  <2> DEFINE h == [i \in 0..(n + 1) |->
                      IF i = n + 1 THEN Halved(g[n]) ELSE g[i]]
  <2>3. /\ \A i \in 0..n : h[i] = g[i]
        /\ h[n + 1] = Halved(h[n])
        /\ h = [i \in 0..(n + 1) |-> h[i]]
    BY <2>2
  <2> HIDE DEF h
  <2>4. ASSUME NEW i \in 1..(n + 1) PROVE h[i] = Halved(h[i - 1])
    <3>1. CASE i = n + 1
      BY <2>2, <2>3, <3>1
    <3>2. CASE i # n + 1
      <4>1. i \in 1..n /\ i \in 0..n /\ i - 1 \in 0..n
        BY <2>2, <3>2
      <4> QED BY <2>1, <2>3, <4>1
    <3> QED BY <3>1, <3>2
  <2>5. h[0] = [parent |-> parent, root |-> w]
    <3>1. g[0] = [parent |-> parent, root |-> w]
      BY <2>1
    <3>2. 0 \in 0..n
      BY <2>2
    <3> QED BY <2>3, <3>1, <3>2
  <2>6. IsF(h, n + 1)
    BY <2>3, <2>4, <2>5
  <2> HIDE DEF IsF
  <2> QED BY <2>2, <2>6
<1>5. Q \in SUBSET Nat
  OBVIOUS
<1> HIDE DEF Q
<1>6. Q = Nat
  BY <1>3, <1>4, <1>5, SetInduction
<1>7. PICK g : IsF(g, w)
  BY <1>2, <1>6 DEF Q
<1>8. \A i \in 0..w : i = 0 \/ i \in 1..w
  OBVIOUS
<1>9. g = [i \in 0..w |-> IF i = 0 THEN [parent |-> parent, root |-> w] ELSE Halved(g[i - 1])]
  BY <1>7, <1>8
<1>10. F = [i \in 0..w |-> IF i = 0 THEN [parent |-> parent, root |-> w] ELSE Halved(F[i - 1])]
  BY <1>9
<1> HIDE DEF F
<1>11. 0 \in 0..w /\ \A i \in 1..w : i \in 0..w /\ i # 0
  OBVIOUS
<1>12. F[0] = [parent |-> parent, root |-> w] /\ \A i \in 1..w : F[i] = Halved(F[i - 1])
  BY <1>10, <1>11
<1> QED BY <1>1, <1>12

-----------------------------------------------------------------------------
(* Lists *)

(* The range of a list. *)
LEMMA RangeIs ==
    ASSUME NEW T, NEW s \in Seq(T)
    PROVE  /\ Range(s) = {s[i] : i \in 1..Len(s)} /\ Range(s) \subseteq T
           /\ DOMAIN s = 1..Len(s) /\ Len(s) \in Nat
  BY DEF Range

(* What Only keeps: the elements in S, in the order of the list. *)
LEMMA OnlyIs ==
    ASSUME NEW T, NEW s \in Seq(T), NEW S
    PROVE  /\ Only(s, S) \in Seq(T)
           /\ Range(Only(s, S)) = Range(s) \cap S
           /\ \A i, j \in 1..Len(Only(s, S)) : i < j =>
                 \E a, b \in 1..Len(s) :
                    a < b /\ Only(s, S)[i] = s[a] /\ Only(s, S)[j] = s[b]
           /\ Len(Only(s, S)) <= Len(s)
<1>1. PICK F : /\ Only(s, S) = F[Len(s)] /\ F[0] = <<>>
               /\ \A i \in 1..Len(s) :
                     F[i] = (IF s[i] \in S THEN Append(F[i - 1], s[i]) ELSE F[i - 1])
  BY OnlySteps
<1> DEFINE Good(t, n) ==
               /\ t \in Seq(T) /\ Len(t) <= n
               /\ {t[i] : i \in 1..Len(t)} = {s[i] : i \in 1..n} \cap S
               /\ \A i, j \in 1..Len(t) : i < j =>
                     \E a, b \in 1..n : a < b /\ t[i] = s[a] /\ t[j] = s[b]
           Q == {n \in Nat : n <= Len(s) => Good(F[n], n)}
<1>2. 0 \in Q
  <2>1. <<>> \in Seq(T) /\ Len(<<>>) = 0 /\ 1..0 = {}
    OBVIOUS
  <2>2. Good(<<>>, 0)
    BY <2>1
  <2> HIDE DEF Good
  <2> QED BY <1>1, <2>2
<1>3. ASSUME NEW n \in Q PROVE n + 1 \in Q
  <2> DEFINE t == F[n]
             x == s[n + 1]
  <2>0. SUFFICES ASSUME n + 1 <= Len(s) PROVE Good(F[n + 1], n + 1)
    BY <1>3 DEF Q
  <2> HIDE DEF Good
  <2>1. n \in Nat /\ n + 1 \in 1..Len(s) /\ (n + 1) - 1 = n /\ Good(t, n) /\ x \in T
    BY <1>3, <2>0
  <2>2. F[n + 1] = IF x \in S THEN Append(t, x) ELSE t
    BY <1>1, <2>1
  <2>3. {s[i] : i \in 1..(n + 1)} = {s[i] : i \in 1..n} \cup {x}
    <3>1. \A i \in 1..(n + 1) : i \in 1..n \/ i = n + 1
      BY <2>1
    <3>2. \A i \in 1..n : i \in 1..(n + 1)
      BY <2>1
    <3>3. n + 1 \in 1..(n + 1)
      BY <2>1
    <3> QED BY <3>1, <3>2, <3>3
  <2>4. \A i \in 1..n : i \in 1..(n + 1)
    BY <2>1
  <2> HIDE DEF t, x
  <2>7. /\ t \in Seq(T) /\ Len(t) <= n /\ Len(t) \in Nat
        /\ {t[i] : i \in 1..Len(t)} = {s[i] : i \in 1..n} \cap S
    BY <2>1 DEF Good
  <2>8. ASSUME NEW i \in 1..Len(t), NEW j \in 1..Len(t), i < j
        PROVE  \E a, b \in 1..(n + 1) : a < b /\ t[i] = s[a] /\ t[j] = s[b]
    <3>1. PICK a \in 1..n, b \in 1..n : a < b /\ t[i] = s[a] /\ t[j] = s[b]
      BY <2>1, <2>8 DEF Good
    <3> QED BY <2>4, <3>1
  <2>5. CASE x \notin S
    <3>1. {t[i] : i \in 1..Len(t)} = {s[i] : i \in 1..(n + 1)} \cap S
      BY <2>3, <2>5, <2>7
    <3>2. Good(t, n + 1)
      BY <2>1, <2>7, <2>8, <3>1 DEF Good
    <3> QED BY <2>2, <2>5, <3>2
  <2>6. CASE x \in S
    <3> DEFINE u == Append(t, x)
    <3>1. /\ u \in Seq(T) /\ Len(u) = Len(t) + 1 /\ u[Len(t) + 1] = x /\ Len(t) \in Nat
          /\ \A i \in 1..Len(t) : u[i] = t[i]
      BY <2>1, <2>7
    <3>0. F[n + 1] = u
      BY <2>2, <2>6
    <3> HIDE DEF u
    <3>2. {u[i] : i \in 1..Len(u)} = {t[i] : i \in 1..Len(t)} \cup {x}
      <4>1. \A i \in 1..Len(u) : i \in 1..Len(t) \/ i = Len(t) + 1
        BY <3>1
      <4>2. \A i \in 1..Len(t) : i \in 1..Len(u)
        BY <3>1
      <4>3. Len(t) + 1 \in 1..Len(u)
        BY <3>1
      <4> QED BY <3>1, <4>1, <4>2, <4>3
    <3>3. ASSUME NEW i \in 1..Len(u), NEW j \in 1..Len(u), i < j
          PROVE  \E a, b \in 1..(n + 1) : a < b /\ u[i] = s[a] /\ u[j] = s[b]
      <4>1. i \in 1..Len(t) /\ u[i] = t[i]
        BY <3>1, <3>3
      <4>2. CASE j \in 1..Len(t)
        <5>1. u[j] = t[j]
          BY <3>1, <4>2
        <5>2. \E a, b \in 1..(n + 1) : a < b /\ t[i] = s[a] /\ t[j] = s[b]
          BY <2>8, <3>3, <4>1, <4>2
        <5> QED BY <4>1, <5>1, <5>2
      <4>3. CASE j = Len(t) + 1
        <5>0. t[i] \in {t[k] : k \in 1..Len(t)}
          BY <4>1
        <5>1. PICK a \in 1..n : t[i] = s[a]
          BY <2>7, <5>0
        <5>2. a \in 1..(n + 1) /\ n + 1 \in 1..(n + 1) /\ a < n + 1
          BY <2>1
        <5>3. u[j] = s[n + 1]
          BY <3>1, <4>3 DEF x
        <5> QED BY <4>1, <5>1, <5>2, <5>3
      <4> QED BY <3>1, <4>2, <4>3
    <3>4. Len(u) <= n + 1
      BY <2>1, <2>7, <3>1
    <3>5. {u[i] : i \in 1..Len(u)} = {s[i] : i \in 1..(n + 1)} \cap S
      BY <2>3, <2>6, <2>7, <3>2
    <3>6. Good(u, n + 1)
      BY <3>1, <3>3, <3>4, <3>5 DEF Good
    <3> QED BY <3>0, <3>6
  <2> QED BY <2>5, <2>6
<1>4. Q \in SUBSET Nat
  OBVIOUS
<1> HIDE DEF Q
<1>5. Q = Nat
  BY <1>2, <1>3, <1>4, SetInduction
<1>6. Good(Only(s, S), Len(s))
  <2> HIDE DEF Good
  <2>1. Len(s) \in Nat /\ Len(s) \in Q
    BY <1>5
  <2>2. Good(F[Len(s)], Len(s))
    BY <2>1 DEF Q
  <2> QED BY <1>1, <2>2
<1>7. Range(s) = {s[i] : i \in 1..Len(s)}
  BY RangeIs
<1>8. Range(Only(s, S)) = {Only(s, S)[i] : i \in 1..Len(Only(s, S))}
  BY <1>6, RangeIs
<1> QED BY <1>6, <1>7, <1>8

Places(s, x, field) == {i \in DOMAIN s : NotAfter(s[i], x, field)}

(* Where _insert_ordered puts an element. *)
LEMMA InsertOrderedIs ==
    ASSUME NEW T, NEW s \in Seq(T), NEW x \in T, NEW field
    PROVE  LET t == InsertOrdered(s, x, field)
               k == Cardinality(Places(s, x, field))
           IN  /\ k \in 0..Len(s) /\ t \in Seq(T) /\ Len(t) = Len(s) + 1
               /\ \A i \in 1..k : t[i] = s[i]
               /\ t[k + 1] = x
               /\ \A i \in (k + 1)..Len(s) : t[i + 1] = s[i]
               /\ Range(t) = Range(s) \cup {x}
<1> DEFINE t == InsertOrdered(s, x, field)
           k == Cardinality(Places(s, x, field))
           head == SubSeq(s, 1, k)
           tail == SubSeq(s, k + 1, Len(s))
<1>1. k \in 0..Len(s)
  <2>1. Places(s, x, field) \in SUBSET (1..Len(s))
    BY DEF Places
  <2>2. IsFiniteSet(1..Len(s)) /\ Cardinality(1..Len(s)) = Len(s)
    <3>1. Len(s) \in Nat
      OBVIOUS
    <3>2. Cardinality(1..Len(s)) = IF 1 > Len(s) THEN 0 ELSE Len(s) - 1 + 1
      BY <3>1, FS_Interval
    <3> QED BY <3>1, <3>2, FS_Interval
  <2>3. Cardinality(Places(s, x, field)) <= Len(s) /\ Cardinality(Places(s, x, field)) \in Nat
    BY <2>1, <2>2, FS_Subset, FS_CardinalityType
  <2> QED BY <2>3
<1>2. t = SubSeq(s, 1, (k + 1) - 1) \o <<x>> \o SubSeq(s, k + 1, Len(s))
  BY DEF InsertOrdered, InsertAt, Places
<1>a. (k + 1) - 1 = k
  BY <1>1
<1>3. t = head \o <<x>> \o tail
  BY <1>2, <1>a
<1> HIDE DEF t, k
<1>4. head \in Seq(T) /\ Len(head) = k /\ \A i \in 1..k : head[i] = s[i]
  BY <1>1
<1>5. /\ tail \in Seq(T) /\ Len(tail) = Len(s) - k
      /\ \A i \in 1..(Len(s) - k) : tail[i] = s[k + i]
  BY <1>1
<1> HIDE DEF head, tail
<1> DEFINE u == head \o <<x>>
<1>6. /\ u \in Seq(T) /\ Len(u) = k + 1 /\ u[k + 1] = x
      /\ \A i \in 1..k : u[i] = s[i]
  <2>1. <<x>> \in Seq(T) /\ Len(<<x>>) = 1
    OBVIOUS
  <2> QED BY <1>1, <1>4, <2>1
<1> HIDE DEF u
<1>7. t = u \o tail
  BY <1>3 DEF u
<1>8. /\ t \in Seq(T) /\ Len(t) = Len(s) + 1
      /\ \A i \in 1..(k + 1) : t[i] = u[i]
      /\ \A i \in (k + 2)..(Len(s) + 1) : t[i] = tail[i - (k + 1)]
  BY <1>1, <1>5, <1>6, <1>7
<1>9. \A i \in 1..k : t[i] = s[i]
  BY <1>1, <1>6, <1>8
<1>10. t[k + 1] = x
  BY <1>1, <1>6, <1>8
<1>11. ASSUME NEW i \in (k + 1)..Len(s) PROVE t[i + 1] = s[i]
  <2>1. i + 1 \in (k + 2)..(Len(s) + 1) /\ i - k \in 1..(Len(s) - k) /\ k + (i - k) = i
        /\ (i + 1) - (k + 1) = i - k
    BY <1>1
  <2> QED BY <1>5, <1>8, <2>1
<1>12. Range(t) = Range(s) \cup {x}
  <2>1. /\ Range(t) = {t[i] : i \in 1..Len(t)} /\ Range(s) = {s[i] : i \in 1..Len(s)}
    BY <1>8, RangeIs
  <2>2. \A i \in 1..Len(t) : i \in 1..k \/ i = k + 1 \/ (i - 1 \in (k + 1)..Len(s) /\ (i - 1) + 1 = i)
    BY <1>1, <1>8
  <2>3. \A i \in 1..Len(t) : t[i] = x \/ \E j \in 1..Len(s) : t[i] = s[j]
    <3>1. \A i \in 1..k : i \in 1..Len(s)
      BY <1>1
    <3>2. \A i \in (k + 1)..Len(s) : i \in 1..Len(s)
      BY <1>1
    <3> QED BY <1>9, <1>10, <1>11, <2>2, <3>1, <3>2
  <2>4. \A j \in 1..Len(s) : \E i \in 1..Len(t) : t[i] = s[j]
    <3>1. \A j \in 1..Len(s) : (j \in 1..k /\ j \in 1..Len(t)) \/ (j \in (k + 1)..Len(s) /\ j + 1 \in 1..Len(t))
      BY <1>1, <1>8
    <3> QED BY <1>9, <1>11, <3>1
  <2>5. k + 1 \in 1..Len(t)
    BY <1>1, <1>8
  <2> QED BY <1>10, <2>1, <2>3, <2>4, <2>5
<1> QED BY <1>1, <1>8, <1>9, <1>10, <1>11, <1>12 DEF t, k

Keyed(T, field) == \A x \in T : x.time \in Int /\ x[field] \in Int

InOrder(s, field) == \A i, j \in 1..Len(s) : i < j => NotAfter(s[i], s[j], field)

(* The order of the lists is total. *)
LEMMA NotAfterTotal ==
    ASSUME NEW T, NEW field, Keyed(T, field), NEW a \in T, NEW b \in T
    PROVE  /\ NotAfter(a, b, field) \/ NotAfter(b, a, field)
           /\ \A c \in T : NotAfter(a, b, field) /\ NotAfter(b, c, field) => NotAfter(a, c, field)
  BY DEF Keyed, NotAfter

(* A set of places that has with one all before it is an initial part. *)
LEMMA InitialPart ==
    ASSUME NEW n \in Nat, NEW S \in SUBSET (1..n),
           \A i \in S : \A j \in 1..n : j < i => j \in S
    PROVE  S = 1..Cardinality(S) /\ Cardinality(S) \in 0..n
<1> DEFINE k == Cardinality(S)
<1>1. IsFiniteSet(1..n) /\ Cardinality(1..n) = n
  <2>1. Cardinality(1..n) = IF 1 > n THEN 0 ELSE n - 1 + 1
    BY FS_Interval
  <2> QED BY <2>1, FS_Interval
<1>2. IsFiniteSet(S) /\ k \in Nat /\ k <= n
  BY <1>1, FS_Subset, FS_CardinalityType
<1>3. \A i \in S : i <= k
  <2> SUFFICES ASSUME NEW i \in S, i > k PROVE FALSE
    BY <1>2
  <2>1. i \in Nat /\ 1..i \subseteq S
    OBVIOUS
  <2>2. Cardinality(1..i) = IF 1 > i THEN 0 ELSE i - 1 + 1
    BY <2>1, FS_Interval
  <2>3. Cardinality(1..i) <= k
    BY <1>2, <2>1, FS_Subset
  <2> QED BY <1>2, <2>1, <2>2, <2>3
<1> HIDE DEF k
<1>4. S \subseteq 1..k
  BY <1>2, <1>3
<1>5. IsFiniteSet(1..k) /\ Cardinality(1..k) = k
  <2>1. Cardinality(1..k) = IF 1 > k THEN 0 ELSE k - 1 + 1
    BY <1>2, FS_Interval
  <2> QED BY <1>2, <2>1, FS_Interval
<1>6. S = 1..k
  <2>1. Cardinality(S) = Cardinality(1..k) => S = 1..k
    BY <1>4, <1>5, FS_Subset
  <2> QED BY <1>5, <2>1 DEF k
<1> QED BY <1>2, <1>6 DEF k

(* The places in front of x are those before k. *)
LEMMA PlacesArePrefix ==
    ASSUME NEW T, NEW s \in Seq(T), NEW x \in T, NEW field, Keyed(T, field), InOrder(s, field)
    PROVE  LET k == Cardinality(Places(s, x, field))
           IN  /\ k \in 0..Len(s)
               /\ \A i \in 1..Len(s) : i <= k <=> NotAfter(s[i], x, field)
<1> DEFINE P == Places(s, x, field)
<1>1. Len(s) \in Nat /\ DOMAIN s = 1..Len(s) /\ P \in SUBSET (1..Len(s))
  BY DEF Places
<1>2. ASSUME NEW i \in P, NEW j \in 1..Len(s), j < i PROVE j \in P
  <2>1. i \in 1..Len(s) /\ NotAfter(s[i], x, field)
    BY <1>2 DEF Places
  <2>2. NotAfter(s[j], s[i], field)
    BY <1>2, <2>1 DEF InOrder
  <2>3. NotAfter(s[j], x, field)
    BY <2>1, <2>2, NotAfterTotal
  <2> QED BY <2>3 DEF Places
<1>3. P = 1..Cardinality(P) /\ Cardinality(P) \in 0..Len(s)
  <2> HIDE DEF P
  <2> QED BY <1>1, <1>2, InitialPart
<1>4. \A i \in 1..Len(s) : i \in P <=> NotAfter(s[i], x, field)
  BY DEF Places
<1> HIDE DEF P
<1>5. \A i \in 1..Len(s) : i \in P <=> i <= Cardinality(P)
  BY <1>1, <1>3
<1> QED BY <1>3, <1>4, <1>5 DEF P

(* _insert_ordered keeps a list in order. *)
LEMMA InsertInOrder ==
    ASSUME NEW T, NEW s \in Seq(T), NEW x \in T, NEW field, Keyed(T, field), InOrder(s, field)
    PROVE  InOrder(InsertOrdered(s, x, field), field)
<1> DEFINE t == InsertOrdered(s, x, field)
           k == Cardinality(Places(s, x, field))
<1>1. /\ k \in 0..Len(s) /\ t \in Seq(T) /\ Len(t) = Len(s) + 1 /\ t[k + 1] = x
      /\ \A i \in 1..k : t[i] = s[i]
      /\ \A i \in (k + 1)..Len(s) : t[i + 1] = s[i]
  BY InsertOrderedIs
<1>2. \A i \in 1..Len(s) : i <= k <=> NotAfter(s[i], x, field)
  BY PlacesArePrefix
<1>3. \A i \in 1..Len(s) : i > k => NotAfter(x, s[i], field)
  <2> SUFFICES ASSUME NEW i \in 1..Len(s), i > k PROVE NotAfter(x, s[i], field)
    OBVIOUS
  <2>1. ~NotAfter(s[i], x, field)
    BY <1>1, <1>2
  <2> QED BY <2>1, NotAfterTotal
<1> HIDE DEF t, k
<1>5. Len(s) \in Nat
  OBVIOUS
<1>4. ASSUME NEW i \in 1..Len(t), NEW j \in 1..Len(t), i < j PROVE NotAfter(t[i], t[j], field)
  <2>1. CASE j <= k
    <3>1. i \in 1..k /\ j \in 1..k /\ i \in 1..Len(s) /\ j \in 1..Len(s)
      BY <1>1, <1>4, <2>1
    <3> QED BY <1>1, <1>4, <3>1 DEF InOrder
  <2>2. CASE j = k + 1
    <3>1. i \in 1..k /\ i \in 1..Len(s) /\ i <= k
      BY <1>1, <1>4, <2>2
    <3> QED BY <1>1, <1>2, <2>2, <3>1
  <2>3. CASE j > k + 1
    <3>0. j - 1 \in (k + 1)..Len(s) /\ (j - 1) + 1 = j /\ j - 1 \in 1..Len(s) /\ j - 1 > k
      BY <1>1, <1>5, <2>3
    <3>1. t[j] = s[j - 1]
      BY <1>1, <3>0
    <3>2. CASE i = k + 1
      BY <1>1, <1>3, <3>0, <3>1, <3>2
    <3>3. CASE i <= k
      <4>1. i \in 1..k /\ i \in 1..Len(s) /\ i < j - 1
        BY <1>1, <3>0, <3>3
      <4> QED BY <1>1, <3>0, <3>1, <4>1 DEF InOrder
    <3>4. CASE i > k + 1
      <4>1. i - 1 \in (k + 1)..Len(s) /\ (i - 1) + 1 = i /\ i - 1 \in 1..Len(s) /\ i - 1 < j - 1
        BY <1>1, <1>4, <1>5, <3>4
      <4>2. t[i] = s[i - 1]
        BY <1>1, <4>1
      <4> QED BY <3>0, <3>1, <4>1, <4>2 DEF InOrder
    <3> QED BY <1>1, <3>2, <3>3, <3>4
  <2> QED BY <1>1, <2>1, <2>2, <2>3
<1>6. InOrder(t, field)
  BY <1>4 DEF InOrder
<1> QED BY <1>6 DEF t

Distinct(s) == \A i, j \in 1..Len(s) : s[i] = s[j] => i = j

(* A part of a list of distinct events is one. *)
LEMMA OnlyDistinct ==
    ASSUME NEW T, NEW s \in Seq(T), Distinct(s), NEW S
    PROVE  Distinct(Only(s, S)) /\ Only(s, S) \in Seq(T)
           /\ Range(Only(s, S)) = Range(s) \cap S
<1> DEFINE t == Only(s, S)
<1>1. /\ t \in Seq(T) /\ Range(t) = Range(s) \cap S
      /\ \A i, j \in 1..Len(t) : i < j =>
            \E a, b \in 1..Len(s) : a < b /\ t[i] = s[a] /\ t[j] = s[b]
  BY OnlyIs
<1> HIDE DEF t
<1>2. ASSUME NEW i \in 1..Len(t), NEW j \in 1..Len(t), i < j PROVE t[i] # t[j]
  <2>1. PICK a \in 1..Len(s), b \in 1..Len(s) : a < b /\ t[i] = s[a] /\ t[j] = s[b]
    BY <1>1, <1>2
  <2> QED BY <2>1 DEF Distinct
<1>3. Len(t) \in Nat
  BY <1>1
<1>4. ASSUME NEW i \in 1..Len(t), NEW j \in 1..Len(t), t[i] = t[j] PROVE i = j
  <2>1. ~(i < j) /\ ~(j < i)
    BY <1>2, <1>4
  <2> QED BY <1>3, <2>1
<1> QED BY <1>1, <1>4 DEF Distinct, t

(* The least of two numbers. *)
LEMMA MinOfTwo ==
    ASSUME NEW a \in Int, NEW b \in Int
    PROVE  Min({a, b}) \in {a, b} /\ Min({a, b}) <= a /\ Min({a, b}) <= b
<1> DEFINE P == {a, b}
<1>1. \E x \in P : \A y \in P : x <= y
  OBVIOUS
<1>2. Min(P) \in P /\ \A y \in P : Min(P) <= y
  <2> HIDE DEF P
  <2> QED BY <1>1 DEF Min
<1> QED BY <1>2

-----------------------------------------------------------------------------
(* The memory of the process, field by field *)

MemFields == {"tokens", "pool", "feats", "book", "funder", "relations", "applied"}
PoolFields == {"known", "rev", "quoteMint", "at", "usd", "base", "quote", "virtual", "supply"}
FeatFields == {"created", "trades", "liquidity", "holders"}
TokenFields == {"creator", "supply", "poolTime"}

Shaped(m) ==
    /\ DOMAIN m = MemFields
    /\ DOMAIN m.pool = PoolFields
    /\ DOMAIN m.feats = FeatFields
    /\ \A x \in DOMAIN m.tokens : DOMAIN m.tokens[x] = TokenFields

IsBuy(e) == e.kind = "SWAP_BUY" /\ e.user # NoWallet
BookAfter(m, e) == IF IsBuy(e) THEN ObserveBuyer(m.book, Buy(e)) ELSE m.book
FunderAfter(m, e) == TouchProfile(m.funder, e.user, e.funder)
RelationsAfter(m, e) ==
    IF IsBuy(e) THEN RecomputeRelations(m.relations, FunderAfter(m, e), e.user,
                                        RelationState(m.book, BookAfter(m, e), Buy(e)))
    ELSE m.relations
PoolAfter(m, e, price) == IF OfPool(e) THEN ApplyPool(m.pool, e, price) ELSE m.pool
SameAfter(m, e, live) ==
    live /\ e.user # NoWallet /\ SameFunder(BookAfter(m, e), FunderAfter(m, e), e.user)
FeatsBefore(m, e) == IF e.kind = "POOL_CREATED" THEN RegisterPool(m.feats, e) ELSE m.feats
FeatsAfter(m, e, price, live) ==
    IF OfPool(e) /\ PoolAfter(m, e, price).known
    THEN IngestPoolFeatures(FeatsBefore(m, e), PoolAfter(m, e, price), ApplyToken(m.tokens, e), e,
                            SameAfter(m, e, live))
    ELSE FeatsBefore(m, e)

(* What _apply_event leaves in each part of the memory. *)
LEMMA ApplyFields ==
    ASSUME NEW m, Shaped(m), NEW e, NEW price, NEW live
    PROVE  LET n == ApplyEvent(m, e, price, live)
           IN  /\ DOMAIN n = MemFields
               /\ n.tokens = ApplyToken(m.tokens, e) /\ n.pool = PoolAfter(m, e, price)
               /\ n.feats = FeatsAfter(m, e, price, live) /\ n.book = BookAfter(m, e)
               /\ n.funder = FunderAfter(m, e) /\ n.relations = RelationsAfter(m, e)
               /\ n.applied = m.applied \cup {e}
<1> DEFINE o == ObserveWallet(m, e)
           n == ApplyEvent(m, e, price, live)
<1>1. /\ DOMAIN o = MemFields /\ o.book = BookAfter(m, e) /\ o.funder = FunderAfter(m, e)
      /\ o.relations = RelationsAfter(m, e) /\ o.applied = m.applied
  BY DEF ObserveWallet, Shaped, MemFields, BookAfter, FunderAfter, RelationsAfter, IsBuy
<1>2. n = [o EXCEPT !.pool = PoolAfter(m, e, price), !.tokens = ApplyToken(m.tokens, e),
                    !.applied = @ \cup {e}, !.feats = FeatsAfter(m, e, price, live)]
  BY <1>1 DEF ApplyEvent, PoolAfter, FeatsAfter, SameAfter, FeatsBefore
<1> HIDE DEF o, n
<1>3. /\ DOMAIN n = MemFields
      /\ n.tokens = ApplyToken(m.tokens, e) /\ n.pool = PoolAfter(m, e, price)
      /\ n.feats = FeatsAfter(m, e, price, live) /\ n.applied = o.applied \cup {e}
      /\ n.book = o.book /\ n.funder = o.funder /\ n.relations = o.relations
  BY <1>1, <1>2 DEF MemFields
<1> QED BY <1>1, <1>3 DEF n

(* The memory keeps its shape. *)
LEMMA ApplyShaped ==
    ASSUME NEW m, Shaped(m), NEW e, NEW price, NEW live
    PROVE  Shaped(ApplyEvent(m, e, price, live))
<1> DEFINE n == ApplyEvent(m, e, price, live)
<1>1. /\ DOMAIN n = MemFields
      /\ n.tokens = ApplyToken(m.tokens, e) /\ n.pool = PoolAfter(m, e, price)
      /\ n.feats = FeatsAfter(m, e, price, live)
  BY ApplyFields
<1>2. DOMAIN n.pool = PoolFields
  <2>1. DOMAIN PoolRecord(m.pool, e) = PoolFields
    BY DEF PoolRecord, Shaped
  <2>2. DOMAIN ApplyPool(m.pool, e, price) = PoolFields
    BY <2>1 DEF ApplyPool
  <2> QED BY <1>1, <2>2 DEF PoolAfter, Shaped
<1>3. DOMAIN n.feats = FeatFields
  <2>1. DOMAIN FeatsBefore(m, e) = FeatFields
    BY DEF FeatsBefore, RegisterPool, Shaped
  <2> HIDE DEF n
  <2>2. \A f, p, ts, same : DOMAIN f = FeatFields =>
            DOMAIN IngestPoolFeatures(f, p, ts, e, same) = FeatFields
    BY DEF IngestPoolFeatures
  <2> QED BY <1>1, <2>1, <2>2 DEF FeatsAfter
<1>4. \A x \in DOMAIN n.tokens : DOMAIN n.tokens[x] = TokenFields
  <2> DEFINE old == IF e.mint \in DOMAIN m.tokens THEN m.tokens[e.mint] ELSE NoToken
             new == CASE e.kind = "TOKEN_CREATED" ->
                            [creator |-> e.user, supply |-> e.supply, poolTime |-> None]
                      [] e.kind = "MIGRATION" -> [old EXCEPT !.poolTime = e.time]
                      [] e.kind = "POOL_CREATED" ->
                            [old EXCEPT !.poolTime = IF @ = None THEN e.time ELSE @]
                      [] OTHER -> old
  <2>1. DOMAIN old = TokenFields
    BY DEF Shaped, NoToken, TokenFields
  <2>2. DOMAIN new = TokenFields
    <3> HIDE DEF old
    <3>1. CASE e.kind = "TOKEN_CREATED"
      BY <3>1 DEF TokenFields
    <3>2. CASE e.kind = "MIGRATION"
      BY <2>1, <3>2
    <3>3. CASE e.kind = "POOL_CREATED"
      BY <2>1, <3>3
    <3>4. CASE e.kind \notin {"TOKEN_CREATED", "MIGRATION", "POOL_CREATED"}
      BY <2>1, <3>4
    <3> QED BY <3>1, <3>2, <3>3, <3>4
  <2>3. ApplyToken(m.tokens, e) = Put(m.tokens, e.mint, new)
    BY DEF ApplyToken
  <2> HIDE DEF new, n
  <2> QED BY <1>1, <2>2, <2>3 DEF Put, Shaped
<1> QED BY <1>1, <1>2, <1>3, <1>4 DEF Shaped

(* A blank memory, and the one a restart begins with, have the shape. *)
LEMMA BlankShaped == Shaped(Blank) /\ Shaped(RestoredMemory)
<1>1. Shaped(Blank)
  BY DEF Shaped, Blank, MemFields, NoPool, PoolFields, NoFeatures, FeatFields
<1>2. /\ DOMAIN RestoredMemory = DOMAIN Blank /\ RestoredMemory.pool = Blank.pool
      /\ RestoredMemory.feats = Blank.feats /\ RestoredMemory.tokens = Blank.tokens
  BY <1>1 DEF RestoredMemory, Shaped, MemFields
<1> QED BY <1>1, <1>2 DEF Shaped

-----------------------------------------------------------------------------
(* The pool *)

PoolOK(p, f) ==
    /\ p.usd \in Nat /\ p.base \in Int /\ p.quote \in Int /\ p.virtual \in Int
    /\ p.known => \E x \in f : x.kind = "POOL_CREATED" /\ p.rev = Reversed(x)

(* A pool with a candidate keeps its orientation. *)
LEMMA ApplyPoolOK ==
    ASSUME NEW f \in Feeds, NEW m, Shaped(m), PoolOK(m.pool, f), NEW e \in f, NEW price \in Nat
    PROVE  /\ PoolOK(PoolAfter(m, e, price), f)
           /\ m.pool.known => /\ PoolAfter(m, e, price).known
                              /\ PoolAfter(m, e, price).rev = m.pool.rev
<1> DEFINE p == m.pool
           r == PoolRecord(p, e)
           q == ApplyPool(p, e, price)
<1>1. /\ e.base \in Int /\ e.quote \in Int /\ e.virtual \in Int
  BY FeedsAssumption
<1>2. /\ DOMAIN r = PoolFields /\ r.usd = p.usd /\ r.base = p.base /\ r.quote = p.quote
      /\ r.virtual = p.virtual
      /\ e.kind = "POOL_CREATED" => r.known = TRUE /\ r.rev = Reversed(e)
      /\ e.kind # "POOL_CREATED" => r.known = p.known /\ r.rev = p.rev
  BY DEF PoolRecord, Shaped, PoolFields
<1>3. r.known => \E x \in f : x.kind = "POOL_CREATED" /\ r.rev = Reversed(x)
  BY <1>2 DEF PoolOK
<1>4. p.known => r.known /\ r.rev = p.rev
  <2>1. CASE e.kind # "POOL_CREATED"
    BY <1>2, <2>1
  <2>2. CASE e.kind = "POOL_CREATED" /\ p.known
    <3>1. PICK x \in f : x.kind = "POOL_CREATED" /\ p.rev = Reversed(x)
      BY <2>2 DEF PoolOK
    <3>2. x.baseMint = e.baseMint /\ x.quoteMint = e.quoteMint
      BY <2>2, <3>1, FeedsAssumption
    <3> QED BY <1>2, <2>2, <3>1, <3>2 DEF Reversed
  <2> QED BY <2>1, <2>2
<1> HIDE DEF r
<1>5. CASE ~r.known
  BY <1>2, <1>3, <1>4, <1>5 DEF PoolOK, ApplyPool, PoolAfter, r
<1>6. CASE r.known
  <2> DEFINE raw == ReserveFields(r, e)
  <2>1. raw[1] \in Int /\ raw[2] \in Int
    BY <1>1 DEF ReserveFields
  <2>2. q = [r EXCEPT !.usd = price, !.base = Kept(raw[1], @), !.quote = Kept(raw[2], @),
                      !.virtual = Kept(e.virtual, @),
                      !.supply = IF r.rev THEN @ ELSE Kept(e.supply, @)]
    BY <1>6 DEF ApplyPool, r
  <2> HIDE DEF raw, q
  <2>3. /\ q.usd = price /\ q.base = Kept(raw[1], r.base) /\ q.quote = Kept(raw[2], r.quote)
        /\ q.virtual = Kept(e.virtual, r.virtual) /\ q.known = r.known /\ q.rev = r.rev
    BY <1>2, <2>2 DEF PoolFields
  <2>4. PoolOK(q, f)
    BY <1>1, <1>2, <1>3, <2>1, <2>3 DEF PoolOK, Kept
  <2> QED BY <1>4, <2>3, <2>4 DEF PoolAfter, q
<1> QED BY <1>5, <1>6

(* The quote side of a pool is worth nothing or more. *)
LEMMA ReserveIsNat ==
    ASSUME NEW p, NEW f, PoolOK(p, f) PROVE QuoteReserveUsd(p) \in Nat
<1>1. EffectiveQuote(p) \in Nat
  BY DEF EffectiveQuote, Floor0, Amount, PoolOK
<1>2. QuotePrice(p) \in Nat
  BY DEF QuotePrice, PoolOK
<1>3. \A a, b \in Nat : a * b \in Nat
  OBVIOUS
<1> QED BY <1>1, <1>2, <1>3 DEF QuoteReserveUsd

-----------------------------------------------------------------------------
(* The features *)

IsList(s) == s \in Seq(Range(s))

(* A trade is what the swap with its id was. *)
TradeOf(o, e, p) ==
    /\ e.kind \in Swaps /\ o.id = e.id /\ o.time = e.time /\ o.wallet = e.user
    /\ o.side = TradeSide(p, e)

(* What an event adds to the trades and to the observations of liquidity. *)
LEMMA FeatsCases ==
    ASSUME NEW m, Shaped(m), NEW e, NEW price, NEW live
    PROVE  LET p == PoolAfter(m, e, price)
               n == FeatsAfter(m, e, price, live)
           IN  /\ \/ n.trades = m.feats.trades
                  \/ p.known /\ \E o : TradeOf(o, e, p)
                                       /\ n.trades = InsertOrdered(m.feats.trades, o, "id")
               /\ \/ n.liquidity = m.feats.liquidity
                  \/ p.known /\ \E o : o.quote = QuoteReserveUsd(p)
                                       /\ n.liquidity = InsertOrdered(m.feats.liquidity, o, "id")
<1> DEFINE p == PoolAfter(m, e, price)
           n == FeatsAfter(m, e, price, live)
           f == FeatsBefore(m, e)
           ts == ApplyToken(m.tokens, e)
           same == SameAfter(m, e, live)
           creator == IF Token \in DOMAIN ts THEN ts[Token].creator ELSE NoWallet
           o == [id |-> e.id, time |-> e.time, side |-> TradeSide(p, e), wallet |-> e.user,
                 vol |-> TradeQuote(p, e) * QuotePrice(p),
                 price |-> MarginalPrice(p),
                 external |-> e.user # NoWallet /\ e.user # creator, same |-> same]
           l == Liquidity(p, e.id, e.time)
           liq == InsertOrdered(f.liquidity, l, "id")
<1>1. DOMAIN f = FeatFields /\ f.trades = m.feats.trades /\ f.liquidity = m.feats.liquidity
  BY DEF FeatsBefore, RegisterPool, Shaped, FeatFields
<1>2. CASE ~(OfPool(e) /\ p.known)
  BY <1>1, <1>2 DEF FeatsAfter
<1>3. CASE OfPool(e) /\ p.known
  <2>1. n = IF e.kind \notin Swaps \/ MarginalPrice(p) = 0
            THEN [f EXCEPT !.liquidity = liq]
            ELSE [f EXCEPT !.liquidity = liq, !.trades = InsertOrdered(@, o, "id")]
    BY <1>3 DEF FeatsAfter, IngestPoolFeatures
  <2>2. l.quote = QuoteReserveUsd(p)
    BY DEF Liquidity
  <2>3. o.id = e.id /\ o.time = e.time /\ o.wallet = e.user /\ o.side = TradeSide(p, e)
    OBVIOUS
  <2> HIDE DEF f, o, l, n, p
  <2>4. n.liquidity = InsertOrdered(m.feats.liquidity, l, "id")
    BY <1>1, <2>1 DEF FeatFields
  <2>5. CASE e.kind \notin Swaps \/ MarginalPrice(p) = 0
    <3>1. n.trades = m.feats.trades
      BY <1>1, <2>1, <2>5 DEF FeatFields
    <3> QED BY <1>3, <2>2, <2>4, <3>1 DEF n, p
  <2>6. CASE ~(e.kind \notin Swaps \/ MarginalPrice(p) = 0)
    <3>1. n.trades = InsertOrdered(m.feats.trades, o, "id")
      BY <1>1, <2>1, <2>6 DEF FeatFields
    <3>2. TradeOf(o, e, p)
      BY <2>3, <2>6 DEF TradeOf
    <3> QED BY <1>3, <2>2, <2>4, <3>1, <3>2 DEF n, p
  <2> QED BY <2>5, <2>6
<1> QED BY <1>2, <1>3

TradesOK(m) ==
    LET s == m.feats.trades
    IN  /\ IsList(s) /\ InOrder(s, "id")
        /\ \A a, b \in Range(s) : a.id = b.id => a = b
        /\ \A o \in Range(s) : \E e \in m.applied : TradeOf(o, e, m.pool)
        /\ s # <<>> => m.pool.known

LiquidityOK(m) ==
    LET s == m.feats.liquidity
    IN  IsList(s) /\ \A o \in Range(s) : o.quote \in Nat

(* Inserting into a list keeps it one. *)
LEMMA InsertList ==
    ASSUME NEW s, IsList(s), NEW x, NEW field
    PROVE  /\ IsList(InsertOrdered(s, x, field))
           /\ Range(InsertOrdered(s, x, field)) = Range(s) \cup {x}
           /\ InsertOrdered(s, x, field) # <<>>
           /\ Keyed(Range(s) \cup {x}, field) /\ InOrder(s, field) =>
                 InOrder(InsertOrdered(s, x, field), field)
<1> DEFINE T == Range(s) \cup {x}
           t == InsertOrdered(s, x, field)
<1>1. s \in Seq(T) /\ x \in T
  <2>1. s \in Seq(Range(s))
    BY DEF IsList
  <2>2. Range(s) \subseteq T
    OBVIOUS
  <2>3. \A A, B : A \subseteq B => Seq(A) \subseteq Seq(B)
    OBVIOUS
  <2> QED BY <2>1, <2>2, <2>3
<1>2. t \in Seq(T) /\ Range(t) = Range(s) \cup {x} /\ Len(t) = Len(s) + 1 /\ Len(s) \in Nat
  <2> HIDE DEF T, t
  <2>1. InsertOrdered(s, x, field) \in Seq(T)
        /\ Range(InsertOrdered(s, x, field)) = Range(s) \cup {x}
        /\ Len(InsertOrdered(s, x, field)) = Len(s) + 1
    BY <1>1, InsertOrderedIs
  <2>2. Len(s) \in Nat
    BY <1>1
  <2> QED BY <2>1, <2>2 DEF t
<1>3. Keyed(T, field) /\ InOrder(s, field) => InOrder(t, field)
  <2> HIDE DEF T
  <2> QED BY <1>1, InsertInOrder
<1>4. t # <<>>
  BY <1>2
<1> HIDE DEF t
<1>5. IsList(t)
  BY <1>2 DEF IsList
<1> QED BY <1>2, <1>3, <1>4, <1>5 DEF t

(* Events are observed as trades once, in order, and as what they were. *)
LEMMA ApplyTradesOK ==
    ASSUME NEW f \in Feeds, NEW m, Shaped(m), PoolOK(m.pool, f), TradesOK(m), m.applied \subseteq f,
           NEW e \in f, e \notin m.applied, NEW price \in Nat, NEW live
    PROVE  TradesOK(ApplyEvent(m, e, price, live))
<1> DEFINE n == ApplyEvent(m, e, price, live)
           s == m.feats.trades
           p == PoolAfter(m, e, price)
           t == n.feats.trades
<1>1. /\ n.pool = p /\ n.applied = m.applied \cup {e} /\ n.feats = FeatsAfter(m, e, price, live)
  BY ApplyFields
<1>2. s # <<>> => p.known /\ p.rev = m.pool.rev
  BY ApplyPoolOK DEF TradesOK
<1>3. \/ t = s
      \/ p.known /\ \E o : TradeOf(o, e, p) /\ t = InsertOrdered(s, o, "id")
  BY <1>1, FeatsCases
<1>4. IsList(s) /\ InOrder(s, "id") /\ \A a, b \in Range(s) : a.id = b.id => a = b
  BY DEF TradesOK
<1> HIDE DEF n, p, t
<1>5. \A o \in Range(s) : \E d \in m.applied : TradeOf(o, d, p)
  <2> SUFFICES ASSUME NEW o \in Range(s) PROVE \E d \in m.applied : TradeOf(o, d, p)
    OBVIOUS
  <2>1. PICK d \in m.applied : TradeOf(o, d, m.pool)
    BY DEF TradesOK
  <2>2. s # <<>>
    BY DEF Range
  <2>3. TradeSide(p, d) = TradeSide(m.pool, d)
    BY <1>2, <2>2 DEF TradeSide
  <2> QED BY <2>1, <2>3 DEF TradeOf
<1>6. CASE t = s
  BY <1>1, <1>2, <1>4, <1>5, <1>6 DEF TradesOK, t, n
<1>7. CASE p.known /\ \E o : TradeOf(o, e, p) /\ t = InsertOrdered(s, o, "id")
  <2>1. PICK o : TradeOf(o, e, p) /\ t = InsertOrdered(s, o, "id")
    BY <1>7
  <2>2. \A a \in Range(s) : a.id # e.id
    <3> SUFFICES ASSUME NEW a \in Range(s), a.id = e.id PROVE FALSE
      OBVIOUS
    <3>1. PICK d \in m.applied : a.id = d.id
      BY <1>5 DEF TradeOf
    <3>2. d \in f /\ d.id = e.id
      BY <3>1
    <3>3. d = e
      BY <3>2, FeedsAssumption
    <3> QED BY <3>3
  <2>3. \A a \in Range(s) \cup {o} : \E d \in m.applied \cup {e} : TradeOf(a, d, p)
    BY <1>5, <2>1
  <2>4. Keyed(Range(s) \cup {o}, "id")
    <3> SUFFICES ASSUME NEW a \in Range(s) \cup {o} PROVE a.time \in Int /\ a["id"] \in Int
      BY DEF Keyed
    <3>1. PICK d \in m.applied \cup {e} : TradeOf(a, d, p)
      BY <2>3
    <3>2. d \in f
      OBVIOUS
    <3>3. d.id \in Int /\ d.time \in Int
      BY <3>2, FeedsAssumption
    <3> QED BY <3>1, <3>3 DEF TradeOf
  <2>5. IsList(t) /\ Range(t) = Range(s) \cup {o} /\ InOrder(t, "id")
    BY <1>4, <2>1, <2>4, InsertList
  <2>6. \A a, b \in Range(t) : a.id = b.id => a = b
    BY <1>4, <2>1, <2>2, <2>5 DEF TradeOf
  <2> QED BY <1>1, <1>7, <2>3, <2>5, <2>6 DEF TradesOK, t, n
<1> QED BY <1>3, <1>6, <1>7 DEF n

(* Liquidity is observed as a number. *)
LEMMA ApplyLiquidityOK ==
    ASSUME NEW f \in Feeds, NEW m, Shaped(m), PoolOK(m.pool, f), LiquidityOK(m),
           NEW e \in f, NEW price \in Nat, NEW live
    PROVE  LiquidityOK(ApplyEvent(m, e, price, live))
<1> DEFINE n == ApplyEvent(m, e, price, live)
           s == m.feats.liquidity
           p == PoolAfter(m, e, price)
           t == n.feats.liquidity
<1>1. n.feats = FeatsAfter(m, e, price, live)
  BY ApplyFields
<1>2. QuoteReserveUsd(p) \in Nat
  <2>1. PoolOK(p, f)
    BY ApplyPoolOK
  <2> QED BY <2>1, ReserveIsNat
<1>3. t = s \/ \E o : o.quote = QuoteReserveUsd(p) /\ t = InsertOrdered(s, o, "id")
  BY <1>1, FeatsCases
<1>4. IsList(s) /\ \A o \in Range(s) : o.quote \in Nat
  BY DEF LiquidityOK
<1> HIDE DEF n, p, t
<1>5. CASE t = s
  BY <1>4, <1>5 DEF LiquidityOK, t, n
<1>6. CASE \E o : o.quote = QuoteReserveUsd(p) /\ t = InsertOrdered(s, o, "id")
  <2>1. PICK o : o.quote = QuoteReserveUsd(p) /\ t = InsertOrdered(s, o, "id")
    BY <1>6
  <2>2. IsList(t) /\ Range(t) = Range(s) \cup {o}
    BY <1>4, <2>1, InsertList
  <2> QED BY <1>2, <1>4, <2>1, <2>2 DEF LiquidityOK, t, n
<1> QED BY <1>3, <1>5, <1>6 DEF n

-----------------------------------------------------------------------------
(* What the buys of a wallet add up to *)

(* Induction over the subsets of a finite set, with the property as a set. *)
LEMMA SubsetInduction ==
    ASSUME NEW S, IsFiniteSet(S), NEW Q \in SUBSET SUBSET S,
           \A T \in SUBSET S : (\A U \in SUBSET T : U # T => U \in Q) => T \in Q
    PROVE  Q = SUBSET S
<1> SUFFICES ASSUME (SUBSET S) \ Q # {} PROVE FALSE
  OBVIOUS
<1>1. IsWellFoundedOn(StrictSubsetOrdering(S), SUBSET S)
  <2>1. FiniteSubsetsOf(S) = SUBSET S
    BY FS_FiniteSubsetsOfFinite, Zenon
  <2>2. IsWellFoundedOn(StrictSubsetOrdering(S), FiniteSubsetsOf(S))
    BY FS_StrictSubsetOrderingWellFounded, Zenon
  <2> QED BY <2>1, <2>2, Zenon
<1> DEFINE R == (SUBSET S) \ Q
<1>2. R \subseteq SUBSET S /\ R # {}
  OBVIOUS
<1> HIDE DEF R
<1>3. PICK T \in R : \A U \in R : ~(<<U, T>> \in StrictSubsetOrdering(S))
  BY <1>1, <1>2, WFMin
<1>4. \A U \in SUBSET T : U # T => U \in Q
  BY <1>2, <1>3 DEF StrictSubsetOrdering, R
<1> QED BY <1>3, <1>4 DEF R

Pick(s) == CHOOSE x \in s : TRUE

(* The element a fold picks from a set is in it. *)
LEMMA PickIn == ASSUME NEW s, s # {} PROVE Pick(s) \in s
  BY DEF Pick

AmountOf(e) == Buy(e).amount
AmountsOf(S) == MapThenSumSet(LAMBDA e : Buy(e).amount, S)

SumStep(g, s) == IF s = {} THEN 0 ELSE AmountOf(Pick(s)) + g[s \ {Pick(s)}]

IsSums(g, S) == g \in [SUBSET S -> Int] /\ \A s \in SUBSET S : g[s] = SumStep(g, s)

Sums(S) == CHOOSE g : g = [s \in SUBSET S |->
               IF s = {} THEN 0 ELSE Buy(Pick(s)).amount + g[s \ {Pick(s)}]]

(* The sum is the recursive function that CHOOSE defines. *)
LEMMA SumIsSums == ASSUME NEW S PROVE AmountsOf(S) = Sums(S)[S]
  BY DEF AmountsOf, MapThenSumSet, MapThenFoldSet, Sums, Pick

(* Sums over the subsets of two sets agree on what the sets share. *)
LEMMA SumsAgree ==
    ASSUME NEW S, IsFiniteSet(S), NEW T \in SUBSET S, NEW U \in SUBSET S,
           NEW g, IsSums(g, T), NEW h, IsSums(h, U)
    PROVE  U \subseteq T => g[U] = h[U]
<1> DEFINE Q == {s \in SUBSET S : s \subseteq T /\ s \subseteq U => g[s] = h[s]}
<1>1. ASSUME NEW s \in SUBSET S, \A r \in SUBSET s : r # s => r \in Q PROVE s \in Q
  <2> SUFFICES ASSUME s \subseteq T, s \subseteq U PROVE g[s] = h[s]
    OBVIOUS
  <2>1. CASE s = {}
    BY <2>1 DEF IsSums, SumStep
  <2>2. CASE s # {}
    <3>1. Pick(s) \in s
      BY <2>2, PickIn
    <3>2. s \ {Pick(s)} \in Q
      BY <1>1, <3>1
    <3>3. g[s \ {Pick(s)}] = h[s \ {Pick(s)}]
      BY <3>2
    <3> QED BY <2>2, <3>3 DEF IsSums, SumStep
  <2> QED BY <2>1, <2>2
<1> HIDE DEF Q
<1>2. Q \in SUBSET SUBSET S
  BY DEF Q
<1>3. Q = SUBSET S
  BY <1>1, <1>2, SubsetInduction
<1> QED BY <1>3 DEF Q

(* Sums over the subsets of a finite set exist. *)
LEMMA SumsExist ==
    ASSUME NEW S, IsFiniteSet(S), \A x \in S : AmountOf(x) \in Int
    PROVE  \E g : IsSums(g, S)
<1> DEFINE Q == {T \in SUBSET S : \E g : IsSums(g, T)}
           G(T) == CHOOSE g : IsSums(g, T)
<1>1. ASSUME NEW T \in SUBSET S, \A U \in SUBSET T : U # T => U \in Q PROVE T \in Q
  <2> DEFINE below == T \ {Pick(T)}
             h == [s \in SUBSET T |->
                      IF s = T THEN (IF T = {} THEN 0 ELSE AmountOf(Pick(T)) + G(below)[below])
                      ELSE G(s)[s]]
  <2>1. \A U \in SUBSET T : U # T => IsSums(G(U), U)
    BY <1>1
  <2> HIDE DEF G
  <2>2. \A U \in SUBSET T : U # T => G(U)[U] \in Int
    BY <2>1 DEF IsSums
  <2>3. T # {} => Pick(T) \in T /\ below \in SUBSET T /\ below # T
    BY PickIn
  <2>4. h \in [SUBSET T -> Int]
    BY <2>2, <2>3
  <2>5. \A s \in SUBSET T : h[s] = SumStep(h, s)
    <3> SUFFICES ASSUME NEW s \in SUBSET T PROVE h[s] = SumStep(h, s)
      OBVIOUS
    <3>1. CASE s = T
      BY <2>3, <3>1 DEF SumStep
    <3>2. CASE s # T
      <4>1. h[s] = G(s)[s] /\ IsSums(G(s), s)
        BY <2>1, <3>2
      <4>2. CASE s = {}
        BY <4>1, <4>2 DEF IsSums, SumStep
      <4>3. CASE s # {}
        <5> DEFINE r == s \ {Pick(s)}
        <5>1. Pick(s) \in s /\ r \in SUBSET s /\ r \in SUBSET T /\ r # T
          BY <4>3, PickIn
        <5>2. h[r] = G(r)[r] /\ IsSums(G(r), r)
          BY <2>1, <5>1
        <5>3. G(s)[r] = G(r)[r]
          <6>1. s \in SUBSET S /\ r \in SUBSET S
            OBVIOUS
          <6> HIDE DEF r
          <6>2. PICK a, b : a = G(s) /\ b = G(r) /\ IsSums(a, s) /\ IsSums(b, r)
            BY <4>1, <5>2
          <6>3. r \subseteq s => a[r] = b[r]
            BY <6>1, <6>2, SumsAgree
          <6> QED BY <5>1, <6>1, <6>2, <6>3
        <5>4. G(s)[s] = AmountOf(Pick(s)) + G(s)[r]
          BY <4>1, <4>3 DEF IsSums, SumStep
        <5> QED BY <4>1, <4>3, <5>2, <5>3, <5>4 DEF SumStep
      <4> QED BY <4>2, <4>3
    <3> QED BY <3>1, <3>2
  <2> HIDE DEF h
  <2>6. IsSums(h, T)
    BY <2>4, <2>5 DEF IsSums
  <2> QED BY <2>6
<1> HIDE DEF Q
<1>2. Q \in SUBSET SUBSET S
  BY DEF Q
<1>3. Q = SUBSET S
  BY <1>1, <1>2, SubsetInduction
<1> QED BY <1>3 DEF Q

(* The recursive function of the fold is the sums. *)
LEMMA SumsAre ==
    ASSUME NEW S, IsFiniteSet(S), \A x \in S : AmountOf(x) \in Int
    PROVE  IsSums(Sums(S), S)
<1>1. PICK g : IsSums(g, S)
  BY SumsExist
<1>2. g = [s \in SUBSET S |-> IF s = {} THEN 0 ELSE Buy(Pick(s)).amount + g[s \ {Pick(s)}]]
  BY <1>1 DEF IsSums, SumStep, AmountOf
<1> DEFINE F == Sums(S)
<1>3. F = [s \in SUBSET S |-> IF s = {} THEN 0 ELSE Buy(Pick(s)).amount + F[s \ {Pick(s)}]]
  BY <1>2 DEF Sums
<1> HIDE DEF F
<1>4. DOMAIN F = SUBSET S /\ \A s \in SUBSET S : F[s] = SumStep(F, s)
  BY <1>3 DEF SumStep, AmountOf
<1> DEFINE Q == {s \in SUBSET S : F[s] \in Int}
<1>5. ASSUME NEW s \in SUBSET S, \A r \in SUBSET s : r # s => r \in Q PROVE s \in Q
  <2>1. s # {} => Pick(s) \in s /\ s \ {Pick(s)} \in Q
    BY <1>5, PickIn
  <2>2. s # {} => AmountOf(Pick(s)) \in Int /\ F[s \ {Pick(s)}] \in Int
    BY <2>1
  <2>3. F[s] \in Int
    BY <1>4, <2>2 DEF SumStep
  <2> QED BY <2>3
<1> HIDE DEF Q
<1>6. Q \in SUBSET SUBSET S
  BY DEF Q
<1>7. Q = SUBSET S
  BY <1>5, <1>6, SubsetInduction
<1>8. F \in [SUBSET S -> Int]
  BY <1>3, <1>7 DEF Q
<1>9. IsSums(F, S)
  BY <1>4, <1>8 DEF IsSums
<1> QED BY <1>9 DEF F

(* One more buy adds its amount. *)
LEMMA AmountsAdd ==
    ASSUME NEW S, IsFiniteSet(S), \A y \in S : AmountOf(y) \in Int, NEW x, x \notin S,
           AmountOf(x) \in Int
    PROVE  /\ AmountsOf(S) \in Int /\ AmountsOf({}) = 0
           /\ AmountsOf(S \cup {x}) = AmountsOf(S) + AmountOf(x)
<1> DEFINE T == S \cup {x}
           g == Sums(T)
           h == Sums(S)
           Q == {s \in SUBSET T : \A y \in s : g[s] = AmountOf(y) + g[s \ {y}]}
<1>1. IsFiniteSet(T) /\ \A y \in T : AmountOf(y) \in Int
  BY FS_AddElement
<1>2. IsSums(g, T) /\ IsSums(h, S)
  BY <1>1, SumsAre
<1>3. g[S] = h[S]
  <2> HIDE DEF g, h
  <2>1. S \in SUBSET T /\ T \in SUBSET T
    OBVIOUS
  <2> QED BY <1>1, <1>2, <2>1, SumsAgree
<1> HIDE DEF g, h
<1>4. ASSUME NEW s \in SUBSET T, \A r \in SUBSET s : r # s => r \in Q PROVE s \in Q
  <2> SUFFICES ASSUME NEW y \in s PROVE g[s] = AmountOf(y) + g[s \ {y}]
    OBVIOUS
  <2> DEFINE c == Pick(s)
             r == s \ {c}
             t == s \ {y}
             u == r \ {y}
  <2>1. c \in s
    BY PickIn
  <2>2. g[s] = AmountOf(c) + g[r]
    BY <1>2 DEF IsSums, SumStep
  <2>3. CASE c = y
    BY <2>2, <2>3
  <2>4. CASE c # y
    <3>1. g[r] = AmountOf(y) + g[u]
      <4>1. r \in Q /\ y \in r
        BY <1>4, <2>1, <2>4
      <4> QED BY <4>1
    <3>2. g[t] = AmountOf(c) + g[u]
      <4>1. t \in Q /\ c \in t
        BY <1>4, <2>1, <2>4
      <4>2. t \ {c} = u
        OBVIOUS
      <4> HIDE DEF t, u, c
      <4> QED BY <4>1, <4>2
    <3>3. AmountOf(c) \in Int /\ AmountOf(y) \in Int /\ g[u] \in Int
      <4>1. c \in T /\ y \in T /\ u \in SUBSET T
        BY <2>1
      <4> QED BY <1>1, <1>2, <4>1 DEF IsSums
    <3> HIDE DEF c, r, t, u
    <3>4. g[s] = AmountOf(y) + g[t]
      BY <2>2, <3>1, <3>2, <3>3
    <3> QED BY <3>4 DEF t
  <2> QED BY <2>3, <2>4
<1> HIDE DEF Q
<1>5. Q \in SUBSET SUBSET T
  BY DEF Q
<1>6. Q = SUBSET T
  BY <1>1, <1>4, <1>5, SubsetInduction
<1>7. g[T] = AmountOf(x) + g[T \ {x}]
  BY <1>6 DEF Q
<1>8. T \ {x} = S /\ g[S] \in Int
  BY <1>2 DEF IsSums
<1>9. AmountsOf(T) = g[T] /\ AmountsOf(S) = h[S]
  BY SumIsSums DEF g, h
<1>10. AmountsOf(T) = AmountsOf(S) + AmountOf(x) /\ AmountsOf(S) \in Int
  <2>1. g[T] = AmountOf(x) + g[S]
    BY <1>7, <1>8
  <2>2. AmountsOf(S) = g[S]
    BY <1>3, <1>9
  <2> HIDE DEF T
  <2> QED BY <1>8, <1>9, <2>1, <2>2
<1>11. AmountsOf({}) = 0
  <2>1. IsFiniteSet({}) /\ \A y \in {} : AmountOf(y) \in Int
    BY FS_EmptySet
  <2> DEFINE k == Sums({})
  <2>2. IsSums(k, {})
    BY <2>1, SumsAre
  <2>3. AmountsOf({}) = k[{}]
    BY SumIsSums
  <2> HIDE DEF k
  <2> QED BY <2>2, <2>3 DEF IsSums, SumStep
<1> QED BY <1>10, <1>11

-----------------------------------------------------------------------------
(* The largest buyers *)

(* The elements of a list without repetition are as many as its length. *)
LEMMA DistinctCount ==
    ASSUME NEW T, NEW s \in Seq(T), Distinct(s)
    PROVE  IsFiniteSet(Range(s)) /\ Cardinality(Range(s)) = Len(s)
<1>1. Range(s) = {s[i] : i \in 1..Len(s)} /\ Len(s) \in Nat /\ DOMAIN s = 1..Len(s)
  BY RangeIs
<1> DEFINE n == Len(s)
           R == Range(s)
<1>2. s \in [1..n -> R]
  BY <1>1
<1>3. s \in Bijection(1..n, R)
  <2>1. s \in Injection(1..n, R)
    BY <1>2 DEF Injection, IsInjective, Distinct
  <2>2. s \in Surjection(1..n, R)
    BY <1>1, <1>2 DEF Surjection
  <2> QED BY <2>1, <2>2 DEF Bijection
<1>4. ExistsBijection(1..n, R)
  BY <1>3 DEF ExistsBijection
<1>5. IsFiniteSet(R)
  BY <1>1, <1>4, FS_NatBijection
<1>6. Cardinality(R) = n
  BY <1>1, <1>4, FS_CountingElements
<1> QED BY <1>5, <1>6

(* A set with all that is above one of its elements is the first Limit.      *)
(* The order is given by its pairs, the higher first.                        *)
LEMMA FirstOnes ==
    ASSUME NEW S, IsFiniteSet(S), NEW O, \A a \in S : <<a, a>> \notin O,
           NEW T \in SUBSET S, Cardinality(T) <= Limit, T = S \/ Cardinality(T) = Limit,
           \A t \in T : \A s \in S \ T : <<t, s>> \in O /\ <<s, t>> \notin O
    PROVE  {w \in S : Cardinality({v \in S : <<v, w>> \in O}) < Limit} = T
<1>1. IsFiniteSet(T) /\ Cardinality(T) \in Nat /\ Limit \in Nat
  BY FS_Subset, FS_CardinalityType, AnalysisAssumption
<1>2. ASSUME NEW w \in T PROVE Cardinality({v \in S : <<v, w>> \in O}) < Limit
  <2> DEFINE A == {v \in S : <<v, w>> \in O}
             U == T \ {w}
  <2>1. A \in SUBSET U
    OBVIOUS
  <2>2. IsFiniteSet(U) /\ Cardinality(U) = Cardinality(T) - 1
    BY <1>1, FS_RemoveElement
  <2> HIDE DEF A, U
  <2>3. Cardinality(A) <= Cardinality(U) /\ IsFiniteSet(A)
    BY <2>1, <2>2, FS_Subset
  <2>4. Cardinality(A) \in Nat
    BY <2>3, FS_CardinalityType
  <2> QED BY <1>1, <2>2, <2>3, <2>4 DEF A
<1>3. ASSUME NEW w \in S \ T PROVE ~(Cardinality({v \in S : <<v, w>> \in O}) < Limit)
  <2> DEFINE A == {v \in S : <<v, w>> \in O}
  <2>1. T \in SUBSET A /\ A \in SUBSET S
    OBVIOUS
  <2> HIDE DEF A
  <2>2. IsFiniteSet(A)
    BY <2>1, FS_Subset
  <2>3. Cardinality(T) <= Cardinality(A) /\ Cardinality(A) \in Nat
    BY <2>1, <2>2, FS_Subset, FS_CardinalityType
  <2>4. Cardinality(T) = Limit
    OBVIOUS
  <2> QED BY <1>1, <2>3, <2>4 DEF A
<1> QED BY <1>2, <1>3

Totals(ev, S) == \A w \in S : w \in Int /\ ev[w].total \in Int

(* The order of the buyers by volume is strict and total. *)
LEMMA AboveIsOrder ==
    ASSUME NEW ev, NEW S, Totals(ev, S)
    PROVE  /\ \A a \in S : ~AboveIn(ev, a, a)
           /\ \A a, b \in S : a # b => AboveIn(ev, a, b) \/ AboveIn(ev, b, a)
           /\ \A a, b \in S : ~(AboveIn(ev, a, b) /\ AboveIn(ev, b, a))
           /\ \A a, b, c \in S : AboveIn(ev, a, b) /\ AboveIn(ev, b, c) => AboveIn(ev, a, c)
  BY DEF Totals, AboveIn

RankIn(ev, S, w) == Cardinality({v \in S : AboveIn(ev, v, w)})

(* Ranks agree with the order. *)
LEMMA RankOrder ==
    ASSUME NEW ev, NEW S, IsFiniteSet(S), Totals(ev, S)
    PROVE  /\ \A a, b \in S : AboveIn(ev, a, b) => RankIn(ev, S, a) < RankIn(ev, S, b)
           /\ \A a \in S : RankIn(ev, S, a) \in 0..(Cardinality(S) - 1)
           /\ Cardinality(S) \in Nat
<1>1. Cardinality(S) \in Nat
  BY FS_CardinalityType
<1>2. ASSUME NEW a \in S, NEW b \in S, AboveIn(ev, a, b) PROVE RankIn(ev, S, a) < RankIn(ev, S, b)
  <2> DEFINE A == {v \in S : AboveIn(ev, v, a)}
             B == {v \in S : AboveIn(ev, v, b)}
  <2>1. A \in SUBSET S /\ B \in SUBSET S
    OBVIOUS
  <2>2. A \cup {a} \in SUBSET B /\ a \notin A
    BY <1>2, AboveIsOrder
  <2>3. RankIn(ev, S, a) = Cardinality(A) /\ RankIn(ev, S, b) = Cardinality(B)
    BY DEF RankIn
  <2> HIDE DEF A, B
  <2>4. IsFiniteSet(A) /\ IsFiniteSet(B)
    BY <2>1, FS_Subset
  <2>5. Cardinality(A \cup {a}) = Cardinality(A) + 1
    BY <2>2, <2>4, FS_AddElement
  <2>6. Cardinality(A \cup {a}) <= Cardinality(B)
    BY <2>2, <2>4, FS_Subset
  <2>7. Cardinality(A) \in Nat /\ Cardinality(B) \in Nat
    BY <2>4, FS_CardinalityType
  <2> QED BY <2>3, <2>5, <2>6, <2>7
<1>3. ASSUME NEW a \in S PROVE RankIn(ev, S, a) \in 0..(Cardinality(S) - 1)
  <2> DEFINE A == {v \in S : AboveIn(ev, v, a)}
  <2>1. A \in SUBSET (S \ {a})
    BY AboveIsOrder
  <2>2. RankIn(ev, S, a) = Cardinality(A)
    BY DEF RankIn
  <2> HIDE DEF A
  <2>3. IsFiniteSet(S \ {a}) /\ Cardinality(S \ {a}) = Cardinality(S) - 1
    BY FS_RemoveElement
  <2>4. IsFiniteSet(A) /\ Cardinality(A) <= Cardinality(S \ {a})
    BY <2>1, <2>3, FS_Subset
  <2>5. Cardinality(A) \in Nat
    BY <2>4, FS_CardinalityType
  <2> QED BY <1>1, <2>2, <2>3, <2>4, <2>5
<1> QED BY <1>1, <1>2, <1>3

(* Every rank is taken. *)
LEMMA RankOnto ==
    ASSUME NEW ev, NEW S, IsFiniteSet(S), Totals(ev, S)
    PROVE  \A r \in 0..(Cardinality(S) - 1) : \E w \in S : RankIn(ev, S, w) = r
<1> DEFINE n == Cardinality(S)
           I == 0..(n - 1)
           g == [w \in S |-> RankIn(ev, S, w)]
<1>1. n \in Nat /\ g \in [S -> I]
  BY RankOrder
<1>2. IsFiniteSet(I) /\ Cardinality(I) = n
  <2>1. 0 \in Int /\ n - 1 \in Int
    BY <1>1
  <2> HIDE DEF n
  <2>2. IsFiniteSet(0..(n - 1)) /\ Cardinality(0..(n - 1)) = IF 0 > n - 1 THEN 0 ELSE (n - 1) - 0 + 1
    BY <2>1, FS_Interval
  <2> QED BY <1>1, <2>2
<1>3. g \in Injection(S, I)
  <2> SUFFICES ASSUME NEW a \in S, NEW b \in S, a # b PROVE g[a] # g[b]
    BY <1>1 DEF Injection, IsInjective
  <2>1. RankIn(ev, S, a) < RankIn(ev, S, b) \/ RankIn(ev, S, b) < RankIn(ev, S, a)
    BY AboveIsOrder, RankOrder
  <2>2. RankIn(ev, S, a) \in I /\ RankIn(ev, S, b) \in I
    BY <1>1
  <2> QED BY <1>1, <2>1, <2>2
<1>4. g \in Surjection(S, I)
  <2> HIDE DEF I, g, n
  <2> QED BY <1>2, <1>3, FS_Injection DEF n
<1> QED BY <1>4 DEF Surjection

(* What Best finds: the first Limit of S, in order. *)
LEMMA BestIs ==
    ASSUME NEW ev, NEW S, IsFiniteSet(S), Totals(ev, S)
    PROVE  LET B == Best(ev, S)
           IN  /\ B \in Seq(S) /\ Len(B) <= Limit /\ Range(B) \subseteq S
               /\ \A i, j \in 1..Len(B) : i < j => AboveIn(ev, B[i], B[j])
               /\ \A t \in Range(B) : \A s \in S \ Range(B) : AboveIn(ev, t, s)
               /\ Range(B) = S \/ Len(B) = Limit
<1> DEFINE n == Cardinality(S)
           k == Min({n, Limit})
           B == Best(ev, S)
<1>1. n \in Nat /\ Limit \in Nat \ {0}
  BY RankOrder, AnalysisAssumption
<1>2. k \in Nat /\ k <= n /\ k <= Limit /\ (k = n \/ k = Limit)
  <2> HIDE DEF n
  <2>1. n \in Int /\ Limit \in Int
    BY <1>1
  <2>2. Min({n, Limit}) \in {n, Limit} /\ Min({n, Limit}) <= n /\ Min({n, Limit}) <= Limit
    BY <2>1, MinOfTwo
  <2> QED BY <1>1, <2>2
<1>3. B = [i \in 1..k |-> CHOOSE w \in S : RankIn(ev, S, w) = i - 1]
  BY DEF Best, RankIn
<1> HIDE DEF k, B
<1>4. \A i \in 1..k : B[i] \in S /\ RankIn(ev, S, B[i]) = i - 1
  <2> SUFFICES ASSUME NEW i \in 1..k PROVE B[i] \in S /\ RankIn(ev, S, B[i]) = i - 1
    OBVIOUS
  <2>1. i - 1 \in 0..(n - 1)
    BY <1>1, <1>2
  <2>2. \E w \in S : RankIn(ev, S, w) = i - 1
    BY <2>1, RankOnto
  <2> QED BY <1>3, <2>2
<1>5. B \in Seq(S) /\ Len(B) = k
  <2>1. B \in [1..k -> S]
    BY <1>3, <1>4
  <2> QED BY <1>2, <2>1
<1>6. Range(B) = {B[i] : i \in 1..k} /\ Range(B) \subseteq S
  BY <1>5, RangeIs
<1>7. \A a, b \in S : RankIn(ev, S, a) < RankIn(ev, S, b) => AboveIn(ev, a, b)
  <2> SUFFICES ASSUME NEW a \in S, NEW b \in S, RankIn(ev, S, a) < RankIn(ev, S, b)
               PROVE  AboveIn(ev, a, b)
    OBVIOUS
  <2>1. RankIn(ev, S, a) \in Int /\ RankIn(ev, S, b) \in Int
    BY <1>1, RankOrder
  <2>2. a # b /\ ~AboveIn(ev, b, a)
    BY <2>1, RankOrder
  <2> QED BY <2>2, AboveIsOrder
<1>8. \A i, j \in 1..k : i < j => AboveIn(ev, B[i], B[j])
  BY <1>2, <1>4, <1>7
<1>9. \A w \in S : RankIn(ev, S, w) < k => w \in Range(B)
  <2> SUFFICES ASSUME NEW w \in S, RankIn(ev, S, w) < k PROVE w \in Range(B)
    OBVIOUS
  <2> DEFINE i == RankIn(ev, S, w) + 1
  <2>1. RankIn(ev, S, w) \in Nat
    BY <1>1, RankOrder
  <2>2. i \in 1..k
    BY <1>2, <2>1
  <2>3. B[i] \in S /\ RankIn(ev, S, B[i]) = RankIn(ev, S, w)
    BY <1>4, <2>1, <2>2
  <2>4. B[i] = w
    <3>1. ~AboveIn(ev, B[i], w) /\ ~AboveIn(ev, w, B[i])
      <4> HIDE DEF i
      <4> QED BY <2>1, <2>3, RankOrder
    <3> HIDE DEF i
    <3> QED BY <2>3, <3>1, AboveIsOrder
  <2> QED BY <1>6, <2>2, <2>4
<1>10. \A t \in Range(B) : \A s \in S \ Range(B) : AboveIn(ev, t, s)
  <2> SUFFICES ASSUME NEW t \in Range(B), NEW s \in S \ Range(B) PROVE AboveIn(ev, t, s)
    OBVIOUS
  <2>1. PICK i \in 1..k : t = B[i]
    BY <1>6
  <2>2. RankIn(ev, S, t) = i - 1 /\ t \in S
    BY <1>4, <2>1
  <2>3. ~(RankIn(ev, S, s) < k)
    BY <1>9
  <2>4. RankIn(ev, S, s) \in Nat
    BY <1>1, RankOrder
  <2>5. RankIn(ev, S, t) < RankIn(ev, S, s)
    BY <1>2, <2>2, <2>3, <2>4
  <2> QED BY <1>7, <2>2, <2>5
<1>11. Range(B) = S \/ k = Limit
  <2>1. ASSUME k = n PROVE Range(B) = S
    <3>1. \A w \in S : RankIn(ev, S, w) < n
      BY <1>1, RankOrder
    <3> QED BY <1>6, <1>9, <2>1, <3>1
  <2> QED BY <1>2, <2>1
<1> QED BY <1>2, <1>5, <1>6, <1>8, <1>10, <1>11 DEF B

(* top is the first Limit of S by volume, in order. *)
IsTop(top, ev, S) ==
    /\ top \in Seq(S) /\ Len(top) <= Limit /\ Range(top) \subseteq S
    /\ \A i, j \in 1..Len(top) : i < j => AboveIn(ev, top[i], top[j])
    /\ \A t \in Range(top) : \A s \in S \ Range(top) : AboveIn(ev, t, s)
    /\ Range(top) = S \/ Len(top) = Limit

(* A list in order has no repetition, and its last is the lowest. *)
LEMMA TopIsDistinct ==
    ASSUME NEW ev, NEW S, Totals(ev, S), NEW top, IsTop(top, ev, S)
    PROVE  /\ Distinct(top) /\ IsFiniteSet(Range(top)) /\ Cardinality(Range(top)) = Len(top)
           /\ top # <<>> => /\ Last(top) \in Range(top)
                            /\ \A t \in Range(top) : t = Last(top) \/ AboveIn(ev, t, Last(top))
<1>1. top \in Seq(S) /\ Range(top) = {top[i] : i \in 1..Len(top)} /\ Len(top) \in Nat
  BY RangeIs DEF IsTop
<1>2. \A i \in 1..Len(top) : top[i] \in S
  BY <1>1
<1>3. Distinct(top)
  <2> SUFFICES ASSUME NEW i \in 1..Len(top), NEW j \in 1..Len(top), top[i] = top[j], i # j
               PROVE  FALSE
    BY DEF Distinct
  <2>1. i < j \/ j < i
    BY <1>1
  <2>2. AboveIn(ev, top[i], top[j]) \/ AboveIn(ev, top[j], top[i])
    BY <2>1 DEF IsTop
  <2>3. AboveIn(ev, top[i], top[i])
    BY <2>2
  <2> QED BY <1>2, <2>3, AboveIsOrder
<1>4. ASSUME top # <<>>
      PROVE  /\ Last(top) \in Range(top)
             /\ \A t \in Range(top) : t = Last(top) \/ AboveIn(ev, t, Last(top))
  <2>1. Last(top) = top[Len(top)] /\ Len(top) \in 1..Len(top)
    BY <1>1, <1>4 DEF Last
  <2>2. ASSUME NEW t \in Range(top) PROVE t = Last(top) \/ AboveIn(ev, t, Last(top))
    <3>1. PICK i \in 1..Len(top) : t = top[i]
      BY <1>1
    <3>2. i = Len(top) \/ i < Len(top)
      BY <1>1
    <3> QED BY <2>1, <3>1, <3>2 DEF IsTop
  <2> QED BY <1>1, <2>1, <2>2
<1>5. IsFiniteSet(Range(top)) /\ Cardinality(Range(top)) = Len(top)
  BY <1>1, <1>3, DistinctCount
<1> QED BY <1>3, <1>4, <1>5

(* A part of the first ones with all above it, and with the rest below.      *)
LEMMA TopOfMore ==
    ASSUME NEW ev, NEW S, NEW R \in SUBSET S, NEW top, IsTop(top, ev, R),
           Totals(ev, S),
           R = S \/ Len(top) = Limit,
           \A t \in Range(top) : \A s \in S \ R : AboveIn(ev, t, s)
    PROVE  IsTop(top, ev, S)
<1>1. top \in Seq(S)
  BY DEF IsTop
<1>2. \A t \in Range(top) : \A s \in S \ Range(top) : AboveIn(ev, t, s)
  BY DEF IsTop
<1> QED BY <1>1, <1>2 DEF IsTop

(* _update_top_volume: one buyer bought more. *)
LEMMA UpdateTopIs ==
    ASSUME NEW ev, NEW new, NEW S, NEW w, IsFiniteSet(S), Totals(ev, S), Totals(new, S \cup {w}),
           \A v \in S \ {w} : new[v] = ev[v],
           w \in S => new[w].total >= ev[w].total,
           NEW top, IsTop(top, ev, S)
    PROVE  /\ IsTop(UpdateTopVolume(top, new, w), new, S \cup {w})
           /\ Range(UpdateTopVolume(top, new, w)) \subseteq Range(top) \cup {w}
<1> DEFINE W == S \cup {w}
           rest == Only(top, Range(top) \ {w})
           T == Range(top)
<1>1. IsFiniteSet(W) /\ W \in SUBSET W
  BY FS_AddElement
<1>2. /\ top \in Seq(S) /\ T \subseteq S /\ Len(top) \in Nat /\ Len(top) <= Limit
      /\ Limit \in Nat \ {0} /\ IsFiniteSet(T) /\ Cardinality(T) = Len(top) /\ Distinct(top)
  BY TopIsDistinct, AnalysisAssumption DEF IsTop
<1>3. /\ rest \in Seq(S) /\ Range(rest) = T \ {w} /\ Distinct(rest)
  <2>1. rest \in Seq(S) /\ Range(rest) = T \cap (T \ {w}) /\ Distinct(rest)
    BY <1>2, OnlyDistinct
  <2> QED BY <2>1
<1>4. \A i, j \in 1..Len(rest) : i < j =>
         \E a, b \in 1..Len(top) : a < b /\ rest[i] = top[a] /\ rest[j] = top[b]
  <2> DEFINE X == Range(top) \ {w}
  <2>1. \A i, j \in 1..Len(Only(top, X)) : i < j =>
           \E a, b \in 1..Len(top) : a < b /\ Only(top, X)[i] = top[a] /\ Only(top, X)[j] = top[b]
    <3> HIDE DEF X
    <3> QED BY <1>2, OnlyIs
  <2> QED BY <2>1
<1>5. UpdateTopVolume(top, new, w) =
         IF Len(rest) < Limit \/ AboveIn(new, w, Last(rest))
         THEN Best(new, Range(rest) \cup {w}) ELSE rest
  BY DEF UpdateTopVolume
<1> HIDE DEF rest
<1>6. Len(rest) \in Nat /\ Cardinality(T \ {w}) = Len(rest)
  <2>1. Cardinality(Range(rest)) = Len(rest)
    BY <1>3, DistinctCount
  <2>2. Len(rest) \in Nat
    BY <1>3
  <2> QED BY <1>3, <2>1, <2>2
<1>7. Cardinality(T \ {w}) = IF w \in T THEN Len(top) - 1 ELSE Len(top)
  BY <1>2, FS_RemoveElement
(* The buyers other than w are ordered as before. *)
<1>8. \A a, b \in S : a # w /\ b # w => (AboveIn(new, a, b) <=> AboveIn(ev, a, b))
  BY DEF AboveIn
<1>9. \A a \in S : a # w /\ w \in S /\ AboveIn(ev, w, a) => AboveIn(new, w, a)
  BY DEF AboveIn, Totals
<1>10. \A t \in T : \A s \in S \ T : AboveIn(ev, t, s)
  BY DEF IsTop
<1> DEFINE R == (T \ {w}) \cup {w}
<1>11. R \in SUBSET W /\ IsFiniteSet(R) /\ Totals(new, R)
  <2>1. R \in SUBSET W
    BY <1>2
  <2> QED BY <1>1, <2>1, FS_Subset DEF Totals
<1>12. IsTop(Best(new, R), new, R)
  <2> HIDE DEF R
  <2> QED BY <1>11, BestIs DEF IsTop
<1>13. T = S \/ Len(top) = Limit
  BY DEF IsTop
<1>14. ASSUME Len(rest) < Limit PROVE IsTop(UpdateTopVolume(top, new, w), new, W)
  <2>1. UpdateTopVolume(top, new, w) = Best(new, R)
    BY <1>3, <1>5, <1>14
  <2>2. CASE T = S
    BY <1>12, <2>1, <2>2
  <2>3. CASE T # S
    <3>1. Len(top) = Limit /\ w \in T
      BY <1>6, <1>7, <1>13, <1>14, <2>3
    <3>2. R = T /\ W = S
      BY <1>2, <3>1
    <3> DEFINE B == Best(new, R)
    <3>3. IsTop(B, new, T)
      BY <1>12, <3>2
    <3> HIDE DEF B, R
    <3>4. Len(B) = Limit /\ Range(B) \subseteq T
      <4>1. CASE Len(B) = Limit
        BY <3>3, <4>1 DEF IsTop
      <4>2. CASE Range(B) = T
        <5>1. Cardinality(Range(B)) = Len(B)
          <6>1. Totals(new, T)
            BY <1>11, <3>2
          <6> QED BY <3>3, <6>1, TopIsDistinct
        <5> QED BY <1>2, <3>1, <4>2, <5>1
      <4> QED BY <3>3, <4>1, <4>2 DEF IsTop
    <3>5. \A t \in Range(B) : \A s \in W \ T : AboveIn(new, t, s)
      <4> SUFFICES ASSUME NEW t \in Range(B), NEW s \in S \ T PROVE AboveIn(new, t, s)
        BY <3>2
      <4>1. t \in T /\ s # w /\ AboveIn(ev, t, s)
        BY <1>10, <3>1, <3>4
      <4> QED BY <1>2, <1>8, <1>9, <3>1, <4>1
    <3>6. T \in SUBSET W
      BY <1>2
    <3>7. IsTop(B, new, W)
      BY <3>3, <3>4, <3>5, <3>6, TopOfMore
    <3> QED BY <2>1, <3>7 DEF B
  <2> QED BY <2>2, <2>3
<1>15. ASSUME ~(Len(rest) < Limit) PROVE IsTop(UpdateTopVolume(top, new, w), new, W)
  <2>1. w \notin T /\ Len(top) = Limit /\ Len(rest) = Limit /\ T \ {w} = T
    BY <1>2, <1>6, <1>7, <1>15
  <2> DEFINE low == Last(rest)
  <2>2. rest # <<>>
    BY <1>2, <2>1
  <2>3. Range(rest) = T
    BY <1>3, <2>1
  <2>4. \A i, j \in 1..Len(rest) : i < j => AboveIn(ev, rest[i], rest[j])
    <3> SUFFICES ASSUME NEW i \in 1..Len(rest), NEW j \in 1..Len(rest), i < j
                 PROVE  AboveIn(ev, rest[i], rest[j])
      OBVIOUS
    <3>1. PICK a, b \in 1..Len(top) : a < b /\ rest[i] = top[a] /\ rest[j] = top[b]
      BY <1>4
    <3> QED BY <3>1 DEF IsTop
  <2>5. IsTop(rest, ev, S)
    BY <1>2, <1>3, <1>10, <2>1, <2>3, <2>4 DEF IsTop
  <2>6. low \in T /\ \A t \in T : t = low \/ AboveIn(ev, t, low)
    BY <2>2, <2>3, <2>5, TopIsDistinct
  <2>7. \A i \in 1..Len(rest) : rest[i] \in T
    BY <1>3, <2>3, RangeIs
  <2>8. CASE AboveIn(new, w, low)
    <3>1. UpdateTopVolume(top, new, w) = Best(new, R)
      BY <1>3, <1>5, <2>8
    <3> DEFINE B == Best(new, R)
    <3>2. IsTop(B, new, R)
      BY <1>12
    <3>3. R = T \cup {w}
      OBVIOUS
    <3>3a. Cardinality(R) = Limit + 1
      BY <1>2, <2>1, FS_AddElement
    <3> HIDE DEF B, R
    <3>4. Len(B) = Limit /\ Range(B) \subseteq R
      <4>1. CASE Len(B) = Limit
        BY <3>2, <4>1 DEF IsTop
      <4>2. CASE Range(B) = R
        <5>1. Cardinality(Range(B)) = Len(B) /\ Len(B) <= Limit /\ Len(B) \in Nat
          BY <1>11, <3>2, TopIsDistinct DEF IsTop
        <5> QED BY <1>2, <3>3a, <4>2, <5>1
      <4> QED BY <3>2, <4>1, <4>2 DEF IsTop
    <3>5. \A t \in Range(B) : \A s \in W \ R : AboveIn(new, t, s)
      <4> SUFFICES ASSUME NEW t \in Range(B), NEW s \in W \ R PROVE AboveIn(new, t, s)
        OBVIOUS
      <4>1. s \in S \ T /\ s # w /\ (t \in T \/ t = w)
        BY <3>3, <3>4
      <4>2. \A x \in T : AboveIn(new, x, s)
        BY <1>2, <1>8, <1>10, <2>1, <4>1
      <4>3. CASE t \in T
        BY <4>2, <4>3
      <4>4. CASE t = w
        <5>1. AboveIn(new, low, s)
          BY <2>6, <4>2
        <5>2. w \in W /\ low \in W /\ s \in W
          BY <1>2, <2>6, <4>1
        <5> HIDE DEF W, low
        <5>3. AboveIn(new, w, s)
          BY <2>8, <5>1, <5>2, AboveIsOrder DEF W
        <5> QED BY <4>4, <5>3
      <4> QED BY <4>1, <4>3, <4>4
    <3>6. IsTop(B, new, W)
      <4>1. R \in SUBSET W /\ Totals(new, W)
        BY <1>11
      <4> HIDE DEF W
      <4> QED BY <3>2, <3>4, <3>5, <4>1, TopOfMore
    <3> QED BY <3>1, <3>6 DEF B
  <2>9. CASE ~AboveIn(new, w, low)
    <3>1. UpdateTopVolume(top, new, w) = rest
      BY <1>5, <1>15, <2>9
    <3>2. w \in W /\ \A x \in T : x \in W /\ x # w
      BY <1>2, <2>1
    <3>3. AboveIn(new, low, w)
      <4>1. low \in W /\ low # w
        BY <2>6, <3>2
      <4> HIDE DEF low
      <4> QED BY <2>9, <3>2, <4>1, AboveIsOrder
    <3>4. \A t \in T : AboveIn(new, t, w)
      <4> SUFFICES ASSUME NEW t \in T, t # low PROVE AboveIn(new, t, w)
        BY <3>3
      <4>1. AboveIn(new, t, low)
        BY <1>2, <1>8, <2>6, <3>2
      <4>2. t \in W /\ low \in W /\ w \in W
        BY <2>6, <3>2
      <4> HIDE DEF low
      <4> QED BY <3>3, <4>1, <4>2, AboveIsOrder
    <3>5. \A t \in T : \A s \in W \ T : AboveIn(new, t, s)
      <4> SUFFICES ASSUME NEW t \in T, NEW s \in W \ T, s # w PROVE AboveIn(new, t, s)
        BY <3>4
      <4> QED BY <1>2, <1>8, <1>10, <3>2
    <3>6. \A i, j \in 1..Len(rest) : i < j => AboveIn(new, rest[i], rest[j])
      BY <1>2, <1>8, <2>4, <2>7, <3>2
    <3>7. rest \in Seq(W)
      BY <1>3
    <3>8. IsTop(rest, new, W)
      BY <1>2, <2>1, <2>3, <3>2, <3>5, <3>6, <3>7 DEF IsTop
    <3> QED BY <3>1, <3>8
  <2> QED BY <2>8, <2>9
<1>16. Range(UpdateTopVolume(top, new, w)) \subseteq T \cup {w}
  <2>1. Range(Best(new, R)) \subseteq R
    BY <1>12 DEF IsTop
  <2>2. UpdateTopVolume(top, new, w) \in {Best(new, R), rest}
    BY <1>3, <1>5
  <2> QED BY <1>3, <2>1, <2>2
<1> QED BY <1>14, <1>15, <1>16

-----------------------------------------------------------------------------
(* The evidence of a set of buys *)

By(E, w) == {e \in E : e.user = w}
UsersOf(E) == {e.user : e \in E}

(* Buys of a history *)
BuysOK(E, f) == f \in Feeds /\ E \subseteq f /\ \A e \in E : IsBuy(e)

(* What buys of a history are. *)
LEMMA BuyTypes ==
    ASSUME NEW f, NEW E, BuysOK(E, f)
    PROVE  /\ IsFiniteSet(E)
           /\ \A e \in E : /\ e.user \in Nat \ {0} /\ e.user \in Wallets /\ e.time \in Int
                           /\ AmountOf(e) \in Nat
                           /\ Buy(e).time = e.time /\ Buy(e).wallet = e.user
           /\ \A w : By(E, w) \in SUBSET E /\ IsFiniteSet(By(E, w))
           /\ IsFiniteSet(UsersOf(E)) /\ UsersOf(E) \subseteq Wallets
<1>1. IsFiniteSet(E)
  BY FeedsAssumption, FS_Subset DEF BuysOK
<1>2. ASSUME NEW e \in E
      PROVE  /\ e.user \in Nat \ {0} /\ e.user \in Wallets /\ e.time \in Int /\ AmountOf(e) \in Nat
             /\ Buy(e).time = e.time /\ Buy(e).wallet = e.user
  <2>1. f \in Feeds /\ e \in f /\ e.user # NoWallet
    BY DEF BuysOK, IsBuy
  <2>2. e.time \in Int /\ e.user \in Nat /\ e.baseAmt \in Nat /\ e.quoteAmt \in Nat
    BY <2>1, FeedsAssumption
  <2> QED BY <2>1, <2>2 DEF Wallets, NoWallet, AmountOf, Buy
<1>3. \A w : By(E, w) \in SUBSET E /\ IsFiniteSet(By(E, w))
  BY <1>1, FS_Subset DEF By
<1>4. UsersOf(E) \subseteq Wallets
  BY <1>2 DEF UsersOf
<1>5. IsFiniteSet(UsersOf(E))
  BY <1>4, WalletsAssumption, FS_Subset
<1> QED BY <1>1, <1>2, <1>3, <1>4, <1>5

EvidenceOf(E, w) ==
    [total |-> AmountsOf(By(E, w)), slots |-> {e.slot : e \in By(E, w)},
     bundles |-> {e.bundle : e \in By(E, w)} \ {NoBundle},
     amounts |-> {Buy(e).amount : e \in By(E, w)} \ {0}]

EvidenceOK(ev, E) ==
    DOMAIN ev = UsersOf(E) /\ \A w \in UsersOf(E) : ev[w] = EvidenceOf(E, w)

(* The evidence of buys gives totals. *)
LEMMA EvidenceTotals ==
    ASSUME NEW f, NEW E, BuysOK(E, f), NEW ev, EvidenceOK(ev, E)
    PROVE  Totals(ev, DOMAIN ev)
<1> SUFFICES ASSUME NEW w \in UsersOf(E) PROVE w \in Int /\ ev[w].total \in Int
  BY DEF EvidenceOK, Totals
<1>1. w \in Int
  <2>1. PICK e \in E : w = e.user
    BY DEF UsersOf
  <2>2. e.user \in Nat \ {0}
    BY BuyTypes
  <2> QED BY <2>1, <2>2
<1>2. ev[w].total = AmountsOf(By(E, w))
  BY DEF EvidenceOK, EvidenceOf
<1> DEFINE S == By(E, w)
<1>3. IsFiniteSet(S) /\ \A y \in S : AmountOf(y) \in Int
  BY BuyTypes
<1>4. AmountsOf(S) \in Int
  <2> HIDE DEF S
  <2>1. IsSums(Sums(S), S)
    BY <1>3, SumsAre
  <2> QED BY <2>1, SumIsSums DEF IsSums
<1> QED BY <1>1, <1>2, <1>4

(* _accumulate_evidence: one more buy. *)
LEMMA AddEvidence ==
    ASSUME NEW f, NEW E, NEW e, e \notin E, BuysOK(E \cup {e}, f), NEW st, EvidenceOK(st.evidence, E)
    PROVE  LET new == AddBuy(st, Buy(e)).evidence
           IN  /\ EvidenceOK(new, E \cup {e})
               /\ \A v \in UsersOf(E) \ {e.user} : new[v] = st.evidence[v]
               /\ e.user \in UsersOf(E) => new[e.user].total >= st.evidence[e.user].total
<1> DEFINE D == E \cup {e}
           w == e.user
           ev == st.evidence
           old == IF w \in DOMAIN ev THEN ev[w] ELSE NoEvidence
           b == Buy(e)
           new == AddBuy(st, b).evidence
<1>0. BuysOK(E, f)
  BY DEF BuysOK
<1>1. b.wallet = w /\ b.slot = e.slot /\ b.bundle = e.bundle /\ b.amount = AmountOf(e)
  BY DEF Buy, AmountOf
<1>2. new = Put(ev, w, Accumulate(old, b))
  BY <1>1 DEF AddBuy
<1>3. UsersOf(D) = UsersOf(E) \cup {w}
  BY DEF UsersOf
<1>4. By(D, w) = By(E, w) \cup {e} /\ e \notin By(E, w) /\ \A v : v # w => By(D, v) = By(E, v)
  BY DEF By
<1>5. DOMAIN new = UsersOf(D) /\ new[w] = Accumulate(old, b)
      /\ \A v \in UsersOf(E) \ {w} : new[v] = ev[v]
  BY <1>2, <1>3 DEF Put, EvidenceOK
<1>6. w \notin UsersOf(E) => By(E, w) = {}
  BY DEF UsersOf, By
<1>7. /\ IsFiniteSet(By(E, w)) /\ \A y \in By(E, w) : AmountOf(y) \in Int
      /\ AmountOf(e) \in Nat
  <2>1. By(E, w) \in SUBSET E /\ IsFiniteSet(By(E, w)) /\ \A y \in E : AmountOf(y) \in Nat
    BY <1>0, BuyTypes
  <2>2. e \in E \cup {e}
    OBVIOUS
  <2>3. AmountOf(e) \in Nat
    BY <2>2, BuyTypes
  <2> QED BY <2>1, <2>3
<1>8. AmountsOf(By(E, w)) \in Int /\ AmountsOf({}) = 0
      /\ AmountsOf(By(E, w) \cup {e}) = AmountsOf(By(E, w)) + AmountOf(e)
  <2> DEFINE S == By(E, w)
  <2>1. IsFiniteSet(S) /\ (\A y \in S : AmountOf(y) \in Int) /\ e \notin S /\ AmountOf(e) \in Int
    BY <1>4, <1>7
  <2> HIDE DEF S
  <2>2. AmountsOf(S) \in Int /\ AmountsOf({}) = 0 /\ AmountsOf(S \cup {e}) = AmountsOf(S) + AmountOf(e)
    BY <2>1, AmountsAdd
  <2> QED BY <2>2 DEF S
<1>9. old = EvidenceOf(E, w)
  <2>1. CASE w \in UsersOf(E)
    BY <2>1 DEF EvidenceOK
  <2>2. CASE w \notin UsersOf(E)
    <3>1. old = NoEvidence
      BY <2>2 DEF EvidenceOK
    <3>2. By(E, w) = {}
      BY <1>6, <2>2
    <3> QED BY <1>8, <3>1, <3>2 DEF EvidenceOf, NoEvidence
  <2> QED BY <2>1, <2>2
<1>10. new[w] = EvidenceOf(D, w)
  <2> HIDE DEF old
  <2>1. /\ Accumulate(old, b).total = AmountsOf(By(D, w))
    BY <1>1, <1>4, <1>8, <1>9 DEF Accumulate, EvidenceOf
  <2>2. old.slots \cup {e.slot} = {x.slot : x \in By(D, w)}
    BY <1>4, <1>9 DEF EvidenceOf
  <2>3. old.bundles \cup ({e.bundle} \ {NoBundle}) = {x.bundle : x \in By(D, w)} \ {NoBundle}
    BY <1>4, <1>9 DEF EvidenceOf
  <2>4. old.amounts \cup ({Buy(e).amount} \ {0}) = {Buy(x).amount : x \in By(D, w)} \ {0}
    BY <1>4, <1>9 DEF EvidenceOf
  <2> QED BY <1>1, <1>5, <2>1, <2>2, <2>3, <2>4 DEF Accumulate, EvidenceOf, AmountOf
<1>11. EvidenceOK(new, D)
  <2>1. \A v \in UsersOf(D) : new[v] = EvidenceOf(D, v)
    <3> SUFFICES ASSUME NEW v \in UsersOf(E), v # w PROVE new[v] = EvidenceOf(D, v)
      BY <1>3, <1>10
    <3>1. new[v] = EvidenceOf(E, v)
      BY <1>5 DEF EvidenceOK
    <3>2. By(D, v) = By(E, v)
      BY <1>4
    <3> QED BY <3>1, <3>2 DEF EvidenceOf
  <2> QED BY <1>5, <2>1 DEF EvidenceOK
<1>12. w \in UsersOf(E) => new[w].total >= ev[w].total
  <2> SUFFICES ASSUME w \in UsersOf(E) PROVE new[w].total >= ev[w].total
    OBVIOUS
  <2>1. ev[w].total = AmountsOf(By(E, w))
    <3>1. ev[w] = EvidenceOf(E, w)
      BY DEF EvidenceOK
    <3> QED BY <3>1 DEF EvidenceOf
  <2>2. new[w].total = AmountsOf(By(D, w))
    BY <1>10 DEF EvidenceOf
  <2> DEFINE x == AmountsOf(By(E, w))
             y == AmountsOf(By(D, w))
             z == AmountOf(e)
  <2>3. y = x + z /\ x \in Int /\ z \in Nat
    BY <1>4, <1>7, <1>8
  <2> HIDE DEF x, y, z
  <2>4. y >= x
    BY <2>3
  <2> QED BY <2>1, <2>2, <2>4 DEF x, y
<1> QED BY <1>5, <1>11, <1>12

-----------------------------------------------------------------------------
(* The first buyers *)

(* A finite set of numbers has a least one. *)
LEMMA MinExists ==
    ASSUME NEW S \in SUBSET Int, IsFiniteSet(S), S # {}
    PROVE  Min(S) \in S /\ \A y \in S : Min(S) <= y
<1> DEFINE Q == {T \in SUBSET S : T # {} => \E x \in T : \A y \in T : x <= y}
<1>1. ASSUME NEW T \in SUBSET S, \A U \in SUBSET T : U # T => U \in Q PROVE T \in Q
  <2> SUFFICES ASSUME T # {} PROVE \E x \in T : \A y \in T : x <= y
    OBVIOUS
  <2>1. PICK x \in T : TRUE
    OBVIOUS
  <2>2. T \ {x} \in Q
    BY <1>1
  <2>3. CASE T \ {x} = {}
    <3>1. \A y \in T : x <= y
      BY <2>3
    <3> QED BY <3>1
  <2>4. CASE T \ {x} # {}
    <3>1. PICK z \in T \ {x} : \A y \in T \ {x} : z <= y
      BY <2>2, <2>4
    <3>2. CASE x <= z
      <4>1. \A y \in T : x <= y
        BY <3>1, <3>2
      <4> QED BY <4>1
    <3>3. CASE ~(x <= z)
      <4>1. \A y \in T : z <= y
        BY <3>1, <3>3
      <4> QED BY <3>1, <4>1
    <3> QED BY <3>2, <3>3
  <2> QED BY <2>3, <2>4
<1> HIDE DEF Q
<1>2. Q \in SUBSET SUBSET S
  BY DEF Q
<1>3. Q = SUBSET S
  BY <1>1, <1>2, SubsetInduction
<1>4. \E x \in S : \A y \in S : x <= y
  BY <1>3 DEF Q
<1> QED BY <1>4 DEF Min

FirstTime(E, w) == Min({e.time : e \in By(E, w)})
Before(E, a, b) ==
    \/ FirstTime(E, a) < FirstTime(E, b)
    \/ FirstTime(E, a) = FirstTime(E, b) /\ a < b

FirstOK(first, E) ==
    /\ first \in Seq(UsersOf(E)) /\ Distinct(first) /\ Len(first) <= Limit
    /\ Range(first) = UsersOf(E) \/ Len(first) = Limit
    /\ \A t \in Range(first) : \A s \in UsersOf(E) \ Range(first) : Before(E, t, s)

(* The first buy of a wallet. *)
LEMMA FirstTimeIs ==
    ASSUME NEW f, NEW E, BuysOK(E, f), NEW w \in UsersOf(E)
    PROVE  /\ FirstTime(E, w) \in Int /\ w \in Int
           /\ \E e \in By(E, w) : FirstTime(E, w) = e.time
           /\ \A e \in By(E, w) : FirstTime(E, w) <= e.time
<1> DEFINE B == By(E, w)
           S == {e.time : e \in B}
<1>1. B \subseteq E /\ IsFiniteSet(B) /\ \A e \in E : e.time \in Int
  BY BuyTypes
<1>2. B # {}
  BY DEF UsersOf, By
<1> HIDE DEF B
<1>3. S \in SUBSET Int /\ S # {}
  BY <1>1, <1>2
<1>4. IsFiniteSet(S)
  <2> DEFINE g == [e \in B |-> e.time]
  <2>1. g \in Surjection(B, S)
    BY DEF Surjection
  <2> HIDE DEF g, S
  <2> QED BY <1>1, <2>1, FS_Surjection
<1>5. Min(S) \in S /\ \A y \in S : Min(S) <= y
  <2> HIDE DEF S
  <2> QED BY <1>3, <1>4, MinExists
<1>6. FirstTime(E, w) = Min(S)
  BY DEF FirstTime, B
<1>7. w \in Int
  <2>1. PICK e \in E : w = e.user
    BY DEF UsersOf
  <2>2. e.user \in Nat \ {0}
    BY BuyTypes
  <2> QED BY <2>1, <2>2
<1> QED BY <1>3, <1>5, <1>6, <1>7 DEF B

After(E, e) == \A d \in E : NotAfter(Buy(d), Buy(e), "wallet")

(* The buy after all the others adds its wallet at the end. *)
LEMMA AddFirst ==
    ASSUME NEW f, NEW E, NEW e, e \notin E, BuysOK(E \cup {e}, f), After(E, e), NEW st,
           FirstOK(st.first, E)
    PROVE  LET new == AddBuy(st, Buy(e)).first
           IN  FirstOK(new, E \cup {e}) /\ Range(new) \subseteq Range(st.first) \cup {e.user}
<1> DEFINE D == E \cup {e}
           w == e.user
           first == st.first
           new == AddBuy(st, Buy(e)).first
<1>0. BuysOK(E, f)
  BY DEF BuysOK
<1>1. new = IF w \notin Range(first) /\ Len(first) < Limit THEN Append(first, w) ELSE first
  BY DEF AddBuy, Buy
<1>2. UsersOf(D) = UsersOf(E) \cup {w} /\ w \in UsersOf(D)
  BY DEF UsersOf
<1>3. \A d \in E : d.time < e.time \/ (d.time = e.time /\ d.user <= w)
  BY DEF After, NotAfter, Buy
<1>4. e.time \in Int /\ w \in Int /\ \A d \in E : d.time \in Int /\ d.user \in Int
  BY BuyTypes
<1>5. \A v \in UsersOf(E) : FirstTime(D, v) = FirstTime(E, v)
  <2> SUFFICES ASSUME NEW v \in UsersOf(E) PROVE FirstTime(D, v) = FirstTime(E, v)
    OBVIOUS
  <2>1. /\ FirstTime(E, v) \in Int /\ \E d \in By(E, v) : FirstTime(E, v) = d.time
        /\ \A d \in By(E, v) : FirstTime(E, v) <= d.time
    BY <1>0, FirstTimeIs
  <2>2. v \in UsersOf(D)
    BY <1>2
  <2>3. /\ FirstTime(D, v) \in Int /\ \E d \in By(D, v) : FirstTime(D, v) = d.time
        /\ \A d \in By(D, v) : FirstTime(D, v) <= d.time
    <3> HIDE DEF D
    <3> QED BY <2>2, FirstTimeIs DEF D
  <2>4. By(E, v) \subseteq By(D, v) /\ By(D, v) \subseteq By(E, v) \cup {e} /\ By(E, v) \subseteq E
    BY DEF By
  <2>5. PICK d \in By(E, v) : FirstTime(E, v) = d.time
    BY <2>1
  <2>6. d.time <= e.time
    BY <1>3, <1>4, <2>4
  <2>7. FirstTime(D, v) <= FirstTime(E, v)
    BY <2>3, <2>4, <2>5
  <2>8. PICK c \in By(D, v) : FirstTime(D, v) = c.time
    BY <2>3
  <2>9. FirstTime(E, v) <= c.time
    BY <2>1, <2>4, <2>5, <2>6, <2>8
  <2> QED BY <2>1, <2>3, <2>7, <2>8, <2>9
<1>6. \A a, b \in UsersOf(E) : Before(D, a, b) <=> Before(E, a, b)
  BY <1>5 DEF Before
<1>7. first \in Seq(UsersOf(E)) /\ Range(first) = {first[i] : i \in 1..Len(first)}
      /\ Range(first) \subseteq UsersOf(E) /\ Len(first) \in Nat
  BY RangeIs DEF FirstOK
<1>8. first \in Seq(UsersOf(D))
  <2>1. \A A, B : A \subseteq B /\ first \in Seq(A) => first \in Seq(B)
    OBVIOUS
  <2>2. UsersOf(E) \subseteq UsersOf(D)
    BY <1>2
  <2> QED BY <1>7, <2>1, <2>2
<1>9. CASE w \in UsersOf(E)
  <2>1. w \in Range(first) \/ ~(Len(first) < Limit)
    BY <1>7, <1>9, AnalysisAssumption DEF FirstOK
  <2>2. new = first /\ UsersOf(D) = UsersOf(E)
    BY <1>1, <1>2, <1>9, <2>1
  <2> HIDE DEF new, first
  <2>3. \A t \in Range(first) : \A s \in UsersOf(D) \ Range(first) : Before(D, t, s)
    BY <1>6, <1>7, <2>2 DEF FirstOK, first
  <2>4. FirstOK(first, D)
    BY <1>8, <2>2, <2>3 DEF FirstOK, first
  <2> QED BY <2>2, <2>4 DEF first, new
<1>10. CASE w \notin UsersOf(E)
  <2>1. w \notin Range(first)
    BY <1>7, <1>10
  <2>2. FirstTime(D, w) = e.time
    <3>1. By(D, w) = {e}
      BY <1>10 DEF By, UsersOf
    <3>2. \E d \in By(D, w) : FirstTime(D, w) = d.time
      <4> HIDE DEF D
      <4> QED BY <1>2, FirstTimeIs DEF D
    <3> QED BY <3>1, <3>2
  <2>3. \A v \in UsersOf(E) : Before(D, v, w)
    <3> SUFFICES ASSUME NEW v \in UsersOf(E) PROVE Before(D, v, w)
      OBVIOUS
    <3>1. PICK d \in By(E, v) : FirstTime(E, v) = d.time
      BY <1>0, FirstTimeIs
    <3>2. d \in E /\ d.user = v /\ v # w
      BY <1>10, <3>1 DEF By
    <3>3. d.time < e.time \/ (d.time = e.time /\ v < w)
      BY <1>3, <1>4, <3>2
    <3> QED BY <1>5, <2>2, <3>1, <3>3 DEF Before
  <2>4. CASE Len(first) < Limit
    <3>1. new = Append(first, w)
      BY <1>1, <2>1, <2>4
    <3>2. Range(first) = UsersOf(E)
      BY <1>7, <2>4, AnalysisAssumption DEF FirstOK
    <3>3. /\ new \in Seq(UsersOf(D)) /\ Len(new) = Len(first) + 1
          /\ \A i \in 1..Len(first) : new[i] = first[i]
          /\ new[Len(first) + 1] = w
      BY <1>2, <1>7, <1>8, <3>1
    <3> HIDE DEF new, first
    <3>4. Range(new) = {new[i] : i \in 1..Len(new)}
      BY <3>3, RangeIs
    <3>5. Range(new) = Range(first) \cup {w}
      <4>1. \A i \in 1..Len(new) : i \in 1..Len(first) \/ i = Len(first) + 1
        BY <1>7, <3>3
      <4>2. 1..Len(first) \subseteq 1..Len(new) /\ Len(first) + 1 \in 1..Len(new)
        BY <1>7, <3>3
      <4>3. Range(new) \subseteq Range(first) \cup {w}
        <5> SUFFICES ASSUME NEW i \in 1..Len(new) PROVE new[i] \in Range(first) \cup {w}
          BY <3>4
        <5>1. CASE i \in 1..Len(first)
          <6>1. new[i] = first[i] /\ first[i] \in Range(first)
            BY <1>7, <3>3, <5>1
          <6> QED BY <6>1
        <5>2. CASE i = Len(first) + 1
          BY <3>3, <5>2
        <5> QED BY <4>1, <5>1, <5>2
      <4>4. \A i \in 1..Len(first) : first[i] \in Range(new)
        BY <3>3, <3>4, <4>2
      <4>5. w \in Range(new)
        <5>1. \A i \in 1..Len(new) : new[i] \in Range(new)
          BY <3>4
        <5>2. new[Len(first) + 1] \in Range(new)
          BY <4>2, <5>1
        <5> QED BY <3>3, <5>2
      <4> QED BY <1>7, <4>3, <4>4, <4>5
    <3>6. Distinct(new)
      <4> SUFFICES ASSUME NEW i \in 1..Len(new), NEW j \in 1..Len(new), new[i] = new[j] PROVE i = j
        BY DEF Distinct
      <4>1. i \in 1..Len(first) \/ i = Len(first) + 1
        BY <1>7, <3>3
      <4>2. j \in 1..Len(first) \/ j = Len(first) + 1
        BY <1>7, <3>3
      <4>3. \A k \in 1..Len(first) : first[k] # w
        BY <1>7, <2>1
      <4>4. Distinct(first)
        BY DEF FirstOK, first
      <4> QED BY <3>3, <4>1, <4>2, <4>3, <4>4 DEF Distinct
    <3>7. Len(new) <= Limit
      BY <1>7, <2>4, <3>3, AnalysisAssumption
    <3>8. Range(new) = UsersOf(D)
      BY <1>2, <3>2, <3>5
    <3>9. FirstOK(new, D)
      BY <3>3, <3>6, <3>7, <3>8 DEF FirstOK
    <3> QED BY <3>5, <3>9 DEF new, first
  <2>5. CASE ~(Len(first) < Limit)
    <3>1. new = first /\ Len(first) = Limit
      BY <1>1, <1>7, <2>5, AnalysisAssumption DEF FirstOK
    <3> HIDE DEF new, first
    <3>2. \A t \in Range(first) : \A s \in UsersOf(D) \ Range(first) : Before(D, t, s)
      BY <1>2, <1>6, <1>7, <2>3 DEF FirstOK, first
    <3>3. FirstOK(first, D)
      BY <1>8, <3>1, <3>2 DEF FirstOK, first
    <3> QED BY <3>1, <3>3 DEF new, first
  <2> QED BY <2>4, <2>5
<1> QED BY <1>9, <1>10

-----------------------------------------------------------------------------
(* The buys and what is kept of them *)

BuyRecords(E) == {Buy(e) : e \in E}

(* buys lists the buys of E in order, each once; evs has their events. *)
IsBuyList(buys, evs, E) ==
    /\ evs \in Seq(E) /\ Distinct(evs) /\ Range(evs) = E
    /\ buys \in Seq(BuyRecords(E)) /\ Len(buys) = Len(evs)
    /\ \A i \in 1..Len(evs) : buys[i] = Buy(evs[i])
    /\ InOrder(buys, "wallet")

BookOK(bk, E) ==
    /\ \E evs : IsBuyList(bk.buys, evs, E)
    /\ EvidenceOK(bk.evidence, E) /\ FirstOK(bk.first, E)
    /\ IsTop(bk.top, bk.evidence, DOMAIN bk.evidence)

(* Buys have times and wallets. *)
LEMMA BuysKeyed ==
    ASSUME NEW f, NEW E, BuysOK(E, f) PROVE Keyed(BuyRecords(E), "wallet")
<1> SUFFICES ASSUME NEW e \in E PROVE Buy(e).time \in Int /\ Buy(e)["wallet"] \in Int
  BY DEF Keyed, BuyRecords
<1>1. e.user \in Nat \ {0} /\ e.time \in Int /\ Buy(e).time = e.time /\ Buy(e).wallet = e.user
  BY BuyTypes
<1> QED BY <1>1

(* Nothing is known of no buys. *)
LEMMA NoBuysOK ==
    /\ BookOK(NoBook, {}) /\ EvidenceOK(NoBuyers.evidence, {}) /\ FirstOK(NoBuyers.first, {})
<1>1. UsersOf({}) = {} /\ DOMAIN <<>> = {} /\ Range(<<>>) = {} /\ Len(<<>>) = 0
  BY DEF UsersOf, Range
<1>2. EvidenceOK(<<>>, {})
  BY <1>1 DEF EvidenceOK
<1>3. <<>> \in Seq({})
  OBVIOUS
<1>4. FirstOK(<<>>, {})
  <2>1. Len(<<>>) <= Limit
    BY AnalysisAssumption
  <2>2. Distinct(<<>>)
    BY DEF Distinct
  <2> QED BY <1>1, <1>3, <2>1, <2>2 DEF FirstOK
<1>5. IsTop(<<>>, <<>>, {})
  BY <1>1, <1>3, AnalysisAssumption DEF IsTop
<1>6. IsBuyList(<<>>, <<>>, {})
  <2>1. <<>> \in Seq(BuyRecords({}))
    OBVIOUS
  <2> QED BY <1>1, <1>3, <2>1 DEF IsBuyList, Distinct, InOrder
<1> QED BY <1>1, <1>2, <1>4, <1>5, <1>6 DEF BookOK, NoBook, NoBuyers

(* _rebuild_buyer_state gives what the buys say. *)
LEMMA RebuildIs ==
    ASSUME NEW f, NEW E, BuysOK(E, f), NEW buys, NEW evs, IsBuyList(buys, evs, E)
    PROVE  EvidenceOK(Rebuild(buys).evidence, E) /\ FirstOK(Rebuild(buys).first, E)
<1> DEFINE n == Len(evs)
           P(i) == {evs[j] : j \in 1..i}
<1>1. /\ evs \in Seq(E) /\ n \in Nat /\ Len(buys) = n /\ buys \in Seq(BuyRecords(E))
      /\ \A i \in 1..n : evs[i] \in E
      /\ \A i \in 1..n : buys[i] = Buy(evs[i])
      /\ Distinct(evs) /\ Range(evs) = E
  BY DEF IsBuyList
<1>2. P(n) = E
  <2>1. Range(evs) = {evs[i] : i \in 1..Len(evs)}
    BY <1>1, RangeIs
  <2> QED BY <1>1, <2>1
<1>3. PICK F : /\ Rebuild(buys) = F[Len(buys)] /\ F[0] = NoBuyers
               /\ \A i \in 1..Len(buys) : F[i] = AddBuy(F[i - 1], buys[i])
  BY <1>1, RebuildSteps
<1> DEFINE Q == {i \in Nat : i <= n => EvidenceOK(F[i].evidence, P(i)) /\ FirstOK(F[i].first, P(i))}
<1>4. 0 \in Q
  <2>1. P(0) = {}
    OBVIOUS
  <2> HIDE DEF P
  <2>2. EvidenceOK(F[0].evidence, P(0)) /\ FirstOK(F[0].first, P(0))
    BY <1>3, <2>1, NoBuysOK
  <2> QED BY <2>2
<1>5. ASSUME NEW i \in Q PROVE i + 1 \in Q
  <2> SUFFICES ASSUME i + 1 <= n
               PROVE  EvidenceOK(F[i + 1].evidence, P(i + 1)) /\ FirstOK(F[i + 1].first, P(i + 1))
    OBVIOUS
  <2> DEFINE e == evs[i + 1]
             D == P(i)
  <2>1. i \in Nat /\ i + 1 \in 1..n /\ 1..i \subseteq 1..n /\ (i + 1) - 1 = i
    BY <1>1
  <2>2. EvidenceOK(F[i].evidence, D) /\ FirstOK(F[i].first, D)
    <3> HIDE DEF P
    <3> QED BY <1>1, <2>1
  <2>3. P(i + 1) = D \cup {e}
    <3>1. 1..(i + 1) = (1..i) \cup {i + 1}
      BY <2>1
    <3> QED BY <3>1
  <2>4. e \notin D
    BY <1>1, <2>1 DEF Distinct
  <2>5. D \cup {e} \subseteq E
    BY <1>1, <2>1
  <2>6. BuysOK(D \cup {e}, f)
    BY <2>5 DEF BuysOK
  <2>7. After(D, e)
    <3> SUFFICES ASSUME NEW j \in 1..i PROVE NotAfter(Buy(evs[j]), Buy(e), "wallet")
      BY DEF After
    <3>1. j \in 1..n /\ j < i + 1
      BY <2>1
    <3>2. NotAfter(buys[j], buys[i + 1], "wallet")
      BY <1>1, <2>1, <3>1 DEF IsBuyList, InOrder
    <3> QED BY <1>1, <2>1, <3>1, <3>2
  <2>8. F[i + 1] = AddBuy(F[i], Buy(e))
    BY <1>1, <1>3, <2>1
  <2> HIDE DEF D, e, P
  <2> DEFINE st == F[i]
  <2>9. st = F[i]
    OBVIOUS
  <2> HIDE DEF st
  <2>10. EvidenceOK(AddBuy(st, Buy(e)).evidence, D \cup {e})
    BY <2>2, <2>4, <2>6, <2>9, AddEvidence
  <2>11. FirstOK(AddBuy(st, Buy(e)).first, D \cup {e})
    BY <2>2, <2>4, <2>6, <2>7, <2>9, AddFirst
  <2> QED BY <2>3, <2>8, <2>9, <2>10, <2>11
<1> HIDE DEF Q
<1>6. Q \in SUBSET Nat
  BY DEF Q
<1>7. Q = Nat
  BY <1>4, <1>5, <1>6, SetInduction
<1>8. EvidenceOK(F[n].evidence, P(n)) /\ FirstOK(F[n].first, P(n))
  <2> HIDE DEF P
  <2> QED BY <1>1, <1>7 DEF Q
<1> HIDE DEF P
<1> QED BY <1>1, <1>2, <1>3, <1>8

(* The list of buys with one more. *)
LEMMA InsertBuy ==
    ASSUME NEW f, NEW E, NEW e, e \notin E, BuysOK(E \cup {e}, f), NEW buys, NEW evs,
           IsBuyList(buys, evs, E)
    PROVE  \E more : IsBuyList(InsertOrdered(buys, Buy(e), "wallet"), more, E \cup {e})
<1> DEFINE D == E \cup {e}
           T == BuyRecords(D)
           b == Buy(e)
           t == InsertOrdered(buys, b, "wallet")
           k == Cardinality(Places(buys, b, "wallet"))
           n == Len(buys)
           more == [i \in 1..(n + 1) |-> IF i <= k THEN evs[i] ELSE IF i = k + 1 THEN e ELSE evs[i - 1]]
<1>1. /\ evs \in Seq(E) /\ n \in Nat /\ Len(evs) = n /\ buys \in Seq(BuyRecords(E))
      /\ \A i \in 1..n : evs[i] \in E
      /\ \A i \in 1..n : buys[i] = Buy(evs[i])
      /\ Distinct(evs) /\ Range(evs) = E /\ InOrder(buys, "wallet")
  BY DEF IsBuyList
<1>2. BuyRecords(E) \subseteq T /\ b \in T
  BY DEF BuyRecords
<1>3. buys \in Seq(T)
  <2>1. \A A, B : A \subseteq B /\ buys \in Seq(A) => buys \in Seq(B)
    OBVIOUS
  <2> QED BY <1>1, <1>2, <2>1
<1>4. Keyed(T, "wallet")
  BY BuysKeyed
<1>5. /\ k \in 0..n /\ t \in Seq(T) /\ Len(t) = n + 1
      /\ \A i \in 1..k : t[i] = buys[i]
      /\ t[k + 1] = b
      /\ \A i \in (k + 1)..n : t[i + 1] = buys[i]
  <2> HIDE DEF T, b
  <2> QED BY <1>2, <1>3, InsertOrderedIs
<1>6. InOrder(t, "wallet")
  <2> HIDE DEF T, b
  <2> QED BY <1>1, <1>2, <1>3, <1>4, InsertInOrder
<1> HIDE DEF k, t, n
<1>7. \A i \in 1..(n + 1) : \/ i \in 1..k /\ more[i] = evs[i] /\ i \in 1..n /\ t[i] = buys[i]
                            \/ i = k + 1 /\ more[i] = e /\ t[i] = b
                            \/ i - 1 \in (k + 1)..n /\ more[i] = evs[i - 1] /\ i - 1 \in 1..n
                               /\ t[i] = buys[i - 1]
  <2> SUFFICES ASSUME NEW i \in 1..(n + 1)
               PROVE  \/ i \in 1..k /\ more[i] = evs[i] /\ i \in 1..n /\ t[i] = buys[i]
                      \/ i = k + 1 /\ more[i] = e /\ t[i] = b
                      \/ i - 1 \in (k + 1)..n /\ more[i] = evs[i - 1] /\ i - 1 \in 1..n
                         /\ t[i] = buys[i - 1]
    OBVIOUS
  <2>1. CASE i <= k
    BY <1>1, <1>5, <2>1
  <2>2. CASE i = k + 1
    BY <1>1, <1>5, <2>2
  <2>3. CASE i > k + 1
    <3>1. i - 1 \in (k + 1)..n /\ i - 1 \in 1..n /\ (i - 1) + 1 = i
      BY <1>1, <1>5, <2>3
    <3>2. t[(i - 1) + 1] = buys[i - 1]
      BY <1>5, <3>1
    <3>3. more[i] = evs[i - 1]
      BY <1>1, <1>5, <2>3
    <3> QED BY <3>1, <3>2, <3>3
  <2> QED BY <1>1, <1>5, <2>1, <2>2, <2>3
<1>8. more \in [1..(n + 1) -> D]
  BY <1>1, <1>7
<1>9. more \in Seq(D) /\ Len(more) = n + 1
  <2> HIDE DEF more, D
  <2>1. n + 1 \in Nat
    BY <1>1
  <2> QED BY <1>8, <2>1
<1>10. \A i \in 1..(n + 1) : t[i] = Buy(more[i])
  BY <1>1, <1>7
<1>11. Distinct(more)
  <2> SUFFICES ASSUME NEW i \in 1..(n + 1), NEW j \in 1..(n + 1), more[i] = more[j] PROVE i = j
    BY <1>9 DEF Distinct
  <2> HIDE DEF more
  <2>1. \/ i \in 1..k /\ more[i] = evs[i] /\ i \in 1..n
        \/ i = k + 1 /\ more[i] = e
        \/ i - 1 \in (k + 1)..n /\ more[i] = evs[i - 1] /\ i - 1 \in 1..n
    BY <1>7
  <2>2. \/ j \in 1..k /\ more[j] = evs[j] /\ j \in 1..n
        \/ j = k + 1 /\ more[j] = e
        \/ j - 1 \in (k + 1)..n /\ more[j] = evs[j - 1] /\ j - 1 \in 1..n
    BY <1>7
  <2>3. \A x, y \in 1..n : evs[x] = evs[y] => x = y
    BY <1>1 DEF Distinct
  <2>4. \A x \in 1..n : evs[x] # e
    BY <1>1
  <2> QED BY <1>1, <1>5, <2>1, <2>2, <2>3, <2>4
<1>12. Range(more) = D
  <2>1. Range(more) = {more[i] : i \in 1..(n + 1)} /\ Range(more) \subseteq D
    <3> HIDE DEF more, D
    <3>1. Range(more) = {more[i] : i \in 1..Len(more)} /\ Range(more) \subseteq D
      BY <1>9, RangeIs
    <3> QED BY <1>9, <3>1
  <2>2. \A i \in 1..(n + 1) : more[i] \in Range(more)
    BY <2>1
  <2>3. e \in Range(more)
    <3>1. k + 1 \in 1..(n + 1) /\ more[k + 1] = e
      BY <1>1, <1>5
    <3> HIDE DEF more
    <3> QED BY <2>2, <3>1
  <2>4. \A x \in 1..n : evs[x] \in Range(more)
    <3> SUFFICES ASSUME NEW x \in 1..n PROVE evs[x] \in Range(more)
      OBVIOUS
    <3>1. CASE x <= k
      <4>1. x \in 1..(n + 1) /\ more[x] = evs[x]
        BY <1>1, <1>5, <3>1
      <4> HIDE DEF more
      <4> QED BY <2>2, <4>1
    <3>2. CASE ~(x <= k)
      <4>1. x + 1 \in 1..(n + 1) /\ more[x + 1] = evs[x]
        BY <1>1, <1>5, <3>2
      <4> HIDE DEF more
      <4> QED BY <2>2, <4>1
    <3> QED BY <3>1, <3>2
  <2>5. E = {evs[x] : x \in 1..n}
    BY <1>1, RangeIs
  <2> HIDE DEF more
  <2> QED BY <2>1, <2>3, <2>4, <2>5
<1>13. IsBuyList(t, more, D)
  <2> HIDE DEF more
  <2> QED BY <1>5, <1>6, <1>9, <1>10, <1>11, <1>12 DEF IsBuyList
<1> QED BY <1>13 DEF t

(* A buy that is not late is after all the others. *)
LEMMA NotLate ==
    ASSUME NEW f, NEW E, NEW e, BuysOK(E \cup {e}, f), NEW bk, NEW evs, IsBuyList(bk.buys, evs, E)
    PROVE  Late(bk, Buy(e)) \/ After(E, e)
<1> SUFFICES ASSUME ~Late(bk, Buy(e)), NEW d \in E PROVE NotAfter(Buy(d), Buy(e), "wallet")
  BY DEF After
<1> DEFINE buys == bk.buys
           n == Len(evs)
           T == BuyRecords(E \cup {e})
<1>1. /\ evs \in Seq(E) /\ n \in Nat /\ Len(buys) = n /\ buys \in Seq(BuyRecords(E))
      /\ \A i \in 1..n : buys[i] = Buy(evs[i])
      /\ Range(evs) = E /\ InOrder(buys, "wallet")
  BY DEF IsBuyList
<1>2. E = {evs[i] : i \in 1..n}
  BY <1>1, RangeIs
<1>3. PICK i \in 1..n : d = evs[i]
  BY <1>2
<1>4. n \in 1..n /\ buys # <<>>
  BY <1>1
<1>5. Last(buys) = buys[n]
  BY <1>1 DEF Last
<1>6. NotAfter(buys[n], Buy(e), "wallet")
  BY <1>4, <1>5 DEF Late
<1>7. CASE i = n
  BY <1>1, <1>3, <1>4, <1>6, <1>7
<1>8. CASE i < n
  <2>1. NotAfter(buys[i], buys[n], "wallet")
    BY <1>1, <1>4, <1>8 DEF InOrder
  <2>2. Keyed(T, "wallet") /\ buys[i] \in T /\ buys[n] \in T /\ Buy(e) \in T
    <3>1. Keyed(T, "wallet")
      BY BuysKeyed
    <3>2. evs[i] \in E /\ evs[n] \in E
      BY <1>1, <1>4
    <3> QED BY <1>1, <1>4, <3>1, <3>2 DEF BuyRecords
  <2> HIDE DEF T
  <2>3. NotAfter(buys[i], Buy(e), "wallet")
    BY <1>6, <2>1, <2>2, NotAfterTotal
  <2> QED BY <1>1, <1>3, <2>3
<1> QED BY <1>1, <1>7, <1>8

(* _observe_buyer keeps what the buys say. *)
LEMMA ObserveBook ==
    ASSUME NEW f, NEW E, NEW e, e \notin E, BuysOK(E \cup {e}, f), NEW bk, BookOK(bk, E)
    PROVE  LET new == ObserveBuyer(bk, Buy(e))
           IN  /\ BookOK(new, E \cup {e})
               /\ ~Late(bk, Buy(e)) =>
                     Range(new.first) \cup Range(new.top)
                         \subseteq Range(bk.first) \cup Range(bk.top) \cup {e.user}
<1> DEFINE D == E \cup {e}
           b == Buy(e)
           new == ObserveBuyer(bk, b)
           buys == InsertOrdered(bk.buys, b, "wallet")
<1>1. PICK evs : IsBuyList(bk.buys, evs, E)
  BY DEF BookOK
<1>2. PICK more : IsBuyList(buys, more, D)
  <2> DEFINE old == bk.buys
  <2>1. IsBuyList(old, evs, E)
    BY <1>1
  <2> HIDE DEF old
  <2>2. \E x : IsBuyList(InsertOrdered(old, Buy(e), "wallet"), x, E \cup {e})
    BY <2>1, InsertBuy
  <2> QED BY <2>2 DEF old
<1>3. new.buys = buys
  BY DEF ObserveBuyer
<1>4. b.wallet = e.user
  BY DEF Buy
<1>5. BuysOK(E, f)
  BY DEF BuysOK
<1>6. CASE Late(bk, b)
  <2> DEFINE next == Rebuild(buys)
  <2>1. new.evidence = next.evidence /\ new.first = next.first
        /\ new.top = Best(next.evidence, DOMAIN next.evidence)
    BY <1>6 DEF ObserveBuyer
  <2>2. EvidenceOK(next.evidence, D) /\ FirstOK(next.first, D)
    <3> HIDE DEF buys, D
    <3> QED BY <1>2, RebuildIs DEF D
  <2> DEFINE ev == next.evidence
             S == DOMAIN ev
  <2>3. Totals(ev, S)
    <3> HIDE DEF next, D
    <3> QED BY <2>2, EvidenceTotals DEF D
  <2>4. S = UsersOf(D) /\ IsFiniteSet(UsersOf(D))
    BY <2>2, BuyTypes DEF EvidenceOK
  <2>5. IsTop(Best(ev, S), ev, S)
    <3> HIDE DEF ev, S
    <3> QED BY <2>3, <2>4, BestIs DEF IsTop
  <2>6. BookOK(new, D)
    <3> HIDE DEF next, new, buys, D
    <3> QED BY <1>2, <1>3, <2>1, <2>2, <2>5 DEF BookOK
  <2> QED BY <1>6, <2>6
<1>7. CASE ~Late(bk, b)
  <2> DEFINE st == [evidence |-> bk.evidence, first |-> bk.first]
             next == AddBuy(st, b)
             ev == bk.evidence
             S == DOMAIN ev
             w == e.user
  <2>1. new.evidence = next.evidence /\ new.first = next.first
        /\ new.top = UpdateTopVolume(bk.top, next.evidence, w)
    BY <1>4, <1>7 DEF ObserveBuyer
  <2>2. After(E, e)
    BY <1>1, <1>7, NotLate
  <2>3. st.evidence = ev /\ st.first = bk.first
    OBVIOUS
  <2>4. EvidenceOK(ev, E) /\ FirstOK(bk.first, E) /\ IsTop(bk.top, ev, S)
    BY DEF BookOK
  <2> HIDE DEF st, D
  <2>5. /\ EvidenceOK(next.evidence, D)
        /\ \A v \in UsersOf(E) \ {w} : next.evidence[v] = ev[v]
        /\ w \in UsersOf(E) => next.evidence[w].total >= ev[w].total
    <3>1. EvidenceOK(st.evidence, E)
      BY <2>3, <2>4
    <3>2. /\ EvidenceOK(AddBuy(st, Buy(e)).evidence, E \cup {e})
          /\ \A v \in UsersOf(E) \ {e.user} : AddBuy(st, Buy(e)).evidence[v] = st.evidence[v]
          /\ e.user \in UsersOf(E) =>
                AddBuy(st, Buy(e)).evidence[e.user].total >= st.evidence[e.user].total
      BY <3>1, AddEvidence
    <3> QED BY <2>3, <3>2 DEF D
  <2>6. FirstOK(next.first, D) /\ Range(next.first) \subseteq Range(bk.first) \cup {w}
    BY <2>2, <2>3, <2>4, AddFirst DEF D
  <2>7. S = UsersOf(E) /\ DOMAIN next.evidence = S \cup {w} /\ IsFiniteSet(S)
    <3>1. S = UsersOf(E) /\ DOMAIN next.evidence = UsersOf(D)
      BY <2>4, <2>5 DEF EvidenceOK
    <3>2. UsersOf(D) = UsersOf(E) \cup {w}
      BY DEF UsersOf, D
    <3>3. IsFiniteSet(UsersOf(E))
      BY <1>5, BuyTypes
    <3> QED BY <3>1, <3>2, <3>3
  <2>8. Totals(ev, S)
    BY <1>5, <2>4, EvidenceTotals
  <2>9. Totals(next.evidence, S \cup {w})
    <3>1. BuysOK(D, f)
      BY DEF D
    <3> HIDE DEF next
    <3>2. Totals(next.evidence, DOMAIN next.evidence)
      BY <2>5, <3>1, EvidenceTotals
    <3> QED BY <2>7, <3>2
  <2> DEFINE nev == next.evidence
             top == UpdateTopVolume(bk.top, nev, w)
  <2>10. IsTop(top, nev, S \cup {w}) /\ Range(top) \subseteq Range(bk.top) \cup {w}
    <3>1. \A v \in S \ {w} : nev[v] = ev[v]
      BY <2>5, <2>7
    <3>2. (w \in S => nev[w].total >= ev[w].total) /\ Totals(nev, S \cup {w})
      BY <2>5, <2>7, <2>9
    <3> DEFINE was == bk.top
    <3>3. IsTop(was, ev, S) /\ top = UpdateTopVolume(was, nev, w) /\ Range(was) = Range(bk.top)
      BY <2>4
    <3> HIDE DEF nev, ev, S, w, was, top
    <3>4. /\ IsTop(UpdateTopVolume(was, nev, w), nev, S \cup {w})
          /\ Range(UpdateTopVolume(was, nev, w)) \subseteq Range(was) \cup {w}
      BY <2>7, <2>8, <3>1, <3>2, <3>3, UpdateTopIs
    <3> QED BY <3>3, <3>4
  <2>11. BookOK(new, D)
    <3> HIDE DEF new, next, buys, top
    <3> QED BY <1>2, <1>3, <2>1, <2>5, <2>6, <2>7, <2>10 DEF BookOK, D, top
  <2> QED BY <2>1, <2>6, <2>10, <2>11 DEF D
<1> QED BY <1>6, <1>7

-----------------------------------------------------------------------------
(* The wallets that are compared *)

BuysIn(A) == {e \in A : IsBuy(e)}

PairsOK(rs) == \A p \in DOMAIN rs : \E a, b \in Wallets : a # b /\ p = {a, b}

AnalysisOK(m) == BookOK(m.book, BuysIn(m.applied)) /\ PairsOK(m.relations)

(* A list of buys is about wallets. *)
LEMMA RebuildWallets ==
    ASSUME NEW S, \A b \in S : b.wallet \in Wallets /\ b.wallet \in Int /\ b.amount \in Int,
           NEW buys \in Seq(S)
    PROVE  LET st == Rebuild(buys)
           IN  /\ st.first \in Seq(Wallets) /\ DOMAIN st.evidence \subseteq Wallets
               /\ Totals(st.evidence, DOMAIN st.evidence)
<1> DEFINE n == Len(buys)
           OK(st) == /\ st.first \in Seq(Wallets) /\ DOMAIN st.evidence \subseteq Wallets
                     /\ Totals(st.evidence, DOMAIN st.evidence)
<1>1. n \in Nat /\ \A i \in 1..n : buys[i] \in S
  OBVIOUS
<1>2. PICK F : /\ Rebuild(buys) = F[Len(buys)] /\ F[0] = NoBuyers
               /\ \A i \in 1..Len(buys) : F[i] = AddBuy(F[i - 1], buys[i])
  BY RebuildSteps
<1>3. ASSUME NEW st, OK(st), NEW b \in S PROVE OK(AddBuy(st, b))
  <2> DEFINE w == b.wallet
             ev == st.evidence
             old == IF w \in DOMAIN ev THEN ev[w] ELSE NoEvidence
             new == AddBuy(st, b)
  <2>1. w \in Wallets /\ w \in Int /\ b.amount \in Int
    OBVIOUS
  <2>2. new.evidence = Put(ev, w, Accumulate(old, b))
    BY DEF AddBuy
  <2>3. new.first \in {st.first, Append(st.first, w)}
    BY DEF AddBuy
  <2>4. new.first \in Seq(Wallets)
    <3> DEFINE s == st.first
    <3>1. s \in Seq(Wallets) /\ new.first \in {s, Append(s, w)}
      BY <1>3, <2>3
    <3>2. \A x \in Wallets : Append(s, x) \in Seq(Wallets)
      <4> HIDE DEF s
      <4> QED BY <3>1
    <3> HIDE DEF s, new, w
    <3>3. Append(s, w) \in Seq(Wallets)
      BY <2>1, <3>2
    <3> QED BY <3>1, <3>3
  <2>5. DOMAIN new.evidence = DOMAIN ev \cup {w} /\ new.evidence[w] = Accumulate(old, b)
        /\ \A v \in DOMAIN ev \ {w} : new.evidence[v] = ev[v]
    <3> HIDE DEF new, old
    <3> QED BY <2>2 DEF Put
  <2>6. old.total \in Int
    BY <1>3 DEF NoEvidence, Totals
  <2>7. Accumulate(old, b).total \in Int
    <3> HIDE DEF old
    <3> QED BY <2>1, <2>6 DEF Accumulate
  <2> HIDE DEF new, old
  <2>8. Totals(new.evidence, DOMAIN new.evidence)
    <3> SUFFICES ASSUME NEW v \in DOMAIN ev \cup {w} PROVE v \in Int /\ new.evidence[v].total \in Int
      BY <2>5 DEF Totals
    <3>1. CASE v = w
      BY <2>1, <2>5, <2>7, <3>1
    <3>2. CASE v # w
      BY <1>3, <2>5, <3>2 DEF Totals
    <3> QED BY <3>1, <3>2
  <2> QED BY <1>3, <2>1, <2>4, <2>5, <2>8 DEF new
<1>4. OK(NoBuyers)
  BY DEF NoBuyers, Totals
<1> HIDE DEF OK
<1> DEFINE Q == {i \in Nat : i <= n => OK(F[i])}
<1>5. 0 \in Q
  BY <1>2, <1>4
<1>6. ASSUME NEW i \in Q PROVE i + 1 \in Q
  <2> SUFFICES ASSUME i + 1 <= n PROVE OK(F[i + 1])
    OBVIOUS
  <2>1. OK(F[i]) /\ i + 1 \in 1..n /\ (i + 1) - 1 = i
    BY <1>1
  <2>2. F[i + 1] = AddBuy(F[i], buys[i + 1])
    BY <1>2, <2>1
  <2> QED BY <1>1, <1>3, <2>1, <2>2
<1> HIDE DEF Q
<1>7. Q \in SUBSET Nat
  BY DEF Q
<1>8. Q = Nat
  BY <1>5, <1>6, <1>7, SetInduction
<1>9. OK(F[n])
  BY <1>1, <1>8 DEF Q
<1> QED BY <1>2, <1>9 DEF OK

(* The wallets a buy is compared with are wallets. *)
LEMMA ScopeIsWallets ==
    ASSUME NEW f, NEW E, BuysOK(E, f), NEW old, NEW new, BookOK(new, E), NEW b
    PROVE  RelationState(old, new, b).scope \subseteq Wallets
<1>0. UsersOf(E) \subseteq Wallets
  BY BuyTypes
<1>1. CASE ~Late(old, b)
  <2>1. RelationState(old, new, b).scope = Range(new.first) \cup Range(new.top)
    BY <1>1 DEF RelationState
  <2>2. Range(new.first) \subseteq UsersOf(E)
    BY RangeIs DEF BookOK, FirstOK
  <2>3. Range(new.top) \subseteq UsersOf(E)
    BY DEF BookOK, IsTop, EvidenceOK
  <2> QED BY <1>0, <2>1, <2>2, <2>3
<1>2. CASE Late(old, b)
  <2> DEFINE X == {x \in Range(new.buys) : x.time <= b.time}
             buys == Only(new.buys, X)
             past == Rebuild(buys)
             ev == past.evidence
             S == BuyRecords(E)
  <2>1. RelationState(old, new, b).scope = Range(past.first) \cup Range(Best(ev, DOMAIN ev))
    BY <1>2 DEF RelationState
  <2>2. new.buys \in Seq(S)
    BY DEF BookOK, IsBuyList
  <2>3. buys \in Seq(S)
    <3> DEFINE s == new.buys
    <3>1. s \in Seq(S)
      BY <2>2
    <3> HIDE DEF s, X, S
    <3>2. Only(s, X) \in Seq(S)
      BY <3>1, OnlyIs
    <3> QED BY <3>2 DEF s
  <2>4. \A x \in S : x.wallet \in Wallets /\ x.wallet \in Int /\ x.amount \in Int
    <3> SUFFICES ASSUME NEW e \in E
                 PROVE  Buy(e).wallet \in Wallets /\ Buy(e).wallet \in Int /\ Buy(e).amount \in Int
      BY DEF BuyRecords
    <3>1. e.user \in Nat \ {0} /\ e.user \in Wallets /\ AmountOf(e) \in Nat /\ Buy(e).wallet = e.user
      BY BuyTypes
    <3> QED BY <3>1 DEF AmountOf
  <2>5. past.first \in Seq(Wallets) /\ DOMAIN ev \subseteq Wallets /\ Totals(ev, DOMAIN ev)
    <3> HIDE DEF buys, S
    <3> QED BY <2>3, <2>4, RebuildWallets
  <2>6. IsFiniteSet(DOMAIN ev)
    BY <2>5, WalletsAssumption, FS_Subset
  <2> HIDE DEF past, ev
  <2>7. Range(Best(ev, DOMAIN ev)) \subseteq DOMAIN ev
    BY <2>5, <2>6, BestIs
  <2>8. Range(past.first) \subseteq Wallets
    BY <2>5, RangeIs
  <2> QED BY <2>1, <2>5, <2>7, <2>8 DEF ev
<1> QED BY <1>1, <1>2

(* _recompute_relations relates two different wallets. *)
LEMMA RecomputePairs ==
    ASSUME NEW rs, PairsOK(rs), NEW fs, NEW w, NEW st, st.scope \subseteq Wallets
    PROVE  PairsOK(RecomputeRelations(rs, fs, w, st))
<1> DEFINE pairs == IF w \in st.scope THEN {{w, o} : o \in st.scope \ {w}} ELSE {}
           new == RecomputeRelations(rs, fs, w, st)
<1>1. DOMAIN new \subseteq DOMAIN rs \cup pairs
  BY DEF RecomputeRelations
<1>2. \A p \in pairs : \E a, b \in Wallets : a # b /\ p = {a, b}
  OBVIOUS
<1> HIDE DEF pairs, new
<1>3. PairsOK(new)
  BY <1>1, <1>2 DEF PairsOK
<1> QED BY <1>3 DEF new

(* An event keeps what the analyzer knows of the buyers. *)
LEMMA ApplyAnalysisOK ==
    ASSUME NEW f \in Feeds, NEW m, Shaped(m), m.applied \subseteq f, AnalysisOK(m),
           NEW e \in f, e \notin m.applied, NEW price, NEW live
    PROVE  AnalysisOK(ApplyEvent(m, e, price, live))
<1> DEFINE n == ApplyEvent(m, e, price, live)
           E == BuysIn(m.applied)
           D == BuysIn(n.applied)
<1>1. n.book = BookAfter(m, e) /\ n.relations = RelationsAfter(m, e) /\ n.applied = m.applied \cup {e}
  BY ApplyFields
<1> HIDE DEF n
<1>2. BuysOK(D, f) /\ BuysOK(E, f)
  BY <1>1 DEF BuysOK, BuysIn
<1>3. CASE ~IsBuy(e)
  <2>1. D = E
    BY <1>1, <1>3 DEF BuysIn
  <2> HIDE DEF D, E
  <2>2. n.book = m.book /\ n.relations = m.relations
    BY <1>1, <1>3 DEF BookAfter, RelationsAfter
  <2> QED BY <2>1, <2>2 DEF AnalysisOK, D, E, n
<1>4. CASE IsBuy(e)
  <2>1. D = E \cup {e} /\ e \notin E
    BY <1>1, <1>4 DEF BuysIn
  <2> DEFINE bk == m.book
             new == ObserveBuyer(bk, Buy(e))
             st == RelationState(bk, new, Buy(e))
  <2>2. n.book = new
    BY <1>1, <1>4 DEF BookAfter
  <2>3. n.relations = RecomputeRelations(m.relations, FunderAfter(m, e), e.user, st)
    BY <1>1, <1>4 DEF RelationsAfter, BookAfter
  <2>4. BookOK(bk, E) /\ PairsOK(m.relations)
    BY DEF AnalysisOK
  <2> HIDE DEF D, E, bk
  <2>5. BookOK(new, D)
    <3>1. BuysOK(E \cup {e}, f)
      BY <1>2, <2>1
    <3>2. BookOK(ObserveBuyer(bk, Buy(e)), E \cup {e})
      BY <2>1, <2>4, <3>1, ObserveBook
    <3> QED BY <2>1, <3>2
  <2> HIDE DEF new
  <2>6. st.scope \subseteq Wallets
    BY <1>2, <2>5, ScopeIsWallets
  <2> DEFINE rs == m.relations
             fs == FunderAfter(m, e)
             w == e.user
  <2>7. PairsOK(rs) /\ n.relations = RecomputeRelations(rs, fs, w, st)
    BY <2>3, <2>4
  <2> HIDE DEF st, rs, fs, w
  <2>8. PairsOK(n.relations)
    BY <2>6, <2>7, RecomputePairs
  <2> QED BY <2>2, <2>5, <2>8 DEF AnalysisOK, D, n
<1> QED BY <1>3, <1>4

-----------------------------------------------------------------------------
(* The memory as a whole: what every event, live or read again, keeps. *)

MemoryOK(m, f) ==
    /\ Shaped(m) /\ m.applied \subseteq f
    /\ PoolOK(m.pool, f) /\ TradesOK(m) /\ LiquidityOK(m) /\ AnalysisOK(m)

(* An event that was not applied before keeps the memory as it should be. *)
LEMMA ApplyOK ==
    ASSUME NEW f \in Feeds, NEW m, MemoryOK(m, f), NEW e \in f, e \notin m.applied,
           NEW price \in Nat, NEW live
    PROVE  MemoryOK(ApplyEvent(m, e, price, live), f)
<1> DEFINE n == ApplyEvent(m, e, price, live)
<1>1. /\ Shaped(m) /\ m.applied \subseteq f /\ PoolOK(m.pool, f)
      /\ TradesOK(m) /\ LiquidityOK(m) /\ AnalysisOK(m)
  BY DEF MemoryOK
<1>2. Shaped(n)
  BY <1>1, ApplyShaped
<1>3. n.applied \subseteq f /\ n.pool = PoolAfter(m, e, price)
  BY <1>1, ApplyFields
<1>4. PoolOK(n.pool, f)
  BY <1>1, <1>3, ApplyPoolOK
<1>5. TradesOK(n)
  BY <1>1, ApplyTradesOK
<1>6. LiquidityOK(n)
  BY <1>1, ApplyLiquidityOK
<1>7. AnalysisOK(n)
  BY <1>1, ApplyAnalysisOK
<1> HIDE DEF n
<1>8. MemoryOK(n, f)
  BY <1>2, <1>3, <1>4, <1>5, <1>6, <1>7 DEF MemoryOK
<1> QED BY <1>8 DEF n

(* Reading distinct events again gives a memory as it should be. *)
LEMMA RehydratedOK ==
    ASSUME NEW f \in Feeds, NEW s \in Seq(f), Distinct(s), NEW m, MemoryOK(m, f), m.applied = {}
    PROVE  MemoryOK(Rehydrated(m, s), f) /\ Rehydrated(m, s).applied \subseteq Range(s)
<1>1. PICK F : /\ Rehydrated(m, s) = F[Len(s)] /\ F[0] = m
               /\ \A i \in 1..Len(s) : F[i] = Rehydrate(F[i - 1], s[i])
  BY RehydratedSteps
<1> DEFINE Good(n) == MemoryOK(F[n], f) /\ F[n].applied \subseteq {s[i] : i \in 1..n}
           Q == {n \in Nat : n <= Len(s) => Good(n)}
<1>2. 0 \in Q
  BY <1>1
<1>3. ASSUME NEW n \in Q PROVE n + 1 \in Q
  <2>1. SUFFICES ASSUME n + 1 <= Len(s) PROVE Good(n + 1)
    BY <1>3 DEF Q
  <2> DEFINE e == s[n + 1]
             u == F[n]
  <2>2. n \in Nat /\ n + 1 \in 1..Len(s) /\ (n + 1) - 1 = n /\ Good(n) /\ e \in f
    BY <1>3, <2>1
  <2>3. F[n + 1] = Rehydrate(u, e)
    BY <1>1, <2>2
  <2>4. e \notin u.applied
    <3>1. \A i \in 1..n : i \in 1..Len(s) /\ i # n + 1
      BY <2>2
    <3>2. e \notin {s[i] : i \in 1..n}
      BY <2>2, <3>1 DEF Distinct
    <3> QED BY <2>2, <3>2
  <2>5. {s[i] : i \in 1..(n + 1)} = {s[i] : i \in 1..n} \cup {e}
    <3>1. \A i \in 1..(n + 1) : i \in 1..n \/ i = n + 1
      BY <2>2
    <3>2. \A i \in 1..n : i \in 1..(n + 1)
      BY <2>2
    <3>3. n + 1 \in 1..(n + 1)
      BY <2>2
    <3> QED BY <3>1, <3>2, <3>3
  <2> HIDE DEF e, u
  <2>6. MemoryOK(u, f) /\ Shaped(u) /\ u.applied \subseteq {s[i] : i \in 1..n}
    BY <2>2 DEF u, MemoryOK
  <2>7. CASE Filtered(u.pool, e)
    BY <2>3, <2>5, <2>6, <2>7 DEF Rehydrate
  <2>8. CASE ~Filtered(u.pool, e)
    <3>1. F[n + 1] = ApplyEvent(u, e, 0, FALSE)
      BY <2>3, <2>8 DEF Rehydrate
    <3>2. MemoryOK(ApplyEvent(u, e, 0, FALSE), f)
      BY <2>2, <2>4, <2>6, ApplyOK
    <3>3. ApplyEvent(u, e, 0, FALSE).applied = u.applied \cup {e}
      <4>1. PICK live : live = FALSE
        OBVIOUS
      <4>2. ApplyEvent(u, e, 0, live).applied = u.applied \cup {e}
        BY <2>6, ApplyFields
      <4> QED BY <4>1, <4>2
    <3> QED BY <2>5, <2>6, <3>1, <3>2, <3>3
  <2> QED BY <2>7, <2>8
<1>4. Q \in SUBSET Nat
  OBVIOUS
<1> HIDE DEF Q
<1>5. Q = Nat
  BY <1>2, <1>3, <1>4, SetInduction
<1>6. Len(s) \in Nat /\ Len(s) \in Q
  BY <1>5
<1>7. Good(Len(s))
  BY <1>6 DEF Q
<1>8. Range(s) = {s[i] : i \in 1..Len(s)}
  BY RangeIs
<1> QED BY <1>1, <1>7, <1>8

(* Two lists of distinct events that share none make one. *)
LEMMA ConcatDistinct ==
    ASSUME NEW T, NEW s \in Seq(T), NEW t \in Seq(T), Distinct(s), Distinct(t),
           Range(s) \cap Range(t) = {}
    PROVE  Distinct(s \o t) /\ s \o t \in Seq(T) /\ Range(s \o t) = Range(s) \cup Range(t)
<1> DEFINE u == s \o t
<1>1. /\ u \in Seq(T) /\ Len(u) = Len(s) + Len(t) /\ Len(s) \in Nat /\ Len(t) \in Nat
      /\ \A i \in 1..Len(s) : u[i] = s[i]
      /\ \A i \in (Len(s) + 1)..Len(u) : u[i] = t[i - Len(s)]
  OBVIOUS
<1> HIDE DEF u
<1>2. \A i \in 1..Len(u) : \/ i \in 1..Len(s)
                           \/ i \in (Len(s) + 1)..Len(u) /\ i - Len(s) \in 1..Len(t)
  BY <1>1
<1>3. /\ Range(s) = {s[i] : i \in 1..Len(s)} /\ Range(t) = {t[i] : i \in 1..Len(t)}
      /\ Range(u) = {u[i] : i \in 1..Len(u)}
  BY <1>1, RangeIs
<1>4. ASSUME NEW i \in 1..Len(u), NEW j \in 1..Len(u), u[i] = u[j] PROVE i = j
  <2>1. CASE i \in 1..Len(s) /\ j \in 1..Len(s)
    BY <1>1, <1>4, <2>1 DEF Distinct
  <2>2. CASE i \notin 1..Len(s) /\ j \notin 1..Len(s)
    <3>1. i - Len(s) \in 1..Len(t) /\ j - Len(s) \in 1..Len(t)
          /\ u[i] = t[i - Len(s)] /\ u[j] = t[j - Len(s)]
      BY <1>1, <1>2, <2>2
    <3>2. i - Len(s) = j - Len(s)
      BY <1>4, <3>1 DEF Distinct
    <3> QED BY <1>1, <3>2
  <2>3. CASE i \in 1..Len(s) /\ j \notin 1..Len(s)
    <3>1. u[i] \in Range(s) /\ u[j] \in Range(t)
      BY <1>1, <1>2, <1>3, <2>3
    <3> QED BY <1>4, <3>1
  <2>4. CASE i \notin 1..Len(s) /\ j \in 1..Len(s)
    <3>1. u[j] \in Range(s) /\ u[i] \in Range(t)
      BY <1>1, <1>2, <1>3, <2>4
    <3> QED BY <1>4, <3>1
  <2> QED BY <2>1, <2>2, <2>3, <2>4
<1>5. Range(u) \subseteq Range(s) \cup Range(t)
  BY <1>1, <1>2, <1>3
<1>6. Range(s) \subseteq Range(u)
  <2>1. \A i \in 1..Len(s) : i \in 1..Len(u)
    BY <1>1
  <2> QED BY <1>1, <1>3, <2>1
<1>7. Range(t) \subseteq Range(u)
  <2>1. \A i \in 1..Len(t) : i + Len(s) \in (Len(s) + 1)..Len(u) /\ i + Len(s) \in 1..Len(u)
                             /\ (i + Len(s)) - Len(s) = i
    BY <1>1
  <2> QED BY <1>1, <1>3, <2>1
<1> QED BY <1>1, <1>4, <1>5, <1>6, <1>7 DEF Distinct, u

(* A restart reads distinct processed events. *)
LEMMA RecoveredDistinct ==
    ASSUME NEW T, processed \in Seq(T), Distinct(processed), NEW recent
    PROVE  /\ RecoveredEvents(recent) \in Seq(T) /\ Distinct(RecoveredEvents(recent))
           /\ Range(RecoveredEvents(recent)) \subseteq Range(processed)
<1> DEFINE created == {e \in Range(processed) : e.kind = "POOL_CREATED"}
           old == {e \in Range(processed) : ~recent /\ e.kind = "TOKEN_CREATED"}
           s == Only(processed, created)
           t == Only(processed, Range(processed) \ (created \cup old))
<1>1. RecoveredEvents(recent) = s \o t
  BY DEF RecoveredEvents
<1>2. s \in Seq(T) /\ Distinct(s) /\ Range(s) = Range(processed) \cap created
  BY OnlyDistinct
<1>3. /\ t \in Seq(T) /\ Distinct(t)
      /\ Range(t) = Range(processed) \cap (Range(processed) \ (created \cup old))
  BY OnlyDistinct
<1> HIDE DEF s, t
<1>4. Range(s) \cap Range(t) = {}
  BY <1>2, <1>3
<1>5. Distinct(s \o t) /\ s \o t \in Seq(T) /\ Range(s \o t) = Range(s) \cup Range(t)
  BY <1>2, <1>3, <1>4, ConcatDistinct
<1> QED BY <1>1, <1>2, <1>3, <1>5

-----------------------------------------------------------------------------
(* The states of the market *)

StateOK ==
    /\ feed \in Feeds /\ processed \in Seq(feed) /\ Distinct(processed) /\ usd \in Nat
    /\ MemoryOK(mem, feed) /\ mem.applied \subseteq Range(processed)

(* Every swap that was applied has a trade or could not be priced. *)
UnpricedOK ==
    /\ \A e \in mem.applied : e.kind \in Swaps => e.id \in unpriced \cup TradeIds(mem)
    /\ unpriced \cap TradeIds(mem) = {}
    /\ unpriced \subseteq {e.id : e \in Range(processed)}

(* The memory of a process that starts for the first time. *)
LEMMA BlankOK ==
    ASSUME NEW f \in Feeds
    PROVE  MemoryOK(Blank, f) /\ Blank.applied = {}
<1>1. Shaped(Blank)
  BY BlankShaped
<1>2. /\ Blank.applied = {} /\ Blank.pool = NoPool /\ Blank.feats.trades = <<>>
      /\ Blank.feats.liquidity = <<>>
  BY DEF Blank, NoFeatures
<1>3. Range(<<>>) = {} /\ IsList(<<>>) /\ InOrder(<<>>, "id")
  <2>1. Range(<<>>) = {}
    BY DEF Range
  <2> QED BY <2>1 DEF IsList, InOrder
<1>4. PoolOK(NoPool, f)
  BY DEF PoolOK, NoPool, None
<1>5. TradesOK(Blank)
  BY <1>2, <1>3 DEF TradesOK
<1>6. LiquidityOK(Blank)
  BY <1>2, <1>3 DEF LiquidityOK
<1>7. AnalysisOK(Blank)
  <2>1. Blank.book = NoBook /\ DOMAIN Blank.relations = {} /\ BuysIn({}) = {}
    BY DEF Blank, BuysIn
  <2> QED BY <1>2, <2>1, NoBuysOK DEF AnalysisOK, PairsOK
<1> QED BY <1>1, <1>2, <1>4, <1>5, <1>6, <1>7 DEF MemoryOK

(* The memory that a restart begins with. *)
LEMMA RestoredOK ==
    ASSUME NEW f \in Feeds, MemoryOK(mem, f)
    PROVE  MemoryOK(RestoredMemory, f) /\ RestoredMemory.applied = {}
<1>1. MemoryOK(Blank, f) /\ Blank.applied = {} /\ Shaped(RestoredMemory) /\ Shaped(Blank)
  BY BlankOK, BlankShaped
<1>2. /\ RestoredMemory.pool = Blank.pool /\ RestoredMemory.feats = Blank.feats
      /\ RestoredMemory.applied = Blank.applied
      /\ RestoredMemory.book = Blank.book /\ RestoredMemory.relations = mem.relations
  BY <1>1 DEF RestoredMemory, Shaped, MemFields
<1>3. AnalysisOK(RestoredMemory)
  BY <1>1, <1>2 DEF MemoryOK, AnalysisOK
<1> QED BY <1>1, <1>2, <1>3 DEF MemoryOK, TradesOK, LiquidityOK

(* The trades an event may add. *)
LEMMA TradeIdsGrow ==
    ASSUME NEW f \in Feeds, NEW m, MemoryOK(m, f), NEW e \in f, NEW price \in Nat, NEW live
    PROVE  LET n == ApplyEvent(m, e, price, live)
           IN  TradeIds(m) \subseteq TradeIds(n) /\ TradeIds(n) \subseteq TradeIds(m) \cup {e.id}
<1> DEFINE n == ApplyEvent(m, e, price, live)
           s == m.feats.trades
           t == n.feats.trades
<1>1. Shaped(m) /\ IsList(s)
  BY DEF MemoryOK, TradesOK
<1>2. n.feats = FeatsAfter(m, e, price, live)
  BY <1>1, ApplyFields
<1>3. t = s \/ \E o : o.id = e.id /\ t = InsertOrdered(s, o, "id")
  BY <1>1, <1>2, FeatsCases DEF TradeOf
<1>4. Range(t) = Range(s) \/ \E o : o.id = e.id /\ Range(t) = Range(s) \cup {o}
  <2>1. CASE t = s
    BY <2>1
  <2>2. CASE \E o : o.id = e.id /\ t = InsertOrdered(s, o, "id")
    <3>1. PICK o : o.id = e.id /\ t = InsertOrdered(s, o, "id")
      BY <2>2
    <3>2. Range(InsertOrdered(s, o, "id")) = Range(s) \cup {o}
      <4> HIDE DEF s
      <4> QED BY <1>1, InsertList
    <3> HIDE DEF s, t
    <3> QED BY <3>1, <3>2
  <2> QED BY <1>3, <2>1, <2>2
<1> HIDE DEF n
<1>5. TradeIds(m) \subseteq TradeIds(n) /\ TradeIds(n) \subseteq TradeIds(m) \cup {e.id}
  BY <1>4 DEF TradeIds
<1> QED BY <1>5 DEF n

(* An event of the feed. *)
LEMMA ProcessKeepsState ==
    ASSUME StateOK, UnpricedOK, NEW e, ProcessEvent(e)
    PROVE  StateOK' /\ UnpricedOK'
<1>1. /\ e \in feed \ Range(processed) /\ processed' = Append(processed, e)
      /\ mem' = IF Filtered(mem.pool, e) THEN mem ELSE ApplyEvent(mem, e, usd, TRUE)
      /\ unpriced' = IF e.kind \in Swaps /\ e \in mem'.applied /\ e.id \notin TradeIds(mem')
                     THEN unpriced \cup {e.id} ELSE unpriced
      /\ feed' = feed /\ usd' = usd
  BY DEF ProcessEvent
<1>2. /\ feed \in Feeds /\ processed \in Seq(feed) /\ Distinct(processed) /\ usd \in Nat
      /\ MemoryOK(mem, feed) /\ mem.applied \subseteq Range(processed) /\ Shaped(mem)
  BY DEF StateOK, MemoryOK
<1>3. /\ processed' \in Seq(feed) /\ Len(processed') = Len(processed) + 1
      /\ processed'[Len(processed) + 1] = e /\ Len(processed) \in Nat
      /\ \A i \in 1..Len(processed) : processed'[i] = processed[i]
  BY <1>1, <1>2
<1>4. Range(processed) = {processed[i] : i \in 1..Len(processed)}
      /\ Range(processed') = {processed'[i] : i \in 1..Len(processed')}
  BY <1>2, <1>3, RangeIs
<1>5. \A i \in 1..Len(processed') : i \in 1..Len(processed) \/ i = Len(processed) + 1
  BY <1>3
<1>6. Range(processed') = Range(processed) \cup {e}
  <2>1. \A i \in 1..Len(processed) : i \in 1..Len(processed')
    BY <1>3
  <2>2. Len(processed) + 1 \in 1..Len(processed')
    BY <1>3
  <2> QED BY <1>3, <1>4, <1>5, <2>1, <2>2
<1>7. Distinct(processed')
  <2>1. \A i \in 1..Len(processed) : processed[i] # e
    BY <1>1, <1>4
  <2> QED BY <1>2, <1>3, <1>5, <2>1 DEF Distinct
<1>8. PICK live : live = TRUE
  OBVIOUS
<1>9. mem' = IF Filtered(mem.pool, e) THEN mem ELSE ApplyEvent(mem, e, usd, live)
  BY <1>1, <1>8
<1>10. e \in feed /\ e \notin mem.applied
  BY <1>1, <1>2
<1>11. MemoryOK(mem', feed) /\ mem'.applied \in {mem.applied, mem.applied \cup {e}}
       /\ TradeIds(mem) \subseteq TradeIds(mem') /\ TradeIds(mem') \subseteq TradeIds(mem) \cup {e.id}
  <2>1. CASE Filtered(mem.pool, e)
    BY <1>2, <1>9, <2>1
  <2>2. CASE ~Filtered(mem.pool, e)
    <3>1. MemoryOK(ApplyEvent(mem, e, usd, live), feed)
      BY <1>2, <1>10, ApplyOK
    <3>2. ApplyEvent(mem, e, usd, live).applied = mem.applied \cup {e}
      BY <1>2, ApplyFields
    <3>3. TradeIds(mem) \subseteq TradeIds(ApplyEvent(mem, e, usd, live))
          /\ TradeIds(ApplyEvent(mem, e, usd, live)) \subseteq TradeIds(mem) \cup {e.id}
      BY <1>2, <1>10, TradeIdsGrow
    <3> QED BY <1>9, <2>2, <3>1, <3>2, <3>3
  <2> QED BY <2>1, <2>2
<1>12. StateOK'
  BY <1>1, <1>2, <1>3, <1>6, <1>7, <1>11 DEF StateOK
<1>13. e.id \notin unpriced
  <2>1. Range(processed) \subseteq feed
    BY <1>2, RangeIs
  <2>2. \A d \in Range(processed) : d.id # e.id
    BY <1>1, <1>2, <2>1, FeedsAssumption
  <2> QED BY <2>2 DEF UnpricedOK
<1>14. /\ \A d \in mem.applied : d.kind \in Swaps => d.id \in unpriced \cup TradeIds(mem)
       /\ unpriced \cap TradeIds(mem) = {}
       /\ unpriced \subseteq {d.id : d \in Range(processed)}
  BY DEF UnpricedOK
<1>15. UnpricedOK'
  <2>1. ASSUME NEW d \in mem'.applied, d.kind \in Swaps PROVE d.id \in unpriced' \cup TradeIds(mem')
    <3>1. CASE d \in mem.applied
      BY <1>1, <1>11, <1>14, <2>1, <3>1
    <3>2. CASE d = e
      BY <1>1, <2>1, <3>2
    <3> QED BY <1>11, <3>1, <3>2
  <2>2. unpriced' \cap TradeIds(mem') = {}
    BY <1>1, <1>11, <1>13, <1>14
  <2>3. unpriced' \subseteq {d.id : d \in Range(processed')}
    BY <1>1, <1>6, <1>14
  <2>4. TradeIds(mem)' = TradeIds(mem')
    BY DEF TradeIds
  <2> QED BY <2>1, <2>2, <2>3, <2>4 DEF UnpricedOK
<1> QED BY <1>12, <1>15

(* A restart. *)
LEMMA RestartKeepsState ==
    ASSUME StateOK, NEW recent, RestartMarket(recent)
    PROVE  StateOK' /\ UnpricedOK'
<1> DEFINE s == RecoveredEvents(recent)
<1>1. /\ mem' = Rehydrated(RestoredMemory, s) /\ usd' = 0 /\ feed' = feed /\ processed' = processed
      /\ unpriced' = {e.id : e \in {x \in mem'.applied : x.kind \in Swaps}} \ TradeIds(mem')
  BY DEF RestartMarket
<1>2. /\ feed \in Feeds /\ processed \in Seq(feed) /\ Distinct(processed) /\ MemoryOK(mem, feed)
  BY DEF StateOK
<1>3. s \in Seq(feed) /\ Distinct(s) /\ Range(s) \subseteq Range(processed)
  BY <1>2, RecoveredDistinct
<1>4. MemoryOK(RestoredMemory, feed) /\ RestoredMemory.applied = {}
  BY <1>2, RestoredOK
<1> HIDE DEF s
<1>5. MemoryOK(mem', feed) /\ mem'.applied \subseteq Range(s)
  BY <1>1, <1>2, <1>3, <1>4, RehydratedOK
<1>6. StateOK'
  BY <1>1, <1>2, <1>3, <1>5 DEF StateOK
<1>7. TradeIds(mem)' = TradeIds(mem')
  BY DEF TradeIds
<1>8. UnpricedOK'
  BY <1>1, <1>3, <1>5, <1>7 DEF UnpricedOK
<1> QED BY <1>6, <1>8

(* Nothing but the registry, or the pool and the observations, changes. *)
SameEvents(m, n) ==
    /\ n.applied = m.applied /\ n.feats.trades = m.feats.trades /\ n.book = m.book
    /\ n.relations = m.relations /\ n.funder = m.funder
    /\ n.pool.known = m.pool.known /\ n.pool.rev = m.pool.rev

(* The parts that only depend on the events. *)
LEMMA SameEventsKeep ==
    ASSUME NEW f, NEW m, NEW n, MemoryOK(m, f), Shaped(n), SameEvents(m, n), LiquidityOK(n),
           PoolOK(n.pool, f)
    PROVE  MemoryOK(n, f) /\ TradeIds(n) = TradeIds(m)
<1>1. \A o, e : TradeOf(o, e, n.pool) <=> TradeOf(o, e, m.pool)
  BY DEF TradeOf, TradeSide, SameEvents
<1>2. TradesOK(n)
  BY <1>1 DEF TradesOK, MemoryOK, SameEvents
<1>3. AnalysisOK(n)
  BY DEF AnalysisOK, MemoryOK, SameEvents
<1> QED BY <1>2, <1>3 DEF MemoryOK, SameEvents, TradeIds

(* apply_mint_state *)
LEMMA MintKeeps ==
    ASSUME NEW f, NEW m, MemoryOK(m, f), NEW supply
    PROVE  LET n == ApplyMintState(m, supply)
           IN  /\ MemoryOK(n, f) /\ SameEvents(m, n) /\ TradeIds(n) = TradeIds(m)
               /\ Token \notin DOMAIN m.tokens => n = m
               /\ Token \in DOMAIN m.tokens => Supplies(n) = {supply} \ {None}
<1> DEFINE n == ApplyMintState(m, supply)
<1>1. Shaped(m) /\ PoolOK(m.pool, f) /\ LiquidityOK(m)
  BY DEF MemoryOK
<1>2. CASE Token \notin DOMAIN m.tokens
  BY <1>2 DEF ApplyMintState, SameEvents
<1>3. CASE Token \in DOMAIN m.tokens
  <2> DEFINE t == [m.tokens EXCEPT ![Token] = [@ EXCEPT !.supply = supply]]
  <2>1. n = [m EXCEPT !.tokens = t]
    BY <1>3 DEF ApplyMintState
  <2>2. /\ DOMAIN t = DOMAIN m.tokens /\ \A x \in DOMAIN t : DOMAIN t[x] = TokenFields
        /\ t[Token].supply = supply
    BY <1>1, <1>3 DEF Shaped, TokenFields
  <2> HIDE DEF n, t
  <2>3. /\ DOMAIN n = MemFields /\ n.tokens = t /\ n.pool = m.pool /\ n.feats = m.feats
        /\ SameEvents(m, n)
    BY <1>1, <2>1 DEF Shaped, MemFields, SameEvents
  <2>4. Shaped(n)
    BY <1>1, <2>2, <2>3 DEF Shaped
  <2>5. LiquidityOK(n) /\ PoolOK(n.pool, f)
    BY <1>1, <2>3 DEF LiquidityOK
  <2>6. MemoryOK(n, f) /\ TradeIds(n) = TradeIds(m)
    BY <2>3, <2>4, <2>5, SameEventsKeep
  <2>7. Supplies(n) = {supply} \ {None}
    BY <1>3, <2>2, <2>3 DEF Supplies, TokenRecord
  <2> QED BY <1>3, <2>3, <2>6, <2>7 DEF n
<1> QED BY <1>2, <1>3

(* The memory that a pass leaves. *)
LEMMA JudgeKeeps ==
    ASSUME NEW f, NEW m, MemoryOK(m, f), NEW in, NEW h
    PROVE  LET n == IngestHolders(UpdatePoolSupply(m, in), h)
           IN  /\ MemoryOK(n, f) /\ SameEvents(m, n) /\ TradeIds(n) = TradeIds(m)
               /\ n.tokens = m.tokens
<1> DEFINE p == ApplyBaseSupply(m.pool, eval.supply)
           o == Liquidity(p, 1000 + eval.supply, in.mintAt)
           s == m.feats.liquidity
           t == IF \E x \in Range(s) : x.id = o.id THEN s ELSE InsertOrdered(s, o, "id")
           u == UpdatePoolSupply(m, in)
           n == IngestHolders(u, h)
<1>1. Shaped(m) /\ PoolOK(m.pool, f) /\ IsList(s) /\ \A x \in Range(s) : x.quote \in Nat
  BY DEF MemoryOK, LiquidityOK
<1>2. /\ DOMAIN p = PoolFields /\ p.known = m.pool.known /\ p.rev = m.pool.rev
      /\ p.usd = m.pool.usd /\ p.base = m.pool.base /\ p.quote = m.pool.quote
      /\ p.virtual = m.pool.virtual
  BY <1>1 DEF ApplyBaseSupply, Shaped, PoolFields
<1> HIDE DEF p
<1>3. PoolOK(p, f)
  BY <1>1, <1>2 DEF PoolOK
<1>4. o.quote \in Nat
  <2>1. o.quote = QuoteReserveUsd(p)
    BY DEF Liquidity
  <2> QED BY <1>3, <2>1, ReserveIsNat
<1>5. u = [m EXCEPT !.pool = p, !.feats = [@ EXCEPT !.liquidity = t]]
  BY DEF UpdatePoolSupply, p
<1> HIDE DEF o
<1>6. IsList(t) /\ \A x \in Range(t) : x.quote \in Nat
  <2>1. CASE t = s
    BY <1>1, <2>1
  <2>2. CASE t = InsertOrdered(s, o, "id")
    <3>1. IsList(InsertOrdered(s, o, "id")) /\ Range(InsertOrdered(s, o, "id")) = Range(s) \cup {o}
      <4> HIDE DEF s
      <4> QED BY <1>1, InsertList
    <3> QED BY <1>1, <1>4, <2>2, <3>1
  <2> QED BY <2>1, <2>2
<1> HIDE DEF t, u
<1>7. /\ DOMAIN u = MemFields /\ u.pool = p /\ DOMAIN u.feats = FeatFields
      /\ u.feats.liquidity = t /\ u.feats.trades = m.feats.trades /\ u.tokens = m.tokens
      /\ SameEvents(m, u)
  BY <1>1, <1>2, <1>5 DEF Shaped, MemFields, FeatFields, SameEvents
<1> DEFINE ho == [id |-> 2000 + eval.at, time |-> eval.at, top10 |-> h.top10,
                  devCluster |-> h.devCluster, related |-> h.related]
           hs == InsertOrdered(u.feats.holders, ho, "id")
<1>8. n = [u EXCEPT !.feats = [@ EXCEPT !.holders = hs]]
  BY <1>7 DEF IngestHolders, FeatFields, MemFields
<1> HIDE DEF n, hs
<1>9. /\ DOMAIN n = MemFields /\ n.pool = p /\ DOMAIN n.feats = FeatFields
      /\ n.feats.liquidity = t /\ n.feats.trades = m.feats.trades /\ n.tokens = m.tokens
      /\ SameEvents(m, n)
  BY <1>7, <1>8 DEF MemFields, FeatFields, SameEvents
<1>10. Shaped(n)
  BY <1>1, <1>2, <1>9 DEF Shaped
<1>11. LiquidityOK(n) /\ PoolOK(n.pool, f)
  BY <1>3, <1>6, <1>9 DEF LiquidityOK
<1>12. MemoryOK(n, f) /\ TradeIds(n) = TradeIds(m)
  BY <1>9, <1>10, <1>11, SameEventsKeep
<1> QED BY <1>9, <1>12 DEF n, u

-----------------------------------------------------------------------------
(* The snapshot *)

(* What a snapshot says of the liquidity, the buyers and the price. *)
LEMMA SnapshotFields ==
    ASSUME NEW f, NEW at
    PROVE  LET s == Snapshot(f, at)
               liq == Upto(f.liquidity, at)
               trades == Upto(f.trades, at)
           IN  /\ s.liquidity = IF liq = <<>> THEN 0 ELSE Last(liq).quote
               /\ s.price = IF trades = <<>> THEN 0 ELSE Last(trades).price
               /\ s.uniqueBuyers = Cardinality(WalletsOf(Window(Side(trades, "BUY"), at, 60)))
  BY DEF Snapshot

(* A snapshot's liquidity is a number. *)
LEMMA SnapshotLiquidity ==
    ASSUME NEW m, LiquidityOK(m), NEW at
    PROVE  Snapshot(m.feats, at).liquidity \in Nat
<1> DEFINE s == m.feats.liquidity
           liq == Upto(s, at)
<1>1. IsList(s) /\ \A o \in Range(s) : o.quote \in Nat
  BY DEF LiquidityOK
<1>2. liq \in Seq(Range(s)) /\ Range(liq) \subseteq Range(s)
  <2>1. s \in Seq(Range(s))
    BY <1>1 DEF IsList
  <2> HIDE DEF s
  <2>2. PICK S : liq = Only(s, S)
    BY DEF Upto
  <2>3. Only(s, S) \in Seq(Range(s)) /\ Range(Only(s, S)) = Range(s) \cap S
    BY <2>1, OnlyIs
  <2> QED BY <2>2, <2>3
<1>3. Snapshot(m.feats, at).liquidity = IF liq = <<>> THEN 0 ELSE Last(liq).quote
  BY SnapshotFields
<1> HIDE DEF s, liq
<1>4. ASSUME liq # <<>> PROVE Last(liq) \in Range(s)
  <2>1. Len(liq) \in 1..Len(liq)
    BY <1>2, <1>4
  <2>2. liq[Len(liq)] \in Range(s)
    BY <1>2, <2>1
  <2> QED BY <2>2 DEF Last
<1> QED BY <1>1, <1>3, <1>4

-----------------------------------------------------------------------------
(* The evaluation *)

EvalFields == {"pc", "at", "snap", "token", "supply", "seen"}

EvalOK ==
    /\ DOMAIN eval = EvalFields
    /\ eval.snap.liquidity \in Nat
    /\ ~Running => eval.pc = "idle"

(* The idle evaluation. *)
LEMMA IdleOK == DOMAIN Idle = EvalFields /\ Idle.snap.liquidity \in Nat /\ Idle.pc = "idle"
<1>1. Idle.snap = Snapshot(NoFeatures, 0) /\ DOMAIN Idle = EvalFields /\ Idle.pc = "idle"
  BY DEF Idle, EvalFields
<1>2. Range(<<>>) = {} /\ IsList(<<>>)
  <2>1. Range(<<>>) = {}
    BY DEF Range
  <2> QED BY <2>1 DEF IsList
<1>3. PICK m : m = [feats |-> NoFeatures]
  OBVIOUS
<1>4. LiquidityOK(m) /\ m.feats = NoFeatures
  BY <1>2, <1>3 DEF LiquidityOK, NoFeatures
<1> QED BY <1>1, <1>4, SnapshotLiquidity

(* Every step keeps the market as it should be. *)
LEMMA NextKeepsState ==
    ASSUME StateOK, UnpricedOK, [Next]_vars
    PROVE  StateOK' /\ UnpricedOK'
<1>0. TradeIds(mem)' = TradeIds(mem')
  BY DEF TradeIds
<1>m. ASSUME UNCHANGED market PROVE StateOK' /\ UnpricedOK'
  BY <1>m, <1>0 DEF market, StateOK, UnpricedOK
<1>1. ASSUME NEW e \in feed, Process(e) PROVE StateOK' /\ UnpricedOK'
  BY <1>1, ProcessKeepsState DEF Process
<1>2. ASSUME RefreshPrice PROVE StateOK' /\ UnpricedOK'
  <2>1. QuoteUsd \in Nat
    BY AnalysisAssumption
  <2> QED BY <1>0, <1>2, <2>1 DEF RefreshPrice, RefreshQuotePrice, StateOK, UnpricedOK
<1>3. ASSUME RpcAnswers PROVE StateOK' /\ UnpricedOK'
  <2>1. /\ UNCHANGED <<feed, processed, usd, unpriced>>
        /\ \E n \in minted..Len(Minted) : mem' = ApplyMintState(mem, Minted[n])
    BY <1>3 DEF RpcAnswers
  <2>2. PICK supply : mem' = ApplyMintState(mem, supply)
    BY <2>1
  <2>3. MemoryOK(mem, feed)
    BY DEF StateOK
  <2>4. MemoryOK(ApplyMintState(mem, supply), feed) /\ SameEvents(mem, ApplyMintState(mem, supply))
        /\ TradeIds(ApplyMintState(mem, supply)) = TradeIds(mem)
    BY <2>3, MintKeeps
  <2>5. MemoryOK(mem', feed) /\ SameEvents(mem, mem') /\ TradeIds(mem') = TradeIds(mem)
    BY <2>2, <2>4
  <2> QED BY <1>0, <2>1, <2>5 DEF StateOK, UnpricedOK, SameEvents
<1>4. ASSUME EvaluationFails PROVE StateOK' /\ UnpricedOK'
  BY <1>4, <1>m DEF EvaluationFails
<1>5. ASSUME NEW recent \in BOOLEAN, Restart(recent) PROVE StateOK' /\ UnpricedOK'
  BY <1>5, RestartKeepsState DEF Restart
<1>6. ASSUME NEW at, BeginEvaluation(at) PROVE StateOK' /\ UnpricedOK'
  BY <1>6, <1>m DEF BeginEvaluation
<1>7. ASSUME NEW in \in Answers(feed), Judge(in) PROVE StateOK' /\ UnpricedOK'
  <2>1. /\ UNCHANGED <<feed, processed, usd, unpriced>>
        /\ \E h : mem' = IngestHolders(UpdatePoolSupply(mem, in), h)
    BY <1>7 DEF Judge
  <2>2. PICK h : mem' = IngestHolders(UpdatePoolSupply(mem, in), h)
    BY <2>1
  <2>3. MemoryOK(mem, feed)
    BY DEF StateOK
  <2>4. MemoryOK(mem', feed) /\ SameEvents(mem, mem') /\ TradeIds(mem') = TradeIds(mem)
    BY <2>2, <2>3, JudgeKeeps
  <2> QED BY <1>0, <2>1, <2>4 DEF StateOK, UnpricedOK, SameEvents
<1>8. ASSUME UNCHANGED vars PROVE StateOK' /\ UnpricedOK'
  BY <1>8, <1>m DEF vars
<1> QED BY <1>1, <1>2, <1>3, <1>4, <1>5, <1>6, <1>7, <1>8 DEF Next

(* What an entry was decided on. *)
LEMMA JudgeVerdict ==
    ASSUME NEW in, Judge(in)
    PROVE  /\ eval.pc = "store" /\ eval' = Idle
           /\ UNCHANGED <<feed, processed, unpriced, minted, recorded, forgotten>>
           /\ \E h, m, score :
                 /\ m = IngestHolders(UpdatePoolSupply(mem, in), h) /\ mem' = m
                 /\ verdict'.out \in {"rejected", "kept", "entered"}
                 /\ verdict'.at = eval.at /\ verdict'.dev = eval.token.creator
                 /\ verdict'.in = in /\ verdict'.seen = eval.seen
                 /\ verdict'.supply = eval.supply
                 /\ verdict'.size = Size(Context(m, h, in), score)
                 /\ verdict'.liquidity = eval.snap.liquidity
                 /\ Changed => verdict'.out = "rejected"
                 /\ verdict'.out = "entered" =>
                       ~Changed /\ ~DevSold(m) /\ RiskBudget(in) > 0
<1>1. /\ eval.pc = "store" /\ eval' = Idle
      /\ UNCHANGED <<feed, processed, unpriced, minted, recorded, forgotten>>
  BY DEF Judge
<1> DEFINE h == HoldersOf(mem, in)
           m == IngestHolders(UpdatePoolSupply(mem, in), h)
           s == Snapshot(m.feats, eval.at)
           c == Context(m, h, in)
           score == Score(s, in)
           size == Size(c, score)
           hard == RejectReasons(c, eval.at) # {}
           enter == /\ SharedRules(s, c) /\ FlowRules(s, score)
                    /\ RiskBudget(in) > 0 /\ size >= Cfg.minPosition * 100
<1>2. /\ mem' = m
      /\ verdict' = [out |-> IF hard THEN "rejected"
                             ELSE IF ~in.pending THEN "kept"
                             ELSE IF enter THEN "entered" ELSE "rejected",
                     at |-> eval.at, dev |-> eval.token.creator, in |-> in,
                     seen |-> eval.seen, supply |-> eval.supply,
                     score |-> score, size |-> size, liquidity |-> eval.snap.liquidity]
  BY DEF Judge
<1>3. c.changed = Changed /\ c.devSold = DevSold(m)
  BY DEF Context
<1> HIDE DEF h, m, s, score
<1>4. c.changed => "SUPPLY_CHANGED" \in RejectReasons(c, eval.at)
  BY DEF RejectReasons, Names
<1>5. SharedRules(s, c) => ~c.devSold
  BY DEF SharedRules
<1> HIDE DEF c, hard, enter, size
<1>6. /\ verdict'.out \in {"rejected", "kept", "entered"}
      /\ verdict'.at = eval.at /\ verdict'.dev = eval.token.creator
      /\ verdict'.in = in /\ verdict'.seen = eval.seen
      /\ verdict'.supply = eval.supply /\ verdict'.size = size
      /\ verdict'.liquidity = eval.snap.liquidity
      /\ verdict'.out = "entered" => ~hard /\ enter
      /\ hard => verdict'.out = "rejected"
  BY <1>2
<1>7. /\ Changed => verdict'.out = "rejected"
      /\ verdict'.out = "entered" => ~Changed /\ ~DevSold(m) /\ RiskBudget(in) > 0
  BY <1>3, <1>4, <1>5, <1>6 DEF hard, enter
<1>8. m = IngestHolders(UpdatePoolSupply(mem, in), h) /\ size = Size(Context(m, h, in), score)
  BY DEF m, size, c
<1> QED BY <1>1, <1>2, <1>6, <1>7, <1>8

(* Every step keeps the evaluation as it should be. *)
LEMMA NextKeepsEval ==
    ASSUME StateOK, EvalOK, [Next]_vars
    PROVE  EvalOK'
<1>0. DOMAIN Idle = EvalFields /\ Idle.snap.liquidity \in Nat /\ Idle.pc = "idle"
  BY IdleOK
<1>1. ASSUME NEW e \in feed, Process(e) PROVE EvalOK'
  BY <1>1 DEF Process, EvalOK, Running
<1>2. ASSUME RefreshPrice PROVE EvalOK'
  BY <1>2 DEF RefreshPrice, decision, EvalOK, Running
<1>3. ASSUME RpcAnswers PROVE EvalOK'
  <2>1. PICK supply : eval' = [eval EXCEPT !.pc = "store", !.supply = supply]
    BY <1>3 DEF RpcAnswers
  <2>2. DOMAIN eval' = EvalFields /\ eval'.snap = eval.snap
    BY <2>1 DEF EvalOK, EvalFields
  <2>3. verdict' = verdict /\ eval.pc = "rpc"
    BY <1>3 DEF RpcAnswers
  <2> QED BY <2>2, <2>3 DEF EvalOK, Running
<1>4. ASSUME EvaluationFails PROVE EvalOK'
  BY <1>0, <1>4 DEF EvaluationFails, EvalOK, Running
<1>5. ASSUME NEW recent \in BOOLEAN, Restart(recent) PROVE EvalOK'
  BY <1>0, <1>5 DEF Restart, EvalOK, Running
<1>6. ASSUME NEW at, BeginEvaluation(at) PROVE EvalOK'
  <2>1. LiquidityOK(mem)
    BY DEF StateOK, MemoryOK
  <2>2. Snapshot(mem.feats, at).liquidity \in Nat
    BY <2>1, SnapshotLiquidity
  <2>3. /\ Running /\ verdict' = verdict
        /\ eval' = [Idle EXCEPT !.pc = "rpc", !.at = at, !.snap = Snapshot(mem.feats, at),
                                !.token = TokenRecord(mem), !.seen = recorded]
    BY <1>6 DEF BeginEvaluation
  <2>4. DOMAIN eval' = EvalFields /\ eval'.snap = Snapshot(mem.feats, at)
    BY <1>0, <2>3 DEF EvalFields
  <2> QED BY <2>2, <2>3, <2>4 DEF EvalOK, Running
<1>7. ASSUME NEW in \in Answers(feed), Judge(in) PROVE EvalOK'
  <2>1. eval' = Idle
    BY <1>7 DEF Judge
  <2> QED BY <1>0, <2>1 DEF EvalOK
<1>8. ASSUME UNCHANGED vars PROVE EvalOK'
  BY <1>8 DEF vars, decision, EvalOK, Running
<1> QED BY <1>1, <1>2, <1>3, <1>4, <1>5, <1>6, <1>7, <1>8 DEF Next

(* Once the candidate is entered or rejected, nothing happens to it. *)
LEMMA Final ==
    ASSUME EvalOK, ~Running, [Next]_vars
    PROVE  UNCHANGED vars
<1>1. eval.pc = "idle"
  BY DEF EvalOK
<1> QED BY <1>1 DEF Next, Process, RefreshPrice, RpcAnswers, EvaluationFails, Restart,
                    BeginEvaluation, Judge

SupplyOK ==
    /\ ~forgotten /\ Running =>
           recorded \subseteq Supplies(mem) \/ (eval.pc = "store" /\ Changed)
    /\ ~forgotten /\ eval.pc \in {"rpc", "store"} =>
           eval.seen \subseteq {eval.token.supply} \ {None}
    /\ SupplyChangeBlocksEntry

(* Every step keeps what is known of the supplies. *)
LEMMA NextKeepsSupply ==
    ASSUME StateOK, EvalOK, SupplyOK, [Next]_vars
    PROVE  SupplyOK'
<1>1. CASE ~Running
  <2>1. UNCHANGED vars
    BY <1>1, Final
  <2> QED BY <2>1 DEF vars, market, decision, SupplyOK, Running, Supplies, TokenRecord, Changed,
                       SupplyChangeBlocksEntry, Entered
<1>2. CASE Running
  <2>0. /\ ~forgotten => recorded \subseteq Supplies(mem) \/ (eval.pc = "store" /\ Changed)
        /\ ~forgotten /\ eval.pc \in {"rpc", "store"} =>
               eval.seen \subseteq {eval.token.supply} \ {None}
    BY <1>2 DEF SupplyOK
  <2>a. Supplies(mem)' = Supplies(mem')
    BY DEF Supplies, TokenRecord
  <2>b. verdict' = verdict => ~Entered' /\ SupplyChangeBlocksEntry'
    BY <1>2 DEF Running, Entered, SupplyChangeBlocksEntry
  <2>c. Idle.pc = "idle"
    BY IdleOK
  <2>1. ASSUME NEW e \in feed, Process(e) PROVE SupplyOK'
    <3>1. /\ recorded' = recorded \cup Supplies(mem')
          /\ forgotten' = (forgotten \/ ~(Supplies(mem) \subseteq Supplies(mem')))
          /\ eval' = eval /\ verdict' = verdict
      BY <2>1 DEF Process
    <3>2. Changed' = Changed
      BY <3>1 DEF Changed
    <3> QED BY <2>0, <2>a, <2>b, <3>1, <3>2 DEF SupplyOK
  <2>2. ASSUME RefreshPrice PROVE SupplyOK'
    <3>1. mem' = mem /\ UNCHANGED decision
      BY <2>2 DEF RefreshPrice, RefreshQuotePrice
    <3> QED BY <3>1 DEF decision, SupplyOK, Running, Supplies, TokenRecord, Changed,
                       SupplyChangeBlocksEntry, Entered
  <2>3. ASSUME RpcAnswers PROVE SupplyOK'
    <3>1. PICK supply : /\ eval' = [eval EXCEPT !.pc = "store", !.supply = supply]
                        /\ mem' = ApplyMintState(mem, supply)
                        /\ forgotten' = (forgotten \/
                              ~(Supplies(mem) \subseteq {eval.token.supply, supply}))
      BY <2>3 DEF RpcAnswers
    <3>2. /\ eval.pc = "rpc" /\ recorded' = recorded \cup Supplies(mem') /\ verdict' = verdict
      BY <2>3 DEF RpcAnswers
    <3>3. /\ eval'.pc = "store" /\ eval'.supply = supply /\ eval'.token = eval.token
          /\ eval'.seen = eval.seen
      BY <3>1 DEF EvalOK, EvalFields
    <3>4. MemoryOK(mem, feed)
      BY DEF StateOK
    <3>5. Token \notin DOMAIN mem.tokens => ApplyMintState(mem, supply) = mem
      BY <3>4, MintKeeps
    <3>6. Token \in DOMAIN mem.tokens => Supplies(ApplyMintState(mem, supply)) = {supply} \ {None}
      BY <3>4, MintKeeps
    <3>7. ASSUME ~forgotten' PROVE recorded' \subseteq Supplies(mem') \/ Changed'
      <4>1. /\ recorded \subseteq Supplies(mem)
            /\ Supplies(mem) \subseteq {eval.token.supply, supply}
        BY <2>0, <3>1, <3>2, <3>7
      <4>2. CASE Token \notin DOMAIN mem.tokens
        BY <3>1, <3>2, <3>5, <4>1, <4>2
      <4>3. CASE Token \in DOMAIN mem.tokens
        <5>1. Supplies(mem') = {supply} \ {None}
          BY <3>1, <3>6, <4>3
        <5>2. None \notin Supplies(mem)
          BY DEF Supplies
        <5>3. CASE Supplies(mem) \subseteq {supply}
          BY <3>2, <4>1, <5>1, <5>2, <5>3
        <5>4. CASE ~(Supplies(mem) \subseteq {supply})
          <6>1. eval.token.supply # None /\ eval.token.supply # supply
            BY <4>1, <5>2, <5>4
          <6> QED BY <3>3, <6>1 DEF Changed
        <5> QED BY <5>3, <5>4
      <4> QED BY <4>2, <4>3
    <3>8. ASSUME ~forgotten' PROVE eval'.seen \subseteq {eval'.token.supply} \ {None}
      BY <2>0, <3>1, <3>2, <3>3, <3>8
    <3> QED BY <2>a, <2>b, <3>2, <3>3, <3>7, <3>8 DEF SupplyOK
  <2>4. ASSUME EvaluationFails PROVE SupplyOK'
    <3>1. /\ eval.pc \in {"rpc", "store"} /\ eval' = Idle /\ mem' = mem /\ recorded' = recorded
          /\ forgotten' = (forgotten \/ (eval.pc = "store" /\ Changed)) /\ verdict' = verdict
      BY <2>4 DEF EvaluationFails, market
    <3> QED BY <2>0, <2>a, <2>b, <2>c, <3>1 DEF SupplyOK
  <2>5. ASSUME NEW recent \in BOOLEAN, Restart(recent) PROVE SupplyOK'
    <3>1. /\ eval' = Idle /\ recorded' = recorded \cup Supplies(mem') /\ verdict' = verdict
          /\ forgotten' = (forgotten \/ ~(recorded \subseteq Supplies(mem')))
      BY <2>5 DEF Restart
    <3> QED BY <2>0, <2>a, <2>b, <2>c, <3>1 DEF SupplyOK
  <2>6. ASSUME NEW at, BeginEvaluation(at) PROVE SupplyOK'
    <3>1. /\ eval.pc = "idle" /\ mem' = mem /\ UNCHANGED <<verdict, recorded, forgotten>>
          /\ eval' = [Idle EXCEPT !.pc = "rpc", !.at = at, !.snap = Snapshot(mem.feats, at),
                                  !.token = TokenRecord(mem), !.seen = recorded]
      BY <2>6 DEF BeginEvaluation, market
    <3>2. eval'.pc = "rpc" /\ eval'.token = TokenRecord(mem) /\ eval'.seen = recorded
      BY <3>1 DEF Idle
    <3>3. Supplies(mem) = {TokenRecord(mem).supply} \ {None}
      BY DEF Supplies
    <3> QED BY <2>0, <2>a, <2>b, <3>1, <3>2, <3>3 DEF SupplyOK
  <2>7. ASSUME NEW in \in Answers(feed), Judge(in) PROVE SupplyOK'
    <3>1. PICK h : /\ mem' = IngestHolders(UpdatePoolSupply(mem, in), h)
                   /\ verdict'.seen = eval.seen /\ verdict'.supply = eval.supply
                   /\ Changed => verdict'.out = "rejected"
                   /\ verdict'.out = "entered" => ~Changed
      BY <2>7, JudgeVerdict
    <3>2. eval.pc = "store" /\ eval' = Idle /\ UNCHANGED <<recorded, forgotten>>
      BY <2>7, JudgeVerdict
    <3>3. MemoryOK(mem, feed)
      BY DEF StateOK
    <3>4. IngestHolders(UpdatePoolSupply(mem, in), h).tokens = mem.tokens
      BY <3>3, JudgeKeeps
    <3>5. Supplies(mem') = Supplies(mem)
      BY <3>1, <3>4 DEF Supplies, TokenRecord
    <3>6. SupplyChangeBlocksEntry'
      BY <2>0, <3>1, <3>2 DEF SupplyChangeBlocksEntry, Entered, Changed
    <3>7. Running' /\ ~forgotten' => ~Changed
      BY <3>1 DEF Running
    <3> QED BY <2>0, <2>a, <2>c, <3>2, <3>5, <3>6, <3>7 DEF SupplyOK
  <2>8. ASSUME UNCHANGED vars PROVE SupplyOK'
    BY <2>8 DEF vars, market, decision, SupplyOK, Running, Supplies, TokenRecord, Changed,
                       SupplyChangeBlocksEntry, Entered
  <2> QED BY <2>1, <2>2, <2>3, <2>4, <2>5, <2>6, <2>7, <2>8 DEF Next
<1> QED BY <1>1, <1>2

(* What the windows of the features keep. *)
LEMMA WindowRanges ==
    ASSUME NEW s, IsList(s), NEW at, NEW seconds, NEW side
    PROVE  /\ IsList(Upto(s, at)) /\ Range(Upto(s, at)) = {o \in Range(s) : o.time <= at}
           /\ IsList(Side(s, side)) /\ Range(Side(s, side)) = {o \in Range(s) : o.side = side}
           /\ Range(Window(s, at, seconds)) =
                 {o \in Range(s) : at - seconds < o.time /\ o.time <= at}
<1>1. s \in Seq(Range(s))
  BY DEF IsList
<1>2. ASSUME NEW S \in SUBSET Range(s)
      PROVE  IsList(Only(s, S)) /\ Range(Only(s, S)) = S
  <2>1. Only(s, S) \in Seq(Range(s)) /\ Range(Only(s, S)) = Range(s) \cap S
    BY <1>1, OnlyIs
  <2> DEFINE t == Only(s, S)
  <2>2. t \in Seq(Range(s)) /\ Range(t) = S
    BY <2>1
  <2> HIDE DEF t
  <2>3. t \in Seq(S)
    <3>1. Range(t) = {t[i] : i \in 1..Len(t)}
      BY <2>2, RangeIs
    <3>2. \A i \in 1..Len(t) : t[i] \in S
      BY <2>2, <3>1
    <3> QED BY <2>2, <3>2
  <2> QED BY <2>2, <2>3 DEF IsList, t
<1>3. /\ {o \in Range(s) : o.time <= at} \in SUBSET Range(s)
      /\ {o \in Range(s) : o.side = side} \in SUBSET Range(s)
      /\ {o \in Range(s) : at - seconds < o.time /\ o.time <= at} \in SUBSET Range(s)
  OBVIOUS
<1> QED BY <1>2, <1>3 DEF Upto, Side, Window

(* A swap with a trade has the trade that it was. *)
LEMMA PricedTrade ==
    ASSUME NEW f \in Feeds, NEW m, MemoryOK(m, f), NEW e \in m.applied, e.id \in TradeIds(m)
    PROVE  \E o \in Range(m.feats.trades) : TradeOf(o, e, m.pool)
<1>1. PICK o \in Range(m.feats.trades) : o.id = e.id
  BY DEF TradeIds
<1>2. PICK d \in m.applied : TradeOf(o, d, m.pool)
  BY DEF MemoryOK, TradesOK
<1>3. d \in f /\ e \in f /\ d.id = e.id
  BY <1>1, <1>2 DEF MemoryOK, TradeOf
<1>4. d = e
  BY <1>3, FeedsAssumption
<1> QED BY <1>2, <1>4

(* A pool with trades has an orientation. *)
LEMMA RevIsBoolean ==
    ASSUME NEW f, NEW m, MemoryOK(m, f), NEW o \in Range(m.feats.trades)
    PROVE  m.pool.rev \in BOOLEAN
<1>1. m.feats.trades # <<>>
  BY DEF Range
<1>2. m.pool.known /\ PoolOK(m.pool, f)
  BY <1>1 DEF MemoryOK, TradesOK
<1>3. PICK x \in f : m.pool.rev = Reversed(x)
  BY <1>2 DEF PoolOK
<1> QED BY <1>3 DEF Reversed

(* Every step keeps out the token of a creator who sold. *)
LEMMA NextKeepsDevSold ==
    ASSUME StateOK, UnpricedOK, EvalOK, DevSoldBlocksEntry, [Next]_vars
    PROVE  DevSoldBlocksEntry'
<1>0. StateOK' /\ UnpricedOK'
  BY NextKeepsState
<1>1. CASE ~Running
  <2>1. UNCHANGED vars
    BY <1>1, Final
  <2> QED BY <2>1 DEF vars, market, decision, DevSoldBlocksEntry, Entered
<1>2. CASE Running /\ verdict' = verdict
  BY <1>2 DEF Running, Entered, DevSoldBlocksEntry
<1>3. ASSUME NEW in \in Answers(feed), Judge(in) PROVE DevSoldBlocksEntry'
  <2>1. PICK h, m : /\ mem' = m /\ verdict'.at = eval.at /\ verdict'.dev = eval.token.creator
                    /\ verdict'.out = "entered" => ~DevSold(m)
    BY <1>3, JudgeVerdict
  <2>2. SUFFICES ASSUME Entered', verdict'.dev # NoWallet, NEW e \in mem'.applied, e.kind \in Swaps,
                        e.user = verdict'.dev, e.time <= verdict'.at, e.id \notin unpriced'
                 PROVE  IF e.kind = "SWAP_BUY" THEN ~mem'.pool.rev ELSE mem'.pool.rev
    BY DEF DevSoldBlocksEntry, Entered
  <2>3. PICK o \in Range(mem'.feats.trades) : TradeOf(o, e, mem'.pool)
    <3>1. feed' \in Feeds /\ MemoryOK(mem', feed') /\ TradeIds(mem)' = TradeIds(mem')
      BY <1>0 DEF StateOK, TradeIds
    <3>2. e.id \in TradeIds(mem')
      BY <1>0, <2>2, <3>1 DEF UnpricedOK
    <3> QED BY <3>1, <3>2, PricedTrade
  <2>4. IsList(mem'.feats.trades)
    BY <1>0 DEF StateOK, MemoryOK, TradesOK
  <2>5. o.time = e.time /\ o.wallet = e.user /\ o.side = TradeSide(mem'.pool, e)
    BY <2>3 DEF TradeOf
  <2>6. o \in Range(Upto(mem'.feats.trades, eval.at))
    BY <2>1, <2>2, <2>4, <2>5, WindowRanges
  <2>7. o.side # "SELL"
    BY <2>1, <2>2, <2>5, <2>6 DEF DevSold, Entered
  <2>8. mem'.pool.rev \in BOOLEAN
    <3>1. MemoryOK(mem', feed')
      BY <1>0 DEF StateOK
    <3> QED BY <3>1, RevIsBoolean
  <2>9. CASE mem'.pool.rev = TRUE
    BY <2>5, <2>7, <2>9 DEF TradeSide
  <2>10. CASE mem'.pool.rev = FALSE
    BY <2>2, <2>5, <2>7, <2>10 DEF TradeSide, Swaps
  <2> QED BY <2>8, <2>9, <2>10
<1>4. verdict' = verdict \/ \E in \in Answers(feed) : Judge(in)
  BY DEF Next, Process, RefreshPrice, RpcAnswers, EvaluationFails, Restart,
         BeginEvaluation, vars, decision
<1> QED BY <1>1, <1>2, <1>3, <1>4

-----------------------------------------------------------------------------
(* The size of a position *)

(* Rounding down. *)
LEMMA DivBound ==
    ASSUME NEW a \in Nat, NEW b \in Nat \ {0}
    PROVE  a \div b \in Nat /\ (a \div b) * b <= a
  OBVIOUS

(* The least of four numbers. *)
LEMMA MinOfFour ==
    ASSUME NEW a \in Int, NEW b \in Int, NEW c \in Int, NEW d \in Int
    PROVE  /\ Min({a, b, c, d}) \in {a, b, c, d}
           /\ Min({a, b, c, d}) <= a /\ Min({a, b, c, d}) <= b
           /\ Min({a, b, c, d}) <= c /\ Min({a, b, c, d}) <= d
<1> DEFINE S == {a, b, c, d}
<1>1. \E x \in S : \A y \in S : x <= y
  OBVIOUS
<1>2. Min(S) \in S /\ \A y \in S : Min(S) <= y
  <2> HIDE DEF S
  <2> QED BY <1>1 DEF Min
<1> QED BY <1>2

(* What is left of the day bounds what a position risks. *)
LEMMA SizeBounds ==
    ASSUME NEW c, NEW score, c.in.equity \in Nat, c.in.loss \in Nat, c.in.pnl \in Int,
           c.snap.liquidity \in Nat, RiskBudget(c.in) > 0
    PROVE  LET in == c.in
               size == Size(c, score)
               loss == size * EffectiveLoss(in)
           IN  /\ loss <= 100 * (Cfg.dailyLimit + in.pnl)
               /\ 200 * (loss \div 100) <= in.equity
               /\ 250 * size <= in.equity
               /\ size <= 250 * c.snap.liquidity
<1> DEFINE in == c.in
           eq == in.equity
           m == Multiplier(score)
           rb == RiskBudget(in)
           el == EffectiveLoss(in)
           liq == c.snap.liquidity
           size == Size(c, score)
           loss == size * el
           left == Remaining(in)
           ways == {(rb * m) \div el, (eq * m) \div 25000, (liq * 5 * m) \div 2, Cfg.maxPosition * m}
<1>1. m \in {0, 75, 90, 100}
  BY DEF Multiplier
<1>2. el \in Nat /\ el > 0 /\ Cfg.dailyLimit \in Nat /\ Cfg.maxPosition \in Nat
  BY DecisionAssumption DEF EffectiveLoss
<1>3. /\ left \in Nat /\ (left > 0 => left <= Cfg.dailyLimit + in.pnl)
  <2>0. in.pnl \in Int /\ 0 \in Int
    OBVIOUS
  <2>1. Min({in.pnl, 0}) \in {in.pnl, 0} /\ Min({in.pnl, 0}) <= in.pnl /\ Min({in.pnl, 0}) <= 0
    <3> HIDE DEF in
    <3> QED BY <2>0, MinOfTwo
  <2> QED BY <1>2, <2>1 DEF Remaining, Floor0
<1>4. /\ rb \in Nat /\ rb <= left /\ rb <= (eq * 5) \div 1000 /\ left > 0
  <2>1. (eq * 5) \div 1000 \in Nat
    OBVIOUS
  <2> DEFINE share == (eq * 5) \div 1000
  <2>2. rb = Min({share, left})
    BY DEF RiskBudget
  <2>3. share \in Int /\ left \in Int
    BY <1>3, <2>1
  <2>4. rb > 0
    OBVIOUS
  <2> HIDE DEF share, left, rb
  <2>5. rb \in {share, left} /\ rb <= share /\ rb <= left
    BY <2>2, <2>3, MinOfTwo
  <2> QED BY <1>3, <2>1, <2>3, <2>4, <2>5 DEF share
<1>5. size = Min(ways)
  BY <1>4 DEF Size
<1> HIDE DEF m, rb, el, left, in, size
<1>6. /\ size \in Nat /\ size <= (rb * m) \div el /\ size <= (eq * m) \div 25000
      /\ size <= (liq * 5 * m) \div 2
  <2>0. rb * m \in Nat /\ eq * m \in Nat /\ liq * 5 * m \in Nat /\ Cfg.maxPosition * m \in Nat
    <3>1. \A x \in Nat : x * m \in Nat
      BY <1>1
    <3> QED BY <1>2, <1>4, <3>1 DEF in
  <2>1. (rb * m) \div el \in Nat
    BY <1>2, <2>0, DivBound
  <2>2. (eq * m) \div 25000 \in Nat
    BY <2>0, DivBound
  <2>3. (liq * 5 * m) \div 2 \in Nat
    BY <2>0, DivBound
  <2> DEFINE a == (rb * m) \div el
             b == (eq * m) \div 25000
             d == (liq * 5 * m) \div 2
             e == Cfg.maxPosition * m
  <2>4. size = Min({a, b, d, e})
    BY <1>5
  <2>5. a \in Nat /\ b \in Nat /\ d \in Nat /\ e \in Nat
    BY <2>0, <2>1, <2>2, <2>3
  <2> HIDE DEF a, b, d, e
  <2>6. size \in {a, b, d, e} /\ size <= a /\ size <= b /\ size <= d
    <3>1. a \in Int /\ b \in Int /\ d \in Int /\ e \in Int
      BY <2>5
    <3>2. /\ Min({a, b, d, e}) \in {a, b, d, e} /\ Min({a, b, d, e}) <= a
          /\ Min({a, b, d, e}) <= b /\ Min({a, b, d, e}) <= d
      BY ONLY <3>1, MinOfFour
    <3> QED BY <2>4, <3>2
  <2> QED BY <2>5, <2>6 DEF a, b, d
<1>7. loss <= 100 * rb
  <2>1. rb * m \in Nat /\ rb * m <= 100 * rb
    BY <1>1, <1>4
  <2> DEFINE q == (rb * m) \div el
  <2>2. q \in Nat /\ q * el <= rb * m
    BY <1>2, <2>1, DivBound
  <2>3. size <= q
    BY <1>6
  <2> HIDE DEF q
  <2>4. \A x, y, z \in Nat : x <= y => x * z <= y * z
    OBVIOUS
  <2>5. size * el <= q * el
    BY <1>2, <1>6, <2>2, <2>3, <2>4
  <2>6. size * el \in Nat /\ q * el \in Nat
    BY <1>2, <1>6, <2>2
  <2> QED BY <1>4, <2>1, <2>2, <2>5, <2>6
<1>8. loss \in Nat
  BY <1>2, <1>6
<1>9. loss <= 100 * (Cfg.dailyLimit + in.pnl)
  <2>1. in.pnl \in Int
    BY DEF in
  <2> HIDE DEF loss
  <2> QED BY <1>2, <1>3, <1>4, <1>7, <1>8, <2>1
<1>10. 200 * (loss \div 100) <= eq
  <2>1. eq \in Nat
    BY DEF in
  <2> HIDE DEF loss, eq
  <2>2. loss \div 100 <= rb
    BY <1>4, <1>7, <1>8
  <2> QED BY <1>4, <1>8, <2>1, <2>2
<1>11. 250 * size <= eq
  <2>1. eq \in Nat
    BY DEF in
  <2> HIDE DEF eq
  <2> QED BY <1>1, <1>6, <2>1
<1>12. size <= 250 * liq
  <2> HIDE DEF liq
  <2>1. liq \in Nat
    BY DEF liq
  <2> QED BY <1>1, <1>6, <2>1
<1> QED BY <1>9, <1>10, <1>11, <1>12 DEF in, size, el

(* Every step keeps the losses of an entry within the day. *)
LEMMA NextKeepsLoss ==
    ASSUME StateOK, EvalOK, LossFitsTheDay, [Next]_vars
    PROVE  LossFitsTheDay'
<1>1. ASSUME verdict' = verdict PROVE LossFitsTheDay'
  BY <1>1 DEF LossFitsTheDay, Entered, EffectiveLoss
<1>2. ASSUME NEW in \in Answers(feed), Judge(in) PROVE LossFitsTheDay'
  <2>1. PICK h, m, score :
            /\ verdict'.in = in /\ verdict'.size = Size(Context(m, h, in), score)
            /\ verdict'.liquidity = eval.snap.liquidity
            /\ verdict'.out = "entered" => RiskBudget(in) > 0
    BY <1>2, JudgeVerdict
  <2> DEFINE c == Context(m, h, in)
  <2>2. c.in = in /\ c.snap = eval.snap
    BY DEF Context
  <2>3. in.equity \in Nat /\ in.loss \in Nat /\ in.pnl \in Int
    BY DecisionAssumption DEF StateOK
  <2>4. eval.snap.liquidity \in Nat
    BY DEF EvalOK
  <2>5. verdict'.size = Size(c, score)
    BY <2>1
  <2> HIDE DEF c
  <2>6. ASSUME verdict'.out = "entered"
        PROVE  /\ Size(c, score) * EffectiveLoss(in) <= 100 * (Cfg.dailyLimit + in.pnl)
               /\ 200 * ((Size(c, score) * EffectiveLoss(in)) \div 100) <= in.equity
               /\ 250 * Size(c, score) <= in.equity
               /\ Size(c, score) <= 250 * eval.snap.liquidity
    <3>1. c.in.equity \in Nat /\ c.in.loss \in Nat /\ c.in.pnl \in Int
          /\ c.snap.liquidity \in Nat /\ RiskBudget(c.in) > 0
      BY <2>1, <2>2, <2>3, <2>4, <2>6
    <3>2. /\ Size(c, score) * EffectiveLoss(c.in) <= 100 * (Cfg.dailyLimit + c.in.pnl)
          /\ 200 * ((Size(c, score) * EffectiveLoss(c.in)) \div 100) <= c.in.equity
          /\ 250 * Size(c, score) <= c.in.equity
          /\ Size(c, score) <= 250 * c.snap.liquidity
      BY <3>1, SizeBounds
    <3> QED BY <2>2, <3>2
  <2>7. EffectiveLoss(verdict.in)' = EffectiveLoss(verdict'.in)
    BY DEF EffectiveLoss
  <2> QED BY <2>1, <2>5, <2>6, <2>7 DEF LossFitsTheDay, Entered
<1>4. verdict' = verdict \/ \E in \in Answers(feed) : Judge(in)
  BY DEF Next, Process, RefreshPrice, RpcAnswers, EvaluationFails, Restart,
         BeginEvaluation, vars, decision
<1> QED BY <1>1, <1>2, <1>4

-----------------------------------------------------------------------------
(* The features of a time *)

(* The last of a part of a list in order is after all of it. *)
LEMMA LastIsLatest ==
    ASSUME NEW s, IsList(s), NEW field, InOrder(s, field), Keyed(Range(s), field),
           NEW S, Only(s, S) # <<>>
    PROVE  /\ Last(Only(s, S)) \in Range(s) \cap S
           /\ \A o \in Range(s) \cap S : NotAfter(o, Last(Only(s, S)), field)
<1> DEFINE u == Only(s, S)
           T == Range(s)
<1>1. /\ u \in Seq(T) /\ Range(u) = T \cap S
      /\ \A i, j \in 1..Len(u) : i < j =>
            \E a, b \in 1..Len(s) : a < b /\ u[i] = s[a] /\ u[j] = s[b]
  BY OnlyIs DEF IsList
<1>2. u # <<>>
  OBVIOUS
<1> HIDE DEF u
<1>3. Len(u) \in Nat \ {0}
  BY <1>1, <1>2
<1>4. Range(u) = {u[i] : i \in 1..Len(u)}
  BY <1>1, RangeIs
<1>5. Last(u) = u[Len(u)]
  BY DEF Last
<1>6. Last(u) \in T \cap S
  BY <1>1, <1>3, <1>4, <1>5
<1>7. ASSUME NEW o \in T \cap S PROVE NotAfter(o, Last(u), field)
  <2>1. PICK i \in 1..Len(u) : o = u[i]
    BY <1>1, <1>4, <1>7
  <2>2. CASE i = Len(u)
    <3>1. o = Last(u)
      BY <2>1, <2>2, <1>5
    <3> QED BY <1>6, <3>1, NotAfterTotal
  <2>3. CASE i < Len(u)
    <3>1. PICK a, b \in 1..Len(s) : a < b /\ u[i] = s[a] /\ u[Len(u)] = s[b]
      BY <1>1, <1>3, <2>3
    <3>2. NotAfter(s[a], s[b], field)
      BY <3>1 DEF InOrder
    <3> QED BY <1>5, <2>1, <3>1, <3>2
  <2> QED BY <1>3, <2>2, <2>3
<1> QED BY <1>6, <1>7 DEF u

(* The swaps a snapshot is about, and its trades. *)
LEMMA SnapshotOrder ==
    ASSUME StateOK, UnpricedOK
    PROVE  SnapshotIsOrderFree
<1> DEFINE f == mem.feats
           T == Range(f.trades)
<1>0. /\ feed \in Feeds /\ MemoryOK(mem, feed) /\ mem.applied \subseteq feed
      /\ IsList(f.trades) /\ InOrder(f.trades, "id")
      /\ \A a, b \in T : a.id = b.id => a = b
      /\ \A o \in T : \E e \in mem.applied : TradeOf(o, e, mem.pool)
  BY DEF StateOK, MemoryOK, TradesOK
<1>1. \A e, d \in feed : e.id = d.id => e = d
  BY <1>0, FeedsAssumption
<1>2. \A e \in feed : e.id \in Int /\ e.time \in Int
  BY <1>0, FeedsAssumption
<1>3. Keyed(T, "id")
  BY <1>0, <1>2 DEF Keyed, TradeOf
<1>4. SUFFICES ASSUME NEW at \in Instants
               PROVE  LET s == Snapshot(f, at)
                          swaps == {e \in mem.applied : e.kind \in Swaps /\ e.id \notin unpriced /\ e.time <= at}
                          Bought(e) == (e.kind = "SWAP_BUY") # mem.pool.rev
                          last == CHOOSE e \in swaps : \A x \in swaps :
                                      x.time < e.time \/ (x.time = e.time /\ x.id <= e.id)
                      IN  /\ s.uniqueBuyers = Cardinality({e.user : e \in
                                                 {x \in swaps : Bought(x) /\ x.time > at - 60}})
                          /\ swaps # {} => s.price = (CHOOSE o \in T : o.id = last.id).price
  BY DEF SnapshotIsOrderFree
<1>5. at \in Int
  BY DecisionAssumption
<1> DEFINE s == Snapshot(f, at)
           swaps == {e \in mem.applied : e.kind \in Swaps /\ e.id \notin unpriced /\ e.time <= at}
           Bought(e) == (e.kind = "SWAP_BUY") # mem.pool.rev
           last == CHOOSE e \in swaps : \A x \in swaps :
                       x.time < e.time \/ (x.time = e.time /\ x.id <= e.id)
           u == Upto(f.trades, at)
<1>6. ASSUME NEW e \in swaps
      PROVE  \E o \in T : TradeOf(o, e, mem.pool) /\ o.time <= at
  <2>1. e.id \in TradeIds(mem)
    BY <1>6 DEF UnpricedOK
  <2>2. PICK o \in T : TradeOf(o, e, mem.pool)
    BY <1>0, <1>6, <2>1, PricedTrade
  <2> QED BY <1>6, <2>2 DEF TradeOf
<1>7. ASSUME NEW o \in T, o.time <= at
      PROVE  \E e \in swaps : TradeOf(o, e, mem.pool)
  <2>1. PICK e \in mem.applied : TradeOf(o, e, mem.pool)
    BY <1>0, <1>7
  <2>2. o.id \in TradeIds(mem)
    BY <1>7 DEF TradeIds
  <2> QED BY <1>7, <2>1, <2>2 DEF UnpricedOK, TradeOf
<1>8. IsList(u) /\ Range(u) = {o \in T : o.time <= at}
  BY <1>0, WindowRanges
<1>9. s.uniqueBuyers = Cardinality({e.user : e \in {x \in swaps : Bought(x) /\ x.time > at - 60}})
  <2> DEFINE b == Side(u, "BUY")
             X == {e.user : e \in {x \in swaps : Bought(x) /\ x.time > at - 60}}
  <2>1. IsList(b) /\ Range(b) = {o \in Range(u) : o.side = "BUY"}
    BY <1>8, WindowRanges
  <2>2. Range(Window(b, at, 60)) = {o \in Range(b) : at - 60 < o.time /\ o.time <= at}
    BY <2>1, WindowRanges
  <2>3. WalletsOf(Window(b, at, 60)) = {o.wallet : o \in {x \in Range(b) : at - 60 < x.time /\ x.time <= at}}
    BY <2>2 DEF WalletsOf
  <2>4. \A e \in swaps : TradeSide(mem.pool, e) = "BUY" <=> Bought(e)
    BY DEF TradeSide
  <2>5. ASSUME NEW w \in X PROVE w \in WalletsOf(Window(b, at, 60))
    <3>1. PICK e \in swaps : w = e.user /\ Bought(e) /\ e.time > at - 60
      BY <2>5
    <3>2. PICK o \in T : TradeOf(o, e, mem.pool) /\ o.time <= at
      BY <1>6
    <3>3. e.time \in Int
      BY <1>0, <1>2
    <3>4. o.wallet = w /\ o.side = "BUY" /\ at - 60 < o.time
      BY <1>5, <2>4, <3>1, <3>2, <3>3 DEF TradeOf
    <3> QED BY <1>8, <2>1, <2>3, <3>2, <3>4
  <2>6. ASSUME NEW w \in WalletsOf(Window(b, at, 60)) PROVE w \in X
    <3>1. PICK o \in T : w = o.wallet /\ o.time <= at /\ at - 60 < o.time /\ o.side = "BUY"
      BY <1>8, <2>1, <2>3, <2>6
    <3>2. PICK e \in swaps : TradeOf(o, e, mem.pool)
      BY <1>7, <3>1
    <3>3. e.time \in Int
      BY <1>0, <1>2
    <3>4. Bought(e) /\ e.time > at - 60 /\ e.user = w
      BY <1>5, <2>4, <3>1, <3>2, <3>3 DEF TradeOf
    <3> QED BY <3>4
  <2>7. X = WalletsOf(Window(b, at, 60))
    BY <2>5, <2>6
  <2>8. s.uniqueBuyers = Cardinality(WalletsOf(Window(b, at, 60)))
    BY SnapshotFields
  <2> HIDE DEF s, b
  <2> QED BY <2>7, <2>8
<1>10. ASSUME swaps # {} PROVE s.price = (CHOOSE o \in T : o.id = last.id).price
  <2> DEFINE lo == Last(u)
             Latest(e) == \A x \in swaps : x.time < e.time \/ (x.time = e.time /\ x.id <= e.id)
  <2>1. u # <<>>
    <3>1. PICK o \in T : o.time <= at
      BY <1>6, <1>10
    <3>2. o \in Range(u)
      BY <1>8, <3>1
    <3> QED BY <3>2 DEF Range
  <2>2. /\ lo \in T /\ lo.time <= at
        /\ \A o \in T : o.time <= at => NotAfter(o, lo, "id")
    <3> DEFINE W == {o \in Range(f.trades) : o.time <= at}
    <3>1. u = Only(f.trades, W)
      BY DEF Upto
    <3> HIDE DEF W
    <3>2. /\ Last(Only(f.trades, W)) \in T \cap W
          /\ \A o \in T \cap W : NotAfter(o, Last(Only(f.trades, W)), "id")
      BY <1>0, <1>3, <2>1, <3>1, LastIsLatest
    <3> QED BY <3>1, <3>2 DEF W
  <2>3. PICK e \in swaps : TradeOf(lo, e, mem.pool)
    BY <1>7, <2>2
  <2> HIDE DEF lo
  <2>4. Latest(e)
    <3> SUFFICES ASSUME NEW x \in swaps
                 PROVE  x.time < e.time \/ (x.time = e.time /\ x.id <= e.id)
      OBVIOUS
    <3>1. PICK o \in T : TradeOf(o, x, mem.pool) /\ o.time <= at
      BY <1>6
    <3>2. NotAfter(o, lo, "id")
      BY <2>2, <3>1
    <3> QED BY <2>3, <3>1, <3>2 DEF NotAfter, TradeOf
  <2>5. last \in swaps /\ Latest(last)
    <3>1. \E y \in swaps : Latest(y)
      BY <2>4
    <3>2. last = CHOOSE y \in swaps : Latest(y)
      OBVIOUS
    <3> HIDE DEF last, Latest, swaps
    <3> QED BY <3>1, <3>2
  <2> HIDE DEF last
  <2>6. last = e
    <3>1. last \in feed /\ e \in feed
      BY <1>0, <2>5
    <3>2. last.time < e.time \/ (last.time = e.time /\ last.id <= e.id)
      BY <2>4, <2>5
    <3>3. e.time < last.time \/ (e.time = last.time /\ e.id <= last.id)
      BY <2>5
    <3> QED BY <1>1, <1>2, <3>1, <3>2, <3>3
  <2>7. (CHOOSE o \in T : o.id = last.id) = lo
    <3>1. lo.id = last.id
      BY <2>3, <2>6 DEF TradeOf
    <3>2. \A o \in T : o.id = last.id => o = lo
      BY <1>0, <2>2, <3>1
    <3> HIDE DEF T
    <3> QED BY <2>2, <3>1, <3>2
  <2>8. s.price = lo.price
    BY <2>1, SnapshotFields DEF lo
  <2> QED BY <2>7, <2>8
<1> QED BY <1>9, <1>10

(* What is kept of the buyers is what the applied buys say. *)
LEMMA BookIsExact ==
    ASSUME feed \in Feeds, mem.applied \subseteq feed, AnalysisOK(mem)
    PROVE  BuyerStateIsExact
<1> DEFINE E == BuysIn(mem.applied)
           S == UsersOf(E)
           bk == mem.book
           ev == bk.evidence
           Total(w) == MapThenSumSet(LAMBDA e : Buy(e).amount, BuysOf(w))
           First(w) == <<Min({e.time : e \in BuysOf(w)}), w>>
           Top(w) == <<-Total(w), w>>
<1>1. AppliedBuys = E /\ Buyers = S /\ \A w : BuysOf(w) = By(E, w)
  BY DEF AppliedBuys, BuysIn, IsBuy, Buyers, UsersOf, BuysOf, By
<1>2. BuysOK(E, feed) /\ BookOK(bk, E)
  BY DEF BuysOK, BuysIn, AnalysisOK
<1>3. EvidenceOK(ev, E) /\ FirstOK(bk.first, E) /\ IsTop(bk.top, ev, S)
  BY <1>2 DEF BookOK, EvidenceOK
<1>4. IsFiniteSet(S)
  BY <1>2, BuyTypes
<1>5. \A w : Total(w) = AmountsOf(By(E, w)) /\ First(w) = <<FirstTime(E, w), w>>
  BY <1>1 DEF AmountsOf, FirstTime
<1> HIDE DEF E, bk
<1>6. DOMAIN ev = S /\ \A w \in S : ev[w] = EvidenceOf(E, w)
  BY <1>3 DEF EvidenceOK
<1>7. \A w \in S :
         ev[w] = [total |-> Total(w), slots |-> {e.slot : e \in BuysOf(w)},
                  bundles |-> {e.bundle : e \in BuysOf(w)} \ {NoBundle},
                  amounts |-> {Buy(e).amount : e \in BuysOf(w)} \ {0}]
  <2> HIDE DEF Total
  <2> QED BY <1>1, <1>5, <1>6 DEF EvidenceOf
<1>8. Range(bk.first) = Ranked(S, First)
  <2> DEFINE O == {p \in S \X S : Before(E, p[1], p[2])}
             T == Range(bk.first)
  <2>1. /\ bk.first \in Seq(S) /\ Distinct(bk.first) /\ Len(bk.first) <= Limit
        /\ T = S \/ Len(bk.first) = Limit
        /\ \A t \in T : \A s \in S \ T : Before(E, t, s)
    BY <1>3 DEF FirstOK
  <2>2. T \in SUBSET S /\ Cardinality(T) = Len(bk.first)
    <3> DEFINE l == bk.first
    <3>1. l \in Seq(S) /\ Distinct(l)
      BY <2>1
    <3> HIDE DEF l, S
    <3>2. Range(l) \subseteq S /\ Cardinality(Range(l)) = Len(l)
      BY <3>1, RangeIs, DistinctCount
    <3> QED BY <3>2 DEF l
  <2>3. \A w \in S : FirstTime(E, w) \in Int /\ w \in Int
    BY <1>2, FirstTimeIs
  <2>4. \A a \in S : <<a, a>> \notin O
    BY <2>3 DEF Before
  <2>5. \A t \in T : \A s \in S \ T : <<t, s>> \in O /\ <<s, t>> \notin O
    <3> SUFFICES ASSUME NEW t \in T, NEW s \in S \ T PROVE <<t, s>> \in O /\ <<s, t>> \notin O
      OBVIOUS
    <3>1. t \in S /\ Before(E, t, s)
      BY <2>1, <2>2
    <3>2. ~Before(E, s, t)
      BY <2>3, <3>1 DEF Before
    <3> QED BY <3>1, <3>2
  <2>6. {w \in S : Cardinality({v \in S : <<v, w>> \in O}) < Limit} = T
    <3>1. Cardinality(T) <= Limit /\ (T = S \/ Cardinality(T) = Limit) /\ T \in SUBSET S
      BY <2>1, <2>2
    <3> HIDE DEF O, S, T
    <3> QED BY <1>4, <2>4, <2>5, <3>1, FirstOnes
  <2>7. \A v, w \in S : LexLess(First(v), First(w)) <=> <<v, w>> \in O
    <3> HIDE DEF First, S
    <3> QED BY <1>5 DEF LexLess, Before
  <2>8. \A w \in S : {v \in S : LexLess(First(v), First(w))} = {v \in S : <<v, w>> \in O}
    <3> HIDE DEF First, S, O
    <3> QED BY <2>7
  <2> HIDE DEF First, S, O, T
  <2> QED BY <2>6, <2>8 DEF Ranked, T
<1>9. Range(bk.top) = Ranked(S, Top)
  <2> DEFINE O == {p \in S \X S : AboveIn(ev, p[1], p[2])}
             T == Range(bk.top)
  <2>0. Totals(ev, S)
    <3>1. Totals(ev, DOMAIN ev)
      BY <1>2, <1>3, EvidenceTotals
    <3> QED BY <1>6, <3>1
  <2>1. /\ T \in SUBSET S /\ Len(bk.top) <= Limit
        /\ T = S \/ Len(bk.top) = Limit
        /\ \A t \in T : \A s \in S \ T : AboveIn(ev, t, s)
    BY <1>3 DEF IsTop
  <2>2. Cardinality(T) = Len(bk.top)
    <3> HIDE DEF S, ev
    <3> QED BY <1>3, <2>0, TopIsDistinct
  <2>4. \A a \in S : <<a, a>> \notin O
    BY <2>0, AboveIsOrder
  <2>5. \A t \in T : \A s \in S \ T : <<t, s>> \in O /\ <<s, t>> \notin O
    <3> SUFFICES ASSUME NEW t \in T, NEW s \in S \ T PROVE <<t, s>> \in O /\ <<s, t>> \notin O
      OBVIOUS
    <3>1. t \in S /\ AboveIn(ev, t, s)
      BY <2>1
    <3>2. ~AboveIn(ev, s, t)
      BY <2>0, <3>1, AboveIsOrder
    <3> QED BY <3>1, <3>2
  <2>6. {w \in S : Cardinality({v \in S : <<v, w>> \in O}) < Limit} = T
    <3>1. Cardinality(T) <= Limit /\ (T = S \/ Cardinality(T) = Limit) /\ T \in SUBSET S
      BY <2>1, <2>2
    <3> HIDE DEF O, S, T
    <3> QED BY <1>4, <2>4, <2>5, <3>1, FirstOnes
  <2>7. \A v, w \in S : LexLess(Top(v), Top(w)) <=> <<v, w>> \in O
    <3> SUFFICES ASSUME NEW v \in S, NEW w \in S
                 PROVE  LexLess(Top(v), Top(w)) <=> AboveIn(ev, v, w)
      OBVIOUS
    <3>1. ev[v].total = Total(v) /\ ev[w].total = Total(w)
      <4>1. ev[v] = EvidenceOf(E, v) /\ ev[w] = EvidenceOf(E, w)
        BY <1>6
      <4> HIDE DEF Total
      <4> QED BY <1>5, <4>1 DEF EvidenceOf
    <3>2. ev[v].total \in Int /\ ev[w].total \in Int
      BY <2>0 DEF Totals
    <3> HIDE DEF Total, S, ev
    <3> QED BY <3>1, <3>2 DEF LexLess, AboveIn
  <2>8. \A w \in S : {v \in S : LexLess(Top(v), Top(w))} = {v \in S : <<v, w>> \in O}
    <3> HIDE DEF Top, S, O
    <3> QED BY <2>7
  <2> HIDE DEF Top, S, O, T
  <2> QED BY <2>6, <2>8 DEF Ranked, T
<1>10. DOMAIN mem.book.evidence = Buyers
  BY <1>1, <1>6 DEF bk
<1> HIDE DEF Total, First, Top
<1> QED BY <1>1, <1>7, <1>8, <1>9, <1>10 DEF BuyerStateIsExact, Total, First, Top, bk

-----------------------------------------------------------------------------
(* The relations *)

Kinds == {"slot", "bundle", "amount"}

(* What the buys of two wallets share *)
SharedBy(E, a, b) ==
    {n \in Kinds :
        \E e \in By(E, a), d \in By(E, b) :
           CASE n = "slot" -> e.slot = d.slot
             [] n = "bundle" -> e.bundle = d.bundle /\ e.bundle # NoBundle
             [] n = "amount" -> Buy(e).amount = Buy(d).amount /\ Buy(e).amount > 0}

(* What two wallets share, kind by kind, whichever comes first. *)
LEMMA SharedKinds ==
    ASSUME NEW E, NEW a, NEW b
    PROVE  /\ \A n : n \in SharedBy(E, a, b) <=>
                 \/ n = "slot" /\ \E e \in By(E, a), d \in By(E, b) : e.slot = d.slot
                 \/ n = "bundle" /\ \E e \in By(E, a), d \in By(E, b) :
                                       e.bundle = d.bundle /\ e.bundle # NoBundle
                 \/ n = "amount" /\ \E e \in By(E, a), d \in By(E, b) :
                                       Buy(e).amount = Buy(d).amount /\ Buy(e).amount > 0
           /\ SharedBy(E, a, b) = SharedBy(E, b, a)
<1>1. ASSUME NEW x, NEW y, NEW n
      PROVE  n \in SharedBy(E, x, y) <=>
                 \/ n = "slot" /\ \E e \in By(E, x), d \in By(E, y) : e.slot = d.slot
                 \/ n = "bundle" /\ \E e \in By(E, x), d \in By(E, y) :
                                       e.bundle = d.bundle /\ e.bundle # NoBundle
                 \/ n = "amount" /\ \E e \in By(E, x), d \in By(E, y) :
                                       Buy(e).amount = Buy(d).amount /\ Buy(e).amount > 0
  <2>1. CASE n = "slot"
    BY <2>1 DEF SharedBy, Kinds
  <2>2. CASE n = "bundle"
    BY <2>2 DEF SharedBy, Kinds
  <2>3. CASE n = "amount"
    BY <2>3 DEF SharedBy, Kinds
  <2>4. CASE n \notin Kinds
    BY <2>4 DEF SharedBy, Kinds
  <2> QED BY <2>1, <2>2, <2>3, <2>4 DEF Kinds
<1>2. \A n : n \in SharedBy(E, a, b) <=> n \in SharedBy(E, b, a)
  <2> SUFFICES ASSUME NEW n PROVE n \in SharedBy(E, a, b) <=> n \in SharedBy(E, b, a)
    OBVIOUS
  <2> QED BY <1>1
<1> QED BY <1>1, <1>2

(* More buys share more; the buys of other wallets change nothing. *)
LEMMA SharedGrows ==
    ASSUME NEW E, NEW e, NEW a, NEW b
    PROVE  /\ SharedBy(E, a, b) \subseteq SharedBy(E \cup {e}, a, b)
           /\ e.user # a /\ e.user # b => SharedBy(E \cup {e}, a, b) = SharedBy(E, a, b)
<1>1. /\ By(E, a) \subseteq By(E \cup {e}, a) /\ By(E, b) \subseteq By(E \cup {e}, b)
      /\ e.user # a => By(E \cup {e}, a) = By(E, a)
      /\ e.user # b => By(E \cup {e}, b) = By(E, b)
  BY DEF By
<1>2. SharedBy(E, a, b) \subseteq SharedBy(E \cup {e}, a, b)
  <2> SUFFICES ASSUME NEW n \in SharedBy(E, a, b) PROVE n \in SharedBy(E \cup {e}, a, b)
    OBVIOUS
  <2>1. \/ n = "slot" /\ \E x \in By(E, a), y \in By(E, b) : x.slot = y.slot
        \/ n = "bundle" /\ \E x \in By(E, a), y \in By(E, b) : x.bundle = y.bundle /\ x.bundle # NoBundle
        \/ n = "amount" /\ \E x \in By(E, a), y \in By(E, b) :
                              Buy(x).amount = Buy(y).amount /\ Buy(x).amount > 0
    BY SharedKinds
  <2> DEFINE A == By(E \cup {e}, a)
             B == By(E \cup {e}, b)
  <2>2. \/ n = "slot" /\ \E x \in A, y \in B : x.slot = y.slot
        \/ n = "bundle" /\ \E x \in A, y \in B : x.bundle = y.bundle /\ x.bundle # NoBundle
        \/ n = "amount" /\ \E x \in A, y \in B :
                              Buy(x).amount = Buy(y).amount /\ Buy(x).amount > 0
    <3> HIDE DEF A, B
    <3> QED BY <1>1, <2>1 DEF A, B
  <2> QED BY <2>2, SharedKinds
<1> QED BY <1>1, <1>2 DEF SharedBy

(* Shared finds what the buys share. *)
LEMMA SharedIs ==
    ASSUME NEW f, NEW E, BuysOK(E, f), NEW ev, EvidenceOK(ev, E), NEW fs,
           NEW a \in UsersOf(E), NEW b \in UsersOf(E)
    PROVE  Shared(fs, ev, a, b) \ Strong = SharedBy(E, a, b)
<1> DEFINE A == By(E, a)
           B == By(E, b)
<1>1. ev[a] = EvidenceOf(E, a) /\ ev[b] = EvidenceOf(E, b)
  BY DEF EvidenceOK
<1>2. /\ ev[a].slots = {e.slot : e \in A} /\ ev[b].slots = {e.slot : e \in B}
      /\ ev[a].bundles = {e.bundle : e \in A} \ {NoBundle}
      /\ ev[b].bundles = {e.bundle : e \in B} \ {NoBundle}
      /\ ev[a].amounts = {Buy(e).amount : e \in A} \ {0}
      /\ ev[b].amounts = {Buy(e).amount : e \in B} \ {0}
  BY <1>1 DEF EvidenceOf
<1>3. \A e \in A : Buy(e).amount \in Nat
  <2>1. A \subseteq E /\ \A e \in E : AmountOf(e) \in Nat
    BY BuyTypes
  <2> QED BY <2>1 DEF AmountOf
<1> HIDE DEF A, B
<1>4. \A n : n \in Shared(fs, ev, a, b) \ Strong <=>
         \/ n = "slot" /\ ev[a].slots \cap ev[b].slots # {}
         \/ n = "bundle" /\ ev[a].bundles \cap ev[b].bundles # {}
         \/ n = "amount" /\ ev[a].amounts \cap ev[b].amounts # {}
  <2> SUFFICES ASSUME NEW n
               PROVE  n \in Shared(fs, ev, a, b) \ Strong <=>
                         \/ n = "slot" /\ ev[a].slots \cap ev[b].slots # {}
                         \/ n = "bundle" /\ ev[a].bundles \cap ev[b].bundles # {}
                         \/ n = "amount" /\ ev[a].amounts \cap ev[b].amounts # {}
    OBVIOUS
  <2>0. DOMAIN Weight = {"funder", "slot", "bundle", "amount"} /\ Strong = {"funder"}
    BY DEF Weight, Strong
  <2>1. CASE n = "slot"
    BY <2>0, <2>1 DEF Shared
  <2>2. CASE n = "bundle"
    BY <2>0, <2>2 DEF Shared
  <2>3. CASE n = "amount"
    BY <2>0, <2>3 DEF Shared
  <2>4. CASE n = "funder"
    BY <2>0, <2>4
  <2>5. CASE n \notin {"funder", "slot", "bundle", "amount"}
    BY <2>0, <2>5 DEF Shared
  <2> QED BY <2>1, <2>2, <2>3, <2>4, <2>5
<1>5. ev[a].slots \cap ev[b].slots # {} <=> \E e \in A, d \in B : e.slot = d.slot
  BY <1>2
<1>6. ev[a].bundles \cap ev[b].bundles # {} <=>
         \E e \in A, d \in B : e.bundle = d.bundle /\ e.bundle # NoBundle
  BY <1>2
<1>7. ev[a].amounts \cap ev[b].amounts # {} <=>
         \E e \in A, d \in B : Buy(e).amount = Buy(d).amount /\ Buy(e).amount > 0
  <2> DEFINE Am(x) == Buy(x).amount
  <2>1. /\ ev[a].amounts = {Am(x) : x \in A} \ {0} /\ ev[b].amounts = {Am(x) : x \in B} \ {0}
        /\ \A x \in A : Am(x) \in Nat
    BY <1>2, <1>3
  <2> HIDE DEF Am
  <2>2. \A x \in A : Am(x) # 0 <=> Am(x) > 0
    BY <2>1
  <2>3. ev[a].amounts \cap ev[b].amounts # {} <=> \E e \in A, d \in B : Am(e) = Am(d) /\ Am(e) # 0
    BY <2>1, Zenon
  <2>4. ev[a].amounts \cap ev[b].amounts # {} <=> \E e \in A, d \in B : Am(e) = Am(d) /\ Am(e) > 0
    BY <2>2, <2>3, Zenon
  <2> QED BY <2>4 DEF Am
<1>8. \A n : n \in SharedBy(E, a, b) <=>
                 \/ n = "slot" /\ \E e \in A, d \in B : e.slot = d.slot
                 \/ n = "bundle" /\ \E e \in A, d \in B : e.bundle = d.bundle /\ e.bundle # NoBundle
                 \/ n = "amount" /\ \E e \in A, d \in B :
                                       Buy(e).amount = Buy(d).amount /\ Buy(e).amount > 0
  BY SharedKinds DEF A, B
<1>9. \A n : n \in Shared(fs, ev, a, b) \ Strong <=> n \in SharedBy(E, a, b)
  <2> SUFFICES ASSUME NEW n PROVE n \in Shared(fs, ev, a, b) \ Strong <=> n \in SharedBy(E, a, b)
    OBVIOUS
  <2> QED BY <1>4, <1>5, <1>6, <1>7, <1>8
<1> QED BY <1>9

(* What _recompute_relations finds of the pairs of w in S, and what it keeps *)
Recomputed(rs, fs, w, S, ev, new) ==
    /\ DOMAIN rs \subseteq DOMAIN new
    /\ \A p \in DOMAIN new :
          \/ p \in DOMAIN rs /\ new[p] = rs[p]
          \/ \E o \in S \ {w} : /\ w \in S /\ p = {w, o}
                                /\ new[p] = Shared(fs, ev, w, o)
    /\ w \in S => \A o \in S \ {w} :
          Shared(fs, ev, w, o) # {} =>
             {w, o} \in DOMAIN new /\ new[{w, o}] = Shared(fs, ev, w, o)
    /\ \A p \in DOMAIN new : w \notin p => p \in DOMAIN rs /\ new[p] = rs[p]
    /\ w \in S => \A o \in S \ {w} :
          Shared(fs, ev, w, o) = {} /\ {w, o} \in DOMAIN new =>
             {w, o} \in DOMAIN rs /\ new[{w, o}] = rs[{w, o}]

(* The relations are recomputed. *)
LEMMA RecomputeIs ==
    ASSUME NEW rs, NEW fs, NEW w, NEW st
    PROVE  Recomputed(rs, fs, w, st.scope, st.evidence, RecomputeRelations(rs, fs, w, st))
<1> DEFINE pairs == IF w \in st.scope THEN {{w, o} : o \in st.scope \ {w}} ELSE {}
           found == [p \in pairs |-> Shared(fs, st.evidence, w, CHOOSE o \in p : o # w)]
           more == {q \in pairs : found[q] # {}}
           new == RecomputeRelations(rs, fs, w, st)
<1>1. new = [p \in DOMAIN rs \cup more |-> IF p \in more THEN found[p] ELSE rs[p]]
  BY DEF RecomputeRelations
<1>2. \A o : o # w => (CHOOSE x \in {w, o} : x # w) = o
  OBVIOUS
<1>3. \A p \in pairs : \E o \in st.scope \ {w} : w \in st.scope /\ p = {w, o}
  OBVIOUS
<1>4. w \in st.scope => \A o \in st.scope \ {w} :
         {w, o} \in pairs /\ found[{w, o}] = Shared(fs, st.evidence, w, o)
  BY <1>2
<1> HIDE DEF pairs, found, new
<1>5. \A p \in DOMAIN new :
         \/ p \in DOMAIN rs /\ new[p] = rs[p]
         \/ \E o \in st.scope \ {w} : /\ w \in st.scope /\ p = {w, o}
                                      /\ new[p] = Shared(fs, st.evidence, w, o)
  <2> SUFFICES ASSUME NEW p \in DOMAIN new, ~(p \in DOMAIN rs /\ new[p] = rs[p])
               PROVE  \E o \in st.scope \ {w} : /\ w \in st.scope /\ p = {w, o}
                                                /\ new[p] = Shared(fs, st.evidence, w, o)
    OBVIOUS
  <2>1. p \in more /\ new[p] = found[p]
    BY <1>1
  <2>2. PICK o \in st.scope \ {w} : w \in st.scope /\ p = {w, o}
    BY <1>3, <2>1
  <2> QED BY <1>4, <2>1, <2>2
<1>6. w \in st.scope => \A o \in st.scope \ {w} :
         Shared(fs, st.evidence, w, o) # {} =>
            {w, o} \in DOMAIN new /\ new[{w, o}] = Shared(fs, st.evidence, w, o)
  BY <1>1, <1>4
<1>7. \A p \in DOMAIN new : w \notin p => p \in DOMAIN rs /\ new[p] = rs[p]
  <2>1. \A p \in more : w \in p
    BY <1>3
  <2> QED BY <1>1, <2>1
<1>8. w \in st.scope => \A o \in st.scope \ {w} :
         Shared(fs, st.evidence, w, o) = {} /\ {w, o} \in DOMAIN new =>
            {w, o} \in DOMAIN rs /\ new[{w, o}] = rs[{w, o}]
  BY <1>1, <1>4
<1>9. DOMAIN rs \subseteq DOMAIN new
  BY <1>1
<1> QED BY <1>5, <1>6, <1>7, <1>8, <1>9 DEF Recomputed, new

Found(rs, p) == IF p \in DOMAIN rs THEN rs[p] ELSE {}
ScopeOf(bk) == Range(bk.first) \cup Range(bk.top)

(* Relations say what is shared, all of it within the scope. *)
Sound(rs, E) ==
    \A a, b : a # b /\ {a, b} \in DOMAIN rs => rs[{a, b}] \ Strong \subseteq SharedBy(E, a, b)
Complete(rs, S, E) ==
    \A a, b \in S : a # b => Found(rs, {a, b}) \ Strong = SharedBy(E, a, b)

(* A buy that is not late keeps them sound and complete. *)
LEMMA ObserveRelations ==
    ASSUME NEW f, NEW E, NEW e, e \notin E, BuysOK(E \cup {e}, f), NEW bk, BookOK(bk, E),
           ~Late(bk, Buy(e)), NEW rs, NEW fs, Sound(rs, E), Complete(rs, ScopeOf(bk), E)
    PROVE  LET new == ObserveBuyer(bk, Buy(e))
               more == RecomputeRelations(rs, fs, e.user, RelationState(bk, new, Buy(e)))
           IN  Sound(more, E \cup {e}) /\ Complete(more, ScopeOf(new), E \cup {e})
<1> DEFINE D == E \cup {e}
           w == e.user
           new == ObserveBuyer(bk, Buy(e))
           st == RelationState(bk, new, Buy(e))
           more == RecomputeRelations(rs, fs, w, st)
           S == ScopeOf(new)
<1>1. BookOK(new, D) /\ S \subseteq ScopeOf(bk) \cup {w}
  BY ObserveBook DEF ScopeOf
<1> HIDE DEF new
<1>2. st.evidence = new.evidence /\ st.scope = S
  BY DEF RelationState, ScopeOf
<1>3. EvidenceOK(st.evidence, D)
  BY <1>1, <1>2 DEF BookOK
<1>4. S \subseteq UsersOf(D)
  <2>1. Range(new.first) \subseteq UsersOf(D)
    BY <1>1, RangeIs DEF BookOK, FirstOK
  <2>2. Range(new.top) \subseteq UsersOf(D)
    BY <1>1 DEF BookOK, IsTop, EvidenceOK
  <2> QED BY <2>1, <2>2 DEF ScopeOf
<1> HIDE DEF st, S, D
<1>5. \A a, b \in S : Shared(fs, st.evidence, a, b) \ Strong = SharedBy(D, a, b)
  BY <1>3, <1>4, SharedIs DEF D
<1>6. \A a, b : SharedBy(E, a, b) \subseteq SharedBy(D, a, b)
               /\ (w # a /\ w # b => SharedBy(D, a, b) = SharedBy(E, a, b))
  BY SharedGrows DEF D
<1>7. /\ \A p \in DOMAIN more :
            \/ p \in DOMAIN rs /\ more[p] = rs[p]
            \/ \E o \in S \ {w} : w \in S /\ p = {w, o} /\ more[p] = Shared(fs, st.evidence, w, o)
      /\ w \in S => \A o \in S \ {w} :
            Shared(fs, st.evidence, w, o) # {} =>
               {w, o} \in DOMAIN more /\ more[{w, o}] = Shared(fs, st.evidence, w, o)
      /\ \A p \in DOMAIN more : w \notin p => p \in DOMAIN rs /\ more[p] = rs[p]
      /\ w \in S => \A o \in S \ {w} :
            Shared(fs, st.evidence, w, o) = {} /\ {w, o} \in DOMAIN more =>
               {w, o} \in DOMAIN rs /\ more[{w, o}] = rs[{w, o}]
      /\ DOMAIN rs \subseteq DOMAIN more
  <2> HIDE DEF w
  <2>1. Recomputed(rs, fs, w, st.scope, st.evidence, more)
    <3> HIDE DEF st
    <3> QED BY RecomputeIs
  <2> HIDE DEF more
  <2>2. st.scope = S
    BY <1>2
  <2> HIDE DEF st, S
  <2> QED BY <2>1, <2>2 DEF Recomputed
<1> HIDE DEF more
<1>8. \A a, b : SharedBy(D, a, b) = SharedBy(D, b, a)
  BY SharedKinds
<1>9. Sound(more, D)
  <2> SUFFICES ASSUME NEW a, NEW b, a # b, {a, b} \in DOMAIN more
               PROVE  more[{a, b}] \ Strong \subseteq SharedBy(D, a, b)
    BY DEF Sound
  <2>1. CASE {a, b} \in DOMAIN rs /\ more[{a, b}] = rs[{a, b}]
    <3>1. rs[{a, b}] \ Strong \subseteq SharedBy(E, a, b)
      BY <2>1 DEF Sound
    <3> QED BY <1>6, <2>1, <3>1
  <2>2. CASE ~({a, b} \in DOMAIN rs /\ more[{a, b}] = rs[{a, b}])
    <3>1. PICK o \in S \ {w} : w \in S /\ {a, b} = {w, o} /\ more[{a, b}] = Shared(fs, st.evidence, w, o)
      BY <1>7, <2>2
    <3>2. (a = w /\ b = o) \/ (a = o /\ b = w)
      BY <3>1
    <3>3. more[{a, b}] \ Strong = SharedBy(D, w, o)
      BY <1>5, <3>1
    <3> QED BY <1>8, <3>2, <3>3
  <2> QED BY <2>1, <2>2
<1>10. ASSUME NEW o \in S, o # w, w \in S
       PROVE  Found(more, {w, o}) \ Strong = SharedBy(D, w, o)
  <2> DEFINE sh == Shared(fs, st.evidence, w, o)
  <2>1. sh \ Strong = SharedBy(D, w, o)
    BY <1>5, <1>10
  <2> HIDE DEF w
  <2>2. CASE sh # {}
    <3>1. {w, o} \in DOMAIN more /\ more[{w, o}] = sh
      BY <1>7, <1>10, <2>2
    <3> QED BY <2>1, <3>1 DEF Found
  <2>3. CASE sh = {}
    <3>1. SharedBy(D, w, o) = {}
      BY <2>1, <2>3
    <3>2. CASE {w, o} \notin DOMAIN more
      BY <3>1, <3>2 DEF Found
    <3>3. CASE {w, o} \in DOMAIN more
      <4>1. more[{w, o}] \ Strong \subseteq SharedBy(D, w, o)
        BY <1>9, <1>10, <3>3 DEF Sound
      <4> QED BY <3>1, <3>3, <4>1 DEF Found
    <3> QED BY <3>2, <3>3
  <2> QED BY <2>2, <2>3
<1>11. Complete(more, S, D)
  <2> SUFFICES ASSUME NEW a \in S, NEW b \in S, a # b
               PROVE  Found(more, {a, b}) \ Strong = SharedBy(D, a, b)
    BY DEF Complete
  <2>1. CASE a = w
    BY <1>10, <2>1
  <2>2. CASE b = w
    <3>1. Found(more, {w, a}) \ Strong = SharedBy(D, w, a)
      BY <1>10, <2>2
    <3>2. {w, a} = {a, b}
      BY <2>2
    <3> QED BY <1>8, <2>2, <3>1, <3>2
  <2>3. CASE a # w /\ b # w
    <3>1. a \in ScopeOf(bk) /\ b \in ScopeOf(bk)
      BY <1>1, <2>3
    <3>2. Found(rs, {a, b}) \ Strong = SharedBy(E, a, b)
      BY <3>1 DEF Complete
    <3>3. Found(more, {a, b}) = Found(rs, {a, b})
      BY <1>7, <2>3 DEF Found
    <3> QED BY <1>6, <2>3, <3>2, <3>3
  <2> QED BY <2>1, <2>2, <2>3
<1> QED BY <1>9, <1>11 DEF D, S, more, st, new

(* A buy after the others is not late. *)
LEMMA AfterNotLate ==
    ASSUME NEW E, NEW e, NEW bk, BookOK(bk, E), After(E, e) PROVE ~Late(bk, Buy(e))
<1> SUFFICES ASSUME bk.buys # <<>> PROVE NotAfter(Last(bk.buys), Buy(e), "wallet")
  BY DEF Late
<1>1. PICK evs : IsBuyList(bk.buys, evs, E)
  BY DEF BookOK
<1>2. /\ evs \in Seq(E) /\ bk.buys \in Seq(BuyRecords(E)) /\ Len(bk.buys) = Len(evs)
      /\ \A i \in 1..Len(evs) : bk.buys[i] = Buy(evs[i])
  BY <1>1 DEF IsBuyList
<1>3. Len(evs) \in 1..Len(evs)
  BY <1>2
<1>4. Last(bk.buys) = Buy(evs[Len(evs)]) /\ evs[Len(evs)] \in E
  BY <1>2, <1>3 DEF Last
<1> QED BY <1>4 DEF After

(* The buys of A arrived in order. *)
BuysInOrder(s, A) ==
    \A i, j \in DOMAIN s :
        (i < j /\ {s[i], s[j]} \subseteq A) => NotAfter(Buy(s[i]), Buy(s[j]), "wallet")

(* A list in order is so up to its last buy, which is after the others. *)
LEMMA OrderOfLast ==
    ASSUME NEW S, NEW s \in Seq(S), NEW e, NEW A, NEW B, A \subseteq B,
           A \subseteq Range(s), BuysInOrder(Append(s, e), B)
    PROVE  BuysInOrder(s, A) /\ (e \in B => After(A, e))
<1> DEFINE t == Append(s, e)
<1>1. /\ Len(s) \in Nat /\ DOMAIN s = 1..Len(s) /\ DOMAIN t = 1..(Len(s) + 1)
      /\ t[Len(s) + 1] = e /\ \A i \in 1..Len(s) : t[i] = s[i]
  OBVIOUS
<1> HIDE DEF t
<1>2. \A i, j \in DOMAIN t :
         (i < j /\ {t[i], t[j]} \subseteq B) => NotAfter(Buy(t[i]), Buy(t[j]), "wallet")
  BY DEF BuysInOrder, t
<1>3. BuysInOrder(s, A)
  <2> SUFFICES ASSUME NEW i \in DOMAIN s, NEW j \in DOMAIN s, i < j, {s[i], s[j]} \subseteq A
               PROVE  NotAfter(Buy(s[i]), Buy(s[j]), "wallet")
    BY DEF BuysInOrder
  <2>1. i \in DOMAIN t /\ j \in DOMAIN t /\ t[i] = s[i] /\ t[j] = s[j]
    BY <1>1
  <2> QED BY <1>2, <2>1
<1>4. ASSUME e \in B, NEW d \in A PROVE NotAfter(Buy(d), Buy(e), "wallet")
  <2>1. PICK i \in 1..Len(s) : s[i] = d
    BY RangeIs
  <2>2. i \in DOMAIN t /\ Len(s) + 1 \in DOMAIN t /\ i < Len(s) + 1 /\ t[i] = d
        /\ t[Len(s) + 1] = e
    BY <1>1, <2>1
  <2>3. {t[i], t[Len(s) + 1]} \subseteq B
    BY <1>4, <2>2
  <2>4. NotAfter(Buy(t[i]), Buy(t[Len(s) + 1]), "wallet")
    BY <1>2, <2>2, <2>3
  <2> QED BY <2>2, <2>4
<1> QED BY <1>3, <1>4 DEF After

RelationsExact(m) ==
    /\ Sound(m.relations, BuysIn(m.applied))
    /\ Complete(m.relations, ScopeOf(m.book), BuysIn(m.applied))

(* While nothing restarted and the buys arrive in order, relations are exact. *)
RelationsOK ==
    /\ restarts \in Nat
    /\ restarts = 0 /\ BuysInOrder(processed, BuysIn(mem.applied)) => RelationsExact(mem)

(* An event keeps the relations exact, a buy when it is not late. *)
LEMMA ApplyRelations ==
    ASSUME NEW f \in Feeds, NEW m, MemoryOK(m, f), NEW e \in f, e \notin m.applied,
           NEW price, NEW live, RelationsExact(m),
           IsBuy(e) => After(BuysIn(m.applied), e)
    PROVE  RelationsExact(ApplyEvent(m, e, price, live))
<1> DEFINE n == ApplyEvent(m, e, price, live)
           E == BuysIn(m.applied)
           D == BuysIn(n.applied)
<1>0. Shaped(m) /\ m.applied \subseteq f /\ AnalysisOK(m)
  BY DEF MemoryOK
<1>1. n.book = BookAfter(m, e) /\ n.relations = RelationsAfter(m, e) /\ n.applied = m.applied \cup {e}
  BY <1>0, ApplyFields
<1> HIDE DEF n
<1>2. BuysOK(D, f) /\ BuysOK(E, f)
  BY <1>0, <1>1 DEF BuysOK, BuysIn
<1>3. Sound(m.relations, E) /\ Complete(m.relations, ScopeOf(m.book), E)
  BY DEF RelationsExact
<1>4. CASE ~IsBuy(e)
  <2>1. D = E
    BY <1>1, <1>4 DEF BuysIn
  <2>2. n.book = m.book /\ n.relations = m.relations
    BY <1>1, <1>4 DEF BookAfter, RelationsAfter
  <2> HIDE DEF D, E
  <2> QED BY <1>3, <2>1, <2>2 DEF RelationsExact, D, n
<1>5. CASE IsBuy(e)
  <2>1. D = E \cup {e} /\ e \notin E
    BY <1>1, <1>5 DEF BuysIn
  <2> DEFINE bk == m.book
             rs == m.relations
             fs == FunderAfter(m, e)
             new == ObserveBuyer(bk, Buy(e))
             more == RecomputeRelations(rs, fs, e.user, RelationState(bk, new, Buy(e)))
  <2>2. n.book = new /\ n.relations = more
    BY <1>1, <1>5 DEF BookAfter, RelationsAfter
  <2>3. BookOK(bk, E) /\ After(E, e)
    BY <1>0, <1>5 DEF AnalysisOK
  <2>4. Sound(rs, E) /\ Complete(rs, ScopeOf(bk), E)
    BY <1>3
  <2> HIDE DEF D, E, bk, rs, fs
  <2>5. ~Late(bk, Buy(e))
    BY <2>3, AfterNotLate
  <2>6. BuysOK(E \cup {e}, f)
    BY <1>2, <2>1
  <2>7. Sound(more, E \cup {e}) /\ Complete(more, ScopeOf(new), E \cup {e})
    BY <2>1, <2>3, <2>4, <2>5, <2>6, ObserveRelations
  <2> HIDE DEF new, more
  <2> QED BY <2>1, <2>2, <2>7 DEF RelationsExact, D, n
<1> QED BY <1>4, <1>5

(* Processing an event keeps them. *)
LEMMA ProcessKeepsRelations ==
    ASSUME StateOK, RelationsOK, NEW e, ProcessEvent(e) PROVE RelationsOK'
<1>1. /\ e \in feed \ Range(processed) /\ processed' = Append(processed, e)
      /\ mem' = IF Filtered(mem.pool, e) THEN mem ELSE ApplyEvent(mem, e, usd, TRUE)
      /\ feed' = feed /\ restarts' = restarts
  BY DEF ProcessEvent
<1>2. /\ feed \in Feeds /\ processed \in Seq(feed) /\ MemoryOK(mem, feed)
      /\ mem.applied \subseteq Range(processed) /\ Shaped(mem)
  BY DEF StateOK, MemoryOK
<1>3. PICK live : live = TRUE
  OBVIOUS
<1>4. mem' = IF Filtered(mem.pool, e) THEN mem ELSE ApplyEvent(mem, e, usd, live)
  BY <1>1, <1>3
<1>5. e \in feed /\ e \notin mem.applied
  BY <1>1, <1>2
<1> DEFINE A == BuysIn(mem.applied)
           B == BuysIn(mem'.applied)
<1>6. mem'.applied \in {mem.applied, mem.applied \cup {e}}
  BY <1>2, <1>4, ApplyFields
<1>7. A \subseteq B /\ A \subseteq Range(processed)
  BY <1>2, <1>6 DEF BuysIn
<1> SUFFICES ASSUME restarts = 0, BuysInOrder(processed', B) PROVE RelationsExact(mem')
  <2>1. restarts \in Nat /\ RelationsExact(mem)' = RelationsExact(mem')
    BY DEF RelationsOK, RelationsExact, Sound, Complete
  <2>2. BuysInOrder(processed, BuysIn(mem.applied))' <=> BuysInOrder(processed', B)
    BY DEF BuysInOrder, BuysIn
  <2> HIDE DEF B
  <2> QED BY <1>1, <2>1, <2>2 DEF RelationsOK
<1>8. BuysInOrder(processed, A) /\ (e \in B => After(A, e))
  <2> HIDE DEF A, B
  <2> QED BY <1>1, <1>2, <1>7, OrderOfLast
<1>9. RelationsExact(mem)
  BY <1>8 DEF RelationsOK
<1>10. CASE Filtered(mem.pool, e)
  BY <1>4, <1>9, <1>10
<1>11. CASE ~Filtered(mem.pool, e)
  <2>1. mem' = ApplyEvent(mem, e, usd, live) /\ mem'.applied = mem.applied \cup {e}
    BY <1>2, <1>4, <1>11, ApplyFields
  <2>2. IsBuy(e) => After(BuysIn(mem.applied), e)
    BY <1>8, <2>1 DEF BuysIn
  <2>3. RelationsExact(ApplyEvent(mem, e, usd, live))
    BY <1>2, <1>5, <1>9, <2>2, ApplyRelations
  <2> QED BY <2>1, <2>3
<1> QED BY <1>10, <1>11

(* Every step keeps them. *)
LEMMA NextKeepsRelations ==
    ASSUME StateOK, RelationsOK, [Next]_vars PROVE RelationsOK'
<1>s. ASSUME UNCHANGED <<processed, restarts>>, SameEvents(mem, mem') PROVE RelationsOK'
  <2>1. RelationsExact(mem)' = RelationsExact(mem')
    BY DEF RelationsExact, Sound, Complete
  <2>2. RelationsExact(mem') <=> RelationsExact(mem)
    BY <1>s DEF RelationsExact, SameEvents
  <2>3. mem'.applied = mem.applied
    BY <1>s DEF SameEvents
  <2>4. BuysInOrder(processed, BuysIn(mem.applied))' <=> BuysInOrder(processed, BuysIn(mem.applied))
    BY <1>s, <2>3 DEF BuysInOrder, BuysIn
  <2> QED BY <1>s, <2>1, <2>2, <2>4 DEF RelationsOK
<1>m. ASSUME UNCHANGED market PROVE RelationsOK'
  BY <1>m, <1>s DEF market, SameEvents
<1>1. ASSUME NEW e \in feed, Process(e) PROVE RelationsOK'
  BY <1>1, ProcessKeepsRelations DEF Process
<1>2. ASSUME RefreshPrice PROVE RelationsOK'
  BY <1>2, <1>s DEF RefreshPrice, RefreshQuotePrice, SameEvents
<1>3. ASSUME RpcAnswers PROVE RelationsOK'
  <2>1. /\ UNCHANGED <<processed, restarts>>
        /\ \E n \in minted..Len(Minted) : mem' = ApplyMintState(mem, Minted[n])
    BY <1>3 DEF RpcAnswers
  <2>2. PICK supply : mem' = ApplyMintState(mem, supply)
    BY <2>1
  <2>3. MemoryOK(mem, feed)
    BY DEF StateOK
  <2>4. SameEvents(mem, ApplyMintState(mem, supply))
    BY <2>3, MintKeeps
  <2> QED BY <1>s, <2>1, <2>2, <2>4
<1>4. ASSUME EvaluationFails PROVE RelationsOK'
  BY <1>4, <1>m DEF EvaluationFails
<1>5. ASSUME NEW recent \in BOOLEAN, Restart(recent) PROVE RelationsOK'
  <2>1. restarts' = restarts + 1
    BY <1>5 DEF Restart, RestartMarket
  <2> QED BY <2>1 DEF RelationsOK
<1>6. ASSUME NEW at, BeginEvaluation(at) PROVE RelationsOK'
  BY <1>6, <1>m DEF BeginEvaluation
<1>7. ASSUME NEW in \in Answers(feed), Judge(in) PROVE RelationsOK'
  <2>1. /\ UNCHANGED <<processed, restarts>>
        /\ \E h : mem' = IngestHolders(UpdatePoolSupply(mem, in), h)
    BY <1>7 DEF Judge
  <2>2. PICK h : mem' = IngestHolders(UpdatePoolSupply(mem, in), h)
    BY <2>1
  <2>3. MemoryOK(mem, feed)
    BY DEF StateOK
  <2>4. SameEvents(mem, mem')
    BY <2>2, <2>3, JudgeKeeps
  <2> QED BY <1>s, <2>1, <2>4
<1>8. ASSUME UNCHANGED vars PROVE RelationsOK'
  BY <1>8, <1>m DEF vars
<1> QED BY <1>1, <1>2, <1>3, <1>4, <1>5, <1>6, <1>7, <1>8 DEF Next

(* Exact relations are what the property asks for. *)
LEMMA RelationsAreExact ==
    ASSUME StateOK, RelationsOK PROVE RelationsAreComplete
<1> DEFINE E == BuysIn(mem.applied)
<1>1. AppliedBuys = E /\ \A w : BuysOf(w) = By(E, w)
  BY DEF AppliedBuys, BuysIn, IsBuy, BuysOf, By
<1> DEFINE inOrder == restarts = 0
            /\ \A i, j \in DOMAIN processed :
                  (i < j /\ {processed[i], processed[j]} \subseteq AppliedBuys) =>
                      NotAfter(Buy(processed[i]), Buy(processed[j]), "wallet")
           S == Range(mem.book.first) \cup Range(mem.book.top)
<1>2. inOrder => RelationsExact(mem)
  BY <1>1 DEF RelationsOK, BuysInOrder
<1>3. ASSUME inOrder, NEW a \in S, NEW b \in S, a < b
      PROVE  (IF {a, b} \in DOMAIN mem.relations THEN mem.relations[{a, b}] ELSE {}) \ Strong =
                {n \in {"slot", "bundle", "amount"} :
                   \E e \in BuysOf(a), f \in BuysOf(b) :
                      CASE n = "slot" -> e.slot = f.slot
                        [] n = "bundle" -> e.bundle = f.bundle /\ e.bundle # NoBundle
                        [] n = "amount" -> /\ Buy(e).amount = Buy(f).amount
                                           /\ Buy(e).amount > 0}
  <2>1. Complete(mem.relations, S, E)
    BY <1>2, <1>3 DEF RelationsExact, ScopeOf
  <2>2. a # b
    <3>1. BuysOK(E, feed) /\ BookOK(mem.book, E)
      BY DEF StateOK, MemoryOK, AnalysisOK, BuysOK, BuysIn
    <3>2. S \subseteq UsersOf(E)
      <4>1. Range(mem.book.first) \subseteq UsersOf(E)
        BY <3>1, RangeIs DEF BookOK, FirstOK
      <4>2. Range(mem.book.top) \subseteq UsersOf(E)
        BY <3>1 DEF BookOK, IsTop, EvidenceOK
      <4> QED BY <4>1, <4>2
    <3>3. \A w \in UsersOf(E) : w \in Nat
      <4> HIDE DEF E
      <4>1. \A e \in E : e.user \in Nat
        BY <3>1, BuyTypes
      <4> QED BY <4>1 DEF UsersOf
    <3>4. a \in Nat /\ b \in Nat
      BY <1>3, <3>2, <3>3
    <3> QED BY <1>3, <3>4
  <2>3. Found(mem.relations, {a, b}) \ Strong = SharedBy(E, a, b)
    BY <2>1, <2>2 DEF Complete
  <2> QED BY <1>1, <2>3 DEF Found, SharedBy, Kinds
<1> QED BY <1>3 DEF RelationsAreComplete

-----------------------------------------------------------------------------
(* The clusters *)

(* Parents p whose chains lead from a wallet x of S to the wallet r[x]. *)
Rooted(p, r, S) ==
    /\ p \in [S -> S] /\ r \in [S -> S]
    /\ \A x \in S : p[x] <= x /\ r[p[x]] = r[x] /\ r[r[x]] = r[x] /\ (p[x] = x <=> r[x] = x)

(* Halving a path changes no root, and comes nearer to it. *)
LEMMA HalvedIs ==
    ASSUME NEW S \in SUBSET Nat, NEW st, NEW r, Rooted(st.parent, r, S), st.root \in S
    PROVE  LET n == Halved(st)
           IN  /\ Rooted(n.parent, r, S) /\ n.root \in S /\ r[n.root] = r[st.root]
               /\ (n = st /\ r[st.root] = st.root) \/ n.root < st.root
<1> DEFINE p == st.parent
           x == st.root
           up == p[x]
           q == [p EXCEPT ![x] = p[up]]
           n == Halved(st)
<1>1. /\ p \in [S -> S] /\ r \in [S -> S] /\ x \in S
      /\ \A y \in S : p[y] <= y /\ r[p[y]] = r[y] /\ r[r[y]] = r[y] /\ (p[y] = y <=> r[y] = y)
  BY DEF Rooted
<1>2. CASE up = x
  <2>1. n = st
    BY <1>2 DEF Halved
  <2> QED BY <1>1, <1>2, <2>1 DEF Rooted
<1>3. CASE up # x
  <2>1. n = [parent |-> q, root |-> p[up]]
    BY <1>3 DEF Halved
  <2>2. /\ up \in S /\ p[up] \in S /\ up < x /\ p[up] < x /\ r[p[up]] = r[x]
        /\ p[up] <= x /\ p[up] # x
    <3>1. up \in S /\ p[up] \in S
      BY <1>1
    <3>2. up <= x /\ p[up] <= up /\ r[up] = r[x] /\ r[p[up]] = r[up]
      BY <1>1, <3>1
    <3>3. up \in Nat /\ x \in Nat /\ p[up] \in Nat
      BY <1>1, <3>1
    <3> HIDE DEF up
    <3> QED BY <1>3, <3>1, <3>2, <3>3
  <2>3. q \in [S -> S] /\ q[x] = p[up] /\ \A y \in S : y # x => q[y] = p[y]
    BY <1>1, <2>2
  <2>4. r[x] # x
    BY <1>1, <1>3
  <2> HIDE DEF q
  <2>6. \A y \in S : q[y] <= y /\ r[q[y]] = r[y] /\ r[r[y]] = r[y] /\ (q[y] = y <=> r[y] = y)
    <3> SUFFICES ASSUME NEW y \in S
                 PROVE  q[y] <= y /\ r[q[y]] = r[y] /\ r[r[y]] = r[y] /\ (q[y] = y <=> r[y] = y)
      OBVIOUS
    <3>1. CASE y = x
      <4> HIDE DEF up, p, x
      <4> QED BY <1>1, <2>2, <2>3, <2>4, <3>1
    <3>2. CASE y # x
      <4> HIDE DEF up, p, x
      <4> QED BY <1>1, <2>3, <3>2
    <3> QED BY <3>1, <3>2
  <2>7. Rooted(q, r, S)
    BY <1>1, <2>3, <2>6 DEF Rooted
  <2>8. n.parent = q /\ n.root = p[up]
    BY <2>1
  <2> HIDE DEF n
  <2> QED BY <2>2, <2>7, <2>8 DEF n
<1> QED BY <1>2, <1>3

(* Find finds the root, and changes none. *)
LEMMA FindIs ==
    ASSUME NEW S \in SUBSET (Nat \ {0}), NEW p, NEW r, Rooted(p, r, S), NEW w \in S
    PROVE  Find(p, w).root = r[w] /\ Rooted(Find(p, w).parent, r, S)
<1>0. w \in Nat /\ S \in SUBSET Nat
  OBVIOUS
<1>1. PICK F : /\ Find(p, w) = F[w] /\ F[0] = [parent |-> p, root |-> w]
               /\ \A i \in 1..w : F[i] = Halved(F[i - 1])
  BY <1>0, FindSteps
<1> DEFINE OK(st, i) == /\ Rooted(st.parent, r, S) /\ st.root \in S /\ r[st.root] = r[w]
                        /\ r[st.root] = st.root \/ st.root <= w - i
           Q == {i \in Nat : i <= w => OK(F[i], i)}
<1>2. 0 \in Q
  <2>1. F[0].parent = p /\ F[0].root = w
    BY <1>1
  <2> QED BY <1>0, <2>1
<1>3. ASSUME NEW i \in Q PROVE i + 1 \in Q
  <2> SUFFICES ASSUME i + 1 <= w PROVE OK(F[i + 1], i + 1)
    BY <1>3
  <2>1. i \in Nat /\ i + 1 \in 1..w /\ i <= w
    BY <1>0, <1>3
  <2>2. F[i + 1] = Halved(F[i])
    <3>1. F[i + 1] = Halved(F[(i + 1) - 1])
      BY <1>1, <2>1
    <3>2. (i + 1) - 1 = i
      BY <2>1
    <3> QED BY <3>1, <3>2
  <2>3. OK(F[i], i)
    BY <1>3, <2>1
  <2>4. PICK st : st = F[i]
    OBVIOUS
  <2>5. PICK n : n = Halved(st)
    OBVIOUS
  <2>6. OK(st, i)
    BY <2>3, <2>4
  <2>7. /\ Rooted(n.parent, r, S) /\ n.root \in S /\ r[n.root] = r[st.root]
        /\ (n = st /\ r[st.root] = st.root) \/ n.root < st.root
    BY <1>0, <2>5, <2>6, HalvedIs
  <2>8. OK(n, i + 1)
    <3>1. CASE n = st /\ r[st.root] = st.root
      BY <2>6, <2>7, <3>1
    <3>2. CASE n.root < st.root /\ st.root <= w - i
      <4>1. n.root \in Nat /\ st.root \in Nat
        BY <2>6, <2>7
      <4>2. n.root <= w - (i + 1)
        BY <1>0, <2>1, <3>2, <4>1
      <4> QED BY <2>6, <2>7, <4>2
    <3>3. CASE n.root < st.root /\ r[st.root] = st.root
      <4> QED BY <2>5, <2>6, <3>3 DEF Halved, Rooted
    <3> QED BY <2>6, <2>7, <3>1, <3>2, <3>3
  <2> HIDE DEF OK
  <2> QED BY <2>2, <2>4, <2>5, <2>8
<1>4. Q \in SUBSET Nat
  OBVIOUS
<1> HIDE DEF Q
<1>5. Q = Nat
  BY <1>2, <1>3, <1>4, SetInduction
<1>6. OK(F[w], w)
  BY <1>0, <1>5 DEF Q
<1>7. F[w].root \in Nat \ {0}
  BY <1>6
<1>8. r[F[w].root] = F[w].root
  BY <1>0, <1>6, <1>7
<1> QED BY <1>1, <1>6, <1>8

(* The larger of two numbers. *)
LEMMA MaxOfTwo ==
    ASSUME NEW a \in Int, NEW b \in Int
    PROVE  Max({a, b}) \in {a, b} /\ Max({a, b}) >= a /\ Max({a, b}) >= b
<1> DEFINE P == {a, b}
<1>1. \E x \in P : \A y \in P : x >= y
  OBVIOUS
<1>2. Max(P) \in P /\ \A y \in P : Max(P) >= y
  <2> HIDE DEF P
  <2> QED BY <1>1 DEF Max
<1> QED BY <1>2

(* Linking the larger root to the smaller joins their wallets. *)
LEMMA LinkIs ==
    ASSUME NEW S \in SUBSET Nat, NEW p, NEW r, Rooted(p, r, S),
           NEW lo \in S, NEW hi \in S, lo < hi, r[lo] = lo, r[hi] = hi
    PROVE  Rooted([p EXCEPT ![hi] = lo], [x \in S |-> IF r[x] = hi THEN lo ELSE r[x]], S)
<1> DEFINE q == [p EXCEPT ![hi] = lo]
           t == [x \in S |-> IF r[x] = hi THEN lo ELSE r[x]]
<1>1. /\ p \in [S -> S] /\ r \in [S -> S]
      /\ \A y \in S : p[y] <= y /\ r[p[y]] = r[y] /\ r[r[y]] = r[y] /\ (p[y] = y <=> r[y] = y)
  BY DEF Rooted
<1>2. q \in [S -> S] /\ q[hi] = lo /\ \A y \in S : y # hi => q[y] = p[y]
  BY <1>1
<1>3. t \in [S -> S] /\ \A y \in S : t[y] = IF r[y] = hi THEN lo ELSE r[y]
  BY <1>1
<1>4. lo # hi
  OBVIOUS
<1> HIDE DEF q, t
<1>5. \A y \in S : q[y] <= y /\ t[q[y]] = t[y] /\ t[t[y]] = t[y] /\ (q[y] = y <=> t[y] = y)
  <2> SUFFICES ASSUME NEW y \in S
               PROVE  q[y] <= y /\ t[q[y]] = t[y] /\ t[t[y]] = t[y] /\ (q[y] = y <=> t[y] = y)
    OBVIOUS
  <2>1. t[lo] = lo /\ t[hi] = lo
    BY <1>3, <1>4
  <2>2. CASE y = hi
    BY <1>2, <1>4, <2>1, <2>2
  <2>3. CASE y # hi
    <3>1. q[y] = p[y] /\ p[y] \in S /\ r[y] \in S
      BY <1>1, <1>2, <2>3
    <3>2. r[p[y]] = r[y] /\ r[r[y]] = r[y] /\ p[y] <= y /\ (p[y] = y <=> r[y] = y)
      BY <1>1
    <3>3. t[p[y]] = t[y]
      BY <1>3, <3>1, <3>2
    <3>4. CASE r[y] = hi
      <4>1. t[y] = lo
        BY <1>3, <3>4
      <4>2. y # lo
        BY <1>4, <3>4
      <4> QED BY <2>1, <2>3, <3>1, <3>2, <3>3, <3>4, <4>1, <4>2
    <3>5. CASE r[y] # hi
      <4>1. t[y] = r[y] /\ t[r[y]] = r[y]
        BY <1>3, <3>1, <3>2, <3>5
      <4> QED BY <3>1, <3>2, <3>3, <4>1
    <3> QED BY <3>4, <3>5
  <2> QED BY <2>2, <2>3
<1>6. Rooted(q, t, S)
  BY <1>2, <1>3, <1>5 DEF Rooted
<1> QED BY <1>6 DEF q, t

(* A set that no pair of D leaves *)
Closed(C, D) == \A d \in D : d \cap C # {} => d \subseteq C

(* The wallets of a pair have the same root, and only pairs join wallets: a  *)
(* closed set has a wallet if it has its root.                               *)
Joined(r, S, D) ==
    /\ \A d \in D : \A a, b \in d : r[a] = r[b]
    /\ \A C \in SUBSET S : Closed(C, D) => \A x \in S : x \in C <=> r[x] \in C

Forest(p, S, D) == \E r : Rooted(p, r, S) /\ Joined(r, S, D)

(* Without pairs every wallet is its own root. *)
LEMMA NoPairs ==
    ASSUME NEW S \in SUBSET Nat PROVE Forest([w \in S |-> w], S, {})
<1> DEFINE p == [w \in S |-> w]
<1>1. p \in [S -> S] /\ \A x \in S : p[x] = x /\ p[x] <= x
  OBVIOUS
<1> HIDE DEF p
<1>2. Rooted(p, p, S)
  BY <1>1 DEF Rooted
<1>3. Joined(p, S, {})
  BY <1>1 DEF Joined
<1>4. Forest(p, S, {})
  BY <1>2, <1>3 DEF Forest
<1> QED BY <1>4 DEF p

(* A pair whose wallets have the same root changes nothing. *)
LEMMA JoinedAlready ==
    ASSUME NEW S, NEW r, NEW D, Joined(r, S, D), NEW d, \A a, b \in d : r[a] = r[b]
    PROVE  Joined(r, S, D \cup {d})
<1>1. \A C : Closed(C, D \cup {d}) => Closed(C, D)
  BY DEF Closed
<1> QED BY <1>1 DEF Joined

(* A pair whose roots are linked joins their wallets and no others. *)
LEMMA JoinedNow ==
    ASSUME NEW S, NEW r \in [S -> S], NEW D, D \subseteq SUBSET S, Joined(r, S, D),
           NEW u \in S, NEW v \in S, NEW t,
           \A y \in S : t[y] = IF r[y] = r[v] THEN r[u] ELSE r[y]
    PROVE  Joined(t, S, D \cup {{u, v}})
<1> DEFINE E == D \cup {{u, v}}
<1>1. \A y \in S : t[y] = IF r[y] = r[v] THEN r[u] ELSE r[y]
  OBVIOUS
<1>2. \A d \in D : \A a, b \in d : r[a] = r[b] /\ a \in S /\ b \in S
  BY DEF Joined
<1>3. \A d \in D : \A a, b \in d : t[a] = t[b]
  BY <1>1, <1>2
<1>4. t[u] = r[u] /\ t[v] = r[u]
  BY <1>1
<1>5. \A d \in E : \A a, b \in d : t[a] = t[b]
  BY <1>3, <1>4
<1>6. ASSUME NEW C \in SUBSET S, Closed(C, E), NEW x \in S PROVE x \in C <=> t[x] \in C
  <2>1. Closed(C, D) /\ (u \in C <=> v \in C)
    BY <1>6 DEF Closed
  <2>2. \A y \in S : y \in C <=> r[y] \in C
    BY <2>1 DEF Joined
  <2>3. r[u] \in C <=> r[v] \in C
    BY <2>1, <2>2
  <2> QED BY <1>1, <2>2, <2>3
<1>7. Joined(t, S, E)
  BY <1>5, <1>6 DEF Joined
<1> QED BY <1>7 DEF E

(* union joins a pair. *)
LEMMA UnionIs ==
    ASSUME NEW S \in SUBSET (Nat \ {0}), NEW D, D \subseteq SUBSET S, NEW p, Forest(p, S, D),
           NEW a \in S, NEW b \in S, a # b
    PROVE  Forest(Union({a, b}, p), S, D \cup {{a, b}})
<1>0. PICK r : Rooted(p, r, S) /\ Joined(r, S, D)
  BY DEF Forest
<1> DEFINE u == Min({a, b})
           v == Max({a, b})
           left == Find(p, u)
           right == Find(left.parent, v)
           E == D \cup {{a, b}}
           new == Union({a, b}, p)
<1>1. u \in S /\ v \in S /\ {u, v} = {a, b}
  <2>1. a \in Int /\ b \in Int
    OBVIOUS
  <2>2. u \in {a, b} /\ v \in {a, b} /\ u <= a /\ u <= b /\ v >= a /\ v >= b
    BY <2>1, MinOfTwo, MaxOfTwo
  <2> HIDE DEF u, v
  <2> QED BY <2>1, <2>2
<1>2. new = IF left.root = right.root THEN right.parent
            ELSE [right.parent EXCEPT ![Max({left.root, right.root})] =
                    Min({left.root, right.root})]
  BY DEF Union
<1> HIDE DEF u, v, new
<1>3. left.root = r[u] /\ Rooted(left.parent, r, S)
  BY <1>0, <1>1, FindIs
<1>4. PICK lp : lp = left.parent
  OBVIOUS
<1>5. Find(lp, v).root = r[v] /\ Rooted(Find(lp, v).parent, r, S)
  BY <1>1, <1>3, <1>4, FindIs
<1>6. PICK q : q = right.parent
  OBVIOUS
<1>7. right.root = r[v] /\ Rooted(q, r, S)
  BY <1>4, <1>5, <1>6
<1> HIDE DEF left, right
<1>8. /\ r \in [S -> S] /\ r[u] \in S /\ r[v] \in S
      /\ r[r[u]] = r[u] /\ r[r[v]] = r[v]
  BY <1>0, <1>1 DEF Rooted
<1>9. CASE r[u] = r[v]
  <2>1. new = q
    BY <1>2, <1>3, <1>6, <1>7, <1>9
  <2>2. \A x, y \in {a, b} : r[x] = r[y]
    <3>1. \A x \in {u, v} : r[x] = r[u]
      BY <1>9
    <3> QED BY <1>1, <3>1
  <2>3. Joined(r, S, E)
    BY <1>0, <2>2, JoinedAlready
  <2> QED BY <1>7, <2>1, <2>3 DEF Forest, new
<1>10. CASE r[u] # r[v]
  <2> DEFINE lo == Min({r[u], r[v]})
             hi == Max({r[u], r[v]})
             t == [x \in S |-> IF r[x] = hi THEN lo ELSE r[x]]
  <2>1. new = [q EXCEPT ![hi] = lo]
    BY <1>2, <1>3, <1>6, <1>7, <1>10
  <2>2. r[u] \in Int /\ r[v] \in Int
    <3>1. \A x \in S : x \in Int
      OBVIOUS
    <3> QED BY <1>8, <3>1
  <2>3. /\ lo \in {r[u], r[v]} /\ hi \in {r[u], r[v]} /\ lo <= r[u] /\ lo <= r[v]
        /\ hi >= r[u] /\ hi >= r[v]
    BY <2>2, MinOfTwo, MaxOfTwo
  <2> HIDE DEF lo, hi
  <2>4. (lo = r[u] /\ hi = r[v]) \/ (lo = r[v] /\ hi = r[u])
    BY <1>10, <2>2, <2>3
  <2>5. lo < hi
    BY <1>10, <2>2, <2>3, <2>4
  <2>6. lo \in S /\ hi \in S /\ r[lo] = lo /\ r[hi] = hi
    BY <1>8, <2>4
  <2>7. S \in SUBSET Nat
    OBVIOUS
  <2>8. Rooted([q EXCEPT ![hi] = lo], t, S)
    BY <1>7, <2>5, <2>6, <2>7, LinkIs
  <2>9. Joined(t, S, E)
    <3>1. PICK c, d \in S : r[c] = lo /\ r[d] = hi /\ {c, d} = {a, b}
      <4>1. {v, u} = {a, b}
        BY <1>1
      <4>2. CASE lo = r[u] /\ hi = r[v]
        BY <1>1, <4>2
      <4>3. CASE lo = r[v] /\ hi = r[u]
        BY <1>1, <4>1, <4>3
      <4> QED BY <2>4, <4>2, <4>3
    <3>2. \A y \in S : t[y] = IF r[y] = r[d] THEN r[c] ELSE r[y]
      BY <3>1
    <3>3. c \in S /\ d \in S /\ r \in [S -> S] /\ Joined(r, S, D)
      BY <1>0, <1>8, <3>1
    <3> HIDE DEF t
    <3>4. Joined(t, S, D \cup {{c, d}})
      BY <3>2, <3>3, JoinedNow
    <3> QED BY <3>1, <3>4
  <2> HIDE DEF t
  <2> QED BY <2>1, <2>8, <2>9 DEF Forest, new
<1> QED BY <1>9, <1>10

(* The fold of union over the pairs, pair by pair *)
LinkStep(g, base, s) == IF s = {} THEN base ELSE Union(Pick(s), g[s \ {Pick(s)}])

IsLinks(g, base, D) ==
    g = [s \in SUBSET D |-> g[s]] /\ \A s \in SUBSET D : g[s] = LinkStep(g, base, s)

Links(base, D) ==
    CHOOSE g : g = [s \in SUBSET D |->
                      IF s = {} THEN base ELSE Union(Pick(s), g[s \ {Pick(s)}])]

(* The fold is the recursive function that CHOOSE defines. *)
LEMMA FoldIsLinks == ASSUME NEW base, NEW D PROVE FoldSet(Union, base, D) = Links(base, D)[D]
  BY DEF FoldSet, MapThenFoldSet, Links, Pick

(* The folds over the subsets of two sets agree on what the sets share. *)
LEMMA LinksAgree ==
    ASSUME NEW S, IsFiniteSet(S), NEW T \in SUBSET S, NEW U \in SUBSET S, NEW base,
           NEW g, IsLinks(g, base, T), NEW h, IsLinks(h, base, U)
    PROVE  U \subseteq T => g[U] = h[U]
<1> DEFINE Q == {s \in SUBSET S : s \subseteq T /\ s \subseteq U => g[s] = h[s]}
<1>1. ASSUME NEW s \in SUBSET S, \A r \in SUBSET s : r # s => r \in Q PROVE s \in Q
  <2> SUFFICES ASSUME s \subseteq T, s \subseteq U PROVE g[s] = h[s]
    OBVIOUS
  <2>0. g[s] = LinkStep(g, base, s) /\ h[s] = LinkStep(h, base, s)
    BY DEF IsLinks
  <2>1. CASE s = {}
    BY <2>0, <2>1 DEF LinkStep
  <2>2. CASE s # {}
    <3>1. Pick(s) \in s
      BY <2>2, PickIn
    <3>2. s \ {Pick(s)} \in Q
      BY <1>1, <3>1
    <3>3. g[s \ {Pick(s)}] = h[s \ {Pick(s)}]
      BY <3>2
    <3> QED BY <2>0, <2>2, <3>3 DEF LinkStep
  <2> QED BY <2>1, <2>2
<1> HIDE DEF Q
<1>2. Q \in SUBSET SUBSET S
  BY DEF Q
<1>3. Q = SUBSET S
  BY <1>1, <1>2, SubsetInduction
<1> QED BY <1>3 DEF Q

(* The fold over the subsets of a finite set exists. *)
LEMMA LinksExist ==
    ASSUME NEW S, IsFiniteSet(S), NEW base
    PROVE  \E g : IsLinks(g, base, S)
<1> DEFINE Q == {T \in SUBSET S : \E g : IsLinks(g, base, T)}
           G(T) == CHOOSE g : IsLinks(g, base, T)
<1>1. ASSUME NEW T \in SUBSET S, \A U \in SUBSET T : U # T => U \in Q PROVE T \in Q
  <2> DEFINE below == T \ {Pick(T)}
             h == [s \in SUBSET T |->
                      IF s = T THEN (IF T = {} THEN base ELSE Union(Pick(T), G(below)[below]))
                      ELSE G(s)[s]]
  <2>1. \A U \in SUBSET T : U # T => IsLinks(G(U), base, U)
    BY <1>1
  <2> HIDE DEF G
  <2>2. T # {} => Pick(T) \in T /\ below \in SUBSET T /\ below # T
    BY PickIn
  <2>3. h = [s \in SUBSET T |-> h[s]]
    OBVIOUS
  <2>4. \A s \in SUBSET T : h[s] = LinkStep(h, base, s)
    <3> SUFFICES ASSUME NEW s \in SUBSET T PROVE h[s] = LinkStep(h, base, s)
      OBVIOUS
    <3>1. CASE s = T
      BY <2>2, <3>1 DEF LinkStep
    <3>2. CASE s # T
      <4>1. h[s] = G(s)[s] /\ IsLinks(G(s), base, s)
        BY <2>1, <3>2
      <4>2. G(s)[s] = LinkStep(G(s), base, s)
        BY <4>1 DEF IsLinks
      <4>3. CASE s = {}
        BY <4>1, <4>2, <4>3 DEF LinkStep
      <4>4. CASE s # {}
        <5> DEFINE r == s \ {Pick(s)}
        <5>1. Pick(s) \in s /\ r \in SUBSET s /\ r \in SUBSET T /\ r # T
          BY <4>4, PickIn
        <5>2. h[r] = G(r)[r] /\ IsLinks(G(r), base, r)
          BY <2>1, <5>1
        <5>3. G(s)[r] = G(r)[r]
          <6>1. s \in SUBSET S /\ r \in SUBSET S
            OBVIOUS
          <6> HIDE DEF r
          <6>2. PICK a, b : a = G(s) /\ b = G(r) /\ IsLinks(a, base, s) /\ IsLinks(b, base, r)
            BY <4>1, <5>2
          <6>3. r \subseteq s => a[r] = b[r]
            BY <6>1, <6>2, LinksAgree
          <6> QED BY <5>1, <6>1, <6>2, <6>3
        <5>4. G(s)[s] = Union(Pick(s), G(s)[r])
          BY <4>2, <4>4 DEF LinkStep
        <5> QED BY <4>1, <4>4, <5>2, <5>3, <5>4 DEF LinkStep
      <4> QED BY <4>3, <4>4
    <3> QED BY <3>1, <3>2
  <2> HIDE DEF h
  <2>5. IsLinks(h, base, T)
    BY <2>3, <2>4 DEF IsLinks
  <2> QED BY <2>5
<1> HIDE DEF Q
<1>2. Q \in SUBSET SUBSET S
  BY DEF Q
<1>3. Q = SUBSET S
  BY <1>1, <1>2, SubsetInduction
<1> QED BY <1>3 DEF Q

(* The pairs of D join wallets of S. *)
Pairs(D, S) == \A d \in D : \E a, b \in S : a # b /\ d = {a, b}

(* Folding union over pairs joins them all and nothing else. *)
LEMMA FoldIsForest ==
    ASSUME NEW S \in SUBSET (Nat \ {0}), NEW D, IsFiniteSet(D), Pairs(D, S)
    PROVE  Forest(FoldSet(Union, [w \in S |-> w], D), S, D)
<1> DEFINE base == [w \in S |-> w]
           F == Links(base, D)
<1>0. Forest(base, S, {})
  <2>1. S \in SUBSET Nat
    OBVIOUS
  <2> QED BY <2>1, NoPairs
<1> HIDE DEF base
<1>1. PICK g : IsLinks(g, base, D)
  BY LinksExist
<1>2. g = [s \in SUBSET D |-> IF s = {} THEN base ELSE Union(Pick(s), g[s \ {Pick(s)}])]
  BY <1>1 DEF IsLinks, LinkStep
<1>3. F = [s \in SUBSET D |-> IF s = {} THEN base ELSE Union(Pick(s), F[s \ {Pick(s)}])]
  BY <1>2 DEF Links
<1> HIDE DEF F
<1>4. \A s \in SUBSET D : F[s] = IF s = {} THEN base ELSE Union(Pick(s), F[s \ {Pick(s)}])
  BY <1>3
<1> DEFINE Q == {s \in SUBSET D : Forest(F[s], S, s)}
<1>5. ASSUME NEW s \in SUBSET D, \A r \in SUBSET s : r # s => r \in Q PROVE s \in Q
  <2>1. CASE s = {}
    <3>1. F[s] = base
      BY <1>4, <2>1
    <3> QED BY <1>0, <2>1, <3>1
  <2>2. CASE s # {}
    <3>1. PICK d : d = Pick(s)
      OBVIOUS
    <3>2. PICK r : r = s \ {d}
      OBVIOUS
    <3>3. d \in s /\ r \in SUBSET s /\ r # s /\ r \cup {d} = s
      BY <2>2, <3>1, <3>2, PickIn
    <3>4. Forest(F[r], S, r)
      BY <1>5, <3>3
    <3>5. PICK p : p = F[r]
      OBVIOUS
    <3>6. PICK a, b \in S : a # b /\ d = {a, b}
      BY <3>3 DEF Pairs
    <3>7. r \subseteq SUBSET S
      BY <3>3 DEF Pairs
    <3>8. Forest(Union({a, b}, p), S, r \cup {{a, b}})
      BY <3>4, <3>5, <3>6, <3>7, UnionIs
    <3>9. F[s] = Union(d, p)
      BY <1>4, <2>2, <3>1, <3>2, <3>5
    <3> QED BY <3>3, <3>6, <3>8, <3>9
  <2> QED BY <2>1, <2>2
<1> HIDE DEF Q
<1>6. Q \in SUBSET SUBSET D
  BY DEF Q
<1>7. Q = SUBSET D
  BY <1>5, <1>6, SubsetInduction
<1>8. Forest(F[D], S, D)
  BY <1>7 DEF Q
<1>9. FoldSet(Union, base, D) = F[D]
  BY FoldIsLinks DEF F
<1> QED BY <1>8, <1>9 DEF base

(* Classes whose union is S, which no pair of D leaves, and of which no part *)
(* is without a pair to the rest                                             *)
Components(cs, S, D) ==
    /\ UNION cs = S
    /\ \A d \in D : \E c \in cs : d \subseteq c
    /\ \A c, d \in cs : c # d => c \cap d = {}
    /\ \A c \in cs : \A part \in (SUBSET c) \ {{}, c} :
          \E p \in D : p \subseteq c /\ p \cap part # {} /\ ~(p \subseteq part)

ClassesBy(r, S) == {{w \in S : r[w] = q} : q \in {r[w] : w \in S}}

(* Clusters by root are the components. *)
LEMMA ClassesAre ==
    ASSUME NEW S, NEW r \in [S -> S], NEW D, D \subseteq SUBSET S, {} \notin D, Joined(r, S, D)
    PROVE  Components(ClassesBy(r, S), S, D)
<1> DEFINE C(q) == {w \in S : r[w] = q}
           cs == ClassesBy(r, S)
<1>1. /\ \A c \in cs : \E x \in S : c = C(r[x])
      /\ \A x \in S : C(r[x]) \in cs
  BY DEF ClassesBy
<1> HIDE DEF cs
<1>2. UNION cs = S
  <2>1. \A x \in S : x \in C(r[x]) /\ C(r[x]) \subseteq S
    OBVIOUS
  <2> HIDE DEF C
  <2>2. \A c \in cs : c \subseteq S
    BY <1>1, <2>1
  <2>3. S \subseteq UNION cs
    BY <1>1, <2>1
  <2> QED BY <2>2, <2>3
<1>3. ASSUME NEW d \in D PROVE \E c \in cs : d \subseteq c
  <2>1. PICK x \in d : x \in S
    BY <1>3
  <2>2. d \subseteq C(r[x])
    BY <1>3, <2>1 DEF Joined
  <2> QED BY <1>1, <2>1, <2>2
<1>4. ASSUME NEW c \in cs, NEW d \in cs, c # d PROVE c \cap d = {}
  <2>1. PICK x \in S, y \in S : c = C(r[x]) /\ d = C(r[y])
    BY <1>1, <1>4
  <2>2. \A z \in c \cap d : r[z] = r[x] /\ r[z] = r[y]
    BY <2>1
  <2> QED BY <1>4, <2>1, <2>2
<1>5. ASSUME NEW c \in cs, NEW part \in (SUBSET c) \ {{}, c}
      PROVE  \E p \in D : p \subseteq c /\ p \cap part # {} /\ ~(p \subseteq part)
  <2> SUFFICES ASSUME \A p \in D : p \subseteq c /\ p \cap part # {} => p \subseteq part
               PROVE  FALSE
    OBVIOUS
  <2>1. PICK x \in S : c = C(r[x])
    BY <1>1, <1>5
  <2>2. \A y \in c : y \in S /\ r[y] = r[x]
    BY <2>1
  <2>3. Closed(part, D)
    <3> SUFFICES ASSUME NEW p \in D, p \cap part # {} PROVE p \subseteq part
      BY DEF Closed
    <3>1. PICK y \in p : y \in part
      OBVIOUS
    <3>2. r[y] = r[x]
      BY <1>5, <2>2, <3>1
    <3>3. \A z \in p : z \in S /\ r[z] = r[y]
      BY <3>1 DEF Joined
    <3>4. p \subseteq c
      BY <2>1, <3>2, <3>3
    <3> QED BY <3>4
  <2>4. part \in SUBSET S
    BY <1>5, <2>2
  <2>5. \A y \in S : y \in part <=> r[y] \in part
    BY <2>3, <2>4 DEF Joined
  <2>6. \A y \in c : y \in part <=> r[x] \in part
    BY <2>2, <2>5
  <2>7. part \subseteq c /\ part # {} /\ part # c
    BY <1>5
  <2> QED BY <2>6, <2>7
<1> QED BY <1>2, <1>3, <1>4, <1>5 DEF Components, cs

(* What build_clusters builds for relations between wallets. *)
LEMMA ClustersAre ==
    ASSUME PairsOK(mem.relations) PROVE ClustersAreComponents
<1> DEFINE S == Wallets
           rs == mem.relations
           D == {p \in DOMAIN rs : Eligible(rs[p])}
           D2 == {p \in DOMAIN rs : p \subseteq S /\ Eligible(rs[p])}
           parent == FoldSet(Union, [w \in S |-> w], D)
           cs == BuildClusters(S, rs)
<1>1. S \in SUBSET (Nat \ {0})
  BY FeedsAssumption DEF Wallets, NoWallet
<1>2. Pairs(D, S) /\ D = D2 /\ D \subseteq SUBSET S /\ {} \notin D
  <2>1. \A p \in DOMAIN rs : \E a, b \in S : a # b /\ p = {a, b}
    BY DEF PairsOK
  <2> HIDE DEF S, rs
  <2>2. ASSUME NEW p \in DOMAIN rs PROVE p \subseteq S /\ p # {}
    <3>1. PICK a, b \in S : p = {a, b}
      BY <2>1, <2>2
    <3> QED BY <3>1
  <2> QED BY <2>1, <2>2 DEF Pairs
<1>3. IsFiniteSet(D)
  <2>1. IsFiniteSet(SUBSET S)
    BY WalletsAssumption, FS_SUBSET
  <2> HIDE DEF D, S
  <2> QED BY <1>2, <2>1, FS_Subset
<1>4. cs = {{w \in S : Find(parent, w).root = q} : q \in {Find(parent, w).root : w \in S}}
  <2>1. cs = {{w \in S : Find(FoldSet(Union, [x \in S |-> x], D2), w).root = q} :
                q \in {Find(FoldSet(Union, [x \in S |-> x], D2), w).root : w \in S}}
    BY DEF BuildClusters
  <2> HIDE DEF D, D2, S, cs
  <2> QED BY <1>2, <2>1
<1> HIDE DEF S, rs, D
<1>5. Forest(parent, S, D)
  BY <1>1, <1>2, <1>3, FoldIsForest
<1> HIDE DEF parent
<1>6. PICK r : Rooted(parent, r, S) /\ Joined(r, S, D)
  BY <1>5 DEF Forest
<1>7. r \in [S -> S] /\ \A w \in S : Find(parent, w).root = r[w]
  BY <1>1, <1>6, FindIs DEF Rooted
<1>8. cs = ClassesBy(r, S)
  <2> HIDE DEF cs
  <2> DEFINE A(q) == {w \in S : Find(parent, w).root = q}
             B(q) == {w \in S : r[w] = q}
             X == {Find(parent, w).root : w \in S}
             Y == {r[w] : w \in S}
  <2>1. X = Y /\ \A q : A(q) = B(q)
    BY <1>7
  <2>2. cs = {A(q) : q \in X} /\ ClassesBy(r, S) = {B(q) : q \in Y}
    BY <1>4 DEF ClassesBy
  <2> HIDE DEF A, B, X, Y
  <2> QED BY <2>1, <2>2
<1> HIDE DEF cs
<1>9. Components(cs, S, D)
  BY <1>2, <1>6, <1>7, <1>8, ClassesAre
<1> QED BY <1>9 DEF ClustersAreComponents, Components, S, rs, D, cs

-----------------------------------------------------------------------------
(* The theorems *)

DecisionInv ==
    /\ StateOK /\ UnpricedOK /\ RelationsOK
    /\ EvalOK /\ SupplyOK /\ DevSoldBlocksEntry /\ LossFitsTheDay

(* The first state. *)
LEMMA InitOK ==
    ASSUME Init PROVE DecisionInv
<1>1. feed \in Feeds /\ processed = <<>> /\ usd = 0 /\ mem = Blank /\ unpriced = {}
      /\ eval = Idle /\ verdict = Pending /\ recorded = {} /\ forgotten = FALSE
  BY DEF Init, MarketInit
<1>2. MemoryOK(mem, feed) /\ mem.applied = {}
  BY <1>1, BlankOK
<1>3. StateOK
  BY <1>1, <1>2 DEF StateOK, Distinct
<1>4. UnpricedOK
  BY <1>1, <1>2 DEF UnpricedOK
<1>5. verdict.out = "none" /\ Running /\ ~Entered
  BY <1>1 DEF Pending, Running, Entered
<1>6. EvalOK
  BY <1>1, <1>5, IdleOK DEF EvalOK
<1>7. SupplyOK
  BY <1>1, <1>5, IdleOK DEF SupplyOK, SupplyChangeBlocksEntry
<1>8. DevSoldBlocksEntry /\ LossFitsTheDay
  BY <1>5 DEF DevSoldBlocksEntry, LossFitsTheDay
<1>9. RelationsOK
  <2>1. restarts = 0 /\ mem.relations = <<>> /\ mem.book = NoBook /\ BuysIn(mem.applied) = {}
    BY <1>1, <1>2 DEF Init, MarketInit, Blank, BuysIn
  <2>2. DOMAIN mem.relations = {} /\ ScopeOf(mem.book) = {}
    BY <2>1 DEF ScopeOf, NoBook, Range
  <2> QED BY <2>1, <2>2 DEF RelationsOK, RelationsExact, Sound, Complete
<1> QED BY <1>3, <1>4, <1>6, <1>7, <1>8, <1>9 DEF DecisionInv

(* Every step. *)
LEMMA NextKeeps ==
    ASSUME DecisionInv, [Next]_vars PROVE DecisionInv'
<1>1. /\ StateOK /\ UnpricedOK /\ RelationsOK
      /\ EvalOK /\ SupplyOK /\ DevSoldBlocksEntry /\ LossFitsTheDay
  BY DEF DecisionInv
<1>2. /\ StateOK' /\ UnpricedOK' /\ RelationsOK'
      /\ EvalOK' /\ SupplyOK' /\ DevSoldBlocksEntry' /\ LossFitsTheDay'
  BY <1>1, NextKeepsState, NextKeepsRelations, NextKeepsEval, NextKeepsSupply, NextKeepsDevSold, NextKeepsLoss
<1> QED BY <1>2 DEF DecisionInv

(* The invariant of the evaluation: a memory whose trades are the applied    *)
(* swaps that had a price, an evaluation that knows the supplies recorded    *)
(* before it, and a verdict that kept to what it saw.                        *)
THEOREM DecisionInvariant == Spec => []DecisionInv
<1>1. Init => DecisionInv
  BY InitOK
<1>2. DecisionInv /\ [Next]_vars => DecisionInv'
  BY NextKeeps
<1> QED BY <1>1, <1>2, PTL DEF Spec

(* No entry is made once the supply differs from a recorded one that was not *)
(* lost (_build_security_context, SUPPLY_CHANGED).                           *)
THEOREM SupplyChangeTheorem == Spec => []SupplyChangeBlocksEntry
<1>1. DecisionInv => SupplyChangeBlocksEntry
  BY DEF DecisionInv, SupplyOK
<1> QED BY <1>1, DecisionInvariant, PTL

(* No entry is made in a token whose known creator sold it by the time of    *)
(* the evaluation (DEV_SOLD), in either orientation of the pool.             *)
THEOREM DevSoldTheorem == Spec => []DevSoldBlocksEntry
<1>1. DecisionInv => DevSoldBlocksEntry
  BY DEF DecisionInv
<1> QED BY <1>1, DecisionInvariant, PTL

(* A position's losses fit the day, the account and the liquidity            *)
(* (calculate_position_size), for every account and every limit.             *)
THEOREM LossTheorem == Spec => []LossFitsTheDay
<1>1. DecisionInv => LossFitsTheDay
  BY DEF DecisionInv
<1> QED BY <1>1, DecisionInvariant, PTL

(* A snapshot is that of the trades known, however they arrived              *)
(* (_insert_ordered and EventTimeFeatureEngine.snapshot).                    *)
THEOREM SnapshotTheorem == Spec => []SnapshotIsOrderFree
<1>1. DecisionInv => SnapshotIsOrderFree
  BY SnapshotOrder DEF DecisionInv
<1> QED BY <1>1, DecisionInvariant, PTL

(* However the buys arrive, the evidence, the first and the largest buyers   *)
(* are those of the buys applied (_observe_buyer, _rebuild_buyer_state).     *)
THEOREM BuyerStateTheorem == Spec => []BuyerStateIsExact
<1>1. DecisionInv => BuyerStateIsExact
  BY BookIsExact DEF DecisionInv, StateOK, MemoryOK
<1> QED BY <1>1, DecisionInvariant, PTL

(* While the buys arrive in order, two wallets in scope are related by what  *)
(* they share (_recompute_relations), for every history and every Limit.     *)
THEOREM RelationsTheorem == Spec => []RelationsAreComplete
<1>1. DecisionInv => RelationsAreComplete
  BY RelationsAreExact DEF DecisionInv
<1> QED BY <1>1, DecisionInvariant, PTL

(* The clusters are the connected components of the eligible relations       *)
(* (build_clusters: union-find with path halving), in whatever order the     *)
(* relations are joined.                                                     *)
THEOREM ClustersTheorem == Spec => []ClustersAreComponents
<1>1. DecisionInv => ClustersAreComponents
  BY ClustersAre DEF DecisionInv, StateOK, MemoryOK, AnalysisOK
<1> QED BY <1>1, DecisionInvariant, PTL
=============================================================================
