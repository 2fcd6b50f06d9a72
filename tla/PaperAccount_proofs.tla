------------------------- MODULE PaperAccount_proofs -------------------------
(***************************************************************************)
(* For every finite set of candidates, every set of mints, every price and *)
(* every bound: the type invariant of PaperAccount, that the ledger shows  *)
(* only what is committed, that a mint has at most one live row and that   *)
(* closed rows stay closed; that the equity identity holds and the ledger  *)
(* mirrors the rows while no acknowledgement is lost; and that no cash     *)
(* appears or vanishes, whatever is lost.                                  *)
(***************************************************************************)
EXTENDS PaperAccount, Folds, WellFoundedInduction, FiniteSetTheorems, TLAPS

-----------------------------------------------------------------------------
(* Induction over the subsets of a finite set with the property given as a     *)
(* set (see EventPipeline_proofs), and what SumFunctionOnSet computes.         *)

(* Induction over the subsets of a finite set, with the property as a set. *)
LEMMA SubsetInduction ==
    ASSUME NEW S, IsFiniteSet(S), NEW Q \in SUBSET SUBSET S,
           \A T \in SUBSET S : (\A U \in SUBSET T : U # T => U \in Q) => T \in Q
    PROVE  Q = SUBSET S
<1> SUFFICES ASSUME (SUBSET S) \ Q # {} PROVE FALSE
  OBVIOUS
<1>1. IsWellFoundedOn(StrictSubsetOrdering(S), SUBSET S)
  <2>1. FiniteSubsetsOf(S) = SUBSET S
    BY FS_FiniteSubsetsOfFinite, Zenon
  <2>2. IsWellFoundedOn(StrictSubsetOrdering(S), FiniteSubsetsOf(S))
    BY FS_StrictSubsetOrderingWellFounded, Zenon
  <2> QED BY <2>1, <2>2, Zenon
<1> DEFINE R == (SUBSET S) \ Q
<1>2. R \subseteq SUBSET S /\ R # {}
  OBVIOUS
<1> HIDE DEF R
<1>3. PICK T \in R : \A U \in R : ~(<<U, T>> \in StrictSubsetOrdering(S))
  BY <1>1, <1>2, WFMin
<1>4. \A U \in SUBSET T : U # T => U \in Q
  BY <1>2, <1>3 DEF StrictSubsetOrdering, R
<1> QED BY <1>3, <1>4 DEF R

-----------------------------------------------------------------------------
Pick(s) == CHOOSE x \in s : TRUE

SumStep(f, g, s) == IF s = {} THEN 0 ELSE f[Pick(s)] + g[s \ {Pick(s)}]

IsSums(f, g, S) == g \in [SUBSET S -> Int] /\ \A s \in SUBSET S : g[s] = SumStep(f, g, s)

Sums(f, S) == CHOOSE g : g = [s \in SUBSET S |->
                  IF s = {} THEN 0 ELSE f[Pick(s)] + g[s \ {Pick(s)}]]

(* SumFunctionOnSet is the recursive function that CHOOSE defines. *)
LEMMA SumIsSums == ASSUME NEW f, NEW S PROVE SumFunctionOnSet(f, S) = Sums(f, S)[S]
  BY DEF SumFunctionOnSet, FoldFunctionOnSet, MapThenFoldSet, Sums, Pick

(* The element a fold picks from a set is in it. *)
LEMMA PickIn == ASSUME NEW s, s # {} PROVE Pick(s) \in s
  BY DEF Pick

(* Sums over the subsets of two sets agree on what the sets share. *)
LEMMA SumsAgree ==
    ASSUME NEW S, IsFiniteSet(S), NEW f \in [S -> Int], NEW T \in SUBSET S, NEW U \in SUBSET S,
           NEW g, IsSums(f, g, T), NEW h, IsSums(f, h, U)
    PROVE  U \subseteq T => g[U] = h[U]
<1> DEFINE Q == {s \in SUBSET S : s \subseteq T /\ s \subseteq U => g[s] = h[s]}
<1>1. ASSUME NEW s \in SUBSET S, \A r \in SUBSET s : r # s => r \in Q PROVE s \in Q
  <2> SUFFICES ASSUME s \subseteq T, s \subseteq U PROVE g[s] = h[s]
    OBVIOUS
  <2>1. CASE s = {}
    BY <2>1 DEF IsSums, SumStep
  <2>2. CASE s # {}
    <3>1. Pick(s) \in s
      BY <2>2, PickIn
    <3>2. s \ {Pick(s)} \in Q
      BY <1>1, <3>1
    <3>3. g[s \ {Pick(s)}] = h[s \ {Pick(s)}]
      BY <3>2
    <3> QED BY <2>2, <3>3 DEF IsSums, SumStep
  <2> QED BY <2>1, <2>2
<1> HIDE DEF Q
<1>2. Q \in SUBSET SUBSET S
  BY DEF Q
<1>3. Q = SUBSET S
  BY <1>1, <1>2, SubsetInduction
<1> QED BY <1>3 DEF Q

(* Sums over the subsets of a finite set exist. *)
LEMMA SumsExist ==
    ASSUME NEW S, IsFiniteSet(S), NEW f \in [S -> Int]
    PROVE  \E g : IsSums(f, g, S)
<1> DEFINE Q == {T \in SUBSET S : \E g : IsSums(f, g, T)}
           G(T) == CHOOSE g : IsSums(f, g, T)
<1>1. ASSUME NEW T \in SUBSET S, \A U \in SUBSET T : U # T => U \in Q PROVE T \in Q
  <2> DEFINE below == T \ {Pick(T)}
             h == [s \in SUBSET T |->
                      IF s = T THEN (IF T = {} THEN 0 ELSE f[Pick(T)] + G(below)[below])
                      ELSE G(s)[s]]
  <2>1. \A U \in SUBSET T : U # T => IsSums(f, G(U), U)
    BY <1>1
  <2> HIDE DEF G
  <2>2. \A U \in SUBSET T : U # T => G(U)[U] \in Int
    BY <2>1 DEF IsSums
  <2>3. T # {} => Pick(T) \in T /\ below \in SUBSET T /\ below # T
    BY PickIn
  <2>4. h \in [SUBSET T -> Int]
    BY <2>2, <2>3
  <2>5. \A s \in SUBSET T : h[s] = SumStep(f, h, s)
    <3> SUFFICES ASSUME NEW s \in SUBSET T PROVE h[s] = SumStep(f, h, s)
      OBVIOUS
    <3>1. CASE s = T
      BY <2>3, <3>1 DEF SumStep
    <3>2. CASE s # T
      <4>1. h[s] = G(s)[s] /\ IsSums(f, G(s), s)
        BY <2>1, <3>2
      <4>2. CASE s = {}
        BY <4>1, <4>2 DEF IsSums, SumStep
      <4>3. CASE s # {}
        <5> DEFINE r == s \ {Pick(s)}
        <5>1. Pick(s) \in s /\ r \in SUBSET s /\ r \in SUBSET T /\ r # T
          BY <4>3, PickIn
        <5>2. h[r] = G(r)[r] /\ IsSums(f, G(r), r)
          BY <2>1, <5>1
        <5>3. G(s)[r] = G(r)[r]
          <6>1. s \in SUBSET S /\ r \in SUBSET S
            OBVIOUS
          <6> HIDE DEF r
          <6>2. PICK a, b : a = G(s) /\ b = G(r) /\ IsSums(f, a, s) /\ IsSums(f, b, r)
            BY <4>1, <5>2
          <6>3. r \subseteq s => a[r] = b[r]
            BY <6>1, <6>2, SumsAgree
          <6> QED BY <5>1, <6>1, <6>2, <6>3
        <5>4. G(s)[s] = f[Pick(s)] + G(s)[r]
          BY <4>1, <4>3 DEF IsSums, SumStep
        <5> QED BY <4>1, <4>3, <5>2, <5>3, <5>4 DEF SumStep
      <4> QED BY <4>2, <4>3
    <3> QED BY <3>1, <3>2
  <2> HIDE DEF h
  <2>6. IsSums(f, h, T)
    BY <2>4, <2>5 DEF IsSums
  <2> QED BY <2>6
<1> HIDE DEF Q
<1>2. Q \in SUBSET SUBSET S
  BY DEF Q
<1>3. Q = SUBSET S
  BY <1>1, <1>2, SubsetInduction
<1> QED BY <1>3 DEF Q

(* The recursive function of the fold is the sums. *)
LEMMA SumsAre ==
    ASSUME NEW S, IsFiniteSet(S), NEW f \in [S -> Int]
    PROVE  IsSums(f, Sums(f, S), S)
<1>1. PICK g : IsSums(f, g, S)
  BY SumsExist
<1>2. g = [s \in SUBSET S |-> IF s = {} THEN 0 ELSE f[Pick(s)] + g[s \ {Pick(s)}]]
  BY <1>1 DEF IsSums, SumStep
<1> DEFINE F == Sums(f, S)
<1>3. F = [s \in SUBSET S |-> IF s = {} THEN 0 ELSE f[Pick(s)] + F[s \ {Pick(s)}]]
  BY <1>2 DEF Sums
<1> HIDE DEF F
<1>4. DOMAIN F = SUBSET S /\ \A s \in SUBSET S : F[s] = SumStep(f, F, s)
  BY <1>3 DEF SumStep
<1> DEFINE Q == {s \in SUBSET S : F[s] \in Int}
<1>5. ASSUME NEW s \in SUBSET S, \A r \in SUBSET s : r # s => r \in Q PROVE s \in Q
  <2>1. s # {} => Pick(s) \in s /\ s \ {Pick(s)} \in Q
    BY <1>5, PickIn
  <2> QED BY <1>4, <2>1 DEF SumStep
<1> HIDE DEF Q
<1>6. Q \in SUBSET SUBSET S
  BY DEF Q
<1>7. Q = SUBSET S
  BY <1>5, <1>6, SubsetInduction
<1>8. F \in [SUBSET S -> Int]
  BY <1>3, <1>7 DEF Q
<1>9. IsSums(f, F, S)
  BY <1>4, <1>8 DEF IsSums
<1> QED BY <1>9 DEF F

(* A sum of integers is an integer. *)
LEMMA SumType ==
    ASSUME NEW S, IsFiniteSet(S), NEW f \in [S -> Int]
    PROVE  SumFunctionOnSet(f, S) \in Int
<1>1. IsSums(f, Sums(f, S), S)
  BY SumsAre
<1>2. SumFunctionOnSet(f, S) = Sums(f, S)[S]
  BY SumIsSums, Zenon
<1> QED BY <1>1, <1>2 DEF IsSums

(* Changing one term changes the sum by as much. *)
LEMMA SumUpdate ==
    ASSUME NEW S, IsFiniteSet(S), NEW f \in [S -> Int], NEW e \in [S -> Int], NEW p \in S,
           \A x \in S : x # p => e[x] = f[x]
    PROVE  SumFunctionOnSet(e, S) = SumFunctionOnSet(f, S) - f[p] + e[p]
<1> DEFINE g == Sums(f, S)
           h == Sums(e, S)
           Q == {s \in SUBSET S : h[s] = IF p \in s THEN g[s] - f[p] + e[p] ELSE g[s]}
<1>2. IsSums(f, g, S) /\ IsSums(e, h, S)
  BY SumsAre
<1> HIDE DEF g, h
<1>3. ASSUME NEW s \in SUBSET S, \A r \in SUBSET s : r # s => r \in Q PROVE s \in Q
  <2>1. CASE s = {}
    BY <1>2, <2>1 DEF IsSums, SumStep
  <2>2. CASE s # {}
    <3> DEFINE x == Pick(s)
               r == s \ {x}
    <3>1. x \in s /\ r \in SUBSET s /\ r # s
      BY <2>2, PickIn
    <3>2. h[r] = IF p \in r THEN g[r] - f[p] + e[p] ELSE g[r]
      BY <1>3, <3>1
    <3>3. /\ g[s] = f[x] + g[r] /\ h[s] = e[x] + h[r]
          /\ g[r] \in Int /\ h[r] \in Int /\ f[x] \in Int /\ e[x] \in Int /\ f[p] \in Int /\ e[p] \in Int
      BY <1>2, <2>2, <3>1 DEF IsSums, SumStep
    <3>4. CASE x = p
      BY <3>1, <3>2, <3>3, <3>4
    <3>5. CASE x # p
      BY <3>1, <3>2, <3>3, <3>5
    <3> QED BY <3>4, <3>5
  <2> QED BY <2>1, <2>2
<1> HIDE DEF Q
<1>4. Q \in SUBSET SUBSET S
  BY DEF Q
<1>5. Q = SUBSET S
  BY <1>3, <1>4, SubsetInduction
<1>6. h[S] = g[S] - f[p] + e[p]
  BY <1>5 DEF Q
<1> QED BY <1>6, SumIsSums DEF g, h

(* A sum of zeros is zero. *)
LEMMA SumZero ==
    ASSUME NEW S, IsFiniteSet(S), NEW f \in [S -> Int], \A x \in S : f[x] = 0
    PROVE  SumFunctionOnSet(f, S) = 0
<1> DEFINE g == Sums(f, S)
           Q == {s \in SUBSET S : g[s] = 0}
<1>1. IsSums(f, g, S)
  BY SumsAre
<1> HIDE DEF g
<1>2. ASSUME NEW s \in SUBSET S, \A r \in SUBSET s : r # s => r \in Q PROVE s \in Q
  <2>1. s # {} => Pick(s) \in s /\ s \ {Pick(s)} \in Q
    BY <1>2, PickIn
  <2> QED BY <1>1, <2>1 DEF IsSums, SumStep
<1> HIDE DEF Q
<1>3. Q \in SUBSET SUBSET S
  BY DEF Q
<1>4. Q = SUBSET S
  BY <1>2, <1>3, SubsetInduction
<1>5. g[S] = 0
  BY <1>4 DEF Q
<1> QED BY <1>5, SumIsSums DEF g
-----------------------------------------------------------------------------

(* What the loops carry over an await.  A candidate whose entry is under   *)
(* way has no entry fill in the ledger; the positions still to be quoted,  *)
(* judged or sold are open, and the one being sold is none of the others.  *)
LoopsCarry ==
    /\ ~up => entry.pc = "idle" /\ exit.pc = "idle"
    /\ exit.pc = "idle" => exit.todo = {}
    /\ exit.pc \in {"idle", "deciding"} => exit.quotes = NoQuotes
    /\ entry.pc # "idle" => /\ entry.cand \in Candidates
                            /\ OrderId(entry.cand, "entry") \notin filled
    /\ \A c \in exit.todo : book[c].open
    /\ \A c \in Quoted : book[c].open
    /\ exit.pc = "quoting" => \A c \in exit.todo : exit.quotes[c] = 0
    /\ exit.pc \in {"selling", "sold"} =>
           /\ exit.cand \in Candidates /\ exit.reason \in Reasons
           /\ book[exit.cand].open /\ exit.amount <= book[exit.cand].parts
           /\ exit.cand \notin exit.todo /\ exit.quotes[exit.cand] = 0
           /\ \A c \in exit.todo : exit.quotes[c] = 0
           /\ exit.back # "idle"
           /\ exit.back = "deciding" => exit.quotes = NoQuotes

(* The commit comes first: whatever a loop or the ledger shows has an order. *)
CommittedFirst ==
    /\ filled \subseteq orders
    /\ \A c \in Candidates : book[c].open => OrderId(c, "entry") \in filled
    /\ \A c \in Candidates : rows[c].status # "NONE" => OrderId(c, "entry") \in orders
    /\ entry.pc = "committed" => OrderId(entry.cand, "entry") \in orders
    /\ exit.pc = "sold" => OrderId(exit.cand, exit.reason) \in orders

Inv == TypeOK /\ LoopsCarry /\ CommittedFirst /\ OneLivePerMint

-----------------------------------------------------------------------------
(* The cost of an entry is an amount. *)
LEMMA EntryCostType == EntryCost \in Nat
  BY PaperAssumption DEF EntryCost

(* Nothing is open, ordered or under way at the start. *)
LEMMA InitInv == Init => Inv
<1> SUFFICES ASSUME Init PROVE Inv
  OBVIOUS
<1> USE DEF Init, EntryIdle, ExitIdle, EmptyLedger, NoQuotes, NoPosition
<1>1. TypeOK
  BY PaperAssumption DEF TypeOK, RowType, PositionType, LedgerType, ExitType
<1>2. LoopsCarry
  BY DEF LoopsCarry, Quoted
<1>3. CommittedFirst
  BY DEF CommittedFirst
<1>4. OneLivePerMint
  BY DEF OneLivePerMint, OpenRows, Live
<1> QED BY <1>1, <1>2, <1>3, <1>4 DEF Inv

-----------------------------------------------------------------------------
(* The candidate loop. *)

(* An entry that begins, is settled without an order or fails changes        *)
(* neither rows nor ledger.                                                  *)
LEMMA EntryWaitsInv ==
    ASSUME Inv, EntryFails \/ \E c \in Candidates : BeginEntry(c) \/ EntrySettled(c)
    PROVE  Inv'
<1> USE DEF Inv, BeginEntry, EntrySettled, EntryFails, EntryIdle, dbVars, memVars
<1>1. TypeOK'
  BY DEF TypeOK
<1>2. LoopsCarry'
  BY DEF TypeOK, LoopsCarry, Quoted, EntryIdle
<1>3. CommittedFirst'
  BY DEF CommittedFirst
<1>4. OneLivePerMint'
  BY DEF OneLivePerMint, OpenRows
<1> QED BY <1>1, <1>2, <1>3, <1>4

(* The transaction of an entry adds one live row of a mint that had none. *)
LEMMA CommitEntryInv ==
    ASSUME Inv, CommitEntry \/ CommitEntryLost
    PROVE  Inv'
<1> DEFINE c == entry.cand
<1> USE DEF Inv, CommitEntry, CommitEntryLost, InsertEntry, EntryIdle, memVars
<1>1. c \in Candidates /\ OrderId(c, "entry") \notin filled
  BY DEF LoopsCarry
<1>2. TypeOK'
  <2>1. account' \in [cash : Int, locked : Int, realized : Int, unrealized : Int, equity : Int]
    <3>1. account' = [cash |-> account.cash - EntryCost, locked |-> account.locked + EntryCost,
                      realized |-> account.realized, unrealized |-> account.unrealized,
                      equity |-> account.equity]
      BY DEF TypeOK
    <3> QED BY <3>1, EntryCostType DEF TypeOK
  <2>2. rows' \in [Candidates -> RowType]
    BY <1>1, PaperAssumption DEF TypeOK, RowType
  <2>3. orders' \subseteq Candidates \X (Reasons \cup {"entry"})
    BY <1>1 DEF TypeOK, OrderId
  <2> QED BY <2>1, <2>2, <2>3 DEF TypeOK
<1>3. LoopsCarry'
  BY <1>1 DEF TypeOK, LoopsCarry, Quoted
<1>4. CommittedFirst'
  BY <1>1 DEF TypeOK, CommittedFirst
<1>5. OneLivePerMint'
  BY <1>1 DEF TypeOK, OneLivePerMint, OpenRows, CommitAllows, RowType
<1> QED BY <1>2, <1>3, <1>4, <1>5

(* The ledger books an entry that has its order. *)
LEMMA LedgerOpenInv ==
    ASSUME Inv, LedgerOpen
    PROVE  Inv'
<1> DEFINE c == entry.cand
<1> USE DEF Inv, LedgerOpen
<1>1. /\ c \in Candidates /\ OrderId(c, "entry") \notin filled
      /\ OrderId(c, "entry") \in orders
      /\ ~book[c].open
  BY DEF LoopsCarry, CommittedFirst
<1>2. TypeOK'
  BY <1>1, EntryCostType, PaperAssumption DEF TypeOK, PositionType, LedgerType, OrderId, EntryIdle
<1>3. LoopsCarry'
  BY <1>1 DEF TypeOK, LoopsCarry, Quoted, EntryIdle
<1>4. CommittedFirst'
  BY <1>1 DEF TypeOK, CommittedFirst, EntryIdle
<1>5. OneLivePerMint'
  BY DEF OneLivePerMint, OpenRows
<1> QED BY <1>2, <1>3, <1>4, <1>5

-----------------------------------------------------------------------------
(* The exit loop up to a sale. *)

(* Starting a pass, quoting and skipping the marks only move the loop. *)
LEMMA QuotingInv ==
    ASSUME Inv,
           \/ BeginPass \/ SkipMarks
           \/ \E c \in Candidates : GiveUp(c) \/ QuoteFails(c)
           \/ \E c \in Candidates, price \in Prices : Quote(c, price)
    PROVE  Inv'
<1> USE DEF Inv, dbVars, memVars
<1>1. CASE BeginPass
  <2> USE <1>1 DEF BeginPass
  <2>1. TypeOK'
    BY DEF TypeOK, ExitType, OpenBook
  <2>2. LoopsCarry'
    BY DEF TypeOK, ExitType, LoopsCarry, Quoted, OpenBook, NoQuotes
  <2>3. CommittedFirst' /\ OneLivePerMint'
    BY DEF TypeOK, ExitType, CommittedFirst, OneLivePerMint, OpenRows
  <2> QED BY <2>1, <2>2, <2>3
<1>2. CASE SkipMarks
  <2> USE <1>2 DEF SkipMarks
  <2>1. TypeOK'
    <3>1. NoQuotes \in [Candidates -> Nat] /\ Quoted \subseteq Candidates
      BY DEF NoQuotes, Quoted
    <3>2. exit' = [pc |-> "deciding", held |-> exit.held, todo |-> Quoted,
                   quotes |-> NoQuotes, gain |-> 0, snap |-> exit.snap,
                   cand |-> exit.cand, reason |-> exit.reason, amount |-> exit.amount,
                   price |-> exit.price, back |-> exit.back]
      BY DEF TypeOK, ExitType
    <3> QED BY <3>1, <3>2 DEF TypeOK, ExitType
  <2>2. LoopsCarry'
    <3>1. exit'.pc = "deciding" /\ exit'.todo = Quoted /\ exit'.quotes = NoQuotes
      BY DEF TypeOK, ExitType
    <3> QED BY <3>1 DEF TypeOK, LoopsCarry, Quoted, NoQuotes
  <2>3. CommittedFirst' /\ OneLivePerMint'
    BY DEF TypeOK, ExitType, CommittedFirst, OneLivePerMint, OpenRows
  <2> QED BY <2>1, <2>2, <2>3
<1>3. CASE \E c \in Candidates : GiveUp(c)
  <2>1. PICK c \in Candidates : GiveUp(c)
    BY <1>3
  <2>2. TypeOK'
    BY <2>1 DEF GiveUp, TypeOK, ExitType, PositionType, Reasons
  <2>3. /\ exit'.pc = "selling" /\ exit'.todo = exit.todo \ {c}
        /\ exit'.quotes = exit.quotes /\ exit'.cand = c
        /\ exit'.reason = "UNRECOVERABLE" /\ exit'.amount = book[c].parts
        /\ exit'.back = "quoting" /\ exit.pc = "quoting" /\ c \in exit.todo
        /\ UNCHANGED <<dbVars, up, memVars, entry>>
    BY <2>1 DEF GiveUp, TypeOK, ExitType
  <2>4. LoopsCarry'
    <3>1. book[c].open /\ exit.quotes[c] = 0
      BY <2>3 DEF LoopsCarry
    <3>2. book[c].parts <= book[c].parts
      BY DEF TypeOK, PositionType
    <3>3. Quoted' = Quoted /\ exit'.reason \in Reasons
      BY <2>3 DEF Quoted, Reasons
    <3> QED BY <2>3, <3>1, <3>2, <3>3 DEF LoopsCarry
  <2>5. CommittedFirst' /\ OneLivePerMint'
    BY <2>3 DEF CommittedFirst, OneLivePerMint, OpenRows
  <2> QED BY <2>2, <2>4, <2>5
<1>4. CASE \E c \in Candidates : QuoteFails(c)
  <2>1. PICK c \in Candidates : QuoteFails(c)
    BY <1>4
  <2>2. TypeOK'
    BY <2>1 DEF QuoteFails, TypeOK, ExitType
  <2>3. /\ exit'.pc = "quoting" /\ exit'.todo = exit.todo \ {c}
        /\ exit'.quotes = exit.quotes /\ exit.pc = "quoting"
        /\ UNCHANGED <<dbVars, up, memVars, entry>>
    BY <2>1 DEF QuoteFails, TypeOK, ExitType
  <2>4. LoopsCarry'
    BY <2>3 DEF LoopsCarry, Quoted
  <2>5. CommittedFirst' /\ OneLivePerMint'
    BY <2>3 DEF CommittedFirst, OneLivePerMint, OpenRows
  <2> QED BY <2>2, <2>4, <2>5
<1>5. CASE \E c \in Candidates, price \in Prices : Quote(c, price)
  <2>1. PICK c \in Candidates, price \in Prices : Quote(c, price)
    BY <1>5
  <2> DEFINE q == [exit.quotes EXCEPT ![c] = price]
             g == exit.gain + book[c].parts * (price - UnitCost)
  <2>2. /\ exit' = [pc |-> exit.pc, held |-> exit.held, todo |-> exit.todo \ {c},
                    quotes |-> q, gain |-> g, snap |-> exit.snap, cand |-> exit.cand,
                    reason |-> exit.reason, amount |-> exit.amount,
                    price |-> exit.price, back |-> exit.back]
        /\ exit.pc = "quoting" /\ c \in exit.todo
        /\ UNCHANGED <<dbVars, up, memVars, entry, lostAcks>>
    BY <2>1 DEF Quote, TypeOK, ExitType
  <2>3. q \in [Candidates -> Nat] /\ \A d \in Candidates : d # c => q[d] = exit.quotes[d]
    BY PaperAssumption DEF TypeOK, ExitType
  <2>4. g \in Int
    <3>1. book[c].parts \in Int /\ price - UnitCost \in Int /\ exit.gain \in Int
      BY PaperAssumption DEF TypeOK, PositionType, ExitType
    <3>2. book[c].parts * (price - UnitCost) \in Int
      BY <3>1
    <3> QED BY <3>1, <3>2
  <2> HIDE DEF q, g
  <2>5. TypeOK'
    BY <2>2, <2>3, <2>4 DEF TypeOK, ExitType
  <2>6. LoopsCarry'
    BY <2>2, <2>3 DEF TypeOK, ExitType, LoopsCarry, Quoted
  <2>7. CommittedFirst' /\ OneLivePerMint'
    BY <2>2 DEF CommittedFirst, OneLivePerMint, OpenRows
  <2> QED BY <2>5, <2>6, <2>7
<1> QED BY <1>1, <1>2, <1>3, <1>4, <1>5

(* mark_to_market re-marks positions; none opens, closes or changes size. *)
LEMMA MarkLedgerInv ==
    ASSUME Inv, MarkLedger
    PROVE  Inv'
<1> USE DEF Inv
<1>1. /\ exit' = [pc |-> "marking", held |-> OpenBook, todo |-> Quoted,
                  quotes |-> exit.quotes, gain |-> 0, snap |-> MarkedLedger,
                  cand |-> exit.cand, reason |-> exit.reason, amount |-> exit.amount,
                  price |-> exit.price, back |-> exit.back]
      /\ ledger' = MarkedLedger /\ book' = MarkedBook /\ exit.pc = "quoting"
      /\ UNCHANGED <<dbVars, up, filled, entry, lostAcks>>
  BY DEF MarkLedger, TypeOK, ExitType
<1>2. ledger' \in LedgerType
  <2>1. ledger' = [equity |-> ledger.equity - ledger.unrealized + exit.gain,
                   realized |-> ledger.realized, unrealized |-> exit.gain,
                   locked |-> ledger.locked]
    BY <1>1 DEF MarkedLedger, TypeOK, LedgerType
  <2> QED BY <2>1 DEF TypeOK, LedgerType, ExitType
<1>3. /\ MarkedBook \in [Candidates -> PositionType]
      /\ \A c \in Candidates : /\ MarkedBook[c].open = book[c].open
                               /\ MarkedBook[c].parts = book[c].parts
  BY DEF MarkedBook, TypeOK, PositionType, ExitType
<1>4. OpenBook \subseteq Candidates /\ Quoted \subseteq Candidates
  BY DEF OpenBook, Quoted
<1>5. TypeOK'
  BY <1>1, <1>2, <1>3, <1>4 DEF TypeOK, ExitType, dbVars
<1>6. LoopsCarry'
  BY <1>1, <1>3 DEF LoopsCarry, Quoted, dbVars
<1>7. CommittedFirst' /\ OneLivePerMint'
  BY <1>1, <1>3 DEF CommittedFirst, OneLivePerMint, OpenRows, dbVars
<1> QED BY <1>5, <1>6, <1>7

(* Re-marking a row keeps its type, status and size. *)
LEMMA RemarkedRow ==
    ASSUME NEW r \in RowType, NEW u \in Int, NEW t \in SUBSET {"TP1", "TP2"}
    PROVE  LET row == [r EXCEPT !.unrealized = u, !.taken = t]
           IN  row \in RowType /\ row.status = r.status /\ row.parts = r.parts
<1>1. [r EXCEPT !.unrealized = u] \in RowType
  BY DEF RowType
<1>2. [[r EXCEPT !.unrealized = u] EXCEPT !.taken = t] \in RowType
  BY <1>1 DEF RowType
<1> QED BY <1>2 DEF RowType

(* The marks change figures and take-profit flags of rows, not their state. *)
LEMMA UpdateMarksInv ==
    ASSUME Inv, UpdateMarks
    PROVE  Inv'
<1> USE DEF Inv
<1>1. /\ exit' = [pc |-> "deciding", held |-> exit.held, todo |-> exit.todo,
                  quotes |-> NoQuotes, gain |-> exit.gain, snap |-> EmptyLedger,
                  cand |-> exit.cand, reason |-> exit.reason, amount |-> exit.amount,
                  price |-> exit.price, back |-> exit.back]
      /\ exit.pc = "marking" /\ account' = MarkedAccount
      /\ UNCHANGED <<orders, pending, active, costs, up, memVars, entry, lostAcks>>
  BY DEF UpdateMarks, TypeOK, ExitType
<1>2. account' \in
         [cash : Int, locked : Int, realized : Int, unrealized : Int, equity : Int]
  <2>1. account' = [cash |-> account.cash, locked |-> exit.snap.locked,
                    realized |-> account.realized,
                    unrealized |-> exit.snap.unrealized, equity |-> exit.snap.equity]
    BY <1>1 DEF MarkedAccount, TypeOK
  <2> QED BY <2>1 DEF TypeOK, ExitType, LedgerType
<1>3. \A c \in Candidates : MarkedValue(c) \in Int
  BY PaperAssumption DEF MarkedValue, TypeOK, ExitType, PositionType
<1>4. /\ rows' \in [Candidates -> RowType]
      /\ \A c \in Candidates : rows'[c].status = rows[c].status
  <2>1. \A c \in Candidates : rows[c] \in RowType /\ book[c].taken \in SUBSET {"TP1", "TP2"}
    BY DEF TypeOK, PositionType
  <2>2. rows' = [c \in Candidates |->
           IF c \in exit.held
           THEN [rows[c] EXCEPT !.unrealized = MarkedValue(c), !.taken = book[c].taken]
           ELSE rows[c]]
    BY DEF UpdateMarks
  <2>3. \A c \in Candidates :
           LET row == [rows[c] EXCEPT !.unrealized = MarkedValue(c), !.taken = book[c].taken]
           IN  row \in RowType /\ row.status = rows[c].status
    <3> HIDE DEF Inv
    <3> TAKE c \in Candidates
    <3>1. /\ rows[c] \in RowType /\ MarkedValue(c) \in Int
          /\ book[c].taken \in SUBSET {"TP1", "TP2"}
      BY <1>3, <2>1
    <3> QED BY <3>1, RemarkedRow, Zenon
  <2> HIDE DEF Inv
  <2> QED BY <2>1, <2>2, <2>3
<1>5. NoQuotes \in [Candidates -> Nat] /\ EmptyLedger \in LedgerType
  BY PaperAssumption DEF NoQuotes, EmptyLedger, LedgerType
<1>6. TypeOK'
  BY <1>1, <1>2, <1>4, <1>5 DEF TypeOK, ExitType, memVars
<1>7. LoopsCarry'
  BY <1>1 DEF LoopsCarry, Quoted, NoQuotes, memVars
<1>8. CommittedFirst' /\ OneLivePerMint'
  BY <1>1, <1>4 DEF CommittedFirst, OneLivePerMint, OpenRows, memVars
<1> QED BY <1>6, <1>7, <1>8

(* A decision closes no more than the position has. *)
LEMMA CloseBounded ==
    ASSUME TypeOK, NEW c \in Candidates, NEW r
    PROVE  CloseParts(c, r) \in Nat /\ CloseParts(c, r) <= book[c].parts
<1>1. book[c].parts \in Nat /\ TP2Parts \in Nat
  BY PaperAssumption DEF TypeOK, PositionType
<1>2. book[c].parts \div 2 \in Nat /\ book[c].parts \div 2 <= book[c].parts
  BY <1>1
<1> QED BY <1>1, <1>2 DEF CloseParts

(* Judging the quoted positions, ending or abandoning a pass. *)
LEMMA DecidingInv ==
    ASSUME Inv,
           \/ \E c \in Candidates : KeepPosition(c)
           \/ \E c \in Candidates, r \in Reasons : DecideExit(c, r)
           \/ EndPass \/ PassFails
    PROVE  Inv'
<1> USE DEF Inv
<1>1. CASE \E c \in Candidates : KeepPosition(c)
  <2>1. PICK c \in Candidates : KeepPosition(c)
    BY <1>1
  <2>2. TypeOK'
    BY <2>1 DEF KeepPosition, TypeOK, ExitType, dbVars, memVars
  <2>3. /\ exit'.pc = "deciding" /\ exit'.todo = exit.todo \ {c}
        /\ exit'.quotes = exit.quotes /\ exit.pc = "deciding"
        /\ UNCHANGED <<dbVars, up, memVars, entry>>
    BY <2>1 DEF KeepPosition, TypeOK, ExitType
  <2>4. LoopsCarry'
    BY <2>3 DEF LoopsCarry, Quoted, dbVars, memVars
  <2>5. CommittedFirst' /\ OneLivePerMint'
    BY <2>3 DEF CommittedFirst, OneLivePerMint, OpenRows, dbVars, memVars
  <2> QED BY <2>2, <2>4, <2>5
<1>2. CASE \E c \in Candidates, r \in Reasons : DecideExit(c, r)
  <2>1. PICK c \in Candidates, r \in Reasons : DecideExit(c, r)
    BY <1>2
  <2>2. /\ exit' = [pc |-> "selling", held |-> exit.held, todo |-> exit.todo \ {c},
                    quotes |-> exit.quotes, gain |-> exit.gain, snap |-> exit.snap,
                    cand |-> c, reason |-> r, amount |-> CloseParts(c, r),
                    price |-> exit.price, back |-> "deciding"]
        /\ exit.pc = "deciding" /\ c \in exit.todo
        /\ UNCHANGED <<dbVars, up, memVars, entry, lostAcks>>
    BY <2>1 DEF DecideExit, TypeOK, ExitType
  <2>3. TypeOK'
    BY <2>2, CloseBounded DEF TypeOK, ExitType, dbVars, memVars
  <2>4. LoopsCarry'
    <3>1. book[c].open /\ exit.quotes = NoQuotes
      BY <2>2 DEF LoopsCarry
    <3>2. \A d \in Candidates : NoQuotes[d] = 0
      BY DEF NoQuotes
    <3>3. exit.todo \subseteq Candidates
      BY DEF TypeOK, ExitType
    <3> QED BY <2>2, <3>1, <3>2, <3>3, CloseBounded DEF LoopsCarry, Quoted, dbVars, memVars
  <2>5. CommittedFirst' /\ OneLivePerMint'
    BY <2>2 DEF CommittedFirst, OneLivePerMint, OpenRows, dbVars, memVars
  <2> QED BY <2>3, <2>4, <2>5
<1>3. CASE EndPass \/ PassFails
  <2>1. exit' = ExitIdle /\ UNCHANGED <<dbVars, up, memVars, entry, lostAcks>>
    BY <1>3 DEF EndPass, PassFails
  <2>2. TypeOK'
    BY <2>1, PaperAssumption
    DEF TypeOK, ExitType, ExitIdle, EmptyLedger, LedgerType, NoQuotes, dbVars, memVars
  <2>3. LoopsCarry'
    BY <2>1 DEF LoopsCarry, ExitIdle, NoQuotes, Quoted, dbVars, memVars
  <2>4. CommittedFirst' /\ OneLivePerMint'
    BY <2>1 DEF CommittedFirst, OneLivePerMint, OpenRows, ExitIdle, dbVars, memVars
  <2> QED BY <2>2, <2>3, <2>4
<1> QED BY <1>1, <1>2, <1>3

-----------------------------------------------------------------------------
(* Sales. *)

(* The unrealized PnL of the closed fraction is an amount. *)
LEMMA ClosedFractionType ==
    ASSUME TypeOK, NEW p \in Candidates, NEW n \in Nat, rows[p].parts > 0
    PROVE  (rows[p].unrealized * n) \div rows[p].parts \in Int
<1>1. rows[p].unrealized \in Int /\ rows[p].parts \in Nat
  BY DEF TypeOK, RowType
<1>2. rows[p].unrealized * n \in Int
  BY <1>1
<1> QED BY <1>1, <1>2

(* What a sale of n parts makes of a row that has them. *)
LEMMA SoldRowType ==
    ASSUME TypeOK, NEW p \in Candidates, NEW n \in Nat, NEW price \in Nat,
           n > 0, n <= rows[p].parts
    PROVE  /\ SoldRow(p, n, price) \in RowType
           /\ SoldRow(p, n, price).parts = rows[p].parts - n
           /\ SoldRow(p, n, price).status # "NONE"
<1>1. rows[p].unrealized \in Int /\ rows[p].parts \in Nat /\ rows[p].parts > 0
      /\ rows[p].taken \subseteq {"TP1", "TP2"}
  BY DEF TypeOK, RowType
<1>2. (rows[p].unrealized * n) \div rows[p].parts \in Int
  BY <1>1, ClosedFractionType
<1>3. rows[p].unrealized - (rows[p].unrealized * n) \div rows[p].parts \in Int
  BY <1>1, <1>2
<1>4. rows[p].parts - n \in Nat
  BY <1>1
<1>5. RowStatus(rows[p].parts - n, price) \in {"PARTIAL", "CLOSED", "UNRECOVERABLE"}
  BY DEF RowStatus
<1>6. TakenAfter(rows[p].taken, exit.reason, price) \in SUBSET {"TP1", "TP2"}
  BY <1>1 DEF TakenAfter
<1> QED BY <1>3, <1>4, <1>5, <1>6 DEF SoldRow, RowType

(* The transaction of an exit sells parts that a live row has. *)
LEMMA InsertExitFacts ==
    ASSUME Inv, exit.pc = "selling", NEW price \in Prices \cup {0}, InsertExit(price)
    PROVE  /\ account' \in [cash : Int, locked : Int, realized : Int, unrealized : Int, equity : Int]
           /\ orders' = orders \cup {OrderId(exit.cand, exit.reason)}
           /\ UNCHANGED <<pending, active, costs>>
           /\ \E p \in OpenRows :
                 /\ rows' = [rows EXCEPT ![p] = SoldRow(p, exit.amount, price)]
                 /\ SoldRow(p, exit.amount, price) \in RowType
                 /\ SoldRow(p, exit.amount, price).parts <= rows[p].parts
<1> USE DEF Inv
<1>1. PICK p \in OpenRows :
         /\ exit.amount > 0 /\ exit.amount <= rows[p].parts
         /\ rows' = [rows EXCEPT ![p] = SoldRow(p, exit.amount, price)]
         /\ account' = SoldAccount(p, exit.amount, price)
  BY DEF InsertExit
<1>2. /\ p \in Candidates /\ exit.amount \in Nat /\ price \in Nat
      /\ rows[p].parts \in Nat /\ rows[p].parts > 0
  BY <1>1, PaperAssumption DEF OpenRows, TypeOK, RowType, ExitType
<1> DEFINE n == exit.amount
           realized == n * price - n * UnitCost
           closed == (rows[p].unrealized * n) \div rows[p].parts
<1>3. realized \in Int /\ n * price \in Int /\ n * UnitCost \in Int
  BY <1>2, PaperAssumption
<1>4. closed \in Int
  BY <1>2, ClosedFractionType
<1>5. account' = [cash |-> account.cash + n * price, locked |-> account.locked - n * UnitCost,
                  realized |-> account.realized + realized,
                  unrealized |-> account.unrealized - closed,
                  equity |-> account.equity + realized - closed]
  BY <1>1 DEF SoldAccount, TypeOK
<1>6. account' \in [cash : Int, locked : Int, realized : Int, unrealized : Int, equity : Int]
  <2> HIDE DEF realized, closed
  <2> QED BY <1>3, <1>4, <1>5 DEF TypeOK
<1>7. SoldRow(p, n, price) \in RowType /\ SoldRow(p, n, price).parts <= rows[p].parts
  <2>1. SoldRow(p, n, price) \in RowType /\ SoldRow(p, n, price).parts = rows[p].parts - n
    BY <1>1, <1>2, SoldRowType
  <2> QED BY <1>2, <2>1
<1> QED BY <1>1, <1>6, <1>7 DEF InsertExit

(* A commit of an exit, acknowledged or not, and the answer to a repeated one. *)
LEMMA CommitExitInv ==
    ASSUME Inv, NEW price \in Prices \cup {0},
           CommitExit(price) \/ CommitExitLost(price) \/ CommitExitAgain(price)
    PROVE  Inv'
<1> USE DEF Inv
<1>1. price \in Nat /\ exit.pc = "selling" /\ exit.cand \in Candidates
      /\ exit.reason \in Reasons
  BY PaperAssumption DEF CommitExit, CommitExitLost, CommitExitAgain, LoopsCarry
<1> DEFINE sold == [pc |-> "sold", held |-> exit.held, todo |-> exit.todo,
                    quotes |-> exit.quotes, gain |-> exit.gain, snap |-> exit.snap,
                    cand |-> exit.cand, reason |-> exit.reason, amount |-> exit.amount,
                    price |-> price, back |-> exit.back]
<1>2. \/ exit' = sold /\ OrderId(exit.cand, exit.reason) \in orders'
      \/ exit' = ExitIdle
  <2>1. CASE exit' = [exit EXCEPT !.pc = "sold", !.price = price]
    <3>1. exit' = sold
      BY <2>1 DEF TypeOK, ExitType
    <3>2. OrderId(exit.cand, exit.reason) \in orders'
      BY <1>1, <2>1
      DEF CommitExit, CommitExitLost, CommitExitAgain, InsertExit, ExitIdle, dbVars,
          TypeOK, ExitType
    <3> QED BY <3>1, <3>2
  <2>2. CASE exit' = ExitIdle
    BY <2>2
  <2> QED BY <2>1, <2>2 DEF CommitExit, CommitExitLost, CommitExitAgain
<1>3. UNCHANGED <<up, memVars, entry>> /\ lostAcks' \in Nat
  BY DEF CommitExit, CommitExitLost, CommitExitAgain, TypeOK
<1>4. \/ UNCHANGED dbVars
      \/ InsertExit(price)
  BY DEF CommitExit, CommitExitLost, CommitExitAgain
<1>5. exit' \in ExitType
  BY <1>1, <1>2, PaperAssumption
  DEF TypeOK, ExitType, ExitIdle, EmptyLedger, LedgerType, NoQuotes
<1>6. /\ account' \in [cash : Int, locked : Int, realized : Int, unrealized : Int, equity : Int]
      /\ rows' \in [Candidates -> RowType]
      /\ orders' \subseteq Candidates \X (Reasons \cup {"entry"}) /\ orders \subseteq orders'
      /\ UNCHANGED <<pending, active, costs>>
      /\ \A c \in Candidates :
             rows'[c].status # rows[c].status => rows[c].status \in Live
  <2>1. CASE UNCHANGED dbVars
    BY <2>1 DEF dbVars, TypeOK
  <2>2. CASE InsertExit(price)
    <3>1. OrderId(exit.cand, exit.reason) \in Candidates \X (Reasons \cup {"entry"})
      BY <1>1 DEF OrderId
    <3> QED BY <1>1, <2>2, <3>1, InsertExitFacts DEF TypeOK, OpenRows
  <2> QED BY <1>4, <2>1, <2>2
<1>7. TypeOK'
  BY <1>3, <1>5, <1>6 DEF TypeOK, memVars
<1>8. LoopsCarry'
  BY <1>1, <1>2, <1>3 DEF LoopsCarry, ExitIdle, NoQuotes, Quoted, memVars
<1>9. CommittedFirst'
  BY <1>2, <1>3, <1>6 DEF CommittedFirst, ExitIdle, Live, memVars
<1>10. OneLivePerMint'
  BY <1>6 DEF OneLivePerMint, OpenRows
<1> QED BY <1>7, <1>8, <1>9, <1>10

(* The ledger books a committed exit of the position it was decided for. *)
LEMMA LedgerCloseInv ==
    ASSUME Inv, LedgerClose
    PROVE  Inv'
<1> USE DEF Inv
<1> DEFINE c == exit.cand
           left == book[c].parts - exit.amount
           position == [open |-> left > 0, parts |-> left, mark |-> book[c].mark,
                        taken |-> TakenAfter(book[c].taken, exit.reason, exit.price)]
<1>1. /\ exit.pc = "sold" /\ c \in Candidates /\ exit.reason \in Reasons
      /\ book[c].open /\ exit.amount <= book[c].parts
      /\ c \notin exit.todo /\ exit.quotes[c] = 0
      /\ \A d \in exit.todo : exit.quotes[d] = 0
      /\ exit.back # "idle" /\ (exit.back = "deciding" => exit.quotes = NoQuotes)
      /\ OrderId(c, exit.reason) \in orders
  BY DEF LedgerClose, LoopsCarry, CommittedFirst
<1>2. /\ exit' = [pc |-> exit.back, held |-> exit.held, todo |-> exit.todo,
                  quotes |-> exit.quotes, gain |-> exit.gain, snap |-> exit.snap,
                  cand |-> "none", reason |-> "none", amount |-> 0, price |-> 0,
                  back |-> "idle"]
      /\ book' = [book EXCEPT ![c] = position]
      /\ filled' = filled \cup {OrderId(c, exit.reason)}
      /\ ledger' = BookLedger(c)
      /\ UNCHANGED <<dbVars, up, entry, lostAcks>>
  BY DEF LedgerClose, TypeOK, ExitType
<1>3. position \in PositionType
  <2>1. left \in Nat
    BY <1>1 DEF TypeOK, PositionType, ExitType
  <2>2. (left > 0) \in BOOLEAN
    BY <2>1
  <2>3. book[c].mark \in Nat
    BY <1>1 DEF TypeOK, PositionType
  <2>4. TakenAfter(book[c].taken, exit.reason, exit.price) \in SUBSET {"TP1", "TP2"}
    BY <1>1 DEF TakenAfter, TypeOK, PositionType
  <2> HIDE DEF left
  <2> QED BY <2>1, <2>2, <2>3, <2>4 DEF PositionType
<1>4. ledger' \in LedgerType
  <2>1. exit.amount \in Int /\ exit.price - UnitCost \in Int /\ book[c].mark - UnitCost \in Int
        /\ UnitCost \in Int
    BY <1>1, PaperAssumption DEF TypeOK, ExitType, PositionType
  <2>2. BookRealized \in Int /\ BookClosed(c) \in Int /\ exit.amount * UnitCost \in Int
    BY <2>1 DEF BookRealized, BookClosed
  <2>3. ledger' = [equity |-> ledger.equity + BookRealized - BookClosed(c),
                   realized |-> ledger.realized + BookRealized,
                   unrealized |-> ledger.unrealized - BookClosed(c),
                   locked |-> ledger.locked - exit.amount * UnitCost]
    BY <1>2 DEF BookLedger, TypeOK, LedgerType
  <2> QED BY <2>2, <2>3 DEF TypeOK, LedgerType
<1>5. OrderId(c, exit.reason) \in Candidates \X (Reasons \cup {"entry"})
  BY <1>1 DEF OrderId
<1>6. exit' \in ExitType
  BY <1>2 DEF TypeOK, ExitType
<1> HIDE DEF position
<1>7. book' \in [Candidates -> PositionType] /\ \A d \in Candidates : d # c => book'[d] = book[d]
  BY <1>2, <1>3 DEF TypeOK
<1>8. TypeOK'
  BY <1>2, <1>4, <1>5, <1>6, <1>7 DEF TypeOK, dbVars
<1>9. OrderId(c, exit.reason) # OrderId(entry.cand, "entry")
  BY <1>1, PaperAssumption DEF OrderId, Reasons
<1>10. LoopsCarry'
  <2>1. exit.back \in {"quoting", "deciding"} /\ exit.todo \subseteq Candidates
    BY <1>1 DEF TypeOK, ExitType
  <2>2. \A d \in exit.todo \cup Quoted : d # c
    BY <1>1 DEF Quoted
  <2> QED BY <1>1, <1>2, <1>7, <1>9, <2>1, <2>2 DEF LoopsCarry, Quoted, dbVars
<1>11. CommittedFirst'
  BY <1>1, <1>2, <1>7 DEF CommittedFirst, TypeOK, ExitType, dbVars
<1>12. OneLivePerMint'
  BY <1>2 DEF OneLivePerMint, OpenRows, dbVars
<1> QED BY <1>8, <1>10, <1>11, <1>12

-----------------------------------------------------------------------------
(* The process. *)

(* A stopped process forgets its ledger and its loops. *)
LEMMA StopInv ==
    ASSUME Inv, Crash \/ Shutdown
    PROVE  Inv'
<1> USE DEF Inv
<1>1. StopProcess /\ active' \in BOOLEAN
  BY DEF Crash, Shutdown, TypeOK
<1>2. TypeOK'
  <2>1. /\ EmptyLedger \in LedgerType /\ NoPosition \in PositionType
        /\ ExitIdle \in ExitType
        /\ EntryIdle \in [pc : {"idle", "quoting", "committed"}, cand : Candidates \cup {"none"}]
    BY PaperAssumption
    DEF EmptyLedger, LedgerType, NoPosition, PositionType, ExitIdle, ExitType, NoQuotes, EntryIdle
  <2> QED BY <1>1, <2>1 DEF StopProcess, TypeOK
<1>3. LoopsCarry'
  BY <1>1 DEF StopProcess, LoopsCarry, ExitIdle, EntryIdle, NoQuotes, Quoted
<1>4. CommittedFirst' /\ OneLivePerMint'
  BY <1>1 DEF StopProcess, CommittedFirst, OneLivePerMint, OpenRows, NoPosition, ExitIdle, EntryIdle
<1> QED BY <1>2, <1>3, <1>4

(* A new process finds in the rows only positions that have an order. *)
LEMMA RestartInv ==
    ASSUME Inv, Restart
    PROVE  Inv'
<1> USE DEF Inv, Restart
<1>1. RestoredLedger \in LedgerType
  BY DEF RestoredLedger, LedgerType, TypeOK
<1>2. /\ RestoredBook \in [Candidates -> PositionType]
      /\ \A c \in Candidates : RestoredBook[c].open <=> rows[c].status \in Live
  <2> SUFFICES ASSUME NEW c \in Candidates
               PROVE  /\ RestoredBook[c] \in PositionType
                      /\ RestoredBook[c].open <=> rows[c].status \in Live
    BY DEF RestoredBook
  <2> DEFINE live == rows[c].status \in Live
             mark == IF live THEN UnitCost ELSE 0
  <2>1. rows[c].parts \in Nat /\ rows[c].taken \in SUBSET {"TP1", "TP2"}
    BY DEF TypeOK, RowType
  <2>2. live \in BOOLEAN /\ mark \in Nat
    BY PaperAssumption
  <2>3. RestoredBook[c] = [open |-> live, parts |-> rows[c].parts, mark |-> mark,
                           taken |-> rows[c].taken]
    BY DEF RestoredBook
  <2>4. live <=> rows[c].status \in Live
    OBVIOUS
  <2> HIDE DEF live, mark
  <2>5. RestoredBook[c] \in PositionType /\ RestoredBook[c].open = live
    BY <2>1, <2>2, <2>3 DEF PositionType
  <2> QED BY <2>4, <2>5
<1>3. TypeOK'
  BY <1>1, <1>2 DEF TypeOK
<1>4. LoopsCarry'
  BY DEF LoopsCarry, NoQuotes, Quoted
<1>5. CommittedFirst' /\ OneLivePerMint'
  BY <1>2 DEF CommittedFirst, LoopsCarry, OneLivePerMint, OpenRows, Live
<1> QED BY <1>3, <1>4, <1>5

(* An operational cost changes figures of the account only. *)
LEMMA CostInv ==
    ASSUME Inv, RecordOperationalCost
    PROVE  Inv'
<1> USE DEF Inv, RecordOperationalCost, memVars
<1>1. account' = [cash |-> account.cash - CostAmount, locked |-> account.locked,
                  realized |-> account.realized, unrealized |-> account.unrealized,
                  equity |-> account.equity - CostAmount]
  BY DEF TypeOK
<1>2. TypeOK'
  BY <1>1, PaperAssumption DEF TypeOK
<1>3. LoopsCarry' /\ CommittedFirst' /\ OneLivePerMint'
  BY DEF LoopsCarry, Quoted, CommittedFirst, OneLivePerMint, OpenRows
<1> QED BY <1>2, <1>3

(* Every step preserves the invariant. *)
LEMMA NextInv == Inv /\ [Next]_vars => Inv'
<1> SUFFICES ASSUME Inv, [Next]_vars PROVE Inv'
  OBVIOUS
<1>1. CASE EntryNext
  BY <1>1, EntryWaitsInv, CommitEntryInv, LedgerOpenInv DEF EntryNext
<1>2. CASE ExitNext
  BY <1>2, QuotingInv, MarkLedgerInv, UpdateMarksInv, DecidingInv, CommitExitInv, LedgerCloseInv
  DEF ExitNext
<1>3. CASE ProcessNext
  BY <1>3, StopInv, RestartInv, CostInv DEF ProcessNext
<1>4. CASE UNCHANGED vars
  BY <1>4 DEF vars, dbVars, memVars, Inv, TypeOK, LoopsCarry, Quoted, CommittedFirst,
              OneLivePerMint, OpenRows
<1> QED BY <1>1, <1>2, <1>3, <1>4 DEF Next

(* The inductive invariant holds in every reachable state. *)
THEOREM Invariance == Spec => []Inv
  BY InitInv, NextInv, PTL DEF Spec

(* Type correctness, for all constants: no sale, lost acknowledgement or     *)
(* restart makes the size of a row or of a position negative.                *)
THEOREM TypeCorrect == Spec => []TypeOK
<1>1. Inv => TypeOK
  BY DEF Inv
<1> QED BY <1>1, Invariance, PTL

(* The ledger never shows a fill or an open position that is not committed.  *)
THEOREM DatabaseFirst == Spec => []FillsAreCommitted
<1>1. Inv => FillsAreCommitted
  BY DEF Inv, CommittedFirst, FillsAreCommitted, OpenBook
<1> QED BY <1>1, Invariance, PTL

(* At most one live row per mint, however far the ledger that approved the   *)
(* entry lags behind.                                                        *)
THEOREM NoDuplicatePosition == Spec => []OneLivePerMint
<1>1. Inv => OneLivePerMint
  BY DEF Inv
<1> QED BY <1>1, Invariance, PTL

-----------------------------------------------------------------------------
(* What a step may do to the row of a position. *)
RowOnlyShrinks(c) ==
    /\ rows[c].status \in {"CLOSED", "UNRECOVERABLE"}
           => rows'[c].status = rows[c].status /\ rows'[c].parts = rows[c].parts
    /\ rows[c].status # "NONE" => rows'[c].parts <= rows[c].parts

(* A step that leaves the rows alone, and the re-marking of rows, change no  *)
(* status and no size.                                                       *)
LEMMA KeptRow ==
    ASSUME Inv, NEW c \in Candidates,
           rows'[c].status = rows[c].status, rows'[c].parts = rows[c].parts
    PROVE  RowOnlyShrinks(c)
<1>1. rows[c].parts \in Nat
  BY DEF Inv, TypeOK, RowType
<1> QED BY <1>1 DEF RowOnlyShrinks

(* Entries write rows that do not exist yet. *)
LEMMA EntryKeepsRows ==
    ASSUME Inv, EntryNext, NEW c \in Candidates
    PROVE  RowOnlyShrinks(c)
<1>1. CASE UNCHANGED rows
  BY <1>1, KeptRow
<1>2. CASE CommitEntry \/ CommitEntryLost
  <2>1. /\ entry.cand \in Candidates
        /\ OrderId(entry.cand, "entry") \notin orders
        /\ rows' = [rows EXCEPT ![entry.cand] =
               [status |-> "OPEN", parts |-> Parts, unrealized |-> 0, taken |-> {}]]
    BY <1>2 DEF CommitEntry, CommitEntryLost, InsertEntry, Inv, LoopsCarry
  <2>2. CASE c = entry.cand
    <3>1. rows[c].status = "NONE"
      BY <2>1, <2>2 DEF Inv, CommittedFirst
    <3> QED BY <3>1 DEF RowOnlyShrinks
  <2>3. CASE c # entry.cand
    <3>1. rows'[c] = rows[c]
      BY <2>1, <2>3 DEF Inv, TypeOK
    <3> QED BY <3>1, KeptRow
  <2> QED BY <2>2, <2>3
<1> QED BY <1>1, <1>2
        DEF EntryNext, BeginEntry, EntrySettled, EntryFails, LedgerOpen, dbVars

(* An exit sells from a live row, and never more than it has. *)
LEMMA ExitShrinksRows ==
    ASSUME Inv, ExitNext, NEW c \in Candidates
    PROVE  RowOnlyShrinks(c)
<1>1. CASE UNCHANGED rows
  BY <1>1, KeptRow
<1>2. CASE UpdateMarks
  <2>1. rows'[c].status = rows[c].status /\ rows'[c].parts = rows[c].parts
    BY <1>2 DEF UpdateMarks, Inv, TypeOK, RowType
  <2> QED BY <2>1, KeptRow
<1>3. CASE \E price \in Prices \cup {0} : CommitExit(price) \/ CommitExitLost(price)
  <2>1. PICK price \in Prices \cup {0} : exit.pc = "selling" /\ InsertExit(price)
    BY <1>3 DEF CommitExit, CommitExitLost
  <2>2. PICK p \in OpenRows :
           /\ rows' = [rows EXCEPT ![p] = SoldRow(p, exit.amount, price)]
           /\ SoldRow(p, exit.amount, price).parts <= rows[p].parts
    BY <2>1, InsertExitFacts
  <2>3. CASE c = p
    <3>1. rows'[c].parts <= rows[c].parts
      BY <2>2, <2>3 DEF Inv, TypeOK
    <3>2. rows[c].status \notin {"CLOSED", "UNRECOVERABLE"}
      BY <2>2, <2>3 DEF OpenRows, Live
    <3> QED BY <3>1, <3>2 DEF RowOnlyShrinks
  <2>4. CASE c # p
    <3>1. rows'[c] = rows[c]
      BY <2>2, <2>4 DEF Inv, TypeOK
    <3> QED BY <3>1, KeptRow
  <2> QED BY <2>3, <2>4
<1> QED BY <1>1, <1>2, <1>3
        DEF ExitNext, BeginPass, GiveUp, QuoteFails, KeepPosition, Quote, MarkLedger,
            SkipMarks, DecideExit, EndPass, PassFails, CommitExitAgain, LedgerClose, dbVars

(* No step reopens a closed or unrecoverable row, sells from it or makes a   *)
(* row larger: not a stale mark, a repeated exit or a restart.               *)
THEOREM ClosedForGood == Spec => ClosedRowsAreFinal
<1>1. Inv /\ [Next]_vars => [\A c \in Candidates : RowOnlyShrinks(c)]_vars
  <2> SUFFICES ASSUME Inv, Next, NEW c \in Candidates PROVE RowOnlyShrinks(c)
    OBVIOUS
  <2>1. CASE ProcessNext
    <3>1. UNCHANGED rows
      BY <2>1 DEF ProcessNext, Crash, Shutdown, StopProcess, Restart, RecordOperationalCost
    <3> QED BY <3>1, KeptRow
  <2> QED BY <2>1, EntryKeepsRows, ExitShrinksRows DEF Next
<1> QED BY <1>1, Invariance, PTL DEF Spec, ClosedRowsAreFinal, RowOnlyShrinks

-----------------------------------------------------------------------------
(* The ledger as a mirror of the database, while no acknowledgement is lost. *)

(* A set of figures satisfies the equity identity. *)
Balanced(f) ==
    f.equity + costs * CostAmount = Start + f.realized + f.unrealized

(* The figures, while no acknowledgement is lost.  The ledger lags behind   *)
(* the account by exactly the sale it has not booked yet, and the snapshot  *)
(* that waits to be written still has the account's realized PnL.  Costs    *)
(* are recorded while no process runs.                                      *)
Figures ==
    /\ Balanced(account)
    /\ up => active /\ Balanced(ledger)
    /\ up /\ exit.pc # "sold" => ledger.realized = account.realized
    /\ exit.pc = "sold" => account.realized = ledger.realized + BookRealized
    /\ exit.pc = "marking" => /\ Balanced(exit.snap)
                              /\ exit.snap.realized = account.realized

(* Row and position agree, unless the row was given up. *)
Same(c) ==
    rows[c].status # "UNRECOVERABLE" =>
        /\ book[c].open <=> rows[c].status \in Live
        /\ book[c].parts = rows[c].parts
        /\ book[c].taken = rows[c].taken

(* A loop is between the commit of c's fill and its booking. *)
Unbooked(c) ==
    \/ entry.pc = "committed" /\ c = entry.cand
    \/ exit.pc = "sold" /\ c = exit.cand

(* The positions, while no acknowledgement is lost. *)
Positions ==
    /\ up => \A c \in Candidates : ~Unbooked(c) => Same(c)
    /\ entry.pc = "committed" =>
           /\ rows[entry.cand].status = "OPEN" /\ rows[entry.cand].parts = Parts
           /\ rows[entry.cand].taken = {}
    /\ exit.pc = "sold" =>
           LET row == rows[exit.cand]
               left == book[exit.cand].parts - exit.amount IN
           row.status # "UNRECOVERABLE" =>
               /\ row.status = IF left = 0 THEN "CLOSED" ELSE "PARTIAL"
               /\ row.parts = left
               /\ row.taken = TakenAfter(book[exit.cand].taken, exit.reason, exit.price)

(* What is held in memory of a mint is one position, the one being opened   *)
(* included.                                                                *)
InMemory(c) == book[c].open \/ (entry.pc # "idle" /\ c = entry.cand)
OneInMemory ==
    \A c, d \in Candidates :
        InMemory(c) /\ InMemory(d) /\ MintOf[c] = MintOf[d] => c = d

(* The orders, while no acknowledgement is lost: the ledger lacks only the  *)
(* fill that is about to be booked, so no sale repeats a committed order.   *)
OrdersMirrored ==
    /\ up => \A c \in Candidates, r \in Reasons \cup {"entry"} :
                 OrderId(c, r) \in orders =>
                     \/ OrderId(c, r) \in filled
                     \/ entry.pc = "committed" /\ c = entry.cand /\ r = "entry"
                     \/ exit.pc = "sold" /\ c = exit.cand /\ r = exit.reason
    /\ exit.pc = "selling" => OrderId(exit.cand, exit.reason) \notin orders
    /\ \A c \in Candidates, r \in Reasons :
           /\ OrderId(c, r) \in orders => OrderId(c, "entry") \in orders
           /\ OrderId(c, r) \in filled => OrderId(c, "entry") \in filled
    /\ \A c \in exit.held : OrderId(c, "entry") \in filled
    /\ \A c \in Candidates :
           /\ book[c].open => OrderId(c, "UNRECOVERABLE") \notin filled
           /\ rows[c].status \in Live => OrderId(c, "UNRECOVERABLE") \notin orders
    /\ exit.pc \in {"selling", "sold"} /\ exit.reason = "UNRECOVERABLE" =>
           exit.amount = book[exit.cand].parts

(* Ledger and database mirror each other while no acknowledgement is lost.  *)
Mirrors == Figures /\ Positions /\ OneInMemory /\ OrdersMirrored

Mirror == lostAcks = 0 => Mirrors

(* At the start both sides are empty. *)
LEMMA InitMirror == Init => Mirrors
<1> SUFFICES ASSUME Init PROVE Mirrors
  OBVIOUS
<1> USE DEF Init, EntryIdle, ExitIdle, EmptyLedger, NoQuotes, NoPosition
<1>1. Figures
  BY PaperAssumption DEF Figures, Balanced
<1>2. Positions /\ OneInMemory /\ OrdersMirrored
  BY DEF Positions, Same, Live, OneInMemory, InMemory, OrdersMirrored
<1> QED BY <1>1, <1>2 DEF Mirrors

(* A step of the candidate loop before its commit.  Only BeginEntry adds to *)
(* what is in memory, after the ledger's duplicate check.                   *)
LEMMA EntryQuiet ==
    ASSUME Inv, Mirrors,
           UNCHANGED <<account, rows, orders, active, costs, up, memVars, exit>>,
           entry.pc # "committed", entry'.pc # "committed",
           entry'.pc # "idle" =>
               /\ entry'.cand \in Candidates
               /\ \A d \in Candidates : book[d].open => MintOf[d] # MintOf[entry'.cand]
    PROVE  Mirrors'
<1> USE DEF Mirrors, memVars
<1>1. Figures'
  BY DEF Figures, Balanced, BookRealized
<1>2. Positions'
  BY DEF Positions, Same, Unbooked, TakenAfter
<1>3. OneInMemory'
  BY DEF OneInMemory, InMemory
<1>4. OrdersMirrored'
  BY DEF OrdersMirrored
<1> QED BY <1>1, <1>2, <1>3, <1>4

(* A step of the exit loop that neither marks nor commits. *)
LEMMA ExitQuiet ==
    ASSUME Inv, Mirrors,
           UNCHANGED <<account, rows, orders, active, costs, up, memVars, entry>>,
           exit.pc # "sold", exit'.pc \notin {"sold", "marking"},
           \A c \in exit'.held : c \in exit.held \/ c \in OpenBook,
           exit'.pc = "selling" =>
               /\ OrderId(exit'.cand, exit'.reason) \notin orders
               /\ exit'.reason = "UNRECOVERABLE" => exit'.amount = book[exit'.cand].parts
    PROVE  Mirrors'
<1> USE DEF Mirrors, memVars
<1>1. Figures'
  BY DEF Figures, Balanced
<1>2. Positions'
  BY DEF Positions, Same, Unbooked
<1>3. OneInMemory'
  BY DEF OneInMemory, InMemory
<1>4. \A c \in exit'.held : OrderId(c, "entry") \in filled
  BY DEF OrdersMirrored, OpenBook, Inv, CommittedFirst
<1>5. OrdersMirrored'
  BY <1>4 DEF OrdersMirrored
<1> QED BY <1>1, <1>2, <1>3, <1>5

(* While no sale waits to be booked, an exit order the ledger lacks is not   *)
(* committed.                                                                *)
LEMMA UnfilledIsNew ==
    ASSUME Mirrors, up, exit.pc # "sold", NEW c \in Candidates, NEW r \in Reasons,
           OrderId(c, r) \notin filled
    PROVE  OrderId(c, r) \notin orders
<1>1. r # "entry"
  BY PaperAssumption DEF Reasons
<1> QED BY <1>1 DEF Mirrors, OrdersMirrored

(* The steps of the candidate loop that write nothing. *)
LEMMA EntryWaitsMirror ==
    ASSUME Inv, Mirrors, EntryFails \/ \E c \in Candidates : BeginEntry(c) \/ EntrySettled(c)
    PROVE  Mirrors'
<1>1. CASE EntryFails
  BY <1>1, EntryQuiet DEF EntryFails, EntryIdle
<1>2. ASSUME NEW c \in Candidates, BeginEntry(c) PROVE Mirrors'
  BY <1>2, EntryQuiet DEF BeginEntry, LedgerAllows, OpenBook, dbVars
<1>3. ASSUME NEW c \in Candidates, EntrySettled(c) PROVE Mirrors'
  BY <1>3, EntryQuiet DEF EntrySettled
<1> QED BY <1>1, <1>2, <1>3

(* The steps of the exit loop that write nothing.  A sale that begins has an *)
(* order no commit has yet, because the ledger lacks it.                     *)
LEMMA ExitWaitsMirror ==
    ASSUME Inv, Mirrors,
           \/ BeginPass \/ SkipMarks \/ EndPass \/ PassFails
           \/ \E c \in Candidates : GiveUp(c) \/ QuoteFails(c) \/ KeepPosition(c)
           \/ \E c \in Candidates, price \in Prices : Quote(c, price)
           \/ \E c \in Candidates, r \in Reasons : DecideExit(c, r)
    PROVE  Mirrors'
<1> USE DEF dbVars
<1>1. exit \in ExitType /\ (exit.pc # "idle" => up)
  BY DEF Inv, TypeOK, LoopsCarry
<1>2. CASE BeginPass
  BY <1>1, <1>2, ExitQuiet DEF BeginPass, ExitType
<1>3. CASE SkipMarks
  BY <1>1, <1>3, ExitQuiet DEF SkipMarks, ExitType
<1>4. CASE EndPass \/ PassFails
  BY <1>1, <1>4, ExitQuiet DEF EndPass, PassFails, ExitIdle
<1>5. ASSUME NEW c \in Candidates, QuoteFails(c) \/ KeepPosition(c) PROVE Mirrors'
  BY <1>1, <1>5, ExitQuiet DEF QuoteFails, KeepPosition, ExitType
<1>6. ASSUME NEW c \in Candidates, NEW price \in Prices, Quote(c, price) PROVE Mirrors'
  <2>1. exit'.pc = exit.pc /\ exit'.held = exit.held /\ exit.pc = "quoting"
    BY <1>1, <1>6 DEF Quote, ExitType
  <2> QED BY <1>6, <2>1, ExitQuiet DEF Quote
<1>7. ASSUME NEW c \in Candidates, GiveUp(c) PROVE Mirrors'
  <2>1. /\ exit.pc = "quoting" /\ exit'.pc = "selling" /\ exit'.held = exit.held
        /\ exit'.cand = c /\ exit'.reason = "UNRECOVERABLE"
        /\ exit'.amount = book[c].parts /\ book[c].open
    BY <1>1, <1>7 DEF GiveUp, ExitType, Inv, LoopsCarry
  <2>2. OrderId(c, "UNRECOVERABLE") \notin filled
    BY <2>1 DEF Mirrors, OrdersMirrored
  <2>3. OrderId(c, "UNRECOVERABLE") \notin orders
    BY <1>1, <2>1, <2>2, UnfilledIsNew DEF Reasons
  <2> QED BY <1>7, <2>1, <2>3, ExitQuiet DEF GiveUp
<1>8. ASSUME NEW c \in Candidates, NEW r \in Reasons, DecideExit(c, r) PROVE Mirrors'
  <2>1. /\ exit.pc = "deciding" /\ exit'.pc = "selling" /\ exit'.held = exit.held
        /\ exit'.cand = c /\ exit'.reason = r /\ OrderId(c, r) \notin filled
        /\ exit'.amount = CloseParts(c, r)
    BY <1>1, <1>8 DEF DecideExit, ExitType
  <2>2. OrderId(c, r) \notin orders
    BY <1>1, <2>1, UnfilledIsNew
  <2>3. r = "UNRECOVERABLE" => exit'.amount = book[c].parts
    BY <2>1 DEF CloseParts
  <2> QED BY <1>8, <2>1, <2>2, <2>3, ExitQuiet DEF DecideExit
<1> QED BY <1>2, <1>3, <1>4, <1>5, <1>6, <1>7, <1>8

(* mark_to_market exchanges one unrealized figure for another and changes    *)
(* only marks of the book.                                                   *)
LEMMA MarkLedgerMirror ==
    ASSUME Inv, Mirrors, MarkLedger
    PROVE  Mirrors'
<1>1. /\ exit'.pc = "marking" /\ exit'.held = OpenBook /\ exit'.snap = MarkedLedger
      /\ ledger' = MarkedLedger /\ book' = MarkedBook /\ exit.pc = "quoting" /\ up
      /\ UNCHANGED <<account, rows, orders, active, costs, up, filled, entry>>
  BY DEF MarkLedger, Inv, TypeOK, ExitType, dbVars, LoopsCarry
<1>2. /\ MarkedLedger.equity = ledger.equity - ledger.unrealized + exit.gain
      /\ MarkedLedger.realized = ledger.realized /\ MarkedLedger.unrealized = exit.gain
  BY DEF MarkedLedger, Inv, TypeOK, LedgerType
<1>3. \A c \in Candidates : /\ book'[c].open = book[c].open
                            /\ book'[c].parts = book[c].parts
                            /\ book'[c].taken = book[c].taken
  BY <1>1 DEF MarkedBook, Inv, TypeOK, PositionType
<1>4. Figures'
  <2>1. Balanced(ledger) /\ Balanced(account) /\ ledger.realized = account.realized /\ active
    BY <1>1 DEF Mirrors, Figures
  <2>2. ledger.equity - ledger.unrealized + exit.gain + costs * CostAmount
            = Start + ledger.realized + exit.gain
    <3>1. /\ ledger.equity \in Int /\ ledger.unrealized \in Int /\ ledger.realized \in Int
          /\ exit.gain \in Int /\ Start \in Int /\ costs * CostAmount \in Int
      BY PaperAssumption DEF Inv, TypeOK, LedgerType, ExitType
    <3> QED BY <2>1, <3>1 DEF Balanced
  <2>3. Balanced(MarkedLedger)
    BY <1>2, <2>2 DEF Balanced
  <2>4. /\ Balanced(account)' /\ Balanced(ledger)' /\ Balanced(exit.snap)'
        /\ ledger'.realized = account'.realized /\ exit'.snap.realized = account'.realized
    BY <1>1, <1>2, <2>1, <2>3 DEF Balanced
  <2> QED BY <1>1, <2>1, <2>4 DEF Figures
<1>5. Positions'
  BY <1>1, <1>3 DEF Mirrors, Positions, Same, Unbooked
<1>6. OneInMemory'
  BY <1>1, <1>3 DEF Mirrors, OneInMemory, InMemory
<1>7. OrdersMirrored'
  <2>1. \A c \in exit'.held : OrderId(c, "entry") \in filled
    BY <1>1 DEF OpenBook, Inv, CommittedFirst
  <2> QED BY <1>1, <1>3, <2>1 DEF Mirrors, OrdersMirrored
<1> QED BY <1>4, <1>5, <1>6, <1>7 DEF Mirrors

(* update_paper_marks: nothing was realized since the snapshot was taken, so *)
(* its figures are the account's; the flags it writes are those of the rows. *)
LEMMA UpdateMarksMirror ==
    ASSUME Inv, Mirrors, UpdateMarks
    PROVE  Mirrors'
<1>1. /\ exit'.pc = "deciding" /\ exit'.held = exit.held
      /\ exit.pc = "marking" /\ account' = MarkedAccount /\ up
      /\ UNCHANGED <<orders, active, costs, up, memVars, entry>>
  BY DEF UpdateMarks, Inv, TypeOK, ExitType, LoopsCarry
<1>2. /\ account'.realized = account.realized /\ account'.equity = exit.snap.equity
      /\ account'.unrealized = exit.snap.unrealized
  BY <1>1 DEF MarkedAccount, Inv, TypeOK
<1>3. \A c \in Candidates :
         /\ rows'[c].status = rows[c].status /\ rows'[c].parts = rows[c].parts
         /\ rows'[c].taken = IF c \in exit.held THEN book[c].taken ELSE rows[c].taken
  BY DEF UpdateMarks, Inv, TypeOK, RowType
<1>4. Figures'
  BY <1>1, <1>2 DEF Mirrors, Figures, Balanced, memVars
<1>5. entry.pc = "committed" => entry.cand \in Candidates /\ entry.cand \notin exit.held
  BY DEF Mirrors, OrdersMirrored, Inv, LoopsCarry
<1>6. Positions'
  BY <1>1, <1>3, <1>5 DEF Mirrors, Positions, Same, Unbooked, memVars
<1>7. OneInMemory'
  BY <1>1 DEF Mirrors, OneInMemory, InMemory, memVars
<1>8. OrdersMirrored'
  BY <1>1, <1>3 DEF Mirrors, OrdersMirrored, memVars
<1> QED BY <1>4, <1>6, <1>7, <1>8 DEF Mirrors

-----------------------------------------------------------------------------
(* The commits and their bookings. *)

(* The transaction of an entry opens a row that did not exist; its order is  *)
(* the one the ledger lacks until it books the entry.                        *)
LEMMA CommitEntryMirror ==
    ASSUME Inv, Mirrors, CommitEntry
    PROVE  Mirrors'
<1> DEFINE c == entry.cand
           opened == [status |-> "OPEN", parts |-> Parts, unrealized |-> 0, taken |-> {}]
<1>1. /\ c \in Candidates /\ entry.pc = "quoting" /\ up
      /\ OrderId(c, "entry") \notin orders /\ OrderId(c, "entry") \notin filled
      /\ orders' = orders \cup {OrderId(c, "entry")}
      /\ rows' = [rows EXCEPT ![c] = opened]
      /\ entry'.pc = "committed" /\ entry'.cand = c
      /\ account' = [account EXCEPT !.cash = @ - EntryCost, !.locked = @ + EntryCost]
      /\ UNCHANGED <<active, costs, up, memVars, exit>>
  BY DEF CommitEntry, InsertEntry, Inv, LoopsCarry, TypeOK
<1>2. /\ account'.realized = account.realized /\ account'.equity = account.equity
      /\ account'.unrealized = account.unrealized
  BY <1>1 DEF Inv, TypeOK
<1>3. /\ rows'[c] = opened /\ \A d \in Candidates : d # c => rows'[d] = rows[d]
  BY <1>1 DEF Inv, TypeOK
<1>4. exit.pc = "sold" => exit.cand # c /\ exit.cand \in Candidates
  BY <1>1 DEF Inv, LoopsCarry, CommittedFirst
<1>5. Figures'
  BY <1>1, <1>2 DEF Mirrors, Figures, Balanced, BookRealized, memVars
<1>6. Positions'
  <2>1. \A d \in Candidates : ~Unbooked(d)' => Same(d)'
    <3> SUFFICES ASSUME NEW d \in Candidates, ~Unbooked(d)' PROVE Same(d)'
      OBVIOUS
    <3>1. d # c /\ ~Unbooked(d)
      BY <1>1 DEF Unbooked
    <3>2. Same(d)
      BY <1>1, <3>1 DEF Mirrors, Positions
    <3> QED BY <1>1, <1>3, <3>1, <3>2 DEF Same, memVars
  <2>2. rows'[c].status = "OPEN" /\ rows'[c].parts = Parts /\ rows'[c].taken = {}
    BY <1>3
  <2> QED BY <1>1, <1>3, <1>4, <2>1, <2>2 DEF Mirrors, Positions, TakenAfter, memVars
<1>7. OneInMemory'
  BY <1>1 DEF Mirrors, OneInMemory, InMemory, memVars
<1>8. OrdersMirrored'
  <2>1. \A d \in Candidates, r \in Reasons : OrderId(d, r) # OrderId(c, "entry")
    BY PaperAssumption DEF OrderId, Reasons
  <2>2. \A d \in Candidates : OrderId(d, "entry") = OrderId(c, "entry") => d = c
    BY DEF OrderId
  <2>3. OrderId(c, "UNRECOVERABLE") \notin orders
    BY <1>1 DEF Mirrors, OrdersMirrored, Reasons
  <2>4. \A d \in Candidates : rows'[d].status \in Live =>
            OrderId(d, "UNRECOVERABLE") \notin orders'
    BY <1>1, <1>3, <2>1, <2>3 DEF Mirrors, OrdersMirrored, Reasons
  <2>5. \A d \in Candidates, r \in Reasons \cup {"entry"} :
           OrderId(d, r) \in orders' =>
                     \/ OrderId(d, r) \in filled
                     \/ d = c /\ r = "entry"
                     \/ exit.pc = "sold" /\ d = exit.cand /\ r = exit.reason
    BY <1>1, <2>1, <2>2 DEF Mirrors, OrdersMirrored
  <2>6. exit.pc = "selling" => OrderId(exit.cand, exit.reason) \notin orders'
    BY <1>1, <2>1 DEF Mirrors, OrdersMirrored, Inv, LoopsCarry
  <2>7. \A d \in Candidates, r \in Reasons :
           OrderId(d, r) \in orders' => OrderId(d, "entry") \in orders'
    BY <1>1, <2>1 DEF Mirrors, OrdersMirrored
  <2> QED BY <1>1, <2>4, <2>5, <2>6, <2>7 DEF Mirrors, OrdersMirrored, memVars
<1> QED BY <1>5, <1>6, <1>7, <1>8 DEF Mirrors

(* The ledger books the entry as its row has it. *)
LEMMA LedgerOpenMirror ==
    ASSUME Inv, Mirrors, LedgerOpen
    PROVE  Mirrors'
<1> DEFINE c == entry.cand
           opened == [open |-> TRUE, parts |-> Parts, mark |-> 0, taken |-> {}]
<1>1. /\ c \in Candidates /\ entry.pc = "committed" /\ up
      /\ OrderId(c, "entry") \notin filled /\ ~book[c].open
      /\ book' = [book EXCEPT ![c] = opened]
      /\ filled' = filled \cup {OrderId(c, "entry")}
      /\ ledger' = [ledger EXCEPT !.locked = @ + EntryCost]
      /\ entry'.pc = "idle"
      /\ UNCHANGED <<account, rows, orders, active, costs, up, exit>>
  BY DEF LedgerOpen, EntryIdle, Inv, LoopsCarry, CommittedFirst
<1>2. /\ ledger'.realized = ledger.realized /\ ledger'.equity = ledger.equity
      /\ ledger'.unrealized = ledger.unrealized
  BY <1>1 DEF Inv, TypeOK, LedgerType
<1>3. /\ book'[c] = opened /\ \A d \in Candidates : d # c => book'[d] = book[d]
  BY <1>1 DEF Inv, TypeOK
<1>4. exit.pc \in {"selling", "sold"} => exit.cand # c /\ exit.cand \in Candidates
  BY <1>1 DEF Inv, LoopsCarry
<1>5. Figures'
  BY <1>1, <1>2 DEF Mirrors, Figures, Balanced, BookRealized
<1>6. Positions'
  <2>1. \A d \in Candidates : ~Unbooked(d)' => Same(d)'
    <3> SUFFICES ASSUME NEW d \in Candidates, ~Unbooked(d)' PROVE Same(d)'
      OBVIOUS
    <3>1. CASE d = c
      <4>1. /\ rows[c].status = "OPEN" /\ rows[c].parts = Parts /\ rows[c].taken = {}
            /\ rows' = rows
        BY <1>1 DEF Mirrors, Positions
      <4>2. book'[c].open /\ book'[c].parts = Parts /\ book'[c].taken = {}
        BY <1>3
      <4> QED BY <3>1, <4>1, <4>2 DEF Same, Live
    <3>2. CASE d # c
      <4>1. Same(d)
        BY <1>1, <3>2 DEF Unbooked, Mirrors, Positions
      <4> QED BY <1>1, <1>3, <3>2, <4>1 DEF Same
    <3> QED BY <3>1, <3>2
  <2> QED BY <1>1, <1>3, <1>4, <2>1 DEF Mirrors, Positions, TakenAfter
<1>7. OneInMemory'
  <2>1. \A d \in Candidates : InMemory(d)' => InMemory(d)
    BY <1>1, <1>3 DEF InMemory
  <2> QED BY <2>1 DEF Mirrors, OneInMemory
<1>8. OrdersMirrored'
  <2>1. \A d \in Candidates, r \in Reasons : OrderId(d, r) # OrderId(c, "entry")
    BY PaperAssumption DEF OrderId, Reasons
  <2>2. OrderId(c, "UNRECOVERABLE") \notin filled
    BY <1>1 DEF Mirrors, OrdersMirrored, Reasons
  <2>3. \A d \in Candidates : book'[d].open => OrderId(d, "UNRECOVERABLE") \notin filled'
    BY <1>1, <1>3, <2>1, <2>2 DEF Mirrors, OrdersMirrored, Reasons
  <2>4. \A d \in Candidates, r \in Reasons :
           OrderId(d, r) \in filled' => OrderId(d, "entry") \in filled'
    BY <1>1, <2>1 DEF Mirrors, OrdersMirrored
  <2>5. \A d \in Candidates, r \in Reasons \cup {"entry"} :
           OrderId(d, r) \in orders =>
                     \/ OrderId(d, r) \in filled'
                     \/ exit.pc = "sold" /\ d = exit.cand /\ r = exit.reason
    BY <1>1 DEF Mirrors, OrdersMirrored
  <2> QED BY <1>1, <1>3, <1>4, <2>3, <2>4, <2>5 DEF Mirrors, OrdersMirrored
<1> QED BY <1>5, <1>6, <1>7, <1>8 DEF Mirrors

(* The live row of a mint whose position is being sold is that position's:   *)
(* no other position of the mint is in memory, and every live row is.        *)
LEMMA SoldIsOwnRow ==
    ASSUME Inv, Mirrors, exit.pc = "selling", NEW p \in OpenRows,
           MintOf[p] = MintOf[exit.cand]
    PROVE  p = exit.cand
<1>1. /\ p \in Candidates /\ exit.cand \in Candidates /\ book[exit.cand].open /\ up
      /\ rows[p].status \in Live
  BY DEF Inv, LoopsCarry, OpenRows
<1>2. InMemory(exit.cand)
  BY <1>1 DEF InMemory
<1>3. InMemory(p)
  <2>1. CASE Unbooked(p)
    BY <2>1 DEF Unbooked, InMemory
  <2>2. CASE ~Unbooked(p)
    BY <1>1, <2>2 DEF Mirrors, Positions, Same, InMemory, Live
  <2> QED BY <2>1, <2>2
<1> QED BY <1>1, <1>2, <1>3 DEF Mirrors, OneInMemory

(* The transaction of an exit: the account runs ahead of the ledger by what  *)
(* the ledger is about to book, and so does the row of the position.         *)
LEMMA CommitExitMirror ==
    ASSUME Inv, Mirrors, NEW price \in Prices \cup {0}, CommitExit(price)
    PROVE  Mirrors'
<1> DEFINE c == exit.cand
           n == exit.amount
           id == OrderId(c, exit.reason)
<1>1. /\ exit.pc = "selling" /\ c \in Candidates /\ exit.reason \in Reasons /\ up
      /\ book[c].open /\ n \in Nat /\ price \in Nat /\ UnitCost \in Nat
      /\ n <= book[c].parts
  BY PaperAssumption DEF CommitExit, Inv, TypeOK, ExitType, LoopsCarry
<1>2. PICK p \in OpenRows :
         /\ MintOf[p] = MintOf[c] /\ n > 0 /\ n <= rows[p].parts
         /\ rows' = [rows EXCEPT ![p] = SoldRow(p, n, price)]
         /\ account' = SoldAccount(p, n, price)
  BY DEF CommitExit, InsertExit
<1>3. p = c
  BY <1>1, <1>2, SoldIsOwnRow
<1>4. /\ exit'.pc = "sold" /\ exit'.price = price /\ exit'.cand = c /\ exit'.amount = n
      /\ exit'.reason = exit.reason /\ exit'.held = exit.held
      /\ orders' = orders \cup {id} /\ id \notin orders
      /\ UNCHANGED <<active, costs, up, memVars, entry>>
  BY DEF CommitExit, InsertExit, Inv, TypeOK, ExitType
<1>5. /\ rows'[c] = SoldRow(c, n, price)
      /\ \A d \in Candidates : d # c => rows'[d] = rows[d]
  BY <1>1, <1>2, <1>3 DEF Inv, TypeOK
<1>6. rows[c].status \in Live /\ rows[c].status # "UNRECOVERABLE"
  BY <1>2, <1>3 DEF OpenRows, Live
<1>7. ~Unbooked(c)
  BY <1>1 DEF Unbooked, Inv, LoopsCarry, CommittedFirst
<1>8. rows[c].parts = book[c].parts /\ rows[c].taken = book[c].taken
  BY <1>1, <1>6, <1>7 DEF Mirrors, Positions, Same
<1>9. Figures'
  <2> DEFINE realized == n * price - n * UnitCost
             closed == (rows[c].unrealized * n) \div rows[c].parts
  <2>1. closed \in Int
    <3>1. rows[c].parts > 0
      BY <1>1, <1>2, <1>3 DEF Inv, TypeOK, RowType
    <3> QED BY <1>1, <3>1, ClosedFractionType DEF Inv
  <2>2. /\ account'.realized = account.realized + realized
        /\ account'.equity = account.equity + realized - closed
        /\ account'.unrealized = account.unrealized - closed
    BY <1>2, <1>3 DEF SoldAccount, Inv, TypeOK
  <2>3. realized \in Int /\ realized = n * (price - UnitCost)
    BY <1>1
  <2>4. BookRealized' = realized
    BY <1>4, <2>3 DEF BookRealized
  <2> HIDE DEF realized, closed
  <2>5. /\ account.realized \in Int /\ account.equity \in Int /\ account.unrealized \in Int
        /\ ledger.realized \in Int /\ Start \in Int /\ costs * CostAmount \in Int
    BY PaperAssumption DEF Inv, TypeOK, LedgerType
  <2>6. account.equity + costs * CostAmount = Start + account.realized + account.unrealized
        /\ ledger.realized = account.realized
    BY <1>1 DEF Mirrors, Figures, Balanced
  <2>7. Balanced(account)'
    <3>1. account'.equity + costs * CostAmount = Start + account'.realized + account'.unrealized
      BY <2>1, <2>2, <2>3, <2>5, <2>6
    <3> QED BY <1>4, <3>1 DEF Balanced
  <2>8. Balanced(ledger)' /\ active'
    BY <1>1, <1>4 DEF Mirrors, Figures, Balanced, memVars
  <2>9. account'.realized = ledger'.realized + BookRealized'
    BY <1>4, <2>2, <2>3, <2>4, <2>5, <2>6 DEF memVars
  <2> QED BY <1>4, <2>7, <2>8, <2>9 DEF Figures
<1>10. Positions'
  <2>1. \A d \in Candidates : ~Unbooked(d)' => Same(d)'
    <3> SUFFICES ASSUME NEW d \in Candidates, ~Unbooked(d)' PROVE Same(d)'
      OBVIOUS
    <3>1. d # c /\ ~Unbooked(d)
      BY <1>1, <1>4 DEF Unbooked
    <3>2. Same(d)
      BY <1>1, <3>1 DEF Mirrors, Positions
    <3> QED BY <1>4, <1>5, <3>1, <3>2 DEF Same, memVars
  <2>2. entry.pc = "committed" => entry.cand # c /\ entry.cand \in Candidates
    BY <1>7 DEF Unbooked, Inv, LoopsCarry
  <2>3. /\ rows'[c].status = RowStatus(book[c].parts - n, price)
        /\ rows'[c].parts = book[c].parts - n
        /\ rows'[c].taken = TakenAfter(book[c].taken, exit.reason, price)
    BY <1>5, <1>8 DEF SoldRow
  <2>4. rows'[c].status # "UNRECOVERABLE" =>
            rows'[c].status = IF book[c].parts - n = 0 THEN "CLOSED" ELSE "PARTIAL"
    BY <2>3 DEF RowStatus
  <2> QED BY <1>4, <1>5, <2>1, <2>2, <2>3, <2>4 DEF Mirrors, Positions, memVars
<1>11. OneInMemory'
  BY <1>4 DEF Mirrors, OneInMemory, InMemory, memVars
<1>12. OrdersMirrored'
  <2>1. \A d \in Candidates, r \in Reasons \cup {"entry"} :
           OrderId(d, r) = id => d = c /\ r = exit.reason
    BY DEF OrderId
  <2>2. OrderId(c, "entry") \in orders
    BY <1>1 DEF Inv, CommittedFirst
  <2>3. \A d \in Candidates, r \in Reasons \cup {"entry"} :
           OrderId(d, r) \in orders' =>
                     \/ OrderId(d, r) \in filled
                     \/ entry.pc = "committed" /\ d = entry.cand /\ r = "entry"
                     \/ d = c /\ r = exit.reason
    BY <1>1, <1>4, <2>1 DEF Mirrors, OrdersMirrored
  <2>4. \A d \in Candidates, r \in Reasons :
           OrderId(d, r) \in orders' => OrderId(d, "entry") \in orders'
    BY <1>4, <2>1, <2>2 DEF Mirrors, OrdersMirrored
  <2>5. exit.reason = "UNRECOVERABLE" => n = book[c].parts
    BY <1>1 DEF Mirrors, OrdersMirrored
  <2>6. \A d \in Candidates : rows'[d].status \in Live =>
            OrderId(d, "UNRECOVERABLE") \notin orders'
    <3> SUFFICES ASSUME NEW d \in Candidates, rows'[d].status \in Live
                 PROVE  OrderId(d, "UNRECOVERABLE") \notin orders'
      OBVIOUS
    <3>1. CASE d # c
      BY <1>4, <1>5, <2>1, <3>1 DEF Mirrors, OrdersMirrored, Reasons
    <3>2. CASE d = c
      <4>1. exit.reason # "UNRECOVERABLE"
        <5> SUFFICES ASSUME exit.reason = "UNRECOVERABLE" PROVE FALSE
          OBVIOUS
        <5>1. rows'[c].status = RowStatus(rows[c].parts - n, price)
          BY <1>5 DEF SoldRow
        <5>2. rows[c].parts - n = 0
          BY <1>1, <1>8, <2>5 DEF Inv, TypeOK, PositionType
        <5> QED BY <3>2, <5>1, <5>2 DEF RowStatus, Live
      <4>2. OrderId(c, "UNRECOVERABLE") \notin orders
        BY <1>1, <1>6 DEF Mirrors, OrdersMirrored
      <4> QED BY <1>4, <2>1, <3>2, <4>1, <4>2 DEF Reasons
    <3> QED BY <3>1, <3>2
  <2> QED BY <1>1, <1>4, <2>3, <2>4, <2>5, <2>6 DEF Mirrors, OrdersMirrored, memVars
<1> QED BY <1>9, <1>10, <1>11, <1>12 DEF Mirrors

(* While no acknowledgement is lost, an exit is never answered from an       *)
(* earlier commit.                                                           *)
LEMMA NoRepeatedExit ==
    ASSUME Mirrors, NEW price \in Prices \cup {0}
    PROVE  ~CommitExitAgain(price)
  BY DEF Mirrors, OrdersMirrored, CommitExitAgain

(* The ledger books the sale: both sides have realized the same again, and   *)
(* the position is what its row became.                                      *)
LEMMA LedgerCloseMirror ==
    ASSUME Inv, Mirrors, LedgerClose
    PROVE  Mirrors'
<1> DEFINE c == exit.cand
           n == exit.amount
           id == OrderId(c, exit.reason)
           left == book[c].parts - n
           position == [open |-> left > 0, parts |-> left, mark |-> book[c].mark,
                        taken |-> TakenAfter(book[c].taken, exit.reason, exit.price)]
<1>1. /\ exit.pc = "sold" /\ c \in Candidates /\ exit.reason \in Reasons /\ up
      /\ book[c].open /\ n \in Nat /\ n <= book[c].parts /\ book[c].parts \in Nat
      /\ exit.back \in {"quoting", "deciding"}
  BY DEF LedgerClose, Inv, TypeOK, ExitType, PositionType, LoopsCarry
<1>2. /\ exit'.pc = exit.back /\ exit'.held = exit.held
      /\ book' = [book EXCEPT ![c] = position]
      /\ filled' = filled \cup {id}
      /\ ledger' = BookLedger(c)
      /\ UNCHANGED <<account, rows, orders, active, costs, up, entry>>
  BY DEF LedgerClose, Inv, TypeOK, ExitType, dbVars
<1>3. /\ book'[c] = position /\ \A d \in Candidates : d # c => book'[d] = book[d]
  BY <1>1, <1>2 DEF Inv, TypeOK
<1>4. entry.pc # "idle" => entry.cand # c
  BY <1>1 DEF Inv, LoopsCarry, CommittedFirst
<1>5. left \in Nat /\ (left > 0 <=> left # 0)
  BY <1>1
<1>10. /\ book'[c].open = (left > 0) /\ book'[c].parts = left
      /\ book'[c].taken = TakenAfter(book[c].taken, exit.reason, exit.price)
  <2> HIDE DEF left
  <2> QED BY <1>3
<1>6. Figures'
  <2>1. n \in Int /\ exit.price - UnitCost \in Int /\ book[c].mark - UnitCost \in Int
    BY <1>1, PaperAssumption DEF Inv, TypeOK, ExitType, PositionType
  <2>2. BookRealized \in Int /\ BookClosed(c) \in Int
    BY <2>1 DEF BookRealized, BookClosed
  <2>3. /\ ledger'.equity = ledger.equity + BookRealized - BookClosed(c)
        /\ ledger'.realized = ledger.realized + BookRealized
        /\ ledger'.unrealized = ledger.unrealized - BookClosed(c)
    BY <1>2 DEF BookLedger, Inv, TypeOK, LedgerType
  <2>4. /\ ledger.realized \in Int /\ ledger.equity \in Int /\ ledger.unrealized \in Int
        /\ Start \in Int /\ costs * CostAmount \in Int
    BY PaperAssumption DEF Inv, TypeOK, LedgerType
  <2>5. /\ ledger.equity + costs * CostAmount = Start + ledger.realized + ledger.unrealized
        /\ account.realized = ledger.realized + BookRealized
        /\ Balanced(account) /\ active
    BY <1>1 DEF Mirrors, Figures, Balanced
  <2>6. ledger'.equity + costs * CostAmount = Start + ledger'.realized + ledger'.unrealized
    BY <2>2, <2>3, <2>4, <2>5
  <2>7. Balanced(ledger)' /\ Balanced(account)'
    BY <1>2, <2>5, <2>6 DEF Balanced
  <2> QED BY <1>1, <1>2, <2>3, <2>5, <2>7 DEF Figures
<1>7. Positions'
  <2>1. \A d \in Candidates : ~Unbooked(d)' => Same(d)'
    <3> SUFFICES ASSUME NEW d \in Candidates, ~Unbooked(d)' PROVE Same(d)'
      OBVIOUS
    <3>1. CASE d = c
      <4> SUFFICES ASSUME rows'[c].status # "UNRECOVERABLE"
                   PROVE  /\ book'[c].open <=> rows'[c].status \in Live
                          /\ book'[c].parts = rows'[c].parts
                          /\ book'[c].taken = rows'[c].taken
        BY <3>1 DEF Same
      <4>1. /\ rows[c].status = IF left = 0 THEN "CLOSED" ELSE "PARTIAL"
            /\ rows[c].parts = left
            /\ rows[c].taken = TakenAfter(book[c].taken, exit.reason, exit.price)
        BY <1>1, <1>2 DEF Mirrors, Positions
      <4>2. /\ book'[c].open <=> left > 0
            /\ book'[c].parts = left
            /\ book'[c].taken = TakenAfter(book[c].taken, exit.reason, exit.price)
        BY <1>10
      <4> QED BY <1>2, <1>5, <4>1, <4>2 DEF Live
    <3>2. CASE d # c
      <4>1. ~Unbooked(d)
        BY <1>2, <3>2 DEF Unbooked
      <4>2. Same(d)
        BY <1>1, <4>1 DEF Mirrors, Positions
      <4> QED BY <1>2, <1>3, <3>2, <4>2 DEF Same
    <3> QED BY <3>1, <3>2
  <2> QED BY <1>1, <1>2, <2>1 DEF Mirrors, Positions
<1> HIDE DEF position
<1>8. OneInMemory'
  <2>1. \A d \in Candidates : InMemory(d)' => InMemory(d)
    BY <1>1, <1>2, <1>3 DEF InMemory
  <2> QED BY <2>1 DEF Mirrors, OneInMemory
<1>9. OrdersMirrored'
  <2>1. \A d \in Candidates, r \in Reasons \cup {"entry"} :
           OrderId(d, r) = id => d = c /\ r = exit.reason
    BY DEF OrderId
  <2>2. \A d \in Candidates, r \in Reasons :
           OrderId(d, r) \in filled' => OrderId(d, "entry") \in filled'
    BY <1>1, <1>2, <2>1 DEF Mirrors, OrdersMirrored, Inv, CommittedFirst
  <2>3. \A d \in Candidates : book'[d].open => OrderId(d, "UNRECOVERABLE") \notin filled'
    <3> SUFFICES ASSUME NEW d \in Candidates, book'[d].open
                 PROVE  OrderId(d, "UNRECOVERABLE") \notin filled'
      OBVIOUS
    <3>1. OrderId(d, "UNRECOVERABLE") # id
      <4> SUFFICES ASSUME OrderId(d, "UNRECOVERABLE") = id PROVE FALSE
        OBVIOUS
      <4>1. d = c /\ exit.reason = "UNRECOVERABLE"
        BY <2>1 DEF Reasons
      <4>2. left = 0
        BY <1>1, <4>1 DEF Mirrors, OrdersMirrored
      <4>3. book'[c].open <=> left > 0
        BY <1>10
      <4> QED BY <4>1, <4>2, <4>3
    <3>2. book[d].open
      BY <1>1, <1>3
    <3> QED BY <1>2, <3>1, <3>2 DEF Mirrors, OrdersMirrored
  <2>4. \A d \in Candidates, r \in Reasons \cup {"entry"} :
           OrderId(d, r) \in orders =>
                     \/ OrderId(d, r) \in filled'
                     \/ entry.pc = "committed" /\ d = entry.cand /\ r = "entry"
    BY <1>1, <1>2 DEF Mirrors, OrdersMirrored
  <2> QED BY <1>1, <1>2, <2>2, <2>3, <2>4 DEF Mirrors, OrdersMirrored
<1> QED BY <1>6, <1>7, <1>8, <1>9 DEF Mirrors

-----------------------------------------------------------------------------
(* The process. *)

(* A stopped process has no ledger to disagree with. *)
LEMMA StopMirror ==
    ASSUME Inv, Mirrors, Crash \/ Shutdown
    PROVE  Mirrors'
<1>1. StopProcess
  BY DEF Crash, Shutdown
<1> USE <1>1 DEF StopProcess, EntryIdle, ExitIdle
<1>2. Figures'
  BY DEF Mirrors, Figures, Balanced
<1>3. Positions' /\ OneInMemory'
  BY DEF Positions, OneInMemory, InMemory, NoPosition
<1>4. OrdersMirrored'
  BY DEF Mirrors, OrdersMirrored, NoPosition
<1> QED BY <1>2, <1>3, <1>4 DEF Mirrors

(* A new process restores figures and positions from the rows. *)
LEMMA RestartMirror ==
    ASSUME Inv, Mirrors, Restart
    PROVE  Mirrors'
<1>1. /\ exit.pc = "idle" /\ entry.pc = "idle" /\ ~up /\ up' /\ active'
      /\ ledger' = RestoredLedger /\ book' = RestoredBook /\ filled' = orders
      /\ UNCHANGED <<account, rows, orders, costs, entry, exit>>
  BY DEF Restart, Inv, LoopsCarry
<1>2. \A c \in Candidates : /\ book'[c].open <=> rows[c].status \in Live
                            /\ book'[c].parts = rows[c].parts
                            /\ book'[c].taken = rows[c].taken
  BY <1>1 DEF RestoredBook
<1>3. Figures'
  BY <1>1 DEF RestoredLedger, Mirrors, Figures, Balanced
<1>4. Positions'
  BY <1>1, <1>2 DEF Positions, Same
<1>5. OneInMemory'
  BY <1>1, <1>2 DEF OneInMemory, InMemory, Inv, OneLivePerMint, OpenRows
<1>6. OrdersMirrored'
  <2>1. \A c \in exit.held : OrderId(c, "entry") \in orders
    BY DEF Mirrors, OrdersMirrored, Inv, CommittedFirst
  <2> QED BY <1>1, <1>2, <2>1 DEF Mirrors, OrdersMirrored
<1> QED BY <1>3, <1>4, <1>5, <1>6 DEF Mirrors

(* A cost is recorded while no process runs, so no ledger misses it. *)
LEMMA CostMirror ==
    ASSUME Inv, Mirrors, RecordOperationalCost
    PROVE  Mirrors'
<1>1. /\ ~active /\ ~up /\ costs' = costs + 1 /\ exit.pc = "idle"
      /\ UNCHANGED <<rows, orders, active, up, memVars, entry, exit>>
  BY DEF RecordOperationalCost, Mirrors, Figures, Inv, LoopsCarry
<1>2. /\ account'.equity = account.equity - CostAmount
      /\ account'.realized = account.realized /\ account'.unrealized = account.unrealized
  BY DEF RecordOperationalCost, Inv, TypeOK
<1>3. Figures'
  <2>1. /\ account.equity \in Int /\ account.realized \in Int /\ account.unrealized \in Int
        /\ Start \in Int /\ costs \in Int /\ CostAmount \in Int
    BY PaperAssumption DEF Inv, TypeOK
  <2>2. costs' * CostAmount = costs * CostAmount + CostAmount /\ costs * CostAmount \in Int
    BY <1>1, <2>1
  <2>3. account.equity + costs * CostAmount = Start + account.realized + account.unrealized
    BY DEF Mirrors, Figures, Balanced
  <2>4. account'.equity + costs' * CostAmount
            = Start + account'.realized + account'.unrealized
    BY <1>2, <2>1, <2>2, <2>3
  <2> QED BY <1>1, <2>4 DEF Figures, Balanced
<1>4. Positions' /\ OneInMemory' /\ OrdersMirrored'
  BY <1>1 DEF Mirrors, Positions, Same, OneInMemory, InMemory, OrdersMirrored, memVars
<1> QED BY <1>3, <1>4 DEF Mirrors

(* Every step keeps the mirror, or loses an acknowledgement. *)
LEMMA NextMirror == Inv /\ Mirror /\ [Next]_vars => Mirror'
<1> SUFFICES ASSUME Inv, Mirror, [Next]_vars, lostAcks' = 0 PROVE Mirrors'
  BY DEF Mirror
<1>1. lostAcks \in Nat
  BY DEF Inv, TypeOK
<1>2. CASE EntryNext
  <2>1. lostAcks' = lostAcks /\ ~CommitEntryLost
    BY <1>1, <1>2 DEF EntryNext, BeginEntry, EntrySettled, EntryFails, CommitEntry,
                      CommitEntryLost, LedgerOpen
  <2>2. Mirrors
    BY <2>1 DEF Mirror
  <2> QED BY <1>2, <2>1, <2>2, EntryWaitsMirror, CommitEntryMirror, LedgerOpenMirror
          DEF EntryNext
<1>3. CASE ExitNext
  <2>0. \A price \in Prices \cup {0} : ~CommitExitLost(price)
    BY <1>1 DEF CommitExitLost
  <2>1. lostAcks' = lostAcks
    BY <1>3, <2>0 DEF ExitNext, BeginPass, GiveUp, QuoteFails, KeepPosition, Quote,
                      MarkLedger, SkipMarks, UpdateMarks, DecideExit, EndPass, PassFails,
                      CommitExit, CommitExitAgain, LedgerClose
  <2>2. Mirrors
    BY <2>1 DEF Mirror
  <2> QED BY <1>3, <2>0, <2>2, ExitWaitsMirror, MarkLedgerMirror, UpdateMarksMirror,
             CommitExitMirror, NoRepeatedExit, LedgerCloseMirror
          DEF ExitNext
<1>4. CASE ProcessNext
  <2>1. lostAcks' = lostAcks
    BY <1>4 DEF ProcessNext, Crash, Shutdown, StopProcess, Restart, RecordOperationalCost
  <2>2. Mirrors
    BY <2>1 DEF Mirror
  <2> QED BY <1>4, <2>2, StopMirror, RestartMirror, CostMirror DEF ProcessNext
<1>5. CASE UNCHANGED vars
  <2>1. Mirrors
    BY <1>5 DEF Mirror, vars
  <2> QED BY <1>5, <2>1 DEF vars, dbVars, memVars, Mirrors, Figures, Balanced, BookRealized,
             Positions, Same, Unbooked, TakenAfter, OneInMemory, InMemory, OrdersMirrored
<1> QED BY <1>2, <1>3, <1>4, <1>5 DEF Next

(* The mirror holds in every reachable state. *)
THEOREM MirrorInvariance == Spec => []Mirror
<1>1. Init => Mirror
  BY InitMirror DEF Mirror
<1> QED BY <1>1, NextMirror, Invariance, PTL DEF Spec

(* While no acknowledgement is lost, equity is start plus realized plus      *)
(* unrealized PnL less costs, in PostgreSQL and in the ledger.               *)
THEOREM EquityBalances == Spec => []EquityIdentity
<1>1. Mirror => EquityIdentity
  BY DEF Mirror, Mirrors, Figures, Balanced, EquityIdentity
<1> QED BY <1>1, MirrorInvariance, PTL

(* While no acknowledgement is lost, ledger and rows agree on every position *)
(* that was not given up, and on realized PnL.                               *)
THEOREM LedgerMirrorsRows == Spec => []MirrorAgrees
<1>1. Mirror => MirrorAgrees
  BY DEF Mirror, Mirrors, Figures, Positions, Same, Unbooked, MirrorAgrees
<1> QED BY <1>1, MirrorInvariance, PTL
-----------------------------------------------------------------------------
(* Cash.  What follows needs no assumption on acknowledgements. *)

(* A row that was never opened holds nothing. *)
UnopenedIsEmpty == \A c \in Candidates : rows[c].status = "NONE" => rows[c].parts = 0

Cash == CashConserved /\ UnopenedIsEmpty

(* The costs in the rows are integers, and so is their sum. *)
LEMMA RowCostsType ==
    ASSUME Inv
    PROVE  /\ RowCosts \in [Candidates -> Int]
           /\ SumFunctionOnSet(RowCosts, Candidates) \in Int
<1>1. RowCosts \in [Candidates -> Int]
  <2> SUFFICES ASSUME NEW c \in Candidates PROVE rows[c].parts * UnitCost \in Int
    BY DEF RowCosts
  <2>1. rows[c].parts \in Int /\ UnitCost \in Int
    BY PaperAssumption DEF Inv, TypeOK, RowType
  <2> QED BY <2>1
<1> QED BY <1>1, FiniteAssumption, SumType

(* A step that keeps the size of every row, and cash and realized PnL, or    *)
(* pays a cost from cash.                                                    *)
LEMMA KeptCash ==
    ASSUME Inv, Cash, NEW paid \in Nat,
           \A c \in Candidates : /\ rows'[c].parts = rows[c].parts
                                 /\ rows'[c].status = rows[c].status,
           account'.cash = account.cash - paid, account'.realized = account.realized,
           costs' * CostAmount = costs * CostAmount + paid
    PROVE  Cash'
<1>1. RowCosts' = RowCosts
  BY DEF RowCosts
<1>2. PICK f : f = RowCosts /\ SumFunctionOnSet(f, Candidates) \in Int
  BY RowCostsType
<1>3. account.cash + SumFunctionOnSet(f, Candidates)
          = Start + account.realized - costs * CostAmount
  BY <1>2 DEF Cash, CashConserved
<1>4. /\ account.cash \in Int /\ account.realized \in Int /\ Start \in Int
      /\ costs * CostAmount \in Int
  BY PaperAssumption DEF Inv, TypeOK
<1>5. account'.cash + SumFunctionOnSet(f, Candidates)
          = Start + account'.realized - costs' * CostAmount
  BY <1>2, <1>3, <1>4
<1>6. CashConserved'
  BY <1>1, <1>2, <1>5 DEF CashConserved
<1>7. UnopenedIsEmpty'
  BY DEF Cash, UnopenedIsEmpty
<1> QED BY <1>6, <1>7 DEF Cash

(* A step that changes the size of row p by delta moves as much cost between *)
(* cash, row and realized PnL.                                               *)
LEMMA MovedCash ==
    ASSUME Inv, Cash, NEW p \in Candidates, NEW row \in RowType, row.status # "NONE",
           rows' = [rows EXCEPT ![p] = row], UNCHANGED costs,
           account'.cash \in Int, account'.realized \in Int,
           account'.cash + row.parts * UnitCost - account'.realized
               = account.cash + rows[p].parts * UnitCost - account.realized
    PROVE  Cash'
<1> DEFINE v == row.parts * UnitCost
<1>1. v \in Int
  BY PaperAssumption DEF RowType
<1>2. PICK f \in [Candidates -> Int] :
         f = RowCosts /\ SumFunctionOnSet(f, Candidates) \in Int
  BY RowCostsType
<1>3. PICK h \in [Candidates -> Int] :
         h = RowCosts' /\ h[p] = v /\ \A c \in Candidates : c # p => h[c] = f[c]
  <2>1. RowCosts' = [f EXCEPT ![p] = v]
    BY <1>2 DEF RowCosts, Inv, TypeOK
  <2> QED BY <1>1, <1>2, <2>1
<1>4. f[p] = rows[p].parts * UnitCost /\ f[p] \in Int
  BY <1>2 DEF RowCosts
<1>5. SumFunctionOnSet(h, Candidates) = SumFunctionOnSet(f, Candidates) - f[p] + h[p]
  BY <1>2, <1>3, FiniteAssumption, SumUpdate
<1> HIDE DEF v
<1>6. account.cash + SumFunctionOnSet(f, Candidates)
          = Start + account.realized - costs * CostAmount
  BY <1>2 DEF Cash, CashConserved
<1>7. /\ account.cash \in Int /\ account.realized \in Int /\ Start \in Int
      /\ costs * CostAmount \in Int
  BY PaperAssumption DEF Inv, TypeOK
<1>8. account'.cash + v - account'.realized = account.cash + f[p] - account.realized
  BY <1>4 DEF v
<1>9. account'.cash + SumFunctionOnSet(h, Candidates)
          = Start + account'.realized - costs' * CostAmount
  BY <1>1, <1>2, <1>3, <1>4, <1>5, <1>6, <1>7, <1>8
<1>10. CashConserved'
  BY <1>3, <1>9 DEF CashConserved
<1>11. UnopenedIsEmpty'
  BY DEF Cash, UnopenedIsEmpty, Inv, TypeOK
<1> QED BY <1>10, <1>11 DEF Cash

(* An entry moves its cost from cash into the row. *)
LEMMA CommitEntryCash ==
    ASSUME Inv, Cash, CommitEntry \/ CommitEntryLost
    PROVE  Cash'
<1> DEFINE c == entry.cand
           row == [status |-> "OPEN", parts |-> Parts, unrealized |-> 0, taken |-> {}]
<1>1. /\ c \in Candidates /\ OrderId(c, "entry") \notin orders
      /\ rows' = [rows EXCEPT ![c] = row]
      /\ account' = [account EXCEPT !.cash = @ - EntryCost, !.locked = @ + EntryCost]
      /\ costs' = costs
  BY DEF CommitEntry, CommitEntryLost, InsertEntry, Inv, LoopsCarry
<1>2. row \in RowType /\ row.status # "NONE" /\ row.parts = Parts
  BY PaperAssumption DEF RowType
<1>3. rows[c].parts = 0
  BY <1>1 DEF Inv, CommittedFirst, Cash, UnopenedIsEmpty
<1>4. account'.cash = account.cash - EntryCost /\ account'.realized = account.realized
      /\ account.cash \in Int /\ account.realized \in Int
  BY <1>1 DEF Inv, TypeOK
<1> HIDE DEF row
<1>5. account'.cash + row.parts * UnitCost - account'.realized
          = account.cash + rows[c].parts * UnitCost - account.realized
  <2>1. row.parts * UnitCost = EntryCost /\ rows[c].parts * UnitCost = 0 /\ EntryCost \in Int
    BY <1>2, <1>3, EntryCostType, PaperAssumption DEF EntryCost
  <2> QED BY <1>4, <2>1
<1>6. account'.cash \in Int /\ account'.realized \in Int
  BY <1>4, EntryCostType
<1> QED BY <1>1, <1>2, <1>5, <1>6, MovedCash

(* A sale moves the cost of the sold parts out of the row; cash gains the    *)
(* proceeds, realized PnL the difference.                                    *)
LEMMA CommitExitCash ==
    ASSUME Inv, Cash, NEW price \in Prices \cup {0}, CommitExit(price) \/ CommitExitLost(price)
    PROVE  Cash'
<1> DEFINE n == exit.amount
<1>1. exit.pc = "selling" /\ InsertExit(price)
  BY DEF CommitExit, CommitExitLost
<1>2. PICK p \in OpenRows :
         /\ n > 0 /\ n <= rows[p].parts
         /\ rows' = [rows EXCEPT ![p] = SoldRow(p, n, price)]
         /\ account' = SoldAccount(p, n, price)
  BY <1>1 DEF InsertExit
<1>3. /\ p \in Candidates /\ n \in Nat /\ price \in Nat /\ UnitCost \in Nat
      /\ rows[p].parts \in Nat /\ costs' = costs
  BY <1>1, <1>2, PaperAssumption DEF OpenRows, Inv, TypeOK, RowType, ExitType, InsertExit
<1>4. /\ SoldRow(p, n, price) \in RowType
      /\ SoldRow(p, n, price).parts = rows[p].parts - n
      /\ SoldRow(p, n, price).status # "NONE"
  BY <1>2, <1>3, SoldRowType DEF Inv
<1>5. /\ account'.cash = account.cash + n * price
      /\ account'.realized = account.realized + (n * price - n * UnitCost)
  BY <1>2 DEF SoldAccount, Inv, TypeOK
<1>6. account.cash \in Int /\ account.realized \in Int
  BY DEF Inv, TypeOK
<1>7. /\ n * price \in Int /\ n * UnitCost \in Int /\ rows[p].parts * UnitCost \in Int
      /\ (rows[p].parts - n) * UnitCost = rows[p].parts * UnitCost - n * UnitCost
  BY <1>3
<1>8. account'.cash \in Int /\ account'.realized \in Int
  BY <1>5, <1>6, <1>7
<1>9. PICK row \in RowType : row = SoldRow(p, n, price)
  BY <1>4
<1>10. account'.cash + row.parts * UnitCost - account'.realized
          = account.cash + rows[p].parts * UnitCost - account.realized
  BY <1>4, <1>5, <1>6, <1>7, <1>9
<1> QED BY <1>2, <1>3, <1>4, <1>8, <1>9, <1>10, MovedCash

(* The marks leave cash and sizes alone. *)
LEMMA UpdateMarksCash ==
    ASSUME Inv, Cash, UpdateMarks
    PROVE  Cash'
<1>1. \A c \in Candidates : /\ rows'[c].parts = rows[c].parts
                            /\ rows'[c].status = rows[c].status
  BY DEF UpdateMarks, Inv, TypeOK, RowType
<1>2. account'.cash = account.cash - 0 /\ account'.realized = account.realized
  <2>1. /\ account'.cash = account.cash /\ account'.realized = account.realized
        /\ account.cash \in Int
    BY DEF UpdateMarks, MarkedAccount, Inv, TypeOK
  <2> QED BY <2>1
<1>3. costs' * CostAmount = costs * CostAmount + 0
  <2>1. costs' = costs
    BY DEF UpdateMarks
  <2>2. costs * CostAmount \in Int
    BY PaperAssumption DEF Inv, TypeOK
  <2> QED BY <2>1, <2>2
<1> QED BY <1>1, <1>2, <1>3, KeptCash

(* An operational cost is paid from cash. *)
LEMMA CostCash ==
    ASSUME Inv, Cash, RecordOperationalCost
    PROVE  Cash'
<1>1. account'.cash = account.cash - CostAmount /\ account'.realized = account.realized
  BY DEF RecordOperationalCost, Inv, TypeOK
<1>2. costs' * CostAmount = costs * CostAmount + CostAmount
  <2>1. costs \in Int /\ CostAmount \in Int /\ costs' = costs + 1
    BY PaperAssumption DEF RecordOperationalCost, Inv, TypeOK
  <2> QED BY <2>1
<1>3. rows' = rows /\ CostAmount \in Nat
  BY PaperAssumption DEF RecordOperationalCost
<1> QED BY <1>1, <1>2, <1>3, KeptCash

(* Every step conserves cash. *)
LEMMA NextCash == Inv /\ Cash /\ [Next]_vars => Cash'
<1> SUFFICES ASSUME Inv, Cash, [Next]_vars PROVE Cash'
  OBVIOUS
<1>1. CASE UNCHANGED <<account, rows, costs>>
  BY <1>1 DEF Cash, CashConserved, UnopenedIsEmpty, RowCosts
<1>2. CASE CommitEntry \/ CommitEntryLost
  BY <1>2, CommitEntryCash
<1>3. CASE \E price \in Prices \cup {0} : CommitExit(price) \/ CommitExitLost(price)
  BY <1>3, CommitExitCash
<1>4. CASE UpdateMarks
  BY <1>4, UpdateMarksCash
<1>5. CASE RecordOperationalCost
  BY <1>5, CostCash
<1>6. CASE EntryNext
  BY <1>1, <1>2, <1>6 DEF EntryNext, BeginEntry, EntrySettled, EntryFails, LedgerOpen, dbVars
<1>7. CASE ExitNext
  BY <1>1, <1>3, <1>4, <1>7
  DEF ExitNext, BeginPass, GiveUp, QuoteFails, KeepPosition, Quote, MarkLedger,
      SkipMarks, DecideExit, EndPass, PassFails, CommitExitAgain, LedgerClose, dbVars
<1>8. CASE ProcessNext
  BY <1>1, <1>5, <1>8 DEF ProcessNext, Crash, Shutdown, StopProcess, Restart
<1>9. CASE UNCHANGED vars
  BY <1>1, <1>9 DEF vars, dbVars
<1> QED BY <1>6, <1>7, <1>8, <1>9 DEF Next

(* With no position the sum of the costs is 0. *)
LEMMA InitCash == Init => Cash
<1> SUFFICES ASSUME Init PROVE Cash
  OBVIOUS
<1>1. UnopenedIsEmpty
  BY DEF Init, UnopenedIsEmpty
<1>2. PICK f \in [Candidates -> Int] : f = RowCosts /\ \A c \in Candidates : f[c] = 0
  <2>1. \A c \in Candidates : rows[c].parts = 0
    BY DEF Init
  <2>2. 0 * UnitCost = 0
    BY PaperAssumption
  <2>3. RowCosts = [c \in Candidates |-> 0]
    BY <2>1, <2>2 DEF RowCosts
  <2> QED BY <2>3
<1>3. SumFunctionOnSet(f, Candidates) = 0
  BY <1>2, FiniteAssumption, SumZero
<1>4. CashConserved
  <2>1. SumFunctionOnSet(RowCosts, Candidates) = 0
    BY <1>2, <1>3
  <2>2. account.cash = Start /\ account.realized = 0 /\ costs = 0 /\ Start \in Int
        /\ costs * CostAmount = 0
    BY PaperAssumption DEF Init
  <2> QED BY <2>1, <2>2 DEF CashConserved
<1> QED BY <1>1, <1>4 DEF Cash

(* No money appears or vanishes in PostgreSQL: cash plus the cost still in   *)
(* position rows is the start plus realized PnL less operational costs, for  *)
(* every number of candidates and whatever acknowledgement is lost.          *)
THEOREM NoMoneyVanishes == Spec => []CashConserved
<1>1. Cash => CashConserved
  BY DEF Cash
<1> QED BY <1>1, InitCash, NextCash, Invariance, PTL DEF Spec
=============================================================================
