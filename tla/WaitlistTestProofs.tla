------------------------- MODULE WaitlistTestProofs -------------------------
(***************************************************************************)
(* No pop of waitlist_is_linearizable comes back with nothing, and in the  *)
(* end every item has come out once, for any number of workers, items and  *)
(* slots.                                                                  *)
(***************************************************************************)
EXTENDS WaitlistTest, FiniteSetTheorems, TLAPS

IInv == WorkersTypeOK /\ InPlace /\ EnoughAhead

\* An item is neither of the values that stand for no item.
LEMMA ItemsAreItems == \A i \in Items : i # Empty /\ i # Vacant
  BY WaitlistTestAssumption

LEMMA SlotsArePositive == \A k \in Slots : k \in Nat /\ k >= 1
  BY WaitlistAssumption

LEMMA PositionsAreNatural ==
  /\ \A k \in Positions : k \in Nat /\ k >= 1
  /\ 1 \in Positions
  /\ \A k \in Slots : k + 1 \in Positions
  BY SlotsArePositive DEF Positions

LEMMA CursorsAreNatural ==
  ASSUME WorkersTypeOK, NEW w \in Threads
  PROVE  cursor[w] \in Nat
  <1>1. cursor[w] \in Positions \cup {0}
    BY DEF WorkersTypeOK
  <1>2. 0 \in Nat
    OBVIOUS
  <1> QED
    BY <1>1, <1>2, PositionsAreNatural

\* The sets that EnoughAhead compares are finite.
LEMMA AheadIsFinite ==
  ASSUME NEW k
  PROVE  /\ IsFiniteSet(Full(k)) /\ IsFiniteSet(Popping(k))
         /\ Cardinality(Full(k)) \in Nat /\ Cardinality(Popping(k)) \in Nat
  <1>1. Full(k) \subseteq Slots /\ Popping(k) \subseteq Threads
    BY DEF Full, Popping
  <1>2. IsFiniteSet(Full(k)) /\ IsFiniteSet(Popping(k))
    BY <1>1, FS_Subset, WaitlistTestAssumption
  <1> QED
    BY <1>2, FS_CardinalityType

\* EnoughAhead lets a scanning worker find something.
LEMMA ScanFinds ==
  ASSUME WorkersTypeOK, InPlace, EnoughAhead, NEW w \in Threads, at[w] = "scan"
  PROVE  /\ cursor[w] \in Positions
         /\ w \in Popping(cursor[w])
         /\ \E j \in Ahead(w) : j \in Full(cursor[w]) /\ items[j] # Empty
  <1>1. cursor[w] \in Positions
    BY DEF WorkersTypeOK, InPlace
  <1>2. w \in Popping(cursor[w])
    BY <1>1, PositionsAreNatural DEF Popping
  <1>3. Cardinality(Popping(cursor[w])) # 0
    BY <1>2, AheadIsFinite, FS_EmptySet
  <1>4. Cardinality(Full(cursor[w])) # 0
    BY <1>1, <1>3, AheadIsFinite DEF EnoughAhead
  <1>5. PICK j : j \in Full(cursor[w])
    BY <1>4, FS_EmptySet
  <1>6. j \in Ahead(w) /\ items[j] # Empty
    BY <1>5, ItemsAreItems DEF Full, Ahead
  <1> QED
    BY <1>1, <1>2, <1>5, <1>6

\* If the pops stay within what they were and the items do not get fewer,
\* there are enough items still.
LEMMA StillEnough ==
  ASSUME NEW k \in Positions, NEW c \in Positions, EnoughAhead,
         NEW P, NEW F, P \subseteq Popping(c), Full(c) \subseteq F, IsFiniteSet(F)
  PROVE  Cardinality(P) <= Cardinality(F)
  <1>1. Cardinality(P) <= Cardinality(Popping(c)) /\ Cardinality(P) \in Nat
    BY AheadIsFinite, FS_Subset, FS_CardinalityType
  <1>2. Cardinality(Full(c)) <= Cardinality(F) /\ Cardinality(F) \in Nat
    BY FS_Subset, FS_CardinalityType
  <1>3. Cardinality(Popping(c)) <= Cardinality(Full(c))
    BY DEF EnoughAhead
  <1> QED
    BY <1>1, <1>2, <1>3, AheadIsFinite

\* One pop and one item less.
LEMMA OneLess ==
  ASSUME NEW c \in Positions, EnoughAhead,
         NEW w \in Popping(c), NEW j \in Full(c),
         NEW P, NEW F, P \subseteq Popping(c) \ {w}, Full(c) \ {j} \subseteq F, IsFiniteSet(F)
  PROVE  Cardinality(P) <= Cardinality(F)
  <1>1. /\ Cardinality(Popping(c) \ {w}) = Cardinality(Popping(c)) - 1
        /\ Cardinality(Full(c) \ {j}) = Cardinality(Full(c)) - 1
    BY AheadIsFinite, FS_RemoveElement
  <1>2. IsFiniteSet(Popping(c) \ {w})
    BY AheadIsFinite, FS_RemoveElement
  <1>3. /\ Cardinality(P) <= Cardinality(Popping(c) \ {w}) /\ Cardinality(P) \in Nat
        /\ Cardinality(Full(c) \ {j}) <= Cardinality(F) /\ Cardinality(F) \in Nat
    BY <1>2, FS_Subset, FS_CardinalityType
  <1>4. Cardinality(Popping(c)) <= Cardinality(Full(c))
    BY DEF EnoughAhead
  <1> QED
    BY <1>1, <1>3, <1>4, AheadIsFinite

-----------------------------------------------------------------------------

LEMMA InitIInv == Init => IInv
  <1> SUFFICES ASSUME Init PROVE IInv
    OBVIOUS
  <1> USE DEF Init, WaitlistInit
  <1>1. WorkersTypeOK
    BY WaitlistTestAssumption DEF WorkersTypeOK
  <1>2. InPlace
    BY DEF InPlace
  <1>3. EnoughAhead
    <2> SUFFICES ASSUME NEW k \in Positions
                 PROVE  Cardinality(Popping(k)) <= Cardinality(Full(k))
      BY DEF EnoughAhead
    <2>1. Popping(k) = {}
      BY DEF Popping
    <2> QED
      BY <2>1, FS_EmptySet, AheadIsFinite
  <1> QED
    BY <1>1, <1>2, <1>3 DEF IInv

LEMMA StepTypes ==
  ASSUME WorkersTypeOK, InPlace, NEW w \in Threads, Step(w)
  PROVE  WorkersTypeOK' /\ InPlace'
  <1> USE SlotsArePositive, PositionsAreNatural, WaitlistAssumption, WaitlistTestAssumption
      DEF WorkersTypeOK, InPlace, Goto
  <1>1. CASE Register(w)
    <2>1. PICK k \in Slots : WaitlistRegister(k) /\ mine' = [mine EXCEPT ![w] = k]
      BY <1>1 DEF Register
    <2> QED
      BY <1>1, <2>1 DEF Register, WaitlistRegister
  <1>2. CASE Insert(w)
    <2> DEFINE new == <<w, next[w]>>
    <2>1. new \in Items /\ new # Vacant /\ next[w] + 1 \in 1..PerWorker + 1
      BY <1>2, ItemsAreItems DEF Insert, Items
    <2>2. mine[w] \in Slots /\ items[mine[w]] # Vacant
      BY <1>2 DEF Insert
    <2>3. out' \in [Threads -> Seq(Items)]
      <3>1. CASE items[mine[w]] = Empty
        BY <1>2, <3>1 DEF Insert
      <3>2. CASE items[mine[w]] # Empty
        <4>1. items[mine[w]] \in Items
          BY <2>2, <3>2
        <4>2. Collect(w, items[mine[w]])
          BY <1>2, <3>2 DEF Insert
        <4> QED
          BY <4>1, <4>2 DEF Collect
      <3> QED
        BY <3>1, <3>2
    <2> QED
      BY <1>2, <2>1, <2>2, <2>3, ZenonT(30) DEF Insert, WaitlistInsert
  <1>3. CASE StartPop(w)
    BY <1>3 DEF StartPop, PopBegin
  <1>4. CASE Pass(w)
    BY <1>4 DEF Pass, PopMiss
  <1>5. CASE Take(w)
    <2>1. PICK k \in Slots : PopTake(w, k) /\ Collect(w, items[k])
      BY <1>5 DEF Take
    <2>2. items[k] \in Items
      BY <2>1 DEF PopTake, IsNext, Ahead
    <2>3. out' \in [Threads -> Seq(Items)]
      BY <2>1, <2>2 DEF Collect
    <2> QED
      BY <1>5, <2>1, <2>3 DEF Take, PopTake
  <1> QED
    BY <1>1, <1>2, <1>3, <1>4, <1>5 DEF Step

-----------------------------------------------------------------------------
\* One lemma for each action that moves an item or a pop.

\* Nothing that EnoughAhead looks at changes, or only for the better.
LEMMA SameOrBetter ==
  ASSUME EnoughAhead,
         \A k \in Positions : /\ Popping(k)' \subseteq Popping(k)
                              /\ Full(k) \subseteq Full(k)' /\ IsFiniteSet(Full(k)')
  PROVE  EnoughAhead'
  <1> SUFFICES ASSUME NEW k \in Positions
               PROVE  Cardinality(Popping(k)') <= Cardinality(Full(k)')
    BY DEF EnoughAhead, Positions
  <1> QED
    BY StillEnough

LEMMA FullIsFinite ==
  \A k : IsFiniteSet(Full(k)')
  <1> TAKE k
  <1>1. Full(k)' \subseteq Slots
    BY DEF Full
  <1> QED
    BY <1>1, FS_Subset, WaitlistTestAssumption

LEMMA RegisterEnough ==
  ASSUME WorkersTypeOK, EnoughAhead, NEW w \in Threads, Register(w)
  PROVE  EnoughAhead'
  <1>1. PICK k \in Slots : WaitlistRegister(k)
    BY DEF Register
  <1>2. \A c : Popping(c)' = Popping(c)
    BY <1>1 DEF Register, WaitlistRegister, Popping, Goto, WorkersTypeOK
  <1>3. \A c : Full(c) \subseteq Full(c)'
    BY <1>1, ItemsAreItems DEF WaitlistRegister, Full, WorkersTypeOK
  <1> QED
    BY <1>2, <1>3, FullIsFinite, SameOrBetter

LEMMA InsertEnough ==
  ASSUME WorkersTypeOK, InPlace, EnoughAhead, NEW w \in Threads, Insert(w)
  PROVE  EnoughAhead'
  <1> DEFINE m == mine[w]
  <1>1. m \in Slots /\ m \in Nat /\ m >= 1 /\ at[w] = "insert"
    BY SlotsArePositive DEF Insert, InPlace
  <1>2. <<w, next[w]>> \in Items /\ items' = [items EXCEPT ![m] = <<w, next[w]>>]
    BY DEF Insert, WaitlistInsert, Items, WorkersTypeOK
  <1>3. \A c : Full(c) \subseteq Full(c)'
    BY <1>1, <1>2 DEF Full, WorkersTypeOK
  <1>4. cursor' = cursor
    BY DEF Insert, WaitlistInsert
  <1>5. CASE items[m] # Empty
    <2>1. \A c : Popping(c)' = Popping(c)
      BY <1>4, <1>5 DEF Insert, Popping
    <2> QED
      BY <1>3, <2>1, FullIsFinite, SameOrBetter
  <1>6. CASE items[m] = Empty
    <2>1. at' = [at EXCEPT ![w] = "pop"]
      BY <1>6 DEF Insert, Goto
    <2> SUFFICES ASSUME NEW k \in Positions
                 PROVE  Cardinality(Popping(k)') <= Cardinality(Full(k)')
      BY DEF EnoughAhead, Positions
    <2>2. CASE k > 1
      <3>1. Popping(k)' \subseteq Popping(k)
        BY <1>1, <1>4, <2>1, <2>2, PositionsAreNatural DEF Popping, WorkersTypeOK
      <3> QED
        BY <1>3, <3>1, FullIsFinite, StillEnough
    <2>3. CASE k <= 1
      <3>1. Popping(k)' = Popping(k) \cup {w} /\ w \notin Popping(k)
        BY <1>1, <1>4, <2>1, <2>3, PositionsAreNatural DEF Popping, WorkersTypeOK
      <3>2. Full(k)' = Full(k) \cup {m} /\ m \notin Full(k)
        BY <1>1, <1>2, <1>6, <2>3, ItemsAreItems, PositionsAreNatural DEF Full, WorkersTypeOK
      <3>3. /\ Cardinality(Popping(k)') = Cardinality(Popping(k)) + 1
            /\ Cardinality(Full(k)') = Cardinality(Full(k)) + 1
        BY <3>1, <3>2, AheadIsFinite, FS_AddElement
      <3> QED
        BY <3>3, AheadIsFinite DEF EnoughAhead
    <2> QED
      BY <2>2, <2>3, PositionsAreNatural
  <1> QED
    BY <1>5, <1>6

LEMMA StartPopEnough ==
  ASSUME WorkersTypeOK, EnoughAhead, NEW w \in Threads, StartPop(w)
  PROVE  EnoughAhead'
  <1>1. /\ items' = items /\ at[w] = "pop"
        /\ at' = [at EXCEPT ![w] = "scan"] /\ cursor' = [cursor EXCEPT ![w] = 1]
    BY DEF StartPop, PopBegin, Goto
  <1>2. \A c \in Positions : Popping(c)' = Popping(c)
    BY <1>1, PositionsAreNatural DEF Popping, WorkersTypeOK
  <1>3. \A c : Full(c)' = Full(c)
    BY <1>1 DEF Full
  <1> QED
    BY <1>2, <1>3, FullIsFinite, SameOrBetter

\* A scan that passes an empty slot leaves all items that were ahead of it ahead.
LEMMA PassEnough ==
  ASSUME WorkersTypeOK, InPlace, EnoughAhead, NEW w \in Threads, Pass(w)
  PROVE  EnoughAhead'
  <1> DEFINE c == cursor[w]
  <1>1. PICK j \in Slots : PopMiss(w, j)
    BY DEF Pass
  <1>2. at[w] = "scan" /\ at' = at /\ items' = items
        /\ cursor' = [cursor EXCEPT ![w] = j + 1] /\ items[j] = Empty /\ IsNext(w, j)
    BY <1>1 DEF Pass, PopMiss
  <1>3. c \in Positions /\ w \in Popping(c) /\ c \in Nat /\ c >= 1 /\ j \in Nat /\ c <= j
    BY <1>2, ScanFinds, PositionsAreNatural, SlotsArePositive DEF IsNext, Ahead
  <1>4. \A k \in Slots : k \in Full(c) => k >= j + 1
    <2> SUFFICES ASSUME NEW k \in Slots, k \in Full(c)
                 PROVE  k >= j + 1
      OBVIOUS
    <2>1. k \in Ahead(w) /\ items[k] # Empty
      BY ItemsAreItems DEF Full, Ahead
    <2>2. j <= k /\ j # k
      BY <1>2, <2>1 DEF IsNext
    <2> QED
      BY <2>2, SlotsArePositive
  <1>5. \A k : Full(k)' = Full(k)
    BY <1>2 DEF Full
  <1> SUFFICES ASSUME NEW k \in Positions
               PROVE  Cardinality(Popping(k)') <= Cardinality(Full(k)')
    BY DEF EnoughAhead, Positions
  <1> k \in Nat
    BY PositionsAreNatural
  <1>6. CASE k <= c \/ k > j + 1
    <2>1. Popping(k)' \subseteq Popping(k)
      BY <1>2, <1>3, <1>6 DEF Popping, WorkersTypeOK
    <2> QED
      BY <1>5, <2>1, FullIsFinite, StillEnough
  <1>7. CASE c < k /\ k <= j + 1
    <2>1. Popping(k)' \subseteq Popping(c)
      <3> SUFFICES ASSUME NEW u \in Popping(k)' PROVE u \in Popping(c)
        OBVIOUS
      <3>1. CASE u = w
        BY <1>3, <3>1
      <3>2. CASE u # w
        <4>1. u \in Threads
          BY DEF Popping
        <4>2. cursor'[u] = cursor[u] /\ cursor[u] \in Nat
          BY <1>2, <3>2, <4>1, CursorsAreNatural DEF WorkersTypeOK
        <4>3. at[u] = "scan" /\ cursor[u] >= k
          BY <1>2, <1>3, <1>7, <4>2 DEF Popping
        <4> QED
          BY <1>3, <1>7, <4>1, <4>2, <4>3 DEF Popping
      <3> QED
        BY <3>1, <3>2
    <2>2. Full(c) \subseteq Full(k)'
      <3> SUFFICES ASSUME NEW u \in Full(c) PROVE u \in Full(k)
        BY <1>5
      <3>1. u \in Slots /\ items[u] \in Items /\ u \in Nat
        BY SlotsArePositive DEF Full
      <3>2. u >= k
        BY <1>3, <1>4, <1>7, <3>1
      <3> QED
        BY <3>1, <3>2 DEF Full
    <2> QED
      BY <1>3, <2>1, <2>2, FullIsFinite, StillEnough
  <1> QED
    BY <1>3, <1>6, <1>7

LEMMA TakeEnough ==
  ASSUME WorkersTypeOK, InPlace, EnoughAhead, NEW w \in Threads, Take(w)
  PROVE  EnoughAhead'
  <1> DEFINE c == cursor[w]
  <1>1. PICK j \in Slots : PopTake(w, j)
    BY DEF Take
  <1>2. /\ at[w] = "scan" /\ at' = [at EXCEPT ![w] = "insert"]
        /\ items' = [items EXCEPT ![j] = Empty]
        /\ cursor' = [cursor EXCEPT ![w] = 0] /\ items[j] # Empty /\ IsNext(w, j)
    BY <1>1 DEF Take, PopTake, Goto
  <1>3. c \in Positions /\ w \in Popping(c) /\ c \in Nat /\ c >= 1 /\ j \in Nat /\ c <= j
    BY <1>2, ScanFinds, PositionsAreNatural, SlotsArePositive DEF IsNext, Ahead
  <1>4. j \in Full(c) /\ items[j] \in Items
    BY <1>2 DEF IsNext, Ahead, Full, WorkersTypeOK
  <1>5. \A k \in Slots : k \in Full(c) => k >= j
    BY <1>2, ItemsAreItems DEF IsNext, Full, Ahead
  <1>6. \A k : Full(k)' = Full(k) \ {j}
    BY <1>2, ItemsAreItems DEF Full, WorkersTypeOK
  <1> SUFFICES ASSUME NEW k \in Positions
               PROVE  Cardinality(Popping(k)') <= Cardinality(Full(k)')
    BY DEF EnoughAhead, Positions
  <1> k \in Nat
    BY PositionsAreNatural
  <1>7. Popping(k)' \subseteq Popping(k) \ {w}
    BY <1>2, <1>3 DEF Popping, WorkersTypeOK
  <1>8. CASE k <= c
    <2>1. w \in Popping(k) /\ j \in Full(k)
      BY <1>2, <1>3, <1>4, <1>8 DEF Popping, Full
    <2> QED
      BY <1>6, <1>7, <2>1, FullIsFinite, OneLess
  <1>9. CASE k > j
    <2>1. Full(k) \subseteq Full(k)'
      BY <1>3, <1>6, <1>9 DEF Full
    <2> QED
      BY <1>7, <2>1, FullIsFinite, StillEnough
  <1>10. CASE c < k /\ k <= j
    <2>1. Popping(k)' \subseteq Popping(c) \ {w}
      <3> SUFFICES ASSUME NEW u \in Popping(k)' PROVE u \in Popping(c) /\ u # w
        OBVIOUS
      <3>1. u \in Popping(k) /\ u # w /\ u \in Threads
        BY <1>7 DEF Popping
      <3>2. cursor[u] \in Nat
        BY <3>1, CursorsAreNatural
      <3>3. at[u] = "scan" /\ cursor[u] >= k
        BY <1>3, <1>10, <3>1 DEF Popping
      <3> QED
        BY <1>3, <1>10, <3>1, <3>2, <3>3 DEF Popping
    <2>2. Full(c) \ {j} \subseteq Full(k)'
      <3> SUFFICES ASSUME NEW x \in Full(c), x # j PROVE x \in Full(k)'
        OBVIOUS
      <3>1. x \in Slots /\ items[x] \in Items /\ x \in Nat
        BY SlotsArePositive DEF Full
      <3>2. x >= k
        BY <1>3, <1>5, <1>10, <3>1
      <3>3. x \in Full(k)
        BY <3>1, <3>2 DEF Full
      <3> QED
        BY <1>6, <3>3
    <2> QED
      BY <1>3, <1>4, <2>1, <2>2, FullIsFinite, OneLess
  <1> QED
    BY <1>3, <1>8, <1>9, <1>10

-----------------------------------------------------------------------------

LEMMA NextIInv == IInv /\ [Next]_vars => IInv'
  <1> SUFFICES ASSUME IInv, [Next]_vars PROVE IInv'
    OBVIOUS
  <1> USE DEF IInv
  <1>1. CASE UNCHANGED vars
    <2>1. WorkersTypeOK' /\ InPlace'
      BY <1>1 DEF vars, WorkersTypeOK, InPlace
    <2>2. \A k : Popping(k)' = Popping(k) /\ Full(k)' = Full(k)
      BY <1>1 DEF vars, Popping, Full
    <2>3. EnoughAhead'
      BY <2>2, FullIsFinite, SameOrBetter
    <2> QED
      BY <2>1, <2>3
  <1>2. CASE \E w \in Threads : Step(w)
    <2>1. PICK w \in Threads : Step(w)
      BY <1>2
    <2>2. WorkersTypeOK' /\ InPlace'
      BY <2>1, StepTypes
    <2>3. EnoughAhead'
      BY <2>1, RegisterEnough, InsertEnough, StartPopEnough, PassEnough, TakeEnough
      DEF Step
    <2> QED
      BY <2>2, <2>3
  <1> QED
    BY <1>1, <1>2 DEF Next

LEMMA FindsSomething == IInv => PopsSucceed
  BY ScanFinds DEF IInv, PopsSucceed

LEMMA AlwaysIInv == Spec => []IInv
  BY InitIInv, NextIInv, PTL DEF Spec

\* Every variable keeps its type: a cursor never stands anywhere but before a
\* slot or past the last, and a worker never runs out of its items.
THEOREM TypeCorrect == Spec => []WorkersTypeOK
  BY AlwaysIInv, PTL DEF IInv

\* From any position on there are as many items as pops that have yet to visit it,
\* for any number of workers, items and slots.
THEOREM AlwaysEnough == Spec => []EnoughAhead
  BY AlwaysIInv, PTL DEF IInv

\* However many workers race, a pop that follows an insert into an empty slot
\* finds an item: waitlist_is_linearizable holds for any number of workers.
THEOREM PopsAlwaysSucceed == Spec => []PopsSucceed
  BY AlwaysIInv, FindsSomething, PTL

-----------------------------------------------------------------------------
\* The items come out once each.  While the test runs, an item that has been
\* inserted is in one slot or has come out once, and there are as many items in
\* the slots as pops under way; so none is left when no pop is.

Issued(i)  == i[2] < next[i[1]]
InCell(i)  == \E k \in Slots : items[k] = i
CameOut(i) == \E w \in Threads : \E n \in DOMAIN out[w] : out[w][n] = i

CellsDiffer == \A j, k \in Slots : items[j] \in Items /\ items[j] = items[k] => j = k

OutsDiffer ==
  \A v, w \in Threads : \A m \in DOMAIN out[v], n \in DOMAIN out[w] :
    out[v][m] = out[w][n] => v = w /\ m = n

ItemsOnce ==
  /\ CellsDiffer /\ OutsDiffer
  /\ \A i \in Items : /\ ~(InCell(i) /\ CameOut(i))
                      /\ Issued(i) <=> InCell(i) \/ CameOut(i)

Balanced == Cardinality(Full(1)) = Cardinality(Popping(1))

LEMMA BalancedStep ==
  ASSUME WorkersTypeOK, InPlace, EnoughAhead, Balanced, NEW w \in Threads, Step(w)
  PROVE  Balanced'
  <1>0. \A k \in Slots : k \in Nat /\ k >= 1 /\ k >= 0
    BY SlotsArePositive
  <1>p. Popping(1) = {v \in Threads : at[v] = "pop" \/ (at[v] = "scan" /\ cursor[v] >= 1)}
    BY DEF Popping
  <1>f. Full(1) = {j \in Slots : items[j] \in Items}
    BY <1>0 DEF Full
  <1>p1. Popping(1)' = {v \in Threads : at'[v] = "pop" \/ (at'[v] = "scan" /\ cursor'[v] >= 1)}
    BY DEF Popping
  <1>f1. Full(1)' = {j \in Slots : items'[j] \in Items}
    BY <1>0 DEF Full
  <1>u. ASSUME Popping(1)' = Popping(1), Full(1)' = Full(1)
        PROVE  Balanced'
    BY <1>u DEF Balanced
  <1> USE DEF WorkersTypeOK, Goto
  <1>1. CASE Register(w)
    <2>1. PICK k \in Slots : WaitlistRegister(k)
      BY <1>1 DEF Register
    <2>2. Full(1)' = Full(1)
      BY <2>1, <1>f, <1>f1, ItemsAreItems DEF WaitlistRegister
    <2>3. Popping(1)' = Popping(1)
      BY <1>1, <2>1, <1>p, <1>p1 DEF Register, WaitlistRegister
    <2> QED
      BY <2>2, <2>3, <1>u
  <1>2. CASE Insert(w)
    <2> DEFINE m == mine[w]
    <2>1. m \in Slots /\ at[w] = "insert" /\ items[m] # Vacant /\ cursor' = cursor
      BY <1>2 DEF Insert, InPlace, WaitlistInsert
    <2>2. <<w, next[w]>> \in Items /\ items' = [items EXCEPT ![m] = <<w, next[w]>>]
      BY <1>2 DEF Insert, WaitlistInsert, Items
    <2>3. CASE items[m] = Empty
      <3>1. at' = [at EXCEPT ![w] = "pop"]
        BY <1>2, <2>3 DEF Insert
      <3>2. Popping(1)' = Popping(1) \cup {w} /\ w \notin Popping(1)
        BY <2>1, <3>1, <1>p, <1>p1
      <3>3. Full(1)' = Full(1) \cup {m} /\ m \notin Full(1)
        BY <2>1, <2>2, <2>3, <1>f, <1>f1, ItemsAreItems, ZenonT(30)
      <3>4. /\ Cardinality(Popping(1)') = Cardinality(Popping(1)) + 1
            /\ Cardinality(Full(1)') = Cardinality(Full(1)) + 1
        BY <3>2, <3>3, AheadIsFinite, FS_AddElement
      <3> QED
        BY <3>4 DEF Balanced
    <2>4. CASE items[m] # Empty
      <3>1. at' = at
        BY <1>2, <2>4 DEF Insert
      <3>2. Popping(1)' = Popping(1)
        BY <2>1, <3>1, <1>p, <1>p1
      <3>3. Full(1)' = Full(1)
        BY <2>1, <2>2, <2>4, <1>f, <1>f1
      <3> QED
        BY <3>2, <3>3, <1>u
    <2> QED
      BY <2>3, <2>4
  <1>3. CASE StartPop(w)
    <2>1. /\ items' = items /\ at[w] = "pop"
          /\ at' = [at EXCEPT ![w] = "scan"] /\ cursor' = [cursor EXCEPT ![w] = 1]
      BY <1>3 DEF StartPop, PopBegin
    <2>2. Popping(1)' = Popping(1)
      BY <2>1, PositionsAreNatural DEF Popping
    <2>3. Full(1)' = Full(1)
      BY <2>1, <1>f, <1>f1
    <2> QED
      BY <2>2, <2>3, <1>u
  <1>4. CASE Pass(w)
    <2>1. PICK j \in Slots : PopMiss(w, j)
      BY <1>4 DEF Pass
    <2>2. /\ at[w] = "scan" /\ at' = at /\ items' = items
          /\ cursor' = [cursor EXCEPT ![w] = j + 1]
      BY <1>4, <2>1 DEF Pass, PopMiss
    <2>3. cursor[w] \in Nat /\ cursor[w] >= 1
      BY <2>2, ScanFinds, PositionsAreNatural
    <2>4. j + 1 >= 1
      BY <1>0
    <2>5. Popping(1)' = Popping(1)
      BY <2>2, <2>3, <2>4, <1>p, <1>p1
    <2>6. Full(1)' = Full(1)
      BY <2>2, <1>f, <1>f1
    <2> QED
      BY <2>5, <2>6, <1>u
  <1>5. CASE Take(w)
    <2>1. PICK j \in Slots : PopTake(w, j)
      BY <1>5 DEF Take
    <2>2. /\ at[w] = "scan" /\ at' = [at EXCEPT ![w] = "insert"]
          /\ items' = [items EXCEPT ![j] = Empty] /\ items[j] \in Items
          /\ cursor' = [cursor EXCEPT ![w] = 0]
      BY <1>5, <2>1 DEF Take, PopTake, IsNext, Ahead
    <2>3. cursor[w] \in Nat /\ cursor[w] >= 1
      BY <2>2, ScanFinds, PositionsAreNatural
    <2>4. Popping(1)' = Popping(1) \ {w} /\ w \in Popping(1)
      BY <2>2, <2>3, <1>p, <1>p1
    <2>5. Full(1)' = Full(1) \ {j} /\ j \in Full(1)
      BY <2>2, <1>f, <1>f1, ItemsAreItems
    <2>6. /\ Cardinality(Popping(1) \ {w}) = Cardinality(Popping(1)) - 1
          /\ Cardinality(Full(1) \ {j}) = Cardinality(Full(1)) - 1
      BY <2>4, <2>5, AheadIsFinite, FS_RemoveElement
    <2> QED
      BY <2>4, <2>5, <2>6 DEF Balanced
  <1> QED
    BY <1>1, <1>2, <1>3, <1>4, <1>5 DEF Step

LEMMA CollectOuts ==
  ASSUME WorkersTypeOK, OutsDiffer, NEW w \in Threads, NEW i \in Items, Collect(w, i), ~CameOut(i)
  PROVE  OutsDiffer' /\ \A x : CameOut(x)' <=> CameOut(x) \/ x = i
  <1> DEFINE s == out[w]
             a == Append(s, i)
  <1>1. /\ s \in Seq(Items) /\ out' = [out EXCEPT ![w] = a]
    BY DEF WorkersTypeOK, Collect
  <1>2. /\ DOMAIN a = DOMAIN s \cup {Len(s) + 1} /\ a[Len(s) + 1] = i
        /\ \A n \in DOMAIN s : a[n] = s[n]
        /\ Len(s) + 1 \notin DOMAIN s
    BY <1>1
  <1>3. out'[w] = a /\ \A v \in Threads \ {w} : out'[v] = out[v]
    BY <1>1 DEF WorkersTypeOK
  <1> HIDE DEF a
  <1>4. \A n \in DOMAIN s : s[n] # i
    BY DEF CameOut
  <1>5. OutsDiffer'
    <2> SUFFICES ASSUME NEW v \in Threads, NEW u \in Threads,
                        NEW m \in DOMAIN out'[v], NEW n \in DOMAIN out'[u],
                        out'[v][m] = out'[u][n]
                 PROVE  v = u /\ m = n
      BY DEF OutsDiffer
    <2>1. CASE m \in DOMAIN out[v] /\ n \in DOMAIN out[u]
      BY <1>2, <1>3, <2>1 DEF OutsDiffer
    <2>2. CASE m \notin DOMAIN out[v]
      <3>1. v = w /\ m = Len(s) + 1 /\ out'[v][m] = i
        BY <1>2, <1>3, <2>2
      <3>2. n \notin DOMAIN out[u]
        BY <1>2, <1>3, <3>1 DEF CameOut
      <3> QED
        BY <1>2, <1>3, <3>1, <3>2
    <2>3. CASE n \notin DOMAIN out[u]
      <3>1. u = w /\ n = Len(s) + 1 /\ out'[u][n] = i
        BY <1>2, <1>3, <2>3
      <3>2. m \notin DOMAIN out[v]
        BY <1>2, <1>3, <3>1 DEF CameOut
      <3> QED
        BY <1>2, <1>3, <3>1, <3>2
    <2> QED
      BY <2>1, <2>2, <2>3
  <1>6. ASSUME NEW x
        PROVE  CameOut(x)' <=> CameOut(x) \/ x = i
    BY <1>2, <1>3 DEF CameOut
  <1> QED
    BY <1>5, <1>6

LEMMA ClearCell ==
  ASSUME WorkersTypeOK, CellsDiffer, NEW m \in Slots, items' = [items EXCEPT ![m] = Empty]
  PROVE  CellsDiffer' /\ \A x \in Items : InCell(x)' <=> InCell(x) /\ x # items[m]
BY ItemsAreItems DEF WorkersTypeOK, CellsDiffer, InCell

LEMMA FillCell ==
  ASSUME WorkersTypeOK, CellsDiffer, NEW m \in Slots, NEW i \in Items, ~InCell(i),
         items' = [items EXCEPT ![m] = i]
  PROVE  CellsDiffer' /\ \A x \in Items : InCell(x)' <=> (InCell(x) /\ x # items[m]) \/ x = i
BY ItemsAreItems DEF WorkersTypeOK, CellsDiffer, InCell

LEMMA ItemsOnceStep ==
  ASSUME WorkersTypeOK, InPlace, ItemsOnce, NEW w \in Threads, Step(w)
  PROVE  ItemsOnce'
  <1>1. CASE Register(w) \/ StartPop(w) \/ Pass(w)
    <2>1. UNCHANGED <<next, out>>
      BY <1>1 DEF Register, StartPop, Pass
    <2>2. CellsDiffer' /\ \A x \in Items : InCell(x)' <=> InCell(x)
      <3>1. CASE items' = items
        BY <3>1 DEF ItemsOnce, CellsDiffer, InCell
      <3>2. CASE Register(w)
        <4>1. PICK k \in Slots : items[k] = Vacant /\ items' = [items EXCEPT ![k] = Empty]
          BY <3>2 DEF Register, WaitlistRegister
        <4> QED
          BY <4>1, ClearCell, ItemsAreItems DEF ItemsOnce
      <3> QED
        BY <1>1, <3>1, <3>2 DEF StartPop, PopBegin, Pass, PopMiss
    <2> QED
      BY <2>1, <2>2 DEF ItemsOnce, OutsDiffer, CameOut, Issued
  <1>2. CASE Insert(w)
    <2> DEFINE m   == mine[w]
               new == <<w, next[w]>>
    <2>1. /\ m \in Slots /\ items[m] # Vacant /\ new \in Items
          /\ items' = [items EXCEPT ![m] = new] /\ next' = [next EXCEPT ![w] = @ + 1]
      BY <1>2 DEF Insert, InPlace, WaitlistInsert, Items, WorkersTypeOK
    <2>2. ~Issued(new)
      BY DEF Issued, WorkersTypeOK
    <2>3. ~InCell(new) /\ ~CameOut(new)
      BY <2>1, <2>2 DEF ItemsOnce
    <2>4. \A x \in Items : Issued(x)' <=> Issued(x) \/ x = new
      <3> SUFFICES ASSUME NEW v \in Threads, NEW n \in 1..PerWorker
                   PROVE  (n < next'[v]) <=> (n < next[v]) \/ <<v, n>> = new
        BY DEF Items, Issued
      <3>1. next[v] \in Nat /\ n \in Nat
        BY WaitlistTestAssumption DEF WorkersTypeOK
      <3>2. CASE v = w
        <4>1. next'[v] = next[v] + 1
          BY <2>1, <3>2 DEF WorkersTypeOK
        <4> QED
          BY <3>1, <3>2, <4>1
      <3>3. CASE v # w
        <4>1. next'[v] = next[v]
          BY <2>1, <3>3 DEF WorkersTypeOK
        <4> QED
          BY <3>3, <4>1
      <3> QED
        BY <3>2, <3>3
    <2>5. CellsDiffer' /\ \A x \in Items : InCell(x)' <=> (InCell(x) /\ x # items[m]) \/ x = new
      BY <2>1, <2>3, FillCell DEF ItemsOnce
    <2>6. CASE items[m] = Empty
      <3>1. out' = out
        BY <1>2, <2>6 DEF Insert
      <3>2. OutsDiffer' /\ \A x : CameOut(x)' <=> CameOut(x)
        BY <3>1 DEF ItemsOnce, OutsDiffer, CameOut
      <3>3. \A x \in Items : x # items[m]
        BY <2>6, ItemsAreItems
      <3> QED
        BY <2>3, <2>4, <2>5, <3>2, <3>3 DEF ItemsOnce
    <2>7. CASE items[m] # Empty
      <3> DEFINE old == items[m]
      <3>1. old \in Items /\ InCell(old) /\ Collect(w, old)
        BY <1>2, <2>1, <2>7 DEF Insert, InCell, WorkersTypeOK
      <3>2. ~CameOut(old) /\ old # new
        BY <2>3, <3>1 DEF ItemsOnce
      <3>3. OutsDiffer' /\ \A x : CameOut(x)' <=> CameOut(x) \/ x = old
        BY <3>1, <3>2, CollectOuts DEF ItemsOnce
      <3> HIDE DEF old
      <3>4. \A x \in Items : InCell(x)' <=> (InCell(x) /\ x # old) \/ x = new
        BY <2>5 DEF old
      <3> HIDE DEF new
      <3> QED
        BY <2>3, <2>4, <2>5, <3>1, <3>2, <3>3, <3>4 DEF ItemsOnce
    <2> QED
      BY <2>6, <2>7
  <1>3. CASE Take(w)
    <2>1. PICK j \in Slots : PopTake(w, j) /\ Collect(w, items[j])
      BY <1>3 DEF Take
    <2> DEFINE old == items[j]
    <2>2. old \in Items /\ InCell(old) /\ items' = [items EXCEPT ![j] = Empty] /\ next' = next
      BY <1>3, <2>1 DEF Take, PopTake, IsNext, Ahead, InCell, WorkersTypeOK
    <2>3. ~CameOut(old)
      BY <2>2 DEF ItemsOnce
    <2>4. OutsDiffer' /\ \A x : CameOut(x)' <=> CameOut(x) \/ x = old
      BY <2>1, <2>2, <2>3, CollectOuts DEF ItemsOnce
    <2>5. CellsDiffer' /\ \A x \in Items : InCell(x)' <=> InCell(x) /\ x # old
      BY <2>2, ClearCell DEF ItemsOnce
    <2>6. \A x : Issued(x)' <=> Issued(x)
      BY <2>2 DEF Issued
    <2> HIDE DEF old
    <2> QED
      BY <2>2, <2>3, <2>4, <2>5, <2>6 DEF ItemsOnce
  <1> QED
    BY <1>1, <1>2, <1>3 DEF Step

LEMMA AlwaysOnce == Spec => [](IInv /\ Balanced /\ ItemsOnce)
  <1>1. Init => Balanced /\ ItemsOnce
    <2> SUFFICES ASSUME Init PROVE Balanced /\ ItemsOnce
      OBVIOUS
    <2>1. Popping(1) = {} /\ Full(1) = {}
      BY ItemsAreItems DEF Init, WaitlistInit, Popping, Full
    <2>2. CellsDiffer /\ \A i \in Items : ~InCell(i)
      BY ItemsAreItems DEF Init, WaitlistInit, CellsDiffer, InCell
    <2>3. OutsDiffer /\ \A i \in Items : ~CameOut(i)
      BY DEF Init, OutsDiffer, CameOut
    <2>4. \A i \in Items : ~Issued(i)
      BY WaitlistTestAssumption DEF Init, Issued, Items
    <2> QED
      BY <2>1, <2>2, <2>3, <2>4 DEF Balanced, ItemsOnce
  <1>2. IInv /\ Balanced /\ ItemsOnce /\ [Next]_vars => Balanced' /\ ItemsOnce'
    <2> SUFFICES ASSUME IInv, Balanced, ItemsOnce, [Next]_vars
                 PROVE  Balanced' /\ ItemsOnce'
      OBVIOUS
    <2>1. CASE UNCHANGED vars
      BY <2>1
      DEF vars, Balanced, Full, Popping, ItemsOnce, CellsDiffer, OutsDiffer, Issued, InCell,
          CameOut
    <2> QED
      BY <2>1, BalancedStep, ItemsOnceStep DEF IInv, Next
  <1> QED
    BY <1>1, <1>2, AlwaysIInv, PTL DEF Spec

\* A worker has room in its list for no more items than there are.
LEMMA OutIsShort ==
  ASSUME WorkersTypeOK, OutsDiffer, NEW w \in Threads
  PROVE  DOMAIN out[w] \subseteq 1..Cardinality(Items)
  <1> DEFINE s == out[w]
  <1>1. s \in Seq(Items) /\ Len(s) \in Nat /\ DOMAIN s = 1..Len(s)
    BY DEF WorkersTypeOK
  <1>2. s \in [1..Len(s) -> Items]
    BY <1>1
  <1>3. \A m, n \in 1..Len(s) : m # n => s[m] # s[n]
    BY <1>1 DEF OutsDiffer
  <1>4. IsFiniteSet(Items) /\ Cardinality(Items) \in Nat
    <2>1. IsFiniteSet(1..PerWorker)
      BY FS_Interval, WaitlistTestAssumption
    <2> QED
      BY <2>1, FS_Product, FS_CardinalityType, WaitlistTestAssumption DEF Items
  <1>5. IsFiniteSet(1..Len(s)) /\ Cardinality(1..Len(s)) = Len(s)
    BY <1>1, FS_Interval
  <1>6. ~(Cardinality(Items) < Len(s))
    BY <1>2, <1>3, <1>4, <1>5, FS_PigeonHole
  <1> QED
    BY <1>1, <1>4, <1>6

\* The assertion of waitlist_is_linearizable: when all workers are done, each item
\* has come out exactly once, for any number of workers, items and slots.
THEOREM ItemsReturned == Spec => []AllItemsReturned
  <1>1. IInv /\ Balanced /\ ItemsOnce => AllItemsReturned
    <2> SUFFICES ASSUME IInv, Balanced, ItemsOnce, AllDone, NEW i \in Items
                 PROVE  TimesOut(i) = 1
      BY DEF AllItemsReturned
    <2>1. Popping(1) = {}
      BY DEF AllDone, Popping
    <2>2. Full(1) = {}
      BY <2>1, AheadIsFinite, FS_EmptySet DEF Balanced
    <2>3. ~InCell(i)
      BY <2>2, SlotsArePositive DEF InCell, Full
    <2>4. Issued(i)
      BY WaitlistTestAssumption DEF AllDone, Issued, Items, IInv, WorkersTypeOK
    <2>w. PICK w \in Threads : \E n \in DOMAIN out[w] : out[w][n] = i
      BY <2>3, <2>4 DEF ItemsOnce, CameOut
    <2>5. PICK n \in DOMAIN out[w] : out[w][n] = i
      BY <2>w
    <2>6. n \in 1..Cardinality(Items)
      BY OutIsShort DEF IInv, ItemsOnce
    <2> DEFINE places == {p \in Threads \X (1..Cardinality(Items)) :
                            p[2] \in DOMAIN out[p[1]] /\ out[p[1]][p[2]] = i}
    <2>7. <<w, n>> \in places
      BY <2>5, <2>6
    <2>8. \A p \in places : p = <<w, n>>
      BY <2>5 DEF ItemsOnce, OutsDiffer
    <2>9. places = {<<w, n>>}
      BY <2>7, <2>8
    <2> QED
      BY <2>9, FS_Singleton DEF TimesOut
  <1> QED
    BY <1>1, AlwaysOnce, PTL

=============================================================================
