---------------------------- MODULE WaitlistTest ----------------------------
(***************************************************************************)
(* The waitlist under waitlist_is_linearizable, its test: every worker     *)
(* registers a slot and inserts its items there, one after the other.      *)
(* After each it takes one item out: the one it has displaced, if any,     *)
(* otherwise whatever a pop finds.                                         *)
(***************************************************************************)
EXTENDS Waitlist, FiniteSets, Sequences

CONSTANT PerWorker   \* the items each worker inserts

Items == Threads \X (1..PerWorker)

ASSUME WaitlistTestAssumption ==
  /\ PerWorker \in Nat
  /\ IsFiniteSet(Threads) /\ IsFiniteSet(Slots)
  /\ Empty \notin Items /\ Vacant \notin Items

\* Where a scan may stand: before a slot, or past the last one.
Positions == {1} \cup {k + 1 : k \in Slots}

VARIABLES
  at,      \* the next step of each worker
  mine,    \* the slot it has registered; 0 before
  next,    \* the number of its next item
  out      \* the items it has taken out, in order

vars == <<items, cursor, at, mine, next, out>>

\* The slots hold items of the test; a scan stands before a slot or past the
\* last, and no worker runs out of its items.
WorkersTypeOK ==
  /\ items \in [Slots -> Items \cup {Empty, Vacant}]
  /\ cursor \in [Threads -> Positions \cup {0}]
  /\ at \in [Threads -> {"register", "insert", "pop", "scan"}]
  /\ mine \in [Threads -> Slots \cup {0}]
  /\ next \in [Threads -> 1..PerWorker + 1]
  /\ out \in [Threads -> Seq(Items)]

Init ==
  /\ WaitlistInit({})
  /\ at = [w \in Threads |-> "register"]
  /\ mine = [w \in Threads |-> 0]
  /\ next = [w \in Threads |-> 1]
  /\ out = [w \in Threads |-> <<>>]

-----------------------------------------------------------------------------

Goto(w, step) == at' = [at EXCEPT ![w] = step]

Collect(w, item) == out' = [out EXCEPT ![w] = Append(@, item)]

Register(w) ==
  /\ at[w] = "register"
  /\ \E k \in Slots : WaitlistRegister(k) /\ mine' = [mine EXCEPT ![w] = k]
  /\ Goto(w, "insert")
  /\ UNCHANGED <<next, out>>

\* Mutant: the displaced item is taken out, and then another.
InsertAndPop(w) ==
  /\ at[w] = "insert" /\ next[w] <= PerWorker
  /\ WaitlistInsert(mine[w], <<w, next[w]>>)
  /\ next' = [next EXCEPT ![w] = @ + 1]
  /\ Goto(w, "pop")
  /\ UNCHANGED <<mine, out>>

\* insert returns the item it has displaced.
Insert(w) ==
  /\ at[w] = "insert" /\ next[w] <= PerWorker
  /\ WaitlistInsert(mine[w], <<w, next[w]>>)
  /\ next' = [next EXCEPT ![w] = @ + 1]
  /\ IF items[mine[w]] = Empty
       THEN Goto(w, "pop") /\ UNCHANGED out
       ELSE Collect(w, items[mine[w]]) /\ UNCHANGED at
  /\ UNCHANGED mine

StartPop(w) ==
  /\ at[w] = "pop"
  /\ PopBegin(w)
  /\ Goto(w, "scan")
  /\ UNCHANGED <<mine, next, out>>

Pass(w) ==
  /\ at[w] = "scan"
  /\ \E k \in Slots : PopMiss(w, k)
  /\ UNCHANGED <<at, mine, next, out>>

\* Mutant: a take that leaves the item in its cell.
TakeACopy(w) ==
  /\ at[w] = "scan"
  /\ \E k \in Slots :
       /\ IsNext(w, k) /\ items[k] # Empty
       /\ Collect(w, items[k])
  /\ cursor' = [cursor EXCEPT ![w] = 0]
  /\ Goto(w, "insert")
  /\ UNCHANGED <<items, mine, next>>

Take(w) ==
  /\ at[w] = "scan"
  /\ \E k \in Slots : PopTake(w, k) /\ Collect(w, items[k])
  /\ Goto(w, "insert")
  /\ UNCHANGED <<mine, next>>

\* A pop that finds nothing is no step here: PopsSucceed says that there is
\* none, and the run, which checks for deadlock, that nobody is stuck in one.
Step(w) ==
  Register(w) \/ Insert(w) \/ StartPop(w) \/ Pass(w) \/ Take(w)

AllDone == \A w \in Threads : at[w] = "insert" /\ next[w] > PerWorker

Next == (\E w \in Threads : Step(w)) \/ (AllDone /\ UNCHANGED vars)

Spec == Init /\ [][Next]_vars

-----------------------------------------------------------------------------
\* Properties.

Full(k)    == {j \in Slots : j >= k /\ items[j] \in Items}
Popping(k) == {w \in Threads : \/ at[w] = "pop" /\ k <= 1
                               \/ at[w] = "scan" /\ cursor[w] >= k}

\* Workers that have registered have a slot, and those that pop a position.
InPlace ==
  \A w \in Threads :
    /\ at[w] # "register" => mine[w] \in Slots /\ items[mine[w]] # Vacant
    /\ at[w] = "scan" => cursor[w] # 0

\* The slots from any position on hold at least as many items as there are pops
\* that have still to visit them, although items come and go ahead of the pops
\* and behind them while they scan.
EnoughAhead ==
  \A k \in Positions : Cardinality(Popping(k)) <= Cardinality(Full(k))

\* What makes the pop's scan sound, one slot at a time and under a lock that it
\* shares with insert and other pops: a pop made on behalf of an item that was
\* inserted never ends with nothing.
PopsSucceed ==
  \A w \in Threads : at[w] = "scan" => \E k \in Ahead(w) : items[k] # Empty

TimesOut(i) ==
  Cardinality({p \in Threads \X (1..Cardinality(Items)) :
                 p[2] \in DOMAIN out[p[1]] /\ out[p[1]][p[2]] = i})

\* The assertion of the test: all items have come out, once each.
AllItemsReturned == AllDone => \A i \in Items : TimesOut(i) = 1

=============================================================================
