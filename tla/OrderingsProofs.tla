--------------------------- MODULE OrderingsProofs ---------------------------
(***************************************************************************)
(* What the memory orderings of channel.rs give, for any threads and any   *)
(* starts of Orderings: the thread that frees the control block comes      *)
(* after every access to it, and a receiver that reports the end of the    *)
(* channel has left no message behind.                                     *)
(***************************************************************************)
EXTENDS Orderings, FiniteSetTheorems, TLAPS

Values == Int \cup BOOLEAN
Views  == [Clocks -> Nat]
Steps  == {"idle", "unborn", "absent", "push", "fence", "scan", "hangup scan",
           "leave scan", "swap", "leave", "pop", "repop", "remove", "closed", "insert",
           "parked", "barrier", "reload", "over", "hangup", "gone", "free"}

MemTypes ==
  /\ mem \in [Locations -> Seq([val : Values, view : Views])]
  /\ \A l \in Locations : mem[l] # <<>>
  /\ view \in [Threads -> Views]
  /\ fences \in Views

CallTypes ==
  /\ pc \in [Threads -> Steps]
  /\ ahead \in [Threads -> SUBSET Rx]
  /\ hungup \in [Rx -> BOOLEAN]
  /\ woken \in [Rx -> Seq(Views)]

\* No view is ahead of what was written: the values of a location, the writes
\* of a thread.
Limit(c)   == IF c \in Locations THEN Len(mem[c]) ELSE view[c][c]
Bounded(v) == \A c \in Clocks : v[c] <= Limit(c)

MemBounded ==
  /\ \A l \in Locations : \A i \in DOMAIN mem[l] : Bounded(mem[l][i].view)
  /\ \A t \in Threads : Bounded(view[t])
  /\ Bounded(fences)

WakesBounded == \A r \in Rx : \A i \in DOMAIN woken[r] : Bounded(woken[r][i])

\* The buffer has a length.
Lengths == \A i \in DOMAIN mem[Buffer] : mem[Buffer][i].val \in Nat

\* A thread that was not there yet has written nothing.
NothingWritten == \A u \in Threads : pc[u] \in {"absent", "unborn"} => view[u][u] = 0

Tidy     == MemTypes /\ MemBounded
Sound    == Tidy /\ CallTypes /\ WakesBounded /\ Lengths /\ NothingWritten

-----------------------------------------------------------------------------
\* The endpoints that a count stands for, and what is known of the others.

Ends       == {Senders, Receivers}
Side(c)    == IF c = Senders THEN Tx ELSE Rx
Closing    == {"hangup", "hangup scan", "swap"}
Counted(t) == pc[t] \notin Out \cup Closing \cup {"free"}
OnSide(c)  == {t \in Side(c) : Counted(t)}

\* The side of c has left, and v comes after all it did.
Left(c, v) == \A u \in Side(c) : pc[u] \in Out /\ v[u] = view[u][u]

CountsRight == \A c \in Ends : Latest(c) = Cardinality(OnSide(c))

\* While some endpoint of a side is counted, its count releases what the ones
\* did that left.
LeaversKnown == \A c \in Ends :
  OnSide(c) # {} => \A u \in Side(c) : \/ Counted(u)
                                       \/ pc[u] \in Out /\ Final(c).view[u] = view[u][u]

\* The last one of a side is alone, and comes after all the others did.
LastKnows == \A t \in Threads :
  pc[t] \in Closing \cup {"free"} =>
    \A u \in Side(Count(t)) : (u = t \/ pc[u] \in Out) /\ view[t][u] = view[u][u]

SwapKnown == ~Latest(Connected) => \E c \in Ends : Left(c, Final(Connected).view)

FreeKnows == \A t \in Threads :
  pc[t] = "free" => \E c \in Ends : c # Count(t) /\ Left(c, view[t])

Departures == CountsRight /\ LeaversKnown /\ LastKnows /\ SwapKnown /\ FreeKnows

-----------------------------------------------------------------------------
\* What the operations on memory do to the views.

\* Every operation of t leaves the other threads' views alone, and t only
\* learns.
Moves(t) ==
  /\ Tidy'
  /\ \A u \in Threads \ {t} : view'[u] = view[u]
  /\ \A c \in Clocks : view[t][c] <= view'[t][c] /\ Limit(c) <= Limit(c)'

\* One that writes to no count and not to the flag leaves its clock alone.
Quiet(t) ==
  /\ Moves(t)
  /\ view'[t][t] = view[t][t]
  /\ \A l \in {Senders, Receivers, Connected} : mem'[l] = mem[l]

LEMMA Names ==
  /\ \A r \in Rx : r \in Threads /\ Slot(r) \in Locations
  /\ \A t \in Tx : t \in Threads
  /\ \A l \in {Senders, Receivers, Connected, Buffer} : l \in Locations
  /\ \A l \in Locations : l \in Clocks /\ l \notin Threads
  /\ \A t \in Threads : t \in Clocks /\ t \notin Locations
  /\ \A r \in Rx : Slot(r) \notin {Senders, Receivers, Connected, Buffer}
  /\ Senders # Receivers /\ Senders # Connected /\ Receivers # Connected
  /\ Buffer # Senders /\ Buffer # Receivers /\ Buffer # Connected
BY OrderingsAssumption DEF Threads, Locations, Clocks

LEMMA Joined ==
  ASSUME NEW v \in Views, NEW w \in Views
  PROVE  /\ Join(v, w) \in Views
         /\ \A c \in Clocks : /\ v[c] <= Join(v, w)[c] /\ w[c] <= Join(v, w)[c]
                              /\ Join(v, w)[c] \in {v[c], w[c]}
<1>1. \A c \in Clocks : v[c] \in Nat /\ w[c] \in Nat
  BY DEF Views
<1>2. \A c \in Clocks : Join(v, w)[c] = IF v[c] >= w[c] THEN v[c] ELSE w[c]
  BY DEF Join
<1>3. Join(v, w) \in Views
  BY <1>1 DEF Join, Views
<1> QED
  BY <1>1, <1>2, <1>3

LEMMA Recorded ==
  ASSUME MemTypes, NEW l \in Locations
  PROVE  /\ Len(mem[l]) \in Nat \ {0} /\ DOMAIN mem[l] = 1..Len(mem[l])
         /\ \A i \in DOMAIN mem[l] : mem[l][i].view \in Views /\ mem[l][i].val \in Values
         /\ Final(l).view \in Views /\ Latest(l) \in Values
<1> DEFINE entries == [val : Values, view : Views]
<1>1. mem[l] \in Seq(entries) /\ mem[l] # <<>>
  BY DEF MemTypes
<1> HIDE DEF entries
<1>2. Len(mem[l]) \in Nat \ {0} /\ DOMAIN mem[l] = 1..Len(mem[l])
  BY <1>1
<1>3. \A i \in DOMAIN mem[l] : mem[l][i] \in entries
  BY <1>1, <1>2
<1> USE DEF entries
<1> QED
  BY <1>2, <1>3 DEF Final, Latest

LEMMA Limits ==
  MemTypes => \A c \in Clocks : Limit(c) \in Nat
<1> SUFFICES ASSUME MemTypes, NEW c \in Clocks PROVE Limit(c) \in Nat
  OBVIOUS
<1>1. CASE c \in Locations
  BY <1>1, Recorded DEF Limit
<1>2. CASE c \notin Locations
  <2>1. c \in Threads
    BY <1>2 DEF Clocks
  <2>2. view[c][c] \in Nat
    BY <2>1 DEF MemTypes, Views
  <2> QED
    BY <1>2, <2>2 DEF Limit
<1> QED
  BY <1>1, <1>2

LEMMA LimitsNext == MemTypes' => (\A c \in Clocks : Limit(c) \in Nat)'
BY Limits, PTL

LEMMA StaysBounded ==
  ASSUME MemTypes, MemTypes', NEW v \in Views, Bounded(v),
         \A c \in Clocks : Limit(c) <= Limit(c)'
  PROVE  \A c \in Clocks : v[c] <= Limit(c)'
<1>1. \A c \in Clocks : Limit(c) \in Nat
  BY Limits
<1>2. \A c \in Clocks : Limit(c)' \in Nat
  BY LimitsNext
<1>3. \A c \in Clocks : v[c] \in Nat
  BY DEF Views
<1> QED
  BY <1>1, <1>2, <1>3 DEF Bounded

\* A thread that writes nothing raises its view to one that is bounded.
LEMMA Raised ==
  ASSUME Tidy, NEW t \in Threads, NEW v \in Views, Bounded(v),
         \A c \in Clocks : view[t][c] <= v[c],
         mem' = mem, view' = [view EXCEPT ![t] = v], fences' \in {fences, v}
  PROVE  Quiet(t)
<1>1. MemTypes'
  BY DEF Tidy, MemTypes
<1>2. view \in [Threads -> Views] /\ t \in Clocks /\ t \notin Locations
  BY Names DEF Tidy, MemTypes
<1>3. v[t] = view[t][t]
  <2>1. v[t] \in Nat /\ view[t][t] \in Nat
    BY <1>2 DEF Views
  <2>2. v[t] <= view[t][t]
    BY <1>2 DEF Bounded, Limit
  <2>3. view[t][t] <= v[t]
    BY <1>2
  <2> QED
    BY <2>1, <2>2, <2>3
<1>4. \A c \in Threads : view'[c][c] = view[c][c]
  BY <1>2, <1>3
<1>5. \A c \in Clocks : Limit(c)' = Limit(c)
  BY <1>4 DEF Limit, Clocks
<1>7. MemBounded'
  <2>1. \A l \in Locations : \A i \in DOMAIN mem[l] : \A c \in Clocks :
          mem[l][i].view[c] <= Limit(c)'
    BY <1>5 DEF Tidy, MemBounded, Bounded
  <2>2. \A u \in Threads : \A c \in Clocks : view'[u][c] <= Limit(c)'
    BY <1>2, <1>5 DEF Tidy, MemBounded, Bounded
  <2>3. \A c \in Clocks : fences'[c] <= Limit(c)'
    BY <1>5 DEF Tidy, MemBounded, Bounded
  <2> QED
    BY <2>1, <2>2, <2>3 DEF MemBounded, Bounded
<1>8. \A c \in Clocks : Limit(c) <= Limit(c)'
  BY <1>5, Limits DEF Tidy
<1>9. \A c \in Clocks : view[t][c] <= view'[t][c]
  BY <1>2
<1> QED
  BY <1>1, <1>2, <1>4, <1>7, <1>8, <1>9 DEF Quiet, Moves, Tidy

LEMMA JoinBounded ==
  ASSUME NEW v \in Views, NEW w \in Views, Bounded(v), Bounded(w)
  PROVE  Bounded(Join(v, w))
BY Joined DEF Bounded

\* Reading location l at index i.
LEMMA SeenTidy ==
  ASSUME Tidy, NEW t \in Threads, NEW l \in Locations, NEW i \in view[t][l]..Len(mem[l])
  PROVE  /\ Seen(t, l, i) \in Views /\ Bounded(Seen(t, l, i))
         /\ \A c \in Clocks : view[t][c] <= Seen(t, l, i)[c]
<1>1. view[t] \in Views /\ l \in Clocks /\ Bounded(view[t])
  BY Names DEF Tidy, MemTypes, MemBounded
<1>2. view[t][l] \in Nat /\ Len(mem[l]) \in Nat /\ i \in Nat
  BY <1>1, Recorded DEF Views, Tidy
<1>3. Seen(t, l, i) = [view[t] EXCEPT ![l] = i]
  BY DEF Seen
<1>4. \A c \in Clocks : Seen(t, l, i)[c] = IF c = l THEN i ELSE view[t][c]
  BY <1>1, <1>3 DEF Views
<1>5. Seen(t, l, i) \in Views
  BY <1>1, <1>2, <1>3 DEF Views
<1>6. Bounded(Seen(t, l, i))
  BY <1>1, <1>2, <1>4 DEF Bounded, Limit
<1>7. \A c \in Clocks : view[t][c] \in Nat
  BY <1>1 DEF Views
<1> QED
  BY <1>2, <1>4, <1>5, <1>6, <1>7

LEMMA Acquired ==
  ASSUME Tidy, NEW t \in Threads, NEW l \in Locations, NEW i \in DOMAIN mem[l],
         Acquire(t, l, i)
  PROVE  /\ Quiet(t) /\ mem' = mem
         /\ \A c \in Clocks : mem[l][i].view[c] <= view'[t][c]
         /\ i <= view'[t][l]
<1> DEFINE w == mem[l][i].view
           v == Join(Seen(t, l, i), w)
<1>1. /\ i \in view[t][l]..Len(mem[l]) /\ mem' = mem /\ fences' = fences
      /\ view' = [view EXCEPT ![t] = v]
  BY DEF Acquire
<1>2. w \in Views /\ Bounded(w) /\ view \in [Threads -> Views] /\ view[t] \in Views
  BY Recorded DEF Tidy, MemTypes, MemBounded
<1>3. /\ Seen(t, l, i) \in Views /\ Bounded(Seen(t, l, i))
      /\ \A c \in Clocks : view[t][c] <= Seen(t, l, i)[c]
  BY <1>1, SeenTidy
<1>4. v \in Views /\ Bounded(v)
  BY <1>2, <1>3, Joined, JoinBounded
<1>5. \A c \in Clocks : Seen(t, l, i)[c] <= v[c] /\ w[c] <= v[c]
  BY <1>2, <1>3, Joined
<1>6. \A c \in Clocks : view[t][c] <= v[c]
  <2> HIDE DEF v
  <2> QED
    BY <1>2, <1>3, <1>4, <1>5 DEF Views
<1>7. Quiet(t)
  <2> HIDE DEF v
  <2> QED
    BY <1>1, <1>4, <1>6, Raised
<1>8. view'[t] = v
  BY <1>1, <1>2
<1>9. i <= view'[t][l]
  <2>1. Seen(t, l, i)[l] = i /\ l \in Clocks
    BY <1>2, Names DEF Seen, Views
  <2> QED
    BY <1>5, <1>8, <2>1
<1> QED
  BY <1>1, <1>5, <1>7, <1>8, <1>9

LEMMA Fenced ==
  ASSUME Tidy, NEW t \in Threads, SeqCst(t)
  PROVE  Quiet(t) /\ mem' = mem
<1> DEFINE v == Join(view[t], fences)
<1>1. view \in [Threads -> Views] /\ view[t] \in Views /\ fences \in Views
  BY DEF Tidy, MemTypes
<1>2. mem' = mem /\ view' = [view EXCEPT ![t] = v] /\ fences' = v
  BY <1>1 DEF SeqCst
<1>3. v \in Views /\ Bounded(v) /\ \A c \in Clocks : view[t][c] <= v[c]
  BY <1>1, Joined, JoinBounded DEF Tidy, MemBounded
<1> HIDE DEF v
<1> QED
  BY <1>2, <1>3, Raised

\* Writing location l.
LEMMA Grown ==
  ASSUME MemTypes, NEW l \in Locations, NEW e \in [val : Values, view : Views],
         mem' = [mem EXCEPT ![l] = Append(@, e)]
  PROVE  /\ mem' \in [Locations -> Seq([val : Values, view : Views])]
         /\ \A k \in Locations : mem'[k] # <<>>
         /\ Len(mem'[l]) = Len(mem[l]) + 1 /\ DOMAIN mem'[l] = 1..Len(mem[l]) + 1
         /\ \A i \in DOMAIN mem[l] : mem'[l][i] = mem[l][i]
         /\ mem'[l][Len(mem[l]) + 1] = e /\ Final(l)' = e
         /\ \A k \in Locations \ {l} : mem'[k] = mem[k] /\ Final(k)' = Final(k)
<1> DEFINE entries == [val : Values, view : Views]
<1>1. mem \in [Locations -> Seq(entries)] /\ e \in entries
      /\ \A k \in Locations : mem[k] # <<>>
  BY DEF MemTypes
<1> HIDE DEF entries
<1>2. mem'[l] = Append(mem[l], e) /\ \A k \in Locations \ {l} : mem'[k] = mem[k]
  BY <1>1
<1>3. mem' \in [Locations -> Seq(entries)]
  BY <1>1
<1>4. /\ Len(mem'[l]) = Len(mem[l]) + 1 /\ DOMAIN mem'[l] = 1..Len(mem[l]) + 1
      /\ \A i \in DOMAIN mem[l] : mem'[l][i] = mem[l][i]
      /\ mem'[l][Len(mem[l]) + 1] = e /\ mem'[l] # <<>>
  BY <1>1, <1>2
<1>5. \A k \in Locations : mem'[k] # <<>>
  BY <1>1, <1>2, <1>4
<1>6. Final(l)' = e /\ \A k \in Locations \ {l} : Final(k)' = Final(k)
  BY <1>2, <1>4 DEF Final
<1> USE DEF entries
<1> QED
  BY <1>2, <1>3, <1>4, <1>5, <1>6

LEMMA WrittenTidy ==
  ASSUME Tidy, NEW t \in Threads, NEW l \in Locations
  PROVE  /\ Written(t, l) \in Views /\ Written(t, l)[l] = Len(mem[l]) + 1
         /\ Written(t, l)[t] \in Nat /\ view[t][t] <= Written(t, l)[t]
         /\ (l \notin {Senders, Receivers, Connected} => Written(t, l)[t] = view[t][t])
         /\ \A c \in Clocks \ {t, l} : Written(t, l)[c] = view[t][c]
         /\ \A c \in Clocks : view[t][c] <= Written(t, l)[c]
<1>1. view[t] \in Views /\ l \in Clocks /\ t \in Clocks /\ l # t /\ Bounded(view[t])
  BY Names DEF Tidy, MemTypes, MemBounded
<1>2. Len(mem[l]) \in Nat /\ view[t][l] <= Len(mem[l]) /\ \A c \in Clocks : view[t][c] \in Nat
  BY <1>1, Recorded DEF Views, Tidy, Bounded, Limit
<1>3. Written(t, l) = [view[t] EXCEPT
        ![l] = Len(mem[l]) + 1,
        ![t] = IF l \in {Senders, Receivers, Connected} THEN @ + 1 ELSE @]
  BY DEF Written
<1>4. /\ Written(t, l)[l] = Len(mem[l]) + 1
      /\ Written(t, l)[t] = IF l \in {Senders, Receivers, Connected} THEN view[t][t] + 1
                                                                     ELSE view[t][t]
      /\ \A c \in Clocks \ {t, l} : Written(t, l)[c] = view[t][c]
  BY <1>1, <1>3 DEF Views
<1>5. Written(t, l) \in Views
  BY <1>1, <1>2, <1>3 DEF Views
<1> QED
  BY <1>1, <1>2, <1>4, <1>5

LEMMA EntryBounded ==
  ASSUME Tidy, MemTypes', NEW l \in Locations, NEW e \in [val : Values, view : Views],
         mem' = [mem EXCEPT ![l] = Append(@, e)], fences' = fences,
         \A c \in Clocks : Limit(c) <= Limit(c)',
         \A c \in Clocks : e.view[c] <= Limit(c)',
         \A u \in Threads : \A c \in Clocks : view'[u][c] <= Limit(c)'
  PROVE  MemBounded'
<1>1. \A x \in Views : Bounded(x) => \A c \in Clocks : x[c] <= Limit(c)'
  BY StaysBounded DEF Tidy
<1>2. MemTypes
  BY DEF Tidy
<1>3. \A k \in Locations : \A i \in DOMAIN mem'[k] : \A c \in Clocks :
        mem'[k][i].view[c] <= Limit(c)'
  <2> SUFFICES ASSUME NEW k \in Locations, NEW i \in DOMAIN mem'[k], NEW c \in Clocks
               PROVE  mem'[k][i].view[c] <= Limit(c)'
    OBVIOUS
  <2>1. CASE k = l /\ i = Len(mem[l]) + 1
    BY <1>2, <2>1, Grown
  <2>2. CASE ~(k = l /\ i = Len(mem[l]) + 1)
    <3>1. i \in DOMAIN mem[k] /\ mem'[k][i] = mem[k][i]
      BY <1>2, <2>2, Grown, Recorded
    <3>2. mem[k][i].view \in Views /\ Bounded(mem[k][i].view)
      BY <1>2, <3>1, Recorded DEF Tidy, MemBounded
    <3> QED
      BY <1>1, <3>1, <3>2
  <2> QED
    BY <2>1, <2>2
<1>4. \A c \in Clocks : fences'[c] <= Limit(c)'
  BY <1>1 DEF Tidy, MemTypes, MemBounded
<1> QED
  BY <1>3, <1>4 DEF MemBounded, Bounded

LEMMA Wrote ==
  ASSUME Tidy, NEW t \in Threads, NEW l \in Locations, NEW value \in Values,
         AcqRel(t, l, value)
  PROVE  /\ Moves(t)
         /\ l \notin {Senders, Receivers, Connected} => Quiet(t)
         /\ \A k \in Locations \ {l} : mem'[k] = mem[k] /\ Final(k)' = Final(k)
         /\ Final(l)' = [val |-> value, view |-> view'[t]]
         /\ \A c \in Clocks : Final(l).view[c] <= view'[t][c]
         /\ Len(mem'[l]) = Len(mem[l]) + 1 /\ DOMAIN mem'[l] = 1..Len(mem[l]) + 1
         /\ \A i \in DOMAIN mem[l] : mem'[l][i] = mem[l][i]
         /\ mem'[l][Len(mem[l]) + 1] = [val |-> value, view |-> view'[t]]
         /\ view'[t][l] = Len(mem[l]) + 1
<1> DEFINE w == Written(t, l)
           F == Final(l).view
           v == Join(w, F)
           e == [val |-> value, view |-> v]
<1>1. mem' = [mem EXCEPT ![l] = Append(@, e)] /\ view' = [view EXCEPT ![t] = v]
      /\ fences' = fences
  BY DEF AcqRel
<1>2. /\ view \in [Threads -> Views] /\ l \in Clocks /\ t \in Clocks /\ l # t
      /\ view[t] \in Views /\ F \in Views /\ MemTypes
  BY Names, Recorded DEF Tidy, MemTypes
<1>3. Bounded(F) /\ Len(mem[l]) \in Nat /\ \A c \in Clocks : Limit(c) \in Nat
  BY <1>2, Recorded, Limits DEF Tidy, MemBounded, Final
<1>4. /\ w \in Views /\ w[l] = Len(mem[l]) + 1 /\ view[t][t] <= w[t]
      /\ (l \notin {Senders, Receivers, Connected} => w[t] = view[t][t])
      /\ \A c \in Clocks \ {t, l} : w[c] = view[t][c]
      /\ \A c \in Clocks : view[t][c] <= w[c]
  BY WrittenTidy
<1>5. v \in Views /\ \A c \in Clocks : w[c] <= v[c] /\ F[c] <= v[c] /\ v[c] \in {w[c], F[c]}
  BY <1>2, <1>4, Joined
<1> HIDE DEF w, F, v
<1>6. e \in [val : Values, view : Views]
  BY <1>5
<1> HIDE DEF e
<1>7. /\ mem' \in [Locations -> Seq([val : Values, view : Views])]
      /\ \A k \in Locations : mem'[k] # <<>>
      /\ Len(mem'[l]) = Len(mem[l]) + 1 /\ DOMAIN mem'[l] = 1..Len(mem[l]) + 1
      /\ \A i \in DOMAIN mem[l] : mem'[l][i] = mem[l][i]
      /\ mem'[l][Len(mem[l]) + 1] = e /\ Final(l)' = e
      /\ \A k \in Locations \ {l} : mem'[k] = mem[k] /\ Final(k)' = Final(k)
  BY <1>1, <1>2, <1>6, Grown
<1>8. view'[t] = v /\ \A u \in Threads \ {t} : view'[u] = view[u]
  BY <1>1, <1>2
<1>9. MemTypes'
  BY <1>1, <1>2, <1>5, <1>7 DEF MemTypes
<1>10. /\ F[t] <= view[t][t] /\ F[l] <= Len(mem[l])
       /\ \A c \in Clocks : F[c] \in Nat /\ w[c] \in Nat /\ view[t][c] \in Nat
  BY <1>2, <1>3, <1>4, Names DEF Bounded, Limit, Views
<1>11. v[t] = w[t] /\ v[l] = Len(mem[l]) + 1
  <2>1. w[t] <= v[t] /\ v[t] \in {w[t], F[t]} /\ F[t] <= w[t]
    BY <1>2, <1>4, <1>5, <1>10
  <2>2. w[l] <= v[l] /\ v[l] \in {w[l], F[l]}
    BY <1>2, <1>5
  <2> QED
    BY <1>2, <1>3, <1>4, <1>10, <2>1, <2>2
<1>12. \A c \in Clocks : view[t][c] <= v[c]
  BY <1>4, <1>5, <1>10 DEF Views
<1>13. /\ \A c \in Clocks \ {t, l} : Limit(c)' = Limit(c)
       /\ Limit(l)' = Len(mem[l]) + 1 /\ Limit(t)' = v[t]
  BY <1>7, <1>8, Names DEF Limit, Clocks
<1>14. \A c \in Clocks : Limit(c) <= Limit(c)'
  <2> SUFFICES ASSUME NEW c \in Clocks PROVE Limit(c) <= Limit(c)'
    OBVIOUS
  <2>1. CASE c \notin {t, l}
    BY <1>3, <1>13, <2>1
  <2>2. CASE c = l
    BY <1>3, <1>13, <2>2 DEF Limit
  <2>3. CASE c = t
    <3>1. Limit(t) = view[t][t] /\ view[t][t] <= v[t]
      BY <1>2, <1>12, Names DEF Limit
    <3> QED
      BY <1>13, <2>3, <3>1
  <2> QED
    BY <2>1, <2>2, <2>3
<1>15. \A c \in Clocks : v[c] <= Limit(c)'
  <2>1. \A c \in Clocks \ {t, l} : v[c] <= Limit(c)
    BY <1>2, <1>3, <1>4, <1>5 DEF Tidy, MemBounded, Bounded
  <2> QED
    BY <1>5, <1>11, <1>13, <1>3, <2>1 DEF Views
<1>16. MemBounded'
  <2>1. \A u \in Threads : \A c \in Clocks : view'[u][c] <= Limit(c)'
    <3>1. \A u \in Threads \ {t} : \A c \in Clocks : view[u][c] <= Limit(c)'
      BY <1>2, <1>9, <1>14, StaysBounded DEF Tidy, MemBounded
    <3> QED
      BY <1>8, <1>15, <3>1
  <2>2. \A c \in Clocks : e.view[c] <= Limit(c)'
    BY <1>15 DEF e
  <2> QED
    BY <1>1, <1>6, <1>9, <1>14, <2>1, <2>2, EntryBounded
<1>17. Moves(t)
  BY <1>8, <1>9, <1>12, <1>14, <1>16 DEF Moves, Tidy
<1>18. ASSUME l \notin {Senders, Receivers, Connected} PROVE Quiet(t)
  BY <1>4, <1>7, <1>8, <1>11, <1>17, <1>18, Names DEF Quiet
<1>19. \A c \in Clocks : Final(l).view[c] <= view'[t][c]
  BY <1>5, <1>8 DEF F
<1>20. e = [val |-> value, view |-> view'[t]]
  BY <1>8 DEF e
<1> QED
  BY <1>7, <1>8, <1>11, <1>17, <1>18, <1>19, <1>20

LEMMA Cloned ==
  ASSUME Tidy, NEW t \in Threads, NEW new \in Threads, t # new, view[new][new] = 0,
         NEW value \in Values, CountUp(t, new), Latest(Count(t)) + 1 = value
  PROVE  /\ Tidy'
         /\ \A u \in Threads \ {t, new} : view'[u] = view[u]
         /\ view'[new] = view'[t] /\ view'[new][new] = 0
         /\ \A c \in Clocks : view[t][c] <= view'[t][c] /\ Limit(c) <= Limit(c)'
         /\ \A k \in Locations \ {Count(t)} : mem'[k] = mem[k] /\ Final(k)' = Final(k)
         /\ Final(Count(t))' = [val |-> value, view |-> Final(Count(t)).view]
         /\ Len(mem'[Count(t)]) = Len(mem[Count(t)]) + 1
         /\ DOMAIN mem'[Count(t)] = 1..Len(mem[Count(t)]) + 1
         /\ \A i \in DOMAIN mem[Count(t)] : mem'[Count(t)][i] = mem[Count(t)][i]
<1> DEFINE l == Count(t)
           w == Written(t, l)
           F == Final(l).view
           e == [val |-> value, view |-> F]
<1>1. /\ l \in Locations /\ l \in {Senders, Receivers, Connected}
      /\ l \in Clocks /\ t \in Clocks /\ new \in Clocks /\ l # t /\ l # new
  BY Names DEF Count
<1>2. mem' = [mem EXCEPT ![l] = Append(@, e)] /\ view' = [view EXCEPT ![t] = w, ![new] = w]
      /\ fences' = fences
  BY DEF CountUp, Modify
<1>3. view \in [Threads -> Views] /\ view[t] \in Views /\ F \in Views /\ MemTypes
  BY <1>1, Recorded DEF Tidy, MemTypes
<1>4. Bounded(F) /\ Bounded(view[t]) /\ Len(mem[l]) \in Nat
      /\ \A c \in Clocks : Limit(c) \in Nat
  BY <1>1, <1>3, Recorded, Limits DEF Tidy, MemBounded, Final
<1>5. /\ w \in Views /\ w[l] = Len(mem[l]) + 1 /\ w[t] \in Nat /\ view[t][t] <= w[t]
      /\ \A c \in Clocks \ {t, l} : w[c] = view[t][c]
      /\ \A c \in Clocks : view[t][c] <= w[c]
  BY <1>1, WrittenTidy
<1> HIDE DEF w, F, l
<1>6. e \in [val : Values, view : Views]
  BY <1>3
<1> HIDE DEF e
<1>7. /\ mem' \in [Locations -> Seq([val : Values, view : Views])]
      /\ \A k \in Locations : mem'[k] # <<>>
      /\ Len(mem'[l]) = Len(mem[l]) + 1 /\ DOMAIN mem'[l] = 1..Len(mem[l]) + 1
      /\ \A i \in DOMAIN mem[l] : mem'[l][i] = mem[l][i]
      /\ Final(l)' = e
      /\ \A k \in Locations \ {l} : mem'[k] = mem[k] /\ Final(k)' = Final(k)
  BY <1>1, <1>2, <1>3, <1>6, Grown
<1>8. view'[t] = w /\ view'[new] = w /\ \A u \in Threads \ {t, new} : view'[u] = view[u]
  BY <1>2, <1>3
<1>9. MemTypes'
  BY <1>2, <1>3, <1>5, <1>7 DEF MemTypes
<1>10. w[new] = 0
  <2>1. view[t][new] <= view[new][new] /\ view[t][new] \in Nat
    BY <1>1, <1>3, <1>4, Names DEF Bounded, Limit, Views
  <2> QED
    BY <1>1, <1>5, <2>1
<1>11. /\ \A c \in Clocks \ {t, l} : Limit(c)' = Limit(c)
       /\ Limit(l)' = Len(mem[l]) + 1 /\ Limit(t)' = w[t]
  <2>1. \A c \in Locations \ {l} : Limit(c)' = Limit(c)
    BY <1>7 DEF Limit
  <2>2. \A c \in Threads \ {t} : Limit(c)' = Limit(c)
    BY <1>8, <1>10, Names DEF Limit
  <2> QED
    BY <1>1, <1>7, <1>8, <2>1, <2>2, Names DEF Limit, Clocks
<1>12. Limit(l) = Len(mem[l]) /\ Limit(t) = view[t][t]
  BY <1>1, Names DEF Limit
<1>13. \A c \in Clocks : Limit(c) <= Limit(c)'
  <2> SUFFICES ASSUME NEW c \in Clocks PROVE Limit(c) <= Limit(c)'
    OBVIOUS
  <2>1. CASE c \notin {t, l}
    BY <1>4, <1>11, <2>1
  <2>2. CASE c = l
    BY <1>4, <1>11, <1>12, <2>2
  <2>3. CASE c = t
    BY <1>5, <1>11, <1>12, <2>3
  <2> QED
    BY <2>1, <2>2, <2>3
<1>14. \A x \in Views : Bounded(x) => \A c \in Clocks : x[c] <= Limit(c)'
  BY <1>3, <1>9, <1>13, StaysBounded
<1>15. \A c \in Clocks : w[c] <= Limit(c)'
  <2>1. \A c \in Clocks \ {t, l} : w[c] <= Limit(c)'
    BY <1>3, <1>4, <1>5, <1>14
  <2> QED
    BY <1>4, <1>5, <1>11, <2>1
<1>16. MemBounded'
  <2>1. \A u \in Threads : \A c \in Clocks : view'[u][c] <= Limit(c)'
    BY <1>3, <1>8, <1>14, <1>15 DEF Tidy, MemBounded
  <2>2. \A c \in Clocks : e.view[c] <= Limit(c)'
    BY <1>3, <1>4, <1>14 DEF e
  <2> QED
    BY <1>1, <1>2, <1>6, <1>9, <1>13, <2>1, <2>2, EntryBounded
<1>17. Tidy'
  BY <1>9, <1>16 DEF Tidy
<1>18. e = [val |-> value, view |-> Final(l).view]
  BY DEF e, F
<1> QED
  BY <1>1, <1>5, <1>7, <1>8, <1>10, <1>13, <1>17, <1>18 DEF l

-----------------------------------------------------------------------------
\* The steps that write to no count and not to the flag.

StaysInStage(t) ==
  /\ pc[t] \notin Out
  /\ \A u \in Threads \ {t} : pc'[u] = pc[u]
  /\ \A stage \in {Out, Closing, {"free"}} : pc[t] \in stage <=> pc'[t] \in stage

QuietStep(t) == Quiet(t) /\ StaysInStage(t) /\ CallTypes' /\ WakesBounded' /\ Lengths'

LEMMA WakesStay ==
  ASSUME Sound, MemTypes', \A c \in Clocks : Limit(c) <= Limit(c)', woken' = woken
  PROVE  WakesBounded'
<1>1. \A r \in Rx : \A i \in DOMAIN woken[r] : woken[r][i] \in Views /\ Bounded(woken[r][i])
  BY DEF Sound, CallTypes, WakesBounded
<1>2. \A r \in Rx : \A i \in DOMAIN woken[r] : \A c \in Clocks : woken[r][i][c] <= Limit(c)'
  BY <1>1, StaysBounded DEF Sound, Tidy
<1> QED
  BY <1>2 DEF WakesBounded, Bounded

LEMMA NothingMoved ==
  ASSUME Sound, NEW t \in Threads, UNCHANGED <<mem, view, fences>>
  PROVE  Quiet(t)
<1>1. Tidy' /\ \A c \in Clocks : Limit(c)' = Limit(c)
  BY DEF Sound, Tidy, MemTypes, MemBounded, Bounded, Limit
<1>2. view[t] \in Views /\ \A c \in Clocks : Limit(c) \in Nat
  BY Limits DEF Sound, Tidy, MemTypes
<1> QED
  BY <1>1, <1>2 DEF Quiet, Moves, Views

LEMMA SendSteps ==
  ASSUME Sound, NEW s \in Tx, Send(s) \/ Push(s) \/ Fence(s) \/ Hangup(s)
  PROVE  QuietStep(s)
<1> USE DEF Sound
<1>1. s \in Threads /\ Receivers \in Locations /\ Buffer \in Locations
      /\ Buffer \notin {Senders, Receivers, Connected}
  BY Names
<1>2. CASE Send(s)
  <2>1. PICK i \in DOMAIN mem[Receivers] : LoadReceivers(s, i) /\ Goto(s,
                IF mem[Receivers][i].val > 0 THEN "push" ELSE "idle")
    BY <1>2 DEF Send
  <2>2. Quiet(s) /\ mem' = mem
    BY <1>1, <2>1, Acquired DEF LoadReceivers
  <2>3. WakesBounded'
    BY <1>2, <2>2, WakesStay DEF Send, Quiet, Moves, Tidy
  <2> QED
    BY <1>1, <1>2, <2>1, <2>2, <2>3
    DEF QuietStep, StaysInStage, CallTypes, Lengths, Send, Goto, Out, Closing, Steps
<1>3. CASE Push(s)
  <2>1. Latest(Buffer) + 1 \in Nat
    BY <1>1, Recorded DEF Latest, Final, Lengths, Tidy
  <2>2. AcqRel(s, Buffer, Latest(Buffer) + 1) /\ Goto(s, "fence") /\ UNCHANGED rest
    BY <1>3 DEF Push
  <2>3. /\ Quiet(s)
        /\ Final(Buffer)' = [val |-> Latest(Buffer) + 1, view |-> view'[s]]
        /\ DOMAIN mem'[Buffer] = 1..Len(mem[Buffer]) + 1
        /\ \A i \in DOMAIN mem[Buffer] : mem'[Buffer][i] = mem[Buffer][i]
        /\ mem'[Buffer][Len(mem[Buffer]) + 1] =
             [val |-> Latest(Buffer) + 1, view |-> view'[s]]
    BY <1>1, <2>1, <2>2, Wrote DEF Values
  <2>4. WakesBounded'
    BY <2>2, <2>3, WakesStay DEF rest, Quiet, Moves, Tidy
  <2>5. Lengths'
    BY <1>1, <2>1, <2>3, Recorded DEF Lengths, Tidy
  <2> QED
    BY <1>1, <1>3, <2>2, <2>3, <2>4, <2>5
    DEF QuietStep, StaysInStage, CallTypes, rest, Push, Goto, Out, Closing, Steps
<1>4. CASE Fence(s) \/ Hangup(s)
  <2>1. Quiet(s) /\ mem' = mem
    BY <1>1, <1>4, Fenced DEF Fence, Hangup, FenceSend, FenceHangup
  <2>2. WakesBounded'
    BY <1>4, <2>1, WakesStay DEF Fence, Hangup, Quiet, Moves, Tidy
  <2>3. Slots \in SUBSET Rx
    BY DEF Slots
  <2>4. CallTypes'
    BY <1>1, <1>4, <2>3 DEF CallTypes, Fence, Hangup, Goto, Steps
  <2> QED
    BY <1>1, <1>4, <2>1, <2>2, <2>4
    DEF QuietStep, StaysInStage, CallTypes, Lengths, Fence, Hangup, Goto, Out, Closing
<1> QED
  BY <1>2, <1>3, <1>4

LEMMA ScanSteps ==
  ASSUME Sound, NEW t \in Threads, PassSlot(t) \/ FindNoWaker(t) \/ TakeWaker(t)
  PROVE  QuietStep(t)
<1> USE DEF Sound
<1>1. \A r \in ahead[t] : r \in Rx /\ Slot(r) \in Locations
        /\ Slot(r) \notin {Senders, Receivers, Connected, Buffer}
  BY Names DEF CallTypes
<1>2. CASE PassSlot(t)
  <2>1. PICK r \in ahead[t] : \E i \in DOMAIN mem[Slot(r)] :
               Acquire(t, Slot(r), i) /\ ahead' = [ahead EXCEPT ![t] = @ \ {r}]
    BY <1>2 DEF PassSlot
  <2>2. Quiet(t) /\ mem' = mem
    BY <1>1, <2>1, Acquired
  <2>3. WakesBounded'
    BY <1>2, <2>2, WakesStay DEF PassSlot, Quiet, Moves, Tidy
  <2>4. pc' = pc /\ pc[t] \in Scanning /\ hungup' = hungup /\ woken' = woken
    BY <1>2 DEF PassSlot
  <2>5. ahead' \in [Threads -> SUBSET Rx]
    BY <2>1 DEF CallTypes
  <2>6. CallTypes' /\ Lengths'
    BY <2>2, <2>4, <2>5 DEF CallTypes, Lengths
  <2> QED
    BY <2>2, <2>3, <2>4, <2>6 DEF QuietStep, StaysInStage, Scanning, Out
<1>3. CASE FindNoWaker(t)
  <2>1. Quiet(t)
    BY <1>3, NothingMoved DEF FindNoWaker
  <2>2. WakesBounded'
    BY <1>3, <2>1, WakesStay DEF FindNoWaker, rest, Quiet, Moves, Tidy
  <2> QED
    BY <1>3, <2>1, <2>2
    DEF QuietStep, StaysInStage, CallTypes, Lengths, FindNoWaker, rest, Scanning, AfterScan,
        Goto, Out, Closing, Steps
<1>4. CASE TakeWaker(t)
  <2>1. PICK r \in ahead[t] :
          AcqRel(t, Slot(r), FALSE) /\ woken' = [woken EXCEPT ![r] = Append(@, view'[t])]
    BY <1>4 DEF TakeWaker
  <2>2. Quiet(t) /\ mem'[Buffer] = mem[Buffer]
    <3>1. Slot(r) \in Locations /\ Slot(r) \notin {Senders, Receivers, Connected, Buffer}
      BY <1>1, <2>1
    <3>2. FALSE \in Values /\ AcqRel(t, Slot(r), FALSE) /\ Buffer \in Locations
      BY <2>1, Names DEF Values
    <3>3. Quiet(t)
      BY <3>1, <3>2, Wrote
    <3>4. \A k \in Locations \ {Slot(r)} : mem'[k] = mem[k]
      BY <3>1, <3>2, Wrote
    <3> QED
      BY <3>1, <3>2, <3>3, <3>4
  <2>3. MemTypes' /\ view'[t] \in Views
    BY <2>2 DEF Quiet, Moves, Tidy, MemTypes
  <2>4. WakesBounded'
    <3>1. \A q \in Rx : \A i \in DOMAIN woken[q] : \A c \in Clocks :
            woken[q][i][c] <= Limit(c)'
      BY <2>2, <2>3, StaysBounded DEF CallTypes, WakesBounded, Quiet, Moves, Tidy
    <3>2. \A c \in Clocks : view'[t][c] <= Limit(c)'
      BY <2>2 DEF Quiet, Moves, Tidy, MemBounded, Bounded
    <3>3. \A q \in Rx \ {r} : woken'[q] = woken[q]
      BY <2>1 DEF CallTypes
    <3>4. woken'[r] = Append(woken[r], view'[t]) /\ woken[r] \in Seq(Views)
      BY <1>1, <2>1 DEF CallTypes
    <3>5. \A i \in DOMAIN woken'[r] : \/ i \in DOMAIN woken[r] /\ woken'[r][i] = woken[r][i]
                                      \/ woken'[r][i] = view'[t]
      BY <2>3, <3>4
    <3> QED
      BY <3>1, <3>2, <3>3, <3>5 DEF WakesBounded, Bounded
  <2>5. woken' \in [Rx -> Seq(Views)]
    BY <1>1, <2>1, <2>3 DEF CallTypes
  <2>6. ahead' \in [Threads -> SUBSET Rx]
    <3>1. Slots \in SUBSET Rx
      BY DEF Slots
    <3> QED
      BY <1>4, <3>1 DEF TakeWaker, CallTypes
  <2>7. pc[t] \in Scanning /\ (pc' = pc \/ pc' = [pc EXCEPT ![t] = AfterScan(t)])
        /\ (pc[t] = "hangup scan" => pc' = pc) /\ UNCHANGED hungup
    BY <1>4 DEF TakeWaker, Goto
  <2>8. StaysInStage(t) /\ CallTypes'
    <3>1. CASE pc' = pc
      BY <2>5, <2>6, <2>7, <3>1 DEF StaysInStage, CallTypes, Scanning, Out
    <3>2. CASE pc' = [pc EXCEPT ![t] = AfterScan(t)] /\ pc[t] # "hangup scan"
      BY <2>5, <2>6, <2>7, <3>2
      DEF StaysInStage, CallTypes, Scanning, AfterScan, Out, Closing, Steps
    <3> QED
      BY <2>7, <3>1, <3>2
  <2> QED
    BY <2>2, <2>4, <2>8 DEF QuietStep, Lengths
<1> QED
  BY <1>2, <1>3, <1>4

LEMMA SlotWritten ==
  ASSUME Sound, NEW r \in Rx, NEW value \in BOOLEAN, AcqRel(r, Slot(r), value)
  PROVE  Quiet(r) /\ mem'[Buffer] = mem[Buffer]
<1>1. /\ r \in Threads /\ Slot(r) \in Locations /\ Buffer \in Locations
      /\ Slot(r) \notin {Senders, Receivers, Connected, Buffer}
  BY Names
<1>2. value \in Values /\ Tidy
  BY DEF Values, Sound
<1>3. Quiet(r)
  BY <1>1, <1>2, Wrote
<1>4. \A k \in Locations \ {Slot(r)} : mem'[k] = mem[k]
  BY <1>1, <1>2, Wrote
<1> QED
  BY <1>1, <1>3, <1>4

LEMMA PollSteps ==
  ASSUME Sound, NEW r \in Rx,
         \/ Load(r) \/ Pop(r) \/ FindEmpty(r) \/ Insert(r) \/ Barrier(r)
         \/ RemoveWaker(r) \/ RemoveNone(r) \/ Resume(r) \/ DropRx(r)
  PROVE  QuietStep(r)
<1> USE DEF Sound
<1>1. r \in Threads /\ Senders \in Locations /\ Buffer \in Locations
      /\ Buffer \notin {Senders, Receivers, Connected}
  BY Names
<1>2. CASE Load(r)
  <2>1. PICK i \in DOMAIN mem[Senders] :
          /\ LoadSenders(r, i)
          /\ hungup' = [hungup EXCEPT ![r] = mem[Senders][i].val = 0]
    BY <1>2 DEF Load
  <2>2. Quiet(r) /\ mem' = mem
    BY <1>1, <2>1, Acquired DEF LoadSenders
  <2>3. WakesBounded'
    BY <1>2, <2>2, WakesStay DEF Load, Quiet, Moves, Tidy
  <2>4. hungup' \in [Rx -> BOOLEAN]
    BY <2>1 DEF CallTypes
  <2> QED
    BY <1>1, <1>2, <2>2, <2>3, <2>4
    DEF QuietStep, StaysInStage, CallTypes, Lengths, Load, Goto, Out, Closing, Steps
<1>3. CASE Pop(r)
  <2>1. Latest(Buffer) - 1 \in Nat
    BY <1>1, <1>3, Recorded DEF Pop, Latest, Final, Lengths, Tidy
  <2>2. AcqRel(r, Buffer, Latest(Buffer) - 1) /\ Goto(r, "remove") /\ UNCHANGED rest
        /\ pc[r] \in {"pop", "repop"}
    BY <1>3 DEF Pop
  <2>3. /\ Quiet(r)
        /\ DOMAIN mem'[Buffer] = 1..Len(mem[Buffer]) + 1
        /\ \A i \in DOMAIN mem[Buffer] : mem'[Buffer][i] = mem[Buffer][i]
        /\ mem'[Buffer][Len(mem[Buffer]) + 1] =
             [val |-> Latest(Buffer) - 1, view |-> view'[r]]
    BY <1>1, <2>1, <2>2, Wrote DEF Values
  <2>4. WakesBounded'
    BY <2>2, <2>3, WakesStay DEF rest, Quiet, Moves, Tidy
  <2>5. Lengths'
    BY <1>1, <2>1, <2>3, Recorded DEF Lengths, Tidy
  <2> QED
    BY <1>1, <2>2, <2>3, <2>4, <2>5
    DEF QuietStep, StaysInStage, CallTypes, rest, Goto, Out, Closing, Steps
<1>4. CASE FindEmpty(r)
  <2>1. PICK i \in DOMAIN mem[Buffer] : Acquire(r, Buffer, i)
    BY <1>4 DEF FindEmpty
  <2>2. Quiet(r) /\ mem' = mem
    BY <1>1, <2>1, Acquired
  <2>3. WakesBounded'
    BY <1>4, <2>2, WakesStay DEF FindEmpty, rest, Quiet, Moves, Tidy
  <2> QED
    BY <1>1, <1>4, <2>2, <2>3
    DEF QuietStep, StaysInStage, CallTypes, Lengths, FindEmpty, rest, Goto, Out, Closing, Steps
<1>5. CASE Insert(r) \/ RemoveWaker(r)
  <2>1. Quiet(r) /\ mem'[Buffer] = mem[Buffer]
    BY <1>5, SlotWritten DEF Insert, RemoveWaker
  <2>2. WakesBounded'
    BY <1>5, <2>1, WakesStay DEF Insert, RemoveWaker, rest, Quiet, Moves, Tidy
  <2> QED
    BY <1>1, <1>5, <2>1, <2>2
    DEF QuietStep, StaysInStage, CallTypes, Lengths, Insert, RemoveWaker, AfterPoll, rest,
        Goto, Out, Closing, Steps
<1>6. CASE Barrier(r)
  <2>1. Quiet(r) /\ mem' = mem
    BY <1>1, <1>6, Fenced DEF Barrier, FencePoll
  <2>2. WakesBounded'
    BY <1>6, <2>1, WakesStay DEF Barrier, rest, Quiet, Moves, Tidy
  <2> QED
    BY <1>1, <1>6, <2>1, <2>2
    DEF QuietStep, StaysInStage, CallTypes, Lengths, Barrier, rest, Goto, Out, Closing, Steps
<1>7. CASE Resume(r)
  <2> DEFINE v == Join(view[r], Head(woken[r]))
  <2>1. woken[r] \in Seq(Views) /\ woken[r] # <<>> /\ view \in [Threads -> Views]
    BY <1>7 DEF Resume, CallTypes, Tidy, MemTypes
  <2>2. 1 \in DOMAIN woken[r] /\ Head(woken[r]) = woken[r][1] /\ Head(woken[r]) \in Views
        /\ Tail(woken[r]) \in Seq(Views) /\ DOMAIN Tail(woken[r]) = 1..Len(woken[r]) - 1
        /\ Len(woken[r]) \in Nat /\ DOMAIN woken[r] = 1..Len(woken[r])
        /\ \A i \in DOMAIN Tail(woken[r]) : Tail(woken[r])[i] = woken[r][i + 1]
    BY <2>1
  <2>3. v \in Views /\ Bounded(v) /\ \A c \in Clocks : view[r][c] <= v[c]
    BY <1>1, <2>1, <2>2, Joined, JoinBounded DEF Tidy, MemBounded, WakesBounded
  <2>4. view' = [view EXCEPT ![r] = v] /\ mem' = mem /\ fences' = fences
        /\ woken' = [woken EXCEPT ![r] = Tail(woken[r])]
    BY <1>7 DEF Resume
  <2> HIDE DEF v
  <2>5. Quiet(r)
    BY <1>1, <2>3, <2>4, Raised
  <2>6. WakesBounded'
    <3>1. \A q \in Rx : \A i \in DOMAIN woken[q] : \A c \in Clocks :
            woken[q][i][c] <= Limit(c)'
      BY <2>5, StaysBounded, SMTT(30) DEF CallTypes, WakesBounded, Quiet, Moves, Tidy
    <3>2. woken'[r] = Tail(woken[r]) /\ \A q \in Rx \ {r} : woken'[q] = woken[q]
      BY <2>4 DEF CallTypes
    <3>3. \A i \in DOMAIN woken'[r] : i + 1 \in DOMAIN woken[r]
                                      /\ woken'[r][i] = woken[r][i + 1]
      BY <2>2, <3>2
    <3> QED
      BY <3>1, <3>2, <3>3 DEF WakesBounded, Bounded
  <2>7. woken' \in [Rx -> Seq(Views)]
    BY <2>2, <2>4 DEF CallTypes
  <2> QED
    BY <1>1, <1>7, <2>4, <2>5, <2>6, <2>7
    DEF QuietStep, StaysInStage, CallTypes, Lengths, Resume, Goto, Out, Closing, Steps
<1>8. CASE DropRx(r)
  <2>1. Quiet(r) /\ mem'[Buffer] = mem[Buffer]
    BY <1>8, SlotWritten DEF DropRx
  <2>2. WakesBounded'
    BY <1>8, <2>1, WakesStay DEF DropRx, Quiet, Moves, Tidy
  <2>3. Slots \in SUBSET Rx
    BY DEF Slots
  <2>4. CallTypes'
    BY <1>1, <1>8, <2>3 DEF CallTypes, DropRx, Goto, Steps
  <2>5. StaysInStage(r)
    BY <1>1, <1>8 DEF StaysInStage, CallTypes, DropRx, Goto, Out, Closing
  <2> QED
    BY <2>1, <2>2, <2>4, <2>5 DEF QuietStep, Lengths
<1>9. CASE RemoveNone(r)
  <2>1. PICK i \in DOMAIN mem[Slot(r)] : Acquire(r, Slot(r), i)
    BY <1>9 DEF RemoveNone
  <2>2. Quiet(r) /\ mem' = mem
    BY <1>1, <2>1, Acquired, Names
  <2>3. WakesBounded'
    BY <1>9, <2>2, WakesStay DEF RemoveNone, rest, Quiet, Moves, Tidy
  <2> QED
    BY <1>1, <1>9, <2>2, <2>3
    DEF QuietStep, StaysInStage, CallTypes, Lengths, RemoveNone, AfterPoll, rest, Goto, Out,
        Closing, Steps
<1> QED
  BY <1>2, <1>3, <1>4, <1>5, <1>6, <1>7, <1>8, <1>9

-----------------------------------------------------------------------------
\* The thread that frees the control block comes last.

LEMMA Sides ==
  /\ \A t \in Threads : Count(t) \in Ends /\ t \in Side(Count(t))
  /\ \A c \in Ends : \A u \in Side(c) : u \in Threads /\ Count(u) = c
  /\ \A c \in Ends : IsFiniteSet(Side(c)) /\ c \in Locations /\ c # Connected
BY OrderingsAssumption, Names DEF Count, Ends, Side, Threads

\* What a thread knew of one that has not written since, it still knows.
LEMMA StillKnown ==
  ASSUME Sound, NEW t \in Threads, Moves(t), NEW u \in Threads, view'[u][u] = view[u][u],
         NEW w \in Threads, view[w][u] = view[u][u]
  PROVE  view'[w][u] = view'[u][u]
<1>1. CASE w # t
  BY <1>1 DEF Moves
<1>2. CASE w = t
  <2>1. view[t][u] <= view'[t][u] /\ u \in Clocks
    BY Names DEF Moves
  <2>2. view'[t][u] <= view'[u][u]
    BY <2>1, Names DEF Moves, Tidy, MemBounded, Bounded, Limit
  <2>3. view'[t][u] \in Nat /\ view'[u][u] \in Nat
    BY <2>1 DEF Moves, Tidy, MemTypes, Views
  <2> QED
    BY <1>2, <2>1, <2>2, <2>3
<1> QED
  BY <1>1, <1>2

LEMMA QuietKeeps ==
  ASSUME Sound, Departures, NEW t \in Threads, QuietStep(t)
  PROVE  Sound' /\ Departures'
<1> USE DEF Departures
<1>1. /\ \A u \in Threads : view'[u][u] = view[u][u]
      /\ \A u \in Threads : Counted(u)' <=> Counted(u)
      /\ \A u \in Threads : \A stage \in {Out, Closing, {"free"}} :
           pc'[u] \in stage <=> pc[u] \in stage
  <2>1. \A u \in Threads : \A stage \in {Out, Closing, {"free"}} :
          pc'[u] \in stage <=> pc[u] \in stage
    BY DEF QuietStep, StaysInStage
  <2>2. \A u \in Threads : Counted(u)' <=> Counted(u)
    BY <2>1 DEF Counted
  <2> QED
    BY <2>1, <2>2 DEF QuietStep, Quiet, Moves
<1>2. \A c \in Ends : OnSide(c)' = OnSide(c)
  BY <1>1, Sides DEF OnSide, Side
<1>3. \A c \in Ends \cup {Connected} : Latest(c)' = Latest(c) /\ Final(c)' = Final(c)
  BY DEF QuietStep, Quiet, Ends, Latest, Final
<1>4. NothingWritten'
  BY <1>1 DEF Sound, NothingWritten, QuietStep, StaysInStage, Out
<1>5. Sound'
  BY <1>4 DEF Sound, QuietStep, Quiet, Moves
<1>6. CountsRight'
  BY <1>2, <1>3 DEF CountsRight
<1>7. LeaversKnown'
  BY <1>1, <1>2, <1>3, Sides DEF LeaversKnown, Side
<1>8. \A u, w \in Threads : view[w][u] = view[u][u] => view'[w][u] = view'[u][u]
  BY <1>1, StillKnown DEF QuietStep, Quiet
<1>9. LastKnows'
  BY <1>1, <1>8, Sides DEF LastKnows, Side
<1>10. SwapKnown'
  BY <1>1, <1>3, Sides DEF SwapKnown, Left, Side
<1>11. FreeKnows'
  BY <1>1, <1>8, Sides DEF FreeKnows, Left, Side
<1> QED
  BY <1>5, <1>6, <1>7, <1>9, <1>10, <1>11

LEMMA CountIsNat ==
  ASSUME CountsRight, NEW c \in Ends
  PROVE  Latest(c) \in Nat /\ (Latest(c) = 0 <=> OnSide(c) = {}) /\ IsFiniteSet(OnSide(c))
<1>1. IsFiniteSet(OnSide(c))
  BY Sides, FS_Subset DEF OnSide
<1> QED
  BY <1>1, FS_CardinalityType, FS_EmptySet DEF CountsRight

LEMMA CloneKeeps ==
  ASSUME Sound, Departures, NEW t \in Threads, NEW new \in Threads, Clone(t, new)
  PROVE  Sound' /\ Departures'
<1> USE DEF Departures
<1> DEFINE l == Count(t)
<1>1. /\ pc[t] = "idle" /\ pc[new] = "unborn" /\ l = Count(new) /\ CountUp(t, new)
      /\ pc' = [pc EXCEPT ![new] = "idle"] /\ UNCHANGED rest
  BY DEF Clone, Goto
<1>2. l \in Ends /\ t \in Side(l) /\ new \in Side(l) /\ t # new /\ pc \in [Threads -> Steps]
  BY <1>1, Sides DEF Sound, CallTypes
<1>3. view[new][new] = 0
  BY <1>1 DEF Sound, NothingWritten
<1>4. Latest(l) \in Nat /\ Latest(l) + 1 \in Values
  BY <1>2, CountIsNat DEF Values
<1>5. /\ Tidy'
      /\ \A u \in Threads \ {t, new} : view'[u] = view[u]
      /\ view'[new][new] = 0
      /\ \A c \in Clocks : Limit(c) <= Limit(c)'
      /\ \A k \in Locations \ {l} : mem'[k] = mem[k] /\ Final(k)' = Final(k)
      /\ Final(l)' = [val |-> Latest(l) + 1, view |-> Final(l).view]
  BY <1>1, <1>2, <1>3, <1>4, Cloned DEF Sound
<1> HIDE DEF l
<1>6. \A u \in Threads \ {t} : view'[u][u] = view[u][u]
  BY <1>3, <1>5
<1>7. \A u \in Threads \ {new} : pc'[u] = pc[u] /\ (Counted(u)' <=> Counted(u))
  BY <1>1, <1>2 DEF Counted
<1>8. Counted(t) /\ ~Counted(new) /\ Counted(new)' /\ pc'[new] = "idle"
  BY <1>1, <1>2 DEF Counted, Out, Closing
<1>9. Sound'
  <2>1. CallTypes'
    BY <1>1 DEF Sound, CallTypes, rest, Steps
  <2>2. WakesBounded'
    BY <1>1, <1>5, WakesStay DEF rest, Tidy
  <2>3. Lengths'
    BY <1>2, <1>5, Names DEF Sound, Lengths, Ends
  <2>4. NothingWritten'
    BY <1>1, <1>2, <1>6, <1>7, <1>8 DEF Sound, NothingWritten
  <2> QED
    BY <1>5, <2>1, <2>2, <2>3, <2>4 DEF Sound
<1>10. /\ OnSide(l)' = OnSide(l) \cup {new} /\ new \notin OnSide(l)
       /\ t \in OnSide(l) /\ \A c \in Ends \ {l} : OnSide(c)' = OnSide(c)
  <2>1. \A c \in Ends \ {l} : new \notin Side(c)
    BY <1>1, Sides DEF l
  <2> QED
    BY <1>2, <1>7, <1>8, <2>1, Sides DEF OnSide, Side
<1>11. \A c \in Ends \ {l} : Final(c)' = Final(c) /\ Latest(c)' = Latest(c)
  BY <1>5, Sides DEF Latest
<1>12. CountsRight'
  <2>1. Latest(l)' = Latest(l) + 1
    BY <1>5 DEF Latest
  <2>2. Cardinality(OnSide(l) \cup {new}) = Cardinality(OnSide(l)) + 1
    BY <1>2, <1>10, CountIsNat, FS_AddElement
  <2> QED
    BY <1>2, <1>10, <1>11, <2>1, <2>2 DEF CountsRight
<1>13. Final(l)'.view = Final(l).view
  BY <1>5
<1>14. \A c \in Ends : \A v : Left(c, v) => c # l
  BY <1>1, <1>2 DEF Left, Out
<1>15. \A c \in Ends \ {l} : \A u \in Side(c) :
         pc'[u] = pc[u] /\ view'[u] = view[u] /\ u \in Threads \ {t, new}
  BY <1>1, <1>5, <1>7, Sides DEF l
<1>16. LeaversKnown'
  <2> SUFFICES ASSUME NEW c \in Ends, OnSide(c)' # {}, NEW u \in Side(c), ~Counted(u)'
               PROVE  pc'[u] \in Out /\ Final(c)'.view[u] = view'[u][u]
    BY DEF LeaversKnown, Side
  <2>1. u \in Threads /\ u # new /\ u # t /\ ~Counted(u)
    BY <1>7, <1>8, Sides
  <2>2. OnSide(c) # {}
    BY <1>10
  <2>3. pc[u] \in Out /\ Final(c).view[u] = view[u][u]
    BY <2>1, <2>2 DEF LeaversKnown
  <2> QED
    BY <1>6, <1>7, <1>11, <1>13, <2>1, <2>3
<1>17. \A w \in Threads : pc'[w] \in Closing \cup {"free"} =>
         pc'[w] = pc[w] /\ w \notin {t, new} /\ view'[w] = view[w]
  BY <1>1, <1>5, <1>7, <1>8 DEF Closing
<1>18. LastKnows'
  <2> SUFFICES ASSUME NEW w \in Threads, pc'[w] \in Closing \cup {"free"}, NEW u \in Side(Count(w))
               PROVE  (u = w \/ pc'[u] \in Out) /\ view'[w][u] = view'[u][u]
    BY DEF LastKnows, Side
  <2>1. pc[w] \in Closing \cup {"free"} /\ w # t /\ view'[w] = view[w]
    BY <1>17
  <2>2. Count(w) # l
    BY <1>1, <1>2, <2>1 DEF LastKnows, Out
  <2> QED
    BY <1>15, <2>1, <2>2, Sides DEF LastKnows
<1>19. SwapKnown'
  <2>1. Final(Connected)' = Final(Connected) /\ Latest(Connected)' = Latest(Connected)
    BY <1>2, <1>5, Names, Sides DEF Latest
  <2> QED
    BY <1>14, <1>15, <2>1 DEF SwapKnown, Left, Side
<1>20. FreeKnows'
  BY <1>14, <1>15, <1>17 DEF FreeKnows, Left, Side
<1> QED
  BY <1>9, <1>12, <1>16, <1>18, <1>19, <1>20

\* What a value released, the thread that read it knows, while its writer
\* does not write again.
LEMMA NowKnown ==
  ASSUME Sound, NEW t \in Threads, Moves(t), NEW u \in Threads, view'[u][u] = view[u][u],
         NEW v, v[u] = view[u][u], v[u] <= view'[t][u]
  PROVE  view'[t][u] = view'[u][u]
<1>1. view'[t][u] <= view'[u][u]
  BY Names DEF Moves, Tidy, MemBounded, Bounded, Limit
<1>2. view'[t][u] \in Nat /\ view'[u][u] \in Nat
  BY Names DEF Moves, Tidy, MemTypes, Views
<1> QED
  BY <1>1, <1>2

LEMMA MovesKeepsSound ==
  ASSUME Sound, NEW t \in Threads, Moves(t), NEW step \in Steps \ {"absent", "unborn"},
         pc[t] \notin {"absent", "unborn"}, pc' = [pc EXCEPT ![t] = step], UNCHANGED rest,
         mem'[Buffer] = mem[Buffer]
  PROVE  Sound'
<1>1. CallTypes'
  BY DEF Sound, CallTypes, rest
<1>2. WakesBounded'
  BY WakesStay DEF Moves, Tidy, rest
<1>3. Lengths'
  BY DEF Sound, Lengths
<1>4. NothingWritten'
  BY DEF Sound, CallTypes, NothingWritten, Moves
<1> QED
  BY <1>1, <1>2, <1>3, <1>4 DEF Sound, Moves

LEMMA CountDownKeeps ==
  ASSUME Sound, Departures, NEW t \in Threads, Counted(t), CountDown(t),
         NEW step \in Closing, UNCHANGED rest,
         pc' = [pc EXCEPT ![t] = IF Latest(Count(t)) = 1 THEN step ELSE "gone"]
  PROVE  Sound' /\ Departures'
<1> USE DEF Departures
<1> DEFINE l == Count(t)
<1>1. l \in Ends /\ t \in Side(l) /\ t \in OnSide(l) /\ pc \in [Threads -> Steps]
      /\ pc[t] \notin Out
  BY Sides DEF OnSide, Counted, Sound, CallTypes
<1>2. Latest(l) \in Nat \ {0} /\ IsFiniteSet(OnSide(l)) /\ Latest(l) - 1 \in Values
  BY <1>1, CountIsNat DEF Values
<1> DEFINE n == Latest(l) - 1
<1>3. /\ Moves(t)
      /\ \A k \in Locations \ {l} : mem'[k] = mem[k] /\ Final(k)' = Final(k)
      /\ Final(l)' = [val |-> n, view |-> view'[t]]
      /\ \A c \in Clocks : Final(l).view[c] <= view'[t][c]
  <2>1. AcqRel(t, l, n) /\ l \in Locations /\ Tidy
    BY <1>1, Sides DEF CountDown, Sound
  <2>2. n \in Values
    BY <1>2
  <2> HIDE DEF l, n
  <2> QED
    BY <2>1, <2>2, Wrote
<1> HIDE DEF l
<1>4. \A u \in Threads \ {t} : view'[u] = view[u] /\ pc'[u] = pc[u] /\ (Counted(u)' <=> Counted(u))
  BY <1>1, <1>3 DEF Moves, Counted
<1>5. /\ pc'[t] \in Closing \cup {"gone"} /\ ~Counted(t)'
      /\ pc'[t] = "gone" <=> Latest(l) # 1
  <2>1. pc'[t] = IF Latest(l) = 1 THEN step ELSE "gone"
    BY <1>1 DEF l
  <2>2. step # "gone"
    BY DEF Closing
  <2> QED
    BY <2>1, <2>2 DEF Counted, Out
<1>6. Sound'
  <2>1. (IF Latest(l) = 1 THEN step ELSE "gone") \in Steps \ {"absent", "unborn"}
    BY DEF Closing, Steps
  <2> QED
    BY <1>1, <1>3, <2>1, Names, MovesKeepsSound DEF l, Out, Ends
<1>7. OnSide(l)' = OnSide(l) \ {t} /\ \A c \in Ends \ {l} : OnSide(c)' = OnSide(c)
  <2>1. \A c \in Ends \ {l} : t \notin Side(c)
    BY Sides DEF l
  <2> QED
    BY <1>1, <1>4, <1>5, <2>1, Sides DEF OnSide, Side
<1>8. Latest(l)' = Latest(l) - 1 /\ Final(l)'.view = view'[t]
      /\ \A c \in (Ends \ {l}) \cup {Connected} : Final(c)' = Final(c) /\ Latest(c)' = Latest(c)
  BY <1>1, <1>3, Sides, Names DEF Latest
<1>9. CountsRight' /\ (Latest(l) = 1 <=> OnSide(l) \ {t} = {})
  <2>1. /\ Cardinality(OnSide(l) \ {t}) = Latest(l) - 1
        /\ IsFiniteSet(OnSide(l) \ {t})
    BY <1>1, <1>2, FS_RemoveElement DEF CountsRight
  <2>2. CountsRight'
    BY <1>1, <1>7, <1>8, <2>1 DEF CountsRight
  <2> QED
    BY <1>2, <2>1, <2>2, FS_EmptySet
<1>10. \A u \in Side(l) : Counted(u) \/ (pc[u] \in Out /\ Final(l).view[u] = view[u][u])
  BY <1>1 DEF LeaversKnown
<1>11. \A u \in Side(l) \ {t} : ~Counted(u) => view'[t][u] = view'[u][u]
  <2> SUFFICES ASSUME NEW u \in Side(l) \ {t}, ~Counted(u) PROVE view'[t][u] = view'[u][u]
    OBVIOUS
  <2>1. u \in Threads /\ u \in Clocks /\ view'[u] = view[u]
    BY <1>1, <1>4, Sides, Names
  <2>2. Final(l).view[u] = view[u][u] /\ Final(l).view[u] <= view'[t][u]
    BY <1>3, <1>10, <2>1
  <2> QED
    BY <1>3, <2>1, <2>2, NowKnown
<1>12. LeaversKnown'
  <2> SUFFICES ASSUME NEW c \in Ends, OnSide(c)' # {}, NEW u \in Side(c), ~Counted(u)'
               PROVE  pc'[u] \in Out /\ Final(c)'.view[u] = view'[u][u]
    BY DEF LeaversKnown, Side
  <2>1. CASE c # l
    <3>1. u \in Threads \ {t}
      BY <2>1, Sides DEF l
    <3> QED
      BY <1>4, <1>7, <1>8, <2>1, <3>1 DEF LeaversKnown
  <2>2. CASE c = l /\ u # t
    BY <1>4, <1>8, <1>10, <1>11, <2>2, Sides
  <2>3. CASE c = l /\ u = t
    <3>1. Latest(l) # 1
      BY <1>7, <1>9, <2>3
    <3> QED
      BY <1>5, <1>8, <2>3, <3>1 DEF Out
  <2> QED
    BY <2>1, <2>2, <2>3
<1>13. \A u, w \in Threads :
         u # t /\ view[w][u] = view[u][u] => view'[w][u] = view'[u][u]
  BY <1>3, <1>4, StillKnown
<1>14. \A w \in Threads \ {t} : pc'[w] \in Closing \cup {"free"} => Count(w) # l
  BY <1>1, <1>4 DEF LastKnows
<1>15. LastKnows'
  <2> SUFFICES ASSUME NEW w \in Threads, pc'[w] \in Closing \cup {"free"}, NEW u \in Side(Count(w))
               PROVE  (u = w \/ pc'[u] \in Out) /\ view'[w][u] = view'[u][u]
    BY DEF LastKnows, Side
  <2>1. CASE w # t
    <3>1. u \in Threads \ {t}
      BY <1>14, <2>1, Sides DEF l
    <3> QED
      BY <1>4, <1>13, <2>1, <3>1 DEF LastKnows
  <2>2. CASE w = t /\ u # t
    <3>1. Latest(l) = 1 /\ u \in Side(l)
      BY <1>5, <2>2 DEF l, Closing
    <3>2. ~Counted(u)
      BY <1>9, <2>2, <3>1 DEF OnSide
    <3> QED
      BY <1>1, <1>4, <1>10, <1>11, <2>2, <3>1, <3>2, Sides
  <2> QED
    BY <2>1, <2>2
<1>16. \A c \in Ends : \A v : Left(c, v) => c # l /\ \A u \in Side(c) : u \in Threads \ {t}
  BY <1>1, Sides DEF Left, l
<1>17. SwapKnown'
  BY <1>4, <1>8, <1>16 DEF SwapKnown, Left, Side
<1>18. FreeKnows'
  <2> SUFFICES ASSUME NEW w \in Threads, pc'[w] = "free"
               PROVE  \E c \in Ends : c # Count(w) /\ Left(c, view[w])'
    BY DEF FreeKnows
  <2>1. w # t
    BY <1>5 DEF Closing
  <2>2. PICK c \in Ends : c # Count(w) /\ Left(c, view[w])
    BY <1>4, <2>1 DEF FreeKnows
  <2> QED
    BY <1>4, <1>13, <1>16, <2>2 DEF Left, Side
<1> QED
  BY <1>6, <1>9, <1>12, <1>15, <1>17, <1>18

LEMMA SwapKeeps ==
  ASSUME Sound, Departures, NEW t \in Threads, Swap(t)
  PROVE  Sound' /\ Departures'
<1> USE DEF Departures
<1> DEFINE l == Count(t)
<1>1. /\ pc[t] = "swap" /\ AcqRel(t, Connected, FALSE) /\ UNCHANGED rest
      /\ pc' = [pc EXCEPT ![t] = IF Latest(Connected) THEN "gone" ELSE "free"]
      /\ pc \in [Threads -> Steps]
  BY DEF Swap, Disconnect, Goto, Sound, CallTypes
<1>2. l \in Ends /\ t \in Side(l) /\ Connected \in Locations /\ FALSE \in Values
  BY Sides, Names DEF Values
<1>3. /\ Moves(t)
      /\ \A k \in Locations \ {Connected} : mem'[k] = mem[k] /\ Final(k)' = Final(k)
      /\ Final(Connected)' = [val |-> FALSE, view |-> view'[t]]
      /\ \A c \in Clocks : Final(Connected).view[c] <= view'[t][c]
  BY <1>1, <1>2, Wrote DEF Sound
<1> HIDE DEF l
<1>4. \A u \in Threads \ {t} : view'[u] = view[u] /\ pc'[u] = pc[u]
  BY <1>1, <1>3 DEF Moves
<1>5. /\ Latest(Connected) => pc'[t] = "gone"
      /\ ~Latest(Connected) => pc'[t] = "free"
  BY <1>1
<1>6. Sound'
  <2>1. (IF Latest(Connected) THEN "gone" ELSE "free") \in Steps \ {"absent", "unborn"}
    BY DEF Steps
  <2> QED
    BY <1>1, <1>3, <2>1, Names, MovesKeepsSound
<1>7. \A u \in Threads : Counted(u)' <=> Counted(u)
  BY <1>1, <1>4, <1>5 DEF Counted, Out, Closing
<1>8. \A c \in Ends : /\ OnSide(c)' = OnSide(c) /\ Final(c)' = Final(c)
                      /\ Latest(c)' = Latest(c)
  BY <1>3, <1>7, Sides DEF OnSide, Side, Latest
<1>9. CountsRight'
  BY <1>8 DEF CountsRight
<1>10. \A u \in Side(l) : /\ u = t \/ pc[u] \in Out
                          /\ view[t][u] = view[u][u]
  BY <1>1 DEF LastKnows, l, Closing
<1>11. \A c \in Ends \ {l} : \A u \in Side(c) : u \in Threads \ {t}
  BY Sides DEF l
<1>12. LeaversKnown'
  <2>1. OnSide(l) = {}
    BY <1>1, <1>10 DEF OnSide, Counted, Closing
  <2> QED
    BY <1>4, <1>7, <1>8, <1>11, <2>1 DEF LeaversKnown, Side
<1>13. \A u, w \in Threads :
         u # t /\ view[w][u] = view[u][u] => view'[w][u] = view'[u][u]
  BY <1>3, <1>4, StillKnown
<1>14. \A c \in Ends : \A v : Left(c, v) => c # l
  BY <1>1, <1>2 DEF Left, Out
<1>15. \A u \in Side(l) : (u = t \/ pc'[u] \in Out) /\ view'[t][u] = view'[u][u]
  BY <1>2, <1>4, <1>10, <1>13, Sides
<1>16. LastKnows'
  <2> SUFFICES ASSUME NEW w \in Threads, pc'[w] \in Closing \cup {"free"}, NEW u \in Side(Count(w))
               PROVE  (u = w \/ pc'[u] \in Out) /\ view'[w][u] = view'[u][u]
    BY DEF LastKnows, Side
  <2>1. CASE w = t
    BY <1>15, <2>1 DEF l
  <2>2. CASE w # t
    <3>1. pc[w] \in Closing \cup {"free"}
      BY <1>4, <2>2
    <3>2. Count(w) # l
      BY <1>1, <1>2, <2>2, <3>1 DEF LastKnows, Out
    <3> QED
      BY <1>4, <1>11, <1>13, <2>2, <3>1, <3>2, Sides DEF LastKnows
  <2> QED
    BY <2>1, <2>2
<1>17. Final(Connected)'.view = view'[t]
  BY <1>3
<1>18. ~Latest(Connected) => \E c \in Ends \ {l} : Left(c, view[t])'
  <2> SUFFICES ASSUME ~Latest(Connected) PROVE \E c \in Ends \ {l} : Left(c, view[t])'
    OBVIOUS
  <2>1. PICK c \in Ends : Left(c, Final(Connected).view)
    BY DEF SwapKnown
  <2>2. c # l
    BY <1>14, <2>1
  <2>3. ASSUME NEW u \in Side(c) PROVE pc'[u] \in Out /\ view'[t][u] = view'[u][u]
    <3>1. u \in Threads \ {t} /\ u \in Clocks
      BY <1>11, <2>2, Names
    <3>2. pc[u] \in Out /\ Final(Connected).view[u] = view[u][u]
      BY <2>1 DEF Left
    <3>3. view'[u][u] = view[u][u] /\ Final(Connected).view[u] <= view'[t][u]
      BY <1>3, <1>4, <3>1
    <3> QED
      BY <1>3, <1>4, <3>1, <3>2, <3>3, NowKnown
  <2> QED
    BY <2>2, <2>3 DEF Left, Side
<1>19. SwapKnown'
  <2>1. CASE Latest(Connected)
    BY <1>2, <1>5, <1>15, <1>17, <2>1 DEF SwapKnown, Left, Side, Out
  <2>2. CASE ~Latest(Connected)
    BY <1>17, <1>18, <2>2 DEF SwapKnown, Left, Side
  <2> QED
    BY <2>1, <2>2
<1>20. FreeKnows'
  <2> SUFFICES ASSUME NEW w \in Threads, pc'[w] = "free"
               PROVE  \E c \in Ends : c # Count(w) /\ Left(c, view[w])'
    BY DEF FreeKnows
  <2>1. CASE w = t
    BY <1>5, <1>18, <2>1 DEF l
  <2>2. CASE w # t
    <3>1. PICK c \in Ends : c # Count(w) /\ Left(c, view[w])
      BY <1>4, <2>2 DEF FreeKnows
    <3> QED
      BY <1>4, <1>11, <1>13, <1>14, <3>1 DEF Left, Side
  <2> QED
    BY <2>1, <2>2
<1> QED
  BY <1>6, <1>9, <1>12, <1>16, <1>19, <1>20

LEMMA FreeKeeps ==
  ASSUME Sound, Departures, NEW t \in Threads, Free(t)
  PROVE  Sound' /\ Departures'
<1> USE DEF Departures
<1>1. /\ pc[t] = "free" /\ pc' = [pc EXCEPT ![t] = "gone"] /\ UNCHANGED rest
      /\ mem' = mem /\ view' = view /\ pc \in [Threads -> Steps]
  BY DEF Free, Goto, Sound, CallTypes
<1>2. Moves(t)
  BY NothingMoved DEF Free, Quiet
<1>3. Sound'
  BY <1>1, <1>2, MovesKeepsSound DEF Steps
<1>4. /\ \A u \in Threads : Counted(u)' <=> Counted(u)
      /\ \A u \in Threads : pc[u] \in Out => pc'[u] \in Out
      /\ \A u \in Threads : pc'[u] \in Closing \cup {"free"} => pc'[u] = pc[u]
  BY <1>1 DEF Counted, Closing, Out
<1>5. \A c \in Ends : OnSide(c)' = OnSide(c)
  BY <1>4, Sides DEF OnSide, Side
<1>6. \A l : Final(l)' = Final(l) /\ Latest(l)' = Latest(l)
  BY <1>1 DEF Final, Latest
<1>7. CountsRight'
  BY <1>5, <1>6 DEF CountsRight
<1>8. LeaversKnown'
  BY <1>1, <1>4, <1>5, <1>6, Sides DEF LeaversKnown, Side
<1>9. LastKnows'
  BY <1>1, <1>4, Sides DEF LastKnows, Side
<1>10. SwapKnown'
  BY <1>1, <1>4, <1>6, Sides DEF SwapKnown, Left, Side
<1>11. FreeKnows'
  BY <1>1, <1>4, Sides DEF FreeKnows, Left, Side
<1> QED
  BY <1>3, <1>7, <1>8, <1>9, <1>10, <1>11

LEMMA Starting == Init => Sound /\ Departures
<1> SUFFICES ASSUME Init PROVE Sound /\ Departures
  OBVIOUS
<1> DEFINE zero == [l \in Clocks |-> 0]
<1>1. PICK start \in Starts :
  /\ mem = [l \in Locations |->
              Start(CASE l = Senders   -> Cardinality(Tx \cap start.here)
                      [] l = Receivers -> Cardinality(Rx \cap start.here)
                      [] l = Connected -> TRUE
                      [] l = Buffer    -> 0
                      [] OTHER         -> FALSE)]
  /\ view = [t \in Threads |-> [l \in Clocks |-> IF l \in Locations THEN 1 ELSE 0]]
  /\ fences = [l \in Clocks |-> 0]
  /\ pc = [t \in Threads |-> CASE t \in start.here   -> "idle"
                               [] t \in start.unborn -> "unborn"
                               [] OTHER              -> "absent"]
  /\ ahead = [t \in Threads |-> {}]
  /\ hungup = [r \in Rx |-> FALSE]
  /\ woken = [r \in Rx |-> <<>>]
  BY DEF Init
<1>2. /\ start.here \subseteq Threads /\ start.here \cap Tx # {} /\ start.here \cap Rx # {}
      /\ start.unborn \subseteq Threads \ start.here
      /\ IsFiniteSet(Tx) /\ IsFiniteSet(Rx)
  BY OrderingsAssumption
<1>3. /\ Cardinality(Tx \cap start.here) \in Nat /\ Cardinality(Rx \cap start.here) \in Nat
  BY <1>2, FS_Intersection, FS_CardinalityType
<1>4. zero \in Views /\ \A c \in Clocks : zero[c] = 0
  BY DEF Views
<1>5. \A value : Start(value) = <<[val |-> value, view |-> zero]>>
  BY DEF Start
<1> HIDE DEF zero
<1> DEFINE first(l) == CASE l = Senders   -> Cardinality(Tx \cap start.here)
                         [] l = Receivers -> Cardinality(Rx \cap start.here)
                         [] l = Connected -> TRUE
                         [] l = Buffer    -> 0
                         [] OTHER         -> FALSE
<1>6. \A l \in Locations : first(l) \in Values /\ mem[l] = <<[val |-> first(l), view |-> zero]>>
  <2>1. first(Senders) \in Values /\ first(Receivers) \in Values /\ first(Buffer) \in Values
    BY <1>3, Names DEF Values
  <2>2. first(Connected) = TRUE
    BY Names
  <2>4. \A r \in Rx : first(Slot(r)) = FALSE
    BY Names
  <2>5. \A l \in Locations : first(l) \in Values
    BY <2>1, <2>2, <2>4 DEF Values, Locations
  <2>3. \A l \in Locations : mem[l] = Start(first(l))
    BY <1>1
  <2> HIDE DEF first
  <2> QED
    BY <1>5, <2>3, <2>5
<1> HIDE DEF first
<1>7. \A l \in Locations : /\ Len(mem[l]) = 1 /\ DOMAIN mem[l] = {1} /\ mem[l] # <<>>
                           /\ mem[l][1].view = zero /\ mem[l][1].val = first(l)
                           /\ mem[l] \in Seq([val : Values, view : Views])
  <2> SUFFICES ASSUME NEW l \in Locations
               PROVE  /\ Len(mem[l]) = 1 /\ DOMAIN mem[l] = {1} /\ mem[l] # <<>>
                      /\ mem[l][1].view = zero /\ mem[l][1].val = first(l)
                      /\ mem[l] \in Seq([val : Values, view : Views])
    OBVIOUS
  <2> DEFINE e == [val |-> first(l), view |-> zero]
             entries == [val : Values, view : Views]
  <2>1. mem[l] = <<e>> /\ e \in entries /\ e.view = zero /\ e.val = first(l)
    BY <1>4, <1>6
  <2> HIDE DEF e, entries
  <2>2. /\ Len(mem[l]) = 1 /\ DOMAIN mem[l] = {1} /\ mem[l] # <<>>
        /\ mem[l][1].view = zero /\ mem[l][1].val = first(l) /\ mem[l] \in Seq(entries)
    BY <2>1
  <2> QED
    BY <2>2 DEF entries
<1>8. MemTypes
  BY <1>1, <1>7 DEF MemTypes, Views
<1>9. \A t \in Threads : \A c \in Clocks : view[t][c] = IF c \in Locations THEN 1 ELSE 0
  BY <1>1
<1>10. \A c \in Clocks : Limit(c) = IF c \in Locations THEN 1 ELSE 0
  BY <1>7, <1>9, Names DEF Limit, Clocks
<1>11. MemBounded
  <2>1. \A c \in Clocks : Limit(c) >= 0
    BY <1>10
  <2>2. Bounded(zero) /\ fences = zero
    BY <1>1, <1>4, <2>1 DEF Bounded, zero
  <2>3. \A t \in Threads : Bounded(view[t])
    BY <1>9, <1>10 DEF Bounded
  <2> QED
    BY <1>7, <2>2, <2>3 DEF MemBounded
<1>12. CallTypes
  BY <1>1 DEF CallTypes, Steps
<1>13. Sound
  <2>1. WakesBounded
    BY <1>1 DEF WakesBounded
  <2>2. mem[Buffer] = <<[val |-> 0, view |-> zero]>>
    BY <1>1, <1>5, Names
  <2>3. Lengths
    BY <2>2 DEF Lengths
  <2>4. NothingWritten
    BY <1>9, Names DEF NothingWritten
  <2> QED
    BY <1>8, <1>11, <1>12, <2>1, <2>3, <2>4 DEF Sound, Tidy
<1>14. \A t \in Threads : /\ Counted(t) <=> t \in start.here
                          /\ pc[t] \in Out \/ Counted(t)
                          /\ pc[t] \notin Closing \cup {"free"}
  <2>1. \A t \in Threads : \/ t \in start.here /\ pc[t] = "idle"
                           \/ t \notin start.here /\ pc[t] \in {"unborn", "absent"}
    BY <1>1, <1>2
  <2> QED
    BY <2>1 DEF Counted, Out, Closing
<1>15. OnSide(Senders) = Tx \cap start.here /\ OnSide(Receivers) = Rx \cap start.here
  BY <1>14, Sides, Names DEF OnSide, Side, Ends
<1>16. CountsRight
  <2>1. \A l \in Locations : Latest(l) = first(l)
    BY <1>7 DEF Latest, Final
  <2>2. first(Senders) = Cardinality(Tx \cap start.here)
    BY Names DEF first
  <2>3. first(Receivers) = Cardinality(Rx \cap start.here)
    BY Names DEF first
  <2> QED
    BY <1>15, <2>1, <2>2, <2>3, Names DEF CountsRight, Ends
<1>17. LeaversKnown
  <2>1. \A c \in Ends : \A u \in Side(c) : Final(c).view[u] = 0 /\ view[u][u] = 0
    BY <1>4, <1>7, <1>9, Sides, Names DEF Final
  <2> QED
    BY <1>14, <2>1, Sides DEF LeaversKnown
<1>18. LastKnows /\ FreeKnows
  BY <1>14 DEF LastKnows, FreeKnows
<1>19. SwapKnown
  <2>1. mem[Connected] = <<[val |-> TRUE, view |-> zero]>>
    BY <1>1, <1>5, Names
  <2> QED
    BY <2>1 DEF SwapKnown, Latest, Final
<1> QED
  BY <1>13, <1>16, <1>17, <1>18, <1>19 DEF Departures

LEMMA AlwaysDepartures == Spec => [](Sound /\ Departures)
<1> DEFINE Inv == Sound /\ Departures
<1>1. Init => Inv
  BY Starting
<1>2. Inv /\ [Next]_vars => Inv'
  <2> SUFFICES ASSUME Sound, Departures, [Next]_vars PROVE Sound' /\ Departures'
    OBVIOUS
  <2>1. ASSUME NEW t \in Threads, QuietStep(t) PROVE Sound' /\ Departures'
    BY <2>1, QuietKeeps
  <2>2. ASSUME NEW s \in Tx, Send(s) \/ Push(s) \/ Fence(s) \/ Hangup(s)
        PROVE  Sound' /\ Departures'
    BY <2>1, <2>2, SendSteps, Names
  <2>3. ASSUME NEW s \in Tx, DropTx(s) PROVE Sound' /\ Departures'
    <3>1. s \in Threads /\ Count(s) = Senders
      BY Names DEF Count
    <3>2. Counted(s) /\ CountDown(s) /\ UNCHANGED rest
          /\ pc' = [pc EXCEPT ![s] = IF Latest(Count(s)) = 1 THEN "hangup" ELSE "gone"]
      BY <2>3, <3>1 DEF DropTx, Goto, Counted, Out, Closing
    <3> QED
      BY <3>1, <3>2, CountDownKeeps DEF Closing
  <2>4. ASSUME NEW r \in Rx, Leave(r) PROVE Sound' /\ Departures'
    <3>1. r \in Threads /\ Count(r) = Receivers
      BY Names, OrderingsAssumption DEF Count
    <3>2. Counted(r) /\ CountDown(r) /\ UNCHANGED rest
          /\ pc' = [pc EXCEPT ![r] = IF Latest(Count(r)) = 1 THEN "swap" ELSE "gone"]
      BY <2>4, <3>1 DEF Leave, Goto, Counted, Out, Closing
    <3> QED
      BY <3>1, <3>2, CountDownKeeps DEF Closing
  <2>5. ASSUME NEW r \in Rx,
               \/ Load(r) \/ Pop(r) \/ FindEmpty(r) \/ Insert(r) \/ Barrier(r)
               \/ RemoveWaker(r) \/ RemoveNone(r) \/ Resume(r) \/ DropRx(r)
        PROVE  Sound' /\ Departures'
    BY <2>1, <2>5, PollSteps, Names
  <2>6. ASSUME NEW t \in Threads, PassSlot(t) \/ FindNoWaker(t) \/ TakeWaker(t)
        PROVE  Sound' /\ Departures'
    BY <2>1, <2>6, ScanSteps
  <2>7. CASE UNCHANGED vars
    <3>1. /\ mem' = mem /\ view' = view /\ fences' = fences /\ pc' = pc
          /\ ahead' = ahead /\ hungup' = hungup /\ woken' = woken
      BY <2>7 DEF vars
    <3>2. Sound'
      BY <3>1 DEF Sound, Tidy, MemTypes, MemBounded, Bounded, Limit, CallTypes,
         WakesBounded, Lengths, NothingWritten
    <3>3. \A c : OnSide(c)' = OnSide(c) /\ Latest(c)' = Latest(c) /\ Final(c)' = Final(c)
      BY <3>1 DEF OnSide, Counted, Latest, Final
    <3>4. CountsRight' /\ LeaversKnown' /\ LastKnows'
      BY <3>1, <3>3 DEF Departures, CountsRight, LeaversKnown, LastKnows, Counted
    <3>5. SwapKnown' /\ FreeKnows'
      BY <3>1, <3>3 DEF Departures, SwapKnown, FreeKnows, Left
    <3> QED
      BY <3>2, <3>4, <3>5 DEF Departures
  <2> QED
    BY <2>2, <2>3, <2>4, <2>5, <2>6, <2>7, CloneKeeps, SwapKeeps, FreeKeeps DEF Next
<1> QED
  BY <1>1, <1>2, PTL DEF Spec

\* Everything that any endpoint did to the control block happens before it is
\* freed: the countdowns and the swap of the drops are ordered strongly enough.
THEOREM FreedLast == Spec => []FreedAfterEveryAccess
<1>1. Sound /\ Departures => FreedAfterEveryAccess
  <2> SUFFICES ASSUME Departures, NEW t \in Threads, pc[t] = "free", NEW u \in Threads
               PROVE  view[t][u] = view[u][u]
    BY DEF FreedAfterEveryAccess
  <2>1. PICK c \in Ends : c # Count(t) /\ Left(c, view[t])
    BY DEF Departures, FreeKnows
  <2>2. CASE Count(u) = Count(t)
    BY <2>2, Sides DEF Departures, LastKnows
  <2>3. CASE Count(u) # Count(t)
    BY <2>1, <2>3, Sides DEF Left, Ends
  <2> QED
    BY <2>2, <2>3
<1> QED
  BY <1>1, AlwaysDepartures, PTL

-----------------------------------------------------------------------------
\* A receiver that reports the end has seen every push.

IsPush(i) == i \in 2..Len(mem[Buffer]) /\ mem[Buffer][i].val > mem[Buffer][i - 1].val

\* Every push is known to a sender that is still counted, or is released by
\* the count of the senders.
PushesReleased == \A i : IsPush(i) =>
  \/ \E s \in OnSide(Senders) : i <= view[s][Buffer]
  \/ i <= Final(Senders).view[Buffer]

\* A count of zero is never left again.
ZeroIsFinal == \A i \in 1..(Len(mem[Senders]) - 1) : mem[Senders][i].val # 0

\* A buffer that was empty after the last push still is.
EmptyIsFinal == \A i \in DOMAIN mem[Buffer] :
  mem[Buffer][i].val = 0 /\ (\A j : IsPush(j) => j <= i) => Latest(Buffer) = 0

\* Whoever reads that the senders have hung up reads that every push was made.
HangupComesAfter == \A r \in Rx : hungup[r] /\ pc[r] \in {"pop", "repop"} =>
  OnSide(Senders) = {} /\ \A j : IsPush(j) => j <= view[r][Buffer]

ClosedIsOver == \A r \in Rx : pc[r] = "closed" => OnSide(Senders) = {} /\ Latest(Buffer) = 0

Endings == /\ PushesReleased /\ ZeroIsFinal /\ EmptyIsFinal
           /\ HangupComesAfter /\ ClosedIsOver

\* Steps that concern neither the buffer nor the count of the senders.
Aside(t) ==
  /\ mem'[Buffer] = mem[Buffer] /\ mem'[Senders] = mem[Senders]
  /\ OnSide(Senders)' = OnSide(Senders)
  /\ \A u \in Threads : pc[u] \notin Out => view[u][Buffer] <= view'[u][Buffer]

Polling(r) == hungup[r] /\ pc[r] \in {"pop", "repop"}

LEMMA BufferTypes ==
  ASSUME Sound
  PROVE  /\ Len(mem[Buffer]) \in Nat \ {0} /\ DOMAIN mem[Buffer] = 1..Len(mem[Buffer])
         /\ \A i \in DOMAIN mem[Buffer] : mem[Buffer][i].val \in Nat
         /\ Latest(Buffer) = mem[Buffer][Len(mem[Buffer])].val /\ Latest(Buffer) \in Nat
         /\ \A u \in Threads : view[u][Buffer] \in Nat
         /\ Final(Senders).view[Buffer] \in Nat
<1>1. MemTypes /\ Buffer \in Locations /\ Senders \in Locations /\ Buffer \in Clocks
  BY Names DEF Sound, Tidy
<1>2. \A u \in Threads : view[u][Buffer] \in Nat
  BY <1>1 DEF MemTypes, Views
<1>3. Final(Senders).view[Buffer] \in Nat
  BY <1>1, Recorded DEF Views
<1> QED
  BY <1>1, <1>2, <1>3, Recorded DEF Sound, Lengths, Latest, Final

LEMMA MovesGrow ==
  ASSUME Sound, NEW t \in Threads, Moves(t)
  PROVE  \A u \in Threads : view[u][Buffer] <= view'[u][Buffer] /\ view'[u][Buffer] \in Nat
<1>1. Buffer \in Clocks
  BY Names
<1>2. \A u \in Threads : view'[u][Buffer] \in Nat
  BY <1>1 DEF Moves, Tidy, MemTypes, Views
<1> QED
  BY <1>1, <1>2, BufferTypes DEF Moves

LEMMA AsideKeeps ==
  ASSUME Sound, Endings, Sound', NEW t \in Threads, Aside(t),
         \A r \in Rx : Polling(r)' => Polling(r) /\ pc[r] \notin Out,
         \A r \in Rx : pc'[r] = "closed" => pc[r] = "closed"
  PROVE  Endings'
<1> USE DEF Endings
<1>1. /\ \A i : IsPush(i)' <=> IsPush(i)
      /\ Latest(Buffer)' = Latest(Buffer) /\ Final(Senders)' = Final(Senders)
  BY DEF Aside, IsPush, Latest, Final
<1>2. \A u \in Threads : view[u][Buffer] \in Nat /\ view'[u][Buffer] \in Nat
  BY BufferTypes, Names DEF Sound, Tidy, MemTypes, Views
<1>3. PushesReleased'
  <2> SUFFICES ASSUME NEW i, IsPush(i)
               PROVE  \/ \E s \in OnSide(Senders) : i <= view'[s][Buffer]
                      \/ i <= Final(Senders).view[Buffer]
    BY <1>1 DEF PushesReleased, Aside
  <2>1. CASE i <= Final(Senders).view[Buffer]
    BY <2>1
  <2>2. ASSUME NEW s \in OnSide(Senders), i <= view[s][Buffer]
        PROVE  i <= view'[s][Buffer]
    <3>1. s \in Threads /\ pc[s] \notin Out
      BY Sides DEF OnSide, Counted, Ends
    <3>2. i \in Nat
      BY BufferTypes DEF IsPush
    <3> QED
      BY <1>2, <2>2, <3>1, <3>2 DEF Aside
  <2> QED
    BY <2>1, <2>2 DEF PushesReleased
<1>4. ZeroIsFinal' /\ EmptyIsFinal'
  BY <1>1 DEF ZeroIsFinal, EmptyIsFinal, Aside
<1>5. HangupComesAfter'
  <2> SUFFICES ASSUME NEW r \in Rx, Polling(r)'
               PROVE  OnSide(Senders) = {} /\ \A j : IsPush(j) => j <= view'[r][Buffer]
    BY <1>1 DEF HangupComesAfter, Polling, Aside
  <2>1. r \in Threads /\ Polling(r) /\ pc[r] \notin Out
    BY Names
  <2>2. OnSide(Senders) = {} /\ \A j : IsPush(j) => j <= view[r][Buffer]
    BY <2>1 DEF HangupComesAfter, Polling
  <2>3. view[r][Buffer] <= view'[r][Buffer]
    BY <2>1 DEF Aside
  <2>4. \A j : IsPush(j) => j \in Nat
    BY BufferTypes DEF IsPush
  <2> QED
    BY <1>2, <2>1, <2>2, <2>3, <2>4
<1>6. ClosedIsOver'
  BY <1>1 DEF ClosedIsOver, Aside
<1> QED
  BY <1>3, <1>4, <1>5, <1>6

LEMMA SameCounted ==
  ASSUME NEW t \in Threads, QuietStep(t)
  PROVE  \A c \in Ends : OnSide(c)' = OnSide(c)
<1>1. \A u \in Threads : Counted(u)' <=> Counted(u)
  BY DEF QuietStep, StaysInStage, Counted
<1> QED
  BY <1>1, Sides DEF OnSide, Side

LEMMA AsideMoves ==
  ASSUME Sound, NEW t \in Threads, Moves(t), OnSide(Senders)' = OnSide(Senders),
         mem'[Buffer] = mem[Buffer], mem'[Senders] = mem[Senders]
  PROVE  Aside(t)
BY MovesGrow DEF Aside

LEMMA EndingsOfPush ==
  ASSUME Sound, Departures, Endings, Sound', NEW s \in Tx, Push(s)
  PROVE  Endings'
<1> USE DEF Endings
<1> DEFINE n == Len(mem[Buffer])
<1>1. Sound /\ s \in Threads /\ Buffer \in Locations /\ Senders \in Locations
  BY Names
<1>2. Latest(Buffer) \in Nat /\ n \in Nat \ {0} /\ DOMAIN mem[Buffer] = 1..n
      /\ (\A i \in 1..n : mem[Buffer][i].val \in Nat) /\ Latest(Buffer) = mem[Buffer][n].val
  BY BufferTypes
<1>3. AcqRel(s, Buffer, Latest(Buffer) + 1) /\ pc[s] = "push"
      /\ pc' = [pc EXCEPT ![s] = "fence"] /\ UNCHANGED rest
  BY DEF Push, Goto
<1>4. /\ Moves(s) /\ mem'[Senders] = mem[Senders]
      /\ Final(Buffer)' = [val |-> Latest(Buffer) + 1, view |-> view'[s]]
      /\ Len(mem'[Buffer]) = n + 1 /\ DOMAIN mem'[Buffer] = 1..n + 1
      /\ \A i \in DOMAIN mem[Buffer] : mem'[Buffer][i] = mem[Buffer][i]
      /\ mem'[Buffer][n + 1] = [val |-> Latest(Buffer) + 1, view |-> view'[s]]
      /\ view'[s][Buffer] = n + 1
  BY <1>1, <1>2, <1>3, Names, Wrote DEF Values, Sound
<1> HIDE DEF n
<1>5. s \in OnSide(Senders) /\ OnSide(Senders)' = OnSide(Senders)
  BY <1>1, <1>3, SendSteps, SameCounted, Names
     DEF OnSide, Side, Counted, Out, Closing, Ends
<1>6. \A i \in 1..n : mem'[Buffer][i].val = mem[Buffer][i].val
  BY <1>2, <1>4
<1>7. \A i : IsPush(i)' <=> IsPush(i) \/ i = n + 1
  <2>1. \A i \in 2..n : i \in 1..n /\ i - 1 \in 1..n
    BY <1>2
  <2>2. \A i \in 2..n : IsPush(i)' <=> IsPush(i)
    <3> SUFFICES ASSUME NEW i \in 2..n PROVE IsPush(i)' <=> IsPush(i)
      OBVIOUS
    <3>1. /\ i \in 2..Len(mem[Buffer]) /\ i \in 2..Len(mem'[Buffer])
          /\ mem'[Buffer][i].val = mem[Buffer][i].val
          /\ mem'[Buffer][i - 1].val = mem[Buffer][i - 1].val
      BY <1>2, <1>4, <1>6, <2>1 DEF n
    <3> QED
      BY <3>1 DEF IsPush
  <2>3. \A i : i = n + 1 => IsPush(i)'
    BY <1>2, <1>4, <1>6 DEF IsPush
  <2>4. \A i : IsPush(i)' => i \in 2..n + 1
    BY <1>4 DEF IsPush
  <2>5. \A i : IsPush(i) => i \in 2..n
    BY DEF IsPush, n
  <2> QED
    BY <1>2, <2>2, <2>3, <2>4, <2>5
<1>8. PushesReleased'
  <2> SUFFICES ASSUME NEW i, IsPush(i)'
               PROVE  \/ \E u \in OnSide(Senders) : i <= view'[u][Buffer]
                      \/ i <= Final(Senders).view[Buffer]
    BY <1>4, <1>5 DEF PushesReleased, Final
  <2>1. CASE i = n + 1
    BY <1>2, <1>4, <1>5, <2>1
  <2>2. CASE IsPush(i)
    <3>1. i \in Nat
      BY <1>2, <2>2 DEF IsPush, n
    <3>2. \A u \in OnSide(Senders) : u \in Threads
      BY Sides DEF OnSide, Ends
    <3> QED
      BY <1>1, <1>4, <2>2, <3>1, <3>2, MovesGrow, BufferTypes DEF PushesReleased
  <2> QED
    BY <1>7, <2>1, <2>2
<1>9. ZeroIsFinal'
  BY <1>4 DEF ZeroIsFinal
<1>10. EmptyIsFinal'
  <2> SUFFICES ASSUME NEW i \in 1..n + 1, mem'[Buffer][i].val = 0, \A j : IsPush(j)' => j <= i
               PROVE  FALSE
    BY <1>4 DEF EmptyIsFinal
  <2>1. n + 1 <= i
    BY <1>7
  <2>2. i = n + 1
    BY <1>2, <2>1
  <2> QED
    BY <1>2, <1>4, <2>2
<1>11. HangupComesAfter' /\ ClosedIsOver'
  BY <1>3, <1>5 DEF HangupComesAfter, ClosedIsOver, rest, Sound, CallTypes
<1> QED
  BY <1>8, <1>9, <1>10, <1>11

LEMMA EndingsOfPop ==
  ASSUME Sound, Endings, Sound', NEW r \in Rx, Pop(r)
  PROVE  Endings'
<1> USE DEF Endings
<1> DEFINE n == Len(mem[Buffer])
<1>1. Sound /\ r \in Threads /\ Buffer \in Locations /\ Senders \in Locations
  BY Names
<1>2. Latest(Buffer) \in Nat /\ n \in Nat \ {0} /\ DOMAIN mem[Buffer] = 1..n
      /\ (\A i \in 1..n : mem[Buffer][i].val \in Nat) /\ Latest(Buffer) = mem[Buffer][n].val
  BY BufferTypes
<1>3. AcqRel(r, Buffer, Latest(Buffer) - 1) /\ Latest(Buffer) > 0
      /\ pc' = [pc EXCEPT ![r] = "remove"] /\ UNCHANGED rest
  BY DEF Pop, Goto
<1>4. /\ Moves(r) /\ mem'[Senders] = mem[Senders]
      /\ Final(Buffer)' = [val |-> Latest(Buffer) - 1, view |-> view'[r]]
      /\ Len(mem'[Buffer]) = n + 1 /\ DOMAIN mem'[Buffer] = 1..n + 1
      /\ \A i \in DOMAIN mem[Buffer] : mem'[Buffer][i] = mem[Buffer][i]
      /\ mem'[Buffer][n + 1] = [val |-> Latest(Buffer) - 1, view |-> view'[r]]
  BY <1>1, <1>2, <1>3, Names, Wrote DEF Values, Sound
<1> HIDE DEF n
<1>5. /\ Latest(Buffer)' = Latest(Buffer) - 1
      /\ mem'[Buffer][n + 1].val = Latest(Buffer) - 1
      /\ \A i \in 1..n : mem'[Buffer][i].val = mem[Buffer][i].val
  <2>1. Latest(Buffer)' = Latest(Buffer) - 1
    BY <1>4 DEF Latest
  <2>2. mem'[Buffer][n + 1].val = Latest(Buffer) - 1
    BY <1>4
  <2> QED
    BY <1>2, <1>4, <2>1, <2>2
<1>6. OnSide(Senders)' = OnSide(Senders)
  BY <1>1, PollSteps, SameCounted DEF Ends
<1>7. \A i : IsPush(i)' <=> IsPush(i)
  <2>1. \A i \in 2..n : i \in 1..n /\ i - 1 \in 1..n
    BY <1>2
  <2>2. \A i \in 2..n : IsPush(i)' <=> IsPush(i)
    <3> SUFFICES ASSUME NEW i \in 2..n PROVE IsPush(i)' <=> IsPush(i)
      OBVIOUS
    <3>1. /\ i \in 2..Len(mem[Buffer]) /\ i \in 2..Len(mem'[Buffer])
          /\ mem'[Buffer][i].val = mem[Buffer][i].val
          /\ mem'[Buffer][i - 1].val = mem[Buffer][i - 1].val
      BY <1>2, <1>4, <1>5, <2>1 DEF n
    <3> QED
      BY <3>1 DEF IsPush
  <2>3. \A i : i = n + 1 => ~IsPush(i)'
    BY <1>2, <1>4, <1>5 DEF IsPush
  <2>4. \A i : IsPush(i)' => i \in 2..n + 1
    BY <1>4 DEF IsPush
  <2>5. \A i : IsPush(i) => i \in 2..n
    BY DEF IsPush, n
  <2> QED
    BY <1>2, <2>2, <2>3, <2>4, <2>5
<1>8. PushesReleased'
  <2> SUFFICES ASSUME NEW i, IsPush(i)
               PROVE  \/ \E u \in OnSide(Senders) : i <= view'[u][Buffer]
                      \/ i <= Final(Senders).view[Buffer]
    BY <1>4, <1>6, <1>7 DEF PushesReleased, Final
  <2>1. i \in Nat
    BY <1>2 DEF IsPush, n
  <2>2. \A u \in OnSide(Senders) : u \in Threads
    BY Sides DEF OnSide, Ends
  <2> QED
    BY <1>1, <1>4, <2>1, <2>2, MovesGrow, BufferTypes DEF PushesReleased
<1>9. ZeroIsFinal'
  BY <1>4 DEF ZeroIsFinal
<1>10. EmptyIsFinal'
  <2> SUFFICES ASSUME NEW i \in 1..n + 1, mem'[Buffer][i].val = 0, \A j : IsPush(j) => j <= i
               PROVE  Latest(Buffer) - 1 = 0
    BY <1>4, <1>5, <1>7 DEF EmptyIsFinal
  <2>1. CASE i = n + 1
    BY <1>5, <2>1
  <2>2. CASE i \in 1..n
    BY <1>2, <1>3, <1>5, <2>2 DEF EmptyIsFinal
  <2> QED
    BY <1>2, <2>1, <2>2
<1>11. HangupComesAfter'
  <2> SUFFICES ASSUME NEW q \in Rx, Polling(q)'
               PROVE  OnSide(Senders) = {} /\ \A j : IsPush(j) => j <= view'[q][Buffer]
    BY <1>6, <1>7 DEF HangupComesAfter, Polling
  <2>1. Polling(q) /\ q # r
    BY <1>3 DEF Polling, rest, Sound, CallTypes
  <2>2. view'[q] = view[q]
    BY <1>4, <2>1, Names DEF Moves
  <2> QED
    BY <2>1, <2>2 DEF HangupComesAfter, Polling
<1>12. ClosedIsOver'
  BY <1>1, <1>3 DEF ClosedIsOver, Sound, CallTypes
<1> QED
  BY <1>8, <1>9, <1>10, <1>11, <1>12

\* A receiver that reads zero comes after all pushes.
LEMMA EndingsOfLoad ==
  ASSUME Sound, Departures, Endings, Sound', NEW r \in Rx, Load(r)
  PROVE  Endings'
<1> USE DEF Endings
<1>1. r \in Threads /\ Senders \in Locations /\ Buffer \in Locations /\ Buffer \in Clocks
  BY Names
<1>2. PICK i \in DOMAIN mem[Senders] :
        /\ Acquire(r, Senders, i)
        /\ hungup' = [hungup EXCEPT ![r] = mem[Senders][i].val = 0]
  BY DEF Load, LoadSenders
<1>3. /\ pc[r] \in {"idle", "reload"}
      /\ pc' = [pc EXCEPT ![r] = IF pc[r] = "idle" THEN "pop" ELSE "repop"]
      /\ hungup \in [Rx -> BOOLEAN] /\ pc \in [Threads -> Steps]
  BY DEF Load, Goto, Sound, CallTypes
<1>4. /\ Quiet(r) /\ mem' = mem
      /\ \A c \in Clocks : mem[Senders][i].view[c] <= view'[r][c]
  BY <1>1, <1>2, Acquired DEF Sound
<1>5. OnSide(Senders)' = OnSide(Senders)
  BY <1>1, PollSteps, SameCounted DEF Ends
<1>6. /\ \A j : IsPush(j)' <=> IsPush(j)
      /\ Latest(Buffer)' = Latest(Buffer) /\ Final(Senders)' = Final(Senders)
  BY <1>4 DEF IsPush, Latest, Final
<1>7. PushesReleased'
  <2> SUFFICES ASSUME NEW j, IsPush(j)
               PROVE  \/ \E u \in OnSide(Senders) : j <= view'[u][Buffer]
                      \/ j <= Final(Senders).view[Buffer]
    BY <1>5, <1>6 DEF PushesReleased
  <2>1. j \in Nat
    BY BufferTypes DEF IsPush
  <2>2. \A u \in OnSide(Senders) : u \in Threads
    BY Sides DEF OnSide, Ends
  <2> QED
    BY <1>1, <1>4, <2>1, <2>2, MovesGrow, BufferTypes DEF PushesReleased, Quiet
<1>8. ZeroIsFinal' /\ EmptyIsFinal'
  BY <1>4, <1>6 DEF ZeroIsFinal, EmptyIsFinal
<1>9. HangupComesAfter'
  <2> SUFFICES ASSUME NEW q \in Rx, Polling(q)'
               PROVE  OnSide(Senders) = {} /\ \A j : IsPush(j) => j <= view'[q][Buffer]
    BY <1>5, <1>6 DEF HangupComesAfter, Polling
  <2>1. CASE q # r
    <3>1. Polling(q)
      BY <1>2, <1>3, <2>1 DEF Polling
    <3>2. view'[q] = view[q]
      BY <1>4, <2>1, Names DEF Quiet, Moves
    <3> QED
      BY <3>1, <3>2 DEF HangupComesAfter, Polling
  <2>2. CASE q = r
    <3>1. mem[Senders][i].val = 0
      BY <1>2, <1>3, <2>2 DEF Polling
    <3>2. i = Len(mem[Senders]) /\ mem[Senders][i] = Final(Senders)
      <4>1. DOMAIN mem[Senders] = 1..Len(mem[Senders]) /\ Len(mem[Senders]) \in Nat
        BY <1>1, Recorded DEF Sound, Tidy
      <4> QED
        BY <1>2, <3>1, <4>1 DEF ZeroIsFinal, Final
    <3>3. OnSide(Senders) = {}
      BY <3>1, <3>2, CountIsNat DEF Departures, Ends, Latest
    <3>4. \A j : IsPush(j) => j <= Final(Senders).view[Buffer] /\ j \in Nat
      BY <3>3, BufferTypes DEF PushesReleased, IsPush
    <3>5. Final(Senders).view[Buffer] <= view'[r][Buffer] /\ view'[r][Buffer] \in Nat
      BY <1>1, <1>4, <3>2, MovesGrow DEF Quiet
    <3> QED
      BY <2>2, <3>3, <3>4, <3>5, BufferTypes
  <2> QED
    BY <2>1, <2>2
<1>10. ClosedIsOver'
  BY <1>3, <1>5, <1>6 DEF ClosedIsOver
<1> QED
  BY <1>7, <1>8, <1>9, <1>10

\* What a pop finds after the last push is the end, however old it is.
LEMMA EndingsOfEmpty ==
  ASSUME Sound, Endings, Sound', NEW r \in Rx, FindEmpty(r)
  PROVE  Endings'
<1> USE DEF Endings
<1>1. r \in Threads /\ Buffer \in Locations
  BY Names
<1>2. PICK i \in DOMAIN mem[Buffer] : mem[Buffer][i].val = 0 /\ Acquire(r, Buffer, i)
  BY DEF FindEmpty
<1>3. /\ pc[r] \in {"pop", "repop"} /\ pc \in [Threads -> Steps] /\ hungup' = hungup
      /\ pc' = [pc EXCEPT ![r] = IF hungup[r] THEN "closed"
                                 ELSE IF pc[r] = "pop" THEN "insert" ELSE "parked"]
  BY DEF FindEmpty, Goto, Sound, CallTypes, rest
<1>4. Quiet(r) /\ mem' = mem
  BY <1>1, <1>2, Acquired DEF Sound
<1>5. OnSide(Senders)' = OnSide(Senders)
  BY <1>1, PollSteps, SameCounted DEF Ends
<1>6. /\ \A j : IsPush(j)' <=> IsPush(j)
      /\ Latest(Buffer)' = Latest(Buffer) /\ Final(Senders)' = Final(Senders)
  BY <1>4 DEF IsPush, Latest, Final
<1>7. PushesReleased'
  <2> SUFFICES ASSUME NEW j, IsPush(j)
               PROVE  \/ \E u \in OnSide(Senders) : j <= view'[u][Buffer]
                      \/ j <= Final(Senders).view[Buffer]
    BY <1>5, <1>6 DEF PushesReleased
  <2>1. j \in Nat
    BY BufferTypes DEF IsPush
  <2>2. \A u \in OnSide(Senders) : u \in Threads
    BY Sides DEF OnSide, Ends
  <2> QED
    BY <1>1, <1>4, <2>1, <2>2, MovesGrow, BufferTypes DEF PushesReleased, Quiet
<1>8. ZeroIsFinal' /\ EmptyIsFinal'
  BY <1>4, <1>6 DEF ZeroIsFinal, EmptyIsFinal
<1>9. HangupComesAfter'
  <2> SUFFICES ASSUME NEW q \in Rx, Polling(q)'
               PROVE  OnSide(Senders) = {} /\ \A j : IsPush(j) => j <= view'[q][Buffer]
    BY <1>5, <1>6 DEF HangupComesAfter, Polling
  <2>1. q # r /\ Polling(q)
    BY <1>1, <1>3 DEF Polling
  <2>2. view'[q] = view[q]
    BY <1>4, <2>1, Names DEF Quiet, Moves
  <2> QED
    BY <2>1, <2>2 DEF HangupComesAfter, Polling
<1>10. ClosedIsOver'
  <2>1. ASSUME hungup[r] PROVE OnSide(Senders) = {} /\ Latest(Buffer) = 0
    <3>1. OnSide(Senders) = {} /\ \A j : IsPush(j) => j <= view[r][Buffer]
      BY <1>3, <2>1 DEF HangupComesAfter
    <3>2. view[r][Buffer] <= i /\ view[r][Buffer] \in Nat /\ i \in Nat
      BY <1>1, <1>2, BufferTypes DEF Acquire
    <3>3. ASSUME NEW j, IsPush(j) PROVE j <= i
      <4>1. j \in Nat
        BY <3>3, BufferTypes DEF IsPush
      <4>2. j <= view[r][Buffer]
        BY <3>1, <3>3
      <4> QED
        BY <3>2, <4>1, <4>2
    <3> QED
      BY <1>2, <3>1, <3>3 DEF EmptyIsFinal
  <2>2. \A q \in Rx : pc'[q] = "closed" => pc[q] = "closed" \/ hungup[r]
    BY <1>1, <1>3
  <2> QED
    BY <1>5, <1>6, <2>1, <2>2 DEF ClosedIsOver
<1> QED
  BY <1>7, <1>8, <1>9, <1>10

\* A sender that is counted keeps all receivers from the end.
LEMMA NobodyAtEnd ==
  ASSUME Endings, OnSide(Senders) # {}, hungup' = hungup,
         \A r \in Rx : \A step \in {"pop", "repop", "closed"} : pc'[r] = step => pc[r] = step
  PROVE  HangupComesAfter' /\ ClosedIsOver'
BY DEF Endings, HangupComesAfter, ClosedIsOver

LEMMA EndingsOfClone ==
  ASSUME Sound, Departures, Endings, Sound', Departures', NEW t \in Threads, NEW new \in Threads,
         Clone(t, new)
  PROVE  Endings'
<1> USE DEF Endings
<1>1. /\ pc[t] = "idle" /\ pc[new] = "unborn" /\ Count(t) = Count(new) /\ CountUp(t, new)
      /\ pc' = [pc EXCEPT ![new] = "idle"] /\ hungup' = hungup /\ pc \in [Threads -> Steps]
  BY DEF Clone, Goto, rest, Sound, CallTypes
<1> DEFINE l == Count(t)
           value == Latest(l) + 1
<1>2. /\ l \in Ends /\ t \in Side(l) /\ t # new /\ Latest(l) \in Nat /\ value \in Values
      /\ view[new][new] = 0 /\ Buffer # l
  BY <1>1, Sides, Names, CountIsNat DEF Departures, Values, Sound, NothingWritten, Ends
<1>3. /\ \A u \in Threads \ {t, new} : view'[u] = view[u]
      /\ \A c \in Clocks : view[t][c] <= view'[t][c]
      /\ \A k \in Locations \ {l} : mem'[k] = mem[k] /\ Final(k)' = Final(k)
      /\ Final(l)' = [val |-> value, view |-> Final(l).view]
      /\ Len(mem'[l]) = Len(mem[l]) + 1
      /\ \A i \in DOMAIN mem[l] : mem'[l][i] = mem[l][i]
  <2>1. Tidy /\ CountUp(t, new)
    BY <1>1 DEF Sound
  <2> HIDE DEF value
  <2>2. Latest(Count(t)) + 1 = value
    BY DEF value
  <2> QED
    BY <1>2, <2>1, <2>2, Cloned
<1> HIDE DEF l, value
<1>4. mem'[Buffer] = mem[Buffer] /\ Final(Senders)'.view = Final(Senders).view
  BY <1>2, <1>3, Names DEF Ends
<1>5. \A i : IsPush(i)' <=> IsPush(i)
  BY <1>4 DEF IsPush
<1>6. OnSide(Senders) \subseteq OnSide(Senders)'
  BY <1>1, Sides DEF OnSide, Counted, Out, Closing, Side, Ends
<1>7. \A u \in Threads : pc[u] \notin Out =>
        view[u][Buffer] <= view'[u][Buffer] /\ view'[u][Buffer] \in Nat
  <2>1. \A u \in Threads : pc[u] \notin Out => u # new
    BY <1>1 DEF Out
  <2>2. \A u \in Threads : view[u][Buffer] \in Nat
    BY BufferTypes
  <2>3. \A u \in Threads : view'[u][Buffer] \in Nat
    BY Names DEF Sound, Tidy, MemTypes, Views
  <2> QED
    BY <1>3, <2>1, <2>2, <2>3, Names
<1>8. PushesReleased'
  <2> SUFFICES ASSUME NEW i, IsPush(i)
               PROVE  \/ \E u \in OnSide(Senders)' : i <= view'[u][Buffer]
                      \/ i <= Final(Senders).view[Buffer]
    BY <1>4, <1>5 DEF PushesReleased
  <2>1. i \in Nat
    BY BufferTypes DEF IsPush
  <2>2. \A u \in OnSide(Senders) : u \in Threads /\ pc[u] \notin Out
    BY Sides DEF OnSide, Counted, Ends
  <2> QED
    BY <1>6, <1>7, <2>1, <2>2, BufferTypes DEF PushesReleased
<1>9. ZeroIsFinal'
  <2>1. CASE l = Senders
    <3>1. Latest(l) # 0
      BY <1>1, <1>2, CountIsNat DEF Departures, OnSide, Counted, Out, Closing
    <3>2. DOMAIN mem[l] = 1..Len(mem[l]) /\ Len(mem[l]) \in Nat \ {0}
      BY <2>1, Recorded, Names DEF Sound, Tidy
    <3>3. mem[l][Len(mem[l])].val # 0
      BY <3>1 DEF Latest, Final
    <3> QED
      BY <1>3, <2>1, <3>2, <3>3 DEF ZeroIsFinal
  <2>2. CASE l # Senders
    BY <1>3, <2>2, Names DEF ZeroIsFinal
  <2> QED
    BY <2>1, <2>2
<1>10. EmptyIsFinal'
  BY <1>4, <1>5 DEF EmptyIsFinal, Latest, Final
<1>11. HangupComesAfter' /\ ClosedIsOver'
  <2>1. \A r \in Rx : \A step \in {"pop", "repop", "closed"} : pc'[r] = step => pc[r] = step
    BY <1>1
  <2>2. CASE OnSide(Senders) # {}
    BY <1>1, <2>1, <2>2, NobodyAtEnd
  <2>3. CASE OnSide(Senders) = {}
    <3>1. l # Senders
      BY <1>1, <1>2, <2>3 DEF OnSide, Counted, Out, Closing
    <3>2. OnSide(Senders)' = OnSide(Senders)
      <4>1. t \notin Tx /\ new \notin Tx
        BY <1>1, <3>1 DEF l, Count
      <4> QED
        BY <1>1, <4>1, Names DEF OnSide, Side, Counted
    <3>3. \A r \in Rx : Polling(r)' => Polling(r) /\ pc[r] \notin Out
      BY <1>1, <2>1 DEF Polling, Out
    <3>4. Aside(t)
      BY <1>3, <1>4, <1>7, <3>1, <3>2, Names DEF Aside
    <3> QED
      BY <2>1, <3>3, <3>4, AsideKeeps
  <2> QED
    BY <2>2, <2>3
<1> QED
  BY <1>8, <1>9, <1>10, <1>11

LEMMA EndingsOfDropTx ==
  ASSUME Sound, Departures, Endings, Sound', Departures', NEW s \in Tx, DropTx(s)
  PROVE  Endings'
<1> USE DEF Endings
<1> DEFINE n == Latest(Senders) - 1
<1>1. /\ pc[s] = "idle" /\ CountDown(s) /\ hungup' = hungup /\ pc \in [Threads -> Steps]
      /\ pc' = [pc EXCEPT ![s] = IF Latest(Senders) = 1 THEN "hangup" ELSE "gone"]
      /\ s \in Threads /\ s \notin Rx
  BY Names, OrderingsAssumption DEF DropTx, Goto, rest, Sound, CallTypes
<1>2. AcqRel(s, Senders, n) /\ Senders \in Locations /\ Buffer \in Locations /\ Tidy
  BY <1>1, Names DEF CountDown, Count, Sound
<1>3. s \in OnSide(Senders) /\ Latest(Senders) \in Nat \ {0} /\ n \in Values
  <2>1. s \in OnSide(Senders)
    BY <1>1 DEF OnSide, Side, Counted, Out, Closing
  <2> QED
    BY <2>1, CountIsNat DEF Departures, Ends, Values
<1> HIDE DEF n
<1>4. /\ Moves(s)
      /\ \A k \in Locations \ {Senders} : mem'[k] = mem[k] /\ Final(k)' = Final(k)
      /\ Final(Senders)' = [val |-> n, view |-> view'[s]]
      /\ \A c \in Clocks : Final(Senders).view[c] <= view'[s][c]
      /\ Len(mem'[Senders]) = Len(mem[Senders]) + 1
      /\ \A i \in DOMAIN mem[Senders] : mem'[Senders][i] = mem[Senders][i]
  BY <1>1, <1>2, <1>3, Wrote
<1>5. /\ mem'[Buffer] = mem[Buffer] /\ Final(Senders)'.view = view'[s]
      /\ Final(Senders).view[Buffer] <= view'[s][Buffer]
  BY <1>2, <1>4, Names
<1>6. \A i : IsPush(i)' <=> IsPush(i)
  BY <1>5 DEF IsPush
<1>7. PushesReleased'
  <2> SUFFICES ASSUME NEW i, IsPush(i)
               PROVE  \/ \E u \in OnSide(Senders)' : i <= view'[u][Buffer]
                      \/ i <= view'[s][Buffer]
    BY <1>5, <1>6 DEF PushesReleased
  <2>1. i \in Nat
    BY BufferTypes DEF IsPush
  <2>2. \A u \in OnSide(Senders) : u \in Threads /\ (u = s \/ u \in OnSide(Senders)')
    BY <1>1, Sides DEF OnSide, Side, Counted, Ends
  <2>3. view'[s][Buffer] \in Nat
    BY <1>1, <1>4, MovesGrow
  <2>4. CASE i <= Final(Senders).view[Buffer]
    BY <1>5, <2>1, <2>3, <2>4, BufferTypes
  <2>5. ASSUME NEW u \in OnSide(Senders), i <= view[u][Buffer] PROVE i <= view'[u][Buffer]
    BY <1>1, <1>4, <2>1, <2>2, <2>5, MovesGrow, BufferTypes
  <2> QED
    BY <2>2, <2>4, <2>5 DEF PushesReleased
<1>8. ZeroIsFinal'
  <2>1. DOMAIN mem[Senders] = 1..Len(mem[Senders]) /\ Len(mem[Senders]) \in Nat \ {0}
    BY <1>2, Recorded DEF Tidy
  <2>2. mem[Senders][Len(mem[Senders])].val # 0
    BY <1>3 DEF Latest, Final
  <2> QED
    BY <1>4, <2>1, <2>2, SMTT(30) DEF ZeroIsFinal
<1>9. EmptyIsFinal'
  BY <1>5, <1>6 DEF EmptyIsFinal, Latest, Final
<1>10. HangupComesAfter' /\ ClosedIsOver'
  BY <1>1, <1>3, NobodyAtEnd
<1> QED
  BY <1>7, <1>8, <1>9, <1>10

\* A quiet step keeps the endings unless it moves the buffer or looks at it, or
\* reads the count.
LEMMA QuietEndings ==
  ASSUME Sound, Endings, Sound', NEW t \in Threads, QuietStep(t),
         mem'[Buffer] = mem[Buffer], hungup' = hungup,
         pc'[t] \notin {"pop", "repop", "closed"}
  PROVE  Endings'
<1>1. Aside(t)
  BY SameCounted, AsideMoves DEF QuietStep, Quiet, Ends
<1>2. \A r \in Rx : \A step \in {"pop", "repop", "closed"} : pc'[r] = step => pc[r] = step
  BY Names DEF QuietStep, StaysInStage
<1>3. \A r \in Rx : Polling(r)' => Polling(r) /\ pc[r] \notin Out
  BY <1>2 DEF Polling, Out
<1> QED
  BY <1>1, <1>2, <1>3, AsideKeeps

LEMMA EndingsOfScan ==
  ASSUME Sound, Endings, Sound', NEW t \in Threads,
         PassSlot(t) \/ FindNoWaker(t) \/ TakeWaker(t)
  PROVE  Endings'
<1>1. QuietStep(t)
  BY ScanSteps
<1>2. mem'[Buffer] = mem[Buffer] /\ hungup' = hungup
  <2>1. CASE PassSlot(t) \/ FindNoWaker(t)
    BY <2>1 DEF PassSlot, FindNoWaker, Acquire, rest
  <2>2. CASE TakeWaker(t)
    <3>1. PICK r \in ahead[t] : AcqRel(t, Slot(r), FALSE)
      BY <2>2 DEF TakeWaker
    <3>2. Slot(r) # Buffer /\ Buffer \in Locations /\ mem \in [Locations ->
            Seq([val : Values, view : Views])]
      BY <3>1, Names DEF Sound, CallTypes, Tidy, MemTypes
    <3>3. \A k \in Locations \ {Slot(r)} : mem'[k] = mem[k]
      BY <3>1, <3>2 DEF AcqRel
    <3> QED
      BY <2>2, <3>2, <3>3 DEF TakeWaker
  <2> QED
    BY <2>1, <2>2
<1>3. pc'[t] \notin {"pop", "repop", "closed"}
  <2>1. pc[t] \in Scanning /\ pc \in [Threads -> Steps]
        /\ (pc' = pc \/ pc' = [pc EXCEPT ![t] = AfterScan(t)])
    BY DEF PassSlot, FindNoWaker, TakeWaker, Goto, Sound, CallTypes
  <2> QED
    BY <2>1 DEF Scanning, AfterScan
<1> QED
  BY <1>1, <1>2, <1>3, QuietEndings

LEMMA EndingsOfCalls ==
  ASSUME Sound, Endings, Sound',
         \/ \E s \in Tx : Send(s) \/ Fence(s) \/ Hangup(s)
         \/ \E r \in Rx : \/ Insert(r) \/ Barrier(r) \/ RemoveWaker(r) \/ RemoveNone(r)
                         \/ Resume(r) \/ DropRx(r)
  PROVE  Endings'
<1>1. ASSUME NEW s \in Tx, Send(s) \/ Fence(s) \/ Hangup(s) PROVE Endings'
  <2>1. s \in Threads /\ QuietStep(s)
    BY <1>1, SendSteps, Names
  <2>2. mem' = mem /\ hungup' = hungup
    BY <1>1 DEF Send, Fence, Hangup, LoadReceivers, FenceSend, FenceHangup, Acquire, SeqCst
  <2>3. pc'[s] \notin {"pop", "repop", "closed"}
    BY <1>1, <2>1 DEF Send, Fence, Hangup, Goto, Sound, CallTypes
  <2> QED
    BY <2>1, <2>2, <2>3, QuietEndings
<1>2. ASSUME NEW r \in Rx,
             \/ Insert(r) \/ Barrier(r) \/ RemoveWaker(r) \/ RemoveNone(r)
             \/ Resume(r) \/ DropRx(r)
      PROVE  Endings'
  <2>1. r \in Threads /\ QuietStep(r)
    BY <1>2, PollSteps, Names
  <2>2. mem'[Buffer] = mem[Buffer] /\ hungup' = hungup
    <3>1. CASE Insert(r) \/ RemoveWaker(r) \/ DropRx(r)
      BY <3>1, SlotWritten DEF Insert, RemoveWaker, DropRx, rest
    <3>2. CASE Barrier(r) \/ RemoveNone(r) \/ Resume(r)
      BY <3>2 DEF Barrier, RemoveNone, Resume, FencePoll, SeqCst, Acquire, rest
    <3> QED
      BY <1>2, <3>1, <3>2
  <2>3. pc'[r] \notin {"pop", "repop", "closed"}
    BY <1>2, <2>1
    DEF Insert, Barrier, RemoveWaker, RemoveNone, AfterPoll, Resume, DropRx, Goto, Sound, CallTypes
  <2> QED
    BY <2>1, <2>2, <2>3, QuietEndings
<1> QED
  BY <1>1, <1>2

LEMMA EndingsOfDeparture ==
  ASSUME Sound, Departures, Endings, Sound', Departures',
         \/ \E r \in Rx : Leave(r)
         \/ \E t \in Threads : Swap(t) \/ Free(t)
  PROVE  Endings'
<1>1. ASSUME NEW t \in Threads, Moves(t), mem'[Buffer] = mem[Buffer],
             mem'[Senders] = mem[Senders], hungup' = hungup,
             NEW step \in {"gone", "free", "swap"}, pc' = [pc EXCEPT ![t] = step],
             t \in Tx => ~Counted(t)
      PROVE  Endings'
  <2>1. pc \in [Threads -> Steps]
    BY DEF Sound, CallTypes
  <2>2. OnSide(Senders)' = OnSide(Senders)
    BY <1>1, <2>1, Names DEF OnSide, Side, Counted, Out, Closing
  <2>3. Aside(t)
    BY <1>1, <2>2, AsideMoves
  <2>4. \A r \in Rx : \A s \in {"pop", "repop", "closed"} : pc'[r] = s => pc[r] = s
    BY <1>1, <2>1
  <2>5. \A r \in Rx : Polling(r)' => Polling(r) /\ pc[r] \notin Out
    BY <1>1, <2>4 DEF Polling, Out
  <2> QED
    BY <2>3, <2>4, <2>5, AsideKeeps
<1>2. ASSUME NEW r \in Rx, Leave(r) PROVE Endings'
  <2> DEFINE n == Latest(Receivers) - 1
             step == IF Latest(Receivers) = 1 THEN "swap" ELSE "gone"
  <2>1. r \in Threads /\ r \notin Tx /\ Receivers \in Locations /\ Receivers \in Ends
    BY Names, OrderingsAssumption DEF Ends
  <2>2. AcqRel(r, Receivers, n) /\ hungup' = hungup /\ pc' = [pc EXCEPT ![r] = step]
    BY <1>2, <2>1 DEF Leave, CountDown, Count, Goto, rest
  <2>3. n \in Values /\ step \in {"gone", "free", "swap"} /\ Tidy
    BY <2>1, CountIsNat DEF Departures, Values, Sound
  <2> HIDE DEF n, step
  <2>4. Moves(r) /\ \A k \in Locations \ {Receivers} : mem'[k] = mem[k]
    BY <2>1, <2>2, <2>3, Wrote
  <2>5. mem'[Buffer] = mem[Buffer] /\ mem'[Senders] = mem[Senders]
    BY <2>4, Names
  <2> QED
    BY <1>1, <2>1, <2>2, <2>3, <2>4, <2>5
<1>3. ASSUME NEW t \in Threads, Swap(t) PROVE Endings'
  <2> DEFINE step == IF Latest(Connected) THEN "gone" ELSE "free"
  <2>1. /\ pc[t] = "swap" /\ AcqRel(t, Connected, FALSE) /\ hungup' = hungup
        /\ pc' = [pc EXCEPT ![t] = step]
    BY <1>3 DEF Swap, Disconnect, Goto, rest
  <2>2. step \in {"gone", "free", "swap"} /\ FALSE \in Values /\ Tidy /\ ~Counted(t)
    BY <2>1 DEF Values, Sound, Counted, Closing
  <2> HIDE DEF step
  <2>3. Moves(t)
    BY <2>1, <2>2, Wrote, Names
  <2>4. \A k \in Locations \ {Connected} : mem'[k] = mem[k]
    BY <2>1, <2>2, Wrote, Names
  <2>5. mem'[Buffer] = mem[Buffer] /\ mem'[Senders] = mem[Senders]
    BY <2>4, Names
  <2> QED
    BY <1>1, <2>1, <2>2, <2>3, <2>5
<1>4. ASSUME NEW t \in Threads, Free(t) PROVE Endings'
  <2>1. Moves(t) /\ mem' = mem
    BY <1>4, NothingMoved DEF Free, Quiet
  <2>2. ~Counted(t) /\ hungup' = hungup /\ pc' = [pc EXCEPT ![t] = "gone"]
    BY <1>4 DEF Free, Goto, rest, Counted
  <2> QED
    BY <1>1, <2>1, <2>2
<1> QED
  BY <1>2, <1>3, <1>4

LEMMA StartingEndings == Init => Endings
<1> SUFFICES ASSUME Init PROVE Endings
  OBVIOUS
<1>1. /\ \A l \in Locations : Len(mem[l]) = 1 /\ DOMAIN mem[l] = {1}
      /\ mem[Buffer] = Start(0)
      /\ hungup = [r \in Rx |-> FALSE] /\ \A t \in Threads : pc[t] # "closed"
  <2>1. PICK start \in Starts :
    /\ mem = [l \in Locations |->
                Start(CASE l = Senders   -> Cardinality(Tx \cap start.here)
                        [] l = Receivers -> Cardinality(Rx \cap start.here)
                        [] l = Connected -> TRUE
                        [] l = Buffer    -> 0
                        [] OTHER         -> FALSE)]
    /\ pc = [t \in Threads |-> CASE t \in start.here   -> "idle"
                                 [] t \in start.unborn -> "unborn"
                                 [] OTHER              -> "absent"]
    /\ hungup = [r \in Rx |-> FALSE]
    BY DEF Init
  <2>2. mem[Buffer] = Start(0)
    BY <2>1, Names
  <2>3. \A l \in Locations : \E value : mem[l] = Start(value)
    BY <2>1
  <2>4. \A value : Len(Start(value)) = 1 /\ DOMAIN Start(value) = {1}
    BY DEF Start
  <2>5. start.unborn \subseteq Threads \ start.here
    BY OrderingsAssumption
  <2>6. \A t \in Threads : pc[t] # "closed"
    BY <2>1, <2>5
  <2> QED
    BY <2>1, <2>2, <2>3, <2>4, <2>6
<1>2. mem[Buffer][1].val = 0 /\ Latest(Buffer) = 0
  BY <1>1, Names DEF Latest, Final, Start
<1>3. \A i : ~IsPush(i)
  BY <1>1, Names DEF IsPush
<1>4. PushesReleased /\ EmptyIsFinal
  BY <1>2, <1>3 DEF PushesReleased, EmptyIsFinal
<1>5. ZeroIsFinal
  <2>1. Len(mem[Senders]) = 1
    BY <1>1, Names
  <2>2. \A i \in 1..(Len(mem[Senders]) - 1) : FALSE
    BY <2>1
  <2> QED
    BY <2>2 DEF ZeroIsFinal
<1>6. HangupComesAfter /\ ClosedIsOver
  BY <1>1, Names DEF HangupComesAfter, ClosedIsOver
<1> QED
  BY <1>4, <1>5, <1>6 DEF Endings

LEMMA AlwaysEndings == Spec => []Endings
<1> DEFINE Base == Sound /\ Departures
<1>1. Init => Endings
  BY StartingEndings
<1>2. Base /\ Base' /\ Endings /\ [Next]_vars => Endings'
  <2> SUFFICES ASSUME Sound, Departures, Endings, Sound', Departures', [Next]_vars
               PROVE  Endings'
    OBVIOUS
  <2>1. CASE \E s \in Tx : Send(s) \/ Push(s) \/ Fence(s) \/ DropTx(s) \/ Hangup(s)
    BY <2>1, EndingsOfCalls, EndingsOfPush, EndingsOfDropTx
  <2>2. CASE \E r \in Rx : \/ Load(r) \/ Pop(r) \/ FindEmpty(r) \/ Insert(r) \/ Barrier(r)
                           \/ RemoveWaker(r) \/ RemoveNone(r) \/ Resume(r)
                           \/ DropRx(r) \/ Leave(r)
    BY <2>2, EndingsOfCalls, EndingsOfLoad, EndingsOfPop, EndingsOfEmpty, EndingsOfDeparture
  <2>3. CASE \E t \in Threads : \/ PassSlot(t) \/ FindNoWaker(t) \/ TakeWaker(t)
                                \/ Swap(t) \/ Free(t)
                                \/ \E new \in Threads : Clone(t, new)
    BY <2>3, EndingsOfScan, EndingsOfDeparture, EndingsOfClone
  <2>4. CASE UNCHANGED vars
    <3>1. mem' = mem /\ view' = view /\ pc' = pc /\ hungup' = hungup
      BY <2>4 DEF vars
    <3>2. /\ OnSide(Senders)' = OnSide(Senders) /\ \A l : Latest(l)' = Latest(l)
          /\ Final(Senders)' = Final(Senders) /\ \A i : IsPush(i)' <=> IsPush(i)
      BY <3>1 DEF OnSide, Side, Counted, Latest, Final, IsPush
    <3> QED
      BY <3>1, <3>2 DEF Endings, PushesReleased, ZeroIsFinal, EmptyIsFinal, HangupComesAfter,
         ClosedIsOver
  <2> QED
    BY <2>1, <2>2, <2>3, <2>4 DEF Next
<1> QED
  BY <1>1, <1>2, AlwaysDepartures, PTL DEF Spec

\* A receiver that reports the end of the channel leaves no message behind: the
\* acquire load of the count at the start of try_recv shows it every push.
THEOREM EndReported == Spec => []EndIsEmpty
<1>1. Endings => EndIsEmpty
  BY DEF Endings, ClosedIsOver, EndIsEmpty
<1> QED
  BY <1>1, AlwaysEndings, PTL

=============================================================================
