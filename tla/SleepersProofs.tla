---------------------------- MODULE SleepersProofs ----------------------------
(***************************************************************************)
(* The fences of channel.rs are enough, for any threads and any starts of  *)
(* Orderings: receivers sleep only while the channel is empty and open.    *)
(* Whoever makes a message or the end available after a receiver looked    *)
(* comes after that receiver's fence, hence sees its waker; the invariants *)
(* say who owes the receivers their wake until it is on its way.           *)
(***************************************************************************)
EXTENDS OrderingsProofs

PastBarrier == {"reload", "repop", "parked"}
Waiting     == PastBarrier \cup {"barrier"}
Holding     == Waiting \cup {"idle", "pop", "insert", "remove", "closed", "over"}

\* A view that cannot find the buffer empty any more.
Informed(v) == \A i \in DOMAIN mem[Buffer] : mem[Buffer][i].val = 0 => i < v[Buffer]

\* A view that cannot pass the slot of r while that holds a waker.
Sees(v, r) == v[Slot(r)] = Len(mem[Slot(r)])

\* Receivers that sleep, or will if they find nothing, with no wake on its way.
Asleep == {r \in Rx : pc[r] \in PastBarrier /\ woken[r] = <<>>}

OwnIndex == \A i \in DOMAIN mem[Buffer] : mem[Buffer][i].view[Buffer] <= i

\* The waker of a receiver was inserted before its fence, and is there until
\* someone takes it to wake the receiver, or the receiver, which sees it, does.
WakerRight(r) ==
  /\ pc[r] \in PastBarrier /\ Latest(Slot(r)) => Sees(fences, r)
  /\ pc[r] \in Waiting => Latest(Slot(r)) \/ woken[r] # <<>>
  /\ Latest(Slot(r)) => pc[r] \in Holding /\ Sees(view[r], r)

ParkedUninformed == \A r \in Rx : pc[r] = "parked" => ~Informed(view[r])

NothingAfterEnd == \A r \in Rx :
  pc[r] \in {"closed", "over"} => OnSide(Senders) = {} /\ Latest(Buffer) = 0

Wakers == /\ OwnIndex /\ ParkedUninformed /\ NothingAfterEnd
          /\ \A r \in Rx : WakerRight(r)

-----------------------------------------------------------------------------
\* A message that the receivers have not seen, and who owes them a wake.

Dozing == {r \in Asleep : ~Informed(view[r])}

\* A view with which a scan wakes a dozing receiver, or finds none.
Full(v) == Informed(v) /\ \A r \in Dozing : Sees(v, r)

\* A sender before its fence, a scan that will not miss the dozing receivers,
\* and a receiver that was woken and will find the message or pass on the wake.
Sends(s) == pc[s] = "fence" /\ Informed(view[s])
Scans(t) == pc[t] \in Scanning /\ Full(view[t]) /\ Dozing \subseteq ahead[t]
Carries(r) ==
  \/ /\ pc[r] \in Waiting \cup {"idle", "pop", "insert", "remove"} /\ ~Latest(Slot(r))
     /\ Full(view[r]) \/ Full(Final(Slot(r)).view)
  \/ pc[r] \in {"barrier", "reload", "repop", "remove"} /\ Full(view[r])

Owes(t) == Scans(t) \/ (t \in Rx /\ Carries(t))

MessageOwed ==
  Latest(Buffer) > 0 =>
    \/ \E s \in Tx : Sends(s)
    \/ Informed(fences) /\ (Dozing = {} \/ \E t \in Threads : Owes(t))

-----------------------------------------------------------------------------
\* The end of the channel, and who owes the receivers a wake for it.

Unwarned == {r \in Asleep : \/ pc[r] = "reload" /\ view[r][Senders] < Len(mem[Senders])
                            \/ pc[r] = "repop" /\ ~hungup[r]
                            \/ pc[r] = "parked"}

HangsUp == \A t \in Tx : pc[t] = "hangup" => view[t][Senders] = Len(mem[Senders])

\* The scan of the last sender will not miss the receivers that do not know.
Warns(t) == pc[t] = "hangup scan" /\ \A r \in Unwarned : r \in ahead[t] /\ Sees(view[t], r)

EndOwed ==
  OnSide(Senders) = {} =>
    \/ \E t \in Tx : pc[t] = "hangup"
    \/ /\ fences[Senders] = Len(mem[Senders])
       /\ Unwarned = {} \/ \E t \in Tx : Warns(t)

Owed == MessageOwed /\ HangsUp /\ EndOwed

-----------------------------------------------------------------------------
\* What every step of a thread leaves alone or only extends.

Extended == \A i \in DOMAIN mem[Buffer] :
  i \in DOMAIN mem'[Buffer] /\ mem'[Buffer][i] = mem[Buffer][i]

Turn(t) ==
  /\ pc[t] # "unborn" /\ Extended
  /\ \A u \in Threads \ {t} :
       \/ pc'[u] = pc[u] /\ view'[u] = view[u] /\ ahead'[u] = ahead[u]
       \/ pc[u] = "unborn" /\ pc'[u] = "idle"
  /\ \A c \in Clocks : view[t][c] <= view'[t][c] /\ fences[c] <= fences'[c]
  /\ \A r \in Rx \ {t} : hungup'[r] = hungup[r] /\ (woken'[r] = woken[r] \/ woken'[r] # <<>>)

\* No slot is written but those of X.
KeepsSlots(X) == \A r \in Rx \ X : mem'[Slot(r)] = mem[Slot(r)]

LEMMA FencesStay ==
  ASSUME Sound, fences' = fences
  PROVE  \A c \in Clocks : fences[c] <= fences'[c]
<1>1. \A c \in Clocks : fences[c] \in Nat
  BY DEF Sound, Tidy, MemTypes, Views
<1> QED
  BY <1>1

LEMMA FencesRise ==
  ASSUME Sound, NEW t \in Threads, SeqCst(t)
  PROVE  /\ mem' = mem /\ fences' = view'[t]
         /\ \A c \in Clocks : fences[c] <= fences'[c] /\ view[t][c] <= fences'[c]
<1> DEFINE v == Join(view[t], fences)
<1>1. view \in [Threads -> Views] /\ view[t] \in Views /\ fences \in Views
  BY DEF Sound, Tidy, MemTypes
<1>2. \A c \in Clocks : view[t][c] <= v[c] /\ fences[c] <= v[c]
  BY <1>1, Joined
<1>3. mem' = mem /\ view' = [view EXCEPT ![t] = v] /\ fences' = v /\ view'[t] = v
  BY <1>1 DEF SeqCst
<1> HIDE DEF v
<1> QED
  BY <1>2, <1>3

\* The turn of a quiet step, from what it does not write.
LEMMA Turned ==
  ASSUME Sound, NEW t \in Threads, QuietStep(t), Extended,
         \A u \in Threads \ {t} : ahead'[u] = ahead[u],
         \A c \in Clocks : fences[c] <= fences'[c],
         \A r \in Rx \ {t} : hungup'[r] = hungup[r] /\ (woken'[r] = woken[r] \/ woken'[r] # <<>>)
  PROVE  Turn(t)
<1>1. pc[t] # "unborn" /\ \A u \in Threads \ {t} : pc'[u] = pc[u]
  BY DEF QuietStep, StaysInStage, Out
<1>2. \A u \in Threads \ {t} : view'[u] = view[u]
  BY DEF QuietStep, Quiet, Moves
<1>3. \A c \in Clocks : view[t][c] <= view'[t][c]
  BY DEF QuietStep, Quiet, Moves
<1> QED
  BY <1>1, <1>2, <1>3 DEF Turn

LEMMA SameBuffer == mem'[Buffer] = mem[Buffer] => Extended
BY DEF Extended

LEMMA SendTurns ==
  ASSUME Sound, NEW s \in Tx, Send(s) \/ Fence(s) \/ Hangup(s)
  PROVE  Turn(s) /\ mem' = mem /\ woken' = woken
<1>1. s \in Threads /\ QuietStep(s)
  BY SendSteps, Names
<1>2. mem' = mem /\ \A c \in Clocks : fences[c] <= fences'[c]
  <2>1. CASE Send(s)
    <3>1. mem' = mem /\ fences' = fences
      BY <2>1 DEF Send, LoadReceivers, Acquire
    <3> QED
      BY <3>1, FencesStay
  <2>2. CASE Fence(s) \/ Hangup(s)
    BY <1>1, <2>2, FencesRise DEF Fence, Hangup, FenceSend, FenceHangup
  <2> QED
    BY <2>1, <2>2
<1>3. hungup' = hungup /\ woken' = woken /\ \A u \in Threads \ {s} : ahead'[u] = ahead[u]
  BY DEF Send, Fence, Hangup, Sound, CallTypes
<1> QED
  BY <1>1, <1>2, <1>3, SameBuffer, Turned

\* The buffer after a push or a pop.
LEMMA BufferWritten ==
  ASSUME Sound, NEW t \in Threads, NEW n \in Nat, AcqRel(t, Buffer, n)
  PROVE  /\ Extended /\ KeepsSlots({}) /\ fences' = fences
         /\ Len(mem'[Buffer]) = Len(mem[Buffer]) + 1
         /\ DOMAIN mem'[Buffer] = 1..Len(mem[Buffer]) + 1
         /\ mem'[Buffer][Len(mem[Buffer]) + 1] = [val |-> n, view |-> view'[t]]
         /\ view'[t][Buffer] = Len(mem[Buffer]) + 1 /\ Latest(Buffer)' = n
<1>1. Buffer \in Locations /\ n \in Values /\ Tidy /\ Len(mem[Buffer]) \in Nat
  BY Names, BufferTypes DEF Values, Sound
<1>2. /\ \A k \in Locations \ {Buffer} : mem'[k] = mem[k]
      /\ Len(mem'[Buffer]) = Len(mem[Buffer]) + 1
      /\ DOMAIN mem'[Buffer] = 1..Len(mem[Buffer]) + 1
      /\ \A i \in DOMAIN mem[Buffer] : mem'[Buffer][i] = mem[Buffer][i]
      /\ mem'[Buffer][Len(mem[Buffer]) + 1] = [val |-> n, view |-> view'[t]]
      /\ view'[t][Buffer] = Len(mem[Buffer]) + 1
      /\ Final(Buffer)' = [val |-> n, view |-> view'[t]]
  BY <1>1, Wrote
<1>3. Extended
  BY <1>1, <1>2, BufferTypes DEF Extended
<1>4. KeepsSlots({})
  BY <1>2, Names DEF KeepsSlots
<1>5. Latest(Buffer)' = n
  BY <1>2 DEF Latest
<1> QED
  BY <1>2, <1>3, <1>4, <1>5 DEF AcqRel

LEMMA PushTurn ==
  ASSUME Sound, NEW s \in Tx, Push(s)
  PROVE  Turn(s) /\ KeepsSlots({}) /\ woken' = woken
<1>1. s \in Threads /\ QuietStep(s)
  BY SendSteps, Names
<1>2. AcqRel(s, Buffer, Latest(Buffer) + 1) /\ Latest(Buffer) + 1 \in Nat
  BY BufferTypes DEF Push
<1>3. Extended /\ KeepsSlots({}) /\ fences' = fences
  BY <1>1, <1>2, BufferWritten
<1>4. ahead' = ahead /\ hungup' = hungup /\ woken' = woken
  BY DEF Push, rest
<1> QED
  BY <1>1, <1>3, <1>4, FencesStay, Turned

\* A slot after a write of t.
LEMMA SlotAfter ==
  ASSUME Sound, NEW t \in Threads, NEW r \in Rx, NEW value \in BOOLEAN, AcqRel(t, Slot(r), value)
  PROVE  /\ KeepsSlots({r}) /\ mem'[Buffer] = mem[Buffer] /\ mem'[Senders] = mem[Senders]
         /\ fences' = fences /\ Latest(Slot(r))' = value
         /\ Final(Slot(r))'.view = view'[t] /\ view'[t][Slot(r)] = Len(mem'[Slot(r)])
         /\ \A c \in Clocks : Final(Slot(r)).view[c] <= view'[t][c]
<1> DEFINE l == Slot(r)
<1>1. /\ l \in Locations /\ l \notin {Senders, Buffer} /\ value \in Values /\ Tidy
      /\ Buffer \in Locations /\ Senders \in Locations
  BY Names DEF Values, Sound
<1>2. \A q \in Rx \ {r} : Slot(q) \in Locations \ {l}
  BY Names DEF Slot
<1>3. AcqRel(t, l, value)
  OBVIOUS
<1> HIDE DEF l
<1>4. /\ \A k \in Locations \ {l} : mem'[k] = mem[k]
      /\ Final(l)' = [val |-> value, view |-> view'[t]]
      /\ \A c \in Clocks : Final(l).view[c] <= view'[t][c]
      /\ Len(mem'[l]) = Len(mem[l]) + 1 /\ view'[t][l] = Len(mem[l]) + 1
  BY <1>1, <1>3, Wrote
<1>5. KeepsSlots({r})
  BY <1>2, <1>4 DEF KeepsSlots
<1>6. mem'[Buffer] = mem[Buffer] /\ mem'[Senders] = mem[Senders] /\ fences' = fences
  BY <1>1, <1>3, <1>4 DEF AcqRel
<1>7. Latest(l)' = value /\ Final(l)'.view = view'[t] /\ view'[t][l] = Len(mem'[l])
  BY <1>4 DEF Latest
<1> QED
  BY <1>4, <1>5, <1>6, <1>7 DEF l

LEMMA LookTurns ==
  ASSUME Sound, NEW r \in Rx,
         Load(r) \/ FindEmpty(r) \/ Barrier(r) \/ RemoveNone(r) \/ Resume(r)
  PROVE  Turn(r) /\ mem' = mem /\ \A q \in Rx \ {r} : woken'[q] = woken[q]
<1>1. r \in Threads /\ QuietStep(r)
  BY PollSteps, Names
<1>2. mem' = mem /\ \A c \in Clocks : fences[c] <= fences'[c]
  <2>1. CASE Load(r) \/ FindEmpty(r) \/ RemoveNone(r) \/ Resume(r)
    <3>1. mem' = mem /\ fences' = fences
      BY <2>1 DEF Load, FindEmpty, RemoveNone, Resume, LoadSenders, Acquire
    <3> QED
      BY <3>1, FencesStay
  <2>2. CASE Barrier(r)
    BY <1>1, <2>2, FencesRise DEF Barrier, FencePoll
  <2> QED
    BY <2>1, <2>2
<1>3. /\ \A q \in Rx \ {r} : hungup'[q] = hungup[q] /\ woken'[q] = woken[q]
      /\ ahead' = ahead
  BY DEF Load, FindEmpty, Barrier, RemoveNone, Resume, rest, Sound, CallTypes
<1> QED
  BY <1>1, <1>2, <1>3, SameBuffer, Turned

LEMMA PopTurn ==
  ASSUME Sound, NEW r \in Rx, Pop(r)
  PROVE  Turn(r) /\ KeepsSlots({}) /\ woken' = woken
<1>1. r \in Threads /\ QuietStep(r)
  BY PollSteps, Names
<1>2. AcqRel(r, Buffer, Latest(Buffer) - 1) /\ Latest(Buffer) - 1 \in Nat
  BY BufferTypes DEF Pop
<1>3. Extended /\ KeepsSlots({}) /\ fences' = fences
  BY <1>1, <1>2, BufferWritten
<1>4. ahead' = ahead /\ hungup' = hungup /\ woken' = woken
  BY DEF Pop, rest
<1> QED
  BY <1>1, <1>3, <1>4, FencesStay, Turned

LEMMA SlotTurns ==
  ASSUME Sound, NEW r \in Rx, Insert(r) \/ RemoveWaker(r) \/ DropRx(r)
  PROVE  Turn(r) /\ KeepsSlots({r}) /\ woken' = woken /\ mem'[Buffer] = mem[Buffer]
<1>1. r \in Threads /\ QuietStep(r)
  BY PollSteps, Names
<1>2. KeepsSlots({r}) /\ mem'[Buffer] = mem[Buffer] /\ fences' = fences
  BY <1>1, SlotAfter DEF Insert, RemoveWaker, DropRx
<1>3. hungup' = hungup /\ woken' = woken /\ \A u \in Threads \ {r} : ahead'[u] = ahead[u]
  BY DEF Insert, RemoveWaker, DropRx, rest, Sound, CallTypes
<1> QED
  BY <1>1, <1>2, <1>3, SameBuffer, FencesStay, Turned

LEMMA ScanTurns ==
  ASSUME Sound, NEW t \in Threads, PassSlot(t) \/ FindNoWaker(t)
  PROVE  Turn(t) /\ mem' = mem /\ woken' = woken
<1>1. QuietStep(t)
  BY ScanSteps
<1>2. mem' = mem /\ fences' = fences /\ hungup' = hungup /\ woken' = woken
      /\ \A u \in Threads \ {t} : ahead'[u] = ahead[u]
  BY DEF PassSlot, FindNoWaker, Acquire, rest, Sound, CallTypes
<1> QED
  BY <1>1, <1>2, SameBuffer, FencesStay, Turned

\* The receiver whose waker t takes is woken.
TakesFrom(t, r) ==
  /\ Latest(Slot(r)) /\ AcqRel(t, Slot(r), FALSE)
  /\ woken' = [woken EXCEPT ![r] = Append(@, view'[t])]

LEMMA TakeTurn ==
  ASSUME Sound, NEW t \in Threads, TakeWaker(t), NEW r \in ahead[t], TakesFrom(t, r)
  PROVE  /\ Turn(t) /\ KeepsSlots({r}) /\ mem'[Buffer] = mem[Buffer] /\ woken'[r] # <<>>
         /\ \A q \in Rx \ {r} : woken'[q] = woken[q]
<1>1. QuietStep(t) /\ r \in Rx
  BY ScanSteps DEF Sound, CallTypes
<1>2. KeepsSlots({r}) /\ mem'[Buffer] = mem[Buffer] /\ fences' = fences
  BY <1>1, SlotAfter DEF TakesFrom
<1>3. hungup' = hungup /\ \A u \in Threads \ {t} : ahead'[u] = ahead[u]
  BY DEF TakeWaker, Sound, CallTypes
<1>4. /\ woken \in [Rx -> Seq(Views)] /\ view'[t] \in Views
      /\ woken' = [woken EXCEPT ![r] = Append(@, view'[t])]
  BY <1>1 DEF TakesFrom, Sound, CallTypes, QuietStep, Quiet, Moves, Tidy, MemTypes
<1>5. woken'[r] = Append(woken[r], view'[t]) /\ \A q \in Rx \ {r} : woken'[q] = woken[q]
  BY <1>1, <1>4
<1>6. woken'[r] # <<>>
  BY <1>1, <1>4, <1>5
<1> QED
  BY <1>1, <1>2, <1>3, <1>5, <1>6, SameBuffer, FencesStay, Turned

\* The turns of the endpoints that leave, and of a clone.
LEMMA LeavingTurn ==
  ASSUME Sound, NEW t \in Threads, NEW l \in {Senders, Receivers, Connected},
         NEW value \in Values, AcqRel(t, l, value), UNCHANGED rest,
         pc[t] # "unborn", NEW step, pc' = [pc EXCEPT ![t] = step]
  PROVE  Turn(t) /\ KeepsSlots({}) /\ mem'[Buffer] = mem[Buffer] /\ woken' = woken
         /\ view'[t][l] = Len(mem'[l])
<1>1. l \in Locations /\ Tidy /\ pc \in [Threads -> Steps]
  BY Names DEF Sound, CallTypes
<1>2. Moves(t) /\ fences' = fences
  BY <1>1, Wrote DEF AcqRel
<1>3. \A k \in Locations \ {l} : mem'[k] = mem[k]
  BY <1>1, Wrote
<1>4. view'[t][l] = Len(mem'[l])
  BY <1>1, Wrote
<1>5. KeepsSlots({}) /\ mem'[Buffer] = mem[Buffer]
  BY <1>3, Names DEF KeepsSlots
<1>6. \A u \in Threads \ {t} : pc'[u] = pc[u] /\ view'[u] = view[u] /\ ahead'[u] = ahead[u]
  BY <1>1, <1>2 DEF Moves, rest
<1>7. \A c \in Clocks : view[t][c] <= view'[t][c] /\ fences[c] <= fences'[c]
  BY <1>2, FencesStay DEF Moves
<1>8. Turn(t)
  BY <1>5, <1>6, <1>7, SameBuffer DEF Turn, rest
<1> QED
  BY <1>4, <1>5, <1>8 DEF rest

LEMMA DepartureTurns ==
  ASSUME Sound, Departures, NEW t \in Threads,
         \/ t \in Tx /\ DropTx(t)
         \/ t \in Rx /\ Leave(t)
         \/ Swap(t) \/ Free(t)
  PROVE  Turn(t) /\ KeepsSlots({}) /\ mem'[Buffer] = mem[Buffer] /\ woken' = woken
<1>1. CASE t \in Tx /\ DropTx(t)
  <2>1. AcqRel(t, Senders, Latest(Senders) - 1) /\ pc[t] = "idle" /\ UNCHANGED rest
    BY <1>1 DEF DropTx, CountDown, Count
  <2>2. Latest(Senders) - 1 \in Values
    BY CountIsNat DEF Departures, Ends, Values
  <2> QED
    BY <1>1, <2>1, <2>2, LeavingTurn DEF DropTx, Goto
<1>2. CASE t \in Rx /\ Leave(t)
  <2>1. AcqRel(t, Receivers, Latest(Receivers) - 1) /\ pc[t] = "leave" /\ UNCHANGED rest
    BY <1>2, OrderingsAssumption DEF Leave, CountDown, Count
  <2>2. Latest(Receivers) - 1 \in Values
    BY CountIsNat DEF Departures, Ends, Values
  <2> QED
    BY <1>2, <2>1, <2>2, LeavingTurn DEF Leave, Goto
<1>3. CASE Swap(t)
  <2>1. AcqRel(t, Connected, FALSE) /\ pc[t] = "swap" /\ UNCHANGED rest /\ FALSE \in Values
    BY <1>3 DEF Swap, Disconnect, Values
  <2> QED
    BY <1>3, <2>1, LeavingTurn DEF Swap, Goto
<1>4. CASE Free(t)
  <2>1. /\ mem' = mem /\ view' = view /\ fences' = fences /\ UNCHANGED rest
        /\ pc[t] = "free" /\ pc' = [pc EXCEPT ![t] = "gone"] /\ pc \in [Threads -> Steps]
    BY <1>4 DEF Free, Goto, Sound, CallTypes
  <2>2. Moves(t)
    BY <2>1, NothingMoved DEF Quiet
  <2>3. \A u \in Threads \ {t} : pc'[u] = pc[u] /\ view'[u] = view[u] /\ ahead'[u] = ahead[u]
    BY <2>1 DEF rest
  <2>4. Turn(t)
    BY <2>1, <2>2, <2>3, FencesStay, SameBuffer DEF Turn, Moves, rest
  <2> QED
    BY <2>1, <2>4 DEF KeepsSlots, rest
<1> QED
  BY <1>1, <1>2, <1>3, <1>4

LEMMA CloneTurn ==
  ASSUME Sound, Departures, NEW t \in Threads, NEW new \in Threads, Clone(t, new)
  PROVE  /\ Turn(t) /\ KeepsSlots({}) /\ mem'[Buffer] = mem[Buffer] /\ woken' = woken
         /\ \A k \in Locations \ {Count(t)} : mem'[k] = mem[k]
         /\ \A u \in Threads \ {new} : pc'[u] = pc[u]
<1>1. /\ pc[t] = "idle" /\ pc[new] = "unborn" /\ Count(t) = Count(new) /\ CountUp(t, new)
      /\ pc' = [pc EXCEPT ![new] = "idle"] /\ UNCHANGED rest /\ pc \in [Threads -> Steps]
  BY DEF Clone, Goto, Sound, CallTypes
<1>2. /\ Count(t) \in Ends /\ t # new /\ view[new][new] = 0
      /\ Latest(Count(t)) + 1 \in Values /\ Tidy
  BY <1>1, Sides, CountIsNat DEF Departures, Values, Sound, NothingWritten
<1>3. /\ \A u \in Threads \ {t, new} : view'[u] = view[u]
      /\ \A c \in Clocks : view[t][c] <= view'[t][c]
      /\ \A k \in Locations \ {Count(t)} : mem'[k] = mem[k]
  <2> DEFINE value == Latest(Count(t)) + 1
  <2>1. Latest(Count(t)) + 1 = value /\ value \in Values
    BY <1>2
  <2> HIDE DEF value
  <2> QED
    BY <1>1, <1>2, <2>1, Cloned
<1>4. KeepsSlots({}) /\ mem'[Buffer] = mem[Buffer]
  BY <1>2, <1>3, Names DEF KeepsSlots, Ends
<1>5. \A u \in Threads \ {t} : \/ pc'[u] = pc[u] /\ view'[u] = view[u] /\ ahead'[u] = ahead[u]
                               \/ pc[u] = "unborn" /\ pc'[u] = "idle"
  BY <1>1, <1>3 DEF rest
<1>6. fences' = fences
  BY <1>1 DEF CountUp
<1>7. Turn(t)
  BY <1>1, <1>3, <1>4, <1>5, <1>6, FencesStay, SameBuffer DEF Turn, rest
<1> QED
  BY <1>1, <1>3, <1>4, <1>7 DEF rest


-----------------------------------------------------------------------------
\* The senders are fewer only after a drop, and none comes back.

LEMMA SendersSide ==
  ASSUME Sound, Departures, Next, \A s \in Tx : ~DropTx(s)
  PROVE  /\ OnSide(Senders) \subseteq OnSide(Senders)'
         /\ OnSide(Senders) = {} => OnSide(Senders)' = {} /\ mem'[Senders] = mem[Senders]
<1> DEFINE Goal == /\ OnSide(Senders) \subseteq OnSide(Senders)'
                   /\ OnSide(Senders) = {} => /\ OnSide(Senders)' = {}
                                              /\ mem'[Senders] = mem[Senders]
<1>1. ASSUME NEW t \in Threads, QuietStep(t) PROVE Goal
  BY <1>1, SameCounted DEF QuietStep, Quiet, Ends
<1>2. ASSUME NEW t \in Threads, NEW l \in {Receivers, Connected}, NEW value \in Values,
             AcqRel(t, l, value) \/ UNCHANGED mem, NEW step \in {"gone", "free", "swap"},
             pc' = [pc EXCEPT ![t] = step], t \in Tx => ~Counted(t)
      PROVE  Goal
  <2>1. pc \in [Threads -> Steps] /\ mem'[Senders] = mem[Senders]
    <3>1. mem \in [Locations -> Seq([val : Values, view : Views])]
          /\ Senders # l /\ Senders \in Locations /\ pc \in [Threads -> Steps]
      BY Names DEF Sound, CallTypes, Tidy, MemTypes
    <3> QED
      BY <1>2, <3>1 DEF AcqRel
  <2>2. OnSide(Senders)' = OnSide(Senders)
    BY <1>2, <2>1, Names DEF OnSide, Side, Counted, Out, Closing
  <2> QED
    BY <2>1, <2>2
<1>3. ASSUME NEW s \in Tx, Send(s) \/ Push(s) \/ Fence(s) \/ Hangup(s) PROVE Goal
  BY <1>1, <1>3, SendSteps, Names
<1>4. ASSUME NEW r \in Rx,
             \/ Load(r) \/ Pop(r) \/ FindEmpty(r) \/ Insert(r) \/ Barrier(r)
             \/ RemoveWaker(r) \/ RemoveNone(r) \/ Resume(r) \/ DropRx(r)
      PROVE  Goal
  BY <1>1, <1>4, PollSteps, Names
<1>5. ASSUME NEW t \in Threads, PassSlot(t) \/ FindNoWaker(t) \/ TakeWaker(t) PROVE Goal
  BY <1>1, <1>5, ScanSteps
<1>6. ASSUME NEW r \in Rx, Leave(r) PROVE Goal
  <2> DEFINE step == IF Latest(Receivers) = 1 THEN "swap" ELSE "gone"
  <2>1. /\ r \in Threads /\ r \notin Tx /\ AcqRel(r, Receivers, Latest(Receivers) - 1)
        /\ pc' = [pc EXCEPT ![r] = step] /\ step \in {"gone", "free", "swap"}
    BY <1>6, OrderingsAssumption, Names DEF Leave, CountDown, Count, Goto
  <2>2. Latest(Receivers) - 1 \in Values
    BY CountIsNat DEF Departures, Ends, Values
  <2> HIDE DEF step
  <2> QED
    BY <1>2, <2>1, <2>2
<1>7. ASSUME NEW t \in Threads, Swap(t) \/ Free(t) PROVE Goal
  <2> DEFINE step == IF Swap(t) /\ ~Latest(Connected) THEN "free" ELSE "gone"
  <2>1. /\ ~Counted(t) /\ (AcqRel(t, Connected, FALSE) \/ UNCHANGED mem)
        /\ FALSE \in Values /\ step \in {"gone", "free", "swap"}
    BY <1>7 DEF Swap, Free, Disconnect, Counted, Closing, Values
  <2>2. pc' = [pc EXCEPT ![t] = step]
    BY <1>7 DEF Swap, Free, Goto
  <2> HIDE DEF step
  <2> QED
    BY <1>2, <2>1, <2>2
<1>8. ASSUME NEW t \in Threads, NEW new \in Threads, Clone(t, new) PROVE Goal
  <2>1. /\ pc[t] = "idle" /\ pc[new] = "unborn" /\ Count(t) = Count(new)
        /\ pc' = [pc EXCEPT ![new] = "idle"] /\ pc \in [Threads -> Steps]
    BY <1>8 DEF Clone, Goto, Sound, CallTypes
  <2>2. OnSide(Senders) \subseteq OnSide(Senders)'
    BY <2>1, Sides DEF OnSide, Counted, Out, Closing, Side, Ends
  <2>3. CASE Count(t) = Senders
    <3>1. t \in OnSide(Senders)
      BY <2>1, <2>3, Sides DEF OnSide, Counted, Out, Closing
    <3> QED
      BY <2>2, <3>1
  <2>4. CASE Count(t) # Senders
    <3>1. mem'[Senders] = mem[Senders]
      BY <1>8, <2>4, CloneTurn, Names
    <3>2. new \notin Tx
      BY <2>1, <2>4 DEF Count
    <3>3. OnSide(Senders)' = OnSide(Senders)
      BY <2>1, <3>2, Names DEF OnSide, Side, Counted
    <3> QED
      BY <3>1, <3>3
  <2> QED
    BY <2>3, <2>4
<1> QED
  BY <1>3, <1>4, <1>5, <1>6, <1>7, <1>8 DEF Next

\* Every step keeps the buffer, unless it is a push or a pop.
LEMMA BufferKept ==
  ASSUME Sound, Departures, Next, \A s \in Tx : ~Push(s), \A r \in Rx : ~Pop(r)
  PROVE  mem'[Buffer] = mem[Buffer]
<1>1. ASSUME NEW t \in Threads, TakeWaker(t) PROVE mem'[Buffer] = mem[Buffer]
  <2>1. PICK r \in ahead[t] : TakesFrom(t, r)
    BY <1>1 DEF TakeWaker, TakesFrom
  <2> QED
    BY <1>1, <2>1, TakeTurn
<1> QED
  BY <1>1, SendTurns, LookTurns, SlotTurns, ScanTurns, DepartureTurns, CloneTurn, Names DEF Next

\* Once the senders are gone and the buffer is empty, this is so for ever.
LEMMA EndStays ==
  ASSUME Sound, Departures, Next, OnSide(Senders) = {}, Latest(Buffer) = 0
  PROVE  (OnSide(Senders) = {} /\ Latest(Buffer) = 0)'
<1>1. \A s \in Tx : ~DropTx(s) /\ ~Push(s)
  BY DEF DropTx, Push, OnSide, Side, Counted, Out, Closing
<1>2. \A r \in Rx : ~Pop(r)
  BY DEF Pop
<1>3. Latest(Buffer)' = Latest(Buffer)
  BY <1>1, <1>2, BufferKept DEF Latest, Final
<1> QED
  BY <1>1, <1>3, SendersSide

-----------------------------------------------------------------------------
\* The wakers of the receivers.

\* A view that sees a slot still does when it only learns and nobody writes.
LEMMA SeesStays ==
  ASSUME Sound, Sound', NEW r \in Rx, mem'[Slot(r)] = mem[Slot(r)], NEW v, Sees(v, r),
         NEW w, \A c \in Clocks : v[c] <= w[c] /\ w[c] <= Limit(c)' /\ w[c] \in Nat
  PROVE  w[Slot(r)] = Len(mem'[Slot(r)])
<1>1. Slot(r) \in Locations /\ Slot(r) \in Clocks
  BY Names
<1>2. Len(mem[Slot(r)]) \in Nat
  BY <1>1, Recorded DEF Sound, Tidy
<1>3. v[Slot(r)] <= w[Slot(r)] /\ w[Slot(r)] <= Len(mem'[Slot(r)]) /\ w[Slot(r)] \in Nat
  BY <1>1 DEF Limit
<1> QED
  BY <1>2, <1>3 DEF Sees

\* The views of the threads, of the fences and of the slots as the lemmas above
\* want them.
LEMMA ViewsNow ==
  ASSUME Sound'
  PROVE  /\ \A t \in Threads : \A c \in Clocks : view'[t][c] <= Limit(c)' /\ view'[t][c] \in Nat
         /\ \A c \in Clocks : fences'[c] <= Limit(c)' /\ fences'[c] \in Nat
BY DEF Sound, Tidy, MemTypes, MemBounded, Bounded, Views

LEMMA WakerKept ==
  ASSUME Sound, Sound', NEW r \in Rx, WakerRight(r), mem'[Slot(r)] = mem[Slot(r)],
         \A c \in Clocks : fences[c] <= fences'[c],
         \A c \in Clocks : view[r][c] <= view'[r][c],
         pc'[r] \in Waiting => /\ woken'[r] = woken[r]
                               /\ pc'[r] = pc[r] \/ {pc[r], pc'[r]} \subseteq PastBarrier,
         pc[r] \in Holding => pc'[r] \in Holding
  PROVE  WakerRight(r)'
<1>1. Latest(Slot(r))' = Latest(Slot(r))
  BY DEF Latest, Final
<1>2. Latest(Slot(r)) => view'[r][Slot(r)] = Len(mem'[Slot(r)])
  BY SeesStays, ViewsNow, Names DEF WakerRight
<1>3. pc'[r] \in PastBarrier /\ Latest(Slot(r)) => fences'[Slot(r)] = Len(mem'[Slot(r)])
  <2> SUFFICES ASSUME pc'[r] \in PastBarrier, Latest(Slot(r))
               PROVE  fences'[Slot(r)] = Len(mem'[Slot(r)])
    OBVIOUS
  <2>1. Sees(fences, r)
    BY DEF WakerRight, Waiting
  <2> QED
    BY <2>1, SeesStays, ViewsNow
<1>4. pc'[r] \in Waiting => Latest(Slot(r)) \/ woken'[r] # <<>>
  BY DEF WakerRight, Waiting
<1>5. Latest(Slot(r)) => pc'[r] \in Holding
  BY DEF WakerRight
<1> QED
  BY <1>1, <1>2, <1>3, <1>4, <1>5 DEF WakerRight, Sees

\* A slot without a waker is right for a receiver that does not wait.
LEMMA NoWakerNeeded ==
  ASSUME NEW r \in Rx, ~Latest(Slot(r))', pc'[r] \notin Waiting \/ woken'[r] # <<>>
  PROVE  WakerRight(r)'
BY DEF WakerRight

\* The wakers of all but those that a step concerns.
LEMMA OtherWakers ==
  ASSUME Sound, Sound', NEW t \in Threads, Turn(t), NEW r \in Rx \ {t}, WakerRight(r),
         mem'[Slot(r)] = mem[Slot(r)], woken'[r] = woken[r]
  PROVE  WakerRight(r)'
<1>1. r \in Threads /\ \A c \in Clocks : view[r][c] \in Nat /\ fences[c] <= fences'[c]
  BY Names DEF Turn, Sound, Tidy, MemTypes, Views
<1>2. CASE pc'[r] = pc[r] /\ view'[r] = view[r]
  BY <1>1, <1>2, WakerKept
<1>3. CASE pc[r] = "unborn" /\ pc'[r] = "idle"
  <2>1. ~Latest(Slot(r)) /\ Latest(Slot(r))' = Latest(Slot(r))
    BY <1>3 DEF WakerRight, Holding, Waiting, PastBarrier, Latest, Final
  <2> QED
    BY <1>3, <2>1, NoWakerNeeded DEF Waiting, PastBarrier
<1> QED
  BY <1>1, <1>2, <1>3 DEF Turn

LEMMA WakersOfSends ==
  ASSUME Sound, Departures, Sound', \A r \in Rx : WakerRight(r), NEW t \in Threads,
         \/ t \in Tx /\ (Send(t) \/ Push(t) \/ Fence(t) \/ Hangup(t) \/ DropTx(t))
         \/ PassSlot(t) \/ FindNoWaker(t) \/ Swap(t) \/ Free(t)
         \/ t \in Rx /\ Leave(t)
         \/ \E new \in Threads : Clone(t, new)
  PROVE  \A r \in Rx : WakerRight(r)'
<1>1. Turn(t) /\ KeepsSlots({}) /\ woken' = woken
  BY SendTurns, PushTurn, ScanTurns, DepartureTurns, CloneTurn DEF KeepsSlots
<1>2. \A r \in Rx \ {t} : WakerRight(r)'
  BY <1>1, OtherWakers DEF KeepsSlots
<1>3. ASSUME t \in Rx PROVE WakerRight(t)'
  <2>1. \/ pc[t] \in {"leave scan", "hangup scan", "scan", "leave", "swap", "free"}
        \/ pc[t] = "idle"
    BY <1>3, OrderingsAssumption DEF PassSlot, FindNoWaker, Swap, Free, Leave, Clone, Scanning
  <2>2. CASE pc[t] = "idle"
    <3>1. PICK new \in Threads : Clone(t, new)
      BY <1>3, <2>2, OrderingsAssumption DEF PassSlot, FindNoWaker, Swap, Free, Leave, Scanning
    <3>2. pc'[t] = "idle"
      BY <2>2, <3>1, CloneTurn DEF Clone
    <3> QED
      BY <1>1, <1>3, <2>2, <3>2, WakerKept DEF Turn, KeepsSlots, Waiting, PastBarrier, Holding
  <2>3. CASE pc[t] # "idle"
    <3>1. pc[t] \notin Holding
      BY <2>1, <2>3 DEF Holding, Waiting, PastBarrier
    <3>2. pc'[t] \notin Waiting
      <4>1. pc \in [Threads -> Steps]
        BY DEF Sound, CallTypes
      <4>2. ~ \E new \in Threads : Clone(t, new)
        BY <2>3 DEF Clone
      <4> QED
        BY <1>3, <4>1, <4>2, OrderingsAssumption
        DEF PassSlot, FindNoWaker, Swap, Free, Leave, Goto, Scanning, AfterScan, Waiting, PastBarrier
    <3> QED
      BY <1>1, <1>3, <3>1, <3>2, WakerKept DEF Turn, KeepsSlots
  <2> QED
    BY <2>2, <2>3
<1> QED
  BY <1>2, <1>3

LEMMA WakersOfPolls ==
  ASSUME Sound, Sound', \A q \in Rx : WakerRight(q), NEW r \in Rx,
         \/ Load(r) \/ Pop(r) \/ FindEmpty(r) \/ Insert(r) \/ Barrier(r)
         \/ RemoveWaker(r) \/ RemoveNone(r) \/ Resume(r) \/ DropRx(r)
  PROVE  \A q \in Rx : WakerRight(q)'
<1>1. /\ r \in Threads /\ Turn(r) /\ KeepsSlots({r}) /\ pc \in [Threads -> Steps]
      /\ \A q \in Rx \ {r} : woken'[q] = woken[q]
  BY LookTurns, PopTurn, SlotTurns, Names DEF KeepsSlots, Sound, CallTypes
<1>2. \A q \in Rx \ {r} : WakerRight(q)'
  BY <1>1, OtherWakers DEF KeepsSlots
<1>3. CASE Load(r) \/ Pop(r) \/ FindEmpty(r) \/ RemoveNone(r) \/ Resume(r)
  <2>1. mem'[Slot(r)] = mem[Slot(r)]
    BY <1>3, LookTurns, PopTurn DEF KeepsSlots
  <2>2. pc[r] \in Holding => pc'[r] \in Holding
    BY <1>1, <1>3
    DEF Load, Pop, FindEmpty, RemoveNone, AfterPoll, Resume, Goto, Holding, Waiting, PastBarrier
  <2>3. pc'[r] \in Waiting => {pc[r], pc'[r]} \subseteq PastBarrier /\ woken'[r] = woken[r]
    BY <1>1, <1>3
    DEF Load, Pop, FindEmpty, RemoveNone, AfterPoll, Resume, rest, Goto, Waiting, PastBarrier
  <2> QED
    BY <1>1, <1>2, <2>1, <2>2, <2>3, WakerKept DEF Turn, PastBarrier
<1>4. CASE Insert(r)
  <2>1. AcqRel(r, Slot(r), TRUE) /\ pc' = [pc EXCEPT ![r] = "barrier"]
    BY <1>4 DEF Insert, Goto
  <2>2. Latest(Slot(r))' = TRUE /\ view'[r][Slot(r)] = Len(mem'[Slot(r)])
    BY <1>1, <2>1, SlotAfter
  <2>3. pc'[r] = "barrier"
    BY <1>1, <2>1
  <2>4. WakerRight(r)'
    BY <2>2, <2>3 DEF WakerRight, Sees, PastBarrier, Holding, Waiting
  <2> QED
    BY <1>2, <2>4
<1>5. CASE Barrier(r)
  <2>1. /\ pc[r] = "barrier" /\ SeqCst(r) /\ pc' = [pc EXCEPT ![r] = "reload"]
        /\ woken' = woken
    BY <1>5 DEF Barrier, FencePoll, Goto, rest
  <2>2. mem' = mem /\ fences' = view'[r] /\ \A c \in Clocks : view[r][c] <= fences'[c]
    BY <1>1, <2>1, FencesRise
  <2>3. pc'[r] = "reload" /\ Latest(Slot(r))' = Latest(Slot(r))
    BY <1>1, <2>1, <2>2 DEF Latest, Final
  <2>4. Latest(Slot(r)) => fences'[Slot(r)] = Len(mem'[Slot(r)])
                           /\ view'[r][Slot(r)] = Len(mem'[Slot(r)])
    <3> SUFFICES ASSUME Latest(Slot(r))
                 PROVE  fences'[Slot(r)] = Len(mem'[Slot(r)])
      BY <2>2
    <3>1. Sees(view[r], r)
      BY DEF WakerRight
    <3> QED
      BY <2>2, <3>1, SeesStays, ViewsNow
  <2>5. Latest(Slot(r)) \/ woken'[r] # <<>>
    BY <2>1 DEF WakerRight, Waiting
  <2>6. WakerRight(r)'
    BY <2>3, <2>4, <2>5 DEF WakerRight, Sees, PastBarrier, Holding, Waiting
  <2> QED
    BY <1>2, <2>6
<1>6. CASE RemoveWaker(r) \/ DropRx(r)
  <2>1. AcqRel(r, Slot(r), FALSE)
    BY <1>6 DEF RemoveWaker, DropRx
  <2>2. Latest(Slot(r))' = FALSE
    BY <1>1, <2>1, SlotAfter
  <2>3. pc'[r] \notin Waiting
    BY <1>1, <1>6 DEF RemoveWaker, AfterPoll, DropRx, Goto, Waiting, PastBarrier
  <2>4. WakerRight(r)'
    BY <2>2, <2>3, NoWakerNeeded
  <2> QED
    BY <1>2, <2>4
<1> QED
  BY <1>3, <1>4, <1>5, <1>6

LEMMA WakersOfTake ==
  ASSUME Sound, Sound', \A q \in Rx : WakerRight(q), NEW t \in Threads, TakeWaker(t)
  PROVE  \A q \in Rx : WakerRight(q)'
<1>1. PICK r \in ahead[t] : TakesFrom(t, r)
  BY DEF TakeWaker, TakesFrom
<1>2. /\ Turn(t) /\ KeepsSlots({r}) /\ woken'[r] # <<>>
      /\ \A q \in Rx \ {r} : woken'[q] = woken[q]
  BY <1>1, TakeTurn
<1>3. r \in Rx /\ pc \in [Threads -> Steps]
  BY DEF Sound, CallTypes
<1>4. WakerRight(r)'
  <2>1. Latest(Slot(r))' = FALSE
    BY <1>1, <1>3, SlotAfter DEF TakesFrom
  <2> QED
    BY <1>2, <1>3, <2>1, NoWakerNeeded
<1>5. \A q \in Rx \ {r, t} : WakerRight(q)'
  BY <1>2, OtherWakers DEF KeepsSlots
<1>6. ASSUME t \in Rx \ {r} PROVE WakerRight(t)'
  <2>1. pc[t] \in Scanning /\ pc'[t] \in Scanning \cup {"idle", "swap", "leave"}
    BY <1>3 DEF TakeWaker, Goto, Scanning, AfterScan
  <2>2. pc[t] \notin Holding /\ pc'[t] \notin Waiting
    BY <2>1 DEF Scanning, Holding, Waiting, PastBarrier
  <2> QED
    BY <1>2, <1>3, <1>6, <2>2, WakerKept DEF Turn, KeepsSlots
<1> QED
  BY <1>4, <1>5, <1>6

\* What the rest of the wakers' invariant says is kept.
LEMMA OwnIndexKept ==
  ASSUME Sound, Departures, OwnIndex, Sound', Next
  PROVE  OwnIndex'
<1>1. ASSUME NEW t \in Threads, NEW n \in Nat, AcqRel(t, Buffer, n) PROVE OwnIndex'
  <2>1. /\ Extended /\ DOMAIN mem'[Buffer] = 1..Len(mem[Buffer]) + 1
        /\ mem'[Buffer][Len(mem[Buffer]) + 1] = [val |-> n, view |-> view'[t]]
        /\ view'[t][Buffer] = Len(mem[Buffer]) + 1
    BY <1>1, BufferWritten
  <2>2. \A i \in DOMAIN mem'[Buffer] : i \in DOMAIN mem[Buffer] \/ i = Len(mem[Buffer]) + 1
    BY <2>1, BufferTypes
  <2>3. Len(mem[Buffer]) + 1 \in Nat
    BY BufferTypes
  <2> QED
    BY <2>1, <2>2, <2>3 DEF OwnIndex, Extended
<1>2. CASE \E s \in Tx : Push(s)
  BY <1>1, <1>2, BufferTypes, Names DEF Push
<1>3. CASE \E r \in Rx : Pop(r)
  BY <1>1, <1>3, BufferTypes, Names DEF Pop
<1>4. CASE (\A s \in Tx : ~Push(s)) /\ \A r \in Rx : ~Pop(r)
  BY <1>4, BufferKept DEF OwnIndex
<1> QED
  BY <1>2, <1>3, <1>4

\* How a receiver is past its barrier after a step.
Rests(r) == pc'[r] = pc[r] /\ view'[r] = view[r] /\ hungup'[r] = hungup[r]

Falls(r) == \/ Rests(r)
            \/ Load(r) /\ pc[r] = "reload" /\ pc'[r] = "repop"
            \/ FindEmpty(r) /\ pc[r] = "repop" /\ pc'[r] = "parked"
            \/ Barrier(r) /\ pc'[r] = "reload"

LEMMA Turning ==
  ASSUME Sound, Departures, Next
  PROVE  \E t \in Threads : Turn(t) /\
           \/ t \in Tx /\ (Send(t) \/ Push(t) \/ Fence(t) \/ Hangup(t) \/ DropTx(t))
           \/ PassSlot(t) \/ FindNoWaker(t) \/ TakeWaker(t) \/ Swap(t) \/ Free(t)
           \/ \E new \in Threads : Clone(t, new)
           \/ t \in Rx /\ ( \/ Load(t) \/ Pop(t) \/ FindEmpty(t) \/ Insert(t) \/ Barrier(t)
                            \/ RemoveWaker(t) \/ RemoveNone(t) \/ Resume(t)
                            \/ DropRx(t) \/ Leave(t))
<1>1. CASE \E s \in Tx : Send(s) \/ Push(s) \/ Fence(s) \/ DropTx(s) \/ Hangup(s)
  BY <1>1, SendTurns, PushTurn, DepartureTurns, Names
<1>2. CASE \E r \in Rx : \/ Load(r) \/ Pop(r) \/ FindEmpty(r) \/ Insert(r) \/ Barrier(r)
                         \/ RemoveWaker(r) \/ RemoveNone(r) \/ Resume(r)
                         \/ DropRx(r) \/ Leave(r)
  BY <1>2, LookTurns, PopTurn, SlotTurns, DepartureTurns, Names
<1>3. CASE \E t \in Threads : TakeWaker(t)
  <2>1. PICK t \in Threads : TakeWaker(t)
    BY <1>3
  <2>2. PICK r \in ahead[t] : TakesFrom(t, r)
    BY <2>1 DEF TakeWaker, TakesFrom
  <2> QED
    BY <2>1, <2>2, TakeTurn
<1>4. CASE \E t \in Threads : \/ PassSlot(t) \/ FindNoWaker(t) \/ Swap(t) \/ Free(t)
                              \/ \E new \in Threads : Clone(t, new)
  BY <1>4, ScanTurns, DepartureTurns, CloneTurn
<1> QED
  BY <1>1, <1>2, <1>3, <1>4 DEF Next

LEMMA Falling ==
  ASSUME Sound, Departures, Next, NEW r \in Rx, pc'[r] \in PastBarrier
  PROVE  Falls(r)
<1>1. r \in Threads /\ pc \in [Threads -> Steps] /\ r \notin Tx
  BY Names, OrderingsAssumption DEF Sound, CallTypes
<1>2. PICK t \in Threads : Turn(t) /\
           \/ t \in Tx /\ (Send(t) \/ Push(t) \/ Fence(t) \/ Hangup(t) \/ DropTx(t))
           \/ PassSlot(t) \/ FindNoWaker(t) \/ TakeWaker(t) \/ Swap(t) \/ Free(t)
           \/ \E new \in Threads : Clone(t, new)
           \/ t \in Rx /\ ( \/ Load(t) \/ Pop(t) \/ FindEmpty(t) \/ Insert(t) \/ Barrier(t)
                            \/ RemoveWaker(t) \/ RemoveNone(t) \/ Resume(t)
                            \/ DropRx(t) \/ Leave(t))
  BY Turning
<1>3. CASE r # t
  BY <1>1, <1>2, <1>3 DEF Turn, Falls, Rests, PastBarrier
<1>4. CASE r = t
  <2>1. CASE Load(r) \/ FindEmpty(r) \/ Barrier(r)
    BY <1>1, <2>1 DEF Load, FindEmpty, Barrier, Goto, Falls, PastBarrier
  <2>2. CASE Pop(r) \/ Insert(r) \/ RemoveWaker(r) \/ RemoveNone(r) \/ Resume(r)
             \/ DropRx(r) \/ Leave(r)
    BY <1>1, <2>2
    DEF Pop, Insert, RemoveWaker, RemoveNone, AfterPoll, Resume, DropRx, Leave, Goto, PastBarrier
  <2>3. CASE PassSlot(r) \/ FindNoWaker(r) \/ TakeWaker(r) \/ Swap(r) \/ Free(r)
    BY <1>1, <2>3
    DEF PassSlot, FindNoWaker, TakeWaker, Swap, Free, Goto, Scanning, AfterScan, PastBarrier
  <2>4. CASE \E new \in Threads : Clone(r, new)
    BY <1>1, <2>4 DEF Clone, Goto, PastBarrier
  <2> QED
    BY <1>1, <1>2, <1>4, <2>1, <2>2, <2>3, <2>4
<1> QED
  BY <1>3, <1>4

\* Nobody writes to the slot of a receiver that sleeps on.
LEMMA SleepsOn ==
  ASSUME Sound, Departures, Next, NEW r \in Asleep'
  PROVE  /\ r \in Rx /\ mem'[Slot(r)] = mem[Slot(r)] /\ woken[r] = <<>>
         /\ Falls(r) /\ (r \in Asleep \/ Barrier(r))
<1>1. r \in Rx /\ pc'[r] \in PastBarrier /\ woken'[r] = <<>> /\ Falls(r)
  BY Falling DEF Asleep
<1>2. ASSUME NEW q \in Rx, Insert(q) \/ RemoveWaker(q) \/ DropRx(q)
      PROVE  mem'[Slot(r)] = mem[Slot(r)] /\ woken'[r] = woken[r]
  <2>1. q \in Threads /\ pc \in [Threads -> Steps]
    BY Names DEF Sound, CallTypes
  <2>2. q # r
    BY <1>1, <1>2, <2>1 DEF Insert, RemoveWaker, AfterPoll, DropRx, Goto, PastBarrier
  <2> QED
    BY <1>1, <1>2, <2>2, SlotTurns DEF KeepsSlots
<1>3. ASSUME NEW t \in Threads, TakeWaker(t)
      PROVE  mem'[Slot(r)] = mem[Slot(r)] /\ woken'[r] = woken[r]
  <2>1. PICK q \in ahead[t] : TakesFrom(t, q)
    BY <1>3 DEF TakeWaker, TakesFrom
  <2>2. KeepsSlots({q}) /\ woken'[q] # <<>> /\ \A p \in Rx \ {q} : woken'[p] = woken[p]
    BY <1>3, <2>1, TakeTurn
  <2> QED
    BY <1>1, <2>2 DEF KeepsSlots
<1>4. ASSUME NEW q \in Rx,
             Load(q) \/ FindEmpty(q) \/ Barrier(q) \/ RemoveNone(q) \/ Resume(q)
      PROVE  mem'[Slot(r)] = mem[Slot(r)] /\ woken'[r] = woken[r]
  <2>1. mem' = mem /\ \A p \in Rx \ {q} : woken'[p] = woken[p]
    BY <1>4, LookTurns
  <2>2. q \in Threads /\ pc \in [Threads -> Steps]
    BY Names DEF Sound, CallTypes
  <2>3. CASE Load(q) \/ FindEmpty(q) \/ Barrier(q) \/ RemoveNone(q)
    BY <2>1, <2>3 DEF Load, FindEmpty, Barrier, RemoveNone, rest
  <2>4. CASE Resume(q)
    <3>1. q # r
      BY <1>1, <2>2, <2>4 DEF Resume, Goto, PastBarrier
    <3> QED
      BY <1>1, <2>1, <3>1
  <2> QED
    BY <1>4, <2>3, <2>4
<1>5. mem'[Slot(r)] = mem[Slot(r)] /\ woken'[r] = woken[r]
  BY <1>1, <1>2, <1>3, <1>4, SendTurns, PushTurn, PopTurn, ScanTurns, DepartureTurns, CloneTurn, Names
  DEF Next, KeepsSlots
<1>6. r \in Asleep \/ Barrier(r)
  BY <1>1, <1>5 DEF Falls, Rests, Asleep, PastBarrier
<1> QED
  BY <1>1, <1>5, <1>6

\* A pop that finds nothing looked at an old state.
LEMMA LookedEmpty ==
  ASSUME Sound, OwnIndex, NEW r \in Rx, FindEmpty(r)
  PROVE  ~Informed(view[r]) /\ ~Informed(view[r])'
<1>1. PICK i \in DOMAIN mem[Buffer] : mem[Buffer][i].val = 0 /\ Acquire(r, Buffer, i)
  BY DEF FindEmpty
<1>2. /\ r \in Threads /\ Buffer \in Locations /\ Buffer \in Clocks /\ view[r] \in Views
      /\ view \in [Threads -> Views] /\ mem[Buffer][i].view \in Views /\ i \in Nat
  <2>1. r \in Threads /\ Buffer \in Locations /\ Buffer \in Clocks /\ MemTypes
    BY Names DEF Sound, Tidy
  <2>2. mem[Buffer][i].view \in Views
    BY <2>1, Recorded
  <2>3. i \in Nat
    BY BufferTypes
  <2> QED
    BY <2>1, <2>2, <2>3 DEF MemTypes
<1>3. i \in view[r][Buffer]..Len(mem[Buffer]) /\ mem' = mem
      /\ view'[r] = Join(Seen(r, Buffer, i), mem[Buffer][i].view)
  BY <1>1, <1>2 DEF Acquire
<1>4. Seen(r, Buffer, i)[Buffer] = i /\ Seen(r, Buffer, i) \in Views
  BY <1>2 DEF Seen, Views
<1>5. view'[r][Buffer] = i
  <2>1. mem[Buffer][i].view[Buffer] <= i
    BY DEF OwnIndex
  <2>2. view'[r][Buffer] \in {i, mem[Buffer][i].view[Buffer]} /\ i <= view'[r][Buffer]
    BY <1>2, <1>3, <1>4, Joined
  <2>3. mem[Buffer][i].view[Buffer] \in Nat
    BY <1>2 DEF Views
  <2> QED
    BY <1>2, <2>1, <2>2, <2>3
<1>6. ~(i < view'[r][Buffer]) /\ ~(i < view[r][Buffer])
  <2>1. view[r][Buffer] \in Nat /\ Len(mem[Buffer]) \in Nat
    BY BufferTypes, <1>2
  <2> QED
    BY <1>2, <1>3, <1>5, <2>1
<1> QED
  BY <1>1, <1>3, <1>6 DEF Informed

LEMMA ParkedKept ==
  ASSUME Sound, Departures, Wakers, Next
  PROVE  ParkedUninformed'
<1>1. PICK t \in Threads : Turn(t)
  BY Turning
<1>2. ASSUME NEW r \in Rx, pc'[r] = "parked" PROVE ~Informed(view[r])'
  <2>1. Falls(r)
    BY <1>2, Falling DEF PastBarrier
  <2>2. CASE Rests(r)
    BY <1>1, <1>2, <2>2 DEF Rests, Wakers, ParkedUninformed, Informed, Turn, Extended
  <2>3. CASE FindEmpty(r)
    BY <2>3, LookedEmpty DEF Wakers
  <2> QED
    BY <1>2, <2>1, <2>2, <2>3 DEF Falls
<1> QED
  BY <1>2 DEF ParkedUninformed

LEMMA NothingAfterEndKept ==
  ASSUME Sound, Departures, Wakers, Endings', Next
  PROVE  NothingAfterEnd'
<1>1. ASSUME NEW r \in Rx, pc'[r] \in {"closed", "over"}, pc[r] \notin {"closed", "over"}
      PROVE  pc'[r] = "closed"
  <2>1. r \in Threads /\ pc \in [Threads -> Steps] /\ r \notin Tx
    BY Names, OrderingsAssumption DEF Sound, CallTypes
  <2>2. PICK t \in Threads : Turn(t) /\
           \/ t \in Tx /\ (Send(t) \/ Push(t) \/ Fence(t) \/ Hangup(t) \/ DropTx(t))
           \/ PassSlot(t) \/ FindNoWaker(t) \/ TakeWaker(t) \/ Swap(t) \/ Free(t)
           \/ \E new \in Threads : Clone(t, new)
           \/ t \in Rx /\ ( \/ Load(t) \/ Pop(t) \/ FindEmpty(t) \/ Insert(t) \/ Barrier(t)
                            \/ RemoveWaker(t) \/ RemoveNone(t) \/ Resume(t)
                            \/ DropRx(t) \/ Leave(t))
    BY Turning
  <2>3. r = t
    BY <1>1, <2>1, <2>2 DEF Turn
  <2>4. CASE Load(r) \/ Pop(r) \/ Insert(r) \/ Barrier(r) \/ Resume(r) \/ DropRx(r) \/ Leave(r)
    BY <1>1, <2>1, <2>4 DEF Load, Pop, Insert, Barrier, Resume, DropRx, Leave, Goto
  <2>5. CASE PassSlot(r) \/ FindNoWaker(r) \/ TakeWaker(r) \/ Swap(r) \/ Free(r)
    BY <1>1, <2>1, <2>5
    DEF PassSlot, FindNoWaker, TakeWaker, Swap, Free, Goto, Scanning, AfterScan
  <2>6. CASE \E new \in Threads : Clone(r, new)
    BY <1>1, <2>1, <2>6 DEF Clone, Goto
  <2>7. CASE RemoveWaker(r) \/ RemoveNone(r) \/ FindEmpty(r)
    BY <1>1, <2>1, <2>7 DEF RemoveWaker, RemoveNone, AfterPoll, FindEmpty, Goto
  <2> QED
    BY <2>1, <2>2, <2>3, <2>4, <2>5, <2>6, <2>7
<1>2. ASSUME NEW r \in Rx, pc'[r] \in {"closed", "over"}
      PROVE  (OnSide(Senders) = {} /\ Latest(Buffer) = 0)'
  <2>1. CASE pc[r] \in {"closed", "over"}
    BY <2>1, EndStays DEF Wakers, NothingAfterEnd
  <2>2. CASE pc[r] \notin {"closed", "over"}
    BY <1>1, <1>2, <2>2 DEF Endings, ClosedIsOver
  <2> QED
    BY <2>1, <2>2
<1> QED
  BY <1>2 DEF NothingAfterEnd

LEMMA WakersStayRight ==
  ASSUME Sound, Departures, Sound', Endings', Wakers, Next
  PROVE  Wakers'
<1>1. \A r \in Rx : WakerRight(r)'
  BY WakersOfSends, WakersOfPolls, WakersOfTake, Names DEF Next, Wakers
<1> QED
  BY <1>1, OwnIndexKept, ParkedKept, NothingAfterEndKept DEF Wakers

LEMMA StartingWakers == Init => Wakers
<1> SUFFICES ASSUME Init PROVE Wakers
  OBVIOUS
<1>1. PICK start \in Starts :
  /\ mem = [l \in Locations |->
              Start(CASE l = Senders   -> Cardinality(Tx \cap start.here)
                      [] l = Receivers -> Cardinality(Rx \cap start.here)
                      [] l = Connected -> TRUE
                      [] l = Buffer    -> 0
                      [] OTHER         -> FALSE)]
  /\ pc = [t \in Threads |-> CASE t \in start.here   -> "idle"
                               [] t \in start.unborn -> "unborn"
                               [] OTHER              -> "absent"]
  BY DEF Init
<1>2. mem[Buffer] = Start(0) /\ \A r \in Rx : mem[Slot(r)] = Start(FALSE)
  BY <1>1, Names
<1>3. \A r \in Rx : ~Latest(Slot(r))
  <2>1. Len(Start(FALSE)) = 1 /\ Start(FALSE)[1].val = FALSE
    BY DEF Start
  <2>2. \A r \in Rx : Latest(Slot(r)) = FALSE
    BY <1>2, <2>1 DEF Latest, Final
  <2> QED
    BY <2>2
<1>4. \A r \in Rx : pc[r] \in {"idle", "unborn", "absent"}
  BY <1>1, Names
<1>5. \A r \in Rx : WakerRight(r)
  BY <1>3, <1>4 DEF WakerRight, Waiting, PastBarrier
<1>6. OwnIndex
  BY <1>2, Names DEF OwnIndex, Start
<1>7. ParkedUninformed /\ NothingAfterEnd
  BY <1>4 DEF ParkedUninformed, NothingAfterEnd
<1> QED
  BY <1>5, <1>6, <1>7 DEF Wakers

LEMMA AlwaysWakers == Spec => []Wakers
<1>1. Init => Wakers
  BY StartingWakers
<1>2. Sound /\ Departures /\ Sound' /\ Endings' /\ Wakers /\ [Next]_vars => Wakers'
  <2> SUFFICES ASSUME Sound, Departures, Sound', Endings', Wakers, [Next]_vars
               PROVE  Wakers'
    OBVIOUS
  <2>1. CASE Next
    BY <2>1, WakersStayRight
  <2>2. CASE UNCHANGED vars
    <3>1. mem' = mem /\ view' = view /\ fences' = fences /\ pc' = pc /\ woken' = woken
      BY <2>2 DEF vars
    <3>2. OnSide(Senders)' = OnSide(Senders) /\ \A l : Latest(l)' = Latest(l)
      BY <3>1 DEF OnSide, Side, Counted, Latest, Final
    <3> QED
      BY <3>1, <3>2
      DEF Wakers, OwnIndex, ParkedUninformed, NothingAfterEnd, WakerRight, Informed, Sees
  <2> QED
    BY <2>1, <2>2
<1> QED
  BY <1>1, <1>2, AlwaysDepartures, AlwaysEndings, PTL DEF Spec

-----------------------------------------------------------------------------
\* Views that find a message, or a waker, still do.

LEMMA SleepersKnown ==
  ASSUME Wakers, NEW r \in Asleep
  PROVE  r \in Rx /\ Latest(Slot(r)) /\ Sees(fences, r) /\ pc[r] # "absent"
BY DEF Wakers, WakerRight, Asleep, Waiting, PastBarrier

LEMMA Learning ==
  ASSUME Sound, NEW t \in Threads, Turn(t), NEW u \in Threads, pc[u] # "unborn"
  PROVE  \A c \in Clocks : view[u][c] <= view'[u][c]
<1>1. \A c \in Clocks : view[u][c] \in Nat
  BY DEF Sound, Tidy, MemTypes, Views
<1> QED
  BY <1>1 DEF Turn

\* The buffer is not found empty at states that were not there before.
NoNewEmpty == \A i \in DOMAIN mem'[Buffer] :
  mem'[Buffer][i].val = 0 => i \in DOMAIN mem[Buffer] /\ mem[Buffer][i].val = 0

LEMMA NotEmptied ==
  ASSUME Sound, Departures, Next, Latest(Buffer)' > 0
  PROVE  NoNewEmpty
<1>1. ASSUME NEW t \in Threads, NEW n \in Nat, AcqRel(t, Buffer, n) PROVE NoNewEmpty
  <2>1. /\ Extended /\ DOMAIN mem'[Buffer] = 1..Len(mem[Buffer]) + 1 /\ Latest(Buffer)' = n
        /\ mem'[Buffer][Len(mem[Buffer]) + 1] = [val |-> n, view |-> view'[t]]
    BY <1>1, BufferWritten
  <2>2. \A i \in DOMAIN mem'[Buffer] : i \in DOMAIN mem[Buffer] \/ i = Len(mem[Buffer]) + 1
    BY <2>1, BufferTypes
  <2> QED
    BY <2>1, <2>2 DEF NoNewEmpty, Extended
<1>2. CASE \E s \in Tx : Push(s)
  BY <1>1, <1>2, BufferTypes, Names DEF Push
<1>3. CASE \E r \in Rx : Pop(r)
  BY <1>1, <1>3, BufferTypes, Names DEF Pop
<1>4. CASE (\A s \in Tx : ~Push(s)) /\ \A r \in Rx : ~Pop(r)
  BY <1>4, BufferKept DEF NoNewEmpty
<1> QED
  BY <1>2, <1>3, <1>4

LEMMA InformedStays ==
  ASSUME Sound, NoNewEmpty, NEW v, v[Buffer] \in Nat, Informed(v),
         NEW w, w[Buffer] \in Nat, v[Buffer] <= w[Buffer]
  PROVE  \A i \in DOMAIN mem'[Buffer] : mem'[Buffer][i].val = 0 => i < w[Buffer]
<1>1. \A i \in DOMAIN mem[Buffer] : i \in Nat
  BY BufferTypes
<1> QED
  BY <1>1 DEF NoNewEmpty, Informed

\* While the fences know of the message, nobody new dozes off, and nobody
\* writes to the slots of those who do.
Calm == NoNewEmpty /\ \A r \in Dozing' : r \in Dozing /\ mem'[Slot(r)] = mem[Slot(r)]

LEMMA Calming ==
  ASSUME Sound, Departures, Sound', Next, Latest(Buffer)' > 0, Informed(fences)
  PROVE  Calm
<1>1. NoNewEmpty /\ Buffer \in Clocks
  BY NotEmptied, Names
<1>2. /\ \A u \in Threads : view[u][Buffer] \in Nat /\ view'[u][Buffer] \in Nat
      /\ fences[Buffer] \in Nat
  BY <1>1, BufferTypes, ViewsNow DEF Sound, Tidy, MemTypes, Views
<1>3. PICK t \in Threads : Turn(t)
  BY Turning
<1>4. ASSUME NEW r \in Dozing' PROVE r \in Dozing /\ mem'[Slot(r)] = mem[Slot(r)]
  <2>1. r \in Asleep' /\ ~Informed(view[r])'
    BY DEF Dozing
  <2>2. r \in Rx /\ mem'[Slot(r)] = mem[Slot(r)] /\ (r \in Asleep \/ Barrier(r))
    BY <2>1, SleepsOn
  <2>3. r \in Threads
    BY <2>2, Names
  <2>4. r \in Asleep
    <3>1. ASSUME Barrier(r) PROVE FALSE
      <4>1. fences[Buffer] <= view'[r][Buffer]
        BY <1>1, <2>3, <3>1, FencesRise DEF Barrier, FencePoll
      <4>2. \A i \in DOMAIN mem'[Buffer] : mem'[Buffer][i].val = 0 => i < view'[r][Buffer]
        BY <1>1, <1>2, <2>3, <4>1, InformedStays
      <4> QED
        BY <2>1, <4>2 DEF Informed
    <3> QED
      BY <2>2, <3>1
  <2>5. ~Informed(view[r])
    <3>1. ASSUME Informed(view[r]) PROVE FALSE
      <4>1. view[r][Buffer] <= view'[r][Buffer]
        BY <1>1, <1>3, <2>3, <2>4, Learning DEF Asleep, PastBarrier
      <4>2. \A i \in DOMAIN mem'[Buffer] : mem'[Buffer][i].val = 0 => i < view'[r][Buffer]
        BY <1>1, <1>2, <2>3, <3>1, <4>1, InformedStays
      <4> QED
        BY <2>1, <4>2 DEF Informed
    <3> QED
      BY <3>1
  <2> QED
    BY <2>2, <2>4, <2>5 DEF Dozing
<1> QED
  BY <1>1, <1>4 DEF Calm

\* A full view stays full in all that come after it.
LEMMA FullStays ==
  ASSUME Sound, Sound', Calm, NEW v \in Views, Full(v),
         NEW w, \A c \in Clocks : v[c] <= w[c] /\ w[c] <= Limit(c)' /\ w[c] \in Nat
  PROVE  /\ \A i \in DOMAIN mem'[Buffer] : mem'[Buffer][i].val = 0 => i < w[Buffer]
         /\ \A r \in Dozing' : w[Slot(r)] = Len(mem'[Slot(r)])
<1>1. Buffer \in Clocks /\ v[Buffer] \in Nat
  BY Names DEF Views
<1>2. \A i \in DOMAIN mem'[Buffer] : mem'[Buffer][i].val = 0 => i < w[Buffer]
  BY <1>1, InformedStays DEF Calm, Full
<1>3. ASSUME NEW r \in Dozing' PROVE w[Slot(r)] = Len(mem'[Slot(r)])
  <2>1. r \in Rx /\ mem'[Slot(r)] = mem[Slot(r)] /\ Sees(v, r)
    BY DEF Calm, Full, Dozing, Asleep
  <2> QED
    BY <2>1, SeesStays
<1> QED
  BY <1>2, <1>3

LEMMA FullThread ==
  ASSUME Sound, Sound', Calm, NEW t \in Threads,
         NEW v \in Views, Full(v), \A c \in Clocks : v[c] <= view'[t][c]
  PROVE  Full(view[t])'
BY FullStays, ViewsNow DEF Full, Informed, Sees

LEMMA FullOther ==
  ASSUME Sound, Sound', Calm, NEW t \in Threads, Turn(t), NEW u \in Threads, pc[u] # "unborn",
         Full(view[u])
  PROVE  Full(view[u])'
<1>1. view[u] \in Views
  BY DEF Sound, Tidy, MemTypes
<1> QED
  BY <1>1, Learning, FullThread

LEMMA FullSlot ==
  ASSUME Sound, Sound', Calm, NEW r \in Rx, mem'[Slot(r)] = mem[Slot(r)],
         Full(Final(Slot(r)).view)
  PROVE  Full(Final(Slot(r)).view)'
<1> DEFINE v == Final(Slot(r)).view
<1>1. Slot(r) \in Locations /\ MemTypes /\ MemTypes' /\ MemBounded'
  BY Names DEF Sound, Tidy
<1>2. v \in Views /\ Final(Slot(r))'.view = v
  BY <1>1, Recorded DEF Final
<1>3. \A c \in Clocks : v[c] <= Limit(c)'
  <2>1. Len(mem[Slot(r)]) \in DOMAIN mem[Slot(r)]
    BY <1>1, Recorded
  <2> QED
    BY <1>1, <2>1 DEF MemBounded, Bounded, Final
<1>4. \A c \in Clocks : v[c] <= v[c] /\ v[c] \in Nat
  BY <1>2 DEF Views
<1> HIDE DEF v
<1>5. Full(v)
  BY DEF v
<1>6. /\ \A i \in DOMAIN mem'[Buffer] : mem'[Buffer][i].val = 0 => i < v[Buffer]
      /\ \A q \in Dozing' : v[Slot(q)] = Len(mem'[Slot(q)])
  BY <1>2, <1>3, <1>4, <1>5, FullStays
<1> QED
  BY <1>2, <1>6 DEF Full, Informed, Sees

-----------------------------------------------------------------------------
\* Who owes a wake for a message, after each step.

Debtor == Dozing = {} \/ \E t \in Threads : Owes(t)

LEMMA OthersOwe ==
  ASSUME Sound, Sound', Calm, NEW t \in Threads, Turn(t), NEW u \in Threads \ {t}, Owes(u),
         u \in Rx => mem'[Slot(u)] = mem[Slot(u)]
  PROVE  Owes(u)'
<1>1. pc[u] # "unborn"
  BY DEF Owes, Scans, Carries, Scanning, Waiting, PastBarrier
<1>2. pc'[u] = pc[u] /\ ahead'[u] = ahead[u]
  BY <1>1 DEF Turn
<1>3. CASE Scans(u)
  <2>1. Full(view[u])'
    BY <1>1, <1>3, FullOther DEF Scans
  <2>2. Dozing' \subseteq ahead'[u]
    BY <1>2, <1>3 DEF Calm, Scans
  <2> QED
    BY <1>2, <1>3, <2>1, <2>2 DEF Owes, Scans
<1>4. CASE u \in Rx /\ Carries(u)
  <2>1. mem'[Slot(u)] = mem[Slot(u)] /\ Latest(Slot(u))' = Latest(Slot(u))
    BY <1>4 DEF Latest, Final
  <2>2. Full(view[u]) => Full(view[u])'
    BY <1>1, FullOther
  <2>3. Full(Final(Slot(u)).view) => Full(Final(Slot(u)).view)'
    BY <1>4, <2>1, FullSlot
  <2>4. Carries(u)'
    BY <1>2, <1>4, <2>1, <2>2, <2>3 DEF Carries
  <2> QED
    BY <1>4, <2>4 DEF Owes
<1> QED
  BY <1>3, <1>4 DEF Owes

\* The debt passes through a step that is not a send's fence, if the thread
\* that takes it passes on its own.
LEMMA MessageKept ==
  ASSUME Sound, Departures, Sound', MessageOwed, Next, Latest(Buffer) > 0,
         NEW t \in Threads, Turn(t), ~Sends(t),
         \A r \in Rx \ {t} : Calm /\ Latest(Buffer)' > 0 /\ Owes(r) => Debtor',
         Calm /\ Latest(Buffer)' > 0 /\ Owes(t) => Debtor'
  PROVE  MessageOwed'
<1> SUFFICES ASSUME Latest(Buffer)' > 0
             PROVE  (\/ \E s \in Tx : Sends(s)
                     \/ Informed(fences) /\ Debtor)'
  BY DEF MessageOwed, Debtor
<1>1. NoNewEmpty /\ Buffer \in Clocks
  BY NotEmptied, Names
<1>2. CASE \E s \in Tx : Sends(s)
  <2>1. PICK s \in Tx : Sends(s)
    BY <1>2
  <2>2. s # t /\ s \in Threads /\ pc[s] # "unborn"
    BY <2>1, Names DEF Sends
  <2>3. pc'[s] = pc[s] /\ view'[s] = view[s]
    BY <2>2 DEF Turn
  <2>4. Sends(s)'
    BY <1>1, <2>1, <2>3 DEF Sends, Informed, NoNewEmpty
  <2> QED
    BY <2>4
<1>3. CASE Informed(fences) /\ Debtor
  <2>1. Calm
    BY <1>3, Calming
  <2>2. Informed(fences)'
    <3>1. fences[Buffer] \in Nat /\ fences'[Buffer] \in Nat /\ fences[Buffer] <= fences'[Buffer]
      BY <1>1, ViewsNow DEF Sound, Tidy, MemTypes, Views, Turn
    <3>2. \A i \in DOMAIN mem'[Buffer] : mem'[Buffer][i].val = 0 => i < fences'[Buffer]
      BY <1>1, <1>3, <3>1, InformedStays
    <3> QED
      BY <3>2 DEF Informed
  <2>3. Debtor'
    <3>1. CASE Dozing = {}
      BY <2>1, <3>1 DEF Calm, Debtor
    <3>2. ASSUME NEW u \in Threads, Owes(u) PROVE Debtor'
      <4>1. CASE u \in Rx \/ u = t
        BY <2>1, <3>2, <4>1
      <4>2. CASE u \notin Rx /\ u # t
        BY <2>1, <3>2, <4>2, OthersOwe DEF Debtor
      <4> QED
        BY <4>1, <4>2
    <3> QED
      BY <1>3, <3>1, <3>2 DEF Debtor
  <2> QED
    BY <2>2, <2>3
<1> QED
  BY <1>2, <1>3 DEF MessageOwed, Debtor

\* Steps that write to no slot but that of the thread that takes them.
LEMMA OwnSlotKept ==
  ASSUME Sound, Departures, Sound', MessageOwed, Next, Latest(Buffer) > 0,
         NEW t \in Threads, Turn(t), ~Sends(t), KeepsSlots({t}),
         Calm /\ Latest(Buffer)' > 0 /\ Owes(t) => Debtor'
  PROVE  MessageOwed'
<1>1. \A r \in Rx \ {t} : Calm /\ Owes(r) => Owes(r)'
  BY OthersOwe, Names DEF KeepsSlots
<1> QED
  BY <1>1, MessageKept, Names DEF Debtor

LEMMA MessageOfPush ==
  ASSUME Sound, Departures, Sound', MessageOwed, NEW s \in Tx, Push(s)
  PROVE  MessageOwed'
<1> DEFINE n == Latest(Buffer) + 1
<1>1. /\ s \in Threads /\ pc[s] = "push" /\ AcqRel(s, Buffer, n) /\ pc \in [Threads -> Steps]
      /\ pc' = [pc EXCEPT ![s] = "fence"]
  BY Names DEF Push, Goto, Sound, CallTypes
<1>4. n \in Nat /\ n > 0
  BY BufferTypes
<1>5. Turn(s) /\ KeepsSlots({}) /\ Next
  BY PushTurn DEF Next
<1> HIDE DEF n
<1>2. CASE Latest(Buffer) > 0
  <2>1. ~Owes(s) /\ ~Sends(s)
    BY <1>1, OrderingsAssumption DEF Owes, Scans, Scanning, Sends
  <2> QED
    BY <1>1, <1>2, <1>5, <2>1, OwnSlotKept DEF KeepsSlots
<1>3. CASE Latest(Buffer) = 0
  <2>1. /\ DOMAIN mem'[Buffer] = 1..Len(mem[Buffer]) + 1 /\ Extended
        /\ mem'[Buffer][Len(mem[Buffer]) + 1] = [val |-> n, view |-> view'[s]]
        /\ view'[s][Buffer] = Len(mem[Buffer]) + 1
    BY <1>1, <1>4, BufferWritten
  <2>2. \A i \in DOMAIN mem'[Buffer] : mem'[Buffer][i].val = 0 => i < view'[s][Buffer]
    <3>1. \A i \in DOMAIN mem'[Buffer] : i \in Nat /\ i <= Len(mem[Buffer]) + 1
      BY <2>1, BufferTypes
    <3> QED
      BY <1>4, <2>1, <3>1, BufferTypes
  <2>3. Sends(s)'
    BY <1>1, <2>2 DEF Sends, Informed
  <2> QED
    BY <2>3 DEF MessageOwed
<1> QED
  BY <1>2, <1>3, BufferTypes

\* After its fence a send will see the wakers of those who did not see its push.
LEMMA MessageOfFence ==
  ASSUME Sound, Departures, Sound', Wakers', MessageOwed, NEW s \in Tx, Fence(s)
  PROVE  MessageOwed'
<1>1. /\ s \in Threads /\ pc[s] = "fence" /\ SeqCst(s) /\ mem' = mem /\ fences' = view'[s]
      /\ pc'[s] = "scan" /\ ahead'[s] = Slots /\ Turn(s) /\ woken' = woken
      /\ \A u \in Threads \ {s} : pc'[u] = pc[u]
  BY Names, FencesRise, SendTurns DEF Fence, FenceSend, Goto, Sound, CallTypes
<1>2. Latest(Buffer)' = Latest(Buffer)
  BY <1>1 DEF Latest, Final
<1>3. CASE Sends(s)
  <2>1. \A c \in Clocks : view[s][c] <= view'[s][c]
    BY <1>1 DEF Turn
  <2>2. view[s][Buffer] \in Nat /\ view'[s][Buffer] \in Nat /\ Buffer \in Clocks
    BY <1>1, BufferTypes, ViewsNow, Names
  <2>3. \A i \in DOMAIN mem'[Buffer] : mem'[Buffer][i].val = 0 => i < view'[s][Buffer]
    BY <1>1, <1>3, <2>1, <2>2, InformedStays DEF Sends, NoNewEmpty
  <2>4. \A r \in Asleep' : fences'[Slot(r)] = Len(mem'[Slot(r)]) /\ r \in Rx /\ pc'[r] # "absent"
    BY DEF Wakers, WakerRight, Asleep, Sees, Waiting, PastBarrier
  <2>5. Informed(fences)' /\ Full(view[s])'
    BY <1>1, <2>3, <2>4 DEF Full, Informed, Sees, Dozing
  <2>6. Dozing' \subseteq ahead'[s]
    <3>1. \A r \in Rx : pc'[r] # "absent" => r \in Slots
      BY <1>1, OrderingsAssumption, Names DEF Slots
    <3> QED
      BY <1>1, <2>4, <3>1 DEF Dozing
  <2>7. Owes(s)'
    BY <1>1, <2>5, <2>6 DEF Owes, Scans, Scanning
  <2> QED
    BY <1>1, <2>5, <2>7 DEF MessageOwed
<1>4. CASE ~Sends(s)
  <2>1. CASE Latest(Buffer) > 0
    <3>1. ~Owes(s)
      BY <1>1, OrderingsAssumption DEF Owes, Scans, Scanning
    <3> QED
      BY <1>1, <1>4, <2>1, <3>1, OwnSlotKept DEF KeepsSlots, Next
  <2>2. CASE ~(Latest(Buffer) > 0)
    BY <1>2, <2>2 DEF MessageOwed
  <2> QED
    BY <2>1, <2>2
<1> QED
  BY <1>3, <1>4

\* A receiver finds no waker of its own to remove only if there is none.
LEMMA OwnWakerSeen ==
  ASSUME Sound, NEW r \in Rx, WakerRight(r), RemoveNone(r)
  PROVE  ~Latest(Slot(r))
<1>1. PICK i \in DOMAIN mem[Slot(r)] : ~mem[Slot(r)][i].val /\ i \in view[r][Slot(r)]..Len(mem[Slot(r)])
  BY DEF RemoveNone, Acquire
<1>2. ASSUME Latest(Slot(r)) PROVE i = Len(mem[Slot(r)])
  <2>1. view[r][Slot(r)] = Len(mem[Slot(r)]) /\ Len(mem[Slot(r)]) \in Nat
    BY <1>2, Names, Recorded DEF WakerRight, Sees, Sound, Tidy
  <2> QED
    BY <1>1, <2>1
<1> QED
  BY <1>1, <1>2 DEF Latest, Final

\* A receiver that was woken carries the wake through its poll.
LEMMA MessageOfLook ==
  ASSUME Sound, Departures, Sound', Endings', Wakers, MessageOwed, NEW r \in Rx,
         Load(r) \/ Pop(r) \/ FindEmpty(r) \/ Barrier(r) \/ RemoveNone(r) \/ Resume(r)
  PROVE  MessageOwed'
<1> SUFFICES ASSUME Latest(Buffer)' > 0 PROVE MessageOwed'
  BY DEF MessageOwed
<1>1. /\ r \in Threads /\ Turn(r) /\ KeepsSlots({}) /\ Next /\ pc \in [Threads -> Steps]
      /\ mem'[Slot(r)] = mem[Slot(r)]
  BY Names, LookTurns, PopTurn DEF KeepsSlots, Next, Sound, CallTypes
<1>2. Latest(Buffer) > 0
  <2>1. CASE Pop(r)
    BY <2>1 DEF Pop
  <2>2. CASE Load(r) \/ FindEmpty(r) \/ Barrier(r) \/ RemoveNone(r) \/ Resume(r)
    BY <2>2, LookTurns DEF Latest, Final
  <2> QED
    BY <2>1, <2>2
<1>3. pc[r] \notin Scanning \cup {"fence", "unborn"}
  BY DEF Load, Pop, FindEmpty, Barrier, RemoveNone, Resume, Scanning
<1>4. ASSUME Calm, Owes(r) PROVE Owes(r)'
  <2>1. Carries(r)
    BY <1>3, <1>4 DEF Owes, Scans
  <2>2. Full(view[r]) => Full(view[r])'
    BY <1>1, <1>3, <1>4, FullOther
  <2>3. Full(Final(Slot(r)).view) => Full(Final(Slot(r)).view)'
    BY <1>1, <1>4, FullSlot
  <2>4. Latest(Slot(r))' = Latest(Slot(r))
    BY <1>1 DEF Latest, Final
  <2>5. pc'[r] # "closed"
    BY DEF Endings, ClosedIsOver
  <2>6. RemoveNone(r) => ~Latest(Slot(r)) /\ (pc[r] = "remove" => pc'[r] = "idle")
    BY <1>1, OwnWakerSeen DEF Wakers, RemoveNone, AfterPoll, Goto
  <2>7. Carries(r)'
    <3>1. CASE /\ pc[r] \in Waiting \cup {"idle", "pop", "insert", "remove"} /\ ~Latest(Slot(r))
               /\ Full(view[r]) \/ Full(Final(Slot(r)).view)
      <4>1. pc'[r] \in Waiting \cup {"idle", "pop", "insert", "remove"}
        BY <1>1, <2>5, <2>6, <3>1
        DEF Load, Pop, FindEmpty, Barrier, RemoveNone, Resume, Goto, Waiting, PastBarrier
      <4> QED
        BY <2>2, <2>3, <2>4, <3>1, <4>1 DEF Carries
    <3>2. CASE pc[r] \in {"barrier", "reload", "repop", "remove"} /\ Full(view[r])
      <4>1. ~FindEmpty(r)
        BY <3>2, LookedEmpty DEF Wakers, Full
      <4>2. CASE RemoveNone(r)
        <5>1. pc'[r] = "idle" /\ ~Latest(Slot(r))'
          BY <2>4, <2>6, <3>2, <4>2 DEF RemoveNone
        <5> QED
          BY <2>2, <3>2, <5>1 DEF Carries
      <4>3. CASE ~RemoveNone(r)
        <5>1. pc'[r] \in {"barrier", "reload", "repop", "remove"}
          BY <1>1, <3>2, <4>1, <4>3 DEF Load, Pop, Barrier, Resume, Goto
        <5> QED
          BY <2>2, <3>2, <5>1 DEF Carries
      <4> QED
        BY <4>2, <4>3
    <3> QED
      BY <2>1, <3>1, <3>2 DEF Carries
  <2> QED
    BY <2>7 DEF Owes
<1>5. ~Sends(r)
  BY <1>3 DEF Sends
<1> QED
  BY <1>1, <1>2, <1>4, <1>5, OwnSlotKept DEF KeepsSlots, Debtor

LEMMA MessageOfSlot ==
  ASSUME Sound, Departures, Sound', MessageOwed, NEW r \in Rx,
         Insert(r) \/ RemoveWaker(r) \/ DropRx(r)
  PROVE  MessageOwed'
<1> SUFFICES ASSUME Latest(Buffer)' > 0 PROVE MessageOwed'
  BY DEF MessageOwed
<1>1. /\ r \in Threads /\ r \notin Tx /\ Turn(r) /\ KeepsSlots({r}) /\ Next
      /\ pc \in [Threads -> Steps] /\ view[r] \in Views /\ Final(Slot(r)).view \in Views
      /\ mem'[Buffer] = mem[Buffer]
  BY Names, OrderingsAssumption, SlotTurns, Recorded
  DEF KeepsSlots, Next, Sound, CallTypes, Tidy, MemTypes
<1>2. Latest(Buffer) > 0
  BY <1>1 DEF Latest, Final
<1>3. pc[r] \in {"insert", "remove", "closed", "idle", "parked", "over"}
  BY DEF Insert, RemoveWaker, DropRx
<1>4. PICK value \in BOOLEAN : AcqRel(r, Slot(r), value) /\ (Insert(r) \/ value = FALSE)
  BY DEF Insert, RemoveWaker, DropRx
<1>5. /\ Latest(Slot(r))' = value
      /\ \A c \in Clocks : Final(Slot(r)).view[c] <= view'[r][c]
      /\ \A c \in Clocks : view[r][c] <= view'[r][c]
  BY <1>1, <1>4, SlotAfter DEF Turn
<1>6. ASSUME Calm, Owes(r) PROVE Owes(r)'
  <2>1. Carries(r)
    BY <1>3, <1>6 DEF Owes, Scans, Scanning
  <2>2. Full(view[r])'
    BY <1>1, <1>5, <1>6, <2>1, FullThread DEF Carries
  <2>3. CASE Insert(r)
    <3>1. pc'[r] = "barrier"
      BY <1>1, <2>3 DEF Insert, Goto
    <3> QED
      BY <2>2, <3>1 DEF Owes, Carries
  <2>4. CASE RemoveWaker(r)
    <3>1. pc[r] = "remove"
      BY <2>1, <2>4 DEF RemoveWaker, Carries, Waiting, PastBarrier
    <3>2. pc'[r] = "idle" /\ ~Latest(Slot(r))'
      BY <1>1, <1>4, <1>5, <2>4, <3>1 DEF RemoveWaker, AfterPoll, Insert, Goto
    <3> QED
      BY <2>2, <3>2 DEF Owes, Carries
  <2>5. CASE DropRx(r)
    <3>1. ~Latest(Slot(r))
      BY <2>1, <2>5 DEF DropRx, Carries
    <3>2. pc'[r] = "leave scan" /\ ahead'[r] = Slots
      BY <1>1, <2>5, <3>1 DEF DropRx, Goto, Sound, CallTypes
    <3>3. Dozing' \subseteq Slots
      BY <1>6 DEF Calm, Dozing, Asleep, Slots, PastBarrier
    <3>4. Scans(r)'
      BY <2>2, <3>2, <3>3 DEF Scans, Scanning
    <3> QED
      BY <3>4 DEF Owes
  <2> QED
    BY <2>3, <2>4, <2>5
<1>7. ~Sends(r)
  BY <1>3 DEF Sends
<1> QED
  BY <1>1, <1>2, <1>6, <1>7, OwnSlotKept DEF Debtor

\* A scan with a full view passes the wake on.
LEMMA MessageOfScan ==
  ASSUME Sound, Departures, Sound', Wakers, MessageOwed, NEW t \in Threads,
         PassSlot(t) \/ FindNoWaker(t)
  PROVE  MessageOwed'
<1> SUFFICES ASSUME Latest(Buffer)' > 0 PROVE MessageOwed'
  BY DEF MessageOwed
<1>1. /\ Turn(t) /\ mem' = mem /\ Next /\ pc \in [Threads -> Steps] /\ pc[t] \in Scanning
  BY ScanTurns DEF Next, Sound, CallTypes, PassSlot, FindNoWaker
<1>2. Latest(Buffer) > 0
  BY <1>1 DEF Latest, Final
<1>3. ASSUME Calm, Owes(t) PROVE Debtor'
  <2>1. Scans(t) /\ pc[t] # "unborn"
    BY <1>1, <1>3 DEF Owes, Carries, Scanning, Waiting, PastBarrier
  <2>2. CASE FindNoWaker(t)
    BY <1>3, <2>1, <2>2 DEF FindNoWaker, Scans, Calm, Debtor
  <2>3. CASE PassSlot(t)
    <3>1. PICK r \in ahead[t] : \E i \in DOMAIN mem[Slot(r)] :
            /\ ~mem[Slot(r)][i].val /\ Acquire(t, Slot(r), i)
            /\ ahead' = [ahead EXCEPT ![t] = @ \ {r}]
      BY <2>3 DEF PassSlot
    <3>2. PICK i \in DOMAIN mem[Slot(r)] :
            /\ ~mem[Slot(r)][i].val /\ i \in view[t][Slot(r)]..Len(mem[Slot(r)])
      BY <3>1 DEF Acquire
    <3>3. r \notin Dozing
      <4>1. ASSUME r \in Dozing PROVE FALSE
        <5>1. r \in Rx /\ Latest(Slot(r)) /\ Sees(view[t], r)
          BY <2>1, <4>1, SleepersKnown DEF Dozing, Scans, Full
        <5>2. Len(mem[Slot(r)]) \in Nat
          BY <5>1, Names, Recorded DEF Sound, Tidy
        <5>3. i = Len(mem[Slot(r)])
          BY <3>2, <5>1, <5>2 DEF Sees
        <5> QED
          BY <3>2, <5>1, <5>3 DEF Latest, Final
      <4> QED
        BY <4>1
    <3>4. ahead'[t] = ahead[t] \ {r} /\ pc'[t] = pc[t]
      BY <2>3, <3>1 DEF PassSlot, Sound, CallTypes
    <3>5. Full(view[t])'
      BY <1>1, <1>3, <2>1, FullOther DEF Scans
    <3>6. Scans(t)'
      BY <1>3, <2>1, <3>3, <3>4, <3>5 DEF Scans, Calm
    <3> QED
      BY <3>6 DEF Debtor, Owes
  <2> QED
    BY <2>2, <2>3
<1>4. ~Sends(t) /\ KeepsSlots({t})
  BY <1>1 DEF Sends, Scanning, KeepsSlots
<1> QED
  BY <1>1, <1>2, <1>3, <1>4, OwnSlotKept

LEMMA MessageOfTake ==
  ASSUME Sound, Departures, Sound', Wakers, MessageOwed, NEW t \in Threads, TakeWaker(t)
  PROVE  MessageOwed'
<1> SUFFICES ASSUME Latest(Buffer)' > 0 PROVE MessageOwed'
  BY DEF MessageOwed
<1>1. PICK q \in ahead[t] : TakesFrom(t, q)
  BY DEF TakeWaker, TakesFrom
<1>2. /\ Turn(t) /\ KeepsSlots({q}) /\ mem'[Buffer] = mem[Buffer] /\ Next
      /\ pc[t] \in Scanning /\ q \in Rx /\ q \in Threads /\ view[t] \in Views
  BY <1>1, TakeTurn, Names DEF Next, TakeWaker, Sound, CallTypes, Tidy, MemTypes
<1>3. Latest(Buffer) > 0
  BY <1>2 DEF Latest, Final
<1>4. /\ Latest(Slot(q)) /\ Latest(Slot(q))' = FALSE /\ Final(Slot(q))'.view = view'[t]
  BY <1>1, <1>2, SlotAfter DEF TakesFrom
<1>5. pc[q] \in Waiting \cup {"idle", "pop", "insert", "remove"}
  BY <1>2, <1>3, <1>4 DEF Wakers, WakerRight, NothingAfterEnd, Holding
<1>6. q # t /\ pc'[q] = pc[q] /\ pc[q] # "unborn"
  BY <1>2, <1>5 DEF Turn, Scanning, Waiting, PastBarrier
<1>7. ASSUME Calm, Owes(t) PROVE Debtor'
  <2>1. Scans(t) /\ pc[t] # "unborn"
    BY <1>2, <1>7 DEF Owes, Carries, Scanning, Waiting, PastBarrier
  <2>2. Full(view[t])'
    BY <1>2, <1>7, <2>1, FullOther DEF Scans
  <2>3. Full(Final(Slot(q)).view)'
    BY <1>4, <2>2 DEF Full, Informed, Sees
  <2>4. Carries(q)'
    BY <1>4, <1>5, <1>6, <2>3 DEF Carries
  <2> QED
    BY <1>2, <2>4 DEF Debtor, Owes
<1>8. ASSUME NEW r \in Rx \ {t}, Calm, Owes(r) PROVE Debtor'
  <2>1. CASE r # q
    BY <1>2, <1>8, <2>1, OthersOwe, Names DEF KeepsSlots, Debtor
  <2>2. CASE r = q
    <3>1. pc[q] \in {"barrier", "reload", "repop", "remove"} /\ Full(view[q])
      BY <1>4, <1>5, <1>8, <2>2 DEF Owes, Scans, Carries, Scanning, Waiting, PastBarrier
    <3>2. Full(view[q])'
      BY <1>2, <1>6, <1>8, <3>1, FullOther
    <3>3. Carries(q)'
      BY <1>6, <3>1, <3>2 DEF Carries
    <3> QED
      BY <1>2, <3>3 DEF Debtor, Owes
  <2> QED
    BY <2>1, <2>2
<1>9. ~Sends(t)
  BY <1>2 DEF Sends, Scanning
<1> QED
  BY <1>2, <1>3, <1>7, <1>8, <1>9, MessageKept

\* The other steps neither wake nor need to.
LEMMA MessageOfOthers ==
  ASSUME Sound, Departures, Sound', MessageOwed, NEW t \in Threads,
         \/ t \in Tx /\ (Send(t) \/ Hangup(t) \/ DropTx(t))
         \/ t \in Rx /\ Leave(t)
         \/ Swap(t) \/ Free(t)
         \/ \E new \in Threads : Clone(t, new)
  PROVE  MessageOwed'
<1> SUFFICES ASSUME Latest(Buffer)' > 0 PROVE MessageOwed'
  BY DEF MessageOwed
<1>1. Turn(t) /\ KeepsSlots({}) /\ mem'[Buffer] = mem[Buffer]
  BY SendTurns, DepartureTurns, CloneTurn DEF KeepsSlots
<1>2. Next /\ pc[t] \in {"idle", "hangup", "leave", "swap", "free"}
  BY DEF Next, Send, Hangup, DropTx, Leave, Swap, Free, Clone
<1>3. Latest(Buffer) > 0
  BY <1>1 DEF Latest, Final
<1>4. ASSUME Calm, Owes(t) PROVE Owes(t)'
  <2>1. t \in Rx /\ Carries(t) /\ pc[t] = "idle"
    BY <1>2, <1>4 DEF Owes, Scans, Carries, Scanning, Waiting, PastBarrier
  <2>2. PICK new \in Threads : Clone(t, new)
    BY <2>1, OrderingsAssumption DEF Leave, Swap, Free
  <2>3. pc'[t] = "idle"
    BY <2>1, <2>2, CloneTurn DEF Clone
  <2>4. mem'[Slot(t)] = mem[Slot(t)] /\ Latest(Slot(t))' = Latest(Slot(t))
    BY <1>1, <2>1 DEF KeepsSlots, Latest, Final
  <2>5. Full(view[t]) => Full(view[t])'
    BY <1>1, <1>4, <2>1, FullOther
  <2>6. Full(Final(Slot(t)).view) => Full(Final(Slot(t)).view)'
    BY <1>4, <2>1, <2>4, FullSlot
  <2> QED
    BY <2>1, <2>3, <2>4, <2>5, <2>6 DEF Owes, Carries
<1>5. ~Sends(t)
  BY <1>2 DEF Sends
<1> QED
  BY <1>1, <1>2, <1>3, <1>4, <1>5, OwnSlotKept DEF KeepsSlots, Debtor

LEMMA MessageStays ==
  ASSUME Sound, Departures, Sound', Endings', Wakers, Wakers', MessageOwed, Next
  PROVE  MessageOwed'
<1>1. CASE \E s \in Tx : Send(s) \/ Push(s) \/ Fence(s) \/ DropTx(s) \/ Hangup(s)
  BY <1>1, MessageOfPush, MessageOfFence, MessageOfOthers, Names
<1>2. CASE \E r \in Rx : \/ Load(r) \/ Pop(r) \/ FindEmpty(r) \/ Insert(r) \/ Barrier(r)
                         \/ RemoveWaker(r) \/ RemoveNone(r) \/ Resume(r)
                         \/ DropRx(r) \/ Leave(r)
  BY <1>2, MessageOfLook, MessageOfSlot, MessageOfOthers, Names
<1>3. CASE \E t \in Threads : \/ PassSlot(t) \/ FindNoWaker(t) \/ TakeWaker(t)
                              \/ Swap(t) \/ Free(t)
                              \/ \E new \in Threads : Clone(t, new)
  BY <1>3, MessageOfScan, MessageOfTake, MessageOfOthers
<1> QED
  BY <1>1, <1>2, <1>3 DEF Next

-----------------------------------------------------------------------------
\* Who owes a wake for the end of the channel.

\* The last sender has seen its own countdown.
LEMMA HangsUpStays ==
  ASSUME Sound, Departures, Sound', HangsUp, Next
  PROVE  HangsUp'
<1>1. ASSUME NEW s \in Tx, pc'[s] = "hangup" PROVE view'[s][Senders] = Len(mem'[Senders])
  <2>1. s \in Threads /\ pc \in [Threads -> Steps] /\ s \notin Rx
    BY Names, OrderingsAssumption DEF Sound, CallTypes
  <2>2. PICK t \in Threads : Turn(t) /\
           \/ t \in Tx /\ (Send(t) \/ Push(t) \/ Fence(t) \/ Hangup(t) \/ DropTx(t))
           \/ PassSlot(t) \/ FindNoWaker(t) \/ TakeWaker(t) \/ Swap(t) \/ Free(t)
           \/ \E new \in Threads : Clone(t, new)
           \/ t \in Rx /\ ( \/ Load(t) \/ Pop(t) \/ FindEmpty(t) \/ Insert(t) \/ Barrier(t)
                            \/ RemoveWaker(t) \/ RemoveNone(t) \/ Resume(t)
                            \/ DropRx(t) \/ Leave(t))
    BY Turning
  <2>3. CASE s # t
    <3>1. pc[s] = "hangup" /\ view'[s] = view[s]
      BY <1>1, <2>1, <2>2, <2>3 DEF Turn
    <3>2. OnSide(Senders) = {}
      <4>1. \A u \in Tx : u = s \/ pc[u] \in Out
        BY <2>1, <3>1 DEF Departures, LastKnows, Closing, Count, Side
      <4> QED
        BY <3>1, <4>1 DEF OnSide, Side, Counted, Closing
    <3>3. \A u \in Tx : ~DropTx(u)
      BY <3>2 DEF DropTx, OnSide, Side, Counted, Out, Closing
    <3>4. mem'[Senders] = mem[Senders]
      BY <3>2, <3>3, SendersSide
    <3> QED
      BY <3>1, <3>4 DEF HangsUp
  <2>4. CASE s = t
    <3>1. CASE DropTx(s)
      <4>1. /\ AcqRel(s, Senders, Latest(Senders) - 1) /\ pc[s] = "idle" /\ UNCHANGED rest
            /\ \E step : pc' = [pc EXCEPT ![s] = step]
        BY <3>1 DEF DropTx, CountDown, Count, Goto
      <4>2. Latest(Senders) - 1 \in Values
        BY CountIsNat DEF Departures, Ends, Values
      <4> QED
        BY <2>1, <4>1, <4>2, LeavingTurn
    <3>2. CASE Send(s) \/ Push(s) \/ Fence(s) \/ Hangup(s)
      BY <1>1, <2>1, <3>2 DEF Send, Push, Fence, Hangup, Goto
    <3>3. CASE PassSlot(s) \/ FindNoWaker(s) \/ TakeWaker(s) \/ Swap(s) \/ Free(s)
      BY <1>1, <2>1, <3>3
      DEF PassSlot, FindNoWaker, TakeWaker, Swap, Free, Goto, Scanning, AfterScan
    <3>4. CASE \E new \in Threads : Clone(s, new)
      BY <1>1, <2>1, <3>4 DEF Clone, Goto
    <3> QED
      BY <2>1, <2>2, <2>4, <3>1, <3>2, <3>3, <3>4
  <2> QED
    BY <2>3, <2>4
<1> QED
  BY <1>1 DEF HangsUp

\* Once the fences know of the end, no receiver falls asleep without knowing.
LEMMA EndKnown ==
  ASSUME Sound, Departures, Sound', Next, OnSide(Senders) = {},
         fences[Senders] = Len(mem[Senders])
  PROVE  /\ fences'[Senders] = Len(mem'[Senders])
         /\ \A r \in Unwarned' : r \in Unwarned /\ mem'[Slot(r)] = mem[Slot(r)]
<1>1. \A s \in Tx : ~DropTx(s)
  BY DEF DropTx, OnSide, Side, Counted, Out, Closing
<1>2. mem'[Senders] = mem[Senders]
  BY <1>1, SendersSide
<1>3. Senders \in Locations /\ Senders \in Clocks
  BY Names
<1>4. Len(mem[Senders]) \in Nat /\ DOMAIN mem[Senders] = 1..Len(mem[Senders])
  BY <1>3, Recorded DEF Sound, Tidy
<1>5. PICK t \in Threads : Turn(t)
  BY Turning
<1>6. fences'[Senders] = Len(mem'[Senders])
  BY <1>2, <1>3, <1>4, <1>5, ViewsNow DEF Turn, Limit
<1>7. ASSUME NEW r \in Unwarned' PROVE r \in Unwarned /\ mem'[Slot(r)] = mem[Slot(r)]
  <2>1. r \in Asleep'
    BY DEF Unwarned
  <2>2. /\ r \in Rx /\ mem'[Slot(r)] = mem[Slot(r)] /\ woken[r] = <<>> /\ Falls(r)
        /\ (r \in Asleep \/ Barrier(r))
    BY <2>1, SleepsOn
  <2>3. /\ r \in Threads /\ pc \in [Threads -> Steps] /\ hungup \in [Rx -> BOOLEAN]
        /\ view[r][Senders] \in Nat /\ view'[r][Senders] \in Nat
    <3>1. r \in Threads /\ CallTypes /\ view \in [Threads -> Views]
      BY <2>2, Names DEF Sound, Tidy, MemTypes
    <3>2. view'[r][Senders] \in Nat
      BY <1>3, <3>1, ViewsNow
    <3> QED
      BY <1>3, <3>1, <3>2 DEF CallTypes, Views
  <2>4. CASE Rests(r)
    BY <1>2, <2>1, <2>2, <2>4 DEF Rests, Unwarned, Asleep
  <2>5. CASE Load(r) /\ pc[r] = "reload" /\ pc'[r] = "repop"
    <3>1. PICK i \in DOMAIN mem[Senders] :
            LoadSenders(r, i) /\ hungup' = [hungup EXCEPT ![r] = mem[Senders][i].val = 0]
      BY <2>5 DEF Load
    <3>2. i \in view[r][Senders]..Len(mem[Senders])
      BY <3>1 DEF LoadSenders, Acquire
    <3>3. ASSUME ~(view[r][Senders] < Len(mem[Senders])) PROVE FALSE
      <4>1. i = Len(mem[Senders])
        BY <1>4, <2>3, <3>2, <3>3
      <4>2. mem[Senders][i].val = 0
        <5>1. Latest(Senders) = 0
          BY CountIsNat DEF Departures, Ends
        <5> QED
          BY <4>1, <5>1 DEF Latest, Final
      <4>3. hungup'[r]
        BY <2>2, <2>3, <3>1, <4>2
      <4> QED
        BY <2>5, <4>3 DEF Unwarned
    <3> QED
      BY <2>2, <2>5, <3>3 DEF Unwarned, Asleep, PastBarrier
  <2>6. CASE FindEmpty(r) /\ pc[r] = "repop" /\ pc'[r] = "parked"
    <3>1. ~hungup[r]
      BY <2>3, <2>6 DEF FindEmpty, Goto
    <3> QED
      BY <2>2, <2>6, <3>1 DEF Unwarned, Asleep, PastBarrier
  <2>7. CASE Barrier(r) /\ pc'[r] = "reload"
    <3>1. fences' = view'[r]
      BY <2>3, <2>7, FencesRise DEF Barrier, FencePoll
    <3> QED
      BY <1>2, <1>4, <1>6, <2>7, <3>1 DEF Unwarned
  <2> QED
    BY <2>2, <2>4, <2>5, <2>6, <2>7 DEF Falls
<1> QED
  BY <1>6, <1>7

\* The fence of the last sender comes before its scan, which sees the wakers of
\* all receivers that did not see the count.
LEMMA EndOfHangup ==
  ASSUME Sound, Sound', Wakers', HangsUp, NEW s \in Tx, Hangup(s)
  PROVE  EndOwed'
<1>1. /\ s \in Threads /\ pc[s] = "hangup" /\ SeqCst(s) /\ mem' = mem /\ fences' = view'[s]
      /\ pc' = [pc EXCEPT ![s] = "hangup scan"] /\ ahead' = [ahead EXCEPT ![s] = Slots]
      /\ Turn(s) /\ Senders \in Clocks /\ Senders \in Locations
  BY Names, FencesRise, SendTurns DEF Hangup, FenceHangup, Goto
<1>2. pc'[s] = "hangup scan" /\ ahead'[s] = Slots /\ \A u \in Threads \ {s} : pc'[u] = pc[u]
  BY <1>1 DEF Sound, CallTypes
<1>3. view'[s][Senders] = Len(mem'[Senders])
  <2>1. view[s][Senders] = Len(mem[Senders]) /\ Len(mem[Senders]) \in Nat
    BY <1>1, Recorded DEF HangsUp, Sound, Tidy
  <2>2. view[s][Senders] <= view'[s][Senders] /\ view'[s][Senders] \in Nat
    BY <1>1, ViewsNow DEF Turn
  <2>3. view'[s][Senders] <= Len(mem[Senders])
    <3>1. \A c \in Clocks : view'[s][c] <= Limit(c)'
      BY <1>1, ViewsNow
    <3> QED
      BY <1>1, <3>1 DEF Limit
  <2>4. mem'[Senders] = mem[Senders]
    BY <1>1
  <2> QED
    BY <2>1, <2>2, <2>3, <2>4
<1>4. ASSUME NEW r \in Unwarned' PROVE r \in ahead'[s] /\ view'[s][Slot(r)] = Len(mem'[Slot(r)])
  <2>1. r \in Rx /\ fences'[Slot(r)] = Len(mem'[Slot(r)]) /\ pc'[r] # "absent"
    BY DEF Unwarned, Wakers, WakerRight, Asleep, Sees, Waiting, PastBarrier
  <2>2. r \in Slots
    BY <1>2, <2>1, OrderingsAssumption, Names DEF Slots
  <2> QED
    BY <1>1, <1>2, <2>1, <2>2
<1>5. Warns(s)'
  BY <1>2, <1>4 DEF Warns, Sees
<1> QED
  BY <1>1, <1>3, <1>5 DEF EndOwed

\* The last sender's scan passes no receiver that does not know of the end.
LEMMA EndOfScan ==
  ASSUME Sound, Sound', Wakers, NEW t \in Tx, Warns(t),
         PassSlot(t) \/ FindNoWaker(t) \/ TakeWaker(t), Turn(t),
         \A r \in Unwarned' : r \in Unwarned /\ mem'[Slot(r)] = mem[Slot(r)]
  PROVE  Unwarned' = {} \/ Warns(t)'
<1>1. /\ t \in Threads /\ pc \in [Threads -> Steps] /\ pc[t] = "hangup scan"
      /\ ahead \in [Threads -> SUBSET Rx]
  BY Names DEF Sound, CallTypes, Warns
<1>2. \A r \in Unwarned' : view'[t][Slot(r)] = Len(mem'[Slot(r)])
  <2> SUFFICES ASSUME NEW r \in Unwarned' PROVE view'[t][Slot(r)] = Len(mem'[Slot(r)])
    OBVIOUS
  <2>1. r \in Rx /\ mem'[Slot(r)] = mem[Slot(r)] /\ Sees(view[t], r)
    BY DEF Warns, Unwarned, Asleep
  <2>2. \A c \in Clocks : view[t][c] <= view'[t][c]
    BY DEF Turn
  <2> QED
    BY <1>1, <2>1, <2>2, SeesStays, ViewsNow
<1>3. CASE FindNoWaker(t)
  BY <1>3 DEF FindNoWaker, Warns
<1>4. CASE PassSlot(t)
  <2>1. PICK r \in ahead[t] : \E i \in DOMAIN mem[Slot(r)] :
          /\ ~mem[Slot(r)][i].val /\ Acquire(t, Slot(r), i)
          /\ ahead' = [ahead EXCEPT ![t] = @ \ {r}]
    BY <1>4 DEF PassSlot
  <2>2. PICK i \in DOMAIN mem[Slot(r)] :
          /\ ~mem[Slot(r)][i].val /\ i \in view[t][Slot(r)]..Len(mem[Slot(r)])
    BY <2>1 DEF Acquire
  <2>3. ASSUME r \in Unwarned PROVE FALSE
    <3>1. r \in Rx /\ Latest(Slot(r)) /\ Sees(view[t], r)
      BY <2>3, SleepersKnown DEF Unwarned, Warns
    <3>2. Len(mem[Slot(r)]) \in Nat
      BY <3>1, Names, Recorded DEF Sound, Tidy
    <3>3. i = Len(mem[Slot(r)])
      BY <2>2, <3>1, <3>2 DEF Sees
    <3> QED
      BY <2>2, <3>1, <3>3 DEF Latest, Final
  <2>4. pc'[t] = pc[t] /\ ahead'[t] = ahead[t] \ {r}
    BY <1>1, <1>4, <2>1 DEF PassSlot
  <2> QED
    BY <1>1, <1>2, <2>3, <2>4 DEF Warns, Sees
<1>5. CASE TakeWaker(t)
  <2>1. pc'[t] = pc[t] /\ ahead'[t] = Slots
    BY <1>1, <1>5 DEF TakeWaker
  <2>2. \A r \in Unwarned' : r \in Slots
    BY DEF Unwarned, Asleep, Slots, PastBarrier
  <2> QED
    BY <1>1, <1>2, <2>1, <2>2 DEF Warns, Sees
<1> QED
  BY <1>3, <1>4, <1>5

LEMMA EndStaysOwed ==
  ASSUME Sound, Departures, Sound', Departures', Wakers, Wakers', HangsUp, EndOwed, Next
  PROVE  EndOwed'
<1> SUFFICES ASSUME OnSide(Senders)' = {} PROVE EndOwed'
  BY DEF EndOwed
<1>1. CASE \E s \in Tx : DropTx(s)
  <2>1. PICK s \in Tx : DropTx(s)
    BY <1>1
  <2>2. /\ s \in Threads /\ pc \in [Threads -> Steps]
        /\ AcqRel(s, Senders, Latest(Senders) - 1)
        /\ pc' = [pc EXCEPT ![s] = IF Latest(Senders) = 1 THEN "hangup" ELSE "gone"]
    BY <2>1, Names DEF DropTx, CountDown, Count, Goto, Sound, CallTypes
  <2>3. Latest(Senders) \in Nat
    BY CountIsNat DEF Departures, Ends
  <2>4. Latest(Senders)' = 0
    BY CountIsNat, FS_EmptySet DEF Departures, CountsRight, Ends
  <2>5. Latest(Senders)' = Latest(Senders) - 1
    <3> DEFINE n == Latest(Senders) - 1
    <3>1. n \in Values /\ AcqRel(s, Senders, n) /\ Tidy /\ Senders \in Locations
      BY <2>2, <2>3, Names DEF Values, Sound
    <3> HIDE DEF n
    <3>2. Final(Senders)' = [val |-> n, view |-> view'[s]]
      BY <2>2, <3>1, Wrote
    <3> QED
      BY <3>2 DEF Latest, n
  <2>6. pc'[s] = "hangup"
    BY <2>2, <2>3, <2>4, <2>5
  <2> QED
    BY <2>6 DEF EndOwed
<1>2. CASE \A s \in Tx : ~DropTx(s)
  <2>1. OnSide(Senders) = {}
    BY <1>2, SendersSide
  <2>2. PICK u \in Threads : Turn(u) /\
           \/ u \in Tx /\ (Send(u) \/ Push(u) \/ Fence(u) \/ Hangup(u) \/ DropTx(u))
           \/ PassSlot(u) \/ FindNoWaker(u) \/ TakeWaker(u) \/ Swap(u) \/ Free(u)
           \/ \E new \in Threads : Clone(u, new)
           \/ u \in Rx /\ ( \/ Load(u) \/ Pop(u) \/ FindEmpty(u) \/ Insert(u) \/ Barrier(u)
                            \/ RemoveWaker(u) \/ RemoveNone(u) \/ Resume(u)
                            \/ DropRx(u) \/ Leave(u))
    BY Turning
  <2>3. ASSUME NEW t \in Tx, pc[t] = "hangup" PROVE EndOwed'
    <3>1. t \in Threads /\ t \notin Rx
      BY Names, OrderingsAssumption
    <3>2. CASE t # u
      <4>1. pc'[t] = "hangup"
        BY <2>2, <2>3, <3>1, <3>2 DEF Turn
      <4> QED
        BY <4>1 DEF EndOwed
    <3>3. CASE t = u
      <4>1. Hangup(t)
        BY <2>2, <2>3, <3>1, <3>3
        DEF Send, Push, Fence, DropTx, PassSlot, FindNoWaker, TakeWaker, Swap, Free, Clone, Scanning
      <4> QED
        BY <4>1, EndOfHangup
    <3> QED
      BY <3>2, <3>3
  <2>4. CASE /\ fences[Senders] = Len(mem[Senders])
             /\ Unwarned = {} \/ \E t \in Tx : Warns(t)
    <3>1. /\ fences'[Senders] = Len(mem'[Senders])
          /\ \A r \in Unwarned' : r \in Unwarned /\ mem'[Slot(r)] = mem[Slot(r)]
      BY <2>1, <2>4, EndKnown
    <3>2. CASE Unwarned = {}
      BY <3>1, <3>2 DEF EndOwed
    <3>3. ASSUME NEW t \in Tx, Warns(t) PROVE Unwarned' = {} \/ Warns(t)'
      <4>1. t \in Threads /\ t \notin Rx /\ pc[t] = "hangup scan"
        BY <3>3, Names, OrderingsAssumption DEF Warns
      <4>2. CASE t # u
        <5>1. pc'[t] = pc[t] /\ view'[t] = view[t] /\ ahead'[t] = ahead[t]
          BY <2>2, <4>1, <4>2 DEF Turn
        <5> QED
          BY <3>1, <3>3, <5>1 DEF Warns, Sees
      <4>3. CASE t = u
        <5>1. PassSlot(t) \/ FindNoWaker(t) \/ TakeWaker(t)
          BY <2>2, <4>1, <4>3 DEF Send, Push, Fence, Hangup, DropTx, Swap, Free, Clone
        <5> QED
          BY <2>2, <3>1, <3>3, <4>3, <5>1, EndOfScan
      <4> QED
        BY <4>2, <4>3
    <3> QED
      BY <2>4, <3>1, <3>2, <3>3 DEF EndOwed
  <2> QED
    BY <2>1, <2>3, <2>4 DEF EndOwed
<1> QED
  BY <1>1, <1>2

LEMMA StartingOwed ==
  ASSUME Init, Sound, Departures
  PROVE  Owed
<1>1. PICK start \in Starts :
  /\ mem = [l \in Locations |->
              Start(CASE l = Senders   -> Cardinality(Tx \cap start.here)
                      [] l = Receivers -> Cardinality(Rx \cap start.here)
                      [] l = Connected -> TRUE
                      [] l = Buffer    -> 0
                      [] OTHER         -> FALSE)]
  /\ pc = [t \in Threads |-> CASE t \in start.here   -> "idle"
                               [] t \in start.unborn -> "unborn"
                               [] OTHER              -> "absent"]
  BY DEF Init
<1>2. mem[Buffer] = Start(0) /\ Latest(Buffer) = 0
  <2>1. mem[Buffer] = Start(0)
    BY <1>1, Names
  <2> QED
    BY <2>1 DEF Latest, Final, Start
<1>3. \A t \in Threads : pc[t] \in {"idle", "unborn", "absent"}
  BY <1>1
<1>4. \A t \in Tx : pc[t] # "hangup"
  BY <1>3, Names
<1>5. OnSide(Senders) # {}
  <2>1. PICK s \in Tx : s \in start.here
    BY OrderingsAssumption
  <2>2. s \in Threads /\ s \notin start.unborn
    BY <2>1, OrderingsAssumption, Names
  <2>3. pc[s] = "idle"
    BY <1>1, <2>1, <2>2
  <2> QED
    BY <2>3 DEF OnSide, Side, Counted, Out, Closing
<1> QED
  BY <1>2, <1>4, <1>5 DEF Owed, MessageOwed, HangsUp, EndOwed

LEMMA AlwaysOwed == Spec => []Owed
<1> DEFINE Base == Sound /\ Departures /\ Endings /\ Wakers
<1>1. Init /\ Sound /\ Departures => Owed
  BY StartingOwed
<1>2. Base /\ Base' /\ Owed /\ [Next]_vars => Owed'
  <2> SUFFICES ASSUME Sound, Departures, Wakers, Sound', Departures', Endings', Wakers', Owed,
                      [Next]_vars
               PROVE  Owed'
    OBVIOUS
  <2>1. CASE Next
    BY <2>1, MessageStays, HangsUpStays, EndStaysOwed DEF Owed
  <2>2. CASE UNCHANGED vars
    <3>1. /\ mem' = mem /\ view' = view /\ fences' = fences /\ pc' = pc /\ woken' = woken
          /\ ahead' = ahead /\ hungup' = hungup
      BY <2>2 DEF vars
    <3>2. /\ OnSide(Senders)' = OnSide(Senders) /\ \A l : Latest(l)' = Latest(l)
          /\ Dozing' = Dozing /\ Unwarned' = Unwarned /\ \A l : Final(l)' = Final(l)
      BY <3>1 DEF OnSide, Side, Counted, Latest, Final, Dozing, Unwarned, Asleep, Informed
    <3>3. MessageOwed'
      BY <3>1, <3>2 DEF Owed, MessageOwed, Sends, Owes, Scans, Carries, Full, Informed, Sees
    <3>4. HangsUp' /\ EndOwed'
      BY <3>1, <3>2 DEF Owed, HangsUp, EndOwed, Warns, Sees
    <3> QED
      BY <3>3, <3>4 DEF Owed
  <2> QED
    BY <2>1, <2>2
<1> QED
  BY <1>1, <1>2, AlwaysDepartures, AlwaysEndings, AlwaysWakers, PTL DEF Spec

\* When all receivers sleep with no wake on its way and no sender is in the
\* middle of a call, the channel is empty and open: the three SeqCst fences (of
\* send, of the last sender's drop and of poll) are enough.
THEOREM NothingMissed == Spec => []SleepersMissNothing
<1>1. Sound /\ Departures /\ Wakers /\ Owed => SleepersMissNothing
  <2> SUFFICES ASSUME Sound, Departures, Wakers, Owed,
                      {r \in Rx : pc[r] \notin Out} # {},
                      \A r \in Rx : pc[r] \notin Out => pc[r] = "parked" /\ woken[r] = <<>>,
                      \A s \in Tx : pc[s] \in Out \cup {"idle"}
               PROVE  Latest(Buffer) = 0 /\ Latest(Senders) > 0
    BY DEF SleepersMissNothing
  <2>1. PICK q \in Rx : pc[q] = "parked" /\ woken[q] = <<>>
    OBVIOUS
  <2>2. q \in Dozing /\ q \in Unwarned
    BY <2>1 DEF Dozing, Unwarned, Asleep, PastBarrier, Wakers, ParkedUninformed
  <2>3. ~(Latest(Buffer) > 0)
    <3>1. \A s \in Tx : ~Sends(s)
      BY DEF Sends, Out
    <3>2. \A t \in Threads : ~Scans(t)
      BY DEF Scans, Scanning, Threads, Out
    <3>3. \A r \in Rx : ~Carries(r)
      BY DEF Carries, Wakers, WakerRight, Out, Waiting, PastBarrier
    <3> QED
      BY <2>2, <3>1, <3>2, <3>3 DEF Owed, MessageOwed, Owes
  <2>4. OnSide(Senders) # {}
    BY <2>2 DEF Owed, EndOwed, Warns, Out
  <2>5. Latest(Senders) > 0
    BY <2>4, CountIsNat DEF Departures, Ends
  <2>6. Latest(Buffer) \in Nat
    BY BufferTypes
  <2> QED
    BY <2>3, <2>5, <2>6
<1> QED
  BY <1>1, AlwaysDepartures, AlwaysWakers, AlwaysOwed, PTL

=============================================================================
