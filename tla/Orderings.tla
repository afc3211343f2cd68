------------------------------ MODULE Orderings ------------------------------
(***************************************************************************)
(* The memory orderings of channel.rs: its calls on weak memory.           *)
(*                                                                         *)
(* Each location of the control block keeps the history of its values.  A  *)
(* thread has a view: the oldest value of each location that it may still  *)
(* read, and how much of what each other thread did to the block happens   *)
(* before its next step.  Values carry the view they release; what         *)
(* acquires a value joins its view.  A SeqCst fence exchanges views with   *)
(* all fences before it.                                                   *)
(*                                                                         *)
(* Of the buffer and the waitlist only what the comments of the code rely  *)
(* on is assumed: an operation that puts or takes something is atomic and  *)
(* synchronizes with the one before it, but one that finds nothing may     *)
(* have looked at an old state.  crossbeam's cell and queue, and the lock  *)
(* of the waitlist, order more than that.  The buffer has room for all     *)
(* messages, so that every send wakes.                                     *)
(*                                                                         *)
(* A history grows with every write, so that receivers that poll again of  *)
(* their own accord would never stop: here a pending poll is repeated only *)
(* after a wake.  RingChannel has the polls that nobody asked for.         *)
(***************************************************************************)
EXTENDS Naturals, FiniteSets, Sequences

CONSTANTS
  Tx, Rx,        \* threads that own a sender, and threads that own a receiver
  Starts,        \* which of them take part at the start, which may be given
                 \* a clone later, and how many messages are sent in all
  Senders, Receivers, Connected, Buffer   \* locations of the control block

Threads   == Tx \cup Rx
Slot(r)   == <<r>>
Locations == {Senders, Receivers, Connected, Buffer} \cup {Slot(r) : r \in Rx}
Clocks    == Locations \cup Threads

ASSUME OrderingsAssumption ==
  /\ IsFiniteSet(Tx) /\ IsFiniteSet(Rx)
  /\ Tx \cap Rx = {} /\ Locations \cap Threads = {}
  /\ Senders \notin {Receivers, Connected, Buffer}
  /\ Receivers \notin {Connected, Buffer} /\ Connected # Buffer
  /\ \A r \in Rx : Slot(r) \notin {Senders, Receivers, Connected, Buffer}
  /\ \A start \in Starts :
       /\ start.here \subseteq Threads /\ start.here \cap Tx # {} /\ start.here \cap Rx # {}
       /\ start.unborn \subseteq Threads \ start.here
       /\ start.sends \in Nat

VARIABLES
  mem,      \* the history of each location: values, with the views they release
  view,     \* the view of each thread
  fences,   \* the view that the SeqCst fences pass on
  pc,       \* the next step of each thread
  ahead,    \* the receivers whose slots a pop of the waitlist has yet to visit
  hungup,   \* whether the receiver's poll has read a sender count of zero
  sends,    \* how many messages are yet to be sent
  woken     \* what the wakers of each receiver have passed on

vars == <<mem, view, fences, pc, ahead, hungup, sends, woken>>
rest == <<ahead, hungup, sends, woken>>

Start(value) == <<[val |-> value, view |-> [l \in Clocks |-> 0]]>>

Init == \E start \in Starts :
  /\ mem = [l \in Locations |->
              Start(CASE l = Senders   -> Cardinality(Tx \cap start.here)
                      [] l = Receivers -> Cardinality(Rx \cap start.here)
                      [] l = Connected -> TRUE
                      [] l = Buffer    -> 0
                      [] OTHER         -> FALSE)]
  /\ view = [t \in Threads |-> [l \in Clocks |-> IF l \in Locations THEN 1 ELSE 0]]
  /\ fences = [l \in Clocks |-> 0]
  /\ pc = [t \in Threads |-> CASE t \in start.here   -> "idle"
                               [] t \in start.unborn -> "unborn"
                               [] OTHER              -> "absent"]
  /\ ahead = [t \in Threads |-> {}]
  /\ hungup = [r \in Rx |-> FALSE]
  /\ sends = start.sends
  /\ woken = [r \in Rx |-> <<>>]

-----------------------------------------------------------------------------
\* Memory.

Join(v, w) == [l \in Clocks |-> IF v[l] >= w[l] THEN v[l] ELSE w[l]]

Final(l)  == mem[l][Len(mem[l])]
Latest(l) == Final(l).val

\* The count that thread t's endpoint is part of.
Count(t) == IF t \in Tx THEN Senders ELSE Receivers

\* The slots of the waitlist; that of a clone is there from the start.
Slots == {r \in Rx : pc[r] # "absent"}

Goto(t, step) == pc' = [pc EXCEPT ![t] = step]

\* The view of thread t once it has read location l at index i, or written
\* there.  The clock of a thread counts its writes to Senders, Receivers and
\* Connected: the last access of each endpoint is one of these.
Seen(t, l, i) == [view[t] EXCEPT ![l] = i]

Written(t, l) ==
  [view[t] EXCEPT ![l] = Len(mem[l]) + 1,
                  ![t] = IF l \in {Senders, Receivers, Connected} THEN @ + 1 ELSE @]

\* A load with ordering Acquire of the value at index i.
Acquire(t, l, i) ==
  /\ i \in view[t][l]..Len(mem[l])
  /\ view' = [view EXCEPT ![t] = Join(Seen(t, l, i), mem[l][i].view)]
  /\ UNCHANGED <<mem, fences>>

\* A load with ordering Relaxed.
Glance(t, l, i) ==
  /\ i \in view[t][l]..Len(mem[l])
  /\ view' = [view EXCEPT ![t] = Seen(t, l, i)]
  /\ UNCHANGED <<mem, fences>>

\* Read-modify-write operations read the latest value, and what they write
\* still releases what the value before it did.
AcqRel(t, l, value) ==
  LET v == Join(Written(t, l), Final(l).view)
  IN  /\ mem' = [mem EXCEPT ![l] = Append(@, [val |-> value, view |-> v])]
      /\ view' = [view EXCEPT ![t] = v]
      /\ UNCHANGED fences

Modify(l, value) ==
  mem' = [mem EXCEPT ![l] = Append(@, [val |-> value, view |-> Final(l).view])]

Relaxed(t, l, value) ==
  /\ Modify(l, value)
  /\ view' = [view EXCEPT ![t] = Written(t, l)]
  /\ UNCHANGED fences

SeqCst(t) ==
  /\ view' = [view EXCEPT ![t] = Join(@, fences)]
  /\ fences' = view'[t]
  /\ UNCHANGED mem

-----------------------------------------------------------------------------
\* The orderings that the code chooses.

\* A count goes up with ordering Relaxed.  The new endpoint is for a thread
\* that starts with the view of the one that made it.
CountUp(t, new) ==
  /\ Modify(Count(t), Latest(Count(t)) + 1)
  /\ view' = [view EXCEPT ![t] = Written(t, Count(t)), ![new] = Written(t, Count(t))]
  /\ UNCHANGED fences

CountDownRelaxed(t) == Relaxed(t, Count(t), Latest(Count(t)) - 1)   \* a mutant
CountDown(t)        == AcqRel(t, Count(t), Latest(Count(t)) - 1)
Disconnect(t)       == AcqRel(t, Connected, FALSE)

GlanceSenders(t, i) == Glance(t, Senders, i)   \* a mutant
LoadSenders(t, i)   == Acquire(t, Senders, i)
LoadReceivers(t, i) == Acquire(t, Receivers, i)

NoFence(t)     == UNCHANGED <<mem, view, fences>>   \* a mutant
FenceSend(t)   == SeqCst(t)
FencePoll(t)   == SeqCst(t)
FenceHangup(t) == SeqCst(t)

-----------------------------------------------------------------------------
\* RingSender::send.

Send(s) ==
  /\ pc[s] = "idle" /\ sends > 0
  /\ \E i \in DOMAIN mem[Receivers] :
       /\ LoadReceivers(s, i)
       /\ Goto(s, IF mem[Receivers][i].val > 0 THEN "push" ELSE "idle")
  /\ sends' = sends - 1
  /\ UNCHANGED <<ahead, hungup, woken>>

Push(s) ==
  /\ pc[s] = "push"
  /\ AcqRel(s, Buffer, Latest(Buffer) + 1)
  /\ Goto(s, "fence")
  /\ UNCHANGED rest

Fence(s) ==
  /\ pc[s] = "fence"
  /\ FenceSend(s)
  /\ Goto(s, "scan") /\ ahead' = [ahead EXCEPT ![s] = Slots]
  /\ UNCHANGED <<hungup, sends, woken>>

-----------------------------------------------------------------------------
\* Waitlist::pop and wake.  A scan is for a send ("scan"), for the hang-up
\* ("hangup scan") or for a receiver that leaves ("leave scan").

Scanning == {"scan", "hangup scan", "leave scan"}

AfterScan(t) ==
  CASE pc[t] = "scan"        -> "idle"
    [] pc[t] = "hangup scan" -> "swap"
    [] pc[t] = "leave scan"  -> "leave"

\* The order of the slots is left open.
PassSlot(t) ==
  /\ pc[t] \in Scanning
  /\ \E r \in ahead[t] : \E i \in DOMAIN mem[Slot(r)] :
       /\ ~mem[Slot(r)][i].val
       /\ Acquire(t, Slot(r), i)
       /\ ahead' = [ahead EXCEPT ![t] = @ \ {r}]
  /\ UNCHANGED <<pc, hungup, sends, woken>>

FindNoWaker(t) ==
  /\ pc[t] \in Scanning /\ ahead[t] = {}
  /\ Goto(t, AfterScan(t))
  /\ UNCHANGED <<mem, view, fences, rest>>

\* The thread that is woken runs after the one that wakes it.
TakeWaker(t) ==
  /\ pc[t] \in Scanning
  /\ \E r \in ahead[t] :
       /\ Latest(Slot(r))
       /\ AcqRel(t, Slot(r), FALSE)
       /\ woken' = [woken EXCEPT ![r] = Append(@, view'[t])]
  /\ IF pc[t] = "hangup scan"
       THEN ahead' = [ahead EXCEPT ![t] = Slots] /\ UNCHANGED pc
       ELSE ahead' = [ahead EXCEPT ![t] = {}] /\ Goto(t, AfterScan(t))
  /\ UNCHANGED <<hungup, sends>>

-----------------------------------------------------------------------------
\* RingReceiver::poll: load, pop, and again (reload, repop) after the insert.

Load(r) ==
  /\ \E i \in DOMAIN mem[Senders] :
       /\ LoadSenders(r, i)
       /\ hungup' = [hungup EXCEPT ![r] = mem[Senders][i].val = 0]
  /\ \/ pc[r] = "idle"   /\ Goto(r, "pop")
     \/ pc[r] = "reload" /\ Goto(r, "repop")
  /\ UNCHANGED <<ahead, sends, woken>>

Pop(r) ==
  /\ pc[r] \in {"pop", "repop"}
  /\ Latest(Buffer) > 0
  /\ AcqRel(r, Buffer, Latest(Buffer) - 1)
  /\ Goto(r, "remove")
  /\ UNCHANGED rest

FindEmpty(r) ==
  /\ pc[r] \in {"pop", "repop"}
  /\ \E i \in DOMAIN mem[Buffer] : mem[Buffer][i].val = 0 /\ Acquire(r, Buffer, i)
  /\ Goto(r, IF hungup[r] THEN "closed" ELSE IF pc[r] = "pop" THEN "insert" ELSE "parked")
  /\ UNCHANGED rest

Insert(r) ==
  /\ pc[r] = "insert"
  /\ AcqRel(r, Slot(r), TRUE)
  /\ Goto(r, "barrier")
  /\ UNCHANGED rest

Barrier(r) ==
  /\ pc[r] = "barrier"
  /\ FencePoll(r)
  /\ Goto(r, "reload")
  /\ UNCHANGED rest

\* With a message the client polls again or leaves, at the end it leaves.
AfterPoll(r) == IF pc[r] = "remove" THEN "idle" ELSE "over"

RemoveWaker(r) ==
  /\ pc[r] \in {"remove", "closed"}
  /\ Latest(Slot(r))
  /\ AcqRel(r, Slot(r), FALSE)
  /\ Goto(r, AfterPoll(r))
  /\ UNCHANGED rest

\* There is no waker of its own to remove: none was left, or it was taken.
RemoveNone(r) ==
  /\ pc[r] \in {"remove", "closed"}
  /\ \E i \in DOMAIN mem[Slot(r)] : ~mem[Slot(r)][i].val /\ Acquire(r, Slot(r), i)
  /\ Goto(r, AfterPoll(r))
  /\ UNCHANGED rest

\* The client polls again once its waker has been woken, and not before.
Resume(r) ==
  /\ pc[r] = "parked" /\ woken[r] # <<>>
  /\ view' = [view EXCEPT ![r] = Join(@, Head(woken[r]))]
  /\ woken' = [woken EXCEPT ![r] = Tail(@)]
  /\ Goto(r, "idle")
  /\ UNCHANGED <<mem, fences, ahead, hungup, sends>>

-----------------------------------------------------------------------------
\* Clone and Drop.

Clone(t, new) ==
  /\ pc[t] = "idle" /\ pc[new] = "unborn" /\ Count(t) = Count(new)
  /\ CountUp(t, new)
  /\ Goto(new, "idle")
  /\ UNCHANGED rest

DropTx(s) ==
  /\ pc[s] = "idle"
  /\ CountDown(s)
  /\ Goto(s, IF Latest(Senders) = 1 THEN "hangup" ELSE "gone")
  /\ UNCHANGED rest

Hangup(s) ==
  /\ pc[s] = "hangup"
  /\ FenceHangup(s)
  /\ Goto(s, "hangup scan") /\ ahead' = [ahead EXCEPT ![s] = Slots]
  /\ UNCHANGED <<hungup, sends, woken>>

\* deregister is exclusive: it reads the latest value, then the slot is gone.
\* A receiver may be dropped while its poll is pending.
DropRx(r) ==
  /\ pc[r] \in {"idle", "parked", "over"}
  /\ AcqRel(r, Slot(r), FALSE)
  /\ IF Latest(Slot(r))
       THEN Goto(r, "leave") /\ UNCHANGED ahead
       ELSE Goto(r, "leave scan") /\ ahead' = [ahead EXCEPT ![r] = Slots]
  /\ UNCHANGED <<hungup, sends, woken>>

Leave(r) ==
  /\ pc[r] = "leave"
  /\ CountDown(r)
  /\ Goto(r, IF Latest(Receivers) = 1 THEN "swap" ELSE "gone")
  /\ UNCHANGED rest

Swap(t) ==
  /\ pc[t] = "swap"
  /\ Disconnect(t)
  /\ Goto(t, IF Latest(Connected) THEN "gone" ELSE "free")
  /\ UNCHANGED rest

Free(t) ==
  /\ pc[t] = "free"
  /\ Goto(t, "gone")
  /\ UNCHANGED <<mem, view, fences, rest>>

-----------------------------------------------------------------------------
Next ==
  \/ \E s \in Tx : Send(s) \/ Push(s) \/ Fence(s) \/ DropTx(s) \/ Hangup(s)
  \/ \E r \in Rx : \/ Load(r) \/ Pop(r) \/ FindEmpty(r) \/ Insert(r) \/ Barrier(r)
                   \/ RemoveWaker(r) \/ RemoveNone(r) \/ Resume(r)
                   \/ DropRx(r) \/ Leave(r)
  \/ \E t \in Threads : \/ PassSlot(t) \/ FindNoWaker(t) \/ TakeWaker(t)
                        \/ Swap(t) \/ Free(t)
                        \/ \E new \in Threads : Clone(t, new)

Spec == Init /\ [][Next]_vars

-----------------------------------------------------------------------------
\* Properties.

Out == {"absent", "unborn", "gone"}

\* When all receivers sleep with no wake on its way and no sender is in the
\* middle of a call, no message waits in the buffer and some sender remains:
\* the fences of send, of the last sender's drop and of poll leave no order
\* of their accesses in which a receiver misses its wake.
SleepersMissNothing ==
  LET receivers == {r \in Rx : pc[r] \notin Out}
  IN  /\ receivers # {}
      /\ \A r \in receivers : pc[r] = "parked" /\ woken[r] = <<>>
      /\ \A s \in Tx : pc[s] \in Out \cup {"idle"}
      => Latest(Buffer) = 0 /\ Latest(Senders) > 0

\* A receiver that reports the end of the channel has seen every push: no
\* message is left behind, although a pop that finds nothing may have looked
\* at an old buffer (the acquire load at the start of try_recv).
EndIsEmpty == \A r \in Rx : pc[r] = "closed" => Latest(Buffer) = 0

\* Everything that any endpoint did to the control block happens before it
\* is freed (the orderings of the drops' countdowns and of their swap).
FreedAfterEveryAccess ==
  \A t \in Threads : pc[t] = "free" => \A u \in Threads : view[t][u] = view[u][u]

=============================================================================
