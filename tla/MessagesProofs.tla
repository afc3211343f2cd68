--------------------------- MODULE MessagesProofs ---------------------------
(***************************************************************************)
(* No message is lost or duplicated, for any capacity, threads, messages   *)
(* and endpoints.                                                          *)
(*                                                                         *)
(* EachMessageInOnePlace counts the places of a message; the proof carries *)
(* the same fact as a partition.  Every message is unsent, settled, in a   *)
(* hand or in the buffer, no two of these overlap, no two hands hold the   *)
(* same message and no two cells of the buffer do.  It also needs to know  *)
(* where a call can have its hands full, for a call that takes a message   *)
(* must not lose one by it.                                                *)
(***************************************************************************)
EXTENDS RingChannelProofs

Held    == {hand[t] : t \in Threads} \ {None}
Pending == {buffer[i] : i \in DOMAIN buffer}

Injective(s) == \A i, j \in DOMAIN s : s[i] = s[j] => i = j

Partition ==
  /\ Held \cup Pending \cup unsent \cup settled = Messages
  /\ Held \cap Pending = {} /\ Held \cap unsent = {} /\ Held \cap settled = {}
  /\ Pending \cap unsent = {} /\ Pending \cap settled = {} /\ unsent \cap settled = {}

\* Only a send that has yet to push, and a poll that has yet to answer, hold
\* a message, and no two of them hold the same.
OneHandEach ==
  \A t \in Threads : hand[t] # None =>
    /\ pc[t] \in {"push", "remove"}
    /\ \A u \in Threads : hand[u] = hand[t] => u = t

PlacesInv == Partition /\ OneHandEach /\ Injective(buffer)

-----------------------------------------------------------------------------
\* What push and pop do to the messages in the buffer.

LEMMA AppendPlaces ==
  ASSUME NEW s \in Seq(Messages), NEW m \in Messages, Injective(s),
         \A i \in DOMAIN s : s[i] # m
  PROVE  /\ Injective(Append(s, m))
         /\ {Append(s, m)[i] : i \in DOMAIN Append(s, m)} = {s[i] : i \in DOMAIN s} \cup {m}
<1> DEFINE a == Append(s, m)
<1>1. /\ a \in Seq(Messages) /\ Len(a) = Len(s) + 1 /\ a[Len(s) + 1] = m
      /\ \A i \in 1..Len(s) : a[i] = s[i]
  BY AppendProperties
<1>2. DOMAIN s = 1..Len(s) /\ DOMAIN a = 1..(Len(s) + 1) /\ Len(s) \in Nat
  BY <1>1, LenProperties
<1> HIDE DEF a
<1>3. \A i \in DOMAIN a : i \in DOMAIN s \/ i = Len(s) + 1
  BY <1>2
<1>4. Injective(a)
  BY <1>1, <1>2, <1>3 DEF Injective
<1>5. {a[i] : i \in DOMAIN a} = {s[i] : i \in DOMAIN s} \cup {m}
  BY <1>1, <1>2, <1>3
<1> QED
  BY <1>4, <1>5 DEF a

LEMMA TailPlaces ==
  ASSUME NEW s \in Seq(Messages), s # <<>>, Injective(s)
  PROVE  /\ Injective(Tail(s))
         /\ {Tail(s)[i] : i \in DOMAIN Tail(s)} = {s[i] : i \in DOMAIN s} \ {Head(s)}
         /\ Head(s) \in {s[i] : i \in DOMAIN s}
         /\ Tail(s) \in Seq(Messages)
<1>1. /\ Head(s) = s[1] /\ Tail(s) \in Seq(Messages) /\ Len(Tail(s)) = Len(s) - 1
      /\ \A i \in 1..Len(Tail(s)) : Tail(s)[i] = s[i + 1]
      /\ Len(s) \in Nat \ {0}
  BY HeadTailProperties, EmptySeq, LenProperties
<1>2. DOMAIN s = 1..Len(s) /\ DOMAIN Tail(s) = 1..(Len(s) - 1) /\ 1 \in DOMAIN s
  BY <1>1, LenProperties
<1>3. \A i \in DOMAIN Tail(s) : i + 1 \in DOMAIN s /\ Tail(s)[i] = s[i + 1] /\ i + 1 # 1
  BY <1>1, <1>2
<1>4. \A i \in DOMAIN s : i # 1 => i - 1 \in DOMAIN Tail(s) /\ Tail(s)[i - 1] = s[i]
  BY <1>1, <1>2
<1>5. Injective(Tail(s))
  <2> SUFFICES ASSUME NEW i \in DOMAIN Tail(s), NEW j \in DOMAIN Tail(s),
                      Tail(s)[i] = Tail(s)[j]
               PROVE  i = j
    BY DEF Injective
  <2>1. i + 1 = j + 1
    BY <1>3 DEF Injective
  <2> QED
    BY <2>1, <1>2
<1>6. {Tail(s)[i] : i \in DOMAIN Tail(s)} = {s[i] : i \in DOMAIN s} \ {Head(s)}
  <2> DEFINE all == {s[i] : i \in DOMAIN s}
             tail == {Tail(s)[i] : i \in DOMAIN Tail(s)}
  <2>1. ASSUME NEW m \in tail
        PROVE  m \in all /\ m # s[1]
    <3>1. PICK i \in DOMAIN Tail(s) : Tail(s)[i] = m
      OBVIOUS
    <3> QED
      BY <1>2, <1>3, <3>1 DEF Injective
  <2>2. ASSUME NEW m \in all, m # s[1]
        PROVE  m \in tail
    BY <1>4, <2>2
  <2> QED
    BY <1>1, <2>1, <2>2
<1> QED
  BY <1>1, <1>2, <1>5, <1>6

-----------------------------------------------------------------------------
\* The steps that move a message.

LEMMA SendMoves ==
  ASSUME TypeOK, PlacesInv, NEW t \in Threads, NEW e \in Senders, NEW m \in Messages,
         Send(t, e, m)
  PROVE  PlacesInv'
<1> USE DEF PlacesInv, Partition, OneHandEach, Held, Pending
<1>1. /\ m \in unsent /\ unsent' = unsent \ {m} /\ buffer' = buffer
      /\ pc[t] = "idle" /\ hand[t] = None
  BY DEF Send, MayEnter, TypeOK
<1>2. m # None /\ \A u \in Threads : hand[u] # m
  BY <1>1, RingBufferAssumption
<1>3. CASE receivers > 0
  <2>1. hand' = [hand EXCEPT ![t] = m] /\ pc' = [pc EXCEPT ![t] = "push"] /\ settled' = settled
    BY <1>3 DEF Send, Enter, TypeOK
  <2>2. Held' = Held \cup {m}
    BY <1>1, <1>2, <2>1 DEF TypeOK
  <2>3. Partition'
    BY <1>1, <1>2, <2>1, <2>2
  <2>4. OneHandEach'
    BY <1>1, <1>2, <2>1 DEF TypeOK
  <2> QED
    BY <1>1, <2>3, <2>4 DEF Injective
<1>4. CASE receivers = 0
  <2>1. UNCHANGED <<hand, pc>> /\ settled' = settled \cup {m}
    BY <1>4 DEF Send, thread
  <2> QED
    BY <1>1, <2>1 DEF Injective
<1> QED
  BY <1>3, <1>4 DEF Send

LEMMA PushMoves ==
  ASSUME IndInv, PlacesInv, NEW t \in Threads, Push(t)
  PROVE  PlacesInv'
<1> USE DEF PlacesInv
<1>0. TypeOK /\ BufferTypeOK
  BY DEF IndInv, TypeOK
<1> DEFINE m == hand[t]
           kept == IF HasRoom THEN buffer ELSE Tail(buffer)
<1>1. /\ m \in Messages /\ pc[t] = "push" /\ m \in Held
  BY <1>0, RingBufferAssumption
  DEF IndInv, LifetimeInv, CallsHoldEnds, TypeOK, Push, Held
<1>2. /\ buffer' = Append(kept, m) /\ hand' = [hand EXCEPT ![t] = None]
      /\ settled' = settled \cup ({Overwritten} \ {None}) /\ unsent' = unsent
      /\ \A u \in Threads \ {t} : pc'[u] = pc[u]
  BY <1>0 DEF Push, BufferPush, Goto, Return, TypeOK
<1>3. /\ kept \in Seq(Messages) /\ Injective(kept)
      /\ {kept[i] : i \in DOMAIN kept} = Pending \ {Overwritten}
      /\ Overwritten \in Pending \cup {None}
  <2>1. CASE HasRoom
    BY <1>0, <2>1, RingBufferAssumption, ElementOfSeq DEF Overwritten, Pending, BufferTypeOK
  <2>2. CASE ~HasRoom
    <3>1. buffer # <<>>
      BY <1>0, <2>2, RingBufferAssumption DEF BufferTypeOK, HasRoom
    <3> QED
      BY <1>0, <2>2, <3>1, TailPlaces DEF Overwritten, Pending, BufferTypeOK
  <2> QED
    BY <2>1, <2>2
<1> HIDE DEF kept
<1>4. \A i \in DOMAIN kept : kept[i] # m
  BY <1>1, <1>3 DEF Partition
<1>5. Injective(buffer') /\ Pending' = (Pending \ {Overwritten}) \cup {m}
  <2>1. /\ Injective(Append(kept, m))
        /\ {Append(kept, m)[i] : i \in DOMAIN Append(kept, m)}
             = {kept[i] : i \in DOMAIN kept} \cup {m}
    BY <1>1, <1>3, <1>4, AppendPlaces
  <2> QED
    BY <1>2, <1>3, <2>1, ZenonT(30) DEF Pending
<1>6. Held' = Held \ {m}
  BY <1>0, <1>1, <1>2 DEF Held, OneHandEach, TypeOK
<1>7. Partition'
  BY <1>1, <1>2, <1>3, <1>5, <1>6, RingBufferAssumption DEF Partition
<1>8. OneHandEach'
  BY <1>0, <1>2 DEF OneHandEach, TypeOK
<1> QED
  BY <1>5, <1>7, <1>8 DEF Injective

LEMMA TakeMoves ==
  ASSUME TypeOK, PlacesInv, NEW t \in Threads, TakeMessage(t)
  PROVE  PlacesInv'
<1> USE DEF PlacesInv
<1> DEFINE m == Head(buffer)
<1>1. /\ buffer' = Tail(buffer) /\ buffer \in Seq(Messages) /\ buffer # <<>>
      /\ unsent' = unsent /\ \A u \in Threads \ {t} : pc'[u] = pc[u]
      /\ pc[t] \notin {"push", "remove"}
  BY DEF TakeMessage, BufferPop, Goto, Return, TypeOK, BufferTypeOK, Looking
<1>2. /\ Injective(buffer') /\ m \in Pending /\ Pending' = Pending \ {m} /\ m # None
  <2>1. /\ Injective(Tail(buffer)) /\ m \in Pending
        /\ {Tail(buffer)[i] : i \in DOMAIN Tail(buffer)} = Pending \ {m}
    BY <1>1, TailPlaces DEF Pending
  <2>2. m # None
    BY <1>1, HeadTailProperties, RingBufferAssumption
  <2> QED
    BY <1>1, <2>1, <2>2 DEF Pending
<1>3. hand[t] = None
  BY <1>1 DEF OneHandEach
<1>4. CASE call[t] = "try_recv"
  <2>1. settled' = settled \cup {m} /\ hand' = hand
    BY <1>4 DEF TakeMessage
  <2>2. Partition'
    BY <1>1, <1>2, <2>1 DEF Partition, Held
  <2>3. OneHandEach'
    BY <1>1, <1>3, <2>1 DEF OneHandEach
  <2> QED
    BY <1>2, <2>2, <2>3 DEF Injective
<1>5. CASE call[t] # "try_recv"
  <2>1. /\ settled' = settled /\ hand' = [hand EXCEPT ![t] = m]
        /\ pc' = [pc EXCEPT ![t] = "remove"]
    BY <1>5 DEF TakeMessage, Goto
  <2>2. Held' = Held \cup {m} /\ \A u \in Threads : hand[u] # m
    BY <1>2, <1>3, <2>1 DEF Held, Partition, TypeOK
  <2>3. Partition'
    BY <1>1, <1>2, <2>1, <2>2 DEF Partition
  <2>4. OneHandEach'
    BY <1>1, <1>3, <2>1, <2>2 DEF OneHandEach, TypeOK
  <2> QED
    BY <1>2, <2>3, <2>4 DEF Injective
<1> QED
  BY <1>4, <1>5

LEMMA RemoveMoves ==
  ASSUME TypeOK, PlacesInv, NEW t \in Threads, Remove(t)
  PROVE  PlacesInv'
<1> USE DEF PlacesInv
<1>1. /\ hand' = [hand EXCEPT ![t] = None] /\ settled' = settled \cup ({hand[t]} \ {None})
      /\ UNCHANGED <<buffer, unsent>> /\ \A u \in Threads \ {t} : pc'[u] = pc[u]
  BY DEF Remove, Return, TypeOK
<1>2. Held' = Held \ {hand[t]} /\ Pending' = Pending
  BY <1>1 DEF Held, Pending, OneHandEach, TypeOK
<1>3. hand[t] \in Held <=> hand[t] # None
  BY DEF Held
<1>4. Partition'
  BY <1>1, <1>2, <1>3 DEF Partition
<1>5. OneHandEach'
  BY <1>1 DEF OneHandEach, TypeOK
<1> QED
  BY <1>1, <1>4, <1>5 DEF Injective

LEMMA FreeMoves ==
  ASSUME TypeOK, PlacesInv, NEW t \in Threads, Free(t)
  PROVE  PlacesInv'
<1> USE DEF PlacesInv
<1>1. /\ buffer' = <<>> /\ settled' = settled \cup Pending /\ pc[t] = "free"
      /\ UNCHANGED <<hand, unsent>> /\ \A u \in Threads \ {t} : pc'[u] = pc[u]
  BY DEF Free, Return, TypeOK, Pending
<1>2. Pending' = {} /\ Held' = Held /\ Injective(buffer')
  BY <1>1 DEF Pending, Held, Injective
<1>3. Partition'
  BY <1>1, <1>2 DEF Partition
<1>4. OneHandEach'
  BY <1>1 DEF OneHandEach
<1> QED
  BY <1>2, <1>3, <1>4 DEF Injective

-----------------------------------------------------------------------------
\* All other steps leave the messages where they are.

LEMMA NothingMoves ==
  ASSUME TypeOK, PlacesInv, NEW t \in Threads, Client(t) \/ Step(t),
         UNCHANGED msgs, pc[t] \notin {"push", "remove"}
  PROVE  PlacesInv'
<1>1. UNCHANGED <<buffer, hand, unsent, settled>>
  BY DEF msgs
<1>2. Partition' /\ Injective(buffer')
  BY <1>1 DEF PlacesInv, Partition, Held, Pending, Injective
<1>3. OneHandEach'
  BY <1>1, OthersStay DEF PlacesInv, OneHandEach
<1> QED
  BY <1>2, <1>3 DEF PlacesInv

LEMMA PlacesOfClient ==
  ASSUME TypeOK, PlacesInv, NEW t \in Threads, Client(t)
  PROVE  PlacesInv'
<1>1. CASE \E s \in Senders, m \in Messages : Send(t, s, m)
  BY <1>1, SendMoves
<1>2. CASE ~\E s \in Senders, m \in Messages : Send(t, s, m)
  <2>1. UNCHANGED msgs /\ pc[t] \in {"idle", "parked"}
    BY <1>2 DEF Client, Receive, CloneTx, CloneRx, DropTx, DropRx, Abandon, MayEnter
  <2> QED
    BY <2>1, NothingMoves
<1> QED
  BY <1>1, <1>2

LEMMA PlacesOfStep ==
  ASSUME IndInv, PlacesInv, NEW t \in Threads, Step(t)
  PROVE  PlacesInv'
<1>0. TypeOK
  BY DEF IndInv
<1>1. CASE Push(t) \/ TakeMessage(t) \/ Remove(t) \/ Free(t)
  BY <1>0, <1>1, PushMoves, TakeMoves, RemoveMoves, FreeMoves
<1>2. CASE ~(Push(t) \/ TakeMessage(t) \/ Remove(t) \/ Free(t))
  <2>1. UNCHANGED msgs /\ pc[t] \notin {"push", "remove"}
    BY <1>2
    DEF Step, LockWaitlist, PassSlot, TakeWaker, FindNoWaker, Wake, Load, FindEmpty, Insert,
        Resume, Register, Release, Swap, Looking
  <2> QED
    BY <1>0, <2>1, NothingMoves
<1> QED
  BY <1>1, <1>2

LEMMA NextPlaces == IndInv /\ PlacesInv /\ [Next]_vars => PlacesInv'
<1> SUFFICES ASSUME IndInv, PlacesInv, [Next]_vars
             PROVE  PlacesInv'
  OBVIOUS
<1>1. CASE UNCHANGED vars
  BY <1>1
  DEF vars, msgs, thread, PlacesInv, Partition, OneHandEach, Injective, Held, Pending
<1> QED
  BY <1>1, PlacesOfClient, PlacesOfStep DEF Next, IndInv

LEMMA Places == Spec => []PlacesInv
<1>1. Init => PlacesInv
  BY RingBufferAssumption
  DEF Init, BufferInit, PlacesInv, Partition, OneHandEach, Injective, Held, Pending
<1> QED
  BY <1>1, NextPlaces, Induction, PTL DEF Spec

-----------------------------------------------------------------------------
\* From the partition to the count of places.

LEMMA AtMostOneElement ==
  ASSUME NEW S, \A x, y \in S : x = y
  PROVE  Cardinality(S) = IF S = {} THEN 0 ELSE 1
<1>1. CASE S = {}
  BY <1>1, FS_EmptySet
<1>2. CASE S # {}
  <2>1. PICK x \in S : TRUE
    BY <1>2
  <2>2. S = {x}
    OBVIOUS
  <2> QED
    BY <2>2, FS_Singleton
<1> QED
  BY <1>1, <1>2

LEMMA PlacesCounted == IndInv /\ PlacesInv => EachMessageInOnePlace
<1> SUFFICES ASSUME IndInv, PlacesInv, NEW m \in Messages
             PROVE  EachMessageInOnePlace!(m)
  BY DEF EachMessageInOnePlace
<1> DEFINE hands == {t \in Threads : hand[t] = m}
           cells == {i \in DOMAIN buffer : buffer[i] = m}
<1>1. m # None
  BY RingBufferAssumption
<1>2. Cardinality(hands) = IF m \in Held THEN 1 ELSE 0
  <2>1. \A t, u \in hands : t = u
    BY <1>1 DEF PlacesInv, OneHandEach
  <2>2. hands = {} <=> m \notin Held
    BY <1>1 DEF Held
  <2> QED
    BY <2>1, <2>2, AtMostOneElement
<1>3. Cardinality(cells) = IF m \in Pending THEN 1 ELSE 0
  <2>1. \A i, j \in cells : i = j
    BY DEF PlacesInv, Injective
  <2>2. cells = {} <=> m \notin Pending
    BY DEF Pending
  <2> QED
    BY <2>1, <2>2, AtMostOneElement
<1> HIDE DEF hands, cells
<1>4. /\ m \in Held \/ m \in Pending \/ m \in unsent \/ m \in settled
      /\ ~(m \in Held /\ m \in Pending) /\ ~(m \in Held /\ m \in unsent)
      /\ ~(m \in Held /\ m \in settled) /\ ~(m \in Pending /\ m \in unsent)
      /\ ~(m \in Pending /\ m \in settled) /\ ~(m \in unsent /\ m \in settled)
  BY DEF PlacesInv, Partition
<1>5. Cardinality(hands) + Cardinality(cells)
        + (IF m \in unsent THEN 1 ELSE 0) + (IF m \in settled THEN 1 ELSE 0) = 1
  BY <1>2, <1>3, <1>4
<1> QED
  BY <1>5 DEF hands, cells

\* No message is lost and none is duplicated: at any time each one is with its
\* sender, in the hands of one call, once in the buffer, or settled.
THEOREM NoMessageLost == Spec => []EachMessageInOnePlace
BY PlacesCounted, Induction, Places, PTL

=============================================================================
