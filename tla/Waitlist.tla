------------------------------ MODULE Waitlist ------------------------------
(***************************************************************************)
(* The waitlist of waitlist.rs: a slot map of AtomicOption<Waker>, one     *)
(* slot per receiver, behind a reader-writer lock.  insert, remove and pop *)
(* only take the read lock, so they interleave with one another: insert    *)
(* and remove touch one cell atomically, pop visits the occupied slots in  *)
(* index order, one atomic take at a time.  register and deregister take   *)
(* the write lock, so each is a single step that no pop can overlap.       *)
(***************************************************************************)
EXTENDS Naturals

CONSTANTS
  Threads,   \* the threads and tasks that call the channel; each is its waker
  Slots,     \* the indices of the slot map
  Empty,     \* an AtomicOption that holds no waker
  Vacant     \* an index of the slot map no receiver has registered

ASSUME WaitlistAssumption ==
  /\ Slots \subseteq Nat \ {0}
  /\ Empty \notin Threads
  /\ Vacant \notin Threads \cup {Empty}

VARIABLES
  items,     \* the slot map: the waker in each registered slot, or Empty
  cursor     \* the next index a thread's pop visits; 0 if it holds no read lock

waitlist == <<items, cursor>>

WaitlistTypeOK ==
  /\ items \in [Slots -> Threads \cup {Empty, Vacant}]
  /\ cursor \in [Threads -> Nat]

\* The waitlist once the slots in "registered" have been handed out.
WaitlistInit(registered) ==
  /\ items = [k \in Slots |-> IF k \in registered THEN Empty ELSE Vacant]
  /\ cursor = [t \in Threads |-> 0]

WriteLockFree == \A t \in Threads : cursor[t] = 0

-----------------------------------------------------------------------------

\* The slot map hands out an index that no receiver holds.
WaitlistRegister(k) ==
  /\ WriteLockFree
  /\ items[k] = Vacant
  /\ items' = [items EXCEPT ![k] = Empty]
  /\ UNCHANGED cursor

WaitlistDeregister(k) ==
  /\ WriteLockFree
  /\ items' = [items EXCEPT ![k] = Vacant]
  /\ UNCHANGED cursor

\* The waker the slot held before, if any, is dropped by the caller.
WaitlistInsert(k, w) ==
  /\ items' = [items EXCEPT ![k] = w]
  /\ UNCHANGED cursor

WaitlistRemove(k) ==
  /\ items' = [items EXCEPT ![k] = Empty]
  /\ UNCHANGED cursor

-----------------------------------------------------------------------------
\* pop: take the read lock, visit the slots, stop at the first waker.

PopBegin(t) ==
  /\ cursor' = [cursor EXCEPT ![t] = 1]
  /\ UNCHANGED items

Ahead(t) == {k \in Slots : k >= cursor[t] /\ items[k] # Vacant}

IsNext(t, k) == k \in Ahead(t) /\ \A j \in Ahead(t) : k <= j

\* Mutant: a scan that skips a slot after an empty one.
PopMissTwo(t, k) ==
  /\ IsNext(t, k)
  /\ items[k] = Empty
  /\ cursor' = [cursor EXCEPT ![t] = k + 2]
  /\ UNCHANGED items

PopMiss(t, k) ==
  /\ IsNext(t, k)
  /\ items[k] = Empty
  /\ cursor' = [cursor EXCEPT ![t] = k + 1]
  /\ UNCHANGED items

PopTake(t, k) ==
  /\ IsNext(t, k)
  /\ items[k] # Empty
  /\ items' = [items EXCEPT ![k] = Empty]
  /\ cursor' = [cursor EXCEPT ![t] = 0]

PopNone(t) ==
  /\ Ahead(t) = {}
  /\ cursor' = [cursor EXCEPT ![t] = 0]
  /\ UNCHANGED items

=============================================================================
