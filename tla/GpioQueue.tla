------------------------------ MODULE GpioQueue ------------------------------
(***************************************************************************)
(* The queue of pin changes of a GPIO port (gpio-fluke.c): a ring buffer   *)
(* the interrupt handler fills, read() empties and FGPIO_FLUSH_QUEUE       *)
(* clears, each with the port's semaphore taken.                           *)
(*                                                                         *)
(* probe() registers no handler in this version (the code that would is    *)
(* commented out), so that of these only the flush runs on a unit.         *)
(***************************************************************************)
EXTENDS Integers, Sequences

CONSTANTS
    Q_SIZE,         \* the capacity, Q->Capacity
    Entries,        \* the pin changes the handler reads from the port
    MaxCount        \* bound: the bytes a read asks for

ASSUME QueueAssumption ==
    /\ Q_SIZE \in Nat \ {0, 1}
    /\ Entries \subseteq Nat
    /\ MaxCount \in Nat

VARIABLES
    Front, Rear, Size, Array,   \* struct Queue
    reading,        \* the bytes a read under way asked for; -1 outside of one
    tbuf,           \* the bytes it has taken so far
    x               \* what q_dequeue() returned last

queueVars == <<Front, Rear, Size, Array>>
vars == <<queueVars, reading, tbuf, x>>

Slots == 0 .. Q_SIZE - 1

q_init ==
    /\ Size' = 0
    /\ Front' = 1
    /\ Rear' = 0

\* kzalloc() and q_init().
Init ==
    /\ Size = 0
    /\ Front = 1
    /\ Rear = 0
    /\ Array = [i \in Slots |-> 0]
    /\ reading = -1
    /\ tbuf = <<>>
    /\ x = 0

q_full == Size = Q_SIZE
q_empty == Size = 0
q_next_late(v) == IF v = Q_SIZE THEN 0 ELSE v + 1       \* mutant: wraps late
q_next(v) == IF v + 1 = Q_SIZE THEN 0 ELSE v + 1

-----------------------------------------------------------------------------
\* fgpio_irq(): a change that finds the queue full is dropped.
EnqueueAlways(e) ==             \* mutant: a full queue is not noticed
    /\ reading = -1
    /\ Size' = Size + 1
    /\ Rear' = q_next(Rear)
    /\ Array' = [Array EXCEPT ![q_next(Rear)] = e]
    /\ UNCHANGED <<Front, reading, tbuf, x>>

Enqueue(e) ==
    /\ reading = -1
    /\ ~q_full
    /\ Size' = Size + 1
    /\ Rear' = q_next(Rear)
    /\ Array' = [Array EXCEPT ![q_next(Rear)] = e]
    /\ UNCHANGED <<Front, reading, tbuf, x>>

FlushQueue ==
    /\ reading = -1
    /\ q_init
    /\ UNCHANGED <<Array, reading, tbuf, x>>

BeginRead(count) ==
    /\ reading = -1
    /\ reading' = count
    /\ tbuf' = <<>>
    /\ UNCHANGED <<queueVars, x>>

\* An entry is taken.  A zero ends the read and is not returned, whether it
\* came from the queue or tells that there was nothing in it.
EndsNever(e) ==                 \* mutant: zeros are returned like the rest
    /\ tbuf' = Append(tbuf, e)
    /\ UNCHANGED reading
EndsAtZero(e) ==
    IF e = 0 THEN reading' = -1 /\ UNCHANGED tbuf
    ELSE tbuf' = Append(tbuf, e) /\ UNCHANGED reading

Dequeue ==
    /\ Len(tbuf) < reading
    /\ ~q_empty
    /\ Size' = Size - 1
    /\ x' = Array[Front]
    /\ Front' = q_next(Front)
    /\ EndsAtZero(Array[Front])
    /\ UNCHANGED <<Rear, Array>>

DequeueNothing ==
    /\ Len(tbuf) < reading
    /\ q_empty
    /\ x' = 0
    /\ EndsAtZero(0)
    /\ UNCHANGED queueVars

EndRead ==
    /\ reading = Len(tbuf)
    /\ reading' = -1
    /\ UNCHANGED <<queueVars, tbuf, x>>

Next ==
    \/ \E e \in Entries : Enqueue(e)
    \/ FlushQueue
    \/ \E count \in 0 .. MaxCount : BeginRead(count)
    \/ Dequeue \/ DequeueNothing
    \/ EndRead

Spec == Init /\ [][Next]_vars

-----------------------------------------------------------------------------
TypeOK ==
    /\ Front \in Slots /\ Rear \in Slots
    /\ Size \in 0 .. Q_SIZE
    /\ Array \in [Slots -> Entries \cup {0}]
    /\ reading \in -1 .. MaxCount
    /\ tbuf \in Seq(Entries) /\ Len(tbuf) <= MaxCount
    /\ x \in Entries \cup {0}

\* The slot of the i-th entry, counted from the oldest.
Slot(i) ==
    IF Front + i - 1 < Q_SIZE THEN Front + i - 1 ELSE Front + i - 1 - Q_SIZE

(***************************************************************************)
(* Full and empty look alike to Front and Rear; the two and the Size kept  *)
(* beside them never disagree: the next entry goes after the last.         *)
(***************************************************************************)
IInv ==
    /\ TypeOK
    /\ q_next(Rear) = Slot(Size + 1)
    /\ reading # -1 => Len(tbuf) <= reading

(***************************************************************************)
(* The ring is a first in, first out queue of Q_SIZE entries, however the  *)
(* indices wrap and wherever it is flushed.                                *)
(***************************************************************************)
Contents == [i \in 1 .. Size |-> Array[Slot(i)]]
Fifo == INSTANCE BoundedFifo WITH
            Capacity <- Q_SIZE, fifo <- Contents, out <- x
FifoSpec == Fifo!Spec

(***************************************************************************)
(* A read gives pin changes in the order they were queued and no zero; one *)
(* that ends early has come to a zero: the queue has nothing more, or the  *)
(* zero was an entry, and the changes after it wait for the next read.     *)
(***************************************************************************)
ShortReadsEndAtZero ==
    [][reading # -1 /\ reading' = -1 =>
          /\ \A i \in 1 .. Len(tbuf') : tbuf'[i] # 0
          /\ Len(tbuf') < reading => x' = 0]_vars
=============================================================================
