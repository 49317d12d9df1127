--------------------------- MODULE GpioQueueProofs ---------------------------
(***************************************************************************)
(* The ring buffer of a GPIO port implements a bounded first in, first out *)
(* queue, for every capacity and whatever the entries are.                 *)
(***************************************************************************)
EXTENDS GpioQueue, TLAPS

(* A ring of one slot would not do: the first entry goes to slot 1.        *)
LEMMA InitEstablishes == Init => IInv
<1>1. Init => TypeOK
  BY QueueAssumption DEF Init, TypeOK, Slots
<1> QED
  BY <1>1, QueueAssumption DEF Init, IInv, q_next, Slot

LEMMA Types ==
    ASSUME TypeOK
    PROVE  /\ Q_SIZE \in Nat /\ Q_SIZE >= 2
           /\ Front \in Nat /\ Front < Q_SIZE
           /\ Rear \in Nat /\ Rear < Q_SIZE
           /\ Size \in Nat /\ Size <= Q_SIZE
           /\ q_next(Front) \in Slots /\ q_next(Rear) \in Slots
  BY QueueAssumption DEF TypeOK, Slots, q_next

LEMMA StepPreserves == IInv /\ [Next]_vars => IInv'
<1> SUFFICES ASSUME IInv, [Next]_vars PROVE IInv'
  OBVIOUS
<1>0. /\ TypeOK
      /\ q_next(Rear) = Slot(Size + 1)
      /\ reading # -1 => Len(tbuf) <= reading
  BY DEF IInv
<1>t. /\ Q_SIZE \in Nat /\ Q_SIZE >= 2
      /\ Front \in Nat /\ Front < Q_SIZE
      /\ Rear \in Nat /\ Rear < Q_SIZE
      /\ Size \in Nat /\ Size <= Q_SIZE
      /\ q_next(Front) \in Slots /\ q_next(Rear) \in Slots
  BY <1>0, Types
<1>1. ASSUME NEW e \in Entries, Enqueue(e) PROVE IInv'
  <2>1. TypeOK'
    BY <1>0, <1>1, <1>t DEF Enqueue, TypeOK, q_full
  <2>2. (q_next(Rear) = Slot(Size + 1))'
    BY <1>0, <1>1, <1>t DEF Enqueue, q_full, q_next, Slot
  <2> QED
    BY <2>1, <2>2, <1>1 DEF Enqueue, IInv
<1>2. CASE FlushQueue
  <2>1. TypeOK'
    BY <1>0, <1>2, <1>t DEF FlushQueue, q_init, TypeOK, Slots
  <2>2. (q_next(Rear) = Slot(Size + 1))'
    BY <1>2, <1>t DEF FlushQueue, q_init, q_next, Slot
  <2> QED
    BY <2>1, <2>2, <1>2 DEF FlushQueue, IInv
<1>3. ASSUME NEW count \in 0 .. MaxCount, BeginRead(count) PROVE IInv'
  <2>1. TypeOK'
    BY <1>0, <1>3, QueueAssumption DEF BeginRead, queueVars, TypeOK
  <2> QED
    BY <2>1, <1>0, <1>3 DEF BeginRead, queueVars, IInv, q_next, Slot
<1>4. CASE Dequeue
  <2>1. Array[Front] \in Entries \cup {0} /\ Len(tbuf) \in Nat
    BY <1>0 DEF TypeOK
  <2>2. (q_next(Rear) = Slot(Size + 1))'
    BY <1>0, <1>4, <1>t DEF Dequeue, q_empty, q_next, Slot
  <2>3. /\ Front' \in Slots /\ Rear' \in Slots /\ Size' \in 0 .. Q_SIZE
        /\ Array' \in [Slots -> Entries \cup {0}]
        /\ x' \in Entries \cup {0}
    BY <2>1, <1>0, <1>4, <1>t DEF Dequeue, TypeOK, q_empty
  <2>4. /\ reading \in Int /\ Len(tbuf) < reading /\ reading <= MaxCount
        /\ tbuf \in Seq(Entries)
        /\ EndsAtZero(Array[Front])
    BY <1>0, <1>4 DEF Dequeue, TypeOK
  <2>5. /\ reading' \in -1 .. MaxCount
        /\ tbuf' \in Seq(Entries) /\ Len(tbuf') <= MaxCount
        /\ reading' # -1 => Len(tbuf') <= reading'
    <3>1. CASE Array[Front] = 0
      BY <2>1, <2>4, <3>1, QueueAssumption DEF EndsAtZero
    <3>2. CASE Array[Front] # 0
      <4>1. /\ tbuf' = Append(tbuf, Array[Front]) /\ reading' = reading
            /\ Array[Front] \in Entries
        BY <2>1, <2>4, <3>2 DEF EndsAtZero
      <4> QED
        BY <2>1, <2>4, <4>1, QueueAssumption
    <3> QED
      BY <3>1, <3>2
  <2> QED
    BY <2>2, <2>3, <2>5 DEF IInv, TypeOK
<1>5. CASE DequeueNothing
  <2>1. TypeOK'
    BY <1>0, <1>5, QueueAssumption DEF DequeueNothing, EndsAtZero, queueVars, TypeOK
  <2>2. (reading # -1 => Len(tbuf) <= reading)'
    BY <1>5 DEF DequeueNothing, EndsAtZero
  <2> QED
    BY <2>1, <2>2, <1>0, <1>5 DEF DequeueNothing, queueVars, IInv, q_next, Slot
<1>6. CASE EndRead
  <2>1. TypeOK'
    BY <1>0, <1>6, QueueAssumption DEF EndRead, queueVars, TypeOK
  <2> QED
    BY <2>1, <1>0, <1>6 DEF EndRead, queueVars, IInv, q_next, Slot
<1>7. CASE UNCHANGED vars
  BY <1>0, <1>7 DEF vars, queueVars, IInv, TypeOK, q_next, Slot
<1> QED
  BY <1>1, <1>2, <1>3, <1>4, <1>5, <1>6, <1>7 DEF Next

(***************************************************************************)
(* Front, Rear and Size agree in every reachable state, for every          *)
(* capacity: what IInv adds to the types is that the next entry goes to    *)
(* the slot after the last.                                                *)
(***************************************************************************)
THEOREM Inductive == Spec => []IInv
<1>1. Init => IInv
  BY InitEstablishes
<1>2. IInv /\ [Next]_vars => IInv'
  BY StepPreserves
<1> QED
  BY <1>1, <1>2, PTL DEF Spec

-----------------------------------------------------------------------------
(* The contents as a sequence, of the slots of any ring.                   *)
Ring(F, S, A) ==
    [i \in 1 .. S |-> A[IF F + i - 1 < Q_SIZE THEN F + i - 1 ELSE F + i - 1 - Q_SIZE]]

LEMMA RingIsSequence ==
    ASSUME NEW F \in Slots, NEW S \in 0 .. Q_SIZE, NEW A \in [Slots -> Entries \cup {0}]
    PROVE  /\ Ring(F, S, A) \in Seq(Entries \cup {0})
           /\ Len(Ring(F, S, A)) = S
<1>1. Q_SIZE \in Nat /\ F \in Nat /\ F < Q_SIZE /\ S \in Nat /\ S <= Q_SIZE
  BY QueueAssumption DEF Slots
<1> DEFINE slot(i) == IF F + i - 1 < Q_SIZE THEN F + i - 1 ELSE F + i - 1 - Q_SIZE
<1>2. \A i \in 1 .. S : slot(i) \in Slots
  BY <1>1 DEF Slots
<1> HIDE DEF slot
<1>3. \A i \in 1 .. S : A[slot(i)] \in Entries \cup {0}
  BY <1>2
<1>4. Ring(F, S, A) = [i \in 1 .. S |-> A[slot(i)]]
  BY DEF Ring, slot
<1> QED
  BY <1>1, <1>3, <1>4

LEMMA SequenceByElements ==
    ASSUME NEW T, NEW s \in Seq(T), NEW t \in Seq(T), Len(s) = Len(t),
           \A i \in 1 .. Len(s) : s[i] = t[i]
    PROVE  s = t
  OBVIOUS

LEMMA RingPut ==
    ASSUME NEW F \in Slots, NEW S \in 0 .. Q_SIZE - 1,
           NEW A \in [Slots -> Entries \cup {0}], NEW e \in Entries,
           NEW r \in Slots, r = IF F + S < Q_SIZE THEN F + S ELSE F + S - Q_SIZE
    PROVE  Ring(F, S + 1, [A EXCEPT ![r] = e]) = Append(Ring(F, S, A), e)
<1> DEFINE B == [A EXCEPT ![r] = e]
<1>1. Q_SIZE \in Nat /\ F \in Nat /\ F < Q_SIZE /\ S \in Nat /\ S < Q_SIZE
  BY QueueAssumption DEF Slots
<1>2. B \in [Slots -> Entries \cup {0}]
  OBVIOUS
<1>3. /\ Ring(F, S + 1, B) \in Seq(Entries \cup {0})
      /\ Len(Ring(F, S + 1, B)) = S + 1
  <2>1. S + 1 \in 0 .. Q_SIZE
    BY <1>1
  <2> QED
    BY <1>2, <2>1, RingIsSequence
<1>4. /\ Ring(F, S, A) \in Seq(Entries \cup {0})
      /\ Len(Ring(F, S, A)) = S
  BY <1>1, RingIsSequence
<1>5. /\ Append(Ring(F, S, A), e) \in Seq(Entries \cup {0})
      /\ Len(Append(Ring(F, S, A), e)) = S + 1
      /\ Append(Ring(F, S, A), e)[S + 1] = e
      /\ \A i \in 1 .. S : Append(Ring(F, S, A), e)[i] = Ring(F, S, A)[i]
  BY <1>1, <1>4
<1>6. Ring(F, S + 1, B)[S + 1] = e
  BY <1>1 DEF Ring, Slots
<1>7. ASSUME NEW i \in 1 .. S PROVE Ring(F, S + 1, B)[i] = Ring(F, S, A)[i]
  <2> DEFINE j == IF F + i - 1 < Q_SIZE THEN F + i - 1 ELSE F + i - 1 - Q_SIZE
  <2>1. j \in Slots /\ j # r
    BY <1>1 DEF Slots
  <2>2. Ring(F, S + 1, B)[i] = B[j] /\ Ring(F, S, A)[i] = A[j]
    BY <1>1 DEF Ring
  <2> QED
    BY <2>1, <2>2
<1> HIDE DEF B
<1>8. ASSUME NEW i \in 1 .. S + 1
      PROVE  Ring(F, S + 1, B)[i] = Append(Ring(F, S, A), e)[i]
  <2>1. CASE i = S + 1
    BY <1>5, <1>6, <2>1
  <2>2. CASE i # S + 1
    <3>1. i \in 1 .. S
      BY <1>1, <2>2
    <3> QED
      BY <1>5, <1>7, <3>1
  <2> QED
    BY <2>1, <2>2
<1> QED
  BY <1>3, <1>5, <1>8, SequenceByElements DEF B

LEMMA RingGet ==
    ASSUME NEW F \in Slots, NEW S \in 1 .. Q_SIZE,
           NEW A \in [Slots -> Entries \cup {0}]
    PROVE  /\ Ring(F, S, A) # <<>>
           /\ Head(Ring(F, S, A)) = A[F]
           /\ Ring(q_next(F), S - 1, A) = Tail(Ring(F, S, A))
<1>1. Q_SIZE \in Nat /\ F \in Nat /\ F < Q_SIZE /\ S \in Nat /\ S <= Q_SIZE /\ S > 0
  BY QueueAssumption DEF Slots
<1>2. q_next(F) \in Slots /\ S - 1 \in 0 .. Q_SIZE /\ S \in 0 .. Q_SIZE
  BY <1>1 DEF q_next, Slots
<1>3. /\ Ring(F, S, A) \in Seq(Entries \cup {0})
      /\ Len(Ring(F, S, A)) = S
      /\ Ring(q_next(F), S - 1, A) \in Seq(Entries \cup {0})
      /\ Len(Ring(q_next(F), S - 1, A)) = S - 1
  BY <1>2, RingIsSequence
<1>4. Ring(F, S, A)[1] = A[F]
  BY <1>1 DEF Ring
<1>5. ASSUME NEW i \in 1 .. S - 1
      PROVE  Ring(q_next(F), S - 1, A)[i] = Ring(F, S, A)[i + 1]
  BY <1>1 DEF Ring, q_next
<1>6. /\ Ring(F, S, A) # <<>>
      /\ Tail(Ring(F, S, A)) \in Seq(Entries \cup {0})
      /\ Len(Tail(Ring(F, S, A))) = S - 1
      /\ \A i \in 1 .. S - 1 : Tail(Ring(F, S, A))[i] = Ring(F, S, A)[i + 1]
  BY <1>1, <1>3
<1>7. Ring(q_next(F), S - 1, A) = Tail(Ring(F, S, A))
  BY <1>1, <1>3, <1>5, <1>6, SequenceByElements
<1> QED
  BY <1>3, <1>4, <1>6, <1>7

-----------------------------------------------------------------------------
LEMMA StepImplements ==
    ASSUME IInv, [Next]_vars
    PROVE  [Fifo!Next]_<<Contents, x>>
<1>c. /\ Contents = Ring(Front, Size, Array)
      /\ Contents' = Ring(Front', Size', Array')
  BY DEF Contents, Ring, Slot
<1>t. /\ Front \in Slots /\ Rear \in Slots /\ Size \in 0 .. Q_SIZE
      /\ Array \in [Slots -> Entries \cup {0}]
      /\ Q_SIZE \in Nat /\ q_next(Rear) \in Slots
      /\ q_next(Rear) = Slot(Size + 1)
      /\ Front \in Nat /\ Size \in Nat
  BY Types DEF IInv, TypeOK
<1>1. ASSUME NEW e \in Entries, Enqueue(e) PROVE Fifo!Put(e)
  <2>1. Size \in 0 .. Q_SIZE - 1
    BY <1>1, <1>t DEF Enqueue, q_full
  <2>2. q_next(Rear) = IF Front + Size < Q_SIZE THEN Front + Size
                       ELSE Front + Size - Q_SIZE
    BY <1>t DEF Slot
  <2> DEFINE r == q_next(Rear)
  <2>5. /\ Front' = Front /\ Size' = Size + 1
        /\ Array' = [Array EXCEPT ![r] = e]
    BY <1>1 DEF Enqueue
  <2>6. r \in Slots /\ r = IF Front + Size < Q_SIZE THEN Front + Size
                            ELSE Front + Size - Q_SIZE
    BY <1>t, <2>2
  <2> HIDE DEF r
  <2>7. Ring(Front, Size + 1, [Array EXCEPT ![r] = e])
            = Append(Ring(Front, Size, Array), e)
    <3>1. e \in Entries /\ Array \in [Slots -> Entries \cup {0}] /\ Front \in Slots
      BY <1>1, <1>t
    <3> QED
      BY <2>1, <2>6, <3>1, RingPut, ZenonT(60)
  <2>3. Contents' = Append(Contents, e)
    BY <1>c, <2>5, <2>7
  <2>4. Len(Contents) = Size
    BY <1>c, <1>t, RingIsSequence
  <2> QED
    BY <1>1, <1>t, <2>1, <2>3, <2>4 DEF Enqueue, Fifo!Put
<1>2. CASE FlushQueue
  <2>1. Contents' = <<>>
    BY <1>2, <1>c DEF FlushQueue, q_init, Ring
  <2> QED
    BY <1>2, <2>1 DEF FlushQueue, Fifo!Next, Fifo!Clear
<1>3. CASE Dequeue
  <2>1. Size \in 1 .. Q_SIZE
    BY <1>3, <1>t DEF Dequeue, q_empty
  <2>2. /\ Contents # <<>>
        /\ Head(Contents) = Array[Front]
        /\ Contents' = Tail(Contents)
    BY <1>3, <1>c, <1>t, <2>1, RingGet DEF Dequeue
  <2> QED
    BY <1>3, <2>2 DEF Dequeue, Fifo!Next, Fifo!Get
<1>4. CASE DequeueNothing
  <2>1. Contents = <<>> /\ Contents' = Contents
    BY <1>4, <1>c DEF DequeueNothing, q_empty, queueVars, Ring
  <2> QED
    BY <1>4, <2>1 DEF DequeueNothing, Fifo!Next, Fifo!GetNothing
<1>5. ASSUME \/ \E count \in 0 .. MaxCount : BeginRead(count)
             \/ EndRead
             \/ UNCHANGED vars
      PROVE  UNCHANGED <<Contents, x>>
  BY <1>5, <1>c DEF BeginRead, EndRead, vars, queueVars
<1> QED
  BY <1>1, <1>2, <1>3, <1>4, <1>5 DEF Next, Fifo!Next

(***************************************************************************)
(* The ring implements the bounded queue: every operation of the handler,  *)
(* of a read and of the flush is one of BoundedFifo, or none.              *)
(***************************************************************************)
THEOREM ImplementsFifo == Spec => FifoSpec
<1>1. Init => Fifo!Init
  BY DEF Init, Fifo!Init, Contents
<1>2. IInv /\ [Next]_vars => [Fifo!Next]_<<Contents, x>>
  BY StepImplements
<1> QED
  BY <1>1, <1>2, Inductive, PTL DEF Spec, FifoSpec, Fifo!Spec
-----------------------------------------------------------------------------
(* What a read returns. *)

NoZeros == \A i \in 1 .. Len(tbuf) : tbuf[i] # 0

LEMMA NextNoZeros == IInv /\ NoZeros /\ [Next]_vars => NoZeros'
<1> SUFFICES ASSUME IInv, NoZeros, [Next]_vars PROVE NoZeros'
  OBVIOUS
<1> USE DEF NoZeros
<1>1. tbuf \in Seq(Entries) /\ Array[Front] \in Entries \cup {0}
  BY DEF IInv, TypeOK
<1>2. CASE tbuf' = tbuf \/ tbuf' = <<>>
  BY <1>2
<1>3. CASE Dequeue
  <2>1. CASE Array[Front] = 0
    BY <1>3, <2>1 DEF Dequeue, EndsAtZero
  <2>2. CASE Array[Front] # 0
    <3>1. tbuf' = Append(tbuf, Array[Front]) /\ Array[Front] \in Entries
      BY <1>1, <1>3, <2>2 DEF Dequeue, EndsAtZero
    <3> QED
      BY <1>1, <2>2, <3>1
  <2> QED
    BY <2>1, <2>2
<1>4. CASE DequeueNothing \/ EndRead \/ FlushQueue \/ UNCHANGED vars
  BY <1>2, <1>4 DEF DequeueNothing, EndsAtZero, EndRead, FlushQueue, vars
<1>5. CASE (\E e \in Entries : Enqueue(e)) \/ (\E count \in 0 .. MaxCount : BeginRead(count))
  BY <1>2, <1>5 DEF Enqueue, BeginRead
<1> QED
  BY <1>3, <1>4, <1>5 DEF Next

(***************************************************************************)
(* A read returns no zero, and one that returns less than it was asked for *)
(* has come to a zero, whatever is queued, flushed and read before it.     *)
(***************************************************************************)
THEOREM ReadsEndAtZero == Spec => ShortReadsEndAtZero
<1> DEFINE Ends ==
      reading # -1 /\ reading' = -1 =>
         /\ \A i \in 1 .. Len(tbuf') : tbuf'[i] # 0
         /\ Len(tbuf') < reading => x' = 0
<1>1. Init => NoZeros
  BY DEF Init, NoZeros
<1>2. IInv /\ NoZeros /\ [Next]_vars => Ends
  <2> SUFFICES ASSUME IInv, NoZeros, [Next]_vars, reading # -1, reading' = -1
               PROVE  /\ \A i \in 1 .. Len(tbuf') : tbuf'[i] # 0
                      /\ Len(tbuf') < reading => x' = 0
    OBVIOUS
  <2>1. \A i \in 1 .. Len(tbuf') : tbuf'[i] # 0
    BY NextNoZeros DEF NoZeros
  <2>2. reading \in Int /\ Len(tbuf) \in Nat
    BY DEF IInv, TypeOK
  <2>3. CASE Dequeue \/ DequeueNothing
    BY <2>1, <2>3 DEF Dequeue, DequeueNothing, EndsAtZero
  <2>4. CASE EndRead
    BY <2>1, <2>2, <2>4 DEF EndRead
  <2>5. ~(\E e \in Entries : Enqueue(e)) /\ ~FlushQueue
    BY DEF Enqueue, FlushQueue
  <2>6. ~(\E count \in 0 .. MaxCount : BeginRead(count)) /\ ~UNCHANGED vars
    BY DEF BeginRead, vars
  <2> QED
    BY <2>1, <2>3, <2>4, <2>5, <2>6 DEF Next
<1>3. Spec => [][Ends]_vars
  BY <1>1, <1>2, NextNoZeros, Inductive, PTL DEF Spec
<1> QED
  BY <1>3 DEF ShortReadsEndAtZero
=============================================================================
