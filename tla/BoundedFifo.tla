----------------------------- MODULE BoundedFifo -----------------------------
(***************************************************************************)
(* What the queue of a GPIO port promises its users: a bounded first in,   *)
(* first out queue that refuses an entry when it is full, gives 0 when it  *)
(* is empty, and can be emptied.                                           *)
(***************************************************************************)
EXTENDS Naturals, Sequences

CONSTANTS
    Capacity,       \* entries it has room for
    Entries         \* what an entry may be; 0 among them

VARIABLES
    fifo,           \* the entries, oldest first
    out             \* what was taken last

Init == fifo = <<>> /\ out = 0

Put(x) ==
    /\ Len(fifo) < Capacity
    /\ fifo' = Append(fifo, x)
    /\ UNCHANGED out

Get ==
    /\ fifo # <<>>
    /\ out' = Head(fifo)
    /\ fifo' = Tail(fifo)

GetNothing ==
    /\ fifo = <<>>
    /\ out' = 0
    /\ UNCHANGED fifo

Clear ==
    /\ fifo' = <<>>
    /\ UNCHANGED out

Next == (\E x \in Entries : Put(x)) \/ Get \/ GetNothing \/ Clear

Spec == Init /\ [][Next]_<<fifo, out>>
=============================================================================
