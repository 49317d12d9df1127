------------------------------ MODULE RxStream ------------------------------
(***************************************************************************)
(* What the receive side of a serial port promises: the bytes accepted     *)
(* from the line reach the tty, none of them twice; and until the line     *)
(* makes an error, all of them and in the order in which they arrived.     *)
(* How many are delivered at a time, and by what route, is not said.       *)
(***************************************************************************)
EXTENDS Naturals, Sequences

CONSTANTS
    MaxBytes,           \* bound on the bytes the line sends
    MaxErrors           \* bound on the errors it makes

VARIABLES
    arrived,            \* how many bytes were accepted: byte n is number n
    errors,             \* how many errors the line has made
    tty                 \* the bytes delivered to the tty

vars == <<arrived, errors, tty>>

\* The first n bytes in the order of arrival.
Arrivals(n) == [i \in 1 .. n |-> i]

Init ==
    /\ arrived = 0
    /\ errors = 0
    /\ tty = <<>>

Accept ==
    /\ arrived < MaxBytes
    /\ arrived' = arrived + 1
    /\ UNCHANGED <<errors, tty>>

Error ==
    /\ errors < MaxErrors
    /\ errors' = errors + 1
    /\ UNCHANGED <<arrived, tty>>

Deliver ==
    /\ errors = 0
    /\ \E n \in Len(tty) + 1 .. arrived : tty' = Arrivals(n)
    /\ UNCHANGED <<arrived, errors>>

\* What was delivered stays; what is added was accepted and is new.
Extends(s, t) ==
    /\ Len(s) < Len(t)
    /\ \A i \in 1 .. Len(s) : s[i] = t[i]
    /\ \A i \in 1 .. Len(t) : t[i] \in 1 .. arrived
    /\ \A i, j \in 1 .. Len(t) : t[i] = t[j] => i = j

DeliverDisordered ==
    /\ errors > 0
    /\ Extends(tty, tty')
    /\ UNCHANGED <<arrived, errors>>

Next == Accept \/ Error \/ Deliver \/ DeliverDisordered

\* What comes out is right; and on a clean line what went in comes out.
Safety == Init /\ [][Next]_vars
Spec == Safety /\ WF_vars(Deliver)
=============================================================================
