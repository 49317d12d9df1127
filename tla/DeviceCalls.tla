----------------------------- MODULE DeviceCalls -----------------------------
(***************************************************************************)
(* What the calls on a character device with one semaphore promise the     *)
(* processes that make them: a call is outside, waiting or inside, and at  *)
(* most one is inside.  A call may die inside, and then none gets in any   *)
(* more; until one does, every call returns.                               *)
(***************************************************************************)
CONSTANT Procs      \* the processes that have the device open

VARIABLE stage      \* how far the call of each process has got

Init == stage = [p \in Procs |-> "outside"]

Goto(p, s) == stage' = [stage EXCEPT ![p] = s]

Begin(p) == stage[p] = "outside" /\ Goto(p, "waiting")

Enter(p) ==
    /\ stage[p] = "waiting"
    /\ \A q \in Procs : stage[q] \notin {"inside", "dead"}
    /\ Goto(p, "inside")

\* A call returns with what it did, or gives up.
Return(p) == stage[p] \in {"waiting", "inside"} /\ Goto(p, "outside")

\* The kernel ends the process in the middle of its call.
Die(p) == stage[p] = "inside" /\ Goto(p, "dead")

Next == \E p \in Procs : Begin(p) \/ Enter(p) \/ Return(p) \/ Die(p)

Safety == Init /\ [][Next]_stage

Returns(p) ==
    stage[p] # "outside" ~>
        stage[p] = "outside" \/ \E q \in Procs : stage[q] = "dead"

Spec == Safety /\ \A p \in Procs : Returns(p)
=============================================================================
