--------------------------- MODULE GpioPortProofs ---------------------------
(***************************************************************************)
(* Theorems about the GPIO port, for any number of processes and calls.    *)
(***************************************************************************)
EXTENDS GpioPort, TLAPS

LEMMA Bounds == MaxCount \in Nat /\ MaxCalls \in Nat
  BY PortAssumption DEF PortAssumption

LEMMA InitInv == Init => IInv
<1> SUFFICES ASSUME Init PROVE IInv
  OBVIOUS
<1> USE Bounds DEF Init
<1>1. TypeOK
  BY DEF TypeOK, NoCall
<1>2. Balance
  BY DEF Balance, Holds
<1>3. Direction /\ WriteReachesPins
  BY DEF Direction, WriteReachesPins
<1> QED
  BY <1>1, <1>2, <1>3 DEF IInv

LEMMA NextTypeOK == IInv /\ [Next]_vars => TypeOK'
<1> SUFFICES ASSUME IInv, [Next]_vars PROVE TypeOK'
  OBVIOUS
<1> USE Bounds DEF IInv, TypeOK, Goto, Return, portVars
<1>1. CASE Outside
  BY <1>1 DEF Outside
<1>2. ASSUME NEW p \in Procs, Call(p) PROVE TypeOK'
  <2>1. PICK op \in Operations, n \in 0 .. MaxCount :
          call' = [call EXCEPT ![p] = [op |-> op, count |-> n]]
    BY <1>2 DEF Call
  <2>2. calls + 1 \in 0 .. MaxCalls
    BY <1>2 DEF Call
  <2>3. call' \in [Procs -> [op : Operations \cup {"none"}, count : 0 .. MaxCount]]
    BY <2>1
  <2> QED
    BY <1>2, <2>2, <2>3 DEF Call
<1>3. ASSUME NEW p \in Procs, Down(p) PROVE TypeOK'
  <2>1. sem - 1 \in 0 .. 1
    BY <1>3 DEF Down
  <2> QED
    BY <1>3, <2>1 DEF Down
<1>4. ASSUME NEW p \in Procs,
             TurnDown(p) \/ DownInterrupted(p) \/ NoMemory(p)
             \/ TurnIn(p) \/ TurnOut(p) \/ CopyFromUserFails(p)
             \/ EndTransfer(p) \/ NothingDone(p) \/ UnknownRequest(p)
      PROVE  TypeOK'
  BY <1>4 DEF TurnDown, DownInterrupted, NoMemory, TurnIn, TurnOut,
              CopyFromUserFails, EndTransfer, NothingDone, UnknownRequest
<1>5. ASSUME NEW p \in Procs, ReadByte(p) \/ WriteByte(p) PROVE TypeOK'
  <2>1. call[p].count \in 0 .. MaxCount /\ done[p] \in 0 .. MaxCount
    OBVIOUS
  <2>2. done[p] + 1 \in 0 .. MaxCount
    BY <1>5, <2>1 DEF ReadByte, WriteByte
  <2> QED
    BY <1>5, <2>2 DEF ReadByte, WriteByte, DataRegister
<1>6. ASSUME NEW p \in Procs, ReadReg0(p) \/ StoreFaults(p) PROVE TypeOK'
  <2>1. CASE ReadReg0(p)
    BY <2>1 DEF ReadReg0, DataRegister
  <2>2. CASE StoreFaults(p)
    BY <2>2 DEF StoreFaults, DataRegister
  <2> QED
    BY <1>6, <2>1, <2>2
<1>7. ASSUME NEW p \in Procs, Up(p) PROVE TypeOK'
  <2>1. sem = 0
    BY <1>7 DEF Up, Balance, Holds
  <2> QED
    BY <1>7, <2>1 DEF Up
<1>8. CASE UNCHANGED vars
  BY <1>8 DEF vars
<1>9. ASSUME NEW p \in Procs, Ioctl(p) PROVE TypeOK'
  BY <1>4, <1>6, <1>9 DEF Ioctl
<1> QED
  BY <1>1, <1>2, <1>3, <1>4, <1>5, <1>7, <1>8, <1>9, Zenon DEF Next, Inside

(* What a step does to the semaphore and to where the processes are: the   *)
(* step is p's, who waits, takes the semaphore, keeps it, gives it back or *)
(* dies with it.                                                           *)
Waits(p) ==
    /\ sem' = sem
    /\ pc[p] \in {"idle", "check"} /\ pc'[p] \in {"idle", "check"}
Takes(p) == sem = 1 /\ sem' = 0 /\ pc[p] = "check" /\ pc'[p] = "enter"
Keeps(p) ==
    /\ sem' = sem
    /\ pc[p] \in {"enter", "transfer"} /\ pc'[p] \in {"transfer", "up"}
Gives(p) == sem' = sem + 1 /\ pc[p] = "up" /\ pc'[p] = "idle"
Dies(p) ==
    /\ sem' = sem
    /\ pc[p] = "enter" /\ pc'[p] = "dead"
    /\ call[p].op = "readReg0"

Step(p) ==
    Call(p) \/ TurnDown(p) \/ Down(p) \/ DownInterrupted(p) \/ Inside(p)

LEMMA KindsOfStep ==
    ASSUME IInv, NEW p \in Procs, Step(p)
    PROVE  /\ Waits(p) \/ Takes(p) \/ Keeps(p) \/ Gives(p) \/ Dies(p)
           /\ \A q \in Procs : q # p => pc'[q] = pc[q] /\ call'[q] = call[q]
           /\ pc[p] # "idle" => call' = call
<1>a. pc \in [Procs -> {"idle", "check", "enter", "transfer", "up", "dead"}]
      /\ sem \in 0 .. 1 /\ DOMAIN call = Procs
  BY DEF IInv, TypeOK
<1>1. CASE Call(p) \/ TurnDown(p) \/ DownInterrupted(p)
  BY <1>a, <1>1 DEF Call, TurnDown, DownInterrupted, Goto, Waits
<1>2. CASE Down(p)
  BY <1>a, <1>2 DEF Down, Goto, Takes
<1>3. CASE NoMemory(p) \/ TurnIn(p) \/ TurnOut(p) \/ CopyFromUserFails(p)
  BY <1>a, <1>3 DEF NoMemory, TurnIn, TurnOut, CopyFromUserFails, Goto, Keeps
<1>4. CASE ReadByte(p) \/ WriteByte(p) \/ EndTransfer(p)
  BY <1>a, <1>4 DEF ReadByte, WriteByte, EndTransfer, Goto, Keeps
<1>5. CASE Ioctl(p)
  BY <1>a, <1>5 DEF Ioctl, ReadReg0, StoreFaults, NothingDone, UnknownRequest,
                    Goto, Keeps, Dies
<1>6. CASE Up(p)
  BY <1>a, <1>6 DEF Up, Goto, Gives
<1> QED
  BY <1>1, <1>2, <1>3, <1>4, <1>5, <1>6 DEF Step, Inside

LEMMA NextBalance == IInv /\ [Next]_vars => Balance'
<1> SUFFICES ASSUME IInv, [Next]_vars PROVE Balance'
  OBVIOUS
<1>a. Balance /\ sem \in 0 .. 1
  BY DEF IInv, TypeOK
<1>1. ASSUME NEW p \in Procs, Step(p) PROVE Balance'
  <2>1. /\ \A q \in Procs : q # p => pc'[q] = pc[q] /\ call'[q] = call[q]
        /\ pc[p] # "idle" => call' = call
    BY <1>1, KindsOfStep
  <2>2. CASE Waits(p)
    BY <1>a, <2>1, <2>2 DEF Waits, Balance, Holds
  <2>3. CASE Takes(p)
    BY <1>a, <2>1, <2>3 DEF Takes, Balance, Holds
  <2>4. CASE Keeps(p)
    BY <1>a, <2>1, <2>4 DEF Keeps, Balance, Holds
  <2>5. CASE Gives(p)
    BY <1>a, <2>1, <2>5 DEF Gives, Balance, Holds
  <2>6. CASE Dies(p)
    BY <1>a, <2>1, <2>6 DEF Dies, Balance, Holds
  <2> QED
    BY <1>1, <2>2, <2>3, <2>4, <2>5, <2>6, KindsOfStep
<1>2. CASE Outside
  BY <1>a, <1>2 DEF Outside, Balance, Holds
<1>3. CASE UNCHANGED vars
  BY <1>a, <1>3 DEF vars, Balance, Holds
<1> QED
  BY <1>1, <1>2, <1>3 DEF Next, Step

\* A process in the middle of a transfer is alone with the port.
LEMMA Alone ==
    ASSUME IInv, NEW p \in Procs, Holds(p)
    PROVE  \A q \in Procs : q # p => ~Holds(q)
  BY DEF IInv, Balance

LEMMA NextDirection ==
    IInv /\ [Next]_vars => Direction' /\ WriteReachesPins'
<1> SUFFICES ASSUME IInv, [Next]_vars PROVE Direction' /\ WriteReachesPins'
  OBVIOUS
<1>a. /\ Direction /\ WriteReachesPins
      /\ pc \in [Procs -> {"idle", "check", "enter", "transfer", "up", "dead"}]
      /\ DOMAIN result = Procs /\ DOMAIN call = Procs
      /\ DOMAIN done = Procs /\ DOMAIN last = Procs
      /\ \A p \in Procs : done[p] \in Nat /\ call[p].count \in Nat
  BY Bounds DEF IInv, TypeOK
<1>1. ASSUME NEW p \in Procs, Call(p) \/ TurnDown(p) \/ Down(p)
                              \/ DownInterrupted(p) \/ NoMemory(p) \/ Up(p)
      PROVE  Direction' /\ WriteReachesPins'
  <2>1. /\ UNCHANGED portVars
        /\ pc'[p] \in {"idle", "check", "enter", "up"}
        /\ pc'[p] = "up" => result'[p] = "ENOMEM"
        /\ pc'[p] \in {"check", "enter"} => done'[p] = 0
        /\ \A q \in Procs : q # p =>
              /\ pc'[q] = pc[q] /\ call'[q] = call[q] /\ done'[q] = done[q]
              /\ last'[q] = last[q] /\ result'[q] = result[q]
    BY <1>a, <1>1 DEF Call, TurnDown, Down, DownInterrupted, NoMemory, Up,
                      Goto, Return, Direction
  <2> QED
    BY <1>a, <2>1 DEF portVars, Direction, WriteReachesPins
<1>2. ASSUME NEW p \in Procs, TurnIn(p) \/ TurnOut(p)
      PROVE  Direction' /\ WriteReachesPins'
  <2>1. \A q \in Procs : q # p => pc[q] \notin {"transfer", "up"}
    BY <1>2, Alone DEF TurnIn, TurnOut, Holds
  <2>2. /\ call' = call /\ done' = done /\ pc[p] = "enter"
        /\ \A q \in Procs : pc'[q] = IF q = p THEN "transfer" ELSE pc[q]
        /\ \/ call[p].op = "read" /\ turned' = "in"
           \/ call[p].op = "write" /\ turned' = "out"
    BY <1>a, <1>2 DEF TurnIn, TurnOut, Goto
  <2> QED
    BY <1>a, <2>1, <2>2 DEF Direction, WriteReachesPins
<1>3. ASSUME NEW p \in Procs, ReadByte(p) \/ WriteByte(p)
      PROVE  Direction' /\ WriteReachesPins'
  <2>1. \A q \in Procs : q # p => pc[q] \notin {"transfer", "up"}
    BY <1>3, Alone DEF ReadByte, WriteByte, Holds
  <2>2. /\ call' = call /\ pc' = pc /\ turned' = turned /\ pc[p] = "transfer"
        /\ call[p].op = "write" => latch' = last'[p]
        /\ \A q \in Procs : q # p => done'[q] = done[q]
    BY <1>a, <1>3 DEF ReadByte, WriteByte, portVars
  <2> QED
    BY <1>a, <2>1, <2>2 DEF Direction, WriteReachesPins
<1>4. ASSUME NEW p \in Procs, CopyFromUserFails(p) \/ EndTransfer(p) \/ Ioctl(p)
      PROVE  Direction' /\ WriteReachesPins'
  <2>1. \A q \in Procs : q # p => pc[q] \notin {"transfer", "up"}
    BY <1>4, Alone
       DEF CopyFromUserFails, EndTransfer, Ioctl, ReadReg0, StoreFaults,
           NothingDone, UnknownRequest, Holds
  <2>2. /\ call' = call /\ done' = done /\ UNCHANGED portVars
        /\ pc'[p] \in {"up", "dead"}
        /\ \A q \in Procs : pc'[q] = IF q = p THEN pc'[p] ELSE pc[q]
    BY <1>a, <1>4 DEF CopyFromUserFails, EndTransfer, Ioctl, ReadReg0,
                      StoreFaults, NothingDone, UnknownRequest, Goto
  <2>3. call[p].op = "write" /\ call[p].count > 0 /\ result'[p] = "count"
          => turned = "out" /\ latch = last[p] /\ last' = last
    <3>1. CASE CopyFromUserFails(p)
      BY <1>a, <3>1 DEF CopyFromUserFails, Return
    <3>2. CASE EndTransfer(p)
      BY <1>a, <3>2 DEF EndTransfer, Direction
    <3>3. CASE Ioctl(p)
      BY <1>a, <3>3 DEF Ioctl, ReadReg0, StoreFaults, NothingDone, UnknownRequest,
                        NoEffect
    <3> QED
      BY <1>4, <3>1, <3>2, <3>3
  <2> QED
    BY <1>a, <2>1, <2>2, <2>3 DEF portVars, Direction, WriteReachesPins
<1>5. CASE Outside
  BY <1>a, <1>5 DEF Outside, Direction, WriteReachesPins
<1>6. CASE UNCHANGED vars
  BY <1>a, <1>6 DEF vars, portVars, Direction, WriteReachesPins
<1> QED
  BY <1>1, <1>2, <1>3, <1>4, <1>5, <1>6 DEF Next, Inside

LEMMA NextInv == IInv /\ [Next]_vars => IInv'
  BY NextTypeOK, NextBalance, NextDirection DEF IInv

(* The semaphore has at most one owner, a call in progress or one that     *)
(* died over the user's address, and during the transfer the pins stay     *)
(* turned the way this call turned them.                                   *)
THEOREM Inductive == Spec => []IInv
  BY InitInv, NextInv, PTL DEF Spec

(* However many processes use the port, a write that reports success leaves *)
(* its last byte on the pins.                                               *)
THEOREM WrittenIsOnThePins == Spec => []WriteReachesPins
<1>1. IInv => WriteReachesPins
  BY DEF IInv
<1> QED
  BY <1>1, Inductive, PTL

(* A read delivers what the pins are held at from outside, never what a    *)
(* write of another process left in the latch.                             *)
THEOREM ReadsSeePins == Spec => ReadsPins
<1> DEFINE Sees ==
      \A p \in Procs :
          (done'[p] > done[p] /\ call[p].op = "read") => last'[p] = outside
<1>1. IInv /\ [Next]_vars => Sees
  <2> SUFFICES ASSUME IInv, [Next]_vars, NEW q \in Procs,
                      done'[q] > done[q], call[q].op = "read"
               PROVE  last'[q] = outside
    OBVIOUS
  <2>a. /\ Direction /\ done \in [Procs -> 0 .. MaxCount] /\ MaxCount \in Nat
        /\ DOMAIN last = Procs
    BY Bounds DEF IInv, TypeOK
  <2>1. CASE done' = done
    <3>1. done[q] \in Nat
      BY <2>a
    <3> QED
      BY <2>1, <3>1
  <2>2. ASSUME NEW p \in Procs, Call(p) PROVE last'[q] = outside
    <3>1. done'[q] = 0 \/ done'[q] = done[q]
      BY <2>2, <2>a DEF Call
    <3> QED
      BY <2>a, <3>1
  <2>3. ASSUME NEW p \in Procs, ReadByte(p) PROVE last'[q] = outside
    <3>1. CASE q = p
      BY <2>a, <2>3, <3>1 DEF ReadByte, DataRegister, Direction
    <3>2. CASE q # p
      <4>1. done'[q] = done[q]
        BY <2>a, <2>3, <3>2 DEF ReadByte
      <4> QED
        BY <2>a, <4>1
    <3> QED
      BY <3>1, <3>2
  <2>4. ASSUME NEW p \in Procs, WriteByte(p) PROVE last'[q] = outside
    <3>1. q # p
      BY <2>4 DEF WriteByte
    <3>2. done'[q] = done[q]
      BY <2>a, <2>4, <3>1 DEF WriteByte
    <3> QED
      BY <2>a, <3>2
  <2>5. ASSUME NEW p \in Procs,
               TurnDown(p) \/ Down(p) \/ DownInterrupted(p) \/ NoMemory(p)
               \/ TurnIn(p) \/ TurnOut(p) \/ CopyFromUserFails(p)
               \/ EndTransfer(p) \/ Ioctl(p) \/ Up(p)
        PROVE  done' = done
    BY <2>5 DEF TurnDown, Down, DownInterrupted, NoMemory, TurnIn, TurnOut,
       CopyFromUserFails, EndTransfer, Ioctl, ReadReg0, StoreFaults,
       NothingDone, UnknownRequest, Up
  <2> QED
    BY <2>1, <2>2, <2>3, <2>4, <2>5 DEF Next, Inside, Outside, vars
<1>2. Spec => [][Sees]_vars
  BY <1>1, Inductive, PTL DEF Spec
<1> QED
  BY <1>2 DEF ReadsPins

LEMMA StageOf ==
    \A p \in Procs :
        Stage[p] = CASE pc[p] = "idle" -> "outside"
                     [] pc[p] = "check" -> "waiting"
                     [] pc[p] = "dead" -> "dead"
                     [] OTHER -> "inside"
  BY DEF Stage

(* Every step is a step of a device whose calls exclude each other, or one *)
(* that does not show: the safety part of CallsSpec.                       *)
THEOREM ImplementsDevice == Spec => Device!Safety
<1>1. Init => Device!Init
  BY DEF Init, Device!Init, Stage
<1>2. IInv /\ [Next]_vars => [Device!Next]_Stage
  <2> SUFFICES ASSUME IInv, [Next]_vars PROVE Device!Next \/ Stage' = Stage
    OBVIOUS
  <2>a. Balance /\ pc \in [Procs -> {"idle", "check", "enter", "transfer", "up", "dead"}]
    BY DEF IInv, TypeOK
  <2>1. CASE pc' = pc
    BY <2>1 DEF Stage
  <2>2. ASSUME NEW p \in Procs, NEW s, s = Stage'[p],
               \A q \in Procs : q # p => pc'[q] = pc[q]
        PROVE  Device!Goto(p, s)
    BY <2>2 DEF Stage, Device!Goto
  <2>3. ASSUME NEW p \in Procs, Step(p) PROVE Device!Next \/ Stage' = Stage
    <3>1. \A q \in Procs : q # p => pc'[q] = pc[q]
      BY <2>3, KindsOfStep
    <3>2. Stage'[p] = CASE pc'[p] = "idle" -> "outside"
                        [] pc'[p] = "check" -> "waiting"
                        [] pc'[p] = "dead" -> "dead"
                        [] OTHER -> "inside"
      BY DEF Stage
    <3>3. CASE Stage'[p] = Stage[p]
      BY <3>1, <3>3 DEF Stage
    <3>4. CASE Stage[p] = "outside" /\ Stage'[p] = "waiting"
      BY <2>2, <3>1, <3>4 DEF Device!Next, Device!Begin
    <3>5. CASE Stage[p] \in {"waiting", "inside"} /\ Stage'[p] = "outside"
      BY <2>2, <3>1, <3>5 DEF Device!Next, Device!Return
    <3>6. CASE Takes(p)
      <4>1. Stage[p] = "waiting" /\ Stage'[p] = "inside"
        BY <3>2, <3>6, StageOf DEF Takes
      <4>2. \A q \in Procs : ~Holds(q)
        BY <2>a, <3>6 DEF Takes, Balance
      <4>3. \A q \in Procs : Stage[q] \notin {"inside", "dead"}
        BY <2>a, <4>2, StageOf DEF Holds
      <4> QED
        BY <2>2, <3>1, <4>1, <4>3 DEF Device!Next, Device!Enter
    <3>7. CASE Waits(p)
      BY <3>2, <3>3, <3>4, <3>5, <3>7, StageOf DEF Waits
    <3>8. CASE Keeps(p)
      BY <3>2, <3>3, <3>8, StageOf DEF Keeps
    <3>9. CASE Gives(p)
      BY <3>2, <3>5, <3>9, StageOf DEF Gives
    <3>10. CASE Dies(p)
      <4>1. Stage[p] = "inside" /\ Stage'[p] = "dead"
        BY <3>2, <3>10, StageOf DEF Dies
      <4> QED
        BY <2>2, <3>1, <4>1 DEF Device!Next, Device!Die
    <3> QED
      BY <2>3, <3>6, <3>7, <3>8, <3>9, <3>10, KindsOfStep
  <2> QED
    BY <2>1, <2>3 DEF Next, Step, Outside, vars
<1> QED
  BY <1>1, <1>2, Inductive, PTL DEF Spec, Device!Safety

-----------------------------------------------------------------------------
(* What a call that is inside has still to do, and what a call that waits  *)
(* waits for: a call that goes on, or the one that died.                   *)

Left(p) ==
    CASE pc[p] = "enter" -> call[p].count + 3
      [] pc[p] = "transfer" -> (call[p].count + 2) - done[p]
      [] pc[p] = "up" -> 1
      [] OTHER -> 0

Place(p) == <<pc[p], call[p], done[p], result[p], last[p]>>

\* A call inside comes nearer to its end or is left where it is; a dead one
\* always is.
RunsOut(p) ==
    /\ Holds(p) => Left(p)' < Left(p) \/ Place(p)' = Place(p)
    /\ pc[p] = "dead" => Place(p)' = Place(p)

CallsRunOut == [][\A p \in Procs : RunsOut(p)]_vars

WaitsForCall ==
    \A p \in Procs :
        pc[p] = "check" =>
            \/ sem > 0
            \/ \E q \in Procs : Holds(q) /\ Left(q) > 0
            \/ \E q \in Procs : pc[q] = "dead" /\ call[q].op = "readReg0"

\* No loop counter is past its bound.
InLoop == \A p \in Procs : done[p] <= call[p].count

Others(p) == \A q \in Procs : q # p => Place(q)' = Place(q)

LEMMA InsideRunsOut ==
    ASSUME IInv, InLoop, NEW p \in Procs, Inside(p)
    PROVE  /\ Others(p) /\ pc[p] # "dead"
           /\ Left(p)' < Left(p)
           /\ (done[p] <= call[p].count)'
<1>a. /\ DOMAIN pc = Procs /\ DOMAIN done = Procs /\ DOMAIN result = Procs
      /\ DOMAIN last = Procs
      /\ done[p] \in Nat /\ call[p].count \in Nat /\ done[p] <= call[p].count
  BY Bounds DEF IInv, TypeOK, InLoop
<1>1. CASE NoMemory(p) \/ TurnIn(p) \/ TurnOut(p) \/ CopyFromUserFails(p)
  <2>1. \/ pc[p] = "enter" /\ pc' = [pc EXCEPT ![p] = "transfer"] /\ done[p] = 0
        \/ pc[p] = "enter" /\ pc' = [pc EXCEPT ![p] = "up"]
    BY <1>1 DEF NoMemory, TurnIn, TurnOut, CopyFromUserFails, Goto, IInv, Direction
  <2>2. /\ UNCHANGED <<call, done, last>>
        /\ \A q \in Procs : q # p => result'[q] = result[q]
    BY <1>a, <1>1 DEF NoMemory, TurnIn, TurnOut, CopyFromUserFails, Return
  <2> QED
    BY <1>a, <2>1, <2>2 DEF Others, Place, Left
<1>2. CASE Ioctl(p)
  BY <1>a, <1>2 DEF Ioctl, ReadReg0, StoreFaults, NothingDone, UnknownRequest,
     Goto, Return, Others, Place, Left
<1>3. CASE ReadByte(p) \/ WriteByte(p)
  BY <1>a, <1>3 DEF ReadByte, WriteByte, Others, Place, Left
<1>4. CASE EndTransfer(p) \/ Up(p)
  BY <1>a, <1>4 DEF EndTransfer, Up, Goto, Return, Others, Place, Left
<1> QED
  BY <1>1, <1>2, <1>3, <1>4 DEF Inside

LEMMA OutsideStep ==
    ASSUME IInv, InLoop, NEW p \in Procs,
           Call(p) \/ TurnDown(p) \/ Down(p) \/ DownInterrupted(p)
    PROVE  /\ Others(p) /\ ~Holds(p)
           /\ (done[p] <= call[p].count)'
<1>a. /\ DOMAIN pc = Procs /\ DOMAIN done = Procs /\ DOMAIN result = Procs
      /\ DOMAIN call = Procs /\ DOMAIN last = Procs /\ done[p] <= call[p].count
  BY DEF IInv, TypeOK, InLoop
<1>1. CASE Call(p)
  <2>1. PICK op \in Operations, n \in 0 .. MaxCount :
          call' = [call EXCEPT ![p] = [op |-> op, count |-> n]]
    BY <1>1 DEF Call
  <2>2. call'[p].count = n /\ done'[p] = 0 /\ n \in Nat
    BY <1>1, <1>a, <2>1, Bounds DEF Call
  <2>3. Others(p) /\ ~Holds(p)
    BY <1>1, <1>a, <2>1 DEF Call, Goto, Return, Others, Place, Holds
  <2> QED
    BY <2>2, <2>3
<1>2. CASE TurnDown(p) \/ Down(p) \/ DownInterrupted(p)
  BY <1>a, <1>2 DEF TurnDown, Down, DownInterrupted, Goto, Return, Others, Place, Holds
<1> QED
  BY <1>1, <1>2

LEMMA NextRunsOut ==
    IInv /\ InLoop /\ [Next]_vars =>
        /\ InLoop'
        /\ \A p \in Procs : RunsOut(p)
<1> SUFFICES ASSUME IInv, InLoop, [Next]_vars, NEW q \in Procs
             PROVE  (done[q] <= call[q].count)' /\ RunsOut(q)
  BY DEF InLoop
<1>1. Place(q)' = Place(q) => (done[q] <= call[q].count)'
  BY DEF Place, InLoop
<1>2. ASSUME NEW p \in Procs, Inside(p)
      PROVE  (done[q] <= call[q].count)' /\ RunsOut(q)
  BY <1>1, <1>2, InsideRunsOut DEF Others, RunsOut
<1>3. ASSUME NEW p \in Procs,
             Call(p) \/ TurnDown(p) \/ Down(p) \/ DownInterrupted(p)
      PROVE  (done[q] <= call[q].count)' /\ RunsOut(q)
  BY <1>1, <1>3, OutsideStep DEF Others, RunsOut, Holds
<1>4. CASE UNCHANGED vars \/ Outside
  BY <1>1, <1>4 DEF vars, Outside, Place, RunsOut
<1> QED
  BY <1>2, <1>3, <1>4 DEF Next

(* A call that waits for the semaphore waits for a call that is inside and *)
(* has steps to take, or for one that died storing the data register at    *)
(* its user's address.  A call that is inside comes nearer to its return,  *)
(* or to that death, with every step it takes, its loop included, while    *)
(* the steps of others leave it where it is: at most one step for each     *)
(* byte and three more.  A dead one stays so.  What CallsSpec adds is that *)
(* the scheduler lets it take them.                                        *)
THEOREM NoCallHangs == Spec => []WaitsForCall /\ CallsRunOut
<1>1. Init => InLoop
  <2> SUFFICES ASSUME Init, NEW p \in Procs PROVE done[p] <= call[p].count
    BY DEF InLoop
  <2>1. done[p] = 0 /\ call[p] = [op |-> "none", count |-> 0]
    BY DEF Init, NoCall
  <2> QED
    BY <2>1
<1>2. IInv /\ InLoop => WaitsForCall
  <2> SUFFICES ASSUME IInv, InLoop, NEW p \in Procs, pc[p] = "check", ~(sem > 0)
               PROVE  \E q \in Procs :
                         \/ Holds(q) /\ Left(q) > 0
                         \/ pc[q] = "dead" /\ call[q].op = "readReg0"
    BY DEF WaitsForCall
  <2>1. PICK q \in Procs : Holds(q)
    BY DEF IInv, TypeOK, Balance
  <2>2. done[q] \in Nat /\ call[q].count \in Nat /\ done[q] <= call[q].count
    BY Bounds DEF IInv, TypeOK, InLoop
  <2>3. pc[q] = "dead" => call[q].op = "readReg0"
    BY DEF IInv, Balance
  <2> QED
    BY <2>1, <2>2, <2>3 DEF Holds, Left
<1>3. IInv /\ InLoop /\ [Next]_vars =>
         [\A p \in Procs : RunsOut(p)]_vars
  BY NextRunsOut
<1>4. IInv /\ InLoop /\ [Next]_vars => InLoop'
  BY NextRunsOut
<1> QED
  BY <1>1, <1>2, <1>3, <1>4, Inductive, PTL DEF Spec, CallsRunOut
=============================================================================
