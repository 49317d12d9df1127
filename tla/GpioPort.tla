------------------------------ MODULE GpioPort ------------------------------
(***************************************************************************)
(* The character device of a Fluke GPIO port (gpio-fluke.c): read, write   *)
(* and ioctl of the processes that opened one /dev/fgpioN.                 *)
(*                                                                         *)
(* A port is eight pins, a direction register and an output latch.  probe  *)
(* sets direction to 0x100, "all I/O": every read first turns the pins to  *)
(* inputs, every write first turns them to outputs, and nothing turns them *)
(* back.  A call is exclusive by a semaphore, and takes it with it if the  *)
(* kernel ends its process.  probe finds no interrupt, irq stays 0, so     *)
(* that read takes readings and never asks the queue.                      *)
(***************************************************************************)
EXTENDS Naturals

CONSTANTS
    Procs,              \* the processes that have the device open
    Levels,             \* the values of the eight pins taken together
    Requests,           \* the kinds of ioctl requests they make
    AllocMayFail,       \* whether kmalloc() may fail
    MaxCount,           \* bound: the bytes of one read or write
    MaxCalls            \* bound: the calls made

\* FGPIO_READ_REG0; those without effect while irq is 0; those turned down
\* before the semaphore is asked for; those with a known number and another
\* size or direction.
NoEffect == {"intsOff", "getIntMask", "setIntMask", "flushQueue"}
TurnedDown == {"otherType", "numberTooHigh", "badAddress"}
AllRequests == {"readReg0", "otherEncoding"} \cup NoEffect \cup TurnedDown

ASSUME PortAssumption ==
    /\ Requests \subseteq AllRequests
    /\ Levels # {}
    /\ AllocMayFail \in BOOLEAN
    /\ MaxCount \in Nat
    /\ MaxCalls \in Nat

VARIABLES
    \* the port
    outside,            \* what the pins are held at from outside
    latch,              \* the output latch
    turned,             \* the direction register: "in" or "out"
    \* the driver
    sem,                \* fgpio_port.sem
    pc,                 \* where each process is
    call,               \* its call: the operation, the byte count
    done,               \* the loop variable of its read or write
    last,               \* the byte it read or wrote last
    result,             \* what its last call returned
    calls               \* number of calls made

portVars == <<outside, latch, turned>>
vars == <<portVars, sem, pc, call, done, last, result, calls>>

Operations == {"read", "write"} \cup Requests
NoCall == [op |-> "none", count |-> 0]

Init ==
    /\ outside \in Levels
    /\ latch \in Levels
    /\ turned \in {"in", "out"}
    /\ sem = 1
    /\ pc = [p \in Procs |-> "idle"]
    /\ call = [p \in Procs |-> NoCall]
    /\ done = [p \in Procs |-> 0]
    /\ last = [p \in Procs |-> latch]
    /\ result = [p \in Procs |-> "none"]
    /\ calls = 0

Goto(p, label) == pc' = [pc EXCEPT ![p] = label]
Return(p, value) == result' = [result EXCEPT ![p] = value]

-----------------------------------------------------------------------------
\* What the pins are held at changes at any time.
Outside ==
    /\ outside' \in Levels \ {outside}
    /\ UNCHANGED <<latch, turned, sem, pc, call, done, last, result, calls>>

\* The data register reads the pins.
DataRegister == IF turned = "in" THEN outside ELSE latch

Call(p) ==
    /\ pc[p] = "idle"
    /\ calls < MaxCalls
    /\ calls' = calls + 1
    /\ \E op \in Operations, n \in 0 .. MaxCount :
          /\ op \in Requests => n = 0
          /\ call' = [call EXCEPT ![p] = [op |-> op, count |-> n]]
    /\ done' = [done EXCEPT ![p] = 0]
    /\ Return(p, "none")
    /\ Goto(p, "check")
    /\ UNCHANGED <<portVars, sem, last>>

\* hw_ioctl() turns a request down before it asks for the semaphore.
TurnDown(p) ==
    /\ pc[p] = "check"
    /\ call[p].op \in TurnedDown
    /\ Return(p, IF call[p].op = "badAddress" THEN "EFAULT" ELSE "ENOTTY")
    /\ Goto(p, "idle")
    /\ UNCHANGED <<portVars, sem, call, done, last, calls>>

DownWithoutWaiting(p) ==        \* mutant: the semaphore is not waited for
    /\ pc[p] = "check"
    /\ call[p].op \notin TurnedDown
    /\ sem' = 0
    /\ Goto(p, "enter")
    /\ UNCHANGED <<portVars, call, done, last, result, calls>>

\* down_interruptible()
Down(p) ==
    /\ pc[p] = "check"
    /\ call[p].op \notin TurnedDown
    /\ sem > 0
    /\ sem' = sem - 1
    /\ Goto(p, "enter")
    /\ UNCHANGED <<portVars, call, done, last, result, calls>>

DownInterrupted(p) ==
    /\ pc[p] = "check"
    /\ call[p].op \notin TurnedDown
    /\ sem = 0
    /\ Return(p, "ERESTARTSYS")
    /\ Goto(p, "idle")
    /\ UNCHANGED <<portVars, sem, call, done, last, calls>>

NoMemoryNoUp(p) ==              \* mutant: the semaphore is not given back
    /\ pc[p] = "enter"
    /\ call[p].op \in {"read", "write"}
    /\ AllocMayFail /\ call[p].count > 0
    /\ Return(p, "ENOMEM")
    /\ Goto(p, "idle")
    /\ UNCHANGED <<portVars, sem, call, done, last, calls>>

\* kmalloc() fails: the semaphore is given back.
NoMemory(p) ==
    /\ pc[p] = "enter"
    /\ call[p].op \in {"read", "write"}
    /\ AllocMayFail /\ call[p].count > 0
    /\ Return(p, "ENOMEM")
    /\ Goto(p, "up")
    /\ UNCHANGED <<portVars, sem, call, done, last, calls>>

-----------------------------------------------------------------------------
(* hw_read() and hw_write() *)

TurnInNot(p) ==                 \* mutant: the pins are taken as they are turned
    /\ pc[p] = "enter"
    /\ call[p].op = "read"
    /\ Goto(p, "transfer")
    /\ UNCHANGED <<portVars, sem, call, done, last, result, calls>>

\* "Try to make everything readable".
TurnIn(p) ==
    /\ pc[p] = "enter"
    /\ call[p].op = "read"
    /\ turned' = "in"
    /\ Goto(p, "transfer")
    /\ UNCHANGED <<outside, latch, sem, call, done, last, result, calls>>

TurnOutNot(p) ==                \* mutant: the pins are taken as they are turned
    /\ pc[p] = "enter"
    /\ call[p].op = "write"
    /\ Goto(p, "transfer")
    /\ UNCHANGED <<portVars, sem, call, done, last, result, calls>>

\* "Try to make everything writeable".
TurnOut(p) ==
    /\ pc[p] = "enter"
    /\ call[p].op = "write"
    /\ turned' = "out"
    /\ Goto(p, "transfer")
    /\ UNCHANGED <<outside, latch, sem, call, done, last, result, calls>>

\* copy_from_user() fails, before anything was turned.
CopyFromUserFails(p) ==
    /\ pc[p] = "enter"
    /\ call[p].op = "write" /\ call[p].count > 0
    /\ Return(p, "EFAULT")
    /\ Goto(p, "up")
    /\ UNCHANGED <<portVars, sem, call, done, last, calls>>

\* One reading of the pins.
ReadByte(p) ==
    /\ pc[p] = "transfer"
    /\ call[p].op = "read"
    /\ done[p] < call[p].count
    /\ done' = [done EXCEPT ![p] = @ + 1]
    /\ last' = [last EXCEPT ![p] = DataRegister]
    /\ UNCHANGED <<portVars, sem, pc, call, result, calls>>

\* The next byte of the user's buffer goes to the pins.
WriteByte(p) ==
    /\ pc[p] = "transfer"
    /\ call[p].op = "write"
    /\ done[p] < call[p].count
    /\ done' = [done EXCEPT ![p] = @ + 1]
    /\ latch' \in Levels
    /\ last' = [last EXCEPT ![p] = latch']
    /\ UNCHANGED <<outside, turned, sem, pc, call, result, calls>>

\* The loop is over; copy_to_user() of a read may fail.
EndTransfer(p) ==
    /\ pc[p] = "transfer"
    /\ done[p] = call[p].count
    /\ \/ Return(p, "count")
       \/ call[p].op = "read" /\ call[p].count > 0 /\ Return(p, "EFAULT")
    /\ Goto(p, "up")
    /\ UNCHANGED <<portVars, sem, call, done, last, calls>>

-----------------------------------------------------------------------------
(* The switch of hw_ioctl(). *)

\* FGPIO_READ_REG0 reads the data register as it is turned and stores the
\* value at the user's address.
ReadReg0(p) ==
    /\ pc[p] = "enter"
    /\ call[p].op = "readReg0"
    /\ last' = [last EXCEPT ![p] = DataRegister]
    /\ Return(p, "0")
    /\ Goto(p, "up")
    /\ UNCHANGED <<portVars, sem, call, done, calls>>

\* The same, but the store faults: access_ok() has looked at the range of the
\* address only, and nothing is mapped there, or nothing that may be written.
\* The kernel ends the process where it is, with the semaphore taken.
StoreFaults(p) ==
    /\ pc[p] = "enter"
    /\ call[p].op = "readReg0"
    /\ last' = [last EXCEPT ![p] = DataRegister]
    /\ Goto(p, "dead")
    /\ UNCHANGED <<portVars, sem, call, done, result, calls>>

\* The interrupt mask is left alone while irq is 0, also where a value is
\* asked for; the queue that is flushed is always empty.
NothingDone(p) ==
    /\ pc[p] = "enter"
    /\ call[p].op \in NoEffect
    /\ Return(p, "0")
    /\ Goto(p, "up")
    /\ UNCHANGED <<portVars, sem, call, done, last, calls>>

UnknownRequest(p) ==
    /\ pc[p] = "enter"
    /\ call[p].op = "otherEncoding"
    /\ Return(p, "ENOTTY")
    /\ Goto(p, "up")
    /\ UNCHANGED <<portVars, sem, call, done, last, calls>>

\* up(), and the call returns.
Up(p) ==
    /\ pc[p] = "up"
    /\ sem' = sem + 1
    /\ Goto(p, "idle")
    /\ UNCHANGED <<portVars, call, done, last, result, calls>>

Ioctl(p) == ReadReg0(p) \/ StoreFaults(p) \/ NothingDone(p) \/ UnknownRequest(p)

Inside(p) ==
    \/ NoMemory(p)
    \/ TurnIn(p)
    \/ TurnOut(p)
    \/ CopyFromUserFails(p)
    \/ ReadByte(p)
    \/ WriteByte(p)
    \/ EndTransfer(p)
    \/ Ioctl(p)
    \/ Up(p)

Next ==
    \/ Outside
    \/ \E p \in Procs :
          Call(p) \/ TurnDown(p) \/ Down(p) \/ DownInterrupted(p) \/ Inside(p)

Spec == Init /\ [][Next]_vars

(* A process that runs goes on or dies; those that wait for the semaphore  *)
(* get it in turn.  No signal need ever come and nobody need ever call.    *)
FairSpec ==
    /\ Spec
    /\ \A p \in Procs :
          SF_vars(Down(p)) /\ WF_vars(TurnDown(p)) /\ WF_vars(Inside(p))

-----------------------------------------------------------------------------
TypeOK ==
    /\ outside \in Levels /\ latch \in Levels
    /\ turned \in {"in", "out"}
    /\ sem \in 0 .. 1
    /\ pc \in [Procs -> {"idle", "check", "enter", "transfer", "up", "dead"}]
    /\ call \in [Procs -> [op : Operations \cup {"none"}, count : 0 .. MaxCount]]
    /\ done \in [Procs -> 0 .. MaxCount]
    /\ last \in [Procs -> Levels]
    /\ result \in [Procs -> {"none", "count", "0", "ENOMEM", "EFAULT",
                             "ENOTTY", "ERESTARTSYS"}]
    /\ calls \in 0 .. MaxCalls

Holds(p) == pc[p] \in {"enter", "transfer", "up", "dead"}

\* The semaphore is free, or a call in progress has it, or one that died in
\* the only place where one can: nothing else that fails keeps it.
Balance ==
    /\ sem = 1 <=> \A p \in Procs : ~Holds(p)
    /\ \A p, q \in Procs : Holds(p) /\ Holds(q) => p = q
    /\ \A p \in Procs : pc[p] = "dead" => call[p].op = "readReg0"

\* In the middle of a call the pins are turned the way the call turned them.
Direction ==
    \A p \in Procs :
        /\ pc[p] \in {"check", "enter"} => done[p] = 0
        /\ pc[p] = "transfer" =>
            /\ call[p].op \in {"read", "write"}
            /\ turned = IF call[p].op = "read" THEN "in" ELSE "out"
            /\ call[p].op = "write" /\ done[p] > 0 => latch = last[p]

(***************************************************************************)
(* At the end of a write that succeeded the pins are driven, and at the    *)
(* last byte of this write, whatever other processes ask of the port.      *)
(***************************************************************************)
WriteReachesPins ==
    \A p \in Procs :
        (/\ pc[p] = "up"
         /\ call[p].op = "write" /\ call[p].count > 0
         /\ result[p] = "count")
            => turned = "out" /\ latch = last[p]

\* The inductive invariant.
IInv == TypeOK /\ Balance /\ Direction /\ WriteReachesPins

(***************************************************************************)
(* What a read delivers is what the pins are held at from outside at that  *)
(* moment, never what some process wrote, although another write may have  *)
(* turned the port since this process last read it.                        *)
(***************************************************************************)
ReadsPins ==
    [][\A p \in Procs :
          (done'[p] > done[p] /\ call[p].op = "read") => last'[p] = outside]_vars

(***************************************************************************)
(* Calls exclude each other, and all of them return although allocations   *)
(* and copies fail: every return gives the semaphore back, unlike in the   *)
(* interval timer's driver, which has the same shape.  Only a process that *)
(* the kernel ends inside, because FGPIO_READ_REG0 stored to an address    *)
(* that is not there, keeps it; then no call gets in any more.             *)
(***************************************************************************)
Stage == [p \in Procs |-> CASE pc[p] = "idle" -> "outside"
                            [] pc[p] = "check" -> "waiting"
                            [] pc[p] = "dead" -> "dead"
                            [] OTHER -> "inside"]
Device == INSTANCE DeviceCalls WITH stage <- Stage
CallsSpec == Device!Spec
=============================================================================
