------------------------------ MODULE IntTimer ------------------------------
(***************************************************************************)
(* The character device of the Altera interval timer (altera_inttimer.c):  *)
(* what the processes that opened one /dev/alttimerN do to the timer and   *)
(* to each other.  One semaphore makes a call exclusive.  It is taken at   *)
(* the start of every call, some returns forget to give it back, and a     *)
(* process that the kernel ends in the middle of a call cannot.            *)
(***************************************************************************)
EXTENDS Naturals, Sequences, FiniteSets

CONSTANTS
    Procs,              \* the processes that have the device open
    Requests,           \* the kinds of ioctl requests they make
    AllocMayFail,       \* whether kmalloc() may fail
    MaxCount,           \* bound: the bytes of one read or write
    MaxCalls            \* bound: the calls made

\* The requests the driver knows; those it turns down before its switch: of
\* another type, with a number that is too high, with an address that is not
\* the user's; and those with a type and a number it knows but another
\* direction or size.
Known == {"readReg0", "writeFreqL", "writeFreqH"}
TurnedDown == {"otherType", "numberTooHigh", "badAddress"}
OtherEncoding == "otherEncoding"

ASSUME TimerAssumption ==
    /\ Requests \subseteq Known \cup TurnedDown \cup {OtherEncoding}
    /\ AllocMayFail \in BOOLEAN
    /\ MaxCount \in Nat
    /\ MaxCalls \in Nat

VARIABLES
    sem,                \* inttimer_port.sem
    pc,                 \* where each process is
    call,               \* its call: a number, the operation, the byte count
    done,               \* the loop variable of its read or write
    result,             \* what its last call returned
    calls,              \* number of calls made
    written,            \* the calls that wrote to the timer, write by write
    kept                \* number of calls that returned with the semaphore

vars == <<sem, pc, call, done, result, calls, written, kept>>

Operations == {"read", "write"} \cup Requests
NoCall == [id |-> 0, op |-> "none", count |-> 0]

Init ==
    /\ sem = 1
    /\ pc = [p \in Procs |-> "idle"]
    /\ call = [p \in Procs |-> NoCall]
    /\ done = [p \in Procs |-> 0]
    /\ result = [p \in Procs |-> "none"]
    /\ calls = 0
    /\ written = <<>>
    /\ kept = 0

Goto(p, label) == pc' = [pc EXCEPT ![p] = label]
Return(p, value) == result' = [result EXCEPT ![p] = value]

-----------------------------------------------------------------------------
\* A system call on the device.  An ioctl moves no counted bytes, and nothing
\* can fail for want of memory or a good address when none are moved.
Call(p) ==
    /\ pc[p] = "idle"
    /\ calls < MaxCalls
    /\ calls' = calls + 1
    /\ \E op \in Operations, n \in 0 .. MaxCount :
          /\ op \in Requests => n = 0
          /\ call' = [call EXCEPT ![p] = [id |-> calls + 1, op |-> op, count |-> n]]
    /\ done' = [done EXCEPT ![p] = 0]
    /\ Return(p, "none")
    /\ Goto(p, "down")
    /\ UNCHANGED <<sem, written, kept>>

DownWithoutWaiting(p) ==        \* mutant: the semaphore is not waited for
    /\ pc[p] = "down"
    /\ sem' = 0
    /\ Goto(p, "enter")
    /\ UNCHANGED <<call, done, result, calls, written, kept>>

\* down() and down_interruptible(): the semaphore is had.
Down(p) ==
    /\ pc[p] = "down"
    /\ sem > 0
    /\ sem' = sem - 1
    /\ Goto(p, "enter")
    /\ UNCHANGED <<call, done, result, calls, written, kept>>

\* down_interruptible(): a signal ends the wait.  hw_ioctl() uses down(),
\* which nothing ends.
DownInterrupted(p) ==
    /\ pc[p] = "down"
    /\ sem = 0
    /\ call[p].op \in {"read", "write"}
    /\ Return(p, "ERESTARTSYS")
    /\ Goto(p, "idle")
    /\ UNCHANGED <<sem, call, done, calls, written, kept>>

-----------------------------------------------------------------------------
(* hw_read() and hw_write() *)

NoMemoryAndUp(p) ==             \* mutant: the semaphore is given back
    /\ pc[p] = "enter"
    /\ call[p].op \in {"read", "write"}
    /\ AllocMayFail /\ call[p].count > 0
    /\ Return(p, "ENOMEM")
    /\ Goto(p, "idle")
    /\ sem' = sem + 1
    /\ kept' = kept + 1
    /\ UNCHANGED <<call, done, calls, written>>

\* kmalloc() fails: the call returns, without up().
NoMemory(p) ==
    /\ pc[p] = "enter"
    /\ call[p].op \in {"read", "write"}
    /\ AllocMayFail /\ call[p].count > 0
    /\ Return(p, "ENOMEM")
    /\ Goto(p, "idle")
    /\ kept' = kept + 1
    /\ UNCHANGED <<sem, call, done, calls, written>>

\* hw_read() goes to the timer at once, hw_write() when it has the bytes.
StartTransfer(p) ==
    /\ pc[p] = "enter"
    /\ call[p].op \in {"read", "write"}
    /\ Goto(p, "transfer")
    /\ UNCHANGED <<sem, call, done, result, calls, written, kept>>

\* copy_from_user() fails.
CopyFromUserFails(p) ==
    /\ pc[p] = "enter"
    /\ call[p].op = "write" /\ call[p].count > 0
    /\ Return(p, "EFAULT")
    /\ Goto(p, "up")
    /\ UNCHANGED <<sem, call, done, calls, written, kept>>

\* One register access of the loop.
TransferByte(p) ==
    /\ pc[p] = "transfer"
    /\ done[p] < call[p].count
    /\ done' = [done EXCEPT ![p] = @ + 1]
    /\ written' = IF call[p].op = "write" THEN Append(written, call[p].id)
                                          ELSE written
    /\ UNCHANGED <<sem, pc, call, result, calls, kept>>

EndTransferEarly(p) ==          \* mutant: the loop leaves out a byte
    /\ pc[p] = "transfer"
    /\ done[p] + 1 >= call[p].count
    /\ \/ Return(p, "count")
       \/ call[p].op = "read" /\ call[p].count > 0 /\ Return(p, "EFAULT")
    /\ Goto(p, "up")
    /\ UNCHANGED <<sem, call, done, calls, written, kept>>

\* The loop is over; copy_to_user() of a read may fail.
EndTransfer(p) ==
    /\ pc[p] = "transfer"
    /\ done[p] >= call[p].count
    /\ \/ Return(p, "count")
       \/ call[p].op = "read" /\ call[p].count > 0 /\ Return(p, "EFAULT")
    /\ Goto(p, "up")
    /\ UNCHANGED <<sem, call, done, calls, written, kept>>

-----------------------------------------------------------------------------
(* hw_ioctl() *)

\* The checks before the switch: the call returns, without up().
TurnDown(p) ==
    /\ pc[p] = "enter"
    /\ call[p].op \in TurnedDown
    /\ Return(p, IF call[p].op = "badAddress" THEN "EFAULT" ELSE "ENOTTY")
    /\ Goto(p, "idle")
    /\ kept' = kept + 1
    /\ UNCHANGED <<sem, call, done, calls, written>>

\* The cases of the switch: a register is read, and stored at the user's
\* address, or written.
KnownRequest(p) ==
    /\ pc[p] = "enter"
    /\ call[p].op \in Known
    /\ written' = IF call[p].op = "readReg0" THEN written
                                             ELSE Append(written, call[p].id)
    /\ Return(p, "0")
    /\ Goto(p, "up")
    /\ UNCHANGED <<sem, call, done, calls, kept>>

\* INTTIMER_READ_REG0 faults: access_ok() has looked at the range of the
\* address only, and nothing is mapped there, or nothing that may be written.
\* The kernel ends the process where it is, with the semaphore taken.
StoreFaults(p) ==
    /\ pc[p] = "enter"
    /\ call[p].op = "readReg0"
    /\ Goto(p, "dead")
    /\ UNCHANGED <<sem, call, done, result, calls, written, kept>>

\* The default of the switch.
UnknownRequest(p) ==
    /\ pc[p] = "enter"
    /\ call[p].op = OtherEncoding
    /\ Return(p, "ENOTTY")
    /\ Goto(p, "up")
    /\ UNCHANGED <<sem, call, done, calls, written, kept>>

UpForgotten(p) ==               \* mutant: a call that succeeds keeps the semaphore
    /\ pc[p] = "up"
    /\ Goto(p, "idle")
    /\ UNCHANGED <<sem, call, done, result, calls, written, kept>>

\* up(), and the call returns.
Up(p) ==
    /\ pc[p] = "up"
    /\ sem' = sem + 1
    /\ Goto(p, "idle")
    /\ UNCHANGED <<call, done, result, calls, written, kept>>

Inside(p) ==
    \/ NoMemory(p)
    \/ StartTransfer(p)
    \/ CopyFromUserFails(p)
    \/ TransferByte(p)
    \/ EndTransfer(p)
    \/ TurnDown(p)
    \/ KnownRequest(p)
    \/ StoreFaults(p)
    \/ UnknownRequest(p)
    \/ Up(p)

Next == \E p \in Procs : Call(p) \/ Down(p) \/ DownInterrupted(p) \/ Inside(p)

Spec == Init /\ [][Next]_vars

(* Whoever has the semaphore goes on or dies, and those that wait for it   *)
(* get it in turn.  No signal need ever come.                              *)
FairSpec ==
    /\ Spec
    /\ \A p \in Procs : SF_vars(Down(p)) /\ WF_vars(Inside(p))

-----------------------------------------------------------------------------
\* The numbers the calls got, and no other, appear in the writes.
Numbering ==
    /\ \A p \in Procs : call[p].id <= calls /\ (pc[p] # "idle" => call[p].id > 0)
    /\ \A p, q \in Procs : call[p].id = call[q].id => p = q \/ call[p].id = 0
    /\ \A i \in DOMAIN written : written[i] <= calls

TypeOK ==
    /\ sem \in 0 .. 1
    /\ pc \in [Procs -> {"idle", "down", "enter", "transfer", "up", "dead"}]
    /\ call \in [Procs -> [id : 0 .. MaxCalls,
                           op : Operations \cup {"none"},
                           count : 0 .. MaxCount]]
    /\ done \in [Procs -> 0 .. MaxCount]
    /\ result \in [Procs -> {"none", "count", "0", "ENOMEM", "EFAULT",
                             "ENOTTY", "ERESTARTSYS"}]
    /\ calls \in 0 .. MaxCalls
    /\ written \in Seq(1 .. MaxCalls)
    /\ kept \in 0 .. 1

Holds(p) == pc[p] \in {"enter", "transfer", "up", "dead"}

(***************************************************************************)
(* The semaphore has one owner: nobody, a call in progress, a call that    *)
(* died, or a call that returned without giving it back.  One of the last  *)
(* two happens at most once in the life of the device, and only the        *)
(* request that stores at the user's address can die.                      *)
(***************************************************************************)
Balance ==
    /\ sem = 1 <=> kept = 0 /\ \A p \in Procs : ~Holds(p)
    /\ kept = 1 => \A p \in Procs : ~Holds(p)
    /\ \A p, q \in Procs : Holds(p) /\ Holds(q) => p = q
    /\ \A p \in Procs : pc[p] = "dead" => call[p].op = "readReg0"

\* A call that is still to write has written nothing, and one that writes
\* is the last that wrote.
Writing ==
    \A p \in Procs :
        /\ pc[p] \in {"down", "enter"} =>
              \A i \in DOMAIN written : written[i] # call[p].id
        /\ pc[p] = "transfer" =>
              \A i, j \in DOMAIN written :
                  i < j /\ written[i] = call[p].id => written[j] = call[p].id

\* The inductive invariant.
IInv == TypeOK /\ Balance /\ Numbering /\ Writing

(***************************************************************************)
(* What a call writes to the timer is not mixed with what others write.    *)
(***************************************************************************)
Contiguous ==
    \A i, j, k \in DOMAIN written :
        i < j /\ j < k /\ written[i] = written[k] => written[j] = written[i]

(***************************************************************************)
(* A write that has returned wrote as many bytes as it said it did, or     *)
(* failed and wrote none.                                                  *)
(***************************************************************************)
WrittenBy(n) == {i \in DOMAIN written : written[i] = n}
WroteWhatItSaid ==
    \A p \in Procs :
        pc[p] = "idle" /\ call[p].op = "write"
            => Cardinality(WrittenBy(call[p].id))
                  = IF result[p] = "count" THEN call[p].count ELSE 0

(***************************************************************************)
(* Once a call has returned, or died, with the semaphore the device is     *)
(* lost: the timer is never written again, and a call ends only by a       *)
(* signal, an ioctl not at all.                                            *)
(***************************************************************************)
Lost == kept = 1 \/ \E p \in Procs : pc[p] = "dead"
LostForGood ==
    [][Lost => /\ Lost' /\ written' = written
               /\ \A p \in Procs :
                     pc[p] = "down" =>
                        \/ pc'[p] = "down"
                        \/ /\ call[p].op \in {"read", "write"}
                           /\ pc'[p] = "idle" /\ result'[p] = "ERESTARTSYS"]_vars

(***************************************************************************)
(* The calls are those of a device that lets one call in at a time, the    *)
(* lost device included: a call that kept the semaphore is out again, one  *)
(* that died stays where it is.                                            *)
(***************************************************************************)
Stage == [p \in Procs |-> CASE pc[p] = "idle" -> "outside"
                            [] pc[p] = "down" -> "waiting"
                            [] pc[p] = "dead" -> "dead"
                            [] OTHER -> "inside"]
Device == INSTANCE DeviceCalls WITH stage <- Stage
CallsExclude == Device!Safety

(***************************************************************************)
(* Every call returns, until one of them has kept the semaphore or has     *)
(* died with it.                                                           *)
(***************************************************************************)
CallsReturn ==
    \A p \in Procs : pc[p] # "idle" ~> pc[p] = "idle" \/ Lost
=============================================================================
