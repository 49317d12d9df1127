--------------------------- MODULE IntTimerProofs ---------------------------
(***************************************************************************)
(* Theorems about the interval timer's device, for any number of processes *)
(* and calls.                                                              *)
(***************************************************************************)
EXTENDS IntTimer, SequenceTheorems, FiniteSetTheorems, TLAPS

LEMMA Bounds == MaxCount \in Nat /\ MaxCalls \in Nat
  BY TimerAssumption DEF TimerAssumption

LEMMA InitInv == Init => IInv
<1> SUFFICES ASSUME Init PROVE IInv
  OBVIOUS
<1> USE Bounds DEF Init
<1>1. TypeOK
  BY DEF TypeOK, NoCall
<1>2. Balance
  BY DEF Balance, Holds
<1>3. Numbering /\ Writing
  BY DEF Numbering, Writing, NoCall
<1> QED
  BY <1>1, <1>2, <1>3 DEF IInv

LEMMA NextTypeOK == IInv /\ [Next]_vars => TypeOK'
<1> SUFFICES ASSUME IInv, [Next]_vars PROVE TypeOK'
  OBVIOUS
<1> USE Bounds DEF IInv, TypeOK, Goto, Return
<1>1. ASSUME NEW p \in Procs, Call(p) PROVE TypeOK'
  <2>1. PICK op \in Operations, n \in 0 .. MaxCount :
          call' = [call EXCEPT ![p] = [id |-> calls + 1, op |-> op, count |-> n]]
    BY <1>1 DEF Call
  <2>2. calls + 1 \in 0 .. MaxCalls
    BY <1>1 DEF Call
  <2>3. call' \in [Procs -> [id : 0 .. MaxCalls, op : Operations \cup {"none"},
                             count : 0 .. MaxCount]]
    BY <2>1, <2>2
  <2> QED
    BY <1>1, <2>2, <2>3 DEF Call
<1>2. ASSUME NEW p \in Procs, Down(p) \/ DownInterrupted(p) PROVE TypeOK'
  <2>1. CASE Down(p)
    <3>1. sem - 1 \in 0 .. 1
      BY <2>1 DEF Down
    <3> QED
      BY <2>1, <3>1 DEF Down
  <2>2. CASE DownInterrupted(p)
    BY <2>2 DEF DownInterrupted
  <2> QED
    BY <1>2, <2>1, <2>2
<1>3. ASSUME NEW p \in Procs, NoMemory(p) \/ TurnDown(p) PROVE TypeOK'
  <2>1. kept = 0
    BY <1>3 DEF NoMemory, TurnDown, Balance, Holds
  <2>2. kept + 1 \in 0 .. 1
    BY <2>1
  <2>3. CASE NoMemory(p)
    BY <2>2, <2>3 DEF NoMemory
  <2>4. CASE TurnDown(p)
    BY <2>2, <2>4 DEF TurnDown
  <2> QED
    BY <1>3, <2>3, <2>4
<1>4. ASSUME NEW p \in Procs,
             StartTransfer(p) \/ CopyFromUserFails(p) \/ EndTransfer(p)
             \/ StoreFaults(p) \/ UnknownRequest(p)
      PROVE  TypeOK'
  BY <1>4 DEF StartTransfer, CopyFromUserFails, EndTransfer, StoreFaults,
              UnknownRequest
<1>5. ASSUME NEW p \in Procs, TransferByte(p) \/ KnownRequest(p) PROVE TypeOK'
  <2>1. call[p].id \in 1 .. MaxCalls
    <3>1. pc[p] # "idle"
      BY <1>5 DEF TransferByte, KnownRequest
    <3>2. call[p].id <= calls /\ call[p].id > 0
      BY <3>1 DEF Numbering
    <3>3. call[p].id \in Nat
      OBVIOUS
    <3> QED
      BY <3>2, <3>3
  <2>2. Append(written, call[p].id) \in Seq(1 .. MaxCalls)
    BY <2>1, AppendProperties
  <2>3. written' \in Seq(1 .. MaxCalls)
    BY <1>5, <2>2 DEF TransferByte, KnownRequest
  <2>4. done' \in [Procs -> 0 .. MaxCount]
    <3>1. call[p].count \in 0 .. MaxCount /\ done[p] \in 0 .. MaxCount
      OBVIOUS
    <3>2. CASE TransferByte(p)
      <4>1. done[p] + 1 \in 0 .. MaxCount
        BY <3>1, <3>2 DEF TransferByte
      <4> QED
        BY <3>2, <4>1 DEF TransferByte
    <3>3. CASE KnownRequest(p)
      BY <3>3 DEF KnownRequest
    <3> QED
      BY <1>5, <3>2, <3>3
  <2> QED
    BY <1>5, <2>3, <2>4 DEF TransferByte, KnownRequest
<1>6. ASSUME NEW p \in Procs, Up(p) PROVE TypeOK'
  <2>1. sem = 0
    BY <1>6 DEF Up, Balance, Holds
  <2> QED
    BY <1>6, <2>1 DEF Up
<1>7. CASE UNCHANGED vars
  BY <1>7 DEF vars
<1> QED
  BY <1>1, <1>2, <1>3, <1>4, <1>5, <1>6, <1>7 DEF Next, Inside

(* Down takes the semaphore from nobody; Up, the returns that forget it    *)
(* and the store that faults are of the call that has it.                  *)
LEMMA NextBalance == IInv /\ [Next]_vars => Balance'
<1> SUFFICES ASSUME IInv, [Next]_vars PROVE Balance'
  OBVIOUS
<1>a. Balance /\ sem \in 0 .. 1 /\ kept \in 0 .. 1 /\ DOMAIN call = Procs
      /\ pc \in [Procs -> {"idle", "down", "enter", "transfer", "up", "dead"}]
  BY DEF IInv, TypeOK
<1>1. ASSUME NEW p \in Procs, Call(p) \/ DownInterrupted(p) PROVE Balance'
  <2>1. /\ sem' = sem /\ kept' = kept
        /\ pc[p] \in {"idle", "down"}
        /\ \A q \in Procs : pc'[q] = IF q = p THEN pc'[p] ELSE pc[q]
        /\ pc'[p] \in {"idle", "down"}
        /\ \A q \in Procs : q # p => call'[q] = call[q]
    BY <1>1, <1>a DEF Call, DownInterrupted, Goto
  <2> QED
    BY <1>a, <2>1 DEF Balance, Holds
<1>2. ASSUME NEW p \in Procs, Down(p) PROVE Balance'
  <2>1. /\ sem = 1 /\ sem' = 0 /\ kept' = kept /\ call' = call
        /\ \A q \in Procs : pc'[q] = IF q = p THEN "enter" ELSE pc[q]
    BY <1>2, <1>a DEF Down, Goto
  <2> QED
    BY <1>a, <2>1 DEF Balance, Holds
<1>3. ASSUME NEW p \in Procs, NoMemory(p) \/ TurnDown(p) PROVE Balance'
  <2>1. /\ sem' = sem /\ kept' = kept + 1 /\ pc[p] = "enter" /\ call' = call
        /\ \A q \in Procs : pc'[q] = IF q = p THEN "idle" ELSE pc[q]
    BY <1>3, <1>a DEF NoMemory, TurnDown, Goto
  <2> QED
    BY <1>a, <2>1 DEF Balance, Holds
<1>4. ASSUME NEW p \in Procs,
             StartTransfer(p) \/ CopyFromUserFails(p) \/ TransferByte(p)
             \/ EndTransfer(p) \/ KnownRequest(p) \/ StoreFaults(p)
             \/ UnknownRequest(p)
      PROVE  Balance'
  <2>1. /\ sem' = sem /\ kept' = kept /\ call' = call
        /\ pc[p] \in {"enter", "transfer"}
        /\ \A q \in Procs : pc'[q] = IF q = p THEN pc'[p] ELSE pc[q]
        /\ \/ pc'[p] \in {"transfer", "up"}
           \/ pc'[p] = "dead" /\ call[p].op = "readReg0"
    BY <1>4, <1>a DEF StartTransfer, CopyFromUserFails, TransferByte, EndTransfer,
                      KnownRequest, StoreFaults, UnknownRequest, Goto
  <2> QED
    BY <1>a, <2>1 DEF Balance, Holds
<1>5. ASSUME NEW p \in Procs, Up(p) PROVE Balance'
  <2>1. /\ sem' = sem + 1 /\ kept' = kept /\ pc[p] = "up" /\ call' = call
        /\ \A q \in Procs : pc'[q] = IF q = p THEN "idle" ELSE pc[q]
    BY <1>5, <1>a DEF Up, Goto
  <2> QED
    BY <1>a, <2>1 DEF Balance, Holds
<1>6. CASE UNCHANGED vars
  BY <1>a, <1>6 DEF vars, Balance, Holds
<1> QED
  BY <1>1, <1>2, <1>3, <1>4, <1>5, <1>6 DEF Next, Inside

\* A step of p, other than a call, that writes to the timer or not.
Quiet(p) ==
    /\ call' = call /\ calls' = calls /\ written' = written
    /\ \A q \in Procs : q # p => pc'[q] = pc[q]
    /\ <<pc[p], pc'[p]>> \in
          {<<"down", "enter">>, <<"down", "idle">>, <<"enter", "idle">>,
           <<"enter", "transfer">>, <<"enter", "up">>, <<"enter", "dead">>,
           <<"transfer", "up">>, <<"transfer", "transfer">>, <<"up", "idle">>}
Writes(p) ==
    /\ call' = call /\ calls' = calls
    /\ written' = Append(written, call[p].id)
    /\ \A q \in Procs : q # p => pc'[q] = pc[q]
    /\ <<pc[p], pc'[p]>> \in
          {<<"enter", "up">>, <<"transfer", "transfer">>}

LEMMA KindsOfStep ==
    ASSUME IInv, NEW p \in Procs, Down(p) \/ DownInterrupted(p) \/ Inside(p)
    PROVE  Quiet(p) \/ Writes(p)
<1>a. pc \in [Procs -> {"idle", "down", "enter", "transfer", "up", "dead"}]
  BY DEF IInv, TypeOK
<1>1. CASE Down(p) \/ DownInterrupted(p)
  BY <1>a, <1>1 DEF Down, DownInterrupted, Goto, Quiet
<1>2. CASE NoMemory(p) \/ TurnDown(p) \/ Up(p)
  BY <1>a, <1>2 DEF NoMemory, TurnDown, Up, Goto, Quiet
<1>3. CASE StartTransfer(p) \/ CopyFromUserFails(p) \/ EndTransfer(p)
           \/ StoreFaults(p) \/ UnknownRequest(p)
  BY <1>a, <1>3 DEF StartTransfer, CopyFromUserFails, EndTransfer, StoreFaults,
                    UnknownRequest, Goto, Quiet
<1>4. CASE TransferByte(p)
  BY <1>a, <1>4 DEF TransferByte, Quiet, Writes
<1>5. CASE KnownRequest(p)
  BY <1>a, <1>5 DEF KnownRequest, Goto, Quiet, Writes
<1> QED
  BY <1>1, <1>2, <1>3, <1>4, <1>5 DEF Inside

\* A call is made: p gets a number nobody had.
Calls(p) ==
    /\ calls' = calls + 1 /\ written' = written
    /\ call'[p].id = calls + 1
    /\ pc[p] = "idle" /\ pc'[p] = "down"
    /\ \A q \in Procs : q # p => pc'[q] = pc[q] /\ call'[q] = call[q]

LEMMA CallStep ==
    ASSUME IInv, NEW p \in Procs, Call(p)
    PROVE  Calls(p)
<1>1. PICK op \in Operations, n \in 0 .. MaxCount :
        call' = [call EXCEPT ![p] = [id |-> calls + 1, op |-> op, count |-> n]]
  BY DEF Call
<1>2. call'[p].id = calls + 1 /\ \A q \in Procs : q # p => call'[q] = call[q]
  BY <1>1 DEF IInv, TypeOK
<1>3. /\ pc'[p] = "down" /\ \A q \in Procs : q # p => pc'[q] = pc[q]
      /\ calls' = calls + 1 /\ written' = written /\ pc[p] = "idle"
  BY DEF Call, Goto, IInv, TypeOK
<1> QED
  BY <1>2, <1>3 DEF Calls

LEMMA NextNumbering == IInv /\ [Next]_vars => Numbering'
<1> SUFFICES ASSUME IInv, [Next]_vars PROVE Numbering'
  OBVIOUS
<1>a. /\ Numbering /\ calls \in Nat /\ written \in Seq(1 .. MaxCalls)
      /\ \A i \in DOMAIN written : written[i] \in Nat
      /\ \A p \in Procs : call[p].id \in Nat
  BY Bounds, LenProperties DEF IInv, TypeOK
<1>1. ASSUME NEW p \in Procs, Calls(p) PROVE Numbering'
  <2>1. \A q \in Procs : call'[q].id <= calls' /\ (pc'[q] # "idle" => call'[q].id > 0)
    BY <1>a, <1>1 DEF Calls, Numbering
  <2>2. ASSUME NEW q \in Procs, NEW r \in Procs, call'[q].id = call'[r].id
        PROVE  q = r \/ call'[q].id = 0
    <3>1. \A o \in Procs : o # p => call'[o].id < call'[p].id /\ call'[o] = call[o]
      BY <1>a, <1>1 DEF Calls, Numbering
    <3>2. CASE q # p /\ r # p
      BY <1>a, <2>2, <3>1, <3>2 DEF Numbering
    <3>3. CASE q = p \/ r = p
      <4>1. \A o \in Procs : o # p => call'[o].id # call'[p].id
        <5> SUFFICES ASSUME NEW o \in Procs, o # p PROVE call'[o].id # call'[p].id
          OBVIOUS
        <5>1. call'[o].id = call[o].id /\ call[o].id <= calls /\ call'[p].id = calls + 1
          BY <1>a, <1>1, <3>1 DEF Calls, Numbering
        <5> QED
          BY <1>a, <5>1
      <4> QED
        BY <2>2, <3>3, <4>1
    <3> QED
      BY <3>2, <3>3
  <2>3. \A i \in DOMAIN written' : written'[i] <= calls'
    BY <1>a, <1>1 DEF Calls, Numbering
  <2> QED
    BY <2>1, <2>2, <2>3 DEF Numbering
<1>2. ASSUME NEW p \in Procs, Quiet(p) PROVE Numbering'
  BY <1>a, <1>2 DEF Quiet, Numbering
<1>3. ASSUME NEW p \in Procs, Writes(p) PROVE Numbering'
  <2>1. pc[p] # "idle" /\ call[p].id \in 1 .. MaxCalls /\ call[p].id <= calls
    BY <1>a, <1>3, Bounds DEF Writes, Numbering, IInv, TypeOK
  <2>2. /\ DOMAIN written' = 1 .. Len(written) + 1 /\ Len(written) \in Nat
        /\ DOMAIN written = 1 .. Len(written)
        /\ \A i \in 1 .. Len(written) : written'[i] = written[i]
        /\ written'[Len(written) + 1] = call[p].id
    BY <1>a, <1>3, <2>1, AppendProperties, LenProperties DEF Writes
  <2>3. \A i \in DOMAIN written' : written'[i] <= calls
    BY <1>a, <2>1, <2>2 DEF Numbering
  <2> QED
    BY <1>a, <1>3, <2>3 DEF Writes, Numbering
<1>4. CASE UNCHANGED vars
  BY <1>a, <1>4 DEF vars, Numbering
<1> QED
  BY <1>1, <1>2, <1>3, <1>4, KindsOfStep, CallStep DEF Next

LEMMA NextWriting == IInv /\ [Next]_vars => Writing'
<1> SUFFICES ASSUME IInv, [Next]_vars PROVE Writing'
  OBVIOUS
<1>a. /\ Writing /\ Numbering /\ calls \in Nat
      /\ written \in Seq(1 .. MaxCalls) /\ DOMAIN written = 1 .. Len(written)
      /\ Len(written) \in Nat
      /\ \A i \in DOMAIN written : written[i] \in Nat
      /\ \A p \in Procs : call[p].id \in Nat
      /\ pc \in [Procs -> {"idle", "down", "enter", "transfer", "up", "dead"}]
  BY Bounds, LenProperties DEF IInv, TypeOK
<1>1. ASSUME NEW p \in Procs, Calls(p) PROVE Writing'
  BY <1>a, <1>1 DEF Calls, Numbering, Writing
<1>2. ASSUME NEW p \in Procs, Quiet(p) PROVE Writing'
  BY <1>a, <1>2 DEF Quiet, Writing
<1>3. ASSUME NEW p \in Procs, Writes(p) PROVE Writing'
  <2>1. Holds(p) /\ pc[p] # "idle" /\ call[p].id \in 1 .. MaxCalls
    BY <1>a, <1>3, Bounds DEF Writes, Holds, Numbering, IInv, TypeOK
  <2>2. /\ DOMAIN written' = 1 .. Len(written) + 1
        /\ \A i \in 1 .. Len(written) : written'[i] = written[i]
        /\ written'[Len(written) + 1] = call[p].id
    BY <1>a, <1>3, <2>1, AppendProperties, LenProperties DEF Writes
  <2>3. \A q \in Procs : q # p => pc'[q] # "transfer" /\ pc'[q] # "enter"
    BY <1>a, <1>3, <2>1 DEF Writes, Holds, Balance, IInv
  <2>4. ASSUME NEW q \in Procs, pc'[q] \in {"down", "enter"},
               NEW i \in DOMAIN written'
        PROVE  written'[i] # call'[q].id
    <3>1. q # p /\ pc[q] = "down" /\ call' = call
      BY <1>3, <2>3, <2>4 DEF Writes
    <3>2. call[q].id # call[p].id
      BY <1>a, <2>1, <3>1 DEF Numbering
    <3>3. \A j \in DOMAIN written : written[j] # call[q].id
      BY <1>a, <3>1 DEF Writing
    <3> QED
      BY <1>a, <2>2, <3>1, <3>2, <3>3
  <2>5. ASSUME NEW q \in Procs, pc'[q] = "transfer",
               NEW i \in DOMAIN written', NEW j \in DOMAIN written',
               i < j, written'[i] = call'[q].id
        PROVE  written'[j] = call'[q].id
    <3>1. q = p /\ call' = call /\ pc[p] = "transfer"
      BY <1>3, <2>3, <2>5 DEF Writes
    <3>2. CASE j = Len(written) + 1
      BY <2>2, <3>1, <3>2
    <3>3. CASE j \in DOMAIN written
      <4>1. i \in DOMAIN written
        BY <1>a, <2>2, <2>5, <3>3
      <4> QED
        BY <1>a, <2>2, <2>5, <3>1, <3>3, <4>1 DEF Writing
    <3> QED
      BY <1>a, <2>2, <3>2, <3>3
  <2> QED
    BY <2>4, <2>5 DEF Writing
<1>4. CASE UNCHANGED vars
  BY <1>a, <1>4 DEF vars, Writing
<1> QED
  BY <1>1, <1>2, <1>3, <1>4, KindsOfStep, CallStep DEF Next

LEMMA NextInv == IInv /\ [Next]_vars => IInv'
  BY NextTypeOK, NextBalance, NextNumbering, NextWriting DEF IInv

(* The semaphore has one owner at most: a call in progress, one that died  *)
(* storing at its user's address, or one that returned with it.            *)
THEOREM Inductive == Spec => []IInv
  BY InitInv, NextInv, PTL DEF Spec

LEMMA NextContiguous == IInv /\ Contiguous /\ [Next]_vars => Contiguous'
<1> SUFFICES ASSUME IInv, Contiguous, [Next]_vars PROVE Contiguous'
  OBVIOUS
<1>a. /\ written \in Seq(1 .. MaxCalls) /\ DOMAIN written = 1 .. Len(written)
      /\ Len(written) \in Nat
  BY LenProperties DEF IInv, TypeOK
<1>1. CASE written' = written
  BY <1>1 DEF Contiguous
<1>2. ASSUME NEW p \in Procs, Writes(p) PROVE Contiguous'
  <2>1. call[p].id \in 1 .. MaxCalls
    <3>1. pc[p] # "idle" /\ call[p].id \in 0 .. MaxCalls
      BY <1>2 DEF Writes, IInv, TypeOK
    <3> QED
      BY <3>1, Bounds DEF Numbering, IInv
  <2>2. /\ DOMAIN written' = 1 .. Len(written) + 1
        /\ \A i \in 1 .. Len(written) : written'[i] = written[i]
        /\ written'[Len(written) + 1] = call[p].id
    BY <1>a, <1>2, <2>1, AppendProperties, LenProperties DEF Writes
  <2>3. SUFFICES ASSUME NEW i \in DOMAIN written', NEW j \in DOMAIN written',
                        NEW k \in DOMAIN written', i < j, j < k,
                        written'[i] = written'[k]
                 PROVE  written'[j] = written'[i]
    BY DEF Contiguous
  <2>4. i \in DOMAIN written /\ j \in DOMAIN written
    BY <1>a, <2>2, <2>3
  <2>5. CASE k \in DOMAIN written
    BY <1>a, <2>2, <2>3, <2>4, <2>5 DEF Contiguous
  <2>6. CASE k = Len(written) + 1
    <3>1. written[i] = call[p].id
      BY <1>a, <2>2, <2>3, <2>4, <2>6
    <3>2. pc[p] = "transfer"
      BY <1>2, <2>4, <3>1 DEF Writes, IInv, Writing
    <3>3. written[j] = call[p].id
      BY <2>3, <2>4, <3>1, <3>2 DEF IInv, Writing
    <3> QED
      BY <1>a, <2>2, <2>4, <3>1, <3>3
  <2> QED
    BY <1>a, <2>2, <2>5, <2>6
<1>3. CASE \E p \in Procs : Call(p)
  BY <1>1, <1>3 DEF Call
<1>4. CASE UNCHANGED vars
  BY <1>1, <1>4 DEF vars
<1>5. ASSUME NEW p \in Procs, Quiet(p) PROVE Contiguous'
  BY <1>1, <1>5 DEF Quiet
<1> QED
  BY <1>2, <1>3, <1>4, <1>5, KindsOfStep DEF Next

(* However many processes use the timer, the bytes of one write reach it   *)
(* without anybody else's between them.                                    *)
THEOREM WritesAreNotMixed == Spec => []Contiguous
<1>1. Init => Contiguous
  BY DEF Init, Contiguous
<1> QED
  BY <1>1, NextContiguous, Inductive, PTL DEF Spec

\* The step of a lost device.
StaysLost ==
    /\ Lost' /\ written' = written
    /\ \A p \in Procs :
          pc[p] = "down" =>
             \/ pc'[p] = "down"
             \/ /\ call[p].op \in {"read", "write"}
                /\ pc'[p] = "idle" /\ result'[p] = "ERESTARTSYS"

LEMMA NobodyInside ==
    ASSUME IInv, Lost, NEW p \in Procs
    PROVE  sem = 0 /\ pc[p] \in {"idle", "down", "dead"}
  BY DEF IInv, TypeOK, Balance, Lost, Holds

LEMMA NextLost == IInv /\ Lost /\ [Next]_vars => StaysLost
<1> SUFFICES ASSUME IInv, Lost, [Next]_vars PROVE StaysLost
  OBVIOUS
<1>a. DOMAIN pc = Procs /\ DOMAIN result = Procs
  BY DEF IInv, TypeOK
<1>1. ASSUME NEW p \in Procs PROVE ~Down(p) /\ ~Inside(p)
  BY NobodyInside DEF Down, Inside, NoMemory, StartTransfer, CopyFromUserFails,
     TransferByte, EndTransfer, TurnDown, KnownRequest, StoreFaults,
     UnknownRequest, Up
<1>2. ASSUME NEW p \in Procs, Call(p) PROVE StaysLost
  BY <1>a, <1>2 DEF Call, Goto, Lost, StaysLost
<1>3. ASSUME NEW p \in Procs, DownInterrupted(p) PROVE StaysLost
  BY <1>a, <1>3 DEF DownInterrupted, Goto, Return, Lost, StaysLost
<1>4. CASE UNCHANGED vars
  BY <1>4 DEF vars, Lost, StaysLost
<1> QED
  BY <1>1, <1>2, <1>3, <1>4 DEF Next

(* When a call has kept the semaphore, or has died with it, no step gives  *)
(* it back: from then on nothing is written and only a signal ends a call, *)
(* a read or a write.                                                      *)
THEOREM KeptIsLost == Spec => LostForGood
<1>1. IInv /\ [Next]_vars => [Lost => StaysLost]_vars
  BY NextLost
<1>2. Spec => [][Lost => StaysLost]_vars
  BY <1>1, Inductive, PTL DEF Spec
<1> QED
  BY <1>2 DEF LostForGood, StaysLost

-----------------------------------------------------------------------------
(* How many writes are whose: as many as the loop has made, then as many   *)
(* as the call says, and none of a call that has yet to write or failed.   *)

Share(p) ==
    CASE pc[p] \in {"down", "enter"} -> 0
      [] pc[p] = "transfer" -> done[p]
      [] OTHER -> IF result[p] = "count" THEN call[p].count ELSE 0

Sharing(p) ==
    /\ Cardinality(WrittenBy(call[p].id)) = Share(p)
    /\ pc[p] \in {"down", "enter"} => done[p] = 0
    /\ pc[p] \in {"down", "enter", "transfer"} => done[p] <= call[p].count

Shares == \A p \in Procs : call[p].op = "write" => Sharing(p)

LEMMA WrittenByIsFinite ==
    ASSUME IInv, NEW n
    PROVE  /\ IsFiniteSet(WrittenBy(n)) /\ WrittenBy(n) \subseteq DOMAIN written
           /\ Cardinality(WrittenBy(n)) \in Nat
<1>1. DOMAIN written = 1 .. Len(written) /\ Len(written) \in Nat
  BY LenProperties DEF IInv, TypeOK
<1>2. WrittenBy(n) \in SUBSET (1 .. Len(written))
  BY <1>1 DEF WrittenBy
<1>3. IsFiniteSet(1 .. Len(written))
  BY <1>1, FS_Interval
<1> QED
  BY <1>1, <1>2, <1>3, FS_Subset, FS_CardinalityType

LEMMA OneMore ==
    ASSUME IInv, NEW p \in Procs, Writes(p), NEW n
    PROVE  Cardinality(WrittenBy(n))' =
              Cardinality(WrittenBy(n)) + IF n = call[p].id THEN 1 ELSE 0
<1>1. call[p].id \in 1 .. MaxCalls
  <2>1. pc[p] # "idle" /\ call[p].id \in 0 .. MaxCalls
    BY DEF Writes, IInv, TypeOK
  <2> QED
    BY <2>1, Bounds DEF Numbering, IInv
<1>2. /\ written \in Seq(1 .. MaxCalls) /\ DOMAIN written = 1 .. Len(written)
      /\ Len(written) \in Nat
  BY LenProperties DEF IInv, TypeOK
<1>3. /\ DOMAIN written' = 1 .. Len(written) + 1
      /\ \A i \in 1 .. Len(written) : written'[i] = written[i]
      /\ written'[Len(written) + 1] = call[p].id
  BY <1>1, <1>2, AppendProperties, LenProperties DEF Writes
<1>4. CASE n = call[p].id
  <2>1. /\ WrittenBy(n)' = WrittenBy(n) \cup {Len(written) + 1}
        /\ Len(written) + 1 \notin WrittenBy(n)
    BY <1>2, <1>3, <1>4 DEF WrittenBy
  <2> QED
    BY <1>4, <2>1, WrittenByIsFinite, FS_AddElement
<1>5. CASE n # call[p].id
  <2>1. WrittenBy(n)' = WrittenBy(n)
    BY <1>2, <1>3, <1>5 DEF WrittenBy
  <2> QED
    BY <1>5, <2>1, WrittenByIsFinite
<1> QED
  BY <1>4, <1>5

LEMMA CountOf ==
    ASSUME IInv, NEW q \in Procs
    PROVE  \E n \in Nat : n = call[q].id
  BY DEF IInv, TypeOK

(* The step of one process leaves the share of the others alone.           *)
LEMMA SharesKept ==
    ASSUME IInv, Shares, NEW p \in Procs, NEW q \in Procs, q # p,
           call'[q] = call[q], call[q].op = "write",
           pc'[q] = pc[q], done'[q] = done[q], result'[q] = result[q],
           written' = written \/ (call' = call /\ Writes(p))
    PROVE  Sharing(q)'
<1>1. Share(q)' = Share(q)
  BY DEF Share
<1>2. Cardinality(WrittenBy(call[q].id))' = Cardinality(WrittenBy(call[q].id))
  <2>1. CASE written' = written
    BY <2>1 DEF WrittenBy
  <2>2. CASE Writes(p)
    <3>1. PICK n \in Nat : n = call[q].id
      BY CountOf
    <3>2. n # call[p].id
      <4>1. pc[p] # "idle"
        BY <2>2 DEF Writes
      <4> QED
        BY <3>1, <4>1 DEF IInv, TypeOK, Numbering
    <3>3. Cardinality(WrittenBy(n)) \in Nat
      BY WrittenByIsFinite
    <3>4. Cardinality(WrittenBy(n))' = Cardinality(WrittenBy(n))
      BY <2>2, <3>2, <3>3, OneMore
    <3> QED
      BY <3>1, <3>4 DEF WrittenBy
  <2> QED
    BY <2>1, <2>2
<1> QED
  BY <1>1, <1>2 DEF Shares, Sharing

LEMMA CallShares == ASSUME IInv, Shares, NEW p \in Procs, Call(p) PROVE Shares'
<1>1. Calls(p)
  BY CallStep
<1>2. call'[p].count \in Nat /\ done'[p] = 0
  BY Bounds DEF Call, IInv, TypeOK
<1>3. Sharing(p)'
  <2>1. pc'[p] = "down" /\ call'[p].id = calls + 1 /\ written' = written
    BY <1>1 DEF Calls
  <2>2. \A i \in DOMAIN written : written[i] # calls + 1
    BY Bounds, LenProperties DEF IInv, TypeOK, Numbering
  <2>3. WrittenBy(call[p].id)' = {}
    BY <2>1, <2>2 DEF WrittenBy
  <2>4. Share(p)' = 0
    BY <2>1 DEF Share
  <2> QED
    BY <1>2, <2>3, <2>4, FS_EmptySet DEF Sharing
<1>4. ASSUME NEW q \in Procs, q # p, call'[q].op = "write" PROVE Sharing(q)'
  <2>1. call'[q] = call[q] /\ pc'[q] = pc[q] /\ written' = written
    BY <1>1, <1>4 DEF Calls
  <2>2. done'[q] = done[q] /\ result'[q] = result[q]
    BY <1>4 DEF Call, Return, IInv, TypeOK
  <2> QED
    BY <1>4, <2>1, <2>2, SharesKept
<1> QED
  BY <1>3, <1>4 DEF Shares

(* What a step does to the share of the process that takes it.             *)
LEMMA OwnShare ==
    ASSUME IInv, Shares, NEW p \in Procs, call[p].op = "write",
           Down(p) \/ DownInterrupted(p) \/ Inside(p)
    PROVE  Sharing(p)'
<1>0. Sharing(p)
  BY DEF Shares
<1>a. /\ DOMAIN pc = Procs /\ DOMAIN result = Procs /\ DOMAIN done = Procs
      /\ done[p] \in Nat /\ call[p].count \in Nat
  BY Bounds DEF IInv, TypeOK
<1>b. written' = written /\ call' = call =>
        Cardinality(WrittenBy(call[p].id))' = Cardinality(WrittenBy(call[p].id))
  BY DEF WrittenBy
<1> USE DEF Goto, Return
<1>1. CASE Down(p)
  BY <1>0, <1>1, <1>a, <1>b DEF Down, Sharing, Share
<1>2. CASE DownInterrupted(p)
  BY <1>0, <1>2, <1>a, <1>b DEF DownInterrupted, Sharing, Share
<1>3. CASE NoMemory(p)
  BY <1>0, <1>3, <1>a, <1>b DEF NoMemory, Sharing, Share
<1>4. CASE StartTransfer(p)
  BY <1>0, <1>4, <1>a, <1>b DEF StartTransfer, Sharing, Share
<1>5. CASE CopyFromUserFails(p)
  BY <1>0, <1>5, <1>a, <1>b DEF CopyFromUserFails, Sharing, Share
<1>6. CASE TransferByte(p)
  <2>1. /\ pc[p] = "transfer" /\ pc' = pc /\ call' = call /\ calls' = calls
        /\ done'[p] = done[p] + 1 /\ done'[p] <= call[p].count
        /\ written' = Append(written, call[p].id)
    BY <1>6, <1>a DEF TransferByte
  <2>2. Writes(p)
    BY <2>1 DEF Writes
  <2>3. PICK n \in Nat : n = call[p].id
    BY CountOf
  <2>4. Cardinality(WrittenBy(n))' = Cardinality(WrittenBy(n)) + 1
    BY <2>2, <2>3, OneMore
  <2>5. Cardinality(WrittenBy(n)) = done[p]
    BY <1>0, <2>1, <2>3 DEF Sharing, Share
  <2>6. Cardinality(WrittenBy(call[p].id))' = done'[p]
    BY <2>1, <2>3, <2>4, <2>5 DEF WrittenBy
  <2> QED
    BY <2>1, <2>6 DEF Sharing, Share
<1>7. CASE EndTransfer(p)
  <2>1. /\ pc[p] = "transfer" /\ pc'[p] = "up" /\ call' = call /\ written' = written
        /\ result'[p] = "count" /\ done[p] >= call[p].count
    BY <1>7, <1>a DEF EndTransfer
  <2>2. done[p] = call[p].count
    BY <1>0, <1>a, <2>1 DEF Sharing
  <2> QED
    BY <1>0, <1>b, <2>1, <2>2 DEF Sharing, Share
<1>8. CASE Up(p)
  BY <1>0, <1>8, <1>a, <1>b DEF Up, Sharing, Share
<1>9. ~TurnDown(p) /\ ~KnownRequest(p) /\ ~StoreFaults(p) /\ ~UnknownRequest(p)
  BY DEF TurnDown, KnownRequest, StoreFaults, UnknownRequest, TurnedDown, Known,
         OtherEncoding
<1> QED
  BY <1>1, <1>2, <1>3, <1>4, <1>5, <1>6, <1>7, <1>8, <1>9 DEF Inside

LEMMA NextShares == IInv /\ Shares /\ [Next]_vars => Shares'
<1> SUFFICES ASSUME IInv, Shares, [Next]_vars PROVE Shares'
  OBVIOUS
<1>1. ASSUME NEW p \in Procs, Down(p) \/ DownInterrupted(p) \/ Inside(p)
      PROVE  Shares'
  <2>1. call' = call /\ (written' = written \/ Writes(p))
    BY <1>1, KindsOfStep DEF Quiet, Writes
  <2>2. ASSUME NEW q \in Procs, q # p
        PROVE  pc'[q] = pc[q] /\ done'[q] = done[q] /\ result'[q] = result[q]
    BY <1>1, <2>2 DEF IInv, TypeOK, Goto, Return, Inside, Down, DownInterrupted,
       NoMemory, StartTransfer, CopyFromUserFails, TransferByte, EndTransfer,
       TurnDown, KnownRequest, StoreFaults, UnknownRequest, Up
  <2>3. ASSUME NEW q \in Procs, q # p, call[q].op = "write" PROVE Sharing(q)'
    BY <2>1, <2>2, <2>3, SharesKept
  <2>4. call[p].op = "write" => Sharing(p)'
    BY <1>1, OwnShare
  <2> QED
    BY <2>1, <2>3, <2>4 DEF Shares
<1>2. CASE UNCHANGED vars
  BY <1>2 DEF vars, Shares, Sharing, Share, WrittenBy
<1> QED
  BY <1>1, <1>2, CallShares DEF Next

(* A write that has returned wrote as many bytes as it said, or failed and *)
(* wrote none, however many processes call and whatever fails.             *)
THEOREM WritesAreWhole == Spec => []WroteWhatItSaid
<1>1. Init => Shares
  BY DEF Init, NoCall, Shares
<1>2. Shares => WroteWhatItSaid
  BY DEF Shares, Sharing, Share, WroteWhatItSaid
<1> QED
  BY <1>1, <1>2, NextShares, Inductive, PTL DEF Spec

LEMMA StageOf ==
    \A p \in Procs :
        Stage[p] = CASE pc[p] = "idle" -> "outside"
                     [] pc[p] = "down" -> "waiting"
                     [] pc[p] = "dead" -> "dead"
                     [] OTHER -> "inside"
  BY DEF Stage

(* Calls exclude each other, also when one has returned, or died, with the *)
(* semaphore.                                                              *)
THEOREM ImplementsDevice == Spec => CallsExclude
<1>1. Init => Device!Init
  BY DEF Init, Device!Init, Stage
<1>2. IInv /\ [Next]_vars => [Device!Next]_Stage
  <2> SUFFICES ASSUME IInv, [Next]_vars PROVE Device!Next \/ Stage' = Stage
    OBVIOUS
  <2>a. Balance /\ pc \in [Procs -> {"idle", "down", "enter", "transfer", "up", "dead"}]
        /\ sem \in 0 .. 1
    BY DEF IInv, TypeOK
  <2>1. CASE pc' = pc
    BY <2>1 DEF Stage
  <2>2. ASSUME NEW p \in Procs, NEW s, s = Stage'[p],
               \A q \in Procs : q # p => pc'[q] = pc[q]
        PROVE  Device!Goto(p, s)
    BY <2>2 DEF Stage, Device!Goto
  <2>3. ASSUME NEW p \in Procs, \A q \in Procs : q # p => pc'[q] = pc[q]
        PROVE  /\ Stage'[p] = CASE pc'[p] = "idle" -> "outside"
                                 [] pc'[p] = "down" -> "waiting"
                                 [] pc'[p] = "dead" -> "dead"
                                 [] OTHER -> "inside"
               /\ Stage'[p] = Stage[p] => Stage' = Stage
    BY <2>3 DEF Stage
  <2>4. ASSUME NEW p \in Procs, Call(p) PROVE Device!Next
    <3>1. Calls(p)
      BY <2>4, CallStep
    <3>2. Stage[p] = "outside" /\ Stage'[p] = "waiting"
      BY <2>3, <3>1, StageOf DEF Calls
    <3> QED
      BY <2>2, <3>1, <3>2 DEF Calls, Device!Next, Device!Begin
  <2>5. ASSUME NEW p \in Procs, Down(p) PROVE Device!Next
    <3>1. /\ sem = 1 /\ pc[p] = "down" /\ pc'[p] = "enter"
          /\ \A q \in Procs : q # p => pc'[q] = pc[q]
      BY <2>a, <2>5 DEF Down, Goto
    <3>2. Stage[p] = "waiting" /\ Stage'[p] = "inside"
      BY <2>3, <3>1, StageOf
    <3>3. \A q \in Procs : Stage[q] \notin {"inside", "dead"}
      BY <2>a, <3>1, StageOf DEF Balance, Holds
    <3> QED
      BY <2>2, <3>1, <3>2, <3>3 DEF Device!Next, Device!Enter
  <2>6. ASSUME NEW p \in Procs, DownInterrupted(p) \/ Inside(p)
        PROVE  Device!Next \/ Stage' = Stage
    <3>1. Quiet(p) \/ Writes(p)
      BY <2>6, KindsOfStep
    <3>2. ~Down(p) => <<pc[p], pc'[p]>> # <<"down", "enter">>
      BY <2>a, <2>6 DEF DownInterrupted, Inside, NoMemory, StartTransfer,
         CopyFromUserFails, TransferByte, EndTransfer, TurnDown, KnownRequest,
         StoreFaults, UnknownRequest, Up, Goto
    <3>3. \A q \in Procs : q # p => pc'[q] = pc[q]
      BY <3>1 DEF Quiet, Writes
    <3>4. CASE Stage'[p] = Stage[p]
      BY <2>3, <3>3, <3>4
    <3>5. CASE Stage[p] \in {"waiting", "inside"} /\ Stage'[p] = "outside"
      BY <2>2, <3>3, <3>5 DEF Device!Next, Device!Return
    <3>6. CASE Down(p)
      BY <2>5, <3>6
    <3>7. CASE ~Down(p)
      <4>1. <<pc[p], pc'[p]>> \in
              {<<"down", "idle">>, <<"enter", "idle">>, <<"enter", "transfer">>,
               <<"enter", "up">>, <<"enter", "dead">>, <<"transfer", "up">>,
               <<"transfer", "transfer">>, <<"up", "idle">>}
        BY <3>1, <3>2, <3>7 DEF Quiet, Writes
      <4>2. CASE pc[p] \in {"down", "enter", "up"} /\ pc'[p] = "idle"
        <5>1. Stage'[p] = "outside"
          BY <2>3, <3>3, <4>2
        <5>2. Stage[p] \in {"waiting", "inside"}
          BY <4>2, StageOf
        <5> QED
          BY <3>5, <5>1, <5>2
      <4>3. CASE pc[p] \in {"enter", "transfer"} /\ pc'[p] \in {"transfer", "up"}
        <5>0. /\ pc[p] \notin {"idle", "down", "dead"}
              /\ pc'[p] \notin {"idle", "down", "dead"}
          BY <4>3
        <5>1. Stage'[p] = "inside"
          BY <2>3, <3>3, <5>0
        <5>2. Stage[p] = "inside"
          BY <5>0 DEF Stage
        <5> QED
          BY <3>4, <5>1, <5>2
      <4>4. CASE pc[p] = "enter" /\ pc'[p] = "dead"
        <5>1. Stage[p] = "inside" /\ Stage'[p] = "dead"
          BY <2>3, <3>3, <4>4, StageOf
        <5> QED
          BY <2>2, <3>3, <5>1 DEF Device!Next, Device!Die
      <4> QED
        BY <4>1, <4>2, <4>3, <4>4
    <3> QED
      BY <3>6, <3>7
  <2>7. CASE UNCHANGED vars
    BY <2>1, <2>7 DEF vars
  <2> QED
    BY <2>4, <2>5, <2>6, <2>7 DEF Next
<1> QED
  BY <1>1, <1>2, Inductive, PTL DEF Spec, CallsExclude, Device!Safety

-----------------------------------------------------------------------------
(* What a call that is inside has still to do, and what a call that waits  *)
(* waits for.                                                              *)

Left(p) ==
    CASE pc[p] = "enter" -> call[p].count + 3
      [] pc[p] = "transfer" -> (call[p].count + 2) - done[p]
      [] pc[p] = "up" -> 1
      [] OTHER -> 0

Place(p) == <<pc[p], call[p], done[p], result[p]>>

\* A call inside comes nearer to its end or is left where it is; a dead one
\* always is.
RunsOut(p) ==
    /\ Holds(p) => Left(p)' < Left(p) \/ Place(p)' = Place(p)
    /\ pc[p] = "dead" => Place(p)' = Place(p)

CallsRunOut == [][\A p \in Procs : RunsOut(p)]_vars

WaitsForCall ==
    \A p \in Procs :
        pc[p] = "down" =>
            \/ sem > 0
            \/ \E q \in Procs : Holds(q) /\ Left(q) > 0
            \/ \E q \in Procs : pc[q] = "dead" /\ call[q].op = "readReg0"
            \/ kept = 1

\* No loop counter is past its bound.
InLoop == \A p \in Procs : done[p] <= call[p].count

Others(p) == \A q \in Procs : q # p => Place(q)' = Place(q)

LEMMA InsideRunsOut ==
    ASSUME IInv, InLoop, NEW p \in Procs, Inside(p)
    PROVE  /\ Others(p) /\ pc[p] # "dead"
           /\ Left(p)' < Left(p)
           /\ (done[p] <= call[p].count)'
<1>a. /\ DOMAIN pc = Procs /\ DOMAIN done = Procs /\ DOMAIN result = Procs
      /\ done[p] \in Nat /\ call[p].count \in Nat /\ done[p] <= call[p].count
  BY Bounds DEF IInv, TypeOK, InLoop
<1>1. CASE NoMemory(p) \/ TurnDown(p)
  BY <1>a, <1>1 DEF NoMemory, TurnDown, Goto, Return, Others, Place, Left
<1>2. CASE StartTransfer(p) \/ CopyFromUserFails(p) \/ KnownRequest(p)
           \/ StoreFaults(p) \/ UnknownRequest(p)
  BY <1>a, <1>2 DEF StartTransfer, CopyFromUserFails, KnownRequest, StoreFaults,
     UnknownRequest, Goto, Return, Others, Place, Left
<1>3. CASE TransferByte(p)
  BY <1>a, <1>3 DEF TransferByte, Others, Place, Left
<1>4. CASE EndTransfer(p) \/ Up(p)
  BY <1>a, <1>4 DEF EndTransfer, Up, Goto, Return, Others, Place, Left
<1> QED
  BY <1>1, <1>2, <1>3, <1>4 DEF Inside

LEMMA OutsideStep ==
    ASSUME IInv, InLoop, NEW p \in Procs, Call(p) \/ Down(p) \/ DownInterrupted(p)
    PROVE  /\ Others(p) /\ ~Holds(p)
           /\ (done[p] <= call[p].count)'
<1>a. /\ DOMAIN pc = Procs /\ DOMAIN done = Procs /\ DOMAIN result = Procs
      /\ DOMAIN call = Procs /\ done[p] <= call[p].count
  BY DEF IInv, TypeOK, InLoop
<1>1. CASE Call(p)
  <2>1. PICK op \in Operations, n \in 0 .. MaxCount :
          call' = [call EXCEPT ![p] = [id |-> calls + 1, op |-> op, count |-> n]]
    BY <1>1 DEF Call
  <2>2. call'[p].count = n /\ done'[p] = 0 /\ n \in Nat
    BY <1>1, <1>a, <2>1, Bounds DEF Call
  <2>3. Others(p) /\ ~Holds(p)
    BY <1>1, <1>a, <2>1 DEF Call, Goto, Return, Others, Place, Holds
  <2> QED
    BY <2>2, <2>3
<1>2. CASE Down(p) \/ DownInterrupted(p)
  BY <1>a, <1>2 DEF Down, DownInterrupted, Goto, Return, Others, Place, Holds
<1> QED
  BY <1>1, <1>2

LEMMA NextRunsOut ==
    IInv /\ InLoop /\ [Next]_vars =>
        /\ InLoop'
        /\ \A p \in Procs : RunsOut(p)
<1> SUFFICES ASSUME IInv, InLoop, [Next]_vars, NEW q \in Procs
             PROVE  (done[q] <= call[q].count)' /\ RunsOut(q)
  BY DEF InLoop
<1>1. Place(q)' = Place(q) => (done[q] <= call[q].count)'
  BY DEF Place, InLoop
<1>2. ASSUME NEW p \in Procs, Inside(p)
      PROVE  (done[q] <= call[q].count)' /\ RunsOut(q)
  BY <1>1, <1>2, InsideRunsOut DEF Others, RunsOut
<1>3. ASSUME NEW p \in Procs, Call(p) \/ Down(p) \/ DownInterrupted(p)
      PROVE  (done[q] <= call[q].count)' /\ RunsOut(q)
  BY <1>1, <1>3, OutsideStep DEF Others, RunsOut, Holds
<1>4. CASE UNCHANGED vars
  BY <1>1, <1>4 DEF vars, Place, RunsOut
<1> QED
  BY <1>2, <1>3, <1>4 DEF Next

(* A call that waits for the semaphore waits for a call that is inside and *)
(* has steps to take, for one that died storing the register at its user's *)
(* address, or for one that returned with it.  A call that is inside comes *)
(* nearer to its return, or to that death, with every step it takes, its   *)
(* loop included, while the steps of others leave it where it is: at most  *)
(* one step for each byte and three more.  A dead one stays so.  What      *)
(* CallsReturn adds is that the scheduler lets it take them.               *)
THEOREM NoCallHangs == Spec => []WaitsForCall /\ CallsRunOut
<1>1. Init => InLoop
  BY DEF Init, NoCall, InLoop
<1>2. IInv /\ InLoop => WaitsForCall
  <2> SUFFICES ASSUME IInv, InLoop, NEW p \in Procs, pc[p] = "down",
                      ~(sem > 0), kept # 1
               PROVE  \E q \in Procs :
                         \/ Holds(q) /\ Left(q) > 0
                         \/ pc[q] = "dead" /\ call[q].op = "readReg0"
    BY DEF WaitsForCall
  <2>1. PICK q \in Procs : Holds(q)
    BY DEF IInv, TypeOK, Balance
  <2>2. done[q] \in Nat /\ call[q].count \in Nat /\ done[q] <= call[q].count
    BY Bounds DEF IInv, TypeOK, InLoop
  <2>3. pc[q] = "dead" => call[q].op = "readReg0"
    BY DEF IInv, Balance
  <2> QED
    BY <2>1, <2>2, <2>3 DEF Holds, Left
<1>3. IInv /\ InLoop /\ [Next]_vars => [\A p \in Procs : RunsOut(p)]_vars
  BY NextRunsOut
<1>4. IInv /\ InLoop /\ [Next]_vars => InLoop'
  BY NextRunsOut
<1> QED
  BY <1>1, <1>2, <1>3, <1>4, Inductive, PTL DEF Spec, CallsRunOut
=============================================================================
