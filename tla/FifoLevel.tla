----------------------------- MODULE FifoLevel -----------------------------
(***************************************************************************)
(* rx_fifo_level() of the fast UART driver.                                *)
(*                                                                         *)
(* The fill level of the receive FIFO does not fit one register: the       *)
(* hardware shows it as two bytes, and bytes keep arriving while the       *)
(* driver reads them.  The driver reads MSB, LSB, MSB and repeats until    *)
(* two successive reads of the MSB agree.  The DMA transfer is then sized  *)
(* from the value, so a value above the true level would leave the         *)
(* transfer waiting for bytes nobody has sent.                             *)
(*                                                                         *)
(* The function runs under port.lock with no DMA transfer in flight, so    *)
(* nothing consumes bytes during a call: the level only grows.             *)
(***************************************************************************)
EXTENDS Integers

CONSTANTS
    RegBase,    \* number of values of one register (256 in the hardware)
    FifoSize    \* FN_FAST_UART_RX_FIFO_SIZE

ASSUME SizeAssumption ==
    /\ RegBase \in Nat \ {0}
    /\ FifoSize \in Nat \ {0}
    /\ FifoSize < RegBase * RegBase     \* the level fits in the two registers

VARIABLES
    level,      \* the bytes in the FIFO
    pc,         \* where the driver is in rx_fifo_level()
    oldMsb,     \* old_fifo_level_msb
    lsb,        \* fifo_level_lsb
    result,     \* the value returned by the last call
    entry,      \* history: the level when the call began
    sampled     \* history: the level when the LSB was last read

vars == <<level, pc, oldMsb, lsb, result, entry, sampled>>

\* The two level registers, UART_FIFO_MSB and UART_FIFO_LSB.
MsbReg == level \div RegBase
LsbRegUnmasked == level                     \* mutant: the register is wider
LsbReg == level % RegBase

\* ((msb & 0xff) << 8) | (lsb & 0xff)
Combine(m, l) == (m % RegBase) * RegBase + (l % RegBase)

Init ==
    /\ level \in 0 .. FifoSize
    /\ pc = "idle"
    /\ oldMsb = 0
    /\ lsb = 0
    /\ result = 0
    /\ entry = 0
    /\ sampled = 0

-----------------------------------------------------------------------------
\* A byte arrives on the line.
Receive ==
    /\ level < FifoSize
    /\ level' = level + 1
    /\ UNCHANGED <<pc, oldMsb, lsb, result, entry, sampled>>

\* Between two calls a DMA transfer or a programmed read empties the FIFO.
DrainAnytime ==                             \* mutant: a transfer is in flight
    /\ level > 0
    /\ level' = level - 1
    /\ UNCHANGED <<pc, oldMsb, lsb, result, entry, sampled>>

Drain ==
    /\ pc = "idle"
    /\ level > 0
    /\ level' = level - 1
    /\ UNCHANGED <<pc, oldMsb, lsb, result, entry, sampled>>

\* The first read of the MSB.
ReadOldMsb ==
    /\ pc = "idle"
    /\ oldMsb' = MsbReg
    /\ entry' = level
    /\ pc' = "readLsb"
    /\ UNCHANGED <<level, lsb, result, sampled>>

ReadLsb ==
    /\ pc = "readLsb"
    /\ lsb' = LsbReg
    /\ sampled' = level
    /\ pc' = "readMsb"
    /\ UNCHANGED <<level, oldMsb, result, entry>>

ReadMsbOnce ==                              \* mutant: no second look at the MSB
    /\ pc = "readMsb"
    /\ oldMsb' = MsbReg
    /\ result' = Combine(MsbReg, lsb)
    /\ pc' = "done"
    /\ UNCHANGED <<level, lsb, entry, sampled>>

ReadMsbKeepsOld ==                          \* mutant: old_fifo_level_msb not updated
    /\ pc = "readMsb"
    /\ IF oldMsb = MsbReg
       THEN /\ result' = Combine(MsbReg, lsb)
            /\ pc' = "done"
       ELSE /\ pc' = "readLsb"
            /\ UNCHANGED result
    /\ UNCHANGED <<level, oldMsb, lsb, entry, sampled>>

\* The MSB again: leave the loop if it has not moved, else go round.
ReadMsb ==
    /\ pc = "readMsb"
    /\ oldMsb' = MsbReg
    /\ IF oldMsb = MsbReg
       THEN /\ result' = Combine(MsbReg, lsb)
            /\ pc' = "done"
       ELSE /\ pc' = "readLsb"
            /\ UNCHANGED result
    /\ UNCHANGED <<level, lsb, entry, sampled>>

\* The caller has used the value.
Return ==
    /\ pc = "done"
    /\ pc' = "idle"
    /\ UNCHANGED <<level, oldMsb, lsb, result, entry, sampled>>

Call == ReadOldMsb \/ ReadLsb \/ ReadMsb \/ Return

Next == Receive \/ Drain \/ Call

\* The processor executing the call does not stop in the middle of it.
Spec == Init /\ [][Next]_vars /\ WF_vars(ReadLsb \/ ReadMsb)

-----------------------------------------------------------------------------
TypeOK ==
    /\ level \in 0 .. FifoSize
    /\ pc \in {"idle", "readLsb", "readMsb", "done"}
    /\ oldMsb \in Nat
    /\ lsb \in 0 .. RegBase - 1
    /\ result \in Nat
    /\ entry \in 0 .. FifoSize
    /\ sampled \in 0 .. FifoSize

(***************************************************************************)
(* The value returned is one the FIFO really had: the level at the moment  *)
(* the LSB was read, never a mix of the halves of two levels.  It is what  *)
(* the comment on rx_fifo_level() asks for ("make sure the msb and lsb are *)
(* consistent").                                                           *)
(***************************************************************************)
ConsistentSnapshot == pc = "done" => result = sampled

(***************************************************************************)
(* The value is at least what the FIFO held when the call began and at     *)
(* most what it holds when the call returns, so that a transfer of         *)
(* result - 1 bytes, started then, finds all its bytes already there.      *)
(***************************************************************************)
ResultWithinCall == pc = "done" => entry <= result /\ result <= level

(***************************************************************************)
(* The unbounded loop ends: the bytes that arrive during a call move the   *)
(* MSB only finitely often, because nothing leaves the FIFO meanwhile.     *)
(***************************************************************************)
LoopEnds == pc = "readLsb" ~> pc = "done"

-----------------------------------------------------------------------------
(* The strengthening of the two invariants that is inductive: what each    *)
(* value read so far says of the level at the time.                        *)
Reading ==
    /\ pc \in {"readLsb", "readMsb", "done"} =>
          /\ entry <= level
          /\ entry \div RegBase <= oldMsb
          /\ oldMsb <= level \div RegBase
    /\ pc \in {"readMsb", "done"} =>
          /\ entry <= sampled
          /\ sampled <= level
          /\ lsb = sampled % RegBase
    /\ pc = "readMsb" => oldMsb <= sampled \div RegBase
    /\ pc = "done" => result = sampled

IInv == TypeOK /\ Reading
=============================================================================
