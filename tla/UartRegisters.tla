---------------------------- MODULE UartRegisters ----------------------------
(***************************************************************************)
(* The Norwich fast UART's own registers, and what the driver does with    *)
(* them outside the receive path (fluke_fn_fast_uart.c): probe() programs  *)
(* the watermark and the receive timeout and registers the port, ioctl()   *)
(* reads and writes them for processes, remove() unregisters the port.     *)
(*                                                                         *)
(* Like the FIFO level (module FifoLevel, extended here), each value is    *)
(* split over two registers, accessed one after the other.  The serial     *)
(* core runs ioctl() with the port's mutex, so one at a time; the line and *)
(* the interrupt handler, which asks for the level, do not wait for it.    *)
(***************************************************************************)
EXTENDS FifoLevel

CONSTANTS
    WmBase,         \* number of values read_watermark() keeps of the MSB
    BurstLength,    \* FN_FAST_BURST_LENGTH
    InitialTimeout, \* the timeout probe() programs
    Timeouts        \* the timeouts processes ask for

ASSUME RegisterAssumption ==
    /\ WmBase \in 1 .. RegBase
    /\ FifoSize < WmBase * RegBase
    /\ BurstLength \in 1 .. FifoSize - 1
    /\ InitialTimeout \in 1 .. RegBase * RegBase - 1
    /\ Timeouts \subseteq Int

VARIABLES
    wm,             \* the watermark registers
    tm,             \* the timeout registers
    stage,          \* how far probe() has come; "unbound", "bound", "removed"
    ops,            \* whose operations the serial core calls
    ioctl,          \* the call under way
    asked           \* history: the timeout written last

regVars == <<wm, tm, stage, ops, ioctl, asked>>
allVars == <<vars, regVars>>

Byte == 0 .. RegBase - 1
Requests == {"readWatermark", "writeWatermark", "readTimeout", "writeTimeout",
             "other"}
NoIoctl == [at |-> "idle", request |-> "other", value |-> 0, msb |-> 0,
            result |-> "none", answer |-> 0]

\* The registers hold anything before the driver has written them.
RegInit ==
    /\ Init /\ level = 0
    /\ \E m, l \in Byte : wm = [msb |-> m, lsb |-> l] /\ tm = wm
    /\ stage = "unbound"
    /\ ops = "core"
    /\ ioctl = NoIoctl
    /\ asked = 0

\* (value & 0xFF00) >> 8, and value & 0xFF.
HighByte(v) == (v \div RegBase) % RegBase
LowByte(v) == v % RegBase

-----------------------------------------------------------------------------
(* Probe and remove. *)

Goes(from, to) == stage = from /\ stage' = to

\* The resources and the memory are obtained (with devm_ functions, so that
\* the driver core gives them back) or probe() has failed without a trace.
ProbeBegins ==
    /\ Goes("unbound", "watermark")
    /\ UNCHANGED <<vars, wm, tm, ops, ioctl, asked>>

InBounds(w) == w <= FifoSize /\ w > BurstLength

\* write_watermark() of the burst length plus one; the result is not looked at.
WatermarkOfBurst == BurstLength     \* mutant: refused, and nobody notices
InitialWatermark == BurstLength + 1

WatermarkMsb ==
    /\ Goes("watermark", "watermarkLsb")
    /\ wm' = IF InBounds(InitialWatermark)
             THEN [wm EXCEPT !.msb = HighByte(InitialWatermark)] ELSE wm
    /\ UNCHANGED <<vars, tm, ops, ioctl, asked>>

WatermarkLsb ==
    /\ Goes("watermarkLsb", "timeout")
    /\ wm' = IF InBounds(InitialWatermark)
             THEN [wm EXCEPT !.lsb = LowByte(InitialWatermark)] ELSE wm
    /\ UNCHANGED <<vars, tm, ops, ioctl, asked>>

TimeoutMsb ==
    /\ Goes("timeout", "timeoutLsb")
    /\ tm' = [tm EXCEPT !.msb = HighByte(InitialTimeout)]
    /\ UNCHANGED <<vars, wm, ops, ioctl, asked>>

TimeoutLsb ==
    /\ Goes("timeoutLsb", "register")
    /\ tm' = [tm EXCEPT !.lsb = LowByte(InitialTimeout)]
    /\ asked' = InitialTimeout
    /\ UNCHANGED <<vars, wm, ops, ioctl>>

\* serial8250_register_8250_port(): the port can be opened from here on.
Register ==
    /\ \/ Goes("register", "registered")
       \/ Goes("register", "unbound")
    /\ UNCHANGED <<vars, wm, tm, ops, ioctl, asked>>

\* The operations are copied, with the driver's ioctl(), and put in place.
ReplaceOps ==
    /\ Goes("registered", "bound")
    /\ ops' = "driver"
    /\ UNCHANGED <<vars, wm, tm, ioctl, asked>>

\* serial8250_unregister_port() waits for the port's mutex.  The operations
\* stay where they are, in memory the driver core then frees: what the serial
\* core does with the port afterwards is not looked at.
RemovePort ==
    /\ Goes("bound", "removed")
    /\ ioctl.at = "idle"
    /\ pc = "idle"
    /\ UNCHANGED <<vars, wm, tm, ops, ioctl, asked>>

-----------------------------------------------------------------------------
(* fn_fast_uart_ioctl(). *)

Registered == stage \in {"registered", "bound"}

\* Requests the driver turns down, and those of a port whose operations are
\* still the serial core's.
Result(r, v) ==
    IF ops = "core" \/ r \in {"writeWatermark", "other"} THEN "unknown"
    ELSE IF r = "writeTimeout" /\ v <= 0 THEN "refused"
    ELSE "served"

Ioctl(r, v) ==
    /\ Registered
    /\ ioctl.at = "idle"
    /\ ioctl' = [NoIoctl EXCEPT
                    !.at = IF Result(r, v) = "served" THEN "msb" ELSE "done",
                    !.request = r,
                    !.value = IF r = "writeTimeout" THEN v ELSE 0,
                    !.result = Result(r, v)]
    /\ UNCHANGED <<vars, wm, tm, stage, ops, asked>>

\* The more significant register, read (and masked) or written.
AccessMsb ==
    /\ ioctl.at = "msb"
    /\ tm' = IF ioctl.request = "writeTimeout"
             THEN [tm EXCEPT !.msb = HighByte(ioctl.value)] ELSE tm
    /\ ioctl' = [ioctl EXCEPT
                    !.at = "lsb",
                    !.msb = IF ioctl.request = "readWatermark"
                            THEN wm.msb % WmBase ELSE tm.msb]
    /\ UNCHANGED <<vars, wm, stage, ops, asked>>

ReadLsbSwapped(reg) ==              \* mutant: the halves swapped
    ioctl' = [ioctl EXCEPT !.at = "done",
                           !.answer = reg.lsb * RegBase + ioctl.msb]
ReadLsbOf(reg) ==
    ioctl' = [ioctl EXCEPT !.at = "done",
                           !.answer = ioctl.msb * RegBase + reg.lsb]

AccessLsb ==
    /\ ioctl.at = "lsb"
    /\ IF ioctl.request = "writeTimeout"
       THEN /\ tm' = [tm EXCEPT !.lsb = LowByte(ioctl.value)]
            /\ asked' = ioctl.value
            /\ ioctl' = [ioctl EXCEPT !.at = "done"]
       ELSE /\ ReadLsbOf(IF ioctl.request = "readWatermark" THEN wm ELSE tm)
            /\ UNCHANGED <<tm, asked>>
    /\ UNCHANGED <<vars, wm, stage, ops>>

EndIoctl ==
    /\ ioctl.at = "done"
    /\ ioctl' = NoIoctl
    /\ UNCHANGED <<vars, wm, tm, stage, ops, asked>>

-----------------------------------------------------------------------------
Setup ==
    \/ ProbeBegins
    \/ WatermarkMsb \/ WatermarkLsb
    \/ TimeoutMsb \/ TimeoutLsb
    \/ Register \/ ReplaceOps
    \/ RemovePort
Access == AccessMsb \/ AccessLsb \/ EndIoctl

\* The level is asked for by the interrupt handler of a registered port.
FifoStep ==
    /\ Receive \/ (Registered /\ (Drain \/ Call))
    /\ UNCHANGED regVars

RegNext ==
    \/ Setup
    \/ \E r \in Requests, v \in Timeouts : Ioctl(r, v)
    \/ Access
    \/ FifoStep

\* The processor executing rx_fifo_level() or an ioctl() does not stop in it.
RegSpec ==
    /\ RegInit /\ [][RegNext]_allVars
    /\ WF_allVars((ReadLsb \/ ReadMsb) /\ UNCHANGED regVars)
    /\ WF_allVars(Access)

-----------------------------------------------------------------------------
Value(reg) == reg.msb * RegBase + reg.lsb

(***************************************************************************)
(* As soon as the port can be used, a burst of the DMA engine, asked for   *)
(* when the FIFO reaches the watermark, leaves at least a byte in it: an   *)
(* empty FIFO would suppress the receive timeout (comments on              *)
(* write_watermark() and in fn_fast_uart_probe()).                         *)
(***************************************************************************)
BurstLeavesByte ==
    stage \in {"register", "registered", "bound"} /\ level >= Value(wm)
        => level - BurstLength >= 1

(***************************************************************************)
(* What an ioctl() reads is what was written last, by probe or by another  *)
(* ioctl(), although both access two registers in turn: the timeout as far *)
(* as it fits the registers, the watermark as probe set it.                *)
(***************************************************************************)
ReadsWhatWasWritten ==
    /\ ioctl.at = "done" /\ ioctl.result = "served"
    /\ ioctl.request \in {"readWatermark", "readTimeout"}
    => ioctl.answer = IF ioctl.request = "readWatermark" THEN InitialWatermark
                      ELSE asked % (RegBase * RegBase)
=============================================================================
