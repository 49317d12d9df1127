------------------------------ MODULE FastUart ------------------------------
(***************************************************************************)
(* The receive path of the Norwich fast UART driver                        *)
(* (fluke_fn_fast_uart.c).                                                 *)
(*                                                                         *)
(* Three agents share the port: the interrupt handler, the DMA engine and  *)
(* the completion callback of a DMA transfer, which runs as a tasklet and  *)
(* so beside the handler.  port.lock orders the handler and the callback;  *)
(* the engine and the line obey no lock.  A transfer is sized to what the  *)
(* FIFO holds, minus one byte, so that it never has to be stopped; while   *)
(* it runs the receive interrupts are off.                                 *)
(*                                                                         *)
(* A byte is its number in the order of arrival.  rx_fifo_level() is one   *)
(* step here: module FifoLevel shows that its value is one the FIFO had.   *)
(***************************************************************************)
EXTENDS Integers, Sequences, Functions

CONSTANTS
    FifoSize,           \* FN_FAST_UART_RX_FIFO_SIZE
    Watermark,          \* the level that raises the receive interrupt
    RxSize,             \* dma->rx_size, the length of the DMA buffer
    MaxPio,             \* bytes one serial8250_rx_chars() takes at most
    MaxBytes,           \* bound: the bytes the line sends
    MaxErrors           \* bound: the line errors the line makes

ASSUME UartAssumption ==
    /\ FifoSize \in Nat /\ Watermark \in 2 .. FifoSize
    /\ RxSize \in Nat \ {0}
    /\ MaxPio \in Nat \ {0}
    /\ MaxBytes \in Nat
    /\ MaxErrors \in Nat

VARIABLES
    \* the line and the UART
    arrived,            \* number of bytes accepted into the FIFO
    errors,             \* number of line errors so far
    fifo,               \* the receive FIFO
    lineError,          \* the line status register shows an error
    rxTimeout,          \* the receive timeout has expired
    ierRdi,             \* UART_IER_RDI: receive and timeout interrupts enabled
    \* the DMA engine
    residue,            \* bytes the transfer still has to move
    rxBuf,              \* dma->rx_buf, the bytes moved so far
    \* the driver
    useDma,             \* up->dma # NULL: the channels were obtained at open
    rxRunning,          \* dma->rx_running
    xferLen,            \* rx_xfer_length
    lock,               \* holder of port.lock
    irq,                \* where the handler is
    iir,                \* the interrupt identification it read
    pio,                \* bytes taken by this serial8250_rx_chars()
    callback,           \* where fn_fast_uart_dma_rx_complete() is
    tty                 \* the bytes handed to the tty layer

lineVars == <<arrived, errors>>
hwVars == <<fifo, lineError, rxTimeout>>
dmaVars == <<residue, rxBuf>>
xferVars == <<rxRunning, xferLen, ierRdi>>
irqVars == <<irq, iir, pio>>
vars == <<lineVars, hwVars, dmaVars, useDma, xferVars, lock, irqVars,
          callback, tty>>

Init ==
    /\ arrived = 0
    /\ errors = 0
    /\ fifo = <<>>
    /\ lineError = FALSE
    /\ rxTimeout = FALSE
    /\ ierRdi = TRUE
    /\ residue = 0
    /\ rxBuf = <<>>
    /\ useDma \in BOOLEAN
    /\ rxRunning = FALSE
    /\ xferLen = 0
    /\ lock = "free"
    /\ irq = "idle"
    /\ iir = "none"
    /\ pio = 0
    /\ callback = "idle"
    /\ tty = <<>>

-----------------------------------------------------------------------------
(* The line and the UART. *)

\* A byte arrives and there is room for it.
Receive ==
    /\ arrived < MaxBytes
    /\ Len(fifo) < FifoSize
    /\ arrived' = arrived + 1
    /\ fifo' = Append(fifo, arrived + 1)
    /\ rxTimeout' = FALSE
    /\ UNCHANGED <<errors, lineError, dmaVars, useDma, xferVars, lock,
                   irqVars, callback, tty>>

\* The line status register reports an error: a byte overrun, a parity or a
\* framing error, a break.
LineError ==
    /\ errors < MaxErrors
    /\ errors' = errors + 1
    /\ lineError' = TRUE
    /\ UNCHANGED <<arrived, fifo, rxTimeout, dmaVars, useDma, xferVars, lock,
                   irqVars, callback, tty>>

\* No byte has come or gone for the programmed time.  An empty FIFO
\* suppresses the timeout.
Timeout ==
    /\ fifo # <<>>
    /\ ~rxTimeout
    /\ rxTimeout' = TRUE
    /\ UNCHANGED <<lineVars, fifo, lineError, dmaVars, useDma, xferVars, lock,
                   irqVars, callback, tty>>

\* The receive interrupt the identification register shows, by priority.  The
\* line status interrupt stays enabled when UART_IER_RDI is off.
Pending ==
    IF lineError THEN {"lineStatus"}
    ELSE IF ierRdi /\ Len(fifo) >= Watermark THEN {"data"}
    ELSE IF ierRdi /\ rxTimeout THEN {"timeout"}
    ELSE {}

\* The engine moves a byte.  The hardware asks for one only while there is
\* more than one byte in the FIFO.
DmaBeat ==
    /\ residue > 0
    /\ Len(fifo) > 1
    /\ residue' = residue - 1
    /\ rxBuf' = Append(rxBuf, Head(fifo))
    /\ fifo' = Tail(fifo)
    /\ rxTimeout' = FALSE
    /\ UNCHANGED <<lineVars, lineError, useDma, xferVars, lock, irqVars,
                   callback, tty>>

-----------------------------------------------------------------------------
(* The interrupt handler: fn_fast_uart_top_handle_irq() and               *)
(* fn_fast_uart_handle_irq().                                             *)

\* The identification is read before the lock is taken.
ReadIir ==
    /\ irq = "idle"
    /\ iir' \in Pending
    /\ irq' = "enter"
    /\ UNCHANGED <<lineVars, hwVars, dmaVars, useDma, xferVars, lock, pio,
                   callback, tty>>

\* The transmitter or the modem status interrupts, at a lower priority.
ReadIirOther ==
    /\ irq = "idle"
    /\ Pending = {}
    /\ iir' = "other"
    /\ irq' = "enter"
    /\ UNCHANGED <<lineVars, hwVars, dmaVars, useDma, xferVars, lock, pio,
                   callback, tty>>

\* fn_fast_uart_handle_rx_dma(), the cases decided by the identification
\* alone; "dma" means that rx_dma() is asked.
RouteByIir ==
    IF ~useDma THEN "pio"
    ELSE IF iir = "timeout" THEN IF rxRunning THEN "tail" ELSE "pio"
    ELSE IF iir = "lineStatus" THEN "pio"
    ELSE "dma"

\* Take the lock and read the line status, which clears the error; without
\* data ready there is nothing to receive.
LockIrq ==
    /\ irq = "enter"
    /\ lock = "free"
    /\ lock' = "irq"
    /\ lineError' = FALSE
    /\ irq' = IF fifo = <<>> THEN "tail" ELSE RouteByIir
    /\ pio' = 0
    /\ UNCHANGED <<lineVars, fifo, rxTimeout, dmaVars, useDma, xferVars, iir,
                   callback, tty>>

RxDmaReadsInstead ==            \* mutant: the handler reads while a transfer runs
    /\ irq = "dma"
    /\ rxRunning \/ Len(fifo) <= 1
    /\ irq' = IF rxRunning THEN "pio" ELSE "tail"
    /\ UNCHANGED <<lineVars, hwVars, dmaVars, useDma, xferVars, lock, iir, pio,
                   callback, tty>>

\* fn_fast_uart_rx_dma(): nothing to do while a transfer is in flight or when
\* the FIFO holds at most one byte.
RxDmaSkips ==
    /\ irq = "dma"
    /\ rxRunning \/ Len(fifo) <= 1
    /\ irq' = "tail"
    /\ UNCHANGED <<lineVars, hwVars, dmaVars, useDma, xferVars, lock, iir, pio,
                   callback, tty>>

Smaller(a, b) == IF a < b THEN a ELSE b

XferWholeFifo == Smaller(Len(fifo), RxSize)         \* mutant: no byte left over

\* rx_xfer_length: one byte less than the FIFO holds, as far as the buffer goes.
XferLength == Smaller(Len(fifo) - 1, RxSize)

RxDmaStartsTwice ==             \* mutant: dma->rx_running is not looked at
    /\ irq = "dma"
    /\ Len(fifo) > 1
    /\ xferLen' = XferLength
    /\ residue' = XferLength
    /\ rxRunning' = TRUE
    /\ ierRdi' = FALSE
    /\ irq' = "tail"
    /\ UNCHANGED <<lineVars, hwVars, rxBuf, useDma, lock, iir, pio, callback,
                   tty>>

\* fn_fast_uart_rx_dma(): the transfer is started, receive interrupts go off.
RxDmaStarts ==
    /\ irq = "dma"
    /\ ~rxRunning
    /\ Len(fifo) > 1
    /\ xferLen' = XferLength
    /\ residue' = XferLength
    /\ rxRunning' = TRUE
    /\ ierRdi' = FALSE
    /\ irq' = "tail"
    /\ UNCHANGED <<lineVars, hwVars, rxBuf, useDma, lock, iir, pio, callback,
                   tty>>

\* fn_fast_uart_rx_dma(): no descriptor to be had.  The length stays recorded
\* and the bytes are read by the processor.
RxDmaBusy ==
    /\ irq = "dma"
    /\ ~rxRunning
    /\ Len(fifo) > 1
    /\ xferLen' = XferLength
    /\ irq' = "pio"
    /\ UNCHANGED <<lineVars, hwVars, dmaVars, useDma, rxRunning, ierRdi, lock,
                   iir, pio, callback, tty>>

\* serial8250_rx_chars(): one byte to the tty, then the line status again.
PioByte ==
    /\ irq = "pio"
    /\ fifo # <<>>
    /\ pio < MaxPio
    /\ tty' = Append(tty, Head(fifo))
    /\ fifo' = Tail(fifo)
    /\ lineError' = FALSE
    /\ rxTimeout' = FALSE
    /\ pio' = pio + 1
    /\ UNCHANGED <<lineVars, dmaVars, useDma, xferVars, lock, irq, iir,
                   callback>>

PioEnds ==
    /\ irq = "pio"
    /\ fifo = <<>> \/ pio >= MaxPio
    /\ irq' = "tail"
    /\ UNCHANGED <<lineVars, hwVars, dmaVars, useDma, xferVars, lock, iir, pio,
                   callback, tty>>

\* The modem status and the transmitter, then the lock is released.
UnlockIrq ==
    /\ irq = "tail"
    /\ irq' = "idle"
    /\ lock' = "free"
    /\ UNCHANGED <<lineVars, hwVars, dmaVars, useDma, xferVars, iir, pio,
                   callback, tty>>

Handler ==
    \/ ReadIir
    \/ LockIrq
    \/ RxDmaSkips
    \/ RxDmaStarts
    \/ RxDmaBusy
    \/ PioByte
    \/ PioEnds
    \/ UnlockIrq

-----------------------------------------------------------------------------
(* The completion callback: fn_fast_uart_dma_rx_complete().               *)

\* The engine has moved the last byte: take the lock, mark the channel free
\* and turn the receive interrupts on again.
CompleteBegins ==
    /\ callback = "idle"
    /\ rxRunning
    /\ residue = 0
    /\ lock = "free"
    /\ lock' = "callback"
    /\ rxRunning' = FALSE
    /\ ierRdi' = TRUE
    /\ callback' = "push"
    /\ UNCHANGED <<lineVars, hwVars, dmaVars, useDma, xferLen, irqVars, tty>>

CompletePushesResidue ==        \* mutant: the residue taken for the count
    /\ callback = "push"
    /\ tty' = tty \o SubSeq(rxBuf, 1, residue)
    /\ rxBuf' = <<>>
    /\ lock' = "free"
    /\ callback' = "idle"
    /\ UNCHANGED <<lineVars, hwVars, residue, useDma, xferVars, irqVars>>

\* Hand rx_xfer_length - residue bytes of the buffer to the tty.
CompletePushes ==
    /\ callback = "push"
    /\ tty' = tty \o SubSeq(rxBuf, 1, xferLen - residue)
    /\ rxBuf' = <<>>
    /\ lock' = "free"
    /\ callback' = "idle"
    /\ UNCHANGED <<lineVars, hwVars, residue, useDma, xferVars, irqVars>>

Complete == CompleteBegins \/ CompletePushes

Line == Receive \/ LineError
Next == Line \/ Timeout \/ DmaBeat \/ ReadIirOther \/ Handler \/ Complete

Spec == Init /\ [][Next]_vars

(***************************************************************************)
(* The interrupt line and the timeout are level triggered: the handler     *)
(* runs as long as something is pending, and it runs to its end.  The      *)
(* engine serves a request that stays up.  The spinlock of this processor  *)
(* hands out tickets, so the callback gets it although the handler takes   *)
(* it over and over.  The line owes nothing, it may fall silent, and no    *)
(* other interrupt need ever come.                                         *)
(***************************************************************************)
FairSpec ==
    /\ Spec
    /\ WF_vars(Timeout)
    /\ WF_vars(DmaBeat)
    /\ WF_vars(Handler)
    /\ SF_vars(CompleteBegins)
    /\ WF_vars(CompletePushes)

-----------------------------------------------------------------------------
Bytes == 1 .. MaxBytes

FlagsOK ==
    /\ lineError \in BOOLEAN
    /\ rxTimeout \in BOOLEAN
    /\ ierRdi \in BOOLEAN
    /\ useDma \in BOOLEAN
    /\ rxRunning \in BOOLEAN

TypeOK ==
    /\ FlagsOK
    /\ arrived \in 0 .. MaxBytes
    /\ errors \in 0 .. MaxErrors
    /\ fifo \in Seq(Bytes) /\ rxBuf \in Seq(Bytes) /\ tty \in Seq(Bytes)
    /\ residue \in Nat
    /\ xferLen \in Nat
    /\ lock \in {"free", "irq", "callback"}
    /\ irq \in {"idle", "enter", "dma", "pio", "tail"}
    /\ iir \in {"none", "lineStatus", "data", "timeout", "other"}
    /\ pio \in 0 .. MaxPio
    /\ callback \in {"idle", "push"}

(* The lock is with whoever is between taking and releasing it. *)
Locking ==
    /\ lock = "irq" <=> irq \in {"dma", "pio", "tail"}
    /\ lock = "callback" <=> callback = "push"

(* What the driver records of a transfer is what the engine is doing. *)
Transfer ==
    /\ ierRdi <=> ~rxRunning
    /\ rxRunning \/ irq = "dma" => useDma
    /\ rxRunning =>
          /\ callback = "idle"
          /\ residue + Len(rxBuf) = xferLen
    /\ ~rxRunning =>
          /\ residue = 0
          /\ Len(rxBuf) = IF callback = "push" THEN xferLen ELSE 0

(***************************************************************************)
(* No byte the UART accepted is lost or delivered twice, whatever the      *)
(* handler, the engine and the callback do to each other: it is in exactly *)
(* one of the FIFO, the DMA buffer and the tty.                            *)
(***************************************************************************)
NothingLost ==
    /\ IsInjective(tty) /\ IsInjective(rxBuf) /\ IsInjective(fifo)
    /\ Range(tty) \cap (Range(rxBuf) \cup Range(fifo)) = {}
    /\ Range(rxBuf) \cap Range(fifo) = {}
    /\ Range(tty) \cup Range(rxBuf) \cup Range(fifo) = 1 .. arrived

(***************************************************************************)
(* The buffer is never handed to the engine again before its bytes have    *)
(* gone to the tty: a transfer is started only on an empty buffer, with no *)
(* callback of an earlier one outstanding.                                 *)
(***************************************************************************)
BufferHandedOver ==
    [][residue' > residue => rxBuf = <<>> /\ residue = 0 /\ callback = "idle"]_vars

(***************************************************************************)
(* As long as the line is clean the processor reads the FIFO only between  *)
(* transfers, because nothing but a line status interrupt makes it read    *)
(* beside one; a transfer in flight has all its bytes, and one more, in    *)
(* the FIFO, the reason the comment on fn_fast_uart_rx_dma() gives for     *)
(* never having to pause the engine; and the bytes keep the order of their *)
(* arrival, although they reach the tty by two routes.                     *)
(***************************************************************************)
NoRace ==
    /\ ~lineError /\ iir # "lineStatus"
    /\ irq = "pio" => ~rxRunning

DmaHasItsBytes == residue > 0 => residue < Len(fifo)

Arrivals(n) == [i \in 1 .. n |-> i]
InOrder == tty \o rxBuf \o fifo = Arrivals(arrived)

Clean == NoRace /\ DmaHasItsBytes /\ InOrder
CleanInv == errors = 0 => Clean

IInv == TypeOK /\ Locking /\ Transfer

(***************************************************************************)
(* "It will always complete without needing to be paused": a transfer that *)
(* was started ends (comment on fn_fast_uart_rx_dma()).                    *)
(***************************************************************************)
DmaCompletes == rxRunning ~> ~rxRunning

(***************************************************************************)
(* The port is a stream: bytes come out once, and, until the line makes an *)
(* error, in order and all of them, also the last one, which no transfer   *)
(* ever takes.                                                             *)
(***************************************************************************)
Stream == INSTANCE RxStream
StreamSpec == Stream!Spec
=============================================================================
