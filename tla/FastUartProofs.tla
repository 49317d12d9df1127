--------------------------- MODULE FastUartProofs ---------------------------
(***************************************************************************)
(* Theorems about the receive path, for every FIFO size, watermark, buffer *)
(* size and number of bytes and errors: no byte is lost, and until the     *)
(* first error the bytes stay in order and a transfer in flight has its    *)
(* bytes in the FIFO; every step is one of the stream RxStream specifies.  *)
(***************************************************************************)
EXTENDS FastUart, SequenceTheorems, TLAPS

(* The constants, without the watermark's lower bound. *)
LEMMA Sizes ==
    /\ FifoSize \in Nat /\ RxSize \in Nat \ {0} /\ MaxPio \in Nat \ {0}
    /\ MaxBytes \in Nat /\ MaxErrors \in Nat
  BY UartAssumption DEF UartAssumption

(* A transfer that is started has a positive length, below the FIFO's. *)
LEMMA XferLengthBounds ==
    ASSUME TypeOK, Len(fifo) > 1
    PROVE  /\ XferLength \in Nat \ {0}
           /\ XferLength < Len(fifo)
<1> DEFINE n == Len(fifo)
<1>1. n \in Nat /\ n > 1 /\ XferLength = Smaller(n - 1, RxSize)
  BY DEF TypeOK, XferLength
<1> HIDE DEF n
<1>2. XferLength \in Nat \ {0} /\ XferLength < n
  BY <1>1, Sizes DEF Smaller
<1> QED
  BY <1>2 DEF n

-----------------------------------------------------------------------------
(* On any line. *)

LEMMA InitInv == Init => IInv
<1> SUFFICES ASSUME Init PROVE IInv
  OBVIOUS
<1>1. <<>> \in Seq(Bytes) /\ Len(<<>>) = 0
  BY EmptySeq
<1>2. FlagsOK
  BY Zenon DEF Init, FlagsOK
<1>3. TypeOK
  BY <1>1, <1>2, Sizes DEF Init, TypeOK
<1>4. Locking
  BY DEF Init, Locking
<1>5. Transfer
  <2>1. (ierRdi <=> ~rxRunning) /\ ~(rxRunning \/ irq = "dma") /\ ~rxRunning
    BY Zenon DEF Init
  <2>2. residue = 0 /\ Len(rxBuf) = 0 /\ callback # "push"
    BY <1>1 DEF Init
  <2> QED
    BY <2>1, <2>2 DEF Transfer
<1> QED
  BY <1>3, <1>4, <1>5 DEF IInv

(* What the callback hands over is the whole buffer. *)
LEMMA PushIsWholeBuffer ==
    ASSUME IInv, callback = "push"
    PROVE  /\ ~rxRunning /\ residue = 0
           /\ SubSeq(rxBuf, 1, xferLen - residue) = rxBuf
<1>1. ~rxRunning /\ residue = 0 /\ Len(rxBuf) = xferLen
  BY DEF IInv, Transfer
<1>2. xferLen - residue = Len(rxBuf)
  BY <1>1 DEF IInv, TypeOK
<1> QED
  BY <1>1, <1>2, SubSeqFull DEF IInv, TypeOK

LEMMA NextFlagsOK == FlagsOK /\ [Next]_vars => FlagsOK'
<1> SUFFICES ASSUME FlagsOK, [Next]_vars PROVE FlagsOK'
  OBVIOUS
<1> USE DEF FlagsOK, lineVars, hwVars, dmaVars, xferVars, irqVars
<1>1. CASE Line
  BY <1>1, Zenon DEF Line, Receive, LineError
<1>2. CASE Timeout
  BY <1>2, Zenon DEF Timeout
<1>3. CASE DmaBeat
  BY <1>3, Zenon DEF DmaBeat
<1>4. CASE ReadIirOther
  BY <1>4, Zenon DEF ReadIirOther
<1>5. CASE Handler
  BY <1>5, ZenonT(60) DEF Handler, ReadIir, LockIrq, RxDmaSkips, RxDmaStarts,
              RxDmaBusy, PioByte, PioEnds, UnlockIrq
<1>6. CASE Complete
  BY <1>6, Zenon DEF Complete, CompleteBegins, CompletePushes
<1>7. CASE UNCHANGED vars
  BY <1>7, Zenon DEF vars
<1> QED
  BY <1>1, <1>2, <1>3, <1>4, <1>5, <1>6, <1>7 DEF Next

LEMMA NextTypeOK == IInv /\ [Next]_vars => TypeOK'
<1> SUFFICES ASSUME IInv, [Next]_vars PROVE TypeOK'
  OBVIOUS
<1>0. FlagsOK'
  BY NextFlagsOK DEF IInv, TypeOK
<1> USE <1>0, Sizes DEF IInv, TypeOK, Bytes
<1>1. CASE Receive
  BY <1>1 DEF Receive, dmaVars, xferVars, irqVars
<1>2. CASE LineError
  BY <1>2 DEF LineError, dmaVars, xferVars, irqVars
<1>3. CASE Timeout
  BY <1>3 DEF Timeout, lineVars, dmaVars, xferVars, irqVars
<1>4. CASE DmaBeat
  <2>1. fifo # <<>> /\ residue - 1 \in Nat
    BY <1>4 DEF DmaBeat
  <2>2. Head(fifo) \in Bytes /\ Tail(fifo) \in Seq(Bytes)
    BY <2>1, HeadTailProperties
  <2> QED
    BY <1>4, <2>1, <2>2 DEF DmaBeat, lineVars, xferVars, irqVars
<1>5. CASE ReadIir \/ ReadIirOther
  BY <1>5 DEF ReadIir, ReadIirOther, Pending, lineVars, hwVars, dmaVars,
              xferVars
<1>6. CASE LockIrq
  BY <1>6 DEF LockIrq, RouteByIir, lineVars, dmaVars, xferVars
<1>7. CASE RxDmaSkips
  BY <1>7 DEF RxDmaSkips, lineVars, hwVars, dmaVars, xferVars
<1>8. CASE RxDmaStarts
  <2>1. XferLength \in Nat
    BY <1>8, XferLengthBounds DEF RxDmaStarts
  <2> QED
    BY <1>8, <2>1 DEF RxDmaStarts, lineVars, hwVars
<1>9. CASE RxDmaBusy
  <2>1. XferLength \in Nat
    BY <1>9, XferLengthBounds DEF RxDmaBusy
  <2> QED
    BY <1>9, <2>1 DEF RxDmaBusy, lineVars, hwVars, dmaVars
<1>10. CASE PioByte
  <2>1. Head(fifo) \in Bytes /\ Tail(fifo) \in Seq(Bytes)
    BY <1>10, HeadTailProperties DEF PioByte
  <2> QED
    BY <1>10, <2>1 DEF PioByte, lineVars, dmaVars, xferVars
<1>11. CASE PioEnds
  BY <1>11 DEF PioEnds, lineVars, hwVars, dmaVars, xferVars
<1>12. CASE UnlockIrq
  BY <1>12 DEF UnlockIrq, lineVars, hwVars, dmaVars, xferVars
<1>13. CASE CompleteBegins
  BY <1>13 DEF CompleteBegins, lineVars, hwVars, dmaVars, irqVars
<1>14. CASE CompletePushes
  <2>1. SubSeq(rxBuf, 1, xferLen - residue) = rxBuf
    BY <1>14, PushIsWholeBuffer DEF CompletePushes
  <2>2. tty \o rxBuf \in Seq(Bytes) /\ <<>> \in Seq(Bytes)
    BY ConcatProperties
  <2> QED
    BY <1>14, <2>1, <2>2 DEF CompletePushes, lineVars, hwVars, xferVars, irqVars
<1>15. CASE UNCHANGED vars
  BY <1>15 DEF vars, lineVars, hwVars, dmaVars, xferVars, irqVars
<1> QED
  BY <1>1, <1>2, <1>3, <1>4, <1>5, <1>6, <1>7, <1>8, <1>9, <1>10, <1>11, <1>12,
     <1>13, <1>14, <1>15 DEF Next, Line, Handler, Complete

LEMMA NextLocking == IInv /\ [Next]_vars => Locking'
<1> SUFFICES ASSUME IInv, [Next]_vars PROVE Locking'
  OBVIOUS
<1> USE DEF IInv, TypeOK, Locking, irqVars
<1>1. CASE Line \/ Timeout \/ DmaBeat
  BY <1>1 DEF Line, Receive, LineError, Timeout, DmaBeat
<1>2. CASE ReadIir \/ ReadIirOther
  BY <1>2 DEF ReadIir, ReadIirOther
<1>3. CASE LockIrq
  BY <1>3 DEF LockIrq, RouteByIir
<1>4. CASE RxDmaSkips \/ RxDmaStarts \/ RxDmaBusy
  BY <1>4 DEF RxDmaSkips, RxDmaStarts, RxDmaBusy
<1>5. CASE PioByte \/ PioEnds \/ UnlockIrq
  BY <1>5 DEF PioByte, PioEnds, UnlockIrq
<1>6. CASE Complete
  BY <1>6 DEF Complete, CompleteBegins, CompletePushes
<1>7. CASE UNCHANGED vars
  BY <1>7 DEF vars
<1> QED
  BY <1>1, <1>2, <1>3, <1>4, <1>5, <1>6, <1>7 DEF Next, Handler

(* Only the two ends of a transfer, the engine and a failed start touch *)
(* what Transfer speaks of.                                             *)
LEMMA NextTransfer == IInv /\ [Next]_vars => Transfer'
<1> SUFFICES ASSUME IInv, [Next]_vars PROVE Transfer'
  OBVIOUS
<1> USE DEF dmaVars, xferVars
<1>a. Transfer
  BY DEF IInv
<1>1. CASE Line \/ Timeout
  BY <1>1, <1>a DEF Line, Receive, LineError, Timeout, Transfer, irqVars
<1>2. CASE DmaBeat
  <2>1. /\ residue \in Nat /\ Len(rxBuf) \in Nat
        /\ Len(rxBuf') = Len(rxBuf) + 1
    <3>1. fifo # <<>>
      BY <1>2 DEF DmaBeat, IInv, TypeOK
    <3>2. Head(fifo) \in Bytes
      BY <3>1, HeadTailProperties DEF IInv, TypeOK
    <3> QED
      BY <1>2, <3>2, AppendProperties DEF DmaBeat, IInv, TypeOK
  <2>2. rxRunning
    BY <1>2, <1>a DEF DmaBeat, Transfer
  <2> QED
    BY <1>2, <1>a, <2>1, <2>2 DEF DmaBeat, Transfer, irqVars
<1>3. CASE ReadIir \/ ReadIirOther
  BY <1>3, <1>a DEF ReadIir, ReadIirOther, Transfer
<1>4. CASE LockIrq
  BY <1>4, <1>a DEF LockIrq, RouteByIir, Transfer
<1>5. CASE RxDmaSkips
  BY <1>5, <1>a DEF RxDmaSkips, Transfer
<1>6. CASE RxDmaStarts
  <2>1. callback = "idle"
    BY <1>6 DEF RxDmaStarts, IInv, Locking, TypeOK
  <2>2. useDma /\ Len(rxBuf) = 0
    BY <1>6, <1>a, <2>1 DEF RxDmaStarts, Transfer
  <2>3. XferLength \in Nat
    BY <1>6, XferLengthBounds DEF RxDmaStarts, IInv
  <2> QED
    BY <1>6, <2>1, <2>2, <2>3 DEF RxDmaStarts, Transfer
<1>7. CASE RxDmaBusy
  <2>1. callback = "idle"
    BY <1>7 DEF RxDmaBusy, IInv, Locking, TypeOK
  <2> QED
    BY <1>7, <1>a, <2>1 DEF RxDmaBusy, Transfer
<1>8. CASE PioByte \/ PioEnds \/ UnlockIrq
  BY <1>8, <1>a DEF PioByte, PioEnds, UnlockIrq, Transfer
<1>9. CASE CompleteBegins
  BY <1>9, <1>a DEF CompleteBegins, Transfer, IInv, TypeOK, irqVars
<1>10. CASE CompletePushes
  <2>1. ~rxRunning /\ residue = 0
    BY <1>10, PushIsWholeBuffer DEF CompletePushes
  <2>2. Len(<<>>) = 0
    OBVIOUS
  <2> QED
    BY <1>10, <1>a, <2>1, <2>2 DEF CompletePushes, Transfer, irqVars
<1>11. CASE UNCHANGED vars
  BY <1>11, <1>a DEF vars, Transfer, irqVars
<1> QED
  BY <1>1, <1>2, <1>3, <1>4, <1>5, <1>6, <1>7, <1>8, <1>9, <1>10, <1>11
     DEF Next, Handler, Complete

LEMMA NextInv == IInv /\ [Next]_vars => IInv'
  BY NextTypeOK, NextLocking, NextTransfer DEF IInv

(* Types, the lock's holder, and the driver's record of the transfer       *)
(* (rx_running, the receive interrupt enable, rx_xfer_length) agreeing     *)
(* with what the engine does: in every reachable state, on any line.       *)
THEOREM Inductive == Spec => []IInv
  BY InitInv, NextInv, PTL DEF Spec

(* fn_fast_uart_rx_dma() hands the buffer to the engine only when the      *)
(* bytes of the earlier transfer have gone to the tty.                     *)
THEOREM BufferIsHandedOver == Spec => BufferHandedOver
<1> DEFINE HandedOver ==
      residue' > residue => rxBuf = <<>> /\ residue = 0 /\ callback = "idle"
<1>1. IInv /\ [Next]_vars => HandedOver
  <2> SUFFICES ASSUME IInv, [Next]_vars, residue' > residue
               PROVE  rxBuf = <<>> /\ residue = 0 /\ callback = "idle"
    OBVIOUS
  <2>1. residue \in Nat
    BY DEF IInv, TypeOK
  <2>2. ~ (residue' = residue) /\ ~ (residue' = residue - 1)
    BY <2>1
  <2>3. RxDmaStarts
    BY <2>2, Zenon DEF Next, Line, Handler, Complete, Receive, LineError, Timeout,
       DmaBeat, ReadIirOther, ReadIir, LockIrq, RxDmaSkips, RxDmaBusy, PioByte,
       PioEnds, UnlockIrq, CompleteBegins, CompletePushes, vars, dmaVars
  <2>4. ~rxRunning /\ callback = "idle"
    BY <2>3 DEF RxDmaStarts, IInv, Locking, TypeOK
  <2>5. residue = 0 /\ Len(rxBuf) = 0
    BY <2>4 DEF IInv, Transfer
  <2> QED
    BY <2>4, <2>5, EmptySeq DEF IInv, TypeOK
<1>2. Spec => [][HandedOver]_vars
  BY <1>1, Inductive, PTL DEF Spec
<1> QED
  BY <1>2 DEF BufferHandedOver

-----------------------------------------------------------------------------
(* No byte is lost.                                                        *)

LEMMA InjectiveIsByElements ==
    ASSUME NEW S, NEW s \in Seq(S)
    PROVE  /\ IsInjective(s) <=> \A i, j \in 1 .. Len(s) : s[i] = s[j] => i = j
           /\ Range(s) = {s[i] : i \in 1 .. Len(s)}
  BY DEF IsInjective, Range

\* The same of all sequences at once, for a primed one to be among them.
LEMMA AllByElements ==
    \A v \in Seq(Bytes) :
        /\ IsInjective(v) <=> \A i, j \in 1 .. Len(v) : v[i] = v[j] => i = j
        /\ Range(v) = {v[i] : i \in 1 .. Len(v)}
  BY DEF IsInjective, Range

LEMMA AppendByte ==
    ASSUME NEW S, NEW s \in Seq(S), NEW e \in S
    PROVE  /\ Append(s, e) \in Seq(S)
           /\ Range(Append(s, e)) = Range(s) \cup {e}
           /\ IsInjective(s) /\ e \notin Range(s) => IsInjective(Append(s, e))
<1> DEFINE t == Append(s, e)
           n == Len(s)
<1>1. /\ t \in Seq(S) /\ Len(t) = n + 1 /\ n \in Nat
      /\ t[n + 1] = e /\ \A i \in 1 .. n : t[i] = s[i]
  BY AppendProperties
<1>2. /\ IsInjective(s) <=> \A i, j \in 1 .. n : s[i] = s[j] => i = j
      /\ Range(s) = {s[i] : i \in 1 .. n}
  BY InjectiveIsByElements
<1>3. /\ IsInjective(t) <=> \A i, j \in 1 .. n + 1 : t[i] = t[j] => i = j
      /\ Range(t) = {t[i] : i \in 1 .. n + 1}
  BY <1>1, InjectiveIsByElements
<1> HIDE DEF t, n
<1>4. Range(t) = Range(s) \cup {e}
  BY <1>1, <1>2, <1>3
<1>5. IsInjective(s) /\ e \notin Range(s) => IsInjective(t)
  BY <1>1, <1>2, <1>3
<1> QED
  BY <1>1, <1>4, <1>5 DEF t

LEMMA TakeByte ==
    ASSUME NEW S, NEW s \in Seq(S), s # <<>>
    PROVE  /\ Head(s) \in S /\ Tail(s) \in Seq(S)
           /\ Range(s) = Range(Tail(s)) \cup {Head(s)}
           /\ IsInjective(s) => /\ IsInjective(Tail(s))
                                /\ Head(s) \notin Range(Tail(s))
<1> DEFINE t == Tail(s)
           n == Len(s)
<1>1. /\ Head(s) = s[1] /\ Head(s) \in S /\ t \in Seq(S)
      /\ n \in Nat \ {0} /\ Len(t) = n - 1
      /\ \A i \in 1 .. n - 1 : t[i] = s[i + 1]
  BY HeadTailProperties, LenProperties, EmptySeq
<1>2. /\ IsInjective(s) <=> \A i, j \in 1 .. n : s[i] = s[j] => i = j
      /\ Range(s) = {s[i] : i \in 1 .. n}
  BY InjectiveIsByElements
<1>3. /\ IsInjective(t) <=> \A i, j \in 1 .. n - 1 : t[i] = t[j] => i = j
      /\ Range(t) = {t[i] : i \in 1 .. n - 1}
  <2> HIDE DEF t, n
  <2>1. /\ IsInjective(t) <=> \A i, j \in 1 .. Len(t) : t[i] = t[j] => i = j
        /\ Range(t) = {t[i] : i \in 1 .. Len(t)}
    BY <1>1, InjectiveIsByElements, ZenonT(60)
  <2> QED
    BY <1>1, <2>1, Zenon
<1> HIDE DEF t, n
<1>4. Range(s) = Range(t) \cup {s[1]}
  <2>1. ASSUME NEW i \in 1 .. n, i # 1 PROVE s[i] = t[i - 1] /\ i - 1 \in 1 .. n - 1
    BY <1>1, <2>1
  <2>2. ASSUME NEW i \in 1 .. n - 1 PROVE t[i] = s[i + 1] /\ i + 1 \in 1 .. n
    BY <1>1
  <2>3. 1 \in 1 .. n
    BY <1>1
  <2> QED
    BY <1>2, <1>3, <2>1, <2>2, <2>3
<1>5. ASSUME IsInjective(s) PROVE IsInjective(t) /\ s[1] \notin Range(t)
  BY <1>1, <1>2, <1>3, <1>5
<1> QED
  BY <1>1, <1>4, <1>5 DEF t

LEMMA JoinBytes ==
    ASSUME NEW S, NEW s \in Seq(S), NEW t \in Seq(S)
    PROVE  /\ s \o t \in Seq(S)
           /\ Range(s \o t) = Range(s) \cup Range(t)
           /\ IsInjective(s) /\ IsInjective(t) /\ Range(s) \cap Range(t) = {}
                 => IsInjective(s \o t)
<1> DEFINE u == s \o t
           m == Len(s)
           n == Len(t)
<1>1. /\ u \in Seq(S) /\ Len(u) = m + n /\ m \in Nat /\ n \in Nat
      /\ \A i \in 1 .. m + n : u[i] = IF i <= m THEN s[i] ELSE t[i - m]
  BY ConcatProperties, LenProperties
<1>2. /\ IsInjective(s) <=> \A i, j \in 1 .. m : s[i] = s[j] => i = j
      /\ Range(s) = {s[i] : i \in 1 .. m}
      /\ IsInjective(t) <=> \A i, j \in 1 .. n : t[i] = t[j] => i = j
      /\ Range(t) = {t[i] : i \in 1 .. n}
  BY InjectiveIsByElements
<1>3. IsInjective(u) <=> \A i, j \in 1 .. m + n : u[i] = u[j] => i = j
  BY <1>1, InjectiveIsByElements
<1>4. Range(u) = Range(s) \cup Range(t)
  BY RangeConcatenation
<1> HIDE DEF u, m, n
<1>5. ASSUME IsInjective(s), IsInjective(t), Range(s) \cap Range(t) = {}
      PROVE  IsInjective(u)
  <2> SUFFICES ASSUME NEW i \in 1 .. m + n, NEW j \in 1 .. m + n, u[i] = u[j]
               PROVE  i = j
    BY <1>3
  <2>1. CASE i <= m /\ j <= m
    BY <1>1, <1>2, <1>5, <2>1
  <2>2. CASE ~(i <= m) /\ ~(j <= m)
    <3>1. i - m \in 1 .. n /\ j - m \in 1 .. n /\ t[i - m] = t[j - m]
      BY <1>1, <2>2
    <3>2. i - m = j - m
      BY <1>2, <1>5, <3>1
    <3> QED
      BY <1>1, <3>2
  <2>3. CASE i <= m /\ ~(j <= m)
    <3>1. i \in 1 .. m /\ j - m \in 1 .. n /\ s[i] = t[j - m]
      BY <1>1, <2>3
    <3>2. s[i] \in Range(s) /\ t[j - m] \in Range(t)
      BY <1>2, <3>1, Zenon
    <3> QED
      BY <1>5, <3>1, <3>2, Zenon
  <2>4. CASE ~(i <= m) /\ j <= m
    <3>1. j \in 1 .. m /\ i - m \in 1 .. n /\ s[j] = t[i - m]
      BY <1>1, <2>4
    <3>2. s[j] \in Range(s) /\ t[i - m] \in Range(t)
      BY <1>2, <3>1, Zenon
    <3> QED
      BY <1>5, <3>1, <3>2, Zenon
  <2> QED
    BY <2>1, <2>2, <2>3, <2>4
<1> QED
  BY <1>1, <1>4, <1>5 DEF u

LEMMA NextNothingLost ==
    IInv /\ NothingLost /\ [Next]_vars => NothingLost'
<1> SUFFICES ASSUME IInv, NothingLost, [Next]_vars PROVE NothingLost'
  OBVIOUS
<1>a. /\ fifo \in Seq(Bytes) /\ rxBuf \in Seq(Bytes) /\ tty \in Seq(Bytes)
      /\ arrived \in Nat
  BY Sizes DEF IInv, TypeOK
<1>b. /\ IsInjective(tty) /\ IsInjective(rxBuf) /\ IsInjective(fifo)
      /\ Range(tty) \cap (Range(rxBuf) \cup Range(fifo)) = {}
      /\ Range(rxBuf) \cap Range(fifo) = {}
      /\ Range(tty) \cup Range(rxBuf) \cup Range(fifo) = 1 .. arrived
  BY DEF NothingLost
<1>1. CASE Receive
  <2>1. arrived + 1 \in Bytes
    BY <1>1, Sizes DEF Receive, Bytes, IInv, TypeOK
  <2>2. arrived + 1 \notin 1 .. arrived
        /\ 1 .. arrived + 1 = (1 .. arrived) \cup {arrived + 1}
    BY <1>a
  <2>3. arrived + 1 \notin Range(fifo)
    BY <1>b, <2>2
  <2>4. Range(fifo') = Range(fifo) \cup {arrived + 1} /\ IsInjective(fifo')
    BY <1>1, <1>a, <1>b, <2>1, <2>3, AppendByte DEF Receive
  <2>5. tty' = tty /\ rxBuf' = rxBuf /\ arrived' = arrived + 1
    BY <1>1 DEF Receive, dmaVars
  <2> QED
    BY <1>b, <2>2, <2>4, <2>5 DEF NothingLost
<1>2. CASE DmaBeat
  <2>1. fifo # <<>>
    BY <1>2, <1>a DEF DmaBeat
  <2>2. /\ Head(fifo) \in Bytes /\ Range(fifo) = Range(fifo') \cup {Head(fifo)}
        /\ IsInjective(fifo') /\ Head(fifo) \notin Range(fifo')
    BY <1>2, <1>a, <1>b, <2>1, TakeByte DEF DmaBeat
  <2>3. Range(rxBuf') = Range(rxBuf) \cup {Head(fifo)} /\ IsInjective(rxBuf')
    BY <1>2, <1>a, <1>b, <2>2, AppendByte DEF DmaBeat
  <2>4. tty' = tty /\ arrived' = arrived
    BY <1>2 DEF DmaBeat, lineVars
  <2> QED
    BY <1>b, <2>2, <2>3, <2>4 DEF NothingLost
<1>3. CASE PioByte
  <2>1. fifo # <<>>
    BY <1>3 DEF PioByte
  <2>2. /\ Head(fifo) \in Bytes /\ Range(fifo) = Range(fifo') \cup {Head(fifo)}
        /\ IsInjective(fifo') /\ Head(fifo) \notin Range(fifo')
    BY <1>3, <1>a, <1>b, <2>1, TakeByte DEF PioByte
  <2>3. Range(tty') = Range(tty) \cup {Head(fifo)} /\ IsInjective(tty')
    BY <1>3, <1>a, <1>b, <2>2, AppendByte DEF PioByte
  <2>4. rxBuf' = rxBuf /\ arrived' = arrived
    BY <1>3 DEF PioByte, dmaVars, lineVars
  <2> QED
    BY <1>b, <2>2, <2>3, <2>4 DEF NothingLost
<1>4. CASE CompletePushes
  <2>1. tty' = tty \o rxBuf /\ rxBuf' = <<>> /\ fifo' = fifo /\ arrived' = arrived
    BY <1>4, PushIsWholeBuffer DEF CompletePushes, hwVars, lineVars
  <2>2. Range(tty') = Range(tty) \cup Range(rxBuf) /\ IsInjective(tty')
    BY <1>a, <1>b, <2>1, JoinBytes
  <2>3. Range(rxBuf') = {} /\ IsInjective(rxBuf')
    BY <2>1 DEF Range, IsInjective
  <2> QED
    BY <1>b, <2>1, <2>2, <2>3 DEF NothingLost
<1>5. CASE UNCHANGED <<tty, rxBuf, fifo, arrived>>
  BY <1>5, <1>b DEF NothingLost
<1>6. \/ Receive \/ DmaBeat \/ PioByte \/ CompletePushes
      \/ UNCHANGED <<tty, rxBuf, fifo, arrived>>
  BY Zenon DEF Next, Line, Handler, Complete, LineError, Timeout, ReadIirOther,
     ReadIir, LockIrq, RxDmaSkips, RxDmaStarts, RxDmaBusy, PioEnds, UnlockIrq,
     CompleteBegins, vars, lineVars, hwVars, dmaVars
<1> QED
  BY <1>1, <1>2, <1>3, <1>4, <1>5, <1>6

(* Whatever the handler, the engine and the callback do, on any line, every *)
(* accepted byte is in exactly one of the FIFO, the DMA buffer and the tty. *)
THEOREM NoByteLost == Spec => []NothingLost
<1>1. Init => NothingLost
  BY DEF Init, NothingLost, Range, IsInjective
<1> QED
  BY <1>1, NextNothingLost, Inductive, PTL DEF Spec

-----------------------------------------------------------------------------
(* Until the line makes an error. *)

(* Without line errors the processor reads only between transfers. *)
LEMMA NextNoRace ==
    ASSUME IInv, NoRace, [Next]_vars, ~LineError
    PROVE  NoRace'
<1> USE DEF NoRace, lineVars, hwVars, dmaVars, xferVars, irqVars
<1>1. CASE Receive
  BY <1>1 DEF Receive
<1>2. CASE Timeout \/ DmaBeat \/ ReadIirOther
  BY <1>2 DEF Timeout, DmaBeat, ReadIirOther
<1>3. CASE ReadIir
  BY <1>3 DEF ReadIir, Pending
<1>4. CASE LockIrq
  <2>1. ~useDma => ~rxRunning
    BY DEF IInv, Transfer
  <2>2. ~lineError' /\ iir' # "lineStatus" /\ rxRunning' = rxRunning
    BY <1>4 DEF LockIrq
  <2>3. irq' = "pio" => ~rxRunning
    BY <1>4, <2>1 DEF LockIrq, RouteByIir
  <2> QED
    BY <2>2, <2>3
<1>5. CASE RxDmaSkips \/ RxDmaStarts \/ RxDmaBusy
  BY <1>5 DEF RxDmaSkips, RxDmaStarts, RxDmaBusy
<1>6. CASE PioByte \/ PioEnds \/ UnlockIrq
  BY <1>6 DEF PioByte, PioEnds, UnlockIrq
<1>7. CASE Complete
  BY <1>7 DEF Complete, CompleteBegins, CompletePushes
<1>8. CASE UNCHANGED vars
  BY <1>8 DEF vars
<1> QED
  BY <1>1, <1>2, <1>3, <1>4, <1>5, <1>6, <1>7, <1>8 DEF Next, Line, Handler

(* The level can only rise above what the engine still has to take. *)
LEMMA NextHasItsBytes ==
    ASSUME IInv, NoRace, DmaHasItsBytes, [Next]_vars
    PROVE  DmaHasItsBytes'
<1>a. /\ fifo \in Seq(Bytes) /\ Len(fifo) \in Nat /\ residue \in Nat
      /\ arrived \in Nat
      /\ residue > 0 => residue < Len(fifo)
  BY DEF IInv, TypeOK, DmaHasItsBytes
<1>1. CASE Receive
  <2>1. arrived + 1 \in Bytes
    BY <1>1, Sizes DEF Receive, Bytes, IInv, TypeOK
  <2>2. Len(fifo') = Len(fifo) + 1 /\ residue' = residue
    BY <1>1, <1>a, <2>1, AppendProperties DEF Receive, dmaVars
  <2> QED
    BY <1>a, <2>2 DEF DmaHasItsBytes
<1>2. CASE DmaBeat
  <2>1. fifo # <<>>
    BY <1>2, <1>a DEF DmaBeat
  <2>2. Len(fifo') = Len(fifo) - 1 /\ residue' = residue - 1
    BY <1>2, <1>a, <2>1, HeadTailProperties DEF DmaBeat
  <2> QED
    BY <1>a, <2>2 DEF DmaHasItsBytes
<1>3. CASE PioByte
  <2>1. residue = 0 /\ residue' = residue
    BY <1>3 DEF PioByte, NoRace, IInv, Transfer, dmaVars
  <2> QED
    BY <2>1 DEF DmaHasItsBytes
<1>4. CASE RxDmaStarts
  <2>1. residue' = XferLength /\ fifo' = fifo /\ XferLength < Len(fifo)
    BY <1>4, XferLengthBounds DEF RxDmaStarts, IInv, hwVars
  <2> QED
    BY <2>1 DEF DmaHasItsBytes
<1>5. CASE UNCHANGED <<fifo, residue>>
  BY <1>5 DEF DmaHasItsBytes
<1>6. \/ Receive \/ DmaBeat \/ PioByte \/ RxDmaStarts
      \/ UNCHANGED <<fifo, residue>>
  BY Zenon DEF Next, Line, Handler, Complete, LineError, Timeout, ReadIirOther,
     ReadIir, LockIrq, RxDmaSkips, RxDmaBusy, PioEnds, UnlockIrq,
     CompleteBegins, CompletePushes, vars, hwVars, dmaVars
<1> QED
  BY <1>1, <1>2, <1>3, <1>4, <1>5, <1>6

-----------------------------------------------------------------------------
(* Order.                                                                  *)

LEMMA ArrivalsIsSeq ==
    ASSUME NEW n \in Nat
    PROVE  /\ Arrivals(n) \in Seq(Nat)
           /\ Len(Arrivals(n)) = n
           /\ \A i \in 1 .. n : Arrivals(n)[i] = i
  BY DEF Arrivals

LEMMA OneMoreArrival ==
    ASSUME NEW n \in Nat
    PROVE  Append(Arrivals(n), n + 1) = Arrivals(n + 1)
<1> DEFINE s == Append(Arrivals(n), n + 1)
<1>1. /\ s \in Seq(Nat) /\ Len(s) = n + 1
      /\ \A i \in 1 .. n : s[i] = i
      /\ s[n + 1] = n + 1
  <2>1. /\ Arrivals(n) \in Seq(Nat) /\ Len(Arrivals(n)) = n
        /\ \A i \in 1 .. n : Arrivals(n)[i] = i
    BY ArrivalsIsSeq
  <2>2. n + 1 \in Nat
    OBVIOUS
  <2> QED
    BY <2>1, <2>2, AppendProperties
<1>2. /\ Arrivals(n + 1) \in Seq(Nat) /\ Len(Arrivals(n + 1)) = n + 1
      /\ \A i \in 1 .. n + 1 : Arrivals(n + 1)[i] = i
  BY ArrivalsIsSeq, n + 1 \in Nat
<1> HIDE DEF s
<1>3. \A i \in 1 .. n + 1 : s[i] = Arrivals(n + 1)[i]
  BY <1>1, <1>2
<1>4. s = Arrivals(n + 1)
  BY <1>1, <1>2, <1>3, SeqEqual
<1> QED
  BY <1>4 DEF s

LEMMA Associative ==
    \A s \in Seq(Bytes), t \in Seq(Bytes), u \in Seq(Bytes) :
        (s \o t) \o u = s \o (t \o u)
  BY ConcatAssociative, SMTT(60)

(* A byte that moves from the front of one part to the back of the part    *)
(* before it leaves the whole as it was.                                   *)
LEMMA MoveByte ==
    ASSUME NEW S, NEW s \in Seq(S), NEW t \in Seq(S), t # <<>>
    PROVE  Append(s, Head(t)) \o Tail(t) = s \o t
<1>1. Head(t) \in S /\ Tail(t) \in Seq(S)
  BY HeadTailProperties
<1>2. <<Head(t)>> \in Seq(S) /\ Append(s, Head(t)) = s \o <<Head(t)>>
  BY <1>1, AppendIsConcat
<1>3. <<Head(t)>> \o Tail(t) = t
  BY <1>1
<1> QED
  BY <1>1, <1>2, <1>3, ConcatAssociative, SMTT(60)

LEMMA AppendToPart ==
    ASSUME NEW s \in Seq(Bytes), NEW t \in Seq(Bytes), NEW e \in Bytes
    PROVE  s \o Append(t, e) = Append(s \o t, e)
<1>1. <<e>> \in Seq(Bytes) /\ s \o t \in Seq(Bytes)
  BY ConcatProperties
<1>2. Append(t, e) = t \o <<e>> /\ Append(s \o t, e) = (s \o t) \o <<e>>
  BY <1>1, AppendIsConcat
<1>3. (s \o t) \o <<e>> = s \o (t \o <<e>>)
  BY <1>1, Associative, SMTT(60)
<1> QED
  BY <1>2, <1>3

LEMMA NextInOrder ==
    ASSUME IInv, NoRace, InOrder, [Next]_vars
    PROVE  InOrder'
<1>a. /\ fifo \in Seq(Bytes) /\ rxBuf \in Seq(Bytes) /\ tty \in Seq(Bytes)
      /\ Len(fifo) \in Nat /\ arrived \in Nat
      /\ tty \o rxBuf \o fifo = Arrivals(arrived)
  BY DEF IInv, TypeOK, InOrder
<1>b. tty \o rxBuf \in Seq(Bytes)
  BY <1>a, ConcatProperties
<1>1. CASE Receive
  <2>1. arrived + 1 \in Bytes /\ arrived' = arrived + 1
    BY <1>1, Sizes DEF Receive, Bytes, IInv, TypeOK
  <2>2. (tty' \o rxBuf') \o fifo' = (tty \o rxBuf) \o Append(fifo, arrived + 1)
    BY <1>1 DEF Receive, dmaVars
  <2>3. (tty \o rxBuf) \o Append(fifo, arrived + 1)
            = Append((tty \o rxBuf) \o fifo, arrived + 1)
    BY <1>a, <1>b, <2>1, AppendToPart
  <2>4. Append(Arrivals(arrived), arrived + 1) = Arrivals(arrived')
    BY <1>a, <2>1, OneMoreArrival
  <2> QED
    BY <1>a, <2>2, <2>3, <2>4 DEF InOrder
<1>2. CASE DmaBeat
  <2>1. fifo # <<>>
    BY <1>2, <1>a DEF DmaBeat
  <2>2. /\ Head(fifo) \in Bytes /\ Tail(fifo) \in Seq(Bytes)
        /\ Append(rxBuf, Head(fifo)) \in Seq(Bytes)
    BY <1>a, <2>1, HeadTailProperties, AppendProperties
  <2>3. /\ tty' = tty /\ arrived' = arrived /\ fifo' = Tail(fifo)
        /\ rxBuf' = Append(rxBuf, Head(fifo))
    BY <1>2 DEF DmaBeat, lineVars
  <2>4. (tty \o rxBuf') \o fifo' = tty \o (rxBuf' \o fifo')
    BY <1>a, <2>2, <2>3, Associative
  <2>5. rxBuf' \o fifo' = rxBuf \o fifo
    BY <1>a, <2>1, <2>3, MoveByte
  <2>6. tty \o (rxBuf \o fifo) = (tty \o rxBuf) \o fifo
    BY <1>a, Associative
  <2> QED
    BY <1>a, <2>3, <2>4, <2>5, <2>6 DEF InOrder
<1>3. CASE PioByte
  <2>1. ~rxRunning /\ callback = "idle"
    BY <1>3 DEF PioByte, NoRace, IInv, Locking, TypeOK
  <2>2. rxBuf = <<>>
    BY <1>a, <2>1, EmptySeq DEF IInv, Transfer
  <2>3. /\ tty' = Append(tty, Head(fifo)) /\ fifo' = Tail(fifo) /\ fifo # <<>>
        /\ rxBuf' = <<>> /\ arrived' = arrived
    BY <1>3, <2>2 DEF PioByte, lineVars, dmaVars
  <2>4. tty' \in Seq(Bytes)
    BY <1>a, <2>3, HeadTailProperties, AppendProperties
  <2>5. tty' \o fifo' = tty \o fifo
    BY <1>a, <2>3, MoveByte
  <2>6. tty' \o <<>> = tty' /\ tty \o <<>> = tty
    BY <1>a, <2>4, ConcatEmptySeq
  <2> QED
    BY <1>a, <2>2, <2>3, <2>5, <2>6 DEF InOrder
<1>4. CASE CompletePushes
  <2>1. tty' = tty \o rxBuf /\ rxBuf' = <<>> /\ fifo' = fifo /\ arrived' = arrived
    BY <1>4, PushIsWholeBuffer DEF CompletePushes, hwVars, lineVars
  <2>2. tty' \o <<>> = tty'
    BY <1>b, <2>1, ConcatEmptySeq
  <2> QED
    BY <1>a, <2>1, <2>2 DEF InOrder
<1>5. CASE UNCHANGED <<tty, rxBuf, fifo, arrived>>
  BY <1>5, <1>a DEF InOrder
<1>6. \/ Receive \/ DmaBeat \/ PioByte \/ CompletePushes
      \/ UNCHANGED <<tty, rxBuf, fifo, arrived>>
  BY Zenon DEF Next, Line, Handler, Complete, LineError, Timeout, ReadIirOther,
     ReadIir, LockIrq, RxDmaSkips, RxDmaStarts, RxDmaBusy, PioEnds, UnlockIrq,
     CompleteBegins, vars, lineVars, hwVars, dmaVars
<1> QED
  BY <1>1, <1>2, <1>3, <1>4, <1>5, <1>6

LEMMA NextCleanInv == IInv /\ CleanInv /\ [Next]_vars => CleanInv'
<1> SUFFICES ASSUME IInv, CleanInv, [Next]_vars, errors' = 0 PROVE Clean'
  BY DEF CleanInv
<1>1. errors \in Nat
  BY Sizes DEF IInv, TypeOK
<1>2. ~LineError
  BY <1>1 DEF LineError
<1>3. errors' = errors
  BY <1>2, Zenon DEF Next, Line, Handler, Complete, Receive, Timeout, DmaBeat,
     ReadIirOther, ReadIir, LockIrq, RxDmaSkips, RxDmaStarts, RxDmaBusy, PioByte,
     PioEnds, UnlockIrq, CompleteBegins, CompletePushes, vars, lineVars
<1>4. NoRace /\ DmaHasItsBytes /\ InOrder
  BY <1>3 DEF CleanInv, Clean
<1> QED
  BY <1>2, <1>4, NextNoRace, NextHasItsBytes, NextInOrder DEF Clean

(* Until the line makes an error the two routes never overlap, a transfer  *)
(* finds its bytes in the FIFO, and the bytes reach the tty in order.      *)
THEOREM CleanLine == Spec => []CleanInv
<1>1. Init => CleanInv
  <2> SUFFICES ASSUME Init PROVE Clean
    BY DEF CleanInv
  <2>1. NoRace /\ DmaHasItsBytes
    BY DEF Init, NoRace, DmaHasItsBytes
  <2>2. <<>> \o <<>> \o <<>> = <<>> /\ Arrivals(0) = <<>>
    BY ArrivalsIsSeq, EmptySeq
  <2> QED
    BY <2>1, <2>2 DEF Init, Clean, InOrder
<1> QED
  BY <1>1, NextCleanInv, Inductive, PTL DEF Spec

-----------------------------------------------------------------------------
(* The stream.                                                             *)

(* Bytes in order, cut anywhere, leave bytes in order. *)
LEMMA PrefixOfArrivals ==
    ASSUME NEW s \in Seq(Bytes), NEW t \in Seq(Bytes), NEW n \in Nat,
           s \o t = Arrivals(n)
    PROVE  Len(s) \in 0 .. n /\ s = Arrivals(Len(s))
<1>1. /\ Len(s \o t) = Len(s) + Len(t)
      /\ \A i \in 1 .. Len(s) + Len(t) :
            (s \o t)[i] = IF i <= Len(s) THEN s[i] ELSE t[i - Len(s)]
  BY ConcatProperties
<1>2. Len(s) \in Nat /\ Len(t) \in Nat /\ n = Len(s) + Len(t)
  BY <1>1, ArrivalsIsSeq
<1>3. \A i \in 1 .. n : Arrivals(n)[i] = i
  BY ArrivalsIsSeq
<1>4. \A i \in 1 .. Len(s) : s[i] = i
  <2> SUFFICES ASSUME NEW i \in 1 .. Len(s) PROVE s[i] = i
    OBVIOUS
  <2>1. i \in 1 .. Len(s) + Len(t) /\ i \in 1 .. n /\ i <= Len(s)
    BY <1>2
  <2>2. (s \o t)[i] = s[i]
    BY <1>1, <2>1
  <2>3. (s \o t)[i] = i
    BY <1>3, <2>1
  <2> QED
    BY <2>2, <2>3
<1>5. /\ Arrivals(Len(s)) \in Seq(Nat) /\ Len(Arrivals(Len(s))) = Len(s)
      /\ \A i \in 1 .. Len(s) : Arrivals(Len(s))[i] = i
  BY <1>2, ArrivalsIsSeq
<1>6. s \in Seq(Nat)
  <2>1. Bytes \subseteq Nat
    BY Sizes DEF Bytes
  <2> QED
    BY <2>1, SeqMonotonic
<1>7. s = Arrivals(Len(s))
  BY <1>4, <1>5, <1>6, SeqEqual
<1> QED
  BY <1>2, <1>7

(* The tty holds the first bytes of the line, all of them from the first. *)
TtyPrefix == Len(tty) \in 0 .. arrived /\ tty = Arrivals(Len(tty))

LEMMA TtyIsPrefix == IInv /\ InOrder => TtyPrefix
<1> SUFFICES ASSUME IInv, InOrder PROVE TtyPrefix
  OBVIOUS
<1>1. /\ tty \in Seq(Bytes) /\ rxBuf \in Seq(Bytes) /\ fifo \in Seq(Bytes)
      /\ arrived \in Nat /\ rxBuf \o fifo \in Seq(Bytes)
  BY ConcatProperties DEF IInv, TypeOK
<1>2. tty \o (rxBuf \o fifo) = Arrivals(arrived)
  BY <1>1, Associative DEF InOrder
<1> QED
  BY <1>1, <1>2, PrefixOfArrivals DEF TtyPrefix

StreamInv == IInv /\ NothingLost /\ (errors = 0 => TtyPrefix)

(* What the driver adds to the tty is a delivery. *)
LEMMA Delivers ==
    ASSUME StreamInv, StreamInv', UNCHANGED lineVars,
           NEW s \in Seq(Bytes), s # <<>>, tty' = tty \o s
    PROVE  Stream!Deliver \/ Stream!DeliverDisordered
<1>1. /\ tty \in Seq(Bytes) /\ arrived' = arrived /\ errors' = errors
      /\ errors \in Nat /\ arrived \in Nat
  BY Sizes DEF StreamInv, IInv, TypeOK, lineVars
<1>2. /\ tty' \in Seq(Bytes)
      /\ Len(tty') = Len(tty) + Len(s) /\ Len(tty) \in Nat /\ Len(s) \in Nat \ {0}
      /\ \A i \in 1 .. Len(tty) : tty'[i] = tty[i]
  <2>1. /\ Len(tty) \in Nat /\ Len(s) \in Nat \ {0}
        /\ Len(tty') = Len(tty) + Len(s) /\ tty' \in Seq(Bytes)
    BY <1>1, ConcatProperties, LenProperties, EmptySeq
  <2> QED
    BY <1>1, <2>1, ConcatProperties
<1>3. CASE errors = 0
  <2>1. Len(tty') \in 0 .. arrived /\ tty' = Arrivals(Len(tty'))
    BY <1>1, <1>3 DEF StreamInv, TtyPrefix, Arrivals
  <2>2. Len(tty') \in Len(tty) + 1 .. arrived
    BY <1>1, <1>2, <2>1
  <2> QED
    BY <1>1, <1>3, <2>1, <2>2 DEF Stream!Deliver, Stream!Arrivals, Arrivals
<1>4. CASE errors # 0
  <2>1. IsInjective(tty') /\ Range(tty') \subseteq 1 .. arrived
    BY <1>1 DEF StreamInv, NothingLost
  <2>2. /\ \A i, j \in 1 .. Len(tty') : tty'[i] = tty'[j] => i = j
        /\ \A i \in 1 .. Len(tty') : tty'[i] \in 1 .. arrived
    <3>1. /\ IsInjective(tty') <=>
                \A i, j \in 1 .. Len(tty') : tty'[i] = tty'[j] => i = j
          /\ Range(tty') = {tty'[i] : i \in 1 .. Len(tty')}
      <4>1. tty' \in Seq(Bytes)
        BY <1>2
      <4> QED
        BY <4>1, AllByElements, Zenon
    <3>2. \A i \in 1 .. Len(tty') : tty'[i] \in Range(tty')
      BY <3>1, Zenon
    <3> QED
      BY <2>1, <3>1, <3>2, Zenon
  <2>3. Len(tty) < Len(tty')
    BY <1>2
  <2> QED
    BY <1>1, <1>2, <1>4, <2>2, <2>3 DEF Stream!DeliverDisordered, Stream!Extends
<1> QED
  BY <1>3, <1>4

LEMMA StepsOfStream ==
    ASSUME StreamInv, StreamInv', [Next]_vars
    PROVE  [Stream!Next]_(Stream!vars)
<1> USE DEF Stream!vars, Stream!Next
<1>a. /\ tty \in Seq(Bytes) /\ fifo \in Seq(Bytes) /\ rxBuf \in Seq(Bytes)
      /\ IInv
  BY DEF StreamInv, IInv, TypeOK
<1>1. CASE Receive
  BY <1>1 DEF Receive, Stream!Accept
<1>2. CASE LineError
  BY <1>2 DEF LineError, Stream!Error
<1>3. CASE PioByte
  <2>1. tty' = Append(tty, Head(fifo)) /\ fifo # <<>> /\ UNCHANGED lineVars
    BY <1>3 DEF PioByte
  <2>2. <<Head(fifo)>> \in Seq(Bytes) /\ tty' = tty \o <<Head(fifo)>>
    BY <1>a, <2>1, HeadTailProperties, AppendIsConcat
  <2>3. <<Head(fifo)>> # <<>>
    OBVIOUS
  <2> QED
    BY <2>1, <2>2, <2>3, Delivers
<1>4. CASE CompletePushes
  <2>1. tty' = tty \o rxBuf /\ UNCHANGED lineVars
    BY <1>a, <1>4, PushIsWholeBuffer DEF CompletePushes
  <2>2. CASE rxBuf = <<>>
    <3>1. tty' = tty
      BY <1>a, <2>1, <2>2, ConcatEmptySeq
    <3> QED
      BY <2>1, <3>1 DEF lineVars
  <2>3. CASE rxBuf # <<>>
    BY <1>a, <2>1, <2>3, Delivers
  <2> QED
    BY <2>2, <2>3
<1>5. CASE UNCHANGED <<arrived, errors, tty>>
  BY <1>5
<1>6. \/ Receive \/ LineError \/ PioByte \/ CompletePushes
      \/ UNCHANGED <<arrived, errors, tty>>
  BY Zenon DEF Next, Line, Handler, Complete, Timeout, ReadIirOther,
     ReadIir, LockIrq, RxDmaSkips, RxDmaStarts, RxDmaBusy, PioEnds, UnlockIrq,
     CompleteBegins, DmaBeat, vars, lineVars
<1> QED
  BY <1>1, <1>2, <1>3, <1>4, <1>5, <1>6

(* Every step of the driver is a step of the stream or does not touch it,  *)
(* on any line: the safety half of StreamSpec.                             *)
THEOREM ImplementsStream == Spec => Stream!Safety
<1>1. Init => Stream!Init
  BY DEF Init, Stream!Init
<1>2. IInv /\ CleanInv /\ NothingLost => StreamInv
  BY TtyIsPrefix DEF CleanInv, Clean, StreamInv
<1>3. StreamInv /\ StreamInv' /\ [Next]_vars => [Stream!Next]_(Stream!vars)
  BY StepsOfStream
<1> QED
  BY <1>1, <1>2, <1>3, Inductive, CleanLine, NoByteLost, PTL
     DEF Spec, Stream!Safety

-----------------------------------------------------------------------------
(* At rest.  Nothing is pending, no transfer moves or has to be completed, *)
(* and the timeout has expired if the FIFO holds anything: only the line   *)
(* can do something now.                                                   *)

AtRest ==
    /\ irq = "idle" /\ callback = "idle" /\ Pending = {}
    /\ ~(rxRunning /\ residue = 0)
    /\ residue = 0 \/ Len(fifo) <= 1
    /\ fifo = <<>> \/ rxTimeout

\* A transfer waits for bytes that are not there.
Starved == rxRunning /\ residue > 0 /\ Len(fifo) <= 1

DeliveredAtRest ==
    AtRest => IF errors = 0 THEN tty = Arrivals(arrived)
              ELSE Starved \/ Range(tty) = 1 .. arrived

LEMMA RestIsEmpty ==
    ASSUME IInv, AtRest, ~Starved
    PROVE  fifo = <<>> /\ rxBuf = <<>>
<1>1. /\ residue \in Nat /\ Len(fifo) \in Nat
      /\ rxBuf \in Seq(Bytes) /\ rxTimeout \in BOOLEAN /\ ierRdi \in BOOLEAN
  BY DEF IInv, TypeOK, FlagsOK
<1>2. ~rxRunning
  BY <1>1 DEF AtRest, Starved
<1>3. ierRdi /\ Len(rxBuf) = 0
  BY <1>2 DEF IInv, Transfer, AtRest
<1>4. ~rxTimeout
  BY <1>3 DEF AtRest, Pending
<1> QED
  BY <1>1, <1>3, <1>4, EmptySeq DEF AtRest

(* However the two routes took turns, nothing is left behind: when the     *)
(* driver has come to rest every byte that was accepted is with the tty,   *)
(* also the last one, which no transfer takes, and until the first line    *)
(* error in order.  The one way to rest with bytes in the FIFO or in the   *)
(* buffer is a transfer that a line error has robbed of its bytes: the     *)
(* processor read them while it ran (fn_fast_uart_handle_rx_dma()).        *)
THEOREM NothingLeftBehind == Spec => []DeliveredAtRest
<1>1. ASSUME IInv, NothingLost, CleanInv, AtRest, errors = 0
      PROVE  tty = Arrivals(arrived)
  <2>1. ~Starved
    <3>1. DmaHasItsBytes /\ residue \in Nat /\ Len(fifo) \in Nat
      BY <1>1 DEF CleanInv, Clean, IInv, TypeOK
    <3> QED
      BY <3>1 DEF DmaHasItsBytes, Starved
  <2>2. fifo = <<>> /\ rxBuf = <<>>
    BY <1>1, <2>1, RestIsEmpty
  <2>3. tty \in Seq(Bytes) /\ tty \o rxBuf \o fifo = Arrivals(arrived)
    BY <1>1 DEF CleanInv, Clean, InOrder, IInv, TypeOK
  <2>4. tty \o <<>> = tty
    BY <2>3, ConcatEmptySeq
  <2> QED
    BY <2>2, <2>3, <2>4
<1>2. ASSUME IInv, NothingLost, AtRest, ~Starved
      PROVE  Range(tty) = 1 .. arrived
  <2>1. fifo = <<>> /\ rxBuf = <<>>
    BY <1>2, RestIsEmpty
  <2>2. Range(<<>>) = {}
    BY EmptySeq DEF Range
  <2> QED
    BY <1>2, <2>1, <2>2 DEF NothingLost
<1>3. IInv /\ NothingLost /\ CleanInv => DeliveredAtRest
  BY <1>1, <1>2 DEF DeliveredAtRest
<1> QED
  BY <1>3, Inductive, NoByteLost, CleanLine, PTL
=============================================================================
