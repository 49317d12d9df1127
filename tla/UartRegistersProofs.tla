------------------------- MODULE UartRegistersProofs -------------------------
(***************************************************************************)
(* The level read by rx_fifo_level() is a consistent snapshot for every    *)
(* register width and FIFO size, also while processes use the other        *)
(* registers, and its loop ends of itself; the others are read as they     *)
(* were written, and a burst leaves a byte in the FIFO.                    *)
(***************************************************************************)
EXTENDS UartRegisters, TLAPS

(* The registers hold the two digits of the level, and the high digit is  *)
(* monotonic in it.                                                        *)
LEMMA Digits ==
    ASSUME NEW b \in Nat \ {0}, NEW n \in Nat
    PROVE  /\ n \div b \in Nat
           /\ n % b \in 0 .. b - 1
           /\ n = b * (n \div b) + (n % b)
  OBVIOUS

LEMMA DivMonotone ==
    ASSUME NEW b \in Nat \ {0}, NEW m \in Nat, NEW n \in Nat, m <= n
    PROVE  m \div b <= n \div b
<1>1. m = b * (m \div b) + (m % b) /\ m \div b \in Nat /\ m % b \in 0 .. b - 1
  BY Digits
<1>2. n = b * (n \div b) + (n % b) /\ n \div b \in Nat /\ n % b \in 0 .. b - 1
  BY Digits
<1> DEFINE p == m \div b
           q == n \div b
<1>3. SUFFICES ASSUME p > q PROVE FALSE
  BY <1>1, <1>2
<1> HIDE DEF p, q
<1>4. p \in Nat /\ q \in Nat /\ p >= q + 1
  BY <1>1, <1>2, <1>3 DEF p, q
<1>5. b * p >= b * (q + 1)
  BY <1>4
<1>6. b * (q + 1) = b * q + b
  BY <1>4
<1> QED
  BY <1>1, <1>2, <1>4, <1>5, <1>6 DEF p, q

-----------------------------------------------------------------------------
(* A high digit below RegBase survives the mask of the conversion.         *)
LEMMA CombineDigits ==
    ASSUME NEW n \in 0 .. FifoSize
    PROVE  Combine(n \div RegBase, n % RegBase) = n
<1>1. RegBase \in Nat \ {0} /\ n \in Nat /\ n < RegBase * RegBase
  BY SizeAssumption DEF SizeAssumption
<1>2. /\ n \div RegBase \in Nat
      /\ n % RegBase \in 0 .. RegBase - 1
      /\ n = RegBase * (n \div RegBase) + (n % RegBase)
  BY <1>1, Digits
<1> DEFINE q == n \div RegBase
           r == n % RegBase
<1> HIDE DEF q, r
<1>3. q < RegBase
  <2>1. SUFFICES ASSUME q >= RegBase PROVE FALSE
    BY <1>1, <1>2 DEF q
  <2>2. RegBase * q >= RegBase * RegBase
    BY <1>1, <1>2, <2>1 DEF q
  <2> QED
    BY <1>1, <1>2, <2>2 DEF q, r
<1>4. q % RegBase = q /\ r % RegBase = r
  BY <1>1, <1>2, <1>3 DEF q, r
<1>5. q * RegBase = RegBase * q
  BY <1>1, <1>2 DEF q
<1> QED
  BY <1>2, <1>4, <1>5 DEF Combine, q, r

(* What every value read says of the level survives every step of the       *)
(* register pair and of the driver that reads it.                          *)
LEMMA LevelInit == Init => IInv
  BY SizeAssumption DEF Init, IInv, TypeOK, Reading, SizeAssumption

LEMMA LevelStep == IInv /\ [Next]_vars => IInv'
<1> SUFFICES ASSUME IInv, [Next]_vars
             PROVE  IInv'
  OBVIOUS
<1> USE DEF IInv, TypeOK, Reading
<1>0. RegBase \in Nat \ {0} /\ FifoSize \in Nat \ {0} /\ level \in Nat
  BY SizeAssumption DEF SizeAssumption
<1>1. CASE Receive
  <2>1. level' \in 0 .. FifoSize /\ level' = level + 1
    BY <1>0, <1>1 DEF Receive
  <2>2. level \div RegBase <= level' \div RegBase
    BY <1>0, <2>1, DivMonotone
  <2>3. level \div RegBase \in Nat /\ level' \div RegBase \in Nat
    BY <1>0, <2>1, Digits
  <2> QED
    BY <1>0, <1>1, <2>1, <2>2, <2>3 DEF Receive
<1>2. CASE Drain
  BY <1>0, <1>2 DEF Drain
<1>3. CASE ReadOldMsb
  <2>1. level \div RegBase \in Nat
    BY <1>0, Digits
  <2> QED
    BY <1>0, <1>3, <2>1 DEF ReadOldMsb, MsbReg
<1>4. CASE ReadLsb
  <2>1. level % RegBase \in 0 .. RegBase - 1
    BY <1>0, Digits
  <2> QED
    BY <1>0, <1>4, <2>1 DEF ReadLsb, LsbReg
<1>5. CASE ReadMsb
  <2>1. /\ level \div RegBase \in Nat
        /\ sampled \div RegBase \in Nat
        /\ entry \div RegBase \in Nat
    BY <1>0, Digits
  <2>2. /\ entry \div RegBase <= level \div RegBase
        /\ sampled \div RegBase <= level \div RegBase
    BY <1>0, <1>5, DivMonotone DEF ReadMsb
  <2>3. CASE oldMsb = MsbReg
    <3>1. MsbReg = sampled \div RegBase
      BY <1>5, <2>1, <2>2, <2>3 DEF ReadMsb, MsbReg
    <3>2. lsb = sampled % RegBase
      BY <1>5 DEF ReadMsb
    <3>3. Combine(MsbReg, lsb) = sampled
      BY <3>1, <3>2, CombineDigits
    <3> QED
      BY <1>0, <1>5, <2>1, <2>2, <2>3, <3>3 DEF ReadMsb, MsbReg
  <2>4. CASE oldMsb # MsbReg
    BY <1>0, <1>5, <2>1, <2>2, <2>4 DEF ReadMsb, MsbReg
  <2> QED
    BY <2>3, <2>4
<1>6. CASE Return
  BY <1>0, <1>6 DEF Return
<1>7. CASE UNCHANGED vars
  BY <1>7 DEF vars
<1> QED
  BY <1>1, <1>2, <1>3, <1>4, <1>5, <1>6, <1>7 DEF Next, Call

(* The invariant that records what every value read says of the level.     *)
THEOREM LevelAlone == Spec => []IInv
  BY LevelInit, LevelStep, PTL DEF Spec

(* To the level, a step of the rest of the driver is a stutter.           *)
LEMMA OnlyTheCall == [RegNext]_allVars => [Next]_vars
<1> SUFFICES ASSUME [RegNext]_allVars PROVE [Next]_vars
  OBVIOUS
<1>1. CASE Setup
  BY <1>1 DEF Setup, ProbeBegins, WatermarkMsb, WatermarkLsb, TimeoutMsb,
              TimeoutLsb, Register, ReplaceOps, RemovePort
<1>2. CASE \E r \in Requests, v \in Timeouts : Ioctl(r, v)
  BY <1>2 DEF Ioctl
<1>3. CASE Access
  BY <1>3 DEF Access, AccessMsb, AccessLsb, EndIoctl
<1>4. CASE FifoStep
  BY <1>4 DEF FifoStep, Next
<1>5. CASE UNCHANGED allVars
  BY <1>5 DEF allVars
<1> QED
  BY <1>1, <1>2, <1>3, <1>4, <1>5 DEF RegNext

(* The same beside the other registers, while the port is bound and used.  *)
THEOREM Inductive == RegSpec => []IInv
<1>1. RegInit => IInv
  BY LevelInit DEF RegInit
<1> QED
  BY <1>1, OnlyTheCall, LevelStep, PTL DEF RegSpec

(* The level returned is the one the FIFO had when the LSB was read.       *)
THEOREM SnapshotConsistent == RegSpec => []ConsistentSnapshot
<1>1. IInv => ConsistentSnapshot
  BY DEF IInv, Reading, ConsistentSnapshot
<1> QED
  BY <1>1, Inductive, PTL

(* The level returned lies between the levels at entry and at return: a    *)
(* transfer sized from it never waits for a byte that has not arrived.     *)
THEOREM SnapshotWithinCall == RegSpec => []ResultWithinCall
<1>1. IInv => ResultWithinCall
  BY DEF IInv, TypeOK, Reading, ResultWithinCall
<1> QED
  BY <1>1, Inductive, PTL

(* Going round again: the MSB has grown since it was last read, and it     *)
(* cannot grow beyond the FIFO's size.                                     *)
Looping == {"readLsb", "readMsb"}

GoesRound ==
    pc \in Looping /\ pc' \in Looping =>
        IF pc = "readMsb" /\ pc' = "readLsb"
        THEN oldMsb < oldMsb' /\ oldMsb' <= FifoSize \div RegBase
        ELSE oldMsb' = oldMsb

RetriesAreFew == [][GoesRound]_allVars

(* The loop of rx_fifo_level(), which has no bound of its own, goes round  *)
(* at most as often as the MSB has values: each time round it has read a   *)
(* larger one, whatever arrives meanwhile and whoever uses the other       *)
(* registers.                                                              *)
THEOREM LoopIsBounded == RegSpec => RetriesAreFew
<1>1. ASSUME IInv, [Next]_vars PROVE GoesRound
  <2>0. /\ RegBase \in Nat \ {0} /\ FifoSize \in Nat /\ level \in Nat
        /\ level <= FifoSize /\ oldMsb \in Nat
    BY <1>1, SizeAssumption DEF SizeAssumption, IInv, TypeOK
  <2>1. CASE ReadMsb
    <3>1. oldMsb <= level \div RegBase
      BY <1>1, <2>1 DEF ReadMsb, IInv, Reading
    <3>2. /\ level \div RegBase <= FifoSize \div RegBase
          /\ level \div RegBase \in Nat /\ FifoSize \div RegBase \in Nat
      BY <2>0, DivMonotone, Digits
    <3>3. pc' = "readLsb" => oldMsb # level \div RegBase
      BY <2>1 DEF ReadMsb, MsbReg
    <3>4. pc = "readMsb" /\ oldMsb' = level \div RegBase /\ pc' \in {"readLsb", "done"}
      BY <2>1 DEF ReadMsb, MsbReg
    <3> QED
      BY <2>0, <3>1, <3>2, <3>3, <3>4 DEF GoesRound, Looping
  <2>2. CASE Receive \/ Drain \/ ReadLsb \/ UNCHANGED vars
    BY <2>2 DEF Receive, Drain, ReadLsb, vars, GoesRound, Looping
  <2>3. CASE ReadOldMsb \/ Return
    BY <2>3 DEF ReadOldMsb, Return, GoesRound, Looping
  <2> QED
    BY <1>1, <2>1, <2>2, <2>3 DEF Next, Call
<1>2. IInv /\ [RegNext]_allVars => GoesRound
  BY <1>1, OnlyTheCall
<1> QED
  BY <1>2, Inductive, PTL DEF RegSpec, RetriesAreFew

-----------------------------------------------------------------------------
(* A remainder is determined by its range.                                 *)
LEMMA Remainder ==
    ASSUME NEW s \in Nat \ {0}, NEW h \in Nat, NEW m \in 0 .. s - 1
    PROVE  (s * h + m) % s = m /\ (s * h + m) \div s = h
<1> DEFINE n == s * h + m
           q == n \div s
           r == n % s
<1>0. n \in Nat
  OBVIOUS
<1>1. q \in Nat /\ r \in 0 .. s - 1 /\ n = s * q + r
  BY <1>0, Digits
<1> HIDE DEF q, r
<1>2. ~(q >= h + 1)
  <2>1. SUFFICES ASSUME q >= h + 1 PROVE FALSE
    OBVIOUS
  <2>2. s * q >= s * (h + 1)
    BY <1>1, <2>1
  <2>3. s * (h + 1) = s * h + s
    OBVIOUS
  <2> QED
    BY <1>1, <2>2, <2>3
<1>3. ~(h >= q + 1)
  <2>1. SUFFICES ASSUME h >= q + 1 PROVE FALSE
    OBVIOUS
  <2>2. s * h >= s * (q + 1)
    BY <1>1, <2>1
  <2>3. s * (q + 1) = s * q + s
    BY <1>1
  <2> QED
    BY <1>1, <2>2, <2>3
<1>4. q = h
  BY <1>1, <1>2, <1>3
<1>5. r = m
  BY <1>1, <1>4
<1> QED
  BY <1>4, <1>5 DEF q, r

(* What two digits keep of a number.                                       *)
LEMMA TwoDigits ==
    ASSUME NEW b \in Nat \ {0}, NEW n \in Nat
    PROVE  ((n \div b) % b) * b + (n % b) = n % (b * b)
<1> DEFINE q == n \div b
           r == n % b
           h == q \div b
           l == q % b
<1>1. q \in Nat /\ r \in 0 .. b - 1 /\ n = b * q + r
  BY Digits
<1> HIDE DEF q, r
<1>2. h \in Nat /\ l \in 0 .. b - 1 /\ q = b * h + l
  BY <1>1, Digits
<1> HIDE DEF h, l
<1> DEFINE s == b * b
           m == l * b + r
<1>3. s \in Nat \ {0}
  BY DEF s
<1>4. b * (b * h + l) = s * h + l * b
  BY <1>2
<1>5. n = s * h + m
  BY <1>1, <1>2, <1>4
<1>6. m \in 0 .. s - 1
  <2>1. l * b <= (b - 1) * b
    BY <1>2
  <2>2. (b - 1) * b = s - b
    OBVIOUS
  <2>3. l * b \in Nat
    BY <1>2
  <2> QED
    BY <1>1, <1>3, <2>1, <2>2, <2>3
<1> HIDE DEF s, m
<1>7. (s * h + m) % s = m
  BY <1>2, <1>3, <1>6, Remainder
<1> QED
  BY <1>5, <1>7 DEF s, m, l, q, r

(* The most significant digits of a level that fits survive the masks of    *)
(* write_watermark() and read_watermark().                                 *)
LEMMA WatermarkFits ==
    /\ InitialWatermark \in Nat /\ InBounds(InitialWatermark)
    /\ HighByte(InitialWatermark) % WmBase = HighByte(InitialWatermark)
    /\ HighByte(InitialWatermark) * RegBase + LowByte(InitialWatermark)
         = InitialWatermark
<1> DEFINE w == InitialWatermark
           q == w \div RegBase
<1>1. /\ RegBase \in Nat \ {0} /\ FifoSize \in Nat /\ WmBase \in 1 .. RegBase
      /\ w \in Nat /\ w <= FifoSize /\ w = BurstLength + 1
      /\ FifoSize < WmBase * RegBase
  BY SizeAssumption, RegisterAssumption
     DEF SizeAssumption, RegisterAssumption, InitialWatermark
<1> HIDE DEF w
<1>2. q \in Nat /\ w % RegBase \in 0 .. RegBase - 1
         /\ w = RegBase * q + (w % RegBase)
  BY <1>1, Digits
<1> HIDE DEF q
<1>3. q < WmBase
  <2>1. SUFFICES ASSUME q >= WmBase PROVE FALSE
    BY <1>1, <1>2
  <2>2. RegBase * q >= RegBase * WmBase
    BY <1>1, <1>2, <2>1
  <2>3. RegBase * WmBase = WmBase * RegBase
    BY <1>1
  <2> QED
    BY <1>1, <1>2, <2>2, <2>3
<1>4. q % RegBase = q /\ q % WmBase = q
  BY <1>1, <1>2, <1>3
<1>5. q * RegBase = RegBase * q
  BY <1>1, <1>2
<1>6. HighByte(w) = q /\ LowByte(w) = w % RegBase
  BY <1>4 DEF q, HighByte, LowByte
<1>7. /\ w \in Nat /\ w <= FifoSize /\ w > BurstLength
      /\ HighByte(w) % WmBase = HighByte(w)
      /\ HighByte(w) * RegBase + LowByte(w) = w
  <2>1. w > BurstLength
    BY <1>1, RegisterAssumption DEF RegisterAssumption
  <2> QED
    BY <1>1, <1>2, <1>4, <1>5, <1>6, <2>1
<1> QED
  BY <1>7 DEF w, InBounds

-----------------------------------------------------------------------------
(* What the registers hold at each point of probe() and of an ioctl().     *)
Programmed == {"register", "registered", "bound", "removed"}
WmKnown == Programmed \cup {"timeout", "timeoutLsb"}
WritingLsb == ioctl.request = "writeTimeout" /\ ioctl.at = "lsb"

Shape ==
    /\ wm \in [msb : Byte, lsb : Byte]
    /\ tm \in [msb : Byte, lsb : Byte]
    /\ ioctl \in [at : {"idle", "msb", "lsb", "done"}, request : Requests,
                  value : Int, msb : Int, result : {"none", "unknown", "refused", "served"},
                  answer : Int]
    /\ asked \in Nat

Watermark ==
    /\ stage = "watermarkLsb" => wm.msb = HighByte(InitialWatermark)
    /\ stage \in WmKnown =>
          wm = [msb |-> HighByte(InitialWatermark), lsb |-> LowByte(InitialWatermark)]

Timeout ==
    /\ stage = "timeoutLsb" => tm.msb = HighByte(InitialTimeout)
    /\ stage \in Programmed =>
          /\ tm.lsb = LowByte(asked)
          /\ tm.msb = HighByte(IF WritingLsb THEN ioctl.value ELSE asked)

Asking ==
    /\ ioctl.at # "idle" => stage \in {"registered", "bound"}
    /\ ioctl.request = "writeTimeout" /\ ioctl.at \in {"msb", "lsb"} =>
          ioctl.value \in Nat
    /\ ioctl.at = "lsb" =>
          /\ ioctl.request = "readWatermark" => ioctl.msb = wm.msb % WmBase
          /\ ioctl.request = "readTimeout" => ioctl.msb = tm.msb
    /\ ioctl.at = "done" /\ ioctl.result = "served" =>
          /\ ioctl.request = "readWatermark" =>
                ioctl.answer = (wm.msb % WmBase) * RegBase + wm.lsb
          /\ ioctl.request = "readTimeout" => ioctl.answer = Value(tm)

RegInv == Shape /\ Watermark /\ Timeout /\ Asking

LEMMA BytesOf == ASSUME NEW v \in Nat PROVE HighByte(v) \in Byte /\ LowByte(v) \in Byte
<1>1. RegBase \in Nat \ {0}
  BY SizeAssumption DEF SizeAssumption
<1>2. v \div RegBase \in Nat /\ v % RegBase \in 0 .. RegBase - 1
  BY <1>1, Digits
<1>3. (v \div RegBase) % RegBase \in 0 .. RegBase - 1
  BY <1>1, <1>2, Digits
<1> QED
  BY <1>2, <1>3 DEF HighByte, LowByte, Byte

LEMMA RegInitInv == RegInit => RegInv
<1> SUFFICES ASSUME RegInit PROVE RegInv
  OBVIOUS
<1>1. PICK m \in Byte, l \in Byte : wm = [msb |-> m, lsb |-> l] /\ tm = wm
  BY DEF RegInit
<1> QED
  BY <1>1 DEF RegInit, RegInv, Shape, Watermark, Timeout, Asking, NoIoctl,
              Requests, WmKnown, Programmed

LEMMA RegNextInv == RegInv /\ [RegNext]_allVars => RegInv'
<1> SUFFICES ASSUME RegInv, [RegNext]_allVars PROVE RegInv'
  OBVIOUS
<1> USE DEF RegInv
<1>0. /\ RegBase \in Nat \ {0} /\ WmBase \in Nat \ {0} /\ WmBase <= RegBase
      /\ InitialTimeout \in Nat /\ InitialWatermark \in Nat
      /\ Timeouts \subseteq Int /\ Byte \subseteq Nat
  BY SizeAssumption, RegisterAssumption, WatermarkFits
     DEF SizeAssumption, RegisterAssumption, Byte
<1>1. CASE ProbeBegins \/ Register \/ ReplaceOps \/ RemovePort
  BY <1>1 DEF ProbeBegins, Register, ReplaceOps, RemovePort, Goes, Shape, Watermark,
              Timeout, Asking, WritingLsb, Value, Programmed, WmKnown
<1>2. CASE WatermarkMsb \/ WatermarkLsb
  <2>1. /\ HighByte(InitialWatermark) \in Byte /\ LowByte(InitialWatermark) \in Byte
        /\ InBounds(InitialWatermark)
    BY <1>0, BytesOf, WatermarkFits
  <2>2. ioctl.at = "idle" /\ stage \notin Programmed
    BY <1>2 DEF WatermarkMsb, WatermarkLsb, Goes, Asking, Shape, Programmed
  <2>3. Shape'
    BY <1>2, <2>1 DEF WatermarkMsb, WatermarkLsb, Shape
  <2>4. Watermark'
    BY <1>2, <2>1 DEF WatermarkMsb, WatermarkLsb, Goes, Watermark, Shape, WmKnown,
                      Programmed
  <2>5. Timeout' /\ Asking'
    BY <1>2, <2>2 DEF WatermarkMsb, WatermarkLsb, Goes, Timeout, Asking, Programmed
  <2> QED
    BY <2>3, <2>4, <2>5
<1>3. CASE TimeoutMsb \/ TimeoutLsb
  <2>1. HighByte(InitialTimeout) \in Byte /\ LowByte(InitialTimeout) \in Byte
    BY <1>0, BytesOf
  <2>2. ioctl.at = "idle" /\ stage \notin Programmed
    BY <1>3 DEF TimeoutMsb, TimeoutLsb, Goes, Asking, Shape, Programmed
  <2>3. Shape'
    BY <1>0, <1>3, <2>1 DEF TimeoutMsb, TimeoutLsb, Shape
  <2>4. Watermark'
    BY <1>3 DEF TimeoutMsb, TimeoutLsb, Goes, Watermark, WmKnown, Programmed
  <2>5. Timeout' /\ Asking'
    BY <1>3, <2>2 DEF TimeoutMsb, TimeoutLsb, Goes, Timeout, Asking, Programmed,
                      Shape, WritingLsb
  <2> QED
    BY <2>3, <2>4, <2>5
<1>4. ASSUME NEW r \in Requests, NEW v \in Timeouts, Ioctl(r, v) PROVE RegInv'
  <2>1. Result(r, v) \in {"unknown", "refused", "served"}
    BY DEF Result
  <2>2. Result(r, v) = "served" /\ r = "writeTimeout" => v \in Nat
    BY <1>0 DEF Result
  <2> DEFINE n == IF r = "writeTimeout" THEN v ELSE 0
             a == IF Result(r, v) = "served" THEN "msb" ELSE "done"
  <2>3. ioctl' = [at |-> a, request |-> r, value |-> n, msb |-> 0,
                  result |-> Result(r, v), answer |-> 0]
    BY <1>4 DEF Ioctl, NoIoctl
  <2>4. /\ wm' = wm /\ tm' = tm /\ asked' = asked /\ stage' = stage
        /\ stage \in {"registered", "bound"} /\ ioctl.at = "idle"
    BY <1>4 DEF Ioctl, Registered
  <2>5. Shape'
    BY <1>0, <2>1, <2>3, <2>4 DEF Shape
  <2>6. Watermark' /\ Timeout' /\ Asking'
    BY <2>2, <2>3, <2>4 DEF Watermark, Timeout, Asking, WritingLsb
  <2> QED
    BY <2>5, <2>6
<1>5. CASE AccessMsb
  <2>1. /\ ioctl.at = "msb" /\ wm' = wm /\ stage' = stage /\ asked' = asked
        /\ stage \in {"registered", "bound"}
    BY <1>5 DEF AccessMsb, Asking
  <2> DEFINE m == IF ioctl.request = "readWatermark" THEN wm.msb % WmBase ELSE tm.msb
  <2>2. m \in Int
    BY <1>0, Digits DEF Shape, Byte
  <2>3. ioctl' = [ioctl EXCEPT !.at = "lsb", !.msb = m]
    BY <1>5 DEF AccessMsb
  <2>4. tm' = IF ioctl.request = "writeTimeout"
              THEN [tm EXCEPT !.msb = HighByte(ioctl.value)] ELSE tm
    BY <1>5 DEF AccessMsb
  <2>5. ioctl.request = "writeTimeout" => HighByte(ioctl.value) \in Byte
    BY <2>1, BytesOf DEF Asking
  <2>6. Shape'
    BY <2>1, <2>2, <2>3, <2>4, <2>5 DEF Shape
  <2>7. Watermark'
    BY <2>1 DEF Watermark
  <2>8. Timeout'
    BY <2>1, <2>3, <2>4 DEF Timeout, Shape, WritingLsb
  <2>9. Asking'
    BY <2>1, <2>3, <2>4 DEF Asking, Shape
  <2> QED
    BY <2>6, <2>7, <2>8, <2>9
<1>6. CASE AccessLsb /\ ioctl.request = "writeTimeout"
  <2>1. /\ ioctl.at = "lsb" /\ wm' = wm /\ stage' = stage /\ asked' = ioctl.value
        /\ tm' = [tm EXCEPT !.lsb = LowByte(ioctl.value)]
        /\ ioctl' = [ioctl EXCEPT !.at = "done"]
    BY <1>6 DEF AccessLsb
  <2>2. ioctl.value \in Nat /\ LowByte(ioctl.value) \in Byte
    BY <1>6, <2>1, BytesOf DEF Asking
  <2>3. Shape'
    BY <2>1, <2>2 DEF Shape
  <2>4. Watermark' /\ Timeout' /\ Asking'
    BY <1>6, <2>1, <2>2 DEF Watermark, Timeout, Asking, Shape, WritingLsb
  <2> QED
    BY <2>3, <2>4
<1>7. CASE AccessLsb /\ ioctl.request # "writeTimeout"
  <2> DEFINE reg == IF ioctl.request = "readWatermark" THEN wm ELSE tm
             n == ioctl.msb * RegBase + reg.lsb
  <2>1. /\ ioctl.at = "lsb" /\ wm' = wm /\ stage' = stage /\ asked' = asked /\ tm' = tm
        /\ ioctl' = [ioctl EXCEPT !.at = "done", !.answer = n]
    BY <1>7 DEF AccessLsb, ReadLsbOf
  <2>2. n \in Int
    <3>1. ioctl.msb \in Int /\ RegBase \in Int
      BY <1>0 DEF Shape
    <3>2. reg \in [msb : Byte, lsb : Byte]
      BY DEF Shape
    <3> HIDE DEF reg
    <3>3. reg.lsb \in Byte
      BY <3>2
    <3>4. reg.lsb \in Int
      BY <3>3 DEF Byte
    <3> QED
      BY <3>1, <3>4
  <2>3. Shape'
    BY <2>1, <2>2 DEF Shape
  <2>4. Watermark' /\ Timeout'
    BY <1>7, <2>1 DEF Watermark, Timeout, Shape, WritingLsb
  <2>5. Asking'
    BY <1>7, <2>1 DEF Asking, Shape, Value
  <2> QED
    BY <2>3, <2>4, <2>5
<1>8. CASE EndIoctl
  BY <1>8 DEF EndIoctl, NoIoctl, Shape, Watermark, Timeout, Asking, WritingLsb, Requests
<1>9. CASE FifoStep \/ UNCHANGED allVars
  BY <1>9 DEF FifoStep, allVars, regVars, Shape, Watermark, Timeout, Asking,
              WritingLsb, Value
<1> QED
  BY <1>1, <1>2, <1>3, <1>4, <1>5, <1>6, <1>7, <1>8, <1>9 DEF RegNext, Setup, Access

LEMMA RegistersHold == RegSpec => []RegInv
  BY RegInitInv, RegNextInv, PTL DEF RegSpec

(* A burst leaves a byte in the FIFO: write_watermark() accepted what       *)
(* probe() asked for, and the two registers hold it.                       *)
THEOREM BurstsLeaveByte == RegSpec => []BurstLeavesByte
<1>1. IInv /\ RegInv => BurstLeavesByte
  <2> SUFFICES ASSUME IInv, RegInv, stage \in {"register", "registered", "bound"},
                      level >= Value(wm)
               PROVE  level - BurstLength >= 1
    BY DEF BurstLeavesByte
  <2>1. wm.msb = HighByte(InitialWatermark) /\ wm.lsb = LowByte(InitialWatermark)
    BY DEF RegInv, Watermark, WmKnown, Programmed
  <2>2. Value(wm) = InitialWatermark
    BY <2>1, WatermarkFits DEF Value
  <2> QED
    BY <2>2, RegisterAssumption, SizeAssumption
       DEF IInv, TypeOK, InitialWatermark, RegisterAssumption, SizeAssumption
<1> QED
  BY <1>1, Inductive, RegistersHold, PTL

(* What an ioctl() reads was written by probe() or by the ioctl() before   *)
(* it, whatever the timeout asked for and as far as it fits.               *)
THEOREM ReadAsWritten == RegSpec => []ReadsWhatWasWritten
<1>1. RegInv => ReadsWhatWasWritten
  <2> SUFFICES ASSUME RegInv, ioctl.at = "done", ioctl.result = "served",
                      ioctl.request \in {"readWatermark", "readTimeout"}
               PROVE  ioctl.answer = IF ioctl.request = "readWatermark"
                                     THEN InitialWatermark
                                     ELSE asked % (RegBase * RegBase)
    BY DEF ReadsWhatWasWritten
  <2>1. stage \in WmKnown /\ stage \in Programmed
    BY DEF RegInv, Asking, WmKnown, Programmed
  <2>2. CASE ioctl.request = "readWatermark"
    <3>1. wm.msb = HighByte(InitialWatermark) /\ wm.lsb = LowByte(InitialWatermark)
      BY <2>1 DEF RegInv, Watermark
    <3> QED
      BY <2>2, <3>1, WatermarkFits DEF RegInv, Asking
  <2>3. CASE ioctl.request = "readTimeout"
    <3>1. tm.msb = HighByte(asked) /\ tm.lsb = LowByte(asked)
      BY <2>1, <2>3 DEF RegInv, Timeout, WritingLsb
    <3>2. HighByte(asked) * RegBase + LowByte(asked) = asked % (RegBase * RegBase)
      BY TwoDigits, SizeAssumption DEF RegInv, Shape, HighByte, LowByte, SizeAssumption
    <3> QED
      BY <2>3, <3>1, <3>2 DEF RegInv, Asking, Value
  <2> QED
    BY <2>2, <2>3
<1> QED
  BY <1>1, RegistersHold, PTL
=============================================================================
