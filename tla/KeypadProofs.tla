---------------------------- MODULE KeypadProofs ----------------------------
(***************************************************************************)
(* The keypad's handler keeps its invariant for every keypad and number of *)
(* fingers, and reports keys pressed one at a time as they were pressed.    *)
(***************************************************************************)
EXTENDS Keypad, WellFoundedInduction, FiniteSetTheorems, TLAPS

LEMMA Bound == AxisLength \in Nat
  BY KeypadAssumption DEF KeypadAssumption

(* The highest bit of a register is one of its bits. *)
LEMMA HighestIsABit ==
    ASSUME NEW bits \in SUBSET Axis, bits # {}
    PROVE  Highest(bits) \in bits
<1> DEFINE Left == {AxisLength - b : b \in bits}
           Below == {ss \in Nat \X Nat : ss[1] < ss[2]}
<1>1. IsWellFoundedOn(Below, Nat)
  BY NatLessThanWellFounded DEF OpToRel
<1>2. Left \subseteq Nat /\ Left # {}
  <2>1. \A b \in bits : b \in 0 .. AxisLength - 1
    BY DEF Axis
  <2>2. \A b \in bits : AxisLength - b \in Nat
    BY <2>1, Bound
  <2> QED
    BY <2>2
<1>3. \E x \in Left : \A y \in Left : <<y, x>> \notin Below
  BY <1>1, <1>2, WFMin, Zenon
<1>4. PICK x \in Left : \A y \in Left : ~(y < x)
  BY <1>2, <1>3
<1>5. PICK b \in bits : x = AxisLength - b
  BY <1>4
<1>6. \A c \in bits : c <= b
  BY <1>4, <1>5, Bound DEF Axis
<1> QED
  BY <1>6 DEF Highest

(* What an append leaves of the elements that were there. *)
LEMMA Appended ==
    ASSUME NEW S, NEW s \in Seq(S), NEW e \in S
    PROVE  /\ Append(s, e) \in Seq(S)
           /\ Len(Append(s, e)) = Len(s) + 1
           /\ DOMAIN Append(s, e) = 1 .. Len(s) + 1
           /\ DOMAIN s = 1 .. Len(s)
           /\ \A i \in DOMAIN s : Append(s, e)[i] = s[i]
           /\ Append(s, e)[Len(s) + 1] = e
  OBVIOUS

LEMMA InitInv == Init => IInv
<1> SUFFICES ASSUME Init PROVE IInv
  OBVIOUS
<1> USE DEF Init
<1>1. TypeOK
  <2>1. /\ pressed \in Seq(Keys)
        /\ latching \in Seq(SUBSET {"row", "column"})
        /\ reported \in Seq(Keys)
        /\ Len(latching) = Len(pressed)
    OBVIOUS
  <2>2. active \in [row : Axis \cup {-1}, column : Axis \cup {-1}]
    <3>1. -1 \in Axis \cup {-1}
      OBVIOUS
    <3> QED
      BY <3>1, Zenon
  <2> QED
    BY <2>1, <2>2 DEF TypeOK
<1>2. PressedOnly /\ HalfKept
  BY DEF PressedOnly, HalfKept
<1>3. FoundIsKnown
  BY DEF FoundIsKnown
<1> QED
  BY <1>1, <1>2, <1>3 DEF IInv

(* What a register that was read leaves in active is its bit, or what was there. *)
LEMMA SeenType ==
    ASSUME NEW bits \in SUBSET Axis, NEW before \in Axis \cup {-1}
    PROVE  /\ Seen(bits, before) \in Axis \cup {-1}
           /\ bits = {} => Seen(bits, before) = before
           /\ bits # {} => /\ Seen(bits, before) \in bits
                          /\ Seen(bits, before) # -1
<1>1. CASE bits = {}
  BY <1>1 DEF Seen
<1>2. CASE bits # {}
  <2>1. Seen(bits, before) \in bits
    BY <1>2, HighestIsABit DEF Seen
  <2>2. -1 \notin Axis
    BY Bound DEF Axis
  <2> QED
    BY <1>2, <2>1, <2>2
<1> QED
  BY <1>1, <1>2

LEMMA PressInv == IInv /\ Press => IInv'
<1> SUFFICES ASSUME IInv, Press PROVE IInv'
  OBVIOUS
<1> USE DEF IInv
<1>1. PICK key \in Keys : pressed' = Append(pressed, key)
  BY DEF Press
<1>2. /\ pressed' \in Seq(Keys)
      /\ Len(pressed') = Len(pressed) + 1
      /\ \A i \in DOMAIN pressed : i \in DOMAIN pressed' /\ pressed'[i] = pressed[i]
  BY <1>1, Appended DEF TypeOK
<1>3. /\ latching' \in Seq(SUBSET {"row", "column"})
      /\ Len(latching') = Len(latching) + 1
  <2>1. {"row", "column"} \in SUBSET {"row", "column"}
    OBVIOUS
  <2> QED
    BY <2>1, Appended DEF TypeOK, Press
<1>4. TypeOK'
  BY <1>2, <1>3 DEF TypeOK, Press
<1>5. PressedOnly'
  <2>1. \A r : PressedRow(r) => PressedRow(r)'
    BY <1>2 DEF PressedRow
  <2>2. \A c : PressedColumn(c) => PressedColumn(c)'
    BY <1>2 DEF PressedColumn
  <2> QED
    BY <2>1, <2>2 DEF PressedOnly, Press
<1>6. HalfKept' /\ FoundIsKnown'
  BY DEF HalfKept, FoundIsKnown, Press
<1> QED
  BY <1>4, <1>5, <1>6

LEMMA LatchInv ==
    ASSUME NEW i \in DOMAIN latching, NEW half \in {"row", "column"},
           IInv, Latch(i, half)
    PROVE  IInv'
<1> USE DEF IInv
<1>1. /\ i \in DOMAIN pressed
      /\ pressed[i] \in Keys
  BY DEF TypeOK
<1>2. pressed[i][1] \in Axis /\ pressed[i][2] \in Axis
  BY <1>1 DEF Keys
<1>3. /\ latching' \in Seq(SUBSET {"row", "column"})
      /\ Len(latching') = Len(latching)
  <2>1. latching[i] \ {half} \in SUBSET {"row", "column"}
    BY DEF TypeOK
  <2> QED
    BY <2>1 DEF TypeOK, Latch
<1>4. TypeOK'
  BY <1>2, <1>3 DEF TypeOK, Latch
<1>5. PressedOnly'
  <2>1. PressedRow(pressed[i][1]) /\ PressedColumn(pressed[i][2])
    BY <1>1 DEF PressedRow, PressedColumn
  <2> QED
    BY <2>1 DEF PressedOnly, PressedRow, PressedColumn, Latch
<1>6. HalfKept' /\ FoundIsKnown'
  BY DEF HalfKept, FoundIsKnown, Latch
<1> QED
  BY <1>4, <1>5, <1>6

LEMMA ReadRowsInv == IInv /\ ReadRows => IInv'
<1> SUFFICES ASSUME IInv, ReadRows PROVE IInv'
  OBVIOUS
<1> USE DEF IInv, ReadRows
<1> DEFINE row == Seen(rows, active.row)
<1>1. /\ row \in Axis \cup {-1}
      /\ rows = {} => row = active.row
      /\ rows # {} => row \in rows /\ row # -1
  BY SeenType DEF TypeOK
<1>2. active' = [row |-> row, column |-> active.column]
  BY DEF TypeOK
<1> HIDE DEF row
<1>3. TypeOK'
  <2>1. found' \in BOOLEAN /\ overlapped' \in BOOLEAN
    BY Zenon DEF TypeOK
  <2>2. active' \in [row : Axis \cup {-1}, column : Axis \cup {-1}]
    BY <1>1, <1>2, SMTT(60) DEF TypeOK
  <2>3. /\ rows' = {} /\ pc' = "columns"
        /\ pressed' = pressed /\ latching' = latching
        /\ columns' = columns /\ reported' = reported
    OBVIOUS
  <2> HIDE DEF ReadRows
  <2> QED
    BY <2>1, <2>2, <2>3 DEF TypeOK
<1>4. PressedOnly'
  BY <1>1, <1>2 DEF PressedOnly, PressedRow, PressedColumn
<1>5. found' => rows # {}
  BY Zenon
<1>6. HalfKept' /\ FoundIsKnown'
  <2>1. pc' = "columns" /\ active'.row = row /\ active'.column = active.column
    BY <1>2
  <2> QED
    BY <1>1, <1>5, <2>1 DEF HalfKept, FoundIsKnown
<1> QED
  BY <1>3, <1>4, <1>6

LEMMA ReadColumnsInv == IInv /\ ReadColumns => IInv'
<1> SUFFICES ASSUME IInv, ReadColumns PROVE IInv'
  OBVIOUS
<1> USE DEF IInv, ReadColumns
<1> DEFINE column == Seen(columns, active.column)
<1>1. /\ column \in Axis \cup {-1}
      /\ columns = {} => column = active.column
      /\ columns # {} => column \in columns /\ column # -1
  BY SeenType DEF TypeOK
<1>2. active' = [row |-> active.row, column |-> column]
  BY DEF TypeOK
<1> HIDE DEF column
<1>3. TypeOK'
  <2>1. found' \in BOOLEAN /\ overlapped' \in BOOLEAN
    BY Zenon DEF TypeOK
  <2> QED
    BY <1>1, <1>2, <2>1, SMTT(60) DEF TypeOK
<1>4. PressedOnly'
  BY <1>1, <1>2 DEF PressedOnly, PressedRow, PressedColumn
<1>5. found' => found \/ columns # {}
  BY Zenon
<1>6. HalfKept' /\ FoundIsKnown'
  <2>1. pc' = "report" /\ active'.row = active.row /\ active'.column = column
    BY <1>2
  <2>2. columns = {} => (found => (active'.row # -1) \/ (active'.column # -1))
    BY <2>1 DEF FoundIsKnown
  <2>3. columns # {} => active'.column # -1
    BY <1>1, <2>1
  <2> QED
    BY <1>5, <2>1, <2>2, <2>3, Zenon DEF HalfKept, FoundIsKnown
<1> QED
  BY <1>3, <1>4, <1>6

LEMMA ReportInv == IInv /\ Report => IInv'
<1> SUFFICES ASSUME IInv, Report PROVE IInv'
  OBVIOUS
<1> USE DEF IInv, Report
<1>1. <<active.row, active.column>> \in Keys
  BY Bound DEF TypeOK, Keys, Axis
<1>2. reported' \in Seq(Keys)
  BY <1>1, Appended DEF TypeOK
<1>3. TypeOK'
  BY <1>2 DEF TypeOK, keypadVars
<1>4. PressedOnly' /\ HalfKept' /\ FoundIsKnown'
  BY DEF PressedOnly, PressedRow, PressedColumn, HalfKept, FoundIsKnown, keypadVars
<1> QED
  BY <1>3, <1>4

LEMMA NextInv == IInv /\ [Next]_vars => IInv'
<1> SUFFICES ASSUME IInv, [Next]_vars PROVE IInv'
  OBVIOUS
<1> USE DEF IInv, TypeOK, PressedOnly, PressedRow, PressedColumn, HalfKept,
            FoundIsKnown, keypadVars
<1>1. CASE Press
  BY <1>1, PressInv
<1>2. CASE Latches
  BY <1>2, LatchInv DEF Latches
<1>3. CASE Interrupt
  BY <1>3 DEF Interrupt
<1>4. CASE ReadRows
  BY <1>4, ReadRowsInv
<1>5. CASE ReadColumns
  BY <1>5, ReadColumnsInv
<1>6. CASE Disclaim
  BY <1>6, Bound DEF Disclaim, Axis
<1>7. CASE Keep
  BY <1>7, Bound, SMTT(60) DEF Keep, Axis
<1>8. CASE Report
  BY <1>8, ReportInv
<1>9. CASE UNCHANGED vars
  BY <1>9 DEF vars
<1> QED
  BY <1>1, <1>2, <1>3, <1>4, <1>5, <1>6, <1>7, <1>8, <1>9 DEF Next, Handler

(***************************************************************************)
(* The handler's invariant, for every keypad and number of fingers.        *)
(***************************************************************************)
THEOREM Inductive == Spec => []IInv
  BY InitInv, NextInv, PTL DEF Spec

(***************************************************************************)
(* The handler never disclaims an interrupt it took something for.         *)
(***************************************************************************)
THEOREM OursIsNotDisclaimed == Spec => OursIsClaimed
<1>1. IInv /\ [Next]_vars => [Disclaim => ~found]_vars
  <2> SUFFICES ASSUME IInv, Disclaim, found PROVE FALSE
    OBVIOUS
  <2>1. (active.row # -1) \/ (active.column # -1)
    BY DEF IInv, FoundIsKnown, Disclaim
  <2>2. active.row \in Axis \cup {-1} /\ active.column \in Axis \cup {-1}
    BY DEF IInv, TypeOK
  <2> QED
    BY <2>1, <2>2, Bound DEF Disclaim, Axis
<1> QED
  BY <1>1, Inductive, PTL DEF Spec, OursIsClaimed

(* One key at a time: nothing is under way and there is nothing to forget, *)
(* or the halves of the last key are each in one place.                    *)

LEMMA OneInit == Init => OneInv
  BY DEF Init, OneInv, OneByOne, Quiet

LEMMA OnePress == IInv /\ OneInv /\ Press => OneInv'
<1> SUFFICES ASSUME IInv, OneInv, Press, ~overlapped' PROVE OneInv'
  BY DEF OneInv
<1> USE DEF OneInv
<1>0. /\ pressed \in Seq(Keys) /\ reported \in Seq(Keys)
      /\ latching \in Seq(SUBSET {"row", "column"})
      /\ Len(latching) = Len(pressed)
  BY DEF IInv, TypeOK
<1>a. ~overlapped /\ ~(Len(pressed) > Len(reported))
  BY Zenon DEF Press
<1>1. Len(pressed) = Len(reported)
  BY <1>0, <1>a DEF OneByOne
<1>2. Quiet
  BY <1>a
<1>3. PICK key \in Keys : pressed' = Append(pressed, key)
  BY DEF Press
<1>4. /\ Len(pressed') = Len(pressed) + 1
      /\ \A i \in DOMAIN pressed : pressed'[i] = pressed[i]
      /\ DOMAIN pressed = 1 .. Len(pressed)
  BY <1>0, <1>3, Appended
<1>5. /\ Len(latching') = Len(latching) + 1
      /\ \A i \in DOMAIN latching : latching'[i] = latching[i]
      /\ latching'[Len(latching')] = {"row", "column"}
      /\ DOMAIN latching = 1 .. Len(latching)
  <2>1. {"row", "column"} \in SUBSET {"row", "column"}
    OBVIOUS
  <2> QED
    BY <1>0, <2>1, Appended DEF Press
<1>6. DOMAIN reported = 1 .. Len(reported) /\ reported' = reported
  BY <1>0 DEF Press
<1>7. OneByOne' /\ Len(pressed') <= Len(reported') + 1
  BY <1>0, <1>a, <1>1, <1>4, <1>6 DEF OneByOne
<1>8. \A i \in DOMAIN reported' : latching'[i] = {}
  BY <1>0, <1>a, <1>1, <1>5, <1>6
<1>9. UnderWay'
  BY <1>2, <1>5 DEF UnderWay, OnTheWay, Quiet, Press
<1>10. Len(pressed') > Len(reported')
  BY <1>0, <1>1, <1>4, <1>6
<1> QED
  BY <1>7, <1>8, <1>9, <1>10

(* What a step that reports nothing has to keep. *)
LEMMA OneSame ==
    ASSUME IInv, OneInv, UNCHANGED <<pressed, latching, reported, overlapped>>,
           UnderWay => UnderWay', Quiet => Quiet'
    PROVE  OneInv'
  BY DEF OneInv, OneByOne

LEMMA OneLatch ==
    ASSUME NEW i \in DOMAIN latching, NEW half \in {"row", "column"},
           IInv, OneInv, Latch(i, half)
    PROVE  OneInv'
<1> SUFFICES ASSUME ~overlapped PROVE OneInv'
  BY DEF OneInv, Latch
<1> USE DEF OneInv
<1>0. /\ pressed \in Seq(Keys) /\ reported \in Seq(Keys)
      /\ latching \in Seq(SUBSET {"row", "column"})
      /\ Len(latching) = Len(pressed)
      /\ UNCHANGED <<pressed, reported, active>>
  BY DEF IInv, TypeOK, Latch
<1>1. /\ i = Len(pressed)
      /\ Len(pressed) > Len(reported)
  <2>1. latching[i] # {}
    BY DEF Latch
  <2>2. i \notin DOMAIN reported
    BY <2>1
  <2> QED
    BY <1>0, <2>2 DEF OneByOne
<1>2. UnderWay
  BY <1>1
<1>3. /\ Len(latching') = Len(latching)
      /\ latching'[i] = latching[i] \ {half}
      /\ \A j \in DOMAIN latching : j # i => latching'[j] = latching[j]
  BY <1>0 DEF Latch
<1>4. UnderWay'
  <2>1. CASE half = "row"
    BY <1>0, <1>1, <1>2, <1>3, <2>1 DEF Latch, UnderWay, OnTheWay
  <2>2. CASE half = "column"
    BY <1>0, <1>1, <1>2, <1>3, <2>2 DEF Latch, UnderWay, OnTheWay
  <2> QED
    BY <2>1, <2>2
<1>5. OneByOne' /\ Len(pressed') <= Len(reported') + 1
  BY <1>0 DEF OneByOne
<1>6. \A j \in DOMAIN reported' : latching'[j] = {}
  <2>1. \A j \in DOMAIN reported : j \in DOMAIN latching /\ j # i
    BY <1>0, <1>1
  <2> QED
    BY <1>0, <1>3, <2>1
<1> QED
  BY <1>0, <1>1, <1>4, <1>5, <1>6

(* Reading a register takes a half that is in it to what the handler knows. *)
LEMMA SeenOnTheWay ==
    ASSUME NEW half, NEW register \in SUBSET Axis, NEW known \in Axis \cup {-1},
           NEW value, OnTheWay(half, register, known, value)
    PROVE  OnTheWay(half, {}, Seen(register, known), value)
<1>1. CASE register = {}
  BY <1>1 DEF OnTheWay, Seen
<1>2. CASE register # {}
  <2>1. Seen(register, known) \in register
    BY <1>2, HighestIsABit DEF Seen
  <2> QED
    BY <1>2, <2>1 DEF OnTheWay
<1> QED
  BY <1>1, <1>2

LEMMA OneReadRows == IInv /\ OneInv /\ ReadRows => OneInv'
<1> SUFFICES ASSUME IInv, OneInv, ReadRows PROVE OneInv'
  OBVIOUS
<1>1. /\ rows \in SUBSET Axis /\ active.row \in Axis \cup {-1}
      /\ active'.row = Seen(rows, active.row) /\ active'.column = active.column
      /\ rows' = {} /\ UNCHANGED <<pressed, latching, reported, overlapped, columns>>
  BY Zenon DEF IInv, TypeOK, ReadRows
<1>2. UnderWay => UnderWay'
  <2> SUFFICES ASSUME UnderWay PROVE UnderWay'
    OBVIOUS
  <2>1. OnTheWay("row", {}, Seen(rows, active.row), pressed[Len(pressed)][1])
    BY <1>1, SeenOnTheWay DEF UnderWay
  <2> QED
    BY <1>1, <2>1 DEF UnderWay, OnTheWay
<1>3. Quiet => Quiet'
  BY <1>1 DEF Quiet, Seen
<1> QED
  BY <1>1, <1>2, <1>3, OneSame

LEMMA OneReadColumns == IInv /\ OneInv /\ ReadColumns => OneInv'
<1> SUFFICES ASSUME IInv, OneInv, ReadColumns PROVE OneInv'
  OBVIOUS
<1>1. /\ columns \in SUBSET Axis /\ active.column \in Axis \cup {-1}
      /\ active'.column = Seen(columns, active.column) /\ active'.row = active.row
      /\ columns' = {} /\ UNCHANGED <<pressed, latching, reported, overlapped, rows>>
  BY Zenon DEF IInv, TypeOK, ReadColumns
<1>2. UnderWay => UnderWay'
  <2> SUFFICES ASSUME UnderWay PROVE UnderWay'
    OBVIOUS
  <2>1. OnTheWay("column", {}, Seen(columns, active.column), pressed[Len(pressed)][2])
    BY <1>1, SeenOnTheWay DEF UnderWay
  <2> QED
    BY <1>1, <2>1 DEF UnderWay, OnTheWay
<1>3. Quiet => Quiet'
  BY <1>1 DEF Quiet, Seen
<1> QED
  BY <1>1, <1>2, <1>3, OneSame

LEMMA OneReport == IInv /\ OneInv /\ Report => OneInv'
<1> SUFFICES ASSUME IInv, OneInv, Report, ~overlapped PROVE OneInv'
  BY DEF OneInv, Report
<1> USE DEF OneInv
<1>0. /\ pressed \in Seq(Keys) /\ reported \in Seq(Keys)
      /\ latching \in Seq(SUBSET {"row", "column"})
      /\ Len(latching) = Len(pressed)
      /\ UNCHANGED keypadVars
      /\ active' = [row |-> -1, column |-> -1]
      /\ (active.row # -1) /\ (active.column # -1)
  BY DEF IInv, TypeOK, Report
<1>1. UnderWay /\ Len(pressed) = Len(reported) + 1
  <2>1. ~Quiet
    BY <1>0 DEF Quiet
  <2> QED
    BY <1>0, <2>1 DEF OneByOne
<1>2. /\ "row" \notin latching[Len(pressed)] /\ rows = {}
      /\ active.row = pressed[Len(pressed)][1]
      /\ "column" \notin latching[Len(pressed)] /\ columns = {}
      /\ active.column = pressed[Len(pressed)][2]
  BY <1>0, <1>1 DEF UnderWay, OnTheWay
<1>3. /\ <<active.row, active.column>> = pressed[Len(pressed)]
      /\ <<active.row, active.column>> \in Keys
      /\ latching[Len(pressed)] = {}
  <2>1. Len(pressed) \in DOMAIN pressed /\ Len(pressed) \in DOMAIN latching
    BY <1>0, <1>1
  <2>2. pressed[Len(pressed)] \in Keys
    BY <1>0, <2>1
  <2>3. latching[Len(pressed)] \in SUBSET {"row", "column"}
    BY <1>0, <2>1
  <2> QED
    BY <1>2, <2>2, <2>3 DEF Keys
<1>4. /\ Len(reported') = Len(reported) + 1
      /\ DOMAIN reported' = 1 .. Len(reported) + 1
      /\ \A i \in DOMAIN reported : reported'[i] = reported[i]
      /\ reported'[Len(reported) + 1] = pressed[Len(pressed)]
      /\ DOMAIN reported = 1 .. Len(reported)
  <2>1. pressed[Len(pressed)] \in Keys
    BY <1>3
  <2>2. reported' = Append(reported, pressed[Len(pressed)])
    BY <1>3 DEF Report
  <2> QED
    BY <1>0, <2>1, <2>2, Appended, SMTT(60)
<1>5. \A i \in DOMAIN reported' : i \in DOMAIN reported \/ i = Len(pressed)
  BY <1>0, <1>1, <1>4
<1>6. OneByOne'
  BY <1>0, <1>1, <1>4, <1>5 DEF OneByOne, keypadVars
<1>7. \A i \in DOMAIN reported' : latching'[i] = {}
  BY <1>0, <1>3, <1>5 DEF keypadVars
<1>8. Quiet'
  BY <1>0, <1>2 DEF Quiet, keypadVars
<1>9. Len(pressed') <= Len(reported') + 1 /\ ~(Len(pressed') > Len(reported'))
  BY <1>0, <1>1, <1>4 DEF keypadVars
<1> QED
  BY <1>6, <1>7, <1>8, <1>9

LEMMA OneNext == IInv /\ OneInv /\ [Next]_vars => OneInv'
<1> SUFFICES ASSUME IInv, OneInv, [Next]_vars PROVE OneInv'
  OBVIOUS
<1> USE DEF UnderWay, OnTheWay, Quiet, keypadVars
<1>1. CASE Press
  BY <1>1, OnePress
<1>2. CASE Latches
  BY <1>2, OneLatch DEF Latches
<1>3. CASE Interrupt
  BY <1>3, OneSame DEF Interrupt
<1>4. CASE ReadRows
  BY <1>4, OneReadRows
<1>5. CASE ReadColumns
  BY <1>5, OneReadColumns
<1>6. CASE Disclaim
  BY <1>6, OneSame DEF Disclaim
<1>7. CASE Keep
  BY <1>7, OneSame DEF Keep
<1>8. CASE Report
  BY <1>8, OneReport
<1>9. CASE UNCHANGED vars
  BY <1>9, OneSame DEF vars
<1> QED
  BY <1>1, <1>2, <1>3, <1>4, <1>5, <1>6, <1>7, <1>8, <1>9 DEF Next, Handler

(***************************************************************************)
(* As long as one key at a time is on its way, every key is reported once  *)
(* and in order, for every keypad and however many keys are pressed.       *)
(***************************************************************************)
THEOREM OneAtATime == Spec => []OneByOne
<1>1. IInv /\ OneInv /\ [Next]_vars => OneInv'
  BY OneNext
<1>2. OneInv => OneByOne
  BY DEF OneInv, OneByOne
<1> QED
  BY <1>1, <1>2, OneInit, Inductive, PTL DEF Spec

(* The keypad has shown all there is and the handler has looked at it. *)
Settled ==
    /\ pc = "idle" /\ ~Raised
    /\ \A i \in DOMAIN latching : latching[i] = {}

AllReported == ~overlapped /\ Settled => reported = pressed

(* One key at a time, none is forgotten: whenever all has been latched and *)
(* the registers have been read, what was pressed has been reported, all   *)
(* of it; no half is left in active[] waiting for another (the last lines  *)
(* of fluke_keypad_handler()).                                             *)
THEOREM NoneForgotten == Spec => []AllReported
<1>1. ASSUME IInv, OneInv, ~overlapped, Settled
      PROVE  reported = pressed
  <2>1. /\ pressed \in Seq(Keys) /\ reported \in Seq(Keys)
        /\ latching \in Seq(SUBSET {"row", "column"})
        /\ Len(latching) = Len(pressed)
        /\ Len(pressed) \in Nat /\ Len(reported) \in Nat
    BY <1>1 DEF IInv, TypeOK
  <2>2. ~(Len(pressed) > Len(reported))
    <3> SUFFICES ASSUME Len(pressed) > Len(reported) PROVE FALSE
      OBVIOUS
    <3>1. UnderWay
      BY <1>1 DEF OneInv
    <3>2. Len(latching) \in DOMAIN latching
      BY <2>1
    <3>3. latching[Len(latching)] = {} /\ rows = {} /\ columns = {}
      BY <1>1, <3>2 DEF Settled, Raised
    <3>4. pressed[Len(pressed)] \in Keys
      BY <2>1
    <3>5. active.row \in Axis /\ active.column \in Axis
      BY <3>1, <3>3, <3>4 DEF UnderWay, OnTheWay, Keys
    <3>6. active.row # -1 /\ active.column # -1
      BY <3>5, Bound DEF Axis
    <3> QED
      BY <1>1, <3>6 DEF IInv, HalfKept, Settled
  <2>3. /\ Len(reported) <= Len(pressed)
        /\ \A i \in DOMAIN reported : reported[i] = pressed[i]
    BY <1>1 DEF OneInv, OneByOne
  <2>4. Len(reported) = Len(pressed)
    BY <2>1, <2>2, <2>3
  <2> QED
    BY <2>1, <2>3, <2>4
<1>2. IInv /\ OneInv => AllReported
  BY <1>1 DEF AllReported
<1> QED
  BY <1>2, OneInit, OneNext, Inductive, PTL DEF Spec

-----------------------------------------------------------------------------
(* Any number of fingers.  Each row reported was latched for a key of its  *)
(* own: those reported, the one in the register and the one the handler    *)
(* knows are no more than the rows latched so far.                         *)

Latched == {i \in DOMAIN latching : "row" \notin latching[i]}
InRegister == IF rows = {} THEN 0 ELSE 1
InHandler == IF active.row = -1 THEN 0 ELSE 1

CountInv == Len(reported) + InRegister + InHandler <= Cardinality(Latched)

ReportedInv ==
    \A i \in DOMAIN reported :
        PressedRow(reported[i][1]) /\ PressedColumn(reported[i][2])

LEMMA LatchedIsFinite ==
    ASSUME IInv
    PROVE  /\ IsFiniteSet(Latched) /\ Cardinality(Latched) \in Nat
           /\ Cardinality(Latched) <= Len(pressed)
<1>1. /\ Len(pressed) \in Nat /\ DOMAIN latching = 1 .. Len(pressed)
  BY DEF IInv, TypeOK
<1>2. /\ IsFiniteSet(1 .. Len(pressed))
      /\ Cardinality(1 .. Len(pressed)) = Len(pressed)
  BY <1>1, FS_Interval, SMTT(60)
<1>3. Latched \in SUBSET (1 .. Len(pressed))
  BY <1>1 DEF Latched
<1>4. /\ IsFiniteSet(Latched)
      /\ Cardinality(Latched) <= Cardinality(1 .. Len(pressed))
  BY <1>2, <1>3, FS_Subset
<1> QED
  BY <1>1, <1>2, <1>4, FS_CardinalityType

LEMMA CountLatch ==
    ASSUME NEW i \in DOMAIN latching, NEW half \in {"row", "column"},
           IInv, CountInv, Latch(i, half)
    PROVE  CountInv'
<1>1. /\ latching \in Seq(SUBSET {"row", "column"})
      /\ reported' = reported /\ active' = active /\ Len(reported) \in Nat
  BY DEF IInv, TypeOK, Latch
<1>2. /\ DOMAIN latching' = DOMAIN latching
      /\ \A j \in DOMAIN latching :
            latching'[j] = IF j = i THEN latching[i] \ {half} ELSE latching[j]
  BY <1>1 DEF Latch
<1>3. half \in latching[i]
  BY DEF Latch
<1>4. CASE half = "row"
  <2>1. Latched' = Latched \cup {i} /\ i \notin Latched
    BY <1>2, <1>3, <1>4 DEF Latched
  <2>2. Cardinality(Latched') = Cardinality(Latched) + 1
    BY <2>1, LatchedIsFinite, FS_AddElement
  <2>3. InRegister \in 0 .. 1 /\ InRegister' \in 0 .. 1
    BY DEF InRegister
  <2>4. InHandler' = InHandler /\ InHandler \in 0 .. 1
    BY <1>1 DEF InHandler
  <2>5. Len(reported') = Len(reported)
    BY <1>1
  <2> QED
    BY <1>1, <2>2, <2>3, <2>4, <2>5, LatchedIsFinite DEF CountInv
<1>5. CASE half = "column"
  <2>1. Latched' = Latched
    BY <1>2, <1>3, <1>5 DEF Latched
  <2>2. rows' = rows
    BY <1>5 DEF Latch
  <2> QED
    BY <1>1, <2>1, <2>2 DEF CountInv, InRegister, InHandler
<1> QED
  BY <1>4, <1>5

LEMMA CountNext == IInv /\ CountInv /\ [Next]_vars => CountInv'
<1> SUFFICES ASSUME IInv, CountInv, [Next]_vars PROVE CountInv'
  OBVIOUS
<1>0. /\ Len(reported) \in Nat /\ Cardinality(Latched) \in Nat
      /\ InRegister \in 0 .. 1 /\ InHandler \in 0 .. 1
  BY LatchedIsFinite DEF InRegister, InHandler, IInv, TypeOK
<1>1. CASE Press
  <2>1. /\ DOMAIN latching' = DOMAIN latching \cup {Len(latching) + 1}
        /\ Len(latching) + 1 \notin DOMAIN latching
        /\ \A i \in DOMAIN latching : latching'[i] = latching[i]
        /\ latching'[Len(latching) + 1] = {"row", "column"}
    <3>1. latching \in Seq(SUBSET {"row", "column"})
      BY DEF IInv, TypeOK
    <3> QED
      BY <1>1, <3>1, Appended DEF Press
  <2>2. Latched' = Latched
    BY <2>1 DEF Latched
  <2> QED
    BY <1>1, <2>2 DEF Press, CountInv, InRegister, InHandler
<1>2. CASE Latches
  BY <1>2, CountLatch DEF Latches
<1>3. CASE ReadRows
  <2>1. /\ rows' = {} /\ UNCHANGED <<latching, reported>>
        /\ active'.row = Seen(rows, active.row)
    BY <1>3 DEF ReadRows, IInv, TypeOK
  <2>2. InRegister' = 0 /\ Latched' = Latched
    BY <2>1 DEF InRegister, Latched
  <2>3. InHandler' <= InHandler + InRegister /\ InHandler' \in 0 .. 1
    <3>1. CASE rows = {}
      BY <2>1, <3>1 DEF Seen, InHandler, InRegister
    <3>2. CASE rows # {}
      BY <1>0, <3>2 DEF InHandler, InRegister
    <3> QED
      BY <3>1, <3>2
  <2> QED
    BY <1>0, <2>1, <2>2, <2>3 DEF CountInv
<1>4. CASE ReadColumns
  <2>1. UNCHANGED <<latching, rows, reported>> /\ active'.row = active.row
    BY <1>4 DEF ReadColumns, IInv, TypeOK
  <2> QED
    BY <2>1 DEF CountInv, InRegister, InHandler, Latched
<1>5. CASE Report
  <2>1. /\ Len(reported') = Len(reported) + 1
        /\ UNCHANGED <<latching, rows>> /\ active'.row = -1
    <3>1. reported \in Seq(Keys) /\ <<active.row, active.column>> \in Keys
      BY <1>5, Bound DEF Report, IInv, TypeOK, Keys, Axis
    <3> QED
      BY <1>5, <3>1, Appended DEF Report, keypadVars
  <2>2. InHandler' = 0 /\ InHandler = 1
    BY <1>5, <2>1 DEF Report, InHandler
  <2>3. InRegister' = InRegister /\ Latched' = Latched
    BY <2>1 DEF InRegister, Latched
  <2> QED
    BY <1>0, <2>1, <2>2, <2>3 DEF CountInv
<1>6. CASE Interrupt \/ Disclaim \/ Keep \/ UNCHANGED vars
  BY <1>6 DEF Interrupt, Disclaim, Keep, vars, keypadVars, CountInv, InRegister,
              InHandler, Latched
<1> QED
  BY <1>1, <1>2, <1>3, <1>4, <1>5, <1>6 DEF Next, Handler

LEMMA ReportedNext == IInv /\ ReportedInv /\ [Next]_vars => ReportedInv'
<1> SUFFICES ASSUME IInv, ReportedInv, [Next]_vars PROVE ReportedInv'
  OBVIOUS
<1>1. CASE Press
  <2>1. PICK key \in Keys : pressed' = Append(pressed, key)
    BY <1>1 DEF Press
  <2>2. \A i \in DOMAIN pressed : i \in DOMAIN pressed' /\ pressed'[i] = pressed[i]
    BY <2>1, Appended DEF IInv, TypeOK
  <2>3. \A v : /\ PressedRow(v) => PressedRow(v)'
               /\ PressedColumn(v) => PressedColumn(v)'
    BY <2>2 DEF PressedRow, PressedColumn
  <2>4. reported' = reported
    BY <1>1 DEF Press
  <2> QED
    BY <2>3, <2>4 DEF ReportedInv
<1>2. CASE Report
  <2>1. /\ reported \in Seq(Keys) /\ <<active.row, active.column>> \in Keys
        /\ active.row # -1 /\ active.column # -1
    BY <1>2, Bound DEF Report, IInv, TypeOK, Keys, Axis
  <2>2. /\ DOMAIN reported' = 1 .. Len(reported) + 1
        /\ DOMAIN reported = 1 .. Len(reported)
        /\ \A i \in DOMAIN reported : reported'[i] = reported[i]
        /\ reported'[Len(reported) + 1] = <<active.row, active.column>>
    BY <1>2, <2>1, Appended DEF Report
  <2>3. PressedRow(active.row) /\ PressedColumn(active.column)
    BY <2>1 DEF IInv, PressedOnly
  <2>4. pressed' = pressed /\ Len(reported) \in Nat
    BY <1>2, <2>1 DEF Report, keypadVars
  <2>5. \A v : /\ PressedRow(v)' <=> PressedRow(v)
               /\ PressedColumn(v)' <=> PressedColumn(v)
    BY <2>4 DEF PressedRow, PressedColumn
  <2> QED
    BY <2>2, <2>3, <2>4, <2>5 DEF ReportedInv
<1>3. CASE \/ Latches \/ Interrupt \/ ReadRows \/ ReadColumns \/ Disclaim \/ Keep
           \/ UNCHANGED vars
  <2>1. pressed' = pressed /\ reported' = reported
    BY <1>3 DEF Latches, Latch, Interrupt, ReadRows, ReadColumns, Disclaim, Keep,
                vars, keypadVars
  <2> QED
    BY <2>1 DEF ReportedInv, PressedRow, PressedColumn
<1> QED
  BY <1>1, <1>2, <1>3 DEF Next, Handler

(***************************************************************************)
(* However many fingers press, and however their halves are mixed up, no   *)
(* more keys are reported than were pressed, and none of a row or a column *)
(* nobody pressed.                                                         *)
(***************************************************************************)
THEOREM NoMoreReported == Spec => []NoMoreThanPressed
<1>1. Init => CountInv /\ ReportedInv
  <2>1. Init => Latched = {}
    BY DEF Init, Latched
  <2>2. Init => Len(reported) = 0 /\ InRegister = 0 /\ InHandler = 0
    BY DEF Init, InRegister, InHandler
  <2>3. Init => ReportedInv
    BY DEF Init, ReportedInv
  <2> QED
    BY <2>1, <2>2, <2>3, FS_EmptySet DEF CountInv
<1>2. IInv /\ CountInv /\ ReportedInv => NoMoreThanPressed
  <2> SUFFICES ASSUME IInv, CountInv, ReportedInv PROVE NoMoreThanPressed
    OBVIOUS
  <2>1. /\ Len(reported) \in Nat /\ InRegister \in 0 .. 1 /\ InHandler \in 0 .. 1
        /\ Len(pressed) \in Nat
    BY DEF InRegister, InHandler, IInv, TypeOK
  <2>2. Len(reported) <= Len(pressed)
    BY <2>1, LatchedIsFinite DEF CountInv
  <2> QED
    BY <2>2 DEF NoMoreThanPressed, ReportedInv
<1> QED
  BY <1>1, <1>2, CountNext, ReportedNext, Inductive, PTL DEF Spec
=============================================================================
