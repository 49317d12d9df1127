------------------------------- MODULE Keypad -------------------------------
(***************************************************************************)
(* The interrupt handler of the keypad driver (fluke_keypad.c).            *)
(*                                                                         *)
(* A key is a row and a column.  The keypad shows rows in one register and *)
(* columns in another, a bit each, and forgets what was read.  The handler *)
(* reads the registers one after the other; it keeps a row that came       *)
(* without its column, or the reverse, for a later interrupt, and reports  *)
(* a key when it has both.  The interrupt is shared with other devices, so *)
(* that the handler also runs when the keypad has nothing to say.          *)
(***************************************************************************)
EXTENDS Integers, Sequences

CONSTANTS
    AxisLength,         \* FLUKE_KEYPAD_AXIS_LENGTH
    Fingers,            \* keys that are on their way at a time
    MaxKeys             \* bound: the keys pressed

Axis == 0 .. AxisLength - 1
Keys == Axis \X Axis

ASSUME KeypadAssumption ==
    /\ AxisLength \in Nat \ {0}
    /\ Fingers \in Nat \ {0}
    /\ MaxKeys \in Nat

VARIABLES
    \* the keypad
    pressed,            \* the keys pressed so far, in order
    latching,           \* of each: which halves have yet to get to a register
    rows, columns,      \* the registers, as the sets of their bits
    \* the driver
    pc,                 \* where the handler is
    active,             \* active[0], active[1]: a row and a column, or -1
    found,              \* history: this call of the handler read a bit
    overlapped,         \* history: a key was pressed before the last was reported
    reported            \* the keys reported to the input layer, in order

keypadVars == <<pressed, latching, rows, columns>>
vars == <<keypadVars, pc, active, found, overlapped, reported>>

Init ==
    /\ pressed = <<>>
    /\ latching = <<>>
    /\ rows = {}
    /\ columns = {}
    /\ pc = "idle"
    /\ active = [row |-> -1, column |-> -1]
    /\ found = FALSE
    /\ overlapped = FALSE
    /\ reported = <<>>

-----------------------------------------------------------------------------
(* The keypad. *)

\* A key is pressed, unless as many as there are fingers await their report.
Press ==
    /\ Len(pressed) < MaxKeys
    /\ Len(pressed) < Len(reported) + Fingers
    /\ \E key \in Keys : pressed' = Append(pressed, key)
    /\ latching' = Append(latching, {"row", "column"})
    /\ overlapped' = (overlapped \/ Len(pressed) > Len(reported))
    /\ UNCHANGED <<rows, columns, pc, active, found, reported>>

\* Half of a key gets to its register.
Latch(i, half) ==
    /\ half \in latching[i]
    /\ latching' = [latching EXCEPT ![i] = @ \ {half}]
    /\ rows' = IF half = "row" THEN rows \cup {pressed[i][1]} ELSE rows
    /\ columns' = IF half = "column" THEN columns \cup {pressed[i][2]} ELSE columns
    /\ UNCHANGED <<pressed, pc, active, found, overlapped, reported>>

-----------------------------------------------------------------------------
(* fluke_keypad_handler() *)

\* The handler is called: for the keypad, or for a device that shares the line.
Interrupt ==
    /\ pc = "idle"
    /\ pc' = "rows"
    /\ found' = FALSE
    /\ UNCHANGED <<keypadVars, active, overlapped, reported>>

\* The highest bit of a register is the last the loop finds.
Highest(bits) == CHOOSE b \in bits : \A c \in bits : c <= b
Seen(bits, before) == IF bits = {} THEN before ELSE Highest(bits)

ReadRows ==
    /\ pc = "rows"
    /\ active' = [active EXCEPT !.row = Seen(rows, @)]
    /\ found' = (rows # {})
    /\ rows' = {}
    /\ pc' = "columns"
    /\ UNCHANGED <<pressed, latching, columns, overlapped, reported>>

SeenNow(bits) == IF bits = {} THEN -1 ELSE Highest(bits)

ReadColumnsForgets ==           \* mutant: a half does not wait for the other
    /\ pc = "columns"
    /\ active' = [active EXCEPT !.column = SeenNow(columns)]
    /\ found' = (found \/ columns # {})
    /\ columns' = {}
    /\ pc' = "report"
    /\ UNCHANGED <<pressed, latching, rows, overlapped, reported>>

ReadColumns ==
    /\ pc = "columns"
    /\ active' = [active EXCEPT !.column = Seen(columns, @)]
    /\ found' = (found \/ columns # {})
    /\ columns' = {}
    /\ pc' = "report"
    /\ UNCHANGED <<pressed, latching, rows, overlapped, reported>>

DisclaimHalf ==                 \* mutant: half a key is not ours either
    /\ pc = "report"
    /\ (active.row < 0) \/ (active.column < 0)
    /\ pc' = "idle"
    /\ UNCHANGED <<keypadVars, active, found, overlapped, reported>>

\* IRQ_NONE: neither a row nor a column is known.
Disclaim ==
    /\ pc = "report"
    /\ active.row < 0 /\ active.column < 0
    /\ pc' = "idle"
    /\ UNCHANGED <<keypadVars, active, found, overlapped, reported>>

\* IRQ_HANDLED with half a key, which is kept.
Keep ==
    /\ pc = "report"
    /\ (active.row < 0) # (active.column < 0)
    /\ pc' = "idle"
    /\ UNCHANGED <<keypadVars, active, found, overlapped, reported>>

ReportOnly ==                   \* mutant: row and column stay known
    /\ pc = "report"
    /\ active.row >= 0 /\ active.column >= 0
    /\ reported' = Append(reported, <<active.row, active.column>>)
    /\ pc' = "idle"
    /\ UNCHANGED <<keypadVars, active, found, overlapped>>

\* IRQ_HANDLED with a key: it goes down and up again, and is forgotten.
Report ==
    /\ pc = "report"
    /\ active.row >= 0 /\ active.column >= 0
    /\ reported' = Append(reported, <<active.row, active.column>>)
    /\ active' = [row |-> -1, column |-> -1]
    /\ pc' = "idle"
    /\ UNCHANGED <<keypadVars, found, overlapped>>

Handler == ReadRows \/ ReadColumns \/ Disclaim \/ Keep \/ Report

Latches == \E i \in DOMAIN latching, half \in {"row", "column"} : Latch(i, half)

Next == Press \/ Latches \/ Interrupt \/ Handler

Spec == Init /\ [][Next]_vars

(* The keypad raises the interrupt as long as a register shows something;  *)
(* the handler, once called, runs to its end.                              *)
Raised == rows # {} \/ columns # {}
FairSpec ==
    /\ Spec
    /\ WF_vars(Latches)
    /\ WF_vars(Raised /\ Interrupt)
    /\ WF_vars(Handler)

-----------------------------------------------------------------------------
(* Types, and what the handler relies on: every half it knows, or may come *)
(* to know, is of a pressed key; outside the handler it knows half a key at *)
(* most; and what a call has found it still knows when it decides.         *)

TypeOK ==
    /\ pressed \in Seq(Keys)
    /\ latching \in Seq(SUBSET {"row", "column"})
    /\ Len(latching) = Len(pressed)
    /\ rows \subseteq Axis
    /\ columns \subseteq Axis
    /\ pc \in {"idle", "rows", "columns", "report"}
    /\ active \in [row : Axis \cup {-1}, column : Axis \cup {-1}]
    /\ found \in BOOLEAN
    /\ overlapped \in BOOLEAN
    /\ reported \in Seq(Keys)

PressedRow(r) == \E i \in DOMAIN pressed : pressed[i][1] = r
PressedColumn(c) == \E i \in DOMAIN pressed : pressed[i][2] = c

PressedOnly ==
    /\ \A r \in rows : PressedRow(r)
    /\ \A c \in columns : PressedColumn(c)
    /\ active.row # -1 => PressedRow(active.row)
    /\ active.column # -1 => PressedColumn(active.column)

HalfKept == pc \in {"idle", "rows"} => (active.row = -1) \/ (active.column = -1)

FoundIsKnown ==
    /\ pc = "columns" /\ found => active.row # -1
    /\ pc = "report" /\ found => (active.row # -1) \/ (active.column # -1)

IInv == TypeOK /\ PressedOnly /\ HalfKept /\ FoundIsKnown

(***************************************************************************)
(* As long as one key at a time is on its way, keys come out as they went  *)
(* in: each once, in order, whichever half is latched first and however    *)
(* the latches fall between the reads of the two registers.                *)
(***************************************************************************)
OneByOne ==
    ~overlapped =>
        /\ Len(reported) <= Len(pressed)
        /\ \A i \in DOMAIN reported : reported[i] = pressed[i]

(* It is inductive with where the halves of the key under way are: on      *)
(* their way, in their register, or known to the handler.                  *)
OnTheWay(half, register, known, value) ==
    LET last == latching[Len(latching)] IN
    \/ half \in last    /\ register = {}      /\ known = -1
    \/ half \notin last /\ register = {value} /\ known = -1
    \/ half \notin last /\ register = {}      /\ known = value

UnderWay ==
    /\ OnTheWay("row", rows, active.row, pressed[Len(pressed)][1])
    /\ OnTheWay("column", columns, active.column, pressed[Len(pressed)][2])

Quiet == rows = {} /\ columns = {} /\ active.row = -1 /\ active.column = -1

OneInv ==
    ~overlapped =>
        /\ OneByOne
        /\ Len(pressed) <= Len(reported) + 1
        /\ \A i \in DOMAIN reported : latching[i] = {}
        /\ IF Len(pressed) > Len(reported) THEN UnderWay ELSE Quiet

(***************************************************************************)
(* With several fingers keys may be mixed up, but no more are reported     *)
(* than were pressed, and no row nor column that nobody pressed.           *)
(***************************************************************************)
NoMoreThanPressed ==
    /\ Len(reported) <= Len(pressed)
    /\ \A i \in DOMAIN reported :
          /\ PressedRow(reported[i][1])
          /\ PressedColumn(reported[i][2])

(***************************************************************************)
(* The handler disclaims no interrupt it took something for: the kernel    *)
(* would in the end turn off a line whose interrupts nobody claims.        *)
(***************************************************************************)
OursIsClaimed == [][Disclaim => ~found]_vars

(***************************************************************************)
(* As long as one key at a time is on its way, every key is reported.      *)
(***************************************************************************)
EveryKeyReported == \A n \in 1 .. MaxKeys :
    Len(pressed) = n ~> (Len(reported) >= n) \/ overlapped
=============================================================================
