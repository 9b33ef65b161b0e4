----------------------------- MODULE GCodeScan -----------------------------
(***************************************************************************)
(* scan_gcode of t300_mainline/gcode_policy.py, line by line, beside the   *)
(* printer that later executes the same lines.                             *)
(*                                                                         *)
(* The scanner follows the position, the modes and the filament of a print *)
(* it only reads.  It knows nothing of the position START_PRINT leaves,    *)
(* and allows filament to be pushed while the head stands only as far as   *)
(* it was retracted before, up to a rounding allowance that a file cannot  *)
(* collect by repetition.  The printer here is Klipper's G-code state, its *)
(* flow factor (M221) included, which scales every E word and which the    *)
(* scanner does not follow, and a ledger of the filament really moved.     *)
(*                                                                         *)
(* Axis X stands for the XY plane.  Filament is counted in half quanta of  *)
(* the slicer's five-decimal E words, what is really moved in those times  *)
(* the flow factor.  After its first finding a file is refused whatever    *)
(* follows, so the scan ends there.                                        *)
(***************************************************************************)
EXTENDS Integers

CONSTANTS
    NoWord,                 \* a parameter that is not on the line
    AxisMax,                \* an axis runs from 0 to AxisMax
    MaxRetract, MaxPush,    \* bounds: E words run from -MaxRetract to MaxPush
    kamp_purge_margin,
    max_objects,
    max_extrude_only_distance,
    MaxFlow,                \* filament per distance the policy allows
    ORCA_ZERO_LENGTH_PATH_E_MM,
    ORCA_MAX_RETRACTION_SEGMENTS,
    RoundingShare,          \* 1 / ORCA_MAX_ROUNDING_FRACTION
    FullFlow,               \* flow factor of 100 percent
    MaxManualFlow,          \* the highest an operator may set: max_manual_flow_percent
    max_lines

ASSUME ScanAssumption ==
    /\ AxisMax \in Nat /\ max_objects \in Nat /\ max_lines \in Nat
    /\ RoundingShare \in Nat \ {0}
    /\ MaxRetract \in Nat /\ MaxPush \in Nat
    /\ max_extrude_only_distance \in Nat /\ MaxFlow \in Nat
    /\ ORCA_ZERO_LENGTH_PATH_E_MM \in Nat /\ ORCA_MAX_RETRACTION_SEGMENTS \in Nat
    /\ FullFlow \in Nat \ {0} /\ MaxManualFlow \in Nat /\ FullFlow <= MaxManualFlow
    /\ NoWord \notin Int

VARIABLES
    phase,      \* "before" START_PRINT, "printing", "ended", "refused", "accepted"
    lines, objects,
    purge,      \* smallest X and Y of the objects: where a purge fits
    absolute,   \* scanner: [axes |-> absolute_axes, extruder |-> absolute_extruder]
    position,   \* scanner: position[axis], or NoWord
    filament,   \* scanner: extruder position, credit, rounding
    printer,    \* Klipper: modes, position, extruder position, flow factor
    ledger,     \* ghost: what the filament really did
    strayed,    \* ghost: a move was read in another mode than it was run in
    raised      \* ghost: the file raised the flow factor while it held credit

vars == <<phase, lines, objects, purge, absolute, position, filament, printer, ledger,
          strayed, raised>>
ghosts == <<ledger, strayed, raised>>
scanner == <<objects, purge, absolute, position, filament>>

Axes == {"X", "Z"}
Coordinates == 0..AxisMax
EWords == (-MaxRetract)..MaxPush
Modes == [axes : BOOLEAN, extruder : BOOLEAN]

FreshFilament ==
    [at |-> 0, credit |-> 0, segments |-> 0, precise |-> TRUE, armed |-> TRUE,
     moving |-> 0, rounded |-> 0]

Init ==
    /\ phase = "before" /\ lines = 0 /\ objects = 0
    /\ purge = [X |-> AxisMax, Y |-> AxisMax]
    /\ absolute = [axes |-> TRUE, extruder |-> TRUE]
    /\ position = [a \in Axes |-> NoWord]
    /\ filament = FreshFilament
    /\ printer = [modes |-> absolute, at |-> [a \in Axes |-> 0], e |-> 0, factor |-> FullFlow]
    /\ ledger = [owed |-> 0, excess |-> 0, deposit |-> 0, flow |-> TRUE]
    /\ strayed = FALSE /\ raised = FALSE

Abs(n) == IF n < 0 THEN -n ELSE n
LeastOf(a, b) == IF a < b THEN a ELSE b
MostOf(a, b) == IF a > b THEN a ELSE b

\* The next line, within the line limit.
ReadLine == phase \notin {"refused", "accepted"} /\ lines < max_lines /\ lines' = lines + 1

\* add_finding: the report is no longer accepted.
Finding == phase' = "refused" /\ UNCHANGED <<scanner, printer, ghosts>>

(***************************************************************************)
(* Lines other than moves.                                                 *)
(***************************************************************************)
\* A line that is too long, not UTF-8, malformed, forbidden or not on an
\* allowlist.
BadLine == ReadLine /\ Finding

\* A comment or an empty line, progress and display words before
\* START_PRINT or during the print, M400 after END_PRINT.  M600 and PAUSE
\* too: RESUME brings head and filament back; after CANCEL_PRINT the printer
\* runs no further line.
Inert == ReadLine /\ UNCHANGED <<phase, scanner, printer, ghosts>>

\* _validate_object, with its smallest coordinates.
ExcludeObjectDefine(x, y) ==
    /\ ReadLine
    /\ IF phase = "before" /\ objects < max_objects /\ {x, y} \subseteq Coordinates
       THEN /\ objects' = objects + 1
            /\ purge' = [X |-> LeastOf(purge.X, x), Y |-> LeastOf(purge.Y, y)]
            /\ UNCHANGED <<phase, absolute, position, filament, printer, ghosts>>
       ELSE Finding

\* START_PRINT: its temperatures are in range or not; a purge lane must be
\* left.  The macro homes, probes and purges: where the printer then stands,
\* and the modes and the flow factor that an earlier print or the operator
\* left, are unknown.
StartPrint(warm) ==
    /\ ReadLine
    /\ IF /\ phase = "before" /\ objects > 0 /\ warm
          /\ purge.X >= kamp_purge_margin \/ purge.Y >= kamp_purge_margin
       THEN /\ phase' = "printing"
            /\ position' = [a \in Axes |-> NoWord]
            /\ filament' = FreshFilament
            /\ \E m \in Modes, x, z \in Coordinates, f \in 1..MaxManualFlow :
                  printer' = [modes |-> m, at |-> [a \in Axes |-> IF a = "X" THEN x ELSE z],
                              e |-> 0, factor |-> f]
            /\ UNCHANGED <<objects, purge, absolute, ghosts>>
       ELSE Finding

EndPrint ==
    /\ ReadLine
    /\ IF phase = "printing"
       THEN phase' = "ended" /\ UNCHANGED <<scanner, printer, ghosts>>
       ELSE Finding

\* _check_limit_command: above zero and up to the ceiling.
WithinCeiling(value, ceiling) == 0 < value /\ value <= ceiling

\* Temperatures, velocity, acceleration and current limits, pressure
\* advance; also speed, fan, dwell and progress: a value in range changes
\* nothing the scanner follows and no position or E word.
Setting(value) ==
    /\ ReadLine
    /\ IF phase = "printing" /\ WithinCeiling(value, 1)
       THEN UNCHANGED <<phase, scanner, printer, ghosts>>
       ELSE Finding

\* M221, which may reduce but may not raise the flow above 100 percent.
\* Klipper scales every later E word; its extruder position as the file
\* sees it stays.
FlowFactor(value) ==
    /\ ReadLine
    /\ IF phase = "printing" /\ WithinCeiling(value, FullFlow)
       THEN /\ printer' = [printer EXCEPT !.factor = value]
            /\ raised' = (raised \/ (value > printer.factor /\ filament.credit > 0))
            /\ UNCHANGED <<phase, scanner, ledger, strayed>>
       ELSE Finding

\* G90, G91, M82, M83.
SetMode(mode, value) ==
    /\ ReadLine
    /\ IF phase = "printing"
       THEN /\ absolute' = [absolute EXCEPT ![mode] = value]
            /\ printer' = [printer EXCEPT !.modes[mode] = value]
            /\ UNCHANGED <<phase, objects, purge, position, filament, ghosts>>
       ELSE Finding

\* G92 with an E word; with an axis word it is refused.
G92(e) ==
    /\ ReadLine
    /\ IF phase = "printing" /\ e # NoWord
       THEN /\ filament' = [filament EXCEPT !.at = e]
            /\ printer' = [printer EXCEPT !.e = e]
            /\ UNCHANGED <<phase, objects, purge, absolute, position, ghosts>>
       ELSE Finding

(***************************************************************************)
(* Moves: m.word[axis] is the axis word, m.e the E word, m.fine whether it *)
(* has the slicer's precision.                                             *)
(***************************************************************************)
Words(m) == {a \in Axes : m.word[a] # NoWord}

\* A relative word moves from a known place only, unless it is zero.
Reaches(m, a) ==
    IF absolute.axes THEN m.word[a]
    ELSE IF position[a] = NoWord THEN NoWord ELSE position[a] + m.word[a]

\* A variant that leaves a relative move from an unknown place alone.
AnyOrigin(m) == TRUE

KnownOrigin(m) ==
    absolute.axes \/ \A a \in Words(m) : position[a] # NoWord \/ m.word[a] = 0

TargetsInside(m) ==
    \A a \in Words(m) : Reaches(m, a) # NoWord => Reaches(m, a) \in Coordinates

Moved(m) == {a \in Words(m) : Reaches(m, a) # NoWord /\ Reaches(m, a) # position[a]}
FromUnknown(m) == \E a \in Words(m) : absolute.axes /\ position[a] = NoWord

NewPosition(m) ==
    [a \in Axes |-> IF a \in Words(m) /\ Reaches(m, a) # NoWord THEN Reaches(m, a) ELSE position[a]]

EDelta(m) ==
    IF m.e = NoWord THEN 0
    ELSE IF absolute.extruder THEN m.e - filament.at ELSE m.e

NewE(m) == IF m.e = NoWord THEN filament.at ELSE filament.at + EDelta(m)

SquaredDistance(p, q) ==
    (p["X"] - q["X"]) * (p["X"] - q["X"]) + (p["Z"] - q["Z"]) * (p["Z"] - q["Z"])

\* A variant that forgets the root of the squared distance.
FlowOfSquare(e, d) == d > 0 /\ e <= MaxFlow * d

\* The cross-section ceiling, for filament e over squared distance d.
FlowAllowed(e, d) == d > 0 /\ e * e <= MaxFlow * MaxFlow * d

Precise(m) == ~absolute.extruder /\ m.fine

\* What rounding may push in the whole file.
WithinBudget(rounded) ==
    rounded * RoundingShare <= ORCA_ZERO_LENGTH_PATH_E_MM * RoundingShare + filament.moving

Retract(m) ==
    [filament EXCEPT !.at = NewE(m),
        !.credit = LeastOf(max_extrude_only_distance, @ - EDelta(m)),
        !.segments = @ + 1, !.precise = @ /\ Precise(m)]

\* Recovery of a retraction: what exceeds the credit must be rounding, once
\* until the next extruding move.
Excess(m) == MostOf(0, EDelta(m) - filament.credit)
RecoveryAllowed(m) ==
    Excess(m) > 0 =>
        /\ filament.armed /\ filament.precise /\ Precise(m)
        /\ filament.segments <= ORCA_MAX_RETRACTION_SEGMENTS
        /\ Excess(m) <= filament.segments + 1
        /\ WithinBudget(filament.rounded + Excess(m))

Recover(m) ==
    LET left == MostOf(0, filament.credit - EDelta(m))
    IN [filament EXCEPT !.at = NewE(m), !.credit = left,
           !.segments = IF left = 0 THEN 0 ELSE @,
           !.precise = IF left = 0 THEN TRUE ELSE @,
           !.rounded = @ + Excess(m),
           !.armed = @ /\ Excess(m) = 0]

\* A path so short that its XY words did not change.
RoundedPathAllowed(m) ==
    /\ "X" \in Words(m) /\ Precise(m) /\ filament.armed
    /\ EDelta(m) <= ORCA_ZERO_LENGTH_PATH_E_MM
    /\ WithinBudget(filament.rounded + EDelta(m))

RoundedPath(m) ==
    [filament EXCEPT !.at = NewE(m), !.rounded = @ + EDelta(m), !.armed = FALSE]

\* A variant in which an extruding travel spends no credit.
DepositKeepsCredit(m) ==
    [filament EXCEPT !.at = NewE(m), !.moving = @ + EDelta(m), !.armed = TRUE]

\* An extruding travel spends all credit and re-arms the allowance.
Deposit(m) ==
    [FreshFilament EXCEPT !.at = NewE(m), !.moving = filament.moving + EDelta(m),
        !.rounded = filament.rounded]

DepositAllowed(m) ==
    /\ ~FromUnknown(m)
    /\ FlowAllowed(EDelta(m),
          SquaredDistance([a \in Axes |-> IF NewPosition(m)[a] = NoWord THEN 0 ELSE NewPosition(m)[a]],
                          [a \in Axes |-> IF position[a] = NoWord THEN 0 ELSE position[a]]))

EOnlyAllowed(m) ==
    m.e # NoWord /\ (EDelta(m) < 0 \/ "X" \notin Moved(m)) =>
        Abs(EDelta(m)) <= max_extrude_only_distance

\* The outcomes of the filament rules: the new account, or none.
Accounts(m) ==
    LET d == EDelta(m)
        travels == "X" \in Moved(m)
    IN IF d < 0 THEN {Retract(m)}
       ELSE IF d = 0 THEN {[filament EXCEPT !.at = NewE(m)]}
       ELSE IF travels THEN IF DepositAllowed(m) THEN {Deposit(m)} ELSE {}
       ELSE IF filament.credit > 0 THEN IF RecoveryAllowed(m) THEN {Recover(m)} ELSE {}
       ELSE IF RoundedPathAllowed(m) THEN {RoundedPath(m)} ELSE {}

(***************************************************************************)
(* The printer: Klipper's G-code move.  In relative mode every word is     *)
(* relative, the E word too.                                               *)
(***************************************************************************)
PrinterReaches(m) ==
    [a \in Axes |-> IF m.word[a] = NoWord THEN printer.at[a]
                    ELSE IF printer.modes.axes THEN m.word[a] ELSE printer.at[a] + m.word[a]]
PrinterPushes(m) ==
    IF m.e = NoWord THEN 0
    ELSE IF printer.modes.axes /\ printer.modes.extruder THEN m.e - printer.e ELSE m.e

\* A line of E word e over squared distance d is thin enough, measured in
\* the filament that the flow factor makes of it: at most what the policy
\* allows, and beyond that only by what an operator's factor adds.
Thin(e, d) ==
    LET most == MaxFlow * MostOf(FullFlow, printer.factor)
    IN (e * printer.factor) * (e * printer.factor) <= (most * most) * d

Execute(m) ==
    LET e == PrinterPushes(m)
        real == e * printer.factor
        travels == PrinterReaches(m)["X"] # printer.at["X"]
    IN /\ printer' = [printer EXCEPT !.at = PrinterReaches(m), !.e = @ + e]
       /\ ledger' =
            IF e <= 0 THEN [ledger EXCEPT !.owed = @ - real]
            ELSE IF travels
            THEN [ledger EXCEPT !.owed = 0, !.deposit = @ + e,
                     !.flow = @ /\ Thin(e, SquaredDistance(PrinterReaches(m), printer.at))]
            ELSE [ledger EXCEPT !.owed = MostOf(0, @ - real),
                     !.excess = @ + MostOf(0, real - ledger.owed)]
       /\ strayed' = (strayed \/ printer.modes # absolute
                        \/ (~absolute.axes /\ absolute.extruder /\ m.e # NoWord))
       /\ raised' = raised

\* G0 and G1, and G2 and G3 by their end points.
Move(m) ==
    /\ ReadLine
    /\ IF /\ phase = "printing"
          /\ KnownOrigin(m) /\ TargetsInside(m) /\ EOnlyAllowed(m)
          /\ Accounts(m) # {}
       THEN /\ position' = NewPosition(m)
            /\ filament' \in Accounts(m)
            /\ Execute(m)
            /\ UNCHANGED <<phase, objects, purge, absolute>>
       ELSE Finding

\* The end of the file.
Report ==
    /\ phase \notin {"refused", "accepted"}
    /\ phase' = IF phase = "ended" THEN "accepted" ELSE "refused"
    /\ UNCHANGED <<lines, scanner, printer, ghosts>>

MoveLines ==
    [word : [Axes -> (-1..AxisMax + 1) \cup {NoWord}], e : EWords \cup {NoWord}, fine : BOOLEAN]

Next ==
    \/ BadLine \/ Inert
    \/ \E x, y \in 0..AxisMax + 1 : ExcludeObjectDefine(x, y)
    \/ \E warm \in BOOLEAN : StartPrint(warm)
    \/ EndPrint
    \/ \E value \in 0..2 : Setting(value)
    \/ \E value \in 0..FullFlow + 1 : FlowFactor(value)
    \/ \E mode \in {"axes", "extruder"}, value \in BOOLEAN : SetMode(mode, value)
    \/ \E e \in EWords \cup {NoWord} : G92(e)
    \/ \E m \in MoveLines : Move(m)
    \/ Report

Spec == Init /\ [][Next]_vars

----------------------------------------------------------------------------
(***************************************************************************)
(* Properties, of a file none of whose lines has been refused and which    *)
(* sets the modes its moves rely on.                                       *)
(***************************************************************************)
Clean == phase # "refused" /\ ~strayed

\* Every axis the scanner has a position for is really there, and the
\* printer never leaves the bed: relative moves add up, an unknown origin
\* is never used, START_PRINT forgets (gcode_policy.py:885).
InsideTheBed ==
    Clean => \A a \in Axes :
        /\ printer.at[a] \in Coordinates
        /\ position[a] \in {NoWord, printer.at[a]}

\* What the scanner's rounding budget is worth in real filament, at the
\* highest flow factor there is.
WithinRealBudget ==
    ledger.excess * RoundingShare
        <= MaxManualFlow * (ORCA_ZERO_LENGTH_PATH_E_MM * RoundingShare + ledger.deposit)

\* Over the whole file the filament pushed while the head stands, beyond
\* what was retracted since the last extruding move, stays within the
\* rounding budget, however often credit is earned, spent and rounded
\* (gcode_policy.py:934).  The exception is real: after M221 S1, G1 E-1 and
\* M221 S100 the scanner takes G1 E1 for a recovery of what was retracted,
\* a hundredth of it.
StationaryIsEarned == Clean /\ ~raised => WithinRealBudget

\* No extruding travel of the printer is thicker than the policy allows,
\* the first one after the purge included (gcode_policy.py:1010); a factor
\* above 100 percent that the operator left adds its share.
FlowIsBounded == Clean => ledger.flow
=============================================================================
