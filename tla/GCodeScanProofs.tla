-------------------------- MODULE GCodeScanProofs --------------------------
(***************************************************************************)
(* Proofs about GCodeScan, for beds, budgets and files of any size.        *)
(*                                                                         *)
(* The scanner never sees the printer: it keeps a shadow of it.  The       *)
(* invariant says how exact that shadow is while the file sets the modes   *)
(* it relies on: a position it holds is the printer's, its E position is   *)
(* the printer's, its credit at the current flow factor never exceeds what *)
(* the filament is owed, and the rounding it books at the highest factor   *)
(* covers what was really pushed in excess.  The last two hold until the   *)
(* file raises the factor while it holds credit.  The budget the scanner   *)
(* checks on its own books therefore bounds the real filament.             *)
(***************************************************************************)
EXTENDS GCodeScan, TLAPS

Accounting ==
    [at : Int, credit : Nat, segments : Nat, precise : BOOLEAN, armed : BOOLEAN,
     moving : Nat, rounded : Nat]

Factors == 1..MaxManualFlow
Printers == [modes : Modes, at : [Axes -> Int], e : Int, factor : Factors]
Ledgers == [owed : Nat, excess : Nat, deposit : Nat, flow : BOOLEAN]

ScanTypes ==
    /\ phase \in {"before", "printing", "ended", "refused", "accepted"}
    /\ absolute \in Modes
    /\ position \in [Axes -> Coordinates \cup {NoWord}]
    /\ filament \in Accounting
    /\ printer \in Printers
    /\ ledger \in Ledgers
    /\ strayed \in BOOLEAN /\ raised \in BOOLEAN

\* The scanner's own books keep the budget, strayed or not.
Budget == WithinBudget(filament.rounded)

\* No filament is accounted for before START_PRINT, which opens new books.
NothingYet ==
    phase = "before" =>
        /\ filament.moving = 0 /\ filament.rounded = 0
        /\ ledger.excess = 0 /\ ledger.deposit = 0

\* The scanner's shadow of the filament.
Covered ==
    /\ filament.credit * printer.factor <= ledger.owed
    /\ ledger.excess <= filament.rounded * MaxManualFlow

BooksCover ==
    Clean =>
        /\ filament.at = printer.e
        /\ ledger.deposit = filament.moving
        /\ ~raised => Covered

ScanInv ==
    ScanTypes /\ Budget /\ NothingYet /\ InsideTheBed /\ BooksCover /\ FlowIsBounded

----------------------------------------------------------------------------
(***************************************************************************)
(* Arithmetic.                                                             *)
(***************************************************************************)
\* A product with a common factor keeps the order.
LEMMA ProductKeepsOrder ==
    ASSUME NEW a \in Nat, NEW b \in Nat, NEW r \in Nat, a <= b
    PROVE  a * r <= b * r
<1>1. PICK c \in Nat : b = a + c
  BY b - a \in Nat, b = a + (b - a)
<1>2. b * r = a * r + c * r
  BY <1>1
<1>3. a * r \in Nat /\ c * r \in Nat
  OBVIOUS
<1> QED BY <1>2, <1>3

\* A retraction of e at factor f: what it earns, it is owed.
LEMMA RetractionIsOwed ==
    ASSUME NEW f \in Nat, NEW e \in Nat, NEW c \in Nat, NEW d \in Nat, NEW o \in Nat,
           d <= c + e, c * f <= o
    PROVE  d * f <= o + e * f
<1>1. d * f <= (c + e) * f
  BY ProductKeepsOrder
<1>2. (c + e) * f = c * f + e * f
  OBVIOUS
<1>3. d * f \in Nat /\ c * f \in Nat /\ e * f \in Nat
  OBVIOUS
<1> QED BY <1>1, <1>2, <1>3

\* A recovery of e at factor f from credit c and debt o: what remains is
\* owed, and what exceeds the debt is within the excess over the credit.
LEMMA RecoveryIsBooked ==
    ASSUME NEW f \in Nat, NEW e \in Nat, NEW c \in Nat, NEW o \in Nat, NEW x \in Nat,
           NEW b \in Nat, f <= MaxManualFlow, c * f <= o, x <= b * MaxManualFlow
    PROVE  /\ MostOf(0, c - e) * f <= MostOf(0, o - e * f)
           /\ x + MostOf(0, e * f - o)
                 <= (b + (IF e > c THEN e - c ELSE 0)) * MaxManualFlow
<1>1. /\ c * f \in Nat /\ e * f \in Nat
      /\ MaxManualFlow \in Nat /\ b * MaxManualFlow \in Nat
  BY ScanAssumption
<1>2. CASE e <= c
  <2>1. PICK k \in Nat : c = e + k
    BY <1>2, c - e \in Nat, c = e + (c - e)
  <2>2. c * f = e * f + k * f /\ k * f \in Nat
    BY <2>1
  <2>3. MostOf(0, c - e) = k /\ MostOf(0, e * f - o) = 0
    BY <1>1, <2>1, <2>2 DEF MostOf
  <2>4. k * f <= o - e * f
    BY <1>1, <2>2
  <2>5. k * f <= MostOf(0, o - e * f)
    BY <1>1, <2>2, <2>4 DEF MostOf
  <2>6. (IF e > c THEN e - c ELSE 0) = 0 /\ b + 0 = b
    BY <1>2
  <2> QED BY <2>3, <2>5, <2>6
<1>3. CASE e > c
  <2>1. PICK k \in Nat : e = c + k
    BY <1>3, e - c \in Nat, e = c + (e - c)
  <2>2. e * f = c * f + k * f /\ k * f \in Nat
    BY <2>1
  <2>3. k * f <= k * MaxManualFlow
    BY <1>1, ProductKeepsOrder, f * k = k * f, MaxManualFlow * k = k * MaxManualFlow
  <2>4. (b + k) * MaxManualFlow = b * MaxManualFlow + k * MaxManualFlow
        /\ k * MaxManualFlow \in Nat
    BY <1>1
  <2>5. MostOf(0, c - e) = 0 /\ 0 * f = 0 /\ 0 <= MostOf(0, o - e * f)
    BY <1>1, <1>3 DEF MostOf
  <2>6. MostOf(0, e * f - o) <= k * MaxManualFlow
    BY <1>1, <2>2, <2>3, <2>4 DEF MostOf
  <2>7. x + MostOf(0, e * f - o) <= (b + k) * MaxManualFlow
    BY <1>1, <2>4, <2>6 DEF MostOf
  <2>8. (IF e > c THEN e - c ELSE 0) = k
    BY <1>3, <2>1
  <2> QED BY <2>5, <2>7, <2>8
<1> QED BY <1>2, <1>3

\* What is thin enough at 100 percent is at most the factor thicker.
LEMMA AllowedIsThin ==
    ASSUME NEW e \in Nat, NEW d \in Nat, printer.factor \in Nat, FlowAllowed(e, d)
    PROVE  Thin(e, d)
<1> DEFINE f == printer.factor
           w == MostOf(FullFlow, f)
           l == MaxFlow * MaxFlow * d
<1>1. /\ f \in Nat /\ w \in Nat /\ f <= w /\ MaxFlow \in Nat
  BY ScanAssumption DEF MostOf
<1>2. e * e <= l /\ e * e \in Nat /\ l \in Nat
  BY <1>1 DEF FlowAllowed
<1>3. Thin(e, d) = ((e * f) * (e * f) <= ((MaxFlow * w) * (MaxFlow * w)) * d)
  BY DEF Thin
<1> HIDE DEF w, f
<1>4. f * f \in Nat /\ w * w \in Nat /\ f * f <= w * w
  <2>1. f * f <= w * f
    BY <1>1, ProductKeepsOrder
  <2>2. f * w <= w * w
    BY <1>1, ProductKeepsOrder
  <2>3. f * w = w * f /\ f * f \in Nat /\ w * w \in Nat /\ w * f \in Nat
    BY <1>1
  <2> QED BY <2>1, <2>2, <2>3
<1>5. (e * f) * (e * f) = (e * e) * (f * f)
  BY <1>1
<1>6. ((MaxFlow * w) * (MaxFlow * w)) * d = (w * w) * l
  BY <1>1
<1> HIDE DEF l
<1>7. (e * e) * (f * f) <= l * (f * f)
  BY <1>2, <1>4, ProductKeepsOrder
<1>8. (f * f) * l <= (w * w) * l
  BY <1>2, <1>4, ProductKeepsOrder
<1>9. /\ l * (f * f) = (f * f) * l /\ (f * f) * l \in Nat
      /\ (e * e) * (f * f) \in Nat /\ (w * w) * l \in Nat
  BY <1>2, <1>4
<1> DEFINE a == (e * e) * (f * f)
           b == (f * f) * l
           c == (w * w) * l
<1>10. a <= b /\ b <= c /\ a \in Nat /\ b \in Nat /\ c \in Nat
  BY <1>7, <1>8, <1>9
<1>11. a <= c => Thin(e, d)
  BY <1>3, <1>5, <1>6
<1> HIDE DEF a, b, c
<1>12. a <= c
  BY <1>10
<1> QED BY <1>11, <1>12

\* Equal displacements along both axes are equally far.
LEMMA EqualDisplacement ==
    ASSUME NEW p, NEW q, NEW s, NEW t,
           p["X"] - q["X"] = s["X"] - t["X"], p["Z"] - q["Z"] = s["Z"] - t["Z"]
    PROVE  SquaredDistance(p, q) = SquaredDistance(s, t)
BY DEF SquaredDistance

\* The budget is monotone in the filament laid down while moving.
LEMMA BudgetGrows ==
    ASSUME ScanTypes, Budget, NEW d \in Nat
    PROVE  filament.rounded * RoundingShare
              <= ORCA_ZERO_LENGTH_PATH_E_MM * RoundingShare + (filament.moving + d)
<1>1. filament.moving \in Nat /\ filament.rounded \in Nat
  BY DEF ScanTypes, Accounting
<1>2. /\ filament.rounded * RoundingShare \in Nat
      /\ ORCA_ZERO_LENGTH_PATH_E_MM * RoundingShare \in Nat
  BY <1>1, ScanAssumption
<1>3. filament.rounded * RoundingShare
         <= ORCA_ZERO_LENGTH_PATH_E_MM * RoundingShare + filament.moving
  BY DEF Budget, WithinBudget
<1> QED BY <1>1, <1>2, <1>3

----------------------------------------------------------------------------
(***************************************************************************)
(* What a move reads and writes.                                           *)
(***************************************************************************)
LEMMA AxesOfPlane == "X" \in Axes /\ "Z" \in Axes /\ \A a \in Axes : a = "X" \/ a = "Z"
BY DEF Axes

LEMMA WordsOfMove ==
    ASSUME NEW m \in MoveLines
    PROVE  /\ m.word \in [Axes -> Int \cup {NoWord}]
           /\ m.e \in Int \cup {NoWord}
           /\ \A a \in Words(m) : a \in Axes /\ m.word[a] \in Int
<1>1. /\ m.word \in [Axes -> (-1..AxisMax + 1) \cup {NoWord}]
      /\ m.e \in EWords \cup {NoWord}
  BY DEF MoveLines
<1>2. (-1..AxisMax + 1) \subseteq Int /\ EWords \subseteq Int
  BY ScanAssumption DEF EWords
<1>3. \A a \in Axes : m.word[a] \in Int \cup {NoWord}
  BY <1>1, <1>2
<1>4. m.word \in [Axes -> Int \cup {NoWord}]
  BY <1>1, <1>3
<1> QED BY <1>1, <1>2, <1>3, <1>4 DEF Words

\* The E word of a move, as a displacement and as a position.
LEMMA ExtruderOfMove ==
    ASSUME ScanTypes, NEW m \in MoveLines
    PROVE  EDelta(m) \in Int /\ NewE(m) \in Int /\ PrinterPushes(m) \in Int
<1>1. filament.at \in Int /\ printer.e \in Int
  BY DEF ScanTypes, Accounting, Printers
<1>2. m.e # NoWord => m.e \in Int
  BY WordsOfMove
<1>3. EDelta(m) \in Int
  BY <1>1, <1>2 DEF EDelta
<1>4. NewE(m) \in Int
  BY <1>1, <1>3 DEF NewE
<1>5. PrinterPushes(m) \in Int
  BY <1>1, <1>2 DEF PrinterPushes
<1> QED BY <1>3, <1>4, <1>5

\* Where the scanner believes the head after the move, and where it is.
LEMMA PlacesOfMove ==
    ASSUME ScanTypes, NEW m \in MoveLines, TargetsInside(m)
    PROVE  /\ NewPosition(m) \in [Axes -> Coordinates \cup {NoWord}]
           /\ PrinterReaches(m) \in [Axes -> Int]
<1>1. /\ position \in [Axes -> Coordinates \cup {NoWord}]
      /\ printer.at \in [Axes -> Int]
  BY DEF ScanTypes, Printers
<1>2. NewPosition(m) \in [Axes -> Coordinates \cup {NoWord}]
  BY <1>1 DEF NewPosition, TargetsInside
<1>3. \A a \in Axes : m.word[a] # NoWord => m.word[a] \in Int
  BY WordsOfMove
<1>4. PrinterReaches(m) \in [Axes -> Int]
  BY <1>1, <1>3 DEF PrinterReaches
<1> QED BY <1>2, <1>4

\* A move the printer runs in the modes it was read in: the scanner knows
\* what it pushes and, from a known place, where it leads.
Followed(m) ==
    /\ Clean /\ phase = "printing"
    /\ printer.modes = absolute
    /\ absolute.axes \/ ~absolute.extruder \/ m.e = NoWord
    /\ KnownOrigin(m) /\ TargetsInside(m)

LEMMA PushIsKnown ==
    ASSUME ScanInv, NEW m \in MoveLines, Followed(m)
    PROVE  PrinterPushes(m) = EDelta(m) /\ NewE(m) = printer.e + PrinterPushes(m)
<1>1. filament.at = printer.e /\ printer.e \in Int
  BY DEF ScanInv, BooksCover, ScanTypes, Printers, Followed
<1>2. absolute.axes \in BOOLEAN /\ absolute.extruder \in BOOLEAN
  BY DEF ScanInv, ScanTypes, Modes
<1>3. PrinterPushes(m) = EDelta(m)
  BY <1>1, <1>2 DEF Followed, PrinterPushes, EDelta
<1>4. NewE(m) = filament.at + EDelta(m)
  BY <1>1 DEF NewE, EDelta
<1> QED BY <1>1, <1>3, <1>4

\* Axis by axis: the printer stays inside the bed, the scanner knows where
\* it went or admits that it does not, and an axis it holds to be unmoved
\* stood still unless its place was unknown.
LEMMA PlaceIsKnown ==
    ASSUME ScanInv, NEW m \in MoveLines, Followed(m), NEW a \in Axes
    PROVE  /\ PrinterReaches(m)[a] \in Coordinates
           /\ NewPosition(m)[a] \in {NoWord, PrinterReaches(m)[a]}
           /\ position[a] # NoWord => NewPosition(m)[a] # NoWord
           /\ ~FromUnknown(m) /\ position[a] = NoWord
                => NewPosition(m)[a] = NoWord /\ PrinterReaches(m)[a] = printer.at[a]
<1>1. /\ printer.at[a] \in Coordinates
      /\ position[a] \in {NoWord, printer.at[a]}
  BY DEF ScanInv, InsideTheBed, Followed
<1>2. printer.at[a] \in Int /\ NoWord \notin Int
  BY <1>1, ScanAssumption DEF Coordinates
<1>3. absolute.axes \in BOOLEAN
  BY DEF ScanInv, ScanTypes, Modes
<1>4. PrinterReaches(m)[a] =
        IF m.word[a] = NoWord THEN printer.at[a]
        ELSE IF absolute.axes THEN m.word[a] ELSE printer.at[a] + m.word[a]
  BY DEF PrinterReaches, Followed
<1>5. NewPosition(m)[a] =
        IF a \in Words(m) /\ Reaches(m, a) # NoWord THEN Reaches(m, a) ELSE position[a]
  BY DEF NewPosition
<1>6. CASE a \notin Words(m)
  <2>1. m.word[a] = NoWord
    BY <1>6 DEF Words
  <2> QED BY <1>1, <1>4, <1>5, <1>6, <2>1
<1>7. CASE a \in Words(m) /\ absolute.axes
  <2>1. m.word[a] # NoWord /\ m.word[a] \in Int /\ Reaches(m, a) = m.word[a]
    BY <1>7, WordsOfMove DEF Words, Reaches
  <2>2. m.word[a] \in Coordinates
    BY <1>7, <2>1 DEF Followed, TargetsInside
  <2>3. position[a] = NoWord => FromUnknown(m)
    BY <1>7 DEF FromUnknown
  <2> QED BY <1>1, <1>4, <1>5, <1>7, <2>1, <2>2, <2>3
<1>8. CASE a \in Words(m) /\ ~absolute.axes /\ position[a] # NoWord
  <2>1. m.word[a] # NoWord /\ m.word[a] \in Int
    BY <1>8, WordsOfMove DEF Words
  <2>2. position[a] = printer.at[a] /\ Reaches(m, a) = printer.at[a] + m.word[a]
    BY <1>1, <1>8 DEF Reaches
  <2>3. Reaches(m, a) \in Int
    BY <1>1, <1>2, <2>1, <2>2
  <2>4. Reaches(m, a) # NoWord
    BY <1>2, <2>3
  <2>5. Reaches(m, a) \in Coordinates
    BY <1>8, <2>4 DEF Followed, TargetsInside
  <2> QED BY <1>4, <1>5, <1>8, <2>1, <2>2, <2>4, <2>5
<1>9. CASE a \in Words(m) /\ ~absolute.axes /\ position[a] = NoWord
  <2>1. m.word[a] = 0
    BY <1>9 DEF Followed, KnownOrigin
  <2>2. Reaches(m, a) = NoWord
    BY <1>9 DEF Reaches
  <2>3. m.word[a] # NoWord /\ printer.at[a] + m.word[a] = printer.at[a]
    BY <1>1, <1>2, <2>1
  <2> QED BY <1>1, <1>4, <1>5, <1>9, <2>1, <2>2, <2>3
<1> QED BY <1>3, <1>6, <1>7, <1>8, <1>9

\* When the place of every moved axis was known, the head travels exactly
\* when the scanner thinks so.
LEMMA TravelIsKnown ==
    ASSUME ScanInv, NEW m \in MoveLines, Followed(m), ~FromUnknown(m)
    PROVE  ("X" \in Moved(m)) <=> (PrinterReaches(m)["X"] # printer.at["X"])
<1>1. "X" \in Axes
  BY AxesOfPlane
<1>2. position["X"] \in {NoWord, printer.at["X"]}
  BY <1>1 DEF ScanInv, InsideTheBed, Followed
<1>3. /\ NewPosition(m)["X"] \in {NoWord, PrinterReaches(m)["X"]}
      /\ position["X"] # NoWord => NewPosition(m)["X"] # NoWord
      /\ position["X"] = NoWord
           => NewPosition(m)["X"] = NoWord /\ PrinterReaches(m)["X"] = printer.at["X"]
  BY <1>1, PlaceIsKnown
<1>4. ("X" \in Moved(m)) <=> (NewPosition(m)["X"] # position["X"])
  BY <1>1 DEF Moved, NewPosition, Words
<1> QED BY <1>2, <1>3, <1>4

\* Filament pushed with the head held to be at rest: the head is at rest.
\* The scanner would take an unknown axis that moves for a travel.
LEMMA UnmovedStands ==
    ASSUME ScanInv, NEW m \in MoveLines, Followed(m), "X" \notin Moved(m)
    PROVE  PrinterReaches(m)["X"] = printer.at["X"]
<1>1. "X" \in Axes
  BY AxesOfPlane
<1>2. position["X"] \in {NoWord, printer.at["X"]}
  BY <1>1 DEF ScanInv, InsideTheBed, Followed
<1>3. NewPosition(m)["X"] = position["X"]
  BY <1>1 DEF Moved, NewPosition, Words
<1>4. /\ NewPosition(m)["X"] \in {NoWord, PrinterReaches(m)["X"]}
      /\ position["X"] # NoWord => NewPosition(m)["X"] # NoWord
  BY <1>1, PlaceIsKnown
<1>5. CASE position["X"] # NoWord
  BY <1>2, <1>3, <1>4, <1>5
<1>6. CASE position["X"] = NoWord
  <2>1. "X" \notin Words(m) \/ Reaches(m, "X") = NoWord
    BY <1>1, <1>6 DEF Moved
  <2>2. CASE "X" \notin Words(m)
    BY <1>1, <2>2 DEF Words, PrinterReaches
  <2>3. CASE "X" \in Words(m) /\ Reaches(m, "X") = NoWord
    <3>1. ~absolute.axes /\ m.word["X"] = 0 /\ m.word["X"] # NoWord
      BY <1>1, <1>6, <2>3, ScanAssumption DEF Reaches, Words, Followed, KnownOrigin
    <3>2. PrinterReaches(m)["X"] = printer.at["X"] + 0 /\ printer.at["X"] \in Int
      BY <1>1, <3>1 DEF PrinterReaches, Followed, ScanInv, ScanTypes, Printers
    <3> QED BY <3>2
  <2> QED BY <2>1, <2>2, <2>3
<1> QED BY <1>5, <1>6

\* And the distance it checks is the distance the head covers.
OrZero(p) == [a \in Axes |-> IF p[a] = NoWord THEN 0 ELSE p[a]]

LEMMA DistanceIsKnown ==
    ASSUME ScanInv, NEW m \in MoveLines, Followed(m), ~FromUnknown(m)
    PROVE  SquaredDistance(OrZero(NewPosition(m)), OrZero(position))
              = SquaredDistance(PrinterReaches(m), printer.at)
<1>1. ASSUME NEW a \in Axes
      PROVE  OrZero(NewPosition(m))[a] - OrZero(position)[a]
                = PrinterReaches(m)[a] - printer.at[a]
  <2>1. /\ printer.at[a] \in Coordinates
        /\ position[a] \in {NoWord, printer.at[a]}
    BY DEF ScanInv, InsideTheBed, Followed
  <2>2. /\ PrinterReaches(m)[a] \in Coordinates
        /\ NewPosition(m)[a] \in {NoWord, PrinterReaches(m)[a]}
        /\ position[a] # NoWord => NewPosition(m)[a] # NoWord
        /\ position[a] = NoWord
             => NewPosition(m)[a] = NoWord /\ PrinterReaches(m)[a] = printer.at[a]
    BY PlaceIsKnown
  <2>3. printer.at[a] \in Int /\ PrinterReaches(m)[a] \in Int /\ NoWord \notin Int
    BY <2>1, <2>2, ScanAssumption DEF Coordinates
  <2>4. /\ OrZero(NewPosition(m))[a] = IF NewPosition(m)[a] = NoWord THEN 0 ELSE NewPosition(m)[a]
        /\ OrZero(position)[a] = IF position[a] = NoWord THEN 0 ELSE position[a]
    BY DEF OrZero
  <2>5. CASE position[a] = NoWord
    BY <2>2, <2>3, <2>4, <2>5
  <2>6. CASE position[a] # NoWord
    BY <2>1, <2>2, <2>3, <2>4, <2>6
  <2> QED BY <2>5, <2>6
<1> QED BY <1>1, AxesOfPlane, EqualDisplacement

----------------------------------------------------------------------------
(***************************************************************************)
(* The accounts.                                                           *)
(***************************************************************************)
LEMMA AccountFields ==
    ASSUME ScanTypes
    PROVE  /\ filament.at \in Int /\ filament.credit \in Nat /\ filament.segments \in Nat
           /\ filament.moving \in Nat /\ filament.rounded \in Nat
           /\ filament.precise \in BOOLEAN /\ filament.armed \in BOOLEAN
BY DEF ScanTypes, Accounting

\* The outcomes of the filament rules, by what they leave in the account.
LEMMA AccountOutcomes ==
    ASSUME ScanTypes, NEW m \in MoveLines, NEW f \in Accounts(m)
    PROVE  \/ EDelta(m) < 0 /\ f = Retract(m)
           \/ EDelta(m) = 0 /\ f = [filament EXCEPT !.at = NewE(m)]
           \/ EDelta(m) > 0 /\ "X" \in Moved(m) /\ DepositAllowed(m) /\ f = Deposit(m)
           \/ /\ EDelta(m) > 0 /\ "X" \notin Moved(m)
              /\ filament.credit > 0 /\ RecoveryAllowed(m) /\ f = Recover(m)
           \/ /\ EDelta(m) > 0 /\ "X" \notin Moved(m)
              /\ filament.credit = 0 /\ RoundedPathAllowed(m) /\ f = RoundedPath(m)
<1>1. EDelta(m) \in Int /\ filament.credit \in Nat
  BY ExtruderOfMove, AccountFields
<1>2. f \in IF EDelta(m) < 0 THEN {Retract(m)}
       ELSE IF EDelta(m) = 0 THEN {[filament EXCEPT !.at = NewE(m)]}
       ELSE IF "X" \in Moved(m) THEN IF DepositAllowed(m) THEN {Deposit(m)} ELSE {}
       ELSE IF filament.credit > 0 THEN IF RecoveryAllowed(m) THEN {Recover(m)} ELSE {}
       ELSE IF RoundedPathAllowed(m) THEN {RoundedPath(m)} ELSE {}
  BY DEF Accounts
<1> QED BY <1>1, <1>2

LEMMA ExcessOfMove ==
    ASSUME ScanTypes, NEW m \in MoveLines, EDelta(m) > 0
    PROVE  /\ Excess(m) \in Nat
           /\ Excess(m) = IF EDelta(m) > filament.credit THEN EDelta(m) - filament.credit ELSE 0
BY ExtruderOfMove, AccountFields DEF Excess, MostOf

\* A retraction earns credit and books nothing.
LEMMA RetractAccount ==
    ASSUME ScanTypes, NEW m \in MoveLines, EDelta(m) < 0
    PROVE  /\ Retract(m) \in Accounting
           /\ Retract(m).at = NewE(m)
           /\ Retract(m).credit <= filament.credit - EDelta(m)
           /\ Retract(m).moving = filament.moving /\ Retract(m).rounded = filament.rounded
<1>1. filament \in Accounting
  BY DEF ScanTypes
<1>2. EDelta(m) \in Int /\ NewE(m) \in Int
  BY ExtruderOfMove
<1>3. filament.credit \in Nat /\ filament.segments \in Nat
  BY AccountFields
<1>4. DEFINE c == LeastOf(max_extrude_only_distance, filament.credit - EDelta(m))
             p == filament.precise /\ Precise(m)
<1>5. c \in Nat /\ c <= filament.credit - EDelta(m)
  BY <1>2, <1>3, ScanAssumption DEF LeastOf
<1>6. filament.segments + 1 \in Nat
  BY <1>3
<1>7. p \in BOOLEAN
  BY Zenon
<1>8. Retract(m) = [filament EXCEPT !.at = NewE(m), !.credit = c,
                       !.segments = filament.segments + 1, !.precise = p]
  BY <1>1 DEF Retract, Accounting
<1> HIDE DEF c, p
<1>9. /\ Retract(m) \in Accounting
      /\ Retract(m).at = NewE(m) /\ Retract(m).credit = c
      /\ Retract(m).moving = filament.moving /\ Retract(m).rounded = filament.rounded
  BY <1>1, <1>2, <1>5, <1>6, <1>7, <1>8 DEF Accounting
<1> QED BY <1>5, <1>9

\* A recovery spends credit, and books what exceeds it as rounding.
LEMMA RecoverAccount ==
    ASSUME ScanTypes, NEW m \in MoveLines, EDelta(m) > 0
    PROVE  /\ Recover(m) \in Accounting
           /\ Recover(m).at = NewE(m)
           /\ Recover(m).credit = MostOf(0, filament.credit - EDelta(m))
           /\ Recover(m).moving = filament.moving
           /\ Recover(m).rounded = filament.rounded + Excess(m)
<1>1. filament \in Accounting
  BY DEF ScanTypes
<1>2. EDelta(m) \in Int /\ NewE(m) \in Int
  BY ExtruderOfMove
<1>3. filament.credit \in Nat /\ filament.segments \in Nat /\ filament.rounded \in Nat
  BY AccountFields
<1>4. DEFINE left == MostOf(0, filament.credit - EDelta(m))
             g == IF left = 0 THEN 0 ELSE filament.segments
             p == IF left = 0 THEN TRUE ELSE filament.precise
             r == filament.rounded + Excess(m)
             w == filament.armed /\ Excess(m) = 0
<1>5. left \in Nat
  BY <1>2, <1>3 DEF MostOf
<1>6. g \in Nat
  BY <1>3
<1>7. p \in BOOLEAN
  BY AccountFields
<1>8. r \in Nat
  BY <1>3, ExcessOfMove
<1>9. w \in BOOLEAN
  BY Zenon
<1>10. Recover(m) = [filament EXCEPT !.at = NewE(m), !.credit = left, !.segments = g,
                        !.precise = p, !.rounded = r, !.armed = w]
  BY <1>1 DEF Recover, Accounting
<1> HIDE DEF left, g, p, r, w
<1>11. /\ Recover(m) \in Accounting
       /\ Recover(m).at = NewE(m) /\ Recover(m).credit = left
       /\ Recover(m).moving = filament.moving /\ Recover(m).rounded = r
  BY <1>1, <1>2, <1>5, <1>6, <1>7, <1>8, <1>9, <1>10 DEF Accounting
<1> QED BY <1>11 DEF left, r

\* A rounded path is booked as rounding altogether.
LEMMA RoundedAccount ==
    ASSUME ScanTypes, NEW m \in MoveLines, EDelta(m) > 0
    PROVE  /\ RoundedPath(m) \in Accounting
           /\ RoundedPath(m).at = NewE(m)
           /\ RoundedPath(m).credit = filament.credit
           /\ RoundedPath(m).moving = filament.moving
           /\ RoundedPath(m).rounded = filament.rounded + EDelta(m)
<1>1. filament \in Accounting
  BY DEF ScanTypes
<1>2. EDelta(m) \in Int /\ NewE(m) \in Int /\ filament.rounded \in Nat
  BY ExtruderOfMove, AccountFields
<1>3. filament.rounded + EDelta(m) \in Nat
  BY <1>2
<1>4. RoundedPath(m) = [filament EXCEPT !.at = NewE(m),
                           !.rounded = filament.rounded + EDelta(m), !.armed = FALSE]
  BY <1>1 DEF RoundedPath, Accounting
<1> QED BY <1>1, <1>2, <1>3, <1>4 DEF Accounting

\* A deposit spends all credit and enlarges the budget.
LEMMA DepositAccount ==
    ASSUME ScanTypes, NEW m \in MoveLines, EDelta(m) > 0
    PROVE  /\ Deposit(m) \in Accounting
           /\ Deposit(m).at = NewE(m)
           /\ Deposit(m).credit = 0
           /\ Deposit(m).moving = filament.moving + EDelta(m)
           /\ Deposit(m).rounded = filament.rounded
<1>1. EDelta(m) \in Int /\ NewE(m) \in Int /\ filament.rounded \in Nat /\ filament.moving \in Nat
  BY ExtruderOfMove, AccountFields
<1>2. filament.moving + EDelta(m) \in Nat
  BY <1>1
<1> QED BY <1>1, <1>2 DEF Deposit, FreshFilament, Accounting

\* A word that moves no filament changes the E position at most.
LEMMA IdleAccount ==
    ASSUME ScanTypes, NEW e \in Int
    PROVE  LET f == [filament EXCEPT !.at = e]
           IN /\ f \in Accounting
              /\ f.at = e /\ f.credit = filament.credit
              /\ f.moving = filament.moving /\ f.rounded = filament.rounded
BY DEF ScanTypes, Accounting

\* Every accepted move keeps the account typed and within its budget.
LEMMA AccountKeepsBudget ==
    ASSUME ScanTypes, Budget, NEW m \in MoveLines, filament' \in Accounts(m)
    PROVE  filament' \in Accounting /\ Budget'
<1> DEFINE Fits(r, v) == r * RoundingShare <= ORCA_ZERO_LENGTH_PATH_E_MM * RoundingShare + v
<1>1. Fits(filament.rounded, filament.moving)
  BY DEF Budget, WithinBudget
<1>2. Budget' = Fits(filament'.rounded, filament'.moving)
  BY DEF Budget, WithinBudget
<1>3. EDelta(m) \in Int /\ NewE(m) \in Int /\ filament.rounded \in Nat
  BY ExtruderOfMove, AccountFields
<1>4. CASE EDelta(m) < 0 /\ filament' = Retract(m)
  <2> HIDE DEF Fits
  <2> QED BY <1>1, <1>2, <1>4, RetractAccount
<1>5. CASE EDelta(m) = 0 /\ filament' = [filament EXCEPT !.at = NewE(m)]
  <2> HIDE DEF Fits
  <2> QED BY <1>1, <1>2, <1>3, <1>5, IdleAccount
<1>6. CASE EDelta(m) > 0 /\ filament' = Deposit(m)
  <2>1. Fits(filament.rounded, filament.moving + EDelta(m))
    BY <1>3, <1>6, BudgetGrows
  <2> HIDE DEF Fits
  <2> QED BY <1>2, <1>6, <2>1, DepositAccount
<1>7. CASE EDelta(m) > 0 /\ RecoveryAllowed(m) /\ filament' = Recover(m)
  <2>1. CASE Excess(m) > 0
    <3>1. Fits(filament.rounded + Excess(m), filament.moving)
      BY <1>7, <2>1 DEF RecoveryAllowed, WithinBudget
    <3> HIDE DEF Fits
    <3> QED BY <1>2, <1>7, <3>1, RecoverAccount
  <2>2. CASE Excess(m) = 0
    <3>1. filament.rounded + Excess(m) = filament.rounded
      BY <1>3, <2>2
    <3> HIDE DEF Fits
    <3> QED BY <1>1, <1>2, <1>7, <3>1, RecoverAccount
  <2> QED BY <1>7, <2>1, <2>2, ExcessOfMove
<1>8. CASE EDelta(m) > 0 /\ RoundedPathAllowed(m) /\ filament' = RoundedPath(m)
  <2>1. Fits(filament.rounded + EDelta(m), filament.moving)
    BY <1>8 DEF RoundedPathAllowed, WithinBudget
  <2> HIDE DEF Fits
  <2> QED BY <1>2, <1>8, <2>1, RoundedAccount
<1> QED BY <1>4, <1>5, <1>6, <1>7, <1>8, AccountOutcomes

----------------------------------------------------------------------------
(***************************************************************************)
(* The printer executes a move.                                            *)
(***************************************************************************)
LEMMA FactorOfPrinter ==
    ASSUME ScanTypes
    PROVE  /\ printer.factor \in Factors /\ printer.factor \in Nat
           /\ printer.factor <= MaxManualFlow /\ MaxManualFlow \in Nat
BY ScanAssumption DEF ScanTypes, Printers, Factors

\* The filament a move really pushes or draws.
RealPush(m) == PrinterPushes(m) * printer.factor

LEMMA RealPushSign ==
    ASSUME ScanTypes, NEW m \in MoveLines
    PROVE  /\ RealPush(m) \in Int
           /\ PrinterPushes(m) <= 0 => RealPush(m) <= 0
<1>1. PrinterPushes(m) \in Int /\ printer.factor \in Nat
  BY ExtruderOfMove, FactorOfPrinter
<1>2. RealPush(m) \in Int
  BY <1>1 DEF RealPush
<1>3. ASSUME PrinterPushes(m) <= 0 PROVE RealPush(m) <= 0
  <2>1. PICK n \in Nat : PrinterPushes(m) = -n
    BY <1>1, <1>3, -PrinterPushes(m) \in Nat, PrinterPushes(m) = -(-PrinterPushes(m))
  <2>2. n * printer.factor \in Nat /\ RealPush(m) = -(n * printer.factor)
    BY <1>1, <2>1 DEF RealPush
  <2> QED BY <2>2
<1> QED BY <1>2, <1>3

LEMMA ExecuteTypes ==
    ASSUME ScanTypes, NEW m \in MoveLines, TargetsInside(m), Execute(m)
    PROVE  /\ printer' \in Printers
           /\ printer'.modes = printer.modes /\ printer'.at = PrinterReaches(m)
           /\ printer'.e = printer.e + PrinterPushes(m)
           /\ printer'.factor = printer.factor /\ raised' = raised
           /\ ledger' \in Ledgers
           /\ strayed' \in BOOLEAN
<1> DEFINE e == PrinterPushes(m)
           g == RealPush(m)
           travels == PrinterReaches(m)["X"] # printer.at["X"]
           thin == ledger.flow /\ Thin(e, SquaredDistance(PrinterReaches(m), printer.at))
<1>1. e \in Int /\ PrinterReaches(m) \in [Axes -> Int]
  BY ExtruderOfMove, PlacesOfMove
<1>2. printer \in Printers
  BY DEF ScanTypes
<1>3. printer.e + e \in Int
  BY <1>1, <1>2 DEF Printers
<1>4. printer' = [printer EXCEPT !.at = PrinterReaches(m), !.e = printer.e + e]
  BY <1>2 DEF Execute, Printers
<1>5. ledger \in Ledgers /\ ledger.owed \in Nat /\ ledger.excess \in Nat /\ ledger.deposit \in Nat
  BY DEF ScanTypes, Ledgers
<1>6. thin \in BOOLEAN
  BY Zenon
<1>7. ledger' = IF e <= 0 THEN [ledger EXCEPT !.owed = ledger.owed - g]
                ELSE IF travels
                THEN [ledger EXCEPT !.owed = 0, !.deposit = ledger.deposit + e, !.flow = thin]
                ELSE [ledger EXCEPT !.owed = MostOf(0, ledger.owed - g),
                         !.excess = ledger.excess + MostOf(0, g - ledger.owed)]
  BY <1>5 DEF Execute, Ledgers, RealPush
<1>8. /\ e <= 0 => ledger.owed - g \in Nat
      /\ e > 0 => ledger.deposit + e \in Nat
      /\ MostOf(0, ledger.owed - g) \in Nat
      /\ ledger.excess + MostOf(0, g - ledger.owed) \in Nat
  BY <1>1, <1>5, RealPushSign DEF MostOf
<1>9. strayed' \in BOOLEAN
  BY Zenon DEF Execute
<1> HIDE DEF e, g, travels, thin
<1>10. /\ printer' \in Printers
       /\ printer'.modes = printer.modes /\ printer'.at = PrinterReaches(m)
       /\ printer'.e = printer.e + e /\ printer'.factor = printer.factor
  BY <1>1, <1>2, <1>3, <1>4 DEF Printers
<1>11. e <= 0 => ledger' \in Ledgers
  BY <1>5, <1>7, <1>8 DEF Ledgers
<1>12. e > 0 /\ travels => ledger' \in Ledgers
  <2>1. SUFFICES ASSUME e > 0, travels PROVE ledger' \in Ledgers
    OBVIOUS
  <2>2. ledger' = [ledger EXCEPT !.owed = 0, !.deposit = ledger.deposit + e, !.flow = thin]
    BY <1>1, <1>7, <2>1
  <2> QED BY <1>5, <1>6, <1>8, <2>1, <2>2 DEF Ledgers
<1>13. e > 0 /\ ~travels => ledger' \in Ledgers
  <2>1. SUFFICES ASSUME e > 0, ~travels PROVE ledger' \in Ledgers
    OBVIOUS
  <2>2. ledger' = [ledger EXCEPT !.owed = MostOf(0, ledger.owed - g),
                      !.excess = ledger.excess + MostOf(0, g - ledger.owed)]
    BY <1>1, <1>7, <2>1
  <2> QED BY <1>5, <1>8, <2>2 DEF Ledgers
<1>14. ledger' \in Ledgers
  BY <1>1, <1>11, <1>12, <1>13
<1>15. raised' = raised
  BY DEF Execute
<1> QED BY <1>9, <1>10, <1>14, <1>15 DEF e

\* What a push of e does to the ledger, field by field.
LEMMA LedgerOutcomes ==
    ASSUME ScanTypes, NEW m \in MoveLines, Execute(m)
    PROVE  LET e == PrinterPushes(m)
               g == RealPush(m) IN
           /\ e <= 0 =>
                /\ ledger'.owed = ledger.owed - g /\ ledger'.excess = ledger.excess
                /\ ledger'.deposit = ledger.deposit /\ ledger'.flow = ledger.flow
           /\ e > 0 /\ PrinterReaches(m)["X"] # printer.at["X"] =>
                /\ ledger'.owed = 0 /\ ledger'.excess = ledger.excess
                /\ ledger'.deposit = ledger.deposit + e
                /\ ledger'.flow =
                     (ledger.flow /\ Thin(e, SquaredDistance(PrinterReaches(m), printer.at)))
           /\ e > 0 /\ PrinterReaches(m)["X"] = printer.at["X"] =>
                /\ ledger'.owed = MostOf(0, ledger.owed - g)
                /\ ledger'.excess = ledger.excess + MostOf(0, g - ledger.owed)
                /\ ledger'.deposit = ledger.deposit /\ ledger'.flow = ledger.flow
<1> DEFINE e == PrinterPushes(m)
           g == RealPush(m)
           travels == PrinterReaches(m)["X"] # printer.at["X"]
           thin == ledger.flow /\ Thin(e, SquaredDistance(PrinterReaches(m), printer.at))
<1>1. e \in Int
  BY ExtruderOfMove
<1>2. ledger \in Ledgers
  BY DEF ScanTypes, Ledgers
<1>3. ledger' = IF e <= 0 THEN [ledger EXCEPT !.owed = ledger.owed - g]
                ELSE IF travels
                THEN [ledger EXCEPT !.owed = 0, !.deposit = ledger.deposit + e, !.flow = thin]
                ELSE [ledger EXCEPT !.owed = MostOf(0, ledger.owed - g),
                         !.excess = ledger.excess + MostOf(0, g - ledger.owed)]
  BY <1>2 DEF Execute, Ledgers, RealPush
<1> HIDE DEF e, g, travels, thin
<1>4. e <= 0 =>
        /\ ledger'.owed = ledger.owed - g /\ ledger'.excess = ledger.excess
        /\ ledger'.deposit = ledger.deposit /\ ledger'.flow = ledger.flow
  BY <1>2, <1>3 DEF Ledgers
<1>5. e > 0 /\ travels =>
        /\ ledger'.owed = 0 /\ ledger'.excess = ledger.excess
        /\ ledger'.deposit = ledger.deposit + e /\ ledger'.flow = thin
  BY <1>1, <1>2, <1>3 DEF Ledgers
<1>6. e > 0 /\ ~travels =>
        /\ ledger'.owed = MostOf(0, ledger.owed - g)
        /\ ledger'.excess = ledger.excess + MostOf(0, g - ledger.owed)
        /\ ledger'.deposit = ledger.deposit /\ ledger'.flow = ledger.flow
  BY <1>1, <1>2, <1>3 DEF Ledgers
<1> QED BY <1>4, <1>5, <1>6 DEF e, g, travels, thin

\* A line of a file that still sets its modes ran in the modes it was read.
LEMMA NotStrayed ==
    ASSUME ScanTypes, NEW m \in MoveLines, Execute(m), ~strayed', phase = "printing",
           KnownOrigin(m), TargetsInside(m)
    PROVE  Followed(m)
BY DEF Execute, Followed, Clean, ScanTypes, Modes

\* The shadow stays exact over a move: each rule of the scanner books at
\* least what the filament does.
LEMMA MoveKeepsBooks ==
    ASSUME ScanInv, NEW m \in MoveLines, Followed(m), Execute(m), filament' \in Accounts(m)
    PROVE  /\ filament'.at = printer'.e
           /\ ledger'.deposit = filament'.moving
           /\ ~raised' => Covered'
           /\ ledger'.flow
<1> DEFINE f == printer.factor
           g == EDelta(m) * f
<1>1. ScanTypes /\ TargetsInside(m)
  BY DEF ScanInv, Followed
<1>2. PrinterPushes(m) = EDelta(m) /\ NewE(m) = printer.e + PrinterPushes(m)
  BY PushIsKnown
<1>3. printer'.e = NewE(m) /\ printer'.factor = f /\ raised' = raised
  BY <1>1, <1>2, ExecuteTypes
<1>4. /\ ledger.deposit = filament.moving
      /\ ~raised => filament.credit * f <= ledger.owed
                      /\ ledger.excess <= filament.rounded * MaxManualFlow
  BY DEF ScanInv, BooksCover, Covered, Followed
<1>5. ledger.flow
  BY DEF ScanInv, FlowIsBounded, Followed
<1>6. /\ filament.credit \in Nat /\ filament.rounded \in Nat /\ filament.moving \in Nat
      /\ ledger.owed \in Nat /\ ledger.excess \in Nat
      /\ EDelta(m) \in Int /\ NewE(m) \in Int
      /\ f \in Nat /\ f <= MaxManualFlow /\ MaxManualFlow \in Nat
  BY <1>1, AccountFields, ExtruderOfMove, FactorOfPrinter DEF ScanTypes, Ledgers
<1>7. /\ EDelta(m) <= 0 =>
           /\ ledger'.owed = ledger.owed - g /\ ledger'.excess = ledger.excess
           /\ ledger'.deposit = ledger.deposit /\ ledger'.flow = ledger.flow
      /\ EDelta(m) > 0 /\ PrinterReaches(m)["X"] # printer.at["X"] =>
           /\ ledger'.owed = 0 /\ ledger'.excess = ledger.excess
           /\ ledger'.deposit = ledger.deposit + EDelta(m)
           /\ ledger'.flow = (ledger.flow
                /\ Thin(EDelta(m), SquaredDistance(PrinterReaches(m), printer.at)))
      /\ EDelta(m) > 0 /\ PrinterReaches(m)["X"] = printer.at["X"] =>
           /\ ledger'.owed = MostOf(0, ledger.owed - g)
           /\ ledger'.excess = ledger.excess + MostOf(0, g - ledger.owed)
           /\ ledger'.deposit = ledger.deposit /\ ledger'.flow = ledger.flow
  BY <1>1, <1>2, LedgerOutcomes DEF RealPush
<1>8. Covered' = (/\ filament'.credit * f <= ledger'.owed
                  /\ ledger'.excess <= filament'.rounded * MaxManualFlow)
  BY <1>3 DEF Covered
<1> HIDE DEF g
<1>9. CASE EDelta(m) < 0 /\ filament' = Retract(m)
  <2>1. /\ filament'.at = NewE(m) /\ filament'.credit <= filament.credit - EDelta(m)
        /\ filament'.moving = filament.moving /\ filament'.rounded = filament.rounded
        /\ filament'.credit \in Nat
    BY <1>1, <1>9, RetractAccount DEF Accounting
  <2>2. EDelta(m) <= 0
    BY <1>6, <1>9
  <2>3. /\ ledger'.owed = ledger.owed - g /\ ledger'.excess = ledger.excess
        /\ ledger'.deposit = ledger.deposit /\ ledger'.flow = ledger.flow
    BY <1>7, <2>2, Zenon
  <2>4. ASSUME ~raised PROVE filament'.credit * f <= ledger'.owed
    <3>1. PICK n \in Nat : EDelta(m) = -n
      BY <1>6, <2>2, -EDelta(m) \in Nat, EDelta(m) = -(-EDelta(m))
    <3>2. filament'.credit <= filament.credit + n
      BY <1>6, <2>1, <3>1
    <3>3. filament'.credit * f <= ledger.owed + n * f
      BY <1>4, <1>6, <2>1, <2>4, <3>2, RetractionIsOwed
    <3>4. g = -(n * f) /\ n * f \in Nat
      BY <1>6, <3>1 DEF g
    <3>5. ledger'.owed = ledger.owed + n * f
      BY <1>6, <2>3, <3>4
    <3> QED BY <3>3, <3>5
  <2> QED BY <1>3, <1>4, <1>5, <1>8, <2>1, <2>3, <2>4
<1>10. CASE EDelta(m) = 0 /\ filament' = [filament EXCEPT !.at = NewE(m)]
  <2>1. /\ filament'.at = NewE(m) /\ filament'.credit = filament.credit
        /\ filament'.moving = filament.moving /\ filament'.rounded = filament.rounded
    BY <1>1, <1>6, <1>10, IdleAccount
  <2>2. EDelta(m) <= 0
    BY <1>6, <1>10
  <2>3. /\ ledger'.owed = ledger.owed - g /\ ledger'.excess = ledger.excess
        /\ ledger'.deposit = ledger.deposit /\ ledger'.flow = ledger.flow
    BY <1>7, <2>2, Zenon
  <2>4. ledger'.owed = ledger.owed
    <3>1. g = 0
      BY <1>6, <1>10 DEF g
    <3> QED BY <1>6, <2>3, <3>1
  <2> QED BY <1>3, <1>4, <1>5, <1>8, <2>1, <2>3, <2>4
<1>11. CASE /\ EDelta(m) > 0 /\ "X" \in Moved(m) /\ DepositAllowed(m)
            /\ filament' = Deposit(m)
  <2>1. /\ ~FromUnknown(m)
        /\ FlowAllowed(EDelta(m), SquaredDistance(OrZero(NewPosition(m)), OrZero(position)))
    BY <1>11 DEF DepositAllowed, OrZero
  <2>2. PrinterReaches(m)["X"] # printer.at["X"]
    BY <1>11, <2>1, TravelIsKnown
  <2>3. FlowAllowed(EDelta(m), SquaredDistance(PrinterReaches(m), printer.at))
    BY <2>1, DistanceIsKnown
  <2>4. Thin(EDelta(m), SquaredDistance(PrinterReaches(m), printer.at))
    <3>1. SquaredDistance(PrinterReaches(m), printer.at) \in Int
      BY <1>1, PlacesOfMove, AxesOfPlane DEF ScanTypes, Printers, SquaredDistance
    <3>2. SquaredDistance(PrinterReaches(m), printer.at) \in Nat /\ EDelta(m) \in Nat
      BY <1>6, <1>11, <2>3, <3>1 DEF FlowAllowed
    <3> QED BY <1>6, <2>3, <3>2, AllowedIsThin
  <2>5. /\ filament'.at = NewE(m) /\ filament'.credit = 0
        /\ filament'.moving = filament.moving + EDelta(m)
        /\ filament'.rounded = filament.rounded
    BY <1>1, <1>11, DepositAccount
  <2>6. /\ ledger'.owed = 0 /\ ledger'.excess = ledger.excess
        /\ ledger'.deposit = ledger.deposit + EDelta(m) /\ ledger'.flow
    BY <1>5, <1>7, <1>11, <2>2, <2>4
  <2>7. 0 * f <= 0
    BY <1>6
  <2> QED BY <1>3, <1>4, <1>6, <1>8, <2>5, <2>6, <2>7
<1>12. CASE /\ EDelta(m) > 0 /\ "X" \notin Moved(m) /\ filament.credit > 0
            /\ filament' = Recover(m)
  <2>1. PrinterReaches(m)["X"] = printer.at["X"]
    BY <1>6, <1>12, UnmovedStands
  <2>2. /\ filament'.at = NewE(m) /\ filament'.moving = filament.moving
        /\ filament'.credit = MostOf(0, filament.credit - EDelta(m))
        /\ filament'.rounded = filament.rounded + Excess(m)
        /\ Excess(m) = IF EDelta(m) > filament.credit THEN EDelta(m) - filament.credit ELSE 0
    BY <1>1, <1>12, RecoverAccount, ExcessOfMove
  <2>3. /\ ledger'.owed = MostOf(0, ledger.owed - g)
        /\ ledger'.excess = ledger.excess + MostOf(0, g - ledger.owed)
        /\ ledger'.deposit = ledger.deposit /\ ledger'.flow
    BY <1>5, <1>7, <1>12, <2>1
  <2>4. ASSUME ~raised
        PROVE  /\ filament'.credit * f <= ledger'.owed
               /\ ledger'.excess <= filament'.rounded * MaxManualFlow
    <3>1. EDelta(m) \in Nat
      BY <1>6, <1>12
    <3>2. /\ MostOf(0, filament.credit - EDelta(m)) * f
                <= MostOf(0, ledger.owed - EDelta(m) * f)
          /\ ledger.excess + MostOf(0, EDelta(m) * f - ledger.owed)
                <= (filament.rounded
                      + (IF EDelta(m) > filament.credit THEN EDelta(m) - filament.credit ELSE 0))
                   * MaxManualFlow
      BY <1>4, <1>6, <2>4, <3>1, RecoveryIsBooked
    <3> QED BY <2>2, <2>3, <3>2 DEF g
  <2> QED BY <1>3, <1>4, <1>8, <2>2, <2>3, <2>4
<1>13. CASE /\ EDelta(m) > 0 /\ "X" \notin Moved(m) /\ filament.credit = 0
            /\ filament' = RoundedPath(m)
  <2>1. PrinterReaches(m)["X"] = printer.at["X"]
    BY <1>6, <1>13, UnmovedStands
  <2>2. /\ filament'.at = NewE(m) /\ filament'.moving = filament.moving
        /\ filament'.credit = 0
        /\ filament'.rounded = filament.rounded + EDelta(m)
    BY <1>1, <1>13, RoundedAccount
  <2>3. /\ ledger'.owed = MostOf(0, ledger.owed - g)
        /\ ledger'.excess = ledger.excess + MostOf(0, g - ledger.owed)
        /\ ledger'.deposit = ledger.deposit /\ ledger'.flow
    BY <1>5, <1>7, <1>13, <2>1
  <2>4. ASSUME ~raised
        PROVE  /\ filament'.credit * f <= ledger'.owed
               /\ ledger'.excess <= filament'.rounded * MaxManualFlow
    <3>1. EDelta(m) \in Nat /\ 0 \in Nat /\ 0 * f <= ledger.owed
      BY <1>6, <1>13
    <3>2. /\ MostOf(0, 0 - EDelta(m)) * f <= MostOf(0, ledger.owed - EDelta(m) * f)
          /\ ledger.excess + MostOf(0, EDelta(m) * f - ledger.owed)
                <= (filament.rounded + (IF EDelta(m) > 0 THEN EDelta(m) - 0 ELSE 0))
                   * MaxManualFlow
      BY <1>4, <1>6, <2>4, <3>1, RecoveryIsBooked
    <3>3. MostOf(0, 0 - EDelta(m)) = 0
          /\ (IF EDelta(m) > 0 THEN EDelta(m) - 0 ELSE 0) = EDelta(m)
      BY <1>6, <1>13 DEF MostOf
    <3> QED BY <2>2, <2>3, <3>2, <3>3 DEF g
  <2> QED BY <1>3, <1>4, <1>8, <2>2, <2>3, <2>4
<1> QED BY <1>1, <1>9, <1>10, <1>11, <1>12, <1>13, AccountOutcomes

\* A move executed and accounted for.
LEMMA MoveKeepsInv ==
    ASSUME ScanInv, NEW m \in MoveLines, phase = "printing",
           KnownOrigin(m), TargetsInside(m),
           position' = NewPosition(m), filament' \in Accounts(m), Execute(m),
           phase' = phase, absolute' = absolute
    PROVE  ScanInv'
<1>1. ScanTypes /\ Budget
  BY DEF ScanInv
<1>2. ScanTypes'
  <2>1. filament' \in Accounting
    BY <1>1, AccountKeepsBudget
  <2>2. position' \in [Axes -> Coordinates \cup {NoWord}]
    BY <1>1, PlacesOfMove
  <2>3. /\ printer' \in Printers
        /\ ledger' \in Ledgers /\ strayed' \in BOOLEAN /\ raised' \in BOOLEAN
    BY <1>1, ExecuteTypes DEF ScanTypes
  <2>4. phase' \in {"before", "printing", "ended", "refused", "accepted"} /\ absolute' \in Modes
    BY <1>1 DEF ScanTypes
  <2> QED BY <2>1, <2>2, <2>3, <2>4 DEF ScanTypes
<1>3. Budget'
  BY <1>1, AccountKeepsBudget
<1>4. NothingYet'
  BY DEF NothingYet
<1>5. Clean' => Followed(m)
  BY <1>1, NotStrayed DEF Clean
<1>6. InsideTheBed'
  <2>1. printer'.at = PrinterReaches(m)
    BY <1>1, ExecuteTypes
  <2>2. ASSUME Followed(m), NEW a \in Axes
        PROVE  /\ PrinterReaches(m)[a] \in Coordinates
               /\ NewPosition(m)[a] \in {NoWord, PrinterReaches(m)[a]}
    BY <2>2, PlaceIsKnown
  <2> QED BY <1>5, <2>1, <2>2 DEF InsideTheBed, Clean
<1>7. BooksCover'
  BY <1>5, MoveKeepsBooks DEF BooksCover
<1>8. FlowIsBounded'
  BY <1>5, MoveKeepsBooks DEF FlowIsBounded
<1> QED BY <1>2, <1>3, <1>4, <1>6, <1>7, <1>8 DEF ScanInv

----------------------------------------------------------------------------
(***************************************************************************)
(* The steps.                                                              *)
(***************************************************************************)
LEMMA InitScanInv == Init => ScanInv
<1> SUFFICES ASSUME Init PROVE ScanInv
  OBVIOUS
<1>1. /\ filament = FreshFilament /\ position = [a \in Axes |-> NoWord]
      /\ absolute = [axes |-> TRUE, extruder |-> TRUE]
      /\ printer = [modes |-> absolute, at |-> [a \in Axes |-> 0], e |-> 0, factor |-> FullFlow]
      /\ ledger = [owed |-> 0, excess |-> 0, deposit |-> 0, flow |-> TRUE]
      /\ phase = "before" /\ strayed = FALSE /\ raised = FALSE
  BY DEF Init
<1>2. ScanTypes
  <2>1. absolute \in Modes
    BY <1>1 DEF Modes
  <2>2. printer \in Printers
    BY <1>1, <2>1, ScanAssumption DEF Printers, Factors
  <2>3. filament \in Accounting
    BY <1>1 DEF Accounting, FreshFilament
  <2>4. ledger \in Ledgers
    BY <1>1 DEF Ledgers
  <2> QED BY <1>1, <2>1, <2>2, <2>3, <2>4 DEF ScanTypes
<1>3. /\ filament.at = 0 /\ filament.credit = 0 /\ filament.moving = 0 /\ filament.rounded = 0
      /\ printer.e = 0 /\ ledger.owed = 0 /\ ledger.excess = 0 /\ ledger.deposit = 0
      /\ ledger.flow
  BY <1>1 DEF FreshFilament
<1>4. Budget
  <2>1. ORCA_ZERO_LENGTH_PATH_E_MM * RoundingShare \in Nat /\ 0 * RoundingShare = 0
    BY ScanAssumption
  <2> QED BY <1>3, <2>1 DEF Budget, WithinBudget
<1>5. NothingYet /\ BooksCover /\ FlowIsBounded
  <2>1. 0 * printer.factor = 0 /\ 0 * MaxManualFlow = 0
    BY <1>1, ScanAssumption
  <2> QED BY <1>3, <2>1 DEF NothingYet, BooksCover, Covered, FlowIsBounded
<1>6. InsideTheBed
  <2>1. 0 \in Coordinates
    BY ScanAssumption DEF Coordinates
  <2> QED BY <1>1, <2>1 DEF InsideTheBed
<1> QED BY <1>2, <1>4, <1>5, <1>6 DEF ScanInv

\* Lines that leave the shadow and the printer alone, in a phase that does
\* not lead back before START_PRINT or out of a refusal.
LEMMA QuietKeepsInv ==
    ASSUME ScanInv, UNCHANGED <<absolute, position, filament, printer, ghosts>>,
           phase' \in {"before", "printing", "ended", "refused", "accepted"},
           phase' # "refused" => phase # "refused",
           phase' = "before" => phase = "before"
    PROVE  ScanInv'
<1>1. ScanTypes' /\ Budget' /\ NothingYet'
  BY DEF ScanInv, ScanTypes, Budget, WithinBudget, NothingYet, ghosts
<1>2. Clean' => Clean
  BY DEF Clean, ghosts
<1>3. InsideTheBed' /\ BooksCover' /\ FlowIsBounded'
  BY <1>2 DEF ScanInv, InsideTheBed, BooksCover, Covered, FlowIsBounded, ghosts
<1> QED BY <1>1, <1>3 DEF ScanInv

LEMMA FindingKeepsInv == ScanInv /\ Finding => ScanInv'
BY QuietKeepsInv DEF Finding, scanner

LEMMA QuietLines ==
    ASSUME ScanInv,
           \/ BadLine \/ Inert \/ EndPrint \/ Report
           \/ \E x, y \in 0..AxisMax + 1 : ExcludeObjectDefine(x, y)
           \/ \E value \in 0..2 : Setting(value)
    PROVE  ScanInv'
<1>1. phase \in {"before", "printing", "ended", "refused", "accepted"}
  BY DEF ScanInv, ScanTypes
<1>2. CASE BadLine
  BY <1>2, FindingKeepsInv DEF BadLine
<1>3. CASE Inert
  BY <1>1, <1>3, QuietKeepsInv DEF Inert, scanner
<1>4. CASE EndPrint
  BY <1>1, <1>4, QuietKeepsInv, FindingKeepsInv DEF EndPrint, scanner, ReadLine
<1>5. CASE Report
  BY <1>1, <1>5, QuietKeepsInv DEF Report, scanner
<1>6. ASSUME NEW x \in 0..AxisMax + 1, NEW y \in 0..AxisMax + 1, ExcludeObjectDefine(x, y)
      PROVE  ScanInv'
  BY <1>1, <1>6, QuietKeepsInv, FindingKeepsInv DEF ExcludeObjectDefine
<1>7. ASSUME NEW value \in 0..2, Setting(value)
      PROVE  ScanInv'
  BY <1>1, <1>7, QuietKeepsInv, FindingKeepsInv DEF Setting, scanner
<1> QED BY <1>2, <1>3, <1>4, <1>5, <1>6, <1>7

\* START_PRINT opens new books for a printer in an unknown place, inside
\* the bed.
LEMMA StartKeepsInv ==
    ASSUME ScanInv, NEW warm \in BOOLEAN, StartPrint(warm)
    PROVE  ScanInv'
<1>1. CASE Finding
  BY <1>1, FindingKeepsInv
<1>2. CASE ~Finding
  <2>1. /\ phase = "before" /\ phase' = "printing"
        /\ position' = [a \in Axes |-> NoWord] /\ filament' = FreshFilament
        /\ UNCHANGED <<absolute, ledger, strayed, raised>>
    BY <1>2 DEF StartPrint, ghosts
  <2>2. PICK n \in Modes, x \in Coordinates, z \in Coordinates, f \in Factors :
          printer' = [modes |-> n, at |-> [a \in Axes |-> IF a = "X" THEN x ELSE z],
                      e |-> 0, factor |-> f]
    BY <1>2 DEF StartPrint, Factors
  <2>3. /\ printer'.at = [a \in Axes |-> IF a = "X" THEN x ELSE z]
        /\ printer'.e = 0 /\ printer'.factor = f
    BY <2>2
  <2>4. x \in Int /\ z \in Int
    BY DEF Coordinates
  <2>5. ScanTypes'
    BY <2>1, <2>2, <2>4 DEF ScanInv, ScanTypes, Accounting, FreshFilament, Printers
  <2>6. /\ filament'.at = 0 /\ filament'.credit = 0
        /\ filament'.moving = 0 /\ filament'.rounded = 0
    BY <2>1 DEF FreshFilament
  <2>7. ledger.excess = 0 /\ ledger.deposit = 0 /\ ledger.owed \in Nat
    BY <2>1 DEF ScanInv, NothingYet, ScanTypes, Ledgers
  <2>8. Budget'
    <3>1. ORCA_ZERO_LENGTH_PATH_E_MM * RoundingShare \in Nat /\ 0 * RoundingShare = 0
      BY ScanAssumption
    <3> QED BY <2>6, <3>1 DEF Budget, WithinBudget
  <2>9. NothingYet'
    BY <2>1 DEF NothingYet
  <2>10. InsideTheBed'
    BY <2>1, <2>3 DEF InsideTheBed
  <2>11. BooksCover'
    <3>1. 0 * printer'.factor = 0 /\ 0 * MaxManualFlow = 0
      BY <2>3, ScanAssumption DEF Factors
    <3> QED BY <2>1, <2>3, <2>6, <2>7, <3>1 DEF BooksCover, Covered
  <2>12. FlowIsBounded'
    BY <2>1 DEF ScanInv, FlowIsBounded, Clean
  <2> QED BY <2>5, <2>8, <2>9, <2>10, <2>11, <2>12 DEF ScanInv
<1> QED BY <1>1, <1>2

\* Modes may part, and a mode is no place; G92 renames both E positions.
LEMMA ModeKeepsInv ==
    ASSUME ScanInv, NEW mode \in {"axes", "extruder"}, NEW value \in BOOLEAN,
           SetMode(mode, value)
    PROVE  ScanInv'
<1>1. CASE Finding
  BY <1>1, FindingKeepsInv
<1>2. CASE ~Finding
  <2>1. /\ phase = "printing" /\ phase' = phase
        /\ absolute' = [absolute EXCEPT ![mode] = value]
        /\ printer' = [printer EXCEPT !.modes[mode] = value]
        /\ UNCHANGED <<position, filament, ledger, strayed, raised>>
    BY <1>2 DEF SetMode, ghosts
  <2>2. printer \in Printers /\ absolute \in Modes
    BY DEF ScanInv, ScanTypes
  <2>3. absolute' \in Modes /\ [printer.modes EXCEPT ![mode] = value] \in Modes
    BY <2>1, <2>2 DEF Modes, Printers
  <2>4. printer' = [printer EXCEPT !.modes = [printer.modes EXCEPT ![mode] = value]]
    BY <2>1, <2>2 DEF Printers
  <2>5. /\ printer' \in Printers
        /\ printer'.at = printer.at /\ printer'.e = printer.e
        /\ printer'.factor = printer.factor
    BY <2>2, <2>3, <2>4 DEF Printers
  <2>6. ScanTypes'
    BY <2>1, <2>3, <2>5 DEF ScanInv, ScanTypes
  <2>7. Budget' /\ NothingYet' /\ InsideTheBed' /\ BooksCover' /\ FlowIsBounded'
    BY <2>1, <2>5
       DEF ScanInv, Budget, WithinBudget, NothingYet, InsideTheBed, BooksCover, Covered,
           FlowIsBounded, Clean
  <2> QED BY <2>6, <2>7 DEF ScanInv
<1> QED BY <1>1, <1>2

LEMMA G92KeepsInv ==
    ASSUME ScanInv, NEW e \in EWords \cup {NoWord}, G92(e)
    PROVE  ScanInv'
<1>1. CASE Finding
  BY <1>1, FindingKeepsInv
<1>2. CASE ~Finding
  <2>1. /\ phase = "printing" /\ phase' = phase /\ e # NoWord
        /\ filament' = [filament EXCEPT !.at = e]
        /\ printer' = [printer EXCEPT !.e = e]
        /\ UNCHANGED <<absolute, position, ledger, strayed, raised>>
    BY <1>2 DEF G92, ghosts
  <2>2. e \in Int
    BY <2>1, ScanAssumption DEF EWords
  <2>3. ScanTypes
    BY DEF ScanInv
  <2>4. /\ filament' \in Accounting
        /\ filament'.at = e /\ filament'.credit = filament.credit
        /\ filament'.moving = filament.moving /\ filament'.rounded = filament.rounded
    BY <2>1, <2>2, <2>3, IdleAccount
  <2>5. /\ printer' \in Printers
        /\ printer'.at = printer.at /\ printer'.e = e /\ printer'.factor = printer.factor
    BY <2>1, <2>2, <2>3 DEF ScanTypes, Printers
  <2>6. ScanTypes'
    BY <2>1, <2>3, <2>4, <2>5 DEF ScanTypes
  <2>7. Budget' /\ NothingYet' /\ InsideTheBed' /\ BooksCover' /\ FlowIsBounded'
    BY <2>1, <2>4, <2>5
       DEF ScanInv, Budget, WithinBudget, NothingYet, InsideTheBed, BooksCover, Covered,
           FlowIsBounded, Clean
  <2> QED BY <2>6, <2>7 DEF ScanInv
<1> QED BY <1>1, <1>2

\* A lower factor makes the credit worth less; a higher one that finds no
\* credit changes nothing, any other ends what the books promise.
LEMMA FlowFactorKeepsInv ==
    ASSUME ScanInv, NEW value \in 0..FullFlow + 1, FlowFactor(value)
    PROVE  ScanInv'
<1>1. CASE Finding
  BY <1>1, FindingKeepsInv
<1>2. CASE ~Finding
  <2>1. /\ phase' = phase /\ WithinCeiling(value, FullFlow)
        /\ printer' = [printer EXCEPT !.factor = value]
        /\ raised' = (raised \/ (value > printer.factor /\ filament.credit > 0))
        /\ UNCHANGED <<absolute, position, filament, ledger, strayed>>
    BY <1>2 DEF FlowFactor, scanner
  <2>2. ScanTypes
    BY DEF ScanInv
  <2>3. value \in Nat /\ value \in Factors
    BY <2>1, ScanAssumption DEF WithinCeiling, Factors
  <2>4. /\ printer' \in Printers /\ printer'.factor = value
        /\ printer'.at = printer.at /\ printer'.e = printer.e
    BY <2>1, <2>2, <2>3 DEF ScanTypes, Printers
  <2>5. raised' \in BOOLEAN
    BY <2>1, Zenon
  <2>6. ScanTypes'
    BY <2>1, <2>2, <2>4, <2>5 DEF ScanTypes
  <2>7. Budget' /\ NothingYet' /\ InsideTheBed' /\ FlowIsBounded'
    BY <2>1, <2>4
       DEF ScanInv, Budget, WithinBudget, NothingYet, InsideTheBed, FlowIsBounded, Clean
  <2>8. ASSUME Clean, ~raised', Covered PROVE Covered'
    <3>1. value <= printer.factor \/ filament.credit = 0
      <4>1. ~(value > printer.factor /\ filament.credit > 0)
        BY <2>1, <2>8, Zenon
      <4>2. printer.factor \in Nat /\ filament.credit \in Nat
        BY <2>2, AccountFields, FactorOfPrinter
      <4> QED BY <2>3, <4>1, <4>2
    <3>2. filament.credit * value <= filament.credit * printer.factor
      <4>1. CASE value <= printer.factor
        BY <2>2, <2>3, <4>1, AccountFields, FactorOfPrinter, ProductKeepsOrder,
           filament.credit * value = value * filament.credit,
           filament.credit * printer.factor = printer.factor * filament.credit
      <4>2. CASE filament.credit = 0
        BY <2>2, <2>3, <4>2, FactorOfPrinter
      <4> QED BY <3>1, <4>1, <4>2
    <3>3. /\ filament.credit * value \in Nat /\ filament.credit * printer.factor \in Nat
          /\ ledger.owed \in Nat
      BY <2>2, <2>3, AccountFields, FactorOfPrinter DEF ScanTypes, Ledgers
    <3>4. filament.credit * value <= ledger.owed
      BY <2>8, <3>2, <3>3 DEF Covered
    <3> QED BY <2>1, <2>4, <2>8, <3>4 DEF Covered
  <2>9. BooksCover'
    <3>1. Clean' => Clean
      BY <2>1 DEF Clean
    <3>2. ~raised' => ~raised
      BY <2>1
    <3> QED BY <2>1, <2>4, <2>8, <3>1, <3>2 DEF ScanInv, BooksCover
  <2> QED BY <2>6, <2>7, <2>9 DEF ScanInv
<1> QED BY <1>1, <1>2

LEMMA NextKeepsInv == ScanInv /\ [Next]_vars => ScanInv'
<1> SUFFICES ASSUME ScanInv, [Next]_vars PROVE ScanInv'
  OBVIOUS
<1>1. CASE UNCHANGED vars
  BY <1>1, QuietKeepsInv DEF vars, ghosts, ScanInv, ScanTypes
<1>2. ASSUME NEW warm \in BOOLEAN, StartPrint(warm) PROVE ScanInv'
  BY <1>2, StartKeepsInv
<1>3. ASSUME NEW mode \in {"axes", "extruder"}, NEW value \in BOOLEAN, SetMode(mode, value)
      PROVE  ScanInv'
  BY <1>3, ModeKeepsInv
<1>4. ASSUME NEW e \in EWords \cup {NoWord}, G92(e) PROVE ScanInv'
  BY <1>4, G92KeepsInv
<1>5. ASSUME NEW m \in MoveLines, Move(m) PROVE ScanInv'
  <2>1. CASE Finding
    BY <2>1, FindingKeepsInv
  <2>2. CASE ~Finding
    <3>1. /\ phase = "printing" /\ KnownOrigin(m) /\ TargetsInside(m)
          /\ position' = NewPosition(m) /\ filament' \in Accounts(m) /\ Execute(m)
          /\ phase' = phase /\ absolute' = absolute
      BY <1>5, <2>2 DEF Move
    <3> QED BY <3>1, MoveKeepsInv
  <2> QED BY <2>1, <2>2
<1>6. ASSUME NEW value \in 0..FullFlow + 1, FlowFactor(value) PROVE ScanInv'
  BY <1>6, FlowFactorKeepsInv
<1> QED BY <1>1, <1>2, <1>3, <1>4, <1>5, <1>6, QuietLines DEF Next

----------------------------------------------------------------------------
(***************************************************************************)
(* The scanner's shadow of the printer is exact, over a file of any length *)
(* and with any bounds: t300_mainline/gcode_policy.py, scan_gcode.         *)
(***************************************************************************)
THEOREM ScanInvariant == Spec => []ScanInv
<1>1. Init => ScanInv
  BY InitScanInv
<1>2. ScanInv /\ [Next]_vars => ScanInv'
  BY NextKeepsInv
<1> QED BY <1>1, <1>2, PTL DEF Spec

(***************************************************************************)
(* While the file sets the modes it relies on, the printer never leaves    *)
(* the bed and every position the scanner holds is the printer's           *)
(* (gcode_policy.py:885).                                                  *)
(***************************************************************************)
THEOREM PrinterStaysInside == Spec => []InsideTheBed
<1>1. ScanInv => InsideTheBed
  BY DEF ScanInv
<1> QED BY <1>1, ScanInvariant, PTL

(***************************************************************************)
(* No extruding travel is thicker than the policy allows, from whatever    *)
(* place and modes START_PRINT left (gcode_policy.py:1010).                *)
(***************************************************************************)
THEOREM ExtrusionIsThin == Spec => []FlowIsBounded
<1>1. ScanInv => FlowIsBounded
  BY DEF ScanInv
<1> QED BY <1>1, ScanInvariant, PTL

(***************************************************************************)
(* The filament really pushed at rest beyond what was retracted stays      *)
(* within the rounding budget of the whole file, at the highest flow       *)
(* factor: the excess is covered by the scanner's rounding, whose budget   *)
(* grows with the moving filament both sides agree on                      *)
(* (gcode_policy.py:934).                                                  *)
(***************************************************************************)
LEMMA BooksBoundTheExcess == ScanInv => StationaryIsEarned
<1> DEFINE z == ORCA_ZERO_LENGTH_PATH_E_MM * RoundingShare + ledger.deposit
<1> SUFFICES ASSUME ScanInv, Clean, ~raised
             PROVE  ledger.excess * RoundingShare <= MaxManualFlow * z
  BY DEF StationaryIsEarned, WithinRealBudget
<1>1. /\ ledger.excess \in Nat /\ filament.rounded \in Nat /\ filament.moving \in Nat
      /\ RoundingShare \in Nat /\ ORCA_ZERO_LENGTH_PATH_E_MM \in Nat
      /\ MaxManualFlow \in Nat
  BY ScanAssumption, AccountFields DEF ScanInv, ScanTypes, Ledgers
<1>2. ledger.excess <= filament.rounded * MaxManualFlow /\ ledger.deposit = filament.moving
  BY DEF ScanInv, BooksCover, Covered
<1>3. filament.rounded * RoundingShare <= z /\ z \in Nat
  BY <1>1, <1>2 DEF ScanInv, Budget, WithinBudget
<1> HIDE DEF z
<1>4. filament.rounded * MaxManualFlow \in Nat /\ filament.rounded * RoundingShare \in Nat
  BY <1>1
<1>5. ledger.excess * RoundingShare <= (filament.rounded * MaxManualFlow) * RoundingShare
  BY <1>1, <1>2, <1>4, ProductKeepsOrder
<1>6. (filament.rounded * RoundingShare) * MaxManualFlow <= z * MaxManualFlow
  BY <1>1, <1>3, <1>4, ProductKeepsOrder
<1>7. /\ (filament.rounded * MaxManualFlow) * RoundingShare
            = (filament.rounded * RoundingShare) * MaxManualFlow
      /\ z * MaxManualFlow = MaxManualFlow * z
  BY <1>1, <1>3
<1>8. /\ ledger.excess * RoundingShare \in Nat /\ z * MaxManualFlow \in Nat
      /\ (filament.rounded * RoundingShare) * MaxManualFlow \in Nat
  BY <1>1, <1>3, <1>4
<1> QED BY <1>5, <1>6, <1>7, <1>8

\* Stationary filament is earned, for every file that does not raise the
\* flow factor between a retraction and its recovery (gcode_policy.py:934).
THEOREM StationaryPushIsEarned == Spec => []StationaryIsEarned
<1> QED BY BooksBoundTheExcess, ScanInvariant, PTL
=============================================================================
