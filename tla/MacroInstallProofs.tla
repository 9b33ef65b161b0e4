------------------------ MODULE MacroInstallProofs -------------------------
(***************************************************************************)
(* Proofs about the installers, for any configuration roots they may find  *)
(* and any number of installs, edits, prints, restarts and faults.         *)
(***************************************************************************)
EXTENDS MacroInstall, FiniteSetTheorems, NaturalsInduction,
        SequenceTheorems, WellFoundedInduction, TLAPS

(* A file without lines is one that is not there.                          *)
Content == {c \in [lines : Seq(Line), edits : Nat] : c.lines = << >> => c.edits = 0}

Reviewing == {"review", "review_macro", "decide"}
Changing == {"upload", "verify", "reread", "settle", "restart", "wait"}
Undoing == {"undo", "undo_verify", "undo_restart", "undo_wait"}
Points == {"idle"} \cup Reviewing \cup {"backup", "compare", "recheck"} \cup Changing \cup Undoing
Outcomes == {"none", "refused", "reviewed", "installed", "restored", "incomplete"}

FlagTypes ==
    /\ asked \in BOOLEAN /\ printing \in BOOLEAN /\ attempted \in BOOLEAN
    /\ observed \in BOOLEAN /\ lost \in BOOLEAN
    /\ klippy \in {"ready", "startup", "error"}
    /\ pc \in Points /\ macro \in Macros /\ outcome \in Outcomes

FileTypes ==
    /\ disk \in [Files -> Content] /\ running \in [Files -> Content]
    /\ original \in [Files -> Content]
    /\ DOMAIN saved \subseteq Files /\ saved \in [DOMAIN saved -> Content]
    /\ todo \in Seq(Files)
    /\ edits \in Nat
    /\ \A f \in Files : disk[f].edits <= edits /\ original[f].edits <= edits

TypeOK == FlagTypes /\ FileTypes

(* The files an install is about.                                          *)
Targets == {"printer.cfg", macro}

(* Where each loop is: files are written in the order of Changes and undone *)
(* in the other.                                                           *)
Loops ==
    /\ pc \in {"backup", "compare", "recheck"} \cup Changing \cup Undoing => Changes # << >>
    /\ pc = "compare" => todo \in {<<"printer.cfg", macro>>, <<macro>>, << >>}
    /\ pc \in {"upload", "verify", "reread"} =>
          todo \in {<<macro, "printer.cfg">>, <<macro>>, <<"printer.cfg">>, << >>}
    /\ pc \in {"undo", "undo_verify"} =>
          todo \in {<<"printer.cfg", macro>>, <<"printer.cfg">>, <<macro>>, << >>}
    /\ pc \in {"upload", "verify", "reread", "undo", "undo_verify"} =>
          ToSet(todo) \subseteq ToSet(Changes)
    /\ pc \in {"upload", "verify", "undo_verify"} => todo # << >>

(* A later version of a file: others edit it by hand, they neither remove  *)
(* it nor touch its includes, and unless one of them puts an older text    *)
(* back, no two edits give the same.                                       *)
Later(g, old, new) ==
    new.lines = old.lines /\ (g \in backdated \/ old.edits <= new.edits)

(* From the review to the first upload a file only gets later, and the     *)
(* backup lies between the review and the comparison.                      *)
Window ==
    /\ pc \in {"review_macro", "decide", "backup", "compare", "recheck"} =>
          Later("printer.cfg", original["printer.cfg"], disk["printer.cfg"])
    /\ pc \in {"decide", "backup", "compare", "recheck"} =>
          Later(macro, original[macro], disk[macro])
    /\ pc \in Reviewing => DOMAIN saved = {}
    /\ pc \in {"backup", "compare"} =>
          \A g \in Targets \cap DOMAIN saved :
              Later(g, original[g], saved[g]) /\ Later(g, saved[g], disk[g])

SavedAgrees(g) == g \in DOMAIN saved /\ (g \in backdated \/ saved[g] = original[g])

Secured ==
    /\ pc = "backup" =>
          \A g \in Targets : original[g] # Absent => g \in DOMAIN saved \cup ToSet(todo)
    /\ pc = "compare" =>
          \A g \in Targets : original[g] # Absent =>
              /\ g \in DOMAIN saved
              /\ (g \notin ToSet(todo) => SavedAgrees(g))
    /\ pc \in {"recheck"} \cup Changing \cup Undoing =>
          \A g \in Targets : original[g] # Absent => SavedAgrees(g)

(* What has been written and not been touched by others since.             *)
Applied(S) == \A g \in S \ touched : disk[g] = Proposed(g)
Reverted(S) == \A g \in S \ touched : g \in errors \/ disk[g] = original[g]
Passed(S) == ToSet(Changes) \ S

Progress ==
    /\ pc = "upload" => Applied(Passed(ToSet(todo)))
    /\ pc = "verify" => Applied(Passed(ToSet(Tail(todo))))
    /\ pc \in {"reread", "settle", "restart", "wait"} => Applied(ToSet(Changes))
    /\ pc = "undo" => Reverted(Passed(ToSet(todo)))
    /\ pc = "undo_verify" => Reverted(Passed(ToSet(Tail(todo))))
    /\ pc \in {"undo_restart", "undo_wait"} => Reverted(ToSet(Changes))

(* An observed restart that was not inferred from a lost poll loads what   *)
(* was written before it was asked for.                                    *)
Seen == pc = "wait" /\ observed /\ ~lost /\ klippy = "ready" => Reloaded

(* The include lines of the reviewed printer.cfg stay in it to the end;    *)
(* the new include is there only while its file is.                        *)
Inclusion ==
    /\ pc \in {"decide", "backup", "compare", "recheck"} \cup Changing \cup Undoing =>
          (macro \in ToSet(original["printer.cfg"].lines) => original[macro] # Absent)
    /\ pc \in Changing \cup {"undo", "undo_verify"} =>
          ToSet(original["printer.cfg"].lines) \subseteq Lines(disk)
    /\ pc \in Changing /\ "printer.cfg" \notin ToSet(Changes) =>
          disk["printer.cfg"].lines = original["printer.cfg"].lines
    /\ pc \in {"undo", "undo_verify"} /\ "printer.cfg" \notin ToSet(todo) =>
          "printer.cfg" \in errors \/ disk["printer.cfg"].lines = original["printer.cfg"].lines
    /\ pc = "upload" /\ macro \notin ToSet(todo) => disk[macro] # Absent
    /\ pc = "verify" /\ macro \notin ToSet(Tail(todo)) => disk[macro] # Absent

(* A printer.cfg that was accepted has a place for the include.            *)
Accepted ==
    pc \in {"review_macro", "decide", "backup", "compare", "recheck"} \cup Changing \cup Undoing =>
        {macro, "Macro.cfg"} \cap ToSet(original["printer.cfg"].lines) # {}

InstallInv ==
    /\ TypeOK /\ Loops /\ Window /\ Secured /\ Progress /\ Seen /\ Inclusion /\ Accepted
    /\ OutcomeIsTrue /\ SuccessMeansReloaded

-----------------------------------------------------------------------------
(* Short sequences.                                                        *)
LEMMA ShortLists ==
    ASSUME NEW a, NEW b
    PROVE  /\ ToSet(<< >>) = {} /\ ToSet(<<a>>) = {a} /\ ToSet(<<a, b>>) = {a, b}
           /\ Head(<<a>>) = a /\ Tail(<<a>>) = << >>
           /\ Head(<<a, b>>) = a /\ Tail(<<a, b>>) = <<b>>
           /\ Reverse(<< >>) = << >> /\ Reverse(<<a>>) = <<a>> /\ Reverse(<<a, b>>) = <<b, a>>
           /\ <<a>> # << >> /\ <<a, b>> # << >>
<1>1. ToSet(<< >>) = {} /\ ToSet(<<a>>) = {a}
  BY DEF ToSet
<1>2. ToSet(<<a, b>>) = {a, b}
  <2>1. DOMAIN <<a, b>> = {1, 2} /\ <<a, b>>[1] = a /\ <<a, b>>[2] = b
    OBVIOUS
  <2> QED
    BY <2>1 DEF ToSet
<1>3. Reverse(<< >>) = << >> /\ Reverse(<<a>>) = <<a>>
  BY DEF Reverse
<1>4. Reverse(<<a, b>>) = <<b, a>>
  BY DEF Reverse
<1>5. /\ Head(<<a>>) = a /\ Tail(<<a>>) = << >>
      /\ Head(<<a, b>>) = a /\ Tail(<<a, b>>) = <<b>>
  OBVIOUS
<1> QED
  BY <1>1, <1>2, <1>3, <1>4, <1>5

(* The first element is in the set of a list, the others in its tail's.    *)
LEMMA HeadAndTail ==
    ASSUME NEW S, NEW s \in Seq(S), s # << >>
    PROVE  /\ Head(s) \in S /\ Tail(s) \in Seq(S)
           /\ ToSet(s) = {Head(s)} \cup ToSet(Tail(s))
<1>1. Head(s) \in S /\ Tail(s) \in Seq(S) /\ Head(s) = s[1] /\ Len(s) \in Nat /\ Len(s) >= 1
  OBVIOUS
<1>2. /\ DOMAIN s = 1..Len(s) /\ DOMAIN Tail(s) = 1..(Len(s) - 1)
      /\ \A i \in 1..(Len(s) - 1) : Tail(s)[i] = s[i + 1]
  BY <1>1
<1>3. ASSUME NEW x \in ToSet(s) PROVE x = Head(s) \/ x \in ToSet(Tail(s))
  <2>1. PICK i \in 1..Len(s) : x = s[i]
    BY <1>2 DEF ToSet
  <2>2. CASE i # 1
    <3>1. i - 1 \in 1..(Len(s) - 1) /\ Tail(s)[i - 1] = x
      BY <1>1, <1>2, <2>1, <2>2
    <3> QED
      BY <1>2, <3>1 DEF ToSet
  <2> QED
    BY <1>1, <2>1, <2>2
<1>4. ASSUME NEW x \in ToSet(Tail(s)) PROVE x \in ToSet(s)
  <2>1. PICK i \in 1..(Len(s) - 1) : x = Tail(s)[i]
    BY <1>2 DEF ToSet
  <2>2. i + 1 \in 1..Len(s) /\ x = s[i + 1]
    BY <1>1, <1>2, <2>1
  <2> QED
    BY <1>2, <2>2 DEF ToSet
<1>5. Head(s) \in ToSet(s)
  BY <1>1, <1>2 DEF ToSet
<1> QED
  BY <1>1, <1>3, <1>4, <1>5

(* A non-empty set of naturals has a least element.                        *)
LEMMA LeastIndex ==
    ASSUME NEW I \in SUBSET Nat, I # {}
    PROVE  Min(I) \in I
<1>1. IsWellFoundedOn(OpToRel(<, Nat), Nat)
  BY NatLessThanWellFounded
<1>2. PICK x \in I : \A y \in I : ~(<<y, x>> \in OpToRel(<, Nat))
  BY <1>1, WFMin
<1>3. \A y \in I : ~(y < x)
  BY <1>2, Zenon DEF OpToRel
<1>4. \A y \in I : x <= y
  BY <1>3
<1> QED
  BY <1>2, <1>4 DEF Min

(* Inserting keeps what was there.                                         *)
LEMMA InsertKeeps ==
    ASSUME NEW S, NEW s \in Seq(S), NEW e \in S, NEW i \in 1..Len(s) + 1
    PROVE  InsertAt(s, i, e) \in Seq(S) /\ ToSet(InsertAt(s, i, e)) = ToSet(s) \cup {e}
<1> DEFINE left == SubSeq(s, 1, i - 1)
           right == SubSeq(s, i, Len(s))
           t == left \o <<e>> \o right
<1>1. Len(s) \in Nat /\ DOMAIN s = 1..Len(s) /\ i \in Nat
  OBVIOUS
<1>2. left \in Seq(S) /\ Len(left) = i - 1 /\ \A j \in 1..i - 1 : left[j] = s[j]
  BY <1>1
<1>3. right \in Seq(S) /\ Len(right) = Len(s) - i + 1
      /\ \A j \in 1..Len(s) - i + 1 : right[j] = s[i + j - 1]
  BY <1>1
<1>4. t = InsertAt(s, i, e)
  BY DEF InsertAt
<1> HIDE DEF left, right
<1>5. /\ t \in Seq(S) /\ Len(t) = Len(s) + 1 /\ DOMAIN t = 1..Len(s) + 1
      /\ \A j \in 1..i - 1 : t[j] = left[j]
      /\ t[i] = e
      /\ \A j \in 1..Len(s) - i + 1 : t[i + j] = right[j]
  <2> DEFINE front == left \o <<e>>
  <2>1. /\ front \in Seq(S) /\ Len(front) = i /\ front[i] = e
        /\ \A j \in 1..i - 1 : front[j] = left[j]
    BY <1>1, <1>2
  <2> HIDE DEF front
  <2>2. /\ front \o right \in Seq(S) /\ Len(front \o right) = Len(s) + 1
        /\ DOMAIN (front \o right) = 1..Len(s) + 1
    BY <1>1, <1>3, <2>1
  <2>3. \A j \in 1..i : (front \o right)[j] = front[j]
    BY <1>1, <1>3, <2>1
  <2>4. \A j \in 1..Len(s) - i + 1 : (front \o right)[i + j] = right[j]
    BY <1>1, <1>3, <2>1
  <2>5. t = front \o right
    BY DEF front
  <2> HIDE DEF t
  <2> QED
    BY <1>1, <2>1, <2>2, <2>3, <2>4, <2>5
<1> HIDE DEF t
<1>6. ASSUME NEW x \in ToSet(t) PROVE x \in ToSet(s) \cup {e}
  <2>1. PICK k \in 1..Len(s) + 1 : x = t[k]
    BY <1>5 DEF ToSet
  <2>2. CASE k < i
    <3>1. x = s[k] /\ k \in 1..Len(s)
      BY <1>1, <1>2, <1>5, <2>1, <2>2
    <3> QED
      BY <1>1, <3>1 DEF ToSet
  <2>3. CASE k > i
    <3>1. k - i \in 1..Len(s) - i + 1 /\ i + (k - i) = k /\ i + (k - i) - 1 = k - 1
      BY <1>1, <2>3
    <3>2. right[k - i] = s[i + (k - i) - 1]
      BY <1>3, <3>1
    <3>3. t[i + (k - i)] = right[k - i]
      BY <1>5, <3>1
    <3>4. k - 1 \in 1..Len(s)
      BY <1>1, <2>3
    <3> QED
      BY <1>1, <2>1, <3>1, <3>2, <3>3, <3>4 DEF ToSet
  <2> QED
    BY <1>1, <1>5, <2>1, <2>2, <2>3
<1>7. ASSUME NEW x \in ToSet(s) PROVE x \in ToSet(t)
  <2>1. PICK k \in 1..Len(s) : x = s[k]
    BY <1>1 DEF ToSet
  <2>2. CASE k < i
    <3>1. x = t[k] /\ k \in 1..Len(s) + 1
      BY <1>1, <1>2, <1>5, <2>1, <2>2
    <3> QED
      BY <1>5, <3>1 DEF ToSet
  <2>3. CASE k >= i
    <3>1. k - i + 1 \in 1..Len(s) - i + 1 /\ i + (k - i + 1) = k + 1 /\ i + (k - i + 1) - 1 = k
      BY <1>1, <2>3
    <3>2. right[k - i + 1] = s[i + (k - i + 1) - 1]
      BY <1>3, <3>1
    <3>3. t[i + (k - i + 1)] = right[k - i + 1]
      BY <1>5, <3>1
    <3>4. k + 1 \in 1..Len(s) + 1
      BY <1>1
    <3> QED
      BY <1>5, <2>1, <3>1, <3>2, <3>3, <3>4 DEF ToSet
  <2> QED
    BY <1>1, <2>1, <2>2, <2>3
<1>8. e \in ToSet(t)
  BY <1>1, <1>5 DEF ToSet
<1> QED
  BY <1>4, <1>5, <1>6, <1>7, <1>8

(* The patch adds the include, and nothing else, to an accepted file.      *)
LEMMA PatchAddsInclude ==
    ASSUME NEW lines \in Seq(Line), NEW f \in Line,
           {f, "Macro.cfg"} \cap ToSet(lines) # {}
    PROVE  /\ PatchPrinterCfg(lines, f) \in Seq(Line)
           /\ ToSet(PatchPrinterCfg(lines, f)) = ToSet(lines) \cup {f}
<1>1. CASE f \in ToSet(lines)
  BY <1>1 DEF PatchPrinterCfg
<1>2. CASE f \notin ToSet(lines)
  <2> DEFINE I == {i \in 1..Len(lines) : lines[i] = "Macro.cfg"}
             at == SelectInSeq(lines, LAMBDA l : l = "Macro.cfg")
  <2>1. "Macro.cfg" \in ToSet(lines)
    BY <1>2
  <2>2. I # {} /\ I \subseteq Nat
    BY <2>1 DEF ToSet
  <2>3. at = Min(I)
    BY <2>2 DEF SelectInSeq
  <2>4. Min(I) \in I
    <3> HIDE DEF I
    <3> QED
      BY <2>2, LeastIndex
  <2>5. at + 1 \in 1..Len(lines) + 1
    BY <2>3, <2>4
  <2> HIDE DEF at, I
  <2>6. PatchPrinterCfg(lines, f) = InsertAt(lines, at + 1, f)
    BY <1>2 DEF PatchPrinterCfg, at
  <2> QED
    BY <2>5, <2>6, InsertKeeps
<1> QED
  BY <1>1, <1>2

(* SetToSeq lists a finite set.                                            *)
LEMMA ListsAll ==
    ASSUME NEW S, IsFiniteSet(S)
    PROVE  SetToSeq(S) \in Seq(S) /\ ToSet(SetToSeq(S)) = S
<1> DEFINE n == Cardinality(S)
           s == SetToSeq(S)
<1>1. n \in Nat /\ ExistsBijection(1..n, S)
  BY FS_CardinalityType
<1>2. PICK f \in Bijection(1..n, S) : TRUE
  BY <1>1 DEF ExistsBijection
<1>3. f \in [1..n -> S] /\ IsInjective(f)
  BY <1>2 DEF Bijection, Injection
<1>4. s \in [1..n -> S] /\ IsInjective(s)
  BY <1>3 DEF SetToSeq
<1> HIDE DEF s
<1>5. s \in Injection(1..n, S)
  BY <1>4 DEF Injection
<1>6. Cardinality(1..n) = n
  BY <1>1, FS_Interval
<1> HIDE DEF n
<1>7. s \in Surjection(1..n, S)
  BY <1>5, <1>6, FS_Injection DEF n
<1>8. s \in Seq(S) /\ DOMAIN s = 1..n
  BY <1>1, <1>4
<1>9. ToSet(s) = S
  BY <1>4, <1>7, <1>8 DEF Surjection, ToSet
<1> QED
  BY <1>8, <1>9 DEF s

LEMMA FilesAreFinite == \A S \in SUBSET Files : IsFiniteSet(S)
<1>1. /\ IsFiniteSet({"gergo.cfg"}) /\ IsFiniteSet({"open.cfg"})
      /\ IsFiniteSet({"kamp.cfg"}) /\ IsFiniteSet({"printer.cfg"})
  BY FS_Singleton
<1>2. IsFiniteSet({"gergo.cfg"} \cup {"open.cfg"})
  BY <1>1, FS_Union
<1>3. IsFiniteSet({"gergo.cfg"} \cup {"open.cfg"} \cup {"kamp.cfg"})
  BY <1>1, <1>2, FS_Union
<1>4. IsFiniteSet({"gergo.cfg"} \cup {"open.cfg"} \cup {"kamp.cfg"} \cup {"printer.cfg"})
  BY <1>1, <1>3, FS_Union
<1>5. Files = {"gergo.cfg"} \cup {"open.cfg"} \cup {"kamp.cfg"} \cup {"printer.cfg"}
  BY DEF Files, Macros
<1>6. IsFiniteSet(Files)
  BY <1>4, <1>5
<1> QED
  BY <1>6, FS_Subset

(* A later version of a file that is there is there.                       *)
LEMMA LaterStays ==
    ASSUME NEW g, NEW old \in Content, NEW new \in Content, Later(g, old, new), old # Absent
    PROVE  new # Absent
<1>1. old.lines # << >>
  BY DEF Content, Absent
<1> QED
  BY <1>1 DEF Later, Absent

(* A file is as recent as itself.                                          *)
LEMMA SameVersion ==
    ASSUME FileTypes, NEW g \in Files
    PROVE  disk[g].edits <= disk[g].edits
<1>1. disk[g] \in Content
  BY DEF FileTypes
<1>2. disk[g].edits \in Nat
  BY <1>1 DEF Content
<1> QED
  BY <1>2

(* Between two equal versions there is no other.                           *)
LEMMA LaterMeets ==
    ASSUME NEW g, g \notin backdated, NEW old \in Content, NEW new \in Content,
           Later(g, old, new), Later(g, new, old)
    PROVE  old = new
BY DEF Later, Content

(* What the installer proposes.                                            *)
LEMMA Proposals ==
    ASSUME TypeOK, {macro, "Macro.cfg"} \cap ToSet(original["printer.cfg"].lines) # {}
    PROVE  /\ \A g \in Targets : Proposed(g) \in Content /\ Proposed(g).edits <= edits
           /\ ToSet(Proposed("printer.cfg").lines) =
                 ToSet(original["printer.cfg"].lines) \cup {macro}
           /\ Proposed(macro) = Supplied(macro) /\ Supplied(macro) # Absent
<1> DEFINE old == original["printer.cfg"]
           new == PatchPrinterCfg(old.lines, macro)
<1>1. old \in Content /\ old.edits <= edits /\ edits \in Nat
  BY DEF TypeOK, FileTypes, Files
<1>2. macro \in Line /\ macro # "printer.cfg"
  <2>1. macro \in Macros
    BY DEF TypeOK, FlagTypes
  <2> QED
    BY <2>1 DEF Macros, Line
<1>3. old.lines \in Seq(Line) /\ old.edits \in Nat
  BY <1>1 DEF Content
<1>4. new \in Seq(Line) /\ ToSet(new) = ToSet(old.lines) \cup {macro}
  BY <1>2, <1>3, PatchAddsInclude
<1> HIDE DEF new
<1>5. Proposed("printer.cfg") = [old EXCEPT !.lines = new]
  BY DEF Proposed, new
<1>6. /\ Proposed("printer.cfg") \in Content
      /\ Proposed("printer.cfg").edits = old.edits /\ Proposed("printer.cfg").lines = new
  <2>1. new # << >>
    BY <1>4, ShortLists
  <2> QED
    BY <1>1, <1>4, <1>5, <2>1 DEF Content
<1>7. Proposed(macro) = Supplied(macro)
  BY <1>2 DEF Proposed
<1>8. Supplied(macro) \in Content /\ Supplied(macro).edits = 0 /\ Supplied(macro) # Absent
  <2>1. <<macro>> \in Seq(Line) /\ <<macro>> # << >> /\ 0 \in Nat
    BY <1>2
  <2>2. Supplied(macro).lines = <<macro>> /\ Supplied(macro).edits = 0 /\ Absent.lines = << >>
    BY DEF Supplied, Absent
  <2>3. Supplied(macro) \in Content
    BY <2>1 DEF Supplied, Content
  <2> QED
    BY <2>1, <2>2, <2>3
<1> QED
  BY <1>1, <1>3, <1>4, <1>6, <1>7, <1>8 DEF Targets

LEMMA PairOfLists ==
    ASSUME NEW S, NEW a \in S, NEW b \in S
    PROVE  <<a>> \o <<b>> = <<a, b>>
<1>1. <<a>> \o <<b>> \in Seq(S) /\ Len(<<a>> \o <<b>>) = 2
  OBVIOUS
<1>2. (<<a>> \o <<b>>)[1] = a /\ (<<a>> \o <<b>>)[2] = b
  OBVIOUS
<1>3. <<a, b>> \in Seq(S) /\ Len(<<a, b>>) = 2 /\ <<a, b>>[1] = a /\ <<a, b>>[2] = b
  OBVIOUS
<1>4. \A i \in 1..2 : (<<a>> \o <<b>>)[i] = <<a, b>>[i]
  BY <1>2, <1>3
<1> QED
  BY <1>1, <1>3, <1>4, SeqEqual

(* The files an install writes, and their order.                           *)
LEMMA ChangesForms ==
    ASSUME TypeOK
    PROVE  /\ macro \in Files /\ macro # "printer.cfg"
           /\ Changes \in {<<macro, "printer.cfg">>, <<macro>>, <<"printer.cfg">>, << >>}
           /\ Reverse(Changes) \in {<<"printer.cfg", macro>>, <<macro>>, <<"printer.cfg">>, << >>}
           /\ Changes \in Seq(Files) /\ Reverse(Changes) \in Seq(Files)
           /\ ToSet(Reverse(Changes)) = ToSet(Changes) /\ ToSet(Changes) \subseteq Targets
           /\ Targets \subseteq Files
           /\ \A g \in Targets : g \notin ToSet(Changes) => Proposed(g) = original[g]
<1>1. macro \in Files /\ macro # "printer.cfg" /\ "printer.cfg" \in Files
  BY DEF TypeOK, FlagTypes, Macros, Files
<1> DEFINE P == Proposed("printer.cfg") # original["printer.cfg"]
           M == Proposed(macro) # original[macro]
<1>2. /\ IfChanged("printer.cfg") = IF P THEN <<"printer.cfg">> ELSE << >>
      /\ IfChanged(macro) = IF M THEN <<macro>> ELSE << >>
  BY DEF IfChanged
<1> HIDE DEF P, M
<1>0. Changes = IfChanged(macro) \o IfChanged("printer.cfg")
  BY DEF Changes
<1>3. /\ M /\ P => Changes = <<macro, "printer.cfg">>
      /\ M /\ ~P => Changes = <<macro>>
      /\ ~M /\ P => Changes = <<"printer.cfg">>
      /\ ~M /\ ~P => Changes = << >>
  <2>1. M /\ P => IfChanged(macro) = <<macro>> /\ IfChanged("printer.cfg") = <<"printer.cfg">>
    BY <1>2
  <2>2. M /\ ~P => IfChanged(macro) = <<macro>> /\ IfChanged("printer.cfg") = << >>
    BY <1>2
  <2>3. ~M /\ P => IfChanged(macro) = << >> /\ IfChanged("printer.cfg") = <<"printer.cfg">>
    BY <1>2
  <2>4. ~M /\ ~P => IfChanged(macro) = << >> /\ IfChanged("printer.cfg") = << >>
    BY <1>2
  <2>5. <<macro>> \o <<"printer.cfg">> = <<macro, "printer.cfg">>
    BY <1>1, PairOfLists
  <2>6. \A l \in Seq(Files) : l \o << >> = l /\ << >> \o l = l
    BY ConcatEmptySeq
  <2>7. <<macro>> \in Seq(Files) /\ <<"printer.cfg">> \in Seq(Files) /\ << >> \in Seq(Files)
    BY <1>1
  <2> QED
    BY <1>0, <2>1, <2>2, <2>3, <2>4, <2>5, <2>6, <2>7, Zenon
<1>4. \A a, b : /\ ToSet(<< >>) = {} /\ ToSet(<<a>>) = {a} /\ ToSet(<<a, b>>) = {a, b}
                /\ Reverse(<< >>) = << >> /\ Reverse(<<a>>) = <<a>>
                /\ Reverse(<<a, b>>) = <<b, a>>
  BY ShortLists
<1>5. Changes \in {<<macro, "printer.cfg">>, <<macro>>, <<"printer.cfg">>, << >>}
  BY <1>3
<1>6. <<"printer.cfg", macro>> \in Seq(Files) /\ <<macro, "printer.cfg">> \in Seq(Files)
      /\ <<macro>> \in Seq(Files) /\ <<"printer.cfg">> \in Seq(Files) /\ << >> \in Seq(Files)
  BY <1>1
<1>7. CASE Changes = <<macro, "printer.cfg">>
  <2>1. Reverse(Changes) = <<"printer.cfg", macro>>
    BY <1>4, <1>7
  <2>2. ToSet(Changes) = {macro, "printer.cfg"} /\ ToSet(Reverse(Changes)) = {"printer.cfg", macro}
    BY <1>4, <1>7, <2>1, Zenon
  <2> QED
    BY <1>1, <1>5, <1>6, <1>7, <2>1, <2>2, Zenon DEF Targets
<1>8. CASE Changes = <<macro>>
  <2>1. Reverse(Changes) = <<macro>> /\ ToSet(Changes) = {macro}
    BY <1>4, <1>8
  <2>2. ~P
    BY <1>3, <1>8, <1>1
  <2> QED
    BY <1>1, <1>5, <1>6, <1>8, <2>1, <2>2 DEF Targets, P
<1>9. CASE Changes = <<"printer.cfg">>
  <2>1. Reverse(Changes) = <<"printer.cfg">> /\ ToSet(Changes) = {"printer.cfg"}
    BY <1>4, <1>9
  <2>2. ~M
    BY <1>3, <1>9, <1>1
  <2> QED
    BY <1>1, <1>5, <1>6, <1>9, <2>1, <2>2 DEF Targets, M
<1>10. CASE Changes = << >>
  <2>1. Reverse(Changes) = << >> /\ ToSet(Changes) = {}
    BY <1>4, <1>10
  <2>2. ~M /\ ~P
    BY <1>3, <1>10
  <2> QED
    BY <1>1, <1>5, <1>6, <1>10, <2>1, <2>2 DEF Targets, M, P
<1> QED
  BY <1>5, <1>7, <1>8, <1>9, <1>10

(* They are fixed by the review.                                           *)
LEMMA ReviewFixes ==
    ASSUME UNCHANGED review
    PROVE  /\ Changes' = Changes /\ Targets' = Targets
           /\ \A g : Proposed(g)' = Proposed(g)
<1>1. macro' = macro /\ original' = original
  BY DEF review
<1>2. \A g : Proposed(g)' = Proposed(g)
  BY <1>1 DEF Proposed
<1>3. Changes' = Changes
  BY <1>1, <1>2 DEF Changes, IfChanged
<1> QED
  BY <1>1, <1>2, <1>3 DEF Targets

-----------------------------------------------------------------------------
(* The invariant, step by step.                                            *)
USE DEF Reviewing, Changing, Undoing, Points

(* Nothing is under way when no installer runs.                            *)
LEMMA IdleHolds ==
    ASSUME TypeOK', pc' = "idle", OutcomeIsTrue', SuccessMeansReloaded'
    PROVE  InstallInv'
<1>1. Loops' /\ Window' /\ Secured'
  BY DEF Loops, Window, Secured
<1>2. Progress' /\ Seen' /\ Inclusion' /\ Accepted'
  BY DEF Progress, Seen, Inclusion, Accepted
<1> QED
  BY <1>1, <1>2 DEF InstallInv

(* An install that ends without having changed anything.                   *)
LEMMA EndHolds ==
    ASSUME TypeOK', pc' = "idle", outcome' \notin {"installed", "restored"}
    PROVE  InstallInv'
<1>1. OutcomeIsTrue' /\ SuccessMeansReloaded'
  BY DEF OutcomeIsTrue, SuccessMeansReloaded, Done
<1> QED
  BY <1>1, IdleHolds

LEMMA BusyHolds ==
    ASSUME pc' # "idle"
    PROVE  OutcomeIsTrue' /\ SuccessMeansReloaded'
BY DEF OutcomeIsTrue, SuccessMeansReloaded, Done

(* Steps that leave the files alone keep their types.                      *)
LEMMA FilesKept ==
    ASSUME TypeOK, UNCHANGED <<disk, running, original, saved>>, edits' = edits,
           todo' \in Seq(Files)
    PROVE  FileTypes'
BY DEF TypeOK, FileTypes

LEMMA InitHolds == Init => InstallInv
<1> SUFFICES ASSUME Init PROVE InstallInv
  OBVIOUS
<1>1. Absent \in Content
  BY DEF Absent, Content
<1>2. PICK d \in InitialDisks : disk = d
  BY DEF Init
<1>3. d \in [Files -> [lines : Seq(Line), edits : {0}]]
  BY Disks
<1>4. disk \in [Files -> Content] /\ \A f \in Files : disk[f].edits = 0
  BY <1>2, <1>3 DEF Content
<1>5. original \in [Files -> Content] /\ \A f \in Files : original[f].edits = 0
  BY <1>1 DEF Init, Absent
<1>6. DOMAIN saved \subseteq Files /\ saved \in [DOMAIN saved -> Content]
  BY DEF Init
<1>7. edits = 0 /\ todo = << >> /\ running = disk
  BY DEF Init
<1>8. FileTypes
  BY <1>4, <1>5, <1>6, <1>7 DEF FileTypes
<1>9. FlagTypes
  BY DEF Init, FlagTypes, Macros, Outcomes
<1>10. TypeOK /\ pc = "idle" /\ outcome = "none"
  BY <1>8, <1>9 DEF TypeOK, Init
<1>11. Loops /\ Window /\ Secured
  BY <1>10 DEF Loops, Window, Secured
<1>12. Progress /\ Seen /\ Inclusion /\ Accepted
  BY <1>10 DEF Progress, Seen, Inclusion, Accepted
<1>13. OutcomeIsTrue /\ SuccessMeansReloaded
  BY <1>10 DEF OutcomeIsTrue, SuccessMeansReloaded, Done
<1> QED
  BY <1>10, <1>11, <1>12, <1>13 DEF InstallInv

LEMMA BeginKeeps ==
    ASSUME InstallInv, NEW f \in Macros, Begin(f)
    PROVE  InstallInv'
<1>1. TypeOK
  BY DEF InstallInv
<1>2. FlagTypes'
  BY <1>1 DEF Begin, TypeOK, FlagTypes, printer, Outcomes
<1>3. /\ UNCHANGED <<disk, running, original, edits>> /\ todo' = << >>
      /\ DOMAIN saved' = {} /\ saved' \in [{} -> Content]
  BY DEF Begin, printer, bounds, history
<1>4. FileTypes'
  BY <1>1, <1>3 DEF TypeOK, FileTypes
<1>5. TypeOK'
  BY <1>2, <1>4 DEF TypeOK
<1>6. CASE pc' = "idle"
  <2>1. outcome' = "refused"
    BY <1>6 DEF Begin
  <2> QED
    BY <1>5, <1>6, <2>1, EndHolds
<1>7. CASE pc' = "review"
  <2>1. Loops' /\ Window' /\ Secured'
    BY <1>3, <1>7 DEF Loops, Window, Secured
  <2>2. Progress' /\ Seen' /\ Inclusion' /\ Accepted'
    BY <1>7 DEF Progress, Seen, Inclusion, Accepted
  <2>3. OutcomeIsTrue' /\ SuccessMeansReloaded'
    BY <1>7, BusyHolds
  <2> QED
    BY <1>5, <2>1, <2>2, <2>3 DEF InstallInv
<1> QED
  BY <1>6, <1>7 DEF Begin

LEMMA ReviewPrinterCfgKeeps ==
    ASSUME InstallInv, ReviewPrinterCfg
    PROVE  InstallInv'
<1>1. TypeOK /\ pc = "review" /\ DOMAIN saved = {}
  BY DEF InstallInv, Window, ReviewPrinterCfg
<1>2. FlagTypes'
  BY <1>1 DEF ReviewPrinterCfg, TypeOK, FlagTypes, printer, flags, Outcomes
<1>3. /\ UNCHANGED <<disk, running, saved, todo, edits, macro, backdated>>
      /\ original' = [original EXCEPT !["printer.cfg"] = disk["printer.cfg"]]
  BY DEF ReviewPrinterCfg, printer, bounds, history
<1>4. "printer.cfg" \in Files
  BY DEF Files
<1>5. FileTypes' /\ original'["printer.cfg"] = disk["printer.cfg"]
  BY <1>1, <1>3, <1>4 DEF TypeOK, FileTypes
<1>6. TypeOK'
  BY <1>2, <1>5 DEF TypeOK
<1>7. CASE pc' = "idle"
  <2>1. outcome' = "refused"
    BY <1>7 DEF ReviewPrinterCfg
  <2> QED
    BY <1>6, <1>7, <2>1, EndHolds
<1>8. CASE pc' = "review_macro"
  <2>1. Compatible(disk["printer.cfg"].lines, macro)
    BY <1>8 DEF ReviewPrinterCfg
  <2>2. Accepted'
    BY <1>3, <1>5, <2>1 DEF Accepted, Compatible
  <2>3. disk["printer.cfg"].edits <= disk["printer.cfg"].edits
    BY <1>1, <1>4, SameVersion DEF TypeOK
  <2>4. Later("printer.cfg", original["printer.cfg"], disk["printer.cfg"])'
    BY <1>3, <1>5, <2>3 DEF Later
  <2>5. Loops' /\ Window' /\ Secured'
    BY <1>1, <1>3, <1>8, <2>4 DEF Loops, Window, Secured
  <2>6. Progress' /\ Seen' /\ Inclusion'
    BY <1>8 DEF Progress, Seen, Inclusion
  <2>7. OutcomeIsTrue' /\ SuccessMeansReloaded'
    BY <1>8, BusyHolds
  <2> QED
    BY <1>6, <2>2, <2>5, <2>6, <2>7 DEF InstallInv
<1> QED
  BY <1>7, <1>8 DEF ReviewPrinterCfg

LEMMA ReviewMacroKeeps ==
    ASSUME InstallInv, ReviewMacro
    PROVE  InstallInv'
<1>1. /\ TypeOK /\ pc = "review_macro" /\ DOMAIN saved = {}
      /\ Later("printer.cfg", original["printer.cfg"], disk["printer.cfg"])
      /\ {macro, "Macro.cfg"} \cap ToSet(original["printer.cfg"].lines) # {}
  BY DEF InstallInv, Window, Accepted, ReviewMacro
<1>2. FlagTypes'
  BY <1>1 DEF ReviewMacro, TypeOK, FlagTypes, printer, flags, Outcomes
<1>3. /\ UNCHANGED <<disk, running, saved, todo, edits, macro, backdated>>
      /\ original' = [original EXCEPT ![macro] = disk[macro]]
  BY DEF ReviewMacro, printer, bounds, history
<1>4. "printer.cfg" \in Files /\ macro \in Files /\ macro # "printer.cfg"
  BY <1>1, ChangesForms DEF Files
<1>5. FileTypes' /\ original'[macro] = disk[macro]
  BY <1>1, <1>3, <1>4 DEF TypeOK, FileTypes
<1>6. original'["printer.cfg"] = original["printer.cfg"]
  BY <1>1, <1>3, <1>4 DEF TypeOK, FileTypes
<1>7. TypeOK'
  BY <1>2, <1>5 DEF TypeOK
<1>8. CASE pc' = "idle"
  <2>1. outcome' = "refused"
    BY <1>8 DEF ReviewMacro
  <2> QED
    BY <1>7, <1>8, <2>1, EndHolds
<1>9. CASE pc' = "decide"
  <2>1. macro \in ToSet(original["printer.cfg"].lines) => disk[macro] # Absent
    BY <1>9 DEF ReviewMacro
  <2>2. Inclusion' /\ Accepted'
    BY <1>1, <1>3, <1>5, <1>6, <1>9, <2>1 DEF Inclusion, Accepted
  <2>3. disk[macro].edits <= disk[macro].edits
    BY <1>1, <1>4, SameVersion DEF TypeOK
  <2>4. Later(macro, original[macro], disk[macro])'
    BY <1>3, <1>5, <2>3 DEF Later
  <2>5. Later("printer.cfg", original["printer.cfg"], disk["printer.cfg"])'
    BY <1>1, <1>3, <1>6 DEF Later
  <2>6. Loops' /\ Window' /\ Secured'
    BY <1>1, <1>3, <1>9, <2>4, <2>5 DEF Loops, Window, Secured
  <2>7. Progress' /\ Seen'
    BY <1>9 DEF Progress, Seen
  <2>8. OutcomeIsTrue' /\ SuccessMeansReloaded'
    BY <1>9, BusyHolds
  <2> QED
    BY <1>7, <2>2, <2>6, <2>7, <2>8 DEF InstallInv
<1> QED
  BY <1>8, <1>9 DEF ReviewMacro

(* The backup starts with every file that is there on its list.            *)
LEMMA DecideKeeps ==
    ASSUME InstallInv, Decide
    PROVE  InstallInv'
<1>1. /\ TypeOK /\ pc = "decide" /\ DOMAIN saved = {}
      /\ Later("printer.cfg", original["printer.cfg"], disk["printer.cfg"])
      /\ Later(macro, original[macro], disk[macro])
      /\ Inclusion /\ Accepted
  BY DEF InstallInv, Window, Decide
<1>2. FlagTypes'
  BY <1>1 DEF Decide, Ends, TypeOK, FlagTypes, printer, review, flags, Outcomes
<1>3. UNCHANGED <<disk, running, saved, edits, macro, original, backdated>> /\ UNCHANGED review
  BY DEF Decide, Ends, printer, review, history
<1>4. Changes' = Changes /\ Targets' = Targets /\ Targets \subseteq Files
  BY <1>1, <1>3, ReviewFixes, ChangesForms
<1>5. CASE pc' = "idle"
  <2>1. outcome' = "reviewed" /\ todo' = todo
    BY <1>5 DEF Decide, Ends
  <2>2. TypeOK'
    BY <1>1, <1>2, <1>3, <2>1, FilesKept DEF TypeOK, FileTypes
  <2> QED
    BY <1>5, <2>1, <2>2, EndHolds
<1>6. CASE pc' = "backup"
  <2> DEFINE there == {g \in Files : disk[g] # Absent}
  <2>1. todo' = SetToSeq(there) /\ Changes # << >>
    BY <1>6 DEF Decide, Ends
  <2>2. IsFiniteSet(there)
    BY FilesAreFinite
  <2>3. SetToSeq(there) \in Seq(there) /\ ToSet(SetToSeq(there)) = there
    BY <2>2, ListsAll
  <2>4. todo' \in Seq(Files) /\ ToSet(todo') = there
    BY <2>1, <2>3
  <2>5. TypeOK'
    BY <1>1, <1>2, <1>3, <2>4, FilesKept DEF TypeOK
  <2>6. \A g \in Targets : original[g] # Absent => g \in there
    <3> SUFFICES ASSUME NEW g \in Targets, original[g] # Absent PROVE g \in there
      OBVIOUS
    <3>1. original[g] \in Content /\ disk[g] \in Content /\ g \in Files
      BY <1>1, <1>4 DEF TypeOK, FileTypes
    <3>2. Later(g, original[g], disk[g])
      BY <1>1 DEF Targets
    <3> QED
      BY <3>1, <3>2, LaterStays
  <2> HIDE DEF there
  <2>7. Secured'
    BY <1>3, <1>4, <1>6, <2>4, <2>6 DEF Secured
  <2>8. Window'
    BY <1>1, <1>3, <1>6 DEF Window, Later
  <2>9. Loops' /\ Progress' /\ Seen'
    BY <1>4, <1>6, <2>1 DEF Loops, Progress, Seen
  <2>10. Inclusion' /\ Accepted'
    BY <1>1, <1>3, <1>6 DEF Inclusion, Accepted
  <2> QED
    BY <1>6, <2>5, <2>7, <2>8, <2>9, <2>10, BusyHolds DEF InstallInv
<1> QED
  BY <1>5, <1>6 DEF Decide, Ends

LEMMA BackupKeeps ==
    ASSUME InstallInv, Backup
    PROVE  InstallInv'
<1>1. /\ TypeOK /\ pc = "backup" /\ Loops /\ Window /\ Secured /\ Inclusion /\ Accepted
  BY DEF InstallInv, Backup
<1>2. FlagTypes'
  BY <1>1 DEF Backup, TypeOK, FlagTypes, printer, review, flags
<1>3. /\ UNCHANGED <<disk, running, edits, macro, original, backdated>> /\ UNCHANGED review
  BY DEF Backup, printer, review, bounds, history
<1>4. /\ Changes' = Changes /\ Targets' = Targets /\ Targets \subseteq Files
      /\ macro \in Files /\ "printer.cfg" \in Files
  BY <1>1, <1>3, ReviewFixes, ChangesForms DEF Files
<1>5. Changes # << >>
  BY <1>1 DEF Loops
<1>6. Inclusion' /\ Accepted' /\ Progress' /\ Seen'
  BY <1>1, <1>3 DEF Inclusion, Accepted, Progress, Seen, Backup
<1>7. pc' # "idle"
  BY <1>1 DEF Backup
<1>8. CASE todo = << >>
  <2>1. pc' = "compare" /\ todo' = <<"printer.cfg", macro>> /\ saved' = saved
    BY <1>8 DEF Backup
  <2>2. todo' \in Seq(Files) /\ ToSet(todo') = Targets
    <3>1. todo' \in Seq(Files)
      BY <1>4, <2>1
    <3>2. ToSet(<<"printer.cfg", macro>>) = {"printer.cfg", macro}
      BY ShortLists
    <3> QED
      BY <2>1, <3>1, <3>2 DEF Targets
  <2>3. TypeOK'
    BY <1>1, <1>2, <1>3, <2>1, <2>2, FilesKept DEF TypeOK
  <2>4. Loops'
    BY <1>3, <1>4, <1>5, <2>1 DEF Loops
  <2>5. Window'
    BY <1>1, <1>3, <1>4, <2>1 DEF Window, Later
  <2>6. ToSet(todo) = {}
    BY <1>8, ShortLists
  <2>7. Secured'
    BY <1>1, <1>3, <1>4, <2>1, <2>2, <2>6 DEF Secured, SavedAgrees
  <2> QED
    BY <1>6, <1>7, <2>3, <2>4, <2>5, <2>7, BusyHolds DEF InstallInv
<1>9. CASE todo # << >>
  <2> DEFINE h == Head(todo)
  <2>1. /\ pc' = "backup" /\ todo' = Tail(todo)
        /\ saved' = [g \in DOMAIN saved \union {h} |-> IF g = h THEN disk[g] ELSE saved[g]]
    BY <1>1, <1>9 DEF Backup
  <2>2. h \in Files /\ todo' \in Seq(Files) /\ ToSet(todo) = {h} \cup ToSet(todo')
    BY <1>1, <1>9, <2>1, HeadAndTail DEF TypeOK, FileTypes
  <2> HIDE DEF h
  <2>3. /\ DOMAIN saved' = DOMAIN saved \cup {h} /\ saved'[h] = disk[h]
        /\ \A g \in DOMAIN saved : g # h => saved'[g] = saved[g]
    BY <2>1
  <2>4. saved' \in [DOMAIN saved' -> Content] /\ DOMAIN saved' \subseteq Files
    BY <1>1, <2>1, <2>2, <2>3 DEF TypeOK, FileTypes
  <2>5. TypeOK'
    BY <1>1, <1>2, <1>3, <2>2, <2>4 DEF TypeOK, FileTypes
  <2>6. Loops'
    BY <1>4, <1>5, <2>1 DEF Loops
  <2>7. /\ Later("printer.cfg", original["printer.cfg"], disk["printer.cfg"])
        /\ Later(macro, original[macro], disk[macro])
    BY <1>1 DEF Window
  <2>8. ASSUME NEW g \in Targets \cap DOMAIN saved'
        PROVE  Later(g, original[g], saved'[g]) /\ Later(g, saved'[g], disk[g])
    <3>1. CASE g = h
      <4>1. disk[g].edits <= disk[g].edits
        BY <1>1, <2>2, <3>1, SameVersion DEF TypeOK
      <4> QED
        BY <2>3, <2>7, <3>1, <4>1 DEF Targets, Later
    <3>2. CASE g # h
      BY <1>1, <2>3, <3>2 DEF Window
    <3> QED
      BY <3>1, <3>2
  <2>9. Window'
    BY <1>3, <1>4, <2>1, <2>7, <2>8 DEF Window, Later
  <2>10. Secured'
    BY <1>1, <1>3, <1>4, <2>1, <2>2, <2>3 DEF Secured
  <2> QED
    BY <1>6, <1>7, <2>5, <2>6, <2>9, <2>10, BusyHolds DEF InstallInv
<1> QED
  BY <1>8, <1>9

(* What agrees with the review at the comparison agreed at the backup.     *)
LEMMA CompareKeeps ==
    ASSUME InstallInv, Compare
    PROVE  InstallInv'
<1>1. /\ TypeOK /\ pc = "compare" /\ Loops /\ Window /\ Secured /\ Inclusion /\ Accepted
  BY DEF InstallInv, Compare
<1>2. FlagTypes'
  BY <1>1 DEF Compare, TypeOK, FlagTypes, printer, review, flags, Outcomes
<1>3. UNCHANGED <<disk, running, saved, edits, macro, original, backdated>> /\ UNCHANGED review
  BY DEF Compare, printer, review, bounds, history
<1>4. /\ Changes' = Changes /\ Targets' = Targets /\ Targets \subseteq Files
      /\ macro \in Files /\ macro # "printer.cfg"
  BY <1>1, <1>3, ReviewFixes, ChangesForms
<1>5. /\ Changes # << >> /\ todo \in {<<"printer.cfg", macro>>, <<macro>>, << >>}
      /\ todo \in Seq(Files)
  BY <1>1 DEF Loops, TypeOK, FileTypes
<1>6. CASE todo = << >>
  <2>1. pc' = "recheck" /\ todo' = todo
    BY <1>6 DEF Compare
  <2>2. TypeOK'
    BY <1>1, <1>2, <1>3, <1>5, <2>1, FilesKept DEF TypeOK
  <2>3. ToSet(todo) = {}
    BY <1>6, ShortLists
  <2>4. Secured'
    BY <1>1, <1>3, <1>4, <2>1, <2>3 DEF Secured, SavedAgrees
  <2>5. Window' /\ Loops'
    BY <1>1, <1>3, <1>4, <1>5, <2>1 DEF Window, Later, Loops
  <2>6. Inclusion' /\ Accepted' /\ Progress' /\ Seen'
    BY <1>1, <1>3, <2>1 DEF Inclusion, Accepted, Progress, Seen
  <2> QED
    BY <2>1, <2>2, <2>4, <2>5, <2>6, BusyHolds DEF InstallInv
<1>7. CASE todo # << >> /\ disk[Head(todo)] = original[Head(todo)]
  <2> DEFINE h == Head(todo)
  <2>1. pc' = "compare" /\ todo' = Tail(todo)
    BY <1>1, <1>7 DEF Compare
  <2>2. h \in Files /\ todo' \in Seq(Files) /\ ToSet(todo) = {h} \cup ToSet(todo')
    BY <1>5, <1>7, <2>1, HeadAndTail
  <2>3. h \in Targets /\ todo' \in {<<macro>>, << >>}
    <3>1. CASE todo = <<macro>>
      <4>1. Head(todo) = macro /\ Tail(todo) = << >>
        BY <3>1, ShortLists
      <4> QED
        BY <2>1, <4>1 DEF Targets
    <3>2. CASE todo = <<"printer.cfg", macro>>
      <4>1. Head(todo) = "printer.cfg" /\ Tail(todo) = <<macro>>
        BY <3>2, ShortLists
      <4> QED
        BY <2>1, <4>1 DEF Targets
    <3> QED
      BY <1>5, <1>7, <3>1, <3>2
  <2>4. disk[h] = original[h]
    BY <1>7
  <2> HIDE DEF h
  <2>5. TypeOK'
    BY <1>1, <1>2, <1>3, <2>2, FilesKept DEF TypeOK
  <2>6. original[h] # Absent => SavedAgrees(h)
    <3> SUFFICES ASSUME original[h] # Absent, h \notin backdated PROVE saved[h] = original[h]
      BY <1>1, <2>3 DEF Secured, SavedAgrees
    <3>1. h \in DOMAIN saved
      BY <1>1, <2>3 DEF Secured
    <3>2. Later(h, original[h], saved[h]) /\ Later(h, saved[h], original[h])
      BY <1>1, <2>3, <2>4, <3>1 DEF Window
    <3>3. original[h] \in Content /\ saved[h] \in Content
      BY <1>1, <2>2, <3>1 DEF TypeOK, FileTypes
    <3> QED
      BY <3>2, <3>3, LaterMeets
  <2>7. Secured'
    BY <1>1, <1>3, <1>4, <2>1, <2>2, <2>6 DEF Secured, SavedAgrees
  <2>8. Window' /\ Loops'
    BY <1>1, <1>3, <1>4, <1>5, <2>1, <2>3 DEF Window, Later, Loops
  <2>9. Inclusion' /\ Accepted' /\ Progress' /\ Seen'
    BY <1>1, <1>3, <2>1 DEF Inclusion, Accepted, Progress, Seen
  <2> QED
    BY <2>1, <2>5, <2>7, <2>8, <2>9, BusyHolds DEF InstallInv
<1>8. CASE todo # << >> /\ disk[Head(todo)] # original[Head(todo)]
  <2>1. pc' = "idle" /\ outcome' = "refused" /\ todo' = todo
    BY <1>8 DEF Compare
  <2>2. TypeOK'
    BY <1>1, <1>2, <1>3, <1>5, <2>1, FilesKept DEF TypeOK
  <2> QED
    BY <2>1, <2>2, EndHolds
<1> QED
  BY <1>6, <1>7, <1>8

LEMMA RecheckKeeps ==
    ASSUME InstallInv, Recheck
    PROVE  InstallInv'
<1>1. /\ TypeOK /\ pc = "recheck" /\ Loops /\ Window /\ Secured /\ Inclusion /\ Accepted
  BY DEF InstallInv, Recheck
<1>2. FlagTypes'
  BY <1>1 DEF Recheck, TypeOK, FlagTypes, printer, review, flags, Outcomes
<1>3. /\ UNCHANGED <<disk, running, saved, edits, macro, original, touched, backdated>>
      /\ UNCHANGED review
  BY DEF Recheck, printer, review, bounds, history
<1>4. /\ Changes' = Changes /\ Targets' = Targets /\ Targets \subseteq Files
      /\ macro \in Files /\ "printer.cfg" \in Files /\ Changes \in Seq(Files)
      /\ Changes \in {<<macro, "printer.cfg">>, <<macro>>, <<"printer.cfg">>, << >>}
  BY <1>1, <1>3, ReviewFixes, ChangesForms DEF Files
<1>5. CASE pc' = "idle"
  <2>1. outcome' = "refused" /\ todo' = todo
    BY <1>5 DEF Recheck
  <2>2. TypeOK'
    BY <1>1, <1>2, <1>3, <2>1, FilesKept DEF TypeOK, FileTypes
  <2> QED
    BY <1>5, <2>1, <2>2, EndHolds
<1>6. CASE pc' = "upload"
  <2>1. todo' = Changes /\ Changes # << >>
    BY <1>1, <1>6 DEF Recheck, Loops
  <2>2. TypeOK'
    BY <1>1, <1>2, <1>3, <1>4, <2>1, FilesKept DEF TypeOK
  <2>3. Loops'
    BY <1>3, <1>4, <1>6, <2>1 DEF Loops
  <2>4. Window' /\ Secured'
    BY <1>1, <1>3, <1>4, <1>6 DEF Window, Secured, SavedAgrees
  <2>5. Passed(ToSet(todo))' = {}
    BY <1>4, <2>1 DEF Passed
  <2>6. Progress' /\ Seen'
    BY <1>6, <2>5 DEF Progress, Seen, Applied
  <2>7. /\ Later("printer.cfg", original["printer.cfg"], disk["printer.cfg"])
        /\ Later(macro, original[macro], disk[macro])
    BY <1>1 DEF Window
  <2>8. disk["printer.cfg"].lines = original["printer.cfg"].lines
    BY <2>7 DEF Later
  <2>9. macro \notin ToSet(Changes) => disk[macro] # Absent
    <3> SUFFICES ASSUME macro \notin ToSet(Changes) PROVE disk[macro] # Absent
      OBVIOUS
    <3>1. Proposed(macro) = original[macro]
      BY <1>1, ChangesForms DEF Targets
    <3>2. Proposed(macro) # Absent
      BY <1>1, Proposals DEF Accepted
    <3>3. original[macro] \in Content /\ disk[macro] \in Content
      BY <1>1, <1>4 DEF TypeOK, FileTypes
    <3> QED
      BY <2>7, <3>1, <3>2, <3>3, LaterStays
  <2>10. Inclusion'
    BY <1>1, <1>3, <1>4, <1>6, <2>1, <2>8, <2>9 DEF Inclusion, Lines
  <2>11. Accepted'
    BY <1>1, <1>3, <1>6 DEF Accepted
  <2> QED
    BY <1>6, <2>2, <2>3, <2>4, <2>6, <2>10, <2>11, BusyHolds DEF InstallInv
<1> QED
  BY <1>5, <1>6 DEF Recheck

(* A rollback may start at any point of the change: the reviewed include   *)
(* lines are still in printer.cfg, whatever has been written of it.        *)
LEMMA UndoHolds ==
    ASSUME InstallInv, pc \in Changing, UNCHANGED review, UNCHANGED <<saved, backdated>>, TypeOK',
           pc' = "undo", todo' = Reverse(Changes),
           ToSet(original["printer.cfg"].lines) \subseteq Lines(disk'),
           "printer.cfg" \notin ToSet(Changes) =>
               disk'["printer.cfg"].lines = original["printer.cfg"].lines
    PROVE  InstallInv'
<1>1. TypeOK /\ Loops /\ Secured /\ Inclusion /\ Accepted
  BY DEF InstallInv
<1>2. /\ Changes' = Changes /\ Targets' = Targets
      /\ UNCHANGED <<macro, original, saved, backdated>>
  BY ReviewFixes DEF review
<1>3. /\ ToSet(Reverse(Changes)) = ToSet(Changes)
      /\ Reverse(Changes) \in {<<"printer.cfg", macro>>, <<macro>>, <<"printer.cfg">>, << >>}
  BY <1>1, ChangesForms
<1>4. Changes # << >>
  BY <1>1 DEF Loops
<1>5. Loops'
  BY <1>2, <1>3, <1>4 DEF Loops
<1>6. Window'
  BY DEF Window
<1>7. Secured'
  BY <1>1, <1>2 DEF Secured, SavedAgrees
<1>8. Passed(ToSet(todo))' = {}
  BY <1>2, <1>3 DEF Passed
<1>9. Progress' /\ Seen'
  BY <1>8 DEF Progress, Reverted, Seen
<1>10. Inclusion'
  BY <1>1, <1>2, <1>3 DEF Inclusion, Lines
<1>11. Accepted'
  BY <1>1, <1>2 DEF Accepted
<1> QED
  BY <1>5, <1>6, <1>7, <1>9, <1>10, <1>11, BusyHolds DEF InstallInv

LEMMA UndoFromHere ==
    ASSUME InstallInv, pc \in Changing, FlagTypes', Undo,
           UNCHANGED <<disk, running, review, saved, edits, backdated>>
    PROVE  InstallInv'
<1>1. TypeOK /\ Inclusion
  BY DEF InstallInv
<1>2. pc' = "undo" /\ todo' = Reverse(Changes) /\ todo' \in Seq(Files)
  BY <1>1, ChangesForms DEF Undo
<1>3. UNCHANGED original
  BY DEF review
<1>4. TypeOK'
  BY <1>1, <1>2, <1>3, FilesKept DEF TypeOK
<1>5. ToSet(original["printer.cfg"].lines) \subseteq Lines(disk')
  BY <1>1 DEF Inclusion
<1>6. "printer.cfg" \notin ToSet(Changes) =>
          disk'["printer.cfg"].lines = original["printer.cfg"].lines
  BY <1>1 DEF Inclusion
<1> QED
  BY <1>2, <1>4, <1>5, <1>6, UndoHolds

(* One file of the change is written.                                      *)
LEMMA UploadWrites ==
    ASSUME InstallInv, pc = "upload", NEW h, h = Head(todo), Write(h, Proposed(h))
    PROVE  /\ h \in ToSet(Changes) /\ h \in Targets /\ h \in Files
           /\ disk' \in [Files -> Content] /\ \A f \in Files : disk'[f].edits <= edits
           /\ disk'[h] = Proposed(h) /\ \A f \in Files \ {h} : disk'[f] = disk[f]
           /\ h = macro => disk'[h] # Absent
           /\ ToSet(original["printer.cfg"].lines) \subseteq Lines(disk')
           /\ "printer.cfg" \notin ToSet(Changes) =>
                  disk'["printer.cfg"].lines = original["printer.cfg"].lines
<1>1. TypeOK /\ Loops /\ Inclusion /\ Accepted
  BY DEF InstallInv
<1>2. /\ ToSet(Changes) \subseteq Targets /\ Targets \subseteq Files /\ macro # "printer.cfg"
      /\ macro \in Files /\ "printer.cfg" \in Files
  BY <1>1, ChangesForms DEF Files
<1>3. todo \in Seq(Files) /\ todo # << >> /\ ToSet(todo) \subseteq ToSet(Changes)
  BY <1>1 DEF Loops, TypeOK, FileTypes
<1>4. h \in ToSet(Changes) /\ h \in Targets /\ h \in Files
  BY <1>2, <1>3, HeadAndTail
<1>5. /\ Proposed(h) \in Content /\ Proposed(h).edits <= edits
      /\ ToSet(Proposed("printer.cfg").lines) =
            ToSet(original["printer.cfg"].lines) \cup {macro}
      /\ Proposed(macro) # Absent
  BY <1>1, <1>4, Proposals DEF Accepted
<1>6. disk \in [Files -> Content] /\ \A f \in Files : disk[f].edits <= edits
  BY <1>1 DEF TypeOK, FileTypes
<1>7. disk' = [disk EXCEPT ![h] = Proposed(h)]
  BY DEF Write
<1>8. disk' \in [Files -> Content]
  BY <1>4, <1>5, <1>6, <1>7
<1>9. disk'[h] = Proposed(h) /\ \A f \in Files \ {h} : disk'[f] = disk[f]
  BY <1>4, <1>6, <1>7
<1>10. \A f \in Files : disk'[f].edits <= edits
  BY <1>5, <1>6, <1>9
<1>11. ToSet(original["printer.cfg"].lines) \subseteq Lines(disk')
  <2>1. CASE h = "printer.cfg"
    BY <1>5, <1>9, <2>1 DEF Lines
  <2>2. CASE h # "printer.cfg"
    <3>1. disk'["printer.cfg"] = disk["printer.cfg"]
      BY <1>2, <1>9, <2>2
    <3>2. ToSet(original["printer.cfg"].lines) \subseteq Lines(disk)
      BY <1>1 DEF Inclusion
    <3> QED
      BY <3>1, <3>2 DEF Lines
  <2> QED
    BY <2>1, <2>2
<1>12. "printer.cfg" \notin ToSet(Changes) =>
           disk'["printer.cfg"].lines = original["printer.cfg"].lines
  BY <1>1, <1>2, <1>4, <1>9 DEF Inclusion
<1> QED
  BY <1>4, <1>5, <1>8, <1>9, <1>10, <1>11, <1>12

LEMMA UploadKeeps ==
    ASSUME InstallInv, Upload
    PROVE  InstallInv'
<1> DEFINE h == Head(todo)
<1>1. /\ TypeOK /\ pc = "upload" /\ Loops /\ Secured /\ Progress /\ Inclusion /\ Accepted
  BY DEF InstallInv, Upload
<1>2. Write(h, Proposed(h))
  BY DEF Upload
<1>3. /\ UNCHANGED <<running, saved, todo, edits, macro, original, backdated>>
      /\ UNCHANGED review /\ pc' = "verify"
  BY DEF Upload, Write, review, bounds, history
<1>4. /\ Changes' = Changes /\ Targets' = Targets /\ \A g : Proposed(g)' = Proposed(g)
      /\ ToSet(Changes) \subseteq Files
  BY <1>1, <1>3, ReviewFixes, ChangesForms
<1>5. todo \in Seq(Files) /\ todo # << >> /\ ToSet(todo) = {h} \cup ToSet(Tail(todo))
  BY <1>1, HeadAndTail DEF Loops, TypeOK, FileTypes
<1> HIDE DEF h
<1>6. /\ h \in ToSet(Changes) /\ h \in Targets /\ h \in Files
      /\ disk' \in [Files -> Content] /\ \A f \in Files : disk'[f].edits <= edits
      /\ disk'[h] = Proposed(h) /\ \A f \in Files \ {h} : disk'[f] = disk[f]
      /\ h = macro => disk'[h] # Absent
  BY <1>1, <1>2, UploadWrites DEF h
<1>7. /\ ToSet(original["printer.cfg"].lines) \subseteq Lines(disk')
      /\ "printer.cfg" \notin ToSet(Changes) =>
             disk'["printer.cfg"].lines = original["printer.cfg"].lines
  BY <1>1, <1>2, UploadWrites DEF h
<1>8. FlagTypes'
  BY <1>1 DEF Upload, TypeOK, FlagTypes, review, flags
<1>9. FileTypes'
  BY <1>1, <1>3, <1>6 DEF TypeOK, FileTypes
<1>10. Loops'
  BY <1>1, <1>3, <1>4 DEF Loops
<1>11. Window' /\ Secured'
  BY <1>1, <1>3, <1>4 DEF Window, Secured, SavedAgrees
<1>12. touched' = touched \ {h}
  BY <1>2 DEF Write
<1>13. Applied(Passed(ToSet(todo)))
  BY <1>1 DEF Progress
<1>14. Applied(Passed(ToSet(Tail(todo))))'
  BY <1>3, <1>4, <1>5, <1>6, <1>12, <1>13 DEF Applied, Passed
<1>15. Progress' /\ Seen'
  BY <1>3, <1>14 DEF Progress, Seen
<1>16. macro \notin ToSet(Tail(todo)) => disk'[macro] # Absent
  <2>1. macro \in Files
    BY <1>1, ChangesForms
  <2> QED
    BY <1>1, <1>5, <1>6, <2>1 DEF Inclusion
<1>17. Inclusion'
  BY <1>1, <1>3, <1>4, <1>7, <1>16 DEF Inclusion
<1>18. Accepted'
  BY <1>1, <1>3 DEF Accepted
<1> QED
  BY <1>3, <1>8, <1>9, <1>10, <1>11, <1>15, <1>17, <1>18, BusyHolds DEF InstallInv, TypeOK

(* The forms of a list and of its tail.                                    *)
LEMMA TailForms ==
    ASSUME NEW a, NEW b, NEW s \in {<<a, b>>, <<a>>, <<b>>, << >>}, s # << >>
    PROVE  Tail(s) = <<b>> \/ Tail(s) = << >>
<1>1. CASE s = <<a, b>>
  BY <1>1, ShortLists
<1>2. CASE s = <<a>> \/ s = <<b>>
  BY <1>2, ShortLists
<1> QED
  BY <1>1, <1>2

LEMMA VerifyUploadKeeps ==
    ASSUME InstallInv, VerifyUpload
    PROVE  InstallInv'
<1>1. /\ TypeOK /\ pc = "verify" /\ Loops /\ Secured /\ Progress /\ Inclusion /\ Accepted
  BY DEF InstallInv, VerifyUpload
<1>2. /\ UNCHANGED <<disk, running, saved, edits, macro, original, touched, backdated>>
      /\ UNCHANGED review
  BY DEF VerifyUpload, printer, review, bounds, history
<1>3. /\ Changes' = Changes /\ Targets' = Targets /\ \A g : Proposed(g)' = Proposed(g)
      /\ Changes \in {<<macro, "printer.cfg">>, <<macro>>, <<"printer.cfg">>, << >>}
      /\ Changes \in Seq(Files)
  BY <1>1, <1>2, ReviewFixes, ChangesForms
<1>4. FlagTypes'
  BY <1>1 DEF VerifyUpload, Undo, TypeOK, FlagTypes, printer, review, flags
<1>5. /\ todo \in Seq(Files) /\ todo # << >> /\ Tail(todo) \in Seq(Files)
      /\ ToSet(Tail(todo)) \subseteq ToSet(Changes)
  BY <1>1, HeadAndTail DEF Loops, TypeOK, FileTypes
<1>6. CASE Undo
  BY <1>1, <1>2, <1>4, <1>6, UndoFromHere
<1>7. CASE pc' = "reread" /\ todo' = Changes /\ Tail(todo) = << >>
  <2>1. TypeOK'
    BY <1>1, <1>2, <1>3, <1>4, <1>7, FilesKept DEF TypeOK
  <2>2. ToSet(Tail(todo)) = {}
    BY <1>7, ShortLists
  <2>3. Applied(ToSet(Changes))
    BY <1>1, <2>2 DEF Progress, Passed
  <2>4. Progress' /\ Seen'
    BY <1>2, <1>3, <1>7, <2>3 DEF Progress, Applied, Seen
  <2>5. Loops'
    BY <1>1, <1>2, <1>3, <1>7 DEF Loops
  <2>6. Window' /\ Secured'
    BY <1>1, <1>2, <1>3, <1>7 DEF Window, Secured, SavedAgrees
  <2>7. Inclusion' /\ Accepted'
    BY <1>1, <1>2, <1>3, <1>7 DEF Inclusion, Accepted, Lines
  <2> QED
    BY <1>7, <2>1, <2>4, <2>5, <2>6, <2>7, BusyHolds DEF InstallInv
<1>8. CASE pc' = "upload" /\ todo' = Tail(todo) /\ Tail(todo) # << >>
  <2>1. TypeOK'
    BY <1>1, <1>2, <1>4, <1>5, <1>8, FilesKept DEF TypeOK
  <2>2. Applied(Passed(ToSet(Tail(todo))))
    BY <1>1 DEF Progress
  <2>3. Progress' /\ Seen'
    BY <1>2, <1>3, <1>8, <2>2 DEF Progress, Applied, Passed, Seen
  <2>4. Tail(todo) = <<"printer.cfg">>
    BY <1>1, <1>5, <1>8, TailForms DEF Loops
  <2>5. Loops'
    BY <1>1, <1>3, <1>5, <1>8, <2>4 DEF Loops
  <2>6. Window' /\ Secured'
    BY <1>1, <1>2, <1>3, <1>8 DEF Window, Secured, SavedAgrees
  <2>7. Inclusion' /\ Accepted'
    BY <1>1, <1>2, <1>3, <1>8 DEF Inclusion, Accepted, Lines
  <2> QED
    BY <1>8, <2>1, <2>3, <2>5, <2>6, <2>7, BusyHolds DEF InstallInv
<1> QED
  BY <1>6, <1>7, <1>8 DEF VerifyUpload

LEMMA RereadKeeps ==
    ASSUME InstallInv, Reread
    PROVE  InstallInv'
<1>1. /\ TypeOK /\ pc = "reread" /\ Loops /\ Secured /\ Progress /\ Inclusion /\ Accepted
  BY DEF InstallInv, Reread
<1>2. /\ UNCHANGED <<disk, running, saved, edits, macro, original, touched, backdated>>
      /\ UNCHANGED review
  BY DEF Reread, printer, review, bounds, history
<1>3. Changes' = Changes /\ Targets' = Targets /\ \A g : Proposed(g)' = Proposed(g)
  BY <1>2, ReviewFixes
<1>4. FlagTypes'
  BY <1>1 DEF Reread, Undo, TypeOK, FlagTypes, printer, review, flags
<1>5. CASE Undo
  BY <1>1, <1>2, <1>4, <1>5, UndoFromHere
<1>6. ASSUME pc' \in {"reread", "settle"}, todo' \in Seq(Files),
             pc' = "reread" => /\ todo' = <<"printer.cfg">> \/ todo' = << >>
                               /\ ToSet(todo') \subseteq ToSet(Changes)
      PROVE  InstallInv'
  <2>1. TypeOK'
    BY <1>1, <1>2, <1>4, <1>6, FilesKept DEF TypeOK
  <2>2. Progress' /\ Seen'
    BY <1>1, <1>2, <1>3, <1>6 DEF Progress, Applied, Seen
  <2>3. Loops'
    BY <1>1, <1>3, <1>6 DEF Loops
  <2>4. Window' /\ Secured'
    BY <1>1, <1>2, <1>3, <1>6 DEF Window, Secured, SavedAgrees
  <2>5. Inclusion' /\ Accepted'
    BY <1>1, <1>2, <1>3, <1>6 DEF Inclusion, Accepted, Lines
  <2> QED
    BY <1>6, <2>1, <2>2, <2>3, <2>4, <2>5, BusyHolds DEF InstallInv
<1>7. CASE todo = << >> /\ pc' = "settle" /\ todo' = todo
  BY <1>1, <1>6, <1>7 DEF TypeOK, FileTypes
<1>8. CASE todo # << >> /\ pc' = "reread" /\ todo' = Tail(todo)
  <2>1. todo' \in Seq(Files) /\ ToSet(todo') \subseteq ToSet(Changes)
    BY <1>1, <1>8, HeadAndTail DEF Loops, TypeOK, FileTypes
  <2>2. todo' = <<"printer.cfg">> \/ todo' = << >>
    BY <1>1, <1>8, TailForms DEF Loops
  <2> QED
    BY <1>6, <1>8, <2>1, <2>2
<1> QED
  BY <1>1, <1>5, <1>7, <1>8 DEF Reread

LEMMA SettleIdleKeeps ==
    ASSUME InstallInv, SettleIdle
    PROVE  InstallInv'
<1>1. /\ TypeOK /\ pc = "settle" /\ Loops /\ Secured /\ Progress /\ Inclusion /\ Accepted
  BY DEF InstallInv, SettleIdle
<1>2. /\ UNCHANGED <<disk, running, saved, edits, macro, original, touched, backdated>>
      /\ UNCHANGED review
  BY DEF SettleIdle, printer, review, bounds, history
<1>3. Changes' = Changes /\ Targets' = Targets /\ \A g : Proposed(g)' = Proposed(g)
  BY <1>2, ReviewFixes
<1>4. FlagTypes'
  BY <1>1 DEF SettleIdle, Undo, TypeOK, FlagTypes, printer, review, flags
<1>5. CASE Undo
  BY <1>1, <1>2, <1>4, <1>5, UndoFromHere
<1>6. CASE pc' = "restart" /\ todo' = todo
  <2>1. TypeOK'
    BY <1>1, <1>2, <1>4, <1>6, FilesKept DEF TypeOK, FileTypes
  <2>2. Progress' /\ Seen'
    BY <1>1, <1>2, <1>3, <1>6 DEF Progress, Applied, Seen
  <2>3. Loops' /\ Window' /\ Secured'
    BY <1>1, <1>2, <1>3, <1>6 DEF Loops, Window, Secured, SavedAgrees
  <2>4. Inclusion' /\ Accepted'
    BY <1>1, <1>2, <1>3, <1>6 DEF Inclusion, Accepted, Lines
  <2> QED
    BY <1>6, <2>1, <2>2, <2>3, <2>4, BusyHolds DEF InstallInv
<1> QED
  BY <1>5, <1>6 DEF SettleIdle

(* Waiting for a restart, of the change or of its undoing.                 *)
LEMMA FailsHolds ==
    ASSUME InstallInv, pc \in {"restart", "wait", "undo_restart", "undo_wait"}, Fails,
           UNCHANGED <<disk, running, review, saved, edits, backdated>>, FlagTypes'
    PROVE  InstallInv'
<1>1. TypeOK
  BY DEF InstallInv
<1>2. CASE pc \in {"restart", "wait"}
  BY <1>2, UndoFromHere DEF Fails
<1>3. CASE pc \in {"undo_restart", "undo_wait"}
  <2>1. pc' = "idle" /\ outcome' = "incomplete" /\ todo' = todo
    BY <1>3 DEF Fails
  <2>2. TypeOK'
    BY <1>1, <2>1, FilesKept DEF TypeOK, FileTypes, review
  <2> QED
    BY <2>1, <2>2, EndHolds
<1> QED
  BY <1>2, <1>3

LEMMA SucceedsHolds ==
    ASSUME InstallInv, pc \in {"wait", "undo_wait"}, Succeeds, klippy = "ready", observed,
           UNCHANGED <<disk, running, review, saved, edits, touched, backdated, lost>>, FlagTypes'
    PROVE  InstallInv'
<1>1. TypeOK /\ Progress /\ Seen
  BY DEF InstallInv
<1>2. pc' = "idle" /\ todo' = todo /\ UNCHANGED <<macro, original>>
  BY DEF Succeeds, review
<1>3. TypeOK'
  BY <1>1, <1>2, FilesKept DEF TypeOK, FileTypes
<1>4. Changes' = Changes /\ \A g : Proposed(g)' = Proposed(g)
  BY ReviewFixes
<1>5. Ours' = Ours /\ Ours \subseteq ToSet(Changes) \ touched
  BY <1>4 DEF Ours
<1>6. CASE pc = "wait"
  <2>1. outcome' = "installed"
    BY <1>6 DEF Succeeds
  <2>2. Applied(ToSet(Changes)) /\ (~lost => Reloaded)
    BY <1>1, <1>6 DEF Progress, Seen
  <2>3. OutcomeIsTrue'
    BY <1>4, <1>5, <2>1, <2>2 DEF OutcomeIsTrue, Done, Applied
  <2>4. SuccessMeansReloaded'
    BY <1>4, <1>5, <2>2 DEF SuccessMeansReloaded, Reloaded
  <2> QED
    BY <1>2, <1>3, <2>3, <2>4, IdleHolds
<1>7. CASE pc = "undo_wait"
  <2>1. outcome' = IF errors = {} THEN "restored" ELSE "incomplete"
    BY <1>7 DEF Succeeds
  <2>2. Reverted(ToSet(Changes))
    BY <1>1, <1>7 DEF Progress
  <2>3. CASE errors = {}
    <3>1. outcome' = "restored"
      BY <2>1, <2>3
    <3>2. OutcomeIsTrue'
      BY <1>2, <1>5, <2>2, <2>3, <3>1 DEF OutcomeIsTrue, Done, Reverted
    <3>3. SuccessMeansReloaded'
      BY <3>1 DEF SuccessMeansReloaded, Done
    <3> QED
      BY <1>2, <1>3, <3>2, <3>3, IdleHolds
  <2>4. CASE errors # {}
    BY <1>2, <1>3, <2>1, <2>4, EndHolds
  <2> QED
    BY <2>3, <2>4
<1> QED
  BY <1>6, <1>7

LEMMA WaitHolds ==
    ASSUME InstallInv, pc' \in {"wait", "undo_wait"}, 
           pc' = "wait" => pc \in {"restart", "wait"},
           pc' = "undo_wait" => pc \in {"undo_restart", "undo_wait"},
           UNCHANGED <<disk, running, review, saved, edits, touched, backdated, todo, errors>>,
           FlagTypes', Seen'
    PROVE  InstallInv'
<1>1. TypeOK /\ Loops /\ Window /\ Secured /\ Progress /\ Inclusion /\ Accepted
  BY DEF InstallInv
<1>2. UNCHANGED <<macro, original>>
  BY DEF review
<1>3. Changes' = Changes /\ Targets' = Targets /\ \A g : Proposed(g)' = Proposed(g)
  BY ReviewFixes
<1>4. TypeOK'
  BY <1>1, <1>2, FilesKept DEF TypeOK, FileTypes
<1>5. Loops' /\ Window' /\ Secured'
  BY <1>1, <1>2, <1>3 DEF Loops, Window, Secured, SavedAgrees
<1>6. Progress'
  BY <1>1, <1>2, <1>3 DEF Progress, Applied, Reverted
<1>7. Inclusion' /\ Accepted'
  BY <1>1, <1>2, <1>3 DEF Inclusion, Accepted, Lines
<1> QED
  BY <1>4, <1>5, <1>6, <1>7, BusyHolds DEF InstallInv

LEMMA RestartKeeps ==
    ASSUME InstallInv, Restart
    PROVE  InstallInv'
<1>1. TypeOK /\ pc \in {"restart", "undo_restart"}
  BY DEF InstallInv, Restart
<1>2. UNCHANGED <<disk, running, review, saved, edits, touched, backdated>>
  BY DEF Restart, bounds, history
<1>3. FlagTypes'
  BY <1>1 DEF Restart, Fails, Undo, TypeOK, FlagTypes, review, Outcomes
<1>4. CASE Fails
  BY <1>1, <1>2, <1>3, <1>4, FailsHolds
<1>5. CASE /\ observed' = FALSE /\ UNCHANGED <<todo, errors>>
           /\ pc' = IF pc = "restart" THEN "wait" ELSE "undo_wait"
  BY <1>1, <1>2, <1>3, <1>5, WaitHolds DEF Seen
<1> QED
  BY <1>4, <1>5 DEF Restart

LEMMA PollKeeps ==
    ASSUME InstallInv, Poll
    PROVE  InstallInv'
<1>1. TypeOK /\ Seen /\ pc \in {"wait", "undo_wait"}
  BY DEF InstallInv, Poll
<1>2. UNCHANGED <<disk, running, review, saved, edits, touched, backdated, lost, klippy>>
  BY DEF Poll, printer, bounds, history
<1>3. FlagTypes'
  <2>1. observed' \in BOOLEAN
    BY <1>1 DEF Poll, TypeOK, FlagTypes
  <2> QED
    BY <1>1, <2>1 DEF Poll, Fails, Succeeds, Undo, TypeOK, FlagTypes, printer, review, Outcomes
<1>4. CASE Fails
  BY <1>1, <1>2, <1>3, <1>4, FailsHolds
<1>5. CASE klippy = "ready" /\ observed /\ Succeeds
  BY <1>1, <1>2, <1>3, <1>5, SucceedsHolds
<1>6. CASE UNCHANGED <<pc, todo, errors>>
  <2>1. Changes' = Changes /\ \A g : Proposed(g)' = Proposed(g)
    BY <1>2, ReviewFixes
  <2>2. Reloaded => Reloaded'
    BY <1>2, <2>1 DEF Reloaded, Ours
  <2>3. klippy = "ready" /\ observed' => observed
    BY DEF Poll
  <2>4. Seen'
    BY <1>1, <1>2, <1>6, <2>2, <2>3 DEF Seen
  <2> QED
    BY <1>1, <1>2, <1>3, <1>6, <2>4, WaitHolds
<1> QED
  BY <1>4, <1>5, <1>6 DEF Poll

LEMMA PollLostKeeps ==
    ASSUME InstallInv, PollLost
    PROVE  InstallInv'
<1>1. TypeOK /\ pc \in {"wait", "undo_wait"}
  BY DEF InstallInv, PollLost
<1>2. UNCHANGED <<disk, running, review, saved, edits, touched, backdated, pc, todo, errors>>
  BY DEF PollLost, printer, history
<1>3. FlagTypes'
  BY <1>1 DEF PollLost, TypeOK, FlagTypes, printer, review
<1>4. Seen'
  BY DEF PollLost, Seen
<1> QED
  BY <1>1, <1>2, <1>3, <1>4, WaitHolds

LEMMA DeadlineKeeps ==
    ASSUME InstallInv, Deadline \/ InterruptWait
    PROVE  InstallInv'
<1>1. TypeOK /\ pc \in {"wait", "undo_wait"} /\ Fails
  BY DEF InstallInv, Deadline, InterruptWait
<1>2. UNCHANGED <<disk, running, review, saved, edits, backdated>>
  BY DEF Deadline, InterruptWait, printer, bounds, history
<1>3. FlagTypes'
  BY <1>1 DEF Deadline, InterruptWait, Fails, Undo, TypeOK, FlagTypes, printer, review, Outcomes
<1> QED
  BY <1>1, <1>2, <1>3, FailsHolds

(* One file of the change is put back.                                     *)
LEMMA UndoWrites ==
    ASSUME InstallInv, pc = "undo", todo # << >>, NEW h, h = Head(todo), Write(h, original[h])
    PROVE  /\ disk' \in [Files -> Content] /\ \A f \in Files : disk'[f].edits <= edits
           /\ disk'[h] = original[h] /\ \A f \in Files \ {h} : disk'[f] = disk[f]
           /\ h \in Files /\ ToSet(original["printer.cfg"].lines) \subseteq Lines(disk')
<1>1. TypeOK /\ Inclusion
  BY DEF InstallInv
<1>2. h \in Files /\ "printer.cfg" \in Files
  BY <1>1, HeadAndTail DEF TypeOK, FileTypes, Files
<1>3. /\ disk \in [Files -> Content] /\ \A f \in Files : disk[f].edits <= edits
      /\ original[h] \in Content /\ original[h].edits <= edits
  BY <1>1, <1>2 DEF TypeOK, FileTypes
<1>4. disk' = [disk EXCEPT ![h] = original[h]]
  BY DEF Write
<1>5. disk' \in [Files -> Content]
  BY <1>2, <1>3, <1>4
<1>6. disk'[h] = original[h] /\ \A f \in Files \ {h} : disk'[f] = disk[f]
  BY <1>2, <1>3, <1>4
<1>7. \A f \in Files : disk'[f].edits <= edits
  BY <1>3, <1>6
<1>8. ToSet(original["printer.cfg"].lines) \subseteq Lines(disk)
  BY <1>1 DEF Inclusion
<1>9. ToSet(original["printer.cfg"].lines) \subseteq Lines(disk')
  BY <1>2, <1>6, <1>8 DEF Lines
<1> QED
  BY <1>2, <1>5, <1>6, <1>7, <1>9

LEMMA UndoFileKeeps ==
    ASSUME InstallInv, UndoFile
    PROVE  InstallInv'
<1> DEFINE h == Head(todo)
<1>1. /\ TypeOK /\ pc = "undo" /\ Loops /\ Secured /\ Progress /\ Inclusion /\ Accepted
  BY DEF InstallInv, UndoFile
<1>2. todo # << >> /\ Write(h, original[h])
  BY DEF UndoFile
<1>3. /\ UNCHANGED <<running, saved, todo, edits, macro, original, errors, backdated>>
      /\ UNCHANGED review /\ pc' = "undo_verify"
  BY DEF UndoFile, Write, review, bounds, history, flags
<1>4. Changes' = Changes /\ Targets' = Targets /\ ToSet(Changes) \subseteq Files
  BY <1>1, <1>3, ReviewFixes, ChangesForms
<1>5. ToSet(todo) = {h} \cup ToSet(Tail(todo))
  BY <1>1, <1>2, HeadAndTail DEF TypeOK, FileTypes
<1> HIDE DEF h
<1>6. /\ disk' \in [Files -> Content] /\ \A f \in Files : disk'[f].edits <= edits
      /\ disk'[h] = original[h] /\ \A f \in Files \ {h} : disk'[f] = disk[f]
      /\ h \in Files /\ ToSet(original["printer.cfg"].lines) \subseteq Lines(disk')
  BY <1>1, <1>2, UndoWrites DEF h
<1>7. FlagTypes'
  BY <1>1 DEF UndoFile, TypeOK, FlagTypes, review, flags
<1>8. FileTypes'
  BY <1>1, <1>3, <1>6 DEF TypeOK, FileTypes
<1>9. Loops' /\ Window' /\ Secured'
  BY <1>1, <1>2, <1>3, <1>4 DEF Loops, Window, Secured, SavedAgrees
<1>10. touched' = touched \ {h}
  BY <1>2 DEF Write
<1>11. Reverted(Passed(ToSet(todo)))
  BY <1>1 DEF Progress
<1>12. Reverted(Passed(ToSet(Tail(todo))))'
  BY <1>3, <1>4, <1>5, <1>6, <1>10, <1>11 DEF Reverted, Passed
<1>13. Progress' /\ Seen'
  BY <1>3, <1>12 DEF Progress, Seen
<1>14. "printer.cfg" \notin ToSet(todo) =>
          "printer.cfg" \in errors \/ disk'["printer.cfg"].lines = original["printer.cfg"].lines
  <2>1. "printer.cfg" \in Files
    BY DEF Files
  <2> QED
    BY <1>1, <1>5, <1>6, <2>1 DEF Inclusion
<1>15. Inclusion' /\ Accepted'
  BY <1>1, <1>3, <1>4, <1>6, <1>14 DEF Inclusion, Accepted
<1> QED
  BY <1>3, <1>7, <1>8, <1>9, <1>13, <1>15, BusyHolds DEF InstallInv, TypeOK

(* The rollback goes on to its next file, the last one put back or noted.  *)
LEMMA NextUndoHolds ==
    ASSUME InstallInv, pc \in {"undo", "undo_verify"}, todo # << >>, NEW h, h = Head(todo),
           UNCHANGED <<running, review, saved, edits, backdated>>, FlagTypes',
           pc' = "undo", todo' = Tail(todo),
           errors' = errors \/ errors' = errors \cup {h},
           \/ UNCHANGED <<disk, touched>>
           \/ pc = "undo" /\ Write(h, original[h]),
           \/ h \in errors'
           \/ UNCHANGED <<disk, touched>> /\ disk[h] = original[h]
    PROVE  InstallInv'
<1>1. TypeOK /\ Loops /\ Secured /\ Progress /\ Inclusion /\ Accepted
  BY DEF InstallInv
<1>2. UNCHANGED <<macro, original, backdated>>
  BY DEF review
<1>3. /\ Changes' = Changes /\ Targets' = Targets /\ Changes # << >> /\ "printer.cfg" \in Files
      /\ ToSet(Changes) \subseteq Files
  BY <1>1, ReviewFixes, ChangesForms DEF Files, Loops
<1>4. /\ ToSet(todo) = {h} \cup ToSet(todo') /\ h \in Files /\ todo' \in Seq(Files)
  BY <1>1, HeadAndTail DEF TypeOK, FileTypes
<1>5. todo' \in {<<macro>>, << >>}
  BY <1>1, TailForms DEF Loops
<1>6. /\ disk' \in [Files -> Content] /\ \A f \in Files : disk'[f].edits <= edits
      /\ \A f \in Files \ {h} : disk'[f] = disk[f]
      /\ ToSet(original["printer.cfg"].lines) \subseteq Lines(disk')
  <2>1. CASE UNCHANGED <<disk, touched>>
    BY <1>1, <2>1 DEF TypeOK, FileTypes, Inclusion
  <2>2. CASE pc = "undo" /\ Write(h, original[h])
    BY <2>2, UndoWrites
  <2> QED
    BY <2>1, <2>2
<1>7. FileTypes'
  BY <1>1, <1>2, <1>4, <1>6 DEF TypeOK, FileTypes
<1>8. Loops' /\ Window' /\ Secured'
  BY <1>1, <1>2, <1>3, <1>4, <1>5 DEF Loops, Window, Secured, SavedAgrees
<1>9. \A g \in ToSet(Changes) \ {h} : g \notin touched' => g \notin touched
  BY DEF Write
<1>10. Reverted(Passed(ToSet(todo)) \ {h})
  <2>1. pc = "undo" => Reverted(Passed(ToSet(todo)))
    BY <1>1 DEF Progress
  <2>2. pc = "undo_verify" => Reverted(Passed(ToSet(todo')))
    BY <1>1 DEF Progress
  <2> QED
    BY <1>4, <2>1, <2>2 DEF Reverted, Passed
<1>11. Reverted(Passed(ToSet(todo)))'
  <2> SUFFICES ASSUME NEW g \in ToSet(Changes) \ ToSet(todo'), g \notin touched'
               PROVE  g \in errors' \/ disk'[g] = original[g]
    BY <1>2, <1>3 DEF Reverted, Passed
  <2>1. CASE g = h
    BY <2>1
  <2>2. CASE g # h
    <3>1. g \in (Passed(ToSet(todo)) \ {h}) \ touched
      BY <1>4, <1>9, <2>2 DEF Passed
    <3>2. g \in errors \/ disk[g] = original[g]
      BY <1>10, <3>1 DEF Reverted
    <3>3. disk'[g] = disk[g]
      BY <1>3, <1>6, <2>2
    <3> QED
      BY <3>2, <3>3
  <2> QED
    BY <2>1, <2>2
<1>12. Progress' /\ Seen'
  BY <1>11 DEF Progress, Seen
<1>13. "printer.cfg" \notin ToSet(todo') =>
           \/ "printer.cfg" \in errors'
           \/ disk'["printer.cfg"].lines = original["printer.cfg"].lines
  <2>1. CASE h = "printer.cfg"
    BY <2>1
  <2>2. CASE h # "printer.cfg"
    <3>1. disk'["printer.cfg"] = disk["printer.cfg"]
      BY <1>3, <1>6, <2>2
    <3> QED
      BY <1>1, <1>4, <2>2, <3>1 DEF Inclusion
  <2> QED
    BY <2>1, <2>2
<1>14. Inclusion' /\ Accepted'
  BY <1>1, <1>2, <1>3, <1>6, <1>13 DEF Inclusion, Accepted
<1> QED
  BY <1>7, <1>8, <1>12, <1>14, BusyHolds DEF InstallInv, TypeOK

LEMMA UndoVerifyKeeps ==
    ASSUME InstallInv, UndoVerify
    PROVE  InstallInv'
<1>1. TypeOK /\ pc = "undo_verify" /\ todo # << >>
  BY DEF InstallInv, UndoVerify, Loops
<1>2. FlagTypes'
  BY <1>1 DEF UndoVerify, TypeOK, FlagTypes, printer, review
<1>3. /\ UNCHANGED <<running, review, saved, edits, backdated>> /\ UNCHANGED <<disk, touched>>
      /\ pc' = "undo" /\ todo' = Tail(todo)
  BY DEF UndoVerify, printer, bounds, history
<1>4. errors' = IF disk[Head(todo)] = original[Head(todo)] THEN errors
                ELSE errors \union {Head(todo)}
  BY DEF UndoVerify
<1> QED
  BY <1>1, <1>2, <1>3, <1>4, NextUndoHolds

LEMMA UndoDoneKeeps ==
    ASSUME InstallInv, UndoDone
    PROVE  InstallInv'
<1>1. /\ TypeOK /\ pc = "undo" /\ Loops /\ Secured /\ Progress /\ Inclusion /\ Accepted
      /\ todo = << >>
  BY DEF InstallInv, UndoDone
<1>2. /\ UNCHANGED <<disk, running, saved, todo, edits, macro, original>>
      /\ UNCHANGED <<touched, backdated, errors>>
      /\ UNCHANGED review
  BY DEF UndoDone, printer, review, bounds, history, flags
<1>3. Changes' = Changes /\ Targets' = Targets
  BY <1>2, ReviewFixes
<1>4. FlagTypes'
  BY <1>1 DEF UndoDone, TypeOK, FlagTypes, printer, review, flags, Outcomes
<1>5. TypeOK'
  BY <1>1, <1>2, <1>4, FilesKept DEF TypeOK, FileTypes
<1>6. Reverted(ToSet(Changes))
  <2>1. ToSet(todo) = {}
    BY <1>1, ShortLists
  <2> QED
    BY <1>1, <2>1 DEF Progress, Passed
<1>7. CASE pc' = "undo_restart"
  <2>1. Loops' /\ Window' /\ Secured'
    BY <1>1, <1>2, <1>3, <1>7 DEF Loops, Window, Secured, SavedAgrees
  <2>2. Progress' /\ Seen'
    BY <1>2, <1>3, <1>6, <1>7 DEF Progress, Reverted, Seen
  <2>3. Inclusion' /\ Accepted'
    BY <1>1, <1>2, <1>7 DEF Inclusion, Accepted
  <2> QED
    BY <1>5, <1>7, <2>1, <2>2, <2>3, BusyHolds DEF InstallInv
<1>8. CASE pc' = "idle" /\ outcome' = IF errors = {} THEN "restored" ELSE "incomplete"
  <2>1. CASE errors = {}
    <3>1. outcome' = "restored" /\ Ours' \subseteq ToSet(Changes) \ touched
      BY <1>2, <1>3, <1>8, <2>1 DEF Ours
    <3>2. OutcomeIsTrue'
      BY <1>2, <1>6, <2>1, <3>1 DEF OutcomeIsTrue, Done, Reverted
    <3>3. SuccessMeansReloaded'
      BY <3>1 DEF SuccessMeansReloaded, Done
    <3> QED
      BY <1>5, <1>8, <3>2, <3>3, IdleHolds
  <2>2. CASE errors # {}
    BY <1>5, <1>8, <2>2, EndHolds
  <2> QED
    BY <2>1, <2>2
<1> QED
  BY <1>1, <1>7, <1>8 DEF UndoDone

(* A request that raises, and may have taken effect.                       *)
LEMMA RaiseKeeps ==
    ASSUME InstallInv, Raise
    PROVE  InstallInv'
<1>1. TypeOK /\ Loops
  BY DEF InstallInv
<1>2. UNCHANGED <<klippy, running, printing, edits, backdated>>
  BY DEF Raise, Effect, Write, history
<1>3. asked' \in BOOLEAN
  <2>1. asked' = asked \/ asked' = TRUE
    BY DEF Raise, Effect
  <2> QED
    BY <1>1, <2>1 DEF TypeOK, FlagTypes
<1>4. CASE pc \in BeforeMutation /\ Ends("refused")
  <2>1. /\ UNCHANGED <<review, saved, todo, flags>> /\ pc' = "idle" /\ outcome' = "refused"
    BY <1>4 DEF Ends
  <2>2. UNCHANGED disk
    BY <1>4 DEF Raise, Effect, BeforeMutation, history
  <2>3. FlagTypes'
    BY <1>1, <1>2, <1>3, <2>1 DEF TypeOK, FlagTypes, review, flags, Outcomes
  <2>4. TypeOK'
    BY <1>1, <1>2, <2>1, <2>2, <2>3, FilesKept DEF TypeOK, FileTypes, review
  <2> QED
    BY <2>1, <2>4, EndHolds
<1>5. CASE pc \in Mutating /\ Undo /\ UNCHANGED <<review, saved, flags, outcome>>
  <2>1. pc \in Changing /\ pc' = "undo"
    BY <1>5 DEF Mutating, Undo
  <2>2. FlagTypes'
    BY <1>1, <1>2, <1>3, <1>5, <2>1 DEF TypeOK, FlagTypes, review, flags
  <2>3. CASE UNCHANGED disk
    BY <1>2, <1>5, <2>1, <2>2, <2>3, UndoFromHere
  <2>4. CASE disk' # disk
    <3>1. pc = "upload" /\ Write(Head(todo), Proposed(Head(todo)))
      BY <1>5, <2>4 DEF Raise, Effect, Mutating
    <3>2. /\ disk' \in [Files -> Content] /\ \A f \in Files : disk'[f].edits <= edits
          /\ ToSet(original["printer.cfg"].lines) \subseteq Lines(disk')
          /\ "printer.cfg" \notin ToSet(Changes) =>
                 disk'["printer.cfg"].lines = original["printer.cfg"].lines
      BY <3>1, UploadWrites
    <3>3. todo' = Reverse(Changes) /\ todo' \in Seq(Files)
      BY <1>1, <1>5, ChangesForms DEF Undo
    <3>4. FileTypes'
      BY <1>1, <1>2, <1>5, <3>2, <3>3 DEF TypeOK, FileTypes, review
    <3> QED
      BY <1>2, <1>5, <2>1, <2>2, <3>2, <3>3, <3>4, UndoHolds DEF TypeOK
  <2> QED
    BY <2>3, <2>4
<1>6. CASE /\ pc \in {"undo", "undo_verify"} /\ todo # << >>
           /\ errors' = errors \union {Head(todo)}
           /\ pc' = "undo" /\ todo' = Tail(todo)
           /\ UNCHANGED <<review, saved, attempted, observed, lost, outcome>>
  <2>1. FlagTypes'
    BY <1>1, <1>2, <1>3, <1>6 DEF TypeOK, FlagTypes, review
  <2>2. \/ UNCHANGED <<disk, touched>>
        \/ pc = "undo" /\ Write(Head(todo), original[Head(todo)])
    <3>1. Effect \/ UNCHANGED <<disk, touched>>
      BY DEF Raise, history
    <3>2. CASE pc = "undo_verify" /\ Effect
      BY <3>2 DEF Effect, history
    <3>3. CASE pc = "undo" /\ Effect
      BY <1>6, <3>3 DEF Effect, Write
    <3>4. CASE UNCHANGED <<disk, touched>>
      BY <3>4
    <3>5. pc = "undo" \/ pc = "undo_verify"
      BY <1>6
    <3> QED
      BY <3>1, <3>2, <3>3, <3>4, <3>5, Zenon
  <2> QED
    BY <1>2, <1>6, <2>1, <2>2, NextUndoHolds
<1>7. CASE /\ pc = "undo_restart"
           /\ pc' = "idle" /\ outcome' = "incomplete"
           /\ UNCHANGED <<review, saved, todo, attempted, observed, lost>>
  <2>1. UNCHANGED disk
    BY <1>7 DEF Raise, Effect, history
  <2>2. FlagTypes'
    BY <1>1, <1>2, <1>3, <1>7 DEF TypeOK, FlagTypes, review, Outcomes
  <2>3. TypeOK'
    BY <1>1, <1>2, <1>7, <2>1, <2>2, FilesKept DEF TypeOK, FileTypes, review
  <2> QED
    BY <1>7, <2>3, EndHolds
<1> QED
  BY <1>4, <1>5, <1>6, <1>7 DEF Raise

(* Klipper, prints and restarts leave the files alone; what Klipper loads  *)
(* is what is on disk.                                                     *)
LEMMA ElsewhereHolds ==
    ASSUME InstallInv, UNCHANGED laptop, UNCHANGED <<disk, touched, backdated>>, FlagTypes',
           edits' \in Nat, edits <= edits',
           \/ running' = running /\ (klippy' = "ready" => klippy = "ready")
           \/ running' = disk
    PROVE  InstallInv'
<1>1. TypeOK /\ Loops /\ Window /\ Secured /\ Progress /\ Seen /\ Inclusion /\ Accepted
  BY DEF InstallInv
<1>2. /\ UNCHANGED <<pc, macro, original, saved, todo>> /\ UNCHANGED review
      /\ UNCHANGED <<attempted, observed, errors, lost, outcome>>
  BY DEF laptop, review, flags
<1>3. /\ Changes' = Changes /\ Targets' = Targets /\ \A g : Proposed(g)' = Proposed(g)
      /\ Targets \subseteq Files
  BY <1>1, <1>2, ReviewFixes, ChangesForms
<1>4. FileTypes'
  <2>1. running' \in [Files -> Content]
    BY <1>1 DEF TypeOK, FileTypes
  <2>2. \A f \in Files : disk[f].edits <= edits' /\ original[f].edits <= edits'
    <3> SUFFICES ASSUME NEW f \in Files
                 PROVE  disk[f].edits <= edits' /\ original[f].edits <= edits'
      OBVIOUS
    <3>1. /\ disk[f].edits \in Nat /\ original[f].edits \in Nat /\ edits \in Nat
          /\ disk[f].edits <= edits /\ original[f].edits <= edits
      BY <1>1 DEF TypeOK, FileTypes, Content
    <3> QED
      BY <3>1
  <2> QED
    BY <1>1, <1>2, <2>1, <2>2 DEF TypeOK, FileTypes
<1>5. Loops' /\ Window' /\ Secured'
  BY <1>1, <1>2, <1>3 DEF Loops, Window, Later, Secured, SavedAgrees
<1>6. Progress'
  BY <1>1, <1>2, <1>3 DEF Progress, Applied, Reverted, Passed
<1>7. Inclusion' /\ Accepted'
  BY <1>1, <1>2, <1>3 DEF Inclusion, Accepted, Lines
<1>8. Ours' = Ours /\ Ours \subseteq ToSet(Changes) \ touched
  BY <1>3 DEF Ours
<1>9. OutcomeIsTrue' /\ OutcomeIsTrue /\ SuccessMeansReloaded
  BY <1>2, <1>3, <1>8 DEF InstallInv, OutcomeIsTrue, Done
<1>10. CASE running' = running /\ (klippy' = "ready" => klippy = "ready")
  <2>1. Reloaded' = Reloaded
    BY <1>3, <1>8, <1>10 DEF Reloaded
  <2>2. Seen' /\ SuccessMeansReloaded'
    BY <1>1, <1>2, <1>9, <1>10, <2>1 DEF Seen, SuccessMeansReloaded, Done
  <2> QED
    BY <1>4, <1>5, <1>6, <1>7, <1>9, <2>2 DEF InstallInv, TypeOK
<1>11. CASE running' = disk
  <2>1. pc = "wait" => Reloaded'
    BY <1>1, <1>3, <1>8, <1>11 DEF Reloaded, Progress, Applied
  <2>2. Done("installed") => Reloaded'
    BY <1>3, <1>8, <1>9, <1>11 DEF Reloaded, OutcomeIsTrue
  <2>3. Seen' /\ SuccessMeansReloaded'
    BY <1>2, <2>1, <2>2 DEF Seen, SuccessMeansReloaded, Done
  <2> QED
    BY <1>4, <1>5, <1>6, <1>7, <1>9, <2>3 DEF InstallInv, TypeOK
<1> QED
  BY <1>10, <1>11

LEMMA KlippyKeeps ==
    ASSUME InstallInv, KlippyDown \/ KlippyLoads \/ PrintEnds
    PROVE  InstallInv'
<1>1. TypeOK /\ edits \in Nat /\ edits <= edits
  BY DEF InstallInv, TypeOK, FileTypes
<1>2. UNCHANGED laptop /\ UNCHANGED <<disk, touched, backdated>> /\ edits' = edits
  BY DEF KlippyDown, KlippyLoads, PrintEnds, bounds, history
<1>3. FlagTypes'
  BY <1>1, <1>2 DEF KlippyDown, KlippyLoads, PrintEnds, TypeOK, FlagTypes, laptop, review, flags
<1>4. \/ running' = running /\ (klippy' = "ready" => klippy = "ready")
      \/ running' = disk
  BY DEF KlippyDown, KlippyLoads, PrintEnds
<1> QED
  BY <1>1, <1>2, <1>3, <1>4, ElsewhereHolds

LEMMA OthersKeep ==
    ASSUME InstallInv, StartPrint \/ RestartElsewhere
    PROVE  InstallInv'
<1>1. TypeOK /\ edits \in Nat
  BY DEF InstallInv, TypeOK, FileTypes
<1>2. /\ UNCHANGED laptop /\ UNCHANGED <<disk, touched, backdated, running, klippy>>
      /\ edits' = edits + 1
  BY DEF StartPrint, RestartElsewhere, Elsewhere, history
<1>3. FlagTypes'
  BY <1>1, <1>2 DEF StartPrint, RestartElsewhere, TypeOK, FlagTypes, laptop, review, flags
<1>4. edits' \in Nat /\ edits <= edits'
  BY <1>1, <1>2
<1> QED
  BY <1>2, <1>3, <1>4, ElsewhereHolds

LEMMA StutterKeeps ==
    ASSUME InstallInv, UNCHANGED vars
    PROVE  InstallInv'
<1>1. TypeOK /\ edits \in Nat /\ edits <= edits
  BY DEF InstallInv, TypeOK, FileTypes
<1>2. /\ UNCHANGED laptop /\ UNCHANGED <<disk, touched, backdated, running, klippy, edits>>
      /\ UNCHANGED <<asked, printing>>
  BY DEF vars, laptop, printer, bounds, history
<1>3. FlagTypes'
  BY <1>1, <1>2 DEF TypeOK, FlagTypes, laptop, review, flags
<1> QED
  BY <1>1, <1>2, <1>3, ElsewhereHolds

(* A hand edit makes a later version of one file, or it is noted.          *)
LEMMA EditWrites ==
    ASSUME InstallInv, NEW f \in Files, EditFile(f)
    PROVE  /\ disk' \in [Files -> Content] /\ disk'[f] # Absent
           /\ edits' \in Nat /\ edits' = edits + 1 /\ backdated \subseteq backdated'
           /\ \A g \in Files : /\ disk'[g].lines = disk[g].lines
                               /\ g \in backdated' \/ disk[g].edits <= disk'[g].edits
                               /\ disk'[g].edits <= edits'
                               /\ (g # f => disk'[g] = disk[g])
<1>1. /\ disk \in [Files -> Content] /\ edits \in Nat
      /\ \A g \in Files : disk[g].edits <= edits
  BY DEF InstallInv, TypeOK, FileTypes
<1>2. disk[f] # Absent /\ disk[f] \in Content
  BY <1>1 DEF EditFile
<1>3. /\ disk[f].lines # << >> /\ disk[f].lines \in Seq(Line)
      /\ disk[f].edits \in Nat /\ disk[f].edits <= edits
  BY <1>1, <1>2 DEF Content, Absent
<1>4. PICK n \in 0..(disk[f].edits - 1) \union {edits + 1} :
          /\ disk' = [disk EXCEPT ![f].edits = n]
          /\ backdated' = IF n <= edits THEN backdated \union {f} ELSE backdated
  BY DEF EditFile
<1>5. n \in Nat /\ n <= edits + 1 /\ edits' = edits + 1
  BY <1>1, <1>3, <1>4 DEF EditFile, Elsewhere
<1>6. disk'[f] = [disk[f] EXCEPT !.edits = n] /\ \A g \in Files \ {f} : disk'[g] = disk[g]
  BY <1>1, <1>4
<1>7. /\ disk'[f] \in Content /\ disk'[f].edits = n
      /\ disk'[f].lines = disk[f].lines
  BY <1>2, <1>3, <1>5, <1>6 DEF Content
<1>8. disk' \in [Files -> Content]
  <2>1. [disk[f] EXCEPT !.edits = n] \in Content
    BY <1>6, <1>7
  <2>2. disk' = [disk EXCEPT ![f] = [disk[f] EXCEPT !.edits = n]]
    BY <1>4
  <2> QED
    BY <1>1, <2>1, <2>2
<1>9. disk'[f] # Absent
  BY <1>3, <1>7 DEF Absent
<1>10. f \in backdated' \/ disk[f].edits <= n
  BY <1>1, <1>3, <1>4, <1>5
<1>11. backdated \subseteq backdated'
  BY <1>4
<1>12. ASSUME NEW g \in Files
       PROVE  /\ disk'[g].lines = disk[g].lines
              /\ g \in backdated' \/ disk[g].edits <= disk'[g].edits
              /\ disk'[g].edits <= edits'
              /\ (g # f => disk'[g] = disk[g])
  <2>1. disk[g].edits \in Nat /\ disk[g].edits <= edits
    BY <1>1 DEF Content
  <2>2. CASE g = f
    BY <1>5, <1>7, <1>10, <2>2
  <2>3. CASE g # f
    BY <1>1, <1>5, <1>6, <2>1, <2>3
  <2> QED
    BY <2>2, <2>3
<1> QED
  BY <1>1, <1>5, <1>8, <1>9, <1>11, <1>12

LEMMA EditFileKeeps ==
    ASSUME InstallInv, NEW f \in Files, EditFile(f)
    PROVE  InstallInv'
<1>1. TypeOK /\ Loops /\ Window /\ Secured /\ Progress /\ Seen /\ Inclusion /\ Accepted
  BY DEF InstallInv
<1>2. /\ UNCHANGED <<pc, macro, original, saved, todo>> /\ UNCHANGED review
      /\ UNCHANGED <<attempted, observed, errors, lost, outcome>>
      /\ UNCHANGED <<klippy, asked, running, printing>>
      /\ touched' = touched \cup {f}
  BY DEF EditFile, Elsewhere, laptop, review, flags
<1>3. /\ Changes' = Changes /\ Targets' = Targets /\ \A g : Proposed(g)' = Proposed(g)
      /\ Targets \subseteq Files /\ ToSet(Changes) \subseteq Files
      /\ macro \in Files /\ "printer.cfg" \in Files
  BY <1>1, <1>2, ReviewFixes, ChangesForms DEF Files
<1>4. /\ disk' \in [Files -> Content] /\ disk'[f] # Absent
      /\ edits' \in Nat /\ edits' = edits + 1 /\ backdated \subseteq backdated'
      /\ \A g \in Files : /\ disk'[g].lines = disk[g].lines
                          /\ g \in backdated' \/ disk[g].edits <= disk'[g].edits
                          /\ disk'[g].edits <= edits'
                          /\ (g # f => disk'[g] = disk[g])
  BY EditWrites
<1>5. FlagTypes'
  BY <1>1, <1>2 DEF TypeOK, FlagTypes
<1>6. \A g \in Files : original[g].edits <= edits'
  <2> SUFFICES ASSUME NEW g \in Files PROVE original[g].edits <= edits'
    OBVIOUS
  <2>1. original[g].edits \in Nat /\ original[g].edits <= edits /\ edits \in Nat
    BY <1>1 DEF TypeOK, FileTypes, Content
  <2> QED
    BY <1>4, <2>1
<1>7. FileTypes'
  BY <1>1, <1>2, <1>4, <1>6 DEF TypeOK, FileTypes
<1>8. Loops' /\ Secured'
  BY <1>1, <1>2, <1>3, <1>4 DEF Loops, Secured, SavedAgrees
<1>9. ASSUME NEW g \in Files, NEW old \in Content, Later(g, old, disk[g])
      PROVE  /\ disk'[g].lines = old.lines
             /\ g \in backdated' \/ old.edits <= disk'[g].edits
  <2>1. disk[g] \in Content /\ disk'[g] \in Content
    BY <1>1, <1>4 DEF TypeOK, FileTypes
  <2>2. old.edits \in Nat /\ disk[g].edits \in Nat /\ disk'[g].edits \in Nat
    BY <2>1 DEF Content
  <2>3. disk'[g].lines = old.lines
    BY <1>4, <1>9 DEF Later
  <2>4. CASE g \in backdated'
    BY <2>3, <2>4
  <2>5. CASE g \notin backdated'
    <3>1. old.edits <= disk[g].edits /\ disk[g].edits <= disk'[g].edits
      BY <1>4, <1>9, <2>5 DEF Later
    <3> QED
      BY <2>2, <2>3, <3>1
  <2> QED
    BY <2>4, <2>5
<1>10. original \in [Files -> Content] /\ \A g \in DOMAIN saved : saved[g] \in Content
  BY <1>1 DEF TypeOK, FileTypes
<1>11. ASSUME NEW g \in Files, Later(g, original[g], disk[g])
       PROVE  /\ disk'[g].lines = original'[g].lines
              /\ g \in backdated' \/ original'[g].edits <= disk'[g].edits
  BY <1>2, <1>9, <1>10, <1>11
<1>12. ASSUME NEW g \in Targets \cap DOMAIN saved,
              Later(g, original[g], saved[g]), Later(g, saved[g], disk[g])
       PROVE  Later(g, original[g], saved[g])' /\ Later(g, saved[g], disk[g])'
  <2>1. /\ disk'[g].lines = saved[g].lines
        /\ g \in backdated' \/ saved[g].edits <= disk'[g].edits
    BY <1>3, <1>9, <1>10, <1>12
  <2> QED
    BY <1>2, <1>4, <1>12, <2>1 DEF Later
<1>13. Window'
  <2>1. pc \in {"review_macro", "decide", "backup", "compare", "recheck"} =>
            Later("printer.cfg", original["printer.cfg"], disk["printer.cfg"])'
    BY <1>1, <1>3, <1>11 DEF Window, Later
  <2>2. pc \in {"decide", "backup", "compare", "recheck"} =>
            Later(macro, original[macro], disk[macro])'
    BY <1>1, <1>2, <1>3, <1>11 DEF Window, Later
  <2>3. pc \in {"backup", "compare"} =>
            \A g \in Targets \cap DOMAIN saved :
                Later(g, original[g], saved[g])' /\ Later(g, saved[g], disk[g])'
    BY <1>1, <1>12 DEF Window
  <2> QED
    BY <1>1, <1>2, <1>3, <2>1, <2>2, <2>3 DEF Window
<1>14. \A g \in Files \ touched' : g \notin touched /\ disk'[g] = disk[g]
  BY <1>2, <1>4
<1>15. /\ Passed(ToSet(todo))' = Passed(ToSet(todo)) /\ Passed(ToSet(todo)) \subseteq Files
       /\ Passed(ToSet(Tail(todo)))' = Passed(ToSet(Tail(todo)))
       /\ Passed(ToSet(Tail(todo))) \subseteq Files
  BY <1>2, <1>3 DEF Passed
<1>16. /\ Applied(Passed(ToSet(todo))) => Applied(Passed(ToSet(todo)))'
       /\ Applied(Passed(ToSet(Tail(todo)))) => Applied(Passed(ToSet(Tail(todo))))'
       /\ Applied(ToSet(Changes)) => Applied(ToSet(Changes))'
  BY <1>3, <1>14, <1>15 DEF Applied
<1>17. /\ Reverted(Passed(ToSet(todo))) => Reverted(Passed(ToSet(todo)))'
       /\ Reverted(Passed(ToSet(Tail(todo)))) => Reverted(Passed(ToSet(Tail(todo))))'
       /\ Reverted(ToSet(Changes)) => Reverted(ToSet(Changes))'
  BY <1>2, <1>3, <1>14, <1>15 DEF Reverted
<1>18. Progress'
  BY <1>1, <1>2, <1>16, <1>17 DEF Progress
<1>19. Ours' \subseteq Ours /\ \A g \in Ours' : g \in Files \ touched'
  BY <1>2, <1>3 DEF Ours
<1>20. Reloaded => Reloaded'
  BY <1>2, <1>3, <1>19 DEF Reloaded
<1>21. Seen' /\ SuccessMeansReloaded'
  BY <1>1, <1>2, <1>20 DEF Seen, InstallInv, SuccessMeansReloaded, Done
<1>22. OutcomeIsTrue'
  BY <1>2, <1>3, <1>14, <1>19 DEF InstallInv, OutcomeIsTrue, Done
<1>23. disk'["printer.cfg"].lines = disk["printer.cfg"].lines
  BY <1>3, <1>4 DEF Later
<1>24. disk[macro] # Absent => disk'[macro] # Absent
  BY <1>3, <1>4
<1>25. Inclusion' /\ Accepted'
  BY <1>1, <1>2, <1>3, <1>23, <1>24 DEF Inclusion, Accepted, Lines
<1> QED
  BY <1>5, <1>7, <1>8, <1>13, <1>18, <1>21, <1>22, <1>25 DEF InstallInv, TypeOK

LEMMA NextKeeps == InstallInv /\ [Next]_vars => InstallInv'
<1> SUFFICES ASSUME InstallInv, [Next]_vars PROVE InstallInv'
  OBVIOUS
<1>1. CASE \E f \in Macros : Begin(f)
  BY <1>1, BeginKeeps
<1>2. CASE Installer
  <2>1. CASE ReviewPrinterCfg \/ ReviewMacro \/ Decide \/ Backup
    BY <2>1, ReviewPrinterCfgKeeps, ReviewMacroKeeps, DecideKeeps, BackupKeeps
  <2>2. CASE Compare \/ Recheck \/ Upload \/ VerifyUpload \/ Reread \/ SettleIdle
    BY <2>2, CompareKeeps, RecheckKeeps, UploadKeeps, VerifyUploadKeeps, RereadKeeps,
       SettleIdleKeeps
  <2>3. CASE Restart \/ Poll \/ Deadline
    BY <2>3, RestartKeeps, PollKeeps, DeadlineKeeps
  <2>4. CASE UndoFile \/ UndoVerify \/ UndoDone
    BY <2>4, UndoFileKeeps, UndoVerifyKeeps, UndoDoneKeeps
  <2> QED
    BY <1>2, <2>1, <2>2, <2>3, <2>4 DEF Installer
<1>3. CASE PollLost \/ Raise \/ InterruptWait
  BY <1>3, PollLostKeeps, RaiseKeeps, DeadlineKeeps
<1>4. CASE KlippyDown \/ KlippyLoads \/ PrintEnds
  BY <1>4, KlippyKeeps
<1>5. CASE \E f \in Files : EditFile(f)
  BY <1>5, EditFileKeeps
<1>6. CASE StartPrint \/ RestartElsewhere
  BY <1>6, OthersKeep
<1>7. CASE UNCHANGED vars
  BY <1>7, StutterKeeps
<1> QED
  BY <1>1, <1>2, <1>3, <1>4, <1>5, <1>6, <1>7 DEF Next

-----------------------------------------------------------------------------
(* Steps that write the disk keep the includes of printer.cfg resolved.    *)
LEMMA UploadResolves ==
    ASSUME InstallInv, pc = "upload", NEW h, h = Head(todo), Write(h, Proposed(h)), Resolves(disk)
    PROVE  Resolves(disk')
<1>1. TypeOK /\ Loops /\ Inclusion /\ Accepted
  BY DEF InstallInv
<1>2. /\ disk'[h] = Proposed(h) /\ \A f \in Files \ {h} : disk'[f] = disk[f]
      /\ h \in Targets /\ h \in Files /\ (h = macro => disk'[h] # Absent)
  BY UploadWrites
<1>3. macro # "printer.cfg" /\ macro \in Files /\ "printer.cfg" \in Files
  BY <1>1, ChangesForms DEF Files
<1>4. \A f \in Macros : f \in Files /\ f # "printer.cfg"
  BY DEF Macros, Files
<1>5. CASE h = macro
  BY <1>2, <1>3, <1>4, <1>5 DEF Resolves, Includes, Lines
<1>6. CASE h = "printer.cfg"
  <2>1. ToSet(Proposed("printer.cfg").lines) = ToSet(original["printer.cfg"].lines) \cup {macro}
    BY <1>1, Proposals DEF Accepted
  <2>2. ToSet(original["printer.cfg"].lines) \subseteq Lines(disk)
    BY <1>1 DEF Inclusion
  <2>3. Includes(disk') \subseteq Includes(disk) \cup {macro}
    BY <1>2, <1>6, <2>1, <2>2 DEF Includes, Lines
  <2>4. macro \notin ToSet(todo)
    <3>1. todo \in {<<macro, "printer.cfg">>, <<macro>>, <<"printer.cfg">>} /\ todo # <<macro>>
          /\ todo # <<macro, "printer.cfg">>
      BY <1>1, <1>3, <1>6, ShortLists DEF Loops
    <3> QED
      BY <1>3, <3>1, ShortLists
  <2>5. disk[macro] # Absent
    BY <1>1, <2>4 DEF Inclusion
  <2>6. \A f \in Macros : disk'[f] = disk[f]
    BY <1>2, <1>4, <1>6
  <2> QED
    BY <2>3, <2>5, <2>6 DEF Resolves, Includes
<1> QED
  BY <1>2, <1>5, <1>6 DEF Targets

(* The rollback reaches the new macro file after it took its include out,  *)
(* unless printer.cfg could not be written back.                           *)
LEMMA UndoResolves ==
    ASSUME InstallInv, pc = "undo", todo # << >>, NEW h, h = Head(todo), Write(h, original[h]),
           Resolves(disk), "printer.cfg" \notin errors
    PROVE  Resolves(disk')
<1>1. TypeOK /\ Loops /\ Inclusion
  BY DEF InstallInv
<1>2. disk'[h] = original[h] /\ \A f \in Files \ {h} : disk'[f] = disk[f]
  BY UndoWrites
<1>3. macro # "printer.cfg" /\ macro \in Files /\ "printer.cfg" \in Files
  BY <1>1, ChangesForms DEF Files
<1>4. \A f \in Macros : f \in Files /\ f # "printer.cfg"
  BY DEF Macros, Files
<1>5. CASE h = "printer.cfg"
  <2>1. ToSet(original["printer.cfg"].lines) \subseteq Lines(disk)
    BY <1>1 DEF Inclusion
  <2>2. Includes(disk') \subseteq Includes(disk)
    BY <1>2, <1>5, <2>1 DEF Includes, Lines
  <2>3. \A f \in Macros : disk'[f] = disk[f]
    BY <1>2, <1>4, <1>5
  <2> QED
    BY <2>2, <2>3 DEF Resolves, Includes
<1>6. CASE h = macro
  <2>1. todo = <<macro>>
    <3>1. todo \in {<<"printer.cfg", macro>>, <<"printer.cfg">>, <<macro>>}
      BY <1>1 DEF Loops
    <3> QED
      BY <1>3, <1>6, <3>1, ShortLists
  <2>2. "printer.cfg" \notin ToSet(todo)
    BY <1>3, <2>1, ShortLists
  <2>3. disk["printer.cfg"].lines = original["printer.cfg"].lines
    BY <1>1, <2>2 DEF Inclusion
  <2>4. macro \in Lines(disk) => original[macro] # Absent
    BY <1>1, <2>3 DEF Inclusion, Lines
  <2>5. disk'["printer.cfg"] = disk["printer.cfg"] /\ disk'[macro] = original[macro]
    BY <1>2, <1>3, <1>6
  <2> QED
    BY <1>2, <1>4, <1>6, <2>4, <2>5 DEF Resolves, Includes, Lines
<1>7. h = "printer.cfg" \/ h = macro
  <2>1. todo \in {<<"printer.cfg", macro>>, <<"printer.cfg">>, <<macro>>}
    BY <1>1 DEF Loops
  <2> QED
    BY <2>1, ShortLists
<1> QED
  BY <1>5, <1>6, <1>7

LEMMA EditResolves ==
    ASSUME InstallInv, NEW f \in Files, EditFile(f), Resolves(disk)
    PROVE  Resolves(disk')
<1>1. /\ disk'[f] # Absent
      /\ \A g \in Files : disk'[g].lines = disk[g].lines /\ (g # f => disk'[g] = disk[g])
  BY EditWrites
<1>2. "printer.cfg" \in Files /\ \A g \in Macros : g \in Files
  BY DEF Files
<1>3. Includes(disk') = Includes(disk)
  BY <1>1, <1>2 DEF Includes, Lines
<1>4. \A g \in Macros : disk[g] # Absent => disk'[g] # Absent
  BY <1>1, <1>2
<1> QED
  BY <1>3, <1>4 DEF Resolves, Includes

LEMMA StepsResolve ==
    ASSUME InstallInv, [Next]_vars, Resolves(disk), ~Resolves(disk')
    PROVE  "printer.cfg" \in errors
<1>1. disk' # disk
  OBVIOUS
<1>2. \/ Upload \/ UndoFile \/ Raise
      \/ \E f \in Files : EditFile(f)
  BY <1>1 DEF Next, Installer, vars, printer, Begin, ReviewPrinterCfg, ReviewMacro, Decide, Backup,
     Compare, Recheck, VerifyUpload, Reread, SettleIdle, Restart, Poll, Deadline, UndoVerify,
     UndoDone, PollLost, InterruptWait, KlippyDown, KlippyLoads, StartPrint, PrintEnds,
     RestartElsewhere
<1>3. \/ pc = "upload" /\ Write(Head(todo), Proposed(Head(todo)))
      \/ pc = "undo" /\ todo # << >> /\ Write(Head(todo), original[Head(todo)])
      \/ \E f \in Files : EditFile(f)
  <2>1. CASE Raise
    BY <1>1, <2>1 DEF Raise, Effect, history
  <2> QED
    BY <1>2, <2>1 DEF Upload, UndoFile
<1> QED
  BY <1>3, UploadResolves, UndoResolves, EditResolves

-----------------------------------------------------------------------------
(* The inductive invariant of the installers: where the loops over the     *)
(* files are, how the versions read at the review, for the backup and at   *)
(* the comparison follow one another, and what has been written or put     *)
(* back so far of the files no other client has touched since.             *)
THEOREM InstallInvariant == Spec => []InstallInv
<1>1. Init => InstallInv
  BY InitHolds
<1>2. InstallInv /\ [Next]_vars => InstallInv'
  BY NextKeeps
<1> QED
  BY <1>1, <1>2, PTL DEF Spec

(* What the installer reports is true of the disk, for every root, however *)
(* many requests are lost and whatever other clients do meanwhile.         *)
THEOREM ReportIsTrue == Spec => []OutcomeIsTrue
<1>1. InstallInv => OutcomeIsTrue
  BY DEF InstallInv
<1> QED
  BY <1>1, InstallInvariant, PTL

(* A reported success means that Klipper runs what was installed, unless a *)
(* lost poll was taken for the restart.                                    *)
THEOREM SuccessIsReloaded == Spec => []SuccessMeansReloaded
<1>1. InstallInv => SuccessMeansReloaded
  BY DEF InstallInv
<1> QED
  BY <1>1, InstallInvariant, PTL

(* From the first upload on, the backup has the version of every changed   *)
(* file that a rollback writes back: a file that is compared equal to what *)
(* was reviewed had that version in between too.                           *)
THEOREM BackupHoldsOriginals == Spec => []BackupCovers
<1>1. InstallInv => BackupCovers
  <2> SUFFICES ASSUME InstallInv,
                      \/ pc \in Mutating
                      \/ pc \in {"wait", "undo", "undo_verify", "undo_restart", "undo_wait"},
                      NEW g \in ToSet(Changes), original[g] # Absent
               PROVE  g \in DOMAIN saved /\ (g \in backdated \/ saved[g] = original[g])
    BY DEF BackupCovers
  <2>1. g \in Targets
    BY ChangesForms DEF InstallInv
  <2>2. pc \in {"recheck"} \cup Changing \cup Undoing
    BY DEF Mutating
  <2> QED
    BY <2>1, <2>2 DEF InstallInv, Secured, SavedAgrees
<1> QED
  BY <1>1, InstallInvariant, PTL

(* No step of anyone leaves printer.cfg with an include of a missing file, *)
(* but a rollback that could not write printer.cfg back.                   *)
THEOREM IncludesStayResolved == Spec => IncludesResolve
<1>1. InstallInv /\ [Next]_vars =>
          [Resolves(disk) /\ ~Resolves(disk') => "printer.cfg" \in errors]_vars
  BY StepsResolve
<1> QED
  BY <1>1, InstallInvariant, PTL DEF Spec, IncludesResolve
=============================================================================
