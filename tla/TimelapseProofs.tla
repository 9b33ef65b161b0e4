-------------------------- MODULE TimelapseProofs --------------------------
(***************************************************************************)
(* Proofs about the timelapse component, for any limit and any number of   *)
(* prints, frames, restarts and changes of the stick.                      *)
(***************************************************************************)
EXTENDS Timelapse, FiniteSetTheorems, TLAPS

Numbers == Nat \ {0}
RenderPoints == {"none", "query", "encode", "probe", "final"}

Counts == framecount \in Nat /\ delayed \in Nat /\ fetching \in Nat
Flags ==
    /\ takingframe \in BOOLEAN /\ renderisrunning \in BOOLEAN
    /\ stuck \in BOOLEAN /\ overlapped \in BOOLEAN
FlagTypes == Flags /\ Counts

(* Every file, and every video, shows frames that were taken.              *)
FileTypes ==
    /\ DOMAIN directory \subseteq Numbers /\ IsFiniteSet(DOMAIN directory)
    /\ directory \in [DOMAIN directory -> taken]

RenderTypes ==
    render \in [pc : RenderPoints, frames : SUBSET Numbers, input : SUBSET taken,
                next : Numbers, partial : BOOLEAN]

TypeOK == FlagTypes /\ FileTypes /\ RenderTypes

(* takingframe belongs to the one request under way; it may be clear       *)
(* during a request only when the component is disabled.                   *)
RequestOwned ==
    /\ OneShot
    /\ takingframe => delayed + fetching = 1
    /\ config.enabled /\ delayed + fetching = 1 => takingframe

(* The render flag belongs to the running render or to a partial file that *)
(* could not be removed, and never to both.                                *)
RenderOwned ==
    /\ renderisrunning <=> (render.pc # "none" \/ stuck)
    /\ stuck => render.pc = "none"

(* FFmpeg reads the files in order and the render knows them by name: what *)
(* it has passed is in the video, and from ffprobe on that is everything   *)
(* it is going to remove.                                                  *)
RenderSees ==
    render.pc # "none" /\ ~overlapped =>
        /\ render.frames \subseteq DOMAIN directory
        /\ \A i \in render.frames : \A j \in 1..i : j \in render.frames
        /\ \A i \in render.frames : i < render.next => directory[i] \in render.input
        /\ render.pc \in {"probe", "final"} => \A i \in render.frames : i < render.next

TimelapseInv == TypeOK /\ RequestOwned /\ RenderOwned /\ RenderSees /\ FramesAreKept

USE DEF Numbers, RenderPoints

-----------------------------------------------------------------------------
LEMMA InitTimelapse == Init => TimelapseInv
<1> SUFFICES ASSUME Init PROVE TimelapseInv
  OBVIOUS
<1>1. DOMAIN directory = {} /\ taken = {}
  BY DEF Init, NoFrames
<1>2. FlagTypes
  BY DEF Init, FlagTypes, Flags, Counts
<1>3. FileTypes
  BY <1>1, FS_EmptySet DEF Init, FileTypes, NoFrames
<1>4. RenderTypes
  BY DEF Init, RenderTypes, NoRender
<1> QED
  BY <1>1, <1>2, <1>3, <1>4 DEF TypeOK, Init, TimelapseInv, RequestOwned, OneShot, RenderOwned, RenderSees,
     FramesAreKept, Lost, NoRender

(* A render that is not told of anything goes on seeing what it saw when   *)
(* files are added and none is touched.                                    *)
LEMMA FilesAdded ==
    ASSUME TimelapseInv, UNCHANGED <<render, overlapped>>,
           DOMAIN directory \subseteq DOMAIN directory',
           \A i \in DOMAIN directory : directory'[i] = directory[i]
    PROVE  RenderSees'
  BY DEF TimelapseInv, RenderSees

(* Steps that leave the files and the render alone.                        *)
LEMMA TypesUntouched ==
    ASSUME TimelapseInv, UNCHANGED <<directory, taken>>
    PROVE  FileTypes' /\ (UNCHANGED render => RenderTypes')
<1>1. FileTypes /\ RenderTypes
  BY DEF TimelapseInv, TypeOK
<1>2. FileTypes'
  BY <1>1 DEF FileTypes
<1>3. UNCHANGED render => RenderTypes'
  BY <1>1 DEF RenderTypes
<1> QED
  BY <1>2, <1>3

LEMMA FilesUntouched ==
    ASSUME TimelapseInv, UNCHANGED <<frameVars, render, renderisrunning, overlapped>>, FlagTypes'
    PROVE  (TypeOK /\ RenderOwned /\ RenderSees /\ FramesAreKept)'
<1>1. (RenderOwned /\ RenderSees /\ FramesAreKept)'
  BY DEF TimelapseInv, frameVars, RenderOwned, RenderSees, FramesAreKept, Lost, Range
<1>2. TypeOK'
  BY TypesUntouched DEF frameVars, TypeOK
<1> QED
  BY <1>1, <1>2

-----------------------------------------------------------------------------
(* Frames.                                                                 *)
LEMMA CallStep == ASSUME TimelapseInv, call_newframe PROVE TimelapseInv'
<1>1. UNCHANGED <<frameVars, framecount, fetching, render, renderisrunning, overlapped>>
  BY DEF call_newframe
<1>2. FlagTypes'
  <2>1. Flags'
    BY <1>1 DEF TimelapseInv, TypeOK, FlagTypes, Flags, frameVars, call_newframe, DisableStorage
  <2>2. Counts'
    BY <1>1 DEF TimelapseInv, TypeOK, FlagTypes, Counts, call_newframe
  <2> QED
    BY <2>1, <2>2 DEF FlagTypes
<1>3. RequestOwned'
  BY <1>1 DEF TimelapseInv, TypeOK, FlagTypes, Flags, Counts, RequestOwned, OneShot, call_newframe, DisableStorage
<1> QED
  BY <1>1, <1>2, <1>3, FilesUntouched DEF TimelapseInv

LEMMA NewframeStep == ASSUME TimelapseInv, newframe PROVE TimelapseInv'
<1>1. UNCHANGED <<frameVars, framecount, render, renderisrunning, overlapped>>
  BY DEF newframe
<1>2. FlagTypes'
  <2>1. Flags'
    BY <1>1 DEF TimelapseInv, TypeOK, FlagTypes, Flags, frameVars, newframe, DisableStorage
  <2>2. Counts'
    BY <1>1 DEF TimelapseInv, TypeOK, FlagTypes, Counts, newframe
  <2> QED
    BY <2>1, <2>2 DEF FlagTypes
<1>3. RequestOwned'
  BY <1>1 DEF TimelapseInv, TypeOK, FlagTypes, Flags, Counts, RequestOwned, OneShot, newframe, DisableStorage
<1> QED
  BY <1>1, <1>2, <1>3, FilesUntouched DEF TimelapseInv

LEMMA FetchedStep == ASSUME TimelapseInv, newframe_fetched PROVE TimelapseInv'
<1>1. UNCHANGED <<render, renderisrunning, overlapped, delayed, stuck, retained, saved>>
  BY DEF newframe_fetched, frameVars
<1>2. RequestOwned'
  BY <1>1 DEF TimelapseInv, TypeOK, FlagTypes, Flags, Counts, RequestOwned, OneShot, newframe_fetched
<1>3. CASE UNCHANGED frameVars
  <2>1. FlagTypes'
    <3>1. Flags'
      BY <1>1 DEF TimelapseInv, TypeOK, FlagTypes, Flags, newframe_fetched
    <3>2. framecount' \in {framecount, framecount + 1} /\ fetching' = fetching - 1 /\ fetching > 0
      BY DEF newframe_fetched
    <3>3. Counts'
      BY <1>1, <3>2 DEF TimelapseInv, TypeOK, FlagTypes, Counts
    <3> QED
      BY <3>1, <3>3 DEF FlagTypes
  <2> QED
    BY <1>1, <1>2, <1>3, <2>1, FilesUntouched DEF TimelapseInv
<1>4. CASE ~UNCHANGED frameVars
  <2> DEFINE n == framecount + 1
             frame == <<prints, Cardinality(taken) + 1>>
  <2>1. /\ n \notin DOMAIN directory
        /\ directory' = [i \in DOMAIN directory \cup {n} |-> IF i = n THEN frame ELSE directory[i]]
        /\ taken' = taken \cup {frame} /\ framecount' = n /\ config' = config
        /\ fetching' = fetching - 1 /\ fetching > 0 /\ takingframe' = FALSE
    BY <1>4 DEF newframe_fetched, CanWrite
  <2>2. DOMAIN directory' = DOMAIN directory \cup {n}
    BY <2>1
  <2>3. n \in Numbers
    BY DEF TimelapseInv, TypeOK, FlagTypes, Flags, Counts
  <2>4. IsFiniteSet(DOMAIN directory')
    BY <2>2, FS_AddElement DEF TimelapseInv, TypeOK, FileTypes
  <2>5. directory'[n] = frame /\ \A i \in DOMAIN directory : directory'[i] = directory[i]
    BY <2>1
  <2> HIDE DEF n, frame
  <2>6. directory' \in [DOMAIN directory' -> taken']
    BY <2>1 DEF TimelapseInv, TypeOK, FileTypes
  <2>7. FileTypes'
    BY <2>2, <2>3, <2>4, <2>6 DEF TimelapseInv, TypeOK, FileTypes
  <2>8. RenderTypes' /\ FlagTypes'
    <3>1. RenderTypes'
      BY <1>1, <2>1 DEF TimelapseInv, TypeOK, RenderTypes
    <3>2. FlagTypes'
      <4>1. Flags'
        BY <1>1, <2>1 DEF TimelapseInv, TypeOK, FlagTypes, Flags
      <4>2. Counts'
        BY <1>1, <2>1, <2>3 DEF TimelapseInv, TypeOK, FlagTypes, Counts
      <4> QED
        BY <4>1, <4>2 DEF FlagTypes
    <3> QED
      BY <3>1, <3>2
  <2>9. FramesAreKept'
    BY <1>1, <2>1, <2>2, <2>5 DEF TimelapseInv, FramesAreKept, Lost, Range
  <2>10. RenderSees'
    BY <1>1, <2>2, <2>5, FilesAdded
  <2>11. RenderOwned'
    BY <1>1 DEF TimelapseInv, RenderOwned
  <2> QED
    BY <1>2, <2>7, <2>8, <2>9, <2>10, <2>11 DEF TimelapseInv, TypeOK
<1> QED
  BY <1>3, <1>4

-----------------------------------------------------------------------------
(* Prints.                                                                 *)
LEMMA PrintStartedStep == ASSUME TimelapseInv, print_started PROVE TimelapseInv'
<1>1. UNCHANGED <<render, renderisrunning, stuck, delayed, fetching, saved, taken>>
  BY DEF print_started, cleanup, frameVars
<1>2. overlapped' = (overlapped \/ render.pc # "none")
  BY DEF print_started
<1>3. (config' = config /\ takingframe' = takingframe) \/ DisableStorage
  BY DEF print_started, cleanup
<1>4. FlagTypes' /\ RenderTypes'
  <2>1. framecount' \in {framecount, 0}
    BY DEF print_started, cleanup
  <2>2. FlagTypes'
    <3>1. Flags'
      BY <1>1, <1>2, <1>3 DEF TimelapseInv, TypeOK, FlagTypes, Flags, DisableStorage
    <3>2. Counts'
      BY <1>1, <2>1 DEF TimelapseInv, TypeOK, FlagTypes, Counts
    <3> QED
      BY <3>1, <3>2 DEF FlagTypes
  <2>3. RenderTypes'
    BY <1>1 DEF TimelapseInv, TypeOK, RenderTypes
  <2> QED
    BY <2>2, <2>3
<1>5. RequestOwned'
  BY <1>1, <1>3 DEF TimelapseInv, RequestOwned, OneShot, DisableStorage
<1>6. RenderOwned' /\ RenderSees'
  BY <1>1, <1>2 DEF TimelapseInv, TypeOK, FlagTypes, Flags, Counts, RenderOwned, RenderSees
<1>7. CASE UNCHANGED <<directory, retained>>
  <2>1. TypeOK'
    BY <1>1, <1>4, <1>7, TypesUntouched DEF TypeOK
  <2>2. FramesAreKept'
    BY <1>1, <1>2, <1>7 DEF TimelapseInv, TypeOK, FlagTypes, Flags, Counts, FramesAreKept, Lost, Range
  <2> QED
    BY <1>5, <1>6, <2>1, <2>2 DEF TimelapseInv
<1>8. CASE ~UNCHANGED <<directory, retained>>
  <2>1. PICK moved \in SUBSET DOMAIN directory :
           /\ retained' = retained \cup {directory[i] : i \in moved}
           /\ directory' = [i \in DOMAIN directory \ moved |-> directory[i]]
    <3>1. PICK last \in Visible \cup {0} :
             LET moved == {i \in Visible : i <= last} IN
             /\ retained' = retained \cup {directory[i] : i \in moved}
             /\ directory' = Restrict(directory, DOMAIN directory \ moved)
      BY <1>8 DEF print_started, cleanup, frameVars
    <3>2. {i \in Visible : i <= last} \in SUBSET DOMAIN directory
      BY DEF Visible
    <3> QED
      BY <3>1, <3>2 DEF Restrict
  <2>2. DOMAIN directory' = DOMAIN directory \ moved
    BY <2>1
  <2>3. \A i \in DOMAIN directory \ moved : directory'[i] = directory[i]
    BY <2>1
  <2>4. IsFiniteSet(DOMAIN directory')
    BY <2>2, FS_Subset DEF TimelapseInv, TypeOK, FileTypes
  <2>5. directory' \in [DOMAIN directory' -> taken']
    BY <1>1, <2>1 DEF TimelapseInv, TypeOK, FileTypes
  <2>6. TypeOK'
    BY <1>4, <2>2, <2>4, <2>5 DEF TimelapseInv, TypeOK, FileTypes
  <2>7. FramesAreKept'
    BY <1>1, <1>2, <2>1, <2>2, <2>3 DEF TimelapseInv, TypeOK, FlagTypes, Flags, Counts, FramesAreKept, Lost, Range
  <2> QED
    BY <1>5, <1>6, <2>6, <2>7 DEF TimelapseInv
<1> QED
  BY <1>7, <1>8

LEMMA PrintEndedStep ==
    ASSUME TimelapseInv, NEW done \in BOOLEAN, print_ended(done) PROVE TimelapseInv'
<1>1. UNCHANGED <<config, takingframe, delayed, fetching, framecount>>
  BY DEF print_ended, shotVars
<1>2. UNCHANGED <<frameVars, render, renderisrunning, overlapped>>
  BY DEF print_ended
<1>3. FlagTypes' /\ RequestOwned'
  BY <1>1, <1>2 DEF TimelapseInv, TypeOK, FlagTypes, Flags, Counts, RequestOwned, OneShot, frameVars
<1> QED
  BY <1>2, <1>3, FilesUntouched DEF TimelapseInv

-----------------------------------------------------------------------------
(* render().                                                               *)

(* The files it lists are 1, 2, ... and there is no gap.                   *)
LEMMA ListedWithoutGap ==
    ASSUME TypeOK, FramesComplete
    PROVE  /\ RenderFrames = DOMAIN directory /\ Cardinality(RenderFrames) \in Nat
           /\ \A i \in RenderFrames : \A j \in 1..i : j \in RenderFrames
<1>1. RenderFrames = DOMAIN directory
  BY DEF FramesComplete, RenderFrames, Visible
<1>2. Cardinality(RenderFrames) \in Nat
  BY <1>1, FS_CardinalityType DEF TypeOK, FileTypes
<1>3. RenderFrames = 1..Cardinality(RenderFrames)
  BY DEF FramesComplete
<1> HIDE DEF RenderFrames
<1>4. \A i \in RenderFrames : \A j \in 1..i : j \in RenderFrames
  BY <1>2, <1>3
<1> QED
  BY <1>1, <1>2, <1>4

LEMMA StartStep ==
    ASSUME TimelapseInv, StartRender, UNCHANGED restOfRender
    PROVE  TimelapseInv'
<1>1. UNCHANGED <<frameVars, delayed, fetching, overlapped>>
  BY DEF restOfRender
<1>2. FramesAreKept'
  BY <1>1 DEF TimelapseInv, frameVars, FramesAreKept, Lost, Range
<1>3. CASE UNCHANGED <<config, takingframe, framecount, renderisrunning, render>>
  <2>1. FlagTypes' /\ RequestOwned'
    BY <1>1, <1>3 DEF TimelapseInv, TypeOK, FlagTypes, Flags, Counts, RequestOwned, OneShot, frameVars
  <2> QED
    BY <1>1, <1>3, <2>1, FilesUntouched DEF TimelapseInv
<1>4. CASE /\ ~renderisrunning /\ ~takingframe /\ FramesComplete
           /\ framecount' = Cardinality(RenderFrames)
           /\ UNCHANGED <<renderisrunning, render>>
           /\ UNCHANGED <<config, takingframe>> \/ DisableStorage
  <2>1. framecount' \in Nat
    BY <1>4, ListedWithoutGap DEF TimelapseInv
  <2>2. FlagTypes'
    BY <1>1, <1>4, <2>1 DEF TimelapseInv, TypeOK, FlagTypes, Flags, Counts, frameVars, DisableStorage
  <2>3. RequestOwned'
    BY <1>1, <1>4 DEF TimelapseInv, TypeOK, FlagTypes, Flags, Counts, RequestOwned, OneShot, frameVars, DisableStorage
  <2> QED
    BY <1>1, <1>4, <2>2, <2>3, FilesUntouched DEF TimelapseInv
<1>5. CASE /\ ~renderisrunning /\ ~takingframe /\ FramesComplete
           /\ framecount' = Cardinality(RenderFrames)
           /\ renderisrunning' = TRUE
           /\ render' = [NoRender EXCEPT !.pc = "query", !.frames = RenderFrames]
           /\ UNCHANGED <<config, takingframe>>
  <2>1. /\ RenderFrames = DOMAIN directory /\ Cardinality(RenderFrames) \in Nat
        /\ \A i \in RenderFrames : \A j \in 1..i : j \in RenderFrames
    BY <1>5, ListedWithoutGap DEF TimelapseInv
  <2>2. render' = [pc |-> "query", frames |-> DOMAIN directory, input |-> {}, next |-> 1,
                   partial |-> FALSE]
    BY <1>5, <2>1 DEF NoRender
  <2>3. TypeOK' /\ RequestOwned'
    <3>1. FlagTypes' /\ RequestOwned'
      BY <1>1, <1>5, <2>1 DEF TimelapseInv, TypeOK, FlagTypes, Flags, Counts, RequestOwned, OneShot, frameVars
    <3>2. FileTypes'
      BY <1>1, TypesUntouched DEF frameVars
    <3>3. DOMAIN directory \subseteq Numbers
      BY DEF TimelapseInv, TypeOK, FileTypes
    <3>4. RenderTypes'
      BY <2>2, <3>3 DEF RenderTypes
    <3> QED
      BY <3>1, <3>2, <3>4 DEF TypeOK
  <2>4. RenderOwned'
    BY <1>1, <1>5, <2>2 DEF TimelapseInv, RenderOwned, frameVars
  <2>5. RenderSees'
    BY <1>1, <2>1, <2>2 DEF TimelapseInv, TypeOK, FileTypes, RenderSees, frameVars
  <2> QED
    BY <1>2, <2>3, <2>4, <2>5 DEF TimelapseInv
<1> QED
  BY <1>3, <1>4, <1>5 DEF StartRender

LEMMA StuckTypes ==
    ASSUME FlagTypes, Finally
    PROVE  renderisrunning' \in BOOLEAN /\ stuck' \in BOOLEAN
<1>1. PartialStuck \subseteq BOOLEAN
  BY DEF PartialStuck
<1>2. stuck' = (stuck \/ renderisrunning')
  BY DEF Finally
<1>3. stuck' \in BOOLEAN
  BY <1>2, Zenon
<1> QED
  BY <1>1, <1>3 DEF Finally

(* A render that ends keeps nothing but, perhaps, its flag.                *)
LEMMA RenderEnds ==
    ASSUME TimelapseInv, render.pc # "none", Finally
    PROVE  RenderOwned' /\ RenderSees'
<1>1. render'.pc = "none" /\ ~stuck
  BY DEF Finally, NoRender, TimelapseInv, RenderOwned
<1> QED
  BY <1>1 DEF Finally, PartialStuck, TimelapseInv, TypeOK, FlagTypes, Flags, Counts, RenderTypes, RenderOwned, RenderSees

LEMMA FailsStep == ASSUME TimelapseInv, RenderFails PROVE TimelapseInv'
<1>1. UNCHANGED <<config, takingframe, framecount, delayed, fetching, directory, retained,
                  saved, taken, overlapped>>
  BY DEF RenderFails, renderOnly
<1>2. TypeOK' /\ RequestOwned'
  <2>1. RequestOwned' /\ FileTypes'
    BY <1>1, TypesUntouched DEF TimelapseInv, RequestOwned, OneShot
  <2>2. FlagTypes' /\ RenderTypes'
    BY <1>1, StuckTypes DEF TimelapseInv, TypeOK, FlagTypes, Flags, Counts, RenderTypes, RenderFails, Finally, NoRender
  <2> QED
    BY <2>1, <2>2 DEF TypeOK
<1>3. FramesAreKept'
  BY <1>1 DEF TimelapseInv, FramesAreKept, Lost, Range
<1> QED
  BY <1>2, <1>3, RenderEnds DEF TimelapseInv, RenderFails

LEMMA ProgressStep ==
    ASSUME TimelapseInv, Queried \/ EncodeFrame \/ Encoded \/ Probed
    PROVE  TimelapseInv'
<1>1. UNCHANGED <<config, takingframe, framecount, delayed, fetching, directory, retained,
                  saved, taken, overlapped, renderisrunning, stuck>>
  BY DEF Queried, EncodeFrame, Encoded, Probed, renderOnly
<1>2. RequestOwned' /\ FramesAreKept' /\ FlagTypes' /\ FileTypes'
  <2>1. RequestOwned' /\ FramesAreKept'
    BY <1>1 DEF TimelapseInv, RequestOwned, OneShot, FramesAreKept, Lost, Range
  <2>2. FlagTypes'
    BY <1>1 DEF TimelapseInv, TypeOK, FlagTypes, Flags, Counts
  <2> QED
    BY <1>1, <2>1, <2>2, TypesUntouched
<1>3. CASE Queried
  <2>1. render' = [render EXCEPT !.pc = "encode", !.partial = TRUE] /\ render.pc = "query"
    BY <1>3 DEF Queried
  <2> QED
    BY <1>1, <1>2, <2>1 DEF TimelapseInv, TypeOK, RenderTypes, RenderOwned, RenderSees
<1>4. CASE EncodeFrame
  <2>1. /\ render.pc = "encode" /\ render.next \in DOMAIN directory
        /\ render' = [render EXCEPT !.input = @ \cup {directory[render.next]}, !.next = @ + 1]
    BY <1>4 DEF EncodeFrame, Visible
  <2>2. RenderTypes'
    <3>1. directory[render.next] \in taken
      BY <2>1 DEF TimelapseInv, TypeOK, FileTypes
    <3>2. render.next + 1 \in Numbers
      BY DEF TimelapseInv, TypeOK, RenderTypes
    <3> QED
      BY <1>1, <2>1, <3>1, <3>2 DEF TimelapseInv, TypeOK, RenderTypes
  <2>3. RenderSees'
    BY <1>1, <2>1 DEF TimelapseInv, TypeOK, RenderTypes, FileTypes, RenderSees
  <2>4. RenderOwned'
    BY <1>1, <2>1 DEF TimelapseInv, TypeOK, RenderTypes, RenderOwned
  <2> QED
    BY <1>2, <2>2, <2>3, <2>4 DEF TimelapseInv, TypeOK
<1>5. CASE Encoded
  <2>1. /\ render.pc = "encode" /\ render.next \notin DOMAIN directory
        /\ render' = [render EXCEPT !.pc = "probe"]
    BY <1>5 DEF Encoded, Visible, Mounted, Writable
  <2>2. RenderTypes' /\ RenderOwned'
    BY <1>1, <2>1 DEF TimelapseInv, TypeOK, RenderTypes, FileTypes, RenderOwned
  <2>3. ASSUME ~overlapped, NEW i \in render.frames PROVE i < render.next
    <3>1. render.next \notin render.frames /\ \A j \in 1..i : j \in render.frames
      BY <2>1, <2>3 DEF TimelapseInv, RenderSees
    <3> QED
      BY <3>1 DEF TimelapseInv, TypeOK, RenderTypes, FileTypes
  <2>4. RenderSees'
    BY <1>1, <2>1, <2>3 DEF TimelapseInv, TypeOK, RenderTypes, FileTypes, RenderSees
  <2> QED
    BY <1>2, <2>2, <2>4 DEF TimelapseInv, TypeOK
<1>6. CASE Probed
  <2>1. render' = [render EXCEPT !.pc = "final", !.partial = FALSE] /\ render.pc = "probe"
    BY <1>6 DEF Probed
  <2> QED
    BY <1>1, <1>2, <2>1 DEF TimelapseInv, TypeOK, RenderTypes, RenderOwned, RenderSees
<1> QED
  BY <1>3, <1>4, <1>5, <1>6

LEMMA CommittedStep == ASSUME TimelapseInv, Committed PROVE TimelapseInv'
<1>1. UNCHANGED <<config, takingframe, framecount, delayed, fetching, retained, taken, overlapped>>
  BY DEF Committed
<1>2. PICK removed \in SUBSET (render.frames \cap DOMAIN directory) :
         directory' = [i \in DOMAIN directory \ removed |-> directory[i]]
  BY DEF Committed, Restrict
<1>3. saved' = saved \cup render.input /\ Finally /\ render.pc = "final"
  BY DEF Committed
<1>4. DOMAIN directory' = DOMAIN directory \ removed
  BY <1>2
<1>5. IsFiniteSet(DOMAIN directory')
  BY <1>4, FS_Subset DEF TimelapseInv, TypeOK, FileTypes
<1>6. \A i \in DOMAIN directory \ removed : directory'[i] = directory[i]
  BY <1>2
<1>7. directory' \in [DOMAIN directory' -> taken']
  BY <1>1, <1>2 DEF TimelapseInv, TypeOK, FileTypes
<1>8. TypeOK' /\ RequestOwned'
  <2>1. FileTypes'
    BY <1>4, <1>5, <1>7 DEF TimelapseInv, TypeOK, FileTypes
  <2>2. FlagTypes' /\ RenderTypes'
    BY <1>1, <1>3, StuckTypes DEF TimelapseInv, TypeOK, FlagTypes, Flags, Counts, RenderTypes, Finally, NoRender
  <2> QED
    BY <1>1, <2>1, <2>2 DEF TimelapseInv, TypeOK, RequestOwned, OneShot
<1>9. ~overlapped => \A i \in removed : directory[i] \in saved'
  BY <1>3 DEF TimelapseInv, RenderSees
<1>10. FramesAreKept'
  BY <1>1, <1>3, <1>4, <1>6, <1>9 DEF TimelapseInv, FramesAreKept, Lost, Range
<1> QED
  BY <1>3, <1>8, <1>10, RenderEnds DEF TimelapseInv

-----------------------------------------------------------------------------
(* The stick, and a restart.                                               *)
LEMMA USBStep ==
    ASSUME TimelapseInv, NEW state, USBChanges(state) PROVE TimelapseInv'
<1>1. UNCHANGED <<config, takingframe, delayed, fetching, framecount>>
  BY DEF USBChanges, shotVars
<1>2. UNCHANGED <<frameVars, render, renderisrunning, overlapped>>
  BY DEF USBChanges
<1>3. FlagTypes' /\ RequestOwned'
  BY <1>1, <1>2 DEF TimelapseInv, TypeOK, FlagTypes, Flags, Counts, RequestOwned, OneShot, frameVars
<1> QED
  BY <1>2, <1>3, FilesUntouched DEF TimelapseInv

LEMMA RestartStep == ASSUME TimelapseInv, MoonrakerRestarts PROVE TimelapseInv'
<1>1. UNCHANGED <<directory, retained, saved, taken, overlapped>>
  BY DEF MoonrakerRestarts
<1>2. TypeOK' /\ RequestOwned'
  <2>1. FileTypes'
    BY <1>1, TypesUntouched
  <2>2. FlagTypes'
    BY <1>1 DEF TimelapseInv, TypeOK, FlagTypes, Flags, Counts, MoonrakerRestarts, StorageReady
  <2>3. RenderTypes' /\ RequestOwned'
    BY DEF RenderTypes, RequestOwned, OneShot, MoonrakerRestarts, NoRender
  <2> QED
    BY <2>1, <2>2, <2>3 DEF TypeOK
<1>3. RenderOwned' /\ RenderSees'
  BY DEF MoonrakerRestarts, NoRender, RenderOwned, RenderSees
<1>4. FramesAreKept'
  BY <1>1 DEF TimelapseInv, FramesAreKept, Lost, Range
<1> QED
  BY <1>2, <1>3, <1>4 DEF TimelapseInv

LEMMA StutterStep == ASSUME TimelapseInv, UNCHANGED vars PROVE TimelapseInv'
<1>1. UNCHANGED <<config, takingframe, delayed, fetching, framecount>>
  BY DEF vars
<1>2. UNCHANGED <<frameVars, render, renderisrunning, overlapped>>
  BY DEF vars, frameVars
<1>3. FlagTypes' /\ RequestOwned'
  BY <1>1, <1>2 DEF TimelapseInv, TypeOK, FlagTypes, Flags, Counts, RequestOwned, OneShot, frameVars
<1> QED
  BY <1>2, <1>3, FilesUntouched DEF TimelapseInv

LEMMA NextTimelapse == TimelapseInv /\ [Next]_vars => TimelapseInv'
<1> SUFFICES ASSUME TimelapseInv, [Next]_vars PROVE TimelapseInv'
  OBVIOUS
<1>1. CASE call_newframe
  BY <1>1, CallStep
<1>2. CASE Shoot
  BY <1>2, NewframeStep, FetchedStep DEF Shoot
<1>3. CASE print_started
  BY <1>3, PrintStartedStep
<1>4. CASE \E done \in BOOLEAN : print_ended(done)
  BY <1>4, PrintEndedStep
<1>5. CASE AutoRender \/ RequestRender
  BY <1>5, StartStep DEF AutoRender, RequestRender
<1>6. CASE Render
  BY <1>6, ProgressStep, CommittedStep, FailsStep DEF Render
<1>7. CASE \E state \in {"ready", "full", "gone", "readonly"} : USBChanges(state)
  BY <1>7, USBStep
<1>8. CASE MoonrakerRestarts
  BY <1>8, RestartStep
<1>9. CASE UNCHANGED vars
  BY <1>9, StutterStep
<1> QED
  BY <1>1, <1>2, <1>3, <1>4, <1>5, <1>6, <1>7, <1>8, <1>9 DEF Next

-----------------------------------------------------------------------------
(* The parts of the invariant hold of the component in every state.        *)
THEOREM TimelapseInvariant == Spec => []TimelapseInv
  BY InitTimelapse, NextTimelapse, PTL DEF Spec

(* No frame is lost as long as no print starts during a render: whatever   *)
(* the stick, the camera, FFmpeg and restarts of Moonraker do.             *)
THEOREM NoFrameIsLost == Spec => []FramesAreKept
<1>1. TimelapseInv => FramesAreKept
  BY DEF TimelapseInv
<1> QED
  BY <1>1, TimelapseInvariant, PTL

(* Two frame requests are never under way together.                        *)
THEOREM OneRequestAtATime == Spec => []OneShot
<1>1. TimelapseInv => OneShot
  BY DEF TimelapseInv, RequestOwned
<1> QED
  BY <1>1, TimelapseInvariant, PTL

(* The flags that keep a second request or render out are never left set   *)
(* with nothing to clear them: a request under way, a running render, or a *)
(* partial file that could not be removed.                                 *)
THEOREM FlagsHaveOwners == Spec => [](RequestOwned /\ RenderOwned)
<1>1. TimelapseInv => RequestOwned /\ RenderOwned
  BY DEF TimelapseInv
<1> QED
  BY <1>1, TimelapseInvariant, PTL
=============================================================================
