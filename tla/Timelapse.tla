----------------------------- MODULE Timelapse -----------------------------
(***************************************************************************)
(* The timelapse component, mainline/moonraker/t300_timelapse.py.          *)
(*                                                                         *)
(* It runs on Moonraker's event loop: an action is what happens between    *)
(* two awaits.  A frame request comes once a layer, waits out the stream   *)
(* delay and fetches a snapshot; a render awaits FFmpeg and ffprobe.       *)
(* Prints start and end at any of those awaits, through the upstream       *)
(* component: a started print calls cleanup(), a finished one schedules a  *)
(* render.  The USB stick can fill up, disappear, come back or turn        *)
(* read-only, and Moonraker restarts while the printer goes on printing.   *)
(*                                                                         *)
(* A frame is <<print, number>>, unique; a file in the frame directory has *)
(* the name of its number in the sequence only.                            *)
(***************************************************************************)
EXTENDS Naturals, FiniteSets, Sequences, Functions, SequencesExt

CONSTANTS
    maximum_frames,   \* the configured limit
    MaxPrints,        \* bound: prints started
    MaxShots,         \* bound: frames requested
    MaxUSBEvents,     \* bound: changes of the state of the stick
    MaxRequests,      \* bound: render requests by a client
    MaxRestarts       \* bound: restarts of Moonraker

ASSUME LimitAssumption == maximum_frames \in Nat \ {0}

VARIABLES
    config,           \* [enabled, autorender]
    takingframe, framecount, printing, renderisrunning,
    job,              \* the printer prints a file
    directory,        \* the frame directory: file number -> frame
    retained,         \* frames moved under retained/
    delayed,          \* frame requests waiting out the stream delay
    fetching,         \* newframe() calls awaiting the camera
    scheduled,        \* a render the end of a print scheduled
    render,           \* the running render()
    stuck,            \* the render flag stays set: a partial video could not be removed
    usb,              \* "ready", "full", "gone" or "readonly"
    saved,            \* ghost: frames in a verified video
    taken,            \* ghost: frames ever written
    overlapped,       \* ghost: a print has started during a render
    prints, shots, usbEvents, requests, restarts

vars == <<config, takingframe, framecount, printing, renderisrunning, job, directory,
          retained, delayed, fetching, scheduled, render, stuck, usb, saved, taken,
          overlapped, prints, shots, usbEvents, requests, restarts>>

counters == <<prints, shots, usbEvents, requests, restarts>>
frameVars == <<directory, retained, stuck, saved, taken>>
shotVars == <<takingframe, delayed, fetching>>

NoRender == [pc |-> "none", frames |-> {}, input |-> {}, next |-> 1, partial |-> FALSE]
NoFrames == [i \in {} |-> <<0, 0>>]

\* _paths_are_beneath_mount, and _storage_ready with room for a frame: a
\* stick that has turned read-only still looks ready.
Mounted == usb # "gone"
StorageReady == usb \in {"ready", "readonly"}

\* The files glob and scandir find.
Visible == IF Mounted THEN DOMAIN directory ELSE {}

\* A variant that leaves the component enabled.
DisableRendering ==
    /\ config' = [config EXCEPT !.autorender = FALSE]
    /\ takingframe' = FALSE

\* _disable_storage: nothing enables the component again.
DisableStorage ==
    /\ config' = [enabled |-> FALSE, autorender |-> FALSE]
    /\ takingframe' = FALSE

Init ==
    /\ config = [enabled |-> TRUE, autorender |-> TRUE]
    /\ takingframe = FALSE /\ framecount = 0
    /\ printing = FALSE /\ renderisrunning = FALSE /\ job = FALSE
    /\ directory = NoFrames /\ retained = {} /\ stuck = FALSE
    /\ delayed = 0 /\ fetching = 0 /\ scheduled = FALSE
    /\ render = NoRender
    /\ usb = "ready"
    /\ saved = {} /\ taken = {} /\ overlapped = FALSE
    /\ prints = 0 /\ shots = 0 /\ usbEvents = 0 /\ requests = 0 /\ restarts = 0

(***************************************************************************)
(* Frames.                                                                 *)
(***************************************************************************)
\* The sliced file asks for a frame at each layer of a print.
call_newframe ==
    /\ job /\ shots < MaxShots /\ shots' = shots + 1
    /\ config.enabled /\ ~takingframe
    /\ IF framecount >= maximum_frames \/ ~StorageReady
       THEN DisableStorage /\ UNCHANGED delayed
       ELSE takingframe' = TRUE /\ delayed' = delayed + 1 /\ UNCHANGED config
    /\ UNCHANGED <<framecount, printing, renderisrunning, job, fetching, scheduled, render,
                   usb, frameVars, overlapped, prints, usbEvents, requests, restarts>>

\* newframe() up to its await.
newframe ==
    /\ delayed > 0 /\ delayed' = delayed - 1
    /\ IF framecount >= maximum_frames \/ ~StorageReady
       THEN DisableStorage /\ UNCHANGED fetching
       ELSE fetching' = fetching + 1 /\ UNCHANGED <<config, takingframe>>
    /\ UNCHANGED <<framecount, printing, renderisrunning, job, scheduled, render, usb,
                   frameVars, overlapped, counters>>

\* A variant of _write_atomic that replaces the file.
CanReplace(n) == usb = "ready"

\* _write_atomic refuses a name that is taken, and fails on a stick that
\* cannot be written.
CanWrite(n) == usb = "ready" /\ n \notin DOMAIN directory

\* newframe() after the camera answered: no usable picture, no room, or one
\* more file.
newframe_fetched ==
    /\ fetching > 0 /\ fetching' = fetching - 1
    /\ takingframe' = FALSE
    /\ LET n == framecount + 1
           frame == <<prints, Cardinality(taken) + 1>>
       IN \/ UNCHANGED <<config, framecount, frameVars>>
          \/ /\ ~StorageReady
             /\ config' = [enabled |-> FALSE, autorender |-> FALSE]
             /\ UNCHANGED <<framecount, frameVars>>
          \/ /\ StorageReady /\ CanWrite(n)
             /\ directory' = [i \in DOMAIN directory \cup {n} |->
                                 IF i = n THEN frame ELSE directory[i]]
             /\ taken' = taken \cup {frame}
             /\ framecount' = n
             /\ UNCHANGED <<config, retained, stuck, saved>>
    /\ UNCHANGED <<printing, renderisrunning, job, delayed, scheduled, render, usb,
                   overlapped, counters>>

(***************************************************************************)
(* Prints.                                                                 *)
(***************************************************************************)
\* cleanup(): earlier frames are moved out of the way, all of them or, when
\* a move fails, some; without files or room it only starts counting again.
cleanup ==
    IF Visible # {} /\ StorageReady
    THEN \E last \in Visible \cup {0} :
            LET moved == {i \in Visible : i <= last} IN
            /\ usb = "readonly" => moved = {}
            /\ retained' = retained \cup {directory[i] : i \in moved}
            /\ directory' = Restrict(directory, DOMAIN directory \ moved)
            /\ IF moved = Visible
               THEN framecount' = 0 /\ UNCHANGED <<config, takingframe>>
               ELSE DisableStorage /\ UNCHANGED framecount
            /\ UNCHANGED <<stuck, saved, taken>>
    ELSE framecount' = 0 /\ UNCHANGED <<config, takingframe, frameVars>>

\* The upstream component's print events; printing is its own flag, which a
\* restart forgets.
print_started ==
    /\ ~job /\ prints < MaxPrints
    /\ job' = TRUE /\ printing' = TRUE /\ prints' = prints + 1
    /\ overlapped' = (overlapped \/ render.pc # "none")
    /\ cleanup
    /\ UNCHANGED <<renderisrunning, delayed, fetching, scheduled, render, usb,
                   shots, usbEvents, requests, restarts>>

print_ended(done) ==
    /\ job /\ job' = FALSE /\ printing' = FALSE
    /\ scheduled' = (scheduled \/ (done /\ config.enabled /\ config.autorender))
    /\ UNCHANGED <<config, renderisrunning, shotVars, framecount, render, usb,
                   frameVars, overlapped, counters>>

(***************************************************************************)
(* render().                                                               *)
(***************************************************************************)
\* _render_frames: the files are numbered 1, 2, ... and no more than the
\* limit; the stick must be there to be listed.
RenderFrames == Visible
FramesComplete ==
    /\ Mounted /\ RenderFrames = 1..Cardinality(RenderFrames)
    /\ Cardinality(RenderFrames) <= maximum_frames

\* render() up to its first await.
StartRender ==
    IF renderisrunning \/ printing \/ takingframe \/ ~FramesComplete
    THEN UNCHANGED <<config, takingframe, framecount, renderisrunning, render>>
    ELSE /\ framecount' = Cardinality(RenderFrames)
         /\ IF RenderFrames = {}
            THEN UNCHANGED <<config, takingframe, renderisrunning, render>>
            ELSE IF usb = "full"
            THEN DisableStorage /\ UNCHANGED <<renderisrunning, render>>
            ELSE /\ renderisrunning' = TRUE
                 /\ render' = [NoRender EXCEPT !.pc = "query", !.frames = RenderFrames]
                 /\ UNCHANGED <<config, takingframe>>

restOfRender == <<printing, job, delayed, fetching, usb, frameVars, overlapped>>

AutoRender ==
    /\ scheduled /\ scheduled' = FALSE
    /\ StartRender
    /\ UNCHANGED <<restOfRender, counters>>

RequestRender ==
    /\ requests < MaxRequests /\ requests' = requests + 1
    /\ StartRender
    /\ UNCHANGED <<restOfRender, scheduled, prints, shots, usbEvents, restarts>>

\* The finally clause: the partial file goes first, the flag only after it.
\* A file that cannot be removed leaves the flag set: on a read-only stick,
\* and where a stale mount answers with an I/O error.
PartialStuck ==
    IF ~render.partial THEN {FALSE}
    ELSE CASE usb = "readonly" -> {TRUE}
           [] usb = "gone" -> BOOLEAN
           [] OTHER -> {FALSE}

Finally ==
    /\ render' = NoRender
    /\ renderisrunning' \in PartialStuck
    /\ stuck' = (stuck \/ renderisrunning')

renderOnly == <<config, takingframe, framecount, printing, job, delayed, fetching, scheduled,
                directory, retained, usb, saved, taken, overlapped, counters>>

\* A variant that clears the flag only when there is nothing to remove.
RenderFailsEarly ==
    /\ render.pc # "none"
    /\ render' = NoRender /\ renderisrunning' = render.partial
    /\ UNCHANGED <<stuck, renderOnly>>

RenderFails ==
    /\ render.pc # "none"
    /\ Finally
    /\ UNCHANGED renderOnly

\* Below the reserve no frame is taken and no render begun; what a render
\* writes still fits or fails.
Writable == usb \in {"ready", "full"}

\* The print's name is known; the partial file is made.
Queried ==
    /\ render.pc = "query" /\ Writable
    /\ render' = [render EXCEPT !.pc = "encode", !.partial = TRUE]
    /\ UNCHANGED <<renderisrunning, stuck, renderOnly>>

\* FFmpeg takes the next file of the sequence, as it is when it gets there.
EncodeFrame ==
    /\ render.pc = "encode" /\ render.next \in Visible
    /\ render' = [render EXCEPT !.input = @ \cup {directory[render.next]}, !.next = @ + 1]
    /\ UNCHANGED <<renderisrunning, stuck, renderOnly>>

\* A missing file is the end of the sequence: the video is shorter, and good.
\* From here to its end FFmpeg writes only the partial file.
Encoded ==
    /\ render.pc = "encode" /\ render.next \notin Visible /\ render.input # {}
    /\ Writable
    /\ render' = [render EXCEPT !.pc = "probe"]
    /\ UNCHANGED <<renderisrunning, stuck, renderOnly>>

\* ffprobe accepts the partial file and it is renamed.
Probed ==
    /\ render.pc = "probe" /\ Writable
    /\ render' = [render EXCEPT !.pc = "final", !.partial = FALSE]
    /\ UNCHANGED <<renderisrunning, stuck, renderOnly>>

\* ffprobe accepts the renamed file; then, without an await, the frames are
\* removed by the names listed when the render began.  The preview and each
\* removal may fail without failing the render.
Committed ==
    /\ render.pc = "final" /\ Mounted
    /\ saved' = saved \cup render.input
    /\ \E removed \in SUBSET (render.frames \cap DOMAIN directory) :
          /\ usb = "readonly" => removed = {}
          /\ directory' = Restrict(directory, DOMAIN directory \ removed)
    /\ Finally
    /\ UNCHANGED <<config, takingframe, framecount, printing, job, delayed, fetching, scheduled,
                   retained, usb, taken, overlapped, counters>>

(***************************************************************************)
(* The stick.                                                              *)
(***************************************************************************)
USBChanges(state) ==
    /\ usbEvents < MaxUSBEvents /\ usbEvents' = usbEvents + 1
    /\ usb # state /\ usb' = state
    /\ UNCHANGED <<config, shotVars, framecount, printing, renderisrunning, job, scheduled,
                   render, frameVars, overlapped, prints, shots, requests, restarts>>

(***************************************************************************)
(* Moonraker restarts (Restart=on-failure): requests, counts and flags are *)
(* gone, FFmpeg ends with its unit, files stay.  The component loads only  *)
(* with the stick there.                                                   *)
(***************************************************************************)
MoonrakerRestarts ==
    /\ restarts < MaxRestarts /\ restarts' = restarts + 1
    /\ Mounted
    /\ config' = [enabled |-> StorageReady, autorender |-> StorageReady]
    /\ takingframe' = FALSE /\ framecount' = 0
    /\ printing' = FALSE /\ renderisrunning' = FALSE
    /\ delayed' = 0 /\ fetching' = 0 /\ scheduled' = FALSE
    /\ render' = NoRender
    /\ stuck' = FALSE
    /\ UNCHANGED <<job, directory, retained, usb, saved, taken, overlapped,
                   prints, shots, usbEvents, requests>>

Shoot == newframe \/ newframe_fetched
Render == Queried \/ EncodeFrame \/ Encoded \/ Probed \/ Committed \/ RenderFails

Next ==
    \/ call_newframe \/ Shoot
    \/ print_started \/ \E done \in BOOLEAN : print_ended(done)
    \/ AutoRender \/ RequestRender \/ Render
    \/ \E state \in {"ready", "full", "gone", "readonly"} : USBChanges(state)
    \/ MoonrakerRestarts

Spec == Init /\ [][Next]_vars

\* The event loop runs a scheduled callback, the camera request has a
\* timeout, and so have FFmpeg and ffprobe.
FairSpec == Spec /\ WF_vars(Shoot) /\ WF_vars(AutoRender) /\ WF_vars(Render)

----------------------------------------------------------------------------
(***************************************************************************)
(* Properties.                                                             *)
(***************************************************************************)
\* Frames that are nowhere any more: neither in the frame directory, nor
\* retained, nor in a verified video.
Lost == taken \ (Range(directory) \cup retained \cup saved)

\* As long as no print starts while a video is rendered, no frame is lost:
\* not by a stick that comes and goes, a frame that arrives after the next
\* print began, a count that starts again over files that could not be
\* moved, or a render that fails at any point (t300_timelapse.py:581).
FramesAreKept == ~overlapped => Lost = {}

\* Frames are removed only after a video that shows them was verified.
RemovedFramesAreRendered == Lost = {}

\* At most one frame request is under way, although _disable_storage clears
\* takingframe while newframe() awaits the camera (t300_timelapse.py:184).
OneShot == delayed + fetching <= 1

\* The flags that keep a second frame request or a second render out are
\* cleared again, whatever fails (t300_timelapse.py:291,635); the render
\* flag is left behind only with a partial file that could not be removed.
FlagsClear ==
    /\ takingframe ~> ~takingframe
    /\ renderisrunning ~> (~renderisrunning \/ stuck)
=============================================================================
