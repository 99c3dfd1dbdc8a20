------------------------------ MODULE DxgiProbe ------------------------------
(***************************************************************************)
(* The desktop-duplication probe, src/dxgi_probe/src/main.rs: run() and the *)
(* four functions that take things from Windows.  Each takes one thing      *)
(* after the other, may return after any of them, and leaves it to the drop *)
(* order of its guards to give everything back in reverse.                  *)
(*                                                                          *)
(* Windows is not in the repository.  Here it is what the calls rely on: a  *)
(* set of things handed out, a bitmap that cannot be deleted while it is    *)
(* selected, a cursor that the user moves as well.                          *)
(***************************************************************************)
EXTENDS Integers, Sequences, FiniteSets, SequencesExt

CONSTANTS
    Modes,          \* what to do: "dxgi", "hybrid", or "list" the displays
    Wakes,          \* the --wake values in play: "none", "cursor", "window"
    SaveFirst,      \* --save-first was given
    MapPointerOnly, \* --map-pointer-only
    Duration,       \* --duration, in ticks
    Timeout,        \* --timeout-ms, in ticks
    Grace,          \* bound: how late AcquireNextFrame returns, in ticks
    Edge,           \* bound: the rightmost position of the cursor
    MaxAttempts     \* bound: attempts of the loop

ASSUME ProbeAssumption == /\ Modes \subseteq {"dxgi", "hybrid", "list"}
                          /\ Wakes \subseteq {"none", "cursor", "window"}
                          /\ SaveFirst \in BOOLEAN
                          /\ MapPointerOnly \in BOOLEAN
                          /\ Duration \in Nat
                          /\ Timeout \in Nat
                          /\ Grace \in Nat
                          /\ Edge \in Nat
                          /\ MaxAttempts \in Nat

VARIABLES
    mode, wake, \* the options
    owned,      \* what Windows has handed out and not got back
    guards,     \* the live guards, in the order of their declaration
    base,       \* how many of them belong to the caller
    call,       \* the function run() is in, or "none"
    taken,      \* how many things it has taken
    result,     \* what it returns once its guards are dropped, or "none"
    phase,      \* where run() stands
    now,        \* the monotonic clock, 0 when the loop starts
    called,     \* when the current AcquireNextFrame was called
    count,      \* attempts, frames, timeouts, access_lost
    saved,      \* the bitmap of --save-first: its frame (0: GDI's), how much
    pending,    \* ~first_dxgi_saved
    cursor,     \* where the cursor is
    wanted,     \* where the user last put it
    fate,       \* of that movement: "kept", "within" a nudge, or "lost" to it
    refused,    \* put-backs that failed since then
    point,      \* where apply_wake found it
    log,        \* the events written
    durable     \* how many of them the file holds whole

options == <<mode, wake>>
stack == <<owned, guards, base>>
activation == <<call, taken, result>>
clock == <<now, called>>
picture == <<saved, pending>>
pointer == <<cursor, wanted, fate, refused, point>>
logged == <<log, durable>>
vars == <<mode, wake, owned, guards, base, call, taken, result, phase, now,
          called, count, saved, pending, cursor, wanted, fate, refused, point, log,
          durable>>

-----------------------------------------------------------------------------
(* What the functions take, in order.                                       *)

GdiChain == <<"screen", "memory", "bitmap", "selection">>
CapturerChain == <<"factory", "adapter", "output", "output1", "device",
                   "duplication">>
FrameChain == <<"frame", "texture", "readable", "map">>

Chain == [gdi |-> GdiChain, create |-> CapturerChain, frame |-> FrameChain]

\* Two of the calls give two things each.
Brings(r) == CASE r = "device" -> <<"device", "context">>
               [] r = "frame"  -> <<"frame", "resource">>
               [] OTHER        -> <<r>>

\* Mutant: the guard of the frame is declared after the surface's.
GuardedLate(r) == IF r = "frame" THEN <<"resource", "frame">> ELSE Brings(r)

\* Mutant: the frame has no guard and is released at the end of frame().
GuardedByHand(r) == IF r = "frame" THEN <<"resource">> ELSE Brings(r)

\* Each has its guard before anything else can return.
Guarded(r) == Brings(r)

Take(r) == /\ owned' = owned \cup ToSet(Brings(r))
           /\ guards' = guards \o Guarded(r)

Enter(function) == /\ call' = function /\ taken' = 0 /\ result' = "none"
                   /\ base' = Len(guards)
Return(r) == result' = r /\ UNCHANGED <<call, taken>>
In(function) == call = function /\ result = "none"
Returned(function) == call = function /\ result # "none" /\ Len(guards) = base

\* run() returns: its own locals drop as well.
Quit(outcome) == /\ phase' = "leave"
                 /\ call' = "run" /\ result' = outcome /\ base' = 0
                 /\ UNCHANGED <<taken, owned, guards>>

\* An event goes to a buffer; when that is full it is given to the file first.
\* The end of the line stays in the buffer.
Emit(event) == /\ log' = Append(log, event)
               /\ durable' \in {durable, Len(log)}

Durable == SubSeq(log, 1, durable)

Init ==
    /\ mode \in Modes /\ wake \in Wakes
    /\ owned = {} /\ guards = << >> /\ base = 0
    /\ call = "list" /\ taken = 0 /\ result = "none"
    /\ phase = "displays"
    /\ now = 0 /\ called = 0
    /\ count = [attempts |-> 0, frames |-> 0, timeouts |-> 0, access_lost |-> 0]
    /\ saved = [frame |-> 0, part |-> "none"] /\ pending = (mode = "dxgi")
    /\ cursor = 0 /\ wanted = 0 /\ point = 0
    /\ fate = "kept" /\ refused = 0
    /\ log = << >> /\ durable = 0

-----------------------------------------------------------------------------
(* The functions.                                                           *)

\* enumerate_displays: outputs in a loop in adapters in a loop, one of each
\* held at a time.  It ends when there is no further adapter.
ListDisplays ==
    /\ In("list")
    /\ LET inside == IF guards = << >> THEN "list" ELSE Last(guards)
           next == [list |-> "factory", factory |-> "adapter",
                    adapter |-> "output"]
       IN  \/ inside \in DOMAIN next /\ Take(next[inside])
              /\ UNCHANGED activation
           \/ /\ inside \in {"adapter", "output"}
              /\ guards' = Front(guards) /\ owned' = owned \ {inside}
              /\ UNCHANGED activation
           \/ inside = "factory" /\ Return("ok") /\ UNCHANGED <<owned, guards>>
           \/ Return("error") /\ UNCHANGED <<owned, guards>>
    /\ UNCHANGED <<base, phase, clock, count, picture, pointer, logged>>

\* capture_gdi_snapshot, DxgiCapturer::new and frame() take the next thing.
Acquire ==
    /\ call \in DOMAIN Chain /\ In(call) /\ taken < Len(Chain[call])
    /\ Take(Chain[call][taken + 1])
    /\ taken' = taken + 1
    /\ UNCHANGED <<base, call, result, phase, clock, count, picture, pointer,
                   logged>>

\* Or do not get it; an HRESULT of frame() may say that access is lost.
Refuse ==
    /\ call \in DOMAIN Chain /\ In(call) /\ taken < Len(Chain[call])
    /\ \E r \in IF call = "frame"
                  THEN {"access_lost", "hresult_error"} \cup
                       (IF taken = 0 THEN {"timeout"} ELSE {})
                  ELSE {"error"} : Return(r)
    /\ UNCHANGED <<stack, phase, clock, count, picture, pointer, logged>>

\* The desktop is copied to the bitmap and read from there.
BlitAndRead ==
    /\ In("gdi") /\ taken = Len(GdiChain)
    /\ \E r \in {"ok", "error"} : Return(r)
    /\ UNCHANGED <<stack, phase, clock, count, picture, pointer, logged>>

\* The fields of the capturer move to the caller, where they drop in order of
\* declaration.
Built ==
    /\ In("create") /\ taken = Len(CapturerChain)
    /\ guards' = SubSeq(guards, 1, base) \o
                 <<"duplication", "context", "device">> \o
                 SubSeq(guards, base + 1, base + 4)
    /\ base' = base + 3
    /\ Return("ok")
    /\ UNCHANGED <<owned, phase, clock, count, picture, pointer, logged>>

\* Only the pointer moved.
PointerOnly ==
    /\ In("frame") /\ taken = 1 /\ ~MapPointerOnly
    /\ Return("pointer_only")
    /\ UNCHANGED <<stack, phase, clock, count, picture, pointer, logged>>

\* The pixels are hashed and copied out, unless there are none.
CopyOut ==
    /\ In("frame") /\ taken = Len(FrameChain)
    /\ \E r \in {"frame", "io_error"} : Return(r)
    /\ UNCHANGED <<stack, phase, clock, count, picture, pointer, logged>>

\* DeleteObject fails on a bitmap that is selected.
DropGdi ==
    /\ result # "none" /\ Len(guards) > base
    /\ Last(guards) \in ToSet(GdiChain)
    /\ guards' = Front(guards)
    /\ owned' = IF Last(guards) = "bitmap" /\ "selection" \in owned
                  THEN owned ELSE owned \ {Last(guards)}
    /\ UNCHANGED <<base, activation, phase, clock, count, picture, pointer,
                   logged>>

\* Release, Unmap, ReleaseFrame.
DropCom ==
    /\ result # "none" /\ Len(guards) > base
    /\ Last(guards) \notin ToSet(GdiChain) \cup {"window", "log"}
    /\ guards' = Front(guards) /\ owned' = owned \ {Last(guards)}
    /\ UNCHANGED <<base, activation, phase, clock, count, picture, pointer,
                   logged>>

\* DestroyWindow.
DropWindow ==
    /\ result # "none" /\ Len(guards) > base /\ Last(guards) = "window"
    /\ guards' = Front(guards) /\ owned' = owned \ {"window"}
    /\ UNCHANGED <<base, activation, phase, clock, count, picture, pointer,
                   logged>>

\* The logger is flushed as far as that works.
DropLogger ==
    /\ result # "none" /\ Len(guards) > base /\ Last(guards) = "log"
    /\ guards' = Front(guards) /\ owned' = owned \ {"log"}
    /\ durable' \in durable .. Len(log)
    /\ UNCHANGED <<base, activation, phase, clock, count, picture, pointer,
                   log>>

-----------------------------------------------------------------------------
(* run() up to the loop.                                                    *)

\* The displays are shown, or the one asked for is looked up among them.
LookUpDisplay ==
    /\ Returned("list")
    /\ \/ /\ result = "ok" /\ mode # "list"
          /\ phase' = "open"
          /\ Enter("none")
          /\ UNCHANGED <<owned, guards>>
       \/ Quit(IF result = "ok" /\ mode = "list" THEN "done" ELSE "failed")
    /\ UNCHANGED <<clock, count, picture, pointer, logged>>

\* JsonLogger::new and the first event.
OpenLog ==
    /\ phase = "open"
    /\ owned' = owned \cup {"log"} /\ guards' = Append(guards, "log")
    /\ base' = Len(guards')
    /\ Emit("start")
    /\ IF mode = "hybrid" THEN phase' = "gdi" /\ call' = "gdi"
                          ELSE phase' = "create" /\ call' = "create"
    /\ UNCHANGED <<taken, result, clock, count, picture, pointer>>

\* In hybrid mode GDI takes the first picture; when it cannot, that is logged
\* and the probe goes on.
Bootstrap ==
    /\ Returned("gdi")
    /\ Emit(IF result = "ok" THEN "gdi_bootstrap" ELSE "gdi_bootstrap_error")
    /\ IF result = "ok" /\ SaveFirst
         THEN phase' = "save" /\ Enter("none")
         ELSE phase' = "create" /\ Enter("create")
    /\ UNCHANGED <<owned, guards, clock, count, picture, pointer>>

CreateCapturer ==
    /\ Returned("create")
    /\ IF result = "ok"
         THEN /\ Emit("dxgi_created")
              /\ phase' = (IF wake = "window" THEN "window" ELSE "loop")
              /\ Enter("none")
              /\ UNCHANGED <<owned, guards>>
         ELSE Quit("failed") /\ UNCHANGED logged
    /\ UNCHANGED <<clock, count, picture, pointer>>

\* A wake window that cannot be had is logged and done without.
CreateWakeWindow ==
    /\ phase = "window"
    /\ \/ /\ Emit("wake_window_created")
          /\ owned' = owned \cup {"window"} /\ guards' = Append(guards, "window")
       \/ Emit("wake_window_error") /\ UNCHANGED <<owned, guards>>
    /\ base' = Len(guards')
    /\ phase' = "loop"
    /\ UNCHANGED <<activation, clock, count, picture, pointer>>

-----------------------------------------------------------------------------
(* The loop.                                                                *)

\* One more round, if there is time left; it may start with a nudge of the
\* cursor, one to the right, whose result is not looked at.
Attempt ==
    /\ phase = "loop" /\ call = "none"
    /\ now < Duration /\ count.attempts < MaxAttempts
    /\ count' = [count EXCEPT !.attempts = @ + 1]
    /\ IF wake = "cursor"
         THEN \* GetCursorPos may fail
              \/ /\ phase' = "nudge" /\ point' = cursor
                 /\ cursor' \in {cursor} \cup ({cursor + 1} \cap 0 .. Edge)
              \/ phase' = "capture" /\ UNCHANGED <<point, cursor>>
         ELSE phase' = "capture" /\ UNCHANGED <<point, cursor>>
    /\ UNCHANGED <<stack, activation, clock, picture, wanted, fate, refused,
                   logged>>

\* Mutant: the nudge goes back from where the cursor is, not from where it was.
EndNudgeRelative ==
    /\ phase = "nudge"
    /\ cursor' = IF cursor > 0 THEN cursor - 1 ELSE cursor
    /\ fate' = IF fate = "within" THEN "lost" ELSE fate
    /\ phase' = "capture"
    /\ UNCHANGED <<stack, activation, clock, count, picture, wanted, refused,
                   point, logged>>

\* Ten milliseconds later it is put back where it was, whatever the user did
\* meanwhile, or Windows refuses and nobody notices.
EndNudge ==
    /\ phase = "nudge"
    /\ \/ /\ cursor' = point
          /\ fate' = IF fate = "within" THEN "lost" ELSE fate
          /\ UNCHANGED refused
       \/ /\ fate' = IF fate = "within" THEN "kept" ELSE fate
          /\ refused' = IF fate = "within" THEN refused ELSE refused + 1
          /\ UNCHANGED cursor
    /\ phase' = "capture"
    /\ UNCHANGED <<stack, activation, clock, count, picture, wanted, point,
                   logged>>

CallFrame ==
    /\ phase = "capture"
    /\ Enter("frame")
    /\ phase' = "loop" /\ called' = now
    /\ UNCHANGED <<owned, guards, now, count, picture, pointer, logged>>

\* Mutant: every frame is saved over the one before.
PendingKept == pending

\* One picture is saved, or none was asked for.
PendingAfter == FALSE

\* A frame: counted, logged, and the first one saved.
HandleFrame ==
    /\ Returned("frame") /\ result = "frame"
    /\ count' = [count EXCEPT !.frames = @ + 1]
    /\ Emit(result)
    /\ phase' = IF pending /\ SaveFirst THEN "save" ELSE "loop"
    /\ pending' = IF pending /\ SaveFirst THEN pending ELSE FALSE
    /\ Enter("none")
    /\ UNCHANGED <<owned, guards, clock, saved, pointer>>

\* save_bgra_bmp: the file is created, then filled.
SavePicture ==
    /\ phase = "save"
    /\ IF saved.part # "partial"
         THEN /\ saved' = [frame |-> count.frames, part |-> "partial"]
              /\ UNCHANGED <<pending, phase, stack, activation>>
         ELSE /\ saved' = [saved EXCEPT !.part = "whole"]
              /\ IF "device" \in owned
                   THEN /\ pending' = PendingAfter /\ phase' = "loop"
                        /\ UNCHANGED <<stack, activation>>
                   ELSE /\ phase' = "create" /\ Enter("create")
                        /\ UNCHANGED <<pending, owned, guards>>
    /\ UNCHANGED <<clock, count, pointer, logged>>

\* Mutant: a pointer update counts as a timeout.
HandleNothingAlike ==
    /\ Returned("frame") /\ result \in {"timeout", "pointer_only"}
    /\ count' = [count EXCEPT !.timeouts = @ + 1]
    /\ Emit(result)
    /\ Enter("none")
    /\ UNCHANGED <<owned, guards, phase, clock, picture, pointer>>

\* Nothing new: logged, and the loop goes on.
HandleNothing ==
    /\ Returned("frame") /\ result \in {"timeout", "pointer_only"}
    /\ count' = [count EXCEPT !.timeouts = IF result = "timeout" THEN @ + 1
                                                                 ELSE @]
    /\ Emit(result)
    /\ Enter("none")
    /\ UNCHANGED <<owned, guards, phase, clock, picture, pointer>>

\* Mutant: the loop goes on after an error.
AfterErrorGoOn == "loop"

\* The loop breaks on every error.
AfterError == "broken"

HandleError ==
    /\ Returned("frame")
    /\ result \in {"access_lost", "hresult_error", "io_error"}
    /\ count' = [count EXCEPT !.access_lost = IF result = "access_lost"
                                                THEN @ + 1 ELSE @]
    /\ Emit(result)
    /\ phase' = AfterError
    /\ Enter("none")
    /\ UNCHANGED <<owned, guards, clock, picture, pointer>>

\* Time is up, or the loop was left.
Summarise ==
    /\ \/ phase = "loop" /\ call = "none" /\ now >= Duration
       \/ phase = "broken"
    /\ Emit("summary")
    /\ phase' = "flush"
    /\ UNCHANGED <<stack, activation, clock, count, picture, pointer>>

FinalFlush ==
    /\ phase = "flush"
    /\ durable' = Len(log)
    /\ Quit("done")
    /\ UNCHANGED <<clock, count, picture, pointer, log>>

\* An event or a picture that cannot be written ends run().
Fail ==
    /\ \/ phase \in {"open", "save", "window", "broken", "flush"}
       \/ phase = "loop" /\ call = "none" /\ now >= Duration
       \/ Returned("gdi") \/ Returned("create") \/ Returned("frame")
    /\ Quit("failed")
    /\ UNCHANGED <<clock, count, picture, pointer, logged>>

End ==
    /\ phase = "leave" /\ guards = << >>
    /\ phase' = result /\ call' = "none" /\ result' = "none"
    /\ UNCHANGED <<stack, taken, clock, count, picture, pointer, logged>>

-----------------------------------------------------------------------------
(* The world.                                                               *)

\* Time passes while AcquireNextFrame waits.
Tick ==
    /\ In("frame") /\ taken = 0
    /\ now < called + Timeout + Grace
    /\ now' = now + 1
    /\ UNCHANGED <<stack, activation, phase, called, count, picture, pointer,
                   logged>>

MoveCursor ==
    /\ wake = "cursor" /\ phase \in {"loop", "nudge", "capture"}
    /\ cursor' \in 0 .. Edge
    /\ wanted' = cursor' /\ refused' = 0
    /\ fate' = IF phase = "nudge" THEN "within" ELSE "kept"
    /\ UNCHANGED <<stack, activation, phase, clock, count, picture, point,
                   logged>>

Ended == phase \in {"done", "failed", "killed"}

\* Windows takes everything back; the buffer of the log is lost.
Kill ==
    /\ ~Ended
    /\ phase' = "killed" /\ call' = "none" /\ result' = "none"
    /\ owned' = {} /\ guards' = << >> /\ base' = 0
    /\ UNCHANGED <<taken, clock, count, picture, pointer, logged>>

-----------------------------------------------------------------------------

Functions == ListDisplays \/ Acquire \/ Refuse \/ BlitAndRead \/ Built
             \/ PointerOnly \/ CopyOut
             \/ DropGdi \/ DropCom \/ DropWindow \/ DropLogger

Run == LookUpDisplay \/ OpenLog \/ Bootstrap \/ CreateCapturer
       \/ CreateWakeWindow \/ Attempt \/ EndNudge \/ CallFrame \/ HandleFrame
       \/ SavePicture \/ HandleNothing \/ HandleError \/ Summarise
       \/ FinalFlush \/ Fail \/ End

Next == (Functions \/ Run \/ Tick \/ MoveCursor \/ Kill) /\ UNCHANGED options

Spec == Init /\ [][Next]_vars

-----------------------------------------------------------------------------
(* Properties.                                                              *)

Results == {"timeout", "access_lost", "hresult_error", "pointer_only",
            "frame", "io_error"}
Phases == {"displays", "open", "gdi", "save", "create", "window", "loop",
           "nudge", "capture", "broken", "flush", "leave",
           "done", "failed", "killed"}

\* Types; in particular one lost access ends the loop, and a bitmap is only
\* ever that of GDI or of a frame.
TypeOK ==
    /\ mode \in Modes /\ wake \in Wakes
    /\ ToSet(guards) \subseteq owned /\ base \in 0 .. Len(guards)
    /\ call \in {"none", "list", "gdi", "create", "frame", "run"}
    /\ taken \in 0 .. Len(CapturerChain)
    /\ result \in Results \cup {"none", "ok", "error", "done", "failed"}
    /\ phase \in Phases
    /\ now \in 0 .. Duration + Timeout + Grace /\ called \in 0 .. now
    /\ count \in [attempts : 0 .. MaxAttempts, frames : 0 .. MaxAttempts,
                 timeouts : 0 .. MaxAttempts, access_lost : 0 .. 1]
    /\ saved \in [frame : 0 .. MaxAttempts, part : {"none", "partial", "whole"}]
    /\ pending \in BOOLEAN
    /\ cursor \in 0 .. Edge /\ wanted \in 0 .. Edge /\ point \in 0 .. Edge
    /\ fate \in {"kept", "within", "lost"} /\ refused \in 0 .. MaxAttempts
    /\ durable \in 0 .. Len(log)

\* What a thing needs until it is given back.
Needs == [selection |-> {"memory", "bitmap"}, map |-> {"readable"},
          resource |-> {"frame"}, texture |-> {"frame"},
          frame |-> {"duplication"}]

\* Nothing is given back before what was built on it: a bitmap is deselected
\* before it is deleted, a texture unmapped before it is released, and every
\* reference to the surface released before the frame.  At no point of any
\* unwinding does the order of the guards break this.
ReleaseOrder == \A r \in owned \cap DOMAIN Needs : Needs[r] \subseteq owned

\* Whatever way a function returned, only what run() itself holds is out when
\* it goes on, or a frame kept would make every later AcquireNextFrame fail;
\* and a probe that ended on its own, by any of its errors, holds nothing.
NothingKept ==
    /\ (call = "none" /\ ~Ended) =>
           owned \subseteq {"log", "duplication", "device", "context", "window"}
    /\ Ended => owned = {}

Events(e) == {k \in DOMAIN Durable : Durable[k] \in e}

\* The file of a probe that finished, failed or was killed can be believed: if
\* it has a summary, each attempt left exactly one event before it and the
\* counters agree with them; nothing but the summary follows an error, since
\* the duplication is not used again; and a finished probe has one.
SummaryAddsUp ==
    /\ (Ended /\ "summary" \in ToSet(Durable)) =>
           /\ Last(Durable) = "summary"
           /\ Cardinality(Events(Results)) = count.attempts
           /\ Cardinality(Events({"frame"})) = count.frames
           /\ Cardinality(Events({"timeout"})) = count.timeouts
           /\ Cardinality(Events({"access_lost"})) = count.access_lost
    /\ \A k \in 1 .. durable - 1 :
           log[k] \in {"access_lost", "hresult_error", "io_error"} =>
               log[k + 1] = "summary"
    /\ (phase = "done" /\ mode # "list") => "summary" \in ToSet(Durable)

\* What --save-first wrote is the first picture, that of GDI in hybrid mode
\* and frame one otherwise, and a finished probe wrote all of it.
SavedIsFirst ==
    /\ saved.part # "none" => saved.frame = IF mode = "hybrid" THEN 0 ELSE 1
    /\ phase = "done" => saved.part # "partial"

\* The cursor wake undoes itself, at the edge of the screen as well: outside its
\* ten milliseconds the cursor is where the user put it last, or further right
\* by no more than the put-backs Windows refused since.  Only a movement made
\* within a nudge and overwritten by its put-back is lost.  A probe killed
\* within a nudge promises nothing.
CursorPutBack ==
    \/ phase \in {"nudge", "killed"} \/ fate = "lost"
    \/ cursor \in wanted .. wanted + refused

\* What the option promises (main.rs:454, "write first captured BGRA frame as
\* BMP"): a finished probe that captured a frame has written one.
FirstFrameSaved ==
    (phase = "done" /\ SaveFirst /\ count.frames > 0) => saved.part = "whole"

=============================================================================
