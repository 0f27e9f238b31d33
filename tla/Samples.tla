------------------------------- MODULE Samples -------------------------------
(***************************************************************************)
(* The samples under frameworks/: SDL2, OpenGL, Xorg, dbus and sqlite.     *)
(* Each is a sequence of calls of a library that create, check, use and    *)
(* release things, mostly with an event loop in between.  A sample is the  *)
(* table of these calls, and one state machine runs them.  Any creation    *)
(* may fail.  What a library does with the null handle of a failed         *)
(* creation is external: it is rejected, and so is whatever is to be       *)
(* created from it.  Drawing, logging and sizes are left out.              *)
(***************************************************************************)
EXTENDS Sequences, Integers

CONSTANT MaxEvents    \* bound: events that arrive while a loop runs

VARIABLES
    sample,     \* the program that runs
    line,       \* the call it is at
    failed,     \* the things whose creation failed: a null handle or an error code
    gone,       \* the things that have been released
    events,     \* the event queue
    arrived,    \* the number of events so far
    stop,       \* the condition of the event loop is false
    outcome     \* "running", the exit status, or "null" or "stale" for the handle used

sampleVars == <<sample, line, failed, gone, events, arrived, stop, outcome>>

-----------------------------------------------------------------------------
(* The calls.                                                               *)
Call(op, r, needs, then) == <<[op |-> op, res |-> r, needs |-> needs, then |-> then]>>
Make(r, needs) == Call("make", r, needs, {})
\* Leave with a failure if r could not be made, after releasing the things named.
Check(r, cleanup) == Call("check", r, {}, cleanup)
\* The same with the test inverted: the result 0 of a success is taken for null.
CheckInverted(r, cleanup) == Call("inverted", r, {}, cleanup)
Deref(r) == Call("deref", r, {r}, {})
Free(r) == Call("free", r, {}, {})
Loop(kind, needs) == Call("loop", kind, needs, {})
\* The first test of a loop reads an event that nothing has set.
UnsetEvent == Call("unset", "event", {}, {})

\* What a library releases together with r.
Owned(r) ==
    CASE r = "sdl" -> {"window", "window2", "screen"}
      [] r = "window" -> {"screen"}
      [] r = "display" -> {"xwindow", "grab"}
      [] r = "glfw" -> {"glfwwindow"}
      [] OTHER -> {}

-----------------------------------------------------------------------------
(* The samples.  Faulty variants come first.                                *)

SdlWindow == Make("sdl", {}) \o Make("window", {"sdl"})
EndWindow == Free("window") \o Free("sdl")

WinErrorsUnchecked == Make("sdl", {}) \o Check("sdl", {}) \o Make("window", {"sdl"})
    \o Loop("wait", {"window"}) \o EndWindow
WinErrors == Make("sdl", {}) \o Check("sdl", {}) \o Make("window", {"sdl"})
    \o Check("window", {"sdl"}) \o Loop("wait", {"window"}) \o EndWindow
WinBasic == SdlWindow \o Loop("wait", {"window"}) \o EndWindow
\* It polls one event per iteration: as if it waited for each.
WinTitle == SdlWindow \o UnsetEvent \o Loop("wait", {"window"}) \o EndWindow
WinIcon == SdlWindow \o Make("surface", {}) \o Free("surface")
    \o UnsetEvent \o Loop("wait", {"window"}) \o EndWindow
DrawRect == SdlWindow \o Make("renderer", {"window"})
    \o Loop("wait", {"renderer"}) \o Free("renderer") \o EndWindow
DrawFullscreen == Make("sdl", {}) \o Make("mode", {"sdl"}) \o Check("mode", {})
    \o Make("window", {"sdl"}) \o Make("renderer", {"window"})
    \o Loop("wait", {"renderer"}) \o Free("renderer") \o EndWindow
EventsInput == SdlWindow \o Loop("poll", {"window"}) \o EndWindow
EventsWindow == SdlWindow \o Loop("poll_break", {"window"}) \o EndWindow
ModeClosest == Make("sdl", {}) \o Make("closest", {"sdl"}) \o Check("closest", {"sdl"})
    \o Make("window", {"sdl"}) \o Make("mode", {"window"}) \o CheckInverted("mode", {"sdl"})
    \o EndWindow
ModeCurrent == Make("sdl", {}) \o Make("mode", {"sdl"}) \o Free("sdl")
SysWm == SdlWindow \o Make("wminfo", {"window"}) \o Check("wminfo", {}) \o EndWindow

GlNew == Make("sdl", {}) \o Make("window", {"sdl"}) \o Check("window", {"sdl"})
    \o Make("context", {"window"}) \o Make("quadric", {})
    \o Loop("poll", {"window", "quadric"})
    \o Free("quadric") \o Free("context") \o EndWindow
GlOld == Make("sdl", {}) \o Make("window", {"sdl"}) \o Check("window", {"sdl"})
    \o Make("context", {"window"}) \o UnsetEvent \o Loop("poll_last", {"window"})
    \o Free("context") \o EndWindow
GlErrors == Make("sdl", {}) \o Check("sdl", {}) \o Make("window", {"sdl"})
    \o Make("context", {"window"}) \o Make("watch", {"sdl"})
    \o Loop("watched", {"window", "context"})
    \o Free("watch") \o Free("context") \o EndWindow
\* Two windows with a context each, and the effect and buffer drawn in both.
MultiCreate == SdlWindow \o Make("context", {"window"})
    \o Make("window2", {"sdl"}) \o Make("context2", {"window2"})
    \o Make("cg", {}) \o Make("effect", {"cg"}) \o Make("vbo", {"context"})
GlMulti == MultiCreate
    \o Loop("wait", {"window", "context", "window2", "context2", "effect", "vbo"})
    \o Free("vbo") \o Free("context") \o Free("window") \o Free("context2")
    \o Free("window2") \o Free("sdl")
GlfwWindow == Make("glfw", {}) \o Check("glfw", {}) \o Make("glfwwindow", {"glfw"})
    \o Check("glfwwindow", {"glfw"}) \o Loop("poll", {"glfwwindow"}) \o Free("glfw")

BlitInit == Make("sdl", {}) \o Check("sdl", {}) \o Make("img", {}) \o Check("img", {})
    \o Make("window", {"sdl"}) \o Check("window", {})
    \o Make("screen", {"window"}) \o Check("screen", {}) \o Deref("screen")
ConvertFreed == Free("loaded") \o Make("image", {"loaded", "screen"})
Convert == Deref("screen") \o Make("image", {"loaded", "screen"}) \o Free("loaded")
ImgBlit == BlitInit \o Make("loaded", {"img"}) \o Check("loaded", {})
    \o Convert \o Check("image", {"img", "sdl"}) \o Deref("image")
    \o Loop("wait", {"window"}) \o Free("image") \o Free("img") \o Free("sdl")
ImgErrors == Make("sdl", {}) \o Check("sdl", {}) \o Make("window", {"sdl"})
    \o Check("window", {}) \o Make("renderer", {"window"}) \o Check("renderer", {})
    \o Make("surface", {}) \o Check("surface", {})
    \o Make("texture", {"renderer", "surface"}) \o Check("texture", {}) \o Free("surface")
    \o Loop("count", {"renderer", "texture"})
    \o Free("texture") \o Free("renderer") \o EndWindow

Text == Make("surface", {"font"}) \o Make("texture", {"renderer", "surface"})
    \o Free("surface")
FontBasic == Make("sdl", {}) \o Check("sdl", {}) \o Make("ttf", {}) \o Check("ttf", {})
    \o Make("font", {"ttf"}) \o Check("font", {}) \o Make("window", {"sdl"})
    \o Check("window", {}) \o Make("renderer", {"window"}) \o Check("renderer", {})
    \o Text \o Loop("wait", {"renderer", "texture"})
    \o Free("texture") \o Free("window") \o Free("font") \o Free("ttf") \o Free("sdl")
FontWrapped == Make("sdl", {}) \o Make("ttf", {}) \o Make("font", {"ttf"})
    \o Make("window", {"sdl"}) \o Make("renderer", {"window"})
    \o Text \o Loop("wait", {"renderer", "texture"})
    \o Free("texture") \o Free("window") \o Free("font") \o Free("ttf") \o Free("sdl")
FontGlyphs == Make("sdl", {}) \o Make("ttf", {}) \o Make("window", {"sdl"})
    \o Make("renderer", {"window"}) \o Make("font", {"ttf"}) \o Text \o Free("font")
    \o Loop("wait", {"renderer", "texture"})
    \o Free("texture") \o Free("renderer") \o Free("window") \o Free("ttf") \o Free("sdl")

DrawRectText == Make("display", {}) \o Check("display", {}) \o Make("xwindow", {"display"})
    \o Loop("wait", {"display"}) \o Free("display")
DrawRoot == Make("display", {}) \o Check("display", {}) \o Make("surface", {"display"})
    \o Make("cairo", {"surface"}) \o Loop("forever", {"display"})
    \o Free("cairo") \o Free("surface") \o Free("display")
EventRoot == Make("display", {}) \o Check("display", {}) \o Deref("display")
    \o Loop("wait", {"display"}) \o Free("display")
GrabKey == Make("display", {}) \o Deref("display") \o Make("grab", {"display"})
    \o Loop("wait", {"display"}) \o Free("grab") \o Free("display")
Clipboard == Make("display", {}) \o Check("display", {}) \o Deref("display")
    \o Loop("once", {"display"}) \o Free("display")
GetDpi == Make("display", {}) \o Check("display", {}) \o Deref("display")

DBus == Make("connection", {}) \o Check("connection", {})
    \o Make("proxy", {"connection"}) \o Make("names", {"proxy"}) \o Check("names", {})
    \o Deref("names") \o Free("names") \o Free("proxy")

\* dbslowread: what either of the two threads does with the connection.
Slowread(rows) == Make(rows, {"db2"}) \o Check(rows, {})
MultiThread == Make("config", {}) \o Check("config", {})
    \o Make("db", {}) \o Check("db", {"db"}) \o Make("schema", {"db"}) \o Check("schema", {})
    \o Free("db") \o Make("db2", {}) \o Check("db2", {"db2"})
    \o Slowread("rows1") \o Slowread("rows2") \o Free("db2")

Program ==
    [win_errors |-> WinErrors, win_basic |-> WinBasic, win_title |-> WinTitle,
     win_icon |-> WinIcon, draw_rect |-> DrawRect,
     draw_fullscreen |-> DrawFullscreen, events_input |-> EventsInput,
     events_window |-> EventsWindow, mode_closest |-> ModeClosest,
     mode_current |-> ModeCurrent, syswm |-> SysWm, gl_new |-> GlNew, gl_old |-> GlOld,
     gl_errors |-> GlErrors, gl_multi |-> GlMulti, glfw |-> GlfwWindow,
     img_blit |-> ImgBlit, img_errors |-> ImgErrors, font_basic |-> FontBasic,
     font_wrapped |-> FontWrapped, font_glyphs |-> FontGlyphs,
     draw_rect_text |-> DrawRectText, draw_root |-> DrawRoot, event_root |-> EventRoot,
     grabkey |-> GrabKey, clipboard |-> Clipboard, getdpi |-> GetDpi, dbus |-> DBus,
     multi_thread |-> MultiThread]

\* Samples that check whatever they create, or something created from it.
Checking == {"win_errors", "syswm", "glfw", "img_blit", "img_errors", "draw_root",
             "event_root", "clipboard", "getdpi", "dbus", "multi_thread"}
\* The sample with the inverted check: info-mode-closest.cpp:36.
Inverting == {"mode_closest"}

-----------------------------------------------------------------------------
SampleInit ==
    /\ sample \in DOMAIN Program
    /\ line = 1
    /\ failed = {} /\ gone = {}
    /\ events = <<>> /\ arrived = 0 /\ stop = FALSE
    /\ outcome = "running"

AtEnd == line > Len(Program[sample])
At(op) ==
    /\ outcome = "running"
    /\ ~AtEnd
    /\ Program[sample][line].op = op
call == Program[sample][line]
Stale == call.needs \cap gone # {}
Null == call.needs \cap failed # {}
Advance == line' = line + 1 /\ UNCHANGED outcome
Leave(how) == outcome' = how /\ UNCHANGED line

Creates ==
    /\ At("make")
    /\ IF Stale THEN Leave("stale") /\ UNCHANGED failed
       ELSE /\ Advance
            /\ failed' \in (IF Null THEN {} ELSE {failed}) \cup {failed \cup {call.res}}
    /\ UNCHANGED <<sample, gone, events, arrived, stop>>

\* A check ends the program if the result looks like a failure.
LooksFailed == IF call.op = "check" THEN call.res \in failed ELSE call.res \notin failed
Checks ==
    /\ At("check") \/ At("inverted")
    /\ IF LooksFailed
       THEN Leave("failure") /\ gone' = gone \cup call.then
       ELSE Advance /\ UNCHANGED gone
    /\ UNCHANGED <<sample, failed, events, arrived, stop>>

Dereferences ==
    /\ At("deref") \/ (At("loop") /\ Stale)
    /\ IF Stale THEN Leave("stale") ELSE IF Null THEN Leave("null") ELSE Advance
    /\ UNCHANGED <<sample, failed, gone, events, arrived, stop>>

\* To release what could not be created does nothing.
Frees ==
    /\ At("free")
    /\ IF call.res \in gone THEN Leave("stale") /\ UNCHANGED gone
       ELSE /\ Advance
            /\ gone' = gone \cup (IF call.res \in failed THEN {}
                                  ELSE {call.res} \cup Owned(call.res))
    /\ UNCHANGED <<sample, failed, events, arrived, stop>>

\* What the unset event holds decides whether the loop is entered.
ReadsUnset ==
    /\ At("unset")
    /\ line' \in {line + 1, line + 2}
    /\ UNCHANGED <<sample, failed, gone, events, arrived, stop, outcome>>

\* The loop takes one event.  Faulty variant first: only the last one counts.
Forgetting(e) == e = "quit"
Latched(e) == stop \/ e = "quit"
StopAfter(e) ==
    CASE call.res = "once" -> TRUE
      [] call.res = "forever" -> FALSE
      [] call.res = "poll_last" -> e = "quit"
      [] OTHER -> Latched(e)

\* Loops that poll test their condition when the queue is empty, the others after
\* each event; "poll_break" leaves the queue as it is.
TestsNow == call.res \notin {"poll", "poll_last"} \/ events = <<>>

TakesEvent ==
    /\ At("loop")
    /\ ~Stale
    /\ events # <<>> /\ ~(stop /\ TestsNow)
    /\ stop' = StopAfter(Head(events))
    /\ events' = Tail(events)
    /\ UNCHANGED <<sample, line, failed, gone, arrived, outcome>>

LeavesLoop ==
    /\ At("loop")
    /\ ~Stale
    /\ call.res = "count" \/ (stop /\ TestsNow)
    /\ Advance
    /\ UNCHANGED <<sample, failed, gone, events, arrived, stop>>

Ends ==
    /\ outcome = "running" /\ AtEnd
    /\ Leave("success")
    /\ UNCHANGED <<sample, failed, gone, events, arrived, stop>>

\* External: the user, the window manager.  An event watch sees "background" as it
\* arrives and sets the condition of the loop.
Arrives(e) ==
    /\ At("loop") /\ arrived < MaxEvents
    /\ arrived' = arrived + 1
    /\ events' = Append(events, e)
    /\ stop' = (stop \/ (call.res = "watched" /\ e = "background"))
    /\ UNCHANGED <<sample, line, failed, gone, outcome>>

SampleStep ==
    \/ Creates \/ Checks \/ Dereferences \/ Frees \/ ReadsUnset
    \/ TakesEvent \/ LeavesLoop \/ Ends
EventKinds == {"quit", "other", "background"}
SampleNext == SampleStep \/ \E e \in EventKinds : Arrives(e)

SampleSpec == SampleInit /\ [][SampleNext]_sampleVars /\ WF_sampleVars(SampleStep)

-----------------------------------------------------------------------------
\* The exit status tells whether a creation failed: samples that check everything
\* succeed only if nothing failed, and none fails without a reason, but for the one
\* whose check is inverted (the error paths of frameworks/).
FailureIsReported ==
    /\ outcome = "success" /\ sample \in Checking => failed = {}
    /\ outcome = "failure" /\ sample \notin Inverting => failed # {}

\* Nothing is used or released after its release, by itself or by its owner, and
\* no null handle is dereferenced, but for the display of event-grabkey.c:19 (the
\* order of the releases and error paths of frameworks/).
HandlesAreValid ==
    /\ outcome # "stale"
    /\ outcome = "null" => sample = "grabkey"

\* An event that asks to quit ends the program, although others wait before and
\* after it.  gl-context-old.cpp:64 looks at the last event only and may lose it;
\* draw-root-window.c:44 never looks (the event loops of frameworks/).
QuitEndsLoop ==
    (\E i \in 1..Len(events) : events[i] = "quit") /\ sample \notin {"gl_old", "draw_root"}
        ~> outcome # "running"
=============================================================================
