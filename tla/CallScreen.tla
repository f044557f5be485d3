------------------------------ MODULE CallScreen -----------------------------
(***************************************************************************)
(* The screen of one call, viewed or shared: src/chime/chime-call-screen.c *)
(* and its use by src/prpl/chat.c.  A websocket to the bithub outlives the *)
(* GStreamer elements that are attached to it.  An element's destroy       *)
(* notify runs when its callbacks are replaced and when its pipeline goes: *)
(* it may then find the screen in any state, serving another element.      *)
(*                                                                         *)
(* Left out: the frames, heartbeats and viewer_present.  A step that would *)
(* use an element after its pipeline has gone is not taken.                *)
(***************************************************************************)
CONSTANTS Views, Shares,   \* the appsrc and appsink elements
          None

ASSUME ScreenAssumption == None \notin Views \cup Shares

VARIABLES
  screen,      \* screen->state, "none" when there is no ChimeCallScreen
  opening,     \* the websocket is being connected
  bithub,      \* screen->ws: "none", "open" or "closed"
  src, sink,   \* screen->screen_src, screen->screen_sink
  alive,       \* the elements whose pipelines exist
  notify,      \* the elements with a destroy notify for this screen
  told         \* what the service last heard: begun and not ended

screenVars == <<screen, opening, bithub, src, sink, alive, notify, told>>

ScreenTypeOK ==
  /\ screen \in {"none", "connecting", "failed", "connected", "viewing", "sending"}
  /\ opening \in BOOLEAN
  /\ bithub \in {"none", "open", "closed"}
  /\ src \in Views \cup {None} /\ sink \in Shares \cup {None}
  /\ alive \subseteq Views \cup Shares
  /\ notify \subseteq alive
  /\ told \subseteq {"viewer", "presenter"}

ScreenInit ==
  /\ screen = "none" /\ bithub = "none" /\ opening = FALSE
  /\ src = None /\ sink = None
  /\ alive = {} /\ notify = {} /\ told = {}

-----------------------------------------------------------------------------
(* The part of the screen that a destroy notify changes, as a value: it is *)
(* run in the middle of other handlers.                                    *)

Now == [screen |-> screen, src |-> src, sink |-> sink, notify |-> notify, told |-> told]

Becomes(r) ==
  /\ screen' = r.screen /\ src' = r.src /\ sink' = r.sink
  /\ notify' = r.notify /\ told' = r.told

\* Slip: an element that goes ends the screen, whatever it is doing.
DestroyedAnyway(e, r) ==
  LET q == [r EXCEPT !.notify = @ \ {e}] IN
  CASE e \in Views /\ r.screen \in {"viewing", "sending"} ->
         [q EXCEPT !.told = @ \ {"viewer"}, !.src = None, !.screen = "connected"]
    [] e \in Shares /\ r.screen \in {"viewing", "sending"} ->
         [q EXCEPT !.told = @ \ {"presenter"}, !.sink = None, !.screen = "connected"]
    [] e \in Views /\ r.screen = "failed"  -> [q EXCEPT !.src = None]
    [] e \in Shares /\ r.screen = "failed" -> [q EXCEPT !.sink = None]
    [] OTHER -> q

\* screen_appsrc_destroy(), screen_appsink_destroy()
Destroyed(e, r) ==
  LET q == [r EXCEPT !.notify = @ \ {e}] IN
  CASE e \in Views /\ r.screen = "viewing" ->
         [q EXCEPT !.told = @ \ {"viewer"}, !.src = None, !.screen = "connected"]
    [] e \in Views /\ r.screen = "failed" -> [q EXCEPT !.src = None]
    [] e \in Shares /\ r.screen = "sending" ->
         [q EXCEPT !.told = @ \ {"presenter"}, !.sink = None, !.screen = "connected"]
    [] e \in Shares /\ r.screen = "failed" -> [q EXCEPT !.sink = None]
    [] OTHER -> q

\* gst_app_{src,sink}_set_callbacks(): the notify it replaces is run first
Cleared(e, r) == IF e \in r.notify THEN Destroyed(e, r) ELSE r
Set(e, r)     == [Cleared(e, r) EXCEPT !.notify = @ \cup {e}]

DropSrc(r)  == [Cleared(r.src, r) EXCEPT !.src = None]
DropSink(r) == [Cleared(r.sink, r) EXCEPT !.sink = None]

\* what the handlers of this module would do with a freed element
Usable == {src, sink} \subseteq alive \cup {None}

\* chime_call_screen_install_appsrc(), chime_call_screen_install_appsink()
InstallSrc(v, open, r) ==
  LET a == Set(v, [r EXCEPT !.src = v])
      b == IF a.screen = "sending" THEN [a EXCEPT !.told = @ \ {"presenter"}] ELSE a
      c == DropSink(b)
  IN IF open THEN [c EXCEPT !.told = @ \cup {"viewer"}, !.screen = "viewing"] ELSE c

InstallSink(s, open, r) ==
  LET a == Set(s, [r EXCEPT !.sink = s])
      b == IF a.screen = "viewing" THEN [a EXCEPT !.told = @ \ {"viewer"}] ELSE a
      c == DropSrc(b)
  IN IF open THEN [c EXCEPT !.told = @ \cup {"presenter"}, !.screen = "sending"] ELSE c

-----------------------------------------------------------------------------
\* chime_call_screen_open(): a screen that failed is opened again
Opened(r) ==
  CASE r.screen = "none"   -> [r EXCEPT !.screen = "connecting", !.told = {}]
    [] r.screen = "failed" -> [DropSink(DropSrc(r)) EXCEPT !.screen = "connecting", !.told = {}]
    [] OTHER               -> r

\* chime_call_view_screen(), chime_call_send_screen()
Attach(e) ==
  LET opens == screen \in {"none", "failed"}
      open  == bithub = "open"
  IN /\ e \notin alive /\ Usable
     /\ alive' = alive \cup {e}
     /\ opening' = (opening \/ opens)
     /\ bithub' = IF opens THEN "none" ELSE bithub
     /\ Becomes(IF e \in Views THEN InstallSrc(e, open, Opened(Now))
                               ELSE InstallSink(e, open, Opened(Now)))

\* screen_ws_connect_cb()
ScreenWsConnected ==
  /\ opening /\ Usable
  /\ opening' = FALSE /\ bithub' = "open"
  /\ Becomes(IF src # None THEN InstallSrc(src, TRUE, Now)
             ELSE IF sink # None THEN InstallSink(sink, TRUE, Now)
             ELSE [Now EXCEPT !.screen = "connected"])
  /\ UNCHANGED alive

ScreenWsFails ==
  /\ opening
  /\ opening' = FALSE /\ screen' = "failed"
  /\ UNCHANGED <<bithub, src, sink, alive, notify, told>>

\* on_screenws_closed()
ScreenWsClosed ==
  /\ bithub = "open" /\ Usable
  /\ bithub' = "closed"
  /\ Becomes(DropSink(DropSrc([Now EXCEPT !.screen = "failed", !.told = {}])))
  /\ UNCHANGED <<opening, alive>>

\* SCREEN_PKT_TYPE_STREAM_STOP of on_screenws_message()
StreamStop ==
  /\ bithub = "open" /\ sink # None /\ Usable
  /\ LET r == DropSink([Now EXCEPT !.told = @ \ {"presenter"}])
     IN Becomes([r EXCEPT !.screen = "connected"])
  /\ UNCHANGED <<opening, bithub, alive>>

\* the UI or the user ends an element's media and its pipeline goes
TearDown(e) ==
  /\ e \in alive
  /\ alive' = alive \ {e}
  /\ Becomes(Cleared(e, Now))
  /\ UNCHANGED <<opening, bithub>>

\* chime_call_screen_close(): HANGUP first, so that no notify acts; one
\* that is left on another element would run on freed memory
ScreenClose ==
  /\ Usable
  /\ screen' = "none" /\ bithub' = "none" /\ opening' = FALSE
  /\ src' = None /\ sink' = None
  /\ notify' = {} /\ told' = {}
  /\ UNCHANGED alive

ScreenNext ==
  \/ \E e \in Views \cup Shares : Attach(e)
  \/ ScreenWsConnected \/ ScreenWsFails \/ ScreenWsClosed
  \/ StreamStop
  \/ \E e \in alive : TearDown(e)

-----------------------------------------------------------------------------
\* While the bithub is connected the service believes that this client views
\* or presents exactly when it does, and then the one element that is served
\* is of that kind: whatever ends, in whatever order, nobody is left
\* watching a share that has gone.
ServiceAgrees ==
  bithub = "open" =>
    /\ told = CASE screen = "viewing" -> {"viewer"}
                [] screen = "sending" -> {"presenter"}
                [] OTHER -> {}
    /\ src # None <=> screen = "viewing"
    /\ sink # None <=> screen = "sending"
=============================================================================
