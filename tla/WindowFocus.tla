---------------------------- MODULE WindowFocus ----------------------------
(***************************************************************************)
(* Windows and their focus: which windows there are, which of them are     *)
(* shown, and where the keyboard goes.                                     *)
(*                                                                         *)
(* The compositor's loop runs one handler at a time, to its end, over one  *)
(* CompositorState; what makes the focus hard is that every handler ends   *)
(* in others (closing focuses, focusing raises, mapping may hide), and     *)
(* that clients answer late: a window that was asked to close goes on      *)
(* committing, a window that was registered maps when it likes. So each    *)
(* function of the code is here an operator from a state to the state it   *)
(* leaves, handlers apply the operators of the functions they call, in     *)
(* the code's order, and an action is a handler the loop runs.             *)
(*                                                                         *)
(* Native windows are Wayland toplevels, hosted windows are drawn by the   *)
(* shell's page. Left out: X11 windows, popups, layer surfaces, grabs and  *)
(* drags, the toplevel that is the shell itself, indicators of a shared    *)
(* screen, tab groups, geometry, and what is sent to the shell.            *)
(***************************************************************************)
EXTENDS Naturals, Sequences, FiniteSets

CONSTANTS
  Native,         \* ids of Wayland toplevels, each used once
  Hosted,         \* ids of windows the shell hosts, chosen by the shell
  Slow,           \* the toplevels that may be given their first buffer late
  Ruled,          \* the windows a scratchpad rule may match
  Rules,          \* what a scratchpad rule may say of them
  Bounds,         \* which windows there may be, and what else there is besides them: a
                  \* behaviour keeps to one of these bounds
  RemovalIsSeen,  \* is the removal of a buffer still there when the handler looks?
  None

Windows == Native \cup Hosted
Option(S) == S \cup {None}
Modals == {"ProgramsMenu", "WindowSwitcher"}
Extras == Modals \cup {"Spawn", "Scratchpad", "LateBuffer"}

ASSUME WindowFocusAssumption ==
  /\ Native \subseteq Nat /\ Hosted \subseteq Nat
  /\ IsFiniteSet(Windows) /\ Native \cap Hosted = {}
  /\ None \notin Windows
  /\ Slow \subseteq Native /\ Ruled \subseteq Windows
  /\ Rules \subseteq {"none", "hidden", "visible"}
  /\ Bounds \subseteq [windows : SUBSET Windows, extras : SUBSET Extras]
  /\ RemovalIsSeen \in BOOLEAN

VARIABLE st       \* the part of CompositorState that is modelled, see States

Captures == [kind : {"None", "ShellUi"}, restore : {None}]
       \cup [kind : Modals, restore : Option(Windows)]

States ==
  [ life     : [Windows -> {"new", "deferred", "mapped", "minimized", "closing", "gone"}],
    shown    : SUBSET Native,      \* elements of the space
    pending  : SUBSET Native,      \* pending_deferred_toplevels
    handle   : SUBSET Native,      \* rows with a restore handle
    order    : Seq(Windows),       \* shell_window_stack_order, the top last
    seat     : Option(Native),     \* the keyboard's focus
    capture  : Captures,           \* shell_keyboard_capture
    ui       : Option(Windows),    \* shell_focused_ui_window_id
    selected : Option(Windows),    \* shell_window_switcher_selected_window_id
    refocus  : [Native -> Option(Windows)],   \* shell_close_refocus_targets
    asked    : Option(Native),     \* shell_pending_native_focus_window_id
    spawned  : SUBSET Native,      \* ids that are not in the spawn's known ids
    scratch  : SUBSET Windows,     \* windows of the scratchpad
    bound    : Bounds ]            \* the bound this behaviour keeps to

NoCapture == [kind |-> "None", restore |-> None]
ShellUi   == [kind |-> "ShellUi", restore |-> None]

Init ==
  \E bound \in Bounds :
  st = [ life     |-> [w \in Windows |-> "new"],
         shown    |-> {}, pending |-> {}, handle |-> {},
         order    |-> <<>>,
         seat     |-> None, capture |-> NoCapture, ui |-> None,
         selected |-> None,
         refocus  |-> [w \in Native |-> None],
         asked    |-> None, spawned |-> {},
         scratch  |-> {}, bound |-> bound ]

-----------------------------------------------------------------------------
(* What the handlers ask of a state.                                       *)

Registered(s, w) == s.life[w] \notin {"new", "gone"}
Minimized(s, w)  == s.life[w] = "minimized"

\* logical_focus_target_is_valid
Valid(s, w) ==
  /\ Registered(s, w) /\ ~Minimized(s, w)
  /\ w \in Hosted \/ w \in s.shown

KeyboardFocused(s) == IF s.seat # None /\ Valid(s, s.seat) THEN s.seat ELSE None

LogicalFocused(s) ==
  CASE s.capture.kind = "None"    -> KeyboardFocused(s)
    [] s.capture.kind = "ShellUi" -> s.ui
    [] OTHER -> IF s.capture.restore # None /\ Valid(s, s.capture.restore)
                THEN s.capture.restore ELSE s.ui

Sorted(S) ==
  [i \in 1 .. Cardinality(S) |-> CHOOSE w \in S : Cardinality({v \in S : v < w}) = i - 1]

\* What is left of q when only the members of S are kept.
Kept(q, S) ==
  LET at == Sorted({i \in DOMAIN q : q[i] \in S})
  IN  IF \A i \in DOMAIN q : q[i] \in S THEN q ELSE [k \in DOMAIN at |-> q[at[k]]]

InOrder(s) == {s.order[i] : i \in DOMAIN s.order}
Rows(s)    == {w \in Windows : Registered(s, w)}

\* Windows the order does not know yet lie below those it knows.
StackIds(s) ==
  Sorted(Rows(s) \ InOrder(s)) \o Kept(s.order, Rows(s))

\* Valid windows from the top of the stack: the candidates of the switcher.
Candidates(s) ==
  LET ids == Kept(StackIds(s), {w \in Windows : Valid(s, w)})
  IN  [i \in DOMAIN ids |-> ids[Len(ids) + 1 - i]]

PickNext(s, excluded) ==
  LET ids == Kept(Candidates(s), Windows \ {excluded})
  IN  IF ids = <<>> THEN None ELSE ids[1]

FirstOf(a, b) == IF a # None THEN a ELSE b
IfValid(s, w) == IF w # None /\ Valid(s, w) THEN w ELSE None

-----------------------------------------------------------------------------
(* Focus.                                                                  *)

\* shell_reply_window_list: the order learns the windows it does not know.
Reply(s) == [s EXCEPT !.order = StackIds(s)]

\* Mutant: the window is added above itself.
TouchTwice(s, w) ==
  IF Registered(s, w) THEN [s EXCEPT !.order = Append(@, w)] ELSE s

\* shell_window_stack_touch
Touch(s, w) ==
  IF Registered(s, w)
  THEN [s EXCEPT !.order = Append(Kept(s.order, Windows \ {w}), w)]
  ELSE s

ForgetInOrder(s, w) == [s EXCEPT !.order = Kept(@, Windows \ {w})]

\* Mutant: the window that is given the seat stays where it is in the stack.
SetSeatOnly(s, w) ==
  IF s.seat = w THEN s
  ELSE IF w = None THEN [s EXCEPT !.seat = None]
  ELSE [s EXCEPT !.seat = w, !.ui = None]

\* The seat's set_focus; a change comes back to the compositor as focus_changed,
\* which takes the shell's focus but leaves its capture of the keyboard.
SetSeat(s, w) ==
  IF s.seat = w THEN s
  ELSE IF w = None THEN [s EXCEPT !.seat = None]
  ELSE Touch([s EXCEPT !.seat = w, !.ui = None], w)

\* shell_raise_and_focus_window
RaiseAndFocus(s, w) ==
  IF ~Registered(s, w) \/ Minimized(s, w) THEN s
  ELSE LET freed == [s EXCEPT !.capture = NoCapture, !.ui = None] IN
       IF w \notin s.shown THEN freed
       ELSE SetSeat(Touch([freed EXCEPT !.asked = IF @ = w THEN None ELSE @], w), w)

TakeShellUi(s, w) ==
  Reply(Touch([SetSeat(s, None) EXCEPT !.asked = None, !.capture = ShellUi, !.ui = w], w))

\* shell_focus_shell_ui_window, of a window that need not have a placement.
FocusShellUi(s, w) == IF w \in Hosted /\ Registered(s, w) THEN TakeShellUi(s, w) ELSE s

FocusLogical(s, w) == IF w \in Hosted THEN FocusShellUi(s, w) ELSE RaiseAndFocus(s, w)

\* try_refocus_after_closed_toplevel
RefocusTop(s) ==
  LET top == PickNext(s, None)
  IN  IF top = None THEN SetSeat(s, None) ELSE Reply(FocusLogical(s, top))

\* close_refocus_target_for_window
CloseTarget(s, w) ==
  LET top == PickNext(s, None)
  IN  IF top = w THEN PickNext(s, w) ELSE top

\* Mutant: a window without a target leaves the focus where it was.
RefocusTargetOnly(s, w, hadFocus) ==
  LET target == s.refocus[w]
      taken  == [s EXCEPT !.refocus[w] = None]
  IN  IF IfValid(s, target) # None THEN Reply(FocusLogical(taken, target)) ELSE taken

\* Mutant: the window below is focused whoever had the focus.
RefocusAlways(s, w, hadFocus) ==
  LET target == s.refocus[w]
      taken  == [s EXCEPT !.refocus[w] = None]
  IN  IF IfValid(s, target) # None THEN Reply(FocusLogical(taken, target))
      ELSE RefocusTop(taken)

\* try_refocus_after_closed_window: the target was chosen when the window was
\* asked to close, and is focused whoever has the focus now.
Refocus(s, w, hadFocus) ==
  LET target == s.refocus[w]
      taken  == [s EXCEPT !.refocus[w] = None]
  IN  IF IfValid(s, target) # None THEN Reply(FocusLogical(taken, target))
      ELSE IF hadFocus THEN RefocusTop(taken)
      ELSE taken

-----------------------------------------------------------------------------
(* Minimise and restore.                                                   *)

MinimizeHosted(s, w) ==
  IF s.life[w] \in {"closing", "minimized"} THEN s
  ELSE Reply([s EXCEPT !.life[w] = "minimized", !.ui = IF @ = w THEN None ELSE @])

\* Mutant: the window is unmapped and no handle kept.
MinimizeNativeNoHandle(s, w) ==
  IF ~Registered(s, w) \/ s.life[w] \in {"closing", "minimized"} \/ w \notin s.shown THEN s
  ELSE Reply([s EXCEPT !.life[w] = "minimized", !.shown = @ \ {w}])

\* The seat is asked for its focus after the window has left the space, where
\* keyboard_focused_window_id no longer names it: the seat keeps the window.
MinimizeNative(s, w) ==
  IF ~Registered(s, w) \/ s.life[w] \in {"closing", "minimized"} \/ w \notin s.shown THEN s
  ELSE LET hidden == [s EXCEPT !.life[w] = "minimized", !.handle = @ \cup {w},
                               !.shown = @ \ {w}]
       IN  Reply(IF KeyboardFocused(hidden) = w THEN SetSeat(hidden, None) ELSE hidden)

\* shell_minimize_window
Minimize(s, w) ==
  IF w \in Hosted /\ Registered(s, w) THEN MinimizeHosted(s, w)
  ELSE IF w \in Native THEN MinimizeNative(s, w) ELSE s

\* shell_backed_restore_minimized_if_any
RestoreHosted(s, w) == IF Minimized(s, w) THEN Reply([s EXCEPT !.life[w] = "mapped"]) ELSE s

\* shell_restore_minimized_window
Restore(s, w) ==
  IF ~Minimized(s, w) THEN s
  ELSE IF w \in Hosted THEN FocusShellUi(RestoreHosted(s, w), w)
  ELSE IF w \notin s.handle THEN [s EXCEPT !.life[w] = "mapped"]
  ELSE Reply(SetSeat([s EXCEPT !.life[w] = "mapped", !.handle = @ \ {w},
                               !.shown = @ \cup {w}, !.capture = NoCapture], w))

\* shell_activate_window
Activate(s, w) ==
  IF w \in Hosted THEN FocusShellUi(RestoreHosted(s, w), w)
  ELSE IF Minimized(s, w) THEN Restore(s, w) ELSE RaiseAndFocus(s, w)

\* shell_taskbar_should_toggle_minimize
TogglesMinimize(s, w) ==
  \/ LogicalFocused(s) = w
  \/ KeyboardFocused(s) = w
  \/ LogicalFocused(s) = None /\ PickNext(s, None) = w

\* shell_taskbar_activate
TaskbarActivate(s, w) ==
  IF ~Registered(s, w) THEN s
  ELSE IF Minimized(s, w) THEN Restore(s, w)
  ELSE IF TogglesMinimize(s, w) THEN Minimize(s, w)
  ELSE FocusLogical(s, w)

-----------------------------------------------------------------------------
(* Scratchpads. There is one; what its rules say of a window is rule, and  *)
(* which of its windows it showed last is not kept: it shows any of them.   *)

ScratchForget(s, w) == [s EXCEPT !.scratch = @ \ {w}]

ScratchHide(s, w) == Minimize([s EXCEPT !.asked = IF @ = w THEN None ELSE @], w)

\* A hosted window that is not minimised is raised as if it were native.
ScratchShow(s, w) == Reply(IF Minimized(s, w) THEN Restore(s, w) ELSE RaiseAndFocus(s, w))

\* scratchpad_consider_window
ScratchConsider(s, w, rule) ==
  IF ~Registered(s, w) THEN ScratchForget(s, w)
  ELSE IF s.life[w] = "deferred" THEN s
  ELSE IF rule = "none"
       THEN IF w \in s.scratch THEN Reply([s EXCEPT !.scratch = @ \ {w}]) ELSE s
  ELSE IF w \in s.scratch THEN s
  ELSE LET in == [s EXCEPT !.scratch = @ \cup {w}]
       IN  IF rule = "visible" THEN ScratchShow(in, w) ELSE Reply(ScratchHide(in, w))

\* toggle_scratchpad: the topmost window that is not minimised is hidden; if
\* there is none, a window is shown.
Unminimized(s) == Kept(StackIds(s), {w \in s.scratch : ~Minimized(s, w)})

ToggleScratch(s, shown) ==
  LET visible == Unminimized(s)
  IN  IF visible # <<>> THEN Reply(ScratchHide(s, visible[Len(visible)]))
      ELSE ScratchShow(s, shown)

-----------------------------------------------------------------------------
(* Native windows come and go.                                             *)

\* shell_window_is_pending_spawn_focus_candidate
SpawnCandidate(s, w) == w \in s.spawned /\ Registered(s, w)

\* shell_consider_focus_spawned_toplevel
FocusSpawned(s, w) ==
  IF ~SpawnCandidate(s, w) THEN s
  ELSE Reply(RaiseAndFocus([s EXCEPT !.spawned = {}], w))

\* The end of new_toplevel and of xdg_sync_pending_deferred_toplevel.
MapToplevel(s, w, rule) ==
  LET mapped   == [s EXCEPT !.life[w] = "mapped", !.shown = @ \cup {w},
                            !.pending = @ \ {w}]
      sorted   == ScratchConsider(mapped, w, rule)
      assigned == w \in sorted.scratch
      told     == IF assigned /\ Minimized(sorted, w) THEN sorted
                  ELSE IF SpawnCandidate(sorted, w) THEN Touch(sorted, w) ELSE sorted
  IN  IF assigned THEN told
      ELSE IF told.asked = w THEN Reply(RaiseAndFocus(told, w))
      ELSE FocusSpawned(told, w)

\* The row of a native window and what is kept for it are removed. (That its id,
\* which is not used again, is still in the seat, asked for or new to a spawn, is
\* of no consequence and forgotten here.)
RemoveNative(s, w) ==
  ForgetInOrder([s EXCEPT !.life[w] = "gone", !.shown = @ \ {w}, !.handle = @ \ {w},
                          !.seat = IF @ = w THEN None ELSE @,
                          !.asked = IF @ = w THEN None ELSE @,
                          !.spawned = @ \ {w}], w)

\* toplevel_destroyed
Destroyed(s, w) ==
  LET hadFocus == KeyboardFocused(s) = w
      deferred == s.life[w] = "deferred" \/ w \in s.pending
      removed  == [RemoveNative(s, w) EXCEPT !.pending = @ \ {w}]
  IN  IF ~Registered(s, w) THEN [s EXCEPT !.pending = @ \ {w}]
      ELSE Refocus(IF deferred THEN removed ELSE Reply(ScratchForget(removed, w)),
                   w, hadFocus)

\* cleanup_dead_native_window: whether it had the focus is asked too late.
DeadProcess(s, w) ==
  LET unmapped == [s EXCEPT !.shown = @ \ {w}, !.pending = @ \ {w},
                            !.asked = IF @ = w THEN None ELSE @]
      hadFocus == KeyboardFocused(unmapped) = w
  IN  IF ~Registered(s, w) THEN s
      ELSE Refocus(Reply(ScratchForget(RemoveNative(unmapped, w), w)), w, hadFocus)

\* hide_bufferless_native_window, when the commit left the window no extent: the
\* same, and what is pending is not taken back.
PruneBufferless(s, w, removalSeen) ==
  LET unmapped == [s EXCEPT !.shown = @ \ {w}, !.asked = IF @ = w THEN None ELSE @]
      hadFocus == KeyboardFocused(unmapped) = w
  IN  IF w \notin s.shown \/ (s.life[w] = "deferred" /\ ~removalSeen) THEN s
      ELSE Refocus(Reply(ScratchForget(RemoveNative(unmapped, w), w)), w, hadFocus)

\* shell_close_window
CloseNative(s, w) ==
  LET chosen  == [s EXCEPT !.refocus[w] = CloseTarget(s, w)]
      focused == IF w \in s.shown THEN SetSeat(chosen, w) ELSE chosen
  IN  IF w \in s.shown \cup s.handle THEN [focused EXCEPT !.life[w] = "closing"]
      ELSE focused

CloseHosted(s, w) ==
  LET next    == IF s.ui = w THEN PickNext(s, w) ELSE None
      freed   == IF s.ui = w THEN [s EXCEPT !.ui = None, !.capture = NoCapture] ELSE s
      removed == Reply(ForgetInOrder(ScratchForget([freed EXCEPT !.life[w] = "gone"], w), w))
  IN  IF next = None THEN removed ELSE Reply(FocusLogical(removed, next))

Close(s, w) == IF w \in Hosted THEN CloseHosted(s, w) ELSE CloseNative(s, w)

\* cleanup_disconnected_wayland_client: C are the client's windows, and first
\* the one whose target is focused, if one has a target that is left.
Disconnected(s, C, first) ==
  LET hadFocus == s.seat \in C /\ KeyboardFocused(s) # None
      removed  == [s EXCEPT
                     !.life    = [w \in Windows |-> IF w \in C THEN "gone" ELSE @[w]],
                     !.shown   = @ \ C, !.pending = @ \ C, !.handle = @ \ C,
                     !.order   = Kept(@, Windows \ C),
                     !.scratch = @ \ C,
                     !.asked   = IF @ \in C THEN None ELSE @,
                     !.seat    = IF @ \in C THEN None ELSE @,
                     !.spawned = @ \ C,
                     !.refocus = [w \in Native |-> IF w \in C THEN None ELSE @[w]]]
  IN  IF first # None THEN Reply(FocusLogical(Reply(removed), s.refocus[first]))
      ELSE IF hadFocus THEN RefocusTop(Reply(removed))
      ELSE Reply(removed)

\* Windows of C whose target is valid once C is gone.
HaveTarget(s, C) ==
  {w \in C : s.refocus[w] \notin C /\ IfValid(s, s.refocus[w]) # None}

-----------------------------------------------------------------------------
(* The handlers the loop runs. A request of the shell or of a tool names a *)
(* window it was told of: one that is not waiting for its first map.       *)

Listed(w) == Registered(st, w) /\ st.life[w] # "deferred"

\* Bound: the windows there may be in this behaviour.
MayOpen(w) == w \in st.bound.windows

\* Bound: a toplevel is late where there are late buffers.
Late(w) == w \in Slow /\ "LateBuffer" \in st.bound.extras

\* Bound: a rule matches where there are scratchpads.
RulesOf(w) == IF w \in Ruled THEN Rules ELSE {"none"}
MayMatch(rule) == rule # "none" => "Scratchpad" \in st.bound.extras

\* Clients.
NewToplevel(w, rule) ==
  /\ ~Late(w) /\ st.life[w] = "new" /\ MayOpen(w) /\ MayMatch(rule)
  /\ st' = MapToplevel(st, w, rule)

NewDeferredToplevel(w) ==
  /\ Late(w) /\ st.life[w] = "new" /\ MayOpen(w)
  /\ st' = [st EXCEPT !.life[w] = "deferred", !.shown = @ \cup {w}, !.pending = @ \cup {w}]

\* A commit with which the window is ready. The code expects its row: without
\* one the compositor panics here, and takes no step.
CommitReady(w, rule) ==
  /\ w \in st.pending /\ Registered(st, w) /\ MayMatch(rule)
  /\ st' = MapToplevel(st, w, rule)

CommitWithoutExtent(w, removed) ==
  /\ w \in st.shown
  /\ removed => RemovalIsSeen
  /\ st' = PruneBufferless(st, w, removed)

TitleChanged(w, rule) ==
  /\ Listed(w) /\ MayMatch(rule)
  /\ st' = ScratchConsider(st, w, rule)

ToplevelDestroyed(w) ==
  /\ Registered(st, w) \/ w \in st.pending
  /\ st' = Destroyed(st, w)

ClientDisconnected(C) ==
  /\ C # {} /\ \A w \in C : Registered(st, w)
  /\ \E first \in IF HaveTarget(st, C) = {} THEN {None} ELSE HaveTarget(st, C) :
       st' = Disconnected(st, C, first)

ProcessDied(w) ==
  /\ Registered(st, w)
  /\ st' = DeadProcess(st, w)

\* minimize_request, by a toplevel that may not be mapped.
MinimizeAsked(w) == Registered(st, w) /\ st' = Minimize(st, w)

\* request_activation, with a token that is accepted.
Activated(w) ==
  /\ Registered(st, w)
  /\ st' = IF Minimized(st, w)
           THEN IF w \in st.scratch THEN st ELSE Restore(st, w)
           ELSE IF st.life[w] = "deferred" THEN [st EXCEPT !.asked = w]
           ELSE Reply(RaiseAndFocus(st, w))

\* The shell and its page.
HostedOpen(w, rule) ==
  LET opened == ScratchConsider([st EXCEPT !.life[w] = "mapped"], w, rule)
  IN  /\ Registered(st, w) \/ MayOpen(w)
      /\ MayMatch(rule)
      /\ st' = IF Registered(st, w) THEN FocusShellUi(RestoreHosted(st, w), w)
               ELSE IF w \in opened.scratch THEN Reply(opened)
               ELSE FocusShellUi(Reply(opened), w)

CloseRequest(w)    == Listed(w) /\ st' = Close(st, w)
MinimizeRequest(w) == Listed(w) /\ st' = Minimize(st, w)
ActivateRequest(w) == Listed(w) /\ st' = Activate(st, w)
TaskbarRequest(w)  == Listed(w) /\ st' = TaskbarActivate(st, w)

\* A hosted window without a row may have a placement still: what the page draws
\* itself never has a row.
ShellUiFocusRequest(w) == st' = TakeShellUi(st, w)

ShellUiBlurRequest ==
  st' = SetSeat([st EXCEPT !.ui = None, !.capture = NoCapture], None)

ProgramsMenuOpened(w) ==
  LET here == FirstOf(LogicalFocused(st), KeyboardFocused(st))
  IN  /\ "ProgramsMenu" \in st.bound.extras
      /\ st' = [st EXCEPT !.capture =
                  [kind    |-> "ProgramsMenu",
                   restore |-> FirstOf(IfValid(st, w), IfValid(st, here))]]

ProgramsMenuClosed ==
  LET restore == IF st.capture.kind = "ProgramsMenu" THEN st.capture.restore ELSE None
      closed  == [st EXCEPT !.capture = NoCapture]
  IN  st' = IF IfValid(st, restore) # None THEN FocusLogical(closed, restore) ELSE closed

\* The user. What can be hit on the shell's page: the frames it draws, around native
\* windows too, and what it draws without a row.
Placed(w) == ~Minimized(st, w) /\ (w \in Native => Registered(st, w))

\* shell_emit_shell_ui_focus_from_point, where p is hit.
FocusPlacement(s, p) == IF p = None THEN s ELSE Reply([Touch(s, p) EXCEPT !.ui = p])

PressOnShell(p) ==
  /\ p # None => Placed(p)
  /\ st' = FocusPlacement([SetSeat(st, None) EXCEPT !.capture = ShellUi], p)

\* A touch leaves the seat as it is, and is not kept from the frame of a native
\* window as a press is.
TouchOnShell(p) ==
  /\ p # None => Placed(p)
  /\ st' = FocusPlacement([st EXCEPT !.capture = ShellUi], p)

\* A press on a part of the page that is no window of the shell's: the menus over a
\* native one, or its frame.
PressOnShellOverlay == st' = [st EXCEPT !.capture = ShellUi]

PressOnNative(w) ==
  /\ w \in st.shown
  /\ st' = Reply(Touch(SetSeat([st EXCEPT !.capture = NoCapture], w), w))

PressOnDesktop ==
  st' = SetSeat([st EXCEPT !.capture = NoCapture, !.ui = None], None)

\* A touch takes the keyboard back from the shell, and where it meets no window it
\* leaves the rest.
TouchOnDesktop == st' = [st EXCEPT !.capture = NoCapture]

\* The page's placements are promoted, without the window that had the focus. A
\* native one is not among them, nor kept as a hosted one with a row is.
PromotePlacements ==
  /\ st.ui # None /\ ~(st.ui \in Hosted /\ Registered(st, st.ui))
  /\ st' = [st EXCEPT !.ui = None]

BeginScreenshot == st' = [st EXCEPT !.capture = NoCapture, !.ui = None]

\* What shell_move_begin_inner and shell_resize_begin do to the focus.
MoveOrResizeBegin(w) ==
  /\ Listed(w)
  /\ IF w \in Hosted
     THEN ~Minimized(st, w) /\ st' = FocusShellUi([st EXCEPT !.capture = ShellUi], w)
     ELSE w \in st.shown /\ st' = SetSeat(st, w)

\* The hotkey close_focused. A hosted window is left to the shell's page, which
\* answers with a request; so is what has no row any more.
CloseFocused ==
  LET focused == LogicalFocused(st)
      natives == Kept(Candidates(st), Native)
      target  == IF focused # None THEN focused
                 ELSE IF natives = <<>> THEN None ELSE natives[1]
  IN  /\ target \in Native /\ Registered(st, target)
      /\ st' = Close(st, target)

ToggleScratchpad == \E w \in st.scratch : st' = ToggleScratch(st, w)

SwitcherOpen(s) == s.capture.kind = "WindowSwitcher"
SwitcherRestore(s) == IF SwitcherOpen(s) THEN s.capture.restore ELSE None

\* shell_window_switcher_effective_selected_window_id, of an open switcher.
EffectiveSelected(s) ==
  LET candidates == Candidates(s)
      at == {i \in DOMAIN candidates : candidates[i] = SwitcherRestore(s)}
  IN  IF IfValid(s, s.selected) # None THEN s.selected
      ELSE IF at # {} THEN candidates[((CHOOSE i \in at : TRUE) % Len(candidates)) + 1]
      ELSE IF candidates = <<>> THEN None ELSE candidates[1]

\* What is selected is not forgotten when something else takes the capture.
SwitcherCycle(reverse) ==
  LET candidates == Candidates(st)
      here    == FirstOf(LogicalFocused(st), KeyboardFocused(st))
      restore == FirstOf(SwitcherRestore(st), IfValid(st, here))
      pivot   == FirstOf(FirstOf(IfValid(st, st.selected), restore), candidates[1])
      at      == {i \in DOMAIN candidates : candidates[i] = pivot}
      i       == IF at = {} THEN 1 ELSE CHOOSE j \in at : TRUE
      n       == Len(candidates)
  IN  /\ n >= 2 /\ "WindowSwitcher" \in st.bound.extras
      /\ st' = [st EXCEPT
                  !.capture = IF SwitcherOpen(st) THEN @
                              ELSE [kind |-> "WindowSwitcher", restore |-> restore],
                  !.selected = candidates[IF reverse THEN ((i + n - 2) % n) + 1
                                             ELSE (i % n) + 1]]

SwitcherEnd(target) ==
  LET closed == [st EXCEPT !.selected = None, !.capture = NoCapture]
  IN  st' = IF target # None THEN FocusLogical(closed, target) ELSE closed

SwitcherCancel ==
  /\ SwitcherOpen(st)
  /\ SwitcherEnd(IfValid(st, st.capture.restore))

SwitcherCommit ==
  /\ SwitcherOpen(st)
  /\ SwitcherEnd(FirstOf(EffectiveSelected(st), IfValid(st, st.capture.restore)))

\* try_spawn_wayland_client_sh: the windows there are now are known; when nothing
\* is spawned, nothing is waited for.
Spawn ==
  /\ "Spawn" \in st.bound.extras
  /\ st' = [st EXCEPT !.spawned = {w \in Native : st.life[w] = "new"}]

SpawnFailed ==
  /\ "Spawn" \in st.bound.extras
  /\ st' = [st EXCEPT !.spawned = {}]

WindowListRequested == st' = Reply(st)

ByClient ==
  \/ \E w \in Native :
       \/ \E rule \in RulesOf(w) : NewToplevel(w, rule) \/ CommitReady(w, rule)
       \/ NewDeferredToplevel(w)
       \/ \E removed \in BOOLEAN : CommitWithoutExtent(w, removed)
       \/ ToplevelDestroyed(w) \/ ProcessDied(w) \/ MinimizeAsked(w) \/ Activated(w)
  \/ \E C \in SUBSET Native : ClientDisconnected(C)
  \/ \E w \in Windows : \E rule \in RulesOf(w) : TitleChanged(w, rule)

ByShell ==
  \/ \E w \in Hosted : (\E rule \in RulesOf(w) : HostedOpen(w, rule)) \/ ShellUiFocusRequest(w)
  \/ \E w \in Windows :
       CloseRequest(w) \/ MinimizeRequest(w) \/ ActivateRequest(w) \/ TaskbarRequest(w)
  \/ ShellUiBlurRequest \/ ProgramsMenuClosed \/ PromotePlacements
  \/ \E w \in Option(Windows) : ProgramsMenuOpened(w)
  \/ WindowListRequested

ByUser ==
  \/ \E p \in Option(Hosted) : PressOnShell(p)
  \/ \E p \in Option(Windows) : TouchOnShell(p)
  \/ PressOnShellOverlay \/ PressOnDesktop \/ TouchOnDesktop \/ BeginScreenshot
  \/ \E w \in Native : PressOnNative(w)
  \/ \E w \in Windows : MoveOrResizeBegin(w)
  \/ CloseFocused \/ ToggleScratchpad
  \/ \E reverse \in BOOLEAN : SwitcherCycle(reverse)
  \/ SwitcherCancel \/ SwitcherCommit
  \/ Spawn \/ SpawnFailed

Next == ByClient \/ ByShell \/ ByUser

Spec == Init /\ [][Next]_st

-----------------------------------------------------------------------------
(* Properties.                                                             *)

\* TypeOK: the state is one of States, and no window is twice in the order.
TypeOK ==
  /\ st \in States
  /\ \A i, j \in DOMAIN st.order : st.order[i] = st.order[j] => i = j

\* A window is never lost: a native window with a row is an element of the space
\* or has the handle that brings it back, and an element of the space has a row
\* that is not minimised. (A window without either is in the taskbar, and
\* nothing shows it again.)
NoWindowLost ==
  \A w \in Native :
    /\ Registered(st, w) => w \in st.shown \cup st.handle
    /\ w \in st.shown => Registered(st, w) /\ ~Minimized(st, w)

\* v lies above w in the stack, or w is not in it.
Above(s, v, w) ==
  \E j \in DOMAIN s.order :
    s.order[j] = v /\ \A i \in DOMAIN s.order : s.order[i] = w => i < j

MapsInScratch(v) == v \in st.scratch /\ \E rule \in RulesOf(v) : CommitReady(v, rule)

\* The window the seat is given is on top of the native ones, and while it has the
\* seat a native window comes to lie above it by a touch on its frame only (which
\* leaves the keyboard to the page): the window the user types into is not painted
\* under another. A hosted window may lie above it: a touch on the page leaves the
\* seat. And so may a toplevel that a scratchpad took in before its first buffer,
\* when a spawn waits for it: its map raises it, and the focus stays where it is.
FocusAgreesWithStack ==
  [][ LET w == st'.seat
      IN  w # None => \A v \in Native :
            Above(st', v, w) => \/ w = st.seat /\ Above(st, v, w)
                                \/ TouchOnShell(v) \/ MapsInScratch(v) ]_st

\* When the window with the keyboard is destroyed or its client disconnects, the
\* focus is on a window again, if one is left.
FocusSurvivesClose ==
  [][ \A w \in Native :
        /\ st'.life # st.life /\ ~Registered(st', w)
        /\ KeyboardFocused(st) = w /\ Candidates(st') # <<>>
        /\ ToplevelDestroyed(w) \/ \E C \in SUBSET Native : w \in C /\ ClientDisconnected(C)
        => LogicalFocused(st') # None /\ Valid(st', LogicalFocused(st')) ]_st

\* A window that appears, is hidden or ends by what its client does takes the
\* focus from a window that could keep it only where that was asked for: by an
\* activation, for a window that was spawned, by a scratchpad that shows its
\* window, by the end of the window that has the seat or of one that was asked to
\* close, for the target chosen then, and behind an open menu for the window the
\* menu gives the focus back to, minimised by its client before its first buffer.
NoFocusStolen ==
  [][ LET had == LogicalFocused(st)
          w   == LogicalFocused(st')
          Ended(v) == Registered(st, v) /\ ~Registered(st', v)
      IN  st'.life # st.life /\ had # None /\ w # had /\ Valid(st', had) /\ ByClient
          => \/ w \in Native /\ (Activated(w) \/ w \in st.spawned \/ w = st.asked)
             \/ w \in st'.scratch \ st.scratch
             \/ w = st.capture.restore /\ w \in st.pending \ st.shown
             \/ \E v \in Native :
                  Ended(v) /\ (KeyboardFocused(st) = v \/ (st.refocus[v] = w /\ w # None)) ]_st

\* A toplevel that waits for its first buffer has a row: what
\* xdg_sync_pending_deferred_toplevel expects when the buffer is there, "pending
\* map: registry row".
PendingHasRow == \A w \in st.pending : Registered(st, w)
=============================================================================
