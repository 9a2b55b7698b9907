# Verification of derp-workspace

TLA+ models of the parts of derp-workspace in which order, concurrency and stale
state decide whether the program is right, the TLC configurations that check them on
small instances, and TLAPS proofs of what matters most for every size. Every
definition is translated from the source; `PROJECT.json` maps each one to its file
and lines, lists the runs, the hazards the properties are for, and the theorems.

    tlc -workers 2 -config MCFrameMailbox.cfg MCFrameMailbox     # a run
    tlapm FrameMailboxProofs.tla                                 # a proof module

## The system

derp-workspace is a Wayland compositor (Rust, on smithay) whose whole desktop
interface, the *shell*, is a web page (SolidJS) that CEF renders off screen inside
the compositor's process. Three parties run at the same time:

- the **compositor thread**: a calloop loop that owns all compositor state and runs
  one handler at a time;
- **CEF's UI thread**: it hands painted frames to the compositor, and runs the tasks
  that carry compositor messages to the page;
- the **page**, in a renderer process: it gets notifications and batches of messages
  over IPC, and reads a shared-memory file directly.

Beside them are short-lived threads (password checks, HTTP control server) that
reach the compositor only by closures sent to its loop, and two that live as long as
it does and share the notifications behind a mutex: zbus's executor and the
notifications service.

### Inventory

| component | state | operations | talks to | hard | must hold |
|---|---|---|---|---|---|
| Frame path (`cef/frame_sink.rs`, `cef/compositor_tx.rs`, `state/shell_osr.rs`, `desktop/desktop_stack.rs`) | a one-frame slot, an atomic flag, a channel of wake-ups; the accepted frame, its commit and damage | paint, replace, wake, take, accept or refuse, finish, render | CEF thread to loop, by slot and channel; loop to outputs, by commit counter | two threads; flag and slot are not one atomic; frames overwritten, refused, halfway accepted | no wake-up lost or doubled; outputs repaint what changed |
| Message delivery (`cef/bridge.rs`) | urgent queue, detail queue, pending snapshot, `scheduled` | send, coalesce, post, UI task, repost, page load | loop to CEF thread, by queues and posted tasks; CEF thread to the page | two threads; a refused post; loads during a task; conflation | nothing stranded, no detail ahead of its snapshot, only superseded messages lost |
| Snapshot synchronisation (`compositorBridgeRuntime.ts`, `App.tsx`, `shell_snapshot.rs`) | shared file with an odd/even sequence and a revision per domain; the page's view of each domain | publish, notify, batch, read, gap check, recovery request | CEF thread to page, by shared memory and IPC; page to loop, by requests | a partial snapshot overwrites the one before; torn reads; late batches; a throttle | the page shows the compositor's state in the end and does not go back |
| Workspace model (`session/workspace_model.rs`, `state/workspace_session.rs`, `state/workspace.rs`) | groups of tabs, active tab, pins, splits, a counter of group ids | mutations from the shell, reconciliation with the window registry, focus, session restore, custom layouts | the shell asks; the window registry changes under it | long sequences; requests computed against an older state; side effects after a synchronisation | the state is well formed, ids are fresh, what nobody asked about stays |
| Lock screen (`state/lock_screen.rs`) | phase, origin, `authenticating`, settings | lock, submit a password, its answer, client locks and unlocks | shell; a thread per password; ext-session-lock clients | an answer that arrives later; two who may lock; clients that die | unlocked only by who holds the lock, and locked only while enabled |
| Shared files (`shell_wire/src/lib.rs`, `cef/shared_state.rs`, `cef/shell_snapshot.rs`, `shellHostedSurfaceRegistry.ts`, `shellExclusionSync.ts`) | three memory-mapped files: header with an odd/even sequence, payload; stamps; a staged placement | measure, flush, write, send, read, apply, promote | page and compositor, both ways; message of a write and reads without one | no lock: every store and load is a step; header copied in two halves; outputs change under a payload | what is read is one payload, whole; the latest is applied in the end |
| Window registry and revisions (`state/windows.rs`, `shell_snapshot_model.rs`, `compositorModel.ts`) | window list, order, revision counters on both sides | register, reorder, snapshot, apply details | both ends of the wire | details and snapshots of different revisions | an older revision never replaces a newer one |
| Focus stack (`state/focus_stack.rs`, `state/input_routing.rs`, `state/windows.rs`) | order of windows, the seat's focus, captures of the keyboard, window to focus next, switcher | press, activate, raise, cycle, refocus after a close | registry, seat, shell, workspace model | handlers that call one another; the target of a refocus chosen long before it is used | focus and order agree; focus moves only where asked |
| Native windows (`handlers/xdg_shell.rs`, `state/native_window_ops.rs`) | rows with a lifecycle, elements of the space, pending toplevels, restore handles | new, commit, minimise, restore, close, destroyed, disconnect | clients, registry, shell, focus | clients answer late, and in any order | no window is in none of space and handles; a pending toplevel has a row |
| Scratchpads (`state/scratchpads.rs`) | rules, windows taken in, those shown | consider, hide, show, toggle | registry, focus, workspace model | windows that are registered and not listed | such a window is never a tab and never lost |
| Notifications (`notifications/mod.rs`, `state/tray_notifications.rs`) | banners, history, `enabled`, a revision; the compositor's copy; the settings file | notify, close, act, expire, enable; reply and its time-out | D-Bus, service thread, loop | change, snapshot and sending are three steps of two threads; replies after the time-out | an end is told once; the copy is the runtime's state |
| Move and resize (`state/shell_move_resize.rs`) | the current grab | begin, motion, end, cancel | shell, seat, workspace model | the surface goes during the grab | no grab without its window |
| Layouts, outputs, sessions, explicit sync, capture, on-screen keyboard, tray, X11, control server, rendering, wire format, shell UI | see `components` in `PROJECT.json` | | | mostly data or I/O | |

`hazards` in `PROJECT.json` names, at its line, everything found in this code that a
test would hardly reach, with the properties that watch it, or why none does.

## The modules

| module | models | proofs | runs |
|---|---|---|---|
| `FrameMailbox` | a painted frame's way from CEF to an output | `FrameMailboxProofs` | `frame_mailbox` |
| `SharedState` | the three shared files, store by store, and what both ends do with them | `SharedStateProofs` | `shared_state` |
| `LatestValue` | abstract: what both of the above promise | | (refined in their runs) |
| `ShellDelivery` | a compositor message's way to the page | `ShellDeliveryProofs` | `shell_delivery` |
| `SnapshotSync` | the page's view of the compositor's state, and its mutations of it | `SnapshotSyncProofs` | `snapshot_sync`, `snapshot_sync_throttle` |
| `WorkspaceModel` | groups, tabs, pins, splits | `WorkspaceModelProofs` | `workspace_model`, `workspace_closed_tab` |
| `WindowFocus` | windows' lives, order and focus, scratchpads | `WindowFocusProofs` | `window_focus`, `window_focus_pending` |
| `LockScreen` | locking and unlocking | `LockScreenProofs` | `lock_screen` |
| `Notifications` | banners, history and the compositor's copy of them | `NotificationsProofs` | `notifications`, `notifications_overtaken` |

Each but the abstract one has an `MC` module with the values of its constants.
Operators that follow a comment `Mutant:` are bugs of the kind someone could write
there; replacing the definition after them with one must violate a property, and
each property has one.

### FrameMailbox

A frame's pixels are a version number per region of the canvas. CEF's thread is
`producer` in `push_dmabuf_planes`: `ReplaceFrame` (the mutex), `ReplaceSwap` (the
atomic swap) and `SendWakeup` (the channel) are separate steps, as are the
consumer's `TakeFrame`, the verdict on the frame, and `FinishStore`, `FinishCheck`
and `FinishSwap` of `finish_dispatch`. A frame may be refused for its number
(`DropOldFrame`), its size (`RejectSize`), or when its buffer cannot be built
(`RejectBuild`, *after* `prepare_frame_damage` has changed the damage of the frame
before). `RenderOutput` repaints what `damage_since` answers. `lost` is history: the
regions of damage that were in a frame nobody accepted.

What is claimed: `OneWakeup` (the flag is raised exactly while one wake-up is owed),
`FrameNeverForgotten` (a full slot has somebody who will look), `OutputShowsFrame`,
and `RefinesLatestValue`: slot and dispatch loop implement `LatestValue`, liveness
included, so that every frame is replaced or taken, and let go of.
`OutputShowsFrame`: an output that rendered the accepted commit shows the accepted
frame, except in regions of lost damage. The exception is the code's: an overwritten
frame takes its dirty regions with it, and the next commit looks like one step.

Bounds: two regions (one that a frame damages and one that it does not), three
paints (one overwritten while another is held; two accepted between two renders), a
frame counter that wraps at 3 and starts anywhere, so that the comparison of wrapped
numbers meets both sides. Fairness: a thread inside a push or a dispatch goes on.
CEF need not paint and no output need be rendered.

### ShellDelivery

A message has a kind and a number; kinds are keyed (a later one replaces an earlier
one in the queue), urgent input (pointer moves coalesce only when adjacent), and
snapshotted (they come with a snapshot of some epoch). The queues' mutex makes each
look into them one step. `SendWithSnapshot` raises `scheduled` and leaves the
posting to `Post` or `PostRefused`, then `Unschedule`: the flag and the post are not
one step in the code either. The UI task goes through `TakePending`, `ApplyUrgent`,
`PublishSnapshot`, `ApplyDetails`, `DecideRepost`, `Repost`. `SetDeliveryReady` is
the page's load events, at any time.

What is claimed: `NoMessageStranded` (queued messages have a task, and a raised flag
has a task or a thread that serves it), `QueuesDrain` (liveness),
`NoDetailAheadOfSnapshot`, `PublishNeverRefused`, `SnapshotIsTruthOfItsEpoch`,
`DeliveredInOrder` and `OnlySupersededLost`.

Bounds: one kind of each sort; three sends (two in the queues while one is taken; a
move, a button and a move), two changes of readiness, one refused post. Fairness:
CEF runs the tasks it accepted, and the compositor's thread finishes a call it is
in. Nothing obliges anybody to send or a page to load.

### LatestValue and SharedState

`LatestValue` is a slot of which only the latest value matters and a hand that works
on one value at a time. `FrameMailbox` maps its slot and the frame in the loop's
hands to it; `SharedState` maps the file and the payload being applied.

`SharedState` looks at one of the three files in a behaviour (`kind`). The writer
fills an opening header, writes its fields and its odd sequence, copies the payload
cell by cell, and does the same again with the even sequence (`FillHeader`,
`WriteFields`, `OpenSequence`, `CopyCell`, `CloseSequence`). The reader loads the
header in two halves, in either order, then the cells, then the header again
(`LoadHalf`, `LoadOtherHalf`, `LoadCell`, `RefuseCopy`, `AcceptCopy`). Around that
are the page's measuring, its flush when something changed or the layout of the
outputs did, writes that fail, sync messages (`FlushChanged`, `FailWrite`,
`SendSync`), and the compositor, which reads on a message or without one, refuses
payloads of an older layout of the outputs, stages placements until a frame is
accepted, and loses and regains outputs (`ReadOnMessage`, `ReadUnasked`, `Apply`,
`PromoteWithFrame`, `LoseOutputs`, `SendOutputLayout`).

What is claimed: `RefinesExchange` (`LatestValue`'s safety: what a reader gets is
the payload of one write, whole, and the latest complete one when it was accepted)
and `UpToDate` (at rest the compositor has what the page wrote last, and of the
exclusion zones what it measured last). Both exempt what the code does lose: a
header copied half before and half after the writer's store pairs a new sequence
with the length 0, so that a payload is consumed unread (`missed`, until the next
write); and the page accepts the sequence 0 of a header that is being rewritten. A
writer that never rests starves the reader, and nothing is claimed of when it reads.

Left out: that a promoted placement takes focus and grabs from what it hides
(`WindowFocus` has the focus), clamping, sorting and the maximum of rows, the forced
`snapshot_read(None)`, a sequence beyond 2^64, a page without its main element, a
renderer that restarts, and when frames are accepted. Bounds: three writes (a reader
overtaken twice), two revisions of the outputs (a payload measured for the one that
is gone), layouts of no row or one of two windows, which are interchangeable
(`Symmetry`): two lengths, and two payloads of one length.

### SnapshotSync

The state is a set of domains with a version each. A change sends details and a
partial snapshot (`Change`); the UI task publishes it in two steps, with an odd
sequence between them (`BeginPublish`, `EndPublish`), and sends a notification and a
batch (`ApplyDetails`). The page handles them one by one: it reads the snapshot when
it can (`Read`), finds gaps in the revisions of the domains it did not read
(`MissedContents`), applies details directly where the snapshot omits their domain
(`SyncOnBatch`), and asks for recovery unless it asked within the last second
(`RequestRecovery`, `Ask`, `TimePasses`). The compositor answers with messages for
every recovery domain, one after the other (`AnswerRequest`, `Resend`).

The page also sends mutations (`SendMutation`), which the compositor applies, or
finds nothing to do for, and acknowledges (`Mutate`, `MutateNothing`, `Ack`). A
mutation is pending until the page has both its acknowledgement and the snapshot the
acknowledgement names, or until its time is over (`HandleAck`, `Reconcile`); while
one is, recovery requests are deferred (`client.deferred`, `FlushDeferred`).

What is claimed: `LastSnapshotRead`; `RecoveredWhenQuiet`, unless a request was
throttled while none was on its way; `MutationsSettled` (no mutation and no deferred
request is left once all messages were handled, without a time-out: nothing else
would look at them again); and `SnapshotDomainsAdvance`, for domains the page takes
from snapshots alone. The others may go back: a late focus detail is applied
whatever its epoch, and the gap check asks for recovery later. The `Quiet`
properties speak of states in which nothing is under way; they are invariants and
need no fairness.

The details a task or a message of the wire carries are a set with at most one of a
domain, whose order nothing depends on. `Resent` is any of the answers that the
compositor may give to a request: all of them name recovery domains, and what a page
applies directly is among what it recovers (`DomainsAssumption`, after
`uplink.rs:419` and `compositorBridgeRuntime.ts:416`). `HandleAcks` is a recursive
function over the acknowledgements of one batch, handled in their order.

Left out: what a mutation changes besides one domain, optimistic state, and the
page's boot sync. `SharedState` justifies the read of a snapshot as one step.

Bounds: a domain of each sort (windows, which recover and carry geometry; focus,
which recovers and is also applied as a detail; geometry, which does not recover),
three changes and mutations together (a snapshot overwritten unread, a late batch,
and a change between a request and its answer), two requests (one to drop).

### WorkspaceModel

`WorkspaceState` with groups as a sequence, group ids as numbers, and a split as its
left window. `Reconcile`, `Restore`, `InsertIntoGroup`, `Merge`, `ValidSplits` and
the mutations are operators on that state, in the order the code computes in, each
followed by what the handler does after it (`Apply...`: the layout, the activation).
The handlers that change the registry (`Register`, `Show`, `Hide`, `CloseHosted`,
`DestroyDeferred`, `Destroy`, `MoveEndSurfaceless`) say which list of windows each
of them synchronises with: some use every registered window and some only those that
are listed. `request` is history: the windows a handler was about, and the one it
activated. All this is on the compositor's thread, so a handler is one step.

What is claimed: `NoInvariantWarnings` (the code's own list, a panic in debug
builds), `EveryListedWindowIsATab`, `GroupIdsFresh`, `ActivatedTabIsVisible`,
`OthersKeepTheirPlace`, `ShownTabsStay`, and `PinnedTabsLeadUnmerged`: pinned tabs
lead, as long as no output has a custom automatic layout, nor had one when a session
was saved (`SessionsLead`; restoring does not sort). With one they do not:
`workspace_merge_group_into_group` appends past the function that keeps pinned tabs
in front, and nothing in the repository says what it should do. The run has both
kinds of behaviours (`CustomAutos`).

Bounds: three windows (a split needs two, and one to come between), two saved
sessions (a split with a pinned tab whose id may be in use; a group with an id
beyond all others), four groups made in a behaviour (`MaxSeq` 5), so that ids are
left over, reused by sessions and skipped. Which groups a custom layout merges is
open: every choice is explored. The states are told apart without `request`, which
no step reads; properties about steps are checked on every step all the same.

### WindowFocus

One record `st` holds the part of `CompositorState` that decides where the keyboard
goes: each window's life, the elements of the space, pending toplevels, restore
handles, the order of windows, the seat, the shell's capture of the keyboard, the
switcher, spawned processes, scratchpads. Handlers end in one another (closing
focuses, focusing raises, mapping may hide), so every function of the code is an
operator from a state to a state, handlers compose them in the code's order, and an
action is what the loop runs: what a client does (`NewToplevel`,
`NewDeferredToplevel`, `CommitReady`, `CommitWithoutExtent`, `ToplevelDestroyed`,
`ClientDisconnected`, ...), what the page asks for, what the user presses and
touches, hotkeys, the switcher, scratchpads.

What can be hit on the shell's page are its own windows, what it draws without a
row, and the frames it draws around native windows (`Placed`). A press and a touch
differ there. `PressOnShell` takes the seat and is kept from the frame of a native
window (`input/mod.rs:1426`; such a press is `PressOnShellOverlay`). `TouchOnShell`
is not (`input/mod.rs:1102`): it raises the native window, makes it the page's
focused window, so that `ui` may be any window, and leaves the seat.

What is claimed:

- `NoWindowLost`: a row is in the space or has a restore handle, and an element of
  the space has a row that is not minimised.
- `FocusAgreesWithStack`: whoever is given the seat is on top of the native windows,
  and no step brings one to lie above it while it has the seat. Two kinds of steps
  are exempt, each for the one window it is about, because the code does it and
  nothing in the repository says otherwise. A touch on a native window's frame
  raises it (the page has the keyboard then). And a toplevel that a scratchpad took
  in before its first buffer (`MapsInScratch`) may be mapped while a spawn is waited
  for; then `mod.rs:2575` raises it, `scratchpads.rs:173` has it already, and the
  focus stays where it is. The attempt to prove the property found the second;
  without either exemption TLC finds it violated. A window that came above so may
  stay there until the seat moves.
- `FocusSurvivesClose`: the end of the window with the keyboard leaves the focus on
  one.
- `NoFocusStolen` lists the only reasons for which something a client does may take
  the focus. One is a corner: a menu that is open gives the focus back to a window,
  and that may be a toplevel its client minimised before its first buffer
  (`MinimizeAsked`, which a client may ask of any toplevel it has) and now maps.
- `PendingHasRow` is the compositor's own `expect`, and does not hold.

Minimising asks whether the window has the keyboard after it has left the space,
where the answer is always no: the seat keeps a window that is not shown. The model
has that; what the compositor asks (`keyboard_focused_window_id`) does not show it.

Left out: X11, popups, layer surfaces, grabs and drags (with `xdg_force_map`), what
tab groups do to the focus, changes of the scratchpads' settings while windows are
in them, the shell's embedded toplevel, indicators of a shared screen, automatic
layout, keyboard layouts, geometry. Which scratchpad window was shown last is any of
them.

Bounds: two toplevels and a hosted window. A behaviour has all three, each toplevel
with its buffer (a window that closes has two to choose from); or two of them, a
toplevel that gets its buffer late and another window, and one of: the programs menu;
the switcher; spawns and a scratchpad with any rule for the late toplevel and the
hosted window (the other toplevel is the one whose focus could be taken).

### LockScreen

The phases and origins, one thread per password with its answer (`ThreadAnswers`,
then `FinishAuth` when the loop receives it), the settings, and clients of
ext-session-lock that lock, unlock and die. `locks` and `attempts` number locks and
passwords, so that an answer can be told to belong to another lock. The code carries
no such number: `lock_screen_finish_auth` believes every answer.

What is claimed: `AnswerMeetsItsLock` (and yet no answer is ever for another lock),
`OneHolder`, `LockedWhileEnabled`, `UnlockedByHolder`, `EveryPasswordAnswered`
(liveness). A client that dies while it holds leaves the session locked with nobody
who may open it or take over; the model has that state, and the protocol wants it.

Bounds: two clients, three locks, three passwords: a lock by each and a third that
an old answer could meet. Fairness: `su` ends, and the loop runs what it is sent.

### Notifications

Two threads take the runtime's mutex: `bus`, on which zbus serves
`org.freedesktop.Notifications`, and `svc`, which takes the compositor's commands
one by one and lets banners expire. A change is one lock section (`BusNotify`,
`BusClose`, `SetEnabled`, `ShellNotify`, `Close`, `InvokeAction`, `CloseTheActed`,
`ExpireDue`); the snapshot of it is another (`TakeSnapshot`), the sending a third
step (`SendState`), the events follow (`SendEvents`). `todo` is what is left of the
handler a thread is in. The loop sends commands, and for some stops until the reply
or two seconds have come (`AskEnabled`, `AskNotify`, `ReplyTimeout`, `SendReply`);
only after the reply is the setting written, which may fail. A message counts as
received when it is sent: the channel keeps the order and one loop reads it.

What is claimed: `LoopAgrees` (at rest the compositor's copy is the runtime's state
and the file has its setting), `EndsToldOnce` (each end of a banner goes to bus and
page once, and none of one that is still there), `HistoryAgrees`, and `OverdueLeave`
(liveness). Exempt: a copy that is older than one sent before it (`newest`, see the
findings), a setting whose last change was not answered in time or not written
(`unsaved`), and the row of a notification that came while banners were disabled
(`muted`), which the end of the banner it replaced overwrites.

Left out: texts and their limits, times but the expiry's, `GetState`, the event that
an action was picked, a poisoned mutex, a session without a bus, ids beyond 2^32,
the page. Ends of one expiry are told as one step. Bounds: three calls and commands
(a banner, its end by one thread, and what the other does between), one command in
the queue, one tick, a history of two rows, so that a third falls out. Fairness: the
service's thread goes on (`WF_vars(Svc)`). `OverdueLeave` relies on the bound too:
requests without a summary skip the expiry, and an endless stream of them would put
it off for ever.

## What the runs show

Eight runs pass; four show a property that the code violates. Deadlock is checked in
`window_focus` and `window_focus_pending`. `CHECK_DEADLOCK` is off elsewhere: with
the bounds reached, or nobody asking for anything, the system may stop.

| run | result |
|---|---|
| `frame_mailbox` | holds: no interleaving loses or doubles a wake-up or leaves a frame in the slot; outputs are right up to lost damage |
| `shared_state` | holds: no torn payload is applied, and at rest the latest one is, outputs that come and go and failed writes included |
| `shell_delivery` | holds: no stranded, reordered or early message, also through page loads and a refused post |
| `snapshot_sync` | holds: overwritten and torn snapshots are made up for, unless the throttle drops the request; no mutation defers that for ever |
| `workspace_model` | holds, with and without custom automatic layouts |
| `window_focus` | holds: no window is lost, no toplevel comes above the seat's but by the two exempt steps, and the focus goes only where it was asked to |
| `lock_screen` | holds |
| `notifications` | holds, up to states that overtook each other |
| `snapshot_sync_throttle`, `workspace_closed_tab`, `window_focus_pending`, `notifications_overtaken` | violated, see below |

### Findings

1. **A throttled recovery is never repeated** (`snapshot_sync_throttle`,
   `App.tsx:1057`). A request within a second of the last one returns silently. A
   recovery domain that was skipped in that second stays stale until something else
   changes. The test of the recovery stubs the throttled function.
2. **Closing the shown tab shows the first one, not the next**
   (`workspace_closed_tab`, `workspace_session.rs:446`).
   `next_active_window_after_removal` runs after the synchronisation that has
   forgotten the closed window, so that it never finds its group.
3. **A toplevel that is closed before its first buffer can panic the compositor**
   (`window_focus_pending`, `native_window_ops.rs:957`). The close changes its
   lifecycle, the next commit without a buffer then removes its row, and it stays in
   `pending_deferred_toplevels`; when its first buffer comes,
   `xdg_sync_pending_deferred_toplevel` expects the row (`mod.rs:2550`).
4. **A dismissed notification can stay on the screen** (`notifications_overtaken`,
   `notifications/mod.rs:377`). The bus thread and the service each take a snapshot
   in a lock section of its own and send it later. The older may arrive last; nobody
   compares the revisions it carries. The page shows a banner that is closed, and
   Dismiss finds none and sends nothing, until something else changes.

## What is proved

TLAPS checks the theorems below for every value of the constants. The assumptions
are those stated beside the constants (`RegionsAssumption`, `GenAssumption`,
`LayoutsAssumption`, `LockScreenAssumption`, `NotificationsAssumption` and their
like): there is some region, bounds and moduli are natural numbers, `NoLayout` is
not a layout. TLC evaluates them on each run.

**FrameMailboxProofs.** `TypeCorrect`; then `WakeupsCounted` and
`SlotNeverForgotten` from `WakeupInv`, their conjunction with the types: a full slot
can be shown to have an owner only if the flag is known to count wake-ups. Then
`OutputsAreRight`, which is far from inductive: what an output shows depends on
damage that is still in the slot, in the loop's hands, or held with the accepted
commit. `DamageInv` strengthens it with `Chain` (what is painted, in the slot, held
and accepted differ from one another only where the later one is dirty, up to
`lost`), `DamageNonEmpty` (damage handed on is never empty, which `damage_since`
would answer with a full repaint) and `OutputBehind` (an output one commit behind
differs from the accepted frame only in its damage, and one at the commit does not
differ). `RefinesSafety`: under the mapping of `RefinesLatestValue` every step is a
put, a take, a letting go, or none of them; the types suffice.

**SharedStateProofs.** `TypeCorrect`, and `WholePayloads`, the refinement of
`LatestValue`, from `IInv`: `WriterInv` (where the writer is and what it holds),
`FileInv` (what the file contains at each of its steps: a whole payload while the
writer rests, as many of the new cells as were copied while it does not),
`ReaderInv` (cells copied under a sequence are those of that sequence's write, as
long as the file still shows it) and `MissedInv`. Lemmas `FileSequence` and
`WholePayload` are the seqlock's argument: a second look that finds the sequence of
the first says that no write began between them.

`AgreeAtRest` (`UpToDate`) follows a layout from the page's measurement to the
compositor's copy. `PageInv`: what the page writes, or wrote last, is what it
measured and remembers, or a flush is due. `HeaderInv`: what the header of a
finished write says. `ComingInv`: a write the compositor has not read has a message,
or a read that met nothing but this write (`Seeing`), that will bring it.
`AppliedInv`: of the last write read, the compositor has the layout, or will be sent
another, as the layout of the outputs is no longer the one it was measured for
(`Reflected`).

**SnapshotSyncProofs.** `SnapshotRead` from `SequenceInv`: while the page's last
sequence is not the published one, a message that makes the page look is on the wire
or the UI task will send one (`LookComing`). `SnapshotsAdvance` from `VersionInv`:
every place a version passes through lags behind the one before: the page's view
behind the file, the file behind what was taken, that behind the compositor.

`TypeCorrect` and `MutationsSettle` come from `TypeInv`, `CountInv` (a mutation is in
the uplink once, and the changes made and asked for bound every version), and
`AckInv`: nobody waits twice, a deferred request has a mutation that it waits for
(`Sound`), a mutation without an epoch still has its acknowledgement coming
(`Unanswered`), and one with an epoch waits for a snapshot that the page has not
read (`Awaits`). With `LatestInv`, the last snapshot is in the file or on its way
there, nothing is left to wait for when nothing is under way.

`Recovered` is the argument of the protocol: a domain that a later partial snapshot
overwrote before the page read it is made up for. `PageKnows` says for every
recovery domain whose latest revision the page has: its view is what the file shows,
or a recovery is owed or under way (`Coming`: requested, deferred, throttled, or in
the compositor's answer), or a later detail of the domain is still to come. It needs
what details and their epochs say (`DetailInv`, `DetailEpochs`, `DetailValues`), and
that the compositor's pending messages have the domain's last version
(`WriterKnows`). A lemma for each of the page's operators says that it leads from a
sound state to a sound one and forgets no recovery (`Later`). The acknowledgements of
a batch are handled by a recursive function, so that this needs an induction over
their number: `HandleAcksLead` has it as a least-element argument over the run of
states the function passes through (`RunExists`).

**ShellDeliveryProofs.** `TypeCorrect`; `NeverStranded` from `WakeupInv`, which adds
why a thread may lower the flag (`UnscheduleHasReason`): only after a refused post,
or because the page went. `EpochsAdvance` and `SnapshotFirst` from `EpochInv`: the
place of the newest snapshot (pending, taken or published) carries the epoch the
compositor issued last, the places are in that order, and details that were taken
lie at or below the snapshot taken with them. Without the first, a detail sent
without a snapshot of its own could refer to one that is nowhere any more.

Three more theorems are about what becomes of every message, told from the log of
sends. `LogInv`: what is queued, taken or delivered is the log's message of its
number. `PublishedTruth` (`SnapshotIsTruthOfItsEpoch`) from `TruthInv`: the pending,
the taken and the published snapshot each cover, of every kind, the last message
that was sent with a snapshot up to their epochs (`Covers`, `SnapshotOrder`), so that
replacing one by a later one forgets nothing. `LanesInOrder` (`DeliveredInOrder`)
from `OrderInv`: in each lane, what was delivered has smaller numbers than what is
taken, and that than what is queued; a reposted batch keeps this. `NothingElseLost`
(`OnlySupersededLost`) from `LostInv`: a message that is nowhere was superseded, and
while input is queued, the last that was sent is, so that what a pointer move
replaces is directly before it (`LastUrgentQueued`).

**LockScreenProofs.** `TypeCorrect`, `AnswersMeetTheirLock`, `LockHasOneHolder`,
`NeverLockedDisabled`, and the action property `OnlyHoldersUnlock`, from one
inductive invariant: an answer meets its lock because nothing else can change the
phase while a password is checked; this needs the origin to keep the clients out,
and that no client then holds anything.

**NotificationsProofs.** `TypeCorrect`, and `LoopAgreesWithRuntime` from three
parts. `CopyInv`: every snapshot that is known (in a thread's hands or in the copy)
is the runtime's state if it has its revision, none is beyond it, `newest` is the
highest sent, and a runtime that nobody was told of has a thread that still has to
tell it. `CallsInv` and `WaitingInv`: the request the loop waits for is the last one
sent, is either in the queue or with the service, and its answer says what the
runtime does, so that a late reply is not taken for that of a later request.
`SettingInv`: what the file lacks of the runtime is owed by the request that is
being waited for, or is `unsaved`.

`EndsAreToldOnce` from `EndsInv`. For every id, the
ends told plus those both threads still have to tell are one or none (`Total`), as
its banner has gone or not. Two facts make that inductive: a banner was shown before
and there is one for an id (`BannersInv`: `next_id` lies beyond every id shown, so a
new notification cannot bring back an ended id), and nothing comes after an expiry
in what a thread has left (`ExpireLast`: `expire_due` loses no end still to be
told). The Count lemmas say how many ends a sequence of items tells.

`HistoryIsKept` (`HistoryAgrees`) from `RowsInv`, which adds that an id has one row,
that history and banners are finite, and that no banner is a closed one. A change
drops the rows that have `HistoryLimit` newer ones. `RowsKept` says what remains: the
numbers of rows above two different rows differ, so that they are a bijection from
the rows to the first naturals, and a history that was full is full again.

**WindowFocusProofs.** The handlers are operators that apply one another, so there is
a lemma for each operator, in the order of the module, that says what it keeps of a
state. `Good` is what every handler keeps. It has two parts. `Base`: the state has
its shape, no window is twice in the order (`Distinct`), no window is lost (`Safe`),
a window that is not there yet is in no scratchpad and restored by no modal, and a
restore handle has a row (`Early`). `OnTop`: the window that has the seat has a row
and is in the order, and no native window comes after it (`TopAt`) but those of a set
that is a parameter, `F`: `F[w]` are the windows that may lie above `w`. Most
operators keep `Base` and break `OnTop` for a moment (a window is mapped, then raised,
then focused), so their lemmas say how far, for any `F`; two steps need that the window
they raise is in every `F[w]` (`Exempt`). With every window in every `F[w]`, `Good` is
an invariant (`GoodAlways`), from which `TypeCorrect` and `NoWindowIsLost` follow.
`FocusOnTop` is about one step: `F` is then what lay above the seat's window before it
and what the step excuses, `Good` holds of that before the step by its choice, so it
holds after it, and whatever lies above is in `F`. `FocusRegained` is an action
property as well: the end of the window with the
seat goes through the target that was remembered for it, which may itself have gone,
been minimised or be hosted, and otherwise through the first that can have the focus
(`FocusGiven`, `RefocusGives`).

`NoFocusIsStolen` asks of every operator who may have the focus after it. Two notions
carry it. A step is `Calm` when the capture stays, the seat and the page's window are
lost only by a window that cannot keep them, and the window a modal restores does not
come back by it: then whoever had the focus and could keep it has it still
(`CalmStays`). Otherwise the step names the window it focuses (`FocusGoesTo`,
`RestoredHasFocus`), and `Considered`, `MapAllows` and `EndAllows` say why it may:
a scratchpad that considers a window, a toplevel that is mapped, a window's end. The
last condition of `Calm` is what needs `Early`: a menu that was opened over a window
returns the focus to it, so a toplevel that is mapped must not be one that a menu
restores and that could not have had the focus before. That can happen to one that
was minimised before its first buffer, which is why `MapAllows` and the property name
it.

**WorkspaceModelProofs.** `TypeCorrect`, `NothingToWarnOf` (`NoInvariantWarnings`),
`ListedAreTabs`, `NextIdIsFree`, `PinnedFirst` (`PinnedTabsLeadUnmerged`) and the
action property `ActivatedIsShown` (`ActivatedTabIsVisible`), for any windows, sessions and number of groups, from one invariant. In the middle of a
handler a state has less than after it: a moved tab may have left an empty entry, a
restored session names windows that are gone. So there are two predicates. `Shape`
is what every operator keeps: group ids are unique and below `next_group_seq`, a
group lists a tab once. `Full` is what a handler leaves: the tabs are a given set of
windows, in disjoint groups that are not empty, each with an active tab of its own,
and the panes of a split are two different tabs. `ReconcileGives` is the center:
whatever state with a `Shape` goes in, what comes out is `Full` of the windows that
were listed. `Keeps` says of an operator that it keeps the shape, and pinned tabs in
front if they were; there is such a lemma for each mutation, for `SelectForFocus`
and for `Restore`, whose groups join one after the other (`AdoptedGives`: what was
pinned in the session is pinned where the session has the tab, and the current state
decides for the rest, so a group that joins is led under the pins of the end, which
are not set yet). `MergeGives` and `AutoLayoutGives` say that a layout keeps `Full`,
and not the order of pinned tabs. `IInv` is `Full` of the registered windows, all
listed ones among them. `ActivatedIsShown` goes by `Shows`: a window is a tab of one
group alone, its active tab, and not its left pane. Each mutation ends in a state
that `Shows` what it activates (`MoveGroupShows`, `SplitWindowShows`, ...), and
`ShowsReconciled` says that the reconciliation after it leaves it so: a group keeps
its claim to a window no other group has, a split whose left pane is active is the
only one whose active tab changes. So the focus that follows selects nothing more.

The operators that walk over sequences (`InsertAll`, `Adopted`, `AutoLayout`, and
`Kept`, which keeps a part of a sequence) are recursive functions or choices by rank,
so that the proofs can go along the run of states they pass through, as a
least-element argument (`InductTo`); `SortedSorts` and `KeptKeeps` are the facts about
`Sorted` and `Kept` that all else rests on. Two assumptions enter: a saved session is
a consistent state (`SessionsAssumption`), as `sessionRuntime.ts` saves one state, and
window ids are positive numbers.

The type invariants of `FrameMailbox`, `SharedState`, `ShellDelivery`, `LockScreen`
and `Notifications` are proved too, and are not among the runs' properties, as other
invariants there say more.

Model-checked and not proved:

- liveness (`QueuesDrain`, `EveryPasswordAnswered`, `OverdueLeave`, the liveness of
  `LatestValue`): it rests on fairness and ENABLED, which are out of the prover's
  reach;
- the action properties `OthersKeepTheirPlace` and `ShownTabsStay` of
  `WorkspaceModel`: they need of every mutation what becomes of each single tab,
  where the lemmas so far follow the whole state and the one tab that is activated.

## What is not modelled, and why

- The *software* frame path repeats the dma-buf protocol line for line.
- Payload sizes, and with them snapshots refused for their size.
- Snapshots that come with urgent input, and one snapshot that holds several kinds:
  in `SendWithSnapshot` a snapshotted message holds its own kind. The properties
  compare per kind, and the queues keep snapshots apart from urgent input.
- A flush of the page that fails after it wrote the file (the message could not be
  made): `FailWrite` is one that wrote nothing.
- That a change of the canvas drops the placements staged for it: in
  `SendOutputLayout` they stay until the page, told of the new revision, writes.
- The page's optimistic state and its boot sync.
- Reordering of the shared files' stores and loads beyond what their fences leave
  open: the halves of a header are loaded in either order, the rest is in program
  order.
- In the workspace: monitor tiles, layouts' rectangles, geometry, the split's
  fraction, taskbar pins.
- Of windows: X11, popups, layer surfaces, geometry, grabs, the revision counters.
- In the lock screen: the clients' surfaces and the drawing.
- The tray: StatusNotifierItem bookkeeping per id.
- Drivers, drawing, D-Bus and HTTP services, X11 glue, encoding and decoding of
  messages: I/O or data without control of its own, listed one by one in
  `PROJECT.json`.

## Plan

Done: the two protocols between threads first (frame path, delivery), then what they
carry (snapshots, with mutations), the workspace and the lock screen; then the
shared files and the abstract hand-over that they and the frame path implement,
windows with their focus, and notifications; proofs of eight modules' types and of
the properties above. The modules stand alone: `ShellDelivery` delivers what
`SnapshotSync` takes for granted (details after their snapshot, in order),
`SharedState` what it takes for one step, and each states that interface as a
property.

Left, in this order:

1. `WindowRevisions`: the revision counters of window list and order on both sides
   (`windows.rs:134`, `compositorModel.ts:454`): an older one never replaces a
   newer.
2. `MoveResize`: the grab against windows that go, on the registry of `WindowFocus`.
3. `WorkspaceTiles`: monitor tiles and pre-tile geometry under reconciliation.
4. The tray's items and the on-screen keyboard; X11 windows in `WindowFocus`.
5. Proofs: `OthersKeepTheirPlace` and `ShownTabsStay` of `WorkspaceModel`;
   and the queues of `ShellDelivery` against an abstract conflating
   queue.
