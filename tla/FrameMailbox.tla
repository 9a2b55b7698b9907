---------------------------- MODULE FrameMailbox ----------------------------
(***************************************************************************)
(* The path of a painted shell frame from CEF's UI thread to an output of  *)
(* the compositor:                                                         *)
(*   - DirectDmabufSink and LatestShellDmabuf: a one-slot mailbox of which *)
(*     only the latest frame matters, an atomic `notified` flag and a      *)
(*     calloop channel that carries at most a wake-up, never a frame;      *)
(*   - the calloop source that drains the slot (state/mod.rs);             *)
(*   - accept_shell_dmabuf_from_cef and ShellOsrState, which turn a frame  *)
(*     into a buffer, a commit counter and a set of damaged regions;       *)
(*   - ShellDmaElement::damage_since, which decides from the distance of   *)
(*     two commits what an output repaints.                                *)
(* The software twin (LatestShellSoftwareFrame) is line for line the same  *)
(* protocol and is not modelled a second time.                             *)
(*                                                                         *)
(* A frame's pixels are abstracted to one version number per region of the *)
(* canvas. The slot's mutex makes one access of it one step; the flag and  *)
(* the channel are accessed outside of the mutex, in steps of their own.   *)
(***************************************************************************)
EXTENDS Integers

CONSTANTS
  Regions,        \* regions of the shell canvas that damage tells apart
  GenModulus,     \* frames are numbered by a wrapping counter (2^32 in the code)
  MaxPushes       \* bound: paints of CEF in one behaviour

ASSUME RegionsAssumption == Regions # {}
ASSUME GenAssumption ==
  /\ GenModulus \in Nat /\ GenModulus > 1
  /\ MaxPushes \in Nat

NoFrame  == [gen |-> -1]
NoCommit == -1

VARIABLES
  frame,          \* LatestShellDmabuf.frame: the slot
  notified,       \* LatestShellDmabuf.notified
  wakeups,        \* DmabufReady messages queued in the calloop channel
  producer,       \* where CEF's UI thread is in push_dmabuf_planes
  painted,        \* what CEF has painted: a version per region
  dmabuf_generation,
  pushes,         \* how many paints there were, for the bound
  consumer,       \* where the calloop thread is in its dispatch loop
  taken,          \* the frame the dispatch loop holds
  osr,            \* ShellOsrState: the accepted frame and its damage
  output,         \* the commit and the contents an output rendered last
  lost            \* history: regions of damage that never reached the element

slot     == <<frame, notified, wakeups>>
painter  == <<producer, painted, dmabuf_generation, pushes>>
dispatch == <<consumer, taken>>
vars     == <<slot, painter, dispatch, osr, output, lost>>

Versions == [Regions -> Nat]
Blank    == [r \in Regions |-> 0]

Frames ==
  [gen : 0 .. GenModulus - 1, dirty : SUBSET Regions, pixels : Versions]

\* No frame is accepted yet, or clear_shell_frame ran: the sink may have numbered
\* any number of frames before.
Init ==
  /\ frame = NoFrame
  /\ notified = FALSE
  /\ wakeups = 0
  /\ producer = "idle"
  /\ painted = Blank
  /\ dmabuf_generation \in 0 .. GenModulus - 1
  /\ pushes = 0
  /\ consumer = "idle"
  /\ taken = NoFrame
  /\ osr = [has_frame |-> FALSE, generation |-> 0, pixels |-> Blank, commit |-> 0,
            dirty |-> {}, dirty_force_full |-> TRUE, next_force_full |-> FALSE]
  /\ output = [commit |-> NoCommit, pixels |-> Blank]
  /\ lost = {}

-----------------------------------------------------------------------------
(* CEF's UI thread: push_dmabuf_planes.                                    *)

\* CEF paints: the regions it changed, and the picture that results.
Paint(dirty) ==
  /\ producer = "idle"
  /\ pushes < MaxPushes
  /\ pushes' = pushes + 1
  /\ painted' = [r \in Regions |-> IF r \in dirty THEN painted[r] + 1 ELSE painted[r]]

\* A plane's descriptor cannot be duplicated: the paint never gets a number.
FailPush(dirty) ==
  /\ Paint(dirty)
  /\ lost' = lost \cup dirty
  /\ UNCHANGED <<slot, producer, dmabuf_generation, dispatch, osr, output>>

\* LatestShellDmabuf::replace, first half: the slot is overwritten, and with it
\* the dirty regions of a frame nobody has taken.
ReplaceFrame(dirty) ==
  /\ Paint(dirty)
  /\ dmabuf_generation' = (dmabuf_generation + 1) % GenModulus
  /\ frame' = [gen |-> dmabuf_generation', dirty |-> dirty, pixels |-> painted']
  /\ lost' = IF frame = NoFrame THEN lost ELSE lost \cup frame.dirty
  /\ producer' = "swap"
  /\ UNCHANGED <<notified, wakeups, dispatch, osr, output>>

\* Mutant: a wake-up for every frame.
ReplaceSwapAlwaysNotifies ==
  /\ producer = "swap"
  /\ notified' = TRUE
  /\ producer' = "send"
  /\ UNCHANGED <<frame, wakeups, painted, dmabuf_generation, pushes, dispatch, osr, output, lost>>

\* LatestShellDmabuf::replace, second half: `!self.notified.swap(true)`.
ReplaceSwap ==
  /\ producer = "swap"
  /\ notified' = TRUE
  /\ producer' = IF notified THEN "idle" ELSE "send"
  /\ UNCHANGED <<frame, wakeups, painted, dmabuf_generation, pushes, dispatch, osr, output, lost>>

\* should_notify was true: the wake-up is queued.
SendWakeup ==
  /\ producer = "send"
  /\ wakeups' = wakeups + 1
  /\ producer' = "idle"
  /\ UNCHANGED <<frame, notified, painted, dmabuf_generation, pushes, dispatch, osr, output, lost>>

-----------------------------------------------------------------------------
(* The calloop thread: the DmabufReady arm of the channel source.          *)

ReceiveWakeup ==
  /\ consumer = "idle"
  /\ wakeups > 0
  /\ wakeups' = wakeups - 1
  /\ consumer' = "take"
  /\ UNCHANGED <<frame, notified, painter, taken, osr, output, lost>>

\* An empty slot goes on to finish_dispatch at once.
TakeFrame ==
  /\ consumer = "take"
  /\ taken' = frame
  /\ frame' = NoFrame
  /\ consumer' = IF frame = NoFrame THEN "finish" ELSE "accept"
  /\ UNCHANGED <<notified, wakeups, painter, osr, output, lost>>

\* A frame whose number is not above the accepted one's is dropped.
TooOld == osr.has_frame /\ taken.gen <= osr.generation

DropOldFrame ==
  /\ consumer = "accept"
  /\ TooOld
  /\ consumer' = "finish"
  /\ taken' = NoFrame
  /\ lost' = lost \cup taken.dirty
  /\ UNCHANGED <<slot, painter, osr, output>>

\* frame_size_matches_expected failed: rejected before its damage is read. The
\* repaint the handler asks of CEF is any later paint.
RejectSize ==
  /\ consumer = "accept"
  /\ ~TooOld
  /\ consumer' = "finish"
  /\ taken' = NoFrame
  /\ lost' = lost \cup taken.dirty
  /\ UNCHANGED <<slot, painter, osr, output>>

\* prepare_frame_damage: it consumes next_force_full and replaces the damage of
\* the frame before, rendered or not. A frame of another size damages everything.
PrepareDamage(dirty, resized) ==
  LET full == osr.next_force_full \/ resized \/ dirty = Regions
  IN  [osr EXCEPT !.next_force_full = FALSE,
                  !.dirty_force_full = full,
                  !.dirty = IF full THEN {} ELSE dirty]

\* The dma-buf cannot be built: prepare_frame_damage has run, the rest has not.
\* The accepted frame has lost the damage an output may still need.
RejectBuild(resized) ==
  /\ consumer = "accept"
  /\ ~TooOld
  /\ resized => osr.has_frame
  /\ osr' = PrepareDamage(taken.dirty, resized)
  /\ consumer' = "finish"
  /\ taken' = NoFrame
  /\ lost' = lost \cup taken.dirty
               \cup (IF osr.dirty_force_full THEN Regions ELSE osr.dirty)
  /\ UNCHANGED <<slot, painter, output>>

AcceptFrame(resized) ==
  /\ consumer = "accept"
  /\ ~TooOld
  /\ resized => osr.has_frame
  /\ osr' = [PrepareDamage(taken.dirty, resized) EXCEPT
               !.has_frame = TRUE, !.generation = taken.gen,
               !.pixels = taken.pixels, !.commit = osr.commit + 1]
  /\ consumer' = "finish"
  /\ taken' = NoFrame
  /\ UNCHANGED <<slot, painter, output, lost>>

\* finish_dispatch gives the wake-up back before it looks at the slot again.
FinishStore ==
  /\ consumer = "finish"
  /\ notified' = FALSE
  /\ consumer' = "check"
  /\ UNCHANGED <<frame, wakeups, painter, taken, osr, output, lost>>

\* Mutant: the slot is not looked at again.
FinishWithoutCheck ==
  /\ consumer = "check"
  /\ consumer' = "idle"
  /\ UNCHANGED <<slot, painter, taken, osr, output, lost>>

FinishCheck ==
  /\ consumer = "check"
  /\ consumer' = IF frame = NoFrame THEN "idle" ELSE "swap"
  /\ UNCHANGED <<slot, painter, taken, osr, output, lost>>

\* Mutant: the flag's old value is read the wrong way round.
FinishSwapInverted ==
  /\ consumer = "swap"
  /\ notified' = TRUE
  /\ consumer' = IF notified THEN "take" ELSE "idle"
  /\ UNCHANGED <<frame, wakeups, painter, taken, osr, output, lost>>

\* Whoever raises the flag serves the frame: the loop, or the producer's wake-up.
FinishSwap ==
  /\ consumer = "swap"
  /\ notified' = TRUE
  /\ consumer' = IF notified THEN "idle" ELSE "take"
  /\ UNCHANGED <<frame, wakeups, painter, taken, osr, output, lost>>

-----------------------------------------------------------------------------
(* Other handlers of the calloop thread; they run between two dispatches.  *)

\* Mutant: an output that skipped a commit repaints the damage of the last one.
DamageSinceAnyDistance(since) ==
  CASE since = NoCommit -> Regions
    [] since # NoCommit /\ osr.commit = since -> {}
    [] since # NoCommit /\ osr.commit # since /\ ~osr.dirty_force_full /\ osr.dirty # {} ->
         osr.dirty
    [] OTHER -> Regions

\* What ShellDmaElement::damage_since answers to an output that rendered
\* commit `since` last.
DamageSince(since) ==
  LET distance == osr.commit - since
  IN  CASE since = NoCommit -> Regions
        [] since # NoCommit /\ distance = 0 -> {}
        [] since # NoCommit /\ distance = 1 /\ ~osr.dirty_force_full /\ osr.dirty # {} ->
             osr.dirty
        [] OTHER -> Regions

RenderOutput ==
  /\ consumer = "idle"
  /\ osr.has_frame
  /\ output' = [commit |-> osr.commit,
                pixels |-> [r \in Regions |-> IF r \in DamageSince(output.commit)
                                              THEN osr.pixels[r]
                                              ELSE output.pixels[r]]]
  /\ UNCHANGED <<slot, painter, dispatch, osr, lost>>

ForceNextFullDamage ==
  /\ consumer = "idle"
  /\ osr' = [osr EXCEPT !.next_force_full = TRUE]
  /\ UNCHANGED <<slot, painter, dispatch, output, lost>>

\* The windows or exclusion zones of the shell's UI changed, or the screen locked:
\* the accepted frame is damaged everywhere, under the commit it has.
DamageEverything ==
  /\ consumer = "idle"
  /\ osr' = [osr EXCEPT !.dirty_force_full = TRUE]
  /\ UNCHANGED <<slot, painter, dispatch, output, lost>>

\* clear_shell_frame: the canvas changed. The element gets a new id, so that
\* the next render of an output knows no commit of it.
ClearShellFrame ==
  /\ consumer = "idle"
  /\ osr.has_frame
  /\ osr' = [osr EXCEPT !.has_frame = FALSE, !.generation = 0, !.commit = 0,
                        !.dirty = {}, !.dirty_force_full = TRUE, !.next_force_full = FALSE]
  /\ output' = [output EXCEPT !.commit = NoCommit]
  /\ UNCHANGED <<slot, painter, dispatch, lost>>

Produce ==
  \/ \E dirty \in SUBSET Regions : dirty # {} /\ (ReplaceFrame(dirty) \/ FailPush(dirty))
  \/ ReplaceSwap
  \/ SendWakeup

Dispatch ==
  \/ ReceiveWakeup
  \/ TakeFrame
  \/ DropOldFrame
  \/ RejectSize
  \/ \E resized \in BOOLEAN : RejectBuild(resized) \/ AcceptFrame(resized)
  \/ FinishStore
  \/ FinishCheck
  \/ FinishSwap

Next ==
  \/ Produce
  \/ Dispatch
  \/ RenderOutput
  \/ ForceNextFullDamage
  \/ DamageEverything
  \/ ClearShellFrame

\* Both threads run: a thread inside a push or a dispatch goes on. Nothing obliges
\* CEF to paint, nor the compositor to render.
Fairness ==
  /\ WF_vars(ReplaceSwap \/ SendWakeup)
  /\ WF_vars(Dispatch)

Spec == Init /\ [][Next]_vars /\ Fairness

-----------------------------------------------------------------------------
TypeOK ==
  /\ frame \in Frames \cup {NoFrame}
  /\ notified \in BOOLEAN
  /\ wakeups \in Nat
  /\ producer \in {"idle", "swap", "send"}
  /\ painted \in Versions
  /\ dmabuf_generation \in 0 .. GenModulus - 1
  /\ pushes \in 0 .. MaxPushes
  /\ consumer \in {"idle", "take", "accept", "finish", "check", "swap"}
  /\ taken \in Frames \cup {NoFrame}
  /\ (consumer = "accept") <=> (taken # NoFrame)
  /\ osr \in [has_frame : BOOLEAN, generation : 0 .. GenModulus - 1, pixels : Versions,
              commit : Nat, dirty : SUBSET Regions, dirty_force_full : BOOLEAN,
              next_force_full : BOOLEAN]
  /\ output \in [commit : Nat \cup {NoCommit}, pixels : Versions]
  /\ lost \in SUBSET Regions

(* The flag counts wake-ups: it is up exactly while one is owed to the     *)
(* slot, and never two are. The owner is the queued message, a producer    *)
(* that is about to queue it, or a dispatch loop that has not finished.    *)
Dispatching == consumer \in {"take", "accept", "finish"}
Owners ==
  wakeups + (IF producer = "send" THEN 1 ELSE 0) + (IF Dispatching THEN 1 ELSE 0)
OneWakeup == Owners = IF notified THEN 1 ELSE 0

(* A full slot is never forgotten: as long as it holds a frame, either a   *)
(* wake-up is owed, or its producer has yet to raise the flag, or the loop *)
(* is about to look. A lost wake-up would freeze the shell's picture until *)
(* its next paint.                                                         *)
FrameNeverForgotten ==
  frame # NoFrame => notified \/ producer = "swap" \/ consumer \in {"check", "swap"}

(* What an output shows is the accepted frame: a region it did not repaint *)
(* is one that did not change. Only the regions of lost damage are exempt: *)
(* the mailbox and the handler replace the damage of a frame that was      *)
(* overwritten or refused, while the commit advances by one.               *)
OutputShowsFrame ==
  (osr.has_frame /\ output.commit = osr.commit) =>
    \A r \in Regions \ lost : output.pixels[r] = osr.pixels[r]

(* The mailbox is a place of which the latest frame matters: a frame in    *)
(* the slot is taken or replaced by a later one, what the loop holds is    *)
(* the frame that was in the slot, it lets go of it, and no frame waits    *)
(* for ever although the wake-up and the flag travel apart from it.        *)
Mailbox == INSTANCE LatestValue
             WITH Values <- Frames, Nothing <- NoFrame, slot <- frame, hand <- taken
RefinesLatestValue == Mailbox!Spec
=============================================================================
