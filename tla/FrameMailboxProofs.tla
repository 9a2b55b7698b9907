------------------------- MODULE FrameMailboxProofs -------------------------
(***************************************************************************)
(* Proofs about FrameMailbox, for any regions, any width of the frame      *)
(* counter and any number of paints.                                       *)
(***************************************************************************)
EXTENDS FrameMailbox, TLAPS

(***************************************************************************)
(* Types.                                                                  *)
(***************************************************************************)

LEMMA TypeInit == Init => TypeOK
<1> SUFFICES ASSUME Init PROVE TypeOK
  OBVIOUS
<1>1. Blank \in Versions
  BY DEF Blank, Versions
<1>2. 0 \in 0 .. GenModulus - 1 /\ 0 \in 0 .. MaxPushes
  BY GenAssumption
<1>3. osr \in [has_frame : BOOLEAN, generation : 0 .. GenModulus - 1, pixels : Versions,
               commit : Nat, dirty : SUBSET Regions, dirty_force_full : BOOLEAN,
               next_force_full : BOOLEAN]
  BY <1>1, <1>2 DEF Init
<1>4. output \in [commit : Nat \cup {NoCommit}, pixels : Versions]
  BY <1>1 DEF Init
<1> QED
  BY <1>1, <1>2, <1>3, <1>4 DEF Init, TypeOK

\* A paint keeps the picture a picture.
LEMMA PaintType ==
  ASSUME TypeOK, NEW dirty \in SUBSET Regions, Paint(dirty)
  PROVE  painted' \in Versions /\ pushes' \in 0 .. MaxPushes
<1>1. pushes' \in 0 .. MaxPushes
  BY GenAssumption DEF TypeOK, Paint
<1>2. \A r \in Regions : painted[r] \in Nat /\ painted[r] + 1 \in Nat
  BY DEF TypeOK, Versions
<1>3. painted' \in Versions
  BY <1>2 DEF Paint, Versions
<1> QED
  BY <1>1, <1>3

LEMMA NoFrameIsNone == NoFrame \notin Frames
<1>1. NoFrame.gen = -1
  BY DEF NoFrame
<1>2. \A f \in Frames : f.gen \in Nat
  BY GenAssumption DEF Frames
<1> QED
  BY <1>1, <1>2

\* prepare_frame_damage touches the damage only.
LEMMA PrepareDamageType ==
  ASSUME TypeOK, NEW dirty \in SUBSET Regions, NEW resized \in BOOLEAN
  PROVE  /\ PrepareDamage(dirty, resized) \in
               [has_frame : BOOLEAN, generation : 0 .. GenModulus - 1,
                pixels : Versions, commit : Nat, dirty : SUBSET Regions,
                dirty_force_full : BOOLEAN, next_force_full : BOOLEAN]
         /\ PrepareDamage(dirty, resized).has_frame = osr.has_frame
         /\ PrepareDamage(dirty, resized).pixels = osr.pixels
         /\ PrepareDamage(dirty, resized).commit = osr.commit
         /\ PrepareDamage(dirty, resized).dirty_force_full =
              (osr.next_force_full \/ resized \/ dirty = Regions)
         /\ PrepareDamage(dirty, resized).dirty =
              IF osr.next_force_full \/ resized \/ dirty = Regions THEN {} ELSE dirty
BY DEF TypeOK, PrepareDamage

LEMMA TypeStep == TypeOK /\ [Next]_vars => TypeOK'
<1> SUFFICES ASSUME TypeOK, [Next]_vars PROVE TypeOK'
  OBVIOUS
<1> USE DEF slot, painter, dispatch
<1>1. ASSUME NEW dirty \in SUBSET Regions, ReplaceFrame(dirty) PROVE TypeOK'
  <2>1. painted' \in Versions /\ pushes' \in 0 .. MaxPushes
    BY <1>1, PaintType DEF ReplaceFrame
  <2>2. dmabuf_generation' \in 0 .. GenModulus - 1
    BY <1>1, GenAssumption DEF ReplaceFrame, TypeOK
  <2>3. frame' \in Frames
    BY <1>1, <2>1, <2>2 DEF ReplaceFrame, Frames
  <2>4. lost' \in SUBSET Regions
    <3>1. CASE frame = NoFrame
      BY <1>1, <3>1 DEF ReplaceFrame, TypeOK
    <3>2. CASE frame # NoFrame
      <4>1. frame.dirty \in SUBSET Regions
        BY <3>2 DEF TypeOK, Frames
      <4> QED
        BY <1>1, <3>2, <4>1 DEF ReplaceFrame, TypeOK
    <3> QED
      BY <3>1, <3>2
  <2> QED
    BY <1>1, <2>1, <2>2, <2>3, <2>4 DEF ReplaceFrame, TypeOK
<1>2. ASSUME NEW dirty \in SUBSET Regions, FailPush(dirty) PROVE TypeOK'
  <2>1. painted' \in Versions /\ pushes' \in 0 .. MaxPushes
    BY <1>2, PaintType DEF FailPush
  <2> QED
    BY <1>2, <2>1 DEF FailPush, TypeOK
<1>3. CASE ReplaceSwap
  BY <1>3 DEF ReplaceSwap, TypeOK
<1>4. CASE SendWakeup
  BY <1>4 DEF SendWakeup, TypeOK
<1>5. CASE ReceiveWakeup
  BY <1>5 DEF ReceiveWakeup, TypeOK
<1>6. CASE TakeFrame
  BY <1>6 DEF TakeFrame, TypeOK
<1>7. CASE DropOldFrame \/ RejectSize
  <2>1. taken.dirty \in SUBSET Regions
    BY <1>7 DEF DropOldFrame, RejectSize, TypeOK, Frames
  <2> QED
    BY <1>7, <2>1 DEF DropOldFrame, RejectSize, TypeOK
<1>8. ASSUME NEW resized \in BOOLEAN, RejectBuild(resized) PROVE TypeOK'
  <2>1. taken \in Frames
    BY <1>8 DEF RejectBuild, TypeOK
  <2>2. taken.dirty \in SUBSET Regions
    BY <2>1 DEF Frames
  <2>3. osr' \in [has_frame : BOOLEAN, generation : 0 .. GenModulus - 1, pixels : Versions,
                  commit : Nat, dirty : SUBSET Regions, dirty_force_full : BOOLEAN,
                  next_force_full : BOOLEAN]
    BY <1>8, <2>2, PrepareDamageType DEF RejectBuild
  <2>4. lost' \in SUBSET Regions
    BY <1>8, <2>2 DEF RejectBuild, TypeOK
  <2> QED
    BY <1>8, <2>3, <2>4 DEF RejectBuild, TypeOK
<1>9. ASSUME NEW resized \in BOOLEAN, AcceptFrame(resized) PROVE TypeOK'
  <2>1. taken \in Frames
    BY <1>9 DEF AcceptFrame, TypeOK
  <2>2. taken.dirty \in SUBSET Regions /\ taken.gen \in 0 .. GenModulus - 1
        /\ taken.pixels \in Versions
    BY <2>1 DEF Frames
  <2>3. osr.commit + 1 \in Nat
    BY DEF TypeOK
  <2>4. osr' \in [has_frame : BOOLEAN, generation : 0 .. GenModulus - 1, pixels : Versions,
                  commit : Nat, dirty : SUBSET Regions, dirty_force_full : BOOLEAN,
                  next_force_full : BOOLEAN]
    <3> DEFINE p == PrepareDamage(taken.dirty, resized)
    <3>1. p \in [has_frame : BOOLEAN, generation : 0 .. GenModulus - 1,
                 pixels : Versions, commit : Nat, dirty : SUBSET Regions,
                 dirty_force_full : BOOLEAN, next_force_full : BOOLEAN]
      BY <2>2, PrepareDamageType
    <3>2. osr' = [p EXCEPT !.has_frame = TRUE, !.generation = taken.gen,
                           !.pixels = taken.pixels, !.commit = osr.commit + 1]
      BY <1>9 DEF AcceptFrame
    <3> HIDE DEF p
    <3> QED
      BY <2>2, <2>3, <3>1, <3>2
  <2> QED
    BY <1>9, <2>4 DEF AcceptFrame, TypeOK
<1>10. CASE FinishStore \/ FinishCheck \/ FinishSwap
  BY <1>10 DEF FinishStore, FinishCheck, FinishSwap, TypeOK
<1>11. CASE RenderOutput
  <2>1. output' \in [commit : Nat \cup {NoCommit}, pixels : Versions]
    BY <1>11 DEF RenderOutput, TypeOK, Versions
  <2> QED
    BY <1>11, <2>1 DEF RenderOutput, TypeOK
<1>12. CASE ForceNextFullDamage \/ DamageEverything
  BY <1>12 DEF ForceNextFullDamage, DamageEverything, TypeOK
<1>13. CASE ClearShellFrame
  <2>1. 0 \in 0 .. GenModulus - 1
    BY GenAssumption
  <2> QED
    BY <1>13, <2>1 DEF ClearShellFrame, TypeOK
<1>14. CASE UNCHANGED vars
  BY <1>14 DEF vars, TypeOK
<1> QED
  BY <1>1, <1>2, <1>3, <1>4, <1>5, <1>6, <1>7, <1>8, <1>9, <1>10, <1>11, <1>12, <1>13,
     <1>14 DEF Next, Produce, Dispatch

(* The slot, both threads and the accepted frame keep their types.         *)
THEOREM TypeCorrect == Spec => []TypeOK
  BY TypeInit, TypeStep, PTL DEF Spec

(***************************************************************************)
(* Wake-ups.                                                               *)
(***************************************************************************)

WakeupInv == TypeOK /\ OneWakeup /\ FrameNeverForgotten

LEMMA WakeupInit == Init => WakeupInv
<1> SUFFICES ASSUME Init PROVE WakeupInv
  OBVIOUS
<1>1. OneWakeup
  BY DEF Init, OneWakeup, Owners, Dispatching
<1>2. FrameNeverForgotten
  BY DEF Init, FrameNeverForgotten
<1> QED
  BY <1>1, <1>2, TypeInit DEF WakeupInv

LEMMA WakeupStep == WakeupInv /\ [Next]_vars => WakeupInv'
<1> SUFFICES ASSUME WakeupInv, [Next]_vars PROVE OneWakeup' /\ FrameNeverForgotten'
  BY TypeStep DEF WakeupInv
<1> USE DEF slot, painter, dispatch, OneWakeup, Owners, Dispatching, FrameNeverForgotten
<1>0. /\ wakeups \in Nat /\ notified \in BOOLEAN
      /\ OneWakeup /\ FrameNeverForgotten
  BY DEF WakeupInv, TypeOK
<1>1. ASSUME NEW dirty \in SUBSET Regions, ReplaceFrame(dirty)
      PROVE  OneWakeup' /\ FrameNeverForgotten'
  BY <1>0, <1>1 DEF ReplaceFrame, Paint
<1>2. ASSUME NEW dirty \in SUBSET Regions, FailPush(dirty)
      PROVE  OneWakeup' /\ FrameNeverForgotten'
  BY <1>0, <1>2 DEF FailPush
<1>3. CASE ReplaceSwap
  BY <1>0, <1>3 DEF ReplaceSwap
<1>4. CASE SendWakeup
  BY <1>0, <1>4 DEF SendWakeup
<1>5. CASE ReceiveWakeup
  BY <1>0, <1>5 DEF ReceiveWakeup
<1>6. CASE TakeFrame
  BY <1>0, <1>6 DEF TakeFrame
<1>7. CASE DropOldFrame \/ RejectSize
  BY <1>0, <1>7 DEF DropOldFrame, RejectSize
<1>8. ASSUME NEW resized \in BOOLEAN, RejectBuild(resized) \/ AcceptFrame(resized)
      PROVE  OneWakeup' /\ FrameNeverForgotten'
  BY <1>0, <1>8 DEF RejectBuild, AcceptFrame
<1>9. CASE FinishStore
  BY <1>0, <1>9 DEF FinishStore
<1>10. CASE FinishCheck
  BY <1>0, <1>10 DEF FinishCheck
<1>11. CASE FinishSwap
  BY <1>0, <1>11 DEF FinishSwap
<1>12. CASE RenderOutput \/ ForceNextFullDamage \/ DamageEverything \/ ClearShellFrame
  BY <1>0, <1>12 DEF RenderOutput, ForceNextFullDamage, DamageEverything, ClearShellFrame
<1>13. CASE UNCHANGED vars
  BY <1>0, <1>13 DEF vars
<1> QED
  BY <1>1, <1>2, <1>3, <1>4, <1>5, <1>6, <1>7, <1>8, <1>9, <1>10, <1>11, <1>12, <1>13
     DEF Next, Produce, Dispatch

(* The flag is up exactly while one wake-up is owed, and never two are.    *)
THEOREM WakeupsCounted == Spec => []OneWakeup
<1>1. WakeupInv => OneWakeup
  BY DEF WakeupInv
<1> QED
  BY <1>1, WakeupInit, WakeupStep, PTL DEF Spec

(* A frame in the slot is never without somebody who will look at it.      *)
THEOREM SlotNeverForgotten == Spec => []FrameNeverForgotten
<1>1. WakeupInv => FrameNeverForgotten
  BY DEF WakeupInv
<1> QED
  BY <1>1, WakeupInit, WakeupStep, PTL DEF Spec

(***************************************************************************)
(* Damage.                                                                 *)
(***************************************************************************)

Same(p, q, S) == \A r \in Regions \ S : p[r] = q[r]

\* From the accepted frame over the one in the loop's hands and the one in the
\* slot to what CEF has painted: each differs from the one before by its dirty
\* regions alone, up to lost damage.
Held   == IF taken = NoFrame THEN osr.pixels ELSE taken.pixels
Newest == IF frame = NoFrame THEN Held ELSE frame.pixels
Chain ==
  /\ taken # NoFrame => Same(taken.pixels, osr.pixels, lost \cup taken.dirty)
  /\ frame # NoFrame => Same(frame.pixels, Held, lost \cup frame.dirty)
  /\ Same(painted, Newest, lost)

\* Nobody hands on empty damage: it would mean a full repaint.
DamageNonEmpty ==
  /\ taken # NoFrame => taken.dirty # {}
  /\ frame # NoFrame => frame.dirty # {}
  /\ osr.dirty_force_full \/ osr.dirty # {}

\* How far an output may be behind the accepted frame, by the distance of their
\* commits.
OutputBehind ==
  output.commit # NoCommit =>
    /\ osr.has_frame
    /\ output.commit <= osr.commit
    /\ output.commit = osr.commit => Same(output.pixels, osr.pixels, lost)
    /\ (output.commit + 1 = osr.commit /\ ~osr.dirty_force_full) =>
         Same(output.pixels, osr.pixels, lost \cup osr.dirty)

DamageInv == TypeOK /\ Chain /\ DamageNonEmpty /\ OutputBehind

LEMMA DamageInit == Init => DamageInv
<1> SUFFICES ASSUME Init PROVE DamageInv
  OBVIOUS
<1>1. Chain
  BY DEF Init, Chain, Same, Held, Newest
<1>2. DamageNonEmpty
  BY DEF Init, DamageNonEmpty
<1>3. OutputBehind
  BY DEF Init, OutputBehind
<1> QED
  BY <1>1, <1>2, <1>3, TypeInit DEF DamageInv

\* A step that leaves the pictures and the damage alone.
Idle == UNCHANGED <<frame, taken, painted, osr, output, lost>>

LEMMA DamageIdle ==
  ASSUME Chain, DamageNonEmpty, OutputBehind, Idle
  PROVE  Chain' /\ DamageNonEmpty' /\ OutputBehind'
<1>1. Chain'
  BY DEF Idle, Chain, Same, Held, Newest
<1>2. DamageNonEmpty' /\ OutputBehind'
  BY DEF Idle, DamageNonEmpty, OutputBehind, Same
<1> QED
  BY <1>1, <1>2

\* A paint: what is not dirty stays what the newest frame shows.
LEMMA PaintSame ==
  ASSUME NEW dirty \in SUBSET Regions, Paint(dirty), NEW S, Same(painted, Newest, S)
  PROVE  Same(painted', Newest, S \cup dirty)
BY DEF Paint, Same

LEMMA DamageReplace ==
  ASSUME DamageInv, NEW dirty \in SUBSET Regions, dirty # {}, ReplaceFrame(dirty)
  PROVE  Chain' /\ DamageNonEmpty' /\ OutputBehind'
<1>1. /\ Paint(dirty) /\ UNCHANGED <<taken, osr, output>>
      /\ frame' = [gen |-> dmabuf_generation', dirty |-> dirty, pixels |-> painted']
      /\ lost' = IF frame = NoFrame THEN lost ELSE lost \cup frame.dirty
  BY DEF ReplaceFrame, dispatch
<1>2. frame'.dirty = dirty /\ frame'.pixels = painted'
  BY <1>1
<1>3. frame' # NoFrame
  <2>1. frame' \in Frames
    BY TypeStep DEF DamageInv, Next, Produce, TypeOK, ReplaceFrame, NoFrame, Frames
  <2> QED
    BY <2>1, NoFrameIsNone
<1>4. lost \subseteq lost'
  BY <1>1
<1>5. Same(painted', Held, lost' \cup dirty)
  <2>1. Same(painted', Newest, lost \cup dirty)
    BY <1>1, PaintSame DEF DamageInv, Chain
  <2>2. CASE frame = NoFrame
    BY <1>1, <2>1, <2>2 DEF Newest
  <2>3. CASE frame # NoFrame
    <3>1. Same(frame.pixels, Held, lost \cup frame.dirty)
      BY <2>3 DEF DamageInv, Chain
    <3> QED
      BY <1>1, <2>1, <2>3, <3>1 DEF Newest, Same
  <2> QED
    BY <2>2, <2>3
<1>6. Held' = Held /\ Newest' = painted'
  BY <1>1, <1>2, <1>3 DEF Held, Newest
<1>7. Chain'
  <2>1. (taken # NoFrame => Same(taken.pixels, osr.pixels, lost \cup taken.dirty))'
    BY <1>1, <1>4 DEF DamageInv, Chain, Same
  <2>2. (frame # NoFrame => Same(frame.pixels, Held, lost \cup frame.dirty))'
    BY <1>2, <1>5, <1>6 DEF Same
  <2>3. Same(painted, Newest, lost)'
    BY <1>6 DEF Same
  <2> QED
    BY <2>1, <2>2, <2>3 DEF Chain
<1>8. DamageNonEmpty'
  BY <1>1, <1>2 DEF DamageInv, DamageNonEmpty
<1>9. OutputBehind'
  BY <1>1, <1>4 DEF DamageInv, OutputBehind, Same
<1> QED
  BY <1>7, <1>8, <1>9

LEMMA DamageFailPush ==
  ASSUME DamageInv, NEW dirty \in SUBSET Regions, FailPush(dirty)
  PROVE  Chain' /\ DamageNonEmpty' /\ OutputBehind'
<1>1. Paint(dirty) /\ lost' = lost \cup dirty /\ UNCHANGED <<frame, taken, osr, output>>
  BY DEF FailPush, slot, dispatch
<1>2. Same(painted', Newest, lost')
  BY <1>1, PaintSame DEF DamageInv, Chain
<1>3. Held' = Held /\ Newest' = Newest
  BY <1>1 DEF Held, Newest
<1>4. Chain'
  BY <1>1, <1>2, <1>3 DEF DamageInv, Chain, Same
<1>5. DamageNonEmpty' /\ OutputBehind'
  BY <1>1 DEF DamageInv, DamageNonEmpty, OutputBehind, Same
<1> QED
  BY <1>4, <1>5

\* The frame moves from the slot into the loop's hands, which were empty.
LEMMA DamageTake ==
  ASSUME DamageInv, TakeFrame
  PROVE  Chain' /\ DamageNonEmpty' /\ OutputBehind'
<1>1. /\ taken' = frame /\ frame' = NoFrame
      /\ UNCHANGED <<painted, osr, output, lost>>
  BY DEF TakeFrame, painter
<1>2. taken = NoFrame
  BY DEF DamageInv, TypeOK, TakeFrame
<1>3. Held = osr.pixels /\ Newest' = Held' /\ Held' = Newest
  BY <1>1, <1>2 DEF Held, Newest
<1>4. Chain'
  BY <1>1, <1>3 DEF DamageInv, Chain, Same
<1>5. DamageNonEmpty' /\ OutputBehind'
  BY <1>1 DEF DamageInv, DamageNonEmpty, OutputBehind, Same
<1> QED
  BY <1>4, <1>5

\* A frame is let go of: its dirty regions are lost.
LEMMA DropChain ==
  ASSUME Chain, taken # NoFrame, taken' = NoFrame, lost \cup taken.dirty \subseteq lost',
         osr'.pixels = osr.pixels, UNCHANGED <<frame, painted>>
  PROVE  Chain'
<1>1. Held = taken.pixels /\ Held' = osr.pixels
  BY DEF Held
<1>2. Same(Held, osr.pixels, lost')
  BY <1>1 DEF Chain, Same
<1>3. (taken # NoFrame => Same(taken.pixels, osr.pixels, lost \cup taken.dirty))'
  OBVIOUS
<1>4. (frame # NoFrame => Same(frame.pixels, Held, lost \cup frame.dirty))'
  BY <1>1, <1>2 DEF Chain, Same
<1>5. Same(painted, Newest, lost)'
  BY <1>1, <1>2 DEF Chain, Same, Newest
<1> QED
  BY <1>3, <1>4, <1>5 DEF Chain

LEMMA DamageDrop ==
  ASSUME DamageInv, DropOldFrame \/ RejectSize
  PROVE  Chain' /\ DamageNonEmpty' /\ OutputBehind'
<1>1. /\ taken' = NoFrame /\ lost' = lost \cup taken.dirty
      /\ UNCHANGED <<frame, painted, osr, output>>
  BY DEF DropOldFrame, RejectSize, slot, painter
<1>2. taken # NoFrame
  BY DEF DropOldFrame, RejectSize, DamageInv, TypeOK
<1>3. Chain'
  BY <1>1, <1>2, DropChain DEF DamageInv
<1>4. DamageNonEmpty' /\ OutputBehind'
  BY <1>1 DEF DamageInv, DamageNonEmpty, OutputBehind, Same
<1> QED
  BY <1>3, <1>4

\* The damage of an output still behind is lost with what RejectBuild replaces.
LEMMA DamageRejectBuild ==
  ASSUME DamageInv, NEW resized \in BOOLEAN, RejectBuild(resized)
  PROVE  Chain' /\ DamageNonEmpty' /\ OutputBehind'
<1> DEFINE full  == osr.next_force_full \/ resized \/ taken.dirty = Regions
           needs == IF osr.dirty_force_full THEN Regions ELSE osr.dirty
<1>1. /\ taken' = NoFrame /\ lost' = lost \cup taken.dirty \cup needs
      /\ UNCHANGED <<frame, painted, output>>
      /\ osr' = PrepareDamage(taken.dirty, resized)
  BY DEF RejectBuild, slot, painter
<1>2. taken # NoFrame /\ taken \in Frames /\ taken.dirty \in SUBSET Regions
  BY NoFrameIsNone DEF RejectBuild, DamageInv, TypeOK, Frames
<1>3. /\ osr'.has_frame = osr.has_frame /\ osr'.pixels = osr.pixels
      /\ osr'.commit = osr.commit
      /\ osr'.dirty_force_full = full
      /\ osr'.dirty = IF full THEN {} ELSE taken.dirty
  <2>1. TypeOK
    BY DEF DamageInv
  <2> QED
    <3> DEFINE p == PrepareDamage(taken.dirty, resized)
    <3>1. /\ p.has_frame = osr.has_frame /\ p.pixels = osr.pixels
          /\ p.commit = osr.commit
          /\ p.dirty_force_full = full
          /\ p.dirty = IF full THEN {} ELSE taken.dirty
      BY <1>2, <2>1, PrepareDamageType
    <3>2. osr' = p
      BY <1>1
    <3> HIDE DEF p
    <3> QED
      BY <3>1, <3>2
<1>4. Chain'
  BY <1>1, <1>2, <1>3, DropChain DEF DamageInv
<1>5. DamageNonEmpty'
  <2>1. taken.dirty # {}
    BY <1>2 DEF DamageInv, DamageNonEmpty
  <2>2. osr'.dirty_force_full \/ osr'.dirty # {}
    BY <1>3, <2>1
  <2> QED
    BY <1>1, <2>2 DEF DamageInv, DamageNonEmpty
<1>6. OutputBehind'
  <2> SUFFICES ASSUME output'.commit # NoCommit
               PROVE  /\ osr'.has_frame
                      /\ output'.commit <= osr'.commit
                      /\ output'.commit = osr'.commit =>
                           Same(output'.pixels, osr'.pixels, lost')
                      /\ (output'.commit + 1 = osr'.commit /\ ~osr'.dirty_force_full) =>
                           Same(output'.pixels, osr'.pixels, lost' \cup osr'.dirty)
    BY DEF OutputBehind, Same
  <2>1. /\ osr.has_frame /\ output.commit <= osr.commit
        /\ output.commit = osr.commit => Same(output.pixels, osr.pixels, lost)
        /\ (output.commit + 1 = osr.commit /\ ~osr.dirty_force_full) =>
             Same(output.pixels, osr.pixels, lost \cup osr.dirty)
    BY <1>1 DEF DamageInv, OutputBehind
  <2>2. output.commit = osr.commit => Same(output.pixels, osr.pixels, lost')
    BY <1>1, <2>1 DEF Same
  <2>3. ASSUME output.commit + 1 = osr.commit
        PROVE  Same(output.pixels, osr.pixels, lost')
    <3>1. CASE osr.dirty_force_full
      BY <1>1, <3>1 DEF Same
    <3>2. CASE ~osr.dirty_force_full
      BY <1>1, <2>1, <2>3, <3>2 DEF Same
    <3> QED
      BY <3>1, <3>2
  <2>4. Same(output.pixels, osr.pixels, lost') =>
          Same(output.pixels, osr.pixels, lost' \cup osr'.dirty)
    BY DEF Same
  <2> QED
    BY <1>1, <1>3, <2>1, <2>2, <2>3, <2>4
<1> QED
  BY <1>4, <1>5, <1>6

\* The commit advances by one, and what the new damage leaves out is what the
\* frame before showed.
LEMMA DamageAccept ==
  ASSUME DamageInv, NEW resized \in BOOLEAN, AcceptFrame(resized)
  PROVE  Chain' /\ DamageNonEmpty' /\ OutputBehind'
<1> DEFINE full == osr.next_force_full \/ resized \/ taken.dirty = Regions
           p    == PrepareDamage(taken.dirty, resized)
<1>1. /\ taken' = NoFrame
      /\ UNCHANGED <<frame, painted, output, lost>>
      /\ osr' = [p EXCEPT !.has_frame = TRUE, !.generation = taken.gen,
                          !.pixels = taken.pixels, !.commit = osr.commit + 1]
  BY DEF AcceptFrame, slot, painter
<1>2. taken # NoFrame /\ taken \in Frames /\ taken.dirty \in SUBSET Regions
  BY NoFrameIsNone DEF AcceptFrame, DamageInv, TypeOK, Frames
<1>3. /\ p \in [has_frame : BOOLEAN, generation : 0 .. GenModulus - 1,
                pixels : Versions, commit : Nat, dirty : SUBSET Regions,
                dirty_force_full : BOOLEAN, next_force_full : BOOLEAN]
      /\ p.dirty_force_full = full
      /\ p.dirty = IF full THEN {} ELSE taken.dirty
  <2>1. TypeOK
    BY DEF DamageInv
  <2> QED
    BY <1>2, <2>1, PrepareDamageType
<1> HIDE DEF p
<1>4. /\ osr'.has_frame /\ osr'.pixels = taken.pixels /\ osr'.commit = osr.commit + 1
      /\ osr'.dirty_force_full = full
      /\ osr'.dirty = IF full THEN {} ELSE taken.dirty
  BY <1>1, <1>3
<1>5. Same(taken.pixels, osr.pixels, lost \cup taken.dirty)
  BY <1>2 DEF DamageInv, Chain
<1>6. Chain'
  <2>1. Held' = Held /\ Newest' = Newest
    BY <1>1, <1>2, <1>4 DEF Held, Newest
  <2> QED
    BY <1>1, <2>1 DEF DamageInv, Chain, Same
<1>7. DamageNonEmpty'
  <2>1. taken.dirty # {}
    BY <1>2 DEF DamageInv, DamageNonEmpty
  <2>2. osr'.dirty_force_full \/ osr'.dirty # {}
    BY <1>4, <2>1
  <2> QED
    BY <1>1, <2>2 DEF DamageInv, DamageNonEmpty
<1>8. OutputBehind'
  <2> SUFFICES ASSUME output.commit # NoCommit
               PROVE  /\ output.commit <= osr.commit + 1
                      /\ output.commit # osr.commit + 1
                      /\ (output.commit + 1 = osr.commit + 1 /\ ~full) =>
                           Same(output.pixels, taken.pixels, lost \cup taken.dirty)
    BY <1>1, <1>4 DEF OutputBehind, Same
  <2>1. /\ output.commit \in Nat /\ osr.commit \in Nat
        /\ output.commit <= osr.commit
        /\ output.commit = osr.commit => Same(output.pixels, osr.pixels, lost)
    BY DEF DamageInv, OutputBehind, TypeOK
  <2>2. output.commit <= osr.commit + 1 /\ output.commit # osr.commit + 1
    BY <2>1
  <2>3. output.commit + 1 = osr.commit + 1 =>
          Same(output.pixels, taken.pixels, lost \cup taken.dirty)
    <3>1. output.commit + 1 = osr.commit + 1 => output.commit = osr.commit
      BY <2>1
    <3>2. Same(output.pixels, osr.pixels, lost) =>
            Same(output.pixels, taken.pixels, lost \cup taken.dirty)
      BY <1>5 DEF Same
    <3> QED
      BY <2>1, <3>1, <3>2
  <2> QED
    BY <2>2, <2>3
<1> QED
  BY <1>6, <1>7, <1>8

\* Whatever commit the output rendered last, the repaint makes up for it.
LEMMA DamageRender ==
  ASSUME DamageInv, RenderOutput
  PROVE  Chain' /\ DamageNonEmpty' /\ OutputBehind'
<1>1. /\ UNCHANGED <<frame, taken, painted, osr, lost>>
      /\ osr.has_frame
      /\ output' = [commit |-> osr.commit,
                    pixels |-> [r \in Regions |-> IF r \in DamageSince(output.commit)
                                                  THEN osr.pixels[r]
                                                  ELSE output.pixels[r]]]
  BY DEF RenderOutput, slot, painter, dispatch
<1>2. output'.commit = osr.commit /\ osr.commit \in Nat
  BY <1>1 DEF DamageInv, TypeOK
<1>3. Same(output.pixels, osr.pixels, lost \cup DamageSince(output.commit))
  <2>1. CASE output.commit = NoCommit
    BY <2>1 DEF DamageSince, Same
  <2>2. CASE output.commit # NoCommit /\ output.commit = osr.commit
    BY <2>2 DEF DamageInv, OutputBehind, Same
  <2>3. CASE /\ output.commit # NoCommit /\ output.commit # osr.commit
             /\ output.commit + 1 = osr.commit /\ ~osr.dirty_force_full
    <3>1. Same(output.pixels, osr.pixels, lost \cup osr.dirty)
      BY <2>3 DEF DamageInv, OutputBehind
    <3>2. output.commit \in Nat /\ osr.commit - output.commit = 1
      BY <2>3, <1>2 DEF DamageInv, TypeOK
    <3>3. osr.dirty # {}
      BY <2>3 DEF DamageInv, DamageNonEmpty
    <3>4. DamageSince(output.commit) = osr.dirty
      BY <2>3, <3>2, <3>3 DEF DamageSince
    <3> QED
      BY <3>1, <3>4
  <2>4. CASE /\ output.commit # NoCommit /\ output.commit # osr.commit
             /\ ~(output.commit + 1 = osr.commit /\ ~osr.dirty_force_full)
    <3>1. output.commit \in Nat /\ osr.commit - output.commit # 0
      BY <2>4, <1>2 DEF DamageInv, TypeOK
    <3>2. ~(osr.commit - output.commit = 1 /\ ~osr.dirty_force_full)
      BY <2>4, <3>1, <1>2
    <3>3. DamageSince(output.commit) = Regions
      BY <2>4, <3>1, <3>2 DEF DamageSince
    <3> QED
      BY <3>3 DEF Same
  <2> QED
    BY <2>1, <2>2, <2>3, <2>4
<1>4. Same(output'.pixels, osr.pixels, lost)
  BY <1>1, <1>3 DEF Same
<1>5. OutputBehind'
  BY <1>1, <1>2, <1>4 DEF OutputBehind, Same
<1>6. Chain' /\ DamageNonEmpty'
  BY <1>1 DEF DamageInv, Chain, Same, Held, Newest, DamageNonEmpty
<1> QED
  BY <1>5, <1>6

\* More damage than needed does no harm, and an output knows nothing of a canvas
\* that changed.
LEMMA DamageForceOrClear ==
  ASSUME DamageInv, ForceNextFullDamage \/ DamageEverything \/ ClearShellFrame
  PROVE  Chain' /\ DamageNonEmpty' /\ OutputBehind'
<1>1. UNCHANGED <<frame, taken, painted, lost>>
  BY DEF ForceNextFullDamage, DamageEverything, ClearShellFrame, slot, painter, dispatch
<1>2. CASE ForceNextFullDamage \/ DamageEverything
  <2>1. /\ output' = output /\ osr'.pixels = osr.pixels /\ osr'.commit = osr.commit
        /\ osr'.has_frame = osr.has_frame /\ osr'.dirty = osr.dirty
        /\ (osr.dirty_force_full => osr'.dirty_force_full)
    BY <1>2 DEF ForceNextFullDamage, DamageEverything, DamageInv, TypeOK
  <2> QED
    BY <1>1, <2>1 DEF DamageInv, Chain, Same, Held, Newest, DamageNonEmpty, OutputBehind
<1>3. CASE ClearShellFrame
  <2>1. osr'.pixels = osr.pixels /\ osr'.dirty_force_full /\ output'.commit = NoCommit
    BY <1>3 DEF ClearShellFrame, DamageInv, TypeOK
  <2> QED
    BY <1>1, <2>1 DEF DamageInv, Chain, Same, Held, Newest, DamageNonEmpty, OutputBehind
<1> QED
  BY <1>2, <1>3

LEMMA DamageStep == DamageInv /\ [Next]_vars => DamageInv'
<1> SUFFICES ASSUME DamageInv, [Next]_vars PROVE Chain' /\ DamageNonEmpty' /\ OutputBehind'
  BY TypeStep DEF DamageInv
<1>1. ASSUME NEW dirty \in SUBSET Regions, dirty # {}, ReplaceFrame(dirty) \/ FailPush(dirty)
      PROVE  Chain' /\ DamageNonEmpty' /\ OutputBehind'
  BY <1>1, DamageReplace, DamageFailPush
<1>2. ASSUME \/ ReplaceSwap \/ SendWakeup \/ ReceiveWakeup
             \/ FinishStore \/ FinishCheck \/ FinishSwap \/ UNCHANGED vars
      PROVE  Chain' /\ DamageNonEmpty' /\ OutputBehind'
  <2>1. Idle
    BY <1>2 DEF Idle, ReplaceSwap, SendWakeup, ReceiveWakeup, FinishStore, FinishCheck,
                FinishSwap, vars, slot, painter, dispatch
  <2> QED
    BY <2>1, DamageIdle DEF DamageInv
<1>3. CASE TakeFrame
  BY <1>3, DamageTake
<1>4. CASE DropOldFrame \/ RejectSize
  BY <1>4, DamageDrop
<1>5. ASSUME NEW resized \in BOOLEAN, RejectBuild(resized) \/ AcceptFrame(resized)
      PROVE  Chain' /\ DamageNonEmpty' /\ OutputBehind'
  BY <1>5, DamageRejectBuild, DamageAccept
<1>6. CASE RenderOutput
  BY <1>6, DamageRender
<1>7. CASE ForceNextFullDamage \/ DamageEverything \/ ClearShellFrame
  BY <1>7, DamageForceOrClear
<1> QED
  BY <1>1, <1>2, <1>3, <1>4, <1>5, <1>6, <1>7 DEF Next, Produce, Dispatch

(* An output that rendered the accepted commit shows the accepted frame,   *)
(* but for the regions whose damage was lost on the way.                   *)
THEOREM OutputsAreRight == Spec => []OutputShowsFrame
<1>1. DamageInv => OutputShowsFrame
  <2>1. DamageInv => osr.commit # NoCommit
    BY DEF DamageInv, TypeOK, NoCommit
  <2> QED
    BY <2>1 DEF DamageInv, OutputBehind, OutputShowsFrame, Same
<1> QED
  BY <1>1, DamageInit, DamageStep, PTL DEF Spec

(***************************************************************************)
(* The mailbox implements LatestValue.                                     *)
(***************************************************************************)

LEMMA MailboxInit == Init => Mailbox!Init
BY DEF Init, Mailbox!Init

\* Only the producer puts frames, only the dispatch loop takes them and lets go.
LEMMA MailboxStep == TypeOK /\ [Next]_vars => [Mailbox!Next]_Mailbox!vars
<1> SUFFICES ASSUME TypeOK, [Next]_vars
             PROVE  Mailbox!Put \/ Mailbox!Take \/ Mailbox!LetGo \/ UNCHANGED <<frame, taken>>
  BY DEF Mailbox!Next, Mailbox!vars
<1>1. ASSUME NEW dirty \in SUBSET Regions, ReplaceFrame(dirty) PROVE Mailbox!Put
  <2>1. painted' \in Versions
    BY <1>1, PaintType DEF ReplaceFrame
  <2>2. dmabuf_generation' \in 0 .. GenModulus - 1
    BY <1>1, GenAssumption DEF ReplaceFrame, TypeOK
  <2>3. frame' \in Frames
    BY <1>1, <2>1, <2>2 DEF ReplaceFrame, Frames
  <2> QED
    BY <1>1, <2>3 DEF ReplaceFrame, dispatch, Mailbox!Put
<1>2. CASE TakeFrame
  <2>1. taken = NoFrame
    BY <1>2 DEF TakeFrame, TypeOK
  <2>2. CASE frame = NoFrame
    BY <1>2, <2>1, <2>2 DEF TakeFrame
  <2>3. CASE frame # NoFrame
    BY <1>2, <2>1, <2>3 DEF TakeFrame, Mailbox!Take
  <2> QED
    BY <2>2, <2>3
<1>3. ASSUME NEW resized \in BOOLEAN,
             DropOldFrame \/ RejectSize \/ RejectBuild(resized) \/ AcceptFrame(resized)
      PROVE  Mailbox!LetGo
  <2>1. taken # NoFrame
    BY <1>3 DEF DropOldFrame, RejectSize, RejectBuild, AcceptFrame, TypeOK
  <2>2. taken' = NoFrame /\ UNCHANGED frame
    BY <1>3 DEF DropOldFrame, RejectSize, RejectBuild, AcceptFrame, slot
  <2> QED
    BY <2>1, <2>2 DEF Mailbox!LetGo
<1>4. ASSUME NEW dirty \in SUBSET Regions, FailPush(dirty) PROVE UNCHANGED <<frame, taken>>
  BY <1>4 DEF FailPush, slot, dispatch
<1>5. CASE ReplaceSwap \/ SendWakeup \/ ReceiveWakeup
  BY <1>5 DEF ReplaceSwap, SendWakeup, ReceiveWakeup, dispatch
<1>6. CASE FinishStore \/ FinishCheck \/ FinishSwap
  BY <1>6 DEF FinishStore, FinishCheck, FinishSwap, slot
<1>7. CASE RenderOutput \/ ForceNextFullDamage \/ DamageEverything \/ ClearShellFrame
  BY <1>7 DEF RenderOutput, ForceNextFullDamage, DamageEverything, ClearShellFrame, slot,
              dispatch
<1>8. CASE UNCHANGED vars
  BY <1>8 DEF vars, slot, dispatch
<1> QED
  BY <1>1, <1>2, <1>3, <1>4, <1>5, <1>6, <1>7, <1>8 DEF Next, Produce, Dispatch

(* The slot, the flag, the wake-ups and the dispatch loop together are a   *)
(* place of which the latest frame matters: what the loop works on is the  *)
(* latest frame CEF stored, whole, and nothing else is ever in its hand.   *)
THEOREM RefinesSafety == Spec => Mailbox!Safety
BY MailboxInit, TypeInit, TypeStep, MailboxStep, PTL DEF Spec, Mailbox!Safety
=============================================================================
