------------------------ MODULE ShellDeliveryProofs ------------------------
(***************************************************************************)
(* Proofs about ShellDelivery, for any kinds of messages and any bounds:   *)
(* no message is stranded in the queues; epochs reach the page in order,   *)
(* and each published snapshot has what was sent with it or before; the    *)
(* messages of a lane are delivered in the order they were sent; and a     *)
(* message that is lost was superseded.                                    *)
(***************************************************************************)
EXTENDS ShellDelivery, TLAPS, FiniteSetTheorems, WellFoundedInduction

(***************************************************************************)
(* Types.                                                                  *)
(***************************************************************************)

LEMMA TypeInit == Init => TypeOK
<1> SUFFICES ASSUME Init PROVE TypeOK
  OBVIOUS
<1>1. taken \in [urgent : SUBSET Messages, messages : SUBSET Messages,
                 snapshot : SUBSET Messages, epoch : Nat]
  BY DEF Init, Nothing
<1>2. published.epoch \in Nat /\ DOMAIN published.content = Kinds
  BY DEF Init
<1>3. log \in Seq([kind : Kinds, epoch : Nat, with : BOOLEAN])
  BY DEF Init
<1>4. toggles \in 0 .. MaxToggles /\ failures \in 0 .. MaxPostFailures
  BY BoundsAssumption DEF Init
<1>5. urgent \subseteq Messages /\ messages \subseteq Messages /\ snapshot \subseteq Messages
  BY DEF Init
<1> QED
  BY <1>1, <1>2, <1>3, <1>4, <1>5 DEF Init, TypeOK

LEMMA QueueTypes ==
  ASSUME NEW queue \in SUBSET Messages, NEW m \in Messages
  PROVE  Push(queue, m) \subseteq Messages /\ PushUrgentInput(queue, m) \subseteq Messages
BY DEF Push, PushUrgentInput

LEMMA SendType ==
  ASSUME TypeOK, NEW kind \in Kinds, NEW with \in BOOLEAN, SendWithSnapshot(kind, with)
  PROVE  TypeOK'
<1> DEFINE epoch == IF with THEN NextEpoch(shell_snapshot_epoch) ELSE shell_snapshot_epoch
           m == [n |-> Len(log) + 1, kind |-> kind, epoch |-> epoch]
           row == [kind |-> kind, epoch |-> epoch, with |-> with]
<1>1. epoch \in Nat
  BY DEF TypeOK, NextEpoch
<1>2. m \in Messages /\ row \in [kind : Kinds, epoch : Nat, with : BOOLEAN]
  <2>1. Len(log) + 1 \in Nat
    BY DEF TypeOK
  <2> HIDE DEF epoch
  <2> QED
    BY <1>1, <2>1 DEF Messages
<1>3. urgent \in SUBSET Messages /\ messages \in SUBSET Messages /\ snapshot \in SUBSET Messages
  BY DEF TypeOK
<1>4. /\ log' = Append(log, row) /\ shell_snapshot_epoch' = epoch
      /\ snapshot' = IF with THEN Push(snapshot, m) ELSE snapshot
      /\ snapshot_epoch' = IF with /\ epoch > snapshot_epoch THEN epoch ELSE snapshot_epoch
      /\ urgent' = IF kind \in Urgent THEN PushUrgentInput(urgent, m) ELSE urgent
      /\ messages' = IF kind \in Urgent THEN messages ELSE Push(messages, m)
      /\ scheduled' = TRUE
      /\ sender' \in {"idle", "post", "unschedule"}
      /\ UNCHANGED <<delivery_ready, tasks, ui, taken, published, toggles, failures>>
  BY DEF SendWithSnapshot, page, bounds
<1> HIDE DEF epoch, m, row
<1>5. /\ log' \in Seq([kind : Kinds, epoch : Nat, with : BOOLEAN])
      /\ shell_snapshot_epoch' \in Nat /\ snapshot_epoch' \in Nat
  BY <1>1, <1>2, <1>4 DEF TypeOK
<1>6. urgent' \subseteq Messages /\ messages' \subseteq Messages /\ snapshot' \subseteq Messages
  BY <1>2, <1>3, <1>4, QueueTypes
<1> QED
  BY <1>4, <1>5, <1>6 DEF TypeOK

LEMMA TypeStep == TypeOK /\ [Next]_vars => TypeOK'
<1> SUFFICES ASSUME TypeOK, [Next]_vars PROVE TypeOK'
  OBVIOUS
<1> USE DEF TypeOK, pending, page, bounds
<1>1. ASSUME NEW kind \in Kinds, NEW with \in BOOLEAN, SendWithSnapshot(kind, with)
      PROVE  TypeOK'
  BY <1>1, SendType
<1>2. CASE Post
  BY <1>2 DEF Post
<1>3. CASE PostRefused
  BY <1>3, BoundsAssumption DEF PostRefused
<1>4. CASE Unschedule
  BY <1>4 DEF Unschedule
<1>5. ASSUME NEW ready \in BOOLEAN, SetDeliveryReady(ready)
      PROVE  TypeOK'
  BY <1>5, BoundsAssumption DEF SetDeliveryReady
<1>6. CASE TakePending
  <2>1. tasks' \in Nat /\ scheduled' \in BOOLEAN
    <3>1. tasks \in Nat /\ tasks > 0 /\ tasks' = tasks - 1
      BY <1>6 DEF TakePending
    <3>2. tasks' \in Nat
      BY ONLY <3>1
    <3>3. scheduled' = FALSE
      BY <1>6 DEF TakePending
    <3> QED
      BY <3>2, <3>3
  <2>2. CASE AllEmpty
    BY <1>6, <2>1, <2>2 DEF TakePending
  <2>3. CASE ~AllEmpty
    <3>1. taken' \in [urgent : SUBSET Messages, messages : SUBSET Messages,
                      snapshot : SUBSET Messages, epoch : Nat]
      BY <1>6, <2>3 DEF TakePending
    <3> QED
      BY <1>6, <2>1, <2>3, <3>1 DEF TakePending
  <2> QED
    BY <2>2, <2>3
<1>7. CASE ApplyUrgent
  BY <1>7 DEF ApplyUrgent
<1>8. CASE PublishSnapshot
  <2>1. published'.epoch \in Nat /\ DOMAIN published'.content = Kinds
    BY <1>8 DEF PublishSnapshot
  <2> QED
    BY <1>8, <2>1 DEF PublishSnapshot
<1>9. CASE ApplyDetails
  BY <1>9 DEF ApplyDetails, Nothing
<1>10. CASE DecideRepost
  BY <1>10 DEF DecideRepost
<1>11. CASE Repost
  BY <1>11 DEF Repost
<1>12. CASE RepostRefused
  BY <1>12, BoundsAssumption DEF RepostRefused
<1>13. CASE UnscheduleRepost
  BY <1>13 DEF UnscheduleRepost
<1>14. CASE UNCHANGED vars
  BY <1>14 DEF vars
<1> QED
  BY <1>1, <1>2, <1>3, <1>4, <1>5, <1>6, <1>7, <1>8, <1>9, <1>10, <1>11, <1>12, <1>13, <1>14
  DEF Next, Compositor, UiTask

\* Queues, flag, task and snapshot have their types, for any kinds of messages.
THEOREM TypeCorrect == Spec => []TypeOK
BY TypeInit, TypeStep, PTL DEF Spec

(***************************************************************************)
(* Wake-ups.                                                               *)
(***************************************************************************)

\* A thread lowers the flag only after a refused post, or when delivery stops.
UnscheduleHasReason ==
  /\ (delivery_ready /\ sender = "unschedule") => failures > 0
  /\ ui = "unschedule" => failures > 0

WakeupInv ==
  /\ tasks \in Nat
  /\ failures \in Nat
  /\ scheduled \in BOOLEAN
  /\ NoMessageStranded
  /\ UnscheduleHasReason

LEMMA WakeupInit == Init => WakeupInv
<1> SUFFICES ASSUME Init PROVE WakeupInv
  OBVIOUS
<1>1. tasks \in Nat /\ failures \in Nat /\ scheduled \in BOOLEAN
  BY DEF Init
<1>2. ~delivery_ready /\ ui # "unschedule"
  BY DEF Init
<1>3. NoMessageStranded /\ UnscheduleHasReason
  BY <1>2 DEF NoMessageStranded, QueueHasTask, FlagHasOwner, UnscheduleHasReason
<1> QED
  BY <1>1, <1>3 DEF WakeupInv

LEMMA WakeupStep == WakeupInv /\ [Next]_vars => WakeupInv'
<1> SUFFICES ASSUME WakeupInv, [Next]_vars PROVE WakeupInv'
  OBVIOUS
<1> USE DEF WakeupInv, NoMessageStranded, QueueHasTask, FlagHasOwner, UnscheduleHasReason, AllEmpty,
            TaskComing, pending, page, bounds
<1>1. ASSUME NEW kind \in Kinds, NEW with \in BOOLEAN, SendWithSnapshot(kind, with)
      PROVE  WakeupInv'
  BY <1>1 DEF SendWithSnapshot, NextEpoch
<1>2. CASE Post
  BY <1>2 DEF Post
<1>3. CASE PostRefused
  BY <1>3 DEF PostRefused
<1>4. CASE Unschedule
  BY <1>4 DEF Unschedule
<1>5. ASSUME NEW ready \in BOOLEAN, SetDeliveryReady(ready)
      PROVE  WakeupInv'
  BY <1>5 DEF SetDeliveryReady
<1>6. CASE TakePending
  <2>1. tasks' \in Nat
    BY <1>6 DEF TakePending
  <2>2. scheduled' = FALSE
    BY <1>6 DEF TakePending
  <2>3. failures' = failures /\ delivery_ready' = delivery_ready /\ sender' = sender
    BY <1>6 DEF TakePending
  <2>4. (AllEmpty' /\ ui' = "idle") \/ ui' = "urgent"
    BY <1>6 DEF TakePending
  <2> QED
    BY <2>1, <2>2, <2>3, <2>4
<1>7. CASE ApplyUrgent
  BY <1>7 DEF ApplyUrgent
<1>8. CASE PublishSnapshot
  BY <1>8 DEF PublishSnapshot
<1>9. CASE ApplyDetails
  BY <1>9 DEF ApplyDetails
<1>10. CASE DecideRepost
  <2>1. CASE AllEmpty \/ scheduled
    BY <1>10, <2>1 DEF DecideRepost
  <2>2. CASE ~(AllEmpty \/ scheduled)
    BY <1>10, <2>2 DEF DecideRepost
  <2> QED
    BY <2>1, <2>2
<1>11. CASE Repost
  BY <1>11 DEF Repost
<1>12. CASE RepostRefused
  BY <1>12 DEF RepostRefused
<1>13. CASE UnscheduleRepost
  BY <1>13 DEF UnscheduleRepost
<1>14. CASE UNCHANGED vars
  BY <1>14 DEF vars
<1> QED
  BY <1>1, <1>2, <1>3, <1>4, <1>5, <1>6, <1>7, <1>8, <1>9, <1>10, <1>11, <1>12, <1>13, <1>14
  DEF Next, Compositor, UiTask

\* While delivery is ready and no post was refused, a queued message always has a
\* task coming for it (send_with_snapshot and execute agree about `scheduled`); and the
\* flag is never raised without an owner, whatever posts are refused.
THEOREM NeverStranded == Spec => []NoMessageStranded
<1>1. WakeupInv => NoMessageStranded
  BY DEF WakeupInv
<1> QED
  BY WakeupInit, WakeupStep, <1>1, PTL DEF Spec

(***************************************************************************)
(* Epochs.                                                                 *)
(***************************************************************************)

\* The epochs of the three places a snapshot passes through.
EpochType ==
  /\ shell_snapshot_epoch \in Nat /\ shell_snapshot_epoch % 2 = 0
  /\ snapshot_epoch \in Nat /\ snapshot_epoch % 2 = 0
  /\ taken.epoch \in Nat /\ taken.epoch % 2 = 0
  /\ published.epoch \in Nat
  /\ \A m \in messages : m.epoch \in Nat
  /\ \A m \in taken.messages : m.epoch \in Nat

TakenUnpublished == ui \in {"urgent", "publish"} /\ taken.snapshot # {}

\* The place of the newest snapshot: pending, taken or published. Its epoch is
\* the compositor's.
NewestEpoch ==
  IF snapshot # {} THEN snapshot_epoch
  ELSE IF TakenUnpublished THEN taken.epoch
  ELSE published.epoch

EpochInv ==
  /\ EpochType
  /\ NewestEpoch = shell_snapshot_epoch
  /\ snapshot_epoch <= shell_snapshot_epoch
  /\ published.epoch <= shell_snapshot_epoch
  /\ TakenUnpublished => published.epoch < taken.epoch /\ taken.epoch <= shell_snapshot_epoch
  /\ snapshot # {} => published.epoch < snapshot_epoch
  /\ (snapshot # {} /\ TakenUnpublished) => taken.epoch < snapshot_epoch
  /\ \A m \in messages : m.epoch <= shell_snapshot_epoch
  /\ ui \in {"urgent", "publish"} =>
       \A m \in taken.messages :
         m.epoch <= IF taken.snapshot # {} THEN taken.epoch ELSE published.epoch
  /\ NoDetailAheadOfSnapshot
  /\ PublishNeverRefused

LEMMA EpochInit == Init => EpochInv
BY DEF Init, EpochInv, EpochType, NewestEpoch, TakenUnpublished, Nothing,
       NoDetailAheadOfSnapshot, PublishNeverRefused

\* What a queue holds after a push: a part of what it held, and the message.
LEMMA PushAdds ==
  ASSUME NEW queue, NEW m, NEW p \in Push(queue, m)
  PROVE  p = m \/ p \in queue
BY DEF Push

LEMMA PushNonEmpty ==
  ASSUME NEW queue, NEW m
  PROVE  Push(queue, m) # {}
BY DEF Push

LEMMA EpochStep == EpochInv /\ [Next]_vars => EpochInv'
<1> SUFFICES ASSUME EpochInv, [Next]_vars PROVE EpochInv'
  OBVIOUS
<1> USE DEF EpochInv, EpochType, NewestEpoch, TakenUnpublished, NoDetailAheadOfSnapshot,
            PublishNeverRefused, Publishable, pending, page, bounds
<1>1. ASSUME NEW kind \in Kinds, NEW with \in BOOLEAN, SendWithSnapshot(kind, with)
      PROVE  EpochInv'
  <2> DEFINE epoch == IF with THEN shell_snapshot_epoch + 2 ELSE shell_snapshot_epoch
             m == [n |-> Len(log) + 1, kind |-> kind, epoch |-> epoch]
  <2>1. /\ shell_snapshot_epoch' = epoch
        /\ epoch \in Nat /\ epoch % 2 = 0
        /\ shell_snapshot_epoch <= epoch
        /\ with => shell_snapshot_epoch < epoch
        /\ ~with => shell_snapshot_epoch = epoch
    BY <1>1 DEF SendWithSnapshot, NextEpoch
  <2>2. /\ with => snapshot' # {} /\ snapshot_epoch' = epoch
        /\ ~with => snapshot' = snapshot /\ snapshot_epoch' = snapshot_epoch
    BY <1>1, <2>1, PushNonEmpty DEF SendWithSnapshot, NextEpoch
  <2>3. ui' = ui /\ taken' = taken /\ published' = published
    BY <1>1 DEF SendWithSnapshot, NextEpoch
  <2>4. \A p \in messages' : p \in messages \/ p.epoch = epoch
    BY <1>1, PushAdds DEF SendWithSnapshot, NextEpoch
  <2>5. \A p \in messages' : p.epoch \in Nat /\ p.epoch <= epoch
    BY <2>1, <2>4
  <2>6. EpochType'
    BY <2>1, <2>2, <2>3, <2>5
  <2> HIDE DEF epoch
  <2>7. CASE with
    BY <2>7, <2>1, <2>2, <2>3, <2>5, <2>6
  <2>8. CASE ~with
    BY <2>8, <2>1, <2>2, <2>3, <2>5, <2>6
  <2> QED
    BY <2>7, <2>8
<1>2. CASE Post
  BY <1>2 DEF Post
<1>3. CASE PostRefused
  BY <1>3 DEF PostRefused
<1>4. CASE Unschedule
  BY <1>4 DEF Unschedule
<1>5. ASSUME NEW ready \in BOOLEAN, SetDeliveryReady(ready)
      PROVE  EpochInv'
  BY <1>5 DEF SetDeliveryReady
<1>6. CASE TakePending
  <2>1. CASE AllEmpty
    BY <1>6, <2>1 DEF TakePending
  <2>2. CASE ~AllEmpty
    <3>1. /\ messages' = {} /\ snapshot' = {} /\ snapshot_epoch' = 0 /\ ui' = "urgent"
          /\ taken'.epoch = snapshot_epoch /\ taken'.snapshot = snapshot
          /\ taken'.messages = messages
          /\ shell_snapshot_epoch' = shell_snapshot_epoch /\ published' = published
          /\ ui = "idle"
      BY <1>6, <2>2 DEF TakePending
    <3>2. snapshot = {} => published.epoch = shell_snapshot_epoch
      BY <3>1
    <3>3. EpochType'
      BY <3>1
    <3> QED
      BY <3>1, <3>2, <3>3
  <2> QED
    BY <2>1, <2>2
<1>7. CASE ApplyUrgent
  BY <1>7 DEF ApplyUrgent
<1>8. CASE PublishSnapshot
  <2>1. CASE taken.snapshot # {}
    BY <1>8, <2>1 DEF PublishSnapshot
  <2>2. CASE taken.snapshot = {}
    BY <1>8, <2>2 DEF PublishSnapshot
  <2> QED
    BY <2>1, <2>2
<1>9. CASE ApplyDetails
  BY <1>9 DEF ApplyDetails, Nothing
<1>10. CASE DecideRepost
  BY <1>10 DEF DecideRepost
<1>11. CASE Repost
  BY <1>11 DEF Repost
<1>12. CASE RepostRefused
  BY <1>12 DEF RepostRefused
<1>13. CASE UnscheduleRepost
  BY <1>13 DEF UnscheduleRepost
<1>14. CASE UNCHANGED vars
  BY <1>14 DEF vars
<1> QED
  BY <1>1, <1>2, <1>3, <1>4, <1>5, <1>6, <1>7, <1>8, <1>9, <1>10, <1>11, <1>12, <1>13, <1>14
  DEF Next, Compositor, UiTask

\* publish_messages never refuses the epoch of a task: it is even and beyond the
\* published one.
THEOREM EpochsAdvance == Spec => []PublishNeverRefused
<1>1. EpochInv => PublishNeverRefused
  BY DEF EpochInv
<1> QED
  BY EpochInit, EpochStep, <1>1, PTL DEF Spec

\* The page never gets a detail before the snapshot the detail refers to.
THEOREM SnapshotFirst == Spec => []NoDetailAheadOfSnapshot
<1>1. EpochInv => NoDetailAheadOfSnapshot
  BY DEF EpochInv
<1> QED
  BY EpochInit, EpochStep, <1>1, PTL DEF Spec
(***************************************************************************)
(* Facts about the operators: the least number with a property, what       *)
(* iterating a queue by its numbers gives, and the latest of a kind.       *)
(***************************************************************************)

\* A set of naturals that is not empty has a least element.
LEMMA Least ==
  ASSUME NEW S \in SUBSET Nat, S # {}
  PROVE  \E n \in S : \A i \in S : n <= i
<1> DEFINE R == OpToRel(<, Nat)
<1>1. IsWellFoundedOn(R, Nat)
  BY NatLessThanWellFounded
<1>2. PICK n \in S : \A i \in S : <<i, n>> \notin R
  <2> HIDE DEF R
  <2> QED
    BY <1>1, WFMin
<1>3. \A i \in S : ~(i < n)
  BY <1>2 DEF OpToRel
<1> QED
  BY <1>3

\* Messages with numbers of their own.
Numbered(queue) ==
  /\ \A m \in queue : m.n \in Nat
  /\ \A m, p \in queue : m.n = p.n => m = p

Before(queue, m) == {p \in queue : p.n < m.n}

\* The numbers of what lies before a message tell it apart from every other.
LEMMA RankGrows ==
  ASSUME NEW queue, IsFiniteSet(queue), Numbered(queue), NEW m \in queue, NEW p \in queue
  PROVE  /\ Cardinality(Before(queue, m)) \in 0 .. Cardinality(queue) - 1
         /\ m.n < p.n <=> Cardinality(Before(queue, m)) < Cardinality(Before(queue, p))
<1>1. ASSUME NEW a \in queue, NEW b \in queue, a.n < b.n
      PROVE  Cardinality(Before(queue, a)) < Cardinality(Before(queue, b))
  <2>1. /\ Before(queue, a) \subseteq Before(queue, b)
        /\ a \in Before(queue, b) /\ a \notin Before(queue, a)
        /\ Before(queue, b) \subseteq queue
    BY <1>1 DEF Before, Numbered
  <2>2. IsFiniteSet(Before(queue, b))
    BY <2>1, FS_Subset
  <2> QED
    BY <2>1, <2>2, FS_Subset, FS_CardinalityType
<1>2. ASSUME NEW a \in queue
      PROVE  Cardinality(Before(queue, a)) \in 0 .. Cardinality(queue) - 1
  <2>1. Before(queue, a) \subseteq queue /\ a \notin Before(queue, a)
    BY DEF Before, Numbered
  <2>2. /\ Cardinality(Before(queue, a)) < Cardinality(queue)
        /\ Cardinality(Before(queue, a)) \in Nat /\ Cardinality(queue) \in Nat
    BY <2>1, FS_Subset, FS_CardinalityType
  <2> QED
    BY <2>2
<1>3. m.n < p.n \/ m = p \/ p.n < m.n
  BY DEF Numbered
<1>4. Cardinality(Before(queue, m)) \in Nat /\ Cardinality(Before(queue, p)) \in Nat
  BY <1>2
<1>5. CASE m.n < p.n
  BY <1>1, <1>2, <1>5
<1>6. CASE m = p
  BY <1>2, <1>4, <1>6 DEF Numbered
<1>7. CASE p.n < m.n
  <2>1. Cardinality(Before(queue, p)) < Cardinality(Before(queue, m))
    BY <1>1, <1>7
  <2>2. ~(m.n < p.n)
    BY <1>7 DEF Numbered
  <2> QED
    BY <1>2, <1>4, <2>1, <2>2
<1> QED
  BY <1>3, <1>5, <1>6, <1>7

\* InOrder gives every message of the queue, once, by rising numbers.
LEMMA InOrderSorts ==
  ASSUME NEW queue, IsFiniteSet(queue), Numbered(queue)
  PROVE  /\ InOrder(queue) \in Seq(queue)
         /\ Len(InOrder(queue)) = Cardinality(queue)
         /\ \A m \in queue : \E i \in DOMAIN InOrder(queue) : InOrder(queue)[i] = m
         /\ \A i, j \in DOMAIN InOrder(queue) : i < j => InOrder(queue)[i].n < InOrder(queue)[j].n
<1> DEFINE Rank == [m \in queue |-> Cardinality(Before(queue, m)) + 1]
           N    == Cardinality(queue)
           at(i) == CHOOSE m \in queue : Cardinality({p \in queue : p.n < m.n}) = i - 1
<1>1. N \in Nat
  BY FS_CardinalityType
<1>2. \A m \in queue : Cardinality(Before(queue, m)) \in 0 .. N - 1
  BY RankGrows
<1>3. Rank \in [queue -> 1 .. N]
  BY <1>1, <1>2
<1>4. \A m, p \in queue : Rank[m] = Rank[p] => m = p
  <2> SUFFICES ASSUME NEW m \in queue, NEW p \in queue, Rank[m] = Rank[p] PROVE m = p
    OBVIOUS
  <2>1. Cardinality(Before(queue, m)) = Cardinality(Before(queue, p))
    BY <1>2
  <2>2. ~(m.n < p.n) /\ ~(p.n < m.n)
    BY <1>2, <2>1, RankGrows
  <2> QED
    BY <2>2 DEF Numbered
<1>5. \A i \in 1 .. N : \E m \in queue : Rank[m] = i
  <2>1. IsFiniteSet(1 .. N) /\ Cardinality(1 .. N) = N
    BY <1>1, FS_Interval
  <2>2. Rank \in Injection(queue, 1 .. N)
    BY <1>3, <1>4 DEF Injection, IsInjective
  <2>3. Rank \in Surjection(queue, 1 .. N)
    BY <2>1, <2>2, FS_Injection
  <2> QED
    BY <2>3 DEF Surjection
<1>6. ASSUME NEW i \in 1 .. N
      PROVE  at(i) \in queue /\ Rank[at(i)] = i
  <2>1. PICK m \in queue : Rank[m] = i
    BY <1>5
  <2>2. Cardinality({p \in queue : p.n < m.n}) = i - 1
    BY <1>1, <1>2, <2>1 DEF Before
  <2>3. at(i) \in queue /\ Cardinality({p \in queue : p.n < at(i).n}) = i - 1
    BY <2>2
  <2> QED
    BY <1>1, <2>3 DEF Before
<1>7. InOrder(queue) = [i \in 1 .. N |-> at(i)]
  BY DEF InOrder
<1> HIDE DEF Rank, N, at
<1>8. InOrder(queue) \in Seq(queue) /\ DOMAIN InOrder(queue) = 1 .. N /\ Len(InOrder(queue)) = N
  <2>1. [i \in 1 .. N |-> at(i)] \in [1 .. N -> queue]
    BY <1>6
  <2> QED
    BY <1>1, <1>7, <2>1
<1>9. ASSUME NEW m \in queue
      PROVE  \E i \in 1 .. N : InOrder(queue)[i] = m
  <2>1. Rank[m] \in 1 .. N
    BY <1>3
  <2>2. at(Rank[m]) = m
    BY <1>4, <1>6, <2>1
  <2> QED
    BY <1>7, <2>1, <2>2
<1>10. ASSUME NEW i \in 1 .. N, NEW j \in 1 .. N, i < j
       PROVE  InOrder(queue)[i].n < InOrder(queue)[j].n
  <2>1. /\ at(i) \in queue /\ at(j) \in queue
        /\ Cardinality(Before(queue, at(i))) + 1 = i
        /\ Cardinality(Before(queue, at(j))) + 1 = j
    BY <1>6 DEF Rank
  <2>2. Cardinality(Before(queue, at(i))) < Cardinality(Before(queue, at(j)))
    BY <1>1, <1>2, <1>10, <2>1
  <2>3. at(i).n < at(j).n
    BY <2>1, <2>2, RankGrows
  <2> QED
    BY <1>7, <2>3
<1> QED
  BY <1>8, <1>9, <1>10 DEF N

\* Latest is the greatest number of the kind in the queue, or what there was.
LEMMA LatestIsLast ==
  ASSUME NEW L \in Nat, NEW queue, \A m \in queue : m.n \in 0 .. L,
         NEW k, NEW old \in 0 .. L, \A m \in queue : m.kind = k => old <= m.n
  PROVE  /\ Latest(queue, k, old) \in 0 .. L
         /\ old <= Latest(queue, k, old)
         /\ \A m \in queue : m.kind = k => m.n <= Latest(queue, k, old)
         /\ \/ Latest(queue, k, old) = old
            \/ \E m \in queue : m.kind = k /\ m.n = Latest(queue, k, old)
<1> DEFINE ns == {m.n : m \in {p \in queue : p.kind = k}}
           max == CHOOSE n \in ns : \A i \in ns : i <= n
<1>1. CASE ns = {}
  BY <1>1 DEF Latest
<1>2. CASE ns # {}
  <2> DEFINE U == {u \in Nat : \A i \in ns : i <= u}
  <2>1. ns \subseteq 0 .. L
    BY ONLY \A m \in queue : m.n \in 0 .. L
  <2>2. L \in U
    BY <2>1
  <2>3. PICK u \in U : \A v \in U : u <= v
    BY <2>2, Least
  <2>4. u \in ns
    <3> SUFFICES ASSUME u \notin ns PROVE FALSE
      OBVIOUS
    <3>0. u \in Nat /\ \A i \in ns : i <= u
      BY <2>3
    <3> HIDE DEF ns
    <3>1. \A i \in ns : i <= u - 1
      <4> TAKE i \in ns
      <4>1. i \in Nat /\ i <= u /\ i # u
        BY <2>1, <3>0
      <4> QED
        BY <3>0, <4>1
    <3>2. u \in Nat /\ u > 0
      <4>1. PICK i \in ns : TRUE
        BY <1>2
      <4>2. i \in 0 .. L /\ i <= u - 1 /\ u \in Nat
        BY <2>1, <3>1, <2>3
      <4> HIDE DEF ns, U
      <4> QED
        BY <4>2
    <3>3. u - 1 \in U
      BY <3>1, <3>2, <2>3
    <3> QED
      BY <2>3, <3>3
  <2>5. max \in ns /\ \A i \in ns : i <= max
    BY <2>3, <2>4
  <2>6. Latest(queue, k, old) = max
    BY <1>2 DEF Latest
  <2> HIDE DEF max
  <2>7. PICK p \in queue : p.kind = k /\ p.n = max
    BY <2>5
  <2>8. \A m \in queue : m.kind = k => m.n <= max
    BY <2>5
  <2>9. max \in 0 .. L /\ old <= max
    BY <2>7
  <2> QED
    BY <2>6, <2>7, <2>8, <2>9
<1> QED
  BY <1>1, <1>2

(* Every number of A comes before every number of B. *)
Below(A, B) == \A a \in A, b \in B : a < b

(***************************************************************************)
(* What the queues hold.                                                   *)
(***************************************************************************)

\* A row of the log, as TypeOK has it.
LogRow == [kind : Kinds, epoch : Nat, with : BOOLEAN]

\* The i-th message that was sent, as it is queued and delivered.
Entry(i) == [n |-> i, kind |-> log[i].kind, epoch |-> log[i].epoch]
Entries  == {Entry(i) : i \in DOMAIN log}

Working == ui \in {"urgent", "publish", "apply"}

\* Whatever is queued, taken or delivered was sent, and input keeps to its lane.
LogInv ==
  /\ log \in Seq(LogRow)
  /\ urgent \subseteq Entries /\ messages \subseteq Entries /\ snapshot \subseteq Entries
  /\ taken.urgent \subseteq Entries /\ taken.messages \subseteq Entries
  /\ taken.snapshot \subseteq Entries
  /\ delivered \in Seq(Entries)
  /\ \A m \in urgent \cup taken.urgent : m.kind \in Urgent
  /\ \A m \in messages \cup taken.messages : m.kind \notin Urgent
  /\ ~Working => taken = Nothing

\* What a send does, told by the message it numbers.
Sent(m, with) ==
  /\ Len(log) \in Nat /\ DOMAIN log = 1 .. Len(log)
  /\ m.n = Len(log) + 1 /\ m.kind \in Kinds /\ m.epoch = shell_snapshot_epoch'
  /\ with => m.kind \in Snapshotted
  /\ log' \in Seq(LogRow) /\ Len(log') = m.n /\ DOMAIN log' = 1 .. m.n
  /\ \A i \in DOMAIN log : log'[i] = log[i]
  /\ log'[m.n] = [kind |-> m.kind, epoch |-> m.epoch, with |-> with]
  /\ shell_snapshot_epoch' = IF with THEN shell_snapshot_epoch + 2 ELSE shell_snapshot_epoch
  /\ Entries \subseteq Entries' /\ m \in Entries'
  /\ \A i \in DOMAIN log : Entry(i)' = Entry(i)
  /\ snapshot' = IF with THEN Push(snapshot, m) ELSE snapshot
  /\ urgent' = IF m.kind \in Urgent THEN PushUrgentInput(urgent, m) ELSE urgent
  /\ messages' = IF m.kind \in Urgent THEN messages ELSE Push(messages, m)
  /\ UNCHANGED <<ui, taken, published, delivered>>

LEMMA SendFacts ==
  ASSUME log \in Seq(LogRow), shell_snapshot_epoch \in Nat,
         NEW kind \in Kinds, NEW with \in BOOLEAN, SendWithSnapshot(kind, with)
  PROVE  \E m : Sent(m, with)
<1> DEFINE epoch == IF with THEN NextEpoch(shell_snapshot_epoch) ELSE shell_snapshot_epoch
           m == [n |-> Len(log) + 1, kind |-> kind, epoch |-> epoch]
           row == [kind |-> kind, epoch |-> epoch, with |-> with]
<1>1. /\ log' = Append(log, row) /\ shell_snapshot_epoch' = epoch
      /\ with => kind \in Snapshotted
      /\ snapshot' = IF with THEN Push(snapshot, m) ELSE snapshot
      /\ urgent' = IF kind \in Urgent THEN PushUrgentInput(urgent, m) ELSE urgent
      /\ messages' = IF kind \in Urgent THEN messages ELSE Push(messages, m)
      /\ UNCHANGED <<ui, taken, published, delivered>>
  BY DEF SendWithSnapshot, page
<1>2. epoch \in Nat
  BY DEF NextEpoch
<1>3. epoch = IF with THEN shell_snapshot_epoch + 2 ELSE shell_snapshot_epoch
  BY DEF NextEpoch
<1> HIDE DEF epoch
<1>4. row \in LogRow
  BY <1>2 DEF LogRow
<1>5. /\ m.n = Len(log) + 1 /\ m.kind = kind /\ m.epoch = epoch
      /\ row.kind = kind /\ row.epoch = epoch
      /\ row = [kind |-> m.kind, epoch |-> m.epoch, with |-> with]
  OBVIOUS
<1>6. m = [n |-> Len(log) + 1, kind |-> row.kind, epoch |-> row.epoch]
  BY <1>5
<1> HIDE DEF m, row
<1>7. Len(log) \in Nat /\ DOMAIN log = 1 .. Len(log)
  OBVIOUS
<1>8. /\ log' \in Seq(LogRow) /\ Len(log') = m.n /\ DOMAIN log' = 1 .. m.n
      /\ \A i \in DOMAIN log : log'[i] = log[i]
      /\ log'[m.n] = row
  BY <1>1, <1>4, <1>5, <1>7
<1>9. \A i \in DOMAIN log : i \in DOMAIN log' /\ Entry(i)' = Entry(i)
  BY <1>5, <1>7, <1>8 DEF Entry
<1>10. ASSUME NEW i, i = m.n
       PROVE  i \in DOMAIN log' /\ Entry(i)' = m
  BY <1>5, <1>6, <1>7, <1>8, <1>10 DEF Entry
<1>11. \E i : i = m.n
  OBVIOUS
<1>12. \E i \in DOMAIN log' : Entry(i)' = m
  BY <1>10, <1>11
<1>13. Entries \subseteq Entries' /\ m \in Entries'
  BY <1>9, <1>12 DEF Entries
<1> WITNESS m
<1> QED
  BY <1>1, <1>3, <1>5, <1>7, <1>8, <1>9, <1>13 DEF Sent

LEMMA RowFields ==
  ASSUME log \in Seq(LogRow), NEW i \in DOMAIN log
  PROVE  /\ log[i].kind \in Kinds /\ log[i].epoch \in Nat /\ log[i].with \in BOOLEAN
         /\ i \in Nat /\ 0 < i /\ i <= Len(log)
<1>1. log[i] \in LogRow
  OBVIOUS
<1>2. i \in 1 .. Len(log) /\ Len(log) \in Nat
  OBVIOUS
<1>3. i \in Nat /\ 0 < i /\ i <= Len(log)
  BY <1>2
<1> QED
  BY <1>1, <1>3 DEF LogRow

\* A queue of sent messages is finite, and its messages have numbers of their own.
LEMMA EntryFields ==
  ASSUME log \in Seq(LogRow), NEW m \in Entries
  PROVE  /\ m.n \in DOMAIN log /\ m.n \in Nat /\ m.n <= Len(log) /\ m = Entry(m.n)
         /\ m.kind = log[m.n].kind /\ m.kind \in Kinds
<1>1. PICK i \in DOMAIN log : m = [n |-> i, kind |-> log[i].kind, epoch |-> log[i].epoch]
  BY DEF Entries, Entry
<1>2. m.n = i /\ m.kind = log[i].kind
  BY <1>1
<1> QED
  BY <1>1, <1>2, RowFields DEF Entry

LEMMA EntriesNumbered ==
  ASSUME log \in Seq(LogRow), NEW queue \in SUBSET Entries
  PROVE  IsFiniteSet(queue) /\ Numbered(queue)
<1>1. IsFiniteSet(DOMAIN log)
  <2>1. Len(log) \in Nat /\ DOMAIN log = 1 .. Len(log)
    OBVIOUS
  <2> QED
    BY <2>1, FS_Interval
<1>2. IsFiniteSet(Entries)
  <2> DEFINE f == [i \in DOMAIN log |-> Entry(i)]
  <2>1. f \in Surjection(DOMAIN log, Entries)
    BY DEF Surjection, Entries
  <2> QED
    BY <1>1, <2>1, FS_Surjection
<1>3. IsFiniteSet(queue)
  BY <1>2, FS_Subset
<1>4. Numbered(queue)
  <2>1. ASSUME NEW m \in queue, NEW p \in queue, m.n = p.n
        PROVE  m = p
    BY <2>1, EntryFields
  <2> QED
    BY <2>1, EntryFields DEF Numbered
<1> QED
  BY <1>3, <1>4

LEMMA LogInit == Init => LogInv
<1> SUFFICES ASSUME Init PROVE LogInv
  OBVIOUS
<1>1. log \in Seq([kind : Kinds, epoch : Nat, with : BOOLEAN]) /\ delivered \in Seq(Entries)
  BY DEF Init
<1>2. taken = Nothing /\ urgent = {} /\ messages = {} /\ snapshot = {}
  BY DEF Init
<1> QED
  BY <1>1, <1>2 DEF LogInv, Nothing, LogRow

LEMMA LogSend ==
  ASSUME LogInv, NEW m, NEW with \in BOOLEAN, Sent(m, with)
  PROVE  LogInv'
<1> USE DEF LogInv, Sent
<1>1. m.kind \in Urgent => m.kind \notin Keyed
  BY KindsAssumption
<1>2. urgent' \subseteq Entries' /\ \A p \in urgent' : p.kind \in Urgent
  BY DEF PushUrgentInput, Push
<1>3. messages' \subseteq Entries' /\ \A p \in messages' : p.kind \notin Urgent
  BY DEF Push
<1>4. snapshot' \subseteq Entries'
  BY DEF Push
<1>5. /\ taken'.urgent \subseteq Entries' /\ taken'.messages \subseteq Entries'
      /\ taken'.snapshot \subseteq Entries'
  OBVIOUS
<1>6. delivered' \in Seq(Entries')
  <2>1. Entries \in SUBSET Entries' /\ delivered \in Seq(Entries) /\ delivered' = delivered
    OBVIOUS
  <2>2. ASSUME NEW S, NEW T, S \subseteq T, NEW s \in Seq(S) PROVE s \in Seq(T)
    BY <2>2
  <2> QED
    BY <2>1, <2>2
<1>7. Working' = Working
  BY DEF Working
<1> QED
  BY <1>2, <1>3, <1>4, <1>5, <1>6, <1>7 DEF LogRow

LEMMA LogStep == TypeOK /\ LogInv /\ [Next]_vars => LogInv'
<1> SUFFICES ASSUME TypeOK, LogInv, [Next]_vars PROVE LogInv'
  OBVIOUS
<1>l. log' = log => Entries' = Entries
  BY DEF Entries, Entry
<1> USE DEF LogInv, pending, page, bounds, Working, Nothing
<1>1. ASSUME NEW kind \in Kinds, NEW with \in BOOLEAN, SendWithSnapshot(kind, with)
      PROVE  LogInv'
  BY <1>1, SendFacts, LogSend DEF TypeOK, LogRow
<1>2. CASE Post
  BY <1>l, <1>2 DEF Post
<1>3. CASE PostRefused
  BY <1>l, <1>3 DEF PostRefused
<1>4. CASE Unschedule
  BY <1>l, <1>4 DEF Unschedule
<1>5. ASSUME NEW ready \in BOOLEAN, SetDeliveryReady(ready)
      PROVE  LogInv'
  BY <1>l, <1>5 DEF SetDeliveryReady
<1>6. CASE TakePending
  <2>1. CASE AllEmpty
    BY <1>l, <1>6, <2>1 DEF TakePending
  <2>2. CASE ~AllEmpty
    <3>1. /\ taken' = [urgent |-> urgent, messages |-> messages, snapshot |-> snapshot,
                       epoch |-> snapshot_epoch]
          /\ urgent' = {} /\ messages' = {} /\ snapshot' = {} /\ ui' = "urgent"
          /\ log' = log /\ delivered' = delivered
      BY <1>6, <2>2 DEF TakePending
    <3> QED
      BY <1>l, <3>1
  <2> QED
    BY <2>1, <2>2
<1>7. CASE ApplyUrgent
  <2>1. /\ delivered' = delivered \o InOrder(taken.urgent) /\ ui' = "publish" /\ Working
        /\ UNCHANGED <<log, urgent, messages, snapshot, taken>>
    BY <1>7 DEF ApplyUrgent
  <2>2. InOrder(taken.urgent) \in Seq(taken.urgent)
    BY EntriesNumbered, InOrderSorts DEF LogRow
  <2>3. delivered' \in Seq(Entries)
    BY <2>1, <2>2
  <2> QED
    BY <1>l, <2>1, <2>3
<1>8. CASE PublishSnapshot
  BY <1>l, <1>8 DEF PublishSnapshot
<1>9. CASE ApplyDetails
  <2>1. /\ delivered' = delivered \o InOrder(taken.messages) /\ taken' = Nothing
        /\ UNCHANGED <<log, urgent, messages, snapshot>>
    BY <1>9 DEF ApplyDetails
  <2>2. InOrder(taken.messages) \in Seq(taken.messages)
    BY EntriesNumbered, InOrderSorts DEF LogRow
  <2>3. delivered' \in Seq(Entries)
    BY <2>1, <2>2
  <2> QED
    BY <1>l, <2>1, <2>3
<1>10. CASE DecideRepost
  BY <1>l, <1>10 DEF DecideRepost
<1>11. CASE Repost
  BY <1>l, <1>11 DEF Repost
<1>12. CASE RepostRefused
  BY <1>l, <1>12 DEF RepostRefused
<1>13. CASE UnscheduleRepost
  BY <1>l, <1>13 DEF UnscheduleRepost
<1>14. CASE UNCHANGED vars
  BY <1>l, <1>14 DEF vars
<1> QED
  BY <1>1, <1>2, <1>3, <1>4, <1>5, <1>6, <1>7, <1>8, <1>9, <1>10, <1>11, <1>12, <1>13, <1>14
  DEF Next, Compositor, UiTask

(***************************************************************************)
(* The snapshot.                                                           *)
(***************************************************************************)

Covers(queue, i) == \E m \in queue : m.kind = log[i].kind /\ i <= m.n

\* What the next publication says is no older than what was published, and what is
\* queued no older than what was taken.
SnapshotOrder ==
  /\ published.content \in [Kinds -> 0 .. Len(log)]
  /\ \A m \in snapshot : published.content[m.kind] <= m.n
  /\ TakenUnpublished => \A m \in taken.snapshot : published.content[m.kind] <= m.n
  /\ TakenUnpublished => Below(Numbers(taken.snapshot), Numbers(snapshot))

\* Where a message that came with a snapshot is: published, taken or queued; and which
\* of these it has reached when an epoch is published, or taken.
TruthOf(i) ==
  LET readable == i <= published.content[log[i].kind]
      coming   == TakenUnpublished /\ Covers(taken.snapshot, i)
  IN
  /\ log[i].epoch <= shell_snapshot_epoch
  /\ log[i].epoch <= published.epoch => readable
  /\ (TakenUnpublished /\ log[i].epoch <= taken.epoch) => readable \/ coming
  /\ readable \/ coming \/ Covers(snapshot, i)
TruthInv ==
  /\ SnapshotOrder
  /\ \A i \in DOMAIN log : log[i].with => TruthOf(i)

LEMMA TruthInit == Init => TruthInv
<1> SUFFICES ASSUME Init PROVE TruthInv
  OBVIOUS
<1>1. /\ log = <<>> /\ Len(log) = 0 /\ snapshot = {} /\ ~TakenUnpublished
      /\ published.content = [k \in Kinds |-> 0]
  BY DEF Init, TakenUnpublished
<1>2. SnapshotOrder
  BY <1>1 DEF SnapshotOrder
<1> QED
  BY <1>1, <1>2 DEF TruthInv

\* What a message that is pushed replaces is an earlier one of its kind.
LEMMA PushCovers ==
  ASSUME NEW queue, NEW m, NEW p \in queue, p.n \in Nat, m.n \in Nat, p.n <= m.n
  PROVE  \E q \in Push(queue, m) : q.kind = p.kind /\ p.n <= q.n /\ q.n \in {p.n, m.n}
<1>1. CASE m.kind \in Keyed /\ p.kind = m.kind
  BY <1>1 DEF Push
<1>2. CASE ~(m.kind \in Keyed /\ p.kind = m.kind)
  BY <1>2 DEF Push
<1> QED
  BY <1>1, <1>2

LEMMA TruthSend ==
  ASSUME LogInv, EpochInv, TruthInv, NEW m, NEW with \in BOOLEAN, Sent(m, with)
  PROVE  TruthInv'
<1> DEFINE content == published.content
           coming(i) == TakenUnpublished /\ Covers(taken.snapshot, i)
<1>1. /\ published' = published /\ taken' = taken /\ TakenUnpublished' = TakenUnpublished
      /\ Len(log) \in Nat /\ DOMAIN log = 1 .. Len(log) /\ m.n = Len(log) + 1
      /\ Len(log') = m.n /\ DOMAIN log' = 1 .. m.n /\ m.kind \in Kinds
      /\ \A i \in DOMAIN log : log'[i] = log[i]
  BY DEF Sent, TakenUnpublished
<1>2. content \in [Kinds -> 0 .. Len(log)]
  BY DEF TruthInv, SnapshotOrder
<1>3. \A p \in snapshot : p.n \in Nat /\ p.n <= Len(log)
  BY EntryFields DEF LogInv
<1>4. \A p \in taken.snapshot : p.n \in Nat /\ p.n <= Len(log)
  BY EntryFields DEF LogInv
<1>5. \A p \in snapshot' : p \in snapshot \/ p = m
  BY PushAdds DEF Sent
<1>6. content[m.kind] \in Nat /\ content[m.kind] <= m.n
  BY <1>1, <1>2
<1>7. SnapshotOrder'
  <2>1. content' \in [Kinds -> 0 .. Len(log')]
    BY <1>1, <1>2
  <2>2. \A p \in snapshot' : published'.content[p.kind] <= p.n
    BY <1>1, <1>5, <1>6 DEF TruthInv, SnapshotOrder
  <2>3. TakenUnpublished' => \A p \in taken'.snapshot : published'.content[p.kind] <= p.n
    BY <1>1 DEF TruthInv, SnapshotOrder
  <2>4. TakenUnpublished' => Below(Numbers(taken'.snapshot), Numbers(snapshot'))
    <3> SUFFICES ASSUME TakenUnpublished', NEW p \in taken'.snapshot, NEW q \in snapshot'
                 PROVE  p.n < q.n
      BY DEF Below, Numbers
    <3>1. CASE q = m
      BY <1>1, <1>4, <3>1
    <3>2. CASE q \in snapshot
      BY <1>1, <3>2 DEF TruthInv, SnapshotOrder, Below, Numbers
    <3> QED
      BY <1>5, <3>1, <3>2
  <2> QED
    BY <2>1, <2>2, <2>3, <2>4 DEF SnapshotOrder, Numbers
<1>8. /\ published.epoch \in Nat /\ shell_snapshot_epoch \in Nat
      /\ published.epoch <= shell_snapshot_epoch
      /\ TakenUnpublished => taken.epoch \in Nat /\ taken.epoch <= shell_snapshot_epoch
  BY DEF EpochInv, EpochType
<1>9. ASSUME NEW i \in DOMAIN log, log[i].with
      PROVE  TruthOf(i)'
  <2>1. TruthOf(i)
    BY <1>9 DEF TruthInv
  <2>2. i \in Nat /\ i <= Len(log) /\ log'[i] = log[i]
    BY <1>1
  <2>3. Covers(taken.snapshot, i)' <=> Covers(taken.snapshot, i)
    BY <1>1, <2>2 DEF Covers
  <2>4. Covers(snapshot, i) => Covers(snapshot, i)'
    <3>1. CASE with
      <4> SUFFICES ASSUME NEW p \in snapshot, p.kind = log[i].kind, i <= p.n
                   PROVE  \E q \in snapshot' : q.kind = log[i].kind /\ i <= q.n
        BY <2>2 DEF Covers
      <4>1. snapshot' = Push(snapshot, m)
        BY <3>1 DEF Sent
      <4>2. p.n \in Nat /\ m.n \in Nat /\ p.n <= m.n
        BY <1>1, <1>3
      <4>3. PICK q \in Push(snapshot, m) : q.kind = p.kind /\ p.n <= q.n /\ q.n \in {p.n, m.n}
        BY <4>2, PushCovers
      <4> QED
        BY <2>2, <4>1, <4>2, <4>3
    <3>2. CASE ~with
      BY <3>2, <2>2 DEF Sent, Covers
    <3> QED
      BY <3>1, <3>2
  <2>5. log[i].epoch <= shell_snapshot_epoch'
    <3>1. log[i].epoch \in Nat
      BY RowFields DEF LogInv
    <3>2. shell_snapshot_epoch' \in Nat /\ shell_snapshot_epoch <= shell_snapshot_epoch'
      BY <1>8 DEF Sent
    <3>3. log[i].epoch <= shell_snapshot_epoch
      BY <2>1 DEF TruthOf
    <3> QED
      BY <1>8, <3>1, <3>2, <3>3
  <2> QED
    BY <1>1, <2>1, <2>2, <2>3, <2>4, <2>5 DEF TruthOf
<1>10. ASSUME with
       PROVE  TruthOf(m.n)'
  <2>1. /\ log'[m.n].epoch = shell_snapshot_epoch' /\ log'[m.n].kind = m.kind
        /\ shell_snapshot_epoch' = shell_snapshot_epoch + 2
    BY <1>10 DEF Sent
  <2>2. Covers(snapshot, m.n)'
    BY <1>1, <1>10, <2>1 DEF Covers, Sent, Push
  <2> QED
    BY <1>1, <1>8, <2>1, <2>2 DEF TruthOf
<1>11. log'[m.n].with = with
  BY DEF Sent
<1> QED
  BY <1>1, <1>7, <1>9, <1>10, <1>11 DEF TruthInv

LEMMA TruthFrame ==
  ASSUME TruthInv, UNCHANGED <<log, shell_snapshot_epoch, snapshot, published>>,
         TakenUnpublished' = TakenUnpublished, TakenUnpublished => taken' = taken
  PROVE  TruthInv'
<1>1. SnapshotOrder'
  BY DEF TruthInv, SnapshotOrder, Below, Numbers
<1>2. ASSUME NEW i \in DOMAIN log, log[i].with
      PROVE  TruthOf(i)'
  BY <1>2 DEF TruthInv, TruthOf, Covers
<1> QED
  BY <1>1, <1>2 DEF TruthInv

LEMMA TruthTake ==
  ASSUME EpochInv, TruthInv, TakePending
  PROVE  TruthInv'
<1>1. CASE AllEmpty
  BY <1>1, TruthFrame DEF TakePending, TakenUnpublished, page
<1>2. CASE ~AllEmpty
  <2>1. /\ taken' = [urgent |-> urgent, messages |-> messages, snapshot |-> snapshot,
                     epoch |-> snapshot_epoch]
        /\ snapshot' = {} /\ ui' = "urgent" /\ ui = "idle"
        /\ UNCHANGED <<log, shell_snapshot_epoch, published>>
    BY <1>2 DEF TakePending, page
  <2>2. taken'.snapshot = snapshot /\ taken'.epoch = snapshot_epoch
    BY <2>1
  <2>3. ~TakenUnpublished /\ (TakenUnpublished' <=> snapshot # {})
    BY <2>1, <2>2 DEF TakenUnpublished
  <2>4. SnapshotOrder'
    BY <2>1, <2>2, <2>3 DEF TruthInv, SnapshotOrder, Below, Numbers
  <2>5. ASSUME NEW i \in DOMAIN log, log[i].with
        PROVE  TruthOf(i)'
    <3>1. Covers(taken.snapshot, i)' <=> Covers(snapshot, i)
      BY <2>1, <2>2 DEF Covers
    <3>2. Covers(snapshot, i) => snapshot # {}
      BY DEF Covers
    <3>3. TruthOf(i)
      BY <2>5 DEF TruthInv
    <3> QED
      BY <2>1, <2>3, <3>1, <3>2, <3>3 DEF TruthOf
  <2> QED
    BY <2>1, <2>4, <2>5 DEF TruthInv
<1> QED
  BY <1>1, <1>2

LEMMA TruthPublish ==
  ASSUME LogInv, EpochInv, TruthInv, PublishSnapshot
  PROVE  TruthInv'
<1>1. ui = "publish" /\ ui' = "apply" /\ UNCHANGED <<log, shell_snapshot_epoch, snapshot, taken>>
  BY DEF PublishSnapshot, pending
<1>2. ~TakenUnpublished'
  BY <1>1 DEF TakenUnpublished
<1>3. CASE taken.snapshot = {}
  BY <1>1, <1>3, TruthFrame DEF PublishSnapshot, TakenUnpublished
<1>4. CASE taken.snapshot # {}
  <2> DEFINE old == published.content
             new == [k \in Kinds |-> Latest(taken.snapshot, k, old[k])]
             L == Len(log)
  <2>1. TakenUnpublished /\ Publishable(taken.epoch)
    BY <1>1, <1>4 DEF TakenUnpublished, EpochInv, PublishNeverRefused
  <2>2. published' = [epoch |-> taken.epoch, content |-> new]
    BY <1>4, <2>1 DEF PublishSnapshot
  <2>3. published'.epoch = taken.epoch /\ published'.content = new
    BY <2>2
  <2>4. L \in Nat /\ DOMAIN log = 1 .. L
    BY DEF LogInv
  <2>5. /\ \A p \in taken.snapshot : p.n \in 0 .. L /\ p.kind \in Kinds
        /\ \A p \in snapshot : p.n \in 0 .. L /\ p.kind \in Kinds
    BY <2>4, EntryFields DEF LogInv
  <2>6. /\ old \in [Kinds -> 0 .. L]
        /\ \A p \in snapshot : old[p.kind] <= p.n
        /\ \A p \in taken.snapshot : old[p.kind] <= p.n
        /\ Below(Numbers(taken.snapshot), Numbers(snapshot))
    BY <2>1 DEF TruthInv, SnapshotOrder
  <2>7. ASSUME NEW k \in Kinds
        PROVE  /\ new[k] \in 0 .. L /\ old[k] \in 0 .. L /\ old[k] <= new[k]
               /\ \A p \in taken.snapshot : p.kind = k => p.n <= new[k]
               /\ new[k] = old[k] \/ \E p \in taken.snapshot : p.kind = k /\ p.n = new[k]
    <3>1. old[k] \in 0 .. L
      BY <2>6
    <3>2. \A p \in taken.snapshot : p.kind = k => old[k] <= p.n
      BY <2>6
    <3>3. new[k] = Latest(taken.snapshot, k, old[k])
      OBVIOUS
    <3> DEFINE o == old[k]
               latest == Latest(taken.snapshot, k, o)
    <3>4. new[k] = latest /\ o \in 0 .. L
      BY <3>1, <3>3
    <3> HIDE DEF old, new, L, o
    <3>5. \A p \in taken.snapshot : p.kind = k => o <= p.n
      BY <3>2 DEF o
    <3>6. /\ latest \in 0 .. L /\ o <= latest
          /\ \A p \in taken.snapshot : p.kind = k => p.n <= latest
          /\ latest = o \/ \E p \in taken.snapshot : p.kind = k /\ p.n = latest
      <4>1. L \in Nat /\ o \in 0 .. L /\ \A p \in taken.snapshot : p.n \in 0 .. L
        BY <2>4, <2>5, <3>4
      <4> QED
        BY ONLY <3>5, <4>1, LatestIsLast DEF latest
    <3> HIDE DEF latest
    <3> QED
      BY <3>4, <3>6 DEF o
  <2>8. new \in [Kinds -> 0 .. L]
    BY <2>7
  <2> HIDE DEF new, old
  <2>9. \A p \in snapshot : new[p.kind] <= p.n
    <3> SUFFICES ASSUME NEW p \in snapshot PROVE new[p.kind] <= p.n
      OBVIOUS
    <3>1. p.kind \in Kinds /\ p.n \in Nat
      BY <2>5
    <3>2. CASE new[p.kind] = old[p.kind]
      BY <2>6, <3>2
    <3>3. ASSUME NEW q \in taken.snapshot, q.n = new[p.kind] PROVE new[p.kind] <= p.n
      <4>1. q.n < p.n /\ q.n \in Nat
        BY <2>5, <2>6 DEF Below, Numbers
      <4> QED
        BY <3>1, <3>3, <4>1
    <3> QED
      BY <2>7, <3>1, <3>2, <3>3
  <2>10. SnapshotOrder'
    BY <1>1, <1>2, <2>3, <2>8, <2>9 DEF SnapshotOrder
  <2>11. ASSUME NEW i \in DOMAIN log, log[i].with
         PROVE  TruthOf(i)'
    <3> DEFINE k == log[i].kind
    <3>1. k \in Kinds /\ i \in Nat /\ log[i].epoch \in Nat
      BY RowFields DEF LogInv
    <3>2. TruthOf(i)
      BY <2>11 DEF TruthInv
    <3>3. i <= old[k] => i <= new[k]
      BY <2>7, <3>1
    <3>4. Covers(taken.snapshot, i) => i <= new[k]
      <4> SUFFICES ASSUME NEW p \in taken.snapshot, p.kind = k, i <= p.n PROVE i <= new[k]
        BY DEF Covers
      <4>1. p.n <= new[k] /\ p.n \in Nat /\ new[k] \in Nat
        BY <2>5, <2>7, <3>1
      <4> QED
        BY <3>1, <4>1
    <3>5. Covers(snapshot, i)' <=> Covers(snapshot, i)
      BY <1>1 DEF Covers
    <3>6. (i <= published.content[log[i].kind])' <=> i <= new[k]
      BY <1>1, <2>3
    <3> QED
      BY <1>1, <1>2, <2>1, <2>3, <3>2, <3>3, <3>4, <3>5, <3>6 DEF TruthOf, old
  <2> QED
    BY <1>1, <2>10, <2>11 DEF TruthInv
<1> QED
  BY <1>3, <1>4

LEMMA TruthStep == TypeOK /\ LogInv /\ EpochInv /\ TruthInv /\ [Next]_vars => TruthInv'
<1> SUFFICES ASSUME TypeOK, LogInv, EpochInv, TruthInv, [Next]_vars PROVE TruthInv'
  OBVIOUS
<1> USE DEF pending, page, bounds
<1>1. ASSUME NEW kind \in Kinds, NEW with \in BOOLEAN, SendWithSnapshot(kind, with)
      PROVE  TruthInv'
  BY <1>1, SendFacts, TruthSend DEF TypeOK, LogRow
<1>2. CASE TakePending
  BY <1>2, TruthTake
<1>3. CASE PublishSnapshot
  BY <1>3, TruthPublish
<1>4. /\ \/ Post \/ PostRefused \/ Unschedule \/ \E ready \in BOOLEAN : SetDeliveryReady(ready)
         \/ ApplyUrgent \/ ApplyDetails
         \/ DecideRepost \/ Repost \/ RepostRefused \/ UnscheduleRepost \/ UNCHANGED vars
      => /\ UNCHANGED <<log, shell_snapshot_epoch, snapshot, published>>
         /\ TakenUnpublished' = TakenUnpublished /\ (TakenUnpublished => taken' = taken)
  BY DEF Post, PostRefused, Unschedule, SetDeliveryReady, ApplyUrgent, ApplyDetails,
         DecideRepost, Repost, RepostRefused, UnscheduleRepost, vars, TakenUnpublished
<1> QED
  BY <1>1, <1>2, <1>3, <1>4, TruthFrame DEF Next, Compositor, UiTask

\* The snapshot under an epoch holds the last message of every kind that was sent with
\* a snapshot up to it (publish_messages over what push kept).
THEOREM PublishedTruth == Spec => []SnapshotIsTruthOfItsEpoch
<1>1. LogInv /\ TruthInv => SnapshotIsTruthOfItsEpoch
  <2> SUFFICES ASSUME LogInv, TruthInv, NEW k \in Kinds, NEW i \in DOMAIN log,
                      log[i].kind = k, log[i].with, log[i].epoch <= published.epoch
               PROVE  published.content[k] >= i
    BY DEF SnapshotIsTruthOfItsEpoch
  <2>1. i <= published.content[k] /\ i \in Nat
    BY DEF TruthInv, TruthOf, LogInv
  <2>2. published.content[k] \in Nat
    BY DEF TruthInv, SnapshotOrder, LogInv
  <2> QED
    BY <2>1, <2>2
<1> QED
  BY TypeInit, TypeStep, LogInit, LogStep, EpochInit, EpochStep, TruthInit, TruthStep, <1>1, PTL
  DEF Spec

(***************************************************************************)
(* Delivery.                                                               *)
(***************************************************************************)

\* What the page got of a lane, a set of kinds, and what the task has yet to give it.
Past(lane)  == {delivered[i].n : i \in {d \in DOMAIN delivered : delivered[d].kind \in lane}}
UrgentTaken == IF ui = "urgent" THEN Numbers(taken.urgent) ELSE {}
Details     == Kinds \ Urgent

OrderInv ==
  /\ DeliveredInOrder
  /\ Below(Past(Urgent), UrgentTaken) /\ Below(Past(Urgent), Numbers(urgent))
  /\ Below(UrgentTaken, Numbers(urgent))
  /\ Below(Past(Details), Numbers(taken.messages)) /\ Below(Past(Details), Numbers(messages))
  /\ Below(Numbers(taken.messages), Numbers(messages))

LEMMA OrderInit == Init => OrderInv
BY DEF Init, OrderInv, DeliveredInOrder, Below, Past, UrgentTaken, Numbers, Nothing

\* What a sequence holds that another is appended to.
LEMMA JoinedFacts ==
  ASSUME NEW S, NEW s \in Seq(S), NEW T, NEW t \in Seq(T)
  PROVE  /\ DOMAIN (s \o t) = 1 .. Len(s) + Len(t)
         /\ \A i \in DOMAIN s : i \in DOMAIN (s \o t) /\ (s \o t)[i] = s[i]
         /\ \A i \in DOMAIN t : Len(s) + i \in DOMAIN (s \o t) /\ (s \o t)[Len(s) + i] = t[i]
OBVIOUS

\* Delivering what was taken of a lane, after all that the page had of it.
LEMMA Deliver ==
  ASSUME LogInv, DeliveredInOrder, NEW lane \in {Urgent, Details},
         NEW queue \in SUBSET Entries, \A m \in queue : m.kind \in lane,
         Below(Past(lane), Numbers(queue)),
         delivered' = delivered \o InOrder(queue)
  PROVE  /\ DeliveredInOrder'
         /\ Arrived' = Arrived \cup Numbers(queue)
         /\ Past(lane)' = Past(lane) \cup Numbers(queue)
         /\ \A other \in {Urgent, Details} : other # lane => Past(other)' = Past(other)
<1> DEFINE s == delivered
           t == InOrder(queue)
<1>1. /\ t \in Seq(queue)
      /\ \A m \in queue : \E i \in DOMAIN t : t[i] = m
      /\ \A i, j \in DOMAIN t : i < j => t[i].n < t[j].n
  BY EntriesNumbered, InOrderSorts DEF LogInv
<1>2. s \in Seq(Entries) /\ delivered' = s \o t
  BY DEF LogInv
<1> HIDE DEF s, t
<1>3. Len(s) \in Nat /\ Len(t) \in Nat /\ DOMAIN s = 1 .. Len(s) /\ DOMAIN t = 1 .. Len(t)
  BY <1>1, <1>2
<1>4. /\ DOMAIN delivered' = 1 .. Len(s) + Len(t)
      /\ \A i \in DOMAIN s : i \in DOMAIN delivered' /\ delivered'[i] = s[i]
      /\ \A i \in DOMAIN t : Len(s) + i \in DOMAIN delivered' /\ delivered'[Len(s) + i] = t[i]
  <2>1. /\ DOMAIN (s \o t) = 1 .. Len(s) + Len(t)
        /\ \A i \in DOMAIN s : i \in DOMAIN (s \o t) /\ (s \o t)[i] = s[i]
        /\ \A i \in DOMAIN t : Len(s) + i \in DOMAIN (s \o t) /\ (s \o t)[Len(s) + i] = t[i]
    BY ONLY <1>1, <1>2, JoinedFacts
  <2> DEFINE joined == s \o t
  <2>2. delivered' = joined
    BY <1>2
  <2> HIDE DEF joined
  <2> QED
    BY <2>1, <2>2 DEF joined
<1>5. ASSUME NEW i \in DOMAIN delivered'
      PROVE  \/ i \in DOMAIN s /\ delivered'[i] = s[i]
             \/ i - Len(s) \in DOMAIN t /\ delivered'[i] = t[i - Len(s)]
  BY <1>1, <1>2, <1>3, <1>4
<1>6. \A i \in DOMAIN t : t[i] \in queue /\ t[i].kind \in lane
  BY <1>1
<1>7. \A i \in DOMAIN s : s[i] \in Entries
  BY <1>2
<1>8. \A k \in Kinds : k \in lane <=> (k \in Urgent <=> Urgent \subseteq lane)
  BY KindsAssumption DEF Details
<1>9. DeliveredInOrder'
  <2> SUFFICES ASSUME NEW i \in DOMAIN delivered', NEW j \in DOMAIN delivered', i < j,
                      SameLane(delivered'[i], delivered'[j])
               PROVE  delivered'[i].n < delivered'[j].n
    BY DEF DeliveredInOrder, SameLane
  <2>1. CASE i \in DOMAIN s /\ j \in DOMAIN s
    BY <1>4, <2>1 DEF DeliveredInOrder, SameLane, s
  <2>2. CASE i \in DOMAIN s /\ j \notin DOMAIN s
    <3>1. delivered'[i] = s[i] /\ delivered'[j] \in queue
      BY <1>4, <1>5, <1>6, <2>2
    <3>2. s[i].kind \in lane
      <4>1. s[i] \in Entries /\ s[i].kind \in Kinds /\ delivered'[j].kind \in Kinds
        BY <1>7, <2>2, <3>1, EntryFields DEF LogInv
      <4>2. delivered'[j].kind \in lane
        BY <3>1
      <4> QED
        BY <1>8, <3>1, <4>1, <4>2 DEF SameLane
    <3>3. s[i].n \in Past(lane)
      BY <2>2, <3>2 DEF Past, s
    <3> QED
      BY <3>1, <3>3 DEF Below, Numbers
  <2>3. CASE i \notin DOMAIN s
    <3>1. i \in Nat /\ j \in Nat /\ Len(s) < i
      BY <1>3, <1>4, <2>3
    <3>2. j \notin DOMAIN s
      BY <1>3, <3>1
    <3>3. /\ i - Len(s) \in DOMAIN t /\ delivered'[i] = t[i - Len(s)]
          /\ j - Len(s) \in DOMAIN t /\ delivered'[j] = t[j - Len(s)]
      BY <1>5, <2>3, <3>2
    <3>4. i - Len(s) < j - Len(s)
      BY <1>3, <3>1
    <3> QED
      BY <1>1, <3>3, <3>4
  <2> QED
    BY <2>1, <2>2, <2>3
<1>10. Arrived' = Arrived \cup Numbers(queue)
  <2>1. Arrived = {s[i].n : i \in DOMAIN s}
    BY DEF Arrived, s
  <2>2. Arrived' = {delivered'[i].n : i \in DOMAIN delivered'}
    BY DEF Arrived
  <2>3. ASSUME NEW x \in Arrived' PROVE x \in Arrived \cup Numbers(queue)
    BY <1>5, <1>6, <2>1, <2>2 DEF Numbers
  <2>4. ASSUME NEW i \in DOMAIN s PROVE s[i].n \in Arrived'
    BY <1>4, <2>2
  <2>5. ASSUME NEW m \in queue PROVE m.n \in Arrived'
    <3>1. PICK i \in DOMAIN t : t[i] = m
      BY <1>1
    <3>2. Len(s) + i \in DOMAIN delivered' /\ delivered'[Len(s) + i] = m
      BY <1>4, <3>1
    <3> QED
      BY <2>2, <3>2
  <2> QED
    BY <2>1, <2>3, <2>4, <2>5 DEF Numbers
<1>11. Past(lane)' = Past(lane) \cup Numbers(queue)
  <2>1. \A x : x \in Past(lane) <=> \E i \in DOMAIN s : s[i].kind \in lane /\ x = s[i].n
    BY DEF Past, s
  <2>2. \A x : x \in Past(lane)' <=> \E i \in DOMAIN delivered' :
                                       delivered'[i].kind \in lane /\ x = delivered'[i].n
    BY DEF Past
  <2>3. ASSUME NEW x \in Past(lane)' PROVE x \in Past(lane) \cup Numbers(queue)
    BY <1>5, <1>6, <2>1, <2>2 DEF Numbers
  <2>4. ASSUME NEW x \in Past(lane) PROVE x \in Past(lane)'
    BY <1>4, <2>1, <2>2
  <2>5. ASSUME NEW m \in queue PROVE m.n \in Past(lane)'
    <3>1. PICK i \in DOMAIN t : t[i] = m
      BY <1>1
    <3>2. Len(s) + i \in DOMAIN delivered' /\ delivered'[Len(s) + i] = m
      BY <1>4, <3>1
    <3> QED
      BY <2>2, <3>2
  <2> QED
    BY <2>3, <2>4, <2>5 DEF Numbers
<1>12. ASSUME NEW other \in {Urgent, Details}, other # lane
       PROVE  Past(other)' = Past(other)
  <2>1. \A i \in DOMAIN t : t[i].kind \notin other
    <3>1. Urgent \cap Details = {}
      BY DEF Details
    <3>2. lane \cap other = {}
      BY <1>12, <3>1
    <3> QED
      BY <1>6, <3>2
  <2>2. \A x : x \in Past(other) <=> \E i \in DOMAIN s : s[i].kind \in other /\ x = s[i].n
    BY DEF Past, s
  <2>3. \A x : x \in Past(other)' <=> \E i \in DOMAIN delivered' :
                                        delivered'[i].kind \in other /\ x = delivered'[i].n
    BY DEF Past
  <2>4. ASSUME NEW x \in Past(other)' PROVE x \in Past(other)
    BY <1>5, <2>1, <2>2, <2>3
  <2>5. ASSUME NEW x \in Past(other) PROVE x \in Past(other)'
    BY <1>4, <2>2, <2>3
  <2> QED
    BY <2>4, <2>5
<1> QED
  BY <1>9, <1>10, <1>11, <1>12

\* The numbers of what was delivered and queued were given out before the next.
LEMMA NumbersLogged ==
  ASSUME LogInv
  PROVE  /\ \A queue \in SUBSET Entries : Numbers(queue) \subseteq 1 .. Len(log)
         /\ \A lane : Past(lane) \subseteq 1 .. Len(log)
         /\ UrgentTaken \subseteq 1 .. Len(log)
<1>1. \A m \in Entries : m.n \in 1 .. Len(log)
  BY EntryFields DEF LogInv
<1>2. \A i \in DOMAIN delivered : delivered[i] \in Entries
  BY DEF LogInv
<1>3. \A queue \in SUBSET Entries : Numbers(queue) \subseteq 1 .. Len(log)
  BY <1>1 DEF Numbers
<1>4. \A lane : Past(lane) \subseteq 1 .. Len(log)
  BY <1>1, <1>2 DEF Past
<1> QED
  BY <1>3, <1>4 DEF UrgentTaken, LogInv

LEMMA OrderSend ==
  ASSUME LogInv, OrderInv, NEW m, NEW with \in BOOLEAN, Sent(m, with)
  PROVE  OrderInv'
<1>1. Len(log) \in Nat /\ m.n = Len(log) + 1 /\ UNCHANGED <<ui, taken, delivered>>
  BY DEF Sent
<1>2. Numbers(urgent') \subseteq Numbers(urgent) \cup {m.n}
  BY DEF Sent, Numbers, PushUrgentInput, Push
<1>3. Numbers(messages') \subseteq Numbers(messages) \cup {m.n}
  BY DEF Sent, Numbers, Push
<1>4. /\ Past(Urgent) \subseteq 1 .. Len(log) /\ Past(Details) \subseteq 1 .. Len(log)
      /\ UrgentTaken \subseteq 1 .. Len(log) /\ Numbers(taken.messages) \subseteq 1 .. Len(log)
  BY NumbersLogged DEF LogInv
<1>5. /\ Past(Urgent)' = Past(Urgent) /\ Past(Details)' = Past(Details)
      /\ UrgentTaken' = UrgentTaken /\ DeliveredInOrder' = DeliveredInOrder
  BY <1>1 DEF Past, UrgentTaken, Numbers, DeliveredInOrder, SameLane
<1>6. ASSUME NEW A, A \subseteq 1 .. Len(log), NEW B, NEW C, Below(A, B),
             C \subseteq B \cup {m.n}
      PROVE  Below(A, C)
  BY <1>1, <1>6 DEF Below
<1>7. /\ Below(Past(Urgent), Numbers(urgent')) /\ Below(UrgentTaken, Numbers(urgent'))
      /\ Below(Past(Details), Numbers(messages'))
      /\ Below(Numbers(taken.messages), Numbers(messages'))
  BY <1>2, <1>3, <1>4, <1>6 DEF OrderInv
<1>8. Numbers(taken'.messages) = Numbers(taken.messages)
  BY <1>1
<1> QED
  BY <1>5, <1>7, <1>8 DEF OrderInv, Numbers

LEMMA OrderStep == TypeOK /\ LogInv /\ OrderInv /\ [Next]_vars => OrderInv'
<1> SUFFICES ASSUME TypeOK, LogInv, OrderInv, [Next]_vars PROVE OrderInv'
  OBVIOUS
<1> USE DEF pending, page, bounds
<1>1. ASSUME NEW kind \in Kinds, NEW with \in BOOLEAN, SendWithSnapshot(kind, with)
      PROVE  OrderInv'
  BY <1>1, SendFacts, OrderSend DEF TypeOK, LogRow
<1>2. CASE TakePending
  <2>1. CASE AllEmpty
    BY <1>2, <2>1 DEF TakePending, OrderInv, DeliveredInOrder, SameLane, Past, UrgentTaken, Numbers
  <2>2. CASE ~AllEmpty
    <3>1. /\ taken' = [urgent |-> urgent, messages |-> messages, snapshot |-> snapshot,
                       epoch |-> snapshot_epoch]
          /\ urgent' = {} /\ messages' = {} /\ ui' = "urgent" /\ delivered' = delivered
      BY <1>2, <2>2 DEF TakePending
    <3>2. /\ Numbers(urgent') = {} /\ Numbers(messages') = {}
          /\ UrgentTaken' = Numbers(urgent) /\ Numbers(taken'.messages) = Numbers(messages)
          /\ Past(Urgent)' = Past(Urgent) /\ Past(Details)' = Past(Details)
          /\ DeliveredInOrder' = DeliveredInOrder
      BY <3>1 DEF Past, UrgentTaken, Numbers, DeliveredInOrder, SameLane
    <3>3. \A A : Below(A, {})
      BY DEF Below
    <3> QED
      BY <3>2, <3>3 DEF OrderInv, Numbers
  <2> QED
    BY <2>1, <2>2
<1>3. CASE ApplyUrgent
  <2>1. /\ delivered' = delivered \o InOrder(taken.urgent) /\ ui = "urgent" /\ ui' = "publish"
        /\ UNCHANGED <<urgent, messages, taken>>
    BY <1>3 DEF ApplyUrgent
  <2>2. UrgentTaken = Numbers(taken.urgent) /\ UrgentTaken' = {}
    BY <2>1 DEF UrgentTaken
  <2>3. taken.urgent \in SUBSET Entries /\ \A m \in taken.urgent : m.kind \in Urgent
    BY DEF LogInv
  <2>4. Urgent # Details
    BY KindsAssumption DEF Details
  <2>5. /\ DeliveredInOrder' /\ Past(Urgent)' = Past(Urgent) \cup Numbers(taken.urgent)
        /\ Past(Details)' = Past(Details)
    BY <2>1, <2>2, <2>3, <2>4, Deliver DEF OrderInv
  <2> QED
    BY <2>1, <2>2, <2>5 DEF OrderInv, Below, Numbers
<1>4. CASE ApplyDetails
  <2>1. /\ delivered' = delivered \o InOrder(taken.messages) /\ taken' = Nothing
        /\ ui = "apply" /\ ui' = "repost" /\ UNCHANGED <<urgent, messages>>
    BY <1>4 DEF ApplyDetails
  <2>2. UrgentTaken = {} /\ UrgentTaken' = {} /\ Numbers(taken'.messages) = {}
    BY <2>1 DEF UrgentTaken, Nothing, Numbers
  <2>3. taken.messages \in SUBSET Entries /\ \A m \in taken.messages : m.kind \in Details
    BY EntryFields DEF LogInv, Details
  <2>4. Urgent # Details
    BY KindsAssumption DEF Details
  <2>5. /\ DeliveredInOrder' /\ Past(Details)' = Past(Details) \cup Numbers(taken.messages)
        /\ Past(Urgent)' = Past(Urgent)
    BY <2>1, <2>3, <2>4, Deliver DEF OrderInv
  <2> QED
    BY <2>1, <2>2, <2>5 DEF OrderInv, Below, Numbers
<1>5. /\ \/ Post \/ PostRefused \/ Unschedule \/ \E ready \in BOOLEAN : SetDeliveryReady(ready)
         \/ PublishSnapshot
         \/ DecideRepost \/ Repost \/ RepostRefused \/ UnscheduleRepost \/ UNCHANGED vars
      => UNCHANGED <<urgent, messages, delivered, taken>> /\ (ui' = "urgent" <=> ui = "urgent")
  BY DEF Post, PostRefused, Unschedule, SetDeliveryReady, PublishSnapshot,
         DecideRepost, Repost, RepostRefused, UnscheduleRepost, vars
<1>6. ASSUME UNCHANGED <<urgent, messages, delivered, taken>>, ui' = "urgent" <=> ui = "urgent"
      PROVE  OrderInv'
  BY <1>6 DEF OrderInv, DeliveredInOrder, SameLane, Past, UrgentTaken, Numbers
<1> QED
  BY <1>1, <1>2, <1>3, <1>4, <1>5, <1>6 DEF Next, Compositor, UiTask

\* What the page gets of a lane it gets by rising numbers: in the order of the sends,
\* and nothing twice (BTreeMap queues, taken whole under the mutex).
THEOREM LanesInOrder == Spec => []DeliveredInOrder
<1>1. OrderInv => DeliveredInOrder
  BY DEF OrderInv
<1> QED
  BY TypeInit, TypeStep, LogInit, LogStep, OrderInit, OrderStep, <1>1, PTL DEF Spec

(***************************************************************************)
(* Conflation.                                                             *)
(***************************************************************************)

\* The last input that is queued is the last that was sent: what a move replaces is
\* directly before it.
LastUrgentQueued ==
  urgent # {} =>
    \A i \in DOMAIN log : log[i].kind \in Urgent => \E q \in urgent : i <= q.n

LostInv == OnlySupersededLost /\ LastUrgentQueued

LEMMA LostInit == Init => LostInv
BY DEF Init, LostInv, OnlySupersededLost, LastUrgentQueued

\* What was superseded stays superseded.
LEMMA SupersededGrows ==
  ASSUME NEW m, NEW with \in BOOLEAN, Sent(m, with), NEW i \in DOMAIN log, Superseded(i)
  PROVE  Superseded(i)'
<1>1. /\ Len(log) \in Nat /\ DOMAIN log = 1 .. Len(log) /\ m.n = Len(log) + 1
      /\ DOMAIN log' = 1 .. m.n /\ \A l \in DOMAIN log : log'[l] = log[l]
  BY DEF Sent
<1>2. DOMAIN log \subseteq DOMAIN log' /\ log'[i] = log[i]
  BY <1>1
<1>3. ASSUME NEW j \in NextUrgent(i)
      PROVE  j \in NextUrgent(i)' /\ log'[j] = log[j]
  <2>1. j \in DOMAIN log /\ \A l \in i + 1 .. j - 1 : l \in DOMAIN log
    BY <1>1 DEF NextUrgent
  <2> QED
    BY <1>1, <1>2, <2>1 DEF NextUrgent
<1> QED
  BY <1>1, <1>2, <1>3 DEF Superseded

LEMMA LostSend ==
  ASSUME LogInv, LostInv, NEW m, NEW with \in BOOLEAN, Sent(m, with)
  PROVE  LostInv'
<1>1. /\ Len(log) \in Nat /\ DOMAIN log = 1 .. Len(log) /\ m.n = Len(log) + 1
      /\ DOMAIN log' = 1 .. m.n /\ \A l \in DOMAIN log : log'[l] = log[l]
      /\ log'[m.n].kind = m.kind
      /\ UNCHANGED <<ui, taken, delivered>>
  BY DEF Sent
<1>2. m.n \in Numbers(urgent' \cup messages')
  BY DEF Sent, Numbers, PushUrgentInput, Push
<1>3. ASSUME NEW p \in messages, p \notin messages'
      PROVE  Superseded(p.n)'
  <2>1. m.kind \in Keyed /\ p.kind = m.kind
    BY <1>3 DEF Sent, Push
  <2>2. p.n \in DOMAIN log /\ log[p.n].kind = p.kind
    BY EntryFields DEF LogInv
  <2>3. m.n \in DOMAIN log' /\ m.n > p.n /\ log'[p.n].kind = p.kind
    BY <1>1, <2>2
  <2> QED
    BY <1>1, <2>1, <2>3 DEF Superseded
<1>4. ASSUME NEW p \in urgent, p \notin urgent'
      PROVE  Superseded(p.n)'
  <2>1. m.kind \in Urgent /\ m.kind \notin Keyed
    BY <1>4, KindsAssumption DEF Sent
  <2>2. m.kind = PointerMove /\ p.kind = PointerMove /\ \A q \in urgent : q.n <= p.n
    BY <1>4, <2>1 DEF Sent, PushUrgentInput, Push
  <2>3. p.n \in DOMAIN log /\ p.n \in Nat /\ log[p.n].kind = p.kind
    BY EntryFields DEF LogInv
  <2>4. ASSUME NEW l \in p.n + 1 .. m.n - 1
        PROVE  log'[l].kind \notin Urgent
    <3>1. l \in DOMAIN log /\ p.n < l /\ l \in Nat
      BY <1>1, <2>3
    <3>2. \A q \in urgent : q.n \in Nat
      BY EntryFields DEF LogInv
    <3>3. log[l].kind \notin Urgent
      BY <2>2, <2>3, <3>1, <3>2 DEF LostInv, LastUrgentQueued
    <3> QED
      BY <1>1, <3>1, <3>3
  <2>5. m.n \in DOMAIN log' /\ m.n > p.n /\ log'[p.n].kind = p.kind
    BY <1>1, <2>3
  <2>6. m.n \in NextUrgent(p.n)'
    BY <1>1, <2>1, <2>4, <2>5 DEF NextUrgent
  <2> QED
    BY <1>1, <2>2, <2>5, <2>6 DEF Superseded
<1>5. OnlySupersededLost'
  <2> SUFFICES ASSUME NEW i \in DOMAIN log', i \notin InTransit', i \notin Arrived'
               PROVE  Superseded(i)'
    BY DEF OnlySupersededLost
  <2>1. i # m.n
    BY <1>2 DEF InTransit
  <2>2. i \in DOMAIN log
    BY <1>1, <2>1
  <2>3. CASE i \notin InTransit \cup Arrived
    BY <2>2, <2>3, SupersededGrows DEF LostInv, OnlySupersededLost
  <2>4. CASE i \in InTransit \cup Arrived
    <3>1. i \in Numbers(urgent \cup messages) /\ i \notin Numbers(urgent' \cup messages')
      BY <1>1, <2>4 DEF InTransit, Arrived, Numbers
    <3>2. PICK p \in urgent \cup messages : p.n = i
      BY <3>1 DEF Numbers
    <3>3. p \notin urgent' /\ p \notin messages'
      BY <3>1, <3>2 DEF Numbers
    <3> QED
      BY <1>3, <1>4, <3>2, <3>3
  <2> QED
    BY <2>3, <2>4
<1>6. LastUrgentQueued'
  <2>1. CASE m.kind \in Urgent
    <3>1. m \in urgent'
      BY <2>1 DEF Sent, PushUrgentInput, Push
    <3>2. \A i \in DOMAIN log' : i <= m.n
      BY <1>1
    <3> QED
      BY <3>1, <3>2 DEF LastUrgentQueued
  <2>2. CASE m.kind \notin Urgent
    <3>1. urgent' = urgent
      BY <2>2 DEF Sent
    <3>2. ASSUME NEW i \in DOMAIN log', log'[i].kind \in Urgent
          PROVE  i \in DOMAIN log /\ log[i].kind \in Urgent
      <4>1. i # m.n
        BY <1>1, <2>2, <3>2
      <4> QED
        BY <1>1, <3>2, <4>1
    <3> QED
      BY <3>1, <3>2 DEF LastUrgentQueued, LostInv
  <2> QED
    BY <2>1, <2>2
<1> QED
  BY <1>5, <1>6 DEF LostInv

LEMMA LostFrame ==
  ASSUME LostInv, log' = log, urgent' = urgent \/ urgent' = {},
         InTransit \cup Arrived \subseteq InTransit' \cup Arrived'
  PROVE  LostInv'
<1>1. \A i : NextUrgent(i)' = NextUrgent(i)
  BY DEF NextUrgent
<1>2. \A i : Superseded(i)' = Superseded(i)
  BY <1>1 DEF Superseded
<1>3. OnlySupersededLost'
  BY <1>2 DEF LostInv, OnlySupersededLost
<1>4. LastUrgentQueued'
  BY DEF LostInv, LastUrgentQueued
<1> QED
  BY <1>3, <1>4 DEF LostInv

LEMMA LostStep == TypeOK /\ LogInv /\ OrderInv /\ LostInv /\ [Next]_vars => LostInv'
<1> SUFFICES ASSUME TypeOK, LogInv, OrderInv, LostInv, [Next]_vars PROVE LostInv'
  OBVIOUS
<1> USE DEF pending, page, bounds
<1>1. ASSUME NEW kind \in Kinds, NEW with \in BOOLEAN, SendWithSnapshot(kind, with)
      PROVE  LostInv'
  BY <1>1, SendFacts, LostSend DEF TypeOK, LogRow
<1>2. CASE TakePending
  <2>1. CASE AllEmpty
    BY <1>2, <2>1, LostFrame DEF TakePending, InTransit, Arrived, Numbers
  <2>2. CASE ~AllEmpty
    <3>1. /\ taken' = [urgent |-> urgent, messages |-> messages, snapshot |-> snapshot,
                       epoch |-> snapshot_epoch]
          /\ urgent' = {} /\ messages' = {} /\ ui = "idle" /\ ui' = "urgent"
          /\ delivered' = delivered /\ log' = log
      BY <1>2, <2>2 DEF TakePending
    <3>2. taken = Nothing
      BY <3>1 DEF LogInv, Working
    <3>3. InTransit \subseteq InTransit' /\ Arrived' = Arrived
      BY <3>1, <3>2 DEF InTransit, Arrived, Numbers, Nothing
    <3> QED
      BY <3>1, <3>3, LostFrame
  <2> QED
    BY <2>1, <2>2
<1>3. CASE ApplyUrgent
  <2>1. /\ delivered' = delivered \o InOrder(taken.urgent) /\ ui = "urgent" /\ ui' = "publish"
        /\ UNCHANGED <<log, urgent, messages, taken>>
    BY <1>3 DEF ApplyUrgent
  <2>2. Arrived' = Arrived \cup Numbers(taken.urgent)
    BY <2>1, Deliver DEF OrderInv, LogInv, UrgentTaken
  <2>3. InTransit \subseteq InTransit' \cup Numbers(taken.urgent)
    BY <2>1 DEF InTransit, Numbers
  <2> QED
    BY <2>1, <2>2, <2>3, LostFrame
<1>4. CASE ApplyDetails
  <2>1. /\ delivered' = delivered \o InOrder(taken.messages)
        /\ ui = "apply" /\ ui' = "repost" /\ UNCHANGED <<log, urgent, messages>>
    BY <1>4 DEF ApplyDetails
  <2>2. taken.messages \in SUBSET Entries /\ \A m \in taken.messages : m.kind \in Details
    BY EntryFields DEF LogInv, Details
  <2>3. Arrived' = Arrived \cup Numbers(taken.messages)
    BY <2>1, <2>2, Deliver DEF OrderInv
  <2>4. InTransit \subseteq InTransit' \cup Numbers(taken.messages)
    BY <2>1 DEF InTransit, Numbers
  <2> QED
    BY <2>1, <2>3, <2>4, LostFrame
<1>5. /\ \/ Post \/ PostRefused \/ Unschedule \/ \E ready \in BOOLEAN : SetDeliveryReady(ready)
         \/ PublishSnapshot
         \/ DecideRepost \/ Repost \/ RepostRefused \/ UnscheduleRepost \/ UNCHANGED vars
      => /\ UNCHANGED <<log, urgent, messages, delivered, taken>>
         /\ ui' = "urgent" <=> ui = "urgent"
  BY DEF Post, PostRefused, Unschedule, SetDeliveryReady, PublishSnapshot,
         DecideRepost, Repost, RepostRefused, UnscheduleRepost, vars
<1>6. ASSUME UNCHANGED <<log, urgent, messages, delivered, taken>>,
             ui' = "urgent" <=> ui = "urgent"
      PROVE  LostInv'
  <2>1. InTransit' = InTransit /\ Arrived' = Arrived
    BY <1>6 DEF InTransit, Arrived, Numbers
  <2> QED
    BY <1>6, <2>1, LostFrame
<1> QED
  BY <1>1, <1>2, <1>3, <1>4, <1>5, <1>6 DEF Next, Compositor, UiTask

\* Whatever is neither on its way nor delivered was superseded: by a later message of
\* its kind, or, a move, by the move that was the next input (push, push_urgent_input).
THEOREM NothingElseLost == Spec => []OnlySupersededLost
<1>1. LostInv => OnlySupersededLost
  BY DEF LostInv
<1> QED
  BY TypeInit, TypeStep, LogInit, LogStep, OrderInit, OrderStep, LostInit, LostStep, <1>1, PTL
  DEF Spec

=============================================================================
