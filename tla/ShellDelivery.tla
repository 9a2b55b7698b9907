--------------------------- MODULE ShellDelivery ---------------------------
(***************************************************************************)
(* ShellToCefLink: how messages of the compositor reach the shell's page.  *)
(*   - the compositor thread calls send_with_snapshot: the message, and    *)
(*     the snapshot messages that go with it, are queued under a mutex,    *)
(*     and a task is posted to CEF's UI thread unless one is `scheduled`;  *)
(*   - ApplyCompositorToShellTask takes everything that is pending,        *)
(*     applies urgent input, publishes the snapshot, applies the details   *)
(*     and reposts itself when more was queued meanwhile;                  *)
(*   - set_delivery_ready stops and resumes delivery around page loads.    *)
(*                                                                         *)
(* What a message says is abstracted to its kind and its number `n`: the   *)
(* later message of a kind supersedes the earlier. A queue is a BTreeMap   *)
(* by sequence number in the code, and a set of numbered messages here.    *)
(* The message pump and the diagnostics are left out, and so is a page     *)
(* that is gone: details are then dropped (compositor_downlink.rs).        *)
(***************************************************************************)
EXTENDS Integers, Sequences, FiniteSets, SequencesExt

CONSTANTS
  Kinds,            \* kinds of compositor messages
  Keyed,            \* those with a dedup key: only the latest is worth sending
  Urgent,           \* input: goes to the urgent queue
  PointerMove,      \* the urgent kind that coalesces
  Snapshotted,      \* those that may come with an authoritative snapshot
  MaxSends,         \* bound: messages sent in one behaviour
  MaxToggles,       \* bound: calls of set_delivery_ready
  MaxPostFailures   \* bound: post_task refusals

ASSUME KindsAssumption ==
  /\ Keyed \subseteq Kinds /\ Urgent \subseteq Kinds /\ Snapshotted \subseteq Kinds
  /\ PointerMove \in Urgent
  /\ Urgent \cap Keyed = {} /\ Urgent \cap Snapshotted = {}
ASSUME BoundsAssumption ==
  /\ MaxSends \in Nat /\ MaxToggles \in Nat /\ MaxPostFailures \in Nat

VARIABLES
  log,                  \* history: every message sent, its number is its place
  shell_snapshot_epoch, \* of the compositor: the epoch of its last snapshot
  sender,               \* where the compositor thread is in its call
  scheduled,            \* PendingCompositorMessages.scheduled
  urgent, messages, snapshot, snapshot_epoch,   \* ... and its queues
  delivery_ready,
  tasks,                \* tasks CEF has accepted and not yet run
  ui,                   \* where the UI thread is in execute
  taken,                \* what the task took from the queues
  published,            \* the shared snapshot: its epoch and its contents
  delivered,            \* history: what the page was sent, in order
  toggles, failures     \* counters for the bounds

pending == <<scheduled, urgent, messages, snapshot, snapshot_epoch>>
page    == <<published, delivered>>
bounds  == <<toggles, failures>>
vars    == <<log, shell_snapshot_epoch, sender, pending, delivery_ready, tasks, ui,
             taken, page, bounds>>

Messages  == [n : Nat, kind : Kinds, epoch : Nat]
Nothing   == [urgent |-> {}, messages |-> {}, snapshot |-> {}, epoch |-> 0]

Init ==
  /\ log = <<>>
  /\ shell_snapshot_epoch = 0
  /\ sender = "idle"
  /\ scheduled = FALSE
  /\ urgent = {} /\ messages = {} /\ snapshot = {} /\ snapshot_epoch = 0
  /\ delivery_ready = FALSE
  /\ tasks = 0
  /\ ui = "idle"
  /\ taken = Nothing
  /\ published = [epoch |-> 0, content |-> [k \in Kinds |-> 0]]
  /\ delivered = <<>>
  /\ toggles = 0 /\ failures = 0

-----------------------------------------------------------------------------
(* PendingCompositorMessageQueue.                                          *)

\* push: a message with a dedup key takes the place of the one before it.
Push(queue, m) ==
  {p \in queue : ~(m.kind \in Keyed /\ p.kind = m.kind)} \cup {m}

\* Mutant: a move replaces the last move across other input.
PushUrgentInputAcross(queue, m) ==
  IF m.kind = PointerMove
  THEN {p \in queue : p.kind # PointerMove} \cup {m}
  ELSE Push(queue, m)

\* push_urgent_input: a move directly behind a move replaces it.
PushUrgentInput(queue, m) ==
  IF m.kind = PointerMove
  THEN {p \in queue : ~(p.kind = PointerMove /\ \A q \in queue : q.n <= p.n)} \cup {m}
  ELSE Push(queue, m)

AllEmpty == urgent = {} /\ messages = {} /\ snapshot = {}

-----------------------------------------------------------------------------
(* The compositor thread.                                                  *)

\* Mutant: the epoch is advanced by one.
NextEpochByOne(e) == e + 1

\* next_shell_snapshot_epoch: epochs are even, an odd one marks a write.
NextEpoch(e) == e + 2

\* send_with_snapshot, the part under the mutex. A snapshot comes with a new
\* epoch (next_shell_snapshot_epoch); other messages carry the current one.
SendWithSnapshot(kind, with) ==
  LET epoch == IF with THEN NextEpoch(shell_snapshot_epoch) ELSE shell_snapshot_epoch
      m == [n |-> Len(log) + 1, kind |-> kind, epoch |-> epoch]
  IN
  /\ sender = "idle"
  /\ Len(log) < MaxSends
  /\ with => kind \in Snapshotted
  /\ log' = Append(log, [kind |-> kind, epoch |-> epoch, with |-> with])
  /\ shell_snapshot_epoch' = epoch
  /\ snapshot' = IF with THEN Push(snapshot, m) ELSE snapshot
  /\ snapshot_epoch' = IF with /\ epoch > snapshot_epoch THEN epoch ELSE snapshot_epoch
  /\ urgent' = IF kind \in Urgent THEN PushUrgentInput(urgent, m) ELSE urgent
  /\ messages' = IF kind \in Urgent THEN messages ELSE Push(messages, m)
  /\ scheduled' = TRUE
  /\ sender' = IF ~scheduled /\ delivery_ready THEN "post" ELSE "idle"
  /\ UNCHANGED <<delivery_ready, tasks, ui, taken, page, bounds>>

\* post_pending_messages, outside of the mutex.
Post ==
  /\ sender = "post"
  /\ tasks' = tasks + 1
  /\ sender' = "idle"
  /\ UNCHANGED <<log, shell_snapshot_epoch, pending, delivery_ready, ui, taken, page, bounds>>

\* Mutant: a refused post leaves the flag raised.
PostRefusedKeepsFlag ==
  /\ sender = "post"
  /\ failures < MaxPostFailures
  /\ failures' = failures + 1
  /\ sender' = "idle"
  /\ UNCHANGED <<log, shell_snapshot_epoch, pending, delivery_ready, tasks, ui, taken, page,
                 toggles>>

PostRefused ==
  /\ sender = "post"
  /\ failures < MaxPostFailures
  /\ failures' = failures + 1
  /\ sender' = "unschedule"
  /\ UNCHANGED <<log, shell_snapshot_epoch, pending, delivery_ready, tasks, ui, taken, page,
                 toggles>>

\* The second half of a refused post, and of set_delivery_ready(false).
Unschedule ==
  /\ sender = "unschedule"
  /\ scheduled' = FALSE
  /\ sender' = "idle"
  /\ UNCHANGED <<log, shell_snapshot_epoch, urgent, messages, snapshot, snapshot_epoch,
                 delivery_ready, tasks, ui, taken, page, bounds>>

\* Mutant: delivery resumes without a task for what is pending.
SetDeliveryReadyWithoutPost(ready) ==
  /\ sender = "idle"
  /\ toggles < MaxToggles
  /\ toggles' = toggles + 1
  /\ delivery_ready' = ready
  /\ sender' = IF ready THEN "idle" ELSE "unschedule"
  /\ UNCHANGED <<log, shell_snapshot_epoch, pending, tasks, ui, taken, page, failures>>

SetDeliveryReady(ready) ==
  /\ sender = "idle"
  /\ toggles < MaxToggles
  /\ toggles' = toggles + 1
  /\ delivery_ready' = ready
  /\ sender' = IF ready THEN "post" ELSE "unschedule"
  /\ UNCHANGED <<log, shell_snapshot_epoch, pending, tasks, ui, taken, page, failures>>

-----------------------------------------------------------------------------
(* CEF's UI thread: ApplyCompositorToShellTask::execute.                   *)

\* Mutant: the messages are copied, and delivered again by the next task.
TakePendingCopy ==
  /\ ui = "idle"
  /\ tasks > 0
  /\ tasks' = tasks - 1
  /\ scheduled' = FALSE
  /\ IF AllEmpty
     THEN UNCHANGED <<urgent, messages, snapshot, snapshot_epoch, ui, taken>>
     ELSE /\ taken' = [urgent |-> urgent, messages |-> messages, snapshot |-> snapshot,
                       epoch |-> snapshot_epoch]
          /\ urgent' = {} /\ snapshot' = {} /\ snapshot_epoch' = 0
          /\ ui' = "urgent"
          /\ UNCHANGED messages
  /\ UNCHANGED <<log, shell_snapshot_epoch, sender, delivery_ready, page, bounds>>

TakePending ==
  /\ ui = "idle"
  /\ tasks > 0
  /\ tasks' = tasks - 1
  /\ scheduled' = FALSE
  /\ IF AllEmpty
     THEN UNCHANGED <<urgent, messages, snapshot, snapshot_epoch, ui, taken>>
     ELSE /\ taken' = [urgent |-> urgent, messages |-> messages, snapshot |-> snapshot,
                       epoch |-> snapshot_epoch]
          /\ urgent' = {} /\ messages' = {} /\ snapshot' = {} /\ snapshot_epoch' = 0
          /\ ui' = "urgent"
  /\ UNCHANGED <<log, shell_snapshot_epoch, sender, delivery_ready, page, bounds>>

\* A BTreeMap is iterated by its keys: the i-th message has i - 1 before it.
InOrder(queue) ==
  [i \in 1 .. Cardinality(queue) |->
     CHOOSE m \in queue : Cardinality({p \in queue : p.n < m.n}) = i - 1]

\* Mutant: the details are applied before the snapshot is published.
ApplyUrgentThenDetails ==
  /\ ui = "urgent"
  /\ delivered' = delivered \o InOrder(taken.urgent)
  /\ ui' = "apply"
  /\ UNCHANGED <<log, shell_snapshot_epoch, sender, pending, delivery_ready, tasks, taken,
                 published, bounds>>

ApplyUrgent ==
  /\ ui = "urgent"
  /\ delivered' = delivered \o InOrder(taken.urgent)
  /\ ui' = "publish"
  /\ UNCHANGED <<log, shell_snapshot_epoch, sender, pending, delivery_ready, tasks, taken,
                 published, bounds>>

\* publish_messages: a sequence that is odd or does not advance is an error, and
\* the snapshot stays what it was.
Publishable(epoch) == epoch % 2 = 0 /\ epoch > published.epoch

\* Mutant: the first message of a kind wins.
LatestIsFirst(queue, kind, old) ==
  LET ns == {m.n : m \in {p \in queue : p.kind = kind}}
  IN  IF ns = {} THEN old ELSE CHOOSE n \in ns : \A i \in ns : n <= i

Latest(queue, kind, old) ==
  LET ns == {m.n : m \in {p \in queue : p.kind = kind}}
  IN  IF ns = {} THEN old ELSE CHOOSE n \in ns : \A i \in ns : i <= n

PublishSnapshot ==
  /\ ui = "publish"
  /\ published' =
       IF taken.snapshot # {} /\ Publishable(taken.epoch)
       THEN [epoch |-> taken.epoch,
             content |-> [k \in Kinds |-> Latest(taken.snapshot, k, published.content[k])]]
       ELSE published
  /\ ui' = "apply"
  /\ UNCHANGED <<log, shell_snapshot_epoch, sender, pending, delivery_ready, tasks, taken,
                 delivered, bounds>>

ApplyDetails ==
  /\ ui = "apply"
  /\ delivered' = delivered \o InOrder(taken.messages)
  /\ taken' = Nothing
  /\ ui' = "repost"
  /\ UNCHANGED <<log, shell_snapshot_epoch, sender, pending, delivery_ready, tasks,
                 published, bounds>>

\* The second critical section: whoever raises `scheduled` posts.
DecideRepost ==
  /\ ui = "repost"
  /\ IF AllEmpty \/ scheduled
     THEN ui' = "idle" /\ UNCHANGED scheduled
     ELSE ui' = "post" /\ scheduled' = TRUE
  /\ UNCHANGED <<log, shell_snapshot_epoch, sender, urgent, messages, snapshot,
                 snapshot_epoch, delivery_ready, tasks, taken, page, bounds>>

Repost ==
  /\ ui = "post"
  /\ tasks' = tasks + 1
  /\ ui' = "idle"
  /\ UNCHANGED <<log, shell_snapshot_epoch, sender, pending, delivery_ready, taken, page,
                 bounds>>

RepostRefused ==
  /\ ui = "post"
  /\ failures < MaxPostFailures
  /\ failures' = failures + 1
  /\ ui' = "unschedule"
  /\ UNCHANGED <<log, shell_snapshot_epoch, sender, pending, delivery_ready, tasks, taken,
                 page, toggles>>

UnscheduleRepost ==
  /\ ui = "unschedule"
  /\ scheduled' = FALSE
  /\ ui' = "idle"
  /\ UNCHANGED <<log, shell_snapshot_epoch, sender, urgent, messages, snapshot,
                 snapshot_epoch, delivery_ready, tasks, taken, page, bounds>>

Compositor ==
  \/ \E kind \in Kinds, with \in BOOLEAN : SendWithSnapshot(kind, with)
  \/ Post
  \/ PostRefused
  \/ Unschedule
  \/ \E ready \in BOOLEAN : SetDeliveryReady(ready)

UiTask ==
  \/ TakePending
  \/ ApplyUrgent
  \/ PublishSnapshot
  \/ ApplyDetails
  \/ DecideRepost
  \/ Repost
  \/ RepostRefused
  \/ UnscheduleRepost

Next == Compositor \/ UiTask

\* CEF runs the tasks it accepted, and the compositor thread finishes its calls.
Fairness ==
  /\ WF_vars(Post \/ PostRefused \/ Unschedule)
  /\ WF_vars(UiTask)

Spec == Init /\ [][Next]_vars /\ Fairness

-----------------------------------------------------------------------------
TypeOK ==
  /\ shell_snapshot_epoch \in Nat
  /\ sender \in {"idle", "post", "unschedule"}
  /\ scheduled \in BOOLEAN
  /\ urgent \subseteq Messages /\ messages \subseteq Messages /\ snapshot \subseteq Messages
  /\ snapshot_epoch \in Nat
  /\ delivery_ready \in BOOLEAN
  /\ tasks \in Nat
  /\ ui \in {"idle", "urgent", "publish", "apply", "repost", "post", "unschedule"}
  /\ taken \in [urgent : SUBSET Messages, messages : SUBSET Messages,
                snapshot : SUBSET Messages, epoch : Nat]
  /\ published.epoch \in Nat /\ DOMAIN published.content = Kinds
  /\ toggles \in 0 .. MaxToggles
  /\ failures \in 0 .. MaxPostFailures
  /\ log \in Seq([kind : Kinds, epoch : Nat, with : BOOLEAN])

(* No message is stranded. While delivery is ready and no post was ever    *)
(* refused, a non-empty queue has a task that will take it, or a thread    *)
(* that is about to post one; and `scheduled` is never left raised with    *)
(* nobody to serve it, refused posts included: a send that finds it raised *)
(* relies on somebody else's task.                                         *)
TaskComing ==
  \/ tasks > 0
  \/ sender = "post"
  \/ ui \in {"urgent", "publish", "apply", "repost", "post"}
QueueHasTask ==
  (delivery_ready /\ failures = 0 /\ ~AllEmpty) => TaskComing
FlagHasOwner ==
  (delivery_ready /\ scheduled) =>
    tasks > 0 \/ sender \in {"post", "unschedule"} \/ ui \in {"post", "unschedule"}
NoMessageStranded == QueueHasTask /\ FlagHasOwner

(* The page never gets a detail of an epoch whose snapshot it cannot read  *)
(* yet: when details are applied, the snapshot they refer to is published, *)
(* although it is queued, superseded and merged apart from them.           *)
NoDetailAheadOfSnapshot ==
  ui = "apply" => \A m \in taken.messages : m.epoch <= published.epoch

(* A snapshot taken is always publishable: the epochs of what is pending   *)
(* lie beyond the published one, or publish_messages would refuse it.      *)
PublishNeverRefused ==
  (ui \in {"urgent", "publish"} /\ taken.snapshot # {}) => Publishable(taken.epoch)

(* The snapshot published under an epoch holds, for every kind, the last   *)
(* message that was sent with a snapshot up to that epoch.                 *)
SnapshotIsTruthOfItsEpoch ==
  \A k \in Kinds : \A i \in DOMAIN log :
    (log[i].kind = k /\ log[i].with /\ log[i].epoch <= published.epoch) =>
      published.content[k] >= i

\* Input has a queue of its own: two messages are of one lane if both went through it,
\* or neither.
SameLane(m, p) == m.kind \in Urgent <=> p.kind \in Urgent

(* Within a lane the page gets messages in the order they were sent, and   *)
(* none of them twice.                                                     *)
DeliveredInOrder ==
  \A i, j \in DOMAIN delivered :
    (i < j /\ SameLane(delivered[i], delivered[j])) => delivered[i].n < delivered[j].n

(* Conflation loses only what is superseded: a message that is neither     *)
(* queued, nor taken, nor delivered has a later one of its kind, and it    *)
(* had a dedup key or was a move directly followed by a move.              *)
Numbers(queue) == {m.n : m \in queue}
InTransit == Numbers(urgent \cup messages) \cup Numbers(taken.messages)
             \cup (IF ui = "urgent" THEN Numbers(taken.urgent) ELSE {})
Arrived   == {delivered[i].n : i \in DOMAIN delivered}
NextUrgent(i) ==
  {j \in DOMAIN log : j > i /\ log[j].kind \in Urgent
     /\ \A l \in i + 1 .. j - 1 : log[l].kind \notin Urgent}
Superseded(i) ==
  \/ /\ log[i].kind \in Keyed
     /\ \E j \in DOMAIN log : j > i /\ log[j].kind = log[i].kind
  \/ log[i].kind = PointerMove /\ \E j \in NextUrgent(i) : log[j].kind = PointerMove
OnlySupersededLost ==
  \A i \in DOMAIN log \ (InTransit \cup Arrived) : Superseded(i)

(* While nothing goes wrong, everything sent leaves the queues.            *)
Stopped == ~delivery_ready \/ failures > 0
QueuesDrain == ~AllEmpty ~> (AllEmpty \/ Stopped)
=============================================================================
