---------------------------- MODULE SnapshotSync ----------------------------
(***************************************************************************)
(* How the shell's page keeps its view of the compositor's state current:  *)
(*   - the compositor numbers its snapshots by epoch and sends a detail    *)
(*     with each (shell_send_to_cef_with_snapshot_extras);                 *)
(*   - CEF's UI thread publishes what is pending as one partial snapshot:  *)
(*     the revisions of all domains, but the contents of those only that   *)
(*     changed, overwriting the snapshot before (shell_snapshot.rs); then  *)
(*     it sends a notification and the batch of details;                   *)
(*   - the page reads the snapshot on either, detects by the revisions     *)
(*     that it missed the contents of a domain, and then asks the          *)
(*     compositor to send its state again, at most once a second           *)
(*     (compositorBridgeRuntime.ts, App.tsx, uplink.rs);                   *)
(*   - the page sends mutations of the state, and defers the recovery      *)
(*     while one is pending: until its acknowledgement has come and the    *)
(*     snapshot that the acknowledgement names was read, or two seconds.   *)
(*                                                                         *)
(* The state of a domain is abstracted to a version. Scheduling of the UI  *)
(* task is the subject of ShellDelivery: here it just runs. The model      *)
(* starts after the page's boot sync and the handshake. Left out: the DOM  *)
(* writes of applyImperativeChromeDetails, which are overwritten by the    *)
(* view, and what a mutation changes besides one domain.                   *)
(***************************************************************************)
EXTENDS Integers, Sequences, FiniteSets

CONSTANTS
  Domains,        \* snapshot domains
  Recovery,       \* snapshotRecoveryDomainIndexes
  Direct,         \* snapshotDetailCanApplyWhenSyncedSnapshotOmitsDomain
  NeedsRecovery,  \* detailNeedsWindowSyncRecovery
  Windows,        \* the domain of the window list
  Carried,        \* domains whose state the window list carries as well
  Resent,         \* what request_compositor_sync sends again, in order
  Mutable,        \* domains a mutation of the page may change
  MaxChanges,     \* bound: changes of the compositor's state, and mutations asked for
  MaxRequests     \* bound: requests of the page the compositor takes, of both sorts

ASSUME DomainsAssumption ==
  /\ Recovery \subseteq Domains /\ Direct \subseteq Domains
  /\ NeedsRecovery \subseteq Domains /\ Carried \subseteq Domains
  /\ Mutable \subseteq Domains
  /\ Windows \in Domains \ Carried
  /\ Resent \in Seq(Domains)
  /\ Recovery \subseteq {Resent[i] : i \in DOMAIN Resent}
  /\ Direct \subseteq NeedsRecovery

ASSUME BoundsAssumption == MaxChanges \in Nat /\ MaxRequests \in Nat

VARIABLES
  truth,      \* the compositor's state: a version per domain
  epoch,      \* shell_snapshot_epoch
  resending,  \* the part of a recovery answer still to be sent
  acking,     \* the acknowledgement still to be sent, at most one
  changes,    \* how many changes and mutations there were: it numbers mutations
  details,    \* pending detail messages, one per domain, whatever their order
  acks,       \* pending acknowledgements
  snapshot,   \* domains of the pending snapshot messages
  ui,         \* where the UI task is
  task,       \* what the task took
  authoritative, \* the writer's model of the state, and its revisions
  shm,        \* the shared snapshot
  wire,       \* process messages on their way to the page
  answered,   \* how many requests of the page the compositor took, for the bound
  lastSeq, lastRevisions, lastFlags,  \* of the page: the snapshot it read last
  view,       \* what the page shows: a version per domain
  client      \* what the page has asked for, see Clients

compositor == <<truth, epoch, resending, acking, changes>>
queue      == <<details, acks, snapshot>>
writer     == <<ui, task, authoritative, shm>>
page       == <<lastSeq, lastRevisions, lastFlags, view, client>>
vars       == <<compositor, queue, writer, wire, answered, page>>

Version0 == [d \in Domains |-> 0]
NoTask   == [details |-> {}, acks |-> <<>>, domains |-> {}, values |-> Version0,
             epoch |-> 0]

Ids  == 1 .. MaxChanges
Sync == 0     \* request_compositor_sync, among the mutations

\* The wait of a mutation ends with the snapshot `epoch`, 0 while no acknowledgement
\* has come; it is `old` after two seconds. Of throttled requests, history keeps
\* whether one was dropped while none was on its way.
Clients ==
  [ uplink    : Seq(Ids \cup {Sync}),   \* messages on their way to the compositor
    pending   : SUBSET [id : Ids, epoch : Nat, old : BOOLEAN],
    deferred  : BOOLEAN,                \* windowSyncRecoveryDeferred
    recent    : BOOLEAN,                \* windowSyncRecoveryPending, for a second
    throttled : BOOLEAN ]

\* The boot snapshot has epoch 2 and holds every domain in its first revision.
Init ==
  /\ truth = Version0
  /\ epoch = 2
  /\ resending = <<>>
  /\ acking = <<>>
  /\ changes = 0
  /\ details = {}
  /\ acks = <<>>
  /\ snapshot = {}
  /\ ui = "idle"
  /\ task = NoTask
  /\ authoritative = [values |-> Version0, revisions |-> [d \in Domains |-> 1]]
  /\ shm = [seq |-> 2, flags |-> Domains, revisions |-> [d \in Domains |-> 1],
            values |-> Version0]
  /\ wire = <<>>
  /\ answered = 0
  /\ lastSeq = 2
  /\ lastRevisions = [d \in Domains |-> 1]
  /\ lastFlags = Domains
  /\ view = Version0
  /\ client = [uplink |-> <<>>, pending |-> {}, deferred |-> FALSE, recent |-> FALSE,
               throttled |-> FALSE]

-----------------------------------------------------------------------------
(* The compositor thread.                                                  *)

\* shell_send_to_cef of a message of domain d, whose state is now v: a partial
\* snapshot under a new epoch, and the detail that replaces a pending one.
Send(d, v) ==
  /\ epoch' = epoch + 2
  /\ snapshot' = snapshot \cup {d}
  /\ details' = {m \in details : m.domain # d}
                \cup {[domain |-> d, value |-> v, epoch |-> epoch']}

\* The handler before has returned.
Free == resending = <<>> /\ acking = <<>>

Change(d) ==
  /\ Free
  /\ changes < MaxChanges
  /\ changes' = changes + 1
  /\ truth' = [truth EXCEPT ![d] = @ + 1]
  /\ Send(d, truth'[d])
  /\ UNCHANGED <<resending, acking, acks, writer, wire, answered, page>>

TakeRequest(message) ==
  /\ Free
  /\ answered < MaxRequests
  /\ client.uplink # <<>> /\ Head(client.uplink) = message
  /\ client' = [client EXCEPT !.uplink = Tail(@)]
  /\ answered' = answered + 1
  /\ UNCHANGED <<changes, writer, wire, lastSeq, lastRevisions, lastFlags, view>>

\* shell_request_compositor_sync: a send of its own for each message.
AnswerRequest ==
  /\ TakeRequest(Sync)
  /\ resending' = Resent
  /\ UNCHANGED <<truth, epoch, acking, queue>>

Resend ==
  /\ resending # <<>>
  /\ Send(Head(resending), truth[Head(resending)])
  /\ resending' = Tail(resending)
  /\ UNCHANGED <<truth, acking, changes, acks, writer, wire, answered, page>>

\* shell_send_mutation_ack: names the last snapshot there is.
Ack(id, accepted) == [id |-> id, accepted |-> accepted, epoch |-> epoch]

\* apply_workspace_mutation_json and apply_shell_window_intent_json: the state is
\* changed and sent, and then acknowledged; or nothing is changed.
Mutate(id, d) ==
  /\ TakeRequest(id)
  /\ truth' = [truth EXCEPT ![d] = @ + 1]
  /\ Send(d, truth'[d])
  /\ acking' = <<id>>
  /\ UNCHANGED <<resending, acks>>

SendAck ==
  /\ acking # <<>>
  /\ acks' = Append(acks, Ack(Head(acking), TRUE))
  /\ acking' = <<>>
  /\ UNCHANGED <<truth, epoch, resending, changes, details, snapshot, writer, wire,
                 answered, page>>

MutateNothing(id, accepted) ==
  /\ TakeRequest(id)
  /\ acks' = Append(acks, Ack(id, accepted))
  /\ UNCHANGED <<truth, epoch, resending, acking, details, snapshot>>

-----------------------------------------------------------------------------
(* CEF's UI thread.                                                        *)

TakePending ==
  /\ ui = "idle"
  /\ details # {} \/ acks # <<>>
  /\ task' = [details |-> details, acks |-> acks, domains |-> snapshot,
              values |-> truth, epoch |-> epoch]
  /\ details' = {}
  /\ acks' = <<>>
  /\ snapshot' = {}
  /\ ui' = IF snapshot = {} THEN "apply" ELSE "publish"
  /\ UNCHANGED <<compositor, authoritative, shm, wire, answered, page>>

\* publish_messages up to the odd sequence of publish_payload_at.
BeginPublish ==
  /\ ui = "publish"
  /\ authoritative' =
       [values    |-> [d \in Domains |-> IF d \in task.domains THEN task.values[d]
                                         ELSE authoritative.values[d]],
        revisions |-> [d \in Domains |-> IF d \in task.domains
                                         THEN authoritative.revisions[d] + 1
                                         ELSE authoritative.revisions[d]]]
  /\ shm' = [shm EXCEPT !.seq = task.epoch - 1]
  /\ ui' = "end"
  /\ UNCHANGED <<compositor, queue, task, wire, answered, page>>

\* Mutant: the sequence is left odd.
EndPublishOdd ==
  /\ ui = "end"
  /\ shm' = [shm EXCEPT !.flags = task.domains, !.revisions = authoritative.revisions,
                        !.values = authoritative.values]
  /\ wire' = Append(wire, [type |-> "notify", details |-> {}, acks |-> <<>>])
  /\ ui' = "apply"
  /\ UNCHANGED <<compositor, queue, task, authoritative, answered, page>>

\* The rest of it, and notify_shell_snapshot.
EndPublish ==
  /\ ui = "end"
  /\ shm' = [seq |-> task.epoch, flags |-> task.domains,
             revisions |-> authoritative.revisions, values |-> authoritative.values]
  /\ wire' = Append(wire, [type |-> "notify", details |-> {}, acks |-> <<>>])
  /\ ui' = "apply"
  /\ UNCHANGED <<compositor, queue, task, authoritative, answered, page>>

\* apply_messages: the details as one batch.
ApplyDetails ==
  /\ ui = "apply"
  /\ wire' = Append(wire, [type |-> "batch", details |-> task.details,
                          acks |-> task.acks])
  /\ task' = NoTask
  /\ ui' = "idle"
  /\ UNCHANGED <<compositor, queue, authoritative, shm, answered, page>>

-----------------------------------------------------------------------------
(* The page.                                                               *)

Elements(s) == {s[i] : i \in DOMAIN s}

\* readIfChanged: a sequence that is odd or the last one gives nothing.
Readable == shm.seq % 2 = 0 /\ shm.seq # lastSeq

\* Mutant: the revisions are compared of the domains the snapshot holds.
MissedContentsOfHeld ==
  \E d \in Recovery \cap shm.flags : shm.revisions[d] > lastRevisions[d] + 1

\* The gap check of syncCompositorSnapshot.
MissedContents ==
  \E d \in Recovery \ shm.flags : shm.revisions[d] > lastRevisions[d]

\* What applying the snapshot shows: its domains, and with the window list the
\* state of the windows.
Applied ==
  [d \in Domains |->
     IF d \in shm.flags \/ (Windows \in shm.flags /\ d \in Carried)
     THEN shm.values[d] ELSE view[d]]

\* The mutations that go on waiting when the page has read the snapshot seq.
Waiting(pending, seq) == {m \in pending : ~m.old /\ (m.epoch = 0 \/ seq < m.epoch)}

\* The request is dropped within a second of the one before.
Ask(c) ==
  IF ~c.recent
  THEN [c EXCEPT !.uplink = Append(@, Sync), !.recent = TRUE]
  ELSE [c EXCEPT !.throttled = @ \/ Sync \notin Elements(c.uplink)]

\* requestWindowSyncRecovery: deferred while a mutation waits.
RequestRecovery(c, seq) ==
  LET waiting == Waiting(c.pending, seq)
      now     == [c EXCEPT !.pending = waiting, !.deferred = waiting # {}]
  IN  IF now.deferred THEN now ELSE Ask(now)

FlushDeferred(c, seq) ==
  IF c.deferred /\ c.pending = {} THEN RequestRecovery(c, seq) ELSE c

\* Mutant: a deferred request waits for the next acknowledgement.
ReconcileUnflushed(c, seq) == [c EXCEPT !.pending = Waiting(@, seq)]

\* reconcilePendingClientMutations, run when another snapshot was read.
Reconcile(c, seq) == FlushDeferred([c EXCEPT !.pending = Waiting(@, seq)], seq)

Without(c, id) == [c EXCEPT !.pending = {m \in @ : m.id # id}]

\* Mutant: a mutation that waits for its snapshot is there twice.
HandleAckTwice(c, ack, seq) ==
  LET mine    == {m \in c.pending : m.id = ack.id}
      flushed == FlushDeferred(Without(c, ack.id), seq)
  IN  IF ack.accepted /\ mine # {} /\ ack.epoch > seq
      THEN [c EXCEPT !.pending = @ \cup {[m EXCEPT !.epoch = ack.epoch] : m \in mine}]
      ELSE IF ack.accepted THEN flushed ELSE RequestRecovery(flushed, seq)

\* handleMutationAck: a mutation waits for its snapshot; a rejected one is undone by
\* a recovery.
HandleAck(c, ack, seq) ==
  LET mine    == {m \in c.pending : m.id = ack.id}
      flushed == FlushDeferred(Without(c, ack.id), seq)
  IN  IF ack.accepted /\ mine # {} /\ ack.epoch > seq
      THEN [c EXCEPT !.pending = (@ \ mine) \cup {[m EXCEPT !.epoch = ack.epoch] : m \in mine}]
      ELSE IF ack.accepted THEN flushed ELSE RequestRecovery(flushed, seq)

HandleAcks(c, list, seq) ==
  LET after[n \in 0 .. Len(list)] == IF n = 0 THEN c ELSE HandleAck(after[n - 1], list[n], seq)
  IN  after[Len(list)]

\* syncCompositorSnapshot: the gap check knows the sequence before, the mutations are
\* reconciled with the new one, and a window list clears the pending request last.
Synced(c) ==
  LET checked == IF MissedContents THEN RequestRecovery(c, lastSeq) ELSE c
      settled == Reconcile(checked, shm.seq)
  IN  IF Windows \in shm.flags THEN [settled EXCEPT !.recent = FALSE] ELSE settled

Read(shown) ==
  /\ lastSeq' = shm.seq
  /\ lastRevisions' = shm.revisions
  /\ lastFlags' = shm.flags
  /\ view' = shown
  /\ UNCHANGED <<compositor, queue, writer, answered>>

Receive(type) == wire # <<>> /\ Head(wire).type = type /\ wire' = Tail(wire)

\* A notification, of a snapshot that can be read or not.
SyncOnNotify ==
  /\ Receive("notify")
  /\ Readable
  /\ Read(Applied)
  /\ client' = Synced(client)

IgnoreNotify ==
  /\ Receive("notify")
  /\ ~Readable
  /\ UNCHANGED <<compositor, queue, writer, answered, page>>

\* Mutant: a detail of any domain the snapshot omits is applied.
SyncOnBatchAnyOmitted ==
  /\ Receive("batch")
  /\ Head(wire).details # {} /\ Readable
  /\ LET direct == {m \in Head(wire).details : m.domain \notin shm.flags}
     IN  Read([d \in Domains |->
                 IF \E m \in direct : m.domain = d
                 THEN (CHOOSE m \in direct : m.domain = d).value
                 ELSE Applied[d]])
  /\ client' = HandleAcks(Synced(client), Head(wire).acks, shm.seq)

\* applyCompositorBatch, synced: a detail of a domain the snapshot omits is
\* applied directly when it is a focus, an order or a workspace.
SyncOnBatch ==
  /\ Receive("batch")
  /\ Head(wire).details # {} /\ Readable
  /\ LET direct == {m \in Head(wire).details :
                      m.domain \in Direct /\ m.domain \notin shm.flags}
     IN  Read([d \in Domains |->
                 IF \E m \in direct : m.domain = d
                 THEN (CHOOSE m \in direct : m.domain = d).value
                 ELSE Applied[d]])
  /\ client' = HandleAcks(Synced(client), Head(wire).acks, shm.seq)

\* shouldRequestWindowSyncRecovery.
BehindOrAhead(m) ==
  \/ m.epoch > lastSeq
  \/ m.epoch < lastSeq /\ m.domain \in NeedsRecovery \ lastFlags

\* applyCompositorBatch, nothing to read: its details are only a wake-up. A batch of
\* acknowledgements alone does not look for a snapshot.
WakeOnBatch ==
  /\ Receive("batch")
  /\ Head(wire).details = {} \/ ~Readable
  /\ LET handled == HandleAcks(client, Head(wire).acks, lastSeq)
     IN  client' = IF \E m \in Head(wire).details : BehindOrAhead(m)
                   THEN RequestRecovery(handled, lastSeq)
                   ELSE handled
  /\ UNCHANGED <<compositor, queue, writer, answered, lastSeq, lastRevisions, lastFlags, view>>

\* sendWorkspaceMutation and sendWindowIntent.
SendMutation ==
  /\ changes < MaxChanges
  /\ changes' = changes + 1
  /\ client' = [client EXCEPT !.uplink = Append(@, changes'),
                              !.pending = @ \cup {[id |-> changes', epoch |-> 0, old |-> FALSE]}]
  /\ UNCHANGED <<truth, epoch, resending, acking, queue, writer, wire, answered, lastSeq,
                 lastRevisions, lastFlags, view>>

\* A second has passed since the last request, or two since a mutation was sent.
\* There is no timer: both are seen by whoever looks next.
TimePasses ==
  /\ \/ client.recent /\ client' = [client EXCEPT !.recent = FALSE]
     \/ \E m \in client.pending :
          ~m.old /\ client' = [client EXCEPT !.pending = (@ \ {m}) \cup {[m EXCEPT !.old = TRUE]}]
  /\ UNCHANGED <<compositor, queue, writer, wire, answered, lastSeq, lastRevisions,
                 lastFlags, view>>

Mutation(id) ==
  (\E d \in Mutable : Mutate(id, d)) \/ \E accepted \in BOOLEAN : MutateNothing(id, accepted)

Answer     == AnswerRequest \/ Resend \/ SendAck \/ \E id \in Ids : Mutation(id)
Compositor == (\E d \in Domains : Change(d)) \/ Answer
UiTask     == TakePending \/ BeginPublish \/ EndPublish \/ ApplyDetails
Page       == SyncOnNotify \/ IgnoreNotify \/ SyncOnBatch \/ WakeOnBatch

Next == Compositor \/ UiTask \/ Page \/ SendMutation \/ TimePasses

\* The threads and the page handle what is queued for them. The compositor's state
\* need not change, no mutation need be sent, and no time need pass.
Fairness ==
  /\ WF_vars(Answer)
  /\ WF_vars(UiTask)
  /\ WF_vars(Page)

Spec == Init /\ [][Next]_vars /\ Fairness
-----------------------------------------------------------------------------
Details == [domain : Domains, value : 0 .. MaxChanges, epoch : Nat]
Acks    == [id : Ids, accepted : BOOLEAN, epoch : Nat]
Wired   == [type : {"notify", "batch"}, details : SUBSET Details, acks : Seq(Acks)]

\* TypeOK: the types, and a mutation waits at most once.
TypeOK ==
  /\ truth \in [Domains -> 0 .. MaxChanges]
  /\ epoch \in Nat
  /\ resending \in Seq(Domains)
  /\ acking \in Seq(Ids) /\ changes \in 0 .. MaxChanges
  /\ details \subseteq Details /\ acks \in Seq(Acks)
  /\ snapshot \subseteq Domains
  /\ ui \in {"idle", "publish", "end", "apply"}
  /\ shm.seq \in Nat /\ shm.flags \subseteq Domains
  /\ shm.values \in [Domains -> 0 .. MaxChanges]
  /\ wire \in Seq(Wired)
  /\ lastSeq \in Nat /\ lastFlags \subseteq Domains
  /\ view \in [Domains -> 0 .. MaxChanges]
  /\ client \in Clients
  /\ \A m, n \in client.pending : m.id = n.id => m = n

\* Nothing is on its way any more.
Quiet ==
  /\ details = {} /\ acks = <<>> /\ Free /\ ui = "idle"
  /\ wire = <<>> /\ client.uplink = <<>>

(* Once everything was handled the page has read the last snapshot: a read *)
(* that met the writer's odd sequence is made up for by the batch or by    *)
(* the next notification.                                                  *)
LastSnapshotRead == Quiet => lastSeq = shm.seq

(* A snapshot overwritten before the page read it loses nothing: once      *)
(* everything was handled, and if no recovery request was throttled while  *)
(* none was on its way, the page shows the compositor's state of every     *)
(* recovery domain, mutations that defer the request included.             *)
RecoveredWhenQuiet ==
  (Quiet /\ ~client.throttled) => \A d \in Recovery : view[d] = truth[d]

(* A mutation does not defer the recovery for ever: once everything was    *)
(* handled, every mutation has its acknowledgement and the snapshot that   *)
(* it names, no mutation waits and no request is deferred, without a       *)
(* timeout. Nothing else would look at them again.                         *)
MutationsSettled ==
  Quiet => client.pending = {} /\ ~client.deferred

(* What the page shows of a domain it takes from snapshots alone never     *)
(* goes back to an older version, however reads, batches and recovery      *)
(* answers fall.                                                           *)
SnapshotDomainsAdvance ==
  [][\A d \in Domains \ Direct : view'[d] >= view[d]]_vars

(* The tests: "requests compositor sync when a newer partial snapshot      *)
(* skipped an unread chrome domain", so that a skipped recovery domain is  *)
(* always shown in the end. The code drops the request when it made        *)
(* another within the second before, and nothing repeats it.               *)
SkippedDomainAlwaysRecovered ==
  Quiet => \A d \in Recovery : view[d] = truth[d]
=============================================================================
