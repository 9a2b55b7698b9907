------------------------- MODULE SnapshotSyncProofs -------------------------
(***************************************************************************)
(* Proofs about SnapshotSync, for any domains, any number of changes,      *)
(* mutations and requests, and any answer to a recovery request: types;    *)
(* the page reads the last snapshot; what it takes from snapshots alone    *)
(* does not go back; no mutation waits for ever; and a snapshot that was   *)
(* overwritten unread loses nothing.                                       *)
(***************************************************************************)
EXTENDS SnapshotSync, TLAPS, FiniteSetTheorems, WellFoundedInduction

(***************************************************************************)
(* The mutations the page waits for.                                       *)
(***************************************************************************)

Taken == ui \in {"publish", "end"}

\* A recovery is owed: the page has asked for it, will ask, or was throttled.
Owed(c) == c.deferred \/ c.throttled \/ Sync \in Elements(c.uplink)

\* Nobody waits twice, and a deferred request has a mutation to wait for.
Sole(c) == \A m, n \in c.pending : m.id = n.id => m = n
Sound(c) == c \in Clients /\ Sole(c) /\ (c.deferred => c.pending # {})

\* What a mutation waits for is a snapshot that the page has not read and that is
\* made already.
Awaits(c, seq, last) == \A m \in c.pending : m.epoch # 0 => seq < m.epoch /\ m.epoch <= last

WireAcks == UNION {Elements(wire[i].acks) : i \in DOMAIN wire}
AllAcks  == Elements(acks) \cup Elements(task.acks) \cup WireAcks
Unanswered ==
  Elements(client.uplink) \cup Elements(acking) \cup {ack.id : ack \in AllAcks}

\* The latest snapshot is on its way to the file, or there.
LatestInv ==
  /\ shm.seq <= epoch /\ lastSeq <= epoch
  /\ snapshot = {} => epoch = IF Taken THEN task.epoch ELSE shm.seq
  /\ snapshot # {} => shm.seq < epoch /\ lastSeq < epoch
  /\ Taken => lastSeq < task.epoch /\ task.epoch <= epoch
  /\ Taken /\ snapshot # {} => task.epoch < epoch
  /\ ui = "publish" => shm.seq < task.epoch
  /\ ui = "end" => shm.seq = task.epoch - 1

\* Acknowledgements name snapshots there are, and a mutation without a snapshot to wait
\* for is still to be acknowledged.
AckInv ==
  /\ Sound(client) /\ Awaits(client, lastSeq, epoch)
  /\ \A ack \in AllAcks : 0 < ack.epoch /\ ack.epoch <= epoch
  /\ \A m \in client.pending : m.epoch = 0 => m.id \in Unanswered
  /\ \A i \in DOMAIN wire : wire[i].type = "notify" => wire[i].acks = <<>>
  /\ ui = "idle" => task = NoTask
  /\ \A id \in Elements(acking) : id = Head(acking)

\* Every mutation is in the uplink once; the compositor's changes are counted.
Asked == {id \in Ids : id \in Elements(client.uplink)}
CountInv ==
  /\ \A i, j \in DOMAIN client.uplink :
       client.uplink[i] = client.uplink[j] => i = j \/ client.uplink[i] = Sync
  /\ \A i \in DOMAIN client.uplink : client.uplink[i] <= changes
  /\ \A m \in client.pending : m.id <= changes
  /\ \A d \in Domains : truth[d] + Cardinality(Asked) <= changes

\* TypeOK, and the types of what is only read by others.
TypeInv ==
  /\ TypeOK
  /\ task \in [details : SUBSET Details, acks : Seq(Acks), domains : SUBSET Domains,
               values : [Domains -> 0 .. MaxChanges], epoch : Nat]
  /\ authoritative \in [values : [Domains -> 0 .. MaxChanges], revisions : [Domains -> Nat]]
  /\ shm \in [seq : Nat, flags : SUBSET Domains, revisions : [Domains -> Nat],
              values : [Domains -> 0 .. MaxChanges]]
  /\ lastRevisions \in [Domains -> Nat]

(***************************************************************************)
(* Recovery.                                                               *)
(***************************************************************************)
DomainsOf(D) == {m.domain : m \in D}
One(D) == \A m, n \in D : m.domain = n.domain => m = n

\* Details come with the snapshot of their domains.
DetailInv ==
  /\ One(details) /\ DomainsOf(details) = snapshot
  /\ One(task.details)
  /\ Taken => DomainsOf(task.details) = task.domains
  /\ \A i \in DOMAIN wire :
       One(wire[i].details) /\ (wire[i].type = "notify" => wire[i].details = {})

\* The snapshot of a detail's epoch holds the detail's domain.
Marked(m) ==
  /\ m.epoch = lastSeq => m.domain \in lastFlags
  /\ ui # "end" /\ m.epoch = shm.seq => m.domain \in shm.flags

DetailEpochs ==
  /\ \A m \in details : Marked(m) /\ m.epoch <= epoch /\ (Taken => task.epoch < m.epoch)
  /\ \A m \in task.details : Marked(m) /\ m.epoch <= epoch /\ (snapshot # {} => m.epoch < epoch)
  /\ \A i \in DOMAIN wire : \A m \in wire[i].details :
       /\ Marked(m) /\ m.epoch <= epoch /\ (snapshot # {} => m.epoch < epoch)
       /\ Taken => m.epoch < task.epoch

\* What was taken of a domain is in the writer's model, and then in the file.
WriterKnows ==
  /\ \A d \in Domains \ snapshot :
       truth[d] = IF ui = "publish" /\ d \in task.domains THEN task.values[d]
                  ELSE authoritative.values[d]
  /\ \A d \in Domains :
       IF ui = "end" /\ d \in task.domains
       THEN authoritative.revisions[d] = shm.revisions[d] + 1
       ELSE /\ authoritative.revisions[d] = shm.revisions[d]
            /\ authoritative.values[d] = shm.values[d]

Sending == ui \in {"end", "apply"}

\* A detail on the wire has the writer's version, or a later one of its domain follows.
Current(i, m) ==
  \/ \E j \in DOMAIN wire : i < j /\ m.domain \in DomainsOf(wire[j].details)
  \/ Sending /\ m.domain \in DomainsOf(task.details)
  \/ m.value = authoritative.values[m.domain]

DetailValues ==
  /\ \A m \in details : m.value = truth[m.domain]
  /\ \A m \in task.details :
       /\ ui = "publish" => m.value = task.values[m.domain]
       /\ Sending => m.value = authoritative.values[m.domain]
  /\ \A i \in DOMAIN wire : \A m \in wire[i].details : Current(i, m)

\* A detail of the domain is still to reach the page; or its snapshot is, or a recovery.
LaterDetail(d) ==
  \/ \E i \in DOMAIN wire : d \in DomainsOf(wire[i].details)
  \/ ui = "apply" /\ d \in DomainsOf(task.details)

Coming(d) ==
  \/ Owed(client)
  \/ d \in Elements(resending) \cup snapshot
  \/ Taken /\ d \in task.domains

\* What the page shows of a domain it has the latest revision of, is right or will be.
Shown(d) ==
  view[d] = shm.values[d] \/ Coming(d) \/ (d \in Direct /\ LaterDetail(d))

PageKnows ==
  /\ \A d \in Domains : lastRevisions[d] <= shm.revisions[d]
  /\ ui # "end" /\ lastSeq = shm.seq => lastRevisions = shm.revisions
  /\ \A d \in Domains :
       lastRevisions[d] = shm.revisions[d] =>
         /\ d \in lastFlags => view[d] = shm.values[d]
         /\ d \in Recovery => Shown(d)

RecoveryInv == DetailInv /\ DetailEpochs /\ WriterKnows /\ DetailValues /\ PageKnows

(***************************************************************************)
(* The sequence of the shared file.                                        *)
(***************************************************************************)

\* What makes the page look for a snapshot: a batch of acknowledgements does not.
Looks(message) == message.type = "notify" \/ message.details # {}

\* A snapshot the page has not read has something behind it that will make it look.
LookComing == ui = "end" \/ \E i \in DOMAIN wire : Looks(wire[i])

SequenceInv ==
  /\ \E S : wire \in Seq(S)
  /\ epoch \in Nat \ {0} /\ epoch % 2 = 0
  /\ ui \in {"idle", "publish", "end", "apply"}
  /\ ui \in {"publish", "end"} => task.epoch \in Nat \ {0} /\ task.epoch % 2 = 0
  /\ DOMAIN shm = {"seq", "flags", "revisions", "values"}
  /\ shm.seq \in Nat
  /\ ui # "end" => shm.seq % 2 = 0
  /\ lastSeq # shm.seq => LookComing

\* A message that is sent, and one that is received.
LEMMA SentLooks ==
  ASSUME NEW S, wire \in Seq(S), NEW message, wire' = Append(wire, message)
  PROVE  /\ wire' \in Seq(S \cup {message})
         /\ (\E i \in DOMAIN wire : Looks(wire[i])) => \E i \in DOMAIN wire' : Looks(wire'[i])
         /\ Looks(message) => \E i \in DOMAIN wire' : Looks(wire'[i])
<1>1. wire \in Seq(S \cup {message})
  OBVIOUS
<1>2. /\ wire' \in Seq(S \cup {message}) /\ Len(wire') = Len(wire) + 1
      /\ \A i \in 1 .. Len(wire) : wire'[i] = wire[i]
      /\ wire'[Len(wire) + 1] = message
  BY <1>1
<1>3. DOMAIN wire = 1 .. Len(wire) /\ DOMAIN wire' = 1 .. Len(wire) + 1 /\ Len(wire) \in Nat
  BY <1>2
<1> QED
  BY <1>2, <1>3

LEMMA ReceivedLooks ==
  ASSUME NEW S, wire \in Seq(S), wire # <<>>, wire' = Tail(wire)
  PROVE  /\ wire' \in Seq(S)
         /\ (\E i \in DOMAIN wire : Looks(wire[i])) /\ ~Looks(Head(wire))
              => \E i \in DOMAIN wire' : Looks(wire'[i])
<1>1. /\ wire' \in Seq(S) /\ Len(wire') = Len(wire) - 1 /\ Len(wire) \in Nat
      /\ \A i \in 1 .. Len(wire') : wire'[i] = wire[i + 1]
      /\ Head(wire) = wire[1] /\ DOMAIN wire = 1 .. Len(wire) /\ DOMAIN wire' = 1 .. Len(wire')
  OBVIOUS
<1>2. ASSUME NEW i \in DOMAIN wire, Looks(wire[i]), ~Looks(Head(wire))
      PROVE  \E j \in DOMAIN wire' : Looks(wire'[j])
  <2>1. i # 1
    BY <1>1, <1>2
  <2>2. i - 1 \in DOMAIN wire' /\ wire'[i - 1] = wire[i]
    BY <1>1, <1>2, <2>1
  <2> QED
    BY <1>2, <2>2
<1> QED
  BY <1>1, <1>2

LEMMA SequenceInit == Init => SequenceInv
<1> SUFFICES ASSUME Init PROVE SequenceInv
  OBVIOUS
<1>1. wire \in Seq({})
  BY DEF Init
<1> QED
  BY <1>1 DEF Init, SequenceInv, LookComing

LEMMA SequenceStep == SequenceInv /\ [Next]_vars => SequenceInv'
<1> SUFFICES ASSUME SequenceInv, [Next]_vars PROVE SequenceInv'
  OBVIOUS
<1> PICK S : wire \in Seq(S)
  BY DEF SequenceInv
<1>1. ASSUME NEW d \in Domains, Change(d) PROVE SequenceInv'
  <2>1. epoch' = epoch + 2 /\ UNCHANGED <<ui, task, shm, wire, lastSeq>>
    BY <1>1 DEF Change, Send, writer, page
  <2> QED
    BY <2>1 DEF SequenceInv, LookComing
<1>2. CASE AnswerRequest \/ SendAck \/ Resend
  <2>1. epoch' \in {epoch, epoch + 2} /\ UNCHANGED <<ui, task, shm, wire, lastSeq>>
    BY <1>2 DEF AnswerRequest, TakeRequest, SendAck, Resend, Send, writer, page
  <2>2. CASE epoch' = epoch
    BY <2>1, <2>2 DEF SequenceInv, LookComing
  <2>3. CASE epoch' = epoch + 2
    BY <2>1, <2>3 DEF SequenceInv, LookComing
  <2> QED
    BY <2>1, <2>2, <2>3
<1>3. ASSUME NEW id \in Ids, Mutation(id) PROVE SequenceInv'
  <2>1. epoch' \in {epoch, epoch + 2} /\ UNCHANGED <<ui, task, shm, wire, lastSeq>>
    BY <1>3 DEF Mutation, Mutate, MutateNothing, TakeRequest, Send, writer
  <2>2. CASE epoch' = epoch
    BY <2>1, <2>2 DEF SequenceInv, LookComing
  <2>3. CASE epoch' = epoch + 2
    BY <2>1, <2>3 DEF SequenceInv, LookComing
  <2> QED
    BY <2>1, <2>2, <2>3
<1>4. CASE TakePending
  <2>1. /\ task'.epoch = epoch /\ ui = "idle" /\ ui' \in {"publish", "apply"}
        /\ UNCHANGED <<epoch, shm, wire, lastSeq>>
    BY <1>4 DEF TakePending, compositor, page
  <2> QED
    BY <2>1 DEF SequenceInv, LookComing
<1>5. CASE BeginPublish
  <2>1. /\ ui = "publish" /\ ui' = "end" /\ UNCHANGED <<epoch, task, wire, lastSeq>>
        /\ shm' = [shm EXCEPT !.seq = task.epoch - 1]
    BY <1>5 DEF BeginPublish, compositor, page
  <2>2. task.epoch - 1 \in Nat
    BY <2>1 DEF SequenceInv
  <2> QED
    BY <2>1, <2>2 DEF SequenceInv, LookComing
<1>6. CASE EndPublish
  <2> DEFINE message == [type |-> "notify", details |-> {}, acks |-> <<>>]
  <2>1. /\ ui = "end" /\ ui' = "apply" /\ UNCHANGED <<epoch, task, lastSeq>>
        /\ shm'.seq = task.epoch /\ DOMAIN shm' = {"seq", "flags", "revisions", "values"}
        /\ wire' = Append(wire, message)
    BY <1>6 DEF EndPublish, compositor, page
  <2>2. Looks(message)
    BY DEF Looks
  <2>3. wire' \in Seq(S \cup {message}) /\ LookComing'
    BY <2>1, <2>2, SentLooks DEF LookComing
  <2> QED
    BY <2>1, <2>3 DEF SequenceInv
<1>7. CASE ApplyDetails
  <2> DEFINE message == [type |-> "batch", details |-> task.details, acks |-> task.acks]
  <2>1. /\ ui = "apply" /\ ui' = "idle" /\ UNCHANGED <<epoch, shm, lastSeq>>
        /\ wire' = Append(wire, message)
    BY <1>7 DEF ApplyDetails, compositor, page
  <2>2. wire' \in Seq(S \cup {message}) /\ (LookComing => LookComing')
    BY <2>1, SentLooks DEF LookComing
  <2> QED
    BY <2>1, <2>2 DEF SequenceInv
<1>8. CASE SyncOnNotify \/ SyncOnBatch
  <2>1. lastSeq' = shm.seq /\ UNCHANGED <<epoch, ui, task, shm>>
    BY <1>8 DEF SyncOnNotify, SyncOnBatch, Read, compositor, writer
  <2>2. wire' \in Seq(S)
    BY <1>8, ReceivedLooks DEF SyncOnNotify, SyncOnBatch, Receive
  <2> QED
    BY <2>1, <2>2 DEF SequenceInv
<1>9. CASE IgnoreNotify \/ WakeOnBatch
  <2>1. UNCHANGED <<epoch, ui, task, shm, lastSeq>>
    BY <1>9 DEF IgnoreNotify, WakeOnBatch, compositor, writer, page
  <2>2. wire # <<>> /\ wire' = Tail(wire) /\ (Looks(Head(wire)) => ~Readable)
    BY <1>9 DEF IgnoreNotify, WakeOnBatch, Receive, Looks
  <2>3. wire' \in Seq(S) /\ (LookComing /\ ~Looks(Head(wire)) => LookComing')
    BY <2>1, <2>2, ReceivedLooks DEF LookComing
  <2>4. lastSeq # shm.seq /\ ~Readable => ui = "end"
    BY DEF Readable, SequenceInv
  <2>5. lastSeq # shm.seq => LookComing'
    BY <2>1, <2>2, <2>3, <2>4 DEF LookComing, SequenceInv
  <2> QED
    BY <2>1, <2>3, <2>5 DEF SequenceInv
<1>10. CASE SendMutation \/ TimePasses
  <2>1. UNCHANGED <<epoch, ui, task, shm, wire, lastSeq>>
    BY <1>10 DEF SendMutation, TimePasses, compositor, writer
  <2> QED
    BY <2>1 DEF SequenceInv, LookComing
<1>11. CASE UNCHANGED vars
  BY <1>11 DEF vars, compositor, writer, page, SequenceInv, LookComing
<1> QED
  BY <1>1, <1>2, <1>3, <1>4, <1>5, <1>6, <1>7, <1>8, <1>9, <1>10, <1>11
  DEF Next, Compositor, Answer, UiTask, Page

(* Once everything was handled the page has read the last snapshot,        *)
(* although a read that meets the writer's odd sequence reads nothing:     *)
(* the batch that follows the write makes the page look again.             *)
THEOREM SnapshotRead == Spec => []LastSnapshotRead
<1>1. SequenceInv => LastSnapshotRead
  BY DEF SequenceInv, LookComing, LastSnapshotRead, Quiet
<1> QED
  BY SequenceInit, SequenceStep, <1>1, PTL DEF Spec

(***************************************************************************)
(* What the page does with its mutations.                                  *)
(***************************************************************************)

\* Messages are in order as they were, and any new ones ask for a recovery; a
\* recovery that was owed still is; and who waits, waited before.
Later(c, d) ==
  /\ Len(c.uplink) <= Len(d.uplink)
  /\ \A i \in 1 .. Len(c.uplink) : d.uplink[i] = c.uplink[i]
  /\ \A i \in Len(c.uplink) + 1 .. Len(d.uplink) : d.uplink[i] = Sync
  /\ Owed(c) => Owed(d)
  /\ \A m \in d.pending : \E n \in c.pending : n.id = m.id /\ (m.epoch = 0 => n.epoch = 0)

LEMMA LaterSame ==
  ASSUME NEW c \in Clients, NEW d \in Clients, d.uplink = c.uplink, Owed(c) => Owed(d),
         d.pending \subseteq c.pending
  PROVE  Later(c, d)
<1>1. Len(c.uplink) \in Nat /\ c.uplink \in Seq(Ids \cup {Sync})
  BY DEF Clients
<1> QED
  BY <1>1 DEF Later

LEMMA LaterTransitive ==
  ASSUME NEW c \in Clients, NEW d \in Clients, NEW e \in Clients, Later(c, d), Later(d, e)
  PROVE  Later(c, e)
<1>1. Len(c.uplink) \in Nat /\ Len(d.uplink) \in Nat /\ Len(e.uplink) \in Nat
  BY DEF Clients
<1>2. /\ Len(c.uplink) <= Len(e.uplink)
      /\ \A i \in 1 .. Len(c.uplink) : e.uplink[i] = c.uplink[i]
      /\ \A i \in Len(c.uplink) + 1 .. Len(e.uplink) : e.uplink[i] = Sync
  BY <1>1 DEF Later
<1>3. \A m \in e.pending : \E n \in c.pending : n.id = m.id /\ (m.epoch = 0 => n.epoch = 0)
  <2> TAKE m \in e.pending
  <2>1. PICK n \in d.pending : n.id = m.id /\ (m.epoch = 0 => n.epoch = 0)
    BY DEF Later
  <2>2. PICK o \in c.pending : o.id = n.id /\ (n.epoch = 0 => o.epoch = 0)
    BY DEF Later
  <2> QED
    BY <2>1, <2>2
<1> QED
  BY <1>2, <1>3 DEF Later

LEMMA AskGives ==
  ASSUME NEW c \in Clients
  PROVE  /\ Ask(c) \in Clients /\ Ask(c).pending = c.pending /\ Ask(c).deferred = c.deferred
         /\ Later(c, Ask(c)) /\ Owed(Ask(c))
<1>1. c.uplink \in Seq(Ids \cup {Sync}) /\ Len(c.uplink) \in Nat
  BY DEF Clients
<1>2. CASE ~c.recent
  <2> DEFINE d == [c EXCEPT !.uplink = Append(@, Sync), !.recent = TRUE]
  <2>1. /\ d \in Clients /\ d.pending = c.pending /\ d.deferred = c.deferred
        /\ d.uplink = Append(c.uplink, Sync)
    <3>1. Append(c.uplink, Sync) \in Seq(Ids \cup {Sync})
      BY <1>1
    <3> QED
      BY <3>1 DEF Clients
  <2>2. Ask(c) = d
    BY <1>2 DEF Ask
  <2> HIDE DEF d
  <2>3. /\ Len(d.uplink) = Len(c.uplink) + 1 /\ d.uplink[Len(c.uplink) + 1] = Sync
        /\ \A i \in 1 .. Len(c.uplink) : d.uplink[i] = c.uplink[i]
        /\ Len(c.uplink) + 1 \in DOMAIN d.uplink
    BY <1>1, <2>1
  <2>4. Owed(d)
    BY <2>3 DEF Owed, Elements
  <2>5. Later(c, d)
    BY <1>1, <2>1, <2>3, <2>4 DEF Later
  <2> QED
    BY <2>1, <2>2, <2>4, <2>5
<1>3. CASE c.recent
  <2> DEFINE d == [c EXCEPT !.throttled = @ \/ Sync \notin Elements(c.uplink)]
  <2>1. /\ d \in Clients /\ d.pending = c.pending /\ d.deferred = c.deferred
        /\ d.uplink = c.uplink /\ d.throttled = (c.throttled \/ Sync \notin Elements(c.uplink))
    BY DEF Clients
  <2>2. Ask(c) = d
    BY <1>3 DEF Ask
  <2> HIDE DEF d
  <2>3. Owed(d)
    BY <2>1 DEF Owed
  <2> QED
    BY <2>1, <2>2, <2>3, LaterSame
<1> QED
  BY <1>2, <1>3

LEMMA RequestGives ==
  ASSUME NEW c \in Clients, Sole(c), NEW seq
  PROVE  LET r == RequestRecovery(c, seq)
         IN  /\ Sound(r) /\ Later(c, r) /\ Owed(r)
             /\ r.pending = Waiting(c.pending, seq) /\ r.pending \subseteq c.pending
<1> DEFINE waiting == Waiting(c.pending, seq)
           now     == [c EXCEPT !.pending = waiting, !.deferred = waiting # {}]
<1>1. waiting \subseteq c.pending
  BY DEF Waiting
<1>2. /\ now \in Clients /\ now.pending = waiting /\ now.deferred = (waiting # {})
      /\ now.uplink = c.uplink /\ now.throttled = c.throttled
  BY <1>1 DEF Clients
<1>3. RequestRecovery(c, seq) = IF now.deferred THEN now ELSE Ask(now)
  BY DEF RequestRecovery
<1> HIDE DEF now
<1>4. CASE now.deferred
  <2>1. Owed(now) /\ Sound(now)
    BY <1>1, <1>2, <1>4 DEF Owed, Sound, Sole
  <2> QED
    BY <1>1, <1>2, <1>3, <1>4, <2>1, LaterSame
<1>5. CASE ~now.deferred
  <2>1. c.pending \in SUBSET c.pending /\ waiting = {}
    BY <1>2, <1>5
  <2> DEFINE asked == Ask(now)
  <2>2. /\ asked \in Clients /\ asked.pending = {} /\ ~asked.deferred
        /\ Later(now, asked) /\ Owed(asked)
    BY <1>2, <1>5, <2>1, AskGives
  <2>3. RequestRecovery(c, seq) = asked
    BY <1>3, <1>5
  <2> HIDE DEF asked
  <2>4. Sound(asked)
    BY <2>2 DEF Sound, Sole
  <2>5. Later(c, asked)
    BY <1>2, <2>1, <2>2 DEF Later
  <2> QED
    BY <1>1, <2>1, <2>2, <2>3, <2>4, <2>5
<1> QED
  BY <1>4, <1>5

LEMMA FlushGives ==
  ASSUME NEW c \in Clients, Sole(c), NEW seq
  PROVE  LET f == FlushDeferred(c, seq)
         IN  Sound(f) /\ Later(c, f) /\ f.pending \subseteq c.pending
<1>1. CASE c.deferred /\ c.pending = {}
  <2>1. FlushDeferred(c, seq) = RequestRecovery(c, seq)
    BY <1>1 DEF FlushDeferred
  <2> QED
    BY <2>1, RequestGives
<1>2. CASE ~(c.deferred /\ c.pending = {})
  <2>1. FlushDeferred(c, seq) = c
    BY <1>2 DEF FlushDeferred
  <2>2. Sound(c)
    BY <1>2 DEF Sound
  <2> QED
    BY <2>1, <2>2, LaterSame
<1> QED
  BY <1>1, <1>2

LEMMA ReconcileGives ==
  ASSUME NEW c \in Clients, Sole(c), NEW seq
  PROVE  LET r == Reconcile(c, seq)
         IN  Sound(r) /\ Later(c, r) /\ r.pending \subseteq Waiting(c.pending, seq)
<1> DEFINE d == [c EXCEPT !.pending = Waiting(@, seq)]
<1>1. Waiting(c.pending, seq) \subseteq c.pending
  BY DEF Waiting
<1>2. /\ d \in Clients /\ d.pending = Waiting(c.pending, seq) /\ d.deferred = c.deferred
      /\ d.uplink = c.uplink /\ d.throttled = c.throttled
  BY <1>1 DEF Clients
<1>3. Reconcile(c, seq) = FlushDeferred(d, seq)
  BY DEF Reconcile
<1> HIDE DEF d
<1>4. Sole(d) /\ Later(c, d)
  BY <1>1, <1>2, LaterSame DEF Sole, Owed
<1> DEFINE f == FlushDeferred(d, seq)
<1>5. Sound(f) /\ Later(d, f) /\ f.pending \subseteq d.pending
  BY <1>2, <1>4, FlushGives
<1>6. Reconcile(c, seq) = f
  BY <1>3
<1> HIDE DEF f
<1>7. f \in Clients
  BY <1>5 DEF Sound
<1>8. Later(c, f)
  BY <1>2, <1>4, <1>5, <1>7, LaterTransitive
<1> QED
  BY <1>2, <1>5, <1>6, <1>8

\* An acknowledgement ends the wait for it.
LEMMA HandleAckGives ==
  ASSUME NEW c, Sound(c), NEW ack \in Acks, NEW seq \in Nat, NEW last \in Nat,
         Awaits(c, seq, last), 0 < ack.epoch, ack.epoch <= last
  PROVE  LET h == HandleAck(c, ack, seq)
         IN  /\ Sound(h) /\ Later(c, h) /\ Awaits(h, seq, last)
             /\ \A m \in h.pending : m.epoch = 0 => m.id # ack.id
<1> DEFINE mine == {m \in c.pending : m.id = ack.id}
           without == Without(c, ack.id)
           flushed == FlushDeferred(without, seq)
           asked   == RequestRecovery(flushed, seq)
<1>1. c \in Clients /\ Sole(c) /\ (c.deferred => c.pending # {}) /\ mine \subseteq c.pending
  BY DEF Sound
<1>2. /\ without \in Clients /\ without.pending = {m \in c.pending : m.id # ack.id}
      /\ without.uplink = c.uplink /\ without.deferred = c.deferred
      /\ without.throttled = c.throttled
  BY <1>1 DEF Without, Clients
<1> HIDE DEF without
<1>3. Sole(without) /\ Later(c, without)
  BY <1>1, <1>2, LaterSame DEF Sole, Owed
<1>4. Sound(flushed) /\ Later(without, flushed) /\ flushed.pending \subseteq without.pending
  BY <1>2, <1>3, FlushGives
<1> HIDE DEF flushed
<1>5. flushed \in Clients /\ Sole(flushed)
  BY <1>4 DEF Sound
<1>6. Later(c, flushed)
  BY <1>1, <1>2, <1>3, <1>4, <1>5, LaterTransitive
<1>7. Sound(asked) /\ Later(flushed, asked) /\ asked.pending \subseteq flushed.pending
  BY <1>5, RequestGives
<1> HIDE DEF asked
<1>8. asked \in Clients
  BY <1>7 DEF Sound
<1>9. Later(c, asked)
  BY <1>1, <1>5, <1>6, <1>7, <1>8, LaterTransitive
<1>10. CASE ack.accepted /\ mine # {} /\ ack.epoch > seq
  <2> DEFINE told == {[m EXCEPT !.epoch = ack.epoch] : m \in mine}
             d    == [c EXCEPT !.pending = (@ \ mine) \cup told]
  <2>1. HandleAck(c, ack, seq) = d
    BY <1>10 DEF HandleAck
  <2>2. ack.epoch \in Nat /\ ack.epoch # 0
    BY DEF Acks
  <2>3. ASSUME NEW m \in told
        PROVE  /\ m \in [id : Ids, epoch : Nat, old : BOOLEAN]
               /\ m.id = ack.id /\ m.epoch = ack.epoch
               /\ \E n \in mine : n.id = ack.id /\ m = [n EXCEPT !.epoch = ack.epoch]
    <3>1. PICK n \in mine : m = [n EXCEPT !.epoch = ack.epoch]
      OBVIOUS
    <3>2. n \in [id : Ids, epoch : Nat, old : BOOLEAN] /\ n.id = ack.id
      BY <1>1 DEF Clients
    <3>3. m \in [id : Ids, epoch : Nat, old : BOOLEAN] /\ m.id = n.id /\ m.epoch = ack.epoch
      BY <2>2, <3>1, <3>2
    <3> QED
      BY <3>1, <3>2, <3>3
  <2>4. told # {}
    BY <1>10
  <2>5. \A m, n \in told : m = n
    <3> TAKE m \in told, n \in told
    <3>1. PICK a \in mine : a.id = ack.id /\ m = [a EXCEPT !.epoch = ack.epoch]
      BY <2>3
    <3>2. PICK b \in mine : b.id = ack.id /\ n = [b EXCEPT !.epoch = ack.epoch]
      BY <2>3
    <3>3. a = b
      BY <1>1, <3>1, <3>2 DEF Sole
    <3> QED
      BY <3>1, <3>2, <3>3
  <2> HIDE DEF told
  <2>6. /\ d \in Clients /\ d.pending = (c.pending \ mine) \cup told /\ d.deferred = c.deferred
        /\ d.uplink = c.uplink /\ d.throttled = c.throttled
    <3>1. c.pending \subseteq [id : Ids, epoch : Nat, old : BOOLEAN]
      BY <1>1 DEF Clients
    <3>2. (c.pending \ mine) \cup told \subseteq [id : Ids, epoch : Nat, old : BOOLEAN]
      BY <2>3, <3>1
    <3> QED
      BY <1>1, <3>2 DEF Clients
  <2> HIDE DEF d
  <2>7. Sole(d)
    BY <1>1, <2>3, <2>5, <2>6 DEF Sole
  <2>8. Sound(d)
    BY <2>4, <2>6, <2>7 DEF Sound
  <2>9. Later(c, d)
    <3>1. \A m \in d.pending : \E n \in c.pending : n.id = m.id /\ (m.epoch = 0 => n.epoch = 0)
      BY <2>2, <2>3, <2>6
    <3>2. Len(c.uplink) \in Nat
      BY <1>1 DEF Clients
    <3> QED
      BY <2>6, <3>1, <3>2 DEF Later, Owed
  <2>10. Awaits(d, seq, last)
    BY <1>10, <2>3, <2>6 DEF Awaits
  <2>11. \A m \in d.pending : m.epoch = 0 => m.id # ack.id
    BY <2>2, <2>3, <2>6
  <2> QED
    BY <2>1, <2>8, <2>9, <2>10, <2>11
<1>11. CASE ack.accepted /\ ~(mine # {} /\ ack.epoch > seq)
  <2>1. HandleAck(c, ack, seq) = flushed
    BY <1>11 DEF HandleAck, flushed, without
  <2> QED
    BY <1>2, <1>4, <1>6, <2>1 DEF Awaits
<1>12. CASE ~ack.accepted
  <2>1. HandleAck(c, ack, seq) = asked
    BY <1>12 DEF HandleAck, asked, flushed, without
  <2> QED
    BY <1>2, <1>4, <1>7, <1>9, <2>1 DEF Awaits
<1> QED
  BY <1>10, <1>11, <1>12 DEF Acks

LEMMA Least ==
  ASSUME NEW S \in SUBSET Nat, S # {}
  PROVE  \E n \in S : \A i \in S : n <= i
<1> DEFINE R == OpToRel(<, Nat)
<1>1. IsWellFoundedOn(R, Nat)
  BY NatLessThanWellFounded
<1>2. PICK n \in S : \A i \in S : <<i, n>> \notin R
  <2> HIDE DEF R
  <2> QED
    BY <1>1, WFMin
<1>3. \A i \in S : ~(i < n)
  BY <1>2 DEF OpToRel
<1> QED
  BY <1>3

LEMMA TailFacts ==
  ASSUME NEW T, NEW q \in Seq(T), q # <<>>
  PROVE  /\ 1 \in DOMAIN q /\ Head(q) = q[1] /\ Head(q) \in T
         /\ Tail(q) \in Seq(T) /\ DOMAIN q = 1 .. Len(q) /\ Len(q) \in Nat
         /\ DOMAIN Tail(q) = 1 .. Len(q) - 1 /\ Len(Tail(q)) = Len(q) - 1
         /\ \A i \in DOMAIN Tail(q) : i + 1 \in DOMAIN q /\ Tail(q)[i] = q[i + 1]
OBVIOUS

LEMMA AppendFacts ==
  ASSUME NEW T, NEW q \in Seq(T), NEW x \in T
  PROVE  /\ Append(q, x) \in Seq(T) /\ DOMAIN q = 1 .. Len(q) /\ Len(q) \in Nat
         /\ DOMAIN Append(q, x) = 1 .. Len(q) + 1 /\ Len(Append(q, x)) = Len(q) + 1
         /\ Append(q, x)[Len(q) + 1] = x
         /\ \A i \in DOMAIN q : Append(q, x)[i] = q[i]
OBVIOUS

\* What is in a sequence that lost its head, or got another member.
LEMMA ElementsOf ==
  ASSUME NEW T, NEW q \in Seq(T)
  PROVE  /\ q # <<>> => Elements(q) = {Head(q)} \cup Elements(Tail(q))
         /\ \A x \in T : Elements(Append(q, x)) = Elements(q) \cup {x}
         /\ Elements(q) \subseteq T
<1>1. ASSUME q # <<>> PROVE Elements(q) = {Head(q)} \cup Elements(Tail(q))
  <2> DEFINE t == Tail(q)
  <2>0. /\ 1 \in DOMAIN q /\ Head(q) = q[1] /\ DOMAIN q = 1 .. Len(q) /\ Len(q) \in Nat
        /\ DOMAIN t = 1 .. Len(q) - 1 /\ \A i \in DOMAIN t : i + 1 \in DOMAIN q /\ t[i] = q[i + 1]
    BY <1>1, TailFacts
  <2> HIDE DEF t
  <2>1. ASSUME NEW i \in DOMAIN q, i # 1 PROVE i - 1 \in DOMAIN t /\ t[i - 1] = q[i]
    BY <2>0, <2>1
  <2>2. ASSUME NEW x \in Elements(q) PROVE x = Head(q) \/ x \in Elements(t)
    <3>1. PICK i \in DOMAIN q : q[i] = x
      BY DEF Elements
    <3> QED
      BY <2>0, <2>1, <3>1 DEF Elements
  <2>3. {Head(q)} \cup Elements(t) \subseteq Elements(q)
    BY <2>0 DEF Elements
  <2> QED
    BY <2>2, <2>3 DEF t
<1>2. ASSUME NEW x \in T PROVE Elements(Append(q, x)) = Elements(q) \cup {x}
  <2>1. ASSUME NEW i \in DOMAIN Append(q, x)
        PROVE  (i \in DOMAIN q /\ Append(q, x)[i] = q[i]) \/ Append(q, x)[i] = x
    BY AppendFacts
  <2>2. Elements(Append(q, x)) \subseteq Elements(q) \cup {x}
    BY <2>1 DEF Elements
  <2>3. Elements(q) \cup {x} \subseteq Elements(Append(q, x))
    BY AppendFacts DEF Elements
  <2> QED
    BY <2>2, <2>3
<1>3. Elements(q) \subseteq T
  BY DEF Elements
<1> QED
  BY <1>1, <1>2, <1>3

\* The states of the client while a list of acknowledgements is handled.
Run(f, c, list, seq, n) ==
  f = [i \in 0 .. n |-> IF i = 0 THEN c ELSE HandleAck(f[i - 1], list[i], seq)]

LEMMA HandleAcksRun ==
  ASSUME NEW c, NEW list, NEW seq
  PROVE  HandleAcks(c, list, seq) = (CHOOSE f : Run(f, c, list, seq, Len(list)))[Len(list)]
BY DEF HandleAcks, Run

\* There is such a run: otherwise there would be a least length without one.
LEMMA RunExists ==
  ASSUME NEW c, NEW list, NEW seq, NEW n \in Nat
  PROVE  \E f : Run(f, c, list, seq, n)
<1> DEFINE Bad == {k \in Nat : ~ \E f : Run(f, c, list, seq, k)}
<1>1. Run([i \in 0 .. 0 |-> c], c, list, seq, 0)
  BY DEF Run
<1>2. ASSUME NEW k \in Nat, NEW f, Run(f, c, list, seq, k)
      PROVE  \E g : Run(g, c, list, seq, k + 1)
  <2> DEFINE g == [i \in 0 .. k + 1 |-> IF i <= k THEN f[i] ELSE HandleAck(f[k], list[k + 1], seq)]
  <2>1. \A i \in 0 .. k : f[i] = IF i = 0 THEN c ELSE HandleAck(f[i - 1], list[i], seq)
    BY <1>2 DEF Run
  <2>2. ASSUME NEW i \in 0 .. k + 1
        PROVE  g[i] = IF i = 0 THEN c ELSE HandleAck(g[i - 1], list[i], seq)
    <3>1. CASE i <= k
      BY <2>1, <3>1
    <3>2. CASE i = k + 1
      BY <3>2
    <3> QED
      BY <3>1, <3>2
  <2>3. g = [i \in 0 .. k + 1 |-> g[i]]
    OBVIOUS
  <2> HIDE DEF g
  <2>4. Run(g, c, list, seq, k + 1)
    BY <2>2, <2>3 DEF Run
  <2> QED
    BY <2>4
<1>3. 0 \notin Bad /\ \A k \in Nat : k + 1 \in Bad => k \in Bad
  BY <1>1, <1>2
<1>4. Bad \subseteq Nat
  OBVIOUS
<1> HIDE DEF Bad
<1>5. Bad = {}
  <2> SUFFICES ASSUME Bad # {} PROVE FALSE
    OBVIOUS
  <2>1. PICK k \in Bad : \A j \in Bad : k <= j
    BY <1>4, Least
  <2>2. k # 0 /\ k \in Nat
    BY <1>3, <1>4, <2>1
  <2>3. k - 1 \in Nat /\ (k - 1) + 1 = k
    BY <2>2
  <2> QED
    BY <1>3, <2>1, <2>2, <2>3
<1> QED
  BY <1>5 DEF Bad

\* What each acknowledgement leads from one set of clients to the next, all lead
\* from the first to the last.
LEMMA HandleAcksLead ==
  ASSUME NEW c, NEW list, Len(list) \in Nat, NEW seq, NEW Within, c \in Within[0],
         \A n \in 1 .. Len(list) : \A x \in Within[n - 1] : HandleAck(x, list[n], seq) \in Within[n]
  PROVE  HandleAcks(c, list, seq) \in Within[Len(list)]
<1> DEFINE N == Len(list)
<1>1. PICK f : Run(f, c, list, seq, N) /\ HandleAcks(c, list, seq) = f[N]
  BY RunExists, HandleAcksRun
<1> HIDE DEF N
<1>2. N \in Nat
  BY DEF N
<1>3. \A i \in 0 .. N : f[i] = IF i = 0 THEN c ELSE HandleAck(f[i - 1], list[i], seq)
  BY <1>1 DEF Run
<1> DEFINE Bad == {i \in 0 .. N : f[i] \notin Within[i]}
<1>4. 0 \notin Bad
  BY <1>2, <1>3
<1>5. ASSUME NEW i \in Bad PROVE i - 1 \in Bad
  <2>1. i \in 1 .. N /\ f[i] \notin Within[i]
    BY <1>2, <1>4
  <2>2. f[i] = HandleAck(f[i - 1], list[i], seq)
    BY <1>2, <1>3, <2>1
  <2>3. f[i - 1] \notin Within[i - 1]
    BY <2>1, <2>2 DEF N
  <2> QED
    BY <1>2, <2>1, <2>3
<1>6. Bad \in SUBSET Nat
  BY <1>2
<1> HIDE DEF Bad
<1>7. Bad = {}
  <2> SUFFICES ASSUME Bad # {} PROVE FALSE
    OBVIOUS
  <2>1. PICK k \in Bad : \A j \in Bad : k <= j
    BY <1>6, Least
  <2> QED
    BY <1>5, <1>6, <2>1
<1> QED
  BY <1>1, <1>2, <1>7 DEF Bad, N

\* After a list of acknowledgements nobody waits for any of them.
LEMMA HandleAcksGive ==
  ASSUME NEW c, Sound(c), NEW list \in Seq(Acks), NEW seq \in Nat, NEW last \in Nat,
         Awaits(c, seq, last),
         \A i \in DOMAIN list : 0 < list[i].epoch /\ list[i].epoch <= last
  PROVE  LET h == HandleAcks(c, list, seq)
         IN  /\ Sound(h) /\ Later(c, h) /\ Awaits(h, seq, last)
             /\ \A ack \in Elements(list) : \A m \in h.pending : m.epoch = 0 => m.id # ack.id
<1> DEFINE After(n, x) ==
             /\ Sound(x) /\ Later(c, x) /\ Awaits(x, seq, last)
             /\ \A i \in 1 .. n : \A m \in x.pending : m.epoch = 0 => m.id # list[i].id
           Within == [n \in 0 .. Len(list) |-> {x \in Clients : After(n, x)}]
<1>1. Len(list) \in Nat /\ DOMAIN list = 1 .. Len(list) /\ \A i \in 1 .. Len(list) : list[i] \in Acks
  OBVIOUS
<1>2. c \in Clients /\ Later(c, c)
  BY LaterSame DEF Sound
<1>3. c \in Within[0]
  BY <1>1, <1>2
<1>4. ASSUME NEW n \in 1 .. Len(list), NEW x \in Within[n - 1]
      PROVE  HandleAck(x, list[n], seq) \in Within[n]
  <2> DEFINE h == HandleAck(x, list[n], seq)
  <2>1. n - 1 \in 0 .. Len(list) /\ n \in 0 .. Len(list) /\ x \in Clients /\ After(n - 1, x)
    BY <1>1
  <2>2. list[n] \in Acks /\ 0 < list[n].epoch /\ list[n].epoch <= last
    BY <1>1
  <2>3. /\ Sound(h) /\ Later(x, h) /\ Awaits(h, seq, last)
        /\ \A m \in h.pending : m.epoch = 0 => m.id # list[n].id
    BY <2>1, <2>2, HandleAckGives
  <2> HIDE DEF h
  <2>4. h \in Clients
    BY <2>3 DEF Sound
  <2>5. Later(c, h)
    BY <1>2, <2>1, <2>3, <2>4, LaterTransitive
  <2>6. ASSUME NEW i \in 1 .. n, NEW m \in h.pending, m.epoch = 0 PROVE m.id # list[i].id
    <3>1. CASE i = n
      BY <2>3, <2>6, <3>1
    <3>2. CASE i # n
      <4>1. PICK o \in x.pending : o.id = m.id /\ o.epoch = 0
        BY <2>3, <2>6 DEF Later
      <4>2. i \in 1 .. n - 1
        BY <1>1, <3>2
      <4> QED
        BY <2>1, <4>1, <4>2
    <3> QED
      BY <3>1, <3>2
  <2>7. After(n, h)
    BY <2>3, <2>5, <2>6
  <2> HIDE DEF After
  <2> QED
    BY <2>1, <2>4, <2>7 DEF h
<1> DEFINE h == HandleAcks(c, list, seq)
<1>5. h \in Within[Len(list)]
  <2> HIDE DEF Within
  <2> QED
    BY <1>1, <1>3, <1>4, HandleAcksLead
<1> HIDE DEF h
<1>6. After(Len(list), h)
  BY <1>1, <1>5
<1> QED
  BY <1>1, <1>6 DEF h, Elements

LEMMA SyncedGives ==
  ASSUME Sound(client), NEW last \in Nat, Awaits(client, lastSeq, last)
  PROVE  LET s == Synced(client)
         IN  /\ Sound(s) /\ Later(client, s) /\ Awaits(s, shm.seq, last)
             /\ MissedContents => Owed(s)
<1> DEFINE checked == IF MissedContents THEN RequestRecovery(client, lastSeq) ELSE client
           settled == Reconcile(checked, shm.seq)
           s       == Synced(client)
<1>1. client \in Clients /\ Sole(client)
  BY DEF Sound
<1>2. /\ Sound(checked) /\ Later(client, checked) /\ checked.pending \subseteq client.pending
      /\ MissedContents => Owed(checked)
  BY <1>1, RequestGives, LaterSame
<1>3. s = IF Windows \in shm.flags THEN [settled EXCEPT !.recent = FALSE] ELSE settled
  BY DEF Synced
<1> HIDE DEF checked
<1>4. checked \in Clients /\ Sole(checked)
  BY <1>2 DEF Sound
<1>5. Sound(settled) /\ Later(checked, settled) /\ settled.pending \subseteq Waiting(checked.pending, shm.seq)
  BY <1>4, ReconcileGives
<1> HIDE DEF settled
<1>6. settled \in Clients
  BY <1>5 DEF Sound
<1>7. /\ s \in Clients /\ s.pending = settled.pending /\ s.uplink = settled.uplink
      /\ s.deferred = settled.deferred /\ s.throttled = settled.throttled
  BY <1>3, <1>6 DEF Clients
<1> HIDE DEF s
<1>8. Sound(s)
  BY <1>5, <1>7 DEF Sound, Sole
<1>9. Later(settled, s)
  BY <1>6, <1>7, LaterSame DEF Owed
<1>10. Later(client, s)
  BY <1>1, <1>2, <1>4, <1>5, <1>6, <1>7, <1>9, LaterTransitive
<1>11. Awaits(s, shm.seq, last)
  BY <1>2, <1>5, <1>7 DEF Awaits, Waiting
<1>12. MissedContents => Owed(s)
  BY <1>2, <1>5, <1>9 DEF Later
<1> QED
  BY <1>8, <1>10, <1>11, <1>12 DEF s

\* The types that the client's steps need.
LEMMA PageGives ==
  ASSUME TypeInv, AckInv, Page
  PROVE  /\ wire # <<>> /\ wire' = Tail(wire) /\ UNCHANGED <<compositor, queue, writer>>
         /\ Sound(client') /\ Later(client, client') /\ Awaits(client', lastSeq', epoch)
         /\ \A ack \in Elements(Head(wire).acks) :
              \A m \in client'.pending : m.epoch = 0 => m.id # ack.id
<1>1. wire # <<>> /\ wire' = Tail(wire) /\ UNCHANGED <<compositor, queue, writer>>
  BY DEF Page, SyncOnNotify, IgnoreNotify, SyncOnBatch, WakeOnBatch, Receive, Read
<1>2. /\ Head(wire) = wire[1] /\ 1 \in DOMAIN wire
      /\ Head(wire).acks \in Seq(Acks)
  <2>1. wire \in Seq(Wired)
    BY DEF TypeInv, TypeOK
  <2>2. Head(wire) = wire[1] /\ 1 \in DOMAIN wire /\ Head(wire) \in Wired
    BY <1>1, <2>1, TailFacts
  <2> QED
    BY <2>2 DEF Wired
<1>3. Sound(client) /\ client \in Clients /\ Awaits(client, lastSeq, epoch) /\ epoch \in Nat
      /\ lastSeq \in Nat /\ shm.seq \in Nat
  BY DEF AckInv, Sound, TypeInv, TypeOK
<1>4. \A i \in DOMAIN Head(wire).acks : 0 < Head(wire).acks[i].epoch /\ Head(wire).acks[i].epoch <= epoch
  BY <1>2 DEF AckInv, AllAcks, WireAcks, Elements
<1> DEFINE s == Synced(client)
<1>5. Sound(s) /\ Later(client, s) /\ Awaits(s, shm.seq, epoch)
  BY <1>3, SyncedGives
<1>6. CASE SyncOnNotify
  <2>1. client' = s /\ lastSeq' = shm.seq /\ Head(wire).type = "notify"
    BY <1>6 DEF SyncOnNotify, Read, Receive
  <2>2. Elements(Head(wire).acks) = {}
    BY <1>2, <2>1 DEF AckInv, Elements
  <2> HIDE DEF s
  <2> QED
    BY <1>1, <1>5, <2>1, <2>2
<1>7. CASE IgnoreNotify
  <2>1. client' = client /\ lastSeq' = lastSeq /\ Head(wire).type = "notify"
    BY <1>7 DEF IgnoreNotify, page, Receive
  <2>2. Elements(Head(wire).acks) = {}
    BY <1>2, <2>1 DEF AckInv, Elements
  <2>3. Later(client, client)
    BY <1>3, LaterSame
  <2> QED
    BY <1>1, <1>3, <2>1, <2>2, <2>3
<1>8. CASE SyncOnBatch
  <2> DEFINE list == Head(wire).acks
             h == HandleAcks(s, list, shm.seq)
  <2>1. client' = h /\ lastSeq' = shm.seq
    BY <1>8 DEF SyncOnBatch, Read
  <2>2. list \in Seq(Acks) /\ \A i \in DOMAIN list : 0 < list[i].epoch /\ list[i].epoch <= epoch
    BY <1>2, <1>4
  <2> HIDE DEF s, list
  <2>3. /\ Sound(h) /\ Later(s, h) /\ Awaits(h, shm.seq, epoch)
        /\ \A ack \in Elements(list) : \A m \in h.pending : m.epoch = 0 => m.id # ack.id
    BY <1>3, <1>5, <2>2, HandleAcksGive
  <2> HIDE DEF h
  <2>4. Later(client, h)
    BY <1>3, <1>5, <2>3, LaterTransitive DEF Sound
  <2> QED
    BY <1>1, <2>1, <2>3, <2>4 DEF list
<1>9. CASE WakeOnBatch
  <2> DEFINE list    == Head(wire).acks
             handled == HandleAcks(client, list, lastSeq)
             asked   == RequestRecovery(handled, lastSeq)
  <2>1. /\ client' = IF \E m \in Head(wire).details : BehindOrAhead(m) THEN asked ELSE handled
        /\ lastSeq' = lastSeq
    BY <1>9 DEF WakeOnBatch
  <2>2. list \in Seq(Acks) /\ \A i \in DOMAIN list : 0 < list[i].epoch /\ list[i].epoch <= epoch
    BY <1>2, <1>4
  <2> HIDE DEF list
  <2>3. /\ Sound(handled) /\ Later(client, handled) /\ Awaits(handled, lastSeq, epoch)
        /\ \A ack \in Elements(list) : \A m \in handled.pending : m.epoch = 0 => m.id # ack.id
    BY <1>3, <2>2, HandleAcksGive
  <2> HIDE DEF handled
  <2>4. /\ Sound(asked) /\ Later(handled, asked) /\ asked.pending \subseteq handled.pending
    BY <2>3, RequestGives DEF Sound
  <2> HIDE DEF asked
  <2>5. Later(client, asked)
    BY <1>3, <2>3, <2>4, LaterTransitive DEF Sound
  <2>6. /\ Awaits(asked, lastSeq, epoch)
        /\ \A ack \in Elements(list) : \A m \in asked.pending : m.epoch = 0 => m.id # ack.id
    BY <2>3, <2>4 DEF Awaits
  <2>7. client' = asked \/ client' = handled
    BY <2>1
  <2>8. CASE client' = asked
    BY <1>1, <2>1, <2>4, <2>5, <2>6, <2>8 DEF list
  <2>9. CASE client' = handled
    BY <1>1, <2>1, <2>3, <2>9 DEF list
  <2> QED
    BY <2>7, <2>8, <2>9
<1> QED
  BY <1>6, <1>7, <1>8, <1>9 DEF Page

(***************************************************************************)
(* Types, and how often the compositor's state can change.                 *)
(***************************************************************************)

LEMMA IdsFinite == IsFiniteSet(Ids) /\ Ids \subseteq Nat /\ Sync \notin Ids
<1>1. IsFiniteSet(1 .. MaxChanges)
  BY BoundsAssumption, FS_Interval
<1> QED
  BY <1>1, BoundsAssumption DEF Ids, Sync

LEMMA AskedFinite == IsFiniteSet(Asked) /\ Cardinality(Asked) \in Nat
<1>1. Asked \subseteq Ids
  BY DEF Asked
<1> QED
  BY <1>1, IdsFinite, FS_Subset, FS_CardinalityType

\* New requests for a recovery are not counted.
LEMMA CountSame ==
  ASSUME CountInv, client \in Clients, client' \in Clients, Later(client, client'),
         UNCHANGED <<truth, changes>>, changes \in Nat
  PROVE  CountInv'
<1> DEFINE u == client.uplink
           v == client.uplink'
           n == Len(u)
<1>1. u \in Seq(Ids \cup {Sync}) /\ v \in Seq(Ids \cup {Sync})
  BY DEF Clients
<1>2. /\ n \in Nat /\ Len(v) \in Nat /\ DOMAIN u = 1 .. n /\ DOMAIN v = 1 .. Len(v)
  BY <1>1
<1>3. /\ n <= Len(v) /\ \A i \in 1 .. n : v[i] = u[i]
      /\ \A i \in n + 1 .. Len(v) : v[i] = Sync
  BY DEF Later
<1>4. Asked' = Asked
  <2>1. Asked = {id \in Ids : \E i \in DOMAIN u : u[i] = id}
    BY DEF Asked, Elements
  <2>2. Asked' = {id \in Ids : \E i \in DOMAIN v : v[i] = id}
    BY DEF Asked, Elements
  <2> HIDE DEF u, v, n
  <2>3. \A i \in DOMAIN v : i \in 1 .. n \/ v[i] = Sync
    BY <1>2, <1>3
  <2>4. ASSUME NEW id \in Ids, NEW i \in DOMAIN v, v[i] = id PROVE i \in DOMAIN u /\ u[i] = id
    BY <1>2, <1>3, <2>3, <2>4, IdsFinite
  <2>5. ASSUME NEW id \in Ids, NEW i \in DOMAIN u, u[i] = id PROVE i \in DOMAIN v /\ v[i] = id
    BY <1>2, <1>3, <2>5
  <2> QED
    BY <2>1, <2>2, <2>4, <2>5
<1>5. /\ \A i, j \in DOMAIN v : v[i] = v[j] => i = j \/ v[i] = Sync
      /\ \A i \in DOMAIN v : v[i] <= changes
  <2>1. /\ \A i, j \in DOMAIN u : u[i] = u[j] => i = j \/ u[i] = Sync
        /\ \A i \in DOMAIN u : u[i] <= changes
    BY DEF CountInv
  <2> HIDE DEF u, v, n
  <2>2. \A i \in DOMAIN v : (i \in DOMAIN u /\ v[i] = u[i]) \/ v[i] = Sync
    BY <1>2, <1>3
  <2> QED
    BY <2>1, <2>2 DEF Sync
<1>6. \A m \in client'.pending : m.id <= changes
  BY DEF Later, CountInv
<1> QED
  BY <1>4, <1>5, <1>6 DEF CountInv

LEMMA CountStep ==
  ASSUME TypeInv, AckInv, CountInv, [Next]_vars
  PROVE  CountInv'
<1>0. /\ client \in Clients /\ changes \in 0 .. MaxChanges /\ changes \in Nat
      /\ truth \in [Domains -> 0 .. MaxChanges] /\ \A d \in Domains : truth[d] \in Nat
  BY BoundsAssumption DEF TypeInv, TypeOK
<1>u. /\ client.uplink \in Seq(Ids \cup {Sync})
      /\ client.pending \subseteq [id : Ids, epoch : Nat, old : BOOLEAN]
  BY <1>0 DEF Clients
<1>v. \A i \in DOMAIN client.uplink : client.uplink[i] \in Nat
  <2>1. Ids \cup {Sync} \subseteq Nat
    BY IdsFinite DEF Sync
  <2>2. \A i \in DOMAIN client.uplink : client.uplink[i] \in Ids \cup {Sync}
    BY <1>u
  <2> QED
    BY <2>1, <2>2
<1>1. ASSUME NEW d \in Domains, Change(d) PROVE CountInv'
  <2>1. /\ client' = client /\ changes' = changes + 1 /\ truth' = [truth EXCEPT ![d] = @ + 1]
    BY <1>1 DEF Change, page
  <2>2. Asked' = Asked
    BY <2>1 DEF Asked
  <2>3. \A e \in Domains : truth'[e] + Cardinality(Asked) <= changes'
    BY <1>0, <2>1, AskedFinite DEF CountInv
  <2>4. /\ \A i \in DOMAIN client.uplink : client.uplink[i] \in Nat /\ client.uplink[i] <= changes + 1
        /\ \A m \in client.pending : m.id \in Nat /\ m.id <= changes + 1
    <3>2. \A m \in client.pending : m.id \in Nat
      BY <1>u, IdsFinite
    <3> QED
      BY <1>0, <1>v, <3>2 DEF CountInv
  <2> QED
    BY <2>1, <2>2, <2>3, <2>4 DEF CountInv
<1>2. ASSUME NEW message \in Ids \cup {Sync}, TakeRequest(message),
             \/ UNCHANGED truth
             \/ message \in Ids /\ \E d \in Mutable : truth' = [truth EXCEPT ![d] = @ + 1]
      PROVE  CountInv'
  <2> DEFINE u == client.uplink
  <2>1. /\ u # <<>> /\ Head(u) = message /\ client' = [client EXCEPT !.uplink = Tail(@)]
        /\ changes' = changes
    BY <1>2 DEF TakeRequest
  <2>2. client'.uplink = Tail(u) /\ client'.pending = client.pending
    BY <1>0, <2>1 DEF Clients
  <2>3. Asked = {id \in Ids : id \in Elements(u)} /\ Asked' = {id \in Ids : id \in Elements(Tail(u))}
    BY <2>2 DEF Asked
  <2>4. /\ u \in Seq(Ids \cup {Sync})
        /\ \A i, j \in DOMAIN u : u[i] = u[j] => i = j \/ u[i] = Sync
        /\ \A i \in DOMAIN u : u[i] <= changes
    BY <1>u DEF CountInv
  <2> HIDE DEF u
  <2>5. /\ 1 \in DOMAIN u /\ Head(u) = u[1] /\ Len(u) \in Nat
        /\ DOMAIN u = 1 .. Len(u) /\ DOMAIN Tail(u) = 1 .. Len(u) - 1
        /\ \A i \in DOMAIN Tail(u) : i + 1 \in DOMAIN u /\ Tail(u)[i] = u[i + 1]
    BY <2>1, <2>4, TailFacts
  <2>6. /\ \A i, j \in DOMAIN Tail(u) : Tail(u)[i] = Tail(u)[j] => i = j \/ Tail(u)[i] = Sync
        /\ \A i \in DOMAIN Tail(u) : Tail(u)[i] <= changes
    BY <2>4, <2>5
  <2>7. Elements(u) = {message} \cup Elements(Tail(u))
    BY <2>1, <2>4, ElementsOf
  <2>8. Asked' \subseteq Asked /\ (message \in Ids => Asked' = Asked \ {message} /\ message \in Asked)
    <3>1. message \in Ids => message \notin Elements(Tail(u))
      BY <2>1, <2>4, <2>5, IdsFinite DEF Elements
    <3> QED
      BY <2>3, <2>7, <3>1
  <2>9. /\ Cardinality(Asked') \in Nat /\ Cardinality(Asked') <= Cardinality(Asked)
        /\ message \in Ids => Cardinality(Asked') = Cardinality(Asked) - 1
    BY <2>8, AskedFinite, FS_Subset, FS_CardinalityType, FS_RemoveElement
  <2>10. \A e \in Domains : truth'[e] + Cardinality(Asked') <= changes
    <3>1. CASE UNCHANGED truth
      BY <1>0, <2>9, <3>1, AskedFinite DEF CountInv
    <3>2. ASSUME NEW d \in Mutable, message \in Ids, truth' = [truth EXCEPT ![d] = @ + 1]
          PROVE  \A e \in Domains : truth'[e] + Cardinality(Asked') <= changes
      <4>1. \A e \in Domains : truth'[e] \in Nat /\ truth'[e] <= truth[e] + 1
        BY <1>0, <3>2
      <4>2. \A e \in Domains : truth[e] + Cardinality(Asked) <= changes
        BY DEF CountInv
      <4> QED
        BY <1>0, <2>9, <3>2, <4>1, <4>2, AskedFinite
    <3> QED
      BY <1>2, <3>1, <3>2
  <2> QED
    BY <2>1, <2>2, <2>6, <2>10 DEF CountInv
<1>3. CASE SendMutation
  <2> DEFINE u   == client.uplink
             new == changes + 1
  <2>1. /\ changes' = new /\ new \in Ids /\ truth' = truth
        /\ client'.uplink = Append(u, new)
        /\ client'.pending = client.pending \cup {[id |-> new, epoch |-> 0, old |-> FALSE]}
    <3>1. /\ changes' = new /\ changes < MaxChanges /\ truth' = truth
          /\ client' = [client EXCEPT !.uplink = Append(@, new),
                                      !.pending = @ \cup {[id |-> new, epoch |-> 0, old |-> FALSE]}]
      BY <1>3 DEF SendMutation
    <3>2. new \in Ids
      BY <1>0, <3>1, BoundsAssumption DEF Ids
    <3> HIDE DEF u, new
    <3>3. DOMAIN client = {"uplink", "pending", "deferred", "recent", "throttled"}
      BY <1>0 DEF Clients
    <3> QED
      BY <3>1, <3>2, <3>3 DEF u
  <2>2. Asked = {id \in Ids : id \in Elements(u)} /\ Asked' = {id \in Ids : id \in Elements(Append(u, new))}
    BY <2>1 DEF Asked
  <2>3. /\ u \in Seq(Ids \cup {Sync})
        /\ \A i, j \in DOMAIN u : u[i] = u[j] => i = j \/ u[i] = Sync
        /\ \A i \in DOMAIN u : u[i] <= changes /\ u[i] \in Nat
    BY <1>u, <1>v DEF CountInv
  <2> HIDE DEF u
  <2>4. /\ DOMAIN u = 1 .. Len(u) /\ Len(u) \in Nat
        /\ DOMAIN Append(u, new) = 1 .. Len(u) + 1 /\ Append(u, new)[Len(u) + 1] = new
        /\ \A i \in DOMAIN u : Append(u, new)[i] = u[i]
    BY <2>1, <2>3, AppendFacts
  <2>5. Elements(Append(u, new)) = Elements(u) \cup {new}
    BY <2>1, <2>3, ElementsOf
  <2>6. new \in Nat /\ changes < new
    BY <1>0
  <2> HIDE DEF new
  <2>7. /\ \A i, j \in DOMAIN Append(u, new) :
             Append(u, new)[i] = Append(u, new)[j] => i = j \/ Append(u, new)[i] = Sync
        /\ \A i \in DOMAIN Append(u, new) : Append(u, new)[i] <= new
    <3>1. \A i \in DOMAIN Append(u, new) : i \in DOMAIN u \/ i = Len(u) + 1
      BY <2>4
    <3>2. \A i \in DOMAIN u : u[i] # new /\ u[i] <= new
      BY <1>0, <2>3, <2>6
    <3> QED
      BY <2>3, <2>4, <2>6, <3>1, <3>2
  <2>8. Asked' = Asked \cup {new}
    BY <2>1, <2>2, <2>5
  <2>9. Cardinality(Asked') \in Nat /\ Cardinality(Asked') <= Cardinality(Asked) + 1
    BY <2>8, AskedFinite, FS_AddElement
  <2>10. \A d \in Domains : truth'[d] + Cardinality(Asked') <= changes'
    BY <1>0, <2>1, <2>9, AskedFinite DEF CountInv, new
  <2>11. \A m \in client'.pending : m.id <= new
    <3>1. \A m \in client.pending : m.id \in Nat /\ m.id <= changes
      BY <1>u, IdsFinite DEF CountInv
    <3> QED
      BY <1>0, <2>1, <2>6, <3>1
  <2> QED
    BY <2>1, <2>7, <2>10, <2>11 DEF CountInv
<1>4. CASE Page
  <2>1. Sound(client') /\ Later(client, client') /\ UNCHANGED <<truth, changes>>
    BY <1>4, PageGives DEF compositor
  <2>2. client' \in Clients
    BY <2>1 DEF Sound
  <2> QED
    BY <1>0, <2>1, <2>2, CountSame
<1>5. CASE TimePasses
  <2>1. /\ UNCHANGED <<truth, changes>> /\ client'.uplink = client.uplink
        /\ \A m \in client'.pending : \E n \in client.pending : m.id = n.id
    <3>1. UNCHANGED <<truth, changes>>
      BY <1>5 DEF TimePasses, compositor
    <3>2. CASE client.recent /\ client' = [client EXCEPT !.recent = FALSE]
      BY <1>0, <3>1, <3>2 DEF Clients
    <3>3. ASSUME NEW m \in client.pending,
                 client' = [client EXCEPT !.pending = (@ \ {m}) \cup {[m EXCEPT !.old = TRUE]}]
          PROVE  /\ client'.uplink = client.uplink
                 /\ \A k \in client'.pending : \E n \in client.pending : k.id = n.id
      <4>1. m \in [id : Ids, epoch : Nat, old : BOOLEAN]
        BY <1>u
      <4>2. [m EXCEPT !.old = TRUE].id = m.id
        BY <4>1
      <4>3. /\ client'.uplink = client.uplink
            /\ client'.pending = (client.pending \ {m}) \cup {[m EXCEPT !.old = TRUE]}
        BY <1>0, <3>3 DEF Clients
      <4> QED
        BY <4>2, <4>3
    <3> QED
      BY <1>5, <3>1, <3>2, <3>3 DEF TimePasses
  <2>2. Asked' = Asked
    BY <2>1 DEF Asked
  <2> QED
    BY <2>1, <2>2 DEF CountInv
<1>6. CASE Resend \/ SendAck \/ UiTask \/ UNCHANGED vars
  <2>1. UNCHANGED <<truth, changes, client>>
    BY <1>6 DEF Resend, SendAck, UiTask, TakePending, BeginPublish, EndPublish, ApplyDetails,
                vars, compositor, page
  <2>2. Asked' = Asked
    BY <2>1 DEF Asked
  <2> QED
    BY <2>1, <2>2 DEF CountInv
<1>7. CASE AnswerRequest
  BY <1>2, <1>7 DEF AnswerRequest
<1>8. ASSUME NEW id \in Ids, Mutation(id) PROVE CountInv'
  <2>1. TakeRequest(id) /\ (UNCHANGED truth \/ \E d \in Mutable : truth' = [truth EXCEPT ![d] = @ + 1])
    BY <1>8 DEF Mutation, Mutate, MutateNothing
  <2> QED
    BY <1>2, <2>1
<1> QED
  BY <1>1, <1>3, <1>4, <1>5, <1>6, <1>7, <1>8 DEF Next, Compositor, Answer, Page, UiTask

\* What a mutation waits for stays sound: with every action the client is sound again.
LEMMA ClientStep ==
  ASSUME TypeInv, AckInv, CountInv, [Next]_vars
  PROVE  /\ Sound(client') /\ Awaits(client', lastSeq', epoch')
         /\ epoch' \in {epoch, epoch + 2}
<1>0. /\ Sound(client) /\ client \in Clients /\ Awaits(client, lastSeq, epoch)
      /\ Sole(client) /\ epoch \in Nat /\ changes \in Nat
  BY BoundsAssumption DEF AckInv, Sound, TypeInv, TypeOK
<1>p. /\ client.pending \subseteq [id : Ids, epoch : Nat, old : BOOLEAN]
      /\ client.uplink \in Seq(Ids \cup {Sync})
      /\ DOMAIN client = {"uplink", "pending", "deferred", "recent", "throttled"}
  BY <1>0 DEF Clients
<1>1. ASSUME NEW c \in Clients, c.pending = client.pending, c.deferred = client.deferred,
             client' = c, lastSeq' = lastSeq, epoch' \in {epoch, epoch + 2}
      PROVE  Sound(client') /\ Awaits(client', lastSeq', epoch')
  <2>1. \A m \in client.pending : m.epoch \in Nat
    BY <1>p
  <2> QED
    BY <1>0, <1>1, <2>1 DEF Sound, Sole, Awaits
<1>2. ASSUME NEW message, TakeRequest(message), epoch' \in {epoch, epoch + 2}
      PROVE  Sound(client') /\ Awaits(client', lastSeq', epoch')
  <2>1. client' = [client EXCEPT !.uplink = Tail(@)] /\ client.uplink # <<>> /\ lastSeq' = lastSeq
    BY <1>2 DEF TakeRequest
  <2>2. Tail(client.uplink) \in Seq(Ids \cup {Sync})
    BY <1>p, <2>1, TailFacts
  <2>3. client' \in Clients /\ client'.pending = client.pending /\ client'.deferred = client.deferred
    BY <1>0, <2>1, <2>2 DEF Clients
  <2> QED
    BY <1>1, <1>2, <2>1, <2>3
<1>3. CASE SendMutation
  <2> DEFINE new == changes + 1
             m   == [id |-> new, epoch |-> 0, old |-> FALSE]
  <2>1. /\ changes < MaxChanges /\ UNCHANGED <<epoch, lastSeq>>
        /\ client' = [client EXCEPT !.uplink = Append(@, new), !.pending = @ \cup {m}]
    BY <1>3 DEF SendMutation
  <2>2. new \in Ids /\ new \in Nat /\ changes < new
    BY <1>0, <2>1, BoundsAssumption DEF Ids
  <2>3. m \in [id : Ids, epoch : Nat, old : BOOLEAN] /\ m.id = new /\ m.epoch = 0
    BY <2>2
  <2>4. Append(client.uplink, new) \in Seq(Ids \cup {Sync})
    BY <1>p, <2>2, AppendFacts
  <2> HIDE DEF new, m
  <2>5. client.pending \cup {m} \subseteq [id : Ids, epoch : Nat, old : BOOLEAN]
    BY <1>p, <2>3
  <2>6. /\ client' \in Clients /\ client'.pending = client.pending \cup {m}
    BY <1>0, <2>1, <2>4, <2>5 DEF Clients
  <2>7. \A n \in client.pending : n.id # m.id
    <3>1. \A n \in client.pending : n.id \in Nat /\ n.id <= changes
      BY <1>p, IdsFinite DEF CountInv
    <3> QED
      BY <1>0, <2>2, <2>3, <3>1
  <2>8. Sole(client')
    BY <1>0, <2>6, <2>7 DEF Sole
  <2> QED
    BY <1>0, <2>1, <2>3, <2>6, <2>8 DEF Sound, Awaits
<1>4. CASE Page
  BY <1>0, <1>4, PageGives DEF compositor
<1>5. CASE TimePasses
  <2>1. UNCHANGED <<epoch, lastSeq>>
    BY <1>5 DEF TimePasses, compositor
  <2>2. CASE client.recent /\ client' = [client EXCEPT !.recent = FALSE]
    <3>1. client' \in Clients /\ client'.pending = client.pending /\ client'.deferred = client.deferred
      BY <1>0, <2>2 DEF Clients
    <3> QED
      BY <1>1, <2>1, <3>1
  <2>3. ASSUME NEW m \in client.pending,
               client' = [client EXCEPT !.pending = (@ \ {m}) \cup {[m EXCEPT !.old = TRUE]}]
        PROVE  Sound(client') /\ Awaits(client', lastSeq', epoch')
    <3> DEFINE n == [m EXCEPT !.old = TRUE]
    <3>1. /\ n \in [id : Ids, epoch : Nat, old : BOOLEAN] /\ n.id = m.id /\ n.epoch = m.epoch
      BY <1>p
    <3>2. client' = [client EXCEPT !.pending = (@ \ {m}) \cup {n}]
      BY <2>3
    <3> HIDE DEF n
    <3>3. (client.pending \ {m}) \cup {n} \subseteq [id : Ids, epoch : Nat, old : BOOLEAN]
      BY <1>p, <3>1
    <3>4. client' \in Clients /\ client'.pending = (client.pending \ {m}) \cup {n}
      BY <1>0, <3>2, <3>3 DEF Clients
    <3>5. Sole(client')
      BY <1>0, <3>1, <3>4 DEF Sole
    <3>6. Awaits(client', lastSeq, epoch)
      BY <1>0, <3>1, <3>4 DEF Awaits
    <3> QED
      BY <2>1, <3>4, <3>5, <3>6 DEF Sound
  <2> QED
    BY <1>5, <2>1, <2>2, <2>3 DEF TimePasses
<1>6. ASSUME NEW d \in Domains, Change(d) PROVE Sound(client') /\ Awaits(client', lastSeq', epoch')
  BY <1>0, <1>1, <1>6 DEF Change, Send, page
<1>7. CASE Resend \/ SendAck \/ UiTask \/ UNCHANGED vars
  <2>1. client' = client /\ lastSeq' = lastSeq /\ epoch' \in {epoch, epoch + 2}
    BY <1>7 DEF Resend, SendAck, Send, UiTask, TakePending, BeginPublish, EndPublish, ApplyDetails,
                vars, compositor, page
  <2> QED
    BY <1>0, <1>1, <2>1
<1>8. CASE AnswerRequest
  BY <1>2, <1>8 DEF AnswerRequest
<1>9. ASSUME NEW id \in Ids, Mutation(id) PROVE Sound(client') /\ Awaits(client', lastSeq', epoch')
  <2>1. TakeRequest(id) /\ epoch' \in {epoch, epoch + 2}
    BY <1>9 DEF Mutation, Mutate, MutateNothing, Send
  <2> QED
    BY <1>2, <2>1
<1>10. epoch' \in {epoch, epoch + 2}
  BY DEF Next, Compositor, Answer, UiTask, Page, Change, AnswerRequest, Resend, SendAck, Send,
         Mutation, Mutate, MutateNothing, TakePending, BeginPublish, EndPublish, ApplyDetails,
         SyncOnNotify, IgnoreNotify, SyncOnBatch, WakeOnBatch, Read, SendMutation, TimePasses,
         compositor, vars
<1> QED
  BY <1>3, <1>4, <1>5, <1>6, <1>7, <1>8, <1>9, <1>10 DEF Next, Compositor, Answer

LEMMA TypeInit == Init => TypeInv /\ AckInv /\ CountInv
<1> SUFFICES ASSUME Init PROVE TypeInv /\ AckInv /\ CountInv
  OBVIOUS
<1>1. 0 \in 0 .. MaxChanges /\ Version0 \in [Domains -> 0 .. MaxChanges]
      /\ \A d \in Domains : Version0[d] = 0
  BY BoundsAssumption DEF Version0
<1>2. /\ client = [uplink |-> <<>>, pending |-> {}, deferred |-> FALSE, recent |-> FALSE,
                   throttled |-> FALSE]
      /\ client \in Clients /\ client.uplink = <<>> /\ client.pending = {} /\ ~client.deferred
  BY DEF Init, Clients
<1>3. NoTask \in [details : SUBSET Details, acks : Seq(Acks), domains : SUBSET Domains,
                  values : [Domains -> 0 .. MaxChanges], epoch : Nat] /\ NoTask.acks = <<>>
  BY <1>1 DEF NoTask
<1>4. TypeInv
  <2>1. TypeOK
    BY <1>1, <1>2 DEF TypeOK, Init
  <2> QED
    BY <1>1, <1>3, <2>1 DEF TypeInv, Init
<1>5. AckInv
  <2>1. AllAcks = {}
    BY <1>3 DEF AllAcks, WireAcks, Elements, Init
  <2>2. wire = <<>> /\ task = NoTask /\ Elements(acking) = {}
    BY DEF Init, Elements
  <2> QED
    BY <1>2, <2>1, <2>2 DEF AckInv, Sound, Sole, Awaits
<1>6. CountInv
  <2>1. Asked = {}
    BY <1>2 DEF Asked, Elements
  <2>2. Cardinality(Asked) = 0
    BY <2>1, FS_EmptySet
  <2>3. truth = Version0 /\ changes = 0
    BY DEF Init
  <2> QED
    BY <1>1, <1>2, <2>2, <2>3 DEF CountInv
<1> QED
  BY <1>4, <1>5, <1>6

LEMMA SendTypes ==
  ASSUME TypeInv, NEW d \in Domains, NEW v \in 0 .. MaxChanges, Send(d, v)
  PROVE  epoch' \in Nat /\ snapshot' \subseteq Domains /\ details' \subseteq Details
<1>1. epoch \in Nat /\ snapshot \subseteq Domains /\ details \subseteq Details
  BY DEF TypeInv, TypeOK
<1>2. epoch' = epoch + 2 /\ epoch' \in Nat
  BY <1>1 DEF Send
<1>3. [domain |-> d, value |-> v, epoch |-> epoch'] \in Details
  BY <1>2 DEF Details
<1> QED
  BY <1>1, <1>2, <1>3 DEF Send

\* The counting keeps the versions within the bound.
LEMMA TruthStep ==
  ASSUME TypeInv, CountInv', [Next]_vars
  PROVE  changes' \in 0 .. MaxChanges /\ truth' \in [Domains -> 0 .. MaxChanges]
<1>0. /\ changes \in 0 .. MaxChanges /\ truth \in [Domains -> 0 .. MaxChanges]
      /\ MaxChanges \in Nat
  BY BoundsAssumption DEF TypeInv, TypeOK
<1>1. UNCHANGED changes \/ (changes < MaxChanges /\ changes' = changes + 1)
  BY DEF Next, Compositor, Answer, UiTask, Page, Change, AnswerRequest, Resend, SendAck, Mutation,
         Mutate, MutateNothing, TakeRequest, TakePending, BeginPublish, EndPublish, ApplyDetails,
         SyncOnNotify, IgnoreNotify, SyncOnBatch, WakeOnBatch, Read, SendMutation, TimePasses,
         compositor, vars
<1>2. changes' \in 0 .. MaxChanges
  BY <1>0, <1>1
<1>3. UNCHANGED truth \/ \E d \in Domains : truth' = [truth EXCEPT ![d] = @ + 1]
  BY DomainsAssumption
  DEF Next, Compositor, Answer, UiTask, Page, Change, AnswerRequest, Resend, SendAck, Mutation,
      Mutate, MutateNothing, TakePending, BeginPublish, EndPublish, ApplyDetails,
      SyncOnNotify, IgnoreNotify, SyncOnBatch, WakeOnBatch, Read, SendMutation, TimePasses,
      compositor, vars
<1>4. truth' \in [Domains -> Nat]
  BY <1>0, <1>3
<1>5. Cardinality(Asked') \in Nat
  <2>1. Asked' \subseteq Ids
    BY DEF Asked
  <2> QED
    BY <2>1, IdsFinite, FS_Subset, FS_CardinalityType
<1>6. \A d \in Domains : truth'[d] + Cardinality(Asked') <= changes'
  BY DEF CountInv
<1>7. \A d \in Domains : truth'[d] \in 0 .. MaxChanges
  BY <1>0, <1>2, <1>4, <1>5, <1>6
<1> QED
  BY <1>2, <1>4, <1>7

\* What the page receives.
LEMMA Received ==
  ASSUME TypeInv, Page
  PROVE  /\ wire' \in Seq(Wired) /\ wire # <<>> /\ wire' = Tail(wire)
         /\ Head(wire) \in Wired /\ Head(wire) = wire[1] /\ 1 \in DOMAIN wire
         /\ Len(wire) \in Nat /\ DOMAIN wire = 1 .. Len(wire) /\ DOMAIN wire' = 1 .. Len(wire) - 1
         /\ \A i \in DOMAIN wire' : i + 1 \in DOMAIN wire /\ wire'[i] = wire[i + 1]
<1>1. wire # <<>> /\ wire' = Tail(wire)
  BY DEF Page, SyncOnNotify, IgnoreNotify, SyncOnBatch, WakeOnBatch, Receive
<1>2. wire \in Seq(Wired)
  BY DEF TypeInv, TypeOK
<1> QED
  BY <1>1, <1>2, TailFacts

LEMMA ViewType ==
  ASSUME TypeInv, Page
  PROVE  view' \in [Domains -> 0 .. MaxChanges]
<1>0. /\ view \in [Domains -> 0 .. MaxChanges] /\ shm.values \in [Domains -> 0 .. MaxChanges]
      /\ Head(wire).details \subseteq Details
  BY Received DEF TypeInv, TypeOK, Wired
<1>1. Applied \in [Domains -> 0 .. MaxChanges]
  BY <1>0 DEF Applied
<1>2. CASE SyncOnNotify
  BY <1>1, <1>2 DEF SyncOnNotify, Read
<1>3. CASE SyncOnBatch
  <2> DEFINE direct == {m \in Head(wire).details :
                          m.domain \in Direct /\ m.domain \notin shm.flags}
             shown  == [e \in Domains |-> IF \E m \in direct : m.domain = e
                                          THEN (CHOOSE m \in direct : m.domain = e).value
                                          ELSE Applied[e]]
  <2>1. view' = shown
    BY <1>3 DEF SyncOnBatch, Read
  <2>2. \A m \in direct : m.value \in 0 .. MaxChanges
    BY <1>0 DEF Details
  <2> HIDE DEF direct
  <2>3. ASSUME NEW e \in Domains PROVE shown[e] \in 0 .. MaxChanges
    <3>1. CASE \E m \in direct : m.domain = e
      <4>1. (CHOOSE m \in direct : m.domain = e) \in direct
        BY <3>1
      <4> QED
        BY <2>2, <3>1, <4>1
    <3>2. CASE ~ \E m \in direct : m.domain = e
      BY <1>1, <3>2
    <3> QED
      BY <3>1, <3>2
  <2> QED
    BY <2>1, <2>3
<1>4. CASE IgnoreNotify \/ WakeOnBatch
  BY <1>0, <1>4 DEF IgnoreNotify, WakeOnBatch, page
<1> QED
  BY <1>2, <1>3, <1>4 DEF Page

LEMMA TypeStep ==
  ASSUME TypeInv, AckInv, CountInv, SequenceInv, CountInv', [Next]_vars
  PROVE  TypeInv'
<1>0. /\ truth \in [Domains -> 0 .. MaxChanges] /\ epoch \in Nat
      /\ resending \in Seq(Domains) /\ acking \in Seq(Ids)
      /\ details \subseteq Details /\ acks \in Seq(Acks) /\ snapshot \subseteq Domains
      /\ ui \in {"idle", "publish", "end", "apply"} /\ wire \in Seq(Wired)
      /\ lastSeq \in Nat /\ lastFlags \subseteq Domains
      /\ view \in [Domains -> 0 .. MaxChanges]
      /\ task \in [details : SUBSET Details, acks : Seq(Acks), domains : SUBSET Domains,
                   values : [Domains -> 0 .. MaxChanges], epoch : Nat]
      /\ authoritative \in [values : [Domains -> 0 .. MaxChanges], revisions : [Domains -> Nat]]
      /\ shm \in [seq : Nat, flags : SUBSET Domains, revisions : [Domains -> Nat],
                  values : [Domains -> 0 .. MaxChanges]]
      /\ lastRevisions \in [Domains -> Nat]
  BY DEF TypeInv, TypeOK
<1>1. /\ client' \in Clients /\ (\A m, n \in client'.pending : m.id = n.id => m = n)
      /\ changes' \in 0 .. MaxChanges /\ truth' \in [Domains -> 0 .. MaxChanges]
  BY ClientStep, TruthStep DEF Sound, Sole
<1>2. ASSUME NEW d \in Domains, Change(d) PROVE TypeInv'
  <2>1. truth'[d] \in 0 .. MaxChanges /\ Send(d, truth'[d])
    BY <1>1, <1>2 DEF Change
  <2>2. epoch' \in Nat /\ snapshot' \subseteq Domains /\ details' \subseteq Details
    BY <2>1, SendTypes
  <2>3. UNCHANGED <<resending, acking, acks, writer, wire, lastSeq, lastRevisions, lastFlags, view>>
    BY <1>2 DEF Change, page
  <2> QED
    BY <1>0, <1>1, <2>2, <2>3 DEF TypeInv, TypeOK, writer
<1>3. CASE AnswerRequest
  <2>1. resending' \in Seq(Domains)
    BY <1>3, DomainsAssumption DEF AnswerRequest
  <2>2. UNCHANGED <<epoch, acking, queue, writer, wire, lastSeq, lastRevisions, lastFlags, view>>
    BY <1>3 DEF AnswerRequest, TakeRequest
  <2> QED
    BY <1>0, <1>1, <2>1, <2>2 DEF TypeInv, TypeOK, writer, queue
<1>4. CASE Resend
  <2> DEFINE d == Head(resending)
  <2>1. d \in Domains /\ resending' \in Seq(Domains) /\ truth[d] \in 0 .. MaxChanges
    <3>1. resending # <<>> /\ resending' = Tail(resending)
      BY <1>4 DEF Resend
    <3>2. d \in Domains /\ resending' \in Seq(Domains)
      BY <1>0, <3>1, TailFacts
    <3> QED
      BY <1>0, <3>2
  <2>2. Send(d, truth[d])
    BY <1>4 DEF Resend
  <2>3. epoch' \in Nat /\ snapshot' \subseteq Domains /\ details' \subseteq Details
    BY <2>1, <2>2, SendTypes
  <2>4. UNCHANGED <<acking, acks, writer, wire, lastSeq, lastRevisions, lastFlags, view>>
    BY <1>4 DEF Resend, page
  <2> QED
    BY <1>0, <1>1, <2>1, <2>3, <2>4 DEF TypeInv, TypeOK, writer
<1>5. CASE SendAck
  <2>1. /\ acking # <<>> /\ acks' = Append(acks, Ack(Head(acking), TRUE)) /\ acking' = <<>>
        /\ UNCHANGED <<epoch, resending, details, snapshot, writer, wire,
                       lastSeq, lastRevisions, lastFlags, view>>
    BY <1>5 DEF SendAck, page
  <2>2. Head(acking) \in Ids
    BY <1>0, <2>1, TailFacts
  <2>3. Ack(Head(acking), TRUE) \in Acks
    BY <1>0, <2>2 DEF Ack, Acks
  <2>4. acks' \in Seq(Acks)
    BY <1>0, <2>1, <2>3, AppendFacts
  <2>5. acking' \in Seq(Ids)
    BY <2>1
  <2> QED
    BY <1>0, <1>1, <2>1, <2>4, <2>5 DEF TypeInv, TypeOK, writer
<1>6. ASSUME NEW id \in Ids, NEW d \in Mutable, Mutate(id, d) PROVE TypeInv'
  <2>1. d \in Domains
    BY DomainsAssumption
  <2>2. truth'[d] \in 0 .. MaxChanges /\ Send(d, truth'[d]) /\ acking' = <<id>>
    BY <1>1, <1>6, <2>1 DEF Mutate
  <2>3. epoch' \in Nat /\ snapshot' \subseteq Domains /\ details' \subseteq Details
    BY <2>1, <2>2, SendTypes
  <2>4. UNCHANGED <<resending, acks, writer, wire, lastSeq, lastRevisions, lastFlags, view>>
    BY <1>6 DEF Mutate, TakeRequest
  <2>5. acking' \in Seq(Ids)
    BY <2>2
  <2> QED
    BY <1>0, <1>1, <2>3, <2>4, <2>5 DEF TypeInv, TypeOK, writer
<1>7. ASSUME NEW id \in Ids, NEW accepted \in BOOLEAN, MutateNothing(id, accepted) PROVE TypeInv'
  <2>1. acks' = Append(acks, Ack(id, accepted))
    BY <1>7 DEF MutateNothing
  <2>2. Ack(id, accepted) \in Acks
    BY <1>0 DEF Ack, Acks
  <2>3. acks' \in Seq(Acks)
    BY <1>0, <2>1, <2>2, AppendFacts
  <2>4. UNCHANGED <<epoch, resending, acking, details, snapshot, writer, wire,
                    lastSeq, lastRevisions, lastFlags, view>>
    BY <1>7 DEF MutateNothing, TakeRequest
  <2> QED
    BY <1>0, <1>1, <2>3, <2>4 DEF TypeInv, TypeOK, writer
<1>8. CASE TakePending
  <2>1. /\ task' = [details |-> details, acks |-> acks, domains |-> snapshot,
                    values |-> truth, epoch |-> epoch]
        /\ details' = {} /\ acks' = <<>> /\ snapshot' = {}
        /\ ui' \in {"publish", "apply"}
        /\ UNCHANGED <<epoch, resending, acking, authoritative, shm, wire,
                       lastSeq, lastRevisions, lastFlags, view>>
    BY <1>8 DEF TakePending, compositor, page
  <2>2. task' \in [details : SUBSET Details, acks : Seq(Acks), domains : SUBSET Domains,
                   values : [Domains -> 0 .. MaxChanges], epoch : Nat]
    <3>1. /\ details \in SUBSET Details /\ acks \in Seq(Acks) /\ snapshot \in SUBSET Domains
          /\ truth \in [Domains -> 0 .. MaxChanges] /\ epoch \in Nat
      BY <1>0
    <3> QED
      BY <2>1, <3>1
  <2>3. TypeOK'
    BY <1>0, <1>1, <2>1 DEF TypeInv, TypeOK
  <2>4. UNCHANGED <<authoritative, shm, lastRevisions>>
    BY <2>1
  <2> QED
    BY <2>2, <2>3, <2>4 DEF TypeInv
<1>9. CASE BeginPublish
  <2> DEFINE values == [d \in Domains |-> IF d \in task.domains THEN task.values[d]
                                          ELSE authoritative.values[d]]
             revisions == [d \in Domains |-> IF d \in task.domains
                                             THEN authoritative.revisions[d] + 1
                                             ELSE authoritative.revisions[d]]
  <2>1. /\ ui = "publish" /\ ui' = "end"
        /\ authoritative' = [values |-> values, revisions |-> revisions]
        /\ shm' = [shm EXCEPT !.seq = task.epoch - 1]
        /\ UNCHANGED <<epoch, resending, acking, queue, task, wire,
                       lastSeq, lastRevisions, lastFlags, view>>
    BY <1>9 DEF BeginPublish, compositor, page
  <2>2. values \in [Domains -> 0 .. MaxChanges] /\ revisions \in [Domains -> Nat]
    <3>1. /\ task.values \in [Domains -> 0 .. MaxChanges]
          /\ authoritative.values \in [Domains -> 0 .. MaxChanges]
          /\ authoritative.revisions \in [Domains -> Nat]
      BY <1>0
    <3>2. \A d \in Domains : values[d] \in 0 .. MaxChanges /\ revisions[d] \in Nat
      BY ONLY <3>1
    <3> QED
      BY ONLY <3>2
  <2>3. task.epoch - 1 \in Nat
    BY <2>1 DEF SequenceInv
  <2> HIDE DEF values, revisions
  <2>4. shm' \in [seq : Nat, flags : SUBSET Domains, revisions : [Domains -> Nat],
                  values : [Domains -> 0 .. MaxChanges]]
    BY <1>0, <2>1, <2>3
  <2>5. authoritative' \in [values : [Domains -> 0 .. MaxChanges], revisions : [Domains -> Nat]]
    BY <2>1, <2>2
  <2> QED
    BY <1>0, <1>1, <2>1, <2>4, <2>5 DEF TypeInv, TypeOK, queue
<1>10. CASE EndPublish
  <2> DEFINE message == [type |-> "notify", details |-> {}, acks |-> <<>>]
  <2>1. /\ ui' = "apply" /\ wire' = Append(wire, message)
        /\ shm' = [seq |-> task.epoch, flags |-> task.domains,
                   revisions |-> authoritative.revisions, values |-> authoritative.values]
        /\ UNCHANGED <<epoch, resending, acking, queue, task, authoritative,
                       lastSeq, lastRevisions, lastFlags, view>>
    BY <1>10 DEF EndPublish, compositor, page
  <2>2. message \in Wired
    BY DEF Wired
  <2>3. wire' \in Seq(Wired)
    BY <1>0, <2>1, <2>2, AppendFacts
  <2>4. shm' \in [seq : Nat, flags : SUBSET Domains, revisions : [Domains -> Nat],
                  values : [Domains -> 0 .. MaxChanges]]
    BY <1>0, <2>1
  <2> QED
    BY <1>0, <1>1, <2>1, <2>3, <2>4 DEF TypeInv, TypeOK, queue
<1>11. CASE ApplyDetails
  <2> DEFINE message == [type |-> "batch", details |-> task.details, acks |-> task.acks]
  <2>1. /\ ui' = "idle" /\ wire' = Append(wire, message) /\ task' = NoTask
        /\ UNCHANGED <<epoch, resending, acking, queue, authoritative, shm,
                       lastSeq, lastRevisions, lastFlags, view>>
    BY <1>11 DEF ApplyDetails, compositor, page
  <2>2. message \in Wired
    BY <1>0 DEF Wired
  <2>3. wire' \in Seq(Wired)
    BY <1>0, <2>1, <2>2, AppendFacts
  <2>4. task' \in [details : SUBSET Details, acks : Seq(Acks), domains : SUBSET Domains,
                   values : [Domains -> 0 .. MaxChanges], epoch : Nat]
    BY <2>1, BoundsAssumption DEF NoTask, Version0
  <2> QED
    BY <1>0, <1>1, <2>1, <2>3, <2>4 DEF TypeInv, TypeOK, queue
<1>12. CASE Page
  <2>1. wire' \in Seq(Wired) /\ view' \in [Domains -> 0 .. MaxChanges]
    BY <1>12, Received, ViewType
  <2>2. UNCHANGED <<compositor, queue, writer>>
    BY <1>12, PageGives
  <2>3. /\ lastSeq' \in {lastSeq, shm.seq} /\ lastFlags' \in {lastFlags, shm.flags}
        /\ lastRevisions' \in {lastRevisions, shm.revisions}
    BY <1>12 DEF Page, SyncOnNotify, IgnoreNotify, SyncOnBatch, WakeOnBatch, Read, page
  <2>4. /\ lastSeq' \in Nat /\ lastFlags' \subseteq Domains /\ lastRevisions' \in [Domains -> Nat]
    BY <1>0, <2>3
  <2> QED
    BY <1>0, <1>1, <2>1, <2>2, <2>4 DEF TypeInv, TypeOK, compositor, queue, writer
<1>13. CASE SendMutation \/ TimePasses
  <2>1. UNCHANGED <<epoch, resending, acking, queue, writer, wire, lastSeq, lastRevisions,
                    lastFlags, view>>
    BY <1>13 DEF SendMutation, TimePasses, compositor
  <2> QED
    BY <1>0, <1>1, <2>1 DEF TypeInv, TypeOK, queue, writer
<1>14. CASE UNCHANGED vars
  BY <1>0, <1>1, <1>14 DEF TypeInv, TypeOK, vars, compositor, queue, writer, page
<1> QED
  BY <1>2, <1>3, <1>4, <1>5, <1>6, <1>7, <1>8, <1>9, <1>10, <1>11, <1>12, <1>13, <1>14
  DEF Next, Compositor, Answer, Mutation, UiTask

(***************************************************************************)
(* The latest snapshot, and the acknowledgements.                          *)
(***************************************************************************)
LEMMA LatestInit == Init => LatestInv
BY DEF Init, LatestInv, Taken, NoTask

LEMMA LatestStep ==
  ASSUME TypeInv, LatestInv, [Next]_vars
  PROVE  LatestInv'
<1>0. /\ epoch \in Nat /\ shm.seq \in Nat /\ lastSeq \in Nat /\ task.epoch \in Nat
      /\ DOMAIN shm = {"seq", "flags", "revisions", "values"}
  BY DEF TypeInv, TypeOK
<1>1. ASSUME epoch' = epoch + 2, snapshot' # {}, UNCHANGED <<ui, task, shm, lastSeq>>
      PROVE  LatestInv'
  BY <1>0, <1>1 DEF LatestInv, Taken
<1>2. ASSUME UNCHANGED <<epoch, snapshot, ui, task, shm, lastSeq>> PROVE LatestInv'
  BY <1>2 DEF LatestInv, Taken
<1>3. ASSUME NEW d \in Domains, Change(d) PROVE LatestInv'
  BY <1>1, <1>3 DEF Change, Send, writer, page
<1>4. CASE AnswerRequest \/ SendAck
  BY <1>2, <1>4 DEF AnswerRequest, TakeRequest, SendAck, queue, writer, page
<1>5. CASE Resend
  BY <1>1, <1>5 DEF Resend, Send, writer, page
<1>6. ASSUME NEW id \in Ids, NEW d \in Mutable, Mutate(id, d) PROVE LatestInv'
  BY <1>1, <1>6 DEF Mutate, TakeRequest, Send, writer
<1>7. ASSUME NEW id \in Ids, NEW accepted \in BOOLEAN, MutateNothing(id, accepted) PROVE LatestInv'
  BY <1>2, <1>7 DEF MutateNothing, TakeRequest, writer
<1>8. CASE TakePending
  <2>1. /\ ui = "idle" /\ task'.epoch = epoch /\ snapshot' = {}
        /\ ui' = IF snapshot = {} THEN "apply" ELSE "publish"
        /\ UNCHANGED <<epoch, shm, lastSeq>>
    BY <1>8 DEF TakePending, compositor, page
  <2> QED
    BY <1>0, <2>1 DEF LatestInv, Taken
<1>9. CASE BeginPublish
  <2>1. /\ ui = "publish" /\ ui' = "end" /\ shm'.seq = task.epoch - 1
        /\ UNCHANGED <<epoch, snapshot, task, lastSeq>>
    BY <1>0, <1>9 DEF BeginPublish, compositor, queue, page
  <2> QED
    BY <1>0, <2>1 DEF LatestInv, Taken
<1>10. CASE EndPublish
  <2>1. /\ ui = "end" /\ ui' = "apply" /\ shm'.seq = task.epoch
        /\ UNCHANGED <<epoch, snapshot, task, lastSeq>>
    BY <1>10 DEF EndPublish, compositor, queue, page
  <2> QED
    BY <1>0, <2>1 DEF LatestInv, Taken
<1>11. CASE ApplyDetails
  <2>1. /\ ui = "apply" /\ ui' = "idle" /\ UNCHANGED <<epoch, snapshot, shm, lastSeq>>
    BY <1>11 DEF ApplyDetails, compositor, queue, page
  <2> QED
    BY <1>0, <2>1 DEF LatestInv, Taken
<1>12. CASE SyncOnNotify \/ SyncOnBatch
  <2>1. lastSeq' = shm.seq /\ UNCHANGED <<epoch, snapshot, ui, task, shm>>
    BY <1>12 DEF SyncOnNotify, SyncOnBatch, Read, compositor, queue, writer
  <2> QED
    BY <1>0, <2>1 DEF LatestInv, Taken
<1>13. CASE IgnoreNotify \/ WakeOnBatch \/ SendMutation \/ TimePasses
  BY <1>2, <1>13 DEF IgnoreNotify, WakeOnBatch, SendMutation, TimePasses, compositor, queue,
                     writer, page
<1>14. CASE UNCHANGED vars
  BY <1>2, <1>14 DEF vars, compositor, queue, writer, page
<1> QED
  BY <1>3, <1>4, <1>5, <1>6, <1>7, <1>8, <1>9, <1>10, <1>11, <1>12, <1>13, <1>14
  DEF Next, Compositor, Answer, Mutation, UiTask, Page

\* A message more on the wire, and one less.
LEMMA WireAppend ==
  ASSUME wire \in Seq(Wired), NEW message \in Wired, wire' = Append(wire, message)
  PROVE  /\ WireAcks' = WireAcks \cup Elements(message.acks)
         /\ DOMAIN wire = 1 .. Len(wire) /\ DOMAIN wire' = 1 .. Len(wire) + 1 /\ Len(wire) \in Nat
         /\ \A i \in DOMAIN wire : i \in DOMAIN wire' /\ wire'[i] = wire[i]
         /\ wire'[Len(wire) + 1] = message
<1>1. /\ DOMAIN wire = 1 .. Len(wire) /\ DOMAIN wire' = 1 .. Len(wire) + 1 /\ Len(wire) \in Nat
      /\ \A i \in DOMAIN wire : i \in DOMAIN wire' /\ wire'[i] = wire[i]
      /\ wire'[Len(wire) + 1] = message
  BY AppendFacts
<1>2. \A i \in DOMAIN wire' : i \in DOMAIN wire \/ i = Len(wire) + 1
  BY <1>1
<1>3. ASSUME NEW ack \in WireAcks' PROVE ack \in WireAcks \cup Elements(message.acks)
  <2>1. PICK i \in DOMAIN wire' : ack \in Elements(wire'[i].acks)
    BY DEF WireAcks
  <2> QED
    BY <1>1, <1>2, <2>1 DEF WireAcks
<1>4. ASSUME NEW ack \in WireAcks \cup Elements(message.acks) PROVE ack \in WireAcks'
  <2>1. CASE ack \in WireAcks
    <3>1. PICK i \in DOMAIN wire : ack \in Elements(wire[i].acks)
      BY <2>1 DEF WireAcks
    <3>2. i \in DOMAIN wire' /\ ack \in Elements(wire'[i].acks)
      BY <1>1, <3>1
    <3> QED
      BY <3>2 DEF WireAcks
  <2>2. CASE ack \in Elements(message.acks)
    <3>1. Len(wire) + 1 \in DOMAIN wire' /\ ack \in Elements(wire'[Len(wire) + 1].acks)
      BY <1>1, <2>2
    <3> QED
      BY <3>1 DEF WireAcks
  <2> QED
    BY <1>4, <2>1, <2>2
<1>5. WireAcks' = WireAcks \cup Elements(message.acks)
  BY <1>3, <1>4
<1> QED
  BY <1>1, <1>5

LEMMA WireTail ==
  ASSUME TypeInv, Page
  PROVE  WireAcks' \subseteq WireAcks /\ WireAcks \subseteq WireAcks' \cup Elements(Head(wire).acks)
<1>1. /\ Head(wire) = wire[1] /\ Len(wire) \in Nat /\ DOMAIN wire = 1 .. Len(wire)
      /\ DOMAIN wire' = 1 .. Len(wire) - 1
      /\ \A i \in DOMAIN wire' : i + 1 \in DOMAIN wire /\ wire'[i] = wire[i + 1]
  BY Received
<1>2. ASSUME NEW ack \in WireAcks' PROVE ack \in WireAcks
  <2>1. PICK i \in DOMAIN wire' : ack \in Elements(wire'[i].acks)
    BY DEF WireAcks
  <2>2. i + 1 \in DOMAIN wire /\ ack \in Elements(wire[i + 1].acks)
    BY <1>1, <2>1
  <2> QED
    BY <2>2 DEF WireAcks
<1>3. ASSUME NEW ack \in WireAcks, ack \notin Elements(Head(wire).acks) PROVE ack \in WireAcks'
  <2>1. PICK i \in DOMAIN wire : ack \in Elements(wire[i].acks)
    BY DEF WireAcks
  <2>2. i # 1
    BY <1>1, <1>3, <2>1
  <2>3. i - 1 \in DOMAIN wire' /\ wire'[i - 1] = wire[i]
    BY <1>1, <2>2
  <2> QED
    BY <2>1, <2>3 DEF WireAcks
<1> QED
  BY <1>2, <1>3

LEMMA AllAcksType == TypeInv => AllAcks \subseteq Acks
<1> SUFFICES ASSUME TypeInv PROVE AllAcks \subseteq Acks
  OBVIOUS
<1>1. acks \in Seq(Acks) /\ task.acks \in Seq(Acks) /\ wire \in Seq(Wired)
  BY DEF TypeInv, TypeOK
<1>2. Elements(acks) \subseteq Acks /\ Elements(task.acks) \subseteq Acks
  BY <1>1, ElementsOf
<1>3. ASSUME NEW i \in DOMAIN wire PROVE Elements(wire[i].acks) \subseteq Acks
  <2>1. wire[i] \in Wired
    BY <1>1
  <2>2. wire[i].acks \in Seq(Acks)
    BY <2>1 DEF Wired
  <2> QED
    BY <2>2, ElementsOf
<1> QED
  BY <1>2, <1>3 DEF AllAcks, WireAcks

\* How the acknowledgements on their way change.
AcksMoved ==
  /\ \A ack \in AllAcks' : ack \in AllAcks \/ ack.epoch = epoch
  /\ \A i \in DOMAIN wire' : wire'[i].type = "notify" => wire'[i].acks = <<>>
  /\ ui' = "idle" => task' = NoTask
  /\ \A id \in Elements(acking') : id = Head(acking')
  /\ \A m \in client'.pending : m.epoch = 0 => m.id \in Unanswered'

LEMMA AcksMove ==
  ASSUME TypeInv, AckInv, CountInv, SequenceInv, [Next]_vars
  PROVE  AcksMoved
<1>0. /\ acks \in Seq(Acks) /\ task.acks \in Seq(Acks) /\ wire \in Seq(Wired)
      /\ acking \in Seq(Ids) /\ client.uplink \in Seq(Ids \cup {Sync}) /\ client \in Clients
      /\ epoch \in Nat
  BY DEF TypeInv, TypeOK, Clients
<1>a. /\ \A m \in client.pending : m.epoch = 0 => m.id \in Unanswered
      /\ \A i \in DOMAIN wire : wire[i].type = "notify" => wire[i].acks = <<>>
      /\ ui = "idle" => task = NoTask
      /\ \A id \in Elements(acking) : id = Head(acking)
  BY DEF AckInv
<1>e. Elements(<<>>) = {}
  BY DEF Elements
<1>1. ASSUME UNCHANGED <<client, acking, acks, task, wire, ui>> PROVE AcksMoved
  BY <1>1, <1>a DEF AcksMoved, AllAcks, WireAcks, Unanswered
<1>2. ASSUME NEW d \in Domains, Change(d) PROVE AcksMoved
  BY <1>1, <1>2 DEF Change, writer, page
<1>3. CASE Resend
  BY <1>1, <1>3 DEF Resend, writer, page
<1>4. ASSUME NEW message \in Ids \cup {Sync}, TakeRequest(message)
      PROVE  /\ Elements(client.uplink) = {message} \cup Elements(client'.uplink)
             /\ client'.pending = client.pending /\ WireAcks' = WireAcks
             /\ \A m \in client.pending : m.id # Sync
             /\ UNCHANGED <<ui, task, wire>>
  <2>1. /\ client.uplink # <<>> /\ Head(client.uplink) = message
        /\ client' = [client EXCEPT !.uplink = Tail(@)] /\ UNCHANGED <<ui, task, wire>>
    BY <1>4 DEF TakeRequest, writer
  <2>2. client'.uplink = Tail(client.uplink) /\ client'.pending = client.pending
    BY <1>0, <2>1 DEF Clients
  <2>3. Elements(client.uplink) = {message} \cup Elements(client'.uplink)
    BY <1>0, <2>1, <2>2, ElementsOf
  <2>4. \A m \in client.pending : m.id # Sync
    BY <1>0, IdsFinite DEF Clients
  <2>5. WireAcks' = WireAcks
    BY <2>1 DEF WireAcks
  <2> QED
    BY <2>1, <2>2, <2>3, <2>4, <2>5
<1>5. CASE AnswerRequest
  <2>1. TakeRequest(Sync) /\ UNCHANGED <<acking, acks>>
    BY <1>5 DEF AnswerRequest, queue
  <2>2. AllAcks' = AllAcks /\ UNCHANGED <<ui, task, wire>> /\ client'.pending = client.pending
    BY <1>4, <2>1 DEF AllAcks
  <2>3. ASSUME NEW m \in client.pending, m.epoch = 0 PROVE m.id \in Unanswered'
    <3>1. m.id \in Unanswered /\ m.id # Sync
      BY <1>4, <1>a, <2>1, <2>3
    <3> QED
      BY <1>4, <2>1, <2>2, <3>1 DEF Unanswered
  <2> QED
    BY <1>a, <2>1, <2>2, <2>3 DEF AcksMoved
<1>6. ASSUME NEW id \in Ids, NEW d \in Mutable, Mutate(id, d) PROVE AcksMoved
  <2>1. TakeRequest(id) /\ acking = <<>> /\ acking' = <<id>> /\ UNCHANGED acks
    BY <1>6 DEF Mutate, TakeRequest, Free
  <2>2. AllAcks' = AllAcks /\ UNCHANGED <<ui, task, wire>> /\ client'.pending = client.pending
    BY <1>4, <2>1 DEF AllAcks
  <2>3. Elements(acking') = {id} /\ Head(acking') = id
    BY <2>1 DEF Elements
  <2>4. Unanswered \subseteq Unanswered'
    BY <1>4, <1>e, <2>1, <2>2, <2>3 DEF Unanswered
  <2> QED
    BY <1>a, <2>2, <2>3, <2>4 DEF AcksMoved
<1>7. ASSUME NEW x \in Ids, NEW accepted \in BOOLEAN, acks' = Append(acks, Ack(x, accepted))
      PROVE  Elements(acks') = Elements(acks) \cup {Ack(x, accepted)}
             /\ Ack(x, accepted).id = x /\ Ack(x, accepted).epoch = epoch
  <2>1. Ack(x, accepted) \in Acks /\ Ack(x, accepted).id = x /\ Ack(x, accepted).epoch = epoch
    BY <1>0 DEF Ack, Acks
  <2> QED
    BY <1>0, <1>7, <2>1, ElementsOf
<1>8. ASSUME NEW id \in Ids, NEW accepted \in BOOLEAN, MutateNothing(id, accepted) PROVE AcksMoved
  <2>1. TakeRequest(id) /\ acks' = Append(acks, Ack(id, accepted)) /\ UNCHANGED acking
    BY <1>8 DEF MutateNothing
  <2>2. /\ AllAcks' = AllAcks \cup {Ack(id, accepted)} /\ UNCHANGED <<ui, task, wire>>
        /\ client'.pending = client.pending
    BY <1>4, <1>7, <2>1 DEF AllAcks
  <2>3. Unanswered \subseteq Unanswered'
    BY <1>4, <1>7, <2>1, <2>2 DEF Unanswered
  <2> QED
    BY <1>a, <1>7, <2>1, <2>2, <2>3 DEF AcksMoved
<1>9. CASE SendAck
  <2> DEFINE x == Head(acking)
  <2>1. /\ acking # <<>> /\ acks' = Append(acks, Ack(x, TRUE)) /\ acking' = <<>>
        /\ UNCHANGED <<client, task, wire, ui>>
    BY <1>9 DEF SendAck, writer, page
  <2>2. x \in Ids /\ Elements(acking) \subseteq {x}
    BY <1>0, <1>a, <2>1, TailFacts
  <2> HIDE DEF x
  <2>3. AllAcks' = AllAcks \cup {Ack(x, TRUE)}
    <3>1. Elements(acks') = Elements(acks) \cup {Ack(x, TRUE)}
      BY <1>7, <2>1, <2>2
    <3>2. Elements(task'.acks) = Elements(task.acks) /\ WireAcks' = WireAcks
      BY <2>1 DEF WireAcks
    <3> QED
      BY <3>1, <3>2 DEF AllAcks
  <2>4. Ack(x, TRUE).id = x /\ Ack(x, TRUE).epoch = epoch
    BY <1>7, <2>1, <2>2
  <2>5. Unanswered \subseteq Unanswered'
    BY <1>e, <2>1, <2>2, <2>3, <2>4 DEF Unanswered
  <2> QED
    BY <1>a, <1>e, <2>1, <2>3, <2>4, <2>5 DEF AcksMoved
<1>10. CASE TakePending
  <2>1. /\ task'.acks = acks /\ acks' = <<>> /\ ui = "idle" /\ ui' # "idle"
        /\ UNCHANGED <<client, acking, wire>>
    BY <1>10 DEF TakePending, compositor, page
  <2>2. task.acks = <<>>
    BY <1>a, <2>1 DEF NoTask
  <2>3. AllAcks' = AllAcks
    BY <1>e, <2>1, <2>2 DEF AllAcks, WireAcks
  <2>4. Unanswered' = Unanswered
    BY <2>1, <2>3 DEF Unanswered
  <2> QED
    BY <1>a, <2>1, <2>3, <2>4 DEF AcksMoved
<1>11. CASE BeginPublish
  <2>1. ui' # "idle" /\ UNCHANGED <<client, acking, acks, task, wire>>
    BY <1>11 DEF BeginPublish, compositor, queue, page
  <2>2. AllAcks' = AllAcks
    BY <2>1 DEF AllAcks, WireAcks
  <2>3. Unanswered' = Unanswered
    BY <2>1, <2>2 DEF Unanswered
  <2> QED
    BY <1>a, <2>1, <2>2, <2>3 DEF AcksMoved
<1>12. CASE EndPublish
  <2> DEFINE message == [type |-> "notify", details |-> {}, acks |-> <<>>]
  <2>1. /\ ui' # "idle" /\ wire' = Append(wire, message)
        /\ UNCHANGED <<client, acking, acks, task>>
    BY <1>12 DEF EndPublish, compositor, queue, page
  <2>2. message \in Wired /\ message.acks = <<>>
    BY DEF Wired
  <2> HIDE DEF message
  <2>3. /\ WireAcks' = WireAcks \cup Elements(message.acks)
        /\ DOMAIN wire = 1 .. Len(wire) /\ DOMAIN wire' = 1 .. Len(wire) + 1 /\ Len(wire) \in Nat
        /\ \A i \in DOMAIN wire : i \in DOMAIN wire' /\ wire'[i] = wire[i]
        /\ wire'[Len(wire) + 1] = message
    BY <1>0, <2>1, <2>2, WireAppend
  <2>4. AllAcks' = AllAcks
    BY <1>e, <2>1, <2>2, <2>3 DEF AllAcks
  <2>5. Unanswered' = Unanswered
    BY <2>1, <2>4 DEF Unanswered
  <2>6. \A i \in DOMAIN wire' : i \in DOMAIN wire \/ i = Len(wire) + 1
    BY <2>3
  <2> QED
    BY <1>a, <2>1, <2>2, <2>3, <2>4, <2>5, <2>6 DEF AcksMoved
<1>13. CASE ApplyDetails
  <2> DEFINE message == [type |-> "batch", details |-> task.details, acks |-> task.acks]
  <2>1. /\ wire' = Append(wire, message) /\ task' = NoTask
        /\ UNCHANGED <<client, acking, acks>>
    BY <1>13 DEF ApplyDetails, compositor, queue, page
  <2>2. message \in Wired /\ message.acks = task.acks /\ message.type # "notify"
    <3>1. task.details \subseteq Details
      BY DEF TypeInv
    <3> QED
      BY <1>0, <3>1 DEF Wired
  <2> HIDE DEF message
  <2>3. /\ WireAcks' = WireAcks \cup Elements(message.acks)
        /\ DOMAIN wire = 1 .. Len(wire) /\ DOMAIN wire' = 1 .. Len(wire) + 1 /\ Len(wire) \in Nat
        /\ \A i \in DOMAIN wire : i \in DOMAIN wire' /\ wire'[i] = wire[i]
        /\ wire'[Len(wire) + 1] = message
    BY <1>0, <2>1, <2>2, WireAppend
  <2>4. AllAcks' = AllAcks
    <3>1. task'.acks = <<>>
      BY <2>1 DEF NoTask
    <3> QED
      BY <1>e, <2>1, <2>2, <2>3, <3>1 DEF AllAcks
  <2>5. Unanswered' = Unanswered
    BY <2>1, <2>4 DEF Unanswered
  <2>6. \A i \in DOMAIN wire' : i \in DOMAIN wire \/ i = Len(wire) + 1
    BY <2>3
  <2> QED
    BY <1>a, <2>1, <2>2, <2>3, <2>4, <2>5, <2>6 DEF AcksMoved
<1>14. CASE Page
  <2>1. /\ UNCHANGED <<acking, acks, ui, task>> /\ Sound(client') /\ Later(client, client')
        /\ \A ack \in Elements(Head(wire).acks) :
              \A m \in client'.pending : m.epoch = 0 => m.id # ack.id
    BY <1>14, PageGives DEF compositor, queue, writer
  <2>2. AllAcks' \subseteq AllAcks /\ AllAcks \subseteq AllAcks' \cup Elements(Head(wire).acks)
    BY <1>14, <2>1, WireTail DEF AllAcks
  <2>3. /\ DOMAIN wire = 1 .. Len(wire) /\ DOMAIN wire' = 1 .. Len(wire) - 1
        /\ \A i \in DOMAIN wire' : i + 1 \in DOMAIN wire /\ wire'[i] = wire[i + 1]
    BY <1>14, Received
  <2>4. Elements(client.uplink) \subseteq Elements(client'.uplink)
    <3>1. client'.uplink \in Seq(Ids \cup {Sync})
      BY <2>1 DEF Sound, Clients
    <3>2. ASSUME NEW i \in DOMAIN client.uplink
          PROVE  i \in DOMAIN client'.uplink /\ client'.uplink[i] = client.uplink[i]
      <4>1. /\ DOMAIN client.uplink = 1 .. Len(client.uplink) /\ Len(client.uplink) \in Nat
            /\ DOMAIN client'.uplink = 1 .. Len(client'.uplink) /\ Len(client'.uplink) \in Nat
        BY <1>0, <3>1
      <4> QED
        BY <2>1, <4>1 DEF Later
    <3> QED
      BY <3>2 DEF Elements
  <2>5. ASSUME NEW m \in client'.pending, m.epoch = 0 PROVE m.id \in Unanswered'
    <3>1. PICK n \in client.pending : n.id = m.id /\ n.epoch = 0
      BY <2>1, <2>5 DEF Later
    <3>2. m.id \in Unanswered
      BY <1>a, <3>1
    <3> QED
      BY <2>1, <2>2, <2>4, <2>5, <3>2 DEF Unanswered
  <2>6. \A i \in DOMAIN wire' : wire'[i].type = "notify" => wire'[i].acks = <<>>
    BY <1>a, <2>3
  <2> QED
    BY <1>a, <2>1, <2>2, <2>5, <2>6 DEF AcksMoved
<1>15. ASSUME UNCHANGED <<acking, acks, ui, task, wire>>,
              Elements(client.uplink) \subseteq Elements(client'.uplink),
              \A m \in client'.pending :
                m.epoch = 0 => \/ m.id \in Elements(client'.uplink)
                               \/ \E n \in client.pending : n.id = m.id /\ n.epoch = 0
       PROVE  AcksMoved
  <2>1. AllAcks' = AllAcks
    BY <1>15 DEF AllAcks, WireAcks
  <2>2. Unanswered \subseteq Unanswered' /\ Elements(client'.uplink) \subseteq Unanswered'
    BY <1>15, <2>1 DEF Unanswered
  <2> QED
    BY <1>15, <1>a, <2>1, <2>2 DEF AcksMoved
<1>16. CASE SendMutation
  <2> DEFINE new == changes + 1
             m   == [id |-> new, epoch |-> 0, old |-> FALSE]
  <2>1. /\ changes < MaxChanges /\ UNCHANGED <<acking, acks, ui, task, wire>>
        /\ client' = [client EXCEPT !.uplink = Append(@, new), !.pending = @ \cup {m}]
    BY <1>16 DEF SendMutation, queue, writer
  <2>2. new \in Ids
    BY <2>1, BoundsAssumption DEF Ids, TypeInv, TypeOK
  <2>3. m.id = new
    OBVIOUS
  <2> HIDE DEF new, m
  <2>4. client'.uplink = Append(client.uplink, new) /\ client'.pending = client.pending \cup {m}
    <3>1. DOMAIN client = {"uplink", "pending", "deferred", "recent", "throttled"}
      BY <1>0 DEF Clients
    <3>2. client' = [client EXCEPT !.uplink = Append(@, new), !.pending = @ \cup {m}]
      BY <2>1
    <3> QED
      BY <3>1, <3>2
  <2>5. Elements(client'.uplink) = Elements(client.uplink) \cup {new}
    <3>1. new \in Ids \cup {Sync}
      BY <2>2
    <3>2. Elements(Append(client.uplink, new)) = Elements(client.uplink) \cup {new}
      BY <1>0, <3>1, ElementsOf
    <3> QED
      BY <2>4, <3>2
  <2> QED
    BY <1>15, <2>1, <2>3, <2>4, <2>5
<1>17. CASE TimePasses
  <2>1. UNCHANGED <<acking, acks, ui, task, wire>>
    BY <1>17 DEF TimePasses, compositor, queue, writer
  <2>2. CASE client.recent /\ client' = [client EXCEPT !.recent = FALSE]
    <3>1. client'.uplink = client.uplink /\ client'.pending = client.pending
      BY <1>0, <2>2 DEF Clients
    <3> QED
      BY <1>15, <2>1, <3>1
  <2>3. ASSUME NEW m \in client.pending,
               client' = [client EXCEPT !.pending = (@ \ {m}) \cup {[m EXCEPT !.old = TRUE]}]
        PROVE  AcksMoved
    <3> DEFINE n == [m EXCEPT !.old = TRUE]
    <3>1. n.id = m.id /\ n.epoch = m.epoch
      BY <1>0 DEF Clients
    <3>2. client' = [client EXCEPT !.pending = (@ \ {m}) \cup {n}]
      BY <2>3
    <3> HIDE DEF n
    <3>3. client'.uplink = client.uplink /\ client'.pending = (client.pending \ {m}) \cup {n}
      BY <1>0, <3>2 DEF Clients
    <3> QED
      BY <1>15, <2>1, <3>1, <3>3
  <2> QED
    BY <1>17, <2>2, <2>3 DEF TimePasses
<1>18. CASE UNCHANGED vars
  BY <1>1, <1>18 DEF vars, compositor, queue, writer, page
<1> QED
  BY <1>2, <1>3, <1>5, <1>6, <1>8, <1>9, <1>10, <1>11, <1>12, <1>13, <1>14, <1>16, <1>17, <1>18
  DEF Next, Compositor, Answer, Mutation, UiTask

LEMMA AckStep ==
  ASSUME TypeInv, AckInv, CountInv, SequenceInv, [Next]_vars
  PROVE  AckInv'
<1>1. Sound(client') /\ Awaits(client', lastSeq', epoch') /\ epoch' \in {epoch, epoch + 2}
  BY ClientStep
<1>2. epoch \in Nat \ {0}
  BY DEF SequenceInv
<1>3. \A ack \in AllAcks : ack.epoch \in Nat /\ 0 < ack.epoch /\ ack.epoch <= epoch
  BY AllAcksType DEF AckInv, Acks
<1>4. AcksMoved
  BY AcksMove
<1>5. \A ack \in AllAcks' : 0 < ack.epoch /\ ack.epoch <= epoch'
  <2>1. \A ack \in AllAcks' : ack.epoch \in Nat /\ 0 < ack.epoch /\ ack.epoch <= epoch
    BY <1>2, <1>3, <1>4 DEF AcksMoved
  <2> QED
    BY <1>1, <1>2, <2>1
<1> QED
  BY <1>1, <1>4, <1>5 DEF AckInv, AcksMoved

(***************************************************************************)
(* The details.                                                            *)
(***************************************************************************)
LEMMA DetailInit == Init => DetailInv
<1> SUFFICES ASSUME Init PROVE DetailInv
  OBVIOUS
<1>1. /\ details = {} /\ snapshot = {} /\ task.details = {} /\ ui = "idle" /\ wire = <<>>
  BY DEF Init, NoTask
<1> QED
  BY <1>1 DEF DetailInv, One, DomainsOf, Taken

\* A message replaces the detail of its domain.
LEMMA SendGives ==
  ASSUME TypeInv, LatestInv, NEW d \in Domains, NEW v, Send(d, v)
  PROVE  /\ \A m \in details' :
              \/ m \in details /\ m.domain # d
              \/ m.domain = d /\ m.value = v /\ m.epoch = epoch'
         /\ One(details) => One(details')
         /\ DomainsOf(details) = snapshot => DomainsOf(details') = snapshot'
         /\ epoch' = epoch + 2 /\ snapshot' = snapshot \cup {d}
         /\ epoch \in Nat /\ shm.seq \in Nat /\ lastSeq \in Nat
         /\ shm.seq <= epoch /\ lastSeq <= epoch
<1> DEFINE new == [domain |-> d, value |-> v, epoch |-> epoch']
<1>1. /\ details' = {m \in details : m.domain # d} \cup {new}
      /\ epoch' = epoch + 2 /\ snapshot' = snapshot \cup {d}
  BY DEF Send
<1>2. new.domain = d /\ new.value = v /\ new.epoch = epoch'
  OBVIOUS
<1>3. epoch \in Nat /\ shm.seq \in Nat /\ lastSeq \in Nat /\ shm.seq <= epoch /\ lastSeq <= epoch
  BY DEF TypeInv, TypeOK, LatestInv
<1> HIDE DEF new
<1>4. One(details) => One(details')
  BY <1>1, <1>2 DEF One
<1>5. DomainsOf(details) = snapshot => DomainsOf(details') = snapshot'
  <2> SUFFICES ASSUME DomainsOf(details) = snapshot PROVE DomainsOf(details') = snapshot'
    OBVIOUS
  <2>1. ASSUME NEW e \in DomainsOf(details') PROVE e \in snapshot'
    <3>1. PICK m \in details' : m.domain = e
      BY DEF DomainsOf
    <3>2. m \in details => e \in snapshot
      BY <3>1 DEF DomainsOf
    <3> QED
      BY <1>1, <1>2, <3>1, <3>2
  <2>2. ASSUME NEW e \in snapshot' PROVE e \in DomainsOf(details')
    <3>1. CASE e = d
      BY <1>1, <1>2, <3>1 DEF DomainsOf
    <3>2. CASE e # d
      <4>1. e \in DomainsOf(details)
        BY <1>1, <2>2, <3>2
      <4>2. PICK m \in details : m.domain = e
        BY <4>1 DEF DomainsOf
      <4>3. m \in details'
        BY <1>1, <3>2, <4>2
      <4> QED
        BY <4>2, <4>3 DEF DomainsOf
    <3> QED
      BY <3>1, <3>2
  <2> QED
    BY <2>1, <2>2
<1> QED
  BY <1>1, <1>2, <1>3, <1>4, <1>5

\* Who sends, and what else changes then.
Sends(d) == Send(d, truth'[d]) /\ UNCHANGED <<writer, wire, lastSeq, lastRevisions, lastFlags, view>>
Sent ==
  \E d \in Domains :
    /\ Sends(d)
    /\ \/ truth' = [truth EXCEPT ![d] = @ + 1] /\ UNCHANGED resending
       \/ /\ UNCHANGED truth
          /\ resending # <<>> /\ d = Head(resending) /\ resending' = Tail(resending)
    /\ Owed(client) => Owed(client')
\* Nothing of the recovery changes, or the recovery is answered.
Rests ==
  /\ UNCHANGED <<truth, epoch, details, snapshot, writer, wire, lastSeq, lastRevisions, lastFlags, view>>
  /\ \/ UNCHANGED resending /\ (Owed(client) => Owed(client'))
     \/ resending' = Resent /\ resending = <<>>

LEMMA OwedStays ==
  ASSUME TypeInv, \/ SendMutation \/ TimePasses \/ UNCHANGED client
                  \/ \E id \in Ids : TakeRequest(id)
  PROVE  Owed(client) => Owed(client')
<1>0. /\ client \in Clients /\ client.uplink \in Seq(Ids \cup {Sync})
      /\ DOMAIN client = {"uplink", "pending", "deferred", "recent", "throttled"}
      /\ changes \in 0 .. MaxChanges
  BY DEF TypeInv, TypeOK, Clients
<1>1. CASE SendMutation
  <2> DEFINE new == changes + 1
             m   == [id |-> new, epoch |-> 0, old |-> FALSE]
  <2>1. /\ changes < MaxChanges
        /\ client' = [client EXCEPT !.uplink = Append(@, new), !.pending = @ \cup {m}]
    BY <1>1 DEF SendMutation
  <2>2. new \in Ids \cup {Sync}
    BY <1>0, <2>1, BoundsAssumption DEF Ids
  <2> HIDE DEF new, m
  <2>3. Elements(Append(client.uplink, new)) = Elements(client.uplink) \cup {new}
    BY <1>0, <2>2, ElementsOf
  <2>4. /\ client'.uplink = Append(client.uplink, new) /\ client'.deferred = client.deferred
        /\ client'.throttled = client.throttled
    BY <1>0, <2>1
  <2> QED
    BY <2>3, <2>4 DEF Owed
<1>2. CASE TimePasses
  <2>1. /\ client'.uplink = client.uplink /\ client'.deferred = client.deferred
        /\ client'.throttled = client.throttled
    BY <1>0, <1>2 DEF TimePasses
  <2> QED
    BY <2>1 DEF Owed
<1>3. ASSUME NEW id \in Ids, TakeRequest(id) PROVE Owed(client) => Owed(client')
  <2>1. /\ client.uplink # <<>> /\ Head(client.uplink) = id
        /\ client' = [client EXCEPT !.uplink = Tail(@)]
    BY <1>3 DEF TakeRequest
  <2>2. Elements(client.uplink) = {id} \cup Elements(Tail(client.uplink)) /\ id # Sync
    BY <1>0, <2>1, ElementsOf, IdsFinite
  <2>3. /\ client'.uplink = Tail(client.uplink) /\ client'.deferred = client.deferred
        /\ client'.throttled = client.throttled
    BY <1>0, <2>1
  <2> QED
    BY <2>2, <2>3 DEF Owed
<1> QED
  BY <1>1, <1>2, <1>3

\* Every step sends, rests, or is one of the UI task or the page.
LEMMA StepsAre ==
  ASSUME TypeInv, [Next]_vars
  PROVE  Sent \/ Rests \/ UiTask \/ Page
<1>1. ASSUME NEW d \in Domains, Change(d) PROVE Sent
  BY <1>1 DEF Change, Sent, Sends, page
<1>2. CASE AnswerRequest
  BY <1>2 DEF AnswerRequest, TakeRequest, Free, Rests, queue
<1>3. CASE Resend
  <2>1. Head(resending) \in Domains
    BY <1>3, TailFacts DEF Resend, TypeInv, TypeOK
  <2>2. Sends(Head(resending)) /\ UNCHANGED <<truth, client>>
    BY <1>3 DEF Resend, Sends, page
  <2> QED
    BY <1>3, <2>1, <2>2 DEF Resend, Sent
<1>4. CASE SendAck
  BY <1>4, OwedStays DEF SendAck, Rests, page
<1>5. ASSUME NEW id \in Ids, NEW d \in Mutable, Mutate(id, d) PROVE Sent
  <2>1. d \in Domains /\ (Owed(client) => Owed(client'))
    BY <1>5, DomainsAssumption, OwedStays DEF Mutate
  <2> QED
    BY <1>5, <2>1 DEF Mutate, TakeRequest, Sent, Sends
<1>6. ASSUME NEW id \in Ids, NEW accepted \in BOOLEAN, MutateNothing(id, accepted) PROVE Rests
  <2>1. Owed(client) => Owed(client')
    BY <1>6, OwedStays DEF MutateNothing
  <2> QED
    BY <1>6, <2>1 DEF MutateNothing, TakeRequest, Rests
<1>7. CASE SendMutation \/ TimePasses
  <2>1. Owed(client) => Owed(client')
    BY <1>7, OwedStays
  <2> QED
    BY <1>7, <2>1 DEF SendMutation, TimePasses, Rests, compositor, queue
<1>8. CASE UNCHANGED vars
  BY <1>8 DEF vars, compositor, queue, page, Rests
<1> QED
  BY <1>1, <1>2, <1>3, <1>4, <1>5, <1>6, <1>7, <1>8 DEF Next, Compositor, Answer, Mutation

LEMMA EndGives ==
  ASSUME TypeInv, EndPublish
  PROVE  /\ ui = "end" /\ ui' = "apply"
         /\ shm'.seq = task.epoch /\ shm'.flags = task.domains
         /\ shm'.revisions = authoritative.revisions /\ shm'.values = authoritative.values
         /\ UNCHANGED <<compositor, queue, task, authoritative, page>>
         /\ Len(wire) \in Nat /\ DOMAIN wire = 1 .. Len(wire) /\ DOMAIN wire' = 1 .. Len(wire) + 1
         /\ \A i \in DOMAIN wire : i \in DOMAIN wire' /\ wire'[i] = wire[i]
         /\ \A i \in DOMAIN wire' : i \in DOMAIN wire \/ wire'[i].details = {}
<1> DEFINE message == [type |-> "notify", details |-> {}, acks |-> <<>>]
<1>1. message \in Wired /\ message.details = {}
  BY DEF Wired
<1>2. /\ wire' = Append(wire, message) /\ wire \in Seq(Wired)
      /\ shm' = [seq |-> task.epoch, flags |-> task.domains,
                 revisions |-> authoritative.revisions, values |-> authoritative.values]
  BY DEF EndPublish, TypeInv, TypeOK
<1> HIDE DEF message
<1>3. /\ Len(wire) \in Nat /\ DOMAIN wire = 1 .. Len(wire) /\ DOMAIN wire' = 1 .. Len(wire) + 1
      /\ \A i \in DOMAIN wire : i \in DOMAIN wire' /\ wire'[i] = wire[i]
      /\ wire'[Len(wire) + 1] = message
  BY <1>1, <1>2, WireAppend
<1>4. \A i \in DOMAIN wire' : i \in DOMAIN wire \/ wire'[i].details = {}
  BY <1>1, <1>3
<1> QED
  BY <1>2, <1>3, <1>4 DEF EndPublish

LEMMA ApplyGives ==
  ASSUME TypeInv, ApplyDetails
  PROVE  /\ ui = "apply" /\ ui' = "idle" /\ task'.details = {}
         /\ UNCHANGED <<compositor, queue, authoritative, shm, page>>
         /\ Len(wire) \in Nat /\ DOMAIN wire = 1 .. Len(wire) /\ DOMAIN wire' = 1 .. Len(wire) + 1
         /\ \A i \in DOMAIN wire : i \in DOMAIN wire' /\ wire'[i] = wire[i]
         /\ wire'[Len(wire) + 1].details = task.details
         /\ wire'[Len(wire) + 1].type = "batch"
<1> DEFINE message == [type |-> "batch", details |-> task.details, acks |-> task.acks]
<1>1. message \in Wired /\ message.details = task.details /\ message.type = "batch"
  BY DEF Wired, TypeInv
<1>2. wire' = Append(wire, message) /\ wire \in Seq(Wired) /\ task' = NoTask
  BY DEF ApplyDetails, TypeInv, TypeOK
<1> HIDE DEF message
<1>3. /\ Len(wire) \in Nat /\ DOMAIN wire = 1 .. Len(wire) /\ DOMAIN wire' = 1 .. Len(wire) + 1
      /\ \A i \in DOMAIN wire : i \in DOMAIN wire' /\ wire'[i] = wire[i]
      /\ wire'[Len(wire) + 1] = message
  BY <1>1, <1>2, WireAppend
<1> QED
  BY <1>1, <1>2, <1>3 DEF ApplyDetails, NoTask

LEMMA TakeGives ==
  ASSUME TypeInv, AckInv, TakePending
  PROVE  /\ ui = "idle" /\ ui' = IF snapshot = {} THEN "apply" ELSE "publish"
         /\ task.details = {} /\ details' = {} /\ snapshot' = {}
         /\ task'.details = details /\ task'.domains = snapshot /\ task'.values = truth
         /\ task'.epoch = epoch
         /\ UNCHANGED <<compositor, authoritative, shm, wire, page>>
BY DEF TakePending, AckInv, NoTask

LEMMA DetailStep ==
  ASSUME TypeInv, LatestInv, AckInv, DetailInv, [Next]_vars
  PROVE  DetailInv'
<1>0. /\ One(details) /\ DomainsOf(details) = snapshot /\ One(task.details)
      /\ Taken => DomainsOf(task.details) = task.domains
      /\ \A i \in DOMAIN wire :
           One(wire[i].details) /\ (wire[i].type = "notify" => wire[i].details = {})
  BY DEF DetailInv
<1>e. One({}) /\ DomainsOf({}) = {}
  BY DEF One, DomainsOf
<1>1. CASE Sent
  <2>1. PICK d \in Domains : Sends(d)
    BY <1>1 DEF Sent
  <2>2. Send(d, truth'[d]) /\ UNCHANGED <<ui, task, wire>>
    BY <2>1 DEF Sends, writer
  <2>3. One(details') /\ DomainsOf(details') = snapshot'
    BY <1>0, <2>2, SendGives
  <2> QED
    BY <1>0, <2>2, <2>3 DEF DetailInv, Taken
<1>2. CASE Rests
  <2>1. UNCHANGED <<details, snapshot, ui, task, wire>>
    BY <1>2 DEF Rests, writer
  <2> QED
    BY <1>0, <2>1 DEF DetailInv, Taken
<1>3. CASE TakePending
  BY <1>0, <1>3, <1>e, TakeGives DEF DetailInv, Taken
<1>4. CASE BeginPublish
  <2>1. ui = "publish" /\ ui' = "end" /\ UNCHANGED <<details, snapshot, task, wire>>
    BY <1>4 DEF BeginPublish, queue
  <2> QED
    BY <1>0, <2>1 DEF DetailInv, Taken
<1>5. CASE EndPublish
  <2>1. /\ ui' = "apply" /\ UNCHANGED <<details, snapshot, task>>
        /\ \A i \in DOMAIN wire : i \in DOMAIN wire' /\ wire'[i] = wire[i]
        /\ \A i \in DOMAIN wire' : i \in DOMAIN wire \/ wire'[i].details = {}
    BY <1>5, EndGives DEF queue
  <2> QED
    BY <1>0, <1>e, <2>1 DEF DetailInv, Taken
<1>6. CASE ApplyDetails
  <2> DEFINE n == Len(wire)
  <2>1. /\ ui' = "idle" /\ task'.details = {} /\ UNCHANGED <<details, snapshot>>
        /\ n \in Nat /\ DOMAIN wire = 1 .. n /\ DOMAIN wire' = 1 .. n + 1
        /\ \A i \in DOMAIN wire : i \in DOMAIN wire' /\ wire'[i] = wire[i]
        /\ wire'[n + 1].details = task.details /\ wire'[n + 1].type = "batch"
    BY <1>6, ApplyGives DEF queue
  <2> HIDE DEF n
  <2>2. \A i \in DOMAIN wire' : i \in DOMAIN wire \/ i = n + 1
    BY <2>1
  <2> QED
    BY <1>0, <1>e, <2>1, <2>2 DEF DetailInv, Taken
<1>7. CASE Page
  <2>1. UNCHANGED <<details, snapshot, ui, task>>
    BY <1>7, PageGives DEF queue, writer
  <2>2. \A i \in DOMAIN wire' : i + 1 \in DOMAIN wire /\ wire'[i] = wire[i + 1]
    BY <1>7, Received
  <2> QED
    BY <1>0, <2>1, <2>2 DEF DetailInv, Taken
<1> QED
  BY <1>1, <1>2, <1>3, <1>4, <1>5, <1>6, <1>7, StepsAre DEF UiTask

(* A mutation does not defer the recovery for ever: at rest no             *)
(* acknowledgement is on its way, so whoever still waits waits for a       *)
(* snapshot; but the last one there is was read.                           *)
THEOREM MutationsSettle == Spec => []MutationsSettled
<1> DEFINE I == TypeInv /\ AckInv /\ CountInv /\ SequenceInv /\ LatestInv /\ DetailInv
<1>1. Init => I
  BY TypeInit, SequenceInit, LatestInit, DetailInit
<1>2. I /\ [Next]_vars => I'
  BY CountStep, TypeStep, AckStep, SequenceStep, LatestStep, DetailStep
<1>3. I => MutationsSettled
  <2> SUFFICES ASSUME I, Quiet PROVE client.pending = {} /\ ~client.deferred
    BY DEF MutationsSettled
  <2>1. /\ details = {} /\ acks = <<>> /\ acking = <<>> /\ ui = "idle" /\ wire = <<>>
        /\ client.uplink = <<>>
    BY DEF Quiet, Free
  <2>2. snapshot = {} /\ task = NoTask
    BY <2>1 DEF DetailInv, DomainsOf, AckInv
  <2>3. lastSeq = shm.seq /\ shm.seq = epoch /\ epoch \in Nat
    BY <2>1, <2>2 DEF SequenceInv, LookComing, LatestInv, Taken
  <2>4. Unanswered = {}
    BY <2>1, <2>2 DEF Unanswered, AllAcks, WireAcks, Elements, NoTask
  <2>5. ASSUME NEW m \in client.pending PROVE FALSE
    <3>1. m.epoch # 0
      BY <2>4 DEF AckInv
    <3>2. m.epoch \in Nat
      BY DEF TypeInv, TypeOK, Clients
    <3> QED
      BY <2>3, <3>1, <3>2 DEF AckInv, Awaits
  <2> QED
    BY <2>5 DEF AckInv, Sound
<1> HIDE DEF I
<1> QED
  BY <1>1, <1>2, <1>3, PTL DEF Spec

(* The types of the page's state and of every message on its way, with the *)
(* versions within their bound: a mutation changes the state once, however *)
(* requests and acknowledgements fall.                                     *)
THEOREM TypeCorrect == Spec => []TypeOK
<1> DEFINE I == TypeInv /\ AckInv /\ CountInv /\ SequenceInv
<1>1. Init => I
  BY TypeInit, SequenceInit
<1>2. I /\ [Next]_vars => I'
  BY CountStep, TypeStep, AckStep, SequenceStep
<1>3. I => TypeOK
  BY DEF TypeInv
<1> HIDE DEF I
<1> QED
  BY <1>1, <1>2, <1>3, PTL DEF Spec

(***************************************************************************)
(* Details against the snapshots they come with: the page marks the        *)
(* domains of the snapshot it read, and a detail of that snapshot is of    *)
(* one of them.                                                            *)
(***************************************************************************)
LEMMA EpochsInit == Init => DetailEpochs /\ WriterKnows /\ DetailValues
<1> SUFFICES ASSUME Init PROVE DetailEpochs /\ WriterKnows /\ DetailValues
  OBVIOUS
<1>1. /\ details = {} /\ task.details = {} /\ ui = "idle" /\ wire = <<>> /\ truth = Version0
      /\ authoritative.values = Version0 /\ shm.values = Version0
      /\ authoritative.revisions = shm.revisions
  BY DEF Init, NoTask
<1> QED
  BY <1>1 DEF DetailEpochs, WriterKnows, DetailValues

LEMMA EpochTypes ==
  ASSUME TypeInv
  PROVE  /\ epoch \in Nat /\ shm.seq \in Nat /\ lastSeq \in Nat /\ task.epoch \in Nat
         /\ \A m \in details : m.epoch \in Nat /\ m.domain \in Domains
         /\ \A m \in task.details : m.epoch \in Nat /\ m.domain \in Domains
         /\ \A i \in DOMAIN wire : \A m \in wire[i].details : m.epoch \in Nat /\ m.domain \in Domains
<1>1. details \subseteq Details /\ task.details \subseteq Details /\ wire \in Seq(Wired)
  BY DEF TypeInv, TypeOK
<1>2. \A i \in DOMAIN wire : wire[i] \in Wired
  BY <1>1
<1>3. \A i \in DOMAIN wire : wire[i].details \subseteq Details
  BY <1>2 DEF Wired
<1>4. \A m \in Details : m.epoch \in Nat /\ m.domain \in Domains
  BY DEF Details
<1>5. task.epoch \in Nat
  BY DEF TypeInv
<1>6. epoch \in Nat /\ shm.seq \in Nat /\ lastSeq \in Nat
  BY DEF TypeInv, TypeOK
<1> QED
  BY <1>1, <1>3, <1>4, <1>5, <1>6

LEMMA EpochsStep ==
  ASSUME TypeInv, SequenceInv, LatestInv, AckInv, DetailInv, DetailEpochs, [Next]_vars
  PROVE  DetailEpochs'
<1>0. /\ \A m \in details : Marked(m) /\ m.epoch <= epoch /\ (Taken => task.epoch < m.epoch)
      /\ \A m \in task.details : Marked(m) /\ m.epoch <= epoch /\ (snapshot # {} => m.epoch < epoch)
      /\ \A i \in DOMAIN wire : \A m \in wire[i].details :
           /\ Marked(m) /\ m.epoch <= epoch /\ (snapshot # {} => m.epoch < epoch)
           /\ Taken => m.epoch < task.epoch
  BY DEF DetailEpochs
<1>t. /\ epoch \in Nat /\ shm.seq \in Nat /\ lastSeq \in Nat /\ task.epoch \in Nat
      /\ \A m \in details : m.epoch \in Nat
      /\ \A m \in task.details : m.epoch \in Nat
      /\ \A i \in DOMAIN wire : \A m \in wire[i].details : m.epoch \in Nat
  BY EpochTypes
<1>1. CASE Sent
  <2>1. PICK d \in Domains : Sends(d)
    BY <1>1 DEF Sent
  <2>2. Send(d, truth'[d]) /\ UNCHANGED <<ui, task, shm, wire, lastSeq, lastFlags>>
    BY <2>1 DEF Sends, writer
  <2>3. /\ \A m \in details' : m \in details \/ m.epoch = epoch'
        /\ epoch' = epoch + 2 /\ snapshot' # {} /\ shm.seq <= epoch /\ lastSeq <= epoch
    BY <2>2, SendGives
  <2>4. ASSUME NEW m, Marked(m) PROVE Marked(m)'
    BY <2>2, <2>4 DEF Marked
  <2>5. ASSUME NEW m \in details'
        PROVE  Marked(m)' /\ m.epoch <= epoch' /\ (Taken' => task'.epoch < m.epoch)
    <3>1. CASE m \in details
      BY <1>0, <1>t, <2>2, <2>3, <2>4, <3>1 DEF Taken
    <3>2. CASE m.epoch = epoch'
      <4>1. Taken => task.epoch <= epoch
        BY DEF LatestInv
      <4> QED
        BY <1>t, <2>2, <2>3, <3>2, <4>1 DEF Taken, Marked
    <3> QED
      BY <2>3, <3>1, <3>2
  <2>6. \A m \in task'.details :
          Marked(m)' /\ m.epoch <= epoch' /\ (snapshot' # {} => m.epoch < epoch')
    BY <1>0, <1>t, <2>2, <2>3, <2>4
  <2>7. \A i \in DOMAIN wire' : \A m \in wire'[i].details :
           /\ Marked(m)' /\ m.epoch <= epoch' /\ (snapshot' # {} => m.epoch < epoch')
           /\ Taken' => m.epoch < task'.epoch
    BY <1>0, <1>t, <2>2, <2>3, <2>4 DEF Taken
  <2> QED
    BY <2>5, <2>6, <2>7 DEF DetailEpochs
<1>2. CASE Rests
  <2>1. UNCHANGED <<epoch, details, snapshot, ui, task, shm, wire, lastSeq, lastFlags>>
    BY <1>2 DEF Rests, writer
  <2> QED
    BY <1>0, <2>1 DEF DetailEpochs, Marked, Taken
<1>3. CASE TakePending
  <2>1. /\ ui = "idle" /\ ui' = IF snapshot = {} THEN "apply" ELSE "publish"
        /\ details' = {} /\ snapshot' = {} /\ task'.details = details /\ task'.epoch = epoch
        /\ UNCHANGED <<epoch, shm, wire, lastSeq, lastFlags>>
    BY <1>3, TakeGives DEF compositor, page
  <2>2. ASSUME NEW m, Marked(m) PROVE Marked(m)'
    BY <2>1, <2>2 DEF Marked
  <2> QED
    BY <1>0, <2>1, <2>2 DEF DetailEpochs, Taken
<1>4. CASE BeginPublish
  <2>1. /\ ui = "publish" /\ ui' = "end"
        /\ UNCHANGED <<epoch, details, snapshot, task, wire, lastSeq, lastFlags>>
    BY <1>4 DEF BeginPublish, compositor, queue, page
  <2>2. ASSUME NEW m, Marked(m) PROVE Marked(m)'
    BY <2>1, <2>2 DEF Marked
  <2> QED
    BY <1>0, <2>1, <2>2 DEF DetailEpochs, Taken
<1>5. CASE EndPublish
  <2>1. /\ ui = "end" /\ ui' = "apply" /\ shm'.seq = task.epoch /\ shm'.flags = task.domains
        /\ UNCHANGED <<epoch, details, snapshot, task, lastSeq, lastFlags>>
        /\ \A i \in DOMAIN wire : i \in DOMAIN wire' /\ wire'[i] = wire[i]
        /\ \A i \in DOMAIN wire' : i \in DOMAIN wire \/ wire'[i].details = {}
    BY <1>5, EndGives DEF compositor, queue, page
  <2>2. ASSUME NEW m, Marked(m), m.epoch = task.epoch => m.domain \in task.domains
        PROVE  Marked(m)'
    BY <2>1, <2>2 DEF Marked
  <2>3. \A m \in details : Marked(m)'
    BY <1>0, <1>t, <2>1, <2>2 DEF Taken
  <2>4. \A m \in task.details : Marked(m)'
    <3>1. \A m \in task.details : m.domain \in task.domains
      BY <2>1 DEF DetailInv, Taken, DomainsOf
    <3> QED
      BY <1>0, <2>2, <3>1
  <2>5. ASSUME NEW i \in DOMAIN wire', NEW m \in wire'[i].details
        PROVE  i \in DOMAIN wire /\ m \in wire[i].details /\ Marked(m)'
    <3>1. i \in DOMAIN wire /\ m \in wire[i].details
      BY <2>1
    <3> QED
      BY <1>0, <1>t, <2>1, <2>2, <3>1 DEF Taken
  <2> QED
    BY <1>0, <2>1, <2>3, <2>4, <2>5 DEF DetailEpochs, Taken
<1>6. CASE ApplyDetails
  <2> DEFINE n == Len(wire)
  <2>1. /\ ui = "apply" /\ ui' = "idle" /\ task'.details = {}
        /\ UNCHANGED <<epoch, details, snapshot, shm, lastSeq, lastFlags>>
        /\ n \in Nat /\ DOMAIN wire = 1 .. n /\ DOMAIN wire' = 1 .. n + 1
        /\ \A i \in DOMAIN wire : i \in DOMAIN wire' /\ wire'[i] = wire[i]
        /\ wire'[n + 1].details = task.details
    BY <1>6, ApplyGives DEF compositor, queue, page
  <2> HIDE DEF n
  <2>2. ASSUME NEW m, Marked(m) PROVE Marked(m)'
    BY <2>1, <2>2 DEF Marked
  <2>3. \A i \in DOMAIN wire' : i \in DOMAIN wire \/ i = n + 1
    BY <2>1
  <2> QED
    BY <1>0, <2>1, <2>2, <2>3 DEF DetailEpochs, Taken
<1>7. CASE Page
  <2>1. UNCHANGED <<epoch, details, snapshot, ui, task, shm>>
    BY <1>7, PageGives DEF compositor, queue, writer
  <2>2. \A i \in DOMAIN wire' : i + 1 \in DOMAIN wire /\ wire'[i] = wire[i + 1]
    BY <1>7, Received
  <2>3. \/ UNCHANGED <<lastSeq, lastFlags>>
        \/ Readable /\ lastSeq' = shm.seq /\ lastFlags' = shm.flags
    BY <1>7 DEF Page, SyncOnNotify, IgnoreNotify, SyncOnBatch, WakeOnBatch, Read, page
  <2>4. Readable => ui # "end"
    BY <1>t DEF Readable, LatestInv, SequenceInv
  <2>5. ASSUME NEW m, Marked(m) PROVE Marked(m)'
    BY <2>1, <2>3, <2>4, <2>5 DEF Marked
  <2> QED
    BY <1>0, <2>1, <2>2, <2>5 DEF DetailEpochs, Taken
<1> QED
  BY <1>1, <1>2, <1>3, <1>4, <1>5, <1>6, <1>7, StepsAre DEF UiTask

(***************************************************************************)
(* The versions the writer and the details carry.                          *)
(***************************************************************************)
LEMMA WriterStep ==
  ASSUME TypeInv, AckInv, DetailInv, WriterKnows, [Next]_vars
  PROVE  WriterKnows'
<1>0. /\ \A d \in Domains \ snapshot :
           truth[d] = IF ui = "publish" /\ d \in task.domains THEN task.values[d]
                      ELSE authoritative.values[d]
      /\ \A d \in Domains :
           IF ui = "end" /\ d \in task.domains
           THEN authoritative.revisions[d] = shm.revisions[d] + 1
           ELSE /\ authoritative.revisions[d] = shm.revisions[d]
                /\ authoritative.values[d] = shm.values[d]
  BY DEF WriterKnows
<1>t. /\ truth \in [Domains -> 0 .. MaxChanges] /\ snapshot \subseteq Domains
      /\ task.values \in [Domains -> 0 .. MaxChanges] /\ task.domains \subseteq Domains
      /\ authoritative.values \in [Domains -> 0 .. MaxChanges]
      /\ authoritative.revisions \in [Domains -> Nat]
      /\ DOMAIN shm = {"seq", "flags", "revisions", "values"}
  BY DEF TypeInv, TypeOK
<1>1. CASE Sent
  <2>1. PICK d \in Domains :
          Sends(d) /\ (truth' = [truth EXCEPT ![d] = @ + 1] \/ UNCHANGED truth)
    BY <1>1 DEF Sent
  <2>2. snapshot' = snapshot \cup {d} /\ UNCHANGED <<ui, task, authoritative, shm>>
    BY <2>1 DEF Sends, Send, writer
  <2>3. \A e \in Domains \ snapshot' : e \in Domains \ snapshot /\ truth'[e] = truth[e]
    BY <1>t, <2>1, <2>2
  <2> QED
    BY <1>0, <2>2, <2>3 DEF WriterKnows
<1>2. CASE Rests
  <2>1. UNCHANGED <<truth, snapshot, ui, task, authoritative, shm>>
    BY <1>2 DEF Rests, writer
  <2> QED
    BY <1>0, <2>1 DEF WriterKnows
<1>3. CASE TakePending
  <2>1. /\ ui = "idle" /\ ui' = IF snapshot = {} THEN "apply" ELSE "publish"
        /\ snapshot' = {} /\ task'.domains = snapshot /\ task'.values = truth
        /\ UNCHANGED <<truth, authoritative, shm>>
    BY <1>3, TakeGives DEF compositor
  <2> QED
    BY <1>0, <2>1 DEF WriterKnows
<1>4. CASE BeginPublish
  <2>1. /\ ui = "publish" /\ ui' = "end" /\ UNCHANGED <<truth, snapshot, task>>
        /\ shm'.revisions = shm.revisions /\ shm'.values = shm.values
    BY <1>4, <1>t DEF BeginPublish, compositor, queue
  <2>2. \A d \in Domains :
          /\ authoritative'.values[d] = IF d \in task.domains THEN task.values[d]
                                        ELSE authoritative.values[d]
          /\ authoritative'.revisions[d] = IF d \in task.domains
                                           THEN authoritative.revisions[d] + 1
                                           ELSE authoritative.revisions[d]
    BY <1>4 DEF BeginPublish
  <2> QED
    BY <1>0, <2>1, <2>2 DEF WriterKnows
<1>5. CASE EndPublish
  <2>1. /\ ui = "end" /\ ui' = "apply" /\ UNCHANGED <<truth, snapshot, task, authoritative>>
        /\ shm'.revisions = authoritative.revisions /\ shm'.values = authoritative.values
    BY <1>5, EndGives DEF compositor, queue
  <2> QED
    BY <1>0, <2>1 DEF WriterKnows
<1>6. CASE ApplyDetails
  <2>1. ui = "apply" /\ ui' = "idle" /\ UNCHANGED <<truth, snapshot, authoritative, shm>>
    BY <1>6, ApplyGives DEF compositor, queue
  <2> QED
    BY <1>0, <2>1 DEF WriterKnows
<1>7. CASE Page
  <2>1. UNCHANGED <<truth, snapshot, ui, task, authoritative, shm>>
    BY <1>7, PageGives DEF compositor, queue, writer
  <2> QED
    BY <1>0, <2>1 DEF WriterKnows
<1> QED
  BY <1>1, <1>2, <1>3, <1>4, <1>5, <1>6, <1>7, StepsAre DEF UiTask

LEMMA ValuesStep ==
  ASSUME TypeInv, LatestInv, AckInv, DetailInv, DetailValues, [Next]_vars
  PROVE  DetailValues'
<1>0. /\ \A m \in details : m.value = truth[m.domain]
      /\ \A m \in task.details :
           /\ ui = "publish" => m.value = task.values[m.domain]
           /\ Sending => m.value = authoritative.values[m.domain]
      /\ \A i \in DOMAIN wire : \A m \in wire[i].details : Current(i, m)
  BY DEF DetailValues
<1>t. /\ truth \in [Domains -> 0 .. MaxChanges]
      /\ \A m \in details : m.domain \in Domains
      /\ \A m \in task.details : m.domain \in Domains
      /\ \A i \in DOMAIN wire : \A m \in wire[i].details : m.domain \in Domains
  BY EpochTypes DEF TypeInv, TypeOK
<1>g. ASSUME \A m \in details' : m.value = truth'[m.domain],
             \A m \in task'.details :
               /\ ui' = "publish" => m.value = task'.values[m.domain]
               /\ Sending' => m.value = authoritative'.values[m.domain],
             \A i \in DOMAIN wire' : \A m \in wire'[i].details : Current(i, m)'
      PROVE  DetailValues'
  BY <1>g DEF DetailValues
<1>1. CASE Sent
  <2>1. PICK d \in Domains :
          Sends(d) /\ (truth' = [truth EXCEPT ![d] = @ + 1] \/ UNCHANGED truth)
    BY <1>1 DEF Sent
  <2>2. Send(d, truth'[d]) /\ UNCHANGED <<ui, task, authoritative, wire>>
    BY <2>1 DEF Sends, writer
  <2>3. \A m \in details' :
          \/ m \in details /\ m.domain # d
          \/ m.domain = d /\ m.value = truth'[d]
    BY <2>2, SendGives
  <2>4. \A e \in Domains : e # d => truth'[e] = truth[e]
    BY <1>t, <2>1
  <2>5. \A m \in details' : m.value = truth'[m.domain]
    BY <1>0, <1>t, <2>3, <2>4
  <2> QED
    BY <1>0, <1>g, <2>2, <2>5 DEF Sending, Current
<1>2. CASE Rests
  <2>1. UNCHANGED <<truth, details, ui, task, authoritative, wire>>
    BY <1>2 DEF Rests, writer
  <2> QED
    BY <1>0, <1>g, <2>1 DEF Sending, Current
<1>3. CASE TakePending
  <2>1. /\ ui = "idle" /\ ui' = IF snapshot = {} THEN "apply" ELSE "publish"
        /\ details' = {} /\ task'.details = details /\ task'.values = truth
        /\ UNCHANGED <<authoritative, wire>>
    BY <1>3, TakeGives
  <2>2. snapshot = {} => details = {}
    BY DEF DetailInv, DomainsOf
  <2>3. ~Sending /\ (ui' = "publish" => ~Sending')
    BY <2>1 DEF Sending
  <2>4. \A i \in DOMAIN wire' : \A m \in wire'[i].details : Current(i, m)'
    BY <1>0, <2>1, <2>3 DEF Current
  <2> QED
    BY <1>0, <1>g, <2>1, <2>2, <2>3, <2>4
<1>4. CASE BeginPublish
  <2>1. /\ ui = "publish" /\ ui' = "end" /\ UNCHANGED <<truth, details, task, wire>>
    BY <1>4 DEF BeginPublish, compositor, queue
  <2>2. \A d \in Domains :
          authoritative'.values[d] = IF d \in task.domains THEN task.values[d]
                                     ELSE authoritative.values[d]
    BY <1>4 DEF BeginPublish
  <2>3. DomainsOf(task.details) = task.domains
    BY <2>1 DEF DetailInv, Taken
  <2>4. \A m \in task.details : m.value = authoritative'.values[m.domain]
    <3>1. \A m \in task.details : m.domain \in task.domains
      BY <2>3 DEF DomainsOf
    <3> QED
      BY <1>0, <1>t, <2>1, <2>2, <3>1
  <2>5. ASSUME NEW i \in DOMAIN wire', NEW m \in wire'[i].details PROVE Current(i, m)'
    <3>1. Current(i, m) /\ m.domain \in Domains /\ ~Sending /\ Sending'
      BY <1>0, <1>t, <2>1 DEF Sending
    <3>2. DomainsOf(task'.details) = task.domains
      BY <2>1, <2>3
    <3> QED
      BY <2>1, <2>2, <3>1, <3>2 DEF Current
  <2>6. ui' # "publish"
    BY <2>1
  <2> QED
    BY <1>0, <1>g, <2>1, <2>4, <2>5, <2>6
<1>5. CASE EndPublish
  <2>1. /\ ui = "end" /\ ui' = "apply" /\ UNCHANGED <<truth, details, task, authoritative>>
        /\ \A i \in DOMAIN wire : i \in DOMAIN wire' /\ wire'[i] = wire[i]
        /\ \A i \in DOMAIN wire' : i \in DOMAIN wire \/ wire'[i].details = {}
    BY <1>5, EndGives DEF compositor, queue
  <2>2. Sending /\ Sending' /\ ui' # "publish"
    BY <2>1 DEF Sending
  <2>3. \A i \in DOMAIN wire' : \A m \in wire'[i].details : Current(i, m)'
    BY <1>0, <2>1, <2>2 DEF Current
  <2> QED
    BY <1>0, <1>g, <2>1, <2>2, <2>3
<1>6. CASE ApplyDetails
  <2> DEFINE n == Len(wire)
  <2>1. /\ ui = "apply" /\ ui' = "idle" /\ task'.details = {}
        /\ UNCHANGED <<truth, details, authoritative>>
        /\ n \in Nat /\ DOMAIN wire = 1 .. n /\ DOMAIN wire' = 1 .. n + 1
        /\ \A i \in DOMAIN wire : i \in DOMAIN wire' /\ wire'[i] = wire[i]
        /\ wire'[n + 1].details = task.details
    BY <1>6, ApplyGives DEF compositor, queue
  <2> HIDE DEF n
  <2>2. Sending /\ ui' # "publish"
    BY <2>1 DEF Sending
  <2>3. ASSUME NEW i \in DOMAIN wire', NEW m \in wire'[i].details PROVE Current(i, m)'
    <3>1. CASE i \in DOMAIN wire
      <4>1. Current(i, m) /\ i < n + 1 /\ n + 1 \in DOMAIN wire'
        BY <1>0, <2>1, <3>1
      <4>2. CASE \E j \in DOMAIN wire : i < j /\ m.domain \in DomainsOf(wire[j].details)
        <5>1. \E j \in DOMAIN wire' : i < j /\ m.domain \in DomainsOf(wire'[j].details)
          BY <2>1, <4>2
        <5> QED
          BY <5>1 DEF Current
      <4>3. CASE Sending /\ m.domain \in DomainsOf(task.details)
        <5>1. m.domain \in DomainsOf(wire'[n + 1].details)
          BY <2>1, <4>3
        <5> QED
          BY <4>1, <5>1 DEF Current
      <4> QED
        BY <2>1, <4>1, <4>2, <4>3 DEF Current
    <3>2. CASE i = n + 1
      BY <1>0, <2>1, <2>2, <3>2 DEF Current
    <3> QED
      BY <2>1, <3>1, <3>2
  <2> QED
    BY <1>0, <1>g, <2>1, <2>3
<1>7. CASE Page
  <2>1. UNCHANGED <<truth, details, ui, task, authoritative>>
    BY <1>7, PageGives DEF compositor, queue, writer
  <2>2. /\ Len(wire) \in Nat /\ DOMAIN wire = 1 .. Len(wire) /\ DOMAIN wire' = 1 .. Len(wire) - 1
        /\ \A i \in DOMAIN wire' : i + 1 \in DOMAIN wire /\ wire'[i] = wire[i + 1]
    BY <1>7, Received
  <2>3. ASSUME NEW i \in DOMAIN wire', NEW m \in wire'[i].details PROVE Current(i, m)'
    <3>1. Current(i + 1, m)
      BY <1>0, <2>2
    <3>2. CASE \E j \in DOMAIN wire : i + 1 < j /\ m.domain \in DomainsOf(wire[j].details)
      <4>1. PICK j \in DOMAIN wire : i + 1 < j /\ m.domain \in DomainsOf(wire[j].details)
        BY <3>2
      <4>2. j - 1 \in DOMAIN wire' /\ i < j - 1 /\ wire'[j - 1] = wire[j]
        BY <2>2, <4>1
      <4>3. \E k \in DOMAIN wire' : i < k /\ m.domain \in DomainsOf(wire'[k].details)
        BY <4>1, <4>2
      <4> QED
        BY <4>3 DEF Current
    <3> QED
      BY <2>1, <3>1, <3>2 DEF Current, Sending
  <2> QED
    BY <1>0, <1>g, <2>1, <2>3 DEF Sending
<1> QED
  BY <1>1, <1>2, <1>3, <1>4, <1>5, <1>6, <1>7, StepsAre DEF UiTask

(***************************************************************************)
(* What the page knows.                                                    *)
(***************************************************************************)
LEMMA PageInit == Init => PageKnows
<1> SUFFICES ASSUME Init PROVE PageKnows
  OBVIOUS
<1>1. /\ view = Version0 /\ shm.values = Version0 /\ lastSeq = 2
      /\ lastRevisions = [d \in Domains |-> 1] /\ shm.revisions = [d \in Domains |-> 1]
  BY DEF Init
<1> QED
  BY <1>1 DEF PageKnows, Shown

\* The page asks when it sees that it missed something.
LEMMA PageOwes ==
  ASSUME TypeInv, AckInv, Page
  PROVE  /\ (SyncOnNotify \/ SyncOnBatch) /\ MissedContents => Owed(client')
         /\ WakeOnBatch /\ (\E m \in Head(wire).details : BehindOrAhead(m)) => Owed(client')
<1>1. /\ Head(wire) = wire[1] /\ 1 \in DOMAIN wire /\ Head(wire).acks \in Seq(Acks)
  <2>1. Head(wire) = wire[1] /\ 1 \in DOMAIN wire /\ Head(wire) \in Wired
    BY Received
  <2> QED
    BY <2>1 DEF Wired
<1>2. Sound(client) /\ Awaits(client, lastSeq, epoch) /\ epoch \in Nat
      /\ lastSeq \in Nat /\ shm.seq \in Nat
  BY DEF AckInv, TypeInv, TypeOK
<1> DEFINE list == Head(wire).acks
<1>3. list \in Seq(Acks) /\ \A i \in DOMAIN list : 0 < list[i].epoch /\ list[i].epoch <= epoch
  BY <1>1 DEF AckInv, AllAcks, WireAcks, Elements
<1> HIDE DEF list
<1> DEFINE s == Synced(client)
<1>4. Sound(s) /\ Awaits(s, shm.seq, epoch) /\ (MissedContents => Owed(s))
  BY <1>2, SyncedGives
<1>5. ASSUME SyncOnNotify, MissedContents PROVE Owed(client')
  BY <1>4, <1>5 DEF SyncOnNotify
<1>6. ASSUME SyncOnBatch, MissedContents PROVE Owed(client')
  <2> DEFINE h == HandleAcks(s, list, shm.seq)
  <2>1. client' = h
    BY <1>6 DEF SyncOnBatch, list
  <2> HIDE DEF s
  <2>2. Later(s, h)
    BY <1>2, <1>3, <1>4, HandleAcksGive
  <2> QED
    BY <1>4, <1>6, <2>1, <2>2 DEF Later
<1>7. ASSUME WakeOnBatch, \E m \in Head(wire).details : BehindOrAhead(m) PROVE Owed(client')
  <2> DEFINE handled == HandleAcks(client, list, lastSeq)
  <2>1. client' = RequestRecovery(handled, lastSeq)
    BY <1>7 DEF WakeOnBatch, list
  <2>2. Sound(handled)
    BY <1>2, <1>3, HandleAcksGive
  <2> HIDE DEF handled
  <2> QED
    BY <2>1, <2>2, RequestGives DEF Sound
<1> QED
  BY <1>5, <1>6, <1>7

\* A read.
LEMMA ReadShows ==
  ASSUME TypeInv, SequenceInv, LatestInv, AckInv, DetailInv, WriterKnows, DetailValues, PageKnows,
         SyncOnNotify \/ SyncOnBatch, NEW d \in Domains
  PROVE  /\ d \in shm.flags => view'[d] = shm.values[d]
         /\ d \in Recovery => Shown(d)'
<1>0. Page
  BY DEF Page
<1>1. Readable /\ lastSeq' = shm.seq /\ UNCHANGED <<compositor, queue, writer>>
  BY DEF SyncOnNotify, SyncOnBatch, Read
<1>2. ui # "end"
  <2>1. shm.seq \in Nat /\ task.epoch \in Nat
    BY EpochTypes
  <2>2. Readable => ui # "end"
    BY <2>1 DEF Readable, LatestInv, SequenceInv
  <2> QED
    BY <1>1, <2>2
<1>3. /\ Len(wire) \in Nat /\ DOMAIN wire = 1 .. Len(wire) /\ DOMAIN wire' = 1 .. Len(wire) - 1
      /\ \A i \in DOMAIN wire' : i + 1 \in DOMAIN wire /\ wire'[i] = wire[i + 1]
      /\ Head(wire) = wire[1] /\ 1 \in DOMAIN wire
  BY <1>0, Received
<1>4. \A i \in DOMAIN wire : i # 1 => i - 1 \in DOMAIN wire' /\ wire'[i - 1] = wire[i]
  BY <1>3
<1>5. LaterDetail(d) => d \in DomainsOf(Head(wire).details) \/ LaterDetail(d)'
  <2>1. CASE ui = "apply" /\ d \in DomainsOf(task.details)
    BY <1>1, <2>1 DEF LaterDetail, writer
  <2>2. ASSUME NEW i \in DOMAIN wire, d \in DomainsOf(wire[i].details)
        PROVE  d \in DomainsOf(Head(wire).details) \/ LaterDetail(d)'
    BY <1>3, <1>4, <2>2 DEF LaterDetail
  <2> QED
    BY <2>1, <2>2 DEF LaterDetail
<1>6. Coming(d) => Coming(d)'
  <2>1. Owed(client) => Owed(client')
    BY <1>0, PageGives DEF Later
  <2> QED
    BY <1>1, <2>1 DEF Coming, Taken, compositor, queue, writer
<1>7. d \in Recovery \ shm.flags => Owed(client') \/ Shown(d)
  <2> SUFFICES ASSUME d \in Recovery \ shm.flags, ~Owed(client') PROVE Shown(d)
    OBVIOUS
  <2>1. ~MissedContents
    BY <1>0, PageOwes
  <2>2. lastRevisions[d] = shm.revisions[d]
    <3>1. lastRevisions[d] \in Nat /\ shm.revisions[d] \in Nat /\ lastRevisions[d] <= shm.revisions[d]
      BY DEF TypeInv, PageKnows
    <3> QED
      BY <2>1, <3>1 DEF MissedContents
  <2> QED
    BY <2>2 DEF PageKnows
<1>8. Applied[d] \in {shm.values[d], view[d]} /\ (d \in shm.flags => Applied[d] = shm.values[d])
  BY DEF Applied
<1>9. ASSUME view'[d] = Applied[d],
             d \in Direct \ shm.flags => d \notin DomainsOf(Head(wire).details)
      PROVE  /\ d \in shm.flags => view'[d] = shm.values[d]
             /\ d \in Recovery => Shown(d)'
  <2>1. shm' = shm
    BY <1>1 DEF writer
  <2>2. CASE d \in shm.flags
    BY <1>8, <1>9, <2>1, <2>2 DEF Shown
  <2>3. CASE d \in Recovery \ shm.flags
    <3>1. CASE Owed(client')
      BY <2>3, <3>1 DEF Shown, Coming
    <3>2. CASE Shown(d)
      BY <1>5, <1>6, <1>8, <1>9, <2>1, <2>3, <3>2 DEF Shown
    <3> QED
      BY <1>7, <2>3, <3>1, <3>2
  <2> QED
    BY <2>2, <2>3
<1>10. CASE SyncOnNotify
  <2>1. view' = Applied /\ Head(wire).type = "notify"
    BY <1>10 DEF SyncOnNotify, Read, Receive
  <2>2. d \notin DomainsOf(Head(wire).details)
    BY <1>3, <2>1 DEF DetailInv, DomainsOf
  <2> QED
    BY <1>9, <2>1, <2>2
<1>11. CASE SyncOnBatch
  <2> DEFINE direct == {m \in Head(wire).details :
                          m.domain \in Direct /\ m.domain \notin shm.flags}
             shown  == [e \in Domains |-> IF \E m \in direct : m.domain = e
                                          THEN (CHOOSE m \in direct : m.domain = e).value
                                          ELSE Applied[e]]
  <2>1. view' = shown
    BY <1>11 DEF SyncOnBatch, Read
  <2>2. CASE ~ \E m \in direct : m.domain = d
    <3>1. view'[d] = Applied[d]
      BY <2>1, <2>2
    <3>2. d \in Direct \ shm.flags => d \notin DomainsOf(Head(wire).details)
      BY <2>2 DEF DomainsOf
    <3> QED
      BY <1>9, <3>1, <3>2
  <2>3. CASE \E m \in direct : m.domain = d
    <3> DEFINE m == CHOOSE m \in direct : m.domain = d
    <3>1. m \in direct /\ m.domain = d
      BY <2>3
    <3>2. view'[d] = m.value
      BY <2>1, <2>3
    <3>3. m \in wire[1].details /\ d \in Direct /\ d \notin shm.flags
      BY <1>3, <3>1
    <3> HIDE DEF m, direct
    <3>4. Current(1, m)
      BY <1>3, <3>3 DEF DetailValues
    <3>5. CASE \E j \in DOMAIN wire : 1 < j /\ d \in DomainsOf(wire[j].details)
      <4>1. PICK j \in DOMAIN wire : 1 < j /\ d \in DomainsOf(wire[j].details)
        BY <3>5
      <4>2. j - 1 \in DOMAIN wire' /\ wire'[j - 1] = wire[j]
        BY <1>4, <4>1
      <4>3. LaterDetail(d)'
        BY <4>1, <4>2 DEF LaterDetail
      <4> QED
        BY <3>3, <4>3 DEF Shown
    <3>6. CASE Sending /\ d \in DomainsOf(task.details)
      <4>1. LaterDetail(d)'
        BY <1>1, <1>2, <3>6 DEF LaterDetail, Sending, writer
      <4> QED
        BY <3>3, <4>1 DEF Shown
    <3>7. CASE m.value = authoritative.values[d]
      <4>1. authoritative.values[d] = shm.values[d] /\ shm' = shm
        BY <1>1, <1>2 DEF WriterKnows, writer
      <4> QED
        BY <3>2, <3>3, <3>7, <4>1 DEF Shown
    <3> QED
      BY <3>1, <3>4, <3>5, <3>6, <3>7 DEF Current
  <2> QED
    BY <2>2, <2>3
<1> QED
  BY <1>10, <1>11

\* A message that is not read from.
LEMMA IgnoredShows ==
  ASSUME TypeInv, AckInv, DetailInv, DetailEpochs, PageKnows,
         IgnoreNotify \/ WakeOnBatch, NEW d \in Recovery, lastRevisions[d] = shm.revisions[d]
  PROVE  Shown(d)'
<1>0. Page /\ d \in Domains
  BY DomainsAssumption DEF Page
<1>1. UNCHANGED <<compositor, queue, writer, lastSeq, lastRevisions, lastFlags, view>>
  BY DEF IgnoreNotify, WakeOnBatch, page
<1>3. /\ Len(wire) \in Nat /\ DOMAIN wire = 1 .. Len(wire) /\ DOMAIN wire' = 1 .. Len(wire) - 1
      /\ \A i \in DOMAIN wire' : i + 1 \in DOMAIN wire /\ wire'[i] = wire[i + 1]
      /\ Head(wire) = wire[1] /\ 1 \in DOMAIN wire
  BY <1>0, Received
<1>4. \A i \in DOMAIN wire : i # 1 => i - 1 \in DOMAIN wire' /\ wire'[i - 1] = wire[i]
  BY <1>3
<1>5. Coming(d) => Coming(d)'
  <2>1. Owed(client) => Owed(client')
    BY <1>0, PageGives DEF Later
  <2> QED
    BY <1>1, <2>1 DEF Coming, Taken, compositor, queue, writer
<1>6. view[d] = shm.values[d] => Shown(d)'
  BY <1>1 DEF Shown, writer
<1>7. CASE d \in Direct /\ LaterDetail(d)
  <2>1. CASE ui = "apply" /\ d \in DomainsOf(task.details)
    BY <1>1, <1>7, <2>1 DEF LaterDetail, writer, Shown
  <2>2. ASSUME NEW i \in DOMAIN wire, i # 1, d \in DomainsOf(wire[i].details) PROVE Shown(d)'
    BY <1>4, <1>7, <2>2 DEF LaterDetail, Shown
  <2>3. CASE d \in DomainsOf(Head(wire).details)
    <3>1. PICK m \in Head(wire).details : m.domain = d
      BY <2>3 DEF DomainsOf
    <3>2. WakeOnBatch
      BY <1>3, <3>1 DEF DetailInv, IgnoreNotify, Receive
    <3>3. CASE BehindOrAhead(m)
      BY <1>0, <3>1, <3>2, <3>3, PageOwes DEF Shown, Coming
    <3>4. CASE ~BehindOrAhead(m)
      <4>1. m.epoch \in Nat /\ lastSeq \in Nat
        BY <1>3, <3>1, EpochTypes
      <4>2. m.epoch = lastSeq => d \in lastFlags
        BY <1>3, <3>1 DEF DetailEpochs, Marked
      <4>3. d \in NeedsRecovery
        BY <1>7, DomainsAssumption
      <4>4. d \in lastFlags
        BY <3>1, <3>4, <4>1, <4>2, <4>3 DEF BehindOrAhead
      <4> QED
        BY <1>0, <1>6, <4>4 DEF PageKnows
    <3> QED
      BY <3>3, <3>4
  <2> QED
    BY <1>3, <1>7, <2>1, <2>2, <2>3 DEF LaterDetail
<1>8. Shown(d)
  BY <1>0 DEF PageKnows
<1> QED
  BY <1>5, <1>6, <1>7, <1>8 DEF Shown

LEMMA PageStep ==
  ASSUME TypeInv, SequenceInv, LatestInv, AckInv, RecoveryInv, [Next]_vars
  PROVE  PageKnows'
<1> USE DEF RecoveryInv
<1>0. /\ \A d \in Domains : lastRevisions[d] <= shm.revisions[d]
      /\ ui # "end" /\ lastSeq = shm.seq => lastRevisions = shm.revisions
      /\ \A d \in Domains :
           lastRevisions[d] = shm.revisions[d] =>
             (d \in lastFlags => view[d] = shm.values[d]) /\ (d \in Recovery => Shown(d))
  BY DEF PageKnows
<1>t. /\ lastRevisions \in [Domains -> Nat] /\ shm.revisions \in [Domains -> Nat]
      /\ shm.seq \in Nat /\ lastSeq \in Nat /\ task.epoch \in Nat /\ resending \in Seq(Domains)
      /\ DOMAIN shm = {"seq", "flags", "revisions", "values"}
      /\ Recovery \subseteq Domains
  BY DomainsAssumption DEF TypeInv, TypeOK
<1>g. ASSUME \A d \in Domains : lastRevisions'[d] <= shm'.revisions[d],
             ui' # "end" /\ lastSeq' = shm'.seq => lastRevisions' = shm'.revisions,
             \A d \in Domains :
               lastRevisions'[d] = shm'.revisions[d] =>
                 (d \in lastFlags' => view'[d] = shm'.values[d]) /\ (d \in Recovery => Shown(d)')
      PROVE  PageKnows'
  BY <1>g DEF PageKnows
<1>1. CASE Sent
  <2>1. PICK d \in Domains :
          /\ Sends(d)
          /\ \/ UNCHANGED resending
             \/ resending # <<>> /\ d = Head(resending) /\ resending' = Tail(resending)
          /\ Owed(client) => Owed(client')
    BY <1>1 DEF Sent
  <2>2. /\ snapshot' = snapshot \cup {d}
        /\ UNCHANGED <<ui, task, shm, wire, lastSeq, lastRevisions, lastFlags, view>>
    BY <2>1 DEF Sends, Send, writer
  <2>3. Elements(resending) \subseteq Elements(resending') \cup {d}
    <3>1. CASE UNCHANGED resending
      BY <3>1
    <3>2. CASE resending # <<>> /\ d = Head(resending) /\ resending' = Tail(resending)
      <4>1. Elements(resending) = {Head(resending)} \cup Elements(Tail(resending))
        BY <1>t, <3>2, ElementsOf
      <4> QED
        BY <3>2, <4>1
    <3> QED
      BY <2>1, <3>1, <3>2
  <2>4. \A e \in Recovery : Shown(e) => Shown(e)'
    BY <2>1, <2>2, <2>3 DEF Shown, Coming, LaterDetail, Taken
  <2> QED
    BY <1>0, <1>g, <2>2, <2>4
<1>2. CASE Rests
  <2>1. UNCHANGED <<snapshot, ui, task, shm, wire, lastSeq, lastRevisions, lastFlags, view>>
    BY <1>2 DEF Rests, writer
  <2>2. ASSUME NEW d \in Recovery, Shown(d) PROVE Shown(d)'
    <3>1. CASE UNCHANGED resending /\ (Owed(client) => Owed(client'))
      BY <2>1, <2>2, <3>1 DEF Shown, Coming, LaterDetail, Taken
    <3>2. CASE resending' = Resent
      BY <3>2, DomainsAssumption DEF Shown, Coming, Elements
    <3> QED
      BY <1>2, <3>1, <3>2 DEF Rests
  <2> QED
    BY <1>0, <1>g, <2>1, <2>2
<1>3. CASE TakePending
  <2>1. /\ ui = "idle" /\ ui' = IF snapshot = {} THEN "apply" ELSE "publish"
        /\ snapshot' = {} /\ task'.domains = snapshot
        /\ UNCHANGED <<client, resending, shm, wire, lastSeq, lastRevisions, lastFlags, view>>
    BY <1>3, TakeGives DEF compositor, page
  <2>2. \A d \in Recovery : Shown(d) => Shown(d)'
    BY <2>1 DEF Shown, Coming, LaterDetail, Taken
  <2> QED
    BY <1>0, <1>g, <2>1, <2>2
<1>4. CASE BeginPublish
  <2>1. /\ ui = "publish" /\ ui' = "end"
        /\ shm'.revisions = shm.revisions /\ shm'.values = shm.values
        /\ UNCHANGED <<client, resending, snapshot, task, wire, lastSeq, lastRevisions, lastFlags,
                       view>>
    BY <1>4, <1>t DEF BeginPublish, compositor, queue, page
  <2>2. \A d \in Recovery : Shown(d) => Shown(d)'
    BY <2>1 DEF Shown, Coming, LaterDetail, Taken
  <2> QED
    BY <1>0, <1>g, <2>1, <2>2
<1>5. CASE EndPublish
  <2>1. /\ ui = "end" /\ ui' = "apply" /\ shm'.seq = task.epoch
        /\ shm'.revisions = authoritative.revisions /\ shm'.values = authoritative.values
        /\ UNCHANGED <<client, resending, snapshot, task, authoritative, lastSeq, lastRevisions,
                       lastFlags, view>>
        /\ \A i \in DOMAIN wire : i \in DOMAIN wire' /\ wire'[i] = wire[i]
    BY <1>5, EndGives DEF compositor, queue, page
  <2>2. \A d \in Domains :
          IF d \in task.domains
          THEN shm'.revisions[d] = shm.revisions[d] + 1
          ELSE shm'.revisions[d] = shm.revisions[d] /\ shm'.values[d] = shm.values[d]
    BY <2>1 DEF WriterKnows
  <2>3. ASSUME NEW d \in Domains PROVE lastRevisions'[d] <= shm'.revisions[d]
    <3>1. /\ lastRevisions'[d] = lastRevisions[d] /\ lastRevisions[d] <= shm.revisions[d]
          /\ lastRevisions[d] \in Nat /\ shm.revisions[d] \in Nat
      BY <1>0, <1>t, <2>1
    <3>2. shm'.revisions[d] \in {shm.revisions[d], shm.revisions[d] + 1}
      BY <2>2
    <3> QED
      BY <3>1, <3>2
  <2>4. lastSeq' # shm'.seq
    BY <1>t, <2>1 DEF LatestInv, Taken
  <2>5. ASSUME NEW d \in Domains, lastRevisions'[d] = shm'.revisions[d]
        PROVE  /\ d \notin task.domains /\ lastRevisions[d] = shm.revisions[d]
               /\ shm'.values[d] = shm.values[d]
    BY <1>0, <1>t, <2>1, <2>2, <2>5
  <2>6. ASSUME NEW d \in Domains, d \notin task.domains, shm'.values[d] = shm.values[d], Shown(d)
        PROVE  Shown(d)'
    <3>1. Coming(d) => Coming(d)'
      BY <2>1, <2>6 DEF Coming, Taken
    <3>2. LaterDetail(d) => LaterDetail(d)'
      BY <2>1 DEF LaterDetail
    <3> QED
      BY <2>1, <2>6, <3>1, <3>2 DEF Shown
  <2> QED
    BY <1>0, <1>g, <2>1, <2>3, <2>4, <2>5, <2>6
<1>6. CASE ApplyDetails
  <2> DEFINE n == Len(wire)
  <2>1. /\ ui = "apply" /\ ui' = "idle"
        /\ UNCHANGED <<client, resending, snapshot, shm, lastSeq, lastRevisions, lastFlags, view>>
        /\ n \in Nat /\ DOMAIN wire' = 1 .. n + 1
        /\ \A i \in DOMAIN wire : i \in DOMAIN wire' /\ wire'[i] = wire[i]
        /\ wire'[n + 1].details = task.details
    BY <1>6, ApplyGives DEF compositor, queue, page
  <2> HIDE DEF n
  <2>2. n + 1 \in DOMAIN wire'
    BY <2>1
  <2>3. \A d \in Recovery : Shown(d) => Shown(d)'
    BY <2>1, <2>2 DEF Shown, Coming, LaterDetail, Taken
  <2> QED
    BY <1>0, <1>g, <2>1, <2>3
<1>7. CASE SyncOnNotify \/ SyncOnBatch
  <2>1. /\ lastSeq' = shm.seq /\ lastRevisions' = shm.revisions /\ lastFlags' = shm.flags
        /\ UNCHANGED <<ui, shm>>
    BY <1>7 DEF SyncOnNotify, SyncOnBatch, Read, writer
  <2>2. \A d \in Domains :
          (d \in shm.flags => view'[d] = shm.values[d]) /\ (d \in Recovery => Shown(d)')
    BY <1>7, ReadShows
  <2> QED
    BY <1>g, <1>t, <2>1, <2>2
<1>8. CASE IgnoreNotify \/ WakeOnBatch
  <2>1. UNCHANGED <<ui, shm, lastSeq, lastRevisions, lastFlags, view>>
    BY <1>8 DEF IgnoreNotify, WakeOnBatch, writer, page
  <2>2. \A d \in Recovery : lastRevisions[d] = shm.revisions[d] => Shown(d)'
    BY <1>8, IgnoredShows
  <2> QED
    BY <1>0, <1>g, <2>1, <2>2
<1> QED
  BY <1>1, <1>2, <1>3, <1>4, <1>5, <1>6, <1>7, <1>8, StepsAre DEF UiTask, Page

(* A snapshot overwritten before the page read it loses nothing: of a      *)
(* domain the page has the latest revision of, it shows the version in the *)
(* file, or a recovery is owed or under way, or a detail of it is still to *)
(* come; and at rest nothing is to come.                                   *)
THEOREM Recovered == Spec => []RecoveredWhenQuiet
<1> DEFINE I == /\ TypeInv /\ AckInv /\ CountInv /\ SequenceInv /\ LatestInv
                /\ DetailInv /\ DetailEpochs /\ WriterKnows /\ DetailValues /\ PageKnows
<1>1. Init => I
  BY TypeInit, SequenceInit, LatestInit, DetailInit, EpochsInit, PageInit
<1>2. I /\ [Next]_vars => I'
  <2> SUFFICES ASSUME I, [Next]_vars PROVE I'
    OBVIOUS
  <2>1. TypeInv' /\ AckInv' /\ CountInv' /\ SequenceInv' /\ LatestInv' /\ DetailInv'
    BY CountStep, TypeStep, AckStep, SequenceStep, LatestStep, DetailStep
  <2>2. DetailEpochs' /\ WriterKnows' /\ DetailValues'
    BY EpochsStep, WriterStep, ValuesStep
  <2>3. PageKnows'
    BY PageStep DEF RecoveryInv
  <2> QED
    BY <2>1, <2>2, <2>3
<1>3. I /\ MutationsSettled => RecoveredWhenQuiet
  <2> SUFFICES ASSUME I, MutationsSettled, Quiet, ~client.throttled, NEW d \in Recovery
               PROVE  view[d] = truth[d]
    BY DEF RecoveredWhenQuiet
  <2>1. /\ details = {} /\ resending = <<>> /\ ui = "idle" /\ wire = <<>>
        /\ client.uplink = <<>> /\ ~client.deferred /\ d \in Domains
    BY DomainsAssumption DEF Quiet, Free, MutationsSettled
  <2>2. snapshot = {}
    BY <2>1 DEF DetailInv, DomainsOf
  <2>3. lastSeq = shm.seq
    BY <2>1 DEF SequenceInv, LookComing
  <2>4. ~Coming(d) /\ ~LaterDetail(d)
    BY <2>1, <2>2 DEF Coming, LaterDetail, Owed, Taken, Elements
  <2>5. lastRevisions = shm.revisions
    BY <2>1, <2>3 DEF PageKnows
  <2>6. view[d] = shm.values[d]
    BY <2>1, <2>4, <2>5 DEF PageKnows, Shown
  <2>7. shm.values[d] = authoritative.values[d] /\ truth[d] = authoritative.values[d]
    BY <2>1, <2>2 DEF WriterKnows
  <2> QED
    BY <2>6, <2>7
<1> HIDE DEF I
<1> QED
  BY <1>1, <1>2, <1>3, MutationsSettle, PTL DEF Spec

(***************************************************************************)
(* Versions.                                                               *)
(***************************************************************************)

\* Every place a version passes through lags behind the one before.
VersionInv ==
  /\ truth \in [Domains -> Nat]
  /\ DOMAIN shm = {"seq", "flags", "revisions", "values"}
  /\ shm.values \in [Domains -> Nat]
  /\ authoritative.values \in [Domains -> Nat]
  /\ Taken => task.values \in [Domains -> Nat]
  /\ \A d \in Domains :
       /\ d \notin Direct => view[d] \in Nat /\ view[d] <= shm.values[d]
       /\ shm.values[d] <= authoritative.values[d]
       /\ authoritative.values[d] <= truth[d]
       /\ Taken => authoritative.values[d] <= task.values[d] /\ task.values[d] <= truth[d]

LEMMA VersionInit == Init => VersionInv
<1> SUFFICES ASSUME Init PROVE VersionInv
  OBVIOUS
<1>1. Version0 \in [Domains -> Nat] /\ \A d \in Domains : Version0[d] = 0
  BY DEF Version0
<1>2. /\ truth = Version0 /\ view = Version0 /\ shm.values = Version0
      /\ authoritative.values = Version0 /\ ~Taken
      /\ DOMAIN shm = {"seq", "flags", "revisions", "values"}
  BY DEF Init, Taken
<1> QED
  BY <1>1, <1>2 DEF VersionInv

\* A read shows what the snapshot holds, or leaves what the page shows.
LEMMA AppliedIs ==
  ASSUME NEW d \in Domains
  PROVE  Applied[d] \in {shm.values[d], view[d]}
BY DEF Applied

\* What a read makes the page show of a domain no detail is applied to directly.
LEMMA SyncShows ==
  ASSUME SyncOnNotify \/ SyncOnBatch, NEW d \in Domains \ Direct
  PROVE  view'[d] \in {shm.values[d], view[d]}
<1>1. CASE SyncOnNotify
  <2>1. view' = Applied
    BY <1>1 DEF SyncOnNotify, Read
  <2> QED
    BY <2>1, AppliedIs
<1>2. CASE SyncOnBatch
  <2> DEFINE direct == {m \in Head(wire).details :
                          m.domain \in Direct /\ m.domain \notin shm.flags}
             shown  == [e \in Domains |-> IF \E m \in direct : m.domain = e
                                          THEN (CHOOSE m \in direct : m.domain = e).value
                                          ELSE Applied[e]]
  <2>1. view' = shown
    BY <1>2 DEF SyncOnBatch, Read
  <2>2. ~ \E m \in direct : m.domain = d
    OBVIOUS
  <2>3. shown[d] = Applied[d]
    BY <2>2
  <2> QED
    BY <2>1, <2>3, AppliedIs
<1> QED
  BY <1>1, <1>2

LEMMA VersionStep == VersionInv /\ [Next]_vars => VersionInv'
<1> SUFFICES ASSUME VersionInv, [Next]_vars PROVE VersionInv'
  OBVIOUS
<1> USE DEF VersionInv, Taken, compositor, queue, writer, page
<1>1. ASSUME NEW d \in Domains, Change(d) PROVE VersionInv'
  <2>1. truth' = [truth EXCEPT ![d] = @ + 1] /\ UNCHANGED <<writer, view>>
    BY <1>1 DEF Change
  <2>2. truth' \in [Domains -> Nat] /\ \A e \in Domains : truth[e] <= truth'[e]
    BY <2>1
  <2> QED
    BY <2>1, <2>2
<1>2. CASE AnswerRequest \/ Resend \/ SendAck
  <2>1. UNCHANGED <<truth, writer, view>>
    BY <1>2 DEF AnswerRequest, TakeRequest, Resend, SendAck
  <2> QED
    BY <2>1
<1>10. ASSUME NEW id \in Ids, Mutation(id) PROVE VersionInv'
  <2>1. UNCHANGED <<writer, view>>
    BY <1>10 DEF Mutation, Mutate, MutateNothing, TakeRequest
  <2>2. UNCHANGED truth \/ \E d \in Mutable : truth' = [truth EXCEPT ![d] = @ + 1]
    BY <1>10 DEF Mutation, Mutate, MutateNothing
  <2>3. truth' \in [Domains -> Nat] /\ \A e \in Domains : truth[e] <= truth'[e]
    <3>1. CASE UNCHANGED truth
      BY <3>1
    <3>2. ASSUME NEW d \in Domains, truth' = [truth EXCEPT ![d] = @ + 1]
          PROVE  truth' \in [Domains -> Nat] /\ \A e \in Domains : truth[e] <= truth'[e]
      BY <3>2
    <3> QED
      BY <2>2, <3>1, <3>2, DomainsAssumption
  <2> QED
    BY <2>1, <2>3
<1>3. CASE TakePending
  <2>1. /\ task'.values = truth /\ ~Taken
        /\ UNCHANGED <<truth, shm, authoritative, view>>
    BY <1>3 DEF TakePending
  <2> QED
    BY <2>1
<1>4. CASE BeginPublish
  <2>1. /\ ui = "publish" /\ UNCHANGED <<truth, task, view>>
        /\ shm' = [shm EXCEPT !.seq = task.epoch - 1]
    BY <1>4 DEF BeginPublish
  <2>2. authoritative'.values = [d \in Domains |-> IF d \in task.domains THEN task.values[d]
                                                   ELSE authoritative.values[d]]
    BY <1>4 DEF BeginPublish
  <2>3. shm'.values = shm.values /\ DOMAIN shm' = DOMAIN shm
    BY <2>1
  <2>4. /\ authoritative'.values \in [Domains -> Nat]
        /\ \A d \in Domains : /\ authoritative.values[d] <= authoritative'.values[d]
                              /\ authoritative'.values[d] <= task.values[d]
    BY <2>1, <2>2
  <2> QED
    BY <2>1, <2>3, <2>4
<1>5. CASE EndPublish
  <2>1. /\ ui = "end" /\ ui' = "apply" /\ UNCHANGED <<truth, authoritative, view>>
        /\ shm'.values = authoritative.values
        /\ DOMAIN shm' = {"seq", "flags", "revisions", "values"}
    BY <1>5 DEF EndPublish
  <2> QED
    BY <2>1
<1>6. CASE ApplyDetails
  <2>1. ui' = "idle" /\ UNCHANGED <<truth, authoritative, shm, view>>
    BY <1>6 DEF ApplyDetails
  <2> QED
    BY <2>1
<1>7. CASE SyncOnNotify \/ SyncOnBatch
  <2>1. UNCHANGED <<truth, ui, task, authoritative, shm>>
    BY <1>7 DEF SyncOnNotify, SyncOnBatch, Read
  <2>2. \A d \in Domains \ Direct : view'[d] \in {shm.values[d], view[d]}
    BY <1>7, SyncShows
  <2> QED
    BY <2>1, <2>2
<1>8. CASE IgnoreNotify \/ WakeOnBatch \/ SendMutation \/ TimePasses
  <2>1. UNCHANGED <<truth, writer, view>>
    BY <1>8 DEF IgnoreNotify, WakeOnBatch, SendMutation, TimePasses
  <2> QED
    BY <2>1
<1>9. CASE UNCHANGED vars
  BY <1>9 DEF vars
<1> QED
  BY <1>1, <1>2, <1>3, <1>4, <1>5, <1>6, <1>7, <1>8, <1>9, <1>10
  DEF Next, Compositor, Answer, UiTask, Page

LEMMA VersionsAdvance ==
  ASSUME VersionInv, [Next]_vars, NEW d \in Domains \ Direct
  PROVE  view'[d] >= view[d]
<1>1. view[d] \in Nat /\ shm.values[d] \in Nat /\ view[d] <= shm.values[d]
  BY DEF VersionInv
<1>2. CASE SyncOnNotify \/ SyncOnBatch
  BY <1>1, <1>2, SyncShows
<1>3. CASE ~(SyncOnNotify \/ SyncOnBatch)
  <2>1. UNCHANGED view
    BY <1>3 DEF Next, Compositor, Answer, UiTask, Page, Change, AnswerRequest, Resend, SendAck,
                Mutation, Mutate, MutateNothing, TakeRequest, TakePending, BeginPublish,
                EndPublish, ApplyDetails, IgnoreNotify, WakeOnBatch, SendMutation,
                TimePasses, vars, page
  <2> QED
    BY <1>1, <2>1
<1> QED
  BY <1>2, <1>3

(* The page never goes back to an older version of a domain it takes from  *)
(* snapshots alone: the shared file only moves on, and what it holds is    *)
(* never older than what was read from it.                                 *)
THEOREM SnapshotsAdvance == Spec => SnapshotDomainsAdvance
<1>1. VersionInv /\ [Next]_vars => [\A d \in Domains \ Direct : view'[d] >= view[d]]_vars
  BY VersionsAdvance
<1> QED
  BY VersionInit, VersionStep, <1>1, PTL DEF Spec, SnapshotDomainsAdvance
=============================================================================
