------------------------ MODULE NotificationsProofs ------------------------
(***************************************************************************)
(* Proofs about Notifications, for any bounds: types; the compositor's     *)
(* loop agrees with the runtime; the end of every banner is told once; and *)
(* the history has a row of every notification until it is full.           *)
(***************************************************************************)
EXTENDS Notifications, SequenceTheorems, FiniteSetTheorems, FunctionTheorems, TLAPS

-----------------------------------------------------------------------------
(* Types.                                                                  *)

LEMMA BannerOfId ==
  ASSUME NEW r \in Runtimes, NEW id \in ActiveIds(r)
  PROVE  Banner(r, id) \in r.active /\ Banner(r, id).id = id /\ Banner(r, id) \in Entries
<1>1. PICK a \in r.active : a.id = id
  BY DEF ActiveIds
<1>2. Banner(r, id) \in r.active /\ Banner(r, id).id = id
  BY <1>1 DEF Banner
<1> QED
  BY <1>2 DEF Runtimes

LEMMA RecordedType ==
  ASSUME NEW history \in SUBSET Entries, NEW entries \in SUBSET Entries
  PROVE  Recorded(history, entries) \in SUBSET Entries
BY DEF Recorded

LEMMA ChangedType ==
  ASSUME NEW r \in Runtimes, NEW active \in SUBSET Entries, NEW entries \in SUBSET Entries
  PROVE  /\ Changed(r, active, entries) \in Runtimes
         /\ Changed(r, active, entries).revision = r.revision + 1
         /\ Changed(r, active, entries).enabled = r.enabled
<1> DEFINE history == Recorded(r.history, entries)
           revision == r.revision + 1
<1>1. history \in SUBSET Entries /\ revision \in Nat
  BY RecordedType DEF Runtimes
<1>2. Changed(r, active, entries)
        = [r EXCEPT !.revision = revision, !.active = active, !.history = history]
  BY DEF Changed
<1>3. revision = r.revision + 1
  OBVIOUS
<1> HIDE DEF history, revision
<1> QED
  BY <1>1, <1>2, <1>3 DEF Runtimes

\* What every change does to the type, the revision and the setting.
Advances(r, changed) ==
  changed \in Runtimes /\ changed.revision = r.revision + 1 /\ changed.enabled = r.enabled

LEMMA NotifiedAdvances ==
  ASSUME NEW r \in Runtimes, NEW replaces \in Nat, NEW until \in Nat
  PROVE  Advances(r, Notified(r, replaces, until)) /\ IdFor(r, replaces) \in Nat
<1> DEFINE id == IdFor(r, replaces)
           entry == [id |-> id, at |-> r.revision + 1, until |-> until, closed |-> "no"]
           next == [r EXCEPT !.next_id = IF id = @ THEN @ + 1 ELSE @]
           active == IF r.enabled THEN Others(r, id) \cup {entry} ELSE r.active
<1>1. id \in Nat
  BY DEF IdFor, Runtimes
<1>2. entry \in Entries
  BY <1>1 DEF Entries, Runtimes
<1>3. next \in Runtimes /\ next.revision = r.revision /\ next.enabled = r.enabled
  BY <1>1 DEF Runtimes
<1>4. active \in SUBSET Entries
  BY <1>2 DEF Others, Runtimes
<1>5. Advances(next, Changed(next, active, {entry}))
  <2> HIDE DEF next, active, entry, id
  <2> QED
    BY <1>2, <1>3, <1>4, ChangedType DEF Advances
<1>6. Notified(r, replaces, until) = Changed(next, active, {entry})
  BY DEF Notified
<1> HIDE DEF next, active, entry
<1> QED
  BY <1>1, <1>3, <1>5, <1>6 DEF Advances

LEMMA ActedAdvances ==
  ASSUME NEW r \in Runtimes, NEW id \in ActiveIds(r)
  PROVE  Advances(r, Acted(r, id))
<1> DEFINE at == r.revision + 1
           entry == [Banner(r, id) EXCEPT !.at = at]
<1>1. entry \in Entries
  <2>1. at \in Nat
    BY DEF Runtimes
  <2>2. Banner(r, id) \in Entries
    BY BannerOfId
  <2> HIDE DEF at
  <2> QED
    BY <2>1, <2>2 DEF Entries
<1>2. Others(r, id) \cup {entry} \in SUBSET Entries
  BY <1>1 DEF Others, Runtimes
<1>3. Acted(r, id) = Changed(r, Others(r, id) \cup {entry}, {entry})
  BY DEF Acted
<1> HIDE DEF entry, at
<1> QED
  BY <1>1, <1>2, <1>3, ChangedType DEF Advances

LEMMA ClosedAdvances ==
  ASSUME NEW r \in Runtimes, NEW id \in ActiveIds(r), NEW why \in Reasons
  PROVE  Advances(r, Closed(r, id, why))
<1> DEFINE at == r.revision + 1
           entry == [Banner(r, id) EXCEPT !.at = at, !.closed = why]
<1>1. entry \in Entries
  <2>1. at \in Nat
    BY DEF Runtimes
  <2>2. Banner(r, id) \in Entries
    BY BannerOfId
  <2> HIDE DEF at
  <2> QED
    BY <2>1, <2>2 DEF Entries
<1>2. Others(r, id) \in SUBSET Entries
  BY DEF Others, Runtimes
<1>3. Closed(r, id, why) = Changed(r, Others(r, id), {entry})
  BY DEF Closed
<1> HIDE DEF entry, at
<1> QED
  BY <1>1, <1>2, <1>3, ChangedType DEF Advances

LEMMA ExpiredAdvances ==
  ASSUME NEW r \in Runtimes
  PROVE  Advances(r, Expired(r)) /\ {a.id : a \in Due(r)} \in SUBSET Nat
<1> DEFINE at == r.revision + 1
           ended == {[a EXCEPT !.at = at, !.closed = "expired"] : a \in Due(r)}
<1>1. Due(r) \in SUBSET Entries
  BY DEF Due, Runtimes
<1>2. ended \in SUBSET Entries
  <2>1. at \in Nat
    BY DEF Runtimes
  <2> HIDE DEF at
  <2>2. ASSUME NEW a \in Due(r)
        PROVE  [a EXCEPT !.at = at, !.closed = "expired"] \in Entries
    BY <1>1, <2>1 DEF Entries, Reasons
  <2> QED
    BY <2>2
<1>3. r.active \ Due(r) \in SUBSET Entries
  BY DEF Runtimes
<1>4. Advances(r, Expired(r))
  BY <1>2, <1>3, ChangedType DEF Expired, Advances
<1>5. {a.id : a \in Due(r)} \in SUBSET Nat
  BY <1>1 DEF Entries
<1> QED
  BY <1>4, <1>5

LEMMA IdsAreNat ==
  ASSUME NEW r \in Runtimes
  PROVE  ActiveIds(r) \in SUBSET Nat
BY DEF ActiveIds, Runtimes, Entries

\* The sequences handlers leave behind.
LEMMA ItemTypes ==
  ASSUME NEW id \in Nat, NEW ids \in SUBSET Nat, NEW call \in Nat, NEW snap \in Snapshots
  PROVE  /\ Tell \in Items /\ Expire \in Items /\ Send(snap) \in Items
         /\ Announce(ids) \in Items /\ CloseActed(id) \in Items /\ Reply(call) \in Items
BY DEF Items, Tell, Expire, Send, Announce, CloseActed, Reply

LEMMA SnapshotType ==
  ASSUME NEW r \in Runtimes
  PROVE  Snapshot(r) \in Snapshots
BY DEF Snapshot, Snapshots, Runtimes

LEMMA ItemFields ==
  ASSUME NEW item \in Items
  PROVE  /\ item.do = "send" => item.snap \in Snapshots
         /\ item.do = "announce" => item.ids \in SUBSET Nat
         /\ item.do = "close acted" => item.id \in Nat
         /\ item.do = "reply" => item.call \in Nat
         /\ item.do = "tell" => item = Tell
<1>1. CASE item \in {Tell, Expire}
  <2>1. item = Tell => item.do = "tell"
    BY DEF Tell
  <2>2. item = Expire => item.do = "expire"
    BY DEF Expire
  <2> QED
    BY <1>1, <2>1, <2>2
<1>2. CASE item \in [do : {"send"}, snap : Snapshots]
  BY <1>2
<1>3. CASE item \in [do : {"announce"}, ids : SUBSET Nat]
  BY <1>3
<1>4. CASE item \in [do : {"close acted"}, id : Nat]
  BY <1>4
<1>5. CASE item \in [do : {"reply"}, call : Nat]
  BY <1>5
<1> QED
  BY <1>1, <1>2, <1>3, <1>4, <1>5 DEF Items

LEMMA CommandFields ==
  ASSUME NEW c \in Commands
  PROVE  /\ c.do = "enable" => c.on \in BOOLEAN /\ c.call \in Nat
         /\ c.do = "notify" => c.until \in Nat /\ c.call \in Nat
         /\ c.do = "notify nothing" => c.call \in Nat
         /\ c.do \in {"close", "act"} => c.id \in Nat
BY DEF Commands, Requests

\* A thread's sequence is replaced.
LEMMA TodoType ==
  ASSUME TypeOK, NEW t \in Threads, NEW items \in Seq(Items),
         todo' = [todo EXCEPT ![t] = items]
  PROVE  todo' \in [Threads -> Seq(Items)]
BY DEF TypeOK

LEMMA EndingsType ==
  ASSUME NEW ids \in SUBSET Nat
  PROVE  /\ Endings(ids) \in Seq(Items)
         /\ Append(Endings(ids), Expire) \in Seq(Items)
         /\ \A rest \in Seq(Items) : Endings(ids) \o rest \in Seq(Items)
<1>1. Tell \in Items /\ Expire \in Items /\ Announce(ids) \in Items
  BY DEF Items, Tell, Expire, Announce
<1> QED
  BY <1>1 DEF Endings

LEMMA HeadTail ==
  ASSUME TypeOK, NEW t \in Threads, todo[t] # <<>>
  PROVE  Head(todo[t]) \in Items /\ Tail(todo[t]) \in Seq(Items) /\ todo[t] \in Seq(Items)
BY DEF TypeOK

LEMMA TypeInit == Init => TypeOK
<1> SUFFICES ASSUME Init PROVE TypeOK
  OBVIOUS
<1>1. PICK on \in BOOLEAN : rt = New(on) /\ copy = Snapshot(New(on)) /\ saved = on
  BY DEF Init
<1>2. rt \in Runtimes
  BY <1>1 DEF New, Runtimes
<1>3. copy \in Snapshots
  BY <1>1, <1>2, SnapshotType
<1>4. <<Tell>> \in Seq(Items)
  BY DEF Items
<1>5. todo \in [Threads -> Seq(Items)]
  BY <1>4 DEF Init, Threads
<1>6. commands \in Seq(Commands) /\ waiting \in Seq(Requests)
  BY DEF Init
<1>7. told \in [Ids -> Nat]
  BY DEF Init
<1>8. now \in Nat /\ calls \in Nat /\ newest \in Nat /\ unsaved \in BOOLEAN
      /\ shown \subseteq Nat /\ muted \subseteq Nat
  BY DEF Init
<1> QED
  BY <1>1, <1>2, <1>3, <1>5, <1>6, <1>7, <1>8 DEF TypeOK

\* What a change of the runtime and of one thread's sequence leaves to show.
LEMMA ChangeType ==
  ASSUME TypeOK, NEW t \in Threads, NEW items \in Seq(Items),
         todo' = [todo EXCEPT ![t] = items], rt' \in Runtimes, commands' \in Seq(Commands),
         UNCHANGED <<now, copy, asking, told, newest>>,
         calls' \in Nat, shown' \in SUBSET Nat, muted' \in SUBSET Nat
  PROVE  TypeOK'
<1>1. todo' \in [Threads -> Seq(Items)]
  BY TodoType
<1> QED
  BY <1>1 DEF TypeOK, asking

LEMMA GoOnType ==
  ASSUME TypeOK, NEW t \in Threads, GoOn(t)
  PROVE  TypeOK'
<1>1. todo[t] # <<>>
  BY DEF GoOn, TakeSnapshot, SendState, SendEvents, Doing
<1>2. Head(todo[t]) \in Items /\ Tail(todo[t]) \in Seq(Items)
  BY <1>1, HeadTail
<1>3. CASE TakeSnapshot(t)
  <2>1. Send(Snapshot(rt)) \in Items
    <3>1. Snapshot(rt) \in Snapshots
      BY SnapshotType DEF TypeOK
    <3> QED
      BY <3>1, ItemTypes
  <2>2. <<Send(Snapshot(rt))>> \o Tail(todo[t]) \in Seq(Items)
    BY <1>2, <2>1
  <2> QED
    BY <1>3, <2>2, ChangeType DEF TakeSnapshot, TypeOK, given
<1>4. CASE SendState(t)
  <2>1. Head(todo[t]).snap \in Snapshots
    BY <1>2, <1>4, ItemFields DEF SendState, Doing
  <2>2. copy' \in Snapshots /\ newest' \in Nat
    BY <1>4, <2>1 DEF SendState, TypeOK, Snapshots
  <2>3. todo' \in [Threads -> Seq(Items)]
    BY <1>2, <1>4, TodoType DEF SendState, Done
  <2> QED
    BY <1>4, <2>2, <2>3 DEF SendState, TypeOK, asking, given
<1>5. CASE SendEvents(t)
  <2>1. told' \in [Ids -> Nat]
    BY <1>5 DEF SendEvents, TypeOK
  <2>2. todo' \in [Threads -> Seq(Items)]
    BY <1>2, <1>5, TodoType DEF SendEvents, Done
  <2> QED
    BY <1>5, <2>1, <2>2 DEF SendEvents, TypeOK, asking, given
<1> QED
  BY <1>3, <1>4, <1>5 DEF GoOn

LEMMA BusType ==
  ASSUME TypeOK, Bus
  PROVE  TypeOK'
<1>1. ASSUME NEW replaces \in Ids \cup {0}, NEW until \in Untils, BusNotify(replaces, until)
      PROVE  TypeOK'
  <2>1. replaces \in Nat /\ until \in Nat /\ rt \in Runtimes
    BY DEF Ids, Untils, TypeOK
  <2>2. rt' \in Runtimes /\ IdFor(rt, replaces) \in Nat
    BY <1>1, <2>1, NotifiedAdvances DEF BusNotify, Notify, Advances
  <2>3. <<Tell>> \in Seq(Items)
    BY DEF Items
  <2>4. shown' \in SUBSET Nat /\ muted' \in SUBSET Nat
    BY <1>1, <2>2 DEF BusNotify, Notify, TypeOK
  <2>5. calls' \in Nat /\ commands' \in Seq(Commands) /\ "bus" \in Threads
    BY <1>1 DEF BusNotify, TypeOK, Threads
  <2>6. todo' = [todo EXCEPT !["bus"] = <<Tell>>]
        /\ UNCHANGED <<now, copy, asking, told, newest>>
    BY <1>1 DEF BusNotify
  <2> QED
    BY <2>2, <2>3, <2>4, <2>5, <2>6, ChangeType
<1>2. ASSUME NEW id \in Ids, BusClose(id)
      PROVE  TypeOK'
  <2>1. id \in Nat /\ id \in ActiveIds(rt) /\ rt \in Runtimes
    BY <1>2 DEF Ids, TypeOK, BusClose
  <2>2. rt' \in Runtimes
    BY <1>2, <2>1, ClosedAdvances DEF BusClose, Reasons, Advances
  <2>3. Endings({id}) \in Seq(Items)
    BY <2>1, EndingsType
  <2> QED
    BY <1>2, <2>2, <2>3, ChangeType DEF BusClose, TypeOK, Threads, given
<1>3. CASE GoOn("bus")
  BY <1>3, GoOnType DEF Threads
<1> QED
  BY <1>1, <1>2, <1>3 DEF Bus

LEMMA ServeType ==
  ASSUME TypeOK, commands # <<>>, Serve(Head(commands))
  PROVE  TypeOK'
<1> DEFINE c == Head(commands)
<1>1. c \in Commands /\ commands' \in Seq(Commands)
  <2>1. commands' = Tail(commands)
    BY DEF Serve, SetEnabled, ShellNotify, ShellNotifyRefused, Close, InvokeAction, Receive
  <2> QED
    BY <2>1 DEF TypeOK
<1>2. rt \in Runtimes /\ shown \in SUBSET Nat /\ muted \in SUBSET Nat /\ calls \in Nat
  BY DEF TypeOK
<1>3. Tell \in Items /\ Expire \in Items
  BY DEF Items
<1>4. "svc" \in Threads
  BY DEF Threads
<1> HIDE DEF c
<1>5. CASE SetEnabled(c)
  <2>1. Reply(c.call) \in Items /\ c.on \in BOOLEAN
    BY <1>1, <1>5, CommandFields DEF SetEnabled, Items, Reply
  <2>2. <<Reply(c.call), Expire>> \in Seq(Items) /\ <<Tell, Reply(c.call), Expire>> \in Seq(Items)
    BY <1>3, <2>1
  <2>3. rt' \in Runtimes
    <3> DEFINE revision == rt.revision + 1
    <3>1. revision \in Nat
      BY <1>2 DEF Runtimes
    <3>2. rt' = rt \/ rt' = [rt EXCEPT !.enabled = c.on, !.revision = revision]
      BY <1>5 DEF SetEnabled
    <3> HIDE DEF revision
    <3> QED
      BY <1>2, <2>1, <3>1, <3>2 DEF Runtimes
  <2> QED
    BY <1>1, <1>2, <1>4, <1>5, <2>2, <2>3, ChangeType DEF SetEnabled, Then, given
<1>6. CASE ShellNotify(c)
  <2>1. Reply(c.call) \in Items /\ c.until \in Nat
    BY <1>1, <1>6, CommandFields DEF ShellNotify, Items, Reply
  <2>2. <<Tell, Reply(c.call), Expire>> \in Seq(Items)
    BY <1>3, <2>1
  <2>3. rt' \in Runtimes /\ IdFor(rt, 0) \in Nat
    BY <1>2, <1>6, <2>1, NotifiedAdvances DEF ShellNotify, Notify, Advances
  <2>4. shown' \in SUBSET Nat /\ muted' \in SUBSET Nat
    BY <1>2, <1>6, <2>3 DEF ShellNotify, Notify
  <2> QED
    BY <1>1, <1>2, <1>4, <1>6, <2>2, <2>3, <2>4, ChangeType DEF ShellNotify, Then
<1>7. CASE ShellNotifyRefused(c)
  <2>1. Reply(c.call) \in Items
    BY <1>1, <1>7, CommandFields DEF ShellNotifyRefused, Items, Reply
  <2>2. <<Reply(c.call)>> \in Seq(Items)
    BY <2>1
  <2> QED
    BY <1>1, <1>2, <1>4, <1>7, <2>2, ChangeType DEF ShellNotifyRefused, Then, given
<1>8. CASE Close(c)
  <2>1. c.id \in Nat
    BY <1>1, <1>8, CommandFields DEF Close
  <2>2. Append(Endings({c.id}), Expire) \in Seq(Items) /\ <<Expire>> \in Seq(Items)
    BY <1>3, <2>1, EndingsType
  <2>3. rt' \in Runtimes
    BY <1>2, <1>8, ClosedAdvances DEF Close, Reasons, Advances
  <2> QED
    BY <1>1, <1>2, <1>4, <1>8, <2>2, <2>3, ChangeType DEF Close, Then, given
<1>9. CASE InvokeAction(c)
  <2>1. CloseActed(c.id) \in Items
    BY <1>1, <1>9, CommandFields DEF InvokeAction, Items, CloseActed
  <2>2. <<Tell, CloseActed(c.id), Expire>> \in Seq(Items) /\ <<CloseActed(c.id), Expire>> \in Seq(Items)
    BY <1>3, <2>1
  <2>3. rt' \in Runtimes
    BY <1>2, <1>9, ActedAdvances DEF InvokeAction, Advances
  <2> QED
    BY <1>1, <1>2, <1>4, <1>9, <2>2, <2>3, ChangeType DEF InvokeAction, Then, given
<1> QED
  BY <1>5, <1>6, <1>7, <1>8, <1>9 DEF Serve, c

LEMMA SvcType ==
  ASSUME TypeOK, Svc
  PROVE  TypeOK'
<1>1. rt \in Runtimes /\ shown \in SUBSET Nat /\ muted \in SUBSET Nat /\ calls \in Nat
      /\ commands \in Seq(Commands) /\ "svc" \in Threads
  BY DEF TypeOK, Threads
<1>2. CASE commands # <<>> /\ Serve(Head(commands))
  BY <1>2, ServeType
<1>3. CASE GoOn("svc")
  BY <1>1, <1>3, GoOnType
<1>4. CASE CloseTheActed
  <2> DEFINE id == Head(todo["svc"]).id
             rest == Tail(todo["svc"])
  <2>1. id \in Nat /\ rest \in Seq(Items)
    BY <1>1, <1>4, HeadTail, ItemFields DEF CloseTheActed, Doing
  <2>2. Endings({id}) \o rest \in Seq(Items)
    BY <2>1, EndingsType
  <2>3. rt' \in Runtimes
    BY <1>1, <1>4, ClosedAdvances DEF CloseTheActed, Reasons, Advances
  <2> QED
    BY <1>1, <1>4, <2>1, <2>2, <2>3, ChangeType DEF CloseTheActed, Then, given
<1>5. CASE ExpireNothing
  BY <1>1, <1>5, HeadTail, ChangeType DEF ExpireNothing, Doing, Done, given
<1>6. CASE ExpireDue
  <2>1. rt' \in Runtimes /\ Endings({a.id : a \in Due(rt)}) \in Seq(Items)
    BY <1>1, <1>6, ExpiredAdvances, EndingsType DEF ExpireDue, Advances
  <2> QED
    BY <1>1, <1>6, <2>1, ChangeType DEF ExpireDue, Then, given
<1>7. ASSUME NEW written \in BOOLEAN, SendReply(written)
      PROVE  TypeOK'
  <2>1. todo' \in [Threads -> Seq(Items)]
    BY <1>1, <1>7, HeadTail, TodoType DEF SendReply, Doing, Done
  <2>2. (waiting # <<>> /\ waiting[1].do = "enable") => waiting[1].on \in BOOLEAN
    <3>1. waiting # <<>> => waiting[1] \in Requests
      BY DEF TypeOK
    <3> QED
      BY <3>1, CommandFields DEF Commands
  <2>3. waiting' \in Seq(Requests)
    <3>1. waiting' = <<>> \/ waiting' = waiting
      BY <1>7 DEF SendReply
    <3>2. waiting \in Seq(Requests) /\ <<>> \in Seq(Requests)
      BY DEF TypeOK
    <3> QED
      BY <3>1, <3>2
  <2>4. saved' \in BOOLEAN /\ unsaved' \in BOOLEAN
    BY <1>7, <2>2 DEF SendReply, TypeOK
  <2> QED
    BY <1>7, <2>1, <2>3, <2>4 DEF SendReply, TypeOK, given
<1> QED
  BY <1>2, <1>3, <1>4, <1>5, <1>6, <1>7 DEF Svc

LEMMA LoopType ==
  ASSUME TypeOK, Loop
  PROVE  TypeOK'
<1>1. ASSUME NEW c \in Commands, Command(c), waiting' \in Seq(Requests)
      PROVE  TypeOK'
  BY <1>1 DEF Command, TypeOK
<1>2. ASSUME NEW c \in Requests, Request(c)
      PROVE  TypeOK'
  BY <1>1, <1>2 DEF Request, Commands
<1>3. ASSUME NEW id \in Ids, AskClose(id) \/ AskAction(id)
      PROVE  TypeOK'
  BY <1>1, <1>3 DEF AskClose, AskAction, Commands, Ids, TypeOK
<1>4. ASSUME NEW on \in BOOLEAN, AskEnabled(on)
      PROVE  TypeOK'
  BY <1>2, <1>4 DEF AskEnabled, Requests, TypeOK
<1>5. ASSUME NEW until \in Untils, AskNotify(until)
      PROVE  TypeOK'
  <2>1. until \in Nat
    BY DEF Untils
  <2> QED
    BY <1>2, <1>5, <2>1 DEF AskNotify, Requests, TypeOK
<1>6. CASE AskNothing
  BY <1>2, <1>6 DEF AskNothing, Requests, TypeOK
<1>7. CASE ReplyTimeout
  BY <1>7 DEF ReplyTimeout, TypeOK, given
<1> QED
  BY <1>3, <1>4, <1>5, <1>6, <1>7 DEF Loop

LEMMA TypeStep == TypeOK /\ [Next]_vars => TypeOK'
<1> SUFFICES ASSUME TypeOK, [Next]_vars PROVE TypeOK'
  OBVIOUS
<1>1. CASE Tick
  BY <1>1 DEF Tick, TypeOK, asking, given
<1>2. CASE UNCHANGED vars
  BY <1>2 DEF vars, TypeOK, asking, given
<1> QED
  BY <1>1, <1>2, BusType, SvcType, LoopType DEF Next

\* Runtime, threads, commands and what the loop keeps have their types, for any
\* number of calls.
THEOREM TypeCorrect == Spec => []TypeOK
BY TypeInit, TypeStep, PTL DEF Spec

-----------------------------------------------------------------------------
(* The copy. A snapshot that was taken is the runtime's state, or older;   *)
(* and while none of the current revision has been sent, somebody has yet  *)
(* to take or send one.                                                    *)

Known(snap) ==
  snap.revision <= rt.revision /\ (snap.revision = rt.revision => snap = Snapshot(rt))

Taken(t)  == {i \in DOMAIN todo[t] : todo[t][i].do = "send"}
Untold(t) == \/ \E i \in DOMAIN todo[t] : todo[t][i] = Tell
             \/ \E i \in Taken(t) : todo[t][i].snap.revision = rt.revision

CopyInv ==
  /\ Known(copy)
  /\ \A t \in Threads : \A i \in Taken(t) : Known(todo[t][i].snap)
  /\ copy.revision <= newest /\ newest <= rt.revision
  /\ newest = rt.revision \/ \E t \in Threads : Untold(t)

LEMMA CopyInit == Init => CopyInv
<1> SUFFICES ASSUME Init PROVE CopyInv
  OBVIOUS
<1>1. PICK on \in BOOLEAN : rt = New(on) /\ copy = Snapshot(New(on))
  BY DEF Init
<1>2. rt.revision = 1 /\ copy = Snapshot(rt) /\ copy.revision = 1 /\ newest = 1
  BY <1>1 DEF Init, New, Snapshot
<1>3. todo["svc"] = <<Tell>> /\ todo["bus"] = <<>>
  BY DEF Init, Threads
<1>4. \A t \in Threads : Taken(t) = {}
  BY <1>3 DEF Taken, Threads, Tell
<1> QED
  BY <1>2, <1>4 DEF CopyInv, Known

\* A handler changed the runtime: it has yet to tell.
LEMMA CopyChange ==
  ASSUME TypeOK, CopyInv, NEW t \in Threads, NEW items \in Seq(Items),
         todo' = [todo EXCEPT ![t] = items], rt'.revision = rt.revision + 1,
         UNCHANGED <<copy, newest>>,
         \E i \in DOMAIN items : items[i] = Tell,
         \A i \in DOMAIN items : items[i].do = "send" =>
           \E j \in DOMAIN todo[t] : todo[t][j] = items[i]
  PROVE  CopyInv'
<1>1. rt.revision \in Nat /\ rt'.revision = rt.revision + 1 /\ newest \in Nat
      /\ copy.revision \in Nat
  BY DEF TypeOK, Runtimes, Snapshots
<1>2. ASSUME NEW u \in Threads, NEW i \in DOMAIN todo[u], todo[u][i].do = "send"
      PROVE  todo[u][i].snap.revision \in Nat
  <2>1. todo[u] \in Seq(Items)
    BY DEF TypeOK
  <2>2. todo[u][i] \in Items
    BY <2>1
  <2>3. todo[u][i].snap \in Snapshots
    BY <1>2, <2>2, ItemFields
  <2> QED
    BY <2>3 DEF Snapshots
<1>3. todo'[t] = items /\ \A u \in Threads \ {t} : todo'[u] = todo[u]
  BY DEF TypeOK
<1>4. ASSUME NEW u \in Threads, NEW i \in Taken(u)'
      PROVE  Known(todo[u][i].snap)'
  <2>1. PICK j \in Taken(u) : todo[u][j] = todo'[u][i]
    <3>1. CASE u = t
      BY <1>3, <1>4, <3>1 DEF Taken
    <3>2. CASE u # t
      BY <1>3, <1>4, <3>2 DEF Taken
    <3> QED
      BY <3>1, <3>2
  <2>2. todo[u][j].snap.revision <= rt.revision /\ todo[u][j].snap.revision \in Nat
    BY <1>2, <2>1 DEF CopyInv, Known, Taken
  <2> QED
    BY <1>1, <2>1, <2>2 DEF Known
<1>5. Known(copy)'
  BY <1>1 DEF Known, CopyInv
<1>6. Untold(t)'
  BY <1>3 DEF Untold
<1> QED
  BY <1>1, <1>4, <1>5, <1>6 DEF CopyInv

\* What is left has the same snapshots to take and to send.
SameNews(old, items) ==
  /\ \A i \in DOMAIN items : items[i].do = "send" => \E j \in DOMAIN old : old[j] = items[i]
  /\ \A j \in DOMAIN old : old[j].do \in {"send", "tell"} =>
       \E i \in DOMAIN items : items[i] = old[j]

\* A handler goes on, or begins, without a change.
LEMMA CopyKept ==
  ASSUME TypeOK, CopyInv, NEW t \in Threads, NEW items \in Seq(Items),
         todo' = [todo EXCEPT ![t] = items], UNCHANGED <<rt, copy, newest>>,
         SameNews(todo[t], items)
  PROVE  CopyInv'
<1>1. todo'[t] = items /\ \A u \in Threads \ {t} : todo'[u] = todo[u]
  BY DEF TypeOK
<1>2. ASSUME NEW u \in Threads, NEW i \in Taken(u)'
      PROVE  Known(todo[u][i].snap)'
  <2>1. PICK j \in Taken(u) : todo[u][j] = todo'[u][i]
    <3>1. CASE u = t
      BY <1>1, <1>2, <3>1 DEF Taken, SameNews
    <3>2. CASE u # t
      BY <1>1, <1>2, <3>2 DEF Taken
    <3> QED
      BY <3>1, <3>2
  <2> QED
    BY <2>1 DEF CopyInv, Known
<1>3. ASSUME NEW u \in Threads, Untold(u)
      PROVE  Untold(u)'
  <2>1. CASE u # t
    BY <1>1, <1>3, <2>1 DEF Untold, Taken
  <2>2. CASE u = t /\ \E j \in DOMAIN todo[t] : todo[t][j] = Tell
    BY <1>1, <2>2 DEF Untold, Tell, SameNews
  <2>3. CASE u = t /\ \E j \in Taken(t) : todo[t][j].snap.revision = rt.revision
    BY <1>1, <2>3 DEF Untold, Taken, SameNews
  <2> QED
    BY <1>3, <2>1, <2>2, <2>3 DEF Untold
<1> QED
  BY <1>2, <1>3 DEF CopyInv, Known

LEMMA RestIsThere ==
  ASSUME NEW s \in Seq(Items), s # <<>>
  PROVE  /\ \A i \in DOMAIN Tail(s) : i + 1 \in DOMAIN s /\ Tail(s)[i] = s[i + 1]
         /\ \A j \in DOMAIN s : j # 1 => j - 1 \in DOMAIN Tail(s) /\ Tail(s)[j - 1] = s[j]
         /\ 1 \in DOMAIN s /\ Head(s) = s[1]
OBVIOUS

LEMMA EndingsTell ==
  ASSUME NEW ids
  PROVE  /\ \E i \in DOMAIN Endings(ids) : Endings(ids)[i] = Tell
         /\ \A i \in DOMAIN Endings(ids) : Endings(ids)[i].do # "send"
BY DEF Endings, Tell, Announce

\* What is done was neither to be taken nor to be sent.
LEMMA CopyDone ==
  ASSUME TypeOK, CopyInv, NEW t \in Threads, todo[t] # <<>>,
         todo[t][1].do \notin {"send", "tell"}, Done(t), UNCHANGED <<rt, copy, newest>>
  PROVE  CopyInv'
<1> DEFINE rest == Tail(todo[t])
<1>1. todo[t] \in Seq(Items) /\ rest \in Seq(Items)
  BY HeadTail
<1>2. todo' = [todo EXCEPT ![t] = rest]
  BY DEF Done
<1>3. \A i \in DOMAIN rest : \E j \in DOMAIN todo[t] : todo[t][j] = rest[i]
  BY <1>1, RestIsThere
<1>4. \A j \in DOMAIN todo[t] : todo[t][j].do \in {"send", "tell"} =>
        \E i \in DOMAIN rest : rest[i] = todo[t][j]
  BY <1>1, RestIsThere
<1> HIDE DEF rest
<1>5. SameNews(todo[t], rest)
  BY <1>3, <1>4 DEF SameNews
<1> QED
  BY <1>1, <1>2, <1>5, CopyKept

LEMMA CopyGoOn ==
  ASSUME TypeOK, CopyInv, NEW t \in Threads, GoOn(t)
  PROVE  CopyInv'
<1>1. todo[t] # <<>>
  BY DEF GoOn, TakeSnapshot, SendState, SendEvents, Doing
<1>2. todo[t] \in Seq(Items) /\ Tail(todo[t]) \in Seq(Items) /\ Head(todo[t]) \in Items
  BY <1>1, HeadTail
<1>3. rt \in Runtimes /\ rt.revision \in Nat /\ newest \in Nat
  BY DEF TypeOK, Runtimes
<1> DEFINE rest == Tail(todo[t])
<1>4. \A i \in DOMAIN rest : i + 1 \in DOMAIN todo[t] /\ rest[i] = todo[t][i + 1]
  BY <1>1, <1>2, RestIsThere
<1>5. \A j \in DOMAIN todo[t] : j # 1 => j - 1 \in DOMAIN rest /\ rest[j - 1] = todo[t][j]
  BY <1>1, <1>2, RestIsThere
<1>6. Head(todo[t]) = todo[t][1] /\ 1 \in DOMAIN todo[t]
  BY <1>1, <1>2, RestIsThere
<1>7. CASE TakeSnapshot(t)
  <2> DEFINE items == <<Send(Snapshot(rt))>> \o rest
  <2>1. items \in Seq(Items) /\ todo' = [todo EXCEPT ![t] = items]
        /\ UNCHANGED <<rt, copy, newest>>
    <3>1. Snapshot(rt) \in Snapshots
      BY <1>3, SnapshotType
    <3>2. Send(Snapshot(rt)) \in Items
      BY <3>1, ItemTypes
    <3> QED
      BY <1>2, <1>7, <3>2 DEF TakeSnapshot
  <2>2. todo'[t] = items /\ \A u \in Threads \ {t} : todo'[u] = todo[u]
    BY <2>1 DEF TypeOK
  <2>3. 1 \in DOMAIN items /\ items[1] = Send(Snapshot(rt))
        /\ \A i \in DOMAIN items : i # 1 => i - 1 \in DOMAIN rest /\ items[i] = rest[i - 1]
    BY <1>2
  <2>4. Snapshot(rt).revision = rt.revision
    BY DEF Snapshot
  <2> HIDE DEF items, rest
  <2>5. ASSUME NEW u \in Threads, NEW i \in Taken(u)'
        PROVE  Known(todo[u][i].snap)'
    <3>1. CASE u # t
      BY <2>1, <2>2, <2>5, <3>1 DEF Taken, CopyInv, Known
    <3>2. CASE u = t /\ i = 1
      BY <1>3, <2>1, <2>2, <2>3, <2>4, <3>2 DEF Known, Send
    <3>3. CASE u = t /\ i # 1
      <4>1. \E j \in Taken(t) : todo[t][j] = todo'[t][i]
        BY <1>4, <2>2, <2>3, <2>5, <3>3 DEF Taken
      <4> QED
        BY <2>1, <3>3, <4>1 DEF CopyInv, Known
    <3> QED
      BY <3>1, <3>2, <3>3
  <2>6. Untold(t)'
    BY <2>1, <2>2, <2>3, <2>4 DEF Untold, Taken, Send
  <2> QED
    BY <2>1, <2>5, <2>6 DEF CopyInv, Known
<1>8. CASE SendState(t)
  <2> DEFINE snap == Head(todo[t]).snap
  <2>1. todo' = [todo EXCEPT ![t] = rest] /\ rt' = rt /\ copy' = snap
        /\ newest' = (IF snap.revision < newest THEN newest ELSE snap.revision)
        /\ todo[t][1].do = "send" /\ snap = todo[t][1].snap
    BY <1>6, <1>8 DEF SendState, Done, Doing
  <2>2. todo'[t] = rest /\ \A u \in Threads \ {t} : todo'[u] = todo[u]
    BY <2>1 DEF TypeOK
  <2>3. Known(snap) /\ snap.revision \in Nat
    <3>1. snap \in Snapshots
      BY <1>2, <1>6, <2>1, ItemFields
    <3> QED
      BY <1>6, <2>1, <3>1 DEF CopyInv, Taken, Snapshots
  <2> HIDE DEF snap, rest
  <2>4. ASSUME NEW u \in Threads, NEW i \in Taken(u)'
        PROVE  Known(todo[u][i].snap)'
    <3>1. CASE u # t
      BY <2>1, <2>2, <2>4, <3>1 DEF Taken, CopyInv, Known
    <3>2. CASE u = t
      <4>1. \E j \in Taken(t) : todo[t][j] = todo'[t][i]
        BY <1>4, <2>2, <2>4, <3>2 DEF Taken
      <4> QED
        BY <2>1, <3>2, <4>1 DEF CopyInv, Known
    <3> QED
      BY <3>1, <3>2
  <2>5. copy'.revision <= newest' /\ newest' <= rt'.revision /\ Known(copy)'
    BY <1>3, <2>1, <2>3 DEF CopyInv, Known
  <2>6. newest' = rt'.revision \/ \E u \in Threads : Untold(u)'
    <3>1. CASE newest = rt.revision \/ snap.revision = rt.revision
      BY <1>3, <2>1, <2>3, <3>1 DEF Known, CopyInv
    <3>2. CASE ~(newest = rt.revision \/ snap.revision = rt.revision)
      <4>1. PICK u \in Threads : Untold(u)
        BY <3>2 DEF CopyInv
      <4>2. CASE u # t
        BY <2>1, <2>2, <4>1, <4>2 DEF Untold, Taken
      <4>3. CASE u = t
        <5>1. PICK j \in DOMAIN todo[t] :
                \/ todo[t][j] = Tell
                \/ todo[t][j].do = "send" /\ todo[t][j].snap.revision = rt.revision
          BY <4>1, <4>3 DEF Untold, Taken
        <5>2. j # 1
          BY <2>1, <3>2, <5>1 DEF Tell
        <5>3. j - 1 \in DOMAIN todo'[t] /\ todo'[t][j - 1] = todo[t][j]
          BY <1>5, <2>2, <5>2
        <5> QED
          BY <2>1, <4>3, <5>1, <5>3 DEF Untold, Taken
      <4> QED
        BY <4>2, <4>3
    <3> QED
      BY <3>1, <3>2
  <2> QED
    BY <2>4, <2>5, <2>6 DEF CopyInv
<1>9. CASE SendEvents(t)
  <2>1. todo[t][1].do = "announce"
    BY <1>6, <1>9 DEF SendEvents, Doing
  <2> QED
    BY <1>1, <1>9, <2>1, CopyDone DEF SendEvents
<1> QED
  BY <1>7, <1>8, <1>9 DEF GoOn

LEMMA CopyBus ==
  ASSUME TypeOK, CopyInv, Bus
  PROVE  CopyInv'
<1>1. rt \in Runtimes /\ "bus" \in Threads /\ Tell \in Items
  BY DEF TypeOK, Threads, Items
<1>2. ASSUME NEW replaces \in Ids \cup {0}, NEW until \in Untils, BusNotify(replaces, until)
      PROVE  CopyInv'
  <2>1. replaces \in Nat /\ until \in Nat
    BY DEF Ids, Untils
  <2>2. Advances(rt, rt')
    BY <1>1, <1>2, <2>1, NotifiedAdvances DEF BusNotify, Notify
  <2>3. todo' = [todo EXCEPT !["bus"] = <<Tell>>] /\ UNCHANGED <<copy, newest>>
    BY <1>2 DEF BusNotify
  <2>4. <<Tell>> \in Seq(Items)
    BY <1>1
  <2>5. \A i \in DOMAIN <<Tell>> : <<Tell>>[i] = Tell /\ <<Tell>>[i].do # "send"
    BY DEF Tell
  <2>6. 1 \in DOMAIN <<Tell>>
    OBVIOUS
  <2> QED
    BY <1>1, <2>2, <2>3, <2>4, <2>5, <2>6, CopyChange DEF Advances
<1>3. ASSUME NEW id \in Ids, BusClose(id)
      PROVE  CopyInv'
  <2>1. Advances(rt, rt')
    BY <1>1, <1>3, ClosedAdvances DEF BusClose, Reasons
  <2>2. todo' = [todo EXCEPT !["bus"] = Endings({id})] /\ UNCHANGED <<copy, newest>>
    BY <1>3 DEF BusClose
  <2>3. Endings({id}) \in Seq(Items)
    BY EndingsType DEF Ids
  <2> QED
    BY <1>1, <2>1, <2>2, <2>3, EndingsTell, CopyChange DEF Advances
<1>4. CASE GoOn("bus")
  BY <1>1, <1>4, CopyGoOn
<1> QED
  BY <1>2, <1>3, <1>4 DEF Bus

LEMMA CopyServe ==
  ASSUME TypeOK, CopyInv, commands # <<>>, Serve(Head(commands))
  PROVE  CopyInv'
<1> DEFINE c == Head(commands)
<1>1. c \in Commands /\ rt \in Runtimes /\ "svc" \in Threads
  BY DEF TypeOK, Threads
<1>2. todo["svc"] = <<>> /\ UNCHANGED <<copy, newest>>
  BY DEF Serve, SetEnabled, ShellNotify, ShellNotifyRefused, Close, InvokeAction, Receive
<1>3. TypeOK'
  BY ServeType
<1> HIDE DEF c
<1>4. ASSUME NEW items, Then(items)
      PROVE  items \in Seq(Items)
  BY <1>1, <1>3, <1>4 DEF Then, TypeOK
\* Every command ends in one of two ways.
<1>5. ASSUME NEW items, Then(items), rt'.revision = rt.revision + 1,
             \E i \in DOMAIN items : items[i] = Tell,
             \A i \in DOMAIN items : items[i].do # "send"
      PROVE  CopyInv'
  BY <1>1, <1>2, <1>4, <1>5, CopyChange DEF Then
<1>6. ASSUME NEW items, Then(items), rt' = rt, \A i \in DOMAIN items : items[i].do # "send"
      PROVE  CopyInv'
  <2>1. SameNews(todo["svc"], items)
    BY <1>2, <1>6 DEF SameNews
  <2> QED
    BY <1>1, <1>2, <1>4, <1>6, <2>1, CopyKept DEF Then
<1>7. CASE SetEnabled(c)
  <2>1. CASE rt.enabled = c.on
    <3>1. \A i \in DOMAIN <<Reply(c.call), Expire>> : <<Reply(c.call), Expire>>[i].do # "send"
      BY DEF Reply, Expire
    <3> QED
      BY <1>6, <1>7, <2>1, <3>1 DEF SetEnabled
  <2>2. CASE rt.enabled # c.on
    <3> DEFINE items == <<Tell, Reply(c.call), Expire>>
    <3>1. Then(items) /\ rt' = [rt EXCEPT !.enabled = c.on, !.revision = @ + 1]
      BY <1>7, <2>2 DEF SetEnabled
    <3>2. items[1] = Tell /\ 1 \in DOMAIN items /\ \A i \in DOMAIN items : items[i].do # "send"
      BY DEF Tell, Reply, Expire
    <3>3. rt'.revision = rt.revision + 1
      BY <1>1, <3>1 DEF Runtimes
    <3> HIDE DEF items
    <3> QED
      BY <1>5, <3>1, <3>2, <3>3
  <2> QED
    BY <2>1, <2>2
<1>8. CASE ShellNotify(c)
  <2> DEFINE items == <<Tell, Reply(c.call), Expire>>
  <2>1. c.until \in Nat
    BY <1>1, <1>8, CommandFields DEF ShellNotify
  <2>2. Advances(rt, rt') /\ Then(items)
    BY <1>1, <1>8, <2>1, NotifiedAdvances DEF ShellNotify, Notify
  <2>3. items[1] = Tell /\ 1 \in DOMAIN items /\ \A i \in DOMAIN items : items[i].do # "send"
    BY DEF Tell, Reply, Expire
  <2> HIDE DEF items
  <2> QED
    BY <1>5, <2>2, <2>3 DEF Advances
<1>9. CASE ShellNotifyRefused(c)
  <2>1. \A i \in DOMAIN <<Reply(c.call)>> : <<Reply(c.call)>>[i].do # "send"
    BY DEF Reply
  <2> QED
    BY <1>6, <1>9, <2>1 DEF ShellNotifyRefused
<1>10. CASE Close(c)
  <2>1. CASE c.id \in ActiveIds(rt)
    <3> DEFINE items == Append(Endings({c.id}), Expire)
    <3>1. Advances(rt, rt') /\ Then(items)
      BY <1>1, <1>10, <2>1, ClosedAdvances DEF Close, Reasons
    <3>2. items[1] = Tell /\ 1 \in DOMAIN items /\ \A i \in DOMAIN items : items[i].do # "send"
      BY DEF Endings, Tell, Announce, Expire
    <3> HIDE DEF items
    <3> QED
      BY <1>5, <3>1, <3>2 DEF Advances
  <2>2. CASE c.id \notin ActiveIds(rt)
    <3>1. \A i \in DOMAIN <<Expire>> : <<Expire>>[i].do # "send"
      BY DEF Expire
    <3> QED
      BY <1>6, <1>10, <2>2, <3>1 DEF Close
  <2> QED
    BY <2>1, <2>2
<1>11. CASE InvokeAction(c)
  <2>1. CASE c.id \in ActiveIds(rt)
    <3> DEFINE items == <<Tell, CloseActed(c.id), Expire>>
    <3>1. Advances(rt, rt') /\ Then(items)
      BY <1>1, <1>11, <2>1, ActedAdvances DEF InvokeAction
    <3>2. items[1] = Tell /\ 1 \in DOMAIN items /\ \A i \in DOMAIN items : items[i].do # "send"
      <4>1. Tell.do # "send" /\ CloseActed(c.id).do # "send" /\ Expire.do # "send"
        BY DEF Tell, CloseActed, Expire
      <4> QED
        BY <4>1
    <3> HIDE DEF items
    <3> QED
      BY <1>5, <3>1, <3>2 DEF Advances
  <2>2. CASE c.id \notin ActiveIds(rt)
    <3> DEFINE items == <<CloseActed(c.id), Expire>>
    <3>1. \A i \in DOMAIN items : items[i].do # "send"
      <4>1. CloseActed(c.id).do # "send" /\ Expire.do # "send"
        BY DEF CloseActed, Expire
      <4> QED
        BY <4>1
    <3> HIDE DEF items
    <3>2. Then(items) /\ rt' = rt
      BY <1>11, <2>2 DEF InvokeAction, items
    <3> QED
      BY <1>6, <3>1, <3>2
  <2> QED
    BY <2>1, <2>2
<1> QED
  BY <1>7, <1>8, <1>9, <1>10, <1>11 DEF Serve, c

LEMMA CopySvc ==
  ASSUME TypeOK, CopyInv, Svc
  PROVE  CopyInv'
<1>1. rt \in Runtimes /\ "svc" \in Threads
  BY DEF TypeOK, Threads
<1>2. CASE commands # <<>> /\ Serve(Head(commands))
  BY <1>2, CopyServe
<1>3. CASE GoOn("svc")
  BY <1>1, <1>3, CopyGoOn
<1>4. CASE CloseTheActed
  <2> DEFINE id == Head(todo["svc"]).id
             rest == Tail(todo["svc"])
             items == Endings({id}) \o rest
  <2>1. id \in Nat /\ rest \in Seq(Items) /\ todo["svc"] \in Seq(Items) /\ todo["svc"] # <<>>
    BY <1>1, <1>4, HeadTail, ItemFields DEF CloseTheActed, Doing
  <2>2. todo["svc"][1].do = "close acted"
    BY <1>4, <2>1, RestIsThere DEF CloseTheActed, Doing
  <2>3. CASE id \in ActiveIds(rt)
    <3>1. Advances(rt, rt') /\ todo' = [todo EXCEPT !["svc"] = items] /\ UNCHANGED <<copy, newest>>
      BY <1>1, <1>4, <2>3, ClosedAdvances DEF CloseTheActed, Reasons, Then
    <3>2. Endings({id}) \in Seq(Items) /\ items \in Seq(Items)
      BY <2>1, EndingsType
    <3>3. items[1] = Tell /\ 1 \in DOMAIN items
      BY <2>1, <3>2 DEF Endings
    <3>4. ASSUME NEW i \in DOMAIN items, items[i].do = "send"
          PROVE  \E j \in DOMAIN todo["svc"] : todo["svc"][j] = items[i]
      <4>1. i > 2
        BY <2>1, <3>2, <3>4 DEF Endings, Tell, Announce
      <4>2. items[i] = rest[i - 2] /\ i - 2 \in DOMAIN rest
        BY <2>1, <3>2, <4>1 DEF Endings
      <4> QED
        <5>1. (i - 2) + 1 \in DOMAIN todo["svc"] /\ rest[i - 2] = todo["svc"][(i - 2) + 1]
          BY <2>1, <4>2, RestIsThere
        <5> QED
          BY <4>2, <5>1
    <3> HIDE DEF items
    <3> QED
      BY <1>1, <3>1, <3>2, <3>3, <3>4, CopyChange DEF Advances
  <2>4. CASE id \notin ActiveIds(rt)
    <3>1. rt' = rt /\ Done("svc") /\ UNCHANGED <<copy, newest>>
      BY <1>4, <2>4 DEF CloseTheActed, Then, Done
    <3> QED
      BY <1>1, <2>1, <2>2, <3>1, CopyDone
  <2> QED
    BY <2>3, <2>4
<1>5. CASE ExpireNothing
  <2>1. todo["svc"] # <<>> /\ todo["svc"][1].do = "expire"
    BY <1>1, <1>5, HeadTail DEF ExpireNothing, Doing
  <2> QED
    BY <1>1, <1>5, <2>1, CopyDone DEF ExpireNothing
<1>6. CASE ExpireDue
  <2> DEFINE ids == {a.id : a \in Due(rt)}
  <2>1. Advances(rt, rt') /\ Endings(ids) \in Seq(Items)
    BY <1>1, <1>6, ExpiredAdvances, EndingsType DEF ExpireDue
  <2>2. todo' = [todo EXCEPT !["svc"] = Endings(ids)] /\ UNCHANGED <<copy, newest>>
    BY <1>6 DEF ExpireDue, Then
  <2> HIDE DEF ids
  <2> QED
    BY <1>1, <2>1, <2>2, EndingsTell, CopyChange DEF Advances
<1>7. ASSUME NEW written \in BOOLEAN, SendReply(written)
      PROVE  CopyInv'
  <2>1. todo["svc"] # <<>> /\ todo["svc"][1].do = "reply"
    BY <1>1, <1>7, HeadTail DEF SendReply, Doing
  <2> QED
    BY <1>1, <1>7, <2>1, CopyDone DEF SendReply
<1> QED
  BY <1>2, <1>3, <1>4, <1>5, <1>6, <1>7 DEF Svc

LEMMA CopyStep == TypeOK /\ CopyInv /\ [Next]_vars => CopyInv'
<1> SUFFICES ASSUME TypeOK, CopyInv, [Next]_vars PROVE CopyInv'
  OBVIOUS
<1>1. ASSUME UNCHANGED <<rt, todo, copy, newest>>
      PROVE  CopyInv'
  BY <1>1 DEF CopyInv, Known, Taken, Untold
<1>2. CASE Loop
  BY <1>1, <1>2 DEF Loop, AskClose, AskAction, AskEnabled, AskNotify, AskNothing, Request,
                    Command, ReplyTimeout
<1>3. CASE Tick
  BY <1>1, <1>3 DEF Tick
<1>4. CASE UNCHANGED vars
  BY <1>1, <1>4 DEF vars
<1> QED
  BY <1>2, <1>3, <1>4, CopyBus, CopySvc DEF Next

LEMMA CopyAgrees == CopyInv => CopyIsCurrent
<1> SUFFICES ASSUME CopyInv, Idle, copy.revision = newest
             PROVE  copy = Snapshot(rt)
  BY DEF CopyIsCurrent
<1>1. \A t \in Threads : ~Untold(t)
  BY DEF Idle, Untold, Taken
<1> QED
  BY <1>1 DEF CopyInv, Known

-----------------------------------------------------------------------------
(* The setting. The loop waits for the command it sent last; once svc has  *)
(* received it, none is behind it, and its answer says what the runtime    *)
(* does. An older change of the setting can be on its way only when the    *)
(* loop gave up on it.                                                     *)

Replies == {todo["svc"][i].call : i \in {j \in DOMAIN todo["svc"] : todo["svc"][j].do = "reply"}}

IsRequest(c) == c.do \in {"enable", "notify", "notify nothing"}

CallsInv ==
  /\ \A i \in DOMAIN commands : IsRequest(commands[i]) => commands[i].call < calls
  /\ \A call \in Replies : call < calls
  /\ waiting # <<>> => waiting[1].call < calls

\* The request the loop waits for is the last one sent, and has one answer.
WaitingInv ==
  waiting # <<>> =>
    /\ commands # <<>> =>
         /\ commands[Len(commands)] = waiting[1]
         /\ waiting[1].call \notin Replies
         /\ \A i \in DOMAIN commands :
              i # Len(commands) /\ IsRequest(commands[i]) => commands[i].call # waiting[1].call
    /\ commands = <<>> /\ waiting[1].do = "enable" /\ waiting[1].call \in Replies =>
         rt.enabled = waiting[1].on

SettingInv ==
  /\ \A i \in DOMAIN commands :
       commands[i].do = "enable" => unsaved \/ (waiting # <<>> /\ i = Len(commands))
  /\ ~unsaved => saved = rt.enabled \/ (waiting # <<>> /\ waiting[1].do = "enable")

AskInv == CallsInv /\ WaitingInv /\ SettingInv

LEMMA AskInit == Init => AskInv
<1> SUFFICES ASSUME Init PROVE AskInv
  OBVIOUS
<1>1. commands = <<>> /\ waiting = <<>> /\ ~unsaved
  BY DEF Init
<1>2. saved = rt.enabled
  BY DEF Init, New
<1>3. todo["svc"] = <<Tell>>
  BY DEF Init, Threads
<1>4. Replies = {}
  BY <1>3 DEF Replies, Tell
<1> QED
  BY <1>1, <1>2, <1>4 DEF AskInv, CallsInv, WaitingInv, SettingInv

LEMMA RepliesType ==
  ASSUME TypeOK
  PROVE  Replies \subseteq Nat
<1>1. todo["svc"] \in Seq(Items)
  BY DEF TypeOK, Threads
<1>2. ASSUME NEW i \in DOMAIN todo["svc"], todo["svc"][i].do = "reply"
      PROVE  todo["svc"][i].call \in Nat
  <2>1. todo["svc"][i] \in Items
    BY <1>1
  <2> QED
    BY <1>2, <2>1, ItemFields
<1> QED
  BY <1>2 DEF Replies

LEMMA RepliesShrink ==
  ASSUME \A i \in DOMAIN todo'["svc"] : todo'["svc"][i].do = "reply" =>
           \E j \in DOMAIN todo["svc"] : todo["svc"][j] = todo'["svc"][i]
  PROVE  Replies' \subseteq Replies
BY DEF Replies

LEMMA RepliesDone ==
  ASSUME TypeOK, todo["svc"] # <<>>, Done("svc")
  PROVE  Replies' \subseteq Replies
<1> DEFINE rest == Tail(todo["svc"])
<1>1. todo["svc"] \in Seq(Items) /\ todo'["svc"] = rest
  BY HeadTail DEF Done, TypeOK, Threads
<1>2. \A i \in DOMAIN rest : i + 1 \in DOMAIN todo["svc"] /\ rest[i] = todo["svc"][i + 1]
  BY <1>1, RestIsThere
<1> HIDE DEF rest
<1> QED
  BY <1>1, <1>2, RepliesShrink

\* Nothing is asked or answered, and the setting stays.
LEMMA AskKept ==
  ASSUME TypeOK, AskInv, UNCHANGED <<commands, waiting, saved, unsaved>>,
         calls' = calls \/ calls' = calls + 1, rt'.enabled = rt.enabled,
         Replies' \subseteq Replies
  PROVE  AskInv'
<1>1. CallsInv'
  <2>1. calls \in Nat /\ commands \in Seq(Commands) /\ waiting \in Seq(Requests)
    BY DEF TypeOK
  <2>2. ASSUME NEW n, n \in Nat, n < calls PROVE n < calls'
    BY <2>1, <2>2
  <2>3. ASSUME NEW i \in DOMAIN commands, IsRequest(commands[i])
        PROVE  commands[i].call \in Nat
    <3>1. commands[i] \in Commands
      BY <2>1
    <3> QED
      BY <2>3, <3>1, CommandFields DEF IsRequest
  <2>4. \A call \in Replies : call \in Nat
    BY RepliesType
  <2>5. ASSUME waiting # <<>>
        PROVE  waiting[1].call \in Nat
    <3>1. waiting[1] \in Requests
      BY <2>1, <2>5
    <3> QED
      BY <3>1 DEF Requests
  <2> QED
    BY <2>2, <2>3, <2>4, <2>5 DEF AskInv, CallsInv
<1>2. WaitingInv'
  BY DEF AskInv, WaitingInv
<1>3. SettingInv'
  BY DEF AskInv, SettingInv
<1> QED
  BY <1>1, <1>2, <1>3 DEF AskInv

LEMMA AskBus ==
  ASSUME TypeOK, AskInv, Bus
  PROVE  AskInv'
<1>1. rt \in Runtimes
  BY DEF TypeOK
<1>2. todo'["svc"] = todo["svc"]
  BY DEF Bus, GoOn, BusNotify, BusClose, TakeSnapshot, SendState, SendEvents, Done, TypeOK, Threads
<1>3. Replies' = Replies
  BY <1>2 DEF Replies
<1>4. ASSUME NEW replaces \in Ids \cup {0}, NEW until \in Untils, BusNotify(replaces, until)
      PROVE  AskInv'
  <2>1. replaces \in Nat /\ until \in Nat
    BY DEF Ids, Untils
  <2>2. rt'.enabled = rt.enabled
    BY <1>1, <1>4, <2>1, NotifiedAdvances DEF BusNotify, Notify, Advances
  <2> QED
    BY <1>3, <1>4, <2>2, AskKept DEF BusNotify, asking
<1>5. ASSUME NEW id \in Ids, BusClose(id)
      PROVE  AskInv'
  <2>1. rt'.enabled = rt.enabled
    BY <1>1, <1>5, ClosedAdvances DEF BusClose, Reasons, Advances
  <2> QED
    BY <1>3, <1>5, <2>1, AskKept DEF BusClose, asking, given
<1>6. CASE GoOn("bus")
  BY <1>3, <1>6, AskKept DEF GoOn, TakeSnapshot, SendState, SendEvents, asking, given
<1> QED
  BY <1>4, <1>5, <1>6 DEF Bus

LEMMA AskGoOn ==
  ASSUME TypeOK, AskInv, GoOn("svc")
  PROVE  AskInv'
<1> DEFINE s == todo["svc"]
           rest == Tail(s)
<1>1. "svc" \in Threads /\ s # <<>>
  BY DEF Threads, GoOn, TakeSnapshot, SendState, SendEvents, Doing
<1>2. s \in Seq(Items) /\ rest \in Seq(Items)
  BY <1>1, HeadTail
<1>3. Replies' \subseteq Replies
  <2>1. CASE TakeSnapshot("svc")
    <3>1. todo'["svc"] = <<Send(Snapshot(rt))>> \o rest
      BY <1>1, <2>1 DEF TakeSnapshot, TypeOK
    <3>2. ASSUME NEW i \in DOMAIN todo'["svc"], todo'["svc"][i].do = "reply"
          PROVE  i - 1 \in DOMAIN rest /\ rest[i - 1] = todo'["svc"][i]
      <4>1. Send(Snapshot(rt)).do # "reply"
        BY DEF Send
      <4> QED
        BY <1>2, <3>1, <3>2, <4>1
    <3>3. \A i \in DOMAIN rest : i + 1 \in DOMAIN s /\ rest[i] = s[i + 1]
      BY <1>1, <1>2, RestIsThere
    <3> HIDE DEF rest
    <3>4. \A i \in DOMAIN todo'["svc"] : todo'["svc"][i].do = "reply" =>
            \E j \in DOMAIN s : s[j] = todo'["svc"][i]
      BY <3>2, <3>3
    <3> QED
      BY <3>4, RepliesShrink
  <2>2. CASE SendState("svc") \/ SendEvents("svc")
    BY <1>1, <2>2, RepliesDone DEF SendState, SendEvents
  <2> QED
    BY <2>1, <2>2 DEF GoOn
<1>4. UNCHANGED <<commands, waiting, saved, unsaved, calls, rt>>
  BY DEF GoOn, TakeSnapshot, SendState, SendEvents, asking, given
<1> QED
  BY <1>3, <1>4, AskKept

\* A command is received: its answer, if it gets one, is the only one on its way.
LEMMA AskReceive ==
  ASSUME TypeOK, AskInv, commands # <<>>, NEW c, c = Head(commands), commands' = Tail(commands),
         UNCHANGED <<waiting, saved, unsaved, calls>>,
         Replies' = IF IsRequest(c) THEN {c.call} ELSE {},
         rt'.enabled = IF c.do = "enable" THEN c.on ELSE rt.enabled
  PROVE  AskInv'
<1>1. /\ commands \in Seq(Commands) /\ c = commands[1] /\ 1 \in DOMAIN commands
      /\ Len(commands') = Len(commands) - 1 /\ Len(commands) \in Nat
      /\ \A i \in DOMAIN commands' : i + 1 \in DOMAIN commands /\ commands'[i] = commands[i + 1]
  BY DEF TypeOK
<1>2. commands' = <<>> <=> Len(commands) = 1
  <2>1. commands' \in Seq(Commands)
    BY DEF TypeOK
  <2>2. commands' = <<>> <=> Len(commands') = 0
    BY <2>1, EmptySeq
  <2> QED
    BY <1>1, <2>2
<1>3. commands' # <<>> => Len(commands') \in DOMAIN commands'
  BY <1>1, <1>2
<1>4. CallsInv'
  BY <1>1 DEF AskInv, CallsInv
<1>5. WaitingInv'
  <2> SUFFICES ASSUME waiting # <<>>
               PROVE  /\ commands' # <<>> =>
                           /\ commands'[Len(commands')] = waiting[1]
                           /\ waiting[1].call \notin Replies'
                           /\ \A i \in DOMAIN commands' :
                                i # Len(commands') /\ IsRequest(commands'[i]) =>
                                  commands'[i].call # waiting[1].call
                      /\ commands' = <<>> /\ waiting[1].do = "enable"
                           /\ waiting[1].call \in Replies' => rt'.enabled = waiting[1].on
    BY DEF WaitingInv
  <2>1. commands[Len(commands)] = waiting[1]
        /\ \A i \in DOMAIN commands :
             i # Len(commands) /\ IsRequest(commands[i]) => commands[i].call # waiting[1].call
    BY DEF AskInv, WaitingInv
  <2>2. CASE Len(commands) = 1
    <3>1. c = waiting[1]
      BY <1>1, <2>1, <2>2
    <3> QED
      BY <1>2, <2>2, <3>1
  <2>3. CASE Len(commands) # 1
    <3>1. commands' # <<>> /\ Len(commands') + 1 = Len(commands)
      BY <1>1, <1>2, <2>3
    <3>2. commands'[Len(commands')] = waiting[1]
      BY <1>1, <1>3, <2>1, <3>1
    <3>3. waiting[1].call \notin Replies'
      BY <1>1, <2>1, <2>3
    <3>4. ASSUME NEW i \in DOMAIN commands', i # Len(commands'), IsRequest(commands'[i])
          PROVE  commands'[i].call # waiting[1].call
      <4>1. i + 1 \in DOMAIN commands /\ commands'[i] = commands[i + 1] /\ i + 1 # Len(commands)
        BY <1>1, <3>1, <3>4
      <4> QED
        BY <2>1, <3>4, <4>1
    <3> QED
      BY <3>1, <3>2, <3>3, <3>4
  <2> QED
    BY <2>2, <2>3
<1>6. SettingInv'
  <2>1. ASSUME NEW i \in DOMAIN commands', commands'[i].do = "enable"
        PROVE  unsaved \/ (waiting # <<>> /\ i = Len(commands'))
    BY <1>1, <2>1 DEF AskInv, SettingInv
  <2>2. ASSUME ~unsaved
        PROVE  saved = rt'.enabled \/ (waiting # <<>> /\ waiting[1].do = "enable")
    <3>1. CASE c.do = "enable"
      <4>1. waiting # <<>> /\ 1 = Len(commands)
        BY <1>1, <2>2, <3>1 DEF AskInv, SettingInv
      <4>2. waiting[1] = c
        BY <1>1, <4>1 DEF AskInv, WaitingInv
      <4> QED
        BY <3>1, <4>1, <4>2
    <3>2. CASE c.do # "enable"
      BY <2>2, <3>2 DEF AskInv, SettingInv
    <3> QED
      BY <3>1, <3>2
  <2> QED
    BY <2>1, <2>2 DEF SettingInv
<1> QED
  BY <1>4, <1>5, <1>6 DEF AskInv

LEMMA AskServe ==
  ASSUME TypeOK, AskInv, commands # <<>>, Serve(Head(commands))
  PROVE  AskInv'
<1> DEFINE c == Head(commands)
<1>1. c \in Commands /\ rt \in Runtimes
  BY DEF TypeOK
<1>2. commands' = Tail(commands) /\ UNCHANGED <<waiting, saved, unsaved, calls>>
  BY DEF Serve, SetEnabled, ShellNotify, ShellNotifyRefused, Close, InvokeAction, Receive,
         asking, given
<1> HIDE DEF c
<1>3. ASSUME NEW items, Then(items)
      PROVE  todo'["svc"] = items
  BY <1>3 DEF Then, TypeOK, Threads
<1>4. ASSUME NEW items, Then(items), IsRequest(c),
             \A i \in DOMAIN items : items[i].do = "reply" => items[i] = Reply(c.call),
             \E i \in DOMAIN items : items[i] = Reply(c.call)
      PROVE  Replies' = {c.call}
  <2>1. Reply(c.call).do = "reply" /\ Reply(c.call).call = c.call
    BY DEF Reply
  <2>2. Replies' = {items[i].call : i \in {j \in DOMAIN items : items[j].do = "reply"}}
    BY <1>3, <1>4 DEF Replies
  <2> QED
    BY <1>4, <2>1, <2>2
<1>5. ASSUME NEW items, Then(items), \A i \in DOMAIN items : items[i].do # "reply"
      PROVE  Replies' = {}
  BY <1>3, <1>5 DEF Replies
<1>6. /\ Reply(c.call).do = "reply" /\ Tell.do # "reply" /\ Expire.do # "reply"
      /\ CloseActed(c.id).do # "reply"
  BY DEF Reply, Tell, Expire, CloseActed
<1> DEFINE told_answer == <<Tell, Reply(c.call), Expire>>
<1>7. told_answer[2] = Reply(c.call) /\ 2 \in DOMAIN told_answer
      /\ \A i \in DOMAIN told_answer : told_answer[i].do = "reply" => told_answer[i] = Reply(c.call)
  BY <1>6
<1> HIDE DEF told_answer
<1>8. CASE SetEnabled(c)
  <2>1. Replies' = {c.call}
    <3> DEFINE answer == <<Reply(c.call), Expire>>
    <3>1. answer[1] = Reply(c.call) /\ 1 \in DOMAIN answer
          /\ \A i \in DOMAIN answer : answer[i].do = "reply" => answer[i] = Reply(c.call)
      BY <1>6
    <3> HIDE DEF answer
    <3>2. Then(answer) \/ Then(told_answer)
      BY <1>8 DEF SetEnabled, answer, told_answer
    <3>3. IsRequest(c)
      BY <1>8 DEF SetEnabled, IsRequest
    <3> QED
      BY <1>4, <1>7, <3>1, <3>2, <3>3
  <2>2. rt'.enabled = c.on
    BY <1>1, <1>8 DEF SetEnabled, Runtimes
  <2> QED
    BY <1>2, <1>8, <2>1, <2>2, AskReceive DEF SetEnabled, IsRequest, c
<1>9. CASE ShellNotify(c)
  <2>1. c.until \in Nat
    BY <1>1, <1>9, CommandFields DEF ShellNotify
  <2>2. rt'.enabled = rt.enabled
    <3>1. rt' = Notified(rt, 0, c.until)
      BY <1>9 DEF ShellNotify, Notify
    <3>2. Advances(rt, Notified(rt, 0, c.until))
      BY <1>1, <2>1, NotifiedAdvances
    <3> QED
      BY <3>1, <3>2 DEF Advances
  <2>3. Then(told_answer) /\ IsRequest(c) /\ c.do # "enable"
    BY <1>9 DEF ShellNotify, IsRequest, told_answer
  <2>4. Replies' = {c.call}
    BY <1>4, <1>7, <2>3
  <2> QED
    BY <1>2, <2>2, <2>3, <2>4, AskReceive DEF c
<1>10. CASE ShellNotifyRefused(c)
  <2> DEFINE items == <<Reply(c.call)>>
  <2>1. items[1] = Reply(c.call) /\ 1 \in DOMAIN items /\ \A i \in DOMAIN items : items[i] = Reply(c.call)
    OBVIOUS
  <2>2. Then(items) /\ IsRequest(c) /\ c.do # "enable" /\ rt' = rt
    BY <1>10 DEF ShellNotifyRefused, IsRequest
  <2> HIDE DEF items
  <2>3. Replies' = {c.call}
    BY <1>4, <2>1, <2>2
  <2> QED
    BY <1>2, <2>2, <2>3, AskReceive DEF c
<1>11. CASE Close(c)
  <2> DEFINE closing == Append(Endings({c.id}), Expire)
             nothing == <<Expire>>
  <2>1. \A i \in DOMAIN closing : closing[i].do # "reply"
    BY DEF Endings, Tell, Announce, Expire
  <2>2. \A i \in DOMAIN nothing : nothing[i].do # "reply"
    BY <1>6
  <2>3. Then(closing) \/ Then(nothing)
    BY <1>11 DEF Close
  <2>4. rt'.enabled = rt.enabled
    BY <1>1, <1>11, ClosedAdvances DEF Close, Reasons, Advances
  <2>5. ~IsRequest(c) /\ c.do # "enable"
    BY <1>11 DEF Close, IsRequest
  <2> HIDE DEF closing, nothing
  <2>6. Replies' = {}
    BY <1>5, <2>1, <2>2, <2>3
  <2> QED
    BY <1>2, <2>4, <2>5, <2>6, AskReceive DEF c
<1>12. CASE InvokeAction(c)
  <2> DEFINE acting == <<Tell, CloseActed(c.id), Expire>>
             nothing == <<CloseActed(c.id), Expire>>
  <2>1. \A i \in DOMAIN acting : acting[i].do # "reply"
    BY <1>6
  <2>2. \A i \in DOMAIN nothing : nothing[i].do # "reply"
    BY <1>6
  <2>3. Then(acting) \/ Then(nothing)
    BY <1>12 DEF InvokeAction
  <2>4. rt'.enabled = rt.enabled
    BY <1>1, <1>12, ActedAdvances DEF InvokeAction, Advances
  <2>5. ~IsRequest(c) /\ c.do # "enable"
    BY <1>12 DEF InvokeAction, IsRequest
  <2> HIDE DEF acting, nothing
  <2>6. Replies' = {}
    BY <1>5, <2>1, <2>2, <2>3
  <2> QED
    BY <1>2, <2>4, <2>5, <2>6, AskReceive DEF c
<1> QED
  BY <1>8, <1>9, <1>10, <1>11, <1>12 DEF Serve, c

LEMMA AskAnswer ==
  ASSUME TypeOK, AskInv, NEW written \in BOOLEAN, SendReply(written)
  PROVE  AskInv'
<1> DEFINE call == Head(todo["svc"]).call
<1>1. todo["svc"] # <<>> /\ todo["svc"] \in Seq(Items) /\ Head(todo["svc"]).do = "reply"
  BY HeadTail DEF SendReply, Doing, Threads
<1>2. Replies' \subseteq Replies
  BY <1>1, RepliesDone DEF SendReply
<1>3. call \in Replies
  BY <1>1, RestIsThere DEF Replies
<1>4. UNCHANGED <<rt, commands, calls>>
  BY DEF SendReply, given
<1>5. CASE waiting # <<>> /\ waiting[1].call = call
  <2>1. waiting' = <<>>
    BY <1>5 DEF SendReply
  <2>2. commands = <<>>
    BY <1>3, <1>5 DEF AskInv, WaitingInv
  <2>3. SettingInv'
    <3>1. CASE waiting[1].do = "enable"
      <4>1. rt.enabled = waiting[1].on
        BY <1>3, <1>5, <2>2, <3>1 DEF AskInv, WaitingInv
      <4>2. unsaved' = ~written /\ saved' = IF written THEN waiting[1].on ELSE saved
        BY <1>5, <3>1 DEF SendReply
      <4>3. ~unsaved' => saved' = rt'.enabled
        BY <1>4, <4>1, <4>2
      <4>4. DOMAIN commands' = {}
        BY <1>4, <2>2
      <4> QED
        BY <4>3, <4>4 DEF SettingInv
    <3>2. CASE waiting[1].do # "enable"
      <4>1. UNCHANGED <<saved, unsaved>>
        BY <1>5, <3>2 DEF SendReply
      <4> QED
        BY <1>4, <2>2, <3>2, <4>1 DEF AskInv, SettingInv
    <3> QED
      BY <3>1, <3>2
  <2>4. CallsInv' /\ WaitingInv'
    BY <1>2, <1>4, <2>1 DEF AskInv, CallsInv, WaitingInv
  <2> QED
    BY <2>3, <2>4 DEF AskInv
<1>6. CASE ~(waiting # <<>> /\ waiting[1].call = call)
  <2>1. UNCHANGED <<waiting, saved, unsaved>>
    BY <1>6 DEF SendReply
  <2> QED
    BY <1>2, <1>4, <2>1, AskKept
<1> QED
  BY <1>5, <1>6

LEMMA AskSvc ==
  ASSUME TypeOK, AskInv, Svc
  PROVE  AskInv'
<1>1. rt \in Runtimes /\ "svc" \in Threads
  BY DEF TypeOK, Threads
<1>2. CASE commands # <<>> /\ Serve(Head(commands))
  BY <1>2, AskServe
<1>3. CASE GoOn("svc")
  BY <1>3, AskGoOn
<1>4. CASE CloseTheActed
  <2> DEFINE id == Head(todo["svc"]).id
             rest == Tail(todo["svc"])
             items == Endings({id}) \o rest
  <2>1. id \in Nat /\ rest \in Seq(Items) /\ todo["svc"] \in Seq(Items) /\ todo["svc"] # <<>>
    BY <1>1, <1>4, HeadTail, ItemFields DEF CloseTheActed, Doing
  <2>2. UNCHANGED <<commands, waiting, saved, unsaved, calls>>
    BY <1>4 DEF CloseTheActed, asking, given
  <2>3. CASE id \in ActiveIds(rt)
    <3>1. rt'.enabled = rt.enabled
      BY <1>1, <1>4, <2>3, ClosedAdvances DEF CloseTheActed, Reasons, Advances
    <3>2. todo'["svc"] = items
      BY <1>1, <1>4, <2>3 DEF CloseTheActed, Then, TypeOK
    <3>3. Endings({id}) \in Seq(Items)
      BY <2>1, EndingsType
    <3>4. ASSUME NEW i \in DOMAIN items, items[i].do = "reply"
          PROVE  \E j \in DOMAIN todo["svc"] : todo["svc"][j] = items[i]
      <4>1. i > 2
        BY <2>1, <3>3, <3>4 DEF Endings, Tell, Announce
      <4>2. items[i] = rest[i - 2] /\ i - 2 \in DOMAIN rest
        BY <2>1, <3>3, <4>1 DEF Endings
      <4>3. (i - 2) + 1 \in DOMAIN todo["svc"] /\ rest[i - 2] = todo["svc"][(i - 2) + 1]
        BY <2>1, <4>2, RestIsThere
      <4> QED
        BY <4>2, <4>3
    <3> HIDE DEF items
    <3>5. Replies' \subseteq Replies
      BY <3>2, <3>4, RepliesShrink
    <3> QED
      BY <2>2, <3>1, <3>5, AskKept
  <2>4. CASE id \notin ActiveIds(rt)
    <3>1. rt' = rt /\ Done("svc")
      BY <1>4, <2>4 DEF CloseTheActed, Then, Done
    <3> QED
      BY <2>1, <2>2, <3>1, RepliesDone, AskKept
  <2> QED
    BY <2>3, <2>4
<1>5. CASE ExpireNothing
  <2>1. Replies' \subseteq Replies
    BY <1>5, RepliesDone DEF ExpireNothing, Doing
  <2> QED
    BY <1>5, <2>1, AskKept DEF ExpireNothing, asking, given
<1>6. CASE ExpireDue
  <2> DEFINE items == Endings({a.id : a \in Due(rt)})
  <2>1. rt'.enabled = rt.enabled
    BY <1>1, <1>6, ExpiredAdvances DEF ExpireDue, Advances
  <2>2. todo'["svc"] = items
    BY <1>1, <1>6 DEF ExpireDue, Then, TypeOK
  <2>3. \A i \in DOMAIN items : items[i].do # "reply"
    BY DEF Endings, Tell, Announce
  <2> HIDE DEF items
  <2>4. Replies' \subseteq Replies
    BY <2>2, <2>3, RepliesShrink
  <2> QED
    BY <1>6, <2>1, <2>4, AskKept DEF ExpireDue, asking, given
<1>7. ASSUME NEW written \in BOOLEAN, SendReply(written)
      PROVE  AskInv'
  BY <1>7, AskAnswer
<1> QED
  BY <1>2, <1>3, <1>4, <1>5, <1>6, <1>7 DEF Svc

LEMMA AskCommand ==
  ASSUME TypeOK, AskInv, NEW c, Command(c),
         \/ ~IsRequest(c) /\ UNCHANGED waiting
         \/ IsRequest(c) /\ c.call = calls /\ waiting' = <<c>>
  PROVE  AskInv'
<1>1. /\ waiting = <<>> /\ commands' = Append(commands, c) /\ commands \in Seq(Commands)
      /\ calls \in Nat /\ calls' = calls + 1
      /\ UNCHANGED <<rt, todo, saved, unsaved>>
  BY DEF Command, TypeOK
<1>2. /\ Len(commands') = Len(commands) + 1 /\ Len(commands) \in Nat
      /\ commands'[Len(commands')] = c /\ commands' # <<>>
      /\ \A i \in DOMAIN commands' : i # Len(commands') =>
           i \in DOMAIN commands /\ commands'[i] = commands[i]
  BY <1>1
<1>3. Replies' = Replies /\ \A call \in Replies : call \in Nat /\ call < calls
  BY <1>1, RepliesType DEF Replies, AskInv, CallsInv
<1>4. ASSUME NEW i \in DOMAIN commands, IsRequest(commands[i])
      PROVE  commands[i].call \in Nat /\ commands[i].call < calls
  <2>1. commands[i] \in Commands
    BY <1>1
  <2> QED
    BY <1>4, <2>1, CommandFields DEF IsRequest, AskInv, CallsInv
<1>5. CallsInv'
  <2>1. \A call \in Replies' : call < calls'
    BY <1>1, <1>3
  <2>2. ASSUME NEW i \in DOMAIN commands', IsRequest(commands'[i])
        PROVE  commands'[i].call < calls'
    <3>1. CASE i = Len(commands')
      BY <1>1, <1>2, <2>2, <3>1
    <3>2. CASE i # Len(commands')
      BY <1>1, <1>2, <1>4, <2>2, <3>2
    <3> QED
      BY <3>1, <3>2
  <2>3. waiting' # <<>> => waiting'[1].call < calls'
    BY <1>1
  <2> QED
    BY <2>1, <2>2, <2>3 DEF CallsInv
<1>6. WaitingInv'
  <2>1. CASE waiting' = <<>>
    BY <2>1 DEF WaitingInv
  <2>2. CASE waiting' = <<c>> /\ c.call = calls
    <3>1. waiting'[1] = c
      BY <2>2
    <3>2. c.call \notin Replies'
      BY <1>1, <1>3, <2>2
    <3>3. ASSUME NEW i \in DOMAIN commands', i # Len(commands'), IsRequest(commands'[i])
          PROVE  commands'[i].call # c.call
      BY <1>1, <1>2, <1>4, <2>2, <3>3
    <3> QED
      BY <1>2, <3>1, <3>2, <3>3 DEF WaitingInv
  <2> QED
    BY <1>1, <2>1, <2>2
<1>7. SettingInv'
  <2>1. ASSUME NEW i \in DOMAIN commands', commands'[i].do = "enable"
        PROVE  unsaved \/ (waiting' # <<>> /\ i = Len(commands'))
    <3>1. CASE i = Len(commands')
      <4>1. c.do = "enable"
        BY <1>2, <2>1, <3>1
      <4>2. waiting' = <<c>>
        BY <4>1 DEF IsRequest
      <4> QED
        BY <3>1, <4>2
    <3>2. CASE i # Len(commands')
      BY <1>1, <1>2, <2>1, <3>2 DEF AskInv, SettingInv
    <3> QED
      BY <3>1, <3>2
  <2>2. ~unsaved => saved = rt.enabled
    BY <1>1 DEF AskInv, SettingInv
  <2> QED
    BY <1>1, <2>1, <2>2 DEF SettingInv
<1> QED
  BY <1>5, <1>6, <1>7 DEF AskInv

LEMMA AskLoop ==
  ASSUME TypeOK, AskInv, Loop
  PROVE  AskInv'
<1>1. ASSUME NEW id \in Ids, AskClose(id) \/ AskAction(id)
      PROVE  AskInv'
  BY <1>1, AskCommand DEF AskClose, AskAction, IsRequest
<1>2. ASSUME NEW on \in BOOLEAN, AskEnabled(on)
      PROVE  AskInv'
  BY <1>2, AskCommand DEF AskEnabled, Request, IsRequest
<1>3. ASSUME NEW until \in Untils, AskNotify(until)
      PROVE  AskInv'
  BY <1>3, AskCommand DEF AskNotify, Request, IsRequest
<1>4. CASE AskNothing
  BY <1>4, AskCommand DEF AskNothing, Request, IsRequest
<1>5. CASE ReplyTimeout
  <2>1. /\ waiting # <<>> /\ waiting' = <<>> /\ unsaved' = (unsaved \/ waiting[1].do = "enable")
        /\ UNCHANGED <<rt, todo, commands, saved, calls>>
    BY <1>5 DEF ReplyTimeout, given
  <2>2. CallsInv' /\ WaitingInv'
    BY <2>1 DEF AskInv, CallsInv, WaitingInv, Replies
  <2>3. ASSUME NEW i \in DOMAIN commands, commands[i].do = "enable"
        PROVE  unsaved'
    <3>1. CASE i = Len(commands)
      <4>1. commands # <<>>
        BY <2>3
      <4>2. commands[i] = waiting[1]
        BY <2>1, <3>1, <4>1 DEF AskInv, WaitingInv
      <4> QED
        BY <2>1, <2>3, <4>2
    <3>2. CASE i # Len(commands)
      BY <2>1, <2>3, <3>2 DEF AskInv, SettingInv
    <3> QED
      BY <3>1, <3>2
  <2>4. ~unsaved' => saved' = rt'.enabled
    BY <2>1 DEF AskInv, SettingInv
  <2>5. SettingInv'
    BY <2>1, <2>3, <2>4 DEF SettingInv
  <2> QED
    BY <2>2, <2>5 DEF AskInv
<1> QED
  BY <1>1, <1>2, <1>3, <1>4, <1>5 DEF Loop

LEMMA AskStep == TypeOK /\ AskInv /\ [Next]_vars => AskInv'
<1> SUFFICES ASSUME TypeOK, AskInv, [Next]_vars PROVE AskInv'
  OBVIOUS
<1>1. ASSUME UNCHANGED <<rt, todo, commands, asking, calls>>
      PROVE  AskInv'
  BY <1>1, AskKept DEF asking, Replies
<1>2. CASE Tick
  BY <1>1, <1>2 DEF Tick, given
<1>3. CASE UNCHANGED vars
  BY <1>1, <1>3 DEF vars, given
<1> QED
  BY <1>2, <1>3, AskBus, AskSvc, AskLoop DEF Next

\* When all is done the copy the page is sent is the runtime's state, unless messages
\* overtook each other; and the settings file has what the runtime does, unless the
\* last change was not answered or written (run_notifications, NotificationsDbus,
\* notifications_set_enabled).
THEOREM LoopAgreesWithRuntime == Spec => []LoopAgrees
<1> DEFINE Inv == TypeOK /\ CopyInv /\ AskInv
<1>1. Init => Inv
  BY TypeInit, CopyInit, AskInit
<1>2. Inv /\ [Next]_vars => Inv'
  BY TypeStep, CopyStep, AskStep
<1>3. Inv => LoopAgrees
  BY CopyAgrees DEF LoopAgrees, SettingAgrees, AskInv, SettingInv
<1> QED
  BY <1>1, <1>2, <1>3, PTL DEF Spec

-----------------------------------------------------------------------------
(* How many items of a sequence tell the end of an id.                     *)

Says(item, id) == item.do = "announce" /\ id \in item.ids
Sayings(s, id) == {i \in DOMAIN s : Says(s[i], id)}
Count(s, id)   == Cardinality(Sayings(s, id))
One(b)         == IF b THEN 1 ELSE 0

LEMMA SayingsFinite ==
  ASSUME NEW s \in Seq(Items), NEW id
  PROVE  IsFiniteSet(Sayings(s, id)) /\ Count(s, id) \in Nat
<1>1. Sayings(s, id) \subseteq 1 .. Len(s) /\ Len(s) \in Nat
  BY DEF Sayings
<1>2. IsFiniteSet(1 .. Len(s))
  BY <1>1, FS_Interval
<1>3. IsFiniteSet(Sayings(s, id))
  BY <1>1, <1>2, FS_Subset
<1> QED
  BY <1>3, FS_CardinalityType DEF Count

LEMMA CountNone ==
  ASSUME NEW s, NEW id, \A i \in DOMAIN s : ~Says(s[i], id)
  PROVE  Count(s, id) = 0
<1>1. Sayings(s, id) = {}
  BY DEF Sayings
<1> QED
  BY <1>1, FS_EmptySet DEF Count

\* The items behind the first are those of the tail.
LEMMA CountRest ==
  ASSUME NEW s \in Seq(Items), s # <<>>, NEW id
  PROVE  Cardinality(Sayings(s, id) \ {1}) = Count(Tail(s), id)
<1> DEFINE behind == Sayings(s, id) \ {1}
           rest == Sayings(Tail(s), id)
           f == [i \in rest |-> i + 1]
<1>1. Tail(s) \in Seq(Items)
  OBVIOUS
<1>2. \A i \in DOMAIN Tail(s) : i \in Nat \ {0} /\ i + 1 \in DOMAIN s /\ Tail(s)[i] = s[i + 1]
  OBVIOUS
<1>3. \A j \in DOMAIN s : j \in Nat /\ (j # 1 => j - 1 \in DOMAIN Tail(s) /\ Tail(s)[j - 1] = s[j])
  OBVIOUS
<1>4. \A i \in rest : i \in Nat \ {0} /\ i + 1 \in behind
  BY <1>2 DEF Sayings
<1>5. \A j \in behind : j \in Nat /\ j - 1 \in rest
  BY <1>3 DEF Sayings
<1>6. IsFiniteSet(rest)
  BY <1>1, SayingsFinite
<1> HIDE DEF behind, rest
<1>7. f \in Bijection(rest, behind)
  <2>1. f \in [rest -> behind]
    BY <1>4
  <2>2. \A i, j \in rest : f[i] = f[j] => i = j
    BY <1>4
  <2>3. \A j \in behind : \E i \in rest : f[i] = j
    <3>1. TAKE j \in behind
    <3>2. j - 1 \in rest /\ f[j - 1] = j
      BY <1>5
    <3> QED
      BY <3>2
  <2> HIDE DEF f
  <2> QED
    BY <2>1, <2>2, <2>3, Fun_IsBij
<1>8. ExistsBijection(rest, behind)
  BY <1>7 DEF ExistsBijection
<1>9. Cardinality(behind) = Cardinality(rest)
  BY <1>6, <1>8, FS_Bijection
<1> QED
  BY <1>9 DEF behind, rest, Count

LEMMA CountTail ==
  ASSUME NEW s \in Seq(Items), s # <<>>, NEW id
  PROVE  /\ Count(s, id) = One(Says(s[1], id)) + Count(Tail(s), id)
         /\ Count(Tail(s), id) \in Nat /\ Count(s, id) \in Nat
<1> DEFINE all == Sayings(s, id)
           behind == all \ {1}
<1>1. IsFiniteSet(all) /\ Count(s, id) \in Nat /\ Count(Tail(s), id) \in Nat
  <2>1. Tail(s) \in Seq(Items)
    OBVIOUS
  <2> QED
    BY <2>1, SayingsFinite
<1>2. Cardinality(behind) = Count(Tail(s), id)
  BY CountRest
<1>3. 1 \in all <=> Says(s[1], id)
  BY DEF Sayings
<1>a. Cardinality(all) = Count(s, id)
  BY DEF Count
<1>b. /\ 1 \in all => Cardinality(behind) = Cardinality(all) - 1
      /\ 1 \notin all => behind = all
  BY <1>1, FS_RemoveElement
<1> HIDE DEF all, behind
<1>4. CASE Says(s[1], id)
  BY <1>1, <1>2, <1>3, <1>4, <1>a, <1>b DEF One
<1>5. CASE ~Says(s[1], id)
  BY <1>1, <1>2, <1>3, <1>5, <1>a, <1>b DEF One
<1> QED
  BY <1>4, <1>5

\* Sequences that tell no end, and those that follow one.
LEMMA CountSilent ==
  ASSUME NEW s, NEW id, \A i \in DOMAIN s : s[i].do # "announce"
  PROVE  Count(s, id) = 0
BY CountNone DEF Says

LEMMA CountEndings ==
  ASSUME NEW ids \in SUBSET Nat, NEW id, NEW rest \in Seq(Items)
  PROVE  Count(Endings(ids) \o rest, id) = One(id \in ids) + Count(rest, id)
<1> DEFINE s == Endings(ids) \o rest
<1>1. Endings(ids) = <<Tell, Announce(ids)>> /\ Tell \in Items /\ Announce(ids) \in Items
  BY DEF Endings, Items, Tell, Announce
<1>2. s \in Seq(Items) /\ Len(s) = Len(rest) + 2 /\ Len(rest) \in Nat
      /\ s[1] = Tell /\ s[2] = Announce(ids) /\ \A i \in 1 .. Len(rest) : s[i + 2] = rest[i]
  BY <1>1
<1> HIDE DEF s
<1>3. /\ s # <<>> /\ Tail(s) \in Seq(Items) /\ Len(Tail(s)) = Len(rest) + 1
      /\ \A i \in 1 .. Len(rest) + 1 : Tail(s)[i] = s[i + 1]
  BY <1>2
<1> DEFINE u == Tail(s)
<1>4. u # <<>> /\ u[1] = Announce(ids) /\ Tail(u) = rest
  <2>1. u \in Seq(Items) /\ Len(u) = Len(rest) + 1 /\ u[1] = Announce(ids)
        /\ \A i \in 1 .. Len(rest) : u[i + 1] = rest[i]
    BY <1>2, <1>3
  <2> HIDE DEF u
  <2>2. u # <<>> /\ Tail(u) \in Seq(Items) /\ Len(Tail(u)) = Len(rest)
        /\ \A i \in 1 .. Len(rest) : Tail(u)[i] = u[i + 1]
    BY <1>2, <2>1
  <2> QED
    BY <2>1, <2>2, SeqEqual
<1>5. Count(s, id) = One(Says(Tell, id)) + Count(Tail(s), id)
  BY <1>2, <1>3, CountTail
<1>6. Count(Tail(s), id) = One(Says(Announce(ids), id)) + Count(rest, id)
  BY <1>3, <1>4, CountTail
<1>7. One(Says(Tell, id)) = 0
  BY DEF One, Says, Tell
<1>8. One(Says(Announce(ids), id)) = One(id \in ids)
  BY DEF One, Says, Announce
<1>9. Count(rest, id) \in Nat
  BY SayingsFinite
<1> QED
  BY <1>5, <1>6, <1>7, <1>8, <1>9 DEF s, One

LEMMA CountEndingsAlone ==
  ASSUME NEW ids \in SUBSET Nat, NEW id
  PROVE  /\ Count(Endings(ids), id) = One(id \in ids)
         /\ Count(Append(Endings(ids), Expire), id) = One(id \in ids)
<1>1. <<>> \in Seq(Items) /\ <<Expire>> \in Seq(Items)
  BY DEF Items
<1>2. Endings(ids) \o <<>> = Endings(ids)
  BY DEF Endings
<1>3. Endings(ids) \o <<Expire>> = Append(Endings(ids), Expire)
  BY DEF Endings
<1>4. Count(<<>>, id) = 0
  BY CountSilent
<1>5. Count(<<Expire>>, id) = 0
  BY CountSilent DEF Expire
<1>6. One(id \in ids) \in Nat
  BY DEF One
<1>7. /\ Count(Endings(ids) \o <<>>, id) = One(id \in ids) + Count(<<>>, id)
      /\ Count(Endings(ids) \o <<Expire>>, id) = One(id \in ids) + Count(<<Expire>>, id)
  BY <1>1, CountEndings
<1>8. One(id \in ids) + 0 = One(id \in ids)
  BY <1>6
<1> QED
  BY <1>2, <1>3, <1>4, <1>5, <1>7, <1>8

\* Nothing follows an expiry.
ExpireLast(s) == \A i \in DOMAIN s : s[i].do = "expire" => i = Len(s)

LEMMA ExpireLastTail ==
  ASSUME NEW s \in Seq(Items), s # <<>>, ExpireLast(s)
  PROVE  ExpireLast(Tail(s)) /\ (s[1].do = "expire" => Tail(s) = <<>>)
<1>1. \A i \in DOMAIN Tail(s) : i \in Nat /\ i + 1 \in DOMAIN s /\ Tail(s)[i] = s[i + 1]
  OBVIOUS
<1>2. Len(s) \in Nat /\ Len(Tail(s)) = Len(s) - 1 /\ 1 \in DOMAIN s
  OBVIOUS
<1>3. ExpireLast(Tail(s))
  <2> DEFINE rest == Tail(s)
  <2> HIDE DEF rest
  <2>1. ASSUME NEW i \in DOMAIN rest, rest[i].do = "expire"
        PROVE  i = Len(rest)
    <3>1. i \in Nat /\ i + 1 \in DOMAIN s /\ s[i + 1].do = "expire"
      BY <1>1, <2>1 DEF rest
    <3>2. i + 1 = Len(s)
      BY <3>1 DEF ExpireLast
    <3>3. Len(rest) = Len(s) - 1 /\ Len(s) \in Nat
      BY <1>2 DEF rest
    <3> QED
      BY <3>1, <3>2, <3>3
  <2> QED
    BY <2>1 DEF rest, ExpireLast
<1>4. ASSUME s[1].do = "expire" PROVE Tail(s) = <<>>
  <2>1. Len(s) = 1
    BY <1>2, <1>4 DEF ExpireLast
  <2>2. Tail(s) \in Seq(Items) /\ Len(Tail(s)) = 0
    BY <1>2, <2>1
  <2> QED
    BY <2>2, EmptySeq
<1> QED
  BY <1>3, <1>4

LEMMA ExpireLastEndings ==
  ASSUME NEW ids \in SUBSET Nat, NEW rest \in Seq(Items), ExpireLast(rest)
  PROVE  /\ ExpireLast(Endings(ids) \o rest)
         /\ ExpireLast(Endings(ids)) /\ ExpireLast(Append(Endings(ids), Expire))
<1>1. Endings(ids) = <<Tell, Announce(ids)>> /\ Tell.do = "tell"
      /\ Announce(ids).do = "announce"
  BY DEF Endings, Tell, Announce
<1>2. ExpireLast(Endings(ids)) /\ ExpireLast(Append(Endings(ids), Expire))
  BY <1>1 DEF ExpireLast
<1> DEFINE s == Endings(ids) \o rest
<1>3. ASSUME NEW i \in DOMAIN s, s[i].do = "expire"
      PROVE  i = Len(s)
  <2>1. i \in Nat \ {0} /\ Len(s) = Len(rest) + 2
    BY <1>1
  <2>2. i # 1 /\ i # 2
    BY <1>1, <1>3
  <2>3. i - 2 \in DOMAIN rest /\ s[i] = rest[i - 2]
    BY <1>1, <2>1, <2>2
  <2>4. i - 2 = Len(rest)
    BY <1>3, <2>3 DEF ExpireLast
  <2> QED
    BY <2>1, <2>4
<1> HIDE DEF s
<1>4. ExpireLast(s)
  BY <1>3 DEF ExpireLast
<1> QED
  BY <1>2, <1>4 DEF s

-----------------------------------------------------------------------------
(* The banners: each id has one, and had it shown before.                  *)

Distinct(r) == \A a, b \in r.active : a.id = b.id => a = b
Ended(id)   == id \in shown /\ id \notin ActiveIds(rt)

BannersInv ==
  /\ Distinct(rt)
  /\ ActiveIds(rt) \subseteq shown
  /\ \A id \in shown : id < rt.next_id

LEMMA ChangedFields ==
  ASSUME NEW r \in Runtimes, NEW active, NEW entries
  PROVE  Changed(r, active, entries).active = active
         /\ Changed(r, active, entries).next_id = r.next_id
BY DEF Changed, Runtimes

\* A banner put in the place of those of its id.
LEMMA Replaced ==
  ASSUME NEW r \in Runtimes, Distinct(r), NEW id, NEW entry, entry.id = id,
         NEW changed, changed.active = Others(r, id) \cup {entry}
  PROVE  Distinct(changed) /\ ActiveIds(changed) = ActiveIds(r) \cup {id}
<1>1. Distinct(changed)
  BY DEF Distinct, Others
<1>2. ASSUME NEW x \in ActiveIds(changed) PROVE x \in ActiveIds(r) \cup {id}
  BY <1>2 DEF ActiveIds, Others
<1>3. ASSUME NEW x \in ActiveIds(r) PROVE x \in ActiveIds(changed)
  <2>1. PICK a \in r.active : a.id = x
    BY <1>3 DEF ActiveIds
  <2>2. CASE x = id
    BY <2>2 DEF ActiveIds
  <2>3. CASE x # id
    BY <2>1, <2>3 DEF ActiveIds, Others
  <2> QED
    BY <2>2, <2>3
<1>4. id \in ActiveIds(changed)
  BY DEF ActiveIds
<1> QED
  BY <1>1, <1>2, <1>3, <1>4

LEMMA NotifyBanners ==
  ASSUME TypeOK, BannersInv, NEW replaces \in Nat, NEW until \in Nat, Notify(replaces, until)
  PROVE  BannersInv' /\ \A x : Ended(x)' <=> Ended(x)
<1> DEFINE id == IdFor(rt, replaces)
           entry == [id |-> id, at |-> rt.revision + 1, until |-> until, closed |-> "no"]
           next == [rt EXCEPT !.next_id = IF id = @ THEN @ + 1 ELSE @]
           active == IF rt.enabled THEN Others(rt, id) \cup {entry} ELSE rt.active
<1>1. rt \in Runtimes /\ rt.next_id \in Nat /\ rt.enabled \in BOOLEAN /\ shown \subseteq Nat
  BY DEF TypeOK, Runtimes
<1>2. id \in Nat /\ (id \in ActiveIds(rt) \/ id = rt.next_id)
  BY <1>1 DEF IdFor
<1>3. next \in Runtimes /\ next.next_id = (IF id = rt.next_id THEN rt.next_id + 1 ELSE rt.next_id)
  BY <1>1, <1>2 DEF Runtimes
<1>4. rt' = Changed(next, active, {entry})
  BY DEF Notify, Notified
<1>5. shown' = IF rt.enabled THEN shown \cup {id} ELSE shown
  BY DEF Notify
<1>6. entry.id = id
  OBVIOUS
<1> HIDE DEF entry, next, id
<1>7. rt'.active = active /\ rt'.next_id = next.next_id
  BY <1>3, <1>4, ChangedFields
<1>8. Distinct(rt') /\ ActiveIds(rt') = IF rt.enabled THEN ActiveIds(rt) \cup {id}
                                       ELSE ActiveIds(rt)
  <2>1. CASE rt.enabled
    BY <1>1, <1>6, <1>7, <2>1, Replaced DEF BannersInv
  <2>2. CASE ~rt.enabled
    BY <1>7, <2>2 DEF BannersInv, Distinct, ActiveIds
  <2> QED
    BY <2>1, <2>2
<1>9. id < rt'.next_id /\ rt.next_id <= rt'.next_id /\ rt'.next_id \in Nat
  BY <1>1, <1>2, <1>3, <1>7 DEF BannersInv
<1>10. \A x \in shown' : x < rt'.next_id
  BY <1>1, <1>2, <1>5, <1>9 DEF BannersInv
<1>11. ActiveIds(rt') \subseteq shown'
  BY <1>5, <1>8 DEF BannersInv
<1>12. ASSUME NEW x PROVE Ended(x)' <=> Ended(x)
  <2>1. x = id => (x \in shown => x \in ActiveIds(rt))
    BY <1>1, <1>2 DEF BannersInv
  <2> QED
    BY <1>5, <1>8, <2>1 DEF Ended
<1> QED
  BY <1>8, <1>10, <1>11, <1>12 DEF BannersInv

LEMMA ActBanners ==
  ASSUME TypeOK, BannersInv, NEW id \in ActiveIds(rt), rt' = Acted(rt, id), UNCHANGED shown
  PROVE  BannersInv' /\ \A x : Ended(x)' <=> Ended(x)
<1> DEFINE entry == [Banner(rt, id) EXCEPT !.at = rt.revision + 1]
<1>1. rt \in Runtimes /\ Banner(rt, id) \in Entries /\ Banner(rt, id).id = id
  BY BannerOfId DEF TypeOK
<1>2. entry.id = id
  BY <1>1 DEF Entries
<1>3. rt' = Changed(rt, Others(rt, id) \cup {entry}, {entry})
  BY DEF Acted
<1> HIDE DEF entry
<1>4. rt'.active = Others(rt, id) \cup {entry} /\ rt'.next_id = rt.next_id
  BY <1>1, <1>3, ChangedFields
<1>5. Distinct(rt') /\ ActiveIds(rt') = ActiveIds(rt) \cup {id}
  BY <1>1, <1>2, <1>4, Replaced DEF BannersInv
<1>6. ActiveIds(rt') = ActiveIds(rt)
  BY <1>5
<1> QED
  BY <1>4, <1>5, <1>6 DEF BannersInv, Ended

\* Banners that go.
LEMMA GoneBanners ==
  ASSUME TypeOK, BannersInv, NEW gone \in SUBSET rt.active,
         rt'.active = rt.active \ gone, rt'.next_id = rt.next_id, UNCHANGED shown
  PROVE  /\ BannersInv'
         /\ \A x : Ended(x)' <=> Ended(x) \/ x \in {a.id : a \in gone}
         /\ \A x \in {a.id : a \in gone} : ~Ended(x)
<1> DEFINE ids == {a.id : a \in gone}
<1>1. ActiveIds(rt') = ActiveIds(rt) \ ids
  <2>1. ASSUME NEW x \in ActiveIds(rt') PROVE x \in ActiveIds(rt) \ ids
    <3>1. PICK a \in rt.active \ gone : a.id = x
      BY <2>1 DEF ActiveIds
    <3>2. x \notin ids
      BY <3>1 DEF BannersInv, Distinct
    <3> QED
      BY <3>1, <3>2 DEF ActiveIds
  <2>2. ASSUME NEW x \in ActiveIds(rt) \ ids PROVE x \in ActiveIds(rt')
    BY <2>2 DEF ActiveIds
  <2> QED
    BY <2>1, <2>2
<1>2. ids \subseteq ActiveIds(rt)
  BY DEF ActiveIds
<1>3. Distinct(rt')
  BY DEF Distinct, BannersInv
<1> HIDE DEF ids
<1>4. BannersInv'
  BY <1>1, <1>3 DEF BannersInv
<1>5. \A x : Ended(x)' <=> Ended(x) \/ x \in ids
  BY <1>1, <1>2 DEF Ended, BannersInv
<1>6. \A x \in ids : ~Ended(x)
  BY <1>2 DEF Ended
<1> QED
  BY <1>4, <1>5, <1>6 DEF ids

LEMMA CloseBanners ==
  ASSUME TypeOK, BannersInv, NEW id \in ActiveIds(rt), NEW why,
         rt' = Closed(rt, id, why), UNCHANGED shown
  PROVE  /\ BannersInv'
         /\ \A x : Ended(x)' <=> Ended(x) \/ x \in {id}
         /\ \A x \in {id} : ~Ended(x)
<1> DEFINE gone == {a \in rt.active : a.id = id}
<1>1. rt \in Runtimes
  BY DEF TypeOK
<1>2. rt'.active = rt.active \ gone /\ rt'.next_id = rt.next_id
  <2>1. rt'.active = Others(rt, id) /\ rt'.next_id = rt.next_id
    BY <1>1, ChangedFields DEF Closed
  <2>2. Others(rt, id) = rt.active \ gone
    BY DEF Others
  <2> QED
    BY <2>1, <2>2
<1>3. {a.id : a \in gone} = {id}
  BY DEF ActiveIds
<1> HIDE DEF gone
<1>4. gone \in SUBSET rt.active
  BY DEF gone
<1> QED
  BY <1>2, <1>3, <1>4, GoneBanners

LEMMA ExpireBanners ==
  ASSUME TypeOK, BannersInv, rt' = Expired(rt), UNCHANGED shown
  PROVE  /\ BannersInv'
         /\ \A x : Ended(x)' <=> Ended(x) \/ x \in {a.id : a \in Due(rt)}
         /\ \A x \in {a.id : a \in Due(rt)} : ~Ended(x)
<1>1. rt \in Runtimes
  BY DEF TypeOK
<1>2. rt'.active = rt.active \ Due(rt) /\ rt'.next_id = rt.next_id
  <2> DEFINE left == rt.active \ Due(rt)
             ended == {[a EXCEPT !.at = rt.revision + 1, !.closed = "expired"] : a \in Due(rt)}
  <2>1. rt' = Changed(rt, left, ended)
    BY DEF Expired
  <2>2. left = rt.active \ Due(rt)
    OBVIOUS
  <2> HIDE DEF left, ended
  <2>3. rt'.active = left /\ rt'.next_id = rt.next_id
    BY <1>1, <2>1, ChangedFields
  <2> QED
    BY <2>2, <2>3
<1>3. Due(rt) \in SUBSET rt.active
  BY DEF Due
<1> QED
  BY <1>2, <1>3, GoneBanners

-----------------------------------------------------------------------------
(* An end is told, or owed by a thread, exactly when the banner has gone.  *)

EndsInv == BannersInv /\ EndsToldOnce /\ \A t \in Threads : ExpireLast(todo[t])

Total(id) == told[id] + Count(todo["bus"], id) + Count(todo["svc"], id)

LEMMA EndsAreTotals == EndsToldOnce <=> \A id \in Ids : Total(id) = One(Ended(id))
<1>1. \A t, id : Owed(t, id) = Count(todo[t], id)
  BY DEF Owed, Count, Sayings, Says
<1> QED
  BY <1>1 DEF EndsToldOnce, Total, One, Ended

LEMMA TotalsTyped ==
  ASSUME TypeOK
  PROVE  \A id \in Ids : told[id] \in Nat /\ \A t \in Threads : Count(todo[t], id) \in Nat
<1>1. \A t \in Threads : todo[t] \in Seq(Items)
  BY DEF TypeOK
<1> QED
  BY <1>1, SayingsFinite DEF TypeOK

\* One thread's sequence is replaced: what that takes from the ends owed is told, and
\* what it adds has ended.
LEMMA EndsMove ==
  ASSUME TypeOK, EndsInv, BannersInv', NEW t \in Threads, NEW items \in Seq(Items),
         todo' = [todo EXCEPT ![t] = items],
         ExpireLast(items), told' \in [Ids -> Nat],
         \A id \in Ids : told'[id] + Count(items, id) + One(Ended(id))
                          = told[id] + Count(todo[t], id) + One(Ended(id)')
  PROVE  EndsInv'
<1>1. todo'[t] = items /\ \A u \in Threads \ {t} : todo'[u] = todo[u]
  BY DEF TypeOK
<1>2. \A id \in Ids : Total(id) = One(Ended(id))
  BY EndsAreTotals DEF EndsInv
<1>3. ASSUME NEW id \in Ids
      PROVE  Total(id)' = One(Ended(id)')
  <2>1. told[id] \in Nat /\ told'[id] \in Nat /\ Count(todo["bus"], id) \in Nat
        /\ Count(todo["svc"], id) \in Nat /\ Count(items, id) \in Nat
    BY TotalsTyped, SayingsFinite DEF Threads
  <2>2. One(Ended(id)) \in Nat /\ One(Ended(id)') \in Nat
    BY DEF One
  <2>3. told[id] + Count(todo["bus"], id) + Count(todo["svc"], id) = One(Ended(id))
    BY <1>2 DEF Total
  <2>4. told'[id] + Count(items, id) + One(Ended(id))
          = told[id] + Count(todo[t], id) + One(Ended(id)')
    OBVIOUS
  <2>5. Total(id)' = told'[id] + Count(todo'["bus"], id) + Count(todo'["svc"], id)
    BY DEF Total
  <2>6. CASE t = "bus"
    <3>1. todo'["bus"] = items /\ todo'["svc"] = todo["svc"]
      BY <1>1, <2>6 DEF Threads
    <3>2. Total(id)' = told'[id] + Count(items, id) + Count(todo["svc"], id)
      BY <2>5, <3>1
    <3> QED
      BY <2>1, <2>2, <2>3, <2>4, <2>6, <3>2
  <2>7. CASE t = "svc"
    <3>1. todo'["svc"] = items /\ todo'["bus"] = todo["bus"]
      BY <1>1, <2>7 DEF Threads
    <3>2. Total(id)' = told'[id] + Count(todo["bus"], id) + Count(items, id)
      BY <2>5, <3>1
    <3>3. told'[id] + Count(items, id) + One(Ended(id))
            = told[id] + Count(todo["svc"], id) + One(Ended(id)')
      BY <2>4, <2>7
    <3>4. told'[id] + Count(todo["bus"], id) + Count(items, id) = One(Ended(id)')
      <4> DEFINE before == told[id]
                 after == told'[id]
                 other == Count(todo["bus"], id)
                 owed == Count(todo["svc"], id)
                 owing == Count(items, id)
                 old == One(Ended(id))
                 new == One(Ended(id)')
      <4>1. before \in Nat /\ after \in Nat /\ other \in Nat /\ owed \in Nat /\ owing \in Nat
            /\ old \in Nat /\ new \in Nat
        BY <2>1, <2>2
      <4>2. before + other + owed = old
        BY <2>3
      <4>3. after + owing + old = before + owed + new
        BY <3>3
      <4> HIDE DEF before, after, other, owed, owing, old, new
      <4>4. after + other + owing = new
        BY <4>1, <4>2, <4>3
      <4> QED
        BY <4>4 DEF before, after, other, owed, owing, old, new
    <3> QED
      BY <3>2, <3>4
  <2> QED
    BY <2>6, <2>7 DEF Threads
<1>4. EndsToldOnce'
  <2>1. \A u, id : Owed(u, id)' = Count(todo'[u], id)
    BY DEF Owed, Count, Sayings, Says
  <2> QED
    BY <1>3, <2>1 DEF EndsToldOnce, Total, One, Ended
<1>5. \A u \in Threads : ExpireLast(todo'[u])
  BY <1>1 DEF EndsInv
<1> QED
  BY <1>4, <1>5 DEF EndsInv

\* A change that ends no banner, by a thread that had nothing to do.
LEMMA EndsBegin ==
  ASSUME TypeOK, EndsInv, BannersInv', NEW t \in Threads, NEW items \in Seq(Items),
         todo[t] = <<>>, todo' = [todo EXCEPT ![t] = items], UNCHANGED told,
         ExpireLast(items), \A i \in DOMAIN items : items[i].do # "announce",
         \A id : Ended(id)' <=> Ended(id)
  PROVE  EndsInv'
<1>1. \A id : Count(items, id) = 0 /\ Count(todo[t], id) = 0
  BY CountSilent
<1>2. told' \in [Ids -> Nat]
  BY DEF TypeOK
<1>3. ASSUME NEW id \in Ids
      PROVE  told'[id] + Count(items, id) + One(Ended(id))
               = told[id] + Count(todo[t], id) + One(Ended(id)')
  BY <1>1 DEF One
<1> QED
  BY <1>2, <1>3, EndsMove

\* A thread does what it had left first, which was not to tell an end.
LEMMA EndsGoOn ==
  ASSUME TypeOK, EndsInv, NEW t \in Threads, todo[t] # <<>>,
         todo[t][1].do # "announce", NEW first,
         first = <<>> \/ \E item \in Items : first = <<item>> /\ item.do \notin {"announce", "expire"},
         todo' = [todo EXCEPT ![t] = first \o Tail(todo[t])], UNCHANGED <<rt, shown, told>>
  PROVE  EndsInv'
<1> DEFINE rest == Tail(todo[t])
           items == first \o rest
<1>1. todo[t] \in Seq(Items) /\ rest \in Seq(Items)
  BY HeadTail
<1>2. ExpireLast(rest)
  BY <1>1, ExpireLastTail DEF EndsInv
<1>3. ASSUME NEW id PROVE Count(todo[t], id) = Count(rest, id) /\ Count(rest, id) \in Nat
  <2>1. One(Says(todo[t][1], id)) = 0
    BY DEF Says, One
  <2> QED
    BY <1>1, <2>1, CountTail
<1>4. items \in Seq(Items) /\ ExpireLast(items) /\ \A id : Count(items, id) = Count(rest, id)
  <2>1. CASE first = <<>>
    <3>1. items = rest
      BY <1>1, <2>1
    <3> QED
      BY <1>1, <1>2, <3>1
  <2>2. CASE first # <<>>
    <3>1. PICK item \in Items : first = <<item>> /\ item.do \notin {"announce", "expire"}
      BY <2>2
    <3> HIDE DEF rest
    <3>2. items \in Seq(Items) /\ items # <<>> /\ items[1] = item /\ Tail(items) = rest
          /\ Len(items) = Len(rest) + 1 /\ Len(rest) \in Nat
          /\ \A i \in DOMAIN items : i # 1 => i - 1 \in DOMAIN rest /\ items[i] = rest[i - 1]
      BY <1>1, <3>1
    <3> HIDE DEF items
    <3>3. ExpireLast(items)
      <4>1. ASSUME NEW i \in DOMAIN items, items[i].do = "expire" PROVE i = Len(items)
        <5>1. i # 1 /\ i \in Nat
          BY <3>1, <3>2, <4>1
        <5>2. i - 1 = Len(rest)
          BY <1>2, <3>2, <4>1, <5>1 DEF ExpireLast
        <5> QED
          BY <3>2, <5>1, <5>2
      <4> QED
        BY <4>1 DEF ExpireLast
    <3>4. ASSUME NEW id PROVE Count(items, id) = Count(rest, id)
      <4>1. One(Says(item, id)) = 0
        BY <3>1 DEF Says, One
      <4>2. Count(rest, id) \in Nat
        BY <1>3
      <4>3. Count(items, id) = One(Says(item, id)) + Count(rest, id)
        BY <3>2, CountTail
      <4> QED
        BY <4>1, <4>2, <4>3
    <3> QED
      BY <3>2, <3>3, <3>4
  <2> QED
    BY <2>1, <2>2
<1>5. BannersInv' /\ \A id : Ended(id)' <=> Ended(id)
  BY DEF EndsInv, BannersInv, Ended
<1>6. told' \in [Ids -> Nat] /\ told' = told
  BY DEF TypeOK
<1> HIDE DEF rest, items
<1>7. ASSUME NEW id \in Ids
      PROVE  told'[id] + Count(items, id) + One(Ended(id))
               = told[id] + Count(todo[t], id) + One(Ended(id)')
  BY <1>3, <1>4, <1>5, <1>6 DEF One
<1>8. todo' = [todo EXCEPT ![t] = items]
  BY DEF items, rest
<1> QED
  BY <1>4, <1>5, <1>6, <1>7, <1>8, EndsMove

\* Banners go: their ends come in front of what the thread has left.
LEMMA EndsEnd ==
  ASSUME TypeOK, EndsInv, BannersInv', NEW t \in Threads, NEW items \in Seq(Items), NEW ids,
         todo' = [todo EXCEPT ![t] = items], UNCHANGED told, ExpireLast(items),
         \A id : Ended(id)' <=> Ended(id) \/ id \in ids,
         \A id \in ids : ~Ended(id),
         \A id : Count(items, id) = One(id \in ids) + Count(todo[t], id)
  PROVE  EndsInv'
<1>1. told' \in [Ids -> Nat] /\ told' = told
  BY DEF TypeOK
<1>2. ASSUME NEW id \in Ids
      PROVE  told'[id] + Count(items, id) + One(Ended(id))
               = told[id] + Count(todo[t], id) + One(Ended(id)')
  <2>1. told[id] \in Nat /\ Count(todo[t], id) \in Nat
    BY TotalsTyped
  <2>2. Count(items, id) = One(id \in ids) + Count(todo[t], id)
    OBVIOUS
  <2>3. (Ended(id)' <=> Ended(id) \/ id \in ids) /\ (id \in ids => ~Ended(id))
    OBVIOUS
  <2>4. One(id \in ids) + One(Ended(id)) = One(Ended(id)') /\ One(id \in ids) \in Nat
        /\ One(Ended(id)) \in Nat
    BY <2>3 DEF One
  <2> QED
    BY <1>1, <2>1, <2>2, <2>4
<1> QED
  BY <1>1, <1>2, EndsMove

LEMMA EndsInit == Init => EndsInv
<1> SUFFICES ASSUME Init PROVE EndsInv
  OBVIOUS
<1>1. rt.active = {} /\ shown = {}
  BY DEF Init, New
<1>2. BannersInv
  BY <1>1 DEF BannersInv, Distinct, ActiveIds
<1>3. todo["bus"] = <<>> /\ todo["svc"] = <<Tell>>
  BY DEF Init, Threads
<1>4. \A id : Count(todo["bus"], id) = 0 /\ Count(todo["svc"], id) = 0
  BY <1>3, CountSilent DEF Tell
<1>5. \A id \in Ids : told[id] = 0
  BY DEF Init
<1>6. EndsToldOnce
  BY <1>1, <1>4, <1>5, EndsAreTotals DEF Total, One, Ended
<1>7. \A t \in Threads : ExpireLast(todo[t])
  BY <1>3 DEF ExpireLast, Threads, Tell
<1> QED
  BY <1>2, <1>6, <1>7 DEF EndsInv

LEMMA EndsGoOnWith ==
  ASSUME TypeOK, EndsInv, NEW t \in Threads, GoOn(t)
  PROVE  EndsInv'
<1>1. todo[t] # <<>> /\ todo[t] \in Seq(Items) /\ Tail(todo[t]) \in Seq(Items)
      /\ Head(todo[t]) = todo[t][1] /\ rt \in Runtimes
  BY HeadTail DEF GoOn, TakeSnapshot, SendState, SendEvents, Doing, TypeOK
<1>2. <<>> \o Tail(todo[t]) = Tail(todo[t])
  BY <1>1
<1>3. CASE TakeSnapshot(t)
  <2> DEFINE item == Send(Snapshot(rt))
  <2>1. item \in Items /\ item.do = "send"
    <3>1. Snapshot(rt) \in Snapshots
      BY <1>1, SnapshotType
    <3> QED
      BY <3>1 DEF Send, Items
  <2>2. todo' = [todo EXCEPT ![t] = <<item>> \o Tail(todo[t])]
        /\ UNCHANGED <<rt, shown, told>> /\ todo[t][1].do = "tell"
    BY <1>1, <1>3 DEF TakeSnapshot, Doing, given
  <2> HIDE DEF item
  <2> QED
    BY <1>1, <2>1, <2>2, EndsGoOn
<1>4. CASE SendState(t)
  <2>1. todo' = [todo EXCEPT ![t] = <<>> \o Tail(todo[t])]
        /\ UNCHANGED <<rt, shown, told>> /\ todo[t][1].do = "send"
    BY <1>1, <1>2, <1>4 DEF SendState, Doing, Done, given
  <2> QED
    BY <1>1, <2>1, EndsGoOn
<1>5. CASE SendEvents(t)
  <2> DEFINE first == todo[t][1]
             rest == Tail(todo[t])
  <2>1. todo' = [todo EXCEPT ![t] = rest] /\ UNCHANGED <<rt, shown>> /\ first.do = "announce"
    BY <1>1, <1>5 DEF SendEvents, Doing, Done, given
  <2>2. told' = [id \in Ids |-> IF id \in first.ids THEN told[id] + 1 ELSE told[id]]
        /\ told \in [Ids -> Nat]
    BY <1>1, <1>5 DEF SendEvents, TypeOK
  <2>3. BannersInv' /\ \A id : Ended(id)' <=> Ended(id)
    BY <2>1 DEF EndsInv, BannersInv, Ended
  <2>4. ASSUME NEW id \in Ids
        PROVE  /\ told'[id] \in Nat
               /\ told'[id] + Count(rest, id) + One(Ended(id))
                    = told[id] + Count(todo[t], id) + One(Ended(id)')
    <3>1. Count(todo[t], id) = One(Says(first, id)) + Count(rest, id)
          /\ Count(rest, id) \in Nat
      BY <1>1, CountTail
    <3>2. told[id] \in Nat /\ told'[id] = told[id] + One(Says(first, id))
          /\ One(Says(first, id)) \in Nat
      BY <2>1, <2>2 DEF One, Says
    <3>3. One(Ended(id)) = One(Ended(id)') /\ One(Ended(id)) \in Nat
      BY <2>3 DEF One
    <3> QED
      BY <3>1, <3>2, <3>3
  <2>5. told' \in [Ids -> Nat]
    BY <2>2, <2>4
  <2>6. ExpireLast(rest)
    BY <1>1, ExpireLastTail DEF EndsInv
  <2> HIDE DEF rest, first
  <2>7. rest \in Seq(Items)
    BY <1>1 DEF rest
  <2> QED
    BY <2>1, <2>3, <2>4, <2>5, <2>6, <2>7, EndsMove
<1> QED
  BY <1>3, <1>4, <1>5 DEF GoOn

LEMMA EndsBus ==
  ASSUME TypeOK, EndsInv, Bus
  PROVE  EndsInv'
<1>1. BannersInv /\ rt \in Runtimes /\ "bus" \in Threads
  BY DEF EndsInv, TypeOK, Threads
<1>2. ASSUME NEW replaces \in Ids \cup {0}, NEW until \in Untils, BusNotify(replaces, until)
      PROVE  EndsInv'
  <2>1. replaces \in Nat /\ until \in Nat
    BY DEF Ids, Untils, TypeOK
  <2>2. BannersInv' /\ \A id : Ended(id)' <=> Ended(id)
    BY <1>1, <1>2, <2>1, NotifyBanners DEF BusNotify
  <2> DEFINE items == <<Tell>>
  <2>3. items \in Seq(Items) /\ ExpireLast(items) /\ \A i \in DOMAIN items : items[i].do # "announce"
    BY DEF Tell, Items, ExpireLast
  <2>4. todo["bus"] = <<>> /\ todo' = [todo EXCEPT !["bus"] = items] /\ UNCHANGED told
    BY <1>2 DEF BusNotify
  <2> HIDE DEF items
  <2> QED
    BY <1>1, <2>2, <2>3, <2>4, EndsBegin
<1>3. ASSUME NEW id \in Ids, BusClose(id)
      PROVE  EndsInv'
  <2> DEFINE ids == {id}
             items == Endings(ids)
  <2>1. /\ BannersInv'
        /\ \A x : Ended(x)' <=> Ended(x) \/ x \in ids
        /\ \A x \in ids : ~Ended(x)
    BY <1>1, <1>3, CloseBanners DEF BusClose, given
  <2>2. ids \in SUBSET Nat /\ <<>> \in Seq(Items)
    BY DEF Ids
  <2>3. todo["bus"] = <<>> /\ todo' = [todo EXCEPT !["bus"] = items] /\ UNCHANGED told
    BY <1>3 DEF BusClose
  <2> HIDE DEF ids
  <2>4. items \in Seq(Items)
    BY <2>2, EndingsType
  <2>5. ExpireLast(items)
    <3>1. ExpireLast(<<>>)
      BY DEF ExpireLast
    <3> QED
      BY <2>2, <3>1, ExpireLastEndings
  <2>6. \A x : Count(items, x) = One(x \in ids) + Count(todo["bus"], x)
    <3>1. \A x : Count(items, x) = One(x \in ids)
      BY <2>2, CountEndingsAlone
    <3>2. \A x : Count(todo["bus"], x) = 0 /\ One(x \in ids) \in Nat
      BY <2>3, CountSilent DEF One
    <3> HIDE DEF items
    <3> QED
      BY <3>1, <3>2
  <2> HIDE DEF items
  <2> QED
    BY <1>1, <2>1, <2>3, <2>4, <2>5, <2>6, EndsEnd
<1> QED
  BY <1>2, <1>3, <1>1, EndsGoOnWith DEF Bus

\* What a command that ends no banner leaves to do.
Quiet(s) == s \in Seq(Items) /\ ExpireLast(s) /\ \A i \in DOMAIN s : s[i].do # "announce"

LEMMA QuietItems ==
  ASSUME NEW item \in Items, item.do \notin {"announce", "expire"}
  PROVE  Quiet(<<item>>) /\ Quiet(<<Expire>>) /\ Quiet(<<item, Expire>>)
         /\ Quiet(<<Tell, item, Expire>>)
<1>1. Tell \in Items /\ Tell.do = "tell" /\ Expire \in Items /\ Expire.do = "expire"
  BY DEF Tell, Expire, Items
<1>2. ASSUME NEW s \in {<<item>>, <<Expire>>, <<item, Expire>>, <<Tell, item, Expire>>}
      PROVE  Quiet(s)
  <2>1. s \in Seq(Items)
    <3>1. <<item>> \in Seq(Items) /\ <<Expire>> \in Seq(Items)
      BY <1>1
    <3>2. <<item, Expire>> \in Seq(Items)
      BY <1>1
    <3>3. <<Tell, item, Expire>> \in Seq(Items)
      BY <1>1
    <3> QED
      BY <1>2, <3>1, <3>2, <3>3
  <2>2. CASE s = <<item>>
    <3>1. DOMAIN s = {1} /\ s[1] = item
      BY <2>2
    <3> QED
      BY <2>1, <3>1 DEF Quiet, ExpireLast
  <2>3. CASE s = <<Expire>>
    <3>1. DOMAIN s = {1} /\ s[1] = Expire /\ Len(s) = 1
      BY <2>3
    <3> QED
      BY <1>1, <2>1, <3>1 DEF Quiet, ExpireLast
  <2>4. CASE s = <<item, Expire>>
    <3>1. DOMAIN s = {1, 2} /\ s[1] = item /\ s[2] = Expire /\ Len(s) = 2
      BY <2>4
    <3> QED
      BY <1>1, <2>1, <3>1 DEF Quiet, ExpireLast
  <2>5. CASE s = <<Tell, item, Expire>>
    <3>1. DOMAIN s = {1, 2, 3} /\ s[1] = Tell /\ s[2] = item /\ s[3] = Expire /\ Len(s) = 3
      BY <2>5
    <3> QED
      BY <1>1, <2>1, <3>1 DEF Quiet, ExpireLast
  <2> QED
    BY <1>2, <2>2, <2>3, <2>4, <2>5
<1> QED
  BY <1>2

\* A command begins when the thread has nothing left.
LEMMA EndsServe ==
  ASSUME TypeOK, EndsInv, commands # <<>>, Serve(Head(commands))
  PROVE  EndsInv'
<1> DEFINE c == Head(commands)
           t == "svc"
<1>1. c \in Commands /\ rt \in Runtimes /\ t \in Threads /\ BannersInv
  BY DEF TypeOK, Threads, EndsInv
<1>2. todo[t] = <<>>
  BY DEF Serve, SetEnabled, ShellNotify, ShellNotifyRefused, Close, InvokeAction, Receive
<1>3. /\ \A call \in Nat : Reply(call) \in Items /\ Reply(call).do = "reply"
      /\ \A id \in Nat : CloseActed(id) \in Items /\ CloseActed(id).do = "close acted"
  BY DEF Items, Reply, CloseActed
<1> HIDE DEF c, t
<1>4. ASSUME NEW items, Quiet(items), Then(items), UNCHANGED told,
             BannersInv', \A id : Ended(id)' <=> Ended(id)
      PROVE  EndsInv'
  BY <1>1, <1>2, <1>4, EndsBegin DEF Then, Quiet, t
<1>5. ASSUME rt'.active = rt.active, rt'.next_id = rt.next_id, UNCHANGED shown
      PROVE  BannersInv' /\ \A id : Ended(id)' <=> Ended(id)
  BY <1>1, <1>5 DEF BannersInv, Distinct, Ended, ActiveIds
<1>6. CASE SetEnabled(c)
  <2>1. c.call \in Nat
    BY <1>1, <1>6, CommandFields DEF SetEnabled
  <2>2. rt'.active = rt.active /\ rt'.next_id = rt.next_id /\ UNCHANGED <<shown, told>>
    BY <1>1, <1>6 DEF SetEnabled, Runtimes, given
  <2> DEFINE answer == <<Reply(c.call), Expire>>
             told_answer == <<Tell, Reply(c.call), Expire>>
  <2>3. Quiet(answer)
    BY <1>3, <2>1, QuietItems
  <2>4. Quiet(told_answer)
    BY <1>3, <2>1, QuietItems
  <2>5. Then(answer) \/ Then(told_answer)
    BY <1>6 DEF SetEnabled
  <2> HIDE DEF answer, told_answer
  <2> QED
    BY <1>4, <1>5, <2>2, <2>3, <2>4, <2>5
<1>7. CASE ShellNotify(c)
  <2>1. c.call \in Nat /\ c.until \in Nat
    BY <1>1, <1>7, CommandFields DEF ShellNotify
  <2> DEFINE items == <<Tell, Reply(c.call), Expire>>
  <2>2. Quiet(items)
    BY <1>3, <2>1, QuietItems
  <2>3. Then(items) /\ UNCHANGED told /\ Notify(0, c.until)
    BY <1>7 DEF ShellNotify
  <2> HIDE DEF items
  <2>4. BannersInv' /\ \A id : Ended(id)' <=> Ended(id)
    BY <1>1, <2>1, <2>3, NotifyBanners
  <2> QED
    BY <1>4, <2>2, <2>3, <2>4
<1>8. CASE ShellNotifyRefused(c)
  <2>1. c.call \in Nat
    BY <1>1, <1>8, CommandFields DEF ShellNotifyRefused
  <2> DEFINE items == <<Reply(c.call)>>
  <2>2. Quiet(items)
    BY <1>3, <2>1, QuietItems
  <2>3. Then(items) /\ UNCHANGED <<rt, shown, told>>
    BY <1>8 DEF ShellNotifyRefused, given
  <2> HIDE DEF items
  <2> QED
    BY <1>4, <1>5, <2>2, <2>3
<1>9. CASE Close(c)
  <2>1. c.id \in Nat /\ UNCHANGED <<shown, told>>
    BY <1>1, <1>9, CommandFields DEF Close, given
  <2>2. CASE c.id \in ActiveIds(rt)
    <3> DEFINE ids == {c.id}
               items == Append(Endings(ids), Expire)
    <3>1. rt' = Closed(rt, c.id, "dismissed") /\ Then(items)
      BY <1>9, <2>2 DEF Close
    <3>2. /\ BannersInv'
          /\ \A x : Ended(x)' <=> Ended(x) \/ x \in ids
          /\ \A x \in ids : ~Ended(x)
      BY <1>1, <2>1, <2>2, <3>1, CloseBanners
    <3>3. ids \in SUBSET Nat /\ <<>> \in Seq(Items) /\ ExpireLast(<<>>)
      BY <2>1 DEF ExpireLast
    <3> HIDE DEF ids
    <3>4. items \in Seq(Items) /\ ExpireLast(items)
      BY <3>3, EndingsType, ExpireLastEndings
    <3>5. \A x : Count(items, x) = One(x \in ids)
      BY <3>3, CountEndingsAlone
    <3> HIDE DEF items
    <3>6. \A x : Count(items, x) = One(x \in ids) + Count(todo[t], x)
      <4>1. \A x : Count(todo[t], x) = 0 /\ One(x \in ids) \in Nat
        BY <1>2, CountSilent DEF One
      <4> QED
        BY <3>5, <4>1
    <3>7. todo' = [todo EXCEPT ![t] = items]
      BY <3>1 DEF Then, t
    <3> QED
      BY <1>1, <2>1, <3>2, <3>4, <3>6, <3>7, EndsEnd
  <2>3. CASE c.id \notin ActiveIds(rt)
    <3> DEFINE items == <<Expire>>
    <3>1. Quiet(items)
      BY <1>3, <2>1, QuietItems
    <3>2. Then(items) /\ rt' = rt
      BY <1>9, <2>3 DEF Close
    <3> HIDE DEF items
    <3> QED
      BY <1>4, <1>5, <2>1, <3>1, <3>2
  <2> QED
    BY <2>2, <2>3
<1>10. CASE InvokeAction(c)
  <2>1. c.id \in Nat /\ UNCHANGED <<shown, told>>
    BY <1>1, <1>10, CommandFields DEF InvokeAction, given
  <2>2. BannersInv' /\ \A id : Ended(id)' <=> Ended(id)
    <3>1. CASE c.id \in ActiveIds(rt)
      BY <1>1, <1>10, <2>1, <3>1, ActBanners DEF InvokeAction
    <3>2. CASE c.id \notin ActiveIds(rt)
      BY <1>5, <1>10, <2>1, <3>2 DEF InvokeAction
    <3> QED
      BY <3>1, <3>2
  <2> DEFINE acting == <<Tell, CloseActed(c.id), Expire>>
             nothing == <<CloseActed(c.id), Expire>>
  <2>3. Quiet(acting)
    BY <1>3, <2>1, QuietItems
  <2>4. Quiet(nothing)
    BY <1>3, <2>1, QuietItems
  <2>5. Then(acting) \/ Then(nothing)
    BY <1>10 DEF InvokeAction
  <2> HIDE DEF acting, nothing
  <2> QED
    BY <1>4, <2>1, <2>2, <2>3, <2>4, <2>5
<1> QED
  BY <1>6, <1>7, <1>8, <1>9, <1>10 DEF Serve, c

LEMMA FirstItem ==
  ASSUME NEW s \in Seq(Items), s # <<>>
  PROVE  Head(s) = s[1] /\ (Tail(s) = <<>> => Len(s) = 1)
<1>1. Len(Tail(s)) = Len(s) - 1 /\ Len(s) \in Nat /\ Head(s) = s[1]
  OBVIOUS
<1>2. ASSUME Tail(s) = <<>> PROVE Len(s) = 1
  <2>1. Len(Tail(s)) = 0
    <3>1. Len(<<>>) = 0
      OBVIOUS
    <3> QED
      BY <1>2, <3>1
  <2> DEFINE n == Len(s)
             m == Len(Tail(s))
  <2>2. m = n - 1 /\ n \in Nat /\ m = 0
    BY <1>1, <2>1
  <2> HIDE DEF n, m
  <2>3. n = 1
    BY <2>2
  <2> QED
    BY <2>3 DEF n
<1> QED
  BY <1>1, <1>2

LEMMA EndsSvc ==
  ASSUME TypeOK, EndsInv, Svc
  PROVE  EndsInv'
<1> DEFINE t == "svc"
<1>1. rt \in Runtimes /\ t \in Threads /\ BannersInv /\ todo[t] \in Seq(Items)
  BY DEF TypeOK, Threads, EndsInv
<1>2. CASE commands # <<>> /\ Serve(Head(commands))
  BY <1>2, EndsServe
<1>3. CASE GoOn("svc")
  BY <1>1, <1>3, EndsGoOnWith
\* The first item is done and leaves nothing else to do.
<1>4. ASSUME NEW do, Doing(t, do), do # "announce", Done(t), UNCHANGED <<rt, shown, told>>
      PROVE  EndsInv'
  <2>1. todo[t] # <<>> /\ todo[t][1].do # "announce"
    BY <1>1, <1>4 DEF Doing
  <2>2. todo' = [todo EXCEPT ![t] = <<>> \o Tail(todo[t])]
    BY <1>1, <1>4, <2>1 DEF Done
  <2> HIDE DEF t
  <2> QED
    BY <1>1, <1>4, <2>1, <2>2, EndsGoOn
<1>5. CASE ExpireNothing
  BY <1>4, <1>5 DEF ExpireNothing, given
<1>6. ASSUME NEW written \in BOOLEAN, SendReply(written)
      PROVE  EndsInv'
  BY <1>4, <1>6 DEF SendReply, given
<1>7. CASE CloseTheActed
  <2> DEFINE first == todo[t][1]
             rest == Tail(todo[t])
             ids == {first.id}
             items == Endings(ids) \o rest
  <2>1. todo[t] # <<>> /\ first = Head(todo[t]) /\ first.do = "close acted" /\ rest \in Seq(Items)
        /\ UNCHANGED <<shown, told>>
    <3>1. todo[t] # <<>> /\ Head(todo[t]).do = "close acted" /\ UNCHANGED <<shown, told>>
      BY <1>7 DEF CloseTheActed, Doing, given
    <3>2. Head(todo[t]) = first
      BY <1>1, <3>1, FirstItem
    <3> QED
      BY <1>1, <3>1, <3>2, HeadTail
  <2>2. CASE first.id \in ActiveIds(rt)
    <3>1. rt' = Closed(rt, first.id, "dismissed") /\ Then(items)
      BY <1>7, <2>1, <2>2 DEF CloseTheActed
    <3>2. /\ BannersInv'
          /\ \A x : Ended(x)' <=> Ended(x) \/ x \in ids
          /\ \A x \in ids : ~Ended(x)
      BY <1>1, <2>1, <2>2, <3>1, CloseBanners
    <3>3. ids \in SUBSET Nat
      BY <1>1, <2>2, IdsAreNat
    <3>4. \A x : Count(todo[t], x) = Count(rest, x)
      <4>1. \A x : One(Says(first, x)) = 0
        BY <2>1 DEF Says, One
      <4>2. ASSUME NEW x
            PROVE  Count(todo[t], x) = One(Says(first, x)) + Count(rest, x) /\ Count(rest, x) \in Nat
        BY <1>1, <2>1, CountTail
      <4> HIDE DEF first, rest
      <4> QED
        BY <4>1, <4>2
    <3>5. ExpireLast(rest)
      BY <1>1, <2>1, ExpireLastTail DEF EndsInv
    <3>6. todo' = [todo EXCEPT ![t] = items]
      BY <3>1 DEF Then
    <3> HIDE DEF ids, rest, t
    <3>7. items \in Seq(Items) /\ ExpireLast(items)
      BY <2>1, <3>3, <3>5, EndingsType, ExpireLastEndings
    <3>8. \A x : Count(items, x) = One(x \in ids) + Count(rest, x)
      BY <2>1, <3>3, CountEndings
    <3> HIDE DEF items
    <3>9. \A x : Count(items, x) = One(x \in ids) + Count(todo[t], x)
      BY <3>4, <3>8
    <3> QED
      BY <1>1, <2>1, <3>2, <3>6, <3>7, <3>9, EndsEnd
  <2>3. CASE first.id \notin ActiveIds(rt)
    BY <1>4, <1>7, <2>1, <2>3 DEF CloseTheActed, Then, Done
  <2> QED
    BY <2>2, <2>3
<1>8. CASE ExpireDue
  <2> DEFINE ids == {a.id : a \in Due(rt)}
             items == Endings(ids)
  <2>1. /\ BannersInv'
        /\ \A x : Ended(x)' <=> Ended(x) \/ x \in ids
        /\ \A x \in ids : ~Ended(x)
    BY <1>1, <1>8, ExpireBanners DEF ExpireDue, given
  <2>2. ids \in SUBSET Nat
    BY <1>1, ExpiredAdvances
  <2>3. UNCHANGED told /\ todo' = [todo EXCEPT ![t] = items]
    BY <1>8 DEF ExpireDue, Then
  <2>4. \A x : Count(todo[t], x) = 0
    <3>1. CASE todo[t] = <<>>
      BY <3>1, CountSilent
    <3>2. CASE todo[t] # <<>>
      <4>1. todo[t][1].do = "expire"
        BY <1>1, <1>8, <3>2 DEF ExpireDue, Doing
      <4>2. Tail(todo[t]) = <<>>
        BY <1>1, <3>2, <4>1, ExpireLastTail DEF EndsInv
      <4>3. Len(todo[t]) = 1
        BY <1>1, <3>2, <4>2, FirstItem
      <4>4. \A i \in DOMAIN todo[t] : todo[t][i].do # "announce"
        BY <1>1, <4>1, <4>3
      <4> QED
        BY <4>4, CountSilent
    <3> QED
      BY <3>1, <3>2
  <2> HIDE DEF ids, t
  <2>5. <<>> \in Seq(Items) /\ ExpireLast(<<>>)
    BY DEF ExpireLast
  <2>6. items \in Seq(Items) /\ ExpireLast(items) /\ \A x : Count(items, x) = One(x \in ids)
    BY <2>2, <2>5, EndingsType, ExpireLastEndings, CountEndingsAlone
  <2> HIDE DEF items
  <2>7. \A x : Count(items, x) = One(x \in ids) + Count(todo[t], x)
    <3>1. \A x : One(x \in ids) \in Nat
      BY DEF One
    <3> QED
      BY <2>4, <2>6, <3>1
  <2> QED
    BY <1>1, <2>1, <2>3, <2>6, <2>7, EndsEnd
<1> QED
  BY <1>2, <1>3, <1>5, <1>6, <1>7, <1>8 DEF Svc

LEMMA EndsKept ==
  ASSUME EndsInv, UNCHANGED <<rt, todo, shown, told>>
  PROVE  EndsInv'
BY DEF EndsInv, BannersInv, Distinct, EndsToldOnce, Owed, ActiveIds

LEMMA EndsStep == TypeOK /\ EndsInv /\ [Next]_vars => EndsInv'
<1> SUFFICES ASSUME TypeOK, EndsInv, [Next]_vars PROVE EndsInv'
  OBVIOUS
<1>1. CASE Loop
  <2>1. UNCHANGED <<rt, todo, shown, told>>
    BY <1>1 DEF Loop, AskClose, AskAction, AskEnabled, AskNotify, AskNothing, Request, Command,
                ReplyTimeout, given
  <2> QED
    BY <2>1, EndsKept
<1>2. CASE Tick
  BY <1>2, EndsKept DEF Tick, given
<1>3. CASE UNCHANGED vars
  BY <1>3, EndsKept DEF vars, given
<1> QED
  BY <1>1, <1>2, <1>3, EndsBus, EndsSvc DEF Next

\* Expiry, CloseNotification, the page's button and an action may all end a banner, some
\* of them between two halves of another; its end is told once to the bus and the page
\* (invoke_action and close in run_notifications, CloseNotification, expire_due).
THEOREM EndsAreToldOnce == Spec => []EndsToldOnce
<1> DEFINE Inv == TypeOK /\ EndsInv
<1>1. Init => Inv
  BY TypeInit, EndsInit
<1>2. Inv /\ [Next]_vars => Inv'
  BY TypeStep, EndsStep
<1>3. Inv => EndsToldOnce
  BY DEF EndsInv
<1> QED
  BY <1>1, <1>2, <1>3, PTL DEF Spec

-----------------------------------------------------------------------------
(* The history: what a row that is put in front leaves of the others.      *)

Lone(entries) == \A a, b \in entries : a.id = b.id => a = b
Above(all, row) == {other \in all : Newer(other, row)}
Kept(all) == {row \in all : Cardinality(Above(all, row)) < HistoryLimit}

\* Newer is a strict order of rows of different ids, so that the numbers of rows above
\* them are all different: the first HistoryLimit rows are kept.
LEMMA RowsKept ==
  ASSUME NEW all \in SUBSET Entries, IsFiniteSet(all), Lone(all)
  PROVE  /\ IsFiniteSet(Kept(all))
         /\ Cardinality(all) >= HistoryLimit => Cardinality(Kept(all)) = HistoryLimit
         /\ Cardinality(all) < HistoryLimit => Kept(all) = all
<1> DEFINE n == Cardinality(all)
           Rank(row) == Cardinality(Above(all, row))
           rank == [row \in all |-> Rank(row)]
<1>1. n \in Nat /\ HistoryLimit \in Nat \ {0}
  BY FS_CardinalityType, NotificationsAssumption
<1>2. ASSUME NEW row \in all
      PROVE  IsFiniteSet(Above(all, row)) /\ Rank(row) \in 0 .. n - 1
  <2>1. row \notin Above(all, row)
    BY DEF Above, Newer, Entries
  <2>2. Above(all, row) \in SUBSET all
    BY DEF Above
  <2>3. IsFiniteSet(Above(all, row)) /\ Rank(row) \in Nat /\ Rank(row) <= n /\ Rank(row) # n
    BY <2>1, <2>2, FS_Subset, FS_CardinalityType
  <2> QED
    BY <1>1, <2>3
<1>3. ASSUME NEW a \in all, NEW b \in all, Newer(a, b)
      PROVE  Rank(a) < Rank(b)
  <2>1. Above(all, a) \in SUBSET Above(all, b)
    BY <1>3 DEF Above, Newer, Entries
  <2>2. a \in Above(all, b) /\ a \notin Above(all, a)
    BY <1>3 DEF Above, Newer, Entries
  <2>3. IsFiniteSet(Above(all, b)) /\ Rank(a) \in Nat /\ Rank(b) \in Nat
    BY <1>1, <1>2
  <2>4. Rank(a) <= Rank(b) /\ Rank(a) # Rank(b)
    BY <2>1, <2>2, <2>3, FS_Subset
  <2> QED
    BY <2>3, <2>4
<1>4. ASSUME NEW a \in all, NEW b \in all, a # b
      PROVE  Newer(a, b) \/ Newer(b, a)
  <2>1. a.id # b.id /\ a.id \in Nat /\ b.id \in Nat /\ a.at \in Nat /\ b.at \in Nat
    BY <1>4 DEF Lone, Entries
  <2> QED
    BY <2>1 DEF Newer
<1>5. ASSUME NEW a \in all, NEW b \in all, a # b
      PROVE  Rank(a) # Rank(b)
  <2>1. Rank(a) \in Nat /\ Rank(b) \in Nat
    BY <1>1, <1>2
  <2>2. CASE Newer(a, b)
    BY <1>3, <2>1, <2>2
  <2>3. CASE Newer(b, a)
    BY <1>3, <2>1, <2>3
  <2> QED
    BY <1>4, <1>5, <2>2, <2>3
<1> HIDE DEF n, Rank
<1>6. rank \in [all -> 0 .. n - 1] /\ rank \in Injection(all, 0 .. n - 1)
  <2>1. rank \in [all -> 0 .. n - 1]
    BY <1>2
  <2>2. \A a, b \in all : rank[a] = rank[b] => a = b
    BY <1>5
  <2> HIDE DEF rank
  <2> QED
    BY <2>1, <2>2, Fun_IsInj
<1>7. IsFiniteSet(0 .. n - 1) /\ Cardinality(0 .. n - 1) = n
  BY <1>1, FS_Interval
<1>8. rank \in Surjection(all, 0 .. n - 1)
  <2> HIDE DEF rank
  <2> QED
    BY <1>6, <1>7, FS_Injection DEF n
<1>9. Kept(all) \in SUBSET all /\ IsFiniteSet(Kept(all))
  BY FS_Subset DEF Kept
<1>10. ASSUME NEW row \in all PROVE row \in Kept(all) <=> Rank(row) < HistoryLimit
  BY DEF Kept, Rank
<1>11. ASSUME n < HistoryLimit PROVE Kept(all) = all
  <2>1. \A row \in all : row \in Kept(all)
    BY <1>1, <1>2, <1>10, <1>11
  <2> QED
    BY <1>9, <2>1
<1>12. ASSUME n >= HistoryLimit PROVE Cardinality(Kept(all)) = HistoryLimit
  <2> DEFINE low == 0 .. HistoryLimit - 1
             f == [row \in Kept(all) |-> Rank(row)]
  <2>1. IsFiniteSet(low) /\ Cardinality(low) = HistoryLimit
    BY <1>1, FS_Interval
  <2>2. f \in [Kept(all) -> low]
    BY <1>1, <1>2, <1>9, <1>10
  <2>3. \A a, b \in Kept(all) : f[a] = f[b] => a = b
    BY <1>5, <1>9
  <2>4. ASSUME NEW k \in low PROVE \E row \in Kept(all) : f[row] = k
    <3>1. k \in 0 .. n - 1
      BY <1>1, <1>12
    <3>2. PICK row \in all : rank[row] = k
      BY <1>8, <3>1 DEF Surjection
    <3>3. Rank(row) = k /\ k < HistoryLimit
      BY <1>1, <3>2
    <3>4. row \in Kept(all)
      BY <1>10, <3>3
    <3> QED
      BY <3>3, <3>4
  <2> HIDE DEF f, low
  <2>5. f \in Bijection(Kept(all), low)
    BY <2>2, <2>3, <2>4, Fun_IsBij
  <2>6. ExistsBijection(Kept(all), low)
    BY <2>5 DEF ExistsBijection
  <2> QED
    BY <1>9, <2>1, <2>6, FS_Bijection
<1> QED
  BY <1>9, <1>11, <1>12 DEF n

\* A change of the history that puts `entries` in front.
LEMMA RecordedRows ==
  ASSUME NEW history \in SUBSET Entries, IsFiniteSet(history), Lone(history),
         NEW entries \in SUBSET Entries, IsFiniteSet(entries), Lone(entries),
         NEW recorded, recorded = Recorded(history, entries)
  PROVE  /\ IsFiniteSet(recorded) /\ Lone(recorded)
         /\ \A row \in recorded :
              row \in entries \/ (row \in history /\ \A e \in entries : e.id # row.id)
         /\ Cardinality(history) = HistoryLimit => Cardinality(recorded) = HistoryLimit
         /\ Cardinality(recorded) # HistoryLimit =>
              /\ entries \subseteq recorded
              /\ \A row \in history : (\A e \in entries : e.id # row.id) => row \in recorded
<1> DEFINE others == {row \in history : \A e \in entries : e.id # row.id}
           all == others \cup entries
<1>1. recorded = Kept(all)
  BY DEF Recorded, Kept, Above
<1>2. all \in SUBSET Entries /\ Lone(all)
  BY DEF Lone
<1>3. IsFiniteSet(others) /\ IsFiniteSet(all)
  BY FS_Subset, FS_Union
<1>4. others \subseteq all /\ entries \subseteq all
  OBVIOUS
<1>5. \A row \in all : row \in entries \/ (row \in history /\ \A e \in entries : e.id # row.id)
  OBVIOUS
<1>6. \A row \in history : (\A e \in entries : e.id # row.id) => row \in others
  OBVIOUS
<1>7. Cardinality(history) <= Cardinality(all)
  <2> DEFINE Same(row) == IF row \in others THEN row ELSE CHOOSE e \in entries : e.id = row.id
             f == [row \in history |-> Same(row)]
  <2>1. ASSUME NEW row \in history PROVE Same(row) \in all /\ Same(row).id = row.id
    <3>1. CASE row \in others
      BY <1>4, <3>1
    <3>2. CASE row \notin others
      <4>1. \E e \in entries : e.id = row.id
        BY <1>6, <3>2
      <4>2. Same(row) \in entries /\ Same(row).id = row.id
        BY <3>2, <4>1
      <4> QED
        BY <1>4, <4>2
    <3> QED
      BY <3>1, <3>2
  <2> HIDE DEF Same, all
  <2>2. f \in [history -> all]
    BY <2>1
  <2>3. \A a, b \in history : f[a] = f[b] => a = b
    BY <2>1 DEF Lone
  <2> HIDE DEF f
  <2>4. f \in Injection(history, all)
    BY <2>2, <2>3, Fun_IsInj
  <2> QED
    BY <1>3, <2>4, FS_Injection
<1> HIDE DEF others, all
<1>8. /\ IsFiniteSet(Kept(all))
      /\ Cardinality(all) >= HistoryLimit => Cardinality(Kept(all)) = HistoryLimit
      /\ Cardinality(all) < HistoryLimit => Kept(all) = all
  BY <1>2, <1>3, RowsKept
<1>9. Kept(all) \subseteq all
  BY DEF Kept
<1>10. Cardinality(all) \in Nat /\ Cardinality(history) \in Nat /\ HistoryLimit \in Nat
  BY <1>3, FS_CardinalityType, NotificationsAssumption
<1>11. Lone(Kept(all))
  BY <1>2, <1>9 DEF Lone
<1>12. \A row \in Kept(all) :
         row \in entries \/ (row \in history /\ \A e \in entries : e.id # row.id)
  BY <1>5, <1>9
<1>13. Cardinality(history) = HistoryLimit => Cardinality(Kept(all)) = HistoryLimit
  BY <1>7, <1>8, <1>10
<1>14. CASE Cardinality(all) >= HistoryLimit
  BY <1>1, <1>8, <1>11, <1>12, <1>13, <1>14
<1>15. CASE Cardinality(all) < HistoryLimit
  <2>1. /\ entries \subseteq Kept(all)
        /\ \A row \in history : (\A e \in entries : e.id # row.id) => row \in Kept(all)
    BY <1>4, <1>6, <1>8, <1>15
  <2> QED
    BY <1>1, <1>8, <1>11, <1>12, <1>13, <2>1
<1> QED
  BY <1>10, <1>14, <1>15

-----------------------------------------------------------------------------
(* The history agrees with the banners.                                    *)

IdsOf(entries) == {e.id : e \in entries}

RowsInv ==
  /\ HistoryAgrees
  /\ IsFiniteSet(rt.history) /\ Lone(rt.history)
  /\ IsFiniteSet(rt.active)
  /\ \A a \in rt.active : a.closed = "no"

LEMMA RowsInit == Init => RowsInv
<1> SUFFICES ASSUME Init PROVE RowsInv
  OBVIOUS
<1>1. rt.history = {} /\ rt.active = {} /\ rt.next_id = 1
  BY DEF Init, New
<1>2. 1 .. rt.next_id - 1 = {}
  BY <1>1
<1> QED
  BY <1>1, <1>2, FS_EmptySet DEF RowsInv, HistoryAgrees, Lone

\* A change that puts in front what is new of the banners it is about, and leaves the
\* others alone.
LEMMA RowsMove ==
  ASSUME TypeOK, TypeOK', RowsInv,
         NEW entries \in SUBSET Entries, IsFiniteSet(entries), Lone(entries),
         rt'.history = Recorded(rt.history, entries),
         IsFiniteSet(rt'.active), \A a \in rt'.active : a.closed = "no",
         muted \subseteq muted',
         \A id \in 1 .. rt'.next_id - 1 : id \notin IdsOf(entries) =>
           /\ id < rt.next_id
           /\ id \in ActiveIds(rt)' <=> id \in ActiveIds(rt)
           /\ id \in ActiveIds(rt) => Banner(rt, id)' = Banner(rt, id),
         \A e \in entries :
           /\ e.closed # "no" => e.id \notin ActiveIds(rt)'
           /\ e.closed = "no" => e.id \in ActiveIds(rt)' \cup muted'
           /\ e.id \in ActiveIds(rt)' \ muted' => e = Banner(rt, e.id)'
  PROVE  RowsInv'
<1>1. rt \in Runtimes /\ rt' \in Runtimes /\ rt.history \in SUBSET Entries
      /\ rt.next_id \in Nat /\ rt'.next_id \in Nat
  BY DEF TypeOK, Runtimes
<1>2. IsFiniteSet(rt.history) /\ Lone(rt.history)
  BY DEF RowsInv
<1> DEFINE recorded == rt'.history
<1>3. /\ IsFiniteSet(recorded) /\ Lone(recorded)
      /\ \A row \in recorded :
           row \in entries \/ (row \in rt.history /\ \A e \in entries : e.id # row.id)
      /\ Cardinality(rt.history) = HistoryLimit => Cardinality(recorded) = HistoryLimit
      /\ Cardinality(recorded) # HistoryLimit =>
           /\ entries \subseteq recorded
           /\ \A row \in rt.history : (\A e \in entries : e.id # row.id) => row \in recorded
  <2> HIDE DEF recorded
  <2>1. recorded = Recorded(rt.history, entries)
    BY DEF recorded
  <2> QED
    BY <1>1, <1>2, <2>1, RecordedRows
<1>4. ASSUME NEW id \in 1 .. rt'.next_id - 1, Row(id)' = {}
      PROVE  Cardinality(recorded) = HistoryLimit
  <2>1. \A row \in recorded : row.id # id
    BY <1>4 DEF Row
  <2>2. CASE id \in IdsOf(entries)
    BY <1>3, <2>1, <2>2 DEF IdsOf
  <2>3. CASE id \notin IdsOf(entries)
    <3>1. id \in 1 .. rt.next_id - 1
      BY <1>1, <2>3
    <3>2. CASE Row(id) = {}
      BY <1>3, <3>1, <3>2 DEF RowsInv, HistoryAgrees
    <3>3. CASE Row(id) # {}
      <4>1. PICK row \in rt.history : row.id = id
        BY <3>3 DEF Row
      <4>2. \A e \in entries : e.id # row.id
        BY <2>3, <4>1 DEF IdsOf
      <4> QED
        BY <1>3, <2>1, <4>1, <4>2
    <3> QED
      BY <3>2, <3>3
  <2> QED
    BY <2>2, <2>3
<1>5. ASSUME NEW id \in 1 .. rt'.next_id - 1, NEW row \in Row(id)'
      PROVE  /\ row.closed # "no" => id \notin ActiveIds(rt)'
             /\ row.closed = "no" => id \in ActiveIds(rt)' \cup muted'
             /\ id \in ActiveIds(rt)' \ muted' => row = Banner(rt, id)'
  <2>1. row \in recorded /\ row.id = id
    BY DEF Row
  <2>2. CASE row \in entries
    BY <2>1, <2>2
  <2>3. CASE row \in rt.history /\ id \notin IdsOf(entries)
    <3>1. id \in 1 .. rt.next_id - 1
      BY <1>1, <2>3
    <3>2. row \in Row(id)
      BY <2>1, <2>3 DEF Row
    <3>3. /\ row.closed # "no" => id \notin ActiveIds(rt)
          /\ row.closed = "no" => id \in ActiveIds(rt) \cup muted
          /\ id \in ActiveIds(rt) \ muted => row = Banner(rt, id)
      BY <3>1, <3>2 DEF RowsInv, HistoryAgrees
    <3>4. id \in ActiveIds(rt)' <=> id \in ActiveIds(rt)
      BY <2>3
    <3>5. id \in ActiveIds(rt) => Banner(rt, id)' = Banner(rt, id)
      BY <2>3
    <3> QED
      BY <3>3, <3>4, <3>5
  <2> QED
    BY <1>3, <2>1, <2>2, <2>3 DEF IdsOf
<1>6. ASSUME NEW id \in 1 .. rt'.next_id - 1, NEW row \in Row(id)', NEW other \in Row(id)'
      PROVE  row = other
  BY <1>3 DEF Row, Lone
<1>7. HistoryAgrees'
  BY <1>4, <1>5, <1>6 DEF HistoryAgrees
<1> QED
  BY <1>3, <1>7 DEF RowsInv

LEMMA ChangedHistory ==
  ASSUME NEW r \in Runtimes, NEW active, NEW entries
  PROVE  Changed(r, active, entries).history = Recorded(r.history, entries)
BY DEF Changed, Runtimes

LEMMA BannerIs ==
  ASSUME NEW r, Distinct(r), NEW a \in r.active
  PROVE  a.id \in ActiveIds(r) /\ Banner(r, a.id) = a
<1>1. a.id \in ActiveIds(r)
  BY DEF ActiveIds
<1>2. Banner(r, a.id) \in r.active /\ Banner(r, a.id).id = a.id
  BY DEF Banner
<1> QED
  BY <1>1, <1>2 DEF Distinct

\* What is not put in the place of a banner stays the banner of its id.
LEMMA OtherBanners ==
  ASSUME Distinct(rt), Distinct(rt'), NEW id,
         \A x : x # id => (x \in ActiveIds(rt)' <=> x \in ActiveIds(rt)),
         \A a \in rt.active : a.id # id => a \in rt'.active
  PROVE  \A x : x # id =>
           /\ x \in ActiveIds(rt)' <=> x \in ActiveIds(rt)
           /\ x \in ActiveIds(rt) => Banner(rt, x)' = Banner(rt, x)
<1> SUFFICES ASSUME NEW x, x # id, x \in ActiveIds(rt)
             PROVE  Banner(rt, x)' = Banner(rt, x)
  OBVIOUS
<1>1. PICK a \in rt.active : a.id = x
  BY DEF ActiveIds
<1>2. Banner(rt, x) = a
  BY <1>1, BannerIs
<1>3. a \in rt'.active
  BY <1>1
<1>4. Banner(rt', a.id) = a
  BY <1>3, BannerIs
<1> QED
  BY <1>1, <1>2, <1>4

LEMMA RowsNotify ==
  ASSUME TypeOK, TypeOK', BannersInv, RowsInv, NEW replaces \in Nat, NEW until \in Nat,
         Notify(replaces, until)
  PROVE  RowsInv'
<1> DEFINE id == IdFor(rt, replaces)
           entry == [id |-> id, at |-> rt.revision + 1, until |-> until, closed |-> "no"]
           next == [rt EXCEPT !.next_id = IF id = @ THEN @ + 1 ELSE @]
           active == IF rt.enabled THEN Others(rt, id) \cup {entry} ELSE rt.active
<1>1. rt \in Runtimes /\ rt.next_id \in Nat /\ rt.revision \in Nat /\ rt.enabled \in BOOLEAN
      /\ rt.active \in SUBSET Entries
  BY DEF TypeOK, Runtimes
<1>2. id \in Nat /\ (id \in ActiveIds(rt) \/ id = rt.next_id)
  BY <1>1 DEF IdFor
<1>3. next \in Runtimes /\ next.next_id = (IF id = rt.next_id THEN rt.next_id + 1 ELSE rt.next_id)
      /\ next.history = rt.history
  BY <1>1, <1>2 DEF Runtimes
<1>4. rt' = Changed(next, active, {entry})
  BY DEF Notify, Notified
<1>5. muted' = IF rt.enabled THEN muted ELSE muted \cup {id}
  BY DEF Notify
<1>6. entry.id = id /\ entry \in Entries /\ entry.closed = "no"
  BY <1>1, <1>2 DEF Entries
<1>b. Distinct(rt) /\ Distinct(rt')
  BY NotifyBanners DEF BannersInv
<1>l. IsFiniteSet({entry}) /\ Lone({entry})
  BY FS_Singleton DEF Lone
<1>o. /\ Others(rt, id) \subseteq rt.active
      /\ \A a \in rt.active : a.id # id => a \in Others(rt, id)
      /\ \A a \in Others(rt, id) : a.id # id
  BY DEF Others
<1> HIDE DEF entry, next, id
<1>7. rt'.active = active /\ rt'.next_id = next.next_id
  BY <1>3, <1>4, ChangedFields
<1>8. rt'.history = Recorded(rt.history, {entry})
  BY <1>3, <1>4, ChangedHistory
<1>9. ActiveIds(rt') = IF rt.enabled THEN ActiveIds(rt) \cup {id} ELSE ActiveIds(rt)
  <2>1. CASE rt.enabled
    BY <1>1, <1>6, <1>7, <2>1, Replaced DEF BannersInv
  <2>2. CASE ~rt.enabled
    BY <1>7, <2>2 DEF ActiveIds
  <2> QED
    BY <2>1, <2>2
<1>10. \A x : x # id =>
         /\ x \in ActiveIds(rt)' <=> x \in ActiveIds(rt)
         /\ x \in ActiveIds(rt) => Banner(rt, x)' = Banner(rt, x)
  <2>1. \A x : x # id => (x \in ActiveIds(rt)' <=> x \in ActiveIds(rt))
    BY <1>9
  <2>2. \A a \in rt.active : a.id # id => a \in rt'.active
    BY <1>7, <1>o
  <2> QED
    BY <1>b, <2>1, <2>2, OtherBanners
<1>11. IsFiniteSet(rt'.active) /\ \A a \in rt'.active : a.closed = "no"
  <2>1. IsFiniteSet(Others(rt, id))
    BY <1>o, FS_Subset DEF RowsInv
  <2>2. IsFiniteSet(active)
    BY <2>1, FS_AddElement DEF RowsInv
  <2> QED
    BY <1>6, <1>7, <1>o, <2>2 DEF RowsInv
<1>12. \A x \in 1 .. rt'.next_id - 1 : x \notin IdsOf({entry}) => x < rt.next_id /\ x # id
  BY <1>1, <1>2, <1>3, <1>6, <1>7 DEF IdsOf
<1>13. ASSUME id \in ActiveIds(rt') \ muted' PROVE entry = Banner(rt', id)
  <2>1. rt.enabled
    BY <1>5, <1>13
  <2>2. entry \in rt'.active
    BY <1>7, <2>1
  <2> QED
    BY <1>6, <1>b, <2>2, BannerIs
<1>14. id \in ActiveIds(rt') \cup muted'
  BY <1>5, <1>9
<1>15. \A e \in {entry} :
         /\ e.closed # "no" => e.id \notin ActiveIds(rt)'
         /\ e.closed = "no" => e.id \in ActiveIds(rt)' \cup muted'
         /\ e.id \in ActiveIds(rt)' \ muted' => e = Banner(rt, e.id)'
  BY <1>6, <1>13, <1>14
<1>16. muted \subseteq muted'
  BY <1>5
<1>17. \A x \in 1 .. rt'.next_id - 1 : x \notin IdsOf({entry}) =>
         /\ x < rt.next_id
         /\ x \in ActiveIds(rt)' <=> x \in ActiveIds(rt)
         /\ x \in ActiveIds(rt) => Banner(rt, x)' = Banner(rt, x)
  BY <1>10, <1>12
<1>18. {entry} \in SUBSET Entries
  BY <1>6
<1> QED
  BY <1>8, <1>11, <1>15, <1>16, <1>17, <1>18, <1>l, RowsMove

LEMMA RowsAct ==
  ASSUME TypeOK, TypeOK', BannersInv, RowsInv, NEW id \in ActiveIds(rt),
         rt' = Acted(rt, id), UNCHANGED <<shown, muted>>
  PROVE  RowsInv'
<1> DEFINE entry == [Banner(rt, id) EXCEPT !.at = rt.revision + 1]
<1>1. rt \in Runtimes /\ rt.next_id \in Nat /\ rt.active \in SUBSET Entries /\ rt.revision + 1 \in Nat
  BY DEF TypeOK, Runtimes
<1>2. Banner(rt, id) \in Entries /\ Banner(rt, id).id = id /\ Banner(rt, id) \in rt.active
  BY <1>1, BannerOfId
<1>3. entry \in Entries /\ entry.id = id /\ entry.closed = "no"
  BY <1>1, <1>2 DEF Entries, RowsInv
<1>4. rt' = Changed(rt, Others(rt, id) \cup {entry}, {entry})
  BY DEF Acted
<1>b. Distinct(rt) /\ Distinct(rt')
  BY ActBanners DEF BannersInv
<1>l. IsFiniteSet({entry}) /\ Lone({entry})
  BY FS_Singleton DEF Lone
<1>o. Others(rt, id) \subseteq rt.active /\ \A a \in rt.active : a.id # id => a \in Others(rt, id)
  BY DEF Others
<1> HIDE DEF entry
<1>5. rt'.active = Others(rt, id) \cup {entry} /\ rt'.next_id = rt.next_id
  BY <1>1, <1>4, ChangedFields
<1>6. rt'.history = Recorded(rt.history, {entry})
  BY <1>1, <1>4, ChangedHistory
<1>7. ActiveIds(rt') = ActiveIds(rt)
  <2>1. ActiveIds(rt') = ActiveIds(rt) \cup {id}
    BY <1>1, <1>3, <1>5, Replaced DEF BannersInv
  <2> QED
    BY <2>1
<1>8. \A x : x # id =>
        /\ x \in ActiveIds(rt)' <=> x \in ActiveIds(rt)
        /\ x \in ActiveIds(rt) => Banner(rt, x)' = Banner(rt, x)
  <2>1. \A x : x # id => (x \in ActiveIds(rt)' <=> x \in ActiveIds(rt))
    BY <1>7
  <2>2. \A a \in rt.active : a.id # id => a \in rt'.active
    BY <1>5, <1>o
  <2> QED
    BY <1>b, <2>1, <2>2, OtherBanners
<1>9. IsFiniteSet(rt'.active) /\ \A a \in rt'.active : a.closed = "no"
  <2>1. IsFiniteSet(Others(rt, id))
    BY <1>o, FS_Subset DEF RowsInv
  <2>2. IsFiniteSet(Others(rt, id) \cup {entry})
    BY <2>1, FS_AddElement
  <2> QED
    BY <1>3, <1>5, <1>o, <2>2 DEF RowsInv
<1>10. entry = Banner(rt', id)
  BY <1>3, <1>5, <1>b, BannerIs
<1>11. \A e \in {entry} :
         /\ e.closed # "no" => e.id \notin ActiveIds(rt)'
         /\ e.closed = "no" => e.id \in ActiveIds(rt)' \cup muted'
         /\ e.id \in ActiveIds(rt)' \ muted' => e = Banner(rt, e.id)'
  BY <1>3, <1>7, <1>10
<1>12. \A x \in 1 .. rt'.next_id - 1 : x \notin IdsOf({entry}) =>
         /\ x < rt.next_id
         /\ x \in ActiveIds(rt)' <=> x \in ActiveIds(rt)
         /\ x \in ActiveIds(rt) => Banner(rt, x)' = Banner(rt, x)
  BY <1>1, <1>3, <1>5, <1>8 DEF IdsOf
<1>13. {entry} \in SUBSET Entries /\ muted \subseteq muted'
  BY <1>3
<1> QED
  BY <1>6, <1>9, <1>11, <1>12, <1>13, <1>l, RowsMove

\* Banners that go, each with a row that says so.
LEMMA RowsGone ==
  ASSUME TypeOK, TypeOK', BannersInv, BannersInv', RowsInv,
         NEW gone \in SUBSET rt.active, NEW entries \in SUBSET Entries,
         IsFiniteSet(entries), Lone(entries), IdsOf(entries) = IdsOf(gone),
         \A e \in entries : e.closed # "no",
         rt'.active = rt.active \ gone, rt'.next_id = rt.next_id,
         rt'.history = Recorded(rt.history, entries), UNCHANGED muted
  PROVE  RowsInv'
<1>1. Distinct(rt) /\ Distinct(rt') /\ rt.next_id \in Nat
  BY DEF BannersInv, TypeOK, Runtimes
<1>2. IsFiniteSet(rt'.active) /\ \A a \in rt'.active : a.closed = "no"
  BY FS_Subset DEF RowsInv
<1>3. ASSUME NEW x \in IdsOf(gone) PROVE x \notin ActiveIds(rt')
  <2>1. PICK a \in gone : a.id = x
    BY <1>3 DEF IdsOf
  <2>2. \A b \in rt'.active : b.id # x
    BY <1>1, <2>1 DEF Distinct
  <2> QED
    BY <2>2 DEF ActiveIds
<1>4. ASSUME NEW x, x \notin IdsOf(gone)
      PROVE  /\ x \in ActiveIds(rt') <=> x \in ActiveIds(rt)
             /\ x \in ActiveIds(rt) => Banner(rt', x) = Banner(rt, x)
  <2>1. x \in ActiveIds(rt') => x \in ActiveIds(rt)
    BY DEF ActiveIds
  <2>2. ASSUME x \in ActiveIds(rt)
        PROVE  x \in ActiveIds(rt') /\ Banner(rt', x) = Banner(rt, x)
    <3>1. PICK a \in rt.active : a.id = x
      BY <2>2 DEF ActiveIds
    <3>2. a \in rt'.active
      BY <1>4, <3>1 DEF IdsOf
    <3>3. a.id \in ActiveIds(rt') /\ Banner(rt', a.id) = a /\ Banner(rt, a.id) = a
      BY <1>1, <3>1, <3>2, BannerIs
    <3> QED
      BY <3>1, <3>3
  <2> QED
    BY <2>1, <2>2
<1>5. \A e \in entries : e.id \in IdsOf(gone)
  BY DEF IdsOf
<1>6. \A e \in entries :
        /\ e.closed # "no" => e.id \notin ActiveIds(rt)'
        /\ e.closed = "no" => e.id \in ActiveIds(rt)' \cup muted'
        /\ e.id \in ActiveIds(rt)' \ muted' => e = Banner(rt, e.id)'
  BY <1>3, <1>5
<1>7. \A x \in 1 .. rt'.next_id - 1 : x \notin IdsOf(entries) =>
        /\ x < rt.next_id
        /\ x \in ActiveIds(rt)' <=> x \in ActiveIds(rt)
        /\ x \in ActiveIds(rt) => Banner(rt, x)' = Banner(rt, x)
  BY <1>1, <1>4
<1> QED
  BY <1>2, <1>6, <1>7, RowsMove

LEMMA RowsClose ==
  ASSUME TypeOK, TypeOK', BannersInv, RowsInv, NEW id \in ActiveIds(rt), NEW why \in Reasons,
         rt' = Closed(rt, id, why), UNCHANGED <<shown, muted>>
  PROVE  RowsInv'
<1> DEFINE entry == [Banner(rt, id) EXCEPT !.at = rt.revision + 1, !.closed = why]
           gone == {a \in rt.active : a.id = id}
<1>1. rt \in Runtimes /\ rt.revision + 1 \in Nat
  BY DEF TypeOK, Runtimes
<1>2. Banner(rt, id) \in Entries /\ Banner(rt, id).id = id /\ Banner(rt, id) \in rt.active
  BY <1>1, BannerOfId
<1>3. entry \in Entries /\ entry.id = id /\ entry.closed # "no"
  BY <1>1, <1>2 DEF Entries, Reasons
<1>4. rt' = Changed(rt, Others(rt, id), {entry})
  BY DEF Closed
<1>5. Others(rt, id) = rt.active \ gone
  BY DEF Others
<1>6. IdsOf(gone) = {id}
  BY <1>2 DEF IdsOf
<1>l. IsFiniteSet({entry}) /\ Lone({entry})
  BY FS_Singleton DEF Lone
<1>b. BannersInv'
  BY CloseBanners
<1>g. gone \in SUBSET rt.active
  OBVIOUS
<1> HIDE DEF entry, gone
<1>7. rt'.active = rt.active \ gone /\ rt'.next_id = rt.next_id
      /\ rt'.history = Recorded(rt.history, {entry})
  BY <1>1, <1>4, <1>5, ChangedFields, ChangedHistory
<1>8. IdsOf({entry}) = IdsOf(gone)
  BY <1>3, <1>6 DEF IdsOf
<1>9. {entry} \in SUBSET Entries /\ (\A e \in {entry} : e.closed # "no") /\ UNCHANGED muted
  BY <1>3
<1> QED
  BY <1>7, <1>8, <1>9, <1>b, <1>g, <1>l, RowsGone

LEMMA RowsExpire ==
  ASSUME TypeOK, TypeOK', BannersInv, RowsInv, rt' = Expired(rt), UNCHANGED <<shown, muted>>
  PROVE  RowsInv'
<1> DEFINE at == rt.revision + 1
           Ending(a) == [a EXCEPT !.at = at, !.closed = "expired"]
           ended == {Ending(a) : a \in Due(rt)}
<1>1. rt \in Runtimes /\ at \in Nat /\ rt.active \in SUBSET Entries
  BY DEF TypeOK, Runtimes
<1>2. Due(rt) \in SUBSET rt.active /\ Due(rt) \in SUBSET Entries
  BY <1>1 DEF Due
<1>3. rt' = Changed(rt, rt.active \ Due(rt), ended)
  BY DEF Expired
<1>b. BannersInv'
  BY ExpireBanners
<1> HIDE DEF at
<1>4. \A a \in Due(rt) : Ending(a) \in Entries /\ Ending(a).id = a.id /\ Ending(a).closed = "expired"
  BY <1>1, <1>2 DEF Entries, Reasons
<1>5. IsFiniteSet(ended)
  <2>1. IsFiniteSet(Due(rt))
    BY <1>2, FS_Subset DEF RowsInv
  <2> DEFINE f == [a \in Due(rt) |-> Ending(a)]
  <2>2. f \in [Due(rt) -> ended] /\ \A e \in ended : \E a \in Due(rt) : f[a] = e
    OBVIOUS
  <2> HIDE DEF f, ended
  <2>3. f \in Surjection(Due(rt), ended)
    BY <2>2, Fun_IsSurj
  <2> QED
    BY <2>1, <2>3, FS_Surjection
<1> HIDE DEF Ending
<1>6. Lone(ended)
  <2>1. Distinct(rt)
    BY DEF BannersInv
  <2> QED
    BY <1>2, <1>4, <2>1 DEF Lone, Distinct
<1>7. IdsOf(ended) = IdsOf(Due(rt))
  BY <1>4 DEF IdsOf
<1>8. ended \in SUBSET Entries /\ \A e \in ended : e.closed # "no"
  BY <1>4
<1> HIDE DEF ended
<1>9. rt'.active = rt.active \ Due(rt) /\ rt'.next_id = rt.next_id
      /\ rt'.history = Recorded(rt.history, ended)
  BY <1>1, <1>3, ChangedFields, ChangedHistory
<1> QED
  BY <1>2, <1>5, <1>6, <1>7, <1>8, <1>9, <1>b, RowsGone

\* Steps that leave the banners and the history.
LEMMA RowsKeptStill ==
  ASSUME RowsInv, rt'.active = rt.active, rt'.history = rt.history, rt'.next_id = rt.next_id,
         UNCHANGED muted
  PROVE  RowsInv'
BY DEF RowsInv, HistoryAgrees, Row, ActiveIds, Banner

LEMMA RowsStep == TypeOK /\ TypeOK' /\ BannersInv /\ RowsInv /\ [Next]_vars => RowsInv'
<1> SUFFICES ASSUME TypeOK, TypeOK', BannersInv, RowsInv, [Next]_vars PROVE RowsInv'
  OBVIOUS
<1>1. ASSUME UNCHANGED <<rt, muted>> PROVE RowsInv'
  BY <1>1, RowsKeptStill
<1>2. CASE Bus
  <2>1. ASSUME NEW replaces \in Ids \cup {0}, NEW until \in Untils, BusNotify(replaces, until)
        PROVE  RowsInv'
    <3>1. replaces \in Nat /\ until \in Nat
      BY NotificationsAssumption DEF Ids, Untils, TypeOK
    <3> QED
      BY <2>1, <3>1, RowsNotify DEF BusNotify
  <2>2. ASSUME NEW id \in Ids, BusClose(id) PROVE RowsInv'
    BY <2>2, RowsClose DEF BusClose, given, Reasons
  <2>3. CASE GoOn("bus")
    BY <1>1, <2>3 DEF GoOn, TakeSnapshot, SendState, SendEvents, given
  <2> QED
    BY <1>2, <2>1, <2>2, <2>3 DEF Bus
<1>3. CASE Svc
  <2>1. ASSUME commands # <<>>, Serve(Head(commands)) PROVE RowsInv'
    <3> DEFINE c == Head(commands)
    <3>1. c \in Commands
      BY <2>1, HeadTail DEF TypeOK
    <3> HIDE DEF c
    <3>2. CASE SetEnabled(c)
      <4>1. CASE rt.enabled = c.on
        BY <1>1, <3>2, <4>1 DEF SetEnabled, given
      <4>2. CASE rt.enabled # c.on
        <5>1. rt' = [rt EXCEPT !.enabled = c.on, !.revision = @ + 1] /\ UNCHANGED muted
          BY <3>2, <4>2 DEF SetEnabled, given
        <5>2. rt'.active = rt.active /\ rt'.history = rt.history /\ rt'.next_id = rt.next_id
          BY <5>1 DEF TypeOK, Runtimes
        <5> QED
          BY <5>1, <5>2, RowsKeptStill
      <4> QED
        BY <4>1, <4>2
    <3>3. CASE ShellNotify(c)
      <4>1. c.until \in Nat
        BY <3>1, <3>3, CommandFields DEF ShellNotify
      <4> QED
        BY <3>3, <4>1, RowsNotify DEF ShellNotify
    <3>4. CASE ShellNotifyRefused(c)
      BY <1>1, <3>4 DEF ShellNotifyRefused, given
    <3>5. CASE Close(c)
      BY <1>1, <3>5, RowsClose DEF Close, given, Reasons
    <3>6. CASE InvokeAction(c)
      BY <1>1, <3>6, RowsAct DEF InvokeAction, given
    <3> QED
      BY <2>1, <3>2, <3>3, <3>4, <3>5, <3>6 DEF Serve, c
  <2>2. CASE GoOn("svc")
    BY <1>1, <2>2 DEF GoOn, TakeSnapshot, SendState, SendEvents, given
  <2>3. CASE CloseTheActed
    BY <1>1, <2>3, RowsClose DEF CloseTheActed, given, Reasons
  <2>4. CASE ExpireNothing
    BY <1>1, <2>4 DEF ExpireNothing, given
  <2>5. CASE ExpireDue
    BY <2>5, RowsExpire DEF ExpireDue, given
  <2>6. ASSUME NEW written \in BOOLEAN, SendReply(written) PROVE RowsInv'
    BY <1>1, <2>6 DEF SendReply, given
  <2> QED
    BY <1>3, <2>1, <2>2, <2>3, <2>4, <2>5, <2>6 DEF Svc
<1>4. CASE Loop
  BY <1>1, <1>4 DEF Loop, AskClose, AskAction, AskEnabled, AskNotify, AskNothing, Request,
                    Command, ReplyTimeout, given
<1>5. CASE Tick
  BY <1>1, <1>5 DEF Tick, given
<1>6. CASE UNCHANGED vars
  BY <1>1, <1>6 DEF vars, given
<1> QED
  BY <1>2, <1>3, <1>4, <1>5, <1>6 DEF Next

\* The history has one row of every notification, unless it is full; a row is that of
\* the banner while there is one, and says so when it has gone (upsert_history, and the
\* calls of it in notify, invoke_action, close and expire_due).
THEOREM HistoryIsKept == Spec => []HistoryAgrees
<1> DEFINE Inv == TypeOK /\ EndsInv /\ RowsInv
<1>1. Init => Inv
  BY TypeInit, EndsInit, RowsInit
<1>2. Inv /\ [Next]_vars => Inv'
  <2>1. TypeOK /\ EndsInv /\ [Next]_vars => TypeOK' /\ EndsInv'
    BY TypeStep, EndsStep
  <2>2. EndsInv => BannersInv
    BY DEF EndsInv
  <2> QED
    BY <2>1, <2>2, RowsStep
<1>3. Inv => HistoryAgrees
  BY DEF RowsInv
<1> QED
  BY <1>1, <1>2, <1>3, PTL DEF Spec
=============================================================================
