--------------------------- MODULE Notifications ---------------------------
(***************************************************************************)
(* Notifications (notifications/mod.rs, state/tray_notifications.rs): the  *)
(* banners and their history behind a mutex that two threads take: "bus"   *)
(* serves org.freedesktop.Notifications, "svc" (run_notifications) takes   *)
(* the compositor's commands and lets banners expire. Each change is told  *)
(* to the compositor's loop with a snapshot, taken in a second lock        *)
(* section and sent after it: between the three the other thread may do    *)
(* the same, and nobody compares the revisions.                            *)
(*                                                                         *)
(* todo[t] is what is left of the handler thread t is in. A message counts *)
(* as received when it is sent: the channel keeps the order, and one loop  *)
(* reads it. Left out: texts and their limits, times other than expiry,    *)
(* GetState and what it answers, the event that an action was picked, a    *)
(* poisoned mutex, a session without a bus, ids beyond 2^32, and the page, *)
(* which is sent what the compositor receives.                             *)
(***************************************************************************)
EXTENDS Naturals, Sequences, FiniteSets

CONSTANTS
  HistoryLimit,   \* HISTORY_LIMIT
  MaxCalls,       \* bound: calls of Notify and commands of the compositor
  MaxQueue,       \* bound: commands svc has not received
  MaxClock        \* bound: the time at which the clock stops

ASSUME NotificationsAssumption ==
  /\ HistoryLimit \in Nat \ {0}
  /\ MaxCalls \in Nat /\ MaxQueue \in Nat /\ MaxClock \in Nat

VARIABLES
  now,
  rt,              \* NotificationsRuntime
  todo,            \* per thread, see above
  commands,        \* NotificationsCmd: from the compositor's loop to svc
  copy,            \* notifications_state_json, which the page is sent
  waiting,         \* <<the request whose reply the loop is blocked on>>, or <<>>
  saved,           \* `enabled` in the settings file
  unsaved,         \* history: the last change of the setting was not answered or written
  calls,           \* how many calls there were: they number the requests
  shown, muted,    \* history: ids that got a banner; that came while disabled
  told,            \* history: how often the end of an id went to the bus and the page
  newest           \* history: the highest revision sent to the loop

asking == <<waiting, saved, unsaved>>
given  == <<calls, shown, muted>>
vars   == <<now, rt, todo, commands, copy, asking, given, told, newest>>

Threads == {"bus", "svc"}
Ids     == 1 .. MaxCalls
Reasons == {"expired", "dismissed", "withdrawn"}   \* 1, 2 and 3

-----------------------------------------------------------------------------
(* NotificationsRuntime. `at` is the revision in which an entry was last   *)
(* put into the history, `until` its expires_at_ms, or 0.                  *)

Entries == [id : Nat, at : Nat, until : Nat, closed : Reasons \cup {"no"}]

ActiveIds(r)  == {a.id : a \in r.active}
Banner(r, id) == CHOOSE a \in r.active : a.id = id
Others(r, id) == {a \in r.active : a.id # id}
Due(r)        == {a \in r.active : a.until # 0 /\ a.until <= now}

\* Entries of one revision are put in front one by one, in the order of ids.
Newer(a, b) == a.at > b.at \/ (a.at = b.at /\ a.id > b.id)

\* Mutant: the row an entry had stays.
RecordedTwice(history, entries) ==
  LET all == history \cup entries
  IN  {row \in all : Cardinality({other \in all : Newer(other, row)}) < HistoryLimit}

\* upsert_history
Recorded(history, entries) ==
  LET all == {row \in history : \A e \in entries : e.id # row.id} \cup entries
  IN  {row \in all : Cardinality({other \in all : Newer(other, row)}) < HistoryLimit}

\* A change: the banners there are now, and what goes into the history.
Changed(r, active, entries) ==
  [r EXCEPT !.revision = @ + 1, !.active = active, !.history = Recorded(@, entries)]

\* next_notification_id
IdFor(r, replaces) == IF replaces \in ActiveIds(r) THEN replaces ELSE r.next_id

\* notify: while disabled, the history only.
Notified(r, replaces, until) ==
  LET id    == IdFor(r, replaces)
      entry == [id |-> id, at |-> r.revision + 1, until |-> until, closed |-> "no"]
  IN  Changed([r EXCEPT !.next_id = IF id = @ THEN @ + 1 ELSE @],
              IF r.enabled THEN Others(r, id) \cup {entry} ELSE r.active, {entry})

\* invoke_action
Acted(r, id) ==
  LET entry == [Banner(r, id) EXCEPT !.at = r.revision + 1]
  IN  Changed(r, Others(r, id) \cup {entry}, {entry})

\* close
Closed(r, id, why) ==
  Changed(r, Others(r, id), {[Banner(r, id) EXCEPT !.at = r.revision + 1, !.closed = why]})

\* expire_due
Expired(r) ==
  Changed(r, r.active \ Due(r),
          {[a EXCEPT !.at = r.revision + 1, !.closed = "expired"] : a \in Due(r)})

Snapshot(r) == [revision |-> r.revision, enabled |-> r.enabled,
                active |-> r.active, history |-> r.history]

New(on) == [enabled |-> on, revision |-> 1, next_id |-> 1, active |-> {}, history |-> {}]

-----------------------------------------------------------------------------
(* What a handler has left to do after its change.                         *)

Tell           == [do |-> "tell"]                    \* lock, and take a snapshot
Send(snap)     == [do |-> "send", snap |-> snap]     \* State
Announce(ids)  == [do |-> "announce", ids |-> ids]   \* Event, then NotificationClosed
CloseActed(id) == [do |-> "close acted", id |-> id]  \* the second half of InvokeAction
Reply(call)    == [do |-> "reply", call |-> call]
Expire         == [do |-> "expire"]

\* Mutant: nobody is sent the state in which the banners have expired.
EndingsUntold(ids) == <<Announce(ids)>>

Endings(ids) == <<Tell, Announce(ids)>>

Then(items) == todo' = [todo EXCEPT !["svc"] = items]

\* notify under the mutex, by either thread.
Notify(replaces, until) ==
  LET id == IdFor(rt, replaces)
  IN  /\ rt' = Notified(rt, replaces, until)
      /\ shown' = IF rt.enabled THEN shown \cup {id} ELSE shown
      /\ muted' = IF rt.enabled THEN muted ELSE muted \cup {id}

Untils == {0} \cup ({now + 1} \cap (1 .. MaxClock))

Init ==
  /\ \E on \in BOOLEAN : rt = New(on) /\ copy = Snapshot(New(on)) /\ saved = on
  /\ todo = [t \in Threads |-> IF t = "svc" THEN <<Tell>> ELSE <<>>]
  /\ commands = <<>>
  /\ waiting = <<>> /\ unsaved = FALSE
  /\ now = 0 /\ calls = 0
  /\ shown = {} /\ muted = {} /\ told = [id \in Ids |-> 0]
  /\ newest = 1

-----------------------------------------------------------------------------
(* The bus thread serves one call after the other.                         *)

BusNotify(replaces, until) ==
  /\ todo["bus"] = <<>>
  /\ calls < MaxCalls /\ calls' = calls + 1
  /\ Notify(replaces, until)
  /\ todo' = [todo EXCEPT !["bus"] = <<Tell>>]
  /\ UNCHANGED <<now, commands, copy, asking, told, newest>>

\* CloseNotification; for an id without a banner it does nothing.
BusClose(id) ==
  /\ todo["bus"] = <<>>
  /\ id \in ActiveIds(rt)
  /\ rt' = Closed(rt, id, "withdrawn")
  /\ todo' = [todo EXCEPT !["bus"] = Endings({id})]
  /\ UNCHANGED <<now, commands, copy, asking, given, told, newest>>

-----------------------------------------------------------------------------
(* run_notifications: a command, or 200 ms without one, then expire_due.   *)

Receive == todo["svc"] = <<>> /\ commands' = Tail(commands)

SetEnabled(c) ==
  /\ Receive /\ c.do = "enable"
  /\ IF rt.enabled = c.on
     THEN rt' = rt /\ Then(<<Reply(c.call), Expire>>)
     ELSE /\ rt' = [rt EXCEPT !.enabled = c.on, !.revision = @ + 1]
          /\ Then(<<Tell, Reply(c.call), Expire>>)
  /\ UNCHANGED <<now, copy, asking, given, told, newest>>

ShellNotify(c) ==
  /\ Receive /\ c.do = "notify"
  /\ Notify(0, c.until)
  /\ Then(<<Tell, Reply(c.call), Expire>>)
  /\ UNCHANGED <<now, copy, asking, calls, told, newest>>

\* A request without a summary: `continue`, past expire_due.
ShellNotifyRefused(c) ==
  /\ Receive /\ c.do = "notify nothing"
  /\ Then(<<Reply(c.call)>>)
  /\ UNCHANGED <<now, rt, copy, asking, given, told, newest>>

Close(c) ==
  /\ Receive /\ c.do = "close"
  /\ IF c.id \in ActiveIds(rt)
     THEN rt' = Closed(rt, c.id, "dismissed") /\ Then(Append(Endings({c.id}), Expire))
     ELSE rt' = rt /\ Then(<<Expire>>)
  /\ UNCHANGED <<now, copy, asking, given, told, newest>>

InvokeAction(c) ==
  /\ Receive /\ c.do = "act"
  /\ IF c.id \in ActiveIds(rt)
     THEN rt' = Acted(rt, c.id) /\ Then(<<Tell, CloseActed(c.id), Expire>>)
     ELSE rt' = rt /\ Then(<<CloseActed(c.id), Expire>>)
  /\ UNCHANGED <<now, copy, asking, given, told, newest>>

-----------------------------------------------------------------------------
(* What the handlers have left.                                            *)

Doing(t, do) == todo[t] # <<>> /\ Head(todo[t]).do = do
Done(t)      == todo' = [todo EXCEPT ![t] = Tail(@)]

TakeSnapshot(t) ==
  /\ Doing(t, "tell")
  /\ todo' = [todo EXCEPT ![t] = <<Send(Snapshot(rt))>> \o Tail(@)]
  /\ UNCHANGED <<now, rt, commands, copy, asking, given, told, newest>>

\* update_notifications_state_json takes whatever comes.
SendState(t) ==
  /\ Doing(t, "send") /\ Done(t)
  /\ LET snap == Head(todo[t]).snap
     IN  /\ copy' = snap
         /\ newest' = IF snap.revision < newest THEN newest ELSE snap.revision
  /\ UNCHANGED <<now, rt, commands, asking, given, told>>

\* The ends of one change; the order among them is that of the ids.
SendEvents(t) ==
  /\ Doing(t, "announce") /\ Done(t)
  /\ told' = [id \in Ids |-> IF id \in Head(todo[t]).ids THEN told[id] + 1 ELSE told[id]]
  /\ UNCHANGED <<now, rt, commands, copy, asking, given, newest>>

\* Mutant: the end is told whether or not there still was a banner.
CloseTheActedAnyway ==
  /\ Doing("svc", "close acted")
  /\ LET id == Head(todo["svc"]).id
     IN  /\ rt' = IF id \in ActiveIds(rt) THEN Closed(rt, id, "dismissed") ELSE rt
         /\ Then(Endings({id}) \o Tail(todo["svc"]))
  /\ UNCHANGED <<now, commands, copy, asking, given, told, newest>>

\* The banner may have gone since its action was invoked, or have been replaced.
CloseTheActed ==
  /\ Doing("svc", "close acted")
  /\ LET id == Head(todo["svc"]).id
     IN  IF id \in ActiveIds(rt)
         THEN /\ rt' = Closed(rt, id, "dismissed")
              /\ Then(Endings({id}) \o Tail(todo["svc"]))
         ELSE rt' = rt /\ Then(Tail(todo["svc"]))
  /\ UNCHANGED <<now, commands, copy, asking, given, told, newest>>

\* A reply in time lets the loop go on: it writes the setting, which may fail. A late
\* one is dropped.
SendReply(written) ==
  /\ Doing("svc", "reply") /\ Done("svc")
  /\ IF waiting # <<>> /\ waiting[1].call = Head(todo["svc"]).call
     THEN /\ waiting' = <<>>
          /\ IF waiting[1].do = "enable"
             THEN /\ saved' = IF written THEN waiting[1].on ELSE saved
                  /\ unsaved' = ~written
             ELSE UNCHANGED <<saved, unsaved>>
     ELSE UNCHANGED <<waiting, saved, unsaved>>
  /\ UNCHANGED <<now, rt, commands, copy, given, told, newest>>

ExpireNothing ==
  /\ Doing("svc", "expire") /\ Done("svc")
  /\ Due(rt) = {}
  /\ UNCHANGED <<now, rt, commands, copy, asking, given, told, newest>>

\* Mutant: banners expire after a command only.
ExpireDueBusy ==
  /\ Doing("svc", "expire")
  /\ Due(rt) # {}
  /\ rt' = Expired(rt)
  /\ Then(Endings({a.id : a \in Due(rt)}))
  /\ UNCHANGED <<now, commands, copy, asking, given, told, newest>>

\* After a command, or after 200 ms without one.
ExpireDue ==
  /\ Doing("svc", "expire") \/ (todo["svc"] = <<>> /\ commands = <<>>)
  /\ Due(rt) # {}
  /\ rt' = Expired(rt)
  /\ Then(Endings({a.id : a \in Due(rt)}))
  /\ UNCHANGED <<now, commands, copy, asking, given, told, newest>>

-----------------------------------------------------------------------------
(* The compositor's loop.                                                  *)

Command(c) ==
  /\ waiting = <<>> /\ Len(commands) < MaxQueue
  /\ calls < MaxCalls /\ calls' = calls + 1
  /\ commands' = Append(commands, c)
  /\ UNCHANGED <<now, rt, todo, copy, saved, unsaved, shown, muted, told, newest>>

\* The page closes a banner, or picks one of its actions.
AskClose(id)  == id \in ActiveIds(copy) /\ Command([do |-> "close", id |-> id]) /\ UNCHANGED waiting
AskAction(id) == id \in ActiveIds(copy) /\ Command([do |-> "act", id |-> id]) /\ UNCHANGED waiting

\* Requests for whose reply the loop stops, two seconds at most.
Request(c)       == Command(c) /\ waiting' = <<c>>
AskEnabled(on)   == Request([do |-> "enable", on |-> on, call |-> calls])
AskNotify(until) == Request([do |-> "notify", until |-> until, call |-> calls])
AskNothing       == Request([do |-> "notify nothing", call |-> calls])

ReplyTimeout ==
  /\ waiting # <<>>
  /\ waiting' = <<>>
  /\ unsaved' = (unsaved \/ waiting[1].do = "enable")
  /\ UNCHANGED <<now, rt, todo, commands, copy, saved, given, told, newest>>

Tick ==
  /\ now < MaxClock /\ now' = now + 1
  /\ UNCHANGED <<rt, todo, commands, copy, asking, given, told, newest>>

-----------------------------------------------------------------------------
GoOn(t) == TakeSnapshot(t) \/ SendState(t) \/ SendEvents(t)

Bus ==
  \/ \E replaces \in Ids \cup {0}, until \in Untils : BusNotify(replaces, until)
  \/ \E id \in Ids : BusClose(id)
  \/ GoOn("bus")

Serve(c) ==
  SetEnabled(c) \/ ShellNotify(c) \/ ShellNotifyRefused(c) \/ Close(c) \/ InvokeAction(c)

Svc ==
  \/ commands # <<>> /\ Serve(Head(commands))
  \/ GoOn("svc") \/ CloseTheActed \/ ExpireNothing \/ ExpireDue
  \/ \E written \in BOOLEAN : SendReply(written)

Loop ==
  \/ \E id \in Ids : AskClose(id) \/ AskAction(id)
  \/ \E on \in BOOLEAN : AskEnabled(on)
  \/ \E until \in Untils : AskNotify(until)
  \/ AskNothing
  \/ ReplyTimeout

Next == Bus \/ Svc \/ Loop \/ Tick

\* The service's thread goes on.
Spec == Init /\ [][Next]_vars /\ WF_vars(Svc)

-----------------------------------------------------------------------------
(* Types.                                                                  *)

Runtimes  == [enabled : BOOLEAN, revision : Nat, next_id : Nat, active : SUBSET Entries,
              history : SUBSET Entries]
Snapshots == [revision : Nat, enabled : BOOLEAN, active : SUBSET Entries,
              history : SUBSET Entries]
Items ==
  {Tell, Expire} \cup [do : {"send"}, snap : Snapshots] \cup [do : {"announce"}, ids : SUBSET Nat]
  \cup [do : {"close acted"}, id : Nat] \cup [do : {"reply"}, call : Nat]
Requests ==
  [do : {"enable"}, on : BOOLEAN, call : Nat] \cup [do : {"notify"}, until : Nat, call : Nat]
  \cup [do : {"notify nothing"}, call : Nat]
Commands == Requests \cup [do : {"close", "act"}, id : Nat]
TypeOK ==
  /\ now \in Nat /\ calls \in Nat /\ newest \in Nat
  /\ rt \in Runtimes
  /\ todo \in [Threads -> Seq(Items)]
  /\ commands \in Seq(Commands)
  /\ copy \in Snapshots
  /\ waiting \in Seq(Requests)
  /\ saved \in BOOLEAN /\ unsaved \in BOOLEAN
  /\ shown \subseteq Nat /\ muted \subseteq Nat
  /\ told \in [Ids -> Nat]

(* The loop agrees with the runtime. When nobody has anything left to do,  *)
(* the copy the page is sent is the runtime's state, unless the two        *)
(* threads' messages overtook each other; and the settings file has what   *)
(* the runtime does, unless its last change was not answered in time or    *)
(* could not be written.                                                   *)
Idle == (\A t \in Threads : todo[t] = <<>>) /\ commands = <<>> /\ waiting = <<>>
CopyIsCurrent == Idle /\ copy.revision = newest => copy = Snapshot(rt)
SettingAgrees == waiting = <<>> /\ ~unsaved => saved = rt.enabled
LoopAgrees == CopyIsCurrent /\ SettingAgrees

(* The end of every banner is told once to the bus and to the page, and    *)
(* no end is told of a banner that is still there or never was, although   *)
(* expiry, CloseNotification, the page's button and an action may all end  *)
(* it, some of them between two halves of another.                         *)
Owed(t, id) ==
  Cardinality({i \in DOMAIN todo[t] : todo[t][i].do = "announce" /\ id \in todo[t][i].ids})
EndsToldOnce ==
  \A id \in Ids :
    told[id] + Owed("bus", id) + Owed("svc", id)
      = IF id \in shown /\ id \notin ActiveIds(rt) THEN 1 ELSE 0

(* The history has one row of every notification, unless it is full; a row *)
(* is that of the banner while there is one, and says so when it has gone, *)
(* but for notifications that came while banners were disabled.            *)
Row(id) == {row \in rt.history : row.id = id}
HistoryAgrees ==
  \A id \in 1 .. rt.next_id - 1 :
    /\ Row(id) = {} => Cardinality(rt.history) = HistoryLimit
    /\ \A row, other \in Row(id) : row = other
    /\ \A row \in Row(id) :
         /\ row.closed # "no" => id \notin ActiveIds(rt)
         /\ row.closed = "no" => id \in ActiveIds(rt) \cup muted
         /\ id \in ActiveIds(rt) \ muted => row = Banner(rt, id)

(* A banner whose time is over leaves, whatever commands come.             *)
OverdueLeave == Due(rt) # {} ~> Due(rt) = {}

(* "wait for notification dismiss close", "wait for shell notification     *)
(* action to close toast" (shell/e2e/specs/notifications.spec.ts): once    *)
(* everything is done, the page shows no banner the runtime has closed.    *)
DismissedIsGone == Idle => ActiveIds(copy) \subseteq ActiveIds(rt)
=============================================================================
