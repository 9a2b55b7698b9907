--------------------------- MODULE WorkspaceModel ---------------------------
(***************************************************************************)
(* Which windows are tabs of which group: WorkspaceState, its mutations    *)
(* (session/workspace_model.rs), and the handlers of the compositor that   *)
(* apply them and keep the state in step with the window registry          *)
(* (state/workspace_session.rs, state/workspace.rs).                       *)
(*                                                                         *)
(* A group's id "group-7" is the number 7; a split is its left window; the *)
(* pinned windows are a set, their order is never looked at. The split's   *)
(* fraction, tiles, layouts and geometry are left out, and so is what a    *)
(* custom automatic layout decides by: which groups overflow its slots is  *)
(* open. The ids and the anchors (target_window_id) of a request resolve   *)
(* to an id: requests are enumerated resolved, as those that resolve to no *)
(* group change nothing. All of this runs on the compositor's thread, so a *)
(* handler is one step.                                                    *)
(***************************************************************************)
EXTENDS Integers, Sequences, FiniteSets, TLC, SequencesExt, FiniteSetsExt

CONSTANTS
  Windows,     \* window ids, which are ordered
  Sessions,    \* saved sessions that may be restored
  CustomAutos, \* whether some output has a custom automatic layout: what to look at
  MaxSeq       \* bound: next_group_seq, and with it the groups ever made

Session == [groups : Seq([id : Nat, windows : Seq(Windows), active : Windows,
                          left : Windows \cup {0}]),
            pinned : SUBSET Windows, next_group_seq : Nat]

\* What sessionRuntime.ts saves is one consistent state of the workspace.
ASSUME SessionsAssumption ==
  \A s \in Sessions :
    /\ s \in Session
    /\ \A i \in DOMAIN s.groups :
         /\ s.groups[i].id \in 1 .. s.next_group_seq - 1
         /\ IsInjective(s.groups[i].windows)
         /\ s.groups[i].active \in ToSet(s.groups[i].windows)
         /\ \A j \in DOMAIN s.groups \ {i} :
              /\ s.groups[i].id # s.groups[j].id
              /\ ToSet(s.groups[i].windows) \cap ToSet(s.groups[j].windows) = {}
    /\ s.pinned \subseteq UNION {ToSet(g.windows) : g \in ToSet(s.groups)}
ASSUME WorkspaceAssumption ==
  Windows \subseteq Nat \ {0} /\ CustomAutos \subseteq BOOLEAN /\ MaxSeq \in Nat \ {0}

VARIABLES
  ws,          \* workspace_state
  registered,  \* the window registry
  hidden,      \* registered, and not listed: scratchpads, tray, deferred maps
  custom_auto, \* some output has a custom automatic layout
  request      \* history: the windows the last handler was about, and the one it activated

vars == <<ws, registered, hidden, custom_auto, request>>

Listed == registered \ hidden     \* workspace_live_window_ids

Init ==
  /\ ws = [groups |-> <<>>, active |-> [g \in {} |-> 0], pinned |-> {},
           left |-> [g \in {} |-> 0], next_group_seq |-> 1]
  /\ registered = {} /\ hidden = {}
  /\ custom_auto \in CustomAutos
  /\ request = [about |-> {}, activated |-> 0]

-----------------------------------------------------------------------------
(* Looking things up. The code searches for the first group, and so here.  *)

Sorted(S) ==
  [i \in 1 .. Cardinality(S) |-> CHOOSE w \in S : Cardinality({v \in S : v < w}) = i - 1]

\* What is left of q when only the members of S are kept, and without w.
Kept(q, S) ==
  LET at == Sorted({i \in DOMAIN q : q[i] \in S}) IN [k \in DOMAIN at |-> q[at[k]]]
Rest(tabs, w) == Kept(tabs, Windows \ {w})

\* The place of the first member of S in q.
FirstIn(q, S) == CHOOSE i \in DOMAIN q : q[i] \in S /\ \A j \in 1 .. i - 1 : q[j] \notin S

Ids(s)        == {g.id : g \in ToSet(s.groups)}
TabsOf(groups) == UNION {ToSet(g.windows) : g \in ToSet(groups)}
AllWindows(s) == TabsOf(s.groups)
Place(s, id)  == FirstIn(s.groups, {g \in ToSet(s.groups) : g.id = id})
Group(s, id)  == s.groups[Place(s, id)]
Tabs(s, id)   == Group(s, id).windows

\* group_id_for_window
GroupOf(s, w) ==
  s.groups[FirstIn(s.groups, {g \in ToSet(s.groups) : Contains(g.windows, w)})].id

\* normalized_requested_active_window_id: the left pane is never the active tab.
Normalized(s, id, w) ==
  LET rest == Rest(Tabs(s, id), w)
  IN  IF id \in DOMAIN s.left /\ s.left[id] = w /\ rest # <<>> THEN rest[1] ELSE w

ActiveTab(s, id) == IF id \in DOMAIN s.active THEN s.active[id] ELSE Tabs(s, id)[1]

\* visible_window_id_for_group
Visible(s, id) == Normalized(s, id, ActiveTab(s, id))

-----------------------------------------------------------------------------
(* Small edits.                                                            *)

With(f, id, x)      == [i \in DOMAIN f \cup {id} |-> IF i = id THEN x ELSE f[i]]
Without(f, id)      == Restrict(f, DOMAIN f \ {id})
WithoutSplit(s, id) == [s EXCEPT !.left = Without(@, id)]
DropGroup(s, id)    == [s EXCEPT !.groups = Kept(@, {g \in ToSet(@) : g.id # id}),
                                 !.active = Without(@, id), !.left = Without(@, id)]
SetTabs(s, id, tabs) == [s EXCEPT !.groups[Place(s, id)].windows = tabs]
SetActive(s, id, w) == [s EXCEPT !.active = With(@, id, w)]

\* leading_pinned_window_count
LeadingPinned(pinned, tabs) ==
  Min({n \in 0 .. Len(tabs) : n < Len(tabs) => tabs[n + 1] \notin pinned})

\* Mutant: an unpinned tab may be inserted anywhere.
InsertUnclamped(pinned, tabs, w, index) ==
  LET rest == Rest(tabs, w)
  IN  InsertAt(rest, 1 + IF w \in pinned THEN Min({index, LeadingPinned(pinned, rest)})
                         ELSE Min({index, Len(rest)}), w)

\* insert_into_group: pinned tabs stay in front. The index counts from zero.
InsertIntoGroup(pinned, tabs, w, index) ==
  LET rest == Rest(tabs, w)
      lead == LeadingPinned(pinned, rest)
  IN  InsertAt(rest, 1 + IF w \in pinned THEN Min({index, lead})
                         ELSE Min({Max({index, lead}), Len(rest)}), w)

\* The windows one after the other, each a place further.
InsertAll(pinned, tabs, windows, index) ==
  LET run[i \in 0 .. Len(windows)] ==
        IF i = 0 THEN tabs
        ELSE InsertIntoGroup(pinned, run[i - 1], windows[i], index + i - 1)
  IN  run[Len(windows)]

\* The groups whose split has a left tab and another tab.
SplitIds(s) ==
  {id \in Ids(s) \cap DOMAIN s.left :
     Contains(Tabs(s, id), s.left[id]) /\ Rest(Tabs(s, id), s.left[id]) # <<>>}

\* Mutant: a split is kept whose left window is active.
ValidSplitsAnyActive(s) == [s EXCEPT !.left = Restrict(@, SplitIds(s))]

\* ensure_valid_split_state: a split has a left tab, another tab, and an active
\* tab on the right.
ValidSplits(s) ==
  LET right(id) == Rest(Tabs(s, id), s.left[id])
      wrong     == {id \in SplitIds(s) : ~Contains(right(id), ActiveTab(s, id))}
  IN  [s EXCEPT
        !.left = Restrict(@, SplitIds(s)),
        !.active = [id \in DOMAIN @ \cup wrong |-> IF id \in wrong THEN right(id)[1] ELSE @[id]]]

\* Mutant: the last tab takes the place of the one that leaves.
TakeOutSwapping(s, w) ==
  LET id   == GroupOf(s, w)
      tabs == Tabs(s, id)
      rest == Front([tabs EXCEPT ![FirstIn(tabs, {w})] = Last(tabs)])
  IN  IF rest = <<>> THEN DropGroup(s, id)
      ELSE SetActive(SetTabs(s, id, rest), id,
                     IF id \in DOMAIN s.active /\ Contains(rest, s.active[id])
                     THEN s.active[id] ELSE rest[1])

\* A window leaves its group; a group left empty goes, and an active tab that
\* left is followed by the first.
TakeOut(s, w) ==
  LET id == GroupOf(s, w)
      rest == Rest(Tabs(s, id), w)
  IN  IF rest = <<>> THEN DropGroup(s, id)
      ELSE SetActive(SetTabs(s, id, rest), id,
                     IF id \in DOMAIN s.active /\ Contains(rest, s.active[id])
                     THEN s.active[id] ELSE rest[1])

-----------------------------------------------------------------------------
(* reconcile_workspace_state: windows that are gone leave, new ones get a  *)
(* group each, in the order of their ids.                                  *)

\* A window is a tab of the first group that claims it.
ClaimLive(groups, live) ==
  LET claimed == [i \in DOMAIN groups |->
                    [groups[i] EXCEPT !.windows =
                       Kept(@, {w \in live : \A j \in 1 .. i - 1 :
                                               ~Contains(groups[j].windows, w)})]]
  IN  Kept(claimed, {g \in ToSet(claimed) : g.windows # <<>>})

\* Mutant: the sequence is not looked at again for the next group.
GroupsOfOneSameSeq(windows, seq) ==
  [i \in DOMAIN windows |-> [id |-> seq, windows |-> <<windows[i]>>]]

GroupsOfOne(windows, seq) ==
  [i \in DOMAIN windows |-> [id |-> seq + i - 1, windows |-> <<windows[i]>>]]

StillActive(active, g) ==
  IF g.id \in DOMAIN active /\ Contains(g.windows, active[g.id])
  THEN active[g.id] ELSE g.windows[1]

Reconcile(s, live) ==
  LET kept   == ClaimLive(s.groups, live)
      fresh  == Sorted(live \ TabsOf(kept))
      groups == kept \o GroupsOfOne(fresh, s.next_group_seq)
      next   == [s EXCEPT !.groups = groups, !.pinned = @ \cap live,
                          !.next_group_seq = @ + Len(fresh)]
  IN  ValidSplits([next EXCEPT
        !.active = [id \in Ids(next) |-> StillActive(s.active, Group(next, id))]])

-----------------------------------------------------------------------------
(* WorkspaceState::apply_mutation. What changes nothing gives s itself.    *)

SelectTab(s, id, w) ==
  IF Contains(Tabs(s, id), w) THEN SetActive(s, id, Normalized(s, id, w)) ELSE s

MoveWindowToGroup(s, w, target, index) ==
  LET tabs == InsertIntoGroup(s.pinned, Tabs(s, target), w, index)
  IN  IF GroupOf(s, w) = target THEN SetTabs(s, target, tabs)
      ELSE ValidSplits(SetActive(WithoutSplit(SetTabs(TakeOut(s, w), target, tabs), target),
                                 target, w))

\* The pinned tabs go to the pinned ones, the others behind them.
MoveGroupToGroup(s, source, target, index) ==
  LET tabs     == Tabs(s, target)
      pinned   == Kept(Tabs(s, source), s.pinned)
      unpinned == Kept(Tabs(s, source), Windows \ s.pinned)
      at       == Min({index, Len(tabs)})
      led      == InsertAll(s.pinned, tabs, pinned, Min({at, LeadingPinned(s.pinned, tabs)}))
      behind   == Max({at + Len(pinned), LeadingPinned(s.pinned, led)})
  IN  IF source = target THEN s
      ELSE ValidSplits(SetActive(
             WithoutSplit(DropGroup(SetTabs(s, target, InsertAll(s.pinned, led, unpinned, behind)),
                                    source),
                          target),
             target, Visible(s, source)))

SplitWindowToOwnGroup(s, w) ==
  LET id    == GroupOf(s, w)
      place == Place(s, id) + 1
      out   == TakeOut(s, w)
  IN  IF Len(Tabs(s, id)) < 2 THEN s
      ELSE ValidSplits(SetActive(
             [out EXCEPT !.groups = InsertAt(@, place, [id |-> s.next_group_seq, windows |-> <<w>>]),
                         !.next_group_seq = @ + 1],
             s.next_group_seq, w))

SetWindowPinned(s, w, pin) ==
  LET pinned == IF pin THEN s.pinned \cup {w} ELSE s.pinned \ {w}
      rest   == Rest(Tabs(s, GroupOf(s, w)), w)
  IN  IF pin = (w \in s.pinned) THEN s
      ELSE [SetTabs(s, GroupOf(s, w), InsertAt(rest, LeadingPinned(pinned, rest) + 1, w))
            EXCEPT !.pinned = pinned]

EnterSplit(s, id, w) ==
  IF Contains(Tabs(s, id), w) /\ Rest(Tabs(s, id), w) # <<>>
  THEN ValidSplits([s EXCEPT !.left = With(@, id, w)])
  ELSE s

\* next_unique_workspace_group_id
UniqueId(s) == CHOOSE n \in s.next_group_seq .. s.next_group_seq + Len(s.groups) :
                 n \notin Ids(s) /\ \A i \in s.next_group_seq .. n - 1 : i \in Ids(s)

\* One group of a session, or of the current state, joins what is restored.
Adopt(s, g, live) ==
  LET tabs  == Kept(g.windows, live \ AllWindows(s))
      taken == g.id \in Ids(s)
      id    == IF taken THEN UniqueId(s) ELSE g.id
  IN  IF tabs = <<>> THEN s
      ELSE [s EXCEPT
             !.groups = Append(@, [id |-> id, windows |-> tabs]),
             !.active = With(@, id, IF Contains(tabs, g.active) THEN g.active ELSE tabs[1]),
             !.left = IF Contains(tabs, g.left) /\ Len(tabs) > 1 THEN With(@, id, g.left) ELSE @,
             !.next_group_seq = IF taken THEN id + 1 ELSE @]

\* The groups of a list, one after the other.
Adopted(s, list, live) ==
  LET run[i \in 0 .. Len(list)] == IF i = 0 THEN s ELSE Adopt(run[i - 1], list[i], live)
  IN  run[Len(list)]

\* The current groups, each with its active and its left window.
AsSession(s) ==
  [i \in DOMAIN s.groups |->
     LET g == s.groups[i]
     IN  [id |-> g.id, windows |-> g.windows, active |-> ActiveTab(s, g.id),
          left |-> IF g.id \in DOMAIN s.left THEN s.left[g.id] ELSE 0]]

\* Mutant: the sequence of the session is ignored.
RestoreIgnoresSeq(s, session) ==
  LET live  == AllWindows(s)
      empty == [s EXCEPT !.groups = <<>>, !.active = [g \in {} |-> 0],
                         !.left = [g \in {} |-> 0]]
      groups == Adopted(empty, session.groups \o AsSession(s), live)
      theirs == UNION {ToSet(g.windows) : g \in ToSet(session.groups)}
  IN  Reconcile([groups EXCEPT !.pinned = (@ \ theirs) \cup (session.pinned \cap live)], live)

\* restore_session_workspace_state
Restore(s, session) ==
  LET live  == AllWindows(s)
      empty == [s EXCEPT !.groups = <<>>, !.active = [g \in {} |-> 0],
                         !.left = [g \in {} |-> 0],
                         !.next_group_seq = Max({@, session.next_group_seq, 1}
                                                \cup {id + 1 : id \in Ids(s)})]
      groups == Adopted(empty, session.groups \o AsSession(s), live)
      theirs == UNION {ToSet(g.windows) : g \in ToSet(session.groups)}
  IN  Reconcile([groups EXCEPT !.pinned = (@ \ theirs) \cup (session.pinned \cap live)], live)

\* next_active_window_after_removal: in a split the first tab on the right, else
\* the one behind the tab that goes.
NextAfterRemoval(s, id, w) ==
  LET rest  == Rest(Tabs(s, id), w)
      right == IF id \in DOMAIN s.left THEN Rest(rest, s.left[id]) ELSE <<>>
      place == FirstIn(Tabs(s, id), {w})
  IN  IF right # <<>> THEN right[1] ELSE rest[Min({place, Len(rest)})]

-----------------------------------------------------------------------------
(* What handlers do to the state besides.                                  *)

\* workspace_select_window_tab_for_focus: keyboard focus brings a tab to front.
SelectForFocus(s, w, live) ==
  IF w \notin AllWindows(s) \/ Visible(s, GroupOf(s, w)) = w THEN s
  ELSE Reconcile(SelectTab(s, GroupOf(s, w), w), live)

\* Mutant: the entries of the group that goes are kept.
MergeLeavesEntries(s, source, target) ==
  LET tabs == SetTabs(s, target, Tabs(s, target) \o Tabs(s, source))
  IN  WithoutSplit(
        SetActive([tabs EXCEPT !.groups = Kept(@, {g \in ToSet(@) : g.id # source})],
                  target, Visible(s, source)),
        target)

\* workspace_merge_group_into_group: tabs are appended, pinned or not.
Merge(s, source, target) ==
  WithoutSplit(
    SetActive(DropGroup(SetTabs(s, target, Tabs(s, target) \o Tabs(s, source)), source),
              target, Visible(s, source)),
    target)

\* A custom automatic layout with fewer slots than groups merges those that
\* overflow into the group of one slot; in other cases none does.
Overflows(s) ==
  {[into |-> 0, groups |-> {}]} \cup
  {o \in [into : Ids(s), groups : SUBSET Ids(s) \ {{}}] : custom_auto /\ o.into \notin o.groups}

AutoLayout(s, overflow) ==
  LET run[i \in 0 .. Len(s.groups)] ==
        IF i = 0 THEN s
        ELSE IF s.groups[i].id \in overflow.groups
             THEN Merge(run[i - 1], s.groups[i].id, overflow.into)
             ELSE run[i - 1]
  IN  run[Len(s.groups)]

\* The end of a handler: what it leaves of the state, and what it was about.
Finish(s, windows, activated) ==
  /\ s.next_group_seq <= MaxSeq
  /\ ws' = s
  /\ UNCHANGED custom_auto
  /\ request' = [about |-> windows, activated |-> activated]

FinishLaidOut(s, windows) ==
  \E overflow \in Overflows(s) :
    Finish(AutoLayout(s, overflow),
           windows \cup UNION {ToSet(Tabs(s, id)) : id \in overflow.groups}, 0)

-----------------------------------------------------------------------------
(* The window registry changes.                                            *)

\* A toplevel is known before its first map: it is not listed, and not told of.
Register(w) ==
  /\ w \notin registered
  /\ registered' = registered \cup {w}
  /\ hidden' = hidden \cup {w}
  /\ UNCHANGED <<ws, custom_auto, request>>

\* WindowMapped, a scratchpad or a tray window shown as a window again.
Show(w) ==
  /\ w \in hidden
  /\ hidden' = hidden \ {w}
  /\ UNCHANGED registered
  /\ FinishLaidOut(Reconcile(ws, Listed \cup {w}), {w})

\* A window becomes a scratchpad, or goes to the tray.
Hide(w) ==
  /\ w \in Listed
  /\ hidden' = hidden \cup {w}
  /\ UNCHANGED registered
  /\ FinishLaidOut(Reconcile(ws, Listed \ {w}), {w})

Forget(w) == registered' = registered \ {w} /\ hidden' = hidden \ {w}

\* A window the shell hosts is closed, and then another focused. When
\* workspace_apply_close_side_effects looks for the window's group, the window
\* list has been sent and the window is in none: nothing more is activated.
CloseHosted(w) ==
  /\ w \in Listed
  /\ Forget(w)
  /\ LET live == Listed \ {w}
         s    == Reconcile(ws, live)
     IN  \E target \in live \cup {0} : Finish(SelectForFocus(s, target, live), {w, target}, 0)

\* Mutant: the state is synchronised before the window leaves the registry.
DestroyDeferredSyncedFirst(w) ==
  /\ w \in hidden
  /\ Forget(w)
  /\ Finish(Reconcile(ws, registered), {w} \cup hidden, 0)

\* toplevel_destroyed of a window that was never mapped: every window of the
\* registry is taken for listed, until the next synchronisation.
DestroyDeferred(w) ==
  /\ w \in hidden
  /\ Forget(w)
  /\ Finish(Reconcile(ws, registered \ {w}), {w} \cup hidden, 0)

\* toplevel_destroyed of any other: the synchronisation with the unmap follows,
\* the layout, and the focus of another window.
Destroy(w) ==
  /\ w \in registered
  /\ Forget(w)
  /\ LET live == Listed \ {w}
         s    == Reconcile(Reconcile(ws, registered \ {w}), live)
     IN  \E overflow \in Overflows(s), target \in live \cup {0} :
           Finish(SelectForFocus(AutoLayout(s, overflow), target, live),
                  {w, target} \cup UNION {ToSet(Tabs(s, id)) : id \in overflow.groups}, 0)

\* shell_move_end of a window that lost its surface: here too every window of
\* the registry is taken for listed, and nothing is sent.
MoveEndSurfaceless ==
  /\ UNCHANGED <<registered, hidden>>
  /\ Finish(Reconcile(ws, registered), hidden, 0)

-----------------------------------------------------------------------------
(* Requests and focus.                                                     *)

\* workspace_sync_from_registry, with every window list that is sent, and then
\* the layout of an output whose work area or windows changed.
Sync ==
  /\ UNCHANGED <<registered, hidden>>
  /\ FinishLaidOut(Reconcile(ws, Listed), {})

\* A left pane that is asked for selects the first tab on the right instead.
AskedFor(s, w) ==
  IF w \in AllWindows(s) THEN {w, Normalized(s, GroupOf(s, w), w)} ELSE {w}

Focus(w) ==
  /\ UNCHANGED <<registered, hidden>>
  /\ LET s == Reconcile(ws, Listed)
     IN  Finish(SelectForFocus(s, w, Listed), AskedFor(s, w), 0)

\* apply_workspace_mutation_json, after the sync: a mutation that changes
\* something is reconciled, and the window it activates is focused.
Apply(s, next, windows, activated) ==
  /\ UNCHANGED <<registered, hidden>>
  /\ IF next = s THEN Finish(s, windows, 0)
     ELSE Finish(SelectForFocus(Reconcile(next, Listed), activated, Listed), windows, activated)

ApplySelectTab(s) ==
  \E id \in Ids(s) : \E w \in ToSet(Tabs(s, id)) :
    LET next == SelectTab(s, id, w)
    IN  Apply(s, next, AskedFor(s, w),
              IF Visible(next, id) = Visible(s, id) THEN 0 ELSE Visible(next, id))

ApplyMoveWindow(s) ==
  \E w \in AllWindows(s), target \in Ids(s) : \E index \in 0 .. Len(Tabs(s, target)) :
    Apply(s, MoveWindowToGroup(s, w, target, index), {w},
          IF GroupOf(s, w) = target THEN 0 ELSE w)

ApplyMoveGroup(s) ==
  \E source, target \in Ids(s) : \E index \in 0 .. Len(Tabs(s, target)) :
    Apply(s, MoveGroupToGroup(s, source, target, index), ToSet(Tabs(s, source)),
          Visible(s, source))

ApplySplitWindow(s) ==
  \E w \in AllWindows(s) : Apply(s, SplitWindowToOwnGroup(s, w), {w}, w)

ApplyPin(s) ==
  \E w \in AllWindows(s), pin \in BOOLEAN : Apply(s, SetWindowPinned(s, w, pin), {w}, 0)

ApplyEnterSplit(s) ==
  \E id \in Ids(s) : \E w \in ToSet(Tabs(s, id)) :
    LET next == EnterSplit(s, id, w)
    IN  Apply(s, next, {w}, Visible(next, id))

ApplyExitSplit(s) ==
  \E id \in DOMAIN s.left :
    Apply(s, WithoutSplit(s, id), ToSet(Tabs(s, id)), Visible(WithoutSplit(s, id), id))

ApplyRestore(s) ==
  \E session \in Sessions :
    /\ UNCHANGED <<registered, hidden>>
    /\ FinishLaidOut(Reconcile(Restore(s, session), Listed),
                     UNION {ToSet(g.windows) : g \in ToSet(session.groups)})

Registry ==
  \E w \in Windows :
    Register(w) \/ Show(w) \/ Hide(w) \/ CloseHosted(w) \/ DestroyDeferred(w) \/ Destroy(w)

Mutation ==
  LET s == Reconcile(ws, Listed)
  IN  \/ ApplySelectTab(s) \/ ApplyMoveWindow(s) \/ ApplyMoveGroup(s) \/ ApplySplitWindow(s)
      \/ ApplyPin(s) \/ ApplyEnterSplit(s) \/ ApplyExitSplit(s) \/ ApplyRestore(s)

Next == Registry \/ MoveEndSurfaceless \/ Sync \/ (\E w \in Windows : Focus(w)) \/ Mutation

Spec == Init /\ [][Next]_vars

-----------------------------------------------------------------------------
TypeOK ==
  /\ registered \subseteq Windows
  /\ custom_auto \in BOOLEAN
  /\ hidden \subseteq registered
  /\ ws.next_group_seq \in 1 .. MaxSeq
  /\ \A i \in DOMAIN ws.groups :
       /\ ws.groups[i].id \in Nat
       /\ ws.groups[i].windows \in Seq(Windows)
  /\ DOMAIN ws.active = Ids(ws)
  /\ ws.pinned \subseteq Windows
  /\ DOMAIN ws.left \subseteq Ids(ws)
  /\ request.about \subseteq Windows \cup {0}
  /\ request.activated \in Windows \cup {0}

(* invariant_warnings finds nothing, which debug builds take for a panic:  *)
(* group ids are unique and groups not empty, a window is a tab once, the  *)
(* active tab and the panes of a split are tabs of their group, and what   *)
(* is pinned is a tab. The active tab of a split is on the right.          *)
NoInvariantWarnings ==
  /\ \A i, j \in DOMAIN ws.groups :
       i # j => /\ ws.groups[i].id # ws.groups[j].id
                /\ ToSet(ws.groups[i].windows) \cap ToSet(ws.groups[j].windows) = {}
  /\ \A g \in ToSet(ws.groups) :
       /\ g.windows # <<>>
       /\ IsInjective(g.windows)
       /\ Contains(g.windows, ws.active[g.id])
       /\ g.id \in DOMAIN ws.left =>
            /\ Contains(g.windows, ws.left[g.id])
            /\ ws.active[g.id] # ws.left[g.id]
  /\ ws.pinned \subseteq AllWindows(ws)

(* Every window that is listed is a tab somewhere, at every step and not   *)
(* only after the next synchronisation; and no tab outlives its window.    *)
EveryListedWindowIsATab ==
  Listed \subseteq AllWindows(ws) /\ AllWindows(ws) \subseteq registered

(* The next id is beyond all that are in use: reconcile and detaching take *)
(* "group-{next_group_seq}" without a look at the groups there are.        *)
GroupIdsFresh == \A id \in Ids(ws) : id < ws.next_group_seq

(* The window a request activates, which gets the keyboard, is the one its *)
(* group shows.                                                            *)
ActivatedTabIsVisible ==
  [][request'.activated # 0 =>
       Visible(ws', GroupOf(ws', request'.activated)) = request'.activated]_vars

(* Pinned tabs come first in their group, through moves of tabs and whole  *)
(* groups, pins, restored sessions, windows that go and the merges of a    *)
(* custom automatic layout.                                                *)
PinnedTabsLead ==
  \A g \in ToSet(ws.groups) : \A i, j \in DOMAIN g.windows :
    i < j /\ g.windows[j] \in ws.pinned => g.windows[i] \in ws.pinned

\* Restoring does not sort: a session saved under such a layout is as it was saved.
SessionsLead ==
  \A s \in Sessions : \A g \in ToSet(s.groups) : \A i, j \in DOMAIN g.windows :
    i < j /\ g.windows[j] \in s.pinned => g.windows[i] \in s.pinned

(* They do, as long as no output has such a layout, nor had one when a     *)
(* session was saved.                                                      *)
PinnedTabsLeadUnmerged == SessionsLead /\ ~custom_auto => PinnedTabsLead

(* A tab that is shown and closed gives way to the tab behind it, or to one *)
(* the closing itself brings to the front.                                 *)
ClosedTabGivesWayToNext ==
  [][\A w \in AllWindows(ws) \ registered' :
       LET id == GroupOf(ws, w)
       IN  Visible(ws, id) = w /\ id \in Ids(ws') =>
             Visible(ws', id) \in {NextAfterRemoval(ws, id, w)} \cup request'.about]_vars

Before(s, a, b) ==
  \E g \in ToSet(s.groups) : \E i, j \in DOMAIN g.windows :
    i < j /\ g.windows[i] = a /\ g.windows[j] = b

(* Tabs that no request was about stay together, apart, and in their       *)
(* order, whatever happens to others.                                      *)
OthersKeepTheirPlace ==
  [][\A a, b \in (AllWindows(ws) \cap AllWindows(ws')) \ request'.about :
       Before(ws, a, b) <=> Before(ws', a, b)]_vars

Shown(s, w) ==
  LET id == GroupOf(s, w)
  IN  Visible(s, id) = w \/ (id \in DOMAIN s.left /\ s.left[id] = w)

(* A tab on show stays on show unless the step was about one that is now   *)
(* on show in its group.                                                   *)
ShownTabsStay ==
  [][\A w \in AllWindows(ws) \cap AllWindows(ws') :
       Shown(ws, w) /\ ~Shown(ws', w) =>
         \E other \in ToSet(Tabs(ws', GroupOf(ws', w))) \cap request'.about :
           Shown(ws', other)]_vars
=============================================================================
