---------------------------- MODULE SharedState ----------------------------
(***************************************************************************)
(* The memory-mapped files through which the compositor and the renderer   *)
(* process hand each other whole states, and what both ends do with them:  *)
(*   - "ui": the placements of the shell's windows, measured by the page,  *)
(*     staged by the compositor and promoted with the next frame;          *)
(*   - "exclusion": the zones of the shell's canvas that take input,       *)
(*     applied as they are read;                                           *)
(*   - "snapshot": the compositor's state, read by the page (what the page *)
(*     does with it is the subject of SnapshotSync).                       *)
(* All are a header (magic, length and a sequence that is odd while the    *)
(* payload is written) in front of a payload. There is one writer and one  *)
(* reader, and no lock: every store and load of a shared word is a step of *)
(* its own. The header's copy is two loads of half of it each, in the      *)
(* order the build chose: magic and length are in the first half, the      *)
(* sequence in the second.                                                 *)
(***************************************************************************)
EXTENDS Integers, Sequences

CONSTANTS
  Kinds,          \* the files to look at: a subset of {"ui", "exclusion", "snapshot"}
  Layouts,        \* what can be measured: sequences of rows
  NoLayout,       \* nothing measured, staged or handed over yet
  MaxWrites,      \* bound: writes attempted
  MaxRevision     \* bound: revisions of the output layout

\* setSharedPrefix, a count and a cell for each row.
Encode(rev, layout) == <<[rev |-> rev, count |-> Len(layout)]>> \o layout

LayoutRows == UNION {{l[i] : i \in 1 .. Len(l)} : l \in Layouts}

Payloads == {Encode(rev, layout) : rev \in 0 .. MaxRevision, layout \in Layouts}

ASSUME KindsAssumption == Kinds \subseteq {"ui", "exclusion", "snapshot"} /\ Kinds # {}
ASSUME LayoutsAssumption ==
  /\ Layouts # {}
  /\ Layouts \subseteq Seq(LayoutRows)
  /\ NoLayout \notin Layouts \cup {<<>>}
  /\ NoLayout \notin [seq : Nat, payload : Payloads]
ASSUME BoundsAssumption == MaxWrites \in Nat /\ MaxRevision \in Nat

VARIABLES
  kind,           \* the file this behaviour is about
  file,           \* the mapping: [magic, len, seq, cells]
  writer,         \* where the writer is in write_payload or publish_payload_at
  reader,         \* where the reader is in read_payload_inner or snapshot_read_bytes
  page,           \* the page's measurements, and what it remembers of its last write
  inbox,          \* shared_state_sync messages on their way to the compositor
  compositor,     \* the output layout's revision, and the state applied
  missed          \* history: the sequence whose payload was consumed unread, or 0

vars == <<kind, file, writer, reader, page, inbox, compositor, missed>>

\* apply_shell_ui_windows_payload and decodeCompositorSnapshot refuse a payload whose
\* length is not the one its count asks for; one without a prefix carries no row.
Decodes(cells) == Len(cells) > 0 /\ cells[1].count = Len(cells) - 1

\* What remains of a read is the sequence seen last.
Unread(last) ==
  [at |-> "idle", loaded |-> {}, magic |-> FALSE, len |-> 0, seq |-> 0, got |-> <<>>,
   last |-> last]

Init ==
  /\ kind \in Kinds
  /\ file = [magic |-> kind = "snapshot", len |-> 0, seq |-> 0, cells |-> <<>>]
  /\ writer = [at |-> "idle", closing |-> FALSE, copied |-> 0, seq |-> 0,
               payload |-> <<>>, done |-> <<>>, writes |-> 0]
  /\ reader = Unread(0)
  /\ \E layout \in Layouts :
       page = [rev |-> 0, layout |-> layout, dirty |-> TRUE, fresh |-> TRUE,
               pending |-> FALSE, last |-> NoLayout]
  /\ inbox = 0
  /\ compositor = [rev |-> 0, outputs |-> TRUE, staged |-> NoLayout, shown |-> NoLayout]
  /\ missed = 0

-----------------------------------------------------------------------------
(* The page's thread: flush of shellHostedSurfaceRegistry, and             *)
(* syncExclusionZonesNow. A write returns before the page goes on.         *)

PageRuns == kind # "snapshot" /\ writer.at = "idle"

\* The DOM changed, and what was measured is marked dirty.
Remeasure(layout) ==
  /\ PageRuns
  /\ layout # page.layout
  /\ page' = [page EXCEPT !.layout = layout, !.dirty = TRUE]
  /\ UNCHANGED <<kind, file, writer, reader, inbox, compositor, missed>>

\* A snapshot was applied: the stamp of the next payload is another one, and with a
\* new revision of the output layout everything is measured again.
ReceiveSnapshot ==
  /\ PageRuns
  /\ \E rev \in {page.rev, compositor.rev} :
       page' = [page EXCEPT !.fresh = TRUE, !.rev = rev,
                            !.dirty = page.dirty \/ rev # page.rev]
  /\ UNCHANGED <<kind, file, writer, reader, inbox, compositor, missed>>

NeedsFlush == page.dirty \/ page.fresh \/ page.pending \/ page.last = NoLayout
Changed    == page.fresh \/ page.pending \/ page.layout # page.last

FlushUnchanged ==
  /\ PageRuns
  /\ NeedsFlush
  /\ ~Changed
  /\ page' = [page EXCEPT !.dirty = FALSE]
  /\ UNCHANGED <<kind, file, writer, reader, inbox, compositor, missed>>

\* writeSharedState returned false. The exclusion zones are written again at the next
\* occasion; the placements wait for a change or for another stamp.
FailWrite ==
  /\ PageRuns
  /\ NeedsFlush /\ Changed
  /\ writer.writes < MaxWrites
  /\ writer' = [writer EXCEPT !.writes = writer.writes + 1]
  /\ page' = IF kind = "exclusion"
              THEN [page EXCEPT !.dirty = FALSE, !.fresh = FALSE, !.pending = TRUE]
              ELSE [page EXCEPT !.dirty = FALSE]
  /\ UNCHANGED <<kind, file, reader, inbox, compositor, missed>>

FlushChanged ==
  /\ PageRuns
  /\ NeedsFlush /\ Changed
  /\ writer.writes < MaxWrites
  /\ writer' = [writer EXCEPT !.at = "fill",
                              !.payload = Encode(page.rev, page.layout),
                              !.writes = writer.writes + 1]
  /\ UNCHANGED <<kind, file, reader, page, inbox, compositor, missed>>

\* publish_payload_at: the same payload twice is not published.
PublishSnapshot(layout) ==
  /\ kind = "snapshot"
  /\ writer.at = "idle"
  /\ writer.writes < MaxWrites
  /\ Encode(0, layout) # writer.done
  /\ writer' = [writer EXCEPT !.at = "fill",
                              !.payload = Encode(0, layout),
                              !.writes = writer.writes + 1]
  /\ UNCHANGED <<kind, file, reader, page, inbox, compositor, missed>>

-----------------------------------------------------------------------------
(* The writer: a header with an odd sequence, the payload, and a header    *)
(* with the next even one. write_header zeroes the header before it writes *)
(* its fields, the sequence last.                                          *)

NextSequence == writer.seq + 2

WriterOnly == UNCHANGED <<kind, reader, page, inbox, compositor, missed>>

\* Before the payload, and again when all of it is copied.
FillHeader ==
  /\ \/ writer.at = "fill"
     \/ writer.at = "copy" /\ writer.copied = Len(writer.payload)
  /\ file' = [file EXCEPT !.magic = FALSE, !.len = 0, !.seq = 0]
  /\ writer' = [writer EXCEPT !.at = "fields", !.closing = (writer.at = "copy"), !.copied = 0]
  /\ WriterOnly

WriteFields ==
  /\ writer.at = "fields"
  /\ file' = [file EXCEPT !.magic = TRUE,
                          !.len = IF writer.closing THEN Len(writer.payload) ELSE 0]
  /\ writer' = [writer EXCEPT !.at = "sequence"]
  /\ WriterOnly

OpenSequence ==
  /\ writer.at = "sequence"
  /\ ~writer.closing
  /\ file' = [file EXCEPT !.seq = NextSequence - 1]
  /\ writer' = [writer EXCEPT !.at = "copy"]
  /\ WriterOnly

StoreCell(cells, k, cell) ==
  IF k <= Len(cells) THEN [cells EXCEPT ![k] = cell] ELSE Append(cells, cell)

CopyCell ==
  /\ writer.at = "copy"
  /\ writer.copied < Len(writer.payload)
  /\ LET k == writer.copied + 1
     IN  /\ file' = [file EXCEPT !.cells = StoreCell(file.cells, k, writer.payload[k])]
         /\ writer' = [writer EXCEPT !.copied = k]
  /\ WriterOnly

CloseSequence ==
  /\ writer.at = "sequence"
  /\ writer.closing
  /\ file' = [file EXCEPT !.seq = NextSequence]
  /\ writer' = [writer EXCEPT !.at = IF kind = "snapshot" THEN "idle" ELSE "send",
                              !.closing = FALSE, !.payload = <<>>,
                              !.seq = NextSequence, !.done = writer.payload]
  /\ WriterOnly

\* The compositor is told, and the page remembers what it wrote.
SendSync ==
  /\ writer.at = "send"
  /\ writer' = [writer EXCEPT !.at = "idle"]
  /\ inbox' = inbox + 1
  /\ page' = [page EXCEPT !.dirty = FALSE, !.fresh = FALSE, !.pending = FALSE,
                          !.last = page.layout]
  /\ UNCHANGED <<kind, file, reader, compositor, missed>>

-----------------------------------------------------------------------------
(* The reader: a copy of the header, a copy of the payload, and a second   *)
(* look at the sequence.                                                   *)

ReaderOnly == UNCHANGED <<kind, file, writer, page, compositor>>

StartRead ==
  /\ reader' = [reader EXCEPT !.at = "header"]
  /\ UNCHANGED missed
  /\ ReaderOnly

\* sync_shell_shared_state for a message of the page.
ReadOnMessage ==
  /\ reader.at = "idle"
  /\ inbox > 0
  /\ inbox' = inbox - 1
  /\ StartRead

\* sync_shell_shared_state_for_input, or syncCompositorSnapshot of the page.
ReadUnasked ==
  /\ reader.at = "idle"
  /\ UNCHANGED inbox
  /\ StartRead

Halves == {"fields", "sequence"}

WithHalf(half) ==
  IF half = "fields"
  THEN [reader EXCEPT !.loaded = reader.loaded \cup {half}, !.magic = file.magic, !.len = file.len]
  ELSE [reader EXCEPT !.loaded = reader.loaded \cup {half}, !.seq = file.seq]

LoadHalf(half) ==
  /\ reader.at = "header"
  /\ reader.loaded = {}
  /\ reader' = WithHalf(half)
  /\ UNCHANGED <<inbox, missed>>
  /\ ReaderOnly

\* The page asks for a sequence that is not its last one, the compositor for a
\* greater one.
News(header) ==
  /\ header.magic
  /\ header.seq % 2 = 0
  /\ IF kind = "snapshot" THEN header.seq # header.last ELSE header.seq > header.last

\* The header is complete: it is refused, or the payload is copied.
LoadOtherHalf(half) ==
  /\ reader.at = "header"
  /\ reader.loaded # {}
  /\ half \notin reader.loaded
  /\ reader' = IF News(WithHalf(half))
               THEN [WithHalf(half) EXCEPT !.at = "copy"]
               ELSE Unread(reader.last)
  /\ UNCHANGED <<inbox, missed>>
  /\ ReaderOnly

LoadCell ==
  /\ reader.at = "copy"
  /\ Len(reader.got) < reader.len
  /\ reader' = [reader EXCEPT !.got = Append(reader.got, file.cells[Len(reader.got) + 1])]
  /\ UNCHANGED <<inbox, missed>>
  /\ ReaderOnly

Copied == reader.at = "copy" /\ Len(reader.got) = reader.len

\* The sequence moved while the payload was copied: nothing was read.
RefuseCopy ==
  /\ Copied
  /\ file.seq # reader.seq
  /\ reader' = Unread(reader.last)
  /\ UNCHANGED <<inbox, missed>>
  /\ ReaderOnly

\* What is read counts as seen, and goes on to be applied if it decodes. The
\* compositor counts a sequence as seen whatever its payload is worth, the page
\* unless its decoder refuses the payload; it takes an empty one for no change.
Consumed == kind # "snapshot" \/ Decodes(reader.got) \/ reader.got = <<>>

Consume ==
  /\ reader' = IF Decodes(reader.got)
               THEN [reader EXCEPT !.at = "apply", !.last = reader.seq]
               ELSE Unread(IF Consumed THEN reader.seq ELSE reader.last)
  /\ missed' = IF Consumed /\ ~Decodes(reader.got) /\ reader.seq # 0
               THEN reader.seq
               ELSE missed

\* Mutant: the sequence is not looked at again.
AcceptCopyUnchecked ==
  /\ Copied
  /\ Consume
  /\ UNCHANGED inbox
  /\ ReaderOnly

AcceptCopy ==
  /\ Copied
  /\ file.seq = reader.seq
  /\ Consume
  /\ UNCHANGED inbox
  /\ ReaderOnly

-----------------------------------------------------------------------------
(* The compositor's thread. It reads and applies in one handler: nothing   *)
(* else of it runs in between.                                             *)

Rows == Tail(reader.got)

\* Mutant: the current revision is taken for an old one.
StaleOrCurrent == reader.got[1].rev > 0 /\ reader.got[1].rev <= compositor.rev

\* A payload measured on an older layout of the outputs; 0 is no revision.
Stale == reader.got[1].rev > 0 /\ reader.got[1].rev < compositor.rev

\* Without an output to put them on, placements and zones are dropped.
Applied ==
  CASE kind = "snapshot" \/ Stale -> compositor
    [] kind # "snapshot" /\ ~Stale /\ ~compositor.outputs ->
         [compositor EXCEPT !.staged = NoLayout, !.shown = <<>>]
    [] kind = "ui" /\ ~Stale /\ compositor.outputs ->
         [compositor EXCEPT !.staged = Rows]
    [] kind = "exclusion" /\ ~Stale /\ compositor.outputs ->
         [compositor EXCEPT !.shown = Rows]

Apply ==
  /\ reader.at = "apply"
  /\ compositor' = Applied
  /\ reader' = Unread(reader.last)
  /\ UNCHANGED <<kind, file, writer, page, inbox, missed>>

CompositorRuns == kind # "snapshot" /\ reader.at = "idle"

CompositorOnly == UNCHANGED <<kind, file, writer, reader, page, inbox, missed>>

\* shell_promote_pending_ui_windows_for_frame: a frame was accepted.
PromoteWithFrame ==
  /\ CompositorRuns
  /\ compositor.staged # NoLayout
  /\ compositor' = [compositor EXCEPT !.shown = compositor.staged, !.staged = NoLayout]
  /\ CompositorOnly

\* The last output is gone: nobody is told, and the revision stays.
LoseOutputs ==
  /\ CompositorRuns
  /\ compositor.outputs
  /\ compositor' = [compositor EXCEPT !.outputs = FALSE]
  /\ CompositorOnly

\* send_shell_output_layout: outputs came, went or moved.
SendOutputLayout ==
  /\ CompositorRuns
  /\ compositor.rev < MaxRevision
  /\ compositor' = [compositor EXCEPT !.rev = compositor.rev + 1, !.outputs = TRUE]
  /\ CompositorOnly

-----------------------------------------------------------------------------
Page ==
  \/ \E layout \in Layouts : Remeasure(layout)
  \/ ReceiveSnapshot
  \/ FlushUnchanged
  \/ FailWrite
  \/ FlushChanged
  \/ SendSync

Write ==
  \/ \E layout \in Layouts : PublishSnapshot(layout)
  \/ FillHeader
  \/ WriteFields
  \/ OpenSequence
  \/ CopyCell
  \/ CloseSequence

Read ==
  \/ ReadOnMessage
  \/ ReadUnasked
  \/ \E half \in Halves : LoadHalf(half) \/ LoadOtherHalf(half)
  \/ LoadCell
  \/ RefuseCopy
  \/ AcceptCopy
  \/ Apply

Next ==
  \/ Page
  \/ Write
  \/ Read
  \/ PromoteWithFrame
  \/ LoseOutputs
  \/ SendOutputLayout

Spec == Init /\ [][Next]_vars

-----------------------------------------------------------------------------
Cells == [rev : 0 .. MaxRevision, count : Nat] \cup LayoutRows

Files == [magic : BOOLEAN, len : Nat, seq : Nat, cells : Seq(Cells)]

Writers ==
  [at : {"idle", "fill", "fields", "sequence", "copy", "send"}, closing : BOOLEAN,
   copied : Nat, seq : Nat, payload : Payloads \cup {<<>>}, done : Payloads \cup {<<>>},
   writes : 0 .. MaxWrites]

Readers ==
  [at : {"idle", "header", "copy", "apply"}, loaded : SUBSET Halves, magic : BOOLEAN,
   len : Nat, seq : Nat, got : Seq(Cells), last : Nat]

Pages ==
  [rev : 0 .. MaxRevision, layout : Layouts, dirty : BOOLEAN, fresh : BOOLEAN,
   pending : BOOLEAN, last : Layouts \cup {NoLayout}]

Compositors ==
  [rev : 0 .. MaxRevision, outputs : BOOLEAN, staged : Layouts \cup {NoLayout},
   shown : Layouts \cup {NoLayout, <<>>}]

TypeOK ==
  /\ kind \in Kinds
  /\ file \in Files
  /\ writer \in Writers
  /\ writer.seq % 2 = 0
  /\ reader \in Readers
  /\ page \in Pages
  /\ inbox \in Nat
  /\ compositor \in Compositors
  /\ missed \in Nat

(* The file is a place of which the latest payload matters, and what a     *)
(* reader gets to work on is the payload of one write, whole: never cells  *)
(* of two writes, never a length of one with the cells of another. Two     *)
(* outcomes are exempt. A header whose halves are of two writes can carry  *)
(* the new sequence with the length 0 of the write's first header: the     *)
(* payload is then consumed unread. And the page, which accepts every      *)
(* sequence but its last one, accepts the zero of a header that is being   *)
(* rewritten: what it reads then is not covered.                           *)
Published == [seq |-> writer.seq, payload |-> writer.done]

Exchange ==
  INSTANCE LatestValue WITH
    Values  <- [seq : Nat, payload : Payloads],
    Nothing <- NoLayout,
    slot    <- IF writer.seq # 0 /\ (writer.seq # reader.last \/ missed = writer.seq)
               THEN Published
               ELSE NoLayout,
    hand    <- IF reader.at = "apply" /\ reader.seq # 0
               THEN [seq |-> reader.seq, payload |-> reader.got]
               ELSE NoLayout
RefinesExchange == Exchange!Safety

(* When everything has come to rest - nothing to flush, no write, no sync  *)
(* message and no read under way - and both ends know the same layout of   *)
(* the outputs, the compositor has what the page wrote last: neither the   *)
(* refusal of stale payloads, nor a sync that met a write, nor outputs     *)
(* that went away in between lose an update. The exclusion zones it has    *)
(* are even the ones measured last, whatever writes failed.                *)
AtRest ==
  /\ kind # "snapshot"
  /\ writer.at = "idle" /\ reader.at = "idle" /\ inbox = 0
  /\ ~NeedsFlush
  /\ page.rev = compositor.rev /\ compositor.outputs
  /\ missed # writer.seq \/ missed = 0

UpToDate ==
  AtRest =>
    /\ page.last = IF compositor.staged # NoLayout THEN compositor.staged
                   ELSE compositor.shown
    /\ kind = "exclusion" => page.layout = page.last
=============================================================================
