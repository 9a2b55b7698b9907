------------------------- MODULE SharedStateProofs -------------------------
(***************************************************************************)
(* Proofs about SharedState, for any layouts, files, number of writes and  *)
(* revisions: what is read is one write's payload, whole; and at rest the  *)
(* compositor has what the page wrote last.                                *)
(***************************************************************************)
EXTENDS SharedState, SequenceTheorems, TLAPS

(***************************************************************************)
(* The inductive invariant.                                                *)
(***************************************************************************)

\* Between two writes the header says what the writer published last.
Settled == writer.at \in {"idle", "fill", "send"}

Holds(cells, payload, n) == n <= Len(cells) /\ \A i \in 1 .. n : cells[i] = payload[i]

WriterInv ==
  /\ writer.closing => writer.at \in {"fields", "sequence"}
  /\ writer.at \in {"fill", "fields", "sequence", "copy"} => writer.payload \in Payloads
  /\ writer.seq # 0 => writer.done \in Payloads
  /\ writer.at # "copy" => writer.copied = 0

\* What the words of the file are while the writer is where it is.
FileInv ==
  /\ file.len <= Len(file.cells)
  /\ Settled => file.seq = writer.seq /\ Holds(file.cells, writer.done, Len(writer.done))
  /\ writer.at \in {"fields", "sequence"} => file.seq = 0
  /\ writer.at = "copy" =>
       /\ file.seq = writer.seq + 1
       /\ writer.copied <= Len(writer.payload)
       /\ Holds(file.cells, writer.payload, writer.copied)
  /\ writer.closing => Holds(file.cells, writer.payload, Len(writer.payload))

\* A reader whose sequence is still the one in the file has read what is published.
ReaderInv ==
  /\ reader.len <= Len(file.cells)
  /\ reader.last <= writer.seq
  /\ reader.seq <= writer.seq + 1
  /\ reader.at \in {"idle", "header"} => reader.got = <<>>
  /\ reader.at = "copy" =>
       /\ reader.seq % 2 = 0
       /\ reader.seq # reader.last
       /\ Settled /\ reader.seq = writer.seq =>
            \A i \in 1 .. Len(reader.got) :
              i <= Len(writer.done) => reader.got[i] = writer.done[i]
  /\ reader.at \in {"copy", "apply"} /\ kind # "snapshot" => reader.seq # 0
  /\ reader.at = "apply" /\ reader.seq # 0 => reader.got \in Payloads

\* A payload consumed unread is not read again: its sequence is the last one seen.
MissedInv ==
  /\ missed <= writer.seq
  /\ missed # 0 /\ missed = writer.seq /\ Settled => reader.last = writer.seq

IInv == TypeOK /\ WriterInv /\ FileInv /\ ReaderInv /\ MissedInv

(***************************************************************************)
(* Payloads.                                                               *)
(***************************************************************************)

LEMMA LayoutIs == ASSUME NEW layout \in Layouts
                  PROVE  layout \in Seq(Cells) /\ Len(layout) \in Nat
<1>1. layout \in Seq(LayoutRows)
  BY LayoutsAssumption
<1>2. \A i \in 1 .. Len(layout) : layout[i] \in Cells
  BY <1>1 DEF Cells
<1> QED
  BY <1>1, <1>2

\* A payload is typed, says how long it is, and has a layout behind its prefix.
LEMMA PayloadIs == ASSUME NEW p \in Payloads
                   PROVE  /\ p \in Seq(Cells)
                          /\ Len(p) > 0
                          /\ p[1].count = Len(p) - 1
                          /\ p[1].rev \in 0 .. MaxRevision
                          /\ Tail(p) \in Layouts
<1>1. PICK rev \in 0 .. MaxRevision, layout \in Layouts : p = Encode(rev, layout)
  BY DEF Payloads
<1> DEFINE prefix == [rev |-> rev, count |-> Len(layout)]
<1>2. layout \in Seq(Cells) /\ Len(layout) \in Nat
  BY LayoutIs
<1>3. prefix \in Cells
  BY <1>2 DEF Cells
<1>4. p = <<prefix>> \o layout
  BY <1>1 DEF Encode
<1>5. <<prefix>> \in Seq(Cells)
  BY <1>3
<1> HIDE DEF prefix
<1>6. p \in Seq(Cells) /\ Len(p) = Len(layout) + 1 /\ p[1] = prefix
  BY <1>2, <1>4, <1>5
<1>7. Tail(p) = layout
  <2>1. Tail(p) \in Seq(Cells) /\ Len(Tail(p)) = Len(layout)
    BY <1>2, <1>6
  <2>2. \A i \in 1 .. Len(layout) : Tail(p)[i] = layout[i]
    BY <1>2, <1>3, <1>4, <1>5, <1>6
  <2> QED
    BY <1>2, <2>1, <2>2, SeqEqual
<1>8. prefix.rev = rev /\ prefix.count = Len(layout)
  BY DEF prefix
<1>9. Len(p) > 0 /\ Len(p) - 1 = Len(layout)
  BY <1>2, <1>6
<1> QED
  BY <1>6, <1>7, <1>8, <1>9

(***************************************************************************)
(* The initial states.                                                     *)
(***************************************************************************)

LEMMA InvInit == Init => IInv
<1> SUFFICES ASSUME Init PROVE IInv
  OBVIOUS
<1>1. TypeOK
  <2>1. <<>> \in Seq(Cells)
    OBVIOUS
  <2>2. file \in Files
    BY <2>1 DEF Init, Files
  <2>3. writer \in Writers
        /\ writer.seq % 2 = 0
    BY BoundsAssumption DEF Init, Writers
  <2>4. reader \in Readers
    BY <2>1 DEF Init, Unread, Readers
  <2>5. page \in Pages
    BY BoundsAssumption DEF Init, Pages
  <2>6. compositor \in Compositors
    BY BoundsAssumption DEF Init, Compositors
  <2> QED
    BY <2>2, <2>3, <2>4, <2>5, <2>6 DEF Init, TypeOK
<1>2. WriterInv
  BY DEF Init, WriterInv
<1>3. FileInv
  BY DEF Init, FileInv, Settled, Holds
<1>4. ReaderInv
  BY DEF Init, ReaderInv, Unread
<1>5. MissedInv
  BY DEF Init, MissedInv
<1> QED
  BY <1>1, <1>2, <1>3, <1>4, <1>5 DEF IInv

(***************************************************************************)
(* The steps of the page and of the compositor.                            *)
(***************************************************************************)

LEMMA Elsewhere ==
  ASSUME IInv, UNCHANGED <<kind, file, writer, reader, missed>>
  PROVE  WriterInv' /\ FileInv' /\ ReaderInv' /\ MissedInv'
BY DEF IInv, WriterInv, FileInv, ReaderInv, MissedInv, Settled, Holds

LEMMA PageStep ==
  ASSUME IInv,
         \/ \E layout \in Layouts : Remeasure(layout)
         \/ ReceiveSnapshot
         \/ FlushUnchanged
  PROVE  IInv'
<1>1. UNCHANGED <<kind, file, writer, reader, inbox, compositor, missed>>
  BY DEF Remeasure, ReceiveSnapshot, FlushUnchanged
<1>2. page' \in Pages
  <2>1. CASE \E layout \in Layouts : Remeasure(layout)
    BY <2>1 DEF Remeasure, IInv, TypeOK, Pages
  <2>2. CASE ReceiveSnapshot
    <3>1. PICK rev \in {page.rev, compositor.rev} :
            page' = [page EXCEPT !.fresh = TRUE, !.rev = rev,
                                 !.dirty = page.dirty \/ rev # page.rev]
      BY <2>2 DEF ReceiveSnapshot
    <3>2. rev \in 0 .. MaxRevision
      BY DEF IInv, TypeOK, Pages, Compositors
    <3>3. (page.dirty \/ rev # page.rev) \in BOOLEAN
      OBVIOUS
    <3> QED
      BY <3>1, <3>2, <3>3 DEF IInv, TypeOK, Pages
  <2>3. CASE FlushUnchanged
    BY <2>3 DEF FlushUnchanged, IInv, TypeOK, Pages
  <2> QED
    BY <2>1, <2>2, <2>3
<1>3. TypeOK'
  BY <1>1, <1>2 DEF IInv, TypeOK
<1> QED
  BY <1>1, <1>3, Elsewhere DEF IInv

LEMMA CompositorStep ==
  ASSUME IInv, PromoteWithFrame \/ LoseOutputs \/ SendOutputLayout
  PROVE  IInv'
<1>1. UNCHANGED <<kind, file, writer, reader, page, inbox, missed>>
  BY DEF PromoteWithFrame, LoseOutputs, SendOutputLayout, CompositorOnly
<1>2. compositor' \in Compositors
  <2>1. CASE PromoteWithFrame
    BY <2>1 DEF PromoteWithFrame, IInv, TypeOK, Compositors
  <2>2. CASE LoseOutputs
    BY <2>2 DEF LoseOutputs, IInv, TypeOK, Compositors
  <2>3. CASE SendOutputLayout
    <3>1. compositor.rev \in 0 .. MaxRevision /\ compositor.rev < MaxRevision
      BY <2>3 DEF SendOutputLayout, IInv, TypeOK, Compositors
    <3>2. compositor.rev + 1 \in 0 .. MaxRevision
      BY <3>1, BoundsAssumption
    <3> QED
      BY <2>3, <3>2 DEF SendOutputLayout, IInv, TypeOK, Compositors
  <2> QED
    BY <2>1, <2>2, <2>3
<1>3. TypeOK'
  BY <1>1, <1>2 DEF IInv, TypeOK
<1> QED
  BY <1>1, <1>3, Elsewhere DEF IInv

(***************************************************************************)
(* The steps of the writer.                                                *)
(***************************************************************************)

\* What the reader may rely on while the writer goes on: cells are never taken back,
\* sequences grow by two, and what is published stays until the header is filled.
LEMMA ReaderKept ==
  ASSUME IInv, UNCHANGED <<kind, reader, missed>>,
         Len(file.cells) \in Nat, Len(file'.cells) \in Nat,
         Len(file.cells) <= Len(file'.cells),
         \/ writer'.seq = writer.seq /\ (Settled' => Settled /\ writer'.done = writer.done)
         \/ writer'.seq = writer.seq + 2
  PROVE  ReaderInv' /\ MissedInv'
<1>1. writer.seq \in Nat /\ reader.seq \in Nat /\ reader.last \in Nat /\ reader.len \in Nat
      /\ missed \in Nat
  BY DEF IInv, TypeOK, Writers, Readers
<1>2. writer'.seq \in Nat /\ writer.seq <= writer'.seq
  BY <1>1
<1>3. reader.at = "copy" /\ Settled' /\ reader.seq = writer'.seq =>
        Settled /\ reader.seq = writer.seq /\ writer'.done = writer.done
  BY <1>1 DEF IInv, ReaderInv
<1>4. ReaderInv'
  <2>1. ReaderInv
    BY DEF IInv
  <2>2. /\ reader.len <= Len(file'.cells) /\ reader.last <= writer'.seq
        /\ reader.seq <= writer'.seq + 1
    <3>1. /\ reader.len <= Len(file.cells) /\ reader.last <= writer.seq
          /\ reader.seq <= writer.seq + 1
      BY <2>1 DEF ReaderInv
    <3>2. Len(file.cells) <= Len(file'.cells) /\ Len(file.cells) \in Nat /\ Len(file'.cells) \in Nat
      OBVIOUS
    <3> DEFINE from == writer.seq
               to   == writer'.seq
               old  == Len(file.cells)
               new  == Len(file'.cells)
    <3>3. from \in Nat /\ to \in Nat /\ from <= to /\ old \in Nat /\ new \in Nat /\ old <= new
      BY <1>1, <1>2, <3>2
    <3>4. reader.last <= from /\ reader.seq <= from + 1 /\ reader.len <= old
      BY <3>1
    <3> HIDE DEF from, to, old, new
    <3>5. reader.last <= to /\ reader.seq <= to + 1 /\ reader.len <= new
      BY ONLY <1>1, <3>3, <3>4
    <3> QED
      BY <3>5 DEF to, new
  <2> QED
    BY <1>3, <2>1, <2>2 DEF ReaderInv
<1>5. MissedInv'
  BY <1>1, <1>2 DEF IInv, MissedInv
<1> QED
  BY <1>4, <1>5

\* A write begins, or fails before it has begun.
LEMMA BeginStep ==
  ASSUME IInv,
         FailWrite \/ FlushChanged \/ \E layout \in Layouts : PublishSnapshot(layout)
  PROVE  IInv'
<1> USE DEF IInv
<1>1. UNCHANGED <<kind, file, reader, inbox, compositor, missed>>
  BY DEF FailWrite, FlushChanged, PublishSnapshot
<1>2. writer.at = "idle" /\ writer.writes + 1 \in 0 .. MaxWrites
  <2>1. writer.at = "idle" /\ writer.writes < MaxWrites
    BY DEF FailWrite, FlushChanged, PublishSnapshot, PageRuns
  <2>2. writer.writes \in 0 .. MaxWrites
    BY DEF TypeOK, Writers
  <2> QED
    BY <2>1, <2>2, BoundsAssumption
<1>3. \/ writer' = [writer EXCEPT !.writes = writer.writes + 1]
      \/ \E payload \in Payloads :
           writer' = [writer EXCEPT !.at = "fill", !.payload = payload,
                                    !.writes = writer.writes + 1]
  <2>1. CASE FailWrite
    BY <2>1 DEF FailWrite
  <2>2. CASE FlushChanged
    <3>1. Encode(page.rev, page.layout) \in Payloads
      BY DEF Payloads, TypeOK, Pages
    <3> QED
      BY <2>2, <3>1 DEF FlushChanged
  <2>3. CASE \E layout \in Layouts : PublishSnapshot(layout)
    <3>1. \A layout \in Layouts : Encode(0, layout) \in Payloads
      BY BoundsAssumption DEF Payloads
    <3> QED
      BY <2>3, <3>1 DEF PublishSnapshot
  <2> QED
    BY <2>1, <2>2, <2>3
<1>4. page' \in Pages
  <2>1. CASE FailWrite
    BY <2>1 DEF TypeOK, Pages, FailWrite
  <2>2. CASE page' = page
    BY <2>2 DEF TypeOK
  <2> QED
    BY <2>1, <2>2 DEF FlushChanged, PublishSnapshot
<1>5. TypeOK'
  <2>2. writer \in Writers
    BY DEF TypeOK
  <2>1. writer' \in Writers /\ writer'.seq = writer.seq
    BY ONLY <1>2, <1>3, <2>2 DEF Writers
  <2> QED
    BY <1>1, <1>4, <2>1 DEF TypeOK
<1>6. /\ writer'.seq = writer.seq /\ writer'.done = writer.done
      /\ writer'.copied = writer.copied /\ writer'.closing = writer.closing
      /\ Settled /\ Settled'
      /\ \/ writer'.at = "idle" /\ writer'.payload = writer.payload
         \/ writer'.at = "fill" /\ writer'.payload \in Payloads
  <2>1. CASE writer' = [writer EXCEPT !.writes = writer.writes + 1]
    <3>1. writer'.at = "idle" /\ writer'.payload = writer.payload
      BY <1>2, <2>1 DEF TypeOK, Writers
    <3>2. /\ writer'.seq = writer.seq /\ writer'.done = writer.done
          /\ writer'.copied = writer.copied /\ writer'.closing = writer.closing
      BY <2>1 DEF TypeOK, Writers
    <3> QED
      BY <1>2, <3>1, <3>2 DEF Settled
  <2>2. ASSUME NEW payload \in Payloads,
               writer' = [writer EXCEPT !.at = "fill", !.payload = payload,
                                        !.writes = writer.writes + 1]
        PROVE  /\ writer'.seq = writer.seq /\ writer'.done = writer.done
               /\ writer'.copied = writer.copied /\ writer'.closing = writer.closing
               /\ writer'.at = "fill" /\ writer'.payload \in Payloads
    BY <2>2 DEF TypeOK, Writers
  <2> QED
    BY <1>2, <1>3, <2>1, <2>2 DEF Settled
<1>7. WriterInv'
  BY <1>2, <1>6 DEF WriterInv
<1>8. FileInv'
  BY <1>1, <1>2, <1>6 DEF FileInv, WriterInv, Settled
<1>9. ReaderInv' /\ MissedInv'
  <2>1. Len(file.cells) \in Nat
    BY DEF TypeOK, Files
  <2> QED
    BY <1>1, <1>6, <2>1, ReaderKept
<1> QED
  BY <1>5, <1>7, <1>8, <1>9

LEMMA SendStep ==
  ASSUME IInv, SendSync
  PROVE  IInv'
<1> USE DEF IInv
<1>1. UNCHANGED <<kind, file, reader, compositor, missed>>
  BY DEF SendSync
<1>2. TypeOK'
  <2>1. writer' \in Writers /\ writer'.seq = writer.seq
    BY DEF TypeOK, Writers, SendSync
  <2>2. page' \in Pages
    BY DEF TypeOK, Pages, SendSync
  <2>3. inbox' \in Nat
    BY DEF TypeOK, SendSync
  <2> QED
    BY <1>1, <2>1, <2>2, <2>3 DEF TypeOK
<1>3. /\ writer.at = "send" /\ writer'.at = "idle"
      /\ writer'.seq = writer.seq /\ writer'.done = writer.done
      /\ writer'.copied = writer.copied /\ writer'.closing = writer.closing
      /\ writer'.payload = writer.payload
      /\ Settled /\ Settled'
  BY DEF SendSync, TypeOK, Writers, Settled
<1>4. WriterInv'
  BY <1>3 DEF WriterInv
<1>5. FileInv'
  BY <1>1, <1>3 DEF FileInv, WriterInv, Settled
<1>6. ReaderInv' /\ MissedInv'
  <2>1. Len(file.cells) \in Nat
    BY DEF TypeOK, Files
  <2> QED
    BY <1>1, <1>3, <2>1, ReaderKept
<1> QED
  BY <1>2, <1>4, <1>5, <1>6

LEMMA FillHeaderStep ==
  ASSUME IInv, FillHeader
  PROVE  IInv'
<1> USE DEF IInv
<1>1. UNCHANGED <<kind, reader, page, inbox, compositor, missed>>
  BY DEF FillHeader, WriterOnly
<1>2. file' \in Files /\ file'.len = 0 /\ file'.seq = 0 /\ file'.cells = file.cells
  BY DEF FillHeader, TypeOK, Files
<1>3. writer' \in Writers
  BY DEF FillHeader, TypeOK, Writers
<1>4. /\ writer'.at = "fields" /\ writer'.closing = (writer.at = "copy")
      /\ writer'.seq = writer.seq /\ writer'.done = writer.done
      /\ writer'.payload = writer.payload
  BY DEF FillHeader, TypeOK, Writers
<1>5. TypeOK'
  BY <1>1, <1>2, <1>3, <1>4 DEF TypeOK
<1>6. WriterInv'
  <2>1. writer'.copied = 0
    BY DEF FillHeader, TypeOK, Writers
  <2> QED
    BY <1>4, <2>1 DEF FillHeader, WriterInv
<1>7. FileInv'
  <2>1. Len(file'.cells) \in Nat
    BY <1>2 DEF Files
  <2>2. ~Settled'
    BY <1>4 DEF Settled
  <2>3. writer'.closing => Holds(file'.cells, writer'.payload, Len(writer'.payload))
    BY <1>2, <1>4 DEF FillHeader, FileInv
  <2>4. file'.len <= Len(file'.cells)
    BY <1>2, <2>1
  <2> QED
    BY <1>2, <1>4, <2>2, <2>3, <2>4 DEF FileInv
<1>8. ReaderInv' /\ MissedInv'
  <2>1. Len(file.cells) \in Nat
    BY DEF TypeOK, Files
  <2>2. ~Settled'
    BY <1>4 DEF Settled
  <2> QED
    BY <1>1, <1>2, <1>4, <2>1, <2>2, ReaderKept
<1> QED
  BY <1>5, <1>6, <1>7, <1>8

LEMMA WriteFieldsStep ==
  ASSUME IInv, WriteFields
  PROVE  IInv'
<1> USE DEF IInv
<1>1. UNCHANGED <<kind, reader, page, inbox, compositor, missed>>
  BY DEF WriteFields, WriterOnly
<1>2. writer.payload \in Payloads /\ Len(writer.payload) \in Nat
  BY PayloadIs DEF WriteFields, WriterInv
<1>3. /\ file' \in Files /\ file'.seq = file.seq /\ file'.cells = file.cells
      /\ file'.len = IF writer.closing THEN Len(writer.payload) ELSE 0
  BY <1>2 DEF WriteFields, TypeOK, Files
<1>4. /\ writer' \in Writers /\ writer.at = "fields" /\ writer'.at = "sequence"
      /\ writer'.closing = writer.closing
      /\ writer'.seq = writer.seq /\ writer'.done = writer.done
      /\ writer'.payload = writer.payload /\ writer'.copied = writer.copied
  BY DEF WriteFields, TypeOK, Writers
<1>5. TypeOK'
  BY <1>1, <1>3, <1>4 DEF TypeOK
<1>6. WriterInv'
  BY <1>4 DEF WriterInv
<1>7. Len(file.cells) \in Nat
  BY DEF TypeOK, Files
<1>8. FileInv'
  <2>1. ~Settled'
    BY <1>4 DEF Settled
  <2>2. writer.closing => Len(writer.payload) <= Len(file.cells)
    BY DEF FileInv, Holds
  <2>3. file'.len <= Len(file'.cells)
    BY <1>2, <1>3, <1>7, <2>2
  <2> QED
    BY <1>3, <1>4, <2>1, <2>3 DEF FileInv
<1>9. ReaderInv' /\ MissedInv'
  <2>1. ~Settled'
    BY <1>4 DEF Settled
  <2> QED
    BY <1>1, <1>3, <1>4, <1>7, <2>1, ReaderKept
<1> QED
  BY <1>5, <1>6, <1>8, <1>9

LEMMA OpenSequenceStep ==
  ASSUME IInv, OpenSequence
  PROVE  IInv'
<1> USE DEF IInv
<1>1. UNCHANGED <<kind, reader, page, inbox, compositor, missed>>
  BY DEF OpenSequence, WriterOnly
<1>2. writer.payload \in Payloads /\ Len(writer.payload) \in Nat /\ writer.seq \in Nat
  BY PayloadIs DEF OpenSequence, WriterInv, TypeOK, Writers
<1>3. /\ file' \in Files /\ file'.seq = writer.seq + 1 /\ file'.cells = file.cells
      /\ file'.len = file.len
  <2>1. file' = [file EXCEPT !.seq = NextSequence - 1] /\ NextSequence - 1 = writer.seq + 1
    BY <1>2 DEF OpenSequence, NextSequence
  <2>2. file \in Files /\ writer.seq + 1 \in Nat
    BY <1>2 DEF TypeOK
  <2> QED
    BY ONLY <2>1, <2>2 DEF Files
<1>4. /\ writer' \in Writers /\ writer.at = "sequence" /\ writer'.at = "copy"
      /\ ~writer.closing /\ writer'.closing = writer.closing
      /\ writer'.seq = writer.seq /\ writer'.done = writer.done
      /\ writer'.payload = writer.payload /\ writer'.copied = writer.copied
  BY DEF OpenSequence, TypeOK, Writers
<1>5. TypeOK'
  BY <1>1, <1>3, <1>4 DEF TypeOK
<1>6. WriterInv'
  BY <1>4 DEF WriterInv
<1>7. Len(file.cells) \in Nat
  BY DEF TypeOK, Files
<1>8. ~Settled'
  BY <1>4 DEF Settled
<1>9. FileInv'
  BY <1>2, <1>3, <1>4, <1>7, <1>8 DEF FileInv, Holds, WriterInv
<1>10. ReaderInv' /\ MissedInv'
  BY <1>1, <1>3, <1>4, <1>7, <1>8, ReaderKept
<1> QED
  BY <1>5, <1>6, <1>9, <1>10

\* A cell stored is the one of the payload, and no other is touched.
LEMMA StoreCellIs ==
  ASSUME NEW cells \in Seq(Cells), NEW k \in 1 .. Len(cells) + 1, NEW cell \in Cells
  PROVE  /\ StoreCell(cells, k, cell) \in Seq(Cells)
         /\ Len(StoreCell(cells, k, cell)) \in Nat
         /\ Len(cells) <= Len(StoreCell(cells, k, cell))
         /\ k <= Len(StoreCell(cells, k, cell))
         /\ StoreCell(cells, k, cell)[k] = cell
         /\ \A i \in 1 .. Len(cells) : i # k => StoreCell(cells, k, cell)[i] = cells[i]
<1>1. CASE k <= Len(cells)
  <2>1. k \in 1 .. Len(cells) /\ StoreCell(cells, k, cell) = [cells EXCEPT ![k] = cell]
    BY <1>1 DEF StoreCell
  <2> QED
    BY <2>1, ExceptSeq
<1>2. CASE ~(k <= Len(cells))
  <2>1. k = Len(cells) + 1 /\ StoreCell(cells, k, cell) = Append(cells, cell)
    BY <1>2 DEF StoreCell
  <2> QED
    BY <2>1, AppendProperties
<1> QED
  BY <1>1, <1>2

LEMMA CopyCellStep ==
  ASSUME IInv, CopyCell
  PROVE  IInv'
<1> USE DEF IInv
<1> DEFINE k == writer.copied + 1
<1>1. UNCHANGED <<kind, reader, page, inbox, compositor, missed>>
  BY DEF CopyCell, WriterOnly
<1>2. /\ writer.at = "copy" /\ writer.payload \in Payloads /\ Len(writer.payload) \in Nat
      /\ writer.copied \in Nat
      /\ k \in 1 .. Len(writer.payload) /\ writer.payload[k] \in Cells
  BY PayloadIs DEF CopyCell, WriterInv, TypeOK, Writers
<1>3. /\ file.cells \in Seq(Cells) /\ Len(file.cells) \in Nat
      /\ k \in 1 .. Len(file.cells) + 1
      /\ Holds(file.cells, writer.payload, writer.copied)
  BY <1>2 DEF TypeOK, Files, FileInv, Holds
<1> DEFINE stored == StoreCell(file.cells, k, writer.payload[k])
<1> HIDE DEF k
<1>3a. /\ stored \in Seq(Cells) /\ Len(stored) \in Nat
      /\ Len(file.cells) <= Len(stored) /\ k <= Len(stored)
      /\ stored[k] = writer.payload[k]
      /\ \A i \in 1 .. Len(file.cells) : i # k => stored[i] = file.cells[i]
  <2>1. /\ file.cells \in Seq(Cells) /\ k \in 1 .. Len(file.cells) + 1
        /\ writer.payload[k] \in Cells
    BY <1>2, <1>3 DEF k
  <2> DEFINE cells == file.cells
             cell  == writer.payload[k]
  <2>2. cells \in Seq(Cells) /\ k \in 1 .. Len(cells) + 1 /\ cell \in Cells
    BY <2>1
  <2> HIDE DEF cells, cell
  <2>3. /\ StoreCell(cells, k, cell) \in Seq(Cells)
        /\ Len(StoreCell(cells, k, cell)) \in Nat
        /\ Len(cells) <= Len(StoreCell(cells, k, cell))
        /\ k <= Len(StoreCell(cells, k, cell))
        /\ StoreCell(cells, k, cell)[k] = cell
        /\ \A i \in 1 .. Len(cells) : i # k => StoreCell(cells, k, cell)[i] = cells[i]
    BY ONLY <2>2, StoreCellIs
  <2> QED
    BY <2>3 DEF cells, cell
<1>4. /\ file' \in Files /\ file'.seq = file.seq /\ file'.len = file.len
      /\ file'.cells = stored
  <2>1. file' = [file EXCEPT !.cells = stored]
    BY DEF CopyCell, k
  <2> HIDE DEF stored
  <2> QED
    BY <1>3a, <2>1 DEF TypeOK, Files
<1> HIDE DEF stored
<1>5. /\ writer' \in Writers /\ writer'.at = "copy" /\ writer'.closing = writer.closing
      /\ writer'.seq = writer.seq /\ writer'.done = writer.done
      /\ writer'.payload = writer.payload /\ writer'.copied = k
  BY <1>2 DEF CopyCell, TypeOK, Writers, k
<1>6. TypeOK'
  BY <1>1, <1>4, <1>5 DEF TypeOK
<1>7. WriterInv'
  BY <1>2, <1>5 DEF WriterInv
<1>8. ~Settled'
  BY <1>5 DEF Settled
<1>9. Len(file'.cells) \in Nat /\ Len(file.cells) <= Len(file'.cells)
  BY <1>3a, <1>4
<1>10. FileInv'
  <2>1. Holds(stored, writer.payload, k)
    <3>1. ASSUME NEW i \in 1 .. k PROVE stored[i] = writer.payload[i]
      <4>1. CASE i = k
        BY <1>3a, <4>1
      <4>2. CASE i # k
        <5>1. i \in 1 .. writer.copied /\ i \in 1 .. Len(file.cells)
          BY <1>2, <1>3, <4>2 DEF Holds, k
        <5>2. file.cells[i] = writer.payload[i]
          BY <1>3, <5>1 DEF Holds
        <5>3. stored[i] = file.cells[i]
          BY <1>3a, <4>2, <5>1
        <5> QED
          BY <5>2, <5>3
      <4> QED
        BY <4>1, <4>2
    <3> QED
      BY <1>3a, <3>1 DEF Holds
  <2>2. file'.len <= Len(file'.cells)
    BY <1>3, <1>4, <1>9 DEF FileInv, TypeOK, Files
  <2>3. ~writer.closing
    BY <1>2 DEF WriterInv
  <2> QED
    BY <1>2, <1>4, <1>5, <1>8, <2>1, <2>2, <2>3 DEF FileInv
<1>11. ReaderInv' /\ MissedInv'
  BY <1>1, <1>3, <1>5, <1>8, <1>9, ReaderKept
<1> QED
  BY <1>6, <1>7, <1>10, <1>11

LEMMA CloseSequenceStep ==
  ASSUME IInv, CloseSequence
  PROVE  IInv'
<1> USE DEF IInv
<1>1. UNCHANGED <<kind, reader, page, inbox, compositor, missed>>
  BY DEF CloseSequence, WriterOnly
<1>2. /\ writer.at = "sequence" /\ writer.payload \in Payloads /\ writer.seq \in Nat
      /\ writer.copied = 0 /\ Holds(file.cells, writer.payload, Len(writer.payload))
  BY DEF CloseSequence, WriterInv, FileInv, TypeOK, Writers
<1>3. /\ file' \in Files /\ file'.seq = writer.seq + 2 /\ file'.cells = file.cells
      /\ file'.len = file.len
  <2>1. file' = [file EXCEPT !.seq = NextSequence] /\ NextSequence = writer.seq + 2
    BY DEF CloseSequence, NextSequence
  <2>2. file \in Files /\ writer.seq + 2 \in Nat
    BY <1>2 DEF TypeOK
  <2> QED
    BY ONLY <2>1, <2>2 DEF Files
<1>4. /\ writer' \in Writers /\ writer'.at \in {"idle", "send"} /\ writer'.closing = FALSE
      /\ writer'.seq = writer.seq + 2 /\ writer'.done = writer.payload
      /\ writer'.copied = 0
  <2>1. writer' = [writer EXCEPT !.at = IF kind = "snapshot" THEN "idle" ELSE "send",
                                 !.closing = FALSE, !.payload = <<>>,
                                 !.seq = writer.seq + 2, !.done = writer.payload]
    BY DEF CloseSequence, NextSequence
  <2>2. (IF kind = "snapshot" THEN "idle" ELSE "send") \in {"idle", "send"}
    OBVIOUS
  <2>3. writer.seq + 2 \in Nat
    BY <1>2
  <2> QED
    BY <1>2, <2>1, <2>2, <2>3 DEF TypeOK, Writers
<1>5. TypeOK'
  <2>1. writer'.seq % 2 = 0
    BY <1>2, <1>4 DEF TypeOK
  <2> QED
    BY <1>1, <1>3, <1>4, <2>1 DEF TypeOK
<1>6. WriterInv'
  BY <1>2, <1>4 DEF WriterInv
<1>7. FileInv'
  BY <1>2, <1>3, <1>4 DEF FileInv, Settled
<1>8. ReaderInv' /\ MissedInv'
  <2>1. Len(file.cells) \in Nat
    BY DEF TypeOK, Files
  <2> QED
    BY <1>1, <1>3, <1>4, <2>1, ReaderKept
<1> QED
  BY <1>5, <1>6, <1>7, <1>8

(***************************************************************************)
(* The steps of the reader.                                                *)
(***************************************************************************)

\* An even sequence other than zero is in the file only while the file is settled.
LEMMA FileSequence ==
  ASSUME IInv
  PROVE  /\ file.seq <= writer.seq + 1
         /\ file.seq # 0 /\ file.seq % 2 = 0 => Settled /\ file.seq = writer.seq
<1>1. writer.seq \in Nat /\ writer.seq % 2 = 0
      /\ writer.at \in {"idle", "fill", "fields", "sequence", "copy", "send"}
  BY DEF IInv, TypeOK, Writers
<1>2. (writer.seq + 1) % 2 = 1
  BY <1>1
<1>3. CASE Settled
  BY <1>1, <1>3 DEF IInv, FileInv
<1>4. CASE writer.at \in {"fields", "sequence"}
  BY <1>1, <1>4 DEF IInv, FileInv
<1>5. CASE writer.at = "copy"
  BY <1>1, <1>2, <1>5 DEF IInv, FileInv
<1> QED
  BY <1>1, <1>3, <1>4, <1>5 DEF Settled

LEMMA WriterKept ==
  ASSUME IInv, UNCHANGED <<kind, file, writer, page, compositor>>, inbox' \in Nat,
         missed' \in Nat, reader' \in Readers
  PROVE  TypeOK' /\ WriterInv' /\ FileInv'
BY DEF IInv, TypeOK, WriterInv, FileInv, Settled, Holds

\* A read that ends leaves a sequence the writer has published.
LEMMA UnreadIs ==
  ASSUME IInv, NEW last \in Nat, last <= writer.seq, UNCHANGED <<kind, file, writer>>,
         reader' = Unread(last)
  PROVE  reader' \in Readers /\ ReaderInv'
<1>1. reader' \in Readers
  BY DEF Unread, Readers
<1>2. /\ reader'.at = "idle" /\ reader'.len = 0 /\ reader'.seq = 0 /\ reader'.got = <<>>
      /\ reader'.last = last
  BY DEF Unread
<1>3. writer.seq \in Nat /\ Len(file.cells) \in Nat
  BY DEF IInv, TypeOK, Writers, Files
<1>4. ReaderInv'
  BY <1>2, <1>3 DEF ReaderInv
<1> QED
  BY <1>1, <1>4

LEMMA StartStep ==
  ASSUME IInv, ReadOnMessage \/ ReadUnasked
  PROVE  IInv'
<1> USE DEF IInv
<1>1. UNCHANGED <<kind, file, writer, page, compositor, missed>> /\ reader.at = "idle"
  BY DEF ReadOnMessage, ReadUnasked, StartRead, ReaderOnly
<1>2. inbox' \in Nat
  BY DEF ReadOnMessage, ReadUnasked, TypeOK
<1>3. reader' = [reader EXCEPT !.at = "header"]
  BY DEF ReadOnMessage, ReadUnasked, StartRead
<1>4. /\ reader' \in Readers /\ reader'.at = "header"
      /\ reader'.len = reader.len /\ reader'.seq = reader.seq
      /\ reader'.got = reader.got /\ reader'.last = reader.last
  BY <1>3 DEF TypeOK, Readers
<1>5. missed' \in Nat
  BY <1>1 DEF TypeOK
<1>6. TypeOK' /\ WriterInv' /\ FileInv'
  BY <1>1, <1>2, <1>4, <1>5, WriterKept
<1>7. ReaderInv'
  BY <1>1, <1>4 DEF ReaderInv
<1>8. MissedInv'
  BY <1>1, <1>4 DEF MissedInv, Settled
<1> QED
  BY <1>6, <1>7, <1>8

LEMMA WithHalfIs ==
  ASSUME IInv, NEW half \in Halves
  PROVE  /\ WithHalf(half) \in Readers
         /\ WithHalf(half).at = reader.at /\ WithHalf(half).got = reader.got
         /\ WithHalf(half).last = reader.last
         /\ WithHalf(half).len <= Len(file.cells)
         /\ WithHalf(half).seq <= writer.seq + 1
<1>1. file.seq <= writer.seq + 1
  BY FileSequence
<1>2. reader.loaded \cup {half} \in SUBSET Halves
  BY DEF IInv, TypeOK, Readers
<1>3. file.magic \in BOOLEAN /\ file.len \in Nat /\ file.seq \in Nat
  BY DEF IInv, TypeOK, Files
<1>4. CASE half = "fields"
  <2>1. WithHalf(half) = [reader EXCEPT !.loaded = reader.loaded \cup {half},
                                        !.magic = file.magic, !.len = file.len]
    BY <1>4 DEF WithHalf
  <2>2. /\ WithHalf(half) \in Readers
        /\ WithHalf(half).at = reader.at /\ WithHalf(half).got = reader.got
        /\ WithHalf(half).last = reader.last /\ WithHalf(half).len = file.len
        /\ WithHalf(half).seq = reader.seq
    BY <1>2, <1>3, <2>1 DEF IInv, TypeOK, Readers
  <2> QED
    BY <2>2 DEF IInv, ReaderInv, FileInv
<1>5. CASE half # "fields"
  <2>1. WithHalf(half) = [reader EXCEPT !.loaded = reader.loaded \cup {half}, !.seq = file.seq]
    BY <1>5 DEF WithHalf
  <2>2. /\ WithHalf(half) \in Readers
        /\ WithHalf(half).at = reader.at /\ WithHalf(half).got = reader.got
        /\ WithHalf(half).last = reader.last /\ WithHalf(half).len = reader.len
        /\ WithHalf(half).seq = file.seq
    BY <1>2, <1>3, <2>1 DEF IInv, TypeOK, Readers
  <2> QED
    BY <1>1, <2>2 DEF IInv, ReaderInv
<1> QED
  BY <1>4, <1>5

LEMMA LoadHalfStep ==
  ASSUME IInv, NEW half \in Halves, LoadHalf(half)
  PROVE  IInv'
<1> USE DEF IInv
<1>1. UNCHANGED <<kind, file, writer, page, compositor, inbox, missed>>
      /\ reader.at = "header" /\ reader' = WithHalf(half)
  BY DEF LoadHalf, ReaderOnly
<1>2. inbox' \in Nat /\ missed' \in Nat
  BY <1>1 DEF TypeOK
<1>3. /\ reader' \in Readers /\ reader'.at = "header" /\ reader'.got = reader.got
      /\ reader'.last = reader.last /\ reader'.len <= Len(file.cells)
      /\ reader'.seq <= writer.seq + 1
  BY <1>1, WithHalfIs
<1>4. TypeOK' /\ WriterInv' /\ FileInv'
  BY <1>1, <1>2, <1>3, WriterKept
<1>5. ReaderInv'
  BY <1>1, <1>3 DEF ReaderInv
<1>6. MissedInv'
  BY <1>1, <1>3 DEF MissedInv, Settled
<1> QED
  BY <1>4, <1>5, <1>6

LEMMA LoadOtherHalfStep ==
  ASSUME IInv, NEW half \in Halves, LoadOtherHalf(half)
  PROVE  IInv'
<1> USE DEF IInv
<1>1. UNCHANGED <<kind, file, writer, page, compositor, inbox, missed>> /\ reader.at = "header"
  BY DEF LoadOtherHalf, ReaderOnly
<1>2. inbox' \in Nat /\ missed' \in Nat
  BY <1>1 DEF TypeOK
<1> DEFINE header == WithHalf(half)
<1>3. /\ header \in Readers /\ header.got = <<>>
      /\ header.last = reader.last /\ header.len <= Len(file.cells)
      /\ header.seq <= writer.seq + 1
  BY <1>1, WithHalfIs DEF ReaderInv
<1>4. reader' = IF News(header) THEN [header EXCEPT !.at = "copy"] ELSE Unread(reader.last)
  BY DEF LoadOtherHalf
<1> HIDE DEF header
<1>5. reader' \in Readers /\ ReaderInv' /\ reader'.last = reader.last
  <2>1. CASE News(header)
    <3>1. /\ reader' \in Readers /\ reader'.at = "copy" /\ reader'.got = <<>>
          /\ reader'.last = reader.last /\ reader'.len = header.len
          /\ reader'.seq = header.seq
      BY <1>3, <1>4, <2>1 DEF Readers
    <3>2. /\ header.seq % 2 = 0 /\ header.seq # reader.last
          /\ kind # "snapshot" => header.seq # 0
      <4>1. header.seq \in Nat /\ reader.last \in Nat
        BY <1>3 DEF TypeOK, Readers
      <4> QED
        BY <1>3, <2>1, <4>1 DEF News
    <3> QED
      BY <1>1, <1>3, <3>1, <3>2 DEF ReaderInv
  <2>2. CASE ~News(header)
    <3>1. reader.last \in Nat /\ reader.last <= writer.seq
      BY DEF TypeOK, Readers, ReaderInv
    <3>2. reader' = Unread(reader.last)
      BY <1>4, <2>2
    <3> QED
      BY <1>1, <3>1, <3>2, UnreadIs DEF Unread
  <2> QED
    BY <2>1, <2>2
<1>6. TypeOK' /\ WriterInv' /\ FileInv'
  BY <1>1, <1>2, <1>5, WriterKept
<1>7. MissedInv'
  BY <1>1, <1>5 DEF MissedInv, Settled
<1> QED
  BY <1>5, <1>6, <1>7

LEMMA LoadCellStep ==
  ASSUME IInv, LoadCell
  PROVE  IInv'
<1> USE DEF IInv
<1>1. UNCHANGED <<kind, file, writer, page, compositor, inbox, missed>> /\ reader.at = "copy"
  BY DEF LoadCell, ReaderOnly
<1>2. inbox' \in Nat /\ missed' \in Nat
  BY <1>1 DEF TypeOK
<1> DEFINE k == Len(reader.got) + 1
<1>3. reader.got \in Seq(Cells) /\ Len(reader.got) \in Nat /\ reader.len \in Nat
      /\ file.cells \in Seq(Cells) /\ Len(file.cells) \in Nat
      /\ writer.seq \in Nat /\ reader.seq \in Nat
  BY DEF TypeOK, Readers, Files, Writers
<1>4. k \in 1 .. Len(file.cells)
  BY <1>3 DEF LoadCell, ReaderInv
<1>5. file.cells[k] \in Cells
  BY <1>3, <1>4
<1>6. reader' = [reader EXCEPT !.got = Append(reader.got, file.cells[k])]
  BY DEF LoadCell
<1> HIDE DEF k
<1>7. /\ Append(reader.got, file.cells[k]) \in Seq(Cells)
      /\ Len(Append(reader.got, file.cells[k])) = k
      /\ \A i \in 1 .. Len(reader.got) : Append(reader.got, file.cells[k])[i] = reader.got[i]
      /\ Append(reader.got, file.cells[k])[k] = file.cells[k]
  BY <1>3, <1>5, AppendProperties DEF k
<1>8. /\ reader' \in Readers /\ reader'.at = "copy" /\ reader'.len = reader.len
      /\ reader'.seq = reader.seq /\ reader'.last = reader.last
      /\ reader'.got = Append(reader.got, file.cells[k])
  BY <1>1, <1>6, <1>7 DEF TypeOK, Readers
<1>9. ReaderInv'
  <2>1. ASSUME Settled, reader.seq = writer.seq, NEW i \in 1 .. k, i <= Len(writer.done)
        PROVE  reader'.got[i] = writer.done[i]
    <3>1. Holds(file.cells, writer.done, Len(writer.done))
      BY <2>1 DEF FileInv
    <3>2. Len(writer.done) \in Nat
      BY PayloadIs DEF TypeOK, Writers
    <3>3. CASE i = k
      BY <1>4, <1>7, <1>8, <2>1, <3>1, <3>2, <3>3 DEF Holds
    <3>4. CASE i # k
      <4>1. i \in 1 .. Len(reader.got)
        BY <1>3, <3>4 DEF k
      <4> QED
        BY <1>1, <1>7, <1>8, <2>1, <4>1 DEF ReaderInv
    <3> QED
      BY <3>3, <3>4
  <2> QED
    BY <1>1, <1>7, <1>8, <2>1 DEF ReaderInv, Settled
<1>10. TypeOK' /\ WriterInv' /\ FileInv'
  BY <1>1, <1>2, <1>8, WriterKept
<1>11. MissedInv'
  BY <1>1, <1>8 DEF MissedInv, Settled
<1> QED
  BY <1>9, <1>10, <1>11

LEMMA RefuseStep ==
  ASSUME IInv, RefuseCopy
  PROVE  IInv'
<1> USE DEF IInv
<1>1. UNCHANGED <<kind, file, writer, page, compositor, inbox, missed>>
      /\ reader' = Unread(reader.last)
  BY DEF RefuseCopy, ReaderOnly
<1>2. inbox' \in Nat /\ missed' \in Nat
  BY <1>1 DEF TypeOK
<1>3. reader.last \in Nat /\ reader.last <= writer.seq
  BY DEF TypeOK, Readers, ReaderInv
<1>4. reader' \in Readers /\ ReaderInv' /\ reader'.last = reader.last
  BY <1>1, <1>3, UnreadIs DEF Unread
<1>5. TypeOK' /\ WriterInv' /\ FileInv'
  BY <1>1, <1>2, <1>4, WriterKept
<1>6. MissedInv'
  BY <1>1, <1>4 DEF MissedInv, Settled
<1> QED
  BY <1>4, <1>5, <1>6

\* Where the sequence did not move, the writer has not begun another write.
LEMMA AcceptedSequence ==
  ASSUME IInv, AcceptCopy
  PROVE  /\ reader.seq \in Nat /\ reader.seq <= writer.seq
         /\ reader.seq # 0 => Settled /\ reader.seq = writer.seq
<1>1. reader.seq = file.seq /\ reader.seq % 2 = 0 /\ reader.seq <= writer.seq + 1
  BY DEF AcceptCopy, Copied, IInv, ReaderInv
<1>2. reader.seq \in Nat /\ writer.seq \in Nat
  BY DEF IInv, TypeOK, Readers, Writers
<1>3. reader.seq # 0 => Settled /\ reader.seq = writer.seq
  BY <1>1, FileSequence
<1> QED
  BY <1>2, <1>3

\* What decodes is as long as its prefix says, and so is what was published.
LEMMA WholePayload ==
  ASSUME IInv, AcceptCopy, reader.seq # 0, Decodes(reader.got)
  PROVE  reader.got = writer.done /\ writer.done \in Payloads
<1>1. Settled /\ reader.seq = writer.seq
  BY AcceptedSequence
<1>2. writer.done \in Payloads
  BY <1>1 DEF IInv, WriterInv
<1>3. /\ writer.done \in Seq(Cells) /\ Len(writer.done) > 0
      /\ writer.done[1].count = Len(writer.done) - 1
  BY <1>2, PayloadIs
<1>4. /\ reader.got \in Seq(Cells) /\ Len(reader.got) > 0
      /\ reader.got[1].count = Len(reader.got) - 1
  BY DEF Decodes, IInv, TypeOK, Readers
<1>5. \A i \in 1 .. Len(reader.got) : i <= Len(writer.done) => reader.got[i] = writer.done[i]
  BY <1>1 DEF AcceptCopy, Copied, IInv, ReaderInv
<1>6. reader.got[1] = writer.done[1]
  BY <1>3, <1>4, <1>5
<1>7. Len(reader.got) = Len(writer.done)
  <2>1. Len(reader.got) \in Nat /\ Len(writer.done) \in Nat
    BY <1>3, <1>4
  <2>2. Len(reader.got) - 1 = Len(writer.done) - 1
    BY <1>3, <1>4, <1>6
  <2> QED
    BY <2>1, <2>2
<1>8. \A i \in 1 .. Len(reader.got) : reader.got[i] = writer.done[i]
  BY <1>3, <1>5, <1>7
<1> QED
  BY <1>2, <1>3, <1>4, <1>7, <1>8, SeqEqual

LEMMA AcceptStep ==
  ASSUME IInv, AcceptCopy
  PROVE  IInv'
<1> USE DEF IInv
<1>1. UNCHANGED <<kind, file, writer, page, compositor, inbox>> /\ reader.at = "copy"
  BY DEF AcceptCopy, Copied, ReaderOnly
<1>2. /\ reader.seq \in Nat /\ reader.seq <= writer.seq
      /\ reader.seq # 0 => Settled /\ reader.seq = writer.seq
  BY AcceptedSequence
<1>3. missed' \in {missed, reader.seq} /\ (missed' # missed => reader.seq # 0 /\ reader'.last = reader.seq)
  BY DEF AcceptCopy, Consume, Unread
<1>4. inbox' \in Nat /\ missed' \in Nat
  BY <1>1, <1>2, <1>3 DEF TypeOK
<1>5. reader.last \in Nat /\ reader.last <= writer.seq
  BY DEF TypeOK, Readers, ReaderInv
<1>6. /\ reader' \in Readers /\ ReaderInv'
      /\ reader'.last \in {reader.last, reader.seq}
  <2>1. CASE Decodes(reader.got)
    <3>1. reader' = [reader EXCEPT !.at = "apply", !.last = reader.seq]
      BY <2>1 DEF AcceptCopy, Consume
    <3>2. /\ reader' \in Readers /\ reader'.at = "apply" /\ reader'.last = reader.seq
          /\ reader'.len = reader.len /\ reader'.seq = reader.seq /\ reader'.got = reader.got
      BY <1>2, <3>1 DEF TypeOK, Readers
    <3>3. reader.seq # 0 => reader.got \in Payloads
      BY <2>1, WholePayload
    <3> QED
      BY <1>1, <1>2, <3>2, <3>3 DEF ReaderInv
  <2>2. CASE ~Decodes(reader.got)
    <3>1. PICK last \in {reader.last, reader.seq} : reader' = Unread(last)
      BY <2>2 DEF AcceptCopy, Consume
    <3>2. last \in Nat /\ last <= writer.seq
      BY <1>2, <1>5
    <3> QED
      BY <1>1, <3>1, <3>2, UnreadIs DEF Unread
  <2> QED
    BY <2>1, <2>2
<1>7. TypeOK' /\ WriterInv' /\ FileInv'
  BY <1>1, <1>4, <1>6, WriterKept
<1>8. MissedInv'
  <2>1. missed \in Nat /\ writer.seq \in Nat
    BY DEF TypeOK, Writers
  <2>2. missed' <= writer.seq
    BY <1>2, <1>3 DEF MissedInv
  <2>3. ASSUME missed' # 0, missed' = writer.seq, Settled
        PROVE  reader'.last = writer.seq
    <3>1. reader.seq = file.seq /\ file.seq = writer.seq
      BY <2>3 DEF AcceptCopy, FileInv
    <3>2. CASE missed' # missed
      BY <1>3, <3>1, <3>2
    <3>3. CASE missed' = missed
      BY <1>6, <2>3, <3>1, <3>3 DEF MissedInv
    <3> QED
      BY <3>2, <3>3
  <2> QED
    BY <1>1, <2>2, <2>3 DEF MissedInv, Settled
<1> QED
  BY <1>6, <1>7, <1>8

LEMMA ApplyStep ==
  ASSUME IInv, Apply
  PROVE  IInv'
<1> USE DEF IInv
<1>1. UNCHANGED <<kind, file, writer, page, inbox, missed>> /\ reader.at = "apply"
      /\ reader' = Unread(reader.last)
  BY DEF Apply
<1>2. reader.last \in Nat /\ reader.last <= writer.seq
  BY DEF TypeOK, Readers, ReaderInv
<1>3. reader' \in Readers /\ ReaderInv' /\ reader'.last = reader.last
  BY <1>1, <1>2, UnreadIs DEF Unread
<1>4. compositor' \in Compositors
  <2>1. CASE kind = "snapshot"
    BY <2>1 DEF Apply, Applied, TypeOK
  <2>2. CASE kind # "snapshot"
    <3>1. Rows \in Layouts
      BY <1>1, <2>2, PayloadIs DEF ReaderInv, Rows
    <3>2. \/ compositor' = compositor
          \/ compositor' = [compositor EXCEPT !.staged = NoLayout, !.shown = <<>>]
          \/ compositor' = [compositor EXCEPT !.staged = Rows]
          \/ compositor' = [compositor EXCEPT !.shown = Rows]
      <4>1. kind \in {"ui", "exclusion"}
        BY <2>2, KindsAssumption DEF TypeOK
      <4> QED
        BY <2>2, <4>1 DEF Apply, Applied
    <3> QED
      BY <3>1, <3>2 DEF TypeOK, Compositors
  <2> QED
    BY <2>1, <2>2
<1>5. TypeOK'
  BY <1>1, <1>3, <1>4 DEF TypeOK
<1>6. WriterInv' /\ FileInv'
  BY <1>1 DEF WriterInv, FileInv, Settled, Holds
<1>7. MissedInv'
  BY <1>1, <1>3 DEF MissedInv, Settled
<1> QED
  BY <1>3, <1>5, <1>6, <1>7

LEMMA InvStep == IInv /\ [Next]_vars => IInv'
<1> SUFFICES ASSUME IInv, [Next]_vars PROVE IInv'
  OBVIOUS
<1>1. CASE Page
  BY <1>1, PageStep, BeginStep, SendStep DEF Page
<1>2. CASE Write
  BY <1>2, BeginStep, FillHeaderStep, WriteFieldsStep, OpenSequenceStep, CopyCellStep,
     CloseSequenceStep DEF Write
<1>3. CASE Read
  BY <1>3, StartStep, LoadHalfStep, LoadOtherHalfStep, LoadCellStep, RefuseStep, AcceptStep,
     ApplyStep DEF Read
<1>4. CASE PromoteWithFrame \/ LoseOutputs \/ SendOutputLayout
  BY <1>4, CompositorStep
<1>5. CASE UNCHANGED vars
  BY <1>5 DEF vars, IInv, TypeOK, WriterInv, FileInv, ReaderInv, MissedInv, Settled, Holds
<1> QED
  BY <1>1, <1>2, <1>3, <1>4, <1>5 DEF Next

(* The files, their two ends and the compositor's copies stay within their *)
(* types, however the steps of writer and reader interleave.               *)
THEOREM TypeCorrect == Spec => []TypeOK
<1>1. IInv => TypeOK
  BY DEF IInv
<1> QED
  BY <1>1, InvInit, InvStep, PTL DEF Spec

(***************************************************************************)
(* The refinement.                                                         *)
(***************************************************************************)

Waiting == writer.seq # 0 /\ (writer.seq # reader.last \/ missed = writer.seq)
Slot    == IF Waiting THEN Published ELSE NoLayout
InHand  == [seq |-> reader.seq, payload |-> reader.got]
Hand    == IF reader.at = "apply" /\ reader.seq # 0 THEN InHand ELSE NoLayout

\* What is waiting or in the reader's hand is a value.
LEMMA ValuesAre ==
  ASSUME IInv
  PROVE  /\ writer.seq # 0 => Published \in [seq : Nat, payload : Payloads]
                              /\ Published # NoLayout
         /\ reader.at = "apply" /\ reader.seq # 0 => InHand # NoLayout
<1>1. writer.seq # 0 => Published \in [seq : Nat, payload : Payloads]
  BY DEF IInv, TypeOK, Writers, WriterInv, Published
<1>2. reader.at = "apply" /\ reader.seq # 0 => InHand \in [seq : Nat, payload : Payloads]
  BY DEF IInv, TypeOK, Readers, ReaderInv, InHand
<1> QED
  BY <1>1, <1>2, LayoutsAssumption

LEMMA ExchangeInit == Init => Exchange!Init
BY DEF Init, Unread, Exchange!Init

\* A write that is complete replaces what is waiting.
LEMMA ClosePuts ==
  ASSUME IInv, CloseSequence
  PROVE  Exchange!Put
<1>1. IInv'
  BY CloseSequenceStep
<1>2. /\ UNCHANGED <<reader, missed>>
      /\ writer.seq \in Nat /\ writer'.seq = writer.seq + 2
      /\ reader.last <= writer.seq
  BY DEF CloseSequence, WriterOnly, NextSequence, IInv, TypeOK, Writers, ReaderInv
<1>3. reader.last \in Nat
  BY DEF IInv, TypeOK, Readers
<1>4. writer'.seq # 0 /\ writer'.seq # reader'.last
  BY <1>2, <1>3
<1>5. Published' \in [seq : Nat, payload : Payloads]
  <2>1. writer' \in Writers /\ (writer'.seq # 0 => writer'.done \in Payloads)
    BY <1>1 DEF IInv, TypeOK, WriterInv
  <2> QED
    BY <1>4, <2>1 DEF Published, Writers
<1>6. Slot' = Published'
  BY <1>4 DEF Slot, Waiting
<1>7. UNCHANGED Hand
  BY <1>2 DEF Hand, InHand
<1> QED
  BY <1>5, <1>6, <1>7 DEF Exchange!Put, Slot, Waiting, Hand, InHand

\* A copy that is accepted takes what is waiting, if it is worth anything.
LEMMA AcceptTakes ==
  ASSUME IInv, AcceptCopy
  PROVE  [Exchange!Next]_Exchange!vars
<1>1. UNCHANGED writer /\ reader.at = "copy" /\ reader.seq # reader.last /\ Hand = NoLayout
  BY DEF AcceptCopy, Copied, ReaderOnly, IInv, ReaderInv, Hand
<1>2. /\ writer.seq \in Nat
      /\ reader.seq # 0 => Settled /\ reader.seq = writer.seq
  BY AcceptedSequence DEF IInv, TypeOK, Writers
<1>3. CASE reader.seq # 0 /\ Decodes(reader.got)
  <2>1. reader.got = writer.done
    BY <1>3, WholePayload
  <2>2. reader' = [reader EXCEPT !.at = "apply", !.last = reader.seq] /\ missed' = missed
    BY <1>3 DEF AcceptCopy, Consume
  <2>3. /\ reader'.at = "apply" /\ reader'.last = reader.seq
        /\ reader'.seq = reader.seq /\ reader'.got = reader.got
    BY <2>2 DEF IInv, TypeOK, Readers
  <2>4. missed # writer.seq
    BY <1>1, <1>2, <1>3 DEF IInv, MissedInv
  <2>5. Slot = Published /\ Slot' = NoLayout
    BY <1>1, <1>2, <1>3, <2>2, <2>3, <2>4 DEF Slot, Waiting
  <2>6. Hand' = Published
    BY <1>1, <1>2, <1>3, <2>1, <2>3 DEF Hand, InHand, Published
  <2>7. Published # NoLayout
    BY <1>2, <1>3, ValuesAre
  <2>8. Exchange!Take
    BY <1>1, <2>5, <2>6, <2>7 DEF Exchange!Take, Slot, Waiting, Hand, InHand
  <2> QED
    BY <2>8 DEF Exchange!Next
<1>4. CASE reader.seq # 0 /\ ~Decodes(reader.got)
  <2>1. \/ reader' = Unread(reader.seq) /\ missed' = reader.seq
        \/ reader' = Unread(reader.last) /\ missed' = missed
    BY <1>4 DEF AcceptCopy, Consume
  <2>2. Hand' = NoLayout
    BY <2>1 DEF Hand, Unread
  <2>3. Slot = Published
    BY <1>1, <1>2, <1>4 DEF Slot, Waiting
  <2>4. Slot' = Published
    BY <1>1, <1>2, <1>4, <2>1 DEF Slot, Waiting, Unread, Published
  <2> QED
    BY <1>1, <2>2, <2>3, <2>4 DEF Exchange!vars, Slot, Waiting, Hand, InHand
<1>5. CASE reader.seq = 0
  <2>1. missed' = missed
    BY <1>5 DEF AcceptCopy, Consume
  <2>2. Hand' = NoLayout /\ reader'.last \in {0, reader.last}
    <3>1. CASE Decodes(reader.got)
      BY <1>5, <3>1 DEF AcceptCopy, Consume, Hand, IInv, TypeOK, Readers
    <3>2. CASE ~Decodes(reader.got)
      BY <1>5, <3>2 DEF AcceptCopy, Consume, Hand, Unread
    <3> QED
      BY <3>1, <3>2
  <2>3. CASE reader'.last = reader.last
    <3>1. UNCHANGED Slot
      BY <1>1, <2>1, <2>3 DEF Slot, Waiting, Published
    <3> QED
      BY <1>1, <2>2, <3>1 DEF Exchange!vars, Slot, Waiting, Hand, InHand
  <2>4. CASE reader'.last = 0 /\ writer.seq # 0
    <3>1. Slot' = Published
      BY <1>1, <2>4 DEF Slot, Waiting, Published
    <3>2. Exchange!Put
      BY <1>1, <2>2, <2>4, <3>1, ValuesAre DEF Exchange!Put, Slot, Waiting, Hand, InHand
    <3> QED
      BY <3>2 DEF Exchange!Next
  <2>5. CASE writer.seq = 0
    BY <1>1, <2>2, <2>5 DEF Exchange!vars, Waiting, Hand, InHand
  <2> QED
    BY <2>2, <2>3, <2>4, <2>5
<1> QED
  BY <1>3, <1>4, <1>5

\* A reader that has applied what it read lets go of it.
LEMMA ApplyLetsGo ==
  ASSUME IInv, Apply
  PROVE  [Exchange!Next]_Exchange!vars
<1>1. /\ UNCHANGED <<writer, missed>> /\ reader.at = "apply"
      /\ reader'.last = reader.last /\ reader'.at = "idle"
  BY DEF Apply, Unread
<1>2. UNCHANGED Slot /\ Hand' = NoLayout
  BY <1>1 DEF Slot, Waiting, Published, Hand
<1>3. CASE reader.seq = 0
  BY <1>1, <1>2, <1>3 DEF Exchange!vars, Slot, Waiting, Hand, InHand
<1>4. CASE reader.seq # 0
  <2>1. Hand # NoLayout
    BY <1>1, <1>4, ValuesAre DEF Hand
  <2>2. Exchange!LetGo
    BY <1>2, <2>1 DEF Exchange!LetGo, Slot, Waiting, Hand, InHand
  <2> QED
    BY <2>2 DEF Exchange!Next
<1> QED
  BY <1>3, <1>4

\* All other steps are none of the exchange's.
LEMMA OtherStutters ==
  ASSUME IInv, UNCHANGED missed, writer'.seq = writer.seq, writer'.done = writer.done,
         reader'.last = reader.last, reader'.at # "apply",
         reader.at # "apply"
  PROVE  UNCHANGED Exchange!vars
<1>1. UNCHANGED Slot
  BY DEF Slot, Waiting, Published
<1>2. UNCHANGED Hand
  BY DEF Hand
<1> QED
  BY <1>1, <1>2 DEF Exchange!vars, Slot, Waiting, Hand, InHand

LEMMA ReaderAside ==
  ASSUME IInv, UNCHANGED <<reader, missed>>, writer'.seq = writer.seq,
         writer'.done = writer.done
  PROVE  UNCHANGED Exchange!vars
<1>1. UNCHANGED Slot
  BY DEF Slot, Waiting, Published
<1>2. UNCHANGED Hand
  BY DEF Hand, InHand
<1> QED
  BY <1>1, <1>2 DEF Exchange!vars, Slot, Waiting, Hand, InHand

LEMMA ExchangeStep == IInv /\ [Next]_vars => [Exchange!Next]_Exchange!vars
<1> SUFFICES ASSUME IInv, [Next]_vars PROVE [Exchange!Next]_Exchange!vars
  OBVIOUS
<1>1. CASE \/ \E layout \in Layouts : Remeasure(layout)
           \/ ReceiveSnapshot
           \/ FlushUnchanged
           \/ PromoteWithFrame
           \/ LoseOutputs
           \/ SendOutputLayout
           \/ UNCHANGED vars
  <2>1. UNCHANGED <<writer, reader, missed>>
    BY <1>1 DEF Remeasure, ReceiveSnapshot, FlushUnchanged, PromoteWithFrame, LoseOutputs,
                SendOutputLayout, CompositorOnly, vars
  <2> QED
    BY <2>1, ReaderAside
<1>2. CASE \/ FailWrite
           \/ FlushChanged
           \/ \E layout \in Layouts : PublishSnapshot(layout)
           \/ SendSync
           \/ FillHeader
           \/ WriteFields
           \/ OpenSequence
           \/ CopyCell
  <2>1. UNCHANGED <<reader, missed>>
    BY <1>2 DEF FailWrite, FlushChanged, PublishSnapshot, SendSync, FillHeader, WriteFields,
                OpenSequence, CopyCell, WriterOnly
  <2>2. writer'.seq = writer.seq /\ writer'.done = writer.done
    BY <1>2 DEF FailWrite, FlushChanged, PublishSnapshot, SendSync, FillHeader, WriteFields,
                OpenSequence, CopyCell, IInv, TypeOK, Writers
  <2> QED
    BY <2>1, <2>2, ReaderAside
<1>3. CASE CloseSequence
  BY <1>3, ClosePuts DEF Exchange!Next
<1>4. CASE \/ ReadOnMessage
           \/ ReadUnasked
           \/ \E half \in Halves : LoadHalf(half) \/ LoadOtherHalf(half)
           \/ LoadCell
           \/ RefuseCopy
  <2>1. UNCHANGED <<writer, missed>> /\ reader.at # "apply"
    BY <1>4 DEF ReadOnMessage, ReadUnasked, StartRead, LoadHalf, LoadOtherHalf, LoadCell,
                RefuseCopy, Copied, ReaderOnly
  <2>2. reader'.last = reader.last /\ reader'.at # "apply"
    <3>1. CASE ReadOnMessage \/ ReadUnasked
      BY <3>1 DEF ReadOnMessage, ReadUnasked, StartRead, IInv, TypeOK, Readers
    <3>2. ASSUME NEW half \in Halves, LoadHalf(half) \/ LoadOtherHalf(half)
          PROVE  reader'.last = reader.last /\ reader'.at # "apply"
      <4>1. reader' \in {WithHalf(half), Unread(reader.last),
                         [WithHalf(half) EXCEPT !.at = "copy"]}
        BY <3>2 DEF LoadHalf, LoadOtherHalf
      <4>2. /\ WithHalf(half) \in Readers
            /\ WithHalf(half).last = reader.last /\ WithHalf(half).at = reader.at
        BY WithHalfIs
      <4> QED
        BY <2>1, <4>1, <4>2 DEF Unread, Readers
    <3>3. CASE LoadCell
      BY <3>3 DEF LoadCell, IInv, TypeOK, Readers
    <3>4. CASE RefuseCopy
      BY <3>4 DEF RefuseCopy, Unread
    <3> QED
      BY <1>4, <3>1, <3>2, <3>3, <3>4
  <2> QED
    BY <2>1, <2>2, OtherStutters
<1>5. CASE AcceptCopy
  BY <1>5, AcceptTakes
<1>6. CASE Apply
  BY <1>6, ApplyLetsGo
<1> QED
  BY <1>1, <1>2, <1>3, <1>4, <1>5, <1>6 DEF Next, Page, Write, Read

(* However the stores of a write and the loads of a read interleave, what  *)
(* the reader gets to apply is the payload of one write, whole, and the    *)
(* latest complete one when it was accepted.                               *)
THEOREM WholePayloads == Spec => RefinesExchange
BY InvInit, InvStep, ExchangeInit, ExchangeStep, PTL DEF Spec, RefinesExchange, Exchange!Safety
(***************************************************************************)
(* Both ends agree when nothing is on its way.                             *)
(***************************************************************************)

\* What the page is writing, or wrote last, is what it measured and remembers.
PageInv ==
  /\ page.rev <= compositor.rev
  /\ writer.at \in {"fill", "fields", "sequence", "copy"} =>
       writer.payload = Encode(page.rev, page.layout)
  /\ writer.at = "send" => writer.seq # 0 /\ writer.done = Encode(page.rev, page.layout)
  /\ (writer.at = "idle" /\ page.last # NoLayout) =>
       /\ writer.seq # 0
       /\ ~page.fresh /\ ~page.pending => writer.done = Encode(page.rev, page.last)
  /\ (kind = "exclusion" /\ writer.at = "idle" /\ ~NeedsFlush) => page.layout = page.last

\* The header of a finished write.
HeaderInv ==
  /\ (writer.at = "sequence" /\ writer.closing) => file.magic /\ file.len = Len(writer.payload)
  /\ (Settled /\ writer.seq # 0) => file.magic /\ file.len = Len(writer.done)

\* A read that has met nothing but the last write, and so will give its payload.
Seeing ==
  /\ reader.at \in {"header", "copy"}
  /\ reader.at = "copy" \/ "fields" \in reader.loaded =>
       reader.magic /\ reader.len = Len(writer.done)
  /\ reader.at = "copy" \/ "sequence" \in reader.loaded => reader.seq = writer.seq

\* A write the compositor has not read has a message, or a read, that will bring it.
ComingInv ==
  /\ reader.at = "idle" => reader.loaded = {}
  /\ (writer.at = "idle" /\ writer.seq # reader.last) => inbox > 0 \/ Seeing

\* The compositor has the payload, or will refuse every copy of it: the layout of the
\* outputs is another one, or will be when there are outputs again.
Reflected(payload) ==
  \/ payload[1].rev < compositor.rev
  \/ ~compositor.outputs
  \/ Tail(payload) = IF compositor.staged # NoLayout THEN compositor.staged
                     ELSE compositor.shown

AppliedInv ==
  /\ kind = "exclusion" => compositor.staged = NoLayout
  /\ writer.seq # 0 => writer.done[1].rev <= compositor.rev
  /\ reader.at = "copy" => reader.last < reader.seq
  /\ reader.at = "apply" =>
       /\ reader.last = reader.seq
       /\ reader.seq = writer.seq => reader.got = writer.done
  /\ (writer.seq # 0 /\ reader.last = writer.seq /\ reader.at # "apply" /\ missed # writer.seq) =>
       Reflected(writer.done)

UpInv == kind # "snapshot" => PageInv /\ HeaderInv /\ ComingInv /\ AppliedInv

LEMMA EncodeIs ==
  ASSUME NEW rev \in 0 .. MaxRevision, NEW layout \in Layouts
  PROVE  /\ Encode(rev, layout) \in Payloads
         /\ Encode(rev, layout)[1].rev = rev
         /\ Tail(Encode(rev, layout)) = layout
<1> DEFINE prefix == [rev |-> rev, count |-> Len(layout)]
           p == Encode(rev, layout)
<1>1. layout \in Seq(Cells) /\ Len(layout) \in Nat
  BY LayoutIs
<1>2. prefix \in Cells /\ prefix.rev = rev
  BY <1>1 DEF Cells
<1>3. p = <<prefix>> \o layout
  BY DEF Encode
<1>4. p \in Payloads
  BY DEF Payloads
<1> HIDE DEF prefix, p
<1>5. <<prefix>> \in Seq(Cells)
  BY <1>2
<1>6. p \in Seq(Cells) /\ Len(p) = Len(layout) + 1 /\ p[1] = prefix
  BY <1>1, <1>3, <1>5
<1>7. Tail(p) = layout
  <2>1. Tail(p) \in Seq(Cells) /\ Len(Tail(p)) = Len(layout)
    BY <1>1, <1>6
  <2>2. \A i \in 1 .. Len(layout) : Tail(p)[i] = layout[i]
    BY <1>1, <1>2, <1>3, <1>5, <1>6
  <2> QED
    BY <1>1, <2>1, <2>2, SeqEqual
<1> QED
  BY <1>2, <1>4, <1>6, <1>7 DEF p

LEMMA UpInit == Init => UpInv
<1> SUFFICES ASSUME Init, kind # "snapshot" PROVE UpInv
  BY DEF UpInv
<1>1. /\ writer.at = "idle" /\ writer.seq = 0 /\ reader.at = "idle" /\ reader.loaded = {}
      /\ reader.last = 0 /\ page.rev = 0 /\ page.last = NoLayout /\ page.dirty = TRUE
      /\ compositor.rev = 0 /\ compositor.staged = NoLayout
  BY DEF Init, Unread
<1>2. PageInv
  BY <1>1 DEF PageInv, NeedsFlush
<1>3. HeaderInv /\ ComingInv /\ AppliedInv
  BY <1>1 DEF HeaderInv, ComingInv, AppliedInv
<1> QED
  BY <1>2, <1>3 DEF UpInv

\* Steps of the page: the compositor and the reader are not concerned.
LEMMA UpPage ==
  ASSUME IInv, UpInv, kind # "snapshot",
         \/ \E layout \in Layouts : Remeasure(layout)
         \/ ReceiveSnapshot \/ FlushUnchanged \/ FailWrite \/ FlushChanged \/ SendSync
  PROVE  UpInv'
<1>1. /\ UNCHANGED <<kind, file, reader, compositor, missed>>
      /\ writer'.seq = writer.seq /\ writer'.done = writer.done
      /\ writer'.closing = writer.closing
  BY DEF IInv, TypeOK, Writers, Remeasure, ReceiveSnapshot, FlushUnchanged, FailWrite,
         FlushChanged, SendSync
<1>2. /\ writer.at \in {"idle", "send"} /\ writer'.at \in {"idle", "fill"}
      /\ writer'.at = "fill" => writer'.payload = Encode(page'.rev, page'.layout)
      /\ writer.at = "idle" /\ writer'.at = "idle" => inbox' = inbox
      /\ writer.at = "send" => inbox' = inbox + 1
  <2>1. CASE \/ \E layout \in Layouts : Remeasure(layout)
             \/ ReceiveSnapshot \/ FlushUnchanged
    BY <2>1 DEF Remeasure, ReceiveSnapshot, FlushUnchanged, PageRuns
  <2>2. CASE FailWrite
    BY <2>2 DEF IInv, TypeOK, Writers, FailWrite, PageRuns
  <2>3. CASE FlushChanged
    BY <2>3 DEF IInv, TypeOK, Writers, FlushChanged, PageRuns
  <2>4. CASE SendSync
    BY <2>4 DEF IInv, TypeOK, Writers, SendSync
  <2> QED
    BY <2>1, <2>2, <2>3, <2>4
<1> USE DEF UpInv
<1>3. PageInv'
  <2>1. CASE \E layout \in Layouts : Remeasure(layout)
    <3>1. /\ page'.rev = page.rev /\ page'.last = page.last /\ page'.fresh = page.fresh
          /\ page'.pending = page.pending /\ page'.dirty = TRUE
          /\ writer.at = "idle" /\ writer' = writer
      BY <2>1 DEF IInv, TypeOK, Pages, Remeasure, PageRuns
    <3> QED
      BY <1>1, <3>1 DEF PageInv, NeedsFlush
  <2>2. CASE ReceiveSnapshot
    <3>1. /\ page'.rev \in {page.rev, compositor.rev} /\ page'.last = page.last
          /\ page'.fresh = TRUE /\ writer.at = "idle" /\ writer' = writer
      BY <2>2 DEF IInv, TypeOK, Pages, ReceiveSnapshot, PageRuns
    <3>2. compositor.rev \in Int
      BY DEF IInv, TypeOK, Compositors
    <3> QED
      BY <1>1, <3>1, <3>2 DEF PageInv, NeedsFlush
  <2>3. CASE FlushUnchanged
    <3>1. /\ page'.rev = page.rev /\ page'.last = page.last /\ page'.fresh = page.fresh
          /\ page'.pending = page.pending /\ page'.layout = page.layout
          /\ page.layout = page.last /\ writer.at = "idle" /\ writer' = writer
      BY <2>3 DEF IInv, TypeOK, Pages, FlushUnchanged, PageRuns, Changed
    <3> QED
      BY <1>1, <3>1 DEF PageInv
  <2>4. CASE FailWrite
    <3>1. /\ page'.rev = page.rev /\ page'.last = page.last
          /\ writer.at = "idle" /\ writer'.at = "idle"
          /\ IF kind = "exclusion" THEN page'.pending = TRUE
             ELSE page'.pending = page.pending /\ page'.fresh = page.fresh
      BY <2>4 DEF IInv, TypeOK, Pages, Writers, FailWrite, PageRuns
    <3> QED
      BY <1>1, <3>1 DEF PageInv, NeedsFlush
  <2>5. CASE FlushChanged
    <3>1. page' = page /\ writer'.at = "fill"
      BY <2>5 DEF IInv, TypeOK, Writers, FlushChanged
    <3> QED
      BY <1>1, <1>2, <3>1 DEF PageInv
  <2>6. CASE SendSync
    <3>1. /\ page'.rev = page.rev /\ page'.last = page.layout /\ page'.layout = page.layout
          /\ writer.at = "send" /\ writer'.at = "idle"
      BY <2>6 DEF IInv, TypeOK, Pages, Writers, SendSync
    <3> QED
      BY <1>1, <3>1 DEF PageInv
  <2> QED
    BY <2>1, <2>2, <2>3, <2>4, <2>5, <2>6
<1>4. HeaderInv'
  BY <1>1, <1>2 DEF HeaderInv, Settled
<1>5. ComingInv'
  <2>1. inbox \in Nat
    BY DEF IInv, TypeOK
  <2>2. Seeing' <=> Seeing
    BY <1>1 DEF Seeing
  <2> QED
    BY <1>1, <1>2, <2>1, <2>2 DEF ComingInv
<1>6. AppliedInv'
  BY <1>1 DEF AppliedInv, Reflected
<1> QED
  BY <1>3, <1>4, <1>5, <1>6

\* Steps of a write: nobody is told of it before it is complete.
LEMMA UpWrite ==
  ASSUME IInv, UpInv, kind # "snapshot",
         FillHeader \/ WriteFields \/ OpenSequence \/ CopyCell \/ CloseSequence
  PROVE  UpInv'
<1>1. UNCHANGED <<kind, reader, page, inbox, compositor, missed>>
  BY DEF FillHeader, WriteFields, OpenSequence, CopyCell, CloseSequence, WriterOnly
<1>2. writer.at \in {"fill", "fields", "sequence", "copy"}
  BY DEF FillHeader, WriteFields, OpenSequence, CopyCell, CloseSequence
<1>3. writer.payload = Encode(page.rev, page.layout)
  BY <1>2 DEF UpInv, PageInv
<1>4. page.rev \in 0 .. MaxRevision /\ page.layout \in Layouts /\ writer.seq \in Nat
      /\ reader.last \in Nat /\ reader.seq \in Nat
  BY DEF IInv, TypeOK, Pages, Writers, Readers
<1>5. ComingInv' /\ AppliedInv' /\ PageInv' /\ HeaderInv'
  <2>1. CASE FillHeader \/ WriteFields \/ OpenSequence \/ CopyCell
    <3>1. /\ writer'.at \in {"fields", "sequence", "copy"} /\ writer'.payload = writer.payload
          /\ writer'.seq = writer.seq /\ writer'.done = writer.done
      BY <1>2, <2>1
      DEF IInv, TypeOK, Writers, FillHeader, WriteFields, OpenSequence, CopyCell
    <3>2. writer'.at = "sequence" /\ writer'.closing =>
            file'.magic /\ file'.len = Len(writer'.payload)
      <4>1. writer'.at = "sequence" => WriteFields
        BY <1>2, <2>1
        DEF IInv, TypeOK, Writers, FillHeader, WriteFields, OpenSequence, CopyCell
      <4> QED
        BY <4>1 DEF IInv, TypeOK, Writers, Files, WriteFields
    <3>3. HeaderInv'
      BY <3>1, <3>2 DEF HeaderInv, Settled
    <3>4. ComingInv' /\ AppliedInv'
      BY <1>1, <3>1 DEF UpInv, ComingInv, AppliedInv, Reflected
    <3>5. PageInv'
      BY <1>1, <1>2, <1>3, <3>1 DEF UpInv, PageInv
    <3> QED
      BY <3>3, <3>4, <3>5
  <2>2. CASE CloseSequence
    <3>1. /\ writer.at = "sequence" /\ writer.closing /\ writer'.at = "send"
          /\ writer'.closing = FALSE
          /\ writer'.seq = writer.seq + 2 /\ writer'.done = writer.payload
          /\ file'.magic = file.magic /\ file'.len = file.len
      BY <2>2 DEF IInv, TypeOK, Writers, Files, CloseSequence, NextSequence
    <3>2. HeaderInv'
      BY <3>1 DEF UpInv, HeaderInv, Settled
    <3>3. ComingInv'
      BY <1>1, <3>1 DEF UpInv, ComingInv
    <3>4. PageInv'
      BY <1>1, <1>3, <1>4, <3>1 DEF UpInv, PageInv
    <3>5. AppliedInv'
      <4>1. writer'.done[1].rev = page.rev
        BY <1>3, <1>4, <3>1, EncodeIs
      <4>2. reader.last < writer'.seq /\ reader.seq < writer'.seq
        BY <1>4, <3>1 DEF IInv, ReaderInv
      <4>3. /\ writer'.seq # reader.last /\ writer'.seq # reader.seq
            /\ writer'.done[1].rev <= compositor.rev
        BY <1>4, <3>1, <4>1, <4>2 DEF UpInv, PageInv
      <4>4. AppliedInv
        BY DEF UpInv
      <4> QED
        BY <1>1, <4>3, <4>4 DEF AppliedInv
    <3> QED
      BY <3>2, <3>3, <3>4, <3>5
  <2> QED
    BY <2>1, <2>2
<1> QED
  BY <1>5 DEF UpInv

\* Steps of the compositor between reads: what is applied stays, until the layout of
\* the outputs is another one.
LEMMA UpCompositor ==
  ASSUME IInv, UpInv, kind # "snapshot", PromoteWithFrame \/ LoseOutputs \/ SendOutputLayout
  PROVE  UpInv'
<1>1. UNCHANGED <<kind, file, writer, reader, page, inbox, missed>>
  BY DEF PromoteWithFrame, LoseOutputs, SendOutputLayout, CompositorOnly
<1>2. compositor.rev \in Nat /\ page.rev \in Nat
  BY DEF IInv, TypeOK, Compositors, Pages
<1>3. HeaderInv' /\ ComingInv'
  BY <1>1 DEF UpInv, HeaderInv, ComingInv, Seeing, Settled
<1>4. ASSUME writer.seq # 0 PROVE writer.done[1].rev \in Nat
  BY <1>4, PayloadIs DEF IInv, WriterInv
<1>5. compositor'.rev \in {compositor.rev, compositor.rev + 1}
  BY DEF IInv, TypeOK, Compositors, PromoteWithFrame, LoseOutputs, SendOutputLayout
<1>6. PageInv'
  <2>1. PageInv /\ page.rev <= compositor.rev
    BY DEF UpInv, PageInv
  <2>2. page'.rev <= compositor'.rev
    BY <1>1, <1>2, <1>5, <2>1
  <2>3. NeedsFlush' <=> NeedsFlush
    BY <1>1 DEF NeedsFlush
  <2> QED
    BY <1>1, <2>1, <2>2, <2>3 DEF PageInv
<1>7. kind = "exclusion" => compositor'.staged = NoLayout
  <2>1. compositor'.staged \in {compositor.staged, NoLayout}
    BY DEF IInv, TypeOK, Compositors, PromoteWithFrame, LoseOutputs, SendOutputLayout
  <2> QED
    BY <2>1 DEF UpInv, AppliedInv
<1>8. ASSUME writer.seq # 0, Reflected(writer.done) PROVE (Reflected(writer.done))'
  <2>1. CASE PromoteWithFrame
    <3>1. /\ compositor'.rev = compositor.rev /\ compositor'.outputs = compositor.outputs
          /\ compositor'.shown = compositor.staged /\ compositor'.staged = NoLayout
          /\ compositor.staged # NoLayout
      BY <2>1 DEF IInv, TypeOK, Compositors, PromoteWithFrame
    <3> QED
      BY <1>1, <1>8, <3>1 DEF Reflected
  <2>2. CASE LoseOutputs
    BY <2>2 DEF Reflected, IInv, TypeOK, Compositors, LoseOutputs
  <2>3. CASE SendOutputLayout
    <3>1. compositor'.rev = compositor.rev + 1
      BY <2>3 DEF IInv, TypeOK, Compositors, SendOutputLayout
    <3> QED
      BY <1>1, <1>2, <1>4, <1>8, <3>1 DEF Reflected, UpInv, AppliedInv
  <2> QED
    BY <2>1, <2>2, <2>3
<1>9. writer.seq # 0 => writer.done[1].rev <= compositor'.rev
  BY <1>2, <1>4, <1>5 DEF UpInv, AppliedInv
<1>10. AppliedInv'
  <2>1. AppliedInv
    BY DEF UpInv
  <2> QED
    BY <1>1, <1>7, <1>8, <1>9, <2>1 DEF AppliedInv
<1> QED
  BY <1>3, <1>6, <1>10 DEF UpInv

\* What a step of the reader leaves alone, as long as nothing is applied.
LEMMA UpReaderFrame ==
  ASSUME IInv, UpInv, kind # "snapshot", UNCHANGED <<kind, file, writer, page>>,
         compositor'.rev = compositor.rev
  PROVE  PageInv' /\ HeaderInv'
<1>1. PageInv /\ HeaderInv
  BY DEF UpInv
<1>2. NeedsFlush' <=> NeedsFlush
  BY DEF NeedsFlush
<1>3. Settled' <=> Settled
  BY DEF Settled
<1> QED
  BY <1>1, <1>2, <1>3 DEF PageInv, HeaderInv

\* Steps that take nothing over: the sequence seen last stays.
LEMMA UpLook ==
  ASSUME IInv, UpInv, kind # "snapshot", UNCHANGED <<kind, file, writer, page, compositor, missed>>,
         reader'.last = reader.last, reader.at # "apply", reader'.at # "apply",
         reader'.at = "copy" => reader.last < reader'.seq,
         ComingInv'
  PROVE  UpInv'
<1>1. AppliedInv
  BY DEF UpInv
<1>2. AppliedInv'
  BY <1>1 DEF AppliedInv, Reflected
<1>3. PageInv' /\ HeaderInv'
  BY UpReaderFrame
<1> QED
  BY <1>2, <1>3 DEF UpInv

LEMMA UpStart ==
  ASSUME IInv, UpInv, kind # "snapshot", ReadOnMessage \/ ReadUnasked
  PROVE  UpInv'
<1>1. UNCHANGED <<kind, file, writer, page, compositor, missed>> /\ reader.at = "idle"
  BY DEF ReadOnMessage, ReadUnasked, StartRead, ReaderOnly
<1>2. reader' = [reader EXCEPT !.at = "header"]
  BY DEF ReadOnMessage, ReadUnasked, StartRead
<1>3. reader'.at = "header" /\ reader'.last = reader.last /\ reader'.loaded = {}
  BY <1>1, <1>2 DEF IInv, TypeOK, Readers, UpInv, ComingInv
<1>4. ComingInv'
  BY <1>3 DEF ComingInv, Seeing
<1> QED
  BY <1>1, <1>3, <1>4, UpLook

\* Half of the header of a finished write.
LEMMA HalfOfLast ==
  ASSUME IInv, UpInv, kind # "snapshot", NEW half \in Halves, reader.at = "header",
         half \notin reader.loaded, Seeing, writer.at = "idle", writer.seq # 0
  PROVE  LET header == WithHalf(half)
         IN  /\ header.at = "header" /\ header.last = reader.last
             /\ header.loaded = reader.loaded \cup {half}
             /\ "fields" \in header.loaded => header.magic /\ header.len = Len(writer.done)
             /\ "sequence" \in header.loaded => header.seq = writer.seq
<1>1. file.magic /\ file.len = Len(writer.done)
  BY DEF UpInv, HeaderInv, Settled
<1>2. file.seq = writer.seq
  BY DEF IInv, FileInv, Settled
<1>3. reader \in Readers
  BY DEF IInv, TypeOK
<1>4. CASE half = "fields"
  <2>1. WithHalf(half) = [reader EXCEPT !.loaded = reader.loaded \cup {half},
                                        !.magic = file.magic, !.len = file.len]
    BY <1>4 DEF WithHalf
  <2>2. /\ WithHalf(half).at = reader.at /\ WithHalf(half).last = reader.last
        /\ WithHalf(half).loaded = reader.loaded \cup {half}
        /\ WithHalf(half).magic = file.magic /\ WithHalf(half).len = file.len
        /\ WithHalf(half).seq = reader.seq
    BY <1>3, <2>1 DEF Readers
  <2>3. "sequence" \in reader.loaded \cup {half} => "sequence" \in reader.loaded
    BY <1>4
  <2> QED
    BY <1>1, <2>2, <2>3 DEF Seeing
<1>5. CASE half = "sequence"
  <2>1. WithHalf(half) = [reader EXCEPT !.loaded = reader.loaded \cup {half}, !.seq = file.seq]
    BY <1>5 DEF WithHalf
  <2>2. /\ WithHalf(half).at = reader.at /\ WithHalf(half).last = reader.last
        /\ WithHalf(half).loaded = reader.loaded \cup {half}
        /\ WithHalf(half).magic = reader.magic /\ WithHalf(half).len = reader.len
        /\ WithHalf(half).seq = file.seq
    BY <1>3, <2>1 DEF Readers
  <2>3. "fields" \in reader.loaded \cup {half} => "fields" \in reader.loaded
    BY <1>5
  <2> QED
    BY <1>2, <2>2, <2>3 DEF Seeing
<1> QED
  BY <1>4, <1>5 DEF Halves

LEMMA UpLoadHalf ==
  ASSUME IInv, UpInv, kind # "snapshot", NEW half \in Halves, LoadHalf(half)
  PROVE  UpInv'
<1>1. UNCHANGED <<kind, file, writer, page, compositor, inbox, missed>>
      /\ reader.at = "header" /\ reader.loaded = {} /\ reader' = WithHalf(half)
  BY DEF LoadHalf, ReaderOnly
<1>2. reader'.at = "header" /\ reader'.last = reader.last
  BY <1>1, WithHalfIs
<1>3. ASSUME writer.at = "idle", writer.seq # reader.last, ~(inbox > 0)
      PROVE  Seeing'
  <2>1. Seeing
    BY <1>3 DEF UpInv, ComingInv
  <2>2. writer.seq # 0
    BY <1>3 DEF IInv, ReaderInv, TypeOK, Writers, Readers
  <2> QED
    BY <1>1, <1>2, <1>3, <2>1, <2>2, HalfOfLast DEF Seeing
<1>4. ComingInv'
  BY <1>1, <1>2, <1>3 DEF ComingInv
<1> QED
  BY <1>1, <1>2, <1>4, UpLook

LEMMA UpLoadOtherHalf ==
  ASSUME IInv, UpInv, kind # "snapshot", NEW half \in Halves, LoadOtherHalf(half)
  PROVE  UpInv'
<1> DEFINE header == WithHalf(half)
<1>1. UNCHANGED <<kind, file, writer, page, compositor, inbox, missed>>
      /\ reader.at = "header" /\ reader.loaded # {} /\ half \notin reader.loaded
      /\ reader' = IF News(header) THEN [header EXCEPT !.at = "copy"] ELSE Unread(reader.last)
  BY DEF LoadOtherHalf, ReaderOnly
<1>2. header \in Readers /\ header.at = "header" /\ header.last = reader.last
  BY <1>1, WithHalfIs
<1>3. ASSUME writer.at = "idle", writer.seq # reader.last, ~(inbox > 0)
      PROVE  /\ header.magic /\ header.len = Len(writer.done) /\ header.seq = writer.seq
             /\ News(header)
  <2>1. Seeing
    BY <1>3 DEF UpInv, ComingInv
  <2>2. /\ writer.seq # 0 /\ reader.last < writer.seq /\ writer.seq % 2 = 0
    BY <1>3 DEF IInv, ReaderInv, TypeOK, Writers, Readers
  <2>3. reader.loaded \cup {half} = Halves
    BY <1>1 DEF Halves, IInv, TypeOK, Readers
  <2>4. header.magic /\ header.len = Len(writer.done) /\ header.seq = writer.seq
    BY <1>1, <1>3, <2>1, <2>2, <2>3, HalfOfLast DEF Halves
  <2> HIDE DEF header
  <2> QED
    BY <1>2, <2>2, <2>4 DEF News
<1> HIDE DEF header
<1>4. CASE News(header)
  <2>1. /\ reader'.at = "copy" /\ reader'.last = reader.last /\ reader'.seq = header.seq
        /\ reader'.magic = header.magic /\ reader'.len = header.len
    BY <1>1, <1>2, <1>4 DEF Readers
  <2>2. reader.last < reader'.seq
    <3>1. header.seq > header.last /\ header.seq \in Nat /\ header.last \in Nat
      BY <1>2, <1>4 DEF News, Readers
    <3> QED
      BY <1>2, <2>1, <3>1
  <2>3. ComingInv'
    BY <1>1, <1>3, <2>1 DEF ComingInv, Seeing
  <2> QED
    BY <1>1, <2>1, <2>2, <2>3, UpLook
<1>5. CASE ~News(header)
  <2>1. reader'.at = "idle" /\ reader'.last = reader.last /\ reader'.loaded = {}
    BY <1>1, <1>5 DEF Unread
  <2>2. ComingInv'
    BY <1>1, <1>3, <1>5, <2>1 DEF ComingInv
  <2> QED
    BY <1>1, <2>1, <2>2, UpLook
<1> QED
  BY <1>4, <1>5

LEMMA UpLoadCell ==
  ASSUME IInv, UpInv, kind # "snapshot", LoadCell
  PROVE  UpInv'
<1>1. UNCHANGED <<kind, file, writer, page, compositor, inbox, missed>> /\ reader.at = "copy"
  BY DEF LoadCell, ReaderOnly
<1>2. /\ reader'.at = "copy" /\ reader'.last = reader.last /\ reader'.seq = reader.seq
      /\ reader'.magic = reader.magic /\ reader'.len = reader.len
  BY <1>1 DEF LoadCell, IInv, TypeOK, Readers
<1>3. reader.last < reader.seq
  BY <1>1 DEF UpInv, AppliedInv
<1>4. ComingInv'
  BY <1>1, <1>2 DEF UpInv, ComingInv, Seeing
<1> QED
  BY <1>1, <1>2, <1>3, <1>4, UpLook

LEMMA UpRefuse ==
  ASSUME IInv, UpInv, kind # "snapshot", RefuseCopy
  PROVE  UpInv'
<1>1. UNCHANGED <<kind, file, writer, page, compositor, inbox, missed>>
      /\ reader.at = "copy" /\ file.seq # reader.seq /\ reader' = Unread(reader.last)
  BY DEF RefuseCopy, Copied, ReaderOnly
<1>2. reader'.at = "idle" /\ reader'.last = reader.last /\ reader'.loaded = {}
  BY <1>1 DEF Unread
<1>3. writer.at = "idle" => ~Seeing
  BY <1>1 DEF Seeing, IInv, FileInv, Settled
<1>4. ComingInv'
  BY <1>1, <1>2, <1>3 DEF UpInv, ComingInv
<1> QED
  BY <1>1, <1>2, <1>4, UpLook

\* What a read gives that has met nothing but the last write.
LEMMA SeenDecodes ==
  ASSUME IInv, AcceptCopy, Seeing, writer.at = "idle", writer.seq # 0
  PROVE  Decodes(reader.got) /\ reader.seq = writer.seq
<1>1. /\ reader.at = "copy" /\ reader.seq = writer.seq /\ Len(reader.got) = Len(writer.done)
  BY DEF AcceptCopy, Copied, Seeing
<1>2. /\ Len(writer.done) \in Nat /\ Len(writer.done) > 0
      /\ writer.done[1].count = Len(writer.done) - 1
  BY PayloadIs DEF IInv, WriterInv
<1>3. reader.got[1] = writer.done[1]
  BY <1>1, <1>2 DEF IInv, ReaderInv, Settled
<1> QED
  BY <1>1, <1>2, <1>3 DEF Decodes

LEMMA UpAccept ==
  ASSUME IInv, UpInv, kind # "snapshot", AcceptCopy
  PROVE  UpInv'
<1>1. UNCHANGED <<kind, file, writer, page, compositor, inbox>> /\ reader.at = "copy"
  BY DEF AcceptCopy, Copied, ReaderOnly
<1>2. /\ reader.seq # 0 /\ reader.seq = writer.seq
  BY <1>1, AcceptedSequence DEF IInv, ReaderInv
<1>3. CASE Decodes(reader.got)
  <2>1. /\ reader'.at = "apply" /\ reader'.last = reader.seq /\ reader'.seq = reader.seq
        /\ reader'.got = reader.got
    BY <1>3 DEF AcceptCopy, Consume, IInv, TypeOK, Readers
  <2>2. reader.got = writer.done
    BY <1>2, <1>3, WholePayload
  <2>3. AppliedInv'
    <3>1. AppliedInv
      BY DEF UpInv
    <3> QED
      BY <1>1, <2>1, <2>2, <3>1 DEF AppliedInv
  <2>4. ComingInv'
    BY <1>1, <1>2, <2>1 DEF ComingInv
  <2> QED
    BY <1>1, <2>3, <2>4, UpReaderFrame DEF UpInv
<1>4. CASE ~Decodes(reader.got)
  <2>1. /\ reader' = Unread(reader.seq) /\ missed' = reader.seq
    BY <1>2, <1>4 DEF AcceptCopy, Consume, Consumed
  <2>2. reader'.at = "idle" /\ reader'.last = reader.seq /\ reader'.loaded = {}
    BY <2>1 DEF Unread
  <2>3. AppliedInv'
    <3>1. AppliedInv
      BY DEF UpInv
    <3> QED
      BY <1>1, <1>2, <2>1, <2>2, <3>1 DEF AppliedInv
  <2>4. ComingInv'
    BY <1>1, <1>2, <2>2 DEF ComingInv
  <2> QED
    BY <1>1, <2>3, <2>4, UpReaderFrame DEF UpInv
<1> QED
  BY <1>3, <1>4

LEMMA UpApply ==
  ASSUME IInv, UpInv, kind # "snapshot", Apply
  PROVE  UpInv'
<1>1. /\ UNCHANGED <<kind, file, writer, page, inbox, missed>> /\ reader.at = "apply"
      /\ reader' = Unread(reader.last) /\ compositor' = Applied
  BY DEF Apply
<1>2. reader'.at = "idle" /\ reader'.last = reader.last /\ reader'.loaded = {}
  BY <1>1 DEF Unread
<1>3. AppliedInv
  BY DEF UpInv
<1>4. reader.got \in Payloads
  BY <1>1 DEF IInv, ReaderInv
<1>5. Rows \in Layouts /\ Rows # NoLayout
  BY <1>4, PayloadIs, LayoutsAssumption DEF Rows
<1>6. /\ compositor'.rev = compositor.rev /\ compositor'.outputs = compositor.outputs
      /\ kind = "exclusion" => compositor'.staged = NoLayout
      /\ \/ reader.got[1].rev < compositor.rev
         \/ ~compositor.outputs
         \/ Rows = IF compositor'.staged # NoLayout THEN compositor'.staged
                   ELSE compositor'.shown
  <2>1. kind \in {"ui", "exclusion"} /\ compositor \in Compositors
    BY KindsAssumption DEF IInv, TypeOK
  <2>2. CASE Stale
    <3>1. compositor' = compositor
      BY <1>1, <2>1, <2>2 DEF Applied
    <3> QED
      BY <1>3, <2>2, <3>1 DEF Stale, AppliedInv
  <2>3. CASE ~Stale /\ ~compositor.outputs
    <3>1. compositor' = [compositor EXCEPT !.staged = NoLayout, !.shown = <<>>]
      BY <1>1, <2>1, <2>3 DEF Applied
    <3> QED
      BY <2>1, <2>3, <3>1 DEF Compositors
  <2>4. CASE ~Stale /\ compositor.outputs /\ kind = "ui"
    <3>1. compositor' = [compositor EXCEPT !.staged = Rows]
      BY <1>1, <2>4 DEF Applied
    <3> QED
      BY <1>5, <2>1, <2>4, <3>1 DEF Compositors
  <2>5. CASE ~Stale /\ compositor.outputs /\ kind = "exclusion"
    <3>1. compositor' = [compositor EXCEPT !.shown = Rows]
      BY <1>1, <2>5 DEF Applied
    <3>2. compositor.staged = NoLayout
      BY <1>3, <2>5 DEF AppliedInv
    <3> QED
      BY <2>1, <2>5, <3>1, <3>2 DEF Compositors
  <2> QED
    BY <2>1, <2>2, <2>3, <2>4, <2>5
<1>7. ASSUME reader.last = writer.seq PROVE (Reflected(writer.done))'
  <2>1. reader.got = writer.done
    BY <1>1, <1>3, <1>7 DEF AppliedInv
  <2> QED
    BY <1>1, <1>6, <2>1 DEF Reflected, Rows
<1>8. AppliedInv'
  BY <1>1, <1>2, <1>3, <1>6, <1>7 DEF AppliedInv
<1>9. ComingInv'
  BY <1>1, <1>2 DEF UpInv, ComingInv, Seeing
<1> QED
  BY <1>1, <1>6, <1>8, <1>9, UpReaderFrame DEF UpInv

LEMMA UpStep == IInv /\ UpInv /\ [Next]_vars => UpInv'
<1> SUFFICES ASSUME IInv, UpInv, [Next]_vars PROVE UpInv'
  OBVIOUS
<1>1. kind' = kind
  BY DEF Next, Page, Write, Read, vars, Remeasure, ReceiveSnapshot, FlushUnchanged, FailWrite,
         FlushChanged, SendSync, PublishSnapshot, FillHeader, WriteFields, OpenSequence, CopyCell,
         CloseSequence, WriterOnly, ReadOnMessage, ReadUnasked, StartRead, LoadHalf,
         LoadOtherHalf, LoadCell, RefuseCopy, AcceptCopy, ReaderOnly, Apply, PromoteWithFrame,
         LoseOutputs, SendOutputLayout, CompositorOnly
<1>2. CASE kind = "snapshot"
  BY <1>1, <1>2 DEF UpInv
<1>3. CASE kind # "snapshot"
  <2>1. CASE Page
    BY <1>3, <2>1, UpPage DEF Page
  <2>2. CASE Write
    BY <1>3, <2>2, UpWrite DEF Write, PublishSnapshot
  <2>3. CASE Read
    BY <1>3, <2>3, UpStart, UpLoadHalf, UpLoadOtherHalf, UpLoadCell, UpRefuse, UpAccept, UpApply
    DEF Read
  <2>4. CASE PromoteWithFrame \/ LoseOutputs \/ SendOutputLayout
    BY <1>3, <2>4, UpCompositor
  <2>5. CASE UNCHANGED vars
    BY <2>5 DEF vars, UpInv, PageInv, HeaderInv, ComingInv, AppliedInv, NeedsFlush, Seeing,
                Reflected, Settled
  <2> QED
    BY <2>1, <2>2, <2>3, <2>4, <2>5 DEF Next
<1> QED
  BY <1>2, <1>3

(* At rest the compositor has what the page wrote last, and the exclusion  *)
(* zones measured last: a write whose reading was refused, or met another  *)
(* write, is brought by the message it is followed by; and a payload that  *)
(* was dropped as stale, or for want of an output, is not the page's last  *)
(* once both know the same layout (apply_shell_ui_windows_payload).        *)
THEOREM AgreeAtRest == Spec => []UpToDate
<1>1. IInv /\ UpInv => UpToDate
  <2> SUFFICES ASSUME IInv, UpInv, AtRest
               PROVE  /\ page.last = IF compositor.staged # NoLayout THEN compositor.staged
                                     ELSE compositor.shown
                      /\ kind = "exclusion" => page.layout = page.last
    BY DEF UpToDate
  <2>1. /\ kind # "snapshot" /\ writer.at = "idle" /\ reader.at = "idle" /\ inbox = 0
        /\ ~NeedsFlush /\ page.rev = compositor.rev /\ compositor.outputs
        /\ missed # writer.seq \/ missed = 0
    BY DEF AtRest
  <2>2. page.last # NoLayout /\ ~page.fresh /\ ~page.pending
    BY <2>1 DEF NeedsFlush
  <2>3. /\ page.rev \in 0 .. MaxRevision /\ page.last \in Layouts
    BY <2>2 DEF IInv, TypeOK, Pages
  <2>4. writer.seq # 0 /\ writer.done = Encode(page.rev, page.last)
    BY <2>1, <2>2 DEF UpInv, PageInv
  <2>5. writer.seq = reader.last
    BY <2>1 DEF UpInv, ComingInv, Seeing
  <2>6. Reflected(writer.done)
    BY <2>1, <2>4, <2>5 DEF UpInv, AppliedInv
  <2>7. writer.done[1].rev = page.rev /\ Tail(writer.done) = page.last
    BY <2>3, <2>4, EncodeIs
  <2>8. ~(page.rev < compositor.rev)
    BY <2>1, <2>3
  <2>9. page.last = IF compositor.staged # NoLayout THEN compositor.staged ELSE compositor.shown
    BY <2>1, <2>6, <2>7, <2>8 DEF Reflected
  <2>10. kind = "exclusion" => page.layout = page.last
    BY <2>1 DEF UpInv, PageInv
  <2> QED
    BY <2>9, <2>10
<1> QED
  BY <1>1, InvInit, InvStep, UpInit, UpStep, PTL DEF Spec

=============================================================================
