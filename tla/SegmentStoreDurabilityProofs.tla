--------------------- MODULE SegmentStoreDurabilityProofs ---------------------
(***************************************************************************)
(* What was reported durable is found again after any power loss, as long  *)
(* as no write fails and no bit of the data rots.  The segments of the     *)
(* entries are retained (KeptInv), the data of the active segment are      *)
(* whole entries (TilesInv), a footer seals a segment whose entries are    *)
(* all flushed (SealInv), and each entry is among those that a scan of its *)
(* slot finds (AckedInv).                                                  *)
(*                                                                         *)
(* Where data do decay, the entries of a segment that both footers seal    *)
(* may be lost, but its range is not: an entry is held or sealed           *)
(* (PlacedInv), the active descriptor sums the entries of its segment      *)
(* (SumsInv), and footers and descriptors cover every entry that was       *)
(* reported durable (CoveredInv).                                          *)
(*                                                                         *)
(* A reader finds the segments as memory describes them: descriptors and   *)
(* footers count and index the entries of their segments (TallyInv,        *)
(* FooterInv), sealing writes the index before the footers (WrittenInv), a *)
(* sealed descriptor is that of its footer (ListedInv), and one segment is *)
(* open (OpenInv).                                                         *)
(***************************************************************************)
EXTENDS SegmentStoreSafetyProofs

-----------------------------------------------------------------------------
(* The data of the active segment.                                         *)

\* What a reader of the active segment sees, now and after the step.
LEMMA OverlayNow ==
    ASSUME TypeOK, NEW s \in Slots, s = active_segment.slot
    PROVE  /\ Overlay(s) \in Cells
           /\ \A o \in Offsets : Overlay(s)[o] = IF o - write_buf_offset + 1 \in 1 .. Len(write_buf)
                                                 THEN write_buf[o - write_buf_offset + 1] ELSE data[s][o]
<1>1. write_buf \in Seq(Cell) /\ DOMAIN write_buf = 1 .. Len(write_buf)
      /\ data[s] \in [Offsets -> Cell \cup {Garbage}]
  BY DEF TypeOK, MemoryTypeOK, MediumTypeOK
<1>2. ASSUME NEW o \in Offsets
      PROVE  Overlay(s)[o] = IF o - write_buf_offset + 1 \in 1 .. Len(write_buf)
                             THEN write_buf[o - write_buf_offset + 1] ELSE data[s][o]
  BY <1>1 DEF Overlay
<1>3. ASSUME NEW o \in Offsets PROVE Overlay(s)[o] \in Cell \cup {Garbage}
  BY <1>1, <1>2
<1>4. Overlay(s) = [o \in Offsets |-> Overlay(s)[o]]
  BY DEF Overlay
<1>. QED  BY <1>2, <1>3, <1>4 DEF Cells

\* What a reader of the active segment sees after the step.
LEMMA OverlayNext ==
    ASSUME TypeOK', NEW s \in Slots, s = active_segment'.slot
    PROVE  /\ Overlay(s)' \in Cells
           /\ \A o \in Offsets : Overlay(s)'[o] = IF o - write_buf_offset' + 1 \in 1 .. Len(write_buf')
                                                  THEN write_buf'[o - write_buf_offset' + 1] ELSE data'[s][o]
<1>1. write_buf' \in Seq(Cell) /\ DOMAIN write_buf' = 1 .. Len(write_buf')
      /\ data'[s] \in [Offsets -> Cell \cup {Garbage}]
  BY DEF TypeOK, MemoryTypeOK, MediumTypeOK
<1>2. ASSUME NEW o \in Offsets
      PROVE  Overlay(s)'[o] = IF o - write_buf_offset' + 1 \in 1 .. Len(write_buf')
                              THEN write_buf'[o - write_buf_offset' + 1] ELSE data'[s][o]
  BY <1>1 DEF Overlay
<1>3. ASSUME NEW o \in Offsets PROVE Overlay(s)'[o] \in Cell \cup {Garbage}
  BY <1>1, <1>2
<1>4. Overlay(s)' = [o \in Offsets |-> Overlay(s)'[o]]
  BY DEF Overlay
<1>. QED  BY <1>2, <1>3, <1>4 DEF Cells

\* The parts of the invariant in terms of the active slot and generation.
LEMMA TilesNow ==
    ASSUME NEW s, s = active_segment.slot, NEW g, g = active_segment.generation
    PROVE  /\ ActiveTiles <=> Tiled(Overlay(s), g, active_write_offset)
           /\ FlushTiles <=>
                 (Underway({"flushed"}, {"write_buffer"}) =>
                    \A k \in DOMAIN write_buf : data[s][write_buf_offset + k - 1] = write_buf[k])
           /\ ReservedTiles <=>
                 (Underway({"account"}, {"reserve"}) =>
                    /\ state.newest_entry_id # 0
                    /\ \A o \in 0 .. active_write_offset - 1 : Overlay(s)[o].id < state.newest_entry_id)
           /\ WrittenTiles <=>
                 (Underway({"account"}, {"write_entry"}) =>
                    \A x \in Pending : x[1] = "account" =>
                       \A k \in 1 .. x[2] : data[s][active_write_offset + k - 1]
                                               = EntryCells(state.newest_entry_id, g, x[2])[k])
           /\ AccountedTiles <=>
                 (Underway({"acknowledge"}, {"account"}) =>
                    /\ active_write_offset > 0
                    /\ data[s][active_write_offset - 1].id = state.newest_entry_id)
  BY DEF ActiveTiles, FlushTiles, ReservedTiles, WrittenTiles, AccountedTiles

\* The tiles of the active segment after the step, term by term.
LEMMA TilesNext ==
    ASSUME NEW s, s = active_segment'.slot, NEW g, g = active_segment'.generation
    PROVE  /\ ActiveTiles' <=> Tiled(Overlay(s)', g, active_write_offset')
           /\ FlushTiles' <=>
                 (Underway({"flushed"}, {"write_buffer"})' =>
                    \A k \in DOMAIN write_buf' : data'[s][write_buf_offset' + k - 1] = write_buf'[k])
           /\ ReservedTiles' <=>
                 (Underway({"account"}, {"reserve"})' =>
                    /\ state'.newest_entry_id # 0
                    /\ \A o \in 0 .. active_write_offset' - 1 : Overlay(s)'[o].id < state'.newest_entry_id)
           /\ WrittenTiles' <=>
                 (Underway({"account"}, {"write_entry"})' =>
                    \A x \in Pending' : x[1] = "account" =>
                       \A k \in 1 .. x[2] : data'[s][active_write_offset' + k - 1]
                                               = EntryCells(state'.newest_entry_id, g, x[2])[k])
           /\ AccountedTiles' <=>
                 (Underway({"acknowledge"}, {"account"})' =>
                    /\ active_write_offset' > 0
                    /\ data'[s][active_write_offset' - 1].id = state'.newest_entry_id)
  BY DEF ActiveTiles, FlushTiles, ReservedTiles, WrittenTiles, AccountedTiles, Overlay, Tiled, Whole, EntryCells

\* A step that changes neither the data of the active segment nor what is known of it.
LEMMA TilesSame ==
    ASSUME TypeOK, TypeOK', TilesInv, Working,
           UNCHANGED <<active_segment, active_write_offset, write_buf, write_buf_offset>>,
           data'[active_segment.slot] = data[active_segment.slot],
           Underway({"flushed"}, {"write_buffer"})' => Underway({"flushed"}, {"write_buffer"}),
           Underway({"account"}, {"reserve"})' => Underway({"account"}, {"reserve"}),
           Underway({"account"}, {"write_entry"})' =>
               /\ Underway({"account"}, {"write_entry"})
               /\ \A x \in Pending' : x[1] = "account" => x \in Pending,
           Underway({"acknowledge"}, {"account"})' => Underway({"acknowledge"}, {"account"}),
           Has({"account", "acknowledge"})' => state'.newest_entry_id = state.newest_entry_id
    PROVE  TilesInv'
<1>1. PICK s \in Slots, g \in Nat : s = active_segment.slot /\ g = active_segment.generation
  BY DEF TypeOK, MemoryTypeOK
<1>2. s = active_segment'.slot /\ g = active_segment'.generation /\ data'[s] = data[s]
  BY <1>1
<1>3. Overlay(s)' = Overlay(s)
  BY <1>1, <1>2 DEF Overlay
<1>4. Underway({"account"}, {"reserve"})' => Has({"account", "acknowledge"})'
  BY DEF Underway, Has
<1>5. Underway({"account"}, {"write_entry"})' => Has({"account", "acknowledge"})'
  BY DEF Underway, Has
<1>6. Underway({"acknowledge"}, {"account"})' => Has({"account", "acknowledge"})'
  BY DEF Underway, Has
<1>7. /\ ActiveTiles /\ BufferTiles /\ FlushTiles /\ ReservedTiles /\ WrittenTiles /\ AccountedTiles
  BY DEF TilesInv
<1>8. ActiveTiles' /\ ReservedTiles'
  BY <1>1, <1>2, <1>3, <1>4, <1>7, TilesNow, TilesNext
<1>9. BufferTiles'
  BY <1>7 DEF BufferTiles
<1>10. FlushTiles'
  BY <1>1, <1>2, <1>7, TilesNow, TilesNext
<1>11. WrittenTiles'
  <2>. SUFFICES ASSUME Underway({"account"}, {"write_entry"})', NEW x \in Pending', x[1] = "account",
                       NEW k \in 1 .. x[2]
                PROVE  data'[s][active_write_offset' + k - 1] = EntryCells(state'.newest_entry_id, g, x[2])[k]
    BY <1>2, TilesNext
  <2>1. x \in Pending /\ Underway({"account"}, {"write_entry"})
    OBVIOUS
  <2>2. data[s][active_write_offset + k - 1] = EntryCells(state.newest_entry_id, g, x[2])[k]
    BY <1>1, <1>7, <2>1, TilesNow
  <2>. QED  BY <1>2, <1>5, <2>2
<1>12. AccountedTiles'
  BY <1>1, <1>2, <1>6, <1>7, TilesNow, TilesNext
<1>. QED  BY <1>8, <1>9, <1>10, <1>11, <1>12 DEF TilesInv

\* A step beside the writes of an entry and of the buffer.
LEMMA TilesMove ==
    ASSUME TypeOK, TypeOK', ControlInv, TilesInv, Working, todo # <<>>, NEW new, Pending' = new \cup Rest,
           \A x \in new : x[1] \notin {"account", "acknowledge"},
           (\E x \in new : x[1] = "flushed") => \E x \in new : x[1] = "write_buffer",
           ~At("write_buffer"), ~At("reserve"), ~At("write_entry"), ~At("account"),
           UNCHANGED <<data, active_segment, active_write_offset, write_buf, write_buf_offset>>,
           state'.newest_entry_id = state.newest_entry_id \/ ~Has({"account", "acknowledge"})'
    PROVE  TilesInv'
<1>1. Pending = {Head(todo)} \cup Rest
  BY BehindEntry
<1>2. \A n \in {"write_buffer", "reserve", "write_entry", "account"} :
          Has({n}) <=> \E x \in Rest : x[1] = n
  BY <1>1 DEF Has, At
<1>3. Underway({"flushed"}, {"write_buffer"})' => Underway({"flushed"}, {"write_buffer"})
  BY <1>1, <1>2 DEF Underway, Has
<1>4. Underway({"account"}, {"reserve"})' => Underway({"account"}, {"reserve"})
  BY <1>1, <1>2 DEF Underway, Has
<1>5. Underway({"account"}, {"write_entry"})' =>
          /\ Underway({"account"}, {"write_entry"})
          /\ \A x \in Pending' : x[1] = "account" => x \in Pending
  BY <1>1, <1>2 DEF Underway, Has
<1>6. Underway({"acknowledge"}, {"account"})' => Underway({"acknowledge"}, {"account"})
  BY <1>1, <1>2 DEF Underway, Has
<1>. QED  BY <1>3, <1>4, <1>5, <1>6, TilesSame

\* Where nothing is written of an entry or of the buffer, and none is to be accounted for.
LEMMA TilesCalm ==
    ASSUME TypeOK, TypeOK', TilesInv, Working,
           UNCHANGED <<data, active_segment, active_write_offset, write_buf, write_buf_offset>>,
           Has({"flushed"})' => Has({"write_buffer"})',
           Has({"account"})' => Has({"reserve"})' /\ Has({"write_entry"})',
           Has({"acknowledge"})' => Has({"account"})'
    PROVE  TilesInv'
<1>1. /\ ~Underway({"flushed"}, {"write_buffer"})' /\ ~Underway({"account"}, {"reserve"})'
      /\ ~Underway({"account"}, {"write_entry"})' /\ ~Underway({"acknowledge"}, {"account"})'
  BY DEF Underway
<1>2. PICK s \in Slots, g \in Nat : s = active_segment.slot /\ g = active_segment.generation
  BY DEF TypeOK, MemoryTypeOK
<1>3. s = active_segment'.slot /\ g = active_segment'.generation
  BY <1>2
<1>4. Overlay(s)' = Overlay(s)
  BY <1>2 DEF Overlay
<1>5. ActiveTiles' /\ ReservedTiles' /\ FlushTiles' /\ WrittenTiles' /\ AccountedTiles'
  BY <1>1, <1>2, <1>3, <1>4, TilesNow, TilesNext DEF TilesInv
<1>6. BufferTiles'
  BY DEF TilesInv, BufferTiles
<1>. QED  BY <1>5, <1>6 DEF TilesInv

\* The steps of an append put every part of it to do.
LEMMA TilesCalls ==
    ASSUME TypeOK, TypeOK', TilesInv, Working, NEW n \in 1 .. Capacity, NEW force \in BOOLEAN, NEW R,
           Pending' = StepsOf(AppendSteps(n, force)) \cup R, \A x \in R : x[1] \notin Entry \cup {"flushed"},
           UNCHANGED <<data, active_segment, active_write_offset, write_buf, write_buf_offset>>
    PROVE  TilesInv'
<1>. DEFINE q == AppendSteps(n, force)
<1>1. \/ /\ <<"write_entry", n>> \in StepsOf(q) /\ <<"account", n>> \in StepsOf(q)
         /\ \A x \in StepsOf(q) : x[1] \in DirectNames
      \/ \A x \in StepsOf(q) : x[1] \in {"flush", "prepare", "put"}
  BY AppendShape
<1>2. CASE \A x \in StepsOf(q) : x[1] \in {"flush", "prepare", "put"}
  <2>1. ~Has({"flushed"})' /\ ~Has({"account"})' /\ ~Has({"acknowledge"})'
    BY <1>2 DEF Has, Entry, Sized
  <2>. QED  BY <2>1, TilesCalm
<1>3. CASE /\ <<"write_entry", n>> \in StepsOf(q) /\ <<"account", n>> \in StepsOf(q)
           /\ \A x \in StepsOf(q) : x[1] \in DirectNames
  <2>1. \E y \in StepsOf(q) : y[1] = "reserve"
    BY <1>3, AppendReserves
  <2>2. \E y \in StepsOf(q) : y[1] = "write_entry"
    BY <1>3
  <2>3. \E y \in StepsOf(q) : y[1] = "account"
    BY <1>3
  <2>4. Has({"reserve"})' /\ Has({"write_entry"})' /\ Has({"account"})' /\ ~Has({"flushed"})'
    BY <1>3, <2>1, <2>2, <2>3 DEF Has, DirectNames
  <2>. QED  BY <2>4, TilesCalm
<1>. QED  BY <1>1, <1>2, <1>3

\* The steps that only concern the other segments, the summaries and the boot.
LEMMA MovesTiles ==
    ASSUME TypeOK, TypeOK', ControlInv, SpaceInv, SequenceInv, TilesInv, Working, mode' # "off",
           \/ WriteDone /\ ~At("write_buffer") /\ ~At("write_entry")
           \/ OpenWriter \/ Acknowledge \/ Sealed \/ Settle \/ Flush \/ PrepareSpace
           \/ CountBoot \/ AppendBoot \/ Ready \/ NoEntry \/ Operations
    PROVE  TilesInv'
<1>1. ASSUME todo # <<>>, Pending' = Rest,
             UNCHANGED <<data, active_segment, active_write_offset, write_buf, write_buf_offset>>,
             ~At("write_buffer"), ~At("reserve"), ~At("write_entry"), ~At("account"),
             state'.newest_entry_id = state.newest_entry_id \/ ~Has({"account", "acknowledge"})'
      PROVE  TilesInv'
  <2>1. PICK new : new = {}
    OBVIOUS
  <2>2. /\ Pending' = new \cup Rest /\ \A x \in new : x[1] \notin {"account", "acknowledge"}
        /\ (\E x \in new : x[1] = "flushed") => \E x \in new : x[1] = "write_buffer"
    BY <1>1, <2>1
  <2>. QED  BY <1>1, <2>2, TilesMove
<1>2. CASE WriteDone /\ ~At("write_buffer") /\ ~At("write_entry")
  <2>1. todo # <<>> /\ Pending' = Rest
    BY <1>2, MovesControl DEF Moves
  <2>2. UNCHANGED data /\ ~At("reserve") /\ ~At("account")
    BY <1>2 DEF WriteDone, Write, WriterWrite, WriteBuffer, WriteEntry, WriteIndex, WriteFooter, WriteHeader,
                Commit, At
  <2>. QED  BY <1>1, <1>2, <2>1, <2>2 DEF WriteDone, memory
<1>3. CASE OpenWriter \/ Acknowledge \/ Sealed
  <2>1. todo # <<>> /\ Pending' = Rest
    BY <1>3, MovesControl DEF Moves
  <2>2. ~At("write_buffer") /\ ~At("reserve") /\ ~At("write_entry") /\ ~At("account")
    BY <1>3 DEF OpenWriter, Acknowledge, Sealed, At
  <2>. QED  BY <1>1, <1>3, <2>1, <2>2 DEF OpenWriter, Acknowledge, Sealed, memory, medium
<1>4. CASE Settle \/ CountBoot
  <2>1. todo # <<>> /\ Pending = {Head(todo)} \cup Rest /\ (At("settle") \/ At("count_boot"))
    BY <1>4, BehindEntry DEF Settle, CountBoot, At
  <2>2. Has(Booting)
    BY <2>1 DEF Has, At, Booting, Recovering
  <2>3. mode = "init" /\ \A x \in Rest : x[1] \notin Entry
    BY <2>1, <2>2 DEF ControlInv, Has, Entry
  <2>4. Pending' = Rest
    <3>1. ~Fail
      BY <2>3 DEF Fail, Reset
    <3>. QED  BY <1>4, <3>1, SetStateControl, MovesControl DEF Moves
  <2>5. ~At("write_buffer") /\ ~At("reserve") /\ ~At("write_entry") /\ ~At("account")
    BY <2>1 DEF At
  <2>6. UNCHANGED <<data, active_segment, active_write_offset, write_buf, write_buf_offset>>
    <3>1. CASE Settle
      BY <3>1 DEF Settle, SetState, medium
    <3>2. CASE CountBoot
      <4>1. ~Fail
        BY <2>3 DEF Fail, Reset
      <4>. QED  BY <3>2, <4>1 DEF CountBoot, SetState, medium
    <3>. QED  BY <1>4, <3>1, <3>2
  <2>7. ~Has({"account", "acknowledge"})'
    BY <2>3, <2>4 DEF Has, Entry, Sized
  <2>. QED  BY <1>1, <2>1, <2>4, <2>5, <2>6, <2>7
<1>5. CASE Ready
  <2>1. todo # <<>> /\ Pending' = Rest
    BY <1>5, ReadyControl
  <2>2. ~At("write_buffer") /\ ~At("reserve") /\ ~At("write_entry") /\ ~At("account")
    BY <1>5 DEF Ready, At
  <2>. QED  BY <1>1, <1>5, <2>1, <2>2 DEF Ready, memory, medium
<1>6. CASE Flush
  <2>1. todo # <<>> /\ At("flush") /\ UNCHANGED <<medium, memory>>
    BY <1>6 DEF Flush, At
  <2>2. ~At("write_buffer") /\ ~At("reserve") /\ ~At("write_entry") /\ ~At("account")
    BY <2>1 DEF At
  <2>3. CASE write_buf = <<>>
    BY <1>1, <1>6, <2>1, <2>2, <2>3, FlushControl DEF memory, medium
  <2>4. CASE write_buf # <<>>
    <3>1. PICK new : new = StepsOf(FlushSteps)
      OBVIOUS
    <3>2. Pending' = new \cup Rest /\ \A x \in new : x[1] \in FlushNames
      BY <1>6, <2>4, <3>1, FlushControl, CallNames
    <3>3. \A x \in new : x[1] \notin {"account", "acknowledge"}
      BY <3>2 DEF FlushNames
    <3>4. \E x \in new : x[1] = "write_buffer"
      <4>1. FlushSteps[1] = Do("write_buffer") /\ 1 \in DOMAIN FlushSteps
        BY DEF FlushSteps
      <4>2. Do("write_buffer") \in new
        BY <3>1, <4>1 DEF StepsOf
      <4>. QED  BY <4>2 DEF Do
    <3>. QED  BY <2>1, <2>2, <3>2, <3>3, <3>4, TilesMove DEF memory, medium
  <2>. QED  BY <2>3, <2>4
<1>7. CASE PrepareSpace
  <2>1. todo # <<>> /\ At("prepare") /\ UNCHANGED <<medium, memory>>
    BY <1>7 DEF PrepareSpace, At
  <2>2. ~At("write_buffer") /\ ~At("reserve") /\ ~At("write_entry") /\ ~At("account")
    BY <2>1 DEF At
  <2>3. CASE HasSpace(Arg)
    BY <1>1, <1>7, <2>1, <2>2, <2>3, PrepareControl DEF memory, medium
  <2>4. CASE ~HasSpace(Arg)
    <3>1. PICK new : new = StepsOf(SealSteps \o <<Do("open_next")>>)
      OBVIOUS
    <3>2. Pending' = new \cup Rest /\ \A x \in new : x[1] \in RotateNames
      BY <1>7, <2>4, <3>1, PrepareControl, CallNames
    <3>3. \A x \in new : x[1] \notin {"account", "acknowledge", "flushed"}
      BY <3>2 DEF RotateNames, SealNames
    <3>. QED  BY <2>1, <2>2, <3>2, <3>3, TilesMove DEF memory, medium
  <2>. QED  BY <2>3, <2>4
<1>8. CASE AppendBoot
  <2>1. Pending' = StepsOf(AppendSteps(BootEntrySize, TRUE)) \cup Rest /\ At("append_boot") /\ todo # <<>>
    BY <1>8, AppendBootControl DEF AppendBoot
  <2>2. \A x \in Rest : x[1] \notin Entry \cup {"flushed"}
    BY <2>1, BehindBoot, BehindAppend DEF TypeOK, ControlInv
  <2>. QED  BY <1>8, <2>1, <2>2, BootEntryAssumption, TilesCalls DEF AppendBoot, memory, medium
<1>9. CASE NoEntry
  <2>1. Pending' = {} /\ Fail
    BY <1>9, FailControl DEF NoEntry
  <2>2. UNCHANGED <<medium, memory>>
    BY <1>9, <2>1 DEF NoEntry, Fail, Reset
  <2>. QED  BY <2>1, <2>2, TilesCalm DEF Has, medium, memory
<1>10. CASE Operations
  <2>0. UNCHANGED <<medium, memory>>
    BY <1>10, OperationsPending
  <2>1. CASE AppendEntry
    <3>1. PICK n \in EntrySizes, force \in BOOLEAN : todo' = AppendSteps(n, force)
      BY <2>1 DEF AppendEntry
    <3>2. n \in 1 .. Capacity
      BY EntrySizesAssumption
    <3>3. PICK R : R = {}
      OBVIOUS
    <3>4. Pending' = StepsOf(AppendSteps(n, force)) \cup R /\ \A x \in R : x[1] \notin Entry \cup {"flushed"}
      BY <3>1, <3>3 DEF Pending
    <3>. QED  BY <2>0, <3>2, <3>4, TilesCalls DEF memory, medium
  <2>2. CASE FlushWrite \/ Deinit
    <3>1. \A x \in Pending' : x[1] \in {"flush", "close"}
      <4>1. CASE FlushWrite
        BY <4>1 DEF FlushWrite, Pending, StepsOf, Do
      <4>2. CASE Deinit
        BY <4>2, LongLists DEF Deinit, IsList, Pending
      <4>. QED  BY <2>2, <4>1, <4>2
    <3>2. ~Has({"flushed"})' /\ ~Has({"account"})' /\ ~Has({"acknowledge"})'
      BY <3>1 DEF Has
    <3>. QED  BY <2>0, <3>2, TilesCalm DEF memory, medium
  <2>. QED  BY <1>10, <2>1, <2>2 DEF Operations
<1>. QED  BY <1>2, <1>3, <1>4, <1>5, <1>6, <1>7, <1>8, <1>9, <1>10

\* What a write of cells leaves on the medium.
LEMMA CellsWritten ==
    ASSUME MediumTypeOK, NEW s \in Slots, NEW offset \in Nat, NEW cells \in Seq(Cell),
           WriteCells(s, offset, cells, "new")
    PROVE  \A t \in Slots, o \in Offsets :
               data'[t][o] = IF t = s /\ o - offset + 1 \in 1 .. Len(cells)
                             THEN cells[o - offset + 1] ELSE data[t][o]
<1>1. DOMAIN cells = 1 .. Len(cells)
  OBVIOUS
<1>2. PICK m \in {[k \in DOMAIN cells |-> "new"]} :
          data' = [data EXCEPT ![s] =
                      [p \in Offsets |-> IF p - offset + 1 \in DOMAIN cells
                                         THEN Land(@[p], cells[p - offset + 1], m[p - offset + 1])
                                         ELSE @[p]]]
  BY DEF WriteCells
<1>3. \A k \in DOMAIN cells : m[k] = "new"
  BY <1>2
<1>. SUFFICES ASSUME NEW t \in Slots, NEW o \in Offsets
              PROVE  data'[t][o] = IF t = s /\ o - offset + 1 \in 1 .. Len(cells)
                                   THEN cells[o - offset + 1] ELSE data[t][o]
  OBVIOUS
<1>4. CASE t # s
  BY <1>2, <1>4 DEF MediumTypeOK
<1>5. CASE t = s
  <2>1. data'[t][o] = IF o - offset + 1 \in DOMAIN cells
                      THEN Land(data[s][o], cells[o - offset + 1], m[o - offset + 1]) ELSE data[s][o]
    BY <1>2, <1>5 DEF MediumTypeOK
  <2>2. CASE o - offset + 1 \in DOMAIN cells
    <3>1. m[o - offset + 1] = "new"
      BY <1>3, <2>2
    <3>2. Land(data[s][o], cells[o - offset + 1], m[o - offset + 1]) = cells[o - offset + 1]
      BY <3>1 DEF Land
    <3>. QED  BY <1>1, <1>5, <2>1, <2>2, <3>2
  <2>. QED  BY <1>1, <1>5, <2>1, <2>2
<1>. QED  BY <1>4, <1>5

\* What flush_unsafe writes is what a reader saw already.
LEMMA BufferTilesWritten ==
    ASSUME TypeOK, TypeOK', ControlInv, SpaceInv, SequenceInv, BufferInv, ActiveInv, TilesInv,
           WriteDone, At("write_buffer")
    PROVE  TilesInv'
<1>1. /\ Pending' = Rest /\ todo # <<>>
      /\ UNCHANGED <<state, active_segment, active_write_offset, write_buf, write_buf_offset>>
  BY MovesControl DEF Moves, WriteDone, memory
<1>2. PICK s \in Slots, g \in Nat : s = active_segment.slot /\ g = active_segment.generation
  BY DEF TypeOK, MemoryTypeOK
<1>3. Working /\ writer_fd = s
  BY <1>2, WriterOpen
<1>4. s = active_segment'.slot /\ g = active_segment'.generation
  BY <1>1, <1>2
<1>5. Pending = {Head(todo)} \cup Rest
  BY <1>1, BehindEntry
<1>6. Has({"flushed"}) /\ write_buf # <<>>
  <2>1. Has({"write_buffer"})
    BY <1>1, <1>5 DEF Has, At
  <2>. QED  BY <2>1 DEF SequenceInv, BufferInv
<1>7. write_buf \in Seq(Cell) /\ Len(write_buf) \in Nat \ {0} /\ write_buf_offset \in Nat
      /\ active_write_offset \in Nat /\ DOMAIN write_buf = 1 .. Len(write_buf)
  BY <1>6 DEF TypeOK, MemoryTypeOK
<1>8. write_buf_offset + Len(write_buf) <= active_write_offset /\ active_write_offset <= Capacity
      /\ Capacity \in Nat
  BY <1>6, CapacityAssumption DEF SpaceInv
<1>9. \A o \in Offsets : data'[s][o] = IF o - write_buf_offset + 1 \in 1 .. Len(write_buf)
                                       THEN write_buf[o - write_buf_offset + 1] ELSE data[s][o]
  <2>1. WriteCells(s, write_buf_offset, write_buf, "new")
    BY <1>3 DEF WriteDone, Write, WriterWrite, WriteBuffer, WriteEntry, WriteIndex, WriteFooter,
                WriteHeader, Commit, At
  <2>. QED  BY <1>7, <2>1, CellsWritten DEF TypeOK
<1>10. \A o \in Offsets : Overlay(s)'[o] = Overlay(s)[o]
  BY <1>1, <1>2, <1>4, <1>9, OverlayNow, OverlayNext
<1>11. Overlay(s) \in Cells /\ Tiled(Overlay(s), g, active_write_offset)
  BY <1>2, <1>3, OverlayNow, TilesNow DEF TilesInv
<1>12. \A o \in 0 .. active_write_offset - 1 : o \in Offsets
  BY <1>7, <1>8 DEF Offsets
<1>13. Tiled(Overlay(s)', g, active_write_offset)
  <2>1. PICK new : new = Overlay(s)'
    OBVIOUS
  <2>2. \A o \in 0 .. active_write_offset - 1 : new[o] = Overlay(s)[o]
    BY <1>10, <1>12, <2>1
  <2>3. Tiled(new, g, active_write_offset)
    BY <1>7, <1>8, <1>11, <2>2, TiledSame
  <2>. QED  BY <2>1, <2>3
<1>14. ActiveTiles'
  BY <1>1, <1>4, <1>13, TilesNext
<1>15. BufferTiles'
  BY <1>1, <1>3 DEF TilesInv, BufferTiles
<1>16. FlushTiles'
  <2>1. ASSUME NEW k \in DOMAIN write_buf PROVE data'[s][write_buf_offset + k - 1] = write_buf[k]
    <3>1. write_buf_offset + k - 1 \in Offsets /\ (write_buf_offset + k - 1) - write_buf_offset + 1 = k
          /\ k \in 1 .. Len(write_buf)
      BY <1>7, <1>8 DEF Offsets
    <3>. QED  BY <1>9, <3>1
  <2>. QED  BY <1>1, <1>4, <2>1, TilesNext
<1>17. ReservedTiles'
  <2>1. Underway({"account"}, {"reserve"})' => Underway({"account"}, {"reserve"})
    BY <1>1, <1>5 DEF Underway, Has, At
  <2>. QED  BY <1>1, <1>2, <1>3, <1>4, <1>10, <1>12, <2>1, TilesNow, TilesNext DEF TilesInv
<1>18. ~Has({"account", "acknowledge"}) \/ Has({"write_entry"})
  BY <1>6 DEF SequenceInv, BufferInv, Has
<1>19. WrittenTiles'
  <2>1. ~Underway({"account"}, {"write_entry"})'
    BY <1>1, <1>5, <1>18 DEF Underway, Has, At
  <2>. QED  BY <1>4, <2>1, TilesNext
<1>20. AccountedTiles'
  <2>1. ~Underway({"acknowledge"}, {"account"})'
    BY <1>1, <1>5, <1>18 DEF Underway, Has, At, SequenceInv
  <2>. QED  BY <1>4, <2>1, TilesNext
<1>. QED  BY <1>14, <1>15, <1>16, <1>17, <1>19, <1>20 DEF TilesInv

\* While an entry goes past the buffer, the buffer is empty and the entry fits.
LEMMA BypassEmpty ==
    ASSUME TypeOK, ControlInv, SpaceInv, BufferInv, todo # <<>>,
           \E n \in {"reserve", "write_entry", "account"} : At(n)
    PROVE  /\ write_buf = <<>> /\ ~Has({"flushed"}) /\ HasSpace(Arg) /\ Arg \in 1 .. Capacity
           /\ active_write_offset \in Nat /\ active_write_offset + Arg <= Capacity
<1>1. Pending = {Head(todo)} \cup Rest
  BY BehindEntry
<1>2. \A y \in Rest : y[1] # "flushed"
  BY BehindData DEF Bypass
<1>3. ~Has({"flushed"}) /\ Has(Bypass) /\ ~At("flush")
  BY <1>1, <1>2 DEF Has, Bypass, At
<1>4. write_buf = <<>>
  BY <1>3 DEF BufferInv, Has
<1>5. ~Has({"prepare", "open_next", "activate"})
  <2>1. \A y \in Rest : y[1] \notin {"prepare", "open_next", "activate"}
    <3>1. At("account") => \A y \in Rest : y[1] \notin Preparing
      BY BehindEntry
    <3>2. At("write_entry") \/ At("reserve") => \A y \in Rest : y[1] \notin Rotating \cup {"prepare"}
      BY BehindStep
    <3>. QED  BY <3>1, <3>2 DEF Preparing, Rotating
  <2>. QED  BY <1>1, <2>1 DEF Has, At
<1>6. Head(todo) \in Pending /\ Head(todo)[1] \in Sized
  BY <1>1 DEF At, Sized
<1>7. HasSpace(Arg)
  BY <1>5, <1>6 DEF SpaceInv, Arg
<1>8. Arg \in 1 .. Capacity
  BY ArgType DEF TypeOK
<1>. QED  BY <1>3, <1>4, <1>7, <1>8, CapacityAssumption DEF HasSpace, TypeOK, MemoryTypeOK

\* append_direct_entry_unsafe writes behind the offset that appends have reached.
LEMMA EntryTilesWritten ==
    ASSUME TypeOK, TypeOK', ControlInv, SpaceInv, SequenceInv, BufferInv, ActiveInv, TilesInv,
           WriteDone, At("write_entry")
    PROVE  TilesInv'
<1>1. /\ Pending' = Rest /\ todo # <<>>
      /\ UNCHANGED <<state, active_segment, active_write_offset, write_buf, write_buf_offset>>
  BY MovesControl DEF Moves, WriteDone, memory
<1>2. PICK s \in Slots, g \in Nat : s = active_segment.slot /\ g = active_segment.generation
  BY DEF TypeOK, MemoryTypeOK
<1>3. Working /\ writer_fd = s
  BY <1>2, WriterOpen
<1>4. s = active_segment'.slot /\ g = active_segment'.generation
  BY <1>1, <1>2
<1>5. Pending = {Head(todo)} \cup Rest /\ Head(todo) \in Pending
  BY <1>1, BehindEntry
<1>6. PICK n \in 1 .. Capacity : n = Arg
  BY <1>1, BypassEmpty
<1>7. /\ write_buf = <<>> /\ ~Has({"flushed"}) /\ active_write_offset \in Nat
      /\ active_write_offset + n <= Capacity /\ Capacity \in Nat /\ n \in Nat \ {0}
  BY <1>1, <1>6, BypassEmpty, CapacityAssumption
<1>8. PICK id \in Nat : id = state.newest_entry_id
  BY DEF TypeOK, MemoryTypeOK, StateRecord
<1>9. EntryCells(id, g, n) \in Seq(Cell) /\ Len(EntryCells(id, g, n)) = n
  <2>1. EntryCells(id, g, n) \in Seq(Cell)
    BY EntryCellsType
  <2>2. DOMAIN EntryCells(id, g, n) = 1 .. n
    BY DEF EntryCells
  <2>. QED  BY <1>7, <2>1, <2>2
<1>10. \A o \in Offsets : data'[s][o] = IF o - active_write_offset + 1 \in 1 .. n
                                        THEN EntryCells(id, g, n)[o - active_write_offset + 1]
                                        ELSE data[s][o]
  <2>1. WriteCells(s, active_write_offset, EntryCells(id, g, n), "new")
    BY <1>2, <1>3, <1>6, <1>8 DEF WriteDone, Write, WriterWrite, WriteBuffer, WriteEntry, WriteIndex,
                WriteFooter, WriteHeader, Commit, At
  <2>. QED  BY <1>7, <1>9, <2>1, CellsWritten DEF TypeOK
<1>11. \A o \in 0 .. active_write_offset - 1 : o \in Offsets
  BY <1>7 DEF Offsets
<1>12. \A o \in 0 .. active_write_offset - 1 : Overlay(s)'[o] = Overlay(s)[o]
  <2>1. ASSUME NEW o \in 0 .. active_write_offset - 1 PROVE Overlay(s)'[o] = Overlay(s)[o]
    <3>1. o \in Offsets /\ ~(o - active_write_offset + 1 \in 1 .. n)
      BY <1>7, <1>11
    <3>2. data'[s][o] = data[s][o]
      BY <1>10, <3>1
    <3>. QED  BY <1>1, <1>2, <1>4, <3>1, <3>2, OverlayNow, OverlayNext
  <2>. QED  BY <2>1
<1>13. Overlay(s) \in Cells /\ Tiled(Overlay(s), g, active_write_offset)
  BY <1>2, <1>3, OverlayNow, TilesNow DEF TilesInv
<1>14. Tiled(Overlay(s)', g, active_write_offset)
  <2>1. PICK new : new = Overlay(s)'
    OBVIOUS
  <2>2. \A o \in 0 .. active_write_offset - 1 : new[o] = Overlay(s)[o]
    BY <1>12, <2>1
  <2>3. active_write_offset <= Capacity
    BY <1>7
  <2>4. Tiled(new, g, active_write_offset)
    BY <1>7, <1>13, <2>2, <2>3, TiledSame
  <2>. QED  BY <2>1, <2>4
<1>15. ActiveTiles'
  BY <1>1, <1>4, <1>14, TilesNext
<1>16. BufferTiles'
  BY <1>1, <1>7 DEF BufferTiles
<1>17. FlushTiles'
  <2>1. ~Underway({"flushed"}, {"write_buffer"})'
    BY <1>1, <1>5, <1>7 DEF Underway, Has
  <2>. QED  BY <1>4, <2>1, TilesNext
<1>18. \A y \in Rest : y[1] \notin {"reserve", "write_entry"}
  BY <1>1, BehindAppend
<1>19. ReservedTiles'
  <2>1. Underway({"account"}, {"reserve"})' => Underway({"account"}, {"reserve"})
    BY <1>1, <1>5, <1>18 DEF Underway, Has, At
  <2>. QED  BY <1>1, <1>2, <1>3, <1>4, <1>12, <2>1, TilesNow, TilesNext DEF TilesInv
<1>20. WrittenTiles'
  <2>. SUFFICES ASSUME NEW x \in Pending', x[1] = "account", NEW k \in 1 .. x[2]
                PROVE  data'[s][active_write_offset' + k - 1] = EntryCells(state'.newest_entry_id, g, x[2])[k]
    BY <1>4, TilesNext
  <2>1. x[2] = n
    <3>1. x \in Pending /\ x[1] \in Sized /\ Head(todo)[1] \in Sized
      BY <1>1, <1>5 DEF Sized, At
    <3>. QED  BY <1>5, <1>6, <3>1 DEF ControlInv, Arg
  <2>2. /\ active_write_offset + k - 1 \in Offsets /\ k \in 1 .. n
        /\ (active_write_offset + k - 1) - active_write_offset + 1 = k
    BY <1>7, <2>1 DEF Offsets
  <2>. QED  BY <1>1, <1>8, <1>10, <2>1, <2>2
<1>21. AccountedTiles'
  <2>1. Has({"account"})
    BY <1>5 DEF SequenceInv, Has, At
  <2>2. ~Underway({"acknowledge"}, {"account"})'
    BY <1>1, <1>5, <2>1 DEF Underway, Has, At
  <2>. QED  BY <1>4, <2>2, TilesNext
<1>. QED  BY <1>15, <1>16, <1>17, <1>19, <1>20, <1>21 DEF TilesInv

\* What a reader of the active segment sees is stored.
LEMMA OverlayStored ==
    ASSUME TypeOK, NEW s \in Slots, s = active_segment.slot, NEW o \in Offsets, Overlay(s)[o] # Garbage
    PROVE  Mark(Overlay(s)[o]) \in Stored
<1>1. write_buf \in Seq(Cell) /\ DOMAIN write_buf = 1 .. Len(write_buf)
  BY DEF TypeOK, MemoryTypeOK
<1>2. CASE o - write_buf_offset + 1 \in 1 .. Len(write_buf)
  <2>1. Overlay(s)[o] = write_buf[o - write_buf_offset + 1]
    BY <1>2, OverlayNow
  <2>. QED  BY <1>1, <1>2, <2>1 DEF Stored, InBuffer
<1>3. CASE ~(o - write_buf_offset + 1 \in 1 .. Len(write_buf))
  <2>1. Overlay(s)[o] = data[s][o]
    BY <1>3, OverlayNow
  <2>2. <<s, o>> \in {y \in Slots \X Offsets : data[y[1]][y[2]] # Garbage}
    BY <2>1
  <2>3. Mark(data[s][o]) \in OnMedium
    BY <2>2 DEF OnMedium
  <2>. QED  BY <2>1, <2>3 DEF Stored
<1>. QED  BY <1>2, <1>3

\* The next id is beyond those of the active segment.
LEMMA NewIdBeyond ==
    ASSUME TypeOK, ControlInv, IdInv, GenerationInv, PutEntry \/ ReserveEntry,
           NEW s \in Slots, s = active_segment.slot, NEW g, NEW end \in 0 .. Capacity,
           Tiled(Overlay(s), g, end)
    PROVE  /\ NewEntryId \in Nat \ {0}
           /\ \A o \in 0 .. end - 1 : Overlay(s)[o].id < NewEntryId
<1>1. NewEntryId \in Nat \ {0}
  <2>1. state.boot_counter \in Nat /\ state.next_entry_sequence \in Nat
    BY BoundTypes
  <2>2. 0 \in Nat /\ state.next_entry_sequence + 1 \in Nat /\ 0 < state.next_entry_sequence + 1
    BY <2>1
  <2>3. EntryId(state.boot_counter, 0) \in Nat /\ NewEntryId \in Nat
        /\ EntryId(state.boot_counter, 0) < NewEntryId
    BY <2>1, <2>2, EntryIdOrder DEF NewEntryId
  <2>. QED  BY <2>3
<1>2. ASSUME NEW o \in 0 .. end - 1 PROVE Overlay(s)[o].id < NewEntryId
  <2>1. o \in Offsets /\ Overlay(s)[o] # Garbage
    BY CapacityAssumption DEF Tiled, Whole, Offsets
  <2>2. Mark(Overlay(s)[o]) \in Stored
    BY <2>1, OverlayStored
  <2>3. Mark(Overlay(s)[o]).id < NewEntryId
    BY <2>2, NewestMark
  <2>. QED  BY <2>3 DEF Mark
<1>. QED  BY <1>1, <1>2

\* account_appended_entry_unsafe after a direct append.
LEMMA EntryTilesAccounted ==
    ASSUME TypeOK, TypeOK', ControlInv, SpaceInv, BufferInv, TilesInv, Working, AccountEntry
    PROVE  /\ TilesInv' /\ active_write_offset' = active_write_offset + Arg /\ Arg \in 1 .. Capacity
           /\ \A s \in Slots, g \in Nat : s = active_segment.slot /\ g = active_segment.generation =>
                  Extends(Overlay(s)', Overlay(s), g, active_write_offset, state.newest_entry_id, Arg)
<1>1. /\ Pending' = Rest /\ todo # <<>> /\ At("account")
      /\ active_write_offset' = active_write_offset + Arg
      /\ UNCHANGED <<state, data, active_segment, write_buf, write_buf_offset>>
  <2>1. Pending' = Rest /\ todo # <<>>
    BY MovesControl DEF Moves
  <2>. QED  BY <2>1 DEF AccountEntry, Account, medium
<1>2. PICK s \in Slots, g \in Nat : s = active_segment.slot /\ g = active_segment.generation
  BY DEF TypeOK, MemoryTypeOK
<1>3. s = active_segment'.slot /\ g = active_segment'.generation
  BY <1>1, <1>2
<1>4. Pending = {Head(todo)} \cup Rest /\ Head(todo) \in Pending /\ Head(todo)[1] = "account"
  BY <1>1, BehindEntry DEF At
<1>5. PICK n \in 1 .. Capacity : n = Arg
  BY <1>1, BypassEmpty
<1>6. PICK id \in Nat : id = state.newest_entry_id
  BY DEF TypeOK, MemoryTypeOK, StateRecord
<1>7. PICK end \in Nat : end = active_write_offset
  BY DEF TypeOK, MemoryTypeOK
<1>8. /\ write_buf = <<>> /\ ~Has({"flushed"}) /\ end + n <= Capacity
      /\ Capacity \in Nat /\ n \in Nat \ {0} /\ end \in 0 .. Capacity
  <2>1. write_buf = <<>> /\ ~Has({"flushed"}) /\ end + n <= Capacity
    BY <1>1, <1>5, <1>7, BypassEmpty
  <2>. QED  BY <2>1, CapacityAssumption
<1>9. Underway({"account"}, {"reserve"}) /\ Underway({"account"}, {"write_entry"})
      /\ ~Has({"account"})'
  <2>1. \A y \in Rest : y[1] \notin {"reserve", "write_entry", "account"}
    BY <1>1, BehindAppend
  <2>. QED  BY <1>1, <1>4, <2>1 DEF Underway, Has
<1>10. id # 0 /\ \A o \in 0 .. end - 1 : Overlay(s)[o].id < id
  BY <1>2, <1>6, <1>7, <1>9, TilesNow DEF TilesInv
<1>11. \A k \in 1 .. n : data[s][end + k - 1] = EntryCells(id, g, n)[k]
  <2>1. WrittenTiles
    BY DEF TilesInv
  <2>2. Head(todo)[2] = n
    BY <1>5 DEF Arg
  <2>. QED  BY <1>2, <1>4, <1>6, <1>7, <1>9, <2>1, <2>2, TilesNow
<1>12. PICK cells \in Cells : cells = Overlay(s)
  BY <1>2, OverlayNow
<1>13. PICK new \in Cells : new = Overlay(s)'
  BY <1>3, OverlayNext
<1>14. \A o \in Offsets : cells[o] = data[s][o] /\ new[o] = data[s][o]
  BY <1>1, <1>2, <1>3, <1>8, <1>12, <1>13, OverlayNow, OverlayNext
<1>15. Tiled(cells, g, end)
  BY <1>2, <1>7, <1>12, TilesNow DEF TilesInv
<1>16. \A o \in 0 .. end - 1 : new[o] = cells[o] /\ cells[o].id < id
  <2>1. \A o \in 0 .. end - 1 : o \in Offsets
    BY <1>8 DEF Offsets
  <2>. QED  BY <1>10, <1>12, <1>14, <2>1
<1>17. \A k \in 1 .. n : new[end + k - 1] = EntryCells(id, g, n)[k]
  <2>1. \A k \in 1 .. n : end + k - 1 \in Offsets
    BY <1>8 DEF Offsets
  <2>. QED  BY <1>11, <1>14, <2>1
<1>18. Extends(new, cells, g, end, id, n)
  BY <1>8, <1>10, <1>15, <1>16, <1>17 DEF Extends
<1>19. /\ Tiled(new, g, end + n)
       /\ \A o \in end .. end + n - 1 : new[o].id = id /\ new[o].part = o - end
  BY <1>18, TiledExtend
<1>20. active_write_offset' = end + n
  BY <1>1, <1>5, <1>7
<1>21. ActiveTiles'
  BY <1>3, <1>13, <1>19, <1>20, TilesNext
<1>22. BufferTiles'
  BY <1>1, <1>8 DEF BufferTiles
<1>23. FlushTiles' /\ ReservedTiles' /\ WrittenTiles'
  <2>1. ~Has({"flushed"})'
    BY <1>1, <1>4, <1>8 DEF Has
  <2>. QED  BY <1>3, <1>9, <2>1, TilesNext DEF Underway
<1>24. AccountedTiles'
  <2>1. end + n - 1 \in end .. end + n - 1 /\ end + n - 1 \in Offsets /\ end + n > 0
    BY <1>8 DEF Offsets
  <2>2. data[s][end + n - 1].id = id
    BY <1>14, <1>19, <2>1
  <2>. QED  BY <1>1, <1>3, <1>6, <1>20, <2>1, <2>2, TilesNext
<1>25. TilesInv'
  BY <1>21, <1>22, <1>23, <1>24 DEF TilesInv
<1>. QED  BY <1>1, <1>2, <1>5, <1>6, <1>7, <1>12, <1>13, <1>18, <1>25

\* The cells of an entry in a row.
LEMMA EntryCellsValue ==
    ASSUME NEW id \in Nat, NEW g \in Nat, NEW n \in 1 .. Capacity
    PROVE  EntryCells(id, g, n) \in Seq(Cell) /\ Len(EntryCells(id, g, n)) = n /\ EntryCells(id, g, n)[1].part = 0
<1>1. n \in Nat \ {0} /\ 1 \in 1 .. n
  BY CapacityAssumption
<1>2. EntryCells(id, g, n) \in Seq(Cell)
  BY EntryCellsType
<1>3. DOMAIN EntryCells(id, g, n) = 1 .. n /\ EntryCells(id, g, n)[1].part = 1 - 1
  BY <1>1 DEF EntryCells
<1>. QED  BY <1>1, <1>2, <1>3

\* append_buffered_entry_unsafe: the entry follows the one before it in the buffer.
LEMMA EntryTilesPut ==
    ASSUME TypeOK, TypeOK', ControlInv, SpaceInv, IdInv, GenerationInv, SequenceInv, TilesInv,
           Working, PutEntry
    PROVE  /\ TilesInv' /\ active_write_offset' = active_write_offset + Arg /\ Arg \in 1 .. Capacity
           /\ \A s \in Slots, g \in Nat : s = active_segment.slot /\ g = active_segment.generation =>
                  Extends(Overlay(s)', Overlay(s), g, active_write_offset, NewEntryId, Arg)
<1>1. Pending' = Rest /\ todo # <<>> /\ At("put")
  BY MovesControl DEF Moves, PutEntry
<1>2. PICK s \in Slots, g \in Nat : s = active_segment.slot /\ g = active_segment.generation
  BY DEF TypeOK, MemoryTypeOK
<1>3. Pending = {Head(todo)} \cup Rest /\ Head(todo) \in Pending /\ Head(todo)[1] = "put"
  BY <1>1, BehindEntry DEF At
<1>4. PICK n \in 1 .. Capacity : n = Arg
  BY <1>1, ArgType DEF TypeOK
<1>5. PICK id : id = NewEntryId
  OBVIOUS
<1>6. PICK end \in Nat : end = active_write_offset
  BY DEF TypeOK, MemoryTypeOK
<1>7. /\ active_write_offset' = end + n /\ write_buf' = write_buf \o EntryCells(id, g, n)
      /\ write_buf_offset' = IF write_buf = <<>> THEN end ELSE write_buf_offset
      /\ UNCHANGED <<data, active_segment>>
  BY <1>2, <1>4, <1>5, <1>6 DEF PutEntry, Account, medium
<1>8. s = active_segment'.slot /\ g = active_segment'.generation
  BY <1>2, <1>7
<1>9. /\ ~Has({"flushed"})' /\ ~Has({"account"})' /\ ~Has({"acknowledge"})'
  <2>1. \A y \in Rest : y[1] # "flushed"
    BY <1>1, BehindData
  <2>2. ~Has(Bypass)
    BY <1>3 DEF SequenceInv, Has
  <2>. QED  BY <1>1, <1>3, <2>1, <2>2 DEF Has, Bypass
<1>10. /\ end + n <= Capacity /\ Capacity \in Nat /\ n \in Nat \ {0} /\ end \in 0 .. Capacity
  <2>1. ~Has({"prepare", "open_next", "activate"})
    <3>1. \A y \in Rest : y[1] \notin Preparing
      BY <1>1, BehindEntry
    <3>. QED  BY <1>3, <3>1 DEF Has, Preparing
  <2>2. Head(todo)[1] \in Sized
    BY <1>3 DEF Sized
  <2>3. HasSpace(n)
    BY <1>3, <1>4, <2>1, <2>2 DEF SpaceInv, Arg
  <2>. QED  BY <1>6, <2>3, CapacityAssumption DEF HasSpace
<1>11. PICK cells \in Cells : cells = Overlay(s)
  BY <1>2, OverlayNow
<1>12. PICK new \in Cells : new = Overlay(s)'
  BY <1>8, OverlayNext
<1>13. Tiled(cells, g, end)
  BY <1>2, <1>6, <1>11, TilesNow DEF TilesInv
<1>14. id \in Nat \ {0} /\ \A o \in 0 .. end - 1 : cells[o].id < id
  BY <1>2, <1>5, <1>10, <1>11, <1>13, NewIdBeyond
<1>15. write_buf \in Seq(Cell) /\ Len(write_buf) \in Nat /\ write_buf_offset \in Nat
       /\ write_buf_offset' \in Nat
  BY DEF TypeOK, MemoryTypeOK
<1>16. PICK len \in Nat : len = Len(write_buf)
  BY <1>15
<1>17. PICK from \in Nat : from = write_buf_offset'
  BY <1>15
<1>18. /\ from + len = end /\ from \in Nat /\ len \in Nat /\ end \in Nat /\ n \in Nat \ {0}
       /\ end + n <= Capacity /\ Capacity \in Nat
  <2>1. from + len = end
    <3>1. CASE write_buf = <<>>
      <4>1. len = 0 /\ from = end
        BY <1>7, <1>16, <1>17, <3>1
      <4>. QED  BY <4>1
    <3>2. CASE write_buf # <<>>
      <4>1. from = write_buf_offset /\ write_buf_offset + Len(write_buf) = active_write_offset
        BY <1>7, <1>17, <3>2 DEF TilesInv, BufferTiles
      <4>. QED  BY <1>6, <1>16, <4>1
    <3>. QED  BY <3>1, <3>2
  <2>. QED  BY <1>10, <2>1
<1>19. /\ Len(write_buf') = len + n
       /\ \A k \in 1 .. len : write_buf'[k] = write_buf[k]
       /\ \A k \in 1 .. n : write_buf'[len + k] = EntryCells(id, g, n)[k]
       /\ EntryCells(id, g, n)[1].part = 0
  <2>1. id \in Nat
    BY <1>14
  <2>2. PICK e : e = EntryCells(id, g, n)
    OBVIOUS
  <2>3. e \in Seq(Cell) /\ Len(e) = n /\ e[1].part = 0
    BY <2>1, <2>2, EntryCellsValue
  <2>4. write_buf' = write_buf \o e /\ write_buf \in Seq(Cell) /\ n \in Nat
    BY <1>7, <1>15, <1>18, <2>2
  <2>5. /\ Len(write_buf') = len + n
        /\ \A k \in 1 .. len : write_buf'[k] = write_buf[k]
        /\ \A k \in 1 .. n : write_buf'[len + k] = e[k]
    <3>1. /\ Len(write_buf') = Len(write_buf) + Len(e)
          /\ \A k \in 1 .. Len(write_buf) : write_buf'[k] = write_buf[k]
          /\ \A k \in 1 .. Len(e) : write_buf'[Len(write_buf) + k] = e[k]
      <4>1. PICK b \in Seq(Cell) : b = write_buf
        BY <2>4
      <4>2. PICK q \in Seq(Cell) : q = e
        BY <2>3
      <4>3. /\ Len(b \o q) = Len(b) + Len(q)
            /\ \A k \in 1 .. Len(b) : (b \o q)[k] = b[k]
            /\ \A k \in 1 .. Len(q) : (b \o q)[Len(b) + k] = q[k]
        OBVIOUS
      <4>. QED  BY ONLY <2>4, <4>1, <4>2, <4>3
    <3>. QED  BY ONLY <1>16, <2>3, <3>1
  <2>. QED  BY ONLY <2>2, <2>3, <2>5
<1>20. ASSUME NEW o \in 0 .. end - 1 PROVE new[o] = cells[o]
  <2>1. o \in Offsets
    BY <1>10 DEF Offsets
  <2>2. cells[o] = IF o - write_buf_offset + 1 \in 1 .. len
                   THEN write_buf[o - write_buf_offset + 1] ELSE data[s][o]
    BY <1>2, <1>11, <1>16, <2>1, OverlayNow
  <2>3. new[o] = IF o - from + 1 \in 1 .. len + n THEN write_buf'[o - from + 1] ELSE data[s][o]
    BY <1>7, <1>8, <1>12, <1>17, <1>19, <2>1, OverlayNext
  <2>4. CASE o - from + 1 \in 1 .. len
    <3>1. write_buf # <<>>
      BY <1>16, <2>4
    <3>2. from = write_buf_offset
      BY <1>7, <1>17, <3>1
    <3>3. o - from + 1 \in 1 .. len + n
      BY <1>10, <1>16, <2>4
    <3>. QED  BY <1>19, <2>2, <2>3, <2>4, <3>2, <3>3
  <2>5. CASE ~(o - from + 1 \in 1 .. len)
    <3>1. ~(o - from + 1 \in 1 .. len + n)
      <4>1. o \in 0 .. end - 1
        OBVIOUS
      <4>. QED  BY ONLY <1>18, <2>5, <4>1
    <3>2. ~(o - write_buf_offset + 1 \in 1 .. len)
      <4>1. CASE write_buf = <<>>
        BY <1>16, <4>1
      <4>2. CASE write_buf # <<>>
        BY <1>7, <1>17, <2>5, <4>2
      <4>. QED  BY <4>1, <4>2
    <3>. QED  BY <2>2, <2>3, <3>1, <3>2
  <2>. QED  BY <2>4, <2>5
<1>21. ASSUME NEW k \in 1 .. n PROVE new[end + k - 1] = EntryCells(id, g, n)[k]
  <2>1. end + k - 1 \in Offsets /\ (end + k - 1) - from + 1 = len + k /\ len + k \in 1 .. len + n
    <3>1. k \in 1 .. n
      OBVIOUS
    <3>. QED  BY ONLY <1>18, <3>1 DEF Offsets
  <2>2. new[end + k - 1] = write_buf'[len + k]
    BY <1>8, <1>12, <1>17, <1>19, <2>1, OverlayNext
  <2>. QED  BY <1>19, <2>2
<1>22. Extends(new, cells, g, end, id, n)
  BY <1>10, <1>13, <1>14, <1>20, <1>21 DEF Extends
<1>23. Tiled(new, g, end + n)
  BY <1>22, TiledExtend
<1>24. ActiveTiles'
  BY <1>7, <1>8, <1>12, <1>23, TilesNext
<1>25. BufferTiles'
  <2>1. write_buf_offset' + Len(write_buf') = active_write_offset'
    <3>1. active_write_offset' = end + n /\ write_buf_offset' = from /\ Len(write_buf') = len + n
      BY <1>7, <1>17, <1>19
    <3>. QED  BY ONLY <1>18, <3>1
  <2>2. write_buf'[1].part = 0
    <3>1. CASE write_buf = <<>>
      <4>1. len = 0 /\ 1 \in 1 .. n
        BY <1>10, <1>16, <3>1
      <4>2. write_buf'[0 + 1] = EntryCells(id, g, n)[1]
        BY <1>19, <4>1
      <4>. QED  BY <1>19, <4>2
    <3>2. CASE write_buf # <<>>
      <4>1. 1 \in 1 .. len
        BY <1>15, <1>16, <3>2
      <4>. QED  BY <1>19, <3>2, <4>1 DEF TilesInv, BufferTiles
    <3>. QED  BY <3>1, <3>2
  <2>. QED  BY <2>1, <2>2 DEF BufferTiles
<1>26. FlushTiles' /\ ReservedTiles' /\ WrittenTiles' /\ AccountedTiles'
  BY <1>8, <1>9, TilesNext DEF Underway
<1>27. TilesInv'
  BY <1>24, <1>25, <1>26 DEF TilesInv
<1>. QED  BY <1>2, <1>4, <1>5, <1>6, <1>7, <1>11, <1>12, <1>22, <1>27

\* append_direct_entry_unsafe takes an id beyond those of the segment.
LEMMA EntryTilesReserved ==
    ASSUME TypeOK, TypeOK', ControlInv, SpaceInv, IdInv, GenerationInv, SequenceInv, AppendInv, BufferInv,
           TilesInv, Working, ReserveEntry
    PROVE  TilesInv'
<1>1. /\ Pending' = Rest /\ todo # <<>> /\ At("reserve") /\ state' = MadeEntry
      /\ UNCHANGED <<data, active_segment, active_write_offset, write_buf, write_buf_offset>>
  BY MovesControl DEF Moves, ReserveEntry, medium
<1>2. PICK s \in Slots, g \in Nat : s = active_segment.slot /\ g = active_segment.generation
  BY DEF TypeOK, MemoryTypeOK
<1>3. s = active_segment'.slot /\ g = active_segment'.generation
  BY <1>1, <1>2
<1>4. Pending = {Head(todo)} \cup Rest /\ Head(todo) \in Pending /\ Head(todo)[1] = "reserve"
  BY <1>1, BehindEntry DEF At
<1>5. PICK end \in 0 .. Capacity : end = active_write_offset
  BY CapacityAssumption DEF TypeOK, MemoryTypeOK, SpaceInv
<1>6. Has({"write_entry"})' /\ Has({"account"})' /\ ~Has({"flushed"})'
  <2>1. Has({"write_entry"}) /\ Has({"account"})
    BY <1>4 DEF AppendInv, SequenceInv, Has
  <2>2. ~Has({"flushed"})
    BY <1>1, BypassEmpty
  <2>. QED  BY <1>1, <1>4, <2>1, <2>2 DEF Has
<1>7. Overlay(s)' = Overlay(s)
  BY <1>1, <1>2 DEF Overlay
<1>8. Tiled(Overlay(s), g, end)
  BY <1>2, <1>5, TilesNow DEF TilesInv
<1>9. NewEntryId # 0 /\ \A o \in 0 .. end - 1 : Overlay(s)[o].id < NewEntryId
  BY <1>2, <1>8, NewIdBeyond
<1>10. state'.newest_entry_id = NewEntryId
  BY <1>1 DEF MadeEntry, TypeOK, MemoryTypeOK, StateRecord
<1>11. ActiveTiles'
  BY <1>1, <1>3, <1>5, <1>7, <1>8, TilesNext
<1>12. BufferTiles'
  BY <1>1 DEF TilesInv, BufferTiles
<1>13. ReservedTiles'
  BY <1>1, <1>3, <1>5, <1>7, <1>9, <1>10, TilesNext
<1>14. FlushTiles' /\ WrittenTiles' /\ AccountedTiles'
  BY <1>3, <1>6, TilesNext DEF Underway
<1>. QED  BY <1>11, <1>12, <1>13, <1>14 DEF TilesInv

\* Once it is on the medium, what was buffered needs no buffer.
LEMMA BufferTilesFlushed ==
    ASSUME TypeOK, TypeOK', ControlInv, SequenceInv, BufferInv, TilesInv, Working, Flushed
    PROVE  TilesInv'
<1>1. /\ Pending' = Rest /\ todo # <<>> /\ At("flushed") /\ write_buf' = <<>>
      /\ UNCHANGED <<data, state, active_segment, active_write_offset>>
  BY MovesControl DEF Moves, Flushed, medium
<1>2. PICK s \in Slots, g \in Nat : s = active_segment.slot /\ g = active_segment.generation
  BY DEF TypeOK, MemoryTypeOK
<1>3. s = active_segment'.slot /\ g = active_segment'.generation
  BY <1>1, <1>2
<1>4. Pending = {Head(todo)} \cup Rest /\ Head(todo) \in Pending /\ Head(todo)[1] = "flushed"
  BY <1>1, BehindEntry DEF At
<1>5. Underway({"flushed"}, {"write_buffer"}) /\ ~Has({"flushed"})'
  <2>1. \A y \in Rest : y[1] \notin {"write_buffer", "flushed"}
    BY <1>1, BehindData
  <2>. QED  BY <1>1, <1>4, <2>1 DEF Underway, Has
<1>6. write_buf \in Seq(Cell) /\ DOMAIN write_buf = 1 .. Len(write_buf) /\ write_buf_offset \in Nat
      /\ Len(write_buf) \in Nat
  BY DEF TypeOK, MemoryTypeOK
<1>7. \A k \in 1 .. Len(write_buf) : data[s][write_buf_offset + k - 1] = write_buf[k]
  BY <1>2, <1>5, <1>6, TilesNow DEF TilesInv
<1>8. PICK cells \in Cells : cells = Overlay(s)
  BY <1>2, OverlayNow
<1>9. PICK new \in Cells : new = Overlay(s)'
  BY <1>3, OverlayNext
<1>10. ASSUME NEW o \in Offsets PROVE new[o] = cells[o]
  <2>1. o \in Nat
    BY DEF Offsets
  <2>2. new[o] = data[s][o]
    <3>1. ~(o - write_buf_offset' + 1 \in 1 .. Len(write_buf'))
      BY <1>1
    <3>. QED  BY <1>1, <1>3, <1>9, <3>1, OverlayNext
  <2>3. CASE o - write_buf_offset + 1 \in 1 .. Len(write_buf)
    <3>1. cells[o] = write_buf[o - write_buf_offset + 1]
      BY <1>2, <1>8, <2>3, OverlayNow
    <3>2. write_buf_offset + (o - write_buf_offset + 1) - 1 = o
      BY <1>6, <2>1
    <3>3. data[s][o] = write_buf[o - write_buf_offset + 1]
      BY <1>7, <2>3, <3>2
    <3>. QED  BY <2>2, <3>1, <3>3
  <2>4. CASE ~(o - write_buf_offset + 1 \in 1 .. Len(write_buf))
    BY <1>2, <1>8, <2>2, <2>4, OverlayNow
  <2>. QED  BY <2>3, <2>4
<1>11. new = cells
  BY <1>10 DEF Cells
<1>12. ActiveTiles'
  <2>1. Tiled(cells, g, active_write_offset)
    BY <1>2, <1>8, TilesNow DEF TilesInv
  <2>2. Tiled(Overlay(s)', g, active_write_offset')
    BY <1>1, <1>9, <1>11, <2>1
  <2>. QED  BY <1>3, <2>2, TilesNext
<1>13. BufferTiles' /\ FlushTiles'
  BY <1>1, <1>3, <1>5, TilesNext DEF BufferTiles, Underway
<1>14. ReservedTiles'
  <2>1. Underway({"account"}, {"reserve"})' => Underway({"account"}, {"reserve"})
    BY <1>1, <1>4 DEF Underway, Has
  <2>2. Underway({"account"}, {"reserve"}) =>
            /\ state.newest_entry_id # 0
            /\ \A o \in 0 .. active_write_offset - 1 : cells[o].id < state.newest_entry_id
    BY <1>2, <1>8, TilesNow DEF TilesInv
  <2>3. Overlay(s)' = cells
    BY <1>9, <1>11
  <2>. QED  BY <1>1, <1>3, <2>1, <2>2, <2>3, TilesNext
<1>15. Has({"acknowledge"}) => Has({"write_entry"}) /\ Has({"account"})
  <2>1. Has({"flushed"})
    BY <1>4 DEF Has
  <2>. QED  BY <2>1 DEF SequenceInv, BufferInv
<1>16. Has({"account"}) => Has({"acknowledge"})
  BY DEF SequenceInv
<1>17. WrittenTiles' /\ AccountedTiles'
  <2>1. ~Underway({"account"}, {"write_entry"})' /\ ~Underway({"acknowledge"}, {"account"})'
    BY <1>1, <1>4, <1>15, <1>16 DEF Underway, Has
  <2>. QED  BY <1>3, <2>1, TilesNext
<1>. QED  BY <1>12, <1>13, <1>14, <1>17 DEF TilesInv

\* A slot that recovery adopts is scanned first.
LEMMA AdoptTiles ==
    ASSUME TypeOK, TypeOK', ControlInv, SpaceInv, IdInv, RotationInv, GenerationInv, RetirementInv, [Next]_vars,
           Recover \/ SealRecovered \/ SelectActive, Working'
    PROVE  TilesInv'
<1>1. PICK s \in Slots, g \in Nat \ {0} :
          /\ Adopt(s, g) /\ UNCHANGED medium /\ ~Has(Entry \cup Rotation \cup {"flushed"})' /\ write_buf' = <<>>
  BY Adopts
<1>2. s = active_segment'.slot /\ g = active_segment'.generation /\ UNCHANGED data
      /\ active_write_offset' = Scan(s, g, TRUE).data_end
  BY <1>1 DEF Adopt, medium
<1>3. PICK new \in Cells : new = Overlay(s)'
  BY <1>2, OverlayNext
<1>4. \A o \in Offsets : new[o] = data[s][o]
  <2>1. ASSUME NEW o \in Offsets PROVE new[o] = data[s][o]
    <3>1. ~(o - write_buf_offset' + 1 \in 1 .. Len(write_buf'))
      BY <1>1
    <3>. QED  BY <1>2, <1>3, <3>1, OverlayNext
  <2>. QED  BY <2>1
<1>5. new = data[s]
  <2>1. data[s] \in Cells
    BY DEF Cells, TypeOK, MediumTypeOK
  <2>. QED  BY <1>4, <2>1 DEF Cells
<1>6. Tiled(data[s], g, active_write_offset')
  <2>1. MediumTypeOK
    BY DEF TypeOK
  <2>. QED  BY <1>2, <2>1, ScanTiled
<1>7. ActiveTiles'
  <2>1. Tiled(Overlay(s)', g, active_write_offset')
    BY ONLY <1>3, <1>5, <1>6
  <2>2. g \in Nat
    OBVIOUS
  <2>. QED  BY ONLY <1>2, <2>1, <2>2, TilesNext
<1>8. ~Has({"flushed"})' /\ ~Has({"account"})' /\ ~Has({"acknowledge"})'
  BY <1>1 DEF Has, Entry, Sized
<1>9. FlushTiles' /\ ReservedTiles' /\ WrittenTiles' /\ AccountedTiles'
  BY <1>2, <1>8, TilesNext DEF Underway
<1>. QED  BY <1>1, <1>7, <1>9 DEF TilesInv, BufferTiles

\* activate_segment_unsafe leaves an empty segment.
LEMMA ActivateTiles ==
    ASSUME TypeOK, TypeOK', ControlInv, RotationInv, GenerationInv, SequenceInv, AppendInv, ActiveInv,
           [Next]_vars, Activate
    PROVE  TilesInv'
<1>1. /\ active_write_offset' = 0 /\ write_buf' = <<>> /\ ~Has(Sealing \cup Rotation \cup {"flushed"})'
      /\ todo # <<>> /\ At("activate") /\ Pending = {Head(todo)} \cup Rest /\ Pending' = Rest
  BY Activates
<1>2. PICK s \in Slots, g \in Nat : s = active_segment'.slot /\ g = active_segment'.generation
  BY DEF TypeOK, MemoryTypeOK
<1>3. Has({"account"}) \/ Has({"acknowledge"}) =>
          Has({"reserve"}) /\ Has({"write_entry"}) /\ Has({"account"})
  <2>1. Has({"prepare"} \cup Rotation)
    BY <1>1 DEF Has, At, Rotation
  <2>. QED  BY <2>1 DEF SequenceInv, AppendInv
<1>4. Has({"account"})' \/ Has({"acknowledge"})' =>
          Has({"reserve"})' /\ Has({"write_entry"})' /\ Has({"account"})'
  BY <1>1, <1>3 DEF Has, At
<1>5. ActiveTiles'
  <2>1. Tiled(Overlay(s)', g, 0)
    BY DEF Tiled
  <2>. QED  BY <1>1, <1>2, <2>1, TilesNext
<1>6. ReservedTiles' /\ WrittenTiles' /\ AccountedTiles'
  BY <1>2, <1>4, TilesNext DEF Underway
<1>7. FlushTiles'
  <2>1. ~Has({"flushed"})'
    BY <1>1 DEF Has
  <2>. QED  BY <1>2, <2>1, TilesNext DEF Underway
<1>. QED  BY <1>1, <1>5, <1>6, <1>7 DEF TilesInv, BufferTiles

\* A state that repeats itself.
LEMMA TilesStutter ==
    ASSUME TypeOK, TypeOK', TilesInv, Working, UNCHANGED vars
    PROVE  TilesInv'
<1>1. UNCHANGED <<data, state, active_segment, active_write_offset, write_buf, write_buf_offset, todo>>
  BY DEF vars, medium, memory, control
<1>2. Pending' = Pending
  BY <1>1 DEF Pending
<1>3. \A a, b : Underway(a, b)' <=> Underway(a, b)
  BY <1>2 DEF Underway, Has
<1>. QED  BY <1>1, <1>2, <1>3, TilesSame

\* Each step keeps the data of the active segment whole and in order.
LEMMA NextTiles ==
    ASSUME "io" \notin Faults
    PROVE  TypeOK /\ TypeOK' /\ ControlInv /\ SpaceInv /\ IdInv /\ RotationInv /\ GenerationInv /\ RetirementInv
               /\ SequenceInv /\ SequenceInv' /\ AppendInv /\ BufferInv /\ ActiveInv /\ TilesInv /\ [Next]_vars
                    => TilesInv'
<1>. SUFFICES ASSUME TypeOK, TypeOK', ControlInv, SpaceInv, IdInv, RotationInv, GenerationInv, RetirementInv,
                     SequenceInv, SequenceInv', AppendInv, BufferInv, ActiveInv, TilesInv, [Next]_vars, Working'
              PROVE  TilesInv'
  <2>1. ~Working' => TilesInv'
    BY DEF TilesInv
  <2>. QED  BY <2>1
<1>1. mode' # "off"
  BY DEF Working
<1>2. CASE UNCHANGED vars
  <2>1. Working
    BY <1>2 DEF vars, control, Working, Has, Pending
  <2>. QED  BY <1>2, <2>1, TilesStutter
<1>3. CASE ~UNCHANGED vars
  <2>1. \/ /\ Working /\ ~At("retire") /\ ~At("header")
           /\ Operations \/ Plain \/ NoEntry
        \/ Recover \/ SealRecovered \/ SelectActive \/ Activate
    BY <1>3, WorkingKept
  <2>2. CASE Recover \/ SealRecovered \/ SelectActive
    BY <2>2, AdoptTiles
  <2>3. CASE Activate
    BY <2>3, ActivateTiles
  <2>4. CASE Working /\ ~At("retire") /\ (Operations \/ Plain \/ NoEntry)
    <3>1. CASE WriteDone /\ At("write_buffer")
      BY <3>1, BufferTilesWritten
    <3>2. CASE WriteDone /\ At("write_entry")
      BY <3>2, EntryTilesWritten
    <3>3. CASE PutEntry
      BY <2>4, <3>3, EntryTilesPut
    <3>4. CASE ReserveEntry
      BY <2>4, <3>4, EntryTilesReserved
    <3>5. CASE AccountEntry
      BY <2>4, <3>5, EntryTilesAccounted
    <3>6. CASE Flushed
      BY <2>4, <3>6, BufferTilesFlushed
    <3>7. CASE \/ WriteDone /\ ~At("write_buffer") /\ ~At("write_entry")
               \/ OpenWriter \/ Acknowledge \/ Sealed \/ Settle \/ Flush \/ PrepareSpace
               \/ CountBoot \/ AppendBoot \/ Ready \/ NoEntry \/ Operations
      BY <1>1, <2>4, <3>7, MovesTiles
    <3>8. ~Retire
      BY <2>4 DEF Retire
    <3>. QED  BY <2>4, <3>1, <3>2, <3>3, <3>4, <3>5, <3>6, <3>7, <3>8 DEF Plain
  <2>. QED  BY <2>1, <2>2, <2>3, <2>4
<1>. QED  BY <1>2, <1>3

-----------------------------------------------------------------------------
(* The segments of the entries reported durable.                           *)

\* What reports an entry durable.
LEMMA AckedGrows ==
    ASSUME [Next]_vars, NEW a \in acked', a \notin acked
    PROVE  \/ /\ Flushed
              /\ \E k \in DOMAIN write_buf : a = Mark(write_buf[k])
           \/ /\ Acknowledge
              /\ a = [id |-> state.newest_entry_id, generation |-> active_segment.generation]
<1>1. CASE Flushed
  BY <1>1 DEF Flushed, Mark
<1>2. CASE Acknowledge
  BY <1>2 DEF Acknowledge
<1>3. CASE Step /\ ~Flushed /\ ~Acknowledge
  BY <1>3 DEF Step, WriteDone, NoWriter, OpenWriter, CloseWriter, Flush, PrepareSpace, NoEntry,
              PutEntry, ReserveEntry, AccountEntry, Sealed, OpenNext, Retire, Activate,
              Recover, PickHighest, SealRecovered, SelectActive, Settle, CountBoot,
              AppendBoot, Ready, Close
<1>4. CASE WriteError \/ OpenWriterError \/ StartInit \/ AppendEntry \/ FlushWrite \/ Deinit \/ RotIndex
           \/ RotData \/ Crash \/ UNCHANGED vars
  BY <1>4 DEF WriteError, OpenWriterError, StartInit, AppendEntry, FlushWrite, Deinit, RotIndex, RotData,
              Crash, vars
<1>. QED  BY <1>1, <1>2, <1>3, <1>4 DEF Next

\* The active segment lies where its generation belongs.
LEMMA ActiveHome ==
    ASSUME TypeOK, GenerationInv, ActiveInv, Working
    PROVE  /\ active_segment.generation \in Nat \ {0}
           /\ Home(active_segment.generation) = active_segment.slot /\ active_segment.slot \in Slots
<1>1. PICK s \in Slots, g \in Nat : s = active_segment.slot /\ g = active_segment.generation
  BY DEF TypeOK, MemoryTypeOK
<1>2. HeaderReadable(s) /\ HeaderGeneration(s) = g /\ g # 0
  BY <1>1 DEF ActiveInv
<1>3. g \in HeaderGenerations(s)
  BY <1>2, HeaderHighest DEF TypeOK
<1>4. \E n : Upcoming(n)
  BY DEF GenerationInv, Chosen
<1>5. Home(g) = s
  BY <1>2, <1>3, <1>4, HeaderHome
<1>. QED  BY <1>1, <1>2, <1>5

\* The cells in the buffer are those that a reader of the active segment sees.
LEMMA BufferSeen ==
    ASSUME TypeOK, SpaceInv, TilesInv, Working, NEW k \in DOMAIN write_buf, NEW s \in Slots,
           s = active_segment.slot
    PROVE  /\ write_buf_offset + k - 1 \in 0 .. active_write_offset - 1
           /\ write_buf_offset + k - 1 \in Offsets
           /\ Overlay(s)[write_buf_offset + k - 1] = write_buf[k]
           /\ write_buf[k].generation = active_segment.generation
<1>1. /\ write_buf \in Seq(Cell) /\ DOMAIN write_buf = 1 .. Len(write_buf) /\ Len(write_buf) \in Nat
      /\ write_buf_offset \in Nat /\ active_write_offset \in Nat /\ Capacity \in Nat
  BY CapacityAssumption DEF TypeOK, MemoryTypeOK
<1>2. k \in 1 .. Len(write_buf)
  BY <1>1
<1>3. write_buf_offset + Len(write_buf) <= active_write_offset /\ active_write_offset <= Capacity
  BY <1>1, <1>2 DEF SpaceInv
<1>4. /\ write_buf_offset + k - 1 \in 0 .. active_write_offset - 1
      /\ write_buf_offset + k - 1 \in Offsets
      /\ (write_buf_offset + k - 1) - write_buf_offset + 1 = k
  BY <1>1, <1>2, <1>3 DEF Offsets
<1>5. Overlay(s)[write_buf_offset + k - 1] = write_buf[k]
  BY <1>2, <1>4, OverlayNow
<1>6. Tiled(Overlay(s), active_segment.generation, active_write_offset)
  BY TilesNow DEF TilesInv
<1>7. Overlay(s)[write_buf_offset + k - 1].generation = active_segment.generation
  BY <1>4, <1>6 DEF Tiled, Whole
<1>. QED  BY <1>4, <1>5, <1>7

\* Entries are reported durable while the active segment is in place.
LEMMA AckedActive ==
    ASSUME TypeOK, ControlInv, SpaceInv, BufferInv, TilesInv, [Next]_vars, NEW a \in acked', a \notin acked
    PROVE  /\ Working /\ ~Choosing /\ ~Has({"select"}) /\ a.generation = active_segment.generation
<1>1. CASE Flushed /\ \E k \in DOMAIN write_buf : a = Mark(write_buf[k])
  <2>1. At("flushed") /\ todo # <<>>
    BY <1>1 DEF Flushed, At
  <2>2. Has({"flushed"})
    BY <2>1, BehindEntry DEF Has, At
  <2>3. write_buf # <<>>
    BY <2>2 DEF BufferInv
  <2>4. mode # "off" /\ ~Has(Booting)
    BY <2>3 DEF SpaceInv
  <2>5. Has(Sealing) \/ ~Has(Rotation)
    BY <2>3 DEF BufferInv
  <2>6. Working /\ ~Choosing /\ ~Has({"select"})
    BY <2>4, <2>5 DEF Working, Choosing, Has, Booting, Recovering, Unbound, Rotation
  <2>7. PICK k \in DOMAIN write_buf : a = Mark(write_buf[k])
    BY <1>1
  <2>8. active_segment.slot \in Slots
    BY DEF TypeOK, MemoryTypeOK
  <2>. QED  BY <2>6, <2>7, <2>8, BufferSeen DEF Mark
<1>2. CASE /\ Acknowledge
           /\ a = [id |-> state.newest_entry_id, generation |-> active_segment.generation]
  <2>1. todo # <<>> /\ Head(todo)[1] \in Entry
    BY <1>2 DEF Acknowledge, At, Entry
  <2>2. Working /\ ~Has(Booting)
    BY <2>1, EntryWorking
  <2>. QED  BY <1>2, <2>2 DEF Working, Choosing, Has, Booting, Recovering
<1>. QED  BY <1>1, <1>2, AckedGrows

\* Their segment is retained.
LEMMA NewlyKept ==
    ASSUME TypeOK, TypeOK', ControlInv, SpaceInv, RotationInv, GenerationInv, RetirementInv, BufferInv, ActiveInv,
           TilesInv, [Next]_vars, NEW a \in acked', a \notin acked
    PROVE  OnRing(a)'
<1>1. /\ Working /\ ~Choosing /\ ~Has({"select"}) /\ a.generation = active_segment.generation
  BY AckedActive
<1>2. UNCHANGED <<headers, checkpoint, segments>>
  BY AckedGrows DEF Flushed, Acknowledge, medium, memory
<1>3. PICK s \in Slots, g \in Nat \ {0} : s = active_segment.slot /\ g = a.generation /\ Home(g) = s
  BY <1>1, ActiveHome
<1>4. HeaderReadable(s) /\ HeaderGeneration(s) = g /\ segments[s].valid /\ segments[s].generation = g
  BY <1>1, <1>3 DEF ActiveInv
<1>5. g >= checkpoint.oldest_generation
  <2>1. Retiring
    BY <1>1 DEF RetirementInv
  <2>2. segments \in [Slots -> Descriptor] /\ s \in ValidSlots(segments)
    BY <1>4 DEF TypeOK, MemoryTypeOK, ValidSlots
  <2>3. OldestGeneration(segments) <= g /\ OldestGeneration(segments) \in Nat
    BY <1>4, <2>2, OldestBounds
  <2>4. checkpoint.oldest_generation <= OldestGeneration(segments) /\ checkpoint.oldest_generation \in Nat
    BY <2>1 DEF Retiring, TypeOK, MediumTypeOK, StateRecord
  <2>. QED  BY <2>3, <2>4
<1>. QED  BY <1>2, <1>3, <1>4, <1>5 DEF OnRing, HeaderReadable, HeaderGeneration, HeaderGenerations

\* A header is never written over one that an entry reported durable depends on.
LEMMA KeptHeader ==
    ASSUME TypeOK, ControlInv, RotationInv, GenerationInv, RetirementInv, [Next]_vars,
           NEW a, OnRing(a), NEW s \in Slots, s = Home(a.generation)
    PROVE  HeaderGenerations(s)' = HeaderGenerations(s)
<1>1. CASE headers' = headers
  BY <1>1 DEF HeaderGenerations
<1>2. CASE At("header")
  <2>1. ~Choosing /\ ~Has({"select"}) /\ NextSlot \notin ValidSlots(segments)
    BY <1>2, HeaderRetired
  <2>2. segments[s].valid
    BY <2>1 DEF OnRing
  <2>3. s # NextSlot
    BY <2>1, <2>2 DEF ValidSlots
  <2>. QED  BY <1>1, <2>3, HeadersWritten
<1>. QED  BY <1>1, <1>2, HeadersWritten

\* The checkpoint does not exclude its generation.
LEMMA KeptCheckpoint ==
    ASSUME TypeOK, ControlInv, GenerationInv, RetirementInv, [Next]_vars,
           NEW a, OnRing(a), NEW s \in Slots, s = Home(a.generation), a.generation \in Nat
    PROVE  a.generation >= checkpoint'.oldest_generation
<1>0. checkpoint.oldest_generation \in Nat /\ state.oldest_generation \in Nat
  BY DEF TypeOK, MediumTypeOK, MemoryTypeOK, StateRecord
<1>1. CASE checkpoint' = checkpoint
  BY <1>1 DEF OnRing
<1>2. CASE At("commit") /\ checkpoint' = state
  <2>1. CASE Choosing
    <3>1. state.oldest_generation = checkpoint.oldest_generation
      BY <1>2, <2>1 DEF At, ControlInv, Choosing, GenerationInv
    <3>. QED  BY <1>2, <3>1 DEF OnRing
  <2>2. CASE ~Choosing /\ Has({"select"})
    BY <1>2, <2>2 DEF RetirementInv, OnRing
  <2>3. CASE ~Choosing /\ ~Has({"select"})
    <3>1. s \in ValidSlots(segments) /\ segments[s].generation = a.generation
      BY <2>3 DEF OnRing, ValidSlots
    <3>2. segments \in [Slots -> Descriptor]
      BY DEF TypeOK, MemoryTypeOK
    <3>3. OldestGeneration(segments) <= a.generation
      BY <3>1, <3>2, OldestBounds
    <3>4. state.oldest_generation = OldestGeneration(segments)
      BY <2>3 DEF RetirementInv, Retiring
    <3>. QED  BY <1>0, <1>2, <3>3, <3>4
  <2>. QED  BY <2>1, <2>2, <2>3
<1>. QED  BY <1>1, <1>2, CheckpointWritten

\* Its descriptor stays, once the segments are recovered.
LEMMA KeptDescriptor ==
    ASSUME TypeOK, TypeOK', ControlInv, ControlInv', IdInv, RotationInv, RotationInv', GenerationInv, RetirementInv,
           [Next]_vars, "io" \notin Faults, NEW a \in acked', OnRing(a), NEW s \in Slots, s = Home(a.generation),
           a.generation \in Nat \ {0}, ~Choosing', ~Has({"select"})'
    PROVE  segments'[s].valid /\ segments'[s].generation = a.generation
<1>. USE DEF TypeOK, MemoryTypeOK
<1>1. mode' # "off"
  BY DEF Choosing
<1>2. ~Choosing
  <2>1. ASSUME Choosing PROVE FALSE
    <3>1. PickHighest /\ ~Fail
      BY <2>1, ChoosingEnds
    <3>. QED  BY <1>1, <3>1, PickRetained
  <2>. QED  BY <2>1
<1>3. mode # "off"
  BY <1>2 DEF Choosing
<1>4. CASE Has({"select"})
  <2>1. At("select")
    BY <1>1, <1>3, <1>4, SelectKept
  <2>2. ~UNCHANGED vars
    BY <1>4 DEF vars, control, Has, Pending
  <2>3. SelectActive
    BY <1>1, <2>1, <2>2, HeadStep
  <2>4. SameGenerations
    BY <1>1, <1>2, <2>3, SelectEffect
  <2>5. Recovered(s) /\ state.oldest_generation = checkpoint.oldest_generation
    BY <1>2, <1>4 DEF RetirementInv
  <2>6. HeaderGeneration(s) = a.generation /\ ~Outdated(a.generation)
    <3>1. HeaderGeneration(s) = a.generation /\ a.generation >= checkpoint.oldest_generation
      BY DEF OnRing
    <3>2. checkpoint.oldest_generation \in Nat /\ a.generation \in Nat \ {0}
      BY DEF MediumTypeOK, StateRecord
    <3>. QED  BY ONLY <2>5, <3>1, <3>2 DEF Outdated
  <2>7. segments[s].valid /\ segments[s].generation = a.generation
    BY <2>5, <2>6 DEF Recovered, Described
  <2>. QED  BY <2>4, <2>7 DEF SameGenerations
<1>5. CASE ~Has({"select"})
  <2>1. segments[s].valid /\ segments[s].generation = a.generation
    BY <1>2, <1>5 DEF OnRing
  <2>2. ~At("recover") /\ ~At("seal_recovered") /\ ~At("select")
    <3>1. ASSUME At("recover") \/ At("seal_recovered") \/ At("select") PROVE FALSE
      <4>1. Has({"recover"}) \/ Has({"seal_recovered"}) \/ Has({"select"})
        BY <3>1, BehindEntry DEF Has, At
      <4>2. Has({"recover"}) => Has({"highest"})
        BY DEF RotationInv
      <4>3. Has({"highest", "seal_recovered"}) => Has({"select"})
        BY DEF RotationInv
      <4>. QED  BY <1>5, <4>1, <4>2, <4>3 DEF Has
    <3>. QED  BY <3>1
  <2>3. CASE ~At("activate") /\ ~At("retire")
    BY <1>1, <2>1, <2>2, <2>3, DescriptorsKept DEF SameGenerations
  <2>4. CASE UNCHANGED vars
    BY <2>1, <2>4 DEF vars, memory
  <2>5. CASE At("activate") /\ ~UNCHANGED vars
    <3>1. Activate
      BY <1>1, <2>5, HeadStep
    <3>2. NextSlot \notin ValidSlots(segments)
      <4>1. todo # <<>> /\ Pending = {Head(todo)} \cup Rest /\ \A y \in Rest : y[1] # "retire"
        BY <2>5, BehindEntry, BehindStep DEF At, Rotating
      <4>2. Has({"header", "activate"}) /\ ~Has({"retire"})
        BY <2>5, <4>1 DEF Has, At
      <4>. QED  BY <1>2, <1>5, <4>2 DEF RetirementInv, Retiring
    <3>3. s # NextSlot
      BY <2>1, <3>2 DEF ValidSlots
    <3>4. segments'[s] = segments[s]
      BY <3>1, <3>3 DEF Activate
    <3>. QED  BY <2>1, <3>4
  <2>6. CASE At("retire") /\ ~UNCHANGED vars
    <3>1. Retire
      BY <1>1, <2>6, HeadStep
    <3>2. CASE ~segments[Arg].valid
      BY <2>1, <3>1, <3>2 DEF Retire
    <3>3. CASE segments[Arg].valid
      <4>1. /\ segments' = [segments EXCEPT ![Arg] = NoSegment]
            /\ acked' = {b \in acked : b.generation # segments[Arg].generation}
        BY <3>1, <3>3 DEF Retire
      <4>2. s # Arg
        BY <2>1, <4>1
      <4>. QED  BY <2>1, <4>1, <4>2
    <3>. QED  BY <3>2, <3>3
  <2>. QED  BY <2>3, <2>4, <2>5, <2>6
<1>. QED  BY <1>4, <1>5

\* Each step keeps the segments of the entries reported durable.
LEMMA NextKept ==
    ASSUME "io" \notin Faults
    PROVE  TypeOK /\ TypeOK' /\ ControlInv /\ ControlInv' /\ SpaceInv /\ IdInv /\ RotationInv /\ RotationInv'
               /\ GenerationInv /\ RetirementInv /\ BufferInv /\ ActiveInv /\ TilesInv /\ KeptInv
               /\ [Next]_vars => KeptInv'
<1>. SUFFICES ASSUME TypeOK, TypeOK', ControlInv, ControlInv', SpaceInv, IdInv, RotationInv, RotationInv',
                     GenerationInv, RetirementInv, BufferInv, ActiveInv, TilesInv, KeptInv, [Next]_vars,
                     NEW a \in acked'
              PROVE  OnRing(a)'
  BY DEF KeptInv
<1>1. CASE a \notin acked
  BY <1>1, NewlyKept
<1>2. CASE a \in acked
  <2>1. OnRing(a) /\ a.generation \in Nat \ {0}
    BY <1>2 DEF KeptInv, OnRing, TypeOK
  <2>2. PICK s \in Slots : s = Home(a.generation)
    BY <2>1, HomeType
  <2>3. HeaderGenerations(s)' = HeaderGenerations(s)
    BY <2>1, <2>2, KeptHeader
  <2>4. HeaderReadable(s)' /\ HeaderGeneration(s)' = a.generation
    BY <2>1, <2>2, <2>3 DEF OnRing, HeaderReadable, HeaderGeneration
  <2>5. a.generation >= checkpoint'.oldest_generation
    BY <2>1, <2>2, KeptCheckpoint
  <2>6. ~Choosing' /\ ~Has({"select"})' => segments'[s].valid /\ segments'[s].generation = a.generation
    BY <2>1, <2>2, KeptDescriptor
  <2>. QED  BY <2>1, <2>2, <2>4, <2>5, <2>6 DEF OnRing
<1>. QED  BY <1>1, <1>2

-----------------------------------------------------------------------------
(* The footers.                                                            *)

\* A seal is followed by its last step, and that by a new active segment.
LEMMA BehindSeal ==
    ASSUME TypeOK, ControlInv, todo # <<>>, At("sealed") \/ At("close_writer")
    PROVE  \A y \in Rest : y[1] \notin Sealing
<1>1. \A m \in Sealing : Place[m] < Follow["sealed"] /\ Place[m] < Follow["close_writer"]
  BY ONLY PlaceValues, FollowValues DEF Sealing
<1>. QED  BY <1>1, NeverBehind

\* A segment that is being sealed is sealed before it is left.
LEMMA NextSealSequence ==
    ASSUME TypeOK, TypeOK', ControlInv, ControlInv', RotationInv, SealSequence, [Next]_vars, "io" \notin Faults
    PROVE  SealSequence'
<1>. SUFFICES ASSUME Has(Sealing)' PROVE Has({"sealed"})' /\ Has({"open_next", "select"})'
  BY DEF SealSequence
<1>1. mode' # "off"
  BY DEF ControlInv, Has, Pending, StepsOf
<1>2. ASSUME NEW new, Pending' = new, \A x \in new : x[1] \notin Sealing PROVE FALSE
  BY <1>2 DEF Has
<1>3. ASSUME NEW new, Pending' = new \cup Rest, \A x \in new : x[1] \notin Sealing,
             \A y \in Rest : y[1] \notin Sealing
      PROVE  FALSE
  BY <1>3 DEF Has
<1>4. CASE UNCHANGED vars
  <2>1. Pending' = Pending
    BY <1>4 DEF vars, control, Pending
  <2>. QED  BY <2>1 DEF SealSequence, Has
<1>5. CASE StartInit
  <2>1. \A x \in Pending' : x[1] \in {"recover", "highest", "seal_recovered"} \cup LastNames
    BY <1>5, InitList DEF StartInit, Pending, IsList
  <2>. QED  BY <2>1 DEF Has, Sealing, LastNames
<1>6. CASE Operations
  BY <1>6, OperationsPending DEF Has
<1>7. CASE PrepareSpace /\ Pending' # Rest
  <2>1. Pending' = StepsOf(SealSteps \o <<Do("open_next")>>) \cup Rest
    BY <1>7, PrepareControl
  <2>2. Do("open_next") \in Pending'
    BY <2>1, ListSizes
  <2>3. Do("sealed") \in Pending'
    <3>1. SealSteps \in Seq(Steps) /\ <<Do("open_next")>> \in Seq(Steps)
      BY SealStepsType, DoType
    <3>2. StepsOf(SealSteps) \subseteq StepsOf(SealSteps \o <<Do("open_next")>>)
      BY <3>1, StepsOfConcat
    <3>3. SealSteps[5] = Do("sealed") /\ 5 \in DOMAIN SealSteps
      BY DEF SealSteps
    <3>. QED  BY <2>1, <3>2, <3>3 DEF StepsOf
  <2>. QED  BY <2>2, <2>3 DEF Has, Do
<1>8. CASE Plain /\ (~PrepareSpace \/ Pending' = Rest)
  <2>1. PICK new : /\ Pending' = new \cup Rest /\ \A x \in new : x[1] \notin Sealing
                   /\ todo # <<>> /\ Pending = {Head(todo)} \cup Rest
    <3>0. todo # <<>> /\ Pending = {Head(todo)} \cup Rest
      BY <1>1, <1>8, PlainPending
    <3>1. CASE Pending' = Rest
      <4>1. PICK new : new = {}
        OBVIOUS
      <4>2. Pending' = new \cup Rest /\ \A x \in new : x[1] \notin Sealing
        BY <3>1, <4>1
      <4>. QED  BY <3>0, <4>2
    <3>2. CASE ~PrepareSpace
      BY <1>1, <1>8, <3>0, <3>2, PlainPending
    <3>. QED  BY <1>8, <3>1, <3>2
  <2>2. \E y \in Rest : y[1] \in Sealing
    BY <2>1 DEF Has
  <2>3. Has({"sealed"}) /\ Has({"open_next", "select"})
    BY <2>1, <2>2 DEF SealSequence, Has
  <2>4. ~At("sealed") /\ ~At("open_next") /\ ~At("select")
    BY <1>8, <2>1, <2>2, BehindSeal, PlainHead
  <2>. QED  BY <2>1, <2>3, <2>4 DEF Has, At
<1>9. CASE CloseWriter \/ Activate
  <2>1. Pending' = Rest /\ todo # <<>> /\ (At("close_writer") \/ At("activate"))
    BY <1>9, MovesControl DEF Moves, CloseWriter, Activate
  <2>2. \A y \in Rest : y[1] \notin Sealing
    BY <2>1, BehindSeal, BehindData
  <2>. QED  BY <2>1, <2>2 DEF Has
<1>10. CASE PickHighest
  <2>1. (Pending' = {} \/ Pending' = Rest) /\ todo # <<>> /\ At("highest")
    BY <1>10, SetStateControl DEF PickHighest
  <2>2. \A y \in Rest : y[1] \notin Sealing
    BY <2>1, BehindAppend
  <2>. QED  BY <2>1, <2>2 DEF Has
<1>11. CASE OpenNext
  <2>1. (Pending' = {} \/ Pending' = StepsOf(OpenNextSteps) \cup Rest) /\ todo # <<>> /\ At("open_next")
    BY <1>11, OpenNextControl DEF OpenNext
  <2>2. \A y \in Rest : y[1] \notin Sealing
    BY <2>1, BehindData
  <2>3. \A x \in StepsOf(OpenNextSteps) : x[1] \notin Sealing
    BY OpenNextSet DEF Sealing
  <2>. QED  BY <2>1, <2>2, <2>3 DEF Has
<1>12. CASE Recover \/ SealRecovered
  <2>1. /\ todo # <<>> /\ Arg \in Slots /\ (At("recover") \/ At("seal_recovered"))
        /\ Pending' = {} \/ Pending' = Rest \/ Pending' = StepsOf(ResealSteps(Arg)) \cup Rest
    BY <1>12, RecoverControl, SealRecoveredControl DEF Recover, SealRecovered
  <2>2. \A y \in Rest : y[1] \notin Sealing
    BY <2>1, BehindAppend
  <2>3. Pending' = StepsOf(ResealSteps(Arg)) \cup Rest
    BY <2>1, <2>2 DEF Has
  <2>4. Do("sealed") \in StepsOf(ResealSteps(Arg))
    <3>1. SealSteps \in Seq(Steps) /\ <<Do("close_writer")>> \in Seq(Steps) /\ <<<<"open_writer", Arg>>>> \in Seq(Steps)
      BY <2>1, SealStepsType, DoType, SlotStepType
    <3>2. <<<<"open_writer", Arg>>>> \o SealSteps \in Seq(Steps)
      BY <3>1
    <3>3. StepsOf(SealSteps) \subseteq StepsOf(ResealSteps(Arg))
      <4>1. PICK first \in Seq(Steps) : first = <<<<"open_writer", Arg>>>>
        BY <3>1
      <4>2. PICK both \in Seq(Steps) : both = first \o SealSteps
        BY <3>2, <4>1
      <4>3. StepsOf(both) = StepsOf(first) \cup StepsOf(SealSteps)
        BY <3>1, <4>2, StepsOfConcat
      <4>4. StepsOf(both \o <<Do("close_writer")>>) = StepsOf(both) \cup StepsOf(<<Do("close_writer")>>)
        BY <3>1, StepsOfConcat
      <4>. QED  BY <4>1, <4>2, <4>3, <4>4 DEF ResealSteps
    <3>4. SealSteps[5] = Do("sealed") /\ 5 \in DOMAIN SealSteps
      BY DEF SealSteps
    <3>. QED  BY <3>3, <3>4 DEF StepsOf
  <2>5. \E y \in Rest : y[1] = "select"
    <3>1. Pending = {Head(todo)} \cup Rest /\ Head(todo)[1] # "select"
      BY <2>1, BehindEntry DEF At
    <3>2. Has({"recover", "seal_recovered"})
      BY <2>1, <3>1 DEF Has, At
    <3>3. Has({"select"})
      BY <3>2 DEF RotationInv, Has
    <3>. QED  BY <3>1, <3>3 DEF Has
  <2>. QED  BY <2>3, <2>4, <2>5 DEF Has, Do
<1>13. CASE SelectActive
  <2>1. todo # <<>> /\ At("select")
    BY <1>13, SelectControl DEF SelectActive
  <2>2. PICK new : /\ Pending' = {} \/ Pending' = new \cup Rest
                   /\ \A x \in new : x[1] \notin Sealing
    <3>1. \/ Pending' = {}
          \/ Pending' = StepsOf(<<<<"open_writer", HighestSlot(segments)>>>>) \cup Rest
          \/ Pending' = StepsOf(<<Do("open_next")>>) \cup Rest
      BY <1>13, SelectControl
    <3>2. HighestSlot(segments) \in Slots
      BY <1>13, SelectControl
    <3>3. /\ \A x \in StepsOf(<<<<"open_writer", HighestSlot(segments)>>>>) : x[1] \notin Sealing
          /\ \A x \in StepsOf(<<Do("open_next")>>) : x[1] \notin Sealing
      BY <3>2, CallNames DEF Sealing, Do
    <3>. QED  BY <3>1, <3>3
  <2>3. \A y \in Rest : y[1] \notin Sealing
    BY <2>1, BehindAppend
  <2>. QED  BY <2>2, <2>3 DEF Has
<1>14. CASE NoWriter \/ NoEntry
  <2>1. Pending' = {}
    BY <1>14, FailControl DEF NoWriter, NoEntry
  <2>. QED  BY <2>1 DEF Has
<1>. QED  BY <1>1, <1>4, <1>5, <1>6, <1>7, <1>8, <1>9, <1>10, <1>11, <1>12, <1>13, <1>14, Kinds

\* Data and footers change by a write, and data by decay.
LEMMA BytesWritten ==
    ASSUME [Next]_vars
    PROVE  \/ UNCHANGED <<data, footers>>
           \/ \E o \in Outcomes : Write(o)
           \/ RotData /\ UNCHANGED footers
<1>1. CASE WriteDone \/ WriteError \/ Crash
  BY <1>1 DEF WriteDone, WriteError, Crash, Outcomes, medium
<1>2. CASE Step /\ ~WriteDone
  BY <1>2 DEF Step, NoWriter, OpenWriter, CloseWriter, Flush, Flushed, PrepareSpace, NoEntry,
              PutEntry, ReserveEntry, AccountEntry, Acknowledge, Sealed, OpenNext, Retire, Activate,
              Recover, PickHighest, SealRecovered, SelectActive, Settle, CountBoot,
              AppendBoot, Ready, Close, medium
<1>3. CASE OpenWriterError \/ StartInit \/ AppendEntry \/ FlushWrite \/ Deinit \/ RotIndex \/ RotData
           \/ UNCHANGED vars
  BY <1>3 DEF OpenWriterError, StartInit, AppendEntry, FlushWrite, Deinit, RotIndex, RotData, vars, medium
<1>. QED  BY <1>1, <1>2, <1>3 DEF Next

\* Only the active segment gets footers, and they tell what memory knows of it.
LEMMA FootersWritten ==
    ASSUME TypeOK, ControlInv, SpaceInv, SequenceInv, BufferInv, ActiveInv, [Next]_vars
    PROVE  \/ footers' = footers
           \/ /\ At("footer") /\ Working
              /\ \A s \in Slots : s # active_segment.slot => footers'[s] = footers[s]
              /\ \A s \in Slots, c \in Copies : s = active_segment.slot =>
                    footers'[s][c] \in {footers[s][c], Garbage, ActiveFooter}
<1>1. CASE UNCHANGED footers
  BY <1>1
<1>2. CASE \E o \in Outcomes : Write(o)
  <2>1. PICK o \in Outcomes : Write(o)
    BY <1>2
  <2>2. CASE At("footer")
    <3>1. WriteFooter(o)
      BY <2>1, <2>2 DEF Write, WriterWrite, WriteBuffer, WriteEntry, WriteIndex, WriteHeader, Commit, At
    <3>2. Working /\ writer_fd = active_segment.slot
      BY <2>2, WriterOpen
    <3>3. PICK slot \in Slots : slot = active_segment.slot
      BY DEF TypeOK, MemoryTypeOK
    <3>4. Arg \in Copies
      BY <2>2, ArgType DEF TypeOK, At
    <3>5. footers' = [footers EXCEPT ![slot][Arg] = Land(@, ActiveFooter, o)]
      BY <3>1, <3>2, <3>3 DEF WriteFooter
    <3>6. footers \in [Slots -> [Copies -> FooterRecord \cup {Garbage}]]
      BY DEF TypeOK, MediumTypeOK
    <3>7. Land(footers[slot][Arg], ActiveFooter, o) \in {footers[slot][Arg], Garbage, ActiveFooter}
      BY <2>1 DEF Land, Outcomes
    <3>8. \A s \in Slots : s # slot => footers'[s] = footers[s]
      BY <3>5, <3>6
    <3>9. \A c \in Copies : footers'[slot][c] \in {footers[slot][c], Garbage, ActiveFooter}
      BY <3>3, <3>4, <3>5, <3>6, <3>7
    <3>. QED  BY <2>2, <3>2, <3>3, <3>8, <3>9
  <2>3. CASE ~At("footer")
    BY <2>1, <2>3 DEF Write, WriterWrite, WriteBuffer, WriteEntry, WriteIndex, WriteFooter, WriteHeader, Commit
  <2>. QED  BY <2>2, <2>3
<1>. QED  BY <1>1, <1>2, BytesWritten

\* So no footer is of a later generation than the active segment.
LEMMA FootersKept ==
    ASSUME TypeOK, TypeOK', ControlInv, SpaceInv, SequenceInv, BufferInv, ActiveInv, [Next]_vars,
           NEW g \in Nat, FootersUpTo(g), At("footer") /\ Working => active_segment.generation <= g
    PROVE  FootersUpTo(g)'
<1>. SUFFICES ASSUME NEW s \in Slots, NEW c \in Copies, footers'[s][c] # Garbage
              PROVE  footers'[s][c].generation <= g
  BY DEF FootersUpTo
<1>1. CASE footers'[s][c] = footers[s][c]
  BY <1>1 DEF FootersUpTo
<1>2. CASE footers'[s][c] # footers[s][c]
  <2>1. At("footer") /\ Working /\ footers'[s][c] = ActiveFooter
    BY <1>2, FootersWritten
  <2>. QED  BY <2>1 DEF ActiveFooter
<1>. QED  BY <1>1, <1>2

\* The generation of the active segment is of its header.
LEMMA ActiveGeneration ==
    ASSUME TypeOK, ActiveInv, Working
    PROVE  /\ active_segment.slot \in Slots /\ active_segment.generation \in Nat \ {0}
           /\ active_segment.generation \in HeaderGenerations(active_segment.slot)
<1>1. active_segment.slot \in Slots /\ active_segment.generation \in Nat
  BY DEF TypeOK, MemoryTypeOK
<1>2. PICK s \in Slots : s = active_segment.slot
  BY <1>1
<1>3. HeaderReadable(s) /\ HeaderGeneration(s) = active_segment.generation /\ active_segment.generation # 0
  BY <1>2 DEF ActiveInv
<1>4. HeaderGeneration(s) \in HeaderGenerations(s)
  BY <1>3, HeaderHighest DEF TypeOK
<1>. QED  BY <1>1, <1>2, <1>3, <1>4

\* Generations are only counted up.
LEMMA NumbersGrow ==
    ASSUME TypeOK, TypeOK', ControlInv, IdInv, RotationInv, GenerationInv, RetirementInv, [Next]_vars,
           ~Choosing, mode' # "off"
    PROVE  state.next_generation \in Nat /\ state'.next_generation \in Nat
           /\ state'.next_generation >= state.next_generation
<1>1. state.next_generation \in Nat /\ state'.next_generation \in Nat /\ mode # "off"
  BY DEF TypeOK, MemoryTypeOK, StateRecord, Choosing
<1>. SUFFICES ASSUME state'.next_generation # state.next_generation
              PROVE  state'.next_generation >= state.next_generation
  BY <1>1
<1>2. ~UNCHANGED vars
  BY DEF vars, memory
<1>3. ~At("highest")
  BY BehindEntry DEF Choosing, Has, At
<1>4. ~At("retire")
  BY <1>2, HeadStep, RetireRetiring
<1>5. ~At("select")
  BY <1>2, HeadStep, SelectRetiring
<1>6. ~At("settle")
  BY <1>2, HeadStep, SettleNumbers
<1>7. Activate
  BY <1>1, <1>2, <1>3, <1>4, <1>5, <1>6, NumbersKept, HeadStep
<1>8. state'.next_generation = state.next_generation + 1
  BY <1>7 DEF Activate, TypeOK, MemoryTypeOK, StateRecord
<1>. QED  BY <1>1, <1>8

\* While the generation is still being chosen, a header that a recovered segment is
\* sealed under is that of the newest generation.
LEMMA UpcomingAfter ==
    ASSUME TypeOK, NEW g \in Nat \ {0}, Upcoming(g), NEW s \in Slots, g \in HeaderGenerations(s)
    PROVE  Upcoming(g + 1)
<1>1. Home(g) = s
  BY DEF Upcoming, HeadersUpTo
<1>2. headers \in [Slots -> [Copies -> Nat \cup {Garbage}]]
  BY DEF TypeOK, MediumTypeOK
<1>3. \A t \in Slots : HeaderGenerations(t) \subseteq Nat
  BY <1>2 DEF HeaderGenerations
<1>4. \A t \in Slots : \A h \in HeaderGenerations(t) : h = 0 \/ (h <= g + 1 /\ Home(h) = t)
  <2>1. \A t \in Slots : \A h \in HeaderGenerations(t) : h \in Nat /\ (h = 0 \/ (h <= g /\ Home(h) = t))
    BY <1>3 DEF Upcoming, HeadersUpTo
  <2>2. \A h \in Nat : h <= g => h <= g + 1
    OBVIOUS
  <2>. QED  BY ONLY <2>1, <2>2
<1>5. g + 1 \in Nat /\ g + 1 >= 2 /\ (g + 1) - 1 = g
  OBVIOUS
<1>6. HeadersUpTo(g + 1)
  BY ONLY <1>1, <1>4, <1>5, g \in HeaderGenerations(s) DEF HeadersUpTo
<1>7. CheckpointUpTo(g + 1)
  BY DEF Upcoming, CheckpointUpTo, TypeOK, MediumTypeOK, StateRecord
<1>8. \A p \in Stored : p.generation < g + 1
  BY StoredType DEF Upcoming
<1>. QED  BY <1>5, <1>6, <1>7, <1>8 DEF Upcoming

\* Footers and the newest generation, before it is chosen.
LEMMA ChoosingNumbers ==
    ASSUME TypeOK, TypeOK', ControlInv, SpaceInv, IdInv, RotationInv, GenerationInv, SequenceInv, BufferInv,
           ActiveInv, SealNumbers, [Next]_vars
    PROVE  \E s \in Slots : \E g \in HeaderGenerations(s)' : Upcoming(g + 1)' /\ FootersUpTo(g)'
<1>1. SUFFICES \E g \in Nat \ {0} : Upcoming(g + 1)' /\ FootersUpTo(g)'
  <2>1. PICK g \in Nat \ {0} : Upcoming(g + 1)' /\ FootersUpTo(g)'
    BY <1>1
  <2>2. PICK s \in Slots : s = Home(g)
    BY HomeType
  <2>3. (g + 1) - 1 = g
    OBVIOUS
  <2>4. (g + 1) - 1 \in HeaderGenerations(Home((g + 1) - 1))'
    BY <2>1 DEF Upcoming, HeadersUpTo
  <2>5. g \in HeaderGenerations(s)'
    BY <2>2, <2>3, <2>4
  <2>. QED  BY <2>1, <2>5
<1>2. CASE ~Choosing
  <2>1. PICK n : n = state.next_generation /\ Upcoming(n)
    BY <1>2 DEF GenerationInv, Chosen
  <2>2. PICK g \in Nat \ {0} : g = n - 1 /\ n = g + 1
    <3>1. n - 1 \in Nat \ {0} /\ n = (n - 1) + 1
      BY <2>1 DEF Upcoming
    <3>. QED  BY <3>1
  <2>3. Upcoming(n)'
    BY <1>2, <2>1, UpcomingKept
  <2>4. FootersUpTo(g)
    BY <1>2, <2>1, <2>2 DEF SealNumbers
  <2>5. Working => active_segment.generation <= g
    <3>1. SUFFICES ASSUME Working PROVE active_segment.generation <= g
      OBVIOUS
    <3>2. active_segment.slot \in ValidSlots(segments)
          /\ segments[active_segment.slot].generation = active_segment.generation
      BY <3>1, ActiveGeneration DEF ActiveInv, ValidSlots
    <3>3. active_segment.generation < n
      BY <1>2, <2>1, <3>2 DEF GenerationInv, Chosen
    <3>4. active_segment.generation \in Nat
      BY <3>1, ActiveGeneration
    <3>. QED  BY ONLY <2>2, <3>3, <3>4
  <2>6. FootersUpTo(g)'
    BY <2>4, <2>5, FootersKept
  <2>. QED  BY <2>2, <2>3, <2>6
<1>3. CASE Choosing
  <2>1. PICK s \in Slots : \E g \in HeaderGenerations(s) : Upcoming(g + 1) /\ FootersUpTo(g)
    BY <1>3 DEF SealNumbers
  <2>2. PICK g \in HeaderGenerations(s) : Upcoming(g + 1) /\ FootersUpTo(g)
    BY <2>1
  <2>3. g \in Nat \ {0}
    <3>1. g \in Nat
      BY DEF HeaderGenerations, TypeOK, MediumTypeOK
    <3>. QED  BY <2>2, <3>1 DEF Upcoming
  <2>4. CASE At("footer") /\ Working /\ active_segment.generation > g
    <3>1. PICK t \in Slots, h \in Nat \ {0} : t = active_segment.slot /\ h = active_segment.generation
                                              /\ h \in HeaderGenerations(t)
      BY <2>4, ActiveGeneration
    <3>2. h <= g + 1
      BY <2>2, <3>1 DEF Upcoming, HeadersUpTo
    <3>3. h = g + 1
      BY <2>3, <2>4, <3>1, <3>2
    <3>4. Upcoming(h + 1)
      BY <2>2, <3>1, <3>3, UpcomingAfter
    <3>5. Upcoming(h + 1)'
      BY <1>3, <3>4, UpcomingKept
    <3>6. FootersUpTo(h)
      <4>1. \A x \in Slots, c \in Copies : footers[x][c] # Garbage => footers[x][c].generation \in Nat
        BY DEF TypeOK, MediumTypeOK, FooterRecord
      <4>2. \A k \in Nat : k <= g => k <= h
        BY <2>3, <3>3
      <4>. QED  BY ONLY <2>2, <4>1, <4>2 DEF FootersUpTo
    <3>7. FootersUpTo(h)'
      BY <3>1, <3>6, FootersKept
    <3>. QED  BY <3>5, <3>7
  <2>5. CASE ~(At("footer") /\ Working /\ active_segment.generation > g)
    <3>1. Upcoming(g + 1)'
      BY <1>3, <2>2, UpcomingKept
    <3>2. At("footer") /\ Working => active_segment.generation <= g
      BY <2>3, <2>5, ActiveGeneration
    <3>3. FootersUpTo(g)'
      BY <2>2, <2>3, <3>2, FootersKept
    <3>. QED  BY <2>3, <3>1, <3>3
  <2>. QED  BY <2>4, <2>5
<1>. QED  BY <1>2, <1>3

\* The choice is of a generation beyond every footer.
LEMMA PickedNumbers ==
    ASSUME TypeOK, TypeOK', ControlInv, ControlInv', IdInv, RotationInv, RotationInv', GenerationInv,
           RetirementInv, SealNumbers, [Next]_vars, PickHighest, ~Fail, mode' # "off"
    PROVE  FootersUpTo(state.next_generation - 1)'
<1>1. /\ Has({"select"})' /\ \A s \in Slots : Recovered(s)'
      /\ state'.oldest_generation = checkpoint'.oldest_generation
  BY PickRetained
<1>2. Chosen'
  BY PickChosen
<1>3. UNCHANGED <<headers, footers, checkpoint, data>>
  BY DEF PickHighest, medium
<1>4. Choosing
  BY BehindEntry DEF PickHighest, Choosing, Has, At
<1>5. PICK s \in Slots : \E g \in HeaderGenerations(s) : Upcoming(g + 1) /\ FootersUpTo(g)
  BY <1>4 DEF SealNumbers
<1>6. PICK g \in HeaderGenerations(s) : Upcoming(g + 1) /\ FootersUpTo(g)
  BY <1>5
<1>7. g \in Nat /\ HeaderReadable(s) /\ HeaderGeneration(s) \in Nat /\ g <= HeaderGeneration(s)
  BY HeaderHighest DEF TypeOK, HeaderReadable
<1>8. g >= 1 /\ checkpoint.oldest_generation <= g
  <2>1. g + 1 >= 2 /\ checkpoint.oldest_generation < g + 1
    BY <1>6 DEF Upcoming, CheckpointUpTo
  <2>2. checkpoint.oldest_generation \in Nat
    BY DEF TypeOK, MediumTypeOK, StateRecord
  <2>. QED  BY ONLY <1>7, <2>1, <2>2
<1>9. PICK h \in Nat : h = HeaderGeneration(s) /\ h = HeaderGeneration(s)'
  BY <1>3, <1>7 DEF HeaderGeneration, HeaderGenerations
<1>10. ~Outdated(h)'
  <2>1. state'.oldest_generation = checkpoint.oldest_generation /\ checkpoint.oldest_generation \in Nat
    BY <1>1, <1>3 DEF TypeOK, MediumTypeOK, StateRecord
  <2>. QED  BY <1>7, <1>8, <1>9, <2>1 DEF Outdated
<1>11. segments'[s].valid /\ segments'[s].generation = h
  BY <1>1, <1>9, <1>10 DEF Recovered, Described
<1>12. h < state'.next_generation /\ state'.next_generation \in Nat
  BY <1>2, <1>11 DEF Chosen, ValidSlots, TypeOK, MemoryTypeOK, StateRecord
<1>13. g <= state'.next_generation - 1
  BY <1>7, <1>9, <1>12
<1>14. \A x \in Slots, c \in Copies : footers[x][c] # Garbage => footers[x][c].generation \in Nat
  BY DEF TypeOK, MediumTypeOK, FooterRecord
<1>15. \A k \in Nat : k <= g => k <= state'.next_generation - 1
  BY <1>7, <1>12, <1>13
<1>. QED  BY <1>3, <1>6, <1>14, <1>15 DEF FootersUpTo

\* Each step keeps the footers within the generations given out.
LEMMA NextSealNumbers ==
    ASSUME TypeOK, TypeOK', ControlInv, ControlInv', SpaceInv, IdInv, RotationInv, RotationInv', GenerationInv,
           RetirementInv, SequenceInv, BufferInv, ActiveInv, SealNumbers, [Next]_vars
    PROVE  SealNumbers'
<1>1. SUFFICES ASSUME ~Choosing' PROVE FootersUpTo(state.next_generation - 1)'
  BY ChoosingNumbers DEF SealNumbers
<1>2. mode' # "off"
  BY <1>1 DEF Choosing
<1>3. CASE Choosing
  BY <1>1, <1>2, <1>3, ChoosingEnds, PickedNumbers
<1>4. CASE ~Choosing
  <2>1. /\ state.next_generation \in Nat /\ state'.next_generation \in Nat
        /\ state'.next_generation >= state.next_generation
    BY <1>2, <1>4, NumbersGrow
  <2>2. PICK g \in Nat : g = state.next_generation - 1
    <3>1. state.next_generation >= 2
      BY <1>4, NextHome
    <3>2. state.next_generation - 1 \in Nat
      BY <2>1, <3>1
    <3>. QED  BY <3>2
  <2>3. Working => active_segment.generation <= g
    <3>1. SUFFICES ASSUME Working PROVE active_segment.generation <= g
      OBVIOUS
    <3>2. active_segment.slot \in ValidSlots(segments)
          /\ segments[active_segment.slot].generation = active_segment.generation
      BY <3>1, ActiveGeneration DEF ActiveInv, ValidSlots
    <3>3. active_segment.generation < state.next_generation
      BY <1>4, <3>2 DEF GenerationInv, Chosen
    <3>4. active_segment.generation \in Nat
      BY <3>1, ActiveGeneration
    <3>. QED  BY ONLY <2>1, <2>2, <3>3, <3>4
  <2>4. FootersUpTo(g)
    BY <1>4, <2>2 DEF SealNumbers
  <2>5. FootersUpTo(g)'
    BY <2>3, <2>4, FootersKept
  <2>6. \A x \in Slots, c \in Copies : footers'[x][c] # Garbage => footers'[x][c].generation \in Nat
    BY DEF TypeOK, MediumTypeOK, FooterRecord
  <2>7. \A k \in Nat : k <= g => k <= state'.next_generation - 1
    BY <2>1, <2>2
  <2>. QED  BY <2>5, <2>6, <2>7 DEF FootersUpTo
<1>. QED  BY <1>3, <1>4

\* While the store seals, the seal is not yet done.
LEMMA SealOngoing ==
    ASSUME TypeOK, ControlInv, SealSequence, Has(Sealing), Plain, ~Sealed, mode' # "off"
    PROVE  Has(Sealing)'
<1>1. /\ todo # <<>> /\ Pending = {Head(todo)} \cup Rest
      /\ \E new : /\ Pending' = new \cup Rest
  BY PlainPending
<1>2. ~At("sealed")
  BY DEF Plain, WriteDone, Write, WriterWrite, WriteBuffer, WriteEntry, WriteIndex, WriteFooter, WriteHeader,
         Commit, OpenWriter, Flushed, PutEntry, ReserveEntry, AccountEntry, Acknowledge, Sealed, Settle, Flush,
         PrepareSpace, Retire, CountBoot, AppendBoot, Ready, At
<1>3. \E y \in Rest : y[1] = "sealed"
  BY <1>1, <1>2 DEF SealSequence, Has, At
<1>. QED  BY <1>1, <1>3 DEF Has, Sealing

\* A step in the middle of an operation leaves the descriptors' seals alone, but for the
\* last step of a seal.
LEMMA SealsKept ==
    ASSUME TypeOK, Plain, ~At("retire"), mode' # "off", NEW s \in Slots
    PROVE  /\ segments'[s].valid = segments[s].valid /\ segments'[s].generation = segments[s].generation
           /\ segments'[s].sealed = segments[s].sealed \/ (Sealed /\ s = active_segment.slot /\ segments'[s].sealed)
           /\ active_segment' = active_segment
<1>. USE DEF TypeOK, MemoryTypeOK, Descriptor
<1>1. CASE PutEntry \/ AccountEntry
  <2>1. PICK slot \in Slots, d \in Descriptor : slot = active_segment.slot /\ d = segments[slot]
    OBVIOUS
  <2>2. \E new : /\ segments' = [segments EXCEPT ![slot] = new]
                 /\ new.valid = d.valid /\ new.generation = d.generation /\ new.sealed = d.sealed
    <3>1. ASSUME NEW id, NEW n, Account(id, n)
          PROVE  \E new : /\ segments' = [segments EXCEPT ![slot] = new]
                          /\ new.valid = d.valid /\ new.generation = d.generation /\ new.sealed = d.sealed
      <4>. DEFINE indexed == IF IndexesNext(d) THEN sparse_index \cup {id} ELSE sparse_index
                  new == [d EXCEPT !.first_entry_id = IF d.entry_count = 0 THEN id ELSE @,
                                   !.last_entry_id = id, !.entry_count = @ + 1,
                                   !.data_end = active_write_offset + n,
                                   !.index_count = Cardinality(indexed)]
      <4>1. segments' = [segments EXCEPT ![slot] = new]
        BY ONLY <2>1, <3>1 DEF Account
      <4>2. new.valid = d.valid /\ new.generation = d.generation /\ new.sealed = d.sealed
        BY ONLY d \in Descriptor DEF Descriptor
      <4>. QED  BY ONLY <4>1, <4>2
    <3>. QED  BY <1>1, <3>1 DEF PutEntry, AccountEntry
  <2>3. active_segment' = active_segment
    BY <1>1 DEF PutEntry, AccountEntry
  <2>. QED  BY <2>1, <2>2, <2>3
<1>2. CASE Sealed
  BY <1>2 DEF Sealed
<1>3. CASE Retire
  BY <1>3 DEF Retire, At
<1>4. CASE CountBoot
  BY <1>4 DEF CountBoot, Fail, Reset, SetState, memory
<1>5. CASE Plain /\ ~PutEntry /\ ~AccountEntry /\ ~Sealed /\ ~Retire /\ ~CountBoot
  BY <1>5 DEF Plain, WriteDone, OpenWriter, Flushed, ReserveEntry, Acknowledge, Settle, Flush, PrepareSpace,
              AppendBoot, Ready, SetState, memory
<1>. QED  BY <1>1, <1>2, <1>3, <1>4, <1>5

\* Footers that stay on the medium stay valid.
LEMMA FooterKept ==
    ASSUME NEW s, footers'[s] = footers[s], NEW g
    PROVE  HasFooter(s, g)' <=> HasFooter(s, g)
  BY DEF HasFooter, FooterValid

\* Sealing a slot again ends with the seal.
LEMMA ResealHas ==
    ASSUME NEW s \in Slots
    PROVE  ResealSteps(s) \in Seq(Steps) /\ Do("sealed") \in StepsOf(ResealSteps(s))
<1>1. SealSteps \in Seq(Steps) /\ <<Do("close_writer")>> \in Seq(Steps) /\ <<<<"open_writer", s>>>> \in Seq(Steps)
  BY SealStepsType, DoType, SlotStepType
<1>2. PICK first \in Seq(Steps) : first = <<<<"open_writer", s>>>>
  BY <1>1
<1>3. PICK last \in Seq(Steps) : last = <<Do("close_writer")>>
  BY <1>1
<1>4. PICK both \in Seq(Steps) : both = first \o SealSteps
  BY <1>1, ConcatValues
<1>5. StepsOf(both) = StepsOf(first) \cup StepsOf(SealSteps)
  BY <1>1, <1>4, StepsOfConcat
<1>6. both \o last \in Seq(Steps) /\ StepsOf(both \o last) = StepsOf(both) \cup StepsOf(last)
  BY StepsOfConcat
<1>7. ResealSteps(s) = both \o last
  BY <1>2, <1>3, <1>4 DEF ResealSteps
<1>8. SealSteps[5] = Do("sealed") /\ 5 \in DOMAIN SealSteps
  BY DEF SealSteps
<1>9. Do("sealed") \in StepsOf(SealSteps)
  BY <1>8 DEF StepsOf
<1>. QED  BY <1>5, <1>6, <1>7, <1>9

\* recover_one_segment takes a footer for a seal, or seals again.
LEMMA RecoverSeals ==
    ASSUME TypeOK, ControlInv, Recover, Pending' # {}, NEW s \in Slots, s = Arg
    PROVE  Resealed(s)'
<1>1. /\ ~Fail
      /\ \/ Pending' = Rest
         \/ /\ Adopt(s, HeaderGeneration(s))
            /\ Pending' = StepsOf(ResealSteps(s)) \cup Rest
  BY FailControl, RecoverControl DEF SetDescriptor, Adopt
<1>2. footers' = footers
  BY DEF Recover, medium
<1>3. PICK g : g = HeaderGeneration(s)
  OBVIOUS
<1>4. \/ SetDescriptor(s, NoSegment)
      \/ ~HasFooter(s, g) /\ SetDescriptor(s, Scan(s, g, FALSE))
      \/ SetDescriptor(s, SealedSegment(Footer(s, g)))
      \/ Adopt(s, g) /\ Call(ResealSteps(s))
  BY <1>1, <1>3 DEF Recover, Repair, ResealSteps
<1>5. segments \in [Slots -> Descriptor]
  BY DEF TypeOK, MemoryTypeOK
<1>6. CASE SetDescriptor(s, NoSegment)
  BY <1>5, <1>6 DEF SetDescriptor, NoSegment, Resealed
<1>7. CASE ~HasFooter(s, g) /\ SetDescriptor(s, Scan(s, g, FALSE))
  <2>1. segments'[s].generation = g
    BY <1>5, <1>7, ScanGeneration DEF SetDescriptor, IsScan
  <2>2. ~HasFooter(s, g)'
    BY <1>2, <1>7, FooterKept
  <2>. QED  BY <2>1, <2>2 DEF Resealed
<1>8. CASE SetDescriptor(s, SealedSegment(Footer(s, g)))
  BY <1>5, <1>8 DEF SetDescriptor, SealedSegment, Resealed
<1>9. CASE Adopt(s, g) /\ Call(ResealSteps(s))
  <2>1. todo \in Seq(Steps) /\ todo # <<>>
    BY RecoverControl DEF TypeOK
  <2>2. ResealSteps(s) \in Seq(Steps) /\ Do("sealed") \in StepsOf(ResealSteps(s))
    BY ResealHas
  <2>3. Do("sealed") \in Pending'
    BY <1>9, <2>1, <2>2, CallPending
  <2>. QED  BY <1>9, <2>3 DEF Resealed, Adopt, Has, Sealing, Do
<1>. QED  BY <1>4, <1>6, <1>7, <1>8, <1>9

\* A slot that is recovered is sealed or being sealed until the active one is selected.
LEMMA NextSealRecovery ==
    ASSUME TypeOK, TypeOK', ControlInv, ControlInv', SpaceInv, RotationInv, GenerationInv, SequenceInv, BufferInv,
           ActiveInv, SealSequence, SealRecovery, [Next]_vars, "io" \notin Faults
    PROVE  SealRecovery'
<1>. SUFFICES ASSUME Has({"select"})', NEW s \in Slots, <<"recover", s>> \notin Pending' PROVE Resealed(s)'
  BY DEF SealRecovery
<1>. USE DEF SealRecovery
<1>1. mode' # "off" /\ Pending' # {}
  BY DEF ControlInv, Has, Pending, StepsOf
<1>2. CASE UNCHANGED vars
  <2>1. UNCHANGED <<todo, segments, footers, active_segment>>
    BY <1>2 DEF vars, medium, memory, control
  <2>. QED  BY <2>1 DEF Pending, Has, Resealed, HasFooter, FooterValid
<1>3. CASE StartInit
  BY <1>3, InitHas DEF StartInit, Pending
<1>4. CASE Operations
  <2>1. \A x \in Pending' : x[1] \notin Leaves
    BY <1>4, OperationsPending
  <2>. QED  BY <2>1 DEF Has, Leaves
<1>5. mode # "off" \/ StartInit
  BY <1>1, ClosedSteps
<1>6. CASE ~UNCHANGED vars /\ ~StartInit /\ ~Operations /\ At("select")
  <2>1. SelectActive
    BY <1>1, <1>6, HeadStep
  <2>2. todo # <<>> /\ HighestSlot(segments) \in Slots
    BY <2>1, SelectControl
  <2>3. \A y \in Rest : y[1] # "select"
    BY <1>6, <2>2, BehindStep
  <2>4. Pending' = StepsOf(<<<<"open_writer", HighestSlot(segments)>>>>) \cup Rest
        \/ Pending' = StepsOf(<<Do("open_next")>>) \cup Rest
    BY <1>1, <2>1, SelectControl
  <2>5. StepsOf(<<<<"open_writer", HighestSlot(segments)>>>>) = {<<"open_writer", HighestSlot(segments)>>}
        /\ StepsOf(<<Do("open_next")>>) = {Do("open_next")}
    BY <2>2, CallNames
  <2>. QED  BY <2>3, <2>4, <2>5 DEF Has, Do
<1>7. CASE ~UNCHANGED vars /\ ~StartInit /\ ~Operations /\ ~At("select")
  <2>1. Has({"select"})
    BY <1>1, <1>5, <1>7, SelectKept
  <2>2. ~Has({"open_next", "retire", "header", "activate"}) /\ todo # <<>> /\ Pending = {Head(todo)} \cup Rest
    BY <2>1, BehindEntry DEF RotationInv, Has, Pending, StepsOf
  <2>3. ~OpenNext /\ ~Activate /\ ~At("retire") /\ ~SelectActive /\ ~NoWriter /\ ~NoEntry
    <3>1. ~At("open_next") /\ ~At("activate") /\ ~At("retire")
      BY <2>2 DEF Has, At
    <3>2. ~NoWriter /\ ~NoEntry
      BY <1>1, FailControl DEF NoWriter, NoEntry
    <3>. QED  BY <1>7, <3>1, <3>2 DEF OpenNext, Activate, SelectActive
  <2>4. CASE Recover
    <3>1. Arg \in Slots /\ \A t \in Slots : t # Arg => segments'[t] = segments[t]
      BY <1>1, <2>4, FailControl, RecoverSlot
    <3>2. CASE s = Arg
      BY <1>1, <2>4, <3>2, RecoverSeals
    <3>3. CASE s # Arg
      <4>1. At("recover") /\ footers' = footers
        BY <2>4 DEF Recover, medium
      <4>2. ~Has(Sealing)
        BY <2>2, <4>1, BehindAppend DEF Has, At, Sealing
      <4>3. <<"recover", s>> \notin Pending
        <5>1. Head(todo) # <<"recover", s>>
          BY <3>3 DEF Arg
        <5>2. Rest \subseteq Pending'
          BY <1>1, <2>4, FailControl, RecoverControl
        <5>. QED  BY <2>2, <5>1, <5>2
      <4>4. ~(segments[s].valid /\ ~segments[s].sealed /\ HasFooter(s, segments[s].generation))
        BY <2>1, <4>2, <4>3 DEF Resealed
      <4>5. segments'[s] = segments[s] /\ footers'[s] = footers[s]
        BY <3>1, <3>3, <4>1
      <4>. QED  BY <4>4, <4>5, FooterKept DEF Resealed
    <3>. QED  BY <3>2, <3>3
  <2>5. CASE SealRecovered
    <3>1. At("seal_recovered") /\ footers' = footers /\ Arg \in Slots
      BY <2>5, SealRecoveredControl DEF SealRecovered, medium
    <3>2. ~Has(Sealing) /\ <<"recover", s>> \notin Pending
      <4>1. \A y \in Rest : y[1] \notin Sealing
        BY <2>2, <3>1, BehindAppend
      <4>2. Rest \subseteq Pending'
        BY <1>1, <2>5, SealRecoveredControl
      <4>. QED  BY <2>2, <3>1, <4>1, <4>2 DEF Has, At, Sealing
    <3>3. ~(segments[s].valid /\ ~segments[s].sealed /\ HasFooter(s, segments[s].generation))
      BY <2>1, <3>2 DEF Resealed
    <3>4. CASE segments'[s] = segments[s]
      BY <3>1, <3>3, <3>4, FooterKept DEF Resealed
    <3>5. CASE segments'[s] # segments[s]
      <4>1. Adopt(Arg, HeaderGeneration(Arg)) /\ Call(ResealSteps(Arg))
        BY <1>1, <2>5, <3>5, FailControl DEF SealRecovered, Skip, memory, ResealSteps
      <4>2. s = Arg /\ active_segment'.slot = s
        BY <3>1, <3>5, <4>1 DEF Adopt, TypeOK, MemoryTypeOK
      <4>3. Pending' = StepsOf(ResealSteps(Arg)) \cup Rest
        BY <2>2, <3>1, <4>1, ResealHas, CallPending DEF TypeOK
      <4>4. Has(Sealing)'
        BY <3>1, <4>3, ResealHas DEF Has, Sealing, Do
      <4>. QED  BY <4>2, <4>4 DEF Resealed
    <3>. QED  BY <3>4, <3>5
  <2>6. CASE PickHighest \/ CloseWriter
    <3>1. UNCHANGED <<segments, footers>> /\ Pending' = Rest /\ (At("highest") \/ At("close_writer"))
      BY <1>1, <2>6, FailControl, MovesControl, SetStateControl DEF PickHighest, CloseWriter, Moves, medium
    <3>2. ~Has(Sealing)
      <4>1. \A y \in Rest : y[1] \notin Sealing
        BY <2>2, <3>1, BehindAppend, BehindSeal
      <4>. QED  BY <2>2, <3>1, <4>1 DEF Has, At, Sealing
    <3>3. <<"recover", s>> \notin Pending
      BY <2>2, <3>1 DEF At
    <3>. QED  BY <2>1, <3>1, <3>2, <3>3, FooterKept DEF Resealed
  <2>7. CASE Plain
    <3>1. /\ segments'[s].valid = segments[s].valid /\ segments'[s].generation = segments[s].generation
          /\ segments'[s].sealed = segments[s].sealed \/ (Sealed /\ s = active_segment.slot /\ segments'[s].sealed)
          /\ active_segment' = active_segment
      BY <1>1, <2>3, <2>7, SealsKept
    <3>2. <<"recover", s>> \notin Pending
      <4>1. ~At("recover")
        BY <2>7, PlainHead
      <4>2. Rest \subseteq Pending'
        BY <1>1, <2>7, PlainPending
      <4>. QED  BY <2>2, <4>1, <4>2 DEF At
    <3>3. Resealed(s)
      BY <2>1, <3>2
    <3>4. CASE footers'[s] = footers[s]
      <4>1. HasFooter(s, segments[s].generation)' <=> HasFooter(s, segments[s].generation)
        <5>1. PICK g : g = segments[s].generation
          OBVIOUS
        <5>2. HasFooter(s, g)' <=> HasFooter(s, g)
          BY <3>4, FooterKept
        <5>. QED  BY <3>1, <5>1, <5>2
      <4>2. CASE Sealed
        <5>1. CASE s = active_segment.slot
          <6>1. segments'[s].sealed
            <7>1. segments[s] \in Descriptor
              BY DEF TypeOK, MemoryTypeOK
            <7>. QED  BY <4>2, <5>1, <7>1 DEF Sealed, TypeOK, MemoryTypeOK, Descriptor
          <6>. QED  BY <6>1 DEF Resealed
        <5>2. CASE s # active_segment.slot
          <6>1. segments'[s].sealed = segments[s].sealed
            BY <3>1, <5>2
          <6>2. ~(segments[s].valid /\ ~segments[s].sealed /\ HasFooter(s, segments[s].generation))
            BY <3>3, <5>2 DEF Resealed
          <6>. QED  BY <3>1, <4>1, <6>1, <6>2 DEF Resealed
        <5>. QED  BY <5>1, <5>2
      <4>3. CASE ~Sealed
        BY <1>1, <2>7, <3>1, <3>3, <4>1, <4>3, SealOngoing DEF Resealed
      <4>. QED  BY <4>2, <4>3
    <3>5. CASE footers'[s] # footers[s]
      <4>1. At("footer") /\ Working /\ s = active_segment.slot
        BY <3>5, FootersWritten
      <4>2. Has(Sealing) /\ ~Sealed
        BY <2>2, <4>1 DEF Has, At, Sealing, Sealed
      <4>3. Has(Sealing)'
        BY <1>1, <2>7, <4>2, SealOngoing
      <4>. QED  BY <3>1, <4>1, <4>3 DEF Resealed
    <3>. QED  BY <3>4, <3>5
  <2>. QED  BY <1>1, <1>7, <2>3, <2>4, <2>5, <2>6, <2>7, Kinds
<1>. QED  BY <1>2, <1>3, <1>4, <1>6, <1>7

\* No step of an operation fills the buffer but that of a buffered append.
LEMMA BufferEmptied ==
    ASSUME TypeOK, Operations \/ Plain \/ NoEntry, ~PutEntry, mode' # "off", write_buf = <<>>
    PROVE  write_buf' = <<>>
<1>1. CASE Operations
  BY <1>1 DEF Operations, AppendEntry, FlushWrite, Deinit, memory
<1>2. CASE NoEntry \/ CountBoot
  BY <1>2 DEF NoEntry, CountBoot, Fail, Reset, SetState, memory
<1>3. CASE Plain /\ ~CountBoot
  BY <1>3 DEF Plain, WriteDone, OpenWriter, Flushed, ReserveEntry, AccountEntry, Acknowledge, Sealed, Settle,
              Flush, PrepareSpace, Retire, AppendBoot, Ready, SetState, memory
<1>. QED  BY <1>1, <1>2, <1>3

\* A footer of the active segment stays the sign of a seal that is not yet done.
LEMMA SealCarried ==
    ASSUME TypeOK, TypeOK', ControlInv, SpaceInv, RotationInv, SequenceInv, SequenceInv', BufferInv, ActiveInv,
           SealSequence, SealActive, [Next]_vars, Working, Working', ~At("retire"), ~At("header"),
           Operations \/ Plain \/ NoEntry
    PROVE  SealActive'
<1>1. PICK s \in Slots, g \in Nat : /\ s = active_segment.slot /\ g = active_segment.generation
                                    /\ s = active_segment'.slot /\ g = active_segment'.generation
  BY ActiveCarried DEF TypeOK, MemoryTypeOK
<1>. SUFFICES ASSUME HasFooter(s, g)' PROVE Has(Sealing)' /\ write_buf' = <<>>
  BY <1>1 DEF SealActive
<1>2. mode' # "off"
  BY DEF Working
<1>3. Has(Sealing) /\ write_buf = <<>>
  <2>1. CASE footers'[s] = footers[s]
    BY <1>1, <2>1, FooterKept DEF SealActive
  <2>2. CASE footers'[s] # footers[s]
    <3>1. At("footer")
      BY <2>2, FootersWritten
    <3>2. todo # <<>> /\ Pending = {Head(todo)} \cup Rest
      BY <3>1, BehindEntry DEF At
    <3>3. Has(Sealing) /\ ~At("flush") /\ ~Has({"flushed"})
      <4>1. \A y \in Rest : y[1] # "flushed"
        BY <3>1, <3>2, BehindData DEF Sealing
      <4>. QED  BY <3>1, <3>2, <4>1 DEF Has, At, Sealing
    <3>4. Has(Sealing \cup Rotation \cup Bypass)
      BY <3>3 DEF Has
    <3>. QED  BY <3>3, <3>4 DEF BufferInv
  <2>. QED  BY <2>1, <2>2
<1>4. ~Operations /\ ~NoEntry /\ ~PutEntry
  <2>1. ~Operations
    BY <1>3, OperationsPending DEF Has
  <2>2. ~At("put") /\ ~At("reserve")
    <3>1. ASSUME At("put") \/ At("reserve") PROVE FALSE
      <4>1. todo # <<>> /\ Pending = {Head(todo)} \cup Rest
        BY <3>1, BehindEntry DEF At
      <4>2. \A y \in Rest : y[1] \notin Sealing
        BY <3>1, <4>1, BehindData DEF Bypass
      <4>. QED  BY <1>3, <3>1, <4>1, <4>2 DEF Has, At, Sealing
    <3>. QED  BY <3>1
  <2>. QED  BY <2>1, <2>2 DEF NoEntry, PutEntry
<1>5. ~Sealed
  <2>. SUFFICES ASSUME Sealed PROVE FALSE
    OBVIOUS
  <2>1. At("sealed") /\ todo # <<>> /\ Pending = {Head(todo)} \cup Rest /\ Pending' = Rest
    BY BehindEntry, MovesControl DEF Moves, Sealed, At
  <2>2. \A y \in Rest : y[1] \notin Sealing
    BY <2>1, BehindSeal
  <2>3. \E y \in Rest : y[1] \in {"open_next", "select"}
    BY <1>3, <2>1 DEF SealSequence, Has, At
  <2>. QED  BY <2>1, <2>2, <2>3 DEF Working, Has, Unbound
<1>6. Has(Sealing)'
  BY <1>2, <1>3, <1>4, <1>5, SealOngoing
<1>7. write_buf' = <<>>
  BY <1>2, <1>3, <1>4, BufferEmptied
<1>. QED  BY <1>6, <1>7

\* A recovered segment is taken for the active one only without a footer.
LEMMA SelectSeals ==
    ASSUME TypeOK, ControlInv, SpaceInv, IdInv, RotationInv, GenerationInv, RetirementInv, SealRecovery,
           [Next]_vars, SelectActive, Working'
    PROVE  ~HasFooter(active_segment.slot, active_segment.generation)'
<1>1. todo # <<>> /\ At("select") /\ Pending = {Head(todo)} \cup Rest /\ mode' # "off" /\ mode # "off"
  BY SelectControl, BehindEntry DEF SelectActive, Working, ControlInv, At
<1>2. /\ \A y \in Rest : y[1] \notin Sealing \cup {"recover", "highest"}
  BY <1>1, BehindAppend, BehindStep
<1>3. ~Has(Sealing) /\ Has({"select"}) /\ ~Choosing /\ \A s \in Slots : <<"recover", s>> \notin Pending
  BY <1>1, <1>2 DEF Has, At, Sealing, Choosing
<1>4. PICK s : s = HighestSlot(segments)
  OBVIOUS
<1>5. PICK g : g = HeaderGeneration(s)
  OBVIOUS
<1>6. ~segments[s].sealed /\ active_segment' = [slot |-> s, generation |-> g]
  <2>1. \/ Fail /\ Pending' = {}
        \/ ~segments[s].sealed /\ Adopt(s, g)
        \/ Pending' = StepsOf(<<Do("open_next")>>) \cup Rest
    BY <1>4, <1>5, SelectControl
  <2>2. ~(Fail /\ Pending' = {})
    <3>1. mode = "init"
      BY <1>1 DEF ControlInv, Has, At, Booting, Recovering
    <3>. QED  BY <1>1, <3>1 DEF Fail, Reset
  <2>3. Pending' # StepsOf(<<Do("open_next")>>) \cup Rest
    <3>1. StepsOf(<<Do("open_next")>>) = {Do("open_next")}
      BY CallNames
    <3>. QED  BY <1>2, <3>1 DEF Working, Has, Unbound, Sealing, Do
  <2>. QED  BY <2>1, <2>2, <2>3 DEF Adopt
<1>7. s \in Slots /\ segments[s].valid /\ segments[s].generation = g
  <2>1. HighestGeneration(segments) = state.next_generation - 1 /\ state.next_generation >= 2
        /\ state.next_generation \in Nat /\ \A t \in Slots : Described(t)
    BY <1>3, NextHome DEF GenerationInv, Chosen
  <2>2. HighestGeneration(segments) # 0
    BY <2>1
  <2>3. s \in ValidSlots(segments)
    BY <1>4, <2>2, HighestBounds DEF TypeOK, MemoryTypeOK
  <2>. QED  BY <1>5, <2>1, <2>3 DEF ValidSlots, Described
<1>8. ~HasFooter(s, g)
  BY <1>3, <1>6, <1>7 DEF SealRecovery, Resealed
<1>9. footers' = footers
  BY DEF SelectActive, medium
<1>10. ~HasFooter(s, g)'
  BY <1>8, <1>9, FooterKept
<1>. QED  BY <1>6, <1>10

\* The active segment has a footer only while it is being sealed.
LEMMA NextSealActive ==
    ASSUME TypeOK, TypeOK', ControlInv, SpaceInv, IdInv, RotationInv, GenerationInv, RetirementInv, SequenceInv,
           SequenceInv', BufferInv, ActiveInv, SealInv, [Next]_vars, "io" \notin Faults
    PROVE  SealActive'
<1>. USE DEF SealInv
<1>. SUFFICES ASSUME Working' PROVE SealActive'
  BY DEF SealActive
<1>1. CASE UNCHANGED vars
  <2>1. UNCHANGED <<mode, todo, write_buf, footers, active_segment>>
    BY <1>1 DEF vars, medium, memory, control
  <2>. QED  BY <2>1 DEF SealActive, Working, Has, Pending, HasFooter, FooterValid
<1>2. CASE Working /\ ~At("retire") /\ ~At("header") /\ (Operations \/ Plain \/ NoEntry)
  BY <1>2, SealCarried
<1>3. CASE Recover \/ SealRecovered
  <2>1. write_buf' = <<>>
    BY <1>3, Adopts
  <2>2. Has(Unbound)'
    <3>1. mode' # "off" /\ todo # <<>> /\ Pending = {Head(todo)} \cup Rest
      BY <1>3, BehindEntry DEF Working, Recover, SealRecovered, At
    <3>2. (At("recover") \/ At("seal_recovered")) /\ mode = "init"
      BY <1>3, <3>1 DEF Recover, SealRecovered, ControlInv, Has, At, Booting, Recovering
    <3>3. Rest \subseteq Pending'
      <4>1. ~Fail
        BY <3>1, <3>2 DEF Fail, Reset
      <4>. QED  BY <1>3, <4>1, RecoverControl, SealRecoveredControl
    <3>4. \E y \in Rest : y[1] \in {"highest", "select"}
      BY <3>1, <3>2 DEF RotationInv, Has, At
    <3>. QED  BY <3>3, <3>4 DEF Has, Unbound
  <2>. QED  BY <2>1, <2>2 DEF Working, SealActive
<1>4. CASE SelectActive
  BY <1>4, SelectSeals DEF SealActive
<1>5. CASE Activate
  <2>1. PICK s \in Slots, g \in Nat \ {0} : s = NextSlot /\ g = state.next_generation
    BY <1>5, Activates
  <2>2. active_segment' = [slot |-> s, generation |-> g] /\ UNCHANGED medium
    BY <1>5, <2>1, Activates
  <2>3. FootersUpTo(g - 1)
    <3>1. ~Choosing
      <4>1. todo # <<>> /\ At("activate") /\ Pending = {Head(todo)} \cup Rest
        BY <1>5, Activates
      <4>2. ~Has({"highest"}) /\ mode # "off"
        BY <4>1 DEF RotationInv, ControlInv, Has, At
      <4>. QED  BY <4>2 DEF Choosing
    <3>. QED  BY <2>1, <3>1 DEF SealNumbers
  <2>4. \A c \in Copies : footers[s][c] # Garbage => footers[s][c].generation # g
    <3>1. \A c \in Copies : footers[s][c] # Garbage => footers[s][c].generation \in Nat
      BY DEF TypeOK, MediumTypeOK, FooterRecord
    <3>2. \A h \in Nat : h <= g - 1 => h # g
      OBVIOUS
    <3>. QED  BY <2>3, <3>1, <3>2 DEF FootersUpTo
  <2>5. ~HasFooter(s, g)
    BY <2>4 DEF HasFooter, FooterValid
  <2>6. ~HasFooter(s, g)'
    BY <2>2, <2>5, FooterKept DEF medium
  <2>. QED  BY <2>2, <2>6 DEF SealActive
<1>. QED  BY <1>1, <1>2, <1>3, <1>4, <1>5, WorkingKept

\* Each step keeps the footers to segments whose entries are all flushed.
LEMMA NextSeal ==
    ASSUME "io" \notin Faults
    PROVE  TypeOK /\ TypeOK' /\ ControlInv /\ ControlInv' /\ SpaceInv /\ IdInv /\ RotationInv /\ RotationInv'
               /\ GenerationInv /\ RetirementInv /\ SequenceInv /\ SequenceInv' /\ BufferInv /\ ActiveInv
               /\ SealInv /\ [Next]_vars => SealInv'
  BY NextSealSequence, NextSealNumbers, NextSealRecovery, NextSealActive DEF SealInv

\* Cells are written from an offset on.
LEMMA CellsBelow ==
    ASSUME MediumTypeOK, NEW s \in Slots, NEW offset \in Nat, NEW cells, NEW n \in Nat, DOMAIN cells = 1 .. n,
           NEW o, WriteCells(s, offset, cells, o)
    PROVE  /\ \A t \in Slots : t # s => data'[t] = data[t]
           /\ \A p \in Offsets : p < offset => data'[s][p] = data[s][p]
<1>1. data \in [Slots -> [Offsets -> Cell \cup {Garbage}]]
  BY DEF MediumTypeOK
<1>2. PICK m : data' = [data EXCEPT ![s] =
                    [p \in Offsets |-> IF p - offset + 1 \in DOMAIN cells
                                       THEN Land(@[p], cells[p - offset + 1], m[p - offset + 1])
                                       ELSE @[p]]]
  BY DEF WriteCells
<1>3. \A t \in Slots : t # s => data'[t] = data[t]
  BY <1>1, <1>2
<1>4. ASSUME NEW p \in Offsets, p < offset PROVE data'[s][p] = data[s][p]
  <2>1. ~(p - offset + 1 \in DOMAIN cells)
    BY <1>4 DEF Offsets
  <2>. QED  BY <1>1, <1>2, <2>1
<1>. QED  BY <1>3, <1>4

\* Data are written into the active segment, behind what is flushed.
LEMMA DataWritten ==
    ASSUME TypeOK, ControlInv, SpaceInv, SequenceInv, BufferInv, ActiveInv, [Next]_vars, ~RotData
    PROVE  \/ data' = data
           \/ /\ Working
              /\ \A t \in Slots : t # active_segment.slot => data'[t] = data[t]
              /\ \A t \in Slots, p \in Offsets :
                    t = active_segment.slot /\ p < FlushedTo => data'[t][p] = data[t][p]
<1>1. CASE UNCHANGED data
  BY <1>1
<1>2. CASE \E o \in Outcomes : Write(o)
  <2>1. PICK o \in Outcomes : Write(o)
    BY <1>2
  <2>2. PICK s \in Slots, g \in Nat : s = active_segment.slot /\ g = active_segment.generation
    BY DEF TypeOK, MemoryTypeOK
  <2>3. CASE At("write_buffer")
    <3>1. WriteBuffer(o)
      BY <2>1, <2>3 DEF Write, WriterWrite, WriteEntry, WriteIndex, WriteFooter, WriteHeader, Commit, At
    <3>2. Working /\ writer_fd = s
      BY <2>2, <2>3, WriterOpen
    <3>3. write_buf # <<>>
      <4>1. Has({"write_buffer"})
        BY <2>3, BehindEntry DEF Has, At
      <4>. QED  BY <4>1 DEF SequenceInv, BufferInv
    <3>4. WriteCells(s, write_buf_offset, write_buf, o)
      BY <3>1, <3>2 DEF WriteBuffer
    <3>5. write_buf_offset \in Nat /\ DOMAIN write_buf = 1 .. Len(write_buf) /\ Len(write_buf) \in Nat /\ MediumTypeOK
      BY DEF TypeOK, MemoryTypeOK
    <3>6. /\ \A t \in Slots : t # s => data'[t] = data[t]
          /\ \A p \in Offsets : p < write_buf_offset => data'[s][p] = data[s][p]
      BY ONLY <2>1, <2>2, <3>4, <3>5, CellsBelow
    <3>. QED  BY <2>2, <3>2, <3>3, <3>6 DEF FlushedTo
  <2>4. CASE At("write_entry")
    <3>1. WriteEntry(o) /\ todo # <<>>
      BY <2>1, <2>4 DEF Write, WriterWrite, WriteBuffer, WriteIndex, WriteFooter, WriteHeader, Commit, At
    <3>2. Working /\ writer_fd = s
      BY <2>2, <2>4, WriterOpen
    <3>3. write_buf = <<>> /\ Arg \in 1 .. Capacity
      BY <2>4, <3>1, BypassEmpty
    <3>4. PICK n \in Nat : n = Arg
      BY <3>3
    <3>5. PICK cells : cells = EntryCells(state.newest_entry_id, g, n)
      OBVIOUS
    <3>6. WriteCells(s, active_write_offset, cells, o)
      BY <2>2, <3>1, <3>2, <3>4, <3>5 DEF WriteEntry
    <3>7. active_write_offset \in Nat /\ DOMAIN cells = 1 .. n /\ MediumTypeOK
      BY <3>5 DEF TypeOK, MemoryTypeOK, EntryCells
    <3>8. /\ \A t \in Slots : t # s => data'[t] = data[t]
          /\ \A p \in Offsets : p < active_write_offset => data'[s][p] = data[s][p]
      BY ONLY <2>1, <2>2, <3>4, <3>5, <3>6, <3>7, CellsBelow
    <3>. QED  BY <2>2, <3>2, <3>3, <3>8 DEF FlushedTo
  <2>5. CASE ~At("write_buffer") /\ ~At("write_entry")
    BY <2>1, <2>5 DEF Write, WriterWrite, WriteBuffer, WriteEntry, WriteIndex, WriteFooter, WriteHeader, Commit
  <2>. QED  BY <2>3, <2>4, <2>5
<1>. QED  BY <1>1, <1>2, BytesWritten

\* What is flushed of the active segment is whole entries on the medium.
LEMMA FlushedTiles ==
    ASSUME TypeOK, SpaceInv, TilesInv, Working, NEW s \in Slots, s = active_segment.slot
    PROVE  /\ FlushedTo \in 0 .. Capacity /\ FlushedTo <= active_write_offset
           /\ Tiled(data[s], active_segment.generation, FlushedTo)
<1>1. /\ write_buf \in Seq(Cell) /\ Len(write_buf) \in Nat /\ Capacity \in Nat /\ data[s] \in Cells
      /\ write_buf_offset \in Nat /\ active_write_offset \in Nat /\ active_write_offset <= Capacity
      /\ active_segment.generation \in Nat
  BY CapacityAssumption DEF TypeOK, MemoryTypeOK, MediumTypeOK, SpaceInv, Cells
<1>2. PICK g \in Nat : g = active_segment.generation
  BY <1>1
<1>3. PICK end \in 0 .. Capacity : end = active_write_offset
  BY <1>1
<1>4. PICK cells \in Cells : cells = Overlay(s)
  BY OverlayNow
<1>5. Tiled(cells, g, end)
  BY <1>2, <1>3, <1>4, TilesNow DEF TilesInv
<1>6. \A o \in Offsets : cells[o] = IF o - write_buf_offset + 1 \in 1 .. Len(write_buf)
                                    THEN write_buf[o - write_buf_offset + 1] ELSE data[s][o]
  BY <1>4, OverlayNow
<1>7. PICK cut \in 0 .. end : cut = FlushedTo /\ (cut = end \/ cells[cut].part = 0)
                              /\ \A o \in 0 .. cut - 1 : data[s][o] = cells[o]
  <2>1. CASE write_buf = <<>>
    <3>1. \A o \in 0 .. end - 1 : data[s][o] = cells[o]
      <4>1. ASSUME NEW o \in 0 .. end - 1 PROVE data[s][o] = cells[o]
        <5>1. o \in Offsets /\ ~(o - write_buf_offset + 1 \in 1 .. Len(write_buf))
          BY <1>1, <2>1 DEF Offsets
        <5>. QED  BY <1>6, <5>1
      <4>. QED  BY <4>1
    <3>2. end \in 0 .. end /\ end = FlushedTo
      BY <1>1, <1>3, <2>1 DEF FlushedTo
    <3>. QED  BY <3>1, <3>2
  <2>2. CASE write_buf # <<>>
    <3>1. write_buf_offset + Len(write_buf) = end /\ write_buf[1].part = 0 /\ Len(write_buf) >= 1
      BY <1>1, <1>3, <2>2 DEF TilesInv, BufferTiles
    <3>2. write_buf_offset \in 0 .. end /\ write_buf_offset \in Offsets
          /\ write_buf_offset - write_buf_offset + 1 = 1 /\ 1 \in 1 .. Len(write_buf)
      BY <1>1, <1>3, <3>1 DEF Offsets
    <3>3. cells[write_buf_offset].part = 0
      BY <1>6, <3>1, <3>2
    <3>4. \A o \in 0 .. write_buf_offset - 1 : data[s][o] = cells[o]
      <4>1. ASSUME NEW o \in 0 .. write_buf_offset - 1 PROVE data[s][o] = cells[o]
        <5>1. o \in Offsets /\ ~(o - write_buf_offset + 1 \in 1 .. Len(write_buf))
          BY <1>1, <3>1 DEF Offsets
        <5>. QED  BY <1>6, <5>1
      <4>. QED  BY <4>1
    <3>. QED  BY <2>2, <3>2, <3>3, <3>4 DEF FlushedTo
  <2>. QED  BY <2>1, <2>2
<1>8. Tiled(cells, g, cut)
  BY <1>5, <1>7, TiledPrefix
<1>9. cut \in Nat /\ cut <= Capacity /\ cut \in 0 .. Capacity /\ cut <= end
  BY <1>1, <1>7
<1>10. Tiled(data[s], g, cut)
  <2>1. \A new : (\A o \in 0 .. cut - 1 : new[o] = cells[o]) => Tiled(new, g, cut)
    BY <1>8, <1>9, TiledSame
  <2>. QED  BY <1>7, <2>1
<1>. QED  BY <1>2, <1>3, <1>7, <1>9, <1>10

\* A scan finds an entry again if no cell of those up to it is touched.
LEMMA ScannedKept ==
    ASSUME MediumTypeOK, NEW s \in Slots, NEW g, NEW cut \in 0 .. Capacity, Tiled(data[s], g, cut),
           \A p \in Offsets : p < cut => data'[s][p] = data[s][p],
           NEW o \in ScannedEntries(s, g), o < cut
    PROVE  o \in ScannedEntries(s, g)' /\ data'[s][o] = data[s][o]
<1>0. PICK R : R = {p \in ScannedEntries(s, g) : p < cut}
  OBVIOUS
<1>1. cut \in Nat /\ Capacity \in Nat /\ data[s] \in Cells /\ \A p \in Offsets : p \in Nat
  BY CapacityAssumption DEF MediumTypeOK, Cells, Offsets
<1>2. R \in SUBSET Offsets /\ o \in R
  BY <1>0, ScannedChain
<1>3. ASSUME NEW p \in R
      PROVE  /\ p \in Nat /\ data[s][p] \in Cell /\ data[s][p].size \in Nat \ {0} /\ data'[s][p] = data[s][p]
             /\ p + data[s][p].size <= cut /\ EntryAt(s, g, p)
  <2>1. EntryAt(s, g, p) /\ p \in Offsets
    BY <1>0, ScannedChain
  <2>2. p \in Nat /\ data[s][p] \in Cell /\ data[s][p].size \in Nat \ {0} /\ data[s][p].part = 0
    BY <2>1, EntryCell
  <2>3. Whole(data[s], g, cut, p)
    BY <1>0, <1>1, <2>2 DEF Tiled
  <2>4. p + data[s][p].size <= cut
    BY <2>2, <2>3 DEF Whole
  <2>. QED  BY <2>1, <2>2, <2>4
<1>4. ASSUME NEW p \in R PROVE EntryAt(s, g, p)'
  <2>1. PICK c \in Cell : c = data[s][p] /\ c = data'[s][p]
    BY <1>3
  <2>2. p \in Nat /\ c.size \in Nat \ {0} /\ p + c.size <= cut /\ EntryAt(s, g, p)
    BY <1>3, <2>1
  <2>3. \A k \in 0 .. c.size - 1 : data'[s][p + k] = data[s][p + k]
    <3>1. ASSUME NEW k \in 0 .. c.size - 1 PROVE data'[s][p + k] = data[s][p + k]
      <4>1. p + k \in Offsets /\ p + k < cut
        BY <1>1, <2>2 DEF Offsets
      <4>. QED  BY <4>1
    <3>. QED  BY <3>1
  <2>. QED  BY <2>1, <2>2, <2>3 DEF EntryAt
<1>5. ASSUME NEW p \in R \ {0} PROVE \E q \in R : Follows(s, q, p)'
  <2>1. PICK q \in ScannedEntries(s, g) : Follows(s, q, p)
    BY <1>0, ScannedChain
  <2>2. q \in Nat /\ data[s][q].size \in Nat \ {0}
    <3>1. EntryAt(s, g, q) /\ q \in Offsets
      BY ScannedChain
    <3>. QED  BY <3>1, EntryCell
  <2>3. p \in Nat /\ q + data[s][q].size = p /\ p < cut
    BY <1>3, <2>1 DEF Follows
  <2>4. q \in R
    BY <1>0, <1>1, <2>2, <2>3
  <2>. QED  BY <1>3, <2>1, <2>4 DEF Follows
<1>6. R \subseteq ScannedEntries(s, g)'
  <2>1. R \in SUBSET {p \in Offsets : EntryAt(s, g, p)'} /\ IsChain(s, R)'
    BY <1>2, <1>4, <1>5 DEF IsChain
  <2>. QED  BY <2>1 DEF ScannedEntries
<1>. QED  BY <1>2, <1>3, <1>6

\* The entries reported durable of the active segment are flushed.
LEMMA HeldActive ==
    ASSUME TypeOK, GenerationInv, ActiveInv, Working, NEW a, a.generation \in Nat \ {0}, OnRing(a),
           NEW s \in Slots, s = Home(a.generation), s = active_segment.slot
    PROVE  a.generation = active_segment.generation
  BY DEF OnRing, ActiveInv

\* Where it is held, an entry reported durable stays.
LEMMA HeldData ==
    ASSUME TypeOK, ControlInv, SpaceInv, GenerationInv, SequenceInv, BufferInv, ActiveInv, TilesInv, [Next]_vars,
           ~RotData, NEW a, a.generation \in Nat \ {0}, OnRing(a), NEW s \in Slots,
           s = Home(a.generation), NEW o \in Offsets, Held(a, o)
    PROVE  o \in ScannedEntries(s, a.generation)' /\ data'[s][o].id = a.id
<1>1. PICK g \in Nat \ {0} : g = a.generation
  OBVIOUS
<1>2. o \in ScannedEntries(s, g) /\ data[s][o].id = a.id
  BY <1>1 DEF Held
<1>3. CASE data'[s] = data[s]
  <2>1. ScannedEntries(s, g)' = ScannedEntries(s, g)
    BY <1>3 DEF ScannedEntries, EntryAt, IsChain, Follows
  <2>. QED  BY <1>1, <1>2, <1>3, <2>1
<1>4. CASE data'[s] # data[s]
  <2>1. /\ Working /\ s = active_segment.slot
        /\ \A p \in Offsets : p < FlushedTo => data'[s][p] = data[s][p]
    BY <1>4, DataWritten
  <2>2. g = active_segment.generation
    BY <1>1, <2>1, HeldActive
  <2>3. o < FlushedTo
    BY <1>1, <2>1, <2>2 DEF Held
  <2>4. PICK cut \in 0 .. Capacity : cut = FlushedTo /\ Tiled(data[s], g, cut)
    BY <2>1, <2>2, FlushedTiles
  <2>5. MediumTypeOK
    BY DEF TypeOK
  <2>6. o \in ScannedEntries(s, g)' /\ data'[s][o] = data[s][o]
    BY ONLY <1>2, <2>1, <2>3, <2>4, <2>5, s \in Slots, ScannedKept
  <2>. QED  BY <1>1, <1>2, <2>6
<1>. QED  BY <1>3, <1>4

\* A footer that is written covers it.
LEMMA HeldFooter ==
    ASSUME TypeOK, ControlInv, SpaceInv, GenerationInv, SequenceInv, BufferInv, ActiveInv, TilesInv, [Next]_vars,
           NEW a, a.generation \in Nat \ {0}, OnRing(a), NEW s \in Slots,
           s = Home(a.generation), NEW o \in Offsets, Held(a, o),
           NEW c \in Copies, FooterValid(s, a.generation, c)'
    PROVE  o < footers'[s][c].data_end
<1>1. CASE footers'[s][c] = footers[s][c]
  <2>1. FooterValid(s, a.generation, c)
    BY <1>1 DEF FooterValid
  <2>. QED  BY <1>1, <2>1 DEF Held
<1>2. CASE footers'[s][c] # footers[s][c]
  <2>1. Working /\ s = active_segment.slot /\ footers'[s][c] \in {Garbage, ActiveFooter}
    BY <1>2, FootersWritten
  <2>2. footers'[s][c] = ActiveFooter
    BY <2>1 DEF FooterValid
  <2>3. a.generation = active_segment.generation
    BY <2>1, HeldActive
  <2>4. o < FlushedTo
    BY <2>1, <2>3 DEF Held
  <2>5. FlushedTo \in 0 .. Capacity /\ FlushedTo <= active_write_offset
    BY <2>1, FlushedTiles
  <2>6. footers'[s][c].data_end = active_write_offset
    BY <2>1, <2>2 DEF ActiveFooter, ActiveInv
  <2>7. active_write_offset \in Nat /\ o \in Nat
    BY DEF TypeOK, MemoryTypeOK, Offsets
  <2>. QED  BY ONLY <2>4, <2>5, <2>6, <2>7
<1>. QED  BY <1>1, <1>2

\* What is flushed stays flushed.
LEMMA FlushedGrows ==
    ASSUME TypeOK, TypeOK', ControlInv, SpaceInv, TilesInv, Working, Operations \/ Plain \/ NoEntry, ~At("retire"),
           mode' # "off"
    PROVE  FlushedTo \in Nat /\ FlushedTo' \in Nat /\ FlushedTo <= FlushedTo'
<1>1. /\ write_buf_offset \in Nat /\ active_write_offset \in Nat
      /\ write_buf_offset' \in Nat /\ active_write_offset' \in Nat
      /\ write_buf \in Seq(Cell) /\ Len(write_buf) \in Nat
  BY DEF TypeOK, MemoryTypeOK
<1>. SUFFICES FlushedTo <= FlushedTo'
  BY <1>1 DEF FlushedTo
<1>2. CASE Flushed
  <2>1. FlushedTo' = active_write_offset
    BY <1>2 DEF Flushed, FlushedTo
  <2>2. FlushedTo <= active_write_offset
    BY FlushedTiles DEF TypeOK, MemoryTypeOK
  <2>. QED  BY <2>1, <2>2
<1>3. CASE PutEntry
  <2>1. write_buf' # <<>>
    <3>1. PICK n \in 1 .. Capacity : n = Arg
      BY <1>3, ArgType DEF PutEntry, At, TypeOK
    <3>2. PICK id \in Nat, g \in Nat : id = NewEntryId /\ g = active_segment.generation
      BY NewEntryIdType DEF TypeOK, MemoryTypeOK
    <3>3. PICK cells \in Seq(Cell) : cells = EntryCells(id, g, n) /\ Len(cells) = n
      BY EntryCellsValue
    <3>4. write_buf' = write_buf \o cells
      BY <1>3, <3>1, <3>2, <3>3 DEF PutEntry
    <3>5. Len(write_buf') = Len(write_buf) + n
      <4>1. \A p, q \in Seq(Cell) : Len(p \o q) = Len(p) + Len(q)
        OBVIOUS
      <4>. QED  BY ONLY <1>1, <3>3, <3>4, <4>1
    <3>. QED  BY <1>1, <3>5
  <2>2. FlushedTo' = FlushedTo
    BY <1>3, <2>1 DEF PutEntry, FlushedTo
  <2>. QED  BY <1>1, <2>2 DEF FlushedTo
<1>4. CASE AccountEntry
  <2>1. write_buf' = write_buf /\ write_buf_offset' = write_buf_offset
        /\ active_write_offset' = active_write_offset + Arg /\ Arg \in Nat
    BY <1>4, ArgType DEF AccountEntry, Account, At, TypeOK
  <2>. QED  BY <1>1, <2>1 DEF FlushedTo
<1>5. CASE (Operations \/ Plain \/ NoEntry) /\ ~Flushed /\ ~PutEntry /\ ~AccountEntry
  <2>1. UNCHANGED <<write_buf, write_buf_offset, active_write_offset>>
    <3>1. CASE Operations
      BY <3>1 DEF Operations, AppendEntry, FlushWrite, Deinit, memory
    <3>2. CASE NoEntry \/ CountBoot
      BY <3>2 DEF NoEntry, CountBoot, Fail, Reset, SetState, memory
    <3>3. CASE Plain /\ ~CountBoot /\ ~Flushed /\ ~PutEntry /\ ~AccountEntry
      BY <3>3 DEF Plain, WriteDone, OpenWriter, ReserveEntry, Acknowledge, Sealed, Settle,
                  Flush, PrepareSpace, Retire, AppendBoot, Ready, SetState, memory
    <3>. QED  BY <1>5, <3>1, <3>2, <3>3
  <2>. QED  BY <1>1, <2>1 DEF FlushedTo
<1>. QED  BY <1>2, <1>3, <1>4, <1>5

\* An entry reported durable is in the flushed part of the active segment.
LEMMA HeldWorking ==
    ASSUME TypeOK, TypeOK', ControlInv, SpaceInv, IdInv, RotationInv, GenerationInv, RetirementInv, SequenceInv,
           SequenceInv', BufferInv, ActiveInv, TilesInv, [Next]_vars, "io" \notin Faults,
           NEW a, a.generation \in Nat \ {0}, OnRing(a), NEW s \in Slots, s = Home(a.generation),
           NEW o \in Offsets, Held(a, o), Working', a.generation = active_segment'.generation
    PROVE  o < FlushedTo'
<1>1. PICK g \in Nat \ {0} : g = a.generation
  OBVIOUS
<1>2. o \in ScannedEntries(s, g) /\ o \in Nat /\ mode' # "off"
  BY <1>1 DEF Held, Offsets, Working
<1>3. CASE UNCHANGED vars
  <2>1. UNCHANGED <<mode, todo, active_segment, write_buf, write_buf_offset, active_write_offset>>
    BY <1>3 DEF vars, memory, control
  <2>2. Working /\ FlushedTo' = FlushedTo
    BY <2>1 DEF Working, Has, Pending, FlushedTo
  <2>. QED  BY <2>1, <2>2 DEF Held
<1>4. CASE Working /\ ~At("retire") /\ ~At("header") /\ (Operations \/ Plain \/ NoEntry)
  <2>1. active_segment' = active_segment
    BY <1>4, ActiveCarried
  <2>2. o < FlushedTo
    BY <1>4, <2>1 DEF Held
  <2>3. FlushedTo \in Nat /\ FlushedTo' \in Nat /\ FlushedTo <= FlushedTo'
    BY <1>2, <1>4, FlushedGrows
  <2>. QED  BY ONLY <1>2, <2>2, <2>3
<1>5. CASE Recover \/ SealRecovered \/ SelectActive
  <2>1. PICK t \in Slots, h \in Nat \ {0} :
            HeaderReadable(t) /\ HeaderGeneration(t) = h /\ Adopt(t, h) /\ write_buf' = <<>>
    BY <1>5, Adopts
  <2>2. h = g /\ active_write_offset' = Scan(t, g, TRUE).data_end
    BY <1>1, <2>1 DEF Adopt
  <2>3. t = s
    <3>1. h \in HeaderGenerations(t)
      BY <2>1, HeaderHighest DEF TypeOK
    <3>2. \E n : Upcoming(n)
      BY DEF GenerationInv, Chosen
    <3>3. Home(h) = t
      BY <2>1, <3>1, <3>2, HeaderHome
    <3>. QED  BY <1>1, <2>2, <3>3
  <2>4. MediumTypeOK
    BY DEF TypeOK
  <2>5. PICK end : end = Scan(s, g, TRUE).data_end
    OBVIOUS
  <2>6. data[s][o].size \in Nat \ {0}
    <3>1. EntryAt(s, g, o)
      BY <1>2, ScannedChain
    <3>. QED  BY <2>4, <3>1, EntryCell
  <2>7. end \in 0 .. Capacity /\ o + data[s][o].size <= end
    BY <1>2, <2>4, <2>5, ScanReach
  <2>8. FlushedTo' = end
    BY <2>1, <2>2, <2>3, <2>5 DEF FlushedTo
  <2>9. PICK size \in Nat \ {0} : size = data[s][o].size
    BY <2>6
  <2>10. o + size <= end /\ end \in Nat
    BY <2>7, <2>9, CapacityAssumption
  <2>. QED  BY ONLY <1>2, <2>8, <2>9, <2>10
<1>6. CASE Activate
  <2>1. active_segment'.generation = state.next_generation
    BY <1>6 DEF Activate
  <2>2. todo # <<>> /\ At("activate") /\ Pending = {Head(todo)} \cup Rest
    BY <1>6, Activates
  <2>3. ~Has({"highest"}) /\ ~Has({"select"}) /\ mode # "off"
    BY <2>2 DEF RotationInv, ControlInv, Has, At
  <2>4. ~Choosing
    BY <2>3 DEF Choosing
  <2>5. segments[s].valid /\ segments[s].generation = g
    BY <1>1, <2>3, <2>4 DEF OnRing
  <2>6. g < state.next_generation /\ state.next_generation \in Nat
    BY <2>4, <2>5, NextHome DEF GenerationInv, Chosen, ValidSlots
  <2>. QED  BY <1>1, <2>1, <2>6
<1>. QED  BY <1>3, <1>4, <1>5, <1>6, WorkingKept

\* An entry that starts in what is flushed of the active segment is found there.
LEMMA HeldStart ==
    ASSUME TypeOK, TypeOK', GenerationInv, ActiveInv, Working, UNCHANGED medium, mode' # "off",
           ~HasFooter(active_segment.slot, active_segment.generation),
           NEW s \in Slots, s = active_segment.slot, NEW g \in Nat \ {0}, g = active_segment.generation,
           NEW end \in 0 .. Capacity, end = active_write_offset, Tiled(data[s], g, end),
           FlushedTo' = end, NEW p \in 0 .. end - 1, NEW a, a.generation = g, a.id = data[s][p].id
    PROVE  \E o \in Offsets : Held(a, o)'
<1>1. MediumTypeOK /\ data[s] \in Cells /\ Capacity \in Nat
  BY CapacityAssumption DEF TypeOK, MediumTypeOK, Cells
<1>2. PICK c \in Cell, o \in 0 .. p :
         /\ c = data[s][p] /\ o = p - c.part /\ data[s][o] = [c EXCEPT !.part = 0]
  <2>1. PICK cells \in Cells : cells = data[s]
    BY <1>1
  <2>2. Tiled(cells, g, end)
    BY <2>1
  <2>3. /\ cells[p] \in Cell /\ p - cells[p].part \in 0 .. p
        /\ cells[p - cells[p].part] = [cells[p] EXCEPT !.part = 0]
    BY ONLY <2>2, end \in 0 .. Capacity, p \in 0 .. end - 1, cells \in Cells, WholeStart
  <2>. QED  BY <2>1, <2>3
<1>3. data[s][o].part = 0 /\ data[s][o].id = c.id
  BY <1>2 DEF Cell
<1>4. o \in 0 .. end - 1 /\ o \in Offsets /\ o < end
  BY <1>1, <1>2 DEF Offsets
<1>5. o \in ScannedEntries(s, g)
  BY <1>1, <1>3, <1>4, TiledScanned
<1>6. Home(g) = s
  BY ActiveHome
<1>7. data' = data /\ footers' = footers
  BY DEF medium
<1>8. ScannedEntries(s, g)' = ScannedEntries(s, g)
  BY <1>7 DEF ScannedEntries, EntryAt, IsChain, Follows
<1>9. \A k \in Copies : ~FooterValid(s, g, k)'
  BY <1>7 DEF HasFooter, FooterValid
<1>10. Held(a, o)'
  <2>1. o \in ScannedEntries(s, g)' /\ data'[s][o].id = a.id
    BY <1>2, <1>3, <1>5, <1>7, <1>8
  <2>2. o < FlushedTo'
    BY <1>4
  <2>. QED  BY <1>6, <1>9, <2>1, <2>2 DEF Held
<1>. QED  BY <1>4, <1>10

\* What a flush reports durable is held.
LEMMA HeldFlushed ==
    ASSUME TypeOK, TypeOK', ControlInv, SpaceInv, GenerationInv, BufferInv, ActiveInv, TilesInv, SealInv,
           Working, Flushed, NEW k \in DOMAIN write_buf, NEW a, a = Mark(write_buf[k])
    PROVE  \E o \in Offsets : Held(a, o)'
<1>1. todo # <<>> /\ At("flushed") /\ Has({"flushed"})
  <2>1. todo # <<>> /\ At("flushed") /\ Pending = {Head(todo)} \cup Rest
    BY NextPending, BehindEntry DEF Flushed, At
  <2>. QED  BY <2>1 DEF Has, At
<1>2. PICK s \in Slots, g \in Nat \ {0} : s = active_segment.slot /\ g = active_segment.generation
  BY ActiveHome
<1>3. PICK end \in 0 .. Capacity : end = active_write_offset
  BY CapacityAssumption DEF TypeOK, MemoryTypeOK, SpaceInv
<1>4. ~Has({"write_buffer"})
  BY <1>1, BehindData, BehindEntry DEF Has, At
<1>5. \A j \in DOMAIN write_buf : data[s][write_buf_offset + j - 1] = write_buf[j]
  BY <1>1, <1>2, <1>4, TilesNow DEF TilesInv, Underway
<1>6. /\ write_buf # <<>> /\ write_buf_offset \in Nat /\ write_buf \in Seq(Cell) /\ Len(write_buf) \in Nat
      /\ DOMAIN write_buf = 1 .. Len(write_buf) /\ data[s] \in Cells
  BY <1>1 DEF BufferInv, TypeOK, MemoryTypeOK, MediumTypeOK, Cells
<1>7. PICK cells \in Cells : cells = Overlay(s)
  BY <1>2, OverlayNow
<1>8. Tiled(cells, g, end)
  BY <1>2, <1>3, <1>7, TilesNow DEF TilesInv
<1>9. \A o \in 0 .. end - 1 : data[s][o] = cells[o]
  <2>1. ASSUME NEW o \in 0 .. end - 1 PROVE data[s][o] = cells[o]
    <3>1. o \in Offsets
      BY CapacityAssumption DEF Offsets
    <3>2. cells[o] = IF o - write_buf_offset + 1 \in 1 .. Len(write_buf)
                     THEN write_buf[o - write_buf_offset + 1] ELSE data[s][o]
      BY <1>2, <1>7, <3>1, OverlayNow
    <3>3. CASE o - write_buf_offset + 1 \in 1 .. Len(write_buf)
      <4>1. PICK j \in DOMAIN write_buf : j = o - write_buf_offset + 1
        BY <1>6, <3>3
      <4>2. write_buf_offset + j - 1 = o
        BY <1>6, <4>1
      <4>. QED  BY <1>5, <3>2, <3>3, <4>1, <4>2
    <3>. QED  BY <3>2, <3>3
  <2>. QED  BY <2>1
<1>10. Tiled(data[s], g, end)
  <2>1. end \in Nat /\ end <= Capacity
    BY <1>3, CapacityAssumption
  <2>2. \A new : (\A o \in 0 .. end - 1 : new[o] = cells[o]) => Tiled(new, g, end)
    BY <1>8, <2>1, TiledSame
  <2>. QED  BY <1>9, <2>2
<1>11. PICK p \in 0 .. end - 1 : p = write_buf_offset + k - 1
  BY <1>2, <1>3, BufferSeen
<1>12. a.id = data[s][p].id /\ a.generation = g
  BY <1>2, <1>5, <1>11, BufferSeen DEF Mark
<1>13. ~HasFooter(active_segment.slot, active_segment.generation)
  BY <1>6 DEF SealInv, SealActive
<1>14. FlushedTo' = end /\ UNCHANGED medium /\ mode' # "off"
  BY <1>3 DEF Flushed, FlushedTo, Working
<1>. QED  BY <1>2, <1>3, <1>10, <1>11, <1>12, <1>13, <1>14, HeldStart

\* What an append that waits for its entry reports durable is held.
LEMMA HeldAcknowledged ==
    ASSUME TypeOK, TypeOK', ControlInv, SpaceInv, GenerationInv, SequenceInv, BufferInv, ActiveInv, TilesInv, SealInv,
           Working, Acknowledge, NEW a, a = [id |-> state.newest_entry_id, generation |-> active_segment.generation]
    PROVE  \E o \in Offsets : Held(a, o)'
<1>1. todo # <<>> /\ At("acknowledge") /\ Has({"acknowledge"}) /\ Pending = {Head(todo)} \cup Rest
  <2>1. todo # <<>> /\ At("acknowledge") /\ Pending = {Head(todo)} \cup Rest
    BY NextPending, BehindEntry DEF Acknowledge, At
  <2>. QED  BY <2>1 DEF Has, At
<1>2. PICK s \in Slots, g \in Nat \ {0} : s = active_segment.slot /\ g = active_segment.generation
  BY ActiveHome
<1>3. PICK end \in 0 .. Capacity : end = active_write_offset
  BY CapacityAssumption DEF TypeOK, MemoryTypeOK, SpaceInv
<1>4. ~Has({"account"}) /\ ~Has({"write_entry"})
  BY <1>1, BehindAppend DEF Has, At, Bypass
<1>5. write_buf = <<>>
  BY <1>1, <1>4 DEF BufferInv
<1>6. end > 0 /\ data[s][end - 1].id = state.newest_entry_id
  BY <1>1, <1>2, <1>3, <1>4 DEF TilesInv, AccountedTiles, Underway
<1>7. FlushedTo = end /\ Tiled(data[s], g, end)
  <2>1. FlushedTo = end
    BY <1>3, <1>5 DEF FlushedTo
  <2>. QED  BY <1>2, <2>1, FlushedTiles
<1>8. ~Has(Sealing)
  <2>1. \A y \in Rest : y[1] \notin Sealing
    BY <1>1, BehindData DEF Bypass
  <2>. QED  BY <1>1, <2>1 DEF Has, At, Sealing
<1>9. ~HasFooter(active_segment.slot, active_segment.generation)
  BY <1>8 DEF SealInv, SealActive
<1>10. FlushedTo' = end /\ UNCHANGED medium /\ mode' # "off"
  BY <1>3, <1>5 DEF Acknowledge, FlushedTo, Working, memory
<1>11. end - 1 \in 0 .. end - 1
  BY <1>6
<1>. QED  BY <1>2, <1>3, <1>6, <1>7, <1>9, <1>10, <1>11, HeldStart

\* Each step keeps every entry reported durable where a recovery finds it.
LEMMA NextAcked ==
    ASSUME "io" \notin Faults, "data" \notin Faults
    PROVE  TypeOK /\ TypeOK' /\ ControlInv /\ SpaceInv /\ IdInv /\ RotationInv /\ GenerationInv /\ RetirementInv
               /\ SequenceInv /\ SequenceInv' /\ BufferInv /\ ActiveInv /\ TilesInv /\ KeptInv /\ SealInv
               /\ AckedInv /\ [Next]_vars => AckedInv'
<1>. SUFFICES ASSUME TypeOK, TypeOK', ControlInv, SpaceInv, IdInv, RotationInv, GenerationInv, RetirementInv,
                     SequenceInv, SequenceInv', BufferInv, ActiveInv, TilesInv, KeptInv, SealInv, AckedInv,
                     [Next]_vars, NEW a \in acked'
              PROVE  \E o \in Offsets : Held(a, o)'
  BY DEF AckedInv
<1>1. CASE a \in acked
  <2>1. OnRing(a) /\ a.generation \in Nat \ {0}
    BY <1>1 DEF KeptInv, OnRing, TypeOK
  <2>2. PICK s \in Slots : s = Home(a.generation)
    BY <2>1, HomeType
  <2>3. PICK o \in Offsets : Held(a, o)
    BY <1>1 DEF AckedInv
  <2>4. o \in ScannedEntries(s, a.generation)' /\ data'[s][o].id = a.id
    <3>1. ~RotData
      BY DEF RotData, Fault
    <3>. QED  BY <2>1, <2>2, <2>3, <3>1, HeldData
  <2>5. \A c \in Copies : FooterValid(s, a.generation, c)' => o < footers'[s][c].data_end
    BY <2>1, <2>2, <2>3, HeldFooter
  <2>6. Working' /\ a.generation = active_segment'.generation => o < FlushedTo'
    BY <2>1, <2>2, <2>3, HeldWorking
  <2>7. Held(a, o)'
    BY <2>2, <2>4, <2>5, <2>6 DEF Held
  <2>. QED  BY <2>7
<1>2. CASE a \notin acked
  <2>1. Working
    BY <1>2, AckedActive
  <2>. QED  BY <1>2, <2>1, AckedGrows, HeldFlushed, HeldAcknowledged
<1>. QED  BY <1>1, <1>2

\* An entry that is held on the ring is one that a recovery finds.
LEMMA HeldRecoverable ==
    TypeOK /\ KeptInv /\ AckedInv => AckedDurable
<1>. SUFFICES ASSUME TypeOK, KeptInv, AckedInv, NEW a \in acked
              PROVE  \E s \in Slots : a.id \in RecoverableIds(s) /\ HeaderGeneration(s) = a.generation
  BY DEF AckedDurable
<1>1. OnRing(a) /\ a.generation \in Nat \ {0}
  BY DEF KeptInv, OnRing, TypeOK
<1>2. PICK s \in Slots : s = Home(a.generation)
  BY <1>1, HomeType
<1>3. PICK o \in Offsets : Held(a, o)
  BY DEF AckedInv
<1>4. HeaderReadable(s) /\ HeaderGeneration(s) = a.generation /\ a.generation >= checkpoint.oldest_generation
  BY <1>1, <1>2 DEF OnRing
<1>5. Live(s)
  BY <1>1, <1>4 DEF Live
<1>6. o \in ScannedEntries(s, a.generation) /\ data[s][o].id = a.id
  BY <1>2, <1>3 DEF Held
<1>7. HasFooter(s, a.generation) => o < Footer(s, a.generation).data_end
  <2>1. \A c \in Copies : FooterValid(s, a.generation, c) => o < footers[s][c].data_end
    BY <1>2, <1>3 DEF Held
  <2>2. HasFooter(s, a.generation) =>
           \E c \in Copies : FooterValid(s, a.generation, c) /\ Footer(s, a.generation) = footers[s][c]
    BY DEF HasFooter, Footer, Copies
  <2>. QED  BY <2>1, <2>2
<1>8. o \in Recoverable(s)
  BY <1>4, <1>5, <1>6, <1>7 DEF Recoverable
<1>. QED  BY <1>4, <1>6, <1>8 DEF RecoverableIds

\* A store that is off, with nothing pending and nothing reported, meets the invariants.
LEMMA InitDurability ==
    Init => /\ SequenceInv /\ AppendInv /\ BufferInv /\ ActiveInv /\ TilesInv
            /\ SealInv /\ KeptInv /\ AckedInv
<1>. SUFFICES ASSUME Init
              PROVE  /\ SequenceInv /\ AppendInv /\ BufferInv /\ ActiveInv /\ TilesInv
                     /\ SealInv /\ KeptInv /\ AckedInv
  OBVIOUS
<1>1. mode = "off" /\ todo = <<>> /\ acked = {} /\ write_buf = <<>>
  BY DEF Init
<1>2. Pending = {}
  BY <1>1 DEF Pending, StepsOf
<1>3. \A names : ~Has(names)
  BY <1>2 DEF Has
<1>4. SequenceInv /\ AppendInv /\ BufferInv
  BY <1>1, <1>3 DEF SequenceInv, AppendInv, BufferInv
<1>5. ~Working /\ Choosing
  BY <1>1 DEF Working, Choosing
<1>6. ActiveInv /\ TilesInv /\ SealActive
  BY <1>3, <1>5 DEF ActiveInv, TilesInv, SealActive
<1>7. SealSequence /\ SealRecovery
  BY <1>3 DEF SealSequence, SealRecovery
<1>8. SealNumbers
  <2>1. PICK s \in Slots : \E g \in HeaderGenerations(s) : Upcoming(g + 1)
    BY <1>5, InitGeneration DEF GenerationInv
  <2>2. \A t \in Slots, c \in Copies : footers[t][c] = Garbage
    BY DEF Init
  <2>3. \A g : FootersUpTo(g)
    BY <2>2 DEF FootersUpTo
  <2>. QED  BY <1>5, <2>1, <2>3 DEF SealNumbers
<1>9. KeptInv /\ AckedInv
  BY <1>1 DEF KeptInv, AckedInv
<1>. QED  BY <1>4, <1>6, <1>7, <1>8, <1>9 DEF SealInv

\* An entry that was reported durable stays where a recovery finds it until its
\* segment is retired, as long as no write fails and no bit of the data rots
\* (flush_unsafe, entry.cpp:286, recover_segment_contents, segment.cpp:501).
THEOREM DurabilityCorrect ==
    ASSUME "io" \notin Faults, "data" \notin Faults
    PROVE  Spec => []AckedDurable
<1>. DEFINE Inv == /\ TypeOK /\ ControlInv /\ SpaceInv /\ IdInv /\ RotationInv /\ GenerationInv /\ RetirementInv
                   /\ SequenceInv /\ AppendInv /\ BufferInv /\ ActiveInv /\ TilesInv
                   /\ SealInv /\ KeptInv /\ AckedInv
<1>1. Init => Inv
  BY InitType, InitSpace, InitIds, InitGeneration, InitRetirement, InitDurability
<1>2. Inv /\ [Next]_vars => Inv'
  <2>. SUFFICES ASSUME Inv, [Next]_vars PROVE Inv'
    OBVIOUS
  <2>1. TypeOK' /\ ControlInv' /\ SpaceInv' /\ IdInv' /\ RotationInv' /\ GenerationInv' /\ RetirementInv'
    BY NextType, NextSpace, NextIds, NextRotation, NextGeneration, NextRetirement
  <2>2. SequenceInv' /\ BufferInv'
    BY <2>1, NextBuffer
  <2>3. AppendInv' /\ ActiveInv'
    BY <2>1, <2>2, NextAppend, NextActive
  <2>4. TilesInv'
    BY <2>1, <2>2, NextTiles
  <2>5. KeptInv'
    BY <2>1, NextKept
  <2>6. SealInv'
    BY <2>1, <2>2, NextSeal
  <2>7. AckedInv'
    BY <2>1, <2>2, NextAcked
  <2>. QED  BY <2>1, <2>2, <2>3, <2>4, <2>5, <2>6, <2>7
<1>3. Inv => AckedDurable
  BY HeldRecoverable
<1>. HIDE DEF Inv
<1>. QED  BY <1>1, <1>2, <1>3, PTL DEF Spec

-----------------------------------------------------------------------------
(* What descriptors and footers cover.                                     *)

\* Min is a bound.
LEMMA MinBound ==
    ASSUME NEW S \in SUBSET Nat, S # {}
    PROVE  Min(S) \in S /\ \A y \in S : Min(S) <= y
<1>1. PICK x \in S : \A y \in S : x <= y
  BY LeastNatural
<1>. QED  BY <1>1 DEF Min

\* The descriptor of a scan covers each entry that the scan finds.
LEMMA ScanCovers ==
    ASSUME MediumTypeOK, NEW s \in Slots, NEW g, NEW b, NEW o \in ScannedEntries(s, g)
    PROVE  Covers(Scan(s, g, b), data[s][o].id)
<1>. DEFINE R == ScannedEntries(s, g)
<1>1. R \in SUBSET Nat /\ IsFiniteSet(R) /\ R # {}
      /\ \A x \in R : x \in Nat /\ data[s][x].id \in Nat
  <2>1. R \in SUBSET Offsets /\ IsFiniteSet(R) /\ \A x \in R : EntryAt(s, g, x)
    BY ScannedType, ScannedChain
  <2>2. R \in SUBSET Nat
    BY <2>1 DEF Offsets
  <2>. QED  BY <2>1, <2>2, EntryCell
<1>2. Max(R) \in R /\ \A x \in R : x <= Max(R)
  BY <1>1, MaxBound
<1>3. Min(R) \in R /\ \A x \in R : Min(R) <= x
  BY <1>1, MinBound
<1>4. Cardinality(R) # 0
  BY <1>1, FS_EmptySet
<1>5. data[s][Min(R)].id <= data[s][o].id
  <2>1. CASE Min(R) < o
    BY <1>1, <1>3, <2>1, ScannedOrder
  <2>. QED  BY <1>1, <1>3, <2>1
<1>6. data[s][o].id <= data[s][Max(R)].id
  <2>1. CASE o < Max(R)
    BY <1>1, <1>2, <2>1, ScannedOrder
  <2>. QED  BY <1>1, <1>2, <2>1
<1>7. /\ Scan(s, g, b).entry_count = Cardinality(R)
      /\ Scan(s, g, b).first_entry_id = data[s][Min(R)].id
      /\ Scan(s, g, b).last_entry_id = data[s][Max(R)].id
  BY <1>1 DEF Scan
<1>. QED  BY <1>4, <1>5, <1>6, <1>7 DEF Covers

\* Whatever lies before the end of an entry that a scan finds, the scan has found.
LEMMA ScannedPrefix ==
    ASSUME MediumTypeOK, NEW s \in Slots, NEW g, NEW e \in ScannedEntries(s, g),
           NEW o \in Offsets, o < e + data[s][e].size, data[s][o] # Garbage => data[s][o].part = 0
    PROVE  o \in ScannedEntries(s, g)
<1>. DEFINE R == ScannedEntries(s, g)
<1>1. /\ R \in SUBSET Nat /\ o \in Nat
      /\ \A x \in R : /\ x \in Nat /\ data[s][x] \in Cell /\ data[s][x].size \in Nat \ {0}
                      /\ EntryAt(s, g, x) /\ x + data[s][x].size <= Capacity
  <2>1. R \in SUBSET Offsets /\ \A x \in R : EntryAt(s, g, x)
    BY ScannedChain
  <2>2. R \in SUBSET Nat /\ o \in Nat
    BY <2>1 DEF Offsets
  <2>. QED  BY <2>1, <2>2, EntryCell
<1>2. PICK r \in R : r <= o /\ o < r + data[s][r].size
  <2>1. CASE e <= o
    BY <2>1
  <2>2. CASE o < e
    <3>. DEFINE G == {x \in R : x > o}
    <3>1. PICK x \in G : \A y \in G : x <= y
      <4>1. G \in SUBSET Nat /\ e \in G
        BY <1>1, <2>2
      <4>. HIDE DEF G
      <4>. QED  BY <4>1, LeastNatural
    <3>2. PICK r \in R : r + data[s][r].size = x
      <4>1. x # 0
        BY <1>1
      <4>2. PICK r \in R : Follows(s, r, x)
        BY <4>1, ScannedChain
      <4>. QED  BY <4>2 DEF Follows
    <3>3. r \in Nat /\ data[s][r].size \in Nat \ {0} /\ x \in Nat
      BY <1>1, <3>2
    <3>4. r < x /\ ~(r > o)
      BY <1>1, <3>1, <3>2, <3>3
    <3>. QED  BY <1>1, <3>1, <3>2, <3>3, <3>4
  <2>. QED  BY <1>1, <2>1, <2>2
<1>3. PICK c \in Cell : c = data[s][r] /\ c.size \in Nat \ {0}
  BY <1>1, <1>2
<1>4. r \in Nat /\ o \in Nat /\ r <= o /\ o < r + c.size
  BY <1>1, <1>2, <1>3
<1>5. PICK k \in 0 .. c.size - 1 : r + k = o
  <2>1. o - r \in 0 .. c.size - 1 /\ r + (o - r) = o
    BY ONLY <1>3, <1>4
  <2>. QED  BY <2>1
<1>6. data[s][o] = [c EXCEPT !.part = k]
  <2>1. EntryAt(s, g, r)
    BY <1>1
  <2>. QED  BY <1>3, <1>5, <2>1 DEF EntryAt
<1>7. data[s][o].part = k /\ data[s][o] # Garbage
  BY <1>3, <1>6, GarbageCellAssumption DEF Cell
<1>8. k = 0
  BY <1>7
<1>9. r = o
  BY <1>4, <1>5, <1>8
<1>. QED  BY <1>2, <1>9

\* An entry that was placed below the end of a footer is found by the check of the
\* sealed prefix that precedes a repair.
LEMMA RepairFinds ==
    ASSUME TypeOK, NEW a, NEW o \in Offsets, Placed(a, o), NEW s \in Slots, s = Home(a.generation),
           HasFooter(s, a.generation), SealedPrefixIntact(s, a.generation, Footer(s, a.generation))
    PROVE  o \in ScannedEntries(s, a.generation) /\ data[s][o].id = a.id
<1>1. PICK c \in Copies : footers[s][c] = Footer(s, a.generation) /\ FooterValid(s, a.generation, c)
  BY DEF HasFooter, Footer, Copies
<1>2. PICK f : f = Footer(s, a.generation)
  OBVIOUS
<1>3. o < f.data_end
  BY <1>1, <1>2 DEF Placed
<1>4. o \in Nat
  BY DEF Offsets
<1>5. f.entry_count # 0
  <2>1. f.entry_count = 0 => f.data_end = 0
    BY <1>1, <1>2 DEF FooterValid
  <2>. QED  BY <1>3, <1>4, <2>1
<1>6. PICK e \in ScannedEntries(s, a.generation) : e + data[s][e].size = f.data_end
  BY <1>2, <1>5 DEF SealedPrefixIntact
<1>7. MediumTypeOK /\ (data[s][o] # Garbage => data[s][o].part = 0)
  BY DEF TypeOK, Placed
<1>8. o \in ScannedEntries(s, a.generation)
  BY <1>3, <1>6, <1>7, ScannedPrefix
<1>9. data[s][o] # Garbage
  <2>1. EntryAt(s, a.generation, o)
    BY <1>8, ScannedChain
  <2>. QED  BY <2>1 DEF EntryAt
<1>. QED  BY <1>8, <1>9 DEF Placed

-----------------------------------------------------------------------------
(* Damage keeps entries in their place.                                    *)

Entries == [id : Nat, generation : Nat \ {0}]
HeldIsPlaced == \A a \in Entries, o \in Offsets : Held(a, o) => Placed(a, o)

\* An entry that is held is in its place.
LEMMA HeldPlaced == TypeOK => HeldIsPlaced
<1>. SUFFICES ASSUME TypeOK, NEW a \in Entries, NEW o \in Offsets, Held(a, o)
              PROVE  Placed(a, o)
  BY DEF HeldIsPlaced
<1>1. PICK s \in Slots, g \in Nat \ {0} : g = a.generation /\ s = Home(g)
  BY HomeType DEF Entries
<1>2. EntryAt(s, g, o) /\ data[s][o].id = a.id
  BY <1>1, ScannedChain DEF Held
<1>3. data[s][o].generation = g /\ data[s][o].part = 0
  BY <1>2 DEF EntryAt
<1>. QED  BY <1>1, <1>2, <1>3 DEF Held, Placed

\* Also in the next state.
LEMMA HeldPlacedNext == TypeOK' => HeldIsPlaced'
  BY HeldPlaced, PTL

\* A segment that recovery seals again had no footer, but for the repair of one.
LEMMA SealRecoveredSeals ==
    ASSUME TypeOK, ControlInv, RotationInv, GenerationInv, SealRecovery, [Next]_vars,
           SealRecovered, Working'
    PROVE  \/ UNCHANGED <<segments, active_segment>> /\ Pending' = Rest
           \/ \E s \in Slots : /\ HeaderReadable(s) /\ Adopt(s, HeaderGeneration(s))
                               /\ ~HasFooter(s, HeaderGeneration(s))
<1>1. todo # <<>> /\ At("seal_recovered") /\ Pending = {Head(todo)} \cup Rest /\ mode' # "off" /\ Arg \in Slots
  BY SealRecoveredControl, BehindEntry DEF SealRecovered, Working, At
<1>2. mode = "init"
  BY <1>1 DEF ControlInv, Has, At, Booting, Recovering
<1>3. ~Fail
  BY <1>1, <1>2 DEF Fail, Reset
<1>4. CASE UNCHANGED <<mode, memory>> /\ Pending' = Rest
  BY <1>4 DEF memory
<1>5. CASE LeftBehind(Arg) /\ HeaderReadable(Arg) /\ Adopt(Arg, HeaderGeneration(Arg))
  <2>1. Has({"select"})
    BY <1>1 DEF RotationInv, Has, At
  <2>2. /\ \A y \in Rest : y[1] \notin Sealing \cup {"recover", "highest"}
    BY <1>1, BehindAppend, BehindStep
  <2>3. ~Has(Sealing) /\ ~Choosing /\ <<"recover", Arg>> \notin Pending
    BY <1>1, <1>2, <2>2 DEF Has, At, Sealing, Choosing
  <2>4. Described(Arg)
    BY <1>1, <2>1, <2>3 DEF GenerationInv, Chosen
  <2>5. segments[Arg].valid /\ ~segments[Arg].sealed /\ segments[Arg].generation = HeaderGeneration(Arg)
    BY <1>5, <2>4 DEF Described, LeftBehind
  <2>6. ~HasFooter(Arg, HeaderGeneration(Arg))
    BY <1>1, <2>1, <2>3, <2>5 DEF SealRecovery, Resealed
  <2>. QED  BY <1>1, <1>5, <2>6
<1>. QED  BY <1>3, <1>4, <1>5, SealRecoveredControl

\* A repair starts from data that it has checked.
LEMMA RecoverRepairs ==
    ASSUME TypeOK, ControlInv, Recover, Has({"open_writer"})'
    PROVE  LET s == Arg
               g == HeaderGeneration(s) IN
           /\ s \in Slots /\ HeaderReadable(s) /\ Adopt(s, g)
           /\ HasFooter(s, g) /\ SealedPrefixIntact(s, g, Footer(s, g))
<1>1. todo # <<>> /\ At("recover") /\ Pending = {Head(todo)} \cup Rest /\ Arg \in Slots
  BY RecoverControl, BehindEntry DEF Recover, At
<1>2. PICK s \in Slots : s = Arg
  BY <1>1
<1>3. PICK g : g = HeaderGeneration(s)
  OBVIOUS
<1>4. ~Fail
  BY FailControl DEF Has
<1>5. ~Continue
  <2>. SUFFICES ASSUME Continue PROVE FALSE
    OBVIOUS
  <2>1. Pending' = Rest
    BY <1>1, ContinuePending DEF TypeOK
  <2>2. \A y \in Rest : y[1] # "open_writer"
    BY <1>1, BehindAppend
  <2>. QED  BY <2>1, <2>2 DEF Has
<1>6. HeaderReadable(s) /\ HasFooter(s, g) /\ Repair(s, g)
  BY <1>2, <1>3, <1>4, <1>5 DEF Recover, SetDescriptor
<1>7. SealedPrefixIntact(s, g, Footer(s, g)) /\ Adopt(s, g)
  BY <1>4, <1>6 DEF Repair
<1>. QED  BY <1>2, <1>3, <1>6, <1>7

\* A slot of an entry that is held in its place alone is not the one being written.
LEMMA PlacedAlone ==
    ASSUME TypeOK, ControlInv, SpaceInv, GenerationInv, SequenceInv, BufferInv, ActiveInv, [Next]_vars, ~RotData,
           NEW a, a.generation \in Nat \ {0}, OnRing(a), NEW s \in Slots, s = Home(a.generation),
           ~(Working /\ a.generation = active_segment.generation)
    PROVE  data'[s] = data[s] /\ footers'[s] = footers[s]
<1>1. Working => s # active_segment.slot
  BY HeldActive
<1>2. data'[s] = data[s]
  BY <1>1, DataWritten
<1>3. footers'[s] = footers[s]
  BY <1>1, FootersWritten
<1>. QED  BY <1>2, <1>3

\* A sealed segment that lacks an entry is never written to again.
LEMMA LostIsSealed ==
    ASSUME TypeOK, TypeOK', ControlInv, SpaceInv, IdInv, RotationInv, GenerationInv, RetirementInv, SequenceInv,
           SequenceInv', BufferInv, ActiveInv, SealInv, [Next]_vars, "io" \notin Faults,
           NEW a, a.generation \in Nat \ {0}, OnRing(a), NEW o \in Offsets, Placed(a, o), ~Held(a, o),
           Working', a.generation = active_segment'.generation
    PROVE  FALSE
<1>1. PICK s \in Slots, g \in Nat \ {0} : g = a.generation /\ s = Home(g)
  BY HomeType
<1>2. FullySealed(s, g) /\ ~(Working /\ g = active_segment.generation)
  BY <1>1 DEF Placed
<1>3. HeaderReadable(s) /\ HeaderGeneration(s) = g
  BY <1>1 DEF OnRing
<1>4. HasFooter(s, g)
  BY <1>2 DEF FullySealed, HasFooter, Copies
<1>5. ~UNCHANGED vars
  <2>. SUFFICES ASSUME UNCHANGED vars PROVE FALSE
    OBVIOUS
  <2>1. UNCHANGED <<mode, todo, active_segment>>
    BY DEF vars, memory, control
  <2>2. Working
    BY <2>1 DEF Working, Has, Pending
  <2>. QED  BY <1>1, <1>2, <2>1, <2>2
<1>6. ~(Working /\ ~At("retire") /\ ~At("header") /\ (Operations \/ Plain \/ NoEntry))
  BY <1>1, <1>2, ActiveCarried
<1>7. ~Activate
  <2>. SUFFICES ASSUME Activate PROVE FALSE
    OBVIOUS
  <2>1. active_segment'.generation = state.next_generation
    BY DEF Activate
  <2>2. todo # <<>> /\ At("activate") /\ Pending = {Head(todo)} \cup Rest
    BY Activates
  <2>3. ~Has({"highest"}) /\ ~Has({"select"}) /\ mode # "off"
    BY <2>2 DEF RotationInv, ControlInv, Has, At
  <2>4. ~Choosing
    BY <2>3 DEF Choosing
  <2>5. segments[s].valid /\ segments[s].generation = g
    BY <1>1, <2>3, <2>4 DEF OnRing
  <2>6. g < state.next_generation /\ state.next_generation \in Nat
    BY <2>4, <2>5, NextHome DEF GenerationInv, Chosen, ValidSlots
  <2>. QED  BY <1>1, <2>1, <2>6
<1>8. ASSUME NEW t \in Slots, HeaderReadable(t), Adopt(t, HeaderGeneration(t)) PROVE t = s
  <2>1. HeaderGeneration(t) = g
    BY <1>1, <1>8 DEF Adopt
  <2>2. g \in HeaderGenerations(t)
    BY <1>8, <2>1, HeaderHighest DEF TypeOK
  <2>3. \E n : Upcoming(n)
    BY DEF GenerationInv, Chosen
  <2>4. Home(g) = t
    BY <2>2, <2>3, HeaderHome
  <2>. QED  BY <1>1, <2>4
<1>9. ~Recover
  <2>. SUFFICES ASSUME Recover PROVE FALSE
    OBVIOUS
  <2>1. Has({"open_writer"})'
    BY Adopts
  <2>2. PICK t \in Slots : /\ HeaderReadable(t) /\ Adopt(t, HeaderGeneration(t))
                           /\ SealedPrefixIntact(t, HeaderGeneration(t), Footer(t, HeaderGeneration(t)))
    BY <2>1, RecoverRepairs
  <2>3. t = s
    BY <1>8, <2>2
  <2>4. o \in ScannedEntries(s, g) /\ data[s][o].id = a.id
    BY <1>1, <1>3, <1>4, <2>2, <2>3, RepairFinds
  <2>. QED  BY <1>1, <1>2, <2>4 DEF Placed, Held
<1>10. ~SealRecovered
  <2>. SUFFICES ASSUME SealRecovered PROVE FALSE
    OBVIOUS
  <2>1. Has({"open_writer"})'
    BY Adopts
  <2>2. ~(Pending' = Rest)
    <3>1. todo # <<>> /\ At("seal_recovered") /\ Pending = {Head(todo)} \cup Rest
      BY SealRecoveredControl, BehindEntry DEF SealRecovered, At
    <3>2. \A y \in Rest : y[1] # "open_writer"
      BY <3>1, BehindAppend
    <3>. QED  BY <2>1, <3>2 DEF Has
  <2>3. PICK t \in Slots : /\ HeaderReadable(t) /\ Adopt(t, HeaderGeneration(t))
                           /\ ~HasFooter(t, HeaderGeneration(t))
    BY <2>2, SealRecoveredSeals DEF SealInv
  <2>. QED  BY <1>3, <1>4, <1>8, <2>3
<1>11. ~SelectActive
  <2>. SUFFICES ASSUME SelectActive PROVE FALSE
    OBVIOUS
  <2>1. ~HasFooter(active_segment.slot, active_segment.generation)'
    BY SelectSeals DEF SealInv
  <2>2. PICK t \in Slots, h \in Nat \ {0} :
            HeaderReadable(t) /\ HeaderGeneration(t) = h /\ Adopt(t, h) /\ UNCHANGED medium
    BY Adopts
  <2>3. t = s /\ h = g
    BY <1>3, <1>8, <2>2
  <2>4. active_segment'.slot = s /\ active_segment'.generation = g /\ footers' = footers
    BY <2>2, <2>3 DEF Adopt, medium
  <2>. QED  BY <1>4, <2>1, <2>4, FooterKept
<1>. QED  BY <1>5, <1>6, <1>7, <1>9, <1>10, <1>11, WorkingKept

\* Whatever does not touch the slot of an entry keeps it held while the store is closed.
LEMMA HeldClosed ==
    ASSUME NEW a, NEW s, s = Home(a.generation), NEW o, Held(a, o),
           data'[s] = data[s], footers'[s] = footers[s], ~Working'
    PROVE  Held(a, o)'
<1>1. o \in ScannedEntries(s, a.generation)' /\ data'[s][o].id = a.id
  <2>1. o \in ScannedEntries(s, a.generation) /\ data[s][o].id = a.id
    BY DEF Held
  <2>2. ScannedEntries(s, a.generation)' = ScannedEntries(s, a.generation)
    BY DEF ScannedEntries, EntryAt, IsChain, Follows
  <2>. QED  BY <2>1, <2>2
<1>2. \A c \in Copies : FooterValid(s, a.generation, c)' => o < footers'[s][c].data_end
  BY DEF Held, FooterValid
<1>. QED  BY <1>1, <1>2 DEF Held

\* The decay of a cell leaves every entry in its place.
LEMMA RotPlaced ==
    ASSUME TypeOK, ControlInv, RotData, NEW a, a.generation \in Nat \ {0}, OnRing(a), NEW o \in Offsets, Placed(a, o)
    PROVE  Placed(a, o)'
<1>1. PICK s \in Slots, g \in Nat \ {0} : g = a.generation /\ s = Home(g)
  BY HomeType
<1>2. footers' = footers /\ ~Working'
  BY DEF RotData, control, Working
<1>3. PICK t \in Slots, p \in Offsets : /\ FullySealed(t, HeaderGeneration(t))
                                        /\ data' = [data EXCEPT ![t][p] = Garbage]
  BY DEF RotData, FullySealed
<1>4. data \in [Slots -> [Offsets -> Cell \cup {Garbage}]]
  BY DEF TypeOK, MediumTypeOK
<1>5. data'[s][o] # Garbage => data'[s][o] = data[s][o]
  BY <1>3, <1>4
<1>6. FullySealed(s, g)' \/ Held(a, o)'
  <2>1. CASE FullySealed(s, g)
    BY <1>2, <2>1 DEF FullySealed, FooterValid
  <2>2. CASE ~FullySealed(s, g)
    <3>1. Held(a, o)
      BY <1>1, <2>2 DEF Placed
    <3>2. t # s
      BY <1>1, <1>3, <2>2 DEF OnRing
    <3>3. data'[s] = data[s]
      BY <1>3, <1>4, <3>2
    <3>. QED  BY <1>1, <1>2, <3>1, <3>3, HeldClosed
  <2>. QED  BY <2>1, <2>2
<1>7. \A c \in Copies : FooterValid(s, g, c)' => o < footers'[s][c].data_end
  BY <1>1, <1>2 DEF Placed, FooterValid
<1>8. data'[s][o] # Garbage => /\ data'[s][o].id = a.id
                               /\ data'[s][o].generation = g
                               /\ data'[s][o].part = 0
  BY <1>1, <1>5 DEF Placed
<1>. QED  BY <1>1, <1>2, <1>6, <1>7, <1>8 DEF Placed

\* Every other step, too.
LEMMA PlacedKept ==
    ASSUME TypeOK, TypeOK', ControlInv, SpaceInv, IdInv, RotationInv, GenerationInv, RetirementInv, SequenceInv,
           SequenceInv', BufferInv, ActiveInv, TilesInv, SealInv, [Next]_vars, "io" \notin Faults,
           NEW a \in Entries, OnRing(a), NEW o \in Offsets, Placed(a, o)
    PROVE  Placed(a, o)'
<1>1. PICK s \in Slots, g \in Nat \ {0} : g = a.generation /\ s = Home(g)
  BY HomeType DEF Entries
<1>2. CASE RotData
  BY <1>1, <1>2, RotPlaced
<1>3. CASE ~RotData /\ Held(a, o)
  <2>1. o \in ScannedEntries(s, g)' /\ data'[s][o].id = a.id
    BY <1>1, <1>3, HeldData
  <2>2. \A c \in Copies : FooterValid(s, g, c)' => o < footers'[s][c].data_end
    BY <1>1, <1>3, HeldFooter
  <2>3. Working' /\ g = active_segment'.generation => o < FlushedTo'
    BY <1>1, <1>3, HeldWorking
  <2>4. Held(a, o)'
    BY <1>1, <2>1, <2>2, <2>3 DEF Held
  <2>. QED  BY <2>4, HeldPlacedNext DEF HeldIsPlaced
<1>4. CASE ~RotData /\ ~Held(a, o)
  <2>1. FullySealed(s, g) /\ ~(Working /\ g = active_segment.generation)
    BY <1>1, <1>4 DEF Placed
  <2>2. data'[s] = data[s] /\ footers'[s] = footers[s]
    BY <1>1, <1>4, <2>1, PlacedAlone
  <2>3. ~(Working' /\ g = active_segment'.generation)
    BY <1>1, <1>4, LostIsSealed
  <2>4. FullySealed(s, g)'
    BY <2>1, <2>2 DEF FullySealed, FooterValid
  <2>5. \A c \in Copies : FooterValid(s, g, c)' => o < footers'[s][c].data_end
    BY <1>1, <2>2 DEF Placed, FooterValid
  <2>6. data'[s][o] # Garbage => /\ data'[s][o].id = a.id
                                 /\ data'[s][o].generation = g
                                 /\ data'[s][o].part = 0
    BY <1>1, <2>2 DEF Placed
  <2>. QED  BY <1>1, <2>3, <2>4, <2>5, <2>6 DEF Placed
<1>. QED  BY <1>2, <1>3, <1>4

\* Each step keeps every entry reported durable in its place.
LEMMA NextPlaced ==
    ASSUME "io" \notin Faults
    PROVE  TypeOK /\ TypeOK' /\ ControlInv /\ SpaceInv /\ IdInv /\ RotationInv /\ GenerationInv /\ RetirementInv
               /\ SequenceInv /\ SequenceInv' /\ BufferInv /\ ActiveInv /\ TilesInv /\ KeptInv /\ SealInv
               /\ PlacedInv /\ [Next]_vars => PlacedInv'
<1>. SUFFICES ASSUME TypeOK, TypeOK', ControlInv, SpaceInv, IdInv, RotationInv, GenerationInv, RetirementInv,
                     SequenceInv, SequenceInv', BufferInv, ActiveInv, TilesInv, KeptInv, SealInv, PlacedInv,
                     [Next]_vars, NEW a \in acked'
              PROVE  \E o \in Offsets : Placed(a, o)'
  BY DEF PlacedInv
<1>1. CASE a \in acked
  <2>1. OnRing(a) /\ a \in Entries
    BY <1>1 DEF KeptInv, OnRing, TypeOK, Entries
  <2>2. PICK o \in Offsets : Placed(a, o)
    BY <1>1 DEF PlacedInv
  <2>. QED  BY <2>1, <2>2, PlacedKept
<1>2. CASE a \notin acked
  <2>1. Working
    BY <1>2, AckedActive
  <2>2. PICK o \in Offsets : Held(a, o)'
    BY <1>2, <2>1, AckedGrows, HeldFlushed, HeldAcknowledged
  <2>3. a \in Entries
    <3>1. a.generation = active_segment.generation /\ active_segment.generation \in Nat \ {0}
      BY <1>2, <2>1, AckedActive, ActiveHome
    <3>. QED  BY <3>1 DEF TypeOK, Entries
  <2>. QED  BY <2>2, <2>3, HeldPlacedNext DEF HeldIsPlaced
<1>. QED  BY <1>1, <1>2

-----------------------------------------------------------------------------
(* What the active descriptor sums.                                        *)

\* The ids of whole entries grow from cell to cell.
LEMMA TiledMonotone ==
    ASSUME NEW cells \in Cells, NEW g, NEW end \in 0 .. Capacity, Tiled(cells, g, end),
           NEW o \in 0 .. end - 1, NEW p \in 0 .. o
    PROVE  cells[p].id <= cells[o].id /\ cells[p].id \in Nat /\ cells[o].id \in Nat
<1>1. PICK c \in Cell, q \in 0 .. o : c = cells[o] /\ q = o - c.part /\ cells[q] = [c EXCEPT !.part = 0]
  BY WholeStart
<1>2. p \in 0 .. end - 1 /\ q \in 0 .. end - 1 /\ Capacity \in Nat /\ end \in Nat
  BY CapacityAssumption
<1>3. cells[p] \in Cell /\ cells[p].id \in Nat /\ c.id \in Nat /\ c.part \in Nat /\ c.size \in Nat
  <2>1. cells[p] \in Cell
    BY <1>2, WholeStart
  <2>. QED  BY <2>1 DEF Cell
<1>4. cells[q].id = c.id /\ cells[q].part = 0
  BY <1>1 DEF Cell
<1>5. CASE p < q
  <2>1. cells[p].id < cells[q].id
    BY <1>2, <1>4, <1>5 DEF Tiled
  <2>. QED  BY <1>1, <1>3, <1>4, <2>1
<1>6. CASE ~(p < q)
  <2>1. p - q \in 0 .. c.size - 1 /\ q + (p - q) = p
    <3>1. c.part < c.size
      BY <1>1 DEF Tiled, Whole
    <3>. QED  BY <1>1, <1>3, <1>6, <3>1
  <2>2. cells[p] = [c EXCEPT !.part = p - q]
    <3>1. \A k \in 0 .. c.size - 1 : cells[q + k] = [c EXCEPT !.part = k]
      BY <1>1 DEF Tiled, Whole
    <3>. QED  BY <2>1, <3>1
  <2>3. cells[p].id = c.id
    BY <2>2 DEF Cell
  <2>. QED  BY <1>1, <1>3, <2>3
<1>. QED  BY <1>5, <1>6

\* Descriptors that agree on their entries sum the same cells.
LEMMA SumsSame ==
    ASSUME NEW d, NEW e, NEW cells, NEW new, NEW end \in Nat, SumsUp(d, cells, end),
           e.entry_count = d.entry_count, e.first_entry_id = d.first_entry_id,
           e.last_entry_id = d.last_entry_id, \A o \in 0 .. end - 1 : new[o] = cells[o]
    PROVE  SumsUp(e, new, end)
<1>1. CASE end = 0
  BY <1>1 DEF SumsUp
<1>2. CASE end # 0
  <2>1. 0 \in 0 .. end - 1 /\ end - 1 \in 0 .. end - 1
    BY <1>2
  <2>. QED  BY <1>2, <2>1 DEF SumsUp
<1>. QED  BY <1>1, <1>2

\* account_appended_entry_unsafe keeps the sums.
LEMMA SumsExtended ==
    ASSUME NEW d \in Descriptor, NEW e, NEW cells, NEW new, NEW g, NEW end, NEW id, NEW n,
           Extends(new, cells, g, end, id, n), SumsUp(d, cells, end),
           e.entry_count = d.entry_count + 1, e.last_entry_id = id,
           e.first_entry_id = IF d.entry_count = 0 THEN id ELSE d.first_entry_id
    PROVE  SumsUp(e, new, end + n)
<1>1. /\ end \in Nat /\ n \in Nat \ {0} /\ end + n # 0 /\ d.entry_count \in Nat
      /\ \A o \in 0 .. end - 1 : new[o] = cells[o]
      /\ \A o \in end .. end + n - 1 : new[o].id = id
  <2>1. end \in 0 .. Capacity /\ n \in 1 .. Capacity /\ \A o \in 0 .. end - 1 : new[o] = cells[o]
    BY DEF Extends
  <2>2. end \in Nat /\ n \in Nat \ {0} /\ end + n # 0
    BY <2>1, CapacityAssumption
  <2>3. \A o \in end .. end + n - 1 : new[o].id = id
    BY TiledExtend
  <2>4. d.entry_count \in Nat
    BY DEF Descriptor
  <2>. QED  BY <2>1, <2>2, <2>3, <2>4
<1>2. end + n - 1 \in end .. end + n - 1 /\ new[end + n - 1].id = id
  BY <1>1
<1>3. CASE end = 0
  <2>1. 0 \in end .. end + n - 1
    BY <1>1, <1>3
  <2>. QED  BY <1>1, <1>2, <1>3, <2>1 DEF SumsUp
<1>4. CASE end # 0
  <2>1. 0 \in 0 .. end - 1
    BY <1>1, <1>4
  <2>. QED  BY <1>1, <1>2, <1>4, <2>1 DEF SumsUp
<1>. QED  BY <1>3, <1>4

\* The descriptor of a scan sums what the scan found.
LEMMA ScanSums ==
    ASSUME MediumTypeOK, NEW s \in Slots, NEW g, NEW b
    PROVE  SumsUp(Scan(s, g, b), data[s], Scan(s, g, b).data_end)
<1>. DEFINE R == ScannedEntries(s, g)
<1>1. /\ R \in SUBSET Nat /\ IsFiniteSet(R)
      /\ \A x \in R : /\ x \in Nat /\ data[s][x].id \in Nat /\ data[s][x].size \in Nat \ {0}
                      /\ EntryAt(s, g, x)
  <2>1. R \in SUBSET Offsets /\ IsFiniteSet(R) /\ \A x \in R : EntryAt(s, g, x)
    BY ScannedType, ScannedChain
  <2>2. R \in SUBSET Nat
    BY <2>1 DEF Offsets
  <2>. QED  BY <2>1, <2>2, EntryCell
<1>2. CASE R = {}
  <2>1. Scan(s, g, b) = FreshSegment(g)
    BY <1>2 DEF Scan
  <2>. QED  BY <2>1 DEF FreshSegment, NoSegment, SumsUp
<1>3. CASE R # {}
  <2>1. Max(R) \in R
    BY <1>1, <1>3, MaxBound
  <2>2. Min(R) = 0
    <3>1. Min(R) \in R /\ \A x \in R : Min(R) <= x
      BY <1>1, <1>3, MinBound
    <3>2. 0 \in R
      BY <1>3, ScanReach
    <3>. QED  BY <1>1, <3>1, <3>2
  <2>3. Cardinality(R) # 0
    BY <1>1, <1>3, FS_EmptySet
  <2>4. PICK d : d = Scan(s, g, b)
    OBVIOUS
  <2>5. PICK last \in R : last = Max(R)
    BY <2>1
  <2>6. PICK c : c = data[s][last]
    OBVIOUS
  <2>7. /\ d.entry_count = Cardinality(R) /\ d.first_entry_id = data[s][0].id
        /\ d.last_entry_id = c.id /\ d.data_end = last + c.size
    BY <1>3, <2>2, <2>4, <2>5, <2>6 DEF Scan
  <2>8. last \in Nat /\ c.size \in Nat \ {0} /\ EntryAt(s, g, last)
    BY <1>1, <2>5, <2>6
  <2>9. d.data_end # 0 /\ d.data_end - 1 = last + (c.size - 1) /\ c.size - 1 \in 0 .. c.size - 1
    BY <2>7, <2>8
  <2>10. data[s][last + (c.size - 1)] = [c EXCEPT !.part = c.size - 1]
    BY <2>5, <2>6, <2>8, <2>9 DEF EntryAt
  <2>11. data[s][d.data_end - 1].id = c.id
    <3>1. c \in Cell
      BY <1>1, <2>5, <2>6, <2>8, EntryCell, ScannedChain
    <3>. QED  BY <2>9, <2>10, <3>1 DEF Cell
  <2>. QED  BY <2>3, <2>4, <2>7, <2>9, <2>11 DEF SumsUp
<1>. QED  BY <1>2, <1>3

\* Steps that leave the active segment, leave what a reader finds in it.
LEMMA OverlayKept ==
    ASSUME TypeOK, TypeOK', ControlInv, SpaceInv, SequenceInv, BufferInv, ActiveInv, TilesInv, [Next]_vars,
           Working, ~PutEntry, Operations \/ Plain \/ NoEntry, mode' # "off", active_segment' = active_segment,
           NEW s \in Slots, s = active_segment.slot, NEW o \in 0 .. active_write_offset - 1
    PROVE  Overlay(s)'[o] = Overlay(s)[o]
<1>1. PICK end \in 0 .. Capacity : end = active_write_offset
  BY CapacityAssumption DEF TypeOK, MemoryTypeOK, SpaceInv
<1>2. o \in Offsets /\ o \in Nat /\ o < end /\ end \in Nat
  BY <1>1, CapacityAssumption DEF Offsets
<1>3. Overlay(s)[o] = IF o - write_buf_offset + 1 \in 1 .. Len(write_buf)
                      THEN write_buf[o - write_buf_offset + 1] ELSE data[s][o]
  BY <1>2, OverlayNow
<1>4. Overlay(s)'[o] = IF o - write_buf_offset' + 1 \in 1 .. Len(write_buf')
                       THEN write_buf'[o - write_buf_offset' + 1] ELSE data'[s][o]
  BY <1>2, OverlayNext
<1>5. CASE Flushed
  <2>1. todo # <<>> /\ At("flushed") /\ Pending = {Head(todo)} \cup Rest
    BY <1>5, NextPending, BehindEntry DEF Flushed, At
  <2>2. Has({"flushed"}) /\ ~Has({"write_buffer"})
    BY <2>1, BehindData DEF Has, At
  <2>3. \A j \in DOMAIN write_buf : data[s][write_buf_offset + j - 1] = write_buf[j]
    BY <2>2, TilesNow DEF TilesInv, Underway
  <2>4. write_buf_offset \in Nat /\ write_buf \in Seq(Cell) /\ Len(write_buf) \in Nat
        /\ DOMAIN write_buf = 1 .. Len(write_buf)
    BY DEF TypeOK, MemoryTypeOK
  <2>5. data[s][o] = Overlay(s)[o]
    <3>1. CASE o - write_buf_offset + 1 \in 1 .. Len(write_buf)
      <4>1. PICK j \in DOMAIN write_buf : j = o - write_buf_offset + 1
        BY <2>4, <3>1
      <4>2. write_buf_offset + j - 1 = o
        BY <1>2, <2>4, <4>1
      <4>. QED  BY <1>3, <2>3, <3>1, <4>1, <4>2
    <3>. QED  BY <1>3, <3>1
  <2>6. write_buf' = <<>> /\ data' = data
    BY <1>5 DEF Flushed, medium
  <2>7. Overlay(s)'[o] = data[s][o]
    BY <1>4, <2>6
  <2>. QED  BY <2>5, <2>7
<1>6. CASE ~Flushed
  <2>1. UNCHANGED <<write_buf, write_buf_offset>>
    <3>1. Fail => UNCHANGED <<write_buf, write_buf_offset>>
      BY DEF Fail, Reset, memory
    <3>2. CASE Operations \/ NoEntry
      BY <3>1, <3>2 DEF Operations, AppendEntry, FlushWrite, Deinit, NoEntry, memory
    <3>3. CASE WriteDone \/ OpenWriter \/ ReserveEntry \/ AccountEntry \/ Acknowledge \/ Sealed \/ Settle
      BY <3>3 DEF WriteDone, OpenWriter, ReserveEntry, AccountEntry, Acknowledge, Sealed, Settle, SetState, memory
    <3>4. CASE Flush \/ PrepareSpace \/ Retire \/ CountBoot \/ AppendBoot \/ Ready
      BY <3>1, <3>4 DEF Flush, PrepareSpace, Retire, CountBoot, SetState, AppendBoot, Ready, memory
    <3>. QED  BY <1>6, <3>2, <3>3, <3>4 DEF Plain
  <2>2. CASE o - write_buf_offset + 1 \in 1 .. Len(write_buf)
    BY <1>3, <1>4, <2>1, <2>2
  <2>3. CASE ~(o - write_buf_offset + 1 \in 1 .. Len(write_buf))
    <3>1. o < FlushedTo
      <4>1. CASE write_buf = <<>>
        BY <1>1, <1>2, <4>1 DEF FlushedTo
      <4>2. CASE write_buf # <<>>
        <5>1. write_buf_offset + Len(write_buf) = end /\ FlushedTo = write_buf_offset
          BY <1>1, <4>2 DEF TilesInv, BufferTiles, FlushedTo
        <5>2. write_buf_offset \in Nat /\ Len(write_buf) \in Nat
          BY DEF TypeOK, MemoryTypeOK
        <5>. QED  BY <1>2, <2>3, <5>1, <5>2
      <4>. QED  BY <4>1, <4>2
    <3>2. data'[s][o] = data[s][o]
      <4>1. ~RotData
        BY DEF RotData, Working
      <4>. QED  BY <1>2, <3>1, <4>1, DataWritten
    <3>. QED  BY <1>3, <1>4, <2>1, <2>3, <3>2
  <2>. QED  BY <2>2, <2>3
<1>. QED  BY <1>5, <1>6

\* Steps that append nothing keep the sums of the active descriptor.
LEMMA SumsKept ==
    ASSUME TypeOK, ~PutEntry, ~AccountEntry, Operations \/ Plain \/ NoEntry, ~At("retire"), mode' # "off",
           NEW s \in Slots
    PROVE  /\ segments'[s].entry_count = segments[s].entry_count
           /\ segments'[s].first_entry_id = segments[s].first_entry_id
           /\ segments'[s].last_entry_id = segments[s].last_entry_id
           /\ active_write_offset' = active_write_offset
<1>1. CASE UNCHANGED <<segments, active_write_offset>>
  BY <1>1
<1>2. Fail => UNCHANGED <<segments, active_write_offset>>
  BY DEF Fail, Reset, memory
<1>3. CASE Operations \/ NoEntry
  BY <1>1, <1>2, <1>3 DEF Operations, AppendEntry, FlushWrite, Deinit, NoEntry, memory
<1>4. CASE WriteDone \/ OpenWriter \/ Flushed \/ ReserveEntry \/ Acknowledge \/ Settle
  BY <1>1, <1>4 DEF WriteDone, OpenWriter, Flushed, ReserveEntry, Acknowledge, Settle, SetState, memory
<1>5. CASE Flush \/ PrepareSpace \/ CountBoot \/ AppendBoot \/ Ready
  BY <1>1, <1>2, <1>5 DEF Flush, PrepareSpace, CountBoot, SetState, AppendBoot, Ready, memory
<1>6. CASE Sealed
  <2>1. segments \in [Slots -> Descriptor]
    BY DEF TypeOK, MemoryTypeOK
  <2>2. PICK t, count :
           segments' = [segments EXCEPT ![t] = [segments[t] EXCEPT !.sealed = TRUE, !.index_count = count]]
    BY <1>6 DEF Sealed
  <2>3. active_write_offset' = active_write_offset
    BY <1>6 DEF Sealed
  <2>. QED  BY <2>1, <2>2, <2>3 DEF Descriptor
<1>7. ~Retire
  BY DEF Retire
<1>. QED  BY <1>3, <1>4, <1>5, <1>6, <1>7 DEF Plain

\* An append accounts for its entry.
LEMMA SumsAccount ==
    ASSUME TypeOK, NEW s \in Slots, s = active_segment.slot, NEW id, NEW n, Account(id, n)
    PROVE  LET d == segments[s]
               e == segments'[s] IN
           /\ d \in Descriptor /\ e.entry_count = d.entry_count + 1 /\ e.last_entry_id = id
           /\ e.first_entry_id = IF d.entry_count = 0 THEN id ELSE d.first_entry_id
<1>1. PICK d \in Descriptor : d = segments[s]
  BY DEF TypeOK, MemoryTypeOK
<1>2. PICK end, indexed :
         segments'[s] = [d EXCEPT !.first_entry_id = IF d.entry_count = 0 THEN id ELSE @,
                                  !.last_entry_id = id, !.entry_count = @ + 1, !.data_end = end,
                                  !.index_count = indexed]
  BY <1>1 DEF Account, TypeOK, MemoryTypeOK
<1>. QED  BY <1>1, <1>2 DEF Descriptor

\* The descriptor of an adopted segment is that of a scan.
LEMMA AdoptSums ==
    ASSUME TypeOK, TypeOK', ControlInv, SpaceInv, IdInv, RotationInv, GenerationInv, RetirementInv, [Next]_vars,
           Recover \/ SealRecovered \/ SelectActive, Working'
    PROVE  SumsInv'
<1>1. PICK s \in Slots, g \in Nat \ {0} : Adopt(s, g) /\ UNCHANGED medium /\ write_buf' = <<>>
  BY Adopts
<1>2. /\ s = active_segment'.slot /\ UNCHANGED data
      /\ active_write_offset' = Scan(s, g, TRUE).data_end
  BY <1>1 DEF Adopt, medium
<1>3. segments'[s] = Scan(s, g, TRUE)
  BY <1>1 DEF Adopt, TypeOK, MemoryTypeOK
<1>4. PICK new \in Cells : new = Overlay(s)'
  BY <1>2, OverlayNext
<1>5. ASSUME NEW o \in Offsets PROVE new[o] = data[s][o]
  <2>1. ~(o - write_buf_offset' + 1 \in 1 .. Len(write_buf'))
    BY <1>1
  <2>. QED  BY <1>2, <1>4, <2>1, OverlayNext
<1>6. new = data[s]
  <2>1. data[s] \in Cells
    BY DEF Cells, TypeOK, MediumTypeOK
  <2>. QED  BY <1>5, <2>1 DEF Cells
<1>7. SumsUp(Scan(s, g, TRUE), data[s], Scan(s, g, TRUE).data_end)
  BY ScanSums DEF TypeOK
<1>8. SumsUp(segments'[s], Overlay(s)', active_write_offset')
  BY <1>2, <1>3, <1>4, <1>6, <1>7
<1>. QED  BY <1>2, <1>8 DEF SumsInv

\* Each step keeps the sums of the active descriptor.
LEMMA NextSums ==
    ASSUME "io" \notin Faults
    PROVE  TypeOK /\ TypeOK' /\ ControlInv /\ SpaceInv /\ IdInv /\ RotationInv /\ GenerationInv /\ RetirementInv
               /\ SequenceInv /\ SequenceInv' /\ BufferInv /\ ActiveInv /\ TilesInv /\ SumsInv /\ [Next]_vars
                    => SumsInv'
<1>. SUFFICES ASSUME TypeOK, TypeOK', ControlInv, SpaceInv, IdInv, RotationInv, GenerationInv, RetirementInv,
                     SequenceInv, SequenceInv', BufferInv, ActiveInv, TilesInv, SumsInv, [Next]_vars, Working'
              PROVE  SumsInv'
  <2>1. ~Working' => SumsInv'
    BY DEF SumsInv
  <2>. QED  BY <2>1
<1>1. mode' # "off"
  BY DEF Working
<1>2. CASE UNCHANGED vars
  BY <1>2 DEF vars, medium, memory, control, SumsInv, Working, Has, Pending, Overlay
<1>3. CASE Recover \/ SealRecovered \/ SelectActive
  BY <1>3, AdoptSums
<1>4. CASE Activate
  <2>1. active_segment' = [slot |-> NextSlot, generation |-> state.next_generation]
        /\ segments'[NextSlot] = FreshSegment(state.next_generation) /\ active_write_offset' = 0
    BY <1>4, Activates
  <2>2. segments'[active_segment'.slot].entry_count = 0
    BY <2>1 DEF FreshSegment, NoSegment
  <2>. QED  BY <2>1, <2>2 DEF SumsInv, SumsUp
<1>5. CASE /\ Working /\ ~At("retire") /\ ~At("header")
           /\ Operations \/ Plain \/ NoEntry
  <2>1. PICK s \in Slots, g \in Nat :
           /\ s = active_segment.slot /\ g = active_segment.generation
           /\ s = active_segment'.slot /\ active_segment' = active_segment
    BY <1>5, ActiveCarried DEF TypeOK, MemoryTypeOK
  <2>2. PICK end \in Nat : end = active_write_offset
    BY DEF TypeOK, MemoryTypeOK
  <2>3. SumsUp(segments[s], Overlay(s), end)
    BY <1>5, <2>1, <2>2 DEF SumsInv
  <2>4. SumsUp(segments'[s], Overlay(s)', active_write_offset') => SumsInv'
    BY <2>1 DEF SumsInv
  <2>5. CASE PutEntry \/ AccountEntry
    <3>1. PICK id, n : /\ Account(id, n) /\ active_write_offset' = end + n
                       /\ Extends(Overlay(s)', Overlay(s), g, end, id, n)
      <4>1. CASE PutEntry
        BY <1>5, <2>1, <2>2, <4>1, EntryTilesPut DEF PutEntry
      <4>2. CASE AccountEntry
        BY <1>5, <2>1, <2>2, <4>2, EntryTilesAccounted DEF AccountEntry
      <4>. QED  BY <2>5, <4>1, <4>2
    <3>2. SumsUp(segments'[s], Overlay(s)', end + n)
      BY <2>1, <2>3, <3>1, SumsAccount, SumsExtended
    <3>. QED  BY <2>4, <3>1, <3>2
  <2>6. CASE ~PutEntry /\ ~AccountEntry
    <3>1. \A o \in 0 .. end - 1 : Overlay(s)'[o] = Overlay(s)[o]
      BY <1>1, <1>5, <2>1, <2>2, <2>6, OverlayKept
    <3>2. /\ segments'[s].entry_count = segments[s].entry_count
          /\ segments'[s].first_entry_id = segments[s].first_entry_id
          /\ segments'[s].last_entry_id = segments[s].last_entry_id
          /\ active_write_offset' = end
      BY <1>1, <1>5, <2>2, <2>6, SumsKept
    <3>3. SumsUp(segments'[s], Overlay(s)', end)
      BY <2>3, <3>1, <3>2, SumsSame
    <3>. QED  BY <2>4, <3>2, <3>3
  <2>. QED  BY <2>5, <2>6
<1>. QED  BY <1>2, <1>3, <1>4, <1>5, WorkingKept

\* The active descriptor covers each entry that is held in the active segment.
HeldIsCovered ==
    Working => \A a \in Entries, o \in Offsets :
                   a.generation = active_segment.generation /\ Held(a, o)
                       => Covers(segments[active_segment.slot], a.id)

\* The descriptor sums the ids of all the entries, and those grow along the segment.
LEMMA HeldCovered ==
    TypeOK /\ SpaceInv /\ GenerationInv /\ ActiveInv /\ TilesInv /\ SumsInv => HeldIsCovered
<1>. SUFFICES ASSUME TypeOK, SpaceInv, GenerationInv, ActiveInv, TilesInv, SumsInv, Working,
                     NEW a \in Entries, NEW o \in Offsets, a.generation = active_segment.generation, Held(a, o)
              PROVE  Covers(segments[active_segment.slot], a.id)
  BY DEF HeldIsCovered
<1>1. PICK s \in Slots, g \in Nat \ {0} :
          s = active_segment.slot /\ g = active_segment.generation /\ Home(g) = s
  BY ActiveHome
<1>2. PICK end \in 0 .. Capacity : end = active_write_offset
  BY CapacityAssumption DEF TypeOK, MemoryTypeOK, SpaceInv
<1>3. PICK cells \in Cells : cells = Overlay(s)
  BY <1>1, OverlayNow
<1>4. Tiled(cells, g, end)
  BY <1>1, <1>2, <1>3, TilesNow DEF TilesInv
<1>5. data[s][o].id = a.id /\ o < FlushedTo
  BY <1>1 DEF Held
<1>6. o \in Nat /\ end \in Nat /\ FlushedTo <= end /\ FlushedTo \in Nat
  BY <1>1, <1>2, FlushedTiles, CapacityAssumption DEF Offsets
<1>7. o \in 0 .. end - 1 /\ 0 \in 0 .. o /\ end # 0 /\ o \in 0 .. end - 1 /\ end - 1 \in 0 .. end - 1
  BY <1>5, <1>6
<1>8. cells[o].id = a.id
  <2>1. cells[o] = IF o - write_buf_offset + 1 \in 1 .. Len(write_buf)
                   THEN write_buf[o - write_buf_offset + 1] ELSE data[s][o]
    BY <1>1, <1>3, OverlayNow
  <2>2. ~(o - write_buf_offset + 1 \in 1 .. Len(write_buf))
    <3>1. CASE write_buf = <<>>
      BY <3>1
    <3>2. CASE write_buf # <<>>
      <4>1. FlushedTo = write_buf_offset /\ write_buf_offset \in Nat /\ Len(write_buf) \in Nat
        BY <3>2 DEF FlushedTo, TypeOK, MemoryTypeOK
      <4>. QED  BY <1>5, <1>6, <4>1
    <3>. QED  BY <3>1, <3>2
  <2>. QED  BY <1>5, <2>1, <2>2
<1>9. cells[0].id <= cells[o].id /\ cells[o].id <= cells[end - 1].id
  <2>1. cells[0].id <= cells[o].id
    BY <1>4, <1>7, TiledMonotone
  <2>2. o \in 0 .. end - 1 /\ o \in 0 .. (end - 1)
    BY <1>7
  <2>3. cells[o].id <= cells[end - 1].id
    BY <1>4, <1>7, <2>2, TiledMonotone
  <2>. QED  BY <2>1, <2>3
<1>10. /\ segments[s].entry_count # 0 /\ segments[s].first_entry_id = cells[0].id
       /\ segments[s].last_entry_id = cells[end - 1].id
  BY <1>1, <1>2, <1>3, <1>7 DEF SumsInv, SumsUp
<1>. QED  BY <1>1, <1>8, <1>9, <1>10 DEF Covers

\* The same of the next state.
LEMMA HeldCoveredNext ==
    TypeOK' /\ SpaceInv' /\ GenerationInv' /\ ActiveInv' /\ TilesInv' /\ SumsInv' => HeldIsCovered'
BY HeldCovered, PTL

\* A segment is worked on until a step of its sealing or one that leaves it.
LEMMA StillWorking ==
    ASSUME TypeOK, ControlInv, Working, mode' = mode, Pending' = Rest,
           PutEntry \/ AccountEntry \/ Flushed \/ Acknowledge
    PROVE  Working'
<1>1. todo # <<>> /\ Pending = {Head(todo)} \cup Rest /\ Head(todo)[1] \notin Sealing
  <2>1. todo # <<>> /\ Head(todo)[1] \in {"put", "account", "flushed", "acknowledge"}
    BY DEF PutEntry, AccountEntry, Flushed, Acknowledge, At
  <2>. QED  BY <2>1, BehindEntry DEF Sealing
<1>. QED  BY <1>1 DEF Working, Has

\* A footer covers the entries reported durable of the segment that it seals.
LEMMA FooterCovers ==
    ASSUME TypeOK, ControlInv, SpaceInv, GenerationInv, SequenceInv, BufferInv, ActiveInv, TilesInv, SumsInv,
           [Next]_vars, NEW a \in Entries, OnRing(a), NEW o \in Offsets, Placed(a, o),
           NEW s \in Slots, s = Home(a.generation), NEW c \in Copies,
           FooterValid(s, a.generation, c) => Covers(footers[s][c], a.id),
           FooterValid(s, a.generation, c)'
    PROVE  Covers(footers'[s][c], a.id)
<1>. PICK g \in Nat \ {0} : g = a.generation
  BY DEF Entries
<1>1. CASE footers'[s][c] = footers[s][c]
  <2>1. FooterValid(s, g, c)
    BY <1>1 DEF FooterValid
  <2>. QED  BY <1>1, <2>1
<1>2. CASE footers'[s][c] # footers[s][c]
  <2>1. /\ Working /\ s = active_segment.slot
        /\ footers'[s][c] \in {footers[s][c], Garbage, ActiveFooter}
    BY <1>2, FootersWritten
  <2>2. footers'[s][c] = ActiveFooter
    <3>1. footers'[s][c] # Garbage
      BY DEF FooterValid
    <3>. QED  BY <1>2, <2>1, <3>1
  <2>3. a.generation = active_segment.generation
    BY <2>1, HeldActive
  <2>4. Covers(segments[s], a.id)
    <3>1. Held(a, o)
      BY <2>1, <2>3 DEF Placed
    <3>. QED  BY <2>1, <2>3, <3>1, HeldCovered DEF HeldIsCovered
  <2>5. /\ ActiveFooter.entry_count = segments[s].entry_count
        /\ ActiveFooter.first_entry_id = segments[s].first_entry_id
        /\ ActiveFooter.last_entry_id = segments[s].last_entry_id
    BY <2>1 DEF ActiveFooter
  <2>. QED  BY <2>2, <2>4, <2>5 DEF Covers
<1>. QED  BY <1>1, <1>2

\* Steps that neither rescan a slot nor add an entry keep what the descriptors sum.
LEMMA EntriesKept ==
    ASSUME TypeOK, [Next]_vars, mode' # "off", ~PutEntry, ~AccountEntry,
           ~At("activate"), ~At("retire"), ~At("recover"), ~At("seal_recovered"), ~At("select"),
           NEW s \in Slots
    PROVE  /\ segments'[s].entry_count = segments[s].entry_count
           /\ segments'[s].first_entry_id = segments[s].first_entry_id
           /\ segments'[s].last_entry_id = segments[s].last_entry_id
<1>1. CASE segments' = segments
  BY <1>1
<1>2. Fail => segments' = segments
  BY DEF Fail, Reset, memory
<1>3. CASE WriteDone \/ OpenWriter \/ CloseWriter \/ Flush \/ Flushed \/ PrepareSpace
           \/ Acknowledge \/ AppendBoot \/ Ready \/ AppendEntry \/ FlushWrite \/ Deinit
           \/ ReserveEntry \/ StartInit \/ UNCHANGED vars
  BY <1>1, <1>3 DEF WriteDone, OpenWriter, CloseWriter, Flush, Flushed, PrepareSpace, ReserveEntry,
              Acknowledge, AppendBoot, Ready, AppendEntry, FlushWrite, Deinit, StartInit, vars, memory
<1>4. CASE PickHighest \/ Settle \/ CountBoot \/ OpenNext \/ NoWriter \/ NoEntry \/ WriteError
  BY <1>1, <1>2, <1>4 DEF PickHighest, Settle, CountBoot, SetState, OpenNext, NoWriter, NoEntry, WriteError,
                     memory
<1>5. CASE Sealed
  <2>1. segments \in [Slots -> Descriptor]
    BY DEF TypeOK, MemoryTypeOK
  <2>2. PICK t, count :
           segments' = [segments EXCEPT ![t] = [segments[t] EXCEPT !.sealed = TRUE, !.index_count = count]]
    BY <1>5 DEF Sealed
  <2>. QED  BY <2>1, <2>2 DEF Descriptor
<1>6. CASE OpenWriterError \/ Close \/ Crash \/ RotIndex \/ RotData
  BY <1>1, <1>6 DEF OpenWriterError, Close, Crash, RotIndex, RotData, Reset, memory
<1>7. ~Activate /\ ~Retire /\ ~Recover /\ ~SealRecovered /\ ~SelectActive
  BY DEF Activate, Retire, Recover, SealRecovered, SelectActive
<1>. QED  BY <1>3, <1>4, <1>5, <1>6, <1>7 DEF Next, Step

\* recover_one_segment finds each entry reported durable of its slot.
LEMMA RecoverCovers ==
    ASSUME TypeOK, ControlInv, RotationInv, GenerationInv, Recover, mode' # "off",
           NEW a \in Entries, OnRing(a), NEW o \in Offsets, Placed(a, o),
           NEW s \in Slots, s = Home(a.generation), s = Arg,
           \A c \in Copies : FooterValid(s, a.generation, c) => Covers(footers[s][c], a.id)
    PROVE  Covers(segments'[s], a.id)
<1>1. todo # <<>> /\ At("recover") /\ Pending = {Head(todo)} \cup Rest
  BY RecoverControl, BehindEntry DEF Recover
<1>2. Has({"recover"}) /\ Has({"highest"}) /\ mode = "init"
  BY <1>1 DEF RotationInv, ControlInv, Has, At, Booting, Recovering
<1>3. ~Fail
  BY <1>2 DEF Fail, Reset
<1>4. PICK g \in Nat \ {0} : g = a.generation /\ HeaderReadable(s) /\ HeaderGeneration(s) = g
  BY DEF OnRing, Entries
<1>5. ~Outdated(g)
  <2>1. state.oldest_generation = checkpoint.oldest_generation /\ g >= checkpoint.oldest_generation
    BY <1>2, <1>4 DEF GenerationInv, OnRing
  <2>2. checkpoint.oldest_generation \in Nat
    BY DEF TypeOK, MediumTypeOK, StateRecord
  <2>. QED  BY <1>4, <2>1, <2>2 DEF Outdated
<1>6. segments \in [Slots -> Descriptor] /\ MediumTypeOK
  BY DEF TypeOK, MemoryTypeOK
<1>7. ASSUME NEW b, o \in ScannedEntries(s, g), data[s][o].id = a.id, segments'[s] = Scan(s, g, b)
      PROVE  Covers(segments'[s], a.id)
  <2>1. Covers(Scan(s, g, b), data[s][o].id)
    BY <1>6, <1>7, ScanCovers
  <2>. QED  BY <1>7, <2>1
<1>8. CASE ~HasFooter(s, g)
  <2>1. segments'[s] = Scan(s, g, FALSE)
    <3>1. SetDescriptor(s, Scan(s, g, FALSE))
      BY <1>3, <1>4, <1>5, <1>8 DEF Recover
    <3>. QED  BY <1>6, <3>1 DEF SetDescriptor
  <2>2. Held(a, o)
    <3>1. ~FullySealed(s, g)
      BY <1>8 DEF FullySealed, HasFooter, Copies
    <3>. QED  BY <1>4, <3>1 DEF Placed
  <2>. QED  BY <1>4, <1>7, <2>1, <2>2 DEF Held
<1>9. CASE HasFooter(s, g) /\ IndexValid(s, Footer(s, g))
  <2>1. segments'[s] = SealedSegment(Footer(s, g))
    <3>1. SetDescriptor(s, SealedSegment(Footer(s, g)))
      BY <1>3, <1>4, <1>5, <1>9 DEF Recover
    <3>. QED  BY <1>6, <3>1 DEF SetDescriptor
  <2>2. PICK c \in Copies : footers[s][c] = Footer(s, g) /\ FooterValid(s, g, c)
    BY <1>9 DEF HasFooter, Footer, Copies
  <2>3. Covers(Footer(s, g), a.id)
    BY <1>4, <2>2
  <2>. QED  BY <2>1, <2>3 DEF SealedSegment, Covers
<1>10. CASE HasFooter(s, g) /\ ~IndexValid(s, Footer(s, g))
  <2>1. Repair(s, g)
    BY <1>3, <1>4, <1>5, <1>10 DEF Recover
  <2>2. SealedPrefixIntact(s, g, Footer(s, g)) /\ segments'[s] = Scan(s, g, TRUE)
    BY <1>3, <1>6, <2>1 DEF Repair, Adopt
  <2>3. o \in ScannedEntries(s, g) /\ data[s][o].id = a.id
    BY <1>4, <1>10, <2>2, RepairFinds
  <2>. QED  BY <1>7, <2>2, <2>3
<1>. QED  BY <1>8, <1>9, <1>10

\* So do seal_recovered_segment and recover_open_segment.
LEMMA RescanCovers ==
    ASSUME TypeOK, ControlInv, RotationInv, GenerationInv, SealRecovery, SealRecovered \/ SelectActive,
           mode' # "off", NEW a \in Entries, OnRing(a), NEW o \in Offsets, Placed(a, o),
           NEW s \in Slots, s = Home(a.generation), Covers(segments[s], a.id)
    PROVE  Covers(segments'[s], a.id)
<1>1. At("seal_recovered") \/ At("select")
  BY DEF SealRecovered, SelectActive
<1>2. todo # <<>> /\ Pending = {Head(todo)} \cup Rest
  BY <1>1, SealRecoveredControl, SelectControl, BehindEntry
<1>3. mode = "init" /\ Has({"select"})
  BY <1>1, <1>2 DEF ControlInv, RotationInv, Has, At, Booting, Recovering
<1>4. ~Fail
  BY <1>3 DEF Fail, Reset
<1>5. ~Has(Sealing) /\ ~Has({"highest"}) /\ \A t \in Slots : <<"recover", t>> \notin Pending
  <2>1. \A y \in Rest : y[1] \notin Sealing \cup {"recover", "highest"}
    BY <1>1, <1>2, BehindAppend, BehindStep
  <2>. QED  BY <1>1, <1>2, <2>1 DEF Has, At, Sealing
<1>6. ~Choosing
  BY <1>3, <1>5 DEF Choosing
<1>7. PICK g \in Nat \ {0} : g = a.generation /\ HeaderReadable(s) /\ HeaderGeneration(s) = g
  BY DEF OnRing, Entries
<1>8. segments \in [Slots -> Descriptor] /\ MediumTypeOK
  BY DEF TypeOK, MemoryTypeOK
<1>9. CASE segments' = segments
  BY <1>9
<1>10. ASSUME NEW t \in Slots, Adopt(t, HeaderGeneration(t)), segments[t].valid, ~segments[t].sealed
       PROVE  Covers(segments'[s], a.id)
  <2>1. CASE t # s
    BY <1>8, <1>10, <2>1 DEF Adopt
  <2>2. CASE t = s
    <3>1. segments'[s] = Scan(s, g, TRUE)
      BY <1>7, <1>8, <1>10, <2>2 DEF Adopt
    <3>2. Described(s)
      BY <1>3, <1>6 DEF GenerationInv, Chosen
    <3>3. segments[s].generation = g
      BY <1>7, <1>10, <2>2, <3>2 DEF Described
    <3>4. ~HasFooter(s, g)
      BY <1>3, <1>5, <1>10, <2>2, <3>3 DEF SealRecovery, Resealed
    <3>5. Held(a, o)
      <4>1. ~FullySealed(s, g)
        BY <3>4 DEF FullySealed, HasFooter, Copies
      <4>. QED  BY <1>7, <4>1 DEF Placed
    <3>6. o \in ScannedEntries(s, g) /\ data[s][o].id = a.id
      BY <1>7, <3>5 DEF Held
    <3>7. Covers(Scan(s, g, TRUE), data[s][o].id)
      BY <1>8, <3>6, ScanCovers
    <3>. QED  BY <3>1, <3>6, <3>7
  <2>. QED  BY <2>1, <2>2
<1>11. CASE SealRecovered
  <2>1. \/ segments' = segments
        \/ Arg \in Slots /\ LeftBehind(Arg) /\ Adopt(Arg, HeaderGeneration(Arg))
    BY <1>4, <1>11, SealRecoveredControl DEF memory
  <2>. QED  BY <1>9, <1>10, <2>1 DEF LeftBehind
<1>12. CASE SelectActive
  <2>1. PICK t \in Slots : t = HighestSlot(segments)
    BY <1>12, SelectControl
  <2>2. segments' = segments \/ (~segments[t].sealed /\ Adopt(t, HeaderGeneration(t)))
    BY <1>4, <1>12, <2>1, SelectControl
  <2>3. segments[t].valid
    <3>1. HighestGeneration(segments) = state.next_generation - 1 /\ state.next_generation >= 2
          /\ state.next_generation \in Nat
      BY <1>3, <1>6, NextHome DEF GenerationInv, Chosen
    <3>2. HighestGeneration(segments) # 0
      BY <3>1
    <3>3. t \in ValidSlots(segments)
      BY <1>8, <2>1, <3>2, HighestBounds
    <3>. QED  BY <3>3 DEF ValidSlots
  <2>. QED  BY <1>9, <1>10, <2>2, <2>3
<1>. QED  BY <1>11, <1>12

\* A store that is closed is opened by init().
LEMMA OpenedByInit ==
    ASSUME TypeOK, ControlInv, [Next]_vars, "io" \notin Faults, mode = "off", mode' # "off"
    PROVE  StartInit
<1>1. todo = <<>>
  BY DEF ControlInv
<1>2. ~Operations
  BY DEF Operations, AppendEntry, FlushWrite, Deinit, Idle
<1>3. ~Plain
  BY <1>1, PlainPending
<1>4. ~(\/ CloseWriter \/ PickHighest \/ OpenNext \/ Activate
        \/ Recover \/ SealRecovered \/ SelectActive \/ NoWriter \/ NoEntry)
  BY <1>1 DEF CloseWriter, PickHighest, OpenNext, Activate, Recover, SealRecovered, SelectActive, NoWriter,
              WriterStep, NoEntry, At
<1>5. ~UNCHANGED vars
  BY DEF vars, control
<1>. QED  BY <1>2, <1>3, <1>4, <1>5, Kinds

\* A slot is recovered by recover_one_segment.
LEMMA RecoveredByStep ==
    ASSUME TypeOK, ControlInv, [Next]_vars, mode' # "off", NEW s \in Slots,
           <<"recover", s>> \in Pending, <<"recover", s>> \notin Pending'
    PROVE  Recover /\ s = Arg
<1>1. mode = "init"
  BY DEF ControlInv, Has, Booting, Recovering
<1>2. ~StartInit /\ ~Idle
  BY <1>1 DEF StartInit, Idle
<1>3. ~UNCHANGED todo /\ ~UNCHANGED vars
  BY DEF Pending, vars, control
<1>4. todo # <<>> /\ Pending = {Head(todo)} \cup Rest /\ (At("ready") => Rest = {})
  <2>1. todo # <<>>
    BY DEF Pending, StepsOf
  <2>. QED  BY <2>1, BehindEntry, BehindBoot DEF ControlInv, TypeOK
<1>5. Head(todo) = <<"recover", s>>
  <2>1. CASE At("ready")
    BY <1>4, <2>1
  <2>2. CASE Rest \subseteq Pending'
    BY <1>4, <2>2
  <2>. QED  BY <1>1, <1>2, <1>3, <2>1, <2>2, NextPending DEF Continues
<1>6. At("recover") /\ s = Arg
  BY <1>4, <1>5 DEF At, Arg
<1>. QED  BY <1>3, <1>6, HeadStep

\* The descriptor of a slot goes on covering the entries reported durable while another
\* slot is worked on.
LEMMA CoversKept ==
    ASSUME TypeOK, ControlInv, SpaceInv, IdInv, RotationInv, GenerationInv, RetirementInv, SequenceInv, BufferInv,
           SealRecovery, [Next]_vars, "io" \notin Faults, mode' # "off", NEW a \in Entries, a \in acked', OnRing(a),
           NEW o \in Offsets, Placed(a, o), NEW s \in Slots, s = Home(a.generation),
           \A c \in Copies : FooterValid(s, a.generation, c) => Covers(footers[s][c], a.id),
           Read(s) => Covers(segments[s], a.id),
           <<"recover", s>> \notin Pending', ~(Working' /\ active_segment'.slot = s)
    PROVE  Covers(segments'[s], a.id)
<1>1. mode # "off"
  <2>. SUFFICES ASSUME mode = "off" PROVE FALSE
    OBVIOUS
  <2>1. StartInit
    BY OpenedByInit
  <2>2. Pending' = StepsOf(InitSteps)
    BY <2>1 DEF StartInit, Pending
  <2>. QED  BY <2>2, InitHas
<1>2. CASE <<"recover", s>> \in Pending
  <2>1. Recover /\ s = Arg
    BY <1>2, RecoveredByStep
  <2>. QED  BY <2>1, RecoverCovers
<1>3. CASE <<"recover", s>> \notin Pending
  <2>1. Covers(segments[s], a.id)
    BY <1>1, <1>3 DEF Read
  <2>2. segments \in [Slots -> Descriptor]
    BY DEF TypeOK, MemoryTypeOK
  <2>3. segments'[s] = segments[s] => Covers(segments'[s], a.id)
    BY <2>1
  <2>4. CASE UNCHANGED vars
    BY <2>1, <2>4 DEF vars, memory
  <2>5. CASE At("recover") /\ ~UNCHANGED vars
    <3>1. Recover
      BY <2>5, HeadStep
    <3>2. todo # <<>> /\ Arg \in Slots /\ Pending = {Head(todo)} \cup Rest /\ mode = "init"
      <4>1. todo # <<>> /\ Arg \in Slots /\ Pending = {Head(todo)} \cup Rest
        BY <3>1, RecoverControl, BehindEntry
      <4>. QED  BY <2>5, <4>1 DEF ControlInv, Has, At, Booting, Recovering
    <3>3. Arg # s
      <4>1. Head(todo) \in Steps
        BY <3>2, PendingSplit DEF TypeOK
      <4>2. Head(todo) = <<"recover", Arg>>
        BY <2>5, <4>1 DEF Steps, At, Arg
      <4>. QED  BY <1>3, <3>2, <4>2
    <3>4. ~Fail
      BY <3>2 DEF Fail, Reset
    <3>5. PICK d : segments' = [segments EXCEPT ![Arg] = d]
      <4>1. (\E d : SetDescriptor(Arg, d)) \/ (\E g : Adopt(Arg, g))
        BY <3>1, <3>4, RecoverControl
      <4>. QED  BY <4>1 DEF SetDescriptor, Adopt
    <3>. QED  BY <2>2, <2>3, <3>3, <3>5
  <2>6. CASE (At("seal_recovered") \/ At("select")) /\ ~UNCHANGED vars
    <3>1. SealRecovered \/ SelectActive
      BY <2>6, HeadStep
    <3>. QED  BY <2>1, <3>1, RescanCovers
  <2>7. At("activate") \/ At("retire") =>
            /\ todo # <<>> /\ Pending = {Head(todo)} \cup Rest /\ ~Choosing /\ ~Has({"select"})
            /\ segments[s].valid /\ segments[s].generation = a.generation
    <3>. SUFFICES ASSUME At("activate") \/ At("retire")
                  PROVE  /\ todo # <<>> /\ Pending = {Head(todo)} \cup Rest /\ ~Choosing /\ ~Has({"select"})
                         /\ segments[s].valid /\ segments[s].generation = a.generation
      OBVIOUS
    <3>1. todo # <<>> /\ Pending = {Head(todo)} \cup Rest
      BY BehindEntry DEF At
    <3>2. ~Has({"select"}) /\ ~Has({"highest"})
      BY <3>1 DEF RotationInv, Has, At
    <3>3. ~Choosing
      BY <1>1, <3>2 DEF Choosing
    <3>. QED  BY <3>1, <3>2, <3>3 DEF OnRing
  <2>8. CASE At("activate") /\ ~UNCHANGED vars
    <3>1. Activate
      BY <2>8, HeadStep
    <3>2. NextSlot \notin ValidSlots(segments)
      <4>1. \A y \in Rest : y[1] # "retire"
        BY <2>7, <2>8, BehindStep DEF Rotating
      <4>2. Has({"header", "activate"}) /\ ~Has({"retire"})
        BY <2>7, <2>8, <4>1 DEF Has, At
      <4>. QED  BY <2>7, <2>8, <4>2 DEF RetirementInv, Retiring
    <3>3. s # NextSlot
      BY <2>7, <2>8, <3>2 DEF ValidSlots
    <3>4. segments'[s] = segments[s]
      BY <2>2, <3>1, <3>3 DEF Activate
    <3>. QED  BY <2>3, <3>4
  <2>9. CASE At("retire") /\ ~UNCHANGED vars
    <3>1. Retire
      BY <2>9, HeadStep
    <3>2. CASE ~segments[Arg].valid
      BY <2>3, <3>1, <3>2 DEF Retire
    <3>3. CASE segments[Arg].valid
      <4>1. /\ segments' = [segments EXCEPT ![Arg] = NoSegment]
            /\ acked' = {b \in acked : b.generation # segments[Arg].generation}
        BY <3>1, <3>3 DEF Retire
      <4>2. s # Arg
        BY <2>7, <2>9, <4>1
      <4>. QED  BY <2>2, <2>3, <4>1, <4>2
    <3>. QED  BY <3>2, <3>3
  <2>10. CASE PutEntry \/ AccountEntry
    <3>1. Working
      <4>1. todo # <<>> /\ Head(todo)[1] \in Entry
        BY <2>10, MovesControl DEF Moves, PutEntry, AccountEntry, At, Entry, Sized
      <4>. QED  BY <4>1, EntryWorking
    <3>2. Working'
      BY <2>10, <3>1, MovesControl, StillWorking DEF Moves, PutEntry, AccountEntry
    <3>3. /\ active_segment' = active_segment
          /\ \E d : segments' = [segments EXCEPT ![active_segment.slot] = d]
      BY <2>10 DEF PutEntry, AccountEntry, Account
    <3>. QED  BY <2>2, <2>3, <3>2, <3>3
  <2>11. CASE /\ ~PutEntry /\ ~AccountEntry
              /\ ~At("activate") /\ ~At("retire") /\ ~At("recover") /\ ~At("seal_recovered") /\ ~At("select")
    <3>1. /\ segments'[s].entry_count = segments[s].entry_count
          /\ segments'[s].first_entry_id = segments[s].first_entry_id
          /\ segments'[s].last_entry_id = segments[s].last_entry_id
      BY <2>11, EntriesKept
    <3>. QED  BY <2>1, <3>1 DEF Covers
  <2>. QED  BY <2>4, <2>5, <2>6, <2>8, <2>9, <2>10, <2>11
<1>. QED  BY <1>2, <1>3

\* An entry that a step reports durable is in the active segment, which has no footer yet
\* and stays the active one.
LEMMA NewUnsealed ==
    ASSUME TypeOK, ControlInv, SpaceInv, GenerationInv, SequenceInv, BufferInv, ActiveInv, TilesInv, SealActive,
           [Next]_vars, NEW a \in acked', a \notin acked
    PROVE  /\ a.generation = active_segment.generation /\ Home(a.generation) = active_segment.slot
           /\ ~HasFooter(active_segment.slot, active_segment.generation)
           /\ UNCHANGED <<footers, active_segment>> /\ Working'
<1>1. Working /\ a.generation = active_segment.generation /\ Home(a.generation) = active_segment.slot
  BY AckedActive, ActiveHome
<1>2. Flushed \/ Acknowledge
  BY AckedGrows
<1>3. Moves /\ mode' = mode /\ UNCHANGED <<footers, active_segment>>
  BY <1>2 DEF Moves, Flushed, Acknowledge, medium, memory
<1>4. Pending' = Rest /\ todo # <<>>
  BY <1>3, MovesControl
<1>5. Working'
  BY <1>1, <1>2, <1>3, <1>4, StillWorking
<1>6. Pending = {Head(todo)} \cup Rest
  BY <1>4, BehindEntry
<1>7. CASE Flushed
  <2>1. Has({"flushed"})
    BY <1>6, <1>7 DEF Flushed, At, Has
  <2>. QED  BY <1>1, <1>3, <1>5, <2>1 DEF BufferInv, SealActive
<1>8. CASE Acknowledge
  <2>1. \A y \in Rest : y[1] \notin Sealing
    BY <1>4, <1>8, BehindData DEF Acknowledge, Bypass
  <2>2. ~Has(Sealing)
    BY <1>6, <1>8, <2>1 DEF Acknowledge, At, Has, Sealing
  <2>. QED  BY <1>1, <1>3, <1>5, <2>2 DEF SealActive
<1>. QED  BY <1>2, <1>7, <1>8

\* Each step keeps every entry reported durable in the range of the footers and of the
\* descriptor of its segment.
LEMMA NextCovered ==
    ASSUME "io" \notin Faults
    PROVE  TypeOK /\ TypeOK' /\ ControlInv /\ SpaceInv /\ SpaceInv' /\ IdInv /\ RotationInv /\ GenerationInv
               /\ GenerationInv' /\ RetirementInv /\ SequenceInv /\ BufferInv /\ ActiveInv /\ ActiveInv' /\ TilesInv
               /\ TilesInv' /\ KeptInv /\ KeptInv' /\ SealInv /\ PlacedInv /\ PlacedInv' /\ SumsInv /\ SumsInv'
               /\ CoveredInv /\ [Next]_vars => CoveredInv'
<1>. SUFFICES ASSUME TypeOK, TypeOK', ControlInv, SpaceInv, SpaceInv', IdInv, RotationInv, GenerationInv,
                     GenerationInv', RetirementInv, SequenceInv, BufferInv, ActiveInv, ActiveInv', TilesInv,
                     TilesInv', KeptInv, KeptInv', SealInv, PlacedInv, PlacedInv', SumsInv, SumsInv', CoveredInv,
                     [Next]_vars, NEW a \in acked'
              PROVE  /\ \A c \in Copies : FooterValid(Home(a.generation), a.generation, c)'
                                      => Covers(footers'[Home(a.generation)][c], a.id)
                     /\ Read(Home(a.generation))' => Covers(segments'[Home(a.generation)], a.id)
  BY DEF CoveredInv
<1>1. a \in Entries /\ OnRing(a)'
  <2>1. OnRing(a)'
    BY DEF KeptInv
  <2>2. a \in [id : Nat, generation : Nat] /\ a.generation # 0
    BY <2>1 DEF OnRing, TypeOK
  <2>. QED  BY <2>1, <2>2 DEF Entries
<1>2. PICK s \in Slots : s = Home(a.generation)
  BY <1>1, HomeType DEF Entries
<1>3. ASSUME Working', active_segment'.slot = s PROVE Covers(segments'[s], a.id)
  <2>1. a.generation = active_segment'.generation
    BY <1>1, <1>2, <1>3 DEF OnRing, ActiveInv
  <2>2. PICK o \in Offsets : Placed(a, o)'
    BY DEF PlacedInv
  <2>3. Held(a, o)'
    BY <1>3, <2>1, <2>2 DEF Placed
  <2>4. HeldIsCovered'
    BY HeldCoveredNext
  <2>5. \A e \in Entries, p \in Offsets :
           e.generation = active_segment'.generation /\ Held(e, p)'
               => Covers(segments'[active_segment'.slot], e.id)
    BY <1>3, <2>4 DEF HeldIsCovered
  <2>. QED  BY <1>1, <1>3, <2>1, <2>2, <2>3, <2>5
<1>4. CASE a \in acked
  <2>1. OnRing(a)
    BY <1>4 DEF KeptInv
  <2>2. PICK o \in Offsets : Placed(a, o)
    BY <1>4 DEF PlacedInv
  <2>3. /\ \A c \in Copies : FooterValid(s, a.generation, c) => Covers(footers[s][c], a.id)
        /\ Read(s) => Covers(segments[s], a.id)
    BY <1>2, <1>4 DEF CoveredInv
  <2>4. \A c \in Copies : FooterValid(s, a.generation, c)' => Covers(footers'[s][c], a.id)
    BY <1>1, <1>2, <2>1, <2>2, <2>3, FooterCovers
  <2>5. Read(s)' => Covers(segments'[s], a.id)
    <3>1. CASE Working' /\ active_segment'.slot = s
      BY <1>3, <3>1
    <3>2. CASE ~(Working' /\ active_segment'.slot = s) /\ Read(s)'
      <4>1. mode' # "off" /\ <<"recover", s>> \notin Pending'
        BY <3>2 DEF Read
      <4>. QED  BY <1>1, <1>2, <2>1, <2>2, <2>3, <3>2, <4>1, CoversKept DEF SealInv
    <3>. QED  BY <3>1, <3>2
  <2>. QED  BY <1>2, <2>4, <2>5
<1>5. CASE a \notin acked
  <2>1. /\ a.generation = active_segment.generation /\ s = active_segment.slot
        /\ ~HasFooter(active_segment.slot, active_segment.generation)
        /\ UNCHANGED <<footers, active_segment>> /\ Working'
    BY <1>2, <1>5, NewUnsealed DEF SealInv
  <2>2. \A c \in Copies : ~FooterValid(s, a.generation, c)'
    BY <2>1 DEF HasFooter, FooterValid
  <2>3. Covers(segments'[s], a.id)
    BY <1>3, <2>1
  <2>. QED  BY <1>2, <2>2, <2>3
<1>. QED  BY <1>4, <1>5

\* A store that is off has nothing that an entry could be lost from.
LEMMA InitSealed ==
    Init => PlacedInv /\ SumsInv /\ CoveredInv
BY DEF Init, PlacedInv, SumsInv, CoveredInv, Working

\* Once the store runs, every segment is read and in memory.
LEMMA CoveredRetained ==
    TypeOK /\ KeptInv /\ CoveredInv => SealedNotTruncated
<1>. SUFFICES ASSUME TypeOK, KeptInv, CoveredInv, mode = "run", todo = <<>>, NEW a \in acked
              PROVE  \E s \in ValidSlots(segments) :
                        /\ segments[s].generation = a.generation
                        /\ a.id \in segments[s].first_entry_id .. segments[s].last_entry_id
  BY DEF SealedNotTruncated, Idle
<1>1. Pending = {} /\ a \in Entries /\ OnRing(a)
  BY DEF Pending, StepsOf, KeptInv, OnRing, TypeOK, Entries
<1>2. PICK s \in Slots : s = Home(a.generation)
  BY <1>1, HomeType DEF Entries
<1>3. segments[s].valid /\ segments[s].generation = a.generation
  BY <1>1, <1>2 DEF OnRing, Choosing, Has
<1>4. Covers(segments[s], a.id)
  BY <1>1, <1>2 DEF CoveredInv, Read
<1>5. segments[s] \in Descriptor
  BY DEF TypeOK, MemoryTypeOK
<1>6. a.id \in segments[s].first_entry_id .. segments[s].last_entry_id
  BY <1>1, <1>4, <1>5 DEF Covers, Descriptor, Entries
<1>. QED  BY <1>3, <1>6 DEF ValidSlots

\* Once both footers seal a segment, damage to its data never shortens it: whenever the
\* store runs, every entry that it reported durable lies in the id range of the segment of
\* its generation, as long as no write fails (scan_segment_entries, segment.cpp:442).
THEOREM SealedCorrect ==
    ASSUME "io" \notin Faults
    PROVE  Spec => []SealedNotTruncated
<1>. DEFINE Inv == /\ TypeOK /\ ControlInv /\ SpaceInv /\ IdInv /\ RotationInv /\ GenerationInv /\ RetirementInv
                   /\ SequenceInv /\ AppendInv /\ BufferInv /\ ActiveInv /\ TilesInv
                   /\ SealInv /\ KeptInv /\ PlacedInv /\ SumsInv /\ CoveredInv
<1>1. Init => Inv
  BY InitType, InitSpace, InitIds, InitGeneration, InitRetirement, InitDurability, InitSealed
<1>2. Inv /\ [Next]_vars => Inv'
  <2>. SUFFICES ASSUME Inv, [Next]_vars PROVE Inv'
    OBVIOUS
  <2>1. TypeOK' /\ ControlInv' /\ SpaceInv' /\ IdInv' /\ RotationInv' /\ GenerationInv' /\ RetirementInv'
    BY NextType, NextSpace, NextIds, NextRotation, NextGeneration, NextRetirement
  <2>2. SequenceInv' /\ BufferInv'
    BY <2>1, NextBuffer
  <2>3. AppendInv' /\ ActiveInv'
    BY <2>1, <2>2, NextAppend, NextActive
  <2>4. TilesInv'
    BY <2>1, <2>2, NextTiles
  <2>5. KeptInv' /\ SealInv'
    BY <2>1, <2>2, NextKept, NextSeal
  <2>6. PlacedInv' /\ SumsInv'
    BY <2>1, <2>2, NextPlaced, NextSums
  <2>7. CoveredInv'
    BY <2>1, <2>3, <2>4, <2>5, <2>6, NextCovered
  <2>. QED  BY <2>1, <2>2, <2>3, <2>4, <2>5, <2>6, <2>7
<1>3. Inv => SealedNotTruncated
  BY CoveredRetained
<1>. HIDE DEF Inv
<1>. QED  BY <1>1, <1>2, <1>3, PTL DEF Spec

-----------------------------------------------------------------------------
(* Counting the entries of a segment.                                      *)

\* The entries in front of an offset are finitely many.
LEMMA StartsType ==
    ASSUME NEW cells, NEW end \in 0 .. Capacity
    PROVE  /\ Starts(cells, end) \in SUBSET Offsets /\ IsFiniteSet(Starts(cells, end))
           /\ Cardinality(Starts(cells, end)) \in Nat
<1>1. Starts(cells, end) \in SUBSET Offsets
  BY CapacityAssumption DEF Starts, Offsets
<1>. QED  BY <1>1, OffsetsFinite, FS_CardinalityType

\* Those in front of an earlier offset are among them.
LEMMA StartsBelow ==
    ASSUME NEW cells, NEW end \in 0 .. Capacity, NEW o \in 0 .. end
    PROVE  Starts(cells, o) = {p \in Starts(cells, end) : p < o}
<1>1. end \in Nat /\ o \in Nat /\ o <= end
  BY CapacityAssumption
<1>2. \A p : p \in 0 .. o - 1 <=> p \in 0 .. end - 1 /\ p < o
  BY <1>1
<1>. QED  BY <1>2 DEF Starts

\* Cells that are not overwritten start the same entries.
LEMMA StartsSame ==
    ASSUME NEW cells, NEW new, NEW end \in 0 .. Capacity, \A o \in 0 .. end - 1 : new[o] = cells[o]
    PROVE  /\ \A o \in 0 .. end : Starts(new, o) = Starts(cells, o)
           /\ Indexed(new, end) = Indexed(cells, end) /\ IndexOf(new, end) = IndexOf(cells, end)
<1>0. end \in Nat
  BY CapacityAssumption
<1>1. ASSUME NEW o \in 0 .. end PROVE Starts(new, o) = Starts(cells, o)
  <2>1. \A p \in 0 .. o - 1 : new[p] = cells[p]
    BY <1>0
  <2>. QED  BY <2>1 DEF Starts
<1>2. \A o \in Starts(cells, end) : o \in 0 .. end /\ o \in 0 .. end - 1
  BY <1>0 DEF Starts
<1>3. Starts(new, end) = Starts(cells, end)
  BY <1>0, <1>1
<1>4. Indexed(new, end) = Indexed(cells, end)
  BY <1>1, <1>2, <1>3 DEF Indexed
<1>5. \A o \in Indexed(cells, end) : new[o] = cells[o]
  BY <1>2 DEF Indexed
<1>6. IndexOf(new, end) = IndexOf(cells, end)
  BY <1>4, <1>5 DEF IndexOf
<1>. QED  BY <1>1, <1>4, <1>6

\* Descriptors that agree on their entries count the same cells.
LEMMA TallySame ==
    ASSUME NEW d, NEW e, NEW items, NEW cells, NEW new, NEW end \in 0 .. Capacity, Tallied(d, items, cells, end),
           e.entry_count = d.entry_count, e.last_entry_id = d.last_entry_id,
           \A o \in 0 .. end - 1 : new[o] = cells[o]
    PROVE  Tallied(e, items, new, end)
<1>1. Starts(new, end) = Starts(cells, end) /\ IndexOf(new, end) = IndexOf(cells, end)
  <2>1. end \in 0 .. end
    BY CapacityAssumption
  <2>. QED  BY <2>1, StartsSame
<1>. QED  BY <1>1 DEF Tallied

\* An entry that is appended is the last to start.
LEMMA StartsExtended ==
    ASSUME NEW cells, NEW new, NEW g, NEW end, NEW id, NEW n, Extends(new, cells, g, end, id, n)
    PROVE  /\ end + n \in 0 .. Capacity /\ end \in 0 .. Capacity /\ end \notin Starts(cells, end) /\ new[end].id = id
           /\ Starts(new, end + n) = Starts(cells, end) \cup {end}
           /\ \A o \in 0 .. end : Starts(new, o) = Starts(cells, o)
           /\ \A o \in 0 .. end - 1 : new[o] = cells[o]
<1>1. /\ end \in 0 .. Capacity /\ n \in 1 .. Capacity /\ end + n <= Capacity
      /\ \A o \in 0 .. end - 1 : new[o] = cells[o]
  BY DEF Extends
<1>2. end \in Nat /\ n \in Nat \ {0} /\ end + n \in 0 .. Capacity /\ end \in end .. end + n - 1
  BY <1>1, CapacityAssumption
<1>3. \A o \in end .. end + n - 1 : new[o].id = id /\ new[o].part = o - end
  BY TiledExtend
<1>4. \A o \in 0 .. end : Starts(new, o) = Starts(cells, o)
  BY <1>1, StartsSame
<1>5. end \notin Starts(cells, end)
  BY <1>2 DEF Starts
<1>6. ASSUME NEW o PROVE o \in Starts(new, end + n) <=> o \in Starts(cells, end) \cup {end}
  <2>1. o \in 0 .. end + n - 1 <=> o \in 0 .. end - 1 \/ o \in end .. end + n - 1
    BY <1>2
  <2>2. o \in 0 .. end - 1 => o # end /\ new[o] = cells[o]
    BY <1>1, <1>2
  <2>3. o \in end .. end + n - 1 => o \notin 0 .. end - 1 /\ (new[o].part = 0 <=> o = end)
    BY <1>2, <1>3
  <2>. QED  BY <1>2, <2>1, <2>2, <2>3 DEF Starts
<1>7. Starts(new, end + n) = Starts(cells, end) \cup {end}
  BY <1>6
<1>. QED  BY <1>1, <1>2, <1>3, <1>4, <1>5, <1>7

\* account_appended_entry_unsafe counts the entry, and add_sparse_index_for_entry indexes it.
LEMMA TallyExtended ==
    ASSUME NEW d, NEW e, NEW items, NEW cells, NEW new, NEW g, NEW end, NEW id, NEW n,
           Extends(new, cells, g, end, id, n), Tallied(d, items, cells, end),
           e.entry_count = d.entry_count + 1
    PROVE  Tallied(e, IF IndexesNext(d) THEN items \cup {id} ELSE items, new, end + n)
<1>1. /\ end + n \in 0 .. Capacity /\ end \in 0 .. Capacity /\ end \notin Starts(cells, end) /\ new[end].id = id
      /\ Starts(new, end + n) = Starts(cells, end) \cup {end}
      /\ \A o \in 0 .. end : Starts(new, o) = Starts(cells, o)
      /\ \A o \in 0 .. end - 1 : new[o] = cells[o]
  BY StartsExtended
<1>2. end \in 0 .. end
  BY <1>1, CapacityAssumption
<1>3. IsFiniteSet(Starts(cells, end)) /\ Cardinality(Starts(cells, end)) \in Nat
  BY <1>1, StartsType
<1>4. Cardinality(Starts(new, end + n)) = Cardinality(Starts(cells, end)) + 1
  BY <1>1, <1>3, FS_AddElement
<1>5. d.entry_count = Cardinality(Starts(cells, end)) /\ items = IndexOf(cells, end)
  BY DEF Tallied
<1>6. \A o \in Starts(cells, end) : o \in 0 .. end /\ o \in 0 .. end - 1
  BY <1>2 DEF Starts
<1>7. Indexed(new, end + n) = IF IndexesNext(d) THEN Indexed(cells, end) \cup {end} ELSE Indexed(cells, end)
  <2>1. ASSUME NEW o \in Starts(cells, end) PROVE o \in Indexed(new, end + n) <=> o \in Indexed(cells, end)
    <3>1. o \in Starts(new, end + n) /\ Starts(new, o) = Starts(cells, o)
      BY <1>1, <1>6
    <3>. QED  BY <3>1 DEF Indexed
  <2>2. end \in Indexed(new, end + n) <=> IndexesNext(d)
    <3>1. end \in Starts(new, end + n) /\ Starts(new, end) = Starts(cells, end)
      BY <1>1, <1>2
    <3>. QED  BY <1>5, <3>1 DEF Indexed, IndexesNext
  <2>3. \A o : /\ o \in Indexed(new, end + n) => o \in Starts(cells, end) \cup {end}
               /\ o \in Indexed(cells, end) => o \in Starts(cells, end)
    BY <1>1 DEF Indexed
  <2>. QED  BY <2>1, <2>2, <2>3
<1>8. \A o \in Indexed(cells, end) : new[o].id = cells[o].id
  BY <1>1, <1>6 DEF Indexed
<1>9. IndexOf(new, end + n) = IF IndexesNext(d) THEN IndexOf(cells, end) \cup {id} ELSE IndexOf(cells, end)
  <2>1. CASE IndexesNext(d)
    <3>1. Indexed(new, end + n) = Indexed(cells, end) \cup {end}
      BY <1>7, <2>1
    <3>2. {new[o].id : o \in Indexed(cells, end) \cup {end}} = {cells[o].id : o \in Indexed(cells, end)} \cup {id}
      BY <1>1, <1>8
    <3>. QED  BY <2>1, <3>1, <3>2 DEF IndexOf
  <2>2. CASE ~IndexesNext(d)
    BY <1>7, <1>8, <2>2 DEF IndexOf
  <2>. QED  BY <2>1, <2>2
<1>. QED  BY <1>3, <1>4, <1>5, <1>9 DEF Tallied

\* The descriptor and the index of a scan tell what the scan found.
LEMMA TallyScan ==
    ASSUME MediumTypeOK, NEW s \in Slots, NEW g, NEW b
    PROVE  Tallied(Scan(s, g, b), ScannedIndex(s, g), data[s], Scan(s, g, b).data_end)
<1>. DEFINE R == ScannedEntries(s, g)
<1>1. PICK end \in 0 .. Capacity : end = Scan(s, g, b).data_end
  BY ScanReach
<1>2. Tiled(data[s], g, end)
  BY <1>1, ScanTiled
<1>3. /\ R \in SUBSET Offsets /\ IsFiniteSet(R)
      /\ \A o \in R : /\ o \in Nat /\ data[s][o].size \in Nat \ {0} /\ data[s][o].part = 0
                      /\ o + data[s][o].size <= end
  <2>1. R \in SUBSET Offsets /\ IsFiniteSet(R) /\ \A o \in R : EntryAt(s, g, o)
    BY ScannedType, ScannedChain
  <2>2. \A o \in R : o + data[s][o].size <= end
    BY <1>1, ScanReach
  <2>. QED  BY <2>1, <2>2, EntryCell
<1>4. Starts(data[s], end) = R
  <2>1. ASSUME NEW o \in R PROVE o \in Starts(data[s], end)
    <3>1. o \in Nat /\ data[s][o].size \in Nat \ {0} /\ data[s][o].part = 0 /\ o + data[s][o].size <= end /\ end \in Nat
      BY <1>3, CapacityAssumption
    <3>2. o \in 0 .. end - 1
      BY <3>1
    <3>. QED  BY <3>1, <3>2 DEF Starts
  <2>2. ASSUME NEW o \in Starts(data[s], end) PROVE o \in R
    BY <1>2, TiledScanned DEF Starts
  <2>. QED  BY <2>1, <2>2
<1>5. \A o \in R : Starts(data[s], o) = {p \in R : p < o}
  <2>1. \A o \in R : o \in 0 .. end
    BY <1>3, CapacityAssumption
  <2>. QED  BY <1>4, <2>1, StartsBelow
<1>6. ScannedIndex(s, g) = IndexOf(data[s], end)
  <2>1. {o \in R : Cardinality({p \in R : p < o}) % IndexStride = 0} = Indexed(data[s], end)
    BY <1>4, <1>5 DEF Indexed
  <2>. QED  BY <2>1 DEF ScannedIndex, IndexOf
<1>7. Scan(s, g, b).entry_count = Cardinality(R)
      /\ (Scan(s, g, b).entry_count = 0 => Scan(s, g, b).last_entry_id = 0)
  <2>1. CASE R = {}
    <3>1. Scan(s, g, b) = FreshSegment(g)
      BY <2>1 DEF Scan
    <3>. QED  BY <2>1, <3>1, FS_EmptySet DEF FreshSegment, NoSegment
  <2>2. CASE R # {}
    <3>1. Scan(s, g, b).entry_count = Cardinality(R)
      BY <2>2 DEF Scan
    <3>2. Cardinality(R) # 0
      BY <1>3, <2>2, FS_EmptySet
    <3>. QED  BY <3>1, <3>2
  <2>. QED  BY <2>1, <2>2
<1>. QED  BY <1>1, <1>4, <1>6, <1>7 DEF Tallied

\* A fresh segment has no entries.
LEMMA TallyEmpty ==
    ASSUME NEW g, NEW cells
    PROVE  Tallied(FreshSegment(g), {}, cells, 0)
<1>1. Starts(cells, 0) = {}
  BY DEF Starts
<1>2. Cardinality(Starts(cells, 0)) = 0 /\ IndexOf(cells, 0) = {}
  BY <1>1, FS_EmptySet DEF IndexOf, Indexed
<1>. QED  BY <1>2 DEF Tallied, FreshSegment, NoSegment

\* How many of n entries the sparse index holds.
Sampled(m, n) == n <= m * IndexStride /\ m * IndexStride < n + IndexStride

\* Every IndexStride-th entry is indexed.
LEMMA SampledNext ==
    ASSUME NEW m \in Nat, NEW n \in Nat, Sampled(m, n)
    PROVE  Sampled(IF n % IndexStride = 0 THEN m + 1 ELSE m, n + 1)
<1>1. PICK st \in Nat \ {0} : st = IndexStride
  BY StrideAssumption
<1>2. PICK q \in Nat, r \in 0 .. st - 1 : n = st * q + r /\ r = n % st
  <2>1. PICK q \in Nat : q = n \div st
    <3>1. n \div st \in Nat
      OBVIOUS
    <3>. QED  BY <3>1
  <2>2. PICK r \in 0 .. st - 1 : r = n % st
    <3>1. n % st \in 0 .. st - 1
      OBVIOUS
    <3>. QED  BY <3>1
  <2>3. n = st * q + r
    BY <2>1, <2>2
  <2>. QED  BY <2>2, <2>3
<1>3. m * st \in Nat /\ n <= m * st /\ m * st < n + st
  BY <1>1 DEF Sampled
<1>4. m <= q + 1
  <2>. SUFFICES ASSUME m > q + 1 PROVE FALSE
    OBVIOUS
  <2>1. PICK k \in Nat : m = q + 2 + k
    <3>1. m - q - 2 \in Nat /\ m = q + 2 + (m - q - 2)
      OBVIOUS
    <3>. QED  BY <3>1
  <2>2. m * st = st * q + st + st + k * st /\ k * st \in Nat /\ st * q \in Nat
    BY <2>1
  <2>. QED  BY <1>2, <1>3, <2>2
<1>5. q <= m
  <2>. SUFFICES ASSUME q > m PROVE FALSE
    OBVIOUS
  <2>1. PICK k \in Nat : q = m + 1 + k
    <3>1. q - m - 1 \in Nat /\ q = m + 1 + (q - m - 1)
      OBVIOUS
    <3>. QED  BY <3>1
  <2>2. st * q = m * st + st + k * st /\ k * st \in Nat
    BY <2>1
  <2>. QED  BY <1>2, <1>3, <2>2
<1>6. (q + 1) * st = st * q + st /\ q * st = st * q /\ st * q \in Nat /\ (m + 1) * st = m * st + st
  OBVIOUS
<1>7. m = q \/ m = q + 1
  BY <1>4, <1>5
<1>8. CASE r = 0
  <2>1. m = q
    <3>. SUFFICES ASSUME m = q + 1 PROVE FALSE
      BY <1>7
    <3>1. m * st = st * q + st
      BY <1>6
    <3>. QED  BY <1>2, <1>3, <1>6, <1>8, <3>1
  <2>2. (m + 1) * st = n + st
    BY <1>2, <1>6, <1>8, <2>1
  <2>. QED  BY <1>1, <1>2, <1>8, <2>2 DEF Sampled
<1>9. CASE r # 0
  <2>1. m = q + 1
    BY <1>2, <1>3, <1>6, <1>7, <1>9
  <2>2. n + 1 <= m * st
    BY <1>2, <1>6, <1>9, <2>1
  <2>. QED  BY <1>1, <1>2, <1>3, <1>9, <2>2 DEF Sampled
<1>. QED  BY <1>8, <1>9

\* That is how is_segment_footer_valid counts them.
LEMMA SampledCount ==
    ASSUME NEW m \in Nat, NEW n \in Nat, Sampled(m, n)
    PROVE  IF n = 0 THEN m = 0 ELSE m = (n - 1) \div IndexStride + 1
<1>1. PICK st \in Nat \ {0} : st = IndexStride
  BY StrideAssumption
<1>3. m * st \in Nat /\ n <= m * st /\ m * st < n + st
  BY <1>1 DEF Sampled
<1>4. CASE n = 0
  <2>. SUFFICES ASSUME m # 0 PROVE FALSE
    BY <1>4
  <2>1. PICK k \in Nat : m = k + 1
    <3>1. m - 1 \in Nat /\ m = (m - 1) + 1
      OBVIOUS
    <3>. QED  BY <3>1
  <2>2. m * st = k * st + st /\ k * st \in Nat
    BY <2>1
  <2>. QED  BY <1>3, <1>4, <2>2
<1>5. CASE n # 0
  <2>1. PICK a \in Nat : n = a + 1 /\ a = n - 1
    <3>1. n - 1 \in Nat /\ n = (n - 1) + 1
      BY <1>5
    <3>. QED  BY <3>1
  <2>2. PICK q \in Nat, r \in 0 .. st - 1 : a = st * q + r /\ q = a \div st
    <3>1. PICK q \in Nat : q = a \div st
      <4>1. a \div st \in Nat
        OBVIOUS
      <4>. QED  BY <4>1
    <3>2. PICK r \in 0 .. st - 1 : r = a % st
      <4>1. a % st \in 0 .. st - 1
        OBVIOUS
      <4>. QED  BY <4>1
    <3>3. a = st * q + r
      BY <3>1, <3>2
    <3>. QED  BY <3>1, <3>3
  <2>3. st * q \in Nat
    OBVIOUS
  <2>4. m <= q + 1
    <3>. SUFFICES ASSUME m > q + 1 PROVE FALSE
      OBVIOUS
    <3>1. PICK k \in Nat : m = q + 2 + k
      <4>1. m - q - 2 \in Nat /\ m = q + 2 + (m - q - 2)
        OBVIOUS
      <4>. QED  BY <4>1
    <3>2. m * st = st * q + st + st + k * st /\ k * st \in Nat
      BY <3>1
    <3>. QED  BY <1>3, <2>1, <2>2, <2>3, <3>2
  <2>5. q + 1 <= m
    <3>. SUFFICES ASSUME q >= m PROVE FALSE
      OBVIOUS
    <3>1. PICK k \in Nat : q = m + k
      <4>1. q - m \in Nat /\ q = m + (q - m)
        OBVIOUS
      <4>. QED  BY <4>1
    <3>2. st * q = m * st + k * st /\ k * st \in Nat
      BY <3>1
    <3>. QED  BY <1>3, <2>1, <2>2, <3>2
  <2>6. m = q + 1
    BY <2>4, <2>5
  <2>. QED  BY <1>1, <1>5, <2>1, <2>2, <2>6
<1>. QED  BY <1>4, <1>5

\* One cell more starts an entry, or belongs to the one before.
LEMMA StartsNext ==
    ASSUME NEW cells \in Cells, NEW g, NEW end \in 0 .. Capacity, Tiled(cells, g, end), NEW o \in 0 .. end - 1,
           IsFiniteSet(IndexOf(cells, o)), Sampled(Cardinality(IndexOf(cells, o)), Cardinality(Starts(cells, o)))
    PROVE  /\ IsFiniteSet(IndexOf(cells, o + 1))
           /\ Sampled(Cardinality(IndexOf(cells, o + 1)), Cardinality(Starts(cells, o + 1)))
<1>1. /\ end \in Nat /\ o \in Nat /\ o \in 0 .. Capacity /\ o \notin 0 .. o - 1
      /\ 0 .. (o + 1) - 1 = (0 .. o - 1) \cup {o}
  BY CapacityAssumption
<1>2. IsFiniteSet(Starts(cells, o)) /\ Cardinality(Starts(cells, o)) \in Nat
  BY <1>1, StartsType
<1>3. CASE cells[o].part # 0
  <2>1. Starts(cells, o + 1) = Starts(cells, o)
    BY <1>1, <1>3 DEF Starts
  <2>2. IndexOf(cells, o + 1) = IndexOf(cells, o)
    BY <2>1 DEF IndexOf, Indexed
  <2>. QED  BY <2>1, <2>2
<1>4. CASE cells[o].part = 0
  <2>1. Starts(cells, o + 1) = Starts(cells, o) \cup {o} /\ o \notin Starts(cells, o)
    BY <1>1, <1>4 DEF Starts
  <2>2. Cardinality(Starts(cells, o + 1)) = Cardinality(Starts(cells, o)) + 1
    BY <1>2, <2>1, FS_AddElement
  <2>3. Cardinality(IndexOf(cells, o)) \in Nat
    BY FS_CardinalityType
  <2>4. CASE Cardinality(Starts(cells, o)) % IndexStride = 0
    <3>1. Indexed(cells, o + 1) = Indexed(cells, o) \cup {o}
      BY <2>1, <2>4 DEF Indexed
    <3>2. IndexOf(cells, o + 1) = IndexOf(cells, o) \cup {cells[o].id}
      BY <3>1 DEF IndexOf
    <3>3. cells[o].id \notin IndexOf(cells, o)
      <4>1. ASSUME NEW p \in Indexed(cells, o) PROVE cells[p].id # cells[o].id
        <5>1. p \in 0 .. end - 1 /\ p < o /\ p \in 0 .. o
          BY <1>1, <4>1 DEF Indexed, Starts
        <5>2. cells[p].id < cells[o].id
          BY <1>4, <5>1 DEF Tiled
        <5>3. cells[p].id \in Nat /\ cells[o].id \in Nat
          BY <5>1, TiledMonotone
        <5>. QED  BY <5>2, <5>3
      <4>. QED  BY <4>1 DEF IndexOf
    <3>4. /\ IsFiniteSet(IndexOf(cells, o + 1))
          /\ Cardinality(IndexOf(cells, o + 1)) = Cardinality(IndexOf(cells, o)) + 1
      BY <3>2, <3>3, FS_AddElement
    <3>5. Sampled(Cardinality(IndexOf(cells, o)) + 1, Cardinality(Starts(cells, o)) + 1)
      BY <1>2, <2>3, <2>4, SampledNext
    <3>. QED  BY <2>2, <3>4, <3>5
  <2>5. CASE Cardinality(Starts(cells, o)) % IndexStride # 0
    <3>1. Indexed(cells, o + 1) = Indexed(cells, o)
      BY <2>1, <2>5 DEF Indexed
    <3>2. IndexOf(cells, o + 1) = IndexOf(cells, o)
      BY <3>1 DEF IndexOf
    <3>3. Sampled(Cardinality(IndexOf(cells, o)), Cardinality(Starts(cells, o)) + 1)
      BY <1>2, <2>3, <2>5, SampledNext
    <3>. QED  BY <2>2, <3>2, <3>3
  <2>. QED  BY <2>4, <2>5
<1>. QED  BY <1>3, <1>4

\* The index of whole entries has the size that a valid footer must tell.
LEMMA IndexCount ==
    ASSUME NEW cells \in Cells, NEW g, NEW end \in 0 .. Capacity, Tiled(cells, g, end)
    PROVE  LET n == Cardinality(Starts(cells, end))
               m == Cardinality(IndexOf(cells, end)) IN
           IF n = 0 THEN m = 0 ELSE m = (n - 1) \div IndexStride + 1
<1>. DEFINE Good(o) == /\ IsFiniteSet(IndexOf(cells, o))
                       /\ Sampled(Cardinality(IndexOf(cells, o)), Cardinality(Starts(cells, o)))
            Bad == {o \in 0 .. end : ~Good(o)}
<1>0. end \in Nat /\ end \in 0 .. end
  BY CapacityAssumption
<1>1. Good(0)
  <2>1. Starts(cells, 0) = {} /\ IndexOf(cells, 0) = {}
    BY DEF Starts, Indexed, IndexOf
  <2>2. IsFiniteSet({}) /\ Cardinality({}) = 0
    BY FS_EmptySet
  <2>3. Sampled(0, 0)
    BY StrideAssumption DEF Sampled
  <2>. QED  BY <2>1, <2>2, <2>3
<1>2. ASSUME NEW o \in 0 .. end - 1, Good(o) PROVE Good(o + 1)
  BY <1>2, StartsNext
<1>. HIDE DEF Good
<1>3. Bad = {}
  <2>. SUFFICES ASSUME Bad # {} PROVE FALSE
    OBVIOUS
  <2>1. PICK o \in Bad : \A p \in Bad : o <= p
    <3>1. Bad \in SUBSET Nat
      BY <1>0
    <3>. QED  BY <3>1, LeastNatural
  <2>2. o \in 0 .. end /\ ~Good(o) /\ o # 0
    BY <1>1, <2>1
  <2>3. o - 1 \in 0 .. end /\ ~(o <= o - 1) /\ o - 1 \in 0 .. end - 1 /\ (o - 1) + 1 = o
    BY <1>0, <2>2
  <2>4. Good(o - 1)
    BY <2>1, <2>3
  <2>. QED  BY <1>2, <2>2, <2>3, <2>4
<1>4. Good(end)
  BY <1>0, <1>3
<1>5. Cardinality(IndexOf(cells, end)) \in Nat /\ Cardinality(Starts(cells, end)) \in Nat
  BY <1>4, FS_CardinalityType, StartsType DEF Good
<1>. QED  BY <1>4, <1>5, SampledCount DEF Good

\* Steps that append nothing and seal nothing keep the active descriptor and its index.
LEMMA TallyKept ==
    ASSUME TypeOK, ~PutEntry, ~AccountEntry, ~Sealed, Operations \/ Plain \/ NoEntry, ~At("retire"), mode' # "off"
    PROVE  UNCHANGED <<segments, sparse_index, active_write_offset>>
<1>1. Fail => UNCHANGED <<segments, sparse_index, active_write_offset>>
  BY DEF Fail, Reset, memory
<1>2. CASE Operations \/ NoEntry
  BY <1>1, <1>2 DEF Operations, AppendEntry, FlushWrite, Deinit, NoEntry, memory
<1>3. CASE WriteDone \/ OpenWriter \/ Flushed \/ ReserveEntry \/ Acknowledge \/ Settle
  BY <1>3 DEF WriteDone, OpenWriter, Flushed, ReserveEntry, Acknowledge, Settle, SetState, memory
<1>4. CASE Flush \/ PrepareSpace \/ CountBoot \/ AppendBoot \/ Ready
  BY <1>1, <1>4 DEF Flush, PrepareSpace, CountBoot, SetState, AppendBoot, Ready, memory
<1>5. ~Retire
  BY DEF Retire
<1>. QED  BY <1>2, <1>3, <1>4, <1>5 DEF Plain

\* An append leaves the segment open.
LEMMA TallyAccount ==
    ASSUME TypeOK, NEW s \in Slots, s = active_segment.slot, NEW id, NEW n, Account(id, n)
    PROVE  LET d == segments[s]
               e == segments'[s] IN
           /\ e.sealed = d.sealed /\ e.index_count = Cardinality(sparse_index') /\ e.entry_count = d.entry_count + 1
           /\ sparse_index' = IF IndexesNext(d) THEN sparse_index \cup {id} ELSE sparse_index
<1>1. PICK d \in Descriptor : d = segments[s]
  BY DEF TypeOK, MemoryTypeOK
<1>2. PICK end, first :
         segments'[s] = [d EXCEPT !.first_entry_id = first,
                                  !.last_entry_id = id, !.entry_count = @ + 1, !.data_end = end,
                                  !.index_count = Cardinality(sparse_index')]
  BY <1>1 DEF Account, TypeOK, MemoryTypeOK
<1>3. sparse_index' = IF IndexesNext(d) THEN sparse_index \cup {id} ELSE sparse_index
  BY <1>1 DEF Account
<1>. QED  BY <1>1, <1>2, <1>3 DEF Descriptor

\* What an adopted segment is described by.
LEMMA AdoptTally ==
    ASSUME TypeOK, TypeOK', ControlInv, SpaceInv, IdInv, RotationInv, GenerationInv, RetirementInv, [Next]_vars,
           Recover \/ SealRecovered \/ SelectActive, Working'
    PROVE  TallyInv'
<1>1. PICK s \in Slots, g \in Nat \ {0} : Adopt(s, g) /\ UNCHANGED medium /\ write_buf' = <<>>
  BY Adopts
<1>2. /\ s = active_segment'.slot /\ UNCHANGED data
      /\ active_write_offset' = Scan(s, g, TRUE).data_end /\ sparse_index' = ScannedIndex(s, g)
  BY <1>1 DEF Adopt, medium
<1>3. segments'[s] = Scan(s, g, TRUE)
  BY <1>1 DEF Adopt, TypeOK, MemoryTypeOK
<1>4. PICK new \in Cells : new = Overlay(s)'
  BY <1>2, OverlayNext
<1>5. ASSUME NEW o \in Offsets PROVE new[o] = data[s][o]
  <2>1. ~(o - write_buf_offset' + 1 \in 1 .. Len(write_buf'))
    BY <1>1
  <2>. QED  BY <1>2, <1>4, <2>1, OverlayNext
<1>6. new = data[s]
  <2>1. data[s] \in Cells
    BY DEF Cells, TypeOK, MediumTypeOK
  <2>. QED  BY <1>5, <2>1 DEF Cells
<1>7. Tallied(Scan(s, g, TRUE), ScannedIndex(s, g), data[s], Scan(s, g, TRUE).data_end)
  BY TallyScan DEF TypeOK
<1>8. ~Scan(s, g, TRUE).sealed /\ Scan(s, g, TRUE).index_count = Cardinality(ScannedIndex(s, g))
  <2>1. CASE ScannedEntries(s, g) = {}
    <3>1. Scan(s, g, TRUE) = FreshSegment(g)
      BY <2>1 DEF Scan
    <3>2. ScannedIndex(s, g) = {}
      BY <2>1 DEF ScannedIndex
    <3>. QED  BY <3>1, <3>2, FS_EmptySet DEF FreshSegment, NoSegment
  <2>2. CASE ScannedEntries(s, g) # {}
    BY <2>2 DEF Scan
  <2>. QED  BY <2>1, <2>2
<1>9. Tallied(segments'[s], sparse_index', Overlay(s)', active_write_offset')
  BY <1>2, <1>3, <1>4, <1>6, <1>7
<1>. QED  BY <1>2, <1>3, <1>8, <1>9 DEF TallyInv

\* A sealed segment is not the active one any more.
LEMMA SealedLeaves ==
    ASSUME TypeOK, ControlInv, SealSequence, Sealed
    PROVE  ~Working'
<1>1. Pending' = Rest /\ todo # <<>> /\ At("sealed") /\ Pending = {Head(todo)} \cup Rest
  <2>1. Moves /\ At("sealed")
    BY DEF Moves, Sealed
  <2>. QED  BY <2>1, MovesControl, BehindEntry
<1>2. Has({"open_next", "select"})
  BY <1>1 DEF Has, Sealing, At, SealSequence
<1>3. \E x \in Rest : x[1] \in {"open_next", "select"}
  BY <1>1, <1>2 DEF Has, At
<1>4. \A y \in Rest : y[1] \notin Sealing
  BY <1>1, BehindSeal
<1>. QED  BY <1>1, <1>3, <1>4 DEF Working, Has, Unbound

\* Each step keeps the count and the sparse index of the active segment.
LEMMA NextTally ==
    ASSUME "io" \notin Faults
    PROVE  TypeOK /\ TypeOK' /\ ControlInv /\ SpaceInv /\ IdInv /\ RotationInv /\ GenerationInv /\ RetirementInv
               /\ SequenceInv /\ SequenceInv' /\ BufferInv /\ ActiveInv /\ TilesInv /\ SealSequence /\ TallyInv
               /\ [Next]_vars => TallyInv'
<1>. SUFFICES ASSUME TypeOK, TypeOK', ControlInv, SpaceInv, IdInv, RotationInv, GenerationInv, RetirementInv,
                     SequenceInv, SequenceInv', BufferInv, ActiveInv, TilesInv, SealSequence, TallyInv,
                     [Next]_vars, Working'
              PROVE  TallyInv'
  <2>1. ~Working' => TallyInv'
    BY DEF TallyInv
  <2>. QED  BY <2>1
<1>1. mode' # "off"
  BY DEF Working
<1>2. CASE UNCHANGED vars
  BY <1>2 DEF vars, medium, memory, control, TallyInv, Working, Has, Pending, Overlay
<1>3. CASE Recover \/ SealRecovered \/ SelectActive
  BY <1>3, AdoptTally
<1>4. CASE Activate
  <2>1. PICK s \in Slots, g \in Nat :
           /\ active_segment'.slot = s /\ segments'[s] = FreshSegment(g) /\ active_write_offset' = 0
    <3>1. NextSlot \in Slots /\ state.next_generation \in Nat
          /\ active_segment' = [slot |-> NextSlot, generation |-> state.next_generation]
          /\ segments'[NextSlot] = FreshSegment(state.next_generation) /\ active_write_offset' = 0
      BY <1>4, Activates
    <3>. QED  BY <3>1
  <2>2. sparse_index' = {} /\ Cardinality({}) = 0
    BY <1>4, FS_EmptySet DEF Activate
  <2>3. ~segments'[s].sealed /\ segments'[s].index_count = 0
    BY <2>1 DEF FreshSegment, NoSegment
  <2>4. Tallied(segments'[s], {}, Overlay(s)', 0)
    BY <2>1, TallyEmpty
  <2>. QED  BY <2>1, <2>2, <2>3, <2>4 DEF TallyInv
<1>5. CASE /\ Working /\ ~At("retire") /\ ~At("header")
           /\ Operations \/ Plain \/ NoEntry
  <2>1. PICK s \in Slots, g \in Nat :
           /\ s = active_segment.slot /\ g = active_segment.generation
           /\ s = active_segment'.slot /\ active_segment' = active_segment
    BY <1>5, ActiveCarried DEF TypeOK, MemoryTypeOK
  <2>2. PICK end \in 0 .. Capacity : end = active_write_offset
    BY CapacityAssumption DEF TypeOK, MemoryTypeOK, SpaceInv
  <2>3. /\ ~segments[s].sealed /\ segments[s].index_count = Cardinality(sparse_index)
        /\ Tallied(segments[s], sparse_index, Overlay(s), end)
    BY <1>5, <2>1, <2>2 DEF TallyInv
  <2>4. ASSUME ~segments'[s].sealed, segments'[s].index_count = Cardinality(sparse_index'),
               Tallied(segments'[s], sparse_index', Overlay(s)', active_write_offset')
        PROVE  TallyInv'
    BY <2>1, <2>4 DEF TallyInv
  <2>5. CASE PutEntry \/ AccountEntry
    <3>1. PICK id, n : /\ Account(id, n) /\ active_write_offset' = end + n
                       /\ Extends(Overlay(s)', Overlay(s), g, end, id, n)
      <4>1. CASE PutEntry
        BY <1>5, <2>1, <2>2, <4>1, EntryTilesPut DEF PutEntry
      <4>2. CASE AccountEntry
        BY <1>5, <2>1, <2>2, <4>2, EntryTilesAccounted DEF AccountEntry
      <4>. QED  BY <2>5, <4>1, <4>2
    <3>2. /\ segments'[s].sealed = segments[s].sealed /\ segments'[s].index_count = Cardinality(sparse_index')
          /\ segments'[s].entry_count = segments[s].entry_count + 1
          /\ sparse_index' = IF IndexesNext(segments[s]) THEN sparse_index \cup {id} ELSE sparse_index
      BY <2>1, <3>1, TallyAccount
    <3>3. Tallied(segments'[s], sparse_index', Overlay(s)', end + n)
      BY <2>3, <3>1, <3>2, TallyExtended
    <3>. QED  BY <2>3, <2>4, <3>1, <3>2, <3>3
  <2>6. CASE ~PutEntry /\ ~AccountEntry
    <3>1. \A o \in 0 .. end - 1 : Overlay(s)'[o] = Overlay(s)[o]
      BY <1>1, <1>5, <2>1, <2>2, <2>6, OverlayKept
    <3>2. ~Sealed
      BY SealedLeaves
    <3>3. UNCHANGED <<segments, sparse_index, active_write_offset>>
      BY <1>1, <1>5, <2>6, <3>2, TallyKept
    <3>4. Tallied(segments'[s], sparse_index', Overlay(s)', end)
      BY <2>3, <3>1, <3>3, TallySame
    <3>. QED  BY <2>2, <2>3, <2>4, <3>3, <3>4
  <2>. QED  BY <2>5, <2>6
<1>. QED  BY <1>2, <1>3, <1>4, <1>5, WorkingKept

-----------------------------------------------------------------------------
(* What the footers of a segment tell.                                     *)

\* The data of a segment with a footer are complete.
LEMMA SealedData ==
    ASSUME TypeOK, ControlInv, SpaceInv, SequenceInv, BufferInv, ActiveInv, SealActive, [Next]_vars, ~RotData,
           NEW s \in Slots, HeaderReadable(s), HasFooter(s, HeaderGeneration(s))
    PROVE  data'[s] = data[s]
<1>1. CASE ~(Working /\ s = active_segment.slot)
  BY <1>1, DataWritten
<1>2. CASE Working /\ s = active_segment.slot
  <2>1. Has(Sealing) /\ write_buf = <<>>
    BY <1>2 DEF ActiveInv, SealActive
  <2>2. ~At("write_buffer")
    <3>1. At("write_buffer") => Has({"write_buffer"})
      BY BehindEntry DEF At, Has
    <3>. QED  BY <2>1, <3>1 DEF SequenceInv, BufferInv
  <2>3. ~At("write_entry")
    <3>1. At("write_entry") => todo # <<>> /\ \A y \in Rest : y[1] \notin Sealing
      BY BehindData DEF At, Bypass
    <3>2. At("write_entry") => ~Has(Sealing)
      BY <3>1, BehindEntry DEF At, Has, Sealing
    <3>. QED  BY <2>1, <3>2
  <2>4. \A o : Write(o) => data' = data
    BY <2>2, <2>3 DEF Write, WriterWrite, WriteBuffer, WriteEntry, WriteIndex, WriteFooter, WriteHeader, Commit
  <2>. QED  BY <2>4, BytesWritten
<1>. QED  BY <1>1, <1>2

\* The checkpoint never retains again what it left out.
LEMMA CheckpointGrows ==
    ASSUME TypeOK, ControlInv, GenerationInv, RetirementInv, [Next]_vars
    PROVE  checkpoint.oldest_generation <= checkpoint'.oldest_generation
<1>1. checkpoint.oldest_generation \in Nat /\ state.oldest_generation \in Nat
  BY DEF TypeOK, MediumTypeOK, MemoryTypeOK, StateRecord
<1>2. CASE At("commit") /\ checkpoint' = state
  <2>1. CASE Choosing
    BY <1>1, <1>2, <2>1 DEF At, ControlInv, Choosing, GenerationInv
  <2>2. CASE ~Choosing
    BY <1>1, <1>2, <2>2 DEF RetirementInv, Retiring
  <2>. QED  BY <2>1, <2>2
<1>. QED  BY <1>1, <1>2, CheckpointWritten

\* A header that a rotation writes over a retired one is the only way to retain a slot.
LEMMA LiveBefore ==
    ASSUME TypeOK, TypeOK', ControlInv, RotationInv, GenerationInv, RetirementInv, [Next]_vars,
           NEW s \in Slots, Live(s)'
    PROVE  \/ Live(s) /\ HeaderGeneration(s)' = HeaderGeneration(s)
           \/ At("header") /\ ~Choosing /\ HeaderGeneration(s)' = state.next_generation
<1>1. checkpoint.oldest_generation <= checkpoint'.oldest_generation
      /\ checkpoint.oldest_generation \in Nat /\ checkpoint'.oldest_generation \in Nat
  BY CheckpointGrows DEF TypeOK, MediumTypeOK, StateRecord
<1>2. HeaderReadable(s)' /\ HeaderGeneration(s)' # 0 /\ HeaderGeneration(s)' >= checkpoint'.oldest_generation
  BY DEF Live
<1>3. CASE HeaderGenerations(s)' = HeaderGenerations(s)
  <2>1. HeaderGeneration(s)' = HeaderGeneration(s) /\ HeaderReadable(s)
    BY <1>2, <1>3 DEF HeaderGeneration, HeaderReadable
  <2>2. HeaderGeneration(s) \in Nat
    BY <2>1, HeaderGenerationType DEF TypeOK
  <2>. QED  BY <1>1, <1>2, <2>1, <2>2 DEF Live
<1>4. CASE At("header") /\ HeaderGenerations(s)' \subseteq HeaderGenerations(s) \cup {state.next_generation}
           /\ s = NextSlot
  <2>1. ~Choosing /\ state.next_generation < checkpoint.oldest_generation + SegmentCount
    BY <1>4, HeaderUnderway, HeaderRoom
  <2>2. PICK h : h = HeaderGeneration(s)'
    OBVIOUS
  <2>3. PICK S \in SUBSET Nat : S = HeaderGenerations(s)' /\ IsFiniteSet(S) /\ S # {}
    <3>1. headers'[s] \in [Copies -> Nat \cup {Garbage}]
      BY DEF TypeOK, MediumTypeOK
    <3>2. HeaderGenerations(s)' = {headers'[s][c] : c \in Copies} \ {Garbage}
      BY DEF HeaderGenerations
    <3>3. {headers'[s][c] : c \in Copies} = {headers'[s][0], headers'[s][1]}
      BY DEF Copies
    <3>4. IsFiniteSet({headers'[s][0], headers'[s][1]} \ {Garbage})
      <4>1. PICK a, b : a = headers'[s][0] /\ b = headers'[s][1]
        OBVIOUS
      <4>2. IsFiniteSet({} \cup {a})
        BY FS_EmptySet, FS_AddElement
      <4>3. IsFiniteSet(({} \cup {a}) \cup {b})
        BY <4>2, FS_AddElement
      <4>4. {a, b} \ {Garbage} \subseteq ({} \cup {a}) \cup {b}
        OBVIOUS
      <4>5. IsFiniteSet({a, b} \ {Garbage})
        BY <4>3, <4>4, FS_Subset
      <4>. QED  BY <4>1, <4>5
    <3>5. HeaderGenerations(s)' \in SUBSET Nat /\ IsFiniteSet(HeaderGenerations(s)')
      BY <3>1, <3>2, <3>3, <3>4
    <3>. QED  BY <1>2, <3>5 DEF HeaderReadable
  <2>4. h \in HeaderGenerations(s)'
    BY <2>2, <2>3, MaxBound DEF HeaderGeneration
  <2>5. CASE h = state.next_generation
    BY <1>4, <2>1, <2>2, <2>5
  <2>6. CASE h \in HeaderGenerations(s) /\ h # state.next_generation
    <3>1. PICK n : n = state.next_generation /\ Upcoming(n)
      BY <2>1 DEF GenerationInv, Chosen
    <3>2. h \in Nat \ {0} /\ h <= n /\ Home(h) = s /\ n \in Nat /\ n >= 2
      BY <1>2, <2>2, <2>6, <3>1, HeaderHome
    <3>3. Home(n) = s
      BY <1>4, <2>1, <3>1, NextHome
    <3>4. h + SegmentCount <= n
      BY <2>6, <3>1, <3>2, <3>3, HomeApart
    <3>5. h < checkpoint.oldest_generation
      BY <1>1, <2>1, <3>1, <3>2, <3>4, SegmentCountAssumption
    <3>. QED  BY <1>1, <1>2, <2>2, <3>2, <3>5
  <2>. QED  BY <1>4, <2>4, <2>5, <2>6
<1>. QED
  <2>1. headers' = headers => HeaderGenerations(s)' = HeaderGenerations(s)
    BY DEF HeaderGenerations
  <2>. QED  BY <1>3, <1>4, <2>1, HeadersWritten

\* write_segment_footers tells what the active segment holds.
LEMMA ActiveFooterTrue ==
    ASSUME TypeOK, ControlInv, SpaceInv, SequenceInv, BufferInv, ActiveInv, TilesInv, SumsInv, TallyInv,
           Working, At("footer"), NEW s \in Slots, s = active_segment.slot
    PROVE  FooterTrue(s, active_segment.generation, ActiveFooter)
<1>1. write_buf = <<>>
  <2>1. todo # <<>> /\ Pending = {Head(todo)} \cup Rest /\ \A y \in Rest : y[1] # "flushed"
    BY BehindEntry, BehindData DEF At, Sealing
  <2>2. Has(Sealing) /\ ~Has({"flushed"}) /\ ~At("flush")
    BY <2>1 DEF Has, At, Sealing
  <2>. QED  BY <2>2 DEF BufferInv, Has
<1>2. PICK end \in 0 .. Capacity : end = active_write_offset
  BY CapacityAssumption DEF TypeOK, MemoryTypeOK, SpaceInv
<1>3. Tiled(data[s], active_segment.generation, end)
  BY <1>1, <1>2, FlushedTiles DEF FlushedTo
<1>4. \A o \in 0 .. end - 1 : data[s][o] = Overlay(s)[o]
  <2>1. \A o \in 0 .. end - 1 : o \in Offsets
    BY CapacityAssumption DEF Offsets
  <2>2. \A o \in Offsets : ~(o - write_buf_offset + 1 \in 1 .. Len(write_buf))
    BY <1>1
  <2>. QED  BY <2>1, <2>2, OverlayNow
<1>5. PICK d \in Descriptor : d = segments[s]
  BY DEF TypeOK, MemoryTypeOK
<1>6. PICK f : f = ActiveFooter
  OBVIOUS
<1>7. /\ f.entry_count = d.entry_count /\ f.first_entry_id = d.first_entry_id
      /\ f.last_entry_id = d.last_entry_id /\ f.data_end = end /\ f.index = sparse_index
  <2>1. d.data_end = end
    BY <1>2, <1>5 DEF ActiveInv
  <2>. QED  BY <1>5, <1>6, <2>1 DEF ActiveFooter
<1>8. SumsUp(f, data[s], end)
  <2>1. SumsUp(d, Overlay(s), end)
    BY <1>2, <1>5 DEF SumsInv
  <2>2. end \in Nat
    BY CapacityAssumption
  <2>. QED  BY <1>4, <1>7, <2>1, <2>2, SumsSame
<1>9. Tallied(f, sparse_index, data[s], end)
  <2>1. Tallied(d, sparse_index, Overlay(s), end)
    BY <1>2, <1>5 DEF TallyInv
  <2>. QED  BY <1>4, <1>7, <2>1, TallySame
<1>10. end <= Capacity
  BY CapacityAssumption
<1>. QED  BY <1>3, <1>6, <1>7, <1>8, <1>9, <1>10 DEF FooterTrue

\* Each step keeps what the footers of the retained segments tell.
LEMMA NextFooter ==
    ASSUME "data" \notin Faults
    PROVE  TypeOK /\ TypeOK' /\ ControlInv /\ SpaceInv /\ RotationInv /\ GenerationInv /\ RetirementInv
               /\ SequenceInv /\ BufferInv /\ ActiveInv /\ TilesInv /\ SealActive /\ SealNumbers /\ SumsInv
               /\ TallyInv /\ FooterInv /\ [Next]_vars => FooterInv'
<1>. SUFFICES ASSUME TypeOK, TypeOK', ControlInv, SpaceInv, RotationInv, GenerationInv, RetirementInv,
                     SequenceInv, BufferInv, ActiveInv, TilesInv, SealActive, SealNumbers, SumsInv,
                     TallyInv, FooterInv, [Next]_vars, NEW s \in Slots, NEW c \in Copies, Live(s)',
                     FooterValid(s, HeaderGeneration(s), c)'
              PROVE  FooterTrue(s, HeaderGeneration(s), footers[s][c])'
  BY DEF FooterInv
<1>0. ~RotData
  BY DEF RotData, Fault
<1>1. PICK g : g = HeaderGeneration(s)'
  OBVIOUS
<1>2. PICK f : f = footers'[s][c] /\ f # Garbage /\ f.generation = g
  BY <1>1 DEF FooterValid
<1>3. SUFFICES data'[s] = data[s] /\ FooterTrue(s, g, f)
  BY <1>1, <1>2 DEF FooterTrue
<1>4. CASE At("header") /\ ~Choosing /\ g = state.next_generation
  <2>1. footers' = footers
    BY <1>4, FootersWritten DEF At
  <2>2. f.generation <= state.next_generation - 1
    BY <1>2, <1>4, <2>1 DEF SealNumbers, FootersUpTo
  <2>3. state.next_generation \in Nat
    BY DEF TypeOK, MemoryTypeOK, StateRecord
  <2>. QED  BY <1>2, <1>4, <2>2, <2>3
<1>5. CASE Live(s) /\ g = HeaderGeneration(s) /\ footers'[s][c] = footers[s][c]
  <2>1. FooterValid(s, g, c)
    <3>1. FooterValid(s, g, c)'
      BY <1>1
    <3>. QED  BY <1>5, <3>1 DEF FooterValid
  <2>2. FooterTrue(s, g, f)
    BY <1>2, <1>5, <2>1 DEF FooterInv
  <2>3. data'[s] = data[s]
    BY <1>0, <1>5, <2>1, SealedData DEF HasFooter, Live
  <2>. QED  BY <2>2, <2>3
<1>6. CASE Live(s) /\ g = HeaderGeneration(s) /\ footers'[s][c] # footers[s][c]
  <2>1. At("footer") /\ Working /\ s = active_segment.slot /\ f = ActiveFooter
    BY <1>2, <1>6, FootersWritten
  <2>2. g = active_segment.generation
    BY <1>6, <2>1 DEF ActiveInv
  <2>3. FooterTrue(s, g, f)
    BY <2>1, <2>2, ActiveFooterTrue
  <2>4. \A o : Write(o) => data' = data
    BY <2>1 DEF Write, WriterWrite, WriteBuffer, WriteEntry, WriteIndex, WriteFooter, WriteHeader, Commit, At
  <2>. QED  BY <1>0, <2>3, <2>4, BytesWritten
<1>. QED  BY <1>1, <1>4, <1>5, <1>6, LiveBefore

-----------------------------------------------------------------------------
(* What sealing leaves on the medium.                                      *)

\* A seal writes the index, then the second footer.
LEMMA SealHas ==
    /\ {Do("write_index"), <<"footer", 1>>} \subseteq StepsOf(SealSteps)
    /\ {Do("write_index"), <<"footer", 1>>} \subseteq StepsOf(SealSteps \o <<Do("open_next")>>)
    /\ \A s \in Slots : {Do("write_index"), <<"footer", 1>>} \subseteq StepsOf(ResealSteps(s))
<1>1. SealSteps \in Seq(Steps) /\ <<Do("close_writer")>> \in Seq(Steps) /\ <<Do("open_next")>> \in Seq(Steps)
  BY SealStepsType, DoType
<1>2. SealSteps[2] = Do("write_index") /\ 2 \in DOMAIN SealSteps
      /\ SealSteps[4] = <<"footer", 1>> /\ 4 \in DOMAIN SealSteps
  BY DEF SealSteps
<1>3. {Do("write_index"), <<"footer", 1>>} \subseteq StepsOf(SealSteps)
  BY <1>2 DEF StepsOf
<1>4. StepsOf(SealSteps \o <<Do("open_next")>>) = StepsOf(SealSteps) \cup StepsOf(<<Do("open_next")>>)
  BY <1>1, StepsOfConcat
<1>5. ASSUME NEW s \in Slots PROVE StepsOf(SealSteps) \subseteq StepsOf(ResealSteps(s))
  <2>1. PICK first \in Seq(Steps) : first = <<<<"open_writer", s>>>>
    <3>1. <<"open_writer", s>> \in Steps
      BY SlotStepType
    <3>2. <<<<"open_writer", s>>>> \in Seq(Steps)
      BY <3>1
    <3>. QED  BY <3>2
  <2>2. PICK last \in Seq(Steps) : last = <<Do("close_writer")>>
    BY <1>1
  <2>3. PICK both \in Seq(Steps) : both = first \o SealSteps
    BY <1>1, ConcatValues
  <2>4. StepsOf(both) = StepsOf(first) \cup StepsOf(SealSteps)
    BY <1>1, <2>3, StepsOfConcat
  <2>5. StepsOf(both \o last) = StepsOf(both) \cup StepsOf(last)
    BY StepsOfConcat
  <2>6. ResealSteps(s) = both \o last
    BY <2>1, <2>2, <2>3 DEF ResealSteps
  <2>. QED  BY <2>4, <2>5, <2>6
<1>. QED  BY <1>3, <1>4, <1>5

\* The index region is written in a seal only, or lost while the store is closed.
LEMMA IndexWritten ==
    ASSUME TypeOK, ControlInv, SpaceInv, SequenceInv, BufferInv, ActiveInv, [Next]_vars, mode # "off"
    PROVE  \/ index' = index
           \/ /\ At("write_index") /\ Working
              /\ \A s \in Slots : s # active_segment.slot => index'[s] = index[s]
<1>1. index' = index \/ \E o \in Outcomes : Write(o)
  BY DEF Next, Step, vars, medium, WriteDone, WriteError, NoWriter, OpenWriter, OpenWriterError, CloseWriter,
         Flush, Flushed, PrepareSpace, NoEntry, PutEntry, ReserveEntry, AccountEntry, Acknowledge,
         Sealed, OpenNext, Retire, Activate, Recover, PickHighest, SealRecovered, SelectActive, Settle,
         CountBoot, AppendBoot, Ready, Close, StartInit, AppendEntry, FlushWrite, Deinit, RotIndex, RotData, Crash,
         Outcomes
<1>2. ASSUME NEW o \in Outcomes, Write(o), index' # index
      PROVE  At("write_index") /\ index' = [index EXCEPT ![writer_fd] = Land(@, sparse_index, o)]
  BY <1>2 DEF Write, WriterWrite, WriteBuffer, WriteEntry, WriteIndex, WriteFooter, WriteHeader, Commit
<1>3. At("write_index") => Working /\ writer_fd = active_segment.slot
  BY WriterOpen
<1>. QED  BY <1>1, <1>2, <1>3 DEF TypeOK, MediumTypeOK

\* Each step keeps the order in which a seal writes.
LEMMA NextWritten ==
    ASSUME "io" \notin Faults
    PROVE  TypeOK /\ TypeOK' /\ ControlInv /\ ControlInv' /\ SpaceInv /\ IdInv /\ RotationInv /\ GenerationInv
               /\ RetirementInv /\ SequenceInv /\ SequenceInv' /\ BufferInv /\ ActiveInv /\ SealSequence
               /\ WrittenInv /\ [Next]_vars => WrittenInv'
<1>. SUFFICES ASSUME TypeOK, TypeOK', ControlInv, ControlInv', SpaceInv, IdInv, RotationInv, GenerationInv,
                     RetirementInv, SequenceInv, SequenceInv', BufferInv, ActiveInv, SealSequence, WrittenInv,
                     [Next]_vars, Has(Sealing)'
              PROVE  WrittenInv'
  <2>1. ~Has(Sealing)' => WrittenInv'
    BY DEF WrittenInv
  <2>. QED  BY <2>1
<1>1. mode' # "off" /\ Working' /\ Pending' # {}
  BY DEF ControlInv, Has, Pending, StepsOf, Working
<1>2. CASE UNCHANGED vars
  BY <1>2 DEF vars, medium, memory, control, WrittenInv, Has, Pending, ActiveFooter
<1>3. ASSUME {Do("write_index"), <<"footer", 1>>} \subseteq Pending' PROVE WrittenInv'
  BY <1>3 DEF WrittenInv, Has, Do
<1>4. CASE ~UNCHANGED vars /\ (Recover \/ SealRecovered \/ SelectActive)
  <2>1. todo # <<>> /\ (At("recover") \/ At("seal_recovered") \/ At("select"))
    BY <1>4 DEF Recover, SealRecovered, SelectActive, At
  <2>2. \A y \in Rest : y[1] \notin Sealing
    BY <2>1, BehindAppend DEF At
  <2>3. Pending' # Rest
    BY <2>2 DEF Has
  <2>4. CASE Recover
    BY <1>1, <1>3, <2>3, <2>4, RecoverControl, SealHas
  <2>5. CASE SealRecovered
    BY <1>1, <1>3, <2>3, <2>5, SealRecoveredControl, SealHas
  <2>6. CASE SelectActive
    <3>1. HighestSlot(segments) \in Slots
          /\ \/ Pending' = StepsOf(<<<<"open_writer", HighestSlot(segments)>>>>) \cup Rest
             \/ Pending' = StepsOf(<<Do("open_next")>>) \cup Rest
      BY <1>1, <2>6, SelectControl
    <3>2. StepsOf(<<<<"open_writer", HighestSlot(segments)>>>>) = {<<"open_writer", HighestSlot(segments)>>}
          /\ StepsOf(<<Do("open_next")>>) = {Do("open_next")}
      BY <3>1, CallNames
    <3>. QED  BY <2>2, <3>1, <3>2 DEF Has, Do, Sealing
  <2>. QED  BY <1>4, <2>4, <2>5, <2>6
<1>5. CASE Activate
  BY <1>5, Activates DEF Has
<1>6. CASE Operations \/ NoEntry
  <2>1. ~Operations
    BY OperationsPending DEF Has
  <2>2. ~NoEntry
    BY <1>1, FailControl DEF NoEntry
  <2>. QED  BY <1>6, <2>1, <2>2
<1>7. CASE Plain /\ Working /\ ~At("retire") /\ ~At("header")
  <2>1. todo # <<>> /\ Pending = {Head(todo)} \cup Rest
    BY <1>1, <1>7, PlainPending
  <2>2. CASE PrepareSpace
    <3>1. At("prepare")
      BY <2>2 DEF PrepareSpace
    <3>2. \A y \in Rest : y[1] \notin Sealing
      BY <2>1, <3>1, BehindData
    <3>3. Pending' # Rest
      BY <3>2 DEF Has
    <3>. QED  BY <1>3, <2>2, <3>3, PrepareControl, SealHas
  <2>3. CASE ~PrepareSpace
    <3>1. PICK new : /\ Pending' = new \cup Rest
                     /\ ~\E x \in new : x[1] \in Sealing
      BY <1>1, <1>7, <2>3, PlainPending
    <3>2. \E x \in Rest : x[1] \in Sealing
      BY <3>1 DEF Has
    <3>3. Has(Sealing)
      BY <2>1, <3>2 DEF Has
    <3>4. ~PutEntry /\ ~AccountEntry /\ ~Sealed
      <4>1. ~At("put") /\ ~At("account") /\ ~At("sealed")
        BY <2>1, <3>2, BehindData, BehindSeal DEF Bypass
      <4>. QED  BY <4>1 DEF PutEntry, AccountEntry, Sealed
    <3>5. UNCHANGED <<segments, sparse_index, active_segment>>
      <4>1. UNCHANGED <<segments, sparse_index>>
        BY <1>1, <1>7, <3>4, TallyKept
      <4>2. active_segment.slot \in Slots
        BY DEF TypeOK, MemoryTypeOK
      <4>. QED  BY <1>1, <1>7, <4>1, <4>2, SealsKept
    <3>6. ActiveFooter' = ActiveFooter
      BY <3>5 DEF ActiveFooter
    <3>7. PICK s \in Slots : s = active_segment.slot
      BY DEF TypeOK, MemoryTypeOK
    <3>8. mode # "off"
      BY <1>7 DEF Working
    <3>9. Has({"write_index"})' \/ sparse_index = {} \/ index'[s] = sparse_index
      <4>1. CASE At("write_index")
        <5>1. WriteDone /\ writer_fd = s
          BY <1>7, <3>7, <4>1, WriterOpen DEF Plain, At, WriteDone, OpenWriter, Flushed, PutEntry, ReserveEntry,
             AccountEntry, Acknowledge, Sealed, Settle, Flush, PrepareSpace, Retire, CountBoot, AppendBoot, Ready
        <5>2. WriteIndex("new")
          BY <4>1, <5>1 DEF WriteDone, Write, WriterWrite, WriteBuffer, WriteEntry, WriteFooter, WriteHeader, Commit, At
        <5>3. Land(index[s], sparse_index, "new") = sparse_index
          BY DEF Land
        <5>. QED  BY <5>1, <5>2, <5>3 DEF WriteIndex, TypeOK, MediumTypeOK
      <4>2. CASE ~At("write_index")
        <5>1. index' = index
          BY <3>8, <4>2, IndexWritten
        <5>2. Has({"write_index"}) => Has({"write_index"})'
          BY <2>1, <3>1, <4>2 DEF Has, At
        <5>. QED  BY <3>3, <3>7, <5>1, <5>2 DEF WrittenInv
      <4>. QED  BY <4>1, <4>2
    <3>10. <<"footer", 1>> \in Pending' \/ footers'[s][1] = ActiveFooter
      <4>1. CASE Head(todo) = <<"footer", 1>>
        <5>1. At("footer") /\ Arg = 1
          BY <2>1, <4>1 DEF At, Arg
        <5>2. WriteDone /\ writer_fd = s
          BY <1>7, <3>7, <5>1, WriterOpen DEF Plain, At, WriteDone, OpenWriter, Flushed, PutEntry, ReserveEntry,
             AccountEntry, Acknowledge, Sealed, Settle, Flush, PrepareSpace, Retire, CountBoot, AppendBoot, Ready
        <5>3. WriteFooter("new")
          BY <5>1, <5>2 DEF WriteDone, Write, WriterWrite, WriteBuffer, WriteEntry, WriteIndex, WriteHeader, Commit, At
        <5>4. Land(footers[s][1], ActiveFooter, "new") = ActiveFooter
          BY DEF Land
        <5>5. 1 \in Copies
          BY DEF Copies
        <5>. QED  BY <5>1, <5>2, <5>3, <5>4, <5>5 DEF WriteFooter, TypeOK, MediumTypeOK
      <4>2. CASE Head(todo) # <<"footer", 1>>
        <5>1. <<"footer", 1>> \in Pending => <<"footer", 1>> \in Pending'
          BY <2>1, <3>1, <4>2
        <5>2. <<"footer", 1>> \in Pending \/ footers[s][1] = ActiveFooter
          BY <3>3, <3>7 DEF WrittenInv
        <5>3. CASE ~At("footer")
          <6>1. footers' = footers
            BY <5>3, FootersWritten
          <6>. QED  BY <5>1, <5>2, <6>1
        <5>4. CASE At("footer")
          <6>1. Arg = 0
            <7>1. Head(todo) \in Steps /\ Head(todo)[1] = "footer" /\ Arg \in Copies
              BY <2>1, <5>4, ArgType DEF At, TypeOK
            <7>2. Head(todo) = <<Head(todo)[1], Head(todo)[2]>>
              BY <7>1 DEF Steps
            <7>. QED  BY <4>2, <7>1, <7>2 DEF Arg, Copies
          <6>2. footers'[s][1] = footers[s][1]
            <7>1. \A o : Write(o) => WriteFooter(o)
              BY <5>4 DEF Write, WriterWrite, WriteBuffer, WriteEntry, WriteIndex, WriteHeader, Commit, At
            <7>2. footers' = footers \/ \E o : footers' = [footers EXCEPT ![writer_fd][Arg] = Land(@, ActiveFooter, o)]
              BY <7>1, BytesWritten DEF WriteFooter
            <7>3. footers \in [Slots -> [Copies -> FooterRecord \cup {Garbage}]] /\ 0 \in Copies /\ 1 \in Copies
              BY DEF TypeOK, MediumTypeOK, Copies
            <7>4. ASSUME NEW o, footers' = [footers EXCEPT ![writer_fd][0] = Land(@, ActiveFooter, o)]
                  PROVE  footers'[s][1] = footers[s][1]
              BY <7>3, <7>4
            <7>. QED  BY <6>1, <7>2, <7>4
          <6>. QED  BY <5>1, <5>2, <6>2
        <5>. QED  BY <5>3, <5>4
      <4>. QED  BY <4>1, <4>2
    <3>. QED  BY <3>5, <3>6, <3>7, <3>9, <3>10 DEF WrittenInv
  <2>. QED  BY <2>2, <2>3
<1>. QED  BY <1>1, <1>2, <1>4, <1>5, <1>6, <1>7, WorkingKept

-----------------------------------------------------------------------------
(* Only one segment is open.                                               *)

\* The second loop of the recovery is still to come when the highest slot is picked.
LEMMA SealsAhead ==
    ASSUME TypeOK, ControlInv, ControlInv', [Next]_vars, OpenInv, Has({"highest"})', NEW s \in Slots
    PROVE  <<"seal_recovered", s>> \in Pending'
<1>1. CASE StartInit
  BY <1>1, InitHas DEF StartInit, Pending
<1>2. CASE UNCHANGED vars
  BY <1>2 DEF vars, control, Has, Pending, OpenInv
<1>3. CASE ~StartInit /\ ~UNCHANGED vars
  <2>1. PICK x \in Pending' : x[1] = "highest"
    BY DEF Has
  <2>2. x \in Pending /\ todo # <<>> /\ Rest \subseteq Pending' /\ x \in Rest
    BY <1>3, <2>1, BootPart DEF Booting, Recovering
  <2>3. <<"seal_recovered", s>> \in Pending
    BY <2>1, <2>2 DEF Has, OpenInv
  <2>4. Pending = {Head(todo)} \cup Rest /\ ~At("seal_recovered")
    BY <2>1, <2>2, BehindEntry, BehindStep
  <2>5. Head(todo) # <<"seal_recovered", s>>
    BY <2>2, <2>4 DEF At
  <2>. QED  BY <2>2, <2>3, <2>4, <2>5
<1>. QED  BY <1>1, <1>2, <1>3

\* A plain step leaves the segments as open or closed as they are, or closes the active one.
LEMMA PlainCloses ==
    ASSUME TypeOK, Plain, mode' # "off", NEW s \in Slots
    PROVE  /\ active_segment' = active_segment
           /\ Closed(s) => Closed(s)'
           /\ Sealed /\ s = active_segment.slot => Closed(s)'
<1>1. CASE At("retire")
  <2>1. Retire /\ ~Sealed
    BY <1>1 DEF Plain, WriteDone, OpenWriter, Flushed, PutEntry, ReserveEntry, AccountEntry, Acknowledge, Sealed,
       Settle, Flush, PrepareSpace, CountBoot, AppendBoot, Ready, At, Write, WriterWrite, WriteBuffer, WriteEntry,
       WriteIndex, WriteFooter, WriteHeader, Commit
  <2>2. active_segment' = active_segment /\ (segments' = segments \/ segments' = [segments EXCEPT ![Arg] = NoSegment])
    BY <2>1 DEF Retire
  <2>3. segments'[s] = segments[s] \/ ~segments'[s].valid
    BY <2>2 DEF TypeOK, MemoryTypeOK, NoSegment
  <2>. QED  BY <2>1, <2>2, <2>3 DEF Closed
<1>2. CASE ~At("retire")
  <2>1. /\ segments'[s].valid = segments[s].valid
        /\ segments'[s].sealed = segments[s].sealed \/ (Sealed /\ s = active_segment.slot /\ segments'[s].sealed)
        /\ active_segment' = active_segment
    BY <1>2, SealsKept
  <2>2. Sealed /\ s = active_segment.slot => segments'[s].sealed
    BY DEF Sealed, TypeOK, MemoryTypeOK, Descriptor
  <2>. QED  BY <2>1, <2>2 DEF Closed
<1>. QED  BY <1>1, <1>2

\* The segment that a rotation leaves is closed.
LEMMA LeftClosed ==
    ASSUME TypeOK, ControlInv, ControlInv', SpaceInv, RotationInv, GenerationInv, SequenceInv, ActiveInv,
           SealSequence, OpenInv, [Next]_vars, "io" \notin Faults, Has(Rotation)', ~Has(Sealing)'
    PROVE  Closed(active_segment.slot)'
<1>1. mode' # "off" /\ Pending' # {}
  BY DEF ControlInv, Has, Pending, StepsOf
<1>2. CASE UNCHANGED vars
  BY <1>2 DEF vars, memory, control, Has, Pending, OpenInv, Closed
<1>3. ~StartInit
  <2>. SUFFICES ASSUME StartInit PROVE FALSE
    OBVIOUS
  <2>1. \A x \in Pending' : x[1] \in {"recover", "highest", "seal_recovered"} \cup LastNames
    BY InitList DEF StartInit, Pending, IsList
  <2>. QED  BY <2>1 DEF Has, LastNames, Rotation
<1>4. ~Operations
  BY OperationsPending DEF Has, Leaves, Rotation
<1>5. ~NoWriter /\ ~NoEntry
  BY <1>1, FailControl DEF NoWriter, NoEntry
<1>6. ~Activate
  BY Activates DEF Has
<1>7. PICK s \in Slots : s = active_segment.slot
  BY DEF TypeOK, MemoryTypeOK
<1>8. CASE Plain
  <2>1. todo # <<>> /\ Pending = {Head(todo)} \cup Rest
    BY <1>1, <1>8, PlainPending
  <2>2. CASE PrepareSpace
    <3>1. \A y \in Rest : y[1] \notin Rotation
      BY <2>1, <2>2, BehindData DEF PrepareSpace
    <3>2. Pending' # Rest
      BY <3>1 DEF Has
    <3>3. Do("write_index") \in Pending'
      BY <2>2, <3>2, PrepareControl, SealHas
    <3>. QED  BY <3>3 DEF Has, Do, Sealing
  <2>3. CASE ~PrepareSpace
    <3>1. PICK new : /\ Pending' = new \cup Rest
                     /\ \A x \in new : x[1] \notin Leaves
                     /\ ~\E x \in new : x[1] \in Sealing \cup {"open_next"}
      BY <1>1, <1>8, <2>3, PlainPending
    <3>2. Has(Rotation)
      BY <2>1, <3>1 DEF Has, Leaves, Rotation
    <3>3. /\ active_segment' = active_segment
          /\ Closed(s) => Closed(s)'
          /\ Sealed /\ s = active_segment.slot => Closed(s)'
      BY <1>1, <1>8, PlainCloses
    <3>4. Closed(s) \/ Sealed
      BY <1>1, <1>7, <1>8, <3>2, SealOngoing DEF OpenInv
    <3>5. Closed(s)'
      BY <1>7, <3>3, <3>4
    <3>. QED  BY <1>7, <3>3, <3>5 DEF Closed
  <2>. QED  BY <2>2, <2>3
<1>9. CASE OpenNext
  <2>1. todo # <<>> /\ UNCHANGED memory /\ At("open_next")
    BY <1>9, OpenNextCalls DEF OpenNext
  <2>2. Has(Rotation) /\ ~Has(Sealing)
    <3>1. \A y \in Rest : y[1] \notin Sealing
      BY <2>1, BehindData DEF Rotation
    <3>. QED  BY <2>1, <3>1, BehindEntry DEF Has, At, Rotation, Sealing
  <2>. QED  BY <2>1, <2>2 DEF OpenInv, Closed, memory
<1>10. ASSUME Has({"select"}), NEW new, Pending' = new \cup Rest, \A x \in new : x[1] \notin Rotation, todo # <<>>
       PROVE  FALSE
  BY <1>10, BehindEntry DEF RotationInv, Has, Rotation
<1>11. ~CloseWriter
  <2>. SUFFICES ASSUME CloseWriter PROVE FALSE
    OBVIOUS
  <2>1. Pending' = {} \cup Rest /\ todo # <<>> /\ At("close_writer")
    BY MovesControl DEF Moves, CloseWriter
  <2>2. Has({"select"})
    BY <2>1, BehindEntry DEF SequenceInv, Has, At
  <2>3. \A y \in Rest : y[1] \notin Rotation
    BY <2>1, <2>2, BehindEntry DEF RotationInv, Has, Rotation
  <2>. QED  BY <2>1, <2>3 DEF Has
<1>12. ~PickHighest
  <2>. SUFFICES ASSUME PickHighest PROVE FALSE
    OBVIOUS
  <2>1. Pending' = {} \cup Rest /\ todo # <<>> /\ At("highest")
    BY <1>1, SetStateControl DEF PickHighest
  <2>2. Has({"select"})
    BY <2>1, BehindEntry DEF RotationInv, Has, At
  <2>3. \A y \in Rest : y[1] \notin Rotation
    BY <2>1, <2>2, BehindEntry DEF RotationInv, Has, Rotation
  <2>. QED  BY <2>1, <2>3 DEF Has
<1>13. ~Recover
  <2>. SUFFICES ASSUME Recover PROVE FALSE
    OBVIOUS
  <2>1. todo # <<>> /\ Arg \in Slots /\ At("recover")
        /\ (Pending' = {} \cup Rest \/ Pending' = StepsOf(ResealSteps(Arg)) \cup Rest)
    BY <1>1, RecoverControl DEF Recover
  <2>2. Has({"select"})
    BY <2>1, BehindEntry DEF RotationInv, Has, At
  <2>3. \A x \in StepsOf(ResealSteps(Arg)) : x[1] \notin Rotation
    BY <2>1, CallNames DEF ResealNames, SealNames, Rotation
  <2>. QED  BY <1>10, <2>1, <2>2, <2>3
<1>14. ~SealRecovered
  <2>. SUFFICES ASSUME SealRecovered PROVE FALSE
    OBVIOUS
  <2>1. todo # <<>> /\ Arg \in Slots /\ At("seal_recovered")
        /\ (Pending' = {} \cup Rest \/ Pending' = StepsOf(ResealSteps(Arg)) \cup Rest)
    BY <1>1, SealRecoveredControl DEF SealRecovered
  <2>2. Has({"select"})
    BY <2>1, BehindEntry DEF RotationInv, Has, At
  <2>3. \A x \in StepsOf(ResealSteps(Arg)) : x[1] \notin Rotation
    BY <2>1, CallNames DEF ResealNames, SealNames, Rotation
  <2>. QED  BY <1>10, <2>1, <2>2, <2>3
<1>15. CASE SelectActive
  <2>1. PICK t \in Slots : t = HighestSlot(segments)
    BY <1>15, SelectControl
  <2>2. todo # <<>> /\ Has({"select"})
    BY <1>15, SelectControl, BehindEntry DEF SelectActive, Has, At
  <2>3. StepsOf(<<<<"open_writer", t>>>>) = {<<"open_writer", t>>}
    BY CallNames
  <2>4. \/ Pending' = StepsOf(<<<<"open_writer", t>>>>) \cup Rest
        \/ segments[t].sealed /\ segments' = segments /\ active_segment'.slot = t
    BY <1>1, <1>15, <2>1, SelectControl
  <2>5. Pending' # StepsOf(<<<<"open_writer", t>>>>) \cup Rest
    BY <1>10, <2>2, <2>3 DEF Rotation
  <2>. QED  BY <2>4, <2>5 DEF Closed
<1>. QED
  BY <1>1, <1>2, <1>3, <1>4, <1>5, <1>6, <1>8, <1>9, <1>11, <1>12, <1>13, <1>14, <1>15, Kinds

\* The generation that is chosen stays the only one that may be open.
LEMMA OpenPlain ==
    ASSUME TypeOK, TypeOK', ControlInv, RotationInv, SealSequence, Plain, [Next]_vars, mode # "off", mode' # "off",
           NEW s \in Slots, Closed(s) \/ Open(s)
    PROVE  Closed(s)' \/ Open(s)'
<1>1. /\ active_segment' = active_segment
      /\ Closed(s) => Closed(s)'
      /\ Sealed /\ s = active_segment.slot => Closed(s)'
  BY PlainCloses
<1>2. ~At("select") /\ ~At("highest") /\ ~At("activate") /\ ~At("seal_recovered")
  BY PlainHead
<1>3. Has({"select"})' <=> Has({"select"})
  BY <1>2, SelectKept
<1>4. CASE ~Has({"select"})
  BY <1>1, <1>3, <1>4 DEF Open
<1>5. CASE Has({"select"})
  <2>1. todo # <<>> /\ Pending = {Head(todo)} \cup Rest /\ Rest \subseteq Pending'
    BY PlainPending
  <2>2. ~At("retire") /\ ~At("settle")
    <3>1. \E x \in Rest : x[1] = "select"
      BY <1>2, <1>5, <2>1 DEF Has, At
    <3>2. At("settle") => \A y \in Rest : y[1] # "select"
      BY <2>1, BehindStep
    <3>3. ~At("retire")
      BY <1>5, <2>1 DEF RotationInv, Has, At
    <3>. QED  BY <3>1, <3>2, <3>3
  <2>3. state'.active_slot = state.active_slot
    BY <1>2, <2>2, NumbersKept
  <2>4. <<"seal_recovered", s>> \in Pending => <<"seal_recovered", s>> \in Pending'
    BY <1>2, <2>1 DEF At
  <2>5. Closing(s) => Closing(s)' \/ Closed(s)'
    BY <1>1, SealOngoing DEF Closing
  <2>. QED  BY <1>1, <1>3, <1>5, <2>3, <2>4, <2>5 DEF Open
<1>. QED  BY <1>4, <1>5

\* The step that seals a segment left behind has it open while it does.
LEMMA OpenSealed ==
    ASSUME TypeOK, TypeOK', ControlInv, IdInv, RotationInv, GenerationInv, SealRecovered, [Next]_vars, ~Choosing,
           mode' # "off", NEW s \in Slots, Closed(s) \/ Open(s)
    PROVE  Closed(s)' \/ Open(s)'
<1>1. Has({"select"}) /\ Has({"select"})' /\ state' = state
  BY SealRecoveredEffect
<1>2. /\ Arg \in Slots /\ todo # <<>> /\ At("seal_recovered") /\ Pending = {Head(todo)} \cup Rest
      /\ \/ Fail /\ Pending' = {}
         \/ UNCHANGED <<mode, memory>> /\ Pending' = Rest
         \/ /\ Adopt(Arg, HeaderGeneration(Arg))
            /\ Pending' = StepsOf(ResealSteps(Arg)) \cup Rest
  BY SealRecoveredControl, BehindEntry DEF SealRecovered
<1>3. Pending' # {}
  BY <1>1 DEF Has
<1>4. ~Has(Sealing)
  <2>1. \A y \in Rest : y[1] \notin Sealing
    BY <1>2, BehindAppend
  <2>. QED  BY <1>2, <2>1 DEF Has, At, Sealing
<1>5. Closed(s) \/ s = state.active_slot \/ <<"seal_recovered", s>> \in Pending
  BY <1>1, <1>4 DEF Open, Closing
<1>6. CASE s # Arg
  <2>1. Head(todo) # <<"seal_recovered", s>>
    BY <1>6 DEF Arg
  <2>2. segments'[s] = segments[s]
    BY <1>2, <1>3, <1>6 DEF Adopt, memory, TypeOK, MemoryTypeOK
  <2>. QED  BY <1>1, <1>2, <1>3, <1>5, <2>1, <2>2 DEF Closed, Open
<1>7. CASE s = Arg /\ UNCHANGED <<mode, memory>> /\ Pending' = Rest
  <2>1. ~LeftBehind(s)
    <3>1. SegmentCount \in Nat
      BY SegmentCountAssumption
    <3>2. LeftBehind(s) => segments[s].valid /\ ~segments[s].sealed /\ s # state.active_slot
      BY DEF LeftBehind
    <3>3. LeftBehind(s) => Fail \/ Call(ResealSteps(s))
      BY <1>7 DEF SealRecovered, ResealSteps
    <3>4. ~Call(ResealSteps(s))
      <4>1. Call(ResealSteps(s)) => Pending' = StepsOf(ResealSteps(s)) \cup Rest
        BY <1>2, ResealHas, CallPending DEF TypeOK
      <4>2. Do("sealed") \in StepsOf(ResealSteps(s)) /\ \A y \in Rest : y[1] \notin Sealing
        BY <1>2, ResealHas, BehindAppend
      <4>. QED  BY <1>7, <4>1, <4>2 DEF Do, Sealing
    <3>. QED  BY <1>3, <3>3, <3>4, FailControl
  <2>. QED  BY <1>1, <1>7, <2>1 DEF LeftBehind, Closed, Open, memory
<1>8. CASE s = Arg /\ Adopt(Arg, HeaderGeneration(Arg)) /\ Pending' = StepsOf(ResealSteps(Arg)) \cup Rest
  <2>1. active_segment'.slot = s
    BY <1>8 DEF Adopt
  <2>2. Has(Sealing)'
    BY <1>2, <1>8, ResealHas DEF Has, Do, Sealing
  <2>. QED  BY <1>1, <2>1, <2>2 DEF Open, Closing
<1>. QED  BY <1>2, <1>3, <1>6, <1>7, <1>8

\* When the active segment is selected, the others are closed.
LEMMA OpenSelected ==
    ASSUME TypeOK, TypeOK', ControlInv, IdInv, RotationInv, GenerationInv, SelectActive, [Next]_vars, ~Choosing,
           mode' # "off", NEW s \in Slots, Closed(s) \/ Open(s)
    PROVE  Closed(s)' \/ Open(s)'
<1>1. /\ Has({"select"}) /\ ~Has({"select", "retire", "header", "activate"})'
      /\ active_segment' = [slot |-> state.active_slot, generation |-> state.next_generation - 1]
  BY SelectEffect
<1>2. todo # <<>> /\ At("select") /\ Pending = {Head(todo)} \cup Rest
  BY SelectControl, BehindEntry DEF SelectActive
<1>3. ~Has(Sealing) /\ <<"seal_recovered", s>> \notin Pending
  <2>1. \A y \in Rest : y[1] \notin Sealing /\ y[1] # "seal_recovered"
    BY <1>2, BehindAppend, BehindStep
  <2>. QED  BY <1>2, <2>1 DEF Has, At, Sealing
<1>4. Closed(s) \/ s = active_segment'.slot
  BY <1>1, <1>3 DEF Open, Closing
<1>5. \/ segments' = segments
      \/ \E t \in Slots : /\ segments' = [segments EXCEPT ![t] = Scan(t, HeaderGeneration(t), TRUE)]
                          /\ active_segment'.slot = t
  <2>1. ~(Fail /\ Pending' = {})
    <3>1. mode = "init" => mode' = "off" \/ ~Fail
      BY DEF Fail, Reset
    <3>2. mode = "init"
      BY <1>1 DEF ControlInv, Booting, Recovering, Has
    <3>. QED  BY <3>1, <3>2
  <2>2. PICK t \in Slots : t = HighestSlot(segments)
    BY SelectControl
  <2>3. \/ Adopt(t, HeaderGeneration(t))
        \/ active_segment' = [slot |-> t, generation |-> HeaderGeneration(t)] /\ UNCHANGED segments
    BY <2>1, <2>2, SelectControl
  <2>4. CASE Adopt(t, HeaderGeneration(t))
    BY <2>4 DEF Adopt
  <2>. QED  BY <2>3, <2>4
<1>6. CASE s # active_segment'.slot
  BY <1>4, <1>5, <1>6 DEF Closed, TypeOK, MemoryTypeOK
<1>7. CASE s = active_segment'.slot
  BY <1>1, <1>7 DEF Open, Has
<1>. QED  BY <1>6, <1>7

\* Each step keeps all segments closed but one.
LEMMA NextOpen ==
    ASSUME "io" \notin Faults
    PROVE  TypeOK /\ TypeOK' /\ ControlInv /\ ControlInv' /\ SpaceInv /\ IdInv /\ RotationInv /\ RotationInv'
               /\ GenerationInv /\ RetirementInv /\ SequenceInv /\ ActiveInv /\ SealSequence
               /\ OpenInv /\ [Next]_vars => OpenInv'
<1>. SUFFICES ASSUME TypeOK, TypeOK', ControlInv, ControlInv', SpaceInv, IdInv, RotationInv, RotationInv',
                     GenerationInv, RetirementInv, SequenceInv, ActiveInv, SealSequence, OpenInv, [Next]_vars
              PROVE  OpenInv'
  OBVIOUS
<1>1. Has({"highest"})' => \A s \in Slots : <<"seal_recovered", s>> \in Pending'
  BY SealsAhead
<1>2. Has(Rotation)' /\ ~Has(Sealing)' => Closed(active_segment.slot)'
  BY LeftClosed
<1>3. ASSUME mode' # "off", ~Has({"highest"})', NEW s \in Slots PROVE Closed(s)' \/ Open(s)'
  <2>1. CASE UNCHANGED vars
    BY <1>3, <2>1 DEF vars, memory, control, OpenInv, Has, Pending, Closed, Open, Closing
  <2>2. CASE Choosing /\ ~UNCHANGED vars
    <3>1. PickHighest /\ ~Fail
      BY <1>3, <2>2, ChoosingEnds DEF Choosing
    <3>2. Pending' = Rest /\ todo # <<>> /\ At("highest") /\ Pending = {Head(todo)} \cup Rest
      BY <3>1, SetStateControl, BehindEntry DEF PickHighest
    <3>3. <<"seal_recovered", s>> \in Pending
      BY <3>2 DEF OpenInv, Has, At
    <3>4. Has({"select"})
      BY <3>2 DEF RotationInv, Has, At
    <3>5. Has({"select"})' /\ <<"seal_recovered", s>> \in Pending'
      BY <3>2, <3>3, <3>4 DEF Has, At
    <3>. QED  BY <3>5 DEF Open
  <2>3. CASE ~Choosing /\ ~UNCHANGED vars
    <3>1. mode # "off" /\ (Closed(s) \/ Open(s)) /\ ~Has({"highest"})
      BY <2>3 DEF Choosing, OpenInv
    <3>2. ~StartInit /\ ~PickHighest /\ ~Recover
      <4>1. ~Has({"recover"})
        BY <3>1 DEF RotationInv
      <4>2. At("recover") => Has({"recover"})
        BY BehindEntry DEF At, Has
      <4>3. At("highest") => Has({"highest"})
        BY BehindEntry DEF At, Has
      <4>. QED  BY <3>1, <4>1, <4>2, <4>3 DEF StartInit, PickHighest, Recover
    <3>3. ASSUME UNCHANGED <<memory>>, ~Has({"select"}), ~Has({"select"})' PROVE Closed(s)' \/ Open(s)'
      BY <3>1, <3>3 DEF memory, Closed, Open
    <3>4. CASE Operations
      <4>1. Pending = {} /\ UNCHANGED memory /\ \A x \in Pending' : x[1] \notin Leaves
        BY <3>4, OperationsPending
      <4>. QED  BY <3>3, <4>1 DEF Has, Leaves
    <3>5. CASE NoWriter \/ NoEntry
      <4>1. Fail /\ Pending' = {}
        BY <3>5, FailControl DEF NoWriter, NoEntry
      <4>2. mode # "init" /\ UNCHANGED memory
        BY <1>3, <4>1 DEF Fail, Reset
      <4>. QED  BY <3>3, <4>1, <4>2 DEF ControlInv, Booting, Recovering, Has
    <3>6. CASE CloseWriter
      <4>1. UNCHANGED <<segments, active_segment, state>> /\ Pending' = Rest /\ todo # <<>> /\ At("close_writer")
            /\ Pending = {Head(todo)} \cup Rest
        BY <3>6, MovesControl, BehindEntry DEF CloseWriter, Moves
      <4>2. Has({"select"}) /\ Has({"select"})'
        BY <4>1 DEF SequenceInv, Has, At
      <4>3. ~Has(Sealing)
        <5>1. \A y \in Rest : y[1] \notin Sealing
          BY <4>1, BehindSeal
        <5>. QED  BY <4>1, <5>1 DEF Has, At, Sealing
      <4>4. <<"seal_recovered", s>> \in Pending => <<"seal_recovered", s>> \in Pending'
        BY <4>1 DEF At
      <4>. QED  BY <3>1, <4>1, <4>2, <4>3, <4>4 DEF Closed, Open, Closing
    <3>7. CASE OpenNext
      <4>1. UNCHANGED memory /\ At("open_next") /\ todo # <<>>
        BY <3>7, OpenNextCalls DEF OpenNext
      <4>2. ~Has({"select"})
        BY <4>1, BehindEntry DEF RotationInv, Has, At
      <4>3. ~At("select")
        BY <4>1 DEF At
      <4>. QED  BY <1>3, <3>1, <3>3, <4>1, <4>2, <4>3, SelectKept
    <3>8. CASE Activate
      <4>1. /\ segments' = [segments EXCEPT ![NextSlot] = FreshSegment(state.next_generation)]
            /\ active_segment' = [slot |-> NextSlot, generation |-> state.next_generation]
            /\ At("activate") /\ todo # <<>> /\ ~Has(Sealing)
        <5>1. At("activate") /\ todo # <<>>
          BY <3>8 DEF Activate, At
        <5>2. \A y \in Rest : y[1] \notin Sealing
          BY <5>1, BehindData
        <5>3. ~Has(Sealing)
          BY <5>1, <5>2, BehindEntry DEF Has, At, Sealing
        <5>. QED  BY <3>8, <5>1, <5>3 DEF Activate
      <4>2. Has(Rotation) /\ ~Has({"select"})
        BY <4>1, BehindEntry DEF RotationInv, Has, At, Rotation
      <4>3. Closed(active_segment.slot)
        BY <4>1, <4>2 DEF OpenInv
      <4>4. Closed(s) \/ s = NextSlot
        BY <3>1, <4>2, <4>3 DEF Open
      <4>5. ~Has({"select"})'
        BY <1>3, <3>1, <4>1, <4>2, SelectKept DEF At
      <4>6. s # NextSlot => segments'[s] = segments[s]
        BY <4>1 DEF TypeOK, MemoryTypeOK
      <4>. QED  BY <4>1, <4>4, <4>5, <4>6 DEF Closed, Open
    <3>. QED
      BY <1>3, <2>3, <3>1, <3>2, <3>4, <3>5, <3>6, <3>7, <3>8, OpenPlain, OpenSealed, OpenSelected, Kinds
  <2>. QED  BY <2>1, <2>2, <2>3
<1>. QED  BY <1>1, <1>2, <1>3 DEF OpenInv

-----------------------------------------------------------------------------
(* Sealed descriptors.                                                     *)

\* The footer that is written for the active segment is valid, and so is its index.
LEMMA ActiveFooterValid ==
    ASSUME TypeOK, SpaceInv, TilesInv, SumsInv, TallyInv, ActiveInv, Working,
           NEW s \in Slots, s = active_segment.slot, NEW c \in Copies, footers[s][c] = ActiveFooter
    PROVE  /\ FooterValid(s, active_segment.generation, c)
           /\ {i \in sparse_index : i <= ActiveFooter.last_entry_id} = sparse_index
<1>1. PICK end \in 0 .. Capacity : end = active_write_offset
  BY CapacityAssumption DEF TypeOK, MemoryTypeOK, SpaceInv
<1>2. PICK d \in Descriptor : d = segments[s]
  BY DEF TypeOK, MemoryTypeOK
<1>3. PICK g \in Nat : g = active_segment.generation
  BY DEF TypeOK, MemoryTypeOK
<1>4. PICK f : f = ActiveFooter
  OBVIOUS
<1>5. /\ f \in FooterRecord
      /\ f.generation = g /\ f.entry_count = d.entry_count /\ f.first_entry_id = d.first_entry_id
      /\ f.last_entry_id = d.last_entry_id /\ f.data_end = end /\ f.index = sparse_index
  <2>1. d.data_end = end
    BY <1>1, <1>2 DEF ActiveInv
  <2>2. f = [generation |-> g, first_entry_id |-> d.first_entry_id, last_entry_id |-> d.last_entry_id,
             entry_count |-> d.entry_count, data_end |-> d.data_end, index |-> sparse_index]
    BY <1>2, <1>3, <1>4 DEF ActiveFooter
  <2>3. sparse_index \in IdSets
    BY DEF TypeOK, MemoryTypeOK
  <2>. QED  BY <1>2, <2>1, <2>2, <2>3 DEF FooterRecord, Descriptor
<1>6. PICK cells \in Cells : cells = Overlay(s)
  BY OverlayNow
<1>7. Tiled(cells, g, end)
  BY <1>1, <1>3, <1>6 DEF TilesInv, ActiveTiles
<1>8. SumsUp(d, cells, end)
  BY <1>1, <1>2, <1>6 DEF SumsInv
<1>9. /\ d.entry_count = Cardinality(Starts(cells, end))
      /\ d.entry_count = 0 => d.last_entry_id = 0
      /\ sparse_index = IndexOf(cells, end)
  BY <1>1, <1>2, <1>6 DEF TallyInv, Tallied
<1>10. IF d.entry_count = 0 THEN Cardinality(sparse_index) = 0
       ELSE Cardinality(sparse_index) = (d.entry_count - 1) \div IndexStride + 1
  BY <1>7, <1>9, IndexCount
<1>11. CASE end = 0
  <2>1. d.entry_count = 0 /\ d.last_entry_id = 0
    BY <1>8, <1>9, <1>11 DEF SumsUp
  <2>2. IsFiniteSet(sparse_index)
    BY DEF TypeOK, MemoryTypeOK, IdSets
  <2>3. sparse_index = {}
    BY <1>10, <2>1, <2>2, FS_EmptySet
  <2>4. f # Garbage
    BY <1>5, GarbageFooterAssumption
  <2>. QED  BY <1>3, <1>4, <1>5, <1>11, <2>1, <2>3, <2>4 DEF FooterValid
<1>12. CASE end # 0
  <2>1. end - 1 \in 0 .. end - 1 /\ 0 \in 0 .. end - 1 /\ 0 \in 0 .. end - 1 /\ end \in Nat
    BY <1>12, CapacityAssumption
  <2>2. /\ d.entry_count # 0 /\ d.first_entry_id = cells[0].id /\ d.last_entry_id = cells[end - 1].id
    BY <1>8, <1>12 DEF SumsUp
  <2>3. \A p \in 0 .. end - 1 : cells[p].id <= cells[end - 1].id /\ cells[p].id \in Nat
    BY <1>7, <2>1, TiledMonotone
  <2>4. cells[0].id # 0
    BY <1>7, <2>1 DEF Tiled, Whole
  <2>5. \A i \in sparse_index : i <= d.last_entry_id
    BY <1>9, <2>2, <2>3 DEF IndexOf, Indexed, Starts
  <2>6. f # Garbage
    BY <1>5, GarbageFooterAssumption
  <2>7. d.first_entry_id <= d.last_entry_id
    BY <2>1, <2>2, <2>3
  <2>. QED  BY <1>3, <1>4, <1>5, <1>10, <2>2, <2>4, <2>5, <2>6, <2>7 DEF FooterValid
<1>. QED  BY <1>11, <1>12, CapacityAssumption

\* At the end of a seal the descriptor is that of the footer.
LEMMA SealedListed ==
    ASSUME TypeOK, ControlInv, SpaceInv, ActiveInv, TilesInv, SumsInv, TallyInv, WrittenInv, Sealed,
           Garbage \notin IdSets,
           NEW s \in Slots, s = active_segment.slot
    PROVE  Listed(s)'
<1>1. todo # <<>> /\ At("sealed") /\ Pending = {Head(todo)} \cup Rest /\ \A y \in Rest : y[1] \notin Sealing
  BY BehindEntry, BehindSeal DEF Sealed, At
<1>2. Has(Sealing) /\ Working
  <2>1. mode # "off"
    BY <1>1 DEF ControlInv
  <2>. QED  BY <1>1, <2>1 DEF Has, At, Sealing, Working
<1>3. ~Has({"write_index"}) /\ <<"footer", 1>> \notin Pending
  BY <1>1 DEF Has, At, Sealing
<1>4. PICK f : f = ActiveFooter
  OBVIOUS
<1>5. footers[s][1] = f /\ (sparse_index = {} \/ index[s] = sparse_index)
  BY <1>2, <1>3, <1>4 DEF WrittenInv
<1>6. PICK g : g = active_segment.generation
  OBVIOUS
<1>7. FooterValid(s, g, 1) /\ {i \in sparse_index : i <= f.last_entry_id} = sparse_index
  BY <1>2, <1>4, <1>5, <1>6, ActiveFooterValid DEF Copies
<1>8. PICK d \in Descriptor : d = segments[s]
  BY DEF TypeOK, MemoryTypeOK
<1>9. HeaderReadable(s) /\ HeaderGeneration(s) = g /\ d.generation = g /\ d.valid
  BY <1>2, <1>6, <1>8 DEF ActiveInv
<1>10. f = [generation |-> g, first_entry_id |-> d.first_entry_id, last_entry_id |-> d.last_entry_id,
            entry_count |-> d.entry_count, data_end |-> d.data_end, index |-> sparse_index]
  BY <1>4, <1>6, <1>8 DEF ActiveFooter
<1>11. segments'[s] = [d EXCEPT !.sealed = TRUE, !.index_count = Cardinality(sparse_index)]
  BY <1>8 DEF Sealed, TypeOK, MemoryTypeOK
<1>12. SealedSegment(f) = segments'[s] /\ segments'[s].generation = g
  BY <1>8, <1>9, <1>10, <1>11 DEF SealedSegment, Descriptor
<1>13. HasFooter(s, g) /\ Footer(s, g) = f
  BY <1>5, <1>7 DEF HasFooter, Footer, Copies
<1>14. IndexValid(s, f)
  <2>1. sparse_index # Garbage
    BY DEF TypeOK, MemoryTypeOK
  <2>. QED  BY <1>5, <1>7, <1>10, <2>1 DEF IndexValid
<1>15. UNCHANGED <<headers, footers, index>>
  BY DEF Sealed, medium
<1>16. HeaderReadable(s)' /\ HeaderGeneration(s)' = g
  BY <1>9, <1>15 DEF HeaderReadable, HeaderGeneration, HeaderGenerations
<1>17. HasFooter(s, g)' /\ Footer(s, g)' = f
  BY <1>13, <1>15 DEF HasFooter, Footer, FooterValid
<1>18. IndexValid(s, f)'
  BY <1>14, <1>15 DEF IndexValid
<1>. QED  BY <1>12, <1>16, <1>17, <1>18 DEF Listed

\* A descriptor changes to a sealed one by its recovery or its seal only.
LEMMA DescriptorSealed ==
    ASSUME TypeOK, ControlInv, [Next]_vars, "io" \notin Faults, mode # "off", mode' # "off", TallyInv,
           NEW s \in Slots, segments'[s].valid, segments'[s].sealed
    PROVE  \/ segments'[s] = segments[s]
           \/ Recover /\ s = Arg
           \/ Sealed /\ s = active_segment.slot
<1>1. segments \in [Slots -> Descriptor]
  BY DEF TypeOK, MemoryTypeOK
<1>2. CASE UNCHANGED segments
  BY <1>2
<1>3. CASE StartInit \/ Operations \/ UNCHANGED vars
  BY <1>2, <1>3 DEF StartInit, Operations, AppendEntry, FlushWrite, Deinit, vars, memory
<1>4. CASE NoWriter \/ NoEntry
  BY <1>2, <1>4 DEF NoWriter, NoEntry, Fail, Reset, memory
<1>5. CASE CloseWriter \/ PickHighest
  BY <1>2, <1>5 DEF CloseWriter, PickHighest, Fail, Reset, memory
<1>6. CASE OpenNext
  BY <1>2, <1>6 DEF OpenNext, Fail, Reset, memory
<1>7. CASE Activate
  BY <1>1, <1>7 DEF Activate, FreshSegment, NoSegment
<1>8. CASE Recover
  <2>1. Fail => mode' = "off" \/ UNCHANGED segments
    BY DEF Fail, Reset, memory
  <2>2. s # Arg => segments'[s] = segments[s]
    BY <1>1, <1>2, <1>8, <2>1 DEF Recover, Repair, Adopt, SetDescriptor
  <2>. QED  BY <1>8, <2>2
<1>9. CASE SealRecovered \/ SelectActive
  <2>1. ASSUME NEW t, NEW g, Adopt(t, g) PROVE segments'[s] = segments[s]
    <3>1. s = t => segments'[s] = Scan(t, g, TRUE)
      BY <1>1, <2>1 DEF Adopt
    <3>2. ~Scan(t, g, TRUE).sealed
      BY DEF Scan, FreshSegment, NoSegment
    <3>. QED  BY <1>1, <2>1, <3>1, <3>2 DEF Adopt
  <2>2. Fail => mode' = "off" \/ UNCHANGED segments
    BY DEF Fail, Reset, memory
  <2>3. CASE SealRecovered
    BY <1>2, <2>1, <2>2, <2>3 DEF SealRecovered, Skip, memory
  <2>4. CASE SelectActive
    BY <1>2, <2>1, <2>2, <2>4 DEF SelectActive
  <2>. QED  BY <1>9, <2>3, <2>4
<1>10. CASE PutEntry \/ AccountEntry
  <2>1. PICK id, n : Account(id, n)
    BY <1>10 DEF PutEntry, AccountEntry
  <2>2. Working
    <3>1. todo # <<>> /\ Head(todo)[1] \in Entry
      BY <1>10 DEF PutEntry, AccountEntry, At, Entry, Sized
    <3>. QED  BY <3>1, EntryWorking
  <2>3. s = active_segment.slot => segments'[s].sealed = segments[s].sealed
    BY <2>1, TallyAccount
  <2>4. s # active_segment.slot => segments'[s] = segments[s]
    BY <1>1, <2>1 DEF Account
  <2>. QED  BY <2>2, <2>3, <2>4 DEF TallyInv
<1>11. CASE Plain /\ ~PutEntry /\ ~AccountEntry
  <2>1. CASE Retire
    BY <1>1, <2>1 DEF Retire, NoSegment
  <2>2. CASE Sealed
    BY <1>1, <2>2 DEF Sealed
  <2>3. CASE Plain /\ ~PutEntry /\ ~AccountEntry /\ ~Retire /\ ~Sealed
    <3>1. Fail => UNCHANGED segments \/ mode' = "off"
      BY DEF Fail, Reset, memory
    <3>. QED
      BY <1>2, <2>3, <3>1 DEF Plain, WriteDone, OpenWriter, Flushed, ReserveEntry, Acknowledge, Settle, SetState,
                        Flush, PrepareSpace, CountBoot, AppendBoot, Ready, memory
  <2>. QED  BY <1>11, <2>1, <2>2, <2>3
<1>. QED  BY <1>3, <1>4, <1>5, <1>6, <1>7, <1>8, <1>9, <1>10, <1>11, Kinds

\* recover_segment_contents takes a descriptor from a footer whose index is in place.
LEMMA RecoverListed ==
    ASSUME TypeOK, ControlInv, Recover, mode' # "off", NEW s \in Slots, s = Arg,
           segments'[s].valid, segments'[s].sealed
    PROVE  Listed(s)'
<1>1. PICK g : g = HeaderGeneration(s)
  OBVIOUS
<1>2. segments \in [Slots -> Descriptor]
  BY DEF TypeOK, MemoryTypeOK
<1>3. ~Fail
  <2>1. Has({"recover"})
    BY RecoverControl, BehindEntry DEF Recover, At, Has
  <2>2. mode = "init"
    BY <2>1 DEF ControlInv, Has, Booting, Recovering
  <2>. QED  BY <2>2 DEF Fail, Reset
<1>4. ~Scan(s, g, TRUE).sealed /\ ~Scan(s, g, FALSE).sealed /\ ~NoSegment.valid
  BY DEF Scan, FreshSegment, NoSegment
<1>5. PICK f : f = Footer(s, g)
  OBVIOUS
<1>6. HeaderReadable(s) /\ HasFooter(s, g) /\ IndexValid(s, f) /\ SetDescriptor(s, SealedSegment(f))
  BY <1>1, <1>2, <1>3, <1>4, <1>5 DEF Recover, Repair, Adopt, SetDescriptor
<1>7. segments'[s] = SealedSegment(f) /\ segments'[s].generation = g
  <2>1. f.generation = g
    BY <1>5, <1>6 DEF HasFooter, Footer, FooterValid, Copies
  <2>. QED  BY <1>2, <1>6, <2>1 DEF SetDescriptor, SealedSegment
<1>8. UNCHANGED <<headers, footers, index>>
  BY DEF Recover, medium
<1>9. HeaderReadable(s)' /\ HeaderGeneration(s)' = g
  BY <1>1, <1>6, <1>8 DEF HeaderReadable, HeaderGeneration, HeaderGenerations
<1>10. HasFooter(s, g)' /\ Footer(s, g)' = f /\ IndexValid(s, f)'
  BY <1>5, <1>6, <1>8 DEF HasFooter, Footer, FooterValid, IndexValid
<1>. QED  BY <1>7, <1>9, <1>10 DEF Listed

\* Each step keeps the sealed descriptors those of their footers.
LEMMA NextListed ==
    ASSUME "io" \notin Faults, Garbage \notin IdSets
    PROVE  TypeOK /\ TypeOK' /\ ControlInv /\ SpaceInv /\ RotationInv /\ GenerationInv /\ RetirementInv
               /\ SequenceInv /\ BufferInv /\ ActiveInv /\ TilesInv /\ SumsInv /\ TallyInv /\ WrittenInv
               /\ ListedInv /\ [Next]_vars => ListedInv'
<1>. SUFFICES ASSUME TypeOK, TypeOK', ControlInv, SpaceInv, RotationInv, GenerationInv, RetirementInv,
                     SequenceInv, BufferInv, ActiveInv, TilesInv, SumsInv, TallyInv, WrittenInv, ListedInv,
                     [Next]_vars, mode' # "off", NEW s \in Slots, segments'[s].valid, segments'[s].sealed,
                     <<"recover", s>> \notin Pending'
              PROVE  Listed(s)'
  BY DEF ListedInv
<1>1. mode # "off"
  <2>1. mode = "off" => StartInit
    BY OpenedByInit
  <2>2. StartInit => <<"recover", s>> \in Pending'
    BY InitHas DEF StartInit, Pending
  <2>. QED  BY <2>1, <2>2
<1>2. CASE Recover /\ s = Arg
  BY <1>2, RecoverListed
<1>3. CASE Sealed /\ s = active_segment.slot
  BY <1>3, SealedListed
<1>4. CASE segments'[s] = segments[s] /\ ~(Recover /\ s = Arg)
  <2>1. Listed(s)
    <3>1. <<"recover", s>> \notin Pending
      BY <1>4, RecoveredByStep
    <3>. QED  BY <1>1, <1>4, <3>1 DEF ListedInv
  <2>2. ~(Working /\ s = active_segment.slot)
    BY <1>4 DEF TallyInv
  <2>3. footers'[s] = footers[s]
    BY <2>2, FootersWritten
  <2>4. index'[s] = index[s]
    BY <1>1, <2>2, IndexWritten
  <2>5. headers'[s] = headers[s]
    <3>1. At("header") => s # NextSlot
      BY <1>4, HeaderRetired DEF ValidSlots
    <3>. QED  BY <3>1, HeadersWritten
  <2>6. PICK g : g = segments[s].generation
    OBVIOUS
  <2>7. PICK f : f = Footer(s, g)
    OBVIOUS
  <2>8. HeaderReadable(s) /\ HeaderGeneration(s) = g /\ HasFooter(s, g) /\ SealedSegment(f) = segments[s]
        /\ IndexValid(s, f)
    BY <2>1, <2>6, <2>7 DEF Listed
  <2>9. HeaderReadable(s)' /\ HeaderGeneration(s)' = g
    BY <2>5, <2>8 DEF HeaderReadable, HeaderGeneration, HeaderGenerations
  <2>10. HasFooter(s, g)' /\ Footer(s, g)' = f /\ IndexValid(s, f)'
    BY <2>3, <2>4, <2>7, <2>8 DEF HasFooter, Footer, FooterValid, IndexValid
  <2>. QED  BY <1>4, <2>6, <2>8, <2>9, <2>10 DEF Listed
<1>. QED  BY <1>1, <1>2, <1>3, <1>4, DescriptorSealed

-----------------------------------------------------------------------------
(* Between two operations.                                                 *)

\* prepare_read_segment accepts a descriptor that sums up and counts the entries.
LEMMA CellsReadable ==
    ASSUME NEW cells \in Cells, NEW g, NEW end \in 0 .. Capacity, Tiled(cells, g, end),
           NEW d, d.generation = g, d.data_end = end, SumsUp(d, cells, end),
           d.entry_count = Cardinality(Starts(cells, end)),
           NEW starts, starts = {o \in Offsets : o < d.data_end /\ cells[o] # Garbage
                                                 /\ cells[o].part = 0 /\ cells[o].generation = d.generation}
    PROVE  /\ d.entry_count = Cardinality(starts)
           /\ d.entry_count # 0 => /\ 0 \in starts
                                   /\ cells[0].id = d.first_entry_id
                                   /\ cells[Max(starts)].id = d.last_entry_id
                                   /\ Max(starts) + cells[Max(starts)].size = d.data_end
<1>1. end \in Nat /\ Capacity \in Nat
  BY CapacityAssumption
<1>2. starts = Starts(cells, end)
  <2>1. \A o \in 0 .. end - 1 : o \in Offsets /\ cells[o] # Garbage /\ cells[o].generation = g
    BY <1>1 DEF Offsets, Tiled, Whole
  <2>. QED  BY <1>1, <2>1 DEF Starts, Offsets
<1>3. ASSUME d.entry_count # 0
      PROVE  /\ 0 \in starts
             /\ cells[0].id = d.first_entry_id
             /\ cells[Max(starts)].id = d.last_entry_id
             /\ Max(starts) + cells[Max(starts)].size = d.data_end
  <2>1. end # 0 /\ d.first_entry_id = cells[0].id /\ d.last_entry_id = cells[end - 1].id
    BY <1>3 DEF SumsUp
  <2>2. PICK o \in 0 .. end - 1 : o = end - 1
    BY <1>1, <2>1
  <2>3. /\ cells[o] \in Cell /\ o - cells[o].part \in 0 .. o
        /\ cells[o - cells[o].part] = [cells[o] EXCEPT !.part = 0]
        /\ (o - cells[o].part) + cells[o].size \in o + 1 .. end
    BY WholeStart
  <2>4. PICK b \in 0 .. o : b = o - cells[o].part
    BY <2>3
  <2>5. /\ cells[b].part = 0 /\ cells[b].id = cells[o].id /\ cells[b].size = cells[o].size
        /\ cells[o].size \in Nat \ {0} /\ b + cells[b].size = end
    BY <1>1, <2>1, <2>2, <2>3, <2>4 DEF Cell
  <2>6. b \in starts
    BY <1>1, <1>2, <2>2, <2>5 DEF Starts
  <2>7. \A k \in 0 .. cells[o].size - 1 : cells[b + k] = [cells[o] EXCEPT !.part = k]
    BY <2>4 DEF Tiled, Whole
  <2>8. \A p \in starts : p <= b
    <3>1. SUFFICES ASSUME NEW p \in starts, p > b PROVE FALSE
      BY <1>1, <1>2 DEF Starts
    <3>2. p \in 0 .. end - 1 /\ cells[p].part = 0
      BY <1>2 DEF Starts
    <3>3. PICK k \in 0 .. cells[o].size - 1 : p = b + k /\ k # 0
      <4>1. p - b \in 0 .. cells[o].size - 1 /\ p = b + (p - b) /\ p - b # 0
        BY <1>1, <2>2, <2>5, <3>1, <3>2
      <4>. QED  BY <4>1
    <3>4. cells[p] = [cells[o] EXCEPT !.part = k]
      BY <2>7, <3>3
    <3>5. cells[p].part = k
      BY <2>3, <3>4 DEF Cell
    <3>. QED  BY <3>2, <3>3, <3>5
  <2>9. Max(starts) = b
    <3>1. \A p \in starts : p \in Nat
      BY <1>1, <1>2 DEF Starts
    <3>2. \A x \in starts : (\A y \in starts : x >= y) => x = b
      BY <2>6, <2>8, <3>1
    <3>3. \A y \in starts : b >= y
      BY <2>8, <3>1
    <3>. QED  BY <2>6, <3>2, <3>3 DEF Max
  <2>10. 0 \in starts
    <3>1. 0 \in 0 .. end - 1
      BY <1>1, <2>1
    <3>2. PICK z \in 0 .. end - 1 : z = 0
      BY <3>1
    <3>3. cells[z] \in Cell /\ z - cells[z].part \in 0 .. z
      BY WholeStart
    <3>4. cells[z].part = 0
      BY <3>2, <3>3 DEF Cell
    <3>. QED  BY <1>2, <3>2, <3>4 DEF Starts
  <2>. QED  BY <2>1, <2>2, <2>5, <2>9, <2>10
<1>. QED  BY <1>2, <1>3

\* A store that is off has nothing that a reader relies on.
LEMMA InitReadable ==
    Init => TallyInv /\ FooterInv /\ WrittenInv /\ ListedInv /\ OpenInv
<1>. SUFFICES ASSUME Init PROVE TallyInv /\ FooterInv /\ WrittenInv /\ ListedInv /\ OpenInv
  OBVIOUS
<1>1. mode = "off" /\ Pending = {}
  BY DEF Init, Pending, StepsOf
<1>2. \A s \in Slots, c \in Copies : \A g : ~FooterValid(s, g, c)
  BY DEF Init, FooterValid
<1>3. TallyInv /\ FooterInv /\ WrittenInv /\ ListedInv
  BY <1>1, <1>2 DEF TallyInv, FooterInv, WrittenInv, ListedInv, Working, Has
<1>4. OpenInv
  BY <1>1 DEF OpenInv, Has
<1>. QED  BY <1>3, <1>4

\* Between two operations the only open segment is the active one.
LEMMA ActiveReadable ==
    ASSUME TypeOK, SpaceInv, ActiveInv, TilesInv, SumsInv, TallyInv, Working,
           NEW s \in Slots, s = active_segment.slot
    PROVE  ReadableSegment(s)
<1>1. PICK end \in 0 .. Capacity : end = active_write_offset
  BY CapacityAssumption DEF TypeOK, MemoryTypeOK, SpaceInv
<1>2. PICK d \in Descriptor : d = segments[s]
  BY DEF TypeOK, MemoryTypeOK
<1>3. PICK g : g = active_segment.generation
  OBVIOUS
<1>4. PICK cells \in Cells : cells = Overlay(s)
  BY OverlayNow
<1>5. /\ HeaderReadable(s) /\ HeaderGeneration(s) = g /\ d.generation = g /\ d.data_end = end
  BY <1>1, <1>2, <1>3 DEF ActiveInv
<1>6. Tiled(cells, g, end)
  BY <1>1, <1>3, <1>4 DEF TilesInv, ActiveTiles
<1>7. SumsUp(d, cells, end)
  BY <1>1, <1>2, <1>4 DEF SumsInv
<1>8. ~d.sealed /\ d.index_count = Cardinality(sparse_index) /\ d.entry_count = Cardinality(Starts(cells, end))
  BY <1>1, <1>2, <1>4 DEF TallyInv, Tallied
<1>9. active_segment = [slot |-> s, generation |-> g]
  BY <1>3 DEF TypeOK, MemoryTypeOK
<1>10. PICK starts : starts = {o \in Offsets : o < d.data_end /\ cells[o] # Garbage
                                               /\ cells[o].part = 0 /\ cells[o].generation = d.generation}
  OBVIOUS
<1>11. /\ d.entry_count = Cardinality(starts)
       /\ d.entry_count # 0 => /\ 0 \in starts
                               /\ cells[0].id = d.first_entry_id
                               /\ cells[Max(starts)].id = d.last_entry_id
                               /\ Max(starts) + cells[Max(starts)].size = d.data_end
  BY <1>5, <1>6, <1>7, <1>8, <1>10, CellsReadable
<1>. QED  BY <1>1, <1>2, <1>4, <1>5, <1>8, <1>9, <1>10, <1>11 DEF ReadableSegment

\* The sealed segments are as their footers tell.
LEMMA SealedReadable ==
    ASSUME TypeOK, Retiring, FooterInv, NEW s \in ValidSlots(segments), s # active_segment.slot,
           segments[s].sealed, Listed(s)
    PROVE  ReadableSegment(s)
<1>1. s \in Slots /\ segments[s].valid
  BY DEF ValidSlots
<1>2. PICK d \in Descriptor : d = segments[s]
  BY <1>1 DEF TypeOK, MemoryTypeOK
<1>3. PICK g \in Nat : g = d.generation
  BY DEF Descriptor
<1>4. PICK f : f = Footer(s, g)
  OBVIOUS
<1>5. /\ HeaderReadable(s) /\ HeaderGeneration(s) = g /\ HasFooter(s, g)
      /\ SealedSegment(f) = d /\ IndexValid(s, f)
  BY <1>2, <1>3, <1>4 DEF Listed
<1>6. PICK c \in Copies : FooterValid(s, g, c) /\ f = footers[s][c]
  BY <1>4, <1>5 DEF HasFooter, Footer, Copies
<1>7. Live(s)
  <2>1. g # 0
    BY <1>2, <1>3 DEF Retiring
  <2>2. OldestGeneration(segments) <= g
    <3>1. {segments[t].generation : t \in ValidSlots(segments)} \in SUBSET Nat
      BY DEF ValidSlots, TypeOK, MemoryTypeOK, Descriptor
    <3>2. g \in {segments[t].generation : t \in ValidSlots(segments)}
      BY <1>2, <1>3
    <3>3. PICK all \in SUBSET Nat : all = {segments[t].generation : t \in ValidSlots(segments)}
      BY <3>1
    <3>. QED  BY <3>2, <3>3, MinBound DEF OldestGeneration
  <2>3. checkpoint.oldest_generation <= state.oldest_generation
        /\ state.oldest_generation = OldestGeneration(segments)
    BY DEF Retiring
  <2>4. checkpoint.oldest_generation \in Nat /\ state.oldest_generation \in Nat
    BY DEF TypeOK, MediumTypeOK, MemoryTypeOK, StateRecord
  <2>. QED  BY <1>5, <2>1, <2>2, <2>3, <2>4 DEF Live
<1>8. FooterTrue(s, g, f)
  BY <1>1, <1>5, <1>6, <1>7 DEF FooterInv
<1>9. /\ d.data_end = f.data_end /\ d.entry_count = f.entry_count
      /\ d.first_entry_id = f.first_entry_id /\ d.last_entry_id = f.last_entry_id
  BY <1>5 DEF SealedSegment
<1>10. PICK end \in 0 .. Capacity : end = d.data_end
  <2>1. d.data_end \in Nat /\ Capacity \in Nat /\ d.data_end <= Capacity
    BY <1>8, <1>9, CapacityAssumption DEF FooterTrue, Descriptor
  <2>. QED  BY <2>1
<1>11. PICK cells \in Cells : cells = data[s]
  BY <1>1 DEF TypeOK, MediumTypeOK, Cells
<1>12. Overlay(s) = cells
  <2>1. Overlay(s) = [o \in Offsets |-> data[s][o]]
    BY DEF Overlay
  <2>. QED  BY <1>11, <2>1 DEF Cells
<1>13. Tiled(cells, g, end) /\ SumsUp(f, cells, end) /\ Tallied(f, f.index, cells, end)
  BY <1>8, <1>9, <1>10, <1>11 DEF FooterTrue
<1>14. SumsUp(d, cells, end) /\ d.entry_count = Cardinality(Starts(cells, end))
  BY <1>9, <1>13 DEF SumsUp, Tallied
<1>15. PICK starts : starts = {o \in Offsets : o < d.data_end /\ cells[o] # Garbage
                                               /\ cells[o].part = 0 /\ cells[o].generation = d.generation}
  OBVIOUS
<1>16. /\ d.entry_count = Cardinality(starts)
       /\ d.entry_count # 0 => /\ 0 \in starts
                               /\ cells[0].id = d.first_entry_id
                               /\ cells[Max(starts)].id = d.last_entry_id
                               /\ Max(starts) + cells[Max(starts)].size = d.data_end
  BY <1>3, <1>10, <1>13, <1>14, <1>15, CellsReadable
<1>. QED  BY <1>2, <1>3, <1>4, <1>5, <1>12, <1>15, <1>16 DEF ReadableSegment

\* Between two operations every descriptor describes its slot.
LEMMA RunningReadable ==
    TypeOK /\ SpaceInv /\ RetirementInv /\ ActiveInv /\ TilesInv /\ SumsInv /\ TallyInv /\ FooterInv
        /\ ListedInv /\ OpenInv => SnapshotReadable
<1>. SUFFICES ASSUME TypeOK, SpaceInv, RetirementInv, ActiveInv, TilesInv, SumsInv, TallyInv, FooterInv,
                     ListedInv, OpenInv, mode = "run", todo = <<>>, NEW s \in ValidSlots(segments)
              PROVE  ReadableSegment(s)
  BY DEF SnapshotReadable, Idle
<1>1. Pending = {}
  BY DEF Pending, StepsOf
<1>2. \A names : ~Has(names)
  BY <1>1 DEF Has
<1>3. Working /\ Retiring /\ s \in Slots /\ segments[s].valid
  BY <1>2 DEF Working, Choosing, RetirementInv, ValidSlots
<1>4. Closed(s) \/ s = active_segment.slot
  BY <1>2, <1>3 DEF OpenInv, Open
<1>5. CASE s = active_segment.slot
  BY <1>3, <1>5, ActiveReadable
<1>6. CASE s # active_segment.slot
  <2>1. segments[s].sealed
    BY <1>3, <1>4, <1>6 DEF Closed
  <2>2. Listed(s)
    BY <1>1, <1>3, <2>1 DEF ListedInv
  <2>. QED  BY <1>3, <1>6, <2>1, <2>2, SealedReadable
<1>. QED  BY <1>5, <1>6

\* Between two operations every segment in memory is what a reader finds in its slot: its
\* header, and, unless it is the active one, its footer and its index, tell the entries
\* that are there, as long as no write fails and no data decays.  That the bytes of a lost
\* index are no index cannot be an assumption that TLC evaluates (prepare_read_segment,
\* read.cpp:165).
THEOREM ReadableCorrect ==
    ASSUME "io" \notin Faults, "data" \notin Faults, Garbage \notin IdSets
    PROVE  Spec => []SnapshotReadable
<1>. DEFINE Inv == /\ TypeOK /\ ControlInv /\ SpaceInv /\ IdInv /\ RotationInv /\ GenerationInv /\ RetirementInv
                   /\ SequenceInv /\ BufferInv /\ ActiveInv /\ AppendInv /\ TilesInv /\ SealInv /\ SumsInv
                   /\ TallyInv /\ FooterInv /\ WrittenInv /\ ListedInv /\ OpenInv
<1>1. Init => Inv
  BY InitType, InitSpace, InitIds, InitGeneration, InitRetirement, InitDurability, InitSealed, InitReadable
<1>2. Inv /\ [Next]_vars => Inv'
  <2>. SUFFICES ASSUME Inv, [Next]_vars PROVE Inv'
    OBVIOUS
  <2>1. TypeOK' /\ ControlInv' /\ SpaceInv' /\ IdInv' /\ RotationInv' /\ GenerationInv' /\ RetirementInv'
    BY NextType, NextSpace, NextIds, NextRotation, NextGeneration, NextRetirement
  <2>2. SequenceInv' /\ BufferInv'
    BY <2>1, NextBuffer
  <2>3. AppendInv' /\ ActiveInv'
    BY <2>1, <2>2, NextAppend, NextActive
  <2>4. TilesInv'
    BY <2>1, <2>2, NextTiles
  <2>5. SealInv'
    BY <2>1, <2>2, NextSeal
  <2>6. SumsInv'
    BY <2>1, <2>2, NextSums
  <2>7. TallyInv'
    BY <2>1, <2>2, NextTally DEF SealInv
  <2>8. FooterInv'
    BY <2>1, NextFooter DEF SealInv
  <2>9. WrittenInv'
    BY <2>1, <2>2, NextWritten DEF SealInv
  <2>10. ListedInv'
    BY <2>1, NextListed
  <2>11. OpenInv'
    BY <2>1, NextOpen DEF SealInv
  <2>. QED  BY <2>1, <2>2, <2>3, <2>4, <2>5, <2>6, <2>7, <2>8, <2>9, <2>10, <2>11
<1>3. Inv => SnapshotReadable
  BY RunningReadable
<1>. HIDE DEF Inv
<1>. QED  BY <1>1, <1>2, <1>3, PTL DEF Spec
===============================================================================
