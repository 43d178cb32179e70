----------------------- MODULE SegmentStoreSafetyProofs -----------------------
(***************************************************************************)
(* What the segment store promises of its medium, on top of the types, the *)
(* order and the space of SegmentStoreProofs: no entry id twice, later     *)
(* entries in later generations, and no segment overwritten before it is   *)
(* retired.  Then what SegmentStoreDurabilityProofs starts from: the order *)
(* of appending, flushing and sealing (SequenceInv, AppendInv, BufferInv)  *)
(* and the active segment that memory describes (ActiveInv).               *)
(***************************************************************************)
EXTENDS SegmentStoreProofs

-----------------------------------------------------------------------------
(* Ids.                                                                    *)

\* The ids of a boot are in the order of their sequences, and below those of the next.
LEMMA EntryIdOrder ==
    ASSUME NEW a \in Nat, NEW b \in Nat, NEW s \in Nat, NEW t \in Nat
    PROVE  /\ EntryId(a, s) \in Nat /\ LastId(a) \in Nat
           /\ s <= t => EntryId(a, s) <= EntryId(a, t)
           /\ s < t => EntryId(a, s) < EntryId(a, t)
           /\ s <= SequenceMask => EntryId(a, s) <= LastId(a)
           /\ a < b => LastId(a) < EntryId(b, s)
           /\ a <= b => LastId(a) <= LastId(b)
<1>. DEFINE m == SequenceMask + 1
<1>1. m \in Nat /\ SequenceMask \in Nat /\ m = SequenceMask + 1
  BY MaskAssumption
<1>. HIDE DEF m
<1>2. \A x, y \in Nat : x * y \in Nat
  OBVIOUS
<1>3. a * m \in Nat /\ b * m \in Nat
  BY <1>1, <1>2
<1>4. a < b => a * m + m <= b * m
  <2>. SUFFICES ASSUME a < b PROVE a * m + m <= b * m
    OBVIOUS
  <2>1. PICK k \in Nat : b = a + 1 + k
    <3>1. b - a - 1 \in Nat /\ b = a + 1 + (b - a - 1)
      OBVIOUS
    <3>. QED  BY <3>1
  <2>2. b * m = a * m + m + k * m
    BY <1>1, <2>1
  <2>3. k * m \in Nat
    BY <1>1, <1>2
  <2>. QED  BY <1>1, <1>3, <2>2, <2>3
<1>5. EntryId(a, s) = a * m + s /\ EntryId(a, t) = a * m + t /\ EntryId(b, s) = b * m + s
      /\ LastId(a) = a * m + SequenceMask /\ LastId(b) = b * m + SequenceMask
  BY DEF EntryId, LastId, m
<1>. QED  BY <1>1, <1>3, <1>4, <1>5

\* An id lies within the ids of the boot it names.
LEMMA IdInBoot ==
    ASSUME NEW id \in Nat
    PROVE  id \div (SequenceMask + 1) \in Nat /\ id <= LastId(id \div (SequenceMask + 1))
<1>1. PICK m \in Nat \ {0} : m = SequenceMask + 1
  BY MaskAssumption
<1>2. PICK q \in Nat : q = id \div m
  <2>1. id \div m \in Nat
    BY <1>1
  <2>. QED  BY <2>1
<1>3. PICK r \in 0 .. m - 1 : r = id % m
  <2>1. id % m \in 0 .. m - 1
    BY <1>1
  <2>. QED  BY <2>1
<1>4. id = m * q + r
  BY <1>1, <1>2, <1>3
<1>5. LastId(q) = m * q + (m - 1)
  BY <1>1, <1>2, MaskAssumption DEF LastId, EntryId
<1>6. m * q \in Nat
  BY <1>1, <1>2
<1>7. id <= LastId(q)
  BY <1>3, <1>4, <1>5, <1>6
<1>. QED  BY <1>1, <1>2, <1>7

\* Below a bound is below a greater one.
LEMMA BelowHigher ==
    ASSUME TypeOK, NEW low \in Nat, NEW high \in Nat, low <= high, IdsBelow(low)
    PROVE  IdsBelow(high)
<1>. USE DEF TypeOK, MediumTypeOK, MemoryTypeOK
<1>1. ASSUME NEW s \in Slots, NEW o \in Offsets, data[s][o] # Garbage
      PROVE  data[s][o].id <= high
  <2>1. data[s][o].id \in Nat /\ data[s][o].id <= low
    BY <1>1 DEF IdsBelow, MediumIdsBelow, Cell
  <2>. QED  BY <2>1
<1>2. ASSUME NEW s \in Slots, NEW c \in Copies, footers[s][c] # Garbage
      PROVE  footers[s][c].last_entry_id <= high
  <2>1. footers[s][c].last_entry_id \in Nat /\ footers[s][c].last_entry_id <= low
    BY <1>2 DEF IdsBelow, MediumIdsBelow, FooterRecord
  <2>. QED  BY <2>1
<1>3. ASSUME NEW k \in DOMAIN write_buf
      PROVE  write_buf[k].id <= high
  <2>1. write_buf[k] \in Cell /\ write_buf[k].id <= low
    BY <1>3, ElementOfSeq DEF IdsBelow, MemoryIdsBelow
  <2>. QED  BY <2>1 DEF Cell
<1>4. ASSUME NEW s \in Slots
      PROVE  segments[s].last_entry_id <= high
  <2>1. segments[s].last_entry_id \in Nat /\ segments[s].last_entry_id <= low
    BY DEF IdsBelow, MemoryIdsBelow, Descriptor
  <2>. QED  BY <2>1
<1>. QED  BY <1>1, <1>2, <1>3, <1>4 DEF IdsBelow, MediumIdsBelow, MemoryIdsBelow

\* IdsBelow in the next state, of a bound in this one.
IdsBelowNext(top) ==
    MediumIdsBelow(data', footers', top) /\ MemoryIdsBelow(write_buf', segments', top)

\* A write adds no id but those in memory and, for a direct append, the newest.
LEMMA WriteIds ==
    ASSUME TypeOK, NEW top \in Nat, IdsBelow(top), NEW o \in Outcomes, Write(o),
           At("write_entry") => state.newest_entry_id <= top
    PROVE  MediumIdsBelow(data', footers', top)
<1>. USE DEF TypeOK, MediumTypeOK, MemoryTypeOK
<1>1. ASSUME NEW s \in Slots, NEW offset \in Nat, NEW cells, WriteCells(s, offset, cells, o),
             \A k \in DOMAIN cells : cells[k].id <= top
      PROVE  \A t \in Slots, p \in Offsets : data'[t][p] # Garbage => data'[t][p].id <= top
  <2>. DEFINE fates == IF o = "torn" THEN [DOMAIN cells -> Outcomes] ELSE {[k \in DOMAIN cells |-> o]}
  <2>1. PICK m \in fates :
            data' = [data EXCEPT ![s] =
                      [p \in Offsets |-> IF p - offset + 1 \in DOMAIN cells
                                         THEN Land(data[s][p], cells[p - offset + 1],
                                                   m[p - offset + 1])
                                         ELSE data[s][p]]]
    BY <1>1 DEF WriteCells
  <2>. HIDE DEF fates
  <2>2. ASSUME NEW t \in Slots, NEW p \in Offsets
        PROVE  data'[t][p] \in {data[t][p], Garbage} \cup {cells[k] : k \in DOMAIN cells}
    <3>1. \A k \in DOMAIN cells :
              m[k] \in Outcomes => Land(data[s][p], cells[k], m[k]) \in {data[s][p], Garbage, cells[k]}
      BY DEF Land, Outcomes
    <3>2. \A k \in DOMAIN cells : m[k] \in Outcomes
      BY <2>1 DEF fates
    <3>. QED  BY <2>1, <3>1, <3>2
  <2>3. ASSUME NEW t \in Slots, NEW p \in Offsets, data'[t][p] # Garbage
        PROVE  data'[t][p].id <= top
    <3>1. CASE data'[t][p] = data[t][p]
      BY <2>3, <3>1 DEF IdsBelow, MediumIdsBelow
    <3>2. CASE \E k \in DOMAIN cells : data'[t][p] = cells[k]
      BY <1>1, <3>2
    <3>. QED  BY <2>2, <2>3, <3>1, <3>2
  <2>. QED  BY <2>3
<1>2. CASE WriterWrite(o) /\ WriteBuffer(o)
  <2>1. \A k \in DOMAIN write_buf : write_buf[k].id <= top
    BY DEF IdsBelow, MemoryIdsBelow
  <2>2. writer_fd \in Slots /\ WriteCells(writer_fd, write_buf_offset, write_buf, o)
    BY <1>2 DEF WriterWrite, WriteBuffer
  <2>3. \A t \in Slots, p \in Offsets : data'[t][p] # Garbage => data'[t][p].id <= top
    BY <1>1, <2>1, <2>2
  <2>. QED  BY <1>2, <2>3 DEF WriteBuffer, IdsBelow, MediumIdsBelow
<1>3. CASE WriterWrite(o) /\ WriteEntry(o)
  <2>. DEFINE cells == EntryCells(state.newest_entry_id, active_segment.generation, Arg)
  <2>1. \A k \in DOMAIN cells : cells[k].id <= top
    BY <1>3 DEF EntryCells, WriteEntry
  <2>2. writer_fd \in Slots /\ WriteCells(writer_fd, active_write_offset, cells, o)
    BY <1>3 DEF WriterWrite, WriteEntry
  <2>. HIDE DEF cells
  <2>3. \A t \in Slots, p \in Offsets : data'[t][p] # Garbage => data'[t][p].id <= top
    BY <1>1, <2>1, <2>2
  <2>. QED  BY <1>3, <2>3 DEF WriteEntry, IdsBelow, MediumIdsBelow
<1>4. CASE WriterWrite(o) /\ WriteFooter(o)
  <2>1. ActiveFooter.last_entry_id <= top
    BY DEF ActiveFooter, IdsBelow, MemoryIdsBelow
  <2>2. /\ data' = data
        /\ footers' = [footers EXCEPT ![writer_fd][Arg] = Land(footers[writer_fd][Arg], ActiveFooter, o)]
    BY <1>4 DEF WriteFooter
  <2>3. ASSUME NEW s \in Slots, NEW c \in Copies, footers'[s][c] # Garbage
        PROVE  footers'[s][c].last_entry_id <= top
    <3>1. Land(footers[s][c], ActiveFooter, o) \in {footers[s][c], Garbage, ActiveFooter}
      BY DEF Land, Outcomes
    <3>2. footers'[s][c] \in {footers[s][c], Garbage, ActiveFooter}
      BY <2>2, <3>1
    <3>. QED  BY <2>1, <2>3, <3>2 DEF IdsBelow, MediumIdsBelow
  <2>. QED  BY <2>2, <2>3 DEF IdsBelow, MediumIdsBelow
<1>5. CASE (WriterWrite(o) /\ (WriteIndex(o) \/ WriteHeader(o))) \/ Commit(o)
  BY <1>5 DEF WriteIndex, WriteHeader, Commit, IdsBelow
<1>. QED  BY <1>2, <1>3, <1>4, <1>5 DEF Write, WriterWrite

\* The two bounds are natural numbers.
LEMMA BoundTypes ==
    ASSUME TypeOK
    PROVE  /\ state.boot_counter \in Nat /\ state.next_entry_sequence \in Nat
           /\ state.newest_entry_id \in Nat /\ checkpoint.boot_counter \in Nat
           /\ checkpoint.newest_entry_id \in Nat
           /\ LastId(checkpoint.boot_counter) \in Nat /\ LastId(state.boot_counter) \in Nat
           /\ NewestHandedOut \in Nat
<1>1. /\ state.boot_counter \in Nat /\ state.next_entry_sequence \in Nat
      /\ state.newest_entry_id \in Nat /\ checkpoint.boot_counter \in Nat
      /\ checkpoint.newest_entry_id \in Nat
  BY DEF TypeOK, MemoryTypeOK, MediumTypeOK, StateRecord
<1>. QED  BY <1>1, EntryIdOrder DEF NewestHandedOut

\* While an entry is on its way the boot is counted and committed, and the newest id
\* is within both bounds.
LEMMA EntryUnderway ==
    ASSUME TypeOK, ControlInv, IdInv, todo # <<>>, Has(Entry)
    PROVE  /\ Counted /\ ~Has(Booting) /\ state.boot_counter = checkpoint.boot_counter
           /\ state.newest_entry_id <= NewestHandedOut
           /\ state.newest_entry_id <= LastId(checkpoint.boot_counter)
<1>1. ~Has(Booting) /\ mode # "off"
  BY DEF ControlInv, Entry
<1>2. Counted /\ ~Has({"append_boot"})
  BY <1>1 DEF Counted, Has, Booting
<1>. QED  BY <1>1, <1>2 DEF IdInv

\* The steps that neither count the boot, commit, nor hand out an id.
Quiet == Names \ {"count_boot", "append_boot", "commit", "put", "reserve", "ready"}

\* A step that neither counts the boot, commits nor hands out an id keeps IdInv, if
\* it brings up no id that is not known yet.
LEMMA IdKept ==
    ASSUME TypeOK, ControlInv, IdInv, todo # <<>>, ControlInv', UNCHANGED mode,
           Head(todo)[1] \in Quiet, Rest \subseteq Pending',
           \A x \in Pending' : x \in Rest \/ x[1] # "ready",
           UNCHANGED <<checkpoint, state.boot_counter, state.next_entry_sequence,
                       state.newest_entry_id>>,
           \A top \in Nat : IdsBelow(top) /\ (Has(Entry) => state.newest_entry_id <= top)
                                => IdsBelowNext(top)
    PROVE  IdInv'
<1>1. Pending = {Head(todo)} \cup Rest /\ mode # "off"
  BY BehindEntry DEF ControlInv
<1>2. NewestHandedOut' = NewestHandedOut /\ Handed' = Handed
  BY DEF NewestHandedOut, Handed
<1>3. IdsBelow(LastId(checkpoint.boot_counter))'
  <2>1. Has(Entry) => state.newest_entry_id <= LastId(checkpoint.boot_counter)
    BY EntryUnderway
  <2>2. IdsBelowNext(LastId(checkpoint.boot_counter))
    BY <2>1, BoundTypes DEF IdInv
  <2>. QED  BY <2>2 DEF IdsBelowNext, IdsBelow, MediumIdsBelow, MemoryIdsBelow
<1>4. Has(Recovering) => Has(Recovering)'
  <2>1. Has(Recovering) => \E x \in Rest : x[1] = "count_boot"
    BY <1>1 DEF ControlInv, Has, Quiet
  <2>. QED  BY <2>1 DEF Has, Recovering
<1>5. ASSUME Counted'
      PROVE  /\ IdsBelow(NewestHandedOut)'
             /\ state.newest_entry_id <= NewestHandedOut
             /\ state.next_entry_sequence <= SequenceMask
             /\ \/ state.boot_counter = checkpoint.boot_counter
                \/ Has({"append_boot"})' /\ Has({"commit"})'
  <2>1. Counted
    BY <1>4, <1>5 DEF Counted
  <2>2. IdsBelowNext(NewestHandedOut)
    <3>1. Has(Entry) => state.newest_entry_id <= NewestHandedOut
      BY EntryUnderway
    <3>. QED  BY <2>1, <3>1, BoundTypes DEF IdInv
  <2>3. IdsBelow(NewestHandedOut)'
    BY <1>2, <2>2 DEF IdsBelowNext, IdsBelow, MediumIdsBelow, MemoryIdsBelow
  <2>4. Has({"append_boot"}) => Has({"append_boot"})'
    BY <1>1 DEF Has, Quiet
  <2>5. Has({"commit"}) => Has({"commit"})'
    BY <1>1 DEF Has, Quiet
  <2>. QED  BY <2>1, <2>3, <2>4, <2>5 DEF IdInv
<1>6. Has({"ready"})' => Has(Booting \cup {"put", "reserve"})' \/ Handed
  <2>. SUFFICES ASSUME Has({"ready"})', ~Handed PROVE Has(Booting \cup {"put", "reserve"})'
    OBVIOUS
  <2>1. Has({"ready"})
    BY <1>1 DEF Has
  <2>2. Has(Booting \cup {"put", "reserve"})
    BY <2>1 DEF IdInv
  <2>3. PICK x \in Pending : x[1] \in Booting \cup {"put", "reserve"}
    BY <2>2 DEF Has
  <2>4. CASE x \in Rest
    BY <2>3, <2>4 DEF Has
  <2>5. CASE x = Head(todo)
    <3>1. x[1] \in Recovering
      BY <2>3, <2>5 DEF Quiet, Booting
    <3>. QED  BY <1>4, <3>1 DEF Has, Booting
  <2>. QED  BY <1>1, <2>3, <2>4, <2>5
<1>. QED  BY <1>1, <1>2, <1>3, <1>5, <1>6 DEF IdInv

\* A step that leaves ids and the state alone.
LEMMA SameIds ==
    ASSUME UNCHANGED <<data, footers, write_buf, segments>>, NEW top, IdsBelow(top)
    PROVE  IdsBelowNext(top)
  BY DEF IdsBelow, IdsBelowNext

\* Descriptors with no newer ids.
LEMMA DescriptorIds ==
    ASSUME UNCHANGED <<data, footers, write_buf>>, NEW top \in Nat, IdsBelow(top),
           \A s \in Slots : \/ segments'[s].last_entry_id = segments[s].last_entry_id
                            \/ segments'[s].last_entry_id <= top
    PROVE  IdsBelowNext(top)
<1>1. \A s \in Slots : segments'[s].last_entry_id <= top
  BY DEF IdsBelow, MemoryIdsBelow
<1>. QED  BY <1>1 DEF IdsBelow, IdsBelowNext, MemoryIdsBelow

\* The ids that recovery takes from the medium.
LEMMA RecoveredIds ==
    ASSUME TypeOK, NEW top \in Nat, IdsBelow(top), NEW s \in Slots, NEW g
    PROVE  /\ \A b \in BOOLEAN : Scan(s, g, b).last_entry_id <= top
           /\ HasFooter(s, g) => SealedSegment(Footer(s, g)).last_entry_id <= top
           /\ NoSegment.last_entry_id <= top
<1>. USE DEF TypeOK
<1>1. ASSUME NEW b \in BOOLEAN
      PROVE  Scan(s, g, b).last_entry_id <= top
  <2>. DEFINE R == ScannedEntries(s, g)
  <2>1. CASE R = {}
    BY <2>1 DEF Scan, FreshSegment, NoSegment
  <2>2. CASE R # {}
    <3>1. R \in SUBSET Nat /\ IsFiniteSet(R)
      BY ScannedType DEF Offsets
    <3>2. Max(R) \in R
      BY <2>2, <3>1, MaxType
    <3>3. Max(R) \in Offsets /\ data[s][Max(R)] # Garbage
      BY <3>2 DEF ScannedEntries, EntryAt
    <3>4. data[s][Max(R)].id <= top
      BY <3>3 DEF IdsBelow, MediumIdsBelow
    <3>. QED  BY <2>2, <3>4 DEF Scan
  <2>. QED  BY <2>1, <2>2
<1>2. ASSUME HasFooter(s, g)
      PROVE  SealedSegment(Footer(s, g)).last_entry_id <= top
  <2>1. \E c \in Copies : Footer(s, g) = footers[s][c] /\ footers[s][c] # Garbage
    BY <1>2 DEF HasFooter, FooterValid, Footer, Copies
  <2>. QED  BY <2>1 DEF SealedSegment, IdsBelow, MediumIdsBelow
<1>. QED  BY <1>1, <1>2 DEF NoSegment

-----------------------------------------------------------------------------
(* Each action keeps the ids apart.                                        *)

\* The steps that leave the boot, the newest id and the commits alone.
LEMMA QuietNames ==
    /\ \A n \in {"write_buffer", "flushed", "write_index", "footer", "sealed", "close_writer",
                 "open_next", "retire", "open_writer", "header", "activate", "prepare", "flush",
                 "write_entry", "account", "acknowledge", "recover", "highest",
                 "seal_recovered", "select", "settle"} : n \in Quiet
    /\ \A n \in {"count_boot", "append_boot", "commit", "put", "reserve", "ready"} : n \notin Quiet
  BY NamesValue DEF Quiet

\* A rescan brings up no id that the medium does not hold.
LEMMA AdoptIds ==
    ASSUME TypeOK, NEW top \in Nat, IdsBelow(top), NEW s \in Slots, NEW g, Adopt(s, g),
           UNCHANGED <<data, footers>>
    PROVE  IdsBelowNext(top)
<1>1. Scan(s, g, TRUE).last_entry_id <= top
  BY RecoveredIds
<1>2. \A t \in Slots : \/ segments'[t].last_entry_id = segments[t].last_entry_id
                       \/ segments'[t].last_entry_id <= top
  BY <1>1 DEF Adopt, TypeOK, MemoryTypeOK
<1>3. UNCHANGED write_buf
  BY DEF Adopt
<1>. QED  BY <1>2, <1>3, DescriptorIds

\* So does a descriptor without newer ids.
LEMMA SetDescriptorIds ==
    ASSUME TypeOK, NEW top \in Nat, IdsBelow(top), NEW s \in Slots, NEW d, SetDescriptor(s, d),
           d.last_entry_id <= top, UNCHANGED <<data, footers>>
    PROVE  IdsBelowNext(top)
<1>1. \A t \in Slots : \/ segments'[t].last_entry_id = segments[t].last_entry_id
                       \/ segments'[t].last_entry_id <= top
  BY DEF SetDescriptor, TypeOK, MemoryTypeOK
<1>2. UNCHANGED write_buf
  BY DEF SetDescriptor
<1>. QED  BY <1>1, <1>2, DescriptorIds

\* The moves that neither commit nor take an id.
LEMMA MovesIds ==
    ASSUME TypeOK, ControlInv, IdInv, Moves, ~Settle, ~At("commit"), ~PutEntry, ~ReserveEntry
    PROVE  IdInv'
<1>. USE DEF TypeOK, MemoryTypeOK
<1>1. ControlInv' /\ Pending' = Rest /\ todo # <<>>
  BY MovesControl
<1>2. Pending = {Head(todo)} \cup Rest
  BY <1>1, BehindEntry
<1>3. ASSUME UNCHANGED mode, Head(todo)[1] \in Quiet,
             UNCHANGED <<checkpoint, state.boot_counter, state.next_entry_sequence,
                         state.newest_entry_id>>,
             \A top \in Nat : IdsBelow(top) /\ (Has(Entry) => state.newest_entry_id <= top)
                                  => IdsBelowNext(top)
      PROVE  IdInv'
  <2>1. \A x \in Pending' : x \in Rest \/ x[1] # "ready"
    BY <1>1
  <2>. QED  BY <1>1, <1>3, <2>1, IdKept
<1>4. CASE WriteDone
  <2>1. /\ WriterWrite("new") /\ Write("new") /\ UNCHANGED <<mode, memory>> /\ "new" \in Outcomes
    BY <1>4 DEF WriteDone, Write, Commit, Outcomes
  <2>2. Head(todo)[1] \in {"write_buffer", "write_entry", "write_index", "footer", "header"}
    BY <2>1 DEF WriterWrite, WriteBuffer, WriteEntry, WriteIndex, WriteFooter, WriteHeader, At
  <2>3. UNCHANGED checkpoint
    BY <2>1 DEF WriterWrite, WriteBuffer, WriteEntry, WriteIndex, WriteFooter, WriteHeader
  <2>4. At("write_entry") => Has(Entry)
    BY <1>2 DEF At, Has, Entry, Sized
  <2>5. ASSUME NEW top \in Nat, IdsBelow(top), Has(Entry) => state.newest_entry_id <= top
        PROVE  IdsBelowNext(top)
    <3>1. MediumIdsBelow(data', footers', top)
      BY <2>1, <2>4, <2>5, WriteIds
    <3>2. UNCHANGED <<write_buf, segments>>
      BY <2>1 DEF memory
    <3>. QED  BY <2>5, <3>1, <3>2 DEF IdsBelow, IdsBelowNext
  <2>6. Head(todo)[1] \in Quiet
    BY <2>2, QuietNames
  <2>. QED  BY <1>3, <2>1, <2>3, <2>5, <2>6 DEF memory
<1>5. CASE OpenWriter \/ CloseWriter
  <2>1. UNCHANGED <<mode, checkpoint, state, data, footers, write_buf, segments>>
    BY <1>5 DEF OpenWriter, CloseWriter, medium
  <2>2. Head(todo)[1] \in Quiet
    BY <1>5, QuietNames DEF OpenWriter, CloseWriter, At
  <2>. QED  BY <1>3, <2>1, <2>2, SameIds
<1>6. CASE Acknowledge
  <2>1. UNCHANGED <<mode, checkpoint, state, data, footers, write_buf, segments>>
    BY <1>6 DEF Acknowledge, medium, memory
  <2>2. Head(todo)[1] \in Quiet
    BY <1>6, QuietNames DEF Acknowledge, At
  <2>. QED  BY <1>3, <2>1, <2>2, SameIds
<1>7. CASE Flushed
  <2>1. UNCHANGED <<mode, checkpoint, state, data, footers, segments>> /\ write_buf' = <<>>
    BY <1>7 DEF Flushed, medium
  <2>2. Head(todo)[1] \in Quiet
    BY <1>7, QuietNames DEF Flushed, At
  <2>3. \A top \in Nat : IdsBelow(top) => IdsBelowNext(top)
    BY <2>1 DEF IdsBelow, IdsBelowNext, MemoryIdsBelow
  <2>. QED  BY <1>3, <2>1, <2>2, <2>3
<1>8. CASE Sealed
  <2>1. UNCHANGED <<mode, checkpoint, state, data, footers, write_buf>>
    BY <1>8 DEF Sealed, medium
  <2>2. Head(todo)[1] \in Quiet
    BY <1>8, QuietNames DEF Sealed, At
  <2>3. \A s \in Slots : segments'[s].last_entry_id = segments[s].last_entry_id
    BY <1>8 DEF Sealed, Descriptor
  <2>4. \A top \in Nat : IdsBelow(top) => IdsBelowNext(top)
    BY <2>1, <2>3, DescriptorIds
  <2>. QED  BY <1>3, <2>1, <2>2, <2>4
<1>9. CASE Activate
  <2>1. UNCHANGED <<mode, checkpoint, data, footers>> /\ write_buf' = <<>>
        /\ UNCHANGED <<state.boot_counter, state.next_entry_sequence, state.newest_entry_id>>
    BY <1>9 DEF Activate, medium, StateRecord
  <2>2. Head(todo)[1] \in Quiet
    BY <1>9, QuietNames DEF Activate, At
  <2>3. \A s \in Slots : \/ segments'[s].last_entry_id = segments[s].last_entry_id
                         \/ segments'[s].last_entry_id = 0
    BY <1>9 DEF Activate, FreshSegment, NoSegment
  <2>4. \A top \in Nat : IdsBelow(top) => IdsBelowNext(top)
    BY <2>1, <2>3 DEF IdsBelow, IdsBelowNext, MemoryIdsBelow
  <2>. QED  BY <1>3, <2>1, <2>2, <2>4
<1>10. CASE AccountEntry
  <2>1. UNCHANGED <<mode, checkpoint, state, data, footers, write_buf>>
    BY <1>10 DEF AccountEntry, medium
  <2>2. Head(todo)[1] \in Quiet /\ Has(Entry)
    BY <1>2, <1>10, QuietNames DEF AccountEntry, At, Has, Entry, Sized
  <2>3. \A s \in Slots : \/ segments'[s].last_entry_id = segments[s].last_entry_id
                         \/ segments'[s].last_entry_id = state.newest_entry_id
    BY <1>10 DEF AccountEntry, Account, Descriptor
  <2>4. ASSUME NEW top \in Nat, IdsBelow(top), state.newest_entry_id <= top
        PROVE  IdsBelowNext(top)
    BY <2>1, <2>3, <2>4, DescriptorIds
  <2>. QED  BY <1>3, <2>1, <2>2, <2>4
<1>. QED  BY <1>4, <1>5, <1>6, <1>7, <1>8, <1>9, <1>10 DEF Moves

\* What a write, whole or torn, adds to the medium.
Wrote == UNCHANGED <<data, footers, checkpoint>> \/ \E o \in Outcomes : Write(o)

\* Whatever a write leaves, the medium holds no id beyond the last of the committed
\* boot; once the boot is counted and committed, none beyond the newest handed out.
LEMMA WroteIds ==
    ASSUME TypeOK, ControlInv, IdInv, Wrote, todo = <<>> => UNCHANGED <<data, footers, checkpoint>>
    PROVE  /\ MediumIdsBelow(data', footers', LastId(checkpoint'.boot_counter))
           /\ checkpoint'.newest_entry_id <= LastId(checkpoint'.boot_counter)
           /\ Counted /\ state.boot_counter = checkpoint.boot_counter =>
                 /\ MediumIdsBelow(data', footers', NewestHandedOut)
                 /\ checkpoint'.boot_counter = checkpoint.boot_counter
<1>1. CASE UNCHANGED <<data, footers, checkpoint>>
  BY <1>1 DEF IdInv, IdsBelow
<1>2. CASE todo # <<>> /\ \E o \in Outcomes : Write(o)
  <2>1. PICK o \in Outcomes : Write(o)
    BY <1>2
  <2>2. mode # "off" /\ Pending = {Head(todo)} \cup Rest
    BY <1>2, BehindEntry DEF ControlInv
  <2>3. ASSUME NEW top \in Nat, IdsBelow(top),
               Has(Entry) => state.newest_entry_id <= top
        PROVE  MediumIdsBelow(data', footers', top)
    <3>1. At("write_entry") => Has(Entry)
      BY <2>2 DEF At, Has, Entry, Sized
    <3>. QED  BY <2>1, <2>3, <3>1, WriteIds
  <2>4. /\ Has(Entry) => /\ state.newest_entry_id <= NewestHandedOut
                         /\ state.newest_entry_id <= LastId(checkpoint.boot_counter)
        /\ LastId(checkpoint.boot_counter) \in Nat /\ NewestHandedOut \in Nat
    BY <1>2, EntryUnderway, BoundTypes
  <2>5. CASE UNCHANGED checkpoint
    <3>1. MediumIdsBelow(data', footers', LastId(checkpoint'.boot_counter))
      BY <2>3, <2>4, <2>5 DEF IdInv
    <3>2. Counted => MediumIdsBelow(data', footers', NewestHandedOut)
      BY <2>3, <2>4 DEF IdInv
    <3>. QED  BY <2>5, <3>1, <3>2 DEF IdInv
  <2>6. CASE checkpoint' = state /\ UNCHANGED <<data, footers>>
    <3>1. /\ checkpoint.boot_counter <= state.boot_counter
          /\ state.newest_entry_id <= LastId(state.boot_counter)
      BY <2>2 DEF IdInv
    <3>2. /\ checkpoint.boot_counter \in Nat /\ state.boot_counter \in Nat
          /\ LastId(state.boot_counter) \in Nat
      BY BoundTypes
    <3>3. LastId(checkpoint.boot_counter) <= LastId(state.boot_counter)
      BY <3>1, <3>2, EntryIdOrder
    <3>4. IdsBelow(LastId(state.boot_counter))
      BY <2>4, <3>2, <3>3, BelowHigher DEF IdInv
    <3>. QED  BY <2>6, <3>1, <3>4 DEF IdInv, IdsBelow
  <2>7. UNCHANGED checkpoint \/ (checkpoint' = state /\ UNCHANGED <<data, footers>>)
    BY <2>1 DEF Write, Commit, WriterWrite, WriteBuffer, WriteEntry, WriteIndex, WriteFooter,
                WriteHeader
  <2>. QED  BY <2>5, <2>6, <2>7
<1>. QED  BY <1>1, <1>2 DEF Wrote

\* Closing the store, whatever the write in progress left.
LEMMA ResetIds ==
    ASSUME TypeOK, TypeOK', ControlInv, IdInv, Wrote, Reset,
           todo = <<>> => UNCHANGED <<data, footers, checkpoint>>
    PROVE  IdInv'
<1>1. /\ MediumIdsBelow(data', footers', LastId(checkpoint'.boot_counter))
      /\ checkpoint'.newest_entry_id <= LastId(checkpoint'.boot_counter)
  BY WroteIds
<1>2. checkpoint'.boot_counter \in Nat
  BY DEF TypeOK, MediumTypeOK, StateRecord
<1>3. LastId(checkpoint'.boot_counter) \in Nat
  BY <1>2, EntryIdOrder
<1>4. /\ mode' = "off" /\ write_buf' = <<>> /\ segments' = [s \in Slots |-> NoSegment]
      /\ Pending' = {}
  BY EmptyControl DEF Reset
<1>5. MemoryIdsBelow(write_buf', segments', LastId(checkpoint'.boot_counter))
  BY <1>3, <1>4 DEF MemoryIdsBelow, NoSegment
<1>. QED  BY <1>1, <1>4, <1>5 DEF IdInv, IdsBelow, Counted, Has

\* An operation that gives up, whatever the write in progress left.
LEMMA AbortIds ==
    ASSUME TypeOK, ControlInv, IdInv, Wrote, todo # <<>>, mode # "init", todo' = <<>>,
           UNCHANGED <<mode, state, write_buf, segments>>
    PROVE  IdInv'
<1>1. mode = "run" /\ ~Has(Booting)
  BY DEF TypeOK, ControlInv, Has
<1>2. Counted /\ state.boot_counter = checkpoint.boot_counter
  BY <1>1 DEF IdInv, Counted, Has, Booting
<1>3. /\ MediumIdsBelow(data', footers', LastId(checkpoint'.boot_counter))
      /\ checkpoint'.newest_entry_id <= LastId(checkpoint'.boot_counter)
      /\ MediumIdsBelow(data', footers', NewestHandedOut)
      /\ checkpoint'.boot_counter = checkpoint.boot_counter
  BY <1>2, WroteIds
<1>4. Pending' = {}
  BY EmptyControl
<1>5. NewestHandedOut' = NewestHandedOut /\ Handed' = Handed
  BY DEF NewestHandedOut, Handed
<1>6. IdsBelow(LastId(checkpoint.boot_counter))' /\ IdsBelow(NewestHandedOut)'
  BY <1>2, <1>3, <1>5 DEF IdInv, IdsBelow
<1>. QED  BY <1>1, <1>2, <1>3, <1>4, <1>5, <1>6 DEF IdInv, Has

\* An error return.
LEMMA FailIds ==
    ASSUME TypeOK, TypeOK', ControlInv, IdInv, Wrote, Fail, todo # <<>>
    PROVE  IdInv'
  BY ResetIds, AbortIds DEF Fail, memory

\* A commit makes the boot counter in memory the durable one.
LEMMA CommitIds ==
    ASSUME TypeOK, ControlInv, IdInv, WriteDone, At("commit")
    PROVE  IdInv'
<1>1. ControlInv' /\ Pending' = Rest /\ todo # <<>>
  BY MovesControl DEF Moves
<1>2. Pending = {Head(todo)} \cup Rest /\ mode # "off"
  BY <1>1, BehindEntry DEF ControlInv
<1>3. Commit("new") /\ UNCHANGED <<mode, memory>>
  BY DEF WriteDone, Write, WriterWrite, WriteBuffer, WriteEntry, WriteIndex, WriteFooter,
         WriteHeader, At
<1>4. checkpoint' = state /\ UNCHANGED <<data, footers, mode, state, write_buf, segments>>
  BY <1>3 DEF Commit, memory
<1>5. Wrote
  BY DEF Wrote, WriteDone, Outcomes
<1>6. /\ MediumIdsBelow(data', footers', LastId(checkpoint'.boot_counter))
      /\ checkpoint'.newest_entry_id <= LastId(checkpoint'.boot_counter)
  BY <1>1, <1>5, WroteIds
<1>7. IdsBelow(LastId(state.boot_counter))
  <2>1. /\ checkpoint.boot_counter <= state.boot_counter
        /\ checkpoint.boot_counter \in Nat /\ state.boot_counter \in Nat
        /\ LastId(state.boot_counter) \in Nat /\ LastId(checkpoint.boot_counter) \in Nat
    BY <1>2, BoundTypes DEF IdInv
  <2>2. LastId(checkpoint.boot_counter) <= LastId(state.boot_counter)
    BY <2>1, EntryIdOrder
  <2>. QED  BY <2>1, <2>2, BelowHigher DEF IdInv
<1>8. IdsBelow(LastId(checkpoint.boot_counter))'
  BY <1>4, <1>7 DEF IdsBelow
<1>9. NewestHandedOut' = NewestHandedOut /\ Handed' = Handed
  BY <1>4 DEF NewestHandedOut, Handed
<1>10. Counted' => Counted
  BY <1>1, <1>2, <1>4 DEF Counted, Has, At, Recovering
<1>11. IdsBelow(NewestHandedOut) => IdsBelow(NewestHandedOut)'
  BY <1>4, <1>9 DEF IdsBelow
<1>12. Has({"ready"})' => Has(Booting \cup {"put", "reserve"})' \/ Handed
  <2>1. \A n \in Booting \cup {"put", "reserve"} : n # "commit"
    BY DEF Booting, Recovering
  <2>. QED  BY <1>1, <1>2, <2>1 DEF IdInv, Has, At
<1>13. state.boot_counter \in Nat
  BY BoundTypes
<1>. QED  BY <1>2, <1>4, <1>6, <1>8, <1>9, <1>10, <1>11, <1>12, <1>13 DEF IdInv

\* A new id is the newest handed out, and one of the committed boot.
LEMMA EntryIds ==
    ASSUME TypeOK, ControlInv, IdInv, PutEntry \/ ReserveEntry
    PROVE  IdInv'
<1>. USE DEF TypeOK, MemoryTypeOK
<1>1. ControlInv' /\ Pending' = Rest /\ todo # <<>>
  BY MovesControl DEF Moves
<1>2. Pending = {Head(todo)} \cup Rest /\ mode # "off" /\ Has(Entry)
  <2>1. Pending = {Head(todo)} \cup Rest
    BY <1>1, BehindEntry
  <2>. QED  BY <1>1, <2>1 DEF ControlInv, Has, PutEntry, ReserveEntry, At, Entry, Sized
<1>3. /\ Counted /\ ~Has(Booting) /\ state.boot_counter = checkpoint.boot_counter
      /\ state.newest_entry_id <= NewestHandedOut
  BY <1>1, <1>2, EntryUnderway
<1>4. state.next_entry_sequence < SequenceMask /\ state' = MadeEntry
      /\ UNCHANGED <<mode, data, footers, checkpoint>>
  BY DEF PutEntry, ReserveEntry, CanMakeEntry, medium
<1>5. PICK b \in Nat, q \in Nat : b = state.boot_counter /\ q = state.next_entry_sequence
  BY BoundTypes
<1>6. /\ state'.boot_counter = b /\ state'.next_entry_sequence = q + 1
      /\ state'.newest_entry_id = EntryId(b, q + 1)
  BY <1>4, <1>5 DEF MadeEntry, NewEntryId, StateRecord
<1>7. /\ EntryId(b, q) \in Nat /\ EntryId(b, q + 1) \in Nat /\ LastId(b) \in Nat
      /\ EntryId(b, q) <= EntryId(b, q + 1) /\ EntryId(b, q + 1) <= LastId(b)
  <2>1. q + 1 \in Nat /\ q <= q + 1 /\ q + 1 <= SequenceMask /\ SequenceMask \in Nat
    BY <1>4, <1>5, MaskAssumption
  <2>. QED  BY <1>5, <2>1, EntryIdOrder
<1>8. ASSUME NEW top \in Nat, IdsBelow(top), EntryId(b, q + 1) <= top
      PROVE  IdsBelow(top)'
  <2>1. MediumIdsBelow(data, footers, top)'
    BY <1>4, <1>8 DEF IdsBelow
  <2>2. CASE ReserveEntry
    BY <1>8, <2>1, <2>2 DEF ReserveEntry, IdsBelow
  <2>3. CASE PutEntry
    <3>1. \A s \in Slots : segments'[s].last_entry_id <= top
      BY <1>5, <1>8, <2>3 DEF PutEntry, Account, NewEntryId, IdsBelow, MemoryIdsBelow, Descriptor
    <3>2. \A k \in DOMAIN write_buf' : write_buf'[k].id <= top
      <4>. DEFINE cells == EntryCells(NewEntryId, active_segment.generation, Arg)
      <4>1. \A k \in DOMAIN cells : cells[k].id = NewEntryId
        BY DEF EntryCells
      <4>2. cells \in Seq(Cell) /\ write_buf' = write_buf \o cells
        <5>1. Arg \in 1 .. Capacity
          <6>1. At("put")
            BY <2>3 DEF PutEntry
          <6>. QED  BY <1>1, <6>1, ArgType
        <5>. QED  BY <2>3, <5>1, NewEntryIdType, EntryCellsType DEF PutEntry
      <4>. HIDE DEF cells
      <4>3. \A k \in DOMAIN write_buf' : \/ k \in DOMAIN write_buf /\ write_buf'[k] = write_buf[k]
                                         \/ k - Len(write_buf) \in DOMAIN cells
                                            /\ write_buf'[k] = cells[k - Len(write_buf)]
        BY <4>2
      <4>4. NewEntryId <= top
        BY <1>5, <1>8 DEF NewEntryId
      <4>. QED  BY <1>8, <4>1, <4>3, <4>4 DEF IdsBelow, MemoryIdsBelow
    <3>. QED  BY <2>1, <3>1, <3>2 DEF IdsBelow, MemoryIdsBelow
  <2>. QED  BY <2>2, <2>3
<1>9. IdsBelow(EntryId(b, q + 1)) /\ IdsBelow(LastId(b))
  <2>1. IdsBelow(EntryId(b, q))
    BY <1>3, <1>5 DEF IdInv, NewestHandedOut
  <2>2. IdsBelow(EntryId(b, q + 1))
    BY <1>7, <2>1, BelowHigher
  <2>3. IdsBelow(LastId(b))
    BY <1>7, <2>2, BelowHigher
  <2>. QED  BY <2>2, <2>3
<1>10. IdsBelow(EntryId(b, q + 1))' /\ IdsBelow(LastId(b))'
  BY <1>7, <1>8, <1>9
<1>11. NewestHandedOut' = EntryId(b, q + 1) /\ Handed'
  BY <1>5, <1>6 DEF NewestHandedOut, Handed
<1>12. checkpoint.boot_counter = b /\ checkpoint'.boot_counter = b
  BY <1>3, <1>4, <1>5
<1>13. checkpoint'.newest_entry_id <= LastId(checkpoint'.boot_counter)
  BY <1>4 DEF IdInv
<1>14. IdsBelow(LastId(checkpoint.boot_counter))' /\ IdsBelow(NewestHandedOut)'
  BY <1>10, <1>11, <1>12
<1>15. /\ state'.boot_counter >= checkpoint'.boot_counter
       /\ state'.newest_entry_id <= LastId(state'.boot_counter)
       /\ state'.newest_entry_id <= EntryId(b, q + 1)
       /\ state'.next_entry_sequence <= SequenceMask
       /\ state'.boot_counter = checkpoint'.boot_counter
  <2>1. q + 1 <= SequenceMask
    BY <1>4, <1>5, MaskAssumption
  <2>. QED  BY <1>6, <1>7, <1>12, <2>1
<1>. QED  BY <1>11, <1>13, <1>14, <1>15 DEF IdInv

\* None of the lists called ends init().
LEMMA ListReady ==
    /\ \A x \in StepsOf(FlushSteps) : x[1] # "ready"
    /\ \A x \in StepsOf(SealSteps \o <<Do("open_next")>>) : x[1] # "ready"
    /\ \A x \in StepsOf(RetireSteps) : x[1] # "ready"
    /\ \A s \in Slots : /\ \A x \in StepsOf(ResealSteps(s)) : x[1] # "ready"
                        /\ \A x \in StepsOf(<<<<"open_writer", s>>>>) : x[1] # "ready"
    /\ \A x \in StepsOf(<<Do("open_next")>>) : x[1] # "ready"
    /\ NextSlot \in Slots => \A x \in StepsOf(OpenNextSteps) : x[1] # "ready"
<1>1. /\ IsList(FlushSteps, FlushNames)
      /\ IsList(SealSteps \o <<Do("open_next")>>, RotateNames)
      /\ \A s \in Slots : IsList(ResealSteps(s), ResealNames)
      /\ NextSlot \in Slots => IsList(OpenNextSteps, OpenNextNames)
  BY ShortLists, LongLists DEF FlushNames, RotateNames, ResealNames, ResealSteps, OpenNextSteps
<1>2. IsList(RetireSteps, {"commit"}) /\ IsList(<<Do("open_next")>>, {"open_next"})
  BY ShortLists, DoType DEF RetireSteps, Do
<1>3. \A s \in Slots : IsList(<<<<"open_writer", s>>>>, {"open_writer"})
  BY ShortLists, SlotStepType
<1>4. "ready" \notin Machinery
  BY DEF Machinery
<1>5. /\ "ready" \notin FlushNames /\ "ready" \notin RotateNames /\ "ready" \notin ResealNames
      /\ "ready" \notin OpenNextNames
  BY <1>4, MachineryType DEF MachineryNames
<1>. QED  BY <1>1, <1>2, <1>3, <1>5 DEF IsList

\* The steps that call others bring up no id.
LEMMA CallsIds ==
    ASSUME TypeOK, TypeOK', ControlInv, IdInv, Flush \/ PrepareSpace \/ OpenNext \/ Retire
    PROVE  IdInv'
<1>1. todo # <<>> /\ ControlInv'
  BY FlushControl, PrepareControl, OpenNextControl, RetireControl
<1>2. UNCHANGED <<data, footers, checkpoint>> /\ Wrote
  BY DEF Flush, PrepareSpace, OpenNext, Retire, medium, Wrote
<1>3. Head(todo)[1] \in Quiet
  BY QuietNames DEF Flush, PrepareSpace, OpenNext, Retire, At
<1>4. ASSUME Rest \subseteq Pending', \A x \in Pending' : x \in Rest \/ x[1] # "ready",
             UNCHANGED <<mode, write_buf, state.boot_counter, state.next_entry_sequence,
                         state.newest_entry_id>>,
             \A s \in Slots : \/ segments'[s].last_entry_id = segments[s].last_entry_id
                              \/ segments'[s].last_entry_id = 0
      PROVE  IdInv'
  <2>1. \A top \in Nat : IdsBelow(top) => IdsBelowNext(top)
    BY <1>2, <1>4 DEF IdsBelow, IdsBelowNext, MemoryIdsBelow
  <2>. QED  BY <1>1, <1>2, <1>3, <1>4, <2>1, IdKept
<1>5. CASE Flush
  <2>1. UNCHANGED <<mode, write_buf, segments, state>>
    BY <1>5 DEF Flush, memory
  <2>2. Pending' = Rest \/ Pending' = StepsOf(FlushSteps) \cup Rest
    BY <1>5, FlushControl
  <2>. QED  BY <1>4, <2>1, <2>2, ListReady
<1>6. CASE PrepareSpace
  <2>1. UNCHANGED <<mode, write_buf, segments, state>>
    BY <1>6 DEF PrepareSpace, memory
  <2>2. Pending' = Rest \/ Pending' = StepsOf(SealSteps \o <<Do("open_next")>>) \cup Rest
    BY <1>6, PrepareControl
  <2>. QED  BY <1>4, <2>1, <2>2, ListReady
<1>7. CASE OpenNext
  <2>1. CASE Fail
    BY <1>1, <1>2, <2>1, FailIds
  <2>2. CASE Pending' = StepsOf(OpenNextSteps) \cup Rest /\ UNCHANGED <<mode, memory>>
    <3>1. NextSlot \in Slots
      BY NextSlotType DEF TypeOK
    <3>2. UNCHANGED <<mode, write_buf, segments, state>>
      BY <2>2 DEF memory
    <3>3. \A x \in StepsOf(OpenNextSteps) : x[1] # "ready"
      BY <3>1, ListReady
    <3>4. Rest \subseteq Pending' /\ \A x \in Pending' : x \in Rest \/ x[1] # "ready"
      BY <2>2, <3>3
    <3>. QED  BY <1>4, <3>2, <3>4
  <2>. QED  BY <1>7, <2>1, <2>2, OpenNextControl
<1>8. CASE Retire
  <2>1. UNCHANGED <<mode, write_buf>>
    BY <1>8 DEF Retire
  <2>2. UNCHANGED <<state.boot_counter, state.next_entry_sequence, state.newest_entry_id>>
    BY <1>8 DEF Retire, TypeOK, MemoryTypeOK, StateRecord
  <2>3. \A s \in Slots : \/ segments'[s].last_entry_id = segments[s].last_entry_id
                         \/ segments'[s].last_entry_id = 0
    <3>. DEFINE emptied == [segments EXCEPT ![Arg] = NoSegment]
    <3>1. segments' = segments \/ segments' = emptied
      BY <1>8 DEF Retire
    <3>2. \A s \in Slots : emptied[s] = segments[s] \/ emptied[s] = NoSegment
      BY DEF TypeOK, MemoryTypeOK
    <3>3. NoSegment.last_entry_id = 0
      BY DEF NoSegment
    <3>. HIDE DEF emptied
    <3>. QED  BY <3>1, <3>2, <3>3
  <2>4. Pending' = Rest \/ Pending' = StepsOf(RetireSteps) \cup Rest
    BY <1>8, RetireControl
  <2>. QED  BY <1>4, <2>1, <2>2, <2>3, <2>4, ListReady
<1>. QED  BY <1>5, <1>6, <1>7, <1>8

\* Recovery takes ids from the medium only.
LEMMA RecoveryIds ==
    ASSUME TypeOK, TypeOK', ControlInv, IdInv, Recover \/ PickHighest \/ SealRecovered
    PROVE  IdInv'
<1>1. todo # <<>> /\ ControlInv'
  BY RecoverControl, SetStateControl, SealRecoveredControl
<1>2. UNCHANGED <<data, footers, checkpoint>> /\ Wrote
  BY DEF Recover, PickHighest, SealRecovered, medium, Wrote
<1>3. Head(todo)[1] \in Quiet
  BY QuietNames DEF Recover, PickHighest, SealRecovered, At
<1>4. ASSUME Rest \subseteq Pending', \A x \in Pending' : x \in Rest \/ x[1] # "ready",
             UNCHANGED <<mode, state.boot_counter, state.next_entry_sequence,
                         state.newest_entry_id>>,
             \A top \in Nat : IdsBelow(top) => IdsBelowNext(top)
      PROVE  IdInv'
  BY <1>1, <1>2, <1>3, <1>4, IdKept
<1>5. CASE Fail
  BY <1>1, <1>2, <1>5, FailIds
<1>6. ASSUME NEW s \in Slots, NEW g, Adopt(s, g), Pending' = StepsOf(ResealSteps(s)) \cup Rest
      PROVE  IdInv'
  <2>1. UNCHANGED <<mode, state>>
    BY <1>6 DEF Adopt
  <2>2. \A top \in Nat : IdsBelow(top) => IdsBelowNext(top)
    BY <1>2, <1>6, AdoptIds
  <2>3. \A x \in StepsOf(ResealSteps(s)) : x[1] # "ready"
    BY ListReady
  <2>. QED  BY <1>4, <1>6, <2>1, <2>2, <2>3
<1>7. CASE Recover
  <2>. DEFINE s == Arg
              g == HeaderGeneration(s)
  <2>1. ASSUME NEW d, SetDescriptor(s, d), Pending' = Rest, s \in Slots,
               \A top \in Nat : IdsBelow(top) => d.last_entry_id <= top
        PROVE  IdInv'
    <3>1. UNCHANGED <<mode, state>>
      BY <2>1 DEF SetDescriptor
    <3>2. \A top \in Nat : IdsBelow(top) => IdsBelowNext(top)
      BY <1>2, <2>1, SetDescriptorIds
    <3>3. Rest \subseteq Pending' /\ \A x \in Pending' : x \in Rest \/ x[1] # "ready"
      BY <2>1
    <3>. QED  BY <1>4, <3>1, <3>2, <3>3
  <2>2. s \in Slots
    BY <1>7, RecoverControl
  <2>3. \A top \in Nat : IdsBelow(top) =>
            /\ Scan(s, g, FALSE).last_entry_id <= top /\ NoSegment.last_entry_id <= top
            /\ HasFooter(s, g) => SealedSegment(Footer(s, g)).last_entry_id <= top
    BY <2>2, RecoveredIds
  <2>4. \/ Fail
        \/ /\ Pending' = Rest
           /\ \/ SetDescriptor(s, NoSegment) \/ SetDescriptor(s, Scan(s, g, FALSE))
              \/ HasFooter(s, g) /\ SetDescriptor(s, SealedSegment(Footer(s, g)))
        \/ Adopt(s, g) /\ Pending' = StepsOf(ResealSteps(s)) \cup Rest
    BY <1>7, RecoverControl
  <2>. QED  BY <1>5, <1>6, <2>1, <2>2, <2>3, <2>4
<1>8. CASE SealRecovered
  <2>1. \/ Fail
        \/ UNCHANGED <<mode, memory>> /\ Pending' = Rest
        \/ Adopt(Arg, HeaderGeneration(Arg)) /\ Pending' = StepsOf(ResealSteps(Arg)) \cup Rest
    BY <1>8, SealRecoveredControl
  <2>2. Arg \in Slots
    BY <1>8, SealRecoveredControl
  <2>3. ASSUME UNCHANGED <<mode, memory>>, Pending' = Rest
        PROVE  IdInv'
    <3>1. UNCHANGED <<mode, state, segments, write_buf>>
      BY <2>3 DEF memory
    <3>2. \A top \in Nat : IdsBelow(top) => IdsBelowNext(top)
      BY <1>2, <3>1, SameIds
    <3>3. Rest \subseteq Pending' /\ \A x \in Pending' : x \in Rest \/ x[1] # "ready"
      BY <2>3
    <3>. QED  BY <1>4, <3>1, <3>2, <3>3
  <2>. QED  BY <1>5, <1>6, <2>1, <2>2, <2>3
<1>9. CASE PickHighest
  <2>1. CASE ~Fail
    <3>1. /\ UNCHANGED <<mode, segments, write_buf>> /\ Pending' = Rest
          /\ UNCHANGED <<state.boot_counter, state.next_entry_sequence, state.newest_entry_id>>
      <4>1. Pending' = Rest
        BY <1>9, <2>1, SetStateControl
      <4>. QED  BY <1>9, <2>1, <4>1 DEF PickHighest, TypeOK, MemoryTypeOK, StateRecord
    <3>2. \A top \in Nat : IdsBelow(top) => IdsBelowNext(top)
      BY <1>2, <3>1, SameIds
    <3>3. Rest \subseteq Pending' /\ \A x \in Pending' : x \in Rest \/ x[1] # "ready"
      BY <3>1
    <3>. QED  BY <1>4, <3>1, <3>2, <3>3
  <2>. QED  BY <1>5, <2>1
<1>. QED  BY <1>7, <1>8, <1>9

\* Recovery never settles on an earlier boot, nor on an id beyond the boot it settles on.
LEMMA RecoveredBoot ==
    ASSUME TypeOK, NEW active
    PROVE  LET new == RecoveredState(active) IN
           /\ new.boot_counter \in Nat /\ new.boot_counter >= state.boot_counter
           /\ new.newest_entry_id <= LastId(new.boot_counter)
<1>1. PICK newest \in Nat : newest = NewestEntry(segments)
  BY NewestType DEF TypeOK, MemoryTypeOK
<1>2. PICK boot \in Nat : boot = newest \div (SequenceMask + 1)
  BY IdInBoot
<1>3. newest <= LastId(boot)
  BY <1>2, IdInBoot
<1>4. PICK sb \in Nat : sb = state.boot_counter
  BY BoundTypes
<1>5. PICK top : top = Max({sb, boot})
  OBVIOUS
<1>6. top \in Nat /\ sb <= top /\ boot <= top
  <2>1. top \in {sb, boot} /\ \A y \in {sb, boot} : y <= top
    <3>1. \E x \in {sb, boot} : \A y \in {sb, boot} : x >= y
      OBVIOUS
    <3>2. top \in {sb, boot} /\ \A y \in {sb, boot} : top >= y
      BY <1>5, <3>1 DEF Max
    <3>. QED  BY <3>2
  <2>. QED  BY <2>1
<1>7. newest <= LastId(top)
  <2>1. LastId(boot) <= LastId(top) /\ LastId(boot) \in Nat /\ LastId(top) \in Nat
    BY <1>6, EntryIdOrder
  <2>. QED  BY <1>3, <2>1
<1>8. /\ RecoveredState(active).boot_counter = top
      /\ RecoveredState(active).newest_entry_id = newest
  BY <1>1, <1>2, <1>4, <1>5 DEF RecoveredState
<1>. QED  BY <1>4, <1>6, <1>7, <1>8

\* While recovery is under way the boot is not counted yet.
LEMMA RecoveringIds ==
    ASSUME ControlInv', Has(Recovering)', IdsBelow(LastId(checkpoint.boot_counter))',
           (checkpoint.newest_entry_id <= LastId(checkpoint.boot_counter))',
           (state.boot_counter >= checkpoint.boot_counter)',
           (state.newest_entry_id <= LastId(state.boot_counter))'
    PROVE  IdInv'
<1>1. Has(Booting)'
  BY DEF Has, Booting
<1>3. mode' # "run"
  BY <1>1 DEF ControlInv, Has
<1>4. Has(Booting \cup {"put", "reserve"})'
  BY <1>1 DEF Has
<1>. QED  BY <1>3, <1>4 DEF IdInv, Counted

\* What is left to do before the boot is counted, when it is counted, and after.
LEMMA BootPending ==
    ASSUME TypeOK, ControlInv, todo # <<>>
    PROVE  /\ Head(todo)[1] \in Recovering => mode = "init" /\ \E x \in Rest : x[1] = "append_boot"
           /\ Head(todo)[1] \in Recovering \ {"count_boot"} => \E x \in Rest : x[1] = "count_boot"
           /\ At("count_boot") => \E x \in Rest : x[1] = "commit"
           /\ At("append_boot") => mode = "init" /\ Counted /\ ~Has({"commit"})
<1>0. Pending = {Head(todo)} \cup Rest
  BY BehindEntry
<1>1. mode \in {"init", "run"}
  BY DEF TypeOK, ControlInv
<1>2. ASSUME Head(todo)[1] \in Booting
      PROVE  mode = "init"
  BY <1>0, <1>1, <1>2 DEF ControlInv, Has
<1>3. ASSUME Head(todo)[1] \in Recovering
      PROVE  /\ mode = "init" /\ \E x \in Rest : x[1] = "append_boot"
             /\ Head(todo)[1] # "count_boot" => \E x \in Rest : x[1] = "count_boot"
  <2>1. mode = "init"
    BY <1>2, <1>3 DEF Booting
  <2>2. Has(Recovering)
    BY <1>0, <1>3 DEF Has
  <2>3. Has({"count_boot"}) /\ Has({"append_boot"}) /\ Head(todo)[1] # "append_boot"
    BY <1>3, <2>2 DEF ControlInv, Recovering
  <2>. QED  BY <1>0, <2>1, <2>3 DEF Has
<1>4. ASSUME At("count_boot")
      PROVE  \E x \in Rest : x[1] = "commit"
  <2>1. /\ Head(todo) = todo[1] /\ 1 \in DOMAIN todo
        /\ \A j \in DOMAIN todo : 1 < j => j - 1 \in DOMAIN Tail(todo) /\ Tail(todo)[j - 1] = todo[j]
    BY DEF TypeOK
  <2>2. PICK j \in DOMAIN todo : 1 < j /\ todo[j][1] = "commit"
    BY <1>4, <2>1 DEF ControlInv, Committed, At
  <2>3. Tail(todo)[j - 1] \in Rest
    BY <2>1, <2>2 DEF Rest, StepsOf
  <2>. QED  BY <2>1, <2>2, <2>3
<1>5. ASSUME At("append_boot")
      PROVE  mode = "init" /\ Counted /\ ~Has({"commit"})
  <2>1. mode = "init"
    BY <1>2, <1>5 DEF At, Booting
  <2>2. \A y \in Rest : y[1] \notin Booting /\ y[1] # "commit"
    BY <1>5, BehindBoot DEF TypeOK, ControlInv
  <2>3. "append_boot" \notin Recovering
    BY DEF Recovering
  <2>4. ~Has(Recovering)
    BY <1>0, <1>5, <2>2, <2>3 DEF Has, Booting, At
  <2>5. ~Has({"commit"})
    BY <1>0, <1>5, <2>2 DEF Has, At
  <2>. QED  BY <2>1, <2>4, <2>5 DEF Counted
<1>. QED  BY <1>3, <1>4, <1>5

\* The segment recovery reopens, and the state it settles on.
LEMMA SettleIds ==
    ASSUME TypeOK, TypeOK', ControlInv, IdInv, SelectActive \/ Settle
    PROVE  IdInv'
<1>1. todo # <<>> /\ ControlInv'
  BY SelectControl, MovesControl DEF Moves
<1>2. UNCHANGED <<data, footers, checkpoint>> /\ Wrote
  BY DEF SelectActive, Settle, medium, Wrote
<1>3. Head(todo)[1] \in {"select", "settle"} /\ mode # "off"
  BY <1>1 DEF SelectActive, Settle, At, ControlInv
<1>4. \E x \in Rest : x[1] = "count_boot"
  BY <1>1, <1>3, BootPending DEF Recovering
<1>5. CASE Fail
  BY <1>1, <1>2, <1>5, FailIds
<1>6. ASSUME NEW active, state' = RecoveredState(active), UNCHANGED <<write_buf, segments>>,
             Rest \subseteq Pending'
      PROVE  IdInv'
  <2>1. Has(Recovering)'
    BY <1>4, <1>6 DEF Has, Recovering
  <2>2. IdsBelow(LastId(checkpoint.boot_counter))'
    BY <1>2, <1>6 DEF IdInv, IdsBelow
  <2>3. /\ state'.boot_counter \in Nat /\ state'.boot_counter >= state.boot_counter
        /\ state'.newest_entry_id <= LastId(state'.boot_counter)
    BY <1>6, RecoveredBoot
  <2>4. /\ state.boot_counter >= checkpoint.boot_counter
        /\ state.boot_counter \in Nat /\ checkpoint.boot_counter \in Nat
    BY <1>3, BoundTypes DEF IdInv
  <2>5. (state.boot_counter >= checkpoint.boot_counter)'
    BY <1>2, <2>3, <2>4
  <2>6. (checkpoint.newest_entry_id <= LastId(checkpoint.boot_counter))'
    BY <1>2 DEF IdInv
  <2>. QED  BY <1>1, <2>1, <2>2, <2>3, <2>5, <2>6, RecoveringIds
<1>7. CASE SelectActive
  <2>. DEFINE s == HighestSlot(segments)
              g == HeaderGeneration(s)
              active == [slot |-> s, generation |-> g]
  <2>1. /\ s \in Slots
        /\ \/ Fail
           \/ Adopt(s, g) /\ Pending' = StepsOf(<<<<"open_writer", s>>>>) \cup Rest
           \/ /\ state' = RecoveredState(active) /\ UNCHANGED <<write_buf, segments>>
              /\ Rest \subseteq Pending'
    BY <1>7, SelectControl
  <2>2. CASE Adopt(s, g) /\ Pending' = StepsOf(<<<<"open_writer", s>>>>) \cup Rest
    <3>1. UNCHANGED <<mode, state>>
      BY <2>2 DEF Adopt
    <3>2. \A top \in Nat : IdsBelow(top) => IdsBelowNext(top)
      BY <1>2, <2>1, <2>2, AdoptIds
    <3>3. Rest \subseteq Pending' /\ \A x \in Pending' : x \in Rest \/ x[1] # "ready"
      BY <2>1, <2>2, ListReady
    <3>4. Head(todo)[1] \in Quiet
      BY <1>3, QuietNames
    <3>. QED  BY <1>1, <1>2, <3>1, <3>2, <3>3, <3>4, IdKept
  <2>. HIDE DEF active
  <2>. QED  BY <1>5, <1>6, <2>1, <2>2
<1>8. CASE Settle
  <2>1. state' = RecoveredState(active_segment) /\ UNCHANGED <<write_buf, segments>>
    BY <1>8 DEF Settle, SetState
  <2>2. Rest \subseteq Pending'
    BY <1>8, MovesControl DEF Moves
  <2>. QED  BY <1>6, <2>1, <2>2
<1>. QED  BY <1>7, <1>8

\* Counting the boot leaves every known id behind, and the commit still to come.
LEMMA CountBootIds ==
    ASSUME TypeOK, TypeOK', ControlInv, IdInv, CountBoot
    PROVE  IdInv'
<1>1. todo # <<>> /\ ControlInv' /\ (Fail \/ (UNCHANGED mode /\ Pending' = Rest))
  BY SetStateControl
<1>2. UNCHANGED <<data, footers, checkpoint>> /\ Wrote
  BY DEF CountBoot, medium, Wrote
<1>3. CASE Fail
  BY <1>1, <1>2, <1>3, FailIds
<1>4. CASE ~Fail
  <2>1. UNCHANGED mode /\ Pending' = Rest /\ UNCHANGED <<write_buf, segments>>
        /\ state' = [state EXCEPT !.boot_counter = @ + 1, !.next_entry_sequence = 0]
    BY <1>1, <1>4 DEF CountBoot, SetState
  <2>2. PICK b \in Nat : b = state.boot_counter
    BY BoundTypes
  <2>3. /\ state'.boot_counter = b + 1 /\ state'.next_entry_sequence = 0
        /\ state'.newest_entry_id = state.newest_entry_id
    BY <2>1, <2>2 DEF TypeOK, MemoryTypeOK, StateRecord
  <2>4. PICK cb \in Nat : cb = checkpoint.boot_counter
    BY BoundTypes
  <2>5. mode = "init" /\ At("count_boot")
    BY <1>1, BootPending DEF CountBoot, At, Recovering
  <2>6. cb <= b /\ state.newest_entry_id <= LastId(b) /\ state.newest_entry_id \in Nat
    BY <2>2, <2>4, <2>5, BoundTypes DEF IdInv
  <2>7. PICK first \in Nat : first = EntryId(b + 1, 0)
    BY <2>2, EntryIdOrder
  <2>8. /\ LastId(cb) \in Nat /\ LastId(b) \in Nat /\ LastId(b + 1) \in Nat
        /\ LastId(cb) <= LastId(b) /\ LastId(b) <= first /\ first <= LastId(b + 1)
    <3>1. /\ LastId(cb) \in Nat /\ LastId(b) \in Nat /\ LastId(b + 1) \in Nat
      <4>1. b + 1 \in Nat
        BY <2>2
      <4>2. \A n \in Nat : LastId(n) \in Nat
        BY EntryIdOrder
      <4>. QED  BY <2>2, <2>4, <4>1, <4>2
    <3>2. LastId(cb) <= LastId(b)
      BY <2>2, <2>4, <2>6, EntryIdOrder
    <3>3. LastId(b) < EntryId(b + 1, 0)
      BY <2>2, EntryIdOrder
    <3>4. EntryId(b + 1, 0) <= LastId(b + 1)
      <4>1. b + 1 \in Nat /\ 0 \in Nat /\ 0 <= SequenceMask
        BY <2>2, MaskAssumption
      <4>. QED  BY <4>1, EntryIdOrder
    <3>. QED  BY <2>7, <3>1, <3>2, <3>3, <3>4
  <2>9. IdsBelow(LastId(cb)) /\ IdsBelow(first)
    <3>1. IdsBelow(LastId(cb))
      BY <2>4 DEF IdInv
    <3>2. LastId(cb) <= first
      BY <2>7, <2>8
    <3>. QED  BY <2>7, <2>8, <3>1, <3>2, BelowHigher
  <2>10. IdsBelow(LastId(cb))' /\ IdsBelow(first)'
    BY <1>2, <2>1, <2>9 DEF IdsBelow
  <2>11. NewestHandedOut' = first /\ checkpoint'.boot_counter = cb
    BY <1>2, <2>3, <2>4, <2>7 DEF NewestHandedOut
  <2>12. IdsBelow(LastId(checkpoint.boot_counter))' /\ IdsBelow(NewestHandedOut)'
    BY <2>10, <2>11
  <2>13. Has({"append_boot"})' /\ Has({"commit"})' /\ Has(Booting \cup {"put", "reserve"})'
    <3>1. (\E x \in Rest : x[1] = "append_boot") /\ \E x \in Rest : x[1] = "commit"
      BY <1>1, <2>5, BootPending DEF At, Recovering
    <3>. QED  BY <2>1, <3>1 DEF Has, Booting
  <2>14. /\ (checkpoint.newest_entry_id <= LastId(checkpoint.boot_counter))'
         /\ (state.boot_counter >= checkpoint.boot_counter)'
         /\ (state.newest_entry_id <= LastId(state.boot_counter))'
         /\ (state.newest_entry_id <= NewestHandedOut)'
         /\ (state.next_entry_sequence <= SequenceMask)'
    <3>1. (checkpoint.newest_entry_id <= LastId(checkpoint.boot_counter))'
      BY <1>2 DEF IdInv
    <3>2. state.newest_entry_id <= LastId(b + 1) /\ state.newest_entry_id <= first
      BY <2>6, <2>7, <2>8
    <3>3. 0 <= SequenceMask /\ b + 1 >= cb
      BY <2>2, <2>4, <2>6, MaskAssumption
    <3>. QED  BY <2>3, <2>11, <3>1, <3>2, <3>3
  <2>15. mode' = "init"
    BY <2>1, <2>5
  <2>. QED  BY <2>12, <2>13, <2>14, <2>15 DEF IdInv
<1>. QED  BY <1>3, <1>4

\* The boot event is appended once the boot is committed.
LEMMA AppendBootIds ==
    ASSUME TypeOK, ControlInv, IdInv, AppendBoot
    PROVE  IdInv'
<1>1. /\ todo # <<>> /\ At("append_boot") /\ UNCHANGED <<medium, mode, memory>>
      /\ Pending' = StepsOf(AppendSteps(BootEntrySize, TRUE)) \cup Rest
  BY AppendBootControl DEF AppendBoot
<1>2. mode = "init" /\ Counted /\ ~Has({"commit"})
  BY <1>1, BootPending
<1>3. UNCHANGED <<data, footers, checkpoint, mode, state, write_buf, segments>>
  BY <1>1 DEF medium, memory
<1>4. NewestHandedOut' = NewestHandedOut
  BY <1>3 DEF NewestHandedOut
<1>5. IdsBelow(LastId(checkpoint.boot_counter))' /\ IdsBelow(NewestHandedOut)'
  BY <1>2, <1>3, <1>4 DEF IdInv, IdsBelow
<1>6. Has(Booting \cup {"put", "reserve"})'
  <2>1. \E x \in StepsOf(AppendSteps(BootEntrySize, TRUE)) : x[1] \in {"put", "reserve"}
    BY AppendList, BootEntryAssumption
  <2>. QED  BY <1>1, <2>1 DEF Has
<1>. QED  BY <1>2, <1>3, <1>4, <1>5, <1>6 DEF IdInv

\* init() ends with an id handed out.
LEMMA ReadyIds ==
    ASSUME TypeOK, ControlInv, IdInv, Ready
    PROVE  IdInv'
<1>1. /\ todo # <<>> /\ At("ready") /\ UNCHANGED <<medium, memory>> /\ mode' = "run"
      /\ Pending' = {} /\ Rest = {}
  BY ReadyControl DEF Ready
<1>2. \A x \in Pending : x[1] = "ready"
  BY <1>1, BehindEntry DEF At
<1>3. Has({"ready"}) /\ mode # "off"
  BY <1>1, BehindEntry DEF At, Has, ControlInv
<1>4. ~Has(Booting \cup {"put", "reserve"}) /\ ~Has(Recovering)
  BY <1>2 DEF Has, Booting, Recovering
<1>5. Handed /\ Counted
  BY <1>3, <1>4 DEF IdInv, Counted
<1>6. state.boot_counter = checkpoint.boot_counter
  BY <1>4, <1>5 DEF IdInv, Has, Booting
<1>7. UNCHANGED <<data, footers, checkpoint, state, write_buf, segments>>
  BY <1>1 DEF medium, memory
<1>8. NewestHandedOut' = NewestHandedOut /\ Handed' = Handed
  BY <1>7 DEF NewestHandedOut, Handed
<1>9. IdsBelow(LastId(checkpoint.boot_counter))' /\ IdsBelow(NewestHandedOut)'
  BY <1>5, <1>7, <1>8 DEF IdInv, IdsBelow
<1>. QED  BY <1>3, <1>5, <1>6, <1>7, <1>8, <1>9 DEF IdInv

\* The ends of operations, the calls of the application, and the environment.
LEMMA OperationIds ==
    ASSUME TypeOK, TypeOK', ControlInv, IdInv,
           \/ Close \/ NoWriter \/ NoEntry \/ WriteError \/ OpenWriterError
           \/ StartInit \/ AppendEntry \/ FlushWrite \/ Deinit \/ RotIndex \/ RotData \/ Crash
    PROVE  IdInv'
<1>1. CASE Close
  <2>1. UNCHANGED <<data, footers, checkpoint>> /\ Reset
    BY <1>1 DEF Close, medium
  <2>. QED  BY <2>1, ResetIds DEF Wrote
<1>2. CASE Crash
  <2>1. Reset /\ (UNCHANGED <<data, footers, checkpoint>> \/ \E o \in Outcomes : Write(o))
    BY <1>2 DEF Crash, medium
  <2>2. (\E o \in Outcomes : Write(o)) => todo # <<>>
    BY WriteType
  <2>. QED  BY <2>1, <2>2, ResetIds DEF Wrote
<1>3. CASE WriteError
  <2>1. Fail /\ \E o \in Outcomes : Write(o)
    BY <1>3 DEF WriteError
  <2>2. todo # <<>>
    BY <2>1, WriteType
  <2>. QED  BY <2>1, <2>2, FailIds DEF Wrote
<1>4. CASE NoWriter \/ NoEntry
  <2>1. Fail /\ UNCHANGED <<data, footers, checkpoint>> /\ todo # <<>>
    BY <1>4 DEF NoWriter, NoEntry, WriterStep, At, medium
  <2>. QED  BY <2>1, FailIds DEF Wrote
<1>5. CASE OpenWriterError
  <2>1. UNCHANGED <<data, footers, checkpoint>> /\ todo # <<>>
    BY <1>5 DEF OpenWriterError, At, medium
  <2>2. CASE Reset
    BY <2>1, <2>2, ResetIds DEF Wrote
  <2>3. CASE mode # "init" /\ todo' = <<>> /\ UNCHANGED <<mode, state, write_buf, segments>>
    BY <2>1, <2>3, AbortIds DEF Wrote
  <2>. QED  BY <1>5, <2>2, <2>3 DEF OpenWriterError
<1>6. CASE StartInit
  <2>1. ControlInv' /\ Has(Recovering)'
    BY <1>6, StartInitControl
  <2>2. UNCHANGED <<data, footers, checkpoint, write_buf, segments>> /\ state' = checkpoint
    BY <1>6 DEF StartInit, medium
  <2>3. IdsBelow(LastId(checkpoint.boot_counter))'
    BY <2>2 DEF IdInv, IdsBelow
  <2>4. checkpoint.boot_counter \in Nat
    BY BoundTypes
  <2>5. /\ (checkpoint.newest_entry_id <= LastId(checkpoint.boot_counter))'
        /\ (state.boot_counter >= checkpoint.boot_counter)'
        /\ (state.newest_entry_id <= LastId(state.boot_counter))'
    BY <2>2, <2>4 DEF IdInv
  <2>. QED  BY <2>1, <2>3, <2>5, RecoveringIds
<1>7. CASE AppendEntry \/ FlushWrite \/ Deinit
  <2>1. /\ UNCHANGED <<data, footers, checkpoint, state, write_buf, segments, mode>>
        /\ mode = "run" /\ todo = <<>>
    BY <1>7 DEF AppendEntry, FlushWrite, Deinit, Idle, medium, memory
  <2>2. ~Has({"ready"})'
    BY <1>7, OperationControl DEF Has
  <2>3. Counted /\ state.boot_counter = checkpoint.boot_counter
    <3>1. Pending = {}
      BY <2>1 DEF Pending, StepsOf
    <3>. QED  BY <2>1, <3>1 DEF IdInv, Counted, Has
  <2>4. NewestHandedOut' = NewestHandedOut /\ Handed' = Handed
    BY <2>1 DEF NewestHandedOut, Handed
  <2>5. IdsBelow(LastId(checkpoint.boot_counter))' /\ IdsBelow(NewestHandedOut)'
    BY <2>1, <2>3, <2>4 DEF IdInv, IdsBelow
  <2>. QED  BY <2>1, <2>2, <2>3, <2>4, <2>5 DEF IdInv
<1>8. CASE RotIndex \/ RotData
  <2>1. /\ UNCHANGED <<footers, checkpoint, state, write_buf, segments, mode, todo>>
        /\ mode = "off" /\ todo = <<>>
    BY <1>8 DEF RotIndex, RotData, memory, control, ControlInv
  <2>2. \A s \in Slots, o \in Offsets : data'[s][o] # Garbage => data'[s][o] = data[s][o]
    <3>1. data \in [Slots -> [Offsets -> Cell \cup {Garbage}]]
      BY DEF TypeOK, MediumTypeOK
    <3>2. data' = data \/ \E t \in Slots, p \in Offsets : data' = [data EXCEPT ![t][p] = Garbage]
      BY <1>8 DEF RotIndex, RotData
    <3>. QED  BY ONLY <3>1, <3>2
  <2>3. PICK top : top = LastId(checkpoint.boot_counter) /\ IdsBelow(top)
    BY DEF IdInv
  <2>4. IdsBelow(LastId(checkpoint.boot_counter))'
    <3>1. \A s \in Slots, o \in Offsets : data'[s][o] # Garbage => data'[s][o].id <= top
      BY <2>2, <2>3 DEF IdsBelow, MediumIdsBelow
    <3>2. MediumIdsBelow(data', footers', top)
      BY <2>1, <2>3, <3>1 DEF IdsBelow, MediumIdsBelow
    <3>. QED  BY <2>1, <2>3, <3>2 DEF IdsBelow
  <2>5. Pending' = {}
    BY <2>1, EmptyControl
  <2>. QED  BY <2>1, <2>4, <2>5 DEF IdInv, Counted, Has
<1>. QED  BY <1>1, <1>2, <1>3, <1>4, <1>5, <1>6, <1>7, <1>8

\* The provisioned store has no entry.
LEMMA InitIds == Init => IdInv
<1>. SUFFICES ASSUME Init PROVE IdInv
  OBVIOUS
<1>1. Pending = {} /\ mode = "off"
  BY DEF Init, Pending, StepsOf
<1>2. LastId(0) \in Nat
  BY EntryIdOrder
<1>3. checkpoint.boot_counter = 0 /\ checkpoint.newest_entry_id = 0
  BY DEF Init, Provisioned, ZeroState
<1>4. IdsBelow(LastId(0))
  <2>1. MediumIdsBelow(data, footers, LastId(0))
    BY DEF Init, MediumIdsBelow
  <2>2. MemoryIdsBelow(write_buf, segments, LastId(0))
    BY <1>2 DEF Init, MemoryIdsBelow, NoSegment
  <2>. QED  BY <2>1, <2>2 DEF IdsBelow
<1>. QED  BY <1>1, <1>2, <1>3, <1>4 DEF IdInv, Counted, Has

\* Every action keeps the ids apart.
LEMMA NextIds ==
    TypeOK /\ TypeOK' /\ ControlInv /\ ControlInv' /\ IdInv /\ [Next]_vars => IdInv'
<1>. SUFFICES ASSUME TypeOK, TypeOK', ControlInv, IdInv, [Next]_vars PROVE IdInv'
  OBVIOUS
<1>1. CASE Moves
  <2>1. CASE Settle
    BY <2>1, SettleIds
  <2>2. CASE PutEntry \/ ReserveEntry
    BY <2>2, EntryIds
  <2>3. CASE ~Settle /\ ~PutEntry /\ ~ReserveEntry /\ ~At("commit")
    BY <1>1, <2>3, MovesIds
  <2>4. CASE ~Settle /\ ~PutEntry /\ ~ReserveEntry /\ At("commit")
    <3>1. WriteDone
      BY <1>1, <2>4 DEF Moves, OpenWriter, CloseWriter, Flushed, AccountEntry, Acknowledge,
                        Sealed, Activate, At
    <3>. QED  BY <2>4, <3>1, CommitIds
  <2>. QED  BY <2>1, <2>2, <2>3, <2>4
<1>2. CASE Flush \/ PrepareSpace \/ OpenNext \/ Retire
  BY <1>2, CallsIds
<1>3. CASE Recover \/ PickHighest \/ SealRecovered
  BY <1>3, RecoveryIds
<1>4. CASE SelectActive \/ CountBoot \/ AppendBoot \/ Ready
  BY <1>4, SettleIds, CountBootIds, AppendBootIds, ReadyIds
<1>5. CASE \/ Close \/ NoWriter \/ NoEntry \/ WriteError \/ OpenWriterError
           \/ StartInit \/ AppendEntry \/ FlushWrite \/ Deinit \/ RotIndex \/ RotData \/ Crash
  BY <1>5, OperationIds
<1>6. CASE UNCHANGED vars
  <2>1. UNCHANGED <<data, footers, checkpoint, state, write_buf, segments, mode, todo>>
    BY <1>6 DEF vars, medium, memory, control
  <2>. QED  BY <2>1 DEF IdInv, IdsBelow, MediumIdsBelow, MemoryIdsBelow, Counted, Has, Pending,
                        NewestHandedOut, Handed, LastId, EntryId
<1>. QED  BY <1>1, <1>2, <1>3, <1>4, <1>5, <1>6 DEF Next, Step, Moves

\* While the store runs no byte on the medium, torn writes and abandoned generations
\* included, has an id the store has yet to hand out, across any number of crashes
\* and failed writes (make_next_entry_id_unsafe, entry.cpp:32).
THEOREM IdsCorrect == Spec => []IdsNeverReissued
<1>1. TypeOK /\ ControlInv /\ IdInv => IdsNeverReissued
  <2>. SUFFICES ASSUME TypeOK, ControlInv, IdInv, Idle PROVE IdsBelow(state.newest_entry_id)
    BY DEF IdsNeverReissued, IdsBelow, MediumIdsBelow
  <2>1. Pending = {} /\ mode = "run"
    BY DEF Idle, Pending, StepsOf
  <2>2. Counted /\ Handed
    BY <2>1 DEF IdInv, Counted, Has
  <2>. QED  BY <2>2 DEF IdInv, Handed
<1>2. Init => TypeOK /\ ControlInv /\ SpaceInv /\ IdInv
  BY InitType, InitSpace, InitIds
<1>3. TypeOK /\ ControlInv /\ SpaceInv /\ IdInv /\ [Next]_vars
          => (TypeOK /\ ControlInv /\ SpaceInv /\ IdInv)'
  BY NextType, NextSpace, NextIds
<1>. QED  BY <1>1, <1>2, <1>3, PTL DEF Spec

-----------------------------------------------------------------------------
(* The ring: where a generation lives.                                     *)

\* Slots are the remainders of generations.
LEMMA HomeType == \A g \in Nat \ {0} : Home(g) \in Slots
<1>. SUFFICES ASSUME NEW g \in Nat \ {0} PROVE Home(g) \in Slots
  OBVIOUS
<1>1. g - 1 \in Nat /\ SegmentCount \in Nat \ {0}
  BY SegmentCountAssumption
<1>2. (g - 1) % SegmentCount \in 0 .. SegmentCount - 1
  BY <1>1
<1>. QED  BY <1>2 DEF Home, Slots

\* A remainder is known by its range.
LEMMA RemainderUnique ==
    ASSUME NEW q \in Nat, NEW r \in Slots
    PROVE  (q * SegmentCount + r) % SegmentCount = r
<1>. DEFINE a == q * SegmentCount + r
            p == a \div SegmentCount
            t == a % SegmentCount
<1>1. PICK m \in Nat \ {0} : m = SegmentCount
  BY SegmentCountAssumption
<1>2. q * m \in Nat /\ r \in Nat /\ r < m
  BY <1>1 DEF Slots
<1>3. a = q * m + r /\ a \in Nat
  BY <1>1, <1>2
<1>. HIDE DEF a
<1>4. p \in Nat /\ t \in 0 .. m - 1 /\ a = m * p + t
  BY <1>1, <1>3
<1>. HIDE DEF p, t
<1>5. p <= q
  <2>. SUFFICES ASSUME p > q PROVE FALSE
    BY <1>4
  <2>1. PICK k \in Nat : p = q + 1 + k
    <3>1. p - q - 1 \in Nat /\ p = q + 1 + (p - q - 1)
      BY <1>4
    <3>. QED  BY <3>1
  <2>2. m * p = q * m + m + k * m /\ k * m \in Nat
    BY <1>1, <2>1
  <2>. QED  BY <1>1, <1>2, <1>3, <1>4, <2>2
<1>6. q <= p
  <2>. SUFFICES ASSUME q > p PROVE FALSE
    BY <1>4
  <2>1. PICK k \in Nat : q = p + 1 + k
    <3>1. q - p - 1 \in Nat /\ q = p + 1 + (q - p - 1)
      BY <1>4
    <3>. QED  BY <3>1
  <2>2. q * m = m * p + m + k * m /\ k * m \in Nat /\ m * p \in Nat
    BY <1>1, <1>4, <2>1
  <2>. QED  BY <1>1, <1>2, <1>3, <1>4, <2>2
<1>7. p = q
  BY <1>4, <1>5, <1>6
<1>8. t = r
  BY <1>1, <1>2, <1>3, <1>4, <1>7
<1>. QED  BY <1>8 DEF t, a

\* A generation is a number of rounds of the ring and a place in the next.
LEMMA HomeSplit ==
    ASSUME NEW g \in Nat \ {0}
    PROVE  \E q \in Nat : q * SegmentCount \in Nat /\ g = q * SegmentCount + Home(g) + 1
<1>. DEFINE a == g - 1
<1>1. PICK m \in Nat \ {0} : m = SegmentCount
  BY SegmentCountAssumption
<1>2. a \in Nat /\ g = a + 1
  OBVIOUS
<1>. HIDE DEF a
<1>3. PICK q \in Nat : q = a \div m
  <2>1. a \div m \in Nat
    BY <1>2
  <2>. QED  BY <2>1
<1>4. PICK r \in 0 .. m - 1 : r = a % m
  <2>1. a % m \in 0 .. m - 1
    BY <1>2
  <2>. QED  BY <2>1
<1>5. a = m * q + r
  BY <1>2, <1>3, <1>4
<1>6. q * m \in Nat /\ q * m = m * q
  OBVIOUS
<1>7. Home(g) = r
  BY <1>1, <1>4 DEF Home, a
<1>8. q * SegmentCount \in Nat /\ g = q * SegmentCount + Home(g) + 1
  BY <1>1, <1>2, <1>5, <1>6, <1>7
<1>. QED  BY <1>8

\* The next generation has the next slot, which is another one.
LEMMA HomeNext ==
    ASSUME NEW g \in Nat \ {0}
    PROVE  Home(g + 1) = (Home(g) + 1) % SegmentCount /\ Home(g + 1) # Home(g)
<1>. DEFINE h == Home(g)
<1>0. h \in Slots /\ SegmentCount \in Nat /\ SegmentCount >= 2
  BY HomeType, SegmentCountAssumption
<1>1. PICK q \in Nat : q * SegmentCount \in Nat /\ g = q * SegmentCount + h + 1
  BY HomeSplit
<1>2. Home(g + 1) = (q * SegmentCount + (h + 1)) % SegmentCount
  BY <1>0, <1>1 DEF Home, Slots
<1>. HIDE DEF h
<1>3. CASE h + 1 < SegmentCount
  <2>1. h + 1 \in Slots
    BY <1>0, <1>3 DEF Slots
  <2>2. Home(g + 1) = h + 1
    BY <1>2, <2>1, RemainderUnique
  <2>3. (0 * SegmentCount + (h + 1)) % SegmentCount = h + 1
    BY <2>1, RemainderUnique
  <2>4. 0 * SegmentCount + (h + 1) = h + 1
    BY <1>0 DEF Slots
  <2>. QED  BY <1>0, <2>2, <2>3, <2>4 DEF h, Slots
<1>4. CASE h + 1 = SegmentCount
  <2>1. 0 \in Slots
    BY <1>0 DEF Slots
  <2>2. q * SegmentCount + (h + 1) = (q + 1) * SegmentCount + 0
        /\ 1 * SegmentCount + 0 = h + 1 /\ q + 1 \in Nat
    BY <1>0, <1>1, <1>4
  <2>3. Home(g + 1) = 0
    BY <1>2, <2>1, <2>2, RemainderUnique
  <2>4. (h + 1) % SegmentCount = 0
    BY <2>1, <2>2, RemainderUnique
  <2>. QED  BY <1>0, <1>4, <2>3, <2>4 DEF h
<1>. QED  BY <1>0, <1>3, <1>4 DEF Slots

\* Generations that share a slot are rounds apart.
LEMMA HomeApart ==
    ASSUME NEW g \in Nat \ {0}, NEW h \in Nat \ {0}, Home(g) = Home(h), g < h
    PROVE  g + SegmentCount <= h
<1>1. PICK m \in Nat \ {0} : m = SegmentCount
  BY SegmentCountAssumption
<1>2. PICK p \in Nat : p * SegmentCount \in Nat /\ g = p * SegmentCount + Home(g) + 1
  BY HomeSplit
<1>3. PICK q \in Nat : q * SegmentCount \in Nat /\ h = q * SegmentCount + Home(h) + 1
  BY HomeSplit
<1>4. PICK r \in Nat : r = Home(g)
  BY HomeType DEF Slots
<1>5. p * m < q * m
  BY <1>1, <1>2, <1>3, <1>4
<1>6. p < q
  <2>. SUFFICES ASSUME q <= p PROVE FALSE
    OBVIOUS
  <2>1. PICK k \in Nat : p = q + k
    <3>1. p - q \in Nat /\ p = q + (p - q)
      OBVIOUS
    <3>. QED  BY <3>1
  <2>2. p * m = q * m + k * m /\ k * m \in Nat /\ q * m \in Nat
    BY <1>1, <2>1
  <2>. QED  BY <1>5, <2>2
<1>7. PICK k \in Nat : q = p + 1 + k
  <2>1. q - p - 1 \in Nat /\ q = p + 1 + (q - p - 1)
    BY <1>6
  <2>. QED  BY <2>1
<1>8. q * m = p * m + m + k * m /\ k * m \in Nat /\ p * m \in Nat
  BY <1>1, <1>7
<1>. QED  BY <1>1, <1>2, <1>3, <1>4, <1>8

-----------------------------------------------------------------------------
(* The steps of a rotation.                                                *)

Rotating == {"open_next", "retire", "open_writer", "header", "activate"}

\* What cannot be left to do behind a step.
LEMMA BehindStep ==
    ASSUME TypeOK, ControlInv, todo # <<>>, NEW y \in Rest
    PROVE  /\ At("reserve") => y[1] \notin Rotating \cup {"prepare", "reserve"}
           /\ At("write_entry") => y[1] \notin Rotating \cup {"prepare", "reserve", "write_entry"}
           /\ At("put") => y[1] \notin Rotating \cup {"prepare", "reserve", "write_entry"}
           /\ At("header") => y[1] \notin {"open_next", "retire", "open_writer"}
           /\ At("open_next") \/ At("activate") => y[1] \notin Rotating
           /\ At("retire") => y[1] \notin {"open_next", "retire"}
           /\ At("recover") \/ At("seal_recovered") \/ At("settle") => y[1] \notin Rotating
           /\ At("highest") \/ At("seal_recovered") => y[1] \notin Rotating \cup {"recover", "highest"}
           /\ At("select") => y[1] \notin Rotating \cup {"recover", "highest", "seal_recovered", "select"}
           /\ At("settle") => y[1] \notin {"recover", "highest", "seal_recovered", "select"}
           /\ At("count_boot") \/ At("append_boot") =>
                 y[1] \notin Rotating \cup {"recover", "highest", "seal_recovered", "select",
                                            "reserve", "write_entry", "prepare"}
<1>1. todo \in Seq(Steps) /\ Ordered(todo)
  BY DEF TypeOK, ControlInv
<1>2. Follow[Head(todo)[1]] <= Place[y[1]]
  BY <1>1, RestPlace
<1>3. Place[y[1]] \in Nat
  BY <1>1, PlaceBounds, PendingSplit, PlaceType
<1>4. /\ \A n \in {"prepare", "reserve"} \cup Rotating : Place[n] < 26
      /\ \A n \in {"prepare", "reserve", "write_entry"} \cup Rotating : Place[n] < 28
      /\ \A n \in {"open_next", "retire", "open_writer"} : Place[n] < 17
      /\ \A n \in {"open_next", "retire"} : Place[n] < 16
      /\ \A n \in Rotating : Place[n] < 20
      /\ \A n \in Rotating \cup {"recover", "highest"} : Place[n] < 36
      /\ \A n \in Rotating \cup {"recover", "highest", "seal_recovered", "select"} : Place[n] < 40
      /\ \A n \in Rotating \cup {"recover", "highest", "seal_recovered", "select",
                                 "reserve", "write_entry", "prepare"} : Place[n] < 40
  BY ONLY PlaceValues DEF Rotating
<1>5. /\ At("reserve") => 26 <= Place[y[1]]
      /\ At("write_entry") => 28 <= Place[y[1]]
      /\ At("put") => 28 <= Place[y[1]]
      /\ At("header") => 17 <= Place[y[1]]
      /\ At("open_next") \/ At("activate") => 20 <= Place[y[1]]
      /\ At("retire") => 16 <= Place[y[1]]
      /\ At("recover") \/ At("seal_recovered") \/ At("settle") => 20 <= Place[y[1]]
      /\ At("highest") \/ At("seal_recovered") => 36 <= Place[y[1]]
      /\ At("select") \/ At("settle") \/ At("count_boot") \/ At("append_boot") => 40 <= Place[y[1]]
  <2>1. PICK p \in Nat : p = Place[y[1]]
    BY <1>3
  <2>2. PICK n : n = Head(todo)[1] /\ Follow[n] <= p
    BY <1>2, <2>1
  <2>3. /\ n = "reserve" => 26 <= p
        /\ n \in {"write_entry", "put"} => 28 <= p
        /\ n = "header" => 17 <= p
        /\ n \in {"open_next", "activate"} => 20 <= p
    BY ONLY <2>1, <2>2, FollowValues
  <2>4. /\ n = "retire" => 16 <= p
        /\ n \in {"recover", "seal_recovered", "settle"} => 20 <= p
        /\ n \in {"highest", "seal_recovered"} => 36 <= p
        /\ n \in {"select", "settle", "count_boot", "append_boot"} => 40 <= p
    BY ONLY <2>1, <2>2, FollowValues
  <2>5. \A m : At(m) => n = m
    BY <2>2 DEF At
  <2>6. /\ At("reserve") => 26 <= p
        /\ At("write_entry") => 28 <= p
        /\ At("put") => 28 <= p
        /\ At("header") => 17 <= p
        /\ At("open_next") \/ At("activate") => 20 <= p
    BY ONLY <2>3, <2>5
  <2>7. /\ At("retire") => 16 <= p
        /\ At("recover") \/ At("seal_recovered") \/ At("settle") => 20 <= p
        /\ At("highest") \/ At("seal_recovered") => 36 <= p
        /\ At("select") \/ At("settle") \/ At("count_boot") \/ At("append_boot") => 40 <= p
    BY ONLY <2>4, <2>5
  <2>. QED  BY ONLY <2>1, <2>6, <2>7
<1>6. ASSUME NEW S, NEW k \in Nat, \A n \in S : Place[n] < k, k <= Place[y[1]]
      PROVE  y[1] \notin S
  BY <1>3, <1>6
<1>7. At("reserve") => y[1] \notin {"prepare", "reserve"} \cup Rotating
  BY <1>4, <1>5, <1>6
<1>8. At("write_entry") \/ At("put") => y[1] \notin {"prepare", "reserve", "write_entry"} \cup Rotating
  <2>1. At("write_entry") \/ At("put") => 28 <= Place[y[1]]
    BY <1>5
  <2>2. \A n \in {"prepare", "reserve", "write_entry"} \cup Rotating : Place[n] < 28
    BY <1>4
  <2>. QED  BY <1>6, <2>1, <2>2
<1>9. At("header") => y[1] \notin {"open_next", "retire", "open_writer"}
  BY <1>4, <1>5, <1>6
<1>10. At("retire") => y[1] \notin {"open_next", "retire"}
  BY <1>4, <1>5, <1>6
<1>11. At("open_next") \/ At("activate") \/ At("recover") \/ At("seal_recovered") \/ At("settle")
           => y[1] \notin Rotating
  BY <1>4, <1>5, <1>6
<1>12. At("highest") \/ At("seal_recovered") => y[1] \notin Rotating \cup {"recover", "highest"}
  BY <1>4, <1>5, <1>6
<1>13. At("select") \/ At("settle")
           => y[1] \notin Rotating \cup {"recover", "highest", "seal_recovered", "select"}
  BY <1>4, <1>5, <1>6
<1>14. At("count_boot") \/ At("append_boot") =>
           y[1] \notin Rotating \cup {"recover", "highest", "seal_recovered", "select",
                                      "reserve", "write_entry", "prepare"}
  BY <1>4, <1>5, <1>6
<1>. QED  BY <1>7, <1>8, <1>9, <1>10, <1>11, <1>12, <1>13, <1>14

\* A list with the cells of a direct append also reserves the id.
LEMMA AppendReserves ==
    ASSUME NEW n \in 1 .. Capacity, NEW force_flush \in BOOLEAN,
           NEW x \in StepsOf(AppendSteps(n, force_flush)), x[1] = "write_entry"
    PROVE  \E y \in StepsOf(AppendSteps(n, force_flush)) : y[1] = "reserve"
<1>. DEFINE q == AppendSteps(n, force_flush)
<1>1. CASE n > WriteBufferSize
  <2>1. q = <<Do("flush"), <<"prepare", n>>, <<"reserve", n>>, <<"write_entry", n>>,
              <<"account", n>>, Do("commit"), Do("acknowledge")>>
    BY <1>1 DEF AppendSteps
  <2>2. 3 \in DOMAIN q /\ q[3] = <<"reserve", n>>
    BY <2>1
  <2>3. q[3] \in StepsOf(q)
    BY <2>2 DEF StepsOf
  <2>. QED  BY <2>2, <2>3
<1>2. CASE ~(n > WriteBufferSize)
  <2>1. IsList(q, {"flush", "prepare", "put"})
    <3>. DEFINE first == IF Len(write_buf) + n > WriteBufferSize THEN <<Do("flush")>> ELSE <<>>
                middle == <<<<"prepare", n>>, <<"put", n>>>>
                last == IF force_flush THEN <<Do("flush")>> ELSE <<>>
    <3>1. IsList(<<Do("flush")>>, {"flush"}) /\ IsList(<<>>, {"flush"})
      BY ShortLists, DoType, NamesValue DEF Do
    <3>2. IsList(first, {"flush"}) /\ IsList(last, {"flush"})
      BY <3>1
    <3>3. IsList(middle, {"prepare", "put"})
      BY ShortLists
    <3>4. q = first \o middle \o last
      BY <1>2 DEF AppendSteps
    <3>. HIDE DEF first, middle, last, q
    <3>5. {"flush"} \in SUBSET Names /\ {"prepare", "put"} \in SUBSET Names
          /\ {"flush"} \cup {"prepare", "put"} \in SUBSET Names
      BY NamesValue
    <3>6. IsList(first \o middle, {"flush"} \cup {"prepare", "put"})
      <4>1. \A m \in {"flush"}, k \in {"prepare", "put"} : Follow[m] <= Place[k]
        BY FollowValues, PlaceValues
      <4>. QED  BY <3>2, <3>3, <3>5, <4>1, ListConcat
    <3>7. IsList((first \o middle) \o last, ({"flush"} \cup {"prepare", "put"}) \cup {"flush"})
      <4>1. \A m \in {"flush"} \cup {"prepare", "put"}, k \in {"flush"} : Follow[m] <= Place[k]
        BY FollowValues, PlaceValues
      <4>. QED  BY <3>2, <3>5, <3>6, <4>1, ListConcat
    <3>. QED  BY <3>4, <3>7 DEF IsList
  <2>. QED  BY <2>1 DEF IsList
<1>. QED  BY <1>1, <1>2

\* The list of init() has every slot to recover, and the two steps that follow.
LEMMA InitHas ==
    /\ \A s \in Slots : <<"recover", s>> \in StepsOf(InitSteps) /\ <<"seal_recovered", s>> \in StepsOf(InitSteps)
    /\ Do("highest") \in StepsOf(InitSteps) /\ Do("select") \in StepsOf(InitSteps)
<1>. DEFINE last == <<Do("select"), Do("settle"), Do("commit"), Do("commit"),
                      Do("count_boot"), Do("commit"), Do("append_boot"), Do("ready")>>
            recover == ForSlots("recover")
            seal == ForSlots("seal_recovered")
<1>1. recover \in Seq(Steps) /\ seal \in Seq(Steps)
  BY ForSlotsList DEF IsList
<1>2. <<Do("highest")>> \in Seq(Steps) /\ last \in Seq(Steps)
  BY DoType
<1>3. InitSteps = ((recover \o <<Do("highest")>>) \o seal) \o last
  BY DEF InitSteps
<1>4. \A s \in Slots : <<"recover", s>> \in StepsOf(recover) /\ <<"seal_recovered", s>> \in StepsOf(seal)
  <2>. SUFFICES ASSUME NEW s \in Slots
                PROVE  <<"recover", s>> \in StepsOf(recover) /\ <<"seal_recovered", s>> \in StepsOf(seal)
    OBVIOUS
  <2>0. s + 1 \in 1 .. SegmentCount /\ (s + 1) - 1 = s
    BY SegmentCountAssumption DEF Slots
  <2>1. s + 1 \in DOMAIN recover /\ recover[s + 1] = <<"recover", s>>
    BY <2>0 DEF ForSlots
  <2>2. s + 1 \in DOMAIN seal /\ seal[s + 1] = <<"seal_recovered", s>>
    BY <2>0 DEF ForSlots
  <2>3. recover[s + 1] \in StepsOf(recover) /\ seal[s + 1] \in StepsOf(seal)
    BY <2>1, <2>2 DEF StepsOf
  <2>. QED  BY <2>1, <2>2, <2>3
<1>5. Do("highest") \in StepsOf(<<Do("highest")>>)
  <2>1. 1 \in DOMAIN <<Do("highest")>> /\ <<Do("highest")>>[1] = Do("highest")
    OBVIOUS
  <2>. QED  BY <2>1 DEF StepsOf
<1>6. Do("select") \in StepsOf(last)
  <2>1. 1 \in DOMAIN last /\ last[1] = Do("select")
    OBVIOUS
  <2>2. last[1] \in StepsOf(last)
    BY <2>1 DEF StepsOf
  <2>. QED  BY <2>1, <2>2
<1>. HIDE DEF last, recover, seal
<1>7. recover \o <<Do("highest")>> \in Seq(Steps)
      /\ (recover \o <<Do("highest")>>) \o seal \in Seq(Steps)
  BY <1>1, <1>2, ConcatProperties
<1>8. StepsOf(InitSteps) =
          ((StepsOf(recover) \cup StepsOf(<<Do("highest")>>)) \cup StepsOf(seal)) \cup StepsOf(last)
  <2>1. StepsOf(recover \o <<Do("highest")>>) = StepsOf(recover) \cup StepsOf(<<Do("highest")>>)
    BY <1>1, <1>2, StepsOfConcat
  <2>2. StepsOf((recover \o <<Do("highest")>>) \o seal)
            = StepsOf(recover \o <<Do("highest")>>) \cup StepsOf(seal)
    BY <1>1, <1>7, StepsOfConcat
  <2>3. StepsOf(((recover \o <<Do("highest")>>) \o seal) \o last)
            = StepsOf((recover \o <<Do("highest")>>) \o seal) \cup StepsOf(last)
    BY <1>2, <1>7, StepsOfConcat
  <2>. QED  BY <1>3, <2>1, <2>2, <2>3
<1>. QED  BY <1>4, <1>5, <1>6, <1>8

\* The names of the calls.
LEMMA CallNames ==
    /\ \A x \in StepsOf(FlushSteps) : x[1] \in FlushNames
    /\ \A x \in StepsOf(SealSteps \o <<Do("open_next")>>) : x[1] \in RotateNames
    /\ \A x \in StepsOf(RetireSteps) : x[1] = "commit"
    /\ \A s \in Slots : /\ \A x \in StepsOf(ResealSteps(s)) : x[1] \in ResealNames
                        /\ StepsOf(<<<<"open_writer", s>>>>) = {<<"open_writer", s>>}
    /\ StepsOf(<<Do("open_next")>>) = {Do("open_next")}
<1>1. \A x \in StepsOf(FlushSteps) : x[1] \in FlushNames
  BY ShortLists DEF IsList, FlushNames
<1>2. \A x \in StepsOf(SealSteps \o <<Do("open_next")>>) : x[1] \in RotateNames
  BY LongLists DEF IsList, RotateNames
<1>3. \A x \in StepsOf(RetireSteps) : x[1] = "commit"
  BY DEF StepsOf, RetireSteps, Do
<1>4. ASSUME NEW s \in Slots
      PROVE  /\ \A x \in StepsOf(ResealSteps(s)) : x[1] \in ResealNames
             /\ StepsOf(<<<<"open_writer", s>>>>) = {<<"open_writer", s>>}
  <2>1. IsList(ResealSteps(s), ResealNames)
    BY LongLists DEF ResealSteps, ResealNames
  <2>2. StepsOf(<<<<"open_writer", s>>>>) = {<<"open_writer", s>>}
    BY DEF StepsOf
  <2>. QED  BY <2>1, <2>2 DEF IsList
<1>5. StepsOf(<<Do("open_next")>>) = {Do("open_next")}
  BY DEF StepsOf
<1>. QED  BY <1>1, <1>2, <1>3, <1>4, <1>5

\* The steps of open_next_segment_unsafe, as a set.
LEMMA OpenNextSet ==
    StepsOf(OpenNextSteps) = {<<"retire", NextSlot>>, <<"open_writer", NextSlot>>, <<"header", 0>>,
                              <<"header", 1>>, <<"activate", 0>>, <<"commit", 0>>}
<1>. DEFINE q == OpenNextSteps
<1>1. DOMAIN q = 1 .. 6 /\ q[1] = <<"retire", NextSlot>> /\ q[2] = <<"open_writer", NextSlot>>
      /\ q[3] = <<"header", 0>> /\ q[4] = <<"header", 1>> /\ q[5] = <<"activate", 0>>
      /\ q[6] = <<"commit", 0>>
  BY DEF OpenNextSteps, Do
<1>. HIDE DEF q
<1>2. StepsOf(q) = {q[i] : i \in 1 .. 6}
  BY <1>1 DEF StepsOf
<1>3. 1 .. 6 = {1, 2, 3, 4, 5, 6}
  OBVIOUS
<1>4. StepsOf(q) = {q[1], q[2], q[3], q[4], q[5], q[6]}
  BY <1>2, <1>3
<1>5. StepsOf(q) = {<<"retire", NextSlot>>, <<"open_writer", NextSlot>>, <<"header", 0>>,
                    <<"header", 1>>, <<"activate", 0>>, <<"commit", 0>>}
  BY <1>1, <1>4
<1>. QED  BY <1>5 DEF q

\* The steps that the rotation part of the invariant speaks of.
Spoken == {"open_next", "retire", "header", "activate", "write_entry", "prepare", "recover",
           "highest", "seal_recovered", "select"}

\* The rotation part of the invariant, of a continuation that takes over from this one.
LEMMA RotationKept ==
    ASSUME TypeOK, ControlInv, RotationInv, todo # <<>>,
           NEW new, Pending' = new \cup Rest, \A x \in new : x[1] \notin Spoken,
           NextSlot' = NextSlot \/ ~Has({"retire", "header"})',
           \/ ~Has({"header"})'
           \/ /\ \A x \in new : x[1] # "open_writer"
              /\ \/ UNCHANGED writer_fd /\ ~At("open_writer")
                 \/ At("open_writer") /\ writer_fd' = Arg
                 \/ writer_fd' = NoFd /\ ~At("open_writer")
    PROVE  RotationInv'
<1>. DEFINE h == Head(todo)
<1>1. Pending = {h} \cup Rest
  BY BehindEntry
<1>2. \A n : At(n) <=> h[1] = n
  BY DEF At
<1>. HIDE DEF h
<1>3. \A M \in SUBSET Spoken : Has(M)' => \E x \in Rest : x[1] \in M
  BY DEF Has
<1>4. Reserved' => ~Has({"prepare", "open_next", "activate"})'
  <2>. SUFFICES ASSUME Reserved', NEW y \in Rest, y[1] \in {"prepare", "open_next", "activate"}
                PROVE  FALSE
    BY <1>3 DEF Spoken
  <2>1. PICK x \in Rest : x[1] = "write_entry"
    BY <1>3 DEF Reserved, Spoken
  <2>2. \A z \in Rest : z[1] # "reserve"
    BY DEF Reserved, Has
  <2>3. CASE At("reserve")
    BY <2>3, BehindStep DEF Rotating
  <2>4. CASE ~At("reserve")
    <3>1. Reserved
      BY <1>1, <1>2, <2>1, <2>2, <2>4 DEF Reserved, Has
    <3>. QED  BY <1>1, <3>1 DEF RotationInv, Has
  <2>. QED  BY <2>3, <2>4
<1>5. Has({"recover"})' => Has({"highest"})'
  <2>. SUFFICES ASSUME NEW x \in Rest, x[1] = "recover" PROVE Has({"highest"})'
    BY <1>3 DEF Spoken
  <2>1. PICK y \in Pending : y[1] = "highest"
    BY <1>1 DEF RotationInv, Has
  <2>2. ~At("highest")
    BY BehindStep
  <2>. QED  BY <1>1, <1>2, <2>1, <2>2 DEF Has
<1>6. Has({"highest", "seal_recovered"})' => Has({"select"})'
  <2>. SUFFICES ASSUME NEW x \in Rest, x[1] \in {"highest", "seal_recovered"} PROVE Has({"select"})'
    BY <1>3 DEF Spoken
  <2>1. PICK y \in Pending : y[1] = "select"
    BY <1>1 DEF RotationInv, Has
  <2>2. ~At("select")
    BY BehindStep
  <2>. QED  BY <1>1, <1>2, <2>1, <2>2 DEF Has
<1>7. Has({"select"})' => ~Has({"open_next", "retire", "header", "activate"})'
  <2>. SUFFICES ASSUME NEW x \in Rest, x[1] = "select",
                       NEW y \in Rest, y[1] \in {"open_next", "retire", "header", "activate"}
                PROVE  FALSE
    BY <1>3 DEF Spoken
  <2>. QED  BY <1>1 DEF RotationInv, Has
<1>8. \A x \in Pending' : x[1] = "retire" => x[2] = NextSlot'
  <2>. SUFFICES ASSUME NEW x \in Pending', x[1] = "retire" PROVE x[2] = NextSlot'
    OBVIOUS
  <2>1. x \in Rest /\ Has({"retire", "header"})'
    BY DEF Spoken, Has
  <2>. QED  BY <1>1, <2>1 DEF RotationInv
<1>9. ASSUME Has({"header"})'
      PROVE  IF Has({"open_writer"})'
             THEN \A x \in Pending' : x[1] = "open_writer" => x[2] = NextSlot'
             ELSE writer_fd' \in {NextSlot', NoFd}
  <2>1. Has({"header"}) /\ NextSlot' = NextSlot
    BY <1>1, <1>3, <1>9 DEF Has, Spoken
  <2>2. \A x \in new : x[1] # "open_writer"
    BY <1>9
  <2>3. CASE Has({"open_writer"})'
    BY <1>1, <2>1, <2>2, <2>3 DEF RotationInv, Has
  <2>4. CASE ~Has({"open_writer"})'
    <3>1. CASE At("open_writer")
      <4>1. h[2] = NextSlot /\ writer_fd' = h[2]
        <5>1. h \in Pending /\ h[1] = "open_writer" /\ Has({"open_writer"})
          BY <1>1, <1>2, <3>1 DEF Has
        <5>2. writer_fd' = h[2]
          BY <1>9, <3>1 DEF h, Arg
        <5>. QED  BY <2>1, <5>1, <5>2 DEF RotationInv
      <4>. QED  BY <2>1, <2>4, <4>1
    <3>2. CASE ~At("open_writer")
      <4>1. ~Has({"open_writer"})
        BY <1>1, <1>2, <2>4, <3>2 DEF Has
      <4>2. writer_fd \in {NextSlot, NoFd}
        BY <2>1, <4>1 DEF RotationInv
      <4>. QED  BY <1>9, <2>1, <2>4, <3>2, <4>2
    <3>. QED  BY <3>1, <3>2
  <2>. QED  BY <2>3, <2>4
<1>. QED  BY <1>4, <1>5, <1>6, <1>7, <1>8, <1>9 DEF RotationInv

\* An empty continuation.
LEMMA RotationEmpty == Pending' = {} => RotationInv'
  BY DEF RotationInv, Has, Reserved

\* The moves.
LEMMA MovesRotation ==
    ASSUME TypeOK, ControlInv, RotationInv, Moves
    PROVE  RotationInv'
<1>1. Pending' = {} \cup Rest /\ todo # <<>>
  BY MovesControl
<1>2. ASSUME UNCHANGED <<writer_fd, state>>, ~At("open_writer")
      PROVE  RotationInv'
  BY <1>1, <1>2, RotationKept DEF NextSlot
<1>3. CASE WriteDone
  <2>1. ~At("open_writer")
    BY <1>3 DEF WriteDone, Write, WriterWrite, WriteBuffer, WriteEntry, WriteIndex, WriteFooter,
                WriteHeader, Commit, At
  <2>. QED  BY <1>2, <1>3, <2>1 DEF WriteDone, memory
<1>4. CASE OpenWriter
  <2>1. At("open_writer") /\ writer_fd' = Arg /\ NextSlot' = NextSlot
    BY <1>4 DEF OpenWriter, NextSlot
  <2>2. PICK new : new = {} /\ Pending' = new \cup Rest
    BY <1>1
  <2>3. \A x \in new : x[1] \notin Spoken /\ x[1] # "open_writer"
    BY <2>2
  <2>. QED  BY ONLY TypeOK, ControlInv, RotationInv, <1>1, <2>1, <2>2, <2>3, RotationKept
<1>5. CASE CloseWriter
  <2>1. ~At("open_writer") /\ writer_fd' = NoFd /\ UNCHANGED state
    BY <1>5 DEF CloseWriter, At
  <2>. QED  BY <1>1, <2>1, RotationKept DEF NextSlot
<1>6. CASE Flushed \/ AccountEntry \/ Acknowledge \/ Sealed
  BY <1>2, <1>6 DEF Flushed, AccountEntry, Acknowledge, Sealed, At, memory
<1>7. CASE PutEntry \/ ReserveEntry
  <2>1. ~At("open_writer") /\ UNCHANGED writer_fd /\ state' = MadeEntry
    BY <1>7 DEF PutEntry, ReserveEntry, At
  <2>2. NextSlot' = NextSlot
    BY <2>1 DEF NextSlot, MadeEntry, TypeOK, MemoryTypeOK, StateRecord
  <2>. QED  BY <1>1, <2>1, <2>2, RotationKept
<1>8. CASE Activate \/ Settle
  <2>1. At("activate") \/ At("settle")
    BY <1>8 DEF Activate, Settle
  <2>2. ~Has({"retire", "header"})' /\ ~Has({"header"})'
    BY <1>1, <2>1, BehindStep DEF Has, Rotating
  <2>. QED  BY <1>1, <2>2, RotationKept
<1>. QED  BY <1>3, <1>4, <1>5, <1>6, <1>7, <1>8 DEF Moves

\* An error return.
LEMMA FailRotation == Fail => RotationInv'
  BY FailControl, RotationEmpty

\* The calls between and after the entries.
LEMMA CallsRotation ==
    ASSUME TypeOK, ControlInv, RotationInv, Flush \/ PrepareSpace \/ OpenNext \/ Retire
    PROVE  RotationInv'
<1>1. CASE Flush
  <2>1. PICK new : /\ Pending' = new \cup Rest /\ \A x \in new : x[1] \in FlushNames
                   /\ todo # <<>>
    <3>1. CASE write_buf = <<>>
      <4>1. Pending' = {} \cup Rest /\ todo # <<>>
        BY <1>1, <3>1, FlushControl
      <4>. QED  BY <4>1
    <3>2. CASE write_buf # <<>>
      <4>1. Pending' = StepsOf(FlushSteps) \cup Rest /\ todo # <<>>
        BY <1>1, <3>2, FlushControl
      <4>. QED  BY <4>1, CallNames
    <3>. QED  BY <3>1, <3>2
  <2>2. UNCHANGED <<writer_fd, state>> /\ ~At("open_writer")
    BY <1>1 DEF Flush, At, memory
  <2>3. \A x \in new : x[1] \notin Spoken /\ x[1] # "open_writer"
    BY <2>1 DEF FlushNames, Spoken
  <2>. QED  BY <2>1, <2>2, <2>3, RotationKept DEF NextSlot
<1>2. CASE PrepareSpace
  <2>1. todo # <<>> /\ At("prepare") /\ UNCHANGED <<writer_fd, state>> /\ ~At("open_writer")
    BY <1>2 DEF PrepareSpace, At, memory
  <2>2. Pending = {Head(todo)} \cup Rest
    BY <2>1, BehindEntry
  <2>3. CASE HasSpace(Arg)
    <3>1. Pending' = {} \cup Rest
      BY <1>2, <2>3, PrepareControl
    <3>. QED  BY <2>1, <3>1, RotationKept DEF NextSlot
  <2>4. CASE ~HasSpace(Arg)
    <3>1. PICK new : /\ Pending' = new \cup Rest /\ \A x \in new : x[1] \in RotateNames
      BY <1>2, <2>4, PrepareControl, CallNames
    <3>2. \A x \in new : x[1] \notin (Spoken \ {"open_next"}) \cup {"open_writer", "reserve"}
      BY <3>1 DEF RotateNames, SealNames, Spoken
    <3>3. Has({"prepare"}) /\ ~Has(Booting)
      BY <2>1, <2>2 DEF Has, At, ControlInv, Sized
    <3>4. \A x \in Rest : x[1] \notin Booting
      BY <2>2, <3>3 DEF Has
    <3>5. ~Reserved'
      <4>. SUFFICES ASSUME Reserved' PROVE FALSE
        OBVIOUS
      <4>1. PICK x \in Rest : x[1] = "write_entry"
        BY <3>1, <3>2 DEF Reserved, Has, Spoken
      <4>2. Reserved
        BY <2>1, <2>2, <3>1, <4>1 DEF Reserved, Has, At
      <4>. QED  BY <3>3, <4>2 DEF RotationInv, Has
    <3>6. ~Has({"recover", "highest", "seal_recovered", "select"})'
      BY <3>1, <3>2, <3>4 DEF Has, Spoken, Booting, Recovering
    <3>7. \A x \in Pending' : x[1] = "retire" => x[2] = NextSlot'
      BY <2>1, <2>2, <3>1, <3>2 DEF RotationInv, Spoken, NextSlot
    <3>8. ASSUME Has({"header"})'
          PROVE  IF Has({"open_writer"})'
                 THEN \A x \in Pending' : x[1] = "open_writer" => x[2] = NextSlot'
                 ELSE writer_fd' \in {NextSlot', NoFd}
      <4>1. Has({"header"}) /\ NextSlot' = NextSlot
        BY <2>1, <2>2, <3>1, <3>2, <3>8 DEF Has, Spoken, NextSlot
      <4>2. Has({"open_writer"})' <=> Has({"open_writer"})
        BY <2>1, <2>2, <3>1, <3>2 DEF Has, At
      <4>. QED  BY <2>1, <2>2, <3>1, <3>2, <4>1, <4>2 DEF RotationInv, Has
    <3>. QED  BY <3>5, <3>6, <3>7, <3>8 DEF RotationInv, Has
  <2>. QED  BY <2>3, <2>4
<1>3. CASE OpenNext
  <2>1. CASE Fail
    BY <2>1, FailRotation
  <2>2. CASE ~Fail
    <3>1. /\ Pending' = StepsOf(OpenNextSteps) \cup Rest /\ UNCHANGED <<mode, memory>>
          /\ todo # <<>> /\ At("open_next")
      BY <1>3, <2>2, OpenNextControl DEF OpenNext
    <3>2. UNCHANGED <<writer_fd, state>> /\ NextSlot' = NextSlot
      BY <3>1 DEF memory, NextSlot
    <3>3. Pending = {Head(todo)} \cup Rest /\ Has({"open_next"})
      BY <3>1, BehindEntry DEF Has, At
    <3>4. Pending' = {<<"retire", NextSlot>>, <<"open_writer", NextSlot>>, <<"header", 0>>,
                      <<"header", 1>>, <<"activate", 0>>, <<"commit", 0>>} \cup Rest
      BY <3>1, OpenNextSet
    <3>5. \A y \in Rest : y[1] \notin Rotating
      BY <3>1, BehindStep
    <3>6. ~Reserved' /\ ~Has({"select"})'
      <4>1. \A x \in Pending' : x[1] \in {"write_entry", "select"} => x \in Pending
        BY <3>3, <3>4
      <4>2. \A x \in Pending : x[1] = "reserve" => x \in Pending'
        <5>1. \A x \in Pending : x[1] = "reserve" => x \in Rest
          BY <3>1, <3>3 DEF At
        <5>. QED  BY <3>4, <5>1
      <4>3. ~Reserved /\ ~Has({"select"})
        BY <3>3 DEF RotationInv, Has
      <4>4. ~Reserved'
        BY <4>1, <4>2, <4>3 DEF Reserved, Has
      <4>. QED  BY <4>1, <4>3, <4>4 DEF Has
    <3>7. ~Has({"recover", "highest", "seal_recovered"})'
      <4>1. ~Has({"recover", "highest", "seal_recovered", "select"})
        BY <3>3 DEF RotationInv, Has
      <4>. QED  BY <3>3, <3>4, <4>1 DEF Has
    <3>8. \A x \in Pending' : x[1] \in {"retire", "open_writer"} => x[2] = NextSlot'
      BY <3>2, <3>4, <3>5 DEF Rotating
    <3>9. <<"open_writer", NextSlot>> \in Pending' /\ Has({"open_writer"})'
      <4>1. <<"open_writer", NextSlot>> \in Pending' /\ <<"open_writer", NextSlot>>[1] = "open_writer"
        BY <3>4
      <4>. QED  BY <4>1 DEF Has
    <3>. QED  BY <3>6, <3>7, <3>8, <3>9 DEF RotationInv, Has
  <2>. QED  BY <2>1, <2>2
<1>4. CASE Retire
  <2>1. PICK new : /\ Pending' = new \cup Rest /\ \A x \in new : x[1] = "commit"
                   /\ todo # <<>>
    <3>1. CASE segments[Arg].valid
      <4>1. Pending' = StepsOf(RetireSteps) \cup Rest /\ todo # <<>>
        BY <1>4, <3>1, RetireControl
      <4>. QED  BY <4>1, CallNames
    <3>2. CASE ~segments[Arg].valid
      <4>1. Pending' = {} \cup Rest /\ todo # <<>>
        BY <1>4, <3>2, RetireControl
      <4>. QED  BY <4>1
    <3>. QED  BY <3>1, <3>2
  <2>2. UNCHANGED writer_fd /\ ~At("open_writer")
    BY <1>4 DEF Retire, At
  <2>3. NextSlot' = NextSlot
    BY <1>4 DEF Retire, NextSlot, TypeOK, MemoryTypeOK, StateRecord
  <2>4. \A x \in new : x[1] \notin Spoken /\ x[1] # "open_writer"
    BY <2>1 DEF Spoken
  <2>. QED  BY <2>1, <2>2, <2>3, <2>4, RotationKept
<1>. QED  BY <1>1, <1>2, <1>3, <1>4

\* The steps of init().
LEMMA RecoveryRotation ==
    ASSUME TypeOK, ControlInv, RotationInv,
           Recover \/ PickHighest \/ SealRecovered \/ SelectActive \/ CountBoot \/ AppendBoot \/ Ready
    PROVE  RotationInv'
<1>1. ASSUME NEW new, Pending' = new \cup Rest, todo # <<>>, \A x \in new : x[1] \notin Spoken,
             At("recover") \/ At("highest") \/ At("seal_recovered") \/ At("select")
             \/ At("count_boot")
      PROVE  RotationInv'
  <2>1. ~Has({"retire", "header"})' /\ ~Has({"header"})'
    <3>1. \A x \in Rest : x[1] \notin {"retire", "header"}
      BY <1>1, BehindStep DEF Rotating
    <3>. QED  BY <1>1, <3>1 DEF Has, Spoken
  <2>. QED  BY <1>1, <2>1, RotationKept
<1>2. ASSUME Pending' = Rest, todo # <<>>,
             At("recover") \/ At("highest") \/ At("seal_recovered") \/ At("select")
             \/ At("count_boot")
      PROVE  RotationInv'
  <2>1. PICK new : new = {}
    OBVIOUS
  <2>2. Pending' = new \cup Rest /\ \A x \in new : x[1] \notin Spoken
    BY <1>2, <2>1
  <2>. QED  BY <1>1, <1>2, <2>2
<1>3. CASE Fail
  BY <1>3, FailRotation
<1>4. \A s \in Slots : /\ \A x \in StepsOf(ResealSteps(s)) : x[1] \notin Spoken
                       /\ \A x \in StepsOf(<<<<"open_writer", s>>>>) : x[1] \notin Spoken
  <2>1. \A n \in ResealNames : n \notin Spoken
    BY DEF ResealNames, SealNames, Spoken
  <2>2. "open_writer" \notin Spoken
    BY DEF Spoken
  <2>. QED  BY <2>1, <2>2, CallNames
<1>5. CASE Recover /\ ~Fail
  <2>1. At("recover")
    BY <1>5 DEF Recover
  <2>2. todo # <<>> /\ Arg \in Slots
        /\ (Pending' = Rest \/ Pending' = StepsOf(ResealSteps(Arg)) \cup Rest)
    BY <1>5, RecoverControl
  <2>. QED  BY <1>1, <1>2, <1>4, <2>1, <2>2
<1>6. CASE SealRecovered /\ ~Fail
  <2>1. At("seal_recovered")
    BY <1>6 DEF SealRecovered
  <2>2. todo # <<>> /\ Arg \in Slots
        /\ (Pending' = Rest \/ Pending' = StepsOf(ResealSteps(Arg)) \cup Rest)
    BY <1>6, SealRecoveredControl
  <2>. QED  BY <1>1, <1>2, <1>4, <2>1, <2>2
<1>7. CASE (PickHighest \/ CountBoot) /\ ~Fail
  <2>1. At("highest") \/ At("count_boot")
    BY <1>7 DEF PickHighest, CountBoot
  <2>2. todo # <<>> /\ Pending' = Rest
    BY <1>7, SetStateControl
  <2>. QED  BY <1>2, <2>1, <2>2
<1>8. CASE SelectActive /\ ~Fail
  <2>1. At("select")
    BY <1>8 DEF SelectActive
  <2>. DEFINE s == HighestSlot(segments)
  <2>2. /\ todo # <<>> /\ s \in Slots
        /\ \/ Pending' = StepsOf(<<<<"open_writer", s>>>>) \cup Rest
           \/ Pending' = StepsOf(<<Do("open_next")>>) \cup Rest
    BY <1>8, SelectControl
  <2>. HIDE DEF s
  <2>3. CASE Pending' = StepsOf(<<<<"open_writer", s>>>>) \cup Rest
    BY <1>1, <1>4, <2>1, <2>2, <2>3
  <2>4. CASE Pending' = StepsOf(<<Do("open_next")>>) \cup Rest
    <3>1. Pending' = {Do("open_next")} \cup Rest /\ Do("open_next")[1] = "open_next"
      BY <2>4, CallNames DEF Do
    <3>2. \A y \in Rest : y[1] \notin Rotating \cup {"recover", "highest", "seal_recovered", "select"}
      BY <2>1, <2>2, BehindStep
    <3>3. ~Has({"recover", "highest", "seal_recovered", "select"})' /\ ~Has({"retire", "header"})'
      BY <3>1, <3>2 DEF Has, Rotating
    <3>4. Pending = {Head(todo)} \cup Rest
      BY <2>2, BehindEntry
    <3>5. \A x \in Pending : x[1] \notin Sized
      <4>1. Has(Booting)
        BY <2>1, <3>4 DEF Has, At, Booting, Recovering
      <4>. QED  BY <4>1 DEF ControlInv, Has
    <3>6. ~Reserved'
      BY <3>1, <3>4, <3>5 DEF Reserved, Has, Sized
    <3>7. \A x \in Pending' : x[1] \notin {"recover", "highest", "seal_recovered", "select", "retire",
                                          "header"}
      BY <3>3 DEF Has
    <3>8. ~Has({"recover"})' /\ ~Has({"highest", "seal_recovered"})' /\ ~Has({"select"})' /\ ~Has({"header"})'
      BY <3>7 DEF Has
    <3>. QED  BY <3>6, <3>7, <3>8 DEF RotationInv
  <2>. QED  BY <2>2, <2>3, <2>4
<1>9. CASE AppendBoot
  <2>. DEFINE new == StepsOf(AppendSteps(BootEntrySize, TRUE))
  <2>1. todo # <<>> /\ Pending' = new \cup Rest /\ At("append_boot")
    BY <1>9, AppendBootControl DEF AppendBoot
  <2>2. /\ \A x \in new : x[1] \in AppendNames
        /\ \A x \in new : x[1] = "write_entry" => \E y \in new : y[1] = "reserve"
    BY BootEntryAssumption, AppendList, AppendReserves DEF IsList
  <2>. HIDE DEF new
  <2>3. \A x \in new : x[1] \notin {"recover", "highest", "seal_recovered", "select", "retire",
                                   "header", "open_next", "activate"}
    BY <2>2 DEF AppendNames, DirectNames
  <2>4. \A y \in Rest : y[1] \notin {"recover", "highest", "seal_recovered", "select", "retire",
                                    "header", "write_entry"}
    BY <2>1, BehindStep DEF Rotating
  <2>5. \A x \in Pending' : x[1] \notin {"recover", "highest", "seal_recovered", "select", "retire",
                                        "header"}
    BY <2>1, <2>3, <2>4
  <2>6. ~Reserved'
    <3>. SUFFICES ASSUME Reserved' PROVE FALSE
      OBVIOUS
    <3>1. PICK x \in Pending' : x[1] = "write_entry"
      BY DEF Reserved, Has
    <3>2. PICK y \in new : y[1] = "reserve"
      BY <2>1, <2>2, <2>4, <3>1
    <3>. QED  BY <2>1, <3>2 DEF Reserved, Has
  <2>8. ~Has({"recover"})' /\ ~Has({"highest", "seal_recovered"})' /\ ~Has({"select"})' /\ ~Has({"header"})'
    BY <2>5 DEF Has
  <2>. QED  BY <2>5, <2>6, <2>8 DEF RotationInv
<1>10. CASE Ready
  BY <1>10, ReadyControl, RotationEmpty
<1>. QED  BY <1>3, <1>5, <1>6, <1>7, <1>8, <1>9, <1>10

\* The operations and the environment.
LEMMA OperationRotation ==
    ASSUME TypeOK, ControlInv, RotationInv,
           \/ Close \/ NoWriter \/ NoEntry \/ WriteError \/ OpenWriterError
           \/ StartInit \/ AppendEntry \/ FlushWrite \/ Deinit \/ RotIndex \/ RotData \/ Crash
    PROVE  RotationInv'
<1>1. CASE Close \/ Crash \/ OpenWriterError
  <2>1. todo' = <<>>
    BY <1>1 DEF Close, Crash, OpenWriterError, Reset
  <2>. QED  BY <2>1, EmptyControl, RotationEmpty
<1>2. CASE NoWriter \/ NoEntry \/ WriteError
  BY <1>2, FailRotation DEF NoWriter, NoEntry, WriteError
<1>3. CASE RotIndex \/ RotData
  <2>1. UNCHANGED <<todo, state, writer_fd>>
    BY <1>3 DEF RotIndex, RotData, memory, control
  <2>. QED  BY <2>1 DEF RotationInv, Reserved, Has, Pending, NextSlot
<1>4. CASE StartInit
  <2>1. \A x \in Pending' : x[1] \in {"recover", "highest", "seal_recovered"} \cup LastNames
    BY <1>4, InitList DEF StartInit, IsList, Pending
  <2>2. \A x \in Pending' : x[1] \notin {"retire", "header", "open_next", "activate", "write_entry"}
    BY <2>1 DEF LastNames
  <2>3. Do("highest") \in Pending' /\ Do("select") \in Pending'
    BY <1>4, InitHas DEF StartInit, Pending
  <2>4. Has({"highest"})' /\ Has({"select"})'
    BY <2>3 DEF Has, Do
  <2>5. ~Reserved' /\ ~Has({"header"})' /\ ~Has({"open_next", "retire", "header", "activate"})'
    BY <2>2 DEF Reserved, Has
  <2>. QED  BY <2>2, <2>4, <2>5 DEF RotationInv
<1>5. CASE AppendEntry \/ FlushWrite \/ Deinit
  <2>1. /\ \A x \in Pending' : x[1] \in AppendNames \cup {"close"}
        /\ ~Reserved'
    <3>1. CASE AppendEntry
      <4>1. PICK n \in EntrySizes, force_flush \in BOOLEAN : todo' = AppendSteps(n, force_flush)
        BY <3>1 DEF AppendEntry
      <4>2. n \in 1 .. Capacity /\ Pending' = StepsOf(AppendSteps(n, force_flush))
        BY <4>1, EntrySizesAssumption DEF Pending
      <4>3. \A x \in Pending' : x[1] \in AppendNames
        BY <4>2, AppendList DEF IsList
      <4>4. \A x \in Pending' : x[1] = "write_entry" => \E y \in Pending' : y[1] = "reserve"
        BY <4>2, AppendReserves
      <4>. QED  BY <4>3, <4>4 DEF Reserved, Has
    <3>2. CASE FlushWrite
      <4>1. \A x \in Pending' : x[1] = "flush"
        BY <3>2 DEF FlushWrite, Pending, StepsOf, Do
      <4>. QED  BY <4>1 DEF AppendNames, DirectNames, Reserved, Has
    <3>3. CASE Deinit
      <4>1. \A x \in Pending' : x[1] \in {"flush", "close"}
        BY <3>3, LongLists DEF Deinit, IsList, Pending
      <4>. QED  BY <4>1 DEF AppendNames, DirectNames, Reserved, Has
    <3>. QED  BY <1>5, <3>1, <3>2, <3>3
  <2>2. \A x \in Pending' : x[1] \notin {"recover", "highest", "seal_recovered", "select", "retire",
                                        "header"}
    BY <2>1 DEF AppendNames, DirectNames
  <2>3. ~Has({"recover"})' /\ ~Has({"highest", "seal_recovered"})' /\ ~Has({"select"})' /\ ~Has({"header"})'
    BY <2>2 DEF Has
  <2>. QED  BY <2>1, <2>2, <2>3 DEF RotationInv
<1>. QED  BY <1>1, <1>2, <1>3, <1>4, <1>5

\* Every action keeps the rotation in order.
LEMMA NextRotation == TypeOK /\ ControlInv /\ RotationInv /\ [Next]_vars => RotationInv'
<1>. SUFFICES ASSUME TypeOK, ControlInv, RotationInv, [Next]_vars PROVE RotationInv'
  OBVIOUS
<1>1. CASE UNCHANGED vars
  BY <1>1 DEF vars, medium, memory, control, RotationInv, Reserved, Has, Pending, NextSlot
<1>. QED  BY <1>1, MovesRotation, CallsRotation, RecoveryRotation, OperationRotation
          DEF Next, Step, Moves

-----------------------------------------------------------------------------
(* What is stored.                                                         *)

\* No id is taken by a step that starts or ends an operation, or recovers.
LEMMA NothingTaken ==
    ASSUME TypeOK, ControlInv,
           \/ Recover \/ PickHighest \/ SealRecovered \/ SelectActive \/ Settle \/ CountBoot
           \/ AppendBoot \/ Ready \/ StartInit \/ AppendEntry \/ FlushWrite \/ Deinit
    PROVE  ~Reserved'
<1>1. ASSUME NEW new, Pending' = new \cup Rest, todo # <<>>, Head(todo)[1] \in Booting,
             \A x \in new : x[1] = "write_entry" => \E y \in new : y[1] = "reserve"
      PROVE  ~Reserved'
  <2>1. Pending = {Head(todo)} \cup Rest
    BY <1>1, BehindEntry
  <2>2. \A x \in Rest : x[1] # "write_entry"
    BY <1>1, <2>1 DEF ControlInv, Has, Sized
  <2>. QED  BY <1>1, <2>2 DEF Reserved, Has
<1>2. ASSUME Pending' = Rest, todo # <<>>, Head(todo)[1] \in Booting
      PROVE  ~Reserved'
  <2>1. PICK new : new = {} /\ Pending' = new \cup Rest
    BY <1>2
  <2>. QED  BY <1>1, <1>2, <2>1
<1>3. Pending' = {} => ~Reserved'
  BY DEF Reserved, Has
<1>4. Fail => ~Reserved'
  BY <1>3, FailControl
<1>5. \A s \in Slots : /\ \A x \in StepsOf(ResealSteps(s)) : x[1] # "write_entry"
                       /\ \A x \in StepsOf(<<<<"open_writer", s>>>>) : x[1] # "write_entry"
  <2>1. \A n \in ResealNames : n # "write_entry"
    BY DEF ResealNames, SealNames
  <2>. QED  BY <2>1, CallNames
<1>6. CASE Recover /\ ~Fail
  <2>1. Head(todo)[1] \in Booting
    BY <1>6 DEF Recover, At, Booting, Recovering
  <2>2. todo # <<>> /\ Arg \in Slots
        /\ (Pending' = Rest \/ Pending' = StepsOf(ResealSteps(Arg)) \cup Rest)
    BY <1>6, RecoverControl
  <2>. QED  BY <1>1, <1>2, <1>5, <2>1, <2>2
<1>7. CASE SealRecovered /\ ~Fail
  <2>1. Head(todo)[1] \in Booting
    BY <1>7 DEF SealRecovered, At, Booting, Recovering
  <2>2. todo # <<>> /\ Arg \in Slots
        /\ (Pending' = Rest \/ Pending' = StepsOf(ResealSteps(Arg)) \cup Rest)
    BY <1>7, SealRecoveredControl
  <2>. QED  BY <1>1, <1>2, <1>5, <2>1, <2>2
<1>8. CASE (PickHighest \/ CountBoot) /\ ~Fail
  <2>1. Head(todo)[1] \in Booting
    BY <1>8 DEF PickHighest, CountBoot, At, Booting, Recovering
  <2>2. todo # <<>> /\ Pending' = Rest
    BY <1>8, SetStateControl
  <2>. QED  BY <1>2, <2>1, <2>2
<1>9. CASE Settle
  <2>1. Head(todo)[1] \in Booting /\ todo # <<>> /\ Pending' = Rest
    BY <1>9, MovesControl DEF Settle, At, Booting, Recovering, Moves
  <2>. QED  BY <1>2, <2>1
<1>10. CASE SelectActive /\ ~Fail
  <2>1. Head(todo)[1] \in Booting
    BY <1>10 DEF SelectActive, At, Booting, Recovering
  <2>. DEFINE s == HighestSlot(segments)
  <2>2. /\ todo # <<>> /\ s \in Slots
        /\ \/ Pending' = StepsOf(<<<<"open_writer", s>>>>) \cup Rest
           \/ Pending' = StepsOf(<<Do("open_next")>>) \cup Rest
    BY <1>10, SelectControl
  <2>. HIDE DEF s
  <2>3. \A x \in StepsOf(<<Do("open_next")>>) : x[1] # "write_entry"
    BY CallNames DEF Do
  <2>. QED  BY <1>1, <1>5, <2>1, <2>2, <2>3
<1>11. CASE AppendBoot
  <2>1. /\ todo # <<>> /\ Head(todo)[1] \in Booting
        /\ Pending' = StepsOf(AppendSteps(BootEntrySize, TRUE)) \cup Rest
    BY <1>11, AppendBootControl DEF AppendBoot, At, Booting
  <2>. QED  BY <1>1, <2>1, BootEntryAssumption, AppendReserves
<1>12. CASE Ready
  BY <1>3, <1>12, ReadyControl
<1>13. CASE StartInit
  <2>1. \A x \in Pending' : x[1] \in {"recover", "highest", "seal_recovered"} \cup LastNames
    BY <1>13, InitList DEF StartInit, IsList, Pending
  <2>. QED  BY <2>1 DEF LastNames, Reserved, Has
<1>14. CASE AppendEntry
  <2>1. PICK n \in EntrySizes, force_flush \in BOOLEAN : todo' = AppendSteps(n, force_flush)
    BY <1>14 DEF AppendEntry
  <2>2. n \in 1 .. Capacity /\ Pending' = StepsOf(AppendSteps(n, force_flush))
    BY <2>1, EntrySizesAssumption DEF Pending
  <2>. QED  BY <2>2, AppendReserves DEF Reserved, Has
<1>15. CASE FlushWrite
  <2>1. \A x \in Pending' : x[1] = "flush"
    BY <1>15 DEF FlushWrite, Pending, StepsOf, Do
  <2>. QED  BY <2>1 DEF Reserved, Has
<1>16. CASE Deinit
  <2>1. \A x \in Pending' : x[1] \in {"flush", "close"}
    BY <1>16, LongLists DEF Deinit, IsList, Pending
  <2>. QED  BY <2>1 DEF Reserved, Has
<1>. QED  BY <1>4, <1>6, <1>7, <1>8, <1>9, <1>10, <1>11, <1>12, <1>13, <1>14, <1>15, <1>16

\* Only reserving an id takes one.
LEMMA TakenKept ==
    ASSUME TypeOK, ControlInv, RotationInv, [Next]_vars, ~ReserveEntry
    PROVE  Taken' \subseteq Taken
<1>1. ASSUME Pending' \subseteq Pending, \A x \in Pending : x[1] = "reserve" => x \in Pending',
             UNCHANGED <<state.newest_entry_id, active_segment>> \/ ~Reserved
      PROVE  Taken' \subseteq Taken
  <2>1. Reserved' => Reserved
    BY <1>1 DEF Reserved, Has
  <2>. QED  BY <1>1, <2>1 DEF Taken
<1>2. ASSUME ~Reserved' PROVE Taken' \subseteq Taken
  BY <1>2 DEF Taken
<1>3. Pending' = {} => ~Reserved'
  BY DEF Reserved, Has
<1>4. CASE Moves /\ ~Settle
  <2>1. Pending' = Rest /\ todo # <<>>
    BY <1>4, MovesControl
  <2>2. Pending = {Head(todo)} \cup Rest
    BY <2>1, BehindEntry
  <2>3. Head(todo)[1] # "reserve"
    BY <1>4 DEF Moves, WriteDone, Write, WriterWrite, WriteBuffer, WriteEntry, WriteIndex,
                WriteFooter, WriteHeader, Commit, OpenWriter, CloseWriter, Flushed, PutEntry,
                AccountEntry, Acknowledge, Sealed, Activate, At
  <2>4. UNCHANGED <<state.newest_entry_id, active_segment>> \/ ~Reserved
    <3>1. CASE PutEntry
      <4>1. At("put") /\ \A y \in Rest : y[1] # "write_entry"
        BY <2>1, <3>1, BehindStep DEF PutEntry
      <4>. QED  BY <2>2, <4>1 DEF Reserved, Has, At
    <3>2. CASE Activate
      <4>1. Has({"activate"})
        BY <2>2, <3>2 DEF Activate, Has, At
      <4>2. Has({"prepare", "open_next", "activate"})
        BY <4>1 DEF Has
      <4>. QED  BY <4>2 DEF RotationInv
    <3>3. CASE ~PutEntry /\ ~Activate
      <4>1. UNCHANGED <<state, active_segment>>
        BY <1>4, <3>3 DEF Moves, WriteDone, OpenWriter, CloseWriter, Flushed, AccountEntry,
                          Acknowledge, Sealed, memory
      <4>. QED  BY <4>1
    <3>. QED  BY <3>1, <3>2, <3>3
  <2>. QED  BY <1>1, <2>1, <2>2, <2>3, <2>4
<1>5. ASSUME NEW new, Pending' = new \cup Rest, todo # <<>>, \A x \in new : x[1] # "write_entry",
             Head(todo)[1] # "reserve", UNCHANGED <<state.newest_entry_id, active_segment>>
      PROVE  Taken' \subseteq Taken
  <2>1. Pending = {Head(todo)} \cup Rest
    BY <1>5, BehindEntry
  <2>2. Reserved' => Reserved
    BY <1>5, <2>1 DEF Reserved, Has
  <2>. QED  BY <1>5, <2>2 DEF Taken
<1>6. CASE Flush \/ PrepareSpace
  <2>1. UNCHANGED <<state, active_segment>> /\ Head(todo)[1] # "reserve"
    BY <1>6 DEF Flush, PrepareSpace, memory, At
  <2>2. PICK new : Pending' = new \cup Rest /\ todo # <<>> /\ \A x \in new : x[1] # "write_entry"
    <3>1. /\ \A x \in StepsOf(FlushSteps) : x[1] # "write_entry"
          /\ \A x \in StepsOf(SealSteps \o <<Do("open_next")>>) : x[1] # "write_entry"
      BY CallNames DEF FlushNames, RotateNames, SealNames
    <3>2. \/ Pending' = {} \cup Rest
          \/ Pending' = StepsOf(FlushSteps) \cup Rest
          \/ Pending' = StepsOf(SealSteps \o <<Do("open_next")>>) \cup Rest
      BY <1>6, FlushControl, PrepareControl
    <3>3. todo # <<>>
      BY <1>6, FlushControl, PrepareControl
    <3>. DEFINE A == StepsOf(FlushSteps)
                B == StepsOf(SealSteps \o <<Do("open_next")>>)
    <3>4. /\ \A x \in A : x[1] # "write_entry"
          /\ \A x \in B : x[1] # "write_entry"
          /\ Pending' = {} \cup Rest \/ Pending' = A \cup Rest \/ Pending' = B \cup Rest
      BY <3>1, <3>2
    <3>. HIDE DEF A, B
    <3>5. CASE Pending' = {} \cup Rest
      <4>1. PICK new : new = {}
        OBVIOUS
      <4>. QED  BY <3>3, <3>5, <4>1
    <3>6. CASE Pending' = A \cup Rest
      BY <3>3, <3>4, <3>6
    <3>7. CASE Pending' = B \cup Rest
      BY <3>3, <3>4, <3>7
    <3>. QED  BY <3>4, <3>5, <3>6, <3>7
  <2>. QED  BY <1>5, <2>1, <2>2
<1>7. CASE Retire
  <2>1. UNCHANGED <<state.newest_entry_id, active_segment>> /\ Head(todo)[1] # "reserve"
    BY <1>7 DEF Retire, At, TypeOK, MemoryTypeOK, StateRecord
  <2>2. PICK new : Pending' = new \cup Rest /\ todo # <<>> /\ \A x \in new : x[1] # "write_entry"
    <3>1. \A x \in StepsOf(RetireSteps) : x[1] # "write_entry"
      BY CallNames
    <3>2. (Pending' = {} \cup Rest \/ Pending' = StepsOf(RetireSteps) \cup Rest) /\ todo # <<>>
      BY <1>7, RetireControl
    <3>. QED  BY <3>1, <3>2
  <2>. QED  BY <1>5, <2>1, <2>2
<1>8. CASE OpenNext
  <2>1. CASE Fail
    BY <1>2, <1>3, <2>1, FailControl
  <2>2. CASE ~Fail
    <3>1. /\ Pending' = StepsOf(OpenNextSteps) \cup Rest /\ UNCHANGED memory
          /\ todo # <<>> /\ Head(todo)[1] # "reserve"
      BY <1>8, <2>2, OpenNextControl DEF OpenNext, At
    <3>2. \A x \in StepsOf(OpenNextSteps) : x[1] # "write_entry"
      BY OpenNextSet
    <3>. QED  BY <1>5, <3>1, <3>2 DEF memory
  <2>. QED  BY <2>1, <2>2
<1>9. CASE \/ Recover \/ PickHighest \/ SealRecovered \/ SelectActive \/ Settle \/ CountBoot
           \/ AppendBoot \/ Ready \/ StartInit \/ AppendEntry \/ FlushWrite \/ Deinit
  BY <1>2, <1>9, NothingTaken
<1>10. CASE Close \/ Crash \/ OpenWriterError
  <2>1. todo' = <<>>
    BY <1>10 DEF Close, Crash, OpenWriterError, Reset
  <2>. QED  BY <1>2, <1>3, <2>1, EmptyControl
<1>11. CASE NoWriter \/ NoEntry \/ WriteError
  BY <1>2, <1>3, <1>11, FailControl DEF NoWriter, NoEntry, WriteError
<1>12. CASE RotIndex \/ RotData \/ UNCHANGED vars
  <2>1. UNCHANGED <<todo, state, active_segment>>
    BY <1>12 DEF RotIndex, RotData, vars, memory, control
  <2>. QED  BY <2>1 DEF Taken, Reserved, Has, Pending
<1>. QED  BY <1>4, <1>6, <1>7, <1>8, <1>9, <1>10, <1>11, <1>12 DEF Next, Step, Moves

\* A write leaves no cell on the medium but those that memory holds for it.
LEMMA WriteMarks ==
    ASSUME TypeOK, NEW o \in Outcomes, Write(o), At("write_entry") => Reserved
    PROVE  OnMedium' \subseteq Stored
<1>. USE DEF TypeOK, MediumTypeOK, MemoryTypeOK
<1>1. ASSUME NEW s \in Slots, NEW offset \in Nat, NEW cells, WriteCells(s, offset, cells, o),
             \A k \in DOMAIN cells : Mark(cells[k]) \in InBuffer \cup Taken
      PROVE  OnMedium' \subseteq Stored
  <2>. DEFINE fates == IF o = "torn" THEN [DOMAIN cells -> Outcomes] ELSE {[k \in DOMAIN cells |-> o]}
  <2>1. PICK m \in fates :
            data' = [data EXCEPT ![s] =
                      [p \in Offsets |-> IF p - offset + 1 \in DOMAIN cells
                                         THEN Land(data[s][p], cells[p - offset + 1],
                                                   m[p - offset + 1])
                                         ELSE data[s][p]]]
    BY <1>1 DEF WriteCells
  <2>. HIDE DEF fates
  <2>2. ASSUME NEW t \in Slots, NEW p \in Offsets
        PROVE  data'[t][p] \in {data[t][p], Garbage} \cup {cells[k] : k \in DOMAIN cells}
    <3>1. \A k \in DOMAIN cells :
              m[k] \in Outcomes => Land(data[s][p], cells[k], m[k]) \in {data[s][p], Garbage, cells[k]}
      BY DEF Land, Outcomes
    <3>2. \A k \in DOMAIN cells : m[k] \in Outcomes
      BY <2>1 DEF fates
    <3>. QED  BY <2>1, <3>1, <3>2
  <2>3. ASSUME NEW t \in Slots, NEW p \in Offsets, data'[t][p] # Garbage
        PROVE  Mark(data'[t][p]) \in Stored
    <3>1. CASE data'[t][p] = data[t][p]
      <4>1. <<t, p>> \in {y \in Slots \X Offsets : data[y[1]][y[2]] # Garbage}
        BY <2>3, <3>1
      <4>2. Mark(data[t][p]) \in OnMedium
        BY <4>1 DEF OnMedium
      <4>. QED  BY <3>1, <4>2 DEF Stored
    <3>2. CASE \E k \in DOMAIN cells : data'[t][p] = cells[k]
      BY <1>1, <3>2 DEF Stored
    <3>. QED  BY <2>2, <2>3, <3>1, <3>2
  <2>. QED  BY <2>3 DEF OnMedium
<1>2. CASE WriterWrite(o) /\ WriteBuffer(o)
  <2>1. \A k \in DOMAIN write_buf : Mark(write_buf[k]) \in InBuffer
    BY DEF InBuffer
  <2>2. writer_fd \in Slots /\ WriteCells(writer_fd, write_buf_offset, write_buf, o)
    BY <1>2 DEF WriterWrite, WriteBuffer
  <2>. QED  BY <1>1, <2>1, <2>2
<1>3. CASE WriterWrite(o) /\ WriteEntry(o)
  <2>. DEFINE cells == EntryCells(state.newest_entry_id, active_segment.generation, Arg)
  <2>1. \A k \in DOMAIN cells : Mark(cells[k]) = [id |-> state.newest_entry_id,
                                                 generation |-> active_segment.generation]
    BY DEF EntryCells, Mark
  <2>2. writer_fd \in Slots /\ WriteCells(writer_fd, active_write_offset, cells, o) /\ Reserved
    BY <1>3 DEF WriterWrite, WriteEntry
  <2>. HIDE DEF cells
  <2>3. \A k \in DOMAIN cells : Mark(cells[k]) \in InBuffer \cup Taken
    BY <2>1, <2>2 DEF Taken
  <2>. QED  BY <1>1, <2>2, <2>3
<1>4. CASE (WriterWrite(o) /\ (WriteFooter(o) \/ WriteIndex(o) \/ WriteHeader(o))) \/ Commit(o)
  <2>1. data' = data
    BY <1>4 DEF WriteFooter, WriteIndex, WriteHeader, Commit
  <2>. QED  BY <2>1 DEF OnMedium, Stored
<1>. QED  BY <1>2, <1>3, <1>4 DEF Write, WriterWrite

\* At the write of an entry its id is taken.
LEMMA WritesReserved ==
    ASSUME TypeOK, ControlInv
    PROVE  At("write_entry") => Reserved
<1>. SUFFICES ASSUME At("write_entry") PROVE Reserved
  OBVIOUS
<1>1. todo # <<>> /\ Pending = {Head(todo)} \cup Rest /\ Head(todo)[1] = "write_entry"
  BY BehindEntry DEF At
<1>2. \A y \in Rest : y[1] # "reserve"
  BY <1>1, BehindStep
<1>. QED  BY <1>1, <1>2 DEF Reserved, Has

\* The entry that gets the next id.
NewMark == [id |-> NewEntryId, generation |-> active_segment.generation]

\* Nothing new is stored but by taking an id.
LEMMA StoredKept ==
    ASSUME TypeOK, ControlInv, RotationInv, [Next]_vars
    PROVE  Stored' \subseteq IF PutEntry \/ ReserveEntry THEN Stored \cup {NewMark} ELSE Stored
<1>. USE DEF TypeOK, MediumTypeOK, MemoryTypeOK
<1>1. ASSUME UNCHANGED data \/ \E o \in Outcomes : Write(o)
      PROVE  OnMedium' \subseteq Stored
  <2>1. CASE UNCHANGED data
    BY <2>1 DEF OnMedium, Stored
  <2>. QED  BY <1>1, <2>1, WriteMarks, WritesReserved
<1>2. ASSUME write_buf' = write_buf \/ write_buf' = <<>>
      PROVE  InBuffer' \subseteq Stored
  BY <1>2 DEF InBuffer, Stored
<1>3. CASE PutEntry
  <2>1. OnMedium' \subseteq Stored
    BY <1>1, <1>3 DEF PutEntry, medium
  <2>2. InBuffer' \subseteq Stored \cup {NewMark}
    <3>. DEFINE cells == EntryCells(NewEntryId, active_segment.generation, Arg)
    <3>1. write_buf' = write_buf \o cells
      BY <1>3 DEF PutEntry
    <3>2. \A k \in DOMAIN cells : Mark(cells[k]) = NewMark
      BY DEF EntryCells, Mark, NewMark
    <3>3. cells \in Seq(Cell) /\ write_buf \in Seq(Cell)
      <4>1. Arg \in 1 .. Capacity
        BY <1>3, ArgType DEF PutEntry, At
      <4>. QED  BY <4>1, NewEntryIdType, EntryCellsType
    <3>. HIDE DEF cells
    <3>4. ASSUME NEW k \in DOMAIN write_buf' PROVE Mark(write_buf'[k]) \in InBuffer \cup {NewMark}
      <4>1. \/ k \in DOMAIN write_buf /\ write_buf'[k] = write_buf[k]
            \/ k - Len(write_buf) \in DOMAIN cells /\ write_buf'[k] = cells[k - Len(write_buf)]
        BY <3>1, <3>3, <3>4
      <4>. QED  BY <3>2, <4>1 DEF InBuffer
    <3>. QED  BY <3>4 DEF InBuffer, Stored
  <2>3. Taken' \subseteq Taken
    <3>1. ~ReserveEntry
      BY <1>3 DEF PutEntry, ReserveEntry, At
    <3>. QED  BY <3>1, TakenKept
  <2>. QED  BY <1>3, <2>1, <2>2, <2>3 DEF Stored
<1>4. CASE ReserveEntry
  <2>1. OnMedium' \subseteq Stored /\ InBuffer' \subseteq Stored
    BY <1>1, <1>2, <1>4 DEF ReserveEntry, medium
  <2>2. Taken' \subseteq {NewMark}
    <3>1. state'.newest_entry_id = NewEntryId /\ active_segment' = active_segment
      BY <1>4 DEF ReserveEntry, MadeEntry, StateRecord
    <3>. QED  BY <3>1 DEF Taken, NewMark
  <2>. QED  BY <1>4, <2>1, <2>2 DEF Stored
<1>5. CASE ~PutEntry /\ ~ReserveEntry
  <2>1. Taken' \subseteq Taken
    BY <1>5, TakenKept
  <2>2. InBuffer' \subseteq Stored
    <3>1. write_buf' = write_buf \/ write_buf' = <<>>
      <4>1. CASE WriteDone \/ OpenWriter \/ CloseWriter \/ Flushed \/ AccountEntry \/ Acknowledge \/ Sealed
                 \/ Activate \/ Settle
        BY <4>1 DEF WriteDone, OpenWriter, CloseWriter, Flushed, AccountEntry, Acknowledge, Sealed,
                    Activate, Settle, SetState, memory
      <4>2. Fail => write_buf' = write_buf \/ write_buf' = <<>>
        BY DEF Fail, Reset, memory
      <4>3. CASE Flush \/ PrepareSpace \/ OpenNext \/ Retire
        BY <4>2, <4>3 DEF Flush, PrepareSpace, OpenNext, Retire, memory
      <4>4. CASE Recover \/ PickHighest \/ SealRecovered \/ SelectActive
        BY <4>2, <4>4 DEF Recover, PickHighest, SealRecovered, SelectActive, SetDescriptor, Repair,
                          Adopt, Skip, memory
      <4>5. CASE CountBoot \/ AppendBoot \/ Ready \/ Close
        BY <4>2, <4>5 DEF CountBoot, SetState, AppendBoot, Ready, Close, Reset, memory
      <4>6. CASE NoWriter \/ NoEntry \/ WriteError \/ OpenWriterError
        BY <4>2, <4>6 DEF NoWriter, NoEntry, WriteError, OpenWriterError, Reset
      <4>7. CASE StartInit \/ AppendEntry \/ FlushWrite \/ Deinit \/ RotIndex \/ RotData \/ Crash
        BY <4>7 DEF StartInit, AppendEntry, FlushWrite, Deinit, RotIndex, RotData, Crash, Reset, memory
      <4>8. CASE UNCHANGED vars
        BY <4>8 DEF vars, memory
      <4>. QED  BY <1>5, <4>1, <4>3, <4>4, <4>5, <4>6, <4>7, <4>8 DEF Next, Step
    <3>. QED  BY <1>2, <3>1
  <2>3. OnMedium' \subseteq Stored
    <3>1. CASE RotData
      <4>1. PICK s \in Slots, p \in Offsets : data' = [data EXCEPT ![s][p] = Garbage]
        BY <3>1 DEF RotData
      <4>2. \A t \in Slots, q \in Offsets : data'[t][q] # Garbage => data'[t][q] = data[t][q]
        BY <4>1
      <4>3. ASSUME NEW t \in Slots, NEW q \in Offsets, data'[t][q] # Garbage
            PROVE  Mark(data'[t][q]) \in OnMedium
        <5>1. <<t, q>> \in {y \in Slots \X Offsets : data[y[1]][y[2]] # Garbage}
          BY <4>2, <4>3
        <5>2. Mark(data[t][q]) \in OnMedium
          BY <5>1 DEF OnMedium
        <5>. QED  BY <4>2, <4>3, <5>2
      <4>. QED  BY <4>3 DEF OnMedium, Stored
    <3>2. CASE ~RotData
      <4>1. UNCHANGED data \/ \E o \in Outcomes : Write(o)
        <5>1. CASE WriteDone \/ WriteError \/ Crash
          BY <5>1 DEF WriteDone, WriteError, Crash, Outcomes, medium
        <5>2. CASE Step /\ ~WriteDone
          BY <1>5, <5>2 DEF Step, NoWriter, OpenWriter, CloseWriter, Flush, Flushed, PrepareSpace, NoEntry,
                     AccountEntry, Acknowledge, Sealed, OpenNext, Retire, Activate,
                     Recover, PickHighest, SealRecovered, SelectActive, Settle, CountBoot,
                     AppendBoot, Ready, Close, medium
        <5>3. CASE OpenWriterError \/ StartInit \/ AppendEntry \/ FlushWrite \/ Deinit \/ RotIndex
                   \/ UNCHANGED vars
          BY <5>3 DEF OpenWriterError, StartInit, AppendEntry, FlushWrite, Deinit, RotIndex, vars, medium
        <5>. QED  BY <3>2, <5>1, <5>2, <5>3 DEF Next
      <4>. QED  BY <1>1, <4>1
    <3>. QED  BY <3>1, <3>2
  <2>. QED  BY <1>5, <2>1, <2>2, <2>3 DEF Stored
<1>. QED  BY <1>3, <1>4, <1>5

\* Marks are records of numbers.
LEMMA StoredType ==
    ASSUME TypeOK
    PROVE  \A p \in Stored : p.id \in Nat /\ p.generation \in Nat
<1>. USE DEF TypeOK, MediumTypeOK, MemoryTypeOK
<1>1. ASSUME NEW p \in OnMedium PROVE p.id \in Nat /\ p.generation \in Nat
  <2>1. PICK s \in Slots, o \in Offsets : p = Mark(data[s][o]) /\ data[s][o] # Garbage
    BY <1>1 DEF OnMedium
  <2>2. data[s][o] \in Cell
    BY <2>1
  <2>. QED  BY <2>1, <2>2 DEF Mark, Cell
<1>2. ASSUME NEW p \in InBuffer PROVE p.id \in Nat /\ p.generation \in Nat
  <2>1. PICK k \in DOMAIN write_buf : p = Mark(write_buf[k])
    BY <1>2 DEF InBuffer
  <2>2. write_buf[k] \in Cell
    BY <2>1, ElementOfSeq
  <2>. QED  BY <2>1, <2>2 DEF Mark, Cell
<1>3. ASSUME NEW p \in Taken PROVE p.id \in Nat /\ p.generation \in Nat
  <2>1. p.id = state.newest_entry_id /\ p.generation = active_segment.generation
    BY <1>3 DEF Taken
  <2>. QED  BY <2>1 DEF StateRecord
<1>. QED  BY <1>1, <1>2, <1>3 DEF Stored

\* The bounds on ids hold of what is stored.
LEMMA StoredBelow ==
    ASSUME TypeOK, NEW top, IdsBelow(top), Reserved => state.newest_entry_id <= top
    PROVE  \A p \in Stored : p.id <= top
<1>1. \A p \in OnMedium : p.id <= top
  <2>. SUFFICES ASSUME NEW p \in OnMedium PROVE p.id <= top
    OBVIOUS
  <2>1. PICK s \in Slots, o \in Offsets : p = Mark(data[s][o]) /\ data[s][o] # Garbage
    BY DEF OnMedium
  <2>. QED  BY <2>1 DEF Mark, IdsBelow, MediumIdsBelow
<1>2. \A p \in InBuffer : p.id <= top
  <2>. SUFFICES ASSUME NEW p \in InBuffer PROVE p.id <= top
    OBVIOUS
  <2>1. PICK k \in DOMAIN write_buf : p = Mark(write_buf[k])
    BY DEF InBuffer
  <2>. QED  BY <2>1 DEF Mark, IdsBelow, MemoryIdsBelow
<1>3. \A p \in Taken : p.id <= top
  BY DEF Taken
<1>. QED  BY <1>1, <1>2, <1>3 DEF Stored

\* While an entry is on its way, what is stored is older than it and not of a later
\* generation.
LEMMA NewestMark ==
    ASSUME TypeOK, ControlInv, IdInv, GenerationInv, PutEntry \/ ReserveEntry
    PROVE  /\ \A p \in Stored : p.id < NewEntryId /\ p.generation <= active_segment.generation
           /\ ~Choosing /\ ~Has({"select"})
<1>1. todo # <<>> /\ Has(Entry)
  <2>1. todo # <<>> /\ (At("put") \/ At("reserve"))
    BY DEF PutEntry, ReserveEntry, At
  <2>2. Pending = {Head(todo)} \cup Rest
    BY <2>1, BehindEntry
  <2>. QED  BY <2>1, <2>2 DEF Has, At, Entry, Sized
<1>2. Counted /\ ~Has(Booting) /\ state.newest_entry_id <= NewestHandedOut
  BY <1>1, EntryUnderway
<1>3. ~Choosing /\ ~Has({"select"})
  BY <1>2 DEF Counted, Choosing, Has, Booting, Recovering
<1>4. \A p \in Stored : p.id <= NewestHandedOut
  BY <1>2, StoredBelow DEF IdInv
<1>5. /\ NewestHandedOut \in Nat /\ NewEntryId \in Nat /\ NewestHandedOut < NewEntryId
      /\ active_segment.generation \in Nat
  <2>1. /\ state.boot_counter \in Nat /\ state.next_entry_sequence \in Nat
        /\ active_segment.generation \in Nat
    BY DEF TypeOK, MemoryTypeOK, StateRecord
  <2>2. state.next_entry_sequence + 1 \in Nat /\ state.next_entry_sequence < state.next_entry_sequence + 1
    BY <2>1
  <2>3. /\ NewestHandedOut = EntryId(state.boot_counter, state.next_entry_sequence)
        /\ NewEntryId = EntryId(state.boot_counter, state.next_entry_sequence + 1)
    BY DEF NewestHandedOut, NewEntryId
  <2>. QED  BY ONLY <2>1, <2>2, <2>3, EntryIdOrder
<1>6. \A p \in Stored : p.generation < state.next_generation
  BY <1>3 DEF GenerationInv, Chosen, Upcoming
<1>7. active_segment.generation = state.next_generation - 1 /\ state.next_generation \in Nat
  BY <1>3 DEF GenerationInv, Chosen, TypeOK, MemoryTypeOK, StateRecord
<1>. QED  BY <1>3, <1>4, <1>5, <1>6, <1>7, StoredType

\* Later generations keep holding later entries.
LEMMA NextOrder ==
    ASSUME TypeOK, ControlInv, IdInv, RotationInv, GenerationInv, OrderInv, [Next]_vars
    PROVE  OrderInv'
<1>1. CASE ~PutEntry /\ ~ReserveEntry
  BY <1>1, StoredKept DEF OrderInv
<1>2. CASE PutEntry \/ ReserveEntry
  <2>1. Stored' \subseteq Stored \cup {NewMark}
    BY <1>2, StoredKept
  <2>2. \A p \in Stored : p.id < NewEntryId /\ p.generation <= active_segment.generation
    BY <1>2, NewestMark
  <2>3. NewMark.id = NewEntryId /\ NewMark.generation = active_segment.generation
    BY DEF NewMark
  <2>4. active_segment.generation \in Nat /\ NewEntryId \in Nat
    BY NewEntryIdType DEF TypeOK, MemoryTypeOK
  <2>. SUFFICES ASSUME NEW p \in Stored', NEW q \in Stored', p.generation < q.generation
                PROVE  p.id < q.id
    BY DEF OrderInv
  <2>5. CASE p \in Stored /\ q \in Stored
    BY <2>5 DEF OrderInv
  <2>6. CASE p \in Stored /\ q = NewMark
    BY <2>2, <2>3, <2>6
  <2>7. CASE p = NewMark
    BY <2>1, <2>2, <2>3, <2>4, <2>7, StoredType
  <2>. QED  BY <2>1, <2>5, <2>6, <2>7
<1>. QED  BY <1>1, <1>2

-----------------------------------------------------------------------------
(* Greatest and least generations.                                         *)

\* Max and Min are bounds.
LEMMA MaxBound ==
    ASSUME NEW S \in SUBSET Nat, IsFiniteSet(S), S # {}
    PROVE  Max(S) \in S /\ \A y \in S : y <= Max(S)
<1>1. PICK x \in S : \A y \in S : y <= x
  BY GreatestNatural DEF HasGreatest
<1>2. \A y \in S : x >= y
  BY <1>1
<1>. QED  BY <1>2 DEF Max

\* The greater of two naturals.
LEMMA MaxOfPair ==
    ASSUME NEW a \in Nat, NEW b \in Nat, a <= b
    PROVE  Max({a, b}) = b
<1>1. IsFiniteSet({a} \cup {b})
  BY FS_Singleton, FS_Union
<1>2. {a, b} = {a} \cup {b} /\ {a, b} \in SUBSET Nat /\ {a, b} # {}
  OBVIOUS
<1>. DEFINE m == Max({a, b})
<1>3. m \in {a, b} /\ b <= m
  BY <1>1, <1>2, MaxBound
<1>. QED  BY <1>3

\* The highest generation among the headers of a slot.
LEMMA HeaderHighest ==
    ASSUME MediumTypeOK, NEW s \in Slots, HeaderReadable(s)
    PROVE  /\ HeaderGenerations(s) \in SUBSET Nat
           /\ HeaderGeneration(s) \in HeaderGenerations(s)
           /\ \A g \in HeaderGenerations(s) : g <= HeaderGeneration(s)
<1>. DEFINE S == HeaderGenerations(s)
<1>1. S \in SUBSET Nat
  BY DEF MediumTypeOK, HeaderGenerations
<1>2. IsFiniteSet({headers[s][0]} \cup {headers[s][1]})
  BY FS_Singleton, FS_Union
<1>3. S \in SUBSET ({headers[s][0]} \cup {headers[s][1]})
  BY DEF HeaderGenerations, Copies
<1>4. IsFiniteSet(S)
  BY <1>2, <1>3, FS_Subset
<1>5. S # {}
  BY DEF HeaderReadable
<1>. QED  BY <1>1, <1>4, <1>5, MaxBound DEF HeaderGeneration

\* The highest generation of the descriptors and the slot that has it.
LEMMA HighestBounds ==
    ASSUME NEW segs \in [Slots -> Descriptor]
    PROVE  /\ HighestGeneration(segs) \in Nat /\ HighestSlot(segs) \in Slots
           /\ \A s \in ValidSlots(segs) : segs[s].generation <= HighestGeneration(segs)
           /\ HighestGeneration(segs) # 0 =>
                 /\ HighestSlot(segs) \in ValidSlots(segs)
                 /\ segs[HighestSlot(segs)].generation = HighestGeneration(segs)
<1>. DEFINE generation == [s \in Slots |-> segs[s].generation]
            G == {generation[s] : s \in ValidSlots(segs)}
<1>1. ValidSlots(segs) \in SUBSET Slots
  BY DEF ValidSlots
<1>2. IsFiniteSet(G) /\ G \in SUBSET Nat
  <2>1. IsFiniteSet(ValidSlots(segs))
    BY <1>1, SlotsFinite
  <2>2. IsFiniteSet(G)
    <3>. HIDE DEF generation
    <3>. QED  BY <2>1, FiniteImage
  <2>3. G \in SUBSET Nat
    BY <1>1 DEF Descriptor
  <2>. QED  BY <2>2, <2>3
<1>3. G = {segs[s].generation : s \in ValidSlots(segs)}
  BY <1>1
<1>4. IsFiniteSet({0} \cup G) /\ {0} \cup G \in SUBSET Nat /\ {0} \cup G # {}
  <2>1. IsFiniteSet({0})
    BY FS_Singleton
  <2>. HIDE DEF G
  <2>2. IsFiniteSet({0} \cup G)
    BY <1>2, <2>1, FS_Union
  <2>. QED  BY <1>2, <2>2
<1>5. HighestGeneration(segs) = Max({0} \cup G)
  BY <1>3 DEF HighestGeneration
<1>6. HighestGeneration(segs) \in {0} \cup G /\ \A g \in {0} \cup G : g <= HighestGeneration(segs)
  <2>. HIDE DEF G
  <2>. QED  BY <1>4, <1>5, MaxBound
<1>7. \A s \in ValidSlots(segs) : segs[s].generation <= HighestGeneration(segs)
  BY <1>1, <1>6
<1>8. ASSUME HighestGeneration(segs) # 0
      PROVE  /\ HighestSlot(segs) \in ValidSlots(segs)
             /\ segs[HighestSlot(segs)].generation = HighestGeneration(segs)
  <2>1. \E s \in ValidSlots(segs) : segs[s].generation = HighestGeneration(segs)
    BY <1>1, <1>6, <1>8
  <2>. QED  BY <1>8, <2>1 DEF HighestSlot
<1>. QED  BY <1>7, <1>8, HighestType

\* Bounds on all generations bound the highest and the oldest.
LEMMA HighestBelow ==
    ASSUME NEW segs \in [Slots -> Descriptor], NEW n \in Nat \ {0},
           \A s \in ValidSlots(segs) : segs[s].generation < n
    PROVE  HighestGeneration(segs) < n
  BY HighestBounds

\* The oldest generation is below any bound on them all.
LEMMA OldestBelow ==
    ASSUME NEW segs \in [Slots -> Descriptor], NEW n \in Nat \ {0},
           \A s \in ValidSlots(segs) : segs[s].generation < n
    PROVE  OldestGeneration(segs) \in Nat /\ OldestGeneration(segs) < n
<1>. DEFINE G == {segs[s].generation : s \in ValidSlots(segs)}
<1>1. G \in SUBSET Nat /\ \A g \in G : g < n
  BY DEF ValidSlots, Descriptor
<1>2. CASE ValidSlots(segs) = {}
  BY <1>2 DEF OldestGeneration
<1>3. CASE ValidSlots(segs) # {}
  <2>1. G # {}
    BY <1>3
  <2>2. Min(G) \in G
    BY <1>1, <2>1, MinType
  <2>3. Min(G) \in Nat /\ Min(G) < n
    BY <1>1, <2>2
  <2>. QED  BY <1>3, <2>3 DEF OldestGeneration
<1>. QED  BY <1>2, <1>3

\* The descriptors keep validity and generation.
SameGenerations ==
    \A s \in Slots : /\ segments'[s].valid = segments[s].valid
                     /\ segments'[s].generation = segments[s].generation

\* Then the summaries stay the same.
LEMMA SameSummaries ==
    ASSUME TypeOK, SameGenerations
    PROVE  /\ ValidSlots(segments)' = ValidSlots(segments)
           /\ \A s \in ValidSlots(segments) : s \in Slots /\ segments'[s].generation = segments[s].generation
           /\ HighestGeneration(segments)' = HighestGeneration(segments)
<1>1. ValidSlots(segments)' = ValidSlots(segments)
  BY DEF SameGenerations, ValidSlots
<1>2. \A s \in ValidSlots(segments) : s \in Slots /\ segments'[s].generation = segments[s].generation
  BY DEF SameGenerations, ValidSlots
<1>3. {segments'[s].generation : s \in ValidSlots(segments)}
          = {segments[s].generation : s \in ValidSlots(segments)}
  BY <1>2
<1>. QED  BY <1>1, <1>2, <1>3 DEF HighestGeneration

\* A scan makes a descriptor of the generation it looks for.
IsScan(d, s, g) == d = Scan(s, g, TRUE) \/ d = Scan(s, g, FALSE)

\* A scan finds the generation it looks for.
LEMMA ScanGeneration ==
    ASSUME NEW s, NEW g, NEW d, IsScan(d, s, g)
    PROVE  d.valid = TRUE /\ d.generation = g
<1>1. CASE ScannedEntries(s, g) = {}
  BY <1>1 DEF IsScan, Scan, FreshSegment, NoSegment
<1>2. CASE ScannedEntries(s, g) # {}
  BY <1>2 DEF IsScan, Scan
<1>. QED  BY <1>1, <1>2

-----------------------------------------------------------------------------
(* What is upcoming stays so.                                              *)

\* Headers and checkpoint change in a write only.
LEMMA MediumWritten ==
    ASSUME [Next]_vars
    PROVE  UNCHANGED <<headers, checkpoint>> \/ \E o \in Outcomes : Write(o)
<1>1. CASE WriteDone \/ WriteError \/ Crash
  BY <1>1 DEF WriteDone, WriteError, Crash, Outcomes, medium
<1>2. CASE Step /\ ~WriteDone
  BY <1>2 DEF Step, NoWriter, OpenWriter, CloseWriter, Flush, Flushed, PrepareSpace, NoEntry,
              PutEntry, ReserveEntry, AccountEntry, Acknowledge, Sealed, OpenNext, Retire, Activate,
              Recover, PickHighest, SealRecovered, SelectActive, Settle, CountBoot,
              AppendBoot, Ready, Close, medium
<1>3. CASE OpenWriterError \/ StartInit \/ AppendEntry \/ FlushWrite \/ Deinit \/ RotIndex \/ RotData
           \/ UNCHANGED vars
  BY <1>3 DEF OpenWriterError, StartInit, AppendEntry, FlushWrite, Deinit, RotIndex, RotData, vars, medium
<1>. QED  BY <1>1, <1>2, <1>3 DEF Next

\* The slot of the next generation is the next slot.
LEMMA NextHome ==
    ASSUME TypeOK, GenerationInv, ~Choosing
    PROVE  /\ state.next_generation \in Nat /\ state.next_generation >= 2
           /\ NextSlot = Home(state.next_generation)
           /\ Home(state.next_generation) # Home(state.next_generation - 1)
<1>1. /\ state.next_generation \in Nat /\ state.next_generation >= 2
      /\ state.active_slot = Home(state.next_generation - 1)
  BY DEF GenerationInv, Chosen, Upcoming
<1>2. PICK g \in Nat \ {0} : g = state.next_generation - 1 /\ state.next_generation = g + 1
  <2>1. state.next_generation - 1 \in Nat \ {0} /\ state.next_generation = (state.next_generation - 1) + 1
    BY <1>1
  <2>. QED  BY <2>1
<1>3. Home(g + 1) = (Home(g) + 1) % SegmentCount /\ Home(g + 1) # Home(g)
  BY HomeNext
<1>. QED  BY <1>1, <1>2, <1>3 DEF NextSlot

\* A header is written into the next slot, once the generation is chosen.
LEMMA HeaderUnderway ==
    ASSUME TypeOK, ControlInv, RotationInv, At("header")
    PROVE  ~Choosing /\ ~Has({"select"}) /\ writer_fd \in {NextSlot, NoFd}
<1>1. todo # <<>> /\ Pending = {Head(todo)} \cup Rest /\ Head(todo)[1] = "header"
  BY BehindEntry DEF At
<1>2. Has({"header"}) /\ ~Has({"open_writer"})
  <2>1. \A y \in Rest : y[1] # "open_writer"
    BY <1>1, BehindStep
  <2>. QED  BY <1>1, <2>1 DEF Has
<1>3. mode # "off"
  BY <1>1 DEF ControlInv
<1>4. ~Has({"select"})
  BY <1>2 DEF RotationInv, Has
<1>5. ~Has({"highest"})
  BY <1>4 DEF RotationInv, Has
<1>. QED  BY <1>2, <1>3, <1>4, <1>5 DEF RotationInv, Choosing

\* The only header that changes is that of the slot whose turn it is.
LEMMA HeadersWritten ==
    ASSUME TypeOK, ControlInv, RotationInv, [Next]_vars
    PROVE  \/ headers' = headers
           \/ /\ At("header")
              /\ \A s \in Slots : s # NextSlot =>
                    headers'[s] = headers[s] /\ HeaderGenerations(s)' = HeaderGenerations(s)
              /\ \A s \in Slots : s = NextSlot =>
                    HeaderGenerations(s)' \subseteq HeaderGenerations(s) \cup {state.next_generation}
<1>1. CASE UNCHANGED <<headers, checkpoint>>
  BY <1>1
<1>2. ASSUME NEW o \in Outcomes, Write(o), ~At("header")
      PROVE  headers' = headers
  BY <1>2 DEF Write, WriterWrite, WriteBuffer, WriteEntry, WriteIndex, WriteFooter, WriteHeader, Commit
<1>3. ASSUME NEW o \in Outcomes, Write(o), At("header")
      PROVE  /\ \A s \in Slots : s # NextSlot =>
                   headers'[s] = headers[s] /\ HeaderGenerations(s)' = HeaderGenerations(s)
             /\ \A s \in Slots : s = NextSlot =>
                   HeaderGenerations(s)' \subseteq HeaderGenerations(s) \cup {state.next_generation}
  <2>1. WriteHeader(o) /\ writer_fd # NoFd
    BY <1>3 DEF Write, WriterWrite, WriteBuffer, WriteEntry, WriteIndex, WriteFooter, Commit, At
  <2>2. writer_fd = NextSlot /\ NextSlot \in Slots
    BY <1>3, <2>1, HeaderUnderway, NextSlotType DEF TypeOK
  <2>3. headers' = [headers EXCEPT ![NextSlot][Arg] =
                       Land(headers[NextSlot][Arg], state.next_generation, o)]
    BY <2>1, <2>2 DEF WriteHeader
  <2>4. headers \in [Slots -> [Copies -> Nat \cup {Garbage}]]
    BY DEF TypeOK, MediumTypeOK
  <2>5. \A s \in Slots : s # NextSlot => headers'[s] = headers[s]
    BY <2>3, <2>4
  <2>6. \A c \in Copies : headers'[NextSlot][c] \in {headers[NextSlot][c], Garbage, state.next_generation}
    <3>1. Land(headers[NextSlot][Arg], state.next_generation, o)
              \in {headers[NextSlot][Arg], Garbage, state.next_generation}
      BY DEF Land, Outcomes
    <3>. QED  BY <2>2, <2>3, <2>4, <3>1
  <2>. QED  BY <2>5, <2>6 DEF HeaderGenerations
<1>. QED  BY <1>1, <1>2, <1>3, MediumWritten

\* The checkpoint changes in a commit only.
LEMMA CheckpointWritten ==
    ASSUME [Next]_vars
    PROVE  checkpoint' = checkpoint \/ (At("commit") /\ checkpoint' = state)
<1>1. ASSUME NEW o \in Outcomes, Write(o)
      PROVE  checkpoint' = checkpoint \/ (At("commit") /\ checkpoint' = state)
  BY <1>1 DEF Write, WriterWrite, WriteBuffer, WriteEntry, WriteIndex, WriteFooter, WriteHeader, Commit
<1>. QED  BY <1>1, MediumWritten

\* A generation that is upcoming stays so: the next one when it is chosen, and any
\* while it is being chosen.
LEMMA UpcomingKept ==
    ASSUME TypeOK, ControlInv, IdInv, RotationInv, GenerationInv, [Next]_vars,
           NEW n, Upcoming(n), ~Choosing => n = state.next_generation
    PROVE  Upcoming(n)'
<1>1. n \in Nat /\ n >= 2
  BY DEF Upcoming
<1>2. PICK h \in Slots : h = Home(n - 1)
  BY <1>1, HomeType
<1>3. HeadersUpTo(n)'
  <2>1. CASE headers' = headers
    BY <2>1 DEF Upcoming, HeadersUpTo, HeaderGenerations
  <2>2. CASE headers' # headers
    <3>1. /\ At("header")
          /\ \A s \in Slots : s # NextSlot => HeaderGenerations(s)' = HeaderGenerations(s)
          /\ \A s \in Slots : s = NextSlot =>
                HeaderGenerations(s)' \subseteq HeaderGenerations(s) \cup {state.next_generation}
      BY <2>2, HeadersWritten
    <3>2. n = state.next_generation /\ NextSlot = Home(n) /\ Home(n) # h
      BY <1>2, <3>1, HeaderUnderway, NextHome
    <3>3. ASSUME NEW s \in Slots, NEW g \in HeaderGenerations(s)'
          PROVE  g = 0 \/ (g <= n /\ Home(g) = s)
      <4>1. g \in HeaderGenerations(s) \/ (g = n /\ s = Home(n))
        BY <3>1, <3>2, <3>3
      <4>. QED  BY <1>1, <4>1 DEF Upcoming, HeadersUpTo
    <3>4. n - 1 \in HeaderGenerations(h)'
      BY <1>2, <3>1, <3>2 DEF Upcoming, HeadersUpTo
    <3>. QED  BY <1>2, <3>3, <3>4 DEF HeadersUpTo
  <2>. QED  BY <2>1, <2>2
<1>4. CheckpointUpTo(n)'
  <2>1. CASE checkpoint' = checkpoint
    BY <2>1 DEF Upcoming, CheckpointUpTo
  <2>2. CASE At("commit") /\ checkpoint' = state
    <3>1. CASE ~Choosing
      <4>1. state.next_generation <= n /\ state.oldest_generation < n
        BY <1>1, <3>1 DEF GenerationInv, Chosen
      <4>. QED  BY <2>2, <4>1 DEF CheckpointUpTo
    <3>2. CASE Choosing
      <4>1. mode # "off"
        BY <2>2 DEF At, ControlInv
      <4>2. /\ state.next_generation = checkpoint.next_generation
            /\ state.oldest_generation = checkpoint.oldest_generation
        BY <3>2, <4>1 DEF Choosing, GenerationInv
      <4>. QED  BY <2>2, <4>2 DEF Upcoming, CheckpointUpTo
    <3>. QED  BY <3>1, <3>2
  <2>. QED  BY <2>1, <2>2, CheckpointWritten
<1>5. \A p \in Stored' : p.generation < n
  <2>1. CASE PutEntry \/ ReserveEntry
    <3>1. ~Choosing /\ ~Has({"select"})
      BY <2>1, NewestMark
    <3>2. NewMark.generation < n
      BY <1>1, <3>1 DEF NewMark, GenerationInv, Chosen
    <3>3. Stored' \subseteq Stored \cup {NewMark}
      BY <2>1, StoredKept
    <3>. QED  BY <3>2, <3>3 DEF Upcoming
  <2>2. CASE ~PutEntry /\ ~ReserveEntry
    BY <2>2, StoredKept DEF Upcoming
  <2>. QED  BY <2>1, <2>2
<1>. QED  BY <1>1, <1>3, <1>4, <1>5 DEF Upcoming

-----------------------------------------------------------------------------
(* Choosing the generation.                                                *)

\* Only init() has steps of the boot sequence, and they leave one by one; a header and an
\* activation come with the retirement before them.
Calm == Machinery \ {"activate", "header"}
Continues ==
    /\ todo # <<>>
    /\ Rest \subseteq Pending'
    /\ \A x \in Pending' :
          \/ x \in Rest \/ x[1] \in Calm
          \/ x[1] \in {"activate", "header"} /\ Has({"header"})' /\ Has({"retire"})'

\* What a step leaves to do.
LEMMA NextPending ==
    ASSUME TypeOK, ControlInv, [Next]_vars, ~StartInit
    PROVE  \/ Pending' = {} /\ (mode = "init" => mode' = "off" \/ At("ready"))
           \/ Continues
           \/ UNCHANGED todo /\ (mode = "off" \/ UNCHANGED vars)
           \/ Idle /\ \A x \in Pending' : x[1] \in Calm
<1>1. ASSUME NEW new, NEW M \in SUBSET Calm, todo # <<>>, Pending' = new \cup Rest,
             \A x \in new : x[1] \in M
      PROVE  Continues
  BY <1>1 DEF Continues
<1>2. ASSUME Pending' = Rest, todo # <<>> PROVE Continues
  BY <1>2 DEF Continues
<1>3. Fail => Pending' = {} /\ (mode = "init" => mode' = "off")
  BY FailControl DEF Fail, Reset
<1>4. /\ FlushNames \in SUBSET Calm /\ RotateNames \in SUBSET Calm
      /\ ResealNames \in SUBSET Calm /\ AppendNames \in SUBSET Calm
      /\ {"open_writer"} \in SUBSET Calm /\ {"open_next"} \in SUBSET Calm /\ {"commit"} \in SUBSET Calm
      /\ {"flush"} \in SUBSET Calm /\ {"flush", "close"} \in SUBSET Calm
  <2>1. \A n \in FlushNames \cup RotateNames \cup ResealNames \cup AppendNames
             \cup {"open_writer", "open_next", "commit", "flush", "close"} : n \notin {"activate", "header"}
    BY DEF FlushNames, RotateNames, ResealNames, AppendNames, SealNames, DirectNames
  <2>2. \A M \in SUBSET Machinery : (\A n \in M : n \notin {"activate", "header"}) => M \in SUBSET Calm
    BY DEF Calm
  <2>3. FlushNames \in SUBSET Calm /\ RotateNames \in SUBSET Calm
    BY ONLY <2>1, <2>2, MachineryType DEF MachineryNames
  <2>4. ResealNames \in SUBSET Calm /\ AppendNames \in SUBSET Calm
    BY ONLY <2>1, <2>2, MachineryType DEF MachineryNames
  <2>5. {"open_writer"} \in SUBSET Calm /\ {"open_next"} \in SUBSET Calm /\ {"commit"} \in SUBSET Calm
    BY ONLY <2>1, <2>2, MachineryType DEF MachineryNames
  <2>6. {"flush"} \in SUBSET Calm /\ {"flush", "close"} \in SUBSET Calm
    BY ONLY <2>1, <2>2, MachineryType DEF MachineryNames
  <2>. QED  BY ONLY <2>3, <2>4, <2>5, <2>6
<1>5. CASE Moves
  BY <1>2, <1>5, MovesControl
<1>6. CASE Flush
  <2>1. \A x \in StepsOf(FlushSteps) : x[1] \in FlushNames
    BY CallNames
  <2>2. CASE write_buf = <<>>
    BY <1>2, <1>6, <2>2, FlushControl
  <2>3. CASE write_buf # <<>>
    BY <1>1, <1>4, <1>6, <2>1, <2>3, FlushControl
  <2>. QED  BY <2>2, <2>3
<1>7. CASE PrepareSpace
  <2>1. \A x \in StepsOf(SealSteps \o <<Do("open_next")>>) : x[1] \in RotateNames
    BY CallNames
  <2>2. CASE HasSpace(Arg)
    BY <1>2, <1>7, <2>2, PrepareControl
  <2>3. CASE ~HasSpace(Arg)
    BY <1>1, <1>4, <1>7, <2>1, <2>3, PrepareControl
  <2>. QED  BY <2>2, <2>3
<1>8. CASE Retire
  <2>1. \A x \in StepsOf(RetireSteps) : x[1] \in {"commit"}
    BY CallNames
  <2>. QED  BY <1>1, <1>2, <1>4, <1>8, <2>1, RetireControl
<1>9. CASE OpenNext
  <2>1. CASE Fail
    BY <1>3, <2>1
  <2>2. CASE ~Fail
    <3>1. Pending' = StepsOf(OpenNextSteps) \cup Rest /\ todo # <<>>
      BY <1>9, <2>2, OpenNextControl
    <3>2. \A x \in StepsOf(OpenNextSteps) : x[1] \in OpenNextNames
      BY OpenNextSet DEF OpenNextNames
    <3>3. \A x \in StepsOf(OpenNextSteps) : x[1] \in Calm \cup {"activate", "header"}
      BY <3>2, MachineryType DEF MachineryNames, Calm
    <3>4. Has({"header"})' /\ Has({"retire"})'
      <4>1. <<"header", 0>> \in Pending' /\ <<"header", 0>>[1] = "header"
        BY <3>1, OpenNextSet
      <4>2. <<"retire", NextSlot>> \in Pending' /\ <<"retire", NextSlot>>[1] = "retire"
        BY <3>1, OpenNextSet
      <4>. QED  BY <4>1, <4>2 DEF Has
    <3>. QED  BY <3>1, <3>3, <3>4 DEF Continues
  <2>. QED  BY <2>1, <2>2
<1>10. CASE Recover \/ SealRecovered
  <2>1. \/ Fail
        \/ todo # <<>> /\ Pending' = Rest
        \/ todo # <<>> /\ Arg \in Slots /\ Pending' = StepsOf(ResealSteps(Arg)) \cup Rest
    BY <1>10, RecoverControl, SealRecoveredControl
  <2>2. Arg \in Slots => \A x \in StepsOf(ResealSteps(Arg)) : x[1] \in ResealNames
    BY CallNames
  <2>. QED  BY <1>1, <1>2, <1>3, <1>4, <2>1, <2>2
<1>11. CASE SelectActive
  <2>. DEFINE s == HighestSlot(segments)
  <2>1. \/ Fail
        \/ todo # <<>> /\ s \in Slots /\ Pending' = StepsOf(<<<<"open_writer", s>>>>) \cup Rest
        \/ todo # <<>> /\ Pending' = StepsOf(<<Do("open_next")>>) \cup Rest
    BY <1>11, SelectControl
  <2>. HIDE DEF s
  <2>2. /\ s \in Slots => \A x \in StepsOf(<<<<"open_writer", s>>>>) : x[1] \in {"open_writer"}
        /\ \A x \in StepsOf(<<Do("open_next")>>) : x[1] \in {"open_next"}
    BY CallNames DEF Do
  <2>. QED  BY <1>1, <1>3, <1>4, <2>1, <2>2
<1>12. CASE PickHighest \/ CountBoot
  BY <1>2, <1>3, <1>12, SetStateControl
<1>13. CASE AppendBoot
  <2>1. \A x \in StepsOf(AppendSteps(BootEntrySize, TRUE)) : x[1] \in AppendNames
    BY BootEntryAssumption, AppendList DEF IsList
  <2>. QED  BY <1>1, <1>4, <1>13, <2>1, AppendBootControl
<1>14. CASE Ready
  BY <1>14, ReadyControl DEF Ready
<1>15. CASE Close \/ Crash \/ OpenWriterError
  <2>1. todo' = <<>> /\ (mode = "init" => mode' = "off")
    BY <1>15 DEF Close, Crash, OpenWriterError, Reset
  <2>. QED  BY <2>1, EmptyControl
<1>16. CASE NoWriter \/ NoEntry \/ WriteError
  BY <1>3, <1>16 DEF NoWriter, NoEntry, WriteError
<1>17. CASE RotIndex \/ RotData \/ UNCHANGED vars
  BY <1>17 DEF RotIndex, RotData, vars, control
<1>18. CASE AppendEntry \/ FlushWrite \/ Deinit
  <2>1. Idle
    BY <1>18 DEF AppendEntry, FlushWrite, Deinit
  <2>2. CASE AppendEntry
    <3>1. PICK n \in EntrySizes, force_flush \in BOOLEAN : todo' = AppendSteps(n, force_flush)
      BY <2>2 DEF AppendEntry
    <3>2. n \in 1 .. Capacity /\ Pending' = StepsOf(AppendSteps(n, force_flush))
      BY <3>1, EntrySizesAssumption DEF Pending
    <3>3. \A x \in Pending' : x[1] \in AppendNames
      BY <3>2, AppendList DEF IsList
    <3>. QED  BY <1>4, <2>1, <3>3
  <2>3. CASE FlushWrite
    <3>1. \A x \in Pending' : x[1] \in {"flush"}
      BY <2>3 DEF FlushWrite, Pending, StepsOf, Do
    <3>. QED  BY <1>4, <2>1, <3>1
  <2>4. CASE Deinit
    <3>1. \A x \in Pending' : x[1] \in {"flush", "close"}
      BY <2>4, LongLists DEF Deinit, IsList, Pending
    <3>. QED  BY <1>4, <2>1, <3>1
  <2>. QED  BY <1>18, <2>2, <2>3, <2>4
<1>. QED  BY <1>5, <1>6, <1>7, <1>8, <1>9, <1>10, <1>11, <1>12, <1>13, <1>14, <1>15, <1>16, <1>17,
             <1>18 DEF Next, Step, Moves

\* The steps of the boot sequence that are left.
LEMMA BootPart ==
    ASSUME TypeOK, ControlInv, [Next]_vars, ~StartInit
    PROVE  \A x \in Pending' : x[1] \in Booting =>
               /\ x \in Pending
               /\ \/ todo # <<>> /\ Rest \subseteq Pending' /\ x \in Rest
                  \/ UNCHANGED vars
<1>1. (\A n \in Calm : n \notin Booting) /\ "activate" \notin Booting /\ "header" \notin Booting
  BY DEF Machinery, Calm, Booting, Recovering
<1>2. mode = "off" => Pending = {}
  BY DEF ControlInv, Pending, StepsOf
<1>3. UNCHANGED todo => Pending' = Pending
  BY DEF Pending
<1>4. todo # <<>> => Pending = {Head(todo)} \cup Rest
  BY BehindEntry
<1>. QED  BY <1>1, <1>2, <1>3, <1>4, NextPending DEF Continues


\* A step with one outcome is taken, or the power is lost.
LEMMA HeadStep ==
    ASSUME TypeOK, ControlInv, [Next]_vars, mode' # "off", ~UNCHANGED vars
    PROVE  /\ At("recover") => Recover
           /\ At("highest") => PickHighest
           /\ At("seal_recovered") => SealRecovered
           /\ At("select") => SelectActive
           /\ At("settle") => Settle
           /\ At("retire") => Retire
           /\ At("activate") => Activate
<1>. DEFINE single == {"recover", "highest", "seal_recovered", "select", "settle", "retire", "activate"}
<1>. SUFFICES ASSUME todo # <<>>, Head(todo)[1] \in single PROVE
              Recover \/ PickHighest \/ SealRecovered \/ SelectActive \/ Settle \/ Retire \/ Activate
  BY DEF At, Recover, PickHighest, SealRecovered, SelectActive, Settle, Retire, Activate
<1>1. CASE Step
  <2>1. ~WriteDone /\ ~NoWriter
    BY DEF WriteDone, Write, WriterWrite, WriteBuffer, WriteEntry, WriteIndex, WriteFooter,
           WriteHeader, Commit, NoWriter, WriterStep, At
  <2>2. /\ ~OpenWriter /\ ~CloseWriter /\ ~Flush /\ ~Flushed /\ ~PrepareSpace /\ ~NoEntry
        /\ ~PutEntry /\ ~ReserveEntry /\ ~AccountEntry /\ ~Acknowledge
    BY DEF OpenWriter, CloseWriter, Flush, Flushed, PrepareSpace, NoEntry, PutEntry, ReserveEntry,
           AccountEntry, Acknowledge, At
  <2>3. /\ ~Sealed /\ ~OpenNext /\ ~CountBoot /\ ~AppendBoot /\ ~Ready /\ ~Close
    BY DEF Sealed, OpenNext, CountBoot, AppendBoot, Ready, Close, At
  <2>. QED  BY <1>1, <2>1, <2>2, <2>3 DEF Step
<1>2. ~WriteError /\ ~OpenWriterError
  BY DEF WriteError, OpenWriterError, Write, WriterWrite, WriteBuffer, WriteEntry, WriteIndex,
         WriteFooter, WriteHeader, Commit, At
<1>3. ~(StartInit \/ AppendEntry \/ FlushWrite \/ Deinit \/ RotIndex \/ RotData \/ Crash)
  BY DEF StartInit, AppendEntry, FlushWrite, Deinit, Idle, RotIndex, RotData, Crash, Reset, ControlInv,
         control
<1>. QED  BY <1>1, <1>2, <1>3 DEF Next

\* The choice itself.
LEMMA HighestPicked ==
    ASSUME TypeOK, ControlInv, [Next]_vars, At("highest"), mode' # "off", ~UNCHANGED vars
    PROVE  PickHighest /\ ~Fail
<1>1. Has({"highest"}) /\ mode = "init"
  <2>1. todo # <<>> /\ Pending = {Head(todo)} \cup Rest
    BY BehindEntry DEF At
  <2>2. Has({"highest"}) /\ Has(Booting \cup {"ready"})
    BY <2>1 DEF Has, At, Booting, Recovering
  <2>. QED  BY <2>1, <2>2 DEF ControlInv
<1>2. ~Fail
  BY <1>1 DEF Fail, Reset
<1>. QED  BY <1>2, HeadStep

\* A closed store only starts init() or rots.
LEMMA ClosedSteps ==
    ASSUME TypeOK, ControlInv, [Next]_vars, mode = "off"
    PROVE  StartInit \/ mode' = "off"
<1>1. todo = <<>>
  BY DEF ControlInv
<1>2. ~Step /\ ~WriteError /\ ~OpenWriterError
  BY <1>1 DEF Step, WriteDone, WriteError, Write, WriterWrite, WriteBuffer, WriteEntry, WriteIndex,
              WriteFooter, WriteHeader, Commit, NoWriter, WriterStep, OpenWriter, OpenWriterError,
              CloseWriter, Flush, Flushed, PrepareSpace, NoEntry, PutEntry, ReserveEntry, AccountEntry,
              Acknowledge, Sealed, OpenNext, Retire, Activate, Recover, PickHighest, SealRecovered,
              SelectActive, Settle, CountBoot, AppendBoot, Ready, Close, At
<1>. QED  BY <1>2 DEF Next, AppendEntry, FlushWrite, Deinit, Idle, RotIndex, RotData, Crash, control, vars

\* Only the choice ends the choosing.
LEMMA ChoosingEnds ==
    ASSUME TypeOK, ControlInv, [Next]_vars, Choosing, ~Choosing'
    PROVE  PickHighest /\ ~Fail
<1>1. CASE mode = "off"
  <2>1. StartInit
    BY <1>1, ClosedSteps DEF Choosing
  <2>2. Do("highest") \in Pending'
    BY <2>1, InitHas DEF StartInit, Pending
  <2>. QED  BY <2>2 DEF Choosing, Has, Do
<1>2. CASE mode # "off"
  <2>1. Has({"highest"}) /\ ~Has({"highest"})' /\ mode' # "off" /\ ~UNCHANGED vars
    <3>1. UNCHANGED vars => (Choosing' <=> Choosing)
      BY DEF vars, control, Choosing, Has, Pending
    <3>. QED  BY <1>2, <3>1 DEF Choosing
  <2>2. mode = "init" /\ Has({"count_boot"}) /\ ~StartInit /\ ~Idle
    BY <1>2, <2>1 DEF ControlInv, Has, Booting, Recovering, StartInit, Idle
  <2>3. todo # <<>> /\ Pending = {Head(todo)} \cup Rest
    <3>1. todo # <<>>
      BY <2>1 DEF Has, Pending, StepsOf
    <3>. QED  BY <3>1, BehindEntry
  <2>4. ~At("ready")
    <3>1. Head(todo)[1] = "ready" => Rest = {}
      BY <2>3, BehindBoot DEF At, TypeOK, ControlInv
    <3>. QED  BY <2>1, <2>3, <3>1 DEF Has, At
  <2>5. Continues
    BY <2>1, <2>2, <2>4, NextPending DEF Has
  <2>6. At("highest")
    BY <2>1, <2>3, <2>5 DEF Continues, Has, At
  <2>. QED  BY <2>1, <2>6, HighestPicked
<1>. QED  BY <1>1, <1>2

\* A step that does not change the numbers of the state.
LEMMA NumbersKept ==
    ASSUME TypeOK, [Next]_vars, mode # "off", mode' # "off",
           ~At("activate"), ~At("retire"), ~At("highest"), ~At("select"), ~At("settle")
    PROVE  UNCHANGED <<state.next_generation, state.active_slot, state.oldest_generation>>
<1>. USE DEF TypeOK, MemoryTypeOK
<1>1. Fail => state' = state
  BY DEF Fail, Reset, memory
<1>2. CASE WriteDone \/ OpenWriter \/ CloseWriter \/ Flush \/ Flushed \/ PrepareSpace \/ AccountEntry
           \/ Acknowledge \/ Sealed \/ AppendBoot \/ Ready \/ AppendEntry \/ FlushWrite \/ Deinit
           \/ UNCHANGED vars
  BY <1>2 DEF WriteDone, OpenWriter, CloseWriter, Flush, Flushed, PrepareSpace, AccountEntry,
              Acknowledge, Sealed, AppendBoot, Ready, AppendEntry, FlushWrite, Deinit, vars, memory
<1>3. CASE PutEntry \/ ReserveEntry
  BY <1>3 DEF PutEntry, ReserveEntry, MadeEntry, StateRecord
<1>4. CASE CountBoot
  BY <1>1, <1>4 DEF CountBoot, SetState, StateRecord
<1>5. CASE NoWriter \/ NoEntry \/ WriteError
  BY <1>1, <1>5 DEF NoWriter, NoEntry, WriteError
<1>6. CASE OpenWriterError
  BY <1>6 DEF OpenWriterError, Reset
<1>7. CASE OpenNext
  BY <1>1, <1>7 DEF OpenNext, memory
<1>8. CASE Recover \/ SealRecovered
  BY <1>1, <1>8 DEF Recover, SealRecovered, SetDescriptor, Repair, Adopt, Skip, memory
<1>9. CASE Activate \/ Retire \/ PickHighest \/ SelectActive \/ Settle
  BY <1>9 DEF Activate, Retire, PickHighest, SelectActive, Settle
<1>10. CASE StartInit \/ RotIndex \/ RotData \/ Crash \/ Close
  BY <1>10 DEF StartInit, RotIndex, RotData, Crash, Close, Reset
<1>. QED  BY <1>2, <1>3, <1>4, <1>5, <1>6, <1>7, <1>8, <1>9, <1>10 DEF Next, Step

\* A step that keeps the generations of the descriptors.
LEMMA DescriptorsKept ==
    ASSUME TypeOK, [Next]_vars, mode' # "off",
           ~At("activate"), ~At("retire"), ~At("recover"), ~At("seal_recovered"), ~At("select")
    PROVE  SameGenerations
<1>. USE DEF TypeOK, MemoryTypeOK
<1>1. segments' = segments => SameGenerations
  BY DEF SameGenerations
<1>2. Fail => segments' = segments
  BY DEF Fail, Reset, memory
<1>3. CASE WriteDone \/ OpenWriter \/ CloseWriter \/ Flush \/ Flushed \/ PrepareSpace
           \/ Acknowledge \/ AppendBoot \/ Ready \/ AppendEntry \/ FlushWrite \/ Deinit
           \/ ReserveEntry \/ StartInit \/ UNCHANGED vars
  BY <1>1, <1>3 DEF WriteDone, OpenWriter, CloseWriter, Flush, Flushed, PrepareSpace, ReserveEntry,
              Acknowledge, AppendBoot, Ready, AppendEntry, FlushWrite, Deinit, StartInit, vars, memory
<1>4. CASE PickHighest \/ Settle \/ CountBoot \/ OpenNext \/ NoWriter \/ NoEntry \/ WriteError
  BY <1>1, <1>2, <1>4 DEF PickHighest, Settle, CountBoot, SetState, OpenNext, NoWriter, NoEntry, WriteError,
                     memory
<1>5. CASE PutEntry \/ AccountEntry
  <2>1. \E id, n : Account(id, n)
    BY <1>5 DEF PutEntry, AccountEntry
  <2>2. PICK id, n : Account(id, n)
    BY <2>1
  <2>3. PICK first, last, count, end, indexed :
            segments' = [segments EXCEPT ![active_segment.slot] =
                            [segments[active_segment.slot] EXCEPT
                                !.first_entry_id = first, !.last_entry_id = last, !.entry_count = count,
                                !.data_end = end, !.index_count = indexed]]
    BY <2>2 DEF Account
  <2>4. \A s \in Slots : segments[s] \in Descriptor
    OBVIOUS
  <2>. QED  BY <2>3, <2>4 DEF SameGenerations, Descriptor
<1>6. CASE Sealed
  BY <1>6 DEF Sealed, SameGenerations, Descriptor
<1>7. CASE OpenWriterError \/ Close \/ Crash \/ RotIndex \/ RotData
  BY <1>1, <1>7 DEF OpenWriterError, Close, Crash, RotIndex, RotData, Reset, memory
<1>8. CASE Activate \/ Retire \/ Recover \/ SealRecovered \/ SelectActive
  BY <1>8 DEF Activate, Retire, Recover, SealRecovered, SelectActive
<1>. QED  BY <1>3, <1>4, <1>5, <1>6, <1>7, <1>8 DEF Next, Step

\* A step that keeps the active segment.
LEMMA ActiveKept ==
    ASSUME TypeOK, [Next]_vars, mode' # "off",
           ~At("activate"), ~At("recover"), ~At("seal_recovered"), ~At("select")
    PROVE  active_segment' = active_segment
<1>1. Fail => active_segment' = active_segment
  BY DEF Fail, Reset, memory
<1>2. CASE WriteDone \/ OpenWriter \/ CloseWriter \/ Flush \/ Flushed \/ PrepareSpace \/ Sealed
           \/ Acknowledge \/ AppendBoot \/ Ready \/ AppendEntry \/ FlushWrite \/ Deinit
           \/ PutEntry \/ ReserveEntry \/ AccountEntry \/ StartInit \/ Retire \/ UNCHANGED vars
  BY <1>2 DEF WriteDone, OpenWriter, CloseWriter, Flush, Flushed, PrepareSpace, PutEntry, ReserveEntry,
              AccountEntry, Sealed, Retire,
              Acknowledge, AppendBoot, Ready, AppendEntry, FlushWrite, Deinit, StartInit, vars, memory
<1>3. CASE PickHighest \/ Settle \/ CountBoot \/ OpenNext \/ NoWriter \/ NoEntry \/ WriteError
  BY <1>1, <1>3 DEF PickHighest, Settle, CountBoot, SetState, OpenNext, NoWriter, NoEntry, WriteError,
                    memory
<1>4. CASE OpenWriterError \/ Close \/ Crash \/ RotIndex \/ RotData
  BY <1>4 DEF OpenWriterError, Close, Crash, RotIndex, RotData, Reset, memory
<1>5. CASE Activate \/ Recover \/ SealRecovered \/ SelectActive
  BY <1>5 DEF Activate, Recover, SealRecovered, SelectActive
<1>. QED  BY <1>2, <1>3, <1>4, <1>5 DEF Next, Step

\* While the store is off or the choice is open, some header is of the generation
\* before an upcoming one.
LEMMA WitnessKept ==
    ASSUME TypeOK, ControlInv, IdInv, RotationInv, GenerationInv, [Next]_vars
    PROVE  \E s \in Slots : \E g \in HeaderGenerations(s)' : Upcoming(g + 1)'
<1>1. CASE ~Choosing
  <2>1. PICK n : n = state.next_generation /\ Upcoming(n)
    BY <1>1 DEF GenerationInv, Chosen
  <2>2. Upcoming(n)'
    BY <2>1, UpcomingKept
  <2>3. PICK g \in Nat \ {0} : g = n - 1 /\ n = g + 1
    <3>1. n - 1 \in Nat \ {0} /\ n = (n - 1) + 1
      BY <2>1 DEF Upcoming
    <3>. QED  BY <3>1
  <2>4. PICK s \in Slots : s = Home(g)
    BY HomeType
  <2>5. g \in HeaderGenerations(s)'
    BY <2>2, <2>3, <2>4 DEF Upcoming, HeadersUpTo
  <2>. QED  BY <2>2, <2>3, <2>5
<1>2. CASE Choosing
  <2>0. PICK s \in Slots : \E g \in HeaderGenerations(s) : Upcoming(g + 1)
    BY <1>2 DEF GenerationInv
  <2>1. PICK g \in HeaderGenerations(s) : Upcoming(g + 1)
    BY <2>0
  <2>2. PICK n : n = g + 1 /\ Upcoming(n)
    BY <2>1
  <2>3. Upcoming(n)'
    BY <1>2, <2>2, UpcomingKept
  <2>4. headers' = headers
    BY <1>2, HeadersWritten, HeaderUnderway
  <2>5. g \in HeaderGenerations(s)'
    BY <2>4 DEF HeaderGenerations
  <2>. QED  BY <2>2, <2>3, <2>5
<1>. QED  BY <1>1, <1>2

\* recover_one_segment leaves the descriptor of its slot in step with the header.
LEMMA RecoverSlot ==
    ASSUME TypeOK, Recover, ~Fail
    PROVE  /\ HeaderReadable(Arg) /\ Arg \in Slots /\ UNCHANGED <<headers, state>>
           /\ IF Outdated(HeaderGeneration(Arg)) THEN segments'[Arg] = NoSegment
              ELSE segments'[Arg].valid /\ segments'[Arg].generation = HeaderGeneration(Arg)
           /\ \A s \in Slots : s # Arg => segments'[s] = segments[s]
<1>1. At("recover") /\ HeaderReadable(Arg) /\ headers' = headers
  BY DEF Recover, medium
<1>2. PICK s \in Slots : s = Arg
  BY <1>1, ArgType DEF TypeOK, At
<1>3. PICK g : g = HeaderGeneration(s)
  OBVIOUS
<1>4. segments \in [Slots -> Descriptor]
  BY DEF TypeOK, MemoryTypeOK
<1>5. \/ Outdated(g) /\ SetDescriptor(s, NoSegment)
      \/ ~Outdated(g) /\ SetDescriptor(s, Scan(s, g, FALSE))
      \/ ~Outdated(g) /\ HasFooter(s, g) /\ SetDescriptor(s, SealedSegment(Footer(s, g)))
      \/ ~Outdated(g) /\ Adopt(s, g)
  <2>1. IF Outdated(g) THEN SetDescriptor(s, NoSegment)
        ELSE IF ~HasFooter(s, g) THEN SetDescriptor(s, Scan(s, g, FALSE))
        ELSE IF IndexValid(s, Footer(s, g)) THEN SetDescriptor(s, SealedSegment(Footer(s, g)))
        ELSE Repair(s, g)
    BY <1>1, <1>2, <1>3 DEF Recover
  <2>2. Repair(s, g) => Adopt(s, g)
    BY DEF Repair
  <2>. QED  BY <2>1, <2>2
<1>6. PICK d : /\ segments' = [segments EXCEPT ![s] = d] /\ state' = state
               /\ (Outdated(g) => d = NoSegment) /\ (~Outdated(g) => d.valid = TRUE /\ d.generation = g)
  <2>1. CASE Outdated(g)
    BY <1>5, <2>1 DEF SetDescriptor
  <2>2. ASSUME ~Outdated(g), NEW d, segments' = [segments EXCEPT ![s] = d], state' = state,
               d.valid = TRUE, d.generation = g
        PROVE  \E e : /\ segments' = [segments EXCEPT ![s] = e] /\ state' = state
                      /\ (Outdated(g) => e = NoSegment) /\ (~Outdated(g) => e.valid = TRUE /\ e.generation = g)
    BY <2>2
  <2>3. CASE ~Outdated(g) /\ HasFooter(s, g) /\ SetDescriptor(s, SealedSegment(Footer(s, g)))
    <3>1. Footer(s, g).generation = g
      BY <2>3 DEF HasFooter, Footer, FooterValid, Copies
    <3>2. SealedSegment(Footer(s, g)).valid = TRUE /\ SealedSegment(Footer(s, g)).generation = g
      BY <3>1 DEF SealedSegment
    <3>3. segments' = [segments EXCEPT ![s] = SealedSegment(Footer(s, g))] /\ state' = state
      BY <2>3 DEF SetDescriptor
    <3>. QED  BY <2>2, <2>3, <3>2, <3>3
  <2>4. CASE ~Outdated(g) /\ (SetDescriptor(s, Scan(s, g, FALSE)) \/ Adopt(s, g))
    <3>1. PICK e : IsScan(e, s, g) /\ segments' = [segments EXCEPT ![s] = e] /\ state' = state
      BY <2>4 DEF SetDescriptor, Adopt, IsScan
    <3>2. e.valid = TRUE /\ e.generation = g
      BY <3>1, ScanGeneration
    <3>. QED  BY <2>2, <2>4, <3>1, <3>2
  <2>. QED  BY <1>5, <2>1, <2>3, <2>4
<1>7. segments'[s] = d /\ \A t \in Slots : t # s => segments'[t] = segments[t]
  BY <1>4, <1>6
<1>. QED  BY <1>1, <1>2, <1>3, <1>6, <1>7

\* Until the choice the state is that of the checkpoint, and the slots recovered so
\* far agree with their headers.
LEMMA HighestKept ==
    ASSUME TypeOK, ControlInv, ControlInv', RotationInv, GenerationInv, [Next]_vars, Has({"highest"})'
    PROVE  /\ state'.next_generation = checkpoint'.next_generation
           /\ state'.oldest_generation = checkpoint'.oldest_generation
           /\ \A s \in Slots : <<"recover", s>> \in Pending' \/ Recovered(s)'
<1>1. CASE StartInit
  <2>1. state' = checkpoint /\ checkpoint' = checkpoint /\ Pending' = StepsOf(InitSteps)
    BY <1>1 DEF StartInit, medium, Pending
  <2>. QED  BY <2>1, InitHas
<1>2. CASE UNCHANGED vars
  <2>1. UNCHANGED <<headers, checkpoint, state, segments, todo>>
    BY <1>2 DEF vars, medium, memory, control
  <2>2. Has({"highest"}) /\ Pending' = Pending
    BY <2>1 DEF Has, Pending
  <2>3. \A s \in Slots : Recovered(s) => Recovered(s)'
    BY <2>1 DEF Recovered, Described, HeaderReadable, HeaderGeneration, HeaderGenerations, Outdated
  <2>. QED  BY <2>1, <2>2, <2>3 DEF GenerationInv
<1>3. CASE ~StartInit /\ ~UNCHANGED vars
  <2>1. PICK x \in Rest : x[1] = "highest" /\ x \in Pending /\ todo # <<>> /\ Rest \subseteq Pending'
    BY <1>3, BootPart DEF Has, Booting, Recovering
  <2>2. Has({"highest"}) /\ Choosing /\ mode = "init" /\ Pending = {Head(todo)} \cup Rest
    <3>1. Has({"highest"}) /\ Has(Booting \cup {"ready"})
      BY <2>1 DEF Has, Booting, Recovering
    <3>. QED  BY <2>1, <3>1, BehindEntry DEF Choosing, ControlInv
  <2>3. ~At("highest") /\ ~At("seal_recovered") /\ ~At("select") /\ ~At("settle")
    BY <2>1, BehindStep
  <2>4. ~At("activate") /\ ~At("retire")
    <3>1. Has({"select"})
      BY <2>2 DEF RotationInv, Has
    <3>2. ~Has({"open_next", "retire", "header", "activate"})
      BY <3>1 DEF RotationInv
    <3>. QED  BY <2>2, <3>2 DEF At, Has
  <2>5. mode' # "off"
    <3>1. Pending' # {}
      BY DEF Has
    <3>. QED  BY <3>1 DEF ControlInv, Pending, StepsOf
  <2>6. UNCHANGED <<state.next_generation, state.oldest_generation>>
    BY <2>2, <2>3, <2>4, <2>5, NumbersKept
  <2>7. headers' = headers
    BY <2>2, HeadersWritten, HeaderUnderway
  <2>8. /\ state.next_generation = checkpoint.next_generation
        /\ state.oldest_generation = checkpoint.oldest_generation
        /\ \A s \in Slots : <<"recover", s>> \in Pending \/ Recovered(s)
    BY <2>2 DEF GenerationInv
  <2>9. /\ state'.next_generation = checkpoint'.next_generation
        /\ state'.oldest_generation = checkpoint'.oldest_generation
    BY <2>6, <2>8, CheckpointWritten
  <2>10. ASSUME NEW s \in Slots, Recovered(s), segments'[s].valid = segments[s].valid,
                segments'[s].generation = segments[s].generation
         PROVE  Recovered(s)'
    BY <2>6, <2>7, <2>10 DEF Recovered, Described, HeaderReadable, HeaderGeneration, HeaderGenerations,
                             Outdated
  <2>11. ASSUME ~At("recover"), NEW s \in Slots
         PROVE  <<"recover", s>> \in Pending' \/ Recovered(s)'
    <3>1. SameGenerations
      BY <2>3, <2>4, <2>5, <2>11, DescriptorsKept
    <3>2. <<"recover", s>> \in Pending => <<"recover", s>> \in Pending'
      BY <2>1, <2>2, <2>11 DEF At
    <3>. QED  BY <2>8, <2>10, <3>1, <3>2 DEF SameGenerations
  <2>12. ASSUME At("recover"), NEW s \in Slots
         PROVE  <<"recover", s>> \in Pending' \/ Recovered(s)'
    <3>1. Recover /\ ~Fail
      BY <1>3, <2>2, <2>5, <2>12, HeadStep DEF Fail, Reset
    <3>2. CASE s # Arg
      <4>1. segments'[s] = segments[s]
        BY <3>1, <3>2, RecoverSlot
      <4>2. <<"recover", s>> \in Pending => <<"recover", s>> \in Pending'
        <5>1. <<"recover", s>> # Head(todo)
          BY <3>2 DEF Arg
        <5>. QED  BY <2>1, <2>2, <5>1
      <4>. QED  BY <2>8, <2>10, <4>1, <4>2
    <3>3. CASE s = Arg
      <4>1. /\ HeaderReadable(s) /\ UNCHANGED <<headers, state>>
            /\ IF Outdated(HeaderGeneration(s)) THEN segments'[s] = NoSegment
               ELSE segments'[s].valid /\ segments'[s].generation = HeaderGeneration(s)
        BY <3>1, <3>3, RecoverSlot
      <4>2. HeaderReadable(s)' /\ HeaderGeneration(s)' = HeaderGeneration(s)
            /\ Outdated(HeaderGeneration(s))' = Outdated(HeaderGeneration(s))
        BY <4>1 DEF HeaderReadable, HeaderGeneration, HeaderGenerations, Outdated
      <4>. QED  BY <4>1, <4>2 DEF Recovered, Described, NoSegment
    <3>. QED  BY <3>2, <3>3
  <2>. QED  BY <2>9, <2>11, <2>12
<1>. QED  BY <1>1, <1>2, <1>3

\* The active segment stays to be selected until it is.
LEMMA SelectKept ==
    ASSUME TypeOK, ControlInv, [Next]_vars, mode # "off", mode' # "off", ~At("select")
    PROVE  Has({"select"})' <=> Has({"select"})
<1>1. ~StartInit
  BY DEF StartInit
<1>2. Has({"select"})' => Has({"select"})
  BY <1>1, BootPart DEF Has, Booting, Recovering
<1>3. ASSUME Has({"select"}) PROVE Has({"select"})'
  <2>1. mode = "init" /\ Has({"count_boot"}) /\ ~Idle
    BY <1>3 DEF ControlInv, Has, Booting, Recovering, Idle
  <2>2. todo # <<>> /\ Pending = {Head(todo)} \cup Rest
    <3>1. todo # <<>>
      BY <1>3 DEF Has, Pending, StepsOf
    <3>. QED  BY <3>1, BehindEntry
  <2>3. ~At("ready")
    <3>1. At("ready") => Rest = {}
      BY <2>2, BehindBoot DEF TypeOK, ControlInv
    <3>. QED  BY <1>3, <2>2, <3>1 DEF Has, At
  <2>4. Continues \/ UNCHANGED todo
    BY <1>1, <2>1, <2>3, NextPending
  <2>5. Continues => Has({"select"})'
    BY <1>3, <2>2 DEF Continues, Has, At
  <2>6. UNCHANGED todo => Has({"select"})'
    BY <1>3 DEF Has, Pending
  <2>. QED  BY <2>4, <2>5, <2>6
<1>. QED  BY <1>2, <1>3

\* A header that is written and passed over is in place.
LEMMA HeaderPassed ==
    ASSUME TypeOK, ControlInv, RotationInv, GenerationInv, [Next]_vars, ~StartInit, ~UNCHANGED vars,
           mode # "off", mode' # "off", At("header"), Pending' # {}
    PROVE  state.next_generation \in HeaderGenerations(writer_fd)' /\ UNCHANGED <<state, writer_fd>>
           /\ writer_fd = NextSlot
<1>. USE DEF TypeOK, MediumTypeOK, MemoryTypeOK
<1>1. WriteDone
  <2>1. CASE Step
    <3>1. NoWriter => Pending' = {}
      BY FailControl DEF NoWriter
    <3>2. /\ ~OpenWriter /\ ~CloseWriter /\ ~Flush /\ ~Flushed /\ ~PrepareSpace /\ ~NoEntry
          /\ ~PutEntry /\ ~ReserveEntry /\ ~AccountEntry /\ ~Acknowledge
      BY DEF OpenWriter, CloseWriter, Flush, Flushed, PrepareSpace, NoEntry, PutEntry, ReserveEntry,
             AccountEntry, Acknowledge, At
    <3>3. /\ ~Sealed /\ ~OpenNext /\ ~Retire /\ ~Activate /\ ~Recover /\ ~PickHighest /\ ~SealRecovered
          /\ ~SelectActive /\ ~Settle /\ ~CountBoot /\ ~AppendBoot /\ ~Ready /\ ~Close
      BY DEF Sealed, OpenNext, Retire, Activate, Recover, PickHighest, SealRecovered, SelectActive, Settle,
             CountBoot, AppendBoot, Ready, Close, At
    <3>. QED  BY <2>1, <3>1, <3>2, <3>3 DEF Step
  <2>2. WriteError => Pending' = {}
    BY FailControl DEF WriteError
  <2>3. ~OpenWriterError
    BY DEF OpenWriterError, At
  <2>4. ~(AppendEntry \/ FlushWrite \/ Deinit \/ RotIndex \/ RotData \/ Crash)
    BY DEF AppendEntry, FlushWrite, Deinit, Idle, RotIndex, RotData, Crash, Reset, At
  <2>. QED  BY <2>1, <2>2, <2>3, <2>4 DEF Next
<1>2. WriteHeader("new") /\ writer_fd # NoFd
  BY <1>1 DEF WriteDone, Write, WriterWrite, WriteBuffer, WriteEntry, WriteIndex, WriteFooter, Commit, At
<1>3. writer_fd = NextSlot /\ NextSlot \in Slots
  BY <1>2, HeaderUnderway, NextSlotType
<1>4. Arg \in Copies /\ state.next_generation \in Nat
  <2>1. todo # <<>>
    BY DEF At
  <2>. QED  BY <2>1, ArgType DEF StateRecord
<1>5. headers' = [headers EXCEPT ![writer_fd][Arg] = state.next_generation]
  BY <1>2 DEF WriteHeader, Land
<1>6. headers'[writer_fd][Arg] = state.next_generation
  BY <1>3, <1>4, <1>5
<1>7. UNCHANGED <<state, writer_fd>>
  BY <1>1 DEF WriteDone, memory
<1>8. state.next_generation # Garbage
  BY <1>4, GarbageAssumption
<1>. QED  BY <1>3, <1>4, <1>6, <1>7, <1>8 DEF HeaderGenerations

\* A rotation activates its segment when the header is in place.
LEMMA HeaderInPlace ==
    ASSUME TypeOK, ControlInv, RotationInv, GenerationInv, [Next]_vars, ~Choosing, mode' # "off",
           UNCHANGED <<state.next_generation, state.active_slot>>,
           Has({"activate"})', ~Has({"header"})'
    PROVE  state'.next_generation \in HeaderGenerations(NextSlot)'
<1>1. PICK s : s = NextSlot
  OBVIOUS
<1>2. NextSlot' = s
  BY <1>1 DEF NextSlot
<1>3. Chosen /\ mode # "off" /\ ~StartInit
  BY DEF GenerationInv, Choosing, StartInit
<1>4. CASE UNCHANGED vars
  <2>1. Has({"activate"}) /\ ~Has({"header"}) /\ headers' = headers
    BY <1>4 DEF vars, control, medium, Has, Pending
  <2>2. state.next_generation \in HeaderGenerations(s)
    BY <1>1, <1>3, <2>1 DEF Chosen
  <2>. QED  BY <1>2, <2>1, <2>2 DEF HeaderGenerations
<1>5. CASE ~UNCHANGED vars
  <2>1. PICK x \in Pending' : x[1] = "activate"
    BY DEF Has
  <2>2. Continues
    <3>1. "activate" \notin Calm
      BY DEF Calm
    <3>. QED  BY <1>3, <1>5, <2>1, <3>1, NextPending
  <2>3. x \in Rest /\ Pending = {Head(todo)} \cup Rest /\ todo # <<>> /\ Rest \subseteq Pending'
    <3>1. "activate" \notin Calm
      BY DEF Calm
    <3>. QED  BY <2>1, <2>2, <3>1, BehindEntry DEF Continues
  <2>4. CASE At("header")
    <3>1. state.next_generation \in HeaderGenerations(writer_fd)' /\ UNCHANGED <<state, writer_fd>>
          /\ writer_fd = NextSlot
      BY <1>3, <1>5, <2>1, <2>4, HeaderPassed
    <3>. QED  BY <1>1, <1>2, <3>1 DEF HeaderGenerations
  <2>5. CASE ~At("header")
    <3>1. Has({"activate"}) /\ ~Has({"header"})
      BY <2>1, <2>3, <2>5 DEF Has, At
    <3>2. state.next_generation \in HeaderGenerations(s)
      BY <1>1, <1>3, <3>1 DEF Chosen
    <3>3. headers' = headers
      BY <2>5, HeadersWritten
    <3>. QED  BY <1>2, <3>2, <3>3 DEF HeaderGenerations
  <2>. QED  BY <2>4, <2>5
<1>. QED  BY <1>4, <1>5

\* A step that changes neither the numbers nor the generations of the descriptors.
LEMMA ChosenSame ==
    ASSUME TypeOK, ControlInv, IdInv, RotationInv, GenerationInv, [Next]_vars, ~Choosing, mode' # "off",
           UNCHANGED <<state.next_generation, state.active_slot, state.oldest_generation>>,
           SameGenerations, Has({"select"})' <=> Has({"select"}),
           active_segment' = active_segment \/ Has({"select"})
    PROVE  Chosen'
<1>1. Chosen
  BY DEF GenerationInv
<1>2. Upcoming(state.next_generation)'
  <2>1. PICK n : n = state.next_generation
    OBVIOUS
  <2>2. Upcoming(n)'
    BY <1>1, <2>1, UpcomingKept DEF Chosen
  <2>. QED  BY <2>1, <2>2
<1>3. \A s \in ValidSlots(segments)' : segments'[s].generation < state'.next_generation
  BY <1>1, SameSummaries DEF Chosen
<1>4. CASE Has({"select"})
  <2>1. HighestGeneration(segments)' = state'.next_generation - 1
    BY <1>1, <1>4, SameSummaries DEF Chosen
  <2>2. headers' = headers
    BY <1>4, HeadersWritten, HeaderUnderway
  <2>3. \A s \in Slots : Described(s)'
    BY <1>1, <1>4, <2>2
       DEF Chosen, Described, SameGenerations, HeaderReadable, HeaderGeneration, HeaderGenerations
  <2>. QED  BY <1>1, <1>2, <1>3, <1>4, <2>1, <2>3, HeaderInPlace DEF Chosen
<1>5. CASE ~Has({"select"})
  <2>1. active_segment' = [slot |-> state'.active_slot, generation |-> state'.next_generation - 1]
    BY <1>1, <1>5 DEF Chosen
  <2>. QED  BY <1>1, <1>2, <1>3, <1>5, <2>1, HeaderInPlace DEF Chosen
<1>. QED  BY <1>4, <1>5

\* recover_all_segments chooses the generation after the highest on the medium.
LEMMA PickChosen ==
    ASSUME TypeOK, ControlInv, IdInv, RotationInv, RotationInv', GenerationInv, [Next]_vars,
           PickHighest, ~Fail, mode' # "off"
    PROVE  Chosen'
<1>1. /\ todo # <<>> /\ Pending = {Head(todo)} \cup Rest /\ Has({"highest"}) /\ Choosing
      /\ \A s \in Slots : <<"recover", s>> \notin Pending
  <2>1. At("highest") /\ todo # <<>> /\ Pending = {Head(todo)} \cup Rest
    BY BehindEntry DEF PickHighest, At
  <2>2. \A y \in Rest : y[1] # "recover"
    BY <2>1, BehindStep
  <2>3. \A s \in Slots : <<"recover", s>> # Head(todo)
    BY <2>1 DEF At
  <2>. QED  BY <2>1, <2>2, <2>3 DEF At, Has, Choosing
<1>2. /\ state.next_generation = checkpoint.next_generation
      /\ state.oldest_generation = checkpoint.oldest_generation
      /\ \A s \in Slots : Recovered(s)
  BY <1>1 DEF GenerationInv
<1>3. PICK t \in Slots : \E g \in HeaderGenerations(t) : Upcoming(g + 1)
  BY <1>1 DEF GenerationInv
<1>4. PICK g \in HeaderGenerations(t) : Upcoming(g + 1)
  BY <1>3
<1>5. g \in Nat \ {0} /\ MediumTypeOK /\ segments \in [Slots -> Descriptor]
  <2>1. g \in Nat
    BY HeaderHighest DEF TypeOK, HeaderReadable
  <2>. QED  BY <1>4, <2>1 DEF Upcoming, TypeOK, MemoryTypeOK
<1>6. PICK h \in Slots : h = Home(g)
  BY <1>5, HomeType
<1>7. PICK n \in Nat : n = g + 1 /\ g = n - 1 /\ Upcoming(n)
  BY <1>4, <1>5
<1>8. /\ \A s \in Slots : \A k \in HeaderGenerations(s) : k = 0 \/ (k <= n /\ Home(k) = s)
      /\ g \in HeaderGenerations(h)
      /\ checkpoint.next_generation <= n /\ checkpoint.oldest_generation < n
      /\ \A p \in Stored : p.generation < n
  BY <1>6, <1>7 DEF Upcoming, HeadersUpTo, CheckpointUpTo
<1>9. HeaderGeneration(h) = g
  <2>1. /\ HeaderGeneration(h) \in HeaderGenerations(h) /\ HeaderGeneration(h) \in Nat
        /\ g <= HeaderGeneration(h)
    BY <1>5, <1>8, HeaderHighest DEF HeaderReadable
  <2>2. HeaderGeneration(h) <= n /\ Home(HeaderGeneration(h)) = h
    BY <1>5, <1>8, <2>1
  <2>3. Home(n) # h
    BY <1>5, <1>6, <1>7, HomeNext
  <2>. QED  BY <1>5, <1>7, <2>1, <2>2, <2>3
<1>10. segments[h].valid /\ segments[h].generation = g
  <2>1. ~Outdated(g)
    <3>1. state.oldest_generation \in Nat
      BY DEF TypeOK, MemoryTypeOK, StateRecord
    <3>. QED  BY <1>2, <1>5, <1>7, <1>8, <3>1 DEF Outdated
  <2>. QED  BY <1>2, <1>9, <2>1 DEF Recovered, Described
<1>11. ASSUME NEW s \in ValidSlots(segments)
       PROVE  /\ s \in Slots /\ segments[s].generation = HeaderGeneration(s)
              /\ segments[s].generation \in HeaderGenerations(s)
              /\ segments[s].generation <= n /\ Home(segments[s].generation) = s
  <2>1. s \in Slots /\ segments[s].valid /\ Recovered(s)
    BY <1>2 DEF ValidSlots
  <2>2. segments[s].generation = HeaderGeneration(s) /\ ~Outdated(HeaderGeneration(s)) /\ HeaderReadable(s)
    BY <2>1 DEF Recovered, Described
  <2>3. HeaderGeneration(s) \in HeaderGenerations(s) /\ HeaderGeneration(s) # 0
    BY <1>5, <2>1, <2>2, HeaderHighest DEF Outdated
  <2>. QED  BY <1>8, <2>1, <2>2, <2>3
<1>12. PICK m \in Nat \ {0} : m = HighestGeneration(segments) /\ g <= m
  <2>1. h \in ValidSlots(segments)
    BY <1>10 DEF ValidSlots
  <2>2. HighestGeneration(segments) \in Nat /\ g <= HighestGeneration(segments)
    BY <1>5, <1>10, <2>1, HighestBounds
  <2>3. HighestGeneration(segments) # 0
    BY <1>5, <2>2
  <2>. QED  BY <2>2, <2>3
<1>13. PICK top \in Slots : /\ top = HighestSlot(segments) /\ Home(m) = top
                            /\ m \in HeaderGenerations(top) /\ m <= n
  <2>1. HighestSlot(segments) \in ValidSlots(segments)
        /\ segments[HighestSlot(segments)].generation = m
    BY <1>5, <1>12, HighestBounds
  <2>. QED  BY <1>11, <2>1
<1>14. PICK next \in Nat \ {0} : next = m + 1 /\ next - 1 = m /\ n <= next
  BY <1>5, <1>7, <1>12
<1>15. Upcoming(next)
  <2>1. \A s \in Slots : \A k \in HeaderGenerations(s) : k = 0 \/ (k <= next /\ Home(k) = s)
    <3>. SUFFICES ASSUME NEW s \in Slots, NEW k \in HeaderGenerations(s), k # 0
                  PROVE  k <= next /\ Home(k) = s
      OBVIOUS
    <3>1. k \in Nat
      BY <1>5, HeaderHighest DEF HeaderReadable
    <3>2. k <= n /\ Home(k) = s
      BY <1>8
    <3>. QED  BY <1>14, <3>1, <3>2
  <2>2. next - 1 \in HeaderGenerations(Home(next - 1))
    BY <1>13, <1>14
  <2>3. checkpoint.next_generation <= next /\ checkpoint.oldest_generation < next
    <3>1. checkpoint.next_generation \in Nat /\ checkpoint.oldest_generation \in Nat
      BY <1>5 DEF MediumTypeOK, StateRecord
    <3>. QED  BY <1>8, <1>14, <3>1
  <2>4. \A p \in Stored : p.generation < next
    BY <1>8, <1>14, StoredType
  <2>5. next >= 2
    BY <1>12, <1>14
  <2>. QED  BY <2>1, <2>2, <2>3, <2>4, <2>5 DEF Upcoming, HeadersUpTo, CheckpointUpTo
<1>16. state' = [state EXCEPT !.active_slot = top, !.active_generation = m,
                              !.next_generation = Max({@, m + 1})]
       /\ UNCHANGED <<segments, headers>>
  BY <1>12, <1>13 DEF PickHighest, medium
<1>17. /\ state'.next_generation = next /\ state'.active_slot = top
       /\ state'.oldest_generation = state.oldest_generation
  <2>1. state \in StateRecord /\ state.next_generation \in Nat
    BY DEF TypeOK, MemoryTypeOK, StateRecord
  <2>2. Max({state.next_generation, next}) = next
    <3>1. state.next_generation <= next
      BY <1>2, <1>8, <1>14, <2>1
    <3>. QED  BY <2>1, <3>1, MaxOfPair
  <2>. QED  BY <1>14, <1>16, <2>1, <2>2 DEF StateRecord
<1>18. Upcoming(next)'
  BY <1>1, <1>15, UpcomingKept
<1>19. Has({"select"})' /\ ~Has({"activate"})'
  <2>1. Pending' = Rest
    BY SetStateControl
  <2>2. Has({"select"}) /\ Head(todo)[1] # "select"
    BY <1>1 DEF RotationInv, PickHighest, At, Has
  <2>3. Has({"select"})'
    BY <1>1, <2>1, <2>2 DEF Has
  <2>4. ~Has({"open_next", "retire", "header", "activate"})'
    BY <2>3 DEF RotationInv
  <2>. QED  BY <2>3, <2>4 DEF Has
<1>20. state'.oldest_generation < next
  <2>1. state.oldest_generation \in Nat
    BY DEF TypeOK, MemoryTypeOK, StateRecord
  <2>. QED  BY <1>2, <1>8, <1>14, <1>17, <2>1
<1>21. \A s \in ValidSlots(segments) : segments[s].generation < next
  <2>1. \A s \in ValidSlots(segments) : segments[s].generation <= m /\ segments[s].generation \in Nat
    BY <1>5, <1>11, <1>12, HighestBounds DEF Descriptor
  <2>. QED  BY <1>14, <2>1
<1>22. \A s \in ValidSlots(segments)' : segments'[s].generation < next
  BY <1>16, <1>21 DEF ValidSlots
<1>23. HighestGeneration(segments)' = m
  BY <1>12, <1>16
<1>24. \A s \in Slots : Described(s)'
  BY <1>2, <1>16 DEF Recovered, Described, HeaderReadable, HeaderGeneration, HeaderGenerations
<1>25. Upcoming(state.next_generation)' /\ (state.active_slot = Home(state.next_generation - 1))'
  BY <1>13, <1>14, <1>17, <1>18
<1>. QED  BY <1>14, <1>17, <1>19, <1>20, <1>22, <1>23, <1>24, <1>25 DEF Chosen

\* The activation moves on to the generation after the next.
LEMMA ActivateChosen ==
    ASSUME TypeOK, ControlInv, RotationInv, GenerationInv, [Next]_vars, ~Choosing, Activate
    PROVE  Chosen'
<1>1. Chosen /\ segments \in [Slots -> Descriptor] /\ NextSlot \in Slots
  BY NextSlotType DEF GenerationInv, TypeOK, MemoryTypeOK
<1>2. PICK n \in Nat \ {0} : n = state.next_generation /\ Upcoming(n)
  BY <1>1 DEF Chosen, Upcoming
<1>3. PICK slot \in Slots : slot = NextSlot /\ slot = Home(n)
  BY <1>1, <1>2, NextHome
<1>4. PICK next \in Nat \ {0} : next = n + 1 /\ next - 1 = n
  BY <1>2
<1>5. Pending' = Rest /\ todo # <<>> /\ Pending = {Head(todo)} \cup Rest /\ At("activate")
  BY MovesControl, BehindEntry DEF Moves, Activate
<1>6. /\ ~Has({"header"}) /\ Has({"activate"}) /\ ~Has({"activate"})' /\ ~Has({"select"})'
  <2>1. \A y \in Rest : y[1] \notin {"header", "activate"}
    BY <1>5, BehindStep DEF Rotating
  <2>2. Has({"activate"}) /\ ~Has({"header"}) /\ ~Has({"activate"})'
    BY <1>5, <2>1 DEF At, Has
  <2>3. ~Has({"select"})
    BY <2>2 DEF RotationInv, Has
  <2>. QED  BY <1>5, <2>2, <2>3 DEF Has
<1>7. n \in HeaderGenerations(slot)
  BY <1>1, <1>2, <1>3, <1>6 DEF Chosen
<1>8. Upcoming(next)'
  <2>1. UNCHANGED <<headers, checkpoint>>
    BY DEF Activate, medium
  <2>2. \A s \in Slots : \A g \in HeaderGenerations(s)' : g = 0 \/ (g <= next /\ Home(g) = s)
    <3>. SUFFICES ASSUME NEW s \in Slots, NEW g \in HeaderGenerations(s)', g # 0
                  PROVE  g <= next /\ Home(g) = s
      OBVIOUS
    <3>1. g \in HeaderGenerations(s)
      BY <2>1 DEF HeaderGenerations
    <3>2. g \in Nat
      BY <3>1, HeaderHighest DEF TypeOK, HeaderReadable
    <3>3. g <= n /\ Home(g) = s
      BY <1>2, <3>1 DEF Upcoming, HeadersUpTo
    <3>. QED  BY <1>4, <3>2, <3>3
  <2>3. next - 1 \in HeaderGenerations(Home(next - 1))'
    BY <1>3, <1>4, <1>7, <2>1 DEF HeaderGenerations
  <2>4. (checkpoint.next_generation <= next /\ checkpoint.oldest_generation < next)'
    <3>1. checkpoint.next_generation \in Nat /\ checkpoint.oldest_generation \in Nat
      BY DEF TypeOK, MediumTypeOK, StateRecord
    <3>2. checkpoint.next_generation <= n /\ checkpoint.oldest_generation < n
      BY <1>2 DEF Upcoming, CheckpointUpTo
    <3>. QED  BY <1>4, <2>1, <3>1, <3>2
  <2>5. \A p \in Stored' : p.generation < next
    <3>1. ~PutEntry /\ ~ReserveEntry
      BY <1>5 DEF PutEntry, ReserveEntry, At
    <3>2. Stored' \subseteq Stored
      BY <3>1, StoredKept
    <3>3. \A p \in Stored : p.generation \in Nat /\ p.generation < n
      BY <1>2, StoredType DEF Upcoming
    <3>4. \A p \in Stored : p.generation < next
      BY <1>4, <3>3
    <3>. QED  BY <3>2, <3>4
  <2>6. next >= 2
    BY <1>4
  <2>. QED  BY <2>2, <2>3, <2>4, <2>5, <2>6 DEF Upcoming, HeadersUpTo, CheckpointUpTo
<1>9. PICK activated : activated = [segments EXCEPT ![slot] = FreshSegment(n)]
  OBVIOUS
<1>10. /\ segments' = activated
       /\ active_segment' = [slot |-> slot, generation |-> n]
       /\ state' = [state EXCEPT !.active_slot = slot, !.active_generation = n,
                                 !.next_generation = next,
                                 !.oldest_generation = OldestGeneration(activated)]
  BY <1>2, <1>3, <1>4, <1>9 DEF Activate
<1>11. /\ state'.next_generation = next /\ state'.active_slot = slot
       /\ state'.oldest_generation = OldestGeneration(activated)
  BY <1>10 DEF TypeOK, MemoryTypeOK, StateRecord
<1>12. activated \in [Slots -> Descriptor] /\ \A s \in ValidSlots(activated) : activated[s].generation < next
  <2>1. FreshSegment(n) \in Descriptor /\ FreshSegment(n).generation = n
    BY FreshType DEF FreshSegment, NoSegment
  <2>2. activated \in [Slots -> Descriptor]
    BY <1>1, <1>9, <2>1
  <2>3. \A s \in ValidSlots(segments) : segments[s].generation \in Nat /\ segments[s].generation < n
    BY <1>1, <1>2 DEF Chosen, ValidSlots, Descriptor
  <2>4. ASSUME NEW s \in ValidSlots(activated) PROVE activated[s].generation < next
    <3>1. CASE s = slot
      BY <1>1, <1>4, <1>9, <2>1, <3>1
    <3>2. CASE s # slot
      <4>1. s \in Slots /\ activated[s] = segments[s] /\ s \in ValidSlots(segments)
        BY <1>1, <1>9, <3>2 DEF ValidSlots
      <4>. QED  BY <1>4, <2>3, <4>1
    <3>. QED  BY <3>1, <3>2
  <2>. QED  BY <2>2, <2>4
<1>13. OldestGeneration(activated) < next
  BY <1>12, OldestBelow
<1>14. \A s \in ValidSlots(segments)' : segments'[s].generation < next
  BY <1>10, <1>12 DEF ValidSlots
<1>15. Upcoming(state.next_generation)' /\ (state.active_slot = Home(state.next_generation - 1))'
  BY <1>3, <1>4, <1>8, <1>11
<1>16. active_segment' = [slot |-> state'.active_slot, generation |-> state'.next_generation - 1]
  BY <1>4, <1>10, <1>11
<1>. QED  BY <1>6, <1>11, <1>13, <1>14, <1>15, <1>16 DEF Chosen

\* The retirement leaves later segments.
LEMMA RetireChosen ==
    ASSUME TypeOK, ControlInv, IdInv, RotationInv, GenerationInv, [Next]_vars, ~Choosing, Retire
    PROVE  Chosen'
<1>1. Chosen /\ segments \in [Slots -> Descriptor]
  BY DEF GenerationInv, TypeOK, MemoryTypeOK
<1>2. PICK n \in Nat \ {0} : n = state.next_generation /\ Upcoming(n)
  BY <1>1 DEF Chosen, Upcoming
<1>3. mode' = mode /\ mode' # "off" /\ active_segment' = active_segment
  BY DEF Retire, Choosing
<1>4. ~Has({"select"}) /\ ~Has({"select"})'
  <2>1. todo # <<>> /\ Pending = {Head(todo)} \cup Rest /\ At("retire")
    BY BehindEntry DEF Retire, At
  <2>2. Has({"retire"})
    BY <2>1 DEF At, Has
  <2>3. ~Has({"select"})
    BY <2>2 DEF RotationInv, Has
  <2>4. \A x \in StepsOf(RetireSteps) : x[1] # "select"
    BY CallNames
  <2>5. Pending' = StepsOf(RetireSteps) \cup Rest \/ Pending' = Rest
    BY RetireControl
  <2>. QED  BY <2>1, <2>3, <2>4, <2>5 DEF Has
<1>5. CASE ~segments[Arg].valid
  <2>1. UNCHANGED <<state, segments>>
    BY <1>5 DEF Retire
  <2>. QED  BY <1>3, <1>4, <2>1, ChosenSame DEF SameGenerations
<1>6. CASE segments[Arg].valid
  <2>1. PICK remaining : remaining = [segments EXCEPT ![Arg] = NoSegment]
    OBVIOUS
  <2>2. segments' = remaining /\ state' = [state EXCEPT !.oldest_generation = OldestGeneration(remaining)]
    BY <1>6, <2>1 DEF Retire
  <2>3. /\ state'.next_generation = n /\ state'.active_slot = state.active_slot
        /\ state'.oldest_generation = OldestGeneration(remaining)
    BY <1>2, <2>2 DEF TypeOK, MemoryTypeOK, StateRecord
  <2>4. /\ remaining \in [Slots -> Descriptor]
        /\ \A s \in ValidSlots(remaining) : remaining[s].generation < n
    <3>1. NoSegment \in Descriptor /\ NoSegment.valid = FALSE
      BY FreshType DEF NoSegment
    <3>2. \A s \in ValidSlots(remaining) : s \in ValidSlots(segments) /\ remaining[s] = segments[s]
      BY <1>1, <2>1, <3>1 DEF ValidSlots
    <3>. QED  BY <1>1, <1>2, <2>1, <3>1, <3>2 DEF Chosen
  <2>5. OldestGeneration(remaining) < n
    BY <2>4, OldestBelow
  <2>6. \A s \in ValidSlots(segments)' : segments'[s].generation < n
    BY <2>2, <2>4 DEF ValidSlots
  <2>7. Upcoming(n)'
    BY <1>2, UpcomingKept
  <2>8. (Has({"activate"}) /\ ~Has({"header"}) =>
           state.next_generation \in HeaderGenerations(NextSlot))'
    BY <1>2, <1>3, <2>3, HeaderInPlace
  <2>9. /\ Upcoming(state.next_generation)'
        /\ (state.active_slot = Home(state.next_generation - 1))'
        /\ active_segment' = [slot |-> state'.active_slot, generation |-> state'.next_generation - 1]
    BY <1>1, <1>2, <1>3, <1>4, <2>3, <2>7 DEF Chosen
  <2>. QED  BY <1>4, <2>3, <2>5, <2>6, <2>8, <2>9 DEF Chosen
<1>. QED  BY <1>5, <1>6

\* The state that recovery settles on keeps the generation chosen.
LEMMA SettledState ==
    ASSUME TypeOK, NEW n \in Nat \ {0}, n = state.next_generation,
           \A s \in ValidSlots(segments) : segments[s].generation < n, NEW active
    PROVE  /\ RecoveredState(active).next_generation = n
           /\ RecoveredState(active).active_slot = active.slot
           /\ RecoveredState(active).oldest_generation < n
           /\ RecoveredState(active).oldest_generation = OldestGeneration(segments)
<1>1. segments \in [Slots -> Descriptor]
  BY DEF TypeOK, MemoryTypeOK
<1>2. HighestGeneration(segments) \in Nat /\ HighestGeneration(segments) + 1 <= n
  BY <1>1, HighestBelow, HighestBounds
<1>3. Max({n, HighestGeneration(segments) + 1}) = n
  <2>1. PICK k \in Nat : k = HighestGeneration(segments) + 1 /\ k <= n
    BY <1>2
  <2>2. Max({k, n}) = n /\ {k, n} = {n, k}
    BY <2>1, MaxOfPair
  <2>. QED  BY <2>1, <2>2
<1>4. OldestGeneration(segments) < n
  BY <1>1, OldestBelow
<1>. QED  BY <1>3, <1>4 DEF RecoveredState

\* The segment that is selected is that of the generation before the next.
LEMMA SelectEffect ==
    ASSUME TypeOK, ControlInv, IdInv, RotationInv, GenerationInv, [Next]_vars, ~Choosing,
           SelectActive, mode' # "off"
    PROVE  /\ Has({"select"}) /\ ~Has({"select", "retire", "header", "activate"})'
           /\ SameGenerations
           /\ UNCHANGED <<state.next_generation, state.active_slot>>
           /\ state.active_slot \in ValidSlots(segments)
           /\ state'.oldest_generation \in {state.oldest_generation, OldestGeneration(segments)}
           /\ state'.oldest_generation < state.next_generation
           /\ active_segment' = [slot |-> state.active_slot, generation |-> state.next_generation - 1]
<1>1. Chosen /\ segments \in [Slots -> Descriptor]
  BY DEF GenerationInv, TypeOK, MemoryTypeOK
<1>2. PICK n \in Nat \ {0} : n = state.next_generation /\ Upcoming(n) /\ n - 1 \in Nat \ {0}
  BY <1>1 DEF Chosen, Upcoming
<1>3. /\ todo # <<>> /\ Pending = {Head(todo)} \cup Rest /\ At("select") /\ Has({"select"})
      /\ \A y \in Rest : y[1] \notin Rotating \cup {"select"}
  <2>1. At("select") /\ todo # <<>> /\ Pending = {Head(todo)} \cup Rest
    BY BehindEntry DEF SelectActive, At
  <2>. QED  BY <2>1, BehindStep DEF Has, At
<1>4. PICK s \in Slots : s = HighestSlot(segments)
  BY SelectControl
<1>5. PICK g : g = HeaderGeneration(s)
  OBVIOUS
<1>6. /\ s \in ValidSlots(segments) /\ segments[s].generation = g /\ g = n - 1
      /\ HeaderReadable(s) /\ Home(n - 1) = s /\ s = state.active_slot
  <2>1. HighestGeneration(segments) = n - 1 /\ Described(s)
    BY <1>1, <1>2, <1>3 DEF Chosen
  <2>2. s \in ValidSlots(segments) /\ segments[s].generation = n - 1
    BY <1>1, <1>2, <1>4, <2>1, HighestBounds
  <2>3. HeaderReadable(s) /\ g = n - 1
    BY <1>5, <2>1, <2>2 DEF Described, ValidSlots
  <2>4. g \in HeaderGenerations(s)
    BY <1>5, <2>3, HeaderHighest DEF TypeOK
  <2>5. Home(n - 1) = s
    BY <1>2, <2>3, <2>4 DEF Upcoming, HeadersUpTo
  <2>. QED  BY <1>1, <1>2, <2>2, <2>3, <2>5 DEF Chosen
<1>7. \/ Adopt(s, g) /\ Pending' = StepsOf(<<<<"open_writer", s>>>>) \cup Rest
      \/ /\ active_segment' = [slot |-> s, generation |-> g]
         /\ state' = RecoveredState([slot |-> s, generation |-> g])
         /\ UNCHANGED segments
         /\ Pending' = StepsOf(<<Do("open_next")>>) \cup Rest
  <2>1. ~(Fail /\ Pending' = {})
    <3>1. mode = "init"
      BY <1>3 DEF ControlInv, Has, Booting, Recovering
    <3>. QED  BY <3>1 DEF Fail, Reset
  <2>. QED  BY <1>4, <1>5, <2>1, SelectControl
<1>8. ~Has({"select", "retire", "header", "activate"})'
  <2>1. \A y \in Rest : y[1] \notin {"select", "retire", "header", "activate"}
    BY <1>3 DEF Rotating
  <2>2. /\ \A x \in StepsOf(<<<<"open_writer", s>>>>) : x[1] = "open_writer"
        /\ \A x \in StepsOf(<<Do("open_next")>>) : x[1] = "open_next"
    BY CallNames DEF Do
  <2>. QED  BY <1>7, <2>1, <2>2 DEF Has
<1>9. CASE Adopt(s, g)
  <2>1. PICK d : IsScan(d, s, g) /\ segments' = [segments EXCEPT ![s] = d]
    BY <1>9 DEF Adopt, IsScan
  <2>2. d.valid = TRUE /\ d.generation = g
    BY <2>1, ScanGeneration
  <2>3. \A t \in Slots : segments'[t] = IF t = s THEN d ELSE segments[t]
    BY <1>1, <2>1
  <2>4. SameGenerations
    <3>1. segments[s].valid /\ segments[s].generation = g
      BY <1>6 DEF ValidSlots
    <3>2. \A other \in Descriptor : other.valid \in BOOLEAN
      BY DEF Descriptor
    <3>3. segments[s].valid = TRUE
      BY <1>1, <3>1, <3>2
    <3>. QED  BY <2>2, <2>3, <3>1, <3>3 DEF SameGenerations
  <2>5. state' = state /\ active_segment' = [slot |-> s, generation |-> g]
    BY <1>9 DEF Adopt
  <2>6. state.oldest_generation < state.next_generation
    BY <1>1 DEF Chosen
  <2>. QED  BY <1>2, <1>3, <1>6, <1>8, <2>4, <2>5, <2>6
<1>10. CASE /\ active_segment' = [slot |-> s, generation |-> g]
            /\ state' = RecoveredState([slot |-> s, generation |-> g])
            /\ UNCHANGED segments
  <2>1. \A t \in ValidSlots(segments) : segments[t].generation < n
    BY <1>1, <1>2 DEF Chosen
  <2>2. PICK active : active = [slot |-> s, generation |-> g]
    OBVIOUS
  <2>3. /\ RecoveredState(active).next_generation = n
        /\ RecoveredState(active).active_slot = active.slot
        /\ RecoveredState(active).oldest_generation < n
        /\ RecoveredState(active).oldest_generation = OldestGeneration(segments)
    BY <1>2, <2>1, SettledState
  <2>4. /\ state'.next_generation = n /\ state'.active_slot = s /\ state'.oldest_generation < n
        /\ state'.oldest_generation = OldestGeneration(segments) /\ active_segment' = active
    BY <1>10, <2>2, <2>3
  <2>5. SameGenerations
    BY <1>10 DEF SameGenerations
  <2>. QED  BY <1>2, <1>3, <1>6, <1>8, <2>2, <2>4, <2>5
<1>. QED  BY <1>7, <1>9, <1>10

\* The segment that recovery selects is of the generation chosen.
LEMMA SelectChosen ==
    ASSUME TypeOK, ControlInv, IdInv, RotationInv, GenerationInv, [Next]_vars, ~Choosing,
           SelectActive, mode' # "off"
    PROVE  Chosen'
<1>1. Chosen
  BY DEF GenerationInv
<1>2. PICK n : n = state.next_generation /\ Upcoming(n)
  BY <1>1 DEF Chosen
<1>3. Upcoming(n)'
  BY <1>2, UpcomingKept
<1>4. /\ ~Has({"select", "activate"})'
      /\ state'.next_generation = n /\ state'.active_slot = state.active_slot
      /\ state'.oldest_generation < n
      /\ active_segment' = [slot |-> state.active_slot, generation |-> n - 1]
  BY <1>2, SelectEffect DEF Has
<1>5. /\ Upcoming(state.next_generation)'
      /\ (state.active_slot = Home(state.next_generation - 1))'
      /\ (state.oldest_generation < state.next_generation)'
      /\ active_segment' = [slot |-> state'.active_slot, generation |-> state'.next_generation - 1]
  BY <1>1, <1>2, <1>3, <1>4 DEF Chosen
<1>6. \A t \in ValidSlots(segments)' : segments'[t].generation < state'.next_generation
  <2>1. SameGenerations
    BY SelectEffect
  <2>. QED  BY <1>1, <1>2, <1>4, <2>1, SameSummaries DEF Chosen
<1>. QED  BY <1>4, <1>5, <1>6 DEF Chosen, Has

\* recover_all_segments ends with the active segment that was selected.
LEMMA SettleChosen ==
    ASSUME TypeOK, ControlInv, IdInv, RotationInv, GenerationInv, [Next]_vars, ~Choosing, Settle
    PROVE  Chosen'
<1>1. Chosen
  BY DEF GenerationInv
<1>2. PICK n \in Nat \ {0} : n = state.next_generation /\ Upcoming(n)
  BY <1>1 DEF Chosen, Upcoming
<1>3. /\ Pending' = Rest /\ todo # <<>> /\ Pending = {Head(todo)} \cup Rest /\ At("settle")
  BY MovesControl, BehindEntry DEF Moves, Settle
<1>4. ~Has({"select"}) /\ ~Has({"select"})' /\ ~Has({"activate"})'
  <2>1. \A y \in Rest : y[1] \notin {"select", "activate"}
    BY <1>3, BehindStep DEF Rotating
  <2>. QED  BY <1>3, <2>1 DEF Has, At
<1>5. active_segment = [slot |-> state.active_slot, generation |-> n - 1]
  BY <1>1, <1>2, <1>4 DEF Chosen
<1>6. state' = RecoveredState(active_segment) /\ UNCHANGED <<segments, active_segment>>
  BY DEF Settle, SetState
<1>7. \A t \in ValidSlots(segments) : segments[t].generation < n
  BY <1>1, <1>2 DEF Chosen
<1>8. /\ RecoveredState(active_segment).next_generation = n
      /\ RecoveredState(active_segment).active_slot = active_segment.slot
      /\ RecoveredState(active_segment).oldest_generation < n
  BY <1>2, <1>7, SettledState
<1>9. state'.next_generation = n /\ state'.active_slot = state.active_slot /\ state'.oldest_generation < n
  BY <1>5, <1>6, <1>8
<1>10. Upcoming(n)'
  BY <1>2, UpcomingKept
<1>11. /\ Upcoming(state.next_generation)'
       /\ (state.active_slot = Home(state.next_generation - 1))'
       /\ active_segment' = [slot |-> state'.active_slot, generation |-> state'.next_generation - 1]
  BY <1>1, <1>2, <1>5, <1>6, <1>9, <1>10 DEF Chosen
<1>12. \A t \in ValidSlots(segments)' : segments'[t].generation < state'.next_generation
  BY <1>6, <1>7, <1>9 DEF ValidSlots
<1>. QED  BY <1>4, <1>9, <1>11, <1>12 DEF Chosen

\* Segments sealed before the choice of the active one keep their generations.
LEMMA SealRecoveredEffect ==
    ASSUME TypeOK, ControlInv, IdInv, RotationInv, GenerationInv, [Next]_vars, ~Choosing,
           SealRecovered, mode' # "off"
    PROVE  /\ Has({"select"}) /\ Has({"select"})'
           /\ state' = state /\ SameGenerations
<1>1. Chosen /\ segments \in [Slots -> Descriptor]
  BY DEF GenerationInv, TypeOK, MemoryTypeOK
<1>2. /\ todo # <<>> /\ Pending = {Head(todo)} \cup Rest /\ At("seal_recovered") /\ Has({"select"})
      /\ mode = "init"
  <2>1. At("seal_recovered") /\ todo # <<>> /\ Pending = {Head(todo)} \cup Rest
    BY BehindEntry DEF SealRecovered, At
  <2>2. Has({"seal_recovered"})
    BY <2>1 DEF At, Has
  <2>3. Has({"select"})
    BY <2>2 DEF RotationInv, Has
  <2>4. mode = "init"
    BY <2>3 DEF ControlInv, Has, Booting, Recovering
  <2>. QED  BY <2>1, <2>3, <2>4
<1>3. PICK s \in Slots : s = Arg
  BY SealRecoveredControl
<1>4. \/ UNCHANGED <<mode, memory>> /\ Pending' = Rest
      \/ LeftBehind(s) /\ Adopt(s, HeaderGeneration(s)) /\ Pending' = StepsOf(ResealSteps(s)) \cup Rest
  <2>1. ~(Fail /\ Pending' = {})
    BY <1>2 DEF Fail, Reset
  <2>. QED  BY <1>3, <2>1, SealRecoveredControl
<1>5. Has({"select"})'
  <2>1. Has({"select"}) /\ Head(todo)[1] # "select"
    BY <1>2 DEF At
  <2>. QED  BY <1>2, <1>4, <2>1 DEF Has
<1>6. state' = state /\ SameGenerations
  <2>1. CASE UNCHANGED <<mode, memory>>
    BY <2>1 DEF memory, SameGenerations
  <2>2. CASE LeftBehind(s) /\ Adopt(s, HeaderGeneration(s))
    <3>1. PICK g : g = HeaderGeneration(s)
      OBVIOUS
    <3>2. PICK d : IsScan(d, s, g) /\ segments' = [segments EXCEPT ![s] = d]
      BY <2>2, <3>1 DEF Adopt, IsScan
    <3>3. d.valid = TRUE /\ d.generation = g
      BY <3>2, ScanGeneration
    <3>4. \A t \in Slots : segments'[t] = IF t = s THEN d ELSE segments[t]
      BY <1>1, <3>2
    <3>5. segments[s].valid /\ segments[s].generation = g
      <4>1. Described(s) /\ segments[s].valid
        BY <1>1, <1>2, <2>2 DEF Chosen, LeftBehind
      <4>. QED  BY <3>1, <4>1 DEF Described
    <3>6. segments[s].valid = TRUE
      <4>1. segments[s].valid \in BOOLEAN
        BY <1>1 DEF Descriptor
      <4>. QED  BY <3>5, <4>1
    <3>7. SameGenerations
      BY <3>3, <3>4, <3>5, <3>6 DEF SameGenerations
    <3>. QED  BY <2>2, <3>7 DEF Adopt
  <2>. QED  BY <1>4, <2>1, <2>2
<1>. QED  BY <1>2, <1>5, <1>6

\* Sealing a recovered segment again leaves the choice.
LEMMA SealRecoveredChosen ==
    ASSUME TypeOK, ControlInv, IdInv, RotationInv, GenerationInv, [Next]_vars, ~Choosing,
           SealRecovered, mode' # "off"
    PROVE  Chosen'
  BY SealRecoveredEffect, ChosenSame

\* Once chosen, the generation stays the next until a rotation takes it.
LEMMA ChosenKept ==
    ASSUME TypeOK, ControlInv, IdInv, RotationInv, RotationInv', GenerationInv, [Next]_vars, ~Choosing'
    PROVE  Chosen'
<1>1. mode' # "off"
  BY DEF Choosing
<1>2. CASE Choosing
  BY <1>1, <1>2, ChoosingEnds, PickChosen
<1>3. CASE ~Choosing /\ UNCHANGED vars
  <2>1. UNCHANGED <<state, segments, active_segment, todo>>
    BY <1>3 DEF vars, memory, control
  <2>2. SameGenerations
    BY <2>1 DEF SameGenerations
  <2>3. Has({"select"})' <=> Has({"select"})
    BY <2>1 DEF Has, Pending
  <2>. QED  BY <1>1, <1>3, <2>1, <2>2, <2>3, ChosenSame
<1>4. CASE ~Choosing /\ ~UNCHANGED vars
  <2>1. mode # "off" /\ ~Has({"highest"})
    BY <1>4 DEF Choosing
  <2>2. CASE At("activate")
    BY <1>1, <1>4, <2>2, HeadStep, ActivateChosen
  <2>3. CASE At("retire")
    BY <1>1, <1>4, <2>3, HeadStep, RetireChosen
  <2>4. CASE At("select")
    BY <1>1, <1>4, <2>4, HeadStep, SelectChosen
  <2>5. CASE At("settle")
    BY <1>1, <1>4, <2>5, HeadStep, SettleChosen
  <2>6. CASE At("seal_recovered")
    BY <1>1, <1>4, <2>6, HeadStep, SealRecoveredChosen
  <2>7. ~At("recover") /\ ~At("highest")
    <3>1. At("recover") \/ At("highest") => Has({"recover", "highest"})
      BY BehindEntry DEF At, Has
    <3>2. ~Has({"recover"})
      BY <2>1 DEF RotationInv
    <3>. QED  BY <2>1, <3>1, <3>2 DEF Has
  <2>8. CASE ~At("activate") /\ ~At("retire") /\ ~At("select") /\ ~At("settle") /\ ~At("seal_recovered")
    <3>1. UNCHANGED <<state.next_generation, state.active_slot, state.oldest_generation>>
      BY <1>1, <2>1, <2>7, <2>8, NumbersKept
    <3>2. SameGenerations
      BY <1>1, <2>7, <2>8, DescriptorsKept
    <3>3. active_segment' = active_segment
      BY <1>1, <2>7, <2>8, ActiveKept
    <3>4. Has({"select"})' <=> Has({"select"})
      BY <1>1, <2>1, <2>8, SelectKept
    <3>. QED  BY <1>1, <1>4, <3>1, <3>2, <3>3, <3>4, ChosenSame
  <2>. QED  BY <2>2, <2>3, <2>4, <2>5, <2>6, <2>8
<1>. QED  BY <1>2, <1>3, <1>4

\* The next generation stays the next, whatever fails.
LEMMA NextGeneration ==
    TypeOK /\ ControlInv /\ ControlInv' /\ IdInv /\ RotationInv /\ RotationInv' /\ GenerationInv
        /\ [Next]_vars => GenerationInv'
<1>. SUFFICES ASSUME TypeOK, ControlInv, ControlInv', IdInv, RotationInv, RotationInv', GenerationInv,
                     [Next]_vars
              PROVE  GenerationInv'
  OBVIOUS
<1>1. \E s \in Slots : \E g \in HeaderGenerations(s)' : Upcoming(g + 1)'
  BY WitnessKept
<1>2. (Choosing => \E s \in Slots : \E g \in HeaderGenerations(s) : Upcoming(g + 1))'
  BY <1>1
<1>3. (Has({"highest"}) =>
          /\ state.next_generation = checkpoint.next_generation
          /\ state.oldest_generation = checkpoint.oldest_generation
          /\ \A s \in Slots : <<"recover", s>> \in Pending \/ Recovered(s))'
  BY HighestKept
<1>4. (~Choosing => Chosen)'
  BY ChosenKept
<1>. QED  BY <1>2, <1>3, <1>4 DEF GenerationInv

\* A provisioned store is at its first generation.
LEMMA InitGeneration == Init => RotationInv /\ GenerationInv /\ OrderInv
<1>. SUFFICES ASSUME Init PROVE RotationInv /\ GenerationInv /\ OrderInv
  OBVIOUS
<1>1. mode = "off" /\ todo = <<>> /\ Pending = {}
  BY DEF Init, Pending, StepsOf
<1>2. ~Has({"highest"}) /\ Choosing /\ ~Reserved /\ RotationInv
  BY <1>1 DEF Has, Choosing, Reserved, RotationInv
<1>3. Stored = {}
  <2>1. OnMedium = {}
    <3>1. \A s \in Slots, o \in Offsets : data[s][o] = Garbage
      BY DEF Init
    <3>. QED  BY <3>1 DEF OnMedium
  <2>2. InBuffer = {}
    <3>1. write_buf = <<>>
      BY DEF Init
    <3>. QED  BY <3>1 DEF InBuffer
  <2>. QED  BY <1>2, <2>1, <2>2 DEF Stored, Taken
<1>4. OrderInv
  BY <1>3 DEF OrderInv
<1>5. PICK n \in Nat : n = 2 /\ n - 1 = 1
  OBVIOUS
<1>6. Home(1) = 0 /\ 0 \in Slots
  <2>1. 0 % SegmentCount = 0
    BY SegmentCountAssumption
  <2>. QED  BY <2>1, SegmentCountAssumption DEF Home, Slots
<1>7. \A s \in Slots : HeaderGenerations(s) = IF s = 0 THEN {1} ELSE {0}
  <2>1. \A s \in Slots, c \in Copies : headers[s][c] = IF s = 0 THEN 1 ELSE 0
    BY DEF Init
  <2>2. 0 # Garbage /\ 1 # Garbage
    BY GarbageAssumption
  <2>. QED  BY <2>1, <2>2 DEF HeaderGenerations, Copies
<1>8. HeadersUpTo(n)
  BY <1>5, <1>6, <1>7 DEF HeadersUpTo
<1>9. CheckpointUpTo(n)
  BY <1>5 DEF Init, Provisioned, ZeroState, CheckpointUpTo
<1>10. Upcoming(n)
  BY <1>3, <1>5, <1>8, <1>9 DEF Upcoming
<1>11. 1 \in HeaderGenerations(0) /\ n = 1 + 1
  BY <1>5, <1>6, <1>7
<1>12. \E s \in Slots : \E g \in HeaderGenerations(s) : Upcoming(g + 1)
  BY <1>6, <1>10, <1>11
<1>13. GenerationInv
  BY <1>2, <1>12 DEF GenerationInv
<1>. QED  BY <1>2, <1>4, <1>13

\* The generation that headers have in common with their slot.
LEMMA GenerationsApart ==
    ASSUME TypeOK, GenerationInv, NEW s \in Slots, NEW t \in Slots, Live(s), Live(t), s # t
    PROVE  HeaderGeneration(s) # HeaderGeneration(t)
<1>1. PICK n : HeadersUpTo(n)
  BY DEF GenerationInv, Chosen, Upcoming
<1>2. ASSUME NEW u \in Slots, Live(u) PROVE Home(HeaderGeneration(u)) = u
  <2>1. HeaderGeneration(u) \in HeaderGenerations(u) /\ HeaderGeneration(u) # 0
    BY <1>2, HeaderHighest DEF Live, TypeOK
  <2>. QED  BY <1>1, <2>1 DEF HeadersUpTo
<1>3. Home(HeaderGeneration(s)) = s /\ Home(HeaderGeneration(t)) = t
  BY <1>2
<1>. QED  BY <1>3

\* The entries that recovery keeps are of the generation of the header.
LEMMA RecoverableStored ==
    ASSUME TypeOK, NEW s \in Slots, NEW i \in RecoverableIds(s)
    PROVE  \E p \in Stored : p.id = i /\ p.generation = HeaderGeneration(s)
<1>. DEFINE g == HeaderGeneration(s)
<1>1. PICK o \in Recoverable(s) : i = data[s][o].id
  BY DEF RecoverableIds
<1>2. o \in ScannedEntries(s, g)
  BY <1>1 DEF Recoverable
<1>3. o \in Offsets /\ EntryAt(s, g, o)
  BY <1>2 DEF ScannedEntries
<1>4. data[s][o] # Garbage /\ data[s][o].generation = g
  BY <1>3 DEF EntryAt
<1>5. Mark(data[s][o]) \in OnMedium
  <2>1. PICK x \in Slots \X Offsets : x[1] = s /\ x[2] = o
    <3>1. <<s, o>> \in Slots \X Offsets
      BY <1>3
    <3>. QED  BY <3>1
  <2>2. x \in {y \in Slots \X Offsets : data[y[1]][y[2]] # Garbage}
    BY <1>4, <2>1
  <2>. QED  BY <2>1, <2>2 DEF OnMedium
<1>. QED  BY <1>1, <1>4, <1>5 DEF Stored, Mark

\* A later segment generation holds only later entries, and no two slots that
\* recovery keeps are of the same one (find_read_segment, read.cpp:55).
THEOREM GenerationsCorrect == Spec => []GenerationsOrdered
<1>. DEFINE Inv == TypeOK /\ ControlInv /\ SpaceInv /\ IdInv /\ RotationInv /\ GenerationInv /\ OrderInv
<1>1. Init => Inv
  BY InitType, InitSpace, InitIds, InitGeneration
<1>2. Inv /\ [Next]_vars => Inv'
  BY NextType, NextSpace, NextIds, NextRotation, NextGeneration, NextOrder
<1>3. Inv => GenerationsOrdered
  <2>. SUFFICES ASSUME TypeOK, GenerationInv, OrderInv, NEW s \in Slots, NEW t \in Slots,
                       Live(s), Live(t), s # t
                PROVE  /\ HeaderGeneration(s) # HeaderGeneration(t)
                       /\ HeaderGeneration(s) < HeaderGeneration(t) =>
                              \A i \in RecoverableIds(s), j \in RecoverableIds(t) : i < j
    BY DEF GenerationsOrdered
  <2>1. ASSUME HeaderGeneration(s) < HeaderGeneration(t),
               NEW i \in RecoverableIds(s), NEW j \in RecoverableIds(t)
        PROVE  i < j
    <3>1. PICK p \in Stored : p.id = i /\ p.generation = HeaderGeneration(s)
      BY RecoverableStored
    <3>2. PICK q \in Stored : q.id = j /\ q.generation = HeaderGeneration(t)
      BY RecoverableStored
    <3>. QED  BY <2>1, <3>1, <3>2 DEF OrderInv
  <2>. QED  BY <2>1, GenerationsApart
<1>. HIDE DEF Inv
<1>. QED  BY <1>1, <1>2, <1>3, PTL DEF Spec

-----------------------------------------------------------------------------
(* The segments retained.                                                  *)

\* The ring comes back to a slot after one round.
LEMMA HomeAgain ==
    ASSUME NEW g \in Nat \ {0}
    PROVE  Home(g + SegmentCount) = Home(g)
<1>1. PICK q \in Nat : q * SegmentCount \in Nat /\ g = q * SegmentCount + Home(g) + 1
  BY HomeSplit
<1>2. PICK r \in Slots : r = Home(g)
  BY HomeType
<1>3. r \in Nat /\ SegmentCount \in Nat
  BY <1>2, SegmentCountAssumption DEF Slots
<1>4. (q + 1) * SegmentCount = q * SegmentCount + SegmentCount
  BY <1>3
<1>5. PICK h \in Nat : h = g + SegmentCount /\ h - 1 = (q + 1) * SegmentCount + r
  BY <1>1, <1>2, <1>3, <1>4
<1>6. ((q + 1) * SegmentCount + r) % SegmentCount = r
  BY <1>2, RemainderUnique
<1>7. Home(h) = r
  BY <1>5, <1>6 DEF Home
<1>. QED  BY <1>2, <1>5, <1>7

\* The oldest generation is that of a descriptor, and of no later one.
LEMMA OldestBounds ==
    ASSUME NEW segs \in [Slots -> Descriptor], ValidSlots(segs) # {}
    PROVE  /\ OldestGeneration(segs) \in Nat
           /\ \E t \in ValidSlots(segs) : segs[t].generation = OldestGeneration(segs)
           /\ \A s \in ValidSlots(segs) : OldestGeneration(segs) <= segs[s].generation
<1>. DEFINE G == {segs[s].generation : s \in ValidSlots(segs)}
<1>1. G \in SUBSET Nat /\ G # {}
  BY DEF ValidSlots, Descriptor
<1>2. PICK low \in G : \A g \in G : low <= g
  BY <1>1, LeastNatural
<1>3. Min(G) \in G /\ \A g \in G : Min(G) <= g
  <2>. HIDE DEF G
  <2>. QED  BY <1>1, <1>2 DEF Min
<1>4. OldestGeneration(segs) = Min(G)
  BY DEF OldestGeneration
<1>. QED  BY <1>1, <1>3, <1>4

\* A valid generation with none below it is the oldest.
LEMMA OldestUnique ==
    ASSUME NEW segs \in [Slots -> Descriptor], NEW t \in ValidSlots(segs), NEW o \in Nat,
           segs[t].generation = o, \A s \in ValidSlots(segs) : o <= segs[s].generation
    PROVE  OldestGeneration(segs) = o
<1>1. PICK u \in ValidSlots(segs) : segs[u].generation = OldestGeneration(segs)
  BY OldestBounds
<1>2. OldestGeneration(segs) \in Nat /\ OldestGeneration(segs) <= o /\ o <= OldestGeneration(segs)
  BY <1>1, OldestBounds
<1>. QED  BY <1>2

\* The oldest generation is that of the valid descriptors.
LEMMA SameOldest ==
    ASSUME TypeOK, SameGenerations
    PROVE  OldestGeneration(segments)' = OldestGeneration(segments)
<1>1. /\ ValidSlots(segments)' = ValidSlots(segments)
      /\ \A s \in ValidSlots(segments) : segments'[s].generation = segments[s].generation
  BY SameSummaries
<1>2. {segments'[s].generation : s \in ValidSlots(segments)}
          = {segments[s].generation : s \in ValidSlots(segments)}
  BY <1>1
<1>. QED  BY <1>1, <1>2 DEF OldestGeneration

\* The generation of a header is that of a round of the ring that goes through its slot.
LEMMA HeaderHome ==
    ASSUME TypeOK, NEW n, Upcoming(n), NEW s \in Slots, NEW g \in HeaderGenerations(s), g # 0
    PROVE  g \in Nat \ {0} /\ g <= n /\ Home(g) = s /\ n \in Nat /\ n >= 2
<1>1. g \in Nat
  BY HeaderHighest DEF TypeOK, HeaderReadable
<1>. QED  BY <1>1 DEF Upcoming, HeadersUpTo

\* Once the next slot is retired, its generations are older than any that is retained.
LEMMA RoomMade ==
    ASSUME TypeOK, GenerationInv, ~Choosing, Retained(state.next_generation),
           NEW segs \in [Slots -> Descriptor],
           \A s \in ValidSlots(segs) : /\ segs[s].generation \in HeaderGenerations(s) \ {0}
                                       /\ segs[s].generation >= checkpoint.oldest_generation,
           NextSlot \notin ValidSlots(segs), ValidSlots(segs) # {}
    PROVE  state.next_generation < OldestGeneration(segs) + SegmentCount
<1>1. PICK n : n = state.next_generation /\ Upcoming(n) /\ NextSlot = Home(n)
  BY NextHome DEF GenerationInv, Chosen
<1>2. PICK t \in ValidSlots(segs) : segs[t].generation = OldestGeneration(segs)
  BY OldestBounds
<1>3. PICK g \in HeaderGenerations(t) : g = OldestGeneration(segs) /\ g # 0 /\ g >= checkpoint.oldest_generation
  BY <1>2
<1>4. t \in Slots /\ t # Home(n)
  BY <1>1, <1>2 DEF ValidSlots
<1>5. g \in Nat \ {0} /\ g <= n /\ Home(g) = t /\ n \in Nat
  BY <1>1, <1>3, <1>4, HeaderHome
<1>6. n # g + SegmentCount
  BY <1>4, <1>5, HomeAgain
<1>7. checkpoint.oldest_generation \in Nat /\ n <= checkpoint.oldest_generation + SegmentCount
      /\ SegmentCount \in Nat
  BY <1>1, SegmentCountAssumption DEF TypeOK, MediumTypeOK, StateRecord, Retained
<1>. QED  BY <1>1, <1>3, <1>5, <1>6, <1>7

\* Recovery finds the oldest segment that the checkpoint retains.
LEMMA RecoveredOldest ==
    ASSUME TypeOK, NEW n, Upcoming(n), Retained(n), \A s \in Slots : Recovered(s),
           state.oldest_generation = checkpoint.oldest_generation
    PROVE  /\ OldestGeneration(segments) = state.oldest_generation
           /\ \A s \in ValidSlots(segments) : segments[s].generation \in HeaderGenerations(s) \ {0}
<1>1. segments \in [Slots -> Descriptor] /\ SegmentCount \in Nat
  BY SegmentCountAssumption DEF TypeOK, MemoryTypeOK
<1>2. PICK o \in Nat \ {0} : /\ o = checkpoint.oldest_generation /\ o \in HeaderGenerations(Home(o))
                             /\ n <= o + SegmentCount
                             /\ n \in HeaderGenerations(Home(n)) => n < o + SegmentCount
  <2>1. checkpoint.oldest_generation \in Nat /\ checkpoint.oldest_generation # 0
    BY DEF Retained, TypeOK, MediumTypeOK, StateRecord
  <2>. QED  BY <2>1 DEF Retained
<1>3. PICK h \in Slots : h = Home(o)
  BY <1>2, HomeType
<1>4. ASSUME NEW s \in ValidSlots(segments)
      PROVE  segments[s].generation \in HeaderGenerations(s) \ {0} /\ segments[s].generation >= o
  <2>1. s \in Slots /\ segments[s].valid /\ Recovered(s)
    BY <1>4 DEF ValidSlots
  <2>2. segments[s].generation = HeaderGeneration(s) /\ ~Outdated(HeaderGeneration(s)) /\ HeaderReadable(s)
    BY <2>1 DEF Recovered, Described
  <2>3. HeaderGeneration(s) \in HeaderGenerations(s) /\ HeaderGeneration(s) \in Nat
    BY <2>1, <2>2, HeaderHighest DEF TypeOK
  <2>. QED  BY <1>2, <2>2, <2>3 DEF Outdated
<1>5. PICK g \in HeaderGenerations(h) : g = HeaderGeneration(h) /\ g >= o /\ g # 0
  BY <1>2, <1>3, HeaderHighest DEF TypeOK, HeaderReadable
<1>6. g = o
  <2>1. g \in Nat \ {0} /\ g <= n /\ Home(g) = h /\ n \in Nat
    BY <1>5, HeaderHome
  <2>2. CASE o < g
    <3>1. o + SegmentCount <= g
      BY <1>2, <1>3, <2>1, <2>2, HomeApart
    <3>2. g = n
      BY <1>1, <1>2, <2>1, <3>1
    <3>3. n < o + SegmentCount
      BY <1>2, <1>5, <2>1, <3>2
    <3>. QED  BY <1>1, <1>2, <2>1, <3>1, <3>2, <3>3
  <2>. QED  BY <1>2, <1>5, <2>1, <2>2
<1>7. h \in ValidSlots(segments) /\ segments[h].generation = o
  <2>1. Recovered(h) /\ ~Outdated(g)
    BY <1>2, <1>6 DEF Outdated
  <2>. QED  BY <1>5, <1>6, <2>1 DEF Recovered, Described, ValidSlots
<1>8. OldestGeneration(segments) = o
  BY <1>1, <1>4, <1>7, OldestUnique
<1>. QED  BY <1>2, <1>4, <1>8

\* A header is written once its slot is retired and the retirement committed.
LEMMA HeaderRetired ==
    ASSUME TypeOK, ControlInv, RotationInv, RetirementInv, At("header")
    PROVE  /\ ~Choosing /\ ~Has({"select"}) /\ Retained(state.next_generation) /\ Retiring
           /\ NextSlot \notin ValidSlots(segments)
           /\ checkpoint.oldest_generation = OldestGeneration(segments)
<1>1. ~Choosing /\ ~Has({"select"})
  BY HeaderUnderway
<1>2. Retained(state.next_generation) /\ Retiring
  BY <1>1 DEF RetirementInv
<1>3. Has({"header"}) /\ ~Has({"retire"})
  <2>1. todo # <<>> /\ Pending = {Head(todo)} \cup Rest /\ Head(todo)[1] = "header"
    BY BehindEntry DEF At
  <2>2. \A y \in Rest : y[1] # "retire"
    BY <2>1, BehindStep
  <2>. QED  BY <2>1, <2>2 DEF Has
<1>4. NextSlot \notin ValidSlots(segments)
  BY <1>2, <1>3 DEF Retiring, Has
<1>5. checkpoint.oldest_generation = OldestGeneration(segments)
  BY <1>2 DEF Retiring, At
<1>. QED  BY <1>1, <1>2, <1>4, <1>5

\* So there is room for its generation.
LEMMA HeaderRoom ==
    ASSUME TypeOK, ControlInv, RotationInv, GenerationInv, RetirementInv, At("header")
    PROVE  state.next_generation < checkpoint.oldest_generation + SegmentCount
<1>1. /\ ~Choosing /\ Retained(state.next_generation) /\ Retiring
      /\ NextSlot \notin ValidSlots(segments) /\ ValidSlots(segments) # {}
      /\ checkpoint.oldest_generation = OldestGeneration(segments)
  BY HeaderRetired DEF Retiring
<1>2. segments \in [Slots -> Descriptor]
  BY DEF TypeOK, MemoryTypeOK
<1>3. \A s \in ValidSlots(segments) : /\ segments[s].generation \in HeaderGenerations(s) \ {0}
                                      /\ segments[s].generation >= checkpoint.oldest_generation
  <2>1. \A s \in ValidSlots(segments) : OldestGeneration(segments) <= segments[s].generation
    BY <1>1, <1>2, OldestBounds
  <2>. QED  BY <1>1, <1>2, <2>1 DEF Retiring, ValidSlots, Descriptor
<1>. QED  BY <1>1, <1>2, <1>3, RoomMade

\* What the checkpoint retains stays in place.
LEMMA RetainedKept ==
    ASSUME TypeOK, ControlInv, RotationInv, GenerationInv, RetirementInv, [Next]_vars, ~Choosing,
           NEW n, n = state.next_generation
    PROVE  Retained(n)'
<1>1. Upcoming(n) /\ Chosen /\ Retained(n) /\ NextSlot = Home(n) /\ n \in Nat /\ n >= 2
  BY NextHome DEF GenerationInv, Chosen, RetirementInv
<1>2. PICK o \in Nat \ {0} : /\ o = checkpoint.oldest_generation /\ o \in HeaderGenerations(Home(o))
                             /\ o < n /\ n <= o + SegmentCount
                             /\ n \in HeaderGenerations(Home(n)) => n < o + SegmentCount
  <2>1. checkpoint.oldest_generation \in Nat /\ checkpoint.oldest_generation # 0
    BY <1>1 DEF Retained, TypeOK, MediumTypeOK, StateRecord
  <2>. QED  BY <1>1, <2>1 DEF Retained, Upcoming, CheckpointUpTo
<1>3. SegmentCount \in Nat /\ segments \in [Slots -> Descriptor]
  BY SegmentCountAssumption DEF TypeOK, MemoryTypeOK
<1>4. CASE headers' # headers
  <2>1. /\ At("header")
        /\ \A s \in Slots : s # NextSlot => HeaderGenerations(s)' = HeaderGenerations(s)
    BY <1>4, HeadersWritten
  <2>2. n < o + SegmentCount
    BY <1>2, <2>1, HeaderRoom
  <2>3. Home(o) # NextSlot /\ Home(o) \in Slots
    <3>1. Home(o) = Home(n) => o + SegmentCount <= n
      BY <1>1, <1>2, HomeApart
    <3>2. Home(o) # Home(n)
      BY <1>1, <1>2, <1>3, <2>2, <3>1
    <3>3. Home(o) \in Slots
      BY <1>2, HomeType
    <3>. QED  BY <1>1, <3>2, <3>3
  <2>4. checkpoint' = checkpoint
    BY <2>1, CheckpointWritten DEF At
  <2>5. o \in HeaderGenerations(Home(o))'
    BY <1>2, <2>1, <2>3
  <2>. QED  BY <1>2, <2>2, <2>4, <2>5 DEF Retained
<1>5. CASE headers' = headers /\ checkpoint' = checkpoint
  BY <1>1, <1>5 DEF Retained, HeaderGenerations
<1>6. CASE headers' = headers /\ At("commit") /\ checkpoint' = state
  <2>1. CASE Has({"select"})
    <3>1. checkpoint'.oldest_generation = checkpoint.oldest_generation
      BY <1>6, <2>1 DEF RetirementInv
    <3>. QED  BY <1>1, <1>6, <3>1 DEF Retained, HeaderGenerations
  <2>2. CASE ~Has({"select"})
    <3>1. Retiring
      BY <2>2 DEF RetirementInv
    <3>2. PICK t \in ValidSlots(segments) : segments[t].generation = OldestGeneration(segments)
      BY <1>3, <3>1, OldestBounds DEF Retiring
    <3>3. PICK g \in HeaderGenerations(t) : g = state.oldest_generation /\ g # 0 /\ o <= g
      BY <1>2, <3>1, <3>2 DEF Retiring
    <3>4. t \in Slots
      BY <3>2 DEF ValidSlots
    <3>5. g \in Nat \ {0} /\ Home(g) = t
      BY <1>1, <3>3, <3>4, HeaderHome
    <3>6. n <= g + SegmentCount /\ (n \in HeaderGenerations(Home(n)) => n < g + SegmentCount)
      BY <1>1, <1>2, <1>3, <3>3, <3>5
    <3>7. checkpoint'.oldest_generation = g /\ g >= 1 /\ g \in HeaderGenerations(Home(g))
      BY <1>6, <3>3, <3>5
    <3>. QED  BY <1>6, <3>6, <3>7 DEF Retained, HeaderGenerations
  <2>. QED  BY <2>1, <2>2
<1>. QED  BY <1>4, <1>5, <1>6, CheckpointWritten

-----------------------------------------------------------------------------
(* Retiring before reuse.                                                  *)

\* A commit without a failed write is the whole commit.
LEMMA CommitDone ==
    ASSUME TypeOK, ControlInv, [Next]_vars, "io" \notin Faults, At("commit"), mode' # "off", ~UNCHANGED vars
    PROVE  checkpoint' = state
<1>1. todo # <<>> /\ mode # "off"
  BY DEF At, ControlInv
<1>2. ~WriteError /\ ~OpenWriterError
  BY DEF WriteError, OpenWriterError, Fault
<1>3. ~(StartInit \/ AppendEntry \/ FlushWrite \/ Deinit \/ RotIndex \/ RotData \/ Crash)
  BY <1>1 DEF StartInit, AppendEntry, FlushWrite, Deinit, Idle, RotIndex, RotData, Crash, Reset
<1>4. /\ ~OpenWriter /\ ~CloseWriter /\ ~Flush /\ ~Flushed /\ ~PrepareSpace /\ ~NoEntry
      /\ ~PutEntry /\ ~ReserveEntry /\ ~AccountEntry /\ ~Acknowledge /\ ~NoWriter
  BY DEF OpenWriter, CloseWriter, Flush, Flushed, PrepareSpace, NoEntry, PutEntry, ReserveEntry,
         AccountEntry, Acknowledge, NoWriter, WriterStep, At
<1>5. /\ ~Sealed /\ ~OpenNext /\ ~Retire /\ ~Activate /\ ~Recover /\ ~PickHighest /\ ~SealRecovered
      /\ ~SelectActive /\ ~Settle /\ ~CountBoot /\ ~AppendBoot /\ ~Ready /\ ~Close
  BY DEF Sealed, OpenNext, Retire, Activate, Recover, PickHighest, SealRecovered, SelectActive, Settle,
         CountBoot, AppendBoot, Ready, Close, At
<1>6. WriteDone
  BY <1>2, <1>3, <1>4, <1>5 DEF Next, Step
<1>7. Commit("new")
  BY <1>6 DEF WriteDone, Write, WriterWrite, WriteBuffer, WriteEntry, WriteIndex, WriteFooter,
              WriteHeader, At
<1>. QED  BY <1>7 DEF Commit

\* A rotation takes its header and its activation on together with its retirement.
LEMMA RotationPart ==
    ASSUME TypeOK, ControlInv, [Next]_vars, mode # "off", ~At("retire"),
           Has({"header", "activate"})', ~Has({"retire"})'
    PROVE  Has({"header", "activate"}) /\ ~Has({"retire"})
<1>1. PICK x \in Pending' : x[1] \in {"header", "activate"}
  BY DEF Has
<1>2. x[1] \notin Calm /\ ~StartInit
  BY <1>1 DEF Calm, StartInit
<1>3. CASE UNCHANGED todo
  BY <1>3 DEF Has, Pending
<1>4. CASE Continues
  <2>1. x \in Rest /\ Pending = {Head(todo)} \cup Rest /\ todo # <<>> /\ Rest \subseteq Pending'
    BY <1>1, <1>2, <1>4, BehindEntry DEF Continues
  <2>2. ~Has({"retire"})
    BY <2>1 DEF Has, At
  <2>. QED  BY <1>1, <2>1, <2>2 DEF Has
<1>. QED  BY <1>1, <1>2, <1>3, <1>4, NextPending

\* A step that changes neither the numbers nor the generations of the descriptors.
LEMMA RetiringSame ==
    ASSUME TypeOK, ControlInv, RotationInv, GenerationInv, RetirementInv, [Next]_vars, "io" \notin Faults,
           ~Choosing, mode' # "off", ~Has({"select"}), ~At("retire"),
           UNCHANGED <<state.next_generation, state.active_slot, state.oldest_generation>>,
           SameGenerations
    PROVE  Retiring'
<1>1. Retiring /\ mode # "off"
  BY DEF RetirementInv, Choosing
<1>2. ValidSlots(segments)' = ValidSlots(segments) /\ NextSlot' = NextSlot
      /\ OldestGeneration(segments)' = OldestGeneration(segments)
  BY SameSummaries, SameOldest DEF NextSlot
<1>3. /\ checkpoint'.oldest_generation <= state'.oldest_generation
      /\ checkpoint'.oldest_generation = state'.oldest_generation \/ At("commit")'
  <2>1. CASE UNCHANGED vars
    <3>1. UNCHANGED <<checkpoint, state, todo>>
      BY <2>1 DEF vars, medium, memory, control
    <3>. QED  BY <1>1, <3>1 DEF Retiring, At
  <2>2. CASE At("commit") /\ ~UNCHANGED vars
    <3>1. checkpoint' = state /\ state.oldest_generation \in Nat
      BY <2>2, CommitDone DEF TypeOK, MemoryTypeOK, StateRecord
    <3>. QED  BY <3>1
  <2>3. CASE ~At("commit")
    <3>1. checkpoint' = checkpoint /\ checkpoint.oldest_generation = state.oldest_generation
      BY <1>1, <2>3, CheckpointWritten DEF Retiring
    <3>. QED  BY <1>1, <3>1 DEF Retiring
  <2>. QED  BY <2>1, <2>2, <2>3
<1>4. ASSUME NEW s \in ValidSlots(segments)'
      PROVE  segments'[s].generation \in HeaderGenerations(s)' \ {0}
  <2>1. /\ s \in ValidSlots(segments) /\ s \in Slots /\ segments'[s].generation = segments[s].generation
        /\ segments[s].generation \in HeaderGenerations(s) \ {0}
    BY <1>1, <1>2, SameSummaries DEF Retiring
  <2>2. CASE headers' = headers
    BY <2>1, <2>2 DEF HeaderGenerations
  <2>3. CASE headers' # headers
    <3>1. /\ At("header")
          /\ \A t \in Slots : t # NextSlot => HeaderGenerations(t)' = HeaderGenerations(t)
      BY <2>3, HeadersWritten
    <3>2. s # NextSlot
      BY <2>1, <3>1, HeaderRetired
    <3>. QED  BY <2>1, <3>1, <3>2
  <2>. QED  BY <2>2, <2>3
<1>5. Has({"header", "activate"})' /\ ~Has({"retire"})' => NextSlot' \notin ValidSlots(segments)'
  BY <1>1, <1>2, RotationPart DEF Retiring
<1>. QED  BY <1>1, <1>2, <1>3, <1>4, <1>5 DEF Retiring

\* A retirement leaves memory ahead of the checkpoint until its commit.
LEMMA RetireRetiring ==
    ASSUME TypeOK, ControlInv, RotationInv, GenerationInv, RetirementInv, [Next]_vars, ~Choosing, Retire
    PROVE  Retiring' /\ ~Has({"select"}) /\ UNCHANGED <<state.next_generation, state.active_slot>>
<1>1. todo # <<>> /\ Pending = {Head(todo)} \cup Rest /\ Head(todo)[1] = "retire"
  BY BehindEntry DEF Retire, At
<1>2. Has({"retire"}) /\ Arg = NextSlot
  <2>1. Head(todo) \in Pending
    BY <1>1
  <2>. QED  BY <1>1, <2>1 DEF RotationInv, Has, Arg
<1>3. ~Has({"select"}) /\ Retiring
  BY <1>2 DEF RotationInv, Has, RetirementInv
<1>4. PICK slot \in Slots : /\ slot = NextSlot /\ slot # state.active_slot
  <2>1. NextSlot \in Slots
    BY NextSlotType DEF TypeOK
  <2>. QED  BY <2>1, NextHome DEF GenerationInv, Chosen
<1>5. UNCHANGED <<headers, checkpoint>> /\ checkpoint.oldest_generation = OldestGeneration(segments)
  BY <1>1, <1>3 DEF Retire, medium, Retiring, At
<1>6. /\ segments \in [Slots -> Descriptor] /\ state \in StateRecord
      /\ state.active_slot \in ValidSlots(segments)
      /\ \A s \in ValidSlots(segments) : segments[s].generation \in HeaderGenerations(s) \ {0}
  BY <1>3 DEF TypeOK, MemoryTypeOK, Retiring
<1>7. CASE ~segments[slot].valid
  <2>1. UNCHANGED <<state, segments>> /\ slot \notin ValidSlots(segments)
    BY <1>2, <1>4, <1>7 DEF Retire, ValidSlots
  <2>2. UNCHANGED <<ValidSlots(segments), OldestGeneration(segments), NextSlot>>
    BY <2>1 DEF ValidSlots, OldestGeneration, NextSlot
  <2>3. state'.oldest_generation = OldestGeneration(segments)' /\ OldestGeneration(segments) \in Nat
    BY <1>3, <1>6, <2>1, <2>2, OldestBounds DEF Retiring
  <2>4. \A s \in ValidSlots(segments)' : segments'[s].generation \in HeaderGenerations(s)' \ {0}
    BY <1>5, <1>6, <2>1, <2>2 DEF HeaderGenerations
  <2>. QED  BY <1>3, <1>4, <1>5, <1>6, <2>1, <2>2, <2>3, <2>4 DEF Retiring
<1>8. CASE segments[slot].valid
  <2>1. PICK remaining : remaining = [segments EXCEPT ![slot] = NoSegment]
    OBVIOUS
  <2>2. /\ segments' = remaining
        /\ state' = [state EXCEPT !.oldest_generation = OldestGeneration(remaining)]
        /\ Call(RetireSteps)
    BY <1>2, <1>4, <1>8, <2>1 DEF Retire
  <2>3. /\ UNCHANGED <<state.next_generation, state.active_slot>>
        /\ state'.oldest_generation = OldestGeneration(remaining)
    BY <1>6, <2>2 DEF StateRecord
  <2>4. /\ remaining \in [Slots -> Descriptor] /\ slot \notin ValidSlots(remaining)
        /\ \A s \in ValidSlots(remaining) : s \in ValidSlots(segments) /\ remaining[s] = segments[s]
        /\ state.active_slot \in ValidSlots(remaining)
    <3>1. NoSegment \in Descriptor /\ NoSegment.valid = FALSE
      BY FreshType DEF NoSegment
    <3>. QED  BY <1>4, <1>6, <2>1, <3>1 DEF ValidSlots
  <2>5. checkpoint.oldest_generation <= OldestGeneration(remaining)
    <3>1. PICK u \in ValidSlots(remaining) : remaining[u].generation = OldestGeneration(remaining)
      BY <2>4, OldestBounds
    <3>2. OldestGeneration(segments) <= segments[u].generation
      BY <1>6, <2>4, <3>1, OldestBounds
    <3>. QED  BY <1>5, <2>4, <3>1, <3>2
  <2>6. At("commit")'
    <3>1. todo' = <<<<"commit", 0>>>> \o Tail(todo) /\ Tail(todo) \in Seq(Steps)
      BY <1>1, <2>2 DEF Call, RetireSteps, Do, TypeOK
    <3>. QED  BY <3>1 DEF At
  <2>7. \A s \in ValidSlots(segments)' : segments'[s].generation \in HeaderGenerations(s)' \ {0}
    <3>1. \A s \in ValidSlots(remaining) : remaining[s].generation \in HeaderGenerations(s) \ {0}
      BY <1>6, <2>4
    <3>2. \A s \in ValidSlots(remaining) : HeaderGenerations(s)' = HeaderGenerations(s)
      BY <1>5 DEF HeaderGenerations
    <3>3. ValidSlots(segments)' = ValidSlots(remaining)
      BY <2>2 DEF ValidSlots
    <3>. QED  BY <2>2, <3>1, <3>2, <3>3
  <2>8. /\ state'.active_slot \in ValidSlots(segments)' /\ NextSlot' \notin ValidSlots(segments)'
        /\ state'.oldest_generation = OldestGeneration(segments)'
    <3>1. ValidSlots(segments)' = ValidSlots(remaining)
          /\ OldestGeneration(segments)' = OldestGeneration(remaining) /\ NextSlot' = slot
      BY <1>4, <2>2, <2>3 DEF ValidSlots, OldestGeneration, NextSlot
    <3>. QED  BY <2>3, <2>4, <3>1
  <2>. QED  BY <1>3, <1>5, <2>3, <2>5, <2>6, <2>7, <2>8 DEF Retiring
<1>. QED  BY <1>7, <1>8

\* An activation takes the place of a retired segment, so the oldest is the same.
LEMMA ActivateRetiring ==
    ASSUME TypeOK, ControlInv, RotationInv, GenerationInv, RetirementInv, [Next]_vars, ~Choosing, Activate
    PROVE  Retiring' /\ Retained(state.next_generation)' /\ ~Has({"select"})'
<1>1. /\ todo # <<>> /\ Pending = {Head(todo)} \cup Rest /\ Head(todo)[1] = "activate"
      /\ Pending' = Rest
  BY MovesControl, BehindEntry DEF Moves, Activate, At
<1>2. \A y \in Rest : y[1] \notin {"retire", "header", "activate"}
  BY <1>1, BehindStep DEF Rotating, At
<1>3. Has({"activate"}) /\ ~Has({"header"}) /\ ~Has({"retire"}) /\ ~Has({"header", "activate"})'
  BY <1>1, <1>2 DEF Has
<1>4. ~Has({"select"}) /\ ~Has({"select"})'
  <2>1. ~Has({"select"})
    BY <1>3 DEF RotationInv, Has
  <2>. QED  BY <1>1, <2>1 DEF Has
<1>5. Chosen /\ Retiring /\ Retained(state.next_generation)
  BY <1>4 DEF GenerationInv, RetirementInv
<1>6. PICK n \in Nat \ {0} : n = state.next_generation /\ Upcoming(n) /\ NextSlot = Home(n)
                             /\ NextSlot # state.active_slot
  BY <1>5, NextHome DEF Chosen, Upcoming
<1>7. PICK slot \in Slots : slot = NextSlot
  BY <1>6, HomeType
<1>8. n \in HeaderGenerations(slot) /\ slot \notin ValidSlots(segments)
  BY <1>3, <1>5, <1>6, <1>7 DEF Chosen, Retiring, Has
<1>9. UNCHANGED <<headers, checkpoint>>
      /\ checkpoint.oldest_generation = OldestGeneration(segments)
      /\ checkpoint.oldest_generation = state.oldest_generation
  BY <1>1, <1>5 DEF Activate, medium, Retiring, At
<1>10. /\ segments \in [Slots -> Descriptor] /\ state \in StateRecord
       /\ \A s \in ValidSlots(segments) :
             /\ segments[s].generation \in HeaderGenerations(s) \ {0}
             /\ segments[s].generation < n
       /\ state.active_slot \in ValidSlots(segments)
  BY <1>5, <1>6 DEF TypeOK, MemoryTypeOK, Retiring, Chosen
<1>11. PICK activated : activated = [segments EXCEPT ![slot] = FreshSegment(n)]
  OBVIOUS
<1>12. /\ segments' = activated
       /\ state' = [state EXCEPT !.active_slot = slot, !.active_generation = n,
                                 !.next_generation = n + 1,
                                 !.oldest_generation = OldestGeneration(activated)]
  BY <1>6, <1>7, <1>11 DEF Activate
<1>13. /\ state'.next_generation = n + 1 /\ state'.active_slot = slot
       /\ state'.oldest_generation = OldestGeneration(activated)
  BY <1>10, <1>12 DEF StateRecord
<1>14. /\ activated \in [Slots -> Descriptor]
       /\ ValidSlots(activated) = ValidSlots(segments) \cup {slot}
       /\ activated[slot].generation = n
       /\ \A s \in ValidSlots(segments) : activated[s] = segments[s]
  <2>1. FreshSegment(n) \in Descriptor /\ FreshSegment(n).generation = n /\ FreshSegment(n).valid = TRUE
    BY FreshType DEF FreshSegment, NoSegment
  <2>. QED  BY <1>8, <1>10, <1>11, <2>1 DEF ValidSlots
<1>15. OldestGeneration(activated) = OldestGeneration(segments)
  <2>1. PICK t \in ValidSlots(segments) : segments[t].generation = OldestGeneration(segments)
    BY <1>10, OldestBounds
  <2>2. PICK o \in Nat : o = OldestGeneration(segments)
    BY <1>10, OldestBounds
  <2>3. \A s \in ValidSlots(segments) : o <= segments[s].generation
    BY <1>10, <2>2, OldestBounds
  <2>4. o <= n
    <3>1. segments[t].generation = o /\ segments[t].generation < n
      BY <1>10, <2>1, <2>2
    <3>. QED  BY <2>2, <3>1
  <2>5. \A s \in ValidSlots(activated) : o <= activated[s].generation
    BY <1>14, <2>3, <2>4
  <2>6. t \in ValidSlots(activated) /\ activated[t].generation = o
    BY <1>14, <2>1, <2>2
  <2>. QED  BY <1>14, <2>2, <2>5, <2>6, OldestUnique
<1>16. /\ ValidSlots(segments)' = ValidSlots(activated)
       /\ OldestGeneration(segments)' = OldestGeneration(activated)
  BY <1>12 DEF ValidSlots, OldestGeneration
<1>17. \A s \in ValidSlots(segments)' : segments'[s].generation \in HeaderGenerations(s)' \ {0}
  <2>1. \A s \in ValidSlots(activated) : activated[s].generation \in HeaderGenerations(s) \ {0}
    BY <1>6, <1>8, <1>10, <1>14
  <2>2. \A s \in ValidSlots(activated) : HeaderGenerations(s)' = HeaderGenerations(s)
    BY <1>9 DEF HeaderGenerations
  <2>. QED  BY <1>12, <1>16, <2>1, <2>2
<1>18. Retiring'
  <2>1. /\ state'.oldest_generation = OldestGeneration(segments)'
        /\ checkpoint'.oldest_generation = state'.oldest_generation
        /\ state'.oldest_generation \in Nat
    <3>1. OldestGeneration(segments) \in Nat
      BY <1>10, OldestBounds
    <3>. QED  BY <1>9, <1>13, <1>15, <1>16, <3>1
  <2>2. state'.active_slot \in ValidSlots(segments)'
    BY <1>13, <1>14, <1>16
  <2>. QED  BY <1>3, <1>17, <2>1, <2>2 DEF Retiring
<1>19. Retained(n + 1)'
  <2>1. PICK o \in Nat : o = checkpoint.oldest_generation
    BY DEF TypeOK, MediumTypeOK, StateRecord
  <2>2. n < o + SegmentCount /\ o >= 1 /\ o \in HeaderGenerations(Home(o)) /\ SegmentCount \in Nat
    BY <1>5, <1>6, <1>7, <1>8, <2>1, SegmentCountAssumption DEF Retained
  <2>3. n + 1 \notin HeaderGenerations(Home(n + 1))
    <3>1. Home(n + 1) \in Slots /\ n + 1 # 0 /\ ~(n + 1 <= n)
      BY HomeType
    <3>. QED  BY <1>6, <3>1, HeaderHome
  <2>4. o = checkpoint'.oldest_generation /\ o \in HeaderGenerations(Home(o))'
        /\ n + 1 \notin HeaderGenerations(Home(n + 1))'
    BY <1>9, <2>1, <2>2, <2>3 DEF HeaderGenerations
  <2>5. n + 1 <= o + SegmentCount
    BY <2>1, <2>2
  <2>. QED  BY <2>2, <2>4, <2>5 DEF Retained
<1>. QED  BY <1>4, <1>13, <1>18, <1>19

\* The retained segments do not depend on anything else.
LEMMA RetainedUnchanged ==
    ASSUME UNCHANGED headers, checkpoint'.oldest_generation = checkpoint.oldest_generation,
           NEW n, Retained(n)
    PROVE  Retained(n)'
  BY DEF Retained, HeaderGenerations

\* The generation after one whose header is in place replaces none of them either.
LEMMA RetainedNext ==
    ASSUME TypeOK, NEW k, Upcoming(k), Retained(k), NEW n \in Nat, n >= 2, HeadersUpTo(n)
    PROVE  Retained(n)
<1>1. PICK m \in Nat \ {0} : n = m + 1 /\ m = n - 1
  <2>1. n - 1 \in Nat \ {0} /\ n = (n - 1) + 1
    OBVIOUS
  <2>. QED  BY <2>1
<1>2. Home(m) \in Slots /\ Home(n) \in Slots /\ m \in HeaderGenerations(Home(m))
  BY <1>1, HomeType DEF HeadersUpTo
<1>3. k \in Nat /\ m <= k /\ (n \in HeaderGenerations(Home(n)) => n <= k)
  BY <1>1, <1>2, HeaderHome
<1>4. PICK o \in Nat : o = checkpoint.oldest_generation
  BY DEF TypeOK, MediumTypeOK, StateRecord
<1>5. /\ SegmentCount \in Nat /\ o >= 1 /\ o \in HeaderGenerations(Home(o))
      /\ k <= o + SegmentCount
      /\ k \in HeaderGenerations(Home(k)) => k < o + SegmentCount
  BY <1>4, SegmentCountAssumption DEF Retained
<1>6. n <= o + SegmentCount /\ (n \in HeaderGenerations(Home(n)) => n < o + SegmentCount)
  <2>1. CASE m = k
    BY <1>1, <1>2, <1>3, <1>5, <2>1
  <2>2. CASE m # k /\ n # k
    BY <1>1, <1>3, <1>5, <2>2
  <2>3. CASE n = k
    BY <1>5, <2>3
  <2>. QED  BY <2>1, <2>2, <2>3
<1>. QED  BY <1>4, <1>5, <1>6 DEF Retained

\* While the generation is being chosen.
LEMMA ChoosingRetained ==
    ASSUME TypeOK, ControlInv, IdInv, RotationInv, GenerationInv, RetirementInv, [Next]_vars
    PROVE  \E s \in Slots : \E g \in HeaderGenerations(s)' : Upcoming(g + 1)' /\ Retained(g + 1)'
<1>1. CASE ~Choosing
  <2>1. PICK n : n = state.next_generation /\ Upcoming(n)
    BY <1>1 DEF GenerationInv, Chosen
  <2>2. Upcoming(n)' /\ Retained(n)'
    BY <1>1, <2>1, UpcomingKept, RetainedKept
  <2>3. PICK g \in Nat \ {0} : g = n - 1 /\ n = g + 1
    <3>1. n - 1 \in Nat \ {0} /\ n = (n - 1) + 1
      BY <2>1 DEF Upcoming
    <3>. QED  BY <3>1
  <2>4. PICK s \in Slots : s = Home(g)
    BY HomeType
  <2>5. g \in HeaderGenerations(s)'
    BY <2>2, <2>3, <2>4 DEF Upcoming, HeadersUpTo
  <2>. QED  BY <2>2, <2>3, <2>5
<1>2. CASE Choosing
  <2>0. PICK s \in Slots : \E g \in HeaderGenerations(s) : Upcoming(g + 1) /\ Retained(g + 1)
    BY <1>2 DEF RetirementInv
  <2>1. PICK g \in HeaderGenerations(s) : Upcoming(g + 1) /\ Retained(g + 1)
    BY <2>0
  <2>2. PICK n : n = g + 1 /\ Upcoming(n) /\ Retained(n)
    BY <2>1
  <2>3. Upcoming(n)'
    BY <1>2, <2>2, UpcomingKept
  <2>4. headers' = headers
    BY <1>2, HeadersWritten, HeaderUnderway
  <2>5. checkpoint'.oldest_generation = checkpoint.oldest_generation
    <3>1. At("commit") => state.oldest_generation = checkpoint.oldest_generation
      BY <1>2 DEF At, ControlInv, Choosing, GenerationInv
    <3>. QED  BY <3>1, CheckpointWritten
  <2>6. Retained(n)'
    BY <2>2, <2>4, <2>5, RetainedUnchanged
  <2>7. g \in HeaderGenerations(s)'
    BY <2>4 DEF HeaderGenerations
  <2>. QED  BY <2>2, <2>3, <2>6, <2>7
<1>. QED  BY <1>1, <1>2

\* The choice itself.
LEMMA PickRetained ==
    ASSUME TypeOK, TypeOK', ControlInv, ControlInv', IdInv, RotationInv, RotationInv', GenerationInv,
           RetirementInv, [Next]_vars, PickHighest, ~Fail, mode' # "off"
    PROVE  /\ Retained(state.next_generation)'
           /\ Has({"select"})'
           /\ state'.oldest_generation = checkpoint'.oldest_generation
           /\ \A s \in Slots : Recovered(s)'
<1>1. /\ todo # <<>> /\ Pending = {Head(todo)} \cup Rest /\ Head(todo)[1] = "highest"
      /\ \A y \in Rest : y[1] # "recover"
  <2>1. At("highest") /\ todo # <<>> /\ Pending = {Head(todo)} \cup Rest
    BY BehindEntry DEF PickHighest, At
  <2>. QED  BY <2>1, BehindStep DEF At
<1>2. Has({"highest"}) /\ Choosing /\ \A s \in Slots : <<"recover", s>> \notin Pending
  <2>1. \A s \in Slots : <<"recover", s>> # Head(todo) /\ <<"recover", s>>[1] = "recover"
    BY <1>1
  <2>. QED  BY <1>1, <2>1 DEF Has, Choosing
<1>3. /\ state.oldest_generation = checkpoint.oldest_generation
      /\ \A s \in Slots : Recovered(s)
  BY <1>2 DEF GenerationInv
<1>4. UNCHANGED <<headers, checkpoint, segments>> /\ state'.oldest_generation = state.oldest_generation
  BY DEF PickHighest, medium, TypeOK, MemoryTypeOK, StateRecord
<1>5. \A s \in Slots : Recovered(s)'
  BY <1>3, <1>4 DEF Recovered, Described, HeaderReadable, HeaderGeneration, HeaderGenerations, Outdated
<1>6. Has({"select"})'
  <2>1. Pending' = Rest
    BY SetStateControl
  <2>2. Has({"select"})
    BY <1>2 DEF RotationInv, Has
  <2>. QED  BY <1>1, <2>1, <2>2 DEF Has
<1>7. PICK n : n = state'.next_generation /\ Upcoming(n)'
  BY PickChosen DEF Chosen
<1>8. n \in Nat /\ n >= 2 /\ HeadersUpTo(n)
  BY <1>4, <1>7 DEF Upcoming, HeadersUpTo, HeaderGenerations
<1>9. PICK s \in Slots : \E g \in HeaderGenerations(s) : Upcoming(g + 1) /\ Retained(g + 1)
  BY <1>2 DEF RetirementInv
<1>10. PICK k : Upcoming(k) /\ Retained(k)
  BY <1>9
<1>11. Retained(n)
  BY <1>8, <1>10, RetainedNext
<1>12. Retained(n)'
  BY <1>4, <1>11, RetainedUnchanged
<1>. QED  BY <1>3, <1>4, <1>5, <1>6, <1>7, <1>12

\* Recovery selects its active segment with memory and checkpoint in agreement.
LEMMA SelectRetiring ==
    ASSUME TypeOK, ControlInv, IdInv, RotationInv, GenerationInv, RetirementInv, [Next]_vars, ~Choosing,
           SelectActive, mode' # "off"
    PROVE  Retiring' /\ ~Has({"select"})' /\ UNCHANGED state.next_generation
<1>1. /\ Has({"select"}) /\ ~Has({"select", "retire", "header", "activate"})' /\ SameGenerations
      /\ UNCHANGED <<state.next_generation, state.active_slot>>
      /\ state.active_slot \in ValidSlots(segments)
      /\ state'.oldest_generation \in {state.oldest_generation, OldestGeneration(segments)}
  BY SelectEffect
<1>2. /\ Retained(state.next_generation) /\ Upcoming(state.next_generation)
      /\ state.oldest_generation = checkpoint.oldest_generation
      /\ \A s \in Slots : Recovered(s)
  BY <1>1 DEF RetirementInv, GenerationInv, Chosen
<1>3. /\ OldestGeneration(segments) = state.oldest_generation
      /\ \A s \in ValidSlots(segments) : segments[s].generation \in HeaderGenerations(s) \ {0}
  BY <1>2, RecoveredOldest
<1>4. UNCHANGED <<headers, checkpoint>>
  BY DEF SelectActive, medium
<1>5. /\ ValidSlots(segments)' = ValidSlots(segments)
      /\ OldestGeneration(segments)' = OldestGeneration(segments)
      /\ \A s \in ValidSlots(segments) : s \in Slots /\ segments'[s].generation = segments[s].generation
  BY <1>1, SameSummaries, SameOldest
<1>6. /\ state'.oldest_generation = OldestGeneration(segments)'
      /\ checkpoint'.oldest_generation = state'.oldest_generation
      /\ state'.oldest_generation \in Nat
  BY <1>1, <1>2, <1>3, <1>4, <1>5 DEF TypeOK, MediumTypeOK, StateRecord
<1>7. \A s \in ValidSlots(segments)' : segments'[s].generation \in HeaderGenerations(s)' \ {0}
  BY <1>3, <1>4, <1>5 DEF HeaderGenerations
<1>8. state'.active_slot \in ValidSlots(segments)'
  BY <1>1, <1>5
<1>. QED  BY <1>1, <1>6, <1>7, <1>8 DEF Retiring, Has

\* Settling changes none of the numbers.
LEMMA SettleNumbers ==
    ASSUME TypeOK, ControlInv, RotationInv, GenerationInv, RetirementInv, [Next]_vars, ~Choosing, Settle
    PROVE  /\ ~Has({"select"})
           /\ UNCHANGED <<state.next_generation, state.active_slot, state.oldest_generation>>
<1>1. todo # <<>> /\ Pending = {Head(todo)} \cup Rest /\ Head(todo)[1] = "settle"
      /\ \A y \in Rest : y[1] # "select"
  <2>1. At("settle") /\ todo # <<>> /\ Pending = {Head(todo)} \cup Rest
    BY BehindEntry DEF Settle, At
  <2>. QED  BY <2>1, BehindStep DEF At
<1>2. ~Has({"select"})
  BY <1>1 DEF Has
<1>3. Chosen /\ Retiring
  BY <1>2 DEF GenerationInv, RetirementInv
<1>4. PICK n \in Nat \ {0} : n = state.next_generation
  BY <1>3 DEF Chosen, Upcoming
<1>5. /\ RecoveredState(active_segment).next_generation = n
      /\ RecoveredState(active_segment).active_slot = active_segment.slot
      /\ RecoveredState(active_segment).oldest_generation = OldestGeneration(segments)
  <2>1. \A t \in ValidSlots(segments) : segments[t].generation < n
    BY <1>3, <1>4 DEF Chosen
  <2>. QED  BY <1>4, <2>1, SettledState
<1>6. active_segment.slot = state.active_slot /\ state.oldest_generation = OldestGeneration(segments)
  BY <1>2, <1>3 DEF Chosen, Retiring
<1>7. state' = RecoveredState(active_segment)
  BY DEF Settle, SetState
<1>. QED  BY <1>2, <1>4, <1>5, <1>6, <1>7

\* Between the choice and the selection.
LEMMA RecoveredKept ==
    ASSUME TypeOK, ControlInv, IdInv, RotationInv, GenerationInv, RetirementInv, [Next]_vars, ~Choosing,
           mode' # "off", Has({"select"}), ~At("select")
    PROVE  /\ UNCHANGED state.next_generation
           /\ state'.oldest_generation = checkpoint'.oldest_generation
           /\ \A s \in Slots : Recovered(s)'
<1>1. todo # <<>> /\ Pending = {Head(todo)} \cup Rest /\ mode # "off"
  <2>1. todo # <<>>
    BY DEF Has, Pending, StepsOf
  <2>. QED  BY <2>1, BehindEntry DEF Choosing
<1>2. /\ ~At("activate") /\ ~At("retire") /\ ~At("highest") /\ ~At("recover") /\ ~At("header")
  <2>1. ~Has({"retire", "header", "activate"}) /\ ~Has({"highest"}) /\ ~Has({"recover"})
    BY DEF RotationInv, Choosing, Has
  <2>. QED  BY <1>1, <2>1 DEF Has, At
<1>3. ~At("settle")
  <2>1. At("settle") => \A y \in Rest : y[1] # "select"
    BY <1>1, BehindStep
  <2>. QED  BY <1>1, <2>1 DEF Has, At
<1>4. UNCHANGED <<state.next_generation, state.active_slot, state.oldest_generation>>
  BY <1>1, <1>2, <1>3, NumbersKept
<1>5. SameGenerations
  <2>1. CASE ~At("seal_recovered")
    BY <1>2, <2>1, DescriptorsKept
  <2>2. CASE UNCHANGED vars
    BY <2>2 DEF vars, memory, SameGenerations
  <2>3. CASE At("seal_recovered") /\ ~UNCHANGED vars
    BY <2>3, HeadStep, SealRecoveredEffect
  <2>. QED  BY <2>1, <2>2, <2>3
<1>6. headers' = headers
  BY <1>2, HeadersWritten
<1>7. /\ state.oldest_generation = checkpoint.oldest_generation
      /\ \A s \in Slots : Recovered(s)
  BY DEF RetirementInv
<1>8. state'.oldest_generation = checkpoint'.oldest_generation
  BY <1>4, <1>7, CheckpointWritten
<1>9. \A s \in Slots : Recovered(s)'
  BY <1>4, <1>5, <1>6, <1>7 DEF Recovered, Described, HeaderReadable, HeaderGeneration, HeaderGenerations,
                                Outdated, SameGenerations
<1>. QED  BY <1>4, <1>8, <1>9

\* Once the generation is chosen.
LEMMA ChosenRetirement ==
    ASSUME TypeOK, ControlInv, IdInv, RotationInv, GenerationInv, RetirementInv, [Next]_vars,
           "io" \notin Faults, ~UNCHANGED vars, ~Choosing, mode' # "off"
    PROVE  /\ Retained(state.next_generation)'
           /\ IF Has({"select"})'
              THEN /\ state'.oldest_generation = checkpoint'.oldest_generation
                   /\ \A s \in Slots : Recovered(s)'
              ELSE Retiring'
<1>0. mode # "off" /\ ~Has({"highest"})
  BY DEF Choosing
<1>1. ASSUME UNCHANGED state.next_generation
      PROVE  Retained(state.next_generation)'
  <2>1. PICK n : n = state.next_generation
    OBVIOUS
  <2>2. Retained(n)'
    BY <2>1, RetainedKept
  <2>. QED  BY <1>1, <2>1, <2>2
<1>2. CASE At("select")
  BY <1>1, <1>2, HeadStep, SelectRetiring
<1>3. CASE Has({"select"}) /\ ~At("select")
  BY <1>0, <1>1, <1>3, SelectKept, RecoveredKept
<1>4. CASE ~Has({"select"}) /\ ~At("select")
  <2>1. ~Has({"select"})'
    BY <1>0, <1>4, SelectKept
  <2>2. CASE At("activate")
    BY <2>1, <2>2, HeadStep, ActivateRetiring
  <2>3. CASE At("retire")
    BY <1>1, <2>1, <2>3, HeadStep, RetireRetiring
  <2>4. CASE ~At("activate") /\ ~At("retire")
    <3>1. ~At("highest") /\ ~At("recover") /\ ~At("seal_recovered")
      <4>1. ~Has({"recover", "highest", "seal_recovered"})
        BY <1>0, <1>4 DEF RotationInv, Has
      <4>2. todo # <<>> => Pending = {Head(todo)} \cup Rest
        BY BehindEntry
      <4>. QED  BY <4>1, <4>2 DEF Has, At
    <3>2. UNCHANGED <<state.next_generation, state.active_slot, state.oldest_generation>>
      <4>1. CASE At("settle")
        BY <4>1, HeadStep, SettleNumbers
      <4>2. CASE ~At("settle")
        BY <1>0, <1>4, <2>4, <3>1, <4>2, NumbersKept
      <4>. QED  BY <4>1, <4>2
    <3>3. SameGenerations
      BY <1>4, <2>4, <3>1, DescriptorsKept
    <3>4. Retiring'
      BY <1>4, <2>4, <3>2, <3>3, RetiringSame
    <3>. QED  BY <1>1, <2>1, <3>2, <3>4
  <2>. QED  BY <2>2, <2>3, <2>4
<1>. QED  BY <1>2, <1>3, <1>4

\* Each step keeps the retained segments within one round of the ring.
LEMMA NextRetirement ==
    ASSUME "io" \notin Faults
    PROVE  TypeOK /\ TypeOK' /\ ControlInv /\ ControlInv' /\ IdInv /\ RotationInv /\ RotationInv'
               /\ GenerationInv /\ RetirementInv /\ [Next]_vars => RetirementInv'
<1>. SUFFICES ASSUME TypeOK, TypeOK', ControlInv, ControlInv', IdInv, RotationInv, RotationInv',
                     GenerationInv, RetirementInv, [Next]_vars
              PROVE  RetirementInv'
  OBVIOUS
<1>1. CASE Choosing'
  BY <1>1, ChoosingRetained DEF RetirementInv
<1>2. CASE Choosing /\ ~Choosing'
  <2>1. PickHighest /\ ~Fail /\ mode' # "off"
    BY <1>2, ChoosingEnds DEF Choosing
  <2>. QED  BY <1>2, <2>1, PickRetained DEF RetirementInv
<1>3. CASE ~Choosing /\ ~Choosing' /\ ~UNCHANGED vars
  <2>1. mode' # "off"
    BY <1>3 DEF Choosing
  <2>. QED  BY <1>3, <2>1, ChosenRetirement DEF RetirementInv
<1>4. CASE ~Choosing /\ UNCHANGED vars
  <2>1. UNCHANGED <<headers, checkpoint, state, segments, todo, mode>>
    BY <1>4 DEF vars, medium, memory, control
  <2>2. /\ Retained(state.next_generation)
        /\ IF Has({"select"})
           THEN /\ state.oldest_generation = checkpoint.oldest_generation
                /\ \A s \in Slots : Recovered(s)
           ELSE Retiring
    BY <1>4 DEF RetirementInv
  <2>3. /\ \A s \in Slots : HeaderGenerations(s)' = HeaderGenerations(s)
        /\ \A names : Has(names)' = Has(names)
        /\ ValidSlots(segments)' = ValidSlots(segments) /\ NextSlot' = NextSlot
        /\ OldestGeneration(segments)' = OldestGeneration(segments)
    BY <2>1 DEF HeaderGenerations, Has, Pending, ValidSlots, NextSlot, OldestGeneration
  <2>4. Retained(state.next_generation)'
    <3>1. PICK n : n = state.next_generation
      OBVIOUS
    <3>2. Retained(n)'
      BY <2>1, <2>2, <3>1, RetainedUnchanged
    <3>. QED  BY <2>1, <3>1, <3>2
  <2>5. \A s \in Slots : Recovered(s) => Recovered(s)'
    BY <2>1 DEF Recovered, Described, HeaderReadable, HeaderGeneration, HeaderGenerations, Outdated
  <2>6. Retiring => Retiring'
    <3>1. ValidSlots(segments) \in SUBSET Slots /\ (At("commit")' <=> At("commit"))
      BY <2>1 DEF ValidSlots, At
    <3>. QED  BY <2>1, <2>3, <3>1 DEF Retiring
  <2>7. ~Choosing'
    BY <1>4, <2>1, <2>3 DEF Choosing
  <2>. QED  BY <2>1, <2>2, <2>3, <2>4, <2>5, <2>6, <2>7 DEF RetirementInv
<1>. QED  BY <1>1, <1>2, <1>3, <1>4

\* A provisioned store retains generation 1.
LEMMA InitRetirement == Init => RetirementInv
<1>. SUFFICES ASSUME Init PROVE RetirementInv
  OBVIOUS
<1>1. Choosing
  BY DEF Init, Choosing
<1>2. PICK s \in Slots : \E g \in HeaderGenerations(s) : Upcoming(g + 1)
  BY <1>1, InitGeneration DEF GenerationInv
<1>3. PICK g \in HeaderGenerations(s) : Upcoming(g + 1)
  BY <1>2
<1>4. PICK k : k = g + 1 /\ Upcoming(k) /\ k >= 2
  BY <1>3 DEF Upcoming
<1>5. \A t \in Slots : HeaderGenerations(t) = {IF t = 0 THEN 1 ELSE 0}
  BY GarbageAssumption DEF Init, HeaderGenerations, Copies
<1>6. checkpoint.oldest_generation = 1
  BY DEF Init, Provisioned, ZeroState
<1>7. g = 1
  BY <1>3, <1>4, <1>5
<1>8. Retained(g + 1)
  <2>1. Home(1) = 0 /\ Home(2) # 0 /\ Home(2) \in Slots /\ 0 \in Slots
    BY SegmentCountAssumption DEF Home, Slots
  <2>2. 1 \in HeaderGenerations(0) /\ 2 \notin HeaderGenerations(Home(2))
    BY <1>5, <2>1
  <2>. QED  BY <1>6, <1>7, <2>1, <2>2, SegmentCountAssumption DEF Retained
<1>. QED  BY <1>1, <1>3, <1>8 DEF RetirementInv

\* A header is overwritten only when the segment it names is durably retired, as
\* long as no write fails (open_next_segment_unsafe, segment.cpp:868).
THEOREM RetirementCorrect ==
    ASSUME "io" \notin Faults
    PROVE  Spec => RetiredBeforeReuse
<1>. DEFINE Inv == TypeOK /\ ControlInv /\ SpaceInv /\ IdInv /\ RotationInv /\ GenerationInv /\ RetirementInv
            Reuse == \A s \in Slots :
                         headers'[s] # headers[s] =>
                             \A g \in HeaderGenerations(s) :
                                 g = 0 \/ g < checkpoint.oldest_generation \/ g = state.next_generation
<1>1. Init => Inv
  BY InitType, InitSpace, InitIds, InitGeneration, InitRetirement
<1>2. Inv /\ [Next]_vars => Inv'
  BY NextType, NextSpace, NextIds, NextRotation, NextGeneration, NextRetirement
<1>3. Inv /\ [Next]_vars => [Reuse]_vars
  <2>. SUFFICES ASSUME Inv, [Next]_vars, NEW s \in Slots, headers'[s] # headers[s],
                       NEW g \in HeaderGenerations(s), g # 0, g # state.next_generation
                PROVE  g < checkpoint.oldest_generation
    OBVIOUS
  <2>1. /\ At("header") /\ s = NextSlot
    BY HeadersWritten
  <2>2. ~Choosing
    BY <2>1, HeaderUnderway
  <2>3. PICK n : n = state.next_generation /\ Upcoming(n) /\ NextSlot = Home(n)
    BY <2>2, NextHome DEF GenerationInv, Chosen
  <2>4. g \in Nat \ {0} /\ g <= n /\ Home(g) = s /\ n \in Nat \ {0}
    BY <2>3, HeaderHome
  <2>5. g + SegmentCount <= n
    BY <2>1, <2>3, <2>4, HomeApart
  <2>6. n < checkpoint.oldest_generation + SegmentCount
    BY <2>1, <2>3, HeaderRoom
  <2>7. checkpoint.oldest_generation \in Nat /\ SegmentCount \in Nat
    BY SegmentCountAssumption DEF TypeOK, MediumTypeOK, StateRecord
  <2>. QED  BY <2>4, <2>5, <2>6, <2>7
<1>4. RetiredBeforeReuse <=> [][Reuse]_vars
  BY DEF RetiredBeforeReuse
<1>. HIDE DEF Inv, Reuse
<1>. QED  BY <1>1, <1>2, <1>3, <1>4, PTL DEF Spec

-----------------------------------------------------------------------------
(* Entries one after the other.                                            *)

\* The cells of a data area or of what a reader sees of it.
Cells == [Offsets -> Cell \cup {Garbage}]

\* The entry a cell belongs to starts at a cell of its own.
LEMMA WholeStart ==
    ASSUME NEW cells \in Cells, NEW g, NEW end \in 0 .. Capacity, Tiled(cells, g, end),
           NEW o \in 0 .. end - 1
    PROVE  /\ cells[o] \in Cell /\ o - cells[o].part \in 0 .. o
           /\ cells[o - cells[o].part] = [cells[o] EXCEPT !.part = 0]
           /\ (o - cells[o].part) + cells[o].size \in o + 1 .. end
<1>1. o \in Offsets /\ Whole(cells, g, end, o) /\ end \in Nat /\ Capacity \in Nat
  BY CapacityAssumption DEF Offsets, Tiled
<1>2. cells[o] \in Cell
  BY <1>1 DEF Cells, Whole
<1>3. cells[o].part \in Nat /\ cells[o].size \in Nat \ {0} /\ 0 \in 0 .. cells[o].size - 1
  BY <1>2 DEF Cell
<1>4. cells[(o - cells[o].part) + 0] = [cells[o] EXCEPT !.part = 0]
  BY <1>1, <1>3 DEF Whole
<1>. QED  BY <1>1, <1>2, <1>3, <1>4 DEF Whole

\* One more entry, with a greater id.
Extends(new, cells, g, end, id, n) ==
    /\ cells \in Cells /\ new \in Cells /\ g \in Nat /\ id \in Nat \ {0}
    /\ end \in 0 .. Capacity /\ n \in 1 .. Capacity /\ end + n <= Capacity
    /\ Tiled(cells, g, end)
    /\ \A o \in 0 .. end - 1 : new[o] = cells[o] /\ cells[o].id < id
    /\ \A k \in 1 .. n : new[end + k - 1] = EntryCells(id, g, n)[k]

\* Entries that are appended extend the whole ones.
LEMMA TiledExtend ==
    ASSUME NEW cells, NEW new, NEW g, NEW end, NEW id, NEW n, Extends(new, cells, g, end, id, n)
    PROVE  /\ Tiled(new, g, end + n)
           /\ \A o \in end .. end + n - 1 : new[o].id = id /\ new[o].part = o - end
<1>. /\ cells \in Cells /\ new \in Cells /\ g \in Nat /\ id \in Nat \ {0}
     /\ end \in 0 .. Capacity /\ n \in 1 .. Capacity /\ end + n <= Capacity
     /\ Tiled(cells, g, end)
     /\ \A o \in 0 .. end - 1 : new[o] = cells[o] /\ cells[o].id < id
     /\ \A k \in 1 .. n : new[end + k - 1] = EntryCells(id, g, n)[k]
  BY DEF Extends
<1>. DEFINE entry == [id |-> id, generation |-> g, size |-> n, part |-> 0]
<1>0. end \in Nat /\ n \in Nat \ {0} /\ Capacity \in Nat /\ Garbage \notin Cell
  BY CapacityAssumption, GarbageCellAssumption
<1>1. ASSUME NEW o \in end .. end + n - 1
      PROVE  /\ new[o] = [entry EXCEPT !.part = o - end]
             /\ new[o].id = id /\ new[o].part = o - end /\ new[o].size = n /\ new[o].generation = g
  <2>1. o - end + 1 \in 1 .. n /\ end + (o - end + 1) - 1 = o
    BY <1>0
  <2>2. new[o] = EntryCells(id, g, n)[o - end + 1]
    BY <2>1
  <2>. QED  BY <2>1, <2>2 DEF EntryCells
<1>2. ASSUME NEW o \in 0 .. end - 1 PROVE Whole(new, g, end + n, o)
  <2>1. Whole(cells, g, end, o) /\ new[o] = cells[o] /\ cells[o] \in Cell
    BY <1>0, WholeStart DEF Tiled
  <2>2. cells[o].part \in Nat /\ cells[o].size \in Nat
    BY <2>1 DEF Cell
  <2>3. ASSUME NEW k \in 0 .. cells[o].size - 1
        PROVE  new[(o - cells[o].part) + k] = [cells[o] EXCEPT !.part = k]
    <3>1. (o - cells[o].part) + k \in 0 .. end - 1
      BY <1>0, <2>1, <2>2 DEF Whole
    <3>. QED  BY <2>1, <3>1 DEF Whole
  <2>4. (o - cells[o].part) + cells[o].size <= end + n
    BY <1>0, <2>1, <2>2 DEF Whole
  <2>. QED  BY <2>1, <2>3, <2>4 DEF Whole
<1>3. ASSUME NEW o \in end .. end + n - 1 PROVE Whole(new, g, end + n, o)
  <2>0. /\ new[o] = [entry EXCEPT !.part = o - end] /\ new[o].part = o - end
        /\ new[o].id = id /\ new[o].size = n /\ new[o].generation = g
        /\ o \in Nat /\ o >= end /\ o < end + n
    BY <1>0, <1>1
  <2>1. ASSUME NEW k \in 0 .. n - 1 PROVE new[(o - new[o].part) + k] = [new[o] EXCEPT !.part = k]
    <3>1. (o - new[o].part) + k = end + k /\ end + k \in end .. end + n - 1 /\ (end + k) - end = k
      BY <1>0, <2>0
    <3>2. new[end + k] = [entry EXCEPT !.part = k]
      BY <1>1, <3>1
    <3>. QED  BY <2>0, <3>1, <3>2
  <2>3. new[o] \in Cell
    <3>1. id \in Nat /\ g \in Nat /\ n \in Nat \ {0} /\ o - end \in Nat
      BY <1>0, <2>0
    <3>. QED  BY <2>0, <3>1 DEF Cell
  <2>4. new[o] # Garbage
    BY <1>0, <2>3
  <2>5. new[o].part <= o /\ new[o].part < new[o].size /\ (o - new[o].part) + new[o].size <= end + n
    BY <1>0, <2>0
  <2>. QED  BY <2>0, <2>1, <2>4, <2>5 DEF Whole
<1>4. ASSUME NEW o \in 0 .. end + n - 1, NEW p \in 0 .. end + n - 1, p < o, new[o].part = 0
      PROVE  new[p].id < new[o].id
  <2>1. CASE o < end
    <3>1. o \in 0 .. end - 1 /\ p \in 0 .. end - 1
      BY <1>0, <1>4, <2>1
    <3>. QED  BY <1>4, <3>1 DEF Tiled
  <2>2. CASE o >= end
    <3>1. o \in end .. end + n - 1
      BY <1>0, <2>2
    <3>0. new[o].part = o - end /\ new[o].id = id
      BY <1>1, <3>1
    <3>2. o = end /\ new[o].id = id
      BY <1>0, <1>4, <3>0, <3>1
    <3>3. p \in 0 .. end - 1
      BY <1>0, <1>4, <3>2
    <3>. QED  BY <3>2, <3>3
  <2>. QED  BY <1>0, <2>1, <2>2
<1>5. \A o \in 0 .. end + n - 1 : o \in 0 .. end - 1 \/ o \in end .. end + n - 1
  BY <1>0
<1>6. ASSUME NEW o \in 0 .. end + n - 1 PROVE Whole(new, g, end + n, o)
  BY <1>2, <1>3, <1>5
<1>7. Tiled(new, g, end + n)
  BY <1>4, <1>6 DEF Tiled
<1>. QED  BY <1>1, <1>7

\* Cells that are not overwritten stay as they are.
LEMMA TiledSame ==
    ASSUME NEW cells, NEW new, NEW g, NEW end \in Nat, Tiled(cells, g, end),
           cells \in Cells, end <= Capacity,
           \A o \in 0 .. end - 1 : new[o] = cells[o]
    PROVE  Tiled(new, g, end)
<1>1. ASSUME NEW o \in 0 .. end - 1 PROVE Whole(new, g, end, o)
  <2>0. end \in 0 .. Capacity
    BY CapacityAssumption
  <2>1. Whole(cells, g, end, o) /\ new[o] = cells[o] /\ cells[o] \in Cell
    BY <2>0, WholeStart DEF Tiled
  <2>2. cells[o].part \in Nat /\ cells[o].size \in Nat
    BY <2>1 DEF Cell
  <2>3. ASSUME NEW k \in 0 .. cells[o].size - 1
        PROVE  new[(o - cells[o].part) + k] = [cells[o] EXCEPT !.part = k]
    <3>1. (o - cells[o].part) + k \in 0 .. end - 1
      BY <2>1, <2>2 DEF Whole
    <3>. QED  BY <2>1, <3>1 DEF Whole
  <2>. QED  BY <2>1, <2>3 DEF Whole
<1>. QED  BY <1>1 DEF Tiled

\* The entries up to where one of them starts.
LEMMA TiledPrefix ==
    ASSUME NEW cells \in Cells, NEW g, NEW end \in 0 .. Capacity, Tiled(cells, g, end),
           NEW cut \in 0 .. end, cut = end \/ cells[cut].part = 0
    PROVE  Tiled(cells, g, cut)
<1>0. end \in Nat /\ cut \in Nat /\ Capacity \in Nat
  BY CapacityAssumption
<1>1. ASSUME NEW o \in 0 .. cut - 1 PROVE Whole(cells, g, cut, o)
  <2>0. o \in 0 .. end - 1
    BY <1>0
  <2>1. Whole(cells, g, end, o) /\ cells[o] \in Cell
    BY <2>0, WholeStart DEF Tiled
  <2>2. cells[o].part \in Nat /\ cells[o].size \in Nat
    BY <2>1 DEF Cell
  <2>3. (o - cells[o].part) + cells[o].size <= cut
    <3>. SUFFICES ASSUME (o - cells[o].part) + cells[o].size > cut PROVE FALSE
      BY <1>0, <2>2
    <3>1. cut # end
      BY <2>1, <2>2, <1>0 DEF Whole
    <3>. DEFINE k == cut - (o - cells[o].part)
    <3>2. k \in 0 .. cells[o].size - 1 /\ (o - cells[o].part) + k = cut /\ k # 0
      BY <1>0, <2>1, <2>2 DEF Whole
    <3>3. cells[cut] = [cells[o] EXCEPT !.part = k]
      BY <2>1, <3>2 DEF Whole
    <3>. QED  BY <2>1, <3>1, <3>2, <3>3 DEF Cell
  <2>. QED  BY <2>1, <2>3 DEF Whole
<1>2. ASSUME NEW o \in 0 .. cut - 1, NEW p \in 0 .. cut - 1, p < o, cells[o].part = 0
      PROVE  cells[p].id < cells[o].id
  <2>. o \in 0 .. end - 1 /\ p \in 0 .. end - 1
    BY <1>0
  <2>. QED  BY <1>2 DEF Tiled
<1>. QED  BY <1>1, <1>2 DEF Tiled

\* The entries that a scan finds follow each other from the start.
LEMMA ScannedChain ==
    ASSUME NEW s, NEW g
    PROVE  /\ \A o \in ScannedEntries(s, g) :
                 /\ o \in Offsets /\ EntryAt(s, g, o)
                 /\ o # 0 => \E p \in ScannedEntries(s, g) : Follows(s, p, o)
           /\ \A R \in SUBSET Offsets :
                 (\A o \in R : EntryAt(s, g, o)) /\ IsChain(s, R) => R \subseteq ScannedEntries(s, g)
<1>. DEFINE E == {o \in Offsets : EntryAt(s, g, o)}
            C == {R \in SUBSET E : IsChain(s, R)}
<1>0. ScannedEntries(s, g) = UNION C
  BY DEF ScannedEntries
<1>1. ASSUME NEW o \in ScannedEntries(s, g)
      PROVE  /\ o \in Offsets /\ EntryAt(s, g, o)
             /\ o # 0 => \E p \in ScannedEntries(s, g) : Follows(s, p, o)
  <2>1. PICK R \in C : o \in R
    BY <1>0
  <2>2. R \subseteq ScannedEntries(s, g)
    BY <1>0
  <2>3. o \in E /\ (o # 0 => \E p \in R : Follows(s, p, o))
    BY <2>1 DEF IsChain
  <2>. QED  BY <2>2, <2>3
<1>2. ASSUME NEW R \in SUBSET Offsets, \A o \in R : EntryAt(s, g, o), IsChain(s, R)
      PROVE  R \subseteq ScannedEntries(s, g)
  <2>1. R \in C
    BY <1>2
  <2>. QED  BY <1>0, <2>1
<1>. QED  BY <1>1, <1>2

\* Every entry of a tiled data area is found.
LEMMA TiledScanned ==
    ASSUME MediumTypeOK, NEW s \in Slots, NEW g, NEW end \in 0 .. Capacity, Tiled(data[s], g, end),
           NEW o \in 0 .. end - 1, data[s][o].part = 0
    PROVE  o \in ScannedEntries(s, g)
<1>. DEFINE R == {p \in 0 .. end - 1 : data[s][p].part = 0}
<1>0. end \in Nat /\ Capacity \in Nat /\ data[s] \in Cells
  BY CapacityAssumption DEF MediumTypeOK, Cells
<1>1. R \in SUBSET Offsets
  BY <1>0 DEF Offsets
<1>2. ASSUME NEW p \in R PROVE EntryAt(s, g, p)
  <2>1. Whole(data[s], g, end, p) /\ data[s][p] \in Cell /\ data[s][p].part = 0
    BY <1>0, WholeStart DEF Tiled
  <2>2. (p - data[s][p].part) = p /\ data[s][p].size \in Nat
    BY <1>0, <2>1 DEF Cell
  <2>. QED  BY <1>0, <2>1, <2>2 DEF EntryAt, Whole
<1>3. ASSUME NEW p \in R \ {0} PROVE \E q \in R : Follows(s, q, p)
  <2>1. p - 1 \in 0 .. end - 1 /\ p \in Nat
    BY <1>0
  <2>. DEFINE c == data[s][p - 1]
              q == (p - 1) - c.part
  <2>2. c \in Cell /\ q \in 0 .. p - 1 /\ data[s][q] = [c EXCEPT !.part = 0]
        /\ q + c.size \in p .. end /\ Whole(data[s], g, end, p - 1)
    <3>1. Whole(data[s], g, end, p - 1)
      BY <2>1 DEF Tiled
    <3>2. /\ c \in Cell /\ q \in 0 .. p - 1 /\ data[s][q] = [c EXCEPT !.part = 0]
          /\ q + c.size \in (p - 1) + 1 .. end
      <4>1. ASSUME NEW x \in 0 .. end - 1
            PROVE  /\ data[s][x] \in Cell /\ x - data[s][x].part \in 0 .. x
                   /\ data[s][x - data[s][x].part] = [data[s][x] EXCEPT !.part = 0]
                   /\ (x - data[s][x].part) + data[s][x].size \in x + 1 .. end
        BY <1>0, WholeStart
      <4>. QED  BY <2>1, <4>1
    <3>. QED  BY <2>1, <3>1, <3>2
  <2>3. data[s][q].part = 0 /\ data[s][q].size = c.size /\ c.size \in Nat /\ q \in Nat
    BY <2>1, <2>2 DEF Cell
  <2>4. q + c.size = p
    <3>. SUFFICES ASSUME q + c.size # p PROVE FALSE
      OBVIOUS
    <3>. DEFINE k == p - q
    <3>1. k \in 0 .. c.size - 1 /\ q + k = p /\ k # 0
      BY <1>0, <2>1, <2>2, <2>3
    <3>2. data[s][p] = [c EXCEPT !.part = k]
      BY <2>2, <3>1 DEF Whole
    <3>. QED  BY <2>2, <3>1, <3>2 DEF Cell
  <2>5. q \in 0 .. end - 1 /\ q < p
    BY <1>0, <2>1, <2>2
  <2>6. data[s][q].id < data[s][p].id
    BY <2>5 DEF Tiled
  <2>. QED  BY <2>3, <2>4, <2>5, <2>6 DEF Follows
<1>. QED  BY <1>1, <1>2, <1>3, ScannedChain DEF IsChain

\* What EntryAt says of the cells.
LEMMA EntryCell ==
    ASSUME MediumTypeOK, NEW s \in Slots, NEW g, NEW o \in Offsets, EntryAt(s, g, o)
    PROVE  /\ data[s][o] \in Cell /\ data[s][o].size \in Nat \ {0} /\ data[s][o].id \in Nat \ {0}
           /\ o \in Nat /\ o + data[s][o].size <= Capacity
           /\ data[s][o].part = 0 /\ data[s][o].generation = g
<1>1. data[s][o] \in Cell
  BY DEF MediumTypeOK, EntryAt
<1>. QED  BY <1>1, CapacityAssumption DEF Cell, Offsets, EntryAt

\* The entries found do not overlap, and their ids increase.
LEMMA ScannedOrder ==
    ASSUME MediumTypeOK, NEW s \in Slots, NEW g,
           NEW o \in ScannedEntries(s, g), NEW p \in ScannedEntries(s, g), o < p
    PROVE  o + data[s][o].size <= p /\ data[s][o].id < data[s][p].id
<1>. DEFINE R == ScannedEntries(s, g)
            size(x) == data[s][x].size
            id(x) == data[s][x].id
<1>0. /\ R \in SUBSET Nat
      /\ \A x \in R : size(x) \in Nat \ {0} /\ id(x) \in Nat /\ x \in Nat
      /\ \A x \in R : x # 0 => \E y \in R : y + size(y) = x /\ id(y) < id(x)
  <2>1. \A x \in R : x \in Offsets /\ EntryAt(s, g, x)
    BY ScannedChain
  <2>2. \A x \in R : x # 0 => \E y \in R : Follows(s, y, x)
    BY ScannedChain
  <2>. QED  BY <2>1, <2>2, EntryCell DEF Follows
<1>. HIDE DEF R, size, id
<1>1. \A x, y \in R : x < y => x + size(x) <= y
  <2>. DEFINE B == {y \in R : \E x \in R : x < y /\ x + size(x) > y}
  <2>. SUFFICES B = {}
    BY <1>0
  <2>. SUFFICES ASSUME B # {} PROVE FALSE
    OBVIOUS
  <2>1. PICK y \in B : \A z \in B : y <= z
    <3>. HIDE DEF B
    <3>1. B \in SUBSET Nat
      BY <1>0 DEF B
    <3>. QED  BY <3>1, LeastNatural
  <2>2. PICK x \in R : x < y /\ x + size(x) > y
    OBVIOUS
  <2>3. PICK z \in R : z + size(z) = y
    BY <1>0, <2>2
  <2>4. z < y
    BY <1>0, <2>3
  <2>5. CASE z < x
    <3>1. x \in B
      BY <1>0, <2>2, <2>3, <2>5
    <3>. QED  BY <1>0, <2>1, <2>2, <3>1
  <2>6. CASE z > x
    <3>1. z \in B
      BY <1>0, <2>2, <2>4, <2>6
    <3>. QED  BY <1>0, <2>1, <2>4, <3>1
  <2>. QED  BY <1>0, <2>2, <2>3, <2>5, <2>6
<1>2. \A x, y \in R : x < y => id(x) < id(y)
  <2>. DEFINE B == {y \in R : \E x \in R : x < y /\ ~(id(x) < id(y))}
  <2>. SUFFICES B = {}
    BY <1>0
  <2>. SUFFICES ASSUME B # {} PROVE FALSE
    OBVIOUS
  <2>1. PICK y \in B : \A z \in B : y <= z
    <3>. HIDE DEF B
    <3>1. B \in SUBSET Nat
      BY <1>0 DEF B
    <3>. QED  BY <3>1, LeastNatural
  <2>2. PICK x \in R : x < y /\ ~(id(x) < id(y))
    OBVIOUS
  <2>3. PICK z \in R : z + size(z) = y /\ id(z) < id(y)
    BY <1>0, <2>2
  <2>4. z < y
    BY <1>0, <2>3
  <2>5. ~(z < x)
    <3>. SUFFICES ASSUME z < x PROVE FALSE
      OBVIOUS
    <3>1. z + size(z) <= x
      BY <1>1
    <3>. QED  BY <1>0, <2>2, <2>3, <3>1
  <2>6. CASE x < z
    <3>1. id(x) < id(z)
      BY <1>0, <2>1, <2>4, <2>6
    <3>. QED  BY <1>0, <2>2, <2>3, <3>1
  <2>. QED  BY <1>0, <2>2, <2>3, <2>5, <2>6
<1>3. o \in R /\ p \in R
  BY DEF R
<1>4. o + size(o) <= p /\ id(o) < id(p)
  BY <1>1, <1>2, <1>3
<1>. QED  BY <1>4 DEF size, id

\* A scan reaches past each of its entries, and the first of them is at the start.
LEMMA ScanReach ==
    ASSUME MediumTypeOK, NEW s \in Slots, NEW g, NEW b
    PROVE  /\ Scan(s, g, b).data_end \in 0 .. Capacity
           /\ \A o \in ScannedEntries(s, g) : o + data[s][o].size <= Scan(s, g, b).data_end
           /\ ScannedEntries(s, g) # {} =>
                 /\ 0 \in ScannedEntries(s, g)
                 /\ \E o \in ScannedEntries(s, g) :
                       /\ o + data[s][o].size = Scan(s, g, b).data_end
                       /\ \A p \in ScannedEntries(s, g) : p <= o
<1>. DEFINE R == ScannedEntries(s, g)
<1>0. R \in SUBSET Offsets /\ IsFiniteSet(R) /\ \A x \in R : EntryAt(s, g, x)
  BY ScannedType, ScannedChain
<1>1. CASE R = {}
  <2>1. Scan(s, g, b).data_end = 0
    BY <1>1 DEF Scan, FreshSegment, NoSegment
  <2>. QED  BY <1>1, <2>1, CapacityAssumption
<1>2. CASE R # {}
  <2>. DEFINE last == Max(R)
  <2>1. last \in R /\ \A y \in R : y <= last
    <3>1. R \in SUBSET Nat
      BY <1>0 DEF Offsets
    <3>. QED  BY <1>0, <1>2, <3>1, MaxBound
  <2>2. Scan(s, g, b).data_end = last + data[s][last].size
    BY <1>2 DEF Scan
  <2>3. last \in Nat /\ data[s][last].size \in Nat /\ last + data[s][last].size <= Capacity
    BY <1>0, <2>1, EntryCell
  <2>4. ASSUME NEW o \in R PROVE o + data[s][o].size <= last + data[s][last].size
    <3>1. o \in Nat /\ data[s][o].size \in Nat
      BY <1>0, EntryCell
    <3>2. CASE o < last
      BY <2>1, <2>3, <3>1, <3>2, ScannedOrder
    <3>. QED  BY <2>1, <2>3, <3>1, <3>2
  <2>5. 0 \in R
    <3>1. R \in SUBSET Nat
      BY <1>0 DEF Offsets
    <3>2. PICK x \in R : \A y \in R : x <= y
      BY <1>2, <3>1, LeastNatural
    <3>3. ASSUME x # 0 PROVE FALSE
      <4>1. PICK y \in R : Follows(s, y, x)
        BY <3>3, ScannedChain
      <4>2. y \in Nat /\ data[s][y].size \in Nat \ {0}
        BY <1>0, EntryCell
      <4>. QED  BY <3>1, <3>2, <4>1, <4>2 DEF Follows
    <3>. QED  BY <3>3
  <2>. QED  BY <2>1, <2>2, <2>3, <2>4, <2>5, CapacityAssumption
<1>. QED  BY <1>1, <1>2

\* A scan leaves the descriptor of a tiled data area.
LEMMA ScanTiled ==
    ASSUME MediumTypeOK, NEW s \in Slots, NEW g, NEW b
    PROVE  Tiled(data[s], g, Scan(s, g, b).data_end)
<1>. DEFINE R == ScannedEntries(s, g)
            end == Scan(s, g, b).data_end
<1>0. /\ R \in SUBSET Nat /\ IsFiniteSet(R) /\ end \in Nat
      /\ \A x \in R : /\ x \in Offsets /\ EntryAt(s, g, x) /\ data[s][x].size \in Nat \ {0}
                      /\ x + data[s][x].size <= end /\ data[s][x] \in Cell
                      /\ data[s][x].id \in Nat
  <2>1. R \in SUBSET Offsets /\ IsFiniteSet(R) /\ \A x \in R : EntryAt(s, g, x)
    BY ScannedType, ScannedChain
  <2>2. R \in SUBSET Nat
    BY <2>1 DEF Offsets
  <2>3. end \in Nat /\ \A x \in R : x + data[s][x].size <= end
    BY ScanReach, CapacityAssumption
  <2>. QED  BY <2>1, <2>2, <2>3, EntryCell
<1>1. ASSUME NEW o \in 0 .. end - 1
      PROVE  \E q \in R : q <= o /\ o < q + data[s][q].size
  <2>0. R # {}
    <3>. SUFFICES ASSUME R = {} PROVE FALSE
      OBVIOUS
    <3>1. end = 0
      BY DEF Scan, FreshSegment, NoSegment
    <3>. QED  BY <3>1
  <2>1. 0 \in R
    BY <2>0, ScanReach
  <2>2. PICK last \in R : last + data[s][last].size = end /\ \A p \in R : p <= last
    BY <2>0, ScanReach
  <2>. DEFINE L == {x \in R : x <= o}
  <2>3. PICK q \in L : \A y \in L : y <= q
    <3>1. L \in SUBSET Nat /\ IsFiniteSet(L) /\ L # {}
      BY <1>0, <2>1, FS_Subset
    <3>2. Max(L) \in L /\ \A y \in L : y <= Max(L)
      BY <3>1, MaxBound
    <3>. QED  BY <3>2
  <2>4. ASSUME q + data[s][q].size <= o PROVE FALSE
    <3>. DEFINE G == {x \in R : x > o}
    <3>1. last \in G
      BY <1>0, <2>2, <2>3, <2>4
    <3>2. PICK r \in G : \A y \in G : r <= y
      <4>1. G \in SUBSET Nat /\ G # {}
        BY <1>0, <3>1
      <4>. QED  BY <4>1, LeastNatural
    <3>3. PICK p \in R : Follows(s, p, r)
      <4>1. r # 0
        BY <1>0, <3>2
      <4>. QED  BY <4>1, ScannedChain
    <3>4. p + data[s][p].size = r
      BY <3>3 DEF Follows
    <3>5. p <= o
      BY <1>0, <3>2, <3>4
    <3>6. p <= q
      BY <2>3, <3>5
    <3>7. CASE p < q
      <4>1. p + data[s][p].size <= q
        BY <3>7, ScannedOrder
      <4>. QED  BY <1>0, <2>3, <3>2, <3>4, <4>1
    <3>. QED  BY <1>0, <2>3, <2>4, <3>2, <3>4, <3>6, <3>7
  <2>. QED  BY <1>0, <2>3, <2>4
<1>2. ASSUME NEW o \in 0 .. end - 1, NEW q \in R, q <= o, o < q + data[s][q].size
      PROVE  /\ data[s][o] = [data[s][q] EXCEPT !.part = o - q]
             /\ data[s][o].part = o - q /\ data[s][o].id = data[s][q].id
             /\ Whole(data[s], g, end, o)
  <2>. DEFINE c == data[s][q]
  <2>1. /\ c # Garbage /\ c.generation = g /\ c.id # 0 /\ c \in Cell
        /\ \A k \in 0 .. c.size - 1 : data[s][q + k] = [c EXCEPT !.part = k]
    BY <1>0 DEF EntryAt
  <2>2. o - q \in 0 .. c.size - 1 /\ q + (o - q) = o /\ o \in Nat /\ q \in Nat
    BY <1>0, <1>2
  <2>3. data[s][o] = [c EXCEPT !.part = o - q]
    BY <2>1, <2>2
  <2>4. /\ data[s][o].part = o - q /\ data[s][o].id = c.id /\ data[s][o].size = c.size
        /\ data[s][o].generation = g
    BY <2>1, <2>3 DEF Cell
  <2>5. data[s][o] # Garbage
    <3>1. o - q \in Nat
      BY <2>2
    <3>2. data[s][o] \in Cell
      BY <2>1, <2>3, <3>1 DEF Cell
    <3>. QED  BY <3>2, GarbageCellAssumption
  <2>6. o - data[s][o].part = q
    BY <2>2, <2>4
  <2>7. ASSUME NEW k \in 0 .. data[s][o].size - 1
        PROVE  data[s][(o - data[s][o].part) + k] = [data[s][o] EXCEPT !.part = k]
    <3>1. data[s][q + k] = [c EXCEPT !.part = k]
      BY <2>1, <2>4
    <3>2. [data[s][o] EXCEPT !.part = k] = [c EXCEPT !.part = k]
      BY <2>1, <2>3 DEF Cell
    <3>. QED  BY <2>6, <3>1, <3>2
  <2>8. data[s][o].part <= o /\ data[s][o].part < data[s][o].size
        /\ (o - data[s][o].part) + data[s][o].size <= end
    BY <1>0, <2>2, <2>4, <2>6
  <2>. QED  BY <2>1, <2>3, <2>4, <2>5, <2>7, <2>8 DEF Whole
<1>3. ASSUME NEW o \in 0 .. end - 1, NEW p \in 0 .. end - 1, p < o, data[s][o].part = 0
      PROVE  data[s][p].id < data[s][o].id
  <2>1. PICK q \in R : q <= o /\ o < q + data[s][q].size
    BY <1>1
  <2>2. PICK r \in R : r <= p /\ p < r + data[s][r].size
    BY <1>1
  <2>3. data[s][o].part = o - q /\ data[s][o].id = data[s][q].id
    BY <1>2, <2>1
  <2>4. data[s][p].id = data[s][r].id
    BY <1>2, <2>2
  <2>5. r < q
    BY <1>0, <1>3, <2>1, <2>2, <2>3
  <2>. QED  BY <2>3, <2>4, <2>5, ScannedOrder
<1>. QED  BY <1>1, <1>2, <1>3 DEF Tiled

-----------------------------------------------------------------------------
(* The order of sealing, flushing and appending.                           *)

\* What cannot follow a step is not behind it.
LEMMA NeverBehind ==
    ASSUME TypeOK, ControlInv, todo # <<>>, NEW n, At(n), NEW M, \A m \in M : Place[m] < Follow[n]
    PROVE  \A y \in Rest : y[1] \notin M
<1>1. todo \in Seq(Steps) /\ Ordered(todo)
  BY DEF TypeOK, ControlInv
<1>2. Head(todo)[1] = n /\ n \in Names
  BY <1>1, PendingSplit, PlaceType DEF At
<1>. SUFFICES ASSUME NEW y \in Rest, y[1] \in M PROVE FALSE
  OBVIOUS
<1>3. Follow[n] <= Place[y[1]]
  BY <1>1, <1>2, RestPlace
<1>4. y[1] \in Names
  BY <1>1, PendingSplit, PlaceType
<1>5. Follow[n] \in Nat /\ Place[y[1]] \in Nat
  BY <1>2, <1>4, PlaceType
<1>. QED  BY <1>3, <1>5

\* Behind a step of an append nothing of a rotation is left, and behind a step of a
\* recovery nothing of a flush.
LEMMA BehindData ==
    ASSUME TypeOK, ControlInv, todo # <<>>, NEW y \in Rest
    PROVE  /\ y[1] # "write_buffer"
           /\ At("flush") \/ At("flushed") => y[1] # "flushed"
           /\ \A n \in Sealing : At(n) => y[1] # "flushed"
           /\ \A n \in Rotation : At(n) => y[1] \notin Sealing \cup {"flushed"}
           /\ At("prepare") \/ At("put") => y[1] \notin Sealing \cup Rotation \cup {"flushed"}
           /\ \A n \in Bypass : At(n) => y[1] \notin Sealing \cup Rotation \cup {"flushed"}
           /\ At("activate") => y[1] \notin Sealing \cup Rotation \cup {"flushed"}
           /\ At("open_next") => y[1] \notin Sealing \cup Rotation \cup {"flushed"}
<1>1. PICK n : At(n) /\ n \in Names
  <2>1. At(Head(todo)[1])
    BY DEF At
  <2>2. Head(todo)[1] \in Names
    BY PendingSplit, PlaceType DEF TypeOK
  <2>. QED  BY <2>1, <2>2
<1>2. y[1] # "write_buffer"
  <2>1. \A m \in Names : 1 < Follow[m]
    BY ONLY NamesValue, FollowValues
  <2>2. \A m \in {"write_buffer"} : Place[m] < Follow[n]
    BY <1>1, <2>1, PlaceValues
  <2>. QED  BY <1>1, <2>2, NeverBehind
<1>3. ASSUME NEW h, At(h), NEW M, \A m \in M : Place[m] < Follow[h]
      PROVE  y[1] \notin M
  BY <1>3, NeverBehind
<1>4. At("flush") \/ At("flushed") => y[1] # "flushed"
  <2>1. \A m \in {"flushed"} : Place[m] < Follow["flush"] /\ Place[m] < Follow["flushed"]
    BY ONLY PlaceValues, FollowValues
  <2>2. At("flush") => y[1] \notin {"flushed"}
    BY <1>3, <2>1
  <2>3. At("flushed") => y[1] \notin {"flushed"}
    BY <1>3, <2>1
  <2>. QED  BY <2>2, <2>3
<1>5. ASSUME NEW h \in Sealing, At(h) PROVE y[1] # "flushed"
  <2>1. \A m \in {"flushed"} : Place[m] < Follow[h]
    BY ONLY PlaceValues, FollowValues DEF Sealing
  <2>. QED  BY <1>3, <1>5, <2>1
<1>6. ASSUME NEW h \in Rotation, At(h) PROVE y[1] \notin Sealing \cup {"flushed"}
  <2>1. \A m \in Sealing \cup {"flushed"} : Place[m] < Follow[h]
    BY ONLY PlaceValues, FollowValues DEF Sealing, Rotation
  <2>. QED  BY <1>3, <1>6, <2>1
<1>7. ASSUME NEW h \in {"prepare", "put", "activate", "open_next"} \cup Bypass, At(h)
      PROVE  y[1] \notin Sealing \cup Rotation \cup {"flushed"}
  <2>1. \A m \in Sealing \cup Rotation \cup {"flushed"} : Place[m] < 20
    BY ONLY PlaceValues DEF Sealing, Rotation
  <2>2. \A k \in {"prepare", "put", "activate", "open_next"} \cup Bypass : 20 <= Follow[k] /\ Follow[k] \in Nat
    BY ONLY FollowValues DEF Bypass
  <2>3. \A m \in Sealing \cup Rotation \cup {"flushed"} : Place[m] \in Nat
    BY ONLY PlaceValues DEF Sealing, Rotation
  <2>4. \A m \in Sealing \cup Rotation \cup {"flushed"} : Place[m] < Follow[h]
    BY <1>7, <2>1, <2>2, <2>3
  <2>. QED  BY <1>3, <1>7, <2>4
<1>. QED  BY <1>2, <1>4, <1>5, <1>6, <1>7

\* The steps of an append come one after the other.
LEMMA BehindAppend ==
    ASSUME TypeOK, ControlInv, todo # <<>>, NEW y \in Rest
    PROVE  /\ At("write_entry") => y[1] \notin {"prepare", "reserve", "write_entry"}
           /\ At("account") => y[1] \notin {"prepare", "reserve", "write_entry", "account", "put"}
           /\ At("acknowledge") => y[1] \notin {"prepare", "put"} \cup Bypass
           /\ At("put") => y[1] \notin {"prepare", "put", "reserve", "write_entry", "account"}
           /\ At("activate") => y[1] \notin {"retire", "header", "activate", "open_writer"}
           /\ At("select") => y[1] \notin Sealing \cup Rotation \cup {"close_writer", "open_writer", "flushed"}
           /\ At("recover") \/ At("highest") \/ At("seal_recovered") =>
                 y[1] \notin Sealing \cup Rotation \cup {"close_writer", "open_writer", "flushed"}
           /\ At("append_boot") \/ At("count_boot") \/ At("settle") =>
                 y[1] \notin Sealing \cup Rotation \cup {"close_writer", "open_writer", "flushed"}
<1>1. ASSUME NEW h, At(h), NEW M, \A m \in M : Place[m] < Follow[h]
      PROVE  y[1] \notin M
  BY <1>1, NeverBehind
<1>2. At("write_entry") => y[1] \notin {"prepare", "reserve", "write_entry"}
  <2>1. \A m \in {"prepare", "reserve", "write_entry"} : Place[m] < Follow["write_entry"]
    BY ONLY PlaceValues, FollowValues
  <2>. QED  BY <1>1, <2>1
<1>3. At("account") => y[1] \notin {"prepare", "reserve", "write_entry", "account", "put"}
  <2>1. \A m \in {"prepare", "reserve", "write_entry", "account", "put"} : Place[m] < Follow["account"]
    BY ONLY PlaceValues, FollowValues
  <2>. QED  BY <1>1, <2>1
<1>4. At("acknowledge") => y[1] \notin {"prepare", "put"} \cup Bypass
  <2>1. \A m \in {"prepare", "put"} \cup Bypass : Place[m] < Follow["acknowledge"]
    BY ONLY PlaceValues, FollowValues DEF Bypass
  <2>. QED  BY <1>1, <2>1
<1>5. At("put") => y[1] \notin {"prepare", "put", "reserve", "write_entry", "account"}
  <2>1. \A m \in {"prepare", "put", "reserve", "write_entry", "account"} : Place[m] < Follow["put"]
    BY ONLY PlaceValues, FollowValues
  <2>. QED  BY <1>1, <2>1
<1>6. At("activate") => y[1] \notin {"retire", "header", "activate", "open_writer"}
  <2>1. \A m \in {"retire", "header", "activate", "open_writer"} : Place[m] < Follow["activate"]
    BY ONLY PlaceValues, FollowValues
  <2>. QED  BY <1>1, <2>1
<1>7. ASSUME NEW h \in {"recover", "highest", "seal_recovered", "select", "settle", "count_boot", "append_boot"},
             At(h)
      PROVE  y[1] \notin Sealing \cup Rotation \cup {"close_writer", "open_writer", "flushed"}
  <2>1. \A m \in Sealing \cup Rotation \cup {"close_writer", "open_writer", "flushed"} :
            Place[m] < 33 /\ Place[m] \in Nat
    BY ONLY PlaceValues DEF Sealing, Rotation
  <2>2. \A k \in {"recover", "highest", "seal_recovered", "select", "settle", "count_boot", "append_boot"} :
            33 <= Follow[k] /\ Follow[k] \in Nat
    BY ONLY FollowValues
  <2>3. \A m \in Sealing \cup Rotation \cup {"close_writer", "open_writer", "flushed"} :
            Place[m] < Follow[h]
    BY <1>7, <2>1, <2>2
  <2>. QED  BY <1>1, <1>7, <2>3
<1>. QED  BY <1>2, <1>3, <1>4, <1>5, <1>6, <1>7

\* The first step and the others.
LEMMA StepsSplit ==
    ASSUME NEW q \in Seq(Steps), q # <<>>
    PROVE  StepsOf(q) = {Head(q)} \cup StepsOf(Tail(q)) /\ StepsOf(Tail(q)) \subseteq StepsOf(q)
<1>1. 1 \in DOMAIN q /\ Head(q) = q[1]
  OBVIOUS
<1>2. \A i \in DOMAIN Tail(q) : i + 1 \in DOMAIN q /\ Tail(q)[i] = q[i + 1]
  OBVIOUS
<1>3. \A i \in DOMAIN q : i # 1 => i - 1 \in DOMAIN Tail(q) /\ Tail(q)[i - 1] = q[i]
  OBVIOUS
<1>4. StepsOf(Tail(q)) \subseteq StepsOf(q)
  BY <1>2 DEF StepsOf
<1>5. Head(q) \in StepsOf(q)
  BY <1>1 DEF StepsOf
<1>6. ASSUME NEW x \in StepsOf(q), x # Head(q) PROVE x \in StepsOf(Tail(q))
  <2>1. PICK i \in DOMAIN q : x = q[i]
    BY DEF StepsOf
  <2>2. i # 1
    BY <1>1, <1>6, <2>1
  <2>. QED  BY <1>3, <2>1, <2>2 DEF StepsOf
<1>. QED  BY <1>4, <1>5, <1>6

\* The steps behind the first, after a call.
LEMMA CallRest ==
    ASSUME TypeOK, todo # <<>>, NEW steps \in Seq(Steps), steps # <<>>, Call(steps)
    PROVE  Rest' = StepsOf(Tail(steps)) \cup Rest
<1>1. todo' = steps \o Tail(todo) /\ Tail(todo) \in Seq(Steps) /\ Tail(steps) \in Seq(Steps)
  BY DEF Call, TypeOK
<1>2. Tail(todo') = Tail(steps) \o Tail(todo)
  BY <1>1
<1>. QED  BY <1>1, <1>2, StepsOfConcat DEF Rest

\* The sequence part of the invariant, of a continuation that takes over from this one.
LEMMA SequenceKept ==
    ASSUME TypeOK, TypeOK', ControlInv, SequenceInv, todo # <<>>, NEW new, Pending' = new \cup Rest,
           \A x \in new : x[1] \notin Entry,
           (\E x \in new : x[1] \in Sealing) => \A y \in new \cup Rest : y[1] # "activate",
           (\E x \in new : x[1] = "activate") => \A y \in new \cup Rest : y[1] \notin Sealing,
           \/ \A x \in new : x[1] # "open_writer"
           \/ \E x \in new : x[1] = "activate"
           \/ todo' # <<>> => \A x \in Rest' : x[1] # "open_writer" \/ x \in Rest,
           (\E x \in new : x[1] = "write_buffer") => \E x \in new : x[1] = "flushed",
           (\E x \in new : x[1] \in {"retire", "header"}) => \E x \in new : x[1] = "activate",
           (\E x \in new : x[1] = "close_writer") => \E x \in Rest : x[1] = "select"
    PROVE  SequenceInv'
<1>. DEFINE h == Head(todo)
<1>1. Pending = {h} \cup Rest
  BY BehindEntry
<1>2. \A n : At(n) <=> h[1] = n
  BY DEF At
<1>. HIDE DEF h
<1>3. \A x \in new : x[1] \notin {"put", "prepare"} \cup Bypass
  BY DEF Entry, Sized, Bypass
<1>4. Has({"write_buffer"})' => Has({"flushed"})'
  <2>1. \A y \in Rest : y[1] # "write_buffer"
    BY BehindData
  <2>. QED  BY <2>1 DEF Has
<1>5. Has({"write_entry"})' => Has({"account"})'
  <2>. SUFFICES ASSUME NEW x \in Rest, x[1] = "write_entry" PROVE Has({"account"})'
    BY <1>3 DEF Has, Bypass
  <2>1. PICK y \in Pending : y[1] = "account"
    BY <1>1 DEF SequenceInv, Has
  <2>2. ~At("account")
    BY BehindAppend
  <2>. QED  BY <1>1, <1>2, <2>1, <2>2 DEF Has
<1>6. Has({"account"})' => Has({"acknowledge"})'
  <2>. SUFFICES ASSUME NEW x \in Rest, x[1] = "account" PROVE Has({"acknowledge"})'
    BY <1>3 DEF Has, Bypass
  <2>1. PICK y \in Pending : y[1] = "acknowledge"
    BY <1>1 DEF SequenceInv, Has
  <2>2. ~At("acknowledge")
    BY BehindAppend DEF Bypass
  <2>. QED  BY <1>1, <1>2, <2>1, <2>2 DEF Has
<1>7. Has({"put"})' => ~Has(Bypass)'
  BY <1>1, <1>3 DEF SequenceInv, Has
<1>8. Has({"retire", "header"})' => Has({"activate"})'
  <2>1. ASSUME NEW x \in Rest, x[1] \in {"retire", "header"} PROVE Has({"activate"})'
    <3>1. PICK y \in Pending : y[1] = "activate"
      BY <1>1, <2>1 DEF SequenceInv, Has
    <3>2. ~At("activate")
      BY <2>1, BehindAppend
    <3>. QED  BY <1>1, <1>2, <3>1, <3>2 DEF Has
  <2>. QED  BY <2>1 DEF Has
<1>9. Has({"close_writer"})' => Has({"select"})'
  <2>1. ASSUME NEW x \in Rest, x[1] = "close_writer" PROVE Has({"select"})'
    <3>1. PICK y \in Pending : y[1] = "select"
      BY <1>1, <2>1 DEF SequenceInv, Has
    <3>2. ~At("select")
      BY <2>1, BehindAppend
    <3>. QED  BY <1>1, <1>2, <3>1, <3>2 DEF Has
  <2>. QED  BY <2>1 DEF Has
<1>10. Has({"activate"})' => ~Has(Sealing)'
  BY <1>1 DEF SequenceInv, Has
<1>11. ASSUME todo' # <<>>, NEW x \in Rest', x[1] = "open_writer"
       PROVE  Has({"activate"})'
  <2>1. Rest' \subseteq Pending'
    <3>1. todo' \in Seq(Steps)
      BY DEF TypeOK
    <3>2. Pending' = {Head(todo')} \cup Rest'
      BY <1>11, <3>1, StepsSplit DEF Pending, Rest
    <3>. QED  BY <3>2
  <2>2. CASE \E z \in new : z[1] = "activate"
    BY <2>2 DEF Has
  <2>3. CASE x \in Rest
    <3>1. Has({"activate"})
      BY <1>11, <2>3 DEF SequenceInv
    <3>2. ~At("activate")
      BY <1>11, <2>3, BehindAppend
    <3>. QED  BY <1>1, <1>2, <3>1, <3>2 DEF Has
  <2>. QED  BY <1>11, <2>1, <2>2, <2>3
<1>. QED  BY <1>4, <1>5, <1>6, <1>7, <1>8, <1>9, <1>10, <1>11 DEF SequenceInv

\* The buffer part, while the buffer stays as it is and nothing of a flush, of a rotation
\* or of a direct append begins.
LEMMA BufferSame ==
    ASSUME TypeOK, ControlInv, BufferInv, todo # <<>>, NEW new, Pending' = new \cup Rest,
           \A x \in new : x[1] \notin Entry \cup Sealing \cup Rotation \cup {"flushed"},
           UNCHANGED write_buf, ~At("flush"), ~At("flushed")
    PROVE  BufferInv'
<1>. DEFINE h == Head(todo)
<1>1. Pending = {h} \cup Rest
  BY BehindEntry
<1>2. \A n : At(n) <=> h[1] = n
  BY DEF At
<1>. HIDE DEF h
<1>3. \A x \in new : x[1] \notin Sealing \cup Rotation \cup Bypass \cup {"flushed"}
  BY DEF Entry, Sized, Bypass
<1>4. Has({"flushed"})' <=> Has({"flushed"})
  BY <1>1, <1>2, <1>3 DEF Has
<1>5. Has(Sealing \cup Rotation \cup Bypass)' => write_buf' = <<>> \/ At("flush")' \/ Has({"flushed"})'
  <2>1. Has(Sealing \cup Rotation \cup Bypass)' => Has(Sealing \cup Rotation \cup Bypass)
    BY <1>1, <1>3 DEF Has
  <2>. QED  BY <1>4, <2>1 DEF BufferInv
<1>6. ASSUME Has(Rotation)', ~Has(Sealing)' PROVE write_buf' = <<>>
  <2>1. Has(Rotation)
    BY <1>1, <1>3, <1>6 DEF Has
  <2>2. CASE ~Has(Sealing)
    BY <2>1, <2>2 DEF BufferInv
  <2>3. CASE Has(Sealing)
    <3>1. h[1] \in Sealing /\ At(h[1])
      BY <1>1, <1>2, <1>6, <2>3 DEF Has
    <3>2. ~Has({"flushed"})
      <4>1. \A y \in Rest : y[1] # "flushed"
        BY <3>1, BehindData
      <4>2. h[1] # "flushed"
        BY <1>2
      <4>. QED  BY <1>1, <4>1, <4>2 DEF Has
    <3>3. Has(Sealing \cup Rotation \cup Bypass)
      BY <2>1 DEF Has
    <3>. QED  BY <3>2, <3>3 DEF BufferInv
  <2>. QED  BY <2>2, <2>3
<1>7. ASSUME Has({"acknowledge"})', ~Has({"write_entry"})' PROVE write_buf' = <<>>
  <2>1. Has({"acknowledge"})
    BY <1>1, <1>3, <1>7 DEF Has, Bypass
  <2>2. CASE ~Has({"write_entry"})
    BY <2>1, <2>2 DEF BufferInv
  <2>3. CASE Has({"write_entry"})
    <3>1. At("write_entry")
      BY <1>1, <1>2, <1>7, <2>3 DEF Has
    <3>2. ~Has({"flushed"})
      <4>1. \A y \in Rest : y[1] # "flushed"
        BY <3>1, BehindData DEF Bypass
      <4>. QED  BY <1>1, <1>2, <4>1 DEF Has
    <3>3. Has(Sealing \cup Rotation \cup Bypass)
      BY <2>1 DEF Has, Bypass
    <3>. QED  BY <3>2, <3>3 DEF BufferInv
  <2>. QED  BY <2>2, <2>3
<1>8. Has({"flushed"})' => write_buf' # <<>>
  BY <1>4 DEF BufferInv
<1>. QED  BY <1>5, <1>6, <1>7, <1>8 DEF BufferInv

\* No file is left to open.
LEMMA NothingOpens ==
    ASSUME TypeOK', \A x \in Pending' : x[1] # "open_writer"
    PROVE  todo' # <<>> => \A x \in Rest' : x[1] # "open_writer"
  BY StepsSplit DEF TypeOK, Pending, Rest

\* Two lists of steps, one after the other.
LEMMA ConcatValues ==
    ASSUME NEW p \in Seq(Steps), NEW q \in Seq(Steps)
    PROVE  /\ p \o q \in Seq(Steps) /\ Len(p \o q) = Len(p) + Len(q)
           /\ \A i \in 1 .. Len(p) : (p \o q)[i] = p[i]
           /\ \A i \in 1 .. Len(q) : (p \o q)[Len(p) + i] = q[i]
  OBVIOUS

\* The steps of a repair open the file first.
LEMMA ResealTail ==
    ASSUME NEW s \in Slots
    PROVE  \A x \in StepsOf(Tail(ResealSteps(s))) : x[1] # "open_writer"
<1>. DEFINE first == <<<<"open_writer", s>>>>
            last == <<Do("close_writer")>>
            both == first \o SealSteps
            all == both \o last
<1>1. first \in Seq(Steps) /\ SealSteps \in Seq(Steps) /\ last \in Seq(Steps)
  BY SlotStepType, SealStepsType, DoType
<1>2. Len(first) = 1 /\ Len(last) = 1 /\ last[1][1] = "close_writer"
  BY DEF Do
<1>3. \A k \in DOMAIN SealSteps : SealSteps[k][1] \in SealNames
  BY ShortLists DEF IsList, StepsOf
<1>. HIDE DEF first, last
<1>4. both \in Seq(Steps) /\ Len(both) = 1 + Len(SealSteps)
      /\ \A k \in 1 .. Len(SealSteps) : both[1 + k] = SealSteps[k]
  <2>1. /\ both \in Seq(Steps) /\ Len(both) = Len(first) + Len(SealSteps)
        /\ \A k \in 1 .. Len(SealSteps) : both[Len(first) + k] = SealSteps[k]
    BY ONLY <1>1, ConcatValues
  <2>. QED  BY ONLY <1>2, <2>1
<1>. HIDE DEF both
<1>5. all \in Seq(Steps) /\ Len(all) = Len(both) + 1 /\ all[Len(both) + 1] = last[1]
      /\ \A k \in 1 .. Len(both) : all[k] = both[k]
  <2>1. /\ all \in Seq(Steps) /\ Len(all) = Len(both) + Len(last)
        /\ \A k \in 1 .. Len(both) : all[k] = both[k]
        /\ \A k \in 1 .. Len(last) : all[Len(both) + k] = last[k]
    BY ONLY <1>1, <1>4, ConcatValues
  <2>2. 1 \in 1 .. Len(last)
    BY <1>2
  <2>. QED  BY ONLY <1>2, <2>1, <2>2
<1>. HIDE DEF all
<1>6. all = ResealSteps(s)
  BY DEF all, both, first, last, ResealSteps
<1>7. SUFFICES ASSUME NEW i \in DOMAIN Tail(all) PROVE Tail(all)[i][1] # "open_writer"
  BY <1>6 DEF StepsOf
<1>8. i \in 1 .. Len(both) /\ Tail(all)[i] = all[i + 1] /\ Len(SealSteps) \in Nat
      /\ DOMAIN SealSteps = 1 .. Len(SealSteps)
  BY <1>1, <1>4, <1>5
<1>9. CASE i = Len(both)
  BY <1>2, <1>5, <1>8, <1>9
<1>10. CASE i # Len(both)
  <2>1. i \in 1 .. Len(SealSteps) /\ i + 1 \in 1 .. Len(both)
    BY <1>4, <1>8, <1>10
  <2>2. Tail(all)[i] = SealSteps[i] /\ i + 1 = 1 + i
    BY <1>4, <1>5, <1>8, <2>1
  <2>. QED  BY <1>3, <1>8, <2>1, <2>2 DEF SealNames
<1>. QED  BY <1>9, <1>10

\* How recovery goes on.
LEMMA RecoveryCalls ==
    ASSUME TypeOK
    PROVE  /\ Recover => Fail \/ Continue \/ Call(ResealSteps(Arg))
           /\ SealRecovered => Fail \/ Continue \/ Call(ResealSteps(Arg))
           /\ SelectActive => \/ Fail \/ Call(<<Do("open_next")>>)
                              \/ Call(<<<<"open_writer", HighestSlot(segments)>>>>)
  BY DEF Recover, SealRecovered, SelectActive, SetDescriptor, Repair, Skip, ResealSteps

\* Nothing is left to flush, or nothing is left to do that the buffer matters for.
LEMMA BufferEmpty ==
    ASSUME write_buf' = <<>>, ~Has({"flushed"})'
    PROVE  BufferInv'
  BY DEF BufferInv

\* The buffer is only bound by the steps that write past or behind it.
LEMMA BufferFree ==
    ASSUME ~Has(Sealing \cup Rotation \cup Bypass \cup {"flushed"})'
    PROVE  BufferInv'
  BY DEF BufferInv, Has, Bypass

\* With nothing left to do there is no order to keep.
LEMMA NothingPending ==
    ASSUME TypeOK', Pending' = {}
    PROVE  BufferInv' /\ SequenceInv'
<1>1. todo' = <<>>
  BY StepsSplit DEF TypeOK, Pending
<1>. QED  BY <1>1 DEF BufferInv, SequenceInv, Has

\* The shape of the steps of an append: past the buffer, or into it.
LEMMA AppendShape ==
    ASSUME NEW n \in 1 .. Capacity, NEW force_flush \in BOOLEAN, NEW q, q = AppendSteps(n, force_flush)
    PROVE  \/ /\ q # <<>> /\ Head(q)[1] = "flush"
              /\ \A x \in StepsOf(q) : x[1] \in DirectNames
              /\ <<"write_entry", n>> \in StepsOf(q) /\ <<"account", n>> \in StepsOf(q)
              /\ Do("acknowledge") \in StepsOf(q)
           \/ \A x \in StepsOf(q) : x[1] \in {"flush", "prepare", "put"}
<1>1. CASE n > WriteBufferSize
  <2>1. q = <<Do("flush"), <<"prepare", n>>, <<"reserve", n>>, <<"write_entry", n>>,
              <<"account", n>>, Do("commit"), Do("acknowledge")>>
    BY <1>1 DEF AppendSteps
  <2>2. /\ 4 \in DOMAIN q /\ q[4] = <<"write_entry", n>> /\ 5 \in DOMAIN q /\ q[5] = <<"account", n>>
        /\ 7 \in DOMAIN q /\ q[7] = Do("acknowledge") /\ q # <<>> /\ Head(q) = Do("flush")
    BY <2>1
  <2>3. IsList(q, DirectNames)
    BY <2>1, ShortLists
  <2>. QED  BY <2>2, <2>3 DEF StepsOf, IsList, Do
<1>2. CASE ~(n > WriteBufferSize)
  <2>. DEFINE first == IF Len(write_buf) + n > WriteBufferSize THEN <<Do("flush")>> ELSE <<>>
              middle == <<<<"prepare", n>>, <<"put", n>>>>
              last == IF force_flush THEN <<Do("flush")>> ELSE <<>>
  <2>1. IsList(<<Do("flush")>>, {"flush"}) /\ IsList(<<>>, {"flush"})
    BY ShortLists, DoType, NamesValue DEF Do
  <2>2. IsList(first, {"flush"}) /\ IsList(last, {"flush"})
    BY <2>1
  <2>3. IsList(middle, {"prepare", "put"})
    BY ShortLists
  <2>4. q = (first \o middle) \o last
    BY <1>2 DEF AppendSteps
  <2>. HIDE DEF first, middle, last
  <2>5. first \in Seq(Steps) /\ middle \in Seq(Steps) /\ last \in Seq(Steps)
    BY <2>2, <2>3 DEF IsList
  <2>6. StepsOf(q) = (StepsOf(first) \cup StepsOf(middle)) \cup StepsOf(last)
    <3>1. first \o middle \in Seq(Steps) /\ StepsOf(first \o middle) = StepsOf(first) \cup StepsOf(middle)
      BY <2>5, StepsOfConcat
    <3>2. StepsOf((first \o middle) \o last) = StepsOf(first \o middle) \cup StepsOf(last)
      BY <2>5, <3>1, StepsOfConcat
    <3>. QED  BY <2>4, <3>1, <3>2
  <2>. QED  BY <2>2, <2>3, <2>6 DEF IsList
<1>. QED  BY <1>1, <1>2

\* The moves.
LEMMA MovesBuffer ==
    ASSUME TypeOK, TypeOK', ControlInv, SequenceInv, BufferInv, Moves
    PROVE  SequenceInv' /\ BufferInv'
<1>1. Pending' = Rest /\ todo # <<>>
  BY MovesControl
<1>0. PICK new : new = {}
  OBVIOUS
<1>2. Pending' = new \cup Rest /\ \A x \in new : FALSE
  BY <1>0, <1>1
<1>3. SequenceInv'
  BY ONLY TypeOK, TypeOK', ControlInv, SequenceInv, <1>1, <1>2, SequenceKept
<1>4. ASSUME UNCHANGED write_buf, ~At("flush"), ~At("flushed") PROVE BufferInv'
  BY ONLY TypeOK, ControlInv, BufferInv, <1>1, <1>2, <1>4, BufferSame
<1>5. CASE WriteDone
  <2>1. ~At("flush") /\ ~At("flushed")
    BY <1>5 DEF WriteDone, Write, WriterWrite, WriteBuffer, WriteEntry, WriteIndex, WriteFooter,
                WriteHeader, Commit, At
  <2>. QED  BY <1>3, <1>4, <1>5, <2>1 DEF WriteDone, memory
<1>6. CASE OpenWriter \/ CloseWriter \/ AccountEntry \/ Acknowledge \/ Sealed \/ ReserveEntry \/ Settle
  <2>1. ~At("flush") /\ ~At("flushed")
    BY <1>6 DEF OpenWriter, CloseWriter, AccountEntry, Acknowledge, Sealed, ReserveEntry, Settle, At
  <2>2. UNCHANGED write_buf
    BY <1>6 DEF OpenWriter, CloseWriter, AccountEntry, Acknowledge, Sealed, ReserveEntry, Settle, SetState,
                memory
  <2>. QED  BY <1>3, <1>4, <2>1, <2>2
<1>7. CASE Flushed \/ Activate
  <2>1. (At("flushed") \/ At("activate")) /\ write_buf' = <<>>
    BY <1>7 DEF Flushed, Activate
  <2>2. ~Has({"flushed"})'
    BY <1>1, <2>1, BehindData DEF Has
  <2>. QED  BY <1>3, <2>1, <2>2, BufferEmpty
<1>8. CASE PutEntry
  <2>1. At("put")
    BY <1>8 DEF PutEntry
  <2>2. \A y \in Rest : y[1] \notin Sealing \cup Rotation \cup {"flushed"}
    BY <1>1, <2>1, BehindData
  <2>3. Pending = {Head(todo)} \cup Rest /\ Has({"put"})
    BY <1>1, <2>1, BehindEntry DEF Has, At
  <2>4. \A y \in Rest : y[1] \notin Bypass
    BY <2>3 DEF SequenceInv, Has
  <2>5. BufferInv'
    BY <1>1, <2>2, <2>4, BufferFree DEF Has
  <2>. QED  BY <1>3, <2>5
<1>. QED  BY <1>3, <1>5, <1>6, <1>7, <1>8 DEF Moves

\* The calls between and after the entries.
LEMMA CallsBuffer ==
    ASSUME TypeOK, TypeOK', ControlInv, SequenceInv, BufferInv, Flush \/ PrepareSpace \/ OpenNext \/ Retire
    PROVE  SequenceInv' /\ BufferInv'
<1>0. \A n \in FlushNames \cup RotateNames \cup {"commit"} :
          n \notin Entry \cup {"retire", "header", "close_writer"}
  <2>1. \A n \in FlushNames \cup RotateNames \cup {"commit"} : n \notin {"retire", "header", "close_writer"}
    BY DEF FlushNames, RotateNames, SealNames
  <2>. QED  BY <2>1, MachineryType
<1>1. ASSUME NEW new, todo # <<>>, Pending' = new \cup Rest, \A x \in new : FALSE
      PROVE  /\ SequenceInv'
             /\ UNCHANGED write_buf /\ ~At("flush") /\ ~At("flushed") => BufferInv'
  <2>1. SequenceInv'
    BY ONLY TypeOK, TypeOK', ControlInv, SequenceInv, <1>1, SequenceKept
  <2>2. UNCHANGED write_buf /\ ~At("flush") /\ ~At("flushed") => BufferInv'
    BY ONLY TypeOK, ControlInv, BufferInv, <1>1, BufferSame
  <2>. QED  BY <2>1, <2>2
<1>2. CASE Flush
  <2>0. At("flush") /\ UNCHANGED write_buf /\ todo # <<>>
    BY <1>2 DEF Flush, At, memory
  <2>1. CASE write_buf = <<>>
    <3>1. PICK new : new = {}
      OBVIOUS
    <3>2. Pending' = new \cup Rest /\ \A x \in new : FALSE
      BY <1>2, <2>1, <3>1, FlushControl
    <3>3. ~Has({"flushed"})'
      BY <2>0, <3>2, BehindData DEF Has
    <3>. QED  BY <1>1, <2>0, <2>1, <3>2, <3>3, BufferEmpty
  <2>2. CASE write_buf # <<>>
    <3>1. PICK new : new = StepsOf(FlushSteps)
      OBVIOUS
    <3>2. Pending' = new \cup Rest /\ \A x \in new : x[1] \in FlushNames
      BY <1>2, <2>2, <3>1, FlushControl, CallNames
    <3>3. Do("flushed") \in new
      <4>1. FlushSteps[3] = Do("flushed") /\ 3 \in DOMAIN FlushSteps
        BY DEF FlushSteps
      <4>. QED  BY <3>1, <4>1 DEF StepsOf
    <3>4. /\ \A x \in new : x[1] \notin Entry /\ x[1] \notin {"retire", "header", "close_writer"}
          /\ \E x \in new : x[1] = "flushed"
          /\ \A x \in new : x[1] \notin Sealing /\ x[1] # "activate" /\ x[1] # "open_writer"
      <4>1. \A n \in FlushNames : n \notin Sealing /\ n # "activate" /\ n # "open_writer"
        BY DEF FlushNames, Sealing
      <4>. QED  BY <1>0, <3>2, <3>3, <4>1 DEF Do
    <3>5. SequenceInv'
      BY ONLY TypeOK, TypeOK', ControlInv, SequenceInv, <2>0, <3>2, <3>4, SequenceKept
    <3>6. Has({"flushed"})'
      BY <3>2, <3>4 DEF Has
    <3>7. Pending = {Head(todo)} \cup Rest
      BY <2>0, BehindEntry
    <3>8. ASSUME Has(Rotation)', ~Has(Sealing)' PROVE FALSE
      <4>1. \A x \in new : x[1] \notin Rotation
        BY <3>2 DEF FlushNames, Rotation
      <4>2. Has(Rotation)
        BY <3>2, <3>7, <3>8, <4>1 DEF Has
      <4>3. ~Has(Sealing)
        BY <2>0, <3>2, <3>7, <3>8 DEF Has, At, Sealing
      <4>. QED  BY <2>2, <4>2, <4>3 DEF BufferInv
    <3>9. ASSUME Has({"acknowledge"})', ~Has({"write_entry"})' PROVE FALSE
      <4>1. Has({"acknowledge"})
        BY <3>2, <3>4, <3>7, <3>9 DEF Has, Entry
      <4>2. ~Has({"write_entry"})
        BY <2>0, <3>2, <3>7, <3>9 DEF Has, At
      <4>. QED  BY <2>2, <4>1, <4>2 DEF BufferInv
    <3>10. write_buf' # <<>>
      BY <2>0, <2>2
    <3>. QED  BY <3>5, <3>6, <3>8, <3>9, <3>10 DEF BufferInv
  <2>. QED  BY <2>1, <2>2
<1>3. CASE PrepareSpace
  <2>0. At("prepare") /\ UNCHANGED write_buf /\ todo # <<>> /\ ~At("flush") /\ ~At("flushed")
    BY <1>3 DEF PrepareSpace, At, memory
  <2>1. CASE HasSpace(Arg)
    <3>1. PICK new : new = {}
      OBVIOUS
    <3>2. Pending' = new \cup Rest /\ \A x \in new : FALSE
      BY <1>3, <2>1, <3>1, PrepareControl
    <3>. QED  BY <1>1, <2>0, <3>2
  <2>2. CASE ~HasSpace(Arg)
    <3>. DEFINE steps == SealSteps \o <<Do("open_next")>>
    <3>1. PICK new : new = StepsOf(steps)
      OBVIOUS
    <3>2. Pending' = new \cup Rest /\ \A x \in new : x[1] \in RotateNames
      BY <1>3, <2>2, <3>1, PrepareControl, CallNames
    <3>3. /\ \A x \in new : x[1] \notin Entry /\ x[1] \notin {"retire", "header", "close_writer"}
          /\ \A x \in new : x[1] # "write_buffer" /\ x[1] # "flushed" /\ x[1] \notin Bypass
          /\ \A x \in new : x[1] # "activate" /\ x[1] # "open_writer"
          /\ \A x \in Rest : x[1] # "activate"
      <4>1. \A n \in RotateNames : /\ n # "write_buffer" /\ n # "flushed" /\ n \notin Bypass
                                  /\ n # "activate" /\ n # "open_writer"
        BY DEF RotateNames, SealNames, Bypass
      <4>2. \A x \in Rest : x[1] # "activate"
        BY <2>0, BehindData DEF Rotation
      <4>. QED  BY <1>0, <3>2, <4>1, <4>2
    <3>4. SequenceInv'
      BY ONLY TypeOK, TypeOK', ControlInv, SequenceInv, <2>0, <3>2, <3>3, SequenceKept
    <3>5. At("flush")' /\ Has(Sealing)'
      <4>1. steps \in Seq(Steps) /\ steps # <<>> /\ steps[1] = Do("flush")
            /\ steps[2] = Do("write_index") /\ 2 \in DOMAIN steps
        BY SealStepsType, DoType DEF SealSteps
      <4>2. todo' = steps \o Tail(todo) /\ Tail(todo) \in Seq(Steps)
        BY <1>3, <2>0, <2>2 DEF PrepareSpace, Call, TypeOK
      <4>3. todo' # <<>> /\ Head(todo') = Do("flush")
        BY <4>1, <4>2
      <4>4. Do("write_index") \in new
        BY <3>1, <4>1 DEF StepsOf
      <4>. QED  BY <3>2, <4>3, <4>4 DEF At, Has, Do, Sealing
    <3>6. ~Has({"flushed"})'
      BY <2>0, <3>2, <3>3, BehindData DEF Has
    <3>7. ASSUME Has({"acknowledge"})', ~Has({"write_entry"})' PROVE write_buf' = <<>>
      <4>1. Pending = {Head(todo)} \cup Rest
        BY <2>0, BehindEntry
      <4>2. Has({"acknowledge"}) /\ ~Has({"write_entry"})
        BY <2>0, <3>2, <3>3, <3>7, <4>1 DEF Has, At, Bypass
      <4>. QED  BY <2>0, <4>2 DEF BufferInv
    <3>. QED  BY <3>4, <3>5, <3>6, <3>7 DEF BufferInv
  <2>. QED  BY <2>1, <2>2
<1>4. CASE OpenNext
  <2>1. CASE Fail
    BY <2>1, FailControl, NothingPending
  <2>2. CASE ~Fail
    <3>0. /\ At("open_next") /\ todo # <<>> /\ UNCHANGED memory
          /\ Pending' = StepsOf(OpenNextSteps) \cup Rest
      BY <1>4, <2>2, OpenNextControl DEF OpenNext
    <3>1. PICK new : new = StepsOf(OpenNextSteps)
      OBVIOUS
    <3>2. Pending' = new \cup Rest /\ \A x \in new : x[1] \in OpenNextNames
          /\ \E y \in new : y[1] = "activate"
      BY <3>0, <3>1, OpenNextSet DEF OpenNextNames
    <3>3. \A n \in OpenNextNames : n \notin Entry /\ n \notin {"write_buffer", "close_writer", "flushed"}
      <4>1. \A n \in OpenNextNames : n \notin {"write_buffer", "close_writer", "flushed"}
        BY DEF OpenNextNames
      <4>. QED  BY <4>1, MachineryType
    <3>4. /\ \A x \in new : x[1] \notin Entry /\ x[1] \notin {"write_buffer", "close_writer", "flushed"}
          /\ \A y \in new \cup Rest : y[1] \notin Sealing
      <4>1. \A n \in OpenNextNames : n \notin Sealing
        BY DEF OpenNextNames, Sealing
      <4>2. \A y \in Rest : y[1] \notin Sealing
        BY <3>0, BehindData
      <4>. QED  BY <3>2, <3>3, <4>1, <4>2
    <3>5. SequenceInv'
      BY ONLY TypeOK, TypeOK', ControlInv, SequenceInv, <3>0, <3>2, <3>4, SequenceKept
    <3>6. Pending = {Head(todo)} \cup Rest
      BY <3>0, BehindEntry
    <3>7. write_buf = <<>>
      <4>1. Has(Rotation)
        BY <3>0, <3>6 DEF Has, At, Rotation
      <4>2. ~Has(Sealing)
        <5>1. \A y \in Rest : y[1] \notin Sealing
          BY <3>0, BehindData
        <5>. QED  BY <3>0, <3>6, <5>1 DEF Has, At, Sealing
      <4>. QED  BY <4>1, <4>2 DEF BufferInv
    <3>8. ~Has({"flushed"})'
      BY <3>0, <3>2, <3>4, BehindData DEF Has
    <3>9. write_buf' = <<>>
      BY <3>0, <3>7 DEF memory
    <3>. QED  BY <3>5, <3>8, <3>9, BufferEmpty
  <2>. QED  BY <2>1, <2>2
<1>5. CASE Retire
  <2>0. At("retire") /\ UNCHANGED write_buf /\ todo # <<>> /\ ~At("flush") /\ ~At("flushed")
    BY <1>5 DEF Retire, At
  <2>1. PICK new : Pending' = new \cup Rest /\ \A x \in new : x[1] = "commit"
    <3>1. CASE segments[Arg].valid
      <4>1. Pending' = StepsOf(RetireSteps) \cup Rest /\ \A x \in StepsOf(RetireSteps) : x[1] = "commit"
        BY <1>5, <3>1, RetireControl, CallNames
      <4>. QED  BY <4>1
    <3>2. CASE ~segments[Arg].valid
      <4>1. PICK new : new = {}
        OBVIOUS
      <4>2. Pending' = new \cup Rest /\ \A x \in new : x[1] = "commit"
        BY <1>5, <3>2, <4>1, RetireControl
      <4>. QED  BY <4>2
    <3>. QED  BY <3>1, <3>2
  <2>2. \A x \in new : x[1] \notin Entry \cup Sealing \cup Rotation
                                   \cup {"flushed", "write_buffer", "retire", "header", "close_writer",
                                         "activate", "open_writer"}
    BY <2>1 DEF Entry, Sized, Sealing, Rotation
  <2>3. SequenceInv'
    BY ONLY TypeOK, TypeOK', ControlInv, SequenceInv, <2>0, <2>1, <2>2, SequenceKept
  <2>4. BufferInv'
    BY ONLY TypeOK, ControlInv, BufferInv, <2>0, <2>1, <2>2, BufferSame
  <2>. QED  BY <2>3, <2>4
<1>. QED  BY <1>2, <1>3, <1>4, <1>5

\* Recovery finds the buffer empty and keeps it so.
LEMMA RecoveryBuffer ==
    ASSUME TypeOK, TypeOK', ControlInv, SpaceInv, RotationInv, SequenceInv, BufferInv,
           Recover \/ PickHighest \/ SealRecovered \/ SelectActive \/ CountBoot \/ AppendBoot \/ Ready
    PROVE  SequenceInv' /\ BufferInv'
<1>1. CASE Fail
  BY <1>1, FailControl, NothingPending
<1>2. CASE Ready
  BY <1>2, ReadyControl, NothingPending
<1>3. ASSUME ~Fail, ~Ready PROVE SequenceInv' /\ BufferInv'
  <2>0. /\ todo # <<>>
        /\ At("recover") \/ At("highest") \/ At("seal_recovered") \/ At("select") \/ At("count_boot")
           \/ At("append_boot")
    BY <1>3 DEF Recover, PickHighest, SealRecovered, SelectActive, CountBoot, AppendBoot, At
  <2>1. Pending = {Head(todo)} \cup Rest
    BY <2>0, BehindEntry
  <2>2. write_buf = <<>>
    <3>1. Has(Booting)
      BY <2>0, <2>1 DEF Has, At, Booting, Recovering
    <3>. QED  BY <3>1 DEF SpaceInv
  <2>3. write_buf' = <<>>
    BY <1>3, <2>2 DEF Recover, PickHighest, SealRecovered, SelectActive, CountBoot, AppendBoot, Repair,
                      SetDescriptor, SetState, Adopt, Skip, memory
  <2>4. \A y \in Rest : y[1] \notin Sealing \cup Rotation \cup {"close_writer", "open_writer", "flushed"}
    BY <2>0, BehindAppend
  <2>5. At("recover") \/ At("seal_recovered") => \E x \in Rest : x[1] = "select"
    <3>1. At("recover") \/ At("seal_recovered") => Has({"select"})
      BY <2>1 DEF RotationInv, Has, At
    <3>. QED  BY <2>1, <3>1 DEF Has, At
  <2>6. ASSUME NEW new, NEW M \in SUBSET Machinery, Pending' = new \cup Rest, \A x \in new : x[1] \in M,
               M \cap Entry = {}, M \cap {"write_buffer", "flushed", "retire", "header", "activate"} = {},
               "open_writer" \in M => (todo' # <<>> => \A x \in Rest' : x[1] # "open_writer" \/ x \in Rest),
               "close_writer" \in M => \E x \in Rest : x[1] = "select"
        PROVE  SequenceInv' /\ BufferInv'
    <3>1. /\ \A x \in new : x[1] \notin Entry /\ x[1] # "write_buffer" /\ x[1] # "flushed"
                            /\ x[1] \notin {"retire", "header", "activate"}
          /\ \A y \in new \cup Rest : y[1] # "activate"
          /\ \/ \A x \in new : x[1] # "open_writer"
             \/ todo' # <<>> => \A x \in Rest' : x[1] # "open_writer" \/ x \in Rest
          /\ (\E x \in new : x[1] = "close_writer") => \E x \in Rest : x[1] = "select"
      BY <2>4, <2>6 DEF Rotation
    <3>2. SequenceInv'
      BY ONLY TypeOK, TypeOK', ControlInv, SequenceInv, <2>0, <2>6, <3>1, SequenceKept
    <3>3. ~Has({"flushed"})'
      BY <2>4, <2>6, <3>1 DEF Has
    <3>. QED  BY <2>3, <3>2, <3>3, BufferEmpty
  <2>7. ASSUME Pending' = Rest PROVE SequenceInv' /\ BufferInv'
    <3>1. PICK new : new = {}
      OBVIOUS
    <3>2. PICK M : M = {}
      OBVIOUS
    <3>3. /\ M \in SUBSET Machinery /\ Pending' = new \cup Rest /\ (\A x \in new : x[1] \in M)
          /\ M \cap Entry = {} /\ M \cap {"write_buffer", "flushed", "retire", "header", "activate"} = {}
          /\ "close_writer" \notin M /\ "open_writer" \notin M
      BY <2>7, <3>1, <3>2
    <3>. QED  BY <2>6, <3>3
  <2>8. ASSUME At("recover") \/ At("seal_recovered"), Arg \in Slots,
               Pending' = StepsOf(ResealSteps(Arg)) \cup Rest, Call(ResealSteps(Arg))
        PROVE  SequenceInv' /\ BufferInv'
    <3>1. \A x \in StepsOf(ResealSteps(Arg)) : x[1] \in ResealNames
      BY <2>8, CallNames
    <3>2. ResealNames \cap {"write_buffer", "flushed", "retire", "header", "activate"} = {}
      BY DEF ResealNames, SealNames
    <3>3. ResealNames \in SUBSET Machinery /\ ResealNames \cap Entry = {}
      BY MachineryType DEF MachineryNames
    <3>4. \A x \in Rest' : x[1] # "open_writer" \/ x \in Rest
      <4>1. ResealSteps(Arg) \in Seq(Steps) /\ ResealSteps(Arg) # <<>>
        BY <2>8, SlotStepType, SealStepsType, DoType DEF ResealSteps
      <4>2. Rest' = StepsOf(Tail(ResealSteps(Arg))) \cup Rest
        BY <2>0, <2>8, <4>1, CallRest
      <4>. QED  BY <2>8, <4>2, ResealTail
    <3>. QED  BY <2>5, <2>6, <2>8, <3>1, <3>2, <3>3, <3>4
  <2>9. CASE Recover
    <3>1. At("recover")
      BY <2>9 DEF Recover
    <3>2. Arg \in Slots /\ (Pending' = Rest \/ Pending' = StepsOf(ResealSteps(Arg)) \cup Rest)
      BY <1>3, <2>9, RecoverControl
    <3>3. Continue \/ Call(ResealSteps(Arg))
      BY <1>3, <2>9, RecoveryCalls
    <3>4. Continue => Pending' = Rest
      BY <2>0, ContinuePending DEF TypeOK
    <3>. QED  BY <2>0, <2>7, <2>8, <3>1, <3>2, <3>3, <3>4
  <2>10. CASE SealRecovered
    <3>1. At("seal_recovered")
      BY <2>10 DEF SealRecovered
    <3>2. Arg \in Slots /\ (Pending' = Rest \/ Pending' = StepsOf(ResealSteps(Arg)) \cup Rest)
      BY <1>3, <2>10, SealRecoveredControl
    <3>3. Continue \/ Call(ResealSteps(Arg))
      BY <1>3, <2>10, RecoveryCalls
    <3>4. Continue => Pending' = Rest
      BY <2>0, ContinuePending DEF TypeOK
    <3>. QED  BY <2>0, <2>7, <2>8, <3>1, <3>2, <3>3, <3>4
  <2>11. CASE PickHighest \/ CountBoot
    BY <1>3, <2>7, <2>11, SetStateControl
  <2>12. CASE SelectActive
    <3>. DEFINE s == HighestSlot(segments)
    <3>1. /\ s \in Slots
          /\ \/ Pending' = StepsOf(<<<<"open_writer", s>>>>) \cup Rest
             \/ Pending' = StepsOf(<<Do("open_next")>>) \cup Rest
      BY <1>3, <2>12, SelectControl
    <3>. HIDE DEF s
    <3>2. /\ {"open_writer"} \in SUBSET Machinery /\ {"open_next"} \in SUBSET Machinery
          /\ {"open_writer"} \cap Entry = {} /\ {"open_next"} \cap Entry = {}
      <4>1. "open_writer" \in ResealNames /\ "open_next" \in RotateNames
        BY DEF ResealNames, RotateNames
      <4>. QED  BY <4>1, MachineryType DEF MachineryNames
    <3>3. CASE Pending' = StepsOf(<<<<"open_writer", s>>>>) \cup Rest
      <4>1. \A x \in StepsOf(<<<<"open_writer", s>>>>) : x[1] \in {"open_writer"}
        BY <3>1, CallNames
      <4>2. ASSUME NEW x \in Rest', todo' # <<>>, x[1] = "open_writer" PROVE x \in Rest
        <5>1. Call(<<<<"open_writer", s>>>>) \/ Call(<<Do("open_next")>>)
          BY <1>3, <2>12, RecoveryCalls DEF s
        <5>2. <<<<"open_writer", s>>>> \in Seq(Steps) /\ <<Do("open_next")>> \in Seq(Steps)
          BY <3>1, SlotStepType, DoType
        <5>3. Tail(<<<<"open_writer", s>>>>) = <<>> /\ Tail(<<Do("open_next")>>) = <<>>
          OBVIOUS
        <5>4. StepsOf(<<>>) = {}
          BY DEF StepsOf
        <5>5. Rest' = StepsOf(<<>>) \cup Rest
          BY <2>0, <5>1, <5>2, <5>3, CallRest
        <5>. QED  BY <4>2, <5>4, <5>5
      <4>3. PICK M : M = {"open_writer"}
        OBVIOUS
      <4>4. PICK new : new = StepsOf(<<<<"open_writer", s>>>>)
        OBVIOUS
      <4>5. /\ M \in SUBSET Machinery /\ Pending' = new \cup Rest /\ (\A x \in new : x[1] \in M)
            /\ M \cap Entry = {} /\ "close_writer" \notin M
            /\ M \cap {"write_buffer", "flushed", "retire", "header", "activate"} = {}
        BY <3>2, <3>3, <4>1, <4>3, <4>4
      <4>6. "open_writer" \in M => (todo' # <<>> => \A x \in Rest' : x[1] # "open_writer" \/ x \in Rest)
        BY <4>2
      <4>. QED  BY ONLY <2>6, <4>5, <4>6
    <3>4. CASE Pending' = StepsOf(<<Do("open_next")>>) \cup Rest
      <4>1. \A x \in StepsOf(<<Do("open_next")>>) : x[1] \in {"open_next"}
        BY CallNames DEF Do
      <4>. QED  BY <2>6, <3>2, <3>4, <4>1
    <3>. QED  BY <3>1, <3>3, <3>4
  <2>13. CASE AppendBoot
    <3>. DEFINE q == AppendSteps(BootEntrySize, TRUE)
    <3>0. Pending' = StepsOf(q) \cup Rest /\ At("append_boot")
      BY <2>13, AppendBootControl DEF AppendBoot
    <3>1. \A y \in Rest : y[1] \notin Entry
      BY <2>0, <3>0, BehindBoot DEF TypeOK, ControlInv
    <3>2. \/ /\ \A x \in StepsOf(q) : x[1] \in DirectNames
             /\ <<"account", BootEntrySize>> \in StepsOf(q)
             /\ Do("acknowledge") \in StepsOf(q)
          \/ \A x \in StepsOf(q) : x[1] \in {"flush", "prepare", "put"}
      BY BootEntryAssumption, AppendShape
    <3>. HIDE DEF q
    <3>3. /\ \A x \in StepsOf(q) : x[1] \in DirectNames \cup {"put"}
          /\ ~(\E x \in Rest : x[1] \in {"write_entry", "account", "put"} \cup Bypass)
      <4>1. \A x \in StepsOf(q) : x[1] \in DirectNames \cup {"put"}
        BY <3>2 DEF DirectNames
      <4>. QED  BY <3>1, <4>1 DEF Entry, Sized, Bypass
    <3>4. \A x \in Pending' : x[1] \notin {"write_buffer", "flushed", "retire", "header", "close_writer",
                                           "activate", "open_writer"}
      <4>1. \A y \in Rest : y[1] # "write_buffer"
        BY <2>0, BehindData
      <4>. QED  BY <2>4, <3>0, <3>3, <4>1 DEF DirectNames, Rotation
    <3>5. Has({"write_entry"})' \/ Has({"account"})' => Has({"account"})' /\ Has({"acknowledge"})'
      BY <3>0, <3>2, <3>3 DEF Has, Do
    <3>6. Has({"put"})' => ~Has(Bypass)'
      BY <3>0, <3>2, <3>3 DEF Has, DirectNames, Bypass
    <3>7. SequenceInv'
      BY <3>4, <3>5, <3>6, NothingOpens DEF SequenceInv, Has
    <3>8. ~Has({"flushed"})'
      BY <3>4 DEF Has
    <3>. QED  BY <2>3, <3>7, <3>8, BufferEmpty
  <2>. QED  BY <1>3, <2>9, <2>10, <2>11, <2>12, <2>13
<1>. QED  BY <1>1, <1>2, <1>3

\* The public operations, and what is not an operation of the store.
LEMMA OperationBuffer ==
    ASSUME TypeOK, TypeOK', ControlInv, SpaceInv, SequenceInv, BufferInv,
           \/ Close \/ NoWriter \/ NoEntry \/ WriteError \/ OpenWriterError
           \/ StartInit \/ AppendEntry \/ FlushWrite \/ Deinit \/ RotIndex \/ RotData \/ Crash
    PROVE  SequenceInv' /\ BufferInv'
<1>1. CASE Close \/ Crash \/ OpenWriterError
  <2>1. todo' = <<>>
    BY <1>1 DEF Close, Crash, OpenWriterError, Reset
  <2>. QED  BY <2>1, EmptyControl, NothingPending
<1>2. CASE NoWriter \/ NoEntry \/ WriteError
  BY <1>2, FailControl, NothingPending DEF NoWriter, NoEntry, WriteError
<1>3. CASE RotIndex \/ RotData
  <2>1. UNCHANGED <<todo, write_buf>>
    BY <1>3 DEF RotIndex, RotData, memory, control
  <2>. QED  BY <2>1 DEF SequenceInv, BufferInv, Has, Pending, Rest, At
<1>4. CASE StartInit
  <2>1. \A x \in Pending' : x[1] \in {"recover", "highest", "seal_recovered"} \cup LastNames
    BY <1>4, InitList DEF StartInit, IsList, Pending
  <2>2. \A x \in Pending' : x[1] \notin Sealing \cup Rotation \cup Bypass
                                \cup {"flushed", "write_buffer", "put", "close_writer", "open_writer"}
    BY <2>1 DEF LastNames, Sealing, Rotation, Bypass
  <2>3. SequenceInv'
    BY <2>2, NothingOpens DEF SequenceInv, Has, Rotation, Bypass
  <2>4. BufferInv'
    BY <2>2, BufferFree DEF Has
  <2>. QED  BY <2>3, <2>4
<1>5. CASE AppendEntry
  <2>1. PICK n \in EntrySizes, force_flush \in BOOLEAN : todo' = AppendSteps(n, force_flush)
    BY <1>5 DEF AppendEntry
  <2>. DEFINE q == AppendSteps(n, force_flush)
  <2>2. n \in 1 .. Capacity /\ Pending' = StepsOf(q) /\ todo' = q
    BY <2>1, EntrySizesAssumption DEF Pending
  <2>3. \/ /\ q # <<>> /\ Head(q)[1] = "flush"
           /\ \A x \in StepsOf(q) : x[1] \in DirectNames
           /\ <<"write_entry", n>> \in StepsOf(q) /\ <<"account", n>> \in StepsOf(q)
           /\ Do("acknowledge") \in StepsOf(q)
        \/ \A x \in StepsOf(q) : x[1] \in {"flush", "prepare", "put"}
    BY <2>2, AppendShape
  <2>. HIDE DEF q
  <2>4. CASE \A x \in StepsOf(q) : x[1] \in {"flush", "prepare", "put"}
    <3>1. \A x \in Pending' : x[1] \notin Sealing \cup Rotation \cup Bypass
                                \cup {"flushed", "write_buffer", "close_writer", "open_writer"}
      BY <2>2, <2>4 DEF Sealing, Rotation, Bypass
    <3>2. SequenceInv'
      BY <3>1, NothingOpens DEF SequenceInv, Has, Rotation, Bypass
    <3>3. BufferInv'
      BY <3>1, BufferFree DEF Has
    <3>. QED  BY <3>2, <3>3
  <2>5. CASE /\ q # <<>> /\ Head(q)[1] = "flush"
             /\ \A x \in StepsOf(q) : x[1] \in DirectNames
             /\ <<"write_entry", n>> \in StepsOf(q) /\ <<"account", n>> \in StepsOf(q)
             /\ Do("acknowledge") \in StepsOf(q)
    <3>1. \A x \in Pending' : x[1] \notin Rotation \cup {"flushed", "write_buffer", "put", "close_writer", "open_writer"}
      BY <2>2, <2>5 DEF Rotation, DirectNames
    <3>2. At("flush")'
      BY <2>2, <2>5 DEF At
    <3>3. Has({"write_entry"})' /\ Has({"account"})' /\ Has({"acknowledge"})'
      BY <2>2, <2>5 DEF Has, Do
    <3>4. SequenceInv'
      BY <3>1, <3>3, NothingOpens DEF SequenceInv, Has, Rotation
    <3>5. BufferInv'
      BY <3>1, <3>2, <3>3 DEF BufferInv, Has
    <3>. QED  BY <3>4, <3>5
  <2>. QED  BY <2>3, <2>4, <2>5
<1>6. CASE FlushWrite \/ Deinit
  <2>1. \A x \in Pending' : x[1] \in {"flush", "close"}
    <3>1. CASE FlushWrite
      BY <3>1 DEF FlushWrite, Pending, StepsOf, Do
    <3>2. CASE Deinit
      BY <3>2, LongLists DEF Deinit, IsList, Pending
    <3>. QED  BY <1>6, <3>1, <3>2
  <2>2. \A x \in Pending' : x[1] \notin Sealing \cup Rotation \cup Bypass
                                \cup {"flushed", "write_buffer", "put", "close_writer", "open_writer"}
    BY <2>1 DEF Sealing, Rotation, Bypass
  <2>3. SequenceInv'
    BY <2>2, NothingOpens DEF SequenceInv, Has, Rotation, Bypass
  <2>4. BufferInv'
    BY <2>2, BufferFree DEF Has
  <2>. QED  BY <2>3, <2>4
<1>. QED  BY <1>1, <1>2, <1>3, <1>4, <1>5, <1>6

\* Every step keeps the order of flushing.
LEMMA NextBuffer ==
    TypeOK /\ TypeOK' /\ ControlInv /\ SpaceInv /\ RotationInv /\ SequenceInv /\ BufferInv /\ [Next]_vars
        => SequenceInv' /\ BufferInv'
<1>. SUFFICES ASSUME TypeOK, TypeOK', ControlInv, SpaceInv, RotationInv, SequenceInv, BufferInv, [Next]_vars
              PROVE  SequenceInv' /\ BufferInv'
  OBVIOUS
<1>1. CASE UNCHANGED vars
  BY <1>1 DEF vars, memory, control, SequenceInv, BufferInv, Has, Pending, Rest, At
<1>2. CASE Next
  <2>1. CASE Moves
    BY <2>1, MovesBuffer
  <2>2. CASE Flush \/ PrepareSpace \/ OpenNext \/ Retire
    BY <2>2, CallsBuffer
  <2>3. CASE Recover \/ PickHighest \/ SealRecovered \/ SelectActive \/ CountBoot \/ AppendBoot \/ Ready
    BY <2>3, RecoveryBuffer
  <2>4. CASE \/ Close \/ NoWriter \/ NoEntry \/ WriteError \/ OpenWriterError
             \/ StartInit \/ AppendEntry \/ FlushWrite \/ Deinit \/ RotIndex \/ RotData \/ Crash
    BY <2>4, OperationBuffer
  <2>. QED  BY <1>2, <2>1, <2>2, <2>3, <2>4 DEF Next, Step, Moves
<1>. QED  BY <1>1, <1>2

-----------------------------------------------------------------------------
(* The active segment and its file.                                        *)

\* The steps of a store that stays open, when no write fails.
Operations == AppendEntry \/ FlushWrite \/ Deinit
Plain ==
    \/ WriteDone \/ OpenWriter \/ Flushed \/ PutEntry \/ ReserveEntry \/ AccountEntry
    \/ Acknowledge \/ Sealed \/ Settle \/ Flush \/ PrepareSpace \/ Retire \/ CountBoot \/ AppendBoot
    \/ Ready

\* Without I/O errors a step of a running store is of one of these kinds.
LEMMA Kinds ==
    ASSUME TypeOK, ControlInv, [Next]_vars, "io" \notin Faults, mode' # "off"
    PROVE  \/ UNCHANGED vars \/ StartInit \/ Operations \/ Plain
           \/ CloseWriter \/ PickHighest \/ OpenNext \/ Activate
           \/ Recover \/ SealRecovered \/ SelectActive \/ NoWriter \/ NoEntry
<1>1. ~Close /\ ~Crash
  BY DEF Close, Crash, Reset
<1>2. ~RotIndex /\ ~RotData
  BY DEF RotIndex, RotData, control
<1>3. ~WriteError /\ ~OpenWriterError
  BY DEF WriteError, OpenWriterError, Fault
<1>. QED  BY <1>1, <1>2, <1>3 DEF Next, Step, Plain, Operations

\* What a step leaves to do.
Leaves == {"recover", "highest", "seal_recovered", "select", "open_writer", "retire", "header", "activate"}

\* A plain step goes on with the rest, or calls steps that are plain.
LEMMA PlainPending ==
    ASSUME TypeOK, ControlInv, Plain, mode' # "off"
    PROVE  /\ todo # <<>> /\ Pending = {Head(todo)} \cup Rest
           /\ \E new : /\ Pending' = new \cup Rest
                       /\ \A x \in new : x[1] \notin Leaves
                       /\ (\E x \in new : x[1] \in Sealing \cup {"open_next"}) => PrepareSpace
<1>1. ASSUME Pending' = Rest, todo # <<>> PROVE todo # <<>> /\ Pending' = {} \cup Rest
  BY <1>1
<1>2. ASSUME todo # <<>>, NEW new, Pending' = new \cup Rest, \A x \in new : x[1] \notin Leaves,
             (\E x \in new : x[1] \in Sealing \cup {"open_next"}) => PrepareSpace
      PROVE  /\ todo # <<>> /\ Pending = {Head(todo)} \cup Rest
             /\ \E n : /\ Pending' = n \cup Rest
                       /\ \A x \in n : x[1] \notin Leaves
                       /\ (\E x \in n : x[1] \in Sealing \cup {"open_next"}) => PrepareSpace
  <2>1. Pending = {Head(todo)} \cup Rest
    BY <1>2, BehindEntry
  <2>. QED  BY <1>2, <2>1
<1>3. ASSUME Pending' = Rest, todo # <<>>
      PROVE  /\ todo # <<>> /\ Pending = {Head(todo)} \cup Rest
             /\ \E n : /\ Pending' = n \cup Rest
                       /\ \A x \in n : x[1] \notin Leaves
                       /\ (\E x \in n : x[1] \in Sealing \cup {"open_next"}) => PrepareSpace
  <2>1. PICK new : new = {}
    OBVIOUS
  <2>2. Pending' = new \cup Rest /\ (\A x \in new : x[1] \notin Leaves)
        /\ ((\E x \in new : x[1] \in Sealing \cup {"open_next"}) => PrepareSpace)
    BY <1>3, <2>1
  <2>. QED  BY ONLY <1>2, <1>3, <2>2
<1>4. CASE Moves
  BY <1>3, <1>4, MovesControl
<1>5. CASE Flush
  <2>1. \A x \in StepsOf(FlushSteps) : x[1] \notin Leaves \cup Sealing \cup {"open_next"}
    <3>1. \A x \in StepsOf(FlushSteps) : x[1] \in FlushNames
      BY CallNames
    <3>. QED  BY <3>1 DEF FlushNames, Leaves, Sealing
  <2>2. todo # <<>> /\ (Pending' = Rest \/ Pending' = StepsOf(FlushSteps) \cup Rest)
    BY <1>5, FlushControl
  <2>. QED  BY <1>2, <1>3, <2>1, <2>2
<1>6. CASE PrepareSpace
  <2>1. \A x \in StepsOf(SealSteps \o <<Do("open_next")>>) : x[1] \notin Leaves
    <3>1. \A x \in StepsOf(SealSteps \o <<Do("open_next")>>) : x[1] \in RotateNames
      BY CallNames
    <3>. QED  BY <3>1 DEF RotateNames, SealNames, Leaves
  <2>2. todo # <<>> /\ (Pending' = Rest \/ Pending' = StepsOf(SealSteps \o <<Do("open_next")>>) \cup Rest)
    BY <1>6, PrepareControl
  <2>. QED  BY <1>2, <1>3, <1>6, <2>1, <2>2
<1>7. CASE Retire
  <2>1. \A x \in StepsOf(RetireSteps) : x[1] \notin Leaves \cup Sealing \cup {"open_next"}
    <3>1. \A x \in StepsOf(RetireSteps) : x[1] = "commit"
      BY CallNames
    <3>. QED  BY <3>1 DEF Leaves, Sealing
  <2>2. todo # <<>> /\ (Pending' = Rest \/ Pending' = StepsOf(RetireSteps) \cup Rest)
    BY <1>7, RetireControl
  <2>. QED  BY <1>2, <1>3, <2>1, <2>2
<1>8. CASE CountBoot
  <2>1. ~Fail
    <3>1. todo # <<>> /\ At("count_boot")
      BY <1>8 DEF CountBoot, At
    <3>2. mode = "init"
      BY <3>1, BootPending DEF At, Recovering
    <3>. QED  BY <3>2 DEF Fail, Reset
  <2>. QED  BY <1>3, <1>8, <2>1, SetStateControl
<1>9. CASE AppendBoot
  <2>1. \A x \in StepsOf(AppendSteps(BootEntrySize, TRUE)) : x[1] \notin Leaves \cup Sealing \cup {"open_next"}
    <3>1. \A x \in StepsOf(AppendSteps(BootEntrySize, TRUE)) : x[1] \in AppendNames
      BY BootEntryAssumption, AppendList DEF IsList
    <3>. QED  BY <3>1 DEF AppendNames, DirectNames, Leaves, Sealing
  <2>2. todo # <<>> /\ Pending' = StepsOf(AppendSteps(BootEntrySize, TRUE)) \cup Rest
    BY <1>9, AppendBootControl
  <2>. QED  BY <1>2, <2>1, <2>2
<1>10. CASE Ready
  BY <1>3, <1>10, ReadyControl
<1>. QED  BY <1>4, <1>5, <1>6, <1>7, <1>8, <1>9, <1>10 DEF Plain, Moves

\* The open file is that of the slot a step writes to.
LEMMA WriterOpen ==
    ASSUME TypeOK, ControlInv, SpaceInv, SequenceInv, BufferInv, ActiveInv
    PROVE  /\ At("header") => writer_fd = NextSlot /\ ~Working
           /\ At("write_buffer") \/ At("write_entry") \/ At("write_index") \/ At("footer") =>
                 Working /\ writer_fd = active_segment.slot
<1>. SUFFICES ASSUME todo # <<>>
              PROVE  /\ At("header") => writer_fd = NextSlot /\ ~Working
                     /\ At("write_buffer") \/ At("write_entry") \/ At("write_index") \/ At("footer") =>
                           Working /\ writer_fd = active_segment.slot
  BY DEF At
<1>1. Pending = {Head(todo)} \cup Rest
  BY BehindEntry
<1>2. mode # "off"
  BY DEF ControlInv
<1>3. CASE At("header")
  <2>1. Has({"activate"})
    BY <1>1, <1>3 DEF SequenceInv, Has, At
  <2>2. ~Has({"open_writer"})
    BY <1>1, <1>3, BehindStep DEF Has, At
  <2>3. ~Working
    BY <2>1 DEF SequenceInv, Working, Has, Unbound
  <2>. QED  BY <1>3, <2>1, <2>2, <2>3 DEF ActiveInv, WritesTo, At
<1>4. ASSUME ~Has({"activate"}), Working, ~At("open_writer") PROVE writer_fd = active_segment.slot
  <2>1. ~Has({"open_writer"})
    <3>1. ~ \E x \in Rest : x[1] = "open_writer"
      BY <1>4 DEF SequenceInv
    <3>. QED  BY <1>1, <1>4, <3>1 DEF Has, At
  <2>. QED  BY <1>4, <2>1 DEF ActiveInv, WritesTo
<1>5. CASE At("write_index") \/ At("footer")
  <2>1. Has(Sealing)
    BY <1>1, <1>5 DEF Has, At, Sealing
  <2>2. Working /\ ~Has({"activate"})
    BY <1>2, <2>1 DEF Working, SequenceInv
  <2>. QED  BY <1>4, <1>5, <2>2 DEF At
<1>6. CASE At("write_entry")
  <2>1. ~Has(Booting)
    <3>1. Has(Sized \cup {"acknowledge"})
      BY <1>1, <1>6 DEF Has, At, Sized
    <3>. QED  BY <3>1 DEF ControlInv
  <2>2. ~Has({"open_next", "activate"})
    BY <1>1, <1>6, BehindStep DEF Has, At, Rotating
  <2>3. Working /\ ~Has({"activate"})
    BY <1>2, <2>1, <2>2 DEF Working, Has, Unbound, Booting, Recovering
  <2>. QED  BY <1>4, <1>6, <2>3 DEF At
<1>7. CASE At("write_buffer")
  <2>1. Has({"flushed"})
    BY <1>1, <1>7 DEF SequenceInv, Has, At
  <2>2. write_buf # <<>>
    BY <2>1 DEF BufferInv
  <2>3. ~Has(Booting)
    BY <2>2 DEF SpaceInv
  <2>4. Has(Rotation) => Has(Sealing)
    BY <2>2 DEF BufferInv
  <2>5. Working
    BY <1>2, <2>3, <2>4 DEF Working, Has, Unbound, Booting, Recovering, Rotation
  <2>6. ~Has({"activate"})
    BY <2>4 DEF SequenceInv, Has, Rotation
  <2>. QED  BY <1>4, <1>7, <2>5, <2>6 DEF At
<1>. QED  BY <1>3, <1>5, <1>6, <1>7 DEF At

\* An entry of unknown id is appended to the active segment.
LEMMA EntryWorking ==
    ASSUME TypeOK, ControlInv, todo # <<>>, Head(todo)[1] \in Entry
    PROVE  Working /\ ~Has(Booting) /\ ~Has(Rotation)
<1>1. Pending = {Head(todo)} \cup Rest /\ mode # "off"
  BY BehindEntry DEF ControlInv
<1>2. ~Has(Booting)
  <2>1. Has(Sized \cup {"acknowledge"})
    BY <1>1 DEF Has, Entry
  <2>. QED  BY <2>1 DEF ControlInv
<1>3. ~Has(Rotation)
  BY <1>1, BehindData DEF Has, At, Entry, Sized, Rotation, Bypass
<1>. QED  BY <1>1, <1>2, <1>3 DEF Working, Has, Unbound, Booting, Recovering, Rotation

\* A step that does not change the file but by opening it writes where it did.
LEMMA WritesKept ==
    ASSUME TypeOK, ControlInv, todo # <<>>, NEW s, WritesTo(s), NEW new, Pending' = new \cup Rest,
           \A x \in new : x[1] # "open_writer",
           \/ UNCHANGED writer_fd /\ ~At("open_writer")
           \/ At("open_writer") /\ writer_fd' = Arg
    PROVE  WritesTo(s)'
<1>1. Pending = {Head(todo)} \cup Rest
  BY BehindEntry
<1>2. CASE UNCHANGED writer_fd /\ ~At("open_writer")
  <2>1. Has({"open_writer"})' <=> Has({"open_writer"})
    BY <1>1, <1>2 DEF Has, At
  <2>. QED  BY <1>1, <1>2, <2>1 DEF WritesTo
<1>3. CASE At("open_writer") /\ writer_fd' = Arg
  <2>1. Has({"open_writer"}) /\ Head(todo)[1] = "open_writer" /\ Head(todo)[2] = Arg
    BY <1>1, <1>3 DEF Has, At, Arg
  <2>. QED  BY <1>1, <1>3, <2>1 DEF WritesTo
<1>. QED  BY <1>2, <1>3

\* The next generation is there before its segment is opened.
LEMMA OpenNextCalls ==
    ASSUME TypeOK, ControlInv, RotationInv, GenerationInv, OpenNext
    PROVE  /\ todo # <<>> /\ Pending' = StepsOf(OpenNextSteps) \cup Rest /\ UNCHANGED <<mode, memory>>
           /\ Has({"activate"})'
<1>1. todo # <<>> /\ At("open_next") /\ Pending = {Head(todo)} \cup Rest /\ mode # "off"
  BY BehindEntry DEF OpenNext, At, ControlInv
<1>2. ~Choosing
  <2>1. Has({"open_next"})
    BY <1>1 DEF Has, At
  <2>2. ~Has({"select"})
    BY <2>1 DEF RotationInv, Has
  <2>3. ~Has({"highest"})
    BY <2>2 DEF RotationInv, Has
  <2>. QED  BY <1>1, <2>3 DEF Choosing
<1>3. state.next_generation # 0
  BY <1>2, NextHome
<1>4. OpenNextSteps \in Seq(Steps) /\ Call(OpenNextSteps) /\ UNCHANGED <<mode, memory>>
  <2>1. NextSlot \in Slots
    BY NextSlotType DEF TypeOK
  <2>2. OpenNextSteps \in Seq(Steps)
    BY <2>1, ShortLists DEF IsList, OpenNextSteps
  <2>. QED  BY <1>3, <2>2 DEF OpenNext, OpenNextSteps
<1>5. Pending' = StepsOf(OpenNextSteps) \cup Rest
  BY <1>1, <1>4, CallPending DEF TypeOK
<1>6. <<"activate", 0>> \in Pending' /\ <<"activate", 0>>[1] = "activate"
  BY <1>5, OpenNextSet
<1>. QED  BY <1>1, <1>4, <1>5, <1>6 DEF Has

\* The memory describes the active segment as long as nothing else is made active.
LEMMA WorkingKept ==
    ASSUME TypeOK, ControlInv, SpaceInv, RotationInv, GenerationInv, SequenceInv, SequenceInv', BufferInv,
           ActiveInv, [Next]_vars, "io" \notin Faults, Working', ~UNCHANGED vars
    PROVE  \/ /\ Working /\ ~At("retire") /\ ~At("header")
              /\ Operations \/ Plain \/ NoEntry
           \/ Recover \/ SealRecovered \/ SelectActive \/ Activate
<1>. SUFFICES ASSUME ~Recover, ~SealRecovered, ~SelectActive, ~Activate
              PROVE  Working /\ ~At("retire") /\ ~At("header") /\ (Operations \/ Plain \/ NoEntry)
  OBVIOUS
<1>1. mode' # "off" /\ (Has(Sealing)' \/ ~Has(Unbound)')
  BY DEF Working
<1>2. ~Has({"activate"})'
  BY <1>1 DEF SequenceInv, Has, Unbound
<1>3. ~NoWriter
  <2>1. NextSlot \in Slots /\ active_segment.slot \in Slots /\ NoFd \notin Slots
    BY NextSlotType, SegmentCountAssumption DEF TypeOK, MemoryTypeOK, Slots, NoFd
  <2>2. WriterStep => writer_fd \in Slots
    BY <2>1, WriterOpen DEF WriterStep
  <2>. QED  BY <2>1, <2>2 DEF NoWriter
<1>4. ~StartInit
  <2>. SUFFICES ASSUME StartInit PROVE FALSE
    OBVIOUS
  <2>1. Pending' = StepsOf(InitSteps)
    BY DEF StartInit, Pending
  <2>2. Has(Unbound)'
    <3>1. Do("highest") \in Pending' /\ Do("highest")[1] = "highest"
      BY <2>1, InitHas DEF Do
    <3>. QED  BY <3>1 DEF Has, Unbound
  <2>3. ~Has(Sealing)'
    <3>1. \A x \in StepsOf(InitSteps) : x[1] \in {"recover", "highest", "seal_recovered"} \cup LastNames
      BY InitList DEF IsList
    <3>. QED  BY <2>1, <3>1 DEF Has, Sealing, LastNames
  <2>. QED  BY <1>1, <2>2, <2>3
<1>5. ~OpenNext
  BY <1>2, OpenNextCalls
<1>6. ~CloseWriter
  <2>. SUFFICES ASSUME CloseWriter PROVE FALSE
    OBVIOUS
  <2>1. At("close_writer") /\ todo # <<>> /\ Pending = {Head(todo)} \cup Rest /\ Pending' = Rest
    BY BehindEntry, MovesControl DEF Moves, CloseWriter, At
  <2>2. \E x \in Rest : x[1] = "select"
    BY <2>1 DEF SequenceInv, Has, At
  <2>3. \A y \in Rest : y[1] \notin Sealing
    <3>1. \A m \in Sealing : Place[m] < Follow["close_writer"]
      BY ONLY PlaceValues, FollowValues DEF Sealing
    <3>. QED  BY <2>1, <3>1, NeverBehind
  <2>. QED  BY <1>1, <2>1, <2>2, <2>3 DEF Has, Unbound
<1>7. ~PickHighest
  <2>. SUFFICES ASSUME PickHighest PROVE FALSE
    OBVIOUS
  <2>1. At("highest") /\ todo # <<>> /\ Pending = {Head(todo)} \cup Rest
    BY BehindEntry DEF PickHighest, At
  <2>2. \E x \in Rest : x[1] = "select"
    BY <2>1 DEF RotationInv, Has, At
  <2>3. \A y \in Rest : y[1] \notin Sealing
    BY <2>1, BehindAppend
  <2>4. Pending' = Rest
    <3>1. mode = "init"
      BY <2>1 DEF ControlInv, Has, At, Booting, Recovering
    <3>2. ~Fail
      BY <1>1, <3>1 DEF Fail, Reset
    <3>. QED  BY <3>2, SetStateControl
  <2>. QED  BY <1>1, <2>2, <2>3, <2>4 DEF Has, Unbound
<1>8. Operations \/ Plain \/ NoEntry
  BY <1>1, <1>3, <1>4, <1>5, <1>6, <1>7, Kinds
<1>9. CASE Operations
  <2>1. todo = <<>> /\ Pending = {} /\ mode # "off"
    BY <1>9 DEF Operations, AppendEntry, FlushWrite, Deinit, Idle, Pending, StepsOf
  <2>. QED  BY <1>9, <2>1 DEF Working, Has, At
<1>10. CASE NoEntry
  <2>1. At("put") \/ At("reserve")
    BY <1>10 DEF NoEntry
  <2>2. Working
    BY <2>1, EntryWorking DEF At, Entry, Sized
  <2>. QED  BY <1>10, <2>1, <2>2 DEF At
<1>11. CASE Plain
  <2>1. todo # <<>> /\ Pending = {Head(todo)} \cup Rest /\ mode # "off"
    BY <1>1, <1>11, PlainPending DEF ControlInv
  <2>2. PICK new : /\ Pending' = new \cup Rest
                   /\ \A x \in new : x[1] \notin Leaves
                   /\ (\E x \in new : x[1] \in Sealing \cup {"open_next"}) => PrepareSpace
    BY <1>1, <1>11, PlainPending
  <2>3. ~At("retire") /\ ~At("header")
    <3>1. At("retire") \/ At("header") => \E x \in Rest : x[1] = "activate"
      BY <2>1 DEF SequenceInv, Has, At
    <3>. QED  BY <1>2, <2>2, <3>1 DEF Has
  <2>4. CASE PrepareSpace
    BY <2>3, <2>4, <1>8, EntryWorking DEF PrepareSpace, At, Entry, Sized
  <2>5. CASE ~PrepareSpace
    <3>1. CASE Has(Sealing)'
      <4>1. Has(Sealing)
        BY <2>1, <2>2, <2>5, <3>1 DEF Has
      <4>. QED  BY <1>8, <2>1, <2>3, <4>1 DEF Working
    <3>2. CASE ~Has(Unbound)'
      <4>1. Head(todo)[1] \notin Unbound
        <5>1. ~At("recover") /\ ~At("highest") /\ ~At("seal_recovered") /\ ~At("select")
              /\ ~At("open_next") /\ ~At("activate")
          BY <1>11 DEF Plain, WriteDone, Write, WriterWrite, WriteBuffer, WriteEntry, WriteIndex, WriteFooter,
                WriteHeader, Commit, OpenWriter, Flushed, PutEntry, ReserveEntry, AccountEntry, Acknowledge,
                Sealed, Settle, Flush, PrepareSpace, Retire, CountBoot, AppendBoot, Ready, At
        <5>. QED  BY <2>1, <5>1 DEF At, Unbound
      <4>2. ~Has(Unbound)
        BY <2>1, <2>2, <3>2, <4>1 DEF Has
      <4>. QED  BY <1>8, <2>1, <2>3, <4>2 DEF Working
    <3>. QED  BY <1>1, <3>1, <3>2
  <2>. QED  BY <2>4, <2>5
<1>. QED  BY <1>8, <1>9, <1>10, <1>11

\* The operations start with nothing left to do and open no file.
LEMMA OperationsPending ==
    ASSUME TypeOK, ControlInv, Operations
    PROVE  /\ todo = <<>> /\ Pending = {} /\ mode = "run" /\ mode' = "run"
           /\ UNCHANGED <<medium, memory, acked, faults>>
           /\ \A x \in Pending' : x[1] \notin Leaves \cup Sealing \cup {"open_next", "write_buffer", "flushed"}
<1>1. todo = <<>> /\ Pending = {} /\ mode = "run" /\ mode' = "run" /\ UNCHANGED <<medium, memory, acked, faults>>
  BY DEF Operations, AppendEntry, FlushWrite, Deinit, Idle, Pending, StepsOf
<1>2. \A x \in Pending' : x[1] \in AppendNames \cup {"close"}
  <2>1. CASE AppendEntry
    <3>1. PICK n \in EntrySizes, force_flush \in BOOLEAN : todo' = AppendSteps(n, force_flush)
      BY <2>1 DEF AppendEntry
    <3>2. n \in 1 .. Capacity
      BY EntrySizesAssumption
    <3>. QED  BY <3>1, <3>2, AppendList DEF IsList, Pending
  <2>2. CASE FlushWrite
    BY <2>2 DEF FlushWrite, Pending, StepsOf, Do, AppendNames, DirectNames
  <2>3. CASE Deinit
    <3>1. PICK force \in BOOLEAN : todo' = (IF force THEN <<>> ELSE <<Do("flush")>>) \o <<Do("close")>>
      BY <2>3 DEF Deinit
    <3>2. \A x \in Pending' : x[1] \in {"flush", "close"}
      BY <3>1, LongLists DEF IsList, Pending
    <3>. QED  BY <3>2 DEF AppendNames, DirectNames
  <2>. QED  BY <2>1, <2>2, <2>3 DEF Operations
<1>. QED  BY <1>1, <1>2 DEF AppendNames, DirectNames, Leaves, Sealing

\* The descriptor of the active segment follows the offset that appends have reached.
LEMMA DataEndKept ==
    ASSUME TypeOK, Operations \/ Plain \/ NoEntry, ~At("retire"), mode' # "off",
           segments[active_segment.slot].data_end = active_write_offset
    PROVE  segments'[active_segment.slot].data_end = active_write_offset'
<1>. USE DEF TypeOK, MemoryTypeOK
<1>1. CASE UNCHANGED <<segments, active_write_offset>>
  BY <1>1
<1>2. Fail => UNCHANGED <<segments, active_write_offset>>
  BY DEF Fail, Reset, memory
<1>3. CASE Operations \/ NoEntry
  BY <1>1, <1>2, <1>3 DEF Operations, AppendEntry, FlushWrite, Deinit, NoEntry, memory
<1>4. CASE WriteDone \/ OpenWriter \/ Flushed \/ ReserveEntry \/ Acknowledge \/ Settle
  BY <1>1, <1>4 DEF WriteDone, OpenWriter, Flushed, ReserveEntry, Acknowledge, Settle, SetState, memory
<1>5. CASE Flush \/ PrepareSpace \/ CountBoot \/ AppendBoot \/ Ready
  BY <1>1, <1>2, <1>5 DEF Flush, PrepareSpace, CountBoot, SetState, AppendBoot, Ready, memory
<1>6. CASE PutEntry \/ AccountEntry
  <2>1. \E id, n : Account(id, n)
    BY <1>6 DEF PutEntry, AccountEntry
  <2>2. PICK id, n : Account(id, n)
    BY <2>1
  <2>3. PICK first, last, count, end, indexed :
            /\ segments' = [segments EXCEPT ![active_segment.slot] =
                            [segments[active_segment.slot] EXCEPT
                                !.first_entry_id = first, !.last_entry_id = last, !.entry_count = count,
                                !.data_end = end, !.index_count = indexed]]
            /\ end = active_write_offset + n /\ active_write_offset' = end
    BY <2>2 DEF Account
  <2>4. segments[active_segment.slot] \in Descriptor /\ active_segment.slot \in Slots
    OBVIOUS
  <2>. QED  BY <2>3, <2>4 DEF Descriptor
<1>7. CASE Sealed
  BY <1>7 DEF Sealed, Descriptor
<1>8. ~Retire
  BY DEF Retire
<1>. QED  BY <1>3, <1>4, <1>5, <1>6, <1>7, <1>8 DEF Plain

\* Which steps the plain ones are not.
LEMMA PlainHead ==
    ASSUME TypeOK, Operations \/ Plain \/ NoEntry
    PROVE  /\ ~At("recover") /\ ~At("highest") /\ ~At("seal_recovered") /\ ~At("select")
           /\ ~At("open_next") /\ ~At("activate") /\ ~At("close_writer")
           /\ At("open_writer") => OpenWriter
<1>1. CASE Plain
  BY <1>1 DEF Plain, WriteDone, Write, WriterWrite, WriteBuffer, WriteEntry, WriteIndex, WriteFooter,
        WriteHeader, Commit, OpenWriter, Flushed, PutEntry, ReserveEntry, AccountEntry, Acknowledge,
        Sealed, Settle, Flush, PrepareSpace, Retire, CountBoot, AppendBoot, Ready, At
<1>2. CASE Operations
  BY <1>2 DEF Operations, AppendEntry, FlushWrite, Deinit, Idle, At
<1>3. CASE NoEntry
  BY <1>3 DEF NoEntry, At
<1>. QED  BY <1>1, <1>2, <1>3

\* Plain steps but the opening leave the file open.
LEMMA PlainWriter ==
    ASSUME TypeOK, Operations \/ Plain \/ NoEntry, mode' # "off", ~OpenWriter
    PROVE  UNCHANGED writer_fd
<1>1. Fail => UNCHANGED writer_fd
  BY DEF Fail, Reset, memory
<1>2. CASE Operations \/ NoEntry
  BY <1>1, <1>2 DEF Operations, AppendEntry, FlushWrite, Deinit, NoEntry, memory
<1>3. CASE Plain
  BY <1>1, <1>3 DEF Plain, WriteDone, Flushed, PutEntry, ReserveEntry, AccountEntry, Acknowledge,
        Sealed, Settle, Flush, PrepareSpace, Retire, CountBoot, AppendBoot, Ready, SetState, memory
<1>. QED  BY <1>2, <1>3

\* The plain steps keep on writing to the active segment.
LEMMA ActiveCarried ==
    ASSUME TypeOK, ControlInv, RotationInv, SequenceInv, SequenceInv', ActiveInv, [Next]_vars,
           Working, Working', ~At("retire"), ~At("header"), Operations \/ Plain \/ NoEntry
    PROVE  /\ active_segment' = active_segment /\ UNCHANGED headers /\ SameGenerations
           /\ segments'[active_segment.slot].data_end = active_write_offset'
           /\ WritesTo(active_segment.slot)'
<1>0. mode' # "off"
  BY DEF Working
<1>1. active_segment' = active_segment /\ SameGenerations
  BY <1>0, PlainHead, ActiveKept, DescriptorsKept
<1>2. UNCHANGED headers
  BY HeadersWritten
<1>3. segments'[active_segment.slot].data_end = active_write_offset'
  BY <1>0, DataEndKept DEF ActiveInv
<1>4. PICK s : s = active_segment.slot
  OBVIOUS
<1>5. WritesTo(s)
  BY <1>4 DEF ActiveInv
<1>6. CASE Plain
  <2>1. todo # <<>> /\ Pending = {Head(todo)} \cup Rest
    BY <1>0, <1>6, PlainPending
  <2>2. PICK new : Pending' = new \cup Rest /\ \A x \in new : x[1] \notin Leaves
    BY <1>0, <1>6, PlainPending
  <2>3. \A x \in new : x[1] # "open_writer"
    BY <2>2 DEF Leaves
  <2>4. \/ UNCHANGED writer_fd /\ ~At("open_writer")
        \/ At("open_writer") /\ writer_fd' = Arg
    <3>1. CASE OpenWriter
      BY <3>1 DEF OpenWriter
    <3>2. CASE ~OpenWriter
      BY <1>0, <3>2, PlainHead, PlainWriter
    <3>. QED  BY <3>1, <3>2
  <2>5. WritesTo(s)'
    BY <1>5, <2>1, <2>2, <2>3, <2>4, WritesKept
  <2>. QED  BY <1>1, <1>2, <1>3, <1>4, <2>5
<1>7. CASE Operations \/ NoEntry
  <2>1. ~Has({"open_writer"})
    <3>1. CASE Operations
      BY <3>1, OperationsPending DEF Has
    <3>2. CASE NoEntry
      <4>1. (At("put") \/ At("reserve")) /\ todo # <<>> /\ Pending = {Head(todo)} \cup Rest
        BY <3>2, BehindEntry DEF NoEntry, At
      <4>. QED  BY <4>1, BehindStep DEF Has, At, Rotating
    <3>. QED  BY <1>7, <3>1, <3>2
  <2>2. ~Has({"open_writer"})'
    <3>1. CASE Operations
      BY <3>1, OperationsPending DEF Has, Leaves
    <3>2. CASE NoEntry
      BY <3>2, FailControl DEF NoEntry, Has
    <3>. QED  BY <1>7, <3>1, <3>2
  <2>3. UNCHANGED writer_fd
    <3>1. ~OpenWriter
      BY <1>7, <2>1 DEF OpenWriter, Operations, AppendEntry, FlushWrite, Deinit, Idle, NoEntry, At
    <3>. QED  BY <1>0, <3>1, PlainWriter
  <2>. QED  BY <1>1, <1>2, <1>3, <1>4, <1>5, <2>1, <2>2, <2>3 DEF WritesTo
<1>. QED  BY <1>6, <1>7

\* What recovery makes active is a slot with a header, and its file is opened next.
LEMMA Adopts ==
    ASSUME TypeOK, ControlInv, SpaceInv, IdInv, RotationInv, GenerationInv, RetirementInv, [Next]_vars,
           Recover \/ SealRecovered \/ SelectActive, Working'
    PROVE  \E s \in Slots, g \in Nat \ {0} :
               /\ HeaderReadable(s) /\ HeaderGeneration(s) = g /\ Adopt(s, g) /\ UNCHANGED medium
               /\ Has({"open_writer"})' /\ \A x \in Pending' : x[1] = "open_writer" => x[2] = s
               /\ ~Has(Entry \cup Rotation \cup {"flushed"})'
               /\ write_buf = <<>> /\ write_buf' = <<>>
<1>1. mode' # "off" /\ (Has(Sealing)' \/ ~Has(Unbound)')
  BY DEF Working
<1>2. /\ todo # <<>> /\ Pending = {Head(todo)} \cup Rest
      /\ At("recover") \/ At("seal_recovered") \/ At("select")
  BY BehindEntry DEF Recover, SealRecovered, SelectActive, At
<1>3. Has(Booting) /\ mode = "init" /\ ~Has(Entry) /\ write_buf = <<>>
  <2>1. Has(Booting)
    BY <1>2 DEF Has, At, Booting, Recovering
  <2>. QED  BY <2>1 DEF ControlInv, SpaceInv, Has, Entry, Booting
<1>4. ~Fail
  BY <1>1, <1>3 DEF Fail, Reset
<1>5. \A y \in Rest : y[1] \notin Sealing \cup Rotation \cup Entry \cup {"open_writer", "flushed"}
  <2>1. \A y \in Rest : y[1] \notin Sealing \cup Rotation \cup {"open_writer", "flushed"}
    BY <1>2, BehindAppend
  <2>2. \A y \in Rest : y[1] \notin Entry
    BY <1>2, <1>3 DEF Has
  <2>. QED  BY <2>1, <2>2
<1>6. UNCHANGED medium
  BY DEF Recover, SealRecovered, SelectActive
<1>7. ASSUME NEW s \in Slots, NEW g, HeaderReadable(s), HeaderGeneration(s) = g, g # 0, Adopt(s, g),
             NEW new, Pending' = new \cup Rest, <<"open_writer", s>> \in new,
             \A x \in new : x[1] = "open_writer" => x[2] = s,
             \A x \in new : x[1] \in ResealNames
      PROVE  \E t \in Slots, h \in Nat \ {0} :
               /\ HeaderReadable(t) /\ HeaderGeneration(t) = h /\ Adopt(t, h) /\ UNCHANGED medium
               /\ Has({"open_writer"})' /\ \A x \in Pending' : x[1] = "open_writer" => x[2] = t
               /\ ~Has(Entry \cup Rotation \cup {"flushed"})'
               /\ write_buf = <<>> /\ write_buf' = <<>>
  <2>1. g \in Nat \ {0}
    BY <1>7, HeaderGenerationType DEF TypeOK
  <2>2. Has({"open_writer"})'
    <3>1. <<"open_writer", s>> \in Pending' /\ <<"open_writer", s>>[1] = "open_writer"
      BY <1>7
    <3>. QED  BY <3>1 DEF Has
  <2>3. ~Has(Entry \cup Rotation \cup {"flushed"})'
    <3>1. \A n \in ResealNames : n \notin Entry \cup Rotation \cup {"flushed"}
      BY DEF ResealNames, SealNames, Entry, Sized, Rotation
    <3>. QED  BY <1>5, <1>7, <3>1 DEF Has
  <2>4. write_buf' = <<>>
    BY <1>3, <1>7 DEF Adopt
  <2>. QED  BY <1>3, <1>5, <1>6, <1>7, <2>1, <2>2, <2>3, <2>4
<1>8. \A s \in Slots : /\ <<"open_writer", s>> \in StepsOf(ResealSteps(s))
                       /\ \A x \in StepsOf(ResealSteps(s)) :
                              x[1] \in ResealNames /\ (x[1] = "open_writer" => x[2] = s)
  <2>. SUFFICES ASSUME NEW s \in Slots
                PROVE  /\ <<"open_writer", s>> \in StepsOf(ResealSteps(s))
                       /\ \A x \in StepsOf(ResealSteps(s)) :
                              x[1] \in ResealNames /\ (x[1] = "open_writer" => x[2] = s)
    OBVIOUS
  <2>1. ResealSteps(s) \in Seq(Steps) /\ ResealSteps(s) # <<>> /\ Head(ResealSteps(s)) = <<"open_writer", s>>
    <3>1. <<<<"open_writer", s>>>> \in Seq(Steps) /\ SealSteps \in Seq(Steps) /\ <<Do("close_writer")>> \in Seq(Steps)
      BY SlotStepType, SealStepsType, DoType
    <3>. QED  BY <3>1 DEF ResealSteps
  <2>2. StepsOf(ResealSteps(s)) = {<<"open_writer", s>>} \cup StepsOf(Tail(ResealSteps(s)))
    BY <2>1, StepsSplit
  <2>3. \A x \in StepsOf(ResealSteps(s)) : x[1] \in ResealNames
    BY CallNames
  <2>4. \A x \in StepsOf(Tail(ResealSteps(s))) : x[1] # "open_writer"
    BY ResealTail
  <2>5. <<"open_writer", s>>[2] = s
    OBVIOUS
  <2>. QED  BY ONLY <2>2, <2>3, <2>4, <2>5
<1>9. ASSUME \E x \in Rest : x[1] = "select" \/ x[1] = "highest" PROVE Pending' # Rest
  BY <1>1, <1>5, <1>9 DEF Has, Unbound
<1>10. CASE Recover
  <2>1. At("recover") /\ Has({"highest"})
    BY <1>2, <1>10 DEF Recover, RotationInv, Has, At
  <2>2. Pending' # Rest
    BY <1>2, <1>9, <2>1 DEF Has, At
  <2>3. /\ Arg \in Slots /\ HeaderReadable(Arg) /\ Adopt(Arg, HeaderGeneration(Arg))
        /\ Pending' = StepsOf(ResealSteps(Arg)) \cup Rest
    BY <1>4, <1>10, <2>2, RecoverControl
  <2>4. HeaderGeneration(Arg) # 0
    <3>1. CASE Outdated(HeaderGeneration(Arg))
      <4>1. segments'[Arg] = NoSegment
        BY <1>4, <1>10, <3>1, RecoverSlot
      <4>2. segments'[Arg] = Scan(Arg, HeaderGeneration(Arg), TRUE)
        BY <2>3 DEF Adopt, TypeOK, MemoryTypeOK
      <4>3. Scan(Arg, HeaderGeneration(Arg), TRUE).valid = TRUE
        BY ScanGeneration DEF IsScan
      <4>4. NoSegment.valid = FALSE
        BY DEF NoSegment
      <4>. QED  BY ONLY <4>1, <4>2, <4>3, <4>4
    <3>2. CASE ~Outdated(HeaderGeneration(Arg))
      BY <3>2 DEF Outdated
    <3>. QED  BY <3>1, <3>2
  <2>. QED  BY <1>7, <1>8, <2>3, <2>4
<1>11. CASE SealRecovered
  <2>1. At("seal_recovered") /\ Has({"select"})
    BY <1>2, <1>11 DEF SealRecovered, RotationInv, Has, At
  <2>2. Pending' # Rest
    BY <1>2, <1>9, <2>1 DEF Has, At
  <2>3. /\ Arg \in Slots /\ LeftBehind(Arg) /\ HeaderReadable(Arg) /\ Adopt(Arg, HeaderGeneration(Arg))
        /\ Pending' = StepsOf(ResealSteps(Arg)) \cup Rest
    BY <1>4, <1>11, <2>2, SealRecoveredControl
  <2>4. ~Choosing
    <3>1. \A y \in Rest : y[1] # "highest"
      BY <1>2, <2>1, BehindStep
    <3>. QED  BY <1>2, <1>3, <2>1, <3>1 DEF Choosing, Has, At
  <2>5. Recovered(Arg) /\ segments[Arg].valid
    BY <2>1, <2>3, <2>4 DEF RetirementInv, LeftBehind
  <2>6. HeaderGeneration(Arg) # 0
    BY <2>5 DEF Recovered, Outdated
  <2>. QED  BY <1>7, <1>8, <2>3, <2>6
<1>12. CASE SelectActive
  <2>. DEFINE s == HighestSlot(segments)
  <2>1. ~Choosing /\ At("select")
    <3>1. At("select") /\ \A y \in Rest : y[1] # "highest"
      BY <1>2, <1>12, BehindStep DEF SelectActive
    <3>. QED  BY <1>2, <1>3, <3>1 DEF Choosing, Has, At
  <2>2. Pending' # StepsOf(<<Do("open_next")>>) \cup Rest
    <3>1. ASSUME Pending' = StepsOf(<<Do("open_next")>>) \cup Rest PROVE FALSE
      <4>1. StepsOf(<<Do("open_next")>>) = {<<"open_next", 0>>} /\ <<"open_next", 0>>[1] = "open_next"
        BY CallNames DEF Do
      <4>. QED  BY <1>1, <1>5, <3>1, <4>1 DEF Has, Unbound, Sealing
    <3>. QED  BY <3>1
  <2>3. /\ s \in Slots /\ HeaderReadable(s) /\ Adopt(s, HeaderGeneration(s))
        /\ Pending' = StepsOf(<<<<"open_writer", s>>>>) \cup Rest
    BY <1>4, <1>12, <2>2, SelectControl
  <2>4. HeaderGeneration(s) # 0
    <3>1. active_segment' = [slot |-> state.active_slot, generation |-> state.next_generation - 1]
      BY <1>1, <1>12, <2>1, SelectEffect
    <3>2. active_segment' = [slot |-> s, generation |-> HeaderGeneration(s)]
      BY <2>3 DEF Adopt
    <3>3. state.next_generation \in Nat /\ state.next_generation >= 2
      BY <2>1, NextHome
    <3>4. HeaderGeneration(s) = state.next_generation - 1
      BY <3>1, <3>2
    <3>. QED  BY <3>3, <3>4
  <2>. HIDE DEF s
  <2>5. StepsOf(<<<<"open_writer", s>>>>) = {<<"open_writer", s>>}
    BY <2>3, CallNames
  <2>6. PICK new : new = StepsOf(<<<<"open_writer", s>>>>)
    OBVIOUS
  <2>7. /\ Pending' = new \cup Rest /\ <<"open_writer", s>> \in new
        /\ \A x \in new : (x[1] = "open_writer" => x[2] = s) /\ x[1] \in ResealNames
    BY <2>3, <2>5, <2>6 DEF ResealNames
  <2>. QED  BY ONLY <1>7, <2>3, <2>4, <2>7
<1>. QED  BY <1>10, <1>11, <1>12

\* What a rotation makes active is the slot that it wrote the header of.
LEMMA Activates ==
    ASSUME TypeOK, ControlInv, RotationInv, GenerationInv, ActiveInv, [Next]_vars, Activate
    PROVE  LET s == NextSlot
               g == state.next_generation IN
           /\ s \in Slots /\ g \in Nat \ {0} /\ ~Working /\ UNCHANGED medium
           /\ HeaderReadable(s) /\ HeaderGeneration(s) = g
           /\ active_segment' = [slot |-> s, generation |-> g] /\ segments'[s] = FreshSegment(g)
           /\ active_write_offset' = 0 /\ write_buf' = <<>>
           /\ WritesTo(active_segment.slot)' /\ ~Has(Sealing \cup Rotation \cup {"flushed"})'
           /\ todo # <<>> /\ At("activate") /\ Pending = {Head(todo)} \cup Rest /\ Pending' = Rest
<1>. DEFINE s == NextSlot
            g == state.next_generation
<1>1. todo # <<>> /\ At("activate") /\ Pending = {Head(todo)} \cup Rest /\ Pending' = Rest
  BY BehindEntry, MovesControl DEF Moves, Activate, At
<1>2. Has({"activate"}) /\ ~Has({"select", "highest", "header", "open_writer"}) /\ mode # "off"
  <2>1. Has({"activate"}) /\ mode # "off"
    BY <1>1 DEF Has, At, ControlInv
  <2>2. ~Has({"select"})
    BY <2>1 DEF RotationInv, Has
  <2>3. ~Has({"highest"})
    BY <2>2 DEF RotationInv, Has
  <2>4. ~Has({"header", "open_writer"})
    BY <1>1, BehindAppend DEF Has, At
  <2>. QED  BY <2>1, <2>2, <2>3, <2>4 DEF Has
<1>3. ~Choosing /\ Chosen
  BY <1>2 DEF Choosing, GenerationInv, Has
<1>4. s \in Slots /\ g \in Nat \ {0}
  BY <1>3, NextSlotType, NextHome DEF TypeOK
<1>5. g \in HeaderGenerations(s)
  BY <1>2, <1>3 DEF Chosen, Has
<1>6. HeaderReadable(s) /\ HeaderGeneration(s) = g
  <2>1. HeaderReadable(s)
    BY <1>5 DEF HeaderReadable
  <2>2. /\ HeaderGeneration(s) \in HeaderGenerations(s) /\ g <= HeaderGeneration(s)
        /\ HeaderGeneration(s) \in Nat
    BY <1>4, <1>5, <2>1, HeaderHighest DEF TypeOK
  <2>3. HeaderGeneration(s) <= g
    BY <1>3, <1>4, <2>2 DEF Chosen, Upcoming, HeadersUpTo
  <2>. QED  BY <1>4, <2>1, <2>2, <2>3
<1>7. ~Working
  BY <1>1, <1>2, BehindData DEF Working, Has, Unbound, At, Sealing
<1>8. WritesTo(active_segment.slot)'
  <2>1. writer_fd = s
    BY <1>2 DEF ActiveInv, WritesTo, Has
  <2>2. ~Has({"open_writer"})'
    BY <1>1, <1>2 DEF Has
  <2>3. UNCHANGED writer_fd /\ active_segment'.slot = s
    BY DEF Activate
  <2>. QED  BY <2>1, <2>2, <2>3 DEF WritesTo
<1>9. ~Has(Sealing \cup Rotation \cup {"flushed"})'
  BY <1>1, BehindData DEF Has
<1>10. /\ active_segment' = [slot |-> s, generation |-> g] /\ segments'[s] = FreshSegment(g)
       /\ active_write_offset' = 0 /\ write_buf' = <<>> /\ UNCHANGED medium
  BY <1>4 DEF Activate, TypeOK, MemoryTypeOK
<1>. QED  BY <1>1, <1>4, <1>6, <1>7, <1>8, <1>9, <1>10

\* Recovery leaves no segment to activate.
LEMMA RecoveryOpens ==
    ASSUME TypeOK, ControlInv, Recover \/ SealRecovered \/ SelectActive
    PROVE  ~Has({"activate"})'
<1>1. /\ todo # <<>>
      /\ At("recover") \/ At("seal_recovered") \/ At("select")
  BY DEF Recover, SealRecovered, SelectActive, At
<1>2. \A y \in Rest : y[1] # "activate"
  BY <1>1, BehindAppend DEF Rotation
<1>3. ASSUME NEW new, Pending' = new \cup Rest, \A x \in new : x[1] # "activate" PROVE ~Has({"activate"})'
  BY <1>2, <1>3 DEF Has
<1>4. Pending' = Rest \/ Pending' = {} => ~Has({"activate"})'
  BY <1>2 DEF Has
<1>5. \A s \in Slots : \A x \in StepsOf(ResealSteps(s)) : x[1] # "activate"
  BY CallNames DEF ResealNames, SealNames
<1>6. CASE Recover
  BY <1>3, <1>4, <1>5, <1>6, RecoverControl
<1>7. CASE SealRecovered
  BY <1>3, <1>4, <1>5, <1>7, SealRecoveredControl
<1>8. CASE SelectActive
  <2>1. /\ \A s \in Slots : \A x \in StepsOf(<<<<"open_writer", s>>>>) : x[1] # "activate"
        /\ \A x \in StepsOf(<<Do("open_next")>>) : x[1] # "activate"
    BY CallNames DEF Do
  <2>2. PICK s \in Slots : s = HighestSlot(segments)
    BY <1>8, SelectControl
  <2>3. \/ Pending' = {}
        \/ Pending' = StepsOf(<<<<"open_writer", s>>>>) \cup Rest
        \/ Pending' = StepsOf(<<Do("open_next")>>) \cup Rest
    BY <1>8, <2>2, SelectControl
  <2>. QED  BY <1>3, <1>4, <2>1, <2>3
<1>. QED  BY <1>6, <1>7, <1>8

\* The header of a rotation and the file it opens are of the next slot.
LEMMA RotationWrites ==
    ASSUME TypeOK, ControlInv, ControlInv', RotationInv, GenerationInv, SequenceInv, ActiveInv, [Next]_vars,
           "io" \notin Faults, Has({"activate"})'
    PROVE  WritesTo(NextSlot)'
<1>1. mode' # "off"
  BY DEF ControlInv, Has, Pending, StepsOf
<1>2. PICK s : s = NextSlot
  OBVIOUS
<1>3. WritesTo(s)' /\ NextSlot' = s => WritesTo(NextSlot)'
  BY DEF WritesTo
<1>4. state'.active_slot = state.active_slot => NextSlot' = s
  BY <1>2 DEF NextSlot
<1>5. CASE UNCHANGED vars
  <2>1. Pending' = Pending /\ UNCHANGED <<writer_fd, state>>
    BY <1>5 DEF vars, memory, control, Pending
  <2>. QED  BY <2>1, <1>2, <1>3, <1>4 DEF Has, WritesTo, ActiveInv
<1>6. ~StartInit
  <2>1. \A x \in StepsOf(InitSteps) : x[1] # "activate"
    BY InitList DEF IsList, LastNames
  <2>. QED  BY <2>1 DEF StartInit, Has, Pending
<1>7. ~Operations
  BY OperationsPending DEF Has, Leaves
<1>8. CASE Plain
  <2>1. todo # <<>> /\ Pending = {Head(todo)} \cup Rest /\ mode # "off"
    BY <1>1, <1>8, PlainPending DEF ControlInv
  <2>2. PICK new : Pending' = new \cup Rest /\ \A x \in new : x[1] \notin Leaves
    BY <1>1, <1>8, PlainPending
  <2>3. \A x \in new : x[1] \notin {"open_writer", "activate"}
    BY <2>2 DEF Leaves
  <2>4. \E x \in Rest : x[1] = "activate"
    BY <2>2, <2>3 DEF Has
  <2>5. WritesTo(s)
    BY <1>2, <2>1, <2>4 DEF Has, ActiveInv
  <2>6. \/ UNCHANGED writer_fd /\ ~At("open_writer")
        \/ At("open_writer") /\ writer_fd' = Arg
    <3>1. CASE OpenWriter
      BY <3>1 DEF OpenWriter
    <3>2. CASE ~OpenWriter
      BY <1>1, <1>8, <3>2, PlainHead, PlainWriter
    <3>. QED  BY <3>1, <3>2
  <2>7. WritesTo(s)'
    BY <2>1, <2>2, <2>3, <2>5, <2>6, WritesKept
  <2>8. state'.active_slot = state.active_slot
    <3>1. ~At("settle")
      BY <2>1, <2>4, BehindAppend DEF Rotation
    <3>2. CASE Retire
      BY <3>2 DEF Retire, TypeOK, MemoryTypeOK, StateRecord
    <3>3. CASE ~Retire
      <4>1. ~At("retire")
        BY <1>8, <3>3 DEF Plain, WriteDone, Write, WriterWrite, WriteBuffer, WriteEntry, WriteIndex, WriteFooter,
           WriteHeader, Commit, OpenWriter, Flushed, PutEntry, ReserveEntry, AccountEntry, Acknowledge,
           Sealed, Settle, Flush, PrepareSpace, CountBoot, AppendBoot, Ready, At
      <4>. QED  BY <1>1, <1>8, <2>1, <3>1, <4>1, PlainHead, NumbersKept
    <3>. QED  BY <3>2, <3>3
  <2>. QED  BY <1>3, <1>4, <2>7, <2>8
<1>9. ~CloseWriter
  <2>. SUFFICES ASSUME CloseWriter PROVE FALSE
    OBVIOUS
  <2>1. At("close_writer") /\ todo # <<>> /\ Pending = {Head(todo)} \cup Rest /\ Pending' = Rest
    BY BehindEntry, MovesControl DEF Moves, CloseWriter, At
  <2>2. Has({"select"})
    BY <2>1 DEF SequenceInv, Has, At
  <2>. QED  BY <2>1, <2>2 DEF RotationInv, Has
<1>10. ~PickHighest
  <2>. SUFFICES ASSUME PickHighest PROVE FALSE
    OBVIOUS
  <2>1. At("highest") /\ todo # <<>> /\ Pending = {Head(todo)} \cup Rest
    BY BehindEntry DEF PickHighest, At
  <2>2. Has({"select"})
    BY <2>1 DEF RotationInv, Has, At
  <2>3. Pending' = {} \/ Pending' = Rest
    BY SetStateControl
  <2>. QED  BY <2>1, <2>2, <2>3 DEF RotationInv, Has
<1>11. CASE OpenNext
  <2>1. todo # <<>> /\ Pending' = StepsOf(OpenNextSteps) \cup Rest /\ UNCHANGED <<mode, memory>> /\ At("open_next")
    BY <1>11, OpenNextCalls DEF OpenNext
  <2>2. \A y \in Rest : y[1] # "open_writer"
    BY <2>1, BehindStep DEF Rotating
  <2>3. \A x \in Pending' : x[1] = "open_writer" => x[2] = s
    BY <1>2, <2>1, <2>2, OpenNextSet
  <2>4. Has({"open_writer"})'
    <3>1. <<"open_writer", NextSlot>> \in Pending' /\ <<"open_writer", NextSlot>>[1] = "open_writer"
      BY <2>1, OpenNextSet
    <3>. QED  BY <3>1 DEF Has
  <2>. QED  BY <1>3, <1>4, <2>1, <2>3, <2>4 DEF WritesTo, memory
<1>12. ~Activate
  <2>1. Activate => ~Has(Rotation)'
    BY Activates DEF Has
  <2>. QED  BY <2>1 DEF Has, Rotation
<1>13. ~(Recover \/ SealRecovered \/ SelectActive)
  BY RecoveryOpens
<1>14. ~(NoWriter \/ NoEntry)
  BY FailControl DEF NoWriter, NoEntry, Has
<1>. QED  BY <1>1, <1>5, <1>6, <1>7, <1>8, <1>9, <1>10, <1>11, <1>12, <1>13, <1>14, Kinds

\* Every step keeps the memory in line with the active segment.
LEMMA NextActive ==
    ASSUME "io" \notin Faults
    PROVE  TypeOK /\ TypeOK' /\ ControlInv /\ ControlInv' /\ SpaceInv /\ IdInv /\ RotationInv /\ GenerationInv
               /\ RetirementInv /\ SequenceInv /\ SequenceInv' /\ BufferInv /\ ActiveInv /\ [Next]_vars
                    => ActiveInv'
<1>. SUFFICES ASSUME TypeOK, TypeOK', ControlInv, ControlInv', SpaceInv, IdInv, RotationInv, GenerationInv,
                     RetirementInv, SequenceInv, SequenceInv', BufferInv, ActiveInv, [Next]_vars
              PROVE  ActiveInv'
  OBVIOUS
<1>1. Has({"activate"})' => WritesTo(NextSlot)'
  BY RotationWrites
<1>2. CASE ~Working'
  BY <1>1, <1>2 DEF ActiveInv
<1>. DEFINE At1 == /\ HeaderReadable(active_segment.slot)
                   /\ HeaderGeneration(active_segment.slot) = active_segment.generation
                   /\ active_segment.generation # 0
                   /\ segments[active_segment.slot].valid
                   /\ segments[active_segment.slot].generation = active_segment.generation
                   /\ segments[active_segment.slot].data_end = active_write_offset
                   /\ WritesTo(active_segment.slot)
<1>3. ASSUME NEW s \in Slots, NEW g \in Nat \ {0}, NEW d, HeaderReadable(s), HeaderGeneration(s) = g,
             UNCHANGED headers, active_segment' = [slot |-> s, generation |-> g],
             segments'[s] = d, d.valid, d.generation = g, d.data_end = active_write_offset',
             WritesTo(active_segment.slot)'
      PROVE  At1'
  <2>1. HeaderReadable(s)' /\ HeaderGeneration(s)' = g
    BY <1>3 DEF HeaderReadable, HeaderGeneration, HeaderGenerations
  <2>2. active_segment'.slot = s /\ active_segment'.generation = g
    BY <1>3
  <2>3. HeaderReadable(active_segment.slot)' /\ HeaderGeneration(active_segment.slot)' = g
    BY <2>1, <2>2 DEF HeaderReadable, HeaderGeneration, HeaderGenerations
  <2>. QED  BY <1>3, <2>2, <2>3
<1>4. ASSUME Working', ~UNCHANGED vars PROVE At1'
  <2>1. CASE Working /\ ~At("retire") /\ ~At("header") /\ (Operations \/ Plain \/ NoEntry)
    <3>1. /\ active_segment' = active_segment /\ UNCHANGED headers /\ SameGenerations
          /\ segments'[active_segment.slot].data_end = active_write_offset'
          /\ WritesTo(active_segment.slot)'
      BY <1>4, <2>1, ActiveCarried
    <3>2. PICK s \in Slots : s = active_segment.slot
      BY DEF TypeOK, MemoryTypeOK
    <3>3. PICK g \in Nat : g = active_segment.generation
      BY DEF TypeOK, MemoryTypeOK
    <3>4. active_segment' = [slot |-> s, generation |-> g]
      BY <3>1, <3>2, <3>3 DEF TypeOK, MemoryTypeOK
    <3>5. /\ HeaderReadable(s) /\ HeaderGeneration(s) = g /\ g # 0
          /\ segments[s].valid /\ segments[s].generation = g
      BY <2>1, <3>2, <3>3 DEF ActiveInv
    <3>6. segments'[s].valid /\ segments'[s].generation = g /\ segments'[s].data_end = active_write_offset'
      BY <3>1, <3>2, <3>5 DEF SameGenerations
    <3>. QED  BY <1>3, <3>1, <3>4, <3>5, <3>6
  <2>2. CASE Recover \/ SealRecovered \/ SelectActive
    <3>1. PICK s \in Slots, g \in Nat \ {0} :
               /\ HeaderReadable(s) /\ HeaderGeneration(s) = g /\ Adopt(s, g) /\ UNCHANGED medium
               /\ Has({"open_writer"})' /\ \A x \in Pending' : x[1] = "open_writer" => x[2] = s
      BY <1>4, <2>2, Adopts
    <3>2. PICK d : d = Scan(s, g, TRUE)
      OBVIOUS
    <3>3. segments'[s] = d /\ d.data_end = active_write_offset' /\ active_segment' = [slot |-> s, generation |-> g]
      BY <3>1, <3>2 DEF Adopt, TypeOK, MemoryTypeOK
    <3>4. d.valid /\ d.generation = g
      BY <3>2, ScanGeneration DEF IsScan
    <3>5. active_segment'.slot = s
      BY <3>3
    <3>6. WritesTo(active_segment.slot)'
      BY <3>1, <3>5 DEF WritesTo
    <3>. QED  BY <1>3, <3>1, <3>3, <3>4, <3>6 DEF medium
  <2>3. CASE Activate
    <3>1. PICK s \in Slots, g \in Nat \ {0} :
           /\ UNCHANGED medium /\ HeaderReadable(s) /\ HeaderGeneration(s) = g
           /\ active_segment' = [slot |-> s, generation |-> g] /\ segments'[s] = FreshSegment(g)
           /\ active_write_offset' = 0 /\ WritesTo(active_segment.slot)'
      BY <2>3, Activates
    <3>2. PICK d : d = FreshSegment(g)
      OBVIOUS
    <3>3. d.valid /\ d.generation = g /\ d.data_end = 0
      BY <3>2 DEF FreshSegment, NoSegment
    <3>. QED  BY <1>3, <3>1, <3>2, <3>3 DEF medium
  <2>. QED  BY <1>4, <2>1, <2>2, <2>3, WorkingKept
<1>5. CASE Working' /\ UNCHANGED vars
  <2>1. UNCHANGED <<mode, todo, active_segment, headers, segments, active_write_offset, writer_fd>>
    BY <1>5 DEF vars, medium, memory, control
  <2>2. Working /\ Pending' = Pending
    BY <1>5, <2>1 DEF Working, Has, Pending
  <2>. QED  BY <1>1, <2>1, <2>2 DEF ActiveInv, HeaderReadable, HeaderGeneration, HeaderGenerations, WritesTo, Has
<1>. QED  BY <1>1, <1>2, <1>4, <1>5 DEF ActiveInv

-----------------------------------------------------------------------------
(* The steps of an append that goes past the buffer.                       *)

\* Entries are appended by the operations for it only, and segments change for them or
\* at the end of recovery.
LEMMA NextEntries ==
    ASSUME TypeOK, ControlInv, [Next]_vars
    PROVE  \/ \A x \in Pending' : x[1] \notin Entry \cup Rotation
           \/ UNCHANGED todo
           \/ AppendEntry \/ AppendBoot
           \/ /\ todo # <<>>
              /\ \E new : /\ Pending' = new \cup Rest
                          /\ \A x \in new : x[1] \notin Entry
                          /\ (\E x \in new : x[1] \in Rotation) =>
                                At("prepare") \/ At("open_next") \/ At("select")
<1>. DEFINE Calls == /\ todo # <<>>
                     /\ \E new : /\ Pending' = new \cup Rest
                                 /\ \A x \in new : x[1] \notin Entry
                                 /\ (\E x \in new : x[1] \in Rotation) =>
                                       At("prepare") \/ At("open_next") \/ At("select")
<1>1. ASSUME NEW new, NEW M, todo # <<>>, Pending' = new \cup Rest, \A x \in new : x[1] \in M,
             M \cap Entry = {}, M \cap Rotation = {} \/ At("prepare") \/ At("open_next") \/ At("select")
      PROVE  Calls
  BY <1>1
<1>2. ASSUME Pending' = Rest, todo # <<>> PROVE Calls
  <2>1. PICK new : new = {}
    OBVIOUS
  <2>2. /\ Pending' = new \cup Rest /\ \A x \in new : x[1] \notin Entry
        /\ ~ \E x \in new : x[1] \in Rotation
    BY <1>2, <2>1
  <2>. QED  BY ONLY <1>2, <2>2
<1>. HIDE DEF Calls
<1>3. Pending' = {} => \A x \in Pending' : x[1] \notin Entry \cup Rotation
  OBVIOUS
<1>4. /\ FlushNames \cap Entry = {} /\ RotateNames \cap Entry = {}
      /\ ResealNames \cap Entry = {} /\ OpenNextNames \cap Entry = {} /\ {"commit"} \cap Entry = {}
      /\ {"open_writer"} \cap Entry = {} /\ {"open_next"} \cap Entry = {}
      /\ FlushNames \cap Rotation = {} /\ ResealNames \cap Rotation = {}
      /\ {"commit"} \cap Rotation = {} /\ {"open_writer"} \cap Rotation = {}
  <2>1. /\ FlushNames \cap Rotation = {} /\ ResealNames \cap Rotation = {}
        /\ {"commit"} \cap Rotation = {} /\ {"open_writer"} \cap Rotation = {}
    BY DEF FlushNames, ResealNames, SealNames, Rotation
  <2>2. {"open_writer"} \cap Entry = {} /\ {"open_next"} \cap Entry = {}
    BY DEF Entry, Sized
  <2>. QED  BY <2>1, <2>2, MachineryType
<1>5. CASE Moves
  BY <1>2, <1>5, MovesControl DEF Calls
<1>6. CASE Flush
  BY <1>1, <1>2, <1>4, <1>6, FlushControl, CallNames DEF Calls
<1>7. CASE PrepareSpace
  <2>1. At("prepare")
    BY <1>7 DEF PrepareSpace
  <2>. QED  BY <1>1, <1>2, <1>4, <1>7, <2>1, PrepareControl, CallNames DEF Calls
<1>8. CASE Retire
  BY <1>1, <1>2, <1>4, <1>8, RetireControl, CallNames DEF Calls
<1>9. CASE OpenNext
  <2>1. At("open_next")
    BY <1>9 DEF OpenNext
  <2>2. \A x \in StepsOf(OpenNextSteps) : x[1] \in OpenNextNames
    BY OpenNextSet DEF OpenNextNames
  <2>. QED  BY <1>1, <1>3, <1>4, <1>9, <2>1, <2>2, OpenNextControl DEF Calls
<1>10. CASE Recover
  BY <1>1, <1>2, <1>3, <1>4, <1>10, RecoverControl, CallNames DEF Calls
<1>11. CASE SealRecovered
  BY <1>1, <1>2, <1>3, <1>4, <1>11, SealRecoveredControl, CallNames DEF Calls
<1>12. CASE SelectActive
  <2>1. At("select")
    BY <1>12 DEF SelectActive
  <2>. DEFINE s == HighestSlot(segments)
  <2>2. todo # <<>> /\ s \in Slots
        /\ \/ Pending' = {}
           \/ Pending' = StepsOf(<<<<"open_writer", s>>>>) \cup Rest
           \/ Pending' = StepsOf(<<Do("open_next")>>) \cup Rest
    BY <1>12, SelectControl
  <2>. HIDE DEF s
  <2>3. /\ \A x \in StepsOf(<<<<"open_writer", s>>>>) : x[1] \in {"open_writer"}
        /\ \A x \in StepsOf(<<Do("open_next")>>) : x[1] \in {"open_next"}
    BY <2>2, CallNames DEF Do
  <2>. QED  BY <1>1, <1>3, <1>4, <2>1, <2>2, <2>3 DEF Calls
<1>13. CASE PickHighest \/ CountBoot
  BY <1>2, <1>3, <1>13, SetStateControl DEF Calls
<1>14. CASE Ready
  BY <1>3, <1>14, ReadyControl
<1>15. CASE Close \/ Crash \/ OpenWriterError
  <2>1. todo' = <<>>
    BY <1>15 DEF Close, Crash, OpenWriterError, Reset
  <2>. QED  BY <1>3, <2>1, EmptyControl
<1>16. CASE NoWriter \/ NoEntry \/ WriteError
  BY <1>3, <1>16, FailControl DEF NoWriter, NoEntry, WriteError
<1>17. CASE RotIndex \/ RotData \/ UNCHANGED vars
  BY <1>17 DEF RotIndex, RotData, control, vars
<1>18. CASE StartInit
  <2>1. \A x \in Pending' : x[1] \in {"recover", "highest", "seal_recovered"} \cup LastNames
    BY <1>18, InitList DEF StartInit, IsList, Pending
  <2>. QED  BY <2>1 DEF LastNames, Entry, Sized, Rotation
<1>19. CASE FlushWrite \/ Deinit
  <2>1. \A x \in Pending' : x[1] \in {"flush", "close"}
    <3>1. CASE FlushWrite
      BY <3>1 DEF FlushWrite, Pending, StepsOf, Do
    <3>2. CASE Deinit
      BY <3>2, LongLists DEF Deinit, IsList, Pending
    <3>. QED  BY <1>19, <3>1, <3>2
  <2>. QED  BY <2>1 DEF Entry, Sized, Rotation
<1>. QED  BY <1>5, <1>6, <1>7, <1>8, <1>9, <1>10, <1>11, <1>12, <1>13, <1>14, <1>15, <1>16, <1>17, <1>18,
             <1>19 DEF Next, Step, Moves, Calls

\* The order of a direct append is kept.
LEMMA NextAppend ==
    ASSUME TypeOK, ControlInv, SequenceInv, AppendInv, [Next]_vars
    PROVE  AppendInv'
<1>1. CASE \A x \in Pending' : x[1] \notin Entry \cup Rotation
  BY <1>1 DEF AppendInv, Has, Entry, Sized
<1>2. CASE UNCHANGED todo
  BY <1>2 DEF AppendInv, Has, Pending
<1>3. ASSUME NEW n \in 1 .. Capacity, NEW force \in BOOLEAN, NEW R,
             Pending' = StepsOf(AppendSteps(n, force)) \cup R, \A x \in R : x[1] \notin Entry
      PROVE  AppendInv'
  <2>. DEFINE q == AppendSteps(n, force)
  <2>1. \/ /\ <<"write_entry", n>> \in StepsOf(q)
           /\ \A x \in StepsOf(q) : x[1] \in DirectNames
        \/ \A x \in StepsOf(q) : x[1] \in {"flush", "prepare", "put"}
    BY AppendShape
  <2>2. CASE \A x \in StepsOf(q) : x[1] \in {"flush", "prepare", "put"}
    BY <1>3, <2>2 DEF AppendInv, Has, Entry, Sized
  <2>3. CASE <<"write_entry", n>> \in StepsOf(q)
    <3>1. <<"write_entry", n>> \in Pending' /\ <<"write_entry", n>>[1] = "write_entry"
      BY <1>3, <2>3
    <3>2. \E y \in StepsOf(q) : y[1] = "reserve"
      BY <2>3, AppendReserves
    <3>. QED  BY <1>3, <3>1, <3>2 DEF AppendInv, Has
  <2>. QED  BY <2>1, <2>2, <2>3
<1>4. CASE AppendEntry
  <2>1. PICK n \in EntrySizes, force \in BOOLEAN : todo' = AppendSteps(n, force)
    BY <1>4 DEF AppendEntry
  <2>2. n \in 1 .. Capacity
    BY EntrySizesAssumption
  <2>3. PICK R : R = {}
    OBVIOUS
  <2>4. Pending' = StepsOf(AppendSteps(n, force)) \cup R /\ \A x \in R : x[1] \notin Entry
    BY <2>1, <2>3 DEF Pending
  <2>. QED  BY <1>3, <2>2, <2>4
<1>5. CASE AppendBoot
  <2>1. Pending' = StepsOf(AppendSteps(BootEntrySize, TRUE)) \cup Rest /\ At("append_boot") /\ todo # <<>>
    BY <1>5, AppendBootControl DEF AppendBoot
  <2>2. \A x \in Rest : x[1] \notin Entry
    BY <2>1, BehindBoot DEF TypeOK, ControlInv
  <2>. QED  BY <1>3, <2>1, <2>2, BootEntryAssumption
<1>6. ASSUME todo # <<>>, NEW new, Pending' = new \cup Rest, \A x \in new : x[1] \notin Entry,
             (\E x \in new : x[1] \in Rotation) => At("prepare") \/ At("open_next") \/ At("select")
      PROVE  AppendInv'
  <2>1. Pending = {Head(todo)} \cup Rest
    BY <1>6, BehindEntry
  <2>2. ASSUME Has({"reserve"})' PROVE Has({"write_entry"})'
    <3>1. PICK x \in Rest : x[1] = "reserve"
      BY <1>6, <2>2 DEF Has, Entry, Sized
    <3>2. Has({"write_entry"}) /\ ~At("write_entry")
      BY <1>6, <2>1, <3>1, BehindAppend DEF AppendInv, Has
    <3>. QED  BY <1>6, <2>1, <3>2 DEF Has, At
  <2>3. ASSUME Has({"prepare"} \cup Rotation)', Has({"acknowledge"})' PROVE Has({"reserve"})'
    <3>1. PICK x \in Rest : x[1] = "acknowledge"
      BY <1>6, <2>3 DEF Has, Entry
    <3>2. Has({"acknowledge"}) /\ ~Has(Booting)
      <4>1. Has({"acknowledge"}) /\ Has(Sized \cup {"acknowledge"})
        BY <2>1, <3>1 DEF Has
      <4>. QED  BY <4>1 DEF ControlInv
    <3>3. ~At("select")
      BY <1>6, <2>1, <3>2 DEF Has, At, Booting, Recovering
    <3>4. \/ At("prepare") \/ At("open_next")
          \/ \E y \in Rest : y[1] \in {"prepare"} \cup Rotation
      BY <1>6, <2>3, <3>3 DEF Has, Entry, Sized
    <3>5. Has({"prepare"} \cup Rotation)
      BY <1>6, <2>1, <3>4 DEF Has, At, Rotation
    <3>6. Has({"reserve"})
      BY <3>2, <3>5 DEF AppendInv
    <3>7. ~At("reserve")
      BY <1>6, <3>4, BehindStep DEF At, Rotation, Rotating
    <3>. QED  BY <1>6, <2>1, <3>6, <3>7 DEF Has, At
  <2>. QED  BY <2>2, <2>3 DEF AppendInv
<1>. QED  BY <1>1, <1>2, <1>4, <1>5, <1>6, NextEntries
===============================================================================
