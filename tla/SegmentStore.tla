----------------------------- MODULE SegmentStore -----------------------------
(***************************************************************************)
(* The ring of segment files behind the on9rstore log: entry append and    *)
(* flush (on9rstore_entry.cpp), segment sealing, rotation and recovery     *)
(* (on9rstore_segment.cpp) and the boot sequence (on9rstore.cpp).          *)
(*                                                                         *)
(* Operations run under write_lock, one at a time (module Locks), so the   *)
(* store is one sequential program over a medium that survives a crash.    *)
(* A public operation is a list of pending steps, todo, the continuation   *)
(* of its nested calls: a call puts the steps of the callee in front, an   *)
(* error return drops them all.  Every write+sync is a step of its own, so *)
(* a crash or an I/O error can hit it and leave the old bytes, garbage or  *)
(* the new bytes.  The manifest is the atomic checkpoint that module       *)
(* Manifest implements.                                                    *)
(***************************************************************************)
EXTENDS Integers, FiniteSets, Sequences, FiniteSetsExt

CONSTANTS
    SegmentCount,     \* CONFIG_ON9STORE_SPARSE_FILE_CNT
    Capacity,         \* cells in a segment's data area
    WriteBufferSize,  \* cfg.write_buffer_size, in cells
    EntrySizes,       \* sizes of the entries the application appends, in cells
    BootEntrySize,    \* size of the boot event entry
    IndexStride,      \* sparse_index_stride
    SequenceMask,     \* entry_id_sequence_mask
    BootMask,         \* entry_id_boot_mask
    MaxGeneration,    \* bound on the segment generations of a run
    Faults,           \* what may go wrong besides power losses: "io", "index", "data"
    MaxFaults,        \* bound on those faults in a run
    Garbage           \* bytes that no validity check of the code accepts

ASSUME SegmentCountAssumption == SegmentCount \in Nat /\ SegmentCount >= 2
ASSUME CapacityAssumption == Capacity \in Nat \ {0}
ASSUME WriteBufferAssumption == WriteBufferSize \in Nat \ {0}
ASSUME EntrySizesAssumption == EntrySizes \subseteq 1..Capacity
ASSUME BootEntryAssumption == BootEntrySize \in 1..Capacity
ASSUME StrideAssumption == IndexStride \in Nat \ {0}
ASSUME FaultsAssumption == Faults \subseteq {"io", "index", "data"}
ASSUME MaskAssumption == SequenceMask \in Nat /\ BootMask \in Nat
ASSUME GarbageAssumption == Garbage \notin Nat
ASSUME BoundAssumption == MaxGeneration \in Nat /\ MaxFaults \in Nat

Slots   == 0 .. SegmentCount - 1
Copies  == {0, 1}
Offsets == 0 .. Capacity - 1

VARIABLES
    \* On the medium.
    headers,              \* the two header copies of a slot: its generation
    data,                 \* the data area of a slot, cell by cell
    footers,              \* the two footer copies of a slot
    index,                \* the sparse index region of a slot
    checkpoint,           \* the newest valid manifest superblock
    \* In memory.
    state,                \* manifest_superblock state
    segments,             \* segment_descriptor per slot
    active_segment,       \* slot and generation of the active segment
    active_write_offset,
    write_buf,            \* the cells of write_buf; write_buf_pos is its length
    write_buf_offset,
    writer_fd,            \* the slot whose file writer_fd has open, or NoFd
    sparse_index,         \* ids of the entries the in-memory index holds
    \* Control.
    mode,                 \* "off", "init" (inside init()) or "run"
    todo,                 \* the steps the operation in progress still has to take
    \* Ghosts.
    acked,                \* entries reported durable and not yet retired
    faults                \* faults so far

medium  == <<headers, data, footers, index, checkpoint>>
memory  == <<state, segments, active_segment, active_write_offset, write_buf,
             write_buf_offset, writer_fd, sparse_index>>
control == <<mode, todo>>
vars    == <<medium, memory, control, acked, faults>>

-----------------------------------------------------------------------------
(* The data the store keeps.                                               *)

NoFd == -1

\* make_next_entry_id_unsafe: boot counter and sequence packed in one number.
EntryId(boot, sequence) == boot * (SequenceMask + 1) + sequence

\* An entry of n cells; the checksum spans all of them, so it is valid only
\* when every one is in place.
EntryCells(id, g, n) ==
    [k \in 1..n |-> [id |-> id, generation |-> g, size |-> n, part |-> k - 1]]

NoSegment ==
    [valid |-> FALSE, sealed |-> FALSE, generation |-> 0, first_entry_id |-> 0,
     last_entry_id |-> 0, entry_count |-> 0, data_end |-> 0, index_count |-> 0]

FreshSegment(g) == [NoSegment EXCEPT !.valid = TRUE, !.generation = g]

ZeroState ==
    [active_slot |-> 0, active_generation |-> 0, next_generation |-> 0,
     oldest_generation |-> 0, boot_counter |-> 0, next_entry_sequence |-> 0,
     newest_entry_id |-> 0]

-----------------------------------------------------------------------------
(* What recovery and the readers make of the bytes of a slot.              *)

\* load_segment_header: the highest generation among the valid copies.
HeaderGenerations(s) == {headers[s][c] : c \in Copies} \ {Garbage}
HeaderReadable(s)    == HeaderGenerations(s) # {}
HeaderGeneration(s)  == Max(HeaderGenerations(s))

\* scan_one_entry: a whole entry of generation g starts at offset o of slot s.
EntryAt(s, g, o) ==
    LET c == data[s][o] IN
    /\ c # Garbage
    /\ c.part = 0
    /\ c.generation = g
    /\ c.id # 0
    /\ o + c.size <= Capacity
    /\ \A k \in 0 .. c.size - 1 : data[s][o + k] = [c EXCEPT !.part = k]

\* The loop of scan_segment_entries: entries follow each other from the start
\* of the data area, with increasing ids.
Follows(s, p, o) ==
    /\ p + data[s][p].size = o
    /\ data[s][p].id < data[s][o].id
IsChain(s, R) == \A o \in R \ {0} : \E p \in R : Follows(s, p, o)
ScannedEntries(s, g) ==
    UNION {R \in SUBSET {o \in Offsets : EntryAt(s, g, o)} : IsChain(s, R)}

\* The index that scan_segment_entries rebuilds: every IndexStride-th entry.
ScannedIndex(s, g) ==
    LET R == ScannedEntries(s, g)
        Indexed(o) == Cardinality({p \in R : p < o}) % IndexStride = 0
    IN  {data[s][o].id : o \in {o \in R : Indexed(o)}}

\* scan_segment_entries: the descriptor of the scanned slot.
Scan(s, g, build_index) ==
    LET R    == ScannedEntries(s, g)
        last == Max(R)
    IN  IF R = {} THEN FreshSegment(g)
        ELSE [valid          |-> TRUE,
              sealed         |-> FALSE,
              generation     |-> g,
              first_entry_id |-> data[s][Min(R)].id,
              last_entry_id  |-> data[s][last].id,
              entry_count    |-> Cardinality(R),
              data_end       |-> last + data[s][last].size,
              index_count    |-> IF build_index
                                 THEN Cardinality(ScannedIndex(s, g)) ELSE 0]

\* is_segment_footer_valid.
FooterValid(s, g, c) ==
    LET f == footers[s][c] IN
    /\ f # Garbage
    /\ f.generation = g
    /\ f.entry_count = 0 => f.last_entry_id = 0 /\ f.data_end = 0 /\ f.index = {}
    /\ f.entry_count # 0 =>
          /\ f.first_entry_id # 0
          /\ f.first_entry_id <= f.last_entry_id
          /\ Cardinality(f.index) = (f.entry_count - 1) \div IndexStride + 1

\* load_segment_footer: the last valid copy wins.
HasFooter(s, g) == \E c \in Copies : FooterValid(s, g, c)
Footer(s, g)    == IF FooterValid(s, g, 1) THEN footers[s][1] ELSE footers[s][0]

\* validate_segment_index: the region starts with the items the footer sums.
\* Items past the footer's belong to later entries, so ids tell them apart.
IndexValid(s, f) ==
    \/ f.index = {}
    \/ index[s] # Garbage /\ {i \in index[s] : i <= f.last_entry_id} = f.index

\* The sealed_prefix check of scan_segment_entries.
SealedPrefixUnchecked(s, g, f) == TRUE
SealedPrefixIntact(s, g, f) ==
    LET R == ScannedEntries(s, g) IN
    \/ f.entry_count = 0
    \/ \E o \in R :
          /\ Cardinality({p \in R : p <= o}) = f.entry_count
          /\ data[s][0].id = f.first_entry_id
          /\ data[s][o].id = f.last_entry_id
          /\ o + data[s][o].size = f.data_end

\* set_sealed_segment_descriptor.
SealedSegment(f) ==
    [valid |-> TRUE, sealed |-> TRUE, generation |-> f.generation,
     first_entry_id |-> f.first_entry_id, last_entry_id |-> f.last_entry_id,
     entry_count |-> f.entry_count, data_end |-> f.data_end,
     index_count |-> Cardinality(f.index)]

-----------------------------------------------------------------------------
(* Summaries of the descriptors.                                           *)

ValidSlots(segs) == {s \in Slots : segs[s].valid}

\* update_oldest_segment_generation.
OldestGeneration(segs) ==
    IF ValidSlots(segs) = {} THEN 0
    ELSE Min({segs[s].generation : s \in ValidSlots(segs)})

\* The loops that pick the highest valid generation and its slot.
HighestGeneration(segs) ==
    Max({0} \cup {segs[s].generation : s \in ValidSlots(segs)})
HighestSlot(segs) ==
    IF HighestGeneration(segs) = 0 THEN 0
    ELSE CHOOSE s \in ValidSlots(segs) : segs[s].generation = HighestGeneration(segs)

NewestEntry(segs) ==
    Max({0} \cup {segs[s].last_entry_id : s \in ValidSlots(segs)})

\* update_recovered_manifest_state.
RecoveredState(active) ==
    LET newest   == NewestEntry(segments)
        boot     == newest \div (SequenceMask + 1)
        sequence == newest % (SequenceMask + 1)
        highest  == HighestGeneration(segments)
    IN  [active_slot         |-> active.slot,
         active_generation   |-> active.generation,
         next_generation     |-> Max({state.next_generation, highest + 1}),
         oldest_generation   |-> OldestGeneration(segments),
         boot_counter        |-> Max({state.boot_counter, boot}),
         next_entry_sequence |->
             CASE boot > state.boot_counter -> sequence
               [] boot = state.boot_counter ->
                      Max({state.next_entry_sequence, sequence})
               [] OTHER -> state.next_entry_sequence,
         newest_entry_id     |-> newest]

NextSlotUnwrapped == state.active_slot + 1
NextSlot == (state.active_slot + 1) % SegmentCount

-----------------------------------------------------------------------------
(* The continuation of the operation in progress.                          *)

Do(step)     == <<step, 0>>
At(step)     == todo # <<>> /\ Head(todo)[1] = step
Arg          == Head(todo)[2]
Call(steps)  == todo' = steps \o Tail(todo)
Continue     == Call(<<>>)
ForSlots(step) == [i \in 1..SegmentCount |-> <<step, i - 1>>]

\* seal_active_segment_unsafe.
SealSteps == <<Do("flush"), Do("write_index"), <<"footer", 0>>, <<"footer", 1>>,
               Do("sealed")>>

\* append_entry_unsafe of an entry of n cells: append_direct_entry_unsafe or
\* append_buffered_entry_unsafe.
AppendStepsNoFlush(n, force_flush) ==
    IF n > WriteBufferSize
    THEN <<<<"prepare", n>>, <<"reserve", n>>, <<"write_entry", n>>,
           <<"account", n>>, Do("commit"), Do("acknowledge")>>
    ELSE (IF Len(write_buf) + n > WriteBufferSize THEN <<Do("flush")>> ELSE <<>>)
         \o <<<<"prepare", n>>, <<"put", n>>>>
         \o (IF force_flush THEN <<Do("flush")>> ELSE <<>>)
AppendSteps(n, force_flush) ==
    IF n > WriteBufferSize
    THEN <<Do("flush"), <<"prepare", n>>, <<"reserve", n>>, <<"write_entry", n>>,
           <<"account", n>>, Do("commit"), Do("acknowledge")>>
    ELSE (IF Len(write_buf) + n > WriteBufferSize THEN <<Do("flush")>> ELSE <<>>)
         \o <<<<"prepare", n>>, <<"put", n>>>>
         \o (IF force_flush THEN <<Do("flush")>> ELSE <<>>)

\* recover_all_segments, recover_time_anchor_ring and finish_initialisation.
InitSteps ==
    ForSlots("recover") \o <<Do("highest")>> \o ForSlots("seal_recovered")
    \o <<Do("select"), Do("settle"), Do("commit"), Do("commit"),
         Do("count_boot"), Do("commit"), Do("append_boot"), Do("ready")>>

\* close_storage_unsafe, and what a power loss does to the memory.
Reset ==
    /\ state' = ZeroState
    /\ segments' = [s \in Slots |-> NoSegment]
    /\ active_segment' = [slot |-> 0, generation |-> 0]
    /\ active_write_offset' = 0
    /\ write_buf' = <<>>
    /\ write_buf_offset' = 0
    /\ writer_fd' = NoFd
    /\ sparse_index' = {}
    /\ mode' = "off"
    /\ todo' = <<>>

\* An error return: init() closes the store, another operation just returns.
Fail ==
    \/ mode = "init" /\ Reset
    \/ mode # "init" /\ todo' = <<>> /\ UNCHANGED <<mode, memory>>

-----------------------------------------------------------------------------
(* Writes.  Each reaches the medium as "old", "torn" or "new".             *)

Outcomes == {"old", "torn", "new"}
Land(old, new, o) == CASE o = "old" -> old [] o = "torn" -> Garbage [] o = "new" -> new

\* Cells are written together but torn one by one.
WriteCells(s, offset, cells, o) ==
    \E m \in (IF o = "torn" THEN [DOMAIN cells -> Outcomes] ELSE {[k \in DOMAIN cells |-> o]}) :
        data' = [data EXCEPT ![s] =
                    [p \in Offsets |-> IF p - offset + 1 \in DOMAIN cells
                                       THEN Land(@[p], cells[p - offset + 1], m[p - offset + 1])
                                       ELSE @[p]]]

\* write_exact_fd + sync_fd of flush_unsafe.
WriteBuffer(o) ==
    /\ At("write_buffer")
    /\ WriteCells(writer_fd, write_buf_offset, write_buf, o)
    /\ UNCHANGED <<headers, footers, index, checkpoint>>

\* The writes of append_direct_entry_unsafe.
WriteEntry(o) ==
    /\ At("write_entry")
    /\ WriteCells(writer_fd, active_write_offset,
                  EntryCells(state.newest_entry_id, active_segment.generation, Arg), o)
    /\ UNCHANGED <<headers, footers, index, checkpoint>>

\* write_active_sparse_index_unsafe.
WriteIndex(o) ==
    /\ At("write_index")
    /\ index' = IF sparse_index = {} THEN index
                ELSE [index EXCEPT ![writer_fd] = Land(@, sparse_index, o)]
    /\ UNCHANGED <<headers, data, footers, checkpoint>>

\* One round of write_segment_footers.
ActiveFooter ==
    LET d == segments[active_segment.slot] IN
    [generation |-> active_segment.generation, first_entry_id |-> d.first_entry_id,
     last_entry_id |-> d.last_entry_id, entry_count |-> d.entry_count,
     data_end |-> d.data_end, index |-> sparse_index]
WriteFooter(o) ==
    /\ At("footer")
    /\ footers' = [footers EXCEPT ![writer_fd][Arg] = Land(@, ActiveFooter, o)]
    /\ UNCHANGED <<headers, data, index, checkpoint>>

\* One round of write_segment_headers.
WriteHeader(o) ==
    /\ At("header")
    /\ headers' = [headers EXCEPT ![writer_fd][Arg] = Land(@, state.next_generation, o)]
    /\ UNCHANGED <<data, footers, index, checkpoint>>

\* A write through writer_fd; write_exact_fd refuses a closed one.
WriterStep == \E step \in {"write_buffer", "write_entry", "write_index", "footer", "header"} :
                  At(step)
WriterWrite(o) ==
    /\ writer_fd # NoFd
    /\ WriteBuffer(o) \/ WriteEntry(o) \/ WriteIndex(o) \/ WriteFooter(o) \/ WriteHeader(o)

\* commit_manifest_superblock_unsafe.
Commit(o) ==
    /\ At("commit")
    /\ checkpoint' = IF o = "new" THEN state ELSE checkpoint
    /\ UNCHANGED <<headers, data, footers, index>>

Write(o) == WriterWrite(o) \/ Commit(o)

WriteDone == Write("new") /\ Continue /\ UNCHANGED <<mode, memory, acked, faults>>

Fault(kind) == kind \in Faults /\ faults < MaxFaults /\ faults' = faults + 1

WriteError ==
    /\ Fault("io")
    /\ \E o \in Outcomes : Write(o)
    /\ Fail
    /\ UNCHANGED acked

NoWriter ==
    /\ WriterStep
    /\ writer_fd = NoFd
    /\ Fail
    /\ UNCHANGED <<medium, acked, faults>>

\* open_active_segment: the previous file is closed first.
OpenWriter ==
    /\ At("open_writer")
    /\ writer_fd' = Arg
    /\ Continue
    /\ UNCHANGED <<medium, state, segments, active_segment, active_write_offset,
                   write_buf, write_buf_offset, sparse_index, mode, acked, faults>>

OpenWriterError ==
    /\ At("open_writer")
    /\ Fault("io")
    /\ \/ mode = "init" /\ Reset
       \/ /\ mode # "init"
          /\ writer_fd' = NoFd
          /\ todo' = <<>>
          /\ UNCHANGED <<state, segments, active_segment, active_write_offset,
                         write_buf, write_buf_offset, sparse_index, mode>>
    /\ UNCHANGED <<medium, acked>>

CloseWriter ==
    /\ At("close_writer")
    /\ writer_fd' = NoFd
    /\ Continue
    /\ UNCHANGED <<medium, state, segments, active_segment, active_write_offset,
                   write_buf, write_buf_offset, sparse_index, mode, acked, faults>>

-----------------------------------------------------------------------------
(* Flush and append.                                                       *)

\* flush_unsafe.
FlushSteps == <<Do("write_buffer"), Do("commit"), Do("flushed")>>
Flush ==
    /\ At("flush")
    /\ Call(IF write_buf = <<>> THEN <<>> ELSE FlushSteps)
    /\ UNCHANGED <<medium, mode, memory, acked, faults>>

Flushed ==
    /\ At("flushed")
    /\ acked' = acked \cup {[id |-> c.id, generation |-> c.generation] :
                               c \in {write_buf[k] : k \in DOMAIN write_buf}}
    /\ write_buf' = <<>>
    /\ write_buf_offset' = active_write_offset
    /\ Continue
    /\ UNCHANGED <<medium, state, segments, active_segment, active_write_offset,
                   writer_fd, sparse_index, mode, faults>>

\* prepare_entry_space_unsafe and rotate_active_segment_unsafe.
HasAnySpace(n) == active_write_offset < Capacity
HasSpace(n)    == n <= Capacity - active_write_offset
PrepareSpace ==
    /\ At("prepare")
    /\ Call(IF HasSpace(Arg) THEN <<>>
            ELSE SealSteps \o <<Do("open_next")>>)
    /\ UNCHANGED <<medium, mode, memory, acked, faults>>

\* build_entry_header_unsafe and make_next_entry_id_unsafe.
CanMakeEntry == active_segment.generation # 0 /\ state.next_entry_sequence < SequenceMask
NewEntryId   == EntryId(state.boot_counter, state.next_entry_sequence + 1)
MadeEntry    == [state EXCEPT !.next_entry_sequence = @ + 1, !.newest_entry_id = NewEntryId]

NoEntry ==
    /\ At("put") \/ At("reserve")
    /\ ~CanMakeEntry
    /\ Fail
    /\ UNCHANGED <<medium, acked, faults>>

\* add_sparse_index_for_entry.
IndexesNextLate(d) == (d.entry_count + 1) % IndexStride = 0
IndexesNext(d)     == d.entry_count % IndexStride = 0

\* account_appended_entry_unsafe.
Account(id, n) ==
    LET slot    == active_segment.slot
        d       == segments[slot]
        indexed == IF IndexesNext(d) THEN sparse_index \cup {id} ELSE sparse_index
    IN  /\ sparse_index' = indexed
        /\ segments' = [segments EXCEPT ![slot] =
               [d EXCEPT !.first_entry_id = IF d.entry_count = 0 THEN id ELSE @,
                         !.last_entry_id  = id,
                         !.entry_count    = @ + 1,
                         !.data_end       = active_write_offset + n,
                         !.index_count    = Cardinality(indexed)]]
        /\ active_write_offset' = active_write_offset + n

\* The rest of append_buffered_entry_unsafe.
PutEntry ==
    /\ At("put")
    /\ CanMakeEntry
    /\ state' = MadeEntry
    /\ write_buf_offset' = IF write_buf = <<>> THEN active_write_offset ELSE write_buf_offset
    /\ write_buf' = write_buf \o EntryCells(NewEntryId, active_segment.generation, Arg)
    /\ Account(NewEntryId, Arg)
    /\ Continue
    /\ UNCHANGED <<medium, active_segment, writer_fd, mode, acked, faults>>

\* append_direct_entry_unsafe takes the id first and accounts for the entry
\* once it is on the medium.
ReserveEntry ==
    /\ At("reserve")
    /\ CanMakeEntry
    /\ state' = MadeEntry
    /\ Continue
    /\ UNCHANGED <<medium, segments, active_segment, active_write_offset, write_buf,
                   write_buf_offset, writer_fd, sparse_index, mode, acked, faults>>

AccountEntry ==
    /\ At("account")
    /\ Account(state.newest_entry_id, Arg)
    /\ Continue
    /\ UNCHANGED <<medium, state, active_segment, write_buf, write_buf_offset,
                   writer_fd, mode, acked, faults>>

Acknowledge ==
    /\ At("acknowledge")
    /\ acked' = acked \cup {[id |-> state.newest_entry_id,
                             generation |-> active_segment.generation]}
    /\ Continue
    /\ UNCHANGED <<medium, memory, mode, faults>>

-----------------------------------------------------------------------------
(* Sealing and rotation.                                                   *)

\* The end of seal_active_segment_unsafe.
Sealed ==
    /\ At("sealed")
    /\ segments' = [segments EXCEPT ![active_segment.slot] =
                       [@ EXCEPT !.sealed = TRUE, !.index_count = Cardinality(sparse_index)]]
    /\ Continue
    /\ UNCHANGED <<medium, state, active_segment, active_write_offset, write_buf,
                   write_buf_offset, writer_fd, sparse_index, mode, acked, faults>>

\* open_next_segment_unsafe; the code stops at generation UINT64_MAX, a run at
\* MaxGeneration.
OpenNext ==
    /\ At("open_next")
    /\ state.next_generation < MaxGeneration
    /\ IF state.next_generation = 0 THEN Fail
       ELSE /\ Call(<<<<"retire", NextSlot>>, <<"open_writer", NextSlot>>,
                      <<"header", 0>>, <<"header", 1>>, Do("activate"), Do("commit")>>)
            /\ UNCHANGED <<mode, memory>>
    /\ UNCHANGED <<medium, acked, faults>>

\* retire_segment_unsafe: the descriptor goes before the commit.
RetireStepsNoCommit == <<>>
RetireSteps         == <<Do("commit")>>
Retire ==
    /\ At("retire")
    /\ LET remaining == [segments EXCEPT ![Arg] = NoSegment] IN
       IF ~segments[Arg].valid
       THEN Continue /\ UNCHANGED <<state, segments, acked>>
       ELSE /\ segments' = remaining
            /\ state' = [state EXCEPT !.oldest_generation = OldestGeneration(remaining)]
            /\ acked' = {a \in acked : a.generation # segments[Arg].generation}
            /\ Call(RetireSteps)
    /\ UNCHANGED <<medium, active_segment, active_write_offset, write_buf,
                   write_buf_offset, writer_fd, sparse_index, mode, faults>>

\* The memory updates at the end of activate_segment_unsafe and those
\* open_next_segment_unsafe makes before its commit.
Activate ==
    /\ At("activate")
    /\ LET g == state.next_generation
           activated == [segments EXCEPT ![NextSlot] = FreshSegment(g)]
       IN  /\ active_segment' = [slot |-> NextSlot, generation |-> g]
           /\ segments' = activated
           /\ state' = [state EXCEPT !.active_slot = NextSlot,
                                     !.active_generation = g,
                                     !.next_generation = g + 1,
                                     !.oldest_generation = OldestGeneration(activated)]
    /\ active_write_offset' = 0
    /\ write_buf' = <<>>
    /\ write_buf_offset' = 0
    /\ sparse_index' = {}
    /\ Continue
    /\ UNCHANGED <<medium, writer_fd, mode, acked, faults>>

-----------------------------------------------------------------------------
(* Recovery, the steps of init().                                          *)

Skip == Continue /\ UNCHANGED <<mode, memory>>

\* The slot becomes the active segment with the descriptor of a rescan.
Adopt(s, g) ==
    /\ segments' = [segments EXCEPT ![s] = Scan(s, g, TRUE)]
    /\ sparse_index' = ScannedIndex(s, g)
    /\ active_segment' = [slot |-> s, generation |-> g]
    /\ active_write_offset' = Scan(s, g, TRUE).data_end
    /\ UNCHANGED <<state, write_buf, writer_fd, mode>>

SetDescriptor(s, d) ==
    /\ segments' = [segments EXCEPT ![s] = d]
    /\ Continue
    /\ UNCHANGED <<state, active_segment, active_write_offset, write_buf,
                   write_buf_offset, writer_fd, sparse_index, mode>>

\* repair_sealed_segment.
Repair(s, g) ==
    \/ ~SealedPrefixIntact(s, g, Footer(s, g)) /\ Fail
    \/ /\ SealedPrefixIntact(s, g, Footer(s, g))
       /\ Adopt(s, g)
       /\ write_buf_offset' = active_write_offset'
       /\ Call(<<<<"open_writer", s>>>> \o SealSteps \o <<Do("close_writer")>>)

\* recover_one_segment and recover_segment_contents.
Outdated(g) == g = 0 \/ (state.oldest_generation # 0 /\ g < state.oldest_generation)
Recover ==
    /\ At("recover")
    /\ LET s == Arg
           g == HeaderGeneration(s)
       IN  IF ~HeaderReadable(s) THEN Fail
           ELSE IF Outdated(g) THEN SetDescriptor(s, NoSegment)
           ELSE IF ~HasFooter(s, g) THEN SetDescriptor(s, Scan(s, g, FALSE))
           ELSE IF IndexValid(s, Footer(s, g)) THEN SetDescriptor(s, SealedSegment(Footer(s, g)))
           ELSE Repair(s, g)
    /\ UNCHANGED <<medium, acked, faults>>

\* recover_all_segments between its two loops.
PickHighest ==
    /\ At("highest")
    /\ LET highest == HighestGeneration(segments) IN
       IF highest = 0 THEN Fail
       ELSE /\ state' = [state EXCEPT !.active_slot = HighestSlot(segments),
                                      !.active_generation = highest,
                                      !.next_generation = Max({@, highest + 1})]
            /\ Continue
            /\ UNCHANGED <<segments, active_segment, active_write_offset, write_buf,
                           write_buf_offset, writer_fd, sparse_index, mode>>
    /\ UNCHANGED <<medium, acked, faults>>

\* The second loop of recover_all_segments seals what is left open.
LeftBehind(s) == segments[s].valid /\ ~segments[s].sealed /\ s # state.active_slot

\* seal_recovered_segment.
SealRecovered ==
    /\ At("seal_recovered")
    /\ LET s == Arg
       IN  IF ~LeftBehind(s) THEN Skip
           ELSE IF ~HeaderReadable(s) THEN Fail
           ELSE /\ Adopt(s, HeaderGeneration(s))
                /\ UNCHANGED write_buf_offset
                /\ Call(<<<<"open_writer", s>>>> \o SealSteps \o <<Do("close_writer")>>)
    /\ UNCHANGED <<medium, acked, faults>>

\* select_or_create_active_segment and recover_open_segment.
SelectActive ==
    /\ At("select")
    /\ LET s == HighestSlot(segments)
           g == HeaderGeneration(s)
       IN  IF ~HeaderReadable(s) THEN Fail
           ELSE IF ~segments[s].sealed
           THEN /\ Adopt(s, g)
                /\ write_buf_offset' = active_write_offset'
                /\ Call(<<<<"open_writer", s>>>>)
           ELSE /\ active_segment' = [slot |-> s, generation |-> g]
                /\ state' = RecoveredState([slot |-> s, generation |-> g])
                /\ Call(<<Do("open_next")>>)
                /\ UNCHANGED <<segments, active_write_offset, write_buf,
                               write_buf_offset, writer_fd, sparse_index, mode>>
    /\ UNCHANGED <<medium, acked, faults>>

SetState(new) ==
    /\ state' = new
    /\ Continue
    /\ UNCHANGED <<segments, active_segment, active_write_offset, write_buf,
                   write_buf_offset, writer_fd, sparse_index, mode>>

\* The end of recover_all_segments.
Settle ==
    /\ At("settle")
    /\ SetState(RecoveredState(active_segment))
    /\ UNCHANGED <<medium, acked, faults>>

\* The start of finish_initialisation.
CountBootAgain ==
    /\ At("count_boot")
    /\ SetState([state EXCEPT !.next_entry_sequence = 0])
    /\ UNCHANGED <<medium, acked, faults>>
CountBoot ==
    /\ At("count_boot")
    /\ IF state.boot_counter >= BootMask THEN Fail
       ELSE SetState([state EXCEPT !.boot_counter = @ + 1, !.next_entry_sequence = 0])
    /\ UNCHANGED <<medium, acked, faults>>

\* append_boot_entry_unsafe without a coredump to store.
AppendBoot ==
    /\ At("append_boot")
    /\ Call(AppendSteps(BootEntrySize, TRUE))
    /\ UNCHANGED <<medium, mode, memory, acked, faults>>

Ready ==
    /\ At("ready")
    /\ mode' = "run"
    /\ Continue
    /\ UNCHANGED <<medium, memory, acked, faults>>

-----------------------------------------------------------------------------
(* The public operations and the environment.                              *)

Idle == mode = "run" /\ todo = <<>>

StartInit ==
    /\ mode = "off"
    /\ mode' = "init"
    /\ state' = checkpoint
    /\ todo' = InitSteps
    /\ UNCHANGED <<medium, segments, active_segment, active_write_offset, write_buf,
                   write_buf_offset, writer_fd, sparse_index, acked, faults>>

AppendEntry ==
    /\ Idle
    /\ \E n \in EntrySizes, force_flush \in BOOLEAN : todo' = AppendSteps(n, force_flush)
    /\ UNCHANGED <<medium, mode, memory, acked, faults>>

FlushWrite ==
    /\ Idle
    /\ todo' = <<Do("flush")>>
    /\ UNCHANGED <<medium, mode, memory, acked, faults>>

\* deinit(force).
Deinit ==
    /\ Idle
    /\ \E force \in BOOLEAN :
           todo' = (IF force THEN <<>> ELSE <<Do("flush")>>) \o <<Do("close")>>
    /\ UNCHANGED <<medium, mode, memory, acked, faults>>

Close ==
    /\ At("close")
    /\ Reset
    /\ UNCHANGED <<medium, acked, faults>>

\* A power loss, also in the middle of a write.
Crash ==
    /\ mode # "off"
    /\ Reset
    /\ (\E o \in Outcomes : Write(o)) \/ UNCHANGED medium
    /\ UNCHANGED <<acked, faults>>

\* A card that loses what was written: the index region of a slot, or a cell of
\* the data area of a slot sealed by both footer copies.  It happens while the
\* store is closed; nothing but a reader would notice it earlier.
RotIndex ==
    /\ mode = "off"
    /\ Fault("index")
    /\ \E s \in Slots : index' = [index EXCEPT ![s] = Garbage]
    /\ UNCHANGED <<headers, data, footers, checkpoint, memory, control, acked>>

RotData ==
    /\ mode = "off"
    /\ Fault("data")
    /\ \E s \in Slots, o \in Offsets :
          /\ HeaderReadable(s)
          /\ \A c \in Copies : FooterValid(s, HeaderGeneration(s), c)
          /\ data' = [data EXCEPT ![s][o] = Garbage]
    /\ UNCHANGED <<headers, footers, index, checkpoint, memory, control, acked>>

\* The store that finish_segment_provisioning leaves.
Provisioned ==
    [ZeroState EXCEPT !.active_generation = 1, !.next_generation = 2,
                      !.oldest_generation = 1]

Init ==
    /\ headers = [s \in Slots |-> [c \in Copies |-> IF s = 0 THEN 1 ELSE 0]]
    /\ data = [s \in Slots |-> [o \in Offsets |-> Garbage]]
    /\ footers = [s \in Slots |-> [c \in Copies |-> Garbage]]
    /\ index = [s \in Slots |-> Garbage]
    /\ checkpoint = Provisioned
    /\ state = ZeroState
    /\ segments = [s \in Slots |-> NoSegment]
    /\ active_segment = [slot |-> 0, generation |-> 0]
    /\ active_write_offset = 0
    /\ write_buf = <<>>
    /\ write_buf_offset = 0
    /\ writer_fd = NoFd
    /\ sparse_index = {}
    /\ mode = "off"
    /\ todo = <<>>
    /\ acked = {}
    /\ faults = 0

Step ==
    \/ WriteDone \/ NoWriter \/ OpenWriter \/ CloseWriter
    \/ Flush \/ Flushed \/ PrepareSpace \/ NoEntry \/ PutEntry
    \/ ReserveEntry \/ AccountEntry \/ Acknowledge
    \/ Sealed \/ OpenNext \/ Retire \/ Activate
    \/ Recover \/ PickHighest \/ SealRecovered \/ SelectActive
    \/ Settle \/ CountBoot \/ AppendBoot \/ Ready \/ Close

Next ==
    \/ Step
    \/ WriteError \/ OpenWriterError
    \/ StartInit \/ AppendEntry \/ FlushWrite \/ Deinit
    \/ RotIndex \/ RotData
    \/ Crash

Spec == Init /\ [][Next]_vars

-----------------------------------------------------------------------------
(* Types.                                                                  *)

IdSets == {S \in SUBSET Nat : IsFiniteSet(S)}
Cell   == [id : Nat, generation : Nat, size : Nat \ {0}, part : Nat]
ASSUME GarbageCellAssumption == Garbage \notin Cell
FooterRecord ==
    [generation : Nat, first_entry_id : Nat, last_entry_id : Nat,
     entry_count : Nat, data_end : Nat, index : IdSets]
ASSUME GarbageFooterAssumption == Garbage \notin FooterRecord
Descriptor ==
    [valid : BOOLEAN, sealed : BOOLEAN, generation : Nat, first_entry_id : Nat,
     last_entry_id : Nat, entry_count : Nat, data_end : Nat, index_count : Nat]
StateRecord ==
    [active_slot : Slots, active_generation : Nat, next_generation : Nat,
     oldest_generation : Nat, boot_counter : Nat, next_entry_sequence : Nat,
     newest_entry_id : Nat]
Steps ==
    ({"recover", "seal_recovered", "open_writer", "retire"} \X Slots)
    \cup ({"header", "footer"} \X Copies)
    \cup ({"prepare", "put", "reserve", "write_entry", "account"} \X (1 .. Capacity))
    \cup ({"flush", "write_buffer", "commit", "flushed", "acknowledge", "write_index",
            "sealed", "open_next", "activate", "highest", "close_writer", "select",
            "settle", "count_boot", "append_boot", "ready", "close"} \X {0})

MediumTypeOK ==
    /\ headers \in [Slots -> [Copies -> Nat \cup {Garbage}]]
    /\ data \in [Slots -> [Offsets -> Cell \cup {Garbage}]]
    /\ footers \in [Slots -> [Copies -> FooterRecord \cup {Garbage}]]
    /\ index \in [Slots -> IdSets \cup {Garbage}]
    /\ checkpoint \in StateRecord
MemoryTypeOK ==
    /\ state \in StateRecord
    /\ segments \in [Slots -> Descriptor]
    /\ active_segment \in [slot : Slots, generation : Nat]
    /\ active_write_offset \in Nat
    /\ write_buf \in Seq(Cell)
    /\ write_buf_offset \in Nat
    /\ writer_fd \in Slots \cup {NoFd}
    /\ sparse_index \in IdSets
TypeOK ==
    /\ MediumTypeOK
    /\ MemoryTypeOK
    /\ mode \in {"off", "init", "run"}
    /\ todo \in Seq(Steps)
    /\ acked \subseteq [id : Nat, generation : Nat]
    /\ faults \in 0 .. MaxFaults

-----------------------------------------------------------------------------
(* Safety.                                                                 *)

\* What the next recovery will keep of slot s: the offsets of its entries.
Live(s) ==
    /\ HeaderReadable(s)
    /\ HeaderGeneration(s) # 0
    /\ HeaderGeneration(s) >= checkpoint.oldest_generation
Recoverable(s) ==
    LET g == HeaderGeneration(s) IN
    IF ~Live(s) THEN {}
    ELSE IF HasFooter(s, g) /\ IndexValid(s, Footer(s, g))
         THEN {o \in ScannedEntries(s, g) : o < Footer(s, g).data_end}
         ELSE ScannedEntries(s, g)
RecoverableIds(s) == {data[s][o].id : o \in Recoverable(s)}

\* An entry that a flush, a forced append or a direct append reported durable
\* survives any crash until its segment is retired (flush_unsafe, entry.cpp:286,
\* against recover_segment_contents, segment.cpp:501).
AckedDurable ==
    \A a \in acked : \E s \in Slots :
        /\ a.id \in RecoverableIds(s)
        /\ HeaderGeneration(s) = a.generation

\* A later segment generation holds only later entries: find_read_segment
\* (read.cpp:55) picks the lowest generation and the cursor moves on by id.
GenerationsOrdered ==
    \A s, t \in Slots :
        (Live(s) /\ Live(t) /\ s # t) =>
            /\ HeaderGeneration(s) # HeaderGeneration(t)
            /\ HeaderGeneration(s) < HeaderGeneration(t) =>
                   \A i \in RecoverableIds(s), j \in RecoverableIds(t) : i < j

\* While the store runs no byte on the medium, not even what a torn write or an
\* abandoned generation left, carries an id the store has yet to hand out
\* (make_next_entry_id_unsafe, entry.cpp:32).
IdsNeverReissued ==
    Idle => \A s \in Slots, o \in Offsets :
                data[s][o] # Garbage => data[s][o].id <= state.newest_entry_id

\* The bytes a reader sees: the medium with the pending write buffer laid over
\* the active segment (read_snapshot_bytes, read.cpp:237).
Overlay(s) ==
    [o \in Offsets |->
        IF s = active_segment.slot /\ o - write_buf_offset + 1 \in DOMAIN write_buf
        THEN write_buf[o - write_buf_offset + 1] ELSE data[s][o]]

\* Whenever no operation is in progress every valid descriptor describes what a
\* reader finds in its slot: prepare_read_segment (read.cpp:165) accepts it and
\* the entries end where the descriptor says.
ReadableSegment(s) ==
    LET d     == segments[s]
        cells == Overlay(s)
        starts == {o \in Offsets : o < d.data_end /\ cells[o] # Garbage
                                   /\ cells[o].part = 0 /\ cells[o].generation = d.generation}
    IN  /\ HeaderReadable(s)
        /\ HeaderGeneration(s) = d.generation
        /\ d.sealed =>
              /\ HasFooter(s, d.generation)
              /\ SealedSegment(Footer(s, d.generation)) = d
              /\ IndexValid(s, Footer(s, d.generation))
        /\ ~d.sealed => /\ active_segment = [slot |-> s, generation |-> d.generation]
                        /\ d.index_count = Cardinality(sparse_index)
                        /\ d.data_end = active_write_offset
        /\ d.entry_count = Cardinality(starts)
        /\ d.entry_count # 0 => /\ 0 \in starts
                                /\ cells[0].id = d.first_entry_id
                                /\ cells[Max(starts)].id = d.last_entry_id
                                /\ Max(starts) + cells[Max(starts)].size = d.data_end
SnapshotReadable == Idle => \A s \in ValidSlots(segments) : ReadableSegment(s)

\* A header is overwritten only when the segment it names is durably retired:
\* the checkpoint on the medium already excludes its generation
\* (open_next_segment_unsafe, segment.cpp:868; README.md:473).
RetiredBeforeReuse ==
    [][\A s \in Slots :
          headers'[s] # headers[s] =>
              \A g \in HeaderGenerations(s) :
                  g = 0 \/ g < checkpoint.oldest_generation \/ g = state.next_generation]_vars

\* Neither the pending buffer nor the entries accounted for reach beyond the data
\* area of the active segment, so no append or flush ever writes into the sparse
\* index (prepare_entry_space_unsafe, entry.cpp:105).
DataFits ==
    /\ active_write_offset <= Capacity
    /\ write_buf_offset + Len(write_buf) <= Capacity

\* Once both footers seal a segment, corruption inside it is never mistaken for its end:
\* whenever the store runs, every entry reported durable lies in the id range of
\* a descriptor of its generation (scan_segment_entries, segment.cpp:442).
SealedNotTruncated ==
    Idle => \A a \in acked : \E s \in ValidSlots(segments) :
                /\ segments[s].generation = a.generation
                /\ a.id \in segments[s].first_entry_id .. segments[s].last_entry_id

\* A segment that is sealed stays sealed until its slot is reused, also through
\* resets during a repair (README.md:639-646).  The code does not keep this; this
\* project's README lists it under known deviations.
SealSurvives ==
    [][\A s \in Slots :
          (Live(s) /\ HasFooter(s, HeaderGeneration(s)) /\ headers'[s] = headers[s])
              => HasFooter(s, HeaderGeneration(s))']_vars

\* Replicated headers: a slot can always be opened (README.md:255).  The code does
\* not keep this either.
HeadersSurvive == \A s \in Slots : HeaderReadable(s)
=============================================================================
