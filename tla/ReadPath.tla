------------------------------- MODULE ReadPath -------------------------------
(***************************************************************************)
(* Reading entries back (on9rstore_read.cpp): lookup by id, and cursors    *)
(* over ids, over the uptime of one boot and over UTC, while the store     *)
(* goes on appending.  A read copies descriptors, the active sparse index  *)
(* and the write buffer under write_lock (TakeSnapshot), gives it back and *)
(* searches files and copies in a second step (Finish), during which       *)
(* appends and flushes go on but no segment is reused (module Locks).      *)
(*                                                                         *)
(* The writer works as module SegmentStore shows it does as long as no I/O *)
(* fails: an entry is one cell, at the offset that is its position in the  *)
(* data area, its payload does not matter, and recovery finds what was     *)
(* flushed.  The catalog of epochs is what module TimeAnchors computes.    *)
(***************************************************************************)
EXTENDS TimeTranslation, Sequences, FiniteSets, FiniteSetsExt, Functions

CONSTANTS
    SegmentCount,     \* segment_count
    Capacity,         \* entries that fit a data area
    IndexStride,      \* sparse_index_stride
    WriteBufferSize,  \* cfg.write_buffer_size, in entries
    SequenceMask,     \* entry_id_sequence_mask
    BootMask,         \* entry_id_boot_mask
    Ticks,            \* by how much the uptime of an entry exceeds the previous one
    Catalogs,         \* the catalogs of epochs that may come up
    Requests,         \* the cursors callers start from
    MaxGeneration     \* bound on the segment generations of a run

ASSUME SegmentCountAssumption == SegmentCount \in Nat /\ SegmentCount >= 2
ASSUME SizeAssumption == {Capacity, IndexStride, WriteBufferSize} \subseteq Nat \ {0}
\* esp_timer_get_time() counts microseconds, and an append takes longer than one.
ASSUME TicksAssumption == Ticks \subseteq Nat \ {0}
ASSUME BoundAssumption == {SequenceMask, BootMask, MaxGeneration} \subseteq Nat \ {0}

VARIABLES
    store,     \* the store: its files and its memory
    catalog,   \* time_model_epochs, sorted by boot and uptime
    cursor,    \* the caller's cursor, or NoCursor
    snapshot,  \* what the read in progress copied, or NoSnapshot
    outcome,   \* what the read that just ended returned, or NoOutcome
    seen       \* ghost: the ids this cursor has returned

vars == <<store, catalog, cursor, snapshot, outcome, seen>>

Slots == 0 .. SegmentCount - 1

\* get_entry_boot_counter, get_boot_first_entry_id, get_boot_last_entry_id.
BootOf(id) == id \div (SequenceMask + 1)
FirstIdOf(boot) == boot * (SequenceMask + 1) + 1
LastIdOf(boot) == boot * (SequenceMask + 1) + SequenceMask

\* calculate_segment_geometry: a sparse index for as many entries as could fit.
IndexCapacityTight == Capacity \div IndexStride
IndexCapacity == Capacity \div IndexStride + 1

NoCursor == [op |-> "none"]
NoSnapshot == [limit |-> 0]
NoEntry == [id |-> 0, uptime |-> 0]
Outcome(ret, entry) == [ret |-> ret, entry |-> entry]
NoOutcome == Outcome("none", NoEntry)
NotFound == Outcome("not_found", NoEntry)
Corrupt == Outcome("error", NoEntry)

-----------------------------------------------------------------------------
(* The writer, as functions from store to store.                           *)

NoFooter == [first |-> 0, last |-> 0, count |-> 0, items |-> 0]
FreshSegment(generation) ==
    [generation |-> generation, sealed |-> FALSE, first |-> 0, last |-> 0, count |-> 0, items |-> 0]
FreshFile(generation) ==
    [generation |-> generation, data |-> <<>>, index |-> <<>>, footer |-> NoFooter]

\* flush_unsafe.
Flushed(s) == [s EXCEPT !.files[s.active].data = @ \o s.buf, !.buf = <<>>]

\* add_sparse_index_entry_unsafe and account_appended_entry_unsafe.
WithItem(items, entry, offset) ==
    IF (offset - 1) % IndexStride = 0 /\ Len(items) < IndexCapacity
    THEN Append(items, [id |-> entry.id, uptime |-> entry.uptime, offset |-> offset])
    ELSE items

Accounted(s, entry) ==
    LET d == s.segs[s.active]
        items == WithItem(s.index, entry, d.count + 1)
    IN [s EXCEPT
           !.index = items,
           !.seq = @ + 1,
           !.clock = entry.uptime,
           !.segs[s.active] =
               [d EXCEPT !.first = IF d.count = 0 THEN entry.id ELSE @, !.last = entry.id,
                         !.count = @ + 1, !.items = Len(items)]]

\* rotate_active_segment_unsafe.
FooterOf(d) == [first |-> d.first, last |-> d.last, count |-> d.count, items |-> d.items]

Sealed(s) ==
    LET f == Flushed(s) IN
    [f EXCEPT !.files[s.active].index = s.index,
              !.files[s.active].footer = FooterOf(s.segs[s.active]),
              !.segs[s.active].sealed = TRUE]

Rotated(s) ==
    LET next == (s.active + 1) % SegmentCount
        generation == s.segs[s.active].generation + 1
    IN [Sealed(s) EXCEPT !.active = next, !.index = <<>>,
                         !.segs[next] = FreshSegment(generation),
                         !.files[next] = FreshFile(generation)]

\* prepare_entry_space_unsafe.
HasSpaceBeyond(s) == s.segs[s.active].count <= Capacity
HasSpace(s) == s.segs[s.active].count < Capacity
Prepared(s) == IF HasSpace(s) THEN s ELSE Rotated(s)

NextEntry(s, tick) == [id |-> s.boot * (SequenceMask + 1) + s.seq + 1, uptime |-> s.clock + tick]

\* append_buffered_entry_unsafe and append_direct_entry_unsafe.
Buffered(s, tick) ==
    LET r == Prepared(IF Len(s.buf) = WriteBufferSize THEN Flushed(s) ELSE s)
        entry == NextEntry(r, tick)
    IN Accounted([r EXCEPT !.buf = Append(@, entry)], entry)

Direct(s, tick) ==
    LET r == Prepared(Flushed(s))
        entry == NextEntry(r, tick)
    IN Accounted([r EXCEPT !.files[r.active].data = Append(@, entry)], entry)

\* A direct append whose write fails: its id is used up (make_next_entry_id_unsafe).
Failed(s, tick) ==
    LET r == Prepared(Flushed(s)) IN [r EXCEPT !.seq = @ + 1, !.clock = @ + tick]

\* scan_segment_entries and select_or_create_active_segment: the active segment
\* is rebuilt from its file.
Rescanned(s) ==
    LET entries == s.files[s.active].data
        items == SelectSeq([p \in 1 .. Len(entries) |->
                              [id |-> entries[p].id, uptime |-> entries[p].uptime, offset |-> p]],
                           LAMBDA item : (item.offset - 1) % IndexStride = 0)
        d == [FreshSegment(s.segs[s.active].generation) EXCEPT
                 !.count = Len(entries), !.items = Len(items),
                 !.first = IF entries = <<>> THEN 0 ELSE entries[1].id,
                 !.last = IF entries = <<>> THEN 0 ELSE entries[Len(entries)].id]
    IN [s EXCEPT !.segs[s.active] = d, !.index = items, !.buf = <<>>]

\* finish_initialisation: the next boot counter, and the boot event.
Booted(s, tick) ==
    Flushed(Buffered([Rescanned(s) EXCEPT !.boot = @ + 1, !.seq = 0, !.clock = 0], tick))

NewStore ==
    [files |-> [slot \in Slots |-> FreshFile(IF slot = 0 THEN 1 ELSE 0)],
     segs |-> [slot \in Slots |-> FreshSegment(IF slot = 0 THEN 1 ELSE 0)],
     active |-> 0, index |-> <<>>, buf |-> <<>>, boot |-> 0, seq |-> 0, clock |-> 0]

-----------------------------------------------------------------------------
(* What a read sees: its snapshot sn, and the files.                       *)

\* find_read_segment.
Candidates(sn, first, last, exact) ==
    {slot \in Slots :
        LET d == sn.segs[slot] IN
        /\ d.generation # 0 /\ d.count # 0
        /\ d.last >= first /\ d.first <= last
        /\ exact => first \in d.first .. d.last}

LowestGeneration(sn, slots) ==
    CHOOSE slot \in slots : \A other \in slots : sn.segs[slot].generation <= sn.segs[other].generation

\* read_snapshot_bytes and read_snapshot_entry_header: the entry at an offset.
FileEntry(slot, p) ==
    LET entries == store.files[slot].data IN
    IF p \in DOMAIN entries THEN entries[p] ELSE NoEntry

SnapshotEntry(sn, slot, p) ==
    IF slot = sn.active /\ sn.buf # <<>> /\ p >= sn.bufAt
    THEN IF p < sn.bufAt + Len(sn.buf) THEN sn.buf[p - sn.bufAt + 1] ELSE NoEntry
    ELSE FileEntry(slot, p)

\* load_read_sparse_index.
IndexOf(sn, slot) ==
    IF sn.segs[slot].sealed THEN store.files[slot].index ELSE sn.index

\* is_read_sparse_index_valid.
IndexValid(d, items) ==
    /\ Len(items) = (d.count - 1) \div IndexStride + 1
    /\ d.items = Len(items)
    /\ \A i \in DOMAIN items :
        /\ items[i].id \in d.first .. d.last /\ items[i].offset \in 1 .. d.count
        /\ i > 1 => /\ items[i].id > items[i - 1].id /\ items[i].offset > items[i - 1].offset
                    /\ BootOf(items[i].id) = BootOf(items[i - 1].id) =>
                           items[i].uptime >= items[i - 1].uptime
    /\ items[1].id = d.first /\ items[1].offset = 1

\* prepare_read_segment.
Readable(sn, slot) ==
    LET d == sn.segs[slot]
        file == store.files[slot]
    IN /\ file.generation = d.generation
       /\ IF d.sealed THEN file.footer = FooterOf(d)
          ELSE slot = sn.active /\ d.items = Len(sn.index)
       /\ IndexValid(d, IndexOf(sn, slot))

\* find_read_start and find_boot_read_start: the binary search for the last item
\* whose position is in before, or the first item.
FirstAfter(items, before) ==
    LET Search[low \in 1 .. Len(items) + 1, high \in 1 .. Len(items) + 1] ==
            LET middle == low + (high - low) \div 2 IN
            IF low >= high THEN low
            ELSE IF middle \in before THEN Search[middle + 1, high] ELSE Search[low, middle]
    IN Search[1, Len(items) + 1]

StartItem(items, before) ==
    LET low == FirstAfter(items, before) IN items[IF low = 1 THEN 1 ELSE low - 1]

UpToId(items, id) == {i \in DOMAIN items : items[i].id <= id}

\* The loop of read_matching_entry and read_matching_boot_entry over the entries at
\* of a segment, from an index item to the first position in matching or past.
EntriesAt(sn, slot) == [p \in 1 .. sn.segs[slot].count |-> SnapshotEntry(sn, slot, p)]

ScanFrom(at, item, matching, past, ordered) ==
    LET stops == {p \in item.offset .. Len(at) : at[p] = NoEntry \/ p \in matching \cup past}
        end == IF stops = {} THEN Len(at) ELSE Min(stops)
        sound == /\ at[item.offset].id = item.id /\ at[item.offset].uptime = item.uptime
                 /\ \A p \in item.offset .. end : at[p] # NoEntry
                 /\ item.offset + 1 .. end \subseteq ordered
    IN IF ~sound THEN Corrupt
       ELSE IF end \in matching THEN Outcome("ok", at[end]) ELSE NotFound

\* read_entry_internal.
ReadEntry(sn, first, last, exact) ==
    LET slots == Candidates(sn, first, last, exact)
        slot == LowestGeneration(sn, slots)
        items == IndexOf(sn, slot)
        at == EntriesAt(sn, slot)
    IN IF slots = {} THEN NotFound
       ELSE IF ~Readable(sn, slot) THEN Corrupt
       ELSE ScanFrom(at, StartItem(items, UpToId(items, first)),
                     {p \in DOMAIN at : IF exact THEN at[p].id = first ELSE at[p].id \in first .. last},
                     {p \in DOMAIN at : at[p].id > last},
                     {p \in DOMAIN at \ {1} : at[p].id > at[p - 1].id})

\* read_matching_boot_entry, on one segment, with find_boot_read_start.
BeforeUptime(item, boot, uptime) ==
    BootOf(item.id) < boot \/ (BootOf(item.id) = boot /\ item.uptime <= uptime)

ReadBootSegment(sn, slot, c, first) ==
    LET items == IndexOf(sn, slot)
        before == IF c.next = 0 THEN {i \in DOMAIN items : BeforeUptime(items[i], c.boot, c.first)}
                  ELSE UpToId(items, first)
        at == EntriesAt(sn, slot)
        ofBoot == {p \in DOMAIN at : BootOf(at[p].id) = c.boot}
    IN IF ~Readable(sn, slot) THEN Corrupt
       ELSE ScanFrom(at, StartItem(items, before),
                     {p \in ofBoot : at[p].id >= first /\ at[p].uptime \in c.first .. c.last},
                     {p \in ofBoot : at[p].uptime > c.last}
                         \cup {p \in DOMAIN at : BootOf(at[p].id) > c.boot},
                     {p \in DOMAIN at \ {1} :
                         /\ at[p].id > at[p - 1].id
                         /\ BootOf(at[p].id) = BootOf(at[p - 1].id) => at[p].uptime >= at[p - 1].uptime})

\* read_boot_entry_from_snapshot: segment after segment.
ReadBoot(sn, c) ==
    LET from == IF c.next = 0 THEN FirstIdOf(c.boot) ELSE c.next
        Visit[first \in from .. LastIdOf(c.boot) + 1] ==
            LET slots == Candidates(sn, first, LastIdOf(c.boot), FALSE)
                slot == LowestGeneration(sn, slots)
                result == ReadBootSegment(sn, slot, c, first)
            IN IF slots = {} THEN NotFound
               ELSE IF result # NotFound \/ sn.segs[slot].last >= LastIdOf(c.boot) THEN result
               ELSE Visit[sn.segs[slot].last + 1]
    IN Visit[from]

\* make_utc_boot_cursor.
UtcEpochs(c) ==
    {i \in DOMAIN catalog :
        /\ Overlaps(catalog[i], c.first, c.last)
        /\ BootOf(c.next) <= catalog[i].boot}

BootCursor(c, epoch) ==
    [boot |-> epoch.boot, first |-> FirstUptime(epoch, c.first), last |-> LastUptime(epoch, c.last),
     next |-> IF c.next # 0 /\ BootOf(c.next) = epoch.boot THEN c.next ELSE 0]

\* read_utc_entry_internal: the first epoch with an entry.
ReadUtc(sn, c) ==
    LET results == [i \in UtcEpochs(c) |-> ReadBoot(sn, BootCursor(c, catalog[i]))]
        hits == {i \in UtcEpochs(c) : results[i] # NotFound}
        hit == Min(hits)
    IN IF hits = {} THEN NotFound
       ELSE IF results[hit].ret = "ok" /\ ~HasUtc(catalog[hit], results[hit].entry.uptime) THEN Corrupt
       ELSE results[hit]

Read(sn, c) ==
    CASE c.op = "entry" -> ReadEntry(sn, c.next, c.next, TRUE)
      [] c.op = "range" -> ReadEntry(sn, c.next, c.last, FALSE)
      [] c.op = "uptime" -> ReadBoot(sn, c)
      [] c.op = "utc" -> ReadUtc(sn, c)

\* What read_next_entry, read_next_entry_by_uptime and read_next_entry_by_utc
\* make of the result.
LastOf(c) ==
    CASE c.op \in {"entry", "range"} -> c.last
      [] c.op = "uptime" -> LastIdOf(c.boot)
      [] c.op = "utc" -> LastIdOf(BootMask)

AdvancedOnAny(c, result) ==
    IF result.ret = "not_found" \/ result.entry.id >= LastOf(c) THEN [c EXCEPT !.finished = TRUE]
    ELSE [c EXCEPT !.next = result.entry.id + 1]
Advanced(c, result) ==
    IF result.ret = "not_found" THEN [c EXCEPT !.finished = TRUE]
    ELSE IF result.ret # "ok" THEN c
    ELSE IF result.entry.id >= LastOf(c) THEN [c EXCEPT !.finished = TRUE]
    ELSE [c EXCEPT !.next = result.entry.id + 1]

-----------------------------------------------------------------------------
(* The behaviour.                                                          *)

Init ==
    /\ \E tick \in Ticks : store = Booted(NewStore, tick)
    /\ catalog = <<>>
    /\ cursor = NoCursor /\ snapshot = NoSnapshot
    /\ outcome = NoOutcome /\ seen = {}

\* A change of the store.  A rotation waits for read_lock.
Change(s) ==
    /\ s.segs[s.active].generation <= MaxGeneration /\ s.clock <= MaxTime
    /\ s.active # store.active => snapshot = NoSnapshot
    /\ store' = s
    /\ outcome' = NoOutcome
    /\ UNCHANGED <<catalog, cursor, snapshot, seen>>

\* append_entry; an append beyond the last sequence of a boot fails.
AppendEntry ==
    /\ store.seq < SequenceMask
    /\ \E tick \in Ticks :
          Change(Buffered(store, tick)) \/ Change(Direct(store, tick)) \/ Change(Failed(store, tick))

FlushWrite == store.buf # <<>> /\ Change(Flushed(store))

\* deinit() and init(): the caller keeps its cursor.
Restart ==
    /\ snapshot = NoSnapshot /\ store.boot < BootMask
    /\ \E tick \in Ticks : Change(Booted(Flushed(store), tick))

\* A power loss and init(): the buffer and the cursor are gone.
PowerLoss ==
    /\ store.boot < BootMask
    /\ \E tick \in Ticks : store' = Booted(store, tick)
    /\ store'.segs[store'.active].generation <= MaxGeneration
    /\ cursor' = NoCursor /\ snapshot' = NoSnapshot
    /\ catalog' = <<>> /\ outcome' = NoOutcome /\ seen' = {}

\* The caller makes a cursor, or gives it up.  Only cursors over UTC look at the
\* catalog, whose anchors measure uptimes that have passed.
Possible(epochs) ==
    \A i \in DOMAIN epochs :
        /\ epochs[i].boot <= store.boot
        /\ epochs[i].boot = store.boot => epochs[i].mono <= store.clock

Open ==
    /\ cursor = NoCursor
    /\ cursor' \in Requests
    /\ catalog' \in IF cursor'.op = "utc" THEN {c \in Catalogs : Possible(c)} ELSE {<<>>}
    /\ outcome' = NoOutcome
    /\ UNCHANGED <<store, snapshot, seen>>

Close ==
    /\ cursor # NoCursor /\ snapshot = NoSnapshot
    /\ cursor' = NoCursor /\ catalog' = <<>>
    /\ outcome' = NoOutcome /\ seen' = {}
    /\ UNCHANGED <<store, snapshot>>

\* snapshot_read_state_unsafe.  The ghost limit is the newest entry at that time.
Snapshot ==
    [segs |-> store.segs, active |-> store.active, index |-> store.index, buf |-> store.buf,
     bufAt |-> Len(store.files[store.active].data) + 1,
     limit |-> store.boot * (SequenceMask + 1) + store.seq]

TakeSnapshot ==
    /\ cursor # NoCursor /\ snapshot = NoSnapshot
    /\ ~cursor.finished
    /\ cursor.op = "range" => cursor.next <= cursor.last
    /\ snapshot' = Snapshot
    /\ outcome' = NoOutcome
    /\ UNCHANGED <<store, catalog, cursor, seen>>

\* The rest of the read.  A payload buffer that is too small gets the entry's
\* header only, and the cursor stays.
Finish ==
    /\ snapshot # NoSnapshot
    /\ LET result == Read(snapshot, cursor) IN
       /\ outcome' \in {result} \cup
              IF result.ret = "ok" THEN {Outcome("invalid_size", result.entry)} ELSE {}
       /\ cursor' = Advanced(cursor, outcome')
       /\ seen' = IF outcome'.ret = "ok" THEN seen \cup {result.entry.id} ELSE seen
    /\ snapshot' = NoSnapshot
    /\ UNCHANGED <<store, catalog>>

\* read_next_entry of a cursor with nothing left.
FinishEmpty ==
    /\ cursor # NoCursor /\ snapshot = NoSnapshot
    /\ cursor.op = "range" /\ cursor.next > cursor.last /\ ~cursor.finished
    /\ cursor' = [cursor EXCEPT !.finished = TRUE]
    /\ outcome' = NoOutcome
    /\ UNCHANGED <<store, catalog, snapshot, seen>>

Next ==
    \/ AppendEntry \/ FlushWrite \/ Restart \/ PowerLoss
    \/ Open \/ Close \/ TakeSnapshot \/ Finish \/ FinishEmpty

Spec == Init /\ [][Next]_vars

-----------------------------------------------------------------------------
(* Properties.                                                             *)

EntriesOf(s) ==
    UNION {Range(s.files[slot].data) : slot \in Slots} \cup Range(s.buf)

\* What a cursor asks for.
Wanted(c, e) ==
    CASE c.op = "entry" -> e.id = c.next
      [] c.op = "range" -> e.id \in 0 .. c.last
      [] c.op = "uptime" -> BootOf(e.id) = c.boot /\ e.uptime \in c.first .. c.last
      [] c.op = "utc" ->
           \E i \in DOMAIN catalog :
               /\ BootOf(e.id) = catalog[i].boot
               /\ e.uptime \in catalog[i].first .. catalog[i].last
               /\ (e.uptime - catalog[i].mono) + catalog[i].utc \in c.first .. c.last

\* Types.
Entry == [id : Nat, uptime : Times]
TypeOK ==
    /\ store.active \in Slots /\ store.boot \in 1 .. BootMask /\ store.seq \in 0 .. SequenceMask
    /\ store.clock \in Times
    /\ \A slot \in Slots :
        /\ store.files[slot].data \in Seq(Entry) /\ Len(store.files[slot].data) <= Capacity
        /\ Len(store.files[slot].index) <= IndexCapacity
        /\ store.segs[slot].count \in 0 .. Capacity
    /\ Len(store.buf) <= WriteBufferSize /\ Len(store.index) <= IndexCapacity
    /\ catalog \in Catalogs \cup {<<>>}
    /\ outcome.ret \in {"none", "ok", "invalid_size", "not_found", "error"}
    /\ outcome.entry \in Entry
    /\ seen \subseteq Nat

\* Whatever happens between the snapshot and the search, a read gives what a
\* linear scan of the store at the snapshot would (read.cpp:447, 521, 638): the
\* first wanted entry at or after the cursor, nothing only if there is none, and
\* never a report of corruption.
ReadMatchesScan ==
    [][(snapshot # NoSnapshot /\ outcome' # NoOutcome) =>
        LET due == {e \in EntriesOf(store) :
                        e.id <= snapshot.limit /\ e.id >= cursor.next /\ Wanted(cursor, e)}
        IN IF due = {} THEN outcome' = NotFound
           ELSE /\ outcome'.ret \in {"ok", "invalid_size"}
                /\ outcome'.entry \in due
                /\ \A e \in due : outcome'.entry.id <= e.id]_vars

\* A cursor leaves nothing out: an entry that is still retained, wanted and behind
\* the cursor has been returned, across appends, rotations, restarts and calls
\* that failed because the buffer was too small (README.md:544).
Passed(c, e) == e.id < c.next \/ (c.finished /\ seen # {} /\ e.id <= Max(seen))
NothingSkipped ==
    cursor # NoCursor =>
        \A e \in EntriesOf(store) :
            (Wanted(cursor, e) /\ e.id >= cursor.from /\ Passed(cursor, e)) => e.id \in seen
=============================================================================
