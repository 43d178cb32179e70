------------------------ MODULE SegmentStoreInvariants ------------------------
(***************************************************************************)
(* The inductive invariants behind the theorems of SegmentStoreProofs,     *)
(* SegmentStoreSafetyProofs and SegmentStoreDurabilityProofs.              *)
(***************************************************************************)
EXTENDS SegmentStore

-----------------------------------------------------------------------------
(* The continuation.                                                       *)

\* The steps still to take, and those behind the first.
StepsOf(q) == {q[i] : i \in DOMAIN q}
Pending    == StepsOf(todo)
Rest       == StepsOf(Tail(todo))
Has(names) == \E x \in Pending : x[1] \in names

\* The place of a step in a continuation, and the earliest place that may follow
\* it and what it calls.
Place ==
    [write_buffer |-> 1, flushed |-> 3, write_index |-> 5, footer |-> 7, sealed |-> 9,
     close_writer |-> 11, open_next |-> 13, retire |-> 15, open_writer |-> 16,
     header |-> 17, activate |-> 19, prepare |-> 21, put |-> 29, flush |-> 31,
     reserve |-> 25, write_entry |-> 27, account |-> 29, acknowledge |-> 31,
     recover |-> 33, highest |-> 35, seal_recovered |-> 37, select |-> 39, settle |-> 41,
     count_boot |-> 43, commit |-> 44, append_boot |-> 45, ready |-> 47, close |-> 47]
Follow ==
    [n \in DOMAIN Place |->
        IF n = "commit" THEN 2
        ELSE IF n = "open_next" THEN 20
        ELSE IF n \in {"flush", "open_writer"} THEN 4
        ELSE IF n \in {"footer", "header", "recover", "seal_recovered"} THEN Place[n]
        ELSE Place[n] + 1]
Ordered(q) == \A i, j \in DOMAIN q : i < j => Follow[q[i][1]] <= Place[q[j][1]]

\* The boot counter is committed once it is counted.
Committed(q) ==
    \A i \in DOMAIN q : q[i][1] = "count_boot" =>
        \E j \in DOMAIN q : i < j /\ q[j][1] = "commit"

Recovering == {"recover", "highest", "seal_recovered", "select", "settle", "count_boot"}
Booting    == Recovering \cup {"append_boot"}
Sized      == {"prepare", "put", "reserve", "write_entry", "account"}

ControlInv ==
    /\ Ordered(todo)
    /\ Committed(todo)
    /\ \A x, y \in Pending : x[1] \in Sized /\ y[1] \in Sized => x[2] = y[2]
    /\ Has(Sized \cup {"acknowledge"}) => ~Has(Booting)
    /\ Has(Recovering) => Has({"count_boot"}) /\ Has({"append_boot"})
    /\ mode # "init" => ~Has(Booting \cup {"ready"})
    /\ mode = "off" => todo = <<>>

-----------------------------------------------------------------------------
(* Space.                                                                  *)

SpaceInv ==
    /\ active_write_offset <= Capacity
    /\ IF write_buf = <<>> THEN write_buf_offset <= Capacity
       ELSE write_buf_offset + Len(write_buf) <= active_write_offset
    /\ mode = "off" \/ Has(Booting) => write_buf = <<>>
    /\ Has({"prepare", "open_next", "activate"})
       \/ \A x \in Pending : x[1] \in Sized => HasSpace(x[2])

-----------------------------------------------------------------------------
(* Entry ids.                                                              *)

LastId(boot) == EntryId(boot, SequenceMask)

\* No cell and no footer, and no descriptor and no buffered cell, has an id beyond top.
MediumIdsBelow(cells, sums, top) ==
    /\ \A s \in Slots, o \in Offsets : cells[s][o] # Garbage => cells[s][o].id <= top
    /\ \A s \in Slots, c \in Copies : sums[s][c] # Garbage => sums[s][c].last_entry_id <= top
MemoryIdsBelow(buf, segs, top) ==
    /\ \A k \in DOMAIN buf : buf[k].id <= top
    /\ \A s \in Slots : segs[s].last_entry_id <= top
IdsBelow(top) == MediumIdsBelow(data, footers, top) /\ MemoryIdsBelow(write_buf, segments, top)

\* The boot is counted, so the ids handed out from now on are those of this boot.
Counted == mode # "off" /\ ~Has(Recovering)
NewestHandedOut == EntryId(state.boot_counter, state.next_entry_sequence)
Handed ==
    /\ state.next_entry_sequence > 0
    /\ state.newest_entry_id = NewestHandedOut

IdInv ==
    /\ IdsBelow(LastId(checkpoint.boot_counter))
    /\ checkpoint.newest_entry_id <= LastId(checkpoint.boot_counter)
    /\ mode # "off" =>
          /\ state.boot_counter >= checkpoint.boot_counter
          /\ state.newest_entry_id <= LastId(state.boot_counter)
    /\ Counted =>
          /\ IdsBelow(NewestHandedOut)
          /\ state.newest_entry_id <= NewestHandedOut
          /\ state.next_entry_sequence <= SequenceMask
          /\ \/ state.boot_counter = checkpoint.boot_counter
             \/ Has({"append_boot"}) /\ Has({"commit"})
    /\ mode = "run" => Handed
    /\ Has({"ready"}) => Has(Booting \cup {"put", "reserve"}) \/ Handed
-----------------------------------------------------------------------------
(* Generations.                                                            *)

\* The slot that generation g takes: the rotation goes around.
Home(g) == (g - 1) % SegmentCount

\* The entries of the data areas and of the write buffer, and the one whose id is
\* taken and whose cells are the next to be written.
Mark(c)  == [id |-> c.id, generation |-> c.generation]
OnMedium ==
    {Mark(data[x[1]][x[2]]) : x \in {y \in Slots \X Offsets : data[y[1]][y[2]] # Garbage}}
InBuffer == {Mark(write_buf[k]) : k \in DOMAIN write_buf}
Reserved == Has({"write_entry"}) /\ ~Has({"reserve"})
Taken ==
    IF Reserved
    THEN {[id |-> state.newest_entry_id, generation |-> active_segment.generation]}
    ELSE {}
Stored == OnMedium \cup InBuffer \cup Taken

\* Generation n is the one that the next rotation gives out: headers and entries are
\* of earlier ones, but for the header of n that a rotation in progress wrote.
HeadersUpTo(n) ==
    /\ \A s \in Slots : \A g \in HeaderGenerations(s) : g = 0 \/ (g <= n /\ Home(g) = s)
    /\ n - 1 \in HeaderGenerations(Home(n - 1))
CheckpointUpTo(n) ==
    checkpoint.next_generation <= n /\ checkpoint.oldest_generation < n
Upcoming(n) ==
    /\ n \in Nat /\ n >= 2
    /\ HeadersUpTo(n)
    /\ CheckpointUpTo(n)
    /\ \A p \in Stored : p.generation < n

\* The descriptor of a slot agrees with the header of the slot.
Described(s) ==
    /\ HeaderReadable(s)
    /\ segments[s].valid => segments[s].generation = HeaderGeneration(s)
Recovered(s) == Described(s) /\ (segments[s].valid <=> ~Outdated(HeaderGeneration(s)))

\* The generation is being chosen, or is the active one.
Choosing == mode = "off" \/ Has({"highest"})

RotationInv ==
    /\ Reserved => ~Has({"prepare", "open_next", "activate"})
    /\ Has({"recover"}) => Has({"highest"})
    /\ Has({"highest", "seal_recovered"}) => Has({"select"})
    /\ Has({"select"}) => ~Has({"open_next", "retire", "header", "activate"})
    /\ \A x \in Pending : x[1] = "retire" => x[2] = NextSlot
    /\ Has({"header"}) =>
          IF Has({"open_writer"})
          THEN \A x \in Pending : x[1] = "open_writer" => x[2] = NextSlot
          ELSE writer_fd \in {NextSlot, NoFd}

Chosen ==
    /\ Upcoming(state.next_generation)
    /\ state.active_slot = Home(state.next_generation - 1)
    /\ state.oldest_generation < state.next_generation
    /\ \A s \in ValidSlots(segments) : segments[s].generation < state.next_generation
    /\ IF Has({"select"})
       THEN /\ HighestGeneration(segments) = state.next_generation - 1
            /\ \A s \in Slots : Described(s)
       ELSE active_segment = [slot       |-> state.active_slot,
                              generation |-> state.next_generation - 1]
    /\ Has({"activate"}) /\ ~Has({"header"}) =>
          state.next_generation \in HeaderGenerations(NextSlot)

GenerationInv ==
    /\ Choosing => \E s \in Slots : \E g \in HeaderGenerations(s) : Upcoming(g + 1)
    /\ Has({"highest"}) =>
          /\ state.next_generation = checkpoint.next_generation
          /\ state.oldest_generation = checkpoint.oldest_generation
          /\ \A s \in Slots : <<"recover", s>> \in Pending \/ Recovered(s)
    /\ ~Choosing => Chosen

\* A later generation holds later entries.
OrderInv == \A p, q \in Stored : p.generation < q.generation => p.id < q.id

-----------------------------------------------------------------------------
(* Retirement.                                                             *)

\* The segments that the checkpoint retains are one round of the ring: the header of
\* the oldest is in place, and that of generation n, once written, replaces none of
\* theirs.
Retained(n) ==
    LET oldest == checkpoint.oldest_generation IN
    /\ oldest >= 1
    /\ oldest \in HeaderGenerations(Home(oldest))
    /\ n <= oldest + SegmentCount
    /\ n \in HeaderGenerations(Home(n)) => n < oldest + SegmentCount

\* Memory and checkpoint agree on the oldest segment, but for the commit that
\* follows a retirement, and the slot of the next generation is retired before its
\* header is written.
Retiring ==
    /\ state.oldest_generation = OldestGeneration(segments)
    /\ checkpoint.oldest_generation <= state.oldest_generation
    /\ checkpoint.oldest_generation = state.oldest_generation \/ At("commit")
    /\ \A s \in ValidSlots(segments) : segments[s].generation \in HeaderGenerations(s) \ {0}
    /\ state.active_slot \in ValidSlots(segments)
    /\ Has({"header", "activate"}) /\ ~Has({"retire"}) => NextSlot \notin ValidSlots(segments)

\* Without failed writes.
RetirementInv ==
    /\ Choosing => \E s \in Slots : \E g \in HeaderGenerations(s) : Upcoming(g + 1) /\ Retained(g + 1)
    /\ ~Choosing =>
          /\ Retained(state.next_generation)
          /\ IF Has({"select"})
             THEN /\ state.oldest_generation = checkpoint.oldest_generation
                  /\ \A s \in Slots : Recovered(s)
             ELSE Retiring

-----------------------------------------------------------------------------
(* The active segment.                                                     *)

\* The memory describes the active segment: between its choice and the rotation, and
\* while a recovered segment is being sealed.
Sealing == {"write_index", "footer", "sealed"}
Unbound == {"recover", "highest", "seal_recovered", "select", "open_next", "activate"}
Working == mode # "off" /\ (Has(Sealing) \/ ~Has(Unbound))

\* What a step is followed by.
Rotation    == {"open_next", "retire", "header", "activate"}
Bypass      == {"reserve", "write_entry", "account", "acknowledge"}
SequenceInv ==
    /\ Has({"write_buffer"}) => Has({"flushed"})
    /\ Has({"write_entry"}) => Has({"account"})
    /\ Has({"account"}) => Has({"acknowledge"})
    /\ Has({"put"}) => ~Has(Bypass)
    /\ Has({"retire", "header"}) => Has({"activate"})
    /\ Has({"close_writer"}) => Has({"select"})
    /\ Has({"activate"}) => ~Has(Sealing)
    /\ todo # <<>> /\ (\E x \in Rest : x[1] = "open_writer") => Has({"activate"})

\* A direct append takes its id before it writes the entry, and a rotation on its
\* behalf before it takes the id.
AppendInv ==
    /\ Has({"reserve"}) => Has({"write_entry"})
    /\ Has({"prepare"} \cup Rotation) /\ Has({"acknowledge"}) => Has({"reserve"})

\* What is buffered is flushed before it is sealed and before an entry goes past the
\* buffer.
BufferInv ==
    /\ Has(Sealing \cup Rotation \cup Bypass) => write_buf = <<>> \/ At("flush") \/ Has({"flushed"})
    /\ Has(Rotation) /\ ~Has(Sealing) => write_buf = <<>>
    /\ Has({"acknowledge"}) /\ ~Has({"write_entry"}) => write_buf = <<>>
    /\ Has({"flushed"}) => write_buf # <<>>

\* The file that is open for writing, or about to be opened, is slot s.
WritesTo(s) ==
    IF Has({"open_writer"}) THEN \A x \in Pending : x[1] = "open_writer" => x[2] = s
    ELSE writer_fd = s
ActiveInv ==
    /\ Has({"activate"}) => WritesTo(NextSlot)
    /\ Working =>
          LET slot == active_segment.slot IN
          /\ HeaderReadable(slot)
          /\ HeaderGeneration(slot) = active_segment.generation
          /\ active_segment.generation # 0
          /\ segments[slot].valid
          /\ segments[slot].generation = active_segment.generation
          /\ segments[slot].data_end = active_write_offset
          /\ WritesTo(slot)

-----------------------------------------------------------------------------
(* The data of the active segment.                                         *)

\* The cells are those of whole entries of generation g, one after the other up to
\* the offset end and with increasing ids.
Whole(cells, g, end, o) ==
    LET c == cells[o] IN
    /\ c # Garbage
    /\ c.generation = g
    /\ c.id # 0
    /\ c.part <= o /\ c.part < c.size
    /\ (o - c.part) + c.size <= end
    /\ \A k \in 0 .. c.size - 1 : cells[(o - c.part) + k] = [c EXCEPT !.part = k]
Tiled(cells, g, end) ==
    /\ \A o \in 0 .. end - 1 : Whole(cells, g, end, o)
    /\ \A o, p \in 0 .. end - 1 : p < o /\ cells[o].part = 0 => cells[p].id < cells[o].id

\* How much of the active segment is on the medium for good.
FlushedTo == IF write_buf = <<>> THEN active_write_offset ELSE write_buf_offset

\* A reader of the active segment finds entries up to the offset that appends have
\* reached.  Between its write and its account an entry is on the medium behind it.
Underway(names, done) == Has(names) /\ ~Has(done)
ActiveTiles ==
    Tiled(Overlay(active_segment.slot), active_segment.generation, active_write_offset)
BufferTiles ==
    write_buf # <<>> =>
        /\ write_buf_offset + Len(write_buf) = active_write_offset
        /\ write_buf[1].part = 0
FlushTiles ==
    Underway({"flushed"}, {"write_buffer"}) =>
        \A k \in DOMAIN write_buf :
            data[active_segment.slot][write_buf_offset + k - 1] = write_buf[k]
ReservedTiles ==
    Underway({"account"}, {"reserve"}) =>
        /\ state.newest_entry_id # 0
        /\ \A o \in 0 .. active_write_offset - 1 :
              Overlay(active_segment.slot)[o].id < state.newest_entry_id
WrittenTiles ==
    Underway({"account"}, {"write_entry"}) =>
        \A x \in Pending : x[1] = "account" =>
            \A k \in 1 .. x[2] :
                data[active_segment.slot][active_write_offset + k - 1]
                    = EntryCells(state.newest_entry_id, active_segment.generation, x[2])[k]
AccountedTiles ==
    Underway({"acknowledge"}, {"account"}) =>
        /\ active_write_offset > 0
        /\ data[active_segment.slot][active_write_offset - 1].id = state.newest_entry_id
TilesInv ==
    Working =>
        /\ ActiveTiles /\ BufferTiles /\ FlushTiles
        /\ ReservedTiles /\ WrittenTiles /\ AccountedTiles

-----------------------------------------------------------------------------
(* Entries reported durable.                                               *)

\* The place of an entry among those that a scan of its slot finds.
Held(a, o) ==
    LET s == Home(a.generation) IN
    /\ o \in ScannedEntries(s, a.generation)
    /\ data[s][o].id = a.id
    /\ \A c \in Copies : FooterValid(s, a.generation, c) => o < footers[s][c].data_end
    /\ Working /\ a.generation = active_segment.generation => o < FlushedTo

\* The segment of an entry reported durable is retained, on the medium and, once it is
\* recovered, in memory.
OnRing(a) ==
    LET s == Home(a.generation) IN
    /\ a.generation # 0
    /\ a.generation >= checkpoint.oldest_generation
    /\ HeaderReadable(s)
    /\ HeaderGeneration(s) = a.generation
    /\ ~Choosing /\ ~Has({"select"}) =>
          segments[s].valid /\ segments[s].generation = a.generation

KeptInv == \A a \in acked : OnRing(a)
AckedInv == \A a \in acked : \E o \in Offsets : Held(a, o)

\* No footer is of a generation that is still to be given out.
FootersUpTo(g) ==
    \A s \in Slots, c \in Copies : footers[s][c] # Garbage => footers[s][c].generation <= g

\* A recovered segment with a footer is sealed, or being sealed again.
Resealed(s) ==
    segments[s].valid /\ ~segments[s].sealed /\ HasFooter(s, segments[s].generation)
        => Has(Sealing) /\ active_segment.slot = s

\* The active segment is not sealed before the last of its entries is flushed, and no
\* entry follows its footer.
SealSequence == Has(Sealing) => Has({"sealed"}) /\ Has({"open_next", "select"})
SealNumbers ==
    /\ Choosing => \E s \in Slots : \E g \in HeaderGenerations(s) : Upcoming(g + 1) /\ FootersUpTo(g)
    /\ ~Choosing => FootersUpTo(state.next_generation - 1)
SealRecovery == Has({"select"}) => \A s \in Slots : <<"recover", s>> \in Pending \/ Resealed(s)
SealActive ==
    Working /\ HasFooter(active_segment.slot, active_segment.generation) =>
        Has(Sealing) /\ write_buf = <<>>
SealInv == SealSequence /\ SealNumbers /\ SealRecovery /\ SealActive

-----------------------------------------------------------------------------
(* Damaged data.                                                           *)

\* A cell of an entry reported durable is lost only behind two footers, of which a
\* repair needs the data it is about to seal again.
FullySealed(s, g) == \A c \in Copies : FooterValid(s, g, c)
Placed(a, o) ==
    LET s == Home(a.generation) IN
    /\ data[s][o] # Garbage =>
          /\ data[s][o].id = a.id
          /\ data[s][o].generation = a.generation
          /\ data[s][o].part = 0
    /\ \A c \in Copies : FooterValid(s, a.generation, c) => o < footers[s][c].data_end
    /\ ~FullySealed(s, a.generation) \/ (Working /\ a.generation = active_segment.generation)
          => Held(a, o)
PlacedInv == \A a \in acked : \E o \in Offsets : Placed(a, o)

\* The descriptor d sums the entries in the cells up to the offset end, and the active
\* descriptor those up to the offset that appends have reached.
SumsUp(d, cells, end) ==
    IF end = 0 THEN d.entry_count = 0
    ELSE /\ d.entry_count # 0
         /\ d.first_entry_id = cells[0].id
         /\ d.last_entry_id = cells[end - 1].id
SumsInv ==
    Working =>
        SumsUp(segments[active_segment.slot], Overlay(active_segment.slot), active_write_offset)

\* The id lies in the range of a descriptor or footer.
Covers(d, id) == d.entry_count # 0 /\ d.first_entry_id <= id /\ id <= d.last_entry_id
Read(s) ==
    /\ mode # "off"
    /\ <<"recover", s>> \notin Pending \/ (Working /\ active_segment.slot = s)
CoveredInv ==
    \A a \in acked :
        LET s == Home(a.generation) IN
        /\ \A c \in Copies : FooterValid(s, a.generation, c) => Covers(footers[s][c], a.id)
        /\ Read(s) => Covers(segments[s], a.id)

-----------------------------------------------------------------------------
(* What a reader relies on.                                                *)

\* The entries that start in front of an offset, and every IndexStride-th of them.
Starts(cells, end)  == {o \in 0 .. end - 1 : cells[o].part = 0}
Indexed(cells, end) ==
    {o \in Starts(cells, end) : Cardinality(Starts(cells, o)) % IndexStride = 0}
IndexOf(cells, end) == {cells[o].id : o \in Indexed(cells, end)}

\* The descriptor or footer d counts the entries up to the offset end, and items are
\* those of their sparse index.
Tallied(d, items, cells, end) ==
    /\ d.entry_count = Cardinality(Starts(cells, end))
    /\ d.entry_count = 0 => d.last_entry_id = 0
    /\ items = IndexOf(cells, end)

\* The active segment is open, and its descriptor and sparse index tell its entries.
TallyInv ==
    Working =>
        /\ ~segments[active_segment.slot].sealed
        /\ segments[active_segment.slot].index_count = Cardinality(sparse_index)
        /\ Tallied(segments[active_segment.slot], sparse_index,
                   Overlay(active_segment.slot), active_write_offset)

\* So does every valid footer of the generation of a retained slot.
FooterTrue(s, g, f) ==
    /\ f.data_end <= Capacity
    /\ Tiled(data[s], g, f.data_end)
    /\ SumsUp(f, data[s], f.data_end)
    /\ Tallied(f, f.index, data[s], f.data_end)
FooterInv ==
    \A s \in Slots, c \in Copies :
        Live(s) /\ FooterValid(s, HeaderGeneration(s), c)
            => FooterTrue(s, HeaderGeneration(s), footers[s][c])

\* Sealing writes the index before the footers, and the second footer last.
WrittenInv ==
    Has(Sealing) =>
        /\ Has({"write_index"}) \/ sparse_index = {} \/ index[active_segment.slot] = sparse_index
        /\ <<"footer", 1>> \in Pending \/ footers[active_segment.slot][1] = ActiveFooter

\* A sealed descriptor is that of the footer of the segment, whose index is in place.
Listed(s) ==
    LET g == segments[s].generation IN
    /\ HeaderReadable(s) /\ HeaderGeneration(s) = g
    /\ HasFooter(s, g)
    /\ SealedSegment(Footer(s, g)) = segments[s]
    /\ IndexValid(s, Footer(s, g))
ListedInv ==
    mode # "off" => \A s \in Slots :
        segments[s].valid /\ segments[s].sealed => <<"recover", s>> \in Pending \/ Listed(s)

\* Only the active segment is open: recovery seals the others first, and so does a
\* rotation with the segment that it leaves.
Closed(s)  == ~segments[s].valid \/ segments[s].sealed
Closing(s) == Has(Sealing) /\ active_segment.slot = s
Open(s)    ==
    IF Has({"select"})
    THEN s = state.active_slot \/ <<"seal_recovered", s>> \in Pending \/ Closing(s)
    ELSE s = active_segment.slot
OpenInv ==
    /\ Has({"highest"}) => \A s \in Slots : <<"seal_recovered", s>> \in Pending
    /\ mode # "off" /\ ~Has({"highest"}) => \A s \in Slots : Closed(s) \/ Open(s)
    /\ Has(Rotation) /\ ~Has(Sealing) => Closed(active_segment.slot)

=============================================================================
