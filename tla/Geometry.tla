------------------------------- MODULE Geometry -------------------------------
(***************************************************************************)
(* The layout of a segment file in bytes (on9rstore_segment.cpp,           *)
(* calculate_segment_geometry; on9rstore_defs.hpp) and how appends fill    *)
(* it: the offset of the next entry, the count of entries and the count of *)
(* sparse index items, which has a limit of its own.  The other modules    *)
(* count in units; this one has the numbers of the code.                   *)
(***************************************************************************)
EXTENDS Integers

CONSTANTS
    SegmentSizes,  \* CONFIG_ON9RSTORE_SPARSE_FILE_SIZE
    Payloads       \* the payload lengths of the entries

\* The range of Kconfig:6.  add_sparse_index_entry_unsafe also drops items whose offset
\* does not fit 32 bits (entry.cpp:71), which no file of this size has.
ASSUME SizeAssumption == SegmentSizes \subseteq Nat
ASSUME RangeAssumption == \A s \in SegmentSizes : 65536 <= s /\ s <= 2147483647
ASSUME PayloadAssumption == Payloads \subseteq Nat

HeaderRegion == 2 * 4096
FooterRegion == 2 * 4096
SlotSize == 4096
IndexItem == 24
Stride == 64
AlignUp(val, align) == ((val + (align - 1)) \div align) * align
EntrySize(len) == AlignUp(40 + len + 4, 4)
MinEntrySize == EntrySize(0)

VARIABLES size, write_offset, entry_count, index_count
layout == <<size, write_offset, entry_count, index_count>>

-----------------------------------------------------------------------------
(* calculate_segment_geometry.                                             *)

Available(s) == s - HeaderRegion - FooterRegion
IndexCapacity(s) == (Available(s) \div MinEntrySize) \div Stride + 1
IndexSize(s) == AlignUp(IndexCapacity(s) * IndexItem, SlotSize)
DataStart == HeaderRegion
FooterStart(s) == s - FooterRegion
IndexStartAtEnd(s) == s - IndexSize(s)
IndexStart(s) == FooterStart(s) - IndexSize(s)
DataEnd(s) == IndexStart(s)
Valid(s) ==
    /\ s % SlotSize = 0
    /\ s > HeaderRegion + FooterRegion
    /\ IndexSize(s) < Available(s)
    /\ DataEnd(s) > DataStart + MinEntrySize

-----------------------------------------------------------------------------

\* activate_segment_unsafe.
LayoutInit ==
    /\ size \in {s \in SegmentSizes : Valid(s)}
    /\ write_offset = DataStart /\ entry_count = 0 /\ index_count = 0

\* account_appended_entry_unsafe and add_sparse_index_entry_unsafe, which does nothing
\* when the index is full.
IndexesNextLate == entry_count % Stride = Stride - 1
IndexesNext == entry_count % Stride = 0
Account(entry_size) ==
    /\ entry_count' = entry_count + 1
    /\ write_offset' = write_offset + entry_size
    /\ index_count' = IF IndexesNext /\ index_count < IndexCapacity(size)
                      THEN index_count + 1 ELSE index_count
    /\ UNCHANGED size

\* prepare_entry_space_unsafe: an entry that does not fit opens the next segment.
HasSpaceInFile(entry_size) == entry_size <= size - write_offset
HasSpace(entry_size) == entry_size <= DataEnd(size) - write_offset

Append ==
    \E len \in Payloads :
        /\ HasSpace(EntrySize(len))
        /\ Account(EntrySize(len))

Rotate ==
    /\ \E len \in Payloads :
          /\ EntrySize(len) <= DataEnd(size) - DataStart
          /\ ~HasSpace(EntrySize(len))
    /\ write_offset' = DataStart /\ entry_count' = 0 /\ index_count' = 0
    /\ UNCHANGED size

LayoutNext == Append \/ Rotate
LayoutSpec == LayoutInit /\ [][LayoutNext]_layout

-----------------------------------------------------------------------------
(* Properties.                                                             *)

LayoutTypeOK ==
    /\ size \in SegmentSizes
    /\ write_offset \in DataStart .. FooterStart(size)
    /\ entry_count \in Nat /\ index_count \in 0 .. IndexCapacity(size)

\* Entries, index and footers never reach into each other, however long a segment is
\* appended to: the entries end before the index region, and the items written
\* at a seal end before the footers (segment.cpp:9, segment.cpp:592).
RegionsDisjoint ==
    /\ DataStart <= write_offset /\ write_offset <= DataEnd(size)
    /\ DataEnd(size) <= IndexStart(size)
    /\ IndexStart(size) + index_count * IndexItem <= FooterStart(size)

\* Whenever the segment is sealed, its footer passes is_segment_footer_valid
\* (segment.cpp:251-279).  The footer check derives the number of index items from
\* the number of entries, so an index with room for one item too few would make
\* every full segment lose its seal.
FooterAccepted ==
    /\ write_offset <= DataEnd(size)
    /\ IF entry_count = 0 THEN index_count = 0 /\ write_offset = DataStart
       ELSE index_count = (entry_count - 1) \div Stride + 1
=============================================================================
