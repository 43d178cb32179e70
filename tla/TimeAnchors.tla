------------------------------ MODULE TimeAnchors ------------------------------
(***************************************************************************)
(* The ring of time anchors in manifest.db and the catalog of epochs that  *)
(* init() and append_time_anchor() compute from it (on9rstore_manifest.cpp)*)
(* An anchor says which UTC a moment of one boot's uptime was, and may     *)
(* replace an earlier anchor of that boot.  A slot of the ring is reused   *)
(* only when no retained segment holds its boot, so the module also has    *)
(* what decides retention: which boots a segment holds, rotations,         *)
(* retirements and restarts.  A segment is known by its generation; the    *)
(* slot it occupies is reused SegmentCount generations later.  Entries     *)
(* count as soon as they are appended: init() flushes the boot event, and  *)
(* a rotation the buffer, before a segment is retired.                     *)
(***************************************************************************)
EXTENDS TimeTranslation

CONSTANTS
    TimeAnchorCount,  \* CONFIG_ON9RSTORE_TIME_ANCHOR_COUNT
    SegmentCount,     \* segment_count
    Measured,         \* the uptimes that callers measure
    Faults,           \* the calls whose I/O may fail: "anchor", "retire"
    MaxErrors,        \* bound on the I/O errors of a run
    MaxSequence,      \* bound on the anchor sequences of a run
    MaxBoot,          \* bound on the boots of a run
    MaxGeneration,    \* bound on the segment generations of a run
    Garbage           \* a slot that is_time_anchor_valid refuses

ASSUME CountAssumption == TimeAnchorCount \in Nat /\ TimeAnchorCount >= 1
ASSUME SegmentCountAssumption == SegmentCount \in Nat /\ SegmentCount >= 2
ASSUME MeasuredAssumption == Measured \subseteq 0 .. MaxTime
ASSUME FaultsAssumption == Faults \subseteq {"anchor", "retire"}
ASSUME BoundAssumption ==
    {MaxErrors, MaxSequence, MaxBoot, MaxGeneration} \subseteq Nat /\ MaxGeneration >= 1

Slots == 0 .. TimeAnchorCount - 1
Generations == 1 .. MaxGeneration
Anchor == [sequence : Nat, boot : Nat, mono : Nat, replace : Nat]
ASSUME GarbageAssumption == Garbage \notin Anchor

VARIABLES
    \* On the medium.
    ring,         \* the anchor slots
    spans,        \* the first and last boot of the entries of each segment
    newest,       \* the newest segment generation on the medium
    checkpoint,   \* oldest retained generation and boot counter, in the superblock
    \* In memory.
    open,         \* is the store initialised?
    oldest,       \* the oldest generation with a valid descriptor
    boot,         \* state.boot_counter
    next_time_anchor_sequence,
    time_anchor_write_index,
    catalog,      \* time_model_epochs
    rotating,     \* has the rotation in progress retired the oldest segment?
    \* Ghosts.
    issued,       \* the sequence of the last append that returned ESP_OK
    doubtful,     \* did an append fail at the ring since init() loaded it?
    errors        \* I/O errors so far

medium == <<ring, spans, newest, checkpoint>>
anchors == <<ring, next_time_anchor_sequence, time_anchor_write_index, catalog>>
segments == <<spans, newest, checkpoint, oldest, rotating>>
vars == <<medium, open, oldest, boot, next_time_anchor_sequence, time_anchor_write_index,
          catalog, rotating, issued, doubtful, errors>>

-----------------------------------------------------------------------------
(* The catalog of a ring r.                                                *)

Valid(r) == {r[slot] : slot \in Slots} \ {Garbage}
Named(r, sequence) == {a \in Valid(r) : a.sequence = sequence}

\* resolve_time_model_replacements: the anchor at the head of the chain of
\* replacements that sequence ends, or 0 if the chain is broken.
RootSequence(r) ==
    LET root[sequence \in Nat] ==
            IF Named(r, sequence) = {} THEN 0
            ELSE LET a == CHOOSE a \in Named(r, sequence) : TRUE IN
                 IF a.replace = 0 THEN sequence
                 ELSE IF \E target \in Named(r, a.replace) :
                            target.boot = a.boot /\ target.sequence < sequence
                 THEN root[a.replace] ELSE 0
    IN root

\* The anchors in effect: the newest of each chain.
Effective(r) ==
    LET root == RootSequence(r) IN
    {a \in Valid(r) : /\ root[a.sequence] # 0
                      /\ \A b \in Valid(r) : b.boot = a.boot /\ root[b.sequence] = root[a.sequence]
                             => b.sequence <= a.sequence}

\* compact_and_sort_time_model_epochs: an epoch begins where the head of its chain
\* was measured, and the newest of those that begin together counts.
Begins(r) ==
    LET root == RootSequence(r)
        begin(a) == (CHOOSE head \in Named(r, root[a.sequence]) : TRUE).mono
        epochs == {[boot |-> a.boot, begin |-> begin(a), anchor |-> a] : a \in Effective(r)}
    IN {e \in epochs : \A other \in epochs :
            other.boot = e.boot /\ other.begin = e.begin => other.anchor.sequence <= e.anchor.sequence}

\* set_time_model_epoch_bounds: from the begin of an epoch, or 0, up to the next.
Later(begins, e) == {other \in begins : other.boot = e.boot /\ other.begin > e.begin}
Earlier(begins, e) == {other \in begins : other.boot = e.boot /\ other.begin < e.begin}
Following(begins, e) ==
    CHOOSE other \in Later(begins, e) : \A o \in Later(begins, e) : other.begin <= o.begin
EpochFirst(begins, e) == IF Earlier(begins, e) = {} THEN 0 ELSE e.begin
EpochLastInclusive(begins, e) ==
    IF Later(begins, e) = {} THEN MaxTime ELSE Following(begins, e).begin
EpochLast(begins, e) ==
    IF Later(begins, e) = {} THEN MaxTime ELSE Following(begins, e).begin - 1
Bounded(begins) ==
    {[boot |-> e.boot, anchor |-> e.anchor,
      first |-> EpochFirst(begins, e), last |-> EpochLast(begins, e)] : e \in begins}

Catalog(r) == Bounded(Begins(r))

\* load_time_model_catalog.
NewestSequenceOfLastSlot(r) ==
    IF Valid(r) = {} THEN 0
    ELSE LET slot == CHOOSE slot \in Slots :
                 r[slot] # Garbage /\ \A other \in Slots : r[other] # Garbage => other <= slot
         IN r[slot].sequence
NewestSequence(r) ==
    IF Valid(r) = {} THEN 0
    ELSE (CHOOSE a \in Valid(r) : \A b \in Valid(r) : b.sequence <= a.sequence).sequence

SlotAfterSame(slot) == slot
SlotAfterUnwrapped(slot) == slot + 1
SlotAfter(slot) == (slot + 1) % TimeAnchorCount

LoadCatalog(r) ==
    /\ catalog' = Catalog(r)
    /\ next_time_anchor_sequence' = NewestSequence(r)
    /\ time_anchor_write_index' =
           IF Valid(r) = {} THEN 0
           ELSE SlotAfter(CHOOSE slot \in Slots :
                              r[slot] # Garbage /\ r[slot].sequence = NewestSequence(r))

-----------------------------------------------------------------------------
(* Retention.                                                              *)

NoSpan == [first |-> 0, last |-> 0]
WithBoot(span, b) == IF span = NoSpan THEN [first |-> b, last |-> b] ELSE [span EXCEPT !.last = b]

Holds(generation, b) ==
    spans[generation] # NoSpan /\ b \in spans[generation].first .. spans[generation].last

\* is_retained_boot, on the descriptors in memory.
IsRetainedBoot(b) == \E generation \in oldest .. newest : Holds(generation, b)

\* What recover_one_segment would retain: what is still on the medium and not
\* below the durable retention floor.
Larger(x, y) == IF x >= y THEN x ELSE y
RecoveredOldest == Larger(checkpoint.oldest, newest + 1 - SegmentCount)
IsDurableBoot(b) == \E generation \in RecoveredOldest .. newest : Holds(generation, b)

-----------------------------------------------------------------------------

Init ==
    /\ ring = [slot \in Slots |-> Garbage]
    /\ spans = [generation \in Generations |-> NoSpan]
    /\ newest = 1 /\ checkpoint = [oldest |-> 1, boot |-> 0]
    /\ open = FALSE /\ oldest = 1 /\ boot = 0
    /\ next_time_anchor_sequence = 0 /\ time_anchor_write_index = 0
    /\ catalog = {} /\ rotating = FALSE
    /\ issued = 0 /\ doubtful = FALSE /\ errors = 0

\* init(): recovery, recover_time_anchor_ring, the next boot counter and the boot
\* event, or all but the boot event, when the power fails first.
Start ==
    /\ ~open /\ checkpoint.boot < MaxBoot
    /\ LoadCatalog(ring)
    /\ oldest' = RecoveredOldest
    /\ boot' = checkpoint.boot + 1
    /\ checkpoint' = [oldest |-> RecoveredOldest, boot |-> checkpoint.boot + 1]
    /\ \/ open' = TRUE /\ spans' = [spans EXCEPT ![newest] = WithBoot(@, checkpoint.boot + 1)]
       \/ open' = FALSE /\ UNCHANGED spans
    /\ rotating' = FALSE /\ doubtful' = FALSE
    /\ UNCHANGED <<ring, newest, issued, errors>>

\* Power loss or deinit(); memory is dead until Start.
Stop ==
    /\ open
    /\ open' = FALSE
    /\ UNCHANGED <<medium, oldest, boot, next_time_anchor_sequence, time_anchor_write_index,
                   catalog, rotating, issued, doubtful, errors>>

\* append_entry.
AppendEntry ==
    /\ open /\ ~rotating
    /\ spans' = [spans EXCEPT ![newest] = WithBoot(@, boot)]
    /\ UNCHANGED <<anchors, newest, checkpoint, open, oldest, boot, rotating, issued, doubtful, errors>>

\* retire_segment_unsafe.  The descriptor goes before the commit, which may fail.
Retire ==
    /\ open /\ ~rotating /\ newest < MaxGeneration
    /\ spans[newest] # NoSpan
    /\ oldest' = Larger(oldest, newest + 2 - SegmentCount)
    /\ \/ /\ checkpoint' = [checkpoint EXCEPT !.oldest = oldest']
          /\ rotating' = TRUE
          /\ UNCHANGED errors
       \/ /\ "retire" \in Faults /\ errors < MaxErrors
          /\ oldest' # oldest
          /\ errors' = errors + 1
          /\ UNCHANGED <<checkpoint, rotating>>
    /\ UNCHANGED <<anchors, spans, newest, open, boot, issued, doubtful>>

\* activate_segment_unsafe takes the slot of the retired segment.
Activate ==
    /\ open /\ rotating
    /\ newest' = newest + 1
    /\ rotating' = FALSE
    /\ UNCHANGED <<anchors, spans, checkpoint, open, oldest, boot, issued, doubtful, errors>>

\* append_time_anchor_unsafe: its checks, and the slot it writes.
ReplacementValid(replace) ==
    replace = 0 \/ \E target \in Named(ring, replace) : target.boot = boot

MayReuseOtherBoot(slot) == ring[slot] # Garbage => ring[slot].boot # boot
MayReuse(slot) == ring[slot] # Garbage => ~IsRetainedBoot(ring[slot].boot)

NewAnchor(mono, replace) ==
    [sequence |-> next_time_anchor_sequence + 1, boot |-> boot, mono |-> mono, replace |-> replace]

CanAppend(replace) ==
    /\ open /\ ~rotating
    /\ replace <= next_time_anchor_sequence
    /\ next_time_anchor_sequence < MaxSequence
    /\ ReplacementValid(replace)
    /\ MayReuse(time_anchor_write_index)

\* The commit that follows the write of the slot may fail; the anchor is then in
\* the catalog all the same.
AppendAnchor ==
    /\ \E mono \in Measured, replace \in 0 .. MaxSequence :
          /\ CanAppend(replace)
          /\ ring' = [ring EXCEPT ![time_anchor_write_index] = NewAnchor(mono, replace)]
    /\ LoadCatalog(ring')
    /\ \/ /\ issued' = next_time_anchor_sequence + 1
          /\ checkpoint' = [checkpoint EXCEPT !.oldest = oldest]
          /\ UNCHANGED errors
       \/ /\ "anchor" \in Faults /\ errors < MaxErrors
          /\ errors' = errors + 1
          /\ UNCHANGED <<issued, checkpoint>>
    /\ UNCHANGED <<spans, newest, open, oldest, boot, rotating, doubtful>>

\* The write of the slot is cut short, by a power loss or by an I/O error: the
\* slot holds what it held, garbage or the new anchor.
Unfinished ==
    /\ open /\ ~rotating
    /\ \E mono \in Measured, replace \in 0 .. MaxSequence :
          /\ CanAppend(replace)
          /\ \E left \in {Garbage, NewAnchor(mono, replace)} :
                ring' = [ring EXCEPT ![time_anchor_write_index] = left]
    /\ UNCHANGED <<spans, newest, checkpoint, oldest, boot, next_time_anchor_sequence,
                   time_anchor_write_index, catalog, rotating, issued>>

AppendCut == Unfinished /\ open' = FALSE /\ UNCHANGED <<doubtful, errors>>
AppendFails ==
    /\ "anchor" \in Faults /\ errors < MaxErrors
    /\ Unfinished
    /\ doubtful' = TRUE /\ errors' = errors + 1
    /\ UNCHANGED open

\* The slot is written, but load_time_model_catalog cannot read the ring back: the
\* catalog is left empty, the counter and the write index where they were.
AppendUnread ==
    /\ "anchor" \in Faults /\ errors < MaxErrors
    /\ \E mono \in Measured, replace \in 0 .. MaxSequence :
          /\ CanAppend(replace)
          /\ ring' = [ring EXCEPT ![time_anchor_write_index] = NewAnchor(mono, replace)]
    /\ catalog' = {}
    /\ doubtful' = TRUE /\ errors' = errors + 1
    /\ UNCHANGED <<segments, open, boot, next_time_anchor_sequence, time_anchor_write_index, issued>>

Next ==
    \/ Start \/ Stop \/ AppendEntry \/ Retire \/ Activate
    \/ AppendAnchor \/ AppendCut \/ AppendFails \/ AppendUnread

Spec == Init /\ [][Next]_vars

-----------------------------------------------------------------------------
(* Properties.                                                             *)

Epoch == [boot : Nat, anchor : Anchor, first : Nat, last : Nat]
TypeOK ==
    /\ ring \in [Slots -> Anchor \cup {Garbage}]
    /\ spans \in [Generations -> [first : Nat, last : Nat]]
    /\ newest \in Nat \ {0}
    /\ checkpoint \in [oldest : Nat, boot : Nat]
    /\ open \in BOOLEAN /\ rotating \in BOOLEAN /\ doubtful \in BOOLEAN
    /\ oldest \in Nat /\ boot \in Nat
    /\ next_time_anchor_sequence \in Nat
    /\ time_anchor_write_index \in Slots
    /\ catalog \subseteq Epoch
    /\ issued \in Nat /\ errors \in Nat

\* An anchor goes only when no segment that the next init() would retain holds its
\* boot, whatever the interleaving of rotations, restarts and torn writes:
\* README.md:693, "preserves all anchor and replacement records for retained boots".
RetainedAnchorsKept ==
    [][\A slot \in Slots :
          (ring[slot] # Garbage /\ ring'[slot] # ring[slot]) => ~IsDurableBoot(ring[slot].boot)]_vars

\* The sequence of an anchor whose append returned ESP_OK is never given to a second
\* one: the counter comes from the ring alone (manifest.cpp:447), which may lose slots.
\* It takes a ring of at least two; with one slot the torn write of an anchor destroys
\* the only sequence that the counter could come from.
SequencesNotReused ==
    /\ open => issued <= next_time_anchor_sequence
    /\ \A s, t \in Slots :
          (s # t /\ ring[s] # Garbage /\ ring[t] # Garbage) => ring[s].sequence # ring[t].sequence

\* The epochs of a boot tile its uptime: each uptime of a boot with an epoch is in
\* exactly one (README.md:598).
Tiled(epochs) ==
    \A e \in epochs : \A uptime \in 0 .. MaxTime :
        \E only \in epochs :
            /\ only.boot = e.boot /\ uptime \in only.first .. only.last
            /\ \A other \in epochs :
                  (other.boot = e.boot /\ uptime \in other.first .. other.last) => other = only
EpochsTile == Tiled(catalog)

\* The clock of a retained boot changes only with a new anchor of that boot: not
\* because the ring took a slot back, a write was torn or the store restarted
\* and rebuilt the catalog from what is left (manifest.cpp:328).  The exception is an
\* append that cannot read the ring back: there is no clock from then on (CatalogLost)
\* until init() loads the catalog again (manifest.cpp:432).
ClockOf(b) == {e \in catalog : e.boot = b}
CatalogLost == catalog = {} /\ doubtful
ClocksStable ==
    [][\A b \in 1 .. MaxBoot :
          (IsDurableBoot(b) /\ IsDurableBoot(b)' /\ ClockOf(b)' # ClockOf(b)) =>
              \/ \E a \in Valid(ring') : a.boot = b /\ a.sequence > next_time_anchor_sequence
              \/ CatalogLost
              \/ CatalogLost' /\ errors' > errors]_vars

\* append_time_anchor refuses for want of a slot only when every slot holds an
\* anchor of a retained boot, or an append failed at the ring
\* (manifest.cpp:520; README.md:695).
RefusedOnlyWhenFull ==
    (open /\ ~rotating /\ ~MayReuse(time_anchor_write_index) /\ ~doubtful) =>
        \A slot \in Slots : ring[slot] # Garbage /\ IsRetainedBoot(ring[slot].boot)
=============================================================================
