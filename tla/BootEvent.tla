------------------------------- MODULE BootEvent -------------------------------
(***************************************************************************)
(* The boot event that ends init() and the copy of the ESP-IDF coredump    *)
(* that may go with it (on9rstore_entry.cpp, append_boot_entry_unsafe and  *)
(* what it calls).  The flash partition holds one image; the manifest      *)
(* holds the size and CRC, here the identity, of the image stored last.    *)
(* An image that differs is streamed into a boot event; when that fails,   *)
(* an ordinary boot event follows.                                         *)
(*                                                                         *)
(* A segment is the space its entries take and the boot events it holds.   *)
(* Writes that no fsync followed may be on the medium or not; so may a     *)
(* superblock whose commit failed.  A rotation succeeds or is cut off by   *)
(* the power: SegmentStore has the rotations that fail.                    *)
(***************************************************************************)
EXTENDS Integers, Sequences, FiniteSets

CONSTANTS
    Capacity,      \* the data area of a segment, in units of an ordinary boot event
    SegmentCount,  \* segment_count
    Images,        \* the coredump images
    ImageSize,     \* the size of the boot event that carries an image
    NoImage,       \* the partition holds no image; a fingerprint of zeroes
    MaxErrors,     \* bound on the I/O errors of a run
    MaxBoot        \* bound on the boots of a run

ASSUME CapacityAssumption == Capacity \in Nat \ {0} /\ SegmentCount \in Nat /\ SegmentCount >= 2
ASSUME ImageAssumption == NoImage \notin Images /\ ImageSize \in [Images -> Nat \ {0, 1}]
ASSUME BoundAssumption == MaxErrors \in Nat /\ MaxBoot \in Nat

VARIABLES
    \* Outside the store.
    image,        \* the image in the coredump partition
    \* On the medium.
    segments,     \* the retained segments, the active one last
    landed,       \* boot events of which one may be whole at the write offset
    manifest,     \* boot counter and fingerprint of the newest superblock
    \* In memory.
    phase,        \* where init() is; "off" without power, "ready" when it returned OK
    boot,         \* state.boot_counter
    fingerprint,  \* state.coredump_crc32 and coredump_size
    \* Ghosts.
    copies,       \* how many boot events with an image became durable
    cut,          \* inits that did not return OK
    clean,        \* has this init met no I/O error?
    errors        \* I/O errors so far

medium == <<segments, landed, manifest>>
memory == <<phase, boot, fingerprint>>
vars == <<image, medium, memory, copies, cut, clean, errors>>

Ordinary == [boot |-> boot, image |-> NoImage]
Carrying == [boot |-> boot, image |-> image]
Size(event) == IF event.image = NoImage THEN 1 ELSE ImageSize[event.image]

Empty == [used |-> 0, events |-> {}]
Active(segs) == segs[Len(segs)]
With(segs, event) ==
    [segs EXCEPT ![Len(segs)] = [used |-> @.used + Size(event), events |-> @.events \cup {event}]]

\* rotate_active_segment_unsafe: a new segment, for which the oldest one goes.
Rotated(segs) ==
    LET longer == Append(segs, Empty) IN
    IF Len(longer) > SegmentCount THEN Tail(longer) ELSE longer

\* prepare_entry_space_unsafe.
HasSpaceToEnd(size) == Active(segments).used < Capacity
HasSpace(size) == size <= Capacity - Active(segments).used
PrepareSpace(size) ==
    IF HasSpace(size) THEN UNCHANGED <<segments, landed>>
    ELSE segments' = Rotated(segments) /\ landed' = {}

NoCopy == [i \in Images |-> 0]
Counted(event) ==
    IF event.image = NoImage THEN copies ELSE [copies EXCEPT ![event.image] = @ + 1]

\* A call of the file system fails.
Error ==
    /\ errors < MaxErrors
    /\ errors' = errors + 1 /\ clean' = FALSE
NoError == UNCHANGED <<errors, clean>>

-----------------------------------------------------------------------------

Init ==
    /\ image = NoImage
    /\ segments = <<Empty>> /\ landed = {}
    /\ manifest = [boot |-> 0, image |-> NoImage]
    /\ phase = "off" /\ boot = 0 /\ fingerprint = NoImage
    /\ copies = NoCopy /\ cut = 0 /\ clean = TRUE /\ errors = 0

\* Recovery finds what landed; finish_initialisation commits the boot counter.
Start ==
    /\ phase = "off" /\ manifest.boot < MaxBoot
    /\ \/ UNCHANGED <<segments, copies>>
       \/ \E event \in landed :
             segments' = With(segments, event) /\ copies' = Counted(event)
    /\ landed' = {}
    /\ boot' = manifest.boot + 1 /\ fingerprint' = manifest.image
    /\ manifest' = [manifest EXCEPT !.boot = manifest.boot + 1]
    /\ phase' = "check" /\ clean' = TRUE
    /\ UNCHANGED <<image, cut, errors>>

\* append_boot_entry_unsafe: is there an image whose fingerprint is not the last one?
\* Reading the partition may fail.
IsNewAlways == image # NoImage
IsNewFirst == image # NoImage /\ fingerprint = NoImage
IsNew == image # NoImage /\ fingerprint # image
CheckImage ==
    /\ phase = "check"
    /\ \/ /\ phase' = IF IsNew THEN "image" ELSE "ordinary"
          /\ NoError
       \/ image # NoImage /\ Error /\ phase' = "ordinary"
    /\ UNCHANGED <<image, medium, boot, fingerprint, copies, cut>>

\* append_coredump_entry_unsafe: space for the entry; one that no segment can hold is refused.
PrepareImage ==
    /\ phase = "image"
    /\ IF Size(Carrying) > Capacity
       THEN phase' = "ordinary" /\ UNCHANGED <<segments, landed>>
       ELSE phase' = "stream" /\ PrepareSpace(Size(Carrying))
    /\ NoError
    /\ UNCHANGED <<image, manifest, boot, fingerprint, copies, cut>>

\* Header, event, chunks and trailer.  Without the last of them the entry is
\* not whole, but a write that is reported to fail may have been done.
StreamImage ==
    /\ phase = "stream"
    /\ \/ landed' = {Carrying} /\ phase' = "sync" /\ NoError
       \/ landed' \in {landed, {Carrying}} /\ phase' = "ordinary" /\ Error
    /\ UNCHANGED <<image, segments, manifest, boot, fingerprint, copies, cut>>

\* sync_fd, account_appended_entry_unsafe and the new fingerprint in memory.
SyncImage ==
    /\ phase = "sync"
    /\ \/ /\ segments' = With(segments, Carrying) /\ copies' = Counted(Carrying)
          /\ landed' = {} /\ fingerprint' = image
          /\ phase' = "commit" /\ NoError
       \/ /\ phase' = "ordinary" /\ Error
          /\ UNCHANGED <<segments, copies, landed, fingerprint>>
    /\ UNCHANGED <<image, manifest, boot, cut>>

\* commit_manifest_superblock_unsafe.
CommittedPartition == [boot |-> boot, image |-> image]
Committed == [boot |-> boot, image |-> fingerprint]
CommitImageGoesOn ==
    /\ phase = "commit"
    /\ manifest' = Committed /\ phase' = "ordinary" /\ NoError
    /\ UNCHANGED <<image, segments, landed, boot, fingerprint, copies, cut>>
CommitImage ==
    /\ phase = "commit"
    /\ \/ manifest' = Committed /\ phase' = "ready" /\ NoError
       \/ manifest' \in {manifest, Committed} /\ phase' = "ordinary" /\ Error
    /\ UNCHANGED <<image, segments, landed, boot, fingerprint, copies, cut>>

\* append_entry_unsafe with force_flush: space, then flush_unsafe.
PrepareOrdinary ==
    /\ phase = "ordinary"
    /\ PrepareSpace(1)
    /\ phase' = "flush"
    /\ NoError
    /\ UNCHANGED <<image, manifest, boot, fingerprint, copies, cut>>

\* The entry is written over whatever an image left at the write offset.
FlushOrdinary ==
    /\ phase = "flush"
    /\ \/ /\ segments' = With(segments, Ordinary) /\ landed' = {}
          /\ phase' = "commit_ordinary" /\ NoError
          /\ UNCHANGED cut
       \/ /\ landed' \in {landed, landed \cup {Ordinary}}
          /\ phase' = "off" /\ Error
          /\ cut' = cut + 1
          /\ UNCHANGED segments
    /\ UNCHANGED <<image, manifest, boot, fingerprint, copies>>

CommitOrdinary ==
    /\ phase = "commit_ordinary"
    /\ \/ manifest' = Committed /\ phase' = "ready" /\ NoError /\ UNCHANGED cut
       \/ /\ manifest' \in {manifest, Committed}
          /\ phase' = "off" /\ Error
          /\ cut' = cut + 1
    /\ UNCHANGED <<image, segments, landed, boot, fingerprint, copies>>

\* append_entry by the application takes space.
AppendEntry ==
    /\ phase = "ready"
    /\ LET segs == IF HasSpace(1) THEN segments ELSE Rotated(segments) IN
       segments' = [segs EXCEPT ![Len(segs)].used = @ + 1]
    /\ UNCHANGED <<image, landed, manifest, memory, copies, cut, clean, errors>>

\* The power fails or the firmware panics, which writes a new image.  In the middle of
\* a flush the entry may have landed, and in the middle of a commit the superblock.
Landing ==
    IF phase = "flush" THEN {landed, landed \cup {Ordinary}}
    ELSE IF phase = "stream" THEN {landed, {Carrying}} ELSE {landed}
Superblocks ==
    IF phase \in {"commit", "commit_ordinary"} THEN {manifest, Committed} ELSE {manifest}
Stop ==
    /\ phase # "off"
    /\ image' \in {image} \cup Images
    /\ landed' \in Landing
    /\ manifest' \in Superblocks
    /\ phase' = "off"
    /\ cut' = IF phase = "ready" THEN cut ELSE cut + 1
    /\ UNCHANGED <<segments, boot, fingerprint, copies, clean, errors>>

Next ==
    \/ Start \/ CheckImage \/ PrepareImage \/ StreamImage \/ SyncImage \/ CommitImage
    \/ PrepareOrdinary \/ FlushOrdinary \/ CommitOrdinary \/ AppendEntry \/ Stop

Spec == Init /\ [][Next]_vars

-----------------------------------------------------------------------------
(* Properties.                                                             *)

Event == [boot : Nat, image : Images \cup {NoImage}]
Segment == [used : 0 .. Capacity, events : SUBSET Event]

\* In particular no entry reaches beyond the data area of its segment.
TypeOK ==
    /\ image \in Images \cup {NoImage}
    /\ segments \in Seq(Segment) /\ Len(segments) \in 1 .. SegmentCount
    /\ landed \subseteq Event
    /\ manifest \in [boot : Nat, image : Images \cup {NoImage}]
    /\ phase \in {"off", "check", "image", "stream", "sync", "commit",
                  "ordinary", "flush", "commit_ordinary", "ready"}
    /\ boot \in Nat /\ fingerprint \in Images \cup {NoImage}
    /\ copies \in [Images -> Nat] /\ cut \in Nat /\ clean \in BOOLEAN /\ errors \in Nat

\* The manifest never claims an image that was not stored: its fingerprint belongs to
\* a boot event that was whole on the medium, whichever writes the power or an
\* error cut off.  A claim without a copy would make every later boot skip the
\* image, and the coredump would be lost (entry.cpp:473).
FingerprintBacked == manifest.image # NoImage => copies[manifest.image] > 0

\* A boot whose init() returned OK has a boot event, and a second one only if
\* writing the image into the first met an error (README.md:497, entry.cpp:474-481).
Events(segs) == UNION {segs[s].events : s \in 1 .. Len(segs)}
BootEventAppended ==
    [][(phase # "ready" /\ phase' = "ready") =>
           LET events == {e \in Events(segments') : e.boot = boot} IN
           IF clean THEN Cardinality(events) = 1
           ELSE Cardinality(events) = 1 \/ events = {Ordinary, Carrying}]_vars

\* An init() that meets no error leaves the image of the partition stored, unless
\* no segment can hold it (README.md:498).
ImageStored ==
    [][(phase # "ready" /\ phase' = "ready" /\ clean /\ image # NoImage) =>
           copies'[image] > 0 \/ ImageSize[image] > Capacity]_vars

\* Once a superblock names an image, no boot stores that image again before another
\* one is stored, over any sequence of errors and power losses.
NotStoredAgain ==
    [][\A i \in Images : manifest.image = i => copies'[i] = copies[i]]_vars
=============================================================================
