# Formal models of on9rstore

`on9rstore` is an append-only log for ESP-IDF devices: a ring of preallocated
segment files and a manifest on a FAT file system. This directory holds TLA+
models of it, the TLC runs that check them on small instances and TLAPS proofs
that hold for every instance. Paths such as `segment.cpp:868` abbreviate
`src/on9rstore_segment.cpp:868`; `on9rstore.cpp` is `src/on9rstore.cpp` itself.

## The system

| Part | State it keeps | Operations | What makes it correct |
|---|---|---|---|
| Entry append and flush (`entry.cpp`) | `write_buf`, `write_buf_offset`, `active_write_offset`, the active descriptor and sparse index, boot counter and sequence | `append_entry` (buffered or direct), `flush_write`, the boot event | what was reported durable survives; ids only grow; the buffer stays inside the data area |
| Segment ring (`segment.cpp`) | `segments[]`, `active_segment`, `writer_fd`; on the medium two header copies, data, index, two footer copies per slot | seal, rotate (retire, activate) | a slot is reused only after a durable retirement; generations order ids |
| Recovery (`segment.cpp`) | the same, rebuilt from the medium | `recover_all_segments`, `repair_sealed_segment`, `seal_recovered_segment`, `select_or_create_active_segment` | no durable entry is lost; corruption is never taken for an end |
| Manifest (`manifest.cpp`) | `state`, two superblock slots in `manifest.db` | create, load, commit | atomic and durable; always loadable |
| Provisioning (`manifest.cpp`, `segment.cpp`, `io.cpp`) | the files themselves | `create_manifest`, `provision_all_segments` | can be interrupted anywhere; never takes another store's files |
| Life cycle and locks (`on9rstore.cpp`, `read.cpp`) | `initialized`, `shutting_down`, three mutexes | `init`, `deinit`, acquire and release | no use after close, no deadlock, readers pin what they read |
| Read operations (`read.cpp`) | copies of descriptors, index and buffer; cursors | `read_entry`, `read_next_entry*` | an indexed lookup finds what a linear scan would |
| Time anchors and UTC (`manifest.cpp`, `read.cpp`) | the anchor ring, the catalog | `append_time_anchor`, translation | anchors of retained boots are kept; the translation is in range |
| Coredump copy (`entry.cpp`) | its size and CRC in `state` | streamed boot event | stored once |
| Helpers (`io.cpp`, `defs.hpp`, geometry) | none | exact reads and writes, layout | layout arithmetic fits |

The public operations are called from any task. They take `lifecycle_lock`,
then `write_lock`, and the readers `read_lock` too; a reader copies the state
and gives `write_lock` back before it touches a file. Appends call the segment
ring (`prepare_entry_space_unsafe` rotates), the ring calls flush and the
manifest, and `init()` runs provisioning, recovery and then an append. What is
hard here: a power loss between any two writes or in the middle of one; an I/O
error after which the store goes on in memory that no longer matches the
medium; recovery that writes and can itself be interrupted; readers that
overlap rotations and `deinit()`. `PROJECT.json` lists these hazards at their
lines with the properties that cover them.

## Modules

- **`SegmentStore`** is the core: append, flush, seal, rotation, recovery,
  repair and the boot sequence over a medium with torn writes. The code runs
  under `write_lock`, so the module is one sequential program. A public
  operation is a list of steps, `todo`, the continuation of the nested C++
  calls: calling puts the callee's steps in front (`Call`), returning drops the
  head (`Continue`), an error return drops everything (`Fail`; inside `init()`
  it also closes the store). Each write followed by a sync is one step; it
  reaches the medium as *old*, *torn* (`Garbage`) or *new* when a power loss or
  an I/O error interrupts it. Memory updates between two writes are merged into
  one action, because nothing can observe the state in between. A data area is a
  row of cells; an entry occupies `size` cells, each naming its entry and its
  place in it, so that a torn run of cells is an invalid entry, as its CRC would
  say, and stale cells of an older generation stay visible. Checksums, magic
  numbers and layout become "equal to what was written" or `Garbage`. The sparse
  index is the set of ids it holds. The manifest is the atomic variable
  `checkpoint`.
- **`Checkpoint`** states what a manifest commit promises: an atomic durable
  register, as long as commits do not fail. **`Manifest`** models the two
  superblock slots and their generations and refines `Checkpoint`
  (`ImplementsCheckpoint`). This is what justifies `checkpoint` in `SegmentStore`
  and `superblock` in `Provisioning`. After a failed commit the register promises
  less; `SegmentStore` keeps treating it as atomic, so what `io_error` shows
  presumes that the manifest itself is not the file that failed twice.
- **`Provisioning`** models creation: ownership check, `manifest.db`, each
  segment file, its two header writes, resumption, activation of slot 0. A file may
  be in the directory (`names`) before it has its size (`files`): the ownership check
  goes by the name, resumption by the size. Its `ReadyIsProvisioned` is the initial state of `SegmentStore`.
- **`Locks`** models the three mutexes and every public operation as a
  `pc`-labelled task: `append` (also `flush_write`), `query` (the getters, no
  timeout), `anchor`, `read`, `init`, `deinit`. What operations do to the ring
  is reduced to what another task can notice: generation and number of entries
  per slot, the reader's copies, whether the storage is open.
- **`ReadPath`** models reading: choice of a segment, load and validation of its
  sparse index, binary search, scan of files and copied buffer, segment after
  segment for a boot, epoch after epoch for UTC, and the four kinds of cursor. A
  read is two steps, `TakeSnapshot` under `write_lock` and `Finish` without it;
  appends and flushes go on in between, rotations wait (`Locks` shows why). The
  writer below it is the one of `SegmentStore` without I/O errors, as functions from
  store to store, with one cell per entry and a positive distance between uptimes.
  `MCReadPath` has the cursors and catalogs of the run.
- **`TimeTranslation`** is the saturating arithmetic between uptime and UTC;
  `ReadPath` and `TimeAnchors` extend it.
- **`TimeAnchors`** models the anchor ring, its reuse rule, replacement chains and
  the catalog of epochs, together with what decides retention: which boots a
  segment holds, retirement, activation, restart. An append may be cut off, fail at
  its slot, or fail to read the ring back (`AppendUnread`), which leaves the catalog
  empty.
- **`BootEvent`** models the end of `init()`: comparison of the coredump image with
  the fingerprint, streaming it into a boot event, and the ordinary boot event
  after a failure. What unsynced writes may have left on the medium (`landed`) is
  part of the state. `MCBootEvent` gives the image sizes.
- **`Geometry`** has the layout of a segment file in bytes, and the appends that
  fill it.
- **`SegmentStoreProofs`**, **`SegmentStoreSafetyProofs`** and
  **`SegmentStoreDurabilityProofs`**, each on top of the one before,
  **`ManifestProofs`**, **`LocksProofs`**, **`ProvisioningProofs`** (also of
  `Geometry`), **`TimeAnchorsProofs`** (also of `TimeTranslation`) and
  **`BootEventProofs`** hold the theorems. **`SegmentStoreInvariants`** has the
  inductive invariants of `SegmentStore`, without proofs, so that TLC can check
  them too.

The modules share what they show, not state: `SegmentStore` takes the manifest as
the register `Manifest` implements and starts where `Provisioning` ends; `ReadPath`
takes from `Locks` that nothing a reader copied is reused, from `SegmentStore` that
descriptors are true of the files, and from `TimeAnchors` the shape of a catalog;
`BootEvent` leaves failed rotations to `SegmentStore`.

Right before some definitions stands a neighbour that is wrong in one plausible
way, such as `FlushStepsResetFirst` before `FlushSteps`. Nothing uses them: they are
substituted one at a time (`mutants` in `PROJECT.json`) to see that the property
named there notices.

## Runs

| Run | Instance | Result |
|---|---|---|
| `crash` | 2 slots of 4 cells, buffer 2, entries of 1 (buffered) and 3 (direct), 5 generations, 2 boots, one lost index | all properties of the core hold under power losses; the repair costs no durable entry |
| `io_error` | one I/O error; 3 cells, entries of 1 and 2, both buffered | ids and `DataFits` survive the error |
| `sealed_rot` | a lost cell and a lost index; 2 cells | sealed history is never shortened |
| `manifest` | 8 superblock generations, 3 values, 2 I/O errors | the newest copy is sheltered, the slots refine `Checkpoint` |
| `provisioning` | 3 slots, 3 interruptions, 2 stores | interrupted creation ends in the right store |
| `locks` | 3 tasks, 4 calls, 2 slots of one entry, fairness | exclusion, pinning, no use after close, no mutex leaked, every call returns |
| `read_path` | 2 slots of 3 entries, index stride 2, buffer 2, 2 boots of 4 ids, 3 generations, times 0 to 4, nine cursors (one of an empty range), three catalogs | every read gives what a linear scan at the snapshot gives, and no cursor leaves an entry out |
| `time_anchors` | a ring of 3 anchors, 2 segment slots, 3 boots, 4 generations, 5 sequences, uptimes 0 to 3, one failed anchor write or read-back | anchors of retained boots stay, their clocks change only by new anchors, sequences are not given twice, epochs tile |
| `boot_event` | 2 slots of 3 units, images of 2, 3 and 4, 5 boots, 3 I/O errors | the fingerprint is always backed by a copy, an init without errors stores the image, once |
| `geometry` | files of 64, 68 and 96 KiB, payloads of 0, 1021 and 20000 bytes | regions stay apart and a seal is always accepted |

The bounds are small on purpose and reach the cases that matter. Two slots make
every rotation reuse the slot before the active one, the tightest ring the
assumption `SegmentCount >= 2` of the models allows. Three or four cells make entries that do
and do not fit, buffers with several entries, gaps at the end of a segment, and
a direct entry behind buffered ones. `SequenceMask` and `BootMask` are reached,
so the exhaustion of ids is part of the runs; with five generations every slot
is reused. In `locks` the ring starts full, its last segment with or without
room, so the first rotation already reuses a slot a reader may hold, and four
calls are an `init()`, a reader, a rotation and a `deinit()` in any order.
In `read_path` a segment holds an index item and entries before and behind it, two
boots share a segment, and a boot goes over two segments and can be cut by
retention; its catalogs have an anchor whose UTC range overflows, a clock set back
in the middle of a boot and anchors of two boots. In `time_anchors` the ring comes
round once with anchors of three boots, of which at most two segments' are
retained. In `boot_event` one image fills a segment exactly and one does not fit
any. In `geometry` a 64 KiB file holds 1024 of the smallest entries, sixteen index
strides, and two of the largest.
`MaxGeneration`, `MaxFaults`, `MaxErrors`, `MaxStops`, `MaxStores`, `MaxCalls`,
`MaxSequence` and `MaxBoot` bound the runs and nothing in the code (which stops at generation
2^64 - 1). Deadlock is checked wherever the system should always be able to go
on; `manifest` may stop with nothing left to load, `locks` when the last call
has returned, `time_anchors` and `boot_event` when the last boot of the run is over.

Where the code does not do what its README says, two runs show it:

| Run | What TLC finds |
|---|---|
| `append_after_failed_seal` | after a rotation that failed half way, a smaller entry is accepted and flushed with `ESP_OK`, and gone after a restart |
| `creation_stuck` | a power loss after `manifest.db` is allocated and before its first superblock leaves a directory `init()` refuses for ever |

### Known deviations

TLC finds these too; a configuration that differs from a run as the last column says
reproduces each of them.

| What happens | Property it breaks | Change |
|---|---|---|
| a torn second header copy is never healed (`segment.cpp:534`); when the slot's next activation is interrupted in its first copy, the store cannot be opened | `SegmentStore!HeadersSurvive` | `crash` with 3 cells, sizes 1 and 2, no faults |
| a failed retirement commit is not repeated before the slot is reused (`segment.cpp:824`) | `SegmentStore!RetiredBeforeReuse` | in `io_error` |
| repair overwrites the only valid footer in place (`segment.cpp:493`); a power loss then unseals the segment | `SegmentStore!SealSurvives` | `io_error` with `Faults = {"index"}` |
| a failed commit that tore its slot sends the next commit to the slot with the only valid copy (`manifest.cpp:79`) | `Manifest!CheckpointSurvives` | in `manifest` |
| after a failed retirement commit, `is_retained_boot` no longer sees the boots of a segment the durable checkpoint retains, and their anchors may be overwritten | `TimeAnchors!RetainedAnchorsKept` | `time_anchors` with `Faults = {"retire"}` |
| with a ring of one anchor, which `Kconfig:22` allows and `manifest.cpp:142` accepts, a torn overwrite destroys the only sequence the counter comes from (`manifest.cpp:447`), and sequences a caller was told of are issued again | `TimeAnchors!SequencesNotReused` | `time_anchors` with `TimeAnchorCount = 1` |
| entries of equal uptime before the last index item of that uptime are left out of an uptime range (`read.cpp:225`); `esp_timer_get_time()` has a resolution of a microsecond, so `TicksAssumption` excludes it | `ReadPath!ReadMatchesScan` | `read_path` with `Ticks = {0, 1}` and without `TicksAssumption` |

The other properties of `time_anchors` hold with `TimeAnchorCount = 1` too.

Three more observations state no property. An anchor whose slot write failed but
reached the card makes later appends return `ESP_ERR_NO_MEM` until the next
`init()`, because the write index did not move (`RefusedOnlyWhenFull` exempts it
with the ghost `doubtful`). An append that cannot read the ring back
(`manifest.cpp:432`) leaves the store without any clock until the next `init()`
(`ClocksStable` exempts it with `CatalogLost`). A coredump event whose commit fails
is followed by an ordinary boot event of the same boot (`BootEventAppended` allows
it after an error).

## Fairness

`Locks!FairSpec` has weak fairness of each task's steps: a FreeRTOS task that
can run does run, and a reader or writer finishes what it holds a mutex for. It
does not make timeouts happen, and it does not say that a mutex is fair: a
FreeRTOS mutex wakes its best waiter but another task can take it first, so a
task can starve as long as others keep calling. `CallsReturn` therefore speaks of finitely many calls
(`MaxCalls`) and shows that there is no deadlock and no missing release.
`Provisioning!FairSpec` assumes that the device calls `init()` again after a
reset and that interruptions stop eventually (`MaxStops`).

## Proofs

All constants are arbitrary up to the named assumptions.

- `SegmentStoreProofs!TypeCorrect`: `TypeOK` is inductive by itself once it is
  split into medium, memory, control and ghosts. The work is in the operators:
  `Min` and `Max` of what recovery collects (`GreatestNatural`, by the least
  counterexample), the scan of typed cells, and that the continuation contains
  only steps whose argument has the type the action expects (`ArgType`), which
  is why a step never leaves the ring or the data area. Nothing is assumed of
  `Garbage` here.
- `SegmentStoreProofs!SpaceCorrect` and `SegmentStoreSafetyProofs!IdsCorrect` need
  to know what an operation that is cut off would have done next. `ControlInv`
  says it of `todo` with two tables: `Place`, where in a continuation a step may
  stand, and `Follow`, the earliest place behind the step *and all it calls*. A
  continuation is ordered when each step is in front of what may follow it
  (`Ordered`); each call is shown to put in front only steps whose successors
  come no later than those of the caller (`CallOrdered`, `FollowCalls`), which is
  all a nested call has to satisfy. From the order follow facts such as: nothing of an entry
  stands behind the boot event (`BehindBoot`), a commit stands behind the count
  of the boot (`Committed`), all steps of an append are about one entry.
  - `SpaceInv`: what is buffered ends at the offset the active segment has
    reached, and an entry on its way has its space unless a step that makes
    space (`prepare`, `open_next`, `activate`) is still in front of it. The
    buffer is empty during recovery, which moves the offset.
  - `IdInv`: nothing anywhere, in cells, footers, descriptors or the buffer, has
    an id beyond the last of the boot that is *committed*; from the moment the
    boot is counted nothing has one beyond `NewestHandedOut`, the boot and
    sequence in memory; and the counted boot is the committed one unless both
    the boot event and the commit in front of it are still to come. The middle
    part alone is not inductive: a crash forgets the sequence, and only the
    committed boot counter separates the ids of the next boot from those that
    torn writes left. The commit between counting the boot and the boot event is
    therefore what the theorem rests on.
- `SegmentStoreSafetyProofs!GenerationsCorrect` holds with every fault, I/O errors and
  abandoned rotations included. Its only further assumption is that bytes no check
  accepts are not a generation number (`GarbageAssumption`). Generation `g` can only live in
  slot `Home(g)`, because the rotation goes around; `Upcoming(n)` says that all
  headers, the checkpoint and all entries on the medium, in the buffer or on
  their way (`Stored`) are of generations up to `n - 1`, but for a header of `n`
  that a rotation may have left, and that the header of `n - 1` is in place.
  - `GenerationInv`: while the store is closed or looks for its highest generation some
    such `n` exists; once it is chosen it is `state.next_generation`, and the active
    segment is the one before. The choice (`PickChosen`) is where it could go wrong: an
    abandoned rotation leaves a header of `n` that recovery may or may not
    find intact, and either choice must be safe. It is, since the descriptors agree
    with the headers by then (`Recovered`) and the checkpoint retires no slot of
    `n - 1`.
  - `RotationInv` is about the steps: while the active segment is still to be selected no
    rotation is on its way, and headers are only written to the slot whose turn it is.
  - `OrderInv`, later generation, later id, over all of `Stored`: a new entry has the
    greatest id (`IdInv`) and, as the active generation is `n - 1`, no lower generation
    than any (`NewestMark`); everything else that a step writes was stored before
    (`StoredKept`).
- `SegmentStoreSafetyProofs!RetirementCorrect` assumes that no write fails: a
  retirement commit that does is not repeated, and the slot is then reused all the
  same (see the deviations above). With it, through any power losses, torn headers
  and decay, a segment is retired durably before its slot is overwritten.
  - `Retained(n)` is the reason: what the checkpoint retains is one round of the ring.
    Once the header of the next generation `n` may be written, `n` is less than
    `checkpoint.oldest_generation + SegmentCount`, so whatever is overwritten, in the
    same slot and therefore at least a round older, is below the checkpoint.
  - It is preserved because memory says the same as the checkpoint, but for the commit
    directly behind a retirement, and because the slot of the next generation
    is retired before a header goes there (`Retiring`).
  - Recovery is the delicate part again. A rotation cut off after the retirement leaves
    a checkpoint whose oldest segment is still in place, so the highest generation
    recovery finds is less than a round beyond it (`RetainedNext`), whether or not it
    finds the header the rotation left; and the oldest descriptor it rebuilds is the
    checkpoint's, as that header is intact (`RecoveredOldest`).
- `SegmentStoreDurabilityProofs!DurabilityCorrect` is about the promise of the store:
  what it reported durable is found by every later recovery until its segment is
  retired. It assumes that no write fails (`append_after_failed_seal` shows that an
  entry is lost otherwise) and that no data decay, which nothing survives; lost
  indexes, torn writes and power losses at any step, recovery included, are allowed.
  `GarbageCellAssumption` says that bytes no check accepts are not an entry, and
  `GarbageFooterAssumption` that they are not a footer.
  - `SequenceInv` and `AppendInv` say what comes with what in a continuation,
    `BufferInv` where the buffer is empty, and `ActiveInv` that between its choice and
    its rotation the memory describes the active segment (`Working`).
  - `TilesInv`: what a reader of the active segment finds up to the offset that appends
    have reached is *tiled* by whole entries with increasing ids; the buffer
    starts at a boundary between two of them. A torn flush
    breaks neither, since it lies behind everything that was flushed. Every entry in
    front of `FlushedTo` is then found by a scan, which stops only at what is no entry
    (`ScanReach`).
  - `SealInv`: a segment has a footer only once its last entry is flushed, no entry
    follows, and recovery seals again what has a footer and is not sealed in memory
    (`Resealed`). `KeptInv`: the segment of an entry reported durable is retained.
  - `AckedInv` puts the three together: each entry reported durable is *held*, that is
    among those a scan of its slot finds and in front of the end that any valid
    footer states. Steps either leave a slot alone, write behind what is held, or have
    retired the slot before (`RetirementInv`).
- `SegmentStoreDurabilityProofs!SealedCorrect` assumes only that no write fails: data
  and indexes may decay. Cells are lost only in a segment that both footers seal, and
  the claim is that its range still covers every entry reported durable.
  - `PlacedInv` is what remains of `AckedInv`: an entry is held, or its segment
    is sealed twice and what is found in its place is the entry or nothing. The repair
    of such a segment, when its index is lost too, refuses to write a footer
    that a scan of damaged data would shorten.
  - `SumsInv`: the active descriptor sums the entries of its segment, so it covers each
    that is held (`HeldCovered`), and so does the footer made of it.
  - `CoveredInv`: every valid footer of the segment, and its descriptor once it is
    read, cover the entry. A recovery takes the descriptor from a footer or from a scan;
    the scan happens only while no two footers vouch for the segment, where
    the entry is held.
- `SegmentStoreDurabilityProofs!ReadableCorrect` is the readers' side: between two
  operations every segment in memory is what a reader finds in its slot, and its count,
  range and end are those of the entries there. It assumes that no write fails and no
  data decay; indexes may be lost. That the bytes of a lost index are no index
  (`Garbage \notin IdSets`) is a hypothesis of the theorem and not of the module, since TLC
  cannot evaluate it.
  - `TallyInv`: the active descriptor counts the entries that start in front of the offset
    reached, and the sparse index in memory is that of every `IndexStride`-th of them.
    That the index then has `(count - 1) \div IndexStride + 1` items (`IndexCount`), as
    the validity check of a footer wants, is an induction over the offsets, by the least
    counterexample.
  - `FooterInv`: so does every valid footer of the generation of a retained slot. One of
    an older generation may be anything; the checkpoint tells them apart.
  - `WrittenInv` and `ListedInv`: sealing writes the index, then the footers, then marks the
    descriptor, so a sealed descriptor has its footer and its index in place. `TallyInv`
    adds that the active segment is unsealed, and so nothing is written to a sealed one.
  - `OpenInv`: only the active segment is open. Recovery seals what else is, one slot
    after the other, and a rotation the segment it leaves.
- `ManifestProofs`: the inductive invariant adds to the types that each valid
  copy sits in the slot of its parity (`InPlace`), that the last successful
  commit's slot holds memory's generation (`Sheltered`) and that memory is never
  behind the medium (`Ahead`). Without `Ahead` a commit could reuse a
  generation, without `InPlace` two copies could share one. From it follow
  `NewestSheltered` and, with `NothingLost` (while the last commit succeeded
  there is a valid copy), `SettledLoadable` and `Refinement`. All of them hold with
  any number of I/O errors.
- `LocksProofs` proves every safety property of `Locks` for any number of tasks,
  slots, entries and calls. The invariant says which labels an operation can be
  at (`LabelInv`) and that the label determines the mutexes its task holds, all
  three of them (`LockInv`). Every action is a step that keeps, takes or gives
  one mutex (`StepMoves`), which is enough for both. Exclusion then gives that
  whoever is past the check of `initialized` finds the storage open (`OpenInv`;
  the initialising task is the exception and is alone), that memory and files
  agree up to the write buffer, which is empty in a rotation (`DataInv`), and
  from that agreement at the snapshot that a reader's copies stay true
  (`ReaderInv`): a flush only adds to a file, and what would take a slot away
  needs `read_lock`.
- `ProvisioningProofs`: the invariant says how far the loop has come (`Prefix`:
  the slots below `slot` have both copies written), what the header writes in
  progress have done, and that as soon as the manifest names a store every
  readable header is of that store (`Owned`), which rests on the directory being
  empty when the manifest was created. `ReadyIsComplete` and `ForeignKept` follow.
- `TimeAnchorsProofs`, translation: `TranslationExact` says the saturating cases are those in
  which the exact sum leaves `0 .. MaxTime`; `UtcRangeExact` then shows the uptime
  range of an epoch is exact, so the error `ESP_ERR_INVALID_STATE` of
  `read.cpp:667` cannot be returned.
- `TimeAnchorsProofs` proves every property the run `time_anchors` checks, for any
  ring of at least one slot and any clocks. Retention (`AnchorsKept`, `ClocksKept`)
  assumes that no retirement commit fails, as the run does, and `SequencesUnique`
  has the hypothesis of two slots or more, without which it is false (known
  deviations).
  - Retention: memory retains what the durable floor does (`IInv`), so a slot that
    `MayReuse` gives away belongs to no durably retained boot.
  - The catalog as a function of the ring: a chain of replacements only goes to
    smaller sequences, so `RootSequence` is well defined (`RootSequenceSolves`: the
    existence and uniqueness of its values up to each sequence, by the least one
    that would fail) and ends at an anchor of the ring (`RootIsNamed`). The
    compaction leaves distinct beginnings, so the bounds tile (`BoundsTile`).
  - The ring over time, `RingInv`: seen from the slot whose turn it is, later slots
    hold newer anchors (`InTurn`), and, with two slots or more, the counter is never
    behind what was issued. A failed write may leave the next sequence in that very
    slot, which is why the invariant speaks of the other slots and of a `doubtful`
    one; while the store is closed some slot must be the one to go on from, and
    `NewestBefore` shows that `load_time_model_catalog` finds it. `SequencesUnique`
    follows.
  - `SpanInv` and `BootInv` order the boots of segments and anchors alike, so when the
    oldest anchor is of a retained boot all are: `RefusalsAreFull`.
  - `ClockInv`: the epochs of a retained boot are those the ring gives it, or an
    unfinished append has left an anchor of it that is not yet loaded. Epochs of a boot
    depend on its own anchors only (`ClockLocal`), and no boot becomes retained again
    (`DurableShrinks`, which needs that the running boot always is, `DurableInv`).
- `BootEventProofs`: what may have landed fits the segment (`Fits`), fingerprints
  belong to stored images (`Backed`), and an image being written is not the one the
  manifest names (`Fresh`).
- `ProvisioningProofs`, layout: every entry takes at least 44 bytes, so the number of entries is
  at most `max_entries` and the index item of the last of them still fits (`Layout`).
  The proof splits alignment and division from the induction over appends.

Only model-checked: everything of `ReadPath`, whose binary search and scans are
recursions over data, `BootEventAppended` and `ImageStored`, and liveness (`CallsReturn`, `ProvisioningResumes`), which is out of
the prover's reach.

## Not modelled

- Checksums as arithmetic: a CRC accepts what was written and refuses anything
  else. Bytes that a torn write leaves never look like an entry of the current
  generation by chance.
- `used_size`, which only a getter reports, `max_durable_entry_id` of the anchors,
  which nothing reads, entry types and payloads; source, quality and uncertainty of
  anchors. `SegmentStore` has no uptimes; `ReadPath` has.
- Read errors of the medium in `read.cpp`: a read returns the error and changes
  nothing. Damage of sealed segments under a reader.
- A card that reorders or drops synced writes, other than the decay actions
  `RotIndex` and `RotData`; the project's README excludes it too ("Durability
  limits").
- Concurrent first calls of `init()`: the mutexes exist from the start.
- I/O errors of reads during recovery; they end `init()` without a write and
  equal a power loss at that point.
- Formatting, paths, logging, allocation failures (they end `init()` like any
  error).

## Plan

1. An abstract log, a bounded FIFO of entries with durability, refined by
   `SegmentStore`.
2. Proofs: `ReadMatchesScan` of `ReadPath` without the binary search.
3. Failed rotations composed with `BootEvent` and `TimeAnchors`.
