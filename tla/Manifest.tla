------------------------------- MODULE Manifest -------------------------------
(***************************************************************************)
(* The two superblock slots of manifest.db (on9rstore_manifest.cpp).  Each *)
(* commit takes the next generation and overwrites the slot of its parity; *)
(* init() loads the valid copy with the highest generation.  A write that  *)
(* a power loss or an I/O error interrupts leaves the old copy, garbage or *)
(* the new copy.  This implements the register of module Checkpoint.       *)
(***************************************************************************)
EXTENDS Integers

CONSTANTS
    Values,          \* contents of the superblock, all but its generation
    MaxGeneration,   \* bound on the superblock generations of a run
    MaxErrors,       \* bound on the I/O errors of a run
    Garbage          \* a copy that is_manifest_superblock_valid refuses

ASSUME ValuesAssumption == Values # {}
ASSUME BoundAssumption == MaxGeneration \in Nat /\ MaxErrors \in Nat
Superblock == [generation : Nat, value : Values]
ASSUME GarbageAssumption == Garbage \notin Superblock \cup Values

VARIABLES
    slots,    \* the two copies on the medium
    state,    \* the superblock in memory
    open,     \* is the manifest loaded?
    settled,  \* ghost: the last commit of this run of the store succeeded
    errors    \* I/O errors so far

vars == <<slots, state, open, settled, errors>>

\* load_manifest_superblock.
Valid == {slots[c] : c \in {0, 1}} \ {Garbage}
IsOldest(b) == b \in Valid /\ \A other \in Valid : b.generation <= other.generation
IsNewest(b) == b \in Valid /\ \A other \in Valid : other.generation <= b.generation
Newest == CHOOSE b \in Valid : IsNewest(b)

\* Where commit_manifest_superblock_unsafe writes a generation.
FirstSlotOf(generation) == 0
OtherSlotOf(generation) == (generation + 1) % 2
SlotOf(generation) == generation % 2

Init ==
    \E v \in Values :
        /\ slots = [c \in {0, 1} |-> [generation |-> IF c = 0 THEN 2 ELSE 1, value |-> v]]
        /\ state = [generation |-> 0, value |-> v]
        /\ open = FALSE
        /\ settled = TRUE
        /\ errors = 0

\* open_existing_manifest.
Load ==
    /\ ~open
    /\ Valid # {}
    /\ state' = Newest
    /\ open' = TRUE
    /\ settled' = TRUE
    /\ UNCHANGED <<slots, errors>>

\* The rest of the store updates its state between two commits.
Change ==
    /\ open
    /\ \E v \in Values : state' = [state EXCEPT !.value = v]
    /\ UNCHANGED <<slots, open, settled, errors>>

\* commit_manifest_superblock_unsafe: the generation advances in memory also
\* when the write fails.
CountedDown == [state EXCEPT !.generation = @ - 1]
Advanced == [state EXCEPT !.generation = @ + 1]
CanCommit == open /\ state.generation < MaxGeneration

Commit ==
    /\ CanCommit
    /\ state' = Advanced
    /\ slots' = [slots EXCEPT ![SlotOf(state.generation + 1)] = Advanced]
    /\ settled' = TRUE
    /\ UNCHANGED <<open, errors>>

Interrupted ==
    \E copy \in {slots[SlotOf(state.generation + 1)], Garbage, Advanced} :
        slots' = [slots EXCEPT ![SlotOf(state.generation + 1)] = copy]

CommitError ==
    /\ CanCommit
    /\ errors < MaxErrors
    /\ errors' = errors + 1
    /\ state' = Advanced
    /\ Interrupted
    /\ settled' = FALSE
    /\ UNCHANGED open

\* A power loss, possibly in the middle of a commit, or close_storage_unsafe.
\* What state keeps is never read: Load overwrites it.
PowerLoss ==
    /\ open
    /\ open' = FALSE
    /\ state' = [state EXCEPT !.generation = 0]
    /\ (CanCommit /\ Interrupted) \/ UNCHANGED slots
    /\ UNCHANGED <<settled, errors>>

Next == Load \/ Change \/ Commit \/ CommitError \/ PowerLoss

Spec == Init /\ [][Next]_vars

-----------------------------------------------------------------------------
(* Properties.                                                             *)

TypeOK ==
    /\ slots \in [{0, 1} -> Superblock \cup {Garbage}]
    /\ state \in Superblock
    /\ open \in BOOLEAN
    /\ settled \in BOOLEAN
    /\ errors \in 0 .. MaxErrors

\* While the store runs and its last commit succeeded, the slot the next commit
\* will NOT touch holds the newest copy, so that commit can be interrupted
\* without losing it (manifest.cpp:79-86).
NewestIsSheltered ==
    (open /\ settled) =>
        LET kept == slots[SlotOf(state.generation)] IN
        /\ kept # Garbage
        /\ kept.generation = state.generation
        /\ \A b \in Valid : b.generation <= state.generation
        /\ \A b \in Valid : b.generation = state.generation => b = kept

\* A store that was created can always be opened again: the manifest is the
\* "durable retirement checkpoint" of README.md:647.  It holds until a commit fails
\* (SettledLoadable of ManifestProofs).
CheckpointSurvives == Valid # {}

\* The two slots implement one atomic register (module Checkpoint), what module
\* SegmentStore assumes of commit_manifest_superblock_unsafe; with I/O errors it
\* is only as reliable as the last commit.
DurableValue == IF Valid = {} THEN Garbage ELSE Newest.value
Register == INSTANCE Checkpoint WITH
    Lost <- Garbage,
    durable <- DurableValue,
    working <- IF open THEN state.value ELSE DurableValue,
    reliable <- settled
ImplementsCheckpoint == Register!Spec
=============================================================================
