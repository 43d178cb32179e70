---------------------------- MODULE ManifestProofs ----------------------------
(***************************************************************************)
(* The two superblock slots, for any contents and any number of commits.   *)
(* Types, NewestIsSheltered and the refinement of module Checkpoint hold   *)
(* with any number of I/O errors; without them a valid copy always exists. *)
(***************************************************************************)
EXTENDS Manifest, TLAPS

(* Every valid copy sits in the slot of its parity, so no two copies share a *)
(* generation.                                                               *)
InPlace ==
    \A c \in {0, 1} : slots[c] # Garbage => SlotOf(slots[c].generation) = c

(* Half of NewestIsSheltered; InPlace makes it the whole.                    *)
Sheltered ==
    (open /\ settled) =>
        /\ slots[SlotOf(state.generation)] # Garbage
        /\ slots[SlotOf(state.generation)].generation = state.generation

(* A loaded store never falls behind the medium, not even after a commit that *)
(* failed.                                                                   *)
Ahead == open => \A c \in {0, 1} :
                     slots[c] # Garbage => slots[c].generation <= state.generation

IInv == TypeOK /\ InPlace /\ Sheltered /\ Ahead

(* As long as the last commit succeeded, a closed manifest can be loaded.     *)
NothingLost == settled => Valid # {}

(* Without I/O errors every commit succeeds.                                 *)
NoError == errors = 0 /\ settled

-----------------------------------------------------------------------------

(* Where a commit writes, and that it is the other slot.                     *)
LEMMA SlotFacts ==
    ASSUME NEW g \in Nat
    PROVE  /\ SlotOf(g) \in {0, 1}
           /\ SlotOf(g + 1) \in {0, 1}
           /\ SlotOf(g + 1) # SlotOf(g)
  BY DEF SlotOf

(* load_manifest_superblock finds a newest copy whenever there is a valid    *)
(* one.                                                                      *)
LEMMA NewestExists ==
    ASSUME TypeOK, Valid # {}
    PROVE  IsNewest(Newest)
<1>1. \A b \in Valid : b \in Superblock
  BY DEF TypeOK, Valid
<1>2. \A b \in Valid : b.generation \in Nat
  BY <1>1 DEF Superblock
<1>3. \E b \in Valid : IsNewest(b)
  <2>1. CASE slots[0] = Garbage \/ slots[1] = Garbage
    <3>1. PICK b \in Valid : Valid = {b}
      BY <2>1 DEF Valid
    <3>. QED  BY <3>1, <1>2 DEF IsNewest
  <2>2. CASE slots[0] # Garbage /\ slots[1] # Garbage
    <3>1. Valid = {slots[0], slots[1]}
      BY <2>2 DEF Valid
    <3>2. \/ slots[0].generation <= slots[1].generation
          \/ slots[1].generation <= slots[0].generation
      BY <3>1, <1>2
    <3>. QED  BY <3>1, <3>2, <1>2 DEF IsNewest
  <2>. QED  BY <2>1, <2>2
<1>. QED  BY <1>3 DEF Newest

(* The newest copy is unique.                                                *)
LEMMA NewestUnique == TypeOK /\ InPlace => \A b : IsNewest(b) => Newest = b
<1>. SUFFICES ASSUME TypeOK, InPlace, NEW b, IsNewest(b)
              PROVE  Newest = b
  OBVIOUS
<1>1. IsNewest(Newest)
  BY NewestExists DEF IsNewest
<1>2. \A x \in Valid : x.generation \in Nat
  BY DEF TypeOK, Valid, Superblock
<1>3. \A x, y \in Valid : x.generation = y.generation => x = y
  BY DEF Valid, InPlace
<1>. QED  BY <1>1, <1>2, <1>3 DEF IsNewest

(* The same of the next state.                                               *)
LEMMA NewestUniqueNext == (TypeOK /\ InPlace => \A b : IsNewest(b) => Newest = b)'
  BY NewestUnique, PTL

-----------------------------------------------------------------------------
(* The invariant.                                                            *)

(* The invariant holds of a created manifest.                                *)
LEMMA InitInv == Init => IInv
<1>. SUFFICES ASSUME Init PROVE IInv
  OBVIOUS
<1>1. PICK v \in Values :
         /\ slots = [c \in {0, 1} |-> [generation |-> IF c = 0 THEN 2 ELSE 1, value |-> v]]
         /\ state = [generation |-> 0, value |-> v]
  BY DEF Init
<1>2. TypeOK
  <2>1. \A c \in {0, 1} : slots[c] \in Superblock
    BY <1>1 DEF Superblock
  <2>2. slots \in [{0, 1} -> Superblock \cup {Garbage}]
    BY <1>1, <2>1
  <2>3. state \in Superblock
    BY <1>1 DEF Superblock
  <2>4. errors \in 0 .. MaxErrors
    BY BoundAssumption DEF Init
  <2>5. open \in BOOLEAN /\ settled \in BOOLEAN
    BY DEF Init
  <2>. QED  BY <2>2, <2>3, <2>4, <2>5 DEF TypeOK
<1>3. InPlace
  BY <1>1 DEF InPlace, SlotOf
<1>4. Sheltered /\ Ahead
  BY DEF Init, Sheltered, Ahead
<1>. QED  BY <1>2, <1>3, <1>4 DEF IInv

(* A write of the next generation, whole or interrupted, keeps the copies    *)
(* typed and in place.                                                       *)
LEMMA WriteKeepsPlace ==
    ASSUME TypeOK, InPlace,
           NEW copy \in {slots[SlotOf(state.generation + 1)], Garbage, Advanced},
           slots' = [slots EXCEPT ![SlotOf(state.generation + 1)] = copy]
    PROVE  /\ slots' \in [{0, 1} -> Superblock \cup {Garbage}]
           /\ InPlace'
<1>1. state.generation \in Nat
  BY DEF TypeOK, Superblock
<1>2. Advanced \in Superblock /\ Advanced.generation = state.generation + 1
  BY <1>1 DEF TypeOK, Superblock, Advanced
<1>3. SlotOf(state.generation + 1) \in {0, 1}
  BY <1>1, SlotFacts
<1>4. slots' \in [{0, 1} -> Superblock \cup {Garbage}]
  BY <1>2, <1>3 DEF TypeOK
<1>5. InPlace'
  <2>. SUFFICES ASSUME NEW c \in {0, 1}, slots'[c] # Garbage
                PROVE  SlotOf(slots'[c].generation) = c
    BY DEF InPlace
  <2>1. CASE c # SlotOf(state.generation + 1)
    BY <2>1, <1>3 DEF InPlace, TypeOK
  <2>2. CASE c = SlotOf(state.generation + 1)
    <3>1. slots'[c] = copy
      BY <2>2, <1>3 DEF TypeOK
    <3>. QED  BY <3>1, <2>2, <1>2 DEF InPlace
  <2>. QED  BY <2>1, <2>2
<1>. QED  BY <1>4, <1>5

(* ... and never puts a copy on the medium that memory is behind of.         *)
LEMMA WriteStaysBehind ==
    ASSUME TypeOK, Ahead, open,
           NEW copy \in {slots[SlotOf(state.generation + 1)], Garbage, Advanced},
           slots' = [slots EXCEPT ![SlotOf(state.generation + 1)] = copy],
           state' = Advanced
    PROVE  Ahead'
<1>1. state.generation \in Nat
  BY DEF TypeOK, Superblock
<1>2. Advanced.generation = state.generation + 1
  BY <1>1 DEF TypeOK, Superblock, Advanced
<1>3. SlotOf(state.generation + 1) \in {0, 1}
  BY <1>1, SlotFacts
<1>. SUFFICES ASSUME NEW c \in {0, 1}, slots'[c] # Garbage
              PROVE  slots'[c].generation <= state.generation + 1
  BY <1>2 DEF Ahead
<1>4. slots'[c] \in {slots[c], Advanced}
  BY <1>3 DEF TypeOK
<1>5. CASE slots'[c] = slots[c]
  <2>1. slots[c].generation \in Nat
    BY <1>5 DEF TypeOK, Superblock
  <2>. QED  BY <2>1, <1>5, <1>1 DEF Ahead
<1>6. CASE slots'[c] = Advanced
  BY <1>6, <1>2, <1>1
<1>. QED  BY <1>4, <1>5, <1>6

(* Every step of the store, and every power loss, keeps the invariant.       *)
LEMMA NextInv == IInv /\ [Next]_vars => IInv'
<1>. SUFFICES ASSUME IInv, [Next]_vars PROVE IInv'
  OBVIOUS
<1>. USE DEF IInv
<1>g. state.generation \in Nat
  BY DEF TypeOK, Superblock
<1>a. Advanced \in Superblock /\ Advanced.generation = state.generation + 1
  BY <1>g DEF TypeOK, Superblock, Advanced
<1>1. CASE Load
  <2>1. IsNewest(Newest)
    BY <1>1, NewestExists DEF Load
  <2>2. Newest \in Superblock
    BY <2>1 DEF IsNewest, Valid, TypeOK
  <2>3. TypeOK' /\ InPlace'
    BY <1>1, <2>2 DEF Load, TypeOK, InPlace
  <2>4. slots[SlotOf(Newest.generation)] = Newest /\ Newest # Garbage
    BY <2>1 DEF IsNewest, Valid, InPlace
  <2>5. Sheltered' /\ Ahead'
    BY <1>1, <2>1, <2>4 DEF Load, Sheltered, Ahead, Valid, IsNewest
  <2>. QED  BY <2>3, <2>5
<1>2. CASE Change
  <2>1. PICK v \in Values : state' = [state EXCEPT !.value = v]
    BY <1>2 DEF Change
  <2>2. state' \in Superblock /\ state'.generation = state.generation
    BY <2>1 DEF TypeOK, Superblock
  <2>. QED  BY <1>2, <2>2 DEF Change, TypeOK, InPlace, Sheltered, Ahead
<1>3. CASE Commit
  <2>1. TypeOK' /\ InPlace'
    BY <1>3, <1>a, WriteKeepsPlace DEF Commit, TypeOK
  <2>2. SlotOf(state.generation + 1) \in {0, 1}
    BY <1>g, SlotFacts
  <2>3. slots'[SlotOf(state'.generation)] = Advanced
    BY <1>3, <1>a, <2>2 DEF Commit, TypeOK
  <2>4. Advanced # Garbage
    BY <1>a, GarbageAssumption
  <2>5. Ahead'
    BY <1>3, <1>a, WriteStaysBehind DEF Commit, CanCommit
  <2>6. Sheltered'
    BY <1>3, <1>a, <2>3, <2>4 DEF Commit, Sheltered
  <2>. QED  BY <2>1, <2>5, <2>6
<1>4. CASE CommitError
  <2>1. slots' \in [{0, 1} -> Superblock \cup {Garbage}] /\ InPlace'
    BY <1>4, WriteKeepsPlace DEF CommitError, Interrupted
  <2>2. errors' \in 0 .. MaxErrors
    BY <1>4, BoundAssumption DEF CommitError, TypeOK
  <2>4. TypeOK' /\ Sheltered'
    BY <1>4, <1>a, <2>1, <2>2 DEF CommitError, TypeOK, Sheltered
  <2>3. Ahead'
    BY <1>4, <1>a, WriteStaysBehind DEF CommitError, CanCommit, Interrupted
  <2>. QED  BY <2>1, <2>3, <2>4
<1>5. CASE PowerLoss
  <2>1. slots' \in [{0, 1} -> Superblock \cup {Garbage}] /\ InPlace'
    BY <1>5, WriteKeepsPlace DEF PowerLoss, Interrupted, TypeOK, InPlace
  <2>2. state' \in Superblock
    BY <1>5 DEF PowerLoss, TypeOK, Superblock
  <2>. QED  BY <1>5, <2>1, <2>2 DEF PowerLoss, TypeOK, Sheltered, Ahead
<1>6. CASE UNCHANGED vars
  BY <1>6 DEF vars, TypeOK, InPlace, Sheltered, Ahead
<1>. QED  BY <1>1, <1>2, <1>3, <1>4, <1>5, <1>6 DEF Next

(* The strengthened invariant holds in every state (manifest.cpp:70-95).     *)
THEOREM InductiveInvariant == Spec => []IInv
  BY InitInv, NextInv, PTL DEF Spec

(* The types of the manifest, with any number of I/O errors and power losses  *)
(* (on9rstore_manifest.cpp:45-207).                                           *)
THEOREM TypeCorrect == Spec => []TypeOK
<1>1. IInv => TypeOK
  BY DEF IInv
<1>. QED  BY <1>1, InductiveInvariant, PTL

(* While the last commit succeeded, the newest copy is the one the next       *)
(* commit leaves alone: commit_manifest_superblock_unsafe never writes over   *)
(* the state a power loss would need.                                         *)
THEOREM NewestSheltered == Spec => []NewestIsSheltered
<1>1. IInv => NewestIsSheltered
  <2>. SUFFICES ASSUME IInv, open, settled PROVE NewestIsSheltered
    BY DEF NewestIsSheltered
  <2>. DEFINE kept == slots[SlotOf(state.generation)]
  <2>1. state.generation \in Nat
    BY DEF IInv, TypeOK, Superblock
  <2>2. kept # Garbage /\ kept.generation = state.generation
    BY DEF IInv, Sheltered
  <2>3. \A b \in Valid : b.generation <= state.generation
    BY DEF IInv, Ahead, Valid
  <2>4. \A b \in Valid : b.generation = state.generation => b = kept
    BY DEF IInv, InPlace, Valid
  <2>. QED  BY <2>2, <2>3, <2>4 DEF NewestIsSheltered
<1>. QED  BY <1>1, InductiveInvariant, PTL

-----------------------------------------------------------------------------
(* The copies a power loss can leave.                                        *)

(* In a settled run an interrupted commit leaves the newest copy valid.      *)
LEMMA KeptSurvives ==
    ASSUME IInv, open, settled,
           NEW copy,
           slots' = [slots EXCEPT ![SlotOf(state.generation + 1)] = copy]
    PROVE  /\ slots[SlotOf(state.generation)] \in Valid'
           /\ IsNewest(slots[SlotOf(state.generation)])
           /\ Valid' \subseteq {slots[SlotOf(state.generation)], copy}
<1>1. state.generation \in Nat
  BY DEF IInv, TypeOK, Superblock
<1>2. /\ SlotOf(state.generation) \in {0, 1}
      /\ SlotOf(state.generation + 1) \in {0, 1}
      /\ SlotOf(state.generation + 1) # SlotOf(state.generation)
  BY <1>1, SlotFacts
<1>3. slots'[SlotOf(state.generation)] = slots[SlotOf(state.generation)]
  BY <1>2 DEF IInv, TypeOK
<1>4. slots'[SlotOf(state.generation + 1)] = copy
  BY <1>2 DEF IInv, TypeOK
<1>5. slots[SlotOf(state.generation)] # Garbage
  BY DEF IInv, Sheltered
<1>6. IsNewest(slots[SlotOf(state.generation)])
  BY <1>2, <1>5 DEF IInv, Sheltered, Ahead, IsNewest, Valid
<1>7. Valid' \subseteq {slots[SlotOf(state.generation)], copy}
  BY <1>2, <1>3, <1>4 DEF Valid
<1>. QED  BY <1>2, <1>3, <1>5, <1>6, <1>7 DEF Valid

(* A created manifest can be loaded.                                         *)
LEMMA InitNothingLost == Init => NothingLost
<1>. SUFFICES ASSUME Init PROVE Valid # {}
  BY DEF NothingLost
<1>1. slots[0] \in Superblock
  BY DEF Init, Superblock
<1>2. slots[0] \in Valid
  BY <1>1, GarbageAssumption DEF Valid
<1>. QED  BY <1>2

(* A copy of a later generation than memory's becomes the newest, whatever    *)
(* failed before.                                                            *)
LEMMA CommittedNewest ==
    ASSUME IInv, open, NEW copy, copy = Advanced,
           slots' = [slots EXCEPT ![SlotOf(state.generation + 1)] = copy]
    PROVE  IsNewest(copy)' /\ copy.value = state.value
<1>1. state.generation \in Nat
  BY DEF IInv, TypeOK, Superblock
<1>2. /\ copy \in Superblock
      /\ copy.generation = state.generation + 1
      /\ copy.value = state.value
  BY <1>1 DEF IInv, TypeOK, Superblock, Advanced
<1>3. SlotOf(state.generation + 1) \in {0, 1}
  BY <1>1, SlotFacts
<1>4. copy \in Valid'
  BY <1>2, <1>3, GarbageAssumption DEF Valid, IInv, TypeOK
<1>5. \A b \in Valid' : b = copy \/ b \in Valid
  BY DEF Valid, IInv, TypeOK
<1>6. \A b \in Valid : b.generation \in Nat /\ b.generation <= state.generation
  BY DEF Valid, IInv, TypeOK, Ahead, Superblock
<1>. QED  BY <1>1, <1>2, <1>4, <1>5, <1>6 DEF IsNewest

(* No step leaves the store without a valid copy while the last commit        *)
(* succeeded.                                                                *)
LEMMA NextNothingLost ==
    ASSUME IInv, NothingLost, [Next]_vars
    PROVE  NothingLost'
<1>1. CASE Load
  BY <1>1 DEF Load, NothingLost, Valid
<1>2. CASE Change
  BY <1>2 DEF Change, NothingLost, Valid
<1>3. CASE Commit
  <2>1. Valid' # {}
    BY <1>3, CommittedNewest DEF Commit, CanCommit, IsNewest
  <2>. QED  BY <2>1 DEF NothingLost
<1>4. CASE CommitError
  BY <1>4 DEF CommitError, NothingLost
<1>5. CASE PowerLoss
  <2>. SUFFICES ASSUME settled PROVE Valid' # {}
    BY <1>5 DEF PowerLoss, NothingLost
  <2>1. CASE UNCHANGED slots
    BY <2>1 DEF NothingLost, Valid
  <2>2. CASE CanCommit /\ Interrupted
    BY <2>2, KeptSurvives DEF Interrupted, CanCommit
  <2>. QED  BY <1>5, <2>1, <2>2 DEF PowerLoss
<1>6. CASE UNCHANGED vars
  BY <1>6 DEF vars, NothingLost, Valid
<1>. QED  BY <1>1, <1>2, <1>3, <1>4, <1>5, <1>6 DEF Next

(* A store whose last commit succeeded can be opened again after any power    *)
(* loss.                                                                     *)
THEOREM SettledLoadable == Spec => []NothingLost
<1>1. IInv /\ NothingLost /\ [Next]_vars => NothingLost'
  BY NextNothingLost
<1>. QED  BY <1>1, InitNothingLost, InductiveInvariant, PTL DEF Spec

(* Power losses alone never leave the store without a valid superblock.      *)
THEOREM AlwaysLoadable ==
    ASSUME MaxErrors = 0
    PROVE  Spec => []CheckpointSurvives
<1>1. Init => NoError
  BY DEF Init, NoError
<1>2. NoError /\ [Next]_vars => NoError'
  <2>1. CASE CommitError /\ NoError
    BY <2>1 DEF CommitError, NoError
  <2>2. CASE ~CommitError
    BY <2>2 DEF NoError, Next, Load, Change, Commit, PowerLoss, vars
  <2>. QED  BY <2>1, <2>2
<1>3. NoError /\ NothingLost => CheckpointSurvives
  BY DEF NoError, NothingLost, CheckpointSurvives
<1>. QED  BY <1>1, <1>2, <1>3, SettledLoadable, PTL DEF Spec

-----------------------------------------------------------------------------
(* The refinement.                                                           *)

(* What the register holds, from the invariant.                              *)
LEMMA DurableType ==
    ASSUME IInv
    PROVE  /\ DurableValue \in Values \cup {Garbage}
           /\ Valid # {} => DurableValue \in Values
<1>1. Valid # {} => IsNewest(Newest)
  BY NewestExists DEF IInv
<1>. QED  BY <1>1 DEF IsNewest, Valid, IInv, TypeOK, Superblock, DurableValue

(* After a successful commit the register holds the copy it wrote.           *)
LEMMA SettledDurable ==
    ASSUME IInv, open, settled
    PROVE  DurableValue = slots[SlotOf(state.generation)].value
<1>1. IsNewest(slots[SlotOf(state.generation)])
  <2>1. state.generation \in Nat
    BY DEF IInv, TypeOK, Superblock
  <2>2. SlotOf(state.generation) \in {0, 1}
    BY <2>1, SlotFacts
  <2>. QED  BY <2>2 DEF IInv, Sheltered, Ahead, IsNewest, Valid
<1>2. Valid # {}
  BY <1>1 DEF IsNewest
<1>. QED  BY <1>1, <1>2, NewestUnique DEF IInv, DurableValue

(* A commit puts the value of the memory in the register; an interrupted one *)
(* puts it there or changes nothing.                                         *)
LEMMA InterruptedDurable ==
    ASSUME IInv, IInv', open, settled,
           NEW copy \in {slots[SlotOf(state.generation + 1)], Garbage, Advanced},
           slots' = [slots EXCEPT ![SlotOf(state.generation + 1)] = copy]
    PROVE  DurableValue' = IF copy = Advanced THEN state.value ELSE DurableValue
<1>. PICK kept : kept = slots[SlotOf(state.generation)]
  OBVIOUS
<1>1. state.generation \in Nat
  BY DEF IInv, TypeOK, Superblock
<1>2. /\ Advanced \in Superblock
      /\ Advanced.generation = state.generation + 1
      /\ Advanced.value = state.value
  BY <1>1 DEF IInv, TypeOK, Superblock, Advanced
<1>3. SlotOf(state.generation + 1) \in {0, 1}
  BY <1>1, SlotFacts
<1>4. kept \in Valid' /\ IsNewest(kept) /\ Valid' \subseteq {kept, copy}
  BY KeptSurvives
<1>5. kept.generation = state.generation
  BY DEF IInv, Sheltered
<1>6. CASE copy = Advanced
  <2>1. copy \in Valid'
    BY <1>6, <1>2, <1>3, GarbageAssumption DEF Valid, IInv, TypeOK
  <2>2. IsNewest(copy)'
    BY <2>1, <1>1, <1>2, <1>4, <1>5, <1>6 DEF IsNewest
  <2>3. Newest' = copy
    BY <2>2, NewestUniqueNext DEF IInv
  <2>. QED  BY <1>2, <1>6, <2>1, <2>3 DEF DurableValue
<1>7. CASE copy # Advanced
  <2>1. Newest = kept
    BY <1>4, NewestUnique DEF IInv
  <2>2. \A b \in Valid' : b.generation <= kept.generation
    <3>. SUFFICES ASSUME NEW b \in Valid', b # kept
                  PROVE  b.generation <= kept.generation
      BY <1>1, <1>5
    <3>1. b = slots[SlotOf(state.generation + 1)] /\ b # Garbage
      BY <1>4, <1>7 DEF Valid
    <3>2. b \in Valid
      BY <3>1, <1>3 DEF Valid
    <3>. QED  BY <3>2, <1>4 DEF IsNewest
  <2>3. IsNewest(kept)'
    BY <1>4, <2>2 DEF IsNewest
  <2>4. Newest' = kept
    BY <2>3, NewestUniqueNext DEF IInv
  <2>5. Valid # {} /\ Valid' # {}
    BY <1>4 DEF IsNewest
  <2>. QED  BY <1>7, <2>1, <2>4, <2>5 DEF DurableValue
<1>. QED  BY <1>6, <1>7

(* A created manifest is an initial register.                                *)
LEMMA InitRefines == Init => Register!Init
<1>. SUFFICES ASSUME Init PROVE Register!Init
  OBVIOUS
<1>1. DurableValue \in Values
  BY InitInv, InitNothingLost, DurableType DEF Init, NothingLost
<1>. QED  BY <1>1 DEF Init, Register!Init

(* A commit that stops in the middle is an unfinished commit of the register. *)
LEMMA InterruptedRefines ==
    ASSUME IInv, IInv', open, Interrupted \/ UNCHANGED slots
    PROVE  DurableValue' \in IF settled THEN {DurableValue, state.value}
                                        ELSE Values \cup {Garbage}
<1>1. CASE UNCHANGED slots
  <2>1. DurableValue' = DurableValue
    BY <1>1 DEF DurableValue, Newest, IsNewest, Valid
  <2>. QED  BY <2>1, DurableType
<1>2. CASE Interrupted /\ settled
  BY <1>2, InterruptedDurable DEF Interrupted
<1>3. CASE ~settled
  <2>1. (IInv => DurableValue \in Values \cup {Garbage})'
    BY DurableType, PTL
  <2>. QED  BY <1>3, <2>1
<1>. QED  BY <1>1, <1>2, <1>3

(* Every step is a step of the register or leaves it alone.                  *)
LEMMA StepRefines ==
    ASSUME IInv, IInv', NothingLost, [Next]_vars
    PROVE  [Register!Next]_Register!vars
<1>. USE DEF Register!Next, Register!vars
<1>1. CASE Load
  <2>1. DurableValue' = DurableValue
    BY <1>1 DEF Load, DurableValue, Newest, IsNewest, Valid
  <2>2. DurableValue = Newest.value /\ state' = Newest
    BY <1>1 DEF Load, DurableValue
  <2>3. DurableValue # Garbage
    BY <1>1, DurableType, GarbageAssumption DEF Load
  <2>. QED  BY <1>1, <2>1, <2>2, <2>3 DEF Load, Register!Load
<1>2. CASE Change
  <2>1. DurableValue' = DurableValue
    BY <1>2 DEF Change, DurableValue, Newest, IsNewest, Valid
  <2>2. state'.value \in Values
    BY DEF IInv, TypeOK, Superblock
  <2>. QED  BY <1>2, <2>1, <2>2 DEF Change, Register!Change
<1>3. CASE Commit
  <2>. PICK copy : copy = Advanced
    OBVIOUS
  <2>1. IsNewest(copy)' /\ copy.value = state.value
    BY <1>3, CommittedNewest DEF Commit, CanCommit
  <2>2. DurableValue' = state.value
    <3>1. Newest' = copy
      BY <2>1, NewestUniqueNext DEF IInv
    <3>2. Valid' # {}
      BY <2>1 DEF IsNewest
    <3>. QED  BY <2>1, <3>1, <3>2 DEF DurableValue
  <2>3. state'.value = state.value
    BY <1>3 DEF Commit, Advanced, IInv, TypeOK, Superblock
  <2>. QED  BY <1>3, <2>2, <2>3 DEF Commit, CanCommit, Register!Save
<1>4. CASE CommitError
  <2>1. state'.value = state.value
    BY <1>4 DEF CommitError, Advanced, IInv, TypeOK, Superblock
  <2>. QED  BY <1>4, <2>1, InterruptedRefines
            DEF CommitError, CanCommit, Register!SaveFails, Register!Unfinished
<1>5. CASE PowerLoss
  BY <1>5, InterruptedRefines
     DEF PowerLoss, Register!PowerLoss, Register!Unfinished
<1>6. CASE UNCHANGED vars
  <2>1. DurableValue' = DurableValue
    BY <1>6 DEF vars, DurableValue, Newest, IsNewest, Valid
  <2>. QED  BY <1>6, <2>1 DEF vars
<1>. QED  BY <1>1, <1>2, <1>3, <1>4, <1>5, <1>6 DEF Next

(* Under any power losses and I/O errors the two superblock slots are one     *)
(* register, atomic and durable as long as the last commit succeeded          *)
(* (manifest.cpp:70-95 against manifest.cpp:178-207).                         *)
THEOREM Refinement == Spec => ImplementsCheckpoint
<1>1. IInv /\ IInv' /\ NothingLost /\ [Next]_vars
         => [Register!Next]_Register!vars
  BY StepRefines
<1>. QED  BY <1>1, InitRefines, InductiveInvariant, SettledLoadable, PTL
          DEF Spec, ImplementsCheckpoint, Register!Spec
=============================================================================
