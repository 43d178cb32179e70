-------------------------- MODULE SegmentStoreProofs --------------------------
(***************************************************************************)
(* The segment store, for every number and size of segments, every mask,   *)
(* buffer size and fault budget.  Nothing is assumed of Garbage, which may *)
(* even look like valid bytes.  First the types, one lemma per group of    *)
(* actions; then the order of the steps still to take (ControlInv), which  *)
(* every later invariant needs to know what an interrupted operation would *)
(* have done next; then the space in the active segment (SpaceInv).        *)
(***************************************************************************)
EXTENDS SegmentStoreInvariants, FiniteSetTheorems, SequenceTheorems, WellFoundedInduction, TLAPS

\* Every nonempty set of natural numbers has a least element.
LEMMA LeastNatural ==
    ASSUME NEW S \in SUBSET Nat, S # {}
    PROVE  \E x \in S : \A y \in S : x <= y
<1>1. PICK x \in S : \A y \in S : ~ (<<y, x>> \in OpToRel(<, Nat))
  BY NatLessThanWellFounded, WFMin
<1>2. \A y \in S : ~ (y < x)
  BY <1>1 DEF OpToRel
<1>. QED  BY <1>2

HasGreatest(S) == \E x \in S : \A y \in S : y <= x

\* Every nonempty finite set of natural numbers has a greatest element: a
\* counterexample of least cardinality stays one without one of its elements.
LEMMA GreatestNatural ==
    ASSUME NEW S \in SUBSET Nat, IsFiniteSet(S), S # {}
    PROVE  HasGreatest(S)
<1>. DEFINE Bad == {n \in Nat : \E T \in SUBSET Nat :
                        /\ IsFiniteSet(T)
                        /\ T # {}
                        /\ Cardinality(T) = n
                        /\ ~HasGreatest(T)}
<1>. SUFFICES ASSUME ~HasGreatest(S) PROVE FALSE
  OBVIOUS
<1>1. Bad # {} /\ Bad \in SUBSET Nat
  BY FS_CardinalityType
<1>2. PICK n \in Bad : \A m \in Bad : n <= m
  BY <1>1, LeastNatural
<1>3. PICK T \in SUBSET Nat : /\ IsFiniteSet(T)
                              /\ T # {}
                              /\ Cardinality(T) = n
                              /\ ~HasGreatest(T)
  BY <1>2
<1>4. PICK x \in T : TRUE
  BY <1>3
<1>. DEFINE U == T \ {x}
<1>5. IsFiniteSet(U) /\ Cardinality(U) = n - 1 /\ U \in SUBSET Nat
  BY <1>3, <1>4, FS_RemoveElement
<1>6. U # {}
  <2>. SUFFICES ASSUME U = {} PROVE FALSE
    OBVIOUS
  <2>1. T = {x}
    BY <1>4
  <2>. QED  BY <2>1, <1>3, <1>4 DEF HasGreatest
<1>7. n \in Nat /\ n - 1 \in Nat
  BY <1>1, <1>5, FS_CardinalityType
<1>8. n - 1 \notin Bad
  BY <1>2, <1>7
<1>9. HasGreatest(U)
  BY <1>5, <1>6, <1>7, <1>8
<1>10. PICK u \in U : \A y \in U : y <= u
  BY <1>9 DEF HasGreatest
<1>11. x \in Nat /\ u \in Nat /\ (x <= u \/ u <= x)
  BY <1>3, <1>4, <1>10
<1>12. \A y \in T : y = x \/ y <= u
  BY <1>10
<1>13. HasGreatest(T)
  <2>1. CASE x <= u
    BY <2>1, <1>10, <1>12 DEF HasGreatest
  <2>2. CASE u <= x
    <3>1. \A y \in T : y <= x
      BY <2>2, <1>3, <1>11, <1>12
    <3>. QED  BY <3>1, <1>4 DEF HasGreatest
  <2>. QED  BY <2>1, <2>2, <1>11
<1>. QED  BY <1>3, <1>13

\* Min and Max pick them.
LEMMA MinType ==
    ASSUME NEW S \in SUBSET Nat, S # {}
    PROVE  Min(S) \in S
  BY LeastNatural DEF Min

\* Max of a nonempty finite set of naturals is its greatest element.
LEMMA MaxType ==
    ASSUME NEW S \in SUBSET Nat, IsFiniteSet(S), S # {}
    PROVE  Max(S) \in S
<1>1. PICK x \in S : \A y \in S : y <= x
  BY GreatestNatural DEF HasGreatest
<1>2. \A y \in S : x >= y
  BY <1>1
<1>. QED  BY <1>2 DEF Max

\* The image of a finite set is finite.
LEMMA FiniteImage ==
    ASSUME NEW I, IsFiniteSet(I), NEW f
    PROVE  IsFiniteSet({f[x] : x \in I})
<1>. DEFINE T == {f[x] : x \in I}
            g == [x \in I |-> f[x]]
<1>1. g \in Surjection(I, T)
  BY DEF Surjection
<1>. QED  BY <1>1, FS_Surjection

\* The slots of a store are finite in number.
LEMMA SlotsFinite == \A S \in SUBSET Slots : IsFiniteSet(S)
<1>1. IsFiniteSet(Slots)
  BY SegmentCountAssumption, FS_Interval DEF Slots
<1>. QED  BY <1>1, FS_Subset

\* So are the offsets of a data area.
LEMMA OffsetsFinite == \A S \in SUBSET Offsets : IsFiniteSet(S)
<1>1. IsFiniteSet(Offsets)
  BY CapacityAssumption, FS_Interval DEF Offsets
<1>. QED  BY <1>1, FS_Subset

-----------------------------------------------------------------------------
(* What recovery makes of a typed medium.                                  *)

\* load_segment_header returns a natural number for a readable header.
LEMMA HeaderGenerationType ==
    ASSUME MediumTypeOK, NEW s \in Slots, HeaderReadable(s)
    PROVE  HeaderGeneration(s) \in Nat
<1>. DEFINE S == HeaderGenerations(s)
<1>1. S \in SUBSET Nat
  BY DEF MediumTypeOK, HeaderGenerations
<1>2. IsFiniteSet({headers[s][0]} \cup {headers[s][1]})
  BY FS_Singleton, FS_Union
<1>3. S \in SUBSET ({headers[s][0]} \cup {headers[s][1]})
  BY DEF HeaderGenerations, Copies
<1>4. IsFiniteSet(S)
  BY <1>2, <1>3, FS_Subset
<1>5. S # {}
  BY DEF HeaderReadable
<1>6. Max(S) \in S
  BY <1>1, <1>4, <1>5, MaxType
<1>. QED  BY <1>1, <1>6 DEF HeaderGeneration

\* A scan finds only offsets of cells that hold an entry.
LEMMA ScannedType ==
    ASSUME MediumTypeOK, NEW s \in Slots, NEW g
    PROVE  /\ ScannedEntries(s, g) \in SUBSET Offsets
           /\ IsFiniteSet(ScannedEntries(s, g))
           /\ \A o \in ScannedEntries(s, g) : data[s][o] \in Cell
<1>1. \A o \in ScannedEntries(s, g) : o \in Offsets /\ EntryAt(s, g, o)
  BY DEF ScannedEntries
<1>2. ScannedEntries(s, g) \in SUBSET Offsets
  BY <1>1
<1>3. \A o \in Offsets : EntryAt(s, g, o) => data[s][o] \in Cell
  BY DEF EntryAt, MediumTypeOK
<1>. QED  BY <1>1, <1>2, <1>3, OffsetsFinite

\* The index a scan rebuilds is a finite set of ids.
LEMMA ScannedIndexType ==
    ASSUME MediumTypeOK, NEW s \in Slots, NEW g
    PROVE  ScannedIndex(s, g) \in IdSets
<1>. DEFINE R == ScannedEntries(s, g)
            I == {o \in R : Cardinality({p \in R : p < o}) % IndexStride = 0}
            idAt == [o \in Offsets |-> data[s][o].id]
<1>1. I \in SUBSET Offsets /\ \A o \in I : data[s][o] \in Cell
  BY ScannedType
<1>2. IsFiniteSet({idAt[o] : o \in I})
  <2>1. IsFiniteSet(I)
    BY <1>1, OffsetsFinite
  <2>. HIDE DEF I, idAt
  <2>. QED  BY <2>1, FiniteImage
<1>3. {idAt[o] : o \in I} = {data[s][o].id : o \in I}
  BY <1>1
<1>4. {data[s][o].id : o \in I} \in SUBSET Nat
  BY <1>1 DEF Cell
<1>5. ScannedIndex(s, g) = {data[s][o].id : o \in I}
  BY DEF ScannedIndex
<1>. QED  BY <1>2, <1>3, <1>4, <1>5 DEF IdSets

\* A fresh and a retired descriptor are descriptors.
LEMMA FreshType == \A g \in Nat : FreshSegment(g) \in Descriptor /\ NoSegment \in Descriptor
  BY DEF FreshSegment, NoSegment, Descriptor

\* So is the one a scan returns.
LEMMA ScanType ==
    ASSUME MediumTypeOK, NEW s \in Slots, NEW g \in Nat, NEW b \in BOOLEAN
    PROVE  Scan(s, g, b) \in Descriptor
<1>. DEFINE R == ScannedEntries(s, g)
            last == Max(R)
<1>1. CASE R = {}
  BY <1>1, FreshType DEF Scan
<1>2. CASE R # {}
  <2>1. R \in SUBSET Nat /\ IsFiniteSet(R)
    BY ScannedType DEF Offsets
  <2>2. Min(R) \in R /\ last \in R
    BY <1>2, <2>1, MinType, MaxType
  <2>3. data[s][Min(R)].id \in Nat /\ data[s][last].id \in Nat
    BY <2>2, ScannedType DEF Cell
  <2>4. last + data[s][last].size \in Nat
    <3>1. last \in Nat /\ data[s][last].size \in Nat
      BY <2>1, <2>2, ScannedType DEF Cell
    <3>. QED  BY <3>1
  <2>5. Cardinality(R) \in Nat
    BY <2>1, FS_CardinalityType
  <2>6. Cardinality(ScannedIndex(s, g)) \in Nat
    BY ScannedIndexType, FS_CardinalityType DEF IdSets
  <2>. DEFINE indexed == IF b THEN Cardinality(ScannedIndex(s, g)) ELSE 0
  <2>7. indexed \in Nat
    BY <2>6
  <2>8. Scan(s, g, b) =
            [valid |-> TRUE, sealed |-> FALSE, generation |-> g,
             first_entry_id |-> data[s][Min(R)].id, last_entry_id |-> data[s][last].id,
             entry_count |-> Cardinality(R), data_end |-> last + data[s][last].size,
             index_count |-> indexed]
    BY <1>2 DEF Scan
  <2>. HIDE DEF indexed, last, R
  <2>. QED  BY <2>3, <2>4, <2>5, <2>7, <2>8 DEF Descriptor
<1>. QED  BY <1>1, <1>2

\* A valid footer is not garbage.
LEMMA FooterType ==
    ASSUME MediumTypeOK, NEW s \in Slots, NEW g, HasFooter(s, g)
    PROVE  Footer(s, g) \in FooterRecord
  BY DEF MediumTypeOK, HasFooter, FooterValid, Footer, Copies

\* The descriptor taken from a valid footer is one.
LEMMA SealedSegmentType ==
    ASSUME NEW f \in FooterRecord
    PROVE  SealedSegment(f) \in Descriptor
<1>1. Cardinality(f.index) \in Nat
  BY FS_CardinalityType DEF FooterRecord, IdSets
<1>. QED  BY <1>1 DEF SealedSegment, FooterRecord, Descriptor

-----------------------------------------------------------------------------
(* Summaries of typed descriptors.                                         *)

\* The oldest generation of typed descriptors is a natural number.
LEMMA OldestType ==
    ASSUME NEW segs \in [Slots -> Descriptor]
    PROVE  OldestGeneration(segs) \in Nat
<1>. DEFINE G == {segs[s].generation : s \in ValidSlots(segs)}
<1>1. G \in SUBSET Nat
  BY DEF ValidSlots, Descriptor
<1>2. CASE ValidSlots(segs) = {}
  BY <1>2 DEF OldestGeneration
<1>3. CASE ValidSlots(segs) # {}
  <2>1. G # {}
    BY <1>3
  <2>2. Min(G) \in Nat
    BY <1>1, <2>1, MinType
  <2>. QED  BY <1>3, <2>2 DEF OldestGeneration
<1>. QED  BY <1>2, <1>3

\* So is the highest, and its slot is a slot.
LEMMA HighestType ==
    ASSUME NEW segs \in [Slots -> Descriptor]
    PROVE  HighestGeneration(segs) \in Nat /\ HighestSlot(segs) \in Slots
<1>. DEFINE generation == [s \in Slots |-> segs[s].generation]
            G == {generation[s] : s \in ValidSlots(segs)}
<1>1. ValidSlots(segs) \in SUBSET Slots
  BY DEF ValidSlots
<1>2. IsFiniteSet(G) /\ G \in SUBSET Nat
  <2>1. IsFiniteSet(ValidSlots(segs))
    BY <1>1, SlotsFinite
  <2>2. IsFiniteSet(G)
    <3>. HIDE DEF generation
    <3>. QED  BY <2>1, FiniteImage
  <2>3. G \in SUBSET Nat
    BY <1>1 DEF Descriptor
  <2>. QED  BY <2>2, <2>3
<1>3. G = {segs[s].generation : s \in ValidSlots(segs)}
  BY <1>1
<1>4. IsFiniteSet({0} \cup G) /\ {0} \cup G \in SUBSET Nat /\ {0} \cup G # {}
  <2>1. IsFiniteSet({0})
    BY FS_Singleton
  <2>. HIDE DEF G
  <2>2. IsFiniteSet({0} \cup G)
    BY <1>2, <2>1, FS_Union
  <2>. QED  BY <1>2, <2>2
<1>5. HighestGeneration(segs) = Max({0} \cup G)
  BY <1>3 DEF HighestGeneration
<1>6. HighestGeneration(segs) \in {0} \cup G
  <2>. HIDE DEF G
  <2>. QED  BY <1>4, <1>5, MaxType
<1>7. HighestGeneration(segs) \in Nat
  BY <1>4, <1>6
<1>8. HighestSlot(segs) \in Slots
  <2>1. CASE HighestGeneration(segs) = 0
    BY <2>1, SegmentCountAssumption DEF HighestSlot, Slots
  <2>2. CASE HighestGeneration(segs) # 0
    <3>1. \E s \in ValidSlots(segs) : segs[s].generation = HighestGeneration(segs)
      BY <1>1, <1>6, <2>2
    <3>. QED  BY <1>1, <2>2, <3>1 DEF HighestSlot
  <2>. QED  BY <2>1, <2>2
<1>. QED  BY <1>7, <1>8

\* The newest entry id is a natural number.
LEMMA NewestType ==
    ASSUME NEW segs \in [Slots -> Descriptor]
    PROVE  NewestEntry(segs) \in Nat
<1>. DEFINE last == [s \in Slots |-> segs[s].last_entry_id]
            L == {last[s] : s \in ValidSlots(segs)}
<1>1. ValidSlots(segs) \in SUBSET Slots
  BY DEF ValidSlots
<1>2. IsFiniteSet(L) /\ L \in SUBSET Nat
  <2>1. IsFiniteSet(ValidSlots(segs))
    BY <1>1, SlotsFinite
  <2>2. IsFiniteSet(L)
    <3>. HIDE DEF last
    <3>. QED  BY <2>1, FiniteImage
  <2>3. L \in SUBSET Nat
    BY <1>1 DEF Descriptor
  <2>. QED  BY <2>2, <2>3
<1>3. L = {segs[s].last_entry_id : s \in ValidSlots(segs)}
  BY <1>1
<1>4. IsFiniteSet({0} \cup L) /\ {0} \cup L \in SUBSET Nat /\ {0} \cup L # {}
  <2>1. IsFiniteSet({0})
    BY FS_Singleton
  <2>. HIDE DEF L
  <2>2. IsFiniteSet({0} \cup L)
    BY <1>2, <2>1, FS_Union
  <2>. QED  BY <1>2, <2>2
<1>5. NewestEntry(segs) = Max({0} \cup L)
  BY <1>3 DEF NewestEntry
<1>. HIDE DEF L
<1>. QED  BY <1>4, <1>5, MaxType

\* The greater of two natural numbers is one.
LEMMA MaxOfTwo ==
    ASSUME NEW a \in Nat, NEW b \in Nat
    PROVE  Max({a, b}) \in Nat
<1>1. IsFiniteSet({a} \cup {b})
  BY FS_Singleton, FS_Union
<1>2. {a, b} = {a} \cup {b}
  OBVIOUS
<1>. QED  BY <1>1, <1>2, MaxType

\* The state recovery settles on is a superblock state.
LEMMA RecoveredStateType ==
    ASSUME state \in StateRecord, segments \in [Slots -> Descriptor],
           NEW active \in [slot : Slots, generation : Nat]
    PROVE  RecoveredState(active) \in StateRecord
<1>. DEFINE newest == NewestEntry(segments)
            boot == newest \div (SequenceMask + 1)
            sequence == newest % (SequenceMask + 1)
            highest == HighestGeneration(segments)
            next == CASE boot > state.boot_counter -> sequence
                      [] boot = state.boot_counter ->
                             Max({state.next_entry_sequence, sequence})
                      [] OTHER -> state.next_entry_sequence
<1>1. newest \in Nat /\ boot \in Nat /\ sequence \in Nat /\ highest \in Nat
  <2>1. newest \in Nat /\ highest \in Nat
    BY NewestType, HighestType
  <2>2. SequenceMask + 1 \in Nat \ {0}
    BY MaskAssumption
  <2>. HIDE DEF newest
  <2>3. \A m \in Nat \ {0} : newest \div m \in Nat /\ newest % m \in Nat
    BY <2>1
  <2>. QED  BY <2>1, <2>2, <2>3
<1>2. Max({state.next_generation, highest + 1}) \in Nat
  BY <1>1, MaxOfTwo DEF StateRecord
<1>3. Max({state.boot_counter, boot}) \in Nat
  BY <1>1, MaxOfTwo DEF StateRecord
<1>4. next \in Nat
  <2>1. state.next_entry_sequence \in Nat /\ state.boot_counter \in Nat
    BY DEF StateRecord
  <2>2. Max({state.next_entry_sequence, sequence}) \in Nat
    BY <1>1, <2>1, MaxOfTwo
  <2>. HIDE DEF boot, sequence
  <2>3. \/ boot > state.boot_counter
        \/ boot = state.boot_counter /\ ~(boot > state.boot_counter)
        \/ ~(boot > state.boot_counter) /\ boot # state.boot_counter
    OBVIOUS
  <2>. QED  BY <1>1, <2>1, <2>2, <2>3
<1>5. OldestGeneration(segments) \in Nat
  BY OldestType
<1>6. RecoveredState(active) =
          [active_slot |-> active.slot, active_generation |-> active.generation,
           next_generation |-> Max({state.next_generation, highest + 1}),
           oldest_generation |-> OldestGeneration(segments),
           boot_counter |-> Max({state.boot_counter, boot}),
           next_entry_sequence |-> next,
           newest_entry_id |-> newest]
  BY DEF RecoveredState
<1>. HIDE DEF newest, boot, sequence, highest, next
<1>. QED  BY <1>1, <1>2, <1>3, <1>4, <1>5, <1>6 DEF StateRecord

-----------------------------------------------------------------------------
(* The steps of an operation.                                              *)

\* The argument of a step has the type its action expects.
LEMMA ArgType ==
    ASSUME todo \in Seq(Steps), todo # <<>>
    PROVE  /\ (At("recover") \/ At("seal_recovered") \/ At("open_writer") \/ At("retire"))
                  => Arg \in Slots
           /\ (At("header") \/ At("footer")) => Arg \in Copies
           /\ (At("prepare") \/ At("put") \/ At("reserve") \/ At("write_entry")
               \/ At("account")) => Arg \in 1 .. Capacity
<1>1. Head(todo) \in Steps
  BY HeadTailProperties
<1>. QED  BY <1>1 DEF Steps, At, Arg

\* A call of typed steps leaves a typed continuation.
LEMMA CallType ==
    ASSUME todo \in Seq(Steps), todo # <<>>, NEW steps \in Seq(Steps), Call(steps)
    PROVE  todo' \in Seq(Steps)
<1>1. Tail(todo) \in Seq(Steps)
  BY HeadTailProperties
<1>. QED  BY <1>1, ConcatProperties DEF Call

\* Taking a step leaves a typed continuation.
LEMMA ContinueType ==
    ASSUME todo \in Seq(Steps), todo # <<>>, Continue
    PROVE  todo' \in Seq(Steps)
<1>1. <<>> \in Seq(Steps)
  OBVIOUS
<1>. QED  BY <1>1, CallType DEF Continue

\* The steps without an argument.
LEMMA DoType ==
    \A step \in {"flush", "write_buffer", "commit", "flushed", "acknowledge", "write_index",
                "sealed", "open_next", "activate", "highest", "close_writer", "select",
                "settle", "count_boot", "append_boot", "ready", "close"} : Do(step) \in Steps
  BY DEF Do, Steps

\* The steps whose argument is a slot.
LEMMA SlotStepType ==
    \A step \in {"recover", "seal_recovered", "open_writer", "retire"}, s \in Slots :
        <<step, s>> \in Steps
  BY DEF Steps

\* The steps whose argument is a copy.
LEMMA CopyStepType ==
    \A step \in {"header", "footer"}, c \in Copies : <<step, c>> \in Steps
  BY DEF Steps

\* The steps whose argument is the size of an entry.
LEMMA EntryStepType ==
    \A step \in {"prepare", "put", "reserve", "write_entry", "account"}, n \in 1 .. Capacity :
        <<step, n>> \in Steps
  BY DEF Steps

\* The steps of a seal are steps.
LEMMA SealStepsType == SealSteps \in Seq(Steps)
<1>1. <<"footer", 0>> \in Steps /\ <<"footer", 1>> \in Steps
  BY CopyStepType DEF Copies
<1>2. Do("flush") \in Steps /\ Do("write_index") \in Steps /\ Do("sealed") \in Steps
  BY DoType
<1>. QED  BY <1>1, <1>2 DEF SealSteps

\* So are those of an append, of any size an entry can have.
LEMMA AppendStepsType ==
    ASSUME NEW n \in 1 .. Capacity, NEW force_flush \in BOOLEAN
    PROVE  AppendSteps(n, force_flush) \in Seq(Steps)
<1>. DEFINE direct == <<Do("flush"), <<"prepare", n>>, <<"reserve", n>>, <<"write_entry", n>>,
                       <<"account", n>>, Do("commit"), Do("acknowledge")>>
            first == IF Len(write_buf) + n > WriteBufferSize THEN <<Do("flush")>> ELSE <<>>
            put   == <<<<"prepare", n>>, <<"put", n>>>>
            last  == IF force_flush THEN <<Do("flush")>> ELSE <<>>
<1>1. Do("flush") \in Steps /\ Do("commit") \in Steps /\ Do("acknowledge") \in Steps
  BY DoType
<1>2. /\ <<"prepare", n>> \in Steps /\ <<"put", n>> \in Steps /\ <<"reserve", n>> \in Steps
      /\ <<"write_entry", n>> \in Steps /\ <<"account", n>> \in Steps
  BY EntryStepType
<1>3. direct \in Seq(Steps) /\ put \in Seq(Steps)
  BY <1>1, <1>2
<1>4. first \in Seq(Steps) /\ last \in Seq(Steps)
  BY <1>1
<1>5. AppendSteps(n, force_flush) = IF n > WriteBufferSize THEN direct ELSE first \o put \o last
  BY DEF AppendSteps
<1>. HIDE DEF direct, first, put, last
<1>6. first \o put \o last \in Seq(Steps)
  BY <1>3, <1>4, ConcatProperties
<1>. QED  BY <1>3, <1>5, <1>6

\* And those of init().
LEMMA InitStepsType == InitSteps \in Seq(Steps)
<1>. DEFINE end == <<Do("select"), Do("settle"), Do("commit"), Do("commit"),
                    Do("count_boot"), Do("commit"), Do("append_boot"), Do("ready")>>
            middle == <<Do("highest")>>
<1>1. \A step \in {"recover", "seal_recovered"} : ForSlots(step) \in Seq(Steps)
  <2>. SUFFICES ASSUME NEW step \in {"recover", "seal_recovered"}
                PROVE  ForSlots(step) \in Seq(Steps)
    OBVIOUS
  <2>1. \A i \in 1 .. SegmentCount : i - 1 \in Slots
    BY SegmentCountAssumption DEF Slots
  <2>2. \A i \in 1 .. SegmentCount : <<step, i - 1>> \in Steps
    BY <2>1, SlotStepType
  <2>. QED  BY <2>2, SegmentCountAssumption DEF ForSlots
<1>2. end \in Seq(Steps) /\ middle \in Seq(Steps)
  <2>1. /\ Do("select") \in Steps /\ Do("settle") \in Steps /\ Do("commit") \in Steps
        /\ Do("count_boot") \in Steps /\ Do("append_boot") \in Steps /\ Do("ready") \in Steps
        /\ Do("highest") \in Steps
    BY DoType
  <2>. QED  BY <2>1
<1>3. InitSteps = ForSlots("recover") \o middle \o ForSlots("seal_recovered") \o end
  BY DEF InitSteps
<1>. HIDE DEF end, middle
<1>4. ForSlots("recover") \in Seq(Steps) /\ ForSlots("seal_recovered") \in Seq(Steps)
  BY <1>1
<1>5. ForSlots("recover") \o middle \in Seq(Steps)
  BY <1>2, <1>4, ConcatProperties
<1>6. ForSlots("recover") \o middle \o ForSlots("seal_recovered") \in Seq(Steps)
  BY <1>4, <1>5, ConcatProperties
<1>. QED  BY <1>2, <1>3, <1>6, ConcatProperties

-----------------------------------------------------------------------------
(* Entries and writes.                                                     *)

\* A new id is a natural number.
LEMMA NewEntryIdType ==
    ASSUME state \in StateRecord
    PROVE  NewEntryId \in Nat
<1>1. \A a, b \in Nat : a * b \in Nat
  OBVIOUS
<1>2. state.boot_counter \in Nat /\ state.next_entry_sequence \in Nat /\ SequenceMask + 1 \in Nat
  BY MaskAssumption DEF StateRecord
<1>3. state.boot_counter * (SequenceMask + 1) \in Nat
  BY <1>1, <1>2
<1>. QED  BY <1>2, <1>3 DEF NewEntryId, EntryId

\* The cells of an entry are cells.
LEMMA EntryCellsType ==
    ASSUME NEW id \in Nat, NEW g \in Nat, NEW n \in 1 .. Capacity
    PROVE  EntryCells(id, g, n) \in Seq(Cell)
<1>1. n \in Nat \ {0}
  BY CapacityAssumption
<1>2. \A k \in 1 .. n : [id |-> id, generation |-> g, size |-> n, part |-> k - 1] \in Cell
  BY <1>1 DEF Cell
<1>. QED  BY <1>1, <1>2 DEF EntryCells

\* A write leaves the old bytes, garbage or the new bytes.
LEMMA LandType ==
    ASSUME NEW T, NEW old \in T \cup {Garbage}, NEW new \in T, NEW o \in Outcomes
    PROVE  Land(old, new, o) \in T \cup {Garbage}
  BY DEF Land, Outcomes

\* A write of cells, torn or not, leaves the data areas typed.
LEMMA WriteCellsType ==
    ASSUME data \in [Slots -> [Offsets -> Cell \cup {Garbage}]],
           NEW s \in Slots, NEW offset \in Nat, NEW cells \in Seq(Cell), NEW o \in Outcomes,
           WriteCells(s, offset, cells, o)
    PROVE  data' \in [Slots -> [Offsets -> Cell \cup {Garbage}]]
<1>. DEFINE fates == IF o = "torn" THEN [DOMAIN cells -> Outcomes] ELSE {[k \in DOMAIN cells |-> o]}
<1>0. fates \subseteq [DOMAIN cells -> Outcomes]
  OBVIOUS
<1>1. PICK m \in fates :
          data' = [data EXCEPT ![s] =
                      [p \in Offsets |-> IF p - offset + 1 \in DOMAIN cells
                                         THEN Land(data[s][p], cells[p - offset + 1],
                                                   m[p - offset + 1])
                                         ELSE data[s][p]]]
  BY DEF WriteCells
<1>2. \A k \in DOMAIN cells : cells[k] \in Cell
  BY ElementOfSeq
<1>3. \A p \in Offsets : (IF p - offset + 1 \in DOMAIN cells
                          THEN Land(data[s][p], cells[p - offset + 1], m[p - offset + 1])
                          ELSE data[s][p]) \in Cell \cup {Garbage}
  BY <1>0, <1>2, LandType
<1>. QED  BY <1>1, <1>3

\* The footer of the active segment is a footer.
LEMMA ActiveFooterType ==
    ASSUME MemoryTypeOK
    PROVE  ActiveFooter \in FooterRecord
  BY DEF MemoryTypeOK, ActiveFooter, FooterRecord, Descriptor

-----------------------------------------------------------------------------
(* Types are preserved, action by action.                                  *)

ControlTypeOK == mode \in {"off", "init", "run"} /\ todo \in Seq(Steps)
GhostTypeOK   == acked \subseteq [id : Nat, generation : Nat] /\ faults \in 0 .. MaxFaults

\* The type invariant, part by part.
LEMMA TypeParts == TypeOK <=> MediumTypeOK /\ MemoryTypeOK /\ ControlTypeOK /\ GhostTypeOK
  BY DEF TypeOK, ControlTypeOK, GhostTypeOK

\* The same of the next state.
LEMMA TypePartsNext ==
    TypeOK' <=> MediumTypeOK' /\ MemoryTypeOK' /\ ControlTypeOK' /\ GhostTypeOK'
  BY DEF TypeOK, ControlTypeOK, GhostTypeOK

\* A part that nothing changes stays typed.
LEMMA MediumUnchanged == MediumTypeOK /\ UNCHANGED medium => MediumTypeOK'
  BY DEF MediumTypeOK, medium
LEMMA MemoryUnchanged == MemoryTypeOK /\ UNCHANGED memory => MemoryTypeOK'
  BY DEF MemoryTypeOK, memory
LEMMA GhostUnchanged == GhostTypeOK /\ UNCHANGED <<acked, faults>> => GhostTypeOK'
  BY DEF GhostTypeOK

\* A cleared state is a superblock state.
LEMMA ZeroStateType == ZeroState \in StateRecord
  BY SegmentCountAssumption DEF ZeroState, StateRecord, Slots

\* close_storage_unsafe leaves the memory typed.
LEMMA ResetType == Reset => MemoryTypeOK' /\ ControlTypeOK'
<1>. SUFFICES ASSUME Reset PROVE MemoryTypeOK' /\ ControlTypeOK'
  OBVIOUS
<1>1. state' \in StateRecord
  BY ZeroStateType DEF Reset
<1>2. segments' \in [Slots -> Descriptor]
  BY FreshType DEF Reset
<1>3. active_segment' \in [slot : Slots, generation : Nat]
  BY SegmentCountAssumption DEF Reset, Slots
<1>4. sparse_index' \in IdSets
  BY FS_EmptySet DEF Reset, IdSets
<1>5. active_write_offset' \in Nat /\ write_buf' \in Seq(Cell) /\ write_buf_offset' \in Nat
  BY DEF Reset
<1>. QED  BY <1>1, <1>2, <1>3, <1>4, <1>5 DEF Reset, MemoryTypeOK, ControlTypeOK

\* So does an error return.
LEMMA FailType == MemoryTypeOK /\ ControlTypeOK /\ Fail => MemoryTypeOK' /\ ControlTypeOK'
<1>. SUFFICES ASSUME MemoryTypeOK, ControlTypeOK, Fail PROVE MemoryTypeOK' /\ ControlTypeOK'
  OBVIOUS
<1>1. CASE Reset
  BY <1>1, ResetType
<1>2. CASE todo' = <<>> /\ UNCHANGED <<mode, memory>>
  BY <1>2, MemoryUnchanged DEF ControlTypeOK
<1>. QED  BY <1>1, <1>2 DEF Fail

\* Every write, whole, torn or lost, leaves the medium typed.
LEMMA WriteType ==
    ASSUME TypeOK, NEW o \in Outcomes, Write(o)
    PROVE  MediumTypeOK' /\ todo # <<>>
<1>. USE DEF TypeOK
<1>1. todo # <<>>
  BY DEF Write, WriterWrite, WriteBuffer, WriteEntry, WriteIndex, WriteFooter, WriteHeader,
         Commit, At
<1>2. CASE WriterWrite(o) /\ WriteBuffer(o)
  <2>1. writer_fd \in Slots
    BY <1>2 DEF WriterWrite, MemoryTypeOK
  <2>2. data' \in [Slots -> [Offsets -> Cell \cup {Garbage}]]
    BY <1>2, <2>1, WriteCellsType DEF WriteBuffer, MediumTypeOK, MemoryTypeOK
  <2>. QED  BY <1>1, <1>2, <2>2 DEF WriteBuffer, MediumTypeOK
<1>3. CASE WriterWrite(o) /\ WriteEntry(o)
  <2>1. writer_fd \in Slots
    BY <1>3 DEF WriterWrite, MemoryTypeOK
  <2>2. EntryCells(state.newest_entry_id, active_segment.generation, Arg) \in Seq(Cell)
    BY <1>1, <1>3, ArgType, EntryCellsType DEF WriteEntry, MemoryTypeOK, StateRecord
  <2>3. data' \in [Slots -> [Offsets -> Cell \cup {Garbage}]]
    BY <1>3, <2>1, <2>2, WriteCellsType DEF WriteEntry, MediumTypeOK, MemoryTypeOK
  <2>. QED  BY <1>1, <1>3, <2>3 DEF WriteEntry, MediumTypeOK
<1>4. CASE WriterWrite(o) /\ WriteIndex(o)
  <2>1. index[writer_fd] \in IdSets \cup {Garbage}
    BY <1>4 DEF WriterWrite, MemoryTypeOK, MediumTypeOK
  <2>2. Land(index[writer_fd], sparse_index, o) \in IdSets \cup {Garbage}
    BY <2>1, LandType DEF MemoryTypeOK
  <2>3. index' \in [Slots -> IdSets \cup {Garbage}]
    BY <1>4, <2>2 DEF WriteIndex, MediumTypeOK
  <2>. QED  BY <1>1, <1>4, <2>3 DEF WriteIndex, MediumTypeOK
<1>5. CASE WriterWrite(o) /\ WriteFooter(o)
  <2>1. writer_fd \in Slots /\ Arg \in Copies
    BY <1>1, <1>5, ArgType DEF WriterWrite, WriteFooter, MemoryTypeOK
  <2>2. footers[writer_fd][Arg] \in FooterRecord \cup {Garbage}
    BY <2>1 DEF MediumTypeOK
  <2>3. Land(footers[writer_fd][Arg], ActiveFooter, o) \in FooterRecord \cup {Garbage}
    BY <2>2, LandType, ActiveFooterType
  <2>4. footers' \in [Slots -> [Copies -> FooterRecord \cup {Garbage}]]
    BY <1>5, <2>1, <2>3 DEF WriteFooter, MediumTypeOK
  <2>. QED  BY <1>1, <1>5, <2>4 DEF WriteFooter, MediumTypeOK
<1>6. CASE WriterWrite(o) /\ WriteHeader(o)
  <2>1. writer_fd \in Slots /\ Arg \in Copies /\ state.next_generation \in Nat
    BY <1>1, <1>6, ArgType DEF WriterWrite, WriteHeader, MemoryTypeOK, StateRecord
  <2>2. headers[writer_fd][Arg] \in Nat \cup {Garbage}
    BY <2>1 DEF MediumTypeOK
  <2>3. Land(headers[writer_fd][Arg], state.next_generation, o) \in Nat \cup {Garbage}
    BY <2>1, <2>2, LandType
  <2>4. headers' \in [Slots -> [Copies -> Nat \cup {Garbage}]]
    BY <1>6, <2>1, <2>3 DEF WriteHeader, MediumTypeOK
  <2>. QED  BY <1>1, <1>6, <2>4 DEF WriteHeader, MediumTypeOK
<1>7. CASE Commit(o)
  BY <1>1, <1>7 DEF Commit, MediumTypeOK, MemoryTypeOK
<1>. QED  BY <1>2, <1>3, <1>4, <1>5, <1>6, <1>7 DEF Write, WriterWrite

\* Steps that only move on.
LEMMA ContinueControl ==
    ASSUME ControlTypeOK, todo # <<>>, Continue, UNCHANGED mode
    PROVE  ControlTypeOK'
  BY ContinueType DEF ControlTypeOK

\* Steps that call others.
LEMMA CallControl ==
    ASSUME ControlTypeOK, todo # <<>>, NEW steps \in Seq(Steps), Call(steps), UNCHANGED mode
    PROVE  ControlTypeOK'
  BY CallType DEF ControlTypeOK

\* The actions around a write.
LEMMA WritesType ==
    ASSUME TypeOK, WriteDone \/ WriteError \/ NoWriter
    PROVE  TypeOK'
<1>. USE TypeParts, TypePartsNext
<1>1. CASE WriteDone
  <2>1. MediumTypeOK' /\ todo # <<>>
    BY <1>1, WriteType DEF WriteDone, Outcomes
  <2>2. ControlTypeOK'
    BY <1>1, <2>1, ContinueControl DEF WriteDone
  <2>. QED  BY <1>1, <2>1, <2>2, MemoryUnchanged, GhostUnchanged DEF WriteDone
<1>2. CASE WriteError
  <2>1. MediumTypeOK'
    BY <1>2, WriteType DEF WriteError
  <2>2. MemoryTypeOK' /\ ControlTypeOK'
    BY <1>2, FailType DEF WriteError
  <2>3. GhostTypeOK'
    BY <1>2, BoundAssumption DEF WriteError, Fault, GhostTypeOK
  <2>. QED  BY <2>1, <2>2, <2>3
<1>3. CASE NoWriter
  BY <1>3, MediumUnchanged, FailType, GhostUnchanged DEF NoWriter
<1>. QED  BY <1>1, <1>2, <1>3

\* The actions that open and close the writer file.
LEMMA WriterFileType ==
    ASSUME TypeOK, OpenWriter \/ OpenWriterError \/ CloseWriter
    PROVE  TypeOK'
<1>. USE TypeParts, TypePartsNext
<1>1. CASE OpenWriter
  <2>1. todo # <<>> /\ Arg \in Slots
    BY <1>1, ArgType DEF OpenWriter, At, ControlTypeOK
  <2>2. MemoryTypeOK'
    BY <1>1, <2>1 DEF OpenWriter, MemoryTypeOK
  <2>3. ControlTypeOK'
    BY <1>1, <2>1, ContinueControl DEF OpenWriter
  <2>. QED  BY <1>1, <2>2, <2>3, MediumUnchanged, GhostUnchanged DEF OpenWriter
<1>2. CASE OpenWriterError
  <2>1. CASE Reset
    BY <2>1, <1>2, ResetType, MediumUnchanged, BoundAssumption
       DEF OpenWriterError, Fault, GhostTypeOK
  <2>2. CASE mode # "init" /\ ~Reset
    <3>0. /\ writer_fd' = NoFd
          /\ todo' = <<>>
          /\ UNCHANGED <<state, segments, active_segment, active_write_offset,
                         write_buf, write_buf_offset, sparse_index, mode>>
      BY <2>2, <1>2 DEF OpenWriterError
    <3>1. MemoryTypeOK' /\ ControlTypeOK'
      BY <3>0 DEF MemoryTypeOK, ControlTypeOK
    <3>2. GhostTypeOK'
      BY <1>2, BoundAssumption DEF OpenWriterError, Fault, GhostTypeOK
    <3>. QED  BY <1>2, <3>1, <3>2, MediumUnchanged DEF OpenWriterError
  <2>. QED  BY <1>2, <2>1, <2>2 DEF OpenWriterError
<1>3. CASE CloseWriter
  <2>1. todo # <<>>
    BY <1>3 DEF CloseWriter, At
  <2>2. MemoryTypeOK'
    BY <1>3 DEF CloseWriter, MemoryTypeOK
  <2>3. ControlTypeOK'
    BY <1>3, <2>1, ContinueControl DEF CloseWriter
  <2>. QED  BY <1>3, <2>2, <2>3, MediumUnchanged, GhostUnchanged DEF CloseWriter
<1>. QED  BY <1>1, <1>2, <1>3

\* A call of a typed continuation that leaves the rest alone.
LEMMA PureCall ==
    ASSUME TypeOK, todo # <<>>, NEW steps \in Seq(Steps), Call(steps),
           UNCHANGED <<medium, mode, memory, acked, faults>>
    PROVE  TypeOK'
  BY TypeParts, TypePartsNext, CallControl, MediumUnchanged, MemoryUnchanged, GhostUnchanged

\* The actions of a flush, and the check for space of an append.
LEMMA FlushType ==
    ASSUME TypeOK, Flush \/ Flushed \/ PrepareSpace \/ NoEntry
    PROVE  TypeOK'
<1>. USE TypeParts, TypePartsNext
<1>1. CASE Flush
  <2>1. Do("write_buffer") \in Steps /\ Do("commit") \in Steps /\ Do("flushed") \in Steps
    BY DoType
  <2>2. FlushSteps \in Seq(Steps) /\ <<>> \in Seq(Steps)
    BY <2>1 DEF FlushSteps
  <2>. DEFINE steps == IF write_buf = <<>> THEN <<>> ELSE FlushSteps
  <2>3. steps \in Seq(Steps)
    BY <2>2
  <2>4. Call(steps) /\ todo # <<>>
    BY <1>1 DEF Flush, At
  <2>. HIDE DEF steps
  <2>. QED  BY <1>1, <2>3, <2>4, PureCall DEF Flush
<1>2. CASE Flushed
  <2>1. todo # <<>>
    BY <1>2 DEF Flushed, At
  <2>2. \A k \in DOMAIN write_buf : write_buf[k] \in Cell
    BY ElementOfSeq DEF MemoryTypeOK
  <2>3. GhostTypeOK'
    BY <1>2, <2>2 DEF Flushed, GhostTypeOK, Cell
  <2>4. MemoryTypeOK'
    BY <1>2 DEF Flushed, MemoryTypeOK
  <2>. QED  BY <1>2, <2>1, <2>3, <2>4, MediumUnchanged, ContinueControl DEF Flushed
<1>3. CASE PrepareSpace
  <2>1. Do("open_next") \in Steps
    BY DoType
  <2>2. SealSteps \o <<Do("open_next")>> \in Seq(Steps) /\ <<>> \in Seq(Steps)
    BY <2>1, SealStepsType, ConcatProperties
  <2>. DEFINE steps == IF HasSpace(Arg) THEN <<>> ELSE SealSteps \o <<Do("open_next")>>
  <2>3. steps \in Seq(Steps)
    BY <2>2
  <2>4. Call(steps) /\ todo # <<>>
    BY <1>3 DEF PrepareSpace, At
  <2>. HIDE DEF steps
  <2>. QED  BY <1>3, <2>3, <2>4, PureCall DEF PrepareSpace
<1>4. CASE NoEntry
  BY <1>4, MediumUnchanged, FailType, GhostUnchanged DEF NoEntry
<1>. QED  BY <1>1, <1>2, <1>3, <1>4

\* Accounting for an entry leaves a typed descriptor.
LEMMA AccountType ==
    ASSUME MemoryTypeOK, NEW id \in Nat, NEW n \in 1 .. Capacity, Account(id, n)
    PROVE  /\ sparse_index' \in IdSets
           /\ segments' \in [Slots -> Descriptor]
           /\ active_write_offset' \in Nat
<1>. DEFINE slot    == active_segment.slot
            indexed == IF IndexesNext(segments[slot]) THEN sparse_index \cup {id} ELSE sparse_index
<1>1. indexed \in IdSets
  <2>1. sparse_index \in SUBSET Nat /\ IsFiniteSet(sparse_index)
    BY DEF MemoryTypeOK, IdSets
  <2>2. IsFiniteSet(sparse_index \cup {id})
    BY <2>1, FS_AddElement
  <2>3. sparse_index \cup {id} \in IdSets
    BY <2>1, <2>2 DEF IdSets
  <2>. QED  BY <2>3 DEF MemoryTypeOK
<1>2. Cardinality(indexed) \in Nat
  BY <1>1, FS_CardinalityType DEF IdSets
<1>3. slot \in Slots /\ segments[slot] \in Descriptor /\ active_write_offset \in Nat /\ n \in Nat
  BY CapacityAssumption DEF MemoryTypeOK
<1>. DEFINE d == segments[slot]
            new == [d EXCEPT !.first_entry_id = IF d.entry_count = 0 THEN id ELSE @,
                             !.last_entry_id  = id,
                             !.entry_count    = @ + 1,
                             !.data_end       = active_write_offset + n,
                             !.index_count    = Cardinality(indexed)]
<1>4. /\ sparse_index' = indexed
      /\ segments' = [segments EXCEPT ![slot] = new]
      /\ active_write_offset' = active_write_offset + n
  BY DEF Account
<1>5. new \in Descriptor
  <2>. DEFINE first  == IF d.entry_count = 0 THEN id ELSE d.first_entry_id
              count  == d.entry_count + 1
              end    == active_write_offset + n
              marked == Cardinality(indexed)
  <2>1. first \in Nat /\ count \in Nat /\ end \in Nat /\ marked \in Nat /\ d \in Descriptor
    <3>1. d \in Descriptor /\ d.entry_count \in Nat /\ d.first_entry_id \in Nat
      BY <1>3 DEF Descriptor
    <3>. HIDE DEF indexed, d
    <3>. QED  BY <3>1, <1>2, <1>3
  <2>2. new = [d EXCEPT !.first_entry_id = first, !.last_entry_id = id, !.entry_count = count,
                        !.data_end = end, !.index_count = marked]
    OBVIOUS
  <2>. HIDE DEF first, count, end, marked, d, new, indexed, slot
  <2>. QED  BY <2>1, <2>2 DEF Descriptor
<1>. HIDE DEF new, indexed
<1>. QED  BY <1>1, <1>3, <1>4, <1>5 DEF MemoryTypeOK

\* Taking an id leaves a typed state.
LEMMA MadeEntryType ==
    ASSUME state \in StateRecord
    PROVE  MadeEntry \in StateRecord
<1>. DEFINE sequence == state.next_entry_sequence + 1
<1>1. sequence \in Nat /\ NewEntryId \in Nat
  BY NewEntryIdType DEF StateRecord
<1>2. MadeEntry = [state EXCEPT !.next_entry_sequence = sequence, !.newest_entry_id = NewEntryId]
  BY DEF MadeEntry
<1>. HIDE DEF sequence
<1>. QED  BY <1>1, <1>2 DEF StateRecord

\* The other actions of an append.
LEMMA EntryType ==
    ASSUME TypeOK, PutEntry \/ ReserveEntry \/ AccountEntry \/ Acknowledge
    PROVE  TypeOK'
<1>. USE TypeParts, TypePartsNext
<1>1. CASE PutEntry
  <2>1. todo # <<>> /\ Arg \in 1 .. Capacity
    BY <1>1, ArgType DEF PutEntry, At, ControlTypeOK
  <2>2. NewEntryId \in Nat /\ MadeEntry \in StateRecord
    BY NewEntryIdType, MadeEntryType DEF MemoryTypeOK
  <2>3. EntryCells(NewEntryId, active_segment.generation, Arg) \in Seq(Cell)
    BY <2>1, <2>2, EntryCellsType DEF MemoryTypeOK
  <2>4. write_buf' \in Seq(Cell)
    BY <1>1, <2>3, ConcatProperties DEF PutEntry, MemoryTypeOK
  <2>5. /\ sparse_index' \in IdSets
        /\ segments' \in [Slots -> Descriptor]
        /\ active_write_offset' \in Nat
    BY <1>1, <2>1, <2>2, AccountType DEF PutEntry
  <2>6. MemoryTypeOK'
    BY <1>1, <2>2, <2>4, <2>5 DEF PutEntry, MemoryTypeOK
  <2>7. ControlTypeOK'
    BY <1>1, <2>1, ContinueControl DEF PutEntry
  <2>. QED  BY <1>1, <2>6, <2>7, MediumUnchanged, GhostUnchanged DEF PutEntry
<1>2. CASE ReserveEntry
  <2>1. todo # <<>>
    BY <1>2 DEF ReserveEntry, At
  <2>2. MemoryTypeOK'
    BY <1>2, MadeEntryType DEF ReserveEntry, MemoryTypeOK
  <2>. QED  BY <1>2, <2>1, <2>2, MediumUnchanged, ContinueControl, GhostUnchanged DEF ReserveEntry
<1>3. CASE AccountEntry
  <2>1. todo # <<>> /\ Arg \in 1 .. Capacity
    BY <1>3, ArgType DEF AccountEntry, At, ControlTypeOK
  <2>2. /\ sparse_index' \in IdSets
        /\ segments' \in [Slots -> Descriptor]
        /\ active_write_offset' \in Nat
    BY <1>3, <2>1, AccountType DEF AccountEntry, MemoryTypeOK, StateRecord
  <2>3. MemoryTypeOK'
    BY <1>3, <2>2 DEF AccountEntry, MemoryTypeOK
  <2>. QED  BY <1>3, <2>1, <2>3, MediumUnchanged, ContinueControl, GhostUnchanged DEF AccountEntry
<1>4. CASE Acknowledge
  <2>1. todo # <<>>
    BY <1>4 DEF Acknowledge, At
  <2>2. GhostTypeOK'
    BY <1>4 DEF Acknowledge, GhostTypeOK, MemoryTypeOK, StateRecord
  <2>. QED  BY <1>4, <2>1, <2>2, MediumUnchanged, MemoryUnchanged, ContinueControl DEF Acknowledge
<1>. QED  BY <1>1, <1>2, <1>3, <1>4

\* The slot after the active one is a slot: the ring wraps.
LEMMA NextSlotType == MemoryTypeOK => NextSlot \in Slots
<1>1. \A k, n \in Nat : n > 0 => k % n \in 0 .. n - 1
  OBVIOUS
<1>2. MemoryTypeOK => state.active_slot + 1 \in Nat
  BY SegmentCountAssumption DEF MemoryTypeOK, StateRecord, Slots
<1>3. SegmentCount \in Nat /\ SegmentCount > 0
  BY SegmentCountAssumption
<1>. QED  BY <1>1, <1>2, <1>3 DEF NextSlot, Slots

\* The actions of sealing and rotation.
LEMMA RotationType ==
    ASSUME TypeOK, Sealed \/ OpenNext \/ Retire \/ Activate
    PROVE  TypeOK'
<1>. USE TypeParts, TypePartsNext
<1>1. CASE Sealed
  <2>1. todo # <<>>
    BY <1>1 DEF Sealed, At
  <2>2. Cardinality(sparse_index) \in Nat
    BY FS_CardinalityType DEF MemoryTypeOK, IdSets
  <2>3. segments' \in [Slots -> Descriptor]
    <3>1. segments \in [Slots -> Descriptor]
      BY DEF MemoryTypeOK
    <3>2. \A d \in Descriptor, n \in Nat :
             [d EXCEPT !.sealed = TRUE, !.index_count = n] \in Descriptor
      BY DEF Descriptor
    <3>. QED  BY <1>1, <2>2, <3>1, <3>2 DEF Sealed
  <2>4. MemoryTypeOK'
    BY <1>1, <2>3 DEF Sealed, MemoryTypeOK
  <2>. QED  BY <1>1, <2>1, <2>4, MediumUnchanged, ContinueControl, GhostUnchanged DEF Sealed
<1>2. CASE OpenNext
  <2>1. CASE state.next_generation = 0
    BY <1>2, <2>1, MediumUnchanged, FailType, GhostUnchanged DEF OpenNext
  <2>2. CASE state.next_generation # 0
    <3>. DEFINE steps == <<<<"retire", NextSlot>>, <<"open_writer", NextSlot>>,
                           <<"header", 0>>, <<"header", 1>>, Do("activate"), Do("commit")>>
    <3>1. /\ <<"retire", NextSlot>> \in Steps /\ <<"open_writer", NextSlot>> \in Steps
          /\ <<"header", 0>> \in Steps /\ <<"header", 1>> \in Steps
          /\ Do("activate") \in Steps /\ Do("commit") \in Steps
      BY NextSlotType, SlotStepType, CopyStepType, DoType DEF Copies
    <3>2. steps \in Seq(Steps)
      BY <3>1
    <3>3. Call(steps) /\ todo # <<>>
      BY <1>2, <2>2 DEF OpenNext, At
    <3>. HIDE DEF steps
    <3>. QED  BY <1>2, <2>2, <3>2, <3>3, PureCall DEF OpenNext
  <2>. QED  BY <2>1, <2>2
<1>3. CASE Retire
  <2>1. todo # <<>> /\ Arg \in Slots
    BY <1>3, ArgType DEF Retire, At, ControlTypeOK
  <2>2. CASE ~segments[Arg].valid
    <3>1. MemoryTypeOK'
      BY <1>3, <2>2 DEF Retire, MemoryTypeOK
    <3>. QED  BY <1>3, <2>1, <2>2, <3>1, MediumUnchanged, ContinueControl, GhostUnchanged DEF Retire
  <2>3. CASE segments[Arg].valid
    <3>. DEFINE remaining == [segments EXCEPT ![Arg] = NoSegment]
    <3>1. remaining \in [Slots -> Descriptor]
      BY FreshType DEF MemoryTypeOK
    <3>2. OldestGeneration(remaining) \in Nat
      <4>. HIDE DEF remaining
      <4>. QED  BY <3>1, OldestType
    <3>3. /\ segments' = remaining
          /\ state' = [state EXCEPT !.oldest_generation = OldestGeneration(remaining)]
          /\ acked' \subseteq acked
          /\ Call(RetireSteps)
          /\ UNCHANGED <<medium, active_segment, active_write_offset, write_buf,
                         write_buf_offset, writer_fd, sparse_index, mode, faults>>
      BY <1>3, <2>3 DEF Retire
    <3>. HIDE DEF remaining
    <3>4. MemoryTypeOK'
      BY <3>1, <3>2, <3>3 DEF MemoryTypeOK, StateRecord
    <3>5. RetireSteps \in Seq(Steps)
      <4>1. Do("commit") \in Steps
        BY DoType
      <4>. QED  BY <4>1 DEF RetireSteps
    <3>6. ControlTypeOK'
      BY <2>1, <3>3, <3>5, CallControl
    <3>7. GhostTypeOK'
      BY <3>3 DEF GhostTypeOK
    <3>. QED  BY <3>3, <3>4, <3>6, <3>7, MediumUnchanged
  <2>. QED  BY <2>2, <2>3
<1>4. CASE Activate
  <2>. DEFINE g == state.next_generation
              activated == [segments EXCEPT ![NextSlot] = FreshSegment(g)]
  <2>1. todo # <<>> /\ g \in Nat /\ NextSlot \in Slots
    BY <1>4, NextSlotType DEF Activate, At, MemoryTypeOK, StateRecord
  <2>2. activated \in [Slots -> Descriptor]
    BY <2>1, FreshType DEF MemoryTypeOK
  <2>3. OldestGeneration(activated) \in Nat
    <3>. HIDE DEF activated
    <3>. QED  BY <2>2, OldestType
  <2>4. /\ active_segment' = [slot |-> NextSlot, generation |-> g]
        /\ segments' = activated
        /\ state' = [state EXCEPT !.active_slot = NextSlot,
                                  !.active_generation = g,
                                  !.next_generation = g + 1,
                                  !.oldest_generation = OldestGeneration(activated)]
        /\ active_write_offset' = 0 /\ write_buf' = <<>> /\ write_buf_offset' = 0
        /\ sparse_index' = {} /\ Continue
        /\ UNCHANGED <<medium, writer_fd, mode, acked, faults>>
    BY <1>4 DEF Activate
  <2>. HIDE DEF activated
  <2>5. state' \in StateRecord
    <3>. DEFINE oldest == OldestGeneration(activated)
                next   == g + 1
    <3>1. oldest \in Nat /\ next \in Nat /\ state \in StateRecord
      BY <2>1, <2>3 DEF MemoryTypeOK
    <3>2. state' = [state EXCEPT !.active_slot = NextSlot, !.active_generation = g,
                                 !.next_generation = next, !.oldest_generation = oldest]
      BY <2>4
    <3>. HIDE DEF oldest, next, g
    <3>. QED  BY <2>1, <3>1, <3>2 DEF StateRecord
  <2>6. sparse_index' \in IdSets
    BY <2>4, FS_EmptySet DEF IdSets
  <2>7. MemoryTypeOK'
    BY <2>1, <2>2, <2>4, <2>5, <2>6 DEF MemoryTypeOK
  <2>. QED  BY <2>1, <2>4, <2>7, MediumUnchanged, ContinueControl, GhostUnchanged
<1>. QED  BY <1>1, <1>2, <1>3, <1>4

\* Adopting a slot leaves the memory typed.
LEMMA AdoptType ==
    ASSUME TypeOK, NEW s \in Slots, NEW g \in Nat, Adopt(s, g)
    PROVE  /\ segments' \in [Slots -> Descriptor]
           /\ sparse_index' \in IdSets
           /\ active_segment' \in [slot : Slots, generation : Nat]
           /\ active_write_offset' \in Nat
           /\ UNCHANGED <<state, write_buf, writer_fd, mode>>
<1>1. Scan(s, g, TRUE) \in Descriptor
  BY ScanType DEF TypeOK
<1>2. ScannedIndex(s, g) \in IdSets
  BY ScannedIndexType DEF TypeOK
<1>. QED  BY <1>1, <1>2 DEF Adopt, TypeOK, MemoryTypeOK, Descriptor

\* A slot adopted for sealing, and the steps that seal it.
LEMMA AdoptAndSeal ==
    ASSUME TypeOK, todo # <<>>, NEW s \in Slots, NEW g \in Nat, Adopt(s, g),
           write_buf_offset' \in Nat,
           Call(<<<<"open_writer", s>>>> \o SealSteps \o <<Do("close_writer")>>)
    PROVE  MemoryTypeOK' /\ ControlTypeOK'
<1>1. <<"open_writer", s>> \in Steps /\ Do("close_writer") \in Steps
  BY SlotStepType, DoType
<1>2. <<<<"open_writer", s>>>> \in Seq(Steps) /\ <<Do("close_writer")>> \in Seq(Steps)
  BY <1>1
<1>3. <<<<"open_writer", s>>>> \o SealSteps \o <<Do("close_writer")>> \in Seq(Steps)
  BY <1>2, SealStepsType, ConcatProperties
<1>4. MemoryTypeOK'
  BY AdoptType DEF TypeOK, MemoryTypeOK
<1>5. ControlTypeOK'
  BY <1>3, AdoptType, CallControl, TypeParts
<1>. QED  BY <1>4, <1>5

\* Setting one descriptor.
LEMMA SetDescriptorType ==
    ASSUME TypeOK, todo # <<>>, NEW s \in Slots, NEW d \in Descriptor, SetDescriptor(s, d)
    PROVE  MemoryTypeOK' /\ ControlTypeOK'
<1>1. MemoryTypeOK'
  BY DEF SetDescriptor, TypeOK, MemoryTypeOK
<1>. QED  BY <1>1, ContinueControl, TypeParts DEF SetDescriptor

\* Setting the state.
LEMMA SetStateType ==
    ASSUME TypeOK, todo # <<>>, NEW new \in StateRecord, SetState(new)
    PROVE  MemoryTypeOK' /\ ControlTypeOK'
<1>1. MemoryTypeOK'
  BY DEF SetState, TypeOK, MemoryTypeOK
<1>. QED  BY <1>1, ContinueControl, TypeParts DEF SetState

\* The recovery of one slot.
LEMMA RecoverType ==
    ASSUME TypeOK, Recover
    PROVE  TypeOK'
<1>. DEFINE s == Arg
            g == HeaderGeneration(s)
<1>1. todo # <<>> /\ s \in Slots
  BY ArgType, TypeParts DEF Recover, At, ControlTypeOK
<1>2. MemoryTypeOK' /\ ControlTypeOK'
  <2>1. CASE ~HeaderReadable(s)
    BY <2>1, FailType, TypeParts DEF Recover
  <2>2. CASE HeaderReadable(s) /\ Outdated(g)
    BY <1>1, <2>2, SetDescriptorType, FreshType DEF Recover
  <2>3. CASE HeaderReadable(s) /\ ~Outdated(g) /\ ~HasFooter(s, g)
    <3>1. Scan(s, g, FALSE) \in Descriptor
      BY <1>1, <2>3, HeaderGenerationType, ScanType, TypeParts
    <3>. QED  BY <1>1, <2>3, <3>1, SetDescriptorType DEF Recover
  <2>4. CASE HeaderReadable(s) /\ ~Outdated(g) /\ HasFooter(s, g) /\ IndexValid(s, Footer(s, g))
    <3>1. SealedSegment(Footer(s, g)) \in Descriptor
      BY <1>1, <2>4, FooterType, SealedSegmentType, TypeParts
    <3>. QED  BY <1>1, <2>4, <3>1, SetDescriptorType DEF Recover
  <2>5. CASE HeaderReadable(s) /\ ~Outdated(g) /\ HasFooter(s, g) /\ ~IndexValid(s, Footer(s, g))
    <3>1. Repair(s, g)
      BY <2>5 DEF Recover
    <3>2. CASE Fail
      BY <3>2, FailType, TypeParts
    <3>3. CASE /\ Adopt(s, g)
               /\ write_buf_offset' = active_write_offset'
               /\ Call(<<<<"open_writer", s>>>> \o SealSteps \o <<Do("close_writer")>>)
      <4>1. g \in Nat
        BY <1>1, <2>5, HeaderGenerationType, TypeParts
      <4>2. write_buf_offset' \in Nat
        BY <1>1, <3>3, <4>1, AdoptType
      <4>. QED  BY <1>1, <3>3, <4>1, <4>2, AdoptAndSeal
    <3>. QED  BY <3>1, <3>2, <3>3 DEF Repair
  <2>. QED  BY <2>1, <2>2, <2>3, <2>4, <2>5
<1>. QED  BY <1>2, MediumUnchanged, GhostUnchanged, TypeParts, TypePartsNext DEF Recover

\* The choice of the highest generation.
LEMMA PickHighestType ==
    ASSUME TypeOK, PickHighest
    PROVE  TypeOK'
<1>. DEFINE highest == HighestGeneration(segments)
<1>1. MemoryTypeOK' /\ ControlTypeOK'
  <2>1. CASE highest = 0
    BY <2>1, FailType, TypeParts DEF PickHighest
  <2>2. CASE highest # 0
    <3>. DEFINE next == Max({state.next_generation, highest + 1})
                slot == HighestSlot(segments)
    <3>1. highest \in Nat /\ slot \in Slots /\ state \in StateRecord
      BY HighestType DEF TypeOK, MemoryTypeOK
    <3>2. next \in Nat
      BY <3>1, MaxOfTwo DEF StateRecord
    <3>3. /\ state' = [state EXCEPT !.active_slot = slot, !.active_generation = highest,
                                     !.next_generation = next]
          /\ Continue /\ todo # <<>>
          /\ UNCHANGED <<segments, active_segment, active_write_offset, write_buf,
                         write_buf_offset, writer_fd, sparse_index, mode>>
      BY <2>2 DEF PickHighest, At
    <3>. HIDE DEF next, slot, highest
    <3>4. state' \in StateRecord
      BY <3>1, <3>2, <3>3 DEF StateRecord
    <3>5. MemoryTypeOK'
      BY <3>3, <3>4 DEF TypeOK, MemoryTypeOK
    <3>. QED  BY <3>3, <3>5, ContinueControl, TypeParts
  <2>. QED  BY <2>1, <2>2
<1>. QED  BY <1>1, MediumUnchanged, GhostUnchanged, TypeParts, TypePartsNext DEF PickHighest

\* Sealing what a crash left open.
LEMMA SealRecoveredType ==
    ASSUME TypeOK, SealRecovered
    PROVE  TypeOK'
<1>. DEFINE s == Arg
            g == HeaderGeneration(s)
<1>1. todo # <<>> /\ s \in Slots
  BY ArgType, TypeParts DEF SealRecovered, At, ControlTypeOK
<1>2. MemoryTypeOK' /\ ControlTypeOK'
  <2>1. CASE ~LeftBehind(s)
    BY <1>1, <2>1, ContinueControl, MemoryUnchanged, TypeParts DEF SealRecovered, Skip
  <2>2. CASE LeftBehind(s) /\ ~HeaderReadable(s)
    BY <2>2, FailType, TypeParts DEF SealRecovered
  <2>3. CASE LeftBehind(s) /\ HeaderReadable(s)
    <3>1. g \in Nat
      BY <1>1, <2>3, HeaderGenerationType, TypeParts
    <3>2. /\ Adopt(s, g)
          /\ UNCHANGED write_buf_offset
          /\ Call(<<<<"open_writer", s>>>> \o SealSteps \o <<Do("close_writer")>>)
      BY <2>3 DEF SealRecovered
    <3>3. write_buf_offset' \in Nat
      BY <3>2 DEF TypeOK, MemoryTypeOK
    <3>. QED  BY <1>1, <3>1, <3>2, <3>3, AdoptAndSeal
  <2>. QED  BY <2>1, <2>2, <2>3
<1>. QED  BY <1>2, MediumUnchanged, GhostUnchanged, TypeParts, TypePartsNext DEF SealRecovered

\* The choice of the active segment.
LEMMA SelectActiveType ==
    ASSUME TypeOK, SelectActive
    PROVE  TypeOK'
<1>. DEFINE s == HighestSlot(segments)
            g == HeaderGeneration(s)
<1>1. todo # <<>> /\ s \in Slots
  BY HighestType DEF SelectActive, At, TypeOK, MemoryTypeOK
<1>2. MemoryTypeOK' /\ ControlTypeOK'
  <2>1. CASE ~HeaderReadable(s)
    BY <2>1, FailType, TypeParts DEF SelectActive
  <2>2. CASE HeaderReadable(s) /\ ~segments[s].sealed
    <3>1. g \in Nat
      BY <1>1, <2>2, HeaderGenerationType, TypeParts
    <3>2. /\ Adopt(s, g)
          /\ write_buf_offset' = active_write_offset'
          /\ Call(<<<<"open_writer", s>>>>)
      BY <2>2 DEF SelectActive
    <3>3. MemoryTypeOK' /\ UNCHANGED mode
      BY <1>1, <3>1, <3>2, AdoptType DEF TypeOK, MemoryTypeOK
    <3>4. <<<<"open_writer", s>>>> \in Seq(Steps)
      <4>1. <<"open_writer", s>> \in Steps
        BY <1>1, SlotStepType
      <4>. QED  BY <4>1
    <3>. QED  BY <1>1, <3>2, <3>3, <3>4, CallControl, TypeParts
  <2>3. CASE HeaderReadable(s) /\ segments[s].sealed
    <3>. DEFINE active == [slot |-> s, generation |-> g]
    <3>1. active \in [slot : Slots, generation : Nat]
      BY <1>1, <2>3, HeaderGenerationType, TypeParts
    <3>2. /\ active_segment' = active
          /\ state' = RecoveredState(active)
          /\ Call(<<Do("open_next")>>)
          /\ UNCHANGED <<segments, active_write_offset, write_buf,
                         write_buf_offset, writer_fd, sparse_index, mode>>
      BY <2>3 DEF SelectActive
    <3>. HIDE DEF active
    <3>3. RecoveredState(active) \in StateRecord
      BY <3>1, RecoveredStateType DEF TypeOK, MemoryTypeOK
    <3>4. MemoryTypeOK'
      BY <3>1, <3>2, <3>3 DEF TypeOK, MemoryTypeOK
    <3>5. <<Do("open_next")>> \in Seq(Steps)
      <4>1. Do("open_next") \in Steps
        BY DoType
      <4>. QED  BY <4>1
    <3>. QED  BY <1>1, <3>2, <3>4, <3>5, CallControl, TypeParts
  <2>. QED  BY <2>1, <2>2, <2>3
<1>. QED  BY <1>2, MediumUnchanged, GhostUnchanged, TypeParts, TypePartsNext DEF SelectActive

\* The end of init(), and the end of deinit().
LEMMA BootType ==
    ASSUME TypeOK, Settle \/ CountBoot \/ AppendBoot \/ Ready \/ Close
    PROVE  TypeOK'
<1>. USE TypeParts, TypePartsNext
<1>1. CASE Settle
  <2>1. RecoveredState(active_segment) \in StateRecord /\ todo # <<>>
    BY <1>1, RecoveredStateType DEF Settle, At, MemoryTypeOK
  <2>. QED  BY <1>1, <2>1, SetStateType, MediumUnchanged, GhostUnchanged DEF Settle
<1>2. CASE CountBoot
  <2>1. CASE state.boot_counter >= BootMask
    BY <1>2, <2>1, FailType, MediumUnchanged, GhostUnchanged DEF CountBoot
  <2>2. CASE ~(state.boot_counter >= BootMask)
    <3>. DEFINE boot == state.boot_counter + 1
                new  == [state EXCEPT !.boot_counter = boot, !.next_entry_sequence = 0]
    <3>1. SetState(new) /\ todo # <<>>
      BY <1>2, <2>2 DEF CountBoot, At
    <3>2. boot \in Nat
      BY DEF MemoryTypeOK, StateRecord
    <3>. HIDE DEF boot
    <3>3. new \in StateRecord
      BY <3>2 DEF MemoryTypeOK, StateRecord
    <3>. HIDE DEF new
    <3>. QED  BY <1>2, <3>1, <3>3, SetStateType, MediumUnchanged, GhostUnchanged DEF CountBoot
  <2>. QED  BY <2>1, <2>2
<1>3. CASE AppendBoot
  BY <1>3, BootEntryAssumption, AppendStepsType, PureCall DEF AppendBoot, At
<1>4. CASE Ready
  <2>1. ControlTypeOK'
    BY <1>4, ContinueType DEF Ready, At, ControlTypeOK
  <2>. QED  BY <1>4, <2>1, MediumUnchanged, MemoryUnchanged, GhostUnchanged DEF Ready
<1>5. CASE Close
  BY <1>5, ResetType, MediumUnchanged, GhostUnchanged DEF Close
<1>. QED  BY <1>1, <1>2, <1>3, <1>4, <1>5

\* The calls of the application.
LEMMA OperationType ==
    ASSUME TypeOK, StartInit \/ AppendEntry \/ FlushWrite \/ Deinit
    PROVE  TypeOK'
<1>. USE TypeParts, TypePartsNext
<1>1. CASE StartInit
  <2>1. MemoryTypeOK'
    BY <1>1 DEF StartInit, MemoryTypeOK, MediumTypeOK
  <2>2. ControlTypeOK'
    BY <1>1, InitStepsType DEF StartInit, ControlTypeOK
  <2>. QED  BY <1>1, <2>1, <2>2, MediumUnchanged, GhostUnchanged DEF StartInit
<1>2. CASE AppendEntry
  <2>1. PICK n \in EntrySizes, force_flush \in BOOLEAN : todo' = AppendSteps(n, force_flush)
    BY <1>2 DEF AppendEntry
  <2>2. todo' \in Seq(Steps)
    BY <2>1, EntrySizesAssumption, AppendStepsType
  <2>3. ControlTypeOK'
    BY <1>2, <2>2 DEF AppendEntry, ControlTypeOK
  <2>. QED  BY <1>2, <2>3, MediumUnchanged, MemoryUnchanged, GhostUnchanged DEF AppendEntry
<1>3. CASE FlushWrite
  <2>1. <<Do("flush")>> \in Seq(Steps)
    <3>1. Do("flush") \in Steps
      BY DoType
    <3>. QED  BY <3>1
  <2>2. ControlTypeOK'
    BY <1>3, <2>1 DEF FlushWrite, ControlTypeOK
  <2>. QED  BY <1>3, <2>2, MediumUnchanged, MemoryUnchanged, GhostUnchanged DEF FlushWrite
<1>4. CASE Deinit
  <2>1. PICK force \in BOOLEAN :
            todo' = (IF force THEN <<>> ELSE <<Do("flush")>>) \o <<Do("close")>>
    BY <1>4 DEF Deinit
  <2>2. (IF force THEN <<>> ELSE <<Do("flush")>>) \in Seq(Steps) /\ <<Do("close")>> \in Seq(Steps)
    <3>1. Do("flush") \in Steps /\ Do("close") \in Steps
      BY DoType
    <3>. QED  BY <3>1
  <2>3. todo' \in Seq(Steps)
    BY <2>1, <2>2, ConcatProperties
  <2>4. ControlTypeOK'
    BY <1>4, <2>3 DEF Deinit, ControlTypeOK
  <2>. QED  BY <1>4, <2>4, MediumUnchanged, MemoryUnchanged, GhostUnchanged DEF Deinit
<1>. QED  BY <1>1, <1>2, <1>3, <1>4

\* Power losses and decay of the card.
LEMMA EnvironmentType ==
    ASSUME TypeOK, RotIndex \/ RotData \/ Crash
    PROVE  TypeOK'
<1>. USE TypeParts, TypePartsNext
<1>1. CASE RotIndex
  <2>1. MediumTypeOK'
    BY <1>1 DEF RotIndex, MediumTypeOK
  <2>2. GhostTypeOK'
    BY <1>1, BoundAssumption DEF RotIndex, Fault, GhostTypeOK
  <2>3. ControlTypeOK'
    BY <1>1 DEF RotIndex, control, ControlTypeOK
  <2>. QED  BY <1>1, <2>1, <2>2, <2>3, MemoryUnchanged DEF RotIndex
<1>2. CASE RotData
  <2>1. MediumTypeOK'
    BY <1>2 DEF RotData, MediumTypeOK
  <2>2. GhostTypeOK'
    BY <1>2, BoundAssumption DEF RotData, Fault, GhostTypeOK
  <2>3. ControlTypeOK'
    BY <1>2 DEF RotData, control, ControlTypeOK
  <2>. QED  BY <1>2, <2>1, <2>2, <2>3, MemoryUnchanged DEF RotData
<1>3. CASE Crash
  <2>1. MediumTypeOK'
    BY <1>3, WriteType, MediumUnchanged DEF Crash
  <2>. QED  BY <1>3, <2>1, ResetType, GhostUnchanged DEF Crash
<1>. QED  BY <1>1, <1>2, <1>3

\* The provisioned store is typed.
LEMMA InitType == Init => TypeOK
<1>. SUFFICES ASSUME Init PROVE TypeOK
  OBVIOUS
<1>1. MediumTypeOK
  <2>1. Provisioned \in StateRecord
    BY ZeroStateType DEF Provisioned, StateRecord
  <2>. QED  BY <2>1 DEF Init, MediumTypeOK
<1>2. MemoryTypeOK
  <2>1. sparse_index \in IdSets
    BY FS_EmptySet DEF Init, IdSets
  <2>2. segments \in [Slots -> Descriptor]
    BY FreshType DEF Init
  <2>3. active_segment \in [slot : Slots, generation : Nat]
    BY SegmentCountAssumption DEF Init, Slots
  <2>. QED  BY <2>1, <2>2, <2>3, ZeroStateType DEF Init, MemoryTypeOK
<1>3. ControlTypeOK /\ GhostTypeOK
  BY BoundAssumption DEF Init, ControlTypeOK, GhostTypeOK
<1>. QED  BY <1>1, <1>2, <1>3, TypeParts

\* Every action, by the lemma of its group.
LEMMA NextType == TypeOK /\ [Next]_vars => TypeOK'
<1>. SUFFICES ASSUME TypeOK, [Next]_vars PROVE TypeOK'
  OBVIOUS
<1>1. CASE Step
  BY <1>1, WritesType, WriterFileType, FlushType, EntryType, RotationType, RecoverType,
     PickHighestType, SealRecoveredType, SelectActiveType, BootType DEF Step
<1>2. CASE WriteError \/ OpenWriterError
  BY <1>2, WritesType, WriterFileType
<1>3. CASE StartInit \/ AppendEntry \/ FlushWrite \/ Deinit
  BY <1>3, OperationType
<1>4. CASE RotIndex \/ RotData \/ Crash
  BY <1>4, EnvironmentType
<1>5. CASE UNCHANGED vars
  <2>1. UNCHANGED <<medium, memory, mode, todo, acked, faults>>
    BY <1>5 DEF vars, control
  <2>2. ControlTypeOK'
    BY <2>1, TypeParts DEF ControlTypeOK
  <2>. QED  BY <2>1, <2>2, TypeParts, TypePartsNext, MediumUnchanged, MemoryUnchanged, GhostUnchanged
<1>. QED  BY <1>1, <1>2, <1>3, <1>4, <1>5 DEF Next

\* Whatever the ring's geometry, the sizes of the entries and the faults of the
\* medium: the store never leaves the ranges its records are declared with, and
\* every continuation consists of steps an action exists for.
THEOREM TypeCorrect == Spec => []TypeOK
<1>. QED  BY InitType, NextType, PTL DEF Spec

-----------------------------------------------------------------------------
(* The order of the steps still to take.                                    *)

\* The names of the steps.
Names == DOMAIN Place

\* Every step has a place.
LEMMA PlaceType == /\ Place \in [Names -> Nat] /\ Follow \in [Names -> Nat]
                   /\ \A x \in Steps : x[1] \in Names
<1>1. Place \in [Names -> Nat]
  BY DEF Place, Names
<1>2. Follow \in [Names -> Nat]
  BY <1>1 DEF Follow, Names
<1>3. \A x \in Steps : x[1] \in Names
  BY DEF Place, Names, Steps
<1>. QED  BY <1>1, <1>2, <1>3

\* The names, written out.
LEMMA NamesValue ==
    Names = {"write_buffer", "flushed", "write_index", "footer", "sealed", "close_writer",
             "open_next", "retire", "open_writer", "header", "activate", "prepare", "put",
             "flush", "reserve", "write_entry", "account", "acknowledge", "recover", "highest",
             "seal_recovered", "select", "settle", "count_boot", "commit", "append_boot",
             "ready", "close"}
  BY DEF Names, Place

\* The place of every step.
LEMMA PlaceValues ==
    /\ Place["write_buffer"] = 1 /\ Place["flushed"] = 3 /\ Place["write_index"] = 5
    /\ Place["footer"] = 7 /\ Place["sealed"] = 9 /\ Place["close_writer"] = 11
    /\ Place["open_next"] = 13 /\ Place["retire"] = 15 /\ Place["open_writer"] = 16
    /\ Place["header"] = 17 /\ Place["activate"] = 19 /\ Place["prepare"] = 21
    /\ Place["put"] = 29 /\ Place["flush"] = 31 /\ Place["reserve"] = 25
    /\ Place["write_entry"] = 27 /\ Place["account"] = 29 /\ Place["acknowledge"] = 31
    /\ Place["recover"] = 33 /\ Place["highest"] = 35 /\ Place["seal_recovered"] = 37
    /\ Place["select"] = 39 /\ Place["settle"] = 41 /\ Place["count_boot"] = 43
    /\ Place["commit"] = 44 /\ Place["append_boot"] = 45 /\ Place["ready"] = 47
    /\ Place["close"] = 47
  BY DEF Place

\* The earliest place behind every step and what it calls.
LEMMA FollowValues ==
    /\ Follow["write_buffer"] = 2 /\ Follow["flushed"] = 4 /\ Follow["write_index"] = 6
    /\ Follow["footer"] = 7 /\ Follow["sealed"] = 10 /\ Follow["close_writer"] = 12
    /\ Follow["open_next"] = 20 /\ Follow["retire"] = 16 /\ Follow["open_writer"] = 4
    /\ Follow["header"] = 17 /\ Follow["activate"] = 20 /\ Follow["prepare"] = 22
    /\ Follow["put"] = 30 /\ Follow["flush"] = 4 /\ Follow["reserve"] = 26
    /\ Follow["write_entry"] = 28 /\ Follow["account"] = 30 /\ Follow["acknowledge"] = 32
    /\ Follow["recover"] = 33 /\ Follow["highest"] = 36 /\ Follow["seal_recovered"] = 37
    /\ Follow["select"] = 40 /\ Follow["settle"] = 42 /\ Follow["count_boot"] = 44
    /\ Follow["commit"] = 2 /\ Follow["append_boot"] = 46 /\ Follow["ready"] = 48
    /\ Follow["close"] = 48
  BY DEF Follow, Place

\* The steps pending are the first and the rest.
LEMMA PendingSplit ==
    ASSUME todo \in Seq(Steps), todo # <<>>
    PROVE  Pending = {Head(todo)} \cup Rest /\ Pending \in SUBSET Steps /\ Rest \in SUBSET Steps
<1>1. /\ Head(todo) = todo[1] /\ Tail(todo) \in Seq(Steps)
      /\ DOMAIN todo = 1 .. Len(todo) /\ DOMAIN Tail(todo) = 1 .. Len(todo) - 1
      /\ \A i \in 1 .. Len(todo) - 1 : Tail(todo)[i] = todo[i + 1]
      /\ Len(todo) \in Nat \ {0}
  OBVIOUS
<1>2. \A i \in DOMAIN todo : i = 1 \/ \E k \in DOMAIN Tail(todo) : Tail(todo)[k] = todo[i]
  <2>. SUFFICES ASSUME NEW i \in 1 .. Len(todo), i # 1
                PROVE  \E k \in DOMAIN Tail(todo) : Tail(todo)[k] = todo[i]
    BY <1>1
  <2>1. PICK k \in Int : i = k + 1
    BY <1>1
  <2>2. k \in 1 .. Len(todo) - 1
    BY <1>1, <2>1
  <2>. QED  BY <1>1, <2>1, <2>2
<1>3. Pending \in SUBSET Steps /\ Rest \in SUBSET Steps
  BY <1>1 DEF Pending, Rest, StepsOf
<1>4. Pending \subseteq {Head(todo)} \cup Rest
  BY <1>1, <1>2 DEF Pending, Rest, StepsOf
<1>5. {Head(todo)} \cup Rest \subseteq Pending
  BY <1>1 DEF Pending, Rest, StepsOf
<1>. QED  BY <1>3, <1>4, <1>5

\* The steps of two lists in a row.
LEMMA StepsOfConcat ==
    ASSUME NEW p \in Seq(Steps), NEW q \in Seq(Steps)
    PROVE  StepsOf(p \o q) = StepsOf(p) \cup StepsOf(q)
<1>. DEFINE n == Len(p)
<1>1. /\ DOMAIN (p \o q) = 1 .. n + Len(q)
      /\ \A i \in 1 .. n : (p \o q)[i] = p[i]
      /\ \A i \in 1 .. Len(q) : (p \o q)[n + i] = q[i]
      /\ \A i \in n + 1 .. n + Len(q) : (p \o q)[i] = q[i - n]
      /\ Len(q) \in Nat /\ n \in Nat
      /\ DOMAIN p = 1 .. n /\ DOMAIN q = 1 .. Len(q)
  OBVIOUS
<1>. HIDE DEF n
<1>2. \A i \in 1 .. n + Len(q) : (p \o q)[i] \in StepsOf(p) \cup StepsOf(q)
  <2>. SUFFICES ASSUME NEW i \in 1 .. n + Len(q) PROVE (p \o q)[i] \in StepsOf(p) \cup StepsOf(q)
    OBVIOUS
  <2>1. CASE i \in 1 .. n
    BY <1>1, <2>1 DEF StepsOf
  <2>2. CASE i \in n + 1 .. n + Len(q)
    <3>1. i - n \in 1 .. Len(q) /\ (p \o q)[i] = q[i - n]
      BY <1>1, <2>2
    <3>. QED  BY <1>1, <3>1 DEF StepsOf
  <2>. QED  BY <1>1, <2>1, <2>2
<1>3. StepsOf(p \o q) \subseteq StepsOf(p) \cup StepsOf(q)
  BY <1>1, <1>2 DEF StepsOf
<1>4. \A i \in 1 .. n : p[i] \in StepsOf(p \o q)
  <2>. SUFFICES ASSUME NEW i \in 1 .. n PROVE p[i] \in StepsOf(p \o q)
    OBVIOUS
  <2>1. i \in DOMAIN (p \o q) /\ (p \o q)[i] = p[i]
    BY <1>1
  <2>. QED  BY <2>1 DEF StepsOf
<1>5. \A i \in 1 .. Len(q) : q[i] \in StepsOf(p \o q)
  <2>. SUFFICES ASSUME NEW i \in 1 .. Len(q) PROVE q[i] \in StepsOf(p \o q)
    OBVIOUS
  <2>1. n + i \in DOMAIN (p \o q) /\ (p \o q)[n + i] = q[i]
    BY <1>1
  <2>. QED  BY <2>1 DEF StepsOf
<1>6. StepsOf(p) \cup StepsOf(q) \subseteq StepsOf(p \o q)
  BY <1>1, <1>4, <1>5 DEF StepsOf
<1>. QED  BY <1>3, <1>6

\* Two ordered lists, each step of the second behind those of the first.
LEMMA OrderedConcat ==
    ASSUME NEW p \in Seq(Steps), NEW q \in Seq(Steps), Ordered(p), Ordered(q),
           \A x \in StepsOf(p), y \in StepsOf(q) : Follow[x[1]] <= Place[y[1]]
    PROVE  Ordered(p \o q)
<1>. DEFINE n == Len(p)
<1>1. /\ DOMAIN (p \o q) = 1 .. n + Len(q)
      /\ \A i \in 1 .. n : (p \o q)[i] = p[i]
      /\ \A i \in n + 1 .. n + Len(q) : (p \o q)[i] = q[i - n]
      /\ Len(q) \in Nat /\ n \in Nat
      /\ DOMAIN p = 1 .. n /\ DOMAIN q = 1 .. Len(q)
  OBVIOUS
<1>. HIDE DEF n
<1>2. SUFFICES ASSUME NEW i \in DOMAIN (p \o q), NEW j \in DOMAIN (p \o q), i < j
      PROVE  Follow[(p \o q)[i][1]] <= Place[(p \o q)[j][1]]
  BY DEF Ordered
<1>3. CASE j <= n
  BY <1>1, <1>2, <1>3 DEF Ordered
<1>4. CASE ~(j <= n)
  <2>1. j - n \in DOMAIN q /\ (p \o q)[j] = q[j - n]
    BY <1>1, <1>4
  <2>2. CASE i <= n
    <3>1. i \in DOMAIN p /\ (p \o q)[i] = p[i]
      BY <1>1, <1>2, <2>2
    <3>2. p[i] \in StepsOf(p) /\ q[j - n] \in StepsOf(q)
      BY <2>1, <3>1 DEF StepsOf
    <3>. QED  BY <2>1, <3>1, <3>2
  <2>3. CASE ~(i <= n)
    <3>1. i - n \in DOMAIN q /\ (p \o q)[i] = q[i - n] /\ i - n < j - n
      BY <1>1, <1>2, <2>3
    <3>. QED  BY <2>1, <3>1 DEF Ordered
  <2>. QED  BY <2>2, <2>3
<1>. QED  BY <1>3, <1>4

\* A call puts its steps in front of the rest.
LEMMA CallPending ==
    ASSUME todo \in Seq(Steps), todo # <<>>, NEW steps \in Seq(Steps), Call(steps)
    PROVE  Pending' = StepsOf(steps) \cup Rest
<1>1. Tail(todo) \in Seq(Steps) /\ todo' = steps \o Tail(todo)
  BY HeadTailProperties DEF Call
<1>. QED  BY <1>1, StepsOfConcat DEF Pending, Rest

\* What follows the first step of an ordered continuation.
LEMMA RestPlace ==
    ASSUME todo \in Seq(Steps), todo # <<>>, Ordered(todo)
    PROVE  /\ \A y \in Rest : Follow[Head(todo)[1]] <= Place[y[1]]
           /\ Ordered(Tail(todo))
<1>1. /\ Head(todo) = todo[1] /\ 1 \in DOMAIN todo
      /\ \A i \in DOMAIN Tail(todo) : i + 1 \in DOMAIN todo /\ 1 < i + 1 /\ Tail(todo)[i] = todo[i + 1]
      /\ DOMAIN Tail(todo) \in SUBSET Int
  OBVIOUS
<1>2. Ordered(Tail(todo))
  <2>. SUFFICES ASSUME NEW i \in DOMAIN Tail(todo), NEW j \in DOMAIN Tail(todo), i < j
                PROVE  Follow[Tail(todo)[i][1]] <= Place[Tail(todo)[j][1]]
    BY DEF Ordered
  <2>1. i + 1 < j + 1
    BY <1>1
  <2>. QED  BY <1>1, <2>1 DEF Ordered
<1>. QED  BY <1>1, <1>2 DEF Ordered, Rest, StepsOf

\* An ordered call of steps that go as early as the one they replace keeps the order.
LEMMA CallOrdered ==
    ASSUME todo \in Seq(Steps), todo # <<>>, Ordered(todo), NEW steps \in Seq(Steps), Call(steps),
           Ordered(steps), \A x \in StepsOf(steps) : Follow[x[1]] <= Follow[Head(todo)[1]]
    PROVE  Ordered(todo')
<1>1. Tail(todo) \in Seq(Steps) /\ todo' = steps \o Tail(todo)
  BY HeadTailProperties DEF Call
<1>2. \A x \in StepsOf(steps), y \in Rest : Follow[x[1]] <= Place[y[1]]
  <2>. SUFFICES ASSUME NEW x \in StepsOf(steps), NEW y \in Rest
                PROVE  Follow[x[1]] <= Place[y[1]]
    OBVIOUS
  <2>1. Follow[Head(todo)[1]] <= Place[y[1]] /\ Follow[x[1]] <= Follow[Head(todo)[1]]
    BY RestPlace
  <2>2. x \in Steps /\ Head(todo) \in Steps /\ y \in Steps
    BY PendingSplit, HeadTailProperties DEF StepsOf
  <2>3. x[1] \in Names /\ Head(todo)[1] \in Names /\ y[1] \in Names
    BY <2>2, PlaceType
  <2>. QED  BY <2>1, <2>3, PlaceType
<1>. QED  BY <1>1, <1>2, RestPlace, OrderedConcat DEF Rest

\* A list of steps that are all of certain names.
IsList(q, names) == q \in Seq(Steps) /\ Ordered(q) /\ \A x \in StepsOf(q) : x[1] \in names

\* Two lists in a row.
LEMMA ListConcat ==
    ASSUME NEW p, NEW q, NEW M \in SUBSET Names, NEW N \in SUBSET Names, IsList(p, M), IsList(q, N),
           \A m \in M, n \in N : Follow[m] <= Place[n]
    PROVE  IsList(p \o q, M \cup N)
<1>1. p \in Seq(Steps) /\ q \in Seq(Steps) /\ Ordered(p) /\ Ordered(q)
  BY DEF IsList
<1>2. \A x \in StepsOf(p), y \in StepsOf(q) : Follow[x[1]] <= Place[y[1]]
  BY DEF IsList
<1>3. Ordered(p \o q) /\ StepsOf(p \o q) = StepsOf(p) \cup StepsOf(q)
  BY <1>1, <1>2, OrderedConcat, StepsOfConcat
<1>4. p \o q \in Seq(Steps)
  BY <1>1, ConcatProperties
<1>. QED  BY <1>3, <1>4 DEF IsList

\* The names of the steps in each list the actions call.
SealNames     == {"flush", "write_index", "footer", "sealed"}
OpenNextNames == {"retire", "open_writer", "header", "activate", "commit"}
DirectNames   == {"flush", "prepare", "reserve", "write_entry", "account", "commit", "acknowledge"}
LastNames     == {"select", "settle", "commit", "count_boot", "append_boot", "ready"}

\* The lists the actions call, as they stand.
LEMMA ShortLists ==
    /\ \A n \in Names : IsList(<<>>, {n})
    /\ \A x \in Steps : IsList(<<x>>, {x[1]})
    /\ IsList(FlushSteps, {"write_buffer", "commit", "flushed"})
    /\ IsList(SealSteps, SealNames)
    /\ \A s \in Slots :
          IsList(<<<<"retire", s>>, <<"open_writer", s>>,
                   <<"header", 0>>, <<"header", 1>>, Do("activate"), Do("commit")>>, OpenNextNames)
    /\ \A n \in 1 .. Capacity :
          /\ IsList(<<<<"prepare", n>>, <<"put", n>>>>, {"prepare", "put"})
          /\ IsList(<<Do("flush"), <<"prepare", n>>, <<"reserve", n>>, <<"write_entry", n>>,
                      <<"account", n>>, Do("commit"), Do("acknowledge")>>, DirectNames)
    /\ IsList(<<Do("select"), Do("settle"), Do("commit"), Do("commit"),
                Do("count_boot"), Do("commit"), Do("append_boot"), Do("ready")>>, LastNames)
<1>. USE PlaceValues, FollowValues, DoType, SlotStepType, CopyStepType, EntryStepType
     DEF IsList, Ordered, StepsOf
<1>1. \A n \in Names : IsList(<<>>, {n})
  OBVIOUS
<1>2. \A x \in Steps : IsList(<<x>>, {x[1]})
  OBVIOUS
<1>3. IsList(FlushSteps, {"write_buffer", "commit", "flushed"})
  BY DEF FlushSteps, Do
<1>4. IsList(SealSteps, SealNames)
  BY SealStepsType DEF SealSteps, Do, SealNames
<1>5. ASSUME NEW s \in Slots
      PROVE  IsList(<<<<"retire", s>>, <<"open_writer", s>>,
                      <<"header", 0>>, <<"header", 1>>, Do("activate"), Do("commit")>>, OpenNextNames)
  <2>. DEFINE q == <<<<"retire", s>>, <<"open_writer", s>>,
                     <<"header", 0>>, <<"header", 1>>, Do("activate"), Do("commit")>>
  <2>1. q \in Seq(Steps)
    <3>1. Do("activate") \in Steps /\ Do("commit") \in Steps
      BY DoType
    <3>2. <<"retire", s>> \in Steps /\ <<"open_writer", s>> \in Steps
      BY SlotStepType
    <3>3. <<"header", 0>> \in Steps /\ <<"header", 1>> \in Steps
      BY CopyStepType DEF Copies
    <3>. QED  BY ONLY <3>1, <3>2, <3>3
  <2>2. Ordered(q)
    <3>1. /\ DOMAIN q = 1 .. 6
          /\ q[1][1] = "retire" /\ q[2][1] = "open_writer" /\ q[3][1] = "header"
          /\ q[4][1] = "header" /\ q[5][1] = "activate" /\ q[6][1] = "commit"
      BY DEF Do
    <3>. HIDE DEF q
    <3>2. \A i \in 1 .. 6 : i = 1 \/ i = 2 \/ i = 3 \/ i = 4 \/ i = 5 \/ i = 6
      OBVIOUS
    <3>3. /\ Follow[q[1][1]] = 16 /\ Follow[q[2][1]] = 4 /\ Follow[q[3][1]] = 17
          /\ Follow[q[4][1]] = 17 /\ Follow[q[5][1]] = 20
      BY ONLY <3>1, FollowValues
    <3>4. /\ Place[q[2][1]] = 16 /\ Place[q[3][1]] = 17 /\ Place[q[4][1]] = 17
          /\ Place[q[5][1]] = 19 /\ Place[q[6][1]] = 44
      BY ONLY <3>1, PlaceValues
    <3>5. \A i, j \in 1 .. 6 : i < j => Follow[q[i][1]] <= Place[q[j][1]]
      BY ONLY <3>2, <3>3, <3>4
    <3>. QED  BY <3>1, <3>5 DEF Ordered
  <2>3. \A x \in StepsOf(q) : x[1] \in OpenNextNames
    BY DEF Do, OpenNextNames
  <2>. QED  BY <2>1, <2>2, <2>3
<1>6. ASSUME NEW n \in 1 .. Capacity
      PROVE  IsList(<<<<"prepare", n>>, <<"put", n>>>>, {"prepare", "put"})
  <2>1. <<<<"prepare", n>>, <<"put", n>>>> \in Seq(Steps)
    OBVIOUS
  <2>. QED  BY <2>1
<1>7. ASSUME NEW n \in 1 .. Capacity
      PROVE  IsList(<<Do("flush"), <<"prepare", n>>, <<"reserve", n>>, <<"write_entry", n>>,
                      <<"account", n>>, Do("commit"), Do("acknowledge")>>, DirectNames)
  <2>. DEFINE q == <<Do("flush"), <<"prepare", n>>, <<"reserve", n>>, <<"write_entry", n>>,
                      <<"account", n>>, Do("commit"), Do("acknowledge")>>
  <2>1. q \in Seq(Steps)
    <3>1. Do("flush") \in Steps /\ Do("commit") \in Steps /\ Do("acknowledge") \in Steps
      BY DoType
    <3>2. /\ <<"prepare", n>> \in Steps /\ <<"reserve", n>> \in Steps
          /\ <<"write_entry", n>> \in Steps /\ <<"account", n>> \in Steps
      BY EntryStepType
    <3>. QED  BY ONLY <3>1, <3>2
  <2>2. Ordered(q)
    <3>1. /\ DOMAIN q = 1 .. 7
          /\ q[1][1] = "flush" /\ q[2][1] = "prepare" /\ q[3][1] = "reserve"
          /\ q[4][1] = "write_entry" /\ q[5][1] = "account" /\ q[6][1] = "commit"
          /\ q[7][1] = "acknowledge"
      BY DEF Do
    <3>. HIDE DEF q
    <3>2. \A i \in 1 .. 7 : i = 1 \/ i = 2 \/ i = 3 \/ i = 4 \/ i = 5 \/ i = 6 \/ i = 7
      OBVIOUS
    <3>3. /\ Follow[q[1][1]] = 4 /\ Follow[q[2][1]] = 22 /\ Follow[q[3][1]] = 26
          /\ Follow[q[4][1]] = 28 /\ Follow[q[5][1]] = 30 /\ Follow[q[6][1]] = 2
      BY ONLY <3>1, FollowValues
    <3>4. /\ Place[q[2][1]] = 21 /\ Place[q[3][1]] = 25 /\ Place[q[4][1]] = 27
          /\ Place[q[5][1]] = 29 /\ Place[q[6][1]] = 44 /\ Place[q[7][1]] = 31
      BY ONLY <3>1, PlaceValues
    <3>5. \A i, j \in 1 .. 7 : i < j => Follow[q[i][1]] <= Place[q[j][1]]
      BY ONLY <3>2, <3>3, <3>4
    <3>. QED  BY <3>1, <3>5 DEF Ordered
  <2>3. \A x \in StepsOf(q) : x[1] \in DirectNames
    BY DEF Do, DirectNames
  <2>. QED  BY <2>1, <2>2, <2>3
<1>8. IsList(<<Do("select"), Do("settle"), Do("commit"), Do("commit"),
               Do("count_boot"), Do("commit"), Do("append_boot"), Do("ready")>>, LastNames)
  <2>. DEFINE q == <<Do("select"), Do("settle"), Do("commit"), Do("commit"),
                     Do("count_boot"), Do("commit"), Do("append_boot"), Do("ready")>>
  <2>1. q \in Seq(Steps)
    <3>1. /\ Do("select") \in Steps /\ Do("settle") \in Steps /\ Do("commit") \in Steps
          /\ Do("count_boot") \in Steps /\ Do("append_boot") \in Steps /\ Do("ready") \in Steps
      BY DoType
    <3>. QED  BY ONLY <3>1
  <2>2. Ordered(q)
    <3>1. /\ DOMAIN q = 1 .. 8
          /\ q[1][1] = "select" /\ q[2][1] = "settle" /\ q[3][1] = "commit" /\ q[4][1] = "commit"
          /\ q[5][1] = "count_boot" /\ q[6][1] = "commit" /\ q[7][1] = "append_boot"
          /\ q[8][1] = "ready"
      BY DEF Do
    <3>. HIDE DEF q
    <3>2. \A i \in 1 .. 8 : i = 1 \/ i = 2 \/ i = 3 \/ i = 4 \/ i = 5 \/ i = 6 \/ i = 7 \/ i = 8
      OBVIOUS
    <3>3. /\ Follow[q[1][1]] = 40 /\ Follow[q[2][1]] = 42 /\ Follow[q[3][1]] = 2
          /\ Follow[q[4][1]] = 2 /\ Follow[q[5][1]] = 44 /\ Follow[q[6][1]] = 2
          /\ Follow[q[7][1]] = 46
      BY ONLY <3>1, FollowValues
    <3>4. /\ Place[q[2][1]] = 41 /\ Place[q[3][1]] = 44 /\ Place[q[4][1]] = 44
          /\ Place[q[5][1]] = 43 /\ Place[q[6][1]] = 44 /\ Place[q[7][1]] = 45
          /\ Place[q[8][1]] = 47
      BY ONLY <3>1, PlaceValues
    <3>5. \A i, j \in 1 .. 8 : i < j => Follow[q[i][1]] <= Place[q[j][1]]
      BY ONLY <3>2, <3>3, <3>4
    <3>. QED  BY <3>1, <3>5 DEF Ordered
  <2>3. \A x \in StepsOf(q) : x[1] \in LastNames
    BY DEF Do, LastNames
  <2>. QED  BY <2>1, <2>2, <2>3
<1>. QED  BY <1>1, <1>2, <1>3, <1>4, <1>5, <1>6, <1>7, <1>8

\* The lists made of them.
LEMMA LongLists ==
    /\ IsList(SealSteps \o <<Do("open_next")>>, SealNames \cup {"open_next"})
    /\ \A s \in Slots : IsList(<<<<"open_writer", s>>>> \o SealSteps \o <<Do("close_writer")>>,
                              {"open_writer"} \cup SealNames \cup {"close_writer"})
    /\ \A force \in BOOLEAN :
          IsList((IF force THEN <<>> ELSE <<Do("flush")>>) \o <<Do("close")>>, {"flush", "close"})
<1>. USE DEF SealNames, Do
<1>0. {"open_writer", "flush", "write_index", "footer", "sealed", "open_next", "close_writer", "close"} \subseteq Names
  BY NamesValue
<1>1. IsList(<<Do("open_next")>>, {"open_next"}) /\ IsList(<<Do("close_writer")>>, {"close_writer"})
      /\ IsList(<<Do("flush")>>, {"flush"}) /\ IsList(<<Do("close")>>, {"close"})
      /\ IsList(<<>>, {"flush"}) /\ IsList(SealSteps, SealNames)
  BY ShortLists, DoType, NamesValue
<1>2. \A s \in Slots : IsList(<<<<"open_writer", s>>>>, {"open_writer"})
  BY ShortLists, SlotStepType
<1>3. IsList(SealSteps \o <<Do("open_next")>>, SealNames \cup {"open_next"})
  <2>1. \A m \in SealNames, n \in {"open_next"} : Follow[m] <= Place[n]
    BY PlaceValues, FollowValues
  <2>. QED  BY <1>0, <1>1, <2>1, ListConcat
<1>4. ASSUME NEW s \in Slots
      PROVE  IsList(<<<<"open_writer", s>>>> \o SealSteps \o <<Do("close_writer")>>,
                    {"open_writer"} \cup SealNames \cup {"close_writer"})
  <2>1. IsList(<<<<"open_writer", s>>>> \o SealSteps, {"open_writer"} \cup SealNames)
    <3>1. \A m \in {"open_writer"}, n \in SealNames : Follow[m] <= Place[n]
      BY PlaceValues, FollowValues
    <3>. QED  BY <1>0, <1>1, <1>2, <3>1, ListConcat
  <2>2. \A m \in {"open_writer"} \cup SealNames, n \in {"close_writer"} : Follow[m] <= Place[n]
    BY PlaceValues, FollowValues
  <2>3. {"open_writer"} \cup SealNames \in SUBSET Names
    BY <1>0
  <2>. QED  BY <1>0, <1>1, <2>1, <2>2, <2>3, ListConcat
<1>5. ASSUME NEW force \in BOOLEAN
      PROVE  IsList((IF force THEN <<>> ELSE <<Do("flush")>>) \o <<Do("close")>>, {"flush", "close"})
  <2>1. IsList(IF force THEN <<>> ELSE <<Do("flush")>>, {"flush"})
    BY <1>1
  <2>2. {"flush"} \cup {"close"} = {"flush", "close"}
    OBVIOUS
  <2>3. Follow["flush"] <= Place["close"]
    BY PlaceValues, FollowValues
  <2>. QED  BY <1>0, <1>1, <2>1, <2>2, <2>3, ListConcat
<1>. QED  BY <1>3, <1>4, <1>5

\* The names of the steps of an append.
AppendNames == DirectNames \cup {"put"}

\* The steps of an append, all of them for an entry of the same size.
LEMMA AppendList ==
    ASSUME NEW n \in 1 .. Capacity, NEW force_flush \in BOOLEAN
    PROVE  /\ IsList(AppendSteps(n, force_flush), AppendNames)
           /\ \A x \in StepsOf(AppendSteps(n, force_flush)) : x[1] \in Sized => x[2] = n
           /\ <<"prepare", n>> \in StepsOf(AppendSteps(n, force_flush))
           /\ \E x \in StepsOf(AppendSteps(n, force_flush)) : x[1] \in {"put", "reserve"}
<1>. DEFINE direct == <<Do("flush"), <<"prepare", n>>, <<"reserve", n>>, <<"write_entry", n>>,
                       <<"account", n>>, Do("commit"), Do("acknowledge")>>
            first == IF Len(write_buf) + n > WriteBufferSize THEN <<Do("flush")>> ELSE <<>>
            put   == <<<<"prepare", n>>, <<"put", n>>>>
            last  == IF force_flush THEN <<Do("flush")>> ELSE <<>>
            Same(q) == \A x \in StepsOf(q) : x[1] \in Sized => x[2] = n
<1>1. IsList(direct, DirectNames) /\ Same(direct) /\ <<"prepare", n>> \in StepsOf(direct)
      /\ <<"reserve", n>> \in StepsOf(direct)
  <2>1. IsList(direct, DirectNames)
    BY ShortLists
  <2>2. Same(direct)
    BY DEF StepsOf, Do, Sized
  <2>3. 2 \in DOMAIN direct /\ direct[2] = <<"prepare", n>>
       /\ 3 \in DOMAIN direct /\ direct[3] = <<"reserve", n>>
    OBVIOUS
  <2>. QED  BY <2>1, <2>2, <2>3 DEF StepsOf
<1>2. IsList(put, {"prepare", "put"}) /\ Same(put) /\ <<"prepare", n>> \in StepsOf(put)
      /\ <<"put", n>> \in StepsOf(put)
  <2>1. IsList(put, {"prepare", "put"})
    BY ShortLists
  <2>2. Same(put)
    BY DEF StepsOf
  <2>3. 1 \in DOMAIN put /\ put[1] = <<"prepare", n>>
       /\ 2 \in DOMAIN put /\ put[2] = <<"put", n>>
    OBVIOUS
  <2>. QED  BY <2>1, <2>2, <2>3 DEF StepsOf
<1>3. IsList(first, {"flush"}) /\ Same(first) /\ IsList(last, {"flush"}) /\ Same(last)
  <2>1. IsList(<<Do("flush")>>, {"flush"}) /\ IsList(<<>>, {"flush"})
    BY ShortLists, DoType, NamesValue DEF Do
  <2>2. \A q : IsList(q, {"flush"}) => Same(q)
    BY DEF IsList, Sized
  <2>. QED  BY <2>1, <2>2
<1>4. AppendSteps(n, force_flush) = IF n > WriteBufferSize THEN direct ELSE first \o put \o last
  BY DEF AppendSteps
<1>. HIDE DEF direct, first, put, last
<1>5. IsList(first \o put, {"flush"} \cup {"prepare", "put"}) /\ Same(first \o put)
      /\ <<"prepare", n>> \in StepsOf(first \o put) /\ <<"put", n>> \in StepsOf(first \o put)
  <2>1. StepsOf(first \o put) = StepsOf(first) \cup StepsOf(put)
    BY <1>2, <1>3, StepsOfConcat DEF IsList
  <2>2. IsList(first \o put, {"flush"} \cup {"prepare", "put"})
    <3>1. \A m \in {"flush"}, k \in {"prepare", "put"} : Follow[m] <= Place[k]
      BY PlaceValues, FollowValues
    <3>2. {"flush", "prepare", "put"} \subseteq Names
      BY NamesValue
    <3>. QED  BY <1>2, <1>3, <3>1, <3>2, ListConcat
  <2>. QED  BY <1>2, <1>3, <2>1, <2>2
<1>6. /\ IsList((first \o put) \o last, ({"flush"} \cup {"prepare", "put"}) \cup {"flush"})
      /\ Same((first \o put) \o last)
      /\ <<"prepare", n>> \in StepsOf((first \o put) \o last)
      /\ <<"put", n>> \in StepsOf((first \o put) \o last)
  <2>1. StepsOf((first \o put) \o last) = StepsOf(first \o put) \cup StepsOf(last)
    BY <1>3, <1>5, StepsOfConcat DEF IsList
  <2>2. IsList((first \o put) \o last, ({"flush"} \cup {"prepare", "put"}) \cup {"flush"})
    <3>1. \A m \in {"flush"} \cup {"prepare", "put"}, k \in {"flush"} : Follow[m] <= Place[k]
      BY PlaceValues, FollowValues
    <3>2. {"flush"} \cup {"prepare", "put"} \in SUBSET Names /\ {"flush"} \in SUBSET Names
      BY NamesValue
    <3>. QED  BY <1>3, <1>5, <3>1, <3>2, ListConcat
  <2>. QED  BY <1>3, <1>5, <2>1, <2>2
<1>. QED  BY <1>1, <1>4, <1>6 DEF IsList, AppendNames, DirectNames


\* The steps of init(): a loop over the slots, ...
LEMMA ForSlotsList ==
    ASSUME NEW step \in {"recover", "seal_recovered"}
    PROVE  IsList(ForSlots(step), {step})
<1>. DEFINE q == ForSlots(step)
<1>1. DOMAIN q = 1 .. SegmentCount /\ SegmentCount \in Nat
      /\ \A i \in 1 .. SegmentCount : q[i] = <<step, i - 1>> /\ i - 1 \in Slots
  BY SegmentCountAssumption DEF ForSlots, Slots
<1>2. \A i \in 1 .. SegmentCount : q[i] \in Steps /\ q[i][1] = step
  <2>1. \A s \in Slots : <<step, s>> \in Steps
    BY SlotStepType
  <2>. HIDE DEF q
  <2>. SUFFICES ASSUME NEW i \in 1 .. SegmentCount PROVE q[i] \in Steps /\ q[i][1] = step
    OBVIOUS
  <2>2. q[i] = <<step, i - 1>> /\ i - 1 \in Slots
    BY <1>1
  <2>. QED  BY <2>1, <2>2
<1>3. q = [i \in 1 .. SegmentCount |-> <<step, i - 1>>]
  BY DEF ForSlots
<1>4. q \in Seq(Steps)
  <2>. HIDE DEF q
  <2>. QED  BY <1>1, <1>2, <1>3
<1>5. Ordered(q) /\ \A x \in StepsOf(q) : x[1] \in {step}
  <2>. HIDE DEF q
  <2>1. Follow[step] <= Place[step]
    BY PlaceValues, FollowValues
  <2>. QED  BY <1>1, <1>2, <2>1 DEF Ordered, StepsOf
<1>. QED  BY <1>4, <1>5 DEF IsList

\* ... with a commit behind the step that counts the boot.
LEMMA CommittedConcat ==
    ASSUME NEW p \in Seq(Steps), NEW q \in Seq(Steps), Committed(q),
           \A x \in StepsOf(p) : x[1] # "count_boot"
    PROVE  Committed(p \o q)
<1>. DEFINE n == Len(p)
<1>1. /\ DOMAIN (p \o q) = 1 .. n + Len(q)
      /\ \A i \in 1 .. n : (p \o q)[i] = p[i]
      /\ \A i \in 1 .. Len(q) : (p \o q)[n + i] = q[i]
      /\ \A i \in n + 1 .. n + Len(q) : (p \o q)[i] = q[i - n]
      /\ Len(q) \in Nat /\ n \in Nat
      /\ DOMAIN p = 1 .. n /\ DOMAIN q = 1 .. Len(q)
  OBVIOUS
<1>. HIDE DEF n
<1>2. SUFFICES ASSUME NEW i \in DOMAIN (p \o q), (p \o q)[i][1] = "count_boot"
      PROVE  \E j \in DOMAIN (p \o q) : i < j /\ (p \o q)[j][1] = "commit"
  BY DEF Committed
<1>3. ~(i <= n)
  <2>. SUFFICES ASSUME i <= n PROVE FALSE
    OBVIOUS
  <2>1. i \in DOMAIN p /\ (p \o q)[i] = p[i]
    BY <1>1, <1>2
  <2>2. p[i] \in StepsOf(p)
    BY <2>1 DEF StepsOf
  <2>. QED  BY <1>2, <2>1, <2>2
<1>4. i - n \in DOMAIN q /\ (p \o q)[i] = q[i - n]
  BY <1>1, <1>2, <1>3
<1>5. PICK j \in DOMAIN q : i - n < j /\ q[j][1] = "commit"
  BY <1>2, <1>4 DEF Committed
<1>6. n + j \in DOMAIN (p \o q) /\ (p \o q)[n + j] = q[j] /\ i < n + j
  BY <1>1, <1>2, <1>5
<1>. QED  BY <1>5, <1>6

\* The steps of init(), and that its commit follows the count of the boot.
LEMMA InitList ==
    /\ IsList(InitSteps, {"recover", "highest", "seal_recovered"} \cup LastNames)
    /\ Committed(InitSteps)
    /\ Do("append_boot") \in StepsOf(InitSteps) /\ Do("count_boot") \in StepsOf(InitSteps)
<1>. DEFINE end == <<Do("select"), Do("settle"), Do("commit"), Do("commit"),
                    Do("count_boot"), Do("commit"), Do("append_boot"), Do("ready")>>
            first == ForSlots("recover")
            middle == <<Do("highest")>>
            second == ForSlots("seal_recovered")
            Early == ({"recover"} \cup {"highest"}) \cup {"seal_recovered"}
<1>1. IsList(first, {"recover"}) /\ IsList(second, {"seal_recovered"})
  BY ForSlotsList
<1>2. IsList(middle, {"highest"})
  BY ShortLists, DoType DEF Do
<1>3. IsList(end, LastNames)
  BY ShortLists
<1>4. Committed(end) /\ Do("append_boot") \in StepsOf(end) /\ Do("count_boot") \in StepsOf(end)
  <2>1. Committed(end)
    BY DEF Committed, Do
  <2>2. 7 \in DOMAIN end /\ end[7] = Do("append_boot") /\ 5 \in DOMAIN end /\ end[5] = Do("count_boot")
    OBVIOUS
  <2>. QED  BY <2>1, <2>2 DEF StepsOf
<1>5. InitSteps = ((first \o middle) \o second) \o end
  BY DEF InitSteps
<1>. HIDE DEF end, first, middle, second
<1>6. {"recover"} \in SUBSET Names /\ {"highest"} \in SUBSET Names
      /\ {"seal_recovered"} \in SUBSET Names /\ LastNames \in SUBSET Names
      /\ {"recover"} \cup {"highest"} \in SUBSET Names /\ Early \in SUBSET Names
  BY NamesValue DEF LastNames
<1>7. IsList(first \o middle, {"recover"} \cup {"highest"})
  <2>1. \A m \in {"recover"}, k \in {"highest"} : Follow[m] <= Place[k]
    BY PlaceValues, FollowValues
  <2>. QED  BY <1>1, <1>2, <1>6, <2>1, ListConcat
<1>8. IsList((first \o middle) \o second, Early)
  <2>1. \A m \in {"recover"} \cup {"highest"}, k \in {"seal_recovered"} : Follow[m] <= Place[k]
    BY PlaceValues, FollowValues
  <2>. QED  BY <1>1, <1>6, <1>7, <2>1, ListConcat
<1>9. IsList(InitSteps, Early \cup LastNames)
  <2>1. \A m \in Early, k \in LastNames : Follow[m] <= Place[k]
    BY PlaceValues, FollowValues DEF LastNames
  <2>. QED  BY <1>3, <1>5, <1>6, <1>8, <2>1, ListConcat
<1>10. Early = {"recover", "highest", "seal_recovered"}
  OBVIOUS
<1>11. Committed(InitSteps)
  <2>1. \A x \in StepsOf((first \o middle) \o second) : x[1] # "count_boot"
    BY <1>8 DEF IsList
  <2>. QED  BY <1>3, <1>4, <1>5, <1>8, <2>1, CommittedConcat DEF IsList
<1>12. StepsOf(end) \subseteq StepsOf(InitSteps)
  BY <1>3, <1>5, <1>8, StepsOfConcat DEF IsList
<1>. QED  BY <1>4, <1>9, <1>10, <1>11, <1>12

\* A step that moves on leaves the rest.
LEMMA ContinuePending ==
    ASSUME todo \in Seq(Steps), todo # <<>>, Continue
    PROVE  Pending' = Rest
<1>1. todo' = Tail(todo)
  <2>1. Tail(todo) \in Seq(Steps)
    BY HeadTailProperties
  <2>. QED  BY <2>1 DEF Continue, Call
<1>. QED  BY <1>1 DEF Pending, Rest

\* An empty continuation satisfies all that is said of continuations.
LEMMA EmptyControl ==
    ASSUME todo' = <<>>
    PROVE  ControlInv' /\ Pending' = {}
<1>1. Pending' = {}
  BY DEF Pending, StepsOf
<1>. QED  BY <1>1 DEF ControlInv, Ordered, Committed, Has

\* What an error return leaves of the continuation.
LEMMA FailControl == Fail => ControlInv' /\ Pending' = {}
  BY EmptyControl DEF Fail, Reset

\* A commit that follows in the rest.
LEMMA CommittedTail ==
    ASSUME todo \in Seq(Steps), todo # <<>>, Committed(todo)
    PROVE  Committed(Tail(todo))
<1>1. /\ \A i \in DOMAIN Tail(todo) : i + 1 \in DOMAIN todo /\ Tail(todo)[i] = todo[i + 1]
      /\ \A j \in DOMAIN todo : j > 1 => j - 1 \in DOMAIN Tail(todo) /\ todo[j] = Tail(todo)[j - 1]
      /\ DOMAIN Tail(todo) \in SUBSET Nat /\ DOMAIN todo \in SUBSET Nat
      /\ \A i \in DOMAIN Tail(todo) : i >= 1
  OBVIOUS
<1>. SUFFICES ASSUME NEW i \in DOMAIN Tail(todo), Tail(todo)[i][1] = "count_boot"
              PROVE  \E j \in DOMAIN Tail(todo) : i < j /\ Tail(todo)[j][1] = "commit"
  BY DEF Committed
<1>2. i + 1 \in DOMAIN todo /\ todo[i + 1][1] = "count_boot"
  BY <1>1
<1>3. PICK j \in DOMAIN todo : i + 1 < j /\ todo[j][1] = "commit"
  BY <1>2 DEF Committed
<1>4. j - 1 \in DOMAIN Tail(todo) /\ todo[j] = Tail(todo)[j - 1] /\ i < j - 1
  BY <1>1, <1>3
<1>. QED  BY <1>3, <1>4

\* The steps that belong neither to recovery nor to the end of init().
Machinery == Names \ (Booting \cup {"ready"})
Entry     == Sized \cup {"acknowledge"}

\* The last places are those of the boot event and of the end of an operation.
LEMMA PlaceBounds ==
    /\ \A n \in Booting \cup Entry : Place[n] < 46
    /\ \A n \in Names : Place[n] < 48 /\ Place[n] \in Nat
    /\ \A n \in Recovering : Place[n] < 44
<1>1. \A n \in {"recover", "highest", "seal_recovered", "select", "settle",
               "count_boot", "append_boot", "prepare", "put", "reserve",
               "write_entry", "account", "acknowledge"} : Place[n] < 46
  BY PlaceValues
<1>2. Booting \cup Entry = {"recover", "highest", "seal_recovered", "select", "settle",
                           "count_boot", "append_boot", "prepare", "put", "reserve",
                           "write_entry", "account", "acknowledge"}
  BY DEF Booting, Recovering, Entry, Sized
<1>3. Place \in [Names -> 0 .. 47]
  BY DEF Place, Names
<1>4. \A n \in Recovering : Place[n] < 44
  BY PlaceValues DEF Recovering
<1>. QED  BY <1>1, <1>2, <1>3, <1>4, PlaceType

\* What follows the boot event in an ordered continuation.
LEMMA BehindBoot ==
    ASSUME todo \in Seq(Steps), todo # <<>>, Ordered(todo)
    PROVE  /\ At("append_boot") => \A y \in Rest : y[1] \notin Booting \cup Entry
           /\ At("ready") => Rest = {}
           /\ At("count_boot") => \A y \in Rest : y[1] \notin Recovering
           /\ At("append_boot") => \A y \in Rest : y[1] # "commit"
<1>1. \A y \in Rest : Follow[Head(todo)[1]] <= Place[y[1]] /\ y[1] \in Names
  BY RestPlace, PendingSplit, PlaceType
<1>2. \A n \in Booting \cup Entry : Place[n] < 46
  BY PlaceBounds
<1>3. \A n \in Names : Place[n] < 48 /\ Place[n] \in Nat
  BY PlaceBounds
<1>4. /\ Follow["append_boot"] = 46 /\ Follow["ready"] = 48 /\ Follow["count_boot"] = 44
      /\ Place["commit"] = 44
  BY FollowValues, PlaceValues
<1>5. ASSUME At("append_boot"), NEW y \in Rest
      PROVE  y[1] \notin Booting \cup Entry
  <2>1. 46 <= Place[y[1]] /\ Place[y[1]] \in Nat
    BY <1>1, <1>3, <1>4, <1>5 DEF At
  <2>. QED  BY <1>2, <2>1
<1>6. ASSUME At("ready"), NEW y \in Rest
      PROVE  FALSE
  <2>1. 48 <= Place[y[1]] /\ Place[y[1]] \in Nat /\ Place[y[1]] < 48
    BY <1>1, <1>3, <1>4, <1>6 DEF At
  <2>. QED  BY <2>1
<1>7. ASSUME At("count_boot"), NEW y \in Rest
      PROVE  y[1] \notin Recovering
  <2>1. 44 <= Place[y[1]] /\ Place[y[1]] \in Nat
    BY <1>1, <1>3, <1>4, <1>7 DEF At
  <2>. QED  BY <2>1, PlaceBounds
<1>8. ASSUME At("append_boot"), NEW y \in Rest
      PROVE  y[1] # "commit"
  <2>1. 46 <= Place[y[1]] /\ Place["commit"] = 44
    BY <1>1, <1>4, <1>8 DEF At
  <2>. QED  BY <2>1
<1>. QED  BY <1>5, <1>6, <1>7, <1>8

\* A call of steps that belong to no boot keeps what is said of continuations.
LEMMA CallControlInv ==
    ASSUME todo \in Seq(Steps), todo # <<>>, ControlInv, UNCHANGED mode,
           NEW steps, NEW N \in SUBSET Machinery, IsList(steps, N), Call(steps),
           \A n \in N : Follow[n] <= Follow[Head(todo)[1]],
           \/ N \cap Entry = {}
           \/ /\ At("append_boot")
              /\ \A x, y \in StepsOf(steps) : x[1] \in Sized /\ y[1] \in Sized => x[2] = y[2]
    PROVE  ControlInv' /\ Pending' = StepsOf(steps) \cup Rest
<1>1. steps \in Seq(Steps) /\ Ordered(steps) /\ \A x \in StepsOf(steps) : x[1] \in N
  BY DEF IsList
<1>2. Pending' = StepsOf(steps) \cup Rest
  BY <1>1, CallPending
<1>3. Pending = {Head(todo)} \cup Rest
  BY PendingSplit
<1>4. Ordered(todo')
  BY <1>1, CallOrdered DEF ControlInv
<1>5. Committed(todo')
  <2>1. todo' = steps \o Tail(todo) /\ Tail(todo) \in Seq(Steps)
    BY HeadTailProperties DEF Call
  <2>2. \A x \in StepsOf(steps) : x[1] # "count_boot"
    BY <1>1 DEF Machinery, Booting, Recovering
  <2>. QED  BY <1>1, <2>1, <2>2, CommittedTail, CommittedConcat DEF ControlInv
<1>6. \A x, y \in Pending' : x[1] \in Sized /\ y[1] \in Sized => x[2] = y[2]
  <2>1. CASE N \cap Entry = {}
    BY <1>1, <1>2, <1>3, <2>1 DEF ControlInv, Entry
  <2>2. CASE At("append_boot") /\ \A x, y \in StepsOf(steps) :
                                     x[1] \in Sized /\ y[1] \in Sized => x[2] = y[2]
    BY <1>2, <2>2, BehindBoot DEF ControlInv, Entry
  <2>. QED  BY <2>1, <2>2
<1>7. \A x \in Pending' : x[1] \in Booting \cup {"ready"} => x \in Rest
  BY <1>1, <1>2 DEF Machinery
<1>8. Has(Sized \cup {"acknowledge"})' => ~Has(Booting)'
  <2>1. CASE N \cap Entry = {}
    BY <1>1, <1>2, <1>3, <1>7, <2>1 DEF ControlInv, Entry, Has
  <2>2. CASE At("append_boot")
    BY <1>7, <2>2, BehindBoot DEF ControlInv, Has
  <2>. QED  BY <2>1, <2>2
<1>9. Has(Recovering)' => Has({"count_boot"})' /\ Has({"append_boot"})'
  <2>. SUFFICES ASSUME NEW x \in Rest, x[1] \in Recovering
                PROVE  (\E y \in Rest : y[1] = "count_boot") /\ \E y \in Rest : y[1] = "append_boot"
    BY <1>2, <1>7 DEF Has, Booting
  <2>1. (\E y \in Pending : y[1] = "count_boot") /\ \E y \in Pending : y[1] = "append_boot"
    BY <1>3 DEF ControlInv, Has
  <2>2. ~At("append_boot") /\ ~At("count_boot")
    BY BehindBoot DEF ControlInv, Booting
  <2>. QED  BY <1>3, <2>1, <2>2 DEF At
<1>10. mode' # "init" => ~Has(Booting \cup {"ready"})'
  BY <1>3, <1>7 DEF ControlInv, Has
<1>11. mode' # "off"
  BY DEF ControlInv
<1>. QED  BY <1>2, <1>4, <1>5, <1>6, <1>8, <1>9, <1>10, <1>11 DEF ControlInv

\* So does a step that moves on.
LEMMA ContinueControlInv ==
    ASSUME todo \in Seq(Steps), todo # <<>>, ControlInv, UNCHANGED mode, Continue
    PROVE  ControlInv' /\ Pending' = Rest
<1>1. IsList(<<>>, {}) /\ {} \in SUBSET Machinery
  BY DEF IsList, Ordered, StepsOf
<1>2. StepsOf(<<>>) = {}
  BY DEF StepsOf
<1>. QED  BY <1>1, <1>2, CallControlInv DEF Continue

\* A new operation.
LEMMA OperationControlInv ==
    ASSUME mode' = "run", NEW N \in SUBSET Machinery, IsList(todo', N),
           \A x, y \in StepsOf(todo') : x[1] \in Sized /\ y[1] \in Sized => x[2] = y[2]
    PROVE  ControlInv'
<1>1. Pending' = StepsOf(todo')
  BY DEF Pending
<1>2. \A x \in Pending' : x[1] \notin Booting \cup {"ready"}
  BY <1>1 DEF IsList, Machinery
<1>3. Committed(todo')
  BY <1>1, <1>2 DEF Committed, StepsOf, Booting, Recovering
<1>. QED  BY <1>1, <1>2, <1>3 DEF ControlInv, IsList, Has, Booting

-----------------------------------------------------------------------------
(* Each action keeps the order.                                             *)

\* Which steps each action puts in front of the rest.
FlushNames  == {"write_buffer", "commit", "flushed"}
RotateNames == SealNames \cup {"open_next"}
ResealNames == {"open_writer"} \cup SealNames \cup {"close_writer"}
\* The actions that only move on.
Moves ==
    \/ WriteDone \/ OpenWriter \/ CloseWriter \/ Flushed \/ PutEntry \/ ReserveEntry
    \/ AccountEntry \/ Acknowledge \/ Sealed \/ Activate \/ Settle
\* All lists but that of init() consist of such steps.
MachineryNames ==
    /\ FlushNames \in SUBSET Machinery /\ RotateNames \in SUBSET Machinery
    /\ ResealNames \in SUBSET Machinery /\ OpenNextNames \in SUBSET Machinery
    /\ AppendNames \in SUBSET Machinery /\ {"open_writer"} \in SUBSET Machinery
    /\ {"open_next"} \in SUBSET Machinery /\ {"commit"} \in SUBSET Machinery
    /\ {"flush"} \in SUBSET Machinery /\ {"flush", "close"} \in SUBSET Machinery

\* So they do, and only an append has entries.
LEMMA MachineryType ==
    /\ MachineryNames
    /\ (FlushNames \cup RotateNames \cup ResealNames \cup OpenNextNames \cup {"commit"}) \cap Entry = {}
<1>. USE NamesValue DEF Machinery, Booting, Recovering, FlushNames, RotateNames, ResealNames,
                       OpenNextNames, AppendNames, SealNames, DirectNames
<1>1. FlushNames \in SUBSET Machinery /\ RotateNames \in SUBSET Machinery
  OBVIOUS
<1>2. ResealNames \in SUBSET Machinery /\ OpenNextNames \in SUBSET Machinery
  OBVIOUS
<1>3. AppendNames \in SUBSET Machinery
  OBVIOUS
<1>4. {"open_writer"} \in SUBSET Machinery /\ {"open_next"} \in SUBSET Machinery
      /\ {"commit"} \in SUBSET Machinery /\ {"flush"} \in SUBSET Machinery
      /\ {"flush", "close"} \in SUBSET Machinery
  OBVIOUS
<1>5. (FlushNames \cup RotateNames \cup ResealNames \cup OpenNextNames \cup {"commit"}) \cap Entry = {}
  BY DEF Entry, Sized
<1>. QED  BY <1>1, <1>2, <1>3, <1>4, <1>5 DEF MachineryNames

\* The order allows each call.
LEMMA FollowCalls ==
    /\ \A n \in FlushNames : Follow[n] <= Follow["flush"]
    /\ \A n \in RotateNames : Follow[n] <= Follow["prepare"]
    /\ \A n \in ResealNames : Follow[n] <= Follow["recover"] /\ Follow[n] <= Follow["seal_recovered"]
    /\ \A n \in OpenNextNames : Follow[n] <= Follow["open_next"]
    /\ \A n \in AppendNames : Follow[n] <= Follow["append_boot"]
    /\ Follow["open_writer"] <= Follow["select"] /\ Follow["open_next"] <= Follow["select"]
    /\ Follow["commit"] <= Follow["retire"]
<1>. USE FollowValues
<1>1. \A n \in FlushNames : Follow[n] <= Follow["flush"]
  BY DEF FlushNames
<1>2. \A n \in RotateNames : Follow[n] <= Follow["prepare"]
  <2>1. \A n \in {"flush", "write_index", "footer", "sealed", "open_next"} : Follow[n] <= 22
    OBVIOUS
  <2>2. RotateNames = {"flush", "write_index", "footer", "sealed", "open_next"}
    BY DEF RotateNames, SealNames
  <2>. QED  BY <2>1, <2>2
<1>3. \A n \in ResealNames : Follow[n] <= Follow["recover"] /\ Follow[n] <= Follow["seal_recovered"]
  <2>1. \A n \in {"open_writer", "flush", "write_index", "footer", "sealed", "close_writer"} :
            Follow[n] <= 33 /\ Follow[n] <= 37
    OBVIOUS
  <2>2. ResealNames = {"open_writer", "flush", "write_index", "footer", "sealed", "close_writer"}
    BY DEF ResealNames, SealNames
  <2>. QED  BY <2>1, <2>2
<1>4. \A n \in OpenNextNames : Follow[n] <= Follow["open_next"]
  BY DEF OpenNextNames
<1>5. \A n \in AppendNames : Follow[n] <= Follow["append_boot"]
  <2>1. \A n \in {"flush", "prepare", "reserve", "write_entry", "account", "commit",
                  "acknowledge", "put"} : Follow[n] <= 46
    OBVIOUS
  <2>2. AppendNames = {"flush", "prepare", "reserve", "write_entry", "account", "commit",
                       "acknowledge", "put"}
    BY DEF AppendNames, DirectNames
  <2>. QED  BY <2>1, <2>2
<1>. QED  BY <1>1, <1>2, <1>3, <1>4, <1>5

\* The steps that move on.
LEMMA MovesControl ==
    ASSUME TypeOK, ControlInv, Moves
    PROVE  ControlInv' /\ Pending' = Rest /\ todo # <<>>
<1>1. todo # <<>> /\ Continue /\ UNCHANGED mode
  <2>1. CASE WriteDone
    BY <2>1, WriteType DEF WriteDone, Outcomes
  <2>2. CASE OpenWriter \/ CloseWriter \/ Flushed
    BY <2>2 DEF OpenWriter, CloseWriter, Flushed, At
  <2>3. CASE PutEntry \/ ReserveEntry \/ AccountEntry \/ Acknowledge
    BY <2>3 DEF PutEntry, ReserveEntry, AccountEntry, Acknowledge, At, memory
  <2>4. CASE Sealed \/ Activate \/ Settle
    BY <2>4 DEF Sealed, Activate, Settle, SetState, At
  <2>. QED  BY <2>1, <2>2, <2>3, <2>4 DEF Moves
<1>. QED  BY <1>1, ContinueControlInv DEF TypeOK

\* flush_unsafe.
LEMMA FlushControl ==
    ASSUME TypeOK, ControlInv, Flush
    PROVE  /\ ControlInv' /\ todo # <<>>
           /\ IF write_buf = <<>> THEN Pending' = Rest ELSE Pending' = StepsOf(FlushSteps) \cup Rest
<1>1. todo # <<>> /\ todo \in Seq(Steps) /\ UNCHANGED mode /\ Head(todo)[1] = "flush"
  BY DEF Flush, At, TypeOK
<1>2. CASE write_buf = <<>>
  <2>1. Continue
    BY <1>2 DEF Flush, Continue
  <2>. QED  BY <1>1, <1>2, <2>1, ContinueControlInv
<1>3. CASE write_buf # <<>>
  <2>1. Call(FlushSteps) /\ IsList(FlushSteps, FlushNames)
    BY <1>3, ShortLists DEF Flush, FlushNames
  <2>. QED  BY <1>1, <1>3, <2>1, CallControlInv, MachineryType, FollowCalls DEF MachineryNames
<1>. QED  BY <1>1, <1>2, <1>3

\* prepare_entry_space_unsafe.
LEMMA PrepareControl ==
    ASSUME TypeOK, ControlInv, PrepareSpace
    PROVE  /\ ControlInv' /\ todo # <<>>
           /\ IF HasSpace(Arg) THEN Pending' = Rest
              ELSE Pending' = StepsOf(SealSteps \o <<Do("open_next")>>) \cup Rest
<1>1. todo # <<>> /\ todo \in Seq(Steps) /\ UNCHANGED mode /\ Head(todo)[1] = "prepare"
  BY DEF PrepareSpace, At, TypeOK
<1>2. CASE HasSpace(Arg)
  <2>1. Continue
    BY <1>2 DEF PrepareSpace, Continue
  <2>. QED  BY <1>1, <1>2, <2>1, ContinueControlInv
<1>3. CASE ~HasSpace(Arg)
  <2>1. Call(SealSteps \o <<Do("open_next")>>) /\ IsList(SealSteps \o <<Do("open_next")>>, RotateNames)
    BY <1>3, LongLists DEF PrepareSpace, RotateNames
  <2>. QED  BY <1>1, <1>3, <2>1, CallControlInv, MachineryType, FollowCalls DEF MachineryNames
<1>. QED  BY <1>1, <1>2, <1>3

\* The steps open_next_segment_unsafe takes.
OpenNextSteps ==
    <<<<"retire", NextSlot>>, <<"open_writer", NextSlot>>,
      <<"header", 0>>, <<"header", 1>>, Do("activate"), Do("commit")>>

\* open_next_segment_unsafe.
LEMMA OpenNextControl ==
    ASSUME TypeOK, ControlInv, OpenNext
    PROVE  /\ ControlInv' /\ todo # <<>>
           /\ \/ Fail /\ Pending' = {}
              \/ Pending' = StepsOf(OpenNextSteps) \cup Rest /\ UNCHANGED <<mode, memory>>
<1>1. todo # <<>> /\ todo \in Seq(Steps) /\ Head(todo)[1] = "open_next"
  BY DEF OpenNext, At, TypeOK
<1>2. CASE state.next_generation = 0
  BY <1>1, <1>2, FailControl DEF OpenNext
<1>3. CASE state.next_generation # 0
  <2>0. NextSlot \in Slots
    BY NextSlotType DEF TypeOK
  <2>1. Call(OpenNextSteps) /\ UNCHANGED <<mode, memory>>
    BY <1>3 DEF OpenNext, OpenNextSteps
  <2>2. IsList(OpenNextSteps, OpenNextNames)
    BY <2>0, ShortLists DEF OpenNextSteps
  <2>. QED  BY <1>1, <2>1, <2>2, CallControlInv, MachineryType, FollowCalls DEF MachineryNames
<1>. QED  BY <1>2, <1>3

\* retire_segment_unsafe.
LEMMA RetireControl ==
    ASSUME TypeOK, ControlInv, Retire
    PROVE  /\ ControlInv' /\ todo # <<>>
           /\ IF segments[Arg].valid THEN Pending' = StepsOf(RetireSteps) \cup Rest ELSE Pending' = Rest
<1>1. todo # <<>> /\ todo \in Seq(Steps) /\ UNCHANGED mode /\ Head(todo)[1] = "retire"
  BY DEF Retire, At, TypeOK
<1>2. CASE ~segments[Arg].valid
  <2>1. Continue
    BY <1>2 DEF Retire
  <2>. QED  BY <1>1, <1>2, <2>1, ContinueControlInv
<1>3. CASE segments[Arg].valid
  <2>1. Call(RetireSteps)
    BY <1>3 DEF Retire
  <2>2. IsList(RetireSteps, {"commit"})
    BY ShortLists, DoType DEF RetireSteps, Do
  <2>. QED  BY <1>1, <1>3, <2>1, <2>2, CallControlInv, MachineryType, FollowCalls DEF MachineryNames
<1>. QED  BY <1>1, <1>2, <1>3

\* The steps that seal a slot during recovery.
ResealSteps(s) == <<<<"open_writer", s>>>> \o SealSteps \o <<Do("close_writer")>>

\* The calls of a slot adopted for sealing.
LEMMA ResealControl ==
    ASSUME TypeOK, ControlInv, At("recover") \/ At("seal_recovered"), NEW s \in Slots,
           Call(ResealSteps(s)), UNCHANGED mode
    PROVE  ControlInv' /\ todo # <<>> /\ Pending' = StepsOf(ResealSteps(s)) \cup Rest
<1>1. todo # <<>> /\ todo \in Seq(Steps)
  BY DEF At, TypeOK
<1>2. IsList(ResealSteps(s), ResealNames)
  BY LongLists DEF ResealSteps, ResealNames
<1>3. \A n \in ResealNames : Follow[n] <= Follow[Head(todo)[1]]
  BY FollowCalls DEF At
<1>. QED  BY <1>1, <1>2, <1>3, CallControlInv, MachineryType DEF MachineryNames

\* The recovery of a slot fails, describes the slot, or repairs it.
LEMMA RecoverControl ==
    ASSUME TypeOK, ControlInv, Recover
    PROVE  /\ ControlInv' /\ todo # <<>> /\ Arg \in Slots
           /\ \/ Fail /\ Pending' = {}
              \/ /\ HeaderReadable(Arg)
                 /\ \/ SetDescriptor(Arg, NoSegment)
                    \/ SetDescriptor(Arg, Scan(Arg, HeaderGeneration(Arg), FALSE))
                    \/ /\ HasFooter(Arg, HeaderGeneration(Arg))
                       /\ SetDescriptor(Arg, SealedSegment(Footer(Arg, HeaderGeneration(Arg))))
                 /\ Pending' = Rest
              \/ /\ HeaderReadable(Arg)
                 /\ Adopt(Arg, HeaderGeneration(Arg))
                 /\ write_buf_offset' = active_write_offset'
                 /\ Pending' = StepsOf(ResealSteps(Arg)) \cup Rest
<1>. DEFINE s == Arg
            g == HeaderGeneration(s)
<1>1. todo # <<>> /\ todo \in Seq(Steps) /\ s \in Slots
  BY ArgType DEF Recover, At, TypeOK
<1>2. CASE Fail
  BY <1>1, <1>2, FailControl
<1>3. ASSUME NEW d, SetDescriptor(s, d)
      PROVE  ControlInv' /\ Pending' = Rest
  BY <1>1, <1>3, ContinueControlInv DEF SetDescriptor
<1>4. CASE HeaderReadable(s) /\ Outdated(g)
  BY <1>1, <1>3, <1>4 DEF Recover
<1>5. CASE HeaderReadable(s) /\ ~Outdated(g) /\ ~HasFooter(s, g)
  BY <1>1, <1>3, <1>5 DEF Recover
<1>6. CASE HeaderReadable(s) /\ ~Outdated(g) /\ HasFooter(s, g) /\ IndexValid(s, Footer(s, g))
  BY <1>1, <1>3, <1>6 DEF Recover
<1>7. CASE HeaderReadable(s) /\ ~Outdated(g) /\ HasFooter(s, g) /\ ~IndexValid(s, Footer(s, g)) /\ ~Fail
  <2>1. /\ Adopt(s, g) /\ write_buf_offset' = active_write_offset'
        /\ Call(ResealSteps(s))
    BY <1>7 DEF Recover, Repair, ResealSteps
  <2>2. UNCHANGED mode
    BY <2>1 DEF Adopt
  <2>3. ControlInv' /\ Pending' = StepsOf(ResealSteps(s)) \cup Rest
    BY <1>1, <2>1, <2>2, ResealControl DEF Recover
  <2>. QED  BY <1>1, <1>7, <2>1, <2>3
<1>8. CASE ~HeaderReadable(s)
  BY <1>2, <1>8 DEF Recover
<1>. QED  BY <1>2, <1>4, <1>5, <1>6, <1>7, <1>8

\* Sealing what a crash left open fails, is not needed, or adopts the slot.
LEMMA SealRecoveredControl ==
    ASSUME TypeOK, ControlInv, SealRecovered
    PROVE  /\ ControlInv' /\ todo # <<>> /\ Arg \in Slots
           /\ \/ Fail /\ Pending' = {}
              \/ UNCHANGED <<mode, memory>> /\ Pending' = Rest
              \/ /\ LeftBehind(Arg) /\ HeaderReadable(Arg)
                 /\ Adopt(Arg, HeaderGeneration(Arg))
                 /\ UNCHANGED write_buf_offset
                 /\ Pending' = StepsOf(ResealSteps(Arg)) \cup Rest
<1>. DEFINE s == Arg
            g == HeaderGeneration(s)
<1>1. todo # <<>> /\ todo \in Seq(Steps) /\ s \in Slots
  BY ArgType DEF SealRecovered, At, TypeOK
<1>2. CASE ~LeftBehind(s)
  <2>1. Continue /\ UNCHANGED <<mode, memory>>
    BY <1>2 DEF SealRecovered, Skip
  <2>. QED  BY <1>1, <2>1, ContinueControlInv
<1>3. CASE LeftBehind(s) /\ ~HeaderReadable(s)
  BY <1>1, <1>3, FailControl DEF SealRecovered
<1>4. CASE LeftBehind(s) /\ HeaderReadable(s)
  <2>1. Adopt(s, g) /\ UNCHANGED write_buf_offset /\ Call(ResealSteps(s))
    BY <1>4 DEF SealRecovered, ResealSteps
  <2>2. UNCHANGED mode
    BY <2>1 DEF Adopt
  <2>3. ControlInv' /\ Pending' = StepsOf(ResealSteps(s)) \cup Rest
    BY <1>1, <2>1, <2>2, ResealControl DEF SealRecovered
  <2>. QED  BY <1>1, <1>4, <2>1, <2>3
<1>. QED  BY <1>2, <1>3, <1>4

\* Choosing the active segment fails, reopens it, or opens the next one.
LEMMA SelectControl ==
    ASSUME TypeOK, ControlInv, SelectActive
    PROVE  /\ ControlInv' /\ todo # <<>> /\ HighestSlot(segments) \in Slots
           /\ LET s == HighestSlot(segments)
                  g == HeaderGeneration(s) IN
              \/ Fail /\ Pending' = {}
              \/ /\ HeaderReadable(s)
                 /\ ~segments[s].sealed
                 /\ Adopt(s, g)
                 /\ write_buf_offset' = active_write_offset'
                 /\ Pending' = StepsOf(<<<<"open_writer", s>>>>) \cup Rest
              \/ /\ HeaderReadable(s)
                 /\ segments[s].sealed
                 /\ active_segment' = [slot |-> s, generation |-> g]
                 /\ state' = RecoveredState([slot |-> s, generation |-> g])
                 /\ UNCHANGED <<segments, active_write_offset, write_buf,
                                write_buf_offset, writer_fd, sparse_index, mode>>
                 /\ Pending' = StepsOf(<<Do("open_next")>>) \cup Rest
<1>. DEFINE s == HighestSlot(segments)
            g == HeaderGeneration(s)
<1>1. todo # <<>> /\ todo \in Seq(Steps) /\ s \in Slots /\ Head(todo)[1] = "select"
  BY HighestType DEF SelectActive, At, TypeOK, MemoryTypeOK
<1>2. CASE ~HeaderReadable(s)
  BY <1>1, <1>2, FailControl DEF SelectActive
<1>3. CASE HeaderReadable(s) /\ ~segments[s].sealed
  <2>1. /\ Adopt(s, g) /\ write_buf_offset' = active_write_offset' /\ Call(<<<<"open_writer", s>>>>)
    BY <1>3 DEF SelectActive
  <2>2. UNCHANGED mode
    BY <2>1 DEF Adopt
  <2>3. IsList(<<<<"open_writer", s>>>>, {"open_writer"})
    <3>1. <<"open_writer", s>> \in Steps
      BY <1>1, SlotStepType
    <3>. QED  BY <3>1, ShortLists
  <2>4. \A n \in {"open_writer"} : Follow[n] <= Follow[Head(todo)[1]]
    BY <1>1, FollowCalls
  <2>5. {"open_writer"} \in SUBSET Machinery /\ {"open_writer"} \cap Entry = {}
    BY MachineryType DEF MachineryNames, ResealNames
  <2>6. ControlInv' /\ Pending' = StepsOf(<<<<"open_writer", s>>>>) \cup Rest
    BY <1>1, <2>1, <2>2, <2>3, <2>4, <2>5, CallControlInv
  <2>. QED  BY <1>1, <1>3, <2>1, <2>6
<1>4. CASE HeaderReadable(s) /\ segments[s].sealed
  <2>1. /\ active_segment' = [slot |-> s, generation |-> g]
        /\ state' = RecoveredState([slot |-> s, generation |-> g])
        /\ UNCHANGED <<segments, active_write_offset, write_buf,
                       write_buf_offset, writer_fd, sparse_index, mode>>
        /\ Call(<<Do("open_next")>>)
    BY <1>4 DEF SelectActive
  <2>2. IsList(<<Do("open_next")>>, {"open_next"})
    BY ShortLists, DoType DEF Do
  <2>3. \A n \in {"open_next"} : Follow[n] <= Follow[Head(todo)[1]]
    BY <1>1, FollowCalls
  <2>4. {"open_next"} \in SUBSET Machinery /\ {"open_next"} \cap Entry = {}
    BY MachineryType DEF MachineryNames, RotateNames
  <2>5. ControlInv' /\ Pending' = StepsOf(<<Do("open_next")>>) \cup Rest
    BY <1>1, <2>1, <2>2, <2>3, <2>4, CallControlInv
  <2>. QED  BY <1>1, <1>4, <2>1, <2>5
<1>. QED  BY <1>2, <1>3, <1>4

\* Picking the highest generation and counting the boot fail or move on.
LEMMA SetStateControl ==
    ASSUME TypeOK, ControlInv, PickHighest \/ CountBoot
    PROVE  /\ ControlInv' /\ todo # <<>>
           /\ \/ Fail /\ Pending' = {}
              \/ UNCHANGED mode /\ Pending' = Rest
<1>1. todo # <<>> /\ todo \in Seq(Steps)
  BY DEF PickHighest, CountBoot, At, TypeOK
<1>2. Fail \/ (Continue /\ UNCHANGED mode)
  BY DEF PickHighest, CountBoot, SetState
<1>3. CASE Fail
  BY <1>1, <1>3, FailControl
<1>4. CASE Continue /\ UNCHANGED mode
  BY <1>1, <1>4, ContinueControlInv
<1>. QED  BY <1>2, <1>3, <1>4

\* append_boot_entry_unsafe.
LEMMA AppendBootControl ==
    ASSUME TypeOK, ControlInv, AppendBoot
    PROVE  /\ ControlInv' /\ todo # <<>>
           /\ Pending' = StepsOf(AppendSteps(BootEntrySize, TRUE)) \cup Rest
           /\ ~Has(Booting)'
<1>. DEFINE q == AppendSteps(BootEntrySize, TRUE)
<1>1. todo # <<>> /\ todo \in Seq(Steps) /\ Call(q) /\ UNCHANGED mode /\ At("append_boot")
      /\ Head(todo)[1] = "append_boot"
  BY DEF AppendBoot, At, TypeOK
<1>2. /\ IsList(q, AppendNames)
      /\ \A x \in StepsOf(q) : x[1] \in Sized => x[2] = BootEntrySize
  BY BootEntryAssumption, AppendList
<1>. HIDE DEF q
<1>3. \A n \in AppendNames : Follow[n] <= Follow[Head(todo)[1]]
  BY <1>1, FollowCalls
<1>4. ControlInv' /\ Pending' = StepsOf(q) \cup Rest
  BY <1>1, <1>2, <1>3, CallControlInv, MachineryType DEF MachineryNames
<1>5. ~Has(Booting)'
  <2>1. \A x \in StepsOf(q) : x[1] \notin Booting
    BY <1>2, MachineryType DEF IsList, MachineryNames, Machinery
  <2>2. \A x \in Rest : x[1] \notin Booting
    BY <1>1, BehindBoot DEF ControlInv
  <2>. QED  BY <1>4, <2>1, <2>2 DEF Has
<1>. QED  BY <1>1, <1>4, <1>5 DEF q

\* The last step of init().
LEMMA ReadyControl ==
    ASSUME TypeOK, ControlInv, Ready
    PROVE  ControlInv' /\ todo # <<>> /\ Pending' = {} /\ Rest = {}
<1>1. todo # <<>> /\ todo \in Seq(Steps) /\ Continue /\ Rest = {}
  BY BehindBoot DEF Ready, At, TypeOK, ControlInv
<1>2. Pending' = {}
  BY <1>1, ContinuePending
<1>3. todo' = Tail(todo)
  <2>1. Tail(todo) \in Seq(Steps)
    BY <1>1, HeadTailProperties
  <2>. QED  BY <1>1, <2>1 DEF Continue, Call
<1>4. Ordered(todo') /\ Committed(todo')
  BY <1>1, <1>3, RestPlace, CommittedTail DEF ControlInv
<1>. QED  BY <1>1, <1>2, <1>4 DEF ControlInv, Has, Ready

\* The calls of the application.
LEMMA OperationControl ==
    ASSUME TypeOK, ControlInv, AppendEntry \/ FlushWrite \/ Deinit
    PROVE  /\ ControlInv' /\ mode' = "run"
           /\ \A x \in Pending' : x[1] \notin Booting \cup {"ready"}
           /\ Has({"prepare"})' \/ \A x \in Pending' : x[1] \notin Sized
<1>1. mode' = "run"
  BY DEF AppendEntry, FlushWrite, Deinit, Idle
<1>2. /\ \E N \in SUBSET Machinery : IsList(todo', N)
      /\ \A x, y \in StepsOf(todo') : x[1] \in Sized /\ y[1] \in Sized => x[2] = y[2]
      /\ \/ \E x \in StepsOf(todo') : x[1] = "prepare"
         \/ \A x \in StepsOf(todo') : x[1] \notin Sized
  <2>1. CASE AppendEntry
    <3>1. PICK n \in EntrySizes, force_flush \in BOOLEAN : todo' = AppendSteps(n, force_flush)
      BY <2>1 DEF AppendEntry
    <3>2. /\ IsList(AppendSteps(n, force_flush), AppendNames)
          /\ \A x \in StepsOf(AppendSteps(n, force_flush)) : x[1] \in Sized => x[2] = n
          /\ <<"prepare", n>> \in StepsOf(AppendSteps(n, force_flush))
      BY AppendList, EntrySizesAssumption
    <3>. QED  BY <3>1, <3>2, MachineryType DEF MachineryNames
  <2>2. CASE FlushWrite
    <3>1. IsList(<<Do("flush")>>, {"flush"})
      BY ShortLists, DoType DEF Do
    <3>. QED  BY <2>2, <3>1, MachineryType DEF FlushWrite, MachineryNames, IsList, Sized
  <2>3. CASE Deinit
    <3>1. IsList(todo', {"flush", "close"})
      BY <2>3, LongLists DEF Deinit
    <3>. QED  BY <3>1, MachineryType DEF MachineryNames, IsList, Sized
  <2>. QED  BY <2>1, <2>2, <2>3
<1>3. ControlInv'
  BY <1>1, <1>2, OperationControlInv
<1>4. \A x \in Pending' : x[1] \notin Booting \cup {"ready"}
  BY <1>2 DEF Pending, IsList, Machinery
<1>. QED  BY <1>1, <1>2, <1>3, <1>4 DEF Has, Pending

\* init() starts.
LEMMA StartInitControl ==
    ASSUME StartInit
    PROVE  ControlInv' /\ Has({"count_boot"})' /\ Has({"append_boot"})' /\ Has(Recovering)'
<1>. DEFINE N == {"recover", "highest", "seal_recovered"} \cup LastNames
<1>1. /\ IsList(todo', N) /\ Committed(todo') /\ mode' = "init"
      /\ Pending' = StepsOf(InitSteps)
      /\ Do("append_boot") \in Pending' /\ Do("count_boot") \in Pending'
  BY InitList DEF StartInit, Pending
<1>2. \A x \in Pending' : x[1] \in N /\ x[1] \notin Entry
  BY <1>1 DEF IsList, Entry, Sized, LastNames, Pending
<1>3. Has({"append_boot"})' /\ Has({"count_boot"})' /\ Has(Recovering)'
  BY <1>1 DEF Has, Do, Recovering
<1>. QED  BY <1>1, <1>2, <1>3 DEF ControlInv, IsList, Has, Entry

-----------------------------------------------------------------------------
(* The space in the active segment.                                         *)

\* The steps after which there is space for the entry again.
Preparing == {"prepare", "open_next", "activate"}

\* A step that touches neither the buffer nor the offsets keeps the space, if it
\* drops no preparation and adds no entry.
LEMMA SpaceKept ==
    ASSUME SpaceInv, UNCHANGED <<active_write_offset, write_buf, write_buf_offset>>,
           mode' = "off" => mode = "off",
           Has(Booting)' => Has(Booting),
           Has(Preparing)' \/ (~Has(Preparing) /\ \A x \in Pending' : x[1] \in Sized => x \in Pending)
           \/ \A x \in Pending' : x[1] \notin Sized
    PROVE  SpaceInv'
<1>1. /\ active_write_offset' <= Capacity
      /\ IF write_buf' = <<>> THEN write_buf_offset' <= Capacity
         ELSE write_buf_offset' + Len(write_buf') <= active_write_offset'
      /\ mode' = "off" \/ Has(Booting)' => write_buf' = <<>>
  BY DEF SpaceInv
<1>2. Has(Preparing)' \/ \A x \in Pending' : x[1] \in Sized => HasSpace(x[2])'
  BY DEF SpaceInv, HasSpace, Preparing
<1>. QED  BY <1>1, <1>2 DEF SpaceInv, Preparing

\* What is behind the steps that change the offsets.
LEMMA BehindEntry ==
    ASSUME TypeOK, ControlInv, todo # <<>>
    PROVE  /\ At("put") \/ At("account") => \A y \in Rest : y[1] \notin Sized \cup Preparing
           /\ Pending = {Head(todo)} \cup Rest
           /\ \A x \in Pending : x[1] \in Sized => x[2] \in 1 .. Capacity
<1>0. todo \in Seq(Steps)
  BY DEF TypeOK
<1>1. \A y \in Rest : Follow[Head(todo)[1]] <= Place[y[1]] /\ y[1] \in Names
  BY <1>0, RestPlace, PendingSplit, PlaceType DEF ControlInv
<1>2. \A n \in Sized \cup Preparing : Place[n] < 30
  <2>1. \A n \in {"prepare", "put", "reserve", "write_entry", "account", "open_next", "activate"} :
            Place[n] < 30
    BY ONLY PlaceValues
  <2>2. Sized \cup Preparing =
            {"prepare", "put", "reserve", "write_entry", "account", "open_next", "activate"}
    BY DEF Sized, Preparing
  <2>. QED  BY <2>1, <2>2
<1>3. Follow["put"] = 30 /\ Follow["account"] = 30
  BY FollowValues
<1>4. ASSUME At("put") \/ At("account"), NEW y \in Rest
      PROVE  y[1] \notin Sized \cup Preparing
  <2>1. 30 <= Place[y[1]] /\ Place[y[1]] \in Nat
    BY <1>1, <1>3, <1>4, PlaceBounds DEF At
  <2>. QED  BY <1>2, <2>1
<1>5. Pending = {Head(todo)} \cup Rest /\ Pending \in SUBSET Steps
  BY <1>0, PendingSplit
<1>6. \A x \in Steps : x[1] \in Sized => x[2] \in 1 .. Capacity
  BY DEF Steps, Sized
<1>. QED  BY <1>4, <1>5, <1>6

\* A scan ends within the data area.
LEMMA ScanFits ==
    ASSUME MediumTypeOK, NEW s \in Slots, NEW g, NEW b
    PROVE  Scan(s, g, b).data_end <= Capacity
<1>. DEFINE R == ScannedEntries(s, g)
<1>1. CASE R = {}
  BY <1>1, CapacityAssumption DEF Scan, FreshSegment, NoSegment
<1>2. CASE R # {}
  <2>1. R \in SUBSET Nat /\ IsFiniteSet(R)
    BY ScannedType DEF Offsets
  <2>2. Max(R) \in R
    BY <1>2, <2>1, MaxType
  <2>3. EntryAt(s, g, Max(R))
    BY <2>2 DEF ScannedEntries
  <2>4. Scan(s, g, b).data_end = Max(R) + data[s][Max(R)].size
    BY <1>2 DEF Scan
  <2>. QED  BY <2>3, <2>4 DEF EntryAt
<1>. QED  BY <1>1, <1>2

\* A cleared memory has space.
LEMMA ResetSpace == Reset => SpaceInv'
<1>. SUFFICES ASSUME Reset PROVE SpaceInv'
  OBVIOUS
<1>1. Pending' = {}
  BY EmptyControl DEF Reset
<1>. QED  BY <1>1, CapacityAssumption DEF Reset, SpaceInv

\* So has the memory an error return leaves.
LEMMA FailSpace == SpaceInv /\ Fail => SpaceInv'
<1>. SUFFICES ASSUME SpaceInv, Fail PROVE SpaceInv'
  OBVIOUS
<1>1. CASE Reset
  BY <1>1, ResetSpace
<1>2. CASE todo' = <<>> /\ UNCHANGED <<mode, memory>>
  <2>1. Pending' = {}
    BY <1>2, EmptyControl
  <2>. QED  BY <1>2, <2>1, SpaceKept DEF memory, Has
<1>. QED  BY <1>1, <1>2 DEF Fail

\* The steps of an append that take space.
LEMMA EntrySpace ==
    ASSUME TypeOK, ControlInv, SpaceInv, PutEntry \/ AccountEntry
    PROVE  SpaceInv'
<1>1. todo # <<>> /\ Head(todo) \in Pending /\ Head(todo)[1] \in Sized \ Preparing
      /\ Head(todo)[2] = Arg
      /\ Pending = {Head(todo)} \cup Rest /\ \A y \in Rest : y[1] \notin Sized \cup Preparing
  BY BehindEntry DEF PutEntry, AccountEntry, At, Sized, Preparing, Arg
<1>2. Pending' = Rest /\ ControlInv'
  BY MovesControl DEF Moves
<1>3. Arg \in 1 .. Capacity /\ Capacity \in Nat
  BY <1>1, BehindEntry, CapacityAssumption
<1>4. ~Has(Preparing)
  BY <1>1 DEF Has
<1>5. Arg <= Capacity - active_write_offset
  BY <1>1, <1>4 DEF SpaceInv, HasSpace, Preparing
<1>6. /\ active_write_offset \in Nat /\ write_buf_offset \in Nat /\ write_buf \in Seq(Cell)
      /\ Len(write_buf) \in Nat
  BY DEF TypeOK, MemoryTypeOK
<1>7. active_write_offset' = active_write_offset + Arg /\ UNCHANGED mode /\ mode # "off"
  <2>1. mode # "off"
    BY <1>1 DEF ControlInv
  <2>2. CASE PutEntry
    BY <2>1, <2>2 DEF PutEntry, Account
  <2>3. CASE AccountEntry
    BY <2>1, <2>3 DEF AccountEntry, Account
  <2>. QED  BY <2>2, <2>3
<1>8. active_write_offset' <= Capacity
  BY <1>3, <1>5, <1>6, <1>7
<1>9. IF write_buf' = <<>> THEN write_buf_offset' <= Capacity
      ELSE write_buf_offset' + Len(write_buf') <= active_write_offset'
  <2>1. CASE PutEntry
    <3>. DEFINE cells == EntryCells(NewEntryId, active_segment.generation, Arg)
    <3>1. cells \in Seq(Cell) /\ Len(cells) = Arg
      <4>1. cells \in Seq(Cell)
        BY <1>3, NewEntryIdType, EntryCellsType DEF TypeOK, MemoryTypeOK
      <4>2. DOMAIN cells = 1 .. Arg
        BY DEF EntryCells
      <4>. HIDE DEF cells
      <4>3. DOMAIN cells = 1 .. Len(cells) /\ Len(cells) \in Nat
        BY <4>1
      <4>. QED  BY <1>3, <4>1, <4>2, <4>3
    <3>2. /\ write_buf' = write_buf \o cells
          /\ write_buf_offset' = IF write_buf = <<>> THEN active_write_offset ELSE write_buf_offset
      BY <2>1 DEF PutEntry
    <3>. HIDE DEF cells
    <3>3. Len(write_buf') = Len(write_buf) + Arg /\ write_buf' # <<>>
      <4>1. Len(write_buf \o cells) = Len(write_buf) + Len(cells)
        BY <1>6, <3>1, ConcatProperties
      <4>2. Len(write_buf') > 0
        BY <1>3, <1>6, <3>1, <3>2, <4>1
      <4>3. write_buf' # <<>>
        BY <4>2
      <4>. QED  BY <3>1, <3>2, <4>1, <4>3
    <3>4. CASE write_buf = <<>>
      <4>1. Len(write_buf) = 0
        BY <3>4
      <4>. QED  BY <1>3, <1>6, <1>7, <3>2, <3>3, <3>4, <4>1
    <3>5. CASE write_buf # <<>>
      BY <1>3, <1>6, <1>7, <3>2, <3>3, <3>5 DEF SpaceInv
    <3>. QED  BY <3>4, <3>5
  <2>2. CASE AccountEntry
    <3>1. UNCHANGED <<write_buf, write_buf_offset>>
      BY <2>2 DEF AccountEntry
    <3>. QED  BY <1>3, <1>6, <1>7, <3>1 DEF SpaceInv
  <2>. QED  BY <2>1, <2>2
<1>10. ~Has(Booting)'
  BY <1>1, <1>2 DEF ControlInv, Has
<1>11. \A x \in Pending' : x[1] \notin Sized
  BY <1>1, <1>2
<1>. QED  BY <1>7, <1>8, <1>9, <1>10, <1>11 DEF SpaceInv

\* The steps that only move on.
LEMMA MovesSpace ==
    ASSUME TypeOK, ControlInv, SpaceInv, Moves
    PROVE  SpaceInv'
<1>1. Pending' = Rest /\ ControlInv' /\ todo # <<>> /\ Pending = {Head(todo)} \cup Rest
  BY MovesControl, BehindEntry
<1>2. mode # "off" /\ (Has(Booting)' => Has(Booting))
  BY <1>1 DEF ControlInv, Has
<1>3. CASE PutEntry \/ AccountEntry
  BY <1>3, EntrySpace
<1>4. CASE WriteDone \/ OpenWriter \/ CloseWriter \/ Acknowledge \/ Sealed \/ Settle \/ ReserveEntry
  <2>1. UNCHANGED <<active_write_offset, write_buf, write_buf_offset, mode>>
    BY <1>4 DEF WriteDone, OpenWriter, CloseWriter, Acknowledge, Sealed, Settle, SetState,
                ReserveEntry, memory
  <2>2. Head(todo)[1] \notin Preparing
    <3>1. CASE WriteDone
      BY <3>1 DEF WriteDone, Write, WriterWrite, WriteBuffer, WriteEntry, WriteIndex, WriteFooter,
                  WriteHeader, Commit, At, Preparing
    <3>2. CASE OpenWriter \/ CloseWriter \/ Acknowledge \/ Sealed \/ Settle \/ ReserveEntry
      BY <3>2 DEF OpenWriter, CloseWriter, Acknowledge, Sealed, Settle, ReserveEntry, At, Preparing
    <3>. QED  BY <1>4, <3>1, <3>2
  <2>3. Has(Preparing)' \/ (~Has(Preparing) /\ \A x \in Pending' : x[1] \in Sized => x \in Pending)
    BY <1>1, <2>2 DEF Has
  <2>. QED  BY <1>2, <2>1, <2>3, SpaceKept
<1>5. CASE Flushed
  <2>1. /\ UNCHANGED <<active_write_offset, mode>> /\ write_buf' = <<>>
        /\ write_buf_offset' = active_write_offset /\ Head(todo)[1] \notin Preparing
    BY <1>5 DEF Flushed, At, Preparing
  <2>2. Has(Preparing)' \/ \A x \in Pending' : x[1] \in Sized => HasSpace(x[2])'
    BY <1>1, <2>1 DEF SpaceInv, Has, HasSpace, Preparing
  <2>. QED  BY <2>1, <2>2 DEF SpaceInv, Preparing
<1>6. CASE Activate
  <2>1. /\ active_write_offset' = 0 /\ write_buf' = <<>> /\ write_buf_offset' = 0
    BY <1>6 DEF Activate
  <2>2. \A x \in Pending' : x[1] \in Sized => HasSpace(x[2])'
    BY <1>1, <2>1, BehindEntry, CapacityAssumption DEF HasSpace
  <2>. QED  BY <2>1, <2>2, CapacityAssumption DEF SpaceInv
<1>. QED  BY <1>3, <1>4, <1>5, <1>6 DEF Moves

\* No step of these lists takes space.
LEMMA ListSizes ==
    /\ \A x \in StepsOf(FlushSteps) : x[1] \notin Sized \cup Booting
    /\ \A x \in StepsOf(SealSteps \o <<Do("open_next")>>) : x[1] \notin Sized \cup Booting
    /\ \A x \in StepsOf(RetireSteps) : x[1] \notin Sized \cup Booting
    /\ \A s \in Slots : /\ \A x \in StepsOf(ResealSteps(s)) : x[1] \notin Sized \cup Booting
                        /\ \A x \in StepsOf(<<<<"open_writer", s>>>>) : x[1] \notin Sized \cup Booting
    /\ \A x \in StepsOf(<<Do("open_next")>>) : x[1] \notin Sized \cup Booting
    /\ NextSlot \in Slots => \A x \in StepsOf(OpenNextSteps) : x[1] \notin Sized \cup Booting
    /\ Do("open_next") \in StepsOf(SealSteps \o <<Do("open_next")>>)
    /\ Do("open_next") \in StepsOf(<<Do("open_next")>>)
    /\ Do("activate") \in StepsOf(OpenNextSteps)
<1>. DEFINE All == FlushNames \cup RotateNames \cup ResealNames \cup OpenNextNames \cup {"commit"}
<1>1. All \cap (Sized \cup Booting) = {}
  BY MachineryType DEF MachineryNames, Machinery, Entry
<1>2. /\ IsList(FlushSteps, FlushNames)
      /\ IsList(SealSteps \o <<Do("open_next")>>, RotateNames)
      /\ \A s \in Slots : IsList(ResealSteps(s), ResealNames)
      /\ NextSlot \in Slots => IsList(OpenNextSteps, OpenNextNames)
  BY ShortLists, LongLists DEF FlushNames, RotateNames, ResealNames, ResealSteps, OpenNextSteps
<1>3. IsList(RetireSteps, {"commit"}) /\ IsList(<<Do("open_next")>>, {"open_next"})
  BY ShortLists, DoType DEF RetireSteps, Do
<1>4. \A s \in Slots : IsList(<<<<"open_writer", s>>>>, {"open_writer"})
  BY ShortLists, SlotStepType
<1>5. "open_next" \in RotateNames /\ "open_writer" \in ResealNames
  BY DEF RotateNames, ResealNames
<1>6. Do("open_next") \in StepsOf(<<Do("open_next")>>)
  BY DEF StepsOf
<1>7. StepsOf(SealSteps \o <<Do("open_next")>>) = StepsOf(SealSteps) \cup StepsOf(<<Do("open_next")>>)
  BY <1>3, SealStepsType, StepsOfConcat DEF IsList
<1>8. Do("activate") \in StepsOf(OpenNextSteps)
  <2>1. 5 \in DOMAIN OpenNextSteps /\ OpenNextSteps[5] = Do("activate")
    BY DEF OpenNextSteps
  <2>. QED  BY <2>1 DEF StepsOf
<1>. HIDE DEF All
<1>9. FlushNames \cup RotateNames \cup ResealNames \cup OpenNextNames \cup {"commit"} \subseteq All
  BY DEF All
<1>. QED  BY <1>1, <1>2, <1>3, <1>4, <1>5, <1>6, <1>7, <1>8, <1>9 DEF IsList

\* The steps that call others.
LEMMA CallsSpace ==
    ASSUME TypeOK, ControlInv, SpaceInv, Flush \/ PrepareSpace \/ OpenNext \/ Retire
    PROVE  SpaceInv'
<1>0. CASE todo # <<>> /\ mode # "off"
  <2>. DEFINE Kept == UNCHANGED <<active_write_offset, write_buf, write_buf_offset, mode>>
  <2>0. Pending = {Head(todo)} \cup Rest
    BY <1>0, BehindEntry
  <2>1. CASE Flush
    <3>1. Kept /\ Head(todo)[1] \notin Preparing
      BY <2>1 DEF Flush, memory, At, Preparing
    <3>2. \A x \in Pending' : x \in Rest \/ x[1] \notin Sized \cup Booting
      BY <2>1, FlushControl, ListSizes
    <3>3. Rest \subseteq Pending'
      BY <2>1, FlushControl
    <3>4. Has(Preparing)' \/ (~Has(Preparing) /\ \A x \in Pending' : x[1] \in Sized => x \in Pending)
      BY <2>0, <3>1, <3>2, <3>3 DEF Has
    <3>5. Has(Booting)' => Has(Booting)
      BY <2>0, <3>2 DEF Has
    <3>. QED  BY <3>1, <3>4, <3>5, SpaceKept
  <2>2. CASE PrepareSpace
    <3>1. Kept
      BY <2>2 DEF PrepareSpace, memory
    <3>2. \A x \in Pending' : x \in Rest \/ x[1] \notin Sized \cup Booting
      BY <2>2, PrepareControl, ListSizes
    <3>3. Has(Booting)' => Has(Booting)
      BY <2>0, <3>2 DEF Has
    <3>4. CASE ~HasSpace(Arg)
      <4>1. Has(Preparing)'
        BY <2>2, <3>4, PrepareControl, ListSizes DEF Has, Preparing, Do
      <4>. QED  BY <3>1, <3>3, <4>1, SpaceKept
    <3>5. CASE HasSpace(Arg)
      <4>1. \A x \in Pending' : x[1] \in Sized => x[2] = Arg
        <5>1. Head(todo) \in Pending /\ Head(todo)[1] \in Sized
          BY <2>0, <2>2 DEF PrepareSpace, At, Sized
        <5>. QED  BY <2>0, <3>2, <5>1 DEF ControlInv, Arg
      <4>2. \A x \in Pending' : x[1] \in Sized => HasSpace(x[2])'
        BY <3>1, <3>5, <4>1 DEF HasSpace
      <4>3. /\ active_write_offset' <= Capacity
            /\ IF write_buf' = <<>> THEN write_buf_offset' <= Capacity
               ELSE write_buf_offset' + Len(write_buf') <= active_write_offset'
            /\ mode' = "off" \/ Has(Booting)' => write_buf' = <<>>
        BY <3>1, <3>3 DEF SpaceInv
      <4>. QED  BY <4>2, <4>3 DEF SpaceInv
    <3>. QED  BY <3>4, <3>5
  <2>3. CASE OpenNext
    <3>1. CASE Fail
      BY <3>1, FailSpace
    <3>2. CASE Pending' = StepsOf(OpenNextSteps) \cup Rest /\ UNCHANGED <<mode, memory>>
      <4>1. NextSlot \in Slots
        BY NextSlotType DEF TypeOK
      <4>2. \A x \in Pending' : x \in Rest \/ x[1] \notin Sized \cup Booting
        BY <3>2, <4>1, ListSizes
      <4>3. Has(Preparing)'
        BY <3>2, ListSizes DEF Has, Preparing, Do
      <4>4. Has(Booting)' => Has(Booting)
        BY <2>0, <4>2 DEF Has
      <4>. QED  BY <3>2, <4>3, <4>4, SpaceKept DEF memory
    <3>. QED  BY <2>3, <3>1, <3>2, OpenNextControl
  <2>4. CASE Retire
    <3>1. Kept /\ Head(todo)[1] \notin Preparing
      BY <2>4 DEF Retire, At, Preparing
    <3>2. \A x \in Pending' : x \in Rest \/ x[1] \notin Sized \cup Booting
      BY <2>4, RetireControl, ListSizes
    <3>3. Rest \subseteq Pending'
      BY <2>4, RetireControl
    <3>4. Has(Preparing)' \/ (~Has(Preparing) /\ \A x \in Pending' : x[1] \in Sized => x \in Pending)
      BY <2>0, <3>1, <3>2, <3>3 DEF Has
    <3>5. Has(Booting)' => Has(Booting)
      BY <2>0, <3>2 DEF Has
    <3>. QED  BY <3>1, <3>4, <3>5, SpaceKept
  <2>. QED  BY <2>1, <2>2, <2>3, <2>4
<1>. QED  BY <1>0 DEF Flush, PrepareSpace, OpenNext, Retire, At, ControlInv

\* The steps of recovery leave no entry pending and the buffer empty.
LEMMA RecoverySpace ==
    ASSUME TypeOK, ControlInv, SpaceInv,
           Recover \/ PickHighest \/ SealRecovered \/ SelectActive \/ CountBoot \/ AppendBoot
    PROVE  SpaceInv'
<1>1. todo # <<>> /\ Head(todo)[1] \in Booting
  BY DEF Recover, PickHighest, SealRecovered, SelectActive, CountBoot, AppendBoot, At,
         Booting, Recovering
<1>2. /\ Pending = {Head(todo)} \cup Rest /\ Has(Booting)
      /\ write_buf = <<>> /\ mode # "off" /\ \A x \in Pending : x[1] \notin Sized
  <2>1. Pending = {Head(todo)} \cup Rest
    BY <1>1, BehindEntry
  <2>2. Has(Booting)
    BY <1>1, <2>1 DEF Has
  <2>3. \A x \in Pending : x[1] \notin Sized
    BY <2>2 DEF ControlInv, Has
  <2>. QED  BY <1>1, <2>1, <2>2, <2>3 DEF SpaceInv, ControlInv
<1>3. active_write_offset \in Nat /\ write_buf_offset \in Nat /\ Capacity \in Nat
      /\ active_write_offset <= Capacity /\ write_buf_offset <= Capacity
  BY <1>2, CapacityAssumption DEF TypeOK, MemoryTypeOK, SpaceInv
<1>4. CASE Fail
  BY <1>4, FailSpace
<1>5. ASSUME UNCHANGED <<active_write_offset, write_buf, write_buf_offset, mode>>,
             Has(Preparing)' \/ \A x \in Pending' : x[1] \notin Sized
      PROVE  SpaceInv'
  BY <1>2, <1>5, SpaceKept
<1>6. ASSUME NEW s \in Slots, HeaderReadable(s), Adopt(s, HeaderGeneration(s)),
             write_buf_offset' \in {active_write_offset', write_buf_offset},
             \A x \in Pending' : x[1] \notin Sized
      PROVE  SpaceInv'
  <2>1. active_write_offset' <= Capacity
    BY <1>6, ScanFits DEF Adopt, TypeOK
  <2>2. write_buf' = <<>> /\ mode' # "off"
    BY <1>2, <1>6 DEF Adopt
  <2>. QED  BY <1>3, <1>6, <2>1, <2>2 DEF SpaceInv
<1>7. CASE Recover
  <2>1. CASE Pending' = Rest /\ \E d : SetDescriptor(Arg, d)
    BY <1>2, <1>5, <2>1 DEF SetDescriptor
  <2>2. CASE /\ HeaderReadable(Arg) /\ Adopt(Arg, HeaderGeneration(Arg)) /\ Arg \in Slots
             /\ write_buf_offset' = active_write_offset'
             /\ Pending' = StepsOf(ResealSteps(Arg)) \cup Rest
    BY <1>2, <1>6, <2>2, ListSizes
  <2>. QED  BY <1>4, <1>7, <2>1, <2>2, RecoverControl
<1>8. CASE SealRecovered
  <2>1. CASE UNCHANGED <<mode, memory>> /\ Pending' = Rest
    BY <1>2, <1>5, <2>1 DEF memory
  <2>2. CASE /\ HeaderReadable(Arg) /\ Adopt(Arg, HeaderGeneration(Arg)) /\ Arg \in Slots
             /\ UNCHANGED write_buf_offset
             /\ Pending' = StepsOf(ResealSteps(Arg)) \cup Rest
    BY <1>2, <1>6, <2>2, ListSizes
  <2>. QED  BY <1>4, <1>8, <2>1, <2>2, SealRecoveredControl
<1>9. CASE SelectActive
  <2>. DEFINE s == HighestSlot(segments)
  <2>1. CASE /\ HeaderReadable(s) /\ Adopt(s, HeaderGeneration(s)) /\ s \in Slots
             /\ write_buf_offset' = active_write_offset'
             /\ Pending' = StepsOf(<<<<"open_writer", s>>>>) \cup Rest
    <3>1. \A x \in Pending' : x[1] \notin Sized
      BY <1>2, <2>1, ListSizes
    <3>. QED  BY <1>6, <2>1, <3>1
  <2>2. CASE /\ UNCHANGED <<segments, active_write_offset, write_buf,
                            write_buf_offset, writer_fd, sparse_index, mode>>
             /\ Pending' = StepsOf(<<Do("open_next")>>) \cup Rest
    BY <1>2, <1>5, <2>2, ListSizes
  <2>. QED  BY <1>4, <1>9, <2>1, <2>2, SelectControl
<1>10. CASE PickHighest \/ CountBoot
  <2>1. CASE Pending' = Rest /\ ~Fail
    <3>1. UNCHANGED <<active_write_offset, write_buf, write_buf_offset, mode>>
      BY <1>10, <2>1 DEF PickHighest, CountBoot, SetState
    <3>. QED  BY <1>2, <1>5, <2>1, <3>1
  <2>. QED  BY <1>4, <1>10, <2>1, SetStateControl
<1>11. CASE AppendBoot
  <2>1. Has(Preparing)'
    <3>1. <<"prepare", BootEntrySize>> \in Pending'
      BY <1>11, AppendBootControl, AppendList, BootEntryAssumption
    <3>. QED  BY <3>1 DEF Has, Preparing
  <2>. QED  BY <1>5, <1>11, <2>1 DEF AppendBoot, memory
<1>. QED  BY <1>7, <1>8, <1>9, <1>10, <1>11

\* The ends of operations, the calls of the application, and the environment.
LEMMA OperationSpace ==
    ASSUME TypeOK, ControlInv, SpaceInv,
           \/ Ready \/ Close \/ NoWriter \/ NoEntry \/ WriteError \/ OpenWriterError
           \/ StartInit \/ AppendEntry \/ FlushWrite \/ Deinit \/ RotIndex \/ RotData \/ Crash
    PROVE  SpaceInv' /\ ControlInv'
<1>1. CASE Close \/ Crash
  <2>1. Reset
    BY <1>1 DEF Close, Crash
  <2>. QED  BY <2>1, ResetSpace, EmptyControl DEF Reset
<1>2. CASE NoWriter \/ NoEntry \/ WriteError
  <2>1. Fail
    BY <1>2 DEF NoWriter, NoEntry, WriteError
  <2>. QED  BY <2>1, FailSpace, FailControl
<1>3. CASE OpenWriterError
  <2>1. CASE Reset
    BY <2>1, ResetSpace, EmptyControl DEF Reset
  <2>2. CASE /\ todo' = <<>>
             /\ UNCHANGED <<active_write_offset, write_buf, write_buf_offset, mode>>
    BY <2>2, EmptyControl, SpaceKept DEF Has
  <2>. QED  BY <1>3, <2>1, <2>2 DEF OpenWriterError
<1>4. CASE Ready
  <2>1. ControlInv' /\ Pending' = {}
    BY <1>4, ReadyControl
  <2>2. UNCHANGED <<active_write_offset, write_buf, write_buf_offset>> /\ mode' # "off"
    BY <1>4 DEF Ready, memory
  <2>. QED  BY <2>1, <2>2, SpaceKept DEF Has
<1>5. CASE StartInit
  <2>1. ControlInv' /\ Has(Recovering)'
    BY <1>5, StartInitControl
  <2>2. \A x \in Pending' : x[1] \notin Sized
    BY <2>1 DEF ControlInv, Has, Booting
  <2>3. /\ UNCHANGED <<active_write_offset, write_buf, write_buf_offset>> /\ write_buf = <<>>
    BY <1>5 DEF StartInit, SpaceInv
  <2>. QED  BY <2>1, <2>2, <2>3 DEF SpaceInv
<1>6. CASE AppendEntry \/ FlushWrite \/ Deinit
  <2>1. /\ ControlInv' /\ mode' = "run" /\ ~Has(Booting)'
        /\ Has(Preparing)' \/ \A x \in Pending' : x[1] \notin Sized
    BY <1>6, OperationControl DEF Has, Preparing
  <2>2. UNCHANGED <<active_write_offset, write_buf, write_buf_offset>>
    BY <1>6 DEF AppendEntry, FlushWrite, Deinit, memory
  <2>. QED  BY <2>1, <2>2, SpaceKept
<1>7. CASE RotIndex \/ RotData
  <2>1. UNCHANGED <<memory, mode, todo>>
    BY <1>7 DEF RotIndex, RotData, control
  <2>2. ControlInv' /\ Pending' = Pending
    BY <2>1 DEF ControlInv, Pending, Has, Ordered, Committed
  <2>. QED  BY <2>1, <2>2, SpaceKept DEF memory, Has
<1>. QED  BY <1>1, <1>2, <1>3, <1>4, <1>5, <1>6, <1>7

\* The provisioned store has no operation in progress and nothing to write.
LEMMA InitSpace == Init => ControlInv /\ SpaceInv
<1>. SUFFICES ASSUME Init PROVE ControlInv /\ SpaceInv
  OBVIOUS
<1>1. Pending = {} /\ todo = <<>>
  BY DEF Init, Pending, StepsOf
<1>. QED  BY <1>1, CapacityAssumption DEF Init, ControlInv, SpaceInv, Ordered, Committed, Has

\* Every action keeps the order of the continuation and the space.
LEMMA NextSpace == TypeOK /\ ControlInv /\ SpaceInv /\ [Next]_vars => ControlInv' /\ SpaceInv'
<1>. SUFFICES ASSUME TypeOK, ControlInv, SpaceInv, [Next]_vars PROVE ControlInv' /\ SpaceInv'
  OBVIOUS
<1>1. CASE Moves
  BY <1>1, MovesControl, MovesSpace
<1>2. CASE Flush \/ PrepareSpace \/ OpenNext \/ Retire
  BY <1>2, FlushControl, PrepareControl, OpenNextControl, RetireControl, CallsSpace
<1>3. CASE Recover \/ PickHighest \/ SealRecovered \/ SelectActive \/ CountBoot \/ AppendBoot
  BY <1>3, RecoverControl, SetStateControl, SealRecoveredControl, SelectControl,
     AppendBootControl, RecoverySpace
<1>4. CASE \/ Ready \/ Close \/ NoWriter \/ NoEntry \/ WriteError \/ OpenWriterError
           \/ StartInit \/ AppendEntry \/ FlushWrite \/ Deinit \/ RotIndex \/ RotData \/ Crash
  BY <1>4, OperationSpace
<1>5. CASE UNCHANGED vars
  <2>1. UNCHANGED <<memory, mode, todo>>
    BY <1>5 DEF vars, control
  <2>2. ControlInv' /\ Pending' = Pending
    BY <2>1 DEF ControlInv, Pending, Has, Ordered, Committed
  <2>. QED  BY <2>1, <2>2, SpaceKept DEF memory, Has
<1>. QED  BY <1>1, <1>2, <1>3, <1>4, <1>5 DEF Next, Step, Moves

\* The buffer and the accounted entries stay within the data area of the active
\* segment, whatever fails: no append or flush writes into the sparse index
\* (prepare_entry_space_unsafe, entry.cpp:105).
THEOREM SpaceCorrect == Spec => []DataFits
<1>1. TypeOK /\ SpaceInv => DataFits
  <2>. SUFFICES ASSUME TypeOK, SpaceInv PROVE DataFits
    OBVIOUS
  <2>1. /\ write_buf_offset \in Nat /\ active_write_offset \in Nat /\ Len(write_buf) \in Nat
        /\ Capacity \in Nat
    BY CapacityAssumption DEF TypeOK, MemoryTypeOK
  <2>2. CASE write_buf = <<>>
    <3>1. Len(write_buf) = 0
      BY <2>2
    <3>. QED  BY <2>1, <2>2, <3>1 DEF SpaceInv, DataFits
  <2>3. CASE write_buf # <<>>
    BY <2>1, <2>3 DEF SpaceInv, DataFits
  <2>. QED  BY <2>2, <2>3
<1>2. Init => TypeOK /\ ControlInv /\ SpaceInv
  BY InitType, InitSpace
<1>3. TypeOK /\ ControlInv /\ SpaceInv /\ [Next]_vars => (TypeOK /\ ControlInv /\ SpaceInv)'
  BY NextType, NextSpace
<1>. QED  BY <1>1, <1>2, <1>3, PTL DEF Spec
===============================================================================
