---------------------------- MODULE BootEventProofs ----------------------------
(***************************************************************************)
(* The boot event and its coredump, for any images, sizes, errors and      *)
(* power losses.                                                           *)
(***************************************************************************)
EXTENDS BootEvent, TLAPS

Streaming == phase \in {"stream", "sync"}
Unsaved == phase \in {"image", "stream", "sync"}
Committing == phase \in {"commit", "commit_ordinary"}

\* What is about to be written, or may have landed, fits the active segment.
Fits ==
    /\ Streaming => HasSpace(Size(Carrying))
    /\ phase = "flush" => HasSpace(1)
    /\ \A event \in landed : HasSpace(Size(event))

\* A fingerprint, in memory or on the medium, belongs to an image that was stored.
Backed ==
    /\ manifest.image # NoImage => copies[manifest.image] > 0
    /\ fingerprint # NoImage => copies[fingerprint] > 0

\* An image that is being written, or may have landed, is not the one of the manifest.
Fresh ==
    /\ Unsaved => image # NoImage /\ image # fingerprint
    /\ Unsaved \/ phase = "check" => fingerprint = manifest.image
    /\ Committing => landed = {}
    /\ \A event \in landed : event.image # NoImage => event.image # manifest.image
    /\ phase = "ready" => landed = {}

IInv == TypeOK /\ Fits /\ Backed /\ Fresh

USE CapacityAssumption, ImageAssumption, BoundAssumption
-----------------------------------------------------------------------------
(* The helpers of the actions.                                             *)

LEMMA SizeType ==
    ASSUME NEW event \in Event
    PROVE  Size(event) \in Nat \ {0}
  BY DEF Size, Event

LEMMA ActiveType ==
    ASSUME NEW segs \in Seq(Segment), Len(segs) \in 1 .. SegmentCount
    PROVE  Active(segs) \in Segment /\ Active(segs).used \in 0 .. Capacity
           /\ Active(segs).events \in SUBSET Event
<1>1. Active(segs) \in Segment
  BY DEF Active
<1> QED BY <1>1 DEF Segment

\* An entry that fits leaves the store typed.
LEMMA WithType ==
    ASSUME NEW segs \in Seq(Segment), Len(segs) \in 1 .. SegmentCount, NEW event \in Event,
           Size(event) <= Capacity - Active(segs).used
    PROVE  With(segs, event) \in Seq(Segment) /\ Len(With(segs, event)) = Len(segs)
<1> DEFINE last == [used |-> segs[Len(segs)].used + Size(event),
                    events |-> segs[Len(segs)].events \cup {event}]
<1>1. last \in Segment
  <2>1. segs[Len(segs)].used \in 0 .. Capacity /\ segs[Len(segs)].events \in SUBSET Event
    BY ActiveType DEF Active
  <2>2. segs[Len(segs)].used + Size(event) \in 0 .. Capacity
    BY <2>1, SizeType DEF Active
  <2> QED BY <2>1, <2>2 DEF Segment
<1>2. With(segs, event) = [segs EXCEPT ![Len(segs)] = last]
  BY DEF With
<1> HIDE DEF last
<1> QED BY <1>1, <1>2

\* A rotation makes an empty active segment and keeps at most SegmentCount.
LEMMA RotatedType ==
    ASSUME NEW segs \in Seq(Segment), Len(segs) \in 1 .. SegmentCount
    PROVE  /\ Rotated(segs) \in Seq(Segment) /\ Len(Rotated(segs)) \in 1 .. SegmentCount
           /\ Active(Rotated(segs)) = Empty
<1> DEFINE longer == Append(segs, Empty)
<1>1. Empty \in Segment
  BY DEF Empty, Segment
<1>2. longer \in Seq(Segment) /\ Len(longer) = Len(segs) + 1 /\ longer[Len(longer)] = Empty
  BY <1>1
<1>3. Tail(longer) \in Seq(Segment) /\ Len(Tail(longer)) = Len(segs)
      /\ Tail(longer)[Len(segs)] = longer[Len(longer)]
  BY <1>2
<1> HIDE DEF longer
<1> QED BY <1>2, <1>3 DEF Rotated, Active, longer

\* After prepare_entry_space_unsafe the entry fits.
LEMMA PrepareSpaceFits ==
    ASSUME TypeOK, NEW size \in 1 .. Capacity, PrepareSpace(size)
    PROVE  /\ segments' \in Seq(Segment) /\ Len(segments') \in 1 .. SegmentCount
           /\ size <= Capacity - Active(segments').used
           /\ landed' \subseteq landed
           /\ (segments' = segments \/ landed' = {})
<1>1. segments \in Seq(Segment) /\ Len(segments) \in 1 .. SegmentCount
  BY DEF TypeOK
<1>2. CASE HasSpace(size)
  BY <1>1, <1>2 DEF PrepareSpace, HasSpace
<1>3. CASE ~HasSpace(size)
  <2>1. segments' = Rotated(segments) /\ landed' = {}
    BY <1>3 DEF PrepareSpace
  <2>2. Active(segments').used = 0
    BY <1>1, <2>1, RotatedType DEF Empty
  <2> QED BY <1>1, <2>1, <2>2, RotatedType
<1> QED BY <1>2, <1>3

\* Counting a copy never takes one away.
LEMMA CountedType ==
    ASSUME NEW event \in Event, copies \in [Images -> Nat]
    PROVE  /\ Counted(event) \in [Images -> Nat]
           /\ \A i \in Images : Counted(event)[i] >= copies[i]
           /\ \A i \in Images : i # event.image => Counted(event)[i] = copies[i]
           /\ event.image # NoImage => Counted(event)[event.image] > 0
<1>1. CASE event.image = NoImage
  BY <1>1 DEF Counted
<1>2. CASE event.image # NoImage
  <2>1. event.image \in Images
    BY <1>2 DEF Event
  <2>2. Counted(event) = [copies EXCEPT ![event.image] = copies[event.image] + 1]
    BY <1>2 DEF Counted
  <2> QED BY <2>1, <2>2
<1> QED BY <1>1, <1>2

LEMMA EventTypes ==
    ASSUME TypeOK
    PROVE  Carrying \in Event /\ Ordinary \in Event /\ Size(Ordinary) = 1
           /\ Carrying.image = image /\ Ordinary.image = NoImage
<1>1. boot \in Nat /\ image \in Images \cup {NoImage}
  BY DEF TypeOK
<1>2. Ordinary.image = NoImage /\ Carrying.image = image
  BY DEF Ordinary, Carrying
<1> QED BY <1>1, <1>2 DEF Carrying, Ordinary, Event, Size

LEMMA ErrorType ==
    ASSUME TypeOK, Error \/ NoError
    PROVE  clean' \in BOOLEAN /\ errors' \in Nat
<1>1. clean \in BOOLEAN /\ errors \in Nat
  BY DEF TypeOK
<1>2. clean' \in BOOLEAN
  <2>1. clean' = clean \/ clean' = FALSE
    BY Zenon DEF Error, NoError
  <2> QED BY <1>1, <2>1
<1>3. errors' \in Nat
  <2>1. errors' = errors \/ errors' = errors + 1
    BY Zenon DEF Error, NoError
  <2> QED BY <1>1, <2>1
<1> QED BY <1>2, <1>3

-----------------------------------------------------------------------------
(* One lemma per action.                                                   *)

LEMMA InitIInv == Init => IInv
<1> SUFFICES ASSUME Init PROVE IInv OBVIOUS
<1>1. segments \in Seq(Segment) /\ Len(segments) = 1
  BY DEF Init, Empty, Segment
<1>2. TypeOK
  BY <1>1 DEF Init, TypeOK, NoCopy
<1> QED BY <1>2 DEF Init, IInv, Fits, Backed, Fresh, Streaming, Unsaved, Committing

LEMMA StartIInv == IInv /\ Start => IInv'
<1> SUFFICES ASSUME IInv, Start PROVE IInv' OBVIOUS
<1>0. TypeOK BY DEF IInv
<1>1. /\ segments' \in Seq(Segment) /\ Len(segments') \in 1 .. SegmentCount
      /\ copies' \in [Images -> Nat] /\ \A i \in Images : copies'[i] >= copies[i]
  <2>1. CASE UNCHANGED <<segments, copies>>
    BY <1>0, <2>1 DEF TypeOK
  <2>2. ASSUME NEW event \in landed, segments' = With(segments, event), copies' = Counted(event)
        PROVE /\ segments' \in Seq(Segment) /\ Len(segments') \in 1 .. SegmentCount
              /\ copies' \in [Images -> Nat] /\ \A i \in Images : copies'[i] >= copies[i]
    <3>1. event \in Event /\ segments \in Seq(Segment) /\ Len(segments) \in 1 .. SegmentCount
          /\ copies \in [Images -> Nat]
      BY <1>0 DEF TypeOK
    <3>2. Size(event) <= Capacity - Active(segments).used
      BY DEF IInv, Fits, HasSpace
    <3> QED BY <2>2, <3>1, <3>2, WithType, CountedType
  <2> QED BY <2>1, <2>2 DEF Start
<1>2. TypeOK'
  <2>1. clean' \in BOOLEAN
    BY DEF Start
  <2>2. manifest.boot \in Nat /\ manifest.image \in Images \cup {NoImage}
    BY <1>0 DEF TypeOK
  <2>3. manifest' \in [boot : Nat, image : Images \cup {NoImage}]
    <3>1. manifest' = [manifest EXCEPT !.boot = manifest.boot + 1]
      BY DEF Start
    <3>2. manifest \in [boot : Nat, image : Images \cup {NoImage}]
      BY <1>0 DEF TypeOK
    <3> QED BY <2>2, <3>1, <3>2
  <2>4. boot' \in Nat /\ fingerprint' \in Images \cup {NoImage} /\ landed' \subseteq Event
    BY <2>2 DEF Start
  <2> QED BY <1>0, <1>1, <2>1, <2>3, <2>4 DEF TypeOK, Start
<1>3. Backed'
  BY <1>0, <1>1 DEF TypeOK, IInv, Backed, Start
<1> QED BY <1>2, <1>3 DEF IInv, Fits, Fresh, Streaming, Unsaved, Committing, Start

LEMMA CheckImageIInv == IInv /\ CheckImage => IInv'
<1> SUFFICES ASSUME IInv, CheckImage PROVE IInv' OBVIOUS
<1>0. TypeOK /\ (Error \/ NoError)
  BY DEF IInv, CheckImage
<1>1. TypeOK'
  BY <1>0, ErrorType DEF TypeOK, CheckImage, medium
<1>2. Fits'
  BY DEF IInv, Fits, Streaming, HasSpace, CheckImage, medium
<1>3. Backed' /\ Fresh'
  BY DEF IInv, Backed, Fresh, Unsaved, Committing, CheckImage, medium, IsNew
<1> QED BY <1>1, <1>2, <1>3 DEF IInv

LEMMA PrepareImageIInv == IInv /\ PrepareImage => IInv'
<1> SUFFICES ASSUME IInv, PrepareImage PROVE IInv' OBVIOUS
<1>0. TypeOK /\ Carrying' = Carrying
  BY DEF IInv, PrepareImage, Carrying
<1>1. CASE Size(Carrying) > Capacity
  <2>1. TypeOK'
    BY <1>0, <1>1 DEF TypeOK, PrepareImage, NoError
  <2>2. Fits' /\ Backed' /\ Fresh'
    BY <1>1 DEF IInv, Fits, Backed, Fresh, Streaming, Unsaved, Committing, HasSpace, PrepareImage
  <2> QED BY <2>1, <2>2 DEF IInv
<1>2. CASE ~(Size(Carrying) > Capacity)
  <2>1. phase' = "stream" /\ PrepareSpace(Size(Carrying))
    BY <1>2 DEF PrepareImage
  <2>2. Size(Carrying) \in 1 .. Capacity
    BY <1>0, <1>2, SizeType, EventTypes
  <2>3. /\ segments' \in Seq(Segment) /\ Len(segments') \in 1 .. SegmentCount
        /\ Size(Carrying) <= Capacity - Active(segments').used
        /\ landed' \subseteq landed
        /\ (segments' = segments \/ landed' = {})
    BY <1>0, <2>1, <2>2, PrepareSpaceFits
  <2>4. TypeOK'
    BY <1>0, <2>1, <2>3 DEF TypeOK, PrepareImage, NoError
  <2>5. Fits'
    BY <1>0, <2>1, <2>3 DEF IInv, Fits, HasSpace, Streaming
  <2>6. Backed' /\ Fresh'
    BY <2>1, <2>3 DEF IInv, Backed, Fresh, Unsaved, Committing, PrepareImage
  <2> QED BY <2>4, <2>5, <2>6 DEF IInv
<1> QED BY <1>1, <1>2

LEMMA StreamImageIInv == IInv /\ StreamImage => IInv'
<1> SUFFICES ASSUME IInv, StreamImage PROVE IInv' OBVIOUS
<1>0. TypeOK /\ Carrying' = Carrying /\ segments' = segments
  BY DEF IInv, StreamImage, Carrying
<1>1. Carrying \in Event /\ Carrying.image = image
  BY <1>0, EventTypes
<1>2. landed' = landed \/ landed' = {Carrying}
  BY DEF StreamImage
<1>3. HasSpace(Size(Carrying)) /\ image # fingerprint /\ fingerprint = manifest.image
  BY DEF IInv, Fits, Fresh, Streaming, Unsaved, StreamImage
<1>4. TypeOK'
  BY <1>0, <1>1, <1>2, ErrorType DEF TypeOK, StreamImage
<1>5. Fits'
  BY <1>0, <1>2, <1>3 DEF IInv, Fits, HasSpace, Streaming, StreamImage
<1>6. Backed' /\ Fresh'
  BY <1>1, <1>2, <1>3 DEF IInv, Backed, Fresh, Unsaved, Committing, StreamImage
<1> QED BY <1>4, <1>5, <1>6 DEF IInv

LEMMA SyncImageIInv == IInv /\ SyncImage => IInv'
<1> SUFFICES ASSUME IInv, SyncImage PROVE IInv' OBVIOUS
<1>0. TypeOK /\ Carrying \in Event /\ Carrying.image = image
  BY EventTypes DEF IInv
<1>1. CASE /\ segments' = With(segments, Carrying) /\ copies' = Counted(Carrying)
           /\ landed' = {} /\ fingerprint' = image /\ phase' = "commit" /\ NoError
  <2>1. image # NoImage /\ HasSpace(Size(Carrying))
    BY DEF IInv, Fresh, Fits, Unsaved, Streaming, SyncImage
  <2>2. segments' \in Seq(Segment) /\ Len(segments') \in 1 .. SegmentCount
    BY <1>0, <1>1, <2>1, WithType DEF TypeOK, HasSpace
  <2>3. /\ copies' \in [Images -> Nat] /\ \A i \in Images : copies'[i] >= copies[i]
        /\ copies'[image] > 0
    BY <1>0, <1>1, <2>1, CountedType DEF TypeOK
  <2>4. TypeOK'
    BY <1>0, <1>1, <2>2, <2>3 DEF TypeOK, SyncImage, NoError
  <2>5. Backed'
    BY <1>0, <1>1, <2>3 DEF TypeOK, IInv, Backed, SyncImage
  <2>6. Fits' /\ Fresh'
    BY <1>1 DEF Fits, Fresh, Streaming, Unsaved, Committing
  <2> QED BY <2>4, <2>5, <2>6 DEF IInv
<1>2. CASE phase' = "ordinary" /\ Error /\ UNCHANGED <<segments, copies, landed, fingerprint>>
  <2>1. TypeOK'
    BY <1>0, <1>2, ErrorType DEF TypeOK, SyncImage
  <2>2. Fits' /\ Backed' /\ Fresh'
    BY <1>2 DEF IInv, Fits, Backed, Fresh, HasSpace, Streaming, Unsaved, Committing, SyncImage
  <2> QED BY <2>1, <2>2 DEF IInv
<1> QED BY <1>1, <1>2 DEF SyncImage

\* Both commits write the fingerprint that memory holds, after landed was emptied.
LEMMA CommitIInv == IInv /\ (CommitImage \/ CommitOrdinary) => IInv'
<1> SUFFICES ASSUME IInv, CommitImage \/ CommitOrdinary PROVE IInv' OBVIOUS
<1>1. /\ landed = {} /\ landed' = landed /\ manifest' \in {manifest, Committed}
      /\ phase' \in {"ready", "ordinary", "off"}
      /\ UNCHANGED <<image, segments, boot, fingerprint, copies>>
  BY DEF IInv, Fresh, Committing, CommitImage, CommitOrdinary
<1>2. TypeOK
  BY DEF IInv
<1>3. TypeOK'
  <2>1. cut' \in Nat /\ clean' \in BOOLEAN /\ errors' \in Nat
    BY <1>2, ErrorType DEF TypeOK, CommitImage, CommitOrdinary
  <2>2. manifest' \in [boot : Nat, image : Images \cup {NoImage}]
    BY <1>1, <1>2 DEF TypeOK, Committed
  <2> QED BY <1>1, <1>2, <2>1, <2>2 DEF TypeOK
<1>4. Backed'
  BY <1>1 DEF IInv, Backed, Committed
<1>5. Fits' /\ Fresh'
  BY <1>1 DEF Fits, Fresh, Streaming, Unsaved, Committing
<1> QED BY <1>3, <1>4, <1>5 DEF IInv

LEMMA PrepareOrdinaryIInv == IInv /\ PrepareOrdinary => IInv'
<1> SUFFICES ASSUME IInv, PrepareOrdinary PROVE IInv' OBVIOUS
<1>0. TypeOK
  BY DEF IInv
<1>1. /\ segments' \in Seq(Segment) /\ Len(segments') \in 1 .. SegmentCount
      /\ 1 <= Capacity - Active(segments').used
      /\ landed' \subseteq landed
      /\ (segments' = segments \/ landed' = {})
  BY <1>0, PrepareSpaceFits, 1 \in 1 .. Capacity DEF PrepareOrdinary
<1>2. TypeOK'
  BY <1>0, <1>1 DEF TypeOK, PrepareOrdinary, NoError
<1>3. Fits'
  BY <1>1 DEF IInv, Fits, HasSpace, Streaming, PrepareOrdinary
<1>4. Backed' /\ Fresh'
  BY <1>1 DEF IInv, Backed, Fresh, Unsaved, Committing, PrepareOrdinary
<1> QED BY <1>2, <1>3, <1>4 DEF IInv

LEMMA FlushOrdinaryIInv == IInv /\ FlushOrdinary => IInv'
<1> SUFFICES ASSUME IInv, FlushOrdinary PROVE IInv' OBVIOUS
<1>0. TypeOK /\ Ordinary \in Event /\ Ordinary.image = NoImage /\ Size(Ordinary) = 1
      /\ HasSpace(1)
  BY EventTypes DEF IInv, Fits, FlushOrdinary
<1>1. CASE segments' = With(segments, Ordinary) /\ landed' = {} /\ phase' = "commit_ordinary"
           /\ NoError /\ UNCHANGED cut
  <2>1. segments' \in Seq(Segment) /\ Len(segments') \in 1 .. SegmentCount
    BY <1>0, <1>1, WithType DEF TypeOK, HasSpace
  <2>2. TypeOK'
    BY <1>0, <1>1, <2>1 DEF TypeOK, FlushOrdinary, NoError
  <2>3. Fits' /\ Backed' /\ Fresh'
    BY <1>1 DEF IInv, Fits, Backed, Fresh, Streaming, Unsaved, Committing, FlushOrdinary
  <2> QED BY <2>2, <2>3 DEF IInv
<1>2. CASE /\ landed' \in {landed, landed \cup {Ordinary}} /\ phase' = "off" /\ Error
           /\ cut' = cut + 1 /\ UNCHANGED segments
  <2>1. TypeOK'
    BY <1>0, <1>2, ErrorType DEF TypeOK, FlushOrdinary
  <2>2. Fits'
    BY <1>0, <1>2 DEF IInv, Fits, HasSpace, Streaming
  <2>3. Backed' /\ Fresh'
    BY <1>0, <1>2 DEF IInv, Backed, Fresh, Unsaved, Committing, FlushOrdinary
  <2> QED BY <2>1, <2>2, <2>3 DEF IInv
<1> QED BY <1>1, <1>2 DEF FlushOrdinary

LEMMA AppendEntryIInv == IInv /\ AppendEntry => IInv'
<1> SUFFICES ASSUME IInv, AppendEntry PROVE IInv' OBVIOUS
<1> DEFINE segs == IF HasSpace(1) THEN segments ELSE Rotated(segments)
           last == [segs[Len(segs)] EXCEPT !.used = @ + 1]
<1>0. TypeOK /\ segments \in Seq(Segment) /\ Len(segments) \in 1 .. SegmentCount
  BY DEF IInv, TypeOK
<1>1. /\ segs \in Seq(Segment) /\ Len(segs) \in 1 .. SegmentCount
      /\ Active(segs).used + 1 <= Capacity
  <2>1. CASE HasSpace(1)
    BY <1>0, <2>1, ActiveType DEF HasSpace
  <2>2. CASE ~HasSpace(1)
    BY <1>0, <2>2, RotatedType DEF Empty
  <2> QED BY <2>1, <2>2
<1>2. last \in Segment
  <2>1. segs[Len(segs)].used \in 0 .. Capacity /\ segs[Len(segs)].events \in SUBSET Event
        /\ segs[Len(segs)].used + 1 <= Capacity /\ segs[Len(segs)] \in Segment
    BY <1>1, ActiveType DEF Active
  <2> HIDE DEF segs
  <2>2. segs[Len(segs)].used + 1 \in 0 .. Capacity
    BY <2>1
  <2> QED BY <2>1, <2>2 DEF Segment
<1>3. segments' = [segs EXCEPT ![Len(segs)] = last]
  BY DEF AppendEntry
<1> HIDE DEF segs, last
<1>4. segments' \in Seq(Segment) /\ Len(segments') \in 1 .. SegmentCount
  BY <1>1, <1>2, <1>3
<1>5. TypeOK'
  BY <1>0, <1>4 DEF TypeOK, AppendEntry, memory
<1>6. landed = {}
  BY DEF IInv, Fresh, AppendEntry
<1> QED BY <1>5, <1>6 DEF IInv, Fits, Backed, Fresh, Streaming, Unsaved, Committing, AppendEntry, memory

LEMMA StopIInv == IInv /\ Stop => IInv'
<1> SUFFICES ASSUME IInv, Stop PROVE IInv' OBVIOUS
<1>0. /\ TypeOK /\ Carrying \in Event /\ Ordinary \in Event /\ Size(Ordinary) = 1
      /\ Carrying.image = image /\ Ordinary.image = NoImage
  BY EventTypes DEF IInv
<1>1. \/ landed' = landed
      \/ (landed' = landed \cup {Ordinary} /\ phase = "flush")
      \/ (landed' = {Carrying} /\ phase = "stream")
  BY DEF Stop, Landing
<1>2. manifest' = manifest \/ (manifest' = Committed /\ landed = {} /\ Committing)
  <2>1. CASE Committing
    BY <2>1, Zenon DEF Stop, Superblocks, Committing, IInv, Fresh
  <2>2. CASE ~Committing
    <3>1. Superblocks = {manifest}
      BY <2>2 DEF Superblocks, Committing
    <3>2. manifest' \in Superblocks
      BY DEF Stop
    <3> QED BY <3>1, <3>2
  <2> QED BY <2>1, <2>2
<1>3. TypeOK'
  <2>1. landed' \subseteq Event
    BY <1>0, <1>1 DEF TypeOK
  <2>2. manifest' \in [boot : Nat, image : Images \cup {NoImage}]
    BY <1>0, <1>2 DEF TypeOK, Committed
  <2> QED BY <1>0, <2>1, <2>2 DEF TypeOK, Stop
<1>4. Fits'
  BY <1>0, <1>1 DEF IInv, Fits, HasSpace, Streaming, Stop
<1>5. Backed'
  BY <1>2 DEF IInv, Backed, Committed, Stop
<1>6. Fresh'
  BY <1>0, <1>1, <1>2 DEF IInv, Fresh, Unsaved, Committing, Stop
<1> QED BY <1>3, <1>4, <1>5, <1>6 DEF IInv

LEMMA StutterIInv == IInv /\ UNCHANGED vars => IInv'
  BY DEF vars, medium, memory, IInv, TypeOK, Fits, Backed, Fresh, Streaming, Unsaved, Committing,
         HasSpace, Carrying, Size

LEMMA NextIInv == IInv /\ [Next]_vars => IInv'
  BY StartIInv, CheckImageIInv, PrepareImageIInv, StreamImageIInv, SyncImageIInv, CommitIInv,
     PrepareOrdinaryIInv, FlushOrdinaryIInv, AppendEntryIInv, StopIInv, StutterIInv DEF Next

LEMMA Inductive == Spec => []IInv
  BY InitIInv, NextIInv, PTL DEF Spec
-----------------------------------------------------------------------------

\* The model stays typed: no entry reaches beyond the data area of its segment.
THEOREM TypeCorrect == Spec => []TypeOK
<1>1. IInv => TypeOK
  BY DEF IInv
<1> QED BY <1>1, Inductive, PTL

\* The manifest never claims an image that was not stored (entry.cpp:473).
THEOREM ClaimsAreStored == Spec => []FingerprintBacked
<1>1. IInv => FingerprintBacked
  BY DEF IInv, Backed, FingerprintBacked
<1> QED BY <1>1, Inductive, PTL

\* The image the manifest names is not stored a second time (entry.cpp:472).
THEOREM StoredOnce == Spec => NotStoredAgain
<1> DEFINE Kept == \A i \in Images : manifest.image = i => copies'[i] = copies[i]
<1>1. IInv /\ [Next]_vars => [Kept]_vars
  <2> SUFFICES ASSUME IInv, Next PROVE Kept
    OBVIOUS
  <2>1. CASE Start
    <3> SUFFICES ASSUME NEW event \in landed, copies' = Counted(event) PROVE Kept
      BY <2>1 DEF Start
    <3>1. event \in Event /\ copies \in [Images -> Nat]
      BY DEF IInv, TypeOK
    <3>2. event.image # NoImage => event.image # manifest.image
      BY DEF IInv, Fresh
    <3>3. CASE event.image = NoImage
      BY <3>3 DEF Counted
    <3>4. CASE event.image # NoImage
      BY <3>1, <3>2, <3>4, CountedType
    <3> QED BY <3>3, <3>4
  <2>2. CASE SyncImage
    <3>1. image # manifest.image /\ Carrying \in Event /\ Carrying.image = image
          /\ copies \in [Images -> Nat]
      BY <2>2, EventTypes DEF IInv, TypeOK, Fresh, Unsaved, SyncImage
    <3> QED BY <2>2, <3>1, CountedType DEF SyncImage
  <2>3. CASE ~Start /\ ~SyncImage
    BY <2>3 DEF Next, CheckImage, PrepareImage, StreamImage, CommitImage, PrepareOrdinary,
                FlushOrdinary, CommitOrdinary, AppendEntry, Stop
  <2> QED BY <2>1, <2>2, <2>3
<1> QED BY <1>1, Inductive, PTL DEF Spec, NotStoredAgain
=============================================================================
