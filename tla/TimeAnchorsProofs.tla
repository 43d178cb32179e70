--------------------------- MODULE TimeAnchorsProofs ---------------------------
(***************************************************************************)
(* The ring of time anchors, for every number of slots and segments, any   *)
(* clocks and any bounds.  First retention: no reuse of a slot loses an    *)
(* anchor of a retained boot.  Then the catalog of a ring, as a function:  *)
(* the chains of replacements are well founded and the epochs tile the     *)
(* uptime.  Then the ring over time: it stays in turn through failed and   *)
(* torn writes and restarts (RingInv), the boots of the segments stay in   *)
(* order (SpanInv, BootInv), and the catalog follows the ring (CatalogInv, *)
(* ClockInv).  Last the translation between uptime and UTC within an epoch *)
(* (TimeTranslation), which loses and invents nothing at the ends of the   *)
(* 64-bit range, for every MaxTime.                                        *)
(***************************************************************************)
EXTENDS TimeAnchors, WellFoundedInduction, TLAPS

USE CountAssumption, SegmentCountAssumption, MaxTimeAssumption, MeasuredAssumption, BoundAssumption
-----------------------------------------------------------------------------
(* Retention.                                                              *)

\* Without failed retirements memory retains what the durable floor says, so what
\* init() would recover is also what is_retained_boot sees.
IInv ==
    /\ oldest \in Nat /\ newest \in Nat /\ checkpoint.oldest \in Nat
    /\ checkpoint = [oldest |-> checkpoint.oldest, boot |-> checkpoint.boot]
    /\ oldest = checkpoint.oldest

LEMMA RecoveredType ==
    ASSUME IInv
    PROVE  RecoveredOldest \in Nat /\ checkpoint.oldest <= RecoveredOldest
  BY DEF IInv, RecoveredOldest, Larger

LEMMA InitIInv == Init => IInv
  BY DEF Init, IInv

LEMMA NextIInv ==
    ASSUME "retire" \notin Faults
    PROVE  IInv /\ [Next]_vars => IInv'
<1> SUFFICES ASSUME IInv, [Next]_vars PROVE IInv' OBVIOUS
<1>1. CASE Start
  BY <1>1, RecoveredType DEF Start, IInv
<1>2. CASE Stop
  BY <1>2 DEF Stop, IInv, medium
<1>3. CASE AppendEntry
  BY <1>3 DEF AppendEntry, IInv
<1>4. CASE Retire
  <2>1. /\ oldest' = Larger(oldest, newest + 2 - SegmentCount)
        /\ checkpoint' = [checkpoint EXCEPT !.oldest = oldest'] /\ newest' = newest
    BY <1>4 DEF Retire
  <2>2. oldest' \in Nat
    BY <2>1 DEF IInv, Larger
  <2>3. checkpoint' = [oldest |-> oldest', boot |-> checkpoint.boot]
    BY <2>1 DEF IInv
  <2> QED BY <2>1, <2>2, <2>3 DEF IInv
<1>5. CASE Activate
  BY <1>5 DEF Activate, IInv
<1>6. CASE AppendAnchor
  <2>1. /\ oldest' = oldest /\ newest' = newest /\ rotating' = rotating
        /\ ~rotating
    BY <1>6 DEF AppendAnchor, CanAppend
  <2>2. checkpoint' = [checkpoint EXCEPT !.oldest = oldest] \/ checkpoint' = checkpoint
    BY <1>6 DEF AppendAnchor
  <2>3. checkpoint' = [oldest |-> oldest, boot |-> checkpoint.boot] \/ checkpoint' = checkpoint
    BY <2>2 DEF IInv
  <2> QED BY <2>1, <2>3 DEF IInv
<1>7. CASE AppendCut \/ AppendFails \/ AppendUnread
  BY <1>7 DEF AppendCut, AppendFails, Unfinished, AppendUnread, segments, IInv
<1>8. CASE UNCHANGED vars
  BY <1>8 DEF vars, medium, IInv
<1> QED BY <1>1, <1>2, <1>3, <1>4, <1>5, <1>6, <1>7, <1>8 DEF Next

\* A boot that init() would still find is one that check_time_anchor_slot_reuse protects.
LEMMA DurableIsRetained ==
    ASSUME IInv, NEW b, IsDurableBoot(b)
    PROVE  IsRetainedBoot(b)
<1>1. PICK generation \in RecoveredOldest .. newest : Holds(generation, b)
  BY DEF IsDurableBoot
<1>2. generation \in oldest .. newest
  BY <1>1, RecoveredType DEF IInv
<1> QED BY <1>1, <1>2 DEF IsRetainedBoot

\* Only an append changes the ring, and only in a slot it may reuse.
LEMMA RingChanges ==
    ASSUME Next, NEW slot \in Slots, ring'[slot] # ring[slot], ring[slot] # Garbage,
           ring = [s \in Slots |-> ring[s]]
    PROVE  ~IsRetainedBoot(ring[slot].boot)
<1>1. CASE AppendAnchor
  <2>1. PICK mono \in Measured, replace \in 0 .. MaxSequence :
           /\ CanAppend(replace)
           /\ ring' = [ring EXCEPT ![time_anchor_write_index] = NewAnchor(mono, replace)]
    BY <1>1 DEF AppendAnchor
  <2>2. slot = time_anchor_write_index
    BY <2>1
  <2> QED BY <2>1, <2>2 DEF CanAppend, MayReuse
<1>2. CASE Unfinished
  <2>1. PICK mono \in Measured, replace \in 0 .. MaxSequence :
           /\ CanAppend(replace)
           /\ \E left \in {Garbage, NewAnchor(mono, replace)} :
                 ring' = [ring EXCEPT ![time_anchor_write_index] = left]
    BY <1>2 DEF Unfinished
  <2>2. slot = time_anchor_write_index
    BY <2>1
  <2> QED BY <2>1, <2>2 DEF CanAppend, MayReuse
<1>3. CASE AppendUnread
  <2>1. PICK mono \in Measured, replace \in 0 .. MaxSequence :
           /\ CanAppend(replace)
           /\ ring' = [ring EXCEPT ![time_anchor_write_index] = NewAnchor(mono, replace)]
    BY <1>3 DEF AppendUnread
  <2>2. slot = time_anchor_write_index
    BY <2>1
  <2> QED BY <2>1, <2>2 DEF CanAppend, MayReuse
<1>4. CASE UNCHANGED ring
  BY <1>4
<1> QED BY <1>1, <1>2, <1>3, <1>4 DEF Next, Start, Stop, AppendEntry, Retire, Activate, AppendCut,
                                       AppendFails, medium, anchors

\* An anchor goes only when no segment that the next init() would retain holds its boot
\* (manifest.cpp:513-525), as long as the commits of retirements succeed.
THEOREM AnchorsKept ==
    ASSUME "retire" \notin Faults
    PROVE  Spec => RetainedAnchorsKept
<1> DEFINE Ring == ring = [s \in Slots |-> ring[s]]
           Kept == \A slot \in Slots :
                      (ring[slot] # Garbage /\ ring'[slot] # ring[slot]) => ~IsDurableBoot(ring[slot].boot)
<1>1. Init => IInv /\ Ring
  BY InitIInv DEF Init
<1>2. Ring /\ [Next]_vars => Ring'
  BY DEF Next, vars, Start, Stop, AppendEntry, Retire, Activate, AppendAnchor, Unfinished, AppendCut,
         AppendFails, AppendUnread, medium, anchors
<1>3. IInv /\ Ring /\ [Next]_vars => [Kept]_vars
  BY RingChanges, DurableIsRetained
<1> QED BY <1>1, <1>2, <1>3, NextIInv, PTL DEF Spec, RetainedAnchorsKept
-----------------------------------------------------------------------------
(* The epochs.                                                             *)

Begun == [boot : Nat, begin : 0 .. MaxTime, anchor : Anchor]

\* A set of naturals that is not empty has a least member.
LEMMA LeastNatural ==
    ASSUME NEW T \in SUBSET Nat, T # {}
    PROVE  \E least \in T : \A t \in T : least <= t
<1>1. PICK least \in T : \A t \in T : ~(<<t, least>> \in OpToRel(<, Nat))
  BY NatLessThanWellFounded, WFMin
<1>2. \A t \in T : ~(t < least)
  BY <1>1 DEF OpToRel
<1> QED BY <1>2

\* So there is a first and a last among the beginnings on either side of a moment.
LEMMA FirstBegin ==
    ASSUME NEW B \in SUBSET Begun, B # {}
    PROVE  \E e \in B : \A o \in B : e.begin <= o.begin
<1> DEFINE T == {e.begin : e \in B}
<1>1. T \in SUBSET Nat /\ T # {}
  BY DEF Begun
<1>2. PICK least \in T : \A t \in T : least <= t
  BY <1>1, LeastNatural
<1> QED BY <1>2

LEMMA LastBegin ==
    ASSUME NEW B \in SUBSET Begun, B # {}
    PROVE  \E e \in B : \A o \in B : o.begin <= e.begin
<1> DEFINE T == {MaxTime - e.begin : e \in B}
<1>0. \A e \in B : e.begin \in 0 .. MaxTime
  BY DEF Begun
<1>1. T \in SUBSET Nat /\ T # {}
  BY <1>0
<1>2. PICK least \in T : \A t \in T : least <= t
  BY <1>1, LeastNatural
<1>3. PICK e \in B : least = MaxTime - e.begin
  BY <1>2
<1>4. \A o \in B : MaxTime - e.begin <= MaxTime - o.begin
  BY <1>2, <1>3
<1> QED BY <1>0, <1>4

\* The epoch that follows is the next one of the boot.
LEMMA FollowingIsNext ==
    ASSUME NEW begins \in SUBSET Begun, NEW e \in begins, Later(begins, e) # {}
    PROVE  /\ Following(begins, e) \in Later(begins, e)
           /\ \A o \in Later(begins, e) : Following(begins, e).begin <= o.begin
<1>1. Later(begins, e) \in SUBSET Begun
  BY DEF Later
<1>2. \E next \in Later(begins, e) : \A o \in Later(begins, e) : next.begin <= o.begin
  BY <1>1, FirstBegin
<1> QED BY <1>2 DEF Following

\* The uptimes of one epoch end before a later one of its boot begins.
LEMMA NoOverlap ==
    ASSUME NEW begins \in SUBSET Begun, NEW e \in begins, NEW later \in begins,
           later.boot = e.boot, e.begin < later.begin
    PROVE  /\ EpochFirst(begins, later) = later.begin
           /\ EpochLast(begins, e) < later.begin
<1>1. later \in Later(begins, e) /\ e \in Earlier(begins, later)
  BY DEF Later, Earlier
<1>2. EpochFirst(begins, later) = later.begin
  BY <1>1 DEF EpochFirst
<1>3. EpochLast(begins, e) = Following(begins, e).begin - 1
  BY <1>1 DEF EpochLast
<1>4. Following(begins, e) \in begins /\ Following(begins, e).begin <= later.begin
  BY <1>1, FollowingIsNext DEF Later
<1>5. Following(begins, e).begin \in Nat /\ later.begin \in Nat
  BY <1>4 DEF Begun
<1> QED BY <1>2, <1>3, <1>4, <1>5

\* set_time_model_epoch_bounds tiles: whatever distinct beginnings the compaction leaves, every
\* uptime of a boot that has an epoch lies in exactly one (manifest.cpp:409-420).
THEOREM BoundsTile ==
    ASSUME NEW begins \in SUBSET Begun,
           \A e, o \in begins : e.boot = o.boot /\ e.begin = o.begin => e = o
    PROVE  Tiled(Bounded(begins))
<1> DEFINE Bound(e) == [boot |-> e.boot, anchor |-> e.anchor,
                        first |-> EpochFirst(begins, e), last |-> EpochLast(begins, e)]
           In(uptime, e) == EpochFirst(begins, e) <= uptime /\ uptime <= EpochLast(begins, e)
<1>1. Bounded(begins) = {Bound(e) : e \in begins}
  BY DEF Bounded
<1>2. \A e \in begins : e.begin \in 0 .. MaxTime
  BY DEF Begun
<1>3. \A e \in begins : EpochFirst(begins, e) \in Int /\ EpochLast(begins, e) \in Int
  <2> SUFFICES ASSUME NEW e \in begins
               PROVE  EpochFirst(begins, e) \in Int /\ EpochLast(begins, e) \in Int
    OBVIOUS
  <2>1. Later(begins, e) # {} => Following(begins, e).begin \in Int
    BY <1>2, FollowingIsNext DEF Later
  <2> QED BY <1>2, <2>1 DEF EpochFirst, EpochLast
<1>4. ASSUME NEW b \in begins, NEW uptime \in 0 .. MaxTime
      PROVE  \E e \in begins : e.boot = b.boot /\ In(uptime, e)
  <2> DEFINE Mine == {e \in begins : e.boot = b.boot}
             Past == {e \in Mine : e.begin <= uptime}
  <2>1. Mine \in SUBSET Begun /\ Past \in SUBSET Begun /\ Mine # {}
    OBVIOUS
  <2>2. CASE Past # {}
    <3>1. PICK e \in Past : \A o \in Past : o.begin <= e.begin
      BY <2>1, <2>2, LastBegin
    <3>2. EpochFirst(begins, e) <= uptime
      BY <3>1, <1>2 DEF EpochFirst
    <3>3. uptime <= EpochLast(begins, e)
      <4>1. CASE Later(begins, e) = {}
        BY <4>1 DEF EpochLast
      <4>2. CASE Later(begins, e) # {}
        <5>1. /\ Following(begins, e) \in begins /\ Following(begins, e).boot = b.boot
              /\ Following(begins, e).begin > e.begin
          BY <3>1, <4>2, FollowingIsNext DEF Later
        <5>2. ~(Following(begins, e).begin <= uptime)
          BY <3>1, <5>1, <1>2
        <5> QED BY <5>1, <5>2, <4>2, <1>2 DEF EpochLast
      <4> QED BY <4>1, <4>2
    <3> QED BY <3>1, <3>2, <3>3
  <2>3. CASE Past = {}
    <3>1. PICK e \in Mine : \A o \in Mine : e.begin <= o.begin
      BY <2>1, FirstBegin
    <3>2. Earlier(begins, e) = {}
      BY <3>1, <1>2 DEF Earlier
    <3>3. EpochFirst(begins, e) <= uptime
      BY <3>2 DEF EpochFirst
    <3>4. uptime <= EpochLast(begins, e)
      <4>1. CASE Later(begins, e) = {}
        BY <4>1 DEF EpochLast
      <4>2. CASE Later(begins, e) # {}
        <5>1. Following(begins, e) \in Mine
          BY <3>1, <4>2, FollowingIsNext DEF Later
        <5>2. ~(Following(begins, e).begin <= uptime)
          BY <2>3, <5>1
        <5> QED BY <5>1, <5>2, <4>2, <1>2 DEF EpochLast
      <4> QED BY <4>1, <4>2
    <3> QED BY <3>1, <3>3, <3>4
  <2> QED BY <2>2, <2>3
<1>5. ASSUME NEW e \in begins, NEW o \in begins, e.boot = o.boot, NEW uptime \in 0 .. MaxTime,
             In(uptime, e), In(uptime, o)
      PROVE  e = o
  <2>1. ~(e.begin < o.begin)
    BY <1>3, <1>5, <1>2, NoOverlap
  <2>2. ~(o.begin < e.begin)
    BY <1>3, <1>5, <1>2, NoOverlap
  <2> QED BY <2>1, <2>2, <1>2, <1>5
<1>6. ASSUME NEW b \in begins, NEW uptime \in 0 .. MaxTime
      PROVE  \E only \in Bounded(begins) :
                 /\ only.boot = b.boot /\ uptime \in only.first .. only.last
                 /\ \A other \in Bounded(begins) :
                       (other.boot = b.boot /\ uptime \in other.first .. other.last) => other = only
  <2>1. PICK e \in begins : e.boot = b.boot /\ In(uptime, e)
    BY <1>4
  <2>2. \A o \in begins : /\ Bound(o).boot = o.boot
                         /\ (uptime \in Bound(o).first .. Bound(o).last) = In(uptime, o)
    BY <1>3
  <2>3. Bound(e) \in Bounded(begins) /\ Bound(e).boot = b.boot
        /\ uptime \in Bound(e).first .. Bound(e).last
    BY <1>1, <2>1, <2>2
  <2>4. ASSUME NEW o \in begins, Bound(o).boot = b.boot, uptime \in Bound(o).first .. Bound(o).last
        PROVE  Bound(o) = Bound(e)
    <3>1. o.boot = b.boot /\ In(uptime, o)
      BY <2>2, <2>4
    <3>2. o = e
      BY <3>1, <2>1, <1>5
    <3> QED BY <3>2
  <2> HIDE DEF Bound
  <2> QED BY <1>1, <2>3, <2>4
<1>7. \A x \in Bounded(begins) : \E b \in begins : b.boot = x.boot
  BY <1>1
<1> QED BY <1>6, <1>7 DEF Tiled

-----------------------------------------------------------------------------
(* The catalog of a ring.                                                   *)

\* The anchors append_time_anchor_unsafe writes.
StoredAnchor == [sequence : 1 .. MaxSequence, boot : Nat, mono : 0 .. MaxTime, replace : Nat]
StoredRing == [Slots -> StoredAnchor \cup {Garbage}]

\* What RootSequence computes for a sequence, given what it computed for the smaller ones.
RootStep(r, root, sequence) ==
    IF Named(r, sequence) = {} THEN 0
    ELSE LET a == CHOOSE a \in Named(r, sequence) : TRUE IN
         IF a.replace = 0 THEN sequence
         ELSE IF \E target \in Named(r, a.replace) :
                    target.boot = a.boot /\ target.sequence < sequence
         THEN root[a.replace] ELSE 0
RootsTo(r, n) == {f \in [0 .. n -> Nat] : \A m \in 0 .. n : f[m] = RootStep(r, f, m)}


\* The anchors of such a ring.
LEMMA ValidType == ASSUME NEW r \in StoredRing PROVE Valid(r) \subseteq StoredAnchor
  BY DEF StoredRing, Valid

LEMMA NamedType ==
    ASSUME NEW r \in StoredRing, NEW sequence, NEW a \in Named(r, sequence)
    PROVE  a \in StoredAnchor /\ a \in Valid(r) /\ a.sequence = sequence
  BY ValidType DEF Named

\* A root depends on smaller sequences only: a chain of replacements descends.
LEMMA RootStepLocal ==
    ASSUME NEW r \in StoredRing, NEW n \in Nat, NEW f, NEW g,
           \A m \in 0 .. n : m < n => f[m] = g[m] /\ f[m] \in Nat
    PROVE  RootStep(r, f, n) = RootStep(r, g, n) /\ RootStep(r, f, n) \in Nat
<1> DEFINE a == CHOOSE a \in Named(r, n) : TRUE
<1>1. CASE Named(r, n) = {}
  BY <1>1 DEF RootStep
<1>2. CASE Named(r, n) # {}
  <2>1. a \in Named(r, n)
    BY <1>2
  <2>2. a.replace \in Nat
    BY <2>1, NamedType DEF StoredAnchor
  <2>3. ASSUME NEW target \in Named(r, a.replace), target.sequence < n
        PROVE  f[a.replace] = g[a.replace] /\ f[a.replace] \in Nat
    <3>1. target.sequence = a.replace
      BY NamedType
    <3>2. a.replace \in 0 .. n /\ a.replace < n
      BY <2>2, <2>3, <3>1
    <3> HIDE DEF a
    <3> QED BY <3>2
  <2> HIDE DEF a
  <2>4. /\ RootStep(r, f, n) = IF a.replace = 0 THEN n
               ELSE IF \E target \in Named(r, a.replace) : target.boot = a.boot /\ target.sequence < n
               THEN f[a.replace] ELSE 0
        /\ RootStep(r, g, n) = IF a.replace = 0 THEN n
               ELSE IF \E target \in Named(r, a.replace) : target.boot = a.boot /\ target.sequence < n
               THEN g[a.replace] ELSE 0
    BY <1>2 DEF RootStep, a
  <2> QED BY <2>3, <2>4
<1> QED BY <1>1, <1>2

\* So it has a solution up to every sequence, and one only.
LEMMA RootsToExist ==
    ASSUME NEW r \in StoredRing, NEW n \in Nat
    PROVE  RootsTo(r, n) # {}
<1> DEFINE Bad == {k \in Nat : RootsTo(r, k) = {}}
<1> SUFFICES ASSUME Bad # {} PROVE FALSE
  OBVIOUS
<1>1. PICK least \in Bad : \A k \in Bad : least <= k
  <2> HIDE DEF Bad
  <2>1. Bad \in SUBSET Nat /\ Bad # {}
    BY DEF Bad
  <2> QED BY <2>1, LeastNatural
<1>2. \E f \in [0 .. least - 1 -> Nat] : \A m \in 0 .. least - 1 : f[m] = RootStep(r, f, m)
  <2>1. CASE least = 0
    <3>1. 0 .. least - 1 = {}
      BY <2>1
    <3>2. [m \in 0 .. least - 1 |-> 0] \in [0 .. least - 1 -> Nat]
      OBVIOUS
    <3> QED BY <3>1, <3>2
  <2>2. CASE least # 0
    <3>1. least - 1 \in Nat /\ ~(least <= least - 1)
      BY <2>2
    <3>2. RootsTo(r, least - 1) # {}
      BY <3>1, <1>1
    <3> QED BY <3>2 DEF RootsTo
  <2> QED BY <2>1, <2>2
<1>3. PICK f \in [0 .. least - 1 -> Nat] : \A m \in 0 .. least - 1 : f[m] = RootStep(r, f, m)
  BY <1>2
<1> DEFINE g == [m \in 0 .. least |-> IF m = least THEN RootStep(r, f, least) ELSE f[m]]
<1>4. RootStep(r, f, least) \in Nat
  BY <1>3, RootStepLocal
<1>5. g \in [0 .. least -> Nat]
  BY <1>3, <1>4
<1>6. \A m \in 0 .. least : m < least => g[m] = f[m] /\ f[m] \in Nat
  BY <1>3
<1>7. ASSUME NEW m \in 0 .. least PROVE g[m] = RootStep(r, g, m)
  <2>0. m \in Nat /\ g[least] = RootStep(r, f, least)
    OBVIOUS
  <2>1. \A i \in 0 .. m : i < m => f[i] = g[i] /\ f[i] \in Nat
    <3> HIDE DEF g
    <3> QED BY <1>6
  <2> HIDE DEF g
  <2>2. RootStep(r, f, m) = RootStep(r, g, m)
    BY ONLY <2>0, <2>1, r \in StoredRing, RootStepLocal
  <2>3. CASE m = least
    BY <2>0, <2>2, <2>3
  <2>4. CASE m # least
    <3>1. m \in 0 .. least - 1 /\ m < least
      BY <2>4
    <3> QED BY <3>1, <2>2, <1>3, <1>6
  <2> QED BY <2>3, <2>4
<1> HIDE DEF g
<1>8. g \in RootsTo(r, least)
  BY <1>5, <1>7 DEF RootsTo
<1> QED BY <1>1, <1>8

LEMMA RootsAgree ==
    ASSUME NEW r \in StoredRing, NEW n \in Nat, NEW k \in Nat,
           NEW f \in RootsTo(r, n), NEW g \in RootsTo(r, k),
           NEW m \in Nat, m <= n, m <= k
    PROVE  f[m] = g[m]
<1> DEFINE Bad == {i \in Nat : i <= n /\ i <= k /\ f[i] # g[i]}
<1> SUFFICES ASSUME Bad # {} PROVE FALSE
  OBVIOUS
<1>1. PICK least \in Bad : \A i \in Bad : least <= i
  <2> HIDE DEF Bad
  <2>1. Bad \in SUBSET Nat /\ Bad # {}
    BY DEF Bad
  <2> QED BY <2>1, LeastNatural
<1>2. \A i \in 0 .. least : i < least => f[i] = g[i] /\ f[i] \in Nat
  BY <1>1 DEF RootsTo
<1>3. RootStep(r, f, least) = RootStep(r, g, least)
  <2> HIDE DEF Bad
  <2>1. least \in Nat
    BY DEF Bad
  <2> QED BY <1>2, <2>1, RootStepLocal
<1> QED BY <1>1, <1>3 DEF RootsTo

\* So the recursion has a solution: what resolve_time_model_replacements computes is well
\* defined for every ring.
LEMMA RootSequenceSolves ==
    ASSUME NEW r \in StoredRing
    PROVE  /\ RootSequence(r) \in [Nat -> Nat]
           /\ \A n \in Nat : RootSequence(r)[n] = RootStep(r, RootSequence(r), n)
<1> DEFINE part(n) == CHOOSE f \in RootsTo(r, n) : TRUE
           root == [n \in Nat |-> part(n)[n]]
<1>1. \A n \in Nat : part(n) \in RootsTo(r, n)
  BY RootsToExist
<1>2. \A n \in Nat : root[n] = part(n)[n]
  OBVIOUS
<1> HIDE DEF part
<1>3. \A n \in Nat : \A m \in 0 .. n : root[m] = part(n)[m] /\ root[m] \in Nat
  <2> SUFFICES ASSUME NEW n \in Nat, NEW m \in 0 .. n PROVE root[m] = part(n)[m] /\ root[m] \in Nat
    OBVIOUS
  <2>1. part(m)[m] = part(n)[m]
    BY <1>1, RootsAgree
  <2>2. part(n)[m] \in Nat
    BY <1>1 DEF RootsTo
  <2> QED BY <2>1, <2>2, <1>2
<1>4. root \in [Nat -> Nat]
  BY <1>3
<1>5. \A n \in Nat : root[n] = RootStep(r, root, n)
  <2> SUFFICES ASSUME NEW n \in Nat PROVE root[n] = RootStep(r, root, n)
    OBVIOUS
  <2>1. \A m \in 0 .. n : m < n => part(n)[m] = root[m] /\ part(n)[m] \in Nat
    BY <1>3
  <2> HIDE DEF root
  <2>2. RootStep(r, part(n), n) = RootStep(r, root, n)
    BY <2>1, RootStepLocal
  <2>3. part(n) \in RootsTo(r, n) /\ n \in 0 .. n
    BY <1>1
  <2>4. part(n)[n] = RootStep(r, part(n), n)
    BY <2>3 DEF RootsTo
  <2> QED BY <1>3, <2>2, <2>3, <2>4
<1>6. root = [n \in Nat |-> RootStep(r, root, n)]
  <2> DEFINE other == [n \in Nat |-> RootStep(r, root, n)]
  <2>1. \A n \in Nat : other[n] = root[n]
    BY <1>5
  <2>2. root = [n \in Nat |-> root[n]] /\ other = [n \in Nat |-> other[n]]
    BY <1>4
  <2> HIDE DEF other, root
  <2>3. [n \in Nat |-> root[n]] = [n \in Nat |-> other[n]]
    BY <2>1
  <2>4. root = other
    BY <2>2, <2>3
  <2> QED BY <2>4 DEF other
<1> HIDE DEF root
<1> DEFINE R == CHOOSE f : f = [n \in Nat |-> RootStep(r, f, n)]
<1>7. R = [n \in Nat |-> RootStep(r, R, n)]
  BY <1>6
<1>8. RootSequence(r) = R
  BY DEF RootSequence, RootStep
<1>9. \A n \in Nat : R[n] = RootStep(r, R, n)
  <2> HIDE DEF R
  <2> DEFINE F == [n \in Nat |-> RootStep(r, R, n)]
  <2>1. \A n \in Nat : F[n] = RootStep(r, R, n)
    OBVIOUS
  <2>2. R = F
    BY <1>7
  <2> HIDE DEF F
  <2> QED BY <2>1, <2>2
<1>10. \A n \in Nat : R[n] \in Nat
  <2> HIDE DEF R
  <2> DEFINE Bad == {n \in Nat : R[n] \notin Nat}
  <2> SUFFICES ASSUME Bad # {} PROVE FALSE
    OBVIOUS
  <2>1. PICK least \in Bad : \A i \in Bad : least <= i
    <3> HIDE DEF Bad
    <3>1. Bad \in SUBSET Nat /\ Bad # {}
      BY DEF Bad
    <3> QED BY <3>1, LeastNatural
  <2>2. \A i \in 0 .. least : i < least => R[i] = R[i] /\ R[i] \in Nat
    BY <2>1
  <2>3. least \in Nat
    OBVIOUS
  <2> HIDE DEF Bad
  <2>4. RootStep(r, R, least) \in Nat
    BY <2>2, <2>3, RootStepLocal
  <2> QED BY <2>1, <2>4, <1>9 DEF Bad
<1>11. R \in [Nat -> Nat]
  <2>1. R = [n \in Nat |-> R[n]]
    <3> HIDE DEF R
    <3> DEFINE F == [n \in Nat |-> RootStep(r, R, n)]
    <3>1. F = [n \in Nat |-> F[n]]
      OBVIOUS
    <3>2. R = F
      BY <1>7
    <3> HIDE DEF F
    <3> QED BY <3>1, <3>2
  <2> HIDE DEF R
  <2>2. [n \in Nat |-> R[n]] \in [Nat -> Nat]
    BY <1>10
  <2> QED BY <2>1, <2>2
<1> QED BY <1>8, <1>9, <1>11

\* The head of a chain is an anchor of the ring.
LEMMA RootIsNamed ==
    ASSUME NEW r \in StoredRing, NEW n \in Nat, RootSequence(r)[n] # 0
    PROVE  Named(r, RootSequence(r)[n]) # {}
<1> DEFINE root == RootSequence(r)
           Bad == {i \in Nat : root[i] # 0 /\ Named(r, root[i]) = {}}
<1>0. /\ root \in [Nat -> Nat]
      /\ \A i \in Nat : root[i] = RootStep(r, root, i)
  BY RootSequenceSolves
<1> HIDE DEF root
<1> SUFFICES ASSUME Bad # {} PROVE FALSE
  BY DEF root
<1>1. PICK least \in Bad : \A i \in Bad : least <= i
  <2> HIDE DEF Bad
  <2>1. Bad \in SUBSET Nat /\ Bad # {}
    BY DEF Bad
  <2> QED BY <2>1, LeastNatural
<1>2. least \in Nat /\ root[least] # 0 /\ Named(r, root[least]) = {}
  OBVIOUS
<1> HIDE DEF Bad
<1> DEFINE a == CHOOSE a \in Named(r, least) : TRUE
<1>3. Named(r, least) # {} /\ root[least] = IF a.replace = 0 THEN least
             ELSE IF \E target \in Named(r, a.replace) : target.boot = a.boot /\ target.sequence < least
             THEN root[a.replace] ELSE 0
  BY <1>0, <1>2 DEF RootStep
<1>4. a \in Named(r, least)
  BY <1>3
<1> HIDE DEF a
<1>5. a.replace # 0
  BY <1>2, <1>3
<1>6. PICK target \in Named(r, a.replace) : target.boot = a.boot /\ target.sequence < least
  BY <1>2, <1>3, <1>5
<1>7. a.replace \in Nat /\ target.sequence = a.replace
  BY <1>4, <1>6, NamedType DEF StoredAnchor
<1>8. root[least] = root[a.replace]
  BY <1>3, <1>5, <1>6
<1>9. a.replace \in Bad
  BY <1>2, <1>7, <1>8 DEF Bad
<1> QED BY <1>1, <1>2, <1>6, <1>7, <1>9

\* The epochs of a ring begin at uptimes.
LEMMA BeginsType ==
    ASSUME NEW r \in StoredRing
    PROVE  /\ Begins(r) \subseteq Begun
           /\ \A e \in Begins(r) : e.anchor \in Valid(r)
<1> DEFINE root == RootSequence(r)
           begin(a) == (CHOOSE head \in Named(r, root[a.sequence]) : TRUE).mono
           epochs == {[boot |-> a.boot, begin |-> begin(a), anchor |-> a] : a \in Effective(r)}
<1>1. Begins(r) \subseteq epochs
  BY DEF Begins
<1>2. ASSUME NEW a \in Effective(r)
      PROVE  a \in StoredAnchor /\ a \in Valid(r) /\ begin(a) \in 0 .. MaxTime
  <2>1. a \in Valid(r) /\ root[a.sequence] # 0
    BY DEF Effective
  <2>2. a \in StoredAnchor
    BY <2>1, ValidType
  <2>3. a.sequence \in Nat
    BY <2>2 DEF StoredAnchor
  <2>4. Named(r, root[a.sequence]) # {}
    BY <2>1, <2>3, RootIsNamed
  <2>5. (CHOOSE head \in Named(r, root[a.sequence]) : TRUE) \in Named(r, root[a.sequence])
    BY <2>4
  <2>6. begin(a) \in 0 .. MaxTime
    BY <2>5, NamedType DEF StoredAnchor
  <2> QED BY <2>1, <2>2, <2>6
<1> HIDE DEF begin
<1>3. \A e \in epochs : e \in Begun /\ e.anchor \in Valid(r)
  <2> SUFFICES ASSUME NEW a \in Effective(r)
               PROVE  [boot |-> a.boot, begin |-> begin(a), anchor |-> a] \in Begun /\ a \in Valid(r)
    OBVIOUS
  <2>1. a \in StoredAnchor /\ a \in Valid(r) /\ begin(a) \in 0 .. MaxTime
    BY <1>2
  <2>2. a \in Anchor /\ a.boot \in Nat
    BY <2>1 DEF StoredAnchor, Anchor
  <2> QED BY <2>1, <2>2 DEF Begun
<1> QED BY <1>1, <1>3

\* So the bounds of its epochs are uptimes.
LEMMA CatalogType == ASSUME NEW r \in StoredRing PROVE Catalog(r) \subseteq Epoch
<1>1. /\ Begins(r) \in SUBSET Begun
      /\ \A e \in Begins(r) : e.boot \in Nat /\ e.begin \in Nat /\ e.anchor \in Anchor
  BY BeginsType DEF Begun
<1>2. ASSUME NEW e \in Begins(r)
      PROVE  EpochFirst(Begins(r), e) \in Nat /\ EpochLast(Begins(r), e) \in Nat
  <2>1. EpochFirst(Begins(r), e) \in Nat
    BY <1>1 DEF EpochFirst
  <2>2. CASE Later(Begins(r), e) = {}
    BY <2>1, <2>2 DEF EpochLast
  <2>3. CASE Later(Begins(r), e) # {}
    <3>1. /\ Following(Begins(r), e) \in Begins(r)
          /\ Following(Begins(r), e).begin > e.begin
      BY <1>1, <2>3, FollowingIsNext DEF Later
    <3>2. Following(Begins(r), e).begin - 1 \in Nat
      BY <1>1, <3>1
    <3> QED BY <2>1, <2>3, <3>2 DEF EpochLast
  <2> QED BY <2>2, <2>3
<1>3. \A e \in Begins(r) : [boot |-> e.boot, anchor |-> e.anchor,
          first |-> EpochFirst(Begins(r), e), last |-> EpochLast(Begins(r), e)] \in Epoch
  BY <1>1, <1>2 DEF Epoch
<1> QED BY <1>3 DEF Catalog, Bounded

\* No two slots hold the same sequence.
Apart(r) ==
    \A s, t \in Slots :
        (s # t /\ r[s] # Garbage /\ r[t] # Garbage) => r[s].sequence # r[t].sequence

\* And as the compaction leaves distinct beginnings, they tile the uptime.
LEMMA CatalogTiles ==
    ASSUME NEW r \in StoredRing, Apart(r)
    PROVE  Tiled(Catalog(r))
<1>1. Begins(r) \in SUBSET Begun
  BY BeginsType
<1>2. ASSUME NEW e \in Begins(r), NEW o \in Begins(r), e.boot = o.boot, e.begin = o.begin
      PROVE  e = o
  <2>1. /\ o.anchor.sequence <= e.anchor.sequence
        /\ e.anchor.sequence <= o.anchor.sequence
    BY <1>2 DEF Begins
  <2>2. e.anchor \in Valid(r) /\ o.anchor \in Valid(r)
    BY BeginsType
  <2>3. e.anchor.sequence \in Nat /\ o.anchor.sequence \in Nat
    BY <2>2, ValidType DEF StoredAnchor
  <2>4. e.anchor.sequence = o.anchor.sequence
    BY <2>1, <2>3
  <2>5. e.anchor = o.anchor
    BY <2>2, <2>4 DEF Valid, Apart
  <2>6. e = [boot |-> e.boot, begin |-> e.begin, anchor |-> e.anchor]
    BY <1>1 DEF Begun
  <2>7. o = [boot |-> o.boot, begin |-> o.begin, anchor |-> o.anchor]
    BY <1>1 DEF Begun
  <2> QED BY <1>2, <2>5, <2>6, <2>7
<1> QED BY <1>1, <1>2, BoundsTile DEF Catalog

-----------------------------------------------------------------------------
(* The catalog that is loaded.                                             *)

\* The greatest sequence of the ring.
LEMMA NewestOfRing ==
    ASSUME NEW r \in StoredRing
    PROVE  /\ NewestSequence(r) \in 0 .. MaxSequence
           /\ \A a \in Valid(r) : a.sequence <= NewestSequence(r)
           /\ Valid(r) = {} => NewestSequence(r) = 0
           /\ Valid(r) # {} => \E slot \in Slots :
                 r[slot] # Garbage /\ r[slot].sequence = NewestSequence(r)
<1>0. \A a \in Valid(r) : a.sequence \in 1 .. MaxSequence
  BY ValidType DEF StoredAnchor
<1>1. CASE Valid(r) = {}
  BY <1>1 DEF NewestSequence
<1>2. CASE Valid(r) # {}
  <2> DEFINE T == {MaxSequence - a.sequence : a \in Valid(r)}
  <2>1. T \in SUBSET Nat /\ T # {}
    BY <1>0, <1>2
  <2>2. PICK least \in T : \A t \in T : least <= t
    BY <2>1, LeastNatural
  <2>3. PICK a \in Valid(r) : least = MaxSequence - a.sequence
    BY <2>2
  <2>4. \A b \in Valid(r) : MaxSequence - a.sequence <= MaxSequence - b.sequence
    BY <2>2, <2>3
  <2>5. \A b \in Valid(r) : b.sequence <= a.sequence
    BY <1>0, <2>3, <2>4
  <2> DEFINE m == CHOOSE c \in Valid(r) : \A b \in Valid(r) : b.sequence <= c.sequence
  <2>6. m \in Valid(r) /\ \A b \in Valid(r) : b.sequence <= m.sequence
    BY <2>3, <2>5
  <2>7. NewestSequence(r) = m.sequence
    BY <1>2 DEF NewestSequence
  <2> HIDE DEF m
  <2>8. \E slot \in Slots : r[slot] # Garbage /\ r[slot] = m
    BY <2>6 DEF Valid
  <2> QED BY <1>0, <1>2, <2>6, <2>7, <2>8
<1> QED BY <1>1, <1>2

\* The slot after the last is the first.
LEMMA SlotAfterValue ==
    ASSUME NEW slot \in Slots
    PROVE  /\ SlotAfter(slot) = IF slot = TimeAnchorCount - 1 THEN 0 ELSE slot + 1
           /\ SlotAfter(slot) \in Slots
           /\ TimeAnchorCount >= 2 => SlotAfter(slot) # slot
<1>1. \A k, n \in Nat : n > 0 /\ k < n => k % n = k
  OBVIOUS
<1>2. \A n \in Nat : n > 0 => n % n = 0
  OBVIOUS
<1>3. slot + 1 \in Nat /\ TimeAnchorCount \in Nat /\ TimeAnchorCount >= 1
  BY DEF Slots
<1>4. CASE slot = TimeAnchorCount - 1
  <2>1. slot + 1 = TimeAnchorCount
    BY <1>3, <1>4
  <2>2. TimeAnchorCount % TimeAnchorCount = 0
    BY <1>2, <1>3
  <2> QED BY <1>3, <1>4, <2>1, <2>2 DEF Slots, SlotAfter
<1>5. CASE slot # TimeAnchorCount - 1
  <2>1. slot + 1 < TimeAnchorCount
    BY <1>5 DEF Slots
  <2>2. (slot + 1) % TimeAnchorCount = slot + 1
    BY <1>1, <1>3, <2>1
  <2> QED BY <1>3, <1>5, <2>1, <2>2 DEF Slots, SlotAfter
<1> QED BY <1>4, <1>5

\* load_time_model_catalog continues behind the newest anchor.
LEMMA Loaded ==
    ASSUME NEW r \in StoredRing, LoadCatalog(r)
    PROVE  /\ catalog' = Catalog(r) /\ next_time_anchor_sequence' = NewestSequence(r)
           /\ time_anchor_write_index' \in Slots
           /\ Valid(r) # {} => \E slot \in Slots :
                 /\ r[slot] # Garbage /\ r[slot].sequence = NewestSequence(r)
                 /\ time_anchor_write_index' = SlotAfter(slot)
<1>1. CASE Valid(r) = {}
  BY <1>1 DEF LoadCatalog, Slots
<1>2. CASE Valid(r) # {}
  <2> DEFINE slot == CHOOSE slot \in Slots : r[slot] # Garbage /\ r[slot].sequence = NewestSequence(r)
  <2>1. slot \in Slots /\ r[slot] # Garbage /\ r[slot].sequence = NewestSequence(r)
    BY <1>2, NewestOfRing
  <2>2. /\ time_anchor_write_index' = SlotAfter(slot)
        /\ catalog' = Catalog(r) /\ next_time_anchor_sequence' = NewestSequence(r)
    BY <1>2 DEF LoadCatalog
  <2> HIDE DEF slot
  <2> QED BY <2>1, <2>2, SlotAfterValue
<1> QED BY <1>1, <1>2

-----------------------------------------------------------------------------
(* The ring as a whole.                                                    *)

\* The appends before the one that takes slot, when the next takes slot k.
Turn(k, slot) == IF slot >= k THEN slot - k ELSE slot - k + TimeAnchorCount

\* Of the slots S the ones whose turn is later hold the newer anchors.
InTurn(r, k, S) ==
    \A s, t \in S : Turn(k, s) < Turn(k, t) /\ r[s] # Garbage =>
        r[t] # Garbage /\ r[s].sequence < r[t].sequence

\* Nothing older than the slot that may hold the anchor of an unfinished append
\* has a sequence that the counter has yet to reach.  In a ring of two or more the newest
\* anchor is in another slot than the one that is written next.
OthersIssued(r, k, n) ==
    /\ \A s \in Slots \ {k} : r[s] # Garbage => r[s].sequence <= n
    /\ r[k] # Garbage => r[k].sequence <= n + 1
    /\ TimeAnchorCount >= 2 /\ n # 0 => \E s \in Slots \ {k} : r[s] # Garbage /\ r[s].sequence = n

\* Once open, memory continues the ring.  A slot whose write failed may already hold
\* the next sequence; then the next append takes that slot again.  While closed the
\* medium alone has to say where to go on, which a ring of one slot does not.
RingInv ==
    /\ ring \in StoredRing
    /\ Apart(ring)
    /\ issued \in Nat
    /\ open =>
          /\ next_time_anchor_sequence \in 0 .. MaxSequence
          /\ time_anchor_write_index \in Slots
          /\ TimeAnchorCount >= 2 => issued <= next_time_anchor_sequence
          /\ OthersIssued(ring, time_anchor_write_index, next_time_anchor_sequence)
          /\ InTurn(ring, time_anchor_write_index, Slots \ {time_anchor_write_index})
          /\ \/ InTurn(ring, time_anchor_write_index, Slots)
             \/ /\ doubtful /\ ring[time_anchor_write_index] # Garbage
                /\ ring[time_anchor_write_index].sequence = next_time_anchor_sequence + 1
    /\ ~open =>
          /\ TimeAnchorCount >= 2 /\ issued # 0 =>
                \E s \in Slots : ring[s] # Garbage /\ issued <= ring[s].sequence
          /\ \E k \in Slots : InTurn(ring, k, Slots)

\* The catalog that memory holds.
CatalogInv ==
    /\ catalog \subseteq Epoch
    /\ Tiled(catalog)
    /\ next_time_anchor_sequence \in Nat
    /\ time_anchor_write_index \in Slots

\* Which boots the segments hold.
SpanInv ==
    /\ spans \in [Generations -> [first : Nat, last : Nat]]
    /\ newest \in 1 .. MaxGeneration
    /\ rotating => newest < MaxGeneration
    /\ checkpoint = [oldest |-> checkpoint.oldest, boot |-> checkpoint.boot]
    /\ checkpoint.oldest \in Nat \ {0} /\ checkpoint.boot \in Nat
    /\ oldest \in Nat \ {0} /\ boot \in Nat
    /\ open => boot = checkpoint.boot /\ \E g \in 1 .. newest : Holds(g, boot)
    /\ \A g \in Generations : spans[g] # NoSpan =>
          g <= newest /\ 1 <= spans[g].first /\ spans[g].first <= spans[g].last
          /\ spans[g].last <= checkpoint.boot
    /\ \A g, h \in Generations : g < h /\ spans[g] # NoSpan /\ spans[h] # NoSpan =>
          spans[g].last <= spans[h].first

\* Every boot with an anchor has an entry in some segment, and anchors of a later boot
\* are newer.
BootInv ==
    /\ \A s \in Slots : ring[s] # Garbage => \E g \in 1 .. newest : Holds(g, ring[s].boot)
    /\ \A s, t \in Slots : ring[s] # Garbage /\ ring[t] # Garbage
          /\ ring[s].sequence < ring[t].sequence => ring[s].boot <= ring[t].boot

-----------------------------------------------------------------------------
(* How an append changes the ring.                                         *)

\* What the slots of a ring hold.
LEMMA StoredRingParts ==
    ASSUME NEW r \in StoredRing
    PROVE  /\ DOMAIN r = Slots
           /\ \A s \in Slots : r[s] # Garbage => r[s] \in StoredAnchor /\ r[s] \in Valid(r)
                 /\ r[s].sequence \in 1 .. MaxSequence /\ r[s].boot \in Nat
  BY DEF StoredRing, StoredAnchor, Valid


\* An anchor is not garbage.
LEMMA StoredIsNotGarbage == \A a \in StoredAnchor : a # Garbage
  BY GarbageAssumption DEF StoredAnchor, Anchor

\* The write of an anchor, complete or not.
Written(left) == ring' = [ring EXCEPT ![time_anchor_write_index] = left]

\* What append_time_anchor writes.
LEMMA Appending ==
    ASSUME RingInv, SpanInv, NEW mono \in Measured, NEW replace \in 0 .. MaxSequence, CanAppend(replace)
    PROVE  /\ NewAnchor(mono, replace) \in StoredAnchor
           /\ NewAnchor(mono, replace).sequence = next_time_anchor_sequence + 1
           /\ NewAnchor(mono, replace).boot = boot
           /\ next_time_anchor_sequence \in Nat
           /\ time_anchor_write_index \in Slots
           /\ open /\ ~rotating
<1>1. /\ open /\ ~rotating /\ next_time_anchor_sequence < MaxSequence
      /\ next_time_anchor_sequence \in 0 .. MaxSequence /\ time_anchor_write_index \in Slots
  BY DEF CanAppend, RingInv
<1>2. next_time_anchor_sequence + 1 \in 1 .. MaxSequence
  BY <1>1
<1>3. boot \in Nat /\ mono \in 0 .. MaxTime /\ replace \in Nat
  BY DEF SpanInv
<1> QED BY <1>1, <1>2, <1>3 DEF NewAnchor, StoredAnchor

\* The write of a whole append, and of one cut short.
LEMMA AppendedAnchor ==
    ASSUME AppendAnchor \/ AppendUnread, RingInv, SpanInv
    PROVE  \E left \in StoredAnchor :
              /\ Written(left) /\ left.sequence = next_time_anchor_sequence + 1 /\ left.boot = boot
              /\ open /\ ~rotating
<1>1. PICK mono \in Measured, replace \in 0 .. MaxSequence :
         /\ CanAppend(replace)
         /\ ring' = [ring EXCEPT ![time_anchor_write_index] = NewAnchor(mono, replace)]
  BY DEF AppendAnchor, AppendUnread
<1> QED BY <1>1, Appending DEF Written

LEMMA UnfinishedAnchor ==
    ASSUME Unfinished, RingInv, SpanInv
    PROVE  \E left \in StoredAnchor \cup {Garbage} :
              /\ Written(left)
              /\ left # Garbage => left.sequence = next_time_anchor_sequence + 1 /\ left.boot = boot
              /\ open /\ ~rotating
<1>1. PICK mono \in Measured, replace \in 0 .. MaxSequence :
         /\ CanAppend(replace)
         /\ \E left \in {Garbage, NewAnchor(mono, replace)} :
               ring' = [ring EXCEPT ![time_anchor_write_index] = left]
  BY DEF Unfinished
<1>2. PICK left \in {Garbage, NewAnchor(mono, replace)} :
         ring' = [ring EXCEPT ![time_anchor_write_index] = left]
  BY <1>1
<1> QED BY <1>1, <1>2, Appending DEF Written

\* A slot written with the next sequence, or with garbage, leaves all in turn but itself.
LEMMA WrittenRing ==
    ASSUME RingInv, open, NEW left \in StoredAnchor \cup {Garbage}, Written(left),
           left # Garbage => left.sequence = next_time_anchor_sequence + 1
    PROVE  /\ ring' \in StoredRing /\ Apart(ring')
           /\ \A s \in Slots : s # time_anchor_write_index => ring'[s] = ring[s]
           /\ ring'[time_anchor_write_index] = left
           /\ OthersIssued(ring', time_anchor_write_index, next_time_anchor_sequence)
           /\ InTurn(ring', time_anchor_write_index, Slots \ {time_anchor_write_index})
<1> DEFINE k == time_anchor_write_index
           n == next_time_anchor_sequence
<1>0. /\ ring \in StoredRing /\ Apart(ring) /\ n \in Nat /\ k \in Slots
      /\ OthersIssued(ring, k, n) /\ InTurn(ring, k, Slots \ {k})
      /\ left # Garbage => left.sequence = n + 1
  BY DEF RingInv
<1>1. /\ DOMAIN ring = Slots
      /\ \A s \in Slots : ring[s] # Garbage => ring[s].sequence \in Nat
  BY <1>0, StoredRingParts
<1>2. ring' \in StoredRing
  BY <1>0 DEF Written, StoredRing
<1>3. /\ \A s \in Slots : s # k => ring'[s] = ring[s]
      /\ ring'[k] = left
  BY <1>0, <1>1 DEF Written
<1> HIDE DEF k, n
<1>4. \A s \in Slots \ {k} : ring[s] # Garbage => ring[s].sequence <= n
  BY <1>0 DEF OthersIssued
<1>5. Apart(ring')
  BY <1>0, <1>1, <1>3, <1>4 DEF Apart
<1>6. OthersIssued(ring', k, n)
  BY <1>0, <1>3 DEF OthersIssued
<1>7. InTurn(ring', k, Slots \ {k})
  BY <1>0, <1>3 DEF InTurn
<1> QED BY <1>2, <1>3, <1>5, <1>6, <1>7 DEF k, n

\* The slot that was written has the last turn from now on, the others keep theirs.
LEMMA TurnAfter ==
    ASSUME NEW k \in Slots, NEW s \in Slots
    PROVE  /\ Turn(k, s) \in Nat
           /\ Turn(k, k) = 0
           /\ s # k => 0 < Turn(k, s)
           /\ Turn(SlotAfter(k), k) = TimeAnchorCount - 1
           /\ s # k => Turn(SlotAfter(k), s) = Turn(k, s) - 1
           /\ Turn(k, s) <= TimeAnchorCount - 1
<1>1. /\ k \in Int /\ s \in Int /\ 0 <= k /\ 0 <= s
      /\ k <= TimeAnchorCount - 1 /\ s <= TimeAnchorCount - 1
  BY DEF Slots
<1>2. /\ Turn(k, s) \in Nat /\ Turn(k, k) = 0
      /\ s # k => 0 < Turn(k, s)
      /\ Turn(k, s) <= TimeAnchorCount - 1
  BY <1>1 DEF Turn
<1>3. CASE k = TimeAnchorCount - 1
  <2>1. SlotAfter(k) = 0
    BY <1>3, SlotAfterValue
  <2>2. /\ Turn(0, k) = TimeAnchorCount - 1
        /\ s # k => Turn(0, s) = Turn(k, s) - 1
    BY <1>1, <1>3 DEF Turn
  <2> QED BY <1>2, <2>1, <2>2
<1>4. CASE k # TimeAnchorCount - 1
  <2>1. SlotAfter(k) = k + 1
    BY <1>4, SlotAfterValue
  <2>2. /\ Turn(k + 1, k) = TimeAnchorCount - 1
        /\ s # k => Turn(k + 1, s) = Turn(k, s) - 1
    BY <1>1 DEF Turn
  <2> QED BY <1>2, <2>1, <2>2
<1> QED BY <1>3, <1>4

\* So a ring stays in turn when its newest anchor is where the oldest was.
LEMMA NextTurn ==
    ASSUME NEW r \in StoredRing, NEW k \in Slots, InTurn(r, k, Slots \ {k}),
           r[k] # Garbage, \A s \in Slots \ {k} : r[s] # Garbage => r[s].sequence < r[k].sequence
    PROVE  InTurn(r, SlotAfter(k), Slots)
<1> SUFFICES ASSUME NEW s \in Slots, NEW t \in Slots, r[s] # Garbage,
                    Turn(SlotAfter(k), s) < Turn(SlotAfter(k), t)
             PROVE  r[t] # Garbage /\ r[s].sequence < r[t].sequence
  BY DEF InTurn
<1>1. /\ Turn(SlotAfter(k), k) = TimeAnchorCount - 1
      /\ Turn(k, s) \in Nat /\ Turn(k, t) \in Nat
      /\ Turn(k, s) <= TimeAnchorCount - 1 /\ Turn(k, t) <= TimeAnchorCount - 1
      /\ s # k => Turn(SlotAfter(k), s) = Turn(k, s) - 1
      /\ t # k => Turn(SlotAfter(k), t) = Turn(k, t) - 1
  BY TurnAfter
<1>2. s # k
  <2> SUFFICES ASSUME s = k PROVE FALSE
    OBVIOUS
  <2>1. Turn(SlotAfter(k), s) = TimeAnchorCount - 1
    BY <1>1
  <2>2. Turn(SlotAfter(k), t) <= TimeAnchorCount - 1 /\ Turn(SlotAfter(k), t) \in Int
    BY <1>1
  <2> QED BY <2>1, <2>2
<1>3. CASE t = k
  BY <1>2, <1>3
<1>4. CASE t # k
  <2>1. Turn(k, s) < Turn(k, t)
    BY <1>1, <1>2, <1>4
  <2> QED BY <1>2, <1>4, <2>1 DEF InTurn
<1> QED BY <1>3, <1>4

\* And the other way round, the newest anchor of a ring in turn is in the slot before.
LEMMA NewestBefore ==
    ASSUME NEW r \in StoredRing, NEW k \in Slots, InTurn(r, k, Slots),
           NEW p \in Slots, r[p] # Garbage, r[p].sequence = NewestSequence(r)
    PROVE  SlotAfter(p) = k
<1> SUFFICES ASSUME SlotAfter(p) # k PROVE FALSE
  OBVIOUS
<1> DEFINE q == IF k = 0 THEN TimeAnchorCount - 1 ELSE k - 1
<1>0. /\ q \in Slots /\ p \in Int /\ 0 <= p /\ p <= TimeAnchorCount - 1
      /\ k \in Int /\ 0 <= k /\ k <= TimeAnchorCount - 1
  BY DEF Slots
<1>1. q \in Slots /\ p # q /\ Turn(k, p) < Turn(k, q)
  <2>1. SlotAfter(q) = k
    BY <1>0, SlotAfterValue
  <2>2. p # q
    BY <2>1
  <2>3. Turn(k, q) = TimeAnchorCount - 1
    BY <1>0 DEF Turn
  <2>4. Turn(k, p) < TimeAnchorCount - 1
    BY <1>0, <2>2 DEF Turn
  <2> QED BY <1>0, <2>2, <2>3, <2>4
<1> HIDE DEF q
<1>2. r[q] # Garbage /\ r[p].sequence < r[q].sequence
  BY <1>1 DEF InTurn
<1>3. r[q].sequence <= r[p].sequence /\ r[p].sequence \in Nat /\ r[q].sequence \in Nat
  BY <1>1, <1>2, NewestOfRing, StoredRingParts
<1> QED BY <1>2, <1>3

-----------------------------------------------------------------------------
(* Each action keeps the ring in order.                                    *)

\* The counter that is loaded covers every sequence of a ring in turn.
LEMMA LoadedRing ==
    ASSUME NEW r \in StoredRing, NEW k \in Slots, InTurn(r, k, Slots), LoadCatalog(r)
    PROVE  /\ time_anchor_write_index' \in Slots
           /\ next_time_anchor_sequence' = NewestSequence(r)
           /\ next_time_anchor_sequence' \in 0 .. MaxSequence
           /\ OthersIssued(r, time_anchor_write_index', next_time_anchor_sequence')
           /\ InTurn(r, time_anchor_write_index', Slots)
<1> DEFINE i == time_anchor_write_index'
           n == NewestSequence(r)
<1>1. /\ i \in Slots /\ next_time_anchor_sequence' = n /\ n \in 0 .. MaxSequence
      /\ \A s \in Slots : r[s] # Garbage => r[s].sequence <= n /\ r[s].sequence \in Nat
  BY Loaded, NewestOfRing, StoredRingParts
<1>2. CASE Valid(r) = {}
  <2>1. n = 0 /\ \A s \in Slots : r[s] = Garbage
    BY <1>2, NewestOfRing DEF Valid
  <2> QED BY <1>1, <2>1 DEF OthersIssued, InTurn
<1>3. CASE Valid(r) # {}
  <2>1. PICK p \in Slots : r[p] # Garbage /\ r[p].sequence = n /\ i = SlotAfter(p)
    BY <1>3, Loaded
  <2>2. i = k
    BY <2>1, NewestBefore
  <2>3. TimeAnchorCount >= 2 => p # i
    BY <2>1, SlotAfterValue
  <2>4. r[i] # Garbage => r[i].sequence <= n + 1
    BY <1>1
  <2>5. OthersIssued(r, i, n)
    BY <1>1, <2>1, <2>3, <2>4 DEF OthersIssued
  <2> QED BY <1>1, <2>2, <2>5
<1> QED BY <1>2, <1>3

\* init() finds in the ring all that memory had known.
LEMMA StartRing ==
    ASSUME RingInv, Start
    PROVE  RingInv'
<1>1. /\ ring' = ring /\ issued' = issued /\ ~open /\ LoadCatalog(ring)
      /\ ring \in StoredRing /\ Apart(ring) /\ issued \in Nat
      /\ TimeAnchorCount >= 2 /\ issued # 0 =>
            \E s \in Slots : ring[s] # Garbage /\ issued <= ring[s].sequence
  BY DEF Start, RingInv
<1>2. PICK k \in Slots : InTurn(ring, k, Slots)
  BY <1>1 DEF RingInv
<1>3. /\ time_anchor_write_index' \in Slots
      /\ next_time_anchor_sequence' = NewestSequence(ring)
      /\ next_time_anchor_sequence' \in 0 .. MaxSequence
      /\ OthersIssued(ring, time_anchor_write_index', next_time_anchor_sequence')
      /\ InTurn(ring, time_anchor_write_index', Slots)
  BY <1>1, <1>2, LoadedRing
<1>4. TimeAnchorCount >= 2 => issued <= next_time_anchor_sequence'
  <2>1. CASE issued = 0
    BY <1>3, <2>1
  <2>2. ASSUME NEW s \in Slots, ring[s] # Garbage, issued <= ring[s].sequence
        PROVE  issued <= next_time_anchor_sequence'
    <3>1. ring[s].sequence <= NewestSequence(ring) /\ ring[s].sequence \in Nat
      BY <1>1, <2>2, NewestOfRing, StoredRingParts
    <3> QED BY <1>1, <1>3, <2>2, <3>1
  <2> QED BY <1>1, <2>1, <2>2
<1>5. InTurn(ring, time_anchor_write_index', Slots \ {time_anchor_write_index'})
  BY <1>3 DEF InTurn
<1> QED BY <1>1, <1>2, <1>3, <1>4, <1>5 DEF RingInv

\* A whole append.
LEMMA AppendAnchorRing ==
    ASSUME RingInv, SpanInv, AppendAnchor
    PROVE  RingInv'
<1> DEFINE k == time_anchor_write_index
           n == next_time_anchor_sequence
<1>1. PICK left \in StoredAnchor :
         /\ Written(left) /\ left.sequence = n + 1 /\ left.boot = boot
         /\ open /\ ~rotating
  BY AppendedAnchor
<1>2. /\ ring' \in StoredRing /\ Apart(ring')
      /\ \A s \in Slots : s # k => ring'[s] = ring[s]
      /\ ring'[k] = left
      /\ OthersIssued(ring', k, n)
      /\ InTurn(ring', k, Slots \ {k})
  BY <1>1, WrittenRing
<1>3. left # Garbage /\ n \in Nat /\ k \in Slots /\ issued \in Nat /\ (TimeAnchorCount >= 2 => issued <= n)
  BY <1>1, StoredIsNotGarbage DEF RingInv
<1>4. /\ open' = open /\ LoadCatalog(ring')
      /\ issued' = n + 1 \/ issued' = issued
  BY DEF AppendAnchor
<1> HIDE DEF k, n
<1>5. \A s \in Slots \ {k} : ring'[s] # Garbage => ring'[s].sequence < ring'[k].sequence
  BY <1>1, <1>2, <1>3, StoredRingParts DEF OthersIssued
<1>6. InTurn(ring', SlotAfter(k), Slots) /\ SlotAfter(k) \in Slots
  BY <1>2, <1>3, <1>5, NextTurn, SlotAfterValue
<1>7. /\ time_anchor_write_index' \in Slots
      /\ next_time_anchor_sequence' = NewestSequence(ring')
      /\ next_time_anchor_sequence' \in 0 .. MaxSequence
      /\ OthersIssued(ring', time_anchor_write_index', next_time_anchor_sequence')
      /\ InTurn(ring', time_anchor_write_index', Slots)
  BY <1>2, <1>4, <1>6, LoadedRing
<1>8. n + 1 <= NewestSequence(ring')
  BY <1>1, <1>2, <1>3, NewestOfRing, StoredRingParts
<1>9. issued' \in Nat /\ (TimeAnchorCount >= 2 => issued' <= next_time_anchor_sequence')
  BY <1>3, <1>4, <1>7, <1>8
<1>10. InTurn(ring', time_anchor_write_index', Slots \ {time_anchor_write_index'})
  BY <1>7 DEF InTurn
<1> QED BY <1>1, <1>2, <1>4, <1>7, <1>9, <1>10 DEF RingInv

\* What an unfinished write may leave of the turns.
LEMMA UnfinishedTurns ==
    ASSUME NEW r \in StoredRing, NEW k \in Slots, NEW n \in Nat,
           OthersIssued(r, k, n), InTurn(r, k, Slots \ {k}),
           r[k] = Garbage \/ r[k].sequence = n + 1
    PROVE  \E i \in Slots : InTurn(r, i, Slots)
<1>1. CASE r[k] = Garbage
  <2>1. \A s \in Slots : Turn(k, s) \in Nat /\ Turn(k, k) = 0
    BY TurnAfter
  <2>2. InTurn(r, k, Slots)
    BY <1>1, <2>1 DEF InTurn
  <2> QED BY <2>2
<1>2. CASE r[k] # Garbage
  <2>1. \A s \in Slots \ {k} : r[s] # Garbage => r[s].sequence < r[k].sequence
    BY <1>2, StoredRingParts DEF OthersIssued
  <2> QED BY <1>2, <2>1, NextTurn, SlotAfterValue
<1> QED BY <1>1, <1>2

\* An append cut short, or one whose anchor is not read back.
LEMMA UnfinishedRing ==
    ASSUME RingInv, SpanInv, AppendCut \/ AppendFails \/ AppendUnread
    PROVE  RingInv'
<1> DEFINE k == time_anchor_write_index
           n == next_time_anchor_sequence
<1>1. PICK left \in StoredAnchor \cup {Garbage} :
         /\ Written(left)
         /\ left # Garbage => left.sequence = n + 1 /\ left.boot = boot
         /\ open /\ ~rotating
  BY UnfinishedAnchor, AppendedAnchor DEF AppendCut, AppendFails
<1>2. /\ ring' \in StoredRing /\ Apart(ring')
      /\ \A s \in Slots : s # k => ring'[s] = ring[s]
      /\ ring'[k] = left
      /\ OthersIssued(ring', k, n)
      /\ InTurn(ring', k, Slots \ {k})
  BY <1>1, WrittenRing
<1>3. /\ n \in 0 .. MaxSequence /\ n \in Nat /\ k \in Slots /\ issued \in Nat
      /\ TimeAnchorCount >= 2 => issued <= n
      /\ next_time_anchor_sequence' = n /\ time_anchor_write_index' = k /\ issued' = issued
  <2>1. Unfinished \/ AppendUnread
    BY DEF AppendCut, AppendFails
  <2>2. UNCHANGED <<next_time_anchor_sequence, time_anchor_write_index, issued>>
    BY <2>1 DEF Unfinished, AppendUnread
  <2>3. /\ n \in 0 .. MaxSequence /\ k \in Slots /\ issued \in Nat
        /\ TimeAnchorCount >= 2 => issued <= n
    BY <1>1 DEF RingInv
  <2> QED BY <2>2, <2>3
<1> HIDE DEF k, n
<1>4. PICK i \in Slots : InTurn(ring', i, Slots)
  BY <1>1, <1>2, <1>3, UnfinishedTurns
<1>5. CASE AppendCut
  <2>1. ~open'
    BY <1>5 DEF AppendCut
  <2>2. TimeAnchorCount >= 2 /\ issued # 0 =>
           \E s \in Slots : ring'[s] # Garbage /\ issued <= ring'[s].sequence
    BY <1>2, <1>3 DEF OthersIssued
  <2> QED BY <1>2, <1>3, <1>4, <2>1, <2>2 DEF RingInv
<1>6. CASE AppendFails \/ AppendUnread
  <2>1. open' = open /\ doubtful'
    BY <1>6 DEF AppendFails, AppendUnread
  <2>2. \/ InTurn(ring', k, Slots)
        \/ ring'[k] # Garbage /\ ring'[k].sequence = n + 1
    <3>1. CASE ring'[k] = Garbage
      <4>1. \A s \in Slots : Turn(k, s) \in Nat /\ Turn(k, k) = 0
        BY <1>3, TurnAfter
      <4> QED BY <1>2, <3>1, <4>1 DEF InTurn
    <3> QED BY <1>1, <1>2, <3>1
  <2> QED BY <1>1, <1>2, <1>3, <2>1, <2>2 DEF RingInv
<1> QED BY <1>5, <1>6

\* The store closes.
LEMMA StopRing ==
    ASSUME RingInv, Stop
    PROVE  RingInv'
<1> DEFINE k == time_anchor_write_index
           n == next_time_anchor_sequence
<1>1. /\ ring' = ring /\ issued' = issued /\ open /\ ~open'
  BY DEF Stop, medium
<1>2. /\ ring \in StoredRing /\ Apart(ring) /\ issued \in Nat
      /\ n \in Nat /\ k \in Slots /\ (TimeAnchorCount >= 2 => issued <= n)
      /\ OthersIssued(ring, k, n) /\ InTurn(ring, k, Slots \ {k})
      /\ \/ InTurn(ring, k, Slots)
         \/ ring[k] # Garbage /\ ring[k].sequence = n + 1
  BY <1>1 DEF RingInv
<1> HIDE DEF k, n
<1>3. \E i \in Slots : InTurn(ring, i, Slots)
  BY <1>2, UnfinishedTurns
<1>4. TimeAnchorCount >= 2 /\ issued # 0 =>
         \E s \in Slots : ring[s] # Garbage /\ issued <= ring[s].sequence
  BY <1>2 DEF OthersIssued
<1> QED BY <1>1, <1>2, <1>3, <1>4 DEF RingInv

\* All the actions.
LEMMA NextRing == RingInv /\ SpanInv /\ [Next]_vars => RingInv'
<1> SUFFICES ASSUME RingInv, SpanInv, [Next]_vars PROVE RingInv'
  OBVIOUS
<1>1. CASE AppendEntry \/ Retire \/ Activate \/ UNCHANGED vars
  <2>1. UNCHANGED <<ring, open, next_time_anchor_sequence, time_anchor_write_index, issued, doubtful>>
    BY <1>1 DEF AppendEntry, Retire, Activate, anchors, vars, medium
  <2> QED BY <2>1 DEF RingInv
<1> QED BY <1>1, StartRing, AppendAnchorRing, UnfinishedRing, StopRing DEF Next

-----------------------------------------------------------------------------
(* Each action keeps the boots of the segments in order.                   *)

\* The ring grows only by an anchor of the boot that is running.
LEMMA RingGrows ==
    ASSUME RingInv, SpanInv, [Next]_vars, NEW s \in Slots, ring'[s] # Garbage
    PROVE  \/ ring'[s] = ring[s] /\ ring[s] # Garbage
           \/ /\ ring'[s] \in StoredAnchor /\ ring'[s].boot = boot
              /\ ring'[s].sequence = next_time_anchor_sequence + 1 /\ open
              /\ s = time_anchor_write_index
              /\ \A t \in Slots : t # s => ring'[t] = ring[t]
<1>1. CASE AppendAnchor \/ AppendUnread
  <2>1. PICK left \in StoredAnchor :
           /\ Written(left) /\ left.sequence = next_time_anchor_sequence + 1 /\ left.boot = boot
           /\ open /\ ~rotating
    BY <1>1, AppendedAnchor
  <2>2. /\ \A t \in Slots : t # time_anchor_write_index => ring'[t] = ring[t]
        /\ ring'[time_anchor_write_index] = left
    BY <2>1, WrittenRing
  <2> QED BY <2>1, <2>2
<1>2. CASE AppendCut \/ AppendFails
  <2>1. PICK left \in StoredAnchor \cup {Garbage} :
           /\ Written(left)
           /\ left # Garbage => left.sequence = next_time_anchor_sequence + 1 /\ left.boot = boot
           /\ open /\ ~rotating
    BY <1>2, UnfinishedAnchor DEF AppendCut, AppendFails
  <2>2. /\ \A t \in Slots : t # time_anchor_write_index => ring'[t] = ring[t]
        /\ ring'[time_anchor_write_index] = left
    BY <2>1, WrittenRing
  <2> QED BY <2>1, <2>2
<1>3. CASE UNCHANGED ring
  BY <1>3
<1> QED BY <1>1, <1>2, <1>3 DEF Next, vars, Start, Stop, AppendEntry, Retire, Activate, medium, anchors

\* The fields of a span.
LEMMA SpanFields ==
    ASSUME NEW f \in [Generations -> [first : Nat, last : Nat]], NEW g \in Generations
    PROVE  f[g].first \in Nat /\ f[g].last \in Nat /\ g \in Nat
<1>1. f[g] \in [first : Nat, last : Nat]
  OBVIOUS
<1> QED BY <1>1 DEF Generations

\* The segments there are.
LEMMA SegmentRange ==
    ASSUME SpanInv
    PROVE  /\ newest \in Generations /\ newest \in Nat /\ 1 .. newest \subseteq Generations
           /\ spans \in [Generations -> [first : Nat, last : Nat]]
<1>1. /\ newest \in 1 .. MaxGeneration
      /\ spans \in [Generations -> [first : Nat, last : Nat]]
  BY DEF SpanInv
<1> QED BY <1>1 DEF Generations

\* An entry of boot b in the newest segment.
LEMMA GrownSpan ==
    ASSUME SpanInv, NEW b \in Nat \ {0}, checkpoint.boot <= b,
           spans' = [spans EXCEPT ![newest] = WithBoot(@, b)]
    PROVE  /\ spans' \in [Generations -> [first : Nat, last : Nat]]
           /\ \A g \in Generations : g # newest => spans'[g] = spans[g]
           /\ spans'[newest] # NoSpan /\ spans'[newest].last = b
           /\ spans'[newest].first <= b /\ 1 <= spans'[newest].first
           /\ IF spans[newest] = NoSpan THEN spans'[newest].first = b
              ELSE spans'[newest].first = spans[newest].first
<1>1. /\ newest \in Generations /\ spans \in [Generations -> [first : Nat, last : Nat]]
      /\ spans[newest] # NoSpan => /\ 1 <= spans[newest].first
                                   /\ spans[newest].first <= spans[newest].last
                                   /\ spans[newest].last <= checkpoint.boot
      /\ checkpoint.boot \in Nat
  BY DEF SpanInv, Generations
<1>2. spans'[newest] = WithBoot(spans[newest], b)
  BY <1>1
<1>3. \A g \in Generations : g # newest => spans'[g] = spans[g]
  BY <1>1
<1>4. CASE spans[newest] = NoSpan
  <2>1. WithBoot(spans[newest], b) = [first |-> b, last |-> b]
    BY <1>4 DEF WithBoot
  <2>2. [first |-> b, last |-> b] # NoSpan
    BY DEF NoSpan
  <2>3. spans' \in [Generations -> [first : Nat, last : Nat]]
    BY <1>1, <2>1
  <2> QED BY <1>2, <1>3, <1>4, <2>1, <2>2, <2>3
<1>5. CASE spans[newest] # NoSpan
  <2>1. spans[newest] \in [first : Nat, last : Nat]
    BY <1>1
  <2>2. WithBoot(spans[newest], b) = [first |-> spans[newest].first, last |-> b]
    BY <1>5, <2>1 DEF WithBoot
  <2>3. [first |-> spans[newest].first, last |-> b] # NoSpan
    BY DEF NoSpan
  <2>4. spans' \in [Generations -> [first : Nat, last : Nat]]
    BY <1>1, <2>1, <2>2
  <2>5. spans[newest].first <= b
    BY <1>1, <1>5, <2>1
  <2> QED BY <1>1, <1>2, <1>3, <1>5, <2>1, <2>2, <2>3, <2>4, <2>5
<1> QED BY <1>4, <1>5

\* An entry of boot b keeps the boots of the segments in order, and what they hold.
LEMMA GrownOrder ==
    ASSUME SpanInv, NEW b \in Nat \ {0}, checkpoint.boot <= b,
           spans' = [spans EXCEPT ![newest] = WithBoot(@, b)],
           newest' = newest
    PROVE  /\ \A g \in Generations : spans'[g] # NoSpan =>
                g <= newest /\ 1 <= spans'[g].first /\ spans'[g].first <= spans'[g].last
                /\ spans'[g].last <= b
           /\ \A g, h \in Generations : g < h /\ spans'[g] # NoSpan /\ spans'[h] # NoSpan =>
                spans'[g].last <= spans'[h].first
           /\ \A g \in 1 .. newest : \A x \in Nat : Holds(g, x) => Holds(g, x)'
           /\ Holds(newest, b)'
<1>1. /\ newest \in Generations /\ newest \in 1 .. MaxGeneration
      /\ spans \in [Generations -> [first : Nat, last : Nat]] /\ checkpoint.boot \in Nat
      /\ \A g \in Generations : spans[g] # NoSpan =>
            g <= newest /\ 1 <= spans[g].first /\ spans[g].first <= spans[g].last
            /\ spans[g].last <= checkpoint.boot
      /\ \A g, h \in Generations : g < h /\ spans[g] # NoSpan /\ spans[h] # NoSpan =>
            spans[g].last <= spans[h].first
  BY DEF SpanInv, Generations
<1>2. /\ spans' \in [Generations -> [first : Nat, last : Nat]]
      /\ \A g \in Generations : g # newest => spans'[g] = spans[g]
      /\ spans'[newest] # NoSpan /\ spans'[newest].last = b
      /\ spans'[newest].first <= b /\ 1 <= spans'[newest].first
      /\ IF spans[newest] = NoSpan THEN spans'[newest].first = b
         ELSE spans'[newest].first = spans[newest].first
  BY GrownSpan
<1>3. /\ \A g \in Generations : spans[g].first \in Nat /\ spans[g].last \in Nat
      /\ \A g \in Generations : spans'[g].first \in Nat /\ spans'[g].last \in Nat
      /\ \A g \in Generations : g \in Nat
  BY <1>1, <1>2, SpanFields
<1>4. \A g \in Generations : spans'[g] # NoSpan =>
                g <= newest /\ 1 <= spans'[g].first /\ spans'[g].first <= spans'[g].last
                /\ spans'[g].last <= b
  BY <1>1, <1>2, <1>3
<1>5. ASSUME NEW g \in Generations, NEW h \in Generations, g < h,
             spans'[g] # NoSpan, spans'[h] # NoSpan
      PROVE  spans'[g].last <= spans'[h].first
  <2>1. g # newest
    BY <1>3, <1>4, <1>5, <1>1
  <2>2. spans'[g] = spans[g] /\ spans[g].last <= checkpoint.boot
    BY <1>1, <1>2, <1>5, <2>1
  <2>3. CASE h # newest
    BY <1>1, <1>2, <1>5, <2>2, <2>3
  <2>4. CASE h = newest /\ spans[newest] = NoSpan
    BY <1>1, <1>2, <1>3, <2>2, <2>4
  <2>5. CASE h = newest /\ spans[newest] # NoSpan
    BY <1>1, <1>2, <1>3, <1>5, <2>2, <2>5
  <2> QED BY <2>3, <2>4, <2>5
<1>6. ASSUME NEW g \in 1 .. newest, NEW x \in Nat, Holds(g, x)
      PROVE  Holds(g, x)'
  <2>1. g \in Generations /\ spans[g] # NoSpan /\ spans[g].first <= x /\ x <= spans[g].last
    BY <1>1, <1>3, <1>6 DEF Holds, Generations
  <2>2. CASE g # newest
    <3>1. spans'[g] = spans[g]
      BY <1>2, <2>1, <2>2
    <3> QED BY <1>6, <3>1 DEF Holds
  <2>3. CASE g = newest
    <3>1. /\ spans'[g].first = spans[g].first /\ spans[g].last <= checkpoint.boot
          /\ spans'[g].last = b
      BY <1>1, <1>2, <2>1, <2>3
    <3>2. spans'[g].first <= x /\ x <= spans'[g].last
      BY <1>1, <1>3, <2>1, <3>1
    <3> QED BY <1>2, <1>3, <2>1, <2>3, <3>2 DEF Holds
  <2> QED BY <2>2, <2>3
<1>7. Holds(newest, b)'
  BY <1>1, <1>2, <1>3 DEF Holds
<1> QED BY <1>4, <1>5, <1>6, <1>7

\* Without an entry the spans do not change, and a new boot is beyond them all.
LEMMA SameSpans ==
    ASSUME SpanInv, UNCHANGED spans, newest' \in newest .. MaxGeneration,
           checkpoint'.boot \in Nat, checkpoint.boot <= checkpoint'.boot
    PROVE  /\ (spans \in [Generations -> [first : Nat, last : Nat]])'
           /\ \A g \in Generations : spans'[g] # NoSpan =>
                g <= newest' /\ 1 <= spans'[g].first /\ spans'[g].first <= spans'[g].last
                /\ spans'[g].last <= checkpoint'.boot
           /\ \A g, h \in Generations : g < h /\ spans'[g] # NoSpan /\ spans'[h] # NoSpan =>
                spans'[g].last <= spans'[h].first
           /\ \A g \in 1 .. newest : \A x \in Nat : Holds(g, x) => Holds(g, x)'
<1>1. /\ newest \in 1 .. MaxGeneration /\ checkpoint.boot \in Nat
      /\ spans \in [Generations -> [first : Nat, last : Nat]]
      /\ \A g \in Generations : spans[g] # NoSpan =>
            g <= newest /\ 1 <= spans[g].first /\ spans[g].first <= spans[g].last
            /\ spans[g].last <= checkpoint.boot
      /\ \A g, h \in Generations : g < h /\ spans[g] # NoSpan /\ spans[h] # NoSpan =>
            spans[g].last <= spans[h].first
  BY DEF SpanInv
<1>2. \A g \in Generations : spans[g].last \in Nat /\ g \in Nat
  BY <1>1, SpanFields
<1>3. \A g \in 1 .. newest : \A x \in Nat : Holds(g, x) => Holds(g, x)'
  BY DEF Holds
<1> QED BY <1>1, <1>2, <1>3

\* Each action keeps the spans in order, and takes no boot from a segment.
LEMMA NextSpans ==
    ASSUME SpanInv, [Next]_vars
    PROVE  /\ SpanInv'
           /\ checkpoint.boot <= checkpoint'.boot /\ newest <= newest'
           /\ \A g \in 1 .. newest : \A x \in Nat : Holds(g, x) => Holds(g, x)'
<1>0. /\ newest \in 1 .. MaxGeneration /\ checkpoint.boot \in Nat /\ checkpoint.oldest \in Nat \ {0}
      /\ oldest \in Nat \ {0} /\ boot \in Nat
      /\ checkpoint = [oldest |-> checkpoint.oldest, boot |-> checkpoint.boot]
      /\ rotating => newest < MaxGeneration
      /\ open => boot = checkpoint.boot
      /\ newest \in newest .. MaxGeneration
      /\ checkpoint.boot <= checkpoint.boot
      /\ \A g \in Generations : spans[g] # NoSpan => g <= newest
  BY DEF SpanInv
<1>1. ASSUME spans' = spans, newest' = newest, boot' = boot, checkpoint'.boot = checkpoint.boot,
             checkpoint' = [oldest |-> checkpoint'.oldest, boot |-> checkpoint.boot],
             checkpoint'.oldest \in Nat \ {0}, oldest' \in Nat \ {0},
             open' => open, rotating' => newest < MaxGeneration
      PROVE  SpanInv' /\ \A g \in 1 .. newest : \A x \in Nat : Holds(g, x) => Holds(g, x)'
  <2>1. /\ (spans \in [Generations -> [first : Nat, last : Nat]])'
        /\ \A g \in Generations : spans'[g] # NoSpan =>
                g <= newest' /\ 1 <= spans'[g].first /\ spans'[g].first <= spans'[g].last
                /\ spans'[g].last <= checkpoint'.boot
        /\ \A g, h \in Generations : g < h /\ spans'[g] # NoSpan /\ spans'[h] # NoSpan =>
                spans'[g].last <= spans'[h].first
        /\ \A g \in 1 .. newest : \A x \in Nat : Holds(g, x) => Holds(g, x)'
    BY <1>0, <1>1, SameSpans
  <2>2. open' => \E g \in 1 .. newest : Holds(g, boot)'
    BY <1>0, <1>1, <2>1 DEF SpanInv
  <2> QED BY <1>0, <1>1, <2>1, <2>2 DEF SpanInv
<1>2. CASE Stop \/ UNCHANGED vars
  <2>1. UNCHANGED <<spans, newest, boot, checkpoint, oldest, rotating>> /\ (open' => open)
    BY <1>2 DEF Stop, vars, medium
  <2> QED BY <1>0, <1>1, <2>1
<1>3. CASE Retire
  <2>1. /\ UNCHANGED <<spans, newest, boot, open>>
        /\ oldest' = Larger(oldest, newest + 2 - SegmentCount)
        /\ \/ checkpoint' = [checkpoint EXCEPT !.oldest = oldest']
           \/ checkpoint' = checkpoint
        /\ newest < MaxGeneration
    BY <1>3 DEF Retire
  <2>2. oldest' \in Nat \ {0}
    BY <1>0, <2>1 DEF Larger
  <2>3. checkpoint' = [oldest |-> oldest', boot |-> checkpoint.boot] \/ checkpoint' = checkpoint
    BY <1>0, <2>1
  <2> QED BY <1>0, <1>1, <2>1, <2>2, <2>3
<1>4. CASE AppendAnchor
  <2>1. /\ UNCHANGED <<spans, newest, boot, open, oldest, rotating>>
        /\ \/ checkpoint' = [checkpoint EXCEPT !.oldest = oldest]
           \/ checkpoint' = checkpoint
    BY <1>4 DEF AppendAnchor
  <2>2. checkpoint' = [oldest |-> oldest, boot |-> checkpoint.boot] \/ checkpoint' = checkpoint
    BY <1>0, <2>1
  <2> QED BY <1>0, <1>1, <2>1, <2>2
<1>5. CASE AppendCut \/ AppendFails \/ AppendUnread
  <2>1. UNCHANGED <<spans, newest, boot, checkpoint, oldest, rotating>> /\ (open' => open)
    BY <1>5 DEF AppendCut, AppendFails, Unfinished, AppendUnread, segments
  <2> QED BY <1>0, <1>1, <2>1
<1>6. CASE Activate
  <2>1. /\ UNCHANGED <<spans, checkpoint, boot, open, oldest>> /\ newest' = newest + 1
        /\ rotating /\ ~rotating'
    BY <1>6 DEF Activate
  <2>2. newest' \in newest .. MaxGeneration /\ newest' \in 1 .. MaxGeneration
    BY <1>0, <2>1
  <2>3. /\ (spans \in [Generations -> [first : Nat, last : Nat]])'
        /\ \A g \in Generations : spans'[g] # NoSpan =>
                g <= newest' /\ 1 <= spans'[g].first /\ spans'[g].first <= spans'[g].last
                /\ spans'[g].last <= checkpoint'.boot
        /\ \A g, h \in Generations : g < h /\ spans'[g] # NoSpan /\ spans'[h] # NoSpan =>
                spans'[g].last <= spans'[h].first
        /\ \A g \in 1 .. newest : \A x \in Nat : Holds(g, x) => Holds(g, x)'
    BY <1>0, <2>1, <2>2, SameSpans
  <2>4. open' => \E g \in 1 .. newest' : Holds(g, boot)'
    <3>1. open => \E g \in 1 .. newest : Holds(g, boot)
      BY DEF SpanInv
    <3>2. 1 .. newest \subseteq 1 .. newest'
      BY <1>0, <2>1
    <3> QED BY <1>0, <2>1, <2>3, <3>1, <3>2
  <2> QED BY <1>0, <2>1, <2>2, <2>3, <2>4 DEF SpanInv
<1>7. CASE AppendEntry
  <2>1. /\ UNCHANGED <<newest, checkpoint, open, oldest, boot, rotating>> /\ open
        /\ spans' = [spans EXCEPT ![newest] = WithBoot(@, boot)]
    BY <1>7 DEF AppendEntry
  <2>2. boot = checkpoint.boot /\ boot \in Nat \ {0}
    <3>1. PICK g \in 1 .. newest : Holds(g, boot)
      BY <2>1 DEF SpanInv
    <3>2. g \in Generations /\ spans[g] # NoSpan /\ boot \in spans[g].first .. spans[g].last
      BY <1>0, <3>1 DEF Holds, Generations
    <3>3. 1 <= spans[g].first /\ spans[g].first \in Nat
      BY <3>2 DEF SpanInv
    <3> QED BY <1>0, <2>1, <3>2, <3>3
  <2>3. /\ (spans \in [Generations -> [first : Nat, last : Nat]])'
        /\ \A g \in Generations : spans'[g] # NoSpan =>
                g <= newest /\ 1 <= spans'[g].first /\ spans'[g].first <= spans'[g].last
                /\ spans'[g].last <= boot
        /\ \A g, h \in Generations : g < h /\ spans'[g] # NoSpan /\ spans'[h] # NoSpan =>
                spans'[g].last <= spans'[h].first
        /\ \A g \in 1 .. newest : \A x \in Nat : Holds(g, x) => Holds(g, x)'
        /\ Holds(newest, boot)'
    BY <1>0, <2>1, <2>2, GrownSpan, GrownOrder
  <2>4. newest \in 1 .. newest
    BY <1>0
  <2> QED BY <1>0, <2>1, <2>2, <2>3, <2>4 DEF SpanInv
<1>8. CASE Start
  <2>0. PICK b \in Nat : b = checkpoint.boot + 1
    BY <1>0
  <2>1. /\ newest' = newest /\ ~rotating' /\ boot' = b
        /\ oldest' = RecoveredOldest /\ checkpoint' = [oldest |-> RecoveredOldest, boot |-> b]
        /\ \/ open' = TRUE /\ spans' = [spans EXCEPT ![newest] = WithBoot(@, b)]
           \/ open' = FALSE /\ UNCHANGED spans
    BY <1>8, <2>0 DEF Start
  <2>2. RecoveredOldest \in Nat \ {0} /\ b \in Nat \ {0} /\ checkpoint.boot <= b
    BY <1>0, <2>0 DEF RecoveredOldest, Larger
  <2>3. checkpoint'.oldest = RecoveredOldest /\ checkpoint'.boot = b
    BY <2>1
  <2>4. CASE open' = TRUE
    <3>1. spans' = [spans EXCEPT ![newest] = WithBoot(@, b)]
      BY <2>1, <2>4
    <3>2. /\ (spans \in [Generations -> [first : Nat, last : Nat]])'
          /\ \A g \in Generations : spans'[g] # NoSpan =>
                g <= newest /\ 1 <= spans'[g].first /\ spans'[g].first <= spans'[g].last
                /\ spans'[g].last <= b
          /\ \A g, h \in Generations : g < h /\ spans'[g] # NoSpan /\ spans'[h] # NoSpan =>
                spans'[g].last <= spans'[h].first
          /\ \A g \in 1 .. newest : \A x \in Nat : Holds(g, x) => Holds(g, x)'
          /\ Holds(newest, b)'
      BY <2>1, <2>2, <3>1, GrownSpan, GrownOrder
    <3>3. newest \in 1 .. newest /\ (\E g \in 1 .. newest : Holds(g, boot))'
      <4>1. newest \in 1 .. newest /\ newest' \in 1 .. newest'
        BY <1>0, <2>1
      <4> QED BY <2>1, <3>2, <4>1 DEF Holds
    <3> QED BY <1>0, <2>1, <2>2, <2>3, <3>2, <3>3 DEF SpanInv
  <2>5. CASE open' = FALSE
    <3>1. UNCHANGED spans
      BY <2>1, <2>5
    <3>2. /\ (spans \in [Generations -> [first : Nat, last : Nat]])'
          /\ \A g \in Generations : spans'[g] # NoSpan =>
                g <= newest' /\ 1 <= spans'[g].first /\ spans'[g].first <= spans'[g].last
                /\ spans'[g].last <= checkpoint'.boot
          /\ \A g, h \in Generations : g < h /\ spans'[g] # NoSpan /\ spans'[h] # NoSpan =>
                spans'[g].last <= spans'[h].first
          /\ \A g \in 1 .. newest : \A x \in Nat : Holds(g, x) => Holds(g, x)'
      BY <1>0, <2>1, <2>2, <2>3, <3>1, SameSpans
    <3> QED BY <1>0, <2>1, <2>2, <2>3, <2>5, <3>2 DEF SpanInv
  <2> QED BY <2>1, <2>4, <2>5
<1> QED BY <1>2, <1>3, <1>4, <1>5, <1>6, <1>7, <1>8 DEF Next

\* Anchors of a later boot come later in the ring, and each boot that has one has an entry.
LEMMA NextBoots ==
    ASSUME RingInv, SpanInv, BootInv, [Next]_vars
    PROVE  BootInv'
<1>1. /\ \A g \in 1 .. newest : \A x \in Nat : Holds(g, x) => Holds(g, x)'
      /\ newest \in Int /\ newest' \in Int /\ newest <= newest' /\ boot \in Nat
  BY NextSpans DEF SpanInv
<1>2. open => boot = checkpoint.boot /\ \E g \in 1 .. newest : Holds(g, boot)
  BY DEF SpanInv
<1>3. ASSUME NEW b \in Nat, NEW g \in 1 .. newest, Holds(g, b)
      PROVE  (\E h \in 1 .. newest' : Holds(h, b)') /\ b <= checkpoint.boot
  <2>1. g \in 1 .. newest' /\ g \in Generations
    BY <1>1, SegmentRange
  <2>2. spans[g].last <= checkpoint.boot /\ spans[g].last \in Nat /\ checkpoint.boot \in Nat
    BY <1>3, <2>1, SpanFields DEF Holds, SpanInv
  <2>3. b <= spans[g].last
    BY <1>3, <2>1, <2>2, SpanFields DEF Holds, SpanInv
  <2> QED BY <1>1, <1>3, <2>1, <2>2, <2>3
<1>4. ASSUME NEW s \in Slots, ring[s] # Garbage, NEW b \in Nat, b = ring[s].boot
      PROVE  (\E h \in 1 .. newest' : Holds(h, b)') /\ b <= checkpoint.boot
  <2>1. PICK g \in 1 .. newest : Holds(g, b)
    BY <1>4 DEF BootInv
  <2> QED BY <1>3, <2>1
<1>5. \A s \in Slots : ring'[s] # Garbage =>
         /\ ring'[s].boot \in Nat /\ ring'[s].sequence \in Nat
         /\ \/ ring'[s] = ring[s] /\ ring[s] # Garbage
            \/ /\ ring'[s].boot = boot /\ open
               /\ ring'[s].sequence = next_time_anchor_sequence + 1
               /\ s = time_anchor_write_index
               /\ \A t \in Slots : t # s => ring'[t] = ring[t]
  <2>1. RingInv'
    BY NextRing
  <2>2. (ring \in StoredRing)'
    BY <2>1 DEF RingInv
  <2>3. \A s \in Slots : ring'[s] # Garbage => ring'[s].boot \in Nat /\ ring'[s].sequence \in Nat
    BY <2>2, StoredRingParts
  <2> QED BY <2>3, RingGrows
<1>6. ASSUME NEW s \in Slots, ring'[s] # Garbage
      PROVE  \E g \in 1 .. newest' : Holds(g, ring[s].boot)'
  <2>1. PICK b \in Nat : b = ring'[s].boot
    BY <1>5, <1>6
  <2>2. PICK g \in 1 .. newest' : Holds(g, b)'
    BY <1>2, <1>3, <1>4, <1>5, <1>6, <2>1
  <2> QED BY <2>1, <2>2 DEF Holds
<1>7. ASSUME NEW s \in Slots, NEW t \in Slots, ring'[s] # Garbage, ring'[t] # Garbage,
             ring'[s].sequence < ring'[t].sequence
      PROVE  ring'[s].boot <= ring'[t].boot
  <2>1. CASE ring'[s] = ring[s] /\ ring[s] # Garbage /\ ring'[t] = ring[t] /\ ring[t] # Garbage
    BY <1>7, <2>1 DEF BootInv
  <2>2. CASE ring'[s] = ring[s] /\ ring[s] # Garbage /\ ring'[t].boot = boot /\ open
    <3>1. PICK b \in Nat : b = ring[s].boot
      BY <1>5, <2>2
    <3> QED BY <1>2, <1>4, <2>2, <3>1
  <2>3. CASE ring'[s].boot = boot /\ open /\ ring'[s].sequence = next_time_anchor_sequence + 1
             /\ s = time_anchor_write_index /\ \A i \in Slots : i # s => ring'[i] = ring[i]
    <3>1. t # s /\ ring'[t] = ring[t]
      BY <1>5, <1>7, <2>3
    <3>2. ring[t].sequence <= next_time_anchor_sequence
      BY <1>7, <2>3, <3>1 DEF RingInv, OthersIssued
    <3>3. next_time_anchor_sequence \in Nat
      BY <2>3 DEF RingInv
    <3> QED BY <1>5, <1>7, <2>3, <3>1, <3>2, <3>3
  <2> QED BY <1>5, <1>7, <2>1, <2>2, <2>3
<1> QED BY <1>6, <1>7 DEF BootInv

\* The catalog is always that of some ring.
LEMMA NextCatalog ==
    ASSUME RingInv, SpanInv, CatalogInv, [Next]_vars
    PROVE  CatalogInv'
<1>1. CASE Start
  <2>1. ring \in StoredRing /\ Apart(ring) /\ LoadCatalog(ring)
    BY <1>1 DEF RingInv, Start
  <2>2. catalog' = Catalog(ring) /\ next_time_anchor_sequence' \in Nat /\ time_anchor_write_index' \in Slots
    BY <2>1, Loaded, NewestOfRing
  <2>3. catalog' \subseteq Epoch /\ Tiled(catalog')
    BY <2>1, <2>2, CatalogType, CatalogTiles
  <2> QED BY <2>2, <2>3 DEF CatalogInv
<1>2. CASE AppendAnchor
  <2>1. RingInv'
    BY <1>2, AppendAnchorRing
  <2>2. ring' \in StoredRing /\ Apart(ring') /\ LoadCatalog(ring')
    BY <1>2, <2>1 DEF RingInv, AppendAnchor
  <2>3. catalog' = Catalog(ring') /\ next_time_anchor_sequence' \in Nat /\ time_anchor_write_index' \in Slots
    BY <2>2, Loaded, NewestOfRing
  <2>4. catalog' \subseteq Epoch /\ Tiled(catalog')
    BY <2>2, <2>3, CatalogType, CatalogTiles
  <2> QED BY <2>3, <2>4 DEF CatalogInv
<1>3. CASE AppendUnread
  BY <1>3 DEF AppendUnread, CatalogInv, Tiled
<1>4. CASE UNCHANGED <<catalog, next_time_anchor_sequence, time_anchor_write_index>>
  BY <1>4 DEF CatalogInv
<1> QED BY <1>1, <1>2, <1>3, <1>4 DEF Next, vars, Stop, AppendEntry, Retire, Activate, AppendCut,
                                 AppendFails, Unfinished, anchors

\* The invariants hold at the start, and so for ever.
LEMMA InitInvariants == Init => RingInv /\ SpanInv /\ BootInv /\ CatalogInv
<1> SUFFICES ASSUME Init PROVE RingInv /\ SpanInv /\ BootInv /\ CatalogInv
  OBVIOUS
<1>1. \A s \in Slots : ring[s] = Garbage
  BY DEF Init
<1>2. 0 \in Slots
  BY DEF Slots
<1>3. RingInv
  <2>1. InTurn(ring, 0, Slots) /\ Apart(ring)
    BY <1>1 DEF InTurn, Apart
  <2>2. ring \in StoredRing /\ issued = 0 /\ ~open
    BY DEF Init, StoredRing
  <2> QED BY <1>2, <2>1, <2>2 DEF RingInv
<1>4. SpanInv
  <2>1. spans = [g \in Generations |-> NoSpan]
    BY DEF Init
  <2>2. spans \in [Generations -> [first : Nat, last : Nat]] /\ \A g \in Generations : spans[g] = NoSpan
    BY <2>1 DEF NoSpan
  <2> QED BY <2>2 DEF Init, SpanInv
<1>5. BootInv
  BY <1>1 DEF BootInv
<1>6. CatalogInv
  BY <1>2 DEF Init, CatalogInv, Tiled
<1> QED BY <1>3, <1>4, <1>5, <1>6

\* Together they are inductive.
LEMMA AnchorInvariants == Spec => [](RingInv /\ SpanInv /\ BootInv /\ CatalogInv)
<1>1. RingInv /\ SpanInv /\ BootInv /\ CatalogInv /\ [Next]_vars
         => (RingInv /\ SpanInv /\ BootInv /\ CatalogInv)'
  BY NextRing, NextSpans, NextBoots, NextCatalog
<1> QED BY <1>1, InitInvariants, PTL DEF Spec

-----------------------------------------------------------------------------
(* What they mean.                                                         *)

\* In a ring of two or more slots no sequence of an anchor whose append returned ESP_OK is
\* given to a second one: the counter that load_time_model_catalog takes from the ring alone
\* (manifest.cpp:447) is never behind.  A ring of one slot, which Kconfig:22 allows, does give
\* it again after a torn write.
THEOREM SequencesUnique ==
    ASSUME TimeAnchorCount >= 2
    PROVE  Spec => []SequencesNotReused
<1>1. RingInv => SequencesNotReused
  BY DEF RingInv, Apart, SequencesNotReused
<1> QED BY <1>1, AnchorInvariants, PTL

\* The epochs in memory tile the uptime of every boot that has one (README.md:598).
THEOREM EpochsTiled == Spec => []EpochsTile
<1>1. CatalogInv => EpochsTile
  BY DEF CatalogInv, EpochsTile
<1> QED BY <1>1, AnchorInvariants, PTL

\* A slot that may not be reused holds the oldest anchor; later anchors belong to the same or
\* later boots, whose entries lie in the same or later segments.
LEMMA FullWhenRefused ==
    ASSUME RingInv, SpanInv, BootInv
    PROVE  RefusedOnlyWhenFull
<1> SUFFICES ASSUME open, ~MayReuse(time_anchor_write_index), ~doubtful, NEW slot \in Slots
             PROVE  ring[slot] # Garbage /\ IsRetainedBoot(ring[slot].boot)
  BY DEF RefusedOnlyWhenFull
<1> DEFINE k == time_anchor_write_index
<1>1. /\ ring[k] # Garbage /\ IsRetainedBoot(ring[k].boot)
      /\ k \in Slots /\ InTurn(ring, k, Slots) /\ ring \in StoredRing
  BY DEF MayReuse, RingInv
<1> HIDE DEF k
<1>2. CASE slot = k
  BY <1>1, <1>2
<1>3. CASE slot # k
  <2>1. Turn(k, k) < Turn(k, slot)
    BY <1>1, <1>3, TurnAfter
  <2>2. ring[slot] # Garbage /\ ring[k].sequence < ring[slot].sequence
    BY <1>1, <2>1 DEF InTurn
  <2>3. PICK b \in Nat, c \in Nat : b = ring[k].boot /\ c = ring[slot].boot
    BY <1>1, <2>2, StoredRingParts
  <2>4. b <= c
    BY <1>1, <2>2, <2>3 DEF BootInv
  <2>5. PICK g \in oldest .. newest : Holds(g, b)
    BY <1>1, <2>3 DEF IsRetainedBoot
  <2>6. PICK h \in 1 .. newest : Holds(h, c)
    BY <2>2, <2>3 DEF BootInv
  <2>7. /\ oldest \in Nat \ {0} /\ newest \in 1 .. MaxGeneration
        /\ spans \in [Generations -> [first : Nat, last : Nat]]
        /\ g \in Generations /\ h \in Generations
    <3>1. /\ oldest \in Nat \ {0} /\ newest \in 1 .. MaxGeneration
          /\ spans \in [Generations -> [first : Nat, last : Nat]]
      BY DEF SpanInv
    <3>2. oldest .. newest \subseteq Generations /\ 1 .. newest \subseteq Generations
      BY <3>1 DEF Generations
    <3> QED BY <2>5, <2>6, <3>1, <3>2
  <2>8. /\ spans[g].first \in Nat /\ spans[g].last \in Nat /\ spans[h].first \in Nat /\ spans[h].last \in Nat
        /\ spans[g] # NoSpan /\ spans[g].first <= b /\ b <= spans[g].last
        /\ spans[h] # NoSpan /\ spans[h].first <= c /\ c <= spans[h].last
    BY <2>5, <2>6, <2>7, SpanFields DEF Holds
  <2>9. CASE h < g
    <3>1. spans[h].last <= spans[g].first
      BY <2>7, <2>8, <2>9 DEF SpanInv
    <3>2. b = c
      BY <2>4, <2>8, <3>1
    <3> QED BY <1>1, <2>2, <2>3, <3>2
  <2>10. CASE g <= h
    <3>1. h \in oldest .. newest
      BY <2>5, <2>6, <2>7, <2>10
    <3> QED BY <2>2, <2>3, <2>6, <3>1 DEF IsRetainedBoot
  <2> QED BY <2>7, <2>9, <2>10 DEF Generations
<1> QED BY <1>2, <1>3

\* append_time_anchor refuses only when every slot holds an anchor of a retained boot, unless a
\* write of a slot has failed (manifest.cpp:520).
THEOREM RefusalsAreFull == Spec => []RefusedOnlyWhenFull
  BY FullWhenRefused, AnchorInvariants, PTL

\* The types are part of the invariants.
LEMMA TypesFollow ==
    ASSUME RingInv, SpanInv, CatalogInv, open \in BOOLEAN, rotating \in BOOLEAN,
           doubtful \in BOOLEAN, errors \in Nat
    PROVE  TypeOK
<1>1. StoredAnchor \subseteq Anchor
  BY DEF StoredAnchor, Anchor
<1>2. ring \in [Slots -> Anchor \cup {Garbage}]
  BY <1>1 DEF RingInv, StoredRing
<1>3. checkpoint \in [oldest : Nat, boot : Nat]
  BY DEF SpanInv
<1> QED BY <1>2, <1>3 DEF TypeOK, RingInv, SpanInv, CatalogInv

\* The I/O errors are counted.
LEMMA ErrorsCounted ==
    /\ Init => errors \in Nat
    /\ errors \in Nat /\ [Next]_vars => errors' \in Nat
<1>1. Init => errors \in Nat
  BY DEF Init
<1>2. errors \in Nat /\ [Next]_vars => errors' \in Nat
  <2> SUFFICES ASSUME errors \in Nat, [Next]_vars PROVE errors' \in Nat
    OBVIOUS
  <2>1. CASE Start \/ Stop \/ AppendEntry \/ Retire \/ Activate \/ AppendAnchor
    BY <2>1 DEF Start, Stop, AppendEntry, Retire, Activate, AppendAnchor
  <2>2. CASE AppendCut \/ AppendFails \/ AppendUnread
    BY <2>2 DEF AppendCut, AppendFails, AppendUnread
  <2>3. CASE UNCHANGED vars
    BY <2>3 DEF vars
  <2> QED BY <2>1, <2>2, <2>3 DEF Next
<1> QED BY <1>1, <1>2

\* Every variable keeps its type; that of the catalog rests on the chains of replacements that
\* resolve_time_model_replacements follows, which end at an anchor of the ring.
THEOREM TypeCorrect == Spec => []TypeOK
<1> DEFINE Flags == open \in BOOLEAN /\ rotating \in BOOLEAN /\ doubtful \in BOOLEAN
<1>1. Init => Flags
  BY Zenon DEF Init
<1>2. Flags /\ [Next]_vars => Flags'
  <2> SUFFICES ASSUME Flags, [Next]_vars PROVE Flags'
    OBVIOUS
  <2>1. CASE Start
    BY <2>1, Zenon DEF Start
  <2>2. CASE Stop
    BY <2>2, Zenon DEF Stop
  <2>3. CASE AppendEntry \/ Retire \/ Activate
    BY <2>3, Zenon DEF AppendEntry, Retire, Activate
  <2>4. CASE AppendAnchor
    BY <2>4, Zenon DEF AppendAnchor
  <2>5. CASE AppendCut \/ AppendFails \/ AppendUnread
    BY <2>5, Zenon DEF AppendCut, AppendFails, Unfinished, AppendUnread, segments
  <2>6. CASE UNCHANGED vars
    BY <2>6, Zenon DEF vars
  <2> QED BY <2>1, <2>2, <2>3, <2>4, <2>5, <2>6 DEF Next
<1> DEFINE Count == errors \in Nat
<1>3. Init => Count
  BY ErrorsCounted
<1>4. Count /\ [Next]_vars => Count'
  BY ErrorsCounted
<1>5. RingInv /\ SpanInv /\ CatalogInv /\ Flags /\ Count => TypeOK
  BY TypesFollow
<1> HIDE DEF Flags, Count
<1> QED BY <1>1, <1>2, <1>3, <1>4, <1>5, AnchorInvariants, PTL DEF Spec

-----------------------------------------------------------------------------
(* The clock of a boot.                                                    *)

\* The anchors of a boot, and the epochs a ring gives it.
Mine(r, b) == {a \in Valid(r) : a.boot = b}
EpochsOf(r, b) == {e \in Catalog(r) : e.boot = b}

\* A sequence names at most one anchor.
LEMMA NamedIsOne ==
    ASSUME NEW r \in StoredRing, Apart(r), NEW n, NEW x \in Named(r, n), NEW y \in Named(r, n)
    PROVE  x = y
<1>1. PICK s \in Slots, t \in Slots : r[s] = x /\ r[t] = y /\ x # Garbage /\ y # Garbage
  BY DEF Named, Valid
<1>2. x.sequence = y.sequence
  BY DEF Named
<1> QED BY <1>1, <1>2 DEF Apart

\* Chains of replacements stay within a boot, so the anchors of other boots do not
\* matter to them.
LEMMA RootsLocal ==
    ASSUME NEW r \in StoredRing, NEW q \in StoredRing, Apart(r), Apart(q), NEW b,
           Mine(r, b) = Mine(q, b), NEW anchor \in Mine(r, b)
    PROVE  /\ RootSequence(r)[anchor.sequence] = RootSequence(q)[anchor.sequence]
           /\ RootSequence(r)[anchor.sequence] # 0 =>
                 \E head \in Mine(r, b) : head.sequence = RootSequence(r)[anchor.sequence]
<1> DEFINE R == RootSequence(r)
           Q == RootSequence(q)
           Good(n) == R[n] = Q[n] /\ (R[n] # 0 => \E head \in Mine(r, b) : head.sequence = R[n])
           Bad == {n \in Nat : ~Good(n) /\ \E a \in Mine(r, b) : a.sequence = n}
<1>0. /\ R \in [Nat -> Nat] /\ \A n \in Nat : R[n] = RootStep(r, R, n)
      /\ Q \in [Nat -> Nat] /\ \A n \in Nat : Q[n] = RootStep(q, Q, n)
  BY RootSequenceSolves
<1>1. \A a \in Mine(r, b) : a.sequence \in Nat /\ a.replace \in Nat /\ a.boot = b
  BY ValidType DEF Mine, StoredAnchor
<1> HIDE DEF R, Q
<1>2. Bad = {}
  <2> SUFFICES ASSUME Bad # {} PROVE FALSE
    OBVIOUS
  <2>1. PICK n \in Bad : \A i \in Bad : n <= i
    <3> HIDE DEF Bad
    <3>1. Bad \in SUBSET Nat /\ Bad # {}
      BY DEF Bad
    <3> QED BY <3>1, LeastNatural
  <2>2. PICK a \in Mine(r, b) : a.sequence = n
    OBVIOUS
  <2>3. n \in Nat /\ ~Good(n)
    OBVIOUS
  <2>4. a \in Named(r, n) /\ a \in Named(q, n) /\ a.replace \in Nat /\ a.boot = b
    BY <1>1, <2>2 DEF Mine, Named
  <2>5. (CHOOSE x \in Named(r, n) : TRUE) = a /\ (CHOOSE x \in Named(q, n) : TRUE) = a
    BY <2>4, NamedIsOne
  <2>6. /\ R[n] = IF a.replace = 0 THEN n
               ELSE IF \E target \in Named(r, a.replace) : target.boot = a.boot /\ target.sequence < n
               THEN R[a.replace] ELSE 0
        /\ Q[n] = IF a.replace = 0 THEN n
               ELSE IF \E target \in Named(q, a.replace) : target.boot = a.boot /\ target.sequence < n
               THEN Q[a.replace] ELSE 0
    <3>1. R[n] = RootStep(r, R, n) /\ Q[n] = RootStep(q, Q, n)
      BY <1>0, <2>3
    <3>2. Named(r, n) # {} /\ Named(q, n) # {}
      BY <2>4
    <3> QED BY <3>1, <3>2, <2>5 DEF RootStep
  <2>7. (\E target \in Named(r, a.replace) : target.boot = a.boot /\ target.sequence < n)
           = (\E target \in Named(q, a.replace) : target.boot = a.boot /\ target.sequence < n)
    BY <2>4 DEF Named, Mine
  <2>8. CASE a.replace = 0
    BY <2>2, <2>3, <2>6, <2>8
  <2>9. CASE a.replace # 0 /\ \E target \in Named(r, a.replace) : target.boot = a.boot /\ target.sequence < n
    <3>1. PICK target \in Named(r, a.replace) : target.boot = a.boot /\ target.sequence < n
      BY <2>9
    <3>2. target \in Mine(r, b) /\ target.sequence = a.replace /\ a.replace < n
      BY <2>4, <3>1 DEF Mine, Named
    <3>3. Good(a.replace)
      <4>1. ~(n <= a.replace) /\ a.replace \in Nat
        BY <2>3, <2>4, <3>2
      <4> QED BY <2>1, <3>2, <4>1
    <3>4. R[n] = R[a.replace] /\ Q[n] = Q[a.replace]
      BY <2>6, <2>7, <2>9
    <3> QED BY <2>3, <3>3, <3>4
  <2>10. CASE a.replace # 0 /\ ~\E target \in Named(r, a.replace) : target.boot = a.boot /\ target.sequence < n
    BY <2>3, <2>6, <2>7, <2>10
  <2> QED BY <2>8, <2>9, <2>10
<1>3. anchor.sequence \in Nat
  BY <1>1
<1>4. Good(anchor.sequence)
  BY <1>2, <1>3
<1> QED BY <1>4 DEF R, Q

\* So the anchors in effect for a boot depend on its own anchors only,
LEMMA EffectiveLocal ==
    ASSUME NEW r \in StoredRing, NEW q \in StoredRing, Apart(r), Apart(q), NEW b,
           Mine(r, b) = Mine(q, b)
    PROVE  {a \in Effective(r) : a.boot = b} \subseteq {a \in Effective(q) : a.boot = b}
<1> SUFFICES ASSUME NEW a \in Effective(r), a.boot = b PROVE a \in Effective(q)
  OBVIOUS
<1> DEFINE R == RootSequence(r)
           Q == RootSequence(q)
<1>1. \A x \in Mine(r, b) : R[x.sequence] = Q[x.sequence]
  BY RootsLocal
<1>2. /\ a \in Mine(r, b) /\ R[a.sequence] # 0
      /\ \A x \in Valid(r) : x.boot = a.boot /\ R[x.sequence] = R[a.sequence] => x.sequence <= a.sequence
  BY DEF Effective, Mine
<1> HIDE DEF R, Q
<1>3. a \in Valid(q) /\ Q[a.sequence] # 0
  BY <1>1, <1>2 DEF Mine
<1>4. ASSUME NEW x \in Valid(q), x.boot = a.boot, Q[x.sequence] = Q[a.sequence]
      PROVE  x.sequence <= a.sequence
  <2>1. x \in Mine(r, b) /\ x \in Valid(r)
    BY <1>4 DEF Mine
  <2> QED BY <1>1, <1>2, <1>4, <2>1
<1> QED BY <1>3, <1>4 DEF Effective, Q

\* The epochs of a ring before the compaction.
BeginOf(r, a) == (CHOOSE head \in Named(r, RootSequence(r)[a.sequence]) : TRUE).mono
Candidates(r) == {[boot |-> a.boot, begin |-> BeginOf(r, a), anchor |-> a] : a \in Effective(r)}

\* and its epochs,
LEMMA CandidatesLocal ==
    ASSUME NEW r \in StoredRing, NEW q \in StoredRing, Apart(r), Apart(q), NEW b,
           Mine(r, b) = Mine(q, b)
    PROVE  {e \in Candidates(r) : e.boot = b} \subseteq {e \in Candidates(q) : e.boot = b}
<1> SUFFICES ASSUME NEW a \in Effective(r), a.boot = b
             PROVE  a \in Effective(q) /\ BeginOf(r, a) = BeginOf(q, a)
  BY DEF Candidates
<1>1. a \in Effective(q)
  BY EffectiveLocal
<1>2. a \in Mine(r, b) /\ RootSequence(r)[a.sequence] # 0
  BY DEF Effective, Mine
<1>3. PICK head \in Mine(r, b) : head.sequence = RootSequence(r)[a.sequence]
  BY <1>2, RootsLocal
<1>4. RootSequence(r)[a.sequence] = RootSequence(q)[a.sequence]
  BY <1>2, RootsLocal
<1>5. head \in Named(r, RootSequence(r)[a.sequence]) /\ head \in Named(q, RootSequence(q)[a.sequence])
  BY <1>3, <1>4 DEF Mine, Named
<1>6. /\ (CHOOSE x \in Named(r, RootSequence(r)[a.sequence]) : TRUE) = head
      /\ (CHOOSE x \in Named(q, RootSequence(q)[a.sequence]) : TRUE) = head
  BY <1>5, NamedIsOne
<1> QED BY <1>1, <1>6 DEF BeginOf

\* which the compaction thins out
LEMMA BeginsOfCandidates ==
    ASSUME NEW r
    PROVE  Begins(r) = {e \in Candidates(r) : \A other \in Candidates(r) :
              other.boot = e.boot /\ other.begin = e.begin => other.anchor.sequence <= e.anchor.sequence}
  BY DEF Begins, Candidates, BeginOf

\* boot by boot,
LEMMA BeginsLocal ==
    ASSUME NEW r \in StoredRing, NEW q \in StoredRing, Apart(r), Apart(q), NEW b,
           Mine(r, b) = Mine(q, b)
    PROVE  {e \in Begins(r) : e.boot = b} = {e \in Begins(q) : e.boot = b}
<1>1. {e \in Candidates(r) : e.boot = b} = {e \in Candidates(q) : e.boot = b}
  BY CandidatesLocal
<1>2. ASSUME NEW e, e.boot = b
      PROVE  e \in Begins(r) <=> e \in Begins(q)
  BY <1>1, <1>2, BeginsOfCandidates
<1> QED BY <1>2

\* and their bounds: the clock of a boot.
LEMMA ClockLocal ==
    ASSUME NEW r \in StoredRing, NEW q \in StoredRing, Apart(r), Apart(q), NEW b,
           Mine(r, b) = Mine(q, b)
    PROVE  EpochsOf(r, b) = EpochsOf(q, b)
<1> DEFINE Bound(begins, e) == [boot |-> e.boot, anchor |-> e.anchor,
                               first |-> EpochFirst(begins, e), last |-> EpochLast(begins, e)]
<1>1. {e \in Begins(r) : e.boot = b} = {e \in Begins(q) : e.boot = b}
  BY BeginsLocal
<1>2. ASSUME NEW e, e.boot = b
      PROVE  Bound(Begins(r), e) = Bound(Begins(q), e)
  <2>1. Later(Begins(r), e) = Later(Begins(q), e)
    BY <1>1, <1>2 DEF Later
  <2>2. Earlier(Begins(r), e) = Earlier(Begins(q), e)
    BY <1>1, <1>2 DEF Earlier
  <2>3. Following(Begins(r), e) = Following(Begins(q), e)
    BY <2>1 DEF Following
  <2> QED BY <2>1, <2>2, <2>3 DEF EpochFirst, EpochLast
<1>3. \A e, begins : Bound(begins, e).boot = e.boot
  OBVIOUS
<1>4. Catalog(r) = {Bound(Begins(r), e) : e \in Begins(r)} /\ Catalog(q) = {Bound(Begins(q), e) : e \in Begins(q)}
  BY DEF Catalog, Bounded
<1> HIDE DEF Bound
<1> QED BY <1>1, <1>2, <1>3, <1>4 DEF EpochsOf

\* While the store runs its boot has an entry in the newest segment that has any.
BootHeld ==
    open => \E g \in 1 .. newest :
                /\ Holds(g, boot) /\ checkpoint.oldest <= g /\ newest <= g + 1
                /\ rotating => g = newest

\* And the durable floor is a segment there is.
DurableInv == checkpoint.oldest <= newest /\ BootHeld

\* In the newest segment the boot that runs can only be the last.
LEMMA NewestHoldsBoot ==
    ASSUME SpanInv, open, spans[newest] # NoSpan
    PROVE  Holds(newest, boot) /\ spans[newest].last = boot
<1>1. PICK g \in 1 .. newest : Holds(g, boot) /\ boot = checkpoint.boot
  BY DEF SpanInv
<1>2. /\ g \in Generations /\ newest \in Generations /\ g \in Nat /\ newest \in Nat
      /\ spans \in [Generations -> [first : Nat, last : Nat]]
  BY <1>1, SegmentRange
<1>3. /\ spans[g] # NoSpan /\ boot \in spans[g].first .. spans[g].last
      /\ spans[g].first \in Nat /\ spans[g].last \in Nat
      /\ spans[newest].first \in Nat /\ spans[newest].last \in Nat
      /\ spans[newest].first <= spans[newest].last /\ spans[newest].last <= boot
  BY <1>1, <1>2, SpanFields DEF SpanInv, Holds
<1>4. CASE g = newest
  BY <1>1, <1>3, <1>4
<1>5. CASE g < newest
  <2>1. spans[g].last <= spans[newest].first
    BY <1>2, <1>3, <1>5 DEF SpanInv
  <2> QED BY <1>3, <2>1 DEF Holds
<1> QED BY <1>1, <1>2, <1>4, <1>5

\* A rotation goes on from a segment with an entry, so it keeps that one.
LEMMA NextDurable ==
    ASSUME "retire" \notin Faults, IInv, SpanInv, DurableInv, [Next]_vars
    PROVE  DurableInv'
<1>0. /\ oldest = checkpoint.oldest /\ oldest \in Nat \ {0} /\ newest \in 1 .. MaxGeneration /\ newest \in Nat
      /\ checkpoint = [oldest |-> checkpoint.oldest, boot |-> checkpoint.boot]
      /\ checkpoint.oldest <= newest /\ boot \in Nat /\ SpanInv'
      /\ \A g \in 1 .. newest : \A x \in Nat : Holds(g, x) => Holds(g, x)'
  BY NextSpans DEF IInv, SpanInv, DurableInv
<1>1. CASE Start
  <2>0. PICK b \in Nat : b = checkpoint.boot + 1
    BY DEF SpanInv
  <2>1. /\ newest' = newest /\ ~rotating' /\ boot' = b
        /\ checkpoint' = [oldest |-> RecoveredOldest, boot |-> b]
    BY <1>1, <2>0 DEF Start
  <2>2. checkpoint'.oldest <= newest'
    BY <1>0, <2>1 DEF RecoveredOldest, Larger
  <2>3. ASSUME open' PROVE Holds(newest, boot)'
    <3>1. spans' = [spans EXCEPT ![newest] = WithBoot(@, b)]
      BY <1>1, <2>0, <2>3 DEF Start
    <3>2. checkpoint.boot <= b /\ b \in Nat \ {0}
      BY <2>0 DEF SpanInv
    <3>3. Holds(newest, b)'
      BY <2>1, <3>1, <3>2, GrownOrder
    <3> QED BY <2>1, <3>3 DEF Holds
  <2>4. (newest \in 1 .. newest /\ newest <= newest + 1)'
    BY <1>0, <2>1
  <2> QED BY <2>1, <2>2, <2>3, <2>4 DEF DurableInv, BootHeld
<1>2. ASSUME UNCHANGED <<spans, newest, boot>>, open' => open, checkpoint'.oldest = checkpoint.oldest,
             rotating' => rotating
      PROVE  DurableInv'
  BY <1>0, <1>2 DEF DurableInv, BootHeld, Holds
<1>3. CASE Stop \/ UNCHANGED vars
  BY <1>2, <1>3 DEF Stop, medium, vars
<1>4. CASE AppendCut \/ AppendFails \/ AppendUnread
  BY <1>2, <1>4 DEF AppendCut, AppendFails, Unfinished, AppendUnread, segments
<1>5. CASE AppendAnchor
  <2>1. /\ UNCHANGED <<spans, newest, boot, open, rotating>>
        /\ checkpoint' = [checkpoint EXCEPT !.oldest = oldest] \/ checkpoint' = checkpoint
    BY <1>5 DEF AppendAnchor
  <2>2. checkpoint'.oldest = checkpoint.oldest
    BY <1>0, <2>1
  <2> QED BY <1>2, <2>1, <2>2
<1>6. CASE AppendEntry
  <2>1. UNCHANGED <<newest, checkpoint, open, boot, rotating>> /\ open
    BY <1>6 DEF AppendEntry
  <2>2. PICK g \in 1 .. newest :
           /\ Holds(g, boot) /\ checkpoint.oldest <= g /\ newest <= g + 1
           /\ rotating => g = newest
    BY <2>1 DEF DurableInv, BootHeld
  <2>3. Holds(g, boot)'
    <3>1. PICK b \in Nat : b = boot
      BY <1>0
    <3>2. Holds(g, b)'
      BY <1>0, <2>2, <3>1
    <3> QED BY <2>1, <3>1, <3>2 DEF Holds
  <2> QED BY <1>0, <2>1, <2>2, <2>3 DEF DurableInv, BootHeld
<1>7. CASE Retire
  <2>1. /\ UNCHANGED <<spans, newest, boot, open>> /\ open /\ spans[newest] # NoSpan
        /\ oldest' = Larger(oldest, newest + 2 - SegmentCount)
        /\ checkpoint' = [checkpoint EXCEPT !.oldest = oldest']
    BY <1>7 DEF Retire
  <2>2. oldest' <= newest
    BY <1>0, <2>1 DEF Larger
  <2>3. checkpoint'.oldest = oldest'
    BY <1>0, <2>1
  <2>4. Holds(newest, boot)'
    BY <2>1, NewestHoldsBoot DEF Holds
  <2> QED BY <1>0, <2>1, <2>2, <2>3, <2>4 DEF DurableInv, BootHeld
<1>8. CASE Activate
  <2>1. /\ UNCHANGED <<spans, checkpoint, boot, open>> /\ newest' = newest + 1
        /\ rotating /\ ~rotating' /\ open
    BY <1>8 DEF Activate
  <2>2. Holds(newest, boot)
    BY <2>1 DEF DurableInv, BootHeld
  <2>3. Holds(newest, boot)' \/ TRUE
    OBVIOUS
  <2>4. PICK g \in Nat : g = newest
    BY <1>0
  <2>5. Holds(g, boot)'
    BY <2>1, <2>2, <2>4 DEF Holds
  <2>6. g \in 1 .. newest' /\ checkpoint'.oldest <= g /\ newest' <= g + 1
    BY <1>0, <2>1, <2>4
  <2> QED BY <1>0, <2>1, <2>5, <2>6 DEF DurableInv, BootHeld
<1> QED BY <1>1, <1>3, <1>4, <1>5, <1>6, <1>7, <1>8 DEF Next

\* So the boot that runs is retained.
LEMMA BootIsDurable ==
    ASSUME SpanInv, DurableInv, open
    PROVE  IsDurableBoot(boot)
<1>1. PICK g \in 1 .. newest : Holds(g, boot) /\ checkpoint.oldest <= g /\ newest <= g + 1
  BY DEF DurableInv, BootHeld
<1>2. g \in RecoveredOldest .. newest
  BY <1>1 DEF SpanInv, RecoveredOldest, Larger
<1> QED BY <1>1, <1>2 DEF IsDurableBoot

\* No boot comes back: what init() would retain only shrinks, but for the boot it counts.
LEMMA DurableShrinks ==
    ASSUME "retire" \notin Faults, IInv, SpanInv, DurableInv, [Next]_vars, ~Start,
           NEW b \in Nat, IsDurableBoot(b)'
    PROVE  IsDurableBoot(b)
<1>0. /\ oldest = checkpoint.oldest /\ oldest \in Nat \ {0} /\ newest \in 1 .. MaxGeneration
      /\ checkpoint = [oldest |-> checkpoint.oldest, boot |-> checkpoint.boot]
      /\ spans \in [Generations -> [first : Nat, last : Nat]]
  BY DEF IInv, SpanInv
<1>1. PICK g \in RecoveredOldest' .. newest' : Holds(g, b)'
  BY DEF IsDurableBoot
<1>2. /\ RecoveredOldest <= RecoveredOldest' /\ newest <= newest'
      /\ newest' \in Nat /\ RecoveredOldest' \in Nat \ {0} /\ RecoveredOldest \in Nat
  <2>1. /\ checkpoint.oldest <= checkpoint'.oldest /\ checkpoint'.oldest \in Nat \ {0}
        /\ newest <= newest' /\ newest' \in Nat
    <3>1. SpanInv' /\ newest <= newest'
      BY NextSpans
    <3>2. IInv'
      BY NextIInv
    <3>3. checkpoint'.oldest \in Nat \ {0} /\ newest' \in Nat /\ checkpoint'.oldest = oldest'
      BY <3>1, <3>2 DEF SpanInv, IInv
    <3>4. oldest <= oldest'
      <4>1. CASE Retire
        <5>1. oldest' = Larger(oldest, newest + 2 - SegmentCount)
          BY <4>1 DEF Retire
        <5> QED BY <1>0, <5>1 DEF Larger
      <4>2. oldest' = oldest \/ Retire
        BY DEF Next, vars, Stop, AppendEntry, Activate, AppendAnchor, AppendCut, AppendFails,
               Unfinished, AppendUnread, segments
      <4> QED BY <1>0, <4>1, <4>2
    <3> QED BY <1>0, <3>1, <3>3, <3>4
  <2> QED BY <1>0, <2>1 DEF RecoveredOldest, Larger
<1>3. g \in RecoveredOldest .. newest'
  BY <1>1, <1>2
<1>4. CASE UNCHANGED <<spans, newest>>
  BY <1>1, <1>2, <1>3, <1>4 DEF IsDurableBoot, Holds
<1>5. CASE Activate
  <2>1. UNCHANGED spans /\ newest' = newest + 1
    BY <1>5 DEF Activate
  <2>2. spans[g] # NoSpan /\ b \in spans[g].first .. spans[g].last
    BY <1>1, <2>1 DEF Holds
  <2>3. rotating /\ newest < MaxGeneration
    BY <1>5 DEF Activate, SpanInv
  <2>4. g \in Generations
    <3>1. newest' \in 1 .. MaxGeneration
      BY <1>0, <2>1, <2>3
    <3>2. g \in 1 .. newest'
      BY <1>1, <1>2
    <3> QED BY <3>1, <3>2 DEF Generations
  <2>5. g <= newest
    BY <2>2, <2>4 DEF SpanInv
  <2> QED BY <1>0, <1>2, <1>3, <2>2, <2>5 DEF IsDurableBoot, Holds
<1>6. CASE AppendEntry
  <2>1. /\ UNCHANGED <<newest, checkpoint>> /\ open
        /\ spans' = [spans EXCEPT ![newest] = WithBoot(@, boot)]
    BY <1>6 DEF AppendEntry
  <2>2. newest \in Generations
    BY <1>0 DEF Generations
  <2>3. CASE g # newest
    <3>1. spans'[g] = spans[g]
      BY <1>0, <1>1, <1>2, <2>1, <2>3 DEF Generations
    <3> QED BY <1>1, <1>3, <2>1, <3>1 DEF IsDurableBoot, Holds
  <2>4. CASE g = newest /\ spans[newest] = NoSpan
    <3>1. spans'[newest] = [first |-> boot, last |-> boot]
      BY <1>0, <2>1, <2>2, <2>4 DEF WithBoot
    <3>2. b = boot
      BY <1>1, <2>4, <3>1 DEF Holds, SpanInv
    <3> QED BY <2>1, <3>2, BootIsDurable
  <2>5. CASE g = newest /\ spans[newest] # NoSpan
    <3>1. spans[newest].last = boot /\ spans[newest] \in [first : Nat, last : Nat]
      BY <1>0, <2>1, <2>2, <2>5, NewestHoldsBoot
    <3>2. spans'[newest] = [spans[newest] EXCEPT !.last = boot]
      BY <1>0, <2>1, <2>2, <2>5 DEF WithBoot
    <3>3. spans'[newest] = spans[newest]
      BY <3>1, <3>2
    <3> QED BY <1>1, <1>3, <2>1, <2>5, <3>3 DEF IsDurableBoot, Holds
  <2> QED BY <2>3, <2>4, <2>5
<1> QED BY <1>4, <1>5, <1>6 DEF Next, vars, Stop, Retire, AppendAnchor, AppendCut, AppendFails,
                                 Unfinished, AppendUnread, segments, medium

\* The clock of a retained boot is what the ring says, unless an unfinished append left
\* an anchor of that boot that the catalog has yet to take in, or the catalog is lost.
Fresh(r, b, n) == \E a \in Valid(r) : a.boot = b /\ a.sequence > n
ClockInv ==
    \A b \in Nat : IsDurableBoot(b) =>
        ClockOf(b) = EpochsOf(ring, b) \/ Fresh(ring, b, next_time_anchor_sequence) \/ CatalogLost

\* The write of a slot leaves the anchors of a retained boot alone, but for a new one.
LEMMA WriteIsLocal ==
    ASSUME RingInv, SpanInv, IInv, open, NEW left \in StoredAnchor \cup {Garbage}, Written(left),
           left # Garbage => left.sequence = next_time_anchor_sequence + 1,
           MayReuse(time_anchor_write_index), NEW b \in Nat, IsDurableBoot(b)
    PROVE  /\ left # Garbage /\ left.boot = b => Fresh(ring', b, next_time_anchor_sequence)
           /\ ~(left # Garbage /\ left.boot = b) => EpochsOf(ring', b) = EpochsOf(ring, b)
           /\ \A n : Fresh(ring, b, n) => Fresh(ring', b, n)
<1> DEFINE k == time_anchor_write_index
<1>1. /\ ring' \in StoredRing /\ Apart(ring') /\ ring \in StoredRing /\ Apart(ring)
      /\ \A s \in Slots : s # k => ring'[s] = ring[s]
      /\ ring'[k] = left /\ k \in Slots /\ next_time_anchor_sequence \in Nat
  BY WrittenRing DEF RingInv
<1>2. ring[k] # Garbage => ring[k].boot # b
  BY DurableIsRetained DEF MayReuse
<1> HIDE DEF k
<1>3. Mine(ring, b) \subseteq Mine(ring', b)
  BY <1>1, <1>2 DEF Mine, Valid
<1>4. ~(left # Garbage /\ left.boot = b) => Mine(ring', b) \subseteq Mine(ring, b)
  BY <1>1 DEF Mine, Valid
<1>5. ~(left # Garbage /\ left.boot = b) => EpochsOf(ring', b) = EpochsOf(ring, b)
  <2> SUFFICES ASSUME ~(left # Garbage /\ left.boot = b)
               PROVE  EpochsOf(ring', b) = EpochsOf(ring, b)
    OBVIOUS
  <2>1. Mine(ring', b) = Mine(ring, b)
    BY <1>3, <1>4
  <2> QED BY ONLY <1>1, <2>1, ClockLocal
<1>6. left # Garbage /\ left.boot = b => Fresh(ring', b, next_time_anchor_sequence)
  BY <1>1 DEF Fresh, Valid
<1>7. \A n : Fresh(ring, b, n) => Fresh(ring', b, n)
  BY <1>3 DEF Fresh, Mine
<1> QED BY <1>5, <1>6, <1>7

\* The same of the append that goes through, and of one cut short.
LEMMA AppendedClock ==
    ASSUME RingInv, SpanInv, IInv, ClockInv, AppendAnchor, NEW b \in Nat, IsDurableBoot(b)
    PROVE  \/ EpochsOf(ring', b) = ClockOf(b)
           \/ Fresh(ring', b, next_time_anchor_sequence)
           \/ CatalogLost
<1>1. PICK mono \in Measured, replace \in 0 .. MaxSequence :
         /\ CanAppend(replace)
         /\ ring' = [ring EXCEPT ![time_anchor_write_index] = NewAnchor(mono, replace)]
  BY DEF AppendAnchor
<1>2. MayReuse(time_anchor_write_index) /\ open
  BY <1>1 DEF CanAppend
<1>3. PICK left \in StoredAnchor :
         left = NewAnchor(mono, replace) /\ left.sequence = next_time_anchor_sequence + 1
  BY <1>1, Appending
<1>4. /\ left # Garbage /\ left.boot = b => Fresh(ring', b, next_time_anchor_sequence)
      /\ ~(left # Garbage /\ left.boot = b) => EpochsOf(ring', b) = EpochsOf(ring, b)
      /\ \A n : Fresh(ring, b, n) => Fresh(ring', b, n)
  BY <1>1, <1>2, <1>3, WriteIsLocal DEF Written
<1>5. ClockOf(b) = EpochsOf(ring, b) \/ Fresh(ring, b, next_time_anchor_sequence) \/ CatalogLost
  BY DEF ClockInv
<1> QED BY <1>4, <1>5

LEMMA UnfinishedClock ==
    ASSUME RingInv, SpanInv, IInv, ClockInv, Unfinished, NEW b \in Nat, IsDurableBoot(b)
    PROVE  \/ ClockOf(b) = EpochsOf(ring', b)
           \/ Fresh(ring', b, next_time_anchor_sequence)
           \/ CatalogLost
<1>1. PICK mono \in Measured, replace \in 0 .. MaxSequence :
         /\ CanAppend(replace)
         /\ \E left \in {Garbage, NewAnchor(mono, replace)} :
               ring' = [ring EXCEPT ![time_anchor_write_index] = left]
  BY DEF Unfinished
<1>2. MayReuse(time_anchor_write_index) /\ open
  BY <1>1 DEF CanAppend
<1>3. PICK left \in StoredAnchor \cup {Garbage} :
         /\ Written(left)
         /\ left # Garbage => left.sequence = next_time_anchor_sequence + 1
  BY <1>1, Appending DEF Written
<1>4. /\ left # Garbage /\ left.boot = b => Fresh(ring', b, next_time_anchor_sequence)
      /\ ~(left # Garbage /\ left.boot = b) => EpochsOf(ring', b) = EpochsOf(ring, b)
      /\ \A n : Fresh(ring, b, n) => Fresh(ring', b, n)
  BY <1>2, <1>3, WriteIsLocal
<1>5. ClockOf(b) = EpochsOf(ring, b) \/ Fresh(ring, b, next_time_anchor_sequence) \/ CatalogLost
  BY DEF ClockInv
<1> QED BY <1>4, <1>5

\* Whoever loads the catalog has it say what the ring says.
LEMMA LoadedClock ==
    ASSUME NEW b \in Nat, Start \/ AppendAnchor
    PROVE  ClockOf(b)' = EpochsOf(ring', b)
<1>1. catalog' = Catalog(ring')
  BY DEF Start, AppendAnchor, LoadCatalog
<1> QED BY <1>1 DEF ClockOf, EpochsOf

\* Each action keeps the clocks.
LEMMA NextClock ==
    ASSUME "retire" \notin Faults, IInv, RingInv, SpanInv, DurableInv, ClockInv, [Next]_vars
    PROVE  ClockInv'
<1> SUFFICES ASSUME NEW b \in Nat, IsDurableBoot(b)'
             PROVE  \/ ClockOf(b)' = EpochsOf(ring', b)
                    \/ Fresh(ring', b, next_time_anchor_sequence')
                    \/ CatalogLost'
  <2>1. ClockInv' = \A b \in Nat : IsDurableBoot(b)' =>
            \/ ClockOf(b)' = EpochsOf(ring', b)
            \/ Fresh(ring', b, next_time_anchor_sequence')
            \/ CatalogLost'
    BY DEF ClockInv, EpochsOf, Fresh
  <2> QED BY <2>1
<1>1. CASE Start \/ AppendAnchor
  BY <1>1, LoadedClock
<1>2. CASE AppendUnread
  BY <1>2 DEF AppendUnread, CatalogLost
<1>3. CASE ~(Start \/ AppendAnchor \/ AppendUnread)
  <2>1. IsDurableBoot(b)
    BY <1>3, DurableShrinks
  <2>2. UNCHANGED <<catalog, next_time_anchor_sequence>> /\ (doubtful => doubtful')
    BY <1>3 DEF Next, vars, Stop, AppendEntry, Retire, Activate, AppendCut, AppendFails, Unfinished, anchors
  <2>3. ClockOf(b)' = ClockOf(b) /\ (CatalogLost => CatalogLost')
    BY <2>2 DEF ClockOf, CatalogLost
  <2>4. CASE Unfinished
    BY <2>1, <2>2, <2>3, <2>4, UnfinishedClock
  <2>5. CASE UNCHANGED ring
    <3>1. ClockOf(b) = EpochsOf(ring, b) \/ Fresh(ring, b, next_time_anchor_sequence) \/ CatalogLost
      BY <2>1 DEF ClockInv
    <3> QED BY <2>2, <2>3, <2>5, <3>1
  <2> QED BY <1>3, <2>4, <2>5 DEF Next, vars, Stop, AppendEntry, Retire, Activate, AppendCut,
                                  AppendFails, medium, anchors
<1> QED BY <1>1, <1>2, <1>3

\* Before the first start there are none.
LEMMA InitClock == Init => DurableInv /\ ClockInv
<1> SUFFICES ASSUME Init PROVE DurableInv /\ ClockInv
  OBVIOUS
<1>1. DurableInv
  BY DEF Init, DurableInv, BootHeld
<1>2. Valid(ring) = {} /\ catalog = {}
  BY DEF Init, Valid
<1>3. Effective(ring) = {}
  BY <1>2 DEF Effective
<1>4. Catalog(ring) = {}
  BY <1>3, BeginsOfCandidates DEF Candidates, Catalog, Bounded
<1> QED BY <1>1, <1>2, <1>4 DEF ClockInv, ClockOf, EpochsOf

\* The clock of a retained boot changes only with a new anchor of that boot (manifest.cpp:328),
\* or when the ring cannot be read back, as long as the commits of retirements succeed.
THEOREM ClocksKept ==
    ASSUME "retire" \notin Faults
    PROVE  Spec => ClocksStable
<1> DEFINE Stable == \A b \in 1 .. MaxBoot :
               (IsDurableBoot(b) /\ IsDurableBoot(b)' /\ ClockOf(b)' # ClockOf(b)) =>
                   \/ \E a \in Valid(ring') : a.boot = b /\ a.sequence > next_time_anchor_sequence
                   \/ CatalogLost
                   \/ CatalogLost' /\ errors' > errors
           Inv == IInv /\ RingInv /\ SpanInv /\ DurableInv /\ ClockInv /\ errors \in Nat
<1>1. Init => Inv
  BY InitIInv, InitInvariants, InitClock, ErrorsCounted
<1>2. Inv /\ [Next]_vars => Inv'
  BY NextIInv, NextRing, NextSpans, NextDurable, NextClock, ErrorsCounted
<1>3. ASSUME Inv, [Next]_vars PROVE [Stable]_vars
  <2> SUFFICES ASSUME NEW b \in 1 .. MaxBoot, IsDurableBoot(b), ClockOf(b)' # ClockOf(b)
               PROVE  \/ Fresh(ring', b, next_time_anchor_sequence)
                      \/ CatalogLost
                      \/ CatalogLost' /\ errors' > errors
    BY DEF Fresh
  <2>0. b \in Nat /\ IInv /\ RingInv /\ SpanInv /\ ClockInv /\ errors \in Nat
    BY <1>3
  <2>1. CASE Start
    <3>1. ring' = ring /\ ClockOf(b)' = EpochsOf(ring', b)
      BY <2>0, <2>1, LoadedClock DEF Start
    <3> QED BY <2>0, <3>1 DEF ClockInv
  <2>2. CASE AppendAnchor
    <3>1. ClockOf(b)' = EpochsOf(ring', b)
      BY <2>0, <2>2, LoadedClock
    <3> QED BY <2>0, <2>2, <3>1, AppendedClock
  <2>3. CASE AppendUnread
    BY <2>0, <2>3 DEF AppendUnread, CatalogLost
  <2>4. CASE UNCHANGED catalog
    BY <2>4 DEF ClockOf
  <2> QED BY <1>3, <2>1, <2>2, <2>3, <2>4 DEF Next, vars, Stop, AppendEntry, Retire, Activate,
                                              AppendCut, AppendFails, Unfinished, anchors
<1> QED BY <1>1, <1>2, <1>3, PTL DEF Spec, ClocksStable

-----------------------------------------------------------------------------
(* Translation.                                                            *)

\* The epochs of a catalog.
Epochs == [boot : Nat, first : Times, last : Times, mono : Times, utc : Times]

\* translate_timestamp computes to + (value - from), and says so exactly when
\* that is a 64-bit number (read.cpp:600).
LEMMA TranslationExact ==
    ASSUME NEW value \in Times, NEW from \in Times, NEW to \in Times
    PROVE  /\ TranslationResult(value, from, to) \in {"above_max", "below_zero", "in_range"}
           /\ TranslationResult(value, from, to) = "in_range" <=> to + (value - from) \in Times
           /\ TranslationResult(value, from, to) = "above_max" <=> to + (value - from) > MaxTime
           /\ TranslationResult(value, from, to) = "below_zero" <=> to + (value - from) < 0
           /\ Translated(value, from, to) =
                  IF to + (value - from) \in Times THEN to + (value - from) ELSE 0
  BY MaxTimeAssumption, SMT DEF TranslationResult, Translated, Times

\* Translating an uptime to UTC and back gives the uptime (read.cpp:600, 624).
THEOREM RoundTrip ==
    ASSUME NEW epoch \in Epochs, NEW uptime \in Times, HasUtc(epoch, uptime)
    PROVE  /\ TranslationResult(Utc(epoch, uptime), epoch.utc, epoch.mono) = "in_range"
           /\ Translated(Utc(epoch, uptime), epoch.utc, epoch.mono) = uptime
<1>1. epoch.mono \in Times /\ epoch.utc \in Times
  BY DEF Epochs
<1>2. Utc(epoch, uptime) = epoch.utc + (uptime - epoch.mono) /\ Utc(epoch, uptime) \in Times
  BY <1>1, TranslationExact DEF HasUtc, Utc
<1>3. epoch.mono + (Utc(epoch, uptime) - epoch.utc) = uptime
  BY <1>1, <1>2, MaxTimeAssumption DEF Times
<1>. QED  BY <1>1, <1>2, <1>3, TranslationExact

\* make_utc_boot_cursor hands to the boot reader exactly those uptimes of the epoch
\* whose UTC is a 64-bit number in the range asked for.  So the reader leaves no
\* entry out, and calculate_entry_utc never fails for the entry it finds (the
\* ESP_ERR_INVALID_STATE of read.cpp:665 cannot be returned).
THEOREM UtcRangeExact ==
    ASSUME NEW epoch \in Epochs, NEW first \in Times, NEW last \in Times,
           NEW uptime \in epoch.first .. epoch.last
    PROVE  (/\ Overlaps(epoch, first, last)
            /\ uptime \in FirstUptime(epoch, first) .. LastUptime(epoch, last))
           <=> (HasUtc(epoch, uptime) /\ Utc(epoch, uptime) \in first .. last)
<1>. DEFINE low == epoch.mono + (first - epoch.utc)
            high == epoch.mono + (last - epoch.utc)
<1>1. /\ epoch.mono \in Times /\ epoch.utc \in Times
      /\ epoch.first \in Times /\ epoch.last \in Times /\ uptime \in Times
  BY MaxTimeAssumption DEF Epochs, Times
<1>2. /\ TranslationResult(first, epoch.utc, epoch.mono) = "in_range" <=> low \in Times
      /\ TranslationResult(first, epoch.utc, epoch.mono) = "above_max" <=> low > MaxTime
      /\ TranslationResult(first, epoch.utc, epoch.mono) = "below_zero" <=> low < 0
      /\ Translated(first, epoch.utc, epoch.mono) = IF low \in Times THEN low ELSE 0
  BY <1>1, TranslationExact
<1>3. /\ TranslationResult(last, epoch.utc, epoch.mono) = "in_range" <=> high \in Times
      /\ TranslationResult(last, epoch.utc, epoch.mono) = "above_max" <=> high > MaxTime
      /\ TranslationResult(last, epoch.utc, epoch.mono) = "below_zero" <=> high < 0
      /\ Translated(last, epoch.utc, epoch.mono) = IF high \in Times THEN high ELSE 0
  BY <1>1, TranslationExact
<1>4. FirstUptime(epoch, first) = IF low \in Times /\ low >= epoch.first THEN low ELSE epoch.first
  BY <1>1, <1>2, MaxTimeAssumption DEF FirstUptime, Times
<1>5. high >= 0 => LastUptime(epoch, last) = IF high <= epoch.last THEN high ELSE epoch.last
  BY <1>1, <1>3, MaxTimeAssumption DEF LastUptime, Times
<1>6. Overlaps(epoch, first, last) <=>
          low <= MaxTime /\ high >= 0 /\ FirstUptime(epoch, first) <= LastUptime(epoch, last)
  <2>1. low \in Int /\ high \in Int
    BY <1>1, MaxTimeAssumption DEF Times
  <2>. QED  BY <1>2, <1>3, <2>1, MaxTimeAssumption DEF Overlaps
<1>7. HasUtc(epoch, uptime) /\ Utc(epoch, uptime) \in first .. last
      <=> epoch.utc + (uptime - epoch.mono) \in first .. last
  <2>1. HasUtc(epoch, uptime) <=> epoch.utc + (uptime - epoch.mono) \in Times
    BY <1>1, TranslationExact DEF HasUtc
  <2>2. HasUtc(epoch, uptime) => Utc(epoch, uptime) = epoch.utc + (uptime - epoch.mono)
    <3>1. Utc(epoch, uptime) = IF epoch.utc + (uptime - epoch.mono) \in Times
                               THEN epoch.utc + (uptime - epoch.mono) ELSE 0
      BY <1>1, TranslationExact DEF Utc
    <3>. QED  BY <2>1, <3>1
  <2>. QED  BY <1>1, <2>1, <2>2, MaxTimeAssumption DEF Times
<1>8. /\ epoch.utc + (uptime - epoch.mono) >= first <=> uptime >= low
      /\ epoch.utc + (uptime - epoch.mono) <= last <=> uptime <= high
      /\ low \in Int /\ high \in Int
  BY <1>1, MaxTimeAssumption DEF Times
<1>. HIDE DEF low, high
<1>. QED  BY <1>1, <1>4, <1>5, <1>6, <1>7, <1>8, MaxTimeAssumption DEF Times
===============================================================================
