-------------------------- MODULE ProvisioningProofs --------------------------
(***************************************************************************)
(* Whatever interruptions provisioning meets, a store that is marked ready *)
(* is complete; for any number of segments, stores and interruptions.      *)
(* Then the geometry of the segment files that provisioning creates: for   *)
(* every size and every sequence of payloads its regions stay apart, and   *)
(* the index has room for what the footer check expects.                   *)
(***************************************************************************)
EXTENDS Provisioning, Geometry, TLAPS

\* Both header copies of slot s carry generation g of this store.
Written(s, g) == s \in files /\ \A c \in Copies : headers[s][c] = Header(g)

\* The slots the loop has passed; slot 0 keeps generation 1 if it was found.
FirstGeneration == IF active_found THEN 1 ELSE 0
Prefix == \A s \in Slots : s < slot => Written(s, IF s = 0 THEN FirstGeneration ELSE 0)

Complete == \A s \in Slots : Written(s, IF s = 0 THEN 1 ELSE 0)

\* Where the loop is, what it has written.
Progress ==
    /\ pc \in {"segment", "header", "finish"} => superblock.state = "owned"
    /\ pc \in {"own", "own_again"} => superblock.state # "ready"
    /\ pc \in {"off", "own", "own_again"} => slot = 0 /\ ~active_found
    /\ pc = "segment" => Prefix /\ (active_found => slot > 0)
    /\ pc = "header" /\ slot < SegmentCount =>
           /\ Prefix /\ slot \in files
           /\ target = (IF slot = 0 THEN FirstGeneration ELSE 0)
           /\ copy = 1 => headers[slot][0] = Header(target)
    /\ pc = "header" /\ slot = SegmentCount =>
           /\ target = 1 /\ 0 \in files
           /\ \A s \in Slots : s > 0 => Written(s, 0)
           /\ copy = 1 => headers[0][0] = Header(1)
    /\ pc = "finish" \/ superblock.state = "ready" => Complete

\* The headers in the files come from the store the manifest names, once it names one.
Owned ==
    /\ pc \notin {"off", "done"} => manifest
    /\ pc = "own" => files = {} /\ superblock.state = "none"
    /\ pc = "own_again" => superblock = [store |-> stores, state |-> "owned"]
    /\ ~manifest => superblock.state = "none"
    /\ \A s \in Slots \ files, c \in Copies : headers[s][c] = Garbage
    /\ superblock.state # "none" =>
           \A s \in Slots, c \in Copies :
               headers[s][c] # Garbage => headers[s][c].store = superblock.store

IInv == TypeOK /\ Progress /\ Owned

USE SegmentCountAssumption, BoundAssumption
-----------------------------------------------------------------------------

LEMMA HeaderTyped ==
    ASSUME TypeOK, NEW g \in {0, 1}
    PROVE  Header(g) \in HeaderType
<1>1. superblock.store \in 0 .. MaxStores
  BY DEF TypeOK
<1> QED BY <1>1 DEF Header, HeaderType

LEMMA InitIInv == Init => IInv
<1> SUFFICES ASSUME Init PROVE IInv OBVIOUS
<1>1. TypeOK
  <2>1. manifest \in BOOLEAN /\ active_found \in BOOLEAN
    BY Zenon DEF Init
  <2>2. headers \in [Slots -> [Copies -> HeaderType]]
    BY DEF Init, HeaderType
  <2> QED BY <2>1, <2>2 DEF Init, TypeOK, NoSuperblock, Copies
<1> QED BY <1>1 DEF Init, IInv, Progress, Owned, NoSuperblock

\* The steps up to the loop, and all that leave the medium alone.
LEMMA SetupIInv ==
    ASSUME IInv, CreateManifest \/ Own(TRUE) \/ Own(FALSE) \/ OpenManifest
    PROVE  IInv'
<1>0. TypeOK
  BY DEF IInv
<1>1. CASE CreateManifest
  <2>1. TypeOK'
    BY <1>0, <1>1 DEF CreateManifest, TypeOK, NoSuperblock
  <2>2. Progress' /\ Owned'
    BY <1>1 DEF CreateManifest, IInv, TypeOK, Progress, Owned, NoSuperblock, NamespaceEmpty
  <2> QED BY <2>1, <2>2 DEF IInv
<1>2. CASE Own(TRUE) \/ Own(FALSE)
  <2>1. /\ superblock' = [store |-> stores, state |-> "owned"]
        /\ pc \in {"own", "own_again"} /\ pc' \in {"own_again", "segment"}
        /\ UNCHANGED <<manifest, names, files, headers, slot, copy, target, active_found, stores, stops>>
    BY <1>2 DEF Own
  <2>2. TypeOK'
    BY <1>0, <2>1 DEF TypeOK
  <2>3. Owned'
    BY <2>1 DEF IInv, Owned
  <2>4. slot = 0 /\ ~active_found
    BY <2>1 DEF IInv, Progress
  <2>5. Progress'
    BY <2>1, <2>4 DEF Progress, Prefix, Slots
  <2> QED BY <2>2, <2>3, <2>5 DEF IInv
<1>3. CASE OpenManifest
  <2>1. TypeOK'
    BY <1>0, <1>3 DEF OpenManifest, TypeOK, medium
  <2>2. Owned'
    BY <1>3 DEF OpenManifest, IInv, Owned, medium
  <2>3. superblock.state \in {"owned", "ready"} /\ slot = 0 /\ ~active_found
    BY <1>0, <1>3 DEF OpenManifest, IInv, Progress, TypeOK
  <2>4. Progress'
    BY <1>3, <2>3 DEF OpenManifest, IInv, Progress, Prefix, Slots, Complete, Written, Header, medium
  <2> QED BY <2>1, <2>2, <2>4 DEF IInv
<1> QED BY <1>1, <1>2, <1>3

\* The loop hands a slot to write_segment_headers.
LEMMA SegmentIInv ==
    ASSUME IInv, CreateSegment \/ ResumeEmpty \/ ResumeActive \/ ActivateFirst
    PROVE  IInv'
<1>0. TypeOK /\ slot \in 0 .. SegmentCount /\ pc = "segment" /\ superblock.state = "owned" /\ Prefix
      /\ (active_found => slot > 0) /\ manifest
  BY DEF IInv, TypeOK, Progress, Owned, CreateSegment, ResumeEmpty, ResumeActive, ActivateFirst
<1>1. CASE CreateSegment \/ ResumeEmpty
  <2>1. /\ slot \in Slots /\ files' = files \cup {slot} /\ names' = names \cup {slot}
        /\ target' = 0 /\ copy' = 0 /\ pc' = "header"
        /\ UNCHANGED <<manifest, superblock, headers, slot, active_found, stores, stops>>
    BY <1>0, <1>1 DEF CreateSegment, ResumeEmpty, WriteHeaders, medium, TypeOK
  <2>2. TypeOK'
    BY <1>0, <2>1 DEF TypeOK, Copies
  <2>3. Owned'
    BY <1>0, <2>1 DEF IInv, Owned
  <2>4. slot < SegmentCount
    BY <2>1 DEF Slots
  <2>5. Prefix'
    BY <1>0, <2>1 DEF Prefix, Written, Header, FirstGeneration
  <2>6. Progress'
    BY <1>0, <2>1, <2>4, <2>5 DEF Progress, FirstGeneration
  <2> QED BY <2>2, <2>3, <2>6 DEF IInv
<1>2. CASE ResumeActive
  <2>1. /\ slot = 0 /\ slot \in files /\ active_found' = TRUE
        /\ target' = 1 /\ copy' = 0 /\ pc' = "header"
        /\ UNCHANGED <<manifest, superblock, names, files, headers, slot, stores, stops>>
    BY <1>2 DEF ResumeActive, IsFirstActive, WriteHeaders, medium
  <2>2. TypeOK'
    BY <1>0, <2>1 DEF TypeOK, Copies
  <2>3. Owned'
    BY <1>0, <2>1 DEF IInv, Owned
  <2>4. Progress'
    BY <1>0, <2>1 DEF Progress, Prefix, Slots, FirstGeneration
  <2> QED BY <2>2, <2>3, <2>4 DEF IInv
<1>3. CASE ActivateFirst
  <2>1. /\ slot = SegmentCount
        /\ UNCHANGED <<manifest, superblock, names, files, headers, slot, active_found, stores, stops>>
        /\ IF active_found THEN pc' = "finish" /\ UNCHANGED <<target, copy>>
                           ELSE target' = 1 /\ copy' = 0 /\ pc' = "header"
    BY <1>3 DEF ActivateFirst, WriteHeaders, medium
  <2>2. TypeOK'
    BY <1>0, <2>1 DEF TypeOK, Copies
  <2>3. Owned'
    BY <1>0, <2>1 DEF IInv, Owned
  <2>4. \A s \in Slots : Written(s, IF s = 0 THEN FirstGeneration ELSE 0)
    BY <1>0, <2>1 DEF Prefix, Slots
  <2>5. 0 \in Slots /\ 0 \in files
    BY <2>4 DEF Slots, Written
  <2>6. CASE active_found
    <3>1. pc' = "finish"
      BY <2>1, <2>6
    <3>2. FirstGeneration = 1
      BY <2>6 DEF FirstGeneration
    <3>3. Complete
      BY <2>4, <3>2 DEF Complete
    <3>4. Complete'
      BY <2>1, <3>3 DEF Complete, Written, Header
    <3>5. superblock'.state = "owned" /\ slot' = SegmentCount
      BY <1>0, <2>1
    <3> QED BY <2>2, <2>3, <3>1, <3>4, <3>5 DEF IInv, Progress
  <2>7. CASE ~active_found
    <3>1. target' = 1 /\ copy' = 0 /\ pc' = "header"
      BY <2>1, <2>7
    <3>2. \A s \in Slots : s > 0 => Written(s, 0)
      BY <2>4 DEF Slots
    <3>3. (\A s \in Slots : s > 0 => Written(s, 0))'
      BY <2>1, <3>2 DEF Written, Header
    <3>4. superblock'.state = "owned" /\ slot' = SegmentCount /\ 0 \in files'
      BY <1>0, <2>1, <2>5
    <3> QED BY <2>2, <2>3, <3>1, <3>3, <3>4 DEF IInv, Progress
  <2> QED BY <2>6, <2>7
<1> QED BY <1>1, <1>2, <1>3

\* What one header write, whole or torn, does to the medium.
LEMMA HeaderWrite ==
    ASSUME IInv, pc = "header", NEW new \in {Garbage, Header(target)},
           headers' = [headers EXCEPT ![HeaderSlot][copy] = new]
    PROVE  /\ HeaderSlot \in Slots /\ HeaderSlot \in files
           /\ headers' \in [Slots -> [Copies -> HeaderType]]
           /\ headers'[HeaderSlot][copy] = new
           /\ \A s \in Slots, c \in Copies :
                  (s # HeaderSlot \/ c # copy) => headers'[s][c] = headers[s][c]
<1>1. TypeOK /\ target \in {0, 1} /\ copy \in Copies /\ slot \in 0 .. SegmentCount
      /\ headers \in [Slots -> [Copies -> HeaderType]]
  BY DEF IInv, TypeOK
<1>2. HeaderSlot \in Slots /\ HeaderSlot \in files
  BY <1>1 DEF HeaderSlot, Slots, IInv, Progress
<1>3. new \in HeaderType
  BY <1>1, HeaderTyped DEF HeaderType
<1> QED BY <1>1, <1>2, <1>3

LEMMA WriteHeaderIInv ==
    ASSUME IInv, WriteHeader PROVE IInv'
<1>0. /\ TypeOK /\ slot \in 0 .. SegmentCount /\ pc = "header" /\ copy \in {0, 1} /\ target \in {0, 1}
      /\ superblock.state = "owned" /\ manifest
      /\ UNCHANGED <<manifest, superblock, names, files, target, active_found, stores, stops>>
  BY DEF IInv, TypeOK, Progress, Owned, WriteHeader, Copies
<1>1. /\ HeaderSlot \in Slots /\ HeaderSlot \in files
      /\ headers' \in [Slots -> [Copies -> HeaderType]]
      /\ headers'[HeaderSlot][copy] = Header(target)
      /\ \A s \in Slots, c \in Copies :
             (s # HeaderSlot \/ c # copy) => headers'[s][c] = headers[s][c]
  BY <1>0, HeaderWrite DEF WriteHeader
<1>2. Owned'
  <2>1. pc' # "own" /\ pc' # "own_again"
    BY <1>0 DEF WriteHeader
  <2>2. \A s \in Slots \ files, c \in Copies : headers'[s][c] = Garbage
    BY <1>1 DEF IInv, Owned
  <2>3. Header(target).store = superblock.store
    BY DEF Header
  <2>4. \A s \in Slots, c \in Copies :
           headers'[s][c] # Garbage => headers'[s][c].store = superblock.store
    BY <1>0, <1>1, <2>3 DEF IInv, Owned
  <2> QED BY <1>0, <2>1, <2>2, <2>4 DEF Owned
<1>3. CASE copy = 0
  <2>1. copy' = 1 /\ pc' = pc /\ slot' = slot
    BY <1>3 DEF WriteHeader
  <2>2. TypeOK'
    BY <1>0, <1>1, <2>1 DEF TypeOK, Copies
  <2>3. CASE slot < SegmentCount
    <3>1. HeaderSlot = slot
      BY <2>3 DEF HeaderSlot
    <3>2. Prefix'
      BY <1>0, <1>1, <2>1, <2>3, <3>1 DEF IInv, Progress, Prefix, Written, Header, FirstGeneration
    <3> QED BY <1>0, <1>1, <1>2, <1>3, <2>1, <2>2, <2>3, <3>1, <3>2
            DEF IInv, Progress, Header, FirstGeneration
  <2>4. CASE slot = SegmentCount
    <3>1. HeaderSlot = 0
      BY <2>4 DEF HeaderSlot
    <3>2. (\A s \in Slots : s > 0 => Written(s, 0))'
      BY <1>0, <1>1, <2>1, <2>4, <3>1 DEF IInv, Progress, Written, Header
    <3> QED BY <1>0, <1>1, <1>2, <1>3, <2>1, <2>2, <2>4, <3>1, <3>2 DEF IInv, Progress, Header
  <2> QED BY <1>0, <2>3, <2>4
<1>4. CASE copy = 1 /\ slot < SegmentCount
  <2>1. slot' = slot + 1 /\ pc' = "segment" /\ copy' = copy /\ HeaderSlot = slot
    BY <1>0, <1>4 DEF WriteHeader, ProvisioningSlots, HeaderSlot
  <2>2. TypeOK'
    BY <1>0, <1>1, <1>4, <2>1 DEF TypeOK, Copies
  <2>3. slot \in files /\ \A c \in Copies : headers'[slot][c] = Header(target)
    <3>1. headers[slot][0] = Header(target)
      BY <1>0, <1>4 DEF IInv, Progress
    <3> QED BY <1>1, <1>4, <2>1, <3>1 DEF Copies
  <2>4. target = IF slot = 0 THEN FirstGeneration ELSE 0
    BY <1>0, <1>4 DEF IInv, Progress
  <2>5. \A s \in Slots : s < slot + 1 => s < slot \/ s = slot
    BY <1>0 DEF Slots
  <2>6. Prefix'
    <3>1. FirstGeneration' = FirstGeneration /\ \A g : Header(g)' = Header(g)
      BY <1>0 DEF FirstGeneration, Header
    <3>2. \A s \in Slots, c \in Copies : s # slot => headers'[s][c] = headers[s][c]
      BY <1>1, <2>1
    <3>3. \A s \in Slots : s < slot =>
             s \in files /\ \A c \in Copies :
                 headers'[s][c] = Header(IF s = 0 THEN FirstGeneration ELSE 0)
      BY <1>0, <1>4, <3>2 DEF IInv, Progress, Prefix, Written, Slots
    <3>4. \A s \in Slots : s < slot + 1 =>
             s \in files /\ \A c \in Copies :
                 headers'[s][c] = Header(IF s = 0 THEN FirstGeneration ELSE 0)
      BY <2>3, <2>4, <2>5, <3>3
    <3> QED BY <1>0, <2>1, <3>1, <3>4 DEF Prefix, Written
  <2> QED BY <1>0, <1>2, <2>1, <2>2, <2>6 DEF IInv, Progress
<1>5. CASE copy = 1 /\ slot = SegmentCount
  <2>1. slot' = slot /\ pc' = "finish" /\ copy' = copy /\ HeaderSlot = 0
    BY <1>0, <1>5 DEF WriteHeader, ProvisioningSlots, HeaderSlot
  <2>2. TypeOK'
    BY <1>0, <1>1, <1>5, <2>1 DEF TypeOK, Copies
  <2>3. Written(0, 1)'
    BY <1>0, <1>1, <1>5, <2>1 DEF IInv, Progress, Written, Header, Copies
  <2>4. \A s \in Slots : s > 0 => Written(s, 0)'
    BY <1>0, <1>1, <1>5, <2>1 DEF IInv, Progress, Written, Header
  <2>5. \A s \in Slots : s = 0 \/ s > 0
    BY DEF Slots
  <2>6. Complete'
    BY <2>3, <2>4, <2>5 DEF Complete, Written, Header
  <2> QED BY <1>0, <1>2, <2>1, <2>2, <2>6 DEF IInv, Progress
<1> QED BY <1>0, <1>3, <1>4, <1>5

LEMMA FinishIInv ==
    ASSUME IInv, Finish PROVE IInv'
<1>0. TypeOK /\ Complete /\ manifest /\ superblock.state = "owned"
  BY DEF IInv, Progress, Owned, Finish
<1>1. TypeOK'
  BY <1>0 DEF Finish, TypeOK
<1>2. superblock'.store = superblock.store /\ superblock'.state = "ready"
  BY <1>0 DEF Finish, TypeOK
<1>3. Complete'
  BY <1>0, <1>2 DEF Finish, Complete, Written, Header
<1> QED BY <1>0, <1>1, <1>2, <1>3 DEF Finish, IInv, Progress, Owned

\* Wherever init() stops, the next one finds a state it can go on from.
LEMMA StopIInv ==
    ASSUME IInv, Stop PROVE IInv'
<1>0. /\ TypeOK /\ pc' = "off" /\ slot' = 0 /\ copy' = 0 /\ target' = 0 /\ active_found' = FALSE
      /\ stops' \in 0 .. MaxStops /\ stores' = stores
  BY DEF IInv, TypeOK, Stop, Reset
<1>9. active_found' \in BOOLEAN
  BY <1>0, Zenon
<1>1. CASE UNCHANGED medium
  <2>1. TypeOK'
    BY <1>0, <1>9, <1>1 DEF TypeOK, medium, Copies
  <2> QED BY <1>0, <1>1, <2>1 DEF IInv, Progress, Owned, Complete, Written, Header, medium
<1>2. CASE pc = "own" /\ superblock' = [store |-> stores, state |-> "owned"]
           /\ UNCHANGED <<manifest, names, files, headers>>
  <2>1. TypeOK'
    BY <1>0, <1>9, <1>2 DEF TypeOK, Copies
  <2> QED BY <1>0, <1>2, <2>1 DEF IInv, Progress, Owned
<1>3. CASE /\ pc = "header" /\ UNCHANGED <<manifest, superblock, names, files>>
           /\ \E new \in {Garbage, Header(target)} :
                  headers' = [headers EXCEPT ![HeaderSlot][copy] = new]
  <2>1. PICK new \in {Garbage, Header(target)} :
           headers' = [headers EXCEPT ![HeaderSlot][copy] = new]
    BY <1>3
  <2>2. /\ HeaderSlot \in Slots /\ HeaderSlot \in files
        /\ headers' \in [Slots -> [Copies -> HeaderType]]
        /\ headers'[HeaderSlot][copy] = new
        /\ \A s \in Slots, c \in Copies :
               (s # HeaderSlot \/ c # copy) => headers'[s][c] = headers[s][c]
    BY <1>3, <2>1, HeaderWrite
  <2>3. TypeOK'
    BY <1>0, <1>9, <1>3, <2>2 DEF TypeOK, Copies
  <2>4. superblock.state = "owned" /\ manifest
    BY <1>3 DEF IInv, Progress, Owned
  <2>5. new # Garbage => new.store = superblock.store
    BY DEF Header
  <2>6. Owned'
    BY <1>0, <1>3, <2>2, <2>4, <2>5 DEF IInv, Owned
  <2> QED BY <1>0, <1>3, <2>3, <2>4, <2>6 DEF IInv, Progress
<1>4. CASE pc = "finish" /\ superblock' = [superblock EXCEPT !.state = "ready"]
           /\ UNCHANGED <<manifest, names, files, headers>>
  <2>1. TypeOK'
    BY <1>0, <1>9, <1>4 DEF TypeOK, Copies
  <2>2. superblock'.store = superblock.store /\ superblock'.state = "ready" /\ Complete /\ manifest
        /\ superblock.state = "owned"
    BY <1>0, <1>4 DEF TypeOK, IInv, Progress, Owned
  <2>3. Complete'
    BY <1>4, <2>2 DEF Complete, Written, Header
  <2> QED BY <1>0, <1>4, <2>1, <2>2, <2>3 DEF IInv, Progress, Owned
<1>5. CASE pc = "segment" /\ slot \in Slots \ files /\ names' = names \cup {slot}
           /\ UNCHANGED <<manifest, superblock, files, headers>>
  <2>1. TypeOK'
    BY <1>0, <1>9, <1>5 DEF TypeOK, Copies
  <2>2. superblock.state = "owned" /\ manifest
    BY <1>5 DEF IInv, Progress, Owned
  <2> QED BY <1>0, <1>5, <2>1, <2>2 DEF IInv, Progress, Owned
<1> QED BY <1>1, <1>2, <1>3, <1>4, <1>5 DEF Stop

LEMMA RestIInv ==
    ASSUME IInv, Shutdown \/ LoseManifest \/ UNCHANGED vars PROVE IInv'
<1>0. TypeOK
  BY DEF IInv
<1>1. CASE Shutdown
  <2>0. active_found' \in BOOLEAN
    BY <1>1, Zenon DEF Shutdown, Reset
  <2>1. TypeOK'
    BY <1>0, <1>1, <2>0 DEF Shutdown, Reset, TypeOK, medium, Copies
  <2> QED BY <1>1, <2>1 DEF Shutdown, Reset, IInv, Progress, Owned, Complete, Written, Header, medium
<1>2. CASE LoseManifest
  <2>0. manifest' \in BOOLEAN
    BY <1>2, Zenon DEF LoseManifest
  <2>1. TypeOK'
    BY <1>0, <1>2, <2>0 DEF LoseManifest, TypeOK, NoSuperblock
  <2> QED BY <1>2, <2>1 DEF LoseManifest, IInv, Progress, Owned, NoSuperblock
<1>3. CASE UNCHANGED vars
  <2>1. TypeOK'
    BY <1>0, <1>3 DEF vars, medium, TypeOK
  <2> QED BY <1>3, <2>1 DEF vars, medium, IInv, Progress, Owned, Prefix, Complete, Written, Header,
                            FirstGeneration
<1> QED BY <1>1, <1>2, <1>3

LEMMA NextIInv == IInv /\ [Next]_vars => IInv'
<1>1. RefuseOpen => UNCHANGED vars
  BY DEF RefuseOpen
<1> QED BY <1>1, SetupIInv, SegmentIInv, WriteHeaderIInv, FinishIInv, StopIInv, RestIInv
        DEF Next, Provision

LEMMA Inductive == Spec => []IInv
  BY InitIInv, NextIInv, PTL DEF Spec
-----------------------------------------------------------------------------

\* Provisioning stays typed.
THEOREM TypeCorrect == Spec => []TypeOK
<1>1. IInv => TypeOK
  BY DEF IInv
<1> QED BY <1>1, Inductive, PTL

\* A ready superblock means a complete store, whatever interruptions came before
\* (finish_segment_provisioning, segment.cpp:160).
THEOREM ReadyIsComplete == Spec => []ReadyIsProvisioned
<1>1. IInv => ReadyIsProvisioned
  BY DEF IInv, TypeOK, Progress, Complete, Written, ReadyIsProvisioned
<1> QED BY <1>1, Inductive, PTL

\* No header of another store is ever overwritten (io.cpp:60).
THEOREM ForeignKept == Spec => ForeignHeadersKept
<1> DEFINE Kept == \A s \in Slots, c \in Copies :
                      (headers'[s][c] # headers[s][c] /\ headers[s][c] # Garbage)
                          => headers[s][c].store = superblock.store
<1>1. IInv /\ [Next]_vars => [Kept]_vars
  <2> SUFFICES ASSUME IInv, Next PROVE Kept
    OBVIOUS
  <2>1. CASE pc \in {"header"}
    BY <2>1 DEF IInv, Progress, Owned
  <2>2. CASE pc \notin {"header"}
    <3>1. headers' = headers
      BY <2>2 DEF Next, Provision, CreateManifest, Own, OpenManifest, CreateSegment, ResumeEmpty,
                  ResumeActive, ActivateFirst, WriteHeader, Finish, RefuseOpen, Stop, Shutdown,
                  LoseManifest, vars, medium
    <3> QED BY <3>1
  <2> QED BY <2>1, <2>2
<1> QED BY <1>1, Inductive, PTL DEF Spec, ForeignHeadersKept

-----------------------------------------------------------------------------
(* Geometry.                                                               *)

\* What align_up returns for the two alignments in use.
LEMMA AlignUpBounds ==
    ASSUME NEW val \in Nat
    PROVE  /\ AlignUp(val, 4) \in Nat /\ val <= AlignUp(val, 4)
           /\ AlignUp(val, 4096) \in Nat /\ val <= AlignUp(val, 4096)
  BY DEF AlignUp

\* An entry is never smaller than min_entry_size, which is 44 bytes.
LEMMA EntrySizeBounds ==
    /\ MinEntrySize = 44
    /\ \A len \in Nat : EntrySize(len) \in Nat /\ EntrySize(len) >= 44
<1>1. MinEntrySize = 44
  BY DEF MinEntrySize, EntrySize, AlignUp
<1>2. ASSUME NEW len \in Nat PROVE EntrySize(len) \in Nat /\ EntrySize(len) >= 44
  BY AlignUpBounds, 40 + len + 4 \in Nat DEF EntrySize
<1> QED BY <1>1, <1>2

\* The regions of a valid segment, and that its data area holds fewer entries than
\* the index has room for: max_entries counts the index region as data, too.
LEMMA Layout ==
    ASSUME NEW s \in Nat, Valid(s)
    PROVE  /\ IndexCapacity(s) \in Nat \ {0} /\ IndexSize(s) \in Nat
           /\ IndexCapacity(s) * 24 <= IndexSize(s)
           /\ FooterStart(s) \in Nat /\ DataEnd(s) \in Nat
           /\ DataStart = 8192 /\ DataStart < DataEnd(s)
           /\ IndexStart(s) = DataEnd(s)
           /\ DataEnd(s) + IndexSize(s) = FooterStart(s)
           /\ \A n \in Nat : 44 * (n + 1) <= DataEnd(s) - DataStart => n \div 64 < IndexCapacity(s)
<1> DEFINE m == Available(s) \div 44
           c == m \div 64 + 1
<1>1. Available(s) \in Nat /\ Available(s) = s - 16384
  BY DEF Valid, Available, HeaderRegion, FooterRegion
<1>2. m \in Nat /\ 44 * m <= Available(s) /\ Available(s) < 44 * m + 44
  BY <1>1
<1>3. c \in Nat \ {0} /\ m < 64 * c
  BY <1>2
<1>4. IndexCapacity(s) = c
  BY EntrySizeBounds DEF IndexCapacity, Stride
<1>5. IndexSize(s) \in Nat /\ c * 24 <= IndexSize(s)
  BY <1>3, <1>4, AlignUpBounds, c * 24 \in Nat DEF IndexSize, IndexItem, SlotSize
<1>6. /\ FooterStart(s) = s - 8192 /\ DataStart = 8192
      /\ DataEnd(s) = s - 8192 - IndexSize(s) /\ IndexStart(s) = DataEnd(s)
  BY DEF FooterStart, DataStart, DataEnd, IndexStart, FooterRegion, HeaderRegion
<1>7. DataEnd(s) > DataStart + 44
  BY EntrySizeBounds DEF Valid
<1>8. ASSUME NEW n \in Nat, 44 * (n + 1) <= DataEnd(s) - DataStart
      PROVE  n \div 64 < c
  <2>1. 44 * (n + 1) <= Available(s)
    BY <1>1, <1>5, <1>6, <1>8
  <2>2. n < m
    <3> HIDE DEF m
    <3> QED BY <2>1, <1>1, <1>2
  <2>3. n < 64 * c
    BY <2>2, <1>2, <1>3
  <2> HIDE DEF c
  <2>4. c \in Nat
    BY <1>3
  <2> QED BY <2>3, <2>4
<1> HIDE DEF c
<1> QED BY <1>1, <1>3, <1>4, <1>5, <1>6, <1>7, <1>8
-----------------------------------------------------------------------------

\* Every entry takes at least 44 bytes of the data area, and there is an index item for
\* every 64 entries begun.
LayoutInv ==
    /\ size \in SegmentSizes /\ Valid(size)
    /\ write_offset \in Nat /\ entry_count \in Nat /\ index_count \in Nat
    /\ write_offset <= DataEnd(size)
    /\ DataStart + 44 * entry_count <= write_offset
    /\ index_count = (entry_count + 63) \div 64
    /\ entry_count = 0 => write_offset = DataStart

LEMMA InitLayout == LayoutInit => LayoutInv
<1> SUFFICES ASSUME LayoutInit PROVE LayoutInv OBVIOUS
<1>1. size \in Nat /\ size \in SegmentSizes /\ Valid(size)
  BY SizeAssumption DEF LayoutInit
<1> QED BY <1>1, Layout DEF LayoutInit, LayoutInv

LEMMA NextLayout == LayoutInv /\ [LayoutNext]_layout => LayoutInv'
<1> SUFFICES ASSUME LayoutInv, [LayoutNext]_layout PROVE LayoutInv' OBVIOUS
<1>1. size \in Nat /\ size \in SegmentSizes /\ Valid(size)
  BY SizeAssumption DEF LayoutInv
<1>2. CASE Append
  <2>1. PICK len \in Payloads : HasSpace(EntrySize(len)) /\ Account(EntrySize(len))
    BY <1>2 DEF Append
  <2>2. EntrySize(len) \in Nat /\ EntrySize(len) >= 44
    BY PayloadAssumption, EntrySizeBounds
  <2>3. write_offset' = write_offset + EntrySize(len) /\ entry_count' = entry_count + 1 /\ size' = size
    BY <2>1 DEF Account
  <2>4. DataEnd(size) \in Nat /\ DataStart = 8192
    BY <1>1, Layout
  <2>5. write_offset' <= DataEnd(size) /\ DataStart + 44 * (entry_count + 1) <= write_offset'
    BY <2>1, <2>2, <2>3, <2>4 DEF HasSpace, LayoutInv
  <2>6. 44 * (entry_count + 1) <= DataEnd(size) - DataStart
    BY <2>3, <2>4, <2>5, <2>2 DEF LayoutInv
  <2>7. entry_count \div 64 < IndexCapacity(size)
    BY <2>6, <1>1, Layout DEF LayoutInv
  <2>8. IndexesNext => index_count < IndexCapacity(size)
    <3>1. SUFFICES ASSUME IndexesNext PROVE index_count = entry_count \div 64
      BY <2>7
    <3> QED BY <3>1 DEF IndexesNext, Stride, LayoutInv
  <2>9. index_count' = IF entry_count % 64 = 0 THEN index_count + 1 ELSE index_count
    BY <2>1, <2>8 DEF Account, IndexesNext, Stride
  <2>10. index_count' = (entry_count' + 63) \div 64
    BY <2>3, <2>9 DEF LayoutInv
  <2> QED BY <1>1, <2>2, <2>3, <2>4, <2>5, <2>10 DEF LayoutInv
<1>3. CASE Rotate
  BY <1>1, <1>3, Layout DEF Rotate, LayoutInv
<1>4. CASE UNCHANGED layout
  BY <1>4 DEF layout, LayoutInv
<1> QED BY <1>2, <1>3, <1>4 DEF LayoutNext

LEMMA LayoutInductive == LayoutSpec => []LayoutInv
  BY InitLayout, NextLayout, PTL DEF LayoutSpec

\* The counters stay in their ranges: no item is lost for want of room in the index and
\* no offset leaves the file.
LEMMA LayoutType == LayoutInv => LayoutTypeOK
<1> SUFFICES ASSUME LayoutInv PROVE LayoutTypeOK OBVIOUS
<1>1. size \in Nat /\ Valid(size)
  BY SizeAssumption DEF LayoutInv
<1>2. index_count <= IndexCapacity(size)
  <2>1. CASE entry_count = 0
    BY <2>1, <1>1, Layout DEF LayoutInv
  <2>2. CASE entry_count # 0
    <3>1. entry_count - 1 \in Nat /\ DataEnd(size) \in Nat /\ DataStart = 8192
      BY <2>2, <1>1, Layout DEF LayoutInv
    <3>2. 44 * ((entry_count - 1) + 1) <= DataEnd(size) - DataStart
      BY <3>1 DEF LayoutInv
    <3>3. (entry_count - 1) \div 64 < IndexCapacity(size)
      BY <3>1, <3>2, <1>1, Layout
    <3>4. index_count = (entry_count - 1) \div 64 + 1
      BY <2>2 DEF LayoutInv
    <3> QED BY <3>1, <3>3, <3>4, <1>1, Layout
  <2> QED BY <2>1, <2>2
<1> QED BY <1>1, <1>2, Layout DEF LayoutInv, LayoutTypeOK

\* Offsets and counts stay in their ranges, whatever is appended (segment.cpp:9).
THEOREM LayoutTypeCorrect == LayoutSpec => []LayoutTypeOK
  BY LayoutInductive, LayoutType, PTL

\* Entries, index and footers keep to their regions (segment.cpp:9).
THEOREM RegionsApart == LayoutSpec => []RegionsDisjoint
<1>1. LayoutInv => RegionsDisjoint
  <2> SUFFICES ASSUME LayoutInv PROVE RegionsDisjoint OBVIOUS
  <2>1. size \in Nat /\ Valid(size)
    BY SizeAssumption DEF LayoutInv
  <2>2. index_count \in Nat /\ index_count <= IndexCapacity(size)
    BY LayoutType DEF LayoutTypeOK, LayoutInv
  <2>3. index_count * 24 <= IndexSize(size)
    BY <2>1, <2>2, Layout
  <2> QED BY <2>1, <2>2, <2>3, Layout DEF LayoutInv, RegionsDisjoint, IndexItem
<1> QED BY <1>1, LayoutInductive, PTL

\* A segment can be sealed at any moment: the footer check of recovery accepts the
\* counts that the appends kept (segment.cpp:266-271).
THEOREM SealAccepted == LayoutSpec => []FooterAccepted
<1>1. LayoutInv => FooterAccepted
  BY DEF LayoutInv, FooterAccepted, Stride
<1> QED BY <1>1, LayoutInductive, PTL
===============================================================================
