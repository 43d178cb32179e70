----------------------------- MODULE Provisioning -----------------------------
(***************************************************************************)
(* The creation of a store: manifest.db, the segment files and their       *)
(* headers, from an empty directory to the ready superblock                *)
(* (on9rstore_manifest.cpp, on9rstore_segment.cpp, on9rstore_io.cpp).  A   *)
(* power loss or an I/O error ends init() anywhere, also in the middle of  *)
(* a write, and the next init() resumes.  The superblock is the atomic     *)
(* register of module Checkpoint; "none" stands for no valid copy.         *)
(***************************************************************************)
EXTENDS Integers, FiniteSets, FiniteSetsExt

CONSTANTS
    SegmentCount,   \* CONFIG_ON9STORE_SPARSE_FILE_CNT
    MaxStops,       \* bound on the power losses and I/O errors of a run
    MaxStores,      \* bound on the times manifest.db is created
    Garbage         \* a header copy that is_segment_header_valid refuses

ASSUME SegmentCountAssumption == SegmentCount \in Nat /\ SegmentCount >= 2
ASSUME BoundAssumption == MaxStops \in Nat /\ MaxStores \in Nat

Slots  == 0 .. SegmentCount - 1
Copies == {0, 1}

VARIABLES
    \* On the medium.
    manifest,      \* does manifest.db exist with a size?
    superblock,    \* its newest valid superblock: store id and state
    names,         \* the slots whose segment file is in the directory
    files,         \* the slots whose segment file exists with a size
    headers,       \* the two header copies of a slot: store id and generation
    \* In memory.
    pc,            \* what init() does next
    slot,          \* the loop of provision_all_segments
    copy, target,  \* the loop of write_segment_headers
    active_found,
    \* Bounds.
    stores,        \* store ids drawn so far
    stops          \* interruptions so far

medium == <<manifest, superblock, names, files, headers>>
vars == <<medium, pc, slot, copy, target, active_found, stores, stops>>

NoSuperblock == [store |-> 0, state |-> "none"]
Header(g)    == [store |-> superblock.store, generation |-> g]

Init ==
    /\ manifest = FALSE
    /\ superblock = NoSuperblock
    /\ names = {} /\ files = {}
    /\ headers = [s \in Slots |-> [c \in Copies |-> Garbage]]
    /\ pc = "off" /\ slot = 0 /\ copy = 0 /\ target = 0
    /\ active_found = FALSE
    /\ stores = 0 /\ stops = 0

\* load_segment_header, for the store the manifest names.
Generations(s) ==
    {headers[s][c].generation :
        c \in {c \in Copies : headers[s][c] # Garbage /\ headers[s][c].store = superblock.store}}

-----------------------------------------------------------------------------
(* setup_manifest.                                                         *)

\* verify_new_store_namespace_empty: a data file counts by its name, whatever its size.
NamespaceUnchecked == TRUE
NamespaceEmpty == names = {}

\* create_manifest up to the file; the random store id is a fresh one.
CreateManifest ==
    /\ pc = "off" /\ ~manifest
    /\ NamespaceEmpty
    /\ stores < MaxStores
    /\ stores' = stores + 1
    /\ manifest' = TRUE
    /\ superblock' = NoSuperblock
    /\ pc' = "own"
    /\ UNCHANGED <<names, files, headers, slot, copy, target, active_found, stops>>

\* write_initial_manifest_copies: the first commit and the second.
Own(first) ==
    /\ pc = IF first THEN "own" ELSE "own_again"
    /\ superblock' = [store |-> stores, state |-> "owned"]
    /\ pc' = IF first THEN "own_again" ELSE "segment"
    /\ UNCHANGED <<manifest, names, files, headers, slot, copy, target, active_found, stores, stops>>

\* open_existing_manifest; a ready store is only validated.
OpenManifest ==
    /\ pc = "off" /\ manifest
    /\ superblock.state # "none"
    /\ pc' = IF superblock.state = "ready" THEN "done" ELSE "segment"
    /\ UNCHANGED <<medium, slot, copy, target, active_found, stores, stops>>

\* Every other init() returns ESP_ERR_INVALID_STATE.
RefuseOpen ==
    /\ pc = "off"
    /\ IF manifest THEN superblock.state = "none" ELSE ~NamespaceEmpty
    /\ UNCHANGED vars

-----------------------------------------------------------------------------
(* provision_all_segments.                                                 *)

WriteSecondHeader(g) == target' = g /\ copy' = 1 /\ pc' = "header"
WriteHeaders(g) == target' = g /\ copy' = 0 /\ pc' = "header"

\* provision_one_segment of a missing file: allocated, whatever it contains.
CreateSegment ==
    /\ pc = "segment" /\ slot \in Slots \ files
    /\ names' = names \cup {slot} /\ files' = files \cup {slot}
    /\ WriteHeaders(0)
    /\ UNCHANGED <<manifest, superblock, headers, slot, active_found, stores, stops>>

\* resume_provisioning_segment: unreadable and empty headers become empty.
ResumeEmpty ==
    /\ pc = "segment" /\ slot \in Slots \cap files
    /\ Generations(slot) \subseteq {0}
    /\ WriteHeaders(0)
    /\ UNCHANGED <<medium, slot, active_found, stores, stops>>

\* resume_provisioning_segment: generation 1 in slot 0 is kept.
IsFirstActive(s) == s = 0 /\ Generations(s) # {} /\ Max(Generations(s)) = 1
ResumeActive ==
    /\ pc = "segment" /\ slot \in Slots \cap files
    /\ IsFirstActive(slot) /\ ~active_found
    /\ active_found' = TRUE
    /\ WriteHeaders(1)
    /\ UNCHANGED <<medium, slot, stores, stops>>

\* finish_segment_provisioning before its commit.
ActivateFirst ==
    /\ pc = "segment" /\ slot = SegmentCount
    /\ IF active_found THEN pc' = "finish" /\ UNCHANGED <<target, copy>>
                       ELSE WriteHeaders(1)
    /\ UNCHANGED <<medium, slot, active_found, stores, stops>>

\* One round of write_segment_headers; activation writes to slot 0.
ProvisioningLate == slot <= SegmentCount
ProvisioningSlots == slot < SegmentCount
HeaderSlot == IF slot = SegmentCount THEN 0 ELSE slot
WriteHeader ==
    /\ pc = "header"
    /\ headers' = [headers EXCEPT ![HeaderSlot][copy] = Header(target)]
    /\ \/ /\ copy = 0
          /\ copy' = 1
          /\ UNCHANGED <<pc, slot>>
       \/ /\ copy = 1
          /\ ProvisioningSlots
          /\ slot' = slot + 1 /\ pc' = "segment"
          /\ UNCHANGED copy
       \/ /\ copy = 1
          /\ ~ProvisioningSlots
          /\ pc' = "finish"
          /\ UNCHANGED <<slot, copy>>
    /\ UNCHANGED <<manifest, superblock, names, files, target, active_found, stores, stops>>

\* The commit of finish_segment_provisioning.
FinishUncommitted ==
    /\ pc = "finish"
    /\ pc' = "done"
    /\ UNCHANGED <<medium, slot, copy, target, active_found, stores, stops>>
Finish ==
    /\ pc = "finish"
    /\ superblock' = [superblock EXCEPT !.state = "ready"]
    /\ pc' = "done"
    /\ UNCHANGED <<manifest, names, files, headers, slot, copy, target, active_found, stores, stops>>

-----------------------------------------------------------------------------
(* The environment.                                                        *)

Reset == pc' = "off" /\ slot' = 0 /\ copy' = 0 /\ target' = 0 /\ active_found' = FALSE

\* init() stops; the write in progress may have landed, torn or not, and the segment file
\* being created may be there, still empty.
Stop ==
    /\ pc # "off"
    /\ stops < MaxStops
    /\ stops' = stops + 1
    /\ Reset
    /\ \/ UNCHANGED medium
       \/ /\ pc = "own"
          /\ superblock' = [store |-> stores, state |-> "owned"]
          /\ UNCHANGED <<manifest, names, files, headers>>
       \/ /\ pc = "segment" /\ slot \in Slots \ files
          /\ names' = names \cup {slot}
          /\ UNCHANGED <<manifest, superblock, files, headers>>
       \/ /\ pc = "header"
          /\ \E new \in {Garbage, Header(target)} :
                 headers' = [headers EXCEPT ![HeaderSlot][copy] = new]
          /\ UNCHANGED <<manifest, superblock, names, files>>
       \/ /\ pc = "finish"
          /\ superblock' = [superblock EXCEPT !.state = "ready"]
          /\ UNCHANGED <<manifest, names, files, headers>>
    /\ UNCHANGED stores

Shutdown ==
    /\ pc = "done"
    /\ Reset
    /\ UNCHANGED <<medium, stores, stops>>

\* Someone removes manifest.db from the card.
LoseManifest ==
    /\ pc = "off" /\ manifest
    /\ stores < MaxStores
    /\ manifest' = FALSE
    /\ superblock' = NoSuperblock
    /\ UNCHANGED <<names, files, headers, pc, slot, copy, target, active_found, stores, stops>>

Provision ==
    \/ CreateManifest \/ Own(TRUE) \/ Own(FALSE) \/ OpenManifest
    \/ CreateSegment \/ ResumeEmpty \/ ResumeActive \/ ActivateFirst
    \/ WriteHeader \/ Finish

Next == Provision \/ RefuseOpen \/ Stop \/ Shutdown \/ LoseManifest

Spec == Init /\ [][Next]_vars

\* The device calls init() again after every reset, and init() runs on.
FairSpec == Spec /\ WF_vars(Provision)

-----------------------------------------------------------------------------
(* Properties.                                                             *)

HeaderType == [store : 0 .. MaxStores, generation : {0, 1}] \cup {Garbage}
TypeOK ==
    /\ manifest \in BOOLEAN
    /\ superblock \in [store : 0 .. MaxStores, state : {"none", "owned", "ready"}]
    /\ names \subseteq Slots /\ files \subseteq names
    /\ headers \in [Slots -> [Copies -> HeaderType]]
    /\ pc \in {"off", "own", "own_again", "segment", "header", "finish", "done"}
    /\ slot \in 0 .. SegmentCount
    /\ copy \in Copies /\ target \in {0, 1} /\ active_found \in BOOLEAN
    /\ stores \in 0 .. MaxStores /\ stops \in 0 .. MaxStops

\* However often provisioning was interrupted, a ready store is the one module
\* SegmentStore starts from: slot 0 active as generation 1, the others empty,
\* both header copies of each in place (finish_segment_provisioning,
\* segment.cpp:160).
ReadyIsProvisioned ==
    superblock.state = "ready" =>
        /\ files = Slots
        /\ \A s \in Slots, c \in Copies : headers[s][c] = Header(IF s = 0 THEN 1 ELSE 0)

\* A header another store wrote is never overwritten: losing manifest.db does
\* not cost the history (verify_new_store_namespace_empty, io.cpp:60;
\* README.md:46-51).
ForeignHeadersKept ==
    [][\A s \in Slots, c \in Copies :
          (headers'[s][c] # headers[s][c] /\ headers[s][c] # Garbage)
              => headers[s][c].store = superblock.store]_vars

\* Once one superblock is durable, provisioning finishes after any finite number
\* of interruptions (resume_provisioning_segment, segment.cpp:98).
ProvisioningResumes ==
    (manifest /\ superblock.state = "owned") ~> (superblock.state = "ready" \/ ~manifest)

\* Provisioning is resumable after each file creation (README.md:53).
CreationResumes == manifest ~> (superblock.state = "ready" \/ ~manifest)
=============================================================================
