--------------------------------- MODULE Locks ---------------------------------
(***************************************************************************)
(* The three FreeRTOS mutexes of the store and the operations that tasks   *)
(* run under them: lifecycle_lock, then write_lock, then read_lock.        *)
(* What an operation does to the ring of segments is reduced to what       *)
(* another task can notice of it: which generation a slot's file holds and *)
(* how many entries of it, the copies a reader takes, and whether the      *)
(* storage is open at all.  The mutexes exist before the first operation.  *)
(***************************************************************************)
EXTENDS Integers

CONSTANTS
    Tasks,          \* the tasks that share one store
    Free,           \* the holder of a free mutex
    SegmentCount,   \* CONFIG_ON9STORE_SPARSE_FILE_CNT
    Capacity,       \* entries a segment takes
    MaxGeneration,  \* bound on the segment generations of a run
    MaxCalls        \* bound on the operations of a run

ASSUME FreeAssumption == Free \notin Tasks
ASSUME SegmentCountAssumption == SegmentCount \in Nat /\ SegmentCount >= 2
ASSUME CapacityAssumption == Capacity \in Nat \ {0}
ASSUME BoundAssumption == MaxGeneration \in Nat /\ MaxCalls \in Nat

Slots      == 0 .. SegmentCount - 1
Mutexes    == {"lifecycle", "write", "read"}
Operations == {"append", "query", "anchor", "read", "init", "deinit"}
NoOperation == "none"

VARIABLES
    holder,         \* the task that holds a mutex, or Free
    initialized,
    shutting_down,
    opened,         \* the runtime buffers exist and the files are open
    file,           \* what the file of a slot holds: generation, entries
    segments,       \* segment_descriptor per slot
    active_slot,
    write_buf,      \* entries of the active segment that are not in its file
    anchors,        \* the anchor catalog: "whole" or, in the middle of a change, "half"
    read_segments,  \* the reader's copies: segments, active slot and write_buf
    read_active,
    read_buf,
    op,             \* the operation a task is in
    pc,             \* and where in it
    calls           \* operations called so far

storage == <<file, segments, active_slot, write_buf, anchors>>
copies  == <<read_segments, read_active, read_buf>>
flags   == <<initialized, shutting_down, opened>>
vars    == <<holder, flags, storage, copies, op, pc, calls>>

Empty == [generation |-> 0, entries |-> 0]

At(t, label)  == pc[t] = label
Go(t, label)  == pc' = [pc EXCEPT ![t] = label] /\ UNCHANGED <<op, calls>>
Return(t)     == /\ pc' = [pc EXCEPT ![t] = "idle"]
                 /\ op' = [op EXCEPT ![t] = NoOperation]
                 /\ UNCHANGED calls

Take(t, m) == holder[m] = Free /\ holder' = [holder EXCEPT ![m] = t]
Give(m)    == holder' = [holder EXCEPT ![m] = Free]

\* A closed store whose ring is full, the active segment with or without room.
Init ==
    /\ holder = [m \in Mutexes |-> Free]
    /\ initialized = FALSE /\ shutting_down = FALSE /\ opened = FALSE
    /\ \E n \in 0 .. Capacity :
           file = [s \in Slots |-> [generation |-> s + 1,
                                   entries |-> IF s = SegmentCount - 1 THEN n ELSE Capacity]]
    /\ segments = [s \in Slots |-> Empty]
    /\ active_slot = 0
    /\ write_buf = 0
    /\ anchors = "whole"
    /\ read_segments = [s \in Slots |-> Empty]
    /\ read_active = 0
    /\ read_buf = 0
    /\ op = [t \in Tasks |-> NoOperation]
    /\ pc = [t \in Tasks |-> "idle"]
    /\ calls = 0

-----------------------------------------------------------------------------
(* Entering and leaving an operation.                                      *)

Call(t) ==
    /\ At(t, "idle")
    /\ calls < MaxCalls
    /\ \E kind \in Operations : op' = [op EXCEPT ![t] = kind]
    /\ pc' = [pc EXCEPT ![t] = "lifecycle"]
    /\ calls' = calls + 1
    /\ UNCHANGED <<holder, flags, storage, copies>>

TakeLifecycle(t) ==
    /\ At(t, "lifecycle")
    /\ Take(t, "lifecycle")
    /\ Go(t, "check")
    /\ UNCHANGED <<flags, storage, copies>>

\* init() wants a closed store, every other operation an initialised one.
MayRun(t) == IF op[t] = "init" THEN ~initialized /\ ~shutting_down
             ELSE initialized /\ (op[t] = "deinit" \/ ~shutting_down)
ReadSkipsWrite(t) == CASE op[t] = "init" -> "open"
                       [] op[t] = "deinit" -> "shut"
                       [] op[t] = "read" -> "read"
                       [] OTHER -> "write"
AfterCheck(t) == CASE op[t] = "init" -> "open"
                   [] op[t] = "deinit" -> "shut"
                   [] OTHER -> "write"
Check(t) ==
    /\ At(t, "check")
    /\ Go(t, IF MayRun(t) THEN AfterCheck(t) ELSE "leave")
    /\ UNCHANGED <<holder, flags, storage, copies>>

\* init() takes write_lock for the boot entry only.
AfterWriteNoReadLock(t) == CASE op[t] = "read" -> "read"
                             [] op[t] = "deinit" -> "flush"
                             [] op[t] = "init" -> "append"
                             [] OTHER -> "enter"
AfterWrite(t) == CASE op[t] \in {"read", "deinit"} -> "read"
                   [] op[t] = "init" -> "append"
                   [] OTHER -> "enter"
TakeWrite(t) ==
    /\ At(t, "write")
    /\ Take(t, "write")
    /\ Go(t, AfterWrite(t))
    /\ UNCHANGED <<flags, storage, copies>>

TakeRead(t) ==
    /\ At(t, "read")
    /\ Take(t, "read")
    /\ Go(t, IF op[t] = "deinit" THEN "flush" ELSE "enter")
    /\ UNCHANGED <<flags, storage, copies>>

Entered(t) == CASE op[t] = "read" -> "snapshot"
                [] op[t] = "anchor" -> "anchor_lock"
                [] op[t] = "query" -> "query"
                [] OTHER -> "append"
Enter(t) ==
    /\ At(t, "enter")
    /\ Give("lifecycle")
    /\ Go(t, Entered(t))
    /\ UNCHANGED <<flags, storage, copies>>

\* A mutex another task holds, and the caller's timeout_ticks run out.  init(),
\* deinit(), the getters and the rotation wait forever.
TimeoutKeepingWrite(t) ==
    /\ op[t] = "read"
    /\ At(t, "read") /\ holder["read"] # Free /\ Go(t, "leave")
    /\ UNCHANGED <<holder, flags, storage, copies>>
Timeout(t) ==
    /\ op[t] \in {"append", "anchor", "read"}
    /\ \/ At(t, "lifecycle") /\ holder["lifecycle"] # Free /\ Return(t)
       \/ At(t, "write") /\ holder["write"] # Free /\ Go(t, "leave")
       \/ At(t, "read") /\ holder["read"] # Free /\ Go(t, "leave_write")
       \/ At(t, "anchor_lock") /\ holder["read"] # Free /\ Go(t, "give_write")
    /\ UNCHANGED <<holder, flags, storage, copies>>

LeaveWrite(t) ==
    /\ At(t, "leave_write")
    /\ Give("write")
    /\ Go(t, "leave")
    /\ UNCHANGED <<flags, storage, copies>>

Leave(t) ==
    /\ At(t, "leave")
    /\ Give("lifecycle")
    /\ Return(t)
    /\ UNCHANGED <<flags, storage, copies>>

GiveWrite(t) ==
    /\ At(t, "give_write")
    /\ Give("write")
    /\ IF op[t] = "init" THEN Go(t, "booted") ELSE Return(t)
    /\ UNCHANGED <<flags, storage, copies>>

-----------------------------------------------------------------------------
(* Under write_lock: getters, appends, flushes and rotations.              *)

Query(t) ==
    /\ At(t, "query")
    /\ Go(t, "give_write")
    /\ UNCHANGED <<holder, flags, storage, copies>>

\* flush_unsafe.
FlushActive ==
    /\ file' = [file EXCEPT ![active_slot].entries = segments[active_slot].entries]
    /\ write_buf' = 0

\* append_entry_unsafe, or nothing for flush_write() and for an error.
Append(t) ==
    /\ At(t, "append")
    /\ \/ /\ segments[active_slot].entries < Capacity
          /\ segments' = [segments EXCEPT ![active_slot].entries = @ + 1]
          /\ write_buf' = write_buf + 1
          /\ \E label \in {"sync", "give_write"} : Go(t, label)
       \/ /\ segments[active_slot].entries >= Capacity
          /\ Go(t, "seal")
          /\ UNCHANGED <<segments, write_buf>>
       \/ /\ \E label \in {"sync", "give_write"} : Go(t, label)
          /\ UNCHANGED <<segments, write_buf>>
    /\ UNCHANGED <<holder, flags, copies, file, active_slot, anchors>>

Sync(t) ==
    /\ At(t, "sync")
    /\ FlushActive \/ UNCHANGED <<file, write_buf>>
    /\ Go(t, "give_write")
    /\ UNCHANGED <<holder, flags, copies, segments, active_slot, anchors>>

\* rotate_active_segment_unsafe up to the read_lock.
Seal(t) ==
    /\ At(t, "seal")
    /\ \/ FlushActive /\ Go(t, IF segments[active_slot].generation < MaxGeneration
                               THEN "rotate" ELSE "give_write")
       \/ UNCHANGED <<file, write_buf>> /\ Go(t, "give_write")
    /\ UNCHANGED <<holder, flags, copies, segments, active_slot, anchors>>

RotateUnlocked(t) ==
    /\ At(t, "rotate")
    /\ Go(t, "retire")
    /\ UNCHANGED <<holder, flags, storage, copies>>
Rotate(t) ==
    /\ At(t, "rotate")
    /\ Take(t, "read")
    /\ Go(t, "retire")
    /\ UNCHANGED <<flags, storage, copies>>

NextSlotUnwrapped == active_slot + 1
NextSlot == (active_slot + 1) % SegmentCount

\* retire_segment_unsafe.
Retire(t) ==
    /\ At(t, "retire")
    /\ segments' = [segments EXCEPT ![NextSlot] = Empty]
    /\ \E label \in {"activate", "rotation_failed"} : Go(t, label)
    /\ UNCHANGED <<holder, flags, copies, file, active_slot, write_buf, anchors>>

\* activate_segment_unsafe; one that fails may have written the header.
Activate(t) ==
    /\ At(t, "activate")
    /\ LET new == [generation |-> segments[active_slot].generation + 1, entries |-> 0] IN
       \/ /\ file' = [file EXCEPT ![NextSlot] = new]
          /\ segments' = [segments EXCEPT ![NextSlot] = new]
          /\ active_slot' = NextSlot
          /\ write_buf' = 0
          /\ Go(t, "rotated")
       \/ /\ file' \in {file, [file EXCEPT ![NextSlot] = new]}
          /\ Go(t, "rotation_failed")
          /\ UNCHANGED <<segments, active_slot, write_buf>>
    /\ UNCHANGED <<holder, flags, copies, anchors>>

RotatedOnly(t) ==
    /\ At(t, "rotated") \/ At(t, "rotation_failed")
    /\ IF At(t, "rotated") THEN Give("read") ELSE UNCHANGED holder
    /\ Go(t, IF At(t, "rotated") THEN "append" ELSE "give_write")
    /\ UNCHANGED <<flags, storage, copies>>
Rotated(t) ==
    /\ At(t, "rotated") \/ At(t, "rotation_failed")
    /\ Give("read")
    /\ Go(t, IF At(t, "rotated") THEN "append" ELSE "give_write")
    /\ UNCHANGED <<flags, storage, copies>>

-----------------------------------------------------------------------------
(* append_time_anchor.                                                     *)

LockAnchors(t) ==
    /\ At(t, "anchor_lock")
    /\ Take(t, "read")
    /\ Go(t, "anchor")
    /\ UNCHANGED <<flags, storage, copies>>

ChangeAnchors(t) ==
    /\ \/ At(t, "anchor") /\ anchors' = "half" /\ Go(t, "anchored")
       \/ At(t, "anchored") /\ anchors' = "whole" /\ Go(t, "anchor_unlock")
    /\ UNCHANGED <<holder, flags, copies, file, segments, active_slot, write_buf>>

UnlockAnchors(t) ==
    /\ At(t, "anchor_unlock")
    /\ Give("read")
    /\ Go(t, "give_write")
    /\ UNCHANGED <<flags, storage, copies>>

-----------------------------------------------------------------------------
(* The read operations.                                                    *)

\* snapshot_read_state_unsafe.
Snapshot(t) ==
    /\ At(t, "snapshot")
    /\ read_segments' = segments
    /\ read_active' = active_slot
    /\ read_buf' = write_buf
    /\ Go(t, "share")
    /\ UNCHANGED <<holder, flags, storage>>

ShareNothing(t) ==
    /\ At(t, "share")
    /\ Go(t, "reading")
    /\ UNCHANGED <<holder, flags, storage, copies>>
Share(t) ==
    /\ At(t, "share")
    /\ Give("write")
    /\ Go(t, "reading")
    /\ UNCHANGED <<flags, storage, copies>>

\* While a task is at "reading" it opens, reads and closes segment files.
Release(t) ==
    /\ At(t, "reading")
    /\ Give("read")
    /\ Return(t)
    /\ UNCHANGED <<flags, storage, copies>>

-----------------------------------------------------------------------------
(* init() and deinit().                                                    *)

\* allocate_runtime_buffers and the rest of initialise_storage.
Open(t) ==
    /\ At(t, "open")
    /\ opened' = TRUE
    /\ segments' = file
    /\ \E s \in Slots :
          /\ \A other \in Slots : file[other].generation <= file[s].generation
          /\ active_slot' = s
    /\ write_buf' = 0
    /\ anchors' = "whole"
    /\ \E label \in {"recovered", "close"} : Go(t, label)
    /\ UNCHANGED <<holder, initialized, shutting_down, copies, file>>

\* finish_initialisation up to the write_lock.
Recovered(t) ==
    /\ At(t, "recovered")
    /\ initialized' = TRUE
    /\ Go(t, "write")
    /\ UNCHANGED <<holder, shutting_down, opened, storage, copies>>

\* The end of init(): a failed boot entry closes the store again.
Booted(t) ==
    /\ At(t, "booted")
    /\ \/ Go(t, "leave") /\ UNCHANGED initialized
       \/ Go(t, "close") /\ initialized' = FALSE
    /\ UNCHANGED <<holder, shutting_down, opened, storage, copies>>

Shut(t) ==
    /\ At(t, "shut")
    /\ shutting_down' = TRUE
    /\ Go(t, "write")
    /\ UNCHANGED <<holder, initialized, opened, storage, copies>>

\* The flush of deinit(): done, failed, or left out by force.
FlushLast(t) ==
    /\ At(t, "flush")
    /\ \/ FlushActive /\ Go(t, "close")
       \/ UNCHANGED <<file, write_buf>> /\ Go(t, "give_read")
       \/ UNCHANGED <<file, write_buf>> /\ Go(t, "close")
    /\ UNCHANGED <<holder, flags, copies, segments, active_slot, anchors>>

\* close_storage_unsafe.
Close(t) ==
    /\ At(t, "close")
    /\ initialized' = FALSE
    /\ opened' = FALSE
    /\ segments' = [s \in Slots |-> Empty]
    /\ active_slot' = 0
    /\ write_buf' = 0
    /\ read_segments' = [s \in Slots |-> Empty]
    /\ read_active' = 0
    /\ read_buf' = 0
    /\ Go(t, IF op[t] = "deinit" THEN "give_read" ELSE "leave")
    /\ UNCHANGED <<holder, shutting_down, file, anchors>>

GiveRead(t) ==
    /\ At(t, "give_read")
    /\ Give("read")
    /\ Go(t, "unlock")
    /\ UNCHANGED <<flags, storage, copies>>

Unlock(t) ==
    /\ At(t, "unlock")
    /\ Give("write")
    /\ Go(t, "unshut")
    /\ UNCHANGED <<flags, storage, copies>>

Unshut(t) ==
    /\ At(t, "unshut")
    /\ shutting_down' = FALSE
    /\ Go(t, "leave")
    /\ UNCHANGED <<holder, initialized, opened, storage, copies>>

-----------------------------------------------------------------------------

\* What a task that is in an operation does next.
Step(t) ==
    \/ TakeLifecycle(t) \/ Check(t) \/ TakeWrite(t) \/ TakeRead(t) \/ Enter(t)
    \/ LeaveWrite(t) \/ Leave(t) \/ GiveWrite(t)
    \/ Query(t) \/ Append(t) \/ Sync(t) \/ Seal(t)
    \/ Rotate(t) \/ Retire(t) \/ Activate(t) \/ Rotated(t)
    \/ LockAnchors(t) \/ ChangeAnchors(t) \/ UnlockAnchors(t)
    \/ Snapshot(t) \/ Share(t) \/ Release(t)
    \/ Open(t) \/ Recovered(t) \/ Booted(t)
    \/ Shut(t) \/ FlushLast(t) \/ Close(t) \/ GiveRead(t) \/ Unlock(t) \/ Unshut(t)

Next == \E t \in Tasks : Call(t) \/ Timeout(t) \/ Step(t)

Spec == Init /\ [][Next]_vars

\* A task that can go on does; the timeouts need not happen.
FairSpec == Spec /\ \A t \in Tasks : WF_vars(Step(t))

-----------------------------------------------------------------------------
(* Properties.                                                             *)

Labels ==
    {"idle", "lifecycle", "check", "write", "read", "enter", "leave", "leave_write",
     "give_write", "query", "append", "sync", "seal", "rotate", "retire", "activate",
     "rotated", "rotation_failed", "anchor_lock", "anchor", "anchored", "anchor_unlock",
     "snapshot", "share", "reading", "open", "recovered", "booted", "shut", "flush",
     "close", "give_read", "unlock", "unshut"}
Segment == [generation : Nat, entries : Nat]

TypeOK ==
    /\ holder \in [Mutexes -> Tasks \cup {Free}]
    /\ initialized \in BOOLEAN /\ shutting_down \in BOOLEAN /\ opened \in BOOLEAN
    /\ file \in [Slots -> Segment]
    /\ segments \in [Slots -> Segment]
    /\ active_slot \in Slots
    /\ write_buf \in Nat
    /\ anchors \in {"whole", "half"}
    /\ read_segments \in [Slots -> Segment]
    /\ read_active \in Slots
    /\ read_buf \in Nat
    /\ op \in [Tasks -> Operations \cup {NoOperation}]
    /\ pc \in [Tasks -> Labels]
    /\ calls \in 0 .. MaxCalls

\* Where a task uses the runtime buffers or the files, and where it changes what
\* the other tasks share under write_lock.
Changing == {"append", "sync", "seal", "rotate", "retire", "activate", "rotated",
             "rotation_failed", "anchor", "anchored", "flush", "close"}
Using    == Changing \cup {"query", "snapshot", "share", "reading"}

\* No task is inside the storage when deinit() or a failed init() closes it
\* (deinit, on9rstore.cpp:385; acquire_operation_lock, on9rstore.cpp:270).
NoUseAfterClose == \A t \in Tasks : pc[t] \in Using => opened

\* One task at a time changes the store, and no snapshot is taken meanwhile
\* (snapshot_read_state_unsafe copies under write_lock, read.cpp:35).
ChangesExclusive ==
    \A t, u \in Tasks :
        (t # u /\ pc[t] \in Changing) => pc[u] \notin Changing \cup {"query", "snapshot"}

\* What a reader copied stays true of the files until it is done: no slot of its
\* snapshot is reused, every entry is in the file or in the reader's copy of the
\* write buffer, and the anchors do not change (open_next_segment_unsafe,
\* segment.cpp:868; README.md:549-556).
ReadersPinned ==
    \A t \in Tasks :
        pc[t] \in {"share", "reading"} =>
            /\ anchors = "whole"
            /\ \A s \in Slots :
                  read_segments[s].generation # 0 =>
                      /\ file[s].generation = read_segments[s].generation
                      /\ read_segments[s].entries
                            <= file[s].entries + (IF s = read_active THEN read_buf ELSE 0)

\* A reader that has its snapshot blocks neither appends nor other callers, only
\* what would take the slots away ("normal appends may continue", README.md:554).
ReadersLetAppendsIn ==
    \A t \in Tasks : pc[t] = "reading" => \A m \in Mutexes : holder[m] = t => m = "read"

\* No return path keeps a mutex, timeouts and errors included
\* (acquire_read_operation_locks, read.cpp:5).
IdleHoldsNothing ==
    \A t \in Tasks : pc[t] = "idle" => \A m \in Mutexes : holder[m] # t

\* Every call returns, though a rotation and deinit() wait without a timeout: the
\* three mutexes cannot deadlock (segment.cpp:876, on9rstore.cpp:401-413).
CallsReturn == \A t \in Tasks : pc[t] # "idle" ~> pc[t] = "idle"
===============================================================================
