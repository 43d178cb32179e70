------------------------------ MODULE LocksProofs ------------------------------
(***************************************************************************)
(* The safety of the three mutexes, for any number of tasks, calls, slots  *)
(* and entries.  A label of an operation determines the mutexes its task   *)
(* holds (LockInv); from that follow who is inside the open storage        *)
(* (OpenInv), that memory and files agree (DataInv) and that the copies of  *)
(* a reader stay true (ReaderInv).                                         *)
(***************************************************************************)
EXTENDS Locks, TLAPS

(* The labels an operation goes through.                                     *)
Entering == {"lifecycle", "check", "write", "enter", "leave"}
Writing  == {"append", "sync", "seal", "rotate", "retire", "activate", "rotated",
             "rotation_failed", "give_write"}
OfKind(kind, label) ==
    \/ kind = NoOperation /\ label = "idle"
    \/ kind = "append" /\ label \in Entering \cup Writing
    \/ kind = "query" /\ label \in Entering \cup {"query", "give_write"}
    \/ /\ kind = "anchor"
       /\ label \in Entering \cup {"anchor_lock", "anchor", "anchored",
                                   "anchor_unlock", "give_write"}
    \/ /\ kind = "read"
       /\ label \in Entering \cup {"read", "leave_write", "snapshot", "share", "reading"}
    \/ /\ kind = "init"
       /\ label \in Writing \cup {"lifecycle", "check", "write", "leave", "open",
                                  "recovered", "booted", "close"}
    \/ /\ kind = "deinit"
       /\ label \in {"lifecycle", "check", "write", "leave", "shut", "read", "flush",
                     "close", "give_read", "unlock", "unshut"}

(* The mutexes a task holds at a label of an operation.                      *)
Holds(kind, label, m) ==
    \/ /\ m = "lifecycle"
       /\ \/ label \in {"check", "write", "read", "enter", "leave", "leave_write", "open",
                        "recovered", "booted", "shut", "flush", "close", "give_read",
                        "unlock", "unshut"}
          \/ kind = "init" /\ label \in Writing
    \/ /\ m = "write"
       /\ \/ label \in Writing \cup {"read", "enter", "leave_write", "query", "anchor_lock",
                        "anchor", "anchored", "anchor_unlock", "snapshot", "share",
                        "flush", "give_read", "unlock"}
          \/ kind = "deinit" /\ label = "close"
    \/ /\ m = "read"
       /\ \/ label \in {"retire", "activate", "rotated", "rotation_failed", "anchor",
                        "anchored", "anchor_unlock", "snapshot", "share", "reading",
                        "flush", "give_read"}
          \/ kind = "read" /\ label = "enter"
          \/ kind = "deinit" /\ label = "close"

LabelInv == \A t \in Tasks : OfKind(op[t], pc[t])
LockInv  == \A t \in Tasks, m \in Mutexes : holder[m] = t <=> Holds(op[t], pc[t], m)

(* A task other than an initialising one that is past the check and has not  *)
(* closed the storage.                                                       *)
Inside(t) ==
    \/ /\ op[t] \in {"append", "query", "anchor", "read"}
       /\ pc[t] \notin {"lifecycle", "check", "leave"}
    \/ op[t] = "deinit" /\ pc[t] \in {"shut", "write", "read", "flush", "close"}
Initialising(t) == op[t] = "init" /\ pc[t] \notin {"lifecycle", "check", "leave"}

OpenInv ==
    /\ initialized => opened
    /\ \A t \in Tasks : Inside(t) => initialized
    /\ \A t, u \in Tasks : Initialising(t) => ~Inside(u)
    /\ \A t \in Tasks : Initialising(t) => opened \/ pc[t] = "open"

(* Memory and files agree on every segment but for the write buffer, which   *)
(* is empty during a rotation, and the slot being activated is retired.       *)
DataInv ==
    /\ \A s \in Slots : file[s].generation # 0
    /\ opened =>
          /\ segments[active_slot].generation # 0
          /\ \A s \in Slots : segments[s].generation # 0 =>
                 /\ file[s].generation = segments[s].generation
                 /\ segments[s].entries
                       = file[s].entries + (IF s = active_slot THEN write_buf ELSE 0)
    /\ \A t \in Tasks : pc[t] \in {"rotate", "retire", "activate"} => write_buf = 0
    /\ \A t \in Tasks : pc[t] = "activate" => segments[NextSlot].generation = 0

Copied == \A s \in Slots : read_segments[s].generation # 0 =>
              /\ file[s].generation = read_segments[s].generation
              /\ read_segments[s].entries
                    <= file[s].entries + (IF s = read_active THEN read_buf ELSE 0)
ReaderInv ==
    /\ \A t \in Tasks : pc[t] \in {"share", "reading"} => Copied
    /\ anchors = "half" => \E t \in Tasks : pc[t] = "anchored"

IInv == TypeOK /\ LabelInv /\ LockInv /\ OpenInv /\ DataInv /\ ReaderInv
-----------------------------------------------------------------------------
(* Mutexes and labels.                                                       *)

(* A step of a task: where it goes, and the mutex it takes or gives.         *)
Moves(t, kind, label) ==
    /\ OfKind(kind, label)
    /\ pc' = [pc EXCEPT ![t] = label]
    /\ op' = [op EXCEPT ![t] = kind]
SameBut(t, kind, label, m) ==
    \A n \in Mutexes \ {m} : Holds(kind, label, n) <=> Holds(op[t], pc[t], n)
Keeps(t, kind, label) ==
    /\ UNCHANGED holder
    /\ \A n \in Mutexes : Holds(kind, label, n) <=> Holds(op[t], pc[t], n)
Takes(t, kind, label, m) ==
    /\ m \in Mutexes /\ Take(t, m)
    /\ Holds(kind, label, m) /\ SameBut(t, kind, label, m)
Gives(t, kind, label, m) ==
    /\ m \in Mutexes /\ Give(m) /\ Holds(op[t], pc[t], m)
    /\ ~Holds(kind, label, m) /\ SameBut(t, kind, label, m)
Relocks(t, kind, label) ==
    \/ Keeps(t, kind, label)
    \/ \E m \in Mutexes : Takes(t, kind, label, m) \/ Gives(t, kind, label, m)

(* The labels of an operation are labels.                                    *)
LEMMA KindFacts ==
    ASSUME NEW kind, NEW label, OfKind(kind, label)
    PROVE  kind \in Operations \cup {NoOperation} /\ label \in Labels
  BY DEF OfKind, Operations, NoOperation, Labels, Entering, Writing

(* Such a step keeps the meaning of the labels, whichever it is.             *)
LEMMA MoveKeepsLocks ==
    ASSUME TypeOK, LabelInv, LockInv, NEW t \in Tasks, NEW kind, NEW label,
           Moves(t, kind, label), Relocks(t, kind, label)
    PROVE  /\ LabelInv' /\ LockInv'
           /\ holder' \in [Mutexes -> Tasks \cup {Free}]
           /\ op' \in [Tasks -> Operations \cup {NoOperation}]
           /\ pc' \in [Tasks -> Labels]
<1>1. kind \in Operations \cup {NoOperation} /\ label \in Labels
  BY KindFacts DEF Moves
<1>2. op' \in [Tasks -> Operations \cup {NoOperation}] /\ pc' \in [Tasks -> Labels]
  BY <1>1 DEF Moves, TypeOK
<1>3. /\ pc'[t] = label /\ op'[t] = kind
      /\ \A u \in Tasks \ {t} : pc'[u] = pc[u] /\ op'[u] = op[u]
  BY DEF Moves, TypeOK
<1>4. LabelInv'
  BY <1>3 DEF LabelInv, Moves
<1>5. holder' \in [Mutexes -> Tasks \cup {Free}]
  BY DEF Relocks, Keeps, Takes, Gives, Take, Give, TypeOK
<1>6. LockInv'
  <2>. SUFFICES ASSUME NEW u \in Tasks, NEW n \in Mutexes
                PROVE  holder'[n] = u <=> Holds(op'[u], pc'[u], n)
    BY DEF LockInv
  <2>1. holder[n] = u <=> Holds(op[u], pc[u], n)
    BY DEF LockInv
  <2>2. CASE Keeps(t, kind, label)
    BY <2>1, <2>2, <1>3 DEF Keeps
  <2>3. CASE \E m \in Mutexes : Takes(t, kind, label, m)
    <3>1. PICK m \in Mutexes : Takes(t, kind, label, m)
      BY <2>3
    <3>2. holder[m] = Free /\ holder'[m] = t /\ (n # m => holder'[n] = holder[n])
      BY <3>1 DEF Takes, Take, TypeOK
    <3>. QED  BY <2>1, <3>1, <3>2, <1>3, FreeAssumption DEF Takes, SameBut
  <2>4. CASE \E m \in Mutexes : Gives(t, kind, label, m)
    <3>1. PICK m \in Mutexes : Gives(t, kind, label, m)
      BY <2>4
    <3>2. holder'[m] = Free /\ (n # m => holder'[n] = holder[n])
      BY <3>1 DEF Gives, Give, TypeOK
    <3>3. holder[m] = t
      BY <3>1 DEF Gives, LockInv
    <3>. QED  BY <2>1, <3>1, <3>2, <3>3, <1>3, FreeAssumption DEF Gives, SameBut
  <2>. QED  BY <2>2, <2>3, <2>4 DEF Relocks
<1>. QED  BY <1>2, <1>4, <1>5, <1>6

(* Every action is such a step.                                              *)
LEMMA StepMoves ==
    ASSUME TypeOK, LabelInv, NEW t \in Tasks, Step(t)
    PROVE  \E kind, label : Moves(t, kind, label) /\ Relocks(t, kind, label)
<1>1. OfKind(op[t], pc[t]) /\ op = [op EXCEPT ![t] = op[t]]
  BY DEF LabelInv, TypeOK
<1>. USE <1>1 DEF OfKind, Holds, Entering, Writing, Moves, Keeps, Takes, Gives,
         SameBut, Mutexes, At, Go, Return, NoOperation
<1>2. TakeLifecycle(t) =>
        Moves(t, op[t], "check") /\ Takes(t, op[t], "check", "lifecycle")
  BY DEF TakeLifecycle
<1>3. Check(t) => \E label \in {"open", "shut", "write", "leave"} :
        Moves(t, op[t], label) /\ Keeps(t, op[t], label)
  BY DEF Check, MayRun, AfterCheck
<1>4. TakeWrite(t) => \E label \in {"read", "append", "enter"} :
        Moves(t, op[t], label) /\ Takes(t, op[t], label, "write")
  BY DEF TakeWrite, AfterWrite
<1>5. TakeRead(t) => \E label \in {"flush", "enter"} :
        Moves(t, op[t], label) /\ Takes(t, op[t], label, "read")
  BY DEF TakeRead
<1>6. Enter(t) => \E label \in {"snapshot", "anchor_lock", "query", "append"} :
        Moves(t, op[t], label) /\ Gives(t, op[t], label, "lifecycle")
  BY DEF Enter, Entered
<1>7. LeaveWrite(t) =>
        Moves(t, op[t], "leave") /\ Gives(t, op[t], "leave", "write")
  BY DEF LeaveWrite
<1>8. Leave(t) =>
        Moves(t, NoOperation, "idle") /\ Gives(t, NoOperation, "idle", "lifecycle")
  BY DEF Leave
<1>9. Query(t) =>
        Moves(t, op[t], "give_write") /\ Keeps(t, op[t], "give_write")
  BY DEF Query
<1>10. Append(t) => \E label \in {"sync", "give_write", "seal"} :
        Moves(t, op[t], label) /\ Keeps(t, op[t], label)
  BY DEF Append
<1>11. Sync(t) =>
        Moves(t, op[t], "give_write") /\ Keeps(t, op[t], "give_write")
  BY DEF Sync
<1>12. Seal(t) => \E label \in {"rotate", "give_write"} :
        Moves(t, op[t], label) /\ Keeps(t, op[t], label)
  BY DEF Seal
<1>13. Rotate(t) =>
        Moves(t, op[t], "retire") /\ Takes(t, op[t], "retire", "read")
  BY DEF Rotate
<1>14. Retire(t) => \E label \in {"activate", "rotation_failed"} :
        Moves(t, op[t], label) /\ Keeps(t, op[t], label)
  BY DEF Retire
<1>15. Activate(t) => \E label \in {"rotated", "rotation_failed"} :
        Moves(t, op[t], label) /\ Keeps(t, op[t], label)
  BY DEF Activate
<1>16. Rotated(t) => \E label \in {"append", "give_write"} :
        Moves(t, op[t], label) /\ Gives(t, op[t], label, "read")
  BY DEF Rotated
<1>17. LockAnchors(t) =>
        Moves(t, op[t], "anchor") /\ Takes(t, op[t], "anchor", "read")
  BY DEF LockAnchors
<1>18. ChangeAnchors(t) => \E label \in {"anchored", "anchor_unlock"} :
        Moves(t, op[t], label) /\ Keeps(t, op[t], label)
  BY DEF ChangeAnchors
<1>19. UnlockAnchors(t) =>
        Moves(t, op[t], "give_write") /\ Gives(t, op[t], "give_write", "read")
  BY DEF UnlockAnchors
<1>20. Snapshot(t) =>
        Moves(t, op[t], "share") /\ Keeps(t, op[t], "share")
  BY DEF Snapshot
<1>21. Share(t) =>
        Moves(t, op[t], "reading") /\ Gives(t, op[t], "reading", "write")
  BY DEF Share
<1>22. Release(t) =>
        Moves(t, NoOperation, "idle") /\ Gives(t, NoOperation, "idle", "read")
  BY DEF Release
<1>23. Open(t) => \E label \in {"recovered", "close"} :
        Moves(t, op[t], label) /\ Keeps(t, op[t], label)
  BY DEF Open
<1>24. Recovered(t) =>
        Moves(t, op[t], "write") /\ Keeps(t, op[t], "write")
  BY DEF Recovered
<1>25. Booted(t) => \E label \in {"leave", "close"} :
        Moves(t, op[t], label) /\ Keeps(t, op[t], label)
  BY DEF Booted
<1>26. Shut(t) =>
        Moves(t, op[t], "write") /\ Keeps(t, op[t], "write")
  BY DEF Shut
<1>27. FlushLast(t) => \E label \in {"close", "give_read"} :
        Moves(t, op[t], label) /\ Keeps(t, op[t], label)
  BY DEF FlushLast
<1>28. Close(t) => \E label \in {"give_read", "leave"} :
        Moves(t, op[t], label) /\ Keeps(t, op[t], label)
  BY DEF Close
<1>29. GiveRead(t) =>
        Moves(t, op[t], "unlock") /\ Gives(t, op[t], "unlock", "read")
  BY DEF GiveRead
<1>30. Unlock(t) =>
        Moves(t, op[t], "unshut") /\ Gives(t, op[t], "unshut", "write")
  BY DEF Unlock
<1>31. Unshut(t) =>
        Moves(t, op[t], "leave") /\ Keeps(t, op[t], "leave")
  BY DEF Unshut
<1>32. GiveWrite(t) => \/ Moves(t, op[t], "booted") /\ Gives(t, op[t], "booted", "write")
                       \/ Moves(t, NoOperation, "idle") /\ Gives(t, NoOperation, "idle", "write")
  <2>. SUFFICES ASSUME GiveWrite(t)
                PROVE  \/ Moves(t, op[t], "booted") /\ Gives(t, op[t], "booted", "write")
                       \/ Moves(t, NoOperation, "idle") /\ Gives(t, NoOperation, "idle", "write")
    OBVIOUS
  <2>1. CASE op[t] = "init"
    BY <2>1 DEF GiveWrite
  <2>2. CASE op[t] # "init"
    BY <2>2 DEF GiveWrite
  <2>. QED  BY <2>1, <2>2
<1>33. \A kind, label, m :
          Keeps(t, kind, label) \/ Takes(t, kind, label, m) \/ Gives(t, kind, label, m)
             => Relocks(t, kind, label)
  BY DEF Relocks
<1>. HIDE <1>1 DEF OfKind, Holds, Entering, Writing, Moves, Keeps, Takes, Gives,
          SameBut, Mutexes, At, Go, Return, NoOperation
<1>. QED
  BY <1>2, <1>3, <1>4, <1>5, <1>6, <1>7, <1>8, <1>9, <1>10, <1>11, <1>12,
     <1>13, <1>14, <1>15, <1>16, <1>17, <1>18, <1>19, <1>20, <1>21, <1>22, <1>23,
     <1>24, <1>25, <1>26, <1>27, <1>28, <1>29, <1>30, <1>31, <1>32, <1>33
     DEF Step

(* So is a call.                                                             *)
LEMMA CallMoves ==
    ASSUME TypeOK, LabelInv, NEW t \in Tasks, Call(t)
    PROVE  \E kind, label : Moves(t, kind, label) /\ Relocks(t, kind, label)
<1>1. PICK kind \in Operations : op' = [op EXCEPT ![t] = kind]
  BY DEF Call
<1>2. op[t] = NoOperation
  BY DEF Call, At, LabelInv, OfKind, Entering, Writing
<1>3. Moves(t, kind, "lifecycle")
  BY <1>1 DEF Call, Moves, OfKind, Entering, Operations
<1>4. Keeps(t, kind, "lifecycle")
  BY <1>2 DEF Call, At, Keeps, Holds, Writing, NoOperation, Mutexes
<1>. QED  BY <1>3, <1>4 DEF Relocks

(* A timeout keeps what the label it goes to still holds.                    *)
LEMMA TimeoutMoves ==
    ASSUME TypeOK, LabelInv, NEW t \in Tasks, Timeout(t)
    PROVE  \E kind, label : Moves(t, kind, label) /\ Relocks(t, kind, label)
<1>1. OfKind(op[t], pc[t]) /\ op = [op EXCEPT ![t] = op[t]]
  BY DEF LabelInv, TypeOK
<1>2. CASE At(t, "lifecycle") /\ Return(t)
  <2>1. Moves(t, NoOperation, "idle") /\ Keeps(t, NoOperation, "idle")
    BY <1>2, <1>1 DEF At, Return, Timeout, Moves, OfKind, Keeps, Holds, Mutexes, Writing,
                      Entering, NoOperation
  <2>. QED  BY <2>1 DEF Relocks
<1>3. CASE \/ At(t, "write") /\ Go(t, "leave")
           \/ At(t, "read") /\ Go(t, "leave_write")
           \/ At(t, "anchor_lock") /\ Go(t, "give_write")
  <2>1. \E label \in {"leave", "leave_write", "give_write"} :
           Moves(t, op[t], label) /\ Keeps(t, op[t], label)
    BY <1>3, <1>1 DEF At, Go, Timeout, Moves, OfKind, Keeps, Holds, Mutexes, Writing,
                      Entering, NoOperation
  <2>. QED  BY <2>1 DEF Relocks
<1>. QED  BY <1>2, <1>3 DEF Timeout

(* A task that sits where its label says it holds a mutex keeps the others   *)
(* out of the labels that hold it too.                                       *)
LEMMA Alone ==
    ASSUME LockInv, NEW m \in Mutexes, NEW t \in Tasks, NEW u \in Tasks,
           Holds(op[t], pc[t], m), Holds(op[u], pc[u], m)
    PROVE  t = u
  BY DEF LockInv

-----------------------------------------------------------------------------
(* Types.                                                                    *)

(* The slot a rotation moves to is another one.                              *)
LEMMA NextSlotFacts ==
    ASSUME active_slot \in Slots
    PROVE  NextSlot \in Slots /\ NextSlot # active_slot
<1>1. SegmentCount \in Nat /\ SegmentCount >= 2 /\ active_slot \in 0 .. SegmentCount - 1
  BY SegmentCountAssumption DEF Slots
<1>2. CASE active_slot = SegmentCount - 1
  <2>1. (active_slot + 1) % SegmentCount = 0
    BY <1>1, <1>2
  <2>. QED  BY <2>1, <1>1, <1>2 DEF NextSlot, Slots
<1>3. CASE active_slot # SegmentCount - 1
  <2>1. (active_slot + 1) % SegmentCount = active_slot + 1
    BY <1>1, <1>3
  <2>. QED  BY <2>1, <1>1, <1>3 DEF NextSlot, Slots
<1>. QED  BY <1>2, <1>3

(* What a step does to the types of everything but locks and labels.         *)
DataTypes ==
    /\ initialized \in BOOLEAN /\ shutting_down \in BOOLEAN /\ opened \in BOOLEAN
    /\ file \in [Slots -> Segment]
    /\ segments \in [Slots -> Segment]
    /\ active_slot \in Slots
    /\ write_buf \in Nat
    /\ anchors \in {"whole", "half"}
    /\ read_segments \in [Slots -> Segment]
    /\ read_active \in Slots
    /\ read_buf \in Nat

(* Flushing and resetting keep the types of segments.                        *)
LEMMA SegmentFacts ==
    ASSUME TypeOK
    PROVE  /\ Empty \in Segment
           /\ 0 \in Slots
           /\ [file EXCEPT ![active_slot].entries = segments[active_slot].entries]
                 \in [Slots -> Segment]
           /\ [segments EXCEPT ![active_slot].entries = @ + 1] \in [Slots -> Segment]
           /\ [generation |-> segments[active_slot].generation + 1, entries |-> 0] \in Segment
<1>1. Empty \in Segment /\ 0 \in Slots
  BY SegmentCountAssumption DEF Empty, Segment, Slots
<1>2. /\ active_slot \in Slots
      /\ file[active_slot] \in Segment /\ segments[active_slot] \in Segment
  BY DEF TypeOK
<1>3. /\ [file[active_slot] EXCEPT !.entries = segments[active_slot].entries] \in Segment
      /\ [segments[active_slot] EXCEPT !.entries = @ + 1] \in Segment
  BY <1>2 DEF Segment
<1>4. [generation |-> segments[active_slot].generation + 1, entries |-> 0] \in Segment
  BY <1>2 DEF Segment
<1>. QED  BY <1>1, <1>3, <1>4 DEF TypeOK

(* Every step keeps these types.                                             *)
LEMMA StepDataTypes ==
    ASSUME TypeOK, NEW t \in Tasks, Call(t) \/ Timeout(t) \/ Step(t)
    PROVE  DataTypes'
<1>. USE SegmentFacts
<1>. USE NextSlotFacts DEF TypeOK, DataTypes
<1>1. UNCHANGED <<flags, storage, copies>> => DataTypes'
  BY DEF flags, storage, copies
<1>2. Append(t) => DataTypes'
  BY DEF Append, flags, copies
<1>3. Sync(t) => DataTypes'
  BY DEF Sync, FlushActive, flags, copies
<1>4. Seal(t) => DataTypes'
  BY DEF Seal, FlushActive, flags, copies
<1>5. Retire(t) => DataTypes'
  BY DEF Retire, flags, copies
<1>6. Activate(t) => DataTypes'
  BY DEF Activate, flags, copies
<1>7. ChangeAnchors(t) => DataTypes'
  BY DEF ChangeAnchors, flags, copies
<1>8. Snapshot(t) => DataTypes'
  BY DEF Snapshot, flags, storage
<1>9. Open(t) => DataTypes'
  BY DEF Open, copies
<1>10. Recovered(t) => DataTypes'
  BY DEF Recovered, storage, copies
<1>11. Booted(t) => DataTypes'
  BY DEF Booted, storage, copies
<1>12. Shut(t) => DataTypes'
  BY DEF Shut, storage, copies
<1>13. FlushLast(t) => DataTypes'
  BY DEF FlushLast, FlushActive, flags, copies
<1>14. Close(t) => DataTypes'
  <2>. SUFFICES ASSUME Close(t) PROVE DataTypes'
    OBVIOUS
  <2>1. /\ segments' = [s \in Slots |-> Empty] /\ read_segments' = [s \in Slots |-> Empty]
        /\ initialized' = FALSE /\ opened' = FALSE /\ write_buf' = 0 /\ read_buf' = 0
        /\ active_slot' = 0 /\ read_active' = 0
        /\ UNCHANGED <<shutting_down, file, anchors>>
    BY DEF Close
  <2>2. segments' \in [Slots -> Segment] /\ read_segments' \in [Slots -> Segment]
    BY <2>1
  <2>. QED  BY <2>1, <2>2
<1>15. Unshut(t) => DataTypes'
  BY DEF Unshut, storage, copies
<1>. HIDE SegmentFacts, NextSlotFacts DEF TypeOK, DataTypes
<1>16. CASE Call(t) \/ Timeout(t)
  BY <1>1, <1>16 DEF Call, Timeout
<1>17. CASE Step(t)
  BY <1>1, <1>2, <1>3, <1>4, <1>5, <1>6, <1>7, <1>8, <1>9, <1>10, <1>11, <1>12, <1>13,
     <1>14, <1>15, <1>17
     DEF Step, TakeLifecycle, Check, TakeWrite, TakeRead, Enter, LeaveWrite, Leave,
         GiveWrite, Query, Rotate, Rotated, LockAnchors, UnlockAnchors, Share, Release,
         GiveRead, Unlock
<1>. QED  BY <1>16, <1>17

(* The bound on calls.                                                       *)
LEMMA StepCalls ==
    ASSUME TypeOK, NEW t \in Tasks, Call(t) \/ Timeout(t) \/ Step(t)
    PROVE  calls' \in 0 .. MaxCalls
<1>1. Call(t) => calls' \in 0 .. MaxCalls
  BY BoundAssumption DEF Call, TypeOK
<1>2. Timeout(t) => UNCHANGED calls
  BY DEF Timeout, Go, Return
<1>3. Step(t) => UNCHANGED calls
  BY DEF Step, Go, Return, TakeLifecycle, Check, TakeWrite, TakeRead, Enter, LeaveWrite,
         Leave, GiveWrite, Query, Append, Sync, Seal, Rotate, Retire, Activate, Rotated,
         LockAnchors, ChangeAnchors, UnlockAnchors, Snapshot, Share, Release, Open,
         Recovered, Booted, Shut, FlushLast, Close, GiveRead, Unlock, Unshut
<1>. QED  BY <1>1, <1>2, <1>3 DEF TypeOK

-----------------------------------------------------------------------------
(* The invariant.                                                            *)

(* The closed store satisfies it.                                            *)
LEMMA InitInv == Init => IInv
<1>. SUFFICES ASSUME Init PROVE IInv
  OBVIOUS
<1>1. Empty \in Segment /\ 0 \in Slots
  BY SegmentCountAssumption DEF Empty, Segment, Slots
<1>2. PICK n \in 0 .. Capacity :
          file = [s \in Slots |-> [generation |-> s + 1,
                                   entries |-> IF s = SegmentCount - 1 THEN n ELSE Capacity]]
  BY DEF Init
<1>3. \A s \in Slots : file[s] \in Segment /\ file[s].generation # 0
  BY <1>2, CapacityAssumption DEF Slots, Segment
<1>4. file \in [Slots -> Segment]
  BY <1>2, <1>3
<1>5. TypeOK
  <2>1. segments \in [Slots -> Segment] /\ read_segments \in [Slots -> Segment]
    BY <1>1 DEF Init
  <2>2. /\ holder \in [Mutexes -> Tasks \cup {Free}]
        /\ op \in [Tasks -> Operations \cup {NoOperation}]
        /\ pc \in [Tasks -> Labels]
    BY DEF Init, Labels
  <2>3. calls \in 0 .. MaxCalls
    BY BoundAssumption DEF Init
  <2>4. /\ initialized \in BOOLEAN /\ shutting_down \in BOOLEAN /\ opened \in BOOLEAN
        /\ active_slot \in Slots /\ read_active \in Slots
        /\ write_buf \in Nat /\ read_buf \in Nat /\ anchors \in {"whole", "half"}
    BY <1>1 DEF Init
  <2>. QED  BY <1>4, <2>1, <2>2, <2>3, <2>4 DEF TypeOK
<1>6. \A t \in Tasks : op[t] = NoOperation /\ pc[t] = "idle"
  BY DEF Init
<1>7. LabelInv
  BY <1>6 DEF LabelInv, OfKind
<1>8. LockInv
  BY <1>6, FreeAssumption DEF LockInv, Init, Holds, Writing, NoOperation
<1>9. OpenInv
  BY <1>6 DEF OpenInv, Init, Inside, Initialising, NoOperation
<1>10. DataInv
  BY <1>3, <1>6 DEF DataInv, Init
<1>11. ReaderInv
  BY <1>6 DEF ReaderInv, Init
<1>. QED  BY <1>5, <1>7, <1>8, <1>9, <1>10, <1>11 DEF IInv

(* Types, labels and mutexes.                                                *)
LEMMA StepLocks ==
    ASSUME TypeOK, LabelInv, LockInv, NEW t \in Tasks, Call(t) \/ Timeout(t) \/ Step(t)
    PROVE  TypeOK' /\ LabelInv' /\ LockInv'
<1>1. PICK kind, label : Moves(t, kind, label) /\ Relocks(t, kind, label)
  BY CallMoves, TimeoutMoves, StepMoves
<1>2. /\ LabelInv' /\ LockInv'
      /\ holder' \in [Mutexes -> Tasks \cup {Free}]
      /\ op' \in [Tasks -> Operations \cup {NoOperation}]
      /\ pc' \in [Tasks -> Labels]
  BY <1>1, MoveKeepsLocks
<1>3. DataTypes' /\ calls' \in 0 .. MaxCalls
  BY StepDataTypes, StepCalls
<1>. QED  BY <1>2, <1>3 DEF TypeOK, DataTypes

(* A step that neither enters nor opens nor closes the storage.              *)
Stays(t) ==
    /\ UNCHANGED <<initialized, opened>>
    /\ Inside(t)' => Inside(t)
    /\ Initialising(t)' => Initialising(t) /\ pc[t] # "open"

(* Every step but five is one.                                               *)
LEMMA StepStays ==
    ASSUME TypeOK, LabelInv, NEW t \in Tasks, Call(t) \/ Timeout(t) \/ Step(t),
           ~Check(t), ~Open(t), ~Recovered(t), ~Booted(t), ~Close(t)
    PROVE  Stays(t)
<1>1. OfKind(op[t], pc[t])
  BY DEF LabelInv
<1>. USE <1>1 DEF TypeOK, OfKind, Entering, Writing, NoOperation, Stays, Inside, Initialising,
         At, Go, Return, flags
<1>2. Call(t) => Stays(t)
  BY DEF Call
<1>3. Timeout(t) => Stays(t)
  BY DEF Timeout
<1>4. TakeLifecycle(t) \/ TakeWrite(t) \/ TakeRead(t) \/ Enter(t) => Stays(t)
  BY DEF TakeLifecycle, TakeWrite, AfterWrite, TakeRead, Enter, Entered
<1>5. LeaveWrite(t) \/ Leave(t) \/ GiveWrite(t) => Stays(t)
  BY DEF LeaveWrite, Leave, GiveWrite
<1>6. Query(t) \/ Append(t) \/ Sync(t) \/ Seal(t) => Stays(t)
  BY DEF Query, Append, Sync, Seal
<1>7. Rotate(t) \/ Retire(t) \/ Activate(t) \/ Rotated(t) => Stays(t)
  BY DEF Rotate, Retire, Activate, Rotated
<1>8. LockAnchors(t) \/ ChangeAnchors(t) \/ UnlockAnchors(t) => Stays(t)
  BY DEF LockAnchors, ChangeAnchors, UnlockAnchors
<1>9. Snapshot(t) \/ Share(t) \/ Release(t) => Stays(t)
  BY DEF Snapshot, Share, Release
<1>10. Shut(t) \/ FlushLast(t) => Stays(t)
  BY DEF Shut, FlushLast
<1>11. GiveRead(t) \/ Unlock(t) \/ Unshut(t) => Stays(t)
  BY DEF GiveRead, Unlock, Unshut
<1>. HIDE <1>1 DEF TypeOK, OfKind, Entering, Writing, NoOperation, Stays, Inside, Initialising,
          At, Go, Return, flags
<1>. QED
  BY <1>2, <1>3, <1>4, <1>5, <1>6, <1>7, <1>8, <1>9, <1>10, <1>11 DEF Step

(* A task that initialises, and one that is inside, hold the mutexes they    *)
(* are excluded by.                                                          *)
LEMMA InsideHolds ==
    ASSUME LabelInv, NEW t \in Tasks
    PROVE  /\ Initialising(t) => Holds(op[t], pc[t], "lifecycle")
           /\ Inside(t) => \E m \in Mutexes : Holds(op[t], pc[t], m)
<1>1. OfKind(op[t], pc[t])
  BY DEF LabelInv
<1>2. Initialising(t) => Holds(op[t], pc[t], "lifecycle")
  BY <1>1 DEF OfKind, Entering, Writing, NoOperation, Initialising, Holds
<1>3. Inside(t) => \/ Holds(op[t], pc[t], "lifecycle")
                   \/ Holds(op[t], pc[t], "write")
                   \/ Holds(op[t], pc[t], "read")
  BY <1>1 DEF OfKind, Entering, Writing, NoOperation, Inside, Holds
<1>. QED  BY <1>2, <1>3 DEF Mutexes

(* What one task changes of the labels of another: nothing.                  *)
LEMMA OthersStay ==
    ASSUME TypeOK, LabelInv, NEW t \in Tasks, Call(t) \/ Timeout(t) \/ Step(t),
           NEW u \in Tasks, u # t
    PROVE  op'[u] = op[u] /\ pc'[u] = pc[u]
<1>1. PICK kind, label : Moves(t, kind, label) /\ Relocks(t, kind, label)
  BY CallMoves, TimeoutMoves, StepMoves
<1>. QED  BY <1>1 DEF Moves, TypeOK

(* The storage is open for whoever is inside.                                *)
LEMMA StepOpen ==
    ASSUME TypeOK, LabelInv, LockInv, OpenInv, NEW t \in Tasks,
           Call(t) \/ Timeout(t) \/ Step(t)
    PROVE  OpenInv'
<1>1. \A u \in Tasks \ {t} : /\ op'[u] = op[u] /\ pc'[u] = pc[u]
                             /\ Inside(u)' <=> Inside(u)
                             /\ Initialising(u)' <=> Initialising(u)
  BY OthersStay DEF Inside, Initialising
<1>2. OfKind(op[t], pc[t])
  BY DEF LabelInv
<1>3. \A u \in Tasks \ {t} : Holds(op[t], pc[t], "lifecycle") => ~Initialising(u)
  BY Alone, InsideHolds DEF Mutexes
<1>4. CASE Stays(t)
  BY <1>1, <1>4 DEF OpenInv, Stays
<1>5. CASE Check(t)
  <2>1. Holds(op[t], pc[t], "lifecycle") /\ UNCHANGED <<initialized, opened>>
    BY <1>5 DEF Check, At, Holds, flags
  <2>2. CASE op[t] = "init"
    <3>1. ~Inside(t)' /\ (Initialising(t)' => ~initialized /\ pc'[t] = "open")
      BY <1>5, <2>2 DEF Check, MayRun, AfterCheck, Go, TypeOK, Inside, Initialising
    <3>. QED  BY <1>1, <1>3, <2>1, <3>1 DEF OpenInv
  <2>3. CASE op[t] # "init"
    <3>1. (Inside(t)' => initialized) /\ ~Initialising(t)'
      BY <1>2, <1>5, <2>3
         DEF Check, MayRun, AfterCheck, At, Go, TypeOK, Inside, Initialising, OfKind, Entering,
             Writing, NoOperation
    <3>. QED  BY <1>1, <1>3, <2>1, <3>1 DEF OpenInv
  <2>. QED  BY <2>2, <2>3
<1>6. CASE Open(t) \/ Recovered(t) \/ Booted(t)
  <2>1. Initialising(t) /\ op'[t] = "init" /\ ~Inside(t)'
    BY <1>2, <1>6 DEF Open, Recovered, Booted, At, Go, OfKind, Entering, Writing, NoOperation,
                      Inside, Initialising, TypeOK
  <2>2. \A u \in Tasks \ {t} : ~Inside(u)' /\ ~Initialising(u)'
    BY <1>1, <1>3, <2>1, InsideHolds DEF OpenInv
  <2>3. (Initialising(t)' => opened') /\ (initialized' => opened')
    BY <1>6, <2>1 DEF Open, Recovered, Booted, At, Go, OpenInv
  <2>. QED  BY <2>1, <2>2, <2>3 DEF OpenInv
<1>7. CASE Close(t)
  <2>1. ~Inside(t)' /\ ~Initialising(t)'
    BY <1>2, <1>7 DEF Close, At, Go, OfKind, Entering, Writing, NoOperation, Inside,
                      Initialising, TypeOK
  <2>2. Holds(op[t], pc[t], "lifecycle")
    BY <1>7 DEF Close, At, Holds
  <2>3. CASE op[t] = "init"
    <3>1. Initialising(t)
      BY <1>7, <2>3 DEF Close, At, Initialising
    <3>. QED  BY <1>1, <1>3, <1>7, <2>1, <2>2, <3>1 DEF OpenInv, Close
  <2>4. CASE op[t] # "init"
    <3>1. \A m \in Mutexes : Holds(op[t], pc[t], m)
      BY <1>2, <1>7, <2>4 DEF Close, At, OfKind, Entering, Writing, NoOperation, Holds, Mutexes
    <3>2. \A u \in Tasks \ {t} : ~Inside(u)
      BY <3>1, Alone, InsideHolds
    <3>. QED  BY <1>1, <1>3, <1>7, <2>1, <2>2, <3>2 DEF OpenInv, Close
  <2>. QED  BY <2>3, <2>4
<1>. QED  BY <1>4, <1>5, <1>6, <1>7, StepStays
-----------------------------------------------------------------------------
(* Memory and files.                                                         *)

(* Labels under write_lock.                                                  *)
Inner == {"append", "sync", "seal", "rotate", "retire", "activate", "rotated",
          "rotation_failed", "snapshot", "flush"}

(* A task at one of them holds write_lock, and the storage is open.          *)
LEMMA InnerFacts ==
    ASSUME LabelInv, OpenInv, NEW t \in Tasks, pc[t] \in Inner
    PROVE  opened /\ Holds(op[t], pc[t], "write")
<1>1. OfKind(op[t], pc[t])
  BY DEF LabelInv
<1>2. Holds(op[t], pc[t], "write")
  BY DEF Inner, Holds, Writing
<1>3. Inside(t) \/ (Initialising(t) /\ pc[t] # "open")
  BY <1>1 DEF Inner, OfKind, Entering, Writing, NoOperation, Inside, Initialising
<1>. QED  BY <1>2, <1>3 DEF OpenInv

(* What memory and files have in common at any time.                         *)
Agree ==
    /\ \A s \in Slots : file[s].generation # 0
    /\ opened =>
          /\ segments[active_slot].generation # 0
          /\ \A s \in Slots : segments[s].generation # 0 =>
                 /\ file[s].generation = segments[s].generation
                 /\ segments[s].entries
                       = file[s].entries + (IF s = active_slot THEN write_buf ELSE 0)

(* A flush keeps them in agreement.                                          *)
LEMMA FlushAgrees ==
    ASSUME TypeOK, Agree, opened, FlushActive,
           UNCHANGED <<segments, active_slot, opened>>
    PROVE  /\ Agree' /\ write_buf' = 0
           /\ \A s \in Slots : /\ file'[s].generation = file[s].generation
                               /\ file'[s].entries >= file[s].entries
<1>1. /\ active_slot \in Slots /\ write_buf \in Nat
      /\ \A s \in Slots : /\ file[s] \in Segment /\ segments[s] \in Segment
                          /\ file[s].entries \in Nat /\ segments[s].entries \in Nat
  BY DEF TypeOK, Segment
<1>2. \A s \in Slots :
         /\ file'[s].generation = file[s].generation
         /\ file'[s].entries = IF s = active_slot THEN segments[s].entries ELSE file[s].entries
  BY <1>1 DEF FlushActive, TypeOK, Segment
<1>3. write_buf' = 0
  BY DEF FlushActive
<1>4. segments[active_slot].entries = file[active_slot].entries + write_buf
  BY <1>1 DEF Agree
<1>5. \A s \in Slots : file'[s].entries >= file[s].entries
  BY <1>1, <1>2, <1>4
<1>6. Agree'
  BY <1>1, <1>2, <1>3 DEF Agree
<1>. QED  BY <1>2, <1>3, <1>5, <1>6

(* The steps that change none of it.                                         *)
LEMMA StepStorage ==
    ASSUME NEW t \in Tasks, Call(t) \/ Timeout(t) \/ Step(t),
           ~Append(t), ~Sync(t), ~Seal(t), ~Retire(t), ~Activate(t), ~Open(t),
           ~FlushLast(t), ~Close(t)
    PROVE  UNCHANGED <<file, segments, active_slot, write_buf, opened>>
  BY DEF Step, Call, Timeout, TakeLifecycle, Check, TakeWrite, TakeRead, Enter, LeaveWrite,
         Leave, GiveWrite, Query, Rotate, Rotated, LockAnchors, ChangeAnchors, UnlockAnchors,
         Snapshot, Share, Release, Recovered, Booted, Shut, GiveRead, Unlock, Unshut,
         flags, storage

(* Every step keeps memory and files in agreement.                           *)
LEMMA StepAgree ==
    ASSUME TypeOK, LabelInv, LockInv, OpenInv, DataInv, NEW t \in Tasks,
           Call(t) \/ Timeout(t) \/ Step(t)
    PROVE  Agree'
<1>1. Agree
  BY DEF DataInv, Agree
<1>2. /\ active_slot \in Slots /\ write_buf \in Nat
      /\ \A s \in Slots : /\ file[s] \in Segment /\ segments[s] \in Segment
                          /\ file[s].entries \in Nat /\ segments[s].entries \in Nat
                          /\ segments[s].generation \in Nat
  BY DEF TypeOK, Segment
<1>3. NextSlot \in Slots /\ NextSlot # active_slot
  BY <1>2, NextSlotFacts
<1>4. UNCHANGED <<file, segments, active_slot, write_buf, opened>> => Agree'
  BY <1>1 DEF Agree
<1>5. CASE Append(t)
  <2>1. UNCHANGED <<file, active_slot, opened>>
    BY <1>5 DEF Append, flags
  <2>2. CASE UNCHANGED <<segments, write_buf>>
    BY <1>4, <2>1, <2>2
  <2>3. CASE /\ segments' = [segments EXCEPT ![active_slot].entries = @ + 1]
             /\ write_buf' = write_buf + 1
    <3>1. \A s \in Slots :
             /\ segments'[s].generation = segments[s].generation
             /\ segments'[s].entries
                   = segments[s].entries + (IF s = active_slot THEN 1 ELSE 0)
      BY <1>2, <2>3 DEF TypeOK, Segment
    <3>. QED  BY <1>1, <1>2, <2>1, <2>3, <3>1 DEF Agree
  <2>. QED  BY <1>5, <2>2, <2>3 DEF Append
<1>6. CASE Sync(t) \/ Seal(t) \/ FlushLast(t)
  <2>1. opened /\ UNCHANGED <<segments, active_slot, opened>>
    BY <1>6, InnerFacts DEF Sync, Seal, FlushLast, flags, At, Inner
  <2>2. FlushActive \/ UNCHANGED <<file, write_buf>>
    BY <1>6 DEF Sync, Seal, FlushLast
  <2>. QED  BY <1>1, <1>4, <2>1, <2>2, FlushAgrees
<1>7. CASE Retire(t)
  <2>1. /\ segments' = [segments EXCEPT ![NextSlot] = Empty]
        /\ UNCHANGED <<file, active_slot, write_buf, opened>>
    BY <1>7 DEF Retire, flags
  <2>2. segments'[NextSlot].generation = 0
    BY <1>3, <2>1 DEF Empty, TypeOK
  <2>3. \A s \in Slots \ {NextSlot} : segments'[s] = segments[s]
    BY <2>1 DEF TypeOK
  <2>. QED  BY <1>1, <1>2, <1>3, <2>1, <2>2, <2>3 DEF Agree
<1>8. CASE Activate(t)
  <2>1. /\ opened /\ UNCHANGED opened
        /\ write_buf = 0 /\ segments[NextSlot].generation = 0
    BY <1>8, InnerFacts DEF Activate, flags, At, Inner, DataInv
  <2>. DEFINE new == [generation |-> segments[active_slot].generation + 1, entries |-> 0]
  <2>2. new.generation # 0 /\ new.entries = 0
    BY <1>2
  <2>. HIDE DEF new
  <2>3. CASE /\ file' = [file EXCEPT ![NextSlot] = new]
             /\ segments' = [segments EXCEPT ![NextSlot] = new]
             /\ active_slot' = NextSlot
             /\ write_buf' = 0
    <3>1. file'[NextSlot] = new /\ segments'[NextSlot] = new
      BY <1>3, <2>3 DEF TypeOK
    <3>2. \A s \in Slots \ {NextSlot} : file'[s] = file[s] /\ segments'[s] = segments[s]
      BY <2>3 DEF TypeOK
    <3>. QED  BY <1>1, <1>2, <1>3, <2>1, <2>2, <2>3, <3>1, <3>2 DEF Agree
  <2>4. CASE /\ file' \in {file, [file EXCEPT ![NextSlot] = new]}
             /\ UNCHANGED <<segments, active_slot, write_buf>>
    <3>1. file'[NextSlot] = new \/ file'[NextSlot] = file[NextSlot]
      BY <1>3, <2>4 DEF TypeOK
    <3>2. \A s \in Slots \ {NextSlot} : file'[s] = file[s]
      BY <2>4 DEF TypeOK
    <3>. QED  BY <1>1, <1>2, <1>3, <2>1, <2>2, <2>4, <3>1, <3>2 DEF Agree
  <2>. QED  BY <1>8, <2>3, <2>4 DEF Activate, new
<1>9. CASE Open(t)
  <2>1. segments' = file /\ file' = file /\ active_slot' \in Slots /\ write_buf' = 0
    BY <1>9 DEF Open
  <2>. QED  BY <1>1, <1>2, <2>1 DEF Agree
<1>10. CASE Close(t)
  <2>1. file' = file /\ opened' = FALSE
    BY <1>10 DEF Close
  <2>. QED  BY <1>1, <2>1 DEF Agree
<1>. QED  BY <1>4, <1>5, <1>6, <1>7, <1>8, <1>9, <1>10, StepStorage
(* Where the labels of a rotation, of a reader and of an anchor are entered.  *)
LEMMA StepLabels ==
    ASSUME TypeOK, NEW t \in Tasks, Call(t) \/ Timeout(t) \/ Step(t)
    PROVE  /\ pc'[t] \in {"rotate", "retire", "activate"} =>
                 (Seal(t) /\ FlushActive) \/ Rotate(t) \/ Retire(t)
           /\ pc'[t] \in {"share", "reading"} => Snapshot(t) \/ Share(t)
           /\ pc[t] = "anchored" => ChangeAnchors(t)
<1>. USE DEF TypeOK, Go, Return, At, AfterCheck, AfterWrite, Entered
<1>. DEFINE Goal == /\ pc'[t] \in {"rotate", "retire", "activate"} =>
                          (Seal(t) /\ FlushActive) \/ Rotate(t) \/ Retire(t)
                    /\ pc'[t] \in {"share", "reading"} => Snapshot(t) \/ Share(t)
                    /\ pc[t] = "anchored" => ChangeAnchors(t)
<1>1. Call(t) \/ Timeout(t) => Goal
  BY DEF Call, Timeout
<1>2. TakeLifecycle(t) \/ Check(t) \/ TakeWrite(t) \/ TakeRead(t) \/ Enter(t) => Goal
  BY DEF TakeLifecycle, Check, TakeWrite, TakeRead, Enter
<1>3. LeaveWrite(t) \/ Leave(t) \/ GiveWrite(t) \/ Query(t) => Goal
  BY DEF LeaveWrite, Leave, GiveWrite, Query
<1>4. Append(t) \/ Sync(t) \/ Activate(t) \/ Rotated(t) => Goal
  BY DEF Append, Sync, Activate, Rotated
<1>5. Seal(t) => Goal
  BY DEF Seal
<1>6. Rotate(t) \/ Retire(t) => Goal
  BY DEF Rotate, Retire
<1>7. LockAnchors(t) \/ ChangeAnchors(t) \/ UnlockAnchors(t) => Goal
  BY DEF LockAnchors, ChangeAnchors, UnlockAnchors
<1>8. Snapshot(t) \/ Share(t) \/ Release(t) => Goal
  BY DEF Snapshot, Share, Release
<1>9. Open(t) \/ Recovered(t) \/ Booted(t) \/ Shut(t) => Goal
  BY DEF Open, Recovered, Booted, Shut
<1>10. FlushLast(t) \/ Close(t) \/ GiveRead(t) \/ Unlock(t) \/ Unshut(t) => Goal
  BY DEF FlushLast, Close, GiveRead, Unlock, Unshut
<1>. HIDE DEF Goal, TypeOK, Go, Return, At, AfterCheck, AfterWrite, Entered
<1>11. Goal
  BY <1>1, <1>2, <1>3, <1>4, <1>5, <1>6, <1>7, <1>8, <1>9, <1>10 DEF Step
<1>. QED  BY <1>11 DEF Goal

(* Who initialises is alone with the storage.                                *)
LEMMA InitialisingAlone ==
    ASSUME LabelInv, LockInv, OpenInv, NEW t \in Tasks, Initialising(t),
           NEW u \in Tasks \ {t}
    PROVE  ~Inside(u) /\ ~Initialising(u)
<1>1. ~Inside(u)
  BY DEF OpenInv
<1>2. ~Initialising(u)
  BY Alone, InsideHolds DEF Mutexes
<1>. QED  BY <1>1, <1>2

(* Where a task opens or closes, no other is under write_lock or read_lock.  *)
LEMMA OpenCloseAlone ==
    ASSUME LabelInv, LockInv, OpenInv, NEW t \in Tasks, Open(t) \/ Close(t),
           NEW u \in Tasks \ {t}
    PROVE  pc[u] \notin Inner \cup {"share", "reading"}
<1>1. OfKind(op[t], pc[t]) /\ OfKind(op[u], pc[u])
  BY DEF LabelInv
<1>2. pc[t] \in {"open", "close"}
  BY DEF Open, Close, At
<1>3. SUFFICES ASSUME pc[u] \in Inner \cup {"share", "reading"} PROVE FALSE
  OBVIOUS
<1>4. CASE op[t] = "init"
  <2>1. Initialising(t)
    BY <1>2, <1>4 DEF Initialising
  <2>2. Inside(u) \/ Initialising(u)
    BY <1>1, <1>3 DEF Inner, OfKind, Entering, Writing, NoOperation, Inside, Initialising
  <2>. QED  BY <2>1, <2>2, InitialisingAlone
<1>5. CASE op[t] # "init"
  <2>1. Holds(op[t], pc[t], "write") /\ Holds(op[t], pc[t], "read")
    BY <1>1, <1>2, <1>5 DEF OfKind, Entering, Writing, NoOperation, Holds
  <2>2. Holds(op[u], pc[u], "write") \/ Holds(op[u], pc[u], "read")
    BY <1>3 DEF Inner, Holds, Writing
  <2>. QED  BY <2>1, <2>2, Alone DEF Mutexes
<1>. QED  BY <1>4, <1>5

(* Every step keeps memory and files in agreement, and during a rotation the *)
(* write buffer empty and the next slot retired.                             *)
LEMMA StepData ==
    ASSUME TypeOK, LabelInv, LockInv, OpenInv, DataInv, NEW t \in Tasks,
           Call(t) \/ Timeout(t) \/ Step(t)
    PROVE  DataInv'
<1>1. Agree'
  BY StepAgree
<1>2. ASSUME NEW u \in Tasks, pc'[u] \in {"rotate", "retire", "activate"}
      PROVE  write_buf' = 0 /\ (pc'[u] = "activate" => segments'[NextSlot'].generation = 0)
  <2>1. CASE u = t
    <3>1. CASE Seal(t) /\ FlushActive
      <4>1. write_buf' = 0 /\ pc'[t] # "activate"
        BY <3>1 DEF Seal, FlushActive, Go, TypeOK
      <4>. QED  BY <2>1, <4>1
    <3>2. CASE Rotate(t)
      <4>1. /\ pc[t] = "rotate" /\ write_buf' = write_buf
            /\ pc'[t] = "retire"
        BY <3>2 DEF Rotate, At, Go, storage, TypeOK
      <4>. QED  BY <2>1, <4>1 DEF DataInv
    <3>3. CASE Retire(t)
      <4>1. /\ pc[t] = "retire" /\ write_buf' = write_buf
            /\ segments' = [segments EXCEPT ![NextSlot] = Empty]
            /\ active_slot' = active_slot
        BY <3>3 DEF Retire, At
      <4>2. NextSlot' = NextSlot /\ NextSlot \in Slots
        BY <4>1, NextSlotFacts DEF NextSlot, TypeOK
      <4>3. segments'[NextSlot'].generation = 0
        BY <4>1, <4>2 DEF TypeOK, Empty
      <4>. QED  BY <2>1, <4>1, <4>3 DEF DataInv
    <3>. QED  BY <1>2, <2>1, <3>1, <3>2, <3>3, StepLabels
  <2>2. CASE u # t
    <3>1. pc'[u] = pc[u] /\ pc[u] \in Inner
      BY <1>2, <2>2, OthersStay DEF Inner
    <3>2. UNCHANGED <<segments, active_slot, write_buf>>
      <4>1. ~Open(t) /\ ~Close(t)
        BY <2>2, <3>1, OpenCloseAlone
      <4>2. pc[t] \notin Inner
        BY <2>2, <3>1, InnerFacts, Alone DEF Mutexes
      <4>3. /\ ~Append(t) /\ ~Sync(t) /\ ~Seal(t) /\ ~Retire(t) /\ ~Activate(t)
            /\ ~FlushLast(t)
        BY <4>2 DEF Append, Sync, Seal, Retire, Activate, FlushLast, At, Inner
      <4>. QED  BY <4>1, <4>3, StepStorage
    <3>3. NextSlot' = NextSlot
      BY <3>2 DEF NextSlot
    <3>. QED  BY <1>2, <3>1, <3>2, <3>3 DEF DataInv
  <2>. QED  BY <2>1, <2>2
<1>. QED  BY <1>1, <1>2 DEF DataInv, Agree

-----------------------------------------------------------------------------
(* Readers.                                                                  *)

(* The steps that change neither files nor copies.                           *)
LEMMA StepCopies ==
    ASSUME NEW t \in Tasks, Call(t) \/ Timeout(t) \/ Step(t),
           ~Sync(t), ~Seal(t), ~Activate(t), ~FlushLast(t), ~Close(t), ~Snapshot(t)
    PROVE  UNCHANGED <<file, copies>>
  BY DEF Step, Call, Timeout, TakeLifecycle, Check, TakeWrite, TakeRead, Enter, LeaveWrite,
         Leave, GiveWrite, Query, Append, Rotate, Retire, Rotated, LockAnchors,
         ChangeAnchors, UnlockAnchors, Share, Release, Open, Recovered, Booted, Shut,
         GiveRead, Unlock, Unshut, storage

(* The steps that change no anchor.                                          *)
LEMMA StepAnchors ==
    ASSUME NEW t \in Tasks, Call(t) \/ Timeout(t) \/ Step(t),
           ~ChangeAnchors(t), ~Open(t)
    PROVE  UNCHANGED anchors
  BY DEF Step, Call, Timeout, TakeLifecycle, Check, TakeWrite, TakeRead, Enter, LeaveWrite,
         Leave, GiveWrite, Query, Append, Sync, Seal, Rotate, Retire, Activate, Rotated,
         LockAnchors, UnlockAnchors, Snapshot, Share, Release, Recovered, Booted, Shut,
         FlushLast, Close, GiveRead, Unlock, Unshut, storage

(* A flush adds entries to a file that a reader's copy still covers.         *)
LEMMA FlushKeepsCopies ==
    ASSUME TypeOK, DataInv, Copied, opened, UNCHANGED copies,
           UNCHANGED <<segments, active_slot, opened>>,
           FlushActive \/ UNCHANGED <<file, write_buf>>
    PROVE  Copied'
<1>1. \A s \in Slots : /\ file'[s].generation = file[s].generation
                       /\ file'[s].entries >= file[s].entries
  <2>1. \A s \in Slots : file[s].entries \in Nat
    BY DEF TypeOK, Segment
  <2>2. CASE UNCHANGED file
    BY <2>1, <2>2
  <2>3. CASE FlushActive
    BY <2>3, FlushAgrees DEF DataInv, Agree
  <2>. QED  BY <2>2, <2>3
<1>2. /\ \A s \in Slots : file[s].entries \in Nat /\ read_segments[s].entries \in Nat
      /\ read_buf \in Nat
  BY DEF TypeOK, Segment
<1>3. \A s \in Slots : file'[s].entries \in Int
  <2>1. CASE UNCHANGED file
    BY <1>2, <2>1
  <2>2. CASE FlushActive
    BY <2>2, SegmentFacts DEF FlushActive, Segment
  <2>. QED  BY <2>1, <2>2
<1>. QED  BY <1>1, <1>2, <1>3 DEF Copied, copies

(* No step makes a reader's copies untrue.                                   *)
LEMMA StepReader ==
    ASSUME IInv, NEW t \in Tasks, Call(t) \/ Timeout(t) \/ Step(t)
    PROVE  ReaderInv'
<1>. USE DEF IInv
<1>1. ASSUME NEW u \in Tasks, pc'[u] \in {"share", "reading"}
      PROVE  Copied'
  <2>1. CASE u = t /\ Snapshot(t)
    <3>1. /\ read_segments' = segments /\ read_active' = active_slot
          /\ read_buf' = write_buf /\ file' = file
      BY <2>1 DEF Snapshot, storage
    <3>2. opened
      BY <2>1, InnerFacts DEF Snapshot, At, Inner
    <3>3. \A s \in Slots : file[s].entries \in Nat /\ segments[s].entries \in Nat
      BY DEF TypeOK, Segment
    <3>4. write_buf \in Nat
      BY DEF TypeOK
    <3>. QED  BY <3>1, <3>2, <3>3, <3>4 DEF DataInv, Copied
  <2>2. CASE u = t /\ Share(t)
    <3>1. pc[t] = "share" /\ UNCHANGED <<file, copies>>
      BY <2>2 DEF Share, At, storage
    <3>. QED  BY <3>1 DEF ReaderInv, Copied, copies
  <2>3. CASE u # t
    <3>1. pc[u] \in {"share", "reading"}
      BY <1>1, <2>3, OthersStay
    <3>2. Copied
      BY <3>1 DEF ReaderInv
    <3>3. ~Holds(op[t], pc[t], "read")
      BY <2>3, <3>1, Alone DEF Mutexes, Holds
    <3>4. ~Activate(t) /\ ~Snapshot(t) /\ ~FlushLast(t)
      BY <3>3 DEF Activate, Snapshot, FlushLast, At, Holds
    <3>5. ~Close(t)
      BY <2>3, <3>1, OpenCloseAlone
    <3>6. CASE Sync(t) \/ Seal(t)
      <4>1. opened
        BY <3>6, InnerFacts DEF Sync, Seal, At, Inner
      <4>2. /\ UNCHANGED copies /\ UNCHANGED <<segments, active_slot, opened>>
            /\ FlushActive \/ UNCHANGED <<file, write_buf>>
        BY <3>6 DEF Sync, Seal, flags
      <4>. QED  BY <3>2, <4>1, <4>2, FlushKeepsCopies
    <3>7. CASE ~Sync(t) /\ ~Seal(t)
      <4>1. UNCHANGED <<file, copies>>
        BY <3>4, <3>5, <3>7, StepCopies
      <4>. QED  BY <3>2, <4>1 DEF Copied, copies
    <3>. QED  BY <3>6, <3>7
  <2>. QED  BY <1>1, <2>1, <2>2, <2>3, StepLabels
<1>2. anchors' = "half" => \E u \in Tasks : pc'[u] = "anchored"
  <2>1. CASE ChangeAnchors(t)
    BY <2>1 DEF ChangeAnchors, Go, TypeOK
  <2>2. CASE Open(t)
    BY <2>2 DEF Open
  <2>3. CASE ~ChangeAnchors(t) /\ ~Open(t)
    <3>1. anchors' = anchors
      BY <2>3, StepAnchors
    <3>2. \A u \in Tasks : pc[u] = "anchored" => pc'[u] = "anchored"
      BY <2>3, StepLabels, OthersStay
    <3>. QED  BY <3>1, <3>2 DEF ReaderInv
  <2>. QED  BY <2>1, <2>2, <2>3
<1>. QED  BY <1>1, <1>2 DEF ReaderInv

-----------------------------------------------------------------------------

(* The invariant is inductive.                                               *)
LEMMA Inductive == IInv /\ [Next]_vars => IInv'
<1>. SUFFICES ASSUME IInv, [Next]_vars PROVE IInv'
  OBVIOUS
<1>1. CASE UNCHANGED vars
  BY <1>1 DEF IInv, TypeOK, LabelInv, LockInv, OpenInv, Inside, Initialising, DataInv, NextSlot,
              ReaderInv, Copied, vars, flags, storage, copies
<1>2. CASE Next
  <2>1. PICK t \in Tasks : Call(t) \/ Timeout(t) \/ Step(t)
    BY <1>2 DEF Next
  <2>2. TypeOK' /\ LabelInv' /\ LockInv'
    BY <2>1, StepLocks DEF IInv
  <2>3. OpenInv'
    BY <2>1, StepOpen DEF IInv
  <2>4. DataInv'
    BY <2>1, StepData DEF IInv
  <2>5. ReaderInv'
    BY <2>1, StepReader
  <2>. QED  BY <2>2, <2>3, <2>4, <2>5 DEF IInv
<1>. QED  BY <1>1, <1>2

(* Every reachable state satisfies it.                                       *)
THEOREM Invariance == Spec => []IInv
  BY InitInv, Inductive, PTL DEF Spec

(* Every variable keeps its type, whatever the tasks, segments and bounds.   *)
THEOREM TypeCorrect == Spec => []TypeOK
<1>1. IInv => TypeOK
  BY DEF IInv
<1>. QED  BY <1>1, Invariance, PTL

(* deinit() and a failed init() close the storage only when no task is       *)
(* inside it (on9rstore.cpp:385, on9rstore.cpp:270).                         *)
THEOREM NeverUsedClosed == Spec => []NoUseAfterClose
<1>1. IInv => NoUseAfterClose
  <2>. SUFFICES ASSUME IInv, NEW t \in Tasks, pc[t] \in Using PROVE opened
    BY DEF NoUseAfterClose
  <2>1. Inside(t) \/ (Initialising(t) /\ pc[t] # "open")
    BY DEF IInv, LabelInv, OfKind, Entering, Writing, NoOperation, Using, Changing, Inside,
           Initialising
  <2>. QED  BY <2>1 DEF IInv, OpenInv
<1>. QED  BY <1>1, Invariance, PTL

(* Two tasks never change the store at once, nor one while another copies it *)
(* for a read (read.cpp:35).                                                 *)
THEOREM OneWriter == Spec => []ChangesExclusive
<1>1. IInv => ChangesExclusive
  <2>. SUFFICES ASSUME IInv, NEW t \in Tasks, NEW u \in Tasks, t # u, pc[t] \in Changing,
                       pc[u] \in Changing \cup {"query", "snapshot"}
                PROVE  FALSE
    BY DEF ChangesExclusive
  <2>1. OfKind(op[t], pc[t]) /\ OfKind(op[u], pc[u])
    BY DEF IInv, LabelInv
  <2>2. Holds(op[t], pc[t], "write") \/ Initialising(t)
    BY <2>1 DEF OfKind, Entering, Writing, NoOperation, Changing, Holds, Initialising
  <2>3. Holds(op[u], pc[u], "write") \/ Initialising(u)
    BY <2>1 DEF OfKind, Entering, Writing, NoOperation, Changing, Holds, Initialising
  <2>4. (Inside(t) \/ Initialising(t)) /\ (Inside(u) \/ Initialising(u))
    BY <2>1 DEF OfKind, Entering, Writing, NoOperation, Changing, Inside, Initialising
  <2>. QED  BY <2>2, <2>3, <2>4, Alone, InitialisingAlone DEF IInv, Mutexes
<1>. QED  BY <1>1, Invariance, PTL

(* No slot of a reader's snapshot is reused and no entry of it is lost to it *)
(* while it reads files without write_lock (segment.cpp:868).                *)
THEOREM SnapshotsHold == Spec => []ReadersPinned
<1>1. IInv => ReadersPinned
  <2>. SUFFICES ASSUME IInv, NEW t \in Tasks, pc[t] \in {"share", "reading"}
                PROVE  anchors = "whole" /\ Copied
    BY DEF ReadersPinned, Copied
  <2>1. Copied
    BY DEF IInv, ReaderInv
  <2>2. \A u \in Tasks : pc[u] # "anchored"
    <3>1. Holds(op[t], pc[t], "read")
      BY DEF Holds
    <3>2. \A u \in Tasks : pc[u] = "anchored" => Holds(op[u], pc[u], "read")
      BY DEF Holds
    <3>. QED  BY <3>1, <3>2, Alone DEF IInv, Mutexes
  <2>. QED  BY <2>1, <2>2 DEF IInv, ReaderInv, TypeOK
<1>. QED  BY <1>1, Invariance, PTL

(* A reader at its files holds read_lock alone: appends go on (README.md:554). *)
THEOREM ReadersShare == Spec => []ReadersLetAppendsIn
<1>1. IInv => ReadersLetAppendsIn
  <2>. SUFFICES ASSUME IInv PROVE ReadersLetAppendsIn
    OBVIOUS
  <2>1. \A t \in Tasks : OfKind(op[t], pc[t])
    BY DEF IInv, LabelInv
  <2>2. \A t \in Tasks, m \in Mutexes : holder[m] = t => Holds(op[t], pc[t], m)
    BY DEF IInv, LockInv
  <2>. QED  BY <2>1, <2>2 DEF ReadersLetAppendsIn, OfKind, Entering, Writing, Holds, Mutexes
<1>. QED  BY <1>1, Invariance, PTL

(* A task that returned holds no mutex, timeouts and failures included       *)
(* (acquire_read_operation_locks, read.cpp:5).                               *)
THEOREM NothingKept == Spec => []IdleHoldsNothing
<1>1. IInv => IdleHoldsNothing
  <2>. SUFFICES ASSUME IInv PROVE IdleHoldsNothing
    OBVIOUS
  <2>1. \A t \in Tasks, m \in Mutexes : holder[m] = t => Holds(op[t], pc[t], m)
    BY DEF IInv, LockInv
  <2>2. \A t \in Tasks, m \in Mutexes : pc[t] = "idle" => ~Holds(op[t], pc[t], m)
    BY DEF Holds, Writing
  <2>. QED  BY <2>1, <2>2 DEF IdleHoldsNothing
<1>. QED  BY <1>1, Invariance, PTL
=============================================================================
