------------------------------- MODULE RWLock -------------------------------
(***************************************************************************)
(* The lock of the table of trees and of the membership groups,            *)
(* rwlock/RWLock.py class RWLockWrite: five threading.Locks and two        *)
(* counters.  An action is one blocking acquire with the statements up to  *)
(* the next one: a release never blocks, so it can be taken together with  *)
(* what precedes it.  The program takes the lock with `with` only, so      *)
(* acquire() never times out; a thread does not nest it.                   *)
(***************************************************************************)
EXTENDS Naturals, FiniteSets

CONSTANT Threads
ASSUME ThreadsAssumption == IsFiniteSet(Threads)

VARIABLES stage,        \* per thread: where it is in acquire() or release()
          locked,       \* the threading.Locks somebody holds
          V_ReadCount,
          V_WriteCount

vars == <<stage, locked, V_ReadCount, V_WriteCount>>

Locks == {"ReadEntry", "ReadTry", "ReadCount", "WriteCount", "Resource"}

ReaderStages == {"entry",      \* holds ReadEntry, waits for ReadTry
                 "try",        \* and ReadTry, waits for ReadCount
                 "first",      \* and ReadCount, waits for Resource
                 "reading"}
WriterStages == {"bar",        \* holds WriteCount, waits for ReadTry
                 "resource",   \* counted, waits for Resource
                 "writing",
                 "leaving"}    \* released Resource, waits for WriteCount

\* The threads that V_ReadCount and V_WriteCount count.
CountedReaders == {t \in Threads : stage[t] \in {"first", "reading"}}
CountedWriters == {t \in Threads : stage[t] \in WriterStages}

Init == /\ stage = [t \in Threads |-> "idle"]
        /\ locked = {}
        /\ V_ReadCount = 0
        /\ V_WriteCount = 0

At(t, here, next) == /\ stage[t] = here
                     /\ stage' = [stage EXCEPT ![t] = next]

Acquire(lock) == lock \notin locked /\ locked' = locked \cup {lock}

-----------------------------------------------------------------------------
(* The reader: acquire(), then release() *)

TakeReadEntry(t) == /\ At(t, "idle", "entry")
                    /\ Acquire("ReadEntry")
                    /\ UNCHANGED <<V_ReadCount, V_WriteCount>>

TakeReadTry(t) == /\ At(t, "entry", "try")
                  /\ Acquire("ReadTry")
                  /\ UNCHANGED <<V_ReadCount, V_WriteCount>>

\* The fault: a reader that finds others inside is not counted.
CountNextReader_Uncounted(t) == /\ At(t, "try", "reading")
                                /\ V_ReadCount > 0
                                /\ "ReadCount" \notin locked
                                /\ locked' = locked \ {"ReadTry", "ReadEntry"}
                                /\ UNCHANGED <<V_ReadCount, V_WriteCount>>

\* The first reader goes on to the resource, and keeps the three locks for it.
CountFirstReader(t) == /\ At(t, "try", "first")
                       /\ V_ReadCount = 0
                       /\ Acquire("ReadCount")
                       /\ V_ReadCount' = 1
                       /\ UNCHANGED V_WriteCount

CountNextReader(t) == /\ At(t, "try", "reading")
                      /\ V_ReadCount > 0
                      /\ "ReadCount" \notin locked
                      /\ V_ReadCount' = V_ReadCount + 1
                      /\ locked' = locked \ {"ReadTry", "ReadEntry"}
                      /\ UNCHANGED V_WriteCount

TakeResourceToRead(t) ==
    /\ At(t, "first", "reading")
    /\ "Resource" \notin locked
    /\ locked' = (locked \cup {"Resource"}) \ {"ReadCount", "ReadTry", "ReadEntry"}
    /\ UNCHANGED <<V_ReadCount, V_WriteCount>>

\* The fault: any reader that leaves gives the resource back.
ReleaseReader_Always(t) ==
    /\ At(t, "reading", "idle")
    /\ "ReadCount" \notin locked
    /\ V_ReadCount' = V_ReadCount - 1
    /\ locked' = locked \ {"Resource"}
    /\ UNCHANGED V_WriteCount

\* The last reader gives the resource back, whoever took it.
ReleaseReader(t) ==
    /\ At(t, "reading", "idle")
    /\ "ReadCount" \notin locked
    /\ V_ReadCount' = V_ReadCount - 1
    /\ locked' = IF V_ReadCount = 1 THEN locked \ {"Resource"} ELSE locked
    /\ UNCHANGED V_WriteCount

-----------------------------------------------------------------------------
(* The writer: acquire(), then release() *)

\* The first writer bars the way, and keeps WriteCount until it has.
CountFirstWriter(t) == /\ At(t, "idle", "bar")
                       /\ V_WriteCount = 0
                       /\ Acquire("WriteCount")
                       /\ V_WriteCount' = 1
                       /\ UNCHANGED V_ReadCount

CountNextWriter(t) == /\ At(t, "idle", "resource")
                      /\ V_WriteCount > 0
                      /\ "WriteCount" \notin locked
                      /\ V_WriteCount' = V_WriteCount + 1
                      /\ UNCHANGED <<locked, V_ReadCount>>

\* The fault: the first writer gives ReadTry back with WriteCount.
BarReaders_NotKept(t) == /\ At(t, "bar", "resource")
                         /\ "ReadTry" \notin locked
                         /\ locked' = locked \ {"WriteCount"}
                         /\ UNCHANGED <<V_ReadCount, V_WriteCount>>

BarReaders(t) == /\ At(t, "bar", "resource")
                 /\ "ReadTry" \notin locked
                 /\ locked' = (locked \cup {"ReadTry"}) \ {"WriteCount"}
                 /\ UNCHANGED <<V_ReadCount, V_WriteCount>>

TakeResourceToWrite(t) == /\ At(t, "resource", "writing")
                          /\ Acquire("Resource")
                          /\ UNCHANGED <<V_ReadCount, V_WriteCount>>

ReleaseResource(t) == /\ At(t, "writing", "leaving")
                      /\ locked' = locked \ {"Resource"}
                      /\ UNCHANGED <<V_ReadCount, V_WriteCount>>

\* The fault: the way is opened by the first writer that leaves.
CountWriterOut_Always(t) == /\ At(t, "leaving", "idle")
                            /\ "WriteCount" \notin locked
                            /\ V_WriteCount' = V_WriteCount - 1
                            /\ locked' = locked \ {"ReadTry"}
                            /\ UNCHANGED V_ReadCount

\* The last writer lets the readers try again.
CountWriterOut(t) ==
    /\ At(t, "leaving", "idle")
    /\ "WriteCount" \notin locked
    /\ V_WriteCount' = V_WriteCount - 1
    /\ locked' = IF V_WriteCount = 1 THEN locked \ {"ReadTry"} ELSE locked
    /\ UNCHANGED V_ReadCount

-----------------------------------------------------------------------------
Reader(t) == \/ TakeReadEntry(t)
             \/ TakeReadTry(t)
             \/ CountFirstReader(t)
             \/ CountNextReader(t)
             \/ TakeResourceToRead(t)
             \/ ReleaseReader(t)

Writer(t) == \/ CountFirstWriter(t)
             \/ CountNextWriter(t)
             \/ BarReaders(t)
             \/ TakeResourceToWrite(t)
             \/ ReleaseResource(t)
             \/ CountWriterOut(t)

Next == \E t \in Threads : Reader(t) \/ Writer(t)

Spec == Init /\ [][Next]_vars

\* A thread runs whenever it is not blocked, and leaves a section it entered;
\* nothing says which of the waiting threads gets a lock.
FairSpec == /\ Spec
            /\ \A t \in Threads : WF_vars(/\ stage[t] # "idle"
                                          /\ Reader(t) \/ Writer(t))

-----------------------------------------------------------------------------
TypeOK == /\ stage \in [Threads -> ReaderStages \cup WriterStages \cup {"idle"}]
          /\ locked \subseteq Locks
          /\ V_ReadCount \in Nat
          /\ V_WriteCount \in Nat

Barring == {t \in Threads : stage[t] \in WriterStages \ {"bar"}}

\* The lock implements the readers and writers its docstring promises: what is
\* behind "preference to Writer" is that ReadTry is the writers' from the
\* first to the last of them.
RW == INSTANCE ReadersWriters WITH
          reading <- {t \in Threads : stage[t] = "reading"},
          writing <- {t \in Threads : stage[t] = "writing"},
          barred <- Barring # {}

ImplementsReadersWriters == RW!Spec

\* The first reader takes the resource under ReadCount, which the readers that
\* leave need, and under ReadTry, which the writers need: it would block them
\* all, so it must never find the resource taken (RWLock.py:129).
FirstReaderNeverWaits ==
    (\E t \in Threads : stage[t] = "first") => "Resource" \notin locked

\* Once the way is barred a writer gets in, whatever the readers do: they
\* leave, and none of them comes back before (RWLock.py:95).
WritersGetIn ==
    (\E t \in Threads : stage[t] = "resource") ~> (\E t \in Threads : stage[t] = "writing")

=============================================================================
