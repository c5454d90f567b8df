---------------------------- MODULE RWLockProofs ----------------------------
(***************************************************************************)
(* The readers-writer lock keeps its promise for every finite set of       *)
(* threads: types, the reader that counts itself first never waits, and    *)
(* RWLockWrite implements ReadersWriters.                                  *)
(*                                                                         *)
(* The inductive invariant says who holds each lock: it is the stages of   *)
(* the threads that tell, and the counters count those stages.             *)
(***************************************************************************)
EXTENDS RWLock, FiniteSetTheorems, TLAPS

\* The counters count the threads between their increment and their decrement.
CountsAreTrue == /\ V_ReadCount = Cardinality(CountedReaders)
                 /\ V_WriteCount = Cardinality(CountedWriters)

\* One reader at a time is between ReadEntry and the section; the one that
\* waits for the resource holds ReadCount and is the only one counted.
EntryHeld ==
    /\ \A t \in Threads : stage[t] \in {"entry", "try", "first"} => "ReadEntry" \in locked
    /\ \A t, u \in Threads : /\ stage[t] \in {"entry", "try", "first"}
                             /\ stage[u] \in {"entry", "try", "first"}
                             => t = u
    /\ \A t \in Threads : stage[t] = "first" => /\ "ReadCount" \in locked
                                                /\ CountedReaders = {t}

\* ReadTry is a reader's or the writers', never both.
ReadTryHeld ==
    /\ \A t \in Threads : stage[t] \in {"try", "first"} \cup (WriterStages \ {"bar"})
                            => "ReadTry" \in locked
    /\ \A t, u \in Threads : ~ /\ stage[t] \in {"try", "first"}
                               /\ stage[u] \in WriterStages \ {"bar"}
    /\ \A t \in Threads : stage[t] = "bar" => /\ "WriteCount" \in locked
                                              /\ CountedWriters = {t}

\* The resource is held by those inside and by nobody else.
ResourceHeld ==
    /\ "Resource" \in locked <=> \E t \in Threads : stage[t] \in {"reading", "writing"}
    /\ \A t, u \in Threads : stage[t] = "writing" /\ stage[u] \in {"reading", "writing"}
                               => t = u

LockInv == /\ TypeOK
           /\ CountsAreTrue
           /\ EntryHeld
           /\ ReadTryHeld
           /\ ResourceHeld

-----------------------------------------------------------------------------
(* Counting *)

LEMMA CountedAreFinite ==
  /\ IsFiniteSet(CountedReaders)
  /\ IsFiniteSet(CountedWriters)
<1>1. CountedReaders \subseteq Threads /\ CountedWriters \subseteq Threads
  BY DEF CountedReaders, CountedWriters
<1> QED
  BY <1>1, FS_Subset, ThreadsAssumption

\* What the values the code tests say of the threads.
LEMMA CountsMean ==
  ASSUME CountsAreTrue
  PROVE  /\ V_ReadCount = 0 <=> CountedReaders = {}
         /\ V_ReadCount = 1 <=> \E t : CountedReaders = {t}
         /\ V_WriteCount = 0 <=> CountedWriters = {}
         /\ V_WriteCount = 1 <=> \E t : CountedWriters = {t}
         /\ V_ReadCount \in Nat
         /\ V_WriteCount \in Nat
<1>1. /\ Cardinality(CountedReaders) \in Nat
      /\ Cardinality(CountedWriters) \in Nat
  BY CountedAreFinite, FS_CardinalityType
<1>2. /\ Cardinality(CountedReaders) = 0 <=> CountedReaders = {}
      /\ Cardinality(CountedWriters) = 0 <=> CountedWriters = {}
  BY CountedAreFinite, FS_EmptySet
<1>3. /\ Cardinality(CountedReaders) = 1 <=> \E t : CountedReaders = {t}
      /\ Cardinality(CountedWriters) = 1 <=> \E t : CountedWriters = {t}
  BY CountedAreFinite, FS_Singleton
<1> QED
  BY <1>1, <1>2, <1>3 DEF CountsAreTrue

LEMMA ReaderIn ==
  ASSUME TypeOK, CountsAreTrue, NEW t \in Threads,
         t \notin CountedReaders, CountedReaders' = CountedReaders \cup {t},
         CountedWriters' = CountedWriters,
         V_ReadCount' = V_ReadCount + 1, V_WriteCount' = V_WriteCount
  PROVE  CountsAreTrue'
<1>1. Cardinality(CountedReaders \cup {t}) = Cardinality(CountedReaders) + 1
  BY CountedAreFinite, FS_AddElement
<1> QED
  BY <1>1 DEF CountsAreTrue

LEMMA ReaderOut ==
  ASSUME TypeOK, CountsAreTrue, NEW t \in Threads,
         t \in CountedReaders, CountedReaders' = CountedReaders \ {t},
         CountedWriters' = CountedWriters,
         V_ReadCount' = V_ReadCount - 1, V_WriteCount' = V_WriteCount
  PROVE  CountsAreTrue'
<1>1. Cardinality(CountedReaders \ {t}) = Cardinality(CountedReaders) - 1
  BY CountedAreFinite, FS_RemoveElement
<1> QED
  BY <1>1 DEF CountsAreTrue

LEMMA WriterIn ==
  ASSUME TypeOK, CountsAreTrue, NEW t \in Threads,
         t \notin CountedWriters, CountedWriters' = CountedWriters \cup {t},
         CountedReaders' = CountedReaders,
         V_WriteCount' = V_WriteCount + 1, V_ReadCount' = V_ReadCount
  PROVE  CountsAreTrue'
<1>1. Cardinality(CountedWriters \cup {t}) = Cardinality(CountedWriters) + 1
  BY CountedAreFinite, FS_AddElement
<1> QED
  BY <1>1 DEF CountsAreTrue

LEMMA WriterOut ==
  ASSUME TypeOK, CountsAreTrue, NEW t \in Threads,
         t \in CountedWriters, CountedWriters' = CountedWriters \ {t},
         CountedReaders' = CountedReaders,
         V_WriteCount' = V_WriteCount - 1, V_ReadCount' = V_ReadCount
  PROVE  CountsAreTrue'
<1>1. Cardinality(CountedWriters \ {t}) = Cardinality(CountedWriters) - 1
  BY CountedAreFinite, FS_RemoveElement
<1> QED
  BY <1>1 DEF CountsAreTrue

\* What a move of one thread does to the two counted sets.
LEMMA MoveCounts ==
  ASSUME TypeOK, NEW t \in Threads, NEW here, NEW next, At(t, here, next)
  PROVE  /\ stage[t] = here
         /\ stage'[t] = next
         /\ \A u \in Threads : u # t => stage'[u] = stage[u]
         /\ here \in {"first", "reading"} <=> t \in CountedReaders
         /\ here \in WriterStages <=> t \in CountedWriters
         /\ CountedReaders' = IF next \in {"first", "reading"}
                              THEN CountedReaders \cup {t} ELSE CountedReaders \ {t}
         /\ CountedWriters' = IF next \in WriterStages
                              THEN CountedWriters \cup {t} ELSE CountedWriters \ {t}
<1>1. /\ stage[t] = here
      /\ stage'[t] = next
      /\ \A u \in Threads : u # t => stage'[u] = stage[u]
  BY DEF At, TypeOK
<1> QED
  BY <1>1 DEF CountedReaders, CountedWriters

-----------------------------------------------------------------------------
(* One lemma per action: what it changes in the locks, the counters and the *)
(* stage of its thread keeps each part of the invariant *)

LEMMA TakeReadEntryKeeps ==
  ASSUME LockInv, NEW t \in Threads, TakeReadEntry(t)
  PROVE  LockInv'
<1>1. At(t, "idle", "entry")
  BY DEF TakeReadEntry
<1>2. /\ stage[t] = "idle"
      /\ stage'[t] = "entry"
      /\ \A u \in Threads : u # t => stage'[u] = stage[u]
  BY <1>1, MoveCounts DEF LockInv
<1>3. /\ CountedReaders' = CountedReaders
      /\ CountedWriters' = CountedWriters
      /\ t \notin CountedReaders
      /\ t \notin CountedWriters
  BY <1>1, MoveCounts DEF LockInv, WriterStages
<1>4. CountsAreTrue'
  BY <1>3 DEF LockInv, CountsAreTrue, TakeReadEntry
<1>5. TypeOK'
  BY <1>1, <1>3, CountsMean DEF LockInv, TypeOK, At, TakeReadEntry, Acquire, Locks, ReaderStages, WriterStages
<1>6. EntryHeld'
  BY <1>2, <1>3, CountsMean DEF LockInv, EntryHeld, ResourceHeld, TakeReadEntry, Acquire, CountedReaders
<1>7. ReadTryHeld'
  BY <1>2, <1>3, CountsMean DEF LockInv, EntryHeld, ReadTryHeld, TakeReadEntry, Acquire, WriterStages, CountedWriters
<1>8. ResourceHeld'
  BY <1>2, <1>3, CountsMean DEF LockInv, ResourceHeld, EntryHeld, ReadTryHeld, TakeReadEntry, Acquire, CountedReaders, WriterStages
<1> QED
  BY <1>4, <1>5, <1>6, <1>7, <1>8 DEF LockInv

LEMMA TakeReadTryKeeps ==
  ASSUME LockInv, NEW t \in Threads, TakeReadTry(t)
  PROVE  LockInv'
<1>1. At(t, "entry", "try")
  BY DEF TakeReadTry
<1>2. /\ stage[t] = "entry"
      /\ stage'[t] = "try"
      /\ \A u \in Threads : u # t => stage'[u] = stage[u]
  BY <1>1, MoveCounts DEF LockInv
<1>3. /\ CountedReaders' = CountedReaders
      /\ CountedWriters' = CountedWriters
      /\ t \notin CountedReaders
      /\ t \notin CountedWriters
  BY <1>1, MoveCounts DEF LockInv, WriterStages
<1>4. CountsAreTrue'
  BY <1>3 DEF LockInv, CountsAreTrue, TakeReadTry
<1>5. TypeOK'
  BY <1>1, <1>3, CountsMean DEF LockInv, TypeOK, At, TakeReadTry, Acquire, Locks, ReaderStages, WriterStages
<1>6. EntryHeld'
  BY <1>2, <1>3, CountsMean DEF LockInv, EntryHeld, ResourceHeld, TakeReadTry, Acquire, CountedReaders
<1>7. ReadTryHeld'
  BY <1>2, <1>3, CountsMean DEF LockInv, EntryHeld, ReadTryHeld, TakeReadTry, Acquire, WriterStages, CountedWriters
<1>8. ResourceHeld'
  BY <1>2, <1>3, CountsMean DEF LockInv, ResourceHeld, EntryHeld, ReadTryHeld, TakeReadTry, Acquire, CountedReaders, WriterStages
<1> QED
  BY <1>4, <1>5, <1>6, <1>7, <1>8 DEF LockInv

LEMMA CountFirstReaderKeeps ==
  ASSUME LockInv, NEW t \in Threads, CountFirstReader(t)
  PROVE  LockInv'
<1>1. At(t, "try", "first")
  BY DEF CountFirstReader
<1>2. /\ stage[t] = "try"
      /\ stage'[t] = "first"
      /\ \A u \in Threads : u # t => stage'[u] = stage[u]
  BY <1>1, MoveCounts DEF LockInv
<1>3. /\ CountedReaders' = CountedReaders \cup {t}
      /\ CountedWriters' = CountedWriters
      /\ t \notin CountedReaders
      /\ t \notin CountedWriters
  BY <1>1, MoveCounts DEF LockInv, WriterStages
<1>4. CountsAreTrue'
  BY <1>3, ReaderIn DEF LockInv, CountFirstReader
<1>5. TypeOK'
  BY <1>1, <1>3, CountsMean DEF LockInv, TypeOK, At, CountFirstReader, Acquire, Locks, ReaderStages, WriterStages
<1>6. EntryHeld'
  BY <1>2, <1>3, CountsMean DEF LockInv, EntryHeld, ResourceHeld, CountFirstReader, Acquire, CountedReaders
<1>7. ReadTryHeld'
  BY <1>2, <1>3, CountsMean DEF LockInv, EntryHeld, ReadTryHeld, CountFirstReader, Acquire, WriterStages, CountedWriters
<1>8. ResourceHeld'
  BY <1>2, <1>3, CountsMean DEF LockInv, ResourceHeld, EntryHeld, ReadTryHeld, CountFirstReader, Acquire, CountedReaders, WriterStages
<1> QED
  BY <1>4, <1>5, <1>6, <1>7, <1>8 DEF LockInv

LEMMA CountNextReaderKeeps ==
  ASSUME LockInv, NEW t \in Threads, CountNextReader(t)
  PROVE  LockInv'
<1>1. At(t, "try", "reading")
  BY DEF CountNextReader
<1>2. /\ stage[t] = "try"
      /\ stage'[t] = "reading"
      /\ \A u \in Threads : u # t => stage'[u] = stage[u]
  BY <1>1, MoveCounts DEF LockInv
<1>3. /\ CountedReaders' = CountedReaders \cup {t}
      /\ CountedWriters' = CountedWriters
      /\ t \notin CountedReaders
      /\ t \notin CountedWriters
  BY <1>1, MoveCounts DEF LockInv, WriterStages
<1>4. CountsAreTrue'
  BY <1>3, ReaderIn DEF LockInv, CountNextReader
<1>5. TypeOK'
  BY <1>1, <1>3, CountsMean DEF LockInv, TypeOK, At, CountNextReader, Acquire, Locks, ReaderStages, WriterStages
<1>6. EntryHeld'
  BY <1>2, <1>3, CountsMean DEF LockInv, EntryHeld, ResourceHeld, CountNextReader, Acquire, CountedReaders
<1>7. ReadTryHeld'
  BY <1>2, <1>3, CountsMean DEF LockInv, EntryHeld, ReadTryHeld, CountNextReader, Acquire, WriterStages, CountedWriters
<1>8. ResourceHeld'
  BY <1>2, <1>3, CountsMean DEF LockInv, ResourceHeld, EntryHeld, ReadTryHeld, CountNextReader, Acquire, CountedReaders, WriterStages
<1> QED
  BY <1>4, <1>5, <1>6, <1>7, <1>8 DEF LockInv

LEMMA TakeResourceToReadKeeps ==
  ASSUME LockInv, NEW t \in Threads, TakeResourceToRead(t)
  PROVE  LockInv'
<1>1. At(t, "first", "reading")
  BY DEF TakeResourceToRead
<1>2. /\ stage[t] = "first"
      /\ stage'[t] = "reading"
      /\ \A u \in Threads : u # t => stage'[u] = stage[u]
  BY <1>1, MoveCounts DEF LockInv
<1>3. /\ CountedReaders' = CountedReaders
      /\ CountedWriters' = CountedWriters
      /\ t \in CountedReaders
      /\ t \notin CountedWriters
  BY <1>1, MoveCounts DEF LockInv, WriterStages
<1>4. CountsAreTrue'
  BY <1>3 DEF LockInv, CountsAreTrue, TakeResourceToRead
<1>5. TypeOK'
  BY <1>1, <1>3, CountsMean DEF LockInv, TypeOK, At, TakeResourceToRead, Acquire, Locks, ReaderStages, WriterStages
<1>6. EntryHeld'
  BY <1>2, <1>3, CountsMean DEF LockInv, EntryHeld, ResourceHeld, TakeResourceToRead, Acquire, CountedReaders
<1>7. ReadTryHeld'
  BY <1>2, <1>3, CountsMean DEF LockInv, EntryHeld, ReadTryHeld, TakeResourceToRead, Acquire, WriterStages, CountedWriters
<1>8. ResourceHeld'
  BY <1>2, <1>3, CountsMean DEF LockInv, ResourceHeld, EntryHeld, ReadTryHeld, TakeResourceToRead, Acquire, CountedReaders, WriterStages
<1> QED
  BY <1>4, <1>5, <1>6, <1>7, <1>8 DEF LockInv

LEMMA ReleaseReaderKeeps ==
  ASSUME LockInv, NEW t \in Threads, ReleaseReader(t)
  PROVE  LockInv'
<1>1. At(t, "reading", "idle")
  BY DEF ReleaseReader
<1>2. /\ stage[t] = "reading"
      /\ stage'[t] = "idle"
      /\ \A u \in Threads : u # t => stage'[u] = stage[u]
  BY <1>1, MoveCounts DEF LockInv
<1>3. /\ CountedReaders' = CountedReaders \ {t}
      /\ CountedWriters' = CountedWriters
      /\ t \in CountedReaders
      /\ t \notin CountedWriters
  BY <1>1, MoveCounts DEF LockInv, WriterStages
<1>4. CountsAreTrue'
  BY <1>3, ReaderOut DEF LockInv, ReleaseReader
<1>5. TypeOK'
  BY <1>1, <1>3, CountsMean DEF LockInv, TypeOK, At, ReleaseReader, Acquire, Locks, ReaderStages, WriterStages
<1>6. EntryHeld'
  BY <1>2, <1>3, CountsMean DEF LockInv, EntryHeld, ResourceHeld, ReleaseReader, Acquire, CountedReaders
<1>7. ReadTryHeld'
  BY <1>2, <1>3, CountsMean DEF LockInv, EntryHeld, ReadTryHeld, ReleaseReader, Acquire, WriterStages, CountedWriters
<1>8. ResourceHeld'
  BY <1>2, <1>3, CountsMean DEF LockInv, ResourceHeld, EntryHeld, ReadTryHeld, ReleaseReader, Acquire, CountedReaders, WriterStages
<1> QED
  BY <1>4, <1>5, <1>6, <1>7, <1>8 DEF LockInv

LEMMA CountFirstWriterKeeps ==
  ASSUME LockInv, NEW t \in Threads, CountFirstWriter(t)
  PROVE  LockInv'
<1>1. At(t, "idle", "bar")
  BY DEF CountFirstWriter
<1>2. /\ stage[t] = "idle"
      /\ stage'[t] = "bar"
      /\ \A u \in Threads : u # t => stage'[u] = stage[u]
  BY <1>1, MoveCounts DEF LockInv
<1>3. /\ CountedReaders' = CountedReaders
      /\ CountedWriters' = CountedWriters \cup {t}
      /\ t \notin CountedReaders
      /\ t \notin CountedWriters
  BY <1>1, MoveCounts DEF LockInv, WriterStages
<1>4. CountsAreTrue'
  BY <1>3, WriterIn DEF LockInv, CountFirstWriter
<1>5. TypeOK'
  BY <1>1, <1>3, CountsMean DEF LockInv, TypeOK, At, CountFirstWriter, Acquire, Locks, ReaderStages, WriterStages
<1>6. EntryHeld'
  BY <1>2, <1>3, CountsMean DEF LockInv, EntryHeld, ResourceHeld, CountFirstWriter, Acquire, CountedReaders
<1>7. ReadTryHeld'
  BY <1>2, <1>3, CountsMean DEF LockInv, EntryHeld, ReadTryHeld, CountFirstWriter, Acquire, WriterStages, CountedWriters
<1>8. ResourceHeld'
  BY <1>2, <1>3, CountsMean DEF LockInv, ResourceHeld, EntryHeld, ReadTryHeld, CountFirstWriter, Acquire, CountedReaders, WriterStages
<1> QED
  BY <1>4, <1>5, <1>6, <1>7, <1>8 DEF LockInv

LEMMA CountNextWriterKeeps ==
  ASSUME LockInv, NEW t \in Threads, CountNextWriter(t)
  PROVE  LockInv'
<1>1. At(t, "idle", "resource")
  BY DEF CountNextWriter
<1>2. /\ stage[t] = "idle"
      /\ stage'[t] = "resource"
      /\ \A u \in Threads : u # t => stage'[u] = stage[u]
  BY <1>1, MoveCounts DEF LockInv
<1>3. /\ CountedReaders' = CountedReaders
      /\ CountedWriters' = CountedWriters \cup {t}
      /\ t \notin CountedReaders
      /\ t \notin CountedWriters
  BY <1>1, MoveCounts DEF LockInv, WriterStages
<1>4. CountsAreTrue'
  BY <1>3, WriterIn DEF LockInv, CountNextWriter
<1>5. TypeOK'
  BY <1>1, <1>3, CountsMean DEF LockInv, TypeOK, At, CountNextWriter, Acquire, Locks, ReaderStages, WriterStages
<1>6. EntryHeld'
  BY <1>2, <1>3, CountsMean DEF LockInv, EntryHeld, ResourceHeld, CountNextWriter, Acquire, CountedReaders
<1>7. ReadTryHeld'
  BY <1>2, <1>3, CountsMean DEF LockInv, EntryHeld, ReadTryHeld, CountNextWriter, Acquire, WriterStages, CountedWriters
<1>8. ResourceHeld'
  BY <1>2, <1>3, CountsMean DEF LockInv, ResourceHeld, EntryHeld, ReadTryHeld, CountNextWriter, Acquire, CountedReaders, WriterStages
<1> QED
  BY <1>4, <1>5, <1>6, <1>7, <1>8 DEF LockInv

LEMMA BarReadersKeeps ==
  ASSUME LockInv, NEW t \in Threads, BarReaders(t)
  PROVE  LockInv'
<1>1. At(t, "bar", "resource")
  BY DEF BarReaders
<1>2. /\ stage[t] = "bar"
      /\ stage'[t] = "resource"
      /\ \A u \in Threads : u # t => stage'[u] = stage[u]
  BY <1>1, MoveCounts DEF LockInv
<1>3. /\ CountedReaders' = CountedReaders
      /\ CountedWriters' = CountedWriters
      /\ t \notin CountedReaders
      /\ t \in CountedWriters
  BY <1>1, MoveCounts DEF LockInv, WriterStages
<1>4. CountsAreTrue'
  BY <1>3 DEF LockInv, CountsAreTrue, BarReaders
<1>5. TypeOK'
  BY <1>1, <1>3, CountsMean DEF LockInv, TypeOK, At, BarReaders, Acquire, Locks, ReaderStages, WriterStages
<1>6. EntryHeld'
  BY <1>2, <1>3, CountsMean DEF LockInv, EntryHeld, ResourceHeld, BarReaders, Acquire, CountedReaders
<1>7. ReadTryHeld'
  BY <1>2, <1>3, CountsMean DEF LockInv, EntryHeld, ReadTryHeld, BarReaders, Acquire, WriterStages, CountedWriters
<1>8. ResourceHeld'
  BY <1>2, <1>3, CountsMean DEF LockInv, ResourceHeld, EntryHeld, ReadTryHeld, BarReaders, Acquire, CountedReaders, WriterStages
<1> QED
  BY <1>4, <1>5, <1>6, <1>7, <1>8 DEF LockInv

LEMMA TakeResourceToWriteKeeps ==
  ASSUME LockInv, NEW t \in Threads, TakeResourceToWrite(t)
  PROVE  LockInv'
<1>1. At(t, "resource", "writing")
  BY DEF TakeResourceToWrite
<1>2. /\ stage[t] = "resource"
      /\ stage'[t] = "writing"
      /\ \A u \in Threads : u # t => stage'[u] = stage[u]
  BY <1>1, MoveCounts DEF LockInv
<1>3. /\ CountedReaders' = CountedReaders
      /\ CountedWriters' = CountedWriters
      /\ t \notin CountedReaders
      /\ t \in CountedWriters
  BY <1>1, MoveCounts DEF LockInv, WriterStages
<1>4. CountsAreTrue'
  BY <1>3 DEF LockInv, CountsAreTrue, TakeResourceToWrite
<1>5. TypeOK'
  BY <1>1, <1>3, CountsMean DEF LockInv, TypeOK, At, TakeResourceToWrite, Acquire, Locks, ReaderStages, WriterStages
<1>6. EntryHeld'
  BY <1>2, <1>3, CountsMean DEF LockInv, EntryHeld, ResourceHeld, TakeResourceToWrite, Acquire, CountedReaders
<1>7. ReadTryHeld'
  BY <1>2, <1>3, CountsMean DEF LockInv, EntryHeld, ReadTryHeld, TakeResourceToWrite, Acquire, WriterStages, CountedWriters
<1>8. ResourceHeld'
  BY <1>2, <1>3, CountsMean DEF LockInv, ResourceHeld, EntryHeld, ReadTryHeld, TakeResourceToWrite, Acquire, CountedReaders, WriterStages
<1> QED
  BY <1>4, <1>5, <1>6, <1>7, <1>8 DEF LockInv

LEMMA ReleaseResourceKeeps ==
  ASSUME LockInv, NEW t \in Threads, ReleaseResource(t)
  PROVE  LockInv'
<1>1. At(t, "writing", "leaving")
  BY DEF ReleaseResource
<1>2. /\ stage[t] = "writing"
      /\ stage'[t] = "leaving"
      /\ \A u \in Threads : u # t => stage'[u] = stage[u]
  BY <1>1, MoveCounts DEF LockInv
<1>3. /\ CountedReaders' = CountedReaders
      /\ CountedWriters' = CountedWriters
      /\ t \notin CountedReaders
      /\ t \in CountedWriters
  BY <1>1, MoveCounts DEF LockInv, WriterStages
<1>4. CountsAreTrue'
  BY <1>3 DEF LockInv, CountsAreTrue, ReleaseResource
<1>5. TypeOK'
  BY <1>1, <1>3, CountsMean DEF LockInv, TypeOK, At, ReleaseResource, Acquire, Locks, ReaderStages, WriterStages
<1>6. EntryHeld'
  BY <1>2, <1>3, CountsMean DEF LockInv, EntryHeld, ResourceHeld, ReleaseResource, Acquire, CountedReaders
<1>7. ReadTryHeld'
  BY <1>2, <1>3, CountsMean DEF LockInv, EntryHeld, ReadTryHeld, ReleaseResource, Acquire, WriterStages, CountedWriters
<1>8. ResourceHeld'
  BY <1>2, <1>3, CountsMean DEF LockInv, ResourceHeld, EntryHeld, ReadTryHeld, ReleaseResource, Acquire, CountedReaders, WriterStages
<1> QED
  BY <1>4, <1>5, <1>6, <1>7, <1>8 DEF LockInv

LEMMA CountWriterOutKeeps ==
  ASSUME LockInv, NEW t \in Threads, CountWriterOut(t)
  PROVE  LockInv'
<1>1. At(t, "leaving", "idle")
  BY DEF CountWriterOut
<1>2. /\ stage[t] = "leaving"
      /\ stage'[t] = "idle"
      /\ \A u \in Threads : u # t => stage'[u] = stage[u]
  BY <1>1, MoveCounts DEF LockInv
<1>3. /\ CountedReaders' = CountedReaders
      /\ CountedWriters' = CountedWriters \ {t}
      /\ t \notin CountedReaders
      /\ t \in CountedWriters
  BY <1>1, MoveCounts DEF LockInv, WriterStages
<1>4. CountsAreTrue'
  BY <1>3, WriterOut DEF LockInv, CountWriterOut
<1>5. TypeOK'
  BY <1>1, <1>3, CountsMean DEF LockInv, TypeOK, At, CountWriterOut, Acquire, Locks, ReaderStages, WriterStages
<1>6. EntryHeld'
  BY <1>2, <1>3, CountsMean DEF LockInv, EntryHeld, ResourceHeld, CountWriterOut, Acquire, CountedReaders
<1>7. ReadTryHeld'
  BY <1>2, <1>3, CountsMean DEF LockInv, EntryHeld, ReadTryHeld, CountWriterOut, Acquire, WriterStages, CountedWriters
<1>8. ResourceHeld'
  BY <1>2, <1>3, CountsMean DEF LockInv, ResourceHeld, EntryHeld, ReadTryHeld, CountWriterOut, Acquire, CountedReaders, WriterStages
<1> QED
  BY <1>4, <1>5, <1>6, <1>7, <1>8 DEF LockInv

-----------------------------------------------------------------------------
(* The invariant *)

LEMMA LockInvInit == Init => LockInv
<1> SUFFICES ASSUME Init
             PROVE  LockInv
  OBVIOUS
<1>1. CountedReaders = {} /\ CountedWriters = {}
  BY DEF Init, CountedReaders, CountedWriters, WriterStages
<1>2. CountsAreTrue
  BY <1>1, FS_EmptySet DEF Init, CountsAreTrue
<1> QED
  BY <1>1, <1>2 DEF Init, LockInv, TypeOK, Locks, EntryHeld, ReadTryHeld, ResourceHeld,
                    ReaderStages, WriterStages

LEMMA LockInvNext == LockInv /\ [Next]_vars => LockInv'
<1> SUFFICES ASSUME LockInv, [Next]_vars
             PROVE  LockInv'
  OBVIOUS
<1>1. CASE UNCHANGED vars
  <2>1. CountedReaders' = CountedReaders /\ CountedWriters' = CountedWriters
    BY <1>1 DEF vars, CountedReaders, CountedWriters
  <2> QED
    BY <1>1, <2>1 DEF vars, LockInv, TypeOK, CountsAreTrue, EntryHeld, ReadTryHeld, ResourceHeld
<1>2. ASSUME NEW t \in Threads, TakeReadEntry(t)
      PROVE  LockInv'
  BY <1>2, TakeReadEntryKeeps
<1>3. ASSUME NEW t \in Threads, TakeReadTry(t)
      PROVE  LockInv'
  BY <1>3, TakeReadTryKeeps
<1>4. ASSUME NEW t \in Threads, CountFirstReader(t)
      PROVE  LockInv'
  BY <1>4, CountFirstReaderKeeps
<1>5. ASSUME NEW t \in Threads, CountNextReader(t)
      PROVE  LockInv'
  BY <1>5, CountNextReaderKeeps
<1>6. ASSUME NEW t \in Threads, TakeResourceToRead(t)
      PROVE  LockInv'
  BY <1>6, TakeResourceToReadKeeps
<1>7. ASSUME NEW t \in Threads, ReleaseReader(t)
      PROVE  LockInv'
  BY <1>7, ReleaseReaderKeeps
<1>8. ASSUME NEW t \in Threads, CountFirstWriter(t)
      PROVE  LockInv'
  BY <1>8, CountFirstWriterKeeps
<1>9. ASSUME NEW t \in Threads, CountNextWriter(t)
      PROVE  LockInv'
  BY <1>9, CountNextWriterKeeps
<1>10. ASSUME NEW t \in Threads, BarReaders(t)
      PROVE  LockInv'
  BY <1>10, BarReadersKeeps
<1>11. ASSUME NEW t \in Threads, TakeResourceToWrite(t)
      PROVE  LockInv'
  BY <1>11, TakeResourceToWriteKeeps
<1>12. ASSUME NEW t \in Threads, ReleaseResource(t)
      PROVE  LockInv'
  BY <1>12, ReleaseResourceKeeps
<1>13. ASSUME NEW t \in Threads, CountWriterOut(t)
      PROVE  LockInv'
  BY <1>13, CountWriterOutKeeps
<1> QED
  BY <1>1, <1>2, <1>3, <1>4, <1>5, <1>6, <1>7, <1>8, <1>9, <1>10, <1>11, <1>12, <1>13 DEF Next, Reader, Writer

LEMMA LockInvariant == Spec => []LockInv
<1> QED
  BY LockInvInit, LockInvNext, PTL DEF Spec

\* The counters never go below zero and each thread is at one of its stages.
THEOREM TypeCorrect == Spec => []TypeOK
<1>1. LockInv => TypeOK
  BY DEF LockInv
<1> QED
  BY <1>1, LockInvariant, PTL

\* The reader that counted itself first finds the resource free: it never
\* waits while it holds the locks the others need.
THEOREM FirstReaderNeverBlocks == Spec => []FirstReaderNeverWaits
<1>1. LockInv => FirstReaderNeverWaits
  BY DEF LockInv, FirstReaderNeverWaits, EntryHeld, ReadTryHeld, ResourceHeld,
         CountedReaders, WriterStages
<1> QED
  BY <1>1, LockInvariant, PTL

-----------------------------------------------------------------------------
(* RWLockWrite implements ReadersWriters *)

\* What a move of one thread does to what the mapping shows.
LEMMA MoveShows ==
  ASSUME TypeOK, NEW t \in Threads, NEW here, NEW next, At(t, here, next)
  PROVE  /\ {u \in Threads : stage'[u] = "reading"} =
              IF next = "reading" THEN {u \in Threads : stage[u] = "reading"} \cup {t}
                                  ELSE {u \in Threads : stage[u] = "reading"} \ {t}
         /\ {u \in Threads : stage'[u] = "writing"} =
              IF next = "writing" THEN {u \in Threads : stage[u] = "writing"} \cup {t}
                                  ELSE {u \in Threads : stage[u] = "writing"} \ {t}
         /\ Barring' = IF next \in WriterStages \ {"bar"} THEN Barring \cup {t}
                                                          ELSE Barring \ {t}
<1>1. /\ stage'[t] = next
      /\ \A u \in Threads : u # t => stage'[u] = stage[u]
  BY DEF At, TypeOK
<1> QED
  BY <1>1 DEF Barring

LEMMA StepRefines ==
  ASSUME LockInv, NEW t \in Threads, Reader(t) \/ Writer(t)
  PROVE  [RW!Next]_(RW!vars)
<1> DEFINE reading == {u \in Threads : stage[u] = "reading"}
           writing == {u \in Threads : stage[u] = "writing"}
<1> USE DEF LockInv
<1>0. ASSUME NEW here, NEW next, At(t, here, next),
             here \notin {"reading", "writing"} \cup WriterStages,
             next \notin {"reading", "writing"} \cup WriterStages \/ next = "bar"
      PROVE  UNCHANGED RW!vars
  BY <1>0, MoveShows DEF RW!vars, At, Barring
<1>1. CASE TakeReadEntry(t)
  <2>1. At(t, "idle", "entry")
    BY <1>1 DEF TakeReadEntry
  <2> QED
    BY <1>0, <2>1 DEF WriterStages
<1>2. CASE TakeReadTry(t)
  <2>1. At(t, "entry", "try")
    BY <1>2 DEF TakeReadTry
  <2> QED
    BY <1>0, <2>1 DEF WriterStages
<1>3. CASE CountFirstReader(t)
  <2>1. At(t, "try", "first")
    BY <1>3 DEF CountFirstReader
  <2> QED
    BY <1>0, <2>1 DEF WriterStages
<1>4. CASE CountFirstWriter(t)
  <2>1. At(t, "idle", "bar")
    BY <1>4 DEF CountFirstWriter
  <2> QED
    BY <1>0, <2>1 DEF WriterStages
<1>5. CASE CountNextReader(t)
  <2>1. At(t, "try", "reading") /\ stage[t] = "try"
    BY <1>5 DEF CountNextReader, At
  <2>2. Barring = {} /\ writing = {}
    BY <2>1 DEF ReadTryHeld, Barring, WriterStages
  <2>3. RW!EnterRead(t)
    BY <2>1, <2>2, MoveShows DEF RW!EnterRead, WriterStages
  <2> QED
    BY <2>3 DEF RW!Next
<1>6. CASE TakeResourceToRead(t)
  <2>1. At(t, "first", "reading") /\ stage[t] = "first"
    BY <1>6 DEF TakeResourceToRead, At
  <2>2. Barring = {} /\ writing = {}
    BY <2>1 DEF ReadTryHeld, Barring, WriterStages
  <2>3. RW!EnterRead(t)
    BY <2>1, <2>2, MoveShows DEF RW!EnterRead, WriterStages
  <2> QED
    BY <2>3 DEF RW!Next
<1>7. CASE ReleaseReader(t)
  <2>1. At(t, "reading", "idle") /\ stage[t] = "reading"
    BY <1>7 DEF ReleaseReader, At
  <2>2. t \notin writing /\ t \notin Barring
    BY <2>1 DEF Barring, WriterStages
  <2>3. RW!LeaveRead(t)
    BY <2>1, <2>2, MoveShows DEF RW!LeaveRead, WriterStages
  <2> QED
    BY <2>3 DEF RW!Next
<1>8. CASE CountNextWriter(t)
  <2>1. At(t, "idle", "resource") /\ stage[t] = "idle"
    BY <1>8 DEF CountNextWriter, At
  <2>2. PICK u \in CountedWriters : TRUE
    BY <1>8, CountsMean DEF CountNextWriter
  <2>3. u \in Barring
    BY <1>8 DEF CountNextWriter, CountedWriters, Barring, ReadTryHeld
  <2>4. UNCHANGED RW!vars
    BY <2>1, <2>3, MoveShows DEF RW!vars, WriterStages
  <2> QED
    BY <2>4
<1>9. CASE BarReaders(t)
  <2>1. At(t, "bar", "resource") /\ stage[t] = "bar"
    BY <1>9 DEF BarReaders, At
  <2>2. Barring = {} /\ writing = {}
    BY <2>1 DEF ReadTryHeld, Barring, CountedWriters, WriterStages
  <2>3. RW!Bar
    BY <2>1, <2>2, MoveShows DEF RW!Bar, WriterStages
  <2> QED
    BY <2>3 DEF RW!Next
<1>10. CASE TakeResourceToWrite(t)
  <2>1. At(t, "resource", "writing") /\ stage[t] = "resource"
    BY <1>10 DEF TakeResourceToWrite, At
  <2>2. reading = {} /\ writing = {} /\ t \in Barring
    BY <1>10, <2>1 DEF TakeResourceToWrite, Acquire, ResourceHeld, Barring, WriterStages
  <2>3. RW!EnterWrite(t)
    BY <2>1, <2>2, MoveShows DEF RW!EnterWrite, WriterStages
  <2> QED
    BY <2>3 DEF RW!Next
<1>11. CASE ReleaseResource(t)
  <2>1. At(t, "writing", "leaving") /\ stage[t] = "writing"
    BY <1>11 DEF ReleaseResource, At
  <2>2. writing = {t} /\ t \notin reading /\ t \in Barring
    BY <2>1 DEF ResourceHeld, Barring, WriterStages
  <2>3. RW!LeaveWrite(t)
    BY <2>1, <2>2, MoveShows DEF RW!LeaveWrite, WriterStages
  <2> QED
    BY <2>3 DEF RW!Next
<1>12. CASE CountWriterOut(t)
  <2>1. At(t, "leaving", "idle") /\ stage[t] = "leaving"
    BY <1>12 DEF CountWriterOut, At
  <2>2. t \in Barring /\ t \notin reading /\ t \notin writing
    BY <2>1 DEF Barring, WriterStages
  <2>3. CASE Barring = {t}
    <3>1. writing = {}
      BY <2>2, <2>3 DEF Barring, WriterStages
    <3>2. RW!Unbar
      BY <2>1, <2>2, <2>3, <3>1, MoveShows DEF RW!Unbar, WriterStages
    <3> QED
      BY <3>2 DEF RW!Next
  <2>4. CASE Barring # {t}
    <3>1. UNCHANGED RW!vars
      BY <2>1, <2>2, <2>4, MoveShows DEF RW!vars, WriterStages
    <3> QED
      BY <3>1
  <2> QED
    BY <2>3, <2>4
<1> QED
  BY <1>1, <1>2, <1>3, <1>4, <1>5, <1>6, <1>7, <1>8, <1>9, <1>10, <1>11, <1>12
     DEF Reader, Writer

\* RWLockWrite keeps the promise of a readers-writer lock that prefers writers:
\* every step of its threads is a step of ReadersWriters or leaves what it
\* shows alone.
THEOREM LockRefines == Spec => ImplementsReadersWriters
<1>1. Init => RW!Init
  BY DEF Init, RW!Init, Barring, WriterStages
<1>2. LockInv /\ [Next]_vars => [RW!Next]_(RW!vars)
  <2> SUFFICES ASSUME LockInv, [Next]_vars
               PROVE  [RW!Next]_(RW!vars)
    OBVIOUS
  <2>1. CASE Next
    BY <2>1, StepRefines DEF Next
  <2>2. CASE UNCHANGED vars
    BY <2>2 DEF vars, RW!vars, Barring
  <2> QED
    BY <2>1, <2>2
<1> QED
  BY <1>1, <1>2, LockInvariant, PTL DEF Spec, ImplementsReadersWriters, RW!Spec

=============================================================================
