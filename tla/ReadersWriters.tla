--------------------------- MODULE ReadersWriters ---------------------------
(***************************************************************************)
(* What the lock of the table of trees promises (rwlock/RWLock.py:95, "A   *)
(* Read/Write lock giving preference to Writer"), without its five locks:  *)
(* threads read together, a writer is alone, and from the moment writers   *)
(* bar the way no reader enters before they have left.                     *)
(***************************************************************************)
CONSTANT Threads

VARIABLES reading,   \* the threads inside a reader section
          writing,   \* the thread inside a writer section, if any
          barred     \* writers have barred the way to readers

vars == <<reading, writing, barred>>

Init == /\ reading = {}
        /\ writing = {}
        /\ barred = FALSE

EnterRead(t) == /\ ~barred
                /\ writing = {}
                /\ t \notin reading
                /\ reading' = reading \cup {t}
                /\ UNCHANGED <<writing, barred>>

LeaveRead(t) == /\ t \in reading
                /\ reading' = reading \ {t}
                /\ UNCHANGED <<writing, barred>>

\* Readers that are inside stay inside: the writers wait for them.
Bar == /\ ~barred
       /\ writing = {}
       /\ barred' = TRUE
       /\ UNCHANGED <<reading, writing>>

EnterWrite(t) == /\ barred
                 /\ reading = {}
                 /\ writing = {}
                 /\ writing' = {t}
                 /\ UNCHANGED <<reading, barred>>

LeaveWrite(t) == /\ writing = {t}
                 /\ writing' = {}
                 /\ UNCHANGED <<reading, barred>>

Unbar == /\ barred
         /\ writing = {}
         /\ barred' = FALSE
         /\ UNCHANGED <<reading, writing>>

Next == \/ \E t \in Threads : \/ EnterRead(t)
                              \/ LeaveRead(t)
                              \/ EnterWrite(t)
                              \/ LeaveWrite(t)
        \/ Bar
        \/ Unbar

Spec == Init /\ [][Next]_vars

=============================================================================
