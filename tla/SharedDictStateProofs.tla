------------------------ MODULE SharedDictStateProofs ------------------------
(***************************************************************************)
(* Proofs about the persistence of a shared dictionary, for any number of  *)
(* workers, calls, failures, deaths and restarts, when an update of the    *)
(* flag word is indivisible.                                               *)
(*                                                                         *)
(* OneWriter and CleanMeansSaved are not inductive.  Inv adds who holds    *)
(* the lock in each state of a worker, that "writing" is set as long as a  *)
(* worker is between the flag and the file, and what the worker's snapshot *)
(* and the two files hold meanwhile.                                       *)
(***************************************************************************)
EXTENDS SharedDictState, TLAPS

\* Who holds the lock: a writer excludes readers, and there is at most one
\* reader, the worker that renders the zone.
LockOK ==
    /\ readers # {} => writer = NoOne
    /\ \A v, w \in readers : v = w
    /\ \A w \in Workers : pc[w] = "store" => writer = w
    /\ \A w \in Workers : pc[w] \in {"render", "mark"} => w \in readers

\* What the flags say while a worker renders and while it writes the file.
FlagsOK ==
    /\ \A w \in Workers : pc[w] \in Saving => flags.writing
    /\ \A w \in Workers :
          pc[w] \in {"render", "mark"} => flags.dirty /\ ~flags.writing

\* What a saving worker's snapshot, the temporary file and the state file
\* hold at each step of a save.
SnapshotOK ==
    /\ file.calls <= calls
    /\ \A w \in Workers : pc[w] = "mark" => snap[w] = calls
    /\ \A w \in Workers :
          pc[w] \in {"open", "write", "rename"} =>
             /\ file.calls <= snap[w]
             /\ snap[w] <= calls
             /\ ~flags.dirty /\ writer = NoOne => snap[w] = calls
    /\ \A w \in Workers :
          pc[w] = "rename" => tmp.full /\ tmp.calls = snap[w]
    /\ \A w \in Workers :
          pc[w] = "done" /\ ~flags.dirty /\ writer = NoOne => file.calls = calls

\* The inductive invariant.
Inv ==
    /\ TypeOK
    /\ LockOK
    /\ FlagsOK
    /\ OneWriter
    /\ SnapshotOK
    /\ FileComplete
    /\ CleanMeansSaved

-----------------------------------------------------------------------------

\* The handler's way out leaves a location and a timer of the right type.
LEMMA RetryType ==
    ASSUME NEW w \in Workers, NEW rc, TypeOK, Retry(w, rc)
    PROVE  /\ pc' \in [Workers -> States]
           /\ timer' \in [Workers -> BOOLEAN]
<1>1. "idle" \in States
  BY DEF States
<1>2. pc' \in [Workers -> States]
  BY <1>1 DEF TypeOK, Retry, Goto
<1>3. CASE rc = "ERROR" /\ w \in exiting
  BY <1>2, <1>3 DEF TypeOK, Retry
<1>4. CASE ~(rc = "ERROR" /\ w \in exiting)
  BY <1>2, <1>4 DEF TypeOK, Retry, Arm
<1> QED
  BY <1>3, <1>4

\* TypeOK is an inductive invariant.
LEMMA TypeInductive ==
    /\ Init => TypeOK
    /\ TypeOK /\ [Next]_vars => TypeOK'
<1> USE WorkersAssumption, BoundsAssumption
<1> USE DEF TypeOK, Flags, File, States, Saving, Gone
<1>1. ASSUME Init PROVE TypeOK
  <2>1. dropped \in BOOLEAN
    BY ONLY <1>1 DEF Init
  <2>2. flags \in Flags /\ word \in [Workers -> Flags]
    BY ONLY <1>1 DEF Init, Flags
  <2> QED
    BY <1>1, <2>1, <2>2 DEF Init
<1>2. ASSUME TypeOK, [Next]_vars PROVE TypeOK'
  <2> USE <1>2 DEF zone, disk, counts, Goto, Arm, Load, Loaded, Fault
  <2>1. ASSUME NEW w \in Workers, Modify(w) PROVE TypeOK'
    BY <2>1 DEF Modify, Unlocked
  <2>2. ASSUME NEW w \in Workers, ModifyDone(w) PROVE TypeOK'
    BY <2>2 DEF ModifyDone
  <2>3. ASSUME NEW w \in Workers, ngx_js_dict_save_handler(w) PROVE TypeOK'
    BY <2>3 DEF ngx_js_dict_save_handler
  <2>4. ASSUME NEW w \in Workers, SaveBegin(w) PROVE TypeOK'
    <3>1. CASE Retry(w, "AGAIN")
      BY <2>4, <3>1, RetryType DEF SaveBegin
    <3>2. CASE ~Retry(w, "AGAIN")
      BY SMTT(20), <2>4, <3>2 DEF SaveBegin
    <3> QED
      BY <3>1, <3>2
  <2>5. ASSUME NEW w \in Workers, Render(w) PROVE TypeOK'
    BY <2>5 DEF Render
  <2>6. ASSUME NEW w \in Workers, SaveMark(w) PROVE TypeOK'
    BY <2>6 DEF SaveMark
  <2>7. ASSUME NEW w \in Workers, OpenTemp(w) PROVE TypeOK'
    BY <2>7 DEF OpenTemp
  <2>8. ASSUME NEW w \in Workers, WriteTemp(w) PROVE TypeOK'
    BY <2>8 DEF WriteTemp
  <2>9. ASSUME NEW w \in Workers, RenameTemp(w) PROVE TypeOK'
    BY <2>9 DEF RenameTemp
  <2>10. ASSUME NEW w \in Workers, SaveDone(w) PROVE TypeOK'
    BY <2>10 DEF SaveDone
  <2>11. ASSUME NEW w \in Workers, SaveFailed(w) PROVE TypeOK'
    <3>1. flags' \in Flags
      BY <2>11 DEF SaveFailed
    <3>2. word' \in [Workers -> Flags]
      BY <2>11, <3>1 DEF SaveFailed
    <3> QED
      BY <2>11, <3>1, <3>2 DEF SaveFailed
  <2>12. ASSUME NEW w \in Workers, SaveNoPool(w) PROVE TypeOK'
    <3>1. pc' \in [Workers -> States] /\ timer' \in [Workers -> BOOLEAN]
      BY <2>12, RetryType DEF SaveNoPool
    <3> QED
      BY <2>12, <3>1 DEF SaveNoPool
  <2>13. ASSUME NEW w \in Workers, RenderFails(w) PROVE TypeOK'
    BY <2>13, RetryType DEF RenderFails
  <2>14. ASSUME NEW w \in Workers, SaveFails(w) PROVE TypeOK'
    BY <2>14 DEF SaveFails
  <2>15. ASSUME NEW w \in Workers, Quit(w) PROVE TypeOK'
    BY <2>15 DEF Quit
  <2>16. ASSUME NEW w \in Workers, Exit(w) PROVE TypeOK'
    BY <2>16 DEF Exit
  <2>17. ASSUME NEW w \in Workers, Kill(w) PROVE TypeOK'
    BY <2>17 DEF Kill
  <2>18. ASSUME NEW w \in Workers, Respawn(w) PROVE TypeOK'
    BY <2>18 DEF Respawn, InitWorker
  <2>21. ASSUME NEW w \in Workers, SaveRedirty(w) PROVE TypeOK'
    BY <2>21, RetryType DEF SaveRedirty
  <2>19. CASE Restart
    <3>1. dropped' \in BOOLEAN
      BY ONLY <2>19 DEF Restart
    <3>2. timer' \in [Workers -> BOOLEAN] /\ flags' \in Flags
      BY ONLY <2>19 DEF Restart, InitWorker, Flags
    <3> QED
      BY <2>19, <3>1, <3>2 DEF Restart
  <2>20. CASE UNCHANGED vars
    BY <2>20 DEF vars
  <2> QED
    BY <2>1, <2>2, <2>3, <2>4, <2>5, <2>6, <2>7, <2>8, <2>9, <2>10, <2>11,
       <2>12, <2>13, <2>14, <2>15, <2>16, <2>17, <2>18, <2>19, <2>20, <2>21
    DEF Next, Work, Faults, Life
<1> QED
  BY <1>1, <1>2

-----------------------------------------------------------------------------

\* Inv without its first conjunct, which TypeInductive takes care of.
Rest ==
    /\ LockOK /\ FlagsOK /\ OneWriter
    /\ SnapshotOK /\ FileComplete /\ CleanMeansSaved

\* Inv is an inductive invariant if an update of the flag word is
\* indivisible.
LEMMA InvInductive ==
    ASSUME Indivisible
    PROVE  /\ Init => Inv
           /\ Inv /\ [Next]_vars => Inv'
<1> USE WorkersAssumption
<1> USE DEF Saving
<1>1. ASSUME Init PROVE Inv
  <2>1. TypeOK
    BY <1>1, TypeInductive
  <2> QED
    BY <1>1, <2>1
    DEF Init, Inv, LockOK, FlagsOK, OneWriter, SnapshotOK, FileComplete, CleanMeansSaved
<1>2. ASSUME Inv, [Next]_vars PROVE Inv'
  <2>1. TypeOK /\ TypeOK'
    BY <1>2, TypeInductive DEF Inv
  <2>2. Rest
    BY <1>2 DEF Inv, Rest
  <2> USE Indivisible, <2>1, <2>2
  <2> USE DEF TypeOK, Flags, File, Rest, zone, disk, counts, Goto, Arm, Load, Loaded
  <2>3. ASSUME NEW w \in Workers, Modify(w) PROVE Rest'
    BY <2>3 DEF Modify, Unlocked,
       LockOK, FlagsOK, OneWriter, SnapshotOK, FileComplete, CleanMeansSaved
  <2>4. ASSUME NEW w \in Workers, ModifyDone(w) PROVE Rest'
    BY <2>4 DEF ModifyDone,
       LockOK, FlagsOK, OneWriter, SnapshotOK, FileComplete, CleanMeansSaved
  <2>5. ASSUME NEW w \in Workers, ngx_js_dict_save_handler(w) PROVE Rest'
    BY <2>5 DEF ngx_js_dict_save_handler,
       LockOK, FlagsOK, OneWriter, SnapshotOK, FileComplete, CleanMeansSaved
  <2>6. ASSUME NEW w \in Workers, SaveBegin(w) PROVE Rest'
    BY <2>6 DEF SaveBegin, Unlocked, Retry,
       LockOK, FlagsOK, OneWriter, SnapshotOK, FileComplete, CleanMeansSaved
  <2>7. ASSUME NEW w \in Workers, Render(w) PROVE Rest'
    BY <2>7 DEF Render,
       LockOK, FlagsOK, OneWriter, SnapshotOK, FileComplete, CleanMeansSaved
  <2>8. ASSUME NEW w \in Workers, SaveMark(w) PROVE Rest'
    BY <2>8 DEF SaveMark,
       LockOK, FlagsOK, OneWriter, SnapshotOK, FileComplete, CleanMeansSaved
  <2>9. ASSUME NEW w \in Workers, OpenTemp(w) PROVE Rest'
    BY <2>9 DEF OpenTemp,
       LockOK, FlagsOK, OneWriter, SnapshotOK, FileComplete, CleanMeansSaved
  <2>10. ASSUME NEW w \in Workers, WriteTemp(w) PROVE Rest'
    BY <2>10 DEF WriteTemp,
       LockOK, FlagsOK, OneWriter, SnapshotOK, FileComplete, CleanMeansSaved
  <2>11. ASSUME NEW w \in Workers, RenameTemp(w) PROVE Rest'
    BY <2>11 DEF RenameTemp,
       LockOK, FlagsOK, OneWriter, SnapshotOK, FileComplete, CleanMeansSaved
  <2>12. ASSUME NEW w \in Workers, SaveDone(w) PROVE Rest'
    BY <2>12 DEF SaveDone,
       LockOK, FlagsOK, OneWriter, SnapshotOK, FileComplete, CleanMeansSaved
  <2>13. ASSUME NEW w \in Workers, SaveFailed(w) PROVE Rest'
    BY <2>13 DEF SaveFailed,
       LockOK, FlagsOK, OneWriter, SnapshotOK, FileComplete, CleanMeansSaved
  <2>14. ASSUME NEW w \in Workers, SaveNoPool(w) PROVE Rest'
    BY <2>14 DEF SaveNoPool, Retry,
       LockOK, FlagsOK, OneWriter, SnapshotOK, FileComplete, CleanMeansSaved
  <2>15. ASSUME NEW w \in Workers, RenderFails(w) PROVE Rest'
    BY <2>15 DEF RenderFails, Retry,
       LockOK, FlagsOK, OneWriter, SnapshotOK, FileComplete, CleanMeansSaved
  <2>16. ASSUME NEW w \in Workers, SaveFails(w) PROVE Rest'
    BY <2>16 DEF SaveFails,
       LockOK, FlagsOK, OneWriter, SnapshotOK, FileComplete, CleanMeansSaved
  <2>17. ASSUME NEW w \in Workers, Quit(w) PROVE Rest'
    BY <2>17 DEF Quit,
       LockOK, FlagsOK, OneWriter, SnapshotOK, FileComplete, CleanMeansSaved
  <2>18. ASSUME NEW w \in Workers, Exit(w) PROVE Rest'
    BY <2>18 DEF Exit,
       LockOK, FlagsOK, OneWriter, SnapshotOK, FileComplete, CleanMeansSaved
  <2>19. ASSUME NEW w \in Workers, Kill(w) PROVE Rest'
    BY <2>19 DEF Kill,
       LockOK, FlagsOK, OneWriter, SnapshotOK, FileComplete, CleanMeansSaved
  <2>20. ASSUME NEW w \in Workers, Respawn(w) PROVE Rest'
    BY <2>20 DEF Respawn,
       LockOK, FlagsOK, OneWriter, SnapshotOK, FileComplete, CleanMeansSaved
  <2>24. ASSUME NEW w \in Workers, SaveRedirty(w) PROVE Rest'
    BY <2>24 DEF SaveRedirty, Retry,
       LockOK, FlagsOK, OneWriter, SnapshotOK, FileComplete, CleanMeansSaved
  <2>21. ASSUME Restart PROVE Rest'
    BY <2>21
    DEF Restart, LockOK, FlagsOK, OneWriter, SnapshotOK, FileComplete, CleanMeansSaved
  <2>22. ASSUME UNCHANGED vars PROVE Rest'
    BY <2>22
    DEF vars, LockOK, FlagsOK, OneWriter, SnapshotOK, FileComplete, CleanMeansSaved
  <2> HIDE DEF Rest, TypeOK
  <2>23. Rest'
    BY <1>2, <2>3, <2>4, <2>5, <2>6, <2>7, <2>8, <2>9, <2>10, <2>11, <2>12,
       <2>13, <2>14, <2>15, <2>16, <2>17, <2>18, <2>19, <2>20, <2>21, <2>22, <2>24
    DEF Next, Work, Faults, Life
  <2> QED
    BY <2>1, <2>23 DEF Inv, Rest
<1> QED
  BY <1>1, <1>2

-----------------------------------------------------------------------------

\* The state always has its type, whether or not updates of the flag word
\* are indivisible.
THEOREM TypeCorrect == Spec => []TypeOK
BY TypeInductive, PTL DEF Spec

\* Inv holds throughout if updates of the flag word are indivisible.
LEMMA InvHolds ==
    ASSUME Indivisible PROVE Spec => []Inv
BY InvInductive, PTL DEF Spec

\* Two workers never write the temporary file at once: "writing", taken under
\* the lock by ngx_js_dict_save() and given back without it, is enough.
THEOREM SavesExclude ==
    ASSUME Indivisible PROVE Spec => []OneWriter
<1>1. Inv => OneWriter
  BY DEF Inv
<1> QED
  BY <1>1, InvHolds, PTL

\* Whenever a worker dies or a file operation fails, the state file is
\* complete.
THEOREM FileAlwaysComplete ==
    ASSUME Indivisible PROVE Spec => []FileComplete
<1>1. Inv => FileComplete
  BY DEF Inv
<1> QED
  BY <1>1, InvHolds, PTL

\* A zone that is neither dirty nor being written is on disk as it is, except
\* while a worker is between the two assignments after a save that failed, and
\* after it was killed there, until a call modifies the zone.
THEOREM NoCallForgotten ==
    ASSUME Indivisible PROVE Spec => []CleanMeansSaved
<1>1. Inv => CleanMeansSaved
  BY DEF Inv
<1> QED
  BY <1>1, InvHolds, PTL

\* The state file never goes back to an older state of the zone: a slow save
\* does not overwrite a later one.
THEOREM FileNeverGoesBack ==
    ASSUME Indivisible PROVE Spec => FileAdvances
<1>1. ASSUME Inv, [Next]_vars PROVE [file'.calls >= file.calls]_vars
  <2> SUFFICES ASSUME Next PROVE file'.calls >= file.calls
    BY <1>1
  <2>1. file.calls \in Nat
    BY <1>1 DEF Inv, TypeOK, File
  <2>2. ASSUME NEW w \in Workers, RenameTemp(w) PROVE file'.calls >= file.calls
    <3>1. file'.calls = snap[w] /\ file.calls <= snap[w]
      BY <1>1, <2>2 DEF RenameTemp, Inv, SnapshotOK
    <3>2. snap[w] \in Nat
      BY <1>1 DEF Inv, TypeOK
    <3> QED
      BY <2>1, <3>1, <3>2
  <2>3. ASSUME UNCHANGED file PROVE file'.calls >= file.calls
    BY <2>1, <2>3
  <2>4. UNCHANGED file \/ \E w \in Workers : RenameTemp(w)
    BY DEF Next, Work, Faults, Life, Modify, ModifyDone,
       ngx_js_dict_save_handler,
      SaveBegin, Render, SaveMark, OpenTemp, WriteTemp, SaveDone, SaveFailed,
      SaveRedirty,
      SaveNoPool, RenderFails, SaveFails, Quit, Exit, Kill, Respawn, Restart, disk
  <2> QED
    BY <2>2, <2>3, <2>4
<1> QED
  BY <1>1, InvHolds, PTL DEF Spec, FileAdvances

====
