--------------------------- MODULE SharedDictState ---------------------------
(***************************************************************************)
(* How a shared dictionary with state= is kept on disk, in                 *)
(* nginx/ngx_js_shared_dict.c: every successful modifying call marks the   *)
(* zone dirty and arms the worker's save timer; the timer's handler        *)
(* renders the zone, writes a temporary file and renames it over the state *)
(* file.                                                                   *)
(*                                                                         *)
(* The content of the zone is abstracted to the number of modifying calls  *)
(* that succeeded.  dirty and writing are two bits of one word of shared   *)
(* memory: an assignment to one of them loads the word and stores it back. *)
(* With Indivisible the two halves are one step.                           *)
(***************************************************************************)
EXTENDS Naturals

CONSTANTS
    Workers,        \* worker processes
    First,          \* worker 0
    Indivisible,    \* an update of the flag word is one indivisible step
    MaxCalls,       \* bound on the modifying calls
    MaxErrors,      \* bound on the failures of memory and of the file system
    Quitters,       \* workers that may be asked to exit
    MaxKills,       \* bound on the workers that die
    MaxRestarts,    \* bound on the restarts of nginx
    NoOne           \* no worker

ASSUME WorkersAssumption ==
    First \in Workers /\ NoOne \notin Workers /\ Quitters \subseteq Workers
ASSUME IndivisibleAssumption == Indivisible \in BOOLEAN
ASSUME BoundsAssumption ==
    {MaxCalls, MaxErrors, MaxKills, MaxRestarts} \subseteq Nat

VARIABLES
    calls,      \* the content of the zone
    flags,      \* sh->dirty and sh->writing
    writer,     \* the worker that holds the rwlock for writing
    readers,    \* the workers that hold it for reading
    pc,         \* what each worker is doing
    word,       \* the flag word as each worker last loaded it
    timer,      \* save_event.timer_set of each worker
    snap,       \* what each worker has rendered
    tmp,        \* the temporary file
    file,       \* the state file
    exiting,    \* the workers asked to exit (ngx_exiting)
    errors, kills, restarts,    \* failures so far
    dropped     \* history: a worker died between the two assignments after a
                \* save that failed, and the zone has not been dirty since

zone == <<calls, flags, writer, readers>>
disk == <<tmp, file>>
counts == <<errors, kills, restarts>>
vars == <<zone, pc, word, timer, snap, disk, exiting, counts, dropped>>

\* The life of a worker.  While it saves, and in "redirty" after a save that
\* failed, it holds no lock.
Saving == {"open", "write", "rename", "done", "failed"}
Gone == {"exited", "dead"}
States == {"idle", "store", "save", "render", "mark", "redirty"} \cup Saving \cup Gone

\* A file: the content it was rendered from, and whether all of it is there.
File == [calls : Nat, full : BOOLEAN]
Flags == [dirty : BOOLEAN, writing : BOOLEAN]

Goto(w, l) == pc' = [pc EXCEPT ![w] = l]
Arm(w) == timer' = [timer EXCEPT ![w] = TRUE]

\* The two halves of an assignment to a bit of the flag word.
Load(w, f) == IF Indivisible THEN UNCHANGED word ELSE word' = [word EXCEPT ![w] = f]
Loaded(w) == IF Indivisible THEN flags ELSE word[w]

Unlocked == writer = NoOne /\ readers = {}

-----------------------------------------------------------------------------
(* Modifying calls. *)

\* The body of set(), add(), replace(), incr(), delete(), pop() or clear(),
\* from taking the lock to the assignment to dirty.
Modify(w) ==
    /\ pc[w] = "idle"
    /\ calls < MaxCalls
    /\ Unlocked
    /\ writer' = w
    /\ calls' = calls + 1
    /\ Load(w, flags)
    /\ Goto(w, "store")
    /\ UNCHANGED <<flags, readers, timer, snap, disk, exiting, counts, dropped>>

\* The rest of the call: dirty = 1, unlock, and the timer.
ModifyDone(w) ==
    /\ pc[w] = "store"
    /\ flags' = [Loaded(w) EXCEPT !.dirty = TRUE]
    /\ writer' = NoOne
    /\ Arm(w)
    /\ dropped' = FALSE
    /\ Goto(w, "idle")
    /\ UNCHANGED <<calls, readers, word, snap, disk, exiting, counts>>

-----------------------------------------------------------------------------
(* Saving. *)

\* The save timer fires.
ngx_js_dict_save_handler(w) ==
    /\ pc[w] = "idle"
    /\ timer[w]
    /\ timer' = [timer EXCEPT ![w] = FALSE]
    /\ Goto(w, "save")
    /\ UNCHANGED <<zone, word, snap, disk, exiting, counts, dropped>>

\* Mutant: a worker that is exiting does not wait for another one to finish.
RetryUnlessExiting(w, rc) ==
    /\ IF w \in exiting THEN UNCHANGED timer ELSE Arm(w)
    /\ Goto(w, "idle")

\* The handler's way out when the zone is not saved: a new timer, except
\* after an error in a worker that is exiting.
Retry(w, rc) ==
    /\ IF rc = "ERROR" /\ w \in exiting THEN UNCHANGED timer ELSE Arm(w)
    /\ Goto(w, "idle")

\* One more failure of the environment.
Fault == errors < MaxErrors /\ errors' = errors + 1

\* No memory for the pool.
SaveNoPool(w) ==
    /\ pc[w] = "save"
    /\ Fault
    /\ Retry(w, "ERROR")
    /\ UNCHANGED <<zone, word, snap, disk, exiting, kills, restarts, dropped>>

\* Mutant: the flag "writing" is not looked at.
SaveBeginAnyway(w) ==
    /\ pc[w] = "save"
    /\ Unlocked
    /\ \/ /\ ~flags.dirty
          /\ Goto(w, "idle")
          /\ UNCHANGED <<readers, timer>>
       \/ /\ flags.dirty
          /\ readers' = {w}
          /\ Goto(w, "render")
          /\ UNCHANGED timer
    /\ UNCHANGED <<calls, flags, writer, word, snap, disk, exiting, counts, dropped>>

\* The checks under the write lock, then the lock is downgraded.
SaveBegin(w) ==
    /\ pc[w] = "save"
    /\ Unlocked
    /\ \/ /\ ~flags.dirty
          /\ Goto(w, "idle")
          /\ UNCHANGED <<readers, timer>>
       \/ /\ flags.dirty /\ flags.writing
          /\ Retry(w, "AGAIN")
          /\ UNCHANGED readers
       \/ /\ flags.dirty /\ ~flags.writing
          /\ readers' = {w}
          /\ Goto(w, "render")
          /\ UNCHANGED timer
    /\ UNCHANGED <<calls, flags, writer, word, snap, disk, exiting, counts, dropped>>

\* ngx_js_dict_render_json() under the read lock.
Render(w) ==
    /\ pc[w] = "render"
    /\ snap' = [snap EXCEPT ![w] = calls]
    /\ Goto(w, "mark")
    /\ UNCHANGED <<zone, word, timer, disk, exiting, counts, dropped>>

RenderFails(w) ==
    /\ pc[w] = "render"
    /\ Fault
    /\ readers' = readers \ {w}
    /\ Retry(w, "ERROR")
    /\ UNCHANGED <<calls, flags, writer, word, snap, disk, exiting, kills, restarts, dropped>>

\* writing = 1, dirty = 0, and unlock.  Only a worker after a failed save stores
\* to the flags without the lock; its dirty = 1 between these two assignments is
\* as good as before them.
SaveMark(w) ==
    /\ pc[w] = "mark"
    /\ flags' = [dirty |-> FALSE, writing |-> TRUE]
    /\ readers' = readers \ {w}
    /\ Goto(w, "open")
    /\ UNCHANGED <<calls, writer, word, timer, snap, disk, exiting, counts, dropped>>

\* The temporary file is created or truncated ...
OpenTemp(w) ==
    /\ pc[w] = "open"
    /\ tmp' = [calls |-> snap[w], full |-> FALSE]
    /\ Goto(w, "write")
    /\ UNCHANGED <<zone, word, timer, snap, file, exiting, counts, dropped>>

\* ... written and closed ...
WriteTemp(w) ==
    /\ pc[w] = "write"
    /\ tmp' = [calls |-> snap[w], full |-> TRUE]
    /\ Goto(w, "rename")
    /\ UNCHANGED <<zone, word, timer, snap, file, exiting, counts, dropped>>

\* ... and takes the place of the state file.
RenameTemp(w) ==
    /\ pc[w] = "rename"
    /\ file' = tmp
    /\ Load(w, flags)
    /\ Goto(w, "done")
    /\ UNCHANGED <<zone, timer, snap, tmp, exiting, counts, dropped>>

\* Mutant: a failed write is not noticed.
WriteFailureIgnored(w) ==
    /\ pc[w] \in {"open", "write", "rename"}
    /\ Fault
    /\ Load(w, flags)
    /\ Goto(w, IF pc[w] = "write" THEN "rename" ELSE "failed")
    /\ UNCHANGED <<zone, timer, snap, disk, exiting, kills, restarts, dropped>>

\* Any of these, or the memory for the chain of buffers, may fail.
SaveFails(w) ==
    /\ pc[w] \in {"open", "write", "rename"}
    /\ Fault
    /\ Load(w, flags)
    /\ Goto(w, "failed")
    /\ UNCHANGED <<zone, timer, snap, disk, exiting, kills, restarts, dropped>>

\* Mutant: dirty is cleared when the file is in place.
SaveDoneClean(w) ==
    /\ pc[w] = "done"
    /\ flags' = [dirty |-> FALSE, writing |-> FALSE]
    /\ Goto(w, "idle")
    /\ UNCHANGED <<calls, writer, readers, word, timer, snap, disk, exiting, counts, dropped>>

\* "no lock required": writing = 0.
SaveDone(w) ==
    /\ pc[w] = "done"
    /\ flags' = [Loaded(w) EXCEPT !.writing = FALSE]
    /\ Goto(w, "idle")
    /\ UNCHANGED <<calls, writer, readers, word, timer, snap, disk, exiting, counts, dropped>>

\* "no lock required": writing = 0 ...
SaveFailed(w) ==
    /\ pc[w] = "failed"
    /\ flags' = [Loaded(w) EXCEPT !.writing = FALSE]
    /\ Load(w, flags')
    /\ Goto(w, "redirty")
    /\ UNCHANGED <<calls, writer, readers, timer, snap, disk, exiting, counts, dropped>>

\* ... and dirty = 1, an assignment of its own: other workers may look at the
\* zone, and this one may die, between the two.
SaveRedirty(w) ==
    /\ pc[w] = "redirty"
    /\ flags' = [Loaded(w) EXCEPT !.dirty = TRUE]
    /\ dropped' = FALSE
    /\ Retry(w, "ERROR")
    /\ UNCHANGED <<calls, writer, readers, word, snap, disk, exiting, counts>>

-----------------------------------------------------------------------------
(* Processes, external to this code but for what a new one does. *)

\* A worker is asked to exit; it does so once it has no timer left.
Quit(w) ==
    /\ w \in Quitters
    /\ w \notin exiting
    /\ pc[w] # "dead"
    /\ exiting' = exiting \cup {w}
    /\ UNCHANGED <<zone, pc, word, timer, snap, disk, counts, dropped>>

Exit(w) ==
    /\ pc[w] = "idle"
    /\ w \in exiting
    /\ ~timer[w]
    /\ Goto(w, "exited")
    /\ UNCHANGED <<zone, word, timer, snap, disk, exiting, counts, dropped>>

\* A worker dies, at any point; what it had locked stays locked.
Kill(w) ==
    /\ kills < MaxKills
    /\ pc[w] \notin Gone
    /\ kills' = kills + 1
    /\ timer' = [timer EXCEPT ![w] = FALSE]
    /\ dropped' = (dropped \/ (pc[w] = "redirty" /\ ~flags.dirty /\ ~flags.writing))
    /\ Goto(w, "dead")
    /\ UNCHANGED <<zone, word, snap, disk, exiting, errors, restarts>>

\* ngx_js_dict_init_worker(): worker 0 looks after a zone it finds dirty.
InitWorker(d) == [w \in Workers |-> w = First /\ d]

\* The master process replaces a worker that died.
Respawn(w) ==
    /\ pc[w] = "dead"
    /\ w \notin exiting
    /\ timer' = [timer EXCEPT ![w] = InitWorker(flags.dirty)[w]]
    /\ Goto(w, "idle")
    /\ UNCHANGED <<zone, word, snap, disk, exiting, counts, dropped>>

\* nginx stops and starts again with a new zone, loaded from the state file.
\* Entries that have expired, or have no expiry time, leave it dirty.
Restart ==
    /\ restarts < MaxRestarts
    /\ file.full
    /\ restarts' = restarts + 1
    /\ calls' = file.calls
    /\ writer' = NoOne
    /\ readers' = {}
    /\ \E d \in BOOLEAN :
          /\ flags' = [dirty |-> d, writing |-> FALSE]
          /\ timer' = InitWorker(d)
    /\ pc' = [w \in Workers |-> "idle"]
    /\ exiting' = {}
    /\ dropped' = FALSE
    /\ UNCHANGED <<word, snap, disk, errors, kills>>

-----------------------------------------------------------------------------

Init ==
    /\ calls = 0
    /\ flags = [dirty |-> FALSE, writing |-> FALSE]
    /\ writer = NoOne
    /\ readers = {}
    /\ pc = [w \in Workers |-> "idle"]
    /\ word = [w \in Workers |-> flags]
    /\ timer = [w \in Workers |-> FALSE]
    /\ snap = [w \in Workers |-> 0]
    /\ tmp = [calls |-> 0, full |-> FALSE]
    /\ file = [calls |-> 0, full |-> TRUE]
    /\ exiting = {}
    /\ errors = 0 /\ kills = 0 /\ restarts = 0
    /\ dropped = FALSE

\* The steps a running worker goes on with by itself.
Work(w) ==
    \/ ModifyDone(w) \/ ngx_js_dict_save_handler(w)
    \/ SaveBegin(w) \/ Render(w) \/ SaveMark(w)
    \/ OpenTemp(w) \/ WriteTemp(w) \/ RenameTemp(w)
    \/ SaveDone(w) \/ SaveFailed(w) \/ SaveRedirty(w)

Faults(w) == SaveNoPool(w) \/ RenderFails(w) \/ SaveFails(w)
Life(w) == Quit(w) \/ Exit(w) \/ Kill(w) \/ Respawn(w)

Next ==
    \/ \E w \in Workers : Modify(w) \/ Work(w) \/ Faults(w) \/ Life(w)
    \/ Restart

Spec == Init /\ [][Next]_vars

\* A running worker goes on: its timers fire and its handlers finish.
FairSpec == Spec /\ \A w \in Workers : WF_vars(Work(w))

-----------------------------------------------------------------------------

\* The state has its type.
TypeOK ==
    /\ calls \in Nat
    /\ flags \in Flags
    /\ writer \in Workers \cup {NoOne}
    /\ readers \subseteq Workers
    /\ pc \in [Workers -> States]
    /\ word \in [Workers -> Flags]
    /\ timer \in [Workers -> BOOLEAN]
    /\ snap \in [Workers -> Nat]
    /\ tmp \in File
    /\ file \in File
    /\ exiting \subseteq Workers
    /\ {errors, kills, restarts} \subseteq Nat
    /\ dropped \in BOOLEAN

\* The flag "writing" keeps two workers from writing the temporary file at
\* once: the assignments to it that take no lock included.
OneWriter ==
    \A v, w \in Workers : pc[v] \in Saving /\ pc[w] \in Saving => v = w

\* Whenever a worker dies, the state file is the whole of some state of the
\* zone: it is replaced only by a temporary file that is complete.
FileComplete == file.full

\* A zone that is neither dirty nor being written is on disk as it is: no
\* modifying call is forgotten between the flag and the file, while one worker
\* writes and others modify the zone or find their timer.  (writer is set while
\* a call is between its change and the flag.)  There is one gap, between the
\* two assignments after a save that failed: a worker that is killed there
\* leaves a zone that nobody will save before the next call modifies it.
CleanMeansSaved ==
    ~flags.dirty /\ ~flags.writing /\ writer = NoOne =>
       \/ file.calls = calls
       \/ \E w \in Workers : pc[w] = "redirty"
       \/ dropped

\* The state file never goes back to an older state of the zone.
FileAdvances == [][file'.calls >= file.calls]_vars

\* Every modifying call is on disk sooner or later: whatever fails in between,
\* as long as no worker is asked to exit, and before workers have exited, as
\* long as nothing fails.  (An exiting worker does not repeat a failed save;
\* one that dies while it writes leaves the zone marked as being written, and
\* nginx that restarts forgets what was not saved.)
EventuallySaved ==
    \A n \in 1..MaxCalls :
       calls >= n ~> (\/ file.calls >= n
                      \/ errors > 0 /\ exiting # {}
                      \/ kills > 0
                      \/ restarts > 0)

====
