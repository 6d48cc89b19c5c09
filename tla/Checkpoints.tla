------------------------------ MODULE Checkpoints ------------------------------
(***************************************************************************)
(* The checkpoint file of the recovery subsystem: CheckpointWriter and     *)
(* CheckpointReader (recovery/checkpoint.ts), the four places that start a *)
(* write - the scheduler's timer and activity threshold ("trigger"), its   *)
(* signal handlers ("signal"), DurabilityLayer.checkpointNow ("now") and   *)
(* its shutdown ("close") -, the cleanup of orphaned files and the death   *)
(* of the process at any await.                                            *)
(*                                                                         *)
(* The sessions are in memory only. Their contents are numbered: a change  *)
(* makes the next version, and so does a death, which loses them - the     *)
(* next process begins with sessions of its own, since nothing reads the   *)
(* checkpoint back when the durability layer starts. A newer version is    *)
(* hence a later one, which need not hold what an older one held.          *)
(*                                                                         *)
(* A snapshot is a version of the sessions. A file holds a snapshot,       *)
(* garbage (which the reader's checksum refuses), nothing yet, or does not *)
(* exist. A write's open file follows renames. Of each kind of write at    *)
(* most one is under way at a time.                                        *)
(***************************************************************************)
EXTENDS Integers, FiniteSets

CONSTANTS MaxChanges,    (* bounds the changes of the sessions              *)
          MaxCalls,      (* bounds checkpointNow calls, cleanups and reads  *)
          MaxFaults,     (* bounds file operations that fail and deaths     *)
          MaxOverlap,    (* bounds the writes under way at a time           *)
          Threshold      (* ACTIVITY_THRESHOLD                              *)

ASSUME CheckpointsAssumption ==
  /\ MaxChanges \in Nat /\ MaxCalls \in Nat /\ MaxFaults \in Nat
  /\ MaxOverlap \in Nat
  /\ Threshold \in Nat \ {0}

VARIABLES state,       (* the sessions' version                             *)
          files,
          writes,
          activity,    (* activityCounter                                   *)
          timerOn,     (* the scheduler's timer and signal handlers are set *)
          stopping,    (* handleShutdown awaits its write or its timeout    *)
          closing,     (* how far DurabilityLayer.shutdown is               *)
          sweep,       (* files the cleanup has yet to remove               *)
          reading,     (* the file that CheckpointReader.read awaits        *)
          written,     (* history: the snapshot last renamed to main, in    *)
                       (* calm                                              *)
          floor,       (* history: written when the read began              *)
          mess,        (* history: writes met each other or a cleanup       *)
          changes, calls, faults

disk == <<files, writes, written, mess, floor>>
layer == <<activity, timerOn, stopping, closing>>
counts == <<calls, faults>>
sessions == <<state, changes>>
vars == <<sessions, disk, layer, sweep, reading, counts>>

Writers == {"trigger", "signal", "now", "close"}

Names == {"main", "backup", "tmp"}

None == -1

Empty == -2

Garbage == -3

Snapshots == 0..(MaxChanges + MaxFaults)

Write == [at : {"idle", "backup", "clean", "create", "write", "rename"},
          snapshot : Snapshots, open : Names \cup {"gone"}]

Idle == [at |-> "idle", snapshot |-> 0, open |-> "gone"]

Busy == {w \in Writers : writes[w].at # "idle"}

TypeOK ==
  /\ changes \in 0..MaxChanges
  /\ state \in 0..(changes + faults)
  /\ files \in [Names -> Snapshots \cup {None, Empty, Garbage}]
  /\ writes \in [Writers -> Write]
  /\ activity \in 0..Threshold
  /\ timerOn \in BOOLEAN
  /\ stopping \in BOOLEAN
  /\ closing \in {"no", "drain", "begin", "write", "done"}
  /\ sweep \subseteq Names
  /\ reading \in {"none", "main", "backup"}
  /\ written \in Snapshots \cup {None}
  /\ floor \in Snapshots \cup {None}
  /\ mess \in {"none", "now", "past"}
  /\ calls \in 0..MaxCalls
  /\ faults \in 0..MaxFaults

Init ==
  /\ state = 0
  /\ files = [n \in Names |-> None]
  /\ writes = [w \in Writers |-> Idle]
  /\ activity = 0
  /\ timerOn = TRUE
  /\ stopping = FALSE
  /\ closing = "no"
  /\ sweep = {}
  /\ reading = "none"
  /\ written = None
  /\ floor = None
  /\ mess = "none"
  /\ changes = 0
  /\ calls = 0
  /\ faults = 0

-------------------------------------------------------------------------------
(* What happens to the files: renames and removals by name. *)

Follow(open, from, to) ==
  IF open = from THEN to ELSE IF open = to THEN "gone" ELSE open

(* Fault: the file that the old checkpoint is renamed over is removed first. *)
RenamedUnlinking(fs, from, to) ==
  [fs EXCEPT ![to] = fs[from], ![from] = None]

Renamed(fs, from, to) ==
  IF fs[from] = None THEN fs ELSE [fs EXCEPT ![to] = fs[from], ![from] = None]

(* The writes' open files after a rename, or after a removal (to "gone"). *)
Opened(from, to) ==
  [w \in Writers |-> [writes[w] EXCEPT !.open = Follow(@, from, to)]]

Step(ws, w, at) == [ws EXCEPT ![w].at = at]

-------------------------------------------------------------------------------
(* The history of disturbances. They are over when nothing is under way,     *)
(* and forgotten once a write that met nothing has completed.                *)

Met == mess' = "now" /\ floor' = None /\ written' = None

(* Fault: a write that ended is marked, not forgotten. *)
EndsMarked(w) == writes' = [writes EXCEPT ![w].at = "ended"]

Ends(w) == writes' = [writes EXCEPT ![w] = Idle]

Settles(w, done) ==
  /\ mess' = CASE mess = "now" /\ Busy = {w} /\ sweep = {} -> "past"
               [] mess = "past" /\ done -> "none"
               [] OTHER -> mess
  /\ UNCHANGED floor

(* write: the snapshot is taken and the first await reached. *)
Begin(w) ==
  /\ writes[w].at = "idle"
  /\ Cardinality(Busy) < MaxOverlap
  /\ writes' = [writes EXCEPT ![w] = [at |-> "backup", snapshot |-> state, open |-> "gone"]]
  /\ IF Busy # {} \/ sweep # {} THEN Met ELSE UNCHANGED <<mess, floor, written>>
  /\ UNCHANGED files

(* How the caller of write w goes on when it ends: performTrigger,           *)
(* handleShutdown, checkpointNow, shutdown.                                  *)
Returns(w, done) ==
  /\ activity' = IF w = "trigger" /\ done THEN 0 ELSE activity
  /\ timerOn' = (timerOn /\ w # "close" /\ ~(w = "signal" /\ stopping))
  /\ stopping' = (stopping /\ w # "signal")
  /\ closing' = CASE w = "close" -> "done"
                  [] w = "trigger" /\ closing = "drain" -> "begin"
                  [] OTHER -> closing

(* An operation of write w fails, and with it the write. *)
Throws(w) == Ends(w) /\ Settles(w, FALSE) /\ Returns(w, FALSE)

(* The operation fails for a reason of the file system's own. *)
Fails == faults < MaxFaults /\ faults' = faults + 1

Works == UNCHANGED faults

-------------------------------------------------------------------------------
(* CheckpointWriter.write, one action per file operation. *)

(* backupPreviousCheckpoint: a failure is ignored. *)
Backup(w) ==
  /\ writes[w].at = "backup"
  /\ \/ /\ Works
        /\ files' = Renamed(files, "main", "backup")
        /\ writes' = Step(IF files["main"] = None THEN writes ELSE Opened("main", "backup"),
                          w, "clean")
     \/ Fails /\ writes' = Step(writes, w, "clean") /\ UNCHANGED files
  /\ UNCHANGED <<written, mess, floor, layer>>

(* cleanStaleTempFiles, whose failure is ignored, and mkdir. *)
Clean(w) ==
  /\ writes[w].at = "clean"
  /\ \/ /\ Works
        /\ files' = [files EXCEPT !["tmp"] = None]
        /\ writes' = Step(Opened("tmp", "gone"), w, "create")
     \/ Fails /\ writes' = Step(writes, w, "create") /\ UNCHANGED files
  /\ UNCHANGED <<written, mess, floor, layer>>

(* writeFile opens and truncates the temp file ... *)
Create(w) ==
  /\ writes[w].at = "create"
  /\ \/ /\ Works
        /\ files' = [files EXCEPT !["tmp"] = Empty]
        /\ writes' = [Step(writes, w, "write") EXCEPT ![w].open = "tmp"]
        /\ UNCHANGED <<mess, floor, layer>>
     \/ Fails /\ Throws(w) /\ UNCHANGED files
  /\ UNCHANGED written

Alone(w) ==
  /\ files[writes[w].open] = Empty
  /\ \A v \in Writers \ {w} : writes[v].at = "write" => writes[v].open # writes[w].open

(* ... and fills it: two writes to one file may leave parts of both. *)
Fill(w) ==
  LET open == writes[w].open
      filled(v) == IF open = "gone" THEN files ELSE [files EXCEPT ![open] = v]
      closed == [writes EXCEPT ![w].open = "gone"]
  IN /\ writes[w].at = "write"
     /\ \/ /\ Works
           /\ \E v \in {writes[w].snapshot, Garbage} :
                /\ v = Garbage => open # "gone" /\ ~Alone(w)
                /\ files' = filled(v)
           /\ writes' = Step(closed, w, "rename")
           /\ UNCHANGED <<mess, floor, layer>>
        \/ Fails /\ Throws(w) /\ files' = filled(Garbage)
     /\ UNCHANGED written

(* Fault: the backup is removed once the new checkpoint is in place. *)
PlacedTidying == [Renamed(files, "tmp", "main") EXCEPT !["backup"] = None]

Placed == Renamed(files, "tmp", "main")

(* The temp file is opened again by name, synced, and becomes the            *)
(* checkpoint; if it is gone both open and rename throw.                     *)
Rename(w) ==
  /\ writes[w].at = "rename"
  /\ \/ /\ Works
        /\ files["tmp"] # None
        /\ files' = Placed
        /\ writes' = [Opened("tmp", "main") EXCEPT ![w] = Idle]
        /\ Settles(w, TRUE)
        /\ written' = IF mess' = "none" THEN writes[w].snapshot ELSE None
        /\ Returns(w, TRUE)
     \/ Works /\ files["tmp"] = None /\ Throws(w) /\ UNCHANGED <<files, written>>
     \/ Fails /\ Throws(w) /\ UNCHANGED <<files, written>>

Writes(w) ==
  /\ Backup(w) \/ Clean(w) \/ Create(w) \/ Fill(w) \/ Rename(w)
  /\ UNCHANGED <<sessions, sweep, reading, calls>>

-------------------------------------------------------------------------------
(* The callers. *)

Others == <<sweep, reading, counts>>

(* triggerNow: a trigger under way is shared. *)
Trigger == IF writes["trigger"].at = "idle" THEN Begin("trigger") ELSE UNCHANGED disk

(* Fault: the timer passes over an interval without activity. *)
TimerIfActive ==
  /\ timerOn
  /\ IF activity > 0 THEN Trigger ELSE UNCHANGED disk
  /\ UNCHANGED <<sessions, layer, Others>>

(* onTimer. *)
Timer ==
  /\ timerOn
  /\ Trigger
  /\ UNCHANGED <<sessions, layer, Others>>

(* The sessions change. *)
Change ==
  /\ changes < MaxChanges
  /\ changes' = changes + 1
  /\ state' = state + 1
  /\ UNCHANGED <<disk, layer, Others>>

(* recordActivity, for an event of that or any other kind; the layer passes  *)
(* it on while it is started, with the timer set or not.                     *)
Activity ==
  /\ closing = "no"
  /\ activity' = IF activity < Threshold THEN activity + 1 ELSE activity
  /\ IF activity' = Threshold THEN Trigger ELSE UNCHANGED disk
  /\ UNCHANGED <<sessions, timerOn, stopping, closing, Others>>

(* SIGTERM or SIGINT: handleShutdown writes beside whatever is under way ... *)
Signal ==
  /\ timerOn /\ ~stopping
  /\ Begin("signal")
  /\ stopping' = TRUE
  /\ UNCHANGED <<sessions, activity, timerOn, closing, Others>>

(* ... and stops the scheduler after five seconds, the write done or not. *)
SignalTimesOut ==
  /\ stopping
  /\ stopping' = FALSE
  /\ timerOn' = FALSE
  /\ UNCHANGED <<sessions, disk, activity, closing, Others>>

(* checkpointNow. *)
CheckpointNow ==
  /\ calls < MaxCalls
  /\ calls' = calls + 1
  /\ Begin("now")
  /\ UNCHANGED <<sessions, layer, sweep, reading, faults>>

(* shutdown: waits for the trigger that is under way ... *)
Shutdown ==
  /\ closing = "no"
  /\ closing' = IF writes["trigger"].at = "idle" THEN "begin" ELSE "drain"
  /\ UNCHANGED <<sessions, disk, activity, timerOn, stopping, Others>>

(* ... and writes once more, with the timer still set. *)
LastWrite ==
  /\ closing = "begin"
  /\ closing' = "write"
  /\ Begin("close")
  /\ UNCHANGED <<sessions, activity, timerOn, stopping, Others>>

(* detectOrphans: the backup is no longer needed if there is a checkpoint,   *)
(* a temp file if it is old: no write has come to create it.                 *)
Detect ==
  /\ calls < MaxCalls
  /\ calls' = calls + 1
  /\ sweep = {}
  /\ sweep' = {n \in Names : /\ files[n] # None
                             /\ \/ n = "backup" /\ files["main"] # None
                                \/ n = "tmp" /\ \A w \in Busy : writes[w].at \in {"backup", "clean"}}
  /\ IF Busy # {} /\ sweep' # {} THEN Met
       ELSE /\ floor' = IF sweep' # {} THEN None ELSE floor
            /\ UNCHANGED <<mess, written>>
  /\ UNCHANGED <<sessions, files, writes, layer, reading, faults>>

(* cleanup removes what detectOrphans listed, by name. *)
Sweep(n) ==
  /\ n \in sweep
  /\ sweep' = sweep \ {n}
  /\ files' = [files EXCEPT ![n] = None]
  /\ writes' = Opened(n, "gone")
  /\ mess' = IF mess = "now" /\ Busy = {} /\ sweep = {n} THEN "past" ELSE mess
  /\ UNCHANGED <<sessions, written, floor, layer, reading, counts>>

(* CheckpointReader.read: the checkpoint if it is sound, else the backup. *)
ReadBegins ==
  /\ calls < MaxCalls
  /\ calls' = calls + 1
  /\ reading = "none"
  /\ reading' = "main"
  /\ floor' = IF mess = "none" /\ sweep = {} THEN written ELSE None
  /\ UNCHANGED <<sessions, files, writes, written, mess, layer, sweep, faults>>

ReadMain ==
  /\ reading = "main"
  /\ reading' = IF files["main"] \in Snapshots THEN "none" ELSE "backup"
  /\ floor' = IF reading' = "none" THEN None ELSE floor
  /\ UNCHANGED <<sessions, files, writes, written, mess, layer, sweep, counts>>

ReadBackup ==
  /\ reading = "backup"
  /\ reading' = "none"
  /\ floor' = None
  /\ UNCHANGED <<sessions, files, writes, written, mess, layer, sweep, counts>>

(* The process dies, with its sessions (maps in memory,                      *)
(* sessions/registry.ts:158), and a new one starts its durability layer over *)
(* sessions of its own (durability_layer.ts:217).                            *)
Crash ==
  /\ faults < MaxFaults
  /\ faults' = faults + 1
  /\ state' = state + 1
  /\ writes' = [w \in Writers |-> Idle]
  /\ activity' = 0
  /\ timerOn' = TRUE
  /\ stopping' = FALSE
  /\ closing' = "no"
  /\ sweep' = {}
  /\ reading' = "none"
  /\ floor' = None
  /\ mess' = IF mess = "now" THEN "past" ELSE mess
  /\ UNCHANGED <<files, written, changes, calls>>

Next ==
  \/ \E w \in Writers : Writes(w)
  \/ Timer \/ Change \/ Activity \/ Signal \/ SignalTimesOut
  \/ CheckpointNow \/ Shutdown \/ LastWrite
  \/ Detect \/ \E n \in Names : Sweep(n)
  \/ ReadBegins \/ ReadMain \/ ReadBackup
  \/ Crash

Spec == Init /\ [][Next]_vars

(* Some file operation under way ends, the timer fires while it is set, and  *)
(* a signal's five seconds pass.                                             *)
FairSpec ==
  /\ Spec
  /\ WF_vars(\E w \in Writers : Writes(w))
  /\ WF_vars(Timer)
  /\ WF_vars(LastWrite)
  /\ WF_vars(SignalTimesOut)

-------------------------------------------------------------------------------
(* Properties *)

(* What a reader with nobody else about finds. *)
Readable == IF files["main"] \in Snapshots THEN files["main"] ELSE files["backup"]

(* A process that dies, and a write that fails, at any point leave the       *)
(* checkpoint last written for the reader (the comments of checkpoint.ts     *)
(* call the renames a backup and an atomic one) - unless writes overlapped   *)
(* or a cleanup worked on what it had listed before a write.                 *)
CheckpointNotLost == mess = "none" /\ written # None => Readable = written

Register ==
  INSTANCE DurableRegister WITH value <- Readable, saved <- written, calm <- (mess = "none")

(* As long as nothing disturbs it, the directory of checkpoints is one       *)
(* register: what can be read changes only in the step that ends a write, to *)
(* what that write has saved, and never to an older version - not by the     *)
(* steps of a write before, by its failure, a cleanup or a death. After a    *)
(* death the sessions are the next process's: what replaces the dead one's   *)
(* checkpoint is a later version, with what that process has.                *)
ImplementsRegister == Register!Spec

(* A read finds the checkpoint last written before it began, or a newer      *)
(* one, though a write may swap the files between its two looks.             *)
ReadFindsLatest ==
  floor # None =>
    /\ reading = "main" /\ files["main"] \in Snapshots => files["main"] >= floor
    /\ reading = "backup" => files["backup"] >= floor

(* While the scheduler's timer is set, the sessions as they are get into a   *)
(* checkpoint that can be read, again and again: in a history of finitely    *)
(* many changes (MaxChanges) each change, unless the process, whose memory   *)
(* alone holds it until then, dies first; and after a death the sessions of  *)
(* the next process.                                                         *)
ChangesSaved == []<>(timerOn => Readable = state)

===============================================================================
