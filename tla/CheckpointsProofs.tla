--------------------------- MODULE CheckpointsProofs ---------------------------
(***************************************************************************)
(* Proofs about Checkpoints, for any bounds on changes, calls, faults and  *)
(* overlapping writes, and any threshold.                                  *)
(*                                                                         *)
(* First types. Then IInv: while no writes have met, one write at most is  *)
(* under way, nothing is being swept beside it, and the temp file is its   *)
(* own; so the last checkpoint is under its name or, from the rename to    *)
(* the backup until the rename of the new one, under the backup's.         *)
(***************************************************************************)
EXTENDS Checkpoints, TLAPS

(* Each version of the sessions comes from a change or a death. *)
LEMMA StateType == TypeOK => state \in Snapshots /\ state + 1 \in Int
BY CheckpointsAssumption DEF TypeOK, Snapshots

LEMMA OpenedType ==
  ASSUME TypeOK, NEW from \in Names, NEW to \in Names \cup {"gone"}
  PROVE  /\ Opened(from, to) \in [Writers -> Write]
         /\ \A w \in Writers : /\ Opened(from, to)[w].at = writes[w].at
                               /\ Opened(from, to)[w].snapshot = writes[w].snapshot
BY DEF Opened, Follow, TypeOK, Write, Writers

LEMMA StepType ==
  ASSUME NEW ws \in [Writers -> Write], NEW w \in Writers,
         NEW at \in {"backup", "clean", "create", "write", "rename"}
  PROVE  /\ Step(ws, w, at) \in [Writers -> Write]
         /\ \A v \in Writers \ {w} : Step(ws, w, at)[v] = ws[v]
         /\ Step(ws, w, at)[w].at = at
         /\ Step(ws, w, at)[w].snapshot = ws[w].snapshot
         /\ Step(ws, w, at)[w].open = ws[w].open
BY DEF Step, Write, Writers

LEMMA IdleType == Idle \in Write
BY CheckpointsAssumption DEF Idle, Write, Snapshots

LEMMA RenamedType ==
  ASSUME TypeOK, NEW from \in Names, NEW to \in Names
  PROVE  Renamed(files, from, to) \in [Names -> Snapshots \cup {None, Empty, Garbage}]
BY DEF Renamed, TypeOK, Names

LEMMA BeginType ==
  ASSUME TypeOK, NEW w \in Writers, Begin(w)
  PROVE  /\ files' \in [Names -> Snapshots \cup {None, Empty, Garbage}]
         /\ writes' \in [Writers -> Write]
         /\ written' \in Snapshots \cup {None}
         /\ floor' \in Snapshots \cup {None}
         /\ mess' \in {"none", "now", "past"}
BY StateType DEF Begin, Met, TypeOK, Write, Writers, Names

LEMMA SettlesType ==
  ASSUME TypeOK, NEW w \in Writers, NEW done \in BOOLEAN, Settles(w, done)
  PROVE  mess' \in {"none", "now", "past"} /\ floor' \in Snapshots \cup {None}
BY DEF Settles, TypeOK

LEMMA ReturnsType ==
  ASSUME TypeOK, NEW w \in Writers, NEW done \in BOOLEAN, Returns(w, done)
  PROVE  /\ activity' \in 0..Threshold
         /\ timerOn' \in BOOLEAN
         /\ stopping' \in BOOLEAN
         /\ closing' \in {"no", "drain", "begin", "write", "done"}
<1> USE CheckpointsAssumption DEF Returns, TypeOK
<1>1. activity' \in 0..Threshold
  OBVIOUS
<1>2. timerOn' \in BOOLEAN /\ stopping' \in BOOLEAN
  OBVIOUS
<1>3. closing' \in {"no", "drain", "begin", "write", "done"}
  OBVIOUS
<1> QED
  BY <1>1, <1>2, <1>3

LEMMA ThrowsType ==
  ASSUME TypeOK, NEW w \in Writers, Throws(w)
  PROVE  /\ writes' \in [Writers -> Write]
         /\ mess' \in {"none", "now", "past"} /\ floor' \in Snapshots \cup {None}
         /\ activity' \in 0..Threshold
         /\ timerOn' \in BOOLEAN
         /\ stopping' \in BOOLEAN
         /\ closing' \in {"no", "drain", "begin", "write", "done"}
<1>1. writes' \in [Writers -> Write]
  BY IdleType DEF Throws, Ends, TypeOK
<1> QED
  BY <1>1, SettlesType, ReturnsType DEF Throws

-------------------------------------------------------------------------------
LEMMA WritesKeepTypes ==
  ASSUME TypeOK, NEW w \in Writers, Writes(w)
  PROVE  TypeOK'
<1> DEFINE Files == [Names -> Snapshots \cup {None, Empty, Garbage}]
           Disk == /\ files \in Files
                   /\ writes \in [Writers -> Write]
                   /\ written \in Snapshots \cup {None}
                   /\ floor \in Snapshots \cup {None}
                   /\ mess \in {"none", "now", "past"}
           Counted == faults \in 0..MaxFaults /\ state \in 0..(changes + faults)
           Layer == /\ activity \in 0..Threshold
                    /\ timerOn \in BOOLEAN
                    /\ stopping \in BOOLEAN
                    /\ closing \in {"no", "drain", "begin", "write", "done"}
<1>s. UNCHANGED sessions
  BY DEF Writes
<1>f. Fails => Counted'
  BY <1>s, CheckpointsAssumption DEF Fails, TypeOK, sessions
<1>w. Works => Counted'
  BY <1>s DEF Works, TypeOK, sessions
<1>d. Disk /\ Layer
  BY DEF TypeOK
<1>l. UNCHANGED layer => Layer'
  BY <1>d DEF layer
<1> SUFFICES Disk' /\ Layer' /\ Counted'
  BY <1>s DEF TypeOK, Writes, sessions
<1> HIDE DEF Counted
<1>1. CASE Backup(w)
  <2>1. Step(writes, w, "clean") \in [Writers -> Write]
    BY <1>d, StepType
  <2>2. Step(Opened("main", "backup"), w, "clean") \in [Writers -> Write]
    BY OpenedType, StepType DEF Names
  <2>3. Renamed(files, "main", "backup") \in Files
    BY RenamedType DEF Names
  <2> HIDE DEF Files, Layer
  <2> QED
    BY <1>1, <1>d, <1>l, <1>f, <1>w, <2>1, <2>2, <2>3 DEF Backup
<1>2. CASE Clean(w)
  <2>1. Step(writes, w, "create") \in [Writers -> Write]
    BY <1>d, StepType
  <2>2. Step(Opened("tmp", "gone"), w, "create") \in [Writers -> Write]
    BY OpenedType, StepType DEF Names
  <2>3. [files EXCEPT !["tmp"] = None] \in Files
    BY <1>d
  <2> HIDE DEF Files, Layer
  <2> QED
    BY <1>2, <1>d, <1>l, <1>f, <1>w, <2>1, <2>2, <2>3 DEF Clean
<1>3. CASE Create(w)
  <2>1. [Step(writes, w, "write") EXCEPT ![w].open = "tmp"] \in [Writers -> Write]
    <3>1. Step(writes, w, "write") \in [Writers -> Write]
      BY <1>d, StepType
    <3> QED
      BY <3>1 DEF Write, Names
  <2>2. [files EXCEPT !["tmp"] = Empty] \in Files
    BY <1>d
  <2>3. CASE Works /\ files' = [files EXCEPT !["tmp"] = Empty]
             /\ writes' = [Step(writes, w, "write") EXCEPT ![w].open = "tmp"]
             /\ UNCHANGED <<mess, floor, layer>>
    <3> HIDE DEF Files, Layer
    <3> QED
      BY <1>3, <1>d, <1>l, <1>w, <2>1, <2>2, <2>3 DEF Create
  <2>4. CASE Fails /\ Throws(w) /\ UNCHANGED files
    BY <1>3, <1>d, <1>f, <2>4, ThrowsType DEF Create
  <2> QED
    BY <1>3, <2>3, <2>4 DEF Create
<1>4. CASE Fill(w)
  <2> DEFINE open == writes[w].open
             filled(v) == IF open = "gone" THEN files ELSE [files EXCEPT ![open] = v]
  <2>1. \A v \in Snapshots \cup {Garbage} : filled(v) \in Files
    BY <1>d DEF Write
  <2>2. Step([writes EXCEPT ![w].open = "gone"], w, "rename") \in [Writers -> Write]
    <3>1. [writes EXCEPT ![w].open = "gone"] \in [Writers -> Write]
      BY <1>d DEF Write
    <3> QED
      BY <3>1, StepType
  <2>3. writes[w].snapshot \in Snapshots
    BY <1>d DEF Write
  <2>4. CASE /\ Works
             /\ \E v \in {writes[w].snapshot, Garbage} : files' = filled(v)
             /\ writes' = Step([writes EXCEPT ![w].open = "gone"], w, "rename")
             /\ UNCHANGED <<mess, floor, layer>>
    <3> HIDE DEF Files, Layer, filled
    <3> QED
      BY <1>4, <1>d, <1>l, <1>w, <2>1, <2>2, <2>3, <2>4 DEF Fill
  <2>5. CASE Fails /\ Throws(w) /\ files' = filled(Garbage)
    <3> HIDE DEF Files, filled
    <3> QED
      BY <1>4, <1>d, <1>f, <2>1, <2>5, ThrowsType DEF Fill
  <2> QED
    BY <1>4, <2>4, <2>5 DEF Fill
<1>5. CASE Rename(w)
  <2>1. Placed \in Files
    BY RenamedType DEF Placed, Names
  <2>2. [Opened("tmp", "main") EXCEPT ![w] = Idle] \in [Writers -> Write]
    BY OpenedType, IdleType DEF Names
  <2>3. writes[w].snapshot \in Snapshots
    BY <1>d DEF Write
  <2>4. CASE /\ Works
             /\ files' = Placed
             /\ writes' = [Opened("tmp", "main") EXCEPT ![w] = Idle]
             /\ Settles(w, TRUE)
             /\ written' \in {writes[w].snapshot, None}
             /\ Returns(w, TRUE)
    <3> HIDE DEF Files
    <3> QED
      BY <1>d, <1>w, <2>1, <2>2, <2>3, <2>4, SettlesType, ReturnsType
  <2>5. CASE (Works \/ Fails) /\ Throws(w) /\ UNCHANGED <<files, written>>
    BY <1>d, <1>f, <1>w, <2>5, ThrowsType
  <2> QED
    BY <1>5, <2>4, <2>5 DEF Rename
<1> QED
  BY <1>1, <1>2, <1>3, <1>4, <1>5 DEF Writes

LEMMA TypeKept == TypeOK /\ [Next]_vars => TypeOK'
<1> SUFFICES ASSUME TypeOK, [Next]_vars PROVE TypeOK'
  OBVIOUS
<1> USE CheckpointsAssumption DEF Others, counts, layer, disk, sessions
<1>1. ASSUME NEW w \in Writers, Writes(w) PROVE TypeOK'
  BY <1>1, WritesKeepTypes
<1>2. CASE Timer \/ Change
  <2>1. CASE Timer
    BY <2>1, BeginType DEF Timer, Trigger, Writers, TypeOK
  <2>2. changes' \in 0..MaxChanges /\ state' \in 0..(changes' + faults') /\ Change => TypeOK'
    BY DEF Change, TypeOK
  <2>3. Change => changes' \in 0..MaxChanges /\ state' \in 0..(changes' + faults')
    BY DEF Change, TypeOK
  <2> QED
    BY <1>2, <2>1, <2>2, <2>3
<1>3. CASE Activity
  BY <1>3, BeginType DEF Activity, Trigger, Writers, TypeOK
<1>4. CASE Signal \/ SignalTimesOut
  BY <1>4, BeginType DEF Signal, SignalTimesOut, Writers, TypeOK
<1>5. CASE CheckpointNow
  BY <1>5, BeginType DEF CheckpointNow, Writers, TypeOK
<1>6. CASE Shutdown \/ LastWrite
  BY <1>6, BeginType DEF Shutdown, LastWrite, Writers, TypeOK
<1>7. CASE Detect
  BY <1>7 DEF Detect, Met, TypeOK
<1>8. ASSUME NEW n \in Names, Sweep(n) PROVE TypeOK'
  <2>1. Opened(n, "gone") \in [Writers -> Write]
    BY OpenedType
  <2> QED
    BY <1>8, <2>1 DEF Sweep, TypeOK
<1>9. CASE ReadBegins \/ ReadMain \/ ReadBackup
  BY <1>9 DEF ReadBegins, ReadMain, ReadBackup, TypeOK
<1>10. CASE Crash
  <2>1. [w \in Writers |-> Idle] \in [Writers -> Write]
    BY IdleType
  <2>2. faults' \in 0..MaxFaults /\ activity' \in 0..Threshold
    BY <1>10 DEF Crash, TypeOK
  <2>3. state' \in 0..(changes' + faults')
    BY <1>10 DEF Crash, TypeOK, Snapshots
  <2> QED
    BY <1>10, <2>1, <2>2, <2>3 DEF Crash, TypeOK
<1>11. CASE UNCHANGED vars
  BY <1>11 DEF vars, TypeOK
<1> QED
  BY <1>1, <1>2, <1>3, <1>4, <1>5, <1>6, <1>7, <1>8, <1>9, <1>10, <1>11 DEF Next

LEMMA InitType == Init => TypeOK
<1>1. [w \in Writers |-> Idle] \in [Writers -> Write]
  BY IdleType
<1>2. 0 \in Snapshots /\ 0 \in 0..Threshold /\ 0 \in 0..MaxCalls /\ 0 \in 0..MaxFaults
  BY CheckpointsAssumption DEF Snapshots
<1>3. 0 \in 0..MaxChanges /\ 0 \in 0..(0 + 0)
  BY CheckpointsAssumption
<1> QED
  BY <1>1, <1>2, <1>3 DEF Init, TypeOK

(* The files, the writes and the state of scheduler and layer always have    *)
(* the types TypeOK says.                                                    *)
THEOREM Typed == Spec => []TypeOK
BY InitType, TypeKept, PTL DEF Spec

-------------------------------------------------------------------------------
LEMMA Apart ==
  /\ None \notin Snapshots /\ Empty \notin Snapshots /\ Garbage \notin Snapshots
  /\ None # Empty /\ None # Garbage /\ Empty # Garbage
  /\ None \in Int /\ \A n \in Snapshots : n \in Int /\ n >= 0 /\ None <= n
BY CheckpointsAssumption DEF None, Empty, Garbage, Snapshots

(* Unless writes have just met, one is under way, and no cleanup beside it. *)
OneWriter ==
  mess # "now" =>
    /\ \A v, w \in Writers : writes[v].at # "idle" /\ writes[w].at # "idle" => v = w
    /\ \A w \in Writers : writes[w].at # "idle" => sweep = {}

(* The temp file is then what that write made of it. *)
TmpOwned ==
  mess # "now" =>
    \A w \in Writers :
      /\ writes[w].at = "write" => writes[w].open = "tmp" /\ files["tmp"] = Empty
      /\ writes[w].at = "rename" => files["tmp"] = writes[w].snapshot

(* Where the checkpoint last written is. *)
UnderOneName ==
  mess = "none" /\ written # None =>
    \/ files["main"] = written
    \/ files["main"] = None /\ files["backup"] = written

(* Writes do not go back in time. *)
InOrder ==
  /\ written <= state
  /\ \A w \in Writers :
       writes[w].at # "idle" =>
         /\ writes[w].snapshot <= state
         /\ mess = "none" => written <= writes[w].snapshot

(* A cleanup has no file on its list that is the only copy. *)
SweepSafe ==
  /\ "main" \notin sweep
  /\ mess # "now" /\ "backup" \in sweep => files["main"] # None

(* What a read that nothing disturbs may still find. *)
FloorKept ==
  floor # None =>
    /\ mess = "none" /\ sweep = {} /\ written # None
    /\ floor <= written
    /\ reading = "backup" => files["backup"] >= floor

Parts == OneWriter /\ TmpOwned /\ UnderOneName /\ InOrder /\ SweepSafe /\ FloorKept

IInv == TypeOK /\ Parts

LEMMA InitParts == Init => Parts
BY Apart
   DEF Init, Parts, OneWriter, TmpOwned, UnderOneName, InOrder, SweepSafe, FloorKept,
       Idle, None, Writers

(* A write goes on to its next await. *)
LEMMA Advances ==
  ASSUME IInv, NEW w \in Writers, writes[w].at # "idle", writes'[w].at # "idle",
         writes'[w].snapshot = writes[w].snapshot,
         \A v \in Writers \ {w} : /\ writes'[v].at = writes[v].at
                                  /\ writes'[v].snapshot = writes[v].snapshot,
         UNCHANGED <<state, mess, floor, written, sweep, reading>>
  PROVE  OneWriter' /\ InOrder' /\ SweepSafe'
BY DEF IInv, Parts, OneWriter, InOrder, SweepSafe

(* A write ends: what is true of its own temp file no longer matters. *)
LEMMA Ended ==
  ASSUME IInv, NEW w \in Writers, writes[w].at # "idle", writes'[w].at = "idle",
         \A v \in Writers \ {w} : /\ writes'[v].at = writes[v].at
                                  /\ writes'[v].snapshot = writes[v].snapshot,
         NEW done \in BOOLEAN, Settles(w, done),
         UNCHANGED <<state, sweep, reading>>
  PROVE  /\ OneWriter' /\ TmpOwned' /\ SweepSafe'
         /\ written' \in {written, writes[w].snapshot, None} => InOrder'
<1>1. mess' # "now" => \A v \in Writers : writes'[v].at = "idle"
  <2>1. CASE mess = "now"
    BY <2>1 DEF Settles, Busy
  <2>2. CASE mess # "now"
    BY <2>2 DEF IInv, Parts, OneWriter
  <2> QED
    BY <2>1, <2>2
<1>2. OneWriter' /\ TmpOwned'
  BY <1>1 DEF OneWriter, TmpOwned
<1>3. SweepSafe'
  BY DEF IInv, Parts, OneWriter, SweepSafe, Settles, TypeOK
<1>4. ASSUME written' \in {written, writes[w].snapshot, None} PROVE InOrder'
  BY <1>1, <1>4, StateType, Apart DEF IInv, Parts, InOrder, Settles, TypeOK
<1> QED
  BY <1>2, <1>3, <1>4

LEMMA ThrowsParts ==
  ASSUME IInv, NEW w \in Writers, writes[w].at # "idle", Throws(w),
         files'["main"] = files["main"], files'["backup"] = files["backup"],
         UNCHANGED <<state, written, sweep, reading>>
  PROVE  Parts'
<1>1. writes'[w].at = "idle"
  BY DEF Throws, Ends, Idle, IInv, TypeOK
<1>2. \A v \in Writers \ {w} : writes'[v] = writes[v]
  BY DEF Throws, Ends, IInv, TypeOK
<1>3. OneWriter' /\ TmpOwned' /\ SweepSafe' /\ InOrder'
  BY <1>1, <1>2, Ended DEF Throws
<1>4. mess' = "none" <=> mess = "none"
  BY DEF Throws, Settles, IInv, TypeOK
<1>5. UnderOneName' /\ FloorKept'
  BY <1>4 DEF Throws, Settles, IInv, Parts, UnderOneName, FloorKept
<1> QED
  BY <1>3, <1>5 DEF Parts

-------------------------------------------------------------------------------
LEMMA BackupKeeps ==
  ASSUME IInv, NEW w \in Writers, Backup(w), UNCHANGED <<state, sweep, reading>>
  PROVE  Parts'
<1> DEFINE ws == IF writes' = Step(writes, w, "clean") THEN writes ELSE Opened("main", "backup")
<1>t. TypeOK
  BY DEF IInv
<1>1. ws \in [Writers -> Write] /\ writes' = Step(ws, w, "clean")
  BY <1>t, OpenedType DEF Backup, TypeOK, Names
<1>2. \A v \in Writers : ws[v].at = writes[v].at /\ ws[v].snapshot = writes[v].snapshot
  BY <1>t, OpenedType DEF Names
<1>3. /\ \A v \in Writers \ {w} : writes'[v] = ws[v]
      /\ writes'[w].at = "clean" /\ writes'[w].snapshot = writes[w].snapshot
  <2> HIDE DEF ws
  <2> QED
    BY <1>1, <1>2, StepType
<1> HIDE DEF ws
<1>4. writes[w].at = "backup" /\ UNCHANGED <<mess, floor, written>>
  BY DEF Backup
<1>5. OneWriter' /\ InOrder' /\ SweepSafe'
  BY <1>2, <1>3, <1>4, Advances
<1>6. TmpOwned'
  BY <1>2, <1>3, <1>4 DEF TmpOwned, IInv, Parts, OneWriter
<1>7. \/ UNCHANGED files
      \/ /\ files["main"] # None
         /\ files' = [files EXCEPT !["backup"] = files["main"], !["main"] = None]
  BY DEF Backup, Renamed
<1>8. UnderOneName'
  BY <1>4, <1>7 DEF UnderOneName, IInv, Parts, TypeOK, Names
<1>9. FloorKept'
  BY <1>4, <1>7, Apart DEF FloorKept, UnderOneName, IInv, Parts, TypeOK, Names
<1> QED
  BY <1>5, <1>6, <1>8, <1>9 DEF Parts

LEMMA CleanKeeps ==
  ASSUME IInv, NEW w \in Writers, Clean(w), UNCHANGED <<state, sweep, reading>>
  PROVE  Parts'
<1> DEFINE ws == IF writes' = Step(writes, w, "create") THEN writes ELSE Opened("tmp", "gone")
<1>t. TypeOK
  BY DEF IInv
<1>1. ws \in [Writers -> Write] /\ writes' = Step(ws, w, "create")
  BY <1>t, OpenedType DEF Clean, TypeOK, Names
<1>2. \A v \in Writers : ws[v].at = writes[v].at /\ ws[v].snapshot = writes[v].snapshot
  BY <1>t, OpenedType DEF Names
<1>3. /\ \A v \in Writers \ {w} : writes'[v] = ws[v]
      /\ writes'[w].at = "create" /\ writes'[w].snapshot = writes[w].snapshot
  <2> HIDE DEF ws
  <2> QED
    BY <1>1, <1>2, StepType
<1> HIDE DEF ws
<1>4. writes[w].at = "clean" /\ UNCHANGED <<mess, floor, written>>
  BY DEF Clean
<1>5. OneWriter' /\ InOrder' /\ SweepSafe'
  BY <1>2, <1>3, <1>4, Advances
<1>6. TmpOwned'
  BY <1>2, <1>3, <1>4 DEF TmpOwned, IInv, Parts, OneWriter
<1>7. files'["main"] = files["main"] /\ files'["backup"] = files["backup"]
  BY <1>t DEF Clean, TypeOK, Names
<1>8. UnderOneName' /\ FloorKept'
  BY <1>4, <1>7 DEF UnderOneName, FloorKept, IInv, Parts
<1> QED
  BY <1>5, <1>6, <1>8 DEF Parts

LEMMA CreateKeeps ==
  ASSUME IInv, NEW w \in Writers, Create(w), UNCHANGED <<state, sweep, reading>>
  PROVE  Parts'
<1>t. TypeOK
  BY DEF IInv
<1>1. CASE /\ files' = [files EXCEPT !["tmp"] = Empty]
           /\ writes' = [Step(writes, w, "write") EXCEPT ![w].open = "tmp"]
           /\ UNCHANGED <<mess, floor>>
  <2>1. /\ \A v \in Writers \ {w} : writes'[v] = writes[v]
        /\ writes'[w].at = "write" /\ writes'[w].snapshot = writes[w].snapshot
        /\ writes'[w].open = "tmp"
    <3>1. /\ Step(writes, w, "write") \in [Writers -> Write]
          /\ \A v \in Writers \ {w} : Step(writes, w, "write")[v] = writes[v]
          /\ Step(writes, w, "write")[w].at = "write"
          /\ Step(writes, w, "write")[w].snapshot = writes[w].snapshot
      BY <1>t, StepType DEF TypeOK
    <3> QED
      BY <1>1, <3>1 DEF Write
  <2>2. writes[w].at = "create" /\ UNCHANGED written
    BY DEF Create
  <2>3. OneWriter' /\ InOrder' /\ SweepSafe'
    BY <1>1, <2>1, <2>2, Advances
  <2>4. /\ files'["main"] = files["main"] /\ files'["backup"] = files["backup"]
        /\ files'["tmp"] = Empty
    BY <1>1, <1>t DEF TypeOK, Names
  <2>5. TmpOwned'
    BY <1>1, <2>1, <2>2, <2>4 DEF TmpOwned, IInv, Parts, OneWriter
  <2>6. UnderOneName' /\ FloorKept'
    BY <1>1, <2>2, <2>4 DEF UnderOneName, FloorKept, IInv, Parts
  <2> QED
    BY <2>3, <2>5, <2>6 DEF Parts
<1>2. CASE Throws(w) /\ UNCHANGED files
  BY <1>2, ThrowsParts DEF Create
<1> QED
  BY <1>1, <1>2 DEF Create

LEMMA FillKeeps ==
  ASSUME IInv, NEW w \in Writers, Fill(w), UNCHANGED <<state, sweep, reading>>
  PROVE  Parts'
<1> DEFINE open == writes[w].open
           filled(v) == IF open = "gone" THEN files ELSE [files EXCEPT ![open] = v]
<1>t. TypeOK
  BY DEF IInv
<1>a. writes[w].at = "write" /\ UNCHANGED written
  BY DEF Fill
<1>b. mess # "now" => open = "tmp" /\ Alone(w)
  BY <1>a, <1>t DEF IInv, Parts, OneWriter, TmpOwned, Alone
<1>1. CASE /\ \E v \in {writes[w].snapshot, Garbage} :
                /\ v = Garbage => open # "gone" /\ ~Alone(w)
                /\ files' = filled(v)
           /\ writes' = Step([writes EXCEPT ![w].open = "gone"], w, "rename")
           /\ UNCHANGED <<mess, floor>>
  <2>1. /\ \A v \in Writers \ {w} : writes'[v] = writes[v]
        /\ writes'[w].at = "rename" /\ writes'[w].snapshot = writes[w].snapshot
    <3> DEFINE closed == [writes EXCEPT ![w].open = "gone"]
    <3>1. /\ closed \in [Writers -> Write]
          /\ \A v \in Writers \ {w} : closed[v] = writes[v]
          /\ closed[w].snapshot = writes[w].snapshot
      BY <1>t DEF TypeOK, Write
    <3>2. writes' = Step(closed, w, "rename")
      BY <1>1
    <3> HIDE DEF closed
    <3> QED
      BY <3>1, <3>2, StepType
  <2>2. OneWriter' /\ InOrder' /\ SweepSafe'
    BY <1>1, <1>a, <2>1, Advances
  <2>3. mess # "now" => files' = [files EXCEPT !["tmp"] = writes[w].snapshot]
    BY <1>1, <1>b
  <2>4. TmpOwned'
    BY <1>1, <1>a, <1>t, <2>1, <2>3 DEF TmpOwned, IInv, Parts, OneWriter, TypeOK, Names
  <2>5. UnderOneName' /\ FloorKept'
    BY <1>1, <1>a, <1>t, <2>3 DEF UnderOneName, FloorKept, IInv, Parts, TypeOK, Names
  <2> QED
    BY <2>2, <2>4, <2>5 DEF Parts
<1>2. CASE Throws(w) /\ files' = filled(Garbage)
  <2>1. CASE mess # "now"
    <3>1. files'["main"] = files["main"] /\ files'["backup"] = files["backup"]
      BY <1>2, <1>b, <1>t, <2>1 DEF TypeOK, Names
    <3> QED
      BY <1>2, <1>a, <3>1, ThrowsParts
  <2>2. CASE mess = "now"
    <3>1. writes'[w].at = "idle" /\ \A v \in Writers \ {w} : writes'[v] = writes[v]
      BY <1>2, <1>t DEF Throws, Ends, Idle, TypeOK
    <3>2. OneWriter' /\ TmpOwned' /\ SweepSafe' /\ InOrder'
      BY <1>2, <1>a, <3>1, Ended DEF Throws
    <3>3. mess' # "none" /\ floor' = None
      BY <1>2, <2>2 DEF Throws, Settles, IInv, Parts, FloorKept
    <3> QED
      BY <3>2, <3>3 DEF Parts, UnderOneName, FloorKept
  <2> QED
    BY <2>1, <2>2
<1> QED
  BY <1>1, <1>2 DEF Fill

LEMMA RenameKeeps ==
  ASSUME IInv, NEW w \in Writers, Rename(w), UNCHANGED <<state, sweep, reading>>
  PROVE  Parts'
<1>t. TypeOK
  BY DEF IInv
<1>a. writes[w].at = "rename"
  BY DEF Rename
<1>1. CASE /\ files["tmp"] # None
           /\ files' = Placed
           /\ writes' = [Opened("tmp", "main") EXCEPT ![w] = Idle]
           /\ Settles(w, TRUE)
           /\ written' = IF mess' = "none" THEN writes[w].snapshot ELSE None
  <2>1. /\ writes'[w].at = "idle"
        /\ \A v \in Writers \ {w} : /\ writes'[v].at = writes[v].at
                                     /\ writes'[v].snapshot = writes[v].snapshot
    BY <1>1, <1>t, OpenedType DEF Idle, Names
  <2>2. OneWriter' /\ TmpOwned' /\ SweepSafe' /\ InOrder'
    BY <1>1, <1>a, <2>1, Ended
  <2>3. files'["main"] = files["tmp"] /\ files'["backup"] = files["backup"]
    BY <1>1, <1>t DEF Placed, Renamed, TypeOK, Names
  <2>4. mess' = "none" => mess # "now"
    BY <1>1 DEF Settles
  <2>5. UnderOneName'
    BY <1>1, <1>a, <2>3, <2>4 DEF UnderOneName, IInv, Parts, TmpOwned
  <2>6. FloorKept'
    <3> SUFFICES ASSUME floor' # None PROVE FloorKept'
      BY DEF FloorKept
    <3>1. /\ floor' = floor /\ mess = "none" /\ mess' = "none"
      BY <1>1 DEF Settles, IInv, Parts, FloorKept
    <3>2. /\ writes[w].snapshot \in Snapshots /\ floor \in Snapshots
          /\ written \in Snapshots
      BY <1>t, <3>1 DEF TypeOK, Write, IInv, Parts, FloorKept
    <3>3. floor <= written /\ written <= writes[w].snapshot
      BY <1>a, <3>1 DEF IInv, Parts, FloorKept, InOrder
    <3>4. floor' <= written'
      BY <1>1, <3>1, <3>2, <3>3, Apart
    <3> QED
      BY <1>1, <2>3, <3>1, <3>2, <3>4, Apart DEF IInv, Parts, FloorKept
  <2> QED
    BY <2>2, <2>5, <2>6 DEF Parts
<1>2. CASE Throws(w) /\ UNCHANGED <<files, written>>
  BY <1>2, <1>a, ThrowsParts
<1> QED
  BY <1>1, <1>2 DEF Rename

LEMMA WritesKeep ==
  ASSUME IInv, NEW w \in Writers, Writes(w)
  PROVE  Parts'
BY BackupKeeps, CleanKeeps, CreateKeeps, FillKeeps, RenameKeeps DEF Writes, sessions

LEMMA BeginKeeps ==
  ASSUME IInv, NEW w \in Writers, Begin(w), UNCHANGED <<state, sweep, reading>>
  PROVE  Parts'
<1>t. TypeOK
  BY DEF IInv
<1>1. /\ writes[w].at = "idle" /\ UNCHANGED files
      /\ written' = written \/ (mess' = "now" /\ written' = None)
      /\ writes'[w].at = "backup" /\ writes'[w].snapshot = state
      /\ \A v \in Writers \ {w} : writes'[v] = writes[v]
  BY <1>t DEF Begin, Met, TypeOK
<1>2. InOrder'
  <2>1. state \in Int /\ written' <= state
    BY <1>1, Apart, StateType DEF IInv, TypeOK, Parts, InOrder
  <2>2. mess' = "none" => mess = "none"
    BY <1>t DEF Begin, Met, TypeOK
  <2>3. ASSUME NEW v \in Writers, writes'[v].at # "idle"
        PROVE  /\ writes'[v].snapshot <= state'
               /\ mess' = "none" => written' <= writes'[v].snapshot
    BY <1>1, <2>1, <2>2, <2>3 DEF IInv, Parts, InOrder
  <2> QED
    BY <2>1, <2>3 DEF InOrder
<1>3. CASE Busy # {} \/ sweep # {}
  <2>1. mess' = "now" /\ floor' = None
    BY <1>3 DEF Begin, Met
  <2> QED
    BY <1>1, <1>2, <2>1
       DEF IInv, Parts, OneWriter, TmpOwned, UnderOneName, SweepSafe, FloorKept
<1>4. CASE Busy = {} /\ sweep = {}
  <2>1. UNCHANGED <<mess, floor, written>>
    BY <1>4 DEF Begin
  <2>2. \A v \in Writers : writes[v].at = "idle"
    BY <1>4 DEF Busy
  <2>3. OneWriter' /\ TmpOwned'
    BY <1>1, <1>4, <2>1, <2>2 DEF OneWriter, TmpOwned
  <2>4. UnderOneName' /\ SweepSafe' /\ FloorKept'
    BY <1>1, <1>4, <2>1 DEF IInv, Parts, UnderOneName, SweepSafe, FloorKept
  <2> QED
    BY <1>2, <2>3, <2>4 DEF Parts
<1> QED
  BY <1>3, <1>4

(* Nothing but the sessions, and those forwards, changes for the files. *)
LEMMA RestKeeps ==
  ASSUME IInv, UNCHANGED <<disk, sweep, reading>>, state' \in {state, state + 1}
  PROVE  Parts'
<1>1. InOrder'
  <2>1. state \in Int /\ written \in Int /\ \A w \in Writers : writes[w].snapshot \in Int
    BY Apart, StateType DEF IInv, TypeOK, Write
  <2> QED
    BY <2>1 DEF disk, IInv, Parts, InOrder
<1>2. OneWriter' /\ TmpOwned' /\ UnderOneName' /\ SweepSafe' /\ FloorKept'
  BY DEF disk, IInv, Parts, OneWriter, TmpOwned, UnderOneName, SweepSafe, FloorKept
<1> QED
  BY <1>1, <1>2 DEF Parts

LEMMA SweepKeeps ==
  ASSUME IInv, NEW n \in Names, Sweep(n)
  PROVE  Parts'
<1> USE DEF sessions
<1>t. TypeOK
  BY DEF IInv
<1>1. \A w \in Writers : /\ writes'[w].at = writes[w].at
                         /\ writes'[w].snapshot = writes[w].snapshot
  BY <1>t, OpenedType DEF Sweep, Names
<1>2. /\ n # "main" /\ files'["main"] = files["main"]
      /\ n # "backup" => files'["backup"] = files["backup"]
  BY <1>t DEF Sweep, IInv, Parts, SweepSafe, TypeOK, Names
<1>3. mess' # "now" => \A w \in Writers : writes[w].at = "idle"
  BY DEF Sweep, IInv, Parts, OneWriter, Busy
<1>4. mess' = "none" <=> mess = "none"
  BY <1>t DEF Sweep, TypeOK
<1>5. OneWriter' /\ TmpOwned' /\ InOrder'
  BY <1>1, <1>3, <1>4 DEF Sweep, OneWriter, TmpOwned, InOrder, IInv, Parts
<1>6. UnderOneName'
  BY <1>2, <1>4 DEF Sweep, UnderOneName, SweepSafe, IInv, Parts
<1>7. SweepSafe'
  BY <1>2 DEF Sweep, SweepSafe, IInv, Parts
<1>8. FloorKept'
  BY DEF Sweep, FloorKept, IInv, Parts
<1> QED
  BY <1>5, <1>6, <1>7, <1>8 DEF Parts

LEMMA DetectKeeps ==
  ASSUME IInv, Detect
  PROVE  Parts'
<1> USE DEF sessions, Met
<1>1. OneWriter'
  BY DEF Detect, Busy, IInv, Parts, OneWriter
<1>2. TmpOwned' /\ UnderOneName' /\ InOrder'
  BY StateType, Apart DEF Detect, IInv, Parts, TmpOwned, UnderOneName, InOrder
<1>3. SweepSafe'
  BY DEF Detect, SweepSafe
<1>4. FloorKept'
  BY DEF Detect, FloorKept, IInv, Parts
<1> QED
  BY <1>1, <1>2, <1>3, <1>4 DEF Parts

LEMMA ReadKeeps ==
  ASSUME IInv, ReadBegins \/ ReadMain \/ ReadBackup
  PROVE  Parts'
<1> USE DEF sessions
<1>1. OneWriter' /\ TmpOwned' /\ UnderOneName' /\ InOrder' /\ SweepSafe'
  BY DEF ReadBegins, ReadMain, ReadBackup, IInv, Parts, OneWriter, TmpOwned, UnderOneName,
         InOrder, SweepSafe
<1>2. FloorKept'
  <2>1. CASE ReadBegins
    BY <2>1, Apart DEF ReadBegins, FloorKept, IInv, Parts, TypeOK
  <2>2. CASE ReadMain
    BY <2>2, Apart DEF ReadMain, FloorKept, UnderOneName, IInv, Parts, TypeOK
  <2>3. CASE ReadBackup
    BY <2>3 DEF ReadBackup, FloorKept
  <2> QED
    BY <2>1, <2>2, <2>3
<1> QED
  BY <1>1, <1>2 DEF Parts

LEMMA CrashKeeps ==
  ASSUME IInv, Crash
  PROVE  Parts'
<1>1. \A w \in Writers : writes'[w].at = "idle"
  BY DEF Crash, Idle
<1>2. mess' = "none" <=> mess = "none"
  BY DEF Crash, IInv, TypeOK
<1>3. InOrder'
  <2>1. state \in Int /\ written \in Int
    BY Apart, StateType DEF IInv, TypeOK
  <2> QED
    BY <1>1, <2>1 DEF Crash, IInv, Parts, InOrder
<1>4. OneWriter' /\ TmpOwned' /\ UnderOneName' /\ SweepSafe' /\ FloorKept'
  BY <1>1, <1>2
     DEF Crash, IInv, Parts, OneWriter, TmpOwned, UnderOneName, SweepSafe, FloorKept
<1> QED
  BY <1>3, <1>4 DEF Parts

LEMMA StepParts == IInv /\ [Next]_vars => Parts'
<1> SUFFICES ASSUME IInv, [Next]_vars PROVE Parts'
  OBVIOUS
<1> USE DEF Others, counts, sessions
<1>0. \A w \in Writers : Begin(w) /\ UNCHANGED <<state, sweep, reading>> => Parts'
  BY BeginKeeps
<1>1. CASE Timer
  BY <1>0, <1>1, RestKeeps DEF Timer, Trigger, Writers
<1>2. CASE Change
  BY <1>2, RestKeeps DEF Change
<1>3. CASE Activity
  BY <1>0, <1>3, RestKeeps DEF Activity, Trigger, Writers
<1>4. CASE Signal \/ SignalTimesOut
  BY <1>0, <1>4, RestKeeps DEF Signal, SignalTimesOut, Writers
<1>5. CASE CheckpointNow
  BY <1>0, <1>5 DEF CheckpointNow, Writers
<1>6. CASE Shutdown \/ LastWrite
  BY <1>0, <1>6, RestKeeps DEF Shutdown, LastWrite, Writers
<1>7. CASE UNCHANGED vars
  BY <1>7, RestKeeps DEF vars
<1> QED
  BY <1>1, <1>2, <1>3, <1>4, <1>5, <1>6, <1>7,
     WritesKeep, DetectKeeps, SweepKeeps, ReadKeeps, CrashKeeps DEF Next

(* IInv holds throughout. *)
LEMMA Invariant == Spec => []IInv
<1>1. Init => IInv
  BY InitType, InitParts DEF IInv
<1>2. IInv /\ [Next]_vars => IInv'
  BY TypeKept, StepParts DEF IInv
<1> QED
  BY <1>1, <1>2, PTL DEF Spec

(* Unless writes met, or a write met a cleanup, the checkpoint last written  *)
(* can be read at any moment: also when the process died, or an operation    *)
(* failed, between any two steps of a write.                                 *)
THEOREM NothingLost == Spec => []CheckpointNotLost
<1>1. IInv => CheckpointNotLost
  BY Apart DEF IInv, Parts, TypeOK, UnderOneName, CheckpointNotLost, Readable
<1> QED
  BY Invariant, <1>1, PTL

(* A read that no such meeting disturbs finds what was written before it or  *)
(* something newer, whatever a write does between its two looks.             *)
THEOREM ReadsLatest == Spec => []ReadFindsLatest
<1>1. IInv => ReadFindsLatest
  <2> SUFFICES ASSUME IInv, floor # None PROVE ReadFindsLatest
    BY DEF ReadFindsLatest
  <2>1. /\ floor \in Int /\ written \in Int /\ floor <= written
        /\ reading = "backup" => files["backup"] >= floor
        /\ mess = "none" /\ written # None
    BY Apart DEF IInv, Parts, TypeOK, FloorKept
  <2>2. files["main"] = written \/ files["main"] = None
    BY <2>1 DEF IInv, Parts, UnderOneName
  <2> QED
    BY <2>1, <2>2, Apart DEF ReadFindsLatest
<1> QED
  BY Invariant, <1>1, PTL

-------------------------------------------------------------------------------
(* The directory implements DurableRegister.                                 *)

(* Before the first write that nothing disturbs there is nothing to read. *)
NoneYet ==
  mess = "none" /\ written = None => files["main"] = None /\ files["backup"] = None

(* Calm comes, and the checkpoint changes, only when a write has ended. *)
Calms ==
  mess' = "none" =>
    \/ mess = "none" /\ written' = written
    \/ /\ written' \in 0..state
       /\ mess = "none" => written' >= written
       /\ UNCHANGED state

(* The renames, removals and writes of files keep NoneYet. *)
LEMMA WritesKeepNoneYet ==
  ASSUME IInv, NoneYet, NEW w \in Writers, Writes(w)
  PROVE  NoneYet' /\ Calms
<1>t. TypeOK
  BY DEF IInv
<1>1. CASE Backup(w)
  <2>1. files' = files \/ files' = Renamed(files, "main", "backup")
    BY <1>1 DEF Backup
  <2> QED BY <1>1, <2>1, <1>t DEF Backup, Renamed, NoneYet, Calms, TypeOK, Names
<1>2. CASE Clean(w)
  BY <1>2, <1>t DEF Clean, NoneYet, Calms, TypeOK, Names
<1>3. ASSUME Throws(w) PROVE mess' = "none" => mess = "none"
  BY <1>3, <1>t DEF Throws, Settles, TypeOK
<1>4. CASE Create(w)
  <2>1. mess' = "none" => mess = "none"
    BY <1>3, <1>4 DEF Create
  <2> QED BY <1>4, <2>1, <1>t DEF Create, NoneYet, Calms, TypeOK, Names
<1>5. CASE Fill(w)
  <2>1. mess' = "none" => mess = "none"
    BY <1>3, <1>5 DEF Fill
  <2>2. mess = "none" => writes[w].open = "tmp"
    BY <1>5 DEF Fill, IInv, Parts, TmpOwned
  <2>3. mess = "none" => files'["main"] = files["main"] /\ files'["backup"] = files["backup"]
    BY <1>5, <2>2, <1>t DEF Fill, TypeOK, Names
  <2> QED BY <1>5, <2>1, <2>3 DEF Fill, NoneYet, Calms
<1>6. CASE Rename(w)
  <2>1. CASE /\ Settles(w, TRUE)
             /\ written' = IF mess' = "none" THEN writes[w].snapshot ELSE None
    <3>1. writes[w].at # "idle" /\ writes[w].snapshot \in Snapshots /\ state \in Nat
      BY <1>6, <1>t DEF Rename, TypeOK, Write, Snapshots
    <3>2. /\ writes[w].snapshot <= state
          /\ mess = "none" => written <= writes[w].snapshot
      BY <3>1 DEF IInv, Parts, InOrder
    <3>3. written \in Int /\ (mess' = "none" => written' \in Nat)
      BY <1>t, <2>1, <3>1, Apart DEF TypeOK, Snapshots
    <3>4. mess' = "none" => written' # None
      BY <3>3 DEF None
    <3>5. UNCHANGED state
      BY DEF Writes, sessions
    <3> QED BY <2>1, <3>1, <3>2, <3>3, <3>4, <3>5 DEF NoneYet, Calms
  <2>2. CASE Throws(w) /\ UNCHANGED <<files, written>>
    BY <1>3, <2>2 DEF NoneYet, Calms
  <2> QED BY <1>6, <2>1, <2>2 DEF Rename
<1> QED BY <1>1, <1>2, <1>4, <1>5, <1>6 DEF Writes

(* What else happens moves no file but away. *)
LEMMA RestKeepsNoneYet ==
  ASSUME NoneYet, mess' = "none" => mess = "none" /\ written' = written,
         \A n \in {"main", "backup"} : files'[n] = files[n] \/ files'[n] = None
  PROVE  NoneYet' /\ Calms
BY DEF NoneYet, Calms

LEMMA StepNoneYet == IInv /\ NoneYet /\ [Next]_vars => NoneYet' /\ Calms
<1> SUFFICES ASSUME IInv, NoneYet, [Next]_vars PROVE NoneYet' /\ Calms
  OBVIOUS
<1> USE DEF Others, counts, sessions
<1>t. TypeOK
  BY DEF IInv
<1>0. \A w \in Writers :
        Begin(w) => UNCHANGED files /\ (mess' = "none" => mess = "none" /\ written' = written)
  BY DEF Begin, Met
<1>1. CASE Timer \/ Activity
  BY <1>0, <1>1, RestKeepsNoneYet DEF Timer, Activity, Trigger, Writers, disk
<1>2. CASE Change \/ SignalTimesOut \/ Shutdown \/ UNCHANGED vars
  BY <1>2, RestKeepsNoneYet DEF Change, SignalTimesOut, Shutdown, vars, disk
<1>3. CASE Signal \/ CheckpointNow \/ LastWrite
  BY <1>0, <1>3, RestKeepsNoneYet DEF Signal, CheckpointNow, LastWrite, Writers
<1>4. CASE Detect \/ ReadBegins \/ ReadMain \/ ReadBackup
  BY <1>4, RestKeepsNoneYet DEF Detect, Met, ReadBegins, ReadMain, ReadBackup
<1>5. CASE Crash
  BY <1>5, <1>t, RestKeepsNoneYet DEF Crash, TypeOK
<1>6. ASSUME NEW n \in Names, Sweep(n) PROVE NoneYet' /\ Calms
  BY <1>6, <1>t, RestKeepsNoneYet DEF Sweep, TypeOK, Names
<1>7. ASSUME NEW w \in Writers, Writes(w) PROVE NoneYet' /\ Calms
  BY <1>7, WritesKeepNoneYet
<1> QED BY <1>1, <1>2, <1>3, <1>4, <1>5, <1>6, <1>7 DEF Next

(* In calm the reader finds what was saved last. *)
Shown ==
  /\ Readable \in Int /\ written \in Int
  /\ mess = "none" => Readable = written

LEMMA CalmShows == IInv /\ NoneYet => Shown
<1>1. TypeOK => Readable \in Int /\ written \in Int
  BY Apart DEF TypeOK, Readable, Names, None, Empty, Garbage
<1>2. IInv /\ NoneYet /\ mess = "none" => Readable = written
  BY Apart DEF IInv, Parts, UnderOneName, NoneYet, Readable, TypeOK
<1> QED BY <1>1, <1>2 DEF IInv, Shown

(* A change of the sessions, and a death, make a version and no more. *)
NewVersion ==
  /\ state' = state + 1
  /\ UNCHANGED <<files, written>>
  /\ mess' = "none" <=> mess = "none"

LEMMA Versions == TypeOK /\ [Next]_vars => UNCHANGED state \/ NewVersion
<1> SUFFICES ASSUME TypeOK, [Next]_vars PROVE UNCHANGED state \/ NewVersion
  OBVIOUS
<1>1. CASE Crash
  BY <1>1 DEF Crash, NewVersion, TypeOK
<1>2. CASE Change
  BY <1>2 DEF Change, NewVersion, disk
<1> QED
  BY <1>1, <1>2
     DEF Next, Writes, Timer, Activity, Signal, SignalTimesOut, CheckpointNow, Shutdown,
         LastWrite, Detect, Sweep, ReadBegins, ReadMain, ReadBackup, vars, sessions

LEMMA StepRefines ==
  ASSUME Shown, Shown', Calms, UNCHANGED state \/ NewVersion
  PROVE  [Register!Next]_(Register!vars)
<1>1. CASE NewVersion
  <2>1. /\ state' = state + 1 /\ UNCHANGED <<Readable, written>>
        /\ (mess' = "none") = (mess = "none")
    BY <1>1 DEF NewVersion, Readable
  <2> QED BY <2>1 DEF Register!Next, Register!Change
<1>2. CASE UNCHANGED state /\ mess' # "none"
  <2>1. (mess' = "none") = FALSE
    BY <1>2
  <2> QED BY <1>2, <2>1 DEF Shown, Register!Next, Register!Disturbed
<1>3. CASE UNCHANGED state /\ mess' = "none"
  <2>1. CASE mess = "none" /\ written' = written
    BY <1>3, <2>1 DEF Shown, Register!vars
  <2>2. CASE written' \in 0..state /\ (mess = "none" => written' >= written)
    <3>1. (mess' = "none") = TRUE
      BY <1>3
    <3> QED BY <1>3, <2>2, <3>1 DEF Shown, Register!Next, Register!Save
  <2> QED BY <1>3, <2>1, <2>2 DEF Calms
<1> QED BY <1>1, <1>2, <1>3

(* Whatever the number of writes, of changes, faults and deaths: as long as  *)
(* writes do not meet each other or a cleanup, the directory is a register.  *)
THEOREM IsRegister == Spec => ImplementsRegister
<1>1. Init => Register!Init /\ NoneYet
  BY Apart DEF Init, Register!Init, NoneYet, Readable, Names
<1>2. IInv /\ NoneYet /\ [Next]_vars => NoneYet' /\ Calms
  BY StepNoneYet
<1>3. IInv /\ Shown /\ Shown' /\ Calms /\ [Next]_vars => [Register!Next]_(Register!vars)
  BY StepRefines, Versions DEF IInv
<1> QED BY <1>1, <1>2, <1>3, CalmShows, Invariant, PTL DEF Spec, ImplementsRegister, Register!Spec
===============================================================================
