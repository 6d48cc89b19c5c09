------------------------------ MODULE Remediation ------------------------------
(***************************************************************************)
(* RemediationEngine (lanes/watchdog/remediation.ts): suggestions to clean *)
(* up orphans, the user's answers to them, and the cooldown of declined    *)
(* resources, held in memory and in a file that a restart reads back.      *)
(*                                                                         *)
(* A suggestion is <<r, n>>: the n-th id drawn for resource r. Time is a   *)
(* clock that ticks; a cooldown entry is its expiresAt, or 0 for no entry. *)
(* No lane is ever in a state "recovering" (Lanes, LaneState), so the      *)
(* branch of generateSuggestions for such lanes is never taken. stop() is  *)
(* left out: it empties memory between tests.                              *)
(*                                                                         *)
(* The engine replaces its file whole. What else may become of it - it is  *)
(* lost, damaged, or cannot be read for the moment - shows when it is      *)
(* loaded, and is modelled there.                                          *)
(***************************************************************************)
EXTENDS Naturals, FiniteSets

CONSTANTS Resources,
          Calls,         (* calls of the engine that may overlap            *)
          Constructor,   (* the constructor's loadCooldownMap               *)
          None,
          Cooldown,      (* cooldownDurationMs, in ticks                    *)
          MaxTime,       (* bounds the clock                                *)
          MaxIds,        (* bounds the suggestions drawn for a resource     *)
          MaxRestarts    (* bounds the restarts                             *)

ASSUME RemediationAssumption ==
  /\ Constructor \notin Calls
  /\ Cooldown \in Nat \ {0}
  /\ MaxTime \in Nat
  /\ MaxIds \in Nat
  /\ MaxRestarts \in Nat
  /\ None \notin Resources \X (1..MaxIds)

Callers == Calls \cup {Constructor}

Suggestions == Resources \X (1..MaxIds)

VARIABLES clock,
          suggestions,   (* the ids in the map                              *)
          drawn,         (* resource -> how many ids were drawn for it      *)
          cooldownMap,
          file,          (* the cooldown file's content                     *)
          call,          (* caller -> where it stands                       *)
          restarts,
          promised,      (* until when declineCleanup said r would rest,    *)
                         (* since the file could last be loaded             *)
          overlapped,    (* two saves were in flight together               *)
          exposed        (* ... and a restart followed                      *)

history == <<promised, overlapped, exposed>>

vars == <<clock, suggestions, drawn, cooldownMap, file, call, restarts, history>>

Entries == [Resources -> Nat]

NoEntries == [r \in Resources |-> 0]

CallState == [at : {"idle", "load", "mkdir", "write", "saved", "suggest", "confirm"},
              todo : SUBSET Suggestions, id : Suggestions \cup {None},
              until : Nat, image : Entries]

NoCall == [at |-> "idle", todo |-> {}, id |-> None, until |-> 0, image |-> NoEntries]

TypeOK ==
  /\ clock \in 0..MaxTime
  /\ suggestions \subseteq Suggestions
  /\ drawn \in [Resources -> 0..MaxIds]
  /\ cooldownMap \in Entries
  /\ file \in Entries
  /\ call \in [Callers -> CallState]
  /\ restarts \in 0..MaxRestarts
  /\ promised \in Entries
  /\ overlapped \in BOOLEAN
  /\ exposed \in BOOLEAN

Booting == [c \in Callers |-> IF c = Constructor THEN [NoCall EXCEPT !.at = "load"] ELSE NoCall]

Init ==
  /\ clock = 0
  /\ suggestions = {}
  /\ drawn = [r \in Resources |-> 0]
  /\ cooldownMap = NoEntries
  /\ file = NoEntries
  /\ call = Booting
  /\ restarts = 0
  /\ promised = NoEntries
  /\ overlapped = FALSE
  /\ exposed = FALSE

-------------------------------------------------------------------------------
(* expireCooldownEntries: what is left of the entries *)
Live(entries) == [r \in Resources |-> IF entries[r] > clock THEN entries[r] ELSE 0]

(* Fault: nobody waits for the constructor. *)
AtOnce == TRUE

(* await this.cooldownReady *)
Ready == call[Constructor] = NoCall

Saving(c) == call[c].at \in {"mkdir", "write"}

Goes(c, place) == [call EXCEPT ![c].at = place]

(* Caller c, at record k, calls saveCooldownMap. *)
StartSave(c, k) ==
  /\ call' = [call EXCEPT ![c] = [k EXCEPT !.at = "mkdir"]]
  /\ overlapped' = (overlapped \/ \E d \in Callers \ {c} : Saving(d))
  /\ UNCHANGED <<promised, exposed>>

(* The entries are copied after the await of mkdir. *)
SaveCopies(c) ==
  /\ call[c].at = "mkdir"
  /\ call' = [call EXCEPT ![c].at = "write", ![c].image = cooldownMap]
  /\ UNCHANGED <<clock, suggestions, drawn, cooldownMap, file, restarts, history>>

(* writeFile to a temp file of its own, then rename *)
SaveRenames(c) ==
  /\ call[c].at = "write"
  /\ file' = call[c].image
  /\ call' = [call EXCEPT ![c].at = "saved", ![c].image = NoEntries]
  /\ UNCHANGED <<clock, suggestions, drawn, cooldownMap, restarts, history>>

(* Any of these may fail. The error ends the call; the constructor catches it. *)
SaveFails(c) ==
  /\ Saving(c)
  /\ call' = [call EXCEPT ![c] = NoCall]
  /\ UNCHANGED <<clock, suggestions, drawn, cooldownMap, file, restarts, history>>

-------------------------------------------------------------------------------
(* loadCooldownMap: nothing else runs before it has read the file. *)
Load ==
  LET entries == Live(file)
  IN /\ call[Constructor].at = "load"
     /\ cooldownMap' = entries
     /\ IF entries = file
          THEN call' = [call EXCEPT ![Constructor] = NoCall] /\ UNCHANGED history
          ELSE StartSave(Constructor, NoCall)
     /\ UNCHANGED <<clock, suggestions, drawn, file, restarts>>

(* The file is missing or unreadable, no JSON, or no list of valid entries:  *)
(* the engine starts afresh, and its next save replaces the file.            *)
LoadFails ==
  /\ call[Constructor].at = "load"
  /\ call' = [call EXCEPT ![Constructor] = NoCall]
  /\ promised' = NoEntries
  /\ UNCHANGED <<clock, suggestions, drawn, cooldownMap, file, restarts, overlapped, exposed>>

LoadSaved ==
  /\ call[Constructor].at = "saved"
  /\ call' = [call EXCEPT ![Constructor] = NoCall]
  /\ UNCHANGED <<clock, suggestions, drawn, cooldownMap, file, restarts, history>>

(* generateSuggestions, up to its first await; ids it may draw are set aside *)
Generate(c, orphans) ==
  LET entries == Live(cooldownMap)
      begun == [NoCall EXCEPT !.at = "suggest", !.todo = {<<r, drawn[r] + 1>> : r \in orphans}]
  IN /\ Ready
     /\ call[c] = NoCall
     /\ \A r \in orphans : drawn[r] < MaxIds
     /\ drawn' = [r \in Resources |-> drawn[r] + IF r \in orphans THEN 1 ELSE 0]
     /\ cooldownMap' = entries
     /\ IF entries = cooldownMap
          THEN call' = [call EXCEPT ![c] = begun] /\ UNCHANGED history
          ELSE StartSave(c, begun)
     /\ UNCHANGED <<clock, suggestions, file, restarts>>

GenerateSaved(c) ==
  /\ call[c].at = "saved" /\ call[c].todo # {}
  /\ call' = Goes(c, "suggest")
  /\ UNCHANGED <<clock, suggestions, drawn, cooldownMap, file, restarts, history>>

(* The loop over the orphans; between two of them an event is awaited. *)
Suggest(c, s) ==
  LET left == call[c].todo \ {s}
  IN /\ call[c].at = "suggest" /\ s \in call[c].todo
     /\ suggestions' = IF cooldownMap[s[1]] # 0 THEN suggestions ELSE suggestions \cup {s}
     /\ call' = [call EXCEPT ![c] = IF left = {} THEN NoCall ELSE [@ EXCEPT !.todo = left]]
     /\ UNCHANGED <<clock, drawn, cooldownMap, file, restarts, history>>

-------------------------------------------------------------------------------
(* confirmCleanup. An event and then executeCleanup are awaited; whatever    *)
(* the cleanup's result, the suggestion goes.                                *)
Confirm(c, s) ==
  /\ call[c] = NoCall
  /\ s \in suggestions
  /\ call' = [call EXCEPT ![c] = [NoCall EXCEPT !.at = "confirm", !.id = s]]
  /\ UNCHANGED <<clock, suggestions, drawn, cooldownMap, file, restarts, history>>

ConfirmEnds(c) ==
  /\ call[c].at = "confirm"
  /\ suggestions' = suggestions \ {call[c].id}
  /\ call' = [call EXCEPT ![c] = NoCall]
  /\ UNCHANGED <<clock, drawn, cooldownMap, file, restarts, history>>

(* Fault: the cooldown is entered under the suggestion's id, not the resource's key. *)
DeclineById(c, s) ==
  LET until == clock + Cooldown
  IN /\ Ready
     /\ call[c] = NoCall
     /\ s \in suggestions
     /\ cooldownMap' = [k \in DOMAIN cooldownMap \cup {s} |->
                          IF k = s THEN until ELSE cooldownMap[k]]
     /\ StartSave(c, [NoCall EXCEPT !.id = s, !.until = until])
     /\ UNCHANGED <<clock, suggestions, drawn, file, restarts>>

(* declineCleanup *)
Decline(c, s) ==
  LET until == clock + Cooldown
  IN /\ Ready
     /\ call[c] = NoCall
     /\ s \in suggestions
     /\ cooldownMap' = [cooldownMap EXCEPT ![s[1]] = until]
     /\ StartSave(c, [NoCall EXCEPT !.id = s, !.until = until])
     /\ UNCHANGED <<clock, suggestions, drawn, file, restarts>>

(* Fault: the save is started, not awaited. *)
DeclineEndsUnsaved(c) ==
  /\ Saving(c) /\ call[c].id # None /\ call[c].id \in suggestions
  /\ suggestions' = suggestions \ {call[c].id}
  /\ promised' = [promised EXCEPT ![call[c].id[1]] = call[c].until]
  /\ UNCHANGED <<clock, drawn, cooldownMap, file, call, restarts, overlapped, exposed>>

DeclineEnds(c) ==
  /\ call[c].at = "saved" /\ call[c].id # None
  /\ suggestions' = suggestions \ {call[c].id}
  /\ promised' = [promised EXCEPT ![call[c].id[1]] = IF @ > call[c].until THEN @ ELSE call[c].until]
  /\ call' = [call EXCEPT ![c] = NoCall]
  /\ UNCHANGED <<clock, drawn, cooldownMap, file, restarts, overlapped, exposed>>

-------------------------------------------------------------------------------
(* The process ends, with its calls in flight, and starts again. *)
Restart ==
  /\ restarts < MaxRestarts
  /\ restarts' = restarts + 1
  /\ suggestions' = {}
  /\ cooldownMap' = NoEntries
  /\ call' = Booting
  /\ exposed' = (exposed \/ overlapped)
  /\ UNCHANGED <<clock, drawn, file, promised, overlapped>>

Tick ==
  /\ clock < MaxTime
  /\ clock' = clock + 1
  /\ UNCHANGED <<suggestions, drawn, cooldownMap, file, call, restarts, history>>

SaveContinues(c) == SaveCopies(c) \/ SaveRenames(c) \/ SaveFails(c)

CallContinues(c) ==
  \/ SaveContinues(c)
  \/ GenerateSaved(c) \/ \E s \in call[c].todo : Suggest(c, s)
  \/ ConfirmEnds(c) \/ DeclineEnds(c)

ConstructorContinues == Load \/ LoadFails \/ LoadSaved \/ SaveContinues(Constructor)

Next ==
  \/ \E c \in Calls, orphans \in SUBSET Resources \ {{}} : Generate(c, orphans)
  \/ \E c \in Calls, s \in suggestions : Confirm(c, s) \/ Decline(c, s)
  \/ \E c \in Calls : CallContinues(c)
  \/ ConstructorContinues
  \/ Restart
  \/ Tick

Spec == Init /\ [][Next]_vars

-------------------------------------------------------------------------------
(* What declineCleanup has acknowledged by dropping the suggestion is in the *)
(* file, since the file could last be loaded, as long as saves did not       *)
(* overlap, though calls did: saves copy the map late and replace the file   *)
(* whole.                                                                    *)
DeclinePersisted ==
  ~overlapped => \A r \in Resources : promised[r] > clock => file[r] >= promised[r]

(* A declined resource is not suggested again before its cooldown is over    *)
(* "Skip resources in cooldown" (remediation.ts:101): neither by a detection *)
(* round already under way, nor before the file is read back on a restart,   *)
(* nor after failed saves. Two things end it: a restart after overlapping    *)
(* saves, and a load that fails, which forgets the declines before it        *)
(* ("start fresh", remediation.ts:512) and none that come after.             *)
DeclineHonoured ==
  [][\A s \in suggestions' \ suggestions : ~exposed => promised[s[1]] <= clock]_vars

(* The same for overlapping saves too: "Persist cooldown map to disk for     *)
(* restart survival". It fails, though every load finds its file: of two     *)
(* saves in flight, the older image may be renamed last.                     *)
DeclineSurvivesRestart ==
  [][\A s \in suggestions' \ suggestions : promised[s[1]] <= clock]_vars
===============================================================================
