--------------------------- MODULE RemediationProofs ---------------------------
(***************************************************************************)
(* Proofs about Remediation, for any resources, calls, bounds and cooldown.*)
(***************************************************************************)
EXTENDS Remediation, TLAPS

(* An entry for r that is enough to keep r at rest until the given time, if *)
(* that is still to come.                                                   *)
Covers(entries, r, until) == until > clock => entries[r] >= until

Declining(c) == call[c].id # None /\ call[c].at \in {"mkdir", "write", "saved"}

(* Nothing happens before the constructor is done. *)
BootInv ==
  /\ call[Constructor].id = None
  /\ call[Constructor].todo = {}
  /\ ~Ready => suggestions = {} /\ \A c \in Calls : call[c] = NoCall
  /\ call[Constructor].at = "load" /\ overlapped => exposed
  /\ exposed => overlapped

OneSave == ~overlapped => \A c, d \in Callers : Saving(c) /\ Saving(d) => c = d

(* No time given out is further away than a cooldown that starts now, so a   *)
(* decline never shortens the rest of a resource.                            *)
Bounded ==
  /\ \A r \in Resources : promised[r] <= clock + Cooldown
  /\ \A c \in Callers : call[c].until <= clock + Cooldown

(* The map, an image of it and the file hold what was promised, and what     *)
(* a decline under way is about to promise.                                  *)
MapHolds ==
  /\ ~exposed /\ call[Constructor].at # "load" =>
       \A r \in Resources : Covers(cooldownMap, r, promised[r])
  /\ \A c \in Callers : Declining(c) => Covers(cooldownMap, call[c].id[1], call[c].until)

ImageHolds ==
  ~overlapped => \A d \in Callers : call[d].at = "write" =>
    /\ \A r \in Resources : Covers(call[d].image, r, promised[r])
    /\ \A c \in Callers : Declining(c) /\ (c = d \/ call[c].at = "saved") =>
         Covers(call[d].image, call[c].id[1], call[c].until)

FileHolds ==
  ~overlapped =>
    /\ \A r \in Resources : Covers(file, r, promised[r])
    /\ \A c \in Callers : Declining(c) /\ call[c].at = "saved" =>
         Covers(file, call[c].id[1], call[c].until)

IInv == TypeOK /\ BootInv /\ OneSave /\ Bounded /\ MapHolds /\ ImageHolds /\ FileHolds

(* The fields of an idle call that the invariants look at.                  *)
LEMMA NoCallFields == NoCall.at = "idle" /\ NoCall.id = None /\ NoCall.todo = {} /\ NoCall.until = 0
  BY DEF NoCall

(* The image a save copies holds all that is promised, since the map does.  *)
LEMMA SaveCopiesKeeps ==
  ASSUME IInv, NEW c \in Callers, SaveCopies(c)
  PROVE  IInv'
<1> USE RemediationAssumption DEF IInv
<1>1. TypeOK'
  BY DEF SaveCopies, TypeOK, CallState, Callers, history
<1>2. BootInv'
  <2>1. CASE c = Constructor
    BY <2>1, NoCallFields DEF SaveCopies, TypeOK, BootInv, Ready, Callers, history
  <2>2. CASE c # Constructor
    <3>1. Ready
      BY <2>2, NoCallFields DEF SaveCopies, BootInv, Callers
    <3>2. call'[Constructor] = call[Constructor]
      BY <2>2 DEF SaveCopies, TypeOK, Callers
    <3> QED
      BY <3>1, <3>2, NoCallFields DEF SaveCopies, BootInv, Ready, history
  <2> QED
    BY <2>1, <2>2
<1>3. OneSave'
  BY DEF SaveCopies, TypeOK, OneSave, Saving, history
<1>4. Bounded'
  BY DEF SaveCopies, TypeOK, Bounded, history
<1>5. MapHolds'
  BY DEF SaveCopies, TypeOK, MapHolds, Covers, Declining, Callers, history
<1>6. ImageHolds'
  BY DEF SaveCopies, TypeOK, BootInv, MapHolds, ImageHolds, Covers, Declining, Ready, NoCall,
         Callers, history
<1>7. FileHolds'
  BY DEF SaveCopies, TypeOK, FileHolds, Covers, Declining, history
<1> QED
  BY <1>1, <1>2, <1>3, <1>4, <1>5, <1>6, <1>7

(* The renamed image holds all that is promised.                            *)
LEMMA SaveRenamesKeeps ==
  ASSUME IInv, NEW c \in Callers, SaveRenames(c)
  PROVE  IInv'
<1> USE RemediationAssumption DEF IInv
<1>1. TypeOK'
  BY DEF SaveRenames, TypeOK, CallState, Callers, history
<1>2. BootInv'
  <2>1. CASE c = Constructor
    BY <2>1, NoCallFields DEF SaveRenames, TypeOK, BootInv, Ready, Callers, history
  <2>2. CASE c # Constructor
    <3>1. Ready
      BY <2>2, NoCallFields DEF SaveRenames, BootInv, Callers
    <3>2. call'[Constructor] = call[Constructor]
      BY <2>2 DEF SaveRenames, TypeOK, Callers
    <3> QED
      BY <3>1, <3>2, NoCallFields DEF SaveRenames, BootInv, Ready, history
  <2> QED
    BY <2>1, <2>2
<1>3. OneSave'
  BY DEF SaveRenames, TypeOK, OneSave, Saving, history
<1>4. Bounded'
  BY DEF SaveRenames, TypeOK, Bounded, history
<1>5. MapHolds'
  BY DEF SaveRenames, TypeOK, MapHolds, Covers, Declining, Callers, history
<1>6. ImageHolds'
  BY DEF SaveRenames, TypeOK, ImageHolds, Covers, Declining, CallState, NoEntries, Entries,
         Suggestions, history
<1>7. FileHolds'
  BY DEF SaveRenames, TypeOK, ImageHolds, FileHolds, Covers, Declining, history
<1> QED
  BY <1>1, <1>2, <1>3, <1>4, <1>5, <1>6, <1>7

(* A failed save only leaves the file as it was.                            *)
LEMMA SaveFailsKeeps ==
  ASSUME IInv, NEW c \in Callers, SaveFails(c)
  PROVE  IInv'
<1> USE RemediationAssumption DEF IInv
<1>1. TypeOK'
  BY DEF SaveFails, TypeOK, CallState, NoCall, Entries, NoEntries, history
<1>2. BootInv'
  BY DEF SaveFails, TypeOK, BootInv, Ready, NoCall, Callers, history
<1>3. OneSave'
  BY DEF SaveFails, OneSave, Saving, history
<1>4. Bounded'
  BY DEF SaveFails, TypeOK, Bounded, NoCall, history
<1>5. MapHolds'
  BY DEF SaveFails, MapHolds, Covers, Declining, Saving, NoCall, history
<1>6. ImageHolds'
  BY DEF SaveFails, ImageHolds, Covers, Declining, NoCall, history
<1>7. FileHolds'
  BY DEF SaveFails, FileHolds, Covers, Declining, NoCall, history
<1> QED
  BY <1>1, <1>2, <1>3, <1>4, <1>5, <1>6, <1>7

(* The constructor takes over the entries of the file that are still live.  *)
LEMMA LoadKeeps ==
  ASSUME IInv, Load
  PROVE  IInv'
<1> USE RemediationAssumption DEF IInv
<1>1. TypeOK'
  BY DEF Load, TypeOK, BootInv, Ready, Saving, CallState, NoCall, Entries, NoEntries, Live,
         StartSave, Callers, history
<1>2. BootInv'
  <2>1. ~Ready
    BY NoCallFields DEF Load, Ready
  <2>2. \A c \in Calls : call'[c] = call[c]
    BY DEF Load, TypeOK, Callers, StartSave
  <2>3. \/ call'[Constructor] = NoCall /\ UNCHANGED history
        \/ call'[Constructor] = [NoCall EXCEPT !.at = "mkdir"] /\ overlapped' = overlapped
    BY <2>1, NoCallFields DEF Load, TypeOK, BootInv, Callers, StartSave, Saving
  <2>4. exposed' = exposed /\ suggestions' = suggestions
    BY DEF Load, StartSave, history
  <2> QED
    BY <2>1, <2>2, <2>3, <2>4, NoCallFields DEF BootInv, history, NoCall
<1>3. OneSave'
  BY DEF Load, TypeOK, BootInv, OneSave, Ready, Saving, NoCall, Live, StartSave, Callers
<1>4. Bounded'
  BY DEF Load, TypeOK, Bounded, NoCall, Live, StartSave, history
<1>5. MapHolds'
  BY DEF Load, TypeOK, BootInv, MapHolds, FileHolds, Covers, Ready, NoCall, Entries, Live,
         StartSave, Callers, history
<1>6. ImageHolds'
  BY DEF Load, TypeOK, ImageHolds, Covers, Declining, NoCall, Live, StartSave, history
<1>7. FileHolds'
  BY DEF Load, TypeOK, FileHolds, Covers, Declining, NoCall, Live, StartSave, history
<1> QED
  BY <1>1, <1>2, <1>3, <1>4, <1>5, <1>6, <1>7

(* Of a file that cannot be loaded nothing is promised any longer.          *)
LEMMA LoadFailsKeeps ==
  ASSUME IInv, LoadFails
  PROVE  IInv'
<1> USE RemediationAssumption DEF IInv
<1>1. TypeOK'
  BY DEF LoadFails, TypeOK, CallState, NoCall, Entries, NoEntries
<1>2. BootInv'
  <2>1. ~Ready
    BY NoCallFields DEF LoadFails, Ready
  <2>2. \A c \in Calls : call'[c] = call[c]
    BY DEF LoadFails, TypeOK, Callers
  <2>3. call'[Constructor] = NoCall
    BY DEF LoadFails, TypeOK, Callers
  <2> QED
    BY <2>1, <2>2, <2>3, NoCallFields DEF LoadFails, BootInv, Ready
<1>3. \A c \in Callers : call'[c] = NoCall
  BY NoCallFields DEF LoadFails, TypeOK, BootInv, Ready, Callers
<1>4. OneSave'
  BY <1>3, NoCallFields DEF OneSave, Saving
<1>5. Bounded'
  BY <1>3, NoCallFields DEF LoadFails, TypeOK, Bounded, NoEntries
<1>6. MapHolds'
  BY <1>3, NoCallFields DEF LoadFails, TypeOK, MapHolds, Covers, Declining, NoEntries
<1>7. ImageHolds'
  BY <1>3, NoCallFields DEF ImageHolds
<1>8. FileHolds'
  BY <1>3, NoCallFields DEF LoadFails, TypeOK, FileHolds, Covers, Declining, NoEntries
<1> QED
  BY <1>1, <1>2, <1>4, <1>5, <1>6, <1>7, <1>8

(* The constructor is done.                                                 *)
LEMMA LoadSavedKeeps ==
  ASSUME IInv, LoadSaved
  PROVE  IInv'
<1> USE RemediationAssumption DEF IInv
<1>1. TypeOK'
  BY DEF LoadSaved, TypeOK, CallState, NoCall, Entries, NoEntries, history
<1>2. BootInv'
  BY DEF LoadSaved, BootInv, Ready, NoCall, history
<1>3. OneSave'
  BY DEF LoadSaved, OneSave, Saving, NoCall, history
<1>4. Bounded'
  BY DEF LoadSaved, TypeOK, Bounded, NoCall, history
<1>5. MapHolds'
  BY DEF LoadSaved, MapHolds, Covers, Declining, NoCall, history
<1>6. ImageHolds'
  BY DEF LoadSaved, ImageHolds, Covers, Declining, NoCall, history
<1>7. FileHolds'
  BY DEF LoadSaved, FileHolds, Covers, Declining, NoCall, history
<1> QED
  BY <1>1, <1>2, <1>3, <1>4, <1>5, <1>6, <1>7

(* A detection round drops expired entries only, and starts the one save.   *)
LEMMA GenerateKeeps ==
  ASSUME IInv, NEW c \in Calls, NEW orphans \in SUBSET Resources, Generate(c, orphans)
  PROVE  IInv'
<1> USE RemediationAssumption DEF IInv
<1> DEFINE entries == Live(cooldownMap)
           begun == [NoCall EXCEPT !.at = "suggest", !.todo = {<<r, drawn[r] + 1>> : r \in orphans}]
<1>a. /\ begun \in CallState /\ [begun EXCEPT !.at = "mkdir"] \in CallState
      /\ begun.at = "suggest" /\ begun.id = None /\ begun.until = 0
  <2>1. \A r \in orphans : <<r, drawn[r] + 1>> \in Suggestions
    BY DEF Generate, TypeOK, Suggestions
  <2> QED
    BY <2>1 DEF NoCall, CallState, Entries, NoEntries
<1>b. \/ call' = [call EXCEPT ![c] = begun] /\ overlapped' = overlapped
      \/ /\ call' = [call EXCEPT ![c] = [begun EXCEPT !.at = "mkdir"]]
         /\ overlapped' = (overlapped \/ \E d \in Callers \ {c} : Saving(d))
  BY DEF Generate, StartSave, history
<1>c. /\ promised' = promised /\ exposed' = exposed /\ cooldownMap' = entries
      /\ UNCHANGED <<clock, suggestions, file, restarts>>
  BY DEF Generate, StartSave, history
<1>d. /\ c \in Callers /\ c # Constructor
      /\ \A d \in Callers : d # c => call'[d] = call[d]
  BY <1>b DEF TypeOK, Callers
<1>e. /\ call'[c].id = None /\ call'[c].until = 0
      /\ \/ call'[c].at = "suggest"
         \/ call'[c].at = "mkdir" /\ (~overlapped' => \A d \in Callers \ {c} : ~Saving(d))
  <2>1. CASE call' = [call EXCEPT ![c] = begun]
    BY <1>a, <1>d, <2>1 DEF TypeOK
  <2>2. CASE /\ call' = [call EXCEPT ![c] = [begun EXCEPT !.at = "mkdir"]]
             /\ overlapped' = (overlapped \/ \E d \in Callers \ {c} : Saving(d))
    <3>1. call'[c] = [begun EXCEPT !.at = "mkdir"]
      BY <1>d, <2>2 DEF TypeOK
    <3>2. begun.id = [begun EXCEPT !.at = "mkdir"].id /\ begun.until = [begun EXCEPT !.at = "mkdir"].until
           /\ [begun EXCEPT !.at = "mkdir"].at = "mkdir"
      BY DEF NoCall
    <3> QED
      BY <1>a, <2>2, <3>1, <3>2
  <2> QED
    BY <1>b, <2>1, <2>2
<1>f. call' \in [Callers -> CallState] /\ overlapped' \in BOOLEAN /\ (overlapped => overlapped')
  BY <1>a, <1>b DEF TypeOK
<1>g. /\ entries \in Entries
      /\ \A r \in Resources : entries[r] = IF cooldownMap[r] > clock THEN cooldownMap[r] ELSE 0
  BY DEF TypeOK, Live, Entries
<1> HIDE DEF entries, begun
<1>1. TypeOK'
  BY <1>c, <1>f, <1>g DEF Generate, TypeOK
<1>2. BootInv'
  <2>1. Ready
    BY DEF Generate
  <2>2. call'[Constructor] = call[Constructor]
    BY <1>d DEF Callers
  <2>3. exposed => overlapped'
    BY <1>f DEF BootInv
  <2> QED
    BY <1>c, <2>1, <2>2, <2>3, NoCallFields DEF BootInv, Ready
<1>3. OneSave'
  BY <1>c, <1>d, <1>e, <1>f DEF OneSave, Saving
<1>4. Bounded'
  BY <1>c, <1>d, <1>e, <1>f DEF Bounded, TypeOK, Callers
<1>5. MapHolds'
  <2>1. \A r \in Resources : \A until \in Nat :
          Covers(cooldownMap, r, until) => Covers(entries, r, until)
    BY <1>g DEF Covers, TypeOK, Entries
  <2>2. \A d \in Callers : Declining(d)' => d # c /\ Declining(d)
    BY <1>d, <1>e DEF Declining
  <2>3. \A d \in Callers : Declining(d) => call[d].id[1] \in Resources /\ call[d].until \in Nat
    BY DEF Declining, TypeOK, CallState, Suggestions
  <2>4. \A d \in Callers : Declining(d)' => Covers(cooldownMap, call[d].id[1], call[d].until)'
    BY <1>c, <1>d, <2>1, <2>2, <2>3 DEF MapHolds, Covers
  <2>5. call'[Constructor] = call[Constructor]
    BY <1>d DEF Callers
  <2>6. \A r \in Resources : promised[r] \in Nat
    BY DEF TypeOK, Entries
  <2>7. ~exposed /\ call[Constructor].at # "load" => \A r \in Resources : Covers(entries, r, promised[r])
    BY <2>1, <2>6 DEF MapHolds
  <2> QED
    BY <1>c, <2>4, <2>5, <2>7 DEF MapHolds, Covers
<1>6. ImageHolds'
  BY <1>c, <1>d, <1>e, <1>f DEF ImageHolds, Covers, Declining
<1>7. FileHolds'
  BY <1>c, <1>d, <1>e, <1>f DEF FileHolds, Covers, Declining
<1> QED
  BY <1>1, <1>2, <1>3, <1>4, <1>5, <1>6, <1>7

(* A round goes on to its suggestions.                                      *)
LEMMA GenerateSavedKeeps ==
  ASSUME IInv, NEW c \in Calls, GenerateSaved(c)
  PROVE  IInv'
<1> USE RemediationAssumption DEF IInv
<1>1. TypeOK'
  BY DEF GenerateSaved, TypeOK, CallState, Goes, Callers, history
<1>2. BootInv'
  <2>1. Ready
    BY NoCallFields DEF GenerateSaved, BootInv
  <2>2. call'[Constructor] = call[Constructor]
    BY RemediationAssumption DEF GenerateSaved, TypeOK, Callers, Goes
  <2> QED
    BY <2>1, <2>2, NoCallFields DEF GenerateSaved, BootInv, Ready, history
<1>3. OneSave'
  BY DEF GenerateSaved, OneSave, Saving, Goes, history
<1>4. Bounded'
  BY DEF GenerateSaved, Bounded, Goes, history
<1>5. MapHolds'
  BY DEF GenerateSaved, MapHolds, Covers, Declining, Goes, history
<1>6. ImageHolds'
  BY DEF GenerateSaved, ImageHolds, Covers, Declining, Goes, history
<1>7. FileHolds'
  BY DEF GenerateSaved, FileHolds, Covers, Declining, Goes, history
<1> QED
  BY <1>1, <1>2, <1>3, <1>4, <1>5, <1>6, <1>7

(* A suggestion changes nothing that was promised.                          *)
LEMMA SuggestKeeps ==
  ASSUME IInv, NEW c \in Calls, NEW s \in call[c].todo, Suggest(c, s)
  PROVE  IInv'
<1> USE RemediationAssumption DEF IInv
<1>1. TypeOK'
  BY DEF Suggest, TypeOK, CallState, NoCall, Entries, NoEntries, Callers, history
<1>2. BootInv'
  <2>1. Ready
    BY NoCallFields DEF Suggest, BootInv
  <2>2. call'[Constructor] = call[Constructor]
    BY RemediationAssumption DEF Suggest, TypeOK, Callers
  <2> QED
    BY <2>1, <2>2, NoCallFields DEF Suggest, BootInv, Ready, history
<1>3. OneSave'
  BY DEF Suggest, OneSave, Saving, NoCall, history
<1>4. Bounded'
  BY DEF Suggest, BootInv, Bounded, Ready, Callers, history
<1>5. MapHolds'
  BY DEF Suggest, MapHolds, Covers, Declining, NoCall, history
<1>6. ImageHolds'
  BY DEF Suggest, ImageHolds, Covers, Declining, NoCall, history
<1>7. FileHolds'
  BY DEF Suggest, FileHolds, Covers, Declining, NoCall, history
<1> QED
  BY <1>1, <1>2, <1>3, <1>4, <1>5, <1>6, <1>7

(* A confirmation changes nothing that was promised.                        *)
LEMMA ConfirmKeeps ==
  ASSUME IInv, NEW c \in Calls, NEW s \in suggestions, Confirm(c, s)
  PROVE  IInv'
<1> USE RemediationAssumption DEF IInv
<1>1. TypeOK'
  BY DEF Confirm, TypeOK, CallState, NoCall, history
<1>2. BootInv'
  BY DEF Confirm, BootInv, Ready, history
<1>3. OneSave'
  BY DEF Confirm, OneSave, Saving, history
<1>4. Bounded'
  BY DEF Confirm, Bounded, Callers, history
<1>5. MapHolds'
  BY DEF Confirm, MapHolds, Covers, Declining, history
<1>6. ImageHolds'
  BY DEF Confirm, ImageHolds, Covers, Declining, history
<1>7. FileHolds'
  BY DEF Confirm, FileHolds, Covers, Declining, history
<1> QED
  BY <1>1, <1>2, <1>3, <1>4, <1>5, <1>6, <1>7

(* A confirmed suggestion goes; nothing that was promised changes.          *)
LEMMA ConfirmEndsKeeps ==
  ASSUME IInv, NEW c \in Calls, ConfirmEnds(c)
  PROVE  IInv'
<1> USE RemediationAssumption DEF IInv
<1>1. TypeOK'
  BY DEF ConfirmEnds, TypeOK, CallState, NoCall, Entries, NoEntries, history
<1>2. BootInv'
  BY DEF ConfirmEnds, BootInv, Ready, history
<1>3. OneSave'
  BY DEF ConfirmEnds, OneSave, Saving, NoCall, history
<1>4. Bounded'
  BY DEF ConfirmEnds, BootInv, Bounded, Ready, Callers, history
<1>5. MapHolds'
  BY DEF ConfirmEnds, MapHolds, Covers, Declining, NoCall, history
<1>6. ImageHolds'
  BY DEF ConfirmEnds, ImageHolds, Covers, Declining, NoCall, history
<1>7. FileHolds'
  BY DEF ConfirmEnds, FileHolds, Covers, Declining, NoCall, history
<1> QED
  BY <1>1, <1>2, <1>3, <1>4, <1>5, <1>6, <1>7

(* A decline enters the map before anything is promised.                    *)
LEMMA DeclineKeeps ==
  ASSUME IInv, NEW c \in Calls, NEW s \in suggestions, Decline(c, s)
  PROVE  IInv'
<1> USE RemediationAssumption DEF IInv
<1>1. TypeOK'
  <2>1. s \in Suggestions /\ clock + Cooldown \in Nat /\ NoEntries \in Entries
    BY DEF TypeOK, Entries, NoEntries
  <2>2. [NoCall EXCEPT !.id = s, !.until = clock + Cooldown, !.at = "mkdir"] \in CallState
    BY <2>1 DEF NoCall, CallState
  <2>3. call' = [call EXCEPT ![c] = [NoCall EXCEPT !.id = s, !.until = clock + Cooldown, !.at = "mkdir"]]
    BY DEF Decline, StartSave
  <2>4. call' \in [Callers -> CallState]
    BY <2>2, <2>3 DEF TypeOK
  <2> QED
    BY <2>1, <2>4 DEF Decline, StartSave, TypeOK, Entries
<1>2. BootInv'
  <2>1. Ready
    BY NoCallFields DEF Decline, BootInv
  <2>2. call'[Constructor] = call[Constructor]
    BY RemediationAssumption DEF Decline, TypeOK, Callers, StartSave
  <2> QED
    BY <2>1, <2>2, NoCallFields DEF Decline, BootInv, Ready, StartSave
<1>3. OneSave'
  BY DEF Decline, TypeOK, OneSave, Saving, StartSave
<1>4. Bounded'
  BY DEF Decline, TypeOK, Bounded, StartSave
<1>5. MapHolds'
  BY DEF Decline, TypeOK, Bounded, MapHolds, Covers, Declining, Entries, StartSave, Suggestions
<1>6. ImageHolds'
  BY DEF Decline, TypeOK, ImageHolds, Saving, NoCall, StartSave
<1>7. FileHolds'
  BY DEF Decline, TypeOK, FileHolds, Covers, Declining, StartSave
<1> QED
  BY <1>1, <1>2, <1>3, <1>4, <1>5, <1>6, <1>7

(* The promise is made when the save is done: map, images and file hold it. *)
LEMMA DeclineEndsKeeps ==
  ASSUME IInv, NEW c \in Calls, DeclineEnds(c)
  PROVE  IInv'
<1> USE RemediationAssumption DEF IInv
<1>1. TypeOK'
  BY DEF DeclineEnds, TypeOK, CallState, NoCall, Entries, NoEntries, Callers
<1>2. BootInv'
  BY DEF DeclineEnds, BootInv, Ready
<1>3. OneSave'
  BY DEF DeclineEnds, OneSave, Saving, NoCall
<1>4. Bounded'
  BY DEF DeclineEnds, BootInv, Bounded, Ready, Callers
<1>5. MapHolds'
  BY DEF DeclineEnds, MapHolds, Covers, Declining, NoCall, Callers
<1>6. ImageHolds'
  BY DEF DeclineEnds, ImageHolds, Covers, Declining, NoCall, Callers
<1>7. FileHolds'
  BY DEF DeclineEnds, FileHolds, Covers, Declining, NoCall, Callers
<1> QED
  BY <1>1, <1>2, <1>3, <1>4, <1>5, <1>6, <1>7

(* A restart keeps the file and ends all saves.                             *)
LEMMA RestartKeeps ==
  ASSUME IInv, Restart
  PROVE  IInv'
<1> USE RemediationAssumption DEF IInv
<1>1. \A c \in Callers : call'[c].id = None /\ call'[c].until = 0 /\ call'[c].todo = {} /\ call'[c].at \in {"idle", "load"}
  BY DEF Restart, Booting, NoCall
<1>2. call' \in [Callers -> CallState]
  BY DEF Restart, Booting, NoCall, CallState, Entries, NoEntries
<1>3. \A c \in Calls : call'[c] = NoCall
  BY DEF Restart, Booting, Callers
<1>4. TypeOK'
  BY <1>2 DEF Restart, TypeOK, Entries, NoEntries
<1>5. BootInv'
  BY <1>1, <1>3 DEF Restart, BootInv, TypeOK, Callers
<1>6. OneSave'
  BY <1>1 DEF OneSave, Saving
<1>7. Bounded'
  BY <1>1 DEF Bounded, Restart, TypeOK
<1>8. MapHolds'
  <2>1. call'[Constructor].at = "load"
    BY DEF Restart, Booting, Callers, NoCall
  <2> QED
    BY <1>1, <2>1 DEF MapHolds, Declining
<1>9. ImageHolds'
  BY <1>1 DEF ImageHolds
<1>10. FileHolds'
  BY <1>1 DEF FileHolds, Restart, Covers, Declining
<1> QED
  BY <1>4, <1>5, <1>6, <1>7, <1>8, <1>9, <1>10

(* Time only lets promises run out.                                         *)
LEMMA TickKeeps ==
  ASSUME IInv, Tick
  PROVE  IInv'
<1> USE RemediationAssumption DEF IInv, Tick, history
<1>1. TypeOK'
  BY DEF TypeOK
<1>2. BootInv'
  BY DEF BootInv, Ready
<1>3. OneSave'
  BY DEF OneSave, Saving
<1>4. Bounded'
  BY DEF Bounded, TypeOK, CallState, Entries
<1>5. \A entries, r : \A until \in Nat : Covers(entries, r, until) => Covers(entries, r, until)'
  BY DEF Covers, TypeOK
<1>6. MapHolds'
  BY <1>5 DEF MapHolds, TypeOK, CallState, Entries, Declining
<1>7. ImageHolds'
  BY DEF ImageHolds, Covers, Declining, TypeOK, CallState, Entries
<1>8. FileHolds'
  <2>1. clock \in Nat /\ clock' \in Nat /\ clock < clock'
    BY DEF TypeOK
  <2>2. \A r \in Resources : file[r] \in Nat /\ promised[r] \in Nat
    BY DEF TypeOK, Entries
  <2>3. \A c \in Callers : call[c].until \in Nat
    BY DEF TypeOK, CallState
  <2> QED
    BY <2>1, <2>2, <2>3 DEF FileHolds, Covers, Declining
<1> QED
  BY <1>1, <1>2, <1>3, <1>4, <1>6, <1>7, <1>8

(* At the start the constructor is about to load an empty file.             *)
LEMMA InitEstablishes == Init => IInv
<1> SUFFICES ASSUME Init PROVE IInv
  OBVIOUS
<1> USE RemediationAssumption DEF Init
<1>1. \A c \in Callers : call[c].id = None /\ call[c].until = 0 /\ call[c].todo = {} /\ call[c].at \in {"idle", "load"}
  BY DEF Booting, NoCall
<1>2. call \in [Callers -> CallState]
  BY DEF Booting, NoCall, CallState, Entries, NoEntries
<1>3. \A c \in Calls : call[c] = NoCall
  BY DEF Booting, Callers
<1>4. TypeOK
  <2>1. NoEntries \in Entries
    BY DEF Entries, NoEntries
  <2>2. drawn \in [Resources -> 0..MaxIds]
    OBVIOUS
  <2>3. clock \in 0..MaxTime /\ restarts \in 0..MaxRestarts
    OBVIOUS
  <2> QED
    BY <1>2, <2>1, <2>2, <2>3 DEF TypeOK
<1>5. BootInv
  BY <1>1, <1>3 DEF BootInv, Callers
<1>6. OneSave
  BY <1>1 DEF OneSave, Saving
<1>7. Bounded
  BY <1>1 DEF Bounded, NoEntries
<1>8. MapHolds
  BY <1>1 DEF MapHolds, Declining, Covers, NoEntries
<1>9. ImageHolds
  BY <1>1 DEF ImageHolds
<1>10. FileHolds
  BY <1>1 DEF FileHolds, Covers, Declining, NoEntries
<1> QED
  BY <1>4, <1>5, <1>6, <1>7, <1>8, <1>9, <1>10 DEF IInv

(* Every step keeps IInv: one lemma per action.                             *)
LEMMA StepKeeps == IInv /\ [Next]_vars => IInv'
<1> SUFFICES ASSUME IInv, [Next]_vars PROVE IInv'
  OBVIOUS
<1>1. ASSUME NEW c \in Callers, SaveContinues(c) PROVE IInv'
  BY <1>1, SaveCopiesKeeps, SaveRenamesKeeps, SaveFailsKeeps DEF SaveContinues
<1>2. ASSUME NEW c \in Calls, CallContinues(c) PROVE IInv'
  BY <1>1, <1>2, GenerateSavedKeeps, SuggestKeeps, ConfirmEndsKeeps, DeclineEndsKeeps
     DEF CallContinues, Callers
<1>3. CASE ConstructorContinues
  BY <1>1, <1>3, LoadKeeps, LoadFailsKeeps, LoadSavedKeeps DEF ConstructorContinues, Callers
<1>4. CASE UNCHANGED vars
  BY <1>4 DEF IInv, TypeOK, BootInv, OneSave, Bounded, MapHolds, ImageHolds, FileHolds,
              Covers, Declining, Ready, Saving, vars, history
<1> QED
  BY <1>2, <1>3, <1>4, GenerateKeeps, ConfirmKeeps, DeclineKeeps, RestartKeeps, TickKeeps
     DEF Next

(* IInv is an invariant. *)
THEOREM Invariant == Spec => []IInv
<1> QED
  BY InitEstablishes, StepKeeps, PTL DEF Spec

(* Suggestions, cooldowns, the file's images and the calls are well-formed.  *)
THEOREM Typed == Spec => []TypeOK
<1>1. IInv => TypeOK
  BY DEF IInv
<1> QED
  BY <1>1, Invariant, PTL

(* A decline that was acknowledged since the file could last be loaded is in *)
(* the file, unless saves overlapped.                                        *)
THEOREM Persisted == Spec => []DeclinePersisted
<1>1. IInv => DeclinePersisted
  BY DEF IInv, FileHolds, Covers, DeclinePersisted
<1> QED
  BY <1>1, Invariant, PTL

(* No declined resource is suggested before its cooldown is over, by any     *)
(* interleaving of any number of calls and restarts, unless a restart        *)
(* followed saves that overlapped, or the file could not be loaded since.    *)
THEOREM Honoured == Spec => DeclineHonoured
<1>1. IInv /\ [Next]_vars =>
        [\A s \in suggestions' \ suggestions : ~exposed => promised[s[1]] <= clock]_vars
  <2> SUFFICES ASSUME IInv, Next, NEW s \in suggestions' \ suggestions, ~exposed
               PROVE  promised[s[1]] <= clock
    OBVIOUS
  <2>1. PICK c \in Calls : \E t \in call[c].todo : Suggest(c, t)
    BY DEF Next, Generate, Confirm, Decline, CallContinues, ConstructorContinues,
           SaveContinues,
           SaveCopies, SaveRenames, SaveFails, Load, LoadFails, LoadSaved, GenerateSaved,
           ConfirmEnds, DeclineEnds, Restart, Tick
  <2>2. PICK t \in call[c].todo : Suggest(c, t)
    BY <2>1
  <2>3. s = t /\ cooldownMap[s[1]] = 0
    BY <2>2 DEF Suggest
  <2>4. s[1] \in Resources
    BY <2>3, RemediationAssumption DEF IInv, TypeOK, CallState, Callers, Suggestions
  <2>5. call[Constructor].at # "load"
    BY <2>2, NoCallFields DEF Suggest, IInv, BootInv, Ready
  <2>6. Covers(cooldownMap, s[1], promised[s[1]])
    BY <2>4, <2>5 DEF IInv, MapHolds
  <2> QED
    BY <2>3, <2>4, <2>6 DEF Covers, IInv, TypeOK, Entries
<1> QED
  BY <1>1, Invariant, PTL DEF Spec, DeclineHonoured
===============================================================================
