---------------------------- MODULE RendererProofs ----------------------------
(***************************************************************************)
(* Proofs about RendererSwitch and SwitchTransaction, for any number of    *)
(* calls, of waiting terminal creations and of crashes.                    *)
(*                                                                         *)
(* 1. What each operation of a renderer does to its adapter.               *)
(* 2. The runs of a switch: the chain of stop, init, start and rebind      *)
(*    that a thread runs between two awaits keeps their types and ends at  *)
(*    an await, done or failed.                                            *)
(* 3. OneSwitchAtATime, with the threads a call has in each of its phases. *)
(* 4. ActiveAloneRuns: how far a switch nothing disturbs has come shows in *)
(*    the two adapters (Came), and the rollback of one that failed finds   *)
(*    what it can work on.                                                 *)
(* 5. ReturnsWithOneShown: a switch that timed out goes on beside its      *)
(*    rollback and later switches. Only ghostty's state links them; Holds  *)
(*    says what a call at work may take of it, and Calm what a thread that *)
(*    was given up may still do to it.                                     *)
(* 6. The switch transaction, over the lemmas of 1.                        *)
(***************************************************************************)
EXTENDS RendererSwitch, SwitchTransaction, TLAPS

Labels == {"none", "stop", "init", "start", "stopped", "inited", "started", "done", "failed"}

(* Where a thread that is resumed comes to. *)
Reached == {"stop", "init", "start", "done", "failed"}

(* A renderer that shows nothing, one that is shown, one that is being stopped. *)
Dark(a) == a.process \in {"none", "idle"} /\ ~a.stray /\ ~a.bound

Lit(a) == a.state = "running" /\ a.process = "live" /\ ~a.stray

Going(a) == a.state = "stopping" /\ a.process = "dying" /\ ~a.stray /\ ~a.bound

AtRest == {"stopped", "uninitialized"}

-------------------------------------------------------------------------------
(* 1. What each operation does to the adapter it is called on, whatever else *)
(* the run carries.                                                          *)

LEMMA SpawnedFacts ==
  ASSUME NEW a \in Adapter
  PROVE  /\ Spawned(a) \in Adapter
         /\ Spawned(a).state = a.state /\ Spawned(a).process = "live"
         /\ Spawned(a).bound = a.bound
         /\ a.process # "live" => Spawned(a).stray = a.stray
BY DEF Spawned, Adapter

LEMMA StopEndsFacts ==
  ASSUME NEW a \in Adapter, NEW r \in Renderers
  PROVE  /\ StopEnds(r, a) \in Adapter
         /\ StopEnds(r, a).state = "stopped" /\ StopEnds(r, a).process \in {"none", "idle"}
         /\ StopEnds(r, a).bound = a.bound
         /\ a.process # "live" => StopEnds(r, a).stray = a.stray
BY DEF StopEnds, Adapter, RendererState

LEMMA StopAt ==
  ASSUME NEW run, NEW r \in Renderers, run.adapters[r] \in Adapter
  PROVE  LET a == run.adapters[r]
         IN \E b \in Adapter, l \in {"stop", "stopped"} :
              /\ Stop(run, r) = At(run, r, b, l)
              /\ l = "stop" => b.state = "stopping"
              /\ l = "stopped" => b.state \in AtRest
              /\ Dark(a) => l = "stopped" /\ Dark(b)
              /\ Lit(a) => l = "stop" /\ Going(b)
<1> DEFINE a == run.adapters[r]
           begun == StopBegins(a)
           ended == StopEnds(r, begun)
<1>1. /\ begun \in Adapter
      /\ begun.state = "stopping" /\ ~begun.bound /\ begun.stray = a.stray
      /\ begun.process = IF a.process = "live" THEN "dying" ELSE a.process
  BY DEF StopBegins, Adapter, RendererState
<1>2. \/ a.state \in AtRest /\ Stop(run, r) = At(run, r, a, "stopped")
      \/ /\ a.state \notin AtRest /\ begun.process = "dying"
         /\ Stop(run, r) = At(run, r, begun, "stop")
      \/ /\ a.state \notin AtRest /\ begun.process # "dying"
         /\ Stop(run, r) = At(run, r, ended, "stopped")
  BY DEF Stop, AtRest
<1> HIDE DEF begun
<1>3. /\ ended \in Adapter /\ ended.state = "stopped"
      /\ ended.process \in {"none", "idle"} /\ ended.bound = begun.bound
      /\ ended.stray = begun.stray
  BY <1>1, StopEndsFacts
<1> HIDE DEF ended
<1>4. CASE a.state \in AtRest /\ Stop(run, r) = At(run, r, a, "stopped")
  BY <1>4 DEF Dark, Lit, AtRest
<1>5. CASE /\ a.state \notin AtRest /\ begun.process = "dying"
           /\ Stop(run, r) = At(run, r, begun, "stop")
  BY <1>1, <1>5 DEF Dark, Lit, Going
<1>6. CASE /\ a.state \notin AtRest /\ begun.process # "dying"
           /\ Stop(run, r) = At(run, r, ended, "stopped")
  BY <1>1, <1>3, <1>6 DEF Dark, Lit, AtRest
<1> QED
  BY <1>2, <1>4, <1>5, <1>6

LEMMA StopDoneAt ==
  ASSUME NEW run, NEW r \in Renderers, run.adapters[r] \in Adapter
  PROVE  \E b \in Adapter :
           /\ StopDone(run, r) = At(run, r, b, "stopped")
           /\ b.state \in AtRest
           /\ Going(run.adapters[r]) => Dark(b)
<1> DEFINE a == run.adapters[r]
           ended == StopEnds(r, a)
<1>1. StopDone(run, r) = At(run, r, ended, "stopped")
  BY DEF StopDone
<1>2. /\ ended \in Adapter /\ ended.state \in AtRest
      /\ Going(a) => Dark(ended)
  BY StopEndsFacts DEF Going, Dark, AtRest
<1> QED
  BY <1>1, <1>2

LEMMA InitAt ==
  ASSUME NEW run, NEW r \in Renderers, run.adapters[r] \in Adapter
  PROVE  LET a == run.adapters[r]
         IN \E b \in Adapter, l \in {"init", "inited", "failed"} :
              /\ InitRenderer(run, r) = At(run, r, b, l)
              /\ l = "init" => r = Ghostty /\ GhosttyInits(a) /\ b.state = "initializing"
              /\ l = "inited" => r # Ghostty /\ b.state = "running"
              /\ l = "failed" => b = a
              /\ Dark(a) => Dark(b)
<1> DEFINE a == run.adapters[r]
           raised == [a EXCEPT !.state = "running", !.process = "idle",
                               !.stray = @ \/ a.process = "live"]
           begun == [a EXCEPT !.state = "initializing"]
<1>1. /\ begun \in Adapter /\ begun.state = "initializing"
      /\ begun.process = a.process /\ begun.stray = a.stray /\ begun.bound = a.bound
  BY DEF Adapter, RendererState
<1>2. /\ raised \in Adapter /\ raised.state = "running" /\ raised.process = "idle"
      /\ raised.bound = a.bound
      /\ a.process # "live" => raised.stray = a.stray
  BY DEF Adapter, RendererState
<1>3. \/ r = Ghostty /\ GhosttyInits(a) /\ InitRenderer(run, r) = At(run, r, begun, "init")
      \/ r = Ghostty /\ InitRenderer(run, r) = At(run, r, a, "failed")
      \/ r # Ghostty /\ a.state = "running" /\ InitRenderer(run, r) = At(run, r, a, "inited")
      \/ r # Ghostty /\ InitRenderer(run, r) = At(run, r, raised, "inited")
  BY DEF InitRenderer
<1> HIDE DEF raised, begun
<1> QED
  BY <1>1, <1>2, <1>3 DEF Dark

LEMMA InitDoneAt ==
  ASSUME NEW run, NEW r \in Renderers, run.adapters[r] \in Adapter
  PROVE  \E b \in Adapter :
           /\ InitDone(run, r) = At(run, r, b, "inited")
           /\ b.state = "running"
           /\ Dark(run.adapters[r]) => Dark(b)
<1> DEFINE a == run.adapters[r]
           raised == [a EXCEPT !.state = "running"]
<1>1. /\ raised \in Adapter /\ raised.state = "running"
      /\ raised.process = a.process /\ raised.stray = a.stray /\ raised.bound = a.bound
  BY DEF Adapter, RendererState
<1>2. InitDone(run, r) = At(run, r, raised, "inited")
  BY DEF InitDone
<1> HIDE DEF raised
<1> QED
  BY <1>1, <1>2 DEF Dark

LEMMA StartAt ==
  ASSUME NEW run, NEW r \in Renderers, NEW spawns \in BOOLEAN, run.adapters[r] \in Adapter
  PROVE  LET a == run.adapters[r]
         IN \E b \in Adapter, l \in {"start", "started", "failed"} :
              /\ Start(run, r, spawns) = At(run, r, b, l)
              /\ b.state = a.state
              /\ l = "start" => r = Ghostty /\ a.state = "running"
              /\ l = "started" => r # Ghostty /\ b.state = "running" /\ b.process = "live"
              /\ Dark(a) /\ l = "started" => Lit(b)
              /\ Dark(a) /\ l # "started" => Dark(b)
<1> DEFINE a == run.adapters[r]
           unspawned == [a EXCEPT !.process = "idle", !.stray = @ \/ a.process = "live"]
           spawned == Spawned(a)
<1>1. /\ unspawned \in Adapter /\ unspawned.state = a.state /\ unspawned.process = "idle"
      /\ unspawned.bound = a.bound
      /\ a.process # "live" => unspawned.stray = a.stray
  BY DEF Adapter
<1>2. /\ spawned \in Adapter
      /\ spawned.state = a.state /\ spawned.process = "live"
      /\ spawned.bound = a.bound
      /\ a.process # "live" => spawned.stray = a.stray
  BY SpawnedFacts
<1>3. \/ r = Ghostty /\ a.state = "running" /\ Start(run, r, spawns) = At(run, r, a, "start")
      \/ Start(run, r, spawns) = At(run, r, a, "failed")
      \/ /\ r # Ghostty /\ a.state = "running"
         /\ Start(run, r, spawns) = At(run, r, spawned, "started")
      \/ Start(run, r, spawns) = At(run, r, unspawned, "failed")
  BY DEF Start
<1> HIDE DEF unspawned, spawned
<1> QED
  BY <1>1, <1>2, <1>3 DEF Dark, Lit

LEMMA StartDoneAt ==
  ASSUME NEW run, NEW r \in Renderers, NEW spawns \in BOOLEAN, run.adapters[r] \in Adapter
  PROVE  LET a == run.adapters[r]
         IN \E b \in Adapter, l \in {"started", "failed"} :
              /\ StartDone(run, r, spawns) = At(run, r, b, l)
              /\ b.state = a.state
              /\ l = "started" => b.process = "live" /\ (Dark(a) => ~b.stray)
              /\ l = "failed" => b = a
<1> DEFINE a == run.adapters[r]
           spawned == Spawned(a)
<1>1. /\ spawned \in Adapter
      /\ spawned.state = a.state /\ spawned.process = "live"
      /\ a.process # "live" => spawned.stray = a.stray
  BY SpawnedFacts
<1>2. \/ StartDone(run, r, spawns) = At(run, r, spawned, "started")
      \/ StartDone(run, r, spawns) = At(run, r, a, "failed")
  BY DEF StartDone
<1> HIDE DEF spawned
<1> QED
  BY <1>1, <1>2 DEF Dark

(* The exits of processes and the fallback keep the types of the adapters. *)
LEMMA ExitsType ==
  ASSUME NEW as \in [Renderers -> Adapter], NEW f \in BOOLEAN
  PROVE  /\ GhosttyExits(as) \in [Renderers -> Adapter]
         /\ RioExits(as, f) \in [Renderers -> Adapter]
         /\ FallbackDone(as) \in [Renderers -> Adapter]
         /\ LateInitDone(as) \in [Renderers -> Adapter]
         /\ FallbackExpired(as) \in [Renderers -> Adapter]
<1> DEFINE As == [Renderers -> Adapter]
<1>1. \A a \in Adapter, st \in RendererState :
        /\ [a EXCEPT !.state = st] \in Adapter
        /\ [a EXCEPT !.process = "idle"] \in Adapter
        /\ Abandoned(a, st) \in Adapter
  BY DEF Adapter, Abandoned
<1>2. Ghostty \in Renderers /\ Rio \in Renderers
  BY DEF Renderers
<1>3. {"running", "errored", "stopped", "initializing"} \subseteq RendererState
  BY DEF RendererState
<1>4. GhosttyExits(as) \in As
  <2> DEFINE a == [as[Ghostty] EXCEPT !.process = "idle"]
             b == [a EXCEPT !.state = "errored"]
  <2>1. a \in Adapter
    BY <1>1, <1>2, <1>3
  <2>2. GhosttyExits(as) = [as EXCEPT ![Ghostty] = b]
    BY <1>2 DEF GhosttyExits
  <2> HIDE DEF a
  <2>3. b \in Adapter
    BY <1>1, <1>3, <2>1
  <2> HIDE DEF b
  <2> QED
    BY <1>2, <2>2, <2>3
<1>5. RioExits(as, f) \in As
  <2>1. [as EXCEPT ![Rio] = Abandoned(@, "stopped")] \in As
    <3>1. Abandoned(as[Rio], "stopped") \in Adapter
      BY <1>1, <1>2, <1>3
    <3> QED
      BY <1>2, <3>1
  <2>2. [as EXCEPT ![Rio] = Abandoned(@, "errored"), ![Ghostty].state = "initializing"] \in As
    <3> DEFINE bs == [as EXCEPT ![Rio] = Abandoned(@, "errored")]
    <3>1. Abandoned(as[Rio], "errored") \in Adapter
      BY <1>1, <1>2, <1>3
    <3>2. bs \in As
      BY <1>2, <3>1
    <3> HIDE DEF bs
    <3>3. [bs EXCEPT ![Ghostty].state = "initializing"] \in As
      BY <1>1, <1>2, <1>3, <3>2
    <3> QED
      BY <3>3 DEF bs
  <2>3. [as EXCEPT ![Rio].process = "idle",
                   ![Rio].state = IF @ = "running" THEN "errored" ELSE @] \in As
    <3> DEFINE bs == [as EXCEPT ![Rio].process = "idle"]
    <3>1. bs \in As
      <4>1. [as[Rio] EXCEPT !.process = "idle"] \in Adapter
        BY <1>2 DEF Adapter
      <4> QED
        BY <1>2, <4>1
    <3> HIDE DEF bs
    <3>2. bs[Rio].state \in RendererState
      BY <1>2, <3>1 DEF Adapter
    <3>3. [bs EXCEPT ![Rio].state = IF @ = "running" THEN "errored" ELSE @] \in As
      BY <1>1, <1>2, <1>3, <3>1, <3>2
    <3> QED
      BY <3>3 DEF bs
  <2> HIDE DEF As
  <2> QED
    BY <2>1, <2>2, <2>3 DEF RioExits
<1>6. FallbackDone(as) \in As
  BY <1>1, <1>2, <1>3, RenderersAssumption DEF FallbackDone
<1>7. LateInitDone(as) \in As /\ FallbackExpired(as) \in As
  BY <1>1, <1>2, <1>3 DEF LateInitDone, FallbackExpired
<1> QED
  BY <1>4, <1>5, <1>6, <1>7

-------------------------------------------------------------------------------
(* 2. The runs of a switch.                                                  *)

Run(m) == [adapters : [Renderers -> Adapter], active : Renderers, streams : Streams,
           at : Labels, machine : {m}]

LEMMA AtFacts ==
  ASSUME NEW m, NEW run \in Run(m), NEW r \in Renderers
  PROVE  /\ run.adapters[r] \in Adapter
         /\ \A a \in Adapter, l \in Labels :
              /\ At(run, r, a, l) \in Run(m)
              /\ At(run, r, a, l).adapters[r] = a
              /\ \A q \in Renderers \ {r} : At(run, r, a, l).adapters[q] = run.adapters[q]
              /\ At(run, r, a, l).at = l
              /\ At(run, r, a, l).active = run.active
BY DEF At, Run

LEMMA StopType ==
  ASSUME NEW m, NEW run \in Run(m), NEW r \in Renderers
  PROVE  LET out == Stop(run, r)
             a == run.adapters[r]
             b == out.adapters[r]
         IN /\ out \in Run(m) /\ out.at \in {"stop", "stopped"}
            /\ \A q \in Renderers \ {r} : out.adapters[q] = run.adapters[q]
            /\ out.at = "stop" => b.state = "stopping"
            /\ Dark(a) => out.at = "stopped" /\ Dark(b)
            /\ Lit(a) => out.at = "stop" /\ Going(b)
<1>1. {"stop", "stopped"} \subseteq Labels
  BY DEF Labels
<1>2. run.adapters[r] \in Adapter
  BY AtFacts
<1>3. \A b \in Adapter, l \in Labels :
        /\ At(run, r, b, l) \in Run(m)
        /\ At(run, r, b, l).adapters[r] = b /\ At(run, r, b, l).at = l
        /\ \A q \in Renderers \ {r} : At(run, r, b, l).adapters[q] = run.adapters[q]
  BY AtFacts
<1> QED
  BY <1>1, <1>2, <1>3, StopAt

LEMMA StopDoneType ==
  ASSUME NEW m, NEW run \in Run(m), NEW r \in Renderers
  PROVE  LET out == StopDone(run, r)
         IN /\ out \in Run(m) /\ out.at = "stopped"
            /\ \A q \in Renderers \ {r} : out.adapters[q] = run.adapters[q]
            /\ Going(run.adapters[r]) => Dark(out.adapters[r])
<1>1. "stopped" \in Labels /\ run.adapters[r] \in Adapter
  BY AtFacts DEF Labels
<1> QED
  BY <1>1, AtFacts, StopDoneAt

LEMMA InitType ==
  ASSUME NEW m, NEW run \in Run(m), NEW r \in Renderers
  PROVE  LET out == InitRenderer(run, r)
             a == run.adapters[r]
             b == out.adapters[r]
         IN /\ out \in Run(m) /\ out.at \in {"init", "inited", "failed"}
            /\ \A q \in Renderers \ {r} : out.adapters[q] = run.adapters[q]
            /\ out.at = "init" => r = Ghostty /\ GhosttyInits(a) /\ b.state = "initializing"
            /\ out.at = "inited" => r # Ghostty /\ b.state = "running"
            /\ out.at = "failed" => b.state = a.state
            /\ Dark(a) => Dark(b)
<1>1. {"init", "inited", "failed"} \subseteq Labels /\ run.adapters[r] \in Adapter
  BY AtFacts DEF Labels
<1>3. \A b \in Adapter, l \in Labels :
        /\ At(run, r, b, l) \in Run(m)
        /\ At(run, r, b, l).adapters[r] = b /\ At(run, r, b, l).at = l
        /\ \A q \in Renderers \ {r} : At(run, r, b, l).adapters[q] = run.adapters[q]
  BY AtFacts
<1> QED
  BY <1>1, <1>3, InitAt

LEMMA InitDoneType ==
  ASSUME NEW m, NEW run \in Run(m), NEW r \in Renderers
  PROVE  LET out == InitDone(run, r)
         IN /\ out \in Run(m) /\ out.at = "inited"
            /\ \A q \in Renderers \ {r} : out.adapters[q] = run.adapters[q]
            /\ out.adapters[r].state = "running"
            /\ Dark(run.adapters[r]) => Dark(out.adapters[r])
<1>1. "inited" \in Labels /\ run.adapters[r] \in Adapter
  BY AtFacts DEF Labels
<1> QED
  BY <1>1, AtFacts, InitDoneAt

LEMMA StartType ==
  ASSUME NEW m, NEW run \in Run(m), NEW r \in Renderers, NEW spawns \in BOOLEAN
  PROVE  LET out == Start(run, r, spawns)
             a == run.adapters[r]
             b == out.adapters[r]
         IN /\ out \in Run(m) /\ out.at \in {"start", "started", "failed"}
            /\ \A q \in Renderers \ {r} : out.adapters[q] = run.adapters[q]
            /\ b.state = a.state
            /\ out.at = "start" => r = Ghostty /\ a.state = "running"
            /\ out.at = "started" => r # Ghostty /\ b.state = "running" /\ b.process = "live"
            /\ Dark(a) /\ out.at = "started" => Lit(b)
            /\ Dark(a) /\ out.at # "started" => Dark(b)
<1>1. {"start", "started", "failed"} \subseteq Labels /\ run.adapters[r] \in Adapter
  BY AtFacts DEF Labels
<1>3. \A b \in Adapter, l \in Labels :
        /\ At(run, r, b, l) \in Run(m)
        /\ At(run, r, b, l).adapters[r] = b /\ At(run, r, b, l).at = l
        /\ \A q \in Renderers \ {r} : At(run, r, b, l).adapters[q] = run.adapters[q]
  BY AtFacts
<1> QED
  BY <1>1, <1>3, StartAt

LEMMA StartDoneType ==
  ASSUME NEW m, NEW run \in Run(m), NEW r \in Renderers, NEW spawns \in BOOLEAN
  PROVE  LET out == StartDone(run, r, spawns)
             a == run.adapters[r]
             b == out.adapters[r]
         IN /\ out \in Run(m) /\ out.at \in {"started", "failed"}
            /\ \A q \in Renderers \ {r} : out.adapters[q] = run.adapters[q]
            /\ b.state = a.state
            /\ out.at = "started" => b.process = "live" /\ (Dark(a) => ~b.stray)
            /\ out.at = "failed" => b = a
<1>1. {"started", "failed"} \subseteq Labels /\ run.adapters[r] \in Adapter
  BY AtFacts DEF Labels
<1>3. \A b \in Adapter, l \in Labels :
        /\ At(run, r, b, l) \in Run(m)
        /\ At(run, r, b, l).adapters[r] = b /\ At(run, r, b, l).at = l
        /\ \A q \in Renderers \ {r} : At(run, r, b, l).adapters[q] = run.adapters[q]
  BY AtFacts
<1> QED
  BY <1>1, <1>3, StartDoneAt

LEMMA RebindType ==
  ASSUME NEW m, NEW run \in Run(m), NEW r \in Renderers
  PROVE  LET out == Rebind(run, r)
             a == run.adapters[r]
             b == out.adapters[r]
         IN /\ out \in Run(m) /\ out.at \in {"done", "failed"}
            /\ \A q \in Renderers \ {r} : out.adapters[q] = run.adapters[q]
            /\ b.state = a.state /\ b.process = a.process /\ b.stray = a.stray
            /\ out.at = "done" => out.active = r
<1> DEFINE a == run.adapters[r]
           more == [a EXCEPT !.bound = @ \/ run.streams = "free"]
           less == [a EXCEPT !.bound = @ /\ ~(r = Ghostty /\ Binds(r, a))]
<1>1. a \in Adapter
  BY AtFacts
<1>2. /\ more \in Adapter /\ less \in Adapter
      /\ more.state = a.state /\ more.process = a.process /\ more.stray = a.stray
      /\ less.state = a.state /\ less.process = a.process /\ less.stray = a.stray
  BY <1>1 DEF Adapter
<1> DEFINE won == At(run, r, more, "done")
<1>3. \/ Rebind(run, r) = [won EXCEPT !.active = r,
                                      !.streams = IF @ = "free" THEN "locked" ELSE @]
      \/ Rebind(run, r) = At(run, r, less, "failed")
  BY DEF Rebind
<1> HIDE DEF a, more, less
<1>4. {"failed", "done"} \subseteq Labels
  BY DEF Labels
<1>5. /\ won \in Run(m) /\ won.adapters[r] = more /\ won.at = "done"
      /\ \A q \in Renderers \ {r} : won.adapters[q] = run.adapters[q]
  BY <1>2, <1>4, AtFacts
<1> HIDE DEF won
<1>6. LET out == [won EXCEPT !.active = r, !.streams = IF @ = "free" THEN "locked" ELSE @]
      IN /\ out \in Run(m) /\ out.at = "done"
         /\ out.adapters = won.adapters /\ out.active = r
  BY <1>5 DEF Run, Streams
<1>7. CASE Rebind(run, r) = At(run, r, less, "failed")
  <2>1. LET out == At(run, r, less, "failed")
        IN /\ out \in Run(m) /\ out.adapters[r] = less /\ out.at = "failed"
           /\ \A q \in Renderers \ {r} : out.adapters[q] = run.adapters[q]
    BY <1>2, <1>4, AtFacts
  <2> QED
    BY <1>2, <1>7, <2>1 DEF a
<1>8. CASE Rebind(run, r) = [won EXCEPT !.active = r,
                                        !.streams = IF @ = "free" THEN "locked" ELSE @]
  BY <1>2, <1>5, <1>6, <1>8 DEF a
<1> QED
  BY <1>3, <1>7, <1>8

(* The chain, from each of the places where it may be entered. *)
LEMMA AfterStartType ==
  ASSUME NEW m, NEW run \in Run(m), NEW r \in Renderers, run.at \in {"start", "started", "failed"}
  PROVE  AfterStart(run, r) \in Run(m) /\ AfterStart(run, r).at \in Reached
BY RebindType DEF AfterStart, Reached

LEMMA AfterInitType ==
  ASSUME NEW m, NEW run \in Run(m), NEW r \in Renderers, NEW spawns \in BOOLEAN,
         run.at \in {"init", "inited", "failed"}
  PROVE  AfterInit(run, r, spawns) \in Run(m) /\ AfterInit(run, r, spawns).at \in Reached
BY StartType, AfterStartType DEF AfterInit, Reached

LEMMA AfterStopType ==
  ASSUME NEW m, NEW run \in Run(m), NEW r \in Renderers, NEW spawns \in BOOLEAN,
         run.at \in {"stop", "stopped"}
  PROVE  AfterStop(run, r, spawns) \in Run(m) /\ AfterStop(run, r, spawns).at \in Reached
BY InitType, AfterInitType DEF AfterStop, Reached

LEMMA ReplaceType ==
  ASSUME NEW m, NEW run \in Run(m), NEW old \in Renderers, NEW new \in Renderers,
         NEW spawns \in BOOLEAN
  PROVE  /\ Replace(run, old, new, spawns) \in Run(m)
         /\ Replace(run, old, new, spawns).at \in Reached
BY StopType, AfterStopType DEF Replace

LEMMA ResumeType ==
  ASSUME NEW m, NEW run \in Run(m), NEW old \in Renderers, NEW new \in Renderers,
         NEW spawns \in BOOLEAN, run.at \in {"stop", "init", "start"}
  PROVE  /\ Resume(run, old, new, spawns) \in Run(m)
         /\ Resume(run, old, new, spawns).at \in Reached
<1>1. CASE run.at = "stop"
  BY <1>1, StopDoneType, AfterStopType DEF Resume
<1>2. CASE run.at = "init"
  BY <1>2, InitDoneType, AfterInitType DEF Resume
<1>3. CASE run.at = "start"
  BY <1>3, StartDoneType, AfterStartType DEF Resume
<1> QED
  BY <1>1, <1>2, <1>3

-------------------------------------------------------------------------------
(* 3. The threads a call has in each of its phases.                          *)
RecOK(rec) ==
  CASE rec.at = "switch" -> rec.inner # "none" /\ rec.back = "none"
    [] rec.at = "rollback" -> rec.back # "none"
    [] rec.at = "idle" -> rec.back = "none"

RecsOK == \A c \in Calls : RecOK(call[c])

(* OneSwitchAtATime, call by call. *)
OneSwitch ==
  /\ \A c \in Calls : call[c].at # "idle" => machine = "switching"
  /\ \A c, d \in Calls : call[c].at # "idle" /\ call[d].at # "idle" => c = d
  /\ machine = "switching" => \E c \in Calls : call[c].at # "idle"

IInv == TypeOK /\ RecsOK /\ OneSwitch

(* What a step of call c leaves of the calls and the machine. *)
Leaves(c) ==
  /\ adapters' \in [Renderers -> Adapter]
  /\ active' \in Renderers
  /\ call' \in [Calls -> CallState]
  /\ \A d \in Calls \ {c} : call'[d] = call[d]
  /\ RecOK(call'[c])

(* What a step of the call that holds the machine does with it. *)
Turns(c) ==
  IF call'[c].at = "idle" THEN machine' \in {"running", "errored"} ELSE machine' = "switching"

LEMMA NoCallType == NoCall \in CallState /\ NoCall.at = "idle" /\ RecOK(NoCall)
BY DEF NoCall, CallState, Renderers, Awaits, Streams, RecOK

LEMMA TidyType ==
  ASSUME NEW rec \in CallState, RecOK(rec)
  PROVE  Tidy(rec) \in CallState /\ RecOK(Tidy(rec)) /\ Tidy(rec).at = rec.at
BY NoCallType DEF Tidy

LEMMA WaitingType ==
  ASSUME NEW m, NEW run \in Run(m), run.at \in Reached
  PROVE  /\ Waiting(run) \in Awaits
         /\ run.at \in Awaits <=> run.at \in {"stop", "init", "start"}
         /\ run.at \in Awaits <=> Waiting(run) # "none"
BY DEF Waiting, Awaits, Reached

LEMMA BackReachesTurns ==
  ASSUME NEW c \in Calls, NEW rec \in CallState, NEW run \in Run("switching"),
         run.at \in Reached, call \in [Calls -> CallState], BackReaches(c, rec, run)
  PROVE  Leaves(c) /\ Turns(c)
<1> DEFINE new == [rec EXCEPT !.back = Waiting(run), !.streams = run.streams,
                              !.at = IF run.at \in Awaits THEN "rollback" ELSE "idle"]
<1>1. run.streams \in Streams /\ run.machine = "switching"
      /\ run.adapters \in [Renderers -> Adapter] /\ run.active \in Renderers
  BY DEF Run
<1>2. /\ new \in CallState /\ RecOK(new)
      /\ new.at = IF run.at \in Awaits THEN "rollback" ELSE "idle"
  BY <1>1, WaitingType DEF CallState, RecOK
<1>3. call' = [call EXCEPT ![c] = Tidy(new)]
  BY DEF BackReaches
<1> HIDE DEF new
<1>4. Tidy(new) \in CallState /\ RecOK(Tidy(new)) /\ Tidy(new).at = new.at
  BY <1>2, TidyType
<1>5. Leaves(c)
  BY <1>1, <1>3, <1>4 DEF Leaves, BackReaches, Moves
<1>6. Turns(c)
  <2>1. call'[c].at = IF run.at \in Awaits THEN "rollback" ELSE "idle"
    BY <1>2, <1>3, <1>4
  <2>2. CASE run.at \in Awaits
    <3>1. machine' = "switching"
      BY <1>1, <2>2, WaitingType DEF BackReaches
    <3> QED
      BY <2>1, <2>2, <3>1 DEF Turns
  <2>3. CASE run.at \notin Awaits
    <3>1. run.at \in {"done", "failed"}
      BY <2>3 DEF Reached, Awaits
    <3>2. machine' \in {"running", "errored"}
      BY <1>1, <3>1 DEF BackReaches, Transitions
    <3> QED
      BY <2>1, <2>3, <3>2 DEF Turns
  <2> QED
    BY <2>2, <2>3
<1> QED
  BY <1>5, <1>6

LEMMA RollBackTurns ==
  ASSUME NEW c \in Calls, NEW rec \in CallState, NEW run \in Run("switching"),
         NEW spawns \in BOOLEAN, call \in [Calls -> CallState], RollBack(c, rec, run, spawns)
  PROVE  Leaves(c) /\ Turns(c)
<1> DEFINE back == Replace(run, rec.to, rec.from, spawns)
<1>1. back \in Run("switching") /\ back.at \in Reached
  BY ReplaceType DEF CallState
<1>2. BackReaches(c, rec, back)
  BY DEF RollBack
<1> QED
  BY <1>1, <1>2, BackReachesTurns

(* The inner thread of the call that holds the machine. *)
LEMMA InnerTurns ==
  ASSUME NEW c \in Calls, NEW rec \in CallState, NEW run \in Run("switching"),
         run.at \in Reached, NEW again \in BOOLEAN, call \in [Calls -> CallState],
         rec.at = "switch", rec.back = "none", InnerReaches(c, rec, run, again)
  PROVE  Leaves(c) /\ Turns(c)
<1> DEFINE moved == [rec EXCEPT !.inner = Waiting(run), !.streams = run.streams]
           won == [moved EXCEPT !.at = "idle"]
<1>1. run.streams \in Streams /\ run.machine = "switching"
      /\ run.adapters \in [Renderers -> Adapter] /\ run.active \in Renderers
  BY DEF Run
<1>2. /\ moved \in CallState /\ moved.at = "switch" /\ moved.back = "none"
      /\ moved.inner = Waiting(run)
  BY <1>1, WaitingType DEF CallState
<1>3. won \in CallState /\ RecOK(won) /\ won.at = "idle"
  BY <1>2 DEF CallState, RecOK
<1>4. [moved EXCEPT !.at = @] = moved
  BY <1>2 DEF CallState
<1>5. CASE run.at = "failed"
  <2>1. RollBack(c, moved, run, again)
    BY <1>5 DEF InnerReaches
  <2> QED
    BY <1>2, <2>1, RollBackTurns
<1>6. CASE run.at = "done"
  <2>1. call' = [call EXCEPT ![c] = Tidy(won)] /\ machine' = "running" /\ Moves(run)
    BY <1>1, <1>6 DEF InnerReaches, Transitions
  <2> HIDE DEF won
  <2>2. Tidy(won) \in CallState /\ RecOK(Tidy(won)) /\ Tidy(won).at = "idle"
    BY <1>3, TidyType
  <2> QED
    BY <1>1, <2>1, <2>2 DEF Leaves, Turns, Moves
<1>7. CASE run.at \in Awaits
  <2>1. call' = [call EXCEPT ![c] = Tidy(moved)] /\ machine' = "switching" /\ Moves(run)
    BY <1>1, <1>4, <1>7, WaitingType DEF InnerReaches
  <2>2. RecOK(moved)
    BY <1>2, <1>7, WaitingType DEF RecOK
  <2> HIDE DEF moved
  <2>3. Tidy(moved) \in CallState /\ RecOK(Tidy(moved)) /\ Tidy(moved).at = "switch"
    BY <1>2, <2>2, TidyType
  <2> QED
    BY <1>1, <2>1, <2>3 DEF Leaves, Turns, Moves
<1> QED
  BY <1>5, <1>6, <1>7, WaitingType DEF Reached

(* An inner thread nobody waits for moves neither machine nor phase. *)
LEMMA StrayInnerMoves ==
  ASSUME NEW c \in Calls, NEW rec \in CallState, NEW m, NEW run \in Run(m),
         run.at \in Reached, NEW again \in BOOLEAN, call \in [Calls -> CallState],
         rec.at # "switch", RecOK(rec), InnerReaches(c, rec, run, again)
  PROVE  Leaves(c) /\ machine' = m /\ call'[c].at = rec.at
<1> DEFINE moved == [rec EXCEPT !.inner = Waiting(run), !.streams = run.streams]
<1>1. run.streams \in Streams /\ run.machine = m
      /\ run.adapters \in [Renderers -> Adapter] /\ run.active \in Renderers
  BY DEF Run
<1>2. moved \in CallState /\ moved.at = rec.at /\ RecOK(moved)
  BY <1>1, WaitingType DEF CallState, RecOK
<1>3. [moved EXCEPT !.at = @] = moved
  BY <1>2 DEF CallState
<1>4. call' = [call EXCEPT ![c] = Tidy(moved)] /\ machine' = m /\ Moves(run)
  BY <1>1, <1>3 DEF InnerReaches
<1> HIDE DEF moved
<1>5. Tidy(moved) \in CallState /\ RecOK(Tidy(moved)) /\ Tidy(moved).at = rec.at
  BY <1>2, TidyType
<1> QED
  BY <1>1, <1>4, <1>5 DEF Leaves, Moves

-------------------------------------------------------------------------------
LEMMA RunOfType ==
  ASSUME TypeOK, NEW rec \in CallState, NEW l \in Labels
  PROVE  RunOf(rec, l) \in Run(machine) /\ RunOf(rec, l).at = l
BY DEF RunOf, Run, TypeOK, CallState

(* The call that turns holds the machine, or found it free. *)
LEMMA TurnsKeeps ==
  ASSUME IInv, NEW c \in Calls, Leaves(c), Turns(c),
         \A d \in Calls \ {c} : call[d].at = "idle",
         falling' \in BOOLEAN, late' \in BOOLEAN, crashes' \in 0..MaxCrashes,
         timedOut' \in BOOLEAN
  PROVE  IInv'
<1>1. TypeOK'
  <2>1. machine' \in {"running", "switching", "errored"}
    BY DEF Turns
  <2> QED
    BY <2>1 DEF Leaves, TypeOK
<1>2. RecsOK'
  BY DEF Leaves, IInv, RecsOK
<1>3. OneSwitch'
  BY DEF Leaves, Turns, OneSwitch
<1> QED
  BY <1>1, <1>2, <1>3 DEF IInv

(* A call starts from the adapters as they are, but for the streams. *)
LEMMA CallRuns ==
  ASSUME IInv, NEW c \in Calls, NEW to \in Renderers, NEW s \in Streams, Call(c, to, s)
  PROVE  /\ machine = "running" /\ \A d \in Calls : call[d].at = "idle"
         /\ active \in Renderers /\ to # active
         /\ UNCHANGED <<falling, late, crashes, timedOut>>
         /\ \E rec \in CallState, run \in Run("switching"), spawns \in BOOLEAN, again \in BOOLEAN :
              /\ rec.at = "switch" /\ rec.inner = "none" /\ rec.back = "none"
              /\ rec.from = active /\ rec.to = to
              /\ \A q \in Renderers \ {active} : run.adapters[q] = adapters[q]
              /\ run.adapters[active].state = adapters[active].state
              /\ run.adapters[active].process = adapters[active].process
              /\ run.adapters[active].stray = adapters[active].stray
              /\ InnerReaches(c, rec, Replace(run, active, to, spawns), again)
<1> DEFINE rec == [NoCall EXCEPT !.at = "switch", !.from = active, !.to = to, !.streams = s]
           begun == [RunOf(rec, "done") EXCEPT !.machine = Transitions[@].switch_request]
           run == [begun EXCEPT !.adapters[active].bound = @ /\ s = "none"]
<1>1. rec \in CallState /\ rec.at = "switch" /\ rec.inner = "none" /\ rec.back = "none"
      /\ rec.from = active /\ rec.to = to
  BY DEF IInv, TypeOK, NoCall, CallState, Awaits
<1>2. machine = "running" /\ to # active /\ active \in Renderers
      /\ UNCHANGED <<falling, late, crashes, timedOut>>
  BY DEF Call, Transitions, IInv, TypeOK
<1>3. \A d \in Calls : call[d].at = "idle"
  BY <1>2 DEF IInv, OneSwitch
<1>4. begun \in Run("switching") /\ begun.adapters = adapters
  <2>1. RunOf(rec, "done") \in Run("running") /\ RunOf(rec, "done").adapters = adapters
    BY <1>1, <1>2, RunOfType DEF IInv, Labels, RunOf
  <2>2. RunOf(rec, "done").machine = "running"
    BY <2>1 DEF Run
  <2> HIDE DEF rec
  <2> QED
    BY <2>1, <2>2 DEF Run, Transitions
<1> HIDE DEF begun
<1> DEFINE a == adapters[active]
           b == [a EXCEPT !.bound = @ /\ s = "none"]
<1>5. a \in Adapter
  BY <1>2 DEF IInv, TypeOK
<1>6. b \in Adapter /\ b.state = a.state /\ b.process = a.process /\ b.stray = a.stray
  <2>1. CASE s = "none"
    <3>1. b = [a EXCEPT !.bound = @]
      BY <2>1, <1>5 DEF Adapter
    <3> QED
      BY <3>1, <1>5 DEF Adapter
  <2>2. CASE s # "none"
    <3>1. b = [a EXCEPT !.bound = FALSE]
      BY <2>2, <1>5 DEF Adapter
    <3> QED
      BY <3>1, <1>5 DEF Adapter
  <2> QED
    BY <2>1, <2>2
<1>7. /\ run \in Run("switching")
      /\ run.adapters[active] = b
      /\ \A q \in Renderers \ {active} : run.adapters[q] = adapters[q]
  <2> DEFINE as == [adapters EXCEPT ![active] = b]
  <2>1. as \in [Renderers -> Adapter] /\ as[active] = b
        /\ \A q \in Renderers \ {active} : as[q] = adapters[q]
    BY <1>2, <1>6 DEF IInv, TypeOK
  <2>2. run = [begun EXCEPT !.adapters = as]
    BY <1>4 DEF Run, IInv, TypeOK
  <2> HIDE DEF as, run
  <2> QED
    BY <1>4, <2>1, <2>2 DEF Run
<1>8. PICK spawns \in BOOLEAN, again \in BOOLEAN :
        InnerReaches(c, rec, Replace(run, active, to, spawns), again)
  BY DEF Call, begun
<1> HIDE DEF rec, run, b
<1> QED
  BY <1>1, <1>2, <1>3, <1>6, <1>7, <1>8

LEMMA CallKeeps ==
  ASSUME IInv, NEW c \in Calls, NEW to \in Renderers, NEW s \in Streams, Call(c, to, s)
  PROVE  IInv'
<1>1. /\ machine = "running" /\ \A d \in Calls : call[d].at = "idle"
      /\ active \in Renderers
      /\ UNCHANGED <<falling, late, crashes, timedOut>>
  BY CallRuns
<1>2. PICK rec \in CallState, run \in Run("switching"), spawns \in BOOLEAN, again \in BOOLEAN :
        /\ rec.at = "switch" /\ rec.back = "none"
        /\ InnerReaches(c, rec, Replace(run, active, to, spawns), again)
  BY CallRuns
<1>3. /\ Replace(run, active, to, spawns) \in Run("switching")
      /\ Replace(run, active, to, spawns).at \in Reached
  BY <1>1, ReplaceType
<1>4. Leaves(c) /\ Turns(c)
  BY <1>2, <1>3, InnerTurns DEF IInv, TypeOK
<1> QED
  BY <1>1, <1>4, TurnsKeeps DEF IInv, TypeOK

LEMMA InnerResumesKeeps ==
  ASSUME IInv, NEW c \in Calls, InnerResumes(c)
  PROVE  IInv'
<1> DEFINE rec == call[c]
           label == rec.inner
<1>1. rec \in CallState /\ RecOK(rec) /\ label \in {"stop", "init", "start"}
  BY DEF IInv, TypeOK, RecsOK, InnerResumes, CallState, Awaits
<1>2. RunOf(rec, label) \in Run(machine) /\ RunOf(rec, label).at = label
  BY <1>1, RunOfType DEF IInv, Labels
<1>3. PICK spawns \in BOOLEAN, again \in BOOLEAN :
        InnerReaches(c, rec, Resume(RunOf(rec, label), rec.from, rec.to, spawns), again)
  BY DEF InnerResumes
<1> DEFINE run == Resume(RunOf(rec, label), rec.from, rec.to, spawns)
<1>4. rec.from \in Renderers /\ rec.to \in Renderers
  BY <1>1 DEF CallState
<1> HIDE DEF rec, label
<1>5. run \in Run(machine) /\ run.at \in Reached
  BY <1>1, <1>2, <1>4, ResumeType
<1> HIDE DEF run
<1>6. UNCHANGED <<falling, late, crashes, timedOut>>
  BY DEF InnerResumes
<1>7. CASE rec.at = "switch"
  <2>1. machine = "switching" /\ \A d \in Calls \ {c} : call[d].at = "idle"
    BY <1>7 DEF rec, IInv, OneSwitch
  <2>2. Leaves(c) /\ Turns(c)
    BY <1>1, <1>3, <1>5, <1>7, <2>1, InnerTurns DEF run, IInv, TypeOK, RecOK
  <2> QED
    BY <1>6, <2>1, <2>2, TurnsKeeps DEF IInv, TypeOK
<1>8. CASE rec.at # "switch"
  <2>1. Leaves(c) /\ machine' = machine /\ call'[c].at = rec.at
    BY <1>1, <1>3, <1>5, <1>8, StrayInnerMoves DEF run, IInv, TypeOK
  <2>2. TypeOK' /\ RecsOK'
    BY <1>6, <2>1 DEF Leaves, IInv, TypeOK, RecsOK
  <2>3. \A d \in Calls : call'[d].at = call[d].at
    BY <2>1 DEF Leaves, rec
  <2>4. OneSwitch'
    BY <2>1, <2>3 DEF IInv, OneSwitch
  <2> QED
    BY <2>2, <2>4 DEF IInv
<1> QED
  BY <1>7, <1>8

LEMMA BackResumesKeeps ==
  ASSUME IInv, NEW c \in Calls, BackResumes(c)
  PROVE  IInv'
<1> DEFINE rec == call[c]
           label == rec.back
<1>1. rec \in CallState /\ RecOK(rec) /\ label \in {"stop", "init", "start"}
  BY DEF IInv, TypeOK, RecsOK, BackResumes, CallState, Awaits
<1>2. rec.at # "idle"
  BY <1>1 DEF RecOK
<1>3. machine = "switching" /\ \A d \in Calls \ {c} : call[d].at = "idle"
  BY <1>2 DEF IInv, OneSwitch
<1>4. RunOf(rec, label) \in Run("switching") /\ RunOf(rec, label).at = label
  BY <1>1, <1>3, RunOfType DEF IInv, Labels
<1>5. PICK spawns \in BOOLEAN :
        BackReaches(c, rec, Resume(RunOf(rec, label), rec.to, rec.from, spawns))
  BY DEF BackResumes
<1> DEFINE run == Resume(RunOf(rec, label), rec.to, rec.from, spawns)
<1>6. rec.from \in Renderers /\ rec.to \in Renderers
  BY <1>1 DEF CallState
<1> HIDE DEF rec, label
<1>7. run \in Run("switching") /\ run.at \in Reached
  BY <1>1, <1>4, <1>6, ResumeType
<1> HIDE DEF run
<1>8. Leaves(c) /\ Turns(c)
  BY <1>1, <1>5, <1>7, BackReachesTurns DEF run, IInv, TypeOK
<1>9. UNCHANGED <<falling, late, crashes, timedOut>>
  BY DEF BackResumes
<1> QED
  BY <1>3, <1>8, <1>9, TurnsKeeps DEF IInv, TypeOK

LEMMA TimesOutKeeps ==
  ASSUME IInv, NEW c \in Calls, TimesOut(c)
  PROVE  IInv'
<1> DEFINE rec == call[c]
<1>1. rec \in CallState /\ rec.at = "switch"
  BY DEF IInv, TypeOK, TimesOut
<1>2. machine = "switching" /\ \A d \in Calls \ {c} : call[d].at = "idle"
  BY <1>1 DEF IInv, OneSwitch
<1>3. RunOf(rec, "failed") \in Run("switching")
  BY <1>1, <1>2, RunOfType DEF IInv, Labels
<1>4. PICK spawns \in BOOLEAN : RollBack(c, rec, RunOf(rec, "failed"), spawns)
  BY DEF TimesOut
<1> HIDE DEF rec
<1>5. Leaves(c) /\ Turns(c)
  BY <1>1, <1>3, <1>4, RollBackTurns DEF IInv, TypeOK
<1>6. timedOut' = TRUE /\ UNCHANGED <<falling, late, crashes>>
  BY DEF TimesOut
<1> QED
  BY <1>2, <1>5, <1>6, TurnsKeeps DEF IInv, TypeOK

(* The crashes and the fallback change neither calls nor machine. *)
LEMMA CrashesKeep ==
  ASSUME IInv,
         GhosttyCrashes \/ RioCrashes \/ FallbackEnds \/ FallbackTimesOut \/ LateInitEnds
  PROVE  IInv'
<1>1. UNCHANGED <<machine, call>>
  BY DEF GhosttyCrashes, RioCrashes, FallbackEnds, FallbackTimesOut, LateInitEnds
<1>2. RecsOK' /\ OneSwitch'
  BY <1>1 DEF IInv, RecsOK, OneSwitch
<1>3. adapters \in [Renderers -> Adapter] /\ falling \in BOOLEAN /\ late \in BOOLEAN
      /\ timedOut \in BOOLEAN /\ crashes \in 0..MaxCrashes /\ active \in Renderers
      /\ Ghostty \in Renderers
  BY DEF IInv, TypeOK, Renderers
<1>4. adapters' \in [Renderers -> Adapter]
  BY <1>3, ExitsType
     DEF GhosttyCrashes, RioCrashes, FallbackEnds, FallbackTimesOut, LateInitEnds
<1>5. crashes' \in 0..MaxCrashes
  BY <1>3, CrashesAssumption
     DEF GhosttyCrashes, RioCrashes, FallbackEnds, FallbackTimesOut, LateInitEnds
<1>6. active' \in Renderers /\ late' \in BOOLEAN /\ timedOut' \in BOOLEAN
  BY <1>3 DEF GhosttyCrashes, RioCrashes, FallbackEnds, FallbackTimesOut, LateInitEnds
<1>7. falling' \in BOOLEAN
  BY <1>3
     DEF GhosttyCrashes, RioCrashes, FallbackEnds, FallbackTimesOut, LateInitEnds
<1> QED
  BY <1>1, <1>2, <1>3, <1>4, <1>5, <1>6, <1>7 DEF IInv, TypeOK

LEMMA InitIInv == Init => IInv
<1> SUFFICES ASSUME Init PROVE IInv
  OBVIOUS
<1>1. \A r \in Renderers, b \in BOOLEAN : Fresh(r) \in Adapter /\ Shown(b) \in Adapter
  BY DEF Fresh, Shown, Adapter, RendererState
<1>2. adapters \in [Renderers -> Adapter]
  BY <1>1 DEF Init
<1>3. TypeOK
  <2>1. 0 \in 0..MaxCrashes /\ call \in [Calls -> CallState]
    BY NoCallType, CrashesAssumption DEF Init
  <2> QED
    BY <1>2, <2>1 DEF Init, TypeOK
<1>4. \A c \in Calls : call[c].at = "idle" /\ RecOK(call[c])
  BY NoCallType DEF Init
<1> QED
  BY <1>3, <1>4 DEF Init, IInv, RecsOK, OneSwitch

(* IInv holds throughout. *)
LEMMA Invariant == Spec => []IInv
<1>1. IInv /\ [Next]_vars => IInv'
  <2>1. ASSUME IInv, Next PROVE IInv'
    BY <2>1, CallKeeps, InnerResumesKeeps, BackResumesKeeps, TimesOutKeeps, CrashesKeep DEF Next
  <2>2. ASSUME IInv, UNCHANGED vars PROVE IInv'
    BY <2>2 DEF vars, IInv, TypeOK, RecsOK, OneSwitch
  <2> QED
    BY <2>1, <2>2
<1> QED
  BY InitIInv, <1>1, PTL DEF Spec

(* The machine, the adapters, the registry and the calls always have the     *)
(* types TypeOK says; in particular the machine never leaves its table.      *)
THEOREM Typed == Spec => []TypeOK
<1>1. IInv => TypeOK
  BY DEF IInv
<1> QED
  BY Invariant, <1>1, PTL

(* The machine is switching exactly while one call is at work, however many  *)
(* switches that timed out go on beside it.                                  *)
THEOREM OneAtATime == Spec => []OneSwitchAtATime
<1>1. IInv => OneSwitchAtATime
  BY DEF IInv, OneSwitch, OneSwitchAtATime, Busy
<1> QED
  BY Invariant, <1>1, PTL

(* The machine is never left switching with nobody to move it on: a switch    *)
(* under way stands at an await of its own, a switch given up at one of its    *)
(* rollback, not merely at one of a thread that a timeout left behind. The     *)
(* part of SwitchEnds that does not depend on fairness.                        *)
SwitchAwaits ==
  machine = "switching" =>
    \E c \in Calls : \/ call[c].at = "switch" /\ call[c].inner # "none"
                     \/ call[c].at = "rollback" /\ call[c].back # "none"

(* A switch that is under way always awaits something, with timeouts, exits    *)
(* and failed rollbacks.                                                       *)
THEOREM NoSwitchAbandoned == Spec => []SwitchAwaits
<1>1. IInv => SwitchAwaits
  BY DEF IInv, TypeOK, CallState, RecsOK, RecOK, OneSwitch, SwitchAwaits
<1> QED
  BY Invariant, <1>1, PTL

-------------------------------------------------------------------------------
(* 4. A switch that nothing disturbs.                                        *)

(* How far the replacement of old by new has come, in what the two show. *)
Came(run, old, new) ==
  LET a == run.adapters[old]
      b == run.adapters[new]
  IN CASE run.at = "stop" -> Going(a) /\ Dark(b)
       [] run.at \in {"stopped", "init"} -> Dark(a) /\ Dark(b)
       [] run.at \in {"inited", "start"} -> Dark(a) /\ Dark(b) /\ b.state = "running"
       [] run.at = "started" -> Dark(a) /\ Lit(b)
       [] run.at = "done" -> Dark(a) /\ Lit(b) /\ run.active = new
       [] run.at = "failed" -> Dark(a) /\ (Dark(b) \/ Lit(b))

LEMMA RebindCame ==
  ASSUME NEW m, NEW run \in Run(m), NEW new \in Renderers, NEW old \in Renderers \ {new},
         run.at = "started", Came(run, old, new)
  PROVE  Came(Rebind(run, new), old, new)
<1> DEFINE out == Rebind(run, new)
<1>1. Dark(run.adapters[old]) /\ Lit(run.adapters[new])
  BY DEF Came
<1>2. /\ out.at \in {"done", "failed"} /\ out.adapters[old] = run.adapters[old]
      /\ Lit(out.adapters[new])
      /\ out.at = "done" => out.active = new
  BY <1>1, RebindType DEF Lit
<1> HIDE DEF out
<1>3. Came(out, old, new)
  BY <1>1, <1>2 DEF Came
<1> QED
  BY <1>3 DEF out

LEMMA AfterStartCame ==
  ASSUME NEW m, NEW run \in Run(m), NEW new \in Renderers, NEW old \in Renderers \ {new},
         Came(run, old, new)
  PROVE  Came(AfterStart(run, new), old, new)
BY RebindCame DEF AfterStart

LEMMA AfterInitCame ==
  ASSUME NEW m, NEW run \in Run(m), NEW new \in Renderers, NEW old \in Renderers \ {new},
         NEW spawns \in BOOLEAN, Came(run, old, new)
  PROVE  Came(AfterInit(run, new, spawns), old, new)
<1> DEFINE out == Start(run, new, spawns)
<1>1. CASE run.at = "inited"
  <2>1. Dark(run.adapters[old]) /\ Dark(run.adapters[new]) /\ run.adapters[new].state = "running"
    BY <1>1 DEF Came
  <2>2. /\ out \in Run(m) /\ out.at \in {"start", "started", "failed"}
        /\ out.adapters[old] = run.adapters[old]
        /\ out.adapters[new].state = "running"
        /\ out.at = "started" => Lit(out.adapters[new])
        /\ out.at # "started" => Dark(out.adapters[new])
    BY <2>1, StartType
  <2> HIDE DEF out
  <2>3. Came(out, old, new)
    BY <2>1, <2>2 DEF Came
  <2>4. AfterInit(run, new, spawns) = AfterStart(out, new)
    BY <1>1 DEF AfterInit, out
  <2> QED
    BY <2>2, <2>3, <2>4, AfterStartCame
<1>2. CASE run.at # "inited"
  BY <1>2 DEF AfterInit
<1> QED
  BY <1>1, <1>2

LEMMA AfterStopCame ==
  ASSUME NEW m, NEW run \in Run(m), NEW new \in Renderers, NEW old \in Renderers \ {new},
         NEW spawns \in BOOLEAN, Came(run, old, new)
  PROVE  Came(AfterStop(run, new, spawns), old, new)
<1> DEFINE out == InitRenderer(run, new)
<1>1. CASE run.at = "stopped"
  <2>1. Dark(run.adapters[old]) /\ Dark(run.adapters[new])
    BY <1>1 DEF Came
  <2>2. /\ out \in Run(m) /\ out.at \in {"init", "inited", "failed"}
        /\ out.adapters[old] = run.adapters[old]
        /\ Dark(out.adapters[new])
        /\ out.at = "inited" => out.adapters[new].state = "running"
    BY <2>1, InitType
  <2> HIDE DEF out
  <2>3. Came(out, old, new)
    BY <2>1, <2>2 DEF Came
  <2>4. AfterStop(run, new, spawns) = AfterInit(out, new, spawns)
    BY <1>1 DEF AfterStop, out
  <2> QED
    BY <2>2, <2>3, <2>4, AfterInitCame
<1>2. CASE run.at # "stopped"
  BY <1>2 DEF AfterStop
<1> QED
  BY <1>1, <1>2

LEMMA ReplaceCame ==
  ASSUME NEW m, NEW run \in Run(m), NEW new \in Renderers, NEW old \in Renderers \ {new},
         NEW spawns \in BOOLEAN, Dark(run.adapters[new]),
         Dark(run.adapters[old]) \/ Lit(run.adapters[old])
  PROVE  Came(Replace(run, old, new, spawns), old, new)
<1> DEFINE out == Stop(run, old)
<1>1. /\ out \in Run(m) /\ out.adapters[new] = run.adapters[new]
      /\ \/ out.at = "stopped" /\ Dark(out.adapters[old])
         \/ out.at = "stop" /\ Going(out.adapters[old])
  BY StopType
<1> HIDE DEF out
<1>2. Came(out, old, new)
  BY <1>1 DEF Came
<1> QED
  BY <1>1, <1>2, AfterStopCame DEF Replace, out

LEMMA ResumeCame ==
  ASSUME NEW m, NEW run \in Run(m), NEW new \in Renderers, NEW old \in Renderers \ {new},
         NEW spawns \in BOOLEAN, run.at \in {"stop", "init", "start"}, Came(run, old, new)
  PROVE  Came(Resume(run, old, new, spawns), old, new)
<1>1. CASE run.at = "stop"
  <2> DEFINE out == StopDone(run, old)
  <2>1. Going(run.adapters[old]) /\ Dark(run.adapters[new])
    BY <1>1 DEF Came
  <2>2. /\ out \in Run(m) /\ out.at = "stopped" /\ out.adapters[new] = run.adapters[new]
        /\ Dark(out.adapters[old])
    BY <2>1, StopDoneType
  <2> HIDE DEF out
  <2>3. Came(out, old, new)
    BY <2>1, <2>2 DEF Came
  <2> QED
    BY <1>1, <2>2, <2>3, AfterStopCame DEF Resume, out
<1>2. CASE run.at = "init"
  <2> DEFINE out == InitDone(run, new)
  <2>1. Dark(run.adapters[old]) /\ Dark(run.adapters[new])
    BY <1>2 DEF Came
  <2>2. /\ out \in Run(m) /\ out.at = "inited" /\ out.adapters[old] = run.adapters[old]
        /\ Dark(out.adapters[new]) /\ out.adapters[new].state = "running"
    BY <2>1, InitDoneType
  <2> HIDE DEF out
  <2>3. Came(out, old, new)
    BY <2>1, <2>2 DEF Came
  <2> QED
    BY <1>2, <2>2, <2>3, AfterInitCame DEF Resume, out
<1>3. CASE run.at = "start"
  <2> DEFINE out == StartDone(run, new, spawns)
  <2>1. Dark(run.adapters[old]) /\ Dark(run.adapters[new]) /\ run.adapters[new].state = "running"
    BY <1>3 DEF Came
  <2>2. /\ out \in Run(m) /\ out.at \in {"started", "failed"}
        /\ out.adapters[old] = run.adapters[old]
        /\ out.at = "started" => Lit(out.adapters[new])
        /\ out.at = "failed" => Dark(out.adapters[new])
    BY <2>1, StartDoneType DEF Lit
  <2> HIDE DEF out
  <2>3. Came(out, old, new)
    BY <2>1, <2>2 DEF Came
  <2> QED
    BY <1>3, <2>2, <2>3, AfterStartCame DEF Resume, out
<1> QED
  BY <1>1, <1>2, <1>3

(* The same at an await, for the adapters of the old and the new renderer. *)
Standing(await, a, b) ==
  CASE await = "stop" -> Going(a) /\ Dark(b)
    [] await = "init" -> Dark(a) /\ Dark(b)
    [] await = "start" -> Dark(a) /\ Dark(b) /\ b.state = "running"

(* A call that was not timed out has one thread at work, or none. *)
Phase(rec, as) ==
  CASE rec.at = "switch" ->
         /\ rec.from # rec.to
         /\ Standing(rec.inner, as[rec.from], as[rec.to])
    [] rec.at = "rollback" ->
         /\ rec.inner = "none" /\ rec.from # rec.to
         /\ Standing(rec.back, as[rec.to], as[rec.from])
    [] rec.at = "idle" -> rec = NoCall

(* As long as nothing crashes the fallback has no part in it. *)
NoFall == crashes = 0 => ~falling /\ ~late

(* ActiveAloneRuns, and what leads from one switch to the next. *)
Quiet ==
  ~timedOut /\ crashes = 0 /\ machine # "errored" =>
    /\ \A c \in Calls : Phase(call[c], adapters)
    /\ machine = "running" => OneShown(adapters, active)

(* What a step of call c makes of that. *)
QuietAfter(c) ==
  machine' # "errored" =>
    /\ Phase(call'[c], adapters')
    /\ machine' = "running" => OneShown(adapters', active')

LEMMA CameStands ==
  ASSUME NEW m, NEW run \in Run(m), NEW new \in Renderers, NEW old \in Renderers \ {new},
         run.at \in {"stop", "init", "start"}
  PROVE  Came(run, old, new) <=> Standing(run.at, run.adapters[old], run.adapters[new])
BY DEF Came, Standing

LEMMA CameShows ==
  ASSUME NEW m, NEW run \in Run(m), NEW new \in Renderers, NEW old \in Renderers \ {new},
         run.at = "done", Came(run, old, new)
  PROVE  OneShown(run.adapters, run.active)
<1>1. Dark(run.adapters[old]) /\ Lit(run.adapters[new]) /\ run.active = new
  BY DEF Came
<1>2. \A q \in Renderers : q = old \/ q = new
  BY DEF Renderers
<1> QED
  BY <1>1, <1>2 DEF OneShown, Dark, Lit

LEMMA TidyPhase ==
  ASSUME NEW rec \in CallState, NEW as,
         IF rec.at = "idle" THEN rec.inner = "none" ELSE Phase(rec, as)
  PROVE  Phase(Tidy(rec), as)
BY NoCallType DEF Tidy, Phase

LEMMA BackReachesQuiet ==
  ASSUME NEW c \in Calls, NEW rec \in CallState, NEW run \in Run("switching"),
         run.at \in Reached, call \in [Calls -> CallState], BackReaches(c, rec, run),
         rec.inner = "none", rec.from # rec.to, Came(run, rec.to, rec.from)
  PROVE  QuietAfter(c)
<1> DEFINE new == [rec EXCEPT !.back = Waiting(run), !.streams = run.streams,
                              !.at = IF run.at \in Awaits THEN "rollback" ELSE "idle"]
<1>1. rec.from \in Renderers /\ rec.to \in Renderers /\ run.streams \in Streams
  BY DEF Run, CallState
<1>2. /\ new \in CallState /\ new.inner = "none" /\ new.from = rec.from /\ new.to = rec.to
      /\ new.at = IF run.at \in Awaits THEN "rollback" ELSE "idle"
      /\ new.back = Waiting(run)
  BY <1>1, WaitingType DEF CallState
<1>3. call'[c] = Tidy(new) /\ adapters' = run.adapters /\ active' = run.active
  BY DEF BackReaches, Moves
<1>4. run.machine = "switching"
  BY DEF Run
<1> HIDE DEF new
<1>5. CASE run.at \in Awaits
  <2>1. machine' = "switching" /\ run.at \in {"stop", "init", "start"}
    BY <1>4, <1>5, WaitingType DEF BackReaches
  <2>2. Standing(new.back, run.adapters[rec.to], run.adapters[rec.from])
    BY <1>1, <1>2, <1>5, <2>1, CameStands DEF Waiting
  <2>3. Phase(new, run.adapters)
    BY <1>2, <1>5, <2>2 DEF Phase
  <2> QED
    BY <1>2, <1>3, <1>5, <2>1, <2>3, TidyPhase DEF QuietAfter
<1>6. CASE run.at \notin Awaits
  <2>1. run.at \in {"done", "failed"}
    BY <1>6 DEF Reached, Awaits
  <2>2. Phase(call'[c], adapters')
    BY <1>2, <1>3, <1>6, TidyPhase
  <2>3. run.at = "failed" => machine' = "errored"
    BY <1>4, <1>6 DEF BackReaches, Transitions
  <2>4. run.at = "done" => OneShown(run.adapters, run.active)
    BY <1>1, CameShows
  <2> QED
    BY <1>3, <2>1, <2>2, <2>3, <2>4 DEF QuietAfter
<1> QED
  BY <1>5, <1>6

(* What a switch that failed leaves behind is what its rollback can work on. *)
LEMMA RollBackQuiet ==
  ASSUME NEW c \in Calls, NEW rec \in CallState, NEW run \in Run("switching"),
         NEW spawns \in BOOLEAN, call \in [Calls -> CallState], RollBack(c, rec, run, spawns),
         rec.inner = "none", rec.from # rec.to, run.at = "failed",
         Came(run, rec.from, rec.to)
  PROVE  QuietAfter(c)
<1> DEFINE back == Replace(run, rec.to, rec.from, spawns)
<1>1. rec.from \in Renderers /\ rec.to \in Renderers
  BY DEF CallState
<1>2. /\ Dark(run.adapters[rec.from])
      /\ Dark(run.adapters[rec.to]) \/ Lit(run.adapters[rec.to])
  BY DEF Came
<1>3. back \in Run("switching") /\ back.at \in Reached
  BY <1>1, ReplaceType
<1>4. Came(back, rec.to, rec.from)
  BY <1>1, <1>2, ReplaceCame
<1>5. BackReaches(c, rec, back)
  BY DEF RollBack
<1> QED
  BY <1>3, <1>4, <1>5, BackReachesQuiet

LEMMA InnerReachesQuiet ==
  ASSUME NEW c \in Calls, NEW rec \in CallState, NEW run \in Run("switching"),
         run.at \in Reached, NEW again \in BOOLEAN, call \in [Calls -> CallState],
         rec.at = "switch", InnerReaches(c, rec, run, again),
         rec.from # rec.to, Came(run, rec.from, rec.to)
  PROVE  QuietAfter(c)
<1> DEFINE moved == [rec EXCEPT !.inner = Waiting(run), !.streams = run.streams]
           won == [moved EXCEPT !.at = "idle"]
<1>1. rec.from \in Renderers /\ rec.to \in Renderers /\ run.streams \in Streams
      /\ run.machine = "switching"
  BY DEF Run, CallState
<1>2. /\ moved \in CallState /\ moved.at = "switch" /\ moved.inner = Waiting(run)
      /\ moved.from = rec.from /\ moved.to = rec.to
  BY <1>1, WaitingType DEF CallState
<1>3. won \in CallState /\ won.at = "idle" /\ won.inner = Waiting(run)
  BY <1>2 DEF CallState
<1>4. [moved EXCEPT !.at = @] = moved
  BY <1>2 DEF CallState
<1>5. CASE run.at = "failed"
  <2>1. RollBack(c, moved, run, again)
    BY <1>5 DEF InnerReaches
  <2>2. moved.inner = "none"
    BY <1>2, <1>5, WaitingType
  <2> QED
    BY <1>2, <1>5, <2>1, <2>2, RollBackQuiet
<1>6. CASE run.at = "done"
  <2>1. call' = [call EXCEPT ![c] = Tidy(won)] /\ Moves(run)
    BY <1>6 DEF InnerReaches
  <2>2. won.inner = "none"
    BY <1>3, <1>6, WaitingType
  <2>3. OneShown(run.adapters, run.active)
    BY <1>1, <1>6, CameShows
  <2> HIDE DEF won
  <2> QED
    BY <1>3, <2>1, <2>2, <2>3, TidyPhase DEF QuietAfter, Moves
<1>7. CASE run.at \in Awaits
  <2>1. call' = [call EXCEPT ![c] = Tidy(moved)] /\ machine' = "switching" /\ Moves(run)
    BY <1>1, <1>4, <1>7, WaitingType DEF InnerReaches
  <2>2. Standing(moved.inner, run.adapters[rec.from], run.adapters[rec.to])
    BY <1>1, <1>2, <1>7, WaitingType, CameStands DEF Waiting
  <2> HIDE DEF moved
  <2>3. Phase(moved, run.adapters)
    BY <1>2, <2>2 DEF Phase
  <2> QED
    BY <1>2, <2>1, <2>3, TidyPhase DEF QuietAfter, Moves
<1> QED
  BY <1>5, <1>6, <1>7, WaitingType DEF Reached

(* A step of the call that holds the machine, or took it just now. *)
LEMMA QuietAfterKeeps ==
  ASSUME IInv, Quiet, NEW c \in Calls, Leaves(c),
         machine # "errored", \A d \in Calls \ {c} : call[d].at = "idle",
         ~timedOut' /\ crashes' = 0 => ~timedOut /\ crashes = 0,
         ~timedOut /\ crashes = 0 => QuietAfter(c)
  PROVE  Quiet'
<1> SUFFICES ASSUME ~timedOut', crashes' = 0, machine' # "errored"
             PROVE  /\ \A d \in Calls : Phase(call[d], adapters)'
                    /\ machine' = "running" => OneShown(adapters', active')
  BY DEF Quiet, OneShown
<1>1. ~timedOut /\ crashes = 0
  OBVIOUS
<1>2. Phase(call'[c], adapters') /\ (machine' = "running" => OneShown(adapters', active'))
  BY <1>1 DEF QuietAfter
<1>3. ASSUME NEW d \in Calls, d # c PROVE Phase(call'[d], adapters')
  <2>1. call'[d] = call[d] /\ call[d].at = "idle" /\ Phase(call[d], adapters)
    BY <1>1, <1>3 DEF Leaves, Quiet
  <2>2. call'[d] = NoCall
    BY <2>1 DEF Phase
  <2> QED
    BY <2>2, NoCallType DEF Phase
<1>4. \A d \in Calls : Phase(call'[d], adapters')
  BY <1>2, <1>3
<1> QED
  BY <1>2, <1>4

LEMMA CallQuiet ==
  ASSUME IInv, Quiet, NEW c \in Calls, NEW to \in Renderers, NEW s \in Streams, Call(c, to, s)
  PROVE  Quiet'
<1>1. /\ machine = "running" /\ \A d \in Calls : call[d].at = "idle"
      /\ active \in Renderers /\ to # active
      /\ UNCHANGED <<falling, late, crashes, timedOut>>
  BY CallRuns
<1>2. PICK rec \in CallState, run \in Run("switching"), spawns \in BOOLEAN, again \in BOOLEAN :
        /\ rec.at = "switch" /\ rec.back = "none"
        /\ rec.from = active /\ rec.to = to
        /\ \A q \in Renderers \ {active} : run.adapters[q] = adapters[q]
        /\ run.adapters[active].state = adapters[active].state
        /\ run.adapters[active].process = adapters[active].process
        /\ run.adapters[active].stray = adapters[active].stray
        /\ InnerReaches(c, rec, Replace(run, active, to, spawns), again)
  BY CallRuns
<1> DEFINE out == Replace(run, active, to, spawns)
<1>3. out \in Run("switching") /\ out.at \in Reached
  BY <1>1, ReplaceType
<1>4. Leaves(c)
  BY <1>2, <1>3, InnerTurns DEF IInv, TypeOK
<1>5. ASSUME ~timedOut /\ crashes = 0 PROVE QuietAfter(c)
  <2>1. OneShown(adapters, active)
    BY <1>1, <1>5 DEF Quiet
  <2>2. Lit(run.adapters[active])
    BY <1>1, <1>2, <2>1 DEF OneShown, Lit
  <2>3. Dark(run.adapters[to])
    <3>1. run.adapters[to] = adapters[to] /\ adapters[to] \in Adapter
      BY <1>1, <1>2 DEF IInv, TypeOK
    <3> QED
      BY <3>1, <1>1, <2>1 DEF OneShown, Dark, Adapter
  <2>4. Came(out, active, to)
    BY <1>1, <2>2, <2>3, ReplaceCame
  <2> QED
    BY <1>1, <1>2, <1>3, <2>4, InnerReachesQuiet DEF IInv, TypeOK
<1> QED
  BY <1>1, <1>4, <1>5, QuietAfterKeeps

LEMMA InnerResumesQuiet ==
  ASSUME IInv, Quiet, NEW c \in Calls, InnerResumes(c)
  PROVE  Quiet'
<1> DEFINE rec == call[c]
           label == rec.inner
           start == RunOf(rec, label)
<1>1. rec \in CallState /\ RecOK(rec) /\ label \in {"stop", "init", "start"}
  BY DEF IInv, TypeOK, RecsOK, InnerResumes, CallState, Awaits
<1>2. start \in Run(machine) /\ start.at = label /\ start.adapters = adapters
  BY <1>1, RunOfType DEF IInv, Labels, RunOf
<1> HIDE DEF start
<1>3. PICK spawns \in BOOLEAN, again \in BOOLEAN :
        InnerReaches(c, rec, Resume(start, rec.from, rec.to, spawns), again)
  BY DEF InnerResumes, start
<1> DEFINE run == Resume(start, rec.from, rec.to, spawns)
<1>4. rec.from \in Renderers /\ rec.to \in Renderers
  BY <1>1 DEF CallState
<1>5. UNCHANGED <<falling, late, crashes, timedOut>>
  BY DEF InnerResumes
<1> HIDE DEF rec
<1>6. run \in Run(machine) /\ run.at \in Reached
  BY <1>1, <1>2, <1>4, ResumeType
<1>7. CASE rec.at = "switch"
  <2>1. machine = "switching" /\ \A d \in Calls \ {c} : call[d].at = "idle"
    BY <1>7 DEF rec, IInv, OneSwitch
  <2>2. Leaves(c)
    BY <1>1, <1>3, <1>6, <1>7, <2>1, InnerTurns DEF IInv, TypeOK, RecOK
  <2>3. ASSUME ~timedOut /\ crashes = 0 PROVE QuietAfter(c)
    <3>1. rec.from # rec.to /\ Standing(label, adapters[rec.from], adapters[rec.to])
      BY <1>7, <2>1, <2>3 DEF Quiet, Phase, rec
    <3>2. Came(start, rec.from, rec.to)
      BY <1>1, <1>2, <1>4, <3>1, CameStands
    <3>3. Came(run, rec.from, rec.to)
      BY <1>1, <1>2, <1>4, <3>1, <3>2, ResumeCame
    <3> HIDE DEF run
    <3> QED
      BY <1>1, <1>3, <1>6, <1>7, <2>1, <3>1, <3>3, InnerReachesQuiet DEF run, IInv, TypeOK
  <2> QED
    BY <1>5, <2>1, <2>2, <2>3, QuietAfterKeeps
<1>8. CASE rec.at # "switch"
  <2>1. Leaves(c) /\ machine' = machine
    BY <1>1, <1>3, <1>6, <1>8, StrayInnerMoves DEF IInv, TypeOK
  <2>2. ~timedOut /\ crashes = 0 /\ machine # "errored" => FALSE
    <3>1. rec = NoCall => label = "none"
      BY DEF NoCall
    <3>2. rec.at \in {"idle", "rollback"}
      BY <1>1, <1>8 DEF CallState
    <3> QED
      BY <1>1, <3>1, <3>2 DEF Quiet, Phase, rec
  <2> QED
    BY <1>5, <2>1, <2>2 DEF Quiet
<1> QED
  BY <1>7, <1>8

LEMMA BackResumesQuiet ==
  ASSUME IInv, Quiet, NEW c \in Calls, BackResumes(c)
  PROVE  Quiet'
<1> DEFINE rec == call[c]
           label == rec.back
           start == RunOf(rec, label)
<1>1. rec \in CallState /\ RecOK(rec) /\ label \in {"stop", "init", "start"}
  BY DEF IInv, TypeOK, RecsOK, BackResumes, CallState, Awaits
<1>2. rec.at = "rollback"
  BY <1>1 DEF RecOK, CallState
<1>3. machine = "switching" /\ \A d \in Calls \ {c} : call[d].at = "idle"
  BY <1>2 DEF IInv, OneSwitch
<1>4. start \in Run("switching") /\ start.at = label /\ start.adapters = adapters
  BY <1>1, <1>3, RunOfType DEF IInv, Labels, RunOf
<1> HIDE DEF start
<1>5. PICK spawns \in BOOLEAN :
        BackReaches(c, rec, Resume(start, rec.to, rec.from, spawns))
  BY DEF BackResumes, start
<1> DEFINE run == Resume(start, rec.to, rec.from, spawns)
<1>6. rec.from \in Renderers /\ rec.to \in Renderers
  BY <1>1 DEF CallState
<1>7. UNCHANGED <<falling, late, crashes, timedOut>>
  BY DEF BackResumes
<1> HIDE DEF rec
<1>8. run \in Run("switching") /\ run.at \in Reached
  BY <1>1, <1>4, <1>6, ResumeType
<1>9. Leaves(c)
  BY <1>1, <1>5, <1>8, BackReachesTurns DEF IInv, TypeOK
<1>10. ASSUME ~timedOut /\ crashes = 0 PROVE QuietAfter(c)
  <2>1. rec.inner = "none" /\ rec.from # rec.to
        /\ Standing(label, adapters[rec.to], adapters[rec.from])
    BY <1>2, <1>3, <1>10 DEF Quiet, Phase, rec
  <2>2. Came(start, rec.to, rec.from)
    BY <1>1, <1>4, <1>6, <2>1, CameStands
  <2>3. Came(run, rec.to, rec.from)
    BY <1>1, <1>4, <1>6, <2>1, <2>2, ResumeCame
  <2> HIDE DEF run
  <2> QED
    BY <1>1, <1>5, <1>8, <2>1, <2>3, BackReachesQuiet DEF run, IInv, TypeOK
<1> QED
  BY <1>3, <1>7, <1>9, <1>10, QuietAfterKeeps

(* Whatever crashes, or times out, ends the promise. *)
LEMMA NoFallKeeps == IInv /\ NoFall /\ [Next]_vars => NoFall'
<1> SUFFICES ASSUME IInv, NoFall, [Next]_vars, crashes' = 0 PROVE ~falling' /\ ~late'
  BY DEF NoFall
<1>1. crashes \in Nat
  BY CrashesAssumption DEF IInv, TypeOK
<1>2. ~GhosttyCrashes /\ ~RioCrashes
  BY <1>1 DEF GhosttyCrashes, RioCrashes
<1>3. crashes = 0
  BY <1>2 DEF Next, vars, Call, InnerResumes, BackResumes, TimesOut, FallbackEnds,
              FallbackTimesOut, LateInitEnds
<1>4. ~falling /\ ~late
  BY <1>3 DEF NoFall
<1>5. UNCHANGED <<falling, late>>
  BY <1>2, <1>4 DEF Next, vars, Call, InnerResumes, BackResumes, TimesOut, FallbackEnds,
              FallbackTimesOut, LateInitEnds
<1> QED
  BY <1>4, <1>5

LEMMA QuietKeeps == IInv /\ NoFall /\ Quiet /\ [Next]_vars => Quiet'
<1> SUFFICES ASSUME IInv, NoFall, Quiet, [Next]_vars PROVE Quiet'
  OBVIOUS
<1>1. ASSUME NEW c \in Calls, TimesOut(c) PROVE Quiet'
  BY <1>1 DEF TimesOut, Quiet
<1>2. ASSUME GhosttyCrashes \/ RioCrashes PROVE Quiet'
  <2>1. crashes' # 0
    BY <1>2, CrashesAssumption DEF IInv, TypeOK, GhosttyCrashes, RioCrashes
  <2> QED
    BY <2>1 DEF Quiet
<1>3. ASSUME FallbackEnds \/ FallbackTimesOut \/ LateInitEnds PROVE Quiet'
  <2>1. crashes' = crashes /\ crashes # 0
    BY <1>3 DEF FallbackEnds, FallbackTimesOut, LateInitEnds, NoFall
  <2> QED
    BY <2>1 DEF Quiet
<1>4. ASSUME UNCHANGED vars PROVE Quiet'
  BY <1>4 DEF vars, Quiet, Phase, OneShown, Standing, Going, Dark
<1> QED
  BY <1>1, <1>2, <1>3, <1>4, CallQuiet, InnerResumesQuiet, BackResumesQuiet DEF Next

LEMMA InitQuiet == Init => NoFall /\ Quiet
<1> SUFFICES ASSUME Init PROVE NoFall /\ Quiet
  OBVIOUS
<1>1. \A c \in Calls : Phase(call[c], adapters)
  BY NoCallType DEF Init, Phase
<1>2. OneShown(adapters, active)
  <2>1. PICK b \in BOOLEAN :
          adapters = [r \in Renderers |-> IF r = active THEN Shown(b) ELSE Fresh(r)]
    BY DEF Init
  <2>2. adapters[active] = Shown(b) /\ \A r \in Renderers \ {active} : adapters[r] = Fresh(r)
    BY <2>1 DEF Init
  <2> QED
    BY <2>2 DEF Init, OneShown, Shown, Fresh
<1> QED
  BY <1>1, <1>2 DEF Init, NoFall, Quiet

(* Between switches nobody disturbed, failed ones included, the active         *)
(* renderer runs and the other holds no process and no streams.                *)
THEOREM ActiveAlone == Spec => []ActiveAloneRuns
<1>1. Quiet => ActiveAloneRuns
  BY DEF Quiet, ActiveAloneRuns, Settled
<1> QED
  BY Invariant, InitQuiet, NoFallKeeps, QuietKeeps, <1>1, PTL DEF Spec

-------------------------------------------------------------------------------
(* 5. A switch beside threads that were given up.                            *)

(* Only ghostty's init and start are awaited, and who goes on from an await *)
(* does not come to that of a stop.                                         *)
LEMMA StartNotes ==
  ASSUME NEW m, NEW run \in Run(m), NEW new \in Renderers, NEW spawns \in BOOLEAN
  PROVE  LET out == AfterStart(Start(run, new, spawns), new)
         IN out.at \notin {"stop", "init"} /\ (out.at = "start" => new = Ghostty)
BY StartType, RebindType DEF AfterStart

LEMMA InitNotes ==
  ASSUME NEW m, NEW run \in Run(m), NEW new \in Renderers, NEW spawns \in BOOLEAN,
         run.at = "stopped"
  PROVE  LET out == AfterStop(run, new, spawns)
         IN out.at # "stop" /\ (out.at \in {"init", "start"} => new = Ghostty)
<1> DEFINE out == InitRenderer(run, new)
<1>1. /\ out \in Run(m) /\ out.at \in {"init", "inited", "failed"}
      /\ out.at = "init" => new = Ghostty
  BY InitType
<1>2. AfterStop(run, new, spawns) = AfterInit(out, new, spawns)
  BY DEF AfterStop
<1> HIDE DEF out
<1> QED
  BY <1>1, <1>2, StartNotes DEF AfterInit

LEMMA ReplaceNotes ==
  ASSUME NEW m, NEW run \in Run(m), NEW old \in Renderers, NEW new \in Renderers,
         NEW spawns \in BOOLEAN
  PROVE  Replace(run, old, new, spawns).at \in {"init", "start"} => new = Ghostty
<1>1. Stop(run, old) \in Run(m) /\ Stop(run, old).at \in {"stopped", "stop"}
  BY StopType
<1> QED
  BY <1>1, InitNotes DEF Replace, AfterStop

LEMMA ResumeNotes ==
  ASSUME NEW m, NEW run \in Run(m), NEW old \in Renderers, NEW new \in Renderers,
         NEW spawns \in BOOLEAN, run.at \in {"stop", "init", "start"}
  PROVE  LET out == Resume(run, old, new, spawns)
         IN out.at # "stop" /\ (out.at \in {"init", "start"} => new = Ghostty)
<1>1. CASE run.at = "stop"
  BY <1>1, StopDoneType, InitNotes DEF Resume
<1>2. CASE run.at = "init"
  BY <1>2, InitDoneType, StartNotes DEF Resume, AfterInit
<1>3. CASE run.at = "start"
  <2> DEFINE out == StartDone(run, new, spawns)
  <2>1. out \in Run(m) /\ out.at \in {"started", "failed"}
    BY StartDoneType
  <2>2. Resume(run, old, new, spawns) = AfterStart(out, new)
    BY <1>3 DEF Resume
  <2> HIDE DEF out
  <2>3. AfterStart(out, new).at \in {"done", "failed"}
    BY <2>1, RebindType DEF AfterStart
  <2> QED
    BY <2>2, <2>3
<1> QED
  BY <1>1, <1>2, <1>3

(* How far the replacement of old by new has come, when ghostty's state was  *)
(* g before; "ready" when ghostty had an init behind it.                     *)
Heard(run, g, old, new, ready) ==
  LET s == run.adapters[Ghostty].state
      b == run.adapters[new]
  IN /\ run.at = "stop" => s = IF old = Ghostty THEN "stopping" ELSE g
     /\ run.at = "stopped" => old = Ghostty \/ s = g
     /\ run.at = "init" =>
          new = Ghostty /\ (old = Ghostty \/ g \in {"uninitialized", "stopped", "errored"})
     /\ run.at \in {"inited", "start", "started", "done"} =>
          b.state = "running" /\ (new = Ghostty => ready)
     /\ run.at \in {"started", "done"} => b.process = "live"
     /\ run.at = "done" => run.active = new

LEMMA AfterStartHeard ==
  ASSUME NEW m, NEW run \in Run(m), NEW new \in Renderers, NEW old \in Renderers,
         NEW ready \in BOOLEAN, NEW g, Heard(run, g, old, new, ready)
  PROVE  Heard(AfterStart(run, new), g, old, new, ready)
<1> DEFINE out == Rebind(run, new)
<1>1. CASE run.at = "started"
  <2>1. /\ run.adapters[new].state = "running" /\ run.adapters[new].process = "live"
        /\ new = Ghostty => ready
    BY <1>1 DEF Heard
  <2>2. /\ out.at \in {"done", "failed"}
        /\ out.adapters[new].state = "running" /\ out.adapters[new].process = "live"
        /\ out.at = "done" => out.active = new
    BY <2>1, RebindType
  <2>3. AfterStart(run, new) = out
    BY <1>1 DEF AfterStart
  <2> HIDE DEF out
  <2> QED
    BY <2>1, <2>2, <2>3 DEF Heard
<1>2. CASE run.at # "started"
  BY <1>2 DEF AfterStart
<1> QED
  BY <1>1, <1>2

LEMMA AfterInitHeard ==
  ASSUME NEW m, NEW run \in Run(m), NEW new \in Renderers, NEW old \in Renderers,
         NEW ready \in BOOLEAN, NEW spawns \in BOOLEAN, NEW g, Heard(run, g, old, new, ready)
  PROVE  Heard(AfterInit(run, new, spawns), g, old, new, ready)
<1> DEFINE out == Start(run, new, spawns)
<1>1. CASE run.at = "inited"
  <2>1. run.adapters[new].state = "running" /\ (new = Ghostty => ready)
    BY <1>1 DEF Heard
  <2>2. /\ out \in Run(m) /\ out.at \in {"start", "started", "failed"}
        /\ out.adapters[new].state = "running"
        /\ out.at = "started" => out.adapters[new].process = "live"
    BY <2>1, StartType
  <2>3. AfterInit(run, new, spawns) = AfterStart(out, new)
    BY <1>1 DEF AfterInit
  <2> HIDE DEF out
  <2>4. Heard(out, g, old, new, ready)
    BY <2>1, <2>2 DEF Heard
  <2> QED
    BY <2>2, <2>3, <2>4, AfterStartHeard
<1>2. CASE run.at # "inited"
  BY <1>2 DEF AfterInit
<1> QED
  BY <1>1, <1>2

LEMMA AfterStopHeard ==
  ASSUME NEW m, NEW run \in Run(m), NEW new \in Renderers, NEW old \in Renderers,
         NEW ready \in BOOLEAN, NEW spawns \in BOOLEAN, NEW g, Heard(run, g, old, new, ready)
  PROVE  Heard(AfterStop(run, new, spawns), g, old, new, ready)
<1> DEFINE out == InitRenderer(run, new)
<1>1. CASE run.at = "stopped"
  <2>1. old = Ghostty \/ run.adapters[Ghostty].state = g
    BY <1>1 DEF Heard
  <2>2. /\ out \in Run(m) /\ out.at \in {"init", "inited", "failed"}
        /\ out.at = "init" => new = Ghostty /\ GhosttyInits(run.adapters[new])
        /\ out.at = "inited" => new # Ghostty /\ out.adapters[new].state = "running"
    BY InitType
  <2>3. AfterStop(run, new, spawns) = AfterInit(out, new, spawns)
    BY <1>1 DEF AfterStop
  <2> HIDE DEF out
  <2>4. Heard(out, g, old, new, ready)
    BY <2>1, <2>2 DEF Heard, GhosttyInits
  <2> QED
    BY <2>2, <2>3, <2>4, AfterInitHeard
<1>2. CASE run.at # "stopped"
  BY <1>2 DEF AfterStop
<1> QED
  BY <1>1, <1>2

LEMMA ReplaceHeard ==
  ASSUME NEW m, NEW run \in Run(m), NEW new \in Renderers, NEW old \in Renderers,
         NEW spawns \in BOOLEAN
  PROVE  Heard(Replace(run, old, new, spawns), run.adapters[Ghostty].state, old, new, FALSE)
<1> DEFINE out == Stop(run, old)
           g == run.adapters[Ghostty].state
<1>1. /\ out \in Run(m) /\ out.at \in {"stop", "stopped"}
      /\ out.at = "stop" => out.adapters[old].state = "stopping"
      /\ old # Ghostty => out.adapters[Ghostty] = run.adapters[Ghostty]
  BY StopType DEF Renderers
<1> HIDE DEF out
<1>2. Heard(out, g, old, new, FALSE)
  BY <1>1 DEF Heard
<1> HIDE DEF g
<1>3. Heard(AfterStop(out, new, spawns), g, old, new, FALSE)
  BY <1>1, <1>2, AfterStopHeard
<1> QED
  BY <1>3 DEF Replace, out, g

LEMMA ResumeHeard ==
  ASSUME NEW m, NEW run \in Run(m), NEW new \in Renderers, NEW old \in Renderers,
         NEW spawns \in BOOLEAN, run.at \in {"stop", "init", "start"},
         run.at = "start" => run.adapters[new].state = "running"
  PROVE  Heard(Resume(run, old, new, spawns), run.adapters[Ghostty].state, old, new,
               run.at # "stop")
<1> DEFINE g == run.adapters[Ghostty].state
<1>1. CASE run.at = "stop"
  <2> DEFINE out == StopDone(run, old)
  <2>1. /\ out \in Run(m) /\ out.at = "stopped"
        /\ old # Ghostty => out.adapters[Ghostty] = run.adapters[Ghostty]
    BY StopDoneType DEF Renderers
  <2> HIDE DEF out
  <2>2. Heard(out, g, old, new, FALSE)
    BY <2>1 DEF Heard
  <2> HIDE DEF g
  <2>3. Heard(AfterStop(out, new, spawns), g, old, new, FALSE)
    BY <2>1, <2>2, AfterStopHeard
  <2> QED
    BY <1>1, <2>3 DEF Resume, out, g
<1>2. CASE run.at = "init"
  <2> DEFINE out == InitDone(run, new)
  <2>1. out \in Run(m) /\ out.at = "inited" /\ out.adapters[new].state = "running"
    BY InitDoneType
  <2> HIDE DEF out
  <2>2. Heard(out, g, old, new, TRUE)
    BY <2>1 DEF Heard
  <2> HIDE DEF g
  <2>3. Heard(AfterInit(out, new, spawns), g, old, new, TRUE)
    BY <2>1, <2>2, AfterInitHeard
  <2> QED
    BY <1>2, <2>3 DEF Resume, out, g
<1>3. CASE run.at = "start"
  <2> DEFINE out == StartDone(run, new, spawns)
  <2>1. /\ out \in Run(m) /\ out.at \in {"started", "failed"}
        /\ out.adapters[new].state = "running"
        /\ out.at = "started" => out.adapters[new].process = "live"
    BY <1>3, StartDoneType
  <2> HIDE DEF out
  <2>2. Heard(out, g, old, new, TRUE)
    BY <2>1 DEF Heard
  <2> HIDE DEF g
  <2>3. Heard(AfterStart(out, new), g, old, new, TRUE)
    BY <2>1, <2>2, AfterStartHeard
  <2> QED
    BY <1>3, <2>3 DEF Resume, out, g
<1> QED
  BY <1>1, <1>2, <1>3

(* What a thread that does not stop ghostty may do to its state. *)
Calm(run, g) ==
  LET s == run.adapters[Ghostty].state
  IN \/ s \in {g, "running"}
     \/ s = "initializing" /\ g \in {"uninitialized", "stopped", "errored"}

LEMMA AfterStartCalm ==
  ASSUME NEW m, NEW run \in Run(m), NEW g, Calm(run, g)
  PROVE  Calm(AfterStart(run, Ghostty), g)
<1>1. Rebind(run, Ghostty).adapters[Ghostty].state = run.adapters[Ghostty].state
  BY RebindType DEF Renderers
<1> QED
  BY <1>1 DEF AfterStart, Calm

LEMMA AfterInitCalm ==
  ASSUME NEW m, NEW run \in Run(m), NEW g, NEW spawns \in BOOLEAN, Calm(run, g)
  PROVE  Calm(AfterInit(run, Ghostty, spawns), g)
<1> DEFINE out == Start(run, Ghostty, spawns)
<1>1. out \in Run(m) /\ out.adapters[Ghostty].state = run.adapters[Ghostty].state
  BY StartType DEF Renderers
<1> HIDE DEF out
<1>2. Calm(AfterStart(out, Ghostty), g)
  BY <1>1, AfterStartCalm DEF Calm
<1> QED
  BY <1>2 DEF AfterInit, out

LEMMA ResumeCalm ==
  ASSUME NEW m, NEW run \in Run(m), NEW old \in Renderers \ {Ghostty}, NEW spawns \in BOOLEAN,
         run.at \in {"stop", "init", "start"}
  PROVE  Calm(Resume(run, old, Ghostty, spawns), run.adapters[Ghostty].state)
<1> DEFINE g == run.adapters[Ghostty].state
<1>0. Ghostty \in Renderers
  BY DEF Renderers
<1>1. CASE run.at = "stop"
  <2> DEFINE out == StopDone(run, old)
             raised == InitRenderer(out, Ghostty)
  <2>1. /\ out \in Run(m) /\ out.at = "stopped"
        /\ out.adapters[Ghostty] = run.adapters[Ghostty]
    BY <1>0, StopDoneType
  <2> HIDE DEF out
  <2>2. /\ raised \in Run(m) /\ raised.at \in {"init", "inited", "failed"}
        /\ raised.at = "init" => /\ raised.adapters[Ghostty].state = "initializing"
                                 /\ GhosttyInits(out.adapters[Ghostty])
        /\ raised.at = "inited" => raised.adapters[Ghostty].state = "running"
        /\ raised.at = "failed" => raised.adapters[Ghostty].state = out.adapters[Ghostty].state
    BY <1>0, <2>1, InitType
  <2> HIDE DEF raised
  <2>3. Calm(raised, g)
    BY <2>1, <2>2 DEF Calm, GhosttyInits
  <2> HIDE DEF g
  <2>4. Calm(AfterInit(raised, Ghostty, spawns), g)
    BY <2>2, <2>3, AfterInitCalm
  <2> QED
    BY <1>1, <2>1, <2>4 DEF Resume, AfterStop, out, raised, g
<1>2. CASE run.at = "init"
  <2> DEFINE out == InitDone(run, Ghostty)
  <2>1. out \in Run(m) /\ out.adapters[Ghostty].state = "running"
    BY <1>0, InitDoneType
  <2> HIDE DEF out
  <2>2. Calm(out, g)
    BY <2>1 DEF Calm
  <2> HIDE DEF g
  <2>3. Calm(AfterInit(out, Ghostty, spawns), g)
    BY <2>1, <2>2, AfterInitCalm
  <2> QED
    BY <1>2, <2>3 DEF Resume, out, g
<1>3. CASE run.at = "start"
  <2> DEFINE out == StartDone(run, Ghostty, spawns)
  <2>1. out \in Run(m) /\ out.adapters[Ghostty].state = g
    BY <1>0, StartDoneType
  <2> HIDE DEF out
  <2>2. Calm(out, g)
    BY <2>1 DEF Calm
  <2> HIDE DEF g
  <2>3. Calm(AfterStart(out, Ghostty), g)
    BY <2>1, <2>2, AfterStartCalm
  <2> QED
    BY <1>3, <2>3 DEF Resume, out, g
<1> QED
  BY <1>1, <1>2, <1>3

(* A thread of the call awaits the stop of ghostty. *)
StopsGhostty(rec) ==
  \/ rec.inner = "stop" /\ rec.from = Ghostty
  \/ rec.back = "stop" /\ rec.to = Ghostty

(* The threads of a call raise the renderer each is to raise. *)
Threads(rec) ==
  /\ rec.from # rec.to
  /\ rec.inner \in {"init", "start"} => rec.to = Ghostty
  /\ rec.back \in {"init", "start"} => rec.from = Ghostty

(* What a call at work may take of ghostty's state g, and its own threads. *)
AtWork(rec, g) ==
  /\ rec.inner = "stop" /\ rec.from = Ghostty => g \in {"stopping", "running"}
  /\ rec.at = "rollback" /\ rec.back \in {"init", "start"} => ~StopsGhostty(rec)
  /\ (rec.at = "switch" /\ rec.inner = "start") \/ (rec.at = "rollback" /\ rec.back = "start")
       => g = "running"

(* A call that is over has left no stop of ghostty behind. *)
Holds(rec, g) == IF rec.at = "idle" THEN ~StopsGhostty(rec) ELSE AtWork(rec, g)

(* As long as nothing crashes, timeouts or not. *)
Loud ==
  crashes = 0 =>
    \A c \in Calls : /\ Threads(call[c])
                     /\ machine # "errored" => Holds(call[c], adapters[Ghostty].state)

(* What a step of the call that holds the machine, c, makes of it. *)
LoudAfter(c) ==
  /\ Threads(call'[c])
  /\ machine' # "errored" => Holds(call'[c], adapters'[Ghostty].state)
  /\ machine' = "running" => /\ adapters'[active'].state = "running"
                             /\ adapters'[active'].process = "live"

LEMMA TidyHolds ==
  ASSUME NEW rec \in CallState
  PROVE  /\ Threads(rec) => Threads(Tidy(rec))
         /\ \A g : Holds(rec, g) => Holds(Tidy(rec), g)
<1>1. Threads(NoCall) /\ \A g : Holds(NoCall, g)
  BY RenderersAssumption DEF Threads, Holds, StopsGhostty, NoCall
<1> QED
  BY <1>1 DEF Tidy

LEMMA BackReachesLoud ==
  ASSUME NEW c \in Calls, NEW rec \in CallState, NEW run \in Run("switching"),
         run.at \in Reached, call \in [Calls -> CallState], BackReaches(c, rec, run),
         Threads(rec), NEW g, NEW ready \in BOOLEAN,
         Heard(run, g, rec.to, rec.from, ready),
         run.at \in {"init", "start"} => rec.from = Ghostty,
         rec.inner = "stop" /\ rec.from = Ghostty => ~ready /\ g \in {"stopping", "running"}
  PROVE  LoudAfter(c)
<1> DEFINE new == [rec EXCEPT !.back = Waiting(run), !.streams = run.streams,
                              !.at = IF run.at \in Awaits THEN "rollback" ELSE "idle"]
           s == run.adapters[Ghostty].state
<1>1. rec.from \in Renderers /\ rec.to \in Renderers /\ run.streams \in Streams
      /\ run.machine = "switching"
  BY DEF Run, CallState
<1>2. /\ new \in CallState /\ new.inner = rec.inner /\ new.from = rec.from /\ new.to = rec.to
      /\ new.at = IF run.at \in Awaits THEN "rollback" ELSE "idle"
      /\ new.back = Waiting(run)
  BY <1>1, WaitingType DEF CallState
<1>3. call'[c] = Tidy(new) /\ adapters' = run.adapters /\ active' = run.active
  BY DEF BackReaches, Moves
<1>4. rec.from # rec.to
  BY DEF Threads
<1> HIDE DEF new
<1>5. Threads(new)
  BY <1>2, WaitingType DEF Threads, Waiting
<1>6. CASE run.at \in Awaits
  <2>1. machine' = "switching" /\ run.at \in {"stop", "init", "start"} /\ new.back = run.at
    BY <1>1, <1>2, <1>6, WaitingType DEF BackReaches, Waiting
  <2>2. AtWork(new, s)
    BY <1>1, <1>2, <1>4, <1>6, <2>1 DEF AtWork, StopsGhostty, Heard
  <2>3. Holds(new, s)
    BY <1>2, <1>6, <2>2 DEF Holds
  <2> QED
    BY <1>2, <1>3, <1>5, <2>1, <2>3, TidyHolds DEF LoudAfter
<1>7. CASE run.at \notin Awaits
  <2>1. run.at \in {"done", "failed"} /\ new.back = "none" /\ new.at = "idle"
    BY <1>2, <1>7, WaitingType DEF Reached, Awaits
  <2>2. run.at = "failed" => machine' = "errored"
    BY <1>1, <1>7 DEF BackReaches, Transitions
  <2>3. run.at = "done" => /\ Holds(new, s)
                           /\ run.adapters[run.active].state = "running"
                           /\ run.adapters[run.active].process = "live"
    BY <1>2, <2>1 DEF Holds, StopsGhostty, Heard
  <2> QED
    BY <1>2, <1>3, <1>5, <2>1, <2>2, <2>3, TidyHolds DEF LoudAfter
<1> QED
  BY <1>6, <1>7

LEMMA RollBackLoud ==
  ASSUME NEW c \in Calls, NEW rec \in CallState, NEW run \in Run("switching"),
         NEW spawns \in BOOLEAN, call \in [Calls -> CallState], RollBack(c, rec, run, spawns),
         Threads(rec),
         rec.inner = "stop" /\ rec.from = Ghostty =>
           run.adapters[Ghostty].state \in {"stopping", "running"}
  PROVE  LoudAfter(c)
<1> DEFINE back == Replace(run, rec.to, rec.from, spawns)
           g == run.adapters[Ghostty].state
<1>1. rec.from \in Renderers /\ rec.to \in Renderers
  BY DEF CallState
<1>2. back \in Run("switching") /\ back.at \in Reached
  BY <1>1, ReplaceType
<1>3. Heard(back, g, rec.to, rec.from, FALSE)
  BY <1>1, ReplaceHeard
<1>4. back.at \in {"init", "start"} => rec.from = Ghostty
  BY <1>1, ReplaceNotes
<1>5. BackReaches(c, rec, back)
  BY DEF RollBack
<1> HIDE DEF back
<1> QED
  BY <1>2, <1>3, <1>4, <1>5, BackReachesLoud

LEMMA InnerReachesLoud ==
  ASSUME NEW c \in Calls, NEW rec \in CallState, NEW run \in Run("switching"),
         run.at \in Reached, NEW again \in BOOLEAN, call \in [Calls -> CallState],
         rec.at = "switch", rec.back = "none", InnerReaches(c, rec, run, again),
         Threads(rec), NEW g, NEW ready \in BOOLEAN,
         Heard(run, g, rec.from, rec.to, ready),
         run.at \in {"init", "start"} => rec.to = Ghostty
  PROVE  LoudAfter(c)
<1> DEFINE moved == [rec EXCEPT !.inner = Waiting(run), !.streams = run.streams]
           won == [moved EXCEPT !.at = "idle"]
           s == run.adapters[Ghostty].state
<1>1. rec.from \in Renderers /\ rec.to \in Renderers /\ run.streams \in Streams
      /\ run.machine = "switching" /\ rec.from # rec.to
  BY DEF Run, CallState, Threads
<1>2. /\ moved \in CallState /\ moved.at = "switch" /\ moved.inner = Waiting(run)
      /\ moved.from = rec.from /\ moved.to = rec.to /\ moved.back = "none"
  BY <1>1, WaitingType DEF CallState
<1>3. won \in CallState /\ won.at = "idle" /\ won.inner = Waiting(run) /\ won.back = "none"
      /\ won.from = rec.from /\ won.to = rec.to
  BY <1>2 DEF CallState
<1>4. [moved EXCEPT !.at = @] = moved
  BY <1>2 DEF CallState
<1>5. CASE run.at = "failed"
  <2>1. RollBack(c, moved, run, again)
    BY <1>5 DEF InnerReaches
  <2>2. moved.inner = "none"
    BY <1>2, <1>5, WaitingType
  <2> HIDE DEF moved
  <2>3. Threads(moved)
    BY <1>1, <1>2, <2>2 DEF Threads
  <2> QED
    BY <1>2, <2>1, <2>2, <2>3, RollBackLoud
<1>6. CASE run.at = "done"
  <2>1. call' = [call EXCEPT ![c] = Tidy(won)] /\ Moves(run)
    BY <1>6 DEF InnerReaches
  <2>2. won.inner = "none"
    BY <1>3, <1>6, WaitingType
  <2> HIDE DEF won
  <2>3. Threads(won) /\ Holds(won, s)
    BY <1>1, <1>3, <2>2 DEF Threads, Holds, StopsGhostty
  <2>4. /\ run.adapters[run.active].state = "running"
        /\ run.adapters[run.active].process = "live"
    BY <1>6 DEF Heard
  <2> QED
    BY <1>3, <2>1, <2>3, <2>4, TidyHolds DEF LoudAfter, Moves
<1>7. CASE run.at \in Awaits
  <2>1. call' = [call EXCEPT ![c] = Tidy(moved)] /\ machine' = "switching" /\ Moves(run)
    BY <1>1, <1>4, <1>7, WaitingType DEF InnerReaches
  <2>2. moved.inner = run.at /\ run.at \in {"stop", "init", "start"}
    BY <1>2, <1>7, WaitingType DEF Waiting
  <2> HIDE DEF moved
  <2>3. Threads(moved)
    BY <1>1, <1>2, <2>2 DEF Threads
  <2>4. AtWork(moved, s)
    BY <1>1, <1>2, <2>2 DEF AtWork, Heard
  <2>5. Holds(moved, s)
    BY <1>2, <2>4 DEF Holds
  <2> QED
    BY <1>2, <2>1, <2>3, <2>5, TidyHolds DEF LoudAfter, Moves
<1> QED
  BY <1>5, <1>6, <1>7, WaitingType DEF Reached

(* A thread nobody waits for leaves its own call as it may be. *)
LEMMA StrayInnerLoud ==
  ASSUME NEW c \in Calls, NEW rec \in CallState, NEW m, NEW run \in Run(m),
         run.at \in Reached, NEW again \in BOOLEAN, call \in [Calls -> CallState],
         rec.at # "switch", RecOK(rec), rec.inner # "none", InnerReaches(c, rec, run, again),
         Threads(rec), run.at # "stop", run.at \in {"init", "start"} => rec.to = Ghostty
  PROVE  /\ Threads(call'[c])
         /\ \A g, s : Holds(rec, g) => Holds(call'[c], s)
<1> DEFINE moved == [rec EXCEPT !.inner = Waiting(run), !.streams = run.streams]
<1>1. run.streams \in Streams /\ rec.from # rec.to
  BY DEF Run, Threads
<1>2. /\ moved \in CallState /\ moved.at = rec.at /\ moved.inner = Waiting(run)
      /\ moved.from = rec.from /\ moved.to = rec.to /\ moved.back = rec.back
  BY <1>1, WaitingType DEF CallState
<1>3. [moved EXCEPT !.at = @] = moved
  BY <1>2 DEF CallState
<1>4. call' = [call EXCEPT ![c] = Tidy(moved)]
  BY <1>3 DEF InnerReaches
<1> HIDE DEF moved
<1>5. Waiting(run) # "stop" /\ (Waiting(run) \in {"init", "start"} => rec.to = Ghostty)
  BY DEF Waiting
<1>6. Threads(moved)
  BY <1>1, <1>2, <1>5 DEF Threads
<1>7. ASSUME NEW g, NEW s, Holds(rec, g) PROVE Holds(moved, s)
  <2>1. CASE rec.at = "idle"
    BY <1>2, <1>5, <2>1 DEF Holds, StopsGhostty, RecOK
  <2>2. CASE rec.at = "rollback"
    <3>1. rec.inner \in {"stop", "init", "start"}
      BY DEF CallState, Awaits
    <3>2. rec.back \notin {"init", "start"}
      BY <1>1, <1>7, <2>2, <3>1 DEF Holds, AtWork, StopsGhostty, Threads
    <3> QED
      BY <1>2, <1>5, <2>2, <3>2 DEF Holds, AtWork
  <2> QED
    BY <2>1, <2>2 DEF CallState
<1> QED
  BY <1>2, <1>4, <1>6, <1>7, TidyHolds

(* ReturnsWithOneShown, of one step. *)
Returns ==
  machine = "switching" /\ machine' = "running" /\ crashes = 0 =>
    adapters'[active'].state = "running" /\ adapters'[active'].process = "live"

LEMMA LoudAfterKeeps ==
  ASSUME IInv, Loud, NEW c \in Calls, Leaves(c),
         machine # "errored", \A d \in Calls \ {c} : call[d].at = "idle",
         crashes' = crashes, crashes = 0 => LoudAfter(c)
  PROVE  Loud' /\ Returns
<1>1. SUFFICES ASSUME crashes = 0 PROVE Loud' /\ Returns
  BY DEF Loud, Returns
<1> DEFINE g == adapters[Ghostty].state
<1>2. ASSUME NEW d \in Calls, d # c
      PROVE  Threads(call'[d]) /\ Holds(call'[d], g')
  <2>1. call'[d] = call[d] /\ call[d].at = "idle" /\ Threads(call[d]) /\ Holds(call[d], g)
    BY <1>1, <1>2 DEF Leaves, Loud
  <2> HIDE DEF g
  <2> QED
    BY <2>1 DEF Holds
<1>3. \A d \in Calls : Threads(call'[d]) /\ (machine' # "errored" => Holds(call'[d], g'))
  BY <1>1, <1>2 DEF LoudAfter
<1>4. Loud'
  BY <1>3 DEF Loud, Threads, Holds, AtWork, StopsGhostty
<1> QED
  BY <1>1, <1>4 DEF LoudAfter, Returns

LEMMA CallLoud ==
  ASSUME IInv, Loud, NEW c \in Calls, NEW to \in Renderers, NEW s \in Streams, Call(c, to, s)
  PROVE  Loud' /\ Returns
<1>1. /\ machine = "running" /\ \A d \in Calls : call[d].at = "idle"
      /\ active \in Renderers /\ to # active
      /\ UNCHANGED <<falling, late, crashes, timedOut>>
  BY CallRuns
<1>2. PICK rec \in CallState, run \in Run("switching"), spawns \in BOOLEAN, again \in BOOLEAN :
        /\ rec.at = "switch" /\ rec.inner = "none" /\ rec.back = "none"
        /\ rec.from = active /\ rec.to = to
        /\ InnerReaches(c, rec, Replace(run, active, to, spawns), again)
  BY CallRuns
<1> DEFINE out == Replace(run, active, to, spawns)
<1>3. out \in Run("switching") /\ out.at \in Reached
  BY <1>1, ReplaceType
<1>4. Heard(out, run.adapters[Ghostty].state, active, to, FALSE)
  BY <1>1, ReplaceHeard
<1>5. out.at \in {"init", "start"} => to = Ghostty
  BY <1>1, ReplaceNotes
<1>6. Threads(rec)
  BY <1>1, <1>2 DEF Threads
<1> HIDE DEF out
<1>7. Leaves(c) /\ LoudAfter(c)
  BY <1>2, <1>3, <1>4, <1>5, <1>6, InnerTurns, InnerReachesLoud DEF IInv, TypeOK, out
<1> QED
  BY <1>1, <1>7, LoudAfterKeeps

LEMMA InnerResumesLoud ==
  ASSUME IInv, Loud, NEW c \in Calls, InnerResumes(c)
  PROVE  Loud' /\ Returns
<1> DEFINE rec == call[c]
           label == rec.inner
           start == RunOf(rec, label)
           g == adapters[Ghostty].state
<1>1. rec \in CallState /\ RecOK(rec) /\ label \in {"stop", "init", "start"}
  BY DEF IInv, TypeOK, RecsOK, InnerResumes, CallState, Awaits
<1>2. start \in Run(machine) /\ start.at = label /\ start.adapters = adapters
  BY <1>1, RunOfType DEF IInv, Labels, RunOf
<1> HIDE DEF start
<1>3. PICK spawns \in BOOLEAN, again \in BOOLEAN :
        InnerReaches(c, rec, Resume(start, rec.from, rec.to, spawns), again)
  BY DEF InnerResumes, start
<1> DEFINE run == Resume(start, rec.from, rec.to, spawns)
<1>4. rec.from \in Renderers /\ rec.to \in Renderers
  BY <1>1 DEF CallState
<1>5. UNCHANGED <<falling, late, crashes, timedOut>>
  BY DEF InnerResumes
<1>6. crashes = 0 => Threads(rec) /\ (machine # "errored" => Holds(rec, g))
  BY DEF Loud
<1> HIDE DEF rec, g
<1>7. run \in Run(machine) /\ run.at \in Reached
      /\ run.at # "stop" /\ (run.at \in {"init", "start"} => rec.to = Ghostty)
  BY <1>1, <1>2, <1>4, ResumeType, ResumeNotes
<1>8. CASE rec.at = "switch"
  <2>1. machine = "switching" /\ \A d \in Calls \ {c} : call[d].at = "idle"
    BY <1>8 DEF rec, IInv, OneSwitch
  <2>2. Leaves(c)
    BY <1>1, <1>3, <1>7, <1>8, <2>1, InnerTurns DEF IInv, TypeOK, RecOK
  <2>3. ASSUME crashes = 0 PROVE LoudAfter(c)
    <3>1. label = "start" => adapters[rec.to].state = "running"
      BY <1>6, <1>8, <2>1, <2>3 DEF Threads, Holds, AtWork, g
    <3>2. Heard(run, start.adapters[Ghostty].state, rec.from, rec.to, label # "stop")
      BY <1>1, <1>2, <1>4, <3>1, ResumeHeard
    <3> HIDE DEF run
    <3> QED
      BY <1>1, <1>3, <1>6, <1>7, <1>8, <2>1, <2>3, <3>2, InnerReachesLoud
         DEF run, IInv, TypeOK, RecOK
  <2> QED
    BY <1>5, <2>1, <2>2, <2>3, LoudAfterKeeps
<1>9. CASE rec.at # "switch"
  <2>1. Leaves(c) /\ machine' = machine
    BY <1>1, <1>3, <1>7, <1>9, StrayInnerMoves DEF IInv, TypeOK
  <2>2. Returns
    BY <2>1 DEF Returns
  <2>3. SUFFICES ASSUME crashes = 0
                 PROVE  \A d \in Calls :
                          /\ Threads(call'[d])
                          /\ machine # "errored" => Holds(call'[d], g')
    BY <1>5, <2>1, <2>2 DEF Loud, Threads, Holds, AtWork, StopsGhostty, g
  <2>4. /\ Threads(call'[c])
        /\ machine # "errored" => Holds(call'[c], g')
    BY <1>1, <1>3, <1>6, <1>7, <1>9, <2>3, StrayInnerLoud DEF IInv, TypeOK
  <2>5. ASSUME NEW d \in Calls, d # c
        PROVE  Threads(call'[d]) /\ (machine # "errored" => Holds(call'[d], g'))
    <3>1. /\ call'[d] = call[d] /\ Threads(call[d])
          /\ machine # "errored" => Holds(call[d], g)
      BY <2>1, <2>3, <2>5 DEF Leaves, Loud, g
    <3>2. ASSUME machine # "errored" PROVE Holds(call[d], g')
      <4>1. CASE call[d].at = "idle"
        BY <3>1, <3>2, <4>1 DEF Holds
      <4>2. CASE call[d].at # "idle"
        <5>1. rec.at = "idle"
          BY <2>5, <4>2 DEF IInv, OneSwitch, rec
        <5>2. rec.from # Ghostty /\ rec.to = Ghostty
          BY <1>1, <1>4, <1>6, <2>3, <3>2, <5>1 DEF Holds, StopsGhostty, Threads, Renderers
        <5>3. Calm(run, g)
          BY <1>1, <1>2, <1>4, <5>2, ResumeCalm DEF g
        <5>4. adapters' = run.adapters
          BY <1>3, <1>9 DEF InnerReaches, Moves
        <5>5. \/ g' \in {g, "running"}
              \/ g' = "initializing" /\ g \in {"uninitialized", "stopped", "errored"}
          BY <5>3, <5>4 DEF Calm, g
        <5>6. AtWork(call[d], g)
          BY <3>1, <3>2, <4>2 DEF Holds
        <5>7. AtWork(call[d], g')
          BY <5>5, <5>6 DEF AtWork
        <5> QED
          BY <4>2, <5>7 DEF Holds
      <4> QED
        BY <4>1, <4>2
    <3> QED
      BY <3>1, <3>2
  <2> QED
    BY <2>4, <2>5
<1> QED
  BY <1>8, <1>9

LEMMA BackResumesLoud ==
  ASSUME IInv, Loud, NEW c \in Calls, BackResumes(c)
  PROVE  Loud' /\ Returns
<1> DEFINE rec == call[c]
           label == rec.back
           start == RunOf(rec, label)
           g == adapters[Ghostty].state
<1>1. rec \in CallState /\ RecOK(rec) /\ label \in {"stop", "init", "start"}
  BY DEF IInv, TypeOK, RecsOK, BackResumes, CallState, Awaits
<1>2. rec.at = "rollback"
  BY <1>1 DEF RecOK, CallState
<1>3. machine = "switching" /\ \A d \in Calls \ {c} : call[d].at = "idle"
  BY <1>2 DEF IInv, OneSwitch
<1>4. start \in Run("switching") /\ start.at = label /\ start.adapters = adapters
  BY <1>1, <1>3, RunOfType DEF IInv, Labels, RunOf
<1> HIDE DEF start
<1>5. PICK spawns \in BOOLEAN :
        BackReaches(c, rec, Resume(start, rec.to, rec.from, spawns))
  BY DEF BackResumes, start
<1> DEFINE run == Resume(start, rec.to, rec.from, spawns)
<1>6. rec.from \in Renderers /\ rec.to \in Renderers
  BY <1>1 DEF CallState
<1>7. UNCHANGED <<falling, late, crashes, timedOut>>
  BY DEF BackResumes
<1>8. crashes = 0 => Threads(rec) /\ AtWork(rec, g)
  BY <1>2, <1>3 DEF Loud, Holds
<1> HIDE DEF rec, g
<1>9. run \in Run("switching") /\ run.at \in Reached
      /\ (run.at \in {"init", "start"} => rec.from = Ghostty)
  BY <1>1, <1>4, <1>6, ResumeType, ResumeNotes
<1>10. Leaves(c)
  BY <1>1, <1>5, <1>9, BackReachesTurns DEF IInv, TypeOK
<1>11. ASSUME crashes = 0 PROVE LoudAfter(c)
  <2>1. label = "start" => adapters[rec.from].state = "running"
    BY <1>2, <1>8, <1>11 DEF Threads, AtWork, g
  <2>2. Heard(run, g, rec.to, rec.from, label # "stop")
    BY <1>1, <1>4, <1>6, <2>1, ResumeHeard DEF g
  <2>3. rec.inner = "stop" /\ rec.from = Ghostty =>
          label = "stop" /\ g \in {"stopping", "running"}
    BY <1>1, <1>2, <1>8, <1>11 DEF AtWork, StopsGhostty
  <2> HIDE DEF run
  <2> QED
    BY <1>1, <1>5, <1>8, <1>9, <1>11, <2>2, <2>3, BackReachesLoud DEF run, IInv, TypeOK
<1> QED
  BY <1>3, <1>7, <1>10, <1>11, LoudAfterKeeps

LEMMA TimesOutLoud ==
  ASSUME IInv, Loud, NEW c \in Calls, TimesOut(c)
  PROVE  Loud' /\ Returns
<1> DEFINE rec == call[c]
           run == RunOf(rec, "failed")
<1>1. rec \in CallState /\ rec.at = "switch"
  BY DEF IInv, TypeOK, TimesOut
<1>2. machine = "switching" /\ \A d \in Calls \ {c} : call[d].at = "idle"
  BY <1>1 DEF IInv, OneSwitch
<1>3. run \in Run("switching") /\ run.adapters = adapters
  BY <1>1, <1>2, RunOfType DEF IInv, Labels, RunOf
<1>4. PICK spawns \in BOOLEAN : RollBack(c, rec, run, spawns)
  BY DEF TimesOut
<1>5. crashes = 0 => Threads(rec) /\ AtWork(rec, adapters[Ghostty].state)
  BY <1>1, <1>2 DEF Loud, Holds
<1> HIDE DEF rec, run
<1>6. Leaves(c)
  BY <1>1, <1>3, <1>4, RollBackTurns DEF IInv, TypeOK
<1>7. ASSUME crashes = 0 PROVE LoudAfter(c)
  <2>1. rec.inner = "stop" /\ rec.from = Ghostty =>
          run.adapters[Ghostty].state \in {"stopping", "running"}
    BY <1>3, <1>5, <1>7 DEF AtWork
  <2> QED
    BY <1>1, <1>3, <1>4, <1>5, <1>7, <2>1, RollBackLoud DEF IInv, TypeOK
<1>8. crashes' = crashes
  BY DEF TimesOut
<1> QED
  BY <1>2, <1>6, <1>7, <1>8, LoudAfterKeeps

LEMMA LoudKeeps == IInv /\ NoFall /\ Loud /\ [Next]_vars => Loud' /\ Returns
<1> SUFFICES ASSUME IInv, NoFall, Loud, [Next]_vars PROVE Loud' /\ Returns
  OBVIOUS
<1>1. ASSUME GhosttyCrashes \/ RioCrashes PROVE Loud' /\ Returns
  <2>1. crashes' # 0 /\ machine' = machine
    BY <1>1, CrashesAssumption DEF IInv, TypeOK, GhosttyCrashes, RioCrashes
  <2> QED
    BY <2>1 DEF Loud, Returns
<1>2. ASSUME FallbackEnds \/ FallbackTimesOut \/ LateInitEnds PROVE Loud' /\ Returns
  <2>1. crashes' = crashes /\ crashes # 0
    BY <1>2 DEF FallbackEnds, FallbackTimesOut, LateInitEnds, NoFall
  <2> QED
    BY <2>1 DEF Loud, Returns
<1>3. ASSUME UNCHANGED vars PROVE Loud' /\ Returns
  BY <1>3 DEF vars, Loud, Returns, Threads, Holds, AtWork, StopsGhostty
<1> QED
  BY <1>1, <1>2, <1>3, CallLoud, InnerResumesLoud, BackResumesLoud, TimesOutLoud DEF Next

LEMMA InitLoud == Init => Loud
BY RenderersAssumption DEF Init, Loud, Threads, Holds, StopsGhostty, NoCall

(* A switch or a rollback that returns to "running" leaves the active          *)
(* renderer running with a live process, whatever threads were given up        *)
(* before it and still go on, unless a process crashed.                        *)
THEOREM ReturnsShown == Spec => ReturnsWithOneShown
<1>1. Init => NoFall
  BY DEF Init, NoFall
<1>2. Returns => (machine = "switching" /\ machine' = "running" /\ crashes = 0 =>
                    adapters'[active'].state = "running" /\ adapters'[active'].process = "live")
  BY DEF Returns
<1> QED
  BY Invariant, <1>1, InitLoud, NoFallKeeps, LoudKeeps, <1>2, PTL DEF Spec, ReturnsWithOneShown

-------------------------------------------------------------------------------
(* 6. The switch transaction. It raises and stops the renderers with the     *)
(* same operations.                                                          *)

(* A run of the transaction, and where it may stand. *)
SwapRun == [adapters : [Renderers -> Adapter], buffering : BOOLEAN,
            output : {"none", "held", "shown", "lost"}, at : Labels \cup {"restored"}]

(* What becomes of the output: it is held until the transaction ends. *)
Carried(run, to) ==
  CASE run.at = "done" -> /\ ~run.buffering
                          /\ to = Ghostty => run.output \notin {"held", "lost"}
    [] run.at = "restored" -> ~run.buffering
    [] OTHER -> run.output \in {"none", "held"}

(* What becomes of the renderers: the target comes up beside the source. *)
Beside(run, from, to) ==
  LET a == run.adapters[from]
      b == run.adapters[to]
  IN CASE run.at \in {"init", "failed"} -> Lit(a) /\ Dark(b)
       [] run.at \in {"inited", "start"} -> Lit(a) /\ Dark(b) /\ b.state = "running"
       [] run.at = "started" -> Lit(a) /\ Lit(b)
       [] run.at = "stop" -> Going(a) /\ Lit(b)
       [] run.at \in {"stopped", "done"} -> Dark(a) /\ a.state \in AtRest /\ Lit(b)
       [] run.at = "restored" -> Lit(a) /\ Dark(b) /\ b.state \in AtRest

(* The run goes from "run" to "out" as both say. *)
Steps(run, out, from, to) ==
  /\ out \in SwapRun
  /\ Carried(out, to)
  /\ Beside(run, from, to) => Beside(out, from, to)

LEMMA SwapAt ==
  ASSUME NEW run \in SwapRun, NEW r \in Renderers
  PROVE  /\ run.adapters[r] \in Adapter
         /\ \A a \in Adapter, l \in Labels \cup {"restored"} :
              /\ At(run, r, a, l) \in SwapRun
              /\ At(run, r, a, l).adapters[r] = a
              /\ \A q \in Renderers \ {r} : At(run, r, a, l).adapters[q] = run.adapters[q]
              /\ At(run, r, a, l).at = l
              /\ At(run, r, a, l).output = run.output
              /\ At(run, r, a, l).buffering = run.buffering
BY DEF At, SwapRun

LEMMA RaisedAt ==
  ASSUME NEW run \in SwapRun, NEW to \in Renderers, NEW from \in Renderers \ {to},
         NEW b \in Adapter, NEW l \in Labels
  PROVE  LET next == At(run, to, b, l)
         IN /\ next \in SwapRun /\ next.at = l /\ next.adapters[to] = b
            /\ next.adapters[from] = run.adapters[from] /\ next.output = run.output
BY SwapAt

LEMMA StopBufferingFacts ==
  ASSUME NEW run \in SwapRun, NEW r \in Renderers
  PROVE  LET out == StopBuffering(run, r)
             a == run.adapters[r]
             b == out.adapters[r]
         IN /\ out \in SwapRun /\ out.at \in {"done", "failed"}
            /\ \A q \in Renderers \ {r} : out.adapters[q] = run.adapters[q]
            /\ b.state = a.state /\ b.process = a.process /\ b.stray = a.stray
            /\ a.state = "running" => out.at = "done"
            /\ out.at = "done" =>
                 /\ ~out.buffering
                 /\ run.output \in {"none", "held"} /\ r = Ghostty =>
                      out.output \notin {"held", "lost"}
            /\ out.at = "failed" => out.output = run.output
<1> DEFINE a == run.adapters[r]
           b == [a EXCEPT !.bound = r = Ghostty \/ run.output # "held"]
           won == At(run, r, b, "done")
           o == Flushed(r, run.output)
           out == [won EXCEPT !.buffering = FALSE, !.output = Flushed(r, @)]
<1>1. a \in Adapter /\ {"done", "failed"} \subseteq Labels
  BY SwapAt DEF Labels
<1>2. b \in Adapter /\ b.state = a.state /\ b.process = a.process /\ b.stray = a.stray
  BY <1>1 DEF Adapter
<1>3. StopBuffering(run, r) = IF Binds(r, a) THEN out ELSE At(run, r, a, "failed")
  BY DEF StopBuffering
<1> HIDE DEF a, b
<1>4. /\ won \in SwapRun /\ won.adapters[r] = b /\ won.output = run.output /\ won.at = "done"
      /\ \A q \in Renderers \ {r} : won.adapters[q] = run.adapters[q]
  BY <1>1, <1>2, SwapAt
<1>5. /\ At(run, r, a, "failed") \in SwapRun /\ At(run, r, a, "failed").adapters[r] = a
      /\ At(run, r, a, "failed").at = "failed" /\ At(run, r, a, "failed").output = run.output
      /\ \A q \in Renderers \ {r} : At(run, r, a, "failed").adapters[q] = run.adapters[q]
  BY <1>1, SwapAt
<1> HIDE DEF won
<1>6. /\ o \in {"none", "held", "shown", "lost"}
      /\ run.output \in {"none", "held"} /\ r = Ghostty => o \notin {"held", "lost"}
  BY DEF Flushed, SwapRun
<1>7. out = [won EXCEPT !.buffering = FALSE, !.output = o]
  BY <1>4 DEF SwapRun
<1> HIDE DEF o, out
<1>8. out \in SwapRun /\ out.adapters = won.adapters /\ out.at = "done" /\ ~out.buffering
      /\ out.output = o
  BY <1>4, <1>6, <1>7 DEF SwapRun
<1>9. a.state = "running" => Binds(r, a)
  BY DEF Binds
<1>10. CASE Binds(r, a)
  BY <1>2, <1>3, <1>4, <1>6, <1>8, <1>10 DEF a
<1>11. CASE ~Binds(r, a)
  BY <1>3, <1>5, <1>9, <1>11 DEF a
<1> QED
  BY <1>10, <1>11

LEMMA HandOverSteps ==
  ASSUME NEW run \in SwapRun, NEW to \in Renderers, NEW from \in Renderers \ {to},
         run.at \in {"stop", "stopped"}, Carried(run, to)
  PROVE  LET out == HandOver(run, to)
         IN out.at \in Reached /\ Steps(run, out, from, to)
<1> DEFINE out == StopBuffering(run, to)
<1>1. CASE run.at = "stopped"
  <2>1. HandOver(run, to) = out
    BY <1>1 DEF HandOver
  <2>2. run.output \in {"none", "held"}
    BY <1>1 DEF Carried
  <2>3. /\ out \in SwapRun /\ out.at \in {"done", "failed"}
        /\ out.adapters[from] = run.adapters[from]
        /\ Lit(run.adapters[to]) => Lit(out.adapters[to]) /\ out.at = "done"
        /\ out.at = "done" => ~out.buffering /\ (to = Ghostty => out.output \notin {"held", "lost"})
        /\ out.at = "failed" => out.output \in {"none", "held"}
    BY <2>2, StopBufferingFacts DEF Lit
  <2> HIDE DEF out
  <2>4. Carried(out, to)
    BY <2>3 DEF Carried
  <2>5. Beside(run, from, to) => Beside(out, from, to)
    BY <1>1, <2>3 DEF Beside
  <2> QED
    BY <2>1, <2>3, <2>4, <2>5 DEF Steps, Reached
<1>2. CASE run.at = "stop"
  <2>1. HandOver(run, to) = run
    BY <1>2 DEF HandOver
  <2> QED
    BY <1>2, <2>1 DEF Steps, Reached
<1> QED
  BY <1>1, <1>2

LEMMA AfterStartSteps ==
  ASSUME NEW run \in SwapRun, NEW to \in Renderers, NEW from \in Renderers \ {to},
         run.at \in {"start", "started", "failed"}, Carried(run, to)
  PROVE  LET out == AfterTargetStart(run, from, to)
         IN out.at \in Reached /\ Steps(run, out, from, to)
<1>1. CASE run.at = "started"
  <2> DEFINE next == Stop(run, from)
  <2>1. AfterTargetStart(run, from, to) = HandOver(next, to)
    BY <1>1 DEF AfterTargetStart
  <2>2. run.adapters[from] \in Adapter /\ {"stop", "stopped"} \subseteq Labels
    BY SwapAt DEF Labels
  <2>3. PICK b \in Adapter, l \in {"stop", "stopped"} :
          /\ next = At(run, from, b, l)
          /\ Lit(run.adapters[from]) => l = "stop" /\ Going(b)
    BY <2>2, StopAt
  <2> HIDE DEF next
  <2>4. /\ next \in SwapRun /\ next.at = l /\ next.adapters[from] = b
        /\ next.adapters[to] = run.adapters[to] /\ next.output = run.output
    BY <2>2, <2>3, SwapAt
  <2>5. Carried(next, to)
    BY <1>1, <2>4 DEF Carried
  <2>6. Beside(run, from, to) => Beside(next, from, to)
    BY <1>1, <2>3, <2>4 DEF Beside
  <2> QED
    BY <2>1, <2>4, <2>5, <2>6, HandOverSteps DEF Steps
<1>2. CASE run.at # "started"
  <2>1. AfterTargetStart(run, from, to) = run
    BY <1>2 DEF AfterTargetStart
  <2> QED
    BY <1>2, <2>1 DEF Steps, Reached
<1> QED
  BY <1>1, <1>2

LEMMA AfterInitSteps ==
  ASSUME NEW run \in SwapRun, NEW to \in Renderers, NEW from \in Renderers \ {to},
         NEW spawns \in BOOLEAN, run.at \in {"init", "inited", "failed"}, Carried(run, to)
  PROVE  LET out == AfterTargetInit(run, from, to, spawns)
         IN out.at \in Reached /\ Steps(run, out, from, to)
<1>1. CASE run.at = "inited"
  <2> DEFINE next == Start(run, to, spawns)
  <2>1. AfterTargetInit(run, from, to, spawns) = AfterTargetStart(next, from, to)
    BY <1>1 DEF AfterTargetInit
  <2>2. run.adapters[to] \in Adapter /\ {"start", "started", "failed"} \subseteq Labels
    BY SwapAt DEF Labels
  <2>3. PICK b \in Adapter, l \in {"start", "started", "failed"} :
          /\ next = At(run, to, b, l)
          /\ b.state = run.adapters[to].state
          /\ Dark(run.adapters[to]) /\ l = "started" => Lit(b)
          /\ Dark(run.adapters[to]) /\ l # "started" => Dark(b)
    BY <2>2, StartAt
  <2> HIDE DEF next
  <2>4. /\ next \in SwapRun /\ next.at = l /\ next.adapters[to] = b
        /\ next.adapters[from] = run.adapters[from] /\ next.output = run.output
    BY <2>2, <2>3, RaisedAt
  <2>5. Carried(next, to)
    BY <1>1, <2>4 DEF Carried
  <2>6. Beside(run, from, to) => Beside(next, from, to)
    BY <1>1, <2>3, <2>4 DEF Beside
  <2> QED
    BY <2>1, <2>4, <2>5, <2>6, AfterStartSteps DEF Steps
<1>2. CASE run.at # "inited"
  <2>1. AfterTargetInit(run, from, to, spawns) = run
    BY <1>2 DEF AfterTargetInit
  <2> QED
    BY <1>2, <2>1 DEF Steps, Reached
<1> QED
  BY <1>1, <1>2

(* executeHotSwap, with the source shown and the target dark. *)
LEMMA SwapSteps ==
  ASSUME NEW run \in SwapRun, NEW to \in Renderers, NEW from \in Renderers \ {to},
         NEW spawns \in BOOLEAN, run.output = "none", run.at = "failed"
  PROVE  LET out == Swap(run, from, to, spawns)
         IN out.at \in Reached /\ Steps(run, out, from, to)
<1> DEFINE begun == StartBuffering(run)
           next == InitRenderer(begun, to)
<1>1. begun \in SwapRun /\ begun.output = "none" /\ begun.adapters = run.adapters
  BY DEF StartBuffering, Forgotten, SwapRun
<1>2. Swap(run, from, to, spawns) = AfterTargetInit(next, from, to, spawns)
  BY DEF Swap
<1> HIDE DEF begun
<1>3. begun.adapters[to] \in Adapter /\ {"init", "inited", "failed"} \subseteq Labels
  BY <1>1, SwapAt DEF Labels
<1>4. PICK b \in Adapter, l \in {"init", "inited", "failed"} :
        /\ next = At(begun, to, b, l)
        /\ l = "inited" => b.state = "running"
        /\ Dark(begun.adapters[to]) => Dark(b)
  BY <1>3, InitAt
<1> HIDE DEF next
<1>5. /\ next \in SwapRun /\ next.at = l /\ next.adapters[to] = b
      /\ next.adapters[from] = begun.adapters[from] /\ next.output = begun.output
  BY <1>1, <1>3, <1>4, RaisedAt
<1>6. Carried(next, to)
  BY <1>1, <1>5 DEF Carried
<1>7. Beside(run, from, to) => Beside(next, from, to)
  BY <1>1, <1>4, <1>5 DEF Beside
<1> QED
  BY <1>2, <1>5, <1>6, <1>7, AfterInitSteps DEF Steps

LEMMA SwapResumeSteps ==
  ASSUME NEW run \in SwapRun, NEW to \in Renderers, NEW from \in Renderers \ {to},
         NEW spawns \in BOOLEAN, run.at \in {"init", "start", "stop"}, Carried(run, to)
  PROVE  LET out == ResumeSwap(run, from, to, spawns)
         IN out.at \in Reached /\ Steps(run, out, from, to)
<1>1. run.output \in {"none", "held"}
  BY DEF Carried
<1>2. run.adapters[to] \in Adapter /\ run.adapters[from] \in Adapter
      /\ {"inited", "started", "failed", "stopped"} \subseteq Labels
  BY SwapAt DEF Labels
<1>3. CASE run.at = "init"
  <2> DEFINE next == InitDone(run, to)
  <2>1. ResumeSwap(run, from, to, spawns) = AfterTargetInit(next, from, to, spawns)
    BY <1>3 DEF ResumeSwap
  <2>2. PICK b \in Adapter : /\ next = At(run, to, b, "inited")
                             /\ b.state = "running"
                             /\ Dark(run.adapters[to]) => Dark(b)
    BY <1>2, InitDoneAt
  <2> HIDE DEF next
  <2>3. /\ next \in SwapRun /\ next.at = "inited" /\ next.adapters[to] = b
        /\ next.adapters[from] = run.adapters[from] /\ next.output = run.output
    BY <1>2, <2>2, RaisedAt
  <2>4. Carried(next, to)
    BY <1>1, <2>3 DEF Carried
  <2>5. Beside(run, from, to) => Beside(next, from, to)
    BY <1>3, <2>2, <2>3 DEF Beside
  <2> QED
    BY <2>1, <2>3, <2>4, <2>5, AfterInitSteps DEF Steps
<1>4. CASE run.at = "start"
  <2> DEFINE next == StartDone(run, to, spawns)
  <2>1. ResumeSwap(run, from, to, spawns) = AfterTargetStart(next, from, to)
    BY <1>4 DEF ResumeSwap
  <2>2. PICK b \in Adapter, l \in {"started", "failed"} :
          /\ next = At(run, to, b, l)
          /\ b.state = run.adapters[to].state
          /\ l = "started" => b.process = "live" /\ (Dark(run.adapters[to]) => ~b.stray)
          /\ l = "failed" => b = run.adapters[to]
    BY <1>2, StartDoneAt
  <2> HIDE DEF next
  <2>3. /\ next \in SwapRun /\ next.at = l /\ next.adapters[to] = b
        /\ next.adapters[from] = run.adapters[from] /\ next.output = run.output
    BY <1>2, <2>2, RaisedAt
  <2>4. Carried(next, to)
    BY <1>1, <2>3 DEF Carried
  <2>5. Beside(run, from, to) => Beside(next, from, to)
    BY <1>4, <2>2, <2>3 DEF Beside, Lit
  <2> QED
    BY <2>1, <2>3, <2>4, <2>5, AfterStartSteps DEF Steps
<1>5. CASE run.at = "stop"
  <2> DEFINE next == StopDone(run, from)
  <2>1. ResumeSwap(run, from, to, spawns) = HandOver(next, to)
    BY <1>5 DEF ResumeSwap
  <2>2. PICK b \in Adapter : /\ next = At(run, from, b, "stopped")
                             /\ b.state \in AtRest
                             /\ Going(run.adapters[from]) => Dark(b)
    BY <1>2, StopDoneAt
  <2> HIDE DEF next
  <2>3. /\ next \in SwapRun /\ next.at = "stopped" /\ next.adapters[from] = b
        /\ next.adapters[to] = run.adapters[to] /\ next.output = run.output
    BY <1>2, <2>2, to \in Renderers \ {from}, RaisedAt
  <2>4. Carried(next, to)
    BY <1>1, <2>3 DEF Carried
  <2>5. Beside(run, from, to) => Beside(next, from, to)
    BY <1>5, <2>2, <2>3 DEF Beside
  <2> QED
    BY <2>1, <2>3, <2>4, <2>5, HandOverSteps DEF Steps
<1> QED
  BY <1>3, <1>4, <1>5

(* executeRollback, where the swap failed. *)
LEMMA OrRolledBackSteps ==
  ASSUME NEW run \in SwapRun, NEW to \in Renderers, NEW from \in Renderers \ {to},
         run.at \in Reached, Carried(run, to)
  PROVE  LET out == OrRolledBack(run, from, to)
         IN out.at \in {"init", "start", "stop", "done", "restored"} /\ Steps(run, out, from, to)
<1>1. CASE run.at = "failed"
  <2> DEFINE stopped == Stop(run, to)
             a == stopped.adapters[from]
             c == [a EXCEPT !.bound = @ \/ Binds(from, a)]
             back == At(stopped, from, c, "restored")
             out == [back EXCEPT !.buffering = FALSE, !.output = Forgotten(@)]
             o == Forgotten(back.output)
  <2>1. OrRolledBack(run, from, to) = out
    BY <1>1 DEF OrRolledBack, ExecuteRollback
  <2>2. run.adapters[to] \in Adapter /\ {"stop", "stopped"} \subseteq Labels
    BY SwapAt DEF Labels
  <2>3. PICK b \in Adapter, l \in {"stop", "stopped"} :
          /\ stopped = At(run, to, b, l)
          /\ l = "stopped" => b.state \in AtRest
          /\ Dark(run.adapters[to]) => l = "stopped" /\ Dark(b)
    BY <2>2, StopAt
  <2> HIDE DEF stopped
  <2>4. /\ stopped \in SwapRun /\ stopped.adapters[to] = b
        /\ stopped.adapters[from] = run.adapters[from] /\ stopped.output = run.output
    BY <2>2, <2>3, SwapAt
  <2>5. a \in Adapter
    BY <2>4, SwapAt
  <2> HIDE DEF a
  <2>6. c \in Adapter /\ c.state = a.state /\ c.process = a.process /\ c.stray = a.stray
    BY <2>5 DEF Adapter, Binds
  <2> HIDE DEF c
  <2>7. /\ back \in SwapRun /\ back.at = "restored" /\ back.adapters[from] = c
        /\ back.adapters[to] = b
    BY <2>4, <2>6, SwapAt
  <2> HIDE DEF back
  <2>8. o \in {"none", "held", "shown", "lost"}
    BY <2>7 DEF Forgotten, SwapRun
  <2>9. out = [back EXCEPT !.buffering = FALSE, !.output = o]
    BY <2>7 DEF SwapRun
  <2> HIDE DEF o, out
  <2>10. out \in SwapRun /\ out.at = "restored" /\ ~out.buffering
         /\ out.adapters = back.adapters
    BY <2>7, <2>8, <2>9 DEF SwapRun
  <2>11. Carried(out, to)
    BY <2>10 DEF Carried
  <2>12. Beside(run, from, to) => Beside(out, from, to)
    BY <1>1, <2>3, <2>4, <2>6, <2>7, <2>10 DEF Beside, Lit, a
  <2> QED
    BY <2>1, <2>10, <2>11, <2>12 DEF Steps
<1>2. CASE run.at # "failed"
  <2>1. OrRolledBack(run, from, to) = run
    BY <1>2 DEF OrRolledBack
  <2> QED
    BY <1>2, <2>1 DEF Steps, Reached
<1> QED
  BY <1>1, <1>2

(* Between transactions one renderer is shown and the other is at rest. *)
Settles ==
  \E r \in Renderers :
    /\ Lit(adapters[r])
    /\ \A q \in Renderers \ {r} : Dark(adapters[q]) /\ adapters[q].state \in AtRest

(* A terminal creation waits only for a transaction that is under way: none   *)
(* is left behind by a transaction that ended, whether it committed, was      *)
(* rolled back or failed before it began. This is what CreationsSettle rests  *)
(* on, and what _drainTerminalCreationQueue is for.                           *)
QueuedInTransaction == \A q \in Creations : queue[q] = "queued" => InProgress

(* The output and the outcome belong together. *)
Keeps ==
  /\ IF InProgress
       THEN tx.from # tx.to /\ tx.outcome = "none" /\ output \in {"none", "held"}
       ELSE ~buffering
  /\ tx.outcome = "committed" /\ tx.to = Ghostty => output \notin {"held", "lost"}
  /\ QueuedInTransaction

(* As long as no process exits by itself the renderers follow the swap. *)
Follows ==
  crashes = 0 =>
    /\ ~falling /\ ~late
    /\ IF InProgress THEN Beside(TransactionRun(tx.at), tx.from, tx.to)
                     ELSE Settles

SwapInv == TransactionTypeOK /\ Keeps /\ Follows

(* EndsWithOneShown, of one step. *)
EndsShown ==
  Ends /\ crashes = 0 =>
    OneShown(adapters', IF tx'.outcome = "committed" THEN tx'.to ELSE tx'.from)

LEMMA TransactionType ==
  ASSUME TransactionTypeOK
  PROVE  /\ adapters \in [Renderers -> Adapter]
         /\ tx \in [at : {"init", "start", "stop", "idle"}, from : Renderers, to : Renderers,
                    outcome : {"none", "committed", "rolled_back"}]
         /\ buffering \in BOOLEAN /\ output \in {"none", "held", "shown", "lost"}
         /\ queue \in [Creations -> {"none", "queued", "created", "rejected"}]
         /\ falling \in BOOLEAN /\ late \in BOOLEAN /\ crashes \in 0..MaxCrashes
BY DEF TransactionTypeOK, Tx, SwapAwaits

LEMMA BesideShows ==
  ASSUME NEW as \in [Renderers -> Adapter], NEW r \in Renderers, NEW q \in Renderers \ {r},
         Lit(as[r]), Dark(as[q])
  PROVE  OneShown(as, r)
<1>1. \A p \in Renderers : p = r \/ p = q
  BY DEF Renderers
<1> QED
  BY <1>1 DEF OneShown, Lit, Dark

(* A step of the transaction, come as far as run. *)
LEMMA ReachesKeeps ==
  ASSUME SwapInv, NEW run \in SwapRun, NEW to \in Renderers, NEW from \in Renderers \ {to},
         run.at \in {"init", "start", "stop", "done", "restored"}, Carried(run, to),
         crashes = 0 => Beside(run, from, to),
         Reaches(run, from, to), UNCHANGED <<falling, late, crashes>>
  PROVE  SwapInv' /\ EndsShown
<1> DEFINE waits == run.at \in {"init", "start", "stop"}
<1>1. /\ adapters' = run.adapters /\ buffering' = run.buffering /\ output' = run.output
      /\ tx' = [at |-> IF waits THEN run.at ELSE "idle", from |-> from, to |-> to,
                outcome |-> CASE run.at = "done" -> "committed"
                              [] run.at = "restored" -> "rolled_back"
                              [] OTHER -> "none"]
      /\ queue' = Drained(run.at)
  BY DEF Reaches, SwapAwaits
<1>2. run.adapters \in [Renderers -> Adapter] /\ run.buffering \in BOOLEAN
      /\ run.output \in {"none", "held", "shown", "lost"}
  BY DEF SwapRun
<1>3. queue' \in [Creations -> {"none", "queued", "created", "rejected"}]
  BY <1>1, TransactionType DEF SwapInv, Drained
<1>4. TransactionTypeOK'
  <2>1. tx' \in [at : {"init", "start", "stop", "idle"}, from : Renderers, to : Renderers,
                 outcome : {"none", "committed", "rolled_back"}]
    BY <1>1
  <2>2. falling \in BOOLEAN /\ late \in BOOLEAN /\ crashes \in 0..MaxCrashes
    BY TransactionType DEF SwapInv
  <2> QED
    BY <1>1, <1>2, <1>3, <2>1, <2>2
       DEF TransactionTypeOK, Tx, SwapAwaits
<1>5. tx'.from = from /\ tx'.to = to /\ (tx'.at # "idle" <=> waits)
      /\ (waits => tx'.at = run.at /\ tx'.outcome = "none")
      /\ (run.at = "done" => tx'.outcome = "committed")
      /\ (run.at = "restored" => tx'.outcome = "rolled_back")
  BY <1>1
<1>6. Keeps'
  <2>1. QueuedInTransaction'
    BY <1>1, <1>5 DEF QueuedInTransaction, Drained, InProgress
  <2> QED
    BY <1>1, <1>5, <2>1 DEF Keeps, Carried, InProgress
<1>7. Follows'
  <2>1. SUFFICES ASSUME crashes = 0
                 PROVE  /\ ~falling /\ ~late
                        /\ IF waits THEN Beside(TransactionRun(tx.at), tx.from, tx.to)'
                                    ELSE Settles'
    BY <1>5 DEF Follows, InProgress
  <2>2. ~falling /\ ~late /\ Beside(run, from, to)
    BY <2>1 DEF SwapInv, Follows
  <2>3. CASE waits
    BY <1>1, <1>5, <2>2, <2>3 DEF Beside, TransactionRun
  <2>4. CASE ~waits
    <3>1. \/ Lit(run.adapters[to]) /\ Dark(run.adapters[from]) /\ run.adapters[from].state \in AtRest
          \/ Lit(run.adapters[from]) /\ Dark(run.adapters[to]) /\ run.adapters[to].state \in AtRest
      BY <2>2, <2>4 DEF Beside
    <3>2. \A q \in Renderers : q = from \/ q = to
      BY DEF Renderers
    <3> QED
      BY <1>1, <2>2, <2>4, <3>1, <3>2 DEF Settles
  <2> QED
    BY <2>2, <2>3, <2>4
<1>8. EndsShown
  <2>1. SUFFICES ASSUME tx'.outcome # "none", crashes = 0
                 PROVE  OneShown(run.adapters, IF tx'.outcome = "committed" THEN to ELSE from)
    BY <1>1, <1>5 DEF EndsShown, Ends
  <2>2. run.at \in {"done", "restored"}
    BY <1>5, <2>1
  <2>3. CASE run.at = "done"
    BY <1>2, <1>5, <2>1, <2>3, BesideShows DEF Beside
  <2>4. CASE run.at = "restored"
    BY <1>2, <1>5, <2>1, <2>4, to \in Renderers \ {from}, BesideShows DEF Beside
  <2> QED
    BY <2>2, <2>3, <2>4
<1> QED
  BY <1>4, <1>6, <1>7, <1>8 DEF SwapInv

LEMMA StartSwitchKeeps ==
  ASSUME SwapInv, NEW from \in Renderers, NEW to \in Renderers, StartSwitch(from, to)
  PROVE  SwapInv' /\ EndsShown
<1> DEFINE run == [TransactionRun("failed") EXCEPT !.output = "none"]
<1>1. /\ ~InProgress /\ from # to /\ adapters[from].state = "running"
      /\ UNCHANGED <<falling, late, crashes>>
  BY DEF StartSwitch
<1>2. /\ run \in SwapRun /\ run.output = "none" /\ run.at = "failed"
      /\ run.adapters = adapters
  BY TransactionType DEF SwapInv, TransactionRun, SwapRun, Labels
<1>3. crashes = 0 => Beside(run, from, to)
  BY <1>1, <1>2 DEF SwapInv, Follows, Settles, Beside, AtRest
<1>4. Carried(run, to)
  BY <1>2 DEF Carried
<1>5. PICK first \in {run} \cup {Swap(run, from, to, spawns) : spawns \in BOOLEAN} :
        Reaches(OrRolledBack(first, from, to), from, to)
  BY DEF StartSwitch
<1> HIDE DEF run
<1>6. first \in SwapRun /\ first.at \in Reached /\ Carried(first, to)
      /\ (Beside(run, from, to) => Beside(first, from, to))
  BY <1>1, <1>2, <1>4, <1>5, SwapSteps DEF Steps, Reached
<1> DEFINE out == OrRolledBack(first, from, to)
<1>7. out.at \in {"init", "start", "stop", "done", "restored"} /\ Steps(first, out, from, to)
  BY <1>1, <1>6, OrRolledBackSteps
<1> HIDE DEF out
<1> QED
  BY <1>1, <1>3, <1>5, <1>6, <1>7, ReachesKeeps DEF Steps, out

LEMMA SwapResumesKeeps ==
  ASSUME SwapInv, SwapResumes
  PROVE  SwapInv' /\ EndsShown
<1> DEFINE start == TransactionRun(tx.at)
           from == tx.from
           to == tx.to
<1>1. tx.at \in {"init", "start", "stop"} /\ UNCHANGED <<falling, late, crashes>>
  BY DEF SwapResumes, SwapAwaits
<1>2. InProgress
  BY <1>1 DEF InProgress
<1>3. /\ start \in SwapRun /\ start.at = tx.at /\ start.output = output
      /\ from \in Renderers /\ to \in Renderers
  BY <1>1, TransactionType DEF SwapInv, TransactionRun, SwapRun, Labels
<1>4. from # to /\ output \in {"none", "held"}
      /\ (crashes = 0 => Beside(start, from, to))
  BY <1>2 DEF SwapInv, Keeps, Follows
<1>5. PICK run \in {ResumeSwap(start, from, to, spawns) : spawns \in BOOLEAN} :
        Reaches(OrRolledBack(run, from, to), from, to)
  BY DEF SwapResumes
<1> HIDE DEF start, from, to
<1>6. Carried(start, to)
  BY <1>1, <1>3, <1>4 DEF Carried
<1>7. run.at \in Reached /\ Steps(start, run, from, to)
  BY <1>1, <1>3, <1>4, <1>5, <1>6, SwapResumeSteps
<1> DEFINE out == OrRolledBack(run, from, to)
<1>8. out.at \in {"init", "start", "stop", "done", "restored"} /\ Steps(run, out, from, to)
  BY <1>3, <1>4, <1>7, OrRolledBackSteps DEF Steps
<1> HIDE DEF out
<1> QED
  BY <1>1, <1>3, <1>4, <1>5, <1>7, <1>8, ReachesKeeps DEF Steps, out

(* What leaves the transaction and the renderers alone. *)
LEMMA BystandersKeep ==
  ASSUME SwapInv, UNCHANGED <<adapters, tx, buffering, falling, late, crashes>>,
         output' = output \/ (buffering /\ output' = "held"),
         queue' \in [Creations -> {"none", "queued", "created", "rejected"}],
         \A q \in Creations : queue'[q] = "queued" => queue[q] = "queued" \/ InProgress
  PROVE  SwapInv' /\ EndsShown
<1>1. output' \in {"none", "held", "shown", "lost"}
  BY TransactionType DEF SwapInv
<1>2. TransactionTypeOK'
  BY <1>1, TransactionType
     DEF SwapInv, TransactionTypeOK, Tx, SwapAwaits
<1>3. InProgress' = InProgress
  BY DEF InProgress
<1>4. Keeps'
  BY <1>3 DEF SwapInv, Keeps, QueuedInTransaction
<1>5. Follows'
  BY <1>3 DEF SwapInv, Follows, Settles, Beside, TransactionRun
<1>6. EndsShown
  BY DEF EndsShown, Ends
<1> QED
  BY <1>2, <1>4, <1>5, <1>6 DEF SwapInv

(* The exits of processes and the fallback. *)
LEMMA ExitsKeep ==
  ASSUME SwapInv,
         \/ \E r \in Renderers : Exits(r)
         \/ FallbackCompletes \/ FallbackExpires \/ LateInitCompletes
  PROVE  SwapInv' /\ EndsShown
<1>1. /\ adapters \in [Renderers -> Adapter] /\ falling \in BOOLEAN /\ late \in BOOLEAN
      /\ crashes \in 0..MaxCrashes
  BY TransactionType DEF SwapInv
<1>2. UNCHANGED <<tx, buffering, output, queue>>
  BY DEF Exits, FallbackCompletes, FallbackExpires,
         LateInitCompletes
<1>3. adapters' \in [Renderers -> Adapter] /\ falling' \in BOOLEAN /\ late' \in BOOLEAN
      /\ crashes' \in 0..MaxCrashes /\ crashes' # 0
  <2>1. CASE \E r \in Renderers : Exits(r)
    <3>1. adapters' \in [Renderers -> Adapter] /\ late' = late
      BY <1>1, <2>1, ExitsType DEF Exits
    <3>2. falling' \in BOOLEAN
      BY <1>1, <2>1 DEF Exits
    <3>3. crashes' \in 0..MaxCrashes /\ crashes' # 0
      BY <1>1, <2>1, CrashesAssumption DEF Exits
    <3> QED
      BY <1>1, <3>1, <3>2, <3>3
  <2>2. CASE FallbackCompletes \/ FallbackExpires \/ LateInitCompletes
    <3>1. adapters' \in [Renderers -> Adapter] /\ crashes' = crashes
      BY <1>1, <2>2, ExitsType
         DEF FallbackCompletes, FallbackExpires, LateInitCompletes
    <3>2. falling' \in BOOLEAN /\ late' \in BOOLEAN /\ (falling \/ late)
      BY <1>1, <2>2
         DEF FallbackCompletes, FallbackExpires, LateInitCompletes
    <3> QED
      BY <1>1, <3>1, <3>2 DEF SwapInv, Follows
  <2> QED
    BY <2>1, <2>2
<1>4. TransactionTypeOK'
  BY <1>2, <1>3, TransactionType
     DEF SwapInv, TransactionTypeOK, Tx, SwapAwaits
<1>5. Keeps' /\ Follows' /\ EndsShown
  BY <1>2, <1>3 DEF SwapInv, Keeps, QueuedInTransaction, Follows, EndsShown, Ends, InProgress
<1> QED
  BY <1>4, <1>5 DEF SwapInv

LEMMA SwapInvKeeps == SwapInv /\ [TransactionNext]_transactionVars => SwapInv' /\ EndsShown
<1> SUFFICES ASSUME SwapInv, [TransactionNext]_transactionVars PROVE SwapInv' /\ EndsShown
  OBVIOUS
<1> DEFINE Queues == [Creations -> {"none", "queued", "created", "rejected"}]
<1>0. queue \in Queues
  BY TransactionType DEF SwapInv
<1>1. ASSUME NEW from \in Renderers, NEW to \in Renderers,
             StartSwitch(from, to)
      PROVE  SwapInv' /\ EndsShown
  BY <1>1, StartSwitchKeeps
<1>2. CASE Output
  BY <1>0, <1>2, BystandersKeep DEF Output
<1>3. ASSUME NEW q \in Creations, QueueCreation(q) \/ CreationTimesOut(q)
      PROVE  SwapInv' /\ EndsShown
  <2>1. queue' \in Queues
    BY <1>0, <1>3 DEF QueueCreation, CreationTimesOut
  <2>2. UNCHANGED <<adapters, tx, buffering, output, falling, late, crashes>>
    BY <1>3 DEF QueueCreation, CreationTimesOut
  <2>3. \A p \in Creations : queue'[p] = "queued" => queue[p] = "queued" \/ InProgress
    BY <1>0, <1>3 DEF QueueCreation, CreationTimesOut
  <2> QED
    BY <2>1, <2>2, <2>3, BystandersKeep
<1>4. ASSUME NEW r \in Renderers, Exits(r) PROVE SwapInv' /\ EndsShown
  BY <1>4, ExitsKeep
<1>5. CASE UNCHANGED transactionVars
  BY <1>0, <1>5, BystandersKeep DEF transactionVars
<1> QED
  BY <1>1, <1>2, <1>3, <1>4, <1>5, SwapResumesKeeps, ExitsKeep DEF TransactionNext

LEMMA InitSwapInv == TransactionInit => SwapInv
<1> SUFFICES ASSUME TransactionInit PROVE SwapInv
  OBVIOUS
<1>1. PICK r \in Renderers, b \in BOOLEAN :
        adapters = [q \in Renderers |-> IF q = r THEN Shown(b) ELSE Fresh(q)]
  BY DEF TransactionInit
<1>2. \A q \in Renderers : Fresh(q) \in Adapter /\ Shown(b) \in Adapter
  BY DEF Fresh, Shown, Adapter, RendererState
<1>3. adapters \in [Renderers -> Adapter]
  BY <1>1, <1>2
<1>4. tx = [at |-> "idle", from |-> Ghostty, to |-> Rio, outcome |-> "none"]
  BY DEF TransactionInit
<1>5. TransactionTypeOK
  <2>1. tx \in [at : {"init", "start", "stop", "idle"}, from : Renderers, to : Renderers,
                outcome : {"none", "committed", "rolled_back"}]
    BY <1>4 DEF Renderers
  <2>2. 0 \in 0..MaxCrashes
    BY CrashesAssumption
  <2> QED
    BY <1>3, <2>1, <2>2
       DEF TransactionInit, TransactionTypeOK, Tx, SwapAwaits
<1>6. Keeps
  BY <1>4 DEF TransactionInit, Keeps, QueuedInTransaction, InProgress
<1>7. Settles
  <2>1. Lit(adapters[r])
    BY <1>1 DEF Lit, Shown
  <2>2. \A q \in Renderers \ {r} : Dark(adapters[q]) /\ adapters[q].state \in AtRest
    BY <1>1 DEF Dark, Fresh, AtRest
  <2> QED
    BY <2>1, <2>2 DEF Settles
<1>8. Follows
  BY <1>4, <1>7 DEF TransactionInit, Follows, InProgress
<1> QED
  BY <1>5, <1>6, <1>8 DEF SwapInv

(* SwapInv holds throughout. *)
LEMMA SwapInvariant == TransactionSpec => []SwapInv
BY InitSwapInv, SwapInvKeeps, PTL DEF TransactionSpec

(* The transaction, the buffer and the creations that wait have the types      *)
(* their TypeOK says, whatever exits meanwhile.                                *)
THEOREM TransactionTyped == TransactionSpec => []TransactionTypeOK
<1>1. SwapInv => TransactionTypeOK
  BY DEF SwapInv
<1> QED
  BY SwapInvariant, <1>1, PTL

(* The buffer is on only during a transaction, and what it took is neither     *)
(* held back nor lost once a transaction commits to ghostty.                   *)
THEOREM OutputIsKept == TransactionSpec => []OutputKept
<1>1. SwapInv => OutputKept
  BY DEF SwapInv, Keeps, OutputKept
<1> QED
  BY SwapInvariant, <1>1, PTL

(* Where no process exits by itself, a transaction ends with one renderer      *)
(* alone at work: the target after a commit, the source after a rollback.      *)
THEOREM TransactionShows == TransactionSpec => EndsWithOneShown
<1>1. EndsShown =>
        (Ends /\ crashes = 0 =>
           OneShown(adapters', IF tx'.outcome = "committed" THEN tx'.to ELSE tx'.from))
  BY DEF EndsShown
<1> QED
  BY SwapInvariant, SwapInvKeeps, <1>1, PTL DEF TransactionSpec, EndsWithOneShown

(* No terminal creation is left waiting once the transaction it waits for has  *)
(* ended, however it ended.                                                    *)
THEOREM NoneLeftQueued == TransactionSpec => []QueuedInTransaction
<1>1. SwapInv => QueuedInTransaction
  BY DEF SwapInv, Keeps
<1> QED
  BY SwapInvariant, <1>1, PTL
===============================================================================
