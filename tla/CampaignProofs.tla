--------------------------- MODULE CampaignProofs ---------------------------
(***************************************************************************)
(* Campaign holds what its runs show for every set of campaigns, however   *)
(* many packs, turns, nudges and delayed commands there are.               *)
(***************************************************************************)
EXTENDS Campaign, TLAPS

USE CampaignAssumption

Local == [ticks : 0 .. MaxTicks, airborne : BOOLEAN, sent : BOOLEAN, landSent : BOOLEAN,
          level : {0, 1, 3}, landed : BOOLEAN, nudged : Nudge]

Snapshot == [prim : Prims, idle : BOOLEAN, traj : {"none", "ready", "done"},
             preset : Presets, trip : BOOLEAN]

(* The parts of the type invariant.                                        *)
ServiceOK == alive \in BOOLEAN /\ waiting \in Packs \union {None} /\ grant \in Packs \union {None}
ControlOK == req \in Requests \union {None} /\ nudge \in Nudge /\ nudges \in 0 .. MaxNudges
QueueOK == camp \in Campaigns /\ i \in 1 .. Len(camp) /\ needGo \in BOOLEAN /\ aborts \in 0 .. 2
PlaceOK == /\ recording \in BOOLEAN
           /\ pc \in Flying \union OnGround \union {"raised", "failed"}
           /\ step \in 0 .. Len(camp[i].steps)
LinkOK == drone \in Drone /\ late \in Seq(Commands) /\ Len(late) <= MaxLate /\ ran \in BOOLEAN
GhostOK == /\ last \in {"TAKEOFF", "LAND", None} /\ since \in 0 .. 2
           /\ consent \in Packs \union {None} /\ fresh \in BOOLEAN

Typed == /\ ServiceOK /\ ControlOK /\ QueueOK /\ PlaceOK /\ fl \in Local
         /\ LinkOK /\ seen \in Snapshot /\ GhostOK

(* The limits of the campaign, and a flight that is behind it.             *)
Limited == /\ aborts >= 2 => pc \in {"done", "over"}
           /\ pc = "next" => step = 0

-----------------------------------------------------------------------------
(* The drone and the link.                                                 *)

LEMMA SetPrim   == \A d \in Drone, x \in Prims : [d EXCEPT !.prim = x] \in Drone
  BY DEF Drone
LEMMA SetUp     == \A d \in Drone, x \in BOOLEAN : [d EXCEPT !.up = x] \in Drone
  BY DEF Drone
LEMMA SetIdle   == \A d \in Drone, x \in BOOLEAN : [d EXCEPT !.idle = x] \in Drone
  BY DEF Drone
LEMMA SetTraj   == \A d \in Drone, x \in {"none", "ready", "done"} : [d EXCEPT !.traj = x] \in Drone
  BY DEF Drone
LEMMA SetPreset == \A d \in Drone, x \in Presets : [d EXCEPT !.preset = x] \in Drone
  BY DEF Drone
LEMMA SetTrip   == \A d \in Drone, x \in BOOLEAN : [d EXCEPT !.trip = x] \in Drone
  BY DEF Drone

LEMMA Values ==
  /\ TRUE \in BOOLEAN /\ FALSE \in BOOLEAN
  /\ "IDLE" \in Prims /\ "CLIMB" \in Prims /\ "HOVER" \in Prims /\ "TRAJ" \in Prims
  /\ "DESCEND" \in Prims
  /\ "bad" \in Presets /\ "running" \in Presets /\ "done" \in Presets
  /\ "ready" \in {"none", "ready", "done"} /\ "done" \in {"none", "ready", "done"}
  BY DEF Prims, Presets

LEMMA DroneFields ==
  ASSUME NEW d \in Drone
  PROVE  d.prim \in Prims /\ d.up \in BOOLEAN /\ d.idle \in BOOLEAN
         /\ d.traj \in {"none", "ready", "done"} /\ d.preset \in Presets /\ d.trip \in BOOLEAN
  BY DEF Drone

LEMMA EndedDrone ==
  ASSUME NEW d \in Drone
  PROVE  /\ Ended(d) \in Drone
         /\ Ended(d).traj = d.traj
         /\ Ended(d).preset \in {d.preset, "bad"}
<1> DEFINE x == IF d.preset = "running" THEN "bad" ELSE d.preset
<1>1. Ended(d) = [d EXCEPT !.prim = "IDLE", !.preset = x]
  BY DEF Ended
<1>2. x \in Presets /\ x \in {d.preset, "bad"}
  BY Values, DroneFields
<1> HIDE DEF x
<1>3. [d EXCEPT !.prim = "IDLE", !.preset = x] \in Drone
  BY <1>2, SetPrim, SetPreset, Values, Zenon
<1>4. /\ [d EXCEPT !.prim = "IDLE", !.preset = x].traj = d.traj
      /\ [d EXCEPT !.prim = "IDLE", !.preset = x].preset = x
  BY DEF Drone
<1> QED
  BY <1>1, <1>2, <1>3, <1>4

LEMMA ObeyedDrone ==
  ASSUME NEW d \in Drone, NEW c \in Commands
  PROVE  /\ Obeyed(d, c) \in Drone /\ Obeyed(d, c).traj = d.traj
         /\ c = "PRESET" => Obeyed(d, c).preset = IF d.prim = "HOVER" THEN "running" ELSE "bad"
         /\ c # "PRESET" => Obeyed(d, c).preset \in {d.preset, "bad"}
<1>1. CASE c = "TAKEOFF"
  <2>1. Obeyed(d, c) = [d EXCEPT !.prim = "CLIMB", !.idle = FALSE]
    BY <1>1 DEF Obeyed
  <2>2. [d EXCEPT !.prim = "CLIMB", !.idle = FALSE] \in Drone
    BY SetPrim, SetIdle, Values, Zenon
  <2>3. /\ [d EXCEPT !.prim = "CLIMB", !.idle = FALSE].traj = d.traj
        /\ [d EXCEPT !.prim = "CLIMB", !.idle = FALSE].preset = d.preset
    BY DEF Drone
  <2> QED
    BY <1>1, <2>1, <2>2, <2>3
<1>2. CASE c = "LAND"
  <2>1. Obeyed(d, c) = IF d.prim = "IDLE" THEN d ELSE [Ended(d) EXCEPT !.prim = "DESCEND"]
    BY <1>2 DEF Obeyed
  <2> DEFINE e == Ended(d)
  <2>2. e \in Drone /\ e.traj = d.traj /\ e.preset \in {d.preset, "bad"}
    BY EndedDrone
  <2> HIDE DEF e
  <2>3. [e EXCEPT !.prim = "DESCEND"] \in Drone
    BY <2>2, SetPrim, Values, Zenon
  <2>4. /\ [e EXCEPT !.prim = "DESCEND"].traj = e.traj
        /\ [e EXCEPT !.prim = "DESCEND"].preset = e.preset
    BY <2>2 DEF Drone
  <2> QED
    BY <1>2, <2>1, <2>2, <2>3, <2>4 DEF e
<1>3. CASE c = "START"
  <2>1. Obeyed(d, c) = [d EXCEPT !.prim = "TRAJ"]
    BY <1>3 DEF Obeyed
  <2>2. [d EXCEPT !.prim = "TRAJ"] \in Drone
    BY SetPrim, Values, Zenon
  <2>3. [d EXCEPT !.prim = "TRAJ"].traj = d.traj /\ [d EXCEPT !.prim = "TRAJ"].preset = d.preset
    BY DEF Drone
  <2> QED
    BY <1>3, <2>1, <2>2, <2>3
<1>4. CASE c = "PRESET"
  <2> DEFINE x == IF d.prim = "HOVER" THEN "running" ELSE "bad"
  <2>1. Obeyed(d, c) = [d EXCEPT !.preset = x]
    BY <1>4 DEF Obeyed
  <2>2. x \in Presets
    BY Values
  <2> HIDE DEF x
  <2>3. [d EXCEPT !.preset = x] \in Drone
    BY <2>2, SetPreset
  <2>4. [d EXCEPT !.preset = x].traj = d.traj /\ [d EXCEPT !.preset = x].preset = x
    BY DEF Drone
  <2> QED
    BY <1>4, <2>1, <2>3, <2>4 DEF x
<1> QED
  BY <1>1, <1>2, <1>3, <1>4 DEF Commands

(* What a command may do to the drone.                                     *)
Reached(c) ==
  /\ drone' \in Drone /\ ran' \in BOOLEAN
  /\ drone'.traj = drone.traj /\ (ran => ran')
  /\ c = "PRESET" => \/ drone'.preset = "bad" /\ ran' = ran
                     \/ ran'
  /\ c # "PRESET" => drone'.preset \in {drone.preset, "bad"} /\ ran' = ran

LEMMA ReceivedReaches ==
  ASSUME NEW c \in Commands, drone \in Drone, ran \in BOOLEAN, Received(c)
  PROVE  Reached(c)
<1>1. CASE Accepts(drone, c)
  <2>1. drone' = Obeyed(drone, c)
    BY <1>1 DEF Received
  <2>2. ran' = (ran \/ (c = "PRESET" /\ drone.prim = "HOVER"))
    BY DEF Received
  <2> QED
    BY <2>1, <2>2, ObeyedDrone DEF Reached
<1>2. CASE ~Accepts(drone, c)
  <2>1. drone' = drone /\ c # "PRESET"
    BY <1>2 DEF Received, Accepts
  <2>2. ran' = ran
    BY <2>1 DEF Received
  <2> QED
    BY <2>1, <2>2 DEF Reached
<1> QED
  BY <1>1, <1>2

LEMMA CallReaches ==
  ASSUME NEW c \in Commands, NEW ok \in BOOLEAN, LinkOK, Call(c, ok)
  PROVE  /\ LinkOK'
         /\ drone'.traj = drone.traj /\ (ran => ran')
         /\ ok => Reached(c)
         /\ c # "PRESET" => ran' = ran
<1>1. CASE Received(c) /\ UNCHANGED late
  BY <1>1, ReceivedReaches DEF Reached, LinkOK
<1>2. CASE ~ok /\ UNCHANGED <<drone, late, ran>>
  BY <1>2 DEF LinkOK
<1>3. CASE ~ok /\ Len(late) < MaxLate /\ late' = Append(late, c) /\ UNCHANGED <<drone, ran>>
  BY <1>3 DEF LinkOK
<1> QED
  BY <1>1, <1>2, <1>3 DEF Call

LEMMA DroneSteps ==
  ASSUME drone \in Drone, Flies \/ Interferes
  PROVE  /\ drone' \in Drone
         /\ drone'.traj \in {drone.traj, "done"}
         /\ drone.preset # "running" => drone'.preset \in {drone.preset, "bad"}
<1> DEFINE e == Ended(drone)
<1>1. e \in Drone /\ e.traj = drone.traj /\ e.preset \in {drone.preset, "bad"}
  BY EndedDrone
<1>2. CASE Flies
  <2>1. CASE drone' = [drone EXCEPT !.prim = "HOVER"]
    BY <2>1, SetPrim, Values DEF Drone
  <2>2. CASE drone' = [drone EXCEPT !.up = TRUE]
    BY <2>2, SetUp, Values DEF Drone
  <2>3. CASE drone' = [drone EXCEPT !.prim = "HOVER", !.traj = "done"]
    <3>1. drone' \in Drone
      BY <2>3, SetPrim, SetTraj, Values, Zenon
    <3>2. drone'.traj = "done" /\ drone'.preset = drone.preset
      BY <2>3 DEF Drone
    <3> QED
      BY <3>1, <3>2
  <2>4. CASE drone.preset = "running" /\ drone' = [drone EXCEPT !.preset = "done"]
    BY <2>4, SetPreset, Values DEF Drone
  <2>5. CASE drone' = [drone EXCEPT !.prim = "IDLE", !.up = FALSE]
    <3>1. drone' \in Drone
      BY <2>5, SetPrim, SetUp, Values, Zenon
    <3>2. drone'.traj = drone.traj /\ drone'.preset = drone.preset
      BY <2>5 DEF Drone
    <3> QED
      BY <3>1, <3>2
  <2> QED
    BY <1>2, <2>1, <2>2, <2>3, <2>4, <2>5 DEF Flies
<1>3. CASE Interferes
  <2> HIDE DEF e
  <2>1. CASE drone' = [e EXCEPT !.prim = "DESCEND", !.trip = TRUE]
    <3>1. drone' \in Drone
      BY <1>1, <2>1, SetPrim, SetTrip, Values, Zenon
    <3>2. drone'.traj = e.traj /\ drone'.preset = e.preset
      BY <1>1, <2>1 DEF Drone
    <3> QED
      BY <1>1, <3>1, <3>2
  <2>2. CASE drone' = [e EXCEPT !.up = FALSE, !.trip = TRUE]
    <3>1. drone' \in Drone
      BY <1>1, <2>2, SetUp, SetTrip, Values, Zenon
    <3>2. drone'.traj = e.traj /\ drone'.preset = e.preset
      BY <1>1, <2>2 DEF Drone
    <3> QED
      BY <1>1, <3>1, <3>2
  <2>3. CASE drone' = e
    BY <1>1, <2>3
  <2>4. CASE drone' = [drone EXCEPT !.up = FALSE]
    BY <2>4, SetUp, Values DEF Drone
  <2>5. CASE drone' = [drone EXCEPT !.idle = FALSE, !.trip = FALSE]
    <3>1. drone' \in Drone
      BY <2>5, SetIdle, SetTrip, Values, Zenon
    <3>2. drone'.traj = drone.traj /\ drone'.preset = drone.preset
      BY <2>5 DEF Drone
    <3> QED
      BY <3>1, <3>2
  <2> QED
    BY <1>3, <2>1, <2>2, <2>3, <2>4, <2>5 DEF Interferes, e
<1> QED
  BY <1>2, <1>3

(* What an upload and the idle switch may make of the drone.               *)
LEMMA UploadsDrone ==
  ASSUME NEW d \in Drone, NEW e \in Uploads(d)
  PROVE  e \in Drone /\ e.prim = d.prim /\ e.idle = d.idle
<1>1. PICK t \in {"none", "ready"} : e = [d EXCEPT !.traj = t]
  BY DEF Uploads
<1>2. e \in Drone
  BY <1>1, SetTraj
<1> QED
  BY <1>1, <1>2 DEF Drone

LEMMA IdledDrone ==
  ASSUME NEW d \in Drone, NEW e \in Idled(d)
  PROVE  /\ e \in Drone /\ e.prim = d.prim /\ e.traj = d.traj
         /\ e.idle => d.idle \/ d.prim = "IDLE"
<1> DEFINE x == d.prim = "IDLE" /\ ~d.up
<1>1. e = d \/ e = [d EXCEPT !.idle = x]
  BY DEF Idled
<1>2. x \in BOOLEAN /\ (x => d.prim = "IDLE")
  OBVIOUS
<1> HIDE DEF x
<1>3. [d EXCEPT !.idle = x] \in Drone
  BY <1>2, SetIdle
<1>4. /\ [d EXCEPT !.idle = x].prim = d.prim /\ [d EXCEPT !.idle = x].traj = d.traj
      /\ [d EXCEPT !.idle = x].idle = x
  BY DEF Drone
<1>5. CASE e = d
  BY <1>5, Zenon
<1>6. CASE e = [d EXCEPT !.idle = x]
  BY <1>2, <1>3, <1>4, <1>6, Zenon
<1> QED
  BY <1>1, <1>5, <1>6

(* The drone the commands before TAKEOFF leave.                            *)
LEMMA ReadiedDrone ==
  ASSUME drone \in Drone, Ready
  PROVE  /\ drone' \in Drone /\ drone'.prim = drone.prim
         /\ drone'.idle => drone.idle \/ drone.prim = "IDLE"
         /\ Preloaded \/ drone'.traj = drone.traj
<1>1. PICK d \in {drone} \union (IF Preloaded THEN Uploads(drone) ELSE {}) : drone' \in Idled(d)
  BY Zenon DEF Ready
<1>2. /\ d \in Drone /\ d.prim = drone.prim /\ d.idle = drone.idle
      /\ Preloaded \/ d = drone
  BY <1>1, UploadsDrone
<1>3. /\ drone' \in Drone /\ drone'.prim = d.prim /\ drone'.traj = d.traj
      /\ drone'.idle => d.idle \/ d.prim = "IDLE"
  BY <1>1, <1>2, IdledDrone
<1> QED
  BY <1>2, <1>3

LEMMA UploadedDrone ==
  ASSUME drone \in Drone, Upload
  PROVE  drone' \in Drone /\ drone'.prim = drone.prim /\ drone'.idle = drone.idle
<1>1. drone' \in {drone} \union Uploads(drone)
  BY DEF Upload
<1> QED
  BY <1>1, UploadsDrone

LEMMA StatusIsSnapshot == ASSUME NEW d \in Drone PROVE Status(d) \in Snapshot
  BY DEF Status, Drone, Snapshot

-----------------------------------------------------------------------------
(* Types.                                                                  *)

LEMMA TypeParts == TypeOK <=> Typed
  BY DEF TypeOK, Typed, ServiceOK, ControlOK, QueueOK, PlaceOK, LinkOK, GhostOK, Local, Snapshot

LEMMA SetTicks    == \A f \in Local, x \in 0 .. MaxTicks : [f EXCEPT !.ticks = x] \in Local
  BY DEF Local
LEMMA SetFlags    == \A f \in Local, x \in BOOLEAN :
                       /\ [f EXCEPT !.airborne = x] \in Local /\ [f EXCEPT !.sent = x] \in Local
                       /\ [f EXCEPT !.landSent = x] \in Local /\ [f EXCEPT !.landed = x] \in Local
  BY DEF Local
LEMMA SetLevel    == \A f \in Local, x \in {0, 1, 3} : [f EXCEPT !.level = x] \in Local
  BY DEF Local
LEMMA SetNudged   == \A f \in Local, x \in Nudge : [f EXCEPT !.nudged = x] \in Local
  BY DEF Local

LEMMA LocalFields ==
  ASSUME NEW f \in Local
  PROVE  /\ f.ticks \in 0 .. MaxTicks /\ f.airborne \in BOOLEAN /\ f.sent \in BOOLEAN
         /\ f.landSent \in BOOLEAN /\ f.level \in {0, 1, 3} /\ f.landed \in BOOLEAN
         /\ f.nudged \in Nudge
  BY DEF Local

LEMMA NoNudgeIsNudge == NoNudge \in Nudge /\ Fresh \in Local
  BY DEF NoNudge, Nudge, Fresh, Local

LEMMA FreshIsNew == Fresh.nudged = NoNudge /\ Fresh.sent = FALSE
  BY DEF Fresh

LEMMA CampaignSteps ==
  ASSUME QueueOK
  PROVE  /\ camp \in Seq(Flight) /\ Len(camp) \in Nat \ {0} /\ i \in Nat
         /\ camp[i].pack \in Packs /\ camp[i].steps \in Seq(Kinds) /\ camp[1].pack \in Packs
         /\ camp[i].idles \in BOOLEAN /\ Len(camp[i].steps) \in Nat
         /\ \A n \in 1 .. Len(camp[i].steps) : camp[i].steps[n] \in Kinds
<1>1. camp \in Seq(Flight) /\ camp # <<>>
  BY DEF QueueOK, CampaignAssumption
<1>2. Len(camp) \in Nat \ {0} /\ i \in Nat /\ 1 \in 1 .. Len(camp)
  BY <1>1 DEF QueueOK
<1>3. camp[i] \in Flight /\ camp[1] \in Flight
  BY <1>1, <1>2 DEF QueueOK
<1>4. camp[i].pack \in Packs /\ camp[i].steps \in Seq(Kinds) /\ camp[i].idles \in BOOLEAN
      /\ camp[1].pack \in Packs
  BY <1>3 DEF Flight
<1> QED
  BY <1>1, <1>2, <1>4

-----------------------------------------------------------------------------
(* One turn of a wait.                                                     *)

LEMMA AbortsLocal ==
  ASSUME fl \in Local, NEW n \in {0, 1, 3}, Aborts(n)
  PROVE  /\ pc' = "tail" /\ fl' \in Local /\ fl'.sent = fl.sent /\ fl'.nudged = NoNudge
         /\ fl'.level = n
<1>1. fl' = [fl EXCEPT !.level = n, !.nudged = NoNudge] /\ pc' = "tail"
  BY DEF Aborts
<1>2. fl' \in Local
  BY <1>1, SetLevel, SetNudged, NoNudgeIsNudge, Zenon
<1>3. fl'.sent = fl.sent /\ fl'.nudged = NoNudge /\ fl'.level = n
  BY <1>1 DEF Local
<1> QED
  BY <1>1, <1>2, <1>3

(* Where a wait leads, and what it knows when it has ended well.           *)
Leads(w) ==
  \/ pc' \in {w, "tail"}
  \/ w = "idle" /\ pc' = "launch"
  \/ w = "settle" /\ pc' = "start"
  \/ w = "settle" /\ pc' = "upload" /\ camp[i].steps[step] = "traj" /\ ~Preloaded
  \/ w = "origin" /\ pc' = "excite"
  \/ w = "tune" /\ pc' = "land"
  \/ w = "prun" /\ pc' = "pstop"
  \/ w = "pstart" /\ pc' = "prun" /\ seen.preset = "running"
  \/ /\ pc' = "record" /\ w \in {"climb", "hold", "run", "prun", "pstop", "shake", "tune", "ophold"}
     /\ w = "run" => seen.traj = "done" /\ seen.prim = "HOVER"
     /\ w \in {"prun", "pstop"} => seen.preset = "done"
     /\ w = "ophold" => fl'.nudged # NoNudge

(* What it does with a nudge.                                              *)
Heeds(w) ==
  \/ fl'.nudged = NoNudge /\ nudge' = nudge
  \/ nudge # NoNudge /\ fl'.nudged = nudge /\ nudge' = NoNudge /\ pc' \in {"pstop", "record"}
  \/ fl'.nudged = fl.nudged /\ nudge' = nudge /\ (w # "pstop" \/ pc' \in {"pstop", "record"})

Turned(w) ==
  /\ w \in Waits /\ pc = w /\ alive
  /\ UNCHANGED <<service, req, nudges, queue, recording, step, link, seen, ghosts>>
  /\ fl' \in Local /\ fl'.sent = fl.sent
  /\ Leads(w) /\ Heeds(w)

LEMMA EndsTurned ==
  ASSUME NEW w \in Waits, fl \in Local, WaitEnds(w)
  PROVE  Turned(w)
<1>1. /\ pc = w /\ alive /\ nudge' = nudge /\ TRUE \in Condition(w) /\ WaitOver(w)
      /\ UNCHANGED <<service, req, nudges, queue, recording, step, link, seen, ghosts>>
  BY DEF WaitEnds, Runner, control
<1>2. ASSUME Aborts(1) PROVE Turned(w)
  BY <1>1, <1>2, AbortsLocal DEF Turned, Leads, Heeds
<1>3. ASSUME UNCHANGED fl, Leads(w), w = "pstop" => pc' \in {"pstop", "record"} PROVE Turned(w)
  BY <1>1, <1>3 DEF Turned, Heeds
<1>4. CASE w = "climb"
  <2>1. pc' = "record" /\ fl' = [fl EXCEPT !.airborne = TRUE]
    BY <1>1, <1>4 DEF WaitOver
  <2>2. fl' \in Local /\ fl'.sent = fl.sent /\ fl'.nudged = fl.nudged
    BY <2>1, SetFlags DEF Local
  <2> QED
    BY <1>1, <1>4, <2>1, <2>2 DEF Turned, Leads, Heeds
<1>5. CASE w \in {"idle", "settle", "origin", "tune"}
  BY <1>1, <1>2, <1>3, <1>5 DEF WaitOver, Checks, Continues, Leads
<1>6. CASE w \in {"pstart", "prun", "pstop"}
  BY <1>1, <1>2, <1>3, <1>6 DEF WaitOver, Checks, Continues, Leads
<1>7. CASE w = "run"
  BY <1>1, <1>3, <1>7 DEF WaitOver, Continues, Leads, Condition
<1>8. CASE w \in {"hold", "shake"}
  BY <1>1, <1>3, <1>8 DEF WaitOver, Continues, Leads
<1>9. CASE w = "ophold"
  BY <1>1, <1>9 DEF Condition
<1> QED
  BY <1>4, <1>5, <1>6, <1>7, <1>8, <1>9 DEF Waits

LEMMA NudgedTurned ==
  ASSUME NEW w \in Waits, fl \in Local, nudge \in Nudge, WaitNudged(w)
  PROVE  Turned(w)
<1>1. /\ pc = w /\ alive /\ nudge' = NoNudge /\ nudge # NoNudge /\ w \in Skippable
      /\ fl' = [fl EXCEPT !.nudged = nudge]
      /\ pc' = IF w = "prun" THEN "pstop" ELSE "record"
      /\ UNCHANGED <<service, req, nudges, queue, recording, step, link, seen, ghosts>>
  BY DEF WaitNudged, Runner, NudgedIn
<1>2. fl' \in Local /\ fl'.sent = fl.sent /\ fl'.nudged = nudge
  BY <1>1, SetNudged DEF Local
<1>3. Leads(w)
  BY <1>1, <1>2 DEF Leads, Skippable
<1>4. Heeds(w)
  BY <1>1, <1>2 DEF Heeds
<1> QED
  BY <1>1, <1>2, <1>3, <1>4 DEF Turned

LEMMA WaitTurned ==
  ASSUME fl \in Local, nudge \in Nudge, Wait
  PROVE  \E w \in Waits : Turned(w)
<1>1. PICK w \in Waits : WaitEnds(w) \/ WaitNudged(w) \/ WaitFails(w) \/ WaitTurn(w)
  <2>1. pc \in Waits /\ (WaitEnds(pc) \/ WaitNudged(pc) \/ WaitFails(pc) \/ WaitTurn(pc))
    BY DEF Wait
  <2> QED
    BY <2>1
<1>2. CASE WaitFails(w)
  <2>1. pc = w /\ alive /\ nudge' = nudge /\ Aborts(1)
        /\ UNCHANGED <<service, req, nudges, queue, recording, step, link, seen, ghosts>>
    BY <1>2 DEF WaitFails, Runner, control
  <2> QED
    BY <2>1, AbortsLocal DEF Turned, Leads, Heeds
<1>3. CASE WaitTurn(w)
  <2>1. pc = w /\ alive /\ nudge' = nudge
        /\ UNCHANGED <<service, req, nudges, queue, recording, step, link, seen, ghosts>>
    BY <1>3 DEF WaitTurn, Runner, control
  <2>2. PICK n \in Judged :
          IF n = 0 THEN fl' = [fl EXCEPT !.ticks = @ + 1] /\ UNCHANGED pc ELSE Aborts(n)
    BY <1>3 DEF WaitTurn
  <2>3. CASE n = 0
    <3>1. fl' = [fl EXCEPT !.ticks = fl.ticks + 1] /\ pc' = pc
      BY <2>2, <2>3
    <3>2. fl.ticks + 1 \in 0 .. MaxTicks
      BY <1>3, LocalFields DEF WaitTurn, CampaignAssumption
    <3>3. fl' \in Local
      BY <3>1, <3>2, SetTicks, Zenon
    <3>4. fl'.sent = fl.sent /\ fl'.nudged = fl.nudged
      BY <3>1 DEF Local
    <3> QED
      BY <2>1, <3>1, <3>3, <3>4 DEF Turned, Leads, Heeds
  <2>4. CASE n # 0
    BY <2>1, <2>2, <2>4, AbortsLocal DEF Turned, Leads, Heeds, Judged
  <2> QED
    BY <2>3, <2>4
<1> QED
  BY <1>1, <1>2, <1>3, EndsTurned, NudgedTurned

-----------------------------------------------------------------------------
(* The type invariant, with the limits.                                    *)

LEMMA TypeInit == Init => Typed /\ Limited
<1> SUFFICES ASSUME Init PROVE Typed /\ Limited
  OBVIOUS
<1>1. drone \in {[prim |-> "IDLE", up |-> FALSE, idle |-> FALSE, traj |-> "none",
                 preset |-> "none", trip |-> FALSE],
                [prim |-> "HOVER", up |-> TRUE, idle |-> FALSE, traj |-> "done",
                 preset |-> "done", trip |-> FALSE]}
  BY DEF Init
<1>2. drone \in Drone
  <2>1. CASE drone = [prim |-> "IDLE", up |-> FALSE, idle |-> FALSE, traj |-> "none",
                      preset |-> "none", trip |-> FALSE]
    BY <2>1, Zenon DEF Drone, Prims, Presets
  <2>2. CASE drone = [prim |-> "HOVER", up |-> TRUE, idle |-> FALSE, traj |-> "done",
                      preset |-> "done", trip |-> FALSE]
    BY <2>2, Zenon DEF Drone, Prims, Presets
  <2> QED
    BY <1>1, <2>1, <2>2, Zenon
<1>3. camp \in Seq(Flight) /\ camp # <<>>
  BY DEF Init, CampaignAssumption
<1>4. QueueOK
  BY <1>3 DEF Init, QueueOK
<1>5. PlaceOK
  <2>1. Len(camp[i].steps) \in Nat
    BY <1>4, CampaignSteps
  <2> QED
    <3>1. step = 0 /\ recording = FALSE /\ pc = "off" /\ "off" \in OnGround
      BY DEF Init, OnGround
    <3>2. 0 \in 0 .. Len(camp[i].steps)
      BY <2>1
    <3> QED
      BY <3>1, <3>2, Zenon DEF PlaceOK
<1>6. seen \in Snapshot
  BY <1>2, StatusIsSnapshot DEF Init
<1>7. ServiceOK
  BY Zenon DEF Init, ServiceOK
<1>a. GhostOK
  BY DEF Init, GhostOK
<1>9. LinkOK
  <2>1. late = <<>> /\ ran \in BOOLEAN
    BY Zenon DEF Init
  <2> QED
    BY <1>2, <2>1 DEF LinkOK, CampaignAssumption
<1>8. ControlOK /\ fl \in Local
  <2>1. req = None /\ nudge = NoNudge /\ nudges = 0 /\ fl = Fresh
    BY DEF Init
  <2> QED
    BY <2>1, NoNudgeIsNudge DEF ControlOK, CampaignAssumption
<1> QED
  BY <1>4, <1>5, <1>6, <1>7, <1>8, <1>9, <1>a DEF Typed, Limited, Init

LEMMA SentType ==
  ASSUME fl \in Local, LinkOK, NEW t \in 0 .. MaxTicks, SendsLand(t)
  PROVE  fl' \in Local /\ LinkOK' /\ ran' = ran /\ drone'.traj = drone.traj /\ last' = "LAND"
         /\ fl'.sent = fl.sent /\ fl'.nudged = fl.nudged
<1>1. PICK ok \in BOOLEAN :
        /\ Call("LAND", ok) /\ fl' = [fl EXCEPT !.landSent = ok, !.ticks = t] /\ last' = "LAND"
  BY DEF SendsLand
<1>2. fl' \in Local
  BY <1>1, SetFlags, SetTicks, Zenon
<1>3. fl'.sent = fl.sent /\ fl'.nudged = fl.nudged
  BY <1>1 DEF Local
<1>4. "LAND" \in Commands /\ "LAND" # "PRESET"
  BY DEF Commands
<1>5. LinkOK' /\ ran' = ran /\ drone'.traj = drone.traj
  BY <1>1, <1>4, CallReaches
<1> QED
  BY <1>1, <1>2, <1>3, <1>5

LEMMA TypeStep == Typed /\ Limited /\ [Next]_vars => Typed' /\ Limited'
<1> SUFFICES ASSUME Typed, Limited, [Next]_vars PROVE Typed' /\ Limited'
  OBVIOUS
<1> USE DEF service, control, queue, link, ghosts, Runner
<1>0. /\ ServiceOK /\ ControlOK /\ QueueOK /\ PlaceOK /\ fl \in Local
      /\ LinkOK /\ seen \in Snapshot /\ GhostOK
  BY DEF Typed
<1>a. CASE Top
  <2>1. ServiceOK' /\ ControlOK' /\ fl' \in Local /\ LinkOK' /\ seen' \in Snapshot /\ GhostOK'
    BY <1>0, <1>a DEF Top, ServiceOK, ControlOK, LinkOK, GhostOK
  <2>2. QueueOK'
    BY <1>0, <1>a DEF Top, QueueOK
  <2>3. PlaceOK' /\ Limited'
    BY <1>0, <1>a DEF Top, PlaceOK, OnGround, Limited
  <2> QED
    BY <2>1, <2>2, <2>3 DEF Typed
<1>b. CASE WaitForGo
  <2>1. ControlOK' /\ fl' \in Local /\ LinkOK' /\ seen' \in Snapshot /\ GhostOK' /\ QueueOK'
    BY <1>0, <1>b DEF WaitForGo, ControlOK, LinkOK, GhostOK, QueueOK
  <2>2. ServiceOK'
    BY <1>0, <1>b, CampaignSteps DEF WaitForGo, ServiceOK
  <2>3. PlaceOK' /\ Limited'
    BY <1>0, <1>b DEF WaitForGo, PlaceOK, OnGround, Limited
  <2> QED
    BY <2>1, <2>2, <2>3 DEF Typed
<1>c. CASE Prepare
  <2>1. /\ ServiceOK' /\ ControlOK' /\ fl' \in Local /\ LinkOK' /\ seen' \in Snapshot /\ GhostOK'
        /\ QueueOK'
    BY <1>0, <1>c, NoNudgeIsNudge DEF Prepare, ServiceOK, ControlOK, LinkOK, GhostOK, QueueOK
  <2>3. Len(camp[i].steps) \in Nat
    BY <1>0, CampaignSteps
  <2>2. PlaceOK' /\ Limited'
    <3>1. /\ pc = "prepare" /\ pc' \in {"done", "ready"} /\ step' \in {step, 0}
          /\ UNCHANGED <<camp, i, aborts>> /\ recording' \in {recording, TRUE}
      BY <1>c DEF Prepare
    <3>2. step' \in 0 .. Len(camp[i].steps)
      BY <1>0, <2>3, <3>1 DEF PlaceOK
    <3> QED
      BY <1>0, <3>1, <3>2 DEF PlaceOK, OnGround, Flying, Limited
  <2> QED
    BY <2>1, <2>2 DEF Typed
<1>d. CASE Ready
  <2>1. ServiceOK' /\ ControlOK' /\ seen' \in Snapshot /\ QueueOK'
    BY <1>0, <1>d, NoNudgeIsNudge DEF Ready, ServiceOK, ControlOK, QueueOK
  <2>a. GhostOK'
    <3>1. UNCHANGED <<last, since, consent>> /\ fresh' \in BOOLEAN
      BY <1>d, Zenon DEF Ready
    <3> QED
      BY <1>0, <3>1 DEF GhostOK
  <2>2. drone' \in Drone
    BY <1>0, <1>d, ReadiedDrone DEF LinkOK
  <2>3. fl' \in Local
    BY <1>0, <1>d, AbortsLocal DEF Ready, Continues
  <2>4. /\ pc = "ready" /\ pc' \in {"tail", "idle", "launch"}
        /\ UNCHANGED <<camp, i, step, aborts, recording, late, ran>>
    BY <1>d DEF Ready, Aborts, Continues
  <2>5. PlaceOK' /\ Limited'
    BY <1>0, <2>4 DEF PlaceOK, Flying, Steps, Waits, Limited
  <2> QED
    BY <1>0, <2>1, <2>2, <2>3, <2>4, <2>5, <2>a DEF Typed, LinkOK
<1>e. CASE TakeOff
  <2>1. ServiceOK' /\ ControlOK' /\ seen' \in Snapshot /\ QueueOK'
    BY <1>0, <1>e DEF TakeOff, ServiceOK, ControlOK, QueueOK
  <2>2. CASE Aborts(1) /\ UNCHANGED <<link, ran, last, since>>
    BY <1>0, <1>e, <2>1, <2>2, AbortsLocal
       DEF TakeOff, Typed, LinkOK, GhostOK, PlaceOK, Flying, Limited
  <2>3. ASSUME NEW ok \in BOOLEAN, Call("TAKEOFF", ok),
               pc' = IF ok THEN "climb" ELSE "tail",
               fl' = [fl EXCEPT !.sent = TRUE, !.level = IF ok THEN 0 ELSE 1],
               last' = "TAKEOFF", since' = IF req # None /\ since < 2 THEN since + 1 ELSE since
        PROVE  Typed' /\ Limited'
    <3> DEFINE x == IF ok THEN 0 ELSE 1
    <3>1. fl' = [fl EXCEPT !.sent = TRUE, !.level = x] /\ x \in {0, 1, 3}
      BY <2>3
    <3> HIDE DEF x
    <3>2. fl' \in Local
      BY <1>0, <3>1, SetFlags, SetLevel, Values, Zenon
    <3>3. LinkOK'
      BY <1>0, <2>3, CallReaches DEF Commands
    <3>4. GhostOK'
      <4>1. since' \in {since, since + 1} /\ (since' = since + 1 => since < 2 \/ since' = since)
        BY <2>3
      <4>2. since' \in 0 .. 2
        BY <1>0, <4>1 DEF GhostOK
      <4> QED
        BY <1>0, <1>e, <2>3, <4>2 DEF GhostOK, TakeOff
    <3>5. PlaceOK' /\ Limited'
      BY <1>0, <1>e, <2>3 DEF TakeOff, PlaceOK, Flying, Steps, Waits, Limited
    <3> QED
      BY <2>1, <3>2, <3>3, <3>4, <3>5 DEF Typed
  <2> QED
    BY <1>e, <2>2, <2>3 DEF TakeOff
<1>f. CASE Wait
  <2>1. PICK w \in Waits : Turned(w)
    BY <1>0, <1>f, WaitTurned DEF ControlOK
  <2>2. ServiceOK' /\ seen' \in Snapshot /\ QueueOK' /\ LinkOK' /\ GhostOK' /\ fl' \in Local
    BY <1>0, <2>1 DEF Turned, ServiceOK, QueueOK, LinkOK, GhostOK
  <2>3. ControlOK'
    BY <1>0, <2>1, NoNudgeIsNudge DEF Turned, Heeds, ControlOK
  <2>4. pc' \in Flying /\ pc' # "next" /\ pc # "done" /\ pc # "over"
    BY <2>1 DEF Turned, Leads, Flying, Steps, Waits
  <2>5. PlaceOK' /\ Limited'
    BY <1>0, <2>1, <2>4 DEF Turned, PlaceOK, Limited
  <2> QED
    BY <2>2, <2>3, <2>5 DEF Typed
<1>g. CASE Start
  <2>1. ServiceOK' /\ ControlOK' /\ seen' \in Snapshot /\ QueueOK' /\ GhostOK'
    BY <1>0, <1>g DEF Start, ServiceOK, ControlOK, QueueOK, GhostOK
  <2>2. LinkOK' /\ fl' \in Local /\ pc' \in {"run", "pstart", "tail"}
    BY <1>0, <1>g, CallReaches, AbortsLocal DEF Start, Continues, Checks, Commands, LinkOK
  <2>3. PlaceOK' /\ Limited'
    BY <1>0, <1>g, <2>2 DEF Start, PlaceOK, Flying, Steps, Waits, Limited
  <2> QED
    BY <2>1, <2>2, <2>3 DEF Typed
<1>h. CASE Write
  <2>1. /\ ServiceOK' /\ ControlOK' /\ seen' \in Snapshot /\ QueueOK' /\ GhostOK' /\ LinkOK'
    BY <1>0, <1>h DEF Write, ServiceOK, ControlOK, QueueOK, GhostOK, LinkOK
  <2>2. fl' \in Local /\ pc' \in {"record", "shake", "tail"}
    BY <1>0, <1>h, AbortsLocal DEF Write, Continues
  <2>3. PlaceOK' /\ Limited'
    BY <1>0, <1>h, <2>2 DEF Write, PlaceOK, Flying, Steps, Waits, Limited
  <2> QED
    BY <2>1, <2>2, <2>3 DEF Typed
<1>i. CASE Record
  <2>1. ServiceOK' /\ seen' \in Snapshot /\ QueueOK'
    BY <1>0, <1>i DEF Record, ServiceOK, QueueOK
  <2>2. fl' \in Local
    BY <1>0, <1>i, SetNudged, NoNudgeIsNudge DEF Record
  <2>3. ControlOK' /\ GhostOK' /\ LinkOK'
    BY <1>0, <1>i, NoNudgeIsNudge DEF Record, NextStep, ControlOK, GhostOK, LinkOK
  <2>4. CASE step < Len(camp[i].steps) /\ NextStep
    <3>1. step' \in 1 .. Len(camp[i].steps) /\ step' = step + 1
      BY <1>0, <2>4, CampaignSteps DEF NextStep, PlaceOK
    <3>2. camp[i].steps[step + 1] \in Kinds
      BY <1>0, <3>1, CampaignSteps
    <3>3. pc' \in Steps
      BY <2>4, <3>2 DEF NextStep, Entry, Kinds, Steps, Waits
    <3> QED
      BY <1>0, <1>i, <2>1, <2>2, <2>3, <3>1, <3>3
         DEF Record, Typed, PlaceOK, Flying, Limited, Steps, Waits
  <2>5. CASE UNCHANGED step /\ pc' \in {"ophold", "land"}
    BY <1>0, <1>i, <2>1, <2>2, <2>3, <2>5
       DEF Record, Typed, PlaceOK, Flying, Limited, Steps, Waits
  <2> QED
    BY <1>i, <2>4, <2>5 DEF Record
<1>j. CASE StopPaths
  <2>1. drone' \in Drone
    <3> DEFINE x == IF drone.prim = "TRAJ" THEN "HOVER" ELSE drone.prim
    <3>1. drone' = drone \/ drone' = [drone EXCEPT !.prim = x]
      BY <1>j DEF StopPaths
    <3>2. x \in Prims
      BY <1>0, DroneFields, Values DEF LinkOK
    <3> HIDE DEF x
    <3> QED
      BY <1>0, <3>1, <3>2, SetPrim DEF LinkOK
  <2> QED
    BY <1>0, <1>j, <2>1
       DEF StopPaths, Typed, ServiceOK, ControlOK, QueueOK, PlaceOK, LinkOK, GhostOK, Flying, Limited
<1>k. CASE Land
  <2>0. last' \in {last, "LAND"}
    BY <1>k DEF Land, SendsLand
  <2>1. ServiceOK' /\ seen' \in Snapshot /\ QueueOK' /\ GhostOK'
    BY <1>0, <1>k, <2>0 DEF Land, ServiceOK, QueueOK, GhostOK
  <2>6. ControlOK'
    BY <1>0, <1>k, NoNudgeIsNudge DEF Land, ControlOK, CampaignAssumption
  <2>2. ASSUME SendsLand(0) PROVE LinkOK' /\ fl' \in Local
    BY <1>0, <2>2, SentType DEF CampaignAssumption
  <2>3. ASSUME fl' = [fl EXCEPT !.landed = TRUE], UNCHANGED <<link, ran>>
        PROVE  LinkOK' /\ fl' \in Local
    BY <1>0, <2>3, SetFlags, Values DEF LinkOK
  <2>4. LinkOK' /\ fl' \in Local
    BY <1>k, <2>2, <2>3 DEF Land
  <2>5. PlaceOK' /\ Limited'
    BY <1>0, <1>k DEF Land, PlaceOK, Flying, OnGround, Limited
  <2> QED
    BY <2>1, <2>4, <2>5, <2>6 DEF Typed
<1>l. CASE Landing
  <2>1. /\ ServiceOK' /\ seen' \in Snapshot /\ QueueOK' /\ GhostOK' /\ ControlOK'
    BY <1>0, <1>l DEF Landing, SendsLand, ServiceOK, QueueOK, GhostOK, ControlOK
  <2>2. ASSUME fl.ticks < MaxTicks, SendsLand(fl.ticks + 1)
        PROVE  LinkOK' /\ fl' \in Local
    <3>1. fl.ticks + 1 \in 0 .. MaxTicks
      BY <1>0, <2>2, LocalFields DEF CampaignAssumption
    <3> QED
      BY <1>0, <2>2, <3>1, SentType
  <2>3. ASSUME fl.ticks < MaxTicks, fl' = [fl EXCEPT !.ticks = fl.ticks + 1], UNCHANGED <<link, ran>>
        PROVE  LinkOK' /\ fl' \in Local
    <3>1. fl.ticks + 1 \in 0 .. MaxTicks
      BY <1>0, <2>3, LocalFields DEF CampaignAssumption
    <3> QED
      BY <1>0, <2>3, <3>1, SetTicks, Zenon DEF LinkOK
  <2>4. ASSUME fl' = [fl EXCEPT !.landed = TRUE], UNCHANGED <<link, ran>>
        PROVE  LinkOK' /\ fl' \in Local
    BY <1>0, <2>4, SetFlags, Values DEF LinkOK
  <2>5. ASSUME UNCHANGED <<fl, link, ran>>
        PROVE  LinkOK' /\ fl' \in Local
    BY <1>0, <2>5 DEF LinkOK
  <2>6. LinkOK' /\ fl' \in Local
    BY <1>l, <2>2, <2>3, <2>4, <2>5 DEF Landing
  <2>7. PlaceOK' /\ Limited'
    BY <1>0, <1>l DEF Landing, PlaceOK, Flying, OnGround, Limited
  <2> QED
    BY <2>1, <2>6, <2>7 DEF Typed
<1>m. CASE Judge
  <2>1. ServiceOK' /\ seen' \in Snapshot /\ GhostOK' /\ ControlOK' /\ LinkOK'
    BY <1>0, <1>m DEF Judge, ServiceOK, GhostOK, ControlOK, LinkOK
  <2>2. QueueOK' /\ Limited'
    BY <1>0, <1>m DEF Judge, QueueOK, Limited
  <2>3. fl' \in Local
    BY <1>0, <1>m, SetLevel, SetFlags, LocalFields, NoNudgeIsNudge, Zenon DEF Judge
  <2>5. Len(camp[i].steps) \in Nat
    BY <1>0, CampaignSteps
  <2>4. PlaceOK'
    <3>1. step' = 0 /\ recording' = FALSE /\ pc' \in {"done", "next"} /\ UNCHANGED <<camp, i>>
      BY <1>m DEF Judge
    <3>2. 0 \in 0 .. Len(camp[i].steps)
      BY <2>5
    <3>3. pc' \in OnGround
      BY <3>1 DEF OnGround
    <3> QED
      BY <3>1, <3>2, <3>3, Zenon DEF PlaceOK
  <2> QED
    BY <2>1, <2>2, <2>3, <2>4 DEF Typed
<1>n. CASE AutoNext
  <2>1. ServiceOK' /\ seen' \in Snapshot /\ GhostOK' /\ ControlOK' /\ LinkOK' /\ fl' \in Local
    BY <1>0, <1>n DEF AutoNext, ServiceOK, GhostOK, ControlOK, LinkOK
  <2>2. needGo' \in BOOLEAN
    BY <1>n DEF AutoNext
  <2>3. QueueOK'
    BY <1>0, <1>n, <2>2, CampaignSteps DEF AutoNext, QueueOK
  <2>4. Len(camp[i'].steps) \in Nat
    <3>1. camp \in Seq(Flight) /\ i' \in 1 .. Len(camp)
      BY <1>0, <1>n, <2>3, CampaignSteps DEF AutoNext, QueueOK
    <3>2. camp[i'] \in Flight
      BY <3>1
    <3> QED
      BY <3>2 DEF Flight
  <2>5. PlaceOK' /\ Limited'
    BY <1>0, <1>n, <2>4 DEF AutoNext, PlaceOK, OnGround, Limited
  <2> QED
    BY <2>1, <2>3, <2>5 DEF Typed
<1>o. CASE Finish
  <2>1. /\ alive' = FALSE /\ pc \in {"done", "raised"} /\ pc' \in {"over", "failed"}
        /\ pc = "done" => pc' = "over"
        /\ UNCHANGED <<waiting, grant, control, queue, recording, step, fl, link, seen, ghosts>>
    BY <1>o DEF Finish
  <2>2. PlaceOK'
    <3>1. UNCHANGED <<recording, camp, i, step>> /\ pc' \in OnGround \union {"raised", "failed"}
      BY <2>1 DEF OnGround
    <3>2. recording' \in BOOLEAN /\ step' \in 0 .. Len(camp'[i'].steps)
      BY <1>0, <3>1 DEF PlaceOK
    <3>3. pc' \in Flying \union OnGround \union {"raised", "failed"}
      BY <3>1
    <3> QED
      BY <3>2, <3>3 DEF PlaceOK
  <2>4. Limited'
    BY <2>1 DEF Limited
  <2>3. ServiceOK' /\ ControlOK' /\ QueueOK' /\ LinkOK' /\ GhostOK'
    BY <1>0, <2>1 DEF ServiceOK, ControlOK, QueueOK, LinkOK, GhostOK
  <2> QED
    BY <1>0, <2>1, <2>2, <2>3, <2>4 DEF Typed
<1>x. CASE Raise
  <2>1. Len(camp[i].steps) \in Nat
    BY <1>0, CampaignSteps
  <2>2. /\ pc \in Flying /\ pc' = "raised" /\ step' = 0 /\ recording' = FALSE
        /\ UNCHANGED <<camp, i, aborts>>
    BY <1>x DEF Raise
  <2>3. PlaceOK'
    <3>1. step' \in 0 .. Len(camp'[i'].steps)
      BY <2>1, <2>2
    <3>2. pc' \in Flying \union OnGround \union {"raised", "failed"} /\ recording' \in BOOLEAN
      BY <2>2
    <3> QED
      BY <3>1, <3>2 DEF PlaceOK
  <2>4. Limited'
    BY <2>2 DEF Limited, Flying, Steps, Waits
  <2> QED
    BY <1>0, <1>x, <2>3, <2>4, NoNudgeIsNudge
       DEF Raise, Typed, ServiceOK, ControlOK, QueueOK, LinkOK, GhostOK
<1>y. CASE Upload
  <2>1. ServiceOK' /\ ControlOK' /\ seen' \in Snapshot /\ QueueOK' /\ GhostOK'
    BY <1>0, <1>y DEF Upload, ServiceOK, ControlOK, QueueOK, GhostOK
  <2>2. LinkOK'
    BY <1>0, <1>y, UploadedDrone DEF Upload, LinkOK
  <2>3. fl' \in Local /\ pc' \in {"start", "tail"}
    BY <1>0, <1>y, AbortsLocal DEF Upload, Continues
  <2>4. PlaceOK' /\ Limited'
    BY <1>0, <1>y, <2>3 DEF Upload, PlaceOK, Flying, Steps, Waits, Limited
  <2> QED
    BY <2>1, <2>2, <2>3, <2>4 DEF Typed
<1>p. CASE Launch
  BY <1>0, <1>p, CampaignSteps
     DEF Launch, Typed, ServiceOK, ControlOK, QueueOK, PlaceOK, LinkOK, GhostOK, Limited, OnGround
<1>q. ASSUME NEW p \in Packs, Go(p) PROVE Typed' /\ Limited'
  BY <1>0, <1>q
     DEF Go, Granted, Typed, ServiceOK, ControlOK, QueueOK, PlaceOK, LinkOK, GhostOK, Limited
<1>r. ASSUME NEW r \in Requests, Ask(r) PROVE Typed' /\ Limited'
  BY <1>0, <1>r
     DEF Ask, Typed, ServiceOK, ControlOK, QueueOK, PlaceOK, LinkOK, GhostOK, Limited
<1>s. ASSUME NEW n \in Nudges, Press(n) PROVE Typed' /\ Limited'
  <2>1. nudge' \in Nudge
    BY <1>0, <1>s, CampaignSteps DEF Press, Nudge, PlaceOK
  <2>2. nudges' \in 0 .. MaxNudges
    BY <1>0, <1>s DEF Press, ControlOK, CampaignAssumption
  <2> QED
    BY <1>0, <1>s, <2>1, <2>2
       DEF Press, Typed, ServiceOK, ControlOK, QueueOK, PlaceOK, LinkOK, GhostOK, Limited
<1>t. CASE Deliver
  <2>1. Head(late) \in Commands /\ Tail(late) \in Seq(Commands) /\ Len(Tail(late)) <= MaxLate
    BY <1>0, <1>t DEF Deliver, LinkOK, CampaignAssumption
  <2>2. LinkOK'
    BY <1>0, <1>t, <2>1, ReceivedReaches DEF Deliver, LinkOK, Reached
  <2> QED
    BY <1>0, <1>t, <2>2
       DEF Deliver, Typed, ServiceOK, ControlOK, QueueOK, PlaceOK, GhostOK, Limited
<1>u. CASE DroneStep
  <2>1. drone' \in Drone
    BY <1>0, <1>u, DroneSteps DEF DroneStep, LinkOK
  <2> QED
    BY <1>0, <1>u, <2>1
       DEF DroneStep, Typed, ServiceOK, ControlOK, QueueOK, PlaceOK, LinkOK, GhostOK, Limited
<1>v. CASE Stream
  <2>1. seen' \in Snapshot
    BY <1>0, <1>v, StatusIsSnapshot DEF Stream, LinkOK
  <2> QED
    BY <1>0, <1>v, <2>1
       DEF Stream, Typed, ServiceOK, ControlOK, QueueOK, PlaceOK, LinkOK, GhostOK, Limited
<1>w. CASE UNCHANGED vars
  BY <1>0, <1>w
     DEF vars, Typed, ServiceOK, ControlOK, QueueOK, PlaceOK, LinkOK, GhostOK, Limited
<1> QED
  BY <1>a, <1>b, <1>c, <1>d, <1>e, <1>f, <1>g, <1>h, <1>i, <1>j, <1>k, <1>l, <1>m, <1>n, <1>o,
     <1>p, <1>q, <1>r, <1>s, <1>t, <1>u, <1>v, <1>w, <1>x, <1>y DEF Next, RunnerStep, Operator

-----------------------------------------------------------------------------
(* LandFollowsTakeoff.  A TAKEOFF that went out is remembered by the       *)
(* flight until the landing, which sends LAND on nothing but that memory;  *)
(* an exception is the only way past it.                                   *)

Remembered ==
  last = "TAKEOFF" => \/ pc \in {"raised", "failed"}
                      \/ fl.sent /\ pc \in (Steps \ {"idle", "launch"}) \union {"tail", "land"}

LEMMA RememberedStep == Typed /\ Remembered /\ [Next]_vars => Remembered'
<1> SUFFICES ASSUME Typed, Remembered, [Next]_vars PROVE Remembered'
  OBVIOUS
<1> USE DEF service, control, queue, link, ghosts, Runner, Remembered, Steps, Waits
<1>0. /\ ControlOK /\ QueueOK /\ PlaceOK /\ fl \in Local /\ LinkOK /\ seen \in Snapshot
  BY DEF Typed
<1>a. CASE Top \/ WaitForGo \/ Prepare \/ Judge \/ AutoNext \/ Finish \/ Raise \/ Launch
  BY <1>a DEF Top, WaitForGo, Prepare, Judge, AutoNext, Finish, Raise, Launch
<1>y. CASE Upload
  BY <1>0, <1>y, AbortsLocal DEF Upload, Continues
<1>d. CASE Ready
  BY <1>d DEF Ready
<1>e. CASE TakeOff
  <2>1. CASE Aborts(1) /\ UNCHANGED last
    BY <1>0, <1>e, <2>1, AbortsLocal DEF TakeOff
  <2>2. ASSUME NEW ok \in BOOLEAN, pc' = IF ok THEN "climb" ELSE "tail",
               fl' = [fl EXCEPT !.sent = TRUE, !.level = IF ok THEN 0 ELSE 1]
        PROVE  Remembered'
    BY <1>0, <2>2 DEF Local
  <2> QED
    BY <1>e, <2>1, <2>2 DEF TakeOff
<1>f. CASE Wait
  <2>1. PICK w \in Waits : Turned(w)
    BY <1>0, <1>f, WaitTurned DEF ControlOK
  <2> QED
    BY <2>1 DEF Turned, Leads
<1>g. CASE Start
  BY <1>0, <1>g, AbortsLocal DEF Start, Continues, Checks
<1>h. CASE Write
  BY <1>0, <1>h, AbortsLocal DEF Write, Continues
<1>i. CASE Record
  <2>1. fl'.sent = fl.sent /\ pc = "record" /\ last' = last
    BY <1>0, <1>i DEF Record, Local
  <2>2. CASE NextStep /\ step < Len(camp[i].steps)
    <3>1. camp[i].steps[step + 1] \in Kinds
      BY <1>0, <2>2, CampaignSteps DEF PlaceOK
    <3> QED
      BY <2>1, <2>2, <3>1 DEF NextStep, Entry, Kinds
  <2> QED
    BY <1>i, <2>1, <2>2 DEF Record
<1>j. CASE StopPaths
  BY <1>j DEF StopPaths
<1>k. CASE Land \/ Landing
  BY <1>0, <1>k DEF Land, Landing, SendsLand, NeedsLand
<1>q. ASSUME NEW p \in Packs, Go(p) PROVE Remembered'
  BY <1>q DEF Go, Granted
<1>r. ASSUME NEW r \in Requests, Ask(r) PROVE Remembered'
  BY <1>r DEF Ask
<1>s. ASSUME NEW n \in Nudges, Press(n) PROVE Remembered'
  BY <1>s DEF Press
<1>t. CASE Deliver \/ DroneStep \/ Stream
  BY <1>t DEF Deliver, DroneStep, Stream
<1>w. CASE UNCHANGED vars
  BY <1>w DEF vars
<1> QED
  BY <1>a, <1>d, <1>e, <1>f, <1>g, <1>h, <1>i, <1>j, <1>k, <1>q, <1>r, <1>s, <1>t, <1>w, <1>y
     DEF Next, RunnerStep, Operator

-----------------------------------------------------------------------------
(* FliesByConsent.  A Go is taken only where the runner waits for it, and  *)
(* from then on the pack is the one the operator meant until the next      *)
(* flight asks again.                                                      *)

Consented ==
  /\ pc \in {"prepare", "judge"} \union Flying => consent = camp[i].pack
  /\ pc = "next" /\ fl.level = 0 => consent = camp[i].pack
  /\ pc = "top" /\ ~needGo => i > 1 /\ consent = camp[i - 1].pack
  /\ pc = "off" => i = 1 /\ needGo
  /\ waiting # None => pc = "go" /\ waiting = camp[i].pack
  /\ grant # None => /\ pc \in {"top", "go", "done", "over"}
                     /\ grant = camp[i].pack /\ consent = grant
                     /\ pc = "top" => i = 1

LEMMA ConsentedStep == Typed /\ Consented /\ [Next]_vars => Consented'
<1> SUFFICES ASSUME Typed, Consented, [Next]_vars PROVE Consented'
  OBVIOUS
<1> USE DEF service, control, queue, link, ghosts, Runner, Flying, Steps, Waits
<1>0. /\ ControlOK /\ QueueOK /\ PlaceOK /\ fl \in Local /\ LinkOK /\ seen \in Snapshot
  BY DEF Typed
<1>1. camp[i].pack # None /\ i \in Nat
  BY <1>0, CampaignSteps DEF CampaignAssumption
(* The steps that leave the consent, the flight and the place of the Go    *)
(* alone.                                                                  *)
<1>2. ASSUME UNCHANGED <<consent, camp, i, needGo, waiting, grant>>,
             pc \in Flying, pc' \in Flying \union {"judge"}
      PROVE  Consented'
  BY <1>2 DEF Consented
<1>3. ASSUME UNCHANGED <<consent, camp, i, needGo, waiting, grant, pc, fl>> PROVE Consented'
  BY <1>3 DEF Consented
<1>a. CASE Top
  BY <1>0, <1>1, <1>a DEF Top, Consented
<1>b. CASE WaitForGo
  BY <1>0, <1>1, <1>b DEF WaitForGo, Consented
<1>c. CASE Prepare
  BY <1>c DEF Prepare, Consented
<1>d. CASE Ready \/ TakeOff
  BY <1>2, <1>d DEF Ready, TakeOff, Aborts, Continues
<1>f. CASE Wait
  <2>1. PICK w \in Waits : Turned(w)
    BY <1>0, <1>f, WaitTurned DEF ControlOK
  <2> QED
    BY <1>2, <2>1 DEF Turned, Leads
<1>g. CASE Upload \/ Start \/ Write
  BY <1>2, <1>g DEF Upload, Start, Write, Continues, Checks, Aborts
<1>i. CASE Record
  <2>1. CASE NextStep /\ step < Len(camp[i].steps)
    <3>1. camp[i].steps[step + 1] \in Kinds
      BY <1>0, <2>1, CampaignSteps DEF PlaceOK
    <3>2. pc' \in Flying
      BY <2>1, <3>1 DEF NextStep, Entry, Kinds
    <3> QED
      BY <1>2, <1>i, <3>2 DEF Record
  <2> QED
    BY <1>2, <1>i, <2>1 DEF Record
<1>j. CASE StopPaths \/ Land \/ Landing
  BY <1>2, <1>j DEF StopPaths, Land, Landing
<1>m. CASE Judge
  <2>1. /\ pc = "judge" /\ pc' \in {"done", "next"}
        /\ UNCHANGED <<waiting, grant, camp, i, needGo>>
        /\ consent' = IF fl.level = 0 THEN consent ELSE None
    BY <1>m DEF Judge
  <2>2. fl' = [Fresh EXCEPT !.level = fl.level, !.landed = fl.landed]
    BY <1>m DEF Judge
  <2>3. fl'.level = fl.level
    BY <2>2, NoNudgeIsNudge DEF Local
  <2> QED
    BY <2>1, <2>3 DEF Consented
<1>n. CASE AutoNext
  <2>1. /\ pc = "next" /\ pc' \in {"done", "top"}
        /\ UNCHANGED <<waiting, grant, camp, fl>>
        /\ consent' = IF needGo' THEN None ELSE consent
        /\ pc' = "top" => i' = i + 1
    BY <1>n DEF AutoNext
  <2>2. fl.level # 0 => needGo'
    <3>1. PICK asks \in BOOLEAN :
            needGo' = (asks \/ req # None \/ fl.level # 0 \/ seen.prim # "IDLE" \/ seen.trip)
      BY <1>n, Zenon DEF AutoNext
    <3> QED
      BY <3>1, Zenon
  <2>3. ~needGo' => consent' = camp[i].pack
    BY <2>1, <2>2 DEF Consented
  <2>4. pc' = "top" => i' > 1 /\ i' - 1 = i
    BY <1>0, <2>1 DEF QueueOK
  <2>5. grant' = None /\ waiting' = None /\ camp' = camp
    BY <2>1 DEF Consented
  <2> QED
    BY <2>1, <2>3, <2>4, <2>5 DEF Consented
<1>o. CASE Finish \/ Raise
  BY <1>o DEF Finish, Raise, Consented
<1>p. CASE Launch
  BY <1>p DEF Launch, Consented
<1>q. ASSUME NEW p \in Packs, Go(p) PROVE Consented'
  BY <1>q DEF Go, Granted, Consented, CampaignAssumption
<1>r. ASSUME NEW r \in Requests, Ask(r) PROVE Consented'
  BY <1>3, <1>r DEF Ask
<1>s. ASSUME NEW n \in Nudges, Press(n) PROVE Consented'
  BY <1>3, <1>s DEF Press
<1>t. CASE Deliver \/ DroneStep \/ Stream
  BY <1>3, <1>t DEF Deliver, DroneStep, Stream
<1>w. CASE UNCHANGED vars
  BY <1>3, <1>w DEF vars
<1> QED
  BY <1>a, <1>b, <1>c, <1>d, <1>f, <1>g, <1>i, <1>j, <1>m, <1>n, <1>o, <1>p, <1>q, <1>r, <1>s, <1>t, <1>w
     DEF Next, RunnerStep, Operator

-----------------------------------------------------------------------------
(* OneFlightAfterAStop.  A request is never withdrawn, and every flight    *)
(* ends by looking at it.                                                  *)

Stopped ==
  /\ since <= 1
  /\ since > 0 => /\ req # None
                  /\ pc \in (Flying \ {"ready", "idle", "launch"}) \union {"judge", "done", "over", "raised", "failed"}

LEMMA StoppedStep == Typed /\ Stopped /\ [Next]_vars => Stopped'
<1> SUFFICES ASSUME Typed, Stopped, [Next]_vars PROVE Stopped'
  OBVIOUS
<1> USE DEF service, control, queue, link, ghosts, Runner, Flying, Steps, Waits
<1>0. /\ ControlOK /\ QueueOK /\ PlaceOK /\ fl \in Local /\ LinkOK /\ GhostOK
  BY DEF Typed
<1>1. since \in Nat
  BY <1>0 DEF GhostOK
<1>2. ASSUME UNCHANGED <<since, req>>,
             pc' \in (Flying \ {"ready", "idle", "launch"}) \union {"judge", "done", "over", "raised", "failed", pc}
      PROVE  Stopped'
  BY <1>2 DEF Stopped
<1>a. CASE Top \/ WaitForGo \/ Prepare \/ AutoNext \/ Launch \/ Ready
  BY <1>1, <1>a DEF Top, WaitForGo, Prepare, AutoNext, Launch, Ready, Continues, Aborts, Stopped
<1>e. CASE TakeOff
  <2>1. CASE Aborts(1) /\ UNCHANGED since
    BY <1>2, <1>e, <2>1 DEF TakeOff, Aborts
  <2>2. CASE /\ since' = IF req # None /\ since < 2 THEN since + 1 ELSE since
             /\ pc' \in {"climb", "tail"}
    <3>0. pc = "launch" /\ req' = req
      BY <1>e DEF TakeOff
    <3>1. since = 0 /\ req' = req
      BY <1>1, <3>0 DEF Stopped
    <3>2. CASE req # None
      <4>1. since' = 1
        BY <2>2, <3>1, <3>2
      <4> QED
        BY <2>2, <3>1, <3>2, <4>1 DEF Stopped
    <3>3. CASE req = None
      <4>1. since' = 0
        BY <2>2, <3>1, <3>3
      <4> QED
        BY <4>1 DEF Stopped
    <3> QED
      BY <3>2, <3>3
  <2> QED
    BY <1>e, <2>1, <2>2 DEF TakeOff
<1>f. CASE Wait
  <2>1. PICK w \in Waits : Turned(w)
    BY <1>0, <1>f, WaitTurned DEF ControlOK
  <2>2. pc' = "launch" => pc = "idle"
    BY <2>1 DEF Turned, Leads
  <2> QED
    BY <2>1, <2>2 DEF Turned, Leads, Stopped
<1>g. CASE Upload \/ Start \/ Write
  BY <1>2, <1>g DEF Upload, Start, Write, Continues, Checks, Aborts
<1>i. CASE Record
  <2>1. CASE NextStep /\ step < Len(camp[i].steps)
    <3>1. camp[i].steps[step + 1] \in Kinds
      BY <1>0, <2>1, CampaignSteps DEF PlaceOK
    <3>2. pc' \in Flying \ {"ready", "idle", "launch"}
      BY <2>1, <3>1 DEF NextStep, Entry, Kinds
    <3> QED
      BY <1>2, <1>i, <3>2 DEF Record
  <2> QED
    BY <1>2, <1>i, <2>1 DEF Record
<1>j. CASE StopPaths \/ Land \/ Landing
  BY <1>2, <1>j DEF StopPaths, Land, Landing
<1>m. CASE Judge
  <2>1. pc' \in {"done", "next"} /\ (req # None => pc' = "done") /\ UNCHANGED <<since, req>>
    BY <1>m DEF Judge, ControlReport
  <2> QED
    BY <1>1, <2>1 DEF Stopped
<1>o. CASE Finish \/ Raise
  BY <1>2, <1>o DEF Finish, Raise
<1>q. ASSUME NEW p \in Packs, Go(p) PROVE Stopped'
  BY <1>2, <1>q DEF Go, Granted
<1>r. ASSUME NEW r \in Requests, Ask(r) PROVE Stopped'
  BY <1>r DEF Ask, Stopped, Requests, None
<1>s. ASSUME NEW n \in Nudges, Press(n) PROVE Stopped'
  BY <1>2, <1>s DEF Press
<1>t. CASE Deliver \/ DroneStep \/ Stream
  BY <1>2, <1>t DEF Deliver, DroneStep, Stream
<1>w. CASE UNCHANGED vars
  BY <1>2, <1>w DEF vars
<1> QED
  BY <1>a, <1>e, <1>f, <1>g, <1>i, <1>j, <1>m, <1>o, <1>q, <1>r, <1>s, <1>t, <1>w
     DEF Next, RunnerStep, Operator

-----------------------------------------------------------------------------
(* NudgeIsOfThisStep.  What is posted in a step is gone before the next:   *)
(* a step begins by discarding it, and so do a flight and its landing.     *)

Pressed ==
  /\ nudge # NoNudge => \/ pc \in {"raised", "failed"}
                        \/ nudge.at = <<i, step>> /\ pc \in Steps \union {"tail", "land"}
  /\ fl.nudged # NoNudge => fl.nudged.at = <<i, step>> /\ pc \in {"pstop", "record"}

LEMMA PressedStep == Typed /\ Pressed /\ [Next]_vars => Pressed'
<1> SUFFICES ASSUME Typed, Pressed, [Next]_vars PROVE Pressed'
  OBVIOUS
<1> USE DEF service, control, queue, link, ghosts, Runner, Steps, Waits
<1>0. /\ ControlOK /\ QueueOK /\ PlaceOK /\ fl \in Local /\ LinkOK
  BY DEF Typed
(* Outside a flight nothing is posted and nothing remembered.              *)
<1>2. ASSUME nudge' = nudge, fl' = fl, pc \in OnGround PROVE Pressed'
  BY <1>2 DEF Pressed, OnGround
<1>3. ASSUME UNCHANGED <<nudge, i, step>>, fl'.nudged = NoNudge,
             pc \notin {"raised", "failed"}, pc' \in Steps \union {"tail", "land"}
      PROVE  Pressed'
  BY <1>3 DEF Pressed
<1>4. ASSUME UNCHANGED <<nudge, i, step, fl, pc>> PROVE Pressed'
  BY <1>4 DEF Pressed
<1>5. ASSUME nudge' = NoNudge, fl'.nudged = NoNudge PROVE Pressed'
  BY <1>5 DEF Pressed
<1>6. pc \notin {"pstop", "record"} => fl.nudged = NoNudge
  BY DEF Pressed
<1>7. pc \notin Steps \union {"tail", "land", "raised", "failed"} => nudge = NoNudge
  BY DEF Pressed
<1>a. CASE Top \/ WaitForGo \/ AutoNext \/ Launch
  BY <1>2, <1>a DEF Top, WaitForGo, AutoNext, Launch, OnGround
<1>c. CASE Prepare
  <2>1. Fresh.nudged = NoNudge
    BY DEF Fresh
  <2>2. nudge' = NoNudge /\ fl' \in {fl, Fresh}
    BY <1>7, <1>c DEF Prepare
  <2> QED
    BY <1>5, <1>6, <1>c, <2>1, <2>2 DEF Prepare
<1>d. CASE Ready
  <2>1. fl' = fl \/ fl'.nudged = NoNudge
    BY <1>0, <1>d, AbortsLocal DEF Ready, Continues
  <2> QED
    BY <1>5, <1>6, <1>d, <2>1 DEF Ready
<1>e. CASE TakeOff
  <2>1. ASSUME NEW ok \in BOOLEAN, fl' = [fl EXCEPT !.sent = TRUE, !.level = IF ok THEN 0 ELSE 1]
        PROVE  fl'.nudged = fl.nudged
    BY <1>0, <2>1 DEF Local
  <2>2. fl'.nudged = NoNudge
    BY <1>0, <1>6, <1>e, <2>1, AbortsLocal DEF TakeOff
  <2>3. pc' \in {"climb", "tail"} /\ UNCHANGED <<nudge, i, step>>
    BY <1>e DEF TakeOff, Aborts
  <2> QED
    BY <1>3, <1>e, <2>2, <2>3 DEF TakeOff
<1>f. CASE Wait
  <2>1. PICK w \in Waits : Turned(w)
    BY <1>0, <1>f, WaitTurned DEF ControlOK
  <2>2. pc = w /\ UNCHANGED <<i, step>> /\ pc' \in Steps \union {"tail", "land"} /\ Heeds(w)
    BY <2>1 DEF Turned, Leads
  <2>3. CASE fl'.nudged = NoNudge /\ nudge' = nudge
    BY <1>3, <2>2, <2>3
  <2>4. CASE /\ nudge # NoNudge /\ fl'.nudged = nudge /\ nudge' = NoNudge
             /\ pc' \in {"pstop", "record"}
    BY <2>2, <2>4 DEF Pressed
  <2>5. CASE fl'.nudged = fl.nudged /\ nudge' = nudge /\ (w # "pstop" \/ pc' \in {"pstop", "record"})
    BY <1>6, <2>2, <2>5 DEF Pressed
  <2> QED
    BY <2>2, <2>3, <2>4, <2>5 DEF Heeds
<1>g. CASE Upload \/ Start \/ Write
  <2>1. fl'.nudged = NoNudge
    BY <1>0, <1>6, <1>g, AbortsLocal DEF Upload, Start, Write, Continues, Checks
  <2> QED
    BY <1>3, <1>g, <2>1 DEF Upload, Start, Write, Continues, Checks, Aborts
<1>i. CASE Record
  <2>1. fl'.nudged = NoNudge
    BY <1>0, <1>i DEF Record, Local
  <2>2. CASE NextStep
    BY <1>5, <2>1, <2>2 DEF NextStep
  <2>3. CASE UNCHANGED <<step, nudge>> /\ pc' \in {"ophold", "land"}
    BY <1>3, <1>i, <2>1, <2>3 DEF Record
  <2> QED
    BY <1>i, <2>2, <2>3 DEF Record
<1>j. CASE StopPaths
  BY <1>3, <1>6, <1>j DEF StopPaths
<1>k. CASE Land \/ Landing
  <2>1. nudge' = NoNudge
    BY <1>7, <1>k DEF Land, Landing
  <2>2. fl.nudged = NoNudge
    BY <1>6, <1>k DEF Land, Landing
  <2>3. ASSUME NEW t, SendsLand(t) PROVE fl'.nudged = fl.nudged
    BY <1>0, <2>3 DEF SendsLand, Local
  <2>4. fl'.nudged = fl.nudged
    BY <1>0, <1>k, <2>3 DEF Land, Landing, Local
  <2> QED
    BY <1>5, <2>1, <2>2, <2>4
<1>m. CASE Judge
  <2>1. fl' = [Fresh EXCEPT !.level = fl.level, !.landed = fl.landed] /\ nudge' = NoNudge
    BY <1>7, <1>m DEF Judge
  <2>2. fl'.nudged = NoNudge
    BY <2>1, FreshIsNew, NoNudgeIsNudge DEF Local
  <2> QED
    BY <1>5, <2>1, <2>2
<1>o. CASE Finish
  BY <1>6, <1>7, <1>o DEF Finish, Pressed
<1>p. CASE Raise
  BY <1>p, FreshIsNew DEF Raise, Pressed
<1>q. ASSUME NEW p \in Packs, Go(p) PROVE Pressed'
  BY <1>4, <1>q DEF Go, Granted
<1>r. ASSUME NEW r \in Requests, Ask(r) PROVE Pressed'
  BY <1>4, <1>r DEF Ask
<1>s. ASSUME NEW n \in Nudges, Press(n) PROVE Pressed'
  BY <1>s DEF Press, Pressed
<1>t. CASE Deliver \/ DroneStep \/ Stream
  BY <1>4, <1>t DEF Deliver, DroneStep, Stream
<1>w. CASE UNCHANGED vars
  BY <1>4, <1>w DEF vars
<1> QED
  BY <1>a, <1>c, <1>d, <1>e, <1>f, <1>g, <1>i, <1>j, <1>k, <1>m, <1>o, <1>p, <1>q, <1>r, <1>s,
     <1>t, <1>w DEF Next, RunnerStep, Operator

-----------------------------------------------------------------------------
(* StepsAreFlown.  The place of the runner tells the kind of its step; a   *)
(* status streamed since the last upload is of that path or says less than *)
(* the drone knows; the idle motors the gate waits for are seen before the *)
(* take-off, so that what is seen of a flight that flies was streamed in   *)
(* it; and a preset that was refused stays refused.                        *)

Resting(d) == d.idle => d.prim = "IDLE"

Kind == camp[i].steps[step]

Placed ==
  /\ pc \in {"ready", "idle", "launch", "climb"} => step = 0
  /\ pc = "upload" => ~Preloaded
  /\ step > 0 =>
       /\ pc \in {"settle", "start"} => Kind \in {"traj", "preset"}
       /\ pc \in {"upload", "run"} => Kind = "traj"
       /\ pc \in {"pstart", "prun", "pstop"} => Kind = "preset"
       /\ pc \in {"hold", "set", "origin", "excite", "shake", "tune"} => Kind \notin {"traj", "preset"}

Current ==
  /\ Resting(drone) /\ Resting(seen)
  /\ fresh /\ seen.traj = "done" => drone.traj = "done"

Gated ==
  pc \in Steps \ {"idle", "launch"} /\ camp[i].gated /\ Preloaded /\ seen.prim # "IDLE" => fresh

Refused ==
  /\ pc \in {"pstart", "prun", "pstop"} /\ ~ran => drone.preset = "bad"
  /\ pc \in {"prun", "pstop"} /\ ~ran => seen.preset # "done"

Flown == Placed /\ Current /\ Gated /\ Refused

LEMMA PathsKept == UNCHANGED <<camp, i>> => Preloaded' = Preloaded
  BY DEF Preloaded, Paths

LEMMA RestingSteps ==
  ASSUME drone \in Drone, Resting(drone)
  PROVE  /\ Flies \/ Interferes => Resting(drone')
         /\ \A c \in Commands : Received(c) => Resting(drone')
<1>1. \A d \in Drone : Ended(d).prim = "IDLE" /\ Ended(d).idle = d.idle /\ Ended(d) \in Drone
  <2>1. \A d \in Drone : Ended(d) \in Drone
    BY EndedDrone
  <2> QED
    BY <2>1 DEF Ended, Drone
<1>2. ASSUME NEW d \in Drone, d.prim # "IDLE", Resting(d) PROVE d.idle = FALSE
  BY <1>2, DroneFields, Zenon DEF Resting
<1> DEFINE e == Ended(drone)
<1>3. e \in Drone /\ e.prim = "IDLE" /\ e.idle = drone.idle
  BY <1>1
<1> HIDE DEF e
<1>4. CASE Flies
  BY <1>4 DEF Flies, Resting, Drone
<1>5. CASE Interferes
  <2>1. CASE drone.prim # "IDLE" /\ drone' = [e EXCEPT !.prim = "DESCEND", !.trip = TRUE]
    <3>1. drone'.idle = e.idle /\ drone.idle = FALSE
      BY <1>2, <1>3, <2>1 DEF Drone
    <3> QED
      BY <1>3, <3>1, Zenon DEF Resting
  <2>2. CASE drone' = [e EXCEPT !.up = FALSE, !.trip = TRUE]
    BY <1>3, <2>2 DEF Resting, Drone
  <2>3. CASE drone' = e
    BY <1>3, <2>3 DEF Resting
  <2>4. CASE drone' = [drone EXCEPT !.up = FALSE]
    BY <2>4 DEF Resting, Drone
  <2>5. CASE drone' = [drone EXCEPT !.idle = FALSE, !.trip = FALSE]
    BY <2>5 DEF Resting, Drone
  <2> QED
    BY <1>5, <2>1, <2>2, <2>3, <2>4, <2>5 DEF Interferes, e
<1>6. ASSUME NEW c \in Commands, Received(c) PROVE Resting(drone')
  <2>1. CASE ~Accepts(drone, c)
    BY <1>6, <2>1 DEF Received
  <2>2. CASE Accepts(drone, c) /\ c = "TAKEOFF"
    <3>1. drone' = [drone EXCEPT !.prim = "CLIMB", !.idle = FALSE]
      BY <1>6, <2>2 DEF Received, Obeyed
    <3> QED
      BY <3>1 DEF Resting, Drone
  <2>3. CASE Accepts(drone, c) /\ c = "LAND"
    <3>1. drone' = IF drone.prim = "IDLE" THEN drone ELSE [e EXCEPT !.prim = "DESCEND"]
      BY <1>6, <2>3 DEF Received, Obeyed, e
    <3>2. CASE drone.prim # "IDLE"
      <4>1. drone'.idle = e.idle /\ drone.idle = FALSE
        BY <1>2, <1>3, <3>1, <3>2 DEF Drone
      <4> QED
        BY <1>3, <4>1, Zenon DEF Resting
    <3> QED
      BY <3>1, <3>2
  <2>4. CASE Accepts(drone, c) /\ c = "START"
    <3>1. drone.prim = "HOVER" /\ drone' = [drone EXCEPT !.prim = "TRAJ"]
      BY <1>6, <2>4 DEF Received, Obeyed, Accepts
    <3>2. drone'.idle = drone.idle /\ drone.idle = FALSE
      BY <1>2, <3>1 DEF Drone
    <3> QED
      BY <3>2, Zenon DEF Resting
  <2>5. CASE Accepts(drone, c) /\ c = "PRESET"
    <3>1. drone' = [drone EXCEPT !.preset = IF drone.prim = "HOVER" THEN "running" ELSE "bad"]
      BY <1>6, <2>5 DEF Received, Obeyed
    <3> QED
      BY <3>1 DEF Resting, Drone
  <2> QED
    BY <2>1, <2>2, <2>3, <2>4, <2>5 DEF Commands
<1> QED
  BY <1>4, <1>5, <1>6

LEMMA CallRests ==
  ASSUME NEW c \in Commands, NEW ok \in BOOLEAN, drone \in Drone, Resting(drone), Call(c, ok)
  PROVE  Resting(drone')
  BY RestingSteps DEF Call

LEMMA FlownStep == Typed /\ Flown /\ [Next]_vars => Flown'
<1> SUFFICES ASSUME Typed, Flown, [Next]_vars PROVE Flown'
  OBVIOUS
<1> USE DEF service, control, queue, link, ghosts, Runner
<1>0. /\ ControlOK /\ QueueOK /\ PlaceOK /\ fl \in Local /\ LinkOK /\ seen \in Snapshot
  BY DEF Typed
<1>1. /\ Placed /\ Current /\ Gated /\ Refused /\ drone \in Drone
      /\ Resting(drone) /\ Resting(seen)
  BY <1>0 DEF Flown, Current, LinkOK
<1>p. UNCHANGED <<camp, i>> => Preloaded' = Preloaded
  BY PathsKept
(* A runner that stays where it is keeps what it knows.                    *)
<1>2. ASSUME UNCHANGED <<camp, i, step, pc, seen, fresh>>,
             drone'.traj \in {drone.traj, "done"}, Resting(drone'), ran => ran',
             drone'.preset = "bad" \/ drone.preset # "bad" \/ ran'
      PROVE  Flown'
  BY <1>1, <1>2, <1>p DEF Flown, Placed, Current, Gated, Refused, Kind
(* What is seen stays true of the drone while the path stays.              *)
<1>4. ASSUME UNCHANGED <<seen, fresh>>, drone'.traj \in {drone.traj, "done"}, Resting(drone')
      PROVE  Current'
  BY <1>1, <1>4 DEF Current
(* Away from the steps of a flight there is no more to know.               *)
<1>3. ASSUME pc' \notin Steps \union {"ready"}, UNCHANGED <<seen, fresh>>,
             drone'.traj = drone.traj, Resting(drone')
      PROVE  Flown'
  BY <1>3, <1>4 DEF Flown, Placed, Gated, Refused, Steps, Waits
<1>a. CASE Top \/ WaitForGo \/ Judge \/ AutoNext \/ Finish \/ Raise \/ Launch
  <2>1. UNCHANGED <<seen, fresh, drone>> /\ pc' \notin Steps \union {"ready"}
    BY <1>a DEF Top, WaitForGo, Judge, AutoNext, Finish, Raise, Launch, Steps, Waits
  <2> QED
    BY <1>1, <1>3, <2>1
<1>c. CASE Prepare
  <2>1. UNCHANGED <<seen, fresh, drone>> /\ pc' \in {"done", "ready"} /\ (pc' = "ready" => step' = 0)
    BY <1>c DEF Prepare
  <2>2. Current'
    BY <1>1, <1>4, <2>1
  <2> QED
    BY <2>1, <2>2 DEF Flown, Placed, Gated, Refused, Steps, Waits
<1>d. CASE Ready
  <2>1. /\ pc = "ready" /\ pc' \in {"tail", "idle", "launch"} /\ UNCHANGED <<seen, step>>
        /\ fresh' = (fresh /\ ~Preloaded)
    BY <1>d DEF Ready, Aborts, Continues
  <2>2. /\ drone' \in Drone /\ drone'.prim = drone.prim
        /\ drone'.idle => drone.idle \/ drone.prim = "IDLE"
        /\ Preloaded \/ drone'.traj = drone.traj
    BY <1>1, <1>d, ReadiedDrone
  <2>3. Resting(drone')
    BY <1>1, <2>2, Zenon DEF Resting
  <2>4. Current'
    <3>1. CASE fresh'
      <4>1. fresh /\ ~Preloaded
        BY <2>1, <3>1, Zenon
      <4>2. drone'.traj = drone.traj
        BY <2>2, <4>1
      <4> QED
        BY <1>1, <2>1, <2>3, <4>1, <4>2 DEF Current
    <3>2. CASE ~fresh'
      BY <1>1, <2>1, <2>3, <3>2 DEF Current
    <3> QED
      BY <3>1, <3>2
  <2>5. Placed'
    BY <1>1, <1>0, <2>1 DEF Placed, PlaceOK
  <2> QED
    BY <2>1, <2>4, <2>5 DEF Flown, Gated, Refused, Steps, Waits
<1>e. CASE TakeOff
  <2>1. CASE Aborts(1) /\ UNCHANGED <<link, ran, last, since>>
    <3>1. UNCHANGED <<seen, fresh, drone>> /\ pc' = "tail"
      BY <1>e, <2>1 DEF TakeOff, Aborts
    <3> QED
      BY <1>1, <1>3, <3>1 DEF Steps, Waits
  <2>2. ASSUME NEW ok \in BOOLEAN, seen.idle \/ ~camp[i].gated, Call("TAKEOFF", ok),
               pc' \in {"climb", "tail"}
        PROVE  Flown'
    <3>1. seen.prim = "IDLE" \/ ~camp[i].gated
      BY <1>1, <2>2 DEF Resting
    <3>2. Resting(drone') /\ drone'.traj = drone.traj
      BY <1>0, <1>1, <2>2, CallReaches, CallRests DEF Commands
    <3>3. UNCHANGED <<camp, i, step, seen, fresh>> /\ step = 0
      BY <1>1, <1>e DEF TakeOff, Placed
    <3>4. Current'
      BY <1>4, <3>2, <3>3
    <3>5. Gated'
      BY <3>1, <3>3 DEF Gated
    <3> QED
      BY <2>2, <3>3, <3>4, <3>5 DEF Flown, Placed, Refused
  <2> QED
    BY <1>e, <2>1, <2>2 DEF TakeOff
<1>f. CASE Wait
  <2>1. PICK w \in Waits : Turned(w)
    BY <1>0, <1>f, WaitTurned DEF ControlOK
  <2>2. pc = w /\ UNCHANGED <<camp, i, step, drone, seen, ran, fresh>> /\ Leads(w)
    BY <2>1 DEF Turned
  <2>3. Placed'
    BY <1>1, <1>p, <2>2 DEF Placed, Leads, Kind
  <2>4. Current'
    BY <1>1, <1>4, <2>2
  <2>5. Refused'
    BY <1>1, <2>2 DEF Refused, Leads
  <2>6. Gated'
    <3>1. CASE pc' \in {"tail", "launch", "land"}
      BY <3>1 DEF Gated, Steps, Waits
    <3>2. CASE pc' \notin {"tail", "launch", "land"}
      <4>1. pc \notin {"idle", "launch"} \/ pc' = "idle"
        BY <2>2, <3>2 DEF Leads, Waits
      <4>2. pc \in Steps
        BY <2>1, <2>2 DEF Steps
      <4> QED
        BY <1>1, <1>p, <2>2, <4>1, <4>2 DEF Gated
    <3> QED
      BY <3>1, <3>2
  <2> QED
    BY <2>3, <2>4, <2>5, <2>6 DEF Flown
<1>x. CASE Upload
  <2>1. /\ pc = "upload" /\ pc' \in {"tail", "start"} /\ UNCHANGED <<camp, i, step, seen>>
        /\ fresh' = FALSE
    BY <1>x DEF Upload, Aborts, Continues
  <2>2. Resting(drone')
    <3>1. drone'.prim = drone.prim /\ drone'.idle = drone.idle
      BY <1>1, <1>x, UploadedDrone
    <3> QED
      BY <1>1, <3>1, Zenon DEF Resting
  <2>3. Current'
    BY <1>1, <2>1, <2>2 DEF Current
  <2>4. ~Preloaded'
    BY <1>1, <1>p, <2>1 DEF Placed
  <2> QED
    BY <1>1, <2>1, <2>3, <2>4 DEF Flown, Placed, Gated, Refused, Kind
<1>g. CASE Start
  <2>1. PICK ok \in BOOLEAN :
          IF Kind = "traj" THEN Call("START", ok) /\ Continues("run")
          ELSE \/ Call("PRESET", ok) /\ Checks(ok, "pstart")
               \/ Aborts(1) /\ UNCHANGED <<link, ran>>
    BY <1>g DEF Start, Kind
  <2>2. pc = "start" /\ UNCHANGED <<camp, i, step, seen, fresh>>
    BY <1>g DEF Start
  <2>a. pc' \in {"run", "pstart", "tail"}
    BY <2>1 DEF Continues, Checks, Aborts
  <2>b. Gated'
    BY <1>1, <1>p, <2>2, <2>a DEF Gated, Steps, Waits
  <2>3. CASE Kind = "traj"
    <3>1. Resting(drone') /\ drone'.traj = drone.traj /\ pc' = "run"
      BY <1>0, <1>1, <2>1, <2>3, CallReaches, CallRests DEF Commands, Continues
    <3>2. Current'
      BY <1>4, <2>2, <3>1
    <3> QED
      BY <2>2, <2>3, <2>b, <3>1, <3>2 DEF Flown, Placed, Refused, Kind
  <2>4. CASE Kind # "traj" /\ Call("PRESET", ok) /\ Checks(ok, "pstart")
    <3>1. Resting(drone') /\ drone'.traj = drone.traj /\ (ok => drone'.preset = "bad" \/ ran')
      BY <1>0, <1>1, <2>4, CallReaches, CallRests DEF Commands, Reached
    <3>5. Current'
      BY <1>4, <2>2, <3>1
    <3>2. CASE ok
      <4>1. pc' = "pstart" /\ (drone'.preset = "bad" \/ ran')
        BY <2>4, <3>1, <3>2 DEF Checks, Continues
      <4>2. step > 0 => Kind = "preset"
        BY <1>1, <2>2, <2>4 DEF Placed
      <4> QED
        BY <2>2, <2>b, <3>5, <4>1, <4>2 DEF Flown, Placed, Refused, Kind
    <3>3. CASE ~ok
      <4>1. pc' = "tail"
        BY <2>4, <3>3 DEF Checks, Aborts
      <4> QED
        BY <2>b, <3>5, <4>1 DEF Flown, Placed, Refused
    <3> QED
      BY <3>2, <3>3
  <2>5. CASE Aborts(1) /\ UNCHANGED <<link, ran>>
    BY <1>1, <1>3, <2>2, <2>5 DEF Aborts, Steps, Waits
  <2> QED
    BY <2>1, <2>3, <2>4, <2>5
<1>h. CASE Write
  <2>1. pc \in {"set", "excite"} /\ pc' \in {"record", "shake", "tail"}
        /\ UNCHANGED <<camp, i, step, seen, drone, ran, fresh>> /\ (pc' = "shake" => pc = "excite")
    BY <1>h DEF Write, Continues, Aborts
  <2>2. Current'
    BY <1>1, <1>4, <2>1
  <2>3. Gated'
    BY <1>1, <1>p, <2>1 DEF Gated, Steps, Waits
  <2> QED
    BY <1>1, <2>1, <2>2, <2>3 DEF Flown, Placed, Refused, Kind
<1>i. CASE Record
  <2>0. pc = "record" /\ UNCHANGED <<camp, i, seen, drone, fresh>>
    BY <1>i DEF Record
  <2>a. Current'
    BY <1>1, <1>4, <2>0
  <2>b. Gated'
    BY <1>1, <1>p, <2>0 DEF Gated, Steps, Waits
  <2>1. CASE NextStep /\ step < Len(camp[i].steps)
    <3>1. camp[i].steps[step + 1] \in Kinds
      BY <1>0, <2>1, CampaignSteps DEF PlaceOK
    <3>2. step' = step + 1 /\ pc' = Entry(camp[i].steps[step'])
      BY <2>1 DEF NextStep
    <3>3. pc' \in {"settle", "origin", "hold", "set", "tune"}
          /\ (pc' = "settle" => Kind' \in {"traj", "preset"})
          /\ (pc' # "settle" => Kind' \notin {"traj", "preset"})
      BY <2>0, <3>1, <3>2 DEF Entry, Kinds, Kind
    <3> QED
      BY <2>a, <2>b, <3>3 DEF Flown, Placed, Refused
  <2>2. CASE UNCHANGED <<step, nudge, ran>> /\ pc' \in {"ophold", "land"}
    BY <2>a, <2>b, <2>2 DEF Flown, Placed, Refused
  <2> QED
    BY <1>i, <2>1, <2>2 DEF Record
<1>j. CASE StopPaths
  <2>1. drone' = drone \/ drone' = [drone EXCEPT !.prim = IF @ = "TRAJ" THEN "HOVER" ELSE @]
    BY <1>j DEF StopPaths
  <2>2. Resting(drone') /\ drone'.traj = drone.traj
    BY <1>1, <2>1 DEF Resting, Drone
  <2>3. pc' = "land" /\ UNCHANGED <<seen, fresh>>
    BY <1>j DEF StopPaths
  <2> QED
    BY <1>3, <2>2, <2>3 DEF Steps, Waits
<1>k. CASE Land \/ Landing
  <2>1. ASSUME NEW t, SendsLand(t) PROVE Resting(drone') /\ drone'.traj = drone.traj
    <3>1. PICK ok \in BOOLEAN : Call("LAND", ok)
      BY <2>1 DEF SendsLand
    <3> QED
      BY <1>0, <1>1, <3>1, CallReaches, CallRests DEF Commands
  <2>2. Resting(drone') /\ drone'.traj = drone.traj
    BY <1>1, <1>k, <2>1 DEF Land, Landing
  <2>3. pc' \in {"landing", "judge"} /\ UNCHANGED <<seen, fresh>>
    BY <1>k DEF Land, Landing
  <2> QED
    BY <1>3, <2>2, <2>3 DEF Steps, Waits
<1>q. ASSUME NEW p \in Packs, Go(p) PROVE Flown'
  BY <1>1, <1>2, <1>q DEF Go, Granted
<1>r. ASSUME NEW r \in Requests, Ask(r) PROVE Flown'
  BY <1>1, <1>2, <1>r DEF Ask
<1>s. ASSUME NEW n \in Nudges, Press(n) PROVE Flown'
  BY <1>1, <1>2, <1>s DEF Press
<1>t. CASE Deliver
  <2>1. Head(late) \in Commands /\ Received(Head(late))
    BY <1>0, <1>t DEF Deliver, LinkOK
  <2>2. Reached(Head(late)) /\ Resting(drone')
    BY <1>0, <1>1, <2>1, ReceivedReaches, RestingSteps DEF LinkOK
  <2>3. drone'.traj = drone.traj /\ (ran => ran')
        /\ (drone'.preset = "bad" \/ drone.preset # "bad" \/ ran')
    BY <2>2 DEF Reached
  <2> QED
    BY <1>2, <1>t, <2>2, <2>3 DEF Deliver
<1>u. CASE DroneStep
  <2>1. Resting(drone') /\ drone'.traj \in {drone.traj, "done"}
        /\ (drone.preset # "running" => drone'.preset \in {drone.preset, "bad"})
    BY <1>1, <1>u, DroneSteps, RestingSteps DEF DroneStep
  <2>2. drone'.preset = "bad" \/ drone.preset # "bad"
    BY <2>1
  <2> QED
    BY <1>2, <1>u, <2>1, <2>2 DEF DroneStep
<1>v. CASE Stream
  <2>1. seen'.prim = drone.prim /\ seen'.idle = drone.idle /\ seen'.traj = drone.traj
        /\ seen'.preset = drone.preset
    BY <1>v DEF Stream, Status
  <2>2. UNCHANGED <<camp, i, step, pc, drone, ran>> /\ fresh' = TRUE
    BY <1>v DEF Stream
  <2>3. Placed' /\ Gated'
    BY <1>1, <1>p, <2>2 DEF Placed, Gated, Kind
  <2>4. Current'
    BY <1>1, <2>1, <2>2 DEF Current, Resting
  <2>5. Refused'
    BY <1>1, <2>1, <2>2 DEF Refused
  <2> QED
    BY <2>3, <2>4, <2>5 DEF Flown
<1>w. CASE UNCHANGED vars
  BY <1>1, <1>2, <1>w DEF vars
<1> QED
  BY <1>a, <1>c, <1>d, <1>e, <1>f, <1>g, <1>h, <1>i, <1>j, <1>k, <1>q, <1>r, <1>s, <1>t, <1>u, <1>v,
     <1>w, <1>x DEF Next, RunnerStep, Operator

(* The step by which another step counts: the wait that has ended, or what *)
(* set wrote.                                                              *)
LEMMA CountedIsFlown == Typed /\ Flown /\ [Next]_vars => StepIsFlown
<1> SUFFICES ASSUME Typed, Flown, [Next]_vars, pc # "record", pc' = "record", step > 0,
                    fl'.nudged = NoNudge
             PROVE  /\ \/ Kind # "traj" \/ drone.traj = "done"
                       \/ ~fresh /\ ~(camp[i].gated /\ Preloaded)
                    /\ Kind = "preset" => ran
  BY DEF StepIsFlown, StepCounts, Kind
<1>0. fl \in Local /\ ControlOK
  BY DEF Typed
<1>1. Placed /\ Current /\ Gated /\ Refused
  BY DEF Flown
<1>2. CASE Wait
  <2>1. PICK w \in Waits : Turned(w)
    BY <1>0, <1>2, WaitTurned DEF ControlOK
  <2>2. pc = w /\ w # "climb" /\ Leads(w)
    BY <1>1, <2>1 DEF Turned, Placed
  <2>3. /\ w \in {"hold", "run", "prun", "pstop", "shake", "tune"}
        /\ w = "run" => seen.traj = "done" /\ seen.prim = "HOVER"
        /\ w \in {"prun", "pstop"} => seen.preset = "done"
    BY <2>1, <2>2 DEF Leads, Waits
  <2>4. CASE w = "run"
    <3>1. fresh => drone.traj = "done"
      BY <1>1, <2>3, <2>4 DEF Current
    <3>2. camp[i].gated /\ Preloaded => fresh
      BY <1>1, <2>2, <2>3, <2>4 DEF Gated, Steps, Waits
    <3>3. Kind = "traj"
      BY <1>1, <2>2, <2>4 DEF Placed
    <3> QED
      BY <3>1, <3>2, <3>3
  <2>5. CASE w \in {"prun", "pstop"}
    BY <1>1, <2>2, <2>3, <2>5 DEF Placed, Refused
  <2>6. CASE w \in {"hold", "shake", "tune"}
    BY <1>1, <2>2, <2>6 DEF Placed
  <2> QED
    BY <2>3, <2>4, <2>5, <2>6
<1>3. CASE Write
  <2>1. pc = "set"
    BY <1>3 DEF Write, Runner, Continues, Aborts
  <2> QED
    BY <1>1, <2>1 DEF Placed
<1>4. CASE Top \/ WaitForGo \/ Prepare \/ Ready \/ TakeOff \/ Upload \/ Start
  BY <1>4 DEF Top, WaitForGo, Prepare, Ready, TakeOff, Upload, Start, Continues, Checks, Aborts
<1>5. CASE Record \/ StopPaths \/ Land \/ Landing \/ Judge \/ AutoNext \/ Finish \/ Raise \/ Launch
  BY <1>5 DEF Record, StopPaths, Land, Landing, Judge, AutoNext, Finish, Raise, Launch, Runner
<1>6. ASSUME \/ (\E p \in Packs : Go(p)) \/ (\E r \in Requests : Ask(r)) \/ (\E n \in Nudges : Press(n))
             \/ Deliver \/ DroneStep \/ Stream \/ UNCHANGED vars
      PROVE  FALSE
  BY <1>6 DEF Go, Granted, Ask, Press, Deliver, DroneStep, Stream, vars
<1> QED
  BY <1>2, <1>3, <1>4, <1>5, <1>6 DEF Next, RunnerStep, Operator

-----------------------------------------------------------------------------
(* The theorems.                                                           *)

IInv == Typed /\ Limited /\ Remembered /\ Consented /\ Stopped /\ Pressed /\ Flown

LEMMA Inductive == Spec => []IInv
<1>1. Init => IInv
  <2> SUFFICES ASSUME Init PROVE IInv
    OBVIOUS
  <2>1. Typed /\ Limited
    BY TypeInit
  <2>2. Remembered /\ Consented /\ Stopped
    BY DEF Init, Remembered, Consented, Stopped, Flying, Steps, Waits, None
  <2>3. Pressed
    BY FreshIsNew DEF Init, Pressed
  <2>4. drone.idle = FALSE /\ seen.idle = FALSE /\ seen.traj = drone.traj
    BY DEF Init, Status
  <2>5. Flown
    BY <2>4 DEF Init, Flown, Placed, Current, Gated, Refused, Resting, Steps, Waits
  <2> QED
    BY <2>1, <2>2, <2>3, <2>5 DEF IInv
<1>2. IInv /\ [Next]_vars => IInv'
  BY TypeStep, RememberedStep, ConsentedStep, StoppedStep, PressedStep, FlownStep DEF IInv
<1> QED
  BY <1>1, <1>2, PTL DEF Spec

(* Every variable keeps its type: no campaign runs past its last flight or *)
(* its limit of aborts, and the link never holds back more than MaxLate.   *)
THEOREM TypeCorrect == Spec => []TypeOK
<1>1. IInv => TypeOK
  BY TypeParts DEF IInv
<1> QED
  BY <1>1, Inductive, PTL

(* No flight comes to its end, its steps through, aborted or called off,   *)
(* while a TAKEOFF that went out has no LAND after it (needs_land of       *)
(* fly_scenario's landing).  Only an exception leaves one behind, and it   *)
(* leaves the campaign failed.                                             *)
THEOREM TakeoffIsLanded == Spec => []LandFollowsTakeoff
<1>1. IInv => LandFollowsTakeoff
  BY DEF IInv, Remembered, LandFollowsTakeoff, OnGround, Steps, Waits
<1> QED
  BY <1>1, Inductive, PTL

(* The runner flies a pack only on a Go the operator gave for it (go,      *)
(* wait_for_go, _auto_next).                                               *)
THEOREM FlownByConsent == Spec => []FliesByConsent
<1>1. IInv => FliesByConsent
  BY DEF IInv, Consented, FliesByConsent
<1> QED
  BY <1>1, Inductive, PTL

(* After a request at most one more take-off (_control_report).            *)
THEOREM StopIsHeeded == Spec => []OneFlightAfterAStop
<1>1. IInv => OneFlightAfterAStop
  BY DEF IInv, Stopped, OneFlightAfterAStop
<1> QED
  BY <1>1, Inductive, PTL

(* An s or an n ends the step it was pressed in (take_step_nudge).         *)
THEOREM NudgeIsCurrent == Spec => []NudgeIsOfThisStep
<1>1. IInv => NudgeIsOfThisStep
  BY DEF IInv, Pressed, NudgeIsOfThisStep
<1> QED
  BY <1>1, Inductive, PTL

(* A step recorded as done was flown, whatever the link made of its        *)
(* command: a preset always, and a path wherever the stream was seen since *)
(* its upload, as it was for every path that was uploaded on the ground    *)
(* before a TAKEOFF the idle motors were waited for (_traj_step,           *)
(* _preset_step, and the path's upload in the hover).                      *)
THEOREM RecordedIsFlown == Spec => StepsAreFlown
<1>1. IInv /\ [Next]_vars => StepIsFlown
  BY CountedIsFlown DEF IInv
<1> QED
  BY <1>1, Inductive, PTL DEF Spec, StepsAreFlown

-----------------------------------------------------------------------------
(* How far a flight is from its end: every step of the runner takes it     *)
(* nearer, and nothing the operator, the link or the drone does takes it   *)
(* back.  A nudge posted or taken may make the runner hold once more.      *)

FlightSteps ==
  [ready |-> 13, idle |-> 12, launch |-> 11, climb |-> 10, settle |-> 9, upload |-> 8, start |-> 7,
   pstart |-> 6, prun |-> 5, pstop |-> 4, run |-> 4, origin |-> 7, excite |-> 6, shake |-> 4,
   tune |-> 4, hold |-> 4, ophold |-> 4, set |-> 4, record |-> 3, tail |-> 2, land |-> 1]

Holdups == 2 * (MaxNudges - nudges) + (IF nudge = NoNudge THEN 0 ELSE 2)
           + (IF fl.nudged = NoNudge THEN 0 ELSE 1)

FlightLeft ==
  IF pc = "landing" THEN MaxTicks - fl.ticks
  ELSE 2 * MaxTicks + 1 - fl.ticks + 2 * Holdups + 16 * (Len(camp[i].steps) - step)
       + FlightSteps[pc]

(* The parts of the count.                                                 *)
Aloft == pc \in Flying \ {"landing"}
StepsLeft == Len(camp[i].steps) - step
Counting == /\ fl.ticks \in 0 .. MaxTicks /\ Holdups \in Nat /\ StepsLeft \in Nat
            /\ Aloft => FlightSteps[pc] \in 1 .. 13

LEMMA FlightParts == Typed => Counting
<1> SUFFICES ASSUME Typed PROVE Counting
  OBVIOUS
<1>1. fl.ticks \in 0 .. MaxTicks
  BY LocalFields DEF Typed
<1>2. Holdups \in Nat
  BY DEF Holdups, Typed, ControlOK, CampaignAssumption
<1>3. StepsLeft \in Nat
  BY CampaignSteps DEF Typed, PlaceOK, StepsLeft
<1>4. Aloft => FlightSteps[pc] \in 1 .. 13
  BY DEF Aloft, Flying, Steps, Waits, FlightSteps
<1> QED
  BY <1>1, <1>2, <1>3, <1>4 DEF Counting

LEMMA FlightPartsNext == Typed' => Counting'
  BY FlightParts, PTL

(* The arithmetic of the count.                                            *)
LEMMA CountIsNatural ==
  \A m, h, l \in Nat : \A t \in 0 .. m : \A f \in 1 .. 13 :
    /\ 2 * m + 1 - t + 2 * h + 16 * l + f \in Nat
    /\ m < 2 * m + 1 - t + 2 * h + 16 * l + f
  OBVIOUS

LEMMA AloftCount == Aloft => FlightLeft = 2 * MaxTicks + 1 - fl.ticks + 2 * Holdups
                                          + 16 * StepsLeft + FlightSteps[pc]
  BY DEF FlightLeft, Aloft, StepsLeft

LEMMA AloftCountNext ==
  Aloft' => FlightLeft' = 2 * MaxTicks + 1 - fl'.ticks + 2 * Holdups' + 16 * StepsLeft'
                          + FlightSteps[pc']
  BY DEF FlightLeft, Aloft, StepsLeft

FlightRanged == pc \in Flying => FlightLeft \in Nat

LEMMA FlightLeftRange == Typed => FlightRanged
<1> SUFFICES ASSUME Typed, pc \in Flying PROVE FlightLeft \in Nat
  BY DEF FlightRanged
<1>1. Counting /\ MaxTicks \in Nat
  BY FlightParts, CampaignAssumption
<1>2. CASE Aloft
  <2>1. /\ MaxTicks \in Nat /\ Holdups \in Nat /\ StepsLeft \in Nat
        /\ fl.ticks \in 0 .. MaxTicks /\ FlightSteps[pc] \in 1 .. 13
    BY <1>1, <1>2 DEF Counting
  <2>2. 2 * MaxTicks + 1 - fl.ticks + 2 * Holdups + 16 * StepsLeft + FlightSteps[pc] \in Nat
    BY <2>1, CountIsNatural
  <2> QED
    BY <1>2, <2>2, AloftCount
<1>3. CASE ~Aloft
  <2>1. FlightLeft = MaxTicks - fl.ticks
    BY <1>3 DEF Aloft, FlightLeft
  <2> QED
    BY <1>1, <2>1 DEF Counting
<1> QED
  BY <1>2, <1>3

(* What a step of the runner in the air does to the parts.                 *)
Descends ==
  /\ UNCHANGED <<step, camp, i>> /\ fl'.ticks = fl.ticks
  /\ Holdups' <= Holdups /\ FlightSteps[pc'] < FlightSteps[pc]
Waited ==
  /\ UNCHANGED <<step, camp, i, pc>> /\ fl'.ticks = fl.ticks + 1 /\ Holdups' <= Holdups
StepsOn ==
  /\ UNCHANGED <<camp, i>> /\ step' = step + 1 /\ fl'.ticks = fl.ticks
  /\ Holdups' <= Holdups /\ FlightSteps[pc'] <= 13
HoldsOn ==
  /\ UNCHANGED <<step, camp, i>> /\ fl'.ticks = fl.ticks
  /\ Holdups' < Holdups /\ FlightSteps[pc'] <= FlightSteps[pc] + 1

(* The arithmetic of the count, without the sets of the assumption.         *)
HIDE CampaignAssumption

LEMMA PartsCount ==
  ASSUME Typed, Typed', Aloft, Aloft', Descends \/ Waited \/ StepsOn \/ HoldsOn
  PROVE  FlightLeft' < FlightLeft
<1>1. /\ MaxTicks \in Nat /\ Holdups \in Nat /\ StepsLeft \in Nat
      /\ fl.ticks \in 0 .. MaxTicks /\ FlightSteps[pc] \in 1 .. 13
  BY FlightParts, CampaignAssumption DEF Counting
<1>2. /\ Holdups' \in Nat /\ StepsLeft' \in Nat
      /\ fl'.ticks \in 0 .. MaxTicks /\ FlightSteps[pc'] \in 1 .. 13
  <2>1. Counting'
    BY FlightPartsNext
  <2> QED
    BY <2>1 DEF Counting
<1>m. /\ FlightLeft = 2 * MaxTicks + 1 - fl.ticks + 2 * Holdups + 16 * StepsLeft + FlightSteps[pc]
      /\ FlightLeft' = 2 * MaxTicks + 1 - fl'.ticks + 2 * Holdups' + 16 * StepsLeft'
                      + FlightSteps[pc']
  BY AloftCount, AloftCountNext
<1>3. CASE Descends
  <2>1. StepsLeft' = StepsLeft /\ fl'.ticks = fl.ticks /\ Holdups' <= Holdups
        /\ FlightSteps[pc'] < FlightSteps[pc]
    BY <1>3 DEF Descends, StepsLeft
  <2> QED
    BY <1>1, <1>2, <1>m, <2>1
<1>4. CASE Waited
  <2>1. StepsLeft' = StepsLeft /\ fl'.ticks = fl.ticks + 1 /\ Holdups' <= Holdups
        /\ FlightSteps[pc'] = FlightSteps[pc]
    BY <1>4 DEF Waited, StepsLeft
  <2> QED
    BY <1>1, <1>2, <1>m, <2>1
<1>5. CASE StepsOn
  <2>0. step \in Nat /\ Len(camp[i].steps) \in Nat
    BY CampaignSteps DEF Typed, PlaceOK
  <2>1. StepsLeft' = StepsLeft - 1 /\ fl'.ticks = fl.ticks /\ Holdups' <= Holdups
        /\ FlightSteps[pc'] <= 13
    BY <1>5, <2>0 DEF StepsOn, StepsLeft
  <2> QED
    BY <1>1, <1>2, <1>m, <2>1
<1>6. CASE HoldsOn
  <2>1. StepsLeft' = StepsLeft /\ fl'.ticks = fl.ticks /\ Holdups' < Holdups
        /\ FlightSteps[pc'] <= FlightSteps[pc] + 1
    BY <1>6 DEF HoldsOn, StepsLeft
  <2> QED
    BY <1>1, <1>2, <1>m, <2>1
<1> QED
  BY <1>3, <1>4, <1>5, <1>6

LEMMA HoldupsCount ==
  ASSUME MaxTicks \in Nat, Counting, Counting', Aloft, Aloft', StepsLeft' = StepsLeft,
         fl'.ticks = fl.ticks, Holdups' <= Holdups, FlightSteps[pc'] = FlightSteps[pc]
  PROVE  FlightLeft' <= FlightLeft
<1>1. /\ FlightLeft = 2 * MaxTicks + 1 - fl.ticks + 2 * Holdups + 16 * StepsLeft + FlightSteps[pc]
      /\ FlightLeft' = 2 * MaxTicks + 1 - fl'.ticks + 2 * Holdups' + 16 * StepsLeft'
                      + FlightSteps[pc']
  BY AloftCount, AloftCountNext
<1>2. /\ Holdups \in Nat /\ StepsLeft \in Nat /\ fl.ticks \in 0 .. MaxTicks
      /\ FlightSteps[pc] \in 1 .. 13 /\ Holdups' \in Nat
  BY DEF Counting
<1> QED
  BY <1>1, <1>2

USE CampaignAssumption

LEMMA AbortsCount ==
  ASSUME Typed, NEW n \in {0, 1, 3}, Aborts(n), pc \in Steps \union {"ready"},
         UNCHANGED <<step, camp, i, nudges>>, nudge' \in {nudge, NoNudge}
  PROVE  Descends
<1>1. fl' = [fl EXCEPT !.level = n, !.nudged = NoNudge] /\ pc' = "tail"
  BY DEF Aborts
<1>2. fl'.ticks = fl.ticks /\ fl'.nudged = NoNudge
  BY <1>1 DEF Typed, Local
<1>3. Holdups' <= Holdups
  BY <1>2 DEF Holdups, Typed, ControlOK, CampaignAssumption
<1>4. FlightSteps[pc'] < FlightSteps[pc]
  BY <1>1 DEF FlightSteps, Steps, Waits
<1> QED
  BY <1>2, <1>3, <1>4 DEF Descends

LEMMA WaitCounts ==
  ASSUME Typed, Wait
  PROVE  Descends \/ Waited
<1> USE DEF queue
<1>0. fl \in Local /\ ControlOK
  BY DEF Typed
<1> PICK w \in Waits : WaitEnds(w) \/ WaitNudged(w) \/ WaitFails(w) \/ WaitTurn(w)
  <2>1. pc \in Waits /\ (WaitEnds(pc) \/ WaitNudged(pc) \/ WaitFails(pc) \/ WaitTurn(pc))
    BY DEF Wait
  <2> QED
    BY <2>1
<1>1. /\ pc = w /\ UNCHANGED <<step, camp, i, nudges>> /\ pc \in Steps
  BY DEF WaitEnds, WaitNudged, WaitFails, WaitTurn, Runner, control, Steps
<1>2. ASSUME fl'.ticks = fl.ticks, fl'.nudged \in {fl.nudged, NoNudge}, nudge' = nudge,
             FlightSteps[pc'] < FlightSteps[pc]
      PROVE  Descends
  <2>1. Holdups' <= Holdups
    BY <1>0, <1>1, <1>2 DEF Holdups, ControlOK, CampaignAssumption
  <2> QED
    BY <1>1, <1>2, <2>1 DEF Descends
<1>3. ASSUME Aborts(1) \/ Aborts(3), nudge' = nudge PROVE Descends
  BY <1>1, <1>3, AbortsCount
<1>4. CASE WaitEnds(w)
  <2>0. nudge' = nudge /\ TRUE \in Condition(w) /\ WaitOver(w)
    BY <1>4 DEF WaitEnds, control
  <2>1. CASE w = "climb"
    <3>1. pc' = "record" /\ fl' = [fl EXCEPT !.airborne = TRUE]
      BY <2>0, <2>1 DEF WaitOver
    <3>2. fl'.ticks = fl.ticks /\ fl'.nudged = fl.nudged
      BY <1>0, <3>1 DEF Local
    <3>3. FlightSteps[pc'] < FlightSteps[pc]
      BY <1>1, <2>1, <3>1 DEF FlightSteps
    <3> QED
      BY <1>2, <2>0, <3>2, <3>3
  <2>2. CASE w # "climb"
    <3>1. \/ Aborts(1)
          \/ /\ fl' = fl
             /\ \/ w = "idle" /\ pc' = "launch"
                \/ w = "settle" /\ pc' \in {"upload", "start"}
                \/ w = "pstart" /\ pc' = "prun"
                \/ w = "origin" /\ pc' = "excite"
                \/ w = "tune" /\ pc' = "land"
                \/ /\ w \in {"hold", "run", "prun", "pstop", "shake", "tune", "ophold"}
                   /\ pc' = "record"
      BY <2>0, <2>2, Zenon DEF WaitOver, Checks, Continues, Waits
    <3>2. CASE Aborts(1)
      BY <1>3, <2>0, <3>2
    <3>3. CASE ~Aborts(1)
      <4>1. FlightSteps[pc'] < FlightSteps[pc]
        BY <1>1, <3>1, <3>3 DEF FlightSteps
      <4>2. fl' = fl
        BY <3>1, <3>3
      <4> QED
        BY <1>2, <2>0, <4>1, <4>2
    <3> QED
      BY <3>2, <3>3
  <2> QED
    BY <2>1, <2>2
<1>5. CASE WaitNudged(w)
  <2>1. /\ nudge' = NoNudge /\ nudge # NoNudge /\ w \in Skippable
        /\ fl' = [fl EXCEPT !.nudged = nudge] /\ pc' = IF w = "prun" THEN "pstop" ELSE "record"
    BY <1>5 DEF WaitNudged, NudgedIn
  <2>2. fl'.ticks = fl.ticks
    BY <1>0, <2>1 DEF Local
  <2>3. Holdups' <= Holdups
    BY <1>0, <1>1, <2>1 DEF Holdups, ControlOK, CampaignAssumption
  <2>4. FlightSteps[pc'] < FlightSteps[pc]
    BY <1>1, <2>1 DEF FlightSteps, Skippable
  <2> QED
    BY <1>1, <2>2, <2>3, <2>4 DEF Descends
<1>6. CASE WaitFails(w)
  BY <1>3, <1>6 DEF WaitFails, control
<1>7. CASE WaitTurn(w)
  <2>1. nudge' = nudge
    BY <1>7 DEF WaitTurn, control
  <2>2. PICK n \in Judged :
          IF n = 0 THEN fl' = [fl EXCEPT !.ticks = @ + 1] /\ UNCHANGED pc ELSE Aborts(n)
    BY <1>7 DEF WaitTurn
  <2>3. CASE n = 0
    <3>1. pc' = pc /\ fl'.ticks = fl.ticks + 1 /\ fl'.nudged = fl.nudged
      BY <1>0, <2>2, <2>3 DEF Local
    <3>2. Holdups' <= Holdups
      BY <1>0, <1>1, <2>1, <3>1 DEF Holdups, ControlOK, CampaignAssumption
    <3> QED
      BY <1>1, <3>1, <3>2 DEF Waited
  <2>4. CASE n # 0
    BY <1>3, <2>1, <2>2, <2>4 DEF Judged
  <2> QED
    BY <2>3, <2>4
<1> QED
  BY <1>4, <1>5, <1>6, <1>7

LEMMA RunnerCounts ==
  ASSUME Typed, RunnerStep, Aloft, Aloft'
  PROVE  Descends \/ Waited \/ StepsOn \/ HoldsOn
<1> USE DEF queue, control, Runner
<1>0. fl \in Local /\ ControlOK /\ QueueOK /\ PlaceOK
  BY DEF Typed
<1>2. ASSUME UNCHANGED <<step, camp, i, nudges>>, fl'.ticks = fl.ticks,
             fl'.nudged \in {fl.nudged, NoNudge}, nudge' \in {nudge, NoNudge},
             FlightSteps[pc'] < FlightSteps[pc]
      PROVE  Descends
  <2>1. Holdups' <= Holdups
    BY <1>0, <1>2 DEF Holdups, ControlOK, CampaignAssumption
  <2> QED
    BY <1>2, <2>1 DEF Descends
<1>a. CASE Top \/ WaitForGo \/ Prepare \/ Judge \/ AutoNext \/ Finish \/ Land \/ Landing
  BY <1>a DEF Top, WaitForGo, Prepare, Judge, AutoNext, Finish, Land, Landing, Aloft, Flying, Steps,
     Waits
<1>d. CASE Ready
  <2>1. pc = "ready" /\ nudge' = NoNudge /\ UNCHANGED <<step, camp, i, nudges>>
    BY <1>d DEF Ready
  <2>2. CASE Aborts(1)
    BY <2>1, <2>2, AbortsCount
  <2>3. CASE fl' = fl /\ pc' \in {"idle", "launch"}
    <3>1. FlightSteps[pc'] < FlightSteps[pc]
      BY <2>1, <2>3 DEF FlightSteps
    <3> QED
      BY <1>2, <2>1, <2>3, <3>1
  <2> QED
    BY <1>d, <2>2, <2>3 DEF Ready, Continues
<1>e. CASE TakeOff
  <2>1. pc = "launch" /\ nudge' = nudge /\ UNCHANGED <<step, camp, i, nudges>>
    BY <1>e DEF TakeOff
  <2>2. CASE Aborts(1)
    BY <2>1, <2>2, AbortsCount DEF Steps
  <2>3. ASSUME NEW ok \in BOOLEAN, pc' = IF ok THEN "climb" ELSE "tail",
               fl' = [fl EXCEPT !.sent = TRUE, !.level = IF ok THEN 0 ELSE 1]
        PROVE  Descends
    <3>1. FlightSteps[pc'] < FlightSteps[pc]
      BY <2>1, <2>3 DEF FlightSteps
    <3>2. fl'.ticks = fl.ticks /\ fl'.nudged = fl.nudged
      BY <1>0, <2>3 DEF Local
    <3> QED
      BY <1>2, <2>1, <3>1, <3>2
  <2> QED
    BY <1>e, <2>2, <2>3 DEF TakeOff
<1>f. CASE Wait
  BY <1>f, WaitCounts
<1>g. CASE Upload \/ Start \/ Write
  <2>1. /\ pc \in {"upload", "start", "set", "excite"} /\ nudge' = nudge /\ UNCHANGED <<step, camp, i, nudges>>
    BY <1>g DEF Upload, Start, Write
  <2>2. \/ Aborts(1)
        \/ fl' = fl /\ pc = "upload" /\ pc' = "start"
        \/ fl' = fl /\ pc = "start" /\ pc' \in {"run", "pstart"}
        \/ fl' = fl /\ pc = "set" /\ pc' = "record"
        \/ fl' = fl /\ pc = "excite" /\ pc' = "shake"
    <3>1. CASE Start
      BY <3>1 DEF Start, Continues, Checks
    <3>2. CASE Write
      BY <3>2 DEF Write, Continues
    <3>3. CASE Upload
      BY <3>3 DEF Upload, Continues
    <3> QED
      BY <1>g, <3>1, <3>2, <3>3
  <2>3. CASE Aborts(1)
    BY <2>1, <2>3, AbortsCount DEF Steps
  <2>4. CASE ~Aborts(1)
    <3>1. FlightSteps[pc'] < FlightSteps[pc] /\ fl' = fl
      BY <2>2, <2>4 DEF FlightSteps
    <3> QED
      BY <1>2, <2>1, <3>1
  <2> QED
    BY <2>3, <2>4
<1>i. CASE Record
  <2>1. /\ pc = "record" /\ fl' = [fl EXCEPT !.nudged = NoNudge]
        /\ UNCHANGED <<camp, i, nudges>>
    BY <1>i DEF Record
  <2>2. fl'.ticks = fl.ticks /\ fl'.nudged = NoNudge
    BY <1>0, <2>1, NoNudgeIsNudge DEF Local
  <2>3. CASE fl.nudged.cmd = "stop" /\ pc' = "ophold" /\ UNCHANGED <<step, nudge>>
    <3>1. fl.nudged # NoNudge
      BY <2>3 DEF NoNudge, None
    <3>2. Holdups' < Holdups
      BY <1>0, <2>1, <2>2, <2>3, <3>1 DEF Holdups, ControlOK, CampaignAssumption
    <3>3. FlightSteps[pc'] <= FlightSteps[pc] + 1
      BY <2>1, <2>3 DEF FlightSteps
    <3> QED
      BY <2>1, <2>2, <2>3, <3>2, <3>3 DEF HoldsOn
  <2>4. CASE step < Len(camp[i].steps) /\ NextStep
    <3>1. camp[i].steps[step + 1] \in Kinds
      BY <1>0, <2>4, CampaignSteps DEF PlaceOK
    <3>2. pc' \in {"hold", "settle", "set", "origin", "tune"}
      BY <2>4, <3>1 DEF NextStep, Entry, Kinds
    <3>3. FlightSteps[pc'] <= 13
      BY <3>2 DEF FlightSteps
    <3>4. step' = step + 1 /\ nudge' = NoNudge
      BY <2>4 DEF NextStep
    <3>5. Holdups' <= Holdups
      BY <1>0, <2>1, <2>2, <3>4 DEF Holdups, ControlOK, CampaignAssumption
    <3> QED
      BY <2>1, <2>2, <3>3, <3>4, <3>5 DEF StepsOn
  <2>5. CASE pc' = "land" /\ UNCHANGED <<step, nudge>>
    <3>1. FlightSteps[pc'] < FlightSteps[pc]
      BY <2>1, <2>5 DEF FlightSteps
    <3> QED
      BY <1>2, <2>1, <2>2, <2>5, <3>1
  <2> QED
    BY <1>i, <2>3, <2>4, <2>5 DEF Record
<1>j. CASE StopPaths
  <2>1. pc = "tail" /\ pc' = "land" /\ UNCHANGED <<fl, nudge, step, camp, i, nudges>>
    BY <1>j DEF StopPaths
  <2>2. FlightSteps[pc'] < FlightSteps[pc]
    BY <2>1 DEF FlightSteps
  <2> QED
    BY <1>2, <2>1, <2>2
<1> QED
  BY <1>a, <1>d, <1>e, <1>f, <1>g, <1>i, <1>j DEF RunnerStep

LEMMA RunnerGetsNearer ==
  ASSUME Typed, Typed', RunnerStep, pc \in Flying, pc' \in Flying
  PROVE  FlightLeft' < FlightLeft
<1>0. MaxTicks \in Nat /\ Counting /\ Counting'
  BY FlightParts, FlightPartsNext, CampaignAssumption
<1>1. CASE Aloft /\ Aloft'
  BY <1>1, RunnerCounts, PartsCount
<1>2. CASE Aloft /\ ~Aloft'
  <2>1. pc' = "landing"
    BY <1>2 DEF Aloft
  <2>2. Land
    <3>1. ASSUME Landing PROVE FALSE
      BY <1>2, <3>1 DEF Landing, Runner, Aloft
    <3>2. ASSUME NEW w \in Waits, WaitEnds(w) \/ WaitNudged(w) \/ WaitFails(w) \/ WaitTurn(w)
          PROVE  FALSE
      <4>1. pc = w
        BY <3>2 DEF WaitEnds, WaitNudged, WaitFails, WaitTurn, Runner
      <4>2. CASE WaitEnds(w)
        BY <2>1, <4>2 DEF WaitEnds, WaitOver, Continues, Checks, Aborts
      <4>3. CASE WaitNudged(w)
        BY <2>1, <4>3 DEF WaitNudged
      <4>4. CASE WaitFails(w)
        BY <2>1, <4>4 DEF WaitFails, Aborts
      <4>5. CASE WaitTurn(w)
        BY <2>1, <4>1, <4>5 DEF WaitTurn, Aborts, Waits
      <4> QED
        BY <3>2, <4>2, <4>3, <4>4, <4>5
    <3>3. ASSUME Record PROVE FALSE
      <4>2. /\ pc = "record" /\ step < Len(camp[i].steps) /\ NextStep
        BY <2>1, <3>3 DEF Record, Runner
      <4>3. camp[i].steps[step + 1] \in Kinds
        BY <4>2, CampaignSteps DEF Typed, PlaceOK
      <4> QED
        BY <2>1, <4>2, <4>3 DEF NextStep, Entry, Kinds
    <3>4. CASE Top \/ WaitForGo \/ Prepare \/ Ready \/ TakeOff \/ StopPaths \/ Judge \/ AutoNext
               \/ Finish
      BY <2>1, <3>4 DEF Top, WaitForGo, Prepare, Ready, TakeOff, StopPaths, Judge, AutoNext, Finish,
                        Aborts, Continues, Runner
    <3>5. CASE Upload \/ Start \/ Write
      BY <2>1, <3>5 DEF Upload, Start, Write, Continues, Checks, Aborts
    <3> QED
      BY <3>1, <3>2, <3>3, <3>4, <3>5 DEF RunnerStep, Wait
  <2>3. FlightLeft' = MaxTicks
    <3>1. PICK ok \in BOOLEAN : fl' = [fl EXCEPT !.landSent = ok, !.ticks = 0]
      BY <2>1, <2>2 DEF Land, SendsLand
    <3>2. fl'.ticks = 0
      BY <3>1 DEF Typed, Local
    <3> QED
      BY <1>0, <2>1, <3>2 DEF FlightLeft
  <2>4. /\ MaxTicks \in Nat /\ Holdups \in Nat /\ StepsLeft \in Nat
        /\ fl.ticks \in 0 .. MaxTicks /\ FlightSteps[pc] \in 1 .. 13
    BY <1>0, <1>2 DEF Counting
  <2>5. MaxTicks < 2 * MaxTicks + 1 - fl.ticks + 2 * Holdups + 16 * StepsLeft + FlightSteps[pc]
    BY <2>4, CountIsNatural
  <2> QED
    BY <1>2, <2>3, <2>5, AloftCount
<1>3. CASE ~Aloft
  <2>1. pc = "landing"
    BY <1>3 DEF Aloft
  <2>2. pc' = "landing" /\ fl'.ticks = fl.ticks + 1
    <3>1. Landing
      <4>1. ~Wait
        BY <2>1 DEF Wait, WaitEnds, WaitNudged, WaitFails, WaitTurn, Runner, Waits
      <4> QED
        BY <2>1, <4>1 DEF RunnerStep, Top, WaitForGo, Prepare, Ready, TakeOff, Upload, Start, Write, Record,
                          StopPaths, Land, Judge, AutoNext, Finish, Runner
    <3>2. pc' # "judge"
      BY DEF Flying, Steps, Waits
    <3>3. ASSUME SendsLand(fl.ticks + 1) PROVE fl'.ticks = fl.ticks + 1
      BY <3>3 DEF SendsLand, Typed, Local
    <3>4. ASSUME fl' = [fl EXCEPT !.ticks = @ + 1] PROVE fl'.ticks = fl.ticks + 1
      BY <3>4 DEF Typed, Local
    <3> QED
      BY <2>1, <3>1, <3>2, <3>3, <3>4 DEF Landing
  <2> QED
    BY <1>0, <2>1, <2>2 DEF FlightLeft, Counting
<1> QED
  BY <1>1, <1>2, <1>3

LEMMA OthersKeepCount ==
  ASSUME Typed, Typed', [Next]_vars, ~RunnerStep, pc \in Flying, pc' \in Flying
  PROVE  FlightLeft' <= FlightLeft
<1>0. FlightLeft \in Nat /\ MaxTicks \in Nat /\ Counting /\ Counting'
  BY FlightParts, FlightPartsNext, FlightLeftRange, CampaignAssumption DEF FlightRanged
<1>1. ASSUME UNCHANGED <<pc, fl, step, camp, i, nudge, nudges>> PROVE FlightLeft' <= FlightLeft
  <2>1. FlightLeft' = FlightLeft
    BY <1>1 DEF FlightLeft, Holdups
  <2> QED
    BY <1>0, <2>1
<1>2. CASE Raise
  BY <1>2 DEF Raise, Flying, Steps, Waits
<1>3. CASE Launch
  BY <1>3 DEF Launch, Flying, Steps, Waits
<1>4. CASE (\E p \in Packs : Go(p)) \/ (\E r \in Requests : Ask(r)) \/ Deliver \/ DroneStep \/ Stream
           \/ UNCHANGED vars
  <2>1. UNCHANGED <<pc, fl, step, camp, i, nudge, nudges>>
    BY <1>4 DEF Go, Granted, Ask, Deliver, DroneStep, Stream, vars, control, queue
  <2> QED
    BY <1>1, <2>1
<1>5. ASSUME NEW n \in Nudges, Press(n) PROVE FlightLeft' <= FlightLeft
  <2>1. /\ UNCHANGED <<pc, fl, step, camp, i>> /\ nudges' = nudges + 1 /\ pc \in Steps
    BY <1>5 DEF Press, queue
  <2>2. Holdups' <= Holdups
    BY <2>1 DEF Holdups, Typed, ControlOK, CampaignAssumption
  <2>3. Aloft /\ Aloft'
    BY <2>1 DEF Aloft, Flying, Steps, Waits
  <2>4. StepsLeft' = StepsLeft /\ fl'.ticks = fl.ticks /\ FlightSteps[pc'] = FlightSteps[pc]
    BY <2>1 DEF StepsLeft
  <2> QED
    BY <1>0, <2>2, <2>3, <2>4, HoldupsCount
<1> QED
  BY <1>2, <1>3, <1>4, <1>5 DEF Next, Operator

(* One step of any actor, as a flight under way counts it.                 *)
CountsDown == pc \in Flying /\ pc' \in Flying =>
                /\ FlightLeft' <= FlightLeft
                /\ RunnerStep => FlightLeft' < FlightLeft

(* A flight counts down: while one is under way, FlightLeft is a natural   *)
(* number, every step of the runner thread lowers it, and nothing the      *)
(* operator, the link, the drone or the stream does raises it.  No         *)
(* sequence of nudges, lost answers and stale statuses keeps a flight in   *)
(* the air for ever.                                                       *)
THEOREM FlightCountsDown == Spec => []FlightRanged /\ [][CountsDown]_vars
<1>1. IInv => FlightRanged
  BY FlightLeftRange DEF IInv
<1>2. IInv /\ IInv' /\ [Next]_vars => CountsDown
  <2> SUFFICES ASSUME IInv, IInv', [Next]_vars, pc \in Flying, pc' \in Flying
               PROVE  /\ FlightLeft' <= FlightLeft
                      /\ RunnerStep => FlightLeft' < FlightLeft
    BY DEF CountsDown
  <2>0. Typed /\ Typed' /\ FlightLeft \in Nat
    BY <1>1 DEF IInv, FlightRanged
  <2>1. CASE RunnerStep
    <3>1. FlightLeft' < FlightLeft /\ FlightLeft' \in Nat
      <4>1. FlightLeft' < FlightLeft
        BY <2>0, <2>1, RunnerGetsNearer
      <4>2. Typed' => FlightRanged'
        BY FlightLeftRange, PTL
      <4> QED
        BY <2>0, <4>1, <4>2 DEF FlightRanged
    <3> QED
      BY <2>0, <2>1, <3>1
  <2>2. CASE ~RunnerStep
    BY <2>0, <2>2, OthersKeepCount
  <2> QED
    BY <2>1, <2>2
<1> QED
  BY <1>1, <1>2, Inductive, PTL DEF Spec
=============================================================================
