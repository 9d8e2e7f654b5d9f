------------------------------ MODULE Campaign ------------------------------
(***************************************************************************)
(* A fly-mode campaign of the ground station: the service that starts it   *)
(* and hands over the operator's Go and requests                           *)
(* (ground_station/service/campaign_api.py, on HTTP threads), the runner   *)
(* thread that flies one scenario after another (campaign_runner.py), its  *)
(* client (campaign_live.py), and the drone at the other end of a link     *)
(* that loses, delays and leaves unanswered what it carries, and whose     *)
(* status stream shows the drone as it was some time ago.                  *)
(*                                                                         *)
(* One turn of a wait is one action: it reads its condition, the control   *)
(* and the stream in the order of the code.  A command is one action too:  *)
(* the runner does nothing between sending it and giving up on its answer. *)
(* The drone is as much of WfbFlight as the ground tells apart.            *)
(***************************************************************************)
EXTENDS Naturals, Sequences

CONSTANTS
  Packs,      \* the battery packs
  Campaigns,  \* the campaigns to choose from: their flights, in order
  MaxTicks,   \* flight_timeout_s, in turns of a wait
  MaxNudges,  \* how often the operator presses s or n in a flight
  MaxLate     \* how many commands the link may hold back at once

Kinds  == {"hold", "traj", "preset", "set", "excite", "tune"}

(* A flight: whether its motors idle for a while before TAKEOFF, whether   *)
(* its log plan streams status.motor_idle, and its steps.                  *)
Flight == [pack : Packs, idles : BOOLEAN, gated : BOOLEAN, steps : Seq(Kinds)]
None   == "none"

ASSUME CampaignAssumption ==
  /\ Campaigns \subseteq Seq(Flight) /\ Campaigns # {} /\ <<>> \notin Campaigns
  /\ None \notin Packs
  /\ MaxTicks \in Nat /\ MaxNudges \in Nat /\ MaxLate \in Nat

VARIABLES
  alive, waiting, grant,  \* CampaignService: runner_thread, waiting_pack, go_grant
  req, nudge, nudges,     \* RunnerControl, and how often a nudge was posted
  camp, i, needGo,        \* run_campaign: queue, i, need_go
  aborts, recording,      \* runner_consecutive_aborts, and the capture
  pc, step, fl,           \* where the runner is, at which step, fly_scenario's locals
  drone, late,            \* the drone, and the commands still on their way to it
  seen,                   \* the newest g_wfb_status and traj_status streamed
  last, since,            \* the flight command tried last; TAKEOFFs since a request
  consent, ran,           \* the pack the operator's Go stands for; this step's preset ran
  fresh                   \* the stream was seen since a path was last uploaded

service == <<alive, waiting, grant>>
control == <<req, nudge, nudges>>
queue   == <<camp, i, needGo, aborts>>
link    == <<drone, late>>
ghosts  == <<last, since, consent, ran, fresh>>
vars == <<service, control, queue, recording, pc, step, fl, link, seen, ghosts>>

Requests == {"pause", "land"}
Nudges   == {"stop", "next"}
Prims    == {"IDLE", "CLIMB", "HOVER", "TRAJ", "DESCEND"}
Presets  == {"none", "running", "done", "bad"}
Commands == {"TAKEOFF", "LAND", "START", "PRESET"}

Waits == {"idle", "climb", "hold", "settle", "run", "pstart", "prun", "pstop",
          "origin", "shake", "tune", "ophold"}
Steps == Waits \union {"launch", "upload", "start", "set", "excite", "record"}
Flying == Steps \union {"ready", "tail", "land", "landing"}
OnGround == {"off", "top", "go", "prepare", "ready", "judge", "next", "done", "over"}
Skippable == {"hold", "prun", "ophold"}

NoNudge == [cmd |-> None, at |-> <<0, 0>>]
Fresh == [ticks |-> 0, airborne |-> FALSE, sent |-> FALSE, landSent |-> FALSE,
          level |-> 0, landed |-> FALSE, nudged |-> NoNudge]

(* What the stream carries of the drone: up, whether it is in the air, is  *)
(* not part of it.                                                         *)
Status(d) == [prim |-> d.prim, idle |-> d.idle, traj |-> d.traj,
              preset |-> d.preset, trip |-> d.trip]

Drone == [prim : Prims, up : BOOLEAN, idle : BOOLEAN, traj : {"none", "ready", "done"},
          preset : Presets, trip : BOOLEAN]

Nudge == [cmd : Nudges \union {None}, at : Nat \X Nat]

TypeOK ==
  /\ alive \in BOOLEAN /\ waiting \in Packs \union {None} /\ grant \in Packs \union {None}
  /\ req \in Requests \union {None} /\ nudge \in Nudge /\ nudges \in 0 .. MaxNudges
  /\ camp \in Campaigns /\ i \in 1 .. Len(camp) /\ needGo \in BOOLEAN
  /\ aborts \in 0 .. 2 /\ recording \in BOOLEAN
  /\ pc \in Flying \union OnGround \union {"raised", "failed"}
  /\ step \in 0 .. Len(camp[i].steps)
  /\ fl \in [ticks : 0 .. MaxTicks, airborne : BOOLEAN, sent : BOOLEAN, landSent : BOOLEAN,
             level : {0, 1, 3}, landed : BOOLEAN, nudged : Nudge]
  /\ drone \in Drone /\ late \in Seq(Commands) /\ Len(late) <= MaxLate
  /\ seen \in [prim : Prims, idle : BOOLEAN, traj : {"none", "ready", "done"},
               preset : Presets, trip : BOOLEAN]
  /\ last \in {"TAKEOFF", "LAND", None} /\ since \in 0 .. 2
  /\ consent \in Packs \union {None} /\ ran \in BOOLEAN /\ fresh \in BOOLEAN

(* A campaign, with the drone on the ground, or left hovering by an        *)
(* earlier one that failed with the status of that one's path and preset.  *)
Init ==
  /\ alive = FALSE /\ waiting = None /\ grant = None
  /\ req = None /\ nudge = NoNudge /\ nudges = 0
  /\ camp \in Campaigns /\ i = 1 /\ needGo = TRUE /\ aborts = 0 /\ recording = FALSE
  /\ pc = "off" /\ step = 0 /\ fl = Fresh
  /\ drone \in {[prim |-> "IDLE", up |-> FALSE, idle |-> FALSE, traj |-> "none",
                 preset |-> "none", trip |-> FALSE],
                [prim |-> "HOVER", up |-> TRUE, idle |-> FALSE, traj |-> "done",
                 preset |-> "done", trip |-> FALSE]}
  /\ late = <<>> /\ seen = Status(drone)
  /\ last = None /\ since = 0 /\ consent = None /\ ran = FALSE /\ fresh = TRUE

-----------------------------------------------------------------------------
(* The drone and the link.                                                 *)

(* TAKEOFF needs the motors at idle and no landing the safety net asked    *)
(* for; LAND is refused until the drone has left the ground, and DESCEND   *)
(* stands for the whole way down; START needs the hover and a path.  The   *)
(* traj_go of a preset is a variable write: it is always applied, and the  *)
(* preset refuses by its own status.                                       *)
Accepts(d, c) ==
  \/ c = "TAKEOFF" /\ d.prim = "IDLE" /\ d.idle /\ ~d.up /\ ~d.trip
  \/ c = "LAND" /\ d.up
  \/ c = "START" /\ d.prim = "HOVER" /\ d.traj = "ready"
  \/ c = "PRESET"

Ended(d) == [d EXCEPT !.prim = "IDLE", !.preset = IF @ = "running" THEN "bad" ELSE @]

Obeyed(d, c) ==
  IF c = "TAKEOFF" THEN [d EXCEPT !.prim = "CLIMB", !.idle = FALSE]
  ELSE IF c = "LAND" THEN IF d.prim = "IDLE" THEN d ELSE [Ended(d) EXCEPT !.prim = "DESCEND"]
  ELSE IF c = "START" THEN [d EXCEPT !.prim = "TRAJ"]
  ELSE [d EXCEPT !.preset = IF d.prim = "HOVER" THEN "running" ELSE "bad"]   \* PRESET

Received(c) ==
  /\ drone' = IF Accepts(drone, c) THEN Obeyed(drone, c) ELSE drone
  /\ ran' = (ran \/ (c = "PRESET" /\ drone.prim = "HOVER"))

(* _send_cmd: an answer that the drone applied it is TRUE, and so is an    *)
(* acknowledgement whose answer never came, whatever the answer was.       *)
Call(c, ok) ==
  \/ Received(c) /\ UNCHANGED late
  \/ ~ok /\ UNCHANGED <<drone, late, ran>>
  \/ ~ok /\ Len(late) < MaxLate /\ late' = Append(late, c) /\ UNCHANGED <<drone, ran>>

Deliver ==
  /\ late # <<>>
  /\ Received(Head(late)) /\ late' = Tail(late)
  /\ UNCHANGED <<service, control, queue, recording, pc, step, fl, seen, last, since, consent,
                 fresh>>

Flies ==
  \/ drone.prim = "CLIMB" /\ ~drone.up /\ drone' = [drone EXCEPT !.up = TRUE]
  \/ drone.prim = "CLIMB" /\ drone.up /\ drone' = [drone EXCEPT !.prim = "HOVER"]
  \/ drone.prim = "TRAJ" /\ drone' = [drone EXCEPT !.prim = "HOVER", !.traj = "done"]
  \/ drone.preset = "running" /\ drone' = [drone EXCEPT !.preset = "done"]
  \/ drone.prim = "DESCEND" /\ drone' = [drone EXCEPT !.prim = "IDLE", !.up = FALSE]

(* The safety net, the pilot's sticks, a disarm.                           *)
Interferes ==
  \/ /\ drone.up /\ drone.prim # "IDLE" /\ ~drone.trip
     /\ drone' \in {[Ended(drone) EXCEPT !.prim = "DESCEND", !.trip = TRUE],
                    [Ended(drone) EXCEPT !.up = FALSE, !.trip = TRUE]}
  \/ drone.prim # "IDLE" /\ drone' = Ended(drone)
  \/ drone.prim = "IDLE" /\ drone.up /\ drone' = [drone EXCEPT !.up = FALSE]
  \/ drone.prim = "IDLE" /\ ~drone.up /\ drone' = [drone EXCEPT !.idle = FALSE, !.trip = FALSE]

DroneStep ==
  /\ Flies \/ Interferes
  /\ UNCHANGED <<service, control, queue, recording, pc, step, fl, late, seen, ghosts>>

Stream ==
  /\ seen' = Status(drone) /\ fresh' = TRUE
  /\ UNCHANGED <<service, control, queue, recording, pc, step, fl, link, last, since, consent, ran>>

-----------------------------------------------------------------------------
(* The operator, on HTTP threads.                                          *)

(* CampaignService.go with no runner: the Go is for the first flight.      *)
Launch ==
  /\ pc = "off" /\ pc' = "top"
  /\ alive' = TRUE /\ grant' = camp[1].pack /\ consent' = camp[1].pack
  /\ UNCHANGED <<waiting, control, queue, recording, step, fl, link, seen, last, since, ran,
                 fresh>>

Granted(p) ==
  /\ grant' = p /\ consent' = p
  /\ UNCHANGED <<alive, waiting, control, queue, recording, pc, step, fl, link, seen, last,
                 since, ran, fresh>>

(* Seeded fault: a Go counts whenever the runner lives.                    *)
GoAnytime(p) == alive /\ Granted(p)

(* CampaignService.go with a runner: it counts only while the runner waits *)
(* for that pack.                                                          *)
Go(p) == alive /\ waiting = p /\ Granted(p)

(* RunnerControl.request: a land outranks a pause.  An abort outranks both *)
(* and is a land that is reported otherwise.                               *)
Ask(r) ==
  /\ alive
  /\ \/ req = None
     \/ req = "pause" /\ r = "land"
  /\ req' = r
  /\ UNCHANGED <<service, nudge, nudges, queue, recording, pc, step, fl, link, seen, ghosts>>

(* Between the steps of two flights a nudge has no effect: what is posted  *)
(* there, or nobody took, the next flight begins by discarding.            *)
Press(n) ==
  /\ alive /\ pc \in Steps /\ nudges < MaxNudges
  /\ nudge' = [cmd |-> n, at |-> <<i, step>>] /\ nudges' = nudges + 1
  /\ UNCHANGED <<service, req, queue, recording, pc, step, fl, link, seen, ghosts>>

-----------------------------------------------------------------------------
(* The runner thread between flights.                                      *)

Runner(where) == alive /\ pc = where

(* Seeded fault: a pause is not looked at between flights.                 *)
ControlReportLate == req = "land"

(* _control_report: whatever the operator asked for ends the campaign.     *)
ControlReport == req # None

Top ==
  /\ Runner("top")
  /\ needGo' = (needGo \/ i = 1 \/ camp[i].pack # camp[i - 1].pack)
  /\ pc' = IF ControlReport THEN "done" ELSE IF needGo' THEN "go" ELSE "prepare"
  /\ UNCHANGED <<service, control, camp, i, aborts, recording, step, fl, link, seen, ghosts>>

(* wait_for_go: a grant is taken before a request is looked at.            *)
WaitForGo ==
  /\ Runner("go")
  /\ \/ /\ grant = camp[i].pack
        /\ grant' = None /\ waiting' = None /\ pc' = "prepare"
     \/ /\ grant # camp[i].pack /\ waiting = None
        /\ waiting' = camp[i].pack /\ UNCHANGED <<grant, pc>>
     \/ /\ grant # camp[i].pack /\ waiting # None /\ req # None
        /\ waiting' = None /\ pc' = "done" /\ UNCHANGED grant
  /\ UNCHANGED <<alive, control, queue, recording, step, fl, link, seen, ghosts>>

(* Cooldown, pack gate, stream check and capture, which may each refuse.   *)
Prepare ==
  /\ Runner("prepare")
  /\ \/ pc' = "done" /\ UNCHANGED <<recording, fl, step>>
     \/ pc' = "ready" /\ recording' = TRUE /\ fl' = Fresh /\ step' = 0
  /\ UNCHANGED <<service, control, queue, link, seen, ghosts>>

Aborts(level) == pc' = "tail" /\ fl' = [fl EXCEPT !.level = level, !.nudged = NoNudge]
Continues(where) == pc' = where /\ UNCHANGED fl
Checks(good, where) == IF good THEN Continues(where) ELSE Aborts(1)

(* The path of a flight that has only one is uploaded before TAKEOFF,      *)
(* several are uploaded one by one in the hover.                           *)
Paths == {n \in DOMAIN camp[i].steps : camp[i].steps[n] = "traj"}
Preloaded == \E n \in Paths : Paths = {n}

(* A path in the drone, or none: a COMMIT that was refused and whose       *)
(* answer was lost passes for one that was taken.  A drone that flies a    *)
(* path refuses each of the many frames of another, and is heard.          *)
Uploads(d) == IF d.prim = "TRAJ" THEN {} ELSE {[d EXCEPT !.traj = t] : t \in {"none", "ready"}}

(* IDLE is acknowledged even when the drone ignores it.                    *)
Idled(d) == {d, [d EXCEPT !.idle = d.prim = "IDLE" /\ ~d.up]}

(* The commands before TAKEOFF: the switches, the path, the motors to      *)
(* idle.  Any of them may fail, with those before it done.                 *)
Ready ==
  /\ Runner("ready")
  /\ nudge' = NoNudge
  /\ \/ /\ \E d \in {drone} \union (IF Preloaded THEN Uploads(drone) ELSE {}) : drone' \in Idled(d)
        /\ Aborts(1)
     \/ /\ \E d \in (IF Preloaded THEN Uploads(drone) ELSE {drone}) : drone' \in Idled(d)
        /\ Continues(IF camp[i].idles THEN "idle" ELSE "launch")
  /\ fresh' = (fresh /\ ~Preloaded)
  /\ UNCHANGED <<service, req, nudges, queue, recording, step, late, seen, last, since, consent, ran>>

(* The last look at the gate, where the stream shows it, and TAKEOFF,      *)
(* which counts as sent whether answered or not.                           *)
TakeOff ==
  /\ Runner("launch")
  /\ \/ Aborts(1) /\ UNCHANGED <<link, ran, last, since>>
     \/ /\ seen.idle \/ ~camp[i].gated
        /\ last' = "TAKEOFF" /\ since' = IF req # None /\ since < 2 THEN since + 1 ELSE since
        /\ \E ok \in BOOLEAN :
             /\ Call("TAKEOFF", ok)
             /\ pc' = IF ok THEN "climb" ELSE "tail"
             /\ fl' = [fl EXCEPT !.sent = TRUE, !.level = IF ok THEN 0 ELSE 1]
  /\ UNCHANGED <<service, control, queue, recording, step, seen, consent, fresh>>

-----------------------------------------------------------------------------
(* The waits of a flight.                                                  *)

(* Seeded fault: a trajectory is over once the drone hovers.               *)
ConditionHover(w) ==
  IF w \in {"climb", "run"} THEN {seen.prim = "HOVER"}
  ELSE IF w = "settle" THEN {FALSE, seen.prim = "HOVER"}
  ELSE IF w = "pstart" THEN {TRUE, seen.preset \in {"running", "bad"}}
  ELSE IF w \in {"prun", "pstop"} THEN {TRUE, seen.preset # "running"}
  ELSE IF w = "ophold" THEN {FALSE}
  ELSE IF w = "tune" /\ (seen.prim # "HOVER" \/ seen.trip) THEN {TRUE}
  ELSE BOOLEAN

(* What a wait's condition may turn out to be; TRUE or FALSE where it is   *)
(* about the time or the position.                                         *)
Condition(w) ==
  IF w = "climb" THEN {seen.prim = "HOVER"}
  ELSE IF w = "settle" THEN {FALSE, seen.prim = "HOVER"}
  ELSE IF w = "run" THEN {seen.traj = "done" /\ seen.prim = "HOVER"}
  ELSE IF w = "pstart" THEN {TRUE, seen.preset \in {"running", "bad"}}
  ELSE IF w \in {"prun", "pstop"} THEN {TRUE, seen.preset # "running"}
  ELSE IF w = "ophold" THEN {FALSE}
  ELSE IF w = "tune" /\ (seen.prim # "HOVER" \/ seen.trip) THEN {TRUE}
  ELSE BOOLEAN

(* What comes after a wait that ended well.  A tuning that ended badly     *)
(* ends the flight without a decision to abort it.                         *)
WaitOver(w) ==
  IF w = "idle" THEN Continues("launch")
  ELSE IF w = "climb" THEN pc' = "record" /\ fl' = [fl EXCEPT !.airborne = TRUE]
  ELSE IF w = "settle"
       THEN Continues(IF camp[i].steps[step] = "traj" /\ ~Preloaded THEN "upload" ELSE "start")
  ELSE IF w = "pstart" THEN Checks(seen.preset = "running", "prun")
  ELSE IF w \in {"prun", "pstop"} THEN Checks(seen.preset = "done", "record")
  ELSE IF w = "origin" THEN Checks(seen.prim = "HOVER", "excite")
  ELSE IF w = "tune" THEN \/ Continues("land")
                          \/ seen.prim = "HOVER" /\ ~seen.trip /\ Continues("record")
  ELSE Continues("record")

(* The monitor's level: the firmware's trip, or the limits of the flight.  *)
Judged == IF seen.trip THEN {3} ELSE IF seen.prim = "IDLE" THEN {0} ELSE {0, 1}

NudgedIn(w) == w \in Skippable /\ nudge # NoNudge

Down == fl.airborne /\ seen.prim \in {"DESCEND", "IDLE"}

WaitEnds(w) ==
  /\ Runner(w) /\ TRUE \in Condition(w) /\ WaitOver(w)
  /\ UNCHANGED <<service, control, queue, recording, step, link, seen, ghosts>>

WaitNudged(w) ==
  /\ Runner(w) /\ FALSE \in Condition(w) /\ req # "land" /\ NudgedIn(w)
  /\ nudge' = NoNudge /\ fl' = [fl EXCEPT !.nudged = nudge]
  /\ pc' = IF w = "prun" THEN "pstop" ELSE "record"
  /\ UNCHANGED <<service, req, nudges, queue, recording, step, link, seen, ghosts>>

(* Seeded fault: a wait that has no end of its own never ends.             *)
WaitFailsPatiently(w) ==
  /\ Runner(w) /\ FALSE \in Condition(w)
  /\ req = "land" \/ (~NudgedIn(w) /\ Down)
  /\ Aborts(1)
  /\ UNCHANGED <<service, control, queue, recording, step, link, seen, ghosts>>

WaitFails(w) ==
  /\ Runner(w) /\ FALSE \in Condition(w)
  /\ req = "land" \/ (~NudgedIn(w) /\ (fl.ticks >= MaxTicks \/ Down))
  /\ Aborts(1)
  /\ UNCHANGED <<service, control, queue, recording, step, link, seen, ghosts>>

(* Seeded fault: one turn too many.                                        *)
WaitTurnMore(w) ==
  /\ Runner(w) /\ FALSE \in Condition(w)
  /\ req # "land" /\ ~NudgedIn(w) /\ fl.ticks <= MaxTicks /\ ~Down
  /\ \E level \in Judged :
       IF level = 0 THEN fl' = [fl EXCEPT !.ticks = @ + 1] /\ UNCHANGED pc
       ELSE Aborts(level)
  /\ UNCHANGED <<service, control, queue, recording, step, link, seen, ghosts>>

WaitTurn(w) ==
  /\ Runner(w) /\ FALSE \in Condition(w)
  /\ req # "land" /\ ~NudgedIn(w) /\ fl.ticks < MaxTicks /\ ~Down
  /\ \E level \in Judged :
       IF level = 0 THEN fl' = [fl EXCEPT !.ticks = @ + 1] /\ UNCHANGED pc
       ELSE Aborts(level)
  /\ UNCHANGED <<service, control, queue, recording, step, link, seen, ghosts>>

Wait == pc \in Waits /\ (WaitEnds(pc) \/ WaitNudged(pc) \/ WaitFails(pc) \/ WaitTurn(pc))

-----------------------------------------------------------------------------
(* The commands of the steps.                                              *)

(* A path that was not uploaded on the ground.                             *)
Upload ==
  /\ Runner("upload")
  /\ \/ drone' \in {drone} \union Uploads(drone) /\ Aborts(1)
     \/ drone' \in Uploads(drone) /\ Continues("start")
  /\ fresh' = FALSE
  /\ UNCHANGED <<service, control, queue, recording, step, late, seen, last, since, consent, ran>>

(* The result of a trajectory's START is not looked at; a preset's is.     *)
Start ==
  /\ Runner("start")
  /\ \E ok \in BOOLEAN :
       IF camp[i].steps[step] = "traj"
       THEN Call("START", ok) /\ Continues("run")
       ELSE \/ Call("PRESET", ok) /\ Checks(ok, "pstart")
            \/ Aborts(1) /\ UNCHANGED <<link, ran>>
  /\ UNCHANGED <<service, control, queue, recording, step, seen, last, since, consent, fresh>>

(* set writes variables and excite starts the system identification:       *)
(* nothing the campaign looks at again.                                    *)
Write ==
  /\ \/ Runner("set") /\ (Continues("record") \/ Aborts(1))
     \/ Runner("excite") /\ (Continues("shake") \/ Aborts(1))
  /\ UNCHANGED <<service, control, queue, recording, step, link, seen, ghosts>>

Entry(kind) == IF kind \in {"traj", "preset"} THEN "settle"
               ELSE IF kind = "excite" THEN "origin" ELSE kind

(* Seeded fault: a nudge is kept for the next step.                        *)
NextStepKeeps ==
  /\ step' = step + 1 /\ ran' = FALSE
  /\ pc' = Entry(camp[i].steps[step + 1]) /\ UNCHANGED <<nudge>>

(* A key pressed during an earlier step must not skip this one.            *)
NextStep ==
  /\ step' = step + 1 /\ ran' = FALSE
  /\ pc' = Entry(camp[i].steps[step + 1]) /\ nudge' = NoNudge

(* The end of a step that went well: s holds at the hover point until n.   *)
Record ==
  /\ Runner("record")
  /\ fl' = [fl EXCEPT !.nudged = NoNudge]
  /\ \/ fl.nudged.cmd = "stop" /\ pc' = "ophold" /\ UNCHANGED <<step, nudge, ran>>
     \/ fl.nudged.cmd # "stop" /\ step < Len(camp[i].steps) /\ NextStep
     \/ /\ fl.nudged.cmd # "stop" /\ step = Len(camp[i].steps)
        /\ pc' = "land" /\ UNCHANGED <<step, nudge, ran>>
  /\ UNCHANGED <<service, req, nudges, queue, recording, link, seen, last, since, consent,
                 fresh>>

-----------------------------------------------------------------------------
(* The end of a flight.                                                    *)

(* traj_stop, whatever comes of it.                                        *)
StopPaths ==
  /\ Runner("tail") /\ pc' = "land"
  /\ drone' \in {drone, [drone EXCEPT !.prim = IF @ = "TRAJ" THEN "HOVER" ELSE @]}
  /\ UNCHANGED <<service, control, queue, recording, step, fl, late, seen, ghosts>>

(* Seeded fault: LAND only after a climb that was seen to end.             *)
NeedsLandSeen == fl.airborne

NeedsLand == fl.airborne \/ fl.sent \/ seen.prim # "IDLE"

SendsLand(ticks) ==
  \E ok \in BOOLEAN :
    Call("LAND", ok) /\ fl' = [fl EXCEPT !.landSent = ok, !.ticks = ticks] /\ last' = "LAND"

Land ==
  /\ Runner("land")
  /\ nudge' = NoNudge /\ nudges' = 0
  /\ IF NeedsLand
     THEN SendsLand(0) /\ pc' = "landing"
     ELSE pc' = "judge" /\ fl' = [fl EXCEPT !.landed = TRUE] /\ UNCHANGED <<link, ran, last>>
  /\ UNCHANGED <<service, req, queue, recording, step, seen, since, consent, fresh>>

(* One turn of the landing: the stream says IDLE; or a LAND that got no    *)
(* good answer is sent again while the stream says HOVER; or it waits on.  *)
Landing ==
  /\ Runner("landing")
  /\ \/ /\ fl.ticks >= MaxTicks
        /\ pc' = "judge" /\ UNCHANGED <<fl, link, ran, last>>
     \/ /\ fl.ticks < MaxTicks /\ seen.prim = "IDLE"
        /\ pc' = "judge" /\ fl' = [fl EXCEPT !.landed = TRUE] /\ UNCHANGED <<link, ran, last>>
     \/ /\ fl.ticks < MaxTicks /\ seen.prim = "HOVER" /\ ~fl.landSent
        /\ SendsLand(fl.ticks + 1) /\ UNCHANGED pc
     \/ /\ fl.ticks < MaxTicks /\ seen.prim # "IDLE" /\ (fl.landSent \/ seen.prim # "HOVER")
        /\ fl' = [fl EXCEPT !.ticks = @ + 1] /\ UNCHANGED <<pc, link, ran, last>>
  /\ UNCHANGED <<service, control, queue, recording, step, seen, since, consent, fresh>>

(* What fly_scenario reads, says and sends may raise: the capture is       *)
(* ended, no landing is begun, what was local to the flight is gone, and   *)
(* the thread ends with an error.                                          *)
Raise ==
  /\ alive /\ pc \in Flying
  /\ pc' = "raised" /\ recording' = FALSE
  /\ step' = 0 /\ fl' = Fresh
  /\ UNCHANGED <<service, control, queue, link, seen, ghosts>>

(* The flight's record, and the limits that end the campaign.  What was    *)
(* local to the flight is gone.                                            *)
Judge ==
  /\ Runner("judge")
  /\ recording' = FALSE
  /\ aborts' = IF fl.level = 0 THEN 0 ELSE aborts + 1
  /\ consent' = IF fl.level = 0 THEN consent ELSE None
  /\ pc' = IF ~fl.landed \/ ControlReport \/ fl.level = 3 \/ aborts' >= 2 THEN "done" ELSE "next"
  /\ step' = 0 /\ fl' = [Fresh EXCEPT !.level = fl.level, !.landed = fl.landed]
  /\ UNCHANGED <<service, control, camp, i, needGo, link, seen, last, since, ran, fresh>>

(* _auto_next: without a Go only after a flight that was not aborted, with *)
(* the drone idle and untripped; its health, the drift of the origin and   *)
(* the next scenario may each ask for a Go all the same.                   *)
AutoNext ==
  /\ Runner("next")
  /\ \E asks \in BOOLEAN :
       needGo' = (asks \/ req # None \/ fl.level # 0 \/ seen.prim # "IDLE" \/ seen.trip)
  /\ consent' = IF needGo' THEN None ELSE consent
  /\ IF ControlReport \/ i = Len(camp) THEN pc' = "done" /\ UNCHANGED i
     ELSE pc' = "top" /\ i' = i + 1
  /\ UNCHANGED <<service, control, camp, aborts, step, recording, fl, link, seen, last, since, ran,
                 fresh>>

(* _run_wrapper: the report and the outputs are written, the thread ends.  *)
Finish ==
  /\ alive /\ pc \in {"done", "raised"}
  /\ alive' = FALSE /\ pc' = IF pc = "raised" THEN "failed" ELSE "over"
  /\ UNCHANGED <<waiting, grant, control, queue, recording, step, fl, link, seen, ghosts>>

RunnerStep ==
  \/ Top \/ WaitForGo \/ Prepare \/ Ready \/ TakeOff \/ Wait \/ Upload \/ Start \/ Write
  \/ Record \/ StopPaths \/ Land \/ Landing \/ Judge \/ AutoNext \/ Finish

Operator == Launch \/ (\E p \in Packs : Go(p)) \/ (\E r \in Requests : Ask(r)) \/ (\E n \in Nudges : Press(n))

Next == RunnerStep \/ Raise \/ Operator \/ Deliver \/ DroneStep \/ Stream

Spec == Init /\ [][Next]_vars

(* The runner is a thread of its own and sleeps for bounded times only.    *)
FairSpec == Spec /\ WF_vars(RunnerStep)

-----------------------------------------------------------------------------
(* No flight has come to its end while a TAKEOFF that went out has no LAND *)
(* after it, whatever the link made of the two: not when its steps are     *)
(* through, nor when it was aborted or called off before the drone was     *)
(* seen to climb.  A flight that an exception ended is the one that may    *)
(* leave none behind: it has not come to its end, the campaign has         *)
(* "failed", and the drone is left to its heartbeat timeout.               *)
LandFollowsTakeoff == pc \in OnGround => last # "TAKEOFF"

(* The runner flies a pack only on a Go the operator gave for it after the *)
(* last flight that was aborted or not fit to go on from.                  *)
FliesByConsent == pc \in {"prepare"} \union Flying => consent = camp[i].pack

(* After a pause, a land or an abort at most the flight that was already   *)
(* being prepared takes off.                                               *)
OneFlightAfterAStop == since <= 1

(* The operator's s or n ends the step it was pressed in, never another.   *)
NudgeIsOfThisStep == fl.nudged # NoNudge => fl.nudged.at = <<i, step>>

(* A step that counts as done, and was not cut short by the operator, was  *)
(* flown: a path since it was uploaded for this step, and a preset since   *)
(* the step began.  START's lost answer, a refusal and the status of an    *)
(* earlier path or preset do not pass for it.  For a path this needs a     *)
(* stream seen since the upload, which is certain only for the path that   *)
(* was uploaded before a TAKEOFF that waited for the idle motors; one      *)
(* uploaded in the hover passes on the DONE of the path before it while    *)
(* the stream stands still.                                                *)
StepCounts == pc # "record" /\ pc' = "record" /\ step > 0 /\ fl'.nudged = NoNudge
StepIsFlown ==
  StepCounts =>
    /\ \/ camp[i].steps[step] # "traj" \/ drone.traj = "done"
       \/ ~fresh /\ ~(camp[i].gated /\ Preloaded)
    /\ camp[i].steps[step] = "preset" => ran
StepsAreFlown == [][StepIsFlown]_vars

(* Every flight is over at some time, however the stream and the link      *)
(* behave.                                                                 *)
FlightEnds == []<>(pc \notin Flying)

-----------------------------------------------------------------------------
(* What a comment of the code claims and the runner does not keep.         *)

(* "a firmware landing is [an abort] (fly_scenario aborts on prim          *)
(* DESCEND/IDLE it did not command)" (_auto_next).                         *)
FirmwareLandingAborts ==
  [][\A w \in Waits : WaitEnds(w) /\ Down => pc' = "tail"]_vars
=============================================================================
