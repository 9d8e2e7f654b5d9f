# Verification of the flight controller's discrete core

The repository is a 6-DOF UAV flight controller (C on an STM32F4 under FreeRTOS) with a Python
ground station. Its control laws are floating-point and are tested by simulation and flight;
what is hard to test is everything discrete around them: who may arm and stop the vehicle, what
a flight goes through, what happens when a command that was checked is applied a tick later, who
consents to a flight, and whether the files that describe the firmware describe the one that
flies. This directory holds TLA+ models of that part, the TLC runs that check them, and TLAPS
proofs.

Line numbers refer to the repository's files.

## 1. Inventory

### Tasks

FreeRTOS, 1 kHz tick, preemption and time slicing (`FreeRTOS/include/FreeRTOSConfig.h:90-98`).

| task | priority | rate | what it does |
| --- | --- | --- | --- |
| `stabilizer_Task` | 4 | 200 Hz | RC modes, sensors, workflow-B glue, cascade, motors |
| `Remoter_Task` | 4 | 100 Hz | SBUS decoding, virtual-stick watchdog |
| `Autofly_Task` | 4 | 200 Hz | path arbitration, preset trajectories, onboard scripts |
| `IMU_Task` | 4 | 1 kHz | attitude |
| `Send_Task` | 2 | event | ground-station commands and telemetry |
| `SystemMonitor_Task` | 1 | slow | battery, load |

Priority-4 tasks are time-sliced, so each may run between any two statements of another.
`Send_Task` runs only when none of them is ready, and is preempted by the next tick between any
two statements.

### Components, their state, and what makes them correct

| component | state | operations | correct when |
| --- | --- | --- | --- |
| Arm state machine, `API/flight_fsm.c` | `s_state`, `flight_phase`, `g_motor_idle_enabled` | `FlightFSM_Event` from six callers | disarmed means on the ground; arming is cold; only the allowed stages |
| RC modes, `TASK/RemoterTask.c` | hold counters, edges | `Check_Fly_Mode` | a held kill silences the motors, whatever else is asked |
| Motor stage, `TASK/StabilizerTask.c` | `s_land_*`, motor commands | `Update_Motor`, `Land_Step`, `GroundIdle_Step` | landings end; motors fade on the ground only |
| Setpoint stage, same file | `TWC.*`, `sbus_flyup_trigger`, `Des` | `Des_Height`, `Des_VHeight`, `Des_Loc` | a target belongs to one flight |
| Virtual sticks, `API/rc_input.c` | authority, virtual axes, heartbeat | `SetAuthority`, `Update`, `Get` | the pilot always gets the sticks back |
| Workflow-B glue, `API/wfb_glue.c`, `wfb_prim.c`, `wfb_safety.c` | primitive, claim, take-over, safety latch | `wfb_glue_tick`, `wfb_glue_on_cmd`, `wfb_glue_rc_land`, `wfb_glue_disarmed` | a take-over ends all autonomy; a tripped flight goes down and stays down; a silent ground station ends the flight |
| Trajectories, `wfb_traj.c`, `wfb_prog.c` | shared buffer, checked/committed state | upload, commit, start, stop | only a checked path is flown |
| Command queue, `BSP/usart4.c`, `usart5.c` | `gs_cmd_queue`, head, tail | enqueue (ISR), drain (`Send_Task`) | frames leave whole and in order; losses are counted |
| Transactions, `TASK/send_data.c`, `comm/wifi_bridge.py`, `service/campaign_live.py` | id counter, history of 16, results | send, accept, refuse, answer, time out | each transaction executed at most once and answered truthfully |
| Telemetry, `BSP/usart3.c`, `API/subscribe.c` | DMA ring, streams | write, DMA complete | frames leave whole and in order |
| Campaign runner and service, `service/campaign_runner.py`, `campaign_api.py`, `campaign_live.py` | queue of flights, Go grant, requests, nudges, the stream's latest status | `go`, `run_campaign`, `fly_scenario`, its waits and commands | no flight without a Go; LAND follows TAKEOFF; a stop stops; what counts as flown was flown; a flight ends |
| Agent layer, `service/agent.py` | operator switch, plans, steps, approval items, queue, one thread per plan | `set_control`, `create_plan`, `decide_approval`, `cancel_plan`, `_run_plan` | critical steps wait for the operator; off stops everything; nobody waits out of reach; done means done |
| Build and flash, `flashtool/safe_flash.py`, `rebuild_and_flash.py`, `artifact_custody.py` | artifacts in `OBJ/`, `.flashtool-cache`, `.prev-flashed`, the stamp, the aircraft's image | build, gate, flash, restore, commit, record | the artifacts taken for the aircraft's are the aircraft's; what was found is not lost |

### What is hard

* **Interleaving.** The arm state changes in a critical section, but the sub-phase is a plain
  variable written by four tasks after a check of both.
* **Atomicity of commands.** A command handler runs at low priority: between its guard and its
  writes whole ticks may pass.
* **Sampling.** Several parts see "disarmed" only if they sample it; a disarm and re-arm inside
  one tick are invisible to them.
* **Recovery.** Every tick without a held kill sends RECOVER, so a stop from elsewhere lasts one
  tick.
* **Delivery.** Commands cross a datagram link and a queue that drops when full; ids are
  numbered by a process that may restart while the drone flies on.
* **Liveness.** A landing must end although its touchdown evidence is noisy, a campaign's flight
  although the stream it waits on may freeze, and a cancelled plan although its thread waits for
  an operator who never answers.
* **Stale consent.** A Go, an approval, a key press or a status is given for the flight, the
  step or the image of one moment and may be used in another.
* **Kills.** The flash pipelines move the only copies of the artifacts about, and may be killed
  between any two moves.

`PROJECT.json` lists the hazards line by line with the properties aimed at them.

### How the parts interact

The stabilizer's tick is the clock of everything: it reads the RC switches (`Check_Fly_Mode`),
lets the glue sample the vehicle and make one request (`Wfb_Step`), computes setpoints
(`Compute_Motor`) and acts (`Update_Motor`). All other parts reach it through shared variables:
the arm state (written only by `FlightFSM_Event`, in a critical section), `flight_phase` and
`g_motor_idle_enabled` (written by whoever checked them before), `TWC.execute` and the targets
(four writers), `sbus_flyup_trigger` (two writers, one consumer), and the glue's `s_wfb`
(critical sections in `Wfb_Step`, `Cmd_Wfb` and the ch5 edge). Commands come from USART
interrupts through a queue into `Send_Task`.

On the ground, one service process holds the agent layer (each plan a thread, all requests on
HTTP threads, one lock), the campaign service with its runner thread, and the bridge with its
polling thread. Plans and campaigns both send through the bridge; a campaign sees the aircraft
only through the telemetry stream. The flash tools are processes of their own; what they leave
in `OBJ/` is read by the campaign's preflight and by everything that reads the aircraft's
memory.

## 2. Modules

| module | models | role |
| --- | --- | --- |
| `FlightLifecycle` | what arm state and sub-phase promise together | abstract specification |
| `FlightCore` | tick, tasks and commands over the arm state | implements `FlightLifecycle` |
| `MCFlightCore` | | TLC instance |
| `FlightCoreProofs` | | theorems about `FlightCore` |
| `LandDescent` | one landing after another, with the firmware's numbers | detector against the ground |
| `MCLandDescent` | heights and ground readings | TLC instance |
| `LandDescentProofs` | | theorems about `LandDescent` |
| `GsClaim` | what a claim on a flight may go through | abstract specification |
| `WfbFlight` | the workflow-B glue, flight primitives, safety net, executors | implements `GsClaim`, takes its vehicle from `FlightLifecycle` |
| `WfbFlightFair` | `WfbFlight` under the stabilizer's fairness | liveness |
| `WfbFlightProofs` | | theorems about `WfbFlight` |
| `CommandFifo` | what the command queue promises | abstract specification |
| `CommandQueue` | the ring between interrupt and `Send_Task`, read by read | implements `CommandFifo` |
| `MCCommandQueue` | | TLC instance |
| `CommandQueueProofs` | | theorems about `CommandQueue` |
| `CommandFates` | what may become of a command that was sent | abstract specification |
| `GsCommand` | a command from the ground station to its handler and its answer back | takes its queue from `CommandFifo`, implements `CommandFates` |
| `MCGsCommand` | | TLC instance |
| `GsCommandProofs` | | theorems about `GsCommand` |
| `AgentPlans` | plans, approvals and the operator's switch | model of `service/agent.py` |
| `MCAgentPlans` | step lists and switch positions | TLC instance |
| `AgentPlansProofs` | | theorems about `AgentPlans` |
| `FlashCustody` | both flash pipelines, their artifacts and the aircraft | model of `flashtool/`; its own TLC instance |
| `FlashCustodyProofs` | | theorems about `FlashCustody` |
| `Campaign` | service, runner, link, stream and drone of a campaign | model of `service/campaign_*.py` |
| `MCCampaign` | the campaigns flown | TLC instance |
| `CampaignProofs` | | theorems about `Campaign` |

### FlightCore

`pc` walks through the tick; each value of `pc` is a place where another task of the same
priority may run. A check and the write that follows it are two actions (`Ch5`/`Ch5Write`,
`GroundIdle`/`FlyWrite`, ...), because the code takes no lock between them; `FlightFSM_Event` is
one action, because it does. `spc` does the same for the handlers of `Send_Task`, which continue
only while the tick waits (`pc = "wait"`), and `preempts` counts the ticks that began inside a
handler. `DropAuthority`, `PathArbitrate` and `ScriptStop` are the writes of `Remoter_Task` and
`Autofly_Task`, free to happen between any two steps.

A gesture's hold counter, a switch position, the battery and the altitude are choices of the
tick that uses them. The kill counter, the landing's timer and spool-down count are state, since
properties speak of them. The glue is reduced to whether it has a claim (`gs`) and what it last
saw (`seen`); `WfbFlight` has the rest of it.

### LandDescent

The landing of `FlightCore` has a touchdown that may come at any tick. `LandDescent` opens that
choice: heights in quarters of a millimetre, the ramp of `Des_Height`, the sink bias of
`Des_VHeight`, the detector's three gates and the spool-down, against an aircraft that follows
its command, may float for a while on the ground-effect cushion, and does not sink through the
ground. Every rate and threshold is the firmware's, at 5 ms.

Landings start from 0.25 m, 0.75 m, 1.4 m (the highest hover, `API/wfb_glue.c:35`) and 2.5 m (the
landing the comment on `LAND_MAX_TICKS` speaks of). Which of them come down in time is
arithmetic: `Reach` adds up the ticks of the profile band by band. The firmware's 500 ticks are
enough for every height below 1.31 m without floating, and below 0.92 m with the 0.6 s of the
run. From higher up the time limit fades the motors in the air: that is `OutOfTime`, one of the
two cases `FadesOnTheGround` names. The other is an aircraft the cushion carried for as long as
the push takes to its limit (`Carried`).

### WfbFlight

The glue's memory is one record, and every C function of the tick is an operator from record to
record: `Sampled`, `PilotTakeOver`, `SafetyStep`, `ApplyAction`, `PathStep`, `PrimStep`,
composed by `Ticked` in the order of `wfb_glue_tick`; `Request` is what it asks for, `Tick` also
what `Wfb_Step` does with it. The commands are actions of their own (`Takeoff` to `StopCmd`),
each one critical section in the code. Between ticks the vehicle may make any move of
`FlightLifecycle`, which `FlightCore` implements; that is how the two modules compose: what
`FlightCore` proves of the vehicle is what `WfbFlight` assumes of it.

`Inputs` offers only the readings a tick will look at, which keeps the choices few and leaves
none out. A tilt and a low voltage appear when they have been held for their time; a return is
the number of ticks its rate-limited setpoint still needs.

### CommandQueue and GsCommand

`CommandQueue` has one action per access that matters: the interrupt writes a frame and advances
the head at once, since nothing preempts it in favour of the task; the task reads command and
transaction in two steps and gives the slot back in a third. Only the USART3 interrupt enqueues
(UART4 is not configured, `BSP/BSP.c:47-51`, and the UART5 parser is compiled out), so there is
one producer.

`GsCommand` follows one command from `_send_cmd` through the counter of `send_transaction`, a
link that loses and repeats, the queue, and `Process_GroundStation_Command`: looked up in the
history first, then refused by `CommandSafetyReject` or acknowledged and remembered, dispatched,
and answered; a handler that refuses takes the id out of the history again. The queue is
`CommandFifo` with one frame per step, which is what `CommandQueue` implements. A command is the
number of its sending, which the program does not know: that is how the properties can tell two
commands with one id apart.

`CommandFates` says what all this machinery promises of the commands: each is open from its
sending on, takes effect while it is open, before those sent after it unless its frame was
repeated, and once it is closed it stays closed. In `GsCommand` a command is `Open` while
something of it is left on the link or in the queue and its transaction was not executed; that
a repeated frame is then never executed is not an assumption but what the history must achieve.

### AgentPlans

The service lock makes each locked region of `agent.py` one action. `_run_plan` works outside
it: `pc[p]` and `at[p]` say where the thread of plan `p` is, and every request may come between
any two of its steps. `set_control` changes the switch under the lock and does the rest after
dropping it: `ctl` holds what it still has to do. Approval items are made when the plan is
posted (`CreatePlan`), under the switch as it is then, and looked at when the step runs (`Ask`),
under the switch as it is then: most of what can go wrong lies between the two.

### FlashCustody

The triple of files (axf, hex, build id) is one artifact, known by the number of the link that
made it and by whether it was stamped. `run` holds the locals of the pipeline that is under way,
and what it found at its start: the artifacts of `OBJ/`, or the copies where `OBJ/` had none. A
linker run that reports success may have written nothing and leave the old triple (`Link`): only
`rebuild_and_flash` deletes it first. A gate that reads the aircraft through the wrong addresses
reads another word; that it may read zero, and what happens then, is in `SafeGate`. A download
ends in one of three ways: done, failed with the part untouched, or failed with the part erased
or written but not running. `Kill` comes between any two steps, `Pilot` at any time.

The reader of all this is the campaign's preflight (`PreflightPasses`), with its rows as they
are: the stamp, if there is one, names the axf; no cache is left; the axf was not linked after
8081 started; a streamed `build_id` is the axf's. So 8081 is part of the state: `served` is the
last link when it started, `watched` whether it streams the id, and `Serve` restarts it. `owed`
is a ghost: a download changed the aircraft and its run did not come to its stamp.

### Campaign

One action per turn of a wait, in the order in which the code reads the control, the condition
and the stream. A command is one action with four outcomes: refused, carried out and answered,
carried out with the answer lost, or held back by the link (`late`), to be carried out after
later commands or never. The stream (`seen`) is a snapshot that is renewed at any time or never.
The drone is as much of `WfbFlight` as a campaign can tell apart; a campaign finds it on the
ground, or left hovering by one that failed, with the status of that one's path and preset. A
flight with one path uploads it before its TAKEOFF (`Ready`), one with several uploads each in
the hover (`Upload`); a flight whose log plan does not stream `motor_idle` takes off without
looking at it (`gated`). `Raise` ends a flight at any of its steps, as an exception does.

`last`, `since`, `consent`, `ran`, `fresh` are ghosts: the flight command tried last, take-offs
since a request, the pack the operator's Go stands for, whether the preset of this step ran, and
whether the stream was seen since a path was last uploaded.

## 3. What the runs show

In each run that passes TLC explored every state of the instance, and every action and every
disjunct of its next-state relation is taken.

| run | question | what holds |
| --- | --- | --- |
| `FlightCore` | all tasks and all eleven commands against the tick, each handler preemptible | `DisarmedOnGround`: a disarm always ends on the ground, whoever had checked what before; `KillSilencesMotors`; `ArmsCold`; `RefinesLifecycle`; `LandingEnds`, except on the motor bench; `StopSilencesMotors`: a stop meets a tick that silences the motors, or drives one on the bench, unless the vehicle was recovered and armed again before the tick came to its kill switch (`ArmedAgain`) |
| `LandDescent` | is a landing bounded, and do motors fade on the ground only | `LandingIsBounded`, `FadesOnTheGround`: from 0.25 m to 2.5 m, with shifts of the ground reading and floating up to 0.6 s; in the air only when the time limit is too short for the way down, or the cushion carried the aircraft for two seconds |
| `WfbFlight` | the glue against ticks, commands and the vehicle in any order | `OnePathInStep`, `ClaimIsSound`, `TrippedGoesDown`, `RefinesClaim`; `GsFlightLands`: a ground-station flight ends although nobody lands it, or somebody keeps sending |
| `CommandQueue` | the ring without a lock, the interrupt anywhere | `RefinesFifo`: whole frames, once, in order, losses only when full and counted |
| `GsCommand` | lost, repeated, refused, late and forgotten commands, a restarted ground station | `AtMostOnce`, `AnswersAreTrue`; `RefinesFates`: no repetition, refusal or restart reopens a closed command, and unrepeated commands are obeyed in order |
| `AgentPlans` | two plans, every request between any two steps | `WaitersAreReachable`, `OffMeansOff`, `AskedBeforeSent`, `DoneMeansRan`, `QueueIsServed`; `CancelEnds`: a cancelled plan ends whatever its thread waits for |
| `FlashCustody` | both pipelines, killed anywhere, downloads that fail in three ways | `PreflightIsTrue`: a green preflight that rests on a stamp; `FoundIsKept`: no run loses what it found before it downloads; `ImageIsKept`: the artifacts of the aircraft's image leave the disk in three named ways only; `RebuildRestores` |
| `Campaign` | campaigns of one and two flights over a bad link with an operator who interferes | `LandFollowsTakeoff`, for every end of a flight but an exception; `FliesByConsent`, `OneFlightAfterAStop`, `NudgeIsOfThisStep`; `StepsAreFlown`: a path or preset counted as done was flown for this step; `FlightEnds` |
| `GsIdReuse`, `AgentSupervised`, `FlashPreflight`, `CampaignTune` | a sentence of a comment or a document each | refuted, see below |

`TypeOK` is checked in each but `CommandQueue`, whose refinement needs it anyway and whose proof
has it.

Some properties are stated as weakly as the code makes them, and their wording says where the
limit lies.

* `StopSilencesMotors` allows the motor bench: see below.
* `PreflightIsTrue` speaks of a preflight that passes on a stamp. Without one the row passes as
  well (`campaign_preflight.py:155-156`), and then an image that was linked and never flashed can
  stand in `OBJ/` with every row green, once 8081 was started after the link.
* `ImageIsKept` names the ways in which the only copies of the aircraft's artifacts go.
  `LeavesByStart`: a refused gate or a kill left an unflashed link in `OBJ/`, and the next run
  takes its snapshot over the last copy of the aircraft's; two refused runs of `all` are enough.
  `LeavesByUndo` is two ways: a download that reached the aircraft and was reported failed, so
  that the older artifacts come back; and a `flash` that is not confirmed and puts back a cache an
  earlier run left.
* `LandFollowsTakeoff` leaves out the flight an exception ended: `campaign_runner.py:736-739` ends
  the capture and passes the exception on, no LAND is sent, the campaign has `failed`, and the
  drone comes down by its heartbeat timeout.
* `StepsAreFlown` needs, for a path, a stream seen since the upload (`fresh`). For the path
  uploaded before a TAKEOFF that waited for the idle motors that is certain. One uploaded in the
  hover passes on the DONE of the path before it while the stream stands still.
* `QueueIsServed` excuses a plan that failed: the code starts the next plan after every ending
  but that one.
* `AskedBeforeSent` excuses a plan cancelled under the step's feet, since the cancel event is not
  looked at between the approval and the send.
* `OneFlightAfterAStop` allows the one flight whose last look at the requests came before the
  request.

### Where the code and its words disagree

Each of these has a run that shows it, and an entry in `PROJECT.json`.

* **An id used twice** (`GsIdReuse`). The counter of transactions starts at 0 with every process
  of the ground station; the drone keeps the last 16 ids. After a restart a new command may be
  taken for a repetition: it is answered APPLIED and never executed. `AppliedIsTrue` shows that
  a shared id is the only way to this.
* **Supervised mode** (`AgentSupervised`). A critical step waits if its plan was posted while
  that was the rule. A plan posted in autonomous mode has no approval items, and its steps go
  out unasked after the operator has gone back to supervised.
* **A flash that failed after writing** (`FlashPreflight`). The image is in the aircraft and
  only the reset failed: the old artifacts come back with their stamp, and the preflight takes
  them for the aircraft's. `PreflightIsTrue` shows that a download without its stamp is the only
  way to this.
* **A firmware landing in a step that is over** (`CampaignTune`). A wait that ends by its own
  condition does not look at the status: a tuning, or a hold whose time is up in that turn, ends
  the flight without an abort although the firmware landed it, and the next flight may follow
  without a Go.

Disagreements met while modelling that have no run of their own:

* The comment at `TASK/StabilizerTask.c:91-93` explains a time limit of 15 s that a landing from
  2.5 m fits into; `LAND_MAX_TICKS` is 500 ticks, 2.5 s. From more than 1.31 m, and the hover
  goes to 1.4 m, the motors fade in the air. `LandDescent` flies from both heights, and
  `FadesOnTheGround` holds because it names this case (`OutOfTime`).
* `TASK/StabilizerTask.c:1364-1368` and `TASK/send_data.c:2019-2020` say that the bench motor
  stops when anything leaves DISARMED. `CMD abort` (`TASK/send_data.c:1350-1360`), or any other
  stop of a bench run, leaves `motor_test_active` as it is; unless a kill is held the next tick
  recovers to DISARMED before `Motor_TestOverride` (`TASK/StabilizerTask.c:1370-1389`) looks, and
  the motor keeps running for as long as the dashboard sends heartbeats. `StopSilencesMotors`
  therefore counts `BENCH` as an answer to a stop.
* `flashtool/safe_flash.py:9-31` describes a gate that reads the aircraft's identity before
  anything is written. In `all` it reads through the image just built, which the aircraft does
  not run yet: it is passed by a word that happens to be zero, or not at all.
* `flashtool/artifact_custody.py:20-22` promises the artifacts back after every run that does not
  flash. A refused gate leaves by `sys.exit(2)` with the new link in `OBJ/`, and `copy2` keeps
  the time of a file, so an axf that was put back is not noticed by the preflight's row
  "changed after 8081 started" (`PreflightPasses` has it so).
* `service/campaign_runner.py:458-466`: the result of START is not looked at, and with several
  paths in a flight the stream may still show the DONE of the last one; a START that was refused
  or lost then passes for a path flown. `StepsAreFlown` names this case.
* `TASK/send_data.c:1965-1974` grants the airborne take-over of the sticks in two steps; a tick
  fits between the throttle floor and its override (`FlightCore` has both steps).
* `API/wfb_glue.c:323,376`: a level that had been applied before the pilot's take-over stays
  applied, and a low battery after it raises nothing. `TrippedGoesDown` speaks of flights the
  glue still holds.
* `API/wfb_glue.c:190`: `SET_HOVER_Z` is accepted after `COMMIT`, and the path then starts and
  ends at the earlier height (the model has no heights).
* `service/campaign_runner.py:587`: a LAND refused during lift-off, and a stream that still
  shows IDLE, count as a landed flight with the drone in the air. `LandFollowsTakeoff` only says
  that LAND goes out; the drone then comes down by its heartbeat timeout (`GsFlightLands`).
* `_send_cmd` reports a command as done when it was acknowledged and the answer did not come in
  time; it may have been refused. The code means it so. `COMMAND_SPEC.md` lists a reason
  `QUEUE_FULL`, which the firmware never sends: a full queue drops silently and counts.

Smaller ones that are reachable and harmless in the models: a ground-station idle command whose
check was made before a disarm opens the idle gate after it (`ArmsCold` shows what saves it: the
next arm shuts the gate); the stick authority is returned on a sampled edge
(`TASK/StabilizerTask.c:2515`), and a disarm and re-arm between two samples keeps it; the path
arbiter may clear a fly-up target on the ground (`TASK/AutoflyTask.c:97`); a plain handler that
ignores an unfit value is answered APPLIED like one that used it (`TASK/send_data.c:2188`); a
command is on the link before its action is in the journal (`service/core.py:965`).

Each is a statement about the modelled code; whether the code or the sentence should change is
for the maintainers.

## 4. Bounds, and why they are enough

* `FlightCore`: `StopTicks = 1` (10 in the code): the counter has a below, an at and a beyond;
  more ticks below repeat the same state. `LandMaxTicks = 2`, `LandSpoolTicks = 2`: a landing
  that is over by touchdown, by time-out, and a spool-down with a middle. `MaxPreempt = 1`: one
  tick inside a handler already takes the vehicle through any single change. All eleven commands
  at once: 1.9 million states. The theorems hold for every value.
* `LandDescent` uses the firmware's constants; only the four starting heights, two within the
  time limit and two beyond it, and the ground readings (taken from the comments' flight logs)
  are few. `Carried` needs 400 ticks of floating and so does not occur with the run's 120; the
  theorem has it.
* `WfbFlight`: heartbeat 1, cap 2, fence hold 2, return 1, dwell 1, path 1, return distance 2
  ticks: each time limit can expire before and after each other one, and a return may arrive
  before or at its time-out. 202,176 states. The theorems hold for every value; the liveness
  property is checked on this instance.
* `CommandQueue`: four slots; the ring is empty, full and wrapped with the reader at each place.
  `CommandQueueProofs` has the result for every size.
* `GsCommand`: three sendings, two repetitions, one legacy frame, one restart, a history of two
  and at most three frames in flight: the history is just long enough for the link
  (`LinkAssumption`), as in the firmware with a large margin, so other transactions run through
  all of it between a frame and its repetition. The counter starts one below its largest value. A
  restart waits until link and queue are empty: starting a process takes seconds, they hold
  milliseconds. `GsCommandProofs` has the safety properties for every value of all of these.
* `AgentPlans`: two plans (one runs, one is queued), of a critical step, and of a parameter
  write that may be gone on without followed by a safe step; the switch in a position of each
  mode.
* `FlashCustody`: the aircraft's image and two links, so that what is in `OBJ/`, in one of the two
  copies and in the aircraft can all differ, and the last copy of an image can be overwritten
  while an older and a newer one are about. Any number of runs follow one another.
* `Campaign`: two flights of one pack, two of different packs, one flight with a path and two
  presets, and one with two paths and no idle gate; between them they have every kind of step,
  and each path and preset may find the status of an earlier one. One turn of budget, one nudge,
  one command held back at a time. The theorems of these three hold for every value.

## 5. Fairness

* `FlightCore`: `[]<><<pc' # pc>>_pc`, the tick never ceases to move on: a 5 ms timer of the
  highest priority wakes it. Handlers need no fairness of their own: the ticks that may begin
  inside one are bounded by `MaxPreempt`, as the priority-4 tasks sleep between periods and no
  handler blocks. No command, gesture or event is fair: nobody has to land, and the sensors need
  not ever see the ground.
* `WfbFlightFair`: infinitely many ticks. `beat` flips with each, so that the fairness condition
  need not name a tick's inputs. Commands and vehicle moves may interleave for ever; a heartbeat
  may be sent for ever.
* `AgentPlans`: weak fairness of each plan's thread, whose every wait is a poll with a deadline
  or on the cancel event. A thread that waits for the operator is not enabled, and nobody has to
  decide, to cancel or to turn the switch.
* `Campaign`: weak fairness of the runner's thread. The stream may stay as it is for ever, the
  link may lose everything, and nobody has to press anything: the budget of turns is what ends a
  wait.

## 6. Proofs

TLAPS proves for every value of the constants, from the named assumptions only:

* `FlightCoreProofs` (from `TicksAssumption`, `CommandsAssumption`, `OverrunAssumption`).
  `DisarmedOnGround` is not inductive: it says nothing about a tick that has checked the phase
  and not yet written it. `TickInv` adds, per place of the tick, what the check that led there
  still guarantees: an overtaken write can have been overtaken by a stop only (`Still`), since
  the disarm gesture is earlier in the same tick, and a stopped vehicle's write of FLYING is
  wiped when the stop is left. `KillInv` says that the tick runs in EMERGENCY from the moment
  the count is exceeded; `LandInv` ties the detector's counters together and yields their
  bounds. `IndStep` has a case per action; `Inductive`, `TypeCorrect` and one theorem per
  property follow. `ArmingIsCold` needs besides that only events write the arm state
  (`OnlyEventsWriteState`). `ImplementsLifecycle` maps each step to a stage change or a stutter.
  `StopReachesMotors` is the liveness property `StopSilencesMotors`, proved from the fairness
  itself: a stop meets a tick somewhere in its course, and a chain of eighteen leads-to steps, one
  per place of the tick, takes it round to the motors, on the bench to the bench motor, or to an
  arm that came before the kill switch was read. The fairness
  is stated by `<>` and `[]` alone, so the prover needs no `ENABLED`. `LandingGetsNearer` is the
  same for a landing, as one link for every n: a landing with n ticks left has ended or has
  fewer left later on.
* `LandDescentProofs` (from `LandAssumption`). `TimeInv`: elapsed ticks are timer plus
  spool-down; `LandingIsBounded` follows for every pair of limits, whatever the aircraft does.
  `TypeCorrect` needs that no counter of the detector is ever ahead of the landing's timer.
  `FadesGrounded` states `FadesOnTheGround` for every height, time limit and time afloat, with no
  assumption that the limit suffices: `AirInv` weighs what is left of the way down against the
  ticks that passed, and the ticks floated against the push they leave behind, so that a fade in
  the air is one of the two named cases.
* `CommandQueueProofs` (from `RingAssumption`). `CopyInv` is inductive with the types: the
  interrupt writes the slot at the head, and the task reads while head and tail differ. For the
  refinement, `WaitingIsSeq` ties the length of the abstract queue to the indices,
  `EnqueueAppends` and `AdvanceTakes` show the two steps that change it, and `ImplementsFifo`
  follows.

* `WfbFlightProofs` (from `WfbAssumption`). `Sound` describes the glue's record between any two
  functions of the tick: its types and limits, one path in step with the sequencer, a claim that
  agrees with its return clock, and levels of the safety net that were applied. There is one
  lemma per operator of the tick, which takes a sound record to a sound record and says how far
  the abstract claim may move; the tick is their composition. `Rested` says that a tick leaves
  no level unapplied, which is what the commands, each between two ticks, rely on.
  `ClaimRefined` maps a tick to one move of `GsClaim`. `FlightGetsNearer` is the link of
  `GsFlightLands` for every n.
* `GsCommandProofs` (from `LinkAssumption`). Queue and link are one `pipe`. `Copies` bounds what
  may be left of a command and where, `Near` keeps two copies within the length of the history,
  `Remembered` says that the id of an executed command stays in the ring for as long as a copy
  may still come, which is where `LinkCap <= HistoryLen + 1` is needed; `Sorted` keeps
  unrepeated commands in order; `Told` says that every answer on its way, filed or taken is true
  of a command with its id. `FatesRefined` draws them together: each step of link, queue and
  handler opens, repeats, obeys or closes at most one command, or is a stutter of `CommandFates`.
  `TakenInOrder` states the order by itself.
* `AgentPlansProofs` (from the three assumptions of `AgentPlans`). `Placed` says that a plan is
  in its thread, in the queue or nowhere, and that what waits is open; `Approved` follows an
  item from its making to its use; `Steady` says of a plan nobody cancelled that what lies
  behind its index is finished and what lies ahead untouched, from which `DoneMeansRan` follows.
  `PlanCountsDown`: every step of a plan's thread lowers a natural number, and no
  request to the service raises it.
* `FlashCustodyProofs` (from `MaxImageAssumption`). `Numbered` keeps images apart (the next link
  is new), `InTool` and `Wrote` say which pipeline is at a step and whether it downloaded, `Saved`
  where the found artifacts are, `Own` that an image linked by this run is not yet the aircraft's;
  `Flashed` and `Stamped` tie a finished download and the stamp to the aircraft.
  `AircraftImageStays` goes through every step that moves artifacts and shows that the named
  exceptions of `ImageIsKept` are all there are.
* `CampaignProofs` (from `CampaignAssumption`). `Turned` sums up what a turn of any of the
  twelve waits may do, so that each invariant needs one case for all of them. `Remembered`
  carries the TAKEOFF tried last through every end of a flight, an exception being the only way
  past it; `Consented` does so with the Go, `Stopped` counts take-offs against the places where
  requests are looked at, `Pressed` ties a nudge to its step. `Flown` says what the status may
  still mean for the step at hand: which step the runner is at (`Placed`), that a stream seen
  since the upload is of that path (`Current`), that a flight which waited for idle motors has
  seen it since (`Gated`), and that a refused preset stays refused (`Refused`). `CountedIsFlown`
  draws `StepsAreFlown` from it. `FlightCountsDown` gives the runner such a number too: every
  turn of a wait and every step of the flight lowers it, and nothing the operator, the link, the
  drone or the stream does raises it; the nudges a flight may still take are part of the number.

Only model-checked: `LandingEnds`, `GsFlightLands`, `CancelEnds` and `FlightEnds`. Of each, what
remains is the induction over the natural number that the theorems above show to fall, a rule
that needs an operator as its parameter and so is beyond these provers, and in the last two
also the `ENABLED` inside `WF`. Every other property of a passing run is a theorem.

The modules that are proved about choose with IF and disjunctions, not with CASE, which
tlapm 1.4.5 does not pass on correctly to its SMT backend.

## 7. Not modelled

`PROJECT.json` lists every component with the reason. The control laws (PID, MRAC, mixer), the
estimators and filters are floating point; drivers are register I/O; FreeRTOS and the vendor
libraries are third-party code whose scheduling rules are assumed; simulation, analysis and
documentation tools keep no state that outlives a call.

Within the modelled parts: start-up, the watchdog, the motor-debug override, the preset
trajectory's own state and the geometry of paths are left out. In `WfbFlight` a tick is atomic
towards the vehicle; the interleavings inside it are `FlightCore`'s. In `Campaign` the tune mode
(gains, code changes, reverts), the contents of an excitation and the limits of the abort
monitor are choices. In `AgentPlans` the event bus, the messages, the copilot and the eviction
of old plans are left out, in `FlashCustody` the edits of the project file around the compiler,
the archive and the protected-set gates.

Most of the repository's Python is analysis: notebooks, reports, video and log processing. They
read files and write files, have no state that outlives a call, and compute with floating point;
there is no protocol in them to check, and the models' share of the repository's lines is small
for that reason.

## 8. Plan

What is left, in the order of what it would add:

1. `Upload`: the upload of `wfb_traj.c` and `wfb_prog.c` over the link of `GsCommand`; `READY`
   means exactly what was sent, also with the ground station's cache of what it uploaded.
   `Campaign` and `WfbFlight` take it as one step.
2. `RcInput`: takeover debounce, heartbeat watchdog and authority of `API/rc_input.c`, composed
   with the `stick` of `FlightCore` by refinement.
3. The drone of `Campaign` as a refinement of `WfbFlight`, so that a refused LAND and the
   heartbeat timeout meet in one model.
4. The tune mode of the campaign runner: which gains are in the drone after an abort, a restart
   and a revert.
5. `Usart3Tx`: the telemetry DMA ring against an abstract FIFO of frames; `Subscribe`, the gain
   lease of `API/pid.c` and the calibration machines.

Proofs follow each module as they do here: the invariant first as a TLC run, then the theorem.
Worth proving next are refinements: what the operator is promised by `AgentPlans` and by
`Campaign` as abstract specifications of their own, as `CommandFates` is for `GsCommand`; and
the queue inside `GsCommand` as an instance of `CommandFifo` rather than a sequence of its
shape.
