----------------------------- MODULE FlashCustody -----------------------------
(***************************************************************************)
(* The two build-and-flash pipelines of ground_station/flashtool, the      *)
(* artifacts they keep in OBJ/ and the aircraft they flash.  Whoever reads *)
(* the aircraft's memory over the probe does it through the addresses of   *)
(* OBJ/JX_FLY.axf, so that file has to describe the image the aircraft     *)
(* runs.  safe_flash stamps each image with an identity and keeps the      *)
(* artifacts it found in .flashtool-cache; rebuild_and_flash stamps        *)
(* nothing and keeps them in .prev-flashed.  One pipeline runs at a time;  *)
(* it may be killed at any step, and meanwhile the pilot may arm, disarm   *)
(* or switch the aircraft and somebody may restart 8081, the service whose *)
(* preflight judges OBJ/JX_FLY.axf before a campaign.                      *)
(***************************************************************************)
EXTENDS Naturals

CONSTANT MaxImage    \* how many images are built

ASSUME MaxImageAssumption == MaxImage \in Nat \ {0}

Image == [n : 1..MaxImage, stamped : BOOLEAN]
Missing == [n |-> 0, stamped |-> FALSE]     \* no artifacts, an erased part
NoDir == [n |-> 0, stamped |-> TRUE]        \* no cache directory

VARIABLES
  obj, cache, prev,   \* the artifacts in OBJ/, in .flashtool-cache and in .prev-flashed
  stamp,              \* OBJ/.last_flashed_axf.json: the image it names, or Missing
  built,              \* how many images were built so far
  target, up, armed,  \* the image in the aircraft, whether it runs, whether it is armed
  owed,               \* a download changed the aircraft and no stamp was written since
  served, watched,    \* images built when 8081 started, whether it streams build_id
  pc, run             \* the pipeline and its locals

disk     == <<obj, cache, prev>>
aircraft == <<target, up, armed>>
service  == <<served, watched>>
vars     == <<disk, stamp, built, aircraft, owed, service, pc, run>>

\* The locals of a pipeline.  "before" is what it found in OBJ/, and "spare" the
\* copies it found where OBJ/ had nothing.
Locals == [tool : {"safe", "rebuild"}, cmd : {"build", "flash", "all"}, force : BOOLEAN,
           before : Image \union {Missing}, spare : SUBSET Image, wrote : BOOLEAN]

AtRest == pc \in {"idle", "killed"}

Init ==
  /\ \E s \in BOOLEAN : target = [n |-> 1, stamped |-> s]
  /\ obj \in {target, Missing}
  /\ cache = NoDir /\ prev = Missing /\ stamp \in {obj, Missing}
  /\ built = 1
  /\ up \in BOOLEAN /\ armed = FALSE
  /\ owed = FALSE
  /\ served = built /\ watched \in {FALSE, obj.stamped}
  /\ pc = "idle"
  /\ run = [tool |-> "safe", cmd |-> "build", force |-> FALSE,
            before |-> obj, spare |-> {}, wrote |-> FALSE]

Begin(tool, cmd, force, l) ==
  /\ AtRest
  /\ run' = [tool |-> tool, cmd |-> cmd, force |-> force, before |-> obj,
             spare |-> IF obj = Missing THEN {cache, prev} \intersect Image ELSE {},
             wrote |-> FALSE]
  /\ pc' = l

(***************************************************************************)
(* The steps both pipelines have.                                          *)
(***************************************************************************)

\* A linker run that succeeds leaves a new image in OBJ/, or the one that is there:
\* UV4 may report success and write nothing.
Link(stamped, l) ==
  /\ \/ /\ built < MaxImage
        /\ built' = built + 1
        /\ obj' = [n |-> built', stamped |-> stamped]
     \/ obj # Missing /\ UNCHANGED <<obj, built>>
  /\ pc' = l
  /\ UNCHANGED <<cache, prev, stamp, aircraft, owed, run, service>>

\* UV4 -f, then a reset.  The part may be untouched, erased, or written but not
\* running; the tools report all three as a failed flash.
Download(done, broken) ==
  /\ \/ /\ target' = obj /\ up' = TRUE /\ armed' = FALSE
        /\ pc' = done
     \/ /\ \/ UNCHANGED aircraft
           \/ target' \in {Missing, obj} /\ up' = FALSE /\ armed' = FALSE
        /\ pc' = broken
  /\ run' = [run EXCEPT !.wrote = TRUE]
  /\ owed' = (owed \/ target' # target)
  /\ UNCHANGED <<disk, stamp, built, service>>

\* record_flashed_axf
Stamp ==
  /\ pc = "stamp"
  /\ stamp' = obj
  /\ owed' = FALSE
  /\ pc' = "idle"
  /\ UNCHANGED <<disk, built, aircraft, run, service>>

(***************************************************************************)
(* safe_flash: build, flash, all.                                          *)
(***************************************************************************)

\* Seeded fault: a snapshot that is there already is kept.
SnapshotOnce(cmd) ==
  /\ IF cmd = "flash" THEN Begin("safe", cmd, FALSE, "gate") /\ UNCHANGED cache
     ELSE /\ Begin("safe", cmd, FALSE, "build")
          /\ cache' = IF cache # NoDir THEN cache ELSE obj
  /\ UNCHANGED <<obj, prev, stamp, built, aircraft, owed, service>>

\* snapshot(): what is missing in OBJ/ is left in the cache as it was.
SafeStart(cmd) ==
  /\ IF cmd = "flash" THEN Begin("safe", cmd, FALSE, "gate") /\ UNCHANGED cache
     ELSE /\ Begin("safe", cmd, FALSE, "build")
          /\ cache' = IF obj = Missing /\ cache # NoDir THEN cache ELSE obj
  /\ UNCHANGED <<obj, prev, stamp, built, aircraft, owed, service>>

SafeBuild ==
  /\ pc = "build"
  /\ Link(TRUE, IF run.cmd = "build" THEN "restore" ELSE "gate")

\* Given up: a link that raced with the scanner has deleted the image.
SafeBuildFails ==
  /\ pc = "build"
  /\ obj' \in {obj, Missing}
  /\ pc' = "restore"
  /\ UNCHANGED <<cache, prev, stamp, built, aircraft, owed, run, service>>

\* Seeded fault: restores without asking whether there is a cache.
RestoreUnasked ==
  /\ pc = "restore"
  /\ obj' = cache
  /\ cache' = NoDir
  /\ pc' = "idle"
  /\ UNCHANGED <<prev, stamp, built, aircraft, owed, run, service>>

\* artifact_custody.restore
SafeRestore ==
  /\ pc = "restore"
  /\ obj' = IF cache \in Image THEN cache ELSE obj
  /\ cache' = NoDir
  /\ pc' = "idle"
  /\ UNCHANGED <<prev, stamp, built, aircraft, owed, run, service>>

\* SafetyGate.check: the identity and the arm state are read through the
\* addresses of OBJ/JX_FLY.axf.  Through an image the aircraft does not run they
\* hit other words: a zero where the identity should be reads as "firmware
\* older than the stamp" and skips the identity, and the arm state is then
\* whatever the other address holds.
SafeGate ==
  /\ pc = "gate"
  /\ up /\ obj \in Image /\ obj.stamped
  /\ obj = target => ~armed
  /\ pc' = "confirm"
  /\ UNCHANGED <<disk, stamp, built, aircraft, owed, run, service>>

\* _gate_or_exit: sys.exit(2), with no restore.  A read that fails ends here too.
SafeGateRefuses ==
  /\ pc = "gate"
  /\ pc' = "idle"
  /\ UNCHANGED <<disk, stamp, built, aircraft, owed, run, service>>

SafeConfirm ==
  /\ pc = "confirm"
  /\ pc' \in {"flash", "restore"}
  /\ UNCHANGED <<disk, stamp, built, aircraft, owed, run, service>>

SafeFlash == pc = "flash" /\ Download("commit", "restore")

\* artifact_custody.commit
SafeCommit ==
  /\ pc = "commit"
  /\ cache' = NoDir
  /\ pc' = "stamp"
  /\ UNCHANGED <<obj, prev, stamp, built, aircraft, owed, run, service>>

Safe ==
  \/ \E cmd \in {"build", "flash", "all"} : SafeStart(cmd)
  \/ SafeBuild \/ SafeBuildFails \/ SafeRestore \/ SafeGate \/ SafeGateRefuses
  \/ SafeConfirm \/ SafeFlash \/ SafeCommit

(***************************************************************************)
(* rebuild_and_flash, without --yes (build) and with it (all).             *)
(***************************************************************************)

\* Seeded fault: the snapshot is not taken.
StartUnsaved(cmd, force) ==
  /\ Begin("rebuild", cmd, force, "unlink")
  /\ UNCHANGED <<disk, stamp, built, aircraft, owed, service>>

\* snapshot_artifacts: an earlier snapshot survives where OBJ/ has nothing.
RebuildStart(cmd, force) ==
  /\ Begin("rebuild", cmd, force, "unlink")
  /\ prev' = IF obj # Missing THEN obj ELSE prev
  /\ UNCHANGED <<obj, cache, stamp, built, aircraft, owed, service>>

HadSnapshot == run.before # Missing

\* The triple is deleted first, to force a real link, unless somebody holds it open.
RebuildUnlink ==
  /\ pc = "unlink"
  /\ obj' \in {obj, Missing}
  /\ pc' = "link"
  /\ UNCHANGED <<cache, prev, stamp, built, aircraft, owed, run, service>>

RebuildLink ==
  /\ pc = "link"
  /\ Link(FALSE, IF run.cmd = "build" THEN "refuse" ELSE "alive")

RebuildLinkFails ==
  /\ pc = "link"
  /\ pc' = "refuse"
  /\ UNCHANGED <<disk, stamp, built, aircraft, owed, run, service>>

\* _refuse, and the ends before it.
RebuildRefuse ==
  /\ pc = "refuse"
  /\ obj' = IF HadSnapshot /\ prev # Missing THEN prev ELSE obj
  /\ pc' = "idle"
  /\ UNCHANGED <<cache, prev, stamp, built, aircraft, owed, run, service>>

\* Seeded fault: the refusal goes out without the restore.
TelemetryLeaves ==
  /\ pc = "alive"
  /\ \/ (run.force \/ (up /\ ~armed)) /\ pc' = "vote"
     \/ ~run.force /\ pc' = "idle"
  /\ UNCHANGED <<disk, stamp, built, aircraft, owed, run, service>>

\* target_alive and arm_status_from_telemetry: the firmware itself says whether
\* it is armed; nothing but a clear "disarmed" passes, and --force passes unread.
RebuildTelemetry ==
  /\ pc = "alive"
  /\ \/ (run.force \/ (up /\ ~armed)) /\ pc' = "vote"
     \/ ~run.force /\ pc' = "refuse"
  /\ UNCHANGED <<disk, stamp, built, aircraft, owed, run, service>>

\* The probe's vote, through the snapshot, and only if that is the image the
\* aircraft runs; without a clear "armed" it abstains.
RebuildVote ==
  /\ pc = "vote"
  /\ \/ pc' = "program"
     \/ HadSnapshot /\ prev = target /\ up /\ armed /\ pc' = "refuse"
  /\ UNCHANGED <<disk, stamp, built, aircraft, owed, run, service>>

RebuildFlash == pc = "program" /\ Download("answer", "undo")

\* Seeded fault: what was put back is stamped as flashed.
UndoStamped ==
  /\ pc = "undo"
  /\ obj' = IF prev # Missing THEN prev ELSE obj
  /\ pc' = "stamp"
  /\ UNCHANGED <<cache, prev, stamp, built, aircraft, owed, run, service>>

\* A flash that failed puts back the snapshot, whatever is in the part.
RebuildUndo ==
  /\ pc = "undo"
  /\ obj' = IF prev # Missing THEN prev ELSE obj
  /\ pc' = "idle"
  /\ UNCHANGED <<cache, prev, stamp, built, aircraft, owed, run, service>>

\* The aircraft answers and the snapshot goes; or it does not, and the run ends with 8.
RebuildAnswer ==
  /\ pc = "answer"
  /\ \/ up /\ prev' = Missing /\ pc' = "stamp"
     \/ pc' = "idle" /\ UNCHANGED prev
  /\ UNCHANGED <<obj, cache, stamp, built, aircraft, owed, run, service>>

Rebuild ==
  \/ \E cmd \in {"build", "all"}, force \in BOOLEAN : RebuildStart(cmd, force)
  \/ RebuildUnlink \/ RebuildLink \/ RebuildLinkFails \/ RebuildRefuse \/ RebuildTelemetry
  \/ RebuildVote \/ RebuildFlash \/ RebuildUndo \/ RebuildAnswer

(***************************************************************************)
(* What happens around them.                                               *)
(***************************************************************************)

\* The pipeline is killed, or the computer stops.
Kill ==
  /\ ~AtRest
  /\ pc' = "killed"
  /\ UNCHANGED <<disk, stamp, built, aircraft, owed, run, service>>

Pilot ==
  /\ \/ up /\ armed' = ~armed /\ UNCHANGED up
     \/ up' = ~up /\ armed' = FALSE /\ (up' => target # Missing)
  /\ UNCHANGED <<disk, stamp, built, target, owed, pc, run, service>>

\* 8081 is started again: it loads the axf of the moment, and streams build_id
\* if it is asked to and finds the symbol there.
Serve ==
  /\ served' = built
  /\ watched' \in {FALSE, obj.stamped}
  /\ UNCHANGED <<disk, stamp, built, aircraft, owed, pc, run>>

Next == Safe \/ Rebuild \/ Stamp \/ Kill \/ Pilot \/ Serve

Spec == Init /\ [][Next]_vars

-----------------------------------------------------------------------------
\* The artifacts are images or are missing, and the pipeline is at one of its steps.
TypeOK ==
  /\ obj \in Image \union {Missing} /\ prev \in Image \union {Missing}
  /\ target \in Image \union {Missing} /\ stamp \in Image \union {Missing}
  /\ cache \in Image \union {Missing, NoDir}
  /\ built \in 1..MaxImage
  /\ up \in BOOLEAN /\ armed \in BOOLEAN /\ owed \in BOOLEAN
  /\ served \in 1..MaxImage /\ watched \in BOOLEAN
  /\ run \in Locals
  /\ pc \in {"idle", "killed", "build", "gate", "restore", "confirm", "flash", "commit", "stamp",
             "unlink", "link", "refuse", "alive", "vote", "program", "undo", "answer"}

\* The axf rows of a campaign's preflight let it pass: no flash stamp is there or
\* it names the axf, no cache directory is left, the axf was not linked after 8081
\* started (a copy put back keeps its time), and a streamed build_id is the axf's.
PreflightPasses ==
  /\ obj # Missing
  /\ stamp \in {Missing, obj}
  /\ cache = NoDir
  /\ obj.n <= served
  /\ watched /\ obj.stamped => obj = target

\* A preflight that passes on a stamp speaks of the image of the aircraft, at
\* every step of both pipelines and after a kill at any of them, unless a
\* download changed the aircraft and its run did not come to its stamp.  Where
\* no stamp was ever written the rows promise nothing.
PreflightIsTrue == PreflightPasses /\ stamp # Missing /\ ~owed => obj = target

\* The same without that exception, of an aircraft that runs.
PreflightIsTrueAlways == PreflightPasses /\ stamp # Missing /\ up => obj = target

\* What a building run found stays on the disk until it downloads: the artifacts
\* of OBJ/, or the copies of an earlier run where OBJ/ had none.  Neither a kill
\* at any step nor any of its ends loses them; a later run may.
Found == ({run.before} \ {Missing}) \union run.spare

FoundIsKept == run.cmd # "flash" /\ ~run.wrote => Found \subseteq {obj, cache, prev}

\* The image the aircraft runs, whose artifacts alone can read it, leaves the disk
\* in three ways only: a run begins over an unflashed link that a refused gate or
\* a kill left in OBJ/, and takes its snapshot over the last copy; a download that
\* reached the aircraft is reported failed, and its run puts the old artifacts
\* back; a "flash", which takes no snapshot of its own, is not confirmed or fails
\* and puts back one that an earlier run left.
LeavesByStart == AtRest /\ obj \in Image /\ obj # target
LeavesByUndo  == pc \in {"restore", "undo"} /\ obj = target /\ (run.wrote \/ run.cmd = "flash")

ImageIsKept ==
  [][target' = target /\ target \in {obj, cache, prev} \ {Missing}
       => target \in {obj', cache', prev'} \/ LeavesByStart \/ LeavesByUndo]_vars

\* A rebuild_and_flash that ends by itself and downloaded nothing leaves OBJ/ as
\* it found it, from every one of its exits.
RebuildRestores ==
  [][run.tool = "rebuild" /\ ~AtRest /\ pc' = "idle" /\ ~run.wrote /\ run.before # Missing
       => obj' = run.before]_vars
=============================================================================
