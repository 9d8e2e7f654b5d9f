-------------------------- MODULE FlashCustodyProofs --------------------------
(***************************************************************************)
(* FlashCustody holds what its runs show for every number of images: a     *)
(* pipeline knows at each of its steps which directory has the artifacts   *)
(* it found and whether OBJ/ still has them, the image of the aircraft is  *)
(* the one it found or one it linked itself, and the stamp names the image *)
(* of the aircraft whenever no download is owed one.                       *)
(***************************************************************************)
EXTENDS FlashCustody, TLAPS

USE MaxImageAssumption

(* Images are numbered in the order they were built.                       *)
Numbered == obj.n <= built /\ target.n <= built /\ prev.n <= built /\ cache.n <= built

(* What a pipeline knows of itself at its steps.                           *)
SafeSteps    == {"build", "gate", "restore", "confirm", "flash", "commit"}
RebuildSteps == {"unlink", "link", "refuse", "alive", "vote", "program"}

InTool ==
  /\ pc \in SafeSteps => run.tool = "safe"
  /\ pc \in RebuildSteps \union {"build"} => run.cmd # "flash"

Wrote ==
  /\ pc \in {"commit", "stamp", "undo", "answer"} => run.wrote
  /\ pc \in RebuildSteps \union {"build", "gate", "confirm", "flash"} => ~run.wrote

(* Where the artifacts it found are, until it downloads.                   *)
Loose == run.cmd # "flash" /\ ~run.wrote

Saved ==
  /\ Loose /\ run.before # Missing =>
       /\ pc \in SafeSteps => cache = run.before
       /\ pc \in RebuildSteps => prev = run.before
  /\ Loose /\ ~AtRest => run.spare \subseteq {cache, prev}

(* What OBJ/ has: an image it linked is not yet the aircraft's.            *)
Own ==
  /\ pc \in {"build", "unlink"} => obj = run.before
  /\ pc = "link" => obj \in {run.before, Missing}
  /\ Loose /\ ~AtRest /\ obj = target => obj \in {run.before, Missing}

(* A download that succeeded left in OBJ/ what the aircraft runs, and the  *)
(* stamp tells the truth unless a download has yet to be stamped.          *)
Flashed == pc \in {"commit", "stamp", "answer"} => obj = target
Stamped == ~owed /\ stamp # Missing => stamp = target

IInv ==
  /\ TypeOK /\ Numbered /\ InTool /\ Wrote /\ Saved /\ Own /\ Flashed /\ Stamped
  /\ FoundIsKept

LEMMA MissingIsNoImage == Missing \notin Image /\ NoDir \notin Image /\ Missing # NoDir
  BY DEF Missing, NoDir, Image

LEMMA Marked == ASSUME NEW i \in Image \union {Missing} PROVE i.stamped \in BOOLEAN
<1>1. CASE i \in Image
  BY <1>1, Zenon DEF Image
<1>2. CASE i = Missing
  <2>1. i.stamped = FALSE
    BY <1>2 DEF Missing
  <2> QED
    BY <2>1
<1> QED
  BY <1>1, <1>2

(* The files and the aircraft at the start.                                *)
LEMMA InitInv == Init => IInv
<1> SUFFICES ASSUME Init PROVE IInv
  OBVIOUS
<1>1. PICK s \in BOOLEAN : target = [n |-> 1, stamped |-> s]
  BY DEF Init
<1>2. target \in Image /\ target.n = 1
  BY <1>1 DEF Image
<1>3. run = [tool |-> "safe", cmd |-> "build", force |-> FALSE,
             before |-> obj, spare |-> {}, wrote |-> FALSE]
  BY DEF Init
<1>4. obj \in Image \union {Missing} /\ stamp \in Image \union {Missing}
  BY <1>2 DEF Init
<1>5. run \in Locals
  BY <1>3, <1>4 DEF Locals
<1>6. /\ prev = Missing /\ cache = NoDir /\ built = 1 /\ pc = "idle"
      /\ up \in BOOLEAN /\ armed = FALSE /\ owed = FALSE
      /\ served = 1
  BY DEF Init
<1>7. TypeOK
  <2>1. built \in 1 .. MaxImage
    BY <1>6
  <2>2. armed \in BOOLEAN /\ owed \in BOOLEAN
    BY <1>6
  <2>3. obj.stamped \in BOOLEAN
    BY <1>4, Marked
  <2>4. watched \in BOOLEAN
    BY <2>3, Zenon DEF Init
  <2>5. served \in 1 .. MaxImage
    BY <1>6
  <2> QED
    BY <1>2, <1>4, <1>5, <1>6, <2>1, <2>2, <2>4, <2>5, Zenon DEF TypeOK
<1> QED
  BY <1>2, <1>3, <1>7 DEF Init, IInv, NoDir, Numbered, SafeSteps, RebuildSteps, InTool, Wrote, Saved,
     Own, Flashed, Stamped, FoundIsKept, Found, AtRest, Missing, Image

LEMMA LinkTypes ==
  ASSUME TypeOK, NEW s \in BOOLEAN, NEW l, Link(s, l)
  PROVE  /\ obj' \in Image \union {Missing} /\ built' \in 1 .. MaxImage /\ pc' = l
         /\ UNCHANGED <<cache, prev, stamp, target, up, armed, owed, run, served, watched>>
<1>1. CASE UNCHANGED <<obj, built>>
  BY <1>1 DEF Link, TypeOK, aircraft, service
<1>2. CASE built < MaxImage /\ built' = built + 1 /\ obj' = [n |-> built', stamped |-> s]
  <2>1. built' \in 1 .. MaxImage
    BY <1>2 DEF TypeOK
  <2>2. obj' \in Image
    BY <1>2, <2>1 DEF Image
  <2> QED
    BY <2>1, <2>2 DEF Link, aircraft, service
<1> QED
  BY <1>1, <1>2 DEF Link

(* Types: each step moves artifacts and images from place to place.        *)
LEMMA TypeStep == TypeOK /\ [Next]_vars => TypeOK'
<1> SUFFICES ASSUME TypeOK, [Next]_vars PROVE TypeOK'
  OBVIOUS
<1> USE DEF TypeOK, Locals, aircraft, disk, service
<1>1. ASSUME NEW cmd \in {"build", "flash", "all"}, SafeStart(cmd) PROVE TypeOK'
  <2>1. PICK l \in {"gate", "build"} : Begin("safe", cmd, FALSE, l)
    BY <1>1 DEF SafeStart
  <2>3. run' \in Locals /\ pc' = l
    BY <2>1 DEF Begin
  <2>2. cache' \in Image \union {Missing, NoDir}
    BY <1>1 DEF SafeStart
  <2> QED
    BY <1>1, <2>2, <2>3 DEF SafeStart
<1>2. CASE SafeBuild
  BY <1>2, LinkTypes DEF SafeBuild
<1>3. CASE SafeBuildFails
  BY <1>3 DEF SafeBuildFails
<1>4. CASE SafeRestore
  BY <1>4 DEF SafeRestore
<1>5. CASE SafeGate
  BY <1>5 DEF SafeGate
<1>6. CASE SafeGateRefuses \/ SafeConfirm \/ SafeCommit
  BY <1>6 DEF SafeGateRefuses, SafeConfirm, SafeCommit
<1>7. CASE SafeFlash
  BY <1>7 DEF SafeFlash, Download
<1>8. ASSUME NEW cmd \in {"build", "all"}, NEW force \in BOOLEAN, RebuildStart(cmd, force)
      PROVE  TypeOK'
  BY <1>8 DEF RebuildStart, Begin
<1>9. CASE RebuildLink
  BY <1>9, LinkTypes DEF RebuildLink
<1>10. CASE RebuildUnlink \/ RebuildLinkFails \/ RebuildRefuse \/ RebuildUndo \/ RebuildAnswer
  BY <1>10 DEF RebuildUnlink, RebuildLinkFails, RebuildRefuse, RebuildUndo, RebuildAnswer
<1>11. CASE RebuildTelemetry
  BY <1>11 DEF RebuildTelemetry
<1>12. CASE RebuildVote
  BY <1>12 DEF RebuildVote
<1>13. CASE RebuildFlash
  BY <1>13 DEF RebuildFlash, Download
<1>14. CASE Stamp \/ Kill
  BY <1>14 DEF Stamp, Kill
<1>15. CASE Pilot
  <2>1. up' \in BOOLEAN /\ armed' \in BOOLEAN
    BY <1>15, Zenon DEF Pilot
  <2> QED
    BY <1>15, <2>1 DEF Pilot
<1>16. CASE Serve
  <2>1. obj.stamped \in BOOLEAN
    BY Marked
  <2>2. watched' \in BOOLEAN
    BY <1>16, <2>1, Zenon DEF Serve
  <2> QED
    BY <1>16, <2>2 DEF Serve
<1>17. CASE UNCHANGED vars
  BY <1>17 DEF vars
<1> QED
  BY <1>1, <1>2, <1>3, <1>4, <1>5, <1>6, <1>7, <1>8, <1>9, <1>10, <1>11, <1>12, <1>13,
     <1>14, <1>15, <1>16, <1>17 DEF Next, Safe, Rebuild

-----------------------------------------------------------------------------
(* The fields of a record that a download leaves alone.                    *)
LEMMA DownloadFields ==
  ASSUME NEW r \in Locals
  PROVE  LET q == [r EXCEPT !.wrote = TRUE]
         IN  /\ q.tool = r.tool /\ q.cmd = r.cmd /\ q.before = r.before
             /\ q.spare = r.spare /\ q.wrote
  BY DEF Locals

LEMMA NumbersAreNat ==
  TypeOK => /\ built \in Nat /\ Missing.n = 0 /\ NoDir.n = 0
            /\ obj.n \in Nat /\ target.n \in Nat /\ prev.n \in Nat /\ cache.n \in Nat
  BY DEF TypeOK, Image, Missing, NoDir

(* No step makes an artifact of another image than the one it builds.      *)
LEMMA Moves ==
  TypeOK /\ [Next]_vars =>
    /\ built' \in {built, built + 1}
    /\ obj' \in {obj, cache, prev, Missing} \/ obj'.n = built'
    /\ target' \in {target, obj, Missing}
    /\ prev' \in {prev, obj, Missing}
    /\ cache' \in {cache, obj, Missing, NoDir}
<1> SUFFICES ASSUME TypeOK, [Next]_vars
             PROVE  /\ built' \in {built, built + 1}
                    /\ obj' \in {obj, cache, prev, Missing} \/ obj'.n = built'
                    /\ target' \in {target, obj, Missing}
                    /\ prev' \in {prev, obj, Missing}
                    /\ cache' \in {cache, obj, Missing, NoDir}
  OBVIOUS
<1> USE DEF aircraft, disk, service
<1>1. ASSUME NEW cmd \in {"build", "flash", "all"}, SafeStart(cmd)
      PROVE  /\ cache' \in {cache, obj, Missing, NoDir}
             /\ UNCHANGED <<obj, prev, built, target>>
  BY <1>1 DEF SafeStart
<1>2. CASE SafeBuild \/ RebuildLink
  BY <1>2 DEF SafeBuild, RebuildLink, Link
<1>3. CASE SafeFlash \/ RebuildFlash
  BY <1>3 DEF SafeFlash, RebuildFlash, Download
<1>4. CASE SafeBuildFails \/ SafeRestore \/ SafeGate \/ SafeGateRefuses \/ SafeConfirm \/ SafeCommit
  BY <1>4 DEF SafeBuildFails, SafeRestore, SafeGate, SafeGateRefuses, SafeConfirm, SafeCommit
<1>5. ASSUME NEW cmd \in {"build", "all"}, NEW force \in BOOLEAN, RebuildStart(cmd, force)
      PROVE  prev' \in {prev, obj, Missing} /\ UNCHANGED <<obj, cache, built, target>>
  BY <1>5 DEF RebuildStart
<1>6. CASE \/ RebuildUnlink \/ RebuildLinkFails \/ RebuildRefuse \/ RebuildTelemetry \/ RebuildVote
           \/ RebuildUndo \/ RebuildAnswer
  BY <1>6 DEF RebuildUnlink, RebuildLinkFails, RebuildRefuse, RebuildTelemetry, RebuildVote,
     RebuildUndo, RebuildAnswer
<1>7. CASE Stamp \/ Kill \/ Pilot \/ Serve
  BY <1>7 DEF Stamp, Kill, Pilot, Serve
<1>8. CASE UNCHANGED vars
  BY <1>8 DEF vars
<1> QED
  BY <1>1, <1>2, <1>3, <1>4, <1>5, <1>6, <1>7, <1>8 DEF Next, Safe, Rebuild

LEMMA NumberedStep == TypeOK /\ Numbered /\ [Next]_vars => Numbered'
<1> SUFFICES ASSUME TypeOK, Numbered, [Next]_vars PROVE Numbered'
  OBVIOUS
<1>1. /\ built \in Nat /\ Missing.n = 0 /\ NoDir.n = 0
      /\ obj.n \in Nat /\ target.n \in Nat /\ prev.n \in Nat /\ cache.n \in Nat
  BY NumbersAreNat
<1>2. built <= built'
  BY <1>1, Moves
<1>3. obj'.n <= built'
  BY <1>1, <1>2, Moves DEF Numbered
<1>4. target'.n <= built' /\ prev'.n <= built' /\ cache'.n <= built'
  BY <1>1, <1>2, Moves DEF Numbered
<1> QED
  BY <1>3, <1>4 DEF Numbered

(* What a pipeline knows is kept by each of its steps.                     *)
LEMMA InvStep == IInv /\ [Next]_vars => IInv'
<1> SUFFICES ASSUME IInv, [Next]_vars PROVE IInv'
  OBVIOUS
<1>0. TypeOK /\ TypeOK' /\ Numbered'
  BY TypeStep, NumberedStep DEF IInv
<1>a. run \in Locals /\ built \in Nat /\ target.n \in Nat /\ run.before \in Image \union {Missing}
  BY <1>0, NumbersAreNat DEF TypeOK, Locals
<1> DEFINE Rest == /\ InTool' /\ Wrote' /\ Saved' /\ Own' /\ Flashed' /\ Stamped'
                   /\ FoundIsKept'
<1> SUFFICES Rest
  BY <1>0 DEF IInv
<1> USE DEF IInv, SafeSteps, RebuildSteps, InTool, Wrote, Loose, Saved, Own, Flashed, Stamped,
    FoundIsKept, Found, AtRest, aircraft, disk, service
<1>1. ASSUME NEW cmd \in {"build", "flash", "all"}, SafeStart(cmd) PROVE Rest
  BY <1>0, <1>1, MissingIsNoImage DEF SafeStart, Begin, TypeOK
<1>2. ASSUME NEW s \in BOOLEAN, NEW l \in {"restore", "gate", "refuse", "alive"}, Link(s, l),
             \/ pc = "build" /\ l \in {"restore", "gate"}
             \/ pc = "link" /\ l \in {"refuse", "alive"}
      PROVE  Rest
  <2>1. /\ pc \in {"build", "link"} /\ pc' = l
        /\ UNCHANGED <<cache, prev, stamp, target, owed, run>>
    BY <1>2 DEF Link
  <2>2. obj' = obj \/ obj'.n = built + 1
    BY <1>2 DEF Link
  <2>3. obj' = obj \/ obj' # target'
    BY <1>a, <2>1, <2>2 DEF Numbered
  <2> QED
    BY <1>a, <1>2, <2>1, <2>3
<1>3. CASE SafeBuildFails
  BY <1>0, <1>3 DEF SafeBuildFails, TypeOK, Missing
<1>4. CASE SafeRestore
  <2>1. /\ pc = "restore" /\ pc' = "idle" /\ UNCHANGED <<prev, stamp, target, owed, run>>
        /\ obj' = (IF cache \in Image THEN cache ELSE obj)
    BY <1>4 DEF SafeRestore
  <2>2. Loose => Found \subseteq {obj', prev'}
    <3> SUFFICES ASSUME Loose, NEW i \in Found, i # prev PROVE i = obj'
      BY <2>1
    <3>1. i \in Image /\ i = cache
      BY <1>a, <2>1 DEF Locals
    <3> QED
      BY <2>1, <3>1
  <2> QED
    BY <2>1, <2>2
<1>5. CASE SafeGate
  BY <1>a, <1>5 DEF SafeGate
<1>6. CASE SafeGateRefuses \/ SafeConfirm \/ SafeCommit
  BY <1>0, <1>6 DEF SafeGateRefuses, SafeConfirm, SafeCommit
<1>7. CASE SafeFlash
  <2>1. /\ pc = "flash" /\ pc' \in {"commit", "restore"} /\ (pc' = "commit" => obj' = target')
        /\ (~owed' => ~owed /\ target' = target) /\ UNCHANGED <<obj, cache, prev, stamp>>
    BY <1>7 DEF SafeFlash, Download
  <2>2. /\ run'.tool = run.tool /\ run'.cmd = run.cmd /\ run'.before = run.before
        /\ run'.spare = run.spare /\ run'.wrote
    BY <1>a, <1>7, DownloadFields DEF SafeFlash, Download
  <2> QED
    BY <2>1, <2>2
<1>8. ASSUME NEW cmd \in {"build", "all"}, NEW force \in BOOLEAN, RebuildStart(cmd, force)
      PROVE  Rest
  BY <1>0, <1>8 DEF RebuildStart, Begin
<1>10. CASE RebuildUnlink \/ RebuildLinkFails
  BY <1>0, <1>10 DEF RebuildUnlink, RebuildLinkFails
<1>11. CASE RebuildRefuse \/ RebuildUndo \/ RebuildAnswer
  BY <1>0, <1>11 DEF RebuildRefuse, RebuildUndo, RebuildAnswer, HadSnapshot
<1>12. CASE RebuildTelemetry
  BY <1>0, <1>12 DEF RebuildTelemetry
<1>13. CASE RebuildVote
  BY <1>0, <1>13 DEF RebuildVote
<1>14. CASE RebuildFlash
  <2>1. /\ pc = "program" /\ pc' \in {"answer", "undo"} /\ (pc' = "answer" => obj' = target')
        /\ (~owed' => ~owed /\ target' = target) /\ UNCHANGED <<obj, cache, prev, stamp>>
    BY <1>14 DEF RebuildFlash, Download
  <2>2. /\ run'.tool = run.tool /\ run'.cmd = run.cmd /\ run'.before = run.before
        /\ run'.spare = run.spare /\ run'.wrote
    BY <1>a, <1>14, DownloadFields DEF RebuildFlash, Download
  <2> QED
    BY <2>1, <2>2
<1>15. CASE Stamp \/ Kill
  BY <1>0, <1>15 DEF Stamp, Kill
<1>16. CASE Pilot \/ Serve
  BY <1>0, <1>16 DEF Pilot, Serve
<1>17. CASE UNCHANGED vars
  BY <1>0, <1>17 DEF vars
<1>18. CASE SafeBuild
  <2>1. PICK l \in {"restore", "gate"} : Link(TRUE, l)
    BY <1>18 DEF SafeBuild
  <2>2. pc = "build"
    BY <1>18 DEF SafeBuild
  <2> QED
    BY <1>2, <2>1, <2>2
<1>19. CASE RebuildLink
  <2>1. Link(FALSE, "refuse") \/ Link(FALSE, "alive")
    BY <1>19 DEF RebuildLink
  <2>2. pc = "link"
    BY <1>19 DEF RebuildLink
  <2> QED
    BY <1>2, <2>1, <2>2, Zenon
<1> QED
  BY <1>1, <1>3, <1>4, <1>5, <1>6, <1>7, <1>8, <1>10, <1>11, <1>12, <1>13,
     <1>14, <1>15, <1>16, <1>17, <1>18, <1>19 DEF Next, Safe, Rebuild

LEMMA Invariant == Spec => []IInv
  BY InitInv, InvStep, PTL DEF Spec

-----------------------------------------------------------------------------
(* Artifacts, images and locals keep their types, for every number of      *)
(* images.                                                                 *)
THEOREM TypeCorrect == Spec => []TypeOK
<1>1. IInv => TypeOK
  BY DEF IInv
<1> QED
  BY <1>1, Invariant, PTL

(* What the preflight of a campaign takes for the image of the aircraft    *)
(* (campaign_preflight._firmware_row) on a stamp is that image, at every   *)
(* step of both pipelines and after a kill at any of them, unless a        *)
(* download changed the aircraft and its run did not come to its stamp.    *)
(* It says nothing of a disk without a stamp.                              *)
THEOREM PreflightTellsTheTruth == Spec => []PreflightIsTrue
<1>1. IInv => PreflightIsTrue
  BY DEF IInv, Stamped, PreflightIsTrue, PreflightPasses
<1> QED
  BY <1>1, Invariant, PTL

(* Until it downloads, and after it ended or was killed without having, a  *)
(* building run has what it found on the disk.                             *)
THEOREM FoundIsRecoverable == Spec => []FoundIsKept
<1>1. IInv => FoundIsKept
  BY DEF IInv
<1> QED
  BY <1>1, Invariant, PTL

(* The image the aircraft runs leaves the disk in the three ways named     *)
(* there and in no other, whatever runs, fails or is killed before.        *)
THEOREM AircraftImageStays == Spec => ImageIsKept
<1>1. IInv /\ [Next]_vars =>
        [target' = target /\ target \in {obj, cache, prev} \ {Missing}
           => target \in {obj', cache', prev'} \/ LeavesByStart \/ LeavesByUndo]_vars
  <2> SUFFICES ASSUME IInv, [Next]_vars, target' = target, target \in {obj, cache, prev},
                      target # Missing, target \notin {obj', cache', prev'}
               PROVE  LeavesByStart \/ LeavesByUndo
    OBVIOUS
  <2> USE MissingIsNoImage DEF aircraft, disk, service, Loose, SafeSteps, RebuildSteps, AtRest
  <2>0. target \in Image /\ obj \in Image \union {Missing}
    BY DEF IInv, TypeOK
  <2>1. ASSUME NEW cmd \in {"build", "flash", "all"}, SafeStart(cmd) PROVE LeavesByStart
    BY <2>0, <2>1 DEF SafeStart, Begin, LeavesByStart
  <2>2. ASSUME NEW cmd \in {"build", "all"}, NEW force \in BOOLEAN, RebuildStart(cmd, force)
        PROVE  LeavesByStart
    BY <2>0, <2>2 DEF RebuildStart, Begin, LeavesByStart
  <2>3. CASE SafeBuild \/ SafeBuildFails \/ RebuildLink \/ RebuildUnlink
    BY <2>3 DEF SafeBuild, SafeBuildFails, RebuildLink, RebuildUnlink, Link, IInv, Own, Saved,
       Wrote, InTool
  <2>4. CASE SafeRestore
    <3>1. /\ pc = "restore" /\ UNCHANGED prev /\ obj' = (IF cache \in Image THEN cache ELSE obj)
      BY <2>4 DEF SafeRestore
    <3>2. obj = target
      BY <2>0, <3>1
    <3>3. CASE Loose
      <4>1. obj = run.before /\ cache = run.before
        BY <2>0, <3>1, <3>2, <3>3 DEF IInv, Own, Saved
      <4> QED
        BY <3>1, <3>2, <4>1
    <3> QED
      BY <3>1, <3>2, <3>3 DEF LeavesByUndo
  <2>5. CASE RebuildRefuse
    BY <2>5 DEF RebuildRefuse, HadSnapshot, IInv, Own, Saved, Wrote, InTool
  <2>6. CASE RebuildUndo
    BY <2>6 DEF RebuildUndo, IInv, Wrote, LeavesByUndo
  <2>7. CASE SafeCommit \/ RebuildAnswer
    BY <2>7 DEF SafeCommit, RebuildAnswer, IInv, Flashed
  <2> QED
    BY <2>1, <2>2, <2>3, <2>4, <2>5, <2>6, <2>7 DEF Next, Safe, Rebuild, SafeGate,
       SafeGateRefuses, SafeConfirm, SafeFlash, RebuildLinkFails, RebuildTelemetry, RebuildVote,
       RebuildFlash, Stamp, Kill, Pilot, Serve, Download, vars
<1> QED
  BY <1>1, Invariant, PTL DEF Spec, ImageIsKept

(* A rebuild_and_flash that ends by itself before its download leaves OBJ/ *)
(* as it found it, from every one of its exits.                            *)
THEOREM RebuildPutsBack == Spec => RebuildRestores
<1>1. IInv /\ [Next]_vars =>
        [run.tool = "rebuild" /\ ~AtRest /\ pc' = "idle" /\ ~run.wrote /\ run.before # Missing
           => obj' = run.before]_vars
  <2> SUFFICES ASSUME IInv, [Next]_vars, run.tool = "rebuild", ~AtRest, pc' = "idle",
                      ~run.wrote, run.before # Missing
               PROVE  obj' = run.before \/ UNCHANGED vars
    OBVIOUS
  <2>1. CASE RebuildRefuse
    BY <2>1, MissingIsNoImage DEF RebuildRefuse, IInv, Saved, HadSnapshot, InTool, Loose,
       SafeSteps, RebuildSteps
  <2>2. CASE UNCHANGED vars
    BY <2>2
  <2> QED
    BY <2>1, <2>2 DEF Next, Safe, Rebuild, IInv, InTool, SafeSteps, Wrote, AtRest, SafeStart,
       SafeBuild, SafeBuildFails, SafeRestore, SafeGate, SafeGateRefuses, SafeConfirm, SafeFlash,
       SafeCommit, RebuildStart, RebuildUnlink, RebuildLink, RebuildLinkFails, RebuildTelemetry,
       RebuildVote, RebuildFlash, RebuildUndo, RebuildAnswer, Stamp, Kill, Pilot, Serve, Begin,
       Link, Download
<1> QED
  BY <1>1, Invariant, PTL DEF Spec, RebuildRestores
=============================================================================
