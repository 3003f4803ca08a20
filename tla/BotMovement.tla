----------------------------- MODULE BotMovement -----------------------------
(***************************************************************************)
(* Who owns the bot's position (bot/bot.go, movement/movement.go, and the  *)
(* pose of client/world.go).  Three goroutines publish it: the read loop,  *)
(* when the server relocates the character; the movement loop, every 250   *)
(* ms, from the MovementController; and whoever plans a path, which is the *)
(* AI loop and, for an attack rejected as out of range, the read loop.     *)
(*                                                                         *)
(* A pose is represented by the relocation it derives from: 0 is where the *)
(* character logged in, n is any place reached from the n-th relocation.   *)
(* Walking along a path does not change it, and a mixture of two poses,    *)
(* read while the read loop writes its coordinates without moveMu, counts  *)
(* as the older one.  A heading is one of Headings.                        *)
(*                                                                         *)
(* Every section under movementMu is one action: what a section writes to  *)
(* the world pose, under moveMu, is always the pose of the controller.     *)
(* Planning a path is three actions, because moveToPoint reads the pose    *)
(* before it takes movementMu and releases it while it computes the path.  *)
(***************************************************************************)
EXTENDS Naturals

CONSTANTS
  Headings,        \* orientations
  NoHeading,       \* no heading was asked for
  MaxRelocations   \* bound: relocations the server makes

ASSUME HeadingsAssumption == NoHeading \notin Headings

\* The goroutines that plan paths.
Planners == {"ai", "read"}

VARIABLES
  epoch,         \* relocations the server has made
  worldPose,     \* w.posX, posY, posZ
  worldHeading,  \* w.orientation
  ctrlPose,      \* moveController.curX, curY, curZ
  ctrlHeading,   \* moveController.curO
  moving,        \* moveController.isMoving and b.isMoving, always set together
  travelled,     \* moveController.travelDist > 0
  commanded,     \* b.lastMoveCommandTime is set
  readPc,        \* where the read loop is in a relocation
  readPose,      \* the pose handleTeleportResume read
  readHeading,   \* the orientation the relocation handler holds
  planPc,        \* per planner, where it is
  planPose,      \* per planner, the start of the path it computes
  pending,       \* b.teleportPending
  resumed,       \* history: the relocation whose resume set pending last
  staleEpoch,    \* history: epoch of the last path installed from an older pose
  faced          \* history: the heading asked for while the bot stood still, with no path behind
                 \* it whose heading every tick would publish

poseVars  == <<worldPose, worldHeading>>
ctrlVars  == <<ctrlPose, ctrlHeading, moving, travelled, commanded>>
readVars  == <<readPc, readPose, readHeading>>
planVars  == <<planPc, planPose>>
movementVars == <<epoch, poseVars, ctrlVars, readVars, planVars, pending, resumed,
          staleEpoch, faced>>

ReadPcs == {"idle", "abort", "pose", "resume", "snap", "flag",
            "r_pose", "r_snap", "r_again"}

MovementInit ==
  /\ epoch = 0
  /\ worldPose = 0
  /\ worldHeading \in Headings
  /\ ctrlPose = 0
  /\ ctrlHeading = worldHeading
  /\ moving = FALSE
  /\ travelled = FALSE
  /\ commanded = FALSE
  /\ readPc = "idle"
  /\ readPose = 0
  /\ readHeading = worldHeading
  /\ planPc = [p \in Planners |-> "idle"]
  /\ planPose = [p \in Planners |-> 0]
  /\ pending = FALSE
  /\ resumed = 0
  /\ staleEpoch = 0
  /\ faced = NoHeading

-----------------------------------------------------------------------------
(***************************************************************************)
(* The MovementController, under movementMu.                               *)
(***************************************************************************)

\* Update while a path is followed: the pose advances along the path, the
\* heading is that of a segment, the path may end, and the pose is published.
Follow ==
  /\ moving
  /\ moving' \in BOOLEAN
  /\ travelled' \in {travelled, TRUE}
  /\ ctrlHeading' \in Headings
  /\ worldPose' = ctrlPose
  /\ worldHeading' = ctrlHeading'
  /\ faced' = NoHeading
  /\ UNCHANGED <<ctrlPose, commanded>>

\* AbortSilent.
Abort ==
  /\ moving' = FALSE
  /\ travelled' = FALSE
  /\ commanded' = FALSE

\* AbortAndSnap.
AbortAndSnap(pose, heading) ==
  /\ Abort
  /\ ctrlPose' = pose
  /\ ctrlHeading' = heading

\* SetPath, from a pose: MoveStartForward publishes it when the bot stood still,
\* and a facing correction may when it was already walking.
SetPath(pose) ==
  /\ ctrlPose' = pose
  /\ moving' = TRUE
  /\ travelled' = FALSE
  /\ ctrlHeading' \in Headings
  /\ \/ worldPose' = pose /\ worldHeading' = ctrlHeading'
     \/ moving /\ UNCHANGED poseVars
  /\ faced' = NoHeading
  /\ staleEpoch' = IF pose < epoch THEN epoch ELSE staleEpoch

-----------------------------------------------------------------------------
(***************************************************************************)
(* The movement loop: updateMovement, each 250 ms.                         *)
(***************************************************************************)

\* Mutant: the pose is published also when no path was followed.
UpdateMovementAlways ==
  /\ \/ Follow
     \/ /\ ~moving
        /\ worldPose' = ctrlPose
        /\ worldHeading' = ctrlHeading
        /\ UNCHANGED <<ctrlVars, faced>>
  /\ UNCHANGED <<epoch, readVars, planVars, pending, resumed, staleEpoch>>

\* After a path has ended, its last pose is still published at every tick.
UpdateMovement ==
  /\ \/ Follow
     \/ /\ ~moving
        /\ travelled
        /\ worldPose' = ctrlPose
        /\ worldHeading' = ctrlHeading
        /\ UNCHANGED <<ctrlVars, faced>>
  /\ UNCHANGED <<epoch, readVars, planVars, pending, resumed, staleEpoch>>

-----------------------------------------------------------------------------
(***************************************************************************)
(* Planning and stopping, from the AI loop or from a callback of the read  *)
(* loop while it is not handling a relocation.                             *)
(***************************************************************************)

MayAct(p) == planPc[p] = "idle" /\ (p = "read" => readPc = "idle")

\* moveToPoint reads the pose of the world.  The callback for an attack rejected
\* as out of range clears the throttle first.
PlanRead(p) ==
  /\ MayAct(p)
  /\ planPc' = [planPc EXCEPT ![p] = "lock"]
  /\ planPose' = [planPose EXCEPT ![p] = worldPose]
  /\ commanded' = (commanded /\ p # "read")
  /\ UNCHANGED <<epoch, poseVars, ctrlPose, ctrlHeading, moving, travelled,
                 readVars, pending, resumed, staleEpoch, faced>>

\* The first locked section: a bot on the move updates the controller and plans
\* from its pose instead; a recent command for a near destination is dropped.
PlanLock(p) ==
  /\ planPc[p] = "lock"
  /\ \/ /\ Follow
        /\ planPose' = [planPose EXCEPT ![p] = ctrlPose]
     \/ /\ ~moving
        /\ UNCHANGED <<poseVars, ctrlVars, planPose, faced>>
  /\ \/ planPc' = [planPc EXCEPT ![p] = "path"]
     \/ moving' /\ commanded /\ planPc' = [planPc EXCEPT ![p] = "idle"]
  /\ UNCHANGED <<epoch, readVars, pending, resumed, staleEpoch>>

\* The second locked section installs the path computed meanwhile.
PlanInstall(p) ==
  /\ planPc[p] = "path"
  /\ planPc' = [planPc EXCEPT ![p] = "idle"]
  /\ SetPath(planPose[p])
  /\ commanded' = TRUE
  /\ UNCHANGED <<epoch, readVars, planPose, pending, resumed>>

\* actionWander reads the pose when no path is active...
WanderRead ==
  /\ MayAct("ai")
  /\ ~moving
  /\ planPc' = [planPc EXCEPT !["ai"] = "wander"]
  /\ planPose' = [planPose EXCEPT !["ai"] = worldPose]
  /\ UNCHANGED <<epoch, poseVars, ctrlVars, readVars, pending, resumed,
                 staleEpoch, faced>>

\* ... and installs a random path from it, or finds none.
WanderInstall ==
  /\ planPc["ai"] = "wander"
  /\ planPc' = [planPc EXCEPT !["ai"] = "idle"]
  /\ \/ SetPath(planPose["ai"]) /\ UNCHANGED commanded
     \/ UNCHANGED <<poseVars, ctrlVars, staleEpoch, faced>>
  /\ UNCHANGED <<epoch, readVars, planPose, pending, resumed>>

\* stopCurrentMove: Stop publishes the pose of the controller if it was moving.
StopCurrentMove(p) ==
  /\ MayAct(p)
  /\ commanded' = FALSE
  /\ moving' = FALSE
  /\ IF moving THEN worldPose' = ctrlPose /\ worldHeading' = ctrlHeading
               ELSE UNCHANGED poseVars
  /\ UNCHANGED <<epoch, ctrlPose, ctrlHeading, travelled, readVars, planVars,
                 pending, resumed, staleEpoch, faced>>

\* FaceTarget and SetFacing turn the character without the controller.
SetFacing(p, h) ==
  /\ MayAct(p)
  /\ worldHeading' = h
  /\ faced' = IF moving \/ travelled THEN NoHeading ELSE h
  /\ UNCHANGED <<epoch, worldPose, ctrlVars, readVars, planVars, pending,
                 resumed, staleEpoch>>

\* ConsumeTeleport, from the tick of the Lua AI.
ConsumeTeleport ==
  /\ MayAct("ai")
  /\ pending
  /\ pending' = FALSE
  /\ UNCHANGED <<epoch, poseVars, ctrlVars, readVars, planVars, resumed,
                 staleEpoch, faced>>

-----------------------------------------------------------------------------
(***************************************************************************)
(* Relocations, on the read loop.                                          *)
(***************************************************************************)

Arrive(next) ==
  /\ readPc = "idle"
  /\ planPc["read"] = "idle"
  /\ epoch < MaxRelocations
  /\ epoch' = epoch + 1
  /\ readPc' = next
  /\ UNCHANGED <<poseVars, ctrlVars, readPose, readHeading, planVars, pending,
                 resumed, staleEpoch, faced>>

\* A near teleport or a far transfer.
Teleport == Arrive("abort")

\* Entering the transfer phase: abortMovementForTeleport.
TeleportAbort ==
  /\ readPc = "abort"
  /\ readPc' = "pose"
  /\ Abort
  /\ UNCHANGED <<epoch, poseVars, ctrlPose, ctrlHeading, readPose, readHeading,
                 planVars, pending, resumed, staleEpoch, faced>>

\* The handler writes the new pose, with a heading of the server's.
TeleportPose ==
  /\ readPc = "pose"
  /\ readPc' = "resume"
  /\ worldPose' = epoch
  /\ worldHeading' \in Headings
  /\ faced' = NoHeading
  /\ UNCHANGED <<epoch, ctrlVars, readPose, readHeading, planVars, pending,
                 resumed, staleEpoch>>

\* Mutant: Lua is told of the teleport before the controller is snapped.
TeleportResumeFlagsFirst ==
  /\ readPc = "resume"
  /\ readPc' = "snap"
  /\ readPose' = worldPose
  /\ readHeading' = worldHeading
  /\ pending' = TRUE
  /\ resumed' = epoch
  /\ UNCHANGED <<epoch, poseVars, ctrlVars, planVars, staleEpoch, faced>>

\* Back in the world: handleTeleportResume reads the pose it will snap to.
TeleportResume ==
  /\ readPc = "resume"
  /\ readPc' = "snap"
  /\ readPose' = worldPose
  /\ readHeading' = worldHeading
  /\ UNCHANGED <<epoch, poseVars, ctrlVars, planVars, pending, resumed,
                 staleEpoch, faced>>

TeleportSnap ==
  /\ readPc = "snap"
  /\ readPc' = "flag"
  /\ AbortAndSnap(readPose, readHeading)
  /\ UNCHANGED <<epoch, poseVars, readPose, readHeading, planVars, pending,
                 resumed, staleEpoch, faced>>

TeleportFlag ==
  /\ readPc = "flag"
  /\ readPc' = "idle"
  /\ pending' = TRUE
  /\ resumed' = epoch
  /\ UNCHANGED <<epoch, poseVars, ctrlVars, readPose, readHeading, planVars,
                 staleEpoch, faced>>

\* A self SMSG_MONSTER_MOVE (Charge): applySelfServerRelocate.
Relocate == Arrive("r_pose")

RelocatePose ==
  /\ readPc = "r_pose"
  /\ readPc' = "r_snap"
  /\ readHeading' = worldHeading
  /\ worldPose' = epoch
  /\ UNCHANGED <<epoch, worldHeading, ctrlVars, readPose, planVars, pending,
                 resumed, staleEpoch, faced>>

\* The callback OnServerRelocate.
RelocateSnap ==
  /\ readPc = "r_snap"
  /\ readPc' = "r_again"
  /\ AbortAndSnap(epoch, readHeading)
  /\ UNCHANGED <<epoch, poseVars, readPose, readHeading, planVars, pending,
                 resumed, staleEpoch, faced>>

\* Mutant: the pose is not asserted again.
RelocateOnce ==
  /\ readPc = "r_again"
  /\ readPc' = "idle"
  /\ UNCHANGED <<epoch, poseVars, ctrlVars, readPose, readHeading, planVars,
                 pending, resumed, staleEpoch, faced>>

\* The pose is asserted again after the callback.
RelocateAgain ==
  /\ readPc = "r_again"
  /\ readPc' = "idle"
  /\ worldPose' = epoch
  /\ worldHeading' = readHeading
  /\ faced' = NoHeading
  /\ UNCHANGED <<epoch, ctrlVars, readPose, readHeading, planVars, pending,
                 resumed, staleEpoch>>

\* SMSG_SPELL_GO of a spell that relocates its caster aborts the path at once.
RelocateSpellGo ==
  /\ readPc = "idle"
  /\ planPc["read"] = "idle"
  /\ Abort
  /\ UNCHANGED <<epoch, poseVars, ctrlPose, ctrlHeading, readVars, planVars,
                 pending, resumed, staleEpoch, faced>>

ReadLoop ==
  \/ Teleport
  \/ TeleportAbort
  \/ TeleportPose
  \/ TeleportResume
  \/ TeleportSnap
  \/ TeleportFlag
  \/ Relocate
  \/ RelocatePose
  \/ RelocateSnap
  \/ RelocateAgain
  \/ RelocateSpellGo

Planning ==
  \E p \in Planners :
    \/ PlanRead(p)
    \/ PlanLock(p)
    \/ PlanInstall(p)
    \/ StopCurrentMove(p)
    \/ \E h \in Headings : SetFacing(p, h)

MovementNext ==
  \/ UpdateMovement
  \/ Planning
  \/ WanderRead
  \/ WanderInstall
  \/ ConsumeTeleport
  \/ ReadLoop

MovementSpec == MovementInit /\ [][MovementNext]_movementVars

-----------------------------------------------------------------------------
(***************************************************************************)
(* Properties                                                              *)
(***************************************************************************)

MovementTypeOK ==
  /\ epoch \in Nat
  /\ worldPose \in Nat
  /\ worldHeading \in Headings
  /\ ctrlPose \in Nat
  /\ ctrlHeading \in Headings
  /\ moving \in BOOLEAN
  /\ travelled \in BOOLEAN
  /\ commanded \in BOOLEAN
  /\ readPc \in ReadPcs
  /\ readPose \in Nat
  /\ readHeading \in Headings
  /\ planPc \in [Planners -> {"idle", "lock", "path", "wander"}]
  /\ planPose \in [Planners -> Nat]
  /\ pending \in BOOLEAN
  /\ resumed \in Nat
  /\ staleEpoch \in Nat
  /\ faced \in Headings \cup {NoHeading}

\* No path was installed, since the last relocation began, from a pose read
\* before it.
NoStalePath == staleEpoch < epoch \/ epoch = 0

\* Whatever the movement loop, the heartbeats and the stops do meanwhile, a
\* relocation the read loop has handled is the pose of the world and of the
\* controller, unless a path planned before it was installed after it.
RelocationHolds ==
  readPc = "idle" /\ NoStalePath => worldPose = epoch /\ ctrlPose = epoch

\* When Lua learns of a teleport, the pose it restarts from and the pose the
\* controller will publish already come from that teleport or a later one.
FlagFollowsSnap ==
  pending /\ staleEpoch < resumed => worldPose >= resumed /\ ctrlPose >= resumed

\* applySelfServerRelocate and AbortAndSnap promise that nothing publishes a pose
\* from before a relocation once it is handled.  A path that was being computed
\* when the relocation arrived does.
RelocationIsFinal == readPc = "idle" => worldPose = epoch

\* FaceTarget turns the character once and then leaves it alone: the heading asked for
\* holds until another facing, a path or a relocation, whatever the movement loop, the
\* stops and a spell that relocates do meanwhile.  Not so a heading asked for after a
\* path has ended (see faced).
FacingIsKept ==
  ~moving /\ readPc = "idle" /\ faced # NoHeading => worldHeading = faced

=============================================================================
