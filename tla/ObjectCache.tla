---------------------------- MODULE ObjectCache ----------------------------
(***************************************************************************)
(* The cache of world objects (client/world.go).  The server describes an  *)
(* object once, with a create block, when it comes into the player's sight *)
(* and does not repeat it until the object has left: an object the client  *)
(* loses stays lost.  The client drops objects when told to, on a change   *)
(* of map, and by distance on a near teleport; a MONSTER_MOVE may enter an *)
(* object before its create block arrives.                                 *)
(*                                                                         *)
(* The server is external.  It adds an object to those the client has when *)
(* the object comes into sight, builds its create block then, and sends it *)
(* with the next update packet; moves leave at once.  A teleport becomes   *)
(* effective for the server at some moment between its decision and the    *)
(* client's acknowledgement.                                               *)
(***************************************************************************)
EXTENDS Integers, FiniteSets, Sequences, SequencesExt, UpdateLayout

CONSTANTS
  Mobs, Players,   \* the objects other than the character
  Places,          \* where objects are, on a line
  Homes,           \* where the character is teleported to
  Sight,           \* how far the server shows objects
  Keep,            \* pruneObjectsBeyond keeps what is no farther: 150 yards
  Step,            \* the longest move
  Written,         \* the movement block layouts the server writes
  Nowhere,         \* no place, no pose
  MaskBlocks,      \* mask words of an object's values block
  MaxPackets,      \* bound: packets the server sends
  MaxQueue         \* bound: packets under way at a time

Objects == Mobs \cup Players

ASSUME PlaceAssumption ==
  Places \cup Homes \subseteq Int /\ Nowhere \notin Places \cup [pos : Places, to : Places]
\* The cache has a walking mob where its last move began, and it may move once more
\* while a teleport is under way.  So the world is a continent: in an instance or a
\* battleground a server may show more than pruneObjectsBeyond keeps, and the pruning may
\* drop objects in sight: these are left out.
ASSUME DistanceAssumption ==
  {Sight, Keep, Step} \subseteq Nat /\ Sight + 2 * Step <= Keep
\* The server writes no spline of more nodes than parseCreateSplineData reads.
ASSUME LayoutAssumption ==
  /\ Written \subseteq Layouts /\ \A l \in Written : l.nodes <= NodeCap
  /\ MaskBlocks \in [Objects -> Nat]
ASSUME ObjectAssumption == IsFiniteSet(Objects) /\ Mobs \cap Players = {}

Distance(p, q) == IF p > q THEN p - q ELSE q - p

\* Where an object is and where it walks to, the same place if it stands.
Poses == [pos : Places, to : Places]

VARIABLES
  at,        \* external: where each shown object is, or is about to arrive
  me,        \* external: where the server has the character
  dest,      \* external: where a teleport in progress leads, or Nowhere
  stage,     \* external: "none", or how far the teleport is: "due", "sent", "acked"
  moved,     \* external: the objects that moved since the teleport was decided, and
             \* then those it left out of sight
  shown,     \* external: the objects the server holds the client to have
  built,     \* external: per object, its create block not sent yet, or Nowhere
  sent,      \* packets sent so far, for the bound
  net,       \* packets sent and not yet read
  entry,     \* per object, how w.objects holds it: "none", "stub" or "full"
  pose,      \* per object, its pose in the cache
  work,      \* the blocks of the update packet being applied, still to come
  off,       \* bytes consumed less bytes written in that packet
  lost,      \* history: objects described behind a values block skipped short, or
             \* pruned by a stale pose
  stale      \* history: objects whose create block undid a move it was older than, or
             \* whose move was dropped before it

serverVars == <<at, me, dest, stage, moved, shown, built, sent>>
cacheVars == <<entry, pose>>
vars == <<serverVars, net, cacheVars, work, off, lost, stale>>

NoLayout == [shape |-> "none", extras |-> {}, move |-> {}, facing |-> "none",
             nodes |-> 0]

Blocks ==
  [kind : {"values", "movement", "create", "out"}, guid : Objects, pose : Poses,
   layout : Written \cup {NoLayout}]

Packets ==
       [kind : {"update"}, blocks : Seq(Blocks)]
  \cup [kind : {"move"}, guid : Objects, pose : Poses]
  \cup [kind : {"destroy"}, guid : Objects]
  \cup [kind : {"teleport", "world"}, to : Homes]

Standing(p) == [pos |-> p, to |-> p]

Init ==
  /\ at = [o \in Objects |-> Nowhere]
  /\ me \in Homes
  /\ dest = Nowhere
  /\ stage = "none"
  /\ moved = {}
  /\ shown = {}
  /\ built = [o \in Objects |-> Nowhere]
  /\ sent = 0
  /\ net = <<>>
  /\ entry = [o \in Objects |-> "none"]
  /\ pose = [o \in Objects |-> Nowhere]
  /\ work = <<>>
  /\ off = 0
  /\ lost = {}
  /\ stale = {}

-----------------------------------------------------------------------------
(***************************************************************************)
(* The server (external).                                                  *)
(***************************************************************************)

\* Bounds: what is sent, and what is under way.
CanSend == sent < MaxPackets /\ Len(net) < MaxQueue

Send(packet) ==
  /\ CanSend
  /\ sent' = sent + 1
  /\ net' = Append(net, packet)

InSight(p) == Distance(p, me) <= Sight

\* The objects whose create block is built and not sent.
Waiting == {o \in Objects : built[o] # Nowhere}

\* An object comes into sight and stands there: its create block is built and the client
\* counts as having it.  (Not once no packet is left to tell the client.)
ServerBuild(o) ==
  /\ sent < MaxPackets
  /\ o \notin shown
  /\ shown' = shown \cup {o}
  /\ \E p \in Places :
       /\ InSight(p)
       /\ at' = [at EXCEPT ![o] = p]
       /\ built' = [built EXCEPT ![o] = Standing(p)]
  /\ UNCHANGED <<me, dest, stage, moved, sent, net>>

\* A shown object moves, which the client is told at once.  During a teleport it moves
\* at most once, and not at all after one that left it out of sight: it is withdrawn long
\* before it has walked back.
ServerMove(o, p) ==
  /\ o \in shown
  /\ p # at[o]
  /\ Distance(p, at[o]) <= Step
  /\ o \notin moved
  /\ moved' = IF stage = "none" THEN moved ELSE moved \cup {o}
  /\ at' = [at EXCEPT ![o] = p]
  /\ Send([kind |-> "move", guid |-> o,
           pose |-> [pos |-> IF o \in Mobs THEN at[o] ELSE p, to |-> p]])
  /\ UNCHANGED <<me, dest, stage, shown, built>>

\* The update packet of a tick: what has left the player's sight, then in some order
\* the create blocks that wait and what changed of another object.
ServerUpdate ==
  /\ CanSend
  /\ stage # "acked"
  /\ LET gone == {o \in shown \ Waiting : ~InSight(at[o])}
         here == (shown \ gone) \ Waiting
         Block(kind, o, p, l) == [kind |-> kind, guid |-> o, pose |-> p, layout |-> l]
         outs == {Block("out", o, Standing(at[o]), NoLayout) : o \in gone}
         creates(l) == {Block("create", o, built[o], l) : o \in Waiting}
     IN  /\ \E changed \in {{}} \cup {{o} : o \in here}, kind \in {"values", "movement"}, l \in Written :
              LET others == {Block(kind, o, Standing(at[o]),
                                   IF kind = "movement" THEN l ELSE NoLayout)
                               : o \in changed}
              IN  /\ outs \cup creates(l) \cup others # {}
                  /\ \E rest \in SetToSeqs(creates(l) \cup others) :
                       Send([kind |-> "update", blocks |-> SetToSeq(outs) \o rest])
         /\ shown' = shown \ gone
         /\ at' = [o \in Objects |-> IF o \in gone THEN Nowhere ELSE at[o]]
         /\ built' = [o \in Objects |-> Nowhere]
  /\ moved' = IF stage = "none" THEN {} ELSE moved
  /\ UNCHANGED <<me, dest, stage>>

ServerDestroy(o) ==
  /\ o \in shown \ Waiting
  /\ shown' = shown \ {o}
  /\ at' = [at EXCEPT ![o] = Nowhere]
  /\ moved' = IF stage = "none" THEN moved \ {o} ELSE moved
  /\ Send([kind |-> "destroy", guid |-> o])
  /\ UNCHANGED <<me, dest, stage, built>>

\* A near teleport is decided, sent, and takes effect at the latest when acknowledged.
\* What the last one left out of sight has been withdrawn.
ServerTeleport(p) ==
  /\ sent < MaxPackets
  /\ stage = "none"
  /\ \A o \in shown : InSight(at[o])
  /\ p # me
  /\ dest' = p
  /\ stage' = "due"
  /\ moved' = {}
  /\ UNCHANGED <<at, me, shown, built, sent, net>>

ServerRelocate ==
  /\ stage # "none"
  /\ me' = dest
  /\ UNCHANGED <<at, dest, stage, moved, shown, built, sent, net>>

ServerTeleportSend ==
  /\ stage = "due"
  /\ stage' = "sent"
  /\ Send([kind |-> "teleport", to |-> dest])
  /\ UNCHANGED <<at, me, dest, moved, shown, built>>

ServerAck ==
  /\ stage = "acked"
  /\ stage' = "none"
  /\ me' = dest
  /\ dest' = Nowhere
  /\ moved' = {o \in shown : Distance(at[o], dest) > Sight}
  /\ UNCHANGED <<at, shown, built, sent, net>>

\* A change of map: the server takes the client to have nothing.
ServerNewWorld(p) ==
  /\ stage = "none"
  /\ Send([kind |-> "world", to |-> p])
  /\ me' = p
  /\ at' = [o \in Objects |-> Nowhere]
  /\ shown' = {}
  /\ built' = [o \in Objects |-> Nowhere]
  /\ moved' = {}
  /\ UNCHANGED <<dest, stage>>

\* Server and client share only the stream, so no step of the server is needed between
\* two blocks of one packet.
ServerStep ==
  /\ work = <<>>
  /\ \/ \E o \in Objects : ServerBuild(o) \/ ServerDestroy(o)
     \/ \E o \in Objects, p \in Places : ServerMove(o, p)
     \/ ServerUpdate
     \/ \E p \in Homes : ServerTeleport(p) \/ ServerNewWorld(p)
     \/ ServerRelocate
     \/ ServerTeleportSend
     \/ ServerAck
  /\ UNCHANGED <<cacheVars, work, off, lost, stale>>

-----------------------------------------------------------------------------
(***************************************************************************)
(* The read loop: the blocks of SMSG_UPDATE_OBJECT.                        *)
(***************************************************************************)

Tracked == {o \in Objects : entry[o] # "none"}

\* The objects leave the map ...
Drop(objects) ==
  /\ entry' = [o \in Objects |-> IF o \in objects THEN "none" ELSE entry[o]]
  /\ pose' = [o \in Objects |-> IF o \in objects THEN Nowhere ELSE pose[o]]
  /\ stale' = stale \ objects

\* ... because the server said so.
Withdraw(objects) ==
  /\ Drop(objects)
  /\ lost' = lost \ objects

Read(kind) ==
  /\ work = <<>>
  /\ net # <<>>
  /\ Head(net).kind = kind
  /\ net' = Tail(net)

\* handleUpdateObject, up to its loop.
UpdateObject ==
  /\ Read("update")
  /\ work' = Head(net).blocks
  /\ off' = 0
  /\ UNCHANGED <<serverVars, cacheVars, lost, stale>>

\* The next block begins where the last one ended.
Block(kind) ==
  /\ work # <<>>
  /\ off = 0
  /\ Head(work).kind = kind
  /\ work' = Tail(work)
  /\ UNCHANGED <<serverVars, net>>

\* UPDATETYPE_VALUES: read for a tracked object, else skipped.
ValuesBlock ==
  /\ Block("values")
  /\ LET o == Head(work).guid
         words == MaskBlocks[o]
     IN  /\ off' = (IF o \in Tracked THEN ReadValues(words, 1, 0)
                                     ELSE SkipValues(words, 1, 0))
                   - WrittenValues(words, 1, 0)
         /\ lost' = IF o \notin Tracked /\ words > SkipCap
                    THEN lost \cup {b.guid : b \in Range(Tail(work))} ELSE lost
  /\ UNCHANGED <<cacheVars, stale>>

\* UPDATETYPE_MOVEMENT: likewise.  Only the position is updated.
MovementBlock ==
  /\ Block("movement")
  /\ LET o == Head(work).guid
         l == Head(work).layout
     IN  /\ off' = (IF o \in Tracked THEN ReadMovement(l, o \in Mobs) ELSE SkipMovement(l))
                   - WrittenMovement(l)
         /\ pose' = [pose EXCEPT ![o] = IF o \in Tracked THEN Head(work).pose ELSE @]
         /\ stale' = stale \ {o}
  /\ UNCHANGED <<entry, lost>>

\* Mutant: the create block always wins.
CreatedAlways(o, new) == new

\* The pose after a create block: an object that stands keeps the pose it was given
\* in the last two seconds if that is more than 4 yards away, and the movement with it.
Created(o, new) ==
  IF o \in Tracked /\ new.pos = new.to /\ new.pos # pose[o].pos THEN pose[o] ELSE new

\* UPDATETYPE_CREATE_OBJECT: always parsed in full.
CreateBlock ==
  /\ Block("create")
  /\ LET o == Head(work).guid
         l == Head(work).layout
         new == Head(work).pose
     IN  /\ off' = ReadMovement(l, o \in Mobs) - WrittenMovement(l)
         /\ entry' = [entry EXCEPT ![o] = "full"]
         /\ pose' = [pose EXCEPT ![o] = Created(o, new)]
         /\ lost' = lost \ {o}
         /\ stale' = IF o \notin Tracked THEN stale
                     ELSE IF new.pos = pose[o].pos THEN stale \cup {o} ELSE stale \ {o}

\* UPDATETYPE_OUT_OF_RANGE_OBJECTS, one GUID of its list.
OutBlock ==
  /\ Block("out")
  /\ Withdraw({Head(work).guid})
  /\ UNCHANGED off

\* The rest of a packet the client is out of step with is misparsed.
Misparse ==
  /\ work # <<>>
  /\ off # 0
  /\ work' = <<>>
  /\ UNCHANGED <<serverVars, net, cacheVars, off, lost, stale>>

-----------------------------------------------------------------------------
(***************************************************************************)
(* The read loop: the other packets.                                       *)
(***************************************************************************)

\* handleMonsterMove enters an object it does not know.
MonsterMove ==
  /\ Read("move")
  /\ LET o == Head(net).guid
     IN  /\ o \in Mobs
         /\ entry' = [entry EXCEPT ![o] = IF @ = "none" THEN "stub" ELSE @]
         /\ pose' = [pose EXCEPT ![o] = Head(net).pose]
         /\ stale' = stale \ {o}
  /\ UNCHANGED <<serverVars, work, off, lost>>

\* handleMovementPacket, for the moves of players, drops that of an unknown one.
MovementPacket ==
  /\ Read("move")
  /\ LET o == Head(net).guid
     IN  /\ o \in Players
         /\ IF o \in Tracked
            THEN /\ pose' = [pose EXCEPT ![o] = Head(net).pose]
                 /\ stale' = stale \ {o}
            ELSE /\ stale' = stale \cup {o}
                 /\ UNCHANGED pose
  /\ UNCHANGED <<serverVars, entry, work, off, lost>>

\* handleDestroyObject.
DestroyObject ==
  /\ Read("destroy")
  /\ Withdraw({Head(net).guid})
  /\ UNCHANGED <<serverVars, work, off>>

\* Mutant: a near teleport clears the map.
PrunedAll(p) == Tracked

\* pruneObjectsBeyond: what is too far from p, by the position in the cache.
Pruned(p) == {o \in Tracked : Distance(pose[o].pos, p) > Keep}

\* handleMoveTeleportAck: prune, acknowledge.
MoveTeleportAck ==
  /\ Read("teleport")
  /\ Drop(Pruned(Head(net).to))
  /\ lost' = lost \cup (Pruned(Head(net).to) \cap stale)
  /\ stage' = "acked"
  /\ UNCHANGED <<at, me, dest, moved, shown, built, sent, work, off>>

\* handleNewWorld: the cache is replaced by an empty one.
NewWorld ==
  /\ Read("world")
  /\ Withdraw(Objects)
  /\ UNCHANGED <<serverVars, work, off>>

ReadLoopStep ==
  \/ UpdateObject
  \/ ValuesBlock
  \/ MovementBlock
  \/ CreateBlock
  \/ OutBlock
  \/ Misparse
  \/ MonsterMove
  \/ MovementPacket
  \/ DestroyObject
  \/ MoveTeleportAck
  \/ NewWorld

Next == ServerStep \/ ReadLoopStep

Spec == Init /\ [][Next]_vars

-----------------------------------------------------------------------------
(***************************************************************************)
(* Properties                                                              *)
(***************************************************************************)

TypeOK ==
  /\ at \in [Objects -> Places \cup {Nowhere}]
  /\ me \in Homes
  /\ dest \in Homes \cup {Nowhere}
  /\ stage \in {"none", "due", "sent", "acked"}
  /\ moved \subseteq Objects
  /\ shown \subseteq Objects
  /\ built \in [Objects -> Poses \cup {Nowhere}]
  /\ sent \in Nat
  /\ net \in Seq(Packets)
  /\ entry \in [Objects -> {"none", "stub", "full"}]
  /\ pose \in [Objects -> Poses \cup {Nowhere}]
  /\ \A o \in Objects : entry[o] = "none" <=> pose[o] = Nowhere
  /\ work \in Seq(Blocks)
  /\ off \in Int
  /\ lost \subseteq Objects
  /\ stale \subseteq Objects

\* Nothing is on its way to the client, and nothing it dropped by distance is still
\* to be withdrawn by the server.
Settled ==
  /\ net = <<>>
  /\ work = <<>>
  /\ stage = "none"
  /\ Waiting = {}
  /\ \A o \in shown : InSight(at[o])

\* An object the server takes the client to have is in the cache, with what its create
\* block said, and no other object is: no create is lost in a packet, to the pruning of
\* a near teleport or to a change of map, and nothing withdrawn lingers.  The
\* exceptions are the blocks behind a values block of more than 32 mask words that was
\* skipped, and an object pruned by a pose that missed its last move.
CacheIsWhatIsShown ==
  Settled => \A o \in Objects \ lost :
               IF o \in shown THEN entry[o] = "full" ELSE entry[o] = "none"

\* handleMoveTeleportAck: "Clearing the map drops those creates and the server will not
\* resend them"; skipValuesUpdate "consumes a values update block (mask + values)".
\* So whatever the client skips, it keeps what the server shows.
EveryShownObjectIsCached ==
  Settled => \A o \in shown : entry[o] = "full"

\* The cache has a mob where the server last said it is or walks to: a create block
\* that the mob's later moves overtook does not take it back, unless it has the very
\* position the last of those moves started from.
PoseIsFresh ==
  Settled => \A o \in (shown \cap Mobs) \ (stale \cup lost) : pose[o].to = at[o]

=============================================================================
