------------------------- MODULE ObjectCacheProofs --------------------------
(***************************************************************************)
(* Proofs about the cache of world objects: the bytes of an update packet  *)
(* (UpdateLayout), and what the client holds of each object (ObjectCache), *)
(* for any objects, places, layouts, lengths and number of packets.        *)
(*                                                                         *)
(* What the client will hold of an object once it has read the blocks at   *)
(* hand and the packets under way is determined: a course of views leads   *)
(* there.  Its first view is what the cache holds, each block and packet   *)
(* takes a view to the next, and the last one fits the server's account of *)
(* the object: its entry and its pose are right, or it is lost by a stale  *)
(* pose, or a teleport leaves it so far away that the server withdraws it. *)
(***************************************************************************)
EXTENDS ObjectCache, SequenceTheorems, FiniteSetTheorems, TLAPS

-----------------------------------------------------------------------------
(* The layout of SMSG_UPDATE_OBJECT. *)

\* A spline is consumed alike by the path that parses it and the one that skips it.
LEMMA SplinePathsAgree ==
  ASSUME NEW b \in Layouts, b.nodes <= NodeCap
  PROVE  /\ SkipSpline(b) \in Nat
         /\ ParseSpline(b) = SkipSpline(b)
         /\ WrittenSpline(b) = SkipSpline(b)
<1>1. b.nodes \in Nat /\ b.facing \in {"none", "angle", "target", "point"}
  BY DEF Layouts
<1>2. CASE b.nodes = 0
  BY <1>1, <1>2 DEF SkipSpline, ParseSpline, WrittenSpline, FacingBytes, When, NodeCap
<1>3. CASE b.nodes > 0
  BY <1>1, <1>3 DEF SkipSpline, ParseSpline, WrittenSpline, FacingBytes, When, NodeCap
<1> QED
  BY <1>1, <1>2, <1>3

\* The living part: alike whether the spline is parsed or skipped.
LEMMA LivingPathsAgree ==
  ASSUME NEW b \in Layouts, b.nodes <= NodeCap, NEW parses \in BOOLEAN
  PROVE  /\ WrittenLiving(b) \in Nat
         /\ ReadLiving(b, parses) = WrittenLiving(b)
         /\ 10 + 16 + TransportBytes(b) + When("pitch" \in b.move, 4) + 4
              + When("falling" \in b.move, 16) + When("elevation" \in b.move, 4) + 36
              + When("spline" \in b.move, SkipSpline(b)) = WrittenLiving(b)
<1> DEFINE S == SkipSpline(b)
<1>1. S \in Nat /\ ParseSpline(b) = S /\ WrittenSpline(b) = S
  BY SplinePathsAgree
<1>2. When("spline" \in b.move, WrittenSpline(b)) = When("spline" \in b.move, S)
  BY <1>1 DEF When
<1>3. When("spline" \in b.move, IF parses THEN ParseSpline(b) ELSE S)
        = When("spline" \in b.move, S)
  BY <1>1 DEF When
<1>4. When("spline" \in b.move, S) \in Nat
  BY <1>1 DEF When
<1> HIDE DEF S
<1>5. TransportBytes(b) \in Nat
  BY DEF TransportBytes, When, Packed
<1>6. QED
  BY <1>2, <1>3, <1>4, <1>5 DEF WrittenLiving, ReadLiving, TransportBytes, When, Packed, S

\* A movement block is some number of bytes.
LEMMA MovementBytes ==
  ASSUME NEW b \in Layouts, b.nodes <= NodeCap
  PROVE  WrittenMovement(b) \in Nat
<1>1. b.shape \in {"living", "position", "stationary", "none"}
  BY DEF Layouts
<1>2. WrittenLiving(b) \in Nat
  BY LivingPathsAgree
<1>3. ExtraBytes(b) \in Nat
  BY DEF ExtraBytes, When, Packed
<1>4. WrittenMovement(b) =
        2 + (IF b.shape = "living" THEN WrittenLiving(b)
             ELSE IF b.shape = "position" THEN Packed + 32
             ELSE When(b.shape = "stationary", 16)) + ExtraBytes(b)
  BY <1>1, <1>2 DEF WrittenMovement, ExtraBytes, When, Packed
<1>5. QED
  BY <1>1, <1>2, <1>3, <1>4 DEF When, Packed

\* readMovementUpdate, for a unit or another object, and skipMovementUpdate all consume
\* a movement block exactly as the server wrote it, whatever its flags and its spline:
\* "MUST stay byte-identical to readMovementUpdate's consumption path".
THEOREM MovementPathsAgree ==
  ASSUME NEW b \in Layouts, b.nodes <= NodeCap, NEW parses \in BOOLEAN
  PROVE  /\ ReadMovement(b, parses) = WrittenMovement(b)
         /\ SkipMovement(b) = WrittenMovement(b)
<1>1. b.shape \in {"living", "position", "stationary", "none"}
  BY DEF Layouts
<1>2. WrittenLiving(b) \in Nat /\ ReadLiving(b, parses) = WrittenLiving(b)
  BY LivingPathsAgree
<1>3. ExtraBytes(b) \in Nat
  BY DEF ExtraBytes, When, Packed
<1>4. WrittenMovement(b) =
        2 + (IF b.shape = "living" THEN WrittenLiving(b)
             ELSE IF b.shape = "position" THEN Packed + 32
             ELSE When(b.shape = "stationary", 16)) + ExtraBytes(b)
  BY <1>1, <1>2 DEF WrittenMovement, ExtraBytes, When, Packed
<1>5. ReadMovement(b, parses) = WrittenMovement(b)
  BY <1>1, <1>2, <1>3, <1>4 DEF ReadMovement, When, Packed
<1>6. SkipMovement(b) = WrittenMovement(b)
  BY <1>1, <1>2, <1>3, <1>4, LivingPathsAgree DEF SkipMovement, When, Packed
<1> QED
  BY <1>5, <1>6

\* readValuesUpdate always consumes a values block as written; skipValuesUpdate does when
\* the block has at most 32 mask words, and stops short of one with more.
THEOREM ValuesPathsAgree ==
  ASSUME NEW blocks \in Nat, NEW low \in Nat, NEW high \in Nat
  PROVE  /\ ReadValues(blocks, low, high) = WrittenValues(blocks, low, high)
         /\ blocks <= SkipCap =>
              SkipValues(blocks, low, 0) = WrittenValues(blocks, low, 0)
         /\ blocks > SkipCap =>
              SkipValues(blocks, low, high) < WrittenValues(blocks, low, high)
BY DEF ReadValues, SkipValues, WrittenValues, SkipCap

-----------------------------------------------------------------------------
\* What the client will hold of an object: its entry and pose, whether that pose is stale,
\* whether it will be lost to a stale pose, and whether its create block was read.
Entries == {"none", "stub", "full"}

Sound(x) ==
  /\ x.entry = "none" <=> x.pose = Nowhere
  /\ x.stale /\ x.entry # "none" => x.created
  /\ x.lost => x.created

Views ==
  {x \in [entry : Entries, pose : Poses \cup {Nowhere}, stale : BOOLEAN, lost : BOOLEAN,
          created : BOOLEAN] : Sound(x)}

Blank == [entry |-> "none", pose |-> Nowhere, stale |-> FALSE, lost |-> FALSE, created |-> FALSE]

\* The view after a block of an update packet ...
KeepsPose(x, b) == x.entry # "none" /\ b.pose.pos # x.pose.pos

AfterBlock(x, b) ==
  IF b.kind = "values" THEN x
  ELSE IF b.kind = "movement"
  THEN [entry |-> x.entry, pose |-> IF x.entry # "none" THEN b.pose ELSE x.pose,
        stale |-> FALSE, lost |-> x.lost, created |-> x.created]
  ELSE IF b.kind = "create"
  THEN [entry |-> "full", pose |-> IF KeepsPose(x, b) THEN x.pose ELSE b.pose,
        stale |-> IF x.entry = "none" THEN x.stale ELSE b.pose.pos = x.pose.pos,
        lost |-> FALSE, created |-> TRUE]
  ELSE Blank

\* ... which describes an object once, and changes only what it described.
FitsBlock(x, b) ==
  /\ b.kind \in {"values", "movement"} => x.created
  /\ b.kind = "create" => ~x.created /\ b.pose.pos = b.pose.to

\* The view after the blocks of a packet: at most one is of the object.
BlocksTo(o, x, bs, y) ==
  \/ (\A i \in DOMAIN bs : bs[i].guid # o) /\ y = x
  \/ \E i \in DOMAIN bs :
       /\ bs[i].guid = o
       /\ \A j \in DOMAIN bs : bs[j].guid = o => j = i
       /\ FitsBlock(x, bs[i])
       /\ y = AfterBlock(x, bs[i])

AfterMove(o, x, p) ==
  IF o \in Mobs \/ x.entry # "none"
  THEN [entry |-> IF x.entry = "none" THEN "stub" ELSE x.entry, pose |-> p, stale |-> FALSE,
        lost |-> x.lost, created |-> x.created]
  ELSE [entry |-> x.entry, pose |-> x.pose, stale |-> TRUE, lost |-> x.lost, created |-> x.created]

AfterTeleport(x, p) ==
  IF x.entry # "none" /\ Distance(x.pose.pos, p) > Keep
  THEN [entry |-> "none", pose |-> Nowhere, stale |-> FALSE, lost |-> x.lost \/ x.stale,
        created |-> x.created]
  ELSE x

\* The view after another packet.
AfterPacket(o, x, m) ==
  IF m.kind = "move" THEN IF m.guid = o THEN AfterMove(o, x, m.pose) ELSE x
  ELSE IF m.kind = "destroy" THEN IF m.guid = o THEN Blank ELSE x
  ELSE IF m.kind = "teleport" THEN AfterTeleport(x, m.to)
  ELSE Blank

PacketTo(o, x, m, y) ==
  IF m.kind = "update" THEN BlocksTo(o, x, m.blocks, y) ELSE y = AfterPacket(o, x, m)

\* The packets under way lead from one view to another.
LeadsTo(o, x, q, y) ==
  \E f \in [0 .. Len(q) -> Views] :
    /\ f[0] = x
    /\ \A i \in 1 .. Len(q) : PacketTo(o, f[i - 1], q[i], f[i])
    /\ f[Len(q)] = y

\* The view is what the server takes it to be: the object is b's create block away from
\* being described, stands at a or is on its way there ...
Near(o, x, b, a) ==
  IF x.created
  THEN /\ x.entry = "full"
       /\ o \in Mobs => Distance(x.pose.pos, a) <= Step
       /\ o \in Mobs /\ ~x.stale => x.pose.to = a
       /\ o \in Players /\ ~x.stale => x.pose.pos = a
  ELSE \/ x.entry = "none" /\ (a = b.pos \/ (o \in Players /\ x.stale))
       \/ /\ o \in Mobs /\ x.entry = "stub"
          /\ Distance(x.pose.pos, a) <= Step
          /\ x.pose.to = a

\* ... or it is left out of sight by the teleport to d, or by the one before.
Far(x, a, mv, st, d, m) ==
  \/ st \in {"sent", "acked"} /\ Distance(a, d) > Sight + (IF mv THEN 0 ELSE Step)
  \/ st = "none" /\ Distance(a, m) > Sight /\ (mv \/ (x.created /\ x.entry = "full"))

Told(o, x, sh, b, a, mv, st, d, m) ==
  IF sh
  THEN /\ x.created <=> b = Nowhere
       /\ x.lost \/ Near(o, x, b, a) \/ Far(x, a, mv, st, d, m)
  ELSE x = Blank

\* The client holds view x of the object, and y once the packet at hand is applied.  Of a
\* lost object it may hold anything, and it was described.
Held(x, y, e, p, s, l, f) ==
  /\ ~l => x.entry = e /\ x.pose = p /\ x.stale = s /\ ~x.lost
  /\ l => IF f = 0 THEN x.created ELSE y.created

Course(o, e, p, s, l, f, w, q, sh, b, a, mv, st, d, m) ==
  \E x \in Views, y \in Views, z \in Views :
    /\ Held(x, y, e, p, s, l, f)
    /\ BlocksTo(o, x, w, y)
    /\ LeadsTo(o, y, q, z)
    /\ Told(o, z, sh, b, a, mv, st, d, m)

Followed(o) ==
  Course(o, entry[o], pose[o], o \in stale, o \in lost, off, work, net,
         o \in shown, built[o], at[o], o \in moved, stage, dest, me)

\* The withdrawals of a packet come first, and what the client misparses is lost.
OutsFirst(bs) ==
  \A i \in DOMAIN bs, j \in DOMAIN bs : bs[i].kind = "out" /\ j < i => bs[j].kind = "out"

Laid(bs) == \A i \in DOMAIN bs : bs[i].kind \in {"create", "movement"} => bs[i].layout \in Written

PacketsOk ==
  /\ OutsFirst(work) /\ Laid(work)
  /\ \A i \in DOMAIN net : net[i].kind = "update" => OutsFirst(net[i].blocks) /\ Laid(net[i].blocks)
  /\ off # 0 => \A i \in DOMAIN work : work[i].guid \in lost /\ work[i].kind # "out"

\* At most one teleport is under way, sent and not acknowledged.
TeleportsOk ==
  /\ \A i \in DOMAIN net : net[i].kind = "teleport" => stage = "sent" /\ net[i].to = dest
  /\ \A i \in DOMAIN net, j \in DOMAIN net :
       net[i].kind = "teleport" /\ net[j].kind = "teleport" => i = j
  /\ stage # "none" => dest \in Homes

ServerOk ==
  /\ \A o \in shown : at[o] \in Places
  /\ \A o \in Objects \ shown : built[o] = Nowhere
  /\ \A o \in Objects : built[o] # Nowhere => built[o].pos = built[o].to

CacheInv ==
  /\ TypeOK /\ PacketsOk /\ TeleportsOk /\ ServerOk
  /\ \A o \in Objects : Followed(o)

-----------------------------------------------------------------------------
LEMMA ViewFields ==
  ASSUME NEW x \in Views
  PROVE  /\ x.entry \in Entries /\ x.pose \in Poses \cup {Nowhere}
         /\ x.stale \in BOOLEAN /\ x.lost \in BOOLEAN /\ x.created \in BOOLEAN
         /\ Sound(x)
         /\ x = [entry |-> x.entry, pose |-> x.pose, stale |-> x.stale, lost |-> x.lost, created |-> x.created]
BY DEF Views

LEMMA ViewMade ==
  ASSUME NEW e \in Entries, NEW p \in Poses \cup {Nowhere}, NEW s \in BOOLEAN, NEW l \in BOOLEAN,
         NEW c \in BOOLEAN, e = "none" <=> p = Nowhere, s /\ e # "none" => c, l => c
  PROVE  [entry |-> e, pose |-> p, stale |-> s, lost |-> l, created |-> c] \in Views
BY DEF Views, Sound

LEMMA BlankView == Blank \in Views
BY DEF Blank, Views, Sound, Entries

\* No pose is nowhere.
LEMMA PoseIsAPlace ==
  /\ Nowhere \notin Places /\ Nowhere \notin Poses
  /\ \A p \in Poses : p.pos \in Int /\ p.to \in Int /\ p.pos \in Places /\ p.to \in Places
  /\ \A p \in Places : Standing(p) \in Poses /\ Standing(p).pos = p /\ Standing(p).to = p /\ p \in Int
  /\ Homes \subseteq Int
BY PlaceAssumption DEF Poses, Standing

\* What the client makes of a block or a packet is again a view.
LEMMA BlockView ==
  ASSUME NEW x \in Views, NEW b, b.pose \in Poses, FitsBlock(x, b)
  PROVE  AfterBlock(x, b) \in Views
<1>1. Nowhere \notin Poses
  BY PoseIsAPlace
<1>2. CASE b.kind = "movement"
  <2> DEFINE p == IF x.entry # "none" THEN b.pose ELSE x.pose
  <2>1. p \in Poses \cup {Nowhere} /\ (x.entry = "none" <=> p = Nowhere)
    BY <1>1, ViewFields DEF Sound
  <2> HIDE DEF p
  <2>2. [entry |-> x.entry, pose |-> p, stale |-> FALSE, lost |-> x.lost, created |-> x.created] \in Views
    BY <2>1, ViewMade, ViewFields DEF Sound
  <2>3. QED
    BY <1>2, <2>2 DEF AfterBlock, p
<1>3. CASE b.kind = "create"
  <2> DEFINE p == IF KeepsPose(x, b) THEN x.pose ELSE b.pose
             s == IF x.entry = "none" THEN x.stale ELSE b.pose.pos = x.pose.pos
  <2>1. p \in Poses
    BY <1>1, ViewFields DEF Sound, KeepsPose
  <2>2. s \in BOOLEAN
    BY ViewFields
  <2> HIDE DEF p, s
  <2>3. p # Nowhere
    BY <1>1, <2>1
  <2>4. [entry |-> "full", pose |-> p, stale |-> s, lost |-> FALSE, created |-> TRUE] \in Views
    BY <2>1, <2>2, <2>3, ViewMade DEF Entries
  <2>5. QED
    BY <1>3, <2>4 DEF AfterBlock, p, s
<1>4. QED
  BY <1>2, <1>3, BlankView DEF AfterBlock

LEMMA MoveView ==
  ASSUME NEW o, NEW x \in Views, NEW p \in Poses
  PROVE  AfterMove(o, x, p) \in Views
<1>1. Nowhere \notin Poses
  BY PoseIsAPlace
<1>2. CASE o \in Mobs \/ x.entry # "none"
  <2> DEFINE e == IF x.entry = "none" THEN "stub" ELSE x.entry
  <2>1. e \in Entries /\ e # "none" /\ p # Nowhere
    BY <1>1, ViewFields DEF Entries
  <2> HIDE DEF e
  <2>2. [entry |-> e, pose |-> p, stale |-> FALSE, lost |-> x.lost, created |-> x.created] \in Views
    BY <2>1, ViewMade, ViewFields DEF Sound
  <2>3. QED
    BY <1>2, <2>2 DEF AfterMove, e
<1>3. CASE ~(o \in Mobs \/ x.entry # "none")
  <2>1. [entry |-> x.entry, pose |-> x.pose, stale |-> TRUE, lost |-> x.lost, created |-> x.created] \in Views
    BY <1>3, ViewMade, ViewFields DEF Sound
  <2>2. QED
    BY <1>3, <2>1 DEF AfterMove
<1>4. QED
  BY <1>2, <1>3

LEMMA TeleportView ==
  ASSUME NEW x \in Views, NEW p
  PROVE  AfterTeleport(x, p) \in Views
<1>1. CASE x.entry # "none" /\ Distance(x.pose.pos, p) > Keep
  <2> DEFINE l == x.lost \/ x.stale
  <2>1. l \in BOOLEAN /\ (l => x.created)
    BY <1>1, ViewFields DEF Sound
  <2> HIDE DEF l
  <2>2. [entry |-> "none", pose |-> Nowhere, stale |-> FALSE, lost |-> l, created |-> x.created] \in Views
    BY <2>1, ViewMade, ViewFields DEF Entries
  <2>3. QED
    BY <1>1, <2>2 DEF AfterTeleport, l
<1>2. CASE ~(x.entry # "none" /\ Distance(x.pose.pos, p) > Keep)
  BY <1>2 DEF AfterTeleport
<1>3. QED
  BY <1>1, <1>2

\* The packets, by kind.
LEMMA PacketKinds ==
  ASSUME NEW m \in Packets
  PROVE  /\ m.kind \in {"update", "move", "destroy", "teleport", "world"}
         /\ m.kind = "update" => m.blocks \in Seq(Blocks)
         /\ m.kind = "move" => m.guid \in Objects /\ m.pose \in Poses
         /\ m.kind = "destroy" => m.guid \in Objects
         /\ m.kind \in {"teleport", "world"} => m.to \in Homes
BY DEF Packets

LEMMA BlockKinds ==
  ASSUME NEW b \in Blocks
  PROVE  b.kind \in {"values", "movement", "create", "out"} /\ b.guid \in Objects /\ b.pose \in Poses
BY DEF Blocks

LEMMA PacketView ==
  ASSUME NEW o, NEW x \in Views, NEW m \in Packets, NEW y, PacketTo(o, x, m, y)
  PROVE  y \in Views
<1>1. CASE m.kind = "update"
  <2>1. CASE y = x
    BY <2>1
  <2>2. ASSUME NEW i \in DOMAIN m.blocks, FitsBlock(x, m.blocks[i]), y = AfterBlock(x, m.blocks[i])
        PROVE  y \in Views
    <3>1. m.blocks[i] \in Blocks
      BY <1>1, PacketKinds
    <3>2. QED
      BY <2>2, <3>1, BlockKinds, BlockView
  <2>3. QED
    BY <1>1, <2>1, <2>2 DEF PacketTo, BlocksTo
<1>2. CASE m.kind # "update"
  BY <1>2, PacketKinds, MoveView, TeleportView, BlankView DEF PacketTo, AfterPacket
<1>3. QED
  BY <1>1, <1>2

-----------------------------------------------------------------------------
(* The packets under way. *)

LEMMA PathNowhere ==
  ASSUME NEW o, NEW x \in Views
  PROVE  /\ LeadsTo(o, x, <<>>, x)
         /\ \A y : LeadsTo(o, x, <<>>, y) => y = x
<1>1. Len(<<>>) = 0 /\ \A i \in 1 .. Len(<<>>) : FALSE
  OBVIOUS
<1> DEFINE f == [i \in 0 .. 0 |-> x]
<1>2. f \in [0 .. Len(<<>>) -> Views] /\ f[0] = x /\ f[Len(<<>>)] = x
  BY <1>1
<1> HIDE DEF f
<1>3. LeadsTo(o, x, <<>>, x)
  BY <1>1, <1>2 DEF LeadsTo
<1>4. \A y : LeadsTo(o, x, <<>>, y) => y = x
  BY <1>1 DEF LeadsTo
<1>5. QED
  BY <1>3, <1>4

\* One more packet is sent.
LEMMA PathOn ==
  ASSUME NEW o, NEW x \in Views, NEW q \in Seq(Packets), NEW y \in Views, LeadsTo(o, x, q, y),
         NEW m \in Packets, NEW z \in Views, PacketTo(o, y, m, z)
  PROVE  LeadsTo(o, x, Append(q, m), z)
<1>1. PICK f \in [0 .. Len(q) -> Views] :
        /\ f[0] = x
        /\ \A i \in 1 .. Len(q) : PacketTo(o, f[i - 1], q[i], f[i])
        /\ f[Len(q)] = y
  BY DEF LeadsTo
<1>2. /\ Len(q) \in Nat /\ Len(Append(q, m)) = Len(q) + 1
      /\ \A i \in 1 .. Len(q) : Append(q, m)[i] = q[i]
      /\ Append(q, m)[Len(q) + 1] = m
  BY AppendProperties
<1> DEFINE n == Len(q)
           g == [i \in 0 .. n + 1 |-> IF i <= n THEN f[i] ELSE z]
           r == Append(q, m)
<1>3. g \in [0 .. n + 1 -> Views] /\ g[0] = x /\ g[n + 1] = z
  BY <1>1, <1>2
<1>4. ASSUME NEW i \in 1 .. n + 1 PROVE PacketTo(o, g[i - 1], r[i], g[i])
  <2>1. CASE i <= n
    <3>1. g[i - 1] = f[i - 1] /\ g[i] = f[i] /\ r[i] = q[i] /\ i \in 1 .. n
      BY <1>2, <2>1
    <3>2. QED
      BY <1>1, <3>1
  <2>2. CASE i = n + 1
    <3>1. g[i - 1] = y /\ g[i] = z /\ r[i] = m
      BY <1>1, <1>2, <2>2
    <3>2. QED
      BY <3>1
  <2>3. QED
    BY <1>2, <2>1, <2>2
<1>5. Len(r) = n + 1
  BY <1>2
<1> HIDE DEF g, r, n
<1>6. QED
  BY <1>3, <1>4, <1>5 DEF LeadsTo, r

\* The first packet is read.
LEMMA PathFirst ==
  ASSUME NEW o, NEW x \in Views, NEW q \in Seq(Packets), q # <<>>, NEW y, LeadsTo(o, x, q, y)
  PROVE  \E z \in Views : PacketTo(o, x, Head(q), z) /\ LeadsTo(o, z, Tail(q), y)
<1>1. PICK f \in [0 .. Len(q) -> Views] :
        /\ f[0] = x
        /\ \A i \in 1 .. Len(q) : PacketTo(o, f[i - 1], q[i], f[i])
        /\ f[Len(q)] = y
  BY DEF LeadsTo
<1>2. /\ Len(q) \in Nat \ {0} /\ Head(q) = q[1] /\ Len(Tail(q)) = Len(q) - 1
      /\ \A i \in 1 .. Len(q) - 1 : Tail(q)[i] = q[i + 1]
  BY HeadTailProperties, EmptySeq
<1> DEFINE n == Len(q) - 1
           g == [i \in 0 .. n |-> f[i + 1]]
           r == Tail(q)
<1>3. g \in [0 .. n -> Views] /\ g[0] = f[1] /\ g[n] = y
  BY <1>1, <1>2
<1>4. ASSUME NEW i \in 1 .. n PROVE PacketTo(o, g[i - 1], r[i], g[i])
  <2>1. g[i - 1] = f[i] /\ g[i] = f[i + 1] /\ r[i] = q[i + 1] /\ i + 1 \in 1 .. Len(q) /\ (i + 1) - 1 = i
    BY <1>2
  <2>2. QED
    BY <1>1, <2>1
<1>5. PacketTo(o, x, Head(q), f[1]) /\ f[1] \in Views
  <2>1. 1 \in 1 .. Len(q) /\ 1 - 1 = 0 /\ 1 \in 0 .. Len(q)
    BY <1>2
  <2>2. PacketTo(o, f[1 - 1], q[1], f[1])
    BY <1>1, <2>1
  <2>3. QED
    BY <1>1, <1>2, <2>1, <2>2
<1>6. Len(r) = n
  BY <1>2
<1> HIDE DEF g, r, n
<1>7. LeadsTo(o, f[1], r, y)
  BY <1>3, <1>4, <1>6 DEF LeadsTo
<1>8. QED
  BY <1>5, <1>7 DEF r

\* One block of a packet is applied.
LEMMA BlocksFirst ==
  ASSUME NEW o, NEW x, NEW bs \in Seq(Blocks), bs # <<>>, NEW y, BlocksTo(o, x, bs, y)
  PROVE  /\ Head(bs).guid = o =>
              /\ FitsBlock(x, Head(bs)) /\ y = AfterBlock(x, Head(bs))
              /\ BlocksTo(o, y, Tail(bs), y)
              /\ \A i \in DOMAIN Tail(bs) : Tail(bs)[i].guid # o
         /\ Head(bs).guid # o => BlocksTo(o, x, Tail(bs), y)
<1> DEFINE r == Tail(bs)
<1>1. /\ Len(bs) \in Nat \ {0} /\ Head(bs) = bs[1] /\ Len(r) = Len(bs) - 1
      /\ DOMAIN bs = 1 .. Len(bs) /\ DOMAIN r = 1 .. Len(bs) - 1
      /\ \A i \in 1 .. Len(bs) - 1 : r[i] = bs[i + 1]
  BY HeadTailProperties, EmptySeq, LenProperties
<1> HIDE DEF r
<1>2. CASE \A i \in DOMAIN bs : bs[i].guid # o
  BY <1>1, <1>2 DEF BlocksTo, r
<1>3. ASSUME NEW i \in DOMAIN bs, bs[i].guid = o, \A j \in DOMAIN bs : bs[j].guid = o => j = i,
             FitsBlock(x, bs[i]), y = AfterBlock(x, bs[i])
      PROVE  /\ Head(bs).guid = o =>
                  /\ FitsBlock(x, Head(bs)) /\ y = AfterBlock(x, Head(bs))
                  /\ BlocksTo(o, y, r, y)
                  /\ \A k \in DOMAIN r : r[k].guid # o
             /\ Head(bs).guid # o => BlocksTo(o, x, r, y)
  <2>1. CASE i = 1
    <3>1. \A k \in DOMAIN r : r[k].guid # o
      BY <1>1, <1>3, <2>1
    <3>2. QED
      BY <1>1, <1>3, <2>1, <3>1 DEF BlocksTo
  <2>2. CASE i # 1
    <3>1. i - 1 \in DOMAIN r /\ r[i - 1] = bs[i]
      BY <1>1, <2>2
    <3>2. \A j \in DOMAIN r : r[j].guid = o => j = i - 1
      BY <1>1, <1>3, <2>2
    <3>3. Head(bs).guid # o
      BY <1>1, <1>3, <2>2
    <3>4. QED
      BY <1>3, <3>1, <3>2, <3>3 DEF BlocksTo
  <2>3. QED
    BY <2>1, <2>2
<1>4. QED
  BY <1>2, <1>3 DEF BlocksTo, r

-----------------------------------------------------------------------------
(* The view at the end of the packets under way, after each of the server's steps. *)

LEMMA DistanceIs ==
  ASSUME NEW p \in Int, NEW q \in Int
  PROVE  /\ Distance(p, q) \in Nat /\ Distance(p, q) = Distance(q, p)
         /\ Distance(p, q) = 0 <=> p = q
         /\ \A r \in Int : Distance(p, r) <= Distance(p, q) + Distance(q, r)
BY DEF Distance

LEMMA Sizes ==
  /\ Sight \in Nat /\ Keep \in Nat /\ Step \in Nat /\ Sight + 2 * Step <= Keep
BY DistanceAssumption

LEMMA BlankTold ==
  ASSUME NEW o, NEW b, NEW a, NEW mv, NEW st, NEW d, NEW m
  PROVE  Told(o, Blank, FALSE, b, a, mv, st, d, m)
BY DEF Told

\* Its create block is built.
LEMMA BuildTold ==
  ASSUME NEW o, NEW p \in Places, NEW mv, NEW st, NEW d, NEW m
  PROVE  Told(o, Blank, TRUE, Standing(p), p, mv, st, d, m)
<1>1. Standing(p) # Nowhere /\ Standing(p).pos = p
  BY PoseIsAPlace
<1>2. QED
  BY <1>1 DEF Told, Near, Blank

\* It moves.
LEMMA MoveTold ==
  ASSUME NEW o \in Objects, NEW x \in Views, NEW b, NEW a \in Places, NEW mv \in BOOLEAN,
         NEW st \in {"none", "due", "sent", "acked"}, NEW d, st # "none" => d \in Int, NEW m \in Int,
         Told(o, x, TRUE, b, a, mv, st, d, m), ~mv,
         NEW p \in Places, Distance(p, a) <= Step, NEW r \in Poses,
         r = [pos |-> IF o \in Mobs THEN a ELSE p, to |-> p]
  PROVE  Told(o, AfterMove(o, x, r), TRUE, b, p, IF st = "none" THEN mv ELSE TRUE, st, d, m)
<1> DEFINE y == AfterMove(o, x, r)
<1>1. r.to = p /\ (o \in Mobs => r.pos = a) /\ (o \in Players => r.pos = p)
  BY ObjectAssumption
<1>2. a \in Int /\ p \in Int
  BY PoseIsAPlace
<1>3. y.created = x.created /\ y.lost = x.lost
  BY DEF AfterMove
<1>4. Distance(r.pos, p) <= Step \/ o \in Players
  BY <1>1, <1>2, DistanceIs, Sizes DEF Objects
<1>5. CASE x.lost
  BY <1>3, <1>5 DEF Told
<1>6. CASE o \in Mobs \/ x.entry # "none"
  <2>1. /\ y.pose = r /\ ~y.stale
        /\ y.entry = IF x.entry = "none" THEN "stub" ELSE x.entry
    BY <1>6 DEF AfterMove
  <2>2. CASE Near(o, x, b, a)
    <3>1. o \in Mobs => Distance(y.pose.pos, p) <= Step
      BY <1>1, <1>4, <2>1, ObjectAssumption
    <3>2. CASE x.created
      <4>1. x.entry = "full"
        BY <2>2, <3>2 DEF Near
      <4>2. Near(o, y, b, p)
        BY <1>1, <1>3, <2>1, <3>1, <3>2, <4>1 DEF Near
      <4>3. QED
        BY <1>3, <4>2 DEF Told
    <3>3. CASE ~x.created
      <4>1. o \in Mobs /\ x.entry \in {"none", "stub"}
        BY <1>6, <2>2, <3>3 DEF Near
      <4>2. Near(o, y, b, p)
        BY <1>1, <1>3, <2>1, <3>1, <3>3, <4>1 DEF Near
      <4>3. QED
        BY <1>3, <4>2 DEF Told
    <3>4. QED
      BY <3>2, <3>3
  <2>3. CASE Far(x, a, mv, st, d, m)
    <3>1. CASE st = "none"
      <4>1. x.created /\ x.entry = "full"
        BY <2>3, <3>1 DEF Far
      <4>2. Near(o, y, b, p)
        BY <1>1, <1>3, <2>1, <1>4, <4>1, ObjectAssumption DEF Near
      <4>3. QED
        BY <1>3, <4>2 DEF Told
    <3>2. CASE st # "none"
      <4>1. Distance(a, d) > Sight + Step /\ st \in {"sent", "acked"}
        BY <2>3, <3>2 DEF Far
      <4>2. Distance(p, d) > Sight
        <5>1. d \in Int /\ Distance(a, d) <= Distance(a, p) + Distance(p, d) /\ Distance(a, p) = Distance(p, a)
              /\ Distance(a, d) \in Nat /\ Distance(a, p) \in Nat /\ Distance(p, d) \in Nat
          BY <1>2, <3>2, DistanceIs
        <5>2. QED
          BY <4>1, <5>1, Sizes
      <4>3. Far(y, p, TRUE, st, d, m)
        BY <4>1, <4>2, Sizes DEF Far
      <4>4. QED
        BY <1>3, <3>2, <4>3 DEF Told
    <3>3. QED
      BY <3>1, <3>2
  <2>4. QED
    BY <1>5, <2>2, <2>3 DEF Told
<1>7. CASE ~(o \in Mobs \/ x.entry # "none")
  <2>1. y.entry = "none" /\ y.pose = x.pose /\ y.stale /\ o \in Players
    BY <1>7 DEF AfterMove, Objects
  <2>2. CASE Near(o, x, b, a)
    <3>1. ~x.created
      BY <1>7, <2>2 DEF Near
    <3>2. Near(o, y, b, p)
      BY <1>3, <2>1, <3>1 DEF Near
    <3>3. QED
      BY <1>3, <3>2 DEF Told
  <2>3. CASE Far(x, a, mv, st, d, m)
    <3>1. Distance(a, d) > Sight + Step /\ st \in {"sent", "acked"}
      BY <1>7, <2>3 DEF Far
    <3>2. Distance(p, d) > Sight
      <4>1. d \in Int /\ Distance(a, d) <= Distance(a, p) + Distance(p, d) /\ Distance(a, p) = Distance(p, a)
            /\ Distance(a, d) \in Nat /\ Distance(a, p) \in Nat /\ Distance(p, d) \in Nat
        BY <1>2, <3>1, DistanceIs
      <4>2. QED
        BY <3>1, <4>1, Sizes
    <3>3. Far(y, p, TRUE, st, d, m)
      BY <3>1, <3>2, Sizes DEF Far
    <3>4. QED
      BY <1>3, <3>1, <3>3 DEF Told
  <2>4. QED
    BY <1>5, <2>2, <2>3 DEF Told
<1>8. QED
  BY <1>6, <1>7

\* Its create block is sent.
LEMMA CreateTold ==
  ASSUME NEW o \in Objects, NEW x \in Views, NEW b \in Poses, b.pos = b.to, NEW a \in Places, NEW mv \in BOOLEAN,
         NEW st, st # "acked", NEW d, NEW m,
         Told(o, x, TRUE, b, a, mv, st, d, m), NEW c, c.kind = "create", c.pose = b
  PROVE  /\ FitsBlock(x, c)
         /\ Told(o, AfterBlock(x, c), TRUE, Nowhere, a, IF st = "none" THEN FALSE ELSE mv, st, d, m)
<1> DEFINE y == AfterBlock(x, c)
<1>1. b # Nowhere
  BY PoseIsAPlace
<1>2. ~x.created /\ ~x.lost
  BY <1>1, ViewFields DEF Told, Sound
<1>3. FitsBlock(x, c)
  BY <1>2 DEF FitsBlock
<1>4. /\ y.entry = "full" /\ y.created /\ ~y.lost
      /\ y.pose = IF KeepsPose(x, c) THEN x.pose ELSE b
      /\ y.stale = IF x.entry = "none" THEN x.stale ELSE b.pos = x.pose.pos
  BY DEF AfterBlock
<1>5. CASE Near(o, x, b, a)
  <2>1. CASE x.entry = "none"
    <3>1. y.pose = b /\ y.stale = x.stale
      BY <1>4, <2>1 DEF KeepsPose
    <3>2. CASE a = b.pos
      <4>1. Distance(y.pose.pos, a) <= Step
        BY <3>1, <3>2, PoseIsAPlace, DistanceIs, Sizes
      <4>2. Near(o, y, Nowhere, a)
        BY <1>4, <3>1, <3>2, <4>1 DEF Near
      <4>3. QED
        BY <1>3, <1>4, <4>2 DEF Told
    <3>3. CASE o \in Players /\ x.stale
      <4>1. Near(o, y, Nowhere, a)
        BY <1>4, <3>1, <3>3, ObjectAssumption DEF Near
      <4>2. QED
        BY <1>3, <1>4, <4>1 DEF Told
    <3>4. QED
      BY <1>2, <1>5, <2>1, <3>2, <3>3 DEF Near
  <2>2. CASE x.entry # "none"
    <3>1. o \in Mobs /\ Distance(x.pose.pos, a) <= Step /\ x.pose.to = a
      BY <1>2, <1>5, <2>2 DEF Near
    <3>2. CASE b.pos # x.pose.pos
      <4>1. y.pose = x.pose
        BY <1>4, <2>2, <3>2 DEF KeepsPose
      <4>2. Near(o, y, Nowhere, a)
        BY <1>4, <3>1, <4>1, ObjectAssumption DEF Near
      <4>3. QED
        BY <1>3, <1>4, <4>2 DEF Told
    <3>3. CASE b.pos = x.pose.pos
      <4>1. y.pose = b /\ y.stale = TRUE
        BY <1>4, <2>2, <3>3 DEF KeepsPose
      <4>2. Near(o, y, Nowhere, a)
        BY <1>4, <3>1, <3>3, <4>1, ObjectAssumption DEF Near
      <4>3. QED
        BY <1>3, <1>4, <4>2 DEF Told
    <3>4. QED
      BY <3>2, <3>3
  <2>3. QED
    BY <2>1, <2>2
<1>6. CASE Far(x, a, mv, st, d, m)
  <2>1. Far(y, a, IF st = "none" THEN FALSE ELSE mv, st, d, m)
    BY <1>4, <1>6 DEF Far
  <2>2. QED
    BY <1>3, <1>4, <2>1 DEF Told
<1>7. QED
  BY <1>2, <1>5, <1>6 DEF Told

\* A block of what changed is sent: its position, or its fields.
LEMMA ChangeTold ==
  ASSUME NEW o \in Objects, NEW x \in Views, NEW a \in Places, NEW mv \in BOOLEAN,
         NEW st \in {"none", "due", "sent"}, NEW d, NEW m,
         Told(o, x, TRUE, Nowhere, a, mv, st, d, m), st = "none" => Distance(a, m) <= Sight,
         Distance(a, m) \in Nat
  PROVE  \A c : c.kind \in {"values", "movement"} /\ c.pose = Standing(a) =>
                /\ FitsBlock(x, c)
                /\ Told(o, AfterBlock(x, c), TRUE, Nowhere, a, IF st = "none" THEN FALSE ELSE mv, st, d, m)
<1> TAKE c
<1> HAVE c.kind \in {"values", "movement"} /\ c.pose = Standing(a)
<1> DEFINE y == AfterBlock(x, c)
<1>1. x.created /\ FitsBlock(x, c)
  BY DEF Told, FitsBlock
<1>2. c.pose.pos = a /\ c.pose.to = a /\ a \in Int
  BY PoseIsAPlace
<1>3. CASE x.lost
  BY <1>1, <1>3 DEF Told, AfterBlock
<1>4. CASE Near(o, x, Nowhere, a)
  <2>1. x.entry = "full"
    BY <1>1, <1>4 DEF Near
  <2>2. CASE c.kind = "values"
    <3>1. y = x
      BY <2>2 DEF AfterBlock
    <3>2. QED
      BY <1>1, <1>4, <3>1 DEF Told
  <2>3. CASE c.kind = "movement"
    <3>1. y.entry = "full" /\ y.pose = c.pose /\ ~y.stale /\ y.created /\ y.lost = x.lost
      BY <1>1, <2>1, <2>3 DEF AfterBlock
    <3>2. Distance(y.pose.pos, a) <= Step
      <4>1. y.pose.pos = a
        BY <1>2, <3>1
      <4>2. Distance(a, a) = 0
        BY <1>2, DistanceIs
      <4>3. QED
        BY <4>1, <4>2, Sizes
    <3>3. Near(o, y, Nowhere, a)
      BY <1>2, <3>1, <3>2 DEF Near
    <3>4. QED
      BY <1>1, <3>1, <3>3 DEF Told
  <2>4. QED
    BY <2>2, <2>3
<1>5. CASE Far(x, a, mv, st, d, m)
  <2>1. st # "none"
    BY <1>5, Sizes DEF Far
  <2>2. y.created /\ Far(y, a, mv, st, d, m)
    BY <1>1, <1>5, <2>1 DEF Far, AfterBlock
  <2>3. QED
    BY <1>1, <2>1, <2>2 DEF Told
<1>6. QED
  BY <1>1, <1>3, <1>4, <1>5 DEF Told

\* A tick without a block of it: it is in sight, or it would have left.
LEMMA TickTold ==
  ASSUME NEW o \in Objects, NEW x \in Views, NEW b, NEW a \in Places, NEW mv \in BOOLEAN,
         NEW st \in {"none", "due", "sent"}, NEW d, NEW m,
         Told(o, x, TRUE, b, a, mv, st, d, m), st = "none" => Distance(a, m) <= Sight,
         Distance(a, m) \in Nat
  PROVE  Told(o, x, TRUE, b, a, IF st = "none" THEN FALSE ELSE mv, st, d, m)
BY Sizes DEF Told, Far

\* A teleport is decided, while all that is shown is in sight.
LEMMA DecideTold ==
  ASSUME NEW o, NEW x, NEW sh \in BOOLEAN, NEW b, NEW a, NEW mv, NEW d, NEW m, NEW d2,
         Told(o, x, sh, b, a, mv, "none", d, m), sh => Distance(a, m) <= Sight /\ Distance(a, m) \in Nat
  PROVE  Told(o, x, sh, b, a, FALSE, "due", d2, m)
BY Sizes DEF Told, Far

\* The teleport is sent.
LEMMA TeleportTold ==
  ASSUME NEW o \in Objects, NEW x \in Views, NEW sh \in BOOLEAN, NEW b, NEW a, sh => a \in Places,
         NEW mv \in BOOLEAN, NEW d \in Int, NEW m, Told(o, x, sh, b, a, mv, "due", d, m)
  PROVE  Told(o, AfterTeleport(x, d), sh, b, a, mv, "sent", d, m)
<1> DEFINE y == AfterTeleport(x, d)
<1>1. CASE ~sh
  <2>1. y = Blank
    BY <1>1 DEF Told, AfterTeleport, Blank
  <2>2. QED
    BY <1>1, <2>1 DEF Told
<1>2. CASE sh /\ ~(x.entry # "none" /\ Distance(x.pose.pos, d) > Keep)
  <2>1. y = x
    BY <1>2 DEF AfterTeleport
  <2>2. QED
    BY <1>2, <2>1 DEF Told, Far
<1>3. CASE sh /\ x.entry # "none" /\ Distance(x.pose.pos, d) > Keep
  <2>1. y.created = x.created /\ y.lost = (x.lost \/ x.stale)
    BY <1>3 DEF AfterTeleport
  <2>2. (x.created <=> b = Nowhere) /\ (x.lost \/ Near(o, x, b, a))
    BY <1>3 DEF Told, Far
  <2>3. CASE x.lost \/ x.stale
    BY <1>3, <2>1, <2>2, <2>3 DEF Told
  <2>4. CASE ~(x.lost \/ x.stale)
    <3>1. x.pose \in Poses
      BY <1>3, ViewFields DEF Sound
    <3>2. x.pose.pos \in Int /\ a \in Int
      BY <1>3, <3>1, PoseIsAPlace
    <3>3. Distance(x.pose.pos, a) <= Step
      <4>1. CASE o \in Mobs
        BY <1>3, <2>2, <2>4, <4>1 DEF Near
      <4>2. CASE o \in Players
        <5>1. x.pose.pos = a
          BY <1>3, <2>2, <2>4, <4>2, ObjectAssumption DEF Near
        <5>2. QED
          BY <3>2, <5>1, DistanceIs, Sizes
      <4>3. QED
        BY <4>1, <4>2 DEF Objects
    <3>4. Distance(a, d) > Sight + Step
      <4>1. /\ Distance(x.pose.pos, d) <= Distance(x.pose.pos, a) + Distance(a, d)
            /\ Distance(x.pose.pos, d) \in Nat /\ Distance(x.pose.pos, a) \in Nat /\ Distance(a, d) \in Nat
        BY <3>2, DistanceIs
      <4>2. QED
        BY <1>3, <3>3, <4>1, Sizes
    <3>5. Far(y, a, mv, "sent", d, m)
      <4>1. Distance(a, d) \in Nat
        BY <3>2, DistanceIs
      <4>2. QED
        BY <3>4, <4>1, Sizes DEF Far
    <3>6. QED
      BY <1>3, <2>1, <2>2, <3>5 DEF Told
  <2>5. QED
    BY <2>3, <2>4
<1>4. QED
  BY <1>1, <1>2, <1>3

\* The client has read it ...
LEMMA ReadTold ==
  ASSUME NEW o, NEW x, NEW sh, NEW b, NEW a, NEW mv, NEW d, NEW m, Told(o, x, sh, b, a, mv, "sent", d, m)
  PROVE  Told(o, x, sh, b, a, mv, "acked", d, m)
BY DEF Told, Far

\* ... and the server its answer.
LEMMA AckTold ==
  ASSUME NEW o, NEW x, NEW sh \in BOOLEAN, NEW b, NEW a, sh => a \in Int, NEW mv, NEW d \in Int, NEW m, NEW d2,
         Told(o, x, sh, b, a, mv, "acked", d, m)
  PROVE  Told(o, x, sh, b, a, sh /\ Distance(a, d) > Sight, "none", d2, d)
<1>1. CASE sh /\ Far(x, a, mv, "acked", d, m)
  <2>1. Distance(a, d) \in Nat
    BY <1>1, DistanceIs
  <2>2. Distance(a, d) > Sight
    BY <1>1, <2>1, Sizes DEF Far
  <2>3. Far(x, a, sh /\ Distance(a, d) > Sight, "none", d2, d)
    BY <1>1, <2>2 DEF Far
  <2>4. QED
    BY <1>1, <2>3 DEF Told
<1>2. CASE ~(sh /\ Far(x, a, mv, "acked", d, m))
  BY <1>2 DEF Told
<1>3. QED
  BY <1>1, <1>2

\* The server has the character arrive.
LEMMA ArriveTold ==
  ASSUME NEW o, NEW x, NEW sh, NEW b, NEW a, NEW mv, NEW st, st # "none", NEW d, NEW m, NEW m2,
         Told(o, x, sh, b, a, mv, st, d, m)
  PROVE  Told(o, x, sh, b, a, mv, st, d, m2)
BY DEF Told, Far

-----------------------------------------------------------------------------
(* The blocks of an update packet. *)

\* A permutation of a finite set holds each of its elements once.
LEMMA OrdersOf ==
  ASSUME NEW S, IsFiniteSet(S), NEW f \in [1 .. Cardinality(S) -> S],
         \A i \in 1 .. Cardinality(S), j \in 1 .. Cardinality(S) : i # j => f[i] # f[j]
  PROVE  /\ f \in Seq(S) /\ Len(f) = Cardinality(S)
         /\ \A e \in S : \E i \in DOMAIN f : f[i] = e
<1> DEFINE n == Cardinality(S)
<1>1. n \in Nat
  BY FS_CardinalityType
<1>2. f \in Injection(1 .. n, S)
  BY DEF Injection, IsInjective
<1>3. Cardinality(1 .. n) = n
  BY <1>1, FS_Interval
<1>4. f \in Surjection(1 .. n, S)
  BY <1>2, <1>3, FS_Injection
<1>5. \A e \in S : \E i \in 1 .. n : f[i] = e
  BY <1>4 DEF Surjection
<1> HIDE DEF n
<1>6. f \in Seq(S) /\ Len(f) = n
  BY <1>1 DEF n
<1>7. QED
  BY <1>5, <1>6 DEF n

LEMMA OrderOf ==
  ASSUME NEW S, IsFiniteSet(S)
  PROVE  LET s == SetToSeq(S)
         IN  /\ s \in Seq(S)
             /\ \A e \in S : \E i \in DOMAIN s : s[i] = e
             /\ \A i \in DOMAIN s, j \in DOMAIN s : i # j => s[i] # s[j]
<1> DEFINE n == Cardinality(S)
<1>1. n \in Nat /\ ExistsBijection(1 .. n, S)
  BY FS_CardinalityType
<1>2. \E f \in [1 .. n -> S] : IsInjective(f)
  BY <1>1 DEF ExistsBijection, Bijection, Injection
<1>3. SetToSeq(S) \in [1 .. n -> S] /\ IsInjective(SetToSeq(S))
  BY <1>2 DEF SetToSeq
<1> DEFINE s == SetToSeq(S)
<1> HIDE DEF s
<1>4. s \in [1 .. n -> S] /\ \A i \in 1 .. n, j \in 1 .. n : i # j => s[i] # s[j]
  BY <1>3 DEF s, IsInjective
<1>5. s \in Seq(S) /\ Len(s) = n /\ \A e \in S : \E i \in DOMAIN s : s[i] = e
  BY <1>4, OrdersOf
<1>6. QED
  BY <1>4, <1>5 DEF s

\* The withdrawals in front of the other blocks: each once.
LEMMA UpdateBlocks ==
  ASSUME NEW S, NEW T, IsFiniteSet(S), IsFiniteSet(T), S \cap T = {}, S \cup T \subseteq Blocks,
         NEW r \in SetToSeqs(T)
  PROVE  LET bs == SetToSeq(S) \o r
         IN  /\ bs \in Seq(Blocks)
             /\ \A i \in DOMAIN bs : bs[i] \in S \cup T
             /\ \A i \in DOMAIN bs, j \in DOMAIN bs : bs[i] \in S /\ j < i => bs[j] \in S
             /\ \A e \in S \cup T : \E i \in DOMAIN bs : bs[i] = e
             /\ \A i \in DOMAIN bs, j \in DOMAIN bs : bs[i] = bs[j] => i = j
<1> DEFINE s == SetToSeq(S)
<1>1. /\ s \in Seq(S)
      /\ \A e \in S : \E i \in DOMAIN s : s[i] = e
      /\ \A i \in DOMAIN s, j \in DOMAIN s : i # j => s[i] # s[j]
  BY OrderOf
<1>2. /\ r \in Seq(T)
      /\ \A e \in T : \E i \in DOMAIN r : r[i] = e
      /\ \A i \in DOMAIN r, j \in DOMAIN r : i # j => r[i] # r[j]
  <2>1. r \in [1 .. Cardinality(T) -> T] /\ \A i, j \in 1 .. Cardinality(T) : i # j => r[i] # r[j]
    BY DEF SetToSeqs
  <2>2. QED
    BY <2>1, OrdersOf
<1> HIDE DEF s
<1>3. s \in Seq(Blocks) /\ r \in Seq(Blocks)
  BY <1>1, <1>2, SeqMonotonic
<1> DEFINE bs == s \o r
           k == Len(s)
<1>4. /\ k \in Nat /\ Len(r) \in Nat /\ DOMAIN s = 1 .. k /\ DOMAIN r = 1 .. Len(r)
      /\ \A i \in 1 .. k : s[i] \in S
      /\ \A i \in 1 .. Len(r) : r[i] \in T
  BY <1>1, <1>2, LenProperties
<1>5. /\ bs \in Seq(Blocks) /\ DOMAIN bs = 1 .. k + Len(r)
      /\ \A i \in 1 .. k : bs[i] = s[i]
      /\ \A i \in 1 .. Len(r) : bs[k + i] = r[i]
  <2>1. /\ bs \in Seq(Blocks) /\ Len(bs) = k + Len(r)
        /\ \A i \in 1 .. k + Len(r) : bs[i] = IF i <= k THEN s[i] ELSE r[i - k]
    BY <1>3, ConcatProperties
  <2>2. DOMAIN bs = 1 .. Len(bs)
    BY <2>1, LenProperties
  <2> HIDE DEF bs, k
  <2>3. \A i \in 1 .. k : bs[i] = s[i]
    BY <1>4, <2>1
  <2>4. ASSUME NEW i \in 1 .. Len(r) PROVE bs[k + i] = r[i]
    <3>1. k + i \in 1 .. k + Len(r) /\ ~(k + i <= k) /\ (k + i) - k = i
      BY <1>4
    <3>2. QED
      BY <2>1, <3>1
  <2>5. QED
    BY <2>1, <2>2, <2>3, <2>4
<1> HIDE DEF bs, k
<1>6. \A i \in DOMAIN bs : \/ i \in 1 .. k /\ bs[i] = s[i] /\ bs[i] \in S
                           \/ i - k \in 1 .. Len(r) /\ bs[i] = r[i - k] /\ bs[i] \in T /\ i > k
  <2> TAKE i \in DOMAIN bs
  <2>1. CASE i <= k
    BY <1>4, <1>5, <2>1
  <2>2. CASE i > k
    <3>1. i - k \in 1 .. Len(r) /\ k + (i - k) = i
      BY <1>4, <1>5, <2>2
    <3>2. QED
      BY <1>4, <1>5, <2>2, <3>1
  <2>3. QED
    BY <1>4, <1>5, <2>1, <2>2
<1>7. ASSUME NEW e \in S \cup T PROVE \E i \in DOMAIN bs : bs[i] = e
  <2>1. CASE e \in S
    <3>1. PICK i \in 1 .. k : s[i] = e
      BY <1>1, <1>4, <2>1
    <3>2. i \in DOMAIN bs
      BY <1>4, <1>5
    <3>3. QED
      BY <1>5, <3>1, <3>2
  <2>2. CASE e \in T
    <3>1. PICK i \in 1 .. Len(r) : r[i] = e
      BY <1>2, <1>4, <2>2
    <3>2. k + i \in DOMAIN bs
      BY <1>4, <1>5
    <3>3. QED
      BY <1>5, <3>1, <3>2
  <2>3. QED
    BY <2>1, <2>2
<1>8. ASSUME NEW i \in DOMAIN bs, NEW j \in DOMAIN bs, bs[i] = bs[j] PROVE i = j
  <2>1. CASE bs[i] \in S
    <3>1. i \in 1 .. k /\ j \in 1 .. k /\ s[i] = s[j]
      BY <1>6, <1>8, <2>1
    <3>2. QED
      BY <1>1, <1>4, <3>1
  <2>2. CASE bs[i] \in T
    <3>1. i - k \in 1 .. Len(r) /\ j - k \in 1 .. Len(r) /\ r[i - k] = r[j - k]
      BY <1>6, <1>8, <2>2
    <3>2. i - k = j - k
      BY <1>2, <1>4, <3>1
    <3>3. QED
      BY <1>4, <1>5, <3>2
  <2>3. QED
    BY <1>6, <2>1, <2>2
<1>9. ASSUME NEW i \in DOMAIN bs, NEW j \in DOMAIN bs, bs[i] \in S, j < i PROVE bs[j] \in S
  <2>1. i \in 1 .. k
    BY <1>6, <1>9
  <2>2. j \in 1 .. k
    BY <1>4, <1>5, <1>9, <2>1
  <2>3. QED
    BY <1>4, <1>5, <2>2
<1>10. QED
  BY <1>5, <1>6, <1>7, <1>8, <1>9 DEF bs, s

-----------------------------------------------------------------------------
(* The server's steps. *)

\* Its step tells the client nothing ...
LEMMA Stays ==
  ASSUME NEW o, NEW e, NEW p, NEW s, NEW l, NEW f, NEW w, NEW q,
         NEW sh, NEW b, NEW a, NEW mv, NEW st, NEW d, NEW m,
         NEW sh2, NEW b2, NEW a2, NEW mv2, NEW st2, NEW d2, NEW m2,
         Course(o, e, p, s, l, f, w, q, sh, b, a, mv, st, d, m),
         \A z \in Views : Told(o, z, sh, b, a, mv, st, d, m) => Told(o, z, sh2, b2, a2, mv2, st2, d2, m2)
  PROVE  Course(o, e, p, s, l, f, w, q, sh2, b2, a2, mv2, st2, d2, m2)
<1>1. PICK x \in Views, y \in Views, z \in Views :
        Held(x, y, e, p, s, l, f) /\ BlocksTo(o, x, w, y) /\ LeadsTo(o, y, q, z)
          /\ Told(o, z, sh, b, a, mv, st, d, m)
  BY DEF Course
<1>2. Told(o, z, sh2, b2, a2, mv2, st2, d2, m2)
  BY <1>1
<1>3. QED
  BY <1>1, <1>2 DEF Course

\* ... or sends it a packet.
LEMMA Sends ==
  ASSUME NEW o, NEW e, NEW p, NEW s, NEW l, NEW f, NEW w, NEW q \in Seq(Packets),
         NEW sh, NEW b, NEW a, NEW mv, NEW st, NEW d, NEW m,
         NEW sh2, NEW b2, NEW a2, NEW mv2, NEW st2, NEW d2, NEW m2, NEW k \in Packets,
         Course(o, e, p, s, l, f, w, q, sh, b, a, mv, st, d, m),
         \A z \in Views : Told(o, z, sh, b, a, mv, st, d, m) =>
           \E y : PacketTo(o, z, k, y) /\ Told(o, y, sh2, b2, a2, mv2, st2, d2, m2)
  PROVE  Course(o, e, p, s, l, f, w, Append(q, k), sh2, b2, a2, mv2, st2, d2, m2)
<1>1. PICK x \in Views, y \in Views, z \in Views :
        Held(x, y, e, p, s, l, f) /\ BlocksTo(o, x, w, y) /\ LeadsTo(o, y, q, z)
          /\ Told(o, z, sh, b, a, mv, st, d, m)
  BY DEF Course
<1>2. PICK u : PacketTo(o, z, k, u) /\ Told(o, u, sh2, b2, a2, mv2, st2, d2, m2)
  BY <1>1
<1>3. u \in Views
  BY <1>2, PacketView
<1>4. LeadsTo(o, y, Append(q, k), u)
  BY <1>1, <1>2, <1>3, PathOn
<1>5. QED
  BY <1>1, <1>2, <1>3, <1>4 DEF Course

\* A step that leaves an object alone.
LEMMA Same ==
  ASSUME NEW o \in Objects, Followed(o),
         UNCHANGED <<cacheVars, work, off, lost, stale, net, stage, dest, me>>,
         built'[o] = built[o], at'[o] = at[o], (o \in shown') = (o \in shown), (o \in moved') = (o \in moved)
  PROVE  Followed(o)'
BY DEF Followed, cacheVars

\* An object comes into sight: nothing was held of it, and its create block is due.
LEMMA BuildFollowed ==
  ASSUME CacheInv, NEW o \in Objects, ServerStep, NEW q \in Objects, ServerBuild(q)
  PROVE  Followed(o)'
<1>1. UNCHANGED <<cacheVars, work, off, lost, stale, net, stage, dest, me, moved>>
  BY DEF ServerStep, ServerBuild
<1>2. PICK p \in Places : at' = [at EXCEPT ![q] = p] /\ built' = [built EXCEPT ![q] = Standing(p)]
  BY DEF ServerBuild
<1>3. q \notin shown /\ shown' = shown \cup {q}
  BY DEF ServerBuild
<1>4. Followed(o) /\ TypeOK
  BY DEF CacheInv
<1>5. at'[o] = (IF o = q THEN p ELSE at[o]) /\ built'[o] = (IF o = q THEN Standing(p) ELSE built[o])
  BY <1>2, <1>4 DEF TypeOK
<1>6. CASE o # q
  BY <1>1, <1>3, <1>4, <1>5, <1>6, Same
<1>7. CASE o = q
  <2>1. \A z \in Views :
          Told(o, z, o \in shown, built[o], at[o], o \in moved, stage, dest, me) =>
          Told(o, z, TRUE, Standing(p), p, o \in moved, stage, dest, me)
    <3>1. Told(o, Blank, TRUE, Standing(p), p, o \in moved, stage, dest, me)
      BY BuildTold
    <3>2. QED
      BY <1>3, <1>7, <3>1 DEF Told
  <2>2. Course(o, entry[o], pose[o], o \in stale, o \in lost, off, work, net,
               TRUE, Standing(p), p, o \in moved, stage, dest, me)
    <3> HIDE DEF Told
    <3>1. QED
      BY <1>4, <2>1, Stays DEF Followed
  <2>3. (o \in shown') = TRUE /\ built'[o] = Standing(p) /\ at'[o] = p
    BY <1>3, <1>5, <1>7
  <2>4. QED
    BY <1>1, <2>2, <2>3 DEF Followed, cacheVars
<1>8. QED
  BY <1>6, <1>7

\* A move is sent: the object's pose or place follows it.
LEMMA MoveFollowed ==
  ASSUME CacheInv, NEW o \in Objects, ServerStep, NEW q \in Objects, NEW p \in Places, ServerMove(q, p)
  PROVE  Followed(o)'
<1> DEFINE r == [pos |-> IF q \in Mobs THEN at[q] ELSE p, to |-> p]
           k == [kind |-> "move", guid |-> q, pose |-> r]
<1>1. UNCHANGED <<cacheVars, work, off, lost, stale, stage, dest, me, shown, built>>
  BY DEF ServerStep, ServerMove
<1>2. /\ q \in shown /\ q \notin moved /\ Distance(p, at[q]) <= Step
      /\ moved' = (IF stage = "none" THEN moved ELSE moved \cup {q})
      /\ at' = [at EXCEPT ![q] = p]
      /\ net' = Append(net, k)
  BY DEF ServerMove, Send
<1>3. Followed(o) /\ TypeOK /\ at[q] \in Places /\ net \in Seq(Packets)
  BY <1>2 DEF CacheInv, ServerOk, TypeOK
<1>4. r \in Poses
  BY <1>3 DEF Poses
<1>5. k \in Packets
  BY <1>4 DEF Packets
<1>6. k.kind = "move" /\ k.guid = q /\ k.pose = r
  OBVIOUS
<1>7. r = [pos |-> IF q \in Mobs THEN at[q] ELSE p, to |-> p]
  OBVIOUS
<1> HIDE DEF k, r
<1> DEFINE sh == o \in shown
           mv == o \in moved
           mv2 == o \in moved'
           a2 == IF o = q THEN p ELSE at[o]
<1>8. at'[o] = a2
  BY <1>2, <1>3 DEF TypeOK
<1>9. ASSUME NEW z \in Views, Told(o, z, sh, built[o], at[o], mv, stage, dest, me)
      PROVE  \E y : PacketTo(o, z, k, y) /\ Told(o, y, sh, built[o], a2, mv2, stage, dest, me)
  <2>1. CASE o # q
    <3>1. mv2 = mv
      BY <1>2, <2>1
    <3>2. PacketTo(o, z, k, z)
      BY <1>6, <2>1 DEF PacketTo, AfterPacket
    <3>3. QED
      BY <1>9, <2>1, <3>1, <3>2
  <2>2. CASE o = q
    <3> DEFINE y == AfterMove(o, z, r)
    <3>1. PacketTo(o, z, k, y)
      BY <1>6, <2>2 DEF PacketTo, AfterPacket
    <3>2. sh = TRUE /\ mv2 = (IF stage = "none" THEN mv ELSE TRUE)
      BY <1>2, <2>2
    <3>3. stage \in {"none", "due", "sent", "acked"} /\ (stage # "none" => dest \in Int) /\ me \in Int /\ ~mv
      BY <1>2, <1>3, <2>2, PoseIsAPlace DEF CacheInv, TeleportsOk, TypeOK
    <3>4. Told(o, z, TRUE, built[o], at[q], mv, stage, dest, me)
      BY <1>9, <2>2, <3>2
    <3>5. r = [pos |-> IF o \in Mobs THEN at[q] ELSE p, to |-> p]
      BY <1>7, <2>2
    <3> HIDE DEF y, mv2, sh
    <3>6. Told(o, AfterMove(o, z, r), TRUE, built[o], p, IF stage = "none" THEN mv ELSE TRUE, stage, dest, me)
      <4> DEFINE b == built[o]
                 a == at[q]
      <4> HIDE DEF b, a
      <4>1. Told(o, z, TRUE, b, a, mv, stage, dest, me)
        BY <3>4 DEF a, b
      <4>2. a \in Places /\ Distance(p, a) <= Step /\ r = [pos |-> IF o \in Mobs THEN a ELSE p, to |-> p]
        BY <1>2, <1>3, <3>5 DEF a
      <4>3. mv \in BOOLEAN
        OBVIOUS
      <4> HIDE DEF mv
      <4>4. Told(o, AfterMove(o, z, r), TRUE, b, p, IF stage = "none" THEN mv ELSE TRUE, stage, dest, me)
        BY <1>4, <3>3, <4>1, <4>2, <4>3, MoveTold
      <4>5. QED
        BY <4>4 DEF b
    <3>7. a2 = p
      BY <2>2
    <3>8. QED
      BY <3>1, <3>2, <3>6, <3>7 DEF y
  <2>3. QED
    BY <2>1, <2>2
<1> HIDE DEF sh, mv, mv2, a2
<1>10. Course(o, entry[o], pose[o], o \in stale, o \in lost, off, work, net,
              sh, built[o], at[o], mv, stage, dest, me)
  BY <1>3 DEF Followed, sh, mv
<1>11. Course(o, entry[o], pose[o], o \in stale, o \in lost, off, work, Append(net, k),
              sh, built[o], a2, mv2, stage, dest, me)
  BY <1>3, <1>5, <1>9, <1>10, Sends
<1>12. QED
  BY <1>1, <1>2, <1>8, <1>11 DEF Followed, cacheVars, sh, mv2

\* A shown object is destroyed.
LEMMA DestroyFollowed ==
  ASSUME CacheInv, NEW o \in Objects, ServerStep, NEW q \in Objects, ServerDestroy(q)
  PROVE  Followed(o)'
<1> DEFINE k == [kind |-> "destroy", guid |-> q]
<1>1. UNCHANGED <<cacheVars, work, off, lost, stale, stage, dest, me, built>>
  BY DEF ServerStep, ServerDestroy
<1>2. /\ shown' = shown \ {q} /\ at' = [at EXCEPT ![q] = Nowhere] /\ net' = Append(net, k)
      /\ moved' = (IF stage = "none" THEN moved \ {q} ELSE moved)
  BY DEF ServerDestroy, Send
<1>3. Followed(o) /\ TypeOK /\ net \in Seq(Packets)
  BY DEF CacheInv, TypeOK
<1>4. k \in Packets /\ k.kind = "destroy" /\ k.guid = q
  BY DEF Packets
<1> HIDE DEF k
<1>5. ASSUME NEW z \in Views, Told(o, z, o \in shown, built[o], at[o], o \in moved, stage, dest, me)
      PROVE  \E y : PacketTo(o, z, k, y) /\ Told(o, y, o \in shown', built[o], at'[o], o \in moved', stage, dest, me)
  <2>1. CASE o # q
    <3>1. (o \in moved') = (o \in moved) /\ (o \in shown') = (o \in shown) /\ at'[o] = at[o]
      BY <1>2, <1>3, <2>1 DEF TypeOK
    <3>2. PacketTo(o, z, k, z)
      BY <1>4, <2>1 DEF PacketTo, AfterPacket
    <3> DEFINE sh2 == o \in shown'
               mv2 == o \in moved'
               a2 == at'[o]
    <3>3. Told(o, z, sh2, built[o], a2, mv2, stage, dest, me)
      BY <1>5, <3>1
    <3>4. QED
      BY <3>2, <3>3
  <2>2. CASE o = q
    <3>1. PacketTo(o, z, k, Blank)
      BY <1>4, <2>2 DEF PacketTo, AfterPacket
    <3>2. (o \in shown') = FALSE
      BY <1>2, <2>2
    <3> DEFINE sh2 == o \in shown'
               mv2 == o \in moved'
               a2 == at'[o]
    <3>3. Told(o, Blank, sh2, built[o], a2, mv2, stage, dest, me)
      BY <3>2 DEF Told
    <3>4. QED
      BY <3>1, <3>3
  <2>3. QED
    BY <2>1, <2>2
<1>6. Course(o, entry[o], pose[o], o \in stale, o \in lost, off, work, Append(net, k),
             o \in shown', built[o], at'[o], o \in moved', stage, dest, me)
  BY <1>3, <1>4, <1>5, Sends DEF Followed
<1>7. QED
  BY <1>1, <1>2, <1>6 DEF Followed, cacheVars

\* The actions that tell the client nothing: a step that keeps what is told of the object.
LEMMA QuietFollowed ==
  ASSUME NEW o \in Objects, Followed(o),
         UNCHANGED <<cacheVars, work, off, lost, stale, net, shown, built, at>>,
         NEW mv, mv = (o \in moved'),
         \A z \in Views : Told(o, z, o \in shown, built[o], at[o], o \in moved, stage, dest, me) =>
                          Told(o, z, o \in shown, built[o], at[o], mv, stage', dest', me')
  PROVE  Followed(o)'
<1>1. Course(o, entry[o], pose[o], o \in stale, o \in lost, off, work, net,
             o \in shown, built[o], at[o], mv, stage', dest', me')
  BY Stays DEF Followed
<1>2. QED
  BY <1>1 DEF Followed, cacheVars

\* A teleport is decided ...
LEMMA DecideFollowed ==
  ASSUME CacheInv, NEW o \in Objects, ServerStep, NEW p \in Homes, ServerTeleport(p)
  PROVE  Followed(o)'
<1>1. UNCHANGED <<cacheVars, work, off, lost, stale, net, shown, built, at, me>>
  BY DEF ServerStep, ServerTeleport
<1>2. stage = "none" /\ stage' = "due" /\ moved' = {} /\ \A e \in shown : Distance(at[e], me) <= Sight
  BY DEF ServerTeleport, InSight
<1>3. Followed(o) /\ TypeOK /\ ServerOk
  BY DEF CacheInv
<1>4. o \in shown => Distance(at[o], me) <= Sight /\ Distance(at[o], me) \in Nat
  BY <1>2, <1>3, PoseIsAPlace, DistanceIs DEF TypeOK, ServerOk
<1>5. (o \in moved') = FALSE /\ (o \in shown) \in BOOLEAN
  BY <1>2
<1>6. ASSUME NEW z \in Views, Told(o, z, o \in shown, built[o], at[o], o \in moved, stage, dest, me)
      PROVE  Told(o, z, o \in shown, built[o], at[o], FALSE, stage', dest', me')
  <2> DEFINE sh == o \in shown
             mv == o \in moved
  <2>1. sh \in BOOLEAN
    OBVIOUS
  <2>2. Told(o, z, sh, built[o], at[o], mv, "none", dest, me)
    BY <1>2, <1>6
  <2>3. sh => Distance(at[o], me) <= Sight /\ Distance(at[o], me) \in Nat
    BY <1>4
  <2> HIDE DEF sh, mv
  <2>4. Told(o, z, sh, built[o], at[o], FALSE, "due", dest', me)
    BY <2>1, <2>2, <2>3, DecideTold
  <2>5. QED
    BY <1>1, <1>2, <2>4 DEF sh
<1>7. QED
  BY <1>1, <1>3, <1>5, <1>6, QuietFollowed

\* ... takes effect ...
LEMMA ArriveFollowed ==
  ASSUME CacheInv, NEW o \in Objects, ServerStep, ServerRelocate
  PROVE  Followed(o)'
<1>1. UNCHANGED <<cacheVars, work, off, lost, stale, net, shown, built, at, dest, stage, moved>> /\ stage # "none"
  BY DEF ServerStep, ServerRelocate
<1>2. Followed(o)
  BY DEF CacheInv
<1>3. \A z \in Views : Told(o, z, o \in shown, built[o], at[o], o \in moved, stage, dest, me) =>
                       Told(o, z, o \in shown, built[o], at[o], o \in moved, stage', dest', me')
  BY <1>1, ArriveTold
<1>4. (o \in moved) = (o \in moved')
  BY <1>1
<1>5. QED
  BY <1>1, <1>2, <1>3, <1>4, QuietFollowed

\* ... is acknowledged ...
LEMMA AckFollowed ==
  ASSUME CacheInv, NEW o \in Objects, ServerStep, ServerAck
  PROVE  Followed(o)'
<1>1. UNCHANGED <<cacheVars, work, off, lost, stale, net, shown, built, at>>
  BY DEF ServerStep, ServerAck
<1>2. /\ stage = "acked" /\ stage' = "none" /\ me' = dest
      /\ moved' = {e \in shown : Distance(at[e], dest) > Sight}
  BY DEF ServerAck
<1>3. Followed(o) /\ TypeOK /\ dest \in Int /\ (o \in shown => at[o] \in Int)
  BY <1>2, PoseIsAPlace DEF CacheInv, TeleportsOk, ServerOk
<1> DEFINE sh == o \in shown
           mv == o \in moved
           mv2 == sh /\ Distance(at[o], dest) > Sight
<1>4. mv2 = (o \in moved')
  BY <1>2
<1>5. ASSUME NEW z \in Views, Told(o, z, sh, built[o], at[o], mv, stage, dest, me)
      PROVE  Told(o, z, sh, built[o], at[o], mv2, stage', dest', me')
  <2>1. sh \in BOOLEAN
    OBVIOUS
  <2>2. Told(o, z, sh, built[o], at[o], mv, "acked", dest, me)
    BY <1>2, <1>5
  <2>3. sh => at[o] \in Int
    BY <1>3
  <2> HIDE DEF sh, mv
  <2>4. Told(o, z, sh, built[o], at[o], sh /\ Distance(at[o], dest) > Sight, "none", dest', dest)
    BY <1>3, <2>1, <2>2, <2>3, AckTold
  <2>5. QED
    BY <1>2, <2>4
<1>6. QED
  BY <1>1, <1>3, <1>4, <1>5, QuietFollowed

\* ... and is sent: what it prunes is so far away that the server withdraws it.
LEMMA TeleportFollowed ==
  ASSUME CacheInv, NEW o \in Objects, ServerStep, ServerTeleportSend
  PROVE  Followed(o)'
<1> DEFINE k == [kind |-> "teleport", to |-> dest]
           sh == o \in shown
           mv == o \in moved
<1>1. UNCHANGED <<cacheVars, work, off, lost, stale, at, me, dest, moved, shown, built>>
  BY DEF ServerStep, ServerTeleportSend
<1>2. stage = "due" /\ stage' = "sent" /\ net' = Append(net, k)
  BY DEF ServerTeleportSend, Send
<1>3. Followed(o) /\ net \in Seq(Packets) /\ dest \in Homes /\ dest \in Int /\ (sh => at[o] \in Places)
  BY <1>2, PoseIsAPlace DEF CacheInv, TypeOK, TeleportsOk, ServerOk
<1>4. k \in Packets /\ k.kind = "teleport" /\ k.to = dest
  BY <1>3 DEF Packets
<1>5. sh \in BOOLEAN /\ mv \in BOOLEAN
  OBVIOUS
<1>6. Course(o, entry[o], pose[o], o \in stale, o \in lost, off, work, net,
             sh, built[o], at[o], mv, stage, dest, me)
  BY <1>3 DEF Followed
<1> HIDE DEF k, sh, mv
<1>7. ASSUME NEW z \in Views, Told(o, z, sh, built[o], at[o], mv, stage, dest, me)
      PROVE  \E y : PacketTo(o, z, k, y) /\ Told(o, y, sh, built[o], at[o], mv, "sent", dest, me)
  <2>1. PacketTo(o, z, k, AfterTeleport(z, dest))
    BY <1>4 DEF PacketTo, AfterPacket
  <2>2. Told(o, z, sh, built[o], at[o], mv, "due", dest, me)
    BY <1>2, <1>7
  <2>3. Told(o, AfterTeleport(z, dest), sh, built[o], at[o], mv, "sent", dest, me)
    <3> DEFINE b == built[o]
               a == at[o]
    <3>1. Told(o, z, sh, b, a, mv, "due", dest, me) /\ (sh => a \in Places)
      BY <1>3, <2>2
    <3> HIDE DEF a, b
    <3>2. Told(o, AfterTeleport(z, dest), sh, b, a, mv, "sent", dest, me)
      BY <1>3, <1>5, <3>1, TeleportTold
    <3>3. QED
      BY <3>2 DEF a, b
  <2>4. QED
    BY <2>1, <2>3
<1>8. Course(o, entry[o], pose[o], o \in stale, o \in lost, off, work, Append(net, k),
             sh, built[o], at[o], mv, "sent", dest, me)
  BY <1>3, <1>4, <1>6, <1>7, Sends
<1>9. QED
  BY <1>1, <1>2, <1>8 DEF Followed, cacheVars, sh, mv

\* A change of map leaves nothing.
LEMMA WorldFollowed ==
  ASSUME CacheInv, NEW o \in Objects, ServerStep, NEW p \in Homes, ServerNewWorld(p)
  PROVE  Followed(o)'
<1> DEFINE k == [kind |-> "world", to |-> p]
<1>1. UNCHANGED <<cacheVars, work, off, lost, stale, dest, stage>>
  BY DEF ServerStep, ServerNewWorld
<1>2. net' = Append(net, k) /\ shown' = {}
  BY DEF ServerNewWorld, Send
<1>3. Followed(o) /\ net \in Seq(Packets)
  BY DEF CacheInv, TypeOK
<1>4. k \in Packets /\ k.kind = "world"
  BY DEF Packets
<1> HIDE DEF k
<1>5. \A z \in Views :
        /\ PacketTo(o, z, k, Blank)
        /\ Told(o, Blank, FALSE, built'[o], at'[o], o \in moved', stage, dest, me')
  BY <1>4 DEF PacketTo, AfterPacket, Told
<1>6. Course(o, entry[o], pose[o], o \in stale, o \in lost, off, work, Append(net, k),
             FALSE, built'[o], at'[o], o \in moved', stage, dest, me')
  BY <1>3, <1>4, <1>5, Sends DEF Followed
<1>7. (o \in shown') = FALSE
  BY <1>2
<1>8. QED
  BY <1>1, <1>2, <1>6, <1>7 DEF Followed, cacheVars

\* A set of blocks with one of each object at most is finite.
LEMMA FinitelyMany ==
  ASSUME NEW B \in SUBSET Blocks, \A b \in B, c \in B : b.guid = c.guid => b = c
  PROVE  IsFiniteSet(B)
<1> DEFINE f == [b \in B |-> b.guid]
<1>1. f \in [B -> Objects]
  BY BlockKinds
<1>2. f \in Injection(B, Objects)
  BY <1>1 DEF Injection, IsInjective
<1>3. QED
  BY <1>2, FS_Injection, ObjectAssumption

\* The only block of an object.
Sole(o, bs, i) == bs[i].guid = o /\ \A j \in DOMAIN bs : bs[j].guid = o => j = i

Leaving == {o \in shown \ Waiting : ~InSight(at[o])}

\* What the update packet of a tick holds.
LEMMA UpdateSent ==
  ASSUME CacheInv, ServerUpdate
  PROVE  \E bs \in Seq(Blocks) :
           /\ net' = Append(net, [kind |-> "update", blocks |-> bs])
           /\ OutsFirst(bs) /\ Laid(bs)
           /\ \A o \in Leaving : \E i \in DOMAIN bs : Sole(o, bs, i) /\ bs[i].kind = "out"
           /\ \A o \in Waiting : \E i \in DOMAIN bs :
                Sole(o, bs, i) /\ bs[i].kind = "create" /\ bs[i].pose = built[o]
           /\ \A o \in (shown \ Leaving) \ Waiting :
                \/ \A i \in DOMAIN bs : bs[i].guid # o
                \/ \E i \in DOMAIN bs :
                     Sole(o, bs, i) /\ bs[i].kind \in {"values", "movement"} /\ bs[i].pose = Standing(at[o])
           /\ \A o \in Objects \ (shown \cup Waiting) : \A i \in DOMAIN bs : bs[i].guid # o
<1> DEFINE here == (shown \ Leaving) \ Waiting
           Of(kind, o, p, l) == [kind |-> kind, guid |-> o, pose |-> p, layout |-> l]
           outs == {Of("out", o, Standing(at[o]), NoLayout) : o \in Leaving}
           creates(l) == {Of("create", o, built[o], l) : o \in Waiting}
           changes(kind, l, C) == {Of(kind, o, Standing(at[o]), IF kind = "movement" THEN l ELSE NoLayout) : o \in C}
<1>1. PICK C \in {{}} \cup {{o} : o \in here}, kind \in {"values", "movement"}, l \in Written :
        \E r \in SetToSeqs(creates(l) \cup changes(kind, l, C)) :
          net' = Append(net, [kind |-> "update", blocks |-> SetToSeq(outs) \o r])
  BY DEF ServerUpdate, Send, Leaving
<1> DEFINE S == outs
           T == creates(l) \cup changes(kind, l, C)
<1>2. PICK r \in SetToSeqs(T) : net' = Append(net, [kind |-> "update", blocks |-> SetToSeq(S) \o r])
  BY <1>1
<1>3. C \subseteq here
  BY <1>1
<1>4. TypeOK /\ ServerOk
  BY DEF CacheInv
<1>5. Leaving \subseteq shown /\ Waiting \subseteq Objects /\ here \subseteq shown /\ shown \subseteq Objects
      /\ Leaving \cap Waiting = {} /\ here \cap Leaving = {} /\ here \cap Waiting = {}
  BY <1>4 DEF Leaving, Waiting, TypeOK
<1>6. /\ \A o \in Leaving \cup here : Standing(at[o]) \in Poses
      /\ \A o \in Waiting : built[o] \in Poses
  BY <1>4, <1>5, PoseIsAPlace DEF ServerOk, TypeOK, Waiting
<1>7. \A e \in S : e \in Blocks /\ e.kind = "out" /\ e.guid \in Leaving
  BY <1>5, <1>6 DEF Blocks
<1>8. \A e \in creates(l) : /\ e \in Blocks /\ e.kind = "create" /\ e.guid \in Waiting /\ e.pose = built[e.guid]
                            /\ e.layout = l
  BY <1>5, <1>6 DEF Blocks
<1>9. \A e \in changes(kind, l, C) : /\ e \in Blocks /\ e.kind = kind /\ e.guid \in C /\ e.pose = Standing(at[e.guid])
                                     /\ (kind = "movement" => e.layout = l)
  <2>1. \A o \in C : Standing(at[o]) \in Poses /\ o \in Objects
    BY <1>3, <1>5, <1>6
  <2>2. (IF kind = "movement" THEN l ELSE NoLayout) \in Written \cup {NoLayout}
    OBVIOUS
  <2>3. QED
    BY <2>1, <2>2 DEF Blocks
<1>10. ASSUME NEW o \in Leaving PROVE \E e \in S : e.guid = o
  <2> DEFINE e == Of("out", o, Standing(at[o]), NoLayout)
  <2>1. e \in S /\ e.guid = o
    OBVIOUS
  <2> HIDE DEF e, outs
  <2>2. QED
    BY <2>1
<1>11. ASSUME NEW o \in Waiting PROVE \E e \in creates(l) : e.guid = o
  <2> DEFINE e == Of("create", o, built[o], l)
  <2>1. e \in creates(l) /\ e.guid = o
    OBVIOUS
  <2> HIDE DEF e, creates
  <2>2. QED
    BY <2>1
<1>12. \A e \in S \cup T, d \in S \cup T : e.guid = d.guid => e = d
  <2>1. \A e \in S, d \in S : e.guid = d.guid => e = d
    OBVIOUS
  <2>2. \A e \in creates(l), d \in creates(l) : e.guid = d.guid => e = d
    OBVIOUS
  <2>3. \A e \in changes(kind, l, C), d \in changes(kind, l, C) : e.guid = d.guid => e = d
    OBVIOUS
  <2> HIDE DEF outs, creates, changes, here
  <2>4. QED
    BY <1>3, <1>5, <1>7, <1>8, <1>9, <2>1, <2>2, <2>3
<1>13. S \cup T \subseteq Blocks /\ S \cap T = {}
  <2> HIDE DEF outs, creates, changes, here
  <2>1. QED
    BY <1>3, <1>5, <1>7, <1>8, <1>9
<1>14. IsFiniteSet(S) /\ IsFiniteSet(T)
  <2> HIDE DEF outs, creates, changes, here
  <2>1. S \in SUBSET Blocks /\ T \in SUBSET Blocks
    BY <1>13
  <2>2. QED
    BY <1>12, <2>1, FinitelyMany
<1> DEFINE bs == SetToSeq(S) \o r
<1>15. /\ bs \in Seq(Blocks)
       /\ \A i \in DOMAIN bs : bs[i] \in S \cup T
       /\ \A i \in DOMAIN bs, j \in DOMAIN bs : bs[i] \in S /\ j < i => bs[j] \in S
       /\ \A e \in S \cup T : \E i \in DOMAIN bs : bs[i] = e
       /\ \A i \in DOMAIN bs, j \in DOMAIN bs : bs[i] = bs[j] => i = j
  <2> HIDE DEF outs, creates, changes, here, T
  <2>1. QED
    BY <1>13, <1>14, UpdateBlocks
<1>16. net' = Append(net, [kind |-> "update", blocks |-> bs])
  BY <1>2
<1> HIDE DEF bs, outs, creates, changes, here
<1>17. \A i \in DOMAIN bs : bs[i] \in S => Sole(bs[i].guid, bs, i)
  BY <1>12, <1>15 DEF Sole
<1>18. \A i \in DOMAIN bs : Sole(bs[i].guid, bs, i)
  BY <1>12, <1>15 DEF Sole
<1>19. OutsFirst(bs)
  BY <1>7, <1>8, <1>9, <1>15 DEF OutsFirst
<1>20. Laid(bs)
  BY <1>7, <1>8, <1>9, <1>15 DEF Laid
<1>21. ASSUME NEW o \in Leaving PROVE \E i \in DOMAIN bs : Sole(o, bs, i) /\ bs[i].kind = "out"
  BY <1>7, <1>10, <1>15, <1>18
<1>22. ASSUME NEW o \in Waiting
       PROVE  \E i \in DOMAIN bs : Sole(o, bs, i) /\ bs[i].kind = "create" /\ bs[i].pose = built[o]
  BY <1>8, <1>11, <1>15, <1>18
<1>23. ASSUME NEW o \in here, ~(\A i \in DOMAIN bs : bs[i].guid # o)
       PROVE  \E i \in DOMAIN bs :
                Sole(o, bs, i) /\ bs[i].kind \in {"values", "movement"} /\ bs[i].pose = Standing(at[o])
  <2>1. PICK i \in DOMAIN bs : bs[i].guid = o
    BY <1>23
  <2>2. bs[i] \in changes(kind, l, C)
    BY <1>5, <1>7, <1>8, <1>15, <1>23, <2>1
  <2>3. QED
    BY <1>9, <1>18, <2>1, <2>2
<1>24. ASSUME NEW o \in Objects \ (shown \cup Waiting) PROVE \A i \in DOMAIN bs : bs[i].guid # o
  BY <1>3, <1>5, <1>7, <1>8, <1>9, <1>15
<1>25. QED
  BY <1>15, <1>16, <1>19, <1>20, <1>21, <1>22, <1>23, <1>24 DEF here

\* A packet with a single block of the object.
LEMMA OneBlock ==
  ASSUME NEW o, NEW z, NEW bs, NEW i \in DOMAIN bs, Sole(o, bs, i), FitsBlock(z, bs[i]),
         NEW k, k = [kind |-> "update", blocks |-> bs]
  PROVE  PacketTo(o, z, k, AfterBlock(z, bs[i]))
BY DEF Sole, PacketTo, BlocksTo

\* The update packet of a tick: the object leaves, is described, changes, or is not in it.
LEMMA UpdateFollowed ==
  ASSUME CacheInv, NEW o \in Objects, ServerStep, ServerUpdate
  PROVE  Followed(o)'
<1> DEFINE sh == o \in shown
           mv == o \in moved
           mv2 == IF stage = "none" THEN FALSE ELSE mv
           b == built[o]
           a == at[o]
           sh2 == o \in shown /\ o \notin Leaving
           a2 == IF o \in Leaving THEN Nowhere ELSE a
<1>1. UNCHANGED <<cacheVars, work, off, lost, stale, me, dest, stage>>
  BY DEF ServerStep, ServerUpdate
<1>2. /\ stage # "acked"
      /\ shown' = shown \ Leaving
      /\ at' = [e \in Objects |-> IF e \in Leaving THEN Nowhere ELSE at[e]]
      /\ built' = [e \in Objects |-> Nowhere]
      /\ moved' = (IF stage = "none" THEN {} ELSE moved)
  BY DEF ServerUpdate, Leaving
<1>3. /\ (o \in shown') = sh2 /\ at'[o] = a2 /\ built'[o] = Nowhere /\ (o \in moved') = mv2
  <2>1. (o \in shown') = sh2
    BY <1>2
  <2>2. at'[o] = a2 /\ built'[o] = Nowhere
    <3>1. at'[o] = IF o \in Leaving THEN Nowhere ELSE at[o]
      BY <1>2
    <3>2. built'[o] = Nowhere
      BY <1>2
    <3>3. QED
      BY <3>1, <3>2
  <2>3. (o \in moved') = mv2
    <3>1. CASE stage = "none"
      <4>1. (o \in moved') = FALSE
        BY <1>2, <3>1
      <4>2. mv2 = FALSE
        BY <3>1
      <4>3. QED
        BY <4>1, <4>2
    <3>2. CASE stage # "none"
      <4>1. (o \in moved') = mv
        BY <1>2, <3>2
      <4> HIDE DEF mv
      <4>2. mv2 = mv
        BY <3>2
      <4>3. QED
        BY <4>1, <4>2
    <3>3. QED
      BY <3>1, <3>2
  <2>4. QED
    BY <2>1, <2>2, <2>3
<1>4. PICK bs \in Seq(Blocks) :
        /\ net' = Append(net, [kind |-> "update", blocks |-> bs])
        /\ \A e \in Leaving : \E i \in DOMAIN bs : Sole(e, bs, i) /\ bs[i].kind = "out"
        /\ \A e \in Waiting : \E i \in DOMAIN bs :
             Sole(e, bs, i) /\ bs[i].kind = "create" /\ bs[i].pose = built[e]
        /\ \A e \in (shown \ Leaving) \ Waiting :
             \/ \A i \in DOMAIN bs : bs[i].guid # e
             \/ \E i \in DOMAIN bs :
                  Sole(e, bs, i) /\ bs[i].kind \in {"values", "movement"} /\ bs[i].pose = Standing(at[e])
        /\ \A e \in Objects \ (shown \cup Waiting) : \A i \in DOMAIN bs : bs[i].guid # e
  BY UpdateSent
<1>5. TypeOK /\ ServerOk /\ Followed(o)
  BY DEF CacheInv
<1> DEFINE k == [kind |-> "update", blocks |-> bs]
<1>6. k \in Packets /\ k.kind = "update" /\ k.blocks = bs /\ net' = Append(net, k) /\ net \in Seq(Packets)
  BY <1>4, <1>5 DEF Packets, TypeOK
<1>7. k = [kind |-> "update", blocks |-> bs]
  OBVIOUS
<1>8. /\ sh \in BOOLEAN /\ mv \in BOOLEAN /\ stage \in {"none", "due", "sent"}
      /\ (sh => a \in Places /\ Distance(a, me) \in Nat)
      /\ (b # Nowhere => sh /\ b \in Poses /\ b.pos = b.to)
  <2>1. sh \in BOOLEAN /\ mv \in BOOLEAN
    OBVIOUS
  <2>2. stage \in {"none", "due", "sent"}
    BY <1>2, <1>5 DEF TypeOK
  <2>3. sh => a \in Places /\ Distance(a, me) \in Nat
    BY <1>5, PoseIsAPlace, DistanceIs DEF ServerOk, TypeOK
  <2>4. b # Nowhere => sh /\ b \in Poses /\ b.pos = b.to
    BY <1>5 DEF ServerOk, TypeOK
  <2>5. QED
    BY <2>1, <2>2, <2>3, <2>4
<1>9. (o \in Leaving) = (sh /\ b = Nowhere /\ ~(Distance(a, me) <= Sight)) /\ (o \in Waiting) = (b # Nowhere)
  BY DEF Leaving, Waiting, InSight
<1> HIDE DEF k
<1>10. ASSUME NEW z \in Views, Told(o, z, sh, b, a, mv, stage, dest, me)
       PROVE  \E y : PacketTo(o, z, k, y) /\ Told(o, y, sh2, Nowhere, a2, mv2, stage, dest, me)
  <2>1. CASE o \in Leaving
    <3>1. PICK i \in DOMAIN bs : Sole(o, bs, i) /\ bs[i].kind = "out"
      BY <1>4, <2>1
    <3>2. FitsBlock(z, bs[i]) /\ AfterBlock(z, bs[i]) = Blank
      BY <3>1 DEF FitsBlock, AfterBlock
    <3>3. PacketTo(o, z, k, Blank)
      BY <1>7, <3>1, <3>2, OneBlock
    <3>4. sh2 = FALSE
      BY <2>1
    <3>5. Told(o, Blank, sh2, Nowhere, a2, mv2, stage, dest, me)
      BY <3>4, BlankTold
    <3>6. QED
      BY <3>3, <3>5
  <2>2. CASE o \in Waiting
    <3>1. PICK i \in DOMAIN bs : Sole(o, bs, i) /\ bs[i].kind = "create" /\ bs[i].pose = b
      BY <1>4, <2>2
    <3>2. sh /\ sh2 /\ a2 = a /\ b \in Poses /\ b.pos = b.to /\ a \in Places
      BY <1>8, <1>9, <2>2
    <3>3. Told(o, z, TRUE, b, a, mv, stage, dest, me)
      <4>1. sh = TRUE
        BY <3>2
      <4>2. QED
        BY <1>10, <4>1
    <3>4. /\ FitsBlock(z, bs[i])
          /\ Told(o, AfterBlock(z, bs[i]), TRUE, Nowhere, a, IF stage = "none" THEN FALSE ELSE mv, stage, dest, me)
      <4>1. mv \in BOOLEAN
        OBVIOUS
      <4> HIDE DEF b, a, mv
      <4>2. QED
        BY <1>2, <3>1, <3>2, <3>3, <4>1, CreateTold
    <3>5. PacketTo(o, z, k, AfterBlock(z, bs[i]))
      BY <1>7, <3>1, <3>4, OneBlock
    <3>6. sh2 = TRUE /\ a2 = a
      BY <3>2
    <3>7. QED
      BY <3>4, <3>5, <3>6
  <2>3. CASE o \in (shown \ Leaving) \ Waiting
    <3>1. sh = TRUE /\ sh2 = TRUE /\ a2 = a /\ b = Nowhere
      BY <1>9, <2>3
    <3>2. a \in Places /\ Distance(a, me) \in Nat /\ Distance(a, me) <= Sight
      BY <1>8, <1>9, <2>3
    <3>3. Told(o, z, TRUE, Nowhere, a, mv, stage, dest, me)
      BY <1>10, <3>1
    <3>4. CASE \A i \in DOMAIN bs : bs[i].guid # o
      <4>1. PacketTo(o, z, k, z)
        BY <1>6, <3>4 DEF PacketTo, BlocksTo
      <4>2. Told(o, z, TRUE, Nowhere, a, mv2, stage, dest, me)
        <5>1. mv \in BOOLEAN
          OBVIOUS
        <5>2. z \in Views /\ stage \in {"none", "due", "sent"}
          BY <1>8
        <5> HIDE DEF a, mv
        <5>3. Told(o, z, TRUE, Nowhere, a, IF stage = "none" THEN FALSE ELSE mv, stage, dest, me)
          BY <3>2, <3>3, <5>1, <5>2, TickTold
        <5>4. QED
          BY <5>3 DEF mv
      <4>3. QED
        BY <3>1, <4>1, <4>2
    <3>5. CASE ~(\A i \in DOMAIN bs : bs[i].guid # o)
      <4>1. PICK i \in DOMAIN bs :
              Sole(o, bs, i) /\ bs[i].kind \in {"values", "movement"} /\ bs[i].pose = Standing(a)
        BY <1>4, <2>3, <3>5
      <4>2. /\ FitsBlock(z, bs[i])
            /\ Told(o, AfterBlock(z, bs[i]), TRUE, Nowhere, a, mv2, stage, dest, me)
        <5>1. mv \in BOOLEAN
          OBVIOUS
        <5>2. z \in Views /\ stage \in {"none", "due", "sent"}
          BY <1>8
        <5> DEFINE c == bs[i]
        <5>3. c.kind \in {"values", "movement"} /\ c.pose = Standing(a)
          BY <4>1
        <5> HIDE DEF a, mv, c
        <5>4. stage = "none" => Distance(a, me) <= Sight
          BY <3>2
        <5>5. /\ FitsBlock(z, c)
              /\ Told(o, AfterBlock(z, c), TRUE, Nowhere, a, IF stage = "none" THEN FALSE ELSE mv, stage, dest, me)
          BY <3>2, <3>3, <5>1, <5>2, <5>3, <5>4, ChangeTold
        <5>6. QED
          BY <5>5 DEF mv, c
      <4>3. PacketTo(o, z, k, AfterBlock(z, bs[i]))
        BY <1>7, <4>1, <4>2, OneBlock
      <4>4. QED
        BY <3>1, <4>2, <4>3
    <3>6. QED
      BY <3>4, <3>5
  <2>4. CASE o \notin shown /\ o \notin Waiting
    <3>1. PacketTo(o, z, k, z)
      BY <1>4, <1>6, <2>4 DEF PacketTo, BlocksTo
    <3>2. z = Blank /\ sh2 = FALSE
      <4>1. sh = FALSE
        BY <2>4
      <4>2. QED
        BY <1>10, <4>1 DEF Told
    <3>3. Told(o, z, sh2, Nowhere, a2, mv2, stage, dest, me)
      BY <3>2, BlankTold
    <3>4. QED
      BY <3>1, <3>3
  <2>5. QED
    BY <2>1, <2>2, <2>3, <2>4
<1>11. Course(o, entry[o], pose[o], o \in stale, o \in lost, off, work, net, sh, b, a, mv, stage, dest, me)
  BY <1>5 DEF Followed
<1> HIDE DEF sh, b, a, mv, sh2, a2, mv2
<1>12. Course(o, entry[o], pose[o], o \in stale, o \in lost, off, work, Append(net, k),
              sh2, Nowhere, a2, mv2, stage, dest, me)
  BY <1>6, <1>10, <1>11, Sends
<1>13. QED
  BY <1>1, <1>3, <1>6, <1>12 DEF Followed, cacheVars

\* Every step of the server keeps the view that will be held in agreement with its account.
LEMMA ServerFollowed ==
  ASSUME CacheInv, NEW o \in Objects, ServerStep
  PROVE  Followed(o)'
<1>1. ASSUME NEW q \in Objects, ServerBuild(q) PROVE Followed(o)'
  BY <1>1, BuildFollowed
<1>2. ASSUME NEW q \in Objects, ServerDestroy(q) PROVE Followed(o)'
  BY <1>2, DestroyFollowed
<1>3. ASSUME NEW q \in Objects, NEW p \in Places, ServerMove(q, p) PROVE Followed(o)'
  BY <1>3, MoveFollowed
<1>4. CASE ServerUpdate
  BY <1>4, UpdateFollowed
<1>5. ASSUME NEW p \in Homes, ServerTeleport(p) PROVE Followed(o)'
  BY <1>5, DecideFollowed
<1>6. ASSUME NEW p \in Homes, ServerNewWorld(p) PROVE Followed(o)'
  BY <1>6, WorldFollowed
<1>7. CASE ServerRelocate
  BY <1>7, ArriveFollowed
<1>8. CASE ServerTeleportSend
  BY <1>8, TeleportFollowed
<1>9. CASE ServerAck
  BY <1>9, AckFollowed
<1>10. QED
  BY <1>1, <1>2, <1>3, <1>4, <1>5, <1>6, <1>7, <1>8, <1>9 DEF ServerStep

-----------------------------------------------------------------------------
(* The steps of the read loop: whole packets. *)

\* The packet that is read next takes the view the client holds to another, from which
\* the rest lead on.
LEMMA ReadsNext ==
  ASSUME NEW o, NEW e, NEW p, NEW s, NEW l, NEW f, NEW q \in Seq(Packets), q # <<>>,
         NEW sh, NEW b, NEW a, NEW mv, NEW st, NEW d, NEW m,
         Course(o, e, p, s, l, f, <<>>, q, sh, b, a, mv, st, d, m)
  PROVE  \E x \in Views, u \in Views, z \in Views :
           /\ \A g : Held(x, x, e, p, s, l, g)
           /\ PacketTo(o, x, Head(q), u)
           /\ LeadsTo(o, u, Tail(q), z)
           /\ Told(o, z, sh, b, a, mv, st, d, m)
<1>1. PICK x \in Views, y \in Views, z \in Views :
        Held(x, y, e, p, s, l, f) /\ BlocksTo(o, x, <<>>, y) /\ LeadsTo(o, y, q, z)
          /\ Told(o, z, sh, b, a, mv, st, d, m)
  BY DEF Course
<1>2. y = x
  BY <1>1 DEF BlocksTo
<1>3. \A g : Held(x, x, e, p, s, l, g)
  BY <1>1, <1>2 DEF Held
<1>4. \E u \in Views : PacketTo(o, x, Head(q), u) /\ LeadsTo(o, u, Tail(q), z)
  BY <1>1, <1>2, PathFirst
<1>5. QED
  BY <1>1, <1>3, <1>4

\* The client holds that other view.
LEMMA ReadDone ==
  ASSUME NEW o, NEW e, NEW p, NEW s, NEW l, NEW f, NEW r,
         NEW sh, NEW b, NEW a, NEW mv, NEW st, NEW d, NEW m, NEW u \in Views, NEW z \in Views,
         Held(u, u, e, p, s, l, f), LeadsTo(o, u, r, z), Told(o, z, sh, b, a, mv, st, d, m)
  PROVE  Course(o, e, p, s, l, f, <<>>, r, sh, b, a, mv, st, d, m)
<1>1. BlocksTo(o, u, <<>>, u)
  BY DEF BlocksTo
<1>2. QED
  BY <1>1 DEF Course

\* Of an object, one of its packets leaves the client with what it says.
LEMMA PacketFollowed ==
  ASSUME CacheInv, NEW o \in Objects, NEW kind, Read(kind), kind # "update",
         UNCHANGED <<at, me, dest, moved, shown, built, work, off>>,
         stage' = (IF kind = "teleport" THEN "acked" ELSE stage),
         \A x \in Views, u \in Views :
           Held(x, x, entry[o], pose[o], o \in stale, o \in lost, off) /\ u = AfterPacket(o, x, Head(net)) =>
           Held(u, u, entry'[o], pose'[o], o \in stale', o \in lost', off)
  PROVE  Followed(o)'
<1>1. work = <<>> /\ net # <<>> /\ Head(net).kind = kind /\ net' = Tail(net)
  BY DEF Read
<1>2. net \in Seq(Packets) /\ Followed(o) /\ TeleportsOk
  BY DEF CacheInv, TypeOK
<1> DEFINE sh == o \in shown
           mv == o \in moved
<1>3. PICK x \in Views, u \in Views, z \in Views :
        /\ \A g : Held(x, x, entry[o], pose[o], o \in stale, o \in lost, g)
        /\ PacketTo(o, x, Head(net), u)
        /\ LeadsTo(o, u, Tail(net), z)
        /\ Told(o, z, sh, built[o], at[o], mv, stage, dest, me)
  BY <1>1, <1>2, ReadsNext DEF Followed
<1>4. u = AfterPacket(o, x, Head(net))
  BY <1>1, <1>3 DEF PacketTo
<1>5. Held(x, x, entry[o], pose[o], o \in stale, o \in lost, off)
  BY <1>3
<1> DEFINE e2 == entry'[o]
           p2 == pose'[o]
           s2 == o \in stale'
           l2 == o \in lost'
<1>6. Held(u, u, e2, p2, s2, l2, off)
  BY <1>4, <1>5
<1>7. Told(o, z, sh, built[o], at[o], mv, stage', dest, me)
  <2>1. CASE kind # "teleport"
    <3>1. stage' = stage
      BY <2>1
    <3> HIDE DEF sh, mv
    <3>2. QED
      BY <1>3, <3>1
  <2>2. CASE kind = "teleport"
    <3>1. 1 \in DOMAIN net /\ net[1] = Head(net)
      BY <1>1, <1>2, EmptySeq, HeadTailProperties, LenProperties
    <3>2. stage = "sent" /\ stage' = "acked"
      BY <1>1, <1>2, <2>2, <3>1 DEF TeleportsOk
    <3> HIDE DEF sh, mv
    <3>3. Told(o, z, sh, built[o], at[o], mv, "sent", dest, me)
      BY <1>3, <3>2
    <3>4. Told(o, z, sh, built[o], at[o], mv, "acked", dest, me)
      BY <3>3, ReadTold
    <3>5. QED
      BY <3>2, <3>4
  <2>3. QED
    BY <2>1, <2>2
<1> HIDE DEF sh, mv, e2, p2, s2, l2
<1>8. Course(o, e2, p2, s2, l2, off, <<>>, Tail(net), sh, built[o], at[o], mv, stage', dest, me)
  BY <1>3, <1>6, <1>7, ReadDone
<1>9. QED
  BY <1>1, <1>8 DEF Followed, sh, mv, e2, p2, s2, l2

\* An update packet is opened: its blocks are at hand.
LEMMA UpdateObjectFollowed ==
  ASSUME CacheInv, NEW o \in Objects, UpdateObject
  PROVE  Followed(o)'
<1>1. /\ work = <<>> /\ net # <<>> /\ Head(net).kind = "update" /\ net' = Tail(net)
      /\ work' = Head(net).blocks /\ off' = 0
      /\ UNCHANGED <<serverVars, cacheVars, lost, stale>>
  BY DEF UpdateObject, Read
<1>2. net \in Seq(Packets) /\ Followed(o)
  BY DEF CacheInv, TypeOK
<1>3. PICK x \in Views, u \in Views, z \in Views :
        /\ \A g : Held(x, x, entry[o], pose[o], o \in stale, o \in lost, g)
        /\ PacketTo(o, x, Head(net), u)
        /\ LeadsTo(o, u, Tail(net), z)
        /\ Told(o, z, o \in shown, built[o], at[o], o \in moved, stage, dest, me)
  BY <1>1, <1>2, ReadsNext DEF Followed
<1>4. BlocksTo(o, x, Head(net).blocks, u)
  BY <1>1, <1>3 DEF PacketTo
<1>5. Held(x, u, entry[o], pose[o], o \in stale, o \in lost, 0)
  BY <1>3 DEF Held
<1>6. Course(o, entry[o], pose[o], o \in stale, o \in lost, 0, Head(net).blocks, Tail(net),
             o \in shown, built[o], at[o], o \in moved, stage, dest, me)
  BY <1>3, <1>4, <1>5 DEF Course
<1>7. QED
  BY <1>1, <1>6 DEF Followed, serverVars, cacheVars

\* A monster move gives the mob its pose, or enters a stub.
LEMMA MonsterFollowed ==
  ASSUME CacheInv, NEW o \in Objects, MonsterMove
  PROVE  Followed(o)'
<1> DEFINE q == Head(net).guid
           r == Head(net).pose
<1>1. /\ Read("move") /\ Head(net).kind = "move" /\ q \in Mobs
      /\ entry' = [entry EXCEPT ![q] = IF @ = "none" THEN "stub" ELSE @]
      /\ pose' = [pose EXCEPT ![q] = r]
      /\ stale' = stale \ {q} /\ lost' = lost
      /\ UNCHANGED <<at, me, dest, stage, moved, shown, built, work, off>>
  BY DEF MonsterMove, Read, serverVars
<1>2. TypeOK /\ q \in Objects
  BY <1>1 DEF CacheInv, Objects
<1>3. ASSUME NEW x \in Views, NEW u \in Views,
             Held(x, x, entry[o], pose[o], o \in stale, o \in lost, off), u = AfterPacket(o, x, Head(net))
      PROVE  Held(u, u, entry'[o], pose'[o], o \in stale', o \in lost', off)
  <2>1. CASE q # o
    <3>1. u = x
      BY <1>1, <1>3, <2>1 DEF AfterPacket
    <3>2. entry'[o] = entry[o] /\ pose'[o] = pose[o] /\ (o \in stale') = (o \in stale) /\ (o \in lost') = (o \in lost)
      BY <1>1, <1>2, <2>1 DEF TypeOK
    <3>3. QED
      BY <1>3, <3>1, <3>2
  <2>2. CASE q = o
    <3>1. u = AfterMove(o, x, r)
      BY <1>1, <1>3, <2>2 DEF AfterPacket
    <3>2. /\ u.entry = (IF x.entry = "none" THEN "stub" ELSE x.entry)
          /\ u.pose = r /\ ~u.stale /\ u.lost = x.lost /\ u.created = x.created
      BY <1>1, <2>2, <3>1 DEF AfterMove
    <3>3. /\ entry'[o] = (IF entry[o] = "none" THEN "stub" ELSE entry[o])
          /\ pose'[o] = r
      BY <1>1, <1>2, <2>2 DEF TypeOK
    <3>4. (o \in stale') = FALSE /\ (o \in lost') = (o \in lost)
      BY <1>1, <2>2
    <3> DEFINE e2 == entry'[o]
               p2 == pose'[o]
               s2 == o \in stale'
               l2 == o \in lost'
               s == o \in stale
               l == o \in lost
    <3>5. Held(x, x, entry[o], pose[o], s, l, off)
      BY <1>3
    <3> HIDE DEF s, l, s2, l2, e2, p2
    <3>6. s2 = FALSE /\ l2 = l
      BY <3>4 DEF s2, l2, l
    <3>7. u.stale = FALSE
      <4>1. u.stale \in BOOLEAN
        BY ViewFields
      <4>2. QED
        BY <3>2, <4>1
    <3>8. ~l => u.entry = e2 /\ u.pose = p2 /\ u.stale = s2 /\ ~u.lost
      BY <3>2, <3>3, <3>5, <3>6, <3>7 DEF Held, e2, p2
    <3>9. l => u.created
      BY <3>2, <3>5 DEF Held
    <3>10. Held(u, u, e2, p2, s2, l2, off)
      BY <3>6, <3>8, <3>9 DEF Held
    <3>11. QED
      BY <3>10 DEF e2, p2, s2, l2
  <2>3. QED
    BY <2>1, <2>2
<1>4. QED
  BY <1>1, <1>3, PacketFollowed

\* A player's move gives it its pose, or is dropped.
LEMMA MovementFollowed ==
  ASSUME CacheInv, NEW o \in Objects, MovementPacket
  PROVE  Followed(o)'
<1> DEFINE q == Head(net).guid
           r == Head(net).pose
<1>1. /\ Read("move") /\ Head(net).kind = "move" /\ q \in Players /\ q \notin Mobs
      /\ entry' = entry /\ lost' = lost
      /\ UNCHANGED <<at, me, dest, stage, moved, shown, built, work, off>>
  BY ObjectAssumption DEF MovementPacket, Read, serverVars
<1>2. /\ q \in Tracked => pose' = [pose EXCEPT ![q] = r] /\ stale' = stale \ {q}
      /\ q \notin Tracked => stale' = stale \cup {q} /\ pose' = pose
  BY DEF MovementPacket
<1>3. TypeOK /\ q \in Objects
  BY <1>1 DEF CacheInv, Objects
<1>4. ASSUME NEW x \in Views, NEW u \in Views,
             Held(x, x, entry[o], pose[o], o \in stale, o \in lost, off), u = AfterPacket(o, x, Head(net))
      PROVE  Held(u, u, entry'[o], pose'[o], o \in stale', o \in lost', off)
  <2>1. CASE q # o
    <3>1. u = x
      BY <1>1, <1>4, <2>1 DEF AfterPacket
    <3>2. pose'[o] = pose[o]
      BY <1>2, <1>3, <2>1 DEF TypeOK
    <3>3. (o \in stale') = (o \in stale)
      BY <1>2, <2>1
    <3>4. entry'[o] = entry[o] /\ (o \in lost') = (o \in lost)
      BY <1>1
    <3>5. QED
      BY <1>4, <3>1, <3>2, <3>3, <3>4
  <2>2. CASE q = o
    <3>1. u = AfterMove(o, x, r)
      BY <1>1, <1>4, <2>2 DEF AfterPacket
    <3>2. u.created = x.created /\ u.lost = x.lost
      BY <3>1 DEF AfterMove
    <3>3. CASE o \in lost
      <4>1. x.created /\ o \in lost'
        BY <1>1, <1>4, <3>3 DEF Held
      <4>2. (o \in lost') = TRUE
        BY <4>1
      <4> HIDE DEF q, r
      <4>3. QED
        BY <3>2, <4>1, <4>2 DEF Held
    <3>4. CASE o \notin lost
      <4>1. x.entry = entry[o] /\ x.pose = pose[o] /\ ~x.lost
        BY <1>4, <3>4 DEF Held
      <4>2. CASE q \in Tracked
        <5>1. x.entry # "none" /\ pose'[o] = r /\ o \notin stale'
          BY <1>2, <1>3, <2>2, <4>1, <4>2 DEF Tracked, TypeOK
        <5>2. u.entry = x.entry /\ u.pose = r /\ u.stale = FALSE
          BY <3>1, <5>1 DEF AfterMove
        <5>3. (o \in stale') = FALSE
          BY <5>1
        <5>4. QED
          BY <1>1, <3>2, <3>4, <4>1, <5>1, <5>2, <5>3 DEF Held
      <4>3. CASE q \notin Tracked
        <5>1. x.entry = "none" /\ pose'[o] = pose[o] /\ o \in stale'
          BY <1>2, <1>3, <2>2, <4>1, <4>3 DEF Tracked
        <5>2. u.entry = x.entry /\ u.pose = x.pose /\ u.stale = TRUE
          BY <1>1, <2>2, <3>1, <5>1 DEF AfterMove
        <5>3. (o \in stale') = TRUE
          BY <5>1
        <5>4. QED
          BY <1>1, <3>2, <3>4, <4>1, <5>1, <5>2, <5>3 DEF Held
      <4>4. QED
        BY <4>2, <4>3
    <3>5. QED
      BY <3>3, <3>4
  <2>3. QED
    BY <2>1, <2>2
<1>5. QED
  BY <1>1, <1>4, PacketFollowed

\* An object the client drops at the server's word.
LEMMA Withdrawn ==
  ASSUME NEW f
  PROVE  Held(Blank, Blank, "none", Nowhere, FALSE, FALSE, f)
BY DEF Held, Blank

\* A destroyed object is withdrawn.
LEMMA DestroyedFollowed ==
  ASSUME CacheInv, NEW o \in Objects, DestroyObject
  PROVE  Followed(o)'
<1> DEFINE q == Head(net).guid
<1>1. /\ Read("destroy") /\ Head(net).kind = "destroy"
      /\ entry' = [e \in Objects |-> IF e \in {q} THEN "none" ELSE entry[e]]
      /\ pose' = [e \in Objects |-> IF e \in {q} THEN Nowhere ELSE pose[e]]
      /\ stale' = stale \ {q} /\ lost' = lost \ {q}
      /\ UNCHANGED <<at, me, dest, stage, moved, shown, built, work, off>>
  BY DEF DestroyObject, Read, Withdraw, Drop, serverVars
<1>2. ASSUME NEW x \in Views, NEW u \in Views,
             Held(x, x, entry[o], pose[o], o \in stale, o \in lost, off), u = AfterPacket(o, x, Head(net))
      PROVE  Held(u, u, entry'[o], pose'[o], o \in stale', o \in lost', off)
  <2>1. CASE q # o
    <3>1. u = x
      BY <1>1, <1>2, <2>1 DEF AfterPacket
    <3>2. entry'[o] = entry[o] /\ pose'[o] = pose[o] /\ (o \in stale') = (o \in stale) /\ (o \in lost') = (o \in lost)
      BY <1>1, <2>1
    <3>3. QED
      BY <1>2, <3>1, <3>2
  <2>2. CASE q = o
    <3>1. u = Blank
      BY <1>1, <1>2, <2>2 DEF AfterPacket
    <3>2. entry'[o] = "none" /\ pose'[o] = Nowhere /\ (o \in stale') = FALSE /\ (o \in lost') = FALSE
      BY <1>1, <2>2
    <3>3. QED
      BY <3>1, <3>2, Withdrawn
  <2>3. QED
    BY <2>1, <2>2
<1>3. QED
  BY <1>1, <1>2, PacketFollowed

\* A change of map withdraws all.
LEMMA NewWorldFollowed ==
  ASSUME CacheInv, NEW o \in Objects, NewWorld
  PROVE  Followed(o)'
<1>1. /\ Read("world") /\ Head(net).kind = "world"
      /\ entry' = [e \in Objects |-> IF e \in Objects THEN "none" ELSE entry[e]]
      /\ pose' = [e \in Objects |-> IF e \in Objects THEN Nowhere ELSE pose[e]]
      /\ stale' = stale \ Objects /\ lost' = lost \ Objects
      /\ UNCHANGED <<at, me, dest, stage, moved, shown, built, work, off>>
  BY DEF NewWorld, Read, Withdraw, Drop, serverVars
<1>2. entry'[o] = "none" /\ pose'[o] = Nowhere /\ (o \in stale') = FALSE /\ (o \in lost') = FALSE
  BY <1>1
<1>3. \A x \in Views : AfterPacket(o, x, Head(net)) = Blank
  BY <1>1 DEF AfterPacket
<1>4. ASSUME NEW x \in Views, NEW u \in Views,
             Held(x, x, entry[o], pose[o], o \in stale, o \in lost, off), u = AfterPacket(o, x, Head(net))
      PROVE  Held(u, u, entry'[o], pose'[o], o \in stale', o \in lost', off)
  BY <1>2, <1>3, <1>4, Withdrawn
<1>5. QED
  BY <1>1, <1>4, PacketFollowed

\* A teleport prunes what is too far by its pose, and loses what was pruned by a stale one.
LEMMA TeleportAckFollowed ==
  ASSUME CacheInv, NEW o \in Objects, MoveTeleportAck
  PROVE  Followed(o)'
<1> DEFINE P == Pruned(Head(net).to)
<1>1. /\ Read("teleport") /\ Head(net).kind = "teleport"
      /\ entry' = [e \in Objects |-> IF e \in P THEN "none" ELSE entry[e]]
      /\ pose' = [e \in Objects |-> IF e \in P THEN Nowhere ELSE pose[e]]
      /\ stale' = stale \ P /\ lost' = lost \cup (P \cap stale)
      /\ stage' = "acked"
      /\ UNCHANGED <<at, me, dest, moved, shown, built, work, off>>
  BY DEF MoveTeleportAck, Read, Drop
<1>2. o \in P <=> entry[o] # "none" /\ Distance(pose[o].pos, Head(net).to) > Keep
  BY DEF Pruned, Tracked
<1> HIDE DEF P
<1>3. ASSUME NEW x \in Views, NEW u \in Views,
             Held(x, x, entry[o], pose[o], o \in stale, o \in lost, off), u = AfterPacket(o, x, Head(net))
      PROVE  Held(u, u, entry'[o], pose'[o], o \in stale', o \in lost', off)
  <2>1. u = AfterTeleport(x, Head(net).to)
    BY <1>1, <1>3 DEF AfterPacket
  <2>2. u.created = x.created
    BY <2>1 DEF AfterTeleport
  <2>3. CASE o \in lost
    <3>1. x.created /\ o \in lost'
      BY <1>1, <1>3, <2>3 DEF Held
    <3>2. QED
      BY <2>2, <3>1 DEF Held
  <2>4. CASE o \notin lost
    <3>1. x.entry = entry[o] /\ x.pose = pose[o] /\ ~x.lost /\ x.stale = (o \in stale)
      BY <1>3, <2>4 DEF Held
    <3>2. CASE o \notin P
      <4>1. u = x
        BY <1>2, <2>1, <3>1, <3>2 DEF AfterTeleport
      <4>2. entry'[o] = entry[o] /\ pose'[o] = pose[o] /\ (o \in stale') = (o \in stale) /\ (o \in lost') = (o \in lost)
        BY <1>1, <3>2
      <4>3. QED
        BY <1>3, <4>1, <4>2
    <3>3. CASE o \in P
      <4>1. /\ u = [entry |-> "none", pose |-> Nowhere, stale |-> FALSE, lost |-> x.lost \/ x.stale,
                    created |-> x.created]
            /\ x.entry # "none"
        BY <1>2, <2>1, <3>1, <3>3 DEF AfterTeleport
      <4>2. entry'[o] = "none" /\ pose'[o] = Nowhere /\ (o \in stale') = FALSE
        BY <1>1, <3>3
      <4>3. (o \in lost') <=> (o \in stale)
        BY <1>1, <2>4, <3>3
      <4>4. CASE o \in stale
        <5>1. x.stale
          BY <3>1, <4>4
        <5>2. x.created /\ o \in lost'
          BY <4>1, <4>3, <4>4, <5>1, ViewFields DEF Sound
        <5>3. QED
          BY <2>2, <5>2 DEF Held
      <4>5. CASE o \notin stale
        <5>1. ~x.stale /\ o \notin lost'
          BY <3>1, <4>3, <4>5
        <5>2. u.entry = "none" /\ u.pose = Nowhere /\ u.stale = FALSE /\ ~u.lost
          BY <3>1, <4>1, <5>1
        <5>3. QED
          BY <4>2, <5>1, <5>2 DEF Held
      <4>6. QED
        BY <4>4, <4>5
    <3>4. QED
      BY <3>2, <3>3
  <2>5. QED
    BY <2>3, <2>4
<1>4. Read("teleport") /\ UNCHANGED <<at, me, dest, moved, shown, built, work, off>>
  BY <1>1
<1>5. stage' = (IF "teleport" = "teleport" THEN "acked" ELSE stage)
  BY <1>1
<1>6. QED
  BY <1>3, <1>4, <1>5, PacketFollowed

-----------------------------------------------------------------------------
(* The steps of the read loop: the blocks of an update packet. *)

\* A block of another object leaves this one alone.
LEMMA BlockOther ==
  ASSUME CacheInv, NEW o \in Objects, work # <<>>, off = 0, Head(work).guid # o,
         work' = Tail(work), off' = 0, UNCHANGED <<serverVars, net>>,
         entry'[o] = entry[o], pose'[o] = pose[o], (o \in stale') = (o \in stale), (o \in lost') = (o \in lost)
  PROVE  Followed(o)'
<1>1. work \in Seq(Blocks) /\ Followed(o)
  BY DEF CacheInv, TypeOK
<1>2. PICK x \in Views, y \in Views, z \in Views :
        /\ Held(x, y, entry[o], pose[o], o \in stale, o \in lost, 0)
        /\ BlocksTo(o, x, work, y)
        /\ LeadsTo(o, y, net, z)
        /\ Told(o, z, o \in shown, built[o], at[o], o \in moved, stage, dest, me)
  BY <1>1 DEF Followed, Course
<1>3. BlocksTo(o, x, Tail(work), y)
  BY <1>1, <1>2, BlocksFirst
<1>4. Course(o, entry[o], pose[o], o \in stale, o \in lost, 0, Tail(work), net,
             o \in shown, built[o], at[o], o \in moved, stage, dest, me)
  BY <1>2, <1>3 DEF Course
<1>5. QED
  BY <1>4 DEF Followed, serverVars

\* Its own block leaves the client with what it says, and is the only one.
LEMMA BlockOwn ==
  ASSUME CacheInv, NEW o \in Objects, work # <<>>, off = 0, Head(work).guid = o,
         work' = Tail(work), UNCHANGED <<serverVars, net>>,
         \A x \in Views, y \in Views :
           Held(x, x, entry[o], pose[o], o \in stale, o \in lost, 0) /\ FitsBlock(x, Head(work))
             /\ y = AfterBlock(x, Head(work)) /\ (\A i \in DOMAIN Tail(work) : Tail(work)[i].guid # o) =>
           Held(y, y, entry'[o], pose'[o], o \in stale', o \in lost', off')
  PROVE  Followed(o)'
<1>1. work \in Seq(Blocks) /\ Followed(o)
  BY DEF CacheInv, TypeOK
<1>2. PICK x \in Views, y \in Views, z \in Views :
        /\ Held(x, y, entry[o], pose[o], o \in stale, o \in lost, 0)
        /\ BlocksTo(o, x, work, y)
        /\ LeadsTo(o, y, net, z)
        /\ Told(o, z, o \in shown, built[o], at[o], o \in moved, stage, dest, me)
  BY <1>1 DEF Followed, Course
<1>3. /\ FitsBlock(x, Head(work)) /\ y = AfterBlock(x, Head(work))
      /\ BlocksTo(o, y, Tail(work), y)
      /\ \A i \in DOMAIN Tail(work) : Tail(work)[i].guid # o
  BY <1>1, <1>2, BlocksFirst
<1>4. Held(x, x, entry[o], pose[o], o \in stale, o \in lost, 0)
  BY <1>2 DEF Held
<1> DEFINE e2 == entry'[o]
           p2 == pose'[o]
           s2 == o \in stale'
           l2 == o \in lost'
           f2 == off'
<1>5. Held(y, y, e2, p2, s2, l2, f2)
  BY <1>3, <1>4
<1> HIDE DEF e2, p2, s2, l2, f2
<1>6. Course(o, e2, p2, s2, l2, f2, Tail(work), net,
             o \in shown, built[o], at[o], o \in moved, stage, dest, me)
  BY <1>2, <1>3, <1>5 DEF Course
<1>7. QED
  BY <1>6 DEF Followed, serverVars, e2, p2, s2, l2, f2

\* The blocks, the first and the rest.
LEMMA HeadBlock ==
  ASSUME NEW bs \in Seq(Blocks), bs # <<>>
  PROVE  /\ Head(bs) \in Blocks /\ 1 \in DOMAIN bs /\ Head(bs) = bs[1]
         /\ Tail(bs) \in Seq(Blocks)
         /\ \A i \in DOMAIN Tail(bs) : i + 1 \in DOMAIN bs /\ Tail(bs)[i] = bs[i + 1] /\ i \in Nat /\ i > 0
<1> DEFINE r == Tail(bs)
<1>1. /\ Len(bs) \in Nat \ {0} /\ Head(bs) = bs[1] /\ Len(r) = Len(bs) - 1
      /\ DOMAIN bs = 1 .. Len(bs) /\ DOMAIN r = 1 .. Len(bs) - 1 /\ r \in Seq(Blocks)
      /\ \A i \in 1 .. Len(bs) - 1 : r[i] = bs[i + 1]
  BY HeadTailProperties, EmptySeq, LenProperties
<1> HIDE DEF r
<1>2. 1 \in DOMAIN bs /\ Head(bs) \in Blocks
  BY <1>1
<1>3. QED
  BY <1>1, <1>2 DEF r

\* A values block; if it is skipped short, the blocks behind it are lost.
LEMMA ValuesFollowed ==
  ASSUME CacheInv, NEW o \in Objects, ValuesBlock
  PROVE  Followed(o)'
<1> DEFINE g == Head(work).guid
           words == MaskBlocks[g]
           short == g \notin Tracked /\ words > SkipCap
<1>1. /\ work # <<>> /\ off = 0 /\ Head(work).kind = "values" /\ work' = Tail(work)
      /\ UNCHANGED <<serverVars, net, cacheVars, stale>>
      /\ off' = (IF g \in Tracked THEN ReadValues(words, 1, 0) ELSE SkipValues(words, 1, 0))
                - WrittenValues(words, 1, 0)
      /\ lost' = IF short THEN lost \cup {b.guid : b \in Range(Tail(work))} ELSE lost
  BY DEF ValuesBlock, Block
<1>2. work \in Seq(Blocks) /\ Followed(o) /\ OutsFirst(work)
  BY DEF CacheInv, TypeOK, PacketsOk
<1>3. g \in Objects /\ words \in Nat
  BY <1>1, <1>2, HeadBlock, BlockKinds, LayoutAssumption
<1>4. IF short THEN off' # 0 ELSE off' = 0
  <2> HIDE DEF g, words
  <2>1. /\ ReadValues(words, 1, 0) \in Int /\ SkipValues(words, 1, 0) \in Int /\ WrittenValues(words, 1, 0) \in Int
    BY <1>3 DEF ReadValues, SkipValues, WrittenValues, SkipCap
  <2>2. /\ ReadValues(words, 1, 0) = WrittenValues(words, 1, 0)
        /\ words <= SkipCap => SkipValues(words, 1, 0) = WrittenValues(words, 1, 0)
        /\ words > SkipCap => SkipValues(words, 1, 0) < WrittenValues(words, 1, 0)
    BY <1>3, ValuesPathsAgree
  <2>3. SkipCap \in Nat
    BY DEF SkipCap
  <2>4. QED
    BY <1>1, <1>3, <2>1, <2>2, <2>3
<1>5. \A i \in DOMAIN Tail(work) : Tail(work)[i].kind # "out"
  BY <1>1, <1>2, HeadBlock DEF OutsFirst
<1>6. \A i \in DOMAIN work : work[i].kind # "out"
  BY <1>1, <1>2, HeadBlock DEF OutsFirst
<1>7. CASE g # o
  <2>1. CASE (o \in lost') = (o \in lost) /\ off' = 0
    BY <1>1, <1>7, <2>1, BlockOther DEF cacheVars
  <2>2. CASE short
    <3>1. PICK x \in Views, y \in Views, z \in Views :
            /\ Held(x, y, entry[o], pose[o], o \in stale, o \in lost, 0)
            /\ BlocksTo(o, x, work, y)
            /\ LeadsTo(o, y, net, z)
            /\ Told(o, z, o \in shown, built[o], at[o], o \in moved, stage, dest, me)
      BY <1>1, <1>2 DEF Followed, Course
    <3>2. BlocksTo(o, x, Tail(work), y)
      BY <1>1, <1>2, <1>7, <3>1, BlocksFirst
    <3>3. o \in lost' => y.created
      <4>1. CASE \A i \in DOMAIN work : work[i].guid # o
        <5>1. y = x
          BY <3>1, <4>1 DEF BlocksTo
        <5>2. \A b \in Range(Tail(work)) : b.guid # o
          BY <1>2, <1>1, <4>1, HeadBlock DEF Range
        <5>3. o \in lost' => o \in lost
          BY <1>1, <5>2
        <5>4. QED
          BY <3>1, <5>1, <5>3 DEF Held
      <4>2. ASSUME NEW i \in DOMAIN work, FitsBlock(x, work[i]), y = AfterBlock(x, work[i]) PROVE y.created
        <5>1. work[i].kind \in {"values", "movement", "create"}
          BY <1>2, <1>6, BlockKinds
        <5>2. QED
          BY <4>2, <5>1 DEF FitsBlock, AfterBlock
      <4>3. QED
        BY <3>1, <4>1, <4>2 DEF BlocksTo
    <3>4. off' # 0
      BY <1>4, <2>2
    <3>5. o \in lost => o \in lost'
      BY <1>1
    <3> DEFINE s == o \in stale
               l == o \in lost
               l2 == o \in lost'
    <3>6. Held(x, y, entry[o], pose[o], s, l, 0)
      BY <3>1
    <3>7. (l => l2) /\ (l2 => y.created)
      BY <3>3, <3>5
    <3> HIDE DEF s, l, l2
    <3>8. Held(x, y, entry[o], pose[o], s, l2, off')
      BY <3>4, <3>6, <3>7 DEF Held
    <3>9. Course(o, entry[o], pose[o], s, l2, off', Tail(work), net,
                 o \in shown, built[o], at[o], o \in moved, stage, dest, me)
      BY <3>1, <3>2, <3>8 DEF Course
    <3>10. QED
      BY <1>1, <3>9 DEF Followed, serverVars, cacheVars, s, l2
  <2>3. CASE ~short
    <3>1. off' = 0 /\ lost' = lost
      BY <1>1, <1>4, <2>3
    <3>2. QED
      BY <2>1, <3>1
  <2>4. QED
    BY <2>2, <2>3
<1>8. CASE g = o
  <2>1. ASSUME NEW x \in Views, NEW y \in Views,
               Held(x, x, entry[o], pose[o], o \in stale, o \in lost, 0), FitsBlock(x, Head(work)),
               y = AfterBlock(x, Head(work)), \A i \in DOMAIN Tail(work) : Tail(work)[i].guid # o
        PROVE  Held(y, y, entry'[o], pose'[o], o \in stale', o \in lost', off')
    <3>1. y = x /\ x.created
      BY <1>1, <2>1 DEF AfterBlock, FitsBlock
    <3>2. \A b \in Range(Tail(work)) : b.guid # o
      BY <1>1, <1>2, <2>1 DEF Range
    <3>3. (o \in lost') = (o \in lost)
      BY <1>1, <3>2
    <3>4. entry' = entry /\ pose' = pose /\ stale' = stale
      BY <1>1 DEF cacheVars
    <3>5. QED
      BY <2>1, <3>1, <3>3, <3>4 DEF Held
  <2>2. QED
    BY <1>1, <1>8, <2>1, BlockOwn
<1>9. QED
  BY <1>7, <1>8

\* A movement block is consumed as it was written.
LEMMA InStep ==
  ASSUME CacheInv, work # <<>>, Head(work).kind \in {"create", "movement"}, NEW parses \in BOOLEAN
  PROVE  LET l == Head(work).layout
         IN  /\ ReadMovement(l, parses) - WrittenMovement(l) = 0
             /\ SkipMovement(l) - WrittenMovement(l) = 0
<1> DEFINE l == Head(work).layout
<1>1. work \in Seq(Blocks) /\ Laid(work)
  BY DEF CacheInv, TypeOK, PacketsOk
<1>2. l \in Written
  BY <1>1, HeadBlock DEF Laid
<1>3. l \in Layouts /\ l.nodes <= NodeCap
  BY <1>2, LayoutAssumption
<1> HIDE DEF l
<1>4. ReadMovement(l, parses) = WrittenMovement(l) /\ SkipMovement(l) = WrittenMovement(l)
  BY <1>3, MovementPathsAgree
<1>5. WrittenMovement(l) \in Int
  BY <1>3, MovementBytes
<1>6. QED
  BY <1>4, <1>5 DEF l

\* A movement block gives a tracked object its pose.
LEMMA MovementBlockFollowed ==
  ASSUME CacheInv, NEW o \in Objects, MovementBlock
  PROVE  Followed(o)'
<1> DEFINE g == Head(work).guid
           r == Head(work).pose
<1>1. /\ work # <<>> /\ off = 0 /\ Head(work).kind = "movement" /\ work' = Tail(work)
      /\ UNCHANGED <<serverVars, net, entry, lost>>
      /\ pose' = [pose EXCEPT ![g] = IF g \in Tracked THEN r ELSE @]
      /\ stale' = stale \ {g}
  BY DEF MovementBlock, Block
<1>2. TypeOK /\ work \in Seq(Blocks) /\ g \in Objects
  BY <1>1, HeadBlock, BlockKinds DEF CacheInv, TypeOK
<1>3. off' = 0
  <2>1. (g \in Mobs) \in BOOLEAN /\ Head(work).kind \in {"create", "movement"}
    BY <1>1
  <2>2. CASE g \in Tracked
    <3>1. off' = ReadMovement(Head(work).layout, g \in Mobs) - WrittenMovement(Head(work).layout)
      BY <2>2 DEF MovementBlock
    <3>2. QED
      BY <1>1, <2>1, <3>1, InStep
  <2>3. CASE g \notin Tracked
    <3>1. off' = SkipMovement(Head(work).layout) - WrittenMovement(Head(work).layout)
      BY <2>3 DEF MovementBlock
    <3>2. QED
      BY <1>1, <2>1, <3>1, InStep
  <2>4. QED
    BY <2>2, <2>3
<1>4. CASE g # o
  <2>1. pose'[o] = pose[o] /\ (o \in stale') = (o \in stale)
    BY <1>1, <1>2, <1>4 DEF TypeOK
  <2>2. QED
    BY <1>1, <1>3, <1>4, <2>1, BlockOther
<1>5. CASE g = o
  <2>1. ASSUME NEW x \in Views, NEW y \in Views,
               Held(x, x, entry[o], pose[o], o \in stale, o \in lost, 0), FitsBlock(x, Head(work)),
               y = AfterBlock(x, Head(work)), \A i \in DOMAIN Tail(work) : Tail(work)[i].guid # o
        PROVE  Held(y, y, entry'[o], pose'[o], o \in stale', o \in lost', off')
    <3>1. /\ y.entry = x.entry /\ y.pose = (IF x.entry # "none" THEN r ELSE x.pose)
          /\ y.stale = FALSE /\ y.lost = x.lost /\ y.created = x.created /\ x.created
      BY <1>1, <2>1 DEF AfterBlock, FitsBlock
    <3>2. entry' = entry /\ lost' = lost /\ pose'[o] = (IF o \in Tracked THEN r ELSE pose[o])
      BY <1>1, <1>2, <1>5 DEF TypeOK
    <3>3. (o \in stale') = FALSE
      BY <1>1, <1>5
    <3>4. o \in Tracked <=> entry[o] # "none"
      BY DEF Tracked
    <3>5. CASE o \in lost
      BY <3>1, <3>2, <3>5 DEF Held
    <3>6. CASE o \notin lost
      <4>1. x.entry = entry[o] /\ x.pose = pose[o] /\ ~x.lost
        BY <2>1, <3>6 DEF Held
      <4>2. y.entry = entry'[o] /\ y.pose = pose'[o] /\ ~y.lost
        BY <3>1, <3>2, <3>4, <4>1
      <4>3. QED
        BY <3>1, <3>2, <3>3, <3>6, <4>2 DEF Held
    <3>7. QED
      BY <3>5, <3>6
  <2>2. QED
    BY <1>1, <1>5, <2>1, BlockOwn
<1>6. QED
  BY <1>4, <1>5

\* A create block describes the object, and keeps a newer pose of it.
LEMMA CreateFollowed ==
  ASSUME CacheInv, NEW o \in Objects, CreateBlock
  PROVE  Followed(o)'
<1> DEFINE g == Head(work).guid
           r == Head(work).pose
<1>1. /\ work # <<>> /\ off = 0 /\ Head(work).kind = "create" /\ work' = Tail(work)
      /\ UNCHANGED <<serverVars, net>>
      /\ entry' = [entry EXCEPT ![g] = "full"]
      /\ pose' = [pose EXCEPT ![g] = Created(g, r)]
      /\ lost' = lost \ {g}
      /\ stale' = IF g \notin Tracked THEN stale
                  ELSE IF r.pos = pose[g].pos THEN stale \cup {g} ELSE stale \ {g}
      /\ off' = ReadMovement(Head(work).layout, g \in Mobs) - WrittenMovement(Head(work).layout)
  BY DEF CreateBlock, Block
<1>2. TypeOK /\ work \in Seq(Blocks) /\ g \in Objects
  BY <1>1, HeadBlock, BlockKinds DEF CacheInv, TypeOK
<1>3. off' = 0
  <2>1. (g \in Mobs) \in BOOLEAN /\ Head(work).kind \in {"create", "movement"}
    BY <1>1
  <2>2. QED
    BY <1>1, <2>1, InStep
<1>4. CASE g # o
  <2>1. entry'[o] = entry[o] /\ pose'[o] = pose[o]
    BY <1>1, <1>2, <1>4 DEF TypeOK
  <2>2. (o \in stale') = (o \in stale) /\ (o \in lost') = (o \in lost)
    BY <1>1, <1>4
  <2>3. QED
    BY <1>1, <1>3, <1>4, <2>1, <2>2, BlockOther
<1>5. CASE g = o
  <2>1. ASSUME NEW x \in Views, NEW y \in Views,
               Held(x, x, entry[o], pose[o], o \in stale, o \in lost, 0), FitsBlock(x, Head(work)),
               y = AfterBlock(x, Head(work)), \A i \in DOMAIN Tail(work) : Tail(work)[i].guid # o
        PROVE  Held(y, y, entry'[o], pose'[o], o \in stale', o \in lost', off')
    <3>1. ~x.created /\ r.pos = r.to
      BY <1>1, <2>1 DEF FitsBlock
    <3>2. o \notin lost
      BY <2>1, <3>1 DEF Held
    <3>3. x.entry = entry[o] /\ x.pose = pose[o] /\ x.stale = (o \in stale)
      BY <2>1, <3>2 DEF Held
    <3>4. /\ y.entry = "full"
          /\ y.pose = (IF x.entry # "none" /\ r.pos # x.pose.pos THEN x.pose ELSE r)
          /\ y.stale = (IF x.entry = "none" THEN x.stale ELSE r.pos = x.pose.pos)
          /\ ~y.lost /\ y.created
      BY <1>1, <2>1 DEF AfterBlock, KeepsPose
    <3>5. o \in Tracked <=> entry[o] # "none"
      BY DEF Tracked
    <3>6. entry'[o] = "full" /\ pose'[o] = Created(o, r)
      BY <1>1, <1>2, <1>5 DEF TypeOK
    <3>7. o \notin lost'
      BY <1>1, <1>5
    <3>8. y.pose = pose'[o]
      BY <3>1, <3>3, <3>4, <3>5, <3>6 DEF Created
    <3>9. y.stale = (o \in stale')
      <4>1. CASE o \notin Tracked
        <5>1. stale' = stale
          BY <1>1, <1>5, <4>1
        <5>2. y.stale = x.stale
          BY <3>3, <3>4, <3>5, <4>1
        <5>3. QED
          BY <3>3, <5>1, <5>2
      <4>2. CASE o \in Tracked /\ r.pos = pose[o].pos
        <5>1. (o \in stale') = TRUE
          BY <1>1, <1>5, <4>2
        <5>2. y.stale = TRUE
          BY <3>3, <3>4, <3>5, <4>2
        <5>3. QED
          BY <5>1, <5>2
      <4>3. CASE o \in Tracked /\ r.pos # pose[o].pos
        <5>1. (o \in stale') = FALSE
          BY <1>1, <1>5, <4>3
        <5>2. y.stale = FALSE
          BY <3>3, <3>4, <3>5, <4>3
        <5>3. QED
          BY <5>1, <5>2
      <4>4. QED
        BY <4>1, <4>2, <4>3
    <3>10. QED
      BY <3>4, <3>6, <3>7, <3>8, <3>9 DEF Held
  <2>2. QED
    BY <1>1, <1>5, <2>1, BlockOwn
<1>6. QED
  BY <1>4, <1>5

\* A withdrawal.
LEMMA OutFollowed ==
  ASSUME CacheInv, NEW o \in Objects, OutBlock
  PROVE  Followed(o)'
<1> DEFINE g == Head(work).guid
<1>1. /\ work # <<>> /\ off = 0 /\ Head(work).kind = "out" /\ work' = Tail(work) /\ off' = 0
      /\ UNCHANGED <<serverVars, net>>
      /\ entry' = [e \in Objects |-> IF e \in {g} THEN "none" ELSE entry[e]]
      /\ pose' = [e \in Objects |-> IF e \in {g} THEN Nowhere ELSE pose[e]]
      /\ stale' = stale \ {g} /\ lost' = lost \ {g}
  BY DEF OutBlock, Block, Withdraw, Drop
<1>2. CASE g # o
  <2>1. entry'[o] = entry[o] /\ pose'[o] = pose[o] /\ (o \in stale') = (o \in stale) /\ (o \in lost') = (o \in lost)
    BY <1>1, <1>2
  <2>2. QED
    BY <1>1, <1>2, <2>1, BlockOther
<1>3. CASE g = o
  <2>1. ASSUME NEW x \in Views, NEW y \in Views,
               Held(x, x, entry[o], pose[o], o \in stale, o \in lost, 0), FitsBlock(x, Head(work)),
               y = AfterBlock(x, Head(work)), \A i \in DOMAIN Tail(work) : Tail(work)[i].guid # o
        PROVE  Held(y, y, entry'[o], pose'[o], o \in stale', o \in lost', off')
    <3>1. y = Blank
      BY <1>1, <2>1 DEF AfterBlock
    <3>2. entry'[o] = "none" /\ pose'[o] = Nowhere /\ (o \in stale') = FALSE /\ (o \in lost') = FALSE
      BY <1>1, <1>3
    <3>3. QED
      BY <3>1, <3>2, Withdrawn
  <2>2. QED
    BY <1>1, <1>3, <2>1, BlockOwn
<1>4. QED
  BY <1>2, <1>3

\* What is misparsed was counted as lost before.
LEMMA MisparseFollowed ==
  ASSUME CacheInv, NEW o \in Objects, Misparse
  PROVE  Followed(o)'
<1>1. /\ work # <<>> /\ off # 0 /\ work' = <<>>
      /\ UNCHANGED <<serverVars, net, cacheVars, off, lost, stale>>
  BY DEF Misparse
<1>2. Followed(o) /\ PacketsOk
  BY DEF CacheInv
<1>3. PICK x \in Views, y \in Views, z \in Views :
        /\ Held(x, y, entry[o], pose[o], o \in stale, o \in lost, off)
        /\ BlocksTo(o, x, work, y)
        /\ LeadsTo(o, y, net, z)
        /\ Told(o, z, o \in shown, built[o], at[o], o \in moved, stage, dest, me)
  BY <1>2 DEF Followed, Course
<1>4. Held(y, y, entry[o], pose[o], o \in stale, o \in lost, off)
  <2>1. CASE o \in lost
    BY <1>1, <1>3, <2>1 DEF Held
  <2>2. CASE o \notin lost
    <3>1. \A i \in DOMAIN work : work[i].guid # o
      BY <1>1, <1>2, <2>2 DEF PacketsOk
    <3>2. y = x
      BY <1>3, <3>1 DEF BlocksTo
    <3>3. QED
      BY <1>3, <3>2
  <2>3. QED
    BY <2>1, <2>2
<1>5. Course(o, entry[o], pose[o], o \in stale, o \in lost, off, <<>>, net,
             o \in shown, built[o], at[o], o \in moved, stage, dest, me)
  BY <1>3, <1>4, ReadDone
<1>6. QED
  BY <1>1, <1>5 DEF Followed, serverVars, cacheVars

\* Every step keeps what the client will hold of an object in agreement with the account.
LEMMA FollowedStep ==
  ASSUME CacheInv, [Next]_vars, NEW o \in Objects
  PROVE  Followed(o)'
<1>1. CASE ServerStep
  BY <1>1, ServerFollowed
<1>2. CASE UpdateObject
  BY <1>2, UpdateObjectFollowed
<1>3. CASE ValuesBlock
  BY <1>3, ValuesFollowed
<1>4. CASE MovementBlock
  BY <1>4, MovementBlockFollowed
<1>5. CASE CreateBlock
  BY <1>5, CreateFollowed
<1>6. CASE OutBlock
  BY <1>6, OutFollowed
<1>7. CASE Misparse
  BY <1>7, MisparseFollowed
<1>8. CASE MonsterMove
  BY <1>8, MonsterFollowed
<1>9. CASE MovementPacket
  BY <1>9, MovementFollowed
<1>10. CASE DestroyObject
  BY <1>10, DestroyedFollowed
<1>11. CASE MoveTeleportAck
  BY <1>11, TeleportAckFollowed
<1>12. CASE NewWorld
  BY <1>12, NewWorldFollowed
<1>13. CASE UNCHANGED vars
  <2>1. Followed(o)
    BY DEF CacheInv
  <2>2. QED
    BY <1>13, <2>1 DEF vars, serverVars, cacheVars, Followed
<1>14. QED
  BY <1>1, <1>2, <1>3, <1>4, <1>5, <1>6, <1>7, <1>8, <1>9, <1>10, <1>11, <1>12, <1>13 DEF Next, ReadLoopStep

-----------------------------------------------------------------------------
(* What the views rest on: the types, the packets, and the server's account. *)

\* A packet is sent that is no teleport ...
LEMMA OtherPacket ==
  ASSUME CacheInv, NEW k \in Packets, net' = Append(net, k),
         UNCHANGED <<cacheVars, work, off, lost, stale, stage, dest>>,
         k.kind = "update" => OutsFirst(k.blocks) /\ Laid(k.blocks), k.kind # "teleport"
  PROVE  PacketsOk' /\ TeleportsOk' /\ net' \in Seq(Packets)
<1>1. TypeOK /\ PacketsOk /\ TeleportsOk /\ net \in Seq(Packets)
  BY DEF CacheInv, TypeOK
<1>2. /\ Len(net) \in Nat /\ DOMAIN net = 1 .. Len(net) /\ net' \in Seq(Packets)
      /\ DOMAIN net' = 1 .. Len(net) + 1
      /\ \A i \in 1 .. Len(net) : net'[i] = net[i]
      /\ net'[Len(net) + 1] = k
  BY <1>1, AppendProperties, LenProperties
<1>3. \A i \in DOMAIN net' : (i \in DOMAIN net /\ net'[i] = net[i]) \/ net'[i] = k
  BY <1>2
<1>4. \A i \in DOMAIN net' : net'[i].kind = "update" => OutsFirst(net'[i].blocks) /\ Laid(net'[i].blocks)
  BY <1>1, <1>3 DEF PacketsOk
<1>5. OutsFirst(work) /\ Laid(work) /\ (off # 0 => \A i \in DOMAIN work : work[i].guid \in lost /\ work[i].kind # "out")
  BY <1>1 DEF PacketsOk
<1>6. PacketsOk'
  BY <1>4, <1>5 DEF PacketsOk
<1>7. TeleportsOk'
  BY <1>1, <1>3 DEF TeleportsOk
<1>8. QED
  BY <1>2, <1>6, <1>7

\* ... or none is.
LEMMA QuietPackets ==
  ASSUME CacheInv, UNCHANGED <<cacheVars, work, off, lost, stale, net>>
  PROVE  PacketsOk'
<1>1. /\ OutsFirst(work) /\ Laid(work) /\ (off # 0 => \A i \in DOMAIN work : work[i].guid \in lost /\ work[i].kind # "out")
      /\ \A i \in DOMAIN net : net[i].kind = "update" => OutsFirst(net[i].blocks) /\ Laid(net[i].blocks)
  BY DEF PacketsOk, CacheInv
<1>2. QED
  BY <1>1 DEF PacketsOk

\* The steps of the server keep the types, the shape of the packets and the account.
LEMMA BuildKeeps ==
  ASSUME CacheInv, ServerStep, NEW q \in Objects, ServerBuild(q)
  PROVE  TypeOK' /\ PacketsOk' /\ TeleportsOk' /\ ServerOk'
<1>1. UNCHANGED <<cacheVars, work, off, lost, stale, net, stage, dest, me, moved, sent>>
  BY DEF ServerStep, ServerBuild
<1>2. PICK p \in Places : at' = [at EXCEPT ![q] = p] /\ built' = [built EXCEPT ![q] = Standing(p)]
  BY DEF ServerBuild
<1>3. shown' = shown \cup {q}
  BY DEF ServerBuild
<1>4. TypeOK /\ ServerOk /\ TeleportsOk
  BY DEF CacheInv
<1>5. Standing(p) \in Poses /\ Standing(p).pos = Standing(p).to
  BY PoseIsAPlace
<1>6. TypeOK'
  BY <1>1, <1>2, <1>3, <1>4, <1>5 DEF TypeOK, cacheVars
<1>7. TeleportsOk'
  BY <1>1, <1>4 DEF TeleportsOk
<1>8. ServerOk'
  BY <1>2, <1>3, <1>4, <1>5 DEF ServerOk, TypeOK
<1>9. QED
  BY <1>1, <1>6, <1>7, <1>8, QuietPackets

LEMMA DestroyKeeps ==
  ASSUME CacheInv, ServerStep, NEW q \in Objects, ServerDestroy(q)
  PROVE  TypeOK' /\ PacketsOk' /\ TeleportsOk' /\ ServerOk'
<1> DEFINE k == [kind |-> "destroy", guid |-> q]
<1>1. UNCHANGED <<cacheVars, work, off, lost, stale, stage, dest, me, built>>
  BY DEF ServerStep, ServerDestroy
<1>2. /\ q \in shown /\ built[q] = Nowhere
      /\ shown' = shown \ {q} /\ at' = [at EXCEPT ![q] = Nowhere] /\ net' = Append(net, k) /\ sent' = sent + 1
      /\ moved' = (IF stage = "none" THEN moved \ {q} ELSE moved)
  BY DEF ServerDestroy, Send, Waiting
<1>3. k \in Packets /\ k.kind = "destroy"
  BY DEF Packets
<1>4. TypeOK /\ ServerOk
  BY DEF CacheInv
<1> HIDE DEF k
<1>5. PacketsOk' /\ TeleportsOk' /\ net' \in Seq(Packets)
  BY <1>1, <1>2, <1>3, OtherPacket
<1>6. moved' \subseteq Objects
  BY <1>2, <1>4 DEF TypeOK
<1>7. TypeOK'
  BY <1>1, <1>2, <1>4, <1>5, <1>6 DEF TypeOK, cacheVars
<1>8. ServerOk'
  BY <1>1, <1>2, <1>4 DEF ServerOk, TypeOK
<1>9. QED
  BY <1>5, <1>7, <1>8

LEMMA MoveKeeps ==
  ASSUME CacheInv, ServerStep, NEW q \in Objects, NEW p \in Places, ServerMove(q, p)
  PROVE  TypeOK' /\ PacketsOk' /\ TeleportsOk' /\ ServerOk'
<1> DEFINE r == [pos |-> IF q \in Mobs THEN at[q] ELSE p, to |-> p]
           k == [kind |-> "move", guid |-> q, pose |-> r]
<1>1. UNCHANGED <<cacheVars, work, off, lost, stale, stage, dest, me, shown, built>>
  BY DEF ServerStep, ServerMove
<1>2. /\ q \in shown
      /\ moved' = (IF stage = "none" THEN moved ELSE moved \cup {q})
      /\ at' = [at EXCEPT ![q] = p]
      /\ net' = Append(net, k) /\ sent' = sent + 1
  BY DEF ServerMove, Send
<1>3. TypeOK /\ ServerOk /\ at[q] \in Places
  BY <1>2 DEF CacheInv, ServerOk
<1>4. r \in Poses
  BY <1>3 DEF Poses
<1>5. k \in Packets
  BY <1>4 DEF Packets
<1>6. k.kind = "move"
  OBVIOUS
<1> HIDE DEF k, r
<1>7. PacketsOk' /\ TeleportsOk' /\ net' \in Seq(Packets)
  BY <1>1, <1>2, <1>5, <1>6, OtherPacket
<1>8. moved' \subseteq Objects
  BY <1>2, <1>3 DEF TypeOK
<1>9. TypeOK'
  BY <1>1, <1>2, <1>3, <1>7, <1>8 DEF TypeOK, cacheVars
<1>10. ServerOk'
  BY <1>1, <1>2, <1>3 DEF ServerOk, TypeOK
<1>11. QED
  BY <1>7, <1>9, <1>10

LEMMA UpdateKeeps ==
  ASSUME CacheInv, ServerStep, ServerUpdate
  PROVE  TypeOK' /\ PacketsOk' /\ TeleportsOk' /\ ServerOk'
<1>1. UNCHANGED <<cacheVars, work, off, lost, stale, me, dest, stage>>
  BY DEF ServerStep, ServerUpdate
<1>2. /\ shown' = shown \ Leaving /\ sent' = sent + 1
      /\ at' = [e \in Objects |-> IF e \in Leaving THEN Nowhere ELSE at[e]]
      /\ built' = [e \in Objects |-> Nowhere]
      /\ moved' = (IF stage = "none" THEN {} ELSE moved)
  BY DEF ServerUpdate, Leaving, Send
<1>3. PICK bs \in Seq(Blocks) :
        net' = Append(net, [kind |-> "update", blocks |-> bs]) /\ OutsFirst(bs) /\ Laid(bs)
  BY UpdateSent
<1> DEFINE k == [kind |-> "update", blocks |-> bs]
<1>4. k \in Packets /\ k.kind = "update" /\ k.blocks = bs /\ net' = Append(net, k)
  BY <1>3 DEF Packets
<1> HIDE DEF k
<1>5. TypeOK /\ ServerOk
  BY DEF CacheInv
<1>6. PacketsOk' /\ TeleportsOk' /\ net' \in Seq(Packets)
  BY <1>1, <1>3, <1>4, OtherPacket
<1>7. moved' \subseteq Objects
  BY <1>2, <1>5 DEF TypeOK
<1>8. TypeOK'
  BY <1>1, <1>2, <1>5, <1>6, <1>7 DEF TypeOK, cacheVars
<1>9. ServerOk'
  BY <1>1, <1>2, <1>5 DEF ServerOk, TypeOK
<1>10. QED
  BY <1>6, <1>8, <1>9

\* Without a teleport sent, none is under way.
LEMMA NoTeleport ==
  ASSUME TeleportsOk, stage # "sent"
  PROVE  \A i \in DOMAIN net : net[i].kind # "teleport"
BY DEF TeleportsOk

LEMMA DecideKeeps ==
  ASSUME CacheInv, ServerStep, NEW p \in Homes, ServerTeleport(p)
  PROVE  TypeOK' /\ PacketsOk' /\ TeleportsOk' /\ ServerOk'
<1>1. UNCHANGED <<cacheVars, work, off, lost, stale, net, shown, built, at, me, sent>>
  BY DEF ServerStep, ServerTeleport
<1>2. stage = "none" /\ stage' = "due" /\ moved' = {} /\ dest' = p
  BY DEF ServerTeleport
<1>3. TypeOK /\ ServerOk /\ TeleportsOk
  BY DEF CacheInv
<1>4. \A i \in DOMAIN net : net[i].kind # "teleport"
  BY <1>2, <1>3, NoTeleport
<1>5. TypeOK'
  BY <1>1, <1>2, <1>3 DEF TypeOK, cacheVars
<1>6. TeleportsOk'
  BY <1>1, <1>2, <1>4 DEF TeleportsOk
<1>7. ServerOk'
  BY <1>1, <1>3 DEF ServerOk
<1>8. QED
  BY <1>1, <1>5, <1>6, <1>7, QuietPackets

LEMMA ArriveKeeps ==
  ASSUME CacheInv, ServerStep, ServerRelocate
  PROVE  TypeOK' /\ PacketsOk' /\ TeleportsOk' /\ ServerOk'
<1>1. /\ UNCHANGED <<cacheVars, work, off, lost, stale, net, shown, built, at, dest, stage, moved, sent>>
      /\ stage # "none" /\ me' = dest
  BY DEF ServerStep, ServerRelocate
<1>2. TypeOK /\ ServerOk /\ TeleportsOk /\ dest \in Homes
  BY <1>1 DEF CacheInv, TeleportsOk
<1>3. TypeOK'
  BY <1>1, <1>2 DEF TypeOK, cacheVars
<1>4. TeleportsOk'
  BY <1>1, <1>2 DEF TeleportsOk
<1>5. ServerOk'
  BY <1>1, <1>2 DEF ServerOk
<1>6. QED
  BY <1>1, <1>3, <1>4, <1>5, QuietPackets

LEMMA AckKeeps ==
  ASSUME CacheInv, ServerStep, ServerAck
  PROVE  TypeOK' /\ PacketsOk' /\ TeleportsOk' /\ ServerOk'
<1>1. UNCHANGED <<cacheVars, work, off, lost, stale, net, shown, built, at, sent>>
  BY DEF ServerStep, ServerAck
<1>2. /\ stage = "acked" /\ stage' = "none" /\ me' = dest /\ dest' = Nowhere
      /\ moved' = {e \in shown : Distance(at[e], dest) > Sight}
  BY DEF ServerAck
<1>3. TypeOK /\ ServerOk /\ TeleportsOk /\ dest \in Homes
  BY <1>2 DEF CacheInv, TeleportsOk
<1>4. \A i \in DOMAIN net : net[i].kind # "teleport"
  BY <1>2, <1>3, NoTeleport
<1>5. moved' \subseteq Objects
  BY <1>2, <1>3 DEF TypeOK
<1>6. TypeOK'
  BY <1>1, <1>2, <1>3, <1>5 DEF TypeOK, cacheVars
<1>7. TeleportsOk'
  BY <1>1, <1>2, <1>4 DEF TeleportsOk
<1>8. ServerOk'
  BY <1>1, <1>3 DEF ServerOk
<1>9. QED
  BY <1>1, <1>6, <1>7, <1>8, QuietPackets

LEMMA TeleportKeeps ==
  ASSUME CacheInv, ServerStep, ServerTeleportSend
  PROVE  TypeOK' /\ PacketsOk' /\ TeleportsOk' /\ ServerOk'
<1> DEFINE k == [kind |-> "teleport", to |-> dest]
<1>1. UNCHANGED <<cacheVars, work, off, lost, stale, at, me, dest, moved, shown, built>>
  BY DEF ServerStep, ServerTeleportSend
<1>2. stage = "due" /\ stage' = "sent" /\ net' = Append(net, k) /\ sent' = sent + 1
  BY DEF ServerTeleportSend, Send
<1>3. TypeOK /\ ServerOk /\ TeleportsOk /\ PacketsOk /\ dest \in Homes /\ net \in Seq(Packets)
  BY <1>2 DEF CacheInv, TeleportsOk, TypeOK
<1>4. k \in Packets /\ k.kind = "teleport" /\ k.to = dest
  BY <1>3 DEF Packets
<1> HIDE DEF k
<1>5. \A i \in DOMAIN net : net[i].kind # "teleport"
  BY <1>2, <1>3, NoTeleport
<1>6. /\ Len(net) \in Nat /\ DOMAIN net = 1 .. Len(net) /\ net' \in Seq(Packets)
      /\ DOMAIN net' = 1 .. Len(net) + 1
      /\ \A i \in 1 .. Len(net) : net'[i] = net[i]
      /\ net'[Len(net) + 1] = k
  BY <1>2, <1>3, <1>4, AppendProperties, LenProperties
<1>7. \A i \in DOMAIN net' : (i \in DOMAIN net /\ net'[i] = net[i]) \/ (i = Len(net) + 1 /\ net'[i] = k)
  BY <1>6
<1>8. TypeOK'
  BY <1>1, <1>2, <1>3, <1>6 DEF TypeOK, cacheVars
<1>9. TeleportsOk'
  BY <1>1, <1>2, <1>3, <1>4, <1>5, <1>7 DEF TeleportsOk
<1>10. \A i \in DOMAIN net' : net'[i].kind = "update" => OutsFirst(net'[i].blocks) /\ Laid(net'[i].blocks)
  BY <1>3, <1>4, <1>7 DEF PacketsOk
<1>11. OutsFirst(work) /\ Laid(work) /\ (off # 0 => \A i \in DOMAIN work : work[i].guid \in lost /\ work[i].kind # "out")
  BY <1>3 DEF PacketsOk
<1>12. PacketsOk'
  BY <1>1, <1>10, <1>11 DEF PacketsOk
<1>13. ServerOk'
  BY <1>1, <1>3 DEF ServerOk
<1>14. QED
  BY <1>8, <1>9, <1>12, <1>13

LEMMA WorldKeeps ==
  ASSUME CacheInv, ServerStep, NEW p \in Homes, ServerNewWorld(p)
  PROVE  TypeOK' /\ PacketsOk' /\ TeleportsOk' /\ ServerOk'
<1> DEFINE k == [kind |-> "world", to |-> p]
<1>1. UNCHANGED <<cacheVars, work, off, lost, stale, dest, stage>>
  BY DEF ServerStep, ServerNewWorld
<1>2. /\ net' = Append(net, k) /\ sent' = sent + 1 /\ shown' = {} /\ me' = p /\ moved' = {}
      /\ at' = [o \in Objects |-> Nowhere] /\ built' = [o \in Objects |-> Nowhere]
  BY DEF ServerNewWorld, Send
<1>3. TypeOK /\ ServerOk
  BY DEF CacheInv
<1>4. k \in Packets /\ k.kind = "world"
  BY DEF Packets
<1> HIDE DEF k
<1>5. PacketsOk' /\ TeleportsOk' /\ net' \in Seq(Packets)
  BY <1>1, <1>2, <1>4, OtherPacket
<1>6. TypeOK'
  BY <1>1, <1>2, <1>3, <1>5 DEF TypeOK, cacheVars
<1>7. ServerOk'
  BY <1>2 DEF ServerOk
<1>8. QED
  BY <1>5, <1>6, <1>7

\* The packets, the first and the rest.
LEMMA HeadPacket ==
  ASSUME NEW q \in Seq(Packets), q # <<>>
  PROVE  /\ Head(q) \in Packets /\ 1 \in DOMAIN q /\ Head(q) = q[1]
         /\ Tail(q) \in Seq(Packets)
         /\ \A i \in DOMAIN Tail(q) : i + 1 \in DOMAIN q /\ Tail(q)[i] = q[i + 1] /\ i \in Nat /\ i > 0
<1> DEFINE r == Tail(q)
<1>1. /\ Len(q) \in Nat \ {0} /\ Head(q) = q[1] /\ Len(r) = Len(q) - 1
      /\ DOMAIN q = 1 .. Len(q) /\ DOMAIN r = 1 .. Len(q) - 1 /\ r \in Seq(Packets)
      /\ \A i \in 1 .. Len(q) - 1 : r[i] = q[i + 1]
  BY HeadTailProperties, EmptySeq, LenProperties
<1> HIDE DEF r
<1>2. 1 \in DOMAIN q /\ Head(q) \in Packets
  BY <1>1
<1>3. QED
  BY <1>1, <1>2 DEF r

\* The packets left, and a teleport among them.
LEMMA PacketsLeft ==
  ASSUME CacheInv, net # <<>>, net' = Tail(net), dest' = dest,
         IF Head(net).kind = "teleport" THEN stage' = "acked" ELSE stage' = stage
  PROVE  /\ TeleportsOk' /\ net' \in Seq(Packets) /\ Head(net) \in Packets /\ stage' \in {"none", "due", "sent", "acked"}
         /\ \A i \in DOMAIN net' : net'[i].kind = "update" => OutsFirst(net'[i].blocks) /\ Laid(net'[i].blocks)
<1>1. net \in Seq(Packets) /\ TeleportsOk /\ PacketsOk /\ stage \in {"none", "due", "sent", "acked"}
  BY DEF CacheInv, TypeOK
<1>2. /\ Head(net) \in Packets /\ 1 \in DOMAIN net /\ Head(net) = net[1]
      /\ net' \in Seq(Packets)
      /\ \A i \in DOMAIN net' : i + 1 \in DOMAIN net /\ net'[i] = net[i + 1] /\ i \in Nat /\ i > 0
  BY <1>1, HeadPacket
<1>3. \A i \in DOMAIN net' : net'[i].kind = "update" => OutsFirst(net'[i].blocks) /\ Laid(net'[i].blocks)
  BY <1>1, <1>2 DEF PacketsOk
<1>4. CASE Head(net).kind = "teleport"
  <2>1. stage' = "acked" /\ stage = "sent"
    BY <1>1, <1>2, <1>4 DEF TeleportsOk
  <2>2. \A i \in DOMAIN net' : net'[i].kind # "teleport"
    <3> SUFFICES ASSUME NEW i \in DOMAIN net', net'[i].kind = "teleport" PROVE FALSE
      OBVIOUS
    <3>1. i + 1 \in DOMAIN net /\ net[i + 1].kind = "teleport" /\ i + 1 # 1
      BY <1>2
    <3>2. QED
      BY <1>1, <1>2, <1>4, <3>1 DEF TeleportsOk
  <2>3. dest' \in Homes
    BY <1>1, <2>1 DEF TeleportsOk
  <2>4. QED
    BY <1>2, <1>3, <2>1, <2>2, <2>3 DEF TeleportsOk
<1>5. CASE Head(net).kind # "teleport"
  <2>1. stage' = stage
    BY <1>5
  <2>2. \A i \in DOMAIN net', j \in DOMAIN net' : i + 1 = j + 1 => i = j
    BY <1>2
  <2>3. TeleportsOk'
    BY <1>1, <1>2, <2>1, <2>2 DEF TeleportsOk
  <2>4. QED
    BY <1>1, <1>2, <1>3, <2>1, <2>3
<1>6. QED
  BY <1>4, <1>5

\* No block is left.
LEMMA EmptyWork ==
  /\ <<>> \in Seq(Blocks) /\ OutsFirst(<<>>) /\ Laid(<<>>) /\ \A i \in DOMAIN <<>> : FALSE
BY DEF OutsFirst, Laid

\* So do the steps of the read loop, packets first.
LEMMA UpdateObjectKeeps ==
  ASSUME CacheInv, UpdateObject
  PROVE  TypeOK' /\ PacketsOk' /\ TeleportsOk' /\ ServerOk'
<1>1. /\ net # <<>> /\ Head(net).kind = "update" /\ net' = Tail(net)
      /\ work' = Head(net).blocks /\ off' = 0
      /\ UNCHANGED <<serverVars, cacheVars, lost, stale>>
  BY DEF UpdateObject, Read
<1>2. TypeOK /\ ServerOk /\ PacketsOk /\ net \in Seq(Packets)
  BY DEF CacheInv, TypeOK
<1>3. dest' = dest /\ (IF Head(net).kind = "teleport" THEN stage' = "acked" ELSE stage' = stage)
  BY <1>1 DEF serverVars
<1>4. /\ TeleportsOk' /\ net' \in Seq(Packets) /\ Head(net) \in Packets
      /\ \A i \in DOMAIN net' : net'[i].kind = "update" => OutsFirst(net'[i].blocks) /\ Laid(net'[i].blocks)
  BY <1>1, <1>3, PacketsLeft
<1>5. work' \in Seq(Blocks) /\ OutsFirst(work') /\ Laid(work')
  <2>1. 1 \in DOMAIN net /\ Head(net) = net[1]
    BY <1>1, <1>2, HeadPacket
  <2>2. QED
    BY <1>1, <1>2, <1>4, <2>1, PacketKinds DEF PacketsOk
<1>6. TypeOK'
  BY <1>1, <1>2, <1>4, <1>5 DEF TypeOK, serverVars, cacheVars
<1>7. PacketsOk'
  BY <1>1, <1>4, <1>5 DEF PacketsOk
<1>8. ServerOk'
  BY <1>1, <1>2 DEF ServerOk, serverVars
<1>9. QED
  BY <1>4, <1>6, <1>7, <1>8

\* Another packet: the cache changes.
LEMMA PacketKeeps ==
  ASSUME CacheInv, NEW kind, Read(kind),
         UNCHANGED <<at, me, dest, moved, shown, built, sent, work, off>>,
         stage' = (IF kind = "teleport" THEN "acked" ELSE stage),
         entry' \in [Objects -> Entries], pose' \in [Objects -> Poses \cup {Nowhere}],
         \A o \in Objects : entry'[o] = "none" <=> pose'[o] = Nowhere,
         lost' \subseteq Objects, stale' \subseteq Objects
  PROVE  TypeOK' /\ PacketsOk' /\ TeleportsOk' /\ ServerOk'
<1>1. work = <<>> /\ net # <<>> /\ Head(net).kind = kind /\ net' = Tail(net)
  BY DEF Read
<1>2. TypeOK /\ ServerOk
  BY DEF CacheInv
<1>3. IF Head(net).kind = "teleport" THEN stage' = "acked" ELSE stage' = stage
  BY <1>1
<1>4. /\ TeleportsOk' /\ net' \in Seq(Packets) /\ stage' \in {"none", "due", "sent", "acked"}
      /\ \A i \in DOMAIN net' : net'[i].kind = "update" => OutsFirst(net'[i].blocks) /\ Laid(net'[i].blocks)
  BY <1>1, <1>3, PacketsLeft
<1>5. TypeOK'
  BY <1>2, <1>4 DEF TypeOK, Entries
<1>6. work' = <<>>
  BY <1>1
<1>7. PacketsOk'
  BY <1>4, <1>6, EmptyWork DEF PacketsOk
<1>8. ServerOk'
  BY <1>2 DEF ServerOk
<1>9. QED
  BY <1>4, <1>5, <1>7, <1>8

LEMMA MonsterKeeps ==
  ASSUME CacheInv, MonsterMove
  PROVE  TypeOK' /\ PacketsOk' /\ TeleportsOk' /\ ServerOk'
<1> DEFINE q == Head(net).guid
           r == Head(net).pose
<1>1. /\ Read("move") /\ net # <<>> /\ Head(net).kind = "move" /\ q \in Mobs
      /\ entry' = [entry EXCEPT ![q] = IF @ = "none" THEN "stub" ELSE @]
      /\ pose' = [pose EXCEPT ![q] = r]
      /\ stale' = stale \ {q} /\ lost' = lost /\ stage' = stage
      /\ UNCHANGED <<at, me, dest, moved, shown, built, sent, work, off>>
  BY DEF MonsterMove, Read, serverVars
<1>2. TypeOK /\ q \in Objects /\ r \in Poses /\ r # Nowhere
  <2>1. net \in Seq(Packets) /\ TypeOK
    BY DEF CacheInv, TypeOK
  <2>2. QED
    BY <1>1, <2>1, HeadPacket, PacketKinds, PoseIsAPlace
<1>3. entry' \in [Objects -> Entries] /\ pose' \in [Objects -> Poses \cup {Nowhere}]
  BY <1>1, <1>2 DEF TypeOK, Entries
<1>4. ASSUME NEW o \in Objects PROVE entry'[o] = "none" <=> pose'[o] = Nowhere
  <2>1. entry'[o] = (IF o = q THEN IF entry[o] = "none" THEN "stub" ELSE entry[o] ELSE entry[o])
    BY <1>1, <1>2 DEF TypeOK
  <2>2. pose'[o] = (IF o = q THEN r ELSE pose[o])
    BY <1>1, <1>2 DEF TypeOK
  <2>3. QED
    BY <1>2, <2>1, <2>2 DEF TypeOK
<1>5. lost' \subseteq Objects /\ stale' \subseteq Objects
  BY <1>1, <1>2 DEF TypeOK
<1>6. stage' = (IF "move" = "teleport" THEN "acked" ELSE stage)
  BY <1>1
<1>7. QED
  BY <1>1, <1>3, <1>4, <1>5, <1>6, PacketKeeps

LEMMA MovementKeeps ==
  ASSUME CacheInv, MovementPacket
  PROVE  TypeOK' /\ PacketsOk' /\ TeleportsOk' /\ ServerOk'
<1> DEFINE q == Head(net).guid
           r == Head(net).pose
<1>1. /\ Read("move") /\ net # <<>> /\ Head(net).kind = "move"
      /\ entry' = entry /\ lost' = lost /\ stage' = stage
      /\ UNCHANGED <<at, me, dest, moved, shown, built, sent, work, off>>
  BY DEF MovementPacket, Read, serverVars
<1>2. /\ q \in Tracked => pose' = [pose EXCEPT ![q] = r] /\ stale' = stale \ {q}
      /\ q \notin Tracked => stale' = stale \cup {q} /\ pose' = pose
  BY DEF MovementPacket
<1>3. TypeOK /\ q \in Objects /\ r \in Poses /\ r # Nowhere
  <2>1. net \in Seq(Packets) /\ TypeOK
    BY DEF CacheInv, TypeOK
  <2>2. QED
    BY <1>1, <2>1, HeadPacket, PacketKinds, PoseIsAPlace
<1>4. entry' \in [Objects -> Entries] /\ pose' \in [Objects -> Poses \cup {Nowhere}]
  BY <1>1, <1>2, <1>3 DEF TypeOK, Entries
<1>5. ASSUME NEW o \in Objects PROVE entry'[o] = "none" <=> pose'[o] = Nowhere
  <2>1. pose'[o] = (IF o = q /\ q \in Tracked THEN r ELSE pose[o])
    BY <1>2, <1>3 DEF TypeOK
  <2>2. QED
    BY <1>1, <1>3, <2>1 DEF TypeOK, Tracked
<1>6. lost' \subseteq Objects /\ stale' \subseteq Objects
  BY <1>1, <1>2, <1>3 DEF TypeOK
<1>7. stage' = (IF "move" = "teleport" THEN "acked" ELSE stage)
  BY <1>1
<1>8. QED
  BY <1>1, <1>4, <1>5, <1>6, <1>7, PacketKeeps

\* The objects leave the map.
LEMMA Dropped ==
  ASSUME TypeOK, NEW S, Drop(S)
  PROVE  /\ entry' \in [Objects -> Entries] /\ pose' \in [Objects -> Poses \cup {Nowhere}]
         /\ \A o \in Objects : entry'[o] = "none" <=> pose'[o] = Nowhere
         /\ stale' \subseteq Objects
BY DEF Drop, TypeOK, Entries

LEMMA DestroyedKeeps ==
  ASSUME CacheInv, DestroyObject
  PROVE  TypeOK' /\ PacketsOk' /\ TeleportsOk' /\ ServerOk'
<1>1. /\ Read("destroy") /\ Drop({Head(net).guid}) /\ lost' = lost \ {Head(net).guid}
      /\ UNCHANGED <<at, me, dest, moved, shown, built, sent, work, off>> /\ stage' = stage
  BY DEF DestroyObject, Withdraw, serverVars
<1>2. TypeOK
  BY DEF CacheInv
<1>3. lost' \subseteq Objects
  BY <1>1, <1>2 DEF TypeOK
<1>4. stage' = (IF "destroy" = "teleport" THEN "acked" ELSE stage)
  BY <1>1
<1>5. QED
  BY <1>1, <1>2, <1>3, <1>4, Dropped, PacketKeeps

LEMMA NewWorldKeeps ==
  ASSUME CacheInv, NewWorld
  PROVE  TypeOK' /\ PacketsOk' /\ TeleportsOk' /\ ServerOk'
<1>1. /\ Read("world") /\ Drop(Objects) /\ lost' = lost \ Objects
      /\ UNCHANGED <<at, me, dest, moved, shown, built, sent, work, off>> /\ stage' = stage
  BY DEF NewWorld, Withdraw, serverVars
<1>2. TypeOK
  BY DEF CacheInv
<1>3. lost' \subseteq Objects
  BY <1>1, <1>2 DEF TypeOK
<1>4. stage' = (IF "world" = "teleport" THEN "acked" ELSE stage)
  BY <1>1
<1>5. QED
  BY <1>1, <1>2, <1>3, <1>4, Dropped, PacketKeeps

LEMMA TeleportAckKeeps ==
  ASSUME CacheInv, MoveTeleportAck
  PROVE  TypeOK' /\ PacketsOk' /\ TeleportsOk' /\ ServerOk'
<1>1. /\ Read("teleport") /\ Drop(Pruned(Head(net).to))
      /\ lost' = lost \cup (Pruned(Head(net).to) \cap stale)
      /\ UNCHANGED <<at, me, dest, moved, shown, built, sent, work, off>> /\ stage' = "acked"
  BY DEF MoveTeleportAck
<1>2. TypeOK
  BY DEF CacheInv
<1>3. lost' \subseteq Objects
  BY <1>1, <1>2 DEF TypeOK
<1>4. stage' = (IF "teleport" = "teleport" THEN "acked" ELSE stage)
  BY <1>1
<1>5. QED
  BY <1>1, <1>2, <1>3, <1>4, Dropped, PacketKeeps

\* The blocks left.
LEMMA BlocksLeft ==
  ASSUME CacheInv, work # <<>>, work' = Tail(work)
  PROVE  work' \in Seq(Blocks) /\ OutsFirst(work') /\ Laid(work')
<1>1. work \in Seq(Blocks) /\ OutsFirst(work) /\ Laid(work)
  BY DEF CacheInv, TypeOK, PacketsOk
<1>2. /\ work' \in Seq(Blocks)
      /\ \A i \in DOMAIN work' : i + 1 \in DOMAIN work /\ work'[i] = work[i + 1] /\ i \in Nat /\ i > 0
  BY <1>1, HeadBlock
<1>3. Laid(work')
  BY <1>1, <1>2 DEF Laid
<1>4. \A i \in DOMAIN work', j \in DOMAIN work' : j < i => j + 1 < i + 1
  BY <1>2
<1>5. OutsFirst(work')
  BY <1>1, <1>2, <1>4 DEF OutsFirst
<1>6. QED
  BY <1>2, <1>3, <1>5

\* A block is applied: the cache changes.
LEMMA BlockKeeps ==
  ASSUME CacheInv, work # <<>>, work' = Tail(work), UNCHANGED <<serverVars, net>>, off' \in Int,
         off' # 0 => \A i \in DOMAIN work' : work'[i].guid \in lost' /\ work'[i].kind # "out",
         entry' \in [Objects -> Entries], pose' \in [Objects -> Poses \cup {Nowhere}],
         \A o \in Objects : entry'[o] = "none" <=> pose'[o] = Nowhere,
         lost' \subseteq Objects, stale' \subseteq Objects
  PROVE  TypeOK' /\ PacketsOk' /\ TeleportsOk' /\ ServerOk'
<1>1. TypeOK /\ ServerOk /\ TeleportsOk /\ PacketsOk
  BY DEF CacheInv
<1>2. work' \in Seq(Blocks) /\ OutsFirst(work') /\ Laid(work')
  BY BlocksLeft
<1>3. TypeOK'
  BY <1>1, <1>2 DEF TypeOK, serverVars, Entries
<1>4. \A i \in DOMAIN net : net[i].kind = "update" => OutsFirst(net[i].blocks) /\ Laid(net[i].blocks)
  BY <1>1 DEF PacketsOk
<1>5. PacketsOk'
  BY <1>2, <1>4 DEF PacketsOk
<1>6. TeleportsOk'
  BY <1>1 DEF TeleportsOk, serverVars
<1>7. ServerOk'
  BY <1>1 DEF ServerOk, serverVars
<1>8. QED
  BY <1>3, <1>5, <1>6, <1>7

LEMMA ValuesKeepAll ==
  ASSUME CacheInv, ValuesBlock
  PROVE  TypeOK' /\ PacketsOk' /\ TeleportsOk' /\ ServerOk'
<1> DEFINE g == Head(work).guid
           words == MaskBlocks[g]
           short == g \notin Tracked /\ words > SkipCap
<1>1. /\ work # <<>> /\ off = 0 /\ Head(work).kind = "values" /\ work' = Tail(work)
      /\ UNCHANGED <<serverVars, net, cacheVars, stale>>
      /\ off' = (IF g \in Tracked THEN ReadValues(words, 1, 0) ELSE SkipValues(words, 1, 0))
                - WrittenValues(words, 1, 0)
      /\ lost' = IF short THEN lost \cup {b.guid : b \in Range(Tail(work))} ELSE lost
  BY DEF ValuesBlock, Block
<1>2. TypeOK /\ work \in Seq(Blocks) /\ OutsFirst(work)
  BY DEF CacheInv, TypeOK, PacketsOk
<1>3. g \in Objects /\ words \in Nat
  BY <1>1, <1>2, HeadBlock, BlockKinds, LayoutAssumption
<1>4. off' \in Int /\ (~short => off' = 0)
  <2> HIDE DEF g, words
  <2>1. /\ ReadValues(words, 1, 0) \in Int /\ SkipValues(words, 1, 0) \in Int /\ WrittenValues(words, 1, 0) \in Int
    BY <1>3 DEF ReadValues, SkipValues, WrittenValues, SkipCap
  <2>2. /\ ReadValues(words, 1, 0) = WrittenValues(words, 1, 0)
        /\ words <= SkipCap => SkipValues(words, 1, 0) = WrittenValues(words, 1, 0)
    BY <1>3, ValuesPathsAgree
  <2>3. SkipCap \in Nat
    BY DEF SkipCap
  <2>4. QED
    BY <1>1, <1>3, <2>1, <2>2, <2>3
<1>5. \A b \in Range(Tail(work)) : b \in Blocks
  BY <1>1, <1>2, HeadBlock DEF Range
<1>6. lost' \subseteq Objects
  <2>1. CASE short
    BY <1>1, <1>2, <1>5, <2>1, BlockKinds DEF TypeOK
  <2>2. CASE ~short
    BY <1>1, <1>2, <2>2 DEF TypeOK
  <2>3. QED
    BY <2>1, <2>2
<1>7. ASSUME off' # 0, NEW i \in DOMAIN work' PROVE work'[i].guid \in lost' /\ work'[i].kind # "out"
  <2>1. short
    BY <1>4, <1>7
  <2>2. work'[i] \in Range(Tail(work))
    BY <1>1, <1>7 DEF Range
  <2>3. work'[i].guid \in lost'
    BY <1>1, <2>1, <2>2
  <2>4. i + 1 \in DOMAIN work /\ work'[i] = work[i + 1] /\ 1 \in DOMAIN work /\ work[1].kind = "values" /\ 1 < i + 1
    BY <1>1, <1>2, <1>7, HeadBlock
  <2>5. QED
    BY <1>2, <2>3, <2>4 DEF OutsFirst
<1>8. /\ entry' \in [Objects -> Entries] /\ pose' \in [Objects -> Poses \cup {Nowhere}]
      /\ \A o \in Objects : entry'[o] = "none" <=> pose'[o] = Nowhere
      /\ stale' \subseteq Objects
  BY <1>1, <1>2 DEF TypeOK, cacheVars, Entries
<1>9. QED
  BY <1>1, <1>4, <1>6, <1>7, <1>8, BlockKeeps

LEMMA MovementBlockKeeps ==
  ASSUME CacheInv, MovementBlock
  PROVE  TypeOK' /\ PacketsOk' /\ TeleportsOk' /\ ServerOk'
<1> DEFINE g == Head(work).guid
           r == Head(work).pose
<1>1. /\ work # <<>> /\ Head(work).kind = "movement" /\ work' = Tail(work)
      /\ UNCHANGED <<serverVars, net, entry, lost>>
      /\ pose' = [pose EXCEPT ![g] = IF g \in Tracked THEN r ELSE @]
      /\ stale' = stale \ {g}
      /\ off' = (IF g \in Tracked THEN ReadMovement(Head(work).layout, g \in Mobs) ELSE SkipMovement(Head(work).layout))
                - WrittenMovement(Head(work).layout)
  BY DEF MovementBlock, Block
<1>2. TypeOK /\ work \in Seq(Blocks) /\ g \in Objects /\ r \in Poses /\ r # Nowhere
  BY <1>1, HeadBlock, BlockKinds, PoseIsAPlace DEF CacheInv, TypeOK
<1>3. off' = 0
  <2>1. (g \in Mobs) \in BOOLEAN /\ Head(work).kind \in {"create", "movement"}
    BY <1>1
  <2>2. CASE g \in Tracked
    <3>1. off' = ReadMovement(Head(work).layout, g \in Mobs) - WrittenMovement(Head(work).layout)
      BY <2>2 DEF MovementBlock
    <3>2. QED
      BY <1>1, <2>1, <3>1, InStep
  <2>3. CASE g \notin Tracked
    <3>1. off' = SkipMovement(Head(work).layout) - WrittenMovement(Head(work).layout)
      BY <2>3 DEF MovementBlock
    <3>2. QED
      BY <1>1, <2>1, <3>1, InStep
  <2>4. QED
    BY <2>2, <2>3
<1>4. pose' \in [Objects -> Poses \cup {Nowhere}] /\ entry' \in [Objects -> Entries]
  BY <1>1, <1>2 DEF TypeOK, Entries
<1>5. ASSUME NEW o \in Objects PROVE entry'[o] = "none" <=> pose'[o] = Nowhere
  <2>1. pose'[o] = (IF o = g /\ g \in Tracked THEN r ELSE pose[o])
    BY <1>1, <1>2 DEF TypeOK
  <2>2. QED
    BY <1>1, <1>2, <2>1 DEF TypeOK, Tracked
<1>6. lost' \subseteq Objects /\ stale' \subseteq Objects
  BY <1>1, <1>2 DEF TypeOK
<1>7. QED
  BY <1>1, <1>3, <1>4, <1>5, <1>6, BlockKeeps

LEMMA CreateKeeps ==
  ASSUME CacheInv, CreateBlock
  PROVE  TypeOK' /\ PacketsOk' /\ TeleportsOk' /\ ServerOk'
<1> DEFINE g == Head(work).guid
           r == Head(work).pose
<1>1. /\ work # <<>> /\ Head(work).kind = "create" /\ work' = Tail(work)
      /\ UNCHANGED <<serverVars, net>>
      /\ entry' = [entry EXCEPT ![g] = "full"]
      /\ pose' = [pose EXCEPT ![g] = Created(g, r)]
      /\ lost' = lost \ {g}
      /\ stale' = IF g \notin Tracked THEN stale
                  ELSE IF r.pos = pose[g].pos THEN stale \cup {g} ELSE stale \ {g}
      /\ off' = ReadMovement(Head(work).layout, g \in Mobs) - WrittenMovement(Head(work).layout)
  BY DEF CreateBlock, Block
<1>2. TypeOK /\ work \in Seq(Blocks) /\ g \in Objects /\ r \in Poses /\ r # Nowhere
  BY <1>1, HeadBlock, BlockKinds, PoseIsAPlace DEF CacheInv, TypeOK
<1>3. off' = 0
  <2>1. (g \in Mobs) \in BOOLEAN /\ Head(work).kind \in {"create", "movement"}
    BY <1>1
  <2>2. QED
    BY <1>1, <2>1, InStep
<1>4. Created(g, r) \in Poses /\ Created(g, r) # Nowhere
  BY <1>2, PoseIsAPlace DEF Created, Tracked, TypeOK
<1>5. entry' \in [Objects -> Entries] /\ pose' \in [Objects -> Poses \cup {Nowhere}]
  BY <1>1, <1>2, <1>4 DEF TypeOK, Entries
<1>6. ASSUME NEW o \in Objects PROVE entry'[o] = "none" <=> pose'[o] = Nowhere
  <2>1. /\ entry'[o] = (IF o = g THEN "full" ELSE entry[o])
        /\ pose'[o] = (IF o = g THEN Created(g, r) ELSE pose[o])
    BY <1>1, <1>2 DEF TypeOK
  <2>2. QED
    BY <1>2, <1>4, <2>1 DEF TypeOK
<1>7. lost' \subseteq Objects /\ stale' \subseteq Objects
  BY <1>1, <1>2 DEF TypeOK
<1>8. QED
  BY <1>1, <1>3, <1>5, <1>6, <1>7, BlockKeeps

LEMMA OutKeeps ==
  ASSUME CacheInv, OutBlock
  PROVE  TypeOK' /\ PacketsOk' /\ TeleportsOk' /\ ServerOk'
<1>1. /\ work # <<>> /\ off = 0 /\ work' = Tail(work) /\ off' = 0
      /\ UNCHANGED <<serverVars, net>>
      /\ Drop({Head(work).guid}) /\ lost' = lost \ {Head(work).guid}
  BY DEF OutBlock, Block, Withdraw
<1>2. TypeOK
  BY DEF CacheInv
<1>3. lost' \subseteq Objects
  BY <1>1, <1>2 DEF TypeOK
<1>4. QED
  BY <1>1, <1>2, <1>3, Dropped, BlockKeeps

LEMMA MisparseKeeps ==
  ASSUME CacheInv, Misparse
  PROVE  TypeOK' /\ PacketsOk' /\ TeleportsOk' /\ ServerOk'
<1>1. work' = <<>> /\ UNCHANGED <<serverVars, net, cacheVars, off, lost, stale>>
  BY DEF Misparse
<1>2. TypeOK /\ ServerOk /\ TeleportsOk /\ PacketsOk
  BY DEF CacheInv
<1>3. TypeOK'
  BY <1>1, <1>2, EmptyWork DEF TypeOK, serverVars, cacheVars
<1>4. \A i \in DOMAIN net : net[i].kind = "update" => OutsFirst(net[i].blocks) /\ Laid(net[i].blocks)
  BY <1>2 DEF PacketsOk
<1>5. PacketsOk'
  BY <1>1, <1>4, EmptyWork DEF PacketsOk
<1>6. TeleportsOk'
  BY <1>1, <1>2 DEF TeleportsOk, serverVars
<1>7. ServerOk'
  BY <1>1, <1>2 DEF ServerOk, serverVars
<1>8. QED
  BY <1>3, <1>5, <1>6, <1>7

\* All the steps of the server.
LEMMA ServerAccountKeeps ==
  ASSUME CacheInv, ServerStep
  PROVE  TypeOK' /\ PacketsOk' /\ TeleportsOk' /\ ServerOk'
<1> DEFINE Goal == TypeOK' /\ PacketsOk' /\ TeleportsOk' /\ ServerOk'
<1>1. ASSUME NEW q \in Objects, ServerBuild(q) PROVE Goal
  BY <1>1, BuildKeeps
<1>2. ASSUME NEW q \in Objects, ServerDestroy(q) PROVE Goal
  BY <1>2, DestroyKeeps
<1>3. ASSUME NEW q \in Objects, NEW p \in Places, ServerMove(q, p) PROVE Goal
  BY <1>3, MoveKeeps
<1>4. CASE ServerUpdate
  BY <1>4, UpdateKeeps
<1>5. ASSUME NEW p \in Homes, ServerTeleport(p) PROVE Goal
  BY <1>5, DecideKeeps
<1>6. ASSUME NEW p \in Homes, ServerNewWorld(p) PROVE Goal
  BY <1>6, WorldKeeps
<1>7. CASE ServerRelocate
  BY <1>7, ArriveKeeps
<1>8. CASE ServerTeleportSend
  BY <1>8, TeleportKeeps
<1>9. CASE ServerAck
  BY <1>9, AckKeeps
<1>10. QED
  BY <1>1, <1>2, <1>3, <1>4, <1>5, <1>6, <1>7, <1>8, <1>9 DEF ServerStep

\* Every step keeps the invariant, and it holds at the start.
LEMMA CacheStep ==
  ASSUME CacheInv, [Next]_vars
  PROVE  CacheInv'
<1>1. CASE UNCHANGED vars
  <2>1. TypeOK /\ PacketsOk /\ TeleportsOk /\ ServerOk
    BY DEF CacheInv
  <2>2. PacketsOk'
    <3>1. UNCHANGED <<cacheVars, work, off, lost, stale, net>>
      BY <1>1 DEF vars
    <3>2. QED
      BY <3>1, QuietPackets
  <2>3. TypeOK' /\ TeleportsOk' /\ ServerOk'
    BY <1>1, <2>1 DEF vars, serverVars, cacheVars, TypeOK, TeleportsOk, ServerOk
  <2>4. \A o \in Objects : Followed(o)'
    BY FollowedStep
  <2>5. QED
    BY <2>2, <2>3, <2>4 DEF CacheInv
<1>2. CASE Next
  <2>1. TypeOK' /\ PacketsOk' /\ TeleportsOk' /\ ServerOk'
    BY <1>2, ServerAccountKeeps, UpdateObjectKeeps, ValuesKeepAll, MovementBlockKeeps, CreateKeeps, OutKeeps,
       MisparseKeeps, MonsterKeeps, MovementKeeps, DestroyedKeeps, TeleportAckKeeps, NewWorldKeeps
    DEF Next, ReadLoopStep
  <2>2. \A o \in Objects : Followed(o)'
    BY FollowedStep
  <2>3. QED
    BY <2>1, <2>2 DEF CacheInv
<1>3. QED
  BY <1>1, <1>2

LEMMA CacheInitially == Init => CacheInv
<1> SUFFICES ASSUME Init PROVE CacheInv
  OBVIOUS
<1> USE DEF Init
<1>1. TypeOK
  BY EmptyWork DEF TypeOK
<1>2. net = <<>> /\ work = <<>> /\ off = 0 /\ shown = {}
  OBVIOUS
<1>3. PacketsOk
  BY <1>2, EmptyWork DEF PacketsOk
<1>4. TeleportsOk /\ ServerOk
  BY <1>2, EmptyWork DEF TeleportsOk, ServerOk
<1>5. ASSUME NEW o \in Objects PROVE Followed(o)
  <2>1. Held(Blank, Blank, entry[o], pose[o], o \in stale, o \in lost, off)
    <3>1. entry[o] = "none" /\ pose[o] = Nowhere /\ (o \in stale) = FALSE /\ (o \in lost) = FALSE
      OBVIOUS
    <3>2. QED
      BY <3>1, Withdrawn
  <2>2. BlocksTo(o, Blank, work, Blank)
    BY <1>2 DEF BlocksTo
  <2>3. LeadsTo(o, Blank, net, Blank)
    BY <1>2, PathNowhere, BlankView
  <2>4. (o \in shown) = FALSE
    BY <1>2
  <2>5. Told(o, Blank, o \in shown, built[o], at[o], o \in moved, stage, dest, me)
    BY <2>4 DEF Told
  <2>6. QED
    BY <2>1, <2>2, <2>3, <2>5, BlankView DEF Followed, Course
<1>6. QED
  BY <1>1, <1>3, <1>4, <1>5 DEF CacheInv

\* With nothing under way, the client holds what the server's account says of it.
LEMMA SettledView ==
  ASSUME CacheInv, Settled, NEW o \in Objects, o \notin lost
  PROVE  IF o \in shown
         THEN /\ entry[o] = "full"
              /\ o \in Mobs /\ o \notin stale => pose[o].to = at[o]
         ELSE entry[o] = "none"
<1>1. net = <<>> /\ work = <<>> /\ stage = "none" /\ built[o] = Nowhere
  BY DEF Settled, Waiting
<1>2. TypeOK /\ ServerOk /\ Followed(o)
  BY DEF CacheInv
<1> DEFINE sh == o \in shown
           mv == o \in moved
           s == o \in stale
<1>3. PICK x \in Views, y \in Views, z \in Views :
        /\ Held(x, y, entry[o], pose[o], s, o \in lost, off)
        /\ BlocksTo(o, x, work, y)
        /\ LeadsTo(o, y, net, z)
        /\ Told(o, z, sh, built[o], at[o], mv, stage, dest, me)
  BY <1>2 DEF Followed, Course
<1>4. y = x /\ z = y
  <2>1. y = x
    BY <1>1, <1>3, EmptyWork DEF BlocksTo
  <2>2. z = y
    <3>1. LeadsTo(o, y, <<>>, z)
      BY <1>1, <1>3
    <3>2. QED
      BY <3>1, PathNowhere
  <2>3. QED
    BY <2>1, <2>2
<1>5. x.entry = entry[o] /\ x.pose = pose[o] /\ x.stale = s /\ ~x.lost
  BY <1>3 DEF Held
<1>6. Told(o, x, sh, Nowhere, at[o], mv, "none", dest, me)
  <2> HIDE DEF sh, mv
  <2>1. QED
    BY <1>1, <1>3, <1>4
<1>7. CASE o \in shown
  <2>1. sh = TRUE
    BY <1>7
  <2>2. Told(o, x, TRUE, Nowhere, at[o], mv, "none", dest, me)
    BY <1>6, <2>1
  <2>3. Distance(at[o], me) <= Sight /\ Distance(at[o], me) \in Nat
    BY <1>2, <1>7, PoseIsAPlace, DistanceIs DEF Settled, InSight, TypeOK, ServerOk
  <2>4. ~Far(x, at[o], mv, "none", dest, me)
    BY <2>3, Sizes DEF Far
  <2>5. x.created /\ Near(o, x, Nowhere, at[o])
    BY <1>5, <2>2, <2>4 DEF Told
  <2>6. x.entry = "full" /\ (o \in Mobs /\ ~x.stale => x.pose.to = at[o])
    BY <2>5 DEF Near
  <2>7. QED
    BY <1>5, <1>7, <2>6
<1>8. CASE o \notin shown
  <2>1. sh = FALSE
    BY <1>8
  <2>2. x = Blank
    BY <1>6, <2>1 DEF Told
  <2>3. QED
    BY <1>5, <1>8, <2>2 DEF Blank
<1>9. QED
  BY <1>7, <1>8

-----------------------------------------------------------------------------
(* What holds of the cache. *)

\* The types, the shape of the packets, the server's account, and the course of views of
\* every object are inductive: every send of the server and every read of the client keeps
\* what the client will hold in agreement with the account.
THEOREM CacheInvHolds == Spec => []CacheInv
<1>1. CacheInv /\ [Next]_vars => CacheInv'
  BY CacheStep
<1>2. QED
  BY <1>1, CacheInitially, PTL DEF Spec

\* The cache, the packets and the server's account keep their types, and an object has a
\* pose exactly when it has an entry.
THEOREM CacheTypesHold == Spec => []TypeOK
<1>1. CacheInv => TypeOK
  BY DEF CacheInv
<1>2. QED
  BY <1>1, CacheInvHolds, PTL

\* Once the packets under way are read, w.objects holds exactly the objects the server takes
\* the client to have, with what their create blocks said, except those behind a values
\* block skipped short and those pruned by a pose that missed their last move: no order of
\* creates, moves, withdrawals and teleports loses another object, or keeps one.
THEOREM CacheHoldsWhatIsShown == Spec => []CacheIsWhatIsShown
<1>1. CacheInv => CacheIsWhatIsShown
  BY SettledView DEF CacheIsWhatIsShown
<1>2. QED
  BY <1>1, CacheInvHolds, PTL

\* Then the cache has each mob where the server says it is or walks to, however its moves
\* and its create block overtook each other, unless the block had the very position the
\* last of those moves started from.
THEOREM PosesAreFresh == Spec => []PoseIsFresh
<1>1. CacheInv => PoseIsFresh
  BY SettledView DEF PoseIsFresh, CacheInv, TypeOK
<1>2. QED
  BY <1>1, CacheInvHolds, PTL

=============================================================================
