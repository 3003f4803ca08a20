-------------------------- MODULE EngagementProofs --------------------------
(***************************************************************************)
(* Proofs about Engagement, for any mobs, factions and number of packets   *)
(* in flight: no mob is written off without a reason.                      *)
(*                                                                         *)
(* The tick marks the units it finds unfit in the cache.  They are unfit   *)
(* for a reason, as the cache holds every other unit alive; a unit created *)
(* without health is one the server has withdrawn before, in the order of  *)
(* the packets.                                                            *)
(***************************************************************************)
EXTENDS Engagement, SequenceTheorems, TLAPS

\* With the first n packets of q read, there is a reason to take u for dead.
Explained(q, known, u, n) ==
  u \in known \/ \E j \in 1 .. n : q[j].kind = "gone" /\ q[j].unit = u

\* A unit out of sight was withdrawn, and so was one that is to be created.
Explains(q, known, shown) ==
  /\ \A u \in Mobs \ shown : Explained(q, known, u, Len(q))
  /\ \A i \in 1 .. Len(q) : q[i].kind = "create" => Explained(q, known, q[i].unit, i - 1)

Reasons ==
  /\ \A u \in Mobs : cache[u] # "alive" => u \in excused
  /\ knownDead \subseteq excused
  /\ pc = "drop" => seen \in excused

IInv == TypeOK /\ Reasons /\ Explains(queue, excused, visible)

-----------------------------------------------------------------------------
(* The packets in flight. *)

\* What is known already stays known.
LEMMA KnownGrows ==
  ASSUME NEW q \in Seq(Packets), NEW known, NEW more, known \subseteq more, NEW shown,
         Explains(q, known, shown)
  PROVE  Explains(q, more, shown)
BY DEF Explains, Explained

LEMMA PacketsFollow ==
  ASSUME NEW q \in Seq(Packets), NEW known, NEW shown, NEW ps \in Seq(Packets),
         Explains(q, known, shown), \A i \in 1 .. Len(ps) : ps[i].kind # "create"
  PROVE  Explains(q \o ps, known, shown)
<1> DEFINE r == q \o ps
<1>1. /\ r \in Seq(Packets) /\ Len(r) = Len(q) + Len(ps) /\ Len(q) \in Nat /\ Len(ps) \in Nat
      /\ \A i \in 1 .. Len(q) + Len(ps) : r[i] = IF i <= Len(q) THEN q[i] ELSE ps[i - Len(q)]
  BY ConcatProperties
<1> HIDE DEF r
<1>2. \A i \in 1 .. Len(q) : r[i] = q[i] /\ i \in 1 .. Len(r)
  BY <1>1
<1>3. \A i \in 1 .. Len(r) : r[i].kind = "create" => i \in 1 .. Len(q)
  <2> SUFFICES ASSUME NEW i \in 1 .. Len(r), i > Len(q) PROVE r[i].kind # "create"
    BY <1>1
  <2>1. r[i] = ps[i - Len(q)] /\ i - Len(q) \in 1 .. Len(ps)
    BY <1>1
  <2> QED
    BY <2>1
<1>4. ASSUME NEW u, NEW n \in 0 .. Len(q), Explained(q, known, u, n)
      PROVE  Explained(r, known, u, n) /\ Explained(r, known, u, Len(r))
  BY <1>1, <1>2, <1>4 DEF Explained
<1>5. \A u \in Mobs \ shown : Explained(r, known, u, Len(r))
  BY <1>1, <1>4 DEF Explains
<1>6. \A i \in 1 .. Len(r) : r[i].kind = "create" => Explained(r, known, r[i].unit, i - 1)
  <2> SUFFICES ASSUME NEW i \in 1 .. Len(r), r[i].kind = "create"
               PROVE  Explained(r, known, r[i].unit, i - 1)
    OBVIOUS
  <2>1. i \in 1 .. Len(q) /\ r[i] = q[i] /\ i - 1 \in 0 .. Len(q)
    BY <1>1, <1>2, <1>3
  <2>2. Explained(q, known, q[i].unit, i - 1)
    BY <2>1 DEF Explains
  <2> QED
    BY <1>4, <2>1, <2>2
<1> QED
  BY <1>5, <1>6 DEF Explains, r

\* A unit leaves sight, or comes back.
LEMMA SightFollows ==
  ASSUME NEW q \in Seq(Packets), NEW known, NEW shown, Explains(q, known, shown),
         NEW p \in Packets, p.unit \in Mobs
  PROVE  /\ p.kind = "gone" => Explains(Append(q, p), known, shown \ {p.unit})
         /\ p.kind = "create" /\ p.unit \notin shown
            => Explains(Append(q, p), known, shown \cup {p.unit})
<1> DEFINE r == Append(q, p)
<1>1. /\ r \in Seq(Packets) /\ Len(r) = Len(q) + 1 /\ Len(q) \in Nat /\ r[Len(q) + 1] = p
      /\ \A i \in 1 .. Len(q) : r[i] = q[i]
  OBVIOUS
<1> HIDE DEF r
<1>2. ASSUME NEW u, NEW n \in 0 .. Len(q), Explained(q, known, u, n)
      PROVE  Explained(r, known, u, n) /\ Explained(r, known, u, Len(r))
  BY <1>1, <1>2 DEF Explained
<1>3. \A i \in 1 .. Len(q) : r[i].kind = "create" => Explained(r, known, r[i].unit, i - 1)
  <2> SUFFICES ASSUME NEW i \in 1 .. Len(q), r[i].kind = "create"
               PROVE  Explained(r, known, r[i].unit, i - 1)
    OBVIOUS
  <2>1. r[i] = q[i] /\ i - 1 \in 0 .. Len(q) /\ Explained(q, known, q[i].unit, i - 1)
    BY <1>1 DEF Explains
  <2> QED
    BY <1>2, <2>1
<1>4. \A u \in Mobs \ shown : Explained(r, known, u, Len(r)) /\ Explained(r, known, u, Len(q))
  BY <1>1, <1>2 DEF Explains
<1>5. \A i \in 1 .. Len(r) : i \in 1 .. Len(q) \/ (i = Len(q) + 1 /\ r[i] = p)
  BY <1>1
<1>6. CASE p.kind = "gone"
  <2>1. Explained(r, known, p.unit, Len(r))
    BY <1>1, <1>6 DEF Explained
  <2>2. \A i \in 1 .. Len(r) : r[i].kind = "create" => Explained(r, known, r[i].unit, i - 1)
    BY <1>3, <1>5, <1>6
  <2> QED
    BY <1>4, <1>6, <2>1, <2>2 DEF Explains, r
<1>t. CASE p.kind = "create" /\ p.unit \notin shown
  <2>1. \A i \in 1 .. Len(r) : r[i].kind = "create" => Explained(r, known, r[i].unit, i - 1)
    BY <1>1, <1>3, <1>4, <1>5, <1>t
  <2> QED
    BY <1>4, <1>t, <2>1 DEF Explains, r
<1> QED
  BY <1>6, <1>t DEF r

\* A packet is read; a withdrawal is a reason.
LEMMA PacketIsRead ==
  ASSUME NEW q \in Seq(Packets), q # <<>>, NEW known, NEW shown, Explains(q, known, shown),
         NEW more, known \subseteq more, Head(q).kind = "gone" => Head(q).unit \in more
  PROVE  /\ Explains(Tail(q), more, shown) /\ Head(q) \in Packets /\ Tail(q) \in Seq(Packets)
         /\ Head(q).kind = "create" => Head(q).unit \in more
<1> DEFINE r == Tail(q)
<1>1. /\ r \in Seq(Packets) /\ Len(q) = Len(r) + 1 /\ Len(r) \in Nat
      /\ q[1] = Head(q) /\ q[1] \in Packets
      /\ \A i \in 1 .. Len(r) : r[i] = q[i + 1]
  OBVIOUS
<1> HIDE DEF r
<1>2. ASSUME NEW u, NEW n \in 0 .. Len(r), Explained(q, known, u, n + 1)
      PROVE  Explained(r, more, u, n)
  <2>1. CASE u \in known
    BY <2>1 DEF Explained
  <2>2. ASSUME NEW j \in 1 .. n + 1, q[j].kind = "gone", q[j].unit = u
        PROVE  Explained(r, more, u, n)
    <3>1. CASE j = 1
      BY <1>1, <2>2, <3>1 DEF Explained
    <3>2. CASE j # 1
      <4>1. j - 1 \in 1 .. n /\ j - 1 \in 1 .. Len(r) /\ (j - 1) + 1 = j
        BY <1>1, <3>2
      <4>2. r[j - 1] = q[j]
        BY <1>1, <4>1
      <4> QED
        BY <2>2, <4>1, <4>2 DEF Explained
    <3> QED
      BY <3>1, <3>2
  <2> QED
    BY <1>2, <2>1, <2>2 DEF Explained
<1>3. \A u \in Mobs \ shown : Explained(r, more, u, Len(r))
  <2>1. \A u \in Mobs \ shown : Explained(q, known, u, Len(r) + 1)
    BY <1>1 DEF Explains
  <2> QED
    BY <1>1, <1>2, <2>1
<1>4. \A i \in 1 .. Len(r) : r[i].kind = "create" => Explained(r, more, r[i].unit, i - 1)
  <2> SUFFICES ASSUME NEW i \in 1 .. Len(r), r[i].kind = "create"
               PROVE  Explained(r, more, r[i].unit, i - 1)
    OBVIOUS
  <2>1. i + 1 \in 1 .. Len(q) /\ r[i] = q[i + 1] /\ (i + 1) - 1 = (i - 1) + 1
        /\ i - 1 \in 0 .. Len(r)
    BY <1>1
  <2>2. Explained(q, known, q[i + 1].unit, (i + 1) - 1)
    BY <2>1 DEF Explains
  <2> QED
    BY <1>2, <2>1, <2>2
<1>5. Head(q).kind = "create" => Head(q).unit \in more
  <2>1. q[1].kind = "create" => Explained(q, known, q[1].unit, 1 - 1)
    BY <1>1 DEF Explains
  <2> QED
    BY <1>1, <2>1 DEF Explained
<1> QED
  BY <1>1, <1>3, <1>4, <1>5 DEF Explains, r

-----------------------------------------------------------------------------
(* What the steps do to the packets, the marks and the list of the dead. *)

\* Packets that create nothing are sent, or none.
Follows ==
  \/ queue' = queue
  \/ \E ps \in Seq(Packets) :
       queue' = queue \o ps /\ \A i \in 1 .. Len(ps) : ps[i].kind # "create"

LEMMA FollowKeeps ==
  ASSUME IInv, Follows, visible' = visible, excused \subseteq excused'
  PROVE  queue' \in Seq(Packets) /\ Explains(queue', excused', visible')
<1>1. queue \in Seq(Packets) /\ Explains(queue, excused', visible)
  BY KnownGrows DEF IInv, TypeOK
<1>2. CASE queue' = queue
  BY <1>1, <1>2
<1>3. ASSUME NEW ps \in Seq(Packets), queue' = queue \o ps,
             \A i \in 1 .. Len(ps) : ps[i].kind # "create"
      PROVE  queue' \in Seq(Packets) /\ Explains(queue', excused', visible')
  BY <1>1, <1>3, PacketsFollow
<1> QED
  BY <1>2, <1>3 DEF Follows

LEMMA OneFollows ==
  ASSUME NEW p \in Packets, p.kind # "create", queue' = queue \o <<p>>
  PROVE  Follows
<1>1. <<p>> \in Seq(Packets) /\ \A i \in 1 .. Len(<<p>>) : <<p>>[i].kind # "create"
  OBVIOUS
<1> QED
  BY <1>1 DEF Follows

LEMMA PacketTypes ==
  ASSUME None \notin Mobs, NEW k \in Kinds, NEW u \in Guids, NEW f \in BOOLEAN,
         u \in Mobs \/ k \in {"stop", "terminal", "transient"}
  PROVE  Packet(k, u, f) \in Packets /\ Packet(k, u, f).kind = k /\ Packet(k, u, f).unit = u
BY DEF Packet, Packets

LEMMA AnswersFollow == ASSUME IInv, NEW u \in Guids, Answered(u) PROVE Follows
<1>1. living \subseteq Mobs /\ queue \in Seq(Packets) /\ None \notin Mobs
  BY EngagementAssumption DEF IInv, TypeOK
<1>2. PICK ps \in SwingAnswers(u) : queue' \in {queue, queue \o ps}
  BY DEF Answered
<1>3. CASE ps = <<>>
  BY <1>1, <1>2, <1>3 DEF Follows
<1>4. ASSUME NEW k \in {"start", "transient", "terminal", "stop"}, NEW v \in {u, None},
             v \in Mobs \/ k # "start", ps = <<Packet(k, v, FALSE)>>
      PROVE  Follows
  <2>1. Packet(k, v, FALSE) \in Packets /\ Packet(k, v, FALSE).kind # "create"
    <3>1. v \in Guids /\ k \in Kinds /\ (v \in Mobs \/ k \in {"stop", "terminal", "transient"})
      BY <1>4 DEF Kinds, Guids
    <3> QED
      BY <1>1, <3>1, PacketTypes
  <2> QED
    BY <1>2, <1>4, <2>1, OneFollows DEF Follows
<1>5. \/ ps = <<>>
      \/ \E k \in {"start", "transient", "terminal", "stop"}, v \in {u, None} :
           (v \in Mobs \/ k # "start") /\ ps = <<Packet(k, v, FALSE)>>
  BY <1>1, <1>2 DEF SwingAnswers
<1> QED
  BY <1>3, <1>4, <1>5

LEMMA StopFollows == ASSUME IInv, StopAnswered PROVE Follows
<1>1. attacking \in Guids /\ None \notin Mobs
  BY EngagementAssumption DEF IInv, TypeOK
<1>2. Packet("stop", attacking, FALSE) \in Packets /\ Packet("stop", attacking, FALSE).kind # "create"
  BY <1>1, PacketTypes DEF Kinds
<1> QED
  BY <1>2, OneFollows DEF StopAnswered, Send, Follows

\* A unit found unfit for its mark or its place on the list is one there is a reason for.
LEMMA DoomedForAReason ==
  ASSUME IInv, NEW u \in Guids, Doomed(u)
  PROVE  u = None \/ u \in excused
BY DEF IInv, TypeOK, Reasons, Doomed, IsAlive, Guids

LEMMA MarkedForAReason ==
  ASSUME IInv, NEW u, excused \subseteq excused', u = None \/ u \in excused', MarkObjectDead(u)
  PROVE  cache' \in [Mobs -> Entries] /\ \A v \in Mobs : cache'[v] # "alive" => v \in excused'
<1>1. cache \in [Mobs -> Entries] /\ \A v \in Mobs : cache[v] # "alive" => v \in excused'
  BY DEF IInv, TypeOK, Reasons
<1>2. cache' = cache \/ (u # None /\ cache' = [cache EXCEPT ![u] = "dead"])
  BY DEF MarkObjectDead, DeadIn
<1> QED
  BY <1>1, <1>2 DEF Entries

LEMMA ListedForAReason ==
  ASSUME IInv, NEW u \in Guids, excused \subseteq excused', u = None \/ u \in excused',
         MarkKnownDead(u)
  PROVE  /\ cache' \in [Mobs -> Entries] /\ \A v \in Mobs : cache'[v] # "alive" => v \in excused'
         /\ knownDead' \subseteq Mobs /\ knownDead' \subseteq excused'
<1>1. MarkObjectDead(u) /\ knownDead' = knownDead \cup ({u} \ {None})
  BY DEF MarkKnownDead
<1>2. knownDead \subseteq Mobs /\ knownDead \subseteq excused
  BY DEF IInv, TypeOK, Reasons
<1>3. knownDead' \subseteq Mobs /\ knownDead' \subseteq excused'
  BY <1>1, <1>2 DEF Guids
<1> QED
  BY <1>1, <1>3, MarkedForAReason

\* A scan only takes units off the list.
LEMMA ScanTypes ==
  ASSUME IInv, NEW best, FindBest(best)
  PROVE  best \in Guids /\ knownDead' \subseteq knownDead
BY DEF FindBest, Candidates, IInv, TypeOK, Guids

-----------------------------------------------------------------------------
(* The server. *)

\* What the steps of the server leave alone.
LEMMA SettledKeeps ==
  ASSUME IInv, Settled, UNCHANGED hostile, living' \subseteq Mobs, visible' \subseteq Mobs,
         queue' \in Seq(Packets), Explains(queue', excused, visible')
  PROVE  IInv'
<1>1. UNCHANGED <<cache, target, attacking, inCombat, knownDead, handling, pc, seen, grind, fights,
                  engages, timed, excused>>
  BY DEF Settled, flags, ai, tree
<1> QED
  BY <1>1 DEF IInv, TypeOK, Reasons

LEMMA ServerKeeps == ASSUME IInv, ServerStep PROVE IInv'
<1>1. /\ living \subseteq Mobs /\ visible \subseteq Mobs /\ queue \in Seq(Packets) /\ None \notin Mobs
      /\ attacking \in Guids
  BY EngagementAssumption DEF IInv, TypeOK
<1>2. \A k \in Kinds, u \in Mobs, f \in BOOLEAN :
        /\ Packet(k, u, f) \in Packets /\ Packet(k, u, f).kind = k /\ Packet(k, u, f).unit = u
  BY <1>1, PacketTypes DEF Guids
<1>3. ASSUME Settled, UNCHANGED <<visible, hostile>>, living' \subseteq living, Follows
      PROVE  IInv'
  <2>1. UNCHANGED excused
    BY <1>3 DEF Settled
  <2> QED
    BY <1>1, <1>3, <2>1, FollowKeeps, SettledKeeps
<1>4. ASSUME NEW u \in Mobs, ServerHit(u) PROVE IInv'
  <2>1. PICK mine \in BOOLEAN, stops \in BOOLEAN :
          queue' = queue \o (<<Packet("hit", u, mine)>>
                             \o (IF stops THEN <<Packet("stop", u, FALSE)>> ELSE <<>>))
    BY <1>4 DEF ServerHit, Send
  <2> DEFINE hit == Packet("hit", u, mine)
             stop == Packet("stop", u, FALSE)
  <2>2. hit \in Packets /\ hit.kind # "create" /\ stop \in Packets /\ stop.kind # "create"
    BY <1>2 DEF Kinds
  <2> HIDE DEF hit, stop
  <2>3. /\ <<hit>> \o <<>> \in Seq(Packets) /\ <<hit>> \o <<stop>> \in Seq(Packets)
        /\ \A i \in 1 .. Len(<<hit>> \o <<>>) : (<<hit>> \o <<>>)[i].kind # "create"
        /\ \A i \in 1 .. Len(<<hit>> \o <<stop>>) : (<<hit>> \o <<stop>>)[i].kind # "create"
    BY <2>2
  <2>4. queue' = queue \o (<<hit>> \o <<>>) \/ queue' = queue \o (<<hit>> \o <<stop>>)
    BY <2>1 DEF hit, stop
  <2>5. Follows
    BY <2>3, <2>4 DEF Follows
  <2> QED
    BY <1>3, <1>4, <2>5 DEF ServerHit
<1>5. ASSUME NEW u \in Mobs, ServerDeath(u) \/ ServerValues(u) \/ ServerAggro(u) PROVE IInv'
  <2>1. PICK k \in {"values", "start"}, f \in BOOLEAN : queue' = queue \o <<Packet(k, u, f)>>
    BY <1>5 DEF ServerDeath, ServerValues, ServerAggro, Send
  <2>2. Packet(k, u, f) \in Packets /\ Packet(k, u, f).kind # "create"
    BY <1>2 DEF Kinds
  <2>3. Follows
    BY <2>1, <2>2, OneFollows
  <2> QED
    BY <1>3, <1>5, <2>3 DEF ServerDeath, ServerValues, ServerAggro, server
<1>6. ASSUME NEW u \in Mobs, ServerSight(u) PROVE IInv'
  <2>1. Explains(queue, excused, visible)
    BY DEF IInv
  <2>2. PICK p \in Packets : /\ p.unit = u /\ queue' = queue \o <<p>>
                             /\ \/ p.kind = "gone" /\ visible' = visible \ {u}
                                \/ p.kind = "create" /\ u \notin visible /\ visible' = visible \cup {u}
    <3>1. CASE u \in visible
      <4>1. /\ visible' = visible \ {u} /\ queue' = queue \o <<Packet("gone", u, FALSE)>>
        BY <1>6, <3>1 DEF ServerSight, Send
      <4>2. Packet("gone", u, FALSE) \in Packets /\ Packet("gone", u, FALSE).kind = "gone"
            /\ Packet("gone", u, FALSE).unit = u
        BY <1>2 DEF Kinds
      <4> QED
        BY <4>1, <4>2
    <3>2. CASE u \notin visible
      <4>0. (u \in living) \in BOOLEAN
        OBVIOUS
      <4>1. PICK f \in BOOLEAN :
              visible' = visible \cup {u} /\ queue' = queue \o <<Packet("create", u, f)>>
        BY <1>6, <3>2, <4>0 DEF ServerSight, Send
      <4>2. Packet("create", u, f) \in Packets /\ Packet("create", u, f).kind = "create"
            /\ Packet("create", u, f).unit = u
        BY <1>2 DEF Kinds
      <4> QED
        BY <3>2, <4>1, <4>2
    <3> QED
      BY <3>1, <3>2
  <2>3. queue' = Append(queue, p) /\ queue' \in Seq(Packets)
    BY <1>1, <2>2
  <2>4. Explains(queue', excused, visible')
    <3>1. /\ p.kind = "gone" => Explains(Append(queue, p), excused, visible \ {p.unit})
          /\ p.kind = "create" /\ p.unit \notin visible
             => Explains(Append(queue, p), excused, visible \cup {p.unit})
      BY <1>1, <2>1, <2>2, SightFollows
    <3> QED
      BY <2>2, <2>3, <3>1
  <2>5. Settled /\ UNCHANGED <<living, hostile>> /\ visible' \subseteq Mobs
    BY <1>1, <1>6, <2>2 DEF ServerSight
  <2> QED
    BY <1>1, <2>3, <2>4, <2>5, SettledKeeps
<1> QED
  BY <1>4, <1>5, <1>6 DEF ServerStep

-----------------------------------------------------------------------------
(* The read loop. *)

\* What both loops may do to the marks, the list and the flags.
Marked ==
  /\ excused \subseteq excused' /\ excused' \subseteq Mobs
  /\ cache' \in [Mobs -> Entries] /\ \A u \in Mobs : cache'[u] # "alive" => u \in excused'
  /\ knownDead' \subseteq Mobs /\ knownDead' \subseteq excused'

Flagged == target' \in Guids /\ attacking' \in Guids /\ inCombat' \in BOOLEAN

LEMMA FlagsStay ==
  ASSUME IInv
  PROVE  /\ UNCHANGED flags => Flagged
         /\ Disengage => Flagged
<1>1. target \in Guids /\ attacking \in Guids /\ inCombat \in BOOLEAN /\ None \in Guids
  BY DEF IInv, TypeOK, Guids
<1>2. UNCHANGED flags => Flagged
  BY <1>1 DEF flags, Flagged
<1>3. Disengage => Flagged
  BY <1>1 DEF Flagged, Disengage, ClearCombat
<1> QED
  BY <1>2, <1>3

LEMMA MarksStay ==
  ASSUME IInv, UNCHANGED <<cache, excused>>, knownDead' \subseteq knownDead
  PROVE  Marked
BY DEF IInv, TypeOK, Reasons, Marked

LEMMA ReadTypes ==
  ASSUME IInv, queue' \in Seq(Packets), Explains(queue', excused', visible'), Marked, Flagged,
         UNCHANGED <<server, ai>>, timed' \in BOOLEAN,
         handling' \in {[at |-> a, unit |-> u] : a \in {"none", "compare", "clear"}, u \in Guids}
  PROVE  IInv'
<1>1. UNCHANGED <<living, visible, hostile, pc, seen, grind, fights, engages>>
  BY DEF server, ai, tree
<1>2. TypeOK'
  BY <1>1 DEF IInv, TypeOK, Marked, Flagged
<1>3. Reasons'
  BY <1>1 DEF IInv, Reasons, Marked
<1> QED
  BY <1>2, <1>3 DEF IInv

LEMMA OnePacketRead ==
  ASSUME IInv, NEW k, Reading(k), UNCHANGED server, excused \subseteq excused',
         k = "gone" => Unit \in excused'
  PROVE  /\ queue' \in Seq(Packets) /\ Explains(queue', excused', visible')
         /\ Unit \in Guids /\ (Unit = None => k \in {"stop", "terminal", "transient"}) /\ Flag \in BOOLEAN
         /\ k = "create" => Unit \in excused'
<1>1. /\ queue # <<>> /\ Head(queue).kind = k /\ queue' = Tail(queue) /\ visible' = visible
      /\ queue \in Seq(Packets) /\ Explains(queue, excused, visible)
  BY DEF Reading, IInv, TypeOK, server
<1>2. /\ Explains(Tail(queue), excused', visible) /\ Head(queue) \in Packets
      /\ Tail(queue) \in Seq(Packets)
      /\ Head(queue).kind = "create" => Head(queue).unit \in excused'
  BY <1>1, PacketIsRead DEF Unit
<1>3. Unit \in Guids /\ (Unit = None => k \in {"stop", "terminal", "transient"}) /\ Flag \in BOOLEAN
  BY <1>1, <1>2 DEF Packets, Unit, Flag
<1> QED
  BY <1>1, <1>2, <1>3 DEF Unit

LEMMA ReadKeeps == ASSUME IInv, ReadStep PROVE IInv'
<1>0. /\ cache \in [Mobs -> Entries] /\ \A u \in Mobs : cache[u] # "alive" => u \in excused
      /\ knownDead \subseteq Mobs /\ knownDead \subseteq excused /\ excused \subseteq Mobs
      /\ target \in Guids /\ attacking \in Guids /\ inCombat \in BOOLEAN /\ timed \in BOOLEAN
      /\ handling \in {[at |-> a, unit |-> u] : a \in {"none", "compare", "clear"}, u \in Guids}
      /\ None \notin Mobs /\ Guids = Mobs \cup {None} /\ queue \in Seq(Packets)
  BY EngagementAssumption DEF IInv, TypeOK, Reasons, Guids
<1>t. None \in Guids /\ Guids = Mobs \cup {None} /\ target \in Guids /\ attacking \in Guids
       /\ inCombat \in BOOLEAN /\ timed \in BOOLEAN
  BY <1>0
<1>1. CASE ReadHit
  <2>1. Reading("hit") /\ UNCHANGED <<server, flags, ai, timed>> /\ excused' = excused \cup {Unit}
    BY <1>1 DEF ReadHit
  <2>2. /\ queue' \in Seq(Packets) /\ Explains(queue', excused', visible') /\ Unit \in Mobs
    <3>1. excused \subseteq excused'
      BY <2>1
    <3>2. /\ queue' \in Seq(Packets) /\ Explains(queue', excused', visible') /\ Unit \in Guids
          /\ (Unit = None => "hit" \in {"stop", "terminal", "transient"})
      BY <2>1, <3>1, OnePacketRead
    <3> QED
      BY <1>t, <3>2
  <2>3. /\ cache' \in [Mobs -> Entries] /\ \A u \in Mobs : cache'[u] # "alive" => u \in excused'
    BY <1>1, <2>1, MarkedForAReason DEF ReadHit
  <2>4. /\ knownDead' \subseteq Mobs /\ knownDead' \subseteq excused'
        /\ handling' \in {[at |-> a, unit |-> u] : a \in {"none", "compare", "clear"}, u \in Guids}
    BY <1>0, <1>1, <2>1, <2>2 DEF ReadHit
  <2>5. Marked /\ Flagged
    BY <1>0, <2>1, <2>2, <2>3, <2>4, FlagsStay DEF Marked
  <2> QED
    BY <1>0, <2>1, <2>2, <2>4, <2>5, ReadTypes
<1>2. CASE KillCompare \/ KillClear
  <2>6. UNCHANGED <<server, cache, knownDead, ai, excused>>
    BY <1>2 DEF KillCompare, KillClear
  <2>1. timed' \in BOOLEAN
    <3>1. timed' = timed \/ timed' = FALSE
      BY <1>2 DEF KillCompare, KillClear
    <3> QED
      BY <1>t, <3>1
  <2>5. handling' \in {[at |-> a, unit |-> u] : a \in {"none", "compare", "clear"}, u \in Guids}
    <3>1. /\ handling.at \in {"none", "compare", "clear"} /\ handling.unit \in Guids
          /\ handling = [at |-> handling.at, unit |-> handling.unit]
      BY <1>0
    <3>2. [handling EXCEPT !.at = "clear"] = [at |-> "clear", unit |-> handling.unit]
      BY <3>1
    <3>3. \/ handling' = [at |-> "clear", unit |-> handling.unit]
          \/ handling' = [at |-> "none", unit |-> None]
      BY <1>2, <3>2 DEF KillCompare, KillClear
    <3> QED
      BY <1>t, <3>1, <3>3
  <2>2. Follows /\ Flagged
    BY <1>2, FlagsStay, StopFollows DEF KillCompare, KillClear, Follows
  <2>3. queue' \in Seq(Packets) /\ Explains(queue', excused', visible')
    BY <2>6, <2>2, FollowKeeps DEF server
  <2>4. Marked
    BY <2>6, MarksStay
  <2> QED
    BY <2>6, <2>1, <2>2, <2>3, <2>4, <2>5, ReadTypes
<1>3. CASE ReadValues
  <2>1. /\ Reading("values") /\ UNCHANGED <<server, flags, knownDead, handling, ai, timed>>
        /\ excused \subseteq excused' /\ excused' \subseteq excused \cup {Unit}
        /\ ~Flag => Unit \in excused'
        /\ cache' = [cache EXCEPT ![Unit] = ValuesIn(@, Flag)]
    BY <1>3 DEF ReadValues
  <2>2. /\ queue' \in Seq(Packets) /\ Explains(queue', excused', visible') /\ Unit \in Mobs
        /\ Flag \in BOOLEAN
    BY <1>0, <2>1, OnePacketRead
  <2>3. /\ ValuesIn(cache[Unit], Flag) \in Entries
        /\ ValuesIn(cache[Unit], Flag) # "alive" => cache[Unit] # "alive" \/ ~Flag
    BY <1>0, <2>2 DEF ValuesIn, Entries
  <2>4. Marked
    BY <1>0, <2>1, <2>2, <2>3 DEF Marked
  <2> QED
    BY <1>0, <2>1, <2>2, <2>4, FlagsStay, ReadTypes
<1>4. CASE ReadGone \/ ReadCreate
  <2> DEFINE k == Head(queue).kind
  <2>1. /\ Reading(k) /\ k \in {"gone", "create"} /\ excused \subseteq excused'
        /\ UNCHANGED <<server, flags, knownDead, handling, ai, timed>>
        /\ k = "gone" => excused' = excused \cup {Unit}
        /\ k = "create" => excused' = excused
        /\ \E e \in {"absent", "alive", "zero"} : cache' = [cache EXCEPT ![Unit] = e]
    BY <1>4 DEF ReadGone, ReadCreate, Reading
  <2> HIDE DEF k
  <2>2. /\ queue' \in Seq(Packets) /\ Explains(queue', excused', visible') /\ Unit \in Mobs
        /\ Unit \in excused'
    BY <1>0, <2>1, OnePacketRead
  <2>3. Marked
    BY <1>0, <2>1, <2>2 DEF Marked, Entries
  <2> QED
    BY <1>0, <2>1, <2>2, <2>3, FlagsStay, ReadTypes
<1>5. CASE ReadAttackStart \/ ReadAttackStop \/ ReadTransient
  <2> DEFINE k == Head(queue).kind
  <2>1. /\ Reading(k) /\ k \in {"start", "stop", "transient"}
        /\ UNCHANGED <<server, cache, knownDead, handling, ai, timed, excused>>
    BY <1>5 DEF ReadAttackStart, ReadAttackStop, ReadTransient, Reading
  <2> HIDE DEF k
  <2>2. /\ queue' \in Seq(Packets) /\ Explains(queue', excused', visible') /\ Unit \in Guids
        /\ Flag \in BOOLEAN
    BY <1>0, <2>1, OnePacketRead
  <2>3. Flagged
    <3>1. CASE ReadAttackStart
      <4>1. inCombat' \in BOOLEAN /\ target' \in {Unit, target} /\ attacking' = attacking
        BY <1>0, <2>2, <3>1 DEF ReadAttackStart
      <4> QED
        BY <1>0, <2>2, <4>1 DEF Flagged
    <3>2. CASE ReadAttackStop \/ ReadTransient
      <4>1. inCombat' \in {inCombat, FALSE} /\ target' \in {None, target} /\ attacking' = None
        BY <3>2 DEF ReadAttackStop, ReadTransient
      <4> QED
        BY <1>t, <4>1 DEF Flagged
    <3> QED
      BY <1>5, <3>1, <3>2
  <2>4. Marked
    BY <2>1, MarksStay
  <2> QED
    BY <1>0, <2>1, <2>2, <2>3, <2>4, ReadTypes
<1>6. CASE ReadTerminal
  <2>1. /\ Reading("terminal") /\ UNCHANGED <<server, handling, ai, timed>>
        /\ excused' = excused \cup ({Blamed} \ {None}) /\ MarkKnownDead(Blamed) /\ Disengage
    BY <1>6 DEF ReadTerminal
  <2>2. /\ queue' \in Seq(Packets) /\ Explains(queue', excused', visible') /\ Unit \in Guids
    BY <2>1, OnePacketRead
  <2>3. Blamed \in Guids
    BY <1>0, <2>2 DEF Blamed
  <2>4. /\ excused \subseteq excused' /\ excused' \subseteq Mobs
        /\ Blamed = None \/ Blamed \in excused'
    BY <1>0, <2>1, <2>3
  <2>5. Marked
    <3>1. /\ cache' \in [Mobs -> Entries] /\ \A v \in Mobs : cache'[v] # "alive" => v \in excused'
          /\ knownDead' \subseteq Mobs /\ knownDead' \subseteq excused'
      BY <2>1, <2>3, <2>4, ListedForAReason
    <3> QED
      BY <2>4, <3>1 DEF Marked
  <2> QED
    BY <1>0, <2>1, <2>2, <2>5, FlagsStay, ReadTypes
<1> QED
  BY <1>1, <1>2, <1>3, <1>4, <1>5, <1>6 DEF ReadStep

-----------------------------------------------------------------------------
(* The AI loop. *)

LEMMA TickTypes ==
  ASSUME IInv, Follows, Marked, Flagged, UNCHANGED <<server, handling>>,
         pc' \in Steps, pc' = "drop" => seen' \in excused', seen' \in Guids, grind' \in Guids,
         timed' \in BOOLEAN, fights' \in BOOLEAN, engages' \in BOOLEAN
  PROVE  IInv'
<1>1. UNCHANGED <<living, visible, hostile>> /\ excused \subseteq excused'
  BY DEF server, Marked
<1>2. queue' \in Seq(Packets) /\ Explains(queue', excused', visible')
  BY <1>1, FollowKeeps
<1>3. TypeOK'
  BY <1>1, <1>2 DEF IInv, TypeOK, Marked, Flagged
<1>4. Reasons'
  BY <1>1 DEF IInv, Reasons, Marked
<1> QED
  BY <1>2, <1>3, <1>4 DEF IInv

\* The steps that write nobody off: they look, select, swing and go on.
LEMMA LooksKeep ==
  ASSUME IInv,
         Cleanup \/ UnstickAndTick \/ Pick \/ Repick \/ Strike \/ Reseek \/ CheckFight \/ Close
           \/ Find \/ Engage \/ JudgeFight \/ Commit \/ Wander
  PROVE  IInv'
<1>1. UNCHANGED <<server, handling, cache, excused>>
  BY DEF Cleanup, UnstickAndTick, Pick, Repick, Strike, Reseek, CheckFight, Close, Find, Engage,
         JudgeFight, Commit, Wander
<1>2. /\ target \in Guids /\ attacking \in Guids /\ inCombat \in BOOLEAN /\ timed \in BOOLEAN
      /\ seen \in Guids /\ grind \in Guids /\ fights \in BOOLEAN /\ engages \in BOOLEAN
      /\ None \in Guids
  BY DEF IInv, TypeOK, Guids
<1>3. knownDead' \subseteq knownDead
  BY ScanTypes
     DEF Cleanup, UnstickAndTick, Pick, Repick, Strike, Reseek, CheckFight, Close, Find, Engage,
         JudgeFight, Commit, Wander
<1>4. Marked
  BY <1>1, <1>3, MarksStay
<1>5. Follows
  <2>1. queue' = queue \/ Answered(seen)
    BY DEF Cleanup, UnstickAndTick, Pick, Repick, Strike, Reseek, CheckFight, Close, Find, Engage,
           JudgeFight, Commit, Wander, AttackSwing
  <2> QED
    BY <1>2, <2>1, AnswersFollow DEF Follows
<1>6. target' \in Guids /\ attacking' \in Guids /\ inCombat' \in BOOLEAN
  <2>1. /\ target' \in {target, seen, None} \/ target' \in Guids
        /\ attacking' \in {attacking, seen, None}
        /\ inCombat' \in {inCombat, TRUE, FALSE}
    BY DEF Cleanup, UnstickAndTick, Pick, Repick, Strike, Reseek, CheckFight, Close, Find, Engage,
           JudgeFight, Commit, Wander, AttackSwing, Disengage, ClearCombat, SetTarget, flags
  <2> QED
    BY <1>2, <2>1
<1>7. pc' \in Steps /\ (pc' = "drop" => Cleanup /\ target # None /\ ~IsAlive(target))
  BY DEF Cleanup, UnstickAndTick, Pick, Repick, Strike, Reseek, CheckFight, Close, Find, Engage,
         JudgeFight, Commit, Wander, Go, GoGrind, Steps
<1>8. pc' = "drop" => seen' \in excused'
  BY <1>1, <1>2, <1>7 DEF Cleanup, IsAlive, IInv, Reasons, Guids
<1>9. seen' \in Guids /\ grind' \in Guids
  <2>1. /\ seen' \in {seen, target, None, grind} \/ seen' \in Guids
        /\ grind' \in {grind, seen'} \/ grind' \in Guids
    BY DEF Cleanup, UnstickAndTick, Pick, Repick, Strike, Reseek, CheckFight, Close, Find, Engage,
           JudgeFight, Commit, Wander
  <2> QED
    BY <1>2, <2>1
<1>10. timed' \in BOOLEAN /\ fights' \in BOOLEAN /\ engages' \in BOOLEAN
  <2>1. /\ timed' \in {timed, TRUE, FALSE} /\ fights' \in {fights, TRUE, FALSE}
        /\ engages' \in {engages, TRUE}
    BY DEF Cleanup, UnstickAndTick, Pick, Repick, Strike, Reseek, CheckFight, Close, Find, Engage,
           JudgeFight, Commit, Wander, tree
  <2> QED
    BY <1>2, <2>1
<1> QED
  BY <1>1, <1>4, <1>5, <1>6, <1>7, <1>8, <1>9, <1>10, TickTypes DEF Flagged

\* The steps that write somebody off.
LEMMA WriteOffsKeep ==
  ASSUME IInv,
         DropTarget \/ Rotate \/ CheckDead \/ CheckGiveUp \/ JudgeDead \/ JudgeStuck
  PROVE  IInv'
<1>1. UNCHANGED <<server, handling>> /\ excused \subseteq excused'
  BY DEF DropTarget, Rotate, CheckDead, CheckGiveUp, JudgeDead, JudgeStuck
<1>2. /\ target \in Guids /\ attacking \in Guids /\ inCombat \in BOOLEAN /\ timed \in BOOLEAN
      /\ seen \in Guids /\ grind \in Guids /\ fights \in BOOLEAN /\ engages \in BOOLEAN
      /\ None \in Guids /\ None \notin Mobs /\ Guids = Mobs \cup {None}
      /\ knownDead \subseteq Mobs /\ excused \subseteq Mobs
  BY EngagementAssumption DEF IInv, TypeOK, Guids
<1>3. Follows
  <2>1. queue' = queue \/ StopAnswered
    BY DEF DropTarget, Rotate, CheckDead, CheckGiveUp, JudgeDead, JudgeStuck
  <2> QED
    BY <2>1, StopFollows DEF Follows
<1>4. target' \in Guids /\ attacking' \in Guids /\ inCombat' \in BOOLEAN
  <2>1. /\ target' \in {target, None} /\ attacking' \in {attacking, None}
        /\ inCombat' \in {inCombat, FALSE}
    BY DEF DropTarget, Rotate, CheckDead, CheckGiveUp, JudgeDead, JudgeStuck, Disengage, ClearCombat,
           flags
  <2> QED
    BY <1>2, <2>1
<1>5. pc' \in Steps /\ pc' # "drop"
  BY DEF DropTarget, Rotate, CheckDead, CheckGiveUp, JudgeDead, JudgeStuck, Go, GoGrind, Steps
<1>6. seen' \in Guids /\ grind' \in Guids
  <2>1. seen' \in {seen, target, None} /\ grind' \in {grind, None}
    BY DEF DropTarget, Rotate, CheckDead, CheckGiveUp, JudgeDead, JudgeStuck
  <2> QED
    BY <1>2, <2>1
<1>7. timed' \in BOOLEAN /\ fights' \in BOOLEAN /\ engages' \in BOOLEAN
  <2>1. /\ timed' \in {timed, FALSE} /\ fights' \in {fights, FALSE} /\ engages' \in {engages, FALSE}
    BY DEF DropTarget, Rotate, CheckDead, CheckGiveUp, JudgeDead, JudgeStuck, tree
  <2> QED
    BY <1>2, <2>1
<1>8. excused' \subseteq Mobs
  <2>1. excused' = excused \/ (excused' = excused \cup {seen} /\ ~Doomed(seen))
    BY DEF DropTarget, Rotate, CheckDead, CheckGiveUp, JudgeDead, JudgeStuck
  <2> QED
    BY <1>2, <2>1 DEF Doomed
<1>9. Marked
  <2>1. CASE UNCHANGED <<cache, knownDead, excused>>
    BY <2>1, MarksStay
  <2>2. ASSUME NEW u \in Guids, MarkKnownDead(u), u = None \/ u \in excused' PROVE Marked
    <3>1. /\ cache' \in [Mobs -> Entries] /\ \A v \in Mobs : cache'[v] # "alive" => v \in excused'
          /\ knownDead' \subseteq Mobs /\ knownDead' \subseteq excused'
      BY <1>1, <2>2, ListedForAReason
    <3> QED
      BY <1>1, <1>8, <3>1 DEF Marked
  <2>3. CASE DropTarget
    <3>1. UNCHANGED <<knownDead, excused>> /\ (pc = "drop" => MarkObjectDead(seen) /\ seen \in excused)
          /\ (pc # "drop" => UNCHANGED cache)
      BY <2>3 DEF DropTarget, At, IInv, Reasons
    <3>2. CASE pc # "drop"
      BY <2>1, <3>1, <3>2
    <3>3. CASE pc = "drop"
      <4>1. cache' \in [Mobs -> Entries] /\ \A v \in Mobs : cache'[v] # "alive" => v \in excused'
        BY <1>1, <3>1, <3>3, MarkedForAReason
      <4> QED
        BY <1>1, <1>2, <1>8, <3>1, <4>1 DEF Marked, IInv, Reasons
    <3> QED
      BY <3>2, <3>3
  <2>4. CASE Rotate
    BY <1>2, <2>1, <2>2, <2>4, DoomedForAReason DEF Rotate
  <2>5. CASE CheckDead \/ JudgeDead
    BY <1>2, <2>2, <2>5, DoomedForAReason DEF CheckDead, JudgeDead
  <2>6. CASE CheckGiveUp \/ JudgeStuck
    BY <1>2, <2>1, <2>2, <2>6 DEF CheckGiveUp, JudgeStuck
  <2> QED
    BY <2>3, <2>4, <2>5, <2>6
<1> QED
  BY <1>1, <1>3, <1>4, <1>5, <1>6, <1>7, <1>9, TickTypes DEF Flagged

-----------------------------------------------------------------------------
LEMMA Initially == Init => IInv
<1> SUFFICES ASSUME Init PROVE IInv
  OBVIOUS
<1>1. TypeOK
  <2>1. handling \in {[at |-> a, unit |-> u] : a \in {"none", "compare", "clear"}, u \in Guids}
    <3>1. "none" \in {"none", "compare", "clear"} /\ None \in Guids
      BY DEF Guids
    <3>2. handling = [at |-> "none", unit |-> None]
      BY DEF Init
    <3>3. \E a \in {"none", "compare", "clear"}, u \in Guids : handling = [at |-> a, unit |-> u]
      BY <3>1, <3>2
    <3> QED
      BY <3>3
  <2>2. queue \in Seq(Packets)
    <3> HIDE DEF Packets
    <3> QED
      BY EmptySeq DEF Init
  <2>3. hostile \subseteq Mobs
    BY EngagementAssumption DEF Init
  <2>4. cache \in [Mobs -> Entries]
    BY DEF Init, Entries
  <2>5. living \subseteq Mobs /\ visible \subseteq Mobs /\ knownDead \subseteq Mobs /\ excused \subseteq Mobs
    BY DEF Init
  <2>6. target \in Guids /\ attacking \in Guids /\ seen \in Guids /\ grind \in Guids
    BY DEF Init, Guids
  <2>7. pc \in Steps
    BY DEF Init, Steps
  <2>8. inCombat \in BOOLEAN /\ timed \in BOOLEAN /\ fights \in BOOLEAN /\ engages \in BOOLEAN
    BY DEF Init
  <2> QED
    BY <2>1, <2>2, <2>3, <2>4, <2>5, <2>6, <2>7, <2>8 DEF TypeOK
<1>2. Reasons
  BY DEF Init, Reasons
<1>3. Explains(queue, excused, visible)
  BY DEF Init, Explains
<1> QED
  BY <1>1, <1>2, <1>3 DEF IInv

LEMMA StepKeeps == IInv /\ [Next]_vars => IInv'
<1>1. ASSUME IInv, UNCHANGED vars PROVE IInv'
  BY <1>1 DEF vars, server, flags, tree, ai, IInv, TypeOK, Reasons
<1> QED
  BY <1>1, ServerKeeps, ReadKeeps, LooksKeep, WriteOffsKeep DEF Next, AIStep

\* The flags, the packets on the way and the tick's findings justify each other at every
\* step: the invariant behind the next two theorems.
THEOREM InvHolds == Spec => []IInv
BY Initially, StepKeeps, PTL DEF Spec

\* The types of the flags, the lists and the packets in flight.
THEOREM EngagementTypesHold == Spec => []TypeOK
BY InvHolds, PTL DEF IInv

\* No mob is marked dead or listed as dead without a reason, in whatever order the
\* packets are read and wherever the tick stands (handleAttackSwingError blames a unit
\* only for a terminal error; the tick and the rotation mark what they find unfit).
THEOREM NoneIsWrittenOffUnexcused == Spec => []OnlyExcusedAreWrittenOff
<1>1. IInv => OnlyExcusedAreWrittenOff
  BY DEF IInv, Reasons, OnlyExcusedAreWrittenOff
<1> QED
  BY <1>1, InvHolds, PTL
=============================================================================
