-------------------------- MODULE UnitHealthProofs --------------------------
(***************************************************************************)
(* Proofs about UnitHealth, for any creatures, amounts and number of       *)
(* messages.  What the client will believe once it has read the messages   *)
(* under way is determined: a course of beliefs leads there.  At its end   *)
(* stands what the server's side of the messages calls for.                *)
(***************************************************************************)
EXTENDS UnitHealth, SequenceTheorems, TLAPS

-----------------------------------------------------------------------------
(* Beliefs. *)

\* The character's health and deaths, and the health the entry of a unit has at most.
Beliefs == [own : Healths, deaths : Nat, seen : Healths]

\* The belief with message m read: of the character ...
OwnAfter(x, m) ==
  IF m.kind = "hit" THEN IF m.unit = Self THEN Minus(x.own, m.damage) ELSE x.own
  ELSE IF m.kind = "reclaim" THEN 0
  ELSE IF m.kind # "out" /\ m.unit = Self /\ "health" \in m.fields THEN m.health ELSE x.own

DeathsAfter(x, m) ==
  IF x.own > 0 /\ OwnAfter(x, m) = 0 THEN x.deaths + 1 ELSE x.deaths

\* ... and of unit u.
SeenAfter(u, x, m) ==
  IF m.kind = "reclaim" THEN x.seen
  ELSE IF m.unit # u THEN x.seen
  ELSE IF m.kind = "hit" THEN Minus(x.seen, m.damage)
  ELSE IF m.kind = "out" \/ ("dynamic" \in m.fields /\ m.lootable) THEN 0
  ELSE IF "health" \in m.fields THEN m.health ELSE x.seen

After(u, x, m) ==
  [own |-> OwnAfter(x, m), deaths |-> DeathsAfter(x, m), seen |-> SeenAfter(u, x, m)]

\* The messages q lead from belief x to belief y, and no belief on the way has more
\* deaths than y.
Leads(u, q, x, y) ==
  \E c \in [0 .. Len(q) -> Beliefs] :
    /\ c[0] = x /\ c[Len(q)] = y
    /\ \A i \in 1 .. Len(q) : c[i] = After(u, c[i - 1], q[i])
    /\ \A i \in 0 .. Len(q) : c[i].deaths <= y.deaths

LEMMA MessageTypes ==
  ASSUME NEW m \in Messages
  PROVE  /\ m.kind \in {"hit", "values", "create", "out", "reclaim"}
         /\ m.kind = "hit" => m.by \in Units /\ m.unit \in Units /\ m.damage \in Damages
         /\ m.kind \in {"values", "create"} =>
              /\ m.unit \in Units /\ m.fields \in SUBSET Fields
              /\ m.health \in Healths /\ m.lootable \in BOOLEAN
         /\ m.kind = "out" => m.unit \in Creatures
BY DEF Messages

LEMMA BeliefAfter ==
  ASSUME NEW u \in Units, NEW x \in Beliefs, NEW m \in Messages
  PROVE  After(u, x, m) \in Beliefs /\ x.deaths <= After(u, x, m).deaths
<1>1. \A a \in Healths, d \in Damages : Minus(a, d) \in Healths
  BY BoundsAssumption DEF Minus, Healths, Damages
<1>2. x.own \in Healths /\ x.deaths \in Nat /\ x.seen \in Healths
  BY DEF Beliefs
<1>3. 0 \in Healths
  BY BoundsAssumption DEF Healths
<1>4. OwnAfter(x, m) \in Healths
  BY <1>1, <1>2, <1>3, MessageTypes DEF OwnAfter
<1>5. SeenAfter(u, x, m) \in Healths
  BY <1>1, <1>2, <1>3, MessageTypes DEF SeenAfter
<1>6. DeathsAfter(x, m) \in Nat /\ x.deaths <= DeathsAfter(x, m)
  BY <1>2 DEF DeathsAfter
<1> QED
  BY <1>4, <1>5, <1>6 DEF After, Beliefs

LEMMA LeadsNowhere ==
  ASSUME NEW u, NEW x, NEW y, Leads(u, <<>>, x, y)
  PROVE  x = y
BY EmptySeq DEF Leads

LEMMA LeadsTypes ==
  ASSUME NEW u, NEW q \in Seq(Messages), NEW x, NEW y, Leads(u, q, x, y)
  PROVE  x \in Beliefs /\ y \in Beliefs /\ x.deaths <= y.deaths
<1>1. Len(q) \in Nat
  BY LenProperties
<1> QED
  BY <1>1 DEF Leads

LEMMA LeadsOn ==
  ASSUME NEW u \in Units, NEW q \in Seq(Messages), NEW x, NEW y, Leads(u, q, x, y),
         NEW m \in Messages
  PROVE  Leads(u, Append(q, m), x, After(u, y, m))
<1> DEFINE r == Append(q, m)  z == After(u, y, m)  n == Len(q)
<1>1. PICK c \in [0 .. n -> Beliefs] :
        /\ c[0] = x /\ c[n] = y
        /\ \A i \in 1 .. n : c[i] = After(u, c[i - 1], q[i])
        /\ \A i \in 0 .. n : c[i].deaths <= y.deaths
  BY DEF Leads
<1>2. n \in Nat /\ Len(r) = n + 1 /\ r[n + 1] = m /\ \A i \in 1 .. n : r[i] = q[i]
  BY LenProperties
<1>3. y \in Beliefs /\ z \in Beliefs /\ y.deaths <= z.deaths
  BY LeadsTypes, BeliefAfter
<1>4. \A b \in Beliefs : b.deaths \in Nat
  BY DEF Beliefs
<1> DEFINE d == [i \in 0 .. n + 1 |-> IF i <= n THEN c[i] ELSE z]
<1> HIDE DEF r, z, n
<1>5. d \in [0 .. n + 1 -> Beliefs] /\ d[0] = x /\ d[n + 1] = z
  BY <1>1, <1>2, <1>3
<1>6. \A i \in 1 .. n + 1 : d[i] = After(u, d[i - 1], r[i])
  <2> SUFFICES ASSUME NEW i \in 1 .. n + 1 PROVE d[i] = After(u, d[i - 1], r[i])
    OBVIOUS
  <2>1. CASE i \in 1 .. n
    <3>1. d[i] = c[i] /\ d[i - 1] = c[i - 1] /\ r[i] = q[i]
      BY <1>2, <2>1
    <3> QED
      BY <1>1, <2>1, <3>1
  <2>2. CASE i = n + 1
    <3>1. d[i] = z /\ d[i - 1] = y /\ r[i] = m
      BY <1>1, <1>2, <2>2
    <3> QED
      BY <3>1 DEF z
  <2> QED
    BY <1>2, <2>1, <2>2
<1>7. \A i \in 0 .. n + 1 : d[i].deaths <= z.deaths
  <2> SUFFICES ASSUME NEW i \in 0 .. n + 1 PROVE d[i].deaths <= z.deaths
    OBVIOUS
  <2>1. CASE i \in 0 .. n
    <3>1. d[i] = c[i] /\ c[i] \in Beliefs /\ c[i].deaths <= y.deaths
      BY <1>1, <1>2, <2>1
    <3> HIDE DEF d
    <3> QED
      BY <1>3, <1>4, <3>1
  <2>2. CASE i = n + 1
    BY <1>2, <1>3, <1>4, <2>2
  <2> QED
    BY <1>2, <2>1, <2>2
<1> HIDE DEF d
<1>8. Len(r) = n + 1
  BY <1>2
<1>9. Leads(u, r, x, z)
  BY <1>5, <1>6, <1>7, <1>8 DEF Leads
<1> QED
  BY <1>9 DEF r, z

LEMMA LeadsFromNext ==
  ASSUME NEW u \in Units, NEW q \in Seq(Messages), q # <<>>, NEW x, NEW y, Leads(u, q, x, y)
  PROVE  Leads(u, Tail(q), After(u, x, Head(q)), y)
<1> DEFINE r == Tail(q)  n == Len(Tail(q))
<1>1. n \in Nat /\ Len(q) = n + 1 /\ Head(q) = q[1] /\ \A i \in 1 .. n : r[i] = q[i + 1]
  BY HeadTailProperties, LenProperties
<1> HIDE DEF r, n
<1>2. PICK c \in [0 .. n + 1 -> Beliefs] :
        /\ c[0] = x /\ c[n + 1] = y
        /\ \A i \in 1 .. n + 1 : c[i] = After(u, c[i - 1], q[i])
        /\ \A i \in 0 .. n + 1 : c[i].deaths <= y.deaths
  BY <1>1 DEF Leads
<1> DEFINE d == [i \in 0 .. n |-> c[i + 1]]
<1>3. d \in [0 .. n -> Beliefs] /\ d[n] = y
  BY <1>1, <1>2
<1>4. d[0] = After(u, x, Head(q))
  BY <1>1, <1>2
<1>5. \A i \in 1 .. n : d[i] = After(u, d[i - 1], r[i])
  <2> SUFFICES ASSUME NEW i \in 1 .. n PROVE d[i] = After(u, d[i - 1], r[i])
    OBVIOUS
  <2>1. i + 1 \in 1 .. n + 1 /\ (i + 1) - 1 = i /\ d[i] = c[i + 1] /\ d[i - 1] = c[i] /\ r[i] = q[i + 1]
    BY <1>1
  <2>2. c[i + 1] = After(u, c[(i + 1) - 1], q[i + 1])
    BY <1>2, <2>1
  <2> QED
    BY <2>1, <2>2
<1>6. \A i \in 0 .. n : d[i].deaths <= y.deaths
  BY <1>1, <1>2
<1>7. Len(r) = n
  BY DEF r, n
<1> HIDE DEF d
<1>8. Leads(u, r, After(u, x, Head(q)), y)
  BY <1>3, <1>4, <1>5, <1>6, <1>7 DEF Leads
<1> QED
  BY <1>8 DEF r

-----------------------------------------------------------------------------
(* The inductive invariant. *)

\* Belief x is what the client holds: the entry may be less healthy still.
Matches(u, x, entries, own, count) ==
  x.own = own /\ x.deaths = count /\ entries[u].health <= x.seen

\* Belief y, with every message read, is as good as the server's H calls for: with the
\* units N damaged unseen, G grown healthier, M misled, and D deaths.
Fits(u, y, H, N, G, M, D) ==
  /\ u \notin N => y.seen <= H[u]
  /\ Self \notin N => y.own <= H[Self]
  /\ H[Self] = 0 => y.own = 0
  /\ Self \notin M => y.deaths = D
  /\ Self \notin M \cup G => H[Self] <= y.own

Foreseen ==
  \A u \in Units : \E x, y \in Beliefs :
    /\ Leads(u, reports, x, y)
    /\ Matches(u, x, cache, health, deaths)
    /\ Fits(u, y, hp, unseen, gained, misled, dead)

GhostsAreFrail == ghost => hp[Self] = 1
UntrackedAreNothing == \A u \in Units \ tracked : cache[u].health = 0

HealthInv == HealthTypeOK /\ GhostsAreFrail /\ UntrackedAreNothing /\ Foreseen

LEMMA EndsWell == HealthInv => DeathIsSeenAtOnce /\ CorpseIsKnown /\ DeathIsCountedOnce
<1> SUFFICES ASSUME HealthInv PROVE DeathIsSeenAtOnce /\ CorpseIsKnown /\ DeathIsCountedOnce
  OBVIOUS
<1>1. /\ hp \in [Units -> Healths] /\ cache \in [Units -> Entries] /\ health \in Healths
      /\ dead \in Nat /\ deaths \in Nat /\ tracked \subseteq Units /\ reports \in Seq(Messages)
  BY DEF HealthInv, HealthTypeOK
<1>2. \A u \in Units : cache[u].health \in Int /\ hp[u] \in Int
  BY <1>1 DEF Entries, Healths
<1>3. Healths \subseteq Int /\ Self \in Units
  BY DEF Healths, Units
<1>4. ASSUME NEW u \in Units, NEW x \in Beliefs, NEW y \in Beliefs, Leads(u, reports, x, y),
             Matches(u, x, cache, health, deaths),
             Fits(u, y, hp, unseen, gained, misled, dead)
      PROVE  /\ deaths <= dead \/ Self \in misled
             /\ reports = <<>> => /\ u \notin unseen => cache[u].health <= hp[u]
                                  /\ Self \notin unseen => health <= hp[Self]
                                  /\ hp[Self] = 0 => health = 0
                                  /\ deaths = dead \/ Self \in misled
  <2>1. x.deaths <= y.deaths
    BY <1>1, <1>4, LeadsTypes
  <2>2. reports = <<>> => x = y
    BY <1>4, LeadsNowhere
  <2>3. x.seen \in Int /\ x.deaths \in Int
    BY DEF Beliefs, Healths
  <2> QED
    BY <1>2, <1>4, <2>1, <2>2, <2>3 DEF Matches, Fits
<1>5. \A u \in Units :
        /\ deaths <= dead \/ Self \in misled
        /\ reports = <<>> => /\ u \notin unseen => cache[u].health <= hp[u]
                             /\ Self \notin unseen => health <= hp[Self]
                             /\ hp[Self] = 0 => health = 0
                             /\ deaths = dead \/ Self \in misled
  BY <1>4 DEF HealthInv, Foreseen
<1> QED
  BY <1>1, <1>3, <1>5 DEF DeathIsSeenAtOnce, CorpseIsKnown, DeathIsCountedOnce

LEMMA HealthInitially == HealthInit => HealthInv
<1> SUFFICES ASSUME HealthInit PROVE HealthInv
  OBVIOUS
<1>1. MaxHealth \in Healths /\ 0 \in Healths /\ Self \in Units /\ MaxHealth # 0
  BY BoundsAssumption DEF Healths, Units
<1>2. cache \in [Units -> Entries]
  BY <1>1 DEF HealthInit, NoEntry, Entries
<1>3. told \in [Units -> [health : Healths, lootable : BOOLEAN]]
  BY <1>1 DEF HealthInit
<1>4. reports \in Seq(Messages)
  BY EmptySeq DEF HealthInit
<1>5. HealthTypeOK
  BY <1>1, <1>2, <1>3, <1>4 DEF HealthInit, HealthTypeOK
<1>6. GhostsAreFrail /\ UntrackedAreNothing
  BY DEF HealthInit, GhostsAreFrail, UntrackedAreNothing, NoEntry
<1>7. Foreseen
  <2> SUFFICES ASSUME NEW u \in Units
               PROVE  \E x, y \in Beliefs :
                        /\ Leads(u, reports, x, y)
                        /\ Matches(u, x, cache, health, deaths)
                        /\ Fits(u, y, hp, unseen, gained, misled, dead)
    BY DEF Foreseen
  <2> DEFINE x == [own |-> MaxHealth, deaths |-> 0, seen |-> MaxHealth]
  <2>1. x \in Beliefs
    BY <1>1 DEF Beliefs
  <2>2. Leads(u, <<>>, x, x)
    <3> DEFINE c == [i \in 0 .. 0 |-> x]
    <3>1. Len(<<>>) = 0 /\ c \in [0 .. 0 -> Beliefs] /\ c[0] = x
      BY <2>1
    <3>2. \A i \in 0 .. 0 : c[i].deaths <= x.deaths
      OBVIOUS
    <3>3. \A i \in 1 .. 0 : c[i] = After(u, c[i - 1], (<<>>)[i])
      OBVIOUS
    <3> HIDE DEF c, x
    <3> QED
      BY <3>1, <3>2, <3>3 DEF Leads
  <2>3. Matches(u, x, cache, health, deaths)
    <3>1. cache[u].health \in {0, MaxHealth} /\ 0 <= MaxHealth
      BY BoundsAssumption DEF HealthInit, NoEntry
    <3> QED
      BY <3>1, BoundsAssumption DEF HealthInit, Matches
  <2>4. Fits(u, x, hp, unseen, gained, misled, dead)
    BY <1>1, BoundsAssumption DEF HealthInit, Fits
  <2>5. reports = <<>>
    BY DEF HealthInit
  <2> QED
    BY <2>1, <2>2, <2>3, <2>4, <2>5
<1> QED
  BY <1>5, <1>6, <1>7 DEF HealthInv

-----------------------------------------------------------------------------
(* The read loop. *)

\* A message is read, and the client's belief follows it.
LEMMA BeliefFollows ==
  ASSUME HealthInv, reports # <<>>, reports' = Tail(reports), UNCHANGED healthServerVars,
         \A u \in Units, x \in Beliefs : Matches(u, x, cache, health, deaths)
           => Matches(u, After(u, x, Head(reports)), cache', health', deaths')
  PROVE  Foreseen' /\ reports' \in Seq(Messages)
<1>1. reports \in Seq(Messages) /\ Head(reports) \in Messages /\ Tail(reports) \in Seq(Messages)
  BY HeadTailProperties DEF HealthInv, HealthTypeOK
<1> SUFFICES ASSUME NEW u \in Units
             PROVE  \E x, y \in Beliefs :
                      /\ Leads(u, reports', x, y)
                      /\ Matches(u, x, cache', health', deaths')
                      /\ Fits(u, y, hp', unseen', gained', misled', dead')
  BY <1>1 DEF Foreseen
<1>2. PICK x, y \in Beliefs :
        /\ Leads(u, reports, x, y)
        /\ Matches(u, x, cache, health, deaths)
        /\ Fits(u, y, hp, unseen, gained, misled, dead)
  BY DEF HealthInv, Foreseen
<1> DEFINE z == After(u, x, Head(reports))
<1>3. z \in Beliefs
  BY <1>1, BeliefAfter
<1>4. Leads(u, reports', z, y)
  BY <1>1, <1>2, LeadsFromNext
<1>5. Matches(u, z, cache', health', deaths')
  BY <1>2
<1>6. Fits(u, y, hp', unseen', gained', misled', dead')
  BY <1>2 DEF healthServerVars
<1> HIDE DEF z
<1> QED
  BY <1>3, <1>4, <1>5, <1>6

\* What a step of the read loop leaves to show.
LEMMA ReadKeeps ==
  ASSUME HealthInv, reports # <<>>, reports' = Tail(reports), UNCHANGED <<healthServerVars, judged>>,
         tracked' \subseteq Units, cache' \in [Units -> Entries], health' \in Healths,
         kills' \in [Units -> Nat], deaths' \in Nat,
         \A u \in Units \ tracked' : cache'[u].health = 0,
         \A u \in Units, x \in Beliefs : Matches(u, x, cache, health, deaths)
           => Matches(u, After(u, x, Head(reports)), cache', health', deaths')
  PROVE  HealthInv'
<1>1. Foreseen' /\ reports' \in Seq(Messages)
  BY BeliefFollows
<1>2. HealthTypeOK'
  BY <1>1 DEF HealthInv, HealthTypeOK, healthServerVars
<1>3. GhostsAreFrail' /\ UntrackedAreNothing'
  BY DEF HealthInv, GhostsAreFrail, UntrackedAreNothing, healthServerVars
<1> QED
  BY <1>1, <1>2, <1>3 DEF HealthInv

\* What is known of the state when message Head(reports) is read.
LEMMA Reading ==
  ASSUME HealthInv, NEW kind, Arrives(kind)
  PROVE  /\ reports # <<>> /\ reports' = Tail(reports) /\ UNCHANGED <<healthServerVars, judged>>
         /\ Head(reports) \in Messages /\ Head(reports).kind = kind
         /\ tracked \subseteq Units /\ cache \in [Units -> Entries] /\ health \in Healths
         /\ kills \in [Units -> Nat] /\ deaths \in Nat
         /\ \A u \in Units \ tracked : cache[u].health = 0
BY HeadTailProperties DEF HealthInv, HealthTypeOK, UntrackedAreNothing, Arrives

LEMMA Arithmetic ==
  /\ \A a \in Healths, d \in Damages :
       Minus(a, d) \in Healths /\ (Minus(a, d) = 0 <=> d >= a) /\ (a > d => Minus(a, d) = a - d)
  /\ \A a, b \in Healths, d \in Damages : a <= b => Minus(a, d) <= Minus(b, d)
  /\ \A a \in Healths : 0 <= a /\ a <= a /\ a \in Int
  /\ 0 \in Healths
BY BoundsAssumption DEF Minus, Healths, Damages

LEMMA HitKeeps == HealthInv /\ AttackerStateUpdate => HealthInv'
<1> SUFFICES ASSUME HealthInv, AttackerStateUpdate PROVE HealthInv'
  OBVIOUS
<1> DEFINE m == Head(reports)
<1>1. Arrives("hit")
  BY DEF AttackerStateUpdate
<1>2. /\ reports # <<>> /\ reports' = Tail(reports) /\ UNCHANGED <<healthServerVars, judged>>
      /\ m \in Messages /\ m.kind = "hit"
      /\ tracked \subseteq Units /\ cache \in [Units -> Entries] /\ health \in Healths
      /\ kills \in [Units -> Nat] /\ deaths \in Nat
      /\ \A u \in Units \ tracked : cache[u].health = 0
  BY <1>1, Reading
<1>3. m.unit \in Units /\ m.damage \in Damages
  BY <1>2, MessageTypes
<1> DEFINE d == m.damage  v == m.unit
<1>4. /\ tracked' = tracked
      /\ health' = IF v = Self THEN Minus(health, d) ELSE health
      /\ deaths' = IF v = Self /\ health > 0 /\ d >= health THEN deaths + 1 ELSE deaths
      /\ kills' = IF Kills(m) THEN [kills EXCEPT ![v] = @ + 1] ELSE kills
      /\ cache' = ApplyLocalDamage(IF Kills(m) THEN MarkObjectDead(cache, v) ELSE cache, v, d)
  BY DEF AttackerStateUpdate
<1>5. \A u \in Units : cache[u] \in Entries /\ cache[u].health \in Healths
  BY <1>2 DEF Entries
<1>6. DeadEntry \in Entries /\ DeadEntry.health = 0
  BY Arithmetic DEF DeadEntry, Entries
<1>7. \A e \in Entries, h \in Healths : [e EXCEPT !.health = h] \in Entries /\ [e EXCEPT !.health = h].health = h
  BY DEF Entries
<1> HIDE DEF m, d, v
<1>8. v \in Units /\ d \in Damages
  BY <1>3 DEF v, d
<1> DEFINE e == IF Kills(m) THEN MarkObjectDead(cache, v) ELSE cache
<1>9. /\ e \in [Units -> Entries] /\ e[v].health \in Healths /\ e[v].health <= cache[v].health
      /\ \A u \in Units \ {v} : e[u] = cache[u]
      /\ v \notin tracked => e = cache
  BY <1>2, <1>5, <1>6, <1>8, Arithmetic DEF MarkObjectDead
<1> HIDE DEF e
<1>10. cache' = ApplyLocalDamage(e, v, d)
  BY <1>4 DEF e
<1>11. e[v] \in Entries
  BY <1>8, <1>9
<1>12. ApplyLocalDamage(e, v, d) =
         IF v \notin tracked THEN e
         ELSE [e EXCEPT ![v] = IF e[v].health > d THEN [e[v] EXCEPT !.health = Minus(e[v].health, d)]
                                                  ELSE DeadEntry]
  BY <1>8, <1>9, Arithmetic DEF ApplyLocalDamage, MarkObjectDead
<1>13. cache' \in [Units -> Entries] /\ \A u \in Units \ {v} : cache'[u] = cache[u]
  BY <1>6, <1>7, <1>8, <1>9, <1>10, <1>11, <1>12, Arithmetic
<1>14. v \in tracked => cache'[v].health = Minus(e[v].health, d)
  <2> SUFFICES ASSUME v \in tracked PROVE cache'[v].health = Minus(e[v].health, d)
    OBVIOUS
  <2>1. Minus(e[v].health, d) \in Healths /\ (~(e[v].health > d) => Minus(e[v].health, d) = 0)
    BY <1>8, <1>9, Arithmetic DEF Healths, Damages
  <2>2. cache'[v] = IF e[v].health > d THEN [e[v] EXCEPT !.health = Minus(e[v].health, d)] ELSE DeadEntry
    BY <1>8, <1>9, <1>10, <1>12
  <2> QED
    BY <1>6, <1>7, <1>11, <2>1, <2>2
<1>15. v \notin tracked => cache' = cache
  BY <1>9, <1>10, <1>12
<1>16. health' \in Healths /\ deaths' \in Nat
  BY <1>2, <1>4, <1>8, Arithmetic
<1>17. kills' \in [Units -> Nat]
  BY <1>2, <1>4, <1>8
<1>18. \A u \in Units \ tracked' : cache'[u].health = 0
  BY <1>2, <1>4, <1>13, <1>15
<1>19. ASSUME NEW u \in Units, NEW x \in Beliefs, Matches(u, x, cache, health, deaths)
       PROVE  Matches(u, After(u, x, m), cache', health', deaths')
  <2>1. x.own = health /\ x.deaths = deaths /\ cache[u].health <= x.seen /\ x.seen \in Healths
    BY <1>19 DEF Matches, Beliefs
  <2>2. OwnAfter(x, m) = health'
    BY <1>2, <1>4, <2>1 DEF OwnAfter, d, v
  <2>3. DeathsAfter(x, m) = deaths'
    BY <1>2, <1>4, <1>8, <2>1, <2>2, Arithmetic DEF DeathsAfter, Healths
  <2>4. cache'[u].health <= SeenAfter(u, x, m)
    <3>1. CASE u # v
      BY <1>2, <1>13, <2>1, <3>1 DEF SeenAfter, v
    <3>2. CASE u = v
      <4>1. SeenAfter(u, x, m) = Minus(x.seen, d)
        BY <1>2, <3>2 DEF SeenAfter, v, d
      <4>2. CASE v \in tracked
        <5>1. e[v].health <= x.seen /\ e[v].health \in Healths
          BY <1>5, <1>8, <1>9, <2>1, <3>2 DEF Healths
        <5> QED
          BY <1>8, <1>14, <2>1, <3>2, <4>1, <4>2, <5>1, Arithmetic
      <4>3. CASE v \notin tracked
        BY <1>2, <1>8, <1>15, <2>1, <3>2, <4>1, <4>3, Arithmetic
      <4> QED
        BY <4>2, <4>3
    <3> QED
      BY <3>1, <3>2
  <2> QED
    BY <2>2, <2>3, <2>4 DEF Matches, After
<1>20. tracked' \subseteq Units
  BY <1>2, <1>4
<1> QED
  BY <1>2, <1>13, <1>16, <1>17, <1>18, <1>19, <1>20, ReadKeeps DEF m

\* A values block, with the unit tracked from now on.
LEMMA ValuesKeep ==
  ASSUME HealthInv, NEW kind \in {"values", "create"}, Arrives(kind), TakeValues(Head(reports)),
         tracked' = tracked \cup {Head(reports).unit}
  PROVE  HealthInv'
<1> DEFINE m == Head(reports)  v == m.unit  w == WithValues(cache[v], m)
<1>1. /\ reports # <<>> /\ reports' = Tail(reports) /\ UNCHANGED <<healthServerVars, judged>>
      /\ m \in Messages /\ m.kind \in {"values", "create"}
      /\ tracked \subseteq Units /\ cache \in [Units -> Entries] /\ health \in Healths
      /\ kills \in [Units -> Nat] /\ deaths \in Nat
      /\ \A u \in Units \ tracked : cache[u].health = 0
  BY Reading
<1>2. v \in Units /\ m.fields \in SUBSET Fields /\ m.health \in Healths /\ m.lootable \in BOOLEAN
  BY <1>1, MessageTypes
<1>3. /\ cache' = [cache EXCEPT ![v] = w] /\ kills' = kills
      /\ health' = IF v = Self /\ "health" \in m.fields THEN m.health ELSE health
      /\ deaths' = IF v = Self /\ "health" \in m.fields /\ m.health = 0 /\ health > 0 THEN deaths + 1 ELSE deaths
  BY DEF TakeValues
<1>4. cache[v] \in Entries
  BY <1>1, <1>2
<1>5. /\ w.health = IF "dynamic" \in m.fields /\ m.lootable THEN 0
                    ELSE IF "health" \in m.fields THEN m.health ELSE cache[v].health
  BY DEF WithValues
<1>6. w \in Entries
  <2>1. cache[v].health \in Healths /\ cache[v].flag \in BOOLEAN /\ cache[v].dynamic \in BOOLEAN
    BY <1>4 DEF Entries
  <2>2. (cache[v].flag /\ "flags" \notin m.fields) \in BOOLEAN
    OBVIOUS
  <2>3. (IF "dynamic" \in m.fields THEN m.lootable ELSE cache[v].dynamic) \in BOOLEAN
    BY <1>2, <2>1
  <2>4. (IF "dynamic" \in m.fields /\ m.lootable THEN 0
         ELSE IF "health" \in m.fields THEN m.health ELSE cache[v].health) \in Healths
    BY <1>2, <2>1, Arithmetic
  <2> QED
    BY <2>2, <2>3, <2>4 DEF WithValues, Entries
<1> HIDE DEF w
<1>7. cache' \in [Units -> Entries] /\ cache'[v] = w /\ \A u \in Units \ {v} : cache'[u] = cache[u]
  BY <1>1, <1>2, <1>3, <1>6
<1>8. tracked' \subseteq Units /\ health' \in Healths /\ kills' \in [Units -> Nat] /\ deaths' \in Nat
  BY <1>1, <1>2, <1>3
<1>9. \A u \in Units \ tracked' : cache'[u].health = 0
  BY <1>1, <1>7
<1>10. ASSUME NEW u \in Units, NEW x \in Beliefs, Matches(u, x, cache, health, deaths)
       PROVE  Matches(u, After(u, x, m), cache', health', deaths')
  <2>1. x.own = health /\ x.deaths = deaths /\ cache[u].health <= x.seen /\ x.seen \in Healths
    BY <1>10 DEF Matches, Beliefs
  <2>2. OwnAfter(x, m) = health'
    BY <1>1, <1>3, <2>1 DEF OwnAfter
  <2>3. DeathsAfter(x, m) = deaths'
    <3>1. x.own > 0 /\ OwnAfter(x, m) = 0 <=> v = Self /\ "health" \in m.fields /\ m.health = 0 /\ health > 0
      BY <1>1, <1>3, <2>1, <2>2 DEF Healths
    <3> QED
      BY <1>3, <2>1, <3>1 DEF DeathsAfter
  <2>4. cache'[u].health <= SeenAfter(u, x, m)
    <3>1. CASE u # v
      BY <1>1, <1>7, <2>1, <3>1 DEF SeenAfter
    <3>2. CASE u = v
      <4>1. SeenAfter(u, x, m) = IF "dynamic" \in m.fields /\ m.lootable THEN 0
                                 ELSE IF "health" \in m.fields THEN m.health ELSE x.seen
        BY <1>1, <3>2 DEF SeenAfter
      <4> QED
        BY <1>2, <1>5, <1>7, <2>1, <3>2, <4>1, Arithmetic
    <3> QED
      BY <3>1, <3>2
  <2> QED
    BY <2>2, <2>3, <2>4 DEF Matches, After
<1> QED
  BY <1>1, <1>7, <1>8, <1>9, <1>10, ReadKeeps

\* A message that leaves the client as it is, or takes the unit from it, or tells it of
\* its death.
LEMMA SkippedKeeps == HealthInv /\ ValuesUpdate /\ Head(reports).unit \notin tracked \cup {Self} => HealthInv'
<1> SUFFICES ASSUME HealthInv, ValuesUpdate, Head(reports).unit \notin tracked \cup {Self} PROVE HealthInv'
  OBVIOUS
<1> DEFINE m == Head(reports)
<1>1. Arrives("values") /\ UNCHANGED readVars
  BY DEF ValuesUpdate
<1>2. /\ reports # <<>> /\ reports' = Tail(reports) /\ UNCHANGED <<healthServerVars, judged>>
      /\ m \in Messages /\ m.kind = "values"
      /\ tracked \subseteq Units /\ cache \in [Units -> Entries] /\ health \in Healths
      /\ kills \in [Units -> Nat] /\ deaths \in Nat
      /\ \A u \in Units \ tracked : cache[u].health = 0
  BY <1>1, Reading
<1>3. ASSUME NEW u \in Units, NEW x \in Beliefs, Matches(u, x, cache, health, deaths)
      PROVE  Matches(u, After(u, x, m), cache', health', deaths')
  <2>1. x.own = health /\ x.deaths = deaths /\ cache[u].health <= x.seen
    BY <1>3 DEF Matches
  <2>2. OwnAfter(x, m) = health
    BY <1>2, <2>1 DEF OwnAfter
  <2>3. DeathsAfter(x, m) = deaths
    BY <1>2, <2>1, <2>2 DEF DeathsAfter, Healths
  <2>4. After(u, x, m) \in Beliefs
    BY <1>2, BeliefAfter
  <2>5. SeenAfter(u, x, m) \in Healths
    BY <2>4 DEF After, Beliefs
  <2>6. cache[u].health <= SeenAfter(u, x, m)
    <3>1. CASE u = m.unit
      BY <1>2, <2>5, <3>1, Arithmetic
    <3>2. CASE u # m.unit
      BY <1>2, <2>1, <3>2 DEF SeenAfter
    <3> QED
      BY <3>1, <3>2
  <2> QED
    BY <1>1, <2>2, <2>3, <2>6 DEF Matches, After, readVars
<1> QED
  BY <1>1, <1>2, <1>3, ReadKeeps DEF readVars

LEMMA RemovalKeeps == HealthInv /\ RemoveObject => HealthInv'
<1> SUFFICES ASSUME HealthInv, RemoveObject PROVE HealthInv'
  OBVIOUS
<1> DEFINE m == Head(reports)
<1>1. /\ Arrives("out") /\ tracked' = tracked \ {m.unit} /\ cache' = [cache EXCEPT ![m.unit] = NoEntry]
      /\ UNCHANGED <<health, kills, deaths>>
  BY DEF RemoveObject
<1>2. /\ reports # <<>> /\ reports' = Tail(reports) /\ UNCHANGED <<healthServerVars, judged>>
      /\ m \in Messages /\ m.kind = "out"
      /\ tracked \subseteq Units /\ cache \in [Units -> Entries] /\ health \in Healths
      /\ kills \in [Units -> Nat] /\ deaths \in Nat
      /\ \A u \in Units \ tracked : cache[u].health = 0
  BY <1>1, Reading
<1>3. NoEntry \in Entries /\ NoEntry.health = 0
  BY Arithmetic DEF NoEntry, Entries
<1>4. m.unit \in Units
  BY <1>2, MessageTypes DEF Units
<1>5. /\ cache' \in [Units -> Entries] /\ cache'[m.unit].health = 0
      /\ \A u \in Units \ {m.unit} : cache'[u] = cache[u]
  BY <1>1, <1>2, <1>3, <1>4
<1>6. ASSUME NEW u \in Units, NEW x \in Beliefs, Matches(u, x, cache, health, deaths)
      PROVE  Matches(u, After(u, x, m), cache', health', deaths')
  <2>1. x.own = health /\ x.deaths = deaths /\ cache[u].health <= x.seen
    BY <1>6 DEF Matches
  <2>2. OwnAfter(x, m) = health
    BY <1>2, <2>1 DEF OwnAfter
  <2>3. DeathsAfter(x, m) = deaths
    BY <1>2, <2>1, <2>2 DEF DeathsAfter, Healths
  <2>4. cache'[u].health <= SeenAfter(u, x, m)
    <3>1. CASE u = m.unit
      BY <1>2, <1>5, <3>1 DEF SeenAfter
    <3>2. CASE u # m.unit
      BY <1>2, <1>5, <2>1, <3>2 DEF SeenAfter
    <3> QED
      BY <3>1, <3>2
  <2> QED
    BY <1>1, <2>2, <2>3, <2>4 DEF Matches, After
<1>7. \A u \in Units \ tracked' : cache'[u].health = 0
  BY <1>1, <1>2, <1>5
<1>8. tracked' \subseteq Units /\ health' \in Healths /\ kills' \in [Units -> Nat] /\ deaths' \in Nat
  BY <1>1, <1>2
<1> QED
  BY <1>2, <1>5, <1>6, <1>7, <1>8, ReadKeeps

LEMMA ReclaimKeeps == HealthInv /\ CorpseReclaimDelay => HealthInv'
<1> SUFFICES ASSUME HealthInv, CorpseReclaimDelay PROVE HealthInv'
  OBVIOUS
<1> DEFINE m == Head(reports)
<1>1. /\ Arrives("reclaim") /\ UNCHANGED <<tracked, cache, kills>> /\ health' = 0
      /\ deaths' = IF health > 0 THEN deaths + 1 ELSE deaths
  BY DEF CorpseReclaimDelay
<1>2. /\ reports # <<>> /\ reports' = Tail(reports) /\ UNCHANGED <<healthServerVars, judged>>
      /\ m \in Messages /\ m.kind = "reclaim"
      /\ tracked \subseteq Units /\ cache \in [Units -> Entries] /\ health \in Healths
      /\ kills \in [Units -> Nat] /\ deaths \in Nat
      /\ \A u \in Units \ tracked : cache[u].health = 0
  BY <1>1, Reading
<1>3. ASSUME NEW u \in Units, NEW x \in Beliefs, Matches(u, x, cache, health, deaths)
      PROVE  Matches(u, After(u, x, m), cache', health', deaths')
  <2>1. x.own = health /\ x.deaths = deaths /\ cache[u].health <= x.seen
    BY <1>3 DEF Matches
  <2>2. OwnAfter(x, m) = 0
    BY <1>2 DEF OwnAfter
  <2>3. DeathsAfter(x, m) = deaths'
    BY <1>1, <2>1, <2>2 DEF DeathsAfter
  <2>4. SeenAfter(u, x, m) = x.seen
    BY <1>2 DEF SeenAfter
  <2> QED
    BY <1>1, <2>1, <2>2, <2>3, <2>4 DEF Matches, After
<1>4. tracked' \subseteq Units /\ health' \in Healths /\ kills' \in [Units -> Nat] /\ deaths' \in Nat
  BY <1>1, <1>2, Arithmetic
<1> QED
  BY <1>1, <1>2, <1>3, <1>4, ReadKeeps

LEMMA HealthReadKeeps == HealthInv /\ HealthReadStep => HealthInv'
<1>1. ASSUME HealthInv, ValuesUpdate PROVE HealthInv'
  <2>1. CASE Head(reports).unit \in tracked \cup {Self}
    BY <1>1, <2>1, ValuesKeep DEF ValuesUpdate
  <2> QED
    BY <1>1, <2>1, SkippedKeeps
<1>2. ASSUME HealthInv, CreateObject PROVE HealthInv'
  BY <1>2, ValuesKeep DEF CreateObject
<1> QED
  BY <1>1, <1>2, HitKeeps, RemovalKeeps, ReclaimKeeps DEF HealthReadStep

-----------------------------------------------------------------------------
(* The behaviour tree. *)

LEMMA JudgementKeeps == ASSUME HealthInv, NEW v \in Creatures, JudgeTarget(v) PROVE HealthInv'
<1>1. /\ UNCHANGED <<healthServerVars, reports, readVars>> /\ judged' = judged \cup {v}
  BY DEF JudgeTarget
<1>2. HealthTypeOK'
  BY <1>1 DEF HealthInv, HealthTypeOK, healthServerVars, readVars
<1>3. GhostsAreFrail' /\ UntrackedAreNothing' /\ Foreseen'
  BY <1>1 DEF HealthInv, GhostsAreFrail, UntrackedAreNothing, Foreseen, healthServerVars, readVars
<1> QED
  BY <1>2, <1>3 DEF HealthInv

LEMMA MarkKeeps == ASSUME HealthInv, NEW v \in Creatures, MarkTarget(v) PROVE HealthInv'
<1>1. /\ UNCHANGED <<healthServerVars, reports, tracked, health, kills, deaths>>
      /\ judged' = judged \ {v} /\ cache' = MarkObjectDead(cache, v)
  BY DEF MarkTarget
<1>2. cache \in [Units -> Entries] /\ v \in Units
  BY DEF HealthInv, HealthTypeOK, Units
<1>3. DeadEntry \in Entries /\ DeadEntry.health = 0
  BY Arithmetic DEF DeadEntry, Entries
<1>4. cache' \in [Units -> Entries]
  BY <1>1, <1>2, <1>3 DEF MarkObjectDead
<1>5. \A u \in Units : cache'[u].health = cache[u].health \/ cache'[u].health = 0
  BY <1>1, <1>2, <1>3 DEF MarkObjectDead
<1>6. HealthTypeOK'
  BY <1>1, <1>4 DEF HealthInv, HealthTypeOK, healthServerVars
<1>7. GhostsAreFrail' /\ UntrackedAreNothing'
  BY <1>1, <1>5 DEF HealthInv, GhostsAreFrail, UntrackedAreNothing, healthServerVars
<1>8. Foreseen'
  <2> SUFFICES ASSUME NEW u \in Units
               PROVE  \E x, y \in Beliefs :
                        /\ Leads(u, reports', x, y)
                        /\ Matches(u, x, cache', health', deaths')
                        /\ Fits(u, y, hp', unseen', gained', misled', dead')
    BY DEF Foreseen
  <2>1. PICK x, y \in Beliefs :
          /\ Leads(u, reports, x, y)
          /\ Matches(u, x, cache, health, deaths)
          /\ Fits(u, y, hp, unseen, gained, misled, dead)
    BY DEF HealthInv, Foreseen
  <2>2. Matches(u, x, cache', health', deaths')
    BY <1>1, <1>5, <2>1, Arithmetic DEF Matches, Beliefs
  <2>3. Leads(u, reports', x, y) /\ Fits(u, y, hp', unseen', gained', misled', dead')
    BY <1>1, <2>1 DEF healthServerVars
  <2> QED
    BY <2>2, <2>3
<1> QED
  BY <1>6, <1>7, <1>8 DEF HealthInv

-----------------------------------------------------------------------------
(* The server: with the messages it sends, the last belief fits what it has done. *)

LEMMA NothingIsSent ==
  ASSUME HealthInv, UNCHANGED <<clientVars, reports>>,
         \A u \in Units, y \in Beliefs : Fits(u, y, hp, unseen, gained, misled, dead)
           => Fits(u, y, hp', unseen', gained', misled', dead')
  PROVE  Foreseen' /\ reports' \in Seq(Messages)
<1>1. reports' = reports /\ cache' = cache /\ health' = health /\ deaths' = deaths
  BY DEF clientVars, readVars
<1> QED
  BY <1>1 DEF HealthInv, HealthTypeOK, Foreseen

LEMMA OneIsSent ==
  ASSUME HealthInv, UNCHANGED clientVars, NEW m \in Messages, reports' = Append(reports, m),
         \A u \in Units, y \in Beliefs : Fits(u, y, hp, unseen, gained, misled, dead)
           => Fits(u, After(u, y, m), hp', unseen', gained', misled', dead')
  PROVE  Foreseen' /\ reports' \in Seq(Messages)
<1>1. cache' = cache /\ health' = health /\ deaths' = deaths /\ reports \in Seq(Messages)
  BY DEF clientVars, readVars, HealthInv, HealthTypeOK
<1>2. \A u \in Units, y \in Beliefs : After(u, y, m) \in Beliefs
  BY BeliefAfter
<1>3. \A u \in Units, x, y \in Beliefs :
        Leads(u, reports, x, y) => Leads(u, reports', x, After(u, y, m))
  BY <1>1, LeadsOn
<1> QED
  BY <1>1, <1>2, <1>3 DEF HealthInv, Foreseen

LEMMA TwoAreSent ==
  ASSUME HealthInv, UNCHANGED clientVars, NEW m \in Messages, NEW n \in Messages,
         reports' = Append(Append(reports, m), n),
         \A u \in Units, y \in Beliefs : Fits(u, y, hp, unseen, gained, misled, dead)
           => Fits(u, After(u, After(u, y, m), n), hp', unseen', gained', misled', dead')
  PROVE  Foreseen' /\ reports' \in Seq(Messages)
<1>1. /\ cache' = cache /\ health' = health /\ deaths' = deaths /\ reports \in Seq(Messages)
      /\ Append(reports, m) \in Seq(Messages)
  BY DEF clientVars, readVars, HealthInv, HealthTypeOK
<1>2. \A u \in Units, y \in Beliefs : After(u, After(u, y, m), n) \in Beliefs
  BY BeliefAfter
<1>3. \A u \in Units, x, y \in Beliefs :
        Leads(u, reports, x, y) => Leads(u, reports', x, After(u, After(u, y, m), n))
  BY <1>1, LeadsOn, BeliefAfter
<1>4. reports' \in Seq(Messages)
  BY <1>1
<1> QED
  BY <1>1, <1>2, <1>3, <1>4 DEF HealthInv, Foreseen

\* What a step of the server leaves to show.
LEMMA ServerKeeps ==
  ASSUME HealthInv, UNCHANGED clientVars,
         hp' \in [Units -> Healths], lootable' \subseteq Creatures, ghost' \in BOOLEAN,
         visible' \subseteq Units,
         told' \in [Units -> [health : Healths, lootable : BOOLEAN]], dead' \in Nat,
         reported' \in Nat,
         unseen' \subseteq Units, gained' \subseteq Units, misled' \subseteq Units,
         ghost' => hp'[Self] = 1, reports' \in Seq(Messages), Foreseen'
  PROVE  HealthInv'
BY DEF HealthInv, HealthTypeOK, GhostsAreFrail, UntrackedAreNothing, clientVars, readVars

\* What is known of the server's state.
LEMMA ServerState ==
  ASSUME HealthInv
  PROVE  /\ hp \in [Units -> Healths] /\ lootable \subseteq Creatures /\ ghost \in BOOLEAN
         /\ visible \subseteq Units
         /\ told \in [Units -> [health : Healths, lootable : BOOLEAN]] /\ dead \in Nat
         /\ reported \in Nat /\ reports \in Seq(Messages)
         /\ unseen \subseteq Units /\ gained \subseteq Units /\ misled \subseteq Units
         /\ (ghost => hp[Self] = 1)
         /\ Self \in Units
BY DEF HealthInv, HealthTypeOK, GhostsAreFrail, Units

LEMMA SendingOne ==
  ASSUME NEW q \in Seq(Messages), NEW m \in Messages
  PROVE  q \o <<m>> = Append(q, m) /\ Len(<<m>>) \in Nat
OBVIOUS

LEMMA SendingTwo ==
  ASSUME NEW q \in Seq(Messages), NEW m \in Messages, NEW n \in Messages
  PROVE  q \o <<m, n>> = Append(Append(q, m), n) /\ Len(<<m, n>>) \in Nat
<1>1. <<m, n>> \in Seq(Messages) /\ Append(Append(q, m), n) \in Seq(Messages)
  OBVIOUS
<1>2. q \o <<m, n>> \in Seq(Messages) /\ Len(q \o <<m, n>>) = Len(Append(Append(q, m), n))
  BY <1>1
<1>3. \A i \in 1 .. Len(q \o <<m, n>>) : (q \o <<m, n>>)[i] = Append(Append(q, m), n)[i]
  OBVIOUS
<1>4. q \o <<m, n>> = Append(Append(q, m), n)
  BY <1>1, <1>2, <1>3, SeqEqual
<1>5. Len(<<m, n>>) \in Nat
  OBVIOUS
<1> QED
  BY <1>4, <1>5

LEMMA MessageFollows ==
  ASSUME NEW m \in Messages, NEW n \in Messages
  PROVE  Append(<<m>>, n) = <<m, n>> /\ Append(<<>>, n) = <<n>>
<1>1. <<m>> \in Seq(Messages) /\ <<m, n>> \in Seq(Messages)
  OBVIOUS
<1>2. Append(<<m>>, n) \in Seq(Messages) /\ Len(Append(<<m>>, n)) = 2 /\ Len(<<m, n>>) = 2
  BY <1>1
<1>3. \A i \in 1 .. 2 : Append(<<m>>, n)[i] = <<m, n>>[i]
  <2>1. Append(<<m>>, n)[1] = m
    BY <1>1
  <2>2. Append(<<m>>, n)[2] = n
    BY <1>1
  <2> QED
    BY <2>1, <2>2
<1>4. Append(<<m>>, n) = <<m, n>>
  BY <1>1, <1>2, <1>3, SeqEqual
<1>5. Append(<<>>, n) = <<n>>
  OBVIOUS
<1> QED
  BY <1>4, <1>5

LEMMA ReclaimAfter ==
  ASSUME NEW u, NEW y \in Beliefs, NEW m \in Messages, m.kind = "reclaim"
  PROVE  LET z == After(u, y, m)
         IN  /\ z.own = 0 /\ z.seen = y.seen
             /\ z.deaths = IF y.own > 0 THEN y.deaths + 1 ELSE y.deaths
BY DEF After, OwnAfter, SeenAfter, DeathsAfter

LEMMA HitAfter ==
  ASSUME NEW u, NEW y \in Beliefs, NEW m \in Messages, m.kind = "hit"
  PROVE  LET z == After(u, y, m)
         IN  /\ z.own = IF m.unit = Self THEN Minus(y.own, m.damage) ELSE y.own
             /\ z.seen = IF m.unit = u THEN Minus(y.seen, m.damage) ELSE y.seen
             /\ z.deaths = IF y.own > 0 /\ z.own = 0 THEN y.deaths + 1 ELSE y.deaths
BY DEF After, OwnAfter, SeenAfter, DeathsAfter

LEMMA ReclaimIsMessage == [kind |-> "reclaim"] \in Messages
BY DEF Messages

LEMMA HitIsMessage ==
  ASSUME NEW a \in Units, NEW v \in Units, NEW d \in Damages
  PROVE  [kind |-> "hit", by |-> a, unit |-> v, damage |-> d] \in Messages
BY DEF Messages

\* What Wound does but for its messages and for what is unseen.
LEMMA Wounding ==
  ASSUME HealthInv, NEW v \in Units, NEW d \in Damages, NEW first, Wound(v, d, first)
  PROVE  /\ hp' = [hp EXCEPT ![v] = Minus(@, d)] /\ hp' \in [Units -> Healths]
         /\ hp[v] > 0 /\ ~(v = Self /\ ghost) /\ hp'[v] = Minus(hp[v], d)
         /\ \A u \in Units \ {v} : hp'[u] = hp[u]
         /\ lootable' \subseteq Creatures
         /\ ghost' = ghost /\ visible' = visible /\ told' = told /\ gained' = gained
         /\ dead' = (IF v = Self /\ hp'[v] = 0 THEN dead + 1 ELSE dead) /\ dead' \in Nat
         /\ misled' = misled \cup ({v} \cap gained) /\ misled' \subseteq Units
         /\ (ghost' => hp'[Self] = 1)
         /\ Report(IF v = Self /\ hp'[v] = 0 THEN Append(first, [kind |-> "reclaim"]) ELSE first)
<1>1. hp \in [Units -> Healths] /\ hp[v] \in Healths /\ Minus(hp[v], d) \in Healths
  BY ServerState, Arithmetic
<1>2. hp' = [hp EXCEPT ![v] = Minus(@, d)] /\ hp[v] > 0 /\ ~(v = Self /\ ghost)
  BY DEF Wound, Living
<1>3. /\ hp' \in [Units -> Healths] /\ hp'[v] = Minus(hp[v], d)
      /\ \A u \in Units \ {v} : hp'[u] = hp[u]
  BY <1>1, <1>2
<1>4. lootable' \subseteq Creatures
  BY ServerState DEF Wound
<1>5. /\ ghost' = ghost /\ visible' = visible /\ told' = told /\ gained' = gained
      /\ dead' = (IF v = Self /\ hp'[v] = 0 THEN dead + 1 ELSE dead)
      /\ misled' = misled \cup ({v} \cap gained)
      /\ Report(IF v = Self /\ hp'[v] = 0 THEN Append(first, [kind |-> "reclaim"]) ELSE first)
  BY DEF Wound
<1>6. dead' \in Nat /\ misled' \subseteq Units /\ (ghost' => hp'[Self] = 1)
  BY <1>2, <1>3, <1>5, ServerState
<1> QED
  BY <1>2, <1>3, <1>4, <1>5, <1>6

LEMMA HitSentKeeps ==
  ASSUME HealthInv, UNCHANGED clientVars, NEW a \in Units, NEW v \in Units, NEW d \in Damages,
         ServerHit(a, v, d)
  PROVE  HealthInv'
<1> DEFINE m == [kind |-> "hit", by |-> a, unit |-> v, damage |-> d]
           n == [kind |-> "reclaim"]
           lethal == v = Self /\ hp'[v] = 0
<1>1. m \in Messages /\ m.kind = "hit" /\ m.unit = v /\ m.damage = d /\ n \in Messages /\ n.kind = "reclaim"
  BY HitIsMessage, ReclaimIsMessage
<1>2. Wound(v, d, <<m>>) /\ unseen' = unseen
  BY DEF ServerHit
<1> HIDE DEF m, n
<1>3. /\ hp' \in [Units -> Healths]
      /\ hp[v] > 0 /\ hp'[v] = Minus(hp[v], d)
      /\ \A u \in Units \ {v} : hp'[u] = hp[u]
      /\ lootable' \subseteq Creatures
      /\ ghost' = ghost /\ visible' = visible /\ told' = told /\ gained' = gained
      /\ dead' = (IF lethal THEN dead + 1 ELSE dead) /\ dead' \in Nat
      /\ misled' = misled \cup ({v} \cap gained) /\ misled' \subseteq Units
      /\ (ghost' => hp'[Self] = 1)
      /\ Report(IF lethal THEN Append(<<m>>, n) ELSE <<m>>)
  BY <1>2, Wounding DEF n
<1>4. /\ hp \in [Units -> Healths] /\ reports \in Seq(Messages) /\ Self \in Units /\ dead \in Nat
      /\ reported \in Nat
  BY ServerState
<1>5. reported' \in Nat /\ reports' = IF lethal THEN Append(Append(reports, m), n) ELSE Append(reports, m)
  <2>1. CASE lethal
    <3>1. Report(<<m, n>>)
      BY <1>1, <1>3, <2>1, MessageFollows
    <3> QED
      BY <1>1, <1>4, <2>1, <3>1, SendingTwo DEF Report
  <2>2. CASE ~lethal
    <3>1. Report(<<m>>)
      BY <1>3, <2>2
    <3> QED
      BY <1>1, <1>4, <2>2, <3>1, SendingOne DEF Report
  <2> QED
    BY <2>1, <2>2
<1>6. \A y \in Beliefs : y.own \in Healths /\ y.seen \in Healths /\ y.deaths \in Nat
  BY DEF Beliefs
<1>7. ASSUME NEW u \in Units, NEW y \in Beliefs, Fits(u, y, hp, unseen, gained, misled, dead)
      PROVE  /\ ~lethal => Fits(u, After(u, y, m), hp', unseen', gained', misled', dead')
             /\ lethal => Fits(u, After(u, After(u, y, m), n), hp', unseen', gained', misled', dead')
  <2> DEFINE z == After(u, y, m)  w == After(u, z, n)
  <2>1. z \in Beliefs /\ w \in Beliefs
    BY <1>1, BeliefAfter
  <2>2. /\ z.own = IF v = Self THEN Minus(y.own, d) ELSE y.own
        /\ z.seen = IF v = u THEN Minus(y.seen, d) ELSE y.seen
        /\ z.deaths = IF y.own > 0 /\ z.own = 0 THEN y.deaths + 1 ELSE y.deaths
    BY <1>1, HitAfter
  <2>3. w.own = 0 /\ w.seen = z.seen /\ w.deaths = IF z.own > 0 THEN z.deaths + 1 ELSE z.deaths
    BY <1>1, <2>1, ReclaimAfter
  <2> HIDE DEF z, w
  <2>4. /\ u \notin unseen => y.seen <= hp[u]
        /\ Self \notin unseen => y.own <= hp[Self]
        /\ hp[Self] = 0 => y.own = 0
        /\ Self \notin misled => y.deaths = dead
        /\ Self \notin misled \cup gained => hp[Self] <= y.own
    BY <1>7 DEF Fits
  <2>5. /\ y.own \in Healths /\ y.seen \in Healths /\ y.deaths \in Nat
        /\ hp[v] \in Healths /\ hp[u] \in Healths /\ hp[Self] \in Healths
    BY <1>4, <1>6
  <2>6. u \notin unseen => z.seen <= hp'[u]
    BY <1>3, <2>2, <2>4, <2>5, Arithmetic
  <2>7. Self \notin unseen => z.own <= hp'[Self]
    <3>1. CASE v = Self
      BY <1>3, <2>2, <2>4, <2>5, <3>1, Arithmetic
    <3>2. CASE v # Self
      BY <1>3, <1>4, <2>2, <2>4, <3>2
    <3> QED
      BY <3>1, <3>2
  <2>8. Self \notin misled' \cup gained' => hp'[Self] <= z.own
    <3>1. Self \notin misled' \cup gained' => hp[Self] <= y.own
      BY <1>3, <2>4
    <3>2. CASE v = Self
      BY <1>3, <2>2, <2>5, <3>1, <3>2, Arithmetic
    <3>3. CASE v # Self
      BY <1>3, <1>4, <2>2, <3>1, <3>3
    <3> QED
      BY <3>2, <3>3
  <2>9. ~lethal => (hp'[Self] = 0 => z.own = 0)
    BY <1>3, <1>4, <2>2, <2>4
  <2>10. ~lethal /\ Self \notin misled' => z.deaths = dead'
    <3> SUFFICES ASSUME ~lethal, Self \notin misled' PROVE z.deaths = dead
      BY <1>3
    <3>1. y.deaths = dead
      BY <1>3, <2>4
    <3>2. CASE v # Self
      BY <2>2, <2>5, <3>1, <3>2
    <3>3. CASE v = Self
      <4>1. Self \notin gained /\ hp[Self] <= y.own /\ ~(d >= hp[Self])
        BY <1>3, <2>4, <2>5, <3>3, Arithmetic
      <4>2. z.own # 0
        BY <2>2, <2>5, <3>3, <4>1, Arithmetic DEF Healths, Damages
      <4> QED
        BY <2>2, <3>1, <4>2
    <3> QED
      BY <3>2, <3>3
  <2>11. lethal /\ Self \notin misled' => w.deaths = dead'
    <3> SUFFICES ASSUME lethal, Self \notin misled' PROVE w.deaths = dead + 1
      BY <1>3
    <3>1. y.deaths = dead /\ Self \notin gained /\ hp[Self] <= y.own /\ hp[Self] > 0
      BY <1>3, <2>4
    <3>2. y.own > 0 /\ z.own \in Nat
      BY <2>1, <1>6, <2>5, <3>1 DEF Healths
    <3> QED
      BY <1>4, <2>2, <2>3, <3>1, <3>2
  <2>12. lethal => hp'[Self] = 0
    OBVIOUS
  <2>13. ~lethal => Fits(u, z, hp', unseen', gained', misled', dead')
    BY <1>2, <2>6, <2>7, <2>8, <2>9, <2>10 DEF Fits
  <2>14. lethal => Fits(u, w, hp', unseen', gained', misled', dead')
    BY <1>2, <2>3, <2>6, <2>11, <2>12 DEF Fits
  <2> QED
    BY <2>13, <2>14 DEF z, w
<1> HIDE DEF lethal
<1>8. Foreseen' /\ reports' \in Seq(Messages)
  <2>1. CASE lethal
    BY <1>1, <1>5, <1>7, <2>1, TwoAreSent
  <2>2. CASE ~lethal
    BY <1>1, <1>5, <1>7, <2>2, OneIsSent
  <2> QED
    BY <2>1, <2>2
<1> QED
  BY <1>2, <1>3, <1>5, <1>8, ServerState, ServerKeeps

\* Damage without a packet leaves nothing to say of the unit but its death.
LEMMA DamageKeeps ==
  ASSUME HealthInv, UNCHANGED clientVars, NEW v \in Units, NEW d \in Damages, ServerDamage(v, d)
  PROVE  HealthInv'
<1> DEFINE n == [kind |-> "reclaim"]
           lethal == v = Self /\ hp'[v] = 0
<1>1. n \in Messages /\ n.kind = "reclaim"
  BY ReclaimIsMessage
<1>2. Wound(v, d, <<>>) /\ unseen' = unseen \cup {v}
  BY DEF ServerDamage
<1> HIDE DEF n
<1>3. /\ hp' \in [Units -> Healths]
      /\ hp[v] > 0 /\ hp'[v] = Minus(hp[v], d)
      /\ \A u \in Units \ {v} : hp'[u] = hp[u]
      /\ lootable' \subseteq Creatures
      /\ ghost' = ghost /\ visible' = visible /\ told' = told /\ gained' = gained
      /\ dead' = (IF lethal THEN dead + 1 ELSE dead) /\ dead' \in Nat
      /\ misled' = misled \cup ({v} \cap gained) /\ misled' \subseteq Units
      /\ (ghost' => hp'[Self] = 1)
      /\ Report(IF lethal THEN Append(<<>>, n) ELSE <<>>)
  BY <1>2, Wounding DEF n
<1>4. /\ hp \in [Units -> Healths] /\ reports \in Seq(Messages) /\ Self \in Units /\ dead \in Nat
      /\ reported \in Nat
  BY ServerState
<1>5. reported' \in Nat /\ reports' = IF lethal THEN Append(reports, n) ELSE reports
  <2>1. CASE lethal
    <3>1. Report(<<n>>)
      BY <1>1, <1>3, <2>1, MessageFollows
    <3> QED
      BY <1>1, <1>4, <2>1, <3>1, SendingOne DEF Report
  <2>2. CASE ~lethal
    <3>1. Report(<<>>)
      BY <1>3, <2>2
    <3> QED
      BY <1>1, <1>4, <2>2, <3>1, ConcatEmptySeq, EmptySeq DEF Report
  <2> QED
    BY <2>1, <2>2
<1>6. hp'[v] <= hp[v] /\ hp[v] \in Healths /\ hp'[v] \in Healths
  <2>1. hp[v] \in Nat /\ d \in Nat
    BY <1>4 DEF Healths, Damages
  <2> QED
    BY <1>3, <1>4, <2>1 DEF Minus
<1>7. ASSUME NEW u \in Units, NEW y \in Beliefs, Fits(u, y, hp, unseen, gained, misled, dead)
      PROVE  /\ ~lethal => Fits(u, y, hp', unseen', gained', misled', dead')
             /\ lethal => Fits(u, After(u, y, n), hp', unseen', gained', misled', dead')
  <2> DEFINE w == After(u, y, n)
  <2>1. w.own = 0 /\ w.seen = y.seen /\ w.deaths = IF y.own > 0 THEN y.deaths + 1 ELSE y.deaths
    BY <1>1, ReclaimAfter
  <2> HIDE DEF w
  <2>2. /\ u \notin unseen => y.seen <= hp[u]
        /\ Self \notin unseen => y.own <= hp[Self]
        /\ hp[Self] = 0 => y.own = 0
        /\ Self \notin misled => y.deaths = dead
        /\ Self \notin misled \cup gained => hp[Self] <= y.own
    BY <1>7 DEF Fits
  <2>3. /\ y.own \in Int /\ y.seen \in Int /\ y.deaths \in Nat
        /\ hp[Self] \in Int /\ hp'[Self] \in Int
    BY <1>3, <1>4 DEF Beliefs, Healths
  <2>4. hp'[Self] <= hp[Self]
    <3>1. CASE v = Self
      BY <1>6, <3>1
    <3>2. CASE v # Self
      BY <1>3, <1>4, <2>3, <3>2
    <3> QED
      BY <3>1, <3>2
  <2>5. ~lethal => Fits(u, y, hp', unseen', gained', misled', dead')
    <3> SUFFICES ASSUME ~lethal PROVE Fits(u, y, hp', unseen', gained', misled', dead')
      OBVIOUS
    <3>1. hp'[Self] = 0 => y.own = 0
      BY <1>3, <1>4, <2>2
    <3>2. u \notin unseen' => y.seen <= hp'[u]
      BY <1>2, <1>3, <2>2
    <3>3. Self \notin unseen' => y.own <= hp'[Self]
      BY <1>2, <1>3, <1>4, <2>2
    <3>4. Self \notin misled' => y.deaths = dead'
      BY <1>3, <2>2
    <3>5. Self \notin misled' \cup gained' => hp'[Self] <= y.own
      BY <1>3, <2>2, <2>3, <2>4
    <3> QED
      BY <3>1, <3>2, <3>3, <3>4, <3>5 DEF Fits
  <2>6. lethal => Fits(u, w, hp', unseen', gained', misled', dead')
    <3> SUFFICES ASSUME lethal PROVE Fits(u, w, hp', unseen', gained', misled', dead')
      OBVIOUS
    <3>1. hp'[Self] = 0 /\ w.own = 0
      BY <2>1
    <3>2. u \notin unseen' => w.seen <= hp'[u]
      BY <1>2, <1>3, <2>1, <2>2
    <3>3. Self \notin misled' => w.deaths = dead'
      BY <1>3, <2>1, <2>2, <2>3
    <3> QED
      BY <3>1, <3>2, <3>3 DEF Fits
  <2> QED
    BY <2>5, <2>6 DEF w
<1> HIDE DEF lethal
<1>8. Foreseen' /\ reports' \in Seq(Messages)
  <2>1. CASE lethal
    BY <1>1, <1>5, <1>7, <2>1, OneIsSent
  <2>2. CASE ~lethal
    BY <1>1, <1>5, <1>7, <2>2, NothingIsSent
  <2> QED
    BY <2>1, <2>2
<1>9. unseen' \subseteq Units
  BY <1>2, ServerState
<1> QED
  BY <1>3, <1>5, <1>8, <1>9, ServerState, ServerKeeps

LEMMA HealKeeps ==
  ASSUME HealthInv, UNCHANGED clientVars, NEW v \in Units, NEW d \in Damages, ServerHeal(v, d)
  PROVE  HealthInv'
<1>1. /\ hp[v] + d <= MaxHealth /\ hp' = [hp EXCEPT ![v] = @ + d] /\ gained' = gained \cup {v}
      /\ hp[v] > 0 /\ ~(v = Self /\ ghost)
      /\ UNCHANGED <<lootable, ghost, visible, told, dead, reports, reported, unseen, misled>>
  BY DEF ServerHeal, Living
<1>2. /\ hp \in [Units -> Healths] /\ Self \in Units /\ gained \subseteq Units /\ (ghost => hp[Self] = 1)
  BY ServerState
<1>3. hp[v] \in Healths /\ hp[v] \in Int /\ d \in Int /\ d > 0
  BY <1>2, BoundsAssumption DEF Healths, Damages
<1>4. hp[v] + d \in Healths
  BY <1>1, <1>3, BoundsAssumption DEF Healths
<1>5. hp' \in [Units -> Healths] /\ hp'[v] = hp[v] + d /\ \A u \in Units \ {v} : hp'[u] = hp[u]
  BY <1>1, <1>2, <1>4
<1>6. gained' \subseteq Units /\ (ghost' => hp'[Self] = 1)
  BY <1>1, <1>2, <1>5
<1>7. ASSUME NEW u \in Units, NEW y \in Beliefs, Fits(u, y, hp, unseen, gained, misled, dead)
      PROVE  Fits(u, y, hp', unseen', gained', misled', dead')
  <2>1. y.own \in Int /\ y.seen \in Int
    BY DEF Beliefs, Healths
  <2>2. /\ u \notin unseen => y.seen <= hp[u]
        /\ Self \notin unseen => y.own <= hp[Self]
        /\ hp[Self] = 0 => y.own = 0
        /\ Self \notin misled => y.deaths = dead
        /\ Self \notin misled \cup gained => hp[Self] <= y.own
    BY <1>7 DEF Fits
  <2>3. u \notin unseen => y.seen <= hp'[u]
    BY <1>3, <1>5, <2>1, <2>2
  <2>4. Self \notin unseen => y.own <= hp'[Self]
    BY <1>2, <1>3, <1>5, <2>1, <2>2
  <2>5. hp'[Self] = 0 => y.own = 0
    BY <1>1, <1>2, <1>3, <1>5, <2>2
  <2>6. Self \notin misled \cup gained' => hp'[Self] <= y.own
    BY <1>1, <1>2, <1>5, <2>2
  <2> QED
    BY <1>1, <2>2, <2>3, <2>4, <2>5, <2>6 DEF Fits
<1>8. Foreseen' /\ reports' \in Seq(Messages)
  BY <1>1, <1>7, NothingIsSent
<1> QED
  BY <1>1, <1>5, <1>6, <1>8, ServerState, ServerKeeps

\* The belief after a values block.
LEMMA ValuesAfter ==
  ASSUME NEW u, NEW y \in Beliefs, NEW m \in Messages, m.kind \in {"values", "create"}
  PROVE  LET z == After(u, y, m)
         IN  /\ z.own = IF m.unit = Self /\ "health" \in m.fields THEN m.health ELSE y.own
             /\ m.unit # u => z.seen = y.seen
             /\ m.unit = u => z.seen = IF "dynamic" \in m.fields /\ m.lootable THEN 0
                                       ELSE IF "health" \in m.fields THEN m.health ELSE y.seen
             /\ z.deaths = IF y.own > 0 /\ z.own = 0 THEN y.deaths + 1 ELSE y.deaths
BY DEF After, OwnAfter, SeenAfter, DeathsAfter

\* A health sent settles what was unseen or gained.
LEMMA ReportFits ==
  ASSUME NEW H \in [Units -> Healths], NEW N, NEW G, NEW M, NEW D \in Nat,
         NEW u \in Units, NEW y \in Beliefs, Fits(u, y, H, N, G, M, D),
         NEW v \in Units, NEW m \in Messages, m.kind \in {"values", "create"}, m.unit = v,
         "health" \in m.fields => m.health = H[v]
  PROVE  /\ "health" \in m.fields => Fits(u, After(u, y, m), H, N \ {v}, G \ {v}, M, D)
         /\ "health" \notin m.fields => Fits(u, After(u, y, m), H, N, G, M, D)
<1> DEFINE z == After(u, y, m)
<1>1. /\ z.own = IF v = Self /\ "health" \in m.fields THEN m.health ELSE y.own
      /\ v # u => z.seen = y.seen
      /\ v = u => z.seen = IF "dynamic" \in m.fields /\ m.lootable THEN 0
                           ELSE IF "health" \in m.fields THEN m.health ELSE y.seen
      /\ z.deaths = IF y.own > 0 /\ z.own = 0 THEN y.deaths + 1 ELSE y.deaths
  BY ValuesAfter
<1> HIDE DEF z
<1>2. /\ u \notin N => y.seen <= H[u]
      /\ Self \notin N => y.own <= H[Self]
      /\ H[Self] = 0 => y.own = 0
      /\ Self \notin M => y.deaths = D
      /\ Self \notin M \cup G => H[Self] <= y.own
  BY DEF Fits
<1>3. /\ y.own \in Nat /\ y.seen \in Nat /\ y.deaths \in Nat
      /\ H[u] \in Nat /\ H[Self] \in Nat
  BY DEF Beliefs, Healths, Units
<1>4. CASE "health" \in m.fields
  <2>1. u \notin N \ {v} => z.seen <= H[u]
    BY <1>1, <1>2, <1>3, <1>4
  <2>2. Self \notin N \ {v} => z.own <= H[Self]
    BY <1>1, <1>2, <1>3, <1>4
  <2>3. H[Self] = 0 => z.own = 0
    BY <1>1, <1>2, <1>4
  <2>4. Self \notin M => z.deaths = D
    BY <1>1, <1>2, <1>3, <1>4
  <2>5. Self \notin M \cup (G \ {v}) => H[Self] <= z.own
    BY <1>1, <1>2, <1>3, <1>4
  <2> QED
    BY <1>4, <2>1, <2>2, <2>3, <2>4, <2>5 DEF Fits, z
<1>5. CASE "health" \notin m.fields
  <2>1. z.own = y.own /\ z.deaths = y.deaths
    BY <1>1, <1>5
  <2>2. u \notin N => z.seen <= H[u]
    BY <1>1, <1>2, <1>3, <1>5
  <2> QED
    BY <1>2, <1>5, <2>1, <2>2 DEF Fits, z
<1> QED
  BY <1>4, <1>5

LEMMA ValuesIsMessage ==
  ASSUME NEW kind \in {"values", "create"}, NEW v \in Units, NEW fields \in SUBSET Fields,
         NEW h \in Healths, NEW l \in BOOLEAN
  PROVE  [kind |-> kind, unit |-> v, fields |-> fields, health |-> h, lootable |-> l] \in Messages
BY DEF Messages

LEMMA ReportKeeps ==
  ASSUME HealthInv, UNCHANGED clientVars, NEW v \in Units, ServerReport(v) PROVE HealthInv'
<1>1. PICK flags \in SUBSET {"flags"} :
        LET fields == flags \cup {f \in {"health"} : hp[v] # told[v].health}
                            \cup {f \in {"dynamic"} : (v \in lootable) # told[v].lootable}
        IN  /\ Report(<<[kind |-> "values", unit |-> v, fields |-> fields,
                       health |-> hp[v], lootable |-> v \in lootable]>>)
            /\ IF "health" \in fields
               THEN unseen' = unseen \ {v} /\ gained' = gained \ {v}
               ELSE UNCHANGED <<unseen, gained>>
  BY DEF ServerReport
<1> DEFINE fields == flags \cup {f \in {"health"} : hp[v] # told[v].health}
                           \cup {f \in {"dynamic"} : (v \in lootable) # told[v].lootable}
           m == [kind |-> "values", unit |-> v, fields |-> fields,
                 health |-> hp[v], lootable |-> v \in lootable]
<1>2. /\ hp \in [Units -> Healths] /\ reports \in Seq(Messages) /\ dead \in Nat /\ reported \in Nat
      /\ told \in [Units -> [health : Healths, lootable : BOOLEAN]]
      /\ unseen \subseteq Units /\ gained \subseteq Units
  BY ServerState
<1>3. fields \in SUBSET Fields
  <2>1. flags \subseteq Fields
    BY DEF Fields
  <2>2. {f \in {"health"} : hp[v] # told[v].health} \subseteq Fields
    BY DEF Fields
  <2>3. {f \in {"dynamic"} : (v \in lootable) # told[v].lootable} \subseteq Fields
    BY DEF Fields
  <2> QED
    BY <2>1, <2>2, <2>3
<1> HIDE DEF fields
<1>4. m \in Messages
  <2>1. hp[v] \in Healths /\ (v \in lootable) \in BOOLEAN
    BY <1>2
  <2> QED
    BY <1>3, <2>1, ValuesIsMessage
<1>5. m.kind = "values" /\ m.unit = v /\ m.fields = fields /\ m.health = hp[v]
  OBVIOUS
<1>6. Report(<<m>>)
  BY <1>1 DEF fields
<1> HIDE DEF m
<1>7. reports' = Append(reports, m) /\ reported' \in Nat
  BY <1>2, <1>4, <1>6, SendingOne DEF Report
<1>8. /\ told' = [told EXCEPT ![v] = State(v)]
      /\ UNCHANGED <<hp, lootable, ghost, visible, dead, misled>>
  BY DEF ServerReport
<1>9. /\ "health" \in fields => unseen' = unseen \ {v} /\ gained' = gained \ {v}
      /\ "health" \notin fields => unseen' = unseen /\ gained' = gained
  BY <1>1 DEF fields
<1>10. told' \in [Units -> [health : Healths, lootable : BOOLEAN]]
  <2>1. hp[v] \in Healths /\ (v \in lootable) \in BOOLEAN
    BY <1>2
  <2>2. State(v) \in [health : Healths, lootable : BOOLEAN]
    BY <2>1 DEF State
  <2> QED
    BY <1>2, <1>8, <2>2
<1>11. \A u \in Units, y \in Beliefs : Fits(u, y, hp, unseen, gained, misled, dead)
         => Fits(u, After(u, y, m), hp', unseen', gained', misled', dead')
  <2> SUFFICES ASSUME NEW u \in Units, NEW y \in Beliefs, Fits(u, y, hp, unseen, gained, misled, dead)
               PROVE  Fits(u, After(u, y, m), hp', unseen', gained', misled', dead')
    OBVIOUS
  <2>1. CASE "health" \in fields
    <3>1. Fits(u, After(u, y, m), hp, unseen \ {v}, gained \ {v}, misled, dead)
      BY <1>2, <1>4, <1>5, <2>1, ReportFits
    <3> QED
      BY <1>8, <1>9, <2>1, <3>1
  <2>2. CASE "health" \notin fields
    <3>1. Fits(u, After(u, y, m), hp, unseen, gained, misled, dead)
      BY <1>2, <1>4, <1>5, <2>2, ReportFits
    <3> QED
      BY <1>8, <1>9, <2>2, <3>1
  <2> QED
    BY <2>1, <2>2
<1>12. Foreseen' /\ reports' \in Seq(Messages)
  BY <1>4, <1>7, <1>11, OneIsSent
<1>13. unseen' \subseteq Units /\ gained' \subseteq Units
  BY <1>2, <1>9
<1>14. ghost' => hp'[Self] = 1
  BY <1>8, ServerState
<1> QED
  BY <1>7, <1>8, <1>10, <1>12, <1>13, <1>14, ServerState, ServerKeeps

LEMMA ReleaseKeeps == ASSUME HealthInv, UNCHANGED clientVars, ServerRelease PROVE HealthInv'
<1> DEFINE n == [kind |-> "reclaim"]
<1>1. n \in Messages /\ n.kind = "reclaim"
  BY ReclaimIsMessage
<1>2. /\ hp[Self] = 0 /\ ghost' = TRUE /\ hp' = [hp EXCEPT ![Self] = 1] /\ gained' = gained \cup {Self}
      /\ Report(<<n>>)
      /\ UNCHANGED <<lootable, visible, told, dead, unseen, misled>>
  BY DEF ServerRelease
<1> HIDE DEF n
<1>3. /\ hp \in [Units -> Healths] /\ Self \in Units /\ gained \subseteq Units
      /\ reports \in Seq(Messages) /\ reported \in Nat
  BY ServerState
<1>4. reports' = Append(reports, n) /\ reported' \in Nat
  BY <1>1, <1>2, <1>3, SendingOne DEF Report
<1>5. 1 \in Healths
  BY BoundsAssumption DEF Healths
<1>6. hp' \in [Units -> Healths] /\ hp'[Self] = 1 /\ \A u \in Units \ {Self} : hp'[u] = hp[u]
  BY <1>2, <1>3, <1>5
<1>7. ASSUME NEW u \in Units, NEW y \in Beliefs, Fits(u, y, hp, unseen, gained, misled, dead)
      PROVE  Fits(u, After(u, y, n), hp', unseen', gained', misled', dead')
  <2> DEFINE w == After(u, y, n)
  <2>1. w.own = 0 /\ w.seen = y.seen /\ w.deaths = IF y.own > 0 THEN y.deaths + 1 ELSE y.deaths
    BY <1>1, ReclaimAfter
  <2> HIDE DEF w
  <2>2. /\ u \notin unseen => y.seen <= hp[u]
        /\ y.own = 0
        /\ Self \notin misled => y.deaths = dead
    BY <1>2, <1>7 DEF Fits
  <2>3. y.seen \in Int /\ hp[u] \in Int
    BY <1>3 DEF Beliefs, Healths
  <2>4. u \notin unseen => w.seen <= hp'[u]
    BY <1>2, <1>6, <2>1, <2>2, <2>3
  <2> QED
    BY <1>2, <1>6, <2>1, <2>2, <2>4 DEF Fits, w
<1>8. Foreseen' /\ reports' \in Seq(Messages)
  BY <1>1, <1>4, <1>7, OneIsSent
<1>9. gained' \subseteq Units /\ ghost' \in BOOLEAN /\ (ghost' => hp'[Self] = 1)
  BY <1>2, <1>3, <1>6
<1> QED
  BY <1>2, <1>4, <1>6, <1>8, <1>9, ServerState, ServerKeeps

LEMMA ResurrectionKeeps == ASSUME HealthInv, UNCHANGED clientVars, ServerResurrect PROVE HealthInv'
<1>1. /\ ~Living(Self) /\ ghost' = FALSE /\ gained' = gained \cup {Self}
      /\ UNCHANGED <<lootable, visible, told, dead, reports, reported, unseen, misled>>
  BY DEF ServerResurrect
<1>2. PICK h \in Damages : hp' = [hp EXCEPT ![Self] = h]
  BY DEF ServerResurrect
<1>3. /\ hp \in [Units -> Healths] /\ Self \in Units /\ gained \subseteq Units /\ ghost \in BOOLEAN
      /\ (ghost => hp[Self] = 1)
  BY ServerState
<1>4. h \in Healths /\ h \in Int /\ 1 <= h
  BY BoundsAssumption DEF Healths, Damages
<1>5. hp' \in [Units -> Healths] /\ hp'[Self] = h /\ \A u \in Units \ {Self} : hp'[u] = hp[u]
  BY <1>2, <1>3, <1>4
<1>6. hp[Self] \in Int /\ hp[Self] <= h
  <2>1. hp[Self] \in Int /\ 0 <= hp[Self]
    BY <1>3 DEF Healths
  <2>2. hp[Self] = 0 \/ hp[Self] = 1
    BY <1>1, <1>3, <2>1 DEF Living
  <2> QED
    BY <1>4, <2>2
<1>7. ASSUME NEW u \in Units, NEW y \in Beliefs, Fits(u, y, hp, unseen, gained, misled, dead)
      PROVE  Fits(u, y, hp', unseen', gained', misled', dead')
  <2>1. /\ u \notin unseen => y.seen <= hp[u]
        /\ Self \notin unseen => y.own <= hp[Self]
        /\ Self \notin misled => y.deaths = dead
    BY <1>7 DEF Fits
  <2>2. y.seen \in Int /\ y.own \in Int
    BY DEF Beliefs, Healths
  <2>3. u \notin unseen => y.seen <= hp'[u]
    BY <1>4, <1>5, <1>6, <2>1, <2>2
  <2>4. Self \notin unseen => y.own <= hp'[Self]
    BY <1>4, <1>5, <1>6, <2>1, <2>2
  <2>5. hp'[Self] # 0
    BY <1>4, <1>5
  <2> QED
    BY <1>1, <2>1, <2>3, <2>4, <2>5 DEF Fits
<1>8. Foreseen' /\ reports' \in Seq(Messages)
  BY <1>1, <1>7, NothingIsSent
<1>9. gained' \subseteq Units /\ ghost' \in BOOLEAN /\ (ghost' => hp'[Self] = 1)
  BY <1>1, <1>3
<1> QED
  BY <1>1, <1>5, <1>8, <1>9, ServerState, ServerKeeps

LEMMA HideKeeps ==
  ASSUME HealthInv, UNCHANGED clientVars, NEW v \in Creatures, ServerHide(v) PROVE HealthInv'
<1> DEFINE m == [kind |-> "out", unit |-> v]
<1>1. m \in Messages /\ m.kind = "out" /\ m.unit = v
  BY DEF Messages
<1>2. /\ visible' = visible \ {v} /\ Report(<<m>>)
      /\ UNCHANGED <<hp, lootable, ghost, told, dead, unseen, gained, misled>>
  BY DEF ServerHide
<1> HIDE DEF m
<1>3. /\ hp \in [Units -> Healths] /\ reports \in Seq(Messages) /\ reported \in Nat
      /\ visible \subseteq Units
  BY ServerState
<1>4. reports' = Append(reports, m) /\ reported' \in Nat
  BY <1>1, <1>2, <1>3, SendingOne DEF Report
<1>5. ASSUME NEW u \in Units, NEW y \in Beliefs, Fits(u, y, hp, unseen, gained, misled, dead)
      PROVE  Fits(u, After(u, y, m), hp', unseen', gained', misled', dead')
  <2> DEFINE z == After(u, y, m)
  <2>1. z.own = y.own /\ z.deaths = y.deaths /\ (z.seen = y.seen \/ z.seen = 0)
    BY <1>1 DEF After, OwnAfter, DeathsAfter, SeenAfter
  <2> HIDE DEF z
  <2>2. hp[u] \in Healths /\ \A h \in Healths : 0 <= h
    BY <1>3, Arithmetic
  <2> QED
    BY <1>2, <1>5, <2>1, <2>2 DEF Fits, z
<1>6. Foreseen' /\ reports' \in Seq(Messages)
  BY <1>1, <1>4, <1>5, OneIsSent
<1>7. visible' \subseteq Units /\ (ghost' => hp'[Self] = 1)
  BY <1>2, <1>3, ServerState
<1> QED
  BY <1>2, <1>4, <1>6, <1>7, ServerState, ServerKeeps

LEMMA ShowKeeps ==
  ASSUME HealthInv, UNCHANGED clientVars, NEW v \in Creatures, ServerShow(v) PROVE HealthInv'
<1> DEFINE m == [kind |-> "create", unit |-> v, fields |-> Fields,
                 health |-> hp'[v], lootable |-> v \in lootable']
<1>1. /\ visible' = visible \cup {v}
      /\ \/ UNCHANGED <<hp, lootable>>
         \/ hp[v] = 0 /\ hp' = [hp EXCEPT ![v] = MaxHealth] /\ lootable' = lootable \ {v}
      /\ told' = [told EXCEPT ![v] = State(v)'] /\ Report(<<m>>)
      /\ unseen' = unseen \ {v} /\ gained' = gained \ {v} /\ misled' = misled \ {v}
      /\ UNCHANGED <<ghost, dead>>
  BY DEF ServerShow
<1>2. /\ hp \in [Units -> Healths] /\ reports \in Seq(Messages) /\ reported \in Nat /\ dead \in Nat
      /\ told \in [Units -> [health : Healths, lootable : BOOLEAN]]
      /\ visible \subseteq Units /\ unseen \subseteq Units /\ gained \subseteq Units
      /\ misled \subseteq Units /\ lootable \subseteq Creatures /\ (ghost => hp[Self] = 1)
      /\ Self \in Units
  BY ServerState
<1>3. v \in Units /\ v # Self
  BY UnitsAssumption DEF Units
<1>4. MaxHealth \in Healths
  BY BoundsAssumption DEF Healths
<1>5. hp' \in [Units -> Healths] /\ \A u \in Units \ {v} : hp'[u] = hp[u]
  BY <1>1, <1>2, <1>4
<1>6. m \in Messages
  <2>1. hp'[v] \in Healths /\ (v \in lootable') \in BOOLEAN /\ Fields \in SUBSET Fields
    BY <1>3, <1>5
  <2> QED
    BY <1>3, <2>1, ValuesIsMessage
<1>7. m.kind = "create" /\ m.unit = v /\ m.health = hp'[v] /\ "health" \in m.fields
  BY DEF Fields
<1> HIDE DEF m
<1>8. reports' = Append(reports, m) /\ reported' \in Nat
  BY <1>1, <1>2, <1>6, SendingOne DEF Report
<1>9. told' \in [Units -> [health : Healths, lootable : BOOLEAN]]
  <2>1. State(v)' = [health |-> hp'[v], lootable |-> v \in lootable']
    BY DEF State
  <2>2. State(v)' \in [health : Healths, lootable : BOOLEAN]
    BY <1>3, <1>5, <2>1
  <2> QED
    BY <1>1, <1>2, <2>2
<1>10. ASSUME NEW u \in Units, NEW y \in Beliefs, Fits(u, y, hp, unseen, gained, misled, dead)
       PROVE  Fits(u, After(u, y, m), hp', unseen', gained', misled', dead')
  <2> DEFINE N == unseen \cup {v}
  <2>1. Fits(u, y, hp', N, gained, misled, dead)
    <3>1. hp'[Self] = hp[Self]
      BY <1>2, <1>3, <1>5
    <3>2. u \notin N => y.seen <= hp'[u]
      BY <1>5, <1>10 DEF Fits
    <3> QED
      BY <1>10, <3>1, <3>2 DEF Fits
  <2>2. Fits(u, After(u, y, m), hp', N \ {v}, gained \ {v}, misled, dead)
    <3> HIDE DEF N
    <3> QED
      BY <1>2, <1>3, <1>5, <1>6, <1>7, <2>1, ReportFits
  <2>3. N \ {v} = unseen'
    BY <1>1
  <2>4. Self \in misled' <=> Self \in misled
    BY <1>1, <1>3
  <2> HIDE DEF N
  <2> QED
    BY <1>1, <2>2, <2>3, <2>4 DEF Fits
<1>11. Foreseen' /\ reports' \in Seq(Messages)
  BY <1>6, <1>8, <1>10, OneIsSent
<1>12. /\ visible' \subseteq Units /\ unseen' \subseteq Units /\ gained' \subseteq Units /\ misled' \subseteq Units
       /\ lootable' \subseteq Creatures /\ dead' \in Nat /\ ghost' = ghost
  BY <1>1, <1>2, <1>3
<1>13. hp'[Self] = hp[Self]
  BY <1>2, <1>3, <1>5
<1>14. (ghost' => hp'[Self] = 1) /\ ghost' \in BOOLEAN
  BY <1>2, <1>12, <1>13, ServerState
<1> QED
  BY <1>5, <1>8, <1>9, <1>11, <1>12, <1>14, ServerKeeps

LEMMA HealthServerKeeps == HealthInv /\ HealthServerStep => HealthInv'
<1> SUFFICES ASSUME HealthInv, HealthServerStep PROVE HealthInv'
  OBVIOUS
<1>1. UNCHANGED clientVars
  BY DEF HealthServerStep
<1>2. \/ \E u \in Units, d \in Damages :
           (\E a \in Units : ServerHit(a, u, d)) \/ ServerDamage(u, d) \/ ServerHeal(u, d)
      \/ \E u \in Units : ServerReport(u)
      \/ ServerRelease
      \/ ServerResurrect
      \/ \E u \in Creatures : ServerHide(u) \/ ServerShow(u)
  BY DEF HealthServerStep
<1> QED
  BY <1>1, <1>2, HitSentKeeps, DamageKeeps, HealKeeps, ReportKeeps, ReleaseKeeps,
     ResurrectionKeeps, HideKeeps, ShowKeeps

LEMMA HealthStepKeeps == HealthInv /\ [HealthNext]_healthVars => HealthInv'
<1> SUFFICES ASSUME HealthInv, [HealthNext]_healthVars PROVE HealthInv'
  OBVIOUS
<1>1. CASE UNCHANGED healthVars
  <2>1. UNCHANGED <<healthServerVars, reports, readVars, judged>>
    BY <1>1 DEF healthVars, clientVars
  <2>2. HealthTypeOK'
    BY <2>1 DEF HealthInv, HealthTypeOK, healthServerVars, readVars
  <2>3. GhostsAreFrail' /\ UntrackedAreNothing' /\ Foreseen'
    BY <2>1 DEF HealthInv, GhostsAreFrail, UntrackedAreNothing, Foreseen, healthServerVars, readVars
  <2> QED
    BY <2>2, <2>3 DEF HealthInv
<1> QED
  BY <1>1, HealthServerKeeps, HealthReadKeeps, JudgementKeeps, MarkKeeps DEF HealthNext

-----------------------------------------------------------------------------
(* The results. *)

\* From every state the messages on the way lead the client's copy to what the server
\* has: the invariant behind the next theorems.
THEOREM HealthInvHolds == HealthSpec => []HealthInv
BY HealthInitially, HealthStepKeeps, PTL DEF HealthSpec

\* The types of the client's copy, of the server's state and of the messages between.
THEOREM HealthTypesHold == HealthSpec => []HealthTypeOK
BY HealthInvHolds, PTL DEF HealthInv

\* Once the stream is read, no tracked unit is taken for healthier than it is, unless it
\* was damaged without a packet: handleAttackerStateUpdate applies each hit to the copy.
THEOREM DeathsAreSeenAtOnce == HealthSpec => []DeathIsSeenAtOnce
BY HealthInvHolds, EndsWell, PTL

\* A character that lies dead knows it once the stream is read, however it died.
THEOREM CorpsesAreKnown == HealthSpec => []CorpseIsKnown
BY HealthInvHolds, EndsWell, PTL

\* The hit, the values update and SMSG_CORPSE_RECLAIM_DELAY that tell of a death count it
\* once between them, unless the character was hurt after a gain not yet reported.
THEOREM DeathsAreCountedOnce == HealthSpec => []DeathIsCountedOnce
BY HealthInvHolds, EndsWell, PTL

=============================================================================
