---------------------------- MODULE PacketProofs ----------------------------
(***************************************************************************)
(* Proofs about the packets of the world connection: the stream they are   *)
(* written to and read from (PacketStream), and what the read loop stores  *)
(* of them and whom it tells (PacketHooks).                                *)
(*                                                                         *)
(* Of the stream, the read loop's place in its start decides who may send  *)
(* and what is encrypted.  Of the hooks, Shown says where one that waits   *)
(* for the packet in hand is: called, copied, or still in the registry of  *)
(* its family; Kept says that the cached rolls are a suffix of those that  *)
(* are due, and how many rolls were started after each that is cut off.    *)
(***************************************************************************)
EXTENDS PacketStream, PacketHooks, SequenceTheorems, TLAPS

-----------------------------------------------------------------------------
(* The stream. *)

K(n) == IF plain THEN 0 ELSE n

Point == pc["readLoop"]

\* The read loop is before its encryption, in its loop, or past the challenge.
Starting == {"challenge", "authSession", "setup", "flushing", "closing", "signalling"}
Looping == {"header", "body", "handle", "log", "warning", "built", "writing"}
Reading == Looping \cup {"authSession", "setup"}

\* The mutex is held exactly by the goroutine that writes.
MutexHeld == \A g \in Writers : pc[g] = "writing" <=> sendMu = g

\* Before the session is connected nobody else sends, and nothing is encrypted.
NobodyYet ==
  /\ Point \in Starting \cup Looping \cup {"done"}
  /\ Point \in Starting =>
       /\ ~encrypted
       /\ \A g \in Senders : pc[g] = "idle"
       /\ sendMu = "free"
       /\ Point # "setup" => up = <<>>
       /\ Point = "setup" => Len(up) <= 1 /\ (open => Len(up) = 1)

\* A client that ended before it was connected, or could not answer the challenge, has
\* no connection.
EndedIsClosed ==
  /\ \A g \in Closers : pc[g] = "signalling" => ~open
  /\ Connected /\ open => Len(up) > 0 /\ encrypted = ~plain
  /\ Point \in Looping => encrypted = ~plain
  /\ encrypted => ~plain

\* What is written next is encrypted at the position the server expects.
OutKeyFits ==
  /\ \A i \in DOMAIN up : up[i] = K(i - 1)
  /\ plain => \A g \in Writers : held[g] = 0
  /\ Connected /\ open =>
       IF sendMu = "free" THEN outKey = K(Len(up) - 1)
                          ELSE outKey = K(Len(up)) /\ held[sendMu] = K(Len(up))

\* The packets on their way are encrypted one after the other, from where the client
\* decrypts to where the server encrypts.
InKeyFits ==
  /\ taken <= Len(up)
  /\ arrived = 0 => down = <<>>
  /\ plain => serverKey = 0
  /\ Point = "challenge" => inKey = 0 /\ serverKey = 0 /\ got = 0 /\ Len(down) <= 1
  /\ Point \in Reading =>
       /\ arrived > 0
       /\ down = <<>> => got = 0 /\ serverKey = inKey
       /\ down # <<>> => /\ inKey = down[1].key + K(got)
                         /\ serverKey = down[Len(down)].key + K(HeaderLen(down[Len(down)].kind))
       /\ \A i \in 1 .. Len(down) - 1 : down[i + 1].key = down[i].key + K(HeaderLen(down[i].kind))
       /\ Point \notin {"header", "body"} => got = 0
       /\ Point \in {"authSession", "setup"} => inKey = 0
       /\ Point = "body" => down # <<>> /\ got = HeaderLen(down[1].kind)

Control == MutexHeld /\ NobodyYet /\ EndedIsClosed

IInv == StreamTypeOK /\ Control /\ OutKeyFits /\ InKeyFits /\ ~garbled

\* The ends of a sequence that is not empty, and of its tail.
LEMMA FirstOfSeq ==
  ASSUME NEW S, NEW s \in Seq(S), s # <<>>
  PROVE  s[1] \in S /\ s[Len(s)] \in S /\ Len(s) \in Nat \ {0}
  OBVIOUS

LEMMA TailOfSeq ==
  ASSUME NEW S, NEW s \in Seq(S), s # <<>>
  PROVE  /\ Tail(s) \in Seq(S)
         /\ Len(Tail(s)) = Len(s) - 1
         /\ \A n \in 1 .. Len(s) - 1 : Tail(s)[n] = s[n + 1]
         /\ Len(s) = 1 => Tail(s) = <<>>
         /\ Len(s) > 1 => Tail(s)[1] = s[2] /\ Tail(s)[Len(Tail(s))] = s[Len(s)]
  OBVIOUS

\* Every step keeps the types.
LEMMA TypeStep ==
  ASSUME StreamTypeOK, [StreamNext]_streamVars
  PROVE  StreamTypeOK'
<1> USE DEF StreamTypeOK, serverStreamVars, cryptoVars, Goto, ReadLoopAt, Rest, Points,
            Goroutines, Writers, Closers, Kinds, Asked, HeaderLen
<1>1. CASE ServerGreet /\ StreamServerStep
  BY <1>1 DEF ServerGreet, StreamServerStep
<1>2. ASSUME NEW kind \in Kinds, ServerPacket(kind), StreamServerStep PROVE StreamTypeOK'
  BY <1>2 DEF ServerPacket, StreamServerStep
<1>3. CASE ServerTake /\ StreamServerStep
  BY <1>3 DEF ServerTake, StreamServerStep
<1>4. CASE Disconnect /\ StreamServerStep
  BY <1>4 DEF Disconnect, StreamServerStep
<1>5. ASSUME NEW g \in Writers, SendBuild(g) PROVE StreamTypeOK'
  BY <1>5 DEF SendBuild
<1>6. ASSUME NEW g \in Writers, CheckOutboundPhase(g) PROVE StreamTypeOK'
  BY <1>6 DEF CheckOutboundPhase
<1>7. ASSUME NEW g \in Writers, SendEncrypt(g) PROVE StreamTypeOK'
  BY <1>7 DEF SendEncrypt
<1>8. ASSUME NEW g \in Writers, SendWrite(g) PROVE StreamTypeOK'
  <2>1. up' \in Seq(Nat)
    <3>1. up \in Seq(Nat) /\ held[g] \in Nat
      OBVIOUS
    <3>2. Append(up, held[g]) \in Seq(Nat)
      BY <3>1, AppendProperties
    <3> QED
      BY <1>8, <3>1, <3>2 DEF SendWrite
  <2> QED
    BY <1>8, <2>1 DEF SendWrite
<1>9. CASE ReadChallenge
  BY <1>9 DEF ReadChallenge
<1>10. CASE SendUnencrypted
  BY <1>10 DEF SendUnencrypted
<1>11. CASE SetupEncryption
  BY <1>11 DEF SetupEncryption
<1>12. CASE ReadHeader
  BY <1>12 DEF ReadHeader
<1>13. CASE ReadBody
  <2>1. down' \in Seq([kind : Kinds, key : Nat])
    BY <1>13, HeadTailProperties DEF ReadBody
  <2> QED
    BY <1>13, <2>1 DEF ReadBody
<1>14. CASE Handled
  BY <1>14 DEF Handled
<1>15. CASE LogAt
  BY <1>15 DEF LogAt
<1>16. CASE Logged
  BY <1>16 DEF Logged
<1>17. CASE ReadFails
  BY <1>17 DEF ReadFails
<1>18. CASE ChallengeFails
  BY <1>18 DEF ChallengeFails
<1>19. CASE CloseCalled
  BY <1>19 DEF CloseCalled
<1>20. ASSUME NEW g \in Closers, FlushLearnedSpellLog(g) PROVE StreamTypeOK'
  BY <1>20 DEF FlushLearnedSpellLog
<1>21. ASSUME NEW g \in Closers, CloseConn(g) PROVE StreamTypeOK'
  BY <1>21 DEF CloseConn
<1>22. ASSUME NEW g \in Closers, SignalStop(g) PROVE StreamTypeOK'
  BY <1>22 DEF SignalStop
<1>23. CASE UNCHANGED streamVars
  BY <1>23 DEF streamVars
<1> QED
  BY <1>1, <1>2, <1>3, <1>4, <1>5, <1>6, <1>7, <1>8, <1>9, <1>10, <1>11, <1>12, <1>13,
     <1>14, <1>15, <1>16, <1>17, <1>18, <1>19, <1>20, <1>21, <1>22, <1>23
     DEF StreamNext, StreamServerStep, ReadStep

\* Every step keeps who holds the mutex, and the order of the login.
LEMMA ControlStep ==
  ASSUME StreamTypeOK, Control, [StreamNext]_streamVars
  PROVE  Control'
<1> USE DEF StreamTypeOK, Control, MutexHeld, NobodyYet, EndedIsClosed, Point, Starting,
            Looping, Connected, serverStreamVars, cryptoVars, Goto, ReadLoopAt, Rest,
            Goroutines, Writers, Closers
<1>1. CASE ServerGreet /\ StreamServerStep
  BY <1>1 DEF ServerGreet, StreamServerStep
<1>2. ASSUME NEW kind \in Kinds, ServerPacket(kind), StreamServerStep PROVE Control'
  BY <1>2 DEF ServerPacket, StreamServerStep
<1>3. CASE ServerTake /\ StreamServerStep
  BY <1>3 DEF ServerTake, StreamServerStep
<1>4. CASE Disconnect /\ StreamServerStep
  BY <1>4 DEF Disconnect, StreamServerStep
<1>5. ASSUME NEW g \in Writers, SendBuild(g) PROVE Control'
  BY <1>5 DEF SendBuild
<1>6. ASSUME NEW g \in Writers, CheckOutboundPhase(g) PROVE Control'
  BY <1>6 DEF CheckOutboundPhase
<1>7. ASSUME NEW g \in Writers, SendEncrypt(g) PROVE Control'
  <2>1. MutexHeld'
    BY <1>7, SendersAssumption DEF SendEncrypt
  <2>2. NobodyYet'
    BY <1>7, SendersAssumption DEF SendEncrypt
  <2>3. EndedIsClosed'
    BY <1>7, SendersAssumption DEF SendEncrypt
  <2> QED
    BY <2>1, <2>2, <2>3
<1>8. ASSUME NEW g \in Writers, SendWrite(g) PROVE Control'
  <2>1. MutexHeld'
    BY <1>8, SendersAssumption DEF SendWrite
  <2>2. NobodyYet'
    BY <1>8, SendersAssumption DEF SendWrite
  <2>3. EndedIsClosed'
    BY <1>8, SendersAssumption DEF SendWrite
  <2> QED
    BY <2>1, <2>2, <2>3
<1>9. CASE ReadChallenge
  BY <1>9 DEF ReadChallenge
<1>10. CASE SendUnencrypted
  BY <1>10 DEF SendUnencrypted
<1>11. CASE SetupEncryption
  <2>1. MutexHeld'
    BY <1>11, SendersAssumption DEF SetupEncryption
  <2>2. NobodyYet'
    BY <1>11, SendersAssumption DEF SetupEncryption
  <2>3. EndedIsClosed'
    <3>1. open => Len(up) > 0
      <4> SUFFICES ASSUME open PROVE Len(up) > 0
        OBVIOUS
      <4>1. Len(up) = 1
        BY <1>11 DEF SetupEncryption
      <4> QED
        BY <4>1
    <3> QED
      BY <1>11, <3>1, SendersAssumption DEF SetupEncryption
  <2> QED
    BY <2>1, <2>2, <2>3
<1>12. CASE ReadHeader
  BY <1>12 DEF ReadHeader
<1>13. CASE ReadBody
  BY <1>13 DEF ReadBody
<1>14. CASE Handled
  BY <1>14 DEF Handled
<1>15. CASE LogAt
  BY <1>15 DEF LogAt
<1>16. CASE Logged
  BY <1>16 DEF Logged
<1>17. CASE ReadFails
  BY <1>17 DEF ReadFails
<1>18. CASE ChallengeFails
  BY <1>18 DEF ChallengeFails
<1>19. CASE CloseCalled
  <2>1. MutexHeld'
    BY <1>19, SendersAssumption DEF CloseCalled
  <2>2. NobodyYet'
    BY <1>19, SendersAssumption DEF CloseCalled
  <2>3. EndedIsClosed'
    BY <1>19, SendersAssumption DEF CloseCalled
  <2> QED
    BY <2>1, <2>2, <2>3
<1>20. ASSUME NEW g \in Closers, FlushLearnedSpellLog(g) PROVE Control'
  BY <1>20 DEF FlushLearnedSpellLog
<1>21. ASSUME NEW g \in Closers, CloseConn(g) PROVE Control'
  BY <1>21 DEF CloseConn
<1>22. ASSUME NEW g \in Closers, SignalStop(g) PROVE Control'
  BY <1>22 DEF SignalStop
<1>23. CASE UNCHANGED streamVars
  BY <1>23 DEF streamVars
<1> QED
  BY <1>1, <1>2, <1>3, <1>4, <1>5, <1>6, <1>7, <1>8, <1>9, <1>10, <1>11, <1>12, <1>13,
     <1>14, <1>15, <1>16, <1>17, <1>18, <1>19, <1>20, <1>21, <1>22, <1>23
     DEF StreamNext, StreamServerStep, ReadStep

\* Every step keeps what is written next at the position the server expects.
LEMMA OutStep ==
  ASSUME StreamTypeOK, Control, OutKeyFits, [StreamNext]_streamVars
  PROVE  OutKeyFits'
<1> USE DEF StreamTypeOK, Control, MutexHeld, NobodyYet, EndedIsClosed, OutKeyFits, K,
            Point, Starting, Looping, Connected, serverStreamVars, cryptoVars, Goto,
            ReadLoopAt, Rest, Goroutines, Writers, Closers
<1>1. CASE ServerGreet /\ StreamServerStep
  BY <1>1 DEF ServerGreet, StreamServerStep
<1>2. ASSUME NEW kind \in Kinds, ServerPacket(kind), StreamServerStep PROVE OutKeyFits'
  BY <1>2 DEF ServerPacket, StreamServerStep
<1>3. CASE ServerTake /\ StreamServerStep
  BY <1>3 DEF ServerTake, StreamServerStep
<1>4. CASE Disconnect /\ StreamServerStep
  BY <1>4 DEF Disconnect, StreamServerStep
<1>5. ASSUME NEW g \in Writers, SendBuild(g) PROVE OutKeyFits'
  BY <1>5 DEF SendBuild
<1>6. ASSUME NEW g \in Writers, CheckOutboundPhase(g) PROVE OutKeyFits'
  BY <1>6 DEF CheckOutboundPhase
<1>7. ASSUME NEW g \in Writers, SendEncrypt(g) PROVE OutKeyFits'
  <2>1. Connected
    BY <1>7, SendersAssumption DEF SendEncrypt
  <2>2. CASE ~open
    BY <1>7, <2>2, SendersAssumption DEF SendEncrypt
  <2>3. CASE open
    <3>1. outKey = K(Len(up) - 1) /\ encrypted = ~plain /\ Len(up) \in Nat
      BY <1>7, <2>1, <2>3 DEF SendEncrypt
    <3>2. outKey' = K(Len(up)) /\ held'[g] = K(Len(up)) /\ sendMu' = g /\ g # "free"
      <4>1. CASE encrypted
        BY <1>7, <3>1, <4>1, SendersAssumption DEF SendEncrypt
      <4>2. CASE ~encrypted
        BY <1>7, <3>1, <4>2, SendersAssumption DEF SendEncrypt
      <4> QED
        BY <4>1, <4>2
    <3>3. plain => \A h \in Writers : held'[h] = 0
      BY <1>7, <3>1 DEF SendEncrypt
    <3>4. UNCHANGED <<up, open, plain>>
      BY <1>7 DEF SendEncrypt
    <3> QED
      BY <3>2, <3>3, <3>4
  <2> QED
    BY <2>2, <2>3
<1>8. ASSUME NEW g \in Writers, SendWrite(g) PROVE OutKeyFits'
  <2>1. CASE ~open
    BY <1>8, <2>1, SendersAssumption DEF SendWrite
  <2>2. CASE open
    <3>1. sendMu = g /\ g # "free" /\ held[g] = K(Len(up)) /\ outKey = K(Len(up))
      <4>1. Connected
        BY <1>8, SendersAssumption DEF SendWrite
      <4>2. sendMu = g /\ g # "free"
        BY <1>8, SendersAssumption DEF SendWrite
      <4> QED
        BY <2>2, <4>1, <4>2
    <3>2. up' = Append(up, held[g]) /\ Len(up') = Len(up) + 1
      BY <1>8, <2>2 DEF SendWrite
    <3>3. \A n \in DOMAIN up' : up'[n] = K(n - 1)
      BY <3>1, <3>2
    <3> QED
      BY <1>8, <2>2, <3>1, <3>2, <3>3 DEF SendWrite
  <2> QED
    BY <2>1, <2>2
<1>9. CASE ReadChallenge
  BY <1>9 DEF ReadChallenge
<1>10. CASE SendUnencrypted
  BY <1>10 DEF SendUnencrypted
<1>11. CASE SetupEncryption
  BY <1>11 DEF SetupEncryption
<1>12. CASE ReadHeader
  BY <1>12 DEF ReadHeader
<1>13. CASE ReadBody
  BY <1>13 DEF ReadBody
<1>14. CASE Handled
  BY <1>14 DEF Handled
<1>15. CASE LogAt
  BY <1>15 DEF LogAt
<1>16. CASE Logged
  BY <1>16 DEF Logged
<1>17. CASE ReadFails
  BY <1>17 DEF ReadFails
<1>18. CASE ChallengeFails
  BY <1>18 DEF ChallengeFails
<1>19. CASE CloseCalled
  BY <1>19 DEF CloseCalled
<1>20. ASSUME NEW g \in Closers, FlushLearnedSpellLog(g) PROVE OutKeyFits'
  BY <1>20 DEF FlushLearnedSpellLog
<1>21. ASSUME NEW g \in Closers, CloseConn(g) PROVE OutKeyFits'
  BY <1>21 DEF CloseConn
<1>22. ASSUME NEW g \in Closers, SignalStop(g) PROVE OutKeyFits'
  BY <1>22 DEF SignalStop
<1>23. CASE UNCHANGED streamVars
  BY <1>23 DEF streamVars
<1> QED
  BY <1>1, <1>2, <1>3, <1>4, <1>5, <1>6, <1>7, <1>8, <1>9, <1>10, <1>11, <1>12, <1>13,
     <1>14, <1>15, <1>16, <1>17, <1>18, <1>19, <1>20, <1>21, <1>22, <1>23
     DEF StreamNext, StreamServerStep, ReadStep

\* Every step keeps the packets on their way aligned with the client's key.
LEMMA InStep ==
  ASSUME StreamTypeOK, Control, InKeyFits, [StreamNext]_streamVars
  PROVE  InKeyFits'
<1> USE DEF StreamTypeOK, Control, NobodyYet, EndedIsClosed, InKeyFits, K, Kinds, HeaderLen,
            Asked, Point, Starting, Looping, Reading, Connected, serverStreamVars,
            cryptoVars, Goto, ReadLoopAt, Rest, Goroutines, Writers, Closers
<1>1. CASE ServerGreet /\ StreamServerStep
  BY <1>1 DEF ServerGreet, StreamServerStep
<1>2. ASSUME NEW kind \in Kinds, ServerPacket(kind), StreamServerStep PROVE InKeyFits'
  <2>1. Point # "challenge"
    BY <1>2 DEF ServerPacket, StreamServerStep
  <2>2. CASE Point \notin Reading
    BY <1>2, <2>1, <2>2 DEF ServerPacket, StreamServerStep
  <2>3. CASE Point \in Reading
    <3> DEFINE p == [kind |-> kind, key |-> serverKey]
               n == Len(down) + 1
    <3>1. /\ down' = Append(down, p) /\ Len(down') = n /\ n \in Nat \ {0}
          /\ down'[n] = p /\ \A k \in 1 .. Len(down) : down'[k] = down[k]
      BY <1>2 DEF ServerPacket
    <3>2. serverKey' = serverKey + K(HeaderLen(kind)) /\ (plain => serverKey = 0)
      <4>1. plain => serverKey = 0
        OBVIOUS
      <4> QED
        BY <1>2, <4>1 DEF ServerPacket
    <3>3. UNCHANGED <<pc, plain, inKey, got, taken, up>> /\ arrived' > 0
      BY <1>2 DEF ServerPacket, StreamServerStep
    <3>4. \A k \in 1 .. Len(down') - 1 :
            down'[k + 1].key = down'[k].key + K(HeaderLen(down'[k].kind))
      <4> SUFFICES ASSUME NEW k \in 1 .. Len(down)
                   PROVE  down'[k + 1].key = down'[k].key + K(HeaderLen(down'[k].kind))
        <5>1. Len(down') - 1 = Len(down) /\ K(0)' = K(0)
          BY <3>1, <3>3
        <5> QED
          BY <5>1
      <4>1. CASE k < Len(down)
        <5>1. down[k + 1].key = down[k].key + K(HeaderLen(down[k].kind))
          BY <2>3, <4>1
        <5>2. down'[k + 1] = down[k + 1] /\ down'[k] = down[k]
          BY <3>1, <4>1
        <5> QED
          BY <5>1, <5>2
      <4>2. CASE k = Len(down)
        BY <2>3, <3>1, <4>2
      <4> QED
        BY <4>1, <4>2
    <3>5. down' # <<>> /\ inKey = down'[1].key + K(got)
      BY <2>3, <3>1
    <3>6. serverKey' = down'[Len(down')].key + K(HeaderLen(down'[Len(down')].kind))
      BY <3>1, <3>2
    <3>7. Point = "body" => down' # <<>> /\ got = HeaderLen(down'[1].kind)
      BY <2>3, <3>1
    <3>8. Point \notin {"header", "body"} => got = 0
      BY <2>3
    <3>9. Point \in {"authSession", "setup"} => inKey = 0
      BY <2>3
    <3>10. taken' <= Len(up') /\ (plain => serverKey' = 0)
      BY <1>2, <3>3 DEF ServerPacket
    <3> HIDE DEF p, n
    <3> QED
      BY <2>1, <3>3, <3>4, <3>5, <3>6, <3>7, <3>8, <3>9, <3>10
  <2> QED
    BY <2>2, <2>3
<1>3. CASE ServerTake /\ StreamServerStep
  BY <1>3 DEF ServerTake, StreamServerStep
<1>4. CASE Disconnect /\ StreamServerStep
  BY <1>4 DEF Disconnect, StreamServerStep
<1>5. ASSUME NEW g \in Writers, SendBuild(g) PROVE InKeyFits'
  BY <1>5 DEF SendBuild
<1>6. ASSUME NEW g \in Writers, CheckOutboundPhase(g) PROVE InKeyFits'
  BY <1>6 DEF CheckOutboundPhase
<1>7. ASSUME NEW g \in Writers, SendEncrypt(g) PROVE InKeyFits'
  BY <1>7 DEF SendEncrypt
<1>8. ASSUME NEW g \in Writers, SendWrite(g) PROVE InKeyFits'
  BY <1>8 DEF SendWrite
<1>9. CASE ReadChallenge
  BY <1>9 DEF ReadChallenge
<1>10. CASE SendUnencrypted
  BY <1>10 DEF SendUnencrypted
<1>11. CASE SetupEncryption
  BY <1>11 DEF SetupEncryption
<1>12. CASE ReadHeader
  <2>1. UNCHANGED <<down, serverKey, taken, arrived, up, plain>> /\ Point \in Reading
    BY <1>12 DEF ReadHeader
  <2>2. down # <<>> /\ got' = got + Asked(down[1].kind) /\ inKey' = inKey + K(Asked(down[1].kind))
    <3>1. down # <<>> /\ Head(down) = down[1] /\ encrypted = ~plain
      BY <1>12 DEF ReadHeader
    <3>2. inKey' = IF encrypted THEN inKey + Asked(down[1].kind) ELSE inKey
      BY <1>12, <3>1 DEF ReadHeader
    <3>3. got' = got + Asked(down[1].kind)
      BY <1>12, <3>1 DEF ReadHeader
    <3>4. CASE plain
      BY <3>1, <3>2, <3>3, <3>4
    <3>5. CASE ~plain
      BY <3>1, <3>2, <3>3, <3>5
    <3> QED
      BY <3>4, <3>5
  <2>3. inKey' = down'[1].key + K(got')
    <3>1. inKey = down[1].key + K(got) /\ K(0) = 0
      BY <2>1, <2>2
    <3>2. down[1] \in [kind : Kinds, key : Nat]
      <4>1. down \in Seq([kind : Kinds, key : Nat])
        OBVIOUS
      <4> QED
        BY <2>2, <4>1, FirstOfSeq
    <3> QED
      BY <2>1, <2>2, <3>1, <3>2
  <2>4. Point' \in {"header", "body"}
    BY <1>12 DEF ReadHeader
  <2>5. Point' = "body" => got' = HeaderLen(down[1].kind)
    <3>1. Head(down) = down[1]
      BY <2>2
    <3> QED
      BY <1>12, <3>1 DEF ReadHeader
  <2> QED
    BY <2>1, <2>2, <2>3, <2>4, <2>5
<1>13. CASE ReadBody
  <2>1. UNCHANGED <<inKey, serverKey, taken, arrived, up, plain>> /\ Point \in Reading
    BY <1>13 DEF ReadBody
  <2>2. down # <<>> /\ got = HeaderLen(down[1].kind) /\ got' = 0 /\ Point' = "handle"
    BY <1>13 DEF ReadBody
  <2>3. /\ Len(down') = Len(down) - 1 /\ Len(down) \in Nat \ {0}
        /\ \A n \in 1 .. Len(down) - 1 : down'[n] = down[n + 1]
        /\ Len(down) = 1 => down' = <<>>
        /\ Len(down) > 1 => down'[1] = down[2] /\ down'[Len(down')] = down[Len(down)]
    <3>1. down \in Seq([kind : Kinds, key : Nat]) /\ down' = Tail(down)
      BY <1>13 DEF ReadBody
    <3> QED
      BY <2>2, <3>1, TailOfSeq, FirstOfSeq
  <2>4. inKey = down[1].key + K(HeaderLen(down[1].kind))
    BY <2>1, <2>2
  <2>5. CASE Len(down') = 0
    <3>1. Len(down) = 1
      BY <2>3, <2>5
    <3>2. down' = <<>> /\ down[Len(down)] = down[1]
      BY <2>3, <3>1
    <3> QED
      BY <2>1, <2>2, <2>4, <3>2
  <2>6. CASE Len(down') > 0
    <3>1. down' # <<>> /\ down'[1] = down[2] /\ down'[Len(down')] = down[Len(down)]
      <4>1. Len(down) > 1 /\ down' # <<>>
        BY <2>3, <2>6
      <4> QED
        BY <2>3, <4>1
    <3>2. inKey' = down'[1].key + K(got')
      <4>1. 1 \in 1 .. Len(down) - 1
        BY <2>3, <2>6
      <4>2. down[1 + 1].key = down[1].key + K(HeaderLen(down[1].kind))
        BY <2>1, <4>1
      <4>3. down[2].key \in Nat
        <5>1. down' \in Seq([kind : Kinds, key : Nat])
          BY TypeStep
        <5>2. down'[1] \in [kind : Kinds, key : Nat]
          BY <3>1, <5>1, FirstOfSeq
        <5> QED
          BY <3>1, <5>2
      <4>4. K(got') = 0
        BY <2>2
      <4> QED
        BY <2>1, <2>4, <3>1, <4>2, <4>3, <4>4
    <3>3. serverKey' = down'[Len(down')].key + K(HeaderLen(down'[Len(down')].kind))
      BY <2>1, <2>2, <3>1
    <3>4. \A n \in 1 .. Len(down') - 1 :
            down'[n + 1].key = down'[n].key + K(HeaderLen(down'[n].kind))
      <4> SUFFICES ASSUME NEW n \in 1 .. Len(down') - 1
                   PROVE  down'[n + 1].key = down'[n].key + K(HeaderLen(down'[n].kind))
        OBVIOUS
      <4>1. n \in 1 .. Len(down) - 1 /\ n + 1 \in 1 .. Len(down) - 1
        BY <2>3
      <4>2. down'[n] = down[n + 1] /\ down'[n + 1] = down[(n + 1) + 1]
        BY <2>3, <4>1
      <4>3. down[(n + 1) + 1].key = down[n + 1].key + K(HeaderLen(down[n + 1].kind))
        BY <2>1, <4>1
      <4> QED
        BY <4>2, <4>3
    <3> QED
      BY <2>1, <2>2, <3>1, <3>2, <3>3, <3>4
  <2> QED
    BY <2>3, <2>5, <2>6
<1>14. CASE Handled
  BY <1>14 DEF Handled
<1>15. CASE LogAt
  BY <1>15 DEF LogAt
<1>16. CASE Logged
  BY <1>16 DEF Logged
<1>17. CASE ReadFails
  BY <1>17 DEF ReadFails
<1>18. CASE ChallengeFails
  BY <1>18 DEF ChallengeFails
<1>19. CASE CloseCalled
  BY <1>19 DEF CloseCalled
<1>20. ASSUME NEW g \in Closers, FlushLearnedSpellLog(g) PROVE InKeyFits'
  BY <1>20 DEF FlushLearnedSpellLog
<1>21. ASSUME NEW g \in Closers, CloseConn(g) PROVE InKeyFits'
  BY <1>21 DEF CloseConn
<1>22. ASSUME NEW g \in Closers, SignalStop(g) PROVE InKeyFits'
  BY <1>22 DEF SignalStop
<1>23. CASE UNCHANGED streamVars
  BY <1>23 DEF streamVars
<1> QED
  BY <1>1, <1>2, <1>3, <1>4, <1>5, <1>6, <1>7, <1>8, <1>9, <1>10, <1>11, <1>12, <1>13,
     <1>14, <1>15, <1>16, <1>17, <1>18, <1>19, <1>20, <1>21, <1>22, <1>23
     DEF StreamNext, StreamServerStep, ReadStep

-----------------------------------------------------------------------------
\* What the steps of the read loop find in the next packet.
LEMMA GarbledStep ==
  ASSUME StreamTypeOK, Control, InKeyFits, ~garbled, [StreamNext]_streamVars
  PROVE  ~garbled'
<1>1. CASE ReadHeader
  <2>1. Point = "header" /\ down # <<>>
    BY <1>1 DEF ReadHeader, ReadLoopAt, Point
  <2>2. Head(down) = down[1] /\ encrypted = ~plain
    BY <2>1 DEF StreamTypeOK, Control, EndedIsClosed, Looping
  <2>3. inKey = down[1].key + K(got)
    BY <2>1 DEF InKeyFits, Reading, Looping
  <2>4. CASE encrypted
    <3>1. K(got) = got
      BY <2>2, <2>4 DEF K
    <3> QED
      BY <1>1, <2>2, <2>3, <3>1 DEF ReadHeader
  <2>5. CASE ~encrypted
    BY <1>1, <2>5 DEF ReadHeader
  <2> QED
    BY <2>4, <2>5
<1>2. CASE ~ReadHeader
  BY <1>2 DEF StreamNext, StreamServerStep, SendBuild, CheckOutboundPhase, SendEncrypt,
              SendWrite, ReadStep,
              ReadChallenge, SendUnencrypted, SetupEncryption, ReadBody, Handled, LogAt,
              Logged, ReadFails, ChallengeFails, CloseCalled,
              FlushLearnedSpellLog, CloseConn, SignalStop,
              streamVars
<1> QED
  BY <1>1, <1>2

\* The invariant is inductive.
THEOREM Inductive == StreamSpec => []IInv
<1>1. StreamInit => IInv
  <2> SUFFICES ASSUME StreamInit PROVE IInv
    OBVIOUS
  <2>1. StreamTypeOK
    <3>1. up \in Seq(Nat) /\ down \in Seq([kind : Kinds, key : Nat])
      BY EmptySeq DEF StreamInit
    <3>2. pc \in [Goroutines -> Points] /\ held \in [Writers -> Nat]
      BY DEF StreamInit, Points
    <3> QED
      BY <3>1, <3>2 DEF StreamInit, StreamTypeOK
  <2>2. Control
    BY SendersAssumption
       DEF StreamInit, Control, MutexHeld, NobodyYet, EndedIsClosed, Point, Starting,
           Looping, Connected, Goroutines, Writers, Closers
  <2>3. OutKeyFits
    BY DEF StreamInit, OutKeyFits, Connected, Goroutines, Writers
  <2>4. InKeyFits
    BY DEF StreamInit, InKeyFits, Point, Reading, Looping, Goroutines, Writers
  <2> QED
    BY <2>1, <2>2, <2>3, <2>4 DEF StreamInit, IInv
<1>2. IInv /\ [StreamNext]_streamVars => IInv'
  BY TypeStep, ControlStep, OutStep, InStep, GarbledStep DEF IInv
<1> QED
  BY <1>1, <1>2, PTL DEF StreamSpec

\* The variables of PacketStream keep their types, for any goroutines and bounds: the
\* key positions only count up, and every packet on the way has a kind and a position.
THEOREM StreamTypeCorrect == StreamSpec => []StreamTypeOK
<1>1. IInv => StreamTypeOK
  BY DEF IInv
<1> QED
  BY <1>1, Inductive, PTL

\* sendPacket under sendMu and readPacket: with any number of goroutines that send, with
\* encrypted or plain headers, both ends of both streams are always at the same position.
THEOREM StreamsStayInStep == StreamSpec => []StreamsInStep
<1>1. IInv => StreamsInStep
  BY DEF IInv, OutKeyFits, StreamsInStep, K
<1> QED
  BY <1>1, Inductive, PTL

-----------------------------------------------------------------------------
(***************************************************************************)
(* Sequences without repetition.                                           *)
(***************************************************************************)

\* The entries of a sequence.
LEMMA Entries ==
  ASSUME NEW S, NEW s \in Seq(S)
  PROVE  /\ \A x : x \in ToSet(s) <=> \E i \in 1 .. Len(s) : s[i] = x
         /\ ToSet(s) \subseteq S
         /\ IsInjective(s) <=> \A i, j \in 1 .. Len(s) : s[i] = s[j] => i = j
<1>1. DOMAIN s = 1 .. Len(s) /\ \A i \in 1 .. Len(s) : s[i] \in S
  OBVIOUS
<1>2. IsInjective(s) <=> \A i, j \in 1 .. Len(s) : s[i] = s[j] => i = j
  BY <1>1 DEF IsInjective
<1> QED
  BY <1>1, <1>2 DEF ToSet

\* Removing an entry: the places before it stay, those after it move down by one.
LEMMA RemovedAt ==
  ASSUME NEW S, NEW s \in Seq(S), NEW i \in 1 .. Len(s)
  PROVE  /\ RemoveAt(s, i) \in Seq(S) /\ Len(RemoveAt(s, i)) = Len(s) - 1
         /\ \A j \in 1 .. i - 1 : RemoveAt(s, i)[j] = s[j]
         /\ \A j \in i .. Len(s) - 1 : RemoveAt(s, i)[j] = s[j + 1]
<1> DEFINE a == SubSeq(s, 1, i - 1)
           b == SubSeq(s, i + 1, Len(s))
<1>1. /\ a \in Seq(S) /\ Len(a) = i - 1 /\ \A j \in 1 .. i - 1 : a[j] = s[j]
      /\ b \in Seq(S) /\ Len(b) = Len(s) - i /\ \A j \in 1 .. Len(s) - i : b[j] = s[i + j]
  OBVIOUS
<1> HIDE DEF a, b
<1>2. /\ a \o b \in Seq(S) /\ Len(a \o b) = Len(s) - 1
      /\ \A j \in 1 .. Len(a) : (a \o b)[j] = a[j]
      /\ \A j \in Len(a) + 1 .. Len(a) + Len(b) : (a \o b)[j] = b[j - Len(a)]
  <2>1. /\ a \o b \in Seq(S) /\ Len(a \o b) = Len(a) + Len(b)
        /\ \A j \in 1 .. Len(a) + Len(b) :
             (a \o b)[j] = IF j <= Len(a) THEN a[j] ELSE b[j - Len(a)]
    BY <1>1, ConcatProperties
  <2> QED
    BY <1>1, <2>1
<1>3. \A j \in i .. Len(s) - 1 : (a \o b)[j] = s[j + 1]
  <2> SUFFICES ASSUME NEW j \in i .. Len(s) - 1 PROVE (a \o b)[j] = s[j + 1]
    OBVIOUS
  <2>1. j \in Len(a) + 1 .. Len(a) + Len(b) /\ j - Len(a) \in 1 .. Len(s) - i
        /\ i + (j - Len(a)) = j + 1
    BY <1>1
  <2> QED
    BY <1>1, <1>2, <2>1
<1>4. RemoveAt(s, i) = a \o b
  BY DEF RemoveAt, a, b
<1> QED
  BY <1>1, <1>2, <1>3, <1>4

\* Where an entry leaves, or none does.
LEMMA WithoutAt ==
  ASSUME NEW S, NEW s \in Seq(S), NEW x
  PROVE  \/ x \notin ToSet(s) /\ Without(s, x) = s
         \/ \E i \in 1 .. Len(s) : s[i] = x /\ Without(s, x) = RemoveAt(s, i)
<1>1. CASE x \in ToSet(s)
  <2> DEFINE i == CHOOSE i \in DOMAIN s : s[i] = x
  <2>1. \E j \in DOMAIN s : s[j] = x
    BY <1>1 DEF ToSet
  <2>2. i \in DOMAIN s /\ s[i] = x
    BY <2>1
  <2>3. DOMAIN s = 1 .. Len(s) /\ Without(s, x) = RemoveAt(s, i)
    BY <1>1 DEF Without
  <2> QED
    BY <2>2, <2>3
<1> QED
  BY <1>1 DEF Without

LEMMA WithoutDrops ==
  ASSUME NEW S, NEW s \in Seq(S), NEW x, IsInjective(s)
  PROVE  /\ Without(s, x) \in Seq(S) /\ Len(Without(s, x)) <= Len(s)
         /\ IsInjective(Without(s, x))
         /\ ToSet(Without(s, x)) = ToSet(s) \ {x}
<1>1. CASE x \notin ToSet(s)
  BY <1>1, WithoutAt DEF ToSet
<1>2. ASSUME NEW i \in 1 .. Len(s), s[i] = x, Without(s, x) = RemoveAt(s, i)
      PROVE  /\ Without(s, x) \in Seq(S) /\ Len(Without(s, x)) <= Len(s)
             /\ IsInjective(Without(s, x))
             /\ ToSet(Without(s, x)) = ToSet(s) \ {x}
  <2> DEFINE r == RemoveAt(s, i)
  <2>1. /\ r \in Seq(S) /\ Len(r) = Len(s) - 1
        /\ \A j \in 1 .. i - 1 : r[j] = s[j]
        /\ \A j \in i .. Len(r) : r[j] = s[j + 1]
    BY RemovedAt
  <2> HIDE DEF r
  <2>2. Len(s) \in Nat /\ \A j, k \in 1 .. Len(s) : s[j] = s[k] => j = k
    BY Entries
  <2>3. IsInjective(r)
    <3>1. ASSUME NEW j \in 1 .. Len(r), NEW k \in 1 .. Len(r), r[j] = r[k] PROVE j = k
      <4>1. \A n \in 1 .. Len(r) :
              \E m \in 1 .. Len(s) : r[n] = s[m] /\ m = IF n < i THEN n ELSE n + 1
        <5> SUFFICES ASSUME NEW n \in 1 .. Len(r)
                     PROVE  \E m \in 1 .. Len(s) : r[n] = s[m] /\ m = IF n < i THEN n ELSE n + 1
          OBVIOUS
        <5>1. CASE n < i
          <6>1. n \in 1 .. Len(s) /\ r[n] = s[n]
            BY <2>1, <2>2, <5>1
          <6> QED
            BY <5>1, <6>1
        <5>2. CASE ~(n < i)
          <6>1. n + 1 \in 1 .. Len(s) /\ r[n] = s[n + 1]
            BY <2>1, <2>2, <5>2
          <6> QED
            BY <5>2, <6>1
        <5> QED
          BY <5>1, <5>2
      <4>2. PICK m \in 1 .. Len(s) : r[j] = s[m] /\ m = IF j < i THEN j ELSE j + 1
        BY <4>1
      <4>3. PICK n \in 1 .. Len(s) : r[k] = s[n] /\ n = IF k < i THEN k ELSE k + 1
        BY <4>1
      <4>4. m = n
        BY <2>2, <3>1, <4>2, <4>3
      <4> QED
        BY <4>2, <4>3, <4>4
    <3>2. DOMAIN r = 1 .. Len(r)
      BY <2>1
    <3> QED
      BY <3>1, <3>2 DEF IsInjective
  <2>4. \A j \in 1 .. Len(s) : j # i => \E k \in 1 .. Len(r) : r[k] = s[j]
    <3> SUFFICES ASSUME NEW j \in 1 .. Len(s), j # i
                 PROVE  \E k \in 1 .. Len(r) : r[k] = s[j]
      OBVIOUS
    <3>1. j < i => r[j] = s[j] /\ j \in 1 .. Len(r)
      BY <2>1
    <3>2. j > i => r[j - 1] = s[j] /\ j - 1 \in 1 .. Len(r)
      BY <2>1
    <3> QED
      BY <3>1, <3>2
  <2>5. \A j \in 1 .. Len(r) : r[j] \in ToSet(s) /\ r[j] # x
    <3> SUFFICES ASSUME NEW j \in 1 .. Len(r) PROVE r[j] \in ToSet(s) /\ r[j] # x
      OBVIOUS
    <3>1. PICK k \in 1 .. Len(s) : k # i /\ r[j] = s[k]
      BY <2>1, <2>2
    <3> QED
      BY <1>2, <2>2, <3>1, Entries
  <2>6. ToSet(r) = ToSet(s) \ {x}
    <3>1. \A y : y \in ToSet(r) <=> \E j \in 1 .. Len(r) : r[j] = y
      BY <2>1, Entries
    <3>2. \A y : y \in ToSet(s) <=> \E j \in 1 .. Len(s) : s[j] = y
      BY Entries
    <3> QED
      BY <1>2, <2>4, <2>5, <3>1, <3>2
  <2> QED
    BY <1>2, <2>1, <2>3, <2>6 DEF r
<1> QED
  BY <1>1, <1>2, WithoutAt

\* A new last entry.
LEMMA AppendAdds ==
  ASSUME NEW S, NEW s \in Seq(S), NEW x \in S
  PROVE  /\ Append(s, x) \in Seq(S)
         /\ ToSet(Append(s, x)) = ToSet(s) \cup {x}
         /\ IsInjective(s) /\ x \notin ToSet(s) => IsInjective(Append(s, x))
<1> DEFINE r == Append(s, x)
<1>1. /\ r \in Seq(S) /\ Len(r) = Len(s) + 1 /\ Len(s) \in Nat /\ r[Len(s) + 1] = x
      /\ \A i \in 1 .. Len(s) : r[i] = s[i]
  OBVIOUS
<1> HIDE DEF r
<1>2. ToSet(r) = ToSet(s) \cup {x}
  BY <1>1 DEF ToSet
<1>3. IsInjective(s) /\ x \notin ToSet(s) => IsInjective(r)
  BY <1>1 DEF IsInjective, ToSet
<1> QED
  BY <1>1, <1>2, <1>3 DEF r

\* The first entry leaves.
LEMMA TailDrops ==
  ASSUME NEW S, NEW s \in Seq(S), s # <<>>, IsInjective(s)
  PROVE  /\ Tail(s) \in Seq(S) /\ Head(s) \in S /\ Head(s) \in ToSet(s)
         /\ IsInjective(Tail(s))
         /\ ToSet(Tail(s)) = ToSet(s) \ {Head(s)}
<1> DEFINE r == Tail(s)
<1>1. /\ r \in Seq(S) /\ Len(s) = Len(r) + 1 /\ Len(r) \in Nat /\ s[1] = Head(s) /\ s[1] \in S
      /\ \A i \in 1 .. Len(r) : r[i] = s[i + 1]
  OBVIOUS
<1> HIDE DEF r
<1>2. \A i \in 1 .. Len(s) : i # 1 => i - 1 \in 1 .. Len(r) /\ r[i - 1] = s[i]
  BY <1>1
<1>3. \A i, j \in 1 .. Len(s) : s[i] = s[j] => i = j
  BY DEF IsInjective
<1>4. IsInjective(r)
  BY <1>1, <1>3 DEF IsInjective
<1>5. \A x \in ToSet(r) : x \in ToSet(s) /\ x # s[1]
  BY <1>1, <1>3, Entries
<1>6. \A x \in ToSet(s) : x # s[1] => x \in ToSet(r)
  BY <1>1, <1>2, Entries
<1>7. ToSet(r) = ToSet(s) \ {s[1]}
  BY <1>5, <1>6
<1>8. s[1] \in ToSet(s)
  BY <1>1, Entries
<1> QED
  BY <1>1, <1>4, <1>7, <1>8 DEF r

-----------------------------------------------------------------------------
(***************************************************************************)
(* Suffixes.                                                               *)
(***************************************************************************)

\* What is left of s without its first k entries.
After(s, k) == SubSeq(s, k + 1, Len(s))

LEMMA AfterIs ==
  ASSUME NEW S, NEW s \in Seq(S), NEW k \in 0 .. Len(s)
  PROVE  /\ After(s, k) \in Seq(S) /\ Len(After(s, k)) = Len(s) - k
         /\ \A i \in 1 .. Len(s) - k : After(s, k)[i] = s[k + i]
<1>1. /\ k + 1 \in Int /\ Len(s) \in Nat
      /\ \A i \in k + 1 .. Len(s) : s[i] \in S
  OBVIOUS
<1>2. /\ After(s, k) \in Seq(S)
      /\ Len(After(s, k)) = IF k + 1 <= Len(s) THEN Len(s) - (k + 1) + 1 ELSE 0
      /\ \A i \in 1 .. Len(s) - (k + 1) + 1 : After(s, k)[i] = s[(k + 1) + i - 1]
  BY <1>1, SubSeqProperties DEF After
<1> QED
  BY <1>1, <1>2

\* A sequence with these entries is that suffix.
LEMMA IsAfter ==
  ASSUME NEW S, NEW s \in Seq(S), NEW k \in 0 .. Len(s), NEW t \in Seq(S),
         Len(t) = Len(s) - k, \A i \in 1 .. Len(t) : t[i] = s[k + i]
  PROVE  t = After(s, k)
<1>1. Len(After(s, k)) = Len(t) /\ \A i \in 1 .. Len(t) : After(s, k)[i] = t[i]
  BY AfterIs
<1> QED
  BY <1>1, AfterIs, SeqEqual

\* A suffix grows with its sequence.
LEMMA AfterAppend ==
  ASSUME NEW S, NEW s \in Seq(S), NEW k \in 0 .. Len(s), NEW x \in S
  PROVE  Append(After(s, k), x) = After(Append(s, x), k)
<1> DEFINE t == Append(After(s, k), x)
           u == Append(s, x)
<1>0. Len(s) \in Nat
  OBVIOUS
<1>1. /\ After(s, k) \in Seq(S) /\ Len(After(s, k)) = Len(s) - k /\ Len(s) \in Nat
      /\ \A i \in 1 .. Len(s) - k : After(s, k)[i] = s[k + i]
  BY <1>0, AfterIs, Zenon
<1>2. /\ u \in Seq(S) /\ Len(u) = Len(s) + 1 /\ u[Len(s) + 1] = x
      /\ \A i \in 1 .. Len(s) : u[i] = s[i]
  OBVIOUS
<1>3. /\ t \in Seq(S) /\ Len(t) = Len(s) - k + 1 /\ t[Len(s) - k + 1] = x
      /\ \A i \in 1 .. Len(s) - k : t[i] = After(s, k)[i]
  BY <1>1
<1> HIDE DEF t, u
<1>4. Len(t) = Len(u) - k /\ k \in 0 .. Len(u)
  BY <1>1, <1>2, <1>3
<1>5. \A i \in 1 .. Len(t) : t[i] = u[k + i]
  <2> SUFFICES ASSUME NEW i \in 1 .. Len(t) PROVE t[i] = u[k + i]
    OBVIOUS
  <2>1. CASE i = Len(s) - k + 1
    BY <1>1, <1>2, <1>3, <2>1
  <2>2. CASE i \in 1 .. Len(s) - k
    <3>1. k + i \in 1 .. Len(s)
      BY <1>1, <2>2
    <3> QED
      BY <1>1, <1>2, <1>3, <2>2, <3>1
  <2> QED
    BY <1>1, <1>3, <2>1, <2>2
<1>6. t = After(u, k)
  BY <1>2, <1>3, <1>4, <1>5, IsAfter
<1> QED
  BY <1>6 DEF t, u

\* The cache keeps a suffix of a suffix.
LEMMA AfterNewest ==
  ASSUME NEW S, NEW s \in Seq(S), NEW k \in 0 .. Len(s)
  PROVE  /\ Newest(After(s, k)) = After(s, IF Len(s) - k > RollBound THEN Len(s) - RollBound ELSE k)
         /\ Len(Newest(After(s, k))) <= RollBound
<1> DEFINE t == After(s, k)
           n == Newest(t)
           l == Len(s) - RollBound
<1>1. /\ t \in Seq(S) /\ Len(t) = Len(s) - k /\ Len(s) \in Nat /\ RollBound \in Nat \ {0}
      /\ \A i \in 1 .. Len(s) - k : t[i] = s[k + i]
  BY AfterIs, RollAssumption
<1> HIDE DEF t
<1>2. CASE Len(s) - k > RollBound
  <2>1. Len(t) - RollBound \in 0 .. Len(t) /\ n = After(t, Len(t) - RollBound)
    BY <1>1, <1>2 DEF Newest, After
  <2>2. /\ n \in Seq(S) /\ Len(n) = RollBound
        /\ \A i \in 1 .. RollBound : n[i] = t[Len(t) - RollBound + i]
    <3> DEFINE m == Len(t) - RollBound
    <3>1. m \in 0 .. Len(t) /\ Len(t) - m = RollBound
      BY <1>1, <2>1
    <3> HIDE DEF m
    <3>2. /\ After(t, m) \in Seq(S) /\ Len(After(t, m)) = Len(t) - m
          /\ \A i \in 1 .. Len(t) - m : After(t, m)[i] = t[m + i]
      BY <1>1, <3>1, AfterIs
    <3> QED
      BY <2>1, <3>1, <3>2 DEF m
  <2> HIDE DEF n
  <2>3. l \in 0 .. Len(s) /\ Len(n) = Len(s) - l
    BY <1>1, <1>2, <2>2
  <2>4. \A i \in 1 .. Len(n) : n[i] = s[l + i]
    <3> SUFFICES ASSUME NEW i \in 1 .. Len(n) PROVE n[i] = s[l + i]
      OBVIOUS
    <3>1. /\ Len(t) - RollBound + i \in 1 .. Len(s) - k
          /\ k + (Len(t) - RollBound + i) = l + i
      BY <1>1, <1>2, <2>2
    <3> QED
      BY <1>1, <2>2, <3>1
  <2>5. n = After(s, l)
    BY <2>2, <2>3, <2>4, IsAfter
  <2> QED
    BY <1>1, <1>2, <2>2, <2>5 DEF n, t
<1>3. CASE ~(Len(s) - k > RollBound)
  BY <1>1, <1>3 DEF Newest, t
<1> QED
  BY <1>2, <1>3

\* An entry of the sequence is removed from both: the suffix begins one place earlier
\* when the entry was before it.
LEMMA AfterWithout ==
  ASSUME NEW S, NEW s \in Seq(S), NEW k \in 0 .. Len(s), IsInjective(s), NEW i \in 1 .. Len(s)
  PROVE  Without(After(s, k), s[i]) = After(RemoveAt(s, i), IF i <= k THEN k - 1 ELSE k)
<1> DEFINE t == After(s, k)
           r == RemoveAt(s, i)
           l == IF i <= k THEN k - 1 ELSE k
<1>0. Len(s) \in Nat
  OBVIOUS
<1>1. /\ t \in Seq(S) /\ Len(t) = Len(s) - k /\ Len(s) \in Nat
      /\ \A j \in 1 .. Len(s) - k : t[j] = s[k + j]
  BY <1>0, AfterIs, Zenon
<1>2. \A j, m \in 1 .. Len(s) : s[j] = s[m] => j = m
  BY Entries
<1>3. /\ r \in Seq(S) /\ Len(r) = Len(s) - 1
      /\ \A j \in 1 .. i - 1 : r[j] = s[j]
      /\ \A j \in i .. Len(s) - 1 : r[j] = s[j + 1]
  BY RemovedAt
<1> HIDE DEF t, r
<1>4. CASE i <= k
  <2>1. \A j \in 1 .. Len(t) : t[j] # s[i]
    <3> SUFFICES ASSUME NEW j \in 1 .. Len(t), t[j] = s[i] PROVE FALSE
      OBVIOUS
    <3>1. k + j \in 1 .. Len(s) /\ s[k + j] = s[i] /\ k + j # i
      BY <1>1, <1>4
    <3> QED
      BY <1>2, <3>1
  <2>2. Without(t, s[i]) = t
    BY <1>1, <2>1, WithoutAt
  <2>3. /\ l \in 0 .. Len(r) /\ Len(t) = Len(r) - l
        /\ \A j \in 1 .. Len(t) : t[j] = r[l + j]
    <3>1. l = k - 1 /\ l \in 0 .. Len(r) /\ Len(t) = Len(r) - l
      BY <1>1, <1>3, <1>4
    <3>2. ASSUME NEW j \in 1 .. Len(t) PROVE t[j] = r[l + j]
      <4>1. l + j \in i .. Len(s) - 1 /\ l + j + 1 = k + j /\ j \in 1 .. Len(s) - k
        BY <1>1, <1>4, <3>1
      <4> QED
        BY <1>1, <1>3, <4>1
    <3> QED
      BY <3>1, <3>2
  <2>4. t = After(r, l)
    BY <1>1, <1>3, <2>3, IsAfter
  <2> QED
    BY <2>2, <2>4 DEF t, r
<1>5. CASE ~(i <= k)
  <2>1. i - k \in 1 .. Len(t) /\ t[i - k] = s[i]
    <3>1. i - k \in 1 .. Len(s) - k /\ k + (i - k) = i
      BY <1>1, <1>5
    <3> QED
      BY <1>1, <3>1
  <2>2. \A j \in 1 .. Len(t) : t[j] = s[i] => j = i - k
    <3> SUFFICES ASSUME NEW j \in 1 .. Len(t), t[j] = s[i] PROVE j = i - k
      OBVIOUS
    <3>1. k + j \in 1 .. Len(s) /\ s[k + j] = s[i]
      BY <1>1
    <3>2. k + j = i
      BY <1>2, <3>1
    <3> QED
      BY <1>1, <3>2
  <2>3. Without(t, s[i]) = RemoveAt(t, i - k)
    <3>1. \/ s[i] \notin ToSet(t)
          \/ \E j \in 1 .. Len(t) : t[j] = s[i] /\ Without(t, s[i]) = RemoveAt(t, j)
      BY <1>1, WithoutAt
    <3>2. s[i] \in ToSet(t)
      BY <1>1, <2>1, Entries
    <3> QED
      BY <2>2, <3>1, <3>2
  <2> DEFINE u == RemoveAt(t, i - k)
  <2>4. /\ u \in Seq(S) /\ Len(u) = Len(t) - 1
        /\ \A j \in 1 .. i - k - 1 : u[j] = t[j]
        /\ \A j \in i - k .. Len(t) - 1 : u[j] = t[j + 1]
    BY <1>1, <2>1, RemovedAt
  <2> HIDE DEF u
  <2>5. /\ l \in 0 .. Len(r) /\ Len(u) = Len(r) - l
        /\ \A j \in 1 .. Len(u) : u[j] = r[l + j]
    <3>1. l = k /\ l \in 0 .. Len(r) /\ Len(u) = Len(r) - l
      BY <1>1, <1>3, <1>5, <2>4
    <3>2. ASSUME NEW j \in 1 .. Len(u) PROVE u[j] = r[l + j]
      <4>1. CASE j \in 1 .. i - k - 1
        <5>1. k + j \in 1 .. i - 1 /\ j \in 1 .. Len(s) - k
          BY <1>1, <1>5, <4>1
        <5> QED
          <6>1. u[j] = t[j] /\ t[j] = s[k + j]
            BY <1>1, <2>4, <4>1, <5>1
          <6>2. r[k + j] = s[k + j]
            BY <1>3, <5>1
          <6> QED
            BY <3>1, <6>1, <6>2
      <4>2. CASE j \in i - k .. Len(t) - 1
        <5>1. /\ k + j \in i .. Len(s) - 1 /\ j + 1 \in 1 .. Len(s) - k
              /\ k + (j + 1) = k + j + 1
          BY <1>1, <1>5, <4>2
        <5> QED
          <6>1. u[j] = t[j + 1]
            BY <2>4, <4>2
          <6>2. t[j + 1] = s[k + (j + 1)]
            BY <1>1, <5>1
          <6>3. r[k + j] = s[k + j + 1]
            BY <1>3, <5>1
          <6> QED
            BY <3>1, <5>1, <6>1, <6>2, <6>3
      <4> QED
        BY <1>1, <1>5, <2>4, <4>1, <4>2
    <3> QED
      BY <3>1, <3>2
  <2>6. u = After(r, l)
    BY <1>3, <2>4, <2>5, IsAfter
  <2> QED
    BY <2>3, <2>6 DEF t, r, u
<1> QED
  BY <1>4, <1>5

-----------------------------------------------------------------------------
(***************************************************************************)
(* Types.                                                                  *)
(***************************************************************************)

LEMMA WithoutTypes ==
  ASSUME NEW S, NEW s \in Seq(S), NEW x
  PROVE  Without(s, x) \in Seq(S) /\ Len(Without(s, x)) <= Len(s)
<1>1. Len(s) \in Nat
  OBVIOUS
<1> QED
  BY <1>1, WithoutAt, RemovedAt

LEMMA NewestTypes ==
  ASSUME NEW S, NEW s \in Seq(S)
  PROVE  Newest(s) \in Seq(S) /\ Len(Newest(s)) <= RollBound
<1>1. s = After(s, 0)
  BY IsAfter
<1>2. /\ RollBound \in Nat \ {0} /\ Len(s) \in Nat
      /\ Len(s) > RollBound => Len(s) - RollBound \in 0 .. Len(s)
  BY RollAssumption
<1>3. Newest(s) = s \/ (Len(s) > RollBound /\ Newest(s) = After(s, Len(s) - RollBound))
  BY <1>2 DEF Newest, After
<1>4. /\ 0 \in 0 .. Len(s) /\ Newest(After(s, 0)) = Newest(s)
  BY <1>1, <1>2
<1>5. Len(Newest(s)) <= RollBound
  BY <1>4, AfterNewest
<1> QED
  BY <1>2, <1>3, <1>5, AfterIs

\* The packets the server may send.
LEMMA SendableTypes ==
  ASSUME NEW p \in Sendable
  PROVE  /\ p.roll \in Rolls \cup {0} /\ p.opens \in BOOLEAN /\ p.decisive \in BOOLEAN
         /\ p.family \in Families \cup {"joined", "short"} /\ p.family # "packet"
         /\ p.family = "start" => p.roll \in Rolls /\ state[p.roll] = "new"
BY NoticesAssumption DEF Sendable, Families

LEMMA HooksTypesInitially == HooksInit => HooksTypeOK
BY RollAssumption, PacketsAssumption DEF HooksInit, HooksTypeOK, Nothing, Families

LEMMA CallerTypes == ASSUME HooksTypeOK, CallerStep PROVE HooksTypeOK'
<1>1. ASSUME NEW h \in Hooks, AddHook(h) PROVE HooksTypeOK'
  <2>1. registered' \in [Families -> Seq(Hooks)]
    BY <1>1 DEF AddHook, HooksTypeOK
  <2> QED
    BY <1>1, <2>1 DEF AddHook, HooksTypeOK, loopVars, storeVars, fieldVars, rollVars
<1>2. ASSUME NEW h \in Hooks, CancelHook(h) PROVE HooksTypeOK'
  <2>1. registered' \in [Families -> Seq(Hooks)]
    <3>1. family[h] \in Families /\ registered[family[h]] \in Seq(Hooks)
      BY DEF HooksTypeOK
    <3>2. Without(registered[family[h]], h) \in Seq(Hooks)
      BY <3>1, WithoutTypes
    <3> QED
      BY <1>2, <3>2 DEF CancelHook, Unregister, HooksTypeOK
  <2> QED
    BY <1>2, <2>1
       DEF CancelHook, Unregister, HooksTypeOK, loopVars, storeVars, fieldVars, rollVars
<1>3. CASE ClearActiveLootRolls
  BY <1>3, RollAssumption
     DEF ClearActiveLootRolls, HooksTypeOK, loopVars, hookVars, fieldVars
<1>4. CASE DrainBattlefieldStatuses
  BY <1>4, PacketsAssumption DEF DrainBattlefieldStatuses, HooksTypeOK, loopVars, hookVars, rollVars
<1> QED
  BY <1>1, <1>2, <1>3, <1>4 DEF CallerStep

\* The steps that change nothing that is stored.
LEMMA ShowTypes ==
  ASSUME HooksTypeOK,
         ReadPacket \/ CallHook \/ HandleShort \/ HandleNotice \/ \E f \in Families : CopyHooks(f)
  PROVE  HooksTypeOK'
<1>1. CASE ReadPacket
  <2>1. packet' \in Sendable
    BY <1>1 DEF ReadPacket
  <2>2. state' \in [Rolls -> {"new", "open", "decided"}]
    BY <1>1 DEF ReadPacket, HooksTypeOK
  <2>3. registered["packet"] \in Seq(Hooks) /\ read' \in 0 .. MaxPackets
    BY <1>1, PacketsAssumption DEF ReadPacket, HooksTypeOK, Families
  <2>4. /\ packet'.roll \in Rolls \cup {0} /\ packet'.opens \in BOOLEAN
        /\ packet'.decisive \in BOOLEAN
        /\ packet'.family \in Families \cup {"joined", "short"}
        /\ packet'.family = "start" => packet'.roll \in Rolls
    BY <2>1, SendableTypes
  <2>5. UNCHANGED <<trade, group, statuses, joined, drained, rolls, due, later, registered, hook, family>>
    BY <1>1 DEF ReadPacket, storeVars, fieldVars, rollVars
  <2>6. /\ toCall' \in Seq(Hooks) /\ called' \in Seq(Hooks) /\ phase' = "handle"
        /\ owed' \subseteq Hooks /\ entitled' \subseteq Hooks
    BY <1>1, <2>3 DEF ReadPacket
  <2> QED
    BY <2>2, <2>3, <2>4, <2>5, <2>6 DEF HooksTypeOK
<1>2. CASE CallHook
  <2>1. /\ called' \in Seq(Hooks) /\ toCall' \in Seq(Hooks)
    BY <1>2 DEF CallHook, HooksTypeOK
  <2> QED
    BY <1>2, <2>1 DEF CallHook, HooksTypeOK, storeVars, fieldVars, rollVars, hookVars
<1>3. CASE HandleShort \/ HandleNotice
  BY <1>3 DEF HandleShort, HandleNotice, Handling, Then, HooksTypeOK, storeVars, fieldVars,
              rollVars, hookVars
<1>4. ASSUME NEW f \in Families, CopyHooks(f) PROVE HooksTypeOK'
  BY <1>4 DEF CopyHooks, Then, HooksTypeOK, storeVars, fieldVars, rollVars, hookVars
<1> QED
  BY <1>1, <1>2, <1>3, <1>4

\* The handlers.
LEMMA StoreTypes ==
  ASSUME HooksTypeOK,
         HandleTradeStatus \/ HandleBattlefieldStatus \/ HandleGroupJoinedBattleground
           \/ HandleGroupList \/ HandleLootStartRoll \/ HandleLootDecided
  PROVE  HooksTypeOK'
<1>1. /\ UNCHANGED <<read, packet, toCall, state, called, registered, hook, family, owed, entitled>>
      /\ phase' \in {"copy", "call"} /\ phase = "handle"
  BY DEF HandleTradeStatus, HandleBattlefieldStatus, HandleGroupJoinedBattleground, HandleGroupList,
         HandleLootStartRoll, HandleLootDecided, Handling, Then, hookVars
<1>2. CASE HandleTradeStatus
  <2>1. trade' \in [at : 0 .. MaxPackets, open : BOOLEAN]
    BY <1>2 DEF HandleTradeStatus, HooksTypeOK
  <2> QED
    BY <1>1, <1>2, <2>1 DEF HandleTradeStatus, HooksTypeOK, fieldVars, rollVars
<1>3. CASE HandleGroupJoinedBattleground \/ HandleGroupList
  BY <1>1, <1>3
     DEF HandleGroupJoinedBattleground, HandleGroupList, HooksTypeOK, fieldVars, rollVars
<1>4. CASE HandleBattlefieldStatus
  BY <1>1, <1>4
     DEF HandleBattlefieldStatus, HooksTypeOK, fieldVars, rollVars
<1>5. CASE HandleLootStartRoll
  <2>1. packet.roll \in Rolls
    BY <1>5 DEF HandleLootStartRoll, Handling, HooksTypeOK
  <2>2. Append(rolls, packet.roll) \in Seq(Rolls) /\ due' \in Seq(Rolls)
    BY <1>5, <2>1 DEF HandleLootStartRoll, HooksTypeOK
  <2>3. rolls' \in Seq(Rolls) /\ Len(rolls') <= RollBound
    BY <1>5, <2>2, NewestTypes DEF HandleLootStartRoll
  <2>4. later' \in [Rolls -> Nat]
    BY <1>5 DEF HandleLootStartRoll, HooksTypeOK
  <2> QED
    BY <1>1, <1>5, <2>2, <2>3, <2>4 DEF HandleLootStartRoll, HooksTypeOK, fieldVars
<1>6. CASE HandleLootDecided
  <2>1. /\ Without(rolls, packet.roll) \in Seq(Rolls)
        /\ Len(Without(rolls, packet.roll)) <= Len(rolls)
        /\ Without(due, packet.roll) \in Seq(Rolls)
    BY WithoutTypes DEF HooksTypeOK
  <2>2. /\ UNCHANGED <<trade, fieldVars, group, later>>
        /\ rolls' = Without(rolls, packet.roll) /\ due' = Without(due, packet.roll)
    BY <1>6 DEF HandleLootDecided
  <2>3. rolls' \in Seq(Rolls) /\ due' \in Seq(Rolls)
    BY <2>1, <2>2
  <2>4. Len(rolls') <= Len(rolls) /\ Len(rolls) <= RollBound
    BY <2>1, <2>2 DEF HooksTypeOK
  <2>5. Len(rolls') <= RollBound
    <3>1. Len(rolls') \in Nat /\ Len(rolls) \in Nat /\ RollBound \in Nat
      BY <2>3, RollAssumption DEF HooksTypeOK
    <3> QED
      BY <2>4, <3>1
  <2> QED
    BY <1>1, <2>2, <2>3, <2>5 DEF HooksTypeOK, fieldVars
<1> QED
  BY <1>2, <1>3, <1>4, <1>5, <1>6

-----------------------------------------------------------------------------
(***************************************************************************)
(* Whom a packet is shown to.                                              *)
(***************************************************************************)

\* The registry of a family holds its hooks, each once.
Registries ==
  \A f \in Families :
    /\ IsInjective(registered[f])
    /\ ToSet(registered[f]) = {h \in Hooks : hook[h] = "on" /\ family[h] = f}

\* The hooks called and to call are different ones, there to be shown the packet; before
\* the hooks of its family are copied they are all hooks for raw packets.
Calls ==
  /\ IsInjective(called) /\ IsInjective(toCall)
  /\ ToSet(called) \cap ToSet(toCall) = {}
  /\ \A h \in ToSet(called) \cup ToSet(toCall) :
       /\ h \in entitled /\ Belongs(h, packet)
       /\ phase # "call" => family[h] = "packet"
  /\ phase # "call" => packet.family # "packet"
  /\ phase = "copy" => toCall = <<>>

\* A hook that is owed the packet was called, is to be called, or is still to be copied.
Owed ==
  /\ \A h \in Hooks : hook[h] = "on" => h \in entitled
  /\ \A h \in owed : /\ hook[h] = "on" /\ Belongs(h, packet)
                     /\ \/ h \in ToSet(called) \cup ToSet(toCall)
                        \/ phase # "call" /\ family[h] = packet.family

Shown == HooksTypeOK /\ Registries /\ Calls /\ Owed

LEMMA EmptyEntries == ToSet(<<>>) = {} /\ IsInjective(<<>>)
BY DEF ToSet, IsInjective

LEMMA ShownInitially == HooksInit => Shown
BY EmptyEntries, HooksTypesInitially DEF HooksInit, Shown, Registries, Calls, Owed, Nothing

LEMMA ShownAdd == ASSUME Shown, HooksTypeOK', NEW h \in Hooks, AddHook(h) PROVE Shown'
<1>1. /\ hook[h] = "new" /\ hook' = [hook EXCEPT ![h] = "on"]
      /\ registered' = [registered EXCEPT ![family[h]] = Append(@, h)]
      /\ entitled' = entitled \cup {h}
      /\ UNCHANGED <<packet, phase, toCall, called, family, owed>>
  BY DEF AddHook, loopVars
<1>2. /\ hook \in [Hooks -> {"new", "on", "off"}] /\ family \in [Hooks -> Families]
      /\ registered \in [Families -> Seq(Hooks)] /\ owed \subseteq Hooks
  BY DEF Shown, HooksTypeOK
<1>3. Registries'
  <2> SUFFICES ASSUME NEW f \in Families
               PROVE  /\ IsInjective(registered'[f])
                      /\ ToSet(registered'[f]) = {g \in Hooks : hook'[g] = "on" /\ family[g] = f}
    BY <1>1 DEF Registries
  <2>1. /\ IsInjective(registered[f])
        /\ ToSet(registered[f]) = {g \in Hooks : hook[g] = "on" /\ family[g] = f}
    BY DEF Shown, Registries
  <2>2. CASE f = family[h]
    <3>1. h \notin ToSet(registered[f]) /\ registered'[f] = Append(registered[f], h)
      BY <1>1, <1>2, <2>1, <2>2
    <3>2. /\ ToSet(registered'[f]) = ToSet(registered[f]) \cup {h}
          /\ IsInjective(registered'[f])
      BY <1>2, <2>1, <3>1, AppendAdds
    <3> QED
      BY <1>1, <1>2, <2>1, <2>2, <3>2
  <2>3. CASE f # family[h]
    BY <1>1, <1>2, <2>1, <2>3
  <2> QED
    BY <2>2, <2>3
<1>4. Calls'
  BY <1>1 DEF Shown, Calls, Belongs, ToSet, IsInjective
<1>5. Owed'
  BY <1>1, <1>2 DEF Shown, Owed, Belongs, ToSet
<1> QED
  BY <1>3, <1>4, <1>5 DEF Shown

LEMMA ShownCancel == ASSUME Shown, HooksTypeOK', NEW h \in Hooks, CancelHook(h) PROVE Shown'
<1>1. /\ hook[h] = "on" /\ hook' = [hook EXCEPT ![h] = "off"]
      /\ registered' = [registered EXCEPT ![family[h]] = Without(@, h)]
      /\ owed' = owed \ {h}
      /\ UNCHANGED <<packet, phase, toCall, called, family, entitled>>
  BY DEF CancelHook, Unregister
<1>2. /\ hook \in [Hooks -> {"new", "on", "off"}] /\ family \in [Hooks -> Families]
      /\ registered \in [Families -> Seq(Hooks)] /\ owed \subseteq Hooks
  BY DEF Shown, HooksTypeOK
<1>3. Registries'
  <2> SUFFICES ASSUME NEW f \in Families
               PROVE  /\ IsInjective(registered'[f])
                      /\ ToSet(registered'[f]) = {g \in Hooks : hook'[g] = "on" /\ family[g] = f}
    BY <1>1 DEF Registries
  <2>1. /\ IsInjective(registered[f])
        /\ ToSet(registered[f]) = {g \in Hooks : hook[g] = "on" /\ family[g] = f}
    BY DEF Shown, Registries
  <2>2. CASE f = family[h]
    <3>1. registered'[f] = Without(registered[f], h)
      BY <1>1, <1>2, <2>2
    <3>2. /\ ToSet(registered'[f]) = ToSet(registered[f]) \ {h}
          /\ IsInjective(registered'[f])
      BY <1>2, <2>1, <3>1, WithoutDrops
    <3> QED
      BY <1>1, <1>2, <2>1, <2>2, <3>2
  <2>3. CASE f # family[h]
    BY <1>1, <1>2, <2>1, <2>3
  <2> QED
    BY <2>2, <2>3
<1>4. Calls'
  BY <1>1 DEF Shown, Calls, Belongs, ToSet, IsInjective
<1>5. Owed'
  BY <1>1, <1>2 DEF Shown, Owed, Belongs, ToSet
<1> QED
  BY <1>3, <1>4, <1>5 DEF Shown

LEMMA ShownRead == ASSUME Shown, HooksTypeOK', ReadPacket PROVE Shown'
<1>1. /\ phase' = "handle" /\ packet' \in Sendable
      /\ toCall' = registered["packet"] /\ called' = <<>>
      /\ owed' = {h \in Hooks : hook[h] = "on" /\ Belongs(h, packet')}
      /\ entitled' = {h \in Hooks : hook[h] = "on"}
      /\ UNCHANGED <<registered, hook, family>>
  BY DEF ReadPacket
<1>2. packet'.family # "packet" /\ "packet" \in Families
  BY <1>1, SendableTypes DEF Families
<1>3. /\ IsInjective(toCall')
      /\ ToSet(toCall') = {h \in Hooks : hook[h] = "on" /\ family[h] = "packet"}
  BY <1>1, <1>2 DEF Shown, Registries
<1>4. Registries'
  BY <1>1 DEF Shown, Registries
<1>5. Calls'
  BY <1>1, <1>2, <1>3, EmptyEntries DEF Calls, Belongs
<1>6. Owed'
  BY <1>1, <1>2, <1>3, EmptyEntries DEF Owed, Belongs
<1> QED
  BY <1>4, <1>5, <1>6 DEF Shown

LEMMA ShownCall == ASSUME Shown, HooksTypeOK', CallHook PROVE Shown'
<1>1. /\ toCall # <<>> /\ called' = Append(called, Head(toCall)) /\ toCall' = Tail(toCall)
      /\ UNCHANGED <<packet, phase, registered, hook, family, owed, entitled>>
  BY DEF CallHook, hookVars
<1>2. toCall \in Seq(Hooks) /\ called \in Seq(Hooks)
  BY DEF Shown, HooksTypeOK
<1>3. /\ Head(toCall) \in ToSet(toCall) /\ IsInjective(toCall')
      /\ ToSet(toCall') = ToSet(toCall) \ {Head(toCall)}
      /\ Head(toCall) \in Hooks
  BY <1>1, <1>2, TailDrops DEF Shown, Calls
<1>4. /\ ToSet(called') = ToSet(called) \cup {Head(toCall)}
      /\ IsInjective(called')
  BY <1>1, <1>2, <1>3, AppendAdds DEF Shown, Calls
<1>5. Registries'
  BY <1>1 DEF Shown, Registries
<1>6. Calls'
  BY <1>1, <1>3, <1>4 DEF Shown, Calls, Belongs
<1>7. Owed'
  BY <1>1, <1>3, <1>4 DEF Shown, Owed, Belongs
<1> QED
  BY <1>5, <1>6, <1>7 DEF Shown

LEMMA ShownCopy == ASSUME Shown, HooksTypeOK', NEW f \in Families, CopyHooks(f) PROVE Shown'
<1>1. /\ phase = "copy" /\ packet.family = f /\ phase' = "call" /\ toCall' = registered[f]
      /\ UNCHANGED <<packet, called, registered, hook, family, owed, entitled>>
  BY DEF CopyHooks, Then, hookVars
<1>2. /\ IsInjective(toCall')
      /\ ToSet(toCall') = {h \in Hooks : hook[h] = "on" /\ family[h] = f}
      /\ toCall = <<>> /\ f # "packet" /\ owed \subseteq Hooks
  BY <1>1 DEF Shown, Registries, Calls, HooksTypeOK
<1>3. Registries'
  BY <1>1 DEF Shown, Registries
<1>4. Calls'
  BY <1>1, <1>2 DEF Shown, Calls, Owed, Belongs
<1>5. Owed'
  BY <1>1, <1>2, EmptyEntries DEF Shown, Owed, Belongs
<1> QED
  BY <1>3, <1>4, <1>5 DEF Shown

\* A handler stores what the packet says while no hook is called.
LEMMA ShownStore ==
  ASSUME Shown, HooksTypeOK',
         HandleShort \/ HandleTradeStatus \/ HandleBattlefieldStatus
           \/ HandleGroupJoinedBattleground \/ HandleGroupList \/ HandleLootStartRoll
           \/ HandleLootDecided \/ HandleNotice
  PROVE  Shown'
<1>1. /\ phase = "handle" /\ toCall = <<>>
      /\ phase' = "copy" \/ (phase' = "call" /\ packet.family \in {"short", "joined"})
      /\ UNCHANGED <<packet, toCall, called, registered, hook, family, owed, entitled>>
  BY DEF HandleShort, HandleTradeStatus, HandleBattlefieldStatus, HandleGroupJoinedBattleground,
         HandleGroupList, HandleLootStartRoll, HandleLootDecided, HandleNotice, Handling, Then,
         hookVars
<1>2. packet.family \in {"short", "joined"} => \A h \in owed : family[h] # packet.family
  BY NoticesAssumption DEF Shown, HooksTypeOK, Families
<1>3. Registries'
  BY <1>1 DEF Shown, Registries
<1>4. Calls'
  BY <1>1 DEF Shown, Calls, Belongs
<1>5. Owed'
  BY <1>1, <1>2 DEF Shown, Owed, Belongs
<1> QED
  BY <1>3, <1>4, <1>5 DEF Shown

LEMMA FamilyCopies ==
  InvokeTradeStatusHooks \/ InvokeBattlefieldStatusHooks \/ InvokeLootStartRollHooks
    \/ InvokeLootRollWonHooks \/ InvokeLootAllPassedHooks \/ InvokeGroupListHooks
    \/ InvokeNoticeHooks
  => \E f \in Families : CopyHooks(f)
BY DEF InvokeTradeStatusHooks, InvokeBattlefieldStatusHooks, InvokeLootStartRollHooks,
       InvokeLootRollWonHooks, InvokeLootAllPassedHooks, InvokeGroupListHooks,
       InvokeNoticeHooks, Families

LEMMA ShownNext == Shown /\ [HooksNext]_hooksVars => Shown'
<1> SUFFICES ASSUME Shown, [HooksNext]_hooksVars PROVE Shown'
  OBVIOUS
<1>0. HooksTypeOK
  BY DEF Shown
<1>1. CASE CallerStep
  <2>1. HooksTypeOK'
    BY <1>0, <1>1, CallerTypes
  <2>2. CASE ClearActiveLootRolls \/ DrainBattlefieldStatuses
    BY <2>1, <2>2 DEF ClearActiveLootRolls, DrainBattlefieldStatuses, loopVars, hookVars,
                      Shown, Registries, Calls, Owed, Belongs, ToSet
  <2> QED
    BY <1>1, <2>1, <2>2, ShownAdd, ShownCancel DEF CallerStep
<1>2. ASSUME NEW f \in Families, CopyHooks(f) PROVE Shown'
  BY <1>0, <1>2, ShowTypes, ShownCopy
<1>3. CASE ReadPacket \/ CallHook \/ HandleShort \/ HandleNotice
  BY <1>0, <1>3, ShowTypes, ShownRead, ShownCall, ShownStore
<1>4. CASE \/ HandleTradeStatus \/ HandleBattlefieldStatus \/ HandleGroupJoinedBattleground
           \/ HandleGroupList \/ HandleLootStartRoll \/ HandleLootDecided
  BY <1>0, <1>4, StoreTypes, ShownStore
<1>5. CASE UNCHANGED hooksVars
  <2>1. /\ UNCHANGED <<read, packet, phase, toCall, registered, hook, family, owed, entitled, called>>
        /\ UNCHANGED <<trade, group, statuses, joined, drained, rolls, due, later, state>>
    BY <1>5 DEF hooksVars, loopVars, storeVars, hookVars, fieldVars, rollVars
  <2>2. HooksTypeOK'
    BY <1>0, <2>1 DEF HooksTypeOK
  <2>3. Registries' /\ Calls' /\ Owed'
    BY <2>1 DEF Shown, Registries, Calls, Owed, Belongs, ToSet, IsInjective
  <2> QED
    BY <2>2, <2>3 DEF Shown
<1> QED
  BY <1>1, <1>2, <1>3, <1>4, <1>5, FamilyCopies DEF HooksNext, LoopStep

\* What a call has shown, and what it still has to show, account for every hook.
THEOREM ShownHolds == HooksSpec => []Shown
BY ShownInitially, ShownNext, PTL DEF HooksSpec

\* Each packet is shown once to every hook that waits for it and to no other, however
\* hooks are added and cancelled during the calls (invokePacketHooks and the invoke
\* functions of the families call from a copy, the cancel functions filter the registry).
THEOREM EveryHookIsTold == HooksSpec => []HooksSeeAll
<1>1. Shown => HooksSeeAll
  BY EmptyEntries DEF Shown, Calls, Owed, HooksSeeAll, Between
<1> QED
  BY <1>1, ShownHolds, PTL

-----------------------------------------------------------------------------
(***************************************************************************)
(* What is stored.                                                         *)
(***************************************************************************)

\* The newest of the rolls that are due are listed, and those that are not listed have
\* as many started after them as are remembered.
Listed(k) == rolls = After(due, k) /\ \A i \in 1 .. k : later[due[i]] >= RollBound

RollsKept ==
  /\ IsInjective(due)
  /\ \A r \in Rolls : r \in ToSet(due) \/ r = packet.roll => state[r] # "new"
  /\ phase = "handle" /\ packet.family = "start" => packet.roll \notin ToSet(due)
  /\ \E k \in 0 .. Len(due) : Listed(k)
  /\ \A i \in 1 .. Len(due) : later[due[i]] >= Len(due) - i

\* What the packet says is stored once it is handled.
Stored ==
  phase # "handle" =>
    /\ packet.family = "trade" => trade.at = read
    /\ packet.family = "group" => group = read
    /\ packet.family = "battlefield" => read \in ToSet(statuses) \/ drained = read
    /\ packet.family = "start" => packet.roll \in ToSet(rolls) \/ packet.roll \notin ToSet(due)

Kept == HooksTypeOK /\ RollsKept /\ Stored

\* Nothing is due.
LEMMA NothingDue ==
  ASSUME due = <<>>, rolls = <<>>, \A r \in Rolls : r = packet.roll => state[r] # "new"
  PROVE  RollsKept
<1>1. /\ 0 \in 0 .. Len(due) /\ Len(due) = 0 /\ After(due, 0) = <<>>
  BY DEF After
<1>2. Listed(0)
  BY <1>1 DEF Listed
<1> QED
  BY <1>1, <1>2, EmptyEntries DEF RollsKept

LEMMA KeptInitially == HooksInit => Kept
<1> SUFFICES ASSUME HooksInit PROVE Kept
  OBVIOUS
<1>1. packet.family = "packet" /\ packet.roll = 0 /\ due = <<>> /\ rolls = <<>>
  BY DEF HooksInit, Nothing
<1>2. \A r \in Rolls : r # packet.roll
  BY <1>1 DEF Rolls
<1>3. RollsKept
  BY <1>1, <1>2, NothingDue
<1>4. Stored
  BY <1>1 DEF Stored
<1> QED
  BY <1>3, <1>4, HooksTypesInitially DEF Kept

\* Another roll is started.
LEMMA RollStarts == ASSUME Kept, HooksTypeOK', HandleLootStartRoll PROVE Kept'
<1> DEFINE r == packet.roll
<1>1. /\ rolls' = Newest(Append(rolls, r)) /\ due' = Append(due, r)
      /\ later' = [q \in Rolls |-> IF q \in ToSet(due) THEN later[q] + 1 ELSE 0]
      /\ phase = "handle" /\ packet.family = "start" /\ phase' = "copy"
      /\ UNCHANGED <<packet, state, read>>
  BY DEF HandleLootStartRoll, Handling, Then
<1>2. /\ r \in Rolls /\ r \notin ToSet(due) /\ due \in Seq(Rolls) /\ rolls \in Seq(Rolls)
      /\ IsInjective(due) /\ later \in [Rolls -> Nat] /\ Len(due) \in Nat
      /\ RollBound \in Nat \ {0}
  <2>1. r \in Rolls /\ due \in Seq(Rolls) /\ rolls \in Seq(Rolls) /\ later \in [Rolls -> Nat]
    BY <1>1, Zenon DEF Kept, HooksTypeOK
  <2>2. r \notin ToSet(due) /\ IsInjective(due)
    BY <1>1 DEF Kept, RollsKept
  <2>3. RollBound \in Nat \ {0}
    BY RollAssumption
  <2> QED
    BY <2>1, <2>2, <2>3
<1>3. /\ due' \in Seq(Rolls) /\ Len(due') = Len(due) + 1 /\ due'[Len(due) + 1] = r
      /\ \A i \in 1 .. Len(due) : due'[i] = due[i]
  BY <1>1, <1>2
<1>4. /\ ToSet(due') = ToSet(due) \cup {r} /\ IsInjective(due')
  <2>1. /\ ToSet(Append(due, r)) = ToSet(due) \cup {r}
        /\ IsInjective(due) /\ r \notin ToSet(due) => IsInjective(Append(due, r))
    BY <1>2, AppendAdds
  <2> QED
    BY <1>1, <1>2, <2>1
<1>5. \A q \in Rolls : q \in ToSet(due') \/ q = packet'.roll => state'[q] # "new"
  BY <1>1, <1>4 DEF Kept, RollsKept
<1>6. \A i \in 1 .. Len(due) : due[i] \in ToSet(due) /\ later'[due[i]] = later[due[i]] + 1
                               /\ due[i] \in Rolls /\ later[due[i]] \in Nat
  <2> SUFFICES ASSUME NEW i \in 1 .. Len(due)
               PROVE  due[i] \in ToSet(due) /\ later'[due[i]] = later[due[i]] + 1
                      /\ due[i] \in Rolls /\ later[due[i]] \in Nat
    OBVIOUS
  <2>1. due[i] \in ToSet(due) /\ due[i] \in Rolls
    BY <1>2, Entries
  <2> QED
    BY <1>1, <1>2, <2>1
<1>7. \A i \in 1 .. Len(due) : later[due[i]] >= Len(due) - i
  BY DEF Kept, RollsKept
<1>8. \A i \in 1 .. Len(due') : later'[due'[i]] >= Len(due') - i
  <2> SUFFICES ASSUME NEW i \in 1 .. Len(due') PROVE later'[due'[i]] >= Len(due') - i
    OBVIOUS
  <2>1. CASE i = Len(due) + 1
    BY <1>1, <1>2, <1>3, <2>1
  <2>2. CASE i \in 1 .. Len(due)
    <3>1. /\ later[due[i]] >= Len(due) - i /\ later[due[i]] \in Nat
          /\ later'[due[i]] = later[due[i]] + 1
      BY <1>6, <1>7, <2>2
    <3>2. due'[i] = due[i] /\ Len(due') = Len(due) + 1
      BY <1>3, <2>2
    <3> QED
      BY <1>2, <2>2, <3>1, <3>2
  <2> QED
    BY <1>2, <1>3, <2>1, <2>2
<1>9. PICK k \in 0 .. Len(due) : Listed(k)
  BY DEF Kept, RollsKept
<1> DEFINE l == IF Len(due') - k > RollBound THEN Len(due') - RollBound ELSE k
<1>10. /\ l \in 0 .. Len(due') /\ rolls' = After(due', l)
  <2>1. k \in 0 .. Len(due') /\ l \in 0 .. Len(due')
    BY <1>2, <1>3, <1>9
  <2>2. Append(rolls, r) = After(due', k)
    BY <1>1, <1>2, <1>9, AfterAppend DEF Listed
  <2>3. rolls' = Newest(After(due', k))
    BY <1>1, <2>2
  <2> QED
    BY <1>3, <2>1, <2>3, AfterNewest
<1>11. \A i \in 1 .. l : later'[due'[i]] >= RollBound
  <2> SUFFICES ASSUME NEW i \in 1 .. l PROVE later'[due'[i]] >= RollBound
    OBVIOUS
  <2>1. i \in 1 .. Len(due) /\ due'[i] = due[i]
    BY <1>2, <1>3, <1>9
  <2>2. later'[due'[i]] = later[due[i]] + 1 /\ later[due[i]] \in Nat /\ later[due[i]] >= Len(due) - i
    BY <1>6, <1>7, <2>1
  <2>3. CASE Len(due') - k > RollBound
    <3>1. l = Len(due) + 1 - RollBound
      BY <1>2, <1>3, <2>3
    <3>2. i <= Len(due) + 1 - RollBound
      BY <1>2, <3>1
    <3> QED
      BY <1>2, <2>1, <2>2, <3>2
  <2>4. CASE ~(Len(due') - k > RollBound)
    <3>1. i \in 1 .. k
      BY <2>4
    <3>2. later[due[i]] >= RollBound
      BY <1>9, <3>1 DEF Listed
    <3> QED
      BY <1>2, <2>2, <3>2
  <2> QED
    BY <2>3, <2>4
<1>12. RollsKept'
  <2> HIDE DEF l
  <2>1. \E m \in 0 .. Len(due') :
          rolls' = After(due', m) /\ \A i \in 1 .. m : later'[due'[i]] >= RollBound
    BY <1>10, <1>11
  <2> QED
    BY <1>1, <1>4, <1>5, <1>8, <2>1 DEF RollsKept, Listed
<1>13. Stored'
  <2>1. Len(due') - l \in Nat \ {0} /\ l + (Len(due') - l) = Len(due')
    BY <1>2, <1>3, <1>9
  <2>2. /\ rolls' \in Seq(Rolls) /\ Len(rolls') = Len(due') - l
        /\ \A i \in 1 .. Len(due') - l : rolls'[i] = due'[l + i]
    BY <1>3, <1>10, AfterIs
  <2> HIDE DEF l
  <2>3. /\ Len(rolls') \in 1 .. Len(due') - l /\ l + Len(rolls') = Len(due')
    BY <2>1, <2>2
  <2>4. rolls'[Len(rolls')] = r
    BY <1>3, <2>1, <2>2, <2>3
  <2>5. r \in ToSet(rolls')
    BY <2>2, <2>3, <2>4, Entries
  <2> QED
    BY <1>1, <2>5 DEF Stored
<1> QED
  BY <1>12, <1>13 DEF Kept

\* A roll is decided.
LEMMA RollDecided == ASSUME Kept, HooksTypeOK', HandleLootDecided PROVE Kept'
<1> DEFINE r == packet.roll
<1>1. /\ rolls' = Without(rolls, r) /\ due' = Without(due, r) /\ phase' = "copy"
      /\ packet.family \in {"won", "passed"}
      /\ UNCHANGED <<packet, state, later>>
  BY DEF HandleLootDecided, Handling, Then
<1>2. /\ due \in Seq(Rolls) /\ rolls \in Seq(Rolls) /\ IsInjective(due)
      /\ later \in [Rolls -> Nat] /\ Len(due) \in Nat /\ RollBound \in Nat \ {0}
  <2>1. due \in Seq(Rolls) /\ rolls \in Seq(Rolls) /\ later \in [Rolls -> Nat]
    BY Zenon DEF Kept, HooksTypeOK
  <2>2. IsInjective(due)
    BY DEF Kept, RollsKept
  <2>3. RollBound \in Nat \ {0}
    BY RollAssumption
  <2> QED
    BY <2>1, <2>2, <2>3
<1>3. due' \in Seq(Rolls) /\ IsInjective(due') /\ ToSet(due') = ToSet(due) \ {r}
  BY <1>1, <1>2, WithoutDrops
<1>4. \A q \in Rolls : q \in ToSet(due') \/ q = packet'.roll => state'[q] # "new"
  BY <1>1, <1>3 DEF Kept, RollsKept
<1>5. PICK k \in 0 .. Len(due) : Listed(k)
  BY DEF Kept, RollsKept
<1>6. \A i \in 1 .. Len(due) : /\ later[due[i]] >= Len(due) - i
                               /\ later[due[i]] \in Nat
  <2>1. \A i \in 1 .. Len(due) : due[i] \in Rolls
    BY <1>2
  <2> QED
    BY <1>2, <2>1 DEF Kept, RollsKept
<1>7. Stored'
  BY <1>1 DEF Stored
<1>8. CASE r \notin ToSet(due)
  <2>1. due' = due
    BY <1>1, <1>2, <1>8, WithoutAt, Entries
  <2>2. r \notin ToSet(rolls)
    <3>1. /\ Len(rolls) = Len(due) - k
          /\ \A i \in 1 .. Len(due) - k : rolls[i] = due[k + i]
      BY <1>2, <1>5, AfterIs DEF Listed
    <3>2. \A i \in 1 .. Len(rolls) : rolls[i] \in ToSet(due)
      <4> SUFFICES ASSUME NEW i \in 1 .. Len(rolls) PROVE rolls[i] \in ToSet(due)
        OBVIOUS
      <4>1. k + i \in 1 .. Len(due) /\ rolls[i] = due[k + i]
        BY <1>2, <1>5, <3>1
      <4> QED
        BY <1>2, <4>1, Entries
    <3>3. \A x : x \in ToSet(rolls) <=> \E i \in 1 .. Len(rolls) : rolls[i] = x
      BY <1>2, Entries
    <3> QED
      BY <1>8, <3>2, <3>3
  <2>3. rolls' = rolls
    BY <1>1, <1>2, <2>2, WithoutAt, Entries
  <2>4. RollsKept'
    BY <1>1, <1>3, <1>4, <2>1, <2>3 DEF Kept, RollsKept, Listed
  <2> QED
    BY <1>7, <2>4 DEF Kept
<1>9. ASSUME NEW i \in 1 .. Len(due), due[i] = r PROVE Kept'
  <2> DEFINE l == IF i <= k THEN k - 1 ELSE k
  <2>1. due' = RemoveAt(due, i)
    <3>1. \/ r \notin ToSet(due)
          \/ \E j \in 1 .. Len(due) : due[j] = r /\ due' = RemoveAt(due, j)
      BY <1>1, <1>2, WithoutAt
    <3>2. r \in ToSet(due) /\ \A j \in 1 .. Len(due) : due[j] = r => j = i
      BY <1>2, <1>9, Entries
    <3> QED
      BY <3>1, <3>2
  <2>2. /\ Len(due') = Len(due) - 1
        /\ \A j \in 1 .. i - 1 : due'[j] = due[j]
        /\ \A j \in i .. Len(due) - 1 : due'[j] = due[j + 1]
    BY <1>2, <2>1, RemovedAt
  <2>3. l \in 0 .. Len(due') /\ rolls' = After(due', l)
    <3>1. l \in 0 .. Len(due')
      BY <1>2, <1>5, <2>2
    <3>2. rolls' = Without(After(due, k), due[i])
      BY <1>1, <1>5, <1>9 DEF Listed
    <3> QED
      BY <1>2, <2>1, <3>1, <3>2, AfterWithout
  <2>4. \A j \in 1 .. Len(due') : later'[due'[j]] >= Len(due') - j
    <3> SUFFICES ASSUME NEW j \in 1 .. Len(due') PROVE later'[due'[j]] >= Len(due') - j
      OBVIOUS
    <3>1. CASE j < i
      <4>1. due'[j] = due[j] /\ j \in 1 .. Len(due)
        BY <1>2, <2>2, <3>1
      <4>2. later[due[j]] >= Len(due) - j /\ later[due[j]] \in Nat
        BY <1>6, <4>1
      <4> QED
        BY <1>1, <1>2, <2>2, <4>1, <4>2
    <3>2. CASE ~(j < i)
      <4>1. due'[j] = due[j + 1] /\ j + 1 \in 1 .. Len(due)
        BY <1>2, <2>2, <3>2
      <4>2. later[due[j + 1]] >= Len(due) - (j + 1) /\ later[due[j + 1]] \in Nat
        BY <1>6, <4>1
      <4> QED
        BY <1>1, <1>2, <2>2, <4>1, <4>2
    <3> QED
      BY <3>1, <3>2
  <2>5. \A j \in 1 .. l : later'[due'[j]] >= RollBound
    <3> SUFFICES ASSUME NEW j \in 1 .. l PROVE later'[due'[j]] >= RollBound
      OBVIOUS
    <3>1. PICK m \in 1 .. k : due'[j] = due[m]
      <4>1. CASE j < i
        <5>1. j \in 1 .. i - 1 /\ j \in 1 .. k
          BY <1>2, <1>5, <4>1
        <5> QED
          BY <2>2, <5>1
      <4>2. CASE ~(j < i)
        <5>1. j \in i .. Len(due) - 1 /\ j + 1 \in 1 .. k
          BY <1>2, <1>5, <4>2
        <5> QED
          BY <2>2, <5>1
      <4> QED
        BY <4>1, <4>2
    <3> QED
      BY <1>1, <1>5, <3>1 DEF Listed
  <2> HIDE DEF l
  <2>6. \E m \in 0 .. Len(due') :
          rolls' = After(due', m) /\ \A j \in 1 .. m : later'[due'[j]] >= RollBound
    BY <2>3, <2>5
  <2>7. packet'.family # "start"
    BY <1>1
  <2>8. RollsKept'
    BY <1>3, <1>4, <2>4, <2>6, <2>7 DEF RollsKept, Listed
  <2> QED
    BY <1>7, <2>8 DEF Kept
<1> QED
  BY <1>2, <1>8, <1>9, Entries

\* A packet is read: what it starts is not due yet.
LEMMA KeptRead == ASSUME Kept, HooksTypeOK', ReadPacket PROVE Kept'
<1>1. /\ packet' \in Sendable /\ phase' = "handle"
      /\ state' = [r \in Rolls |-> IF r # packet'.roll THEN state[r]
                                  ELSE IF packet'.family = "start" THEN "open" ELSE "decided"]
  BY DEF ReadPacket
<1>2. UNCHANGED <<rolls, due, later>>
  BY DEF ReadPacket, storeVars, rollVars
<1>3. packet'.family = "start" => packet'.roll \in Rolls /\ state[packet'.roll] = "new"
  BY <1>1, SendableTypes
<1>4. \A r \in Rolls : r \in ToSet(due') \/ r = packet'.roll => state'[r] # "new"
  BY <1>1, <1>2 DEF Kept, RollsKept
<1>5. packet'.family = "start" => packet'.roll \notin ToSet(due')
  BY <1>2, <1>3 DEF Kept, RollsKept
<1>6. RollsKept'
  BY <1>2, <1>4, <1>5 DEF Kept, RollsKept, Listed
<1>7. Stored'
  BY <1>1 DEF Stored
<1> QED
  BY <1>6, <1>7 DEF Kept

\* The other handlers leave the rolls alone.
LEMMA KeptStore ==
  ASSUME Kept, HooksTypeOK',
         HandleShort \/ HandleTradeStatus \/ HandleBattlefieldStatus
           \/ HandleGroupJoinedBattleground \/ HandleGroupList \/ HandleNotice
  PROVE  Kept'
<1>1. /\ phase' # "handle" /\ UNCHANGED <<read, packet, state, rolls, due, later>>
  BY DEF HandleShort, HandleTradeStatus, HandleBattlefieldStatus, HandleGroupJoinedBattleground,
         HandleGroupList, HandleNotice, Handling, Then, storeVars, fieldVars, rollVars
<1>2. RollsKept'
  BY <1>1 DEF Kept, RollsKept, Listed
<1>3. Stored'
  <2>1. packet.family # "start"
    BY NoticesAssumption
       DEF HandleShort, HandleTradeStatus, HandleBattlefieldStatus,
           HandleGroupJoinedBattleground, HandleGroupList, HandleNotice, Handling
  <2>2. packet.family = "trade" => trade'.at = read
    BY NoticesAssumption
       DEF HandleShort, HandleTradeStatus, HandleBattlefieldStatus,
           HandleGroupJoinedBattleground, HandleGroupList, HandleNotice, Handling
  <2>3. packet.family = "group" => group' = read
    BY NoticesAssumption
       DEF HandleShort, HandleTradeStatus, HandleBattlefieldStatus,
           HandleGroupJoinedBattleground, HandleGroupList, HandleNotice, Handling
  <2>4. packet.family = "battlefield" => read \in ToSet(statuses')
    <3>1. packet.family = "battlefield" => HandleBattlefieldStatus
      BY NoticesAssumption
         DEF HandleShort, HandleTradeStatus, HandleGroupJoinedBattleground, HandleGroupList,
             HandleNotice, Handling
    <3> DEFINE Numbers == 0 .. MaxPackets
    <3>2. read \in Numbers /\ statuses \in Seq(Numbers)
      BY DEF Kept, HooksTypeOK
    <3> HIDE DEF Numbers
    <3>3. ToSet(Append(statuses, read)) = ToSet(statuses) \cup {read}
      BY <3>2, AppendAdds
    <3> QED
      BY <3>1, <3>3 DEF HandleBattlefieldStatus
  <2> QED
    BY <1>1, <2>1, <2>2, <2>3, <2>4 DEF Stored
<1> QED
  BY <1>2, <1>3 DEF Kept

LEMMA KeptCaller == ASSUME Kept, HooksTypeOK', CallerStep PROVE Kept'
<1>1. CASE \E h \in Hooks : AddHook(h) \/ CancelHook(h)
  <2>1. UNCHANGED <<read, packet, phase, state, trade, group, statuses, drained, rolls, due, later>>
    BY <1>1 DEF AddHook, CancelHook, Unregister, loopVars, storeVars, fieldVars, rollVars
  <2> QED
    BY <2>1 DEF Kept, RollsKept, Listed, Stored
<1>2. CASE ClearActiveLootRolls
  <2>1. /\ UNCHANGED <<read, packet, phase, state, trade, group, statuses, drained>>
        /\ rolls' = <<>> /\ due' = <<>>
    BY <1>2 DEF ClearActiveLootRolls, loopVars, fieldVars
  <2>2. 0 \in 0 .. Len(due') /\ Len(due') = 0 /\ After(due', 0) = <<>>
    BY <2>1 DEF After
  <2>3. \E k \in 0 .. Len(due') :
          rolls' = After(due', k) /\ \A i \in 1 .. k : later'[due'[i]] >= RollBound
    BY <2>1, <2>2
  <2>4. ToSet(due') = {} /\ IsInjective(due')
    BY <2>1, EmptyEntries
  <2>5. RollsKept'
    BY <2>1, <2>2, <2>3, <2>4 DEF Kept, RollsKept, Listed
  <2>6. Stored'
    BY <2>1, <2>4 DEF Kept, Stored
  <2> QED
    BY <2>5, <2>6 DEF Kept
<1>3. CASE DrainBattlefieldStatuses
  <2>1. /\ UNCHANGED <<read, packet, phase, state, trade, group, rolls, due, later>>
        /\ drained' = read
    BY <1>3 DEF DrainBattlefieldStatuses, loopVars, rollVars
  <2> QED
    BY <2>1 DEF Kept, RollsKept, Listed, Stored
<1> QED
  BY <1>1, <1>2, <1>3 DEF CallerStep

LEMMA KeptNext == Kept /\ HooksTypeOK' /\ [HooksNext]_hooksVars => Kept'
<1> SUFFICES ASSUME Kept, HooksTypeOK', [HooksNext]_hooksVars PROVE Kept'
  OBVIOUS
<1>1. ASSUME NEW f \in Families, CopyHooks(f) PROVE Kept'
  <2>1. /\ UNCHANGED <<read, packet, state, trade, group, statuses, drained, rolls, due, later>>
        /\ phase = "copy" /\ phase' = "call"
    BY <1>1 DEF CopyHooks, Then, storeVars, fieldVars, rollVars
  <2> QED
    BY <2>1 DEF Kept, RollsKept, Listed, Stored
<1>2. CASE CallHook \/ UNCHANGED hooksVars
  <2>1. UNCHANGED <<read, packet, phase, state, trade, group, statuses, drained, rolls, due, later>>
    BY <1>2 DEF CallHook, hooksVars, loopVars, storeVars, fieldVars, rollVars
  <2> QED
    BY <2>1 DEF Kept, RollsKept, Listed, Stored
<1> QED
  BY <1>1, <1>2, FamilyCopies, KeptCaller, KeptRead, KeptStore, RollStarts, RollDecided
     DEF HooksNext, LoopStep

\* The types, the stored packet of every call in progress, and the order of the rolls.
THEOREM KeptHolds == HooksSpec => []Kept
<1>1. Shown => HooksTypeOK
  BY DEF Shown
<1> QED
  BY <1>1, ShownHolds, KeptInitially, KeptNext, PTL DEF HooksSpec

\* The types of the registries, of the copies and of what is stored; the cache of rolls
\* never exceeds its bound (maxActiveLootRolls, handleLootStartRoll).
THEOREM HooksTypesHold == HooksSpec => []HooksTypeOK
<1>1. Shown => HooksTypeOK
  BY DEF Shown
<1> QED
  BY <1>1, ShownHolds, PTL

\* Whoever is told of a packet finds it stored (each handler stores under its mutex and
\* only then copies and calls the hooks of its family).
THEOREM StoredThenTold == HooksSpec => []StoredBeforeTold
<1>1. Shown /\ Kept => StoredBeforeTold
  <2> SUFFICES ASSUME Shown, Kept, NEW h \in ToSet(called), family[h] # "packet"
               PROVE  /\ family[h] = "trade" => trade.at = read
                      /\ family[h] = "group" => group = read
                      /\ family[h] = "battlefield" => read \in ToSet(statuses) \/ drained = read
                      /\ family[h] = "start" => packet.roll \in ToSet(rolls)
                                                \/ packet.roll \notin ToSet(due)
    BY DEF StoredBeforeTold
  <2>1. phase = "call" /\ family[h] = packet.family
    BY DEF Shown, HooksTypeOK, Calls, Belongs
  <2> QED
    BY <2>1 DEF Kept, Stored
<1> QED
  BY <1>1, ShownHolds, KeptHolds, PTL

\* The cached rolls are the newest of the open ones in the order they were started, and
\* a roll is lost to the bound only when as many were started after it (the trim of
\* handleLootStartRoll, the filter of removeActiveLootRoll, clearActiveLootRolls).
THEOREM RollsListed == HooksSpec => []OpenRollsAreListed
<1>1. Kept => OpenRollsAreListed
  <2> SUFFICES ASSUME Kept PROVE OpenRollsAreListed
    OBVIOUS
  <2>1. due \in Seq(Rolls) /\ rolls \in Seq(Rolls) /\ later \in [Rolls -> Nat]
    BY Zenon DEF Kept, HooksTypeOK
  <2>2. PICK k \in 0 .. Len(due) : Listed(k)
    BY DEF Kept, RollsKept
  <2>3. /\ Len(rolls) = Len(due) - k
        /\ \A i \in 1 .. Len(due) - k : rolls[i] = due[k + i]
    BY <2>1, <2>2, AfterIs DEF Listed
  <2>4. ASSUME NEW r \in ToSet(due), later[r] < RollBound PROVE r \in ToSet(rolls)
    <3>1. PICK i \in 1 .. Len(due) : due[i] = r /\ r \in Rolls
      BY <2>1, Entries
    <3>2. ~(i \in 1 .. k)
      <4>1. i \in 1 .. k => later[r] >= RollBound
        BY <2>2, <3>1 DEF Listed
      <4>2. later[r] \in Nat /\ RollBound \in Nat
        BY <2>1, <3>1, RollAssumption
      <4> QED
        BY <2>4, <4>1, <4>2
    <3>3. i - k \in 1 .. Len(rolls) /\ k + (i - k) = i
      BY <2>1, <2>3, <3>2
    <3>4. rolls[i - k] = r
      BY <2>3, <3>1, <3>3
    <3> QED
      BY <2>1, <3>3, <3>4, Entries
  <2> QED
    BY <2>2, <2>4 DEF OpenRollsAreListed, Listed, After
<1> QED
  BY <1>1, KeptHolds, PTL

=============================================================================
