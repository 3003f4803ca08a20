---------------------------- MODULE PacketStream ----------------------------
(***************************************************************************)
(* The connection to the world server (client/world.go): the headers of    *)
(* the packets are encrypted with one stream cipher per direction, so      *)
(* every header must be encrypted and decrypted at the position of the     *)
(* key at which the other end takes it.  Any goroutine sends, under        *)
(* w.sendMu, and one reads.  Any goroutine logs, which takes sendMu too,   *)
(* and any closes the client.                                              *)
(*                                                                         *)
(* The server is external; it reads the packets when it likes, and the     *)
(* connection holds Buffer of them in between, beyond which a write        *)
(* blocks.  A connection that fails is closed for both ends.  The senders  *)
(* other than the read loop begin once the session is connected: a bot     *)
(* takes that to be so two seconds after it dialled (bot/bot.go), the      *)
(* tests wait for a later phase.  The content of packets is left out.      *)
(***************************************************************************)
EXTENDS Integers, Sequences

CONSTANTS
  Senders,   \* the goroutines that send, besides the read loop
  Buffer,    \* bound: packets the connection holds towards the server
  MaxSends,  \* bound: packets sent, besides CMSG_AUTH_SESSION
  MaxArrivals  \* bound: packets the server sends, besides SMSG_AUTH_CHALLENGE

ASSUME SendersAssumption == {"readLoop", "closer", "free"} \cap Senders = {}
ASSUME StreamAssumption ==
  Buffer \in Nat \ {0} /\ MaxSends \in Nat /\ MaxArrivals \in Nat

Writers == Senders \cup {"readLoop"}
Goroutines == Writers \cup {"closer"}

\* Packets by their header and payload: no payload, some, or too much for two bytes of
\* length, the length of which then takes three.
Kinds == {"empty", "small", "large"}

HeaderLen(kind) == IF kind = "large" THEN 5 ELSE 4

VARIABLES
  plain,     \* plaintextWorldHeaders, which the server is configured with as well
  pc,        \* what each goroutine is about to do
  sendMu,    \* the holder of the mutex, or "free"
  encrypted, \* w.encrypted
  outKey,    \* headers encrypted with encryptClient
  inKey,     \* bytes decrypted with encryptServer
  held,      \* per writer, the key position of the header it has built
  got,       \* bytes of the next packet's header that were read
  stopped,   \* stopChan is closed
  open,      \* the connection is
  made,      \* packets sent so far, for the bound
  up,        \* the key position of every header written, in order
  taken,     \* external: how many of them the server has read
  down,      \* packets not yet read, with the key position their header starts at
  serverKey, \* external: bytes the server encrypted
  arrived,   \* external: packets the server sent
  garbled    \* history: a header was decrypted at another position than the server's

serverStreamVars == <<taken, serverKey, arrived>>
cryptoVars == <<encrypted, outKey, inKey>>
streamVars == <<plain, pc, sendMu, cryptoVars, held, got, stopped, open, made, up, down,
                serverStreamVars, garbled>>

StreamInit ==
  /\ plain \in BOOLEAN
  /\ pc = [g \in Goroutines |-> IF g = "readLoop" THEN "challenge" ELSE "idle"]
  /\ sendMu = "free"
  /\ encrypted = FALSE
  /\ outKey = 0
  /\ inKey = 0
  /\ held = [g \in Writers |-> 0]
  /\ got = 0
  /\ stopped = FALSE
  /\ open = TRUE
  /\ made = 0
  /\ up = <<>>
  /\ taken = 0
  /\ down = <<>>
  /\ serverKey = 0
  /\ arrived = 0
  /\ garbled = FALSE

Goto(g, point) == pc' = [pc EXCEPT ![g] = point]

-----------------------------------------------------------------------------
(***************************************************************************)
(* The server (external).                                                  *)
(***************************************************************************)

ServerGreet ==
  /\ open
  /\ arrived = 0
  /\ arrived' = 1
  /\ down' = <<[kind |-> "small", key |-> 0]>>
  /\ UNCHANGED <<up, taken, serverKey, open>>

\* It encrypts once it has CMSG_AUTH_SESSION.
ServerPacket(kind) ==
  /\ open
  /\ taken > 0
  /\ arrived <= MaxArrivals
  /\ arrived' = arrived + 1
  /\ down' = Append(down, [kind |-> kind, key |-> serverKey])
  /\ serverKey' = IF plain THEN 0 ELSE serverKey + HeaderLen(kind)
  /\ UNCHANGED <<up, taken, open>>

ServerTake ==
  /\ taken < Len(up)
  /\ taken' = taken + 1
  /\ UNCHANGED <<up, down, serverKey, arrived, open>>

Disconnect ==
  /\ open' = FALSE
  /\ UNCHANGED <<up, down, serverStreamVars>>

StreamServerStep ==
  /\ ServerGreet \/ ServerTake \/ Disconnect \/ \E kind \in Kinds : ServerPacket(kind)
  /\ UNCHANGED <<plain, pc, sendMu, cryptoVars, held, got, stopped, made, garbled>>

-----------------------------------------------------------------------------
(***************************************************************************)
(* Sending.                                                                *)
(***************************************************************************)

\* The session is connected, or the client ended.
Connected ==
  pc["readLoop"] \in
    {"header", "body", "handle", "log", "warning", "built", "writing", "done"}

\* What a sender does between two packets.
Rest(g) == IF g = "readLoop" THEN "header" ELSE "idle"

\* Mutant: the header is encrypted before the mutex is taken.
SendBuildEncrypted(g) ==
  /\ Connected
  /\ pc[g] = IF g = "readLoop" THEN "handle" ELSE "idle"
  /\ made < MaxSends
  /\ made' = made + 1
  /\ \E point \in {"warning", "built"} : Goto(g, point)
  /\ outKey' = IF encrypted THEN outKey + 1 ELSE outKey
  /\ held' = [held EXCEPT ![g] = outKey']
  /\ UNCHANGED <<plain, sendMu, encrypted, inKey, got, stopped, open, up, down,
                 serverStreamVars, garbled>>

\* sendPacket, up to the mutex: the hooks, the header in the clear, and a warning if the
\* packet is one of the game and the phase is not in_world.  The read loop sends from a
\* handler.
SendBuild(g) ==
  /\ Connected
  /\ pc[g] = IF g = "readLoop" THEN "handle" ELSE "idle"
  /\ made < MaxSends
  /\ made' = made + 1
  /\ \E point \in {"warning", "built"} : Goto(g, point)
  /\ UNCHANGED <<plain, sendMu, cryptoVars, held, got, stopped, open, up, down,
                 serverStreamVars, garbled>>

\* checkOutboundPhase logs the warning, which takes the mutex, and lets the packet pass.
CheckOutboundPhase(g) ==
  /\ pc[g] = "warning"
  /\ sendMu = "free"
  /\ Goto(g, "built")
  /\ UNCHANGED <<plain, sendMu, cryptoVars, held, got, stopped, open, made, up, down,
                 serverStreamVars, garbled>>

\* sendPacket takes the mutex and encrypts the header ...
SendEncrypt(g) ==
  /\ pc[g] = "built"
  /\ sendMu = "free"
  /\ sendMu' = g
  /\ Goto(g, "writing")
  /\ IF encrypted
     THEN outKey' = outKey + 1 /\ held' = [held EXCEPT ![g] = outKey + 1]
     ELSE UNCHANGED <<outKey, held>>
  /\ UNCHANGED <<plain, encrypted, inKey, got, stopped, open, made, up, down,
                 serverStreamVars, garbled>>

\* ... and keeps it while it writes, until there is room or the connection has failed.
SendWrite(g) ==
  /\ pc[g] = "writing"
  /\ \/ ~open /\ UNCHANGED up
     \/ open /\ Len(up) - taken < Buffer /\ up' = Append(up, held[g])
  /\ sendMu' = "free"
  /\ Goto(g, Rest(g))
  /\ UNCHANGED <<plain, cryptoVars, held, got, stopped, open, made, down,
                 serverStreamVars, garbled>>

-----------------------------------------------------------------------------
(***************************************************************************)
(* The read loop.                                                          *)
(***************************************************************************)

ReadLoopAt(point) ==
  /\ pc["readLoop"] = point
  /\ UNCHANGED <<plain, held, made, serverStreamVars>>

\* handleAuthChallenge: the challenge comes in the clear ...
ReadChallenge ==
  /\ ReadLoopAt("challenge")
  /\ down # <<>>
  /\ down' = Tail(down)
  /\ Goto("readLoop", "authSession")
  /\ UNCHANGED <<sendMu, cryptoVars, got, stopped, open, up, garbled>>

\* ... and is answered in the clear.  The error of the write is not looked at.
SendUnencrypted ==
  /\ ReadLoopAt("authSession")
  /\ sendMu = "free"
  /\ up' = IF open THEN <<0>> ELSE up
  /\ Goto("readLoop", "setup")
  /\ UNCHANGED <<sendMu, cryptoVars, got, stopped, open, down, garbled>>

\* setupEncryption: both ciphers at their start.
SetupEncryption ==
  /\ ReadLoopAt("setup")
  /\ encrypted' = ~plain
  /\ outKey' = 0
  /\ inKey' = 0
  /\ Goto("readLoop", "header")
  /\ UNCHANGED <<sendMu, got, stopped, open, up, down, garbled>>

\* The bytes of the header asked for next: four, and a fifth if the first says so; in the
\* clear the first, and then the others.
Asked(kind) == IF encrypted THEN IF got = 0 THEN 4 ELSE 1
                            ELSE IF got = 0 THEN 1 ELSE HeaderLen(kind) - 1

\* readPacket, one ReadFull of the header.
ReadHeader ==
  /\ ReadLoopAt("header")
  /\ down # <<>>
  /\ LET kind == Head(down).kind
     IN  /\ got' = got + Asked(kind)
         /\ inKey' = IF encrypted THEN inKey + Asked(kind) ELSE inKey
         /\ garbled' = (garbled \/ (encrypted /\ inKey # Head(down).key + got))
         /\ Goto("readLoop", IF got' = HeaderLen(kind) THEN "body" ELSE "header")
  /\ UNCHANGED <<sendMu, encrypted, outKey, stopped, open, up, down>>

\* The payload, if any, and the handlers begin.
ReadBody ==
  /\ ReadLoopAt("body")
  /\ down # <<>>
  /\ down' = Tail(down)
  /\ got' = 0
  /\ Goto("readLoop", "handle")
  /\ UNCHANGED <<sendMu, cryptoVars, stopped, open, up, garbled>>

\* A handler that has nothing to send is done, or logs, for which it waits for the mutex.
Handled ==
  /\ ReadLoopAt("handle")
  /\ Goto("readLoop", "header")
  /\ UNCHANGED <<sendMu, cryptoVars, got, stopped, open, up, down, garbled>>

LogAt ==
  /\ ReadLoopAt("handle")
  /\ Goto("readLoop", "log")
  /\ UNCHANGED <<sendMu, cryptoVars, got, stopped, open, up, down, garbled>>

Logged ==
  /\ ReadLoopAt("log")
  /\ sendMu = "free"
  /\ Goto("readLoop", "header")
  /\ UNCHANGED <<sendMu, cryptoVars, got, stopped, open, up, down, garbled>>

\* A read fails on a closed connection, or by its deadline when nothing comes: the loop
\* ends with signalStop.
ReadFails ==
  /\ ReadLoopAt("header") \/ ReadLoopAt("body")
  /\ open => down = <<>>
  /\ stopped' = TRUE
  /\ Goto("readLoop", "done")
  /\ UNCHANGED <<sendMu, cryptoVars, got, open, up, down, garbled>>

\* A failure before that has Run close the client.
ChallengeFails ==
  /\ ReadLoopAt("challenge")
  /\ open => down = <<>>
  /\ Goto("readLoop", "flushing")
  /\ UNCHANGED <<sendMu, cryptoVars, got, stopped, open, up, down, garbled>>

ReadStep ==
  \/ ReadChallenge
  \/ SendUnencrypted
  \/ SetupEncryption
  \/ ReadHeader
  \/ ReadBody
  \/ Handled
  \/ LogAt
  \/ Logged
  \/ ReadFails
  \/ ChallengeFails

-----------------------------------------------------------------------------
(***************************************************************************)
(* Close.                                                                  *)
(***************************************************************************)

CloseCalled ==
  /\ pc["closer"] = "idle"
  /\ Goto("closer", "flushing")
  /\ UNCHANGED <<plain, sendMu, cryptoVars, held, got, stopped, open, made, up, down,
                 serverStreamVars, garbled>>

\* Close first logs the spells learned since the last summary, if any, ...
FlushLearnedSpellLog(g) ==
  /\ pc[g] = "flushing"
  /\ sendMu = "free"
  /\ Goto(g, "closing")
  /\ UNCHANGED <<plain, sendMu, cryptoVars, held, got, stopped, open, made, up, down,
                 serverStreamVars, garbled>>

\* ... closes the connection under the mutex ...
CloseConn(g) ==
  /\ pc[g] = "closing"
  /\ sendMu = "free"
  /\ open' = FALSE
  /\ Goto(g, "signalling")
  /\ UNCHANGED <<plain, sendMu, cryptoVars, held, got, stopped, made, up, down,
                 serverStreamVars, garbled>>

\* ... and the waiters are told after it.
SignalStop(g) ==
  /\ pc[g] = "signalling"
  /\ stopped' = TRUE
  /\ Goto(g, "done")
  /\ UNCHANGED <<plain, sendMu, cryptoVars, held, got, open, made, up, down,
                 serverStreamVars, garbled>>

Closers == {"readLoop", "closer"}

StreamNext ==
  \/ StreamServerStep
  \/ \E g \in Writers :
       SendBuild(g) \/ CheckOutboundPhase(g) \/ SendEncrypt(g) \/ SendWrite(g)
  \/ ReadStep
  \/ CloseCalled
  \/ \E g \in Closers : FlushLearnedSpellLog(g) \/ CloseConn(g) \/ SignalStop(g)

\* The client's goroutines run, a read has its deadline, and the mutex of the language
\* starves nobody.  The server need not read.
StreamFairness ==
  /\ \A g \in Writers :
       /\ SF_streamVars(CheckOutboundPhase(g))
       /\ SF_streamVars(SendEncrypt(g))
       /\ WF_streamVars(SendWrite(g))
  /\ SF_streamVars(Logged \/ SendUnencrypted)
  /\ WF_streamVars(ReadStep)
  /\ \A g \in Closers :
       /\ SF_streamVars(FlushLearnedSpellLog(g))
       /\ SF_streamVars(CloseConn(g))
       /\ WF_streamVars(SignalStop(g))

StreamSpec == StreamInit /\ [][StreamNext]_streamVars

FairStreamSpec == StreamSpec /\ StreamFairness

-----------------------------------------------------------------------------
(***************************************************************************)
(* Properties                                                              *)
(***************************************************************************)

Points == {"idle", "challenge", "authSession", "setup", "header", "body", "handle", "log",
           "warning", "built", "writing", "flushing", "closing", "signalling", "done"}

StreamTypeOK ==
  /\ plain \in BOOLEAN
  /\ pc \in [Goroutines -> Points]
  /\ sendMu \in Writers \cup {"free"}
  /\ encrypted \in BOOLEAN
  /\ outKey \in Nat
  /\ inKey \in Nat
  /\ held \in [Writers -> Nat]
  /\ got \in Nat
  /\ stopped \in BOOLEAN
  /\ open \in BOOLEAN
  /\ made \in Nat
  /\ up \in Seq(Nat)
  /\ taken \in Nat
  /\ down \in Seq([kind : Kinds, key : Nat])
  /\ serverKey \in Nat
  /\ arrived \in Nat
  /\ garbled \in BOOLEAN

\* Both directions stay in step with the server, whatever goroutines send at once and
\* however the headers are split: the server reads the i-th header after
\* CMSG_AUTH_SESSION at the i-th position of its key, and no header of the server is
\* decrypted at another position than it was encrypted at.
StreamsInStep ==
  /\ \A i \in DOMAIN up : up[i] = IF plain THEN 0 ELSE i - 1
  /\ ~garbled

\* Close: "closes the connection and unblocks any pending reads.  Always signals stopChan
\* (once) so waiters wake on hard disconnect".
CloseStopsTheClient == pc["closer"] = "flushing" ~> stopped

=============================================================================
