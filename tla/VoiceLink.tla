----------------------------- MODULE VoiceLink -----------------------------
(***************************************************************************)
(* The client's connection to the voice server: VoiceNetwork               *)
(* (voice_network.cpp), RefreshClientPorts and OnRenderFrame (voice.cpp).  *)
(*                                                                         *)
(* Three threads take part.  "ws" is the WebSocket library's thread: it    *)
(* connects, calls the message callback and reconnects.  "poll" is         *)
(* PollLoop of dllmain.cpp, which calls OnRenderFrame twice a second; the  *)
(* call of RefreshClientPorts in voice::Init comes before its first frame. *)
(* "talk" stands for every other thread that sends: capture, keepalive and *)
(* the game's render thread.  ws and poll both run RefreshClientPorts and  *)
(* TrySendAuth; only the latter takes a lock (auth_mu).                    *)
(*                                                                         *)
(* A player is known by the local port of its game connection.  The server *)
(* is the environment: it takes the first message of a connection for its  *)
(* authentication (handleWS), and asks the bridge who owns those ports     *)
(* until it knows or its window has passed.  Frames are counted, clocks    *)
(* are not: age is the number of frames since g_out_of_world_at was set.   *)
(***************************************************************************)
EXTENDS Integers, FiniteSets

CONSTANTS
  Port,          \* local ports of the game connection
  NoPort,        \* no game connection: login screen, logout, disconnect
  RefreshEvery,  \* frames from one look at the TCP table to the next (15)
  Grace,         \* frames kOutOfWorldGraceMs lasts (10)
  MaxFaults      \* bound: lost links and TCP tables that came back empty

ASSUME VoiceLinkAssumption ==
  /\ NoPort \notin Port
  /\ Grace \in Nat \ {0}
  /\ RefreshEvery \in Nat \ {0}
  /\ MaxFaults \in Nat

Thread == {"ws", "poll", "talk"}
Refresher == {"ws", "poll"}

VARIABLES
  game,        \* the port of the game connection
  away,        \* history: frames game has been NoPort, counted to Grace + 1
  faults,      \* faults left
  pc,          \* where each thread is
  seen,        \* the ports a refresh found in the TCP table
  connected, authSent,      \* VoiceNetwork: flags, written without a lock
  authMu,                   \* the thread that holds auth_mu
  clientPorts,              \* the ports authentication will send
  session,                  \* session_id: the player it stands for
  reconnect, stop,          \* automatic reconnection; ws.stop() was called
  lastCount,                \* g_last_port_count # 0
  age,                      \* 0: g_out_of_world_at is 0; n: set n frames ago
  frame,                    \* OnRenderFrame's counter; -1 during Init
  suspended,                \* g_voice_suspended
  link,                     \* the transport: "none", "up" or "cut"
  server,                   \* what handleWS has made of the connection
  torn,        \* history: two refreshes were between compare and store at once
  overtaken    \* history: Open cleared authSent while auth was being sent

envVars == <<game, away, faults>>
authVars == <<connected, authSent, authMu, clientPorts, session>>
timerVars == <<lastCount, age, frame, suspended>>
wsVars == <<reconnect, stop>>
netVars == <<link, server>>
history == <<torn, overtaken>>
vars == <<envVars, pc, seen, authVars, wsVars, timerVars, netVars, history>>

Stage == {"unread", "polling", "granted"}

Unread == [stage |-> "unread", ports |-> {}, player |-> NoPort]

Init ==
  /\ game \in Port \union {NoPort}
  /\ away = 0
  /\ faults = MaxFaults
  /\ pc = [t \in Thread |-> IF t = "ws" THEN "down"
                            ELSE IF t = "poll" THEN "enumerate" ELSE "quiet"]
  /\ seen = [t \in Refresher |-> {}]
  /\ connected = FALSE /\ authSent = FALSE
  /\ authMu = "free"
  /\ clientPorts = {}
  /\ session = NoPort
  /\ reconnect = TRUE /\ stop = FALSE
  /\ lastCount = FALSE
  /\ age = 0
  /\ frame = -1
  /\ suspended = FALSE
  /\ link = "none"
  /\ server = Unread
  /\ torn = FALSE /\ overtaken = FALSE

Transition(t, from, to) ==
  /\ pc[t] = from
  /\ pc' = [pc EXCEPT ![t] = to]

\* What becomes of a message the client sends: the first one of a connection
\* is taken for its authentication, and anything else there ends it.  The
\* server reads no second authentication.
Deliver(isAuth) ==
  IF link # "up" \/ server.stage # "unread" THEN UNCHANGED netVars
  ELSE IF isAuth
  THEN /\ server' = [stage |-> "polling", ports |-> clientPorts, player |-> NoPort]
       /\ UNCHANGED link
  ELSE /\ link' = "cut"
       /\ UNCHANGED server

-----------------------------------------------------------------------------
\* RefreshClientPorts, on the thread t

\* A refresh called by the Open handler goes on to authenticate; one called by
\* a frame, to the rest of the frame.
AfterRefresh(t) == IF t = "ws" THEN "auth" ELSE "ping"

\* The TCP table may have grown between the two calls that read it: then the
\* list comes back empty whatever the connections are.
Enumerate(t) ==
  /\ Transition(t, "enumerate", "compare")
  /\ \/ seen' = [seen EXCEPT ![t] = {game} \ {NoPort}] /\ UNCHANGED faults
     \/ /\ faults > 0 /\ game # NoPort
        /\ faults' = faults - 1
        /\ seen' = [seen EXCEPT ![t] = {}]
  /\ UNCHANGED <<game, away, authVars, wsVars, timerVars, netVars, history>>

\* Mutant: the timer is not reset when the player comes back.
CompareKeepsTimer(t) ==
  /\ Transition(t, "compare", "store")
  /\ age' = IF lastCount /\ seen[t] = {} THEN 1 ELSE age
  /\ UNCHANGED <<envVars, seen, authVars, wsVars, lastCount, frame, suspended, netVars,
                 history>>

Compare(t) ==
  /\ \/ ~lastCount /\ seen[t] # {} /\ age' = 0 /\ Transition(t, "compare", "store")
     \/ lastCount /\ seen[t] = {} /\ age' = 1 /\ Transition(t, "compare", "store")
     \/ /\ lastCount = (seen[t] # {})
        /\ UNCHANGED age
        /\ Transition(t, "compare", "store")
  /\ UNCHANGED <<envVars, seen, authVars, wsVars, lastCount, frame, suspended, netVars,
                 history>>

\* The count is stored over whatever the other thread has made of it since
\* Compare: torn remembers that both were there at once.
Store(t) ==
  /\ Transition(t, "store", IF seen[t] = {} THEN AfterRefresh(t) ELSE "ports")
  /\ lastCount' = (seen[t] # {})
  /\ torn' = (torn \/ \E u \in Refresher \ {t} : pc[u] = "store")
  /\ UNCHANGED <<envVars, seen, authVars, wsVars, age, frame, suspended, netVars, overtaken>>

\* SetClientPorts, up to the release of auth_mu
SetClientPorts(t) ==
  /\ authMu = "free"
  /\ \/ /\ clientPorts # seen[t]
        /\ clientPorts' = seen[t]
        /\ authSent' = FALSE
        /\ Transition(t, "ports", "push")
     \/ /\ clientPorts = seen[t]
        /\ UNCHANGED <<clientPorts, authSent>>
        /\ Transition(t, "ports", AfterRefresh(t))
  /\ seen' = [seen EXCEPT ![t] = {}]
  /\ UNCHANGED <<envVars, connected, authMu, session, wsVars, timerVars, netVars,
                 history>>

-----------------------------------------------------------------------------
\* TrySendAuth, from SetClientPorts ("push") and from Open ("auth").  The
\* thread holds auth_mu from the check until authSent is set.

AfterAuth(t, from) == IF from = "push" THEN AfterRefresh(t) ELSE "idle"

Sending(from) == IF from = "push" THEN "pushSend" ELSE "authSend"
Sent(from) == IF from = "push" THEN "pushSent" ELSE "authSent"

AuthCheck(t, from) ==
  /\ authMu = "free"
  /\ \/ /\ clientPorts # {} /\ ~authSent /\ connected
        /\ authMu' = t
        /\ Transition(t, from, Sending(from))
     \/ /\ clientPorts = {} \/ authSent \/ ~connected
        /\ UNCHANGED authMu
        /\ Transition(t, from, AfterAuth(t, from))
  /\ UNCHANGED <<envVars, seen, connected, authSent, clientPorts, session, wsVars,
                 timerVars, netVars, history>>

AuthSend(t, from) ==
  /\ Transition(t, Sending(from), Sent(from))
  /\ Deliver(TRUE)
  /\ UNCHANGED <<envVars, seen, authVars, wsVars, timerVars, history>>

AuthDone(t, from) ==
  /\ Transition(t, Sent(from), AfterAuth(t, from))
  /\ authSent' = TRUE
  /\ authMu' = "free"
  /\ UNCHANGED <<envVars, seen, connected, clientPorts, session, wsVars, timerVars,
                 netVars, history>>

-----------------------------------------------------------------------------
\* The message callback, on the ws thread

\* The transport of a new connection is up and the server waits for its first
\* message; the callback is told of it by OpenConnected.
Connect ==
  /\ ~stop
  /\ Transition("ws", "down", "open")
  /\ link' = "up"
  /\ server' = Unread
  /\ UNCHANGED <<envVars, seen, authVars, wsVars, timerVars, history>>

OpenConnected ==
  /\ Transition("ws", "open", "opened")
  /\ connected' = TRUE
  /\ UNCHANGED <<envVars, seen, authSent, authMu, clientPorts, session, wsVars,
                 timerVars, netVars, history>>

\* Mutant: only Close clears the flag.
OpenKeepsClaim ==
  /\ Transition("ws", "opened", "enumerate")
  /\ overtaken' = (authMu # "free")
  /\ UNCHANGED <<envVars, seen, authVars, wsVars, timerVars, netVars, torn>>

\* Open forgets that auth was sent, unless it is being sent just now: then the
\* sender sets authSent once more when it is done.
OpenUnsent ==
  /\ Transition("ws", "opened", "enumerate")
  /\ authSent' = FALSE
  /\ overtaken' = (authMu # "free")
  /\ UNCHANGED <<envVars, seen, connected, authMu, clientPorts, session, wsVars,
                 timerVars, netVars, torn>>

\* HandleWsMessage: auth_ok
AuthOk ==
  /\ pc["ws"] = "idle"
  /\ link = "up"
  /\ server.stage = "granted"
  /\ session = NoPort
  /\ session' = server.player
  /\ UNCHANGED <<envVars, pc, seen, connected, authSent, authMu, clientPorts, wsVars,
                 timerVars, netVars, history>>

\* The Close handler, statement by statement; stop() closes the socket too.
CloseConnected ==
  /\ link = "cut" \/ stop
  /\ Transition("ws", "idle", "closing")
  /\ connected' = FALSE
  /\ link' = "cut"
  /\ UNCHANGED <<envVars, seen, authSent, authMu, clientPorts, session, wsVars, timerVars,
                 server, history>>

CloseUnsent ==
  /\ Transition("ws", "closing", "unsent")
  /\ authSent' = FALSE
  /\ UNCHANGED <<envVars, seen, connected, authMu, clientPorts, session, wsVars,
                 timerVars, netVars, history>>

\* Mutant: the session outlives its connection.
CloseSessionKept ==
  /\ Transition("ws", "unsent", "down")
  /\ link' = "none"
  /\ UNCHANGED <<envVars, seen, authVars, wsVars, timerVars, server, history>>

CloseSession ==
  /\ Transition("ws", "unsent", "down")
  /\ session' = NoPort
  /\ link' = "none"
  /\ UNCHANGED <<envVars, seen, connected, authSent, authMu, clientPorts, wsVars,
                 timerVars, server, history>>

\* The library's thread ends once it has been told to stop.
WsEnds ==
  /\ stop \/ ~reconnect
  /\ Transition("ws", "down", "ended")
  /\ UNCHANGED <<envVars, seen, authVars, wsVars, timerVars, netVars, history>>

-----------------------------------------------------------------------------
\* OnRenderFrame, on the poll thread

\* 500 ms have passed; every RefreshEvery-th frame looks at the TCP table.
Frame ==
  /\ Transition("poll", "sleep", IF frame = 0 THEN "enumerate" ELSE "ping")
  /\ age' = IF age \in 1 .. Grace THEN age + 1 ELSE age
  /\ away' = IF game = NoPort /\ away <= Grace THEN away + 1 ELSE away
  /\ UNCHANGED <<game, faults, seen, authVars, wsVars, lastCount, frame, suspended, netVars,
                 history>>

\* The refresh of voice::Init is followed by no frame of its own.
EndInit ==
  /\ frame = -1
  /\ Transition("poll", "ping", "sleep")
  /\ frame' = 0
  /\ UNCHANGED <<envVars, seen, authVars, wsVars, lastCount, age, suspended, netVars, history>>

\* SendPingTick asks for a connection, not for a session; it may be throttled.
Ping ==
  /\ frame # -1
  /\ Transition("poll", "ping", "suspend")
  /\ UNCHANGED netVars \/ (connected /\ Deliver(FALSE))
  /\ UNCHANGED <<envVars, seen, authVars, wsVars, timerVars, history>>

\* The grace has passed; SuspendWs turns reconnection off ...
Suspend ==
  /\ ~suspended /\ age > Grace
  /\ Transition("poll", "suspend", "stop")
  /\ reconnect' = FALSE
  /\ UNCHANGED <<envVars, seen, authVars, stop, timerVars, netVars, history>>

\* ... and stops the library's thread, ...
Stop ==
  /\ Transition("poll", "stop", "join")
  /\ stop' = TRUE
  /\ UNCHANGED <<envVars, seen, authVars, reconnect, timerVars, netVars, history>>

\* ... which it waits for.
\* Mutant: it does not wait.
JoinNobody ==
  /\ Transition("poll", "join", "resume")
  /\ stop' = FALSE
  /\ connected' = FALSE /\ authSent' = FALSE
  /\ session' = NoPort
  /\ suspended' = TRUE
  /\ UNCHANGED <<envVars, seen, authMu, clientPorts, reconnect, lastCount, age, frame,
                 netVars, history>>

Join ==
  /\ pc["ws"] = "ended"
  /\ Transition("poll", "join", "resume")
  /\ stop' = FALSE
  /\ connected' = FALSE /\ authSent' = FALSE
  /\ session' = NoPort
  /\ suspended' = TRUE
  /\ UNCHANGED <<envVars, seen, authMu, clientPorts, reconnect, lastCount, age, frame,
                 netVars, history>>

StayConnected ==
  /\ suspended \/ age <= Grace
  /\ Transition("poll", "suspend", "resume")
  /\ UNCHANGED <<envVars, seen, authVars, wsVars, timerVars, netVars, history>>

\* Mutant: the counter never wraps.
NextFrameNoWrap == frame + 1

NextFrame == (frame + 1) % RefreshEvery

\* Mutant: reconnection stays off.
ResumeOnce ==
  /\ suspended /\ lastCount
  /\ pc["poll"] = "resume"
  /\ pc' = [pc EXCEPT !["poll"] = "sleep", !["ws"] = "down"]
  /\ suspended' = FALSE
  /\ frame' = NextFrame
  /\ UNCHANGED <<envVars, seen, authVars, wsVars, lastCount, age, netVars, history>>

\* ResumeWs: reconnection is on again and the library's thread starts.
Resume ==
  /\ suspended /\ lastCount
  /\ pc["poll"] = "resume"
  /\ pc' = [pc EXCEPT !["poll"] = "sleep", !["ws"] = "down"]
  /\ reconnect' = TRUE
  /\ suspended' = FALSE
  /\ frame' = NextFrame
  /\ UNCHANGED <<envVars, seen, authVars, stop, lastCount, age, netVars, history>>

StayAsIs ==
  /\ ~(suspended /\ lastCount)
  /\ Transition("poll", "resume", "sleep")
  /\ frame' = NextFrame
  /\ UNCHANGED <<envVars, seen, authVars, wsVars, lastCount, age, suspended, netVars,
                 history>>

-----------------------------------------------------------------------------
\* The other senders: a capture frame or a keepalive checks for a session, the
\* overlay draws its controls only in one; the message follows later.

TalkCheck ==
  /\ session # NoPort
  /\ Transition("talk", "quiet", "speak")
  /\ UNCHANGED <<envVars, seen, authVars, wsVars, timerVars, netVars, history>>

TalkSend ==
  /\ Transition("talk", "speak", "quiet")
  /\ Deliver(FALSE)
  /\ UNCHANGED <<envVars, seen, authVars, wsVars, timerVars, history>>

-----------------------------------------------------------------------------
\* The game, the network and the server

Enter ==
  /\ game = NoPort
  /\ game' \in Port
  /\ away' = 0
  /\ UNCHANGED <<faults, pc, seen, authVars, wsVars, timerVars, netVars, history>>

Leave ==
  /\ game # NoPort
  /\ game' = NoPort
  /\ UNCHANGED <<away, faults, pc, seen, authVars, wsVars, timerVars, netVars, history>>

LinkLost ==
  /\ faults > 0 /\ link = "up"
  /\ faults' = faults - 1
  /\ link' = "cut"
  /\ UNCHANGED <<game, away, pc, seen, authVars, wsVars, timerVars, server, history>>

\* A connection that fails to open is reported as an error: the Close handler runs.
ConnectFails ==
  /\ ~stop /\ faults > 0
  /\ faults' = faults - 1
  /\ Transition("ws", "down", "closing")
  /\ connected' = FALSE
  /\ UNCHANGED <<game, away, seen, authSent, authMu, clientPorts, session, wsVars,
                 timerVars, netVars, history>>

\* whoami knows a player by its port as long as the game connection lasts.
Resolve ==
  /\ link = "up" /\ server.stage = "polling" /\ game \in server.ports
  /\ server' = [stage |-> "granted", ports |-> {}, player |-> game]
  /\ UNCHANGED <<envVars, pc, seen, authVars, wsVars, timerVars, link, history>>

\* The window for authentication has passed.  It is 30 s; the Open handler is
\* taken to be done with by then.
ServerTimeout ==
  /\ link = "up" /\ server.stage \in {"unread", "polling"}
  /\ pc["ws"] = "idle"
  /\ link' = "cut"
  /\ UNCHANGED <<envVars, pc, seen, authVars, wsVars, timerVars, server, history>>

\* player_logout: the connection of a player who left is closed.
Kick ==
  /\ link = "up" /\ server.stage = "granted" /\ game # server.player
  /\ link' = "cut"
  /\ UNCHANGED <<envVars, pc, seen, authVars, wsVars, timerVars, server, history>>

-----------------------------------------------------------------------------

Refresh(t) == Enumerate(t) \/ Compare(t) \/ Store(t) \/ SetClientPorts(t)

TrySendAuth(t) ==
  \E from \in {"push", "auth"} : AuthCheck(t, from) \/ AuthSend(t, from) \/ AuthDone(t, from)

Callback ==
  \/ Connect \/ OpenConnected \/ OpenUnsent \/ AuthOk
  \/ CloseConnected \/ CloseUnsent \/ CloseSession \/ WsEnds

OnRenderFrame ==
  \/ Frame \/ EndInit \/ Ping
  \/ Suspend \/ Stop \/ Join \/ StayConnected
  \/ Resume \/ StayAsIs

Environment ==
  \/ Enter \/ Leave \/ LinkLost \/ ConnectFails
  \/ Resolve \/ ServerTimeout \/ Kick

Next ==
  \/ \E t \in Refresher : Refresh(t) \/ TrySendAuth(t)
  \/ Callback
  \/ OnRenderFrame
  \/ TalkCheck \/ TalkSend
  \/ Environment

Spec == Init /\ [][Next]_vars

\* Threads run, locks are handed out fairly, and the server resolves a port
\* that it can resolve before its window passes time and again.
Fairness ==
  /\ \A t \in Refresher : WF_vars(Enumerate(t) \/ Compare(t) \/ Store(t))
  /\ \A t \in Refresher : SF_vars(SetClientPorts(t))
  /\ \A t \in Refresher : SF_vars(TrySendAuth(t))
  /\ WF_vars(Callback)
  /\ WF_vars(OnRenderFrame)
  /\ SF_vars(Resolve)
  /\ WF_vars(ServerTimeout)
  /\ WF_vars(Kick)

FairSpec == Spec /\ Fairness

-----------------------------------------------------------------------------
\* Properties

PollStages == {"sleep", "enumerate", "compare", "store", "ports", "push", "pushSend",
               "pushSent", "ping", "suspend", "stop", "join", "resume"}
WsStages == {"down", "open", "opened", "enumerate", "compare", "store", "ports", "push",
             "pushSend", "pushSent", "auth", "authSend", "authSent", "idle", "closing",
             "unsent", "ended"}

\* Every variable of the voice link keeps its type.
TypeOK ==
  /\ game \in Port \union {NoPort} /\ away \in 0 .. Grace + 1 /\ faults \in 0 .. MaxFaults
  /\ pc \in [Thread -> WsStages \union PollStages \union {"quiet", "speak"}]
  /\ pc["ws"] \in WsStages /\ pc["poll"] \in PollStages /\ pc["talk"] \in {"quiet", "speak"}
  /\ seen \in [Refresher -> SUBSET Port]
  /\ connected \in BOOLEAN /\ authSent \in BOOLEAN
  /\ authMu \in Refresher \union {"free"}
  /\ clientPorts \in SUBSET Port
  /\ session \in Port \union {NoPort}
  /\ reconnect \in BOOLEAN /\ stop \in BOOLEAN
  /\ lastCount \in BOOLEAN /\ age \in 0 .. Grace + 1
  /\ frame \in -1 .. RefreshEvery - 1 /\ suspended \in BOOLEAN
  /\ link \in {"none", "up", "cut"}
  /\ server \in [stage : Stage, ports : SUBSET Port, player : Port \union {NoPort}]
  /\ torn \in BOOLEAN /\ overtaken \in BOOLEAN

\* The session the overlay shows and the senders use is the one the server
\* granted on the current connection (refinement of Belief).
Promise == INSTANCE Belief WITH
  Player <- Port, Nobody <- NoPort, granted <- server.player, believed <- session

KeepsPromise == Promise!Spec

\* While the client believes auth was sent, it was, on this connection: only a
\* sender that Open overtook can leave a claim behind that nothing backs.
ClaimBacked ==
  (pc["ws"] = "idle" /\ link = "up" /\ authSent /\ server.stage = "unread") => overtaken

\* The timer for the suspension runs only out of the world, unless two
\* refreshes (the Open handler's and a frame's) ran into each other.
TimerNeedsAbsence ==
  (age # 0 /\ lastCount) =>
    \/ torn
    \/ \E t \in Refresher : pc[t] = "store" /\ seen[t] = {}

\* Nothing of the link is left running, or believed in, while voice is suspended.
SuspendedIsSilent ==
  suspended => /\ pc["ws"] = "ended"
               /\ ~connected /\ ~authSent
               /\ session = NoPort

\* A message other than auth that the server is the first to read ends the connection.
FirstIsNotAuth ==
  /\ Ping \/ TalkSend
  /\ link = "up" /\ link' = "cut"

\* A player who stays in the world is in voice in the end and stays there, unless
\* torn refreshes keep the timer running or other messages beat auth for ever.
VoiceReturns ==
  \A p \in Port :
    <>[](game = p) => \/ <>[](session = p)
                      \/ <>torn
                      \/ []<><<FirstIsNotAuth>>_vars

\* voice.cpp: the WS is suspended when the client has been out of the world for
\* the grace window.
SuspendsAfterGrace ==
  [][(pc["poll"] = "suspend" /\ pc'["poll"] = "stop") => away >= Grace]_vars
=============================================================================
