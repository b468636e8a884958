--------------------------- MODULE VoiceLink_proofs ---------------------------
(***************************************************************************)
(* Proofs about module VoiceLink: types, its safety invariants and that it *)
(* implements Belief, for any ports, any grace and any number of faults.   *)
(***************************************************************************)
EXTENDS VoiceLink, TLAPS

-----------------------------------------------------------------------------
(* The inductive invariant, in parts.  The first four are TypeOK.          *)

Places ==
  /\ pc \in [Thread -> WsStages \union PollStages \union {"quiet", "speak"}]
  /\ pc["ws"] \in WsStages /\ pc["poll"] \in PollStages /\ pc["talk"] \in {"quiet", "speak"}

Counters ==
  /\ game \in Port \union {NoPort} /\ away \in 0 .. Grace + 1 /\ faults \in 0 .. MaxFaults
  /\ age \in 0 .. Grace + 1 /\ frame \in -1 .. RefreshEvery - 1

Flags ==
  /\ connected \in BOOLEAN /\ authSent \in BOOLEAN
  /\ reconnect \in BOOLEAN /\ stop \in BOOLEAN
  /\ lastCount \in BOOLEAN /\ suspended \in BOOLEAN
  /\ torn \in BOOLEAN /\ overtaken \in BOOLEAN

Links ==
  /\ seen \in [Refresher -> SUBSET Port]
  /\ authMu \in Refresher \union {"free"}
  /\ clientPorts \in SUBSET Port
  /\ session \in Port \union {NoPort}
  /\ link \in {"none", "up", "cut"}
  /\ server \in [stage : Stage, ports : SUBSET Port, player : Port \union {NoPort}]

\* A thread that is sending auth holds auth_mu.
Mutex ==
  \A t \in Refresher : pc[t] \in {"pushSend", "pushSent", "authSend", "authSent"} => authMu = t

\* Once Open has cleared authSent, with nobody sending, auth is not claimed, and
\* nobody is about to claim it, before the server has something to read.
AfterOpen ==
  {"enumerate", "compare", "store", "ports", "push", "pushSend", "pushSent", "auth",
   "authSend", "authSent", "idle"}

Claim ==
  (pc["ws"] \in AfterOpen /\ link = "up" /\ ~overtaken /\ server.stage = "unread") =>
    ~authSent /\ \A t \in Refresher : pc[t] \notin {"pushSent", "authSent"}

\* A refresh that is about to store that the player is there has reset the timer,
\* or found it off, as long as no other refresh came between.
Timer ==
  /\ TimerNeedsAbsence
  /\ \A t \in Refresher :
       (pc[t] = "store" /\ seen[t] # {} /\ ~torn) => age = 0 \/ lastCount

\* Suspended, the poll thread does not send auth either.
Quiet ==
  /\ SuspendedIsSilent
  /\ suspended => pc["poll"] \notin {"pushSend", "pushSent"}

\* The server knows a player only once it has granted the connection, and the
\* client has no session between connections.
Believed ==
  /\ server.stage = "granted" => server.player \in Port
  /\ server.stage # "granted" => server.player = NoPort
  /\ pc["ws"] \in {"down", "ended"} => session = NoPort

IInv == Places /\ Counters /\ Flags /\ Links /\ Mutex /\ Claim /\ Timer /\ Quiet /\ Believed

-----------------------------------------------------------------------------

\* TypeOK is the conjunction of the first four parts.
LEMMA TypeParts == TypeOK <=> Places /\ Counters /\ Flags /\ Links
  BY DEF TypeOK, Places, Counters, Flags, Links

\* The counter of frames wraps.
LEMMA FrameWraps ==
  ASSUME frame \in -1 .. RefreshEvery - 1
  PROVE  NextFrame \in 0 .. RefreshEvery - 1
  BY VoiceLinkAssumption DEF NextFrame

\* The inductive invariant holds when the client starts.
LEMMA InitInv == Init => IInv
  <1> SUFFICES ASSUME Init PROVE IInv
    OBVIOUS
  <1> USE VoiceLinkAssumption DEF Init, Thread, Refresher, Unread
  <1>1. Places
    BY DEF Places, WsStages, PollStages
  <1>2. Counters
    BY DEF Counters
  <1>3. Flags
    BY DEF Flags
  <1>4. Links
    BY DEF Links, Stage
  <1>5. Mutex /\ Claim
    BY DEF Mutex, Claim
  <1>6. Timer /\ Quiet /\ Believed
    BY DEF Timer, TimerNeedsAbsence, Quiet, SuspendedIsSilent, Believed
  <1> QED
    BY <1>1, <1>2, <1>3, <1>4, <1>5, <1>6 DEF IInv

\* A refresh reads the TCP table.
LEMMA EnumerateInv == ASSUME IInv, NEW t \in Refresher, Enumerate(t) PROVE IInv'
  <1> USE VoiceLinkAssumption
      DEF IInv, Transition, Thread, Refresher, Enumerate, envVars, authVars, timerVars,
          wsVars, netVars, history
  <1>1. Places'
    BY DEF Places, WsStages, PollStages
  <1>2. Counters'
    BY DEF Counters
  <1>3. Flags'
    BY DEF Flags
  <1>4. Links'
    <2>1. seen' \in [Refresher -> SUBSET Port]
      <3>1. {game} \ {NoPort} \in SUBSET Port
        BY DEF Counters
      <3>2. seen \in [Refresher -> SUBSET Port]
        BY DEF Links
      <3>3. \E found \in SUBSET Port : seen' = [seen EXCEPT ![t] = found]
        BY <3>1
      <3> QED
        BY <3>2, <3>3
    <2> QED
      BY <2>1 DEF Links, Stage
  <1>5. Mutex'
    BY DEF Places, Mutex
  <1>6. Claim'
    BY DEF Places, Flags, Links, Mutex, Claim, AfterOpen
  <1>7. Timer'
    BY DEF Places, Counters, Flags, Links, Timer, TimerNeedsAbsence
  <1>8. Quiet'
    BY DEF Places, Flags, Quiet, SuspendedIsSilent
  <1>9. Believed'
    BY DEF Places, Counters, Links, Quiet, SuspendedIsSilent, Believed
  <1> QED
    BY <1>1, <1>2, <1>3, <1>4, <1>5, <1>6, <1>7, <1>8, <1>9 DEF IInv

\* A refresh compares, and sets or resets the timer.
LEMMA CompareInv == ASSUME IInv, NEW t \in Refresher, Compare(t) PROVE IInv'
  <1> USE VoiceLinkAssumption
      DEF IInv, Transition, Thread, Refresher, Compare, envVars, authVars, timerVars,
          wsVars, netVars, history
  <1>1. Places'
    BY DEF Places, WsStages, PollStages
  <1>2. Counters'
    BY DEF Counters
  <1>3. Flags'
    BY DEF Flags
  <1>4. Links'
    BY DEF Links, Stage
  <1>5. Mutex'
    BY DEF Places, Mutex
  <1>6. Claim'
    BY DEF Places, Flags, Links, Mutex, Claim, AfterOpen
  <1>7. Timer'
    BY DEF Places, Counters, Flags, Links, Timer, TimerNeedsAbsence
  <1>8. Quiet'
    BY DEF Places, Flags, Quiet, SuspendedIsSilent
  <1>9. Believed'
    BY DEF Places, Counters, Links, Quiet, SuspendedIsSilent, Believed
  <1> QED
    BY <1>1, <1>2, <1>3, <1>4, <1>5, <1>6, <1>7, <1>8, <1>9 DEF IInv

\* A refresh stores what it found.
LEMMA StoreInv == ASSUME IInv, NEW t \in Refresher, Store(t) PROVE IInv'
  <1> USE VoiceLinkAssumption
      DEF IInv, Transition, Thread, Refresher, Store, AfterRefresh, envVars, authVars,
          timerVars, wsVars, netVars, history
  <1>1. Places'
    BY DEF Places, WsStages, PollStages
  <1>2. Counters'
    BY DEF Counters
  <1>3. Flags'
    BY DEF Flags
  <1>4. Links'
    BY DEF Links, Stage
  <1>5. Mutex'
    BY DEF Places, Mutex
  <1>6. Claim'
    BY DEF Places, Flags, Links, Mutex, Claim, AfterOpen
  <1>7. Timer'
    BY DEF Places, Counters, Flags, Links, Timer, TimerNeedsAbsence
  <1>8. Quiet'
    BY DEF Places, Flags, Quiet, SuspendedIsSilent
  <1>9. Believed'
    BY DEF Places, Counters, Links, Quiet, SuspendedIsSilent, Believed
  <1> QED
    BY <1>1, <1>2, <1>3, <1>4, <1>5, <1>6, <1>7, <1>8, <1>9 DEF IInv

\* New ports forget that auth was sent.
LEMMA SetClientPortsInv == ASSUME IInv, NEW t \in Refresher, SetClientPorts(t) PROVE IInv'
  <1> USE VoiceLinkAssumption
      DEF IInv, Transition, Thread, Refresher, SetClientPorts, AfterRefresh, envVars,
          authVars, timerVars, wsVars, netVars, history
  <1>1. Places'
    BY DEF Places, WsStages, PollStages
  <1>2. Counters'
    BY DEF Counters
  <1>3. Flags'
    BY DEF Flags
  <1>4. Links'
    BY DEF Links, Stage
  <1>5. Mutex'
    BY DEF Places, Mutex
  <1>6. Claim'
    BY DEF Places, Flags, Links, Mutex, Claim, AfterOpen
  <1>7. Timer'
    BY DEF Places, Counters, Flags, Links, Timer, TimerNeedsAbsence
  <1>8. Quiet'
    BY DEF Places, Flags, Quiet, SuspendedIsSilent
  <1>9. Believed'
    BY DEF Places, Counters, Links, Quiet, SuspendedIsSilent, Believed
  <1> QED
    BY <1>1, <1>2, <1>3, <1>4, <1>5, <1>6, <1>7, <1>8, <1>9 DEF IInv

\* The check that begins TrySendAuth.
LEMMA AuthCheckInv ==
  ASSUME IInv, NEW t \in Refresher, NEW from \in {"push", "auth"}, AuthCheck(t, from)
  PROVE  IInv'
  <1> USE VoiceLinkAssumption
      DEF IInv, Transition, Thread, Refresher, AuthCheck, Sending, AfterAuth,
          AfterRefresh, envVars, authVars, timerVars, wsVars, netVars, history
  <1>1. Places'
    BY DEF Places, WsStages, PollStages
  <1>2. Counters'
    BY DEF Counters
  <1>3. Flags'
    BY DEF Flags
  <1>4. Links'
    BY DEF Links, Stage
  <1>5. Mutex'
    BY DEF Places, Mutex
  <1>6. Claim'
    BY DEF Places, Flags, Links, Mutex, Claim, AfterOpen
  <1>7. Timer'
    BY DEF Places, Counters, Flags, Links, Timer, TimerNeedsAbsence
  <1>8. Quiet'
    BY DEF Places, Flags, Quiet, SuspendedIsSilent
  <1>9. Believed'
    BY DEF Places, Counters, Links, Quiet, SuspendedIsSilent, Believed
  <1> QED
    BY <1>1, <1>2, <1>3, <1>4, <1>5, <1>6, <1>7, <1>8, <1>9 DEF IInv

\* The message itself.
LEMMA AuthSendInv ==
  ASSUME IInv, NEW t \in Refresher, NEW from \in {"push", "auth"}, AuthSend(t, from)
  PROVE  IInv'
  <1> USE VoiceLinkAssumption
      DEF IInv, Transition, Thread, Refresher, AuthSend, Sending, Sent, Deliver,
          envVars, authVars, timerVars, wsVars, netVars, history
  <1>1. Places'
    BY DEF Places, WsStages, PollStages
  <1>2. Counters'
    BY DEF Counters
  <1>3. Flags'
    BY DEF Flags
  <1>4. Links'
    BY DEF Links, Stage
  <1>5. Mutex'
    BY DEF Places, Mutex
  <1>6. Claim'
    BY DEF Places, Flags, Links, Mutex, Claim, AfterOpen
  <1>7. Timer'
    BY DEF Places, Counters, Flags, Links, Timer, TimerNeedsAbsence
  <1>8. Quiet'
    BY DEF Places, Flags, Quiet, SuspendedIsSilent
  <1>9. Believed'
    BY DEF Places, Counters, Links, Quiet, SuspendedIsSilent, Believed
  <1> QED
    BY <1>1, <1>2, <1>3, <1>4, <1>5, <1>6, <1>7, <1>8, <1>9 DEF IInv

\* The end of TrySendAuth.
LEMMA AuthDoneInv ==
  ASSUME IInv, NEW t \in Refresher, NEW from \in {"push", "auth"}, AuthDone(t, from)
  PROVE  IInv'
  <1> USE VoiceLinkAssumption
      DEF IInv, Transition, Thread, Refresher, AuthDone, Sent, AfterAuth, AfterRefresh,
          envVars, authVars, timerVars, wsVars, netVars, history
  <1>1. Places'
    BY DEF Places, WsStages, PollStages
  <1>2. Counters'
    BY DEF Counters
  <1>3. Flags'
    BY DEF Flags
  <1>4. Links'
    BY DEF Links, Stage
  <1>5. Mutex'
    BY DEF Places, Mutex
  <1>6. Claim'
    BY DEF Places, Flags, Links, Mutex, Claim, AfterOpen
  <1>7. Timer'
    BY DEF Places, Counters, Flags, Links, Timer, TimerNeedsAbsence
  <1>8. Quiet'
    <2>1. ~suspended
      <3>1. CASE t = "ws"
        <4>1. pc["ws"] # "ended"
          BY <3>1
        <4> QED
          BY <4>1 DEF Quiet, SuspendedIsSilent
      <3>2. CASE t = "poll"
        <4>1. pc["poll"] \notin {"authSent"}
          BY DEF Places, PollStages
        <4>2. pc["poll"] \in {"pushSent"}
          BY <3>2, <4>1
        <4> QED
          BY <4>2 DEF Quiet
      <3> QED
        BY <3>1, <3>2
    <2>2. ~suspended'
      BY <2>1
    <2> QED
      BY <2>2 DEF Quiet, SuspendedIsSilent
  <1>9. Believed'
    BY DEF Places, Counters, Links, Quiet, SuspendedIsSilent, Believed
  <1> QED
    BY <1>1, <1>2, <1>3, <1>4, <1>5, <1>6, <1>7, <1>8, <1>9 DEF IInv

\* A connection is made, and reported.
LEMMA ConnectInv == ASSUME IInv, Connect \/ OpenConnected PROVE IInv'
  <1> USE VoiceLinkAssumption
      DEF IInv, Transition, Thread, Refresher, Connect, OpenConnected, Unread, envVars,
          authVars, timerVars, wsVars, netVars, history
  <1>1. Places'
    BY DEF Places, WsStages, PollStages
  <1>2. Counters'
    BY DEF Counters
  <1>3. Flags'
    BY DEF Flags
  <1>4. Links'
    BY DEF Links, Stage
  <1>5. Mutex'
    BY DEF Places, Mutex
  <1>6. Claim'
    BY DEF Places, Flags, Links, Mutex, Claim, AfterOpen
  <1>7. Timer'
    BY DEF Places, Counters, Flags, Links, Timer, TimerNeedsAbsence
  <1>8. Quiet'
    BY DEF Places, Flags, Quiet, SuspendedIsSilent
  <1>9. Believed'
    BY DEF Places, Counters, Links, Quiet, SuspendedIsSilent, Believed
  <1> QED
    BY <1>1, <1>2, <1>3, <1>4, <1>5, <1>6, <1>7, <1>8, <1>9 DEF IInv

\* Open forgets that auth was sent.
LEMMA OpenUnsentInv == ASSUME IInv, OpenUnsent PROVE IInv'
  <1> USE VoiceLinkAssumption
      DEF IInv, Transition, Thread, Refresher, OpenUnsent, envVars, authVars, timerVars,
          wsVars, netVars, history
  <1>1. Places'
    BY DEF Places, WsStages, PollStages
  <1>2. Counters'
    BY DEF Counters
  <1>3. Flags'
    BY DEF Flags
  <1>4. Links'
    BY DEF Links, Stage
  <1>5. Mutex'
    BY DEF Places, Mutex
  <1>6. Claim'
    BY DEF Places, Flags, Links, Mutex, Claim, AfterOpen
  <1>7. Timer'
    BY DEF Places, Counters, Flags, Links, Timer, TimerNeedsAbsence
  <1>8. Quiet'
    BY DEF Places, Flags, Quiet, SuspendedIsSilent
  <1>9. Believed'
    BY DEF Places, Counters, Links, Quiet, SuspendedIsSilent, Believed
  <1> QED
    BY <1>1, <1>2, <1>3, <1>4, <1>5, <1>6, <1>7, <1>8, <1>9 DEF IInv

\* The server's answer.
LEMMA AuthOkInv == ASSUME IInv, AuthOk PROVE IInv'
  <1> USE VoiceLinkAssumption
      DEF IInv, Transition, Thread, Refresher, AuthOk, envVars, authVars, timerVars,
          wsVars, netVars, history
  <1>1. Places'
    BY DEF Places, WsStages, PollStages
  <1>2. Counters'
    BY DEF Counters
  <1>3. Flags'
    BY DEF Flags
  <1>4. Links'
    BY DEF Links, Stage
  <1>5. Mutex'
    BY DEF Places, Mutex
  <1>6. Claim'
    BY DEF Places, Flags, Links, Mutex, Claim, AfterOpen
  <1>7. Timer'
    BY DEF Places, Counters, Flags, Links, Timer, TimerNeedsAbsence
  <1>8. Quiet'
    BY DEF Places, Flags, Quiet, SuspendedIsSilent
  <1>9. Believed'
    BY DEF Places, Counters, Links, Quiet, SuspendedIsSilent, Believed
  <1> QED
    BY <1>1, <1>2, <1>3, <1>4, <1>5, <1>6, <1>7, <1>8, <1>9 DEF IInv

\* The Close handler up to the session, and the end of the library's thread.
LEMMA CloseInv ==
  ASSUME IInv, CloseConnected \/ CloseUnsent \/ ConnectFails \/ WsEnds
  PROVE  IInv'
  <1> USE VoiceLinkAssumption
      DEF IInv, Transition, Thread, Refresher, CloseConnected, CloseUnsent,
          ConnectFails, WsEnds, envVars, authVars, timerVars, wsVars, netVars, history
  <1>1. Places'
    BY DEF Places, WsStages, PollStages
  <1>2. Counters'
    BY DEF Counters
  <1>3. Flags'
    BY DEF Flags
  <1>4. Links'
    BY DEF Links, Stage
  <1>5. Mutex'
    BY DEF Places, Mutex
  <1>6. Claim'
    BY DEF Places, Flags, Links, Mutex, Claim, AfterOpen
  <1>7. Timer'
    BY DEF Places, Counters, Flags, Links, Timer, TimerNeedsAbsence
  <1>8. Quiet'
    BY DEF Places, Flags, Quiet, SuspendedIsSilent
  <1>9. Believed'
    BY DEF Places, Counters, Links, Quiet, SuspendedIsSilent, Believed
  <1> QED
    BY <1>1, <1>2, <1>3, <1>4, <1>5, <1>6, <1>7, <1>8, <1>9 DEF IInv

\* The session goes.
LEMMA CloseSessionInv == ASSUME IInv, CloseSession PROVE IInv'
  <1> USE VoiceLinkAssumption
      DEF IInv, Transition, Thread, Refresher, CloseSession, envVars, authVars,
          timerVars, wsVars, netVars, history
  <1>1. Places'
    BY DEF Places, WsStages, PollStages
  <1>2. Counters'
    BY DEF Counters
  <1>3. Flags'
    BY DEF Flags
  <1>4. Links'
    BY DEF Links, Stage
  <1>5. Mutex'
    BY DEF Places, Mutex
  <1>6. Claim'
    BY DEF Places, Flags, Links, Mutex, Claim, AfterOpen
  <1>7. Timer'
    BY DEF Places, Counters, Flags, Links, Timer, TimerNeedsAbsence
  <1>8. Quiet'
    BY DEF Places, Flags, Quiet, SuspendedIsSilent
  <1>9. Believed'
    BY DEF Places, Counters, Links, Quiet, SuspendedIsSilent, Believed
  <1> QED
    BY <1>1, <1>2, <1>3, <1>4, <1>5, <1>6, <1>7, <1>8, <1>9 DEF IInv

\* A frame begins, or Init ends.
LEMMA FrameInv == ASSUME IInv, Frame \/ EndInit PROVE IInv'
  <1> USE VoiceLinkAssumption
      DEF IInv, Transition, Thread, Refresher, Frame, EndInit, envVars, authVars,
          timerVars, wsVars, netVars, history
  <1>1. Places'
    BY DEF Places, WsStages, PollStages
  <1>2. Counters'
    BY DEF Counters
  <1>3. Flags'
    BY DEF Flags
  <1>4. Links'
    BY DEF Links, Stage
  <1>5. Mutex'
    BY DEF Places, Mutex
  <1>6. Claim'
    BY DEF Places, Flags, Links, Mutex, Claim, AfterOpen
  <1>7. Timer'
    BY DEF Places, Counters, Flags, Links, Timer, TimerNeedsAbsence
  <1>8. Quiet'
    BY DEF Places, Flags, Quiet, SuspendedIsSilent
  <1>9. Believed'
    BY DEF Places, Counters, Links, Quiet, SuspendedIsSilent, Believed
  <1> QED
    BY <1>1, <1>2, <1>3, <1>4, <1>5, <1>6, <1>7, <1>8, <1>9 DEF IInv

\* A message that is not auth.
LEMMA MessageInv == ASSUME IInv, Ping \/ TalkSend PROVE IInv'
  <1> USE VoiceLinkAssumption
      DEF IInv, Transition, Thread, Refresher, Ping, TalkSend, Deliver, envVars,
          authVars, timerVars, wsVars, netVars, history
  <1>1. Places'
    BY DEF Places, WsStages, PollStages
  <1>2. Counters'
    BY DEF Counters
  <1>3. Flags'
    BY DEF Flags
  <1>4. Links'
    BY DEF Links, Stage
  <1>5. Mutex'
    BY DEF Places, Mutex
  <1>6. Claim'
    BY DEF Places, Flags, Links, Mutex, Claim, AfterOpen
  <1>7. Timer'
    BY DEF Places, Counters, Flags, Links, Timer, TimerNeedsAbsence
  <1>8. Quiet'
    BY DEF Places, Flags, Quiet, SuspendedIsSilent
  <1>9. Believed'
    BY DEF Places, Counters, Links, Quiet, SuspendedIsSilent, Believed
  <1> QED
    BY <1>1, <1>2, <1>3, <1>4, <1>5, <1>6, <1>7, <1>8, <1>9 DEF IInv

\* SuspendWs up to the join, and steps that change nothing else.
LEMMA SuspendInv == ASSUME IInv, Suspend \/ Stop \/ StayConnected \/ TalkCheck PROVE IInv'
  <1> USE VoiceLinkAssumption
      DEF IInv, Transition, Thread, Refresher, Suspend, Stop, StayConnected, TalkCheck,
          envVars, authVars, timerVars, wsVars, netVars, history
  <1>1. Places'
    BY DEF Places, WsStages, PollStages
  <1>2. Counters'
    BY DEF Counters
  <1>3. Flags'
    BY DEF Flags
  <1>4. Links'
    BY DEF Links, Stage
  <1>5. Mutex'
    BY DEF Places, Mutex
  <1>6. Claim'
    BY DEF Places, Flags, Links, Mutex, Claim, AfterOpen
  <1>7. Timer'
    BY DEF Places, Counters, Flags, Links, Timer, TimerNeedsAbsence
  <1>8. Quiet'
    BY DEF Places, Flags, Quiet, SuspendedIsSilent
  <1>9. Believed'
    BY DEF Places, Counters, Links, Quiet, SuspendedIsSilent, Believed
  <1> QED
    BY <1>1, <1>2, <1>3, <1>4, <1>5, <1>6, <1>7, <1>8, <1>9 DEF IInv

\* SuspendWs clears what is left.
LEMMA JoinInv == ASSUME IInv, Join PROVE IInv'
  <1> USE VoiceLinkAssumption
      DEF IInv, Transition, Thread, Refresher, Join, envVars, authVars, timerVars,
          wsVars, netVars, history
  <1>1. Places'
    BY DEF Places, WsStages, PollStages
  <1>2. Counters'
    BY DEF Counters
  <1>3. Flags'
    BY DEF Flags
  <1>4. Links'
    BY DEF Links, Stage
  <1>5. Mutex'
    BY DEF Places, Mutex
  <1>6. Claim'
    BY DEF Places, Flags, Links, Mutex, Claim, AfterOpen
  <1>7. Timer'
    BY DEF Places, Counters, Flags, Links, Timer, TimerNeedsAbsence
  <1>8. Quiet'
    BY DEF Places, Flags, Quiet, SuspendedIsSilent
  <1>9. Believed'
    BY DEF Places, Counters, Links, Quiet, SuspendedIsSilent, Believed
  <1> QED
    BY <1>1, <1>2, <1>3, <1>4, <1>5, <1>6, <1>7, <1>8, <1>9 DEF IInv

\* ResumeWs, or a frame without it.
LEMMA ResumeInv == ASSUME IInv, Resume \/ StayAsIs PROVE IInv'
  <1> USE VoiceLinkAssumption, FrameWraps
      DEF IInv, Transition, Thread, Refresher, Resume, StayAsIs, envVars, authVars,
          timerVars, wsVars, netVars, history
  <1>1. Places'
    BY DEF Places, WsStages, PollStages
  <1>2. Counters'
    BY DEF Counters
  <1>3. Flags'
    BY DEF Flags
  <1>4. Links'
    BY DEF Links, Stage
  <1>5. Mutex'
    BY DEF Places, Mutex
  <1>6. Claim'
    BY DEF Places, Flags, Links, Mutex, Claim, AfterOpen
  <1>7. Timer'
    <2>1. \A u \in Refresher : pc'[u] = "store" => pc[u] = "store"
      BY DEF Places
    <2>2. \A u \in Refresher : pc[u] = "store" => pc'[u] = "store"
      <3>1. pc["ws"] # "store" \/ pc'["ws"] = "store"
        BY DEF Places, Quiet, SuspendedIsSilent
      <3>2. pc["poll"] # "store"
        BY DEF Places
      <3> QED
        BY <3>1, <3>2
    <2>3. /\ age' = age /\ lastCount' = lastCount
          /\ torn' = torn /\ seen' = seen
      OBVIOUS
    <2> QED
      BY <2>1, <2>2, <2>3 DEF Timer, TimerNeedsAbsence
  <1>8. Quiet'
    BY DEF Places, Flags, Quiet, SuspendedIsSilent
  <1>9. Believed'
    BY DEF Places, Counters, Links, Quiet, SuspendedIsSilent, Believed
  <1> QED
    BY <1>1, <1>2, <1>3, <1>4, <1>5, <1>6, <1>7, <1>8, <1>9 DEF IInv

\* The game, the network and the server's two ways to hang up.
LEMMA EnvironmentInv ==
  ASSUME IInv, Enter \/ Leave \/ LinkLost \/ ServerTimeout \/ Kick
  PROVE  IInv'
  <1> USE VoiceLinkAssumption
      DEF IInv, Transition, Thread, Refresher, Enter, Leave, LinkLost, ServerTimeout,
          Kick, envVars, authVars, timerVars, wsVars, netVars, history
  <1>1. Places'
    BY DEF Places, WsStages, PollStages
  <1>2. Counters'
    BY DEF Counters
  <1>3. Flags'
    BY DEF Flags
  <1>4. Links'
    BY DEF Links, Stage
  <1>5. Mutex'
    BY DEF Places, Mutex
  <1>6. Claim'
    BY DEF Places, Flags, Links, Mutex, Claim, AfterOpen
  <1>7. Timer'
    BY DEF Places, Counters, Flags, Links, Timer, TimerNeedsAbsence
  <1>8. Quiet'
    BY DEF Places, Flags, Quiet, SuspendedIsSilent
  <1>9. Believed'
    BY DEF Places, Counters, Links, Quiet, SuspendedIsSilent, Believed
  <1> QED
    BY <1>1, <1>2, <1>3, <1>4, <1>5, <1>6, <1>7, <1>8, <1>9 DEF IInv

\* The server grants the connection.
LEMMA ResolveInv == ASSUME IInv, Resolve PROVE IInv'
  <1> USE VoiceLinkAssumption
      DEF IInv, Transition, Thread, Refresher, Resolve, envVars, authVars, timerVars,
          wsVars, netVars, history
  <1>1. Places'
    BY DEF Places, WsStages, PollStages
  <1>2. Counters'
    BY DEF Counters
  <1>3. Flags'
    BY DEF Flags
  <1>4. Links'
    BY DEF Links, Stage
  <1>5. Mutex'
    BY DEF Places, Mutex
  <1>6. Claim'
    BY DEF Places, Flags, Links, Mutex, Claim, AfterOpen
  <1>7. Timer'
    BY DEF Places, Counters, Flags, Links, Timer, TimerNeedsAbsence
  <1>8. Quiet'
    BY DEF Places, Flags, Quiet, SuspendedIsSilent
  <1>9. Believed'
    BY DEF Places, Counters, Links, Quiet, SuspendedIsSilent, Believed
  <1> QED
    BY <1>1, <1>2, <1>3, <1>4, <1>5, <1>6, <1>7, <1>8, <1>9 DEF IInv

\* Every step of every thread, of the network and of the server keeps it.
LEMMA NextInv == IInv /\ [Next]_vars => IInv'
  <1> SUFFICES ASSUME IInv, [Next]_vars PROVE IInv'
    OBVIOUS
  <1>1. ASSUME NEW t \in Refresher, Refresh(t) PROVE IInv'
    BY <1>1, EnumerateInv, CompareInv, StoreInv, SetClientPortsInv DEF Refresh
  <1>2. ASSUME NEW t \in Refresher, TrySendAuth(t) PROVE IInv'
    BY <1>2, AuthCheckInv, AuthSendInv, AuthDoneInv DEF TrySendAuth
  <1>3. CASE Callback
    BY <1>3, ConnectInv, OpenUnsentInv, AuthOkInv, CloseInv, CloseSessionInv DEF Callback
  <1>4. CASE OnRenderFrame
    BY <1>4, FrameInv, MessageInv, SuspendInv, JoinInv, ResumeInv DEF OnRenderFrame
  <1>5. CASE TalkCheck \/ TalkSend
    BY <1>5, SuspendInv, MessageInv
  <1>6. CASE Environment
    BY <1>6, EnvironmentInv, CloseInv, ResolveInv DEF Environment
  <1>7. CASE UNCHANGED vars
    <2> USE <1>7 DEF IInv, vars, envVars, authVars, timerVars, wsVars, netVars, history
    <2>1. Places' /\ Counters' /\ Links'
      BY DEF Places, Counters, Links
    <2>2. Flags'
      BY DEF Flags
    <2>3. Mutex' /\ Claim' /\ Timer'
      BY DEF Mutex, Claim, Timer, TimerNeedsAbsence
    <2>4. Quiet' /\ Believed'
      BY DEF Quiet, SuspendedIsSilent, Believed
    <2> QED
      BY <2>1, <2>2, <2>3, <2>4 DEF IInv
  <1> QED
    BY <1>1, <1>2, <1>3, <1>4, <1>5, <1>6, <1>7 DEF Next

\* The inductive invariant of the voice link.
THEOREM Invariant == Spec => []IInv
  BY InitInv, NextInv, PTL DEF Spec

\* Every variable of the voice link keeps its type.
THEOREM TypeCorrect == Spec => []TypeOK
  <1>1. IInv => TypeOK
    BY TypeParts DEF IInv
  <1> QED
    BY <1>1, Invariant, PTL

\* Auth is claimed only when it was sent on this connection, or Open overtook its
\* sender (TrySendAuth against the Open handler).
THEOREM ClaimBackedHolds == Spec => []ClaimBacked
  <1>1. IInv => ClaimBacked
    BY DEF IInv, Claim, ClaimBacked, AfterOpen
  <1> QED
    BY <1>1, Invariant, PTL

\* The timer for the suspension runs in the world only after two refreshes ran
\* into each other (RefreshClientPorts has no lock).
THEOREM TimerNeedsAbsenceHolds == Spec => []TimerNeedsAbsence
  <1>1. IInv => TimerNeedsAbsence
    BY DEF IInv, Timer
  <1> QED
    BY <1>1, Invariant, PTL

\* SuspendWs leaves nothing running and nothing believed in.
THEOREM SuspendedIsSilentHolds == Spec => []SuspendedIsSilent
  <1>1. IInv => SuspendedIsSilent
    BY DEF IInv, Quiet
  <1> QED
    BY <1>1, Invariant, PTL

-----------------------------------------------------------------------------
(* The refinement.                                                         *)

\* A client that starts believes nothing, as nothing was granted.
LEMMA InitPromise == Init => Promise!Init
  BY DEF Init, Unread, Promise!Init

\* Every step leaves server and session alone, or is a step of Belief.
LEMMA StepPromise ==
  ASSUME IInv, [Next]_vars
  PROVE  [Promise!Next]_<<server.player, session>>
  <1> USE VoiceLinkAssumption
      DEF Promise!Next, Promise!Grant, Promise!Believe, Promise!Forget, Promise!Renew
  <1>1. CASE Connect
    BY <1>1 DEF Connect, Transition, IInv, Believed, authVars, Unread
  <1>2. CASE AuthOk
    BY <1>2 DEF AuthOk, IInv, Believed, netVars
  <1>3. CASE CloseSession
    BY <1>3 DEF CloseSession
  <1>4. CASE Join
    BY <1>4 DEF Join, netVars
  <1>5. CASE Resolve
    BY <1>5 DEF Resolve, IInv, Believed, Links, authVars
  <1>6. ASSUME NEW t \in Refresher, NEW from \in {"push", "auth"}, AuthSend(t, from)
        PROVE  UNCHANGED <<server.player, session>>
    BY <1>6 DEF AuthSend, Deliver, IInv, Believed, authVars, netVars
  <1>7. CASE Ping \/ TalkSend
    BY <1>7 DEF Ping, TalkSend, Deliver, authVars, netVars
  <1>8. ASSUME NEW t \in Refresher, NEW from \in {"push", "auth"},
               Refresh(t) \/ AuthCheck(t, from) \/ AuthDone(t, from)
        PROVE  UNCHANGED <<server.player, session>>
    BY <1>8 DEF Refresh, Enumerate, Compare, Store, SetClientPorts, AuthCheck, AuthDone,
         authVars, netVars
  <1>9. CASE OpenConnected \/ OpenUnsent \/ CloseConnected \/ CloseUnsent \/ WsEnds
    BY <1>9 DEF OpenConnected, OpenUnsent, CloseConnected, CloseUnsent, WsEnds, authVars,
         netVars
  <1>10. CASE \/ Frame \/ EndInit \/ Suspend \/ Stop \/ StayConnected \/ Resume
              \/ StayAsIs \/ TalkCheck
    BY <1>10 DEF Frame, EndInit, Suspend, Stop, StayConnected, Resume, StayAsIs, TalkCheck,
         authVars, netVars
  <1>11. CASE Enter \/ Leave \/ LinkLost \/ ConnectFails \/ ServerTimeout \/ Kick
    BY <1>11 DEF Enter, Leave, LinkLost, ConnectFails, ServerTimeout, Kick, authVars, netVars
  <1>12. CASE UNCHANGED vars
    BY <1>12 DEF vars, authVars, netVars
  <1> QED
    BY <1>1, <1>2, <1>3, <1>4, <1>5, <1>6, <1>7, <1>8, <1>9, <1>10, <1>11, <1>12
    DEF Next, TrySendAuth, Callback, OnRenderFrame, Environment

\* The client and the server together implement Belief: the session in use is
\* always the one granted on the current connection.
THEOREM KeepsPromiseHolds == Spec => KeepsPromise
  <1>1. IInv /\ [Next]_vars => [Promise!Next]_<<server.player, session>>
    BY StepPromise
  <1> QED
    BY <1>1, InitPromise, Invariant, PTL DEF Spec, KeepsPromise, Promise!Spec
=============================================================================
