------------------------------- MODULE Mixer -------------------------------
(***************************************************************************)
(* What the client plays: OnIncomingPacket and the mute and volume setters *)
(* (voice.cpp), AudioPlayback with its rings (audio_io.cpp), the caches of *)
(* names and rosters in VoiceNetwork that tie a packet to a player         *)
(* (voice_network.cpp), and the controls of the overlay that act on them.  *)
(*                                                                         *)
(* Three threads: "ws" receives packets and messages; "ui" is the game's   *)
(* render thread, which draws the overlay; the audio device's mixes (one   *)
(* step: it holds sources_mu throughout).  Each step is one lock section,  *)
(* or several in a row of which only the last can meet another thread.     *)
(*                                                                         *)
(* One other player, Peer, speaks on one channel, from one session after   *)
(* another: a packet names the session (src), a preference names the       *)
(* player, and the two are tied by character names the server is asked for.*)
(***************************************************************************)
EXTENDS Integers, FiniteSets

CONSTANTS
  Src,        \* sessions the player speaks from
  Peer,       \* the player
  Cap,        \* frames a ring holds (kRingSamples / kFrameSamples: 8)
  MaxQueued   \* bound: frames a source may be behind

ASSUME MixerAssumption ==
  /\ Peer \notin Src
  /\ Cap \in Nat \ {0}
  /\ MaxQueued \in Nat

VARIABLES
  muted,          \* g_local_muted of Peer
  known,          \* names in name_cache (a source's) and player_name_cache
  inflight,       \* name_query_inflight and player_name_inflight
  wire,           \* queries the server will answer on this connection
  listed,         \* Peer is in the rosters of the last client_state, as leader
  up,             \* connected
  running,        \* AudioPlayback: the device runs
  sources,        \* AudioPlayback: sources
  ws,             \* OnIncomingPacket: where it is, for whom, audible or not
  ui,             \* where the render thread is
  orphan,         \* history: the connection closed inside a query
  missed          \* history: sources the last change of a preference left alone

nameVars == <<known, inflight, wire>>
netVars == <<listed, up>>
vars == <<muted, nameVars, netVars, running, sources, ws, ui, orphan, missed>>

\* A ring that holds `queued` frames, and how far the last frame heard lies
\* ahead of the next one to be played (negative: it lies behind, as it should).
Source == [loud : BOOLEAN, muted : BOOLEAN, byHand : BOOLEAN,
           queued : 0 .. MaxQueued, ahead : -1 .. MaxQueued, overrun : BOOLEAN]

None == [queued |-> -1]

NewSource == [loud |-> FALSE, muted |-> FALSE, byHand |-> FALSE,
              queued |-> 0, ahead |-> -1, overrun |-> FALSE]

Present == {s \in Src : sources[s] # None}

SourceOf(s) == IF s \in Present THEN sources[s] ELSE NewSource

WsIdle == [at |-> "idle", src |-> Peer, loud |-> FALSE]
UiIdle == [at |-> "idle", name |-> Peer, back |-> "idle", todo |-> {}]

Init ==
  /\ muted = FALSE
  /\ known = {} /\ inflight = {} /\ wire = {}
  /\ listed = FALSE /\ up = TRUE
  /\ running = TRUE
  /\ sources = [s \in Src |-> None]
  /\ ws = WsIdle /\ ui = UiIdle
  /\ orphan = FALSE /\ missed = {}

-----------------------------------------------------------------------------
\* MonoRing and Source

\* Push looks at no free space: beyond Cap it writes over frames not yet played.
Push(src) ==
  [src EXCEPT !.queued = @ + 1, !.overrun = @ \/ src.queued >= Cap]

\* Mutant: the ring is one frame shorter than its size.
PopShort(src) ==
  LET played == (Cap - 1) * ((src.queued - 1) \div (Cap - 1))
  IN [src EXCEPT !.queued = @ - 1, !.ahead = (IF played > @ THEN played ELSE @) - 1]

\* Mutant: the count asked for is not clamped to what the ring holds.
PopUnclamped(src) == [src EXCEPT !.queued = @ - 2, !.ahead = -1]

\* Pop reads the place of the oldest frame; the frame found there is the newest
\* of those written to it.
Played(src) == Cap * ((src.queued - 1) \div Cap)

Pop(src) ==
  [src EXCEPT !.queued = @ - 1,
              !.ahead = (IF Played(src) > @ THEN Played(src) ELSE @) - 1]

\* An empty ring has nothing left that was written over.
Settle(src) == [src EXCEPT !.overrun = @ /\ src.queued > 0]

Audible(s) ==
  /\ running /\ s \in Present
  /\ sources[s].queued > 0 /\ ~sources[s].muted /\ sources[s].loud

\* DataCallback: a muted source is drained like the others.
Mix ==
  /\ running
  /\ \E s \in Present : sources[s].queued > 0
  /\ sources' = [s \in Src |-> IF s \in Present /\ sources[s].queued > 0
                               THEN Settle(Pop(sources[s])) ELSE sources[s]]
  /\ UNCHANGED <<muted, nameVars, netVars, running, ws, ui, orphan, missed>>

\* GetSpeakerInfos drops the sources idle for 3 s, or 10 s when they are muted
\* or turned down.  Time is not counted: any source may have been idle for so
\* long but one that is just being mixed, which keeps last_mix fresh.
Stale(src) == src.muted \/ src.queued = 0 \/ ~running

Evict(gone) ==
  /\ gone \subseteq Present
  /\ \A s \in gone : Stale(sources[s])
  /\ sources' = [s \in Src |-> IF s \in gone THEN None ELSE sources[s]]

-----------------------------------------------------------------------------
\* Names

\* SendNameQuery and SendPlayerNameQuery, by a thread that nothing comes between.
Ask(name) ==
  IF up /\ name \notin known \union inflight
  THEN inflight' = inflight \union {name} /\ wire' = wire \union {name}
  ELSE UNCHANGED <<inflight, wire>>

\* GetPlayerIdByName finds Peer in a roster whose name is known.
Identified == listed /\ Peer \in known

-----------------------------------------------------------------------------
\* OnIncomingPacket, on the ws thread

\* Filters are the overlay's to change between any two packets.
Filter == {"all", "off", "leader"}

\* The packet is dropped on a channel switched off, and while only the clan's
\* leader is to be heard if its speaker is named and not the leader: until
\* the leader's own name as a player is known that is everyone.
Dropped(s, filter) ==
  \/ filter = "off"
  \/ filter = "leader" /\ s \in known /\ listed /\ ~Identified

Receive(s) ==
  /\ ws.at = "idle" /\ up
  /\ \E filter \in Filter :
       /\ Ask(IF filter = "leader" /\ s \in known /\ listed THEN Peer ELSE s)
       /\ ws' = IF Dropped(s, filter) THEN WsIdle
                ELSE [at |-> "decoded", src |-> s, loud |-> TRUE]
  /\ UNCHANGED <<muted, known, netVars, running, sources, ui, orphan, missed>>

\* Mutant: the preference is looked up by the session instead of the player.
IdentifyNobody ==
  /\ ws.at = "decoded"
  /\ ws' = [ws EXCEPT !.at = "enqueue"]
  /\ UNCHANGED <<muted, nameVars, netVars, running, sources, ui, orphan, missed>>

Identify ==
  /\ ws.at = "decoded"
  /\ ws' = [ws EXCEPT !.at = IF ws.src \in known /\ Identified THEN "mute" ELSE "enqueue"]
  /\ IF ws.src \in known /\ listed THEN Ask(Peer) ELSE UNCHANGED <<inflight, wire>>
  /\ UNCHANGED <<muted, known, netVars, running, sources, ui, orphan, missed>>

ReadMute ==
  /\ ws.at = "mute"
  /\ ws' = [ws EXCEPT !.at = "enqueue", !.loud = ~muted]
  /\ UNCHANGED <<muted, nameVars, netVars, running, sources, ui, orphan, missed>>

\* The gain of the last packet holds for all that is queued; a source is made
\* when it is missing.
Enqueue ==
  /\ ws.at = "enqueue"
  /\ SourceOf(ws.src).queued < MaxQueued
  /\ sources' = [sources EXCEPT ![ws.src] =
       [Push(SourceOf(ws.src)) EXCEPT !.loud = ws.loud]]
  /\ ws' = WsIdle
  /\ UNCHANGED <<muted, nameVars, netVars, running, ui, orphan, missed>>

-----------------------------------------------------------------------------
\* Messages and the connection, on the ws thread

\* name_result and player_name_result; an empty name is not cached.
NameResult(name) ==
  /\ ws.at = "idle" /\ up
  /\ name \in wire
  /\ wire' = wire \ {name}
  /\ inflight' = inflight \ {name}
  /\ known' \in {known, known \union {name}}
  /\ UNCHANGED <<muted, netVars, running, sources, ws, ui, orphan, missed>>

ClientState ==
  /\ ws.at = "idle" /\ up
  /\ listed' \in BOOLEAN
  /\ UNCHANGED <<muted, nameVars, up, running, sources, ws, ui, orphan, missed>>

\* Mutant: queries in flight are still taken for asked on the next connection.
CloseKeepsQueries ==
  /\ ws.at = "idle" /\ up
  /\ up' = FALSE
  /\ known' = {} /\ wire' = {}
  /\ orphan' = (ui.at = "insert")
  /\ UNCHANGED <<muted, listed, inflight, running, sources, ws, ui, missed>>

\* The names go with the connection; the rosters and the sources stay.
Close ==
  /\ ws.at = "idle" /\ up
  /\ up' = FALSE
  /\ known' = {} /\ inflight' = {} /\ wire' = {}
  /\ orphan' = (ui.at = "insert")
  /\ UNCHANGED <<muted, listed, running, sources, ws, ui, missed>>

Open ==
  /\ ws.at = "idle" /\ ~up
  /\ up' = TRUE
  /\ UNCHANGED <<muted, nameVars, listed, running, sources, ws, ui, orphan, missed>>

-----------------------------------------------------------------------------
\* Queries on the render thread: connected is read before names_mu is taken,
\* and the message goes out after it is released.

UiConnected ==
  /\ ui.at = "ask"
  /\ ui' = [ui EXCEPT !.at = IF up THEN "insert" ELSE ui.back]
  /\ UNCHANGED <<muted, nameVars, netVars, running, sources, ws, orphan, missed>>

UiInsert ==
  /\ ui.at = "insert"
  /\ \/ /\ ui.name \in known \union inflight
        /\ ui' = [ui EXCEPT !.at = ui.back]
        /\ UNCHANGED inflight
     \/ /\ ui.name \notin known \union inflight
        /\ ui' = [ui EXCEPT !.at = "send"]
        /\ inflight' = inflight \union {ui.name}
  /\ UNCHANGED <<muted, known, wire, netVars, running, sources, ws, orphan, missed>>

UiSend ==
  /\ ui.at = "send"
  /\ wire' = IF up THEN wire \union {ui.name} ELSE wire
  /\ ui' = [ui EXCEPT !.at = ui.back]
  /\ UNCHANGED <<muted, known, inflight, netVars, running, sources, ws, orphan, missed>>

\* A row is drawn: of a member, or of a speaker.
DrawRow(name) ==
  /\ ui.at = "idle"
  /\ name \in Present \/ (name = Peer /\ listed)
  /\ ui' = [UiIdle EXCEPT !.at = "ask", !.name = name]
  /\ UNCHANGED <<muted, nameVars, netVars, running, sources, ws, orphan, missed>>

-----------------------------------------------------------------------------
\* SetPlayerMuted and SetPlayerVolume, from DrawMemberRow

\* Either of the two maps; a volume is sound and not modelled.
SetPreference ==
  /\ ui.at = "idle" /\ listed
  /\ muted' \in BOOLEAN
  /\ ui' = [UiIdle EXCEPT !.at = "ask", !.back = "lookup"]
  /\ UNCHANGED <<nameVars, netVars, running, sources, ws, orphan, missed>>

\* UpdateActiveSpeakerLocalMuteVolume: without the player's name no source is his.
Lookup ==
  /\ ui.at = "lookup"
  /\ \/ /\ Peer \notin known
        /\ ui' = UiIdle
        /\ missed' = Present
        /\ UNCHANGED sources
     \/ /\ Peer \in known
        /\ \E gone \in SUBSET Present :
             /\ Evict(gone)
             /\ ui' = [ui EXCEPT !.at = "each", !.todo = Present \ gone]
        /\ missed' = {}
  /\ UNCHANGED <<muted, nameVars, netVars, running, ws, orphan>>

EachSource(s) ==
  /\ ui.at = "each" /\ s \in ui.todo
  /\ ui' = [at |-> "ask", name |-> s, back |-> "apply", todo |-> ui.todo \ {s}]
  /\ UNCHANGED <<muted, nameVars, netVars, running, sources, ws, orphan, missed>>

\* Mutant: a source is muted but never unmuted.
ApplyMuteOnly ==
  /\ ui.at = "apply"
  /\ sources' = IF ui.name \in known
                THEN [sources EXCEPT ![ui.name].muted = @ \/ muted] ELSE sources
  /\ missed' = IF ui.name \in known THEN missed ELSE missed \union {ui.name}
  /\ ui' = [ui EXCEPT !.at = "each"]
  /\ UNCHANGED <<muted, nameVars, netVars, running, ws, orphan>>

Apply ==
  /\ ui.at = "apply"
  /\ \/ /\ ui.name \in known
        /\ sources' = [sources EXCEPT ![ui.name].muted = muted,
                                     ![ui.name].byHand = FALSE]
        /\ UNCHANGED missed
     \/ /\ ui.name \notin known
        /\ missed' = missed \union {ui.name}
        /\ UNCHANGED sources
  /\ ui' = [ui EXCEPT !.at = "each"]
  /\ UNCHANGED <<muted, nameVars, netVars, running, ws, orphan>>

EachDone ==
  /\ ui.at = "each" /\ ui.todo = {}
  /\ ui' = UiIdle
  /\ UNCHANGED <<muted, nameVars, netVars, running, sources, ws, orphan, missed>>

-----------------------------------------------------------------------------
\* The other controls of the overlay, which act on a source and not on its player

SourceControl(newSources) ==
  /\ ui.at = "idle"
  /\ sources' = newSources
  /\ UNCHANGED <<muted, nameVars, netVars, running, ws, ui, orphan, missed>>

\* A click on a name of DrawMinimizedSpeakerList, or on a speaker's check box
\* of DrawProximityTab
MuteSource(s) ==
  /\ s \in Present
  /\ LET m == sources[s].muted
     IN SourceControl([sources EXCEPT ![s].muted = ~m, ![s].byHand = ~m])

\* DrawProximityTab: "mute all"
MuteAll ==
  /\ Present # {}
  /\ LET m == \E s \in Present : ~sources[s].muted
     IN SourceControl([s \in Src |-> IF s \in Present
                         THEN [sources[s] EXCEPT !.muted = m, !.byHand = m] ELSE None])

\* GetSpeakerInfos runs with every frame that shows speakers.
DrawSpeakers ==
  /\ ui.at = "idle"
  /\ \E gone \in (SUBSET Present) \ {{}} : Evict(gone)
  /\ UNCHANGED <<muted, nameVars, netVars, running, ws, ui, orphan, missed>>

\* The device is stopped and started again, which may fail; a stopped one is
\* left alone.
SetPlaybackDevice ==
  /\ ui.at = "idle" /\ running
  /\ sources' = [s \in Src |-> None]
  /\ running' \in BOOLEAN
  /\ UNCHANGED <<muted, nameVars, netVars, ws, ui, orphan, missed>>

-----------------------------------------------------------------------------

OnIncomingPacket == Identify \/ ReadMute \/ Enqueue

UiStep ==
  \/ UiConnected \/ UiInsert \/ UiSend \/ Lookup \/ Apply \/ EachDone
  \/ \E s \in Src : EachSource(s)

UiEvent ==
  \/ \E name \in Src \union {Peer} : DrawRow(name)
  \/ \E s \in Src : MuteSource(s)
  \/ SetPreference \/ MuteAll \/ DrawSpeakers \/ SetPlaybackDevice

Next ==
  \/ Mix
  \/ \E s \in Src : Receive(s)
  \/ OnIncomingPacket
  \/ \E name \in Src \union {Peer} : NameResult(name)
  \/ ClientState \/ Close \/ Open
  \/ UiStep \/ UiEvent

Spec == Init /\ [][Next]_vars

\* Every thread that is in the middle of something goes on; the device plays.
Fairness == WF_vars(OnIncomingPacket) /\ WF_vars(UiStep) /\ WF_vars(Mix)

FairSpec == Spec /\ Fairness

-----------------------------------------------------------------------------
\* Properties

\* Every variable of the playback side keeps its type.
TypeOK ==
  /\ muted \in BOOLEAN
  /\ known \subseteq Src \union {Peer} /\ inflight \subseteq Src \union {Peer}
  /\ wire \subseteq Src \union {Peer}
  /\ listed \in BOOLEAN /\ up \in BOOLEAN /\ running \in BOOLEAN
  /\ sources \in [Src -> Source \union {None}]
  /\ ws.at \in {"idle", "decoded", "mute", "enqueue"}
  /\ ws.at # "idle" => ws.src \in Src /\ ws.loud \in BOOLEAN
  /\ ui.at \in {"idle", "ask", "insert", "send", "lookup", "each", "apply"}
  /\ ui.back \in {"idle", "lookup", "apply"}
  /\ ui.name \in Src \union {Peer} /\ ui.todo \subseteq Src
  /\ ui.back = "apply" => ui.name \in Src
  /\ orphan \in BOOLEAN /\ missed \subseteq Src

\* A source's frames are heard in the order they came in, each once, unless
\* more came in than the ring holds.
PlayedInOrder ==
  \A s \in Present : sources[s].ahead >= 0 => sources[s].overrun

\* A name the client waits for is on its way, or not yet asked for, unless the
\* connection closed between a query's check and its entry in the table: that
\* name is then not asked for again before the next connection is closed.
NoNameForgotten ==
  \A name \in inflight \ wire :
    orphan \/ (ui.at = "send" /\ ui.name = name)

\* A source of a player who is not muted is muted by a control of its own, or
\* because the last change of the player's preferences did not find it.
NoLeftoverMute ==
  \A s \in Present :
    (ui.at = "idle" /\ ~muted /\ sources[s].muted) => sources[s].byHand \/ s \in missed

\* A player who is muted, and whom the client can tell, is not heard for long:
\* what was under way is played and everything later is silent.
MuteTakesEffect ==
  \A s \in Src :
    <>[](muted /\ Identified /\ s \in known) => <>[]~Audible(s)
=============================================================================
