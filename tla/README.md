# L2Voice-Chat in TLA+

A specification of the concurrent core of L2Voice-Chat, kept beside its code:
modules of what the code does, TLC runs on small instances, and theorems the
TLA+ proof system checks for every value of the constants.

Paths are relative to the repository's root. `voice-service/` is the Go voice
server, `l2j-bridge/` the Java bridge inside the game server, `client/` the C++
library inside the game client.

## 1. The system

    L2J game server                 voice server (Go)                  game client (C++)
    PositionPoller --> publisher --> Redis goroutine   --+              ws thread --- VoiceNetwork
                  \--> voice link --> bridge goroutines --+--> handleEvent    |            |
                                                          |      |     PollLoop --- OnRenderFrame
    L2WorldRef <--- whoami / names --- handleWS goroutine-+   WorldState, topology.State, ConnReg
                                       (one per client)   |      |     devices --- capture, playback
                                       UDP / WS audio ----+--> router.Route --> audio out
                                                                       render thread --- overlay

On the server three tables hold the state, each behind a lock of its own;
goroutines of four kinds read and write them: the Redis subscriber, one per
bridge link, one per client connection, and the audio relay. No operation holds
two of the locks, and most operations take the same lock several times.

The client is a library inside the game's process. Five threads meet in it: the
WebSocket library's (messages, packets, reconnection), PollLoop (twice a
second), the microphone's and the playback device's callbacks, and the game's
render thread, which draws the overlay from inside Direct3D hooks. They share
atomics, a few mutexes and a good deal of unprotected state.

### Components

| Component | State | Operations | Interacts with | What makes it correct |
|---|---|---|---|---|
| World state (`internal/world/state.go`) | players, party buckets, clans (sub-leaders, mode, its owner, opt-out), remote mutes, command channels, reverse index | upsert/remove player, upsert clan, set sub-leader/mode/opt-out, add/clear mute, upsert/dissolve channel, grant | called by events, commands, router | indexes agree with records; a logout purges its player and only it; one mute per pair; a mode has an owner; whoever may speak is a member |
| Commands (`internal/control/commands.go`, `authz.go`) | none of their own | authorize, read again, mutate | world state, client registry | what the authorization found still holds, or nothing is left behind when it does not |
| Session table (`internal/topology/state.go`) | sessions by id, by UDP address, by player | AllocSession, LookupByPlayer, Drop, positions | connections, events, audio relay | no dangling entries; a player with a session can be found |
| Client registry (`internal/control/client.go`) | clients by session, by player | Register, Unregister, CloseByPlayer, sends | connections, events, router | the latest connection is the one delivered to; nothing stays behind |
| Control connection (`internal/control/ws.go`) | the goroutine of one connection | accept, auth, whoami poll, set-up, read loop, deferred tear-down | all three tables, bridge | set-up is undone on every path; an old connection does not disturb a new one |
| Event handler (`internal/social/redis.go`) | none of its own | one case per event; runs on two transports at once | all three tables, pushes | events applied twice or late do no lasting harm; a logout disconnects |
| State push (`internal/control/state_push.go`) | none of its own | build and send `client_state`, notify peers | world, registry | a client ends with the newest state |
| Bridge link, server side (`internal/control/bridge_link.go`) | pending calls, links | call, answer, time out, attach, detach | connections, events | an answer reaches its caller or nobody |
| Router (`internal/router/router.go`) | none | Route: channel, whisper, mode, opt-out, mutes, preferences | world, registry | who hears whom is what the rules say |
| Audio relay (`internal/audio/udp.go`) | none | range, gain, pan per listener | session table | numbers stay in their bytes |
| Position poller, publisher, voice link, login tokens, reflection (`l2j-bridge/`) | snapshots, queue, links, consumed tokens | diff and publish, reconnect, issue and verify | game server, voice server | what changed is published, in order; no token counts twice |
| Client network (`voice_network.cpp`) | connected, auth_sent, ports, session, caches of names and rosters | connect, authenticate, suspend and resume, query names, send frames | ws thread, engine, overlay | auth once per connection and again on the next; a session is believed in only on its own connection; no name is waited for in vain |
| Client engine (`voice.cpp`, `dllmain.cpp`) | ports seen, suspension timer, preferences, table of speakers and its file | RefreshClientPorts, OnRenderFrame, OnCaptureFrame, OnIncomingPacket, setters | all the client's threads | who is away is suspended, who is back gets voice; muted players are silent; the file shows who speaks |
| Client audio (`audio_io.cpp`, `apm.cpp`, codec) | rings, sources, detection's hangover | push, mix, evict, detect | devices, engine | frames play in order, once |
| Client overlay (`overlay.cpp`) | hooks, two ImGui backends, visibility, mouse mask, support data | install, frames, resets, window messages, support polls and posts | Direct3D, window, engine, support service | backends are used only when up; clicks are not swallowed; one press one toggle; what the support window showed stays |

PROJECT.json lists each with its status, and every hazard at its line.

### What is hard here

- *Reads and writes under separate locks* (server): a command authorizes, reads
  again and mutates, taking the lock anew each time; the events do the same.
- *Overlapping connections* (server): a client reconnects while the server still
  serves its old socket; both handlers work on the same by-player entries.
- *Slices rewritten in place*: `append(s[:0], ...)` over a slice still held.
- *Two threads, one authentication* (client): RefreshClientPorts and TrySendAuth
  run on the ws thread and on PollLoop, and Open and Close change the flags they
  test.
- *The first message wins*: the server takes the first message of a connection
  for its authentication. A ping or a stale keepalive may be first.
- *Names that arrive late*: packets name a session, preferences name a player;
  the two are matched by character names asked for over the network.
- *Two backends, one flag* (overlay): a device may be lost, reset in vain, reset
  again, replaced, and Windows may call the window procedure inside a Reset.
- *Polls and posts without a common order* (support window), lost answers
  nobody is told of, and whole records sent to change one field.

## 2. Modules

| Module | Models | Proofs |
|---|---|---|
| `CommandChannels` | the command-channel table of WorldState, with slices and their capacity | in `World_proofs` |
| `World` (EXTENDS it) | WorldState: one action per mutating method | `World_proofs` |
| `Router` (EXTENDS World) | Route on the group channels, and the rules of the routing matrix | `World_proofs` |
| `Commands` (EXTENDS World) | connections' goroutines executing commands, and the event goroutines | `Commands_proofs` |
| `Sessions` | handleWS, topology.State, ConnReg and player_logout | `Sessions_proofs` |
| `Belief` | what a voice connection promises | refined by `VoiceLink` |
| `VoiceLink` (INSTANCE Belief) | the client's connection, authentication, suspension | `VoiceLink_proofs` |
| `Mixer` | playback: packets, rings, sources, names, mutes | `Mixer_proofs` |
| `Capture` | capture: detection, keys, channel, speaker table and file | `Capture_proofs` |
| `Overlay` | the panel's life on its device, keys, mask | `Overlay_proofs` |
| `SupportDesk` | the support window's polls and posts | `SupportDesk_proofs` |
| `MCWorld` (EXTENDS Router), `MCCommands`, `MCSessions`, `MCCapture` | symmetry, preference tables, spellings of names and the parts of a behaviour, for TLC | |

### World and CommandChannels

Every exported method of WorldState holds its mutex throughout, so each is one
atomic action. `World!Next` lets every method run at any time with any
arguments. It is the abstract specification: what the table promises to any
caller. `Commands` is a particular set of callers, and implements it.

| Code | Model |
|---|---|
| `players`, `Player.ClanID`, ... | `online`, `clanOf`, `allyOf`, `partyOf`, `isLeader`; id 0 is `None` |
| `parties` (absent bucket) | `parties[q]` (empty set) |
| `clans`, `Clan.*` | `clans`, `leaderID`, `subLeaders`, `mode`, `modeSetBy`, `optedOut` |
| `remoteMutes` | `mutes`, a set; an entry has one scope, as the only caller makes it |
| `ccs`, `CommandChannel.*`, `playerCC` | `channels`, `ccLeader`, `members`, `capacity`, `speak`, `playerCC` |

A member list keeps its order and its capacity, because the effect of
`append(cc.MemberIDs[:0], members...)` on the slice `old` depends on both.
`GrownCapacity` and `RoundUp` are the growth of `append` for lists of at most 8
ids, which all runs stay within. `Roster` only gives lists without repetitions:
the bridge collects them from L2J parties. Left out: names, positions,
instances, preferences, session numbers and last-seen times, on which no
modelled guard depends.

### Router

Route changes nothing, so Router adds operators and no action: the decisions
for a packet in one state of World. `Branch`, `Silenced` and the four `route*`
operators follow Route's branches and loops. `Rule` tells the story from the
listener's side, as docs/DESIGN.pt-BR.md does, and `Unified` says from the
documents alone which packets belong to the unified channel of a mode: those of
a clan in a mode and of its allies. `RouteFollowsMatrix` says that the two
agree, but for `AlliesMode`, where they do not (see *Findings*). Left out: volumes, and routeProximity, which the server
never reaches (its callers send only channels 1 to 4 to the router). Route
takes the world's lock once per question; Router answers all in one state.

### Commands

`cmd[p]` is the command the connection of p is executing. `Authorize*` are the
Authz functions, `Fetch` the read that supplies the clan or channel id, `Apply`
the one mutating call; the lock is free between them. A handler whose
`w.Player` is nil by then panics; net/http recovers, so the connection's
goroutine ends without effect (`Fetch`, branch `gone`). `raced` is a history
variable. Events change the world in one step each here.

### Sessions

`pc[c]` is how far the goroutine of connection c has come: each lock
acquisition or blocking operation of handleWS is a step, in the code's order,
with the deferred calls in reverse. `job[d]` is the same for dispatcher d
handling player_logout. The connection stands for its session id, which
AllocSession never reuses short of 2^32 sessions.

### VoiceLink and Belief

`pc` holds the place of each thread: "ws" runs the callback (connect, Open with
its refresh and authentication, auth_ok, Close statement by statement), "poll"
runs OnRenderFrame (refresh, ping, suspension, resumption), "talk" any other
sender. RefreshClientPorts is four steps (`Enumerate`, `Compare`, `Store`,
`SetClientPorts`), TrySendAuth three under `auth_mu`.

| Code | Model |
|---|---|
| `connected`, `auth_sent`, `auth_mu`, `client_ports`, `session_id` | `connected`, `authSent`, `authMu`, `clientPorts`, `session` (the player it stands for) |
| automatic reconnection, `ws.stop()` | `reconnect`, `stop` |
| `g_last_port_count`, `g_out_of_world_at`, `g_voice_suspended` | `lastCount` (is it not 0), `age` (frames since it was set), `suspended` |
| `counter` | `frame`, and -1 during voice::Init |
| handleWS at the other end | `server`: unread, polling for ports, granted to a player |

`Belief` is the promise with everything between the two ends left out; the
mapping is granted <- server.player, believed <- session. History variables:
`away`, `torn`, `overtaken`. Wall clocks are counted in frames of PollLoop, 500
ms each. SetCharName, which would refresh from a third thread, has no caller.

### Mixer

One player speaks from sessions `Src`, one after another. A source is how many
frames its ring holds (`queued`), how far the last frame heard lies ahead of
the next (`ahead`), whether it overran, and its mute. Three threads: `ws` (a
packet is received, identified, looked up, enqueued), `ui` (a query of a name,
a change of preference and its loop over the sources) and the device's `Mix`.
Eviction is by time in the code; in the model any source may be evicted that
was not just mixed. Left out: volumes and gain except silent or not, pan, the
two other channels' filters beyond `Filter`.

### Capture

`Decide` is OnCaptureFrame up to the decision, with keys, focus and speech
chosen anew for each frame; `MarkOwn`, `Release`, `Send` and `SendNothing` are
its locked sections and the send. `table` and `fresh` are g_speaker_channel and
the names marked within 600 ms. `ini` is what the file says under each key, 255
for a speaker who has stopped; `key` is SanitizeName, which may write several
names under one key, and WriteVoiceSpeakIni then leaves the one the unordered
map happens to list last. `charName` is char_name of voice.ini, which comes
before the name the server knows (SetCharName, which would change it, has no
caller). Others are heard on the user's five channels and on 8, the unified
channel. The settings, the session and the clan's mode may change between any
two steps. `quiet`, `open` and `changed` are history. Left out: sound, sequence
numbers, and names that differ in case only, which the exported lookup takes for
one.

### Overlay

`init`, `dx9`, `win32` and `tex` are g_imguiBackendInit, the device of the DX9
backend, the Win32 backend and the textures' device. A frame is one step,
HookReset two: Windows may send messages from inside it (`DisplayTransition`).
A backend shut down twice or used before its initialisation asserts: `fault`
ends the process. `awaiting`, `bare`, `press` and `shown` are history. One
window; ImGui's own drawing is left out, as are the DirectInput hooks.

### SupportDesk

`poll[k]` is a polling thread and the body it has received but not stored,
`posts[s]` a post in flight, `recent` the two-second throttle (g_lastPollMs).
One bug with two fields stands for the list of bugs; the staff chat and the
comments are handled in the same way and left out. The service is external: it
keeps `messages` and `record`, and may be down, before or after it has done
what it was asked. `wanted` is history: the game master's choice.

## 3. Runs

Every run of `expect: pass` explores its whole state space.

| Run | Instance | States | Question and answer |
|---|---|---|---|
| `World` | 2 players, 2 parties, 2 clans, 1 alliance, 1 mode, 2 scopes, 1 channel, lists up to 2, 6 preference tables | 22,000 | `TypeOK`, `PartyIndex`, `MembersIndexed`, `ModeOwned`, `OneMutePerPair`, `RemovalPurges` and `RouteFollowsMatrix` hold under any calls |
| `Commands` | 2 players, 1 clan, 1 alliance, 1 mode, 1 channel; one family of commands per behaviour | 361,000 | `GhostNeedsRace`: what is left of an absent player arises only from a logout inside a command; the behaviours are behaviours of `World` (`PROPERTY Spec`) |
| `Sessions` | 1 player, 2 connections, 1 dispatcher, fair | 74,000 | `NoLeak`, `IndexesSound`, `NewestReachable`; `ClosedIsForgotten` in the end |
| `VoiceLink` | 1 game connection that comes and goes, refresh every 2 frames, grace 1, 1 fault, fair | 292,000 | the authentication, the timer and the suspension keep their invariants; `KeepsPromise` (refinement of `Belief`); `VoiceReturns` in the end |
| `Mixer` | 1 session of the player, ring of 2 frames, up to 3 queued, fair | 701,000 | `PlayedInOrder`, `NoNameForgotten`, `NoLeftoverMute`; `MuteTakesEffect` in the end |
| `Capture` | 2 characters, with a key each or one for both, one of them possibly named in voice.ini; keys clan and proximity, selections 0 and 4, others heard on 8, hangover 2, fair | 484,000 | `FileFollowsTable`, `OpenForHangover`, `UnifiedIsNotProximity`; `IndicatorGoesOut` in the end |
| `Overlay` | 2 devices, 1 key to rebind, fair | 31,000 | `FaultsExplained`, `MaskNeedsPanel`, `OneTogglePerPress`; `PanelReturns` in the end |
| `SupportDesk` | 2 tickets, 2 values, 1 message per ticket, 2 threads that could poll, 1 sender, fair | 379,000 | `NothingDisappears`, `RevertNeedsOldList`; `FeedCatchesUp` in the end |
| `WorldAliasing` | 3 players, 1 channel, lists up to 3 | | `SpeakersAreMembers` is violated |
| `SessionsLost` | 1 player, 2 connections | | `SessionFindable` is violated |
| `VoiceLinkGrace` | 1 game connection, refresh every 3 frames, grace 2, no faults | | `SuspendsAfterGrace` is violated |
| `OverlayReset` | 1 device | | `ReinitialisesAfterFailedReset` is violated |

Deadlock is checked everywhere but in the two Overlay runs, where the process
may end in a fault.

### Findings

- `WorldAliasing`: channel list [a, b, c] is replaced by [a, c]. The append
  overwrites the array `old` still shows, so the second loop sees [a, c, c] and
  not b. b keeps the index entry and its permission to speak, against the
  comment on UpsertCommandChannel (state.go:376-377).
- `SessionsLost`: the player reconnects, then the old handler's deferred Drop
  deletes `byPlayer` of the new session. ConnReg.Unregister has the guard that
  Drop lacks. The player stays connected and is not found by lookups: it hears
  no group audio and its position is no longer updated. Proximity goes by
  session, and goes on from the last position. The run has no dispatcher, so it
  is the handler's Drop that TLC finds; player_logout's (redis.go:380) does the
  same when it comes late.
- `VoiceLinkGrace`: a refresh on every 15th call was meant for render frames;
  the only caller is PollLoop at 2 Hz, so refreshes are 7.5 s apart and the
  grace of 5 s ends before anyone looks again. A player out of the world at the
  moment of one refresh, and back at once, is suspended, and connects again
  with the next refresh.
- `OverlayReset`: a Reset fails (the Win32 backend is shut down), the next one
  succeeds, initialises DX9 alone and sets the flag. The next frame uses the
  Win32 backend that is down.

Seen while modelling, without a run of their own:

- An ally of a clan in a mode is only half in the unified channel. The matrix
  ("A está no clan ou ally", DESIGN.pt-BR.md:124, and line 78: "falam e ouvem
  entre si") and the banner's comment (overlay.cpp:1422-1425) put clan and
  allies into it; state.go:120-121 gives the alliance the mode of its leader
  clan. `modeActive` (router.go:139-148) looks at the sender's own clan, so a
  member of another clan of the alliance hears the mode and answers on the
  ordinary clan or ally channel, where toggles apply. `RouteFollowsMatrix` and
  its theorem name this (`AlliesMode`) and show that it is the only
  disagreement. The run reaches it: without the exception it ends in a
  violation five steps deep.
- The file and the table of speakers hold 8 while a clan mode is on
  (voice.cpp:410; nothing checks the byte on the way, voice_network.cpp:190-203),
  where voice.cpp:62 says "0-4" and voice.cpp:301 "255 is always > 4 (max
  channel)": a script that takes everything above 4 for silence shows nobody
  then. `TypeOK` of Capture has the channel.
- Names that differ only in characters SanitizeName drops share a key, and a
  name without Latin letters or digits has the empty one. When one of two such
  speakers stops, the file may say 255 while the table has the other.
  `FileFollowsTable` says this is as far as it goes: nobody is left speaking.

- Nothing sets `WhisperActive` (udp.go:358, 506), and the stored `WhisperMode`
  is never read: Route handles a whisper as its comment says, but never gets one.
- A logout between a command's authorization and its effect leaves a mode or a
  mute that no later logout clears. `GhostNeedsRace` says it is the only cause.
- player_logout between whoami and Register closes nothing (redis.go:405).
- SetActiveTxChannel accepts the command channel, SendGroupFrame does not send
  on it (voice_network.cpp:489): the speaker is shown and nobody hears.
- A name query whose check saw a connection that closed before the query was
  entered is waited for until the next connection closes, too. `NoNameForgotten`
  says this is the only way.
- The mute of one source (a click on a speaker) and the mute of a player are
  different things: only the second survives the source, and a mute is pushed
  only to sources whose names are known (`NoLeftoverMute`).
- A device that fails to start after its selection changed is never started
  again (voice.cpp:979, 997); the model lets it stay stopped.
- The throttle is renewed before the check for a running poll
  (overlay.cpp:1944-1947): a request that finds one running uses up the reset a
  send has made, and the message shows two seconds later (`FeedCatchesUp`).

### Bounds, and why they are enough

- Players: two, as each property of the server relates a player with one other
  (muter and target, old and new owner, leader and sub-leader, actor and target,
  speaker and listener). Three in `WorldAliasing`, because the lost departure
  needs a survivor behind it.
- `part` (MCWorld) and `family` (MCCommands) keep a behaviour to one clan
  (`Home`) with sub-leaders and mutes, to two allied clans without them, or to
  groups, and to one family of commands: groups meet clans in no table, and the
  second clan is there for the modes of allies. Everything together is covered
  by the proofs.
- `Preferences`: all players have the same table, because a decision reads the
  preferences of one listener. The proof is for all tables.
- Two connections: one old, one new. `MaxRoster` (longest member list) 2 or 3.
- A transport holds at most one logout of a player (`LeaveWorld`): it bounds the
  queue, and a second copy of a waiting logout adds nothing to the first.
- `RefreshEvery`, `Grace`: the code has 15 and 10; what matters is that a
  refresh comes less often than the grace lasts, and that both are reached.
  `MaxFaults` 1: a link that is lost, a connection that fails, or a TCP table
  that comes back empty. The proofs are for any values.
- `Cap` 2, `MaxQueued` 3: a ring that overruns by one. The code has 8 frames and
  no bound on how far it runs over; `MaxQueued` is the bound of the model.
- `Src` has one session in the checked instance: a second session of the same
  player adds entries of its own to every table, and only the loop over the
  sources sees both.
- `Hang` 2 (25 in the code): a frame after speech that is not the last one of
  the hangover. `Key`, `Sel`, `HeardOn`: one key with a channel of its own, the
  one that depends on the selection, the selections 0 and 4 that are treated
  specially, and the channel no user can select. `Mine`, `CharName`,
  `Spellings`: one character is the user's own, the other may be named by
  voice.ini; every name has its own key, or one is all there is. The proofs are
  for any.
- Two devices: one that is replaced by another. `Thread` 2: enough for two polls
  to overlap if g_pollActive did not prevent it. `MaxMessages` 1: a message that
  is shown, or not.
- Symmetry is used where no liveness is checked and the cfg says so.

### Fairness

Threads that are in the middle of something go on (weak fairness); nothing is
assumed of users, game, network or bridge, unless named here.

- `Sessions`: each connection's goroutine and each dispatcher. The whoami loop
  ends at its deadline, a write when TCP gives the peer up.
- `VoiceLink`: weak for the callback, OnRenderFrame, the refresh and the
  server's time-out and kick. Strong for what waits for `auth_mu` (a mutex held
  for one send, competed for by two threads), and for `Resolve`: the server asks
  the bridge over and over within its window, so a port it can resolve again
  and again is resolved some time. `VoiceReturns` excepts two ways out it names:
  torn refreshes that leave the timer running, and another message that is
  first on infinitely many connections.
- `Mixer`: the packet being handled, the render thread's call, the device.
- `Capture`: the frame being handled, the cleanup in PollLoop, time.
- `Overlay`: the game goes on presenting frames.
- `SupportDesk`: frames are drawn while the window is open, the clock runs, the
  threads of polls and posts go on.

## 4. Proofs

All are for any values of the constants, under the named ASSUMEs of the modules
(`ChannelAssumption`, `WorldAssumption`, `RouterAssumption`,
`CommandsAssumption`, `SessionsAssumption`, `VoiceLinkAssumption`,
`MixerAssumption`, `CaptureAssumption`, `OverlayAssumption`, `SupportAssumption`): the null value
is no member of its set, bounds are natural numbers, preference tables,
commands, keys and channels are among those the code knows. TLC evaluates them
in every run.

**World_proofs.** `TypeCorrect` is inductive as it stands because `TypeOK` says
two facts the others need: a player who is not online has an empty record, and
a member list holds an id once (`WithoutType`). `PartyIndexHolds` rests on
`MoveKeepsIndex`. `ModeOwnedHolds` and `OneMutePerPairHolds` are inductive with
`TypeOK`. `RemovalPurgesHolds`: a step that takes a player offline is
RemovePlayer.

`MembersIndexedHolds` is about any number of channels, of which the run has one,
and has a hypothesis: no player is on two lists (`DisjointLists`). In L2J a party
is in one command channel at most, but snapshots are sent player by player, so
while a party changes channels both may list it until the next snapshot of the
first; a table with one channel per player can name only one of them.
`OneChannelIndexed` needs no hypothesis. The step that matters is RemovePlayer,
which cleans one list only; `WithoutType` says what its filter loop returns.
`OnlyOverwritingLosesDepartures` says how far the finding of `WorldAliasing`
goes: the promise of the comment is kept by every behaviour in which no new list
is written over an id that leaves (`LosesNobody`: whoever leaves stood behind the
end of the new list, or that list outgrows its array).

*Routing*, in the same module. `RouteIsRule` is the statement for one state, one packet and
one candidate decision, by cases on `Branch`. Each case compares a loop with its
rule (`PartyDecisions`, `ClanOrAllyDecisions`, `ModeDecisions`,
`ChannelDecisions`). Only the party branch needs an invariant: Route reads the
party's bucket, the rule the players' records, and `PartyIndex` says they agree.
`ModeIsUnified` compares Route's modes with the documents': what Route takes for
a mode is unified, and what is unified and not taken for a mode is `AlliesMode`.

**Commands_proofs.** `CommandsImplementWorld` (CSpec => Spec) is the refinement
by the identity mapping, with `ArgumentsFit`: what a command in flight carries
fits its operation. `GhostNeedsRaceHolds` needs `NamedPresent` as well: a player
named by a command in flight is online, or its removal was recorded as a race.
`CommandsKeepWorld` draws the conclusion: what is proved of World and Router
holds while any commands are in flight.

**Sessions_proofs.** The invariant `IInv` adds `OwnerKnown` (a connection past
whoami has an owner), `JobOwned` (a session a dispatcher has found belongs to
the player of its event) and `NewestOwned` (the latest registration is one of
that player's) to `NoLeak` and `IndexesSound`. `OnlyOverlapLosesSessions` says how
far the finding of `SessionsLost` goes: as long as no player has two sessions at a
time (`OneSession`), each session is the one its player's entry names, however
handlers, logouts and cuts interleave.

**VoiceLink_proofs.** `IInv` has the types in four parts (`Places`, `Counters`,
`Flags`, `Links`) and `Mutex` (a thread that is sending auth holds `auth_mu`),
`Claim` (past Open, while the server has read nothing, auth is not claimed and no
thread is about to claim it, unless Open overtook a sender), `Timer`
(`TimerNeedsAbsence`, and a refresh about to store that the player is there has
reset the timer or found it off, unless another came between), `Quiet`
(`SuspendedIsSilent`, and the poll thread is not sending auth then either) and
`Believed` (the server knows a player exactly when it has granted the connection,
and between connections the client has no session). From them follow the four
invariants, and `KeepsPromiseHolds`: each step is a step of `Belief` or a
stutter, because a new connection is made only when `Believed` says the session
is gone.

**Mixer_proofs.** `IInv` has the types (`Places`, `Tables`), `NoNameForgotten`, and
three parts that make the invariants inductive. `Rings`: a ring that was not
overrun holds at most `Cap` frames and plays the next one; one that was plays
nothing newer than what it holds. It rests on `PlayedIsNewest`, the arithmetic of
Pop (the frame found at a multiple of `Cap` behind the newest), and holds for any
`Cap`. `Offline`: between connections nothing is waited for, but for the query
the closing came between. `Swept`: while a change of preference goes over the
sources, each source it is past is as the preference says, or has a mute of its
own, or came too late to be found (`Pending` are those still ahead of it). The
loop lets go of sources_mu to ask for each name, so packets, evictions and
connections come between any two of its steps; the run has one source, where the
loop has nothing to be past, and the proof has any number.

**Capture_proofs.** `IInv` has the types, `FileFollowsTable`, `OpenForHangover`
with `HangoverIsSilenceLeft` (the hangover is what is left of `Hang` after the
quiet frames, which ties the counter IsSpeaking tests to what was heard) and
`DecidedForProximity` (`UnifiedIsNotProximity` from the moment of the decision,
not only when the frame is sent). `WriteKeepsStep` is about a walk over the
table in any order and any spelling of the names: what a key shows was written
for the entry that came last, and that entry is still in the table if it was not
255; `EndKeepsStep` is the same for a release.

**Overlay_proofs.** `IInv` has `Backends` (the flag says that both backends are up,
but inside a Reset and after an explained one; the textures and the DX9 backend
belong to the device the frames know), `HooksArmed` (EndScene is hooked only
between Install and UninstallOverlay), `PressPending` (a key that went down since
the last frame is a press not yet acted on), `FaultsExplained` and
`MaskNeedsPanel`.
`OneTogglePerPressHolds` is an action property from them.

**SupportDesk_proofs.** `OnePoll` (at most one thread polls), `ChatBehind` (what
is on screen is no more than the service has), `AnswerFresh` (an answer not yet
stored is no older than what is on screen) and `UpdatesAgree` (while a choice
counts, every update in flight carries it, and with none in flight the record
is it).

**Model-checked only.** The liveness properties (`ClosedIsForgotten`,
`VoiceReturns`, `MuteTakesEffect`, `IndicatorGoesOut`, `PanelReturns`,
`FeedCatchesUp`): fairness and ENABLED are out of the prover's reach. The
violations. Every invariant and every action property of the passing runs is
proved, and both refinements, `MembersIndexed` of more than one channel under the
hypothesis above. What a recursive definition computes for every input cannot be
proved with these provers, so the modules use none.

## 5. Not modelled, and why

- *State push, event publisher, voice link of the bridge, the server's bridge
  link*: what reaches the modelled parts is in their environment (whoami is
  answered or not, events come in any order in `Commands`, `client_state` says
  anything in `Mixer` and `Capture`). The order of pushes and the loss of events
  in the publisher's queue are among the hazards without a property.
- *Login tokens*: a token's signature and its HTTP endpoint, independent of the
  rest. *Audio relay*: socket I/O and floating-point gain and pan.
- *Client*: layout of tabs, toasts, banner, minimized panel (drawing); the
  DirectInput hooks (one masking test each, as the hook on polled buttons);
  notifications and round-trip times (shown, never decided on); the bug report
  form (one post like the others); saving of settings; noise suppression, echo
  cancellation, gain control and the codec (signal processing); JSON helpers.
- *Two command channels at a time* are left to the proofs, and Route in several
  lock acquisitions is the next extension worth its states.

## 6. Running

    tlc -config VoiceLink.cfg VoiceLink.tla
    tlapm VoiceLink_proofs.tla

The longest run takes under three minutes on two workers; the proofs a few
minutes each.
