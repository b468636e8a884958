------------------------------ MODULE Capture ------------------------------
(***************************************************************************)
(* What the client says and whom it shows speaking: OnCaptureFrame with    *)
(* the voice activity detection of Apm::ProcessFrame (apm.cpp), the senders*)
(* of frames (voice_network.cpp), and the table of speakers with its copy  *)
(* in l2voice_speak.ini, which the game's scripts read (voice.cpp).        *)
(*                                                                         *)
(* Threads: the microphone's calls OnCaptureFrame; "ws" receives packets   *)
(* and the state of the player; PollLoop clears the table; "ui" changes    *)
(* settings.  All of them write the table, under g_local_prefs_mu; the     *)
(* settings, the session and the clan's mode are read without it.          *)
(*                                                                         *)
(* Keys, focus and sound are the user's, chosen anew for every frame.      *)
(* Sound itself, and sequence numbers, which no receiver looks at, are     *)
(* left out.  600 ms are one TimePasses.                                   *)
(***************************************************************************)
EXTENDS Integers, FiniteSets

CONSTANTS
  Name,      \* characters, the user's own and those heard
  NoName,
  Mine,      \* bound: the user's own characters, in one session after the other
  CharName,  \* what voice.ini may hold as char_name: a name, or NoName
  IniKey,    \* keys of the file of speakers
  Spellings, \* bound: the ways SanitizeName may write the names as keys
  Key,       \* push-to-talk keys that are bound
  Sel,       \* channels the user selects to transmit on
  HeardOn,   \* channels the server sends what others say on
  Hang       \* frames the detection holds on after speech (25)

Own == 0 .. 4            \* proximity, party, clan, ally, command channel
Mode == 8                \* the unified channel of a clan mode, which only the server uses
Channel == Own \union {Mode}
None == -1               \* no channel: nothing is said, no such entry
Ended == 255             \* what the file says of a speaker who has stopped

ASSUME CaptureAssumption ==
  /\ NoName \notin Name
  /\ Key \subseteq {"party", "clan", "ally", "proximity"}
  /\ Mine \subseteq Name /\ CharName \subseteq Name \union {NoName}
  /\ Spellings \subseteq [Name -> IniKey]
  /\ Sel \subseteq Own /\ HeardOn \subseteq Channel
  /\ Hang \in Nat

VARIABLES
  device,         \* AudioCapture: the microphone runs
  sel, alwaysOn,  \* ch_prefs.active_tx_channel, cfg.always_on
  hangover,       \* Apm: speech_hangover_frames_
  quiet,          \* history: frames since speech was heard, counted to Hang + 1
  session,        \* VoiceNetwork: there is a session_id
  own,            \* the name the cache has for PlayerID()
  charName,       \* cfg.char_name, as voice.ini had it
  unified,        \* LocalClanMode() # 0
  cap,            \* OnCaptureFrame: where it is and what it decided
  table,          \* g_speaker_channel
  fresh,          \* names marked within the last 600 ms (g_speaker_last_time)
  ini,            \* [VoiceSpeak] of l2voice_speak.ini
  key,            \* SanitizeName: the key of a name in it; names may share one
  wire            \* the channel of the last frame, if it was sent

settings == <<device, sel, alwaysOn>>
vad == <<hangover, quiet>>
net == <<session, own, unified>>
speakers == <<table, fresh, ini>>
fixed == <<charName, key>>
vars == <<settings, vad, net, cap, speakers, wire, fixed>>

\* `open` and `changed` are history: the frame was left to the open microphone;
\* the clan's mode has changed since the frame was decided on.
Idle == [at |-> "idle", tx |-> FALSE, channel |-> None, name |-> NoName,
         open |-> FALSE, changed |-> FALSE]

\* After voice::Init, which clears the section of the file.
Init ==
  /\ device = TRUE
  /\ sel \in Sel /\ alwaysOn \in BOOLEAN
  /\ hangover = 0 /\ quiet = Hang + 1
  /\ session = FALSE /\ own = NoName /\ unified = FALSE
  /\ cap = Idle
  /\ table = [n \in Name |-> None]
  /\ fresh = {}
  /\ ini = [k \in IniKey |-> None]
  /\ wire = None
  /\ charName \in CharName /\ key \in Spellings

-----------------------------------------------------------------------------
\* The table of speakers, under g_local_prefs_mu

\* The names of table t that are written under key k.
Entries(t, k) == {n \in Name : t[n] # None /\ key[n] = k}

\* What the walk over the table t with the fresh names f leaves in the file: of
\* the names with one key, the one that comes last, and the map has no order.
Written(t, f, last) ==
  [k \in IniKey |-> IF Entries(t, k) = {} THEN ini[k]
                    ELSE IF last[k] \in f THEN t[last[k]] ELSE Ended]

\* Mutant: a speaker who expires is forgotten without a word in the file.
WriteVoiceSpeakIniActive(t, f) ==
  /\ ini' = [k \in IniKey |->
               IF \E n \in f : key[n] = k /\ t[n] # None
               THEN t[CHOOSE n \in f : key[n] = k /\ t[n] # None] ELSE ini[k]]
  /\ table' = [n \in Name |-> IF n \in f THEN t[n] ELSE None]
  /\ fresh' = f

\* WriteVoiceSpeakIni, with the table t and the fresh names f
WriteVoiceSpeakIni(t, f) ==
  /\ \E last \in [IniKey -> Name] :
       /\ \A k \in IniKey : Entries(t, k) # {} => last[k] \in Entries(t, k)
       /\ ini' = Written(t, f, last)
  /\ table' = [n \in Name |-> IF n \in f THEN t[n] ELSE None]
  /\ fresh' = f

MarkSpeaking(n, channel) ==
  WriteVoiceSpeakIni([table EXCEPT ![n] = channel], fresh \union {n})

\* GetPlayerSpeakingChannel, exported for the game's scripts
GetPlayerSpeakingChannel(n) == IF n \in fresh THEN table[n] ELSE None

-----------------------------------------------------------------------------
\* OnCaptureFrame

Hangover(speech) ==
  IF speech THEN Hang ELSE IF hangover > 0 THEN hangover - 1 ELSE 0

\* Mutant: the counter is tested after it was counted down.
IsSpeakingLate(speech) == Hangover(speech) > 0

IsSpeaking(speech) == speech \/ hangover > 0

\* Mutant: only push-to-talk is redirected.
SelectedChannelPttOnly(ptt) == IF sel = 0 /\ unified /\ ptt THEN 2 ELSE sel

\* While the clan is in a mode of its own, what would go to proximity goes to the clan.
SelectedChannel(ptt) == IF sel = 0 /\ unified THEN 2 ELSE sel

\* The first key held in this order decides; without one, an open microphone.
TxChannel(held) ==
  IF "party" \in held THEN 1
  ELSE IF "clan" \in held THEN 2
  ELSE IF "ally" \in held THEN 3
  ELSE IF held # {} THEN SelectedChannel(TRUE)
  ELSE IF alwaysOn THEN SelectedChannel(FALSE)
  ELSE None

\* The name the frame's speaker is shown under: the configured one comes first.
MyName == IF charName # NoName THEN charName ELSE own

Decide ==
  /\ device /\ cap.at = "idle"
  /\ \E held \in SUBSET Key, focused, speech \in BOOLEAN :
       /\ LET tx == focused /\ (held # {} \/ (alwaysOn /\ IsSpeaking(speech)))
          IN cap' = [Idle EXCEPT
               !.at = "mark", !.tx = tx, !.channel = IF tx THEN TxChannel(held) ELSE None,
               !.name = MyName, !.open = focused /\ held = {} /\ alwaysOn]
       /\ hangover' = Hangover(speech)
       /\ quiet' = IF speech THEN 0 ELSE IF quiet > Hang THEN quiet ELSE quiet + 1
  /\ wire' = None
  /\ UNCHANGED <<settings, net, speakers, fixed>>

\* A frame to be sent shows its speaker, whatever becomes of it.
MarkOwn ==
  /\ cap.at = "mark" /\ cap.tx
  /\ IF cap.name = NoName THEN UNCHANGED speakers ELSE MarkSpeaking(cap.name, cap.channel)
  /\ cap' = [cap EXCEPT !.at = "send"]
  /\ wire' = None
  /\ UNCHANGED <<settings, vad, net, fixed>>

\* The speaker is taken off at once, if the name is still the one that was shown.
Release ==
  /\ cap.at = "mark" /\ ~cap.tx
  /\ \/ /\ cap.name # NoName /\ table[cap.name] # None
        /\ ini' = [ini EXCEPT ![key[cap.name]] = Ended]
        /\ table' = [table EXCEPT ![cap.name] = None]
        /\ fresh' = fresh \ {cap.name}
     \/ /\ cap.name # NoName => table[cap.name] = None
        /\ UNCHANGED speakers
  /\ cap' = Idle
  /\ wire' = None
  /\ UNCHANGED <<settings, vad, net, fixed>>

\* Mutant: the channel is not checked.
SendAny ==
  /\ cap.at = "send" /\ session
  /\ wire' = cap.channel
  /\ cap' = Idle
  /\ UNCHANGED <<settings, vad, net, speakers, fixed>>

\* SendProximityFrame for channel 0, and SendGroupFrame, which takes 1 to 3
Send ==
  /\ cap.at = "send" /\ session
  /\ wire' = IF cap.channel \in 0 .. 3 THEN cap.channel ELSE None
  /\ cap' = Idle
  /\ UNCHANGED <<settings, vad, net, speakers, fixed>>

\* No connection or session, or Opus could not encode the frame
SendNothing ==
  /\ cap.at = "send"
  /\ cap' = Idle
  /\ wire' = None
  /\ UNCHANGED <<settings, vad, net, speakers, fixed>>

-----------------------------------------------------------------------------
\* The ws thread

\* The part of OnIncomingPacket that shows a named speaker
Incoming(n, channel) ==
  /\ session /\ n # own
  /\ MarkSpeaking(n, channel)
  /\ wire' = None
  /\ UNCHANGED <<settings, vad, net, cap, fixed>>

AuthOk ==
  /\ ~session
  /\ session' = TRUE
  /\ wire' = None
  /\ UNCHANGED <<settings, vad, own, unified, cap, speakers, fixed>>

\* player_name_result for the user's own player
OwnName(n) ==
  /\ session /\ own = NoName
  /\ own' = n
  /\ wire' = None
  /\ UNCHANGED <<settings, vad, session, unified, cap, speakers, fixed>>

ClientState ==
  /\ session
  /\ unified' = ~unified
  /\ cap' = [cap EXCEPT !.changed = cap.tx]
  /\ wire' = None
  /\ UNCHANGED <<settings, vad, session, own, speakers, fixed>>

\* The clan's mode stays what the last client_state said.
Close ==
  /\ session
  /\ session' = FALSE /\ own' = NoName
  /\ wire' = None
  /\ UNCHANGED <<settings, vad, unified, cap, speakers, fixed>>

-----------------------------------------------------------------------------
\* The other threads, and time

\* Mutant: without an active speaker there is nothing to write.
CleanupActive ==
  /\ fresh # {}
  /\ WriteVoiceSpeakIni(table, fresh)
  /\ wire' = None
  /\ UNCHANGED <<settings, vad, net, cap, fixed>>

\* OnRenderFrame: every 100 ms at most
Cleanup ==
  /\ \E n \in Name : table[n] # None
  /\ WriteVoiceSpeakIni(table, fresh)
  /\ wire' = None
  /\ UNCHANGED <<settings, vad, net, cap, fixed>>

TimePasses(n) ==
  /\ n \in fresh
  /\ fresh' = fresh \ {n}
  /\ wire' = None
  /\ UNCHANGED <<settings, vad, net, cap, table, ini, fixed>>

\* SetActiveTxChannel and SetAlwaysOn
ChangeSettings ==
  /\ \/ sel' \in Sel \ {sel} /\ UNCHANGED alwaysOn
     \/ alwaysOn' = ~alwaysOn /\ UNCHANGED sel
  /\ wire' = None
  /\ UNCHANGED <<device, vad, net, cap, speakers, fixed>>

\* Stop waits for the callback to return; a device that does not start leaves
\* none, and then nothing starts one again.
SetCaptureDevice ==
  /\ device /\ cap.at = "idle"
  /\ device' = FALSE
  /\ wire' = None
  /\ UNCHANGED <<sel, alwaysOn, vad, net, cap, speakers, fixed>>

-----------------------------------------------------------------------------

OnCaptureFrame == MarkOwn \/ Release \/ Send \/ SendNothing

Next ==
  \/ Decide \/ OnCaptureFrame
  \/ \E n \in Name, channel \in HeardOn : Incoming(n, channel)
  \/ \E n \in Mine : OwnName(n)
  \/ \E n \in Name : TimePasses(n)
  \/ AuthOk \/ ClientState \/ Close
  \/ Cleanup \/ ChangeSettings \/ SetCaptureDevice

Spec == Init /\ [][Next]_vars

\* PollLoop comes round, time passes, and a frame that is being handled is finished.
Fairness ==
  /\ WF_vars(OnCaptureFrame)
  /\ WF_vars(Cleanup)
  /\ \A n \in Name : WF_vars(TimePasses(n))

FairSpec == Spec /\ Fairness

-----------------------------------------------------------------------------
\* Properties

\* Every variable of the capture side keeps its type.  The table and the file hold
\* the channels a user can speak on and the unified channel of a mode, which the
\* server stamps on what it relays and no check of the client takes away
\* (voice_network.cpp:190-203): the comments that know of 0 to 4 only (voice.cpp:62
\* and 301) leave it out.
TypeOK ==
  /\ device \in BOOLEAN /\ sel \in Sel /\ alwaysOn \in BOOLEAN
  /\ hangover \in 0 .. Hang /\ quiet \in 0 .. Hang + 1
  /\ session \in BOOLEAN /\ own \in Name \union {NoName} /\ unified \in BOOLEAN
  /\ cap \in [at : {"idle", "mark", "send"}, tx : BOOLEAN, channel : Own \union {None},
              name : Name \union {NoName}, open : BOOLEAN, changed : BOOLEAN]
  /\ cap.at = "send" => cap.tx
  /\ cap.tx => cap.channel # None
  /\ table \in [Name -> Channel \union {None}]
  /\ fresh \subseteq Name
  /\ ini \in [IniKey -> Channel \union {None, Ended}]
  /\ wire \in 0 .. 3 \union {None}
  /\ charName \in CharName /\ key \in Spellings

\* The file shows a speaker under key k; n is the only name written under its key.
Shown(k) == ini[k] \in Channel
Alone(n) == \A m \in Name \ {n} : key[m] # key[n]

\* Nobody is left speaking in the file: what it shows, a speaker with that key is
\* in the table with.  And a speaker whose key is its own is shown as the table
\* has it, so both ways the game's scripts learn of a speaker agree.  Names that
\* differ only in what SanitizeName drops share a key: then the file may say that
\* a speaker has stopped while the table shows another, but never that one speaks
\* when nobody does.
FileFollowsTable ==
  /\ \A k \in IniKey : Shown(k) => \E n \in Name : key[n] = k /\ table[n] = ini[k]
  /\ \A n \in Name : Alone(n) =>
       /\ table[n] # None => ini[key[n]] = table[n]
       /\ GetPlayerSpeakingChannel(n) # None => ini[key[n]] = GetPlayerSpeakingChannel(n)

\* An open microphone lets a frame through exactly if it holds speech or is one of
\* the Hang frames after it: no end of a word is clipped, and no silence is sent
\* after that.
OpenForHangover ==
  cap.open => (cap.tx <=> quiet <= Hang)

\* While the clan is in a mode of its own, nothing is on its way to proximity
\* unless the mode has just changed.
UnifiedIsNotProximity ==
  (cap.at = "send" /\ cap.channel = 0 /\ unified) => cap.changed

\* A speaker of whom no more frames come is not shown for ever: whether the key was
\* released, the name was lost with the connection, or the microphone went away.
IndicatorGoesOut ==
  \A k \in IniKey :
    []<>(\E n \in fresh : key[n] = k) \/ <>[]~Shown(k)
=============================================================================
