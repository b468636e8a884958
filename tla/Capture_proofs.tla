--------------------------- MODULE Capture_proofs ---------------------------
(***************************************************************************)
(* Proofs about module Capture: its type invariant and its three safety    *)
(* invariants, for any characters, keys, channels and any hangover.        *)
(***************************************************************************)
EXTENDS Capture, TLAPS

\* The hangover runs out as the silence grows, and is used up when it has
\* lasted for Hang frames: why the microphone is open for exactly that long.
HangoverIsSilenceLeft ==
  hangover = IF quiet > Hang THEN 0 ELSE Hang - quiet

\* A frame meant for proximity was decided on outside the clan's mode, from the
\* moment of the decision and not only when it is sent.
DecidedForProximity ==
  (cap.tx /\ cap.channel = 0 /\ unified) => cap.changed

IInv ==
  /\ TypeOK /\ FileFollowsTable
  /\ HangoverIsSilenceLeft /\ OpenForHangover
  /\ DecidedForProximity

-----------------------------------------------------------------------------
(* The channel of a frame.                                                 *)

\* Whatever is held, the channel is one of the user's five or none at all, and a key
\* that is held or an open microphone has one.
LEMMA TxChannelType ==
  ASSUME TypeOK, NEW held \in SUBSET Key
  PROVE  /\ TxChannel(held) \in Own \union {None}
         /\ held # {} \/ alwaysOn => TxChannel(held) # None
  <1>1. sel \in Own
    BY CaptureAssumption DEF TypeOK
  <1> QED
    BY <1>1 DEF TxChannel, SelectedChannel, Own, None

\* Within the clan's mode no frame is meant for proximity.
LEMMA UnifiedRedirects ==
  ASSUME TypeOK, NEW held \in SUBSET Key, unified
  PROVE  TxChannel(held) # 0
  BY DEF TxChannel, SelectedChannel, None

-----------------------------------------------------------------------------
(* The table of speakers and its file.                                     *)

\* Writing the file from a table that differs from the current one only in
\* speakers marked fresh keeps the types, and keeps file and table in step, in
\* whatever order the names are written.
LEMMA WriteKeepsStep ==
  ASSUME TypeOK, FileFollowsTable, UNCHANGED key,
         NEW t \in [Name -> Channel \union {None}], NEW f \in SUBSET Name,
         \A n \in Name : t[n] = table[n] \/ (n \in f /\ t[n] # None),
         WriteVoiceSpeakIni(t, f)
  PROVE  /\ table' \in [Name -> Channel \union {None}]
         /\ fresh' \subseteq Name
         /\ ini' \in [IniKey -> Channel \union {None, Ended}]
         /\ FileFollowsTable'
  <1>1. PICK last \in [IniKey -> Name] :
          /\ \A k \in IniKey : Entries(t, k) # {} => last[k] \in Entries(t, k)
          /\ ini' = Written(t, f, last)
    BY DEF WriteVoiceSpeakIni
  <1>2. /\ table' = [n \in Name |-> IF n \in f THEN t[n] ELSE None]
        /\ fresh' = f /\ key' = key /\ key \in [Name -> IniKey]
    BY CaptureAssumption DEF WriteVoiceSpeakIni, TypeOK
  <1>3. /\ table' \in [Name -> Channel \union {None}]
        /\ fresh' \subseteq Name
    BY <1>2
  <1>4. ini' \in [IniKey -> Channel \union {None, Ended}]
    BY <1>1 DEF Written, TypeOK
  <1>5. ASSUME NEW k \in IniKey, Shown(k)'
        PROVE  \E n \in Name : key[n] = k /\ table'[n] = ini'[k]
    <2>1. CASE Entries(t, k) = {}
      <3>1. ini'[k] = ini[k] /\ ini[k] \in Channel
        BY <1>1, <1>5, <2>1 DEF Written, Shown
      <3>2. PICK n \in Name : key[n] = k /\ table[n] = ini[k]
        BY <3>1 DEF FileFollowsTable, Shown
      <3>3. t[n] # None
        BY <3>1, <3>2 DEF Channel, Own, Mode, None
      <3> QED
        BY <2>1, <3>2, <3>3 DEF Entries
    <2>2. CASE Entries(t, k) # {}
      <3>1. last[k] \in Name /\ key[last[k]] = k
        BY <1>1, <2>2 DEF Entries
      <3>2. ini'[k] = IF last[k] \in f THEN t[last[k]] ELSE Ended
        BY <1>1, <2>2 DEF Written
      <3>3. last[k] \in f
        BY <1>5, <3>2 DEF Shown, Channel, Own, Mode, Ended
      <3> QED
        BY <1>2, <3>1, <3>2, <3>3
    <2> QED
      BY <2>1, <2>2
  <1>6. ASSUME NEW n \in Name, Alone(n), table'[n] # None
        PROVE  ini'[key[n]] = table'[n]
    <2>1. n \in f /\ table'[n] = t[n] /\ t[n] # None /\ key[n] \in IniKey
      BY <1>2, <1>6
    <2>2. Entries(t, key[n]) = {n}
      BY <1>6, <2>1 DEF Entries, Alone
    <2>3. last[key[n]] = n
      BY <1>1, <2>1, <2>2
    <2> QED
      BY <1>1, <2>1, <2>2, <2>3 DEF Written
  <1>7. \A n \in Name : Alone(n)' <=> Alone(n)
    BY <1>2 DEF Alone
  <1>8. FileFollowsTable'
    BY <1>2, <1>5, <1>6, <1>7 DEF FileFollowsTable, GetPlayerSpeakingChannel
  <1> QED
    BY <1>3, <1>4, <1>8

\* Showing a speaker on a channel does both.
LEMMA MarkKeepsStep ==
  ASSUME TypeOK, FileFollowsTable, UNCHANGED key, NEW n \in Name, NEW channel \in Channel,
         MarkSpeaking(n, channel)
  PROVE  /\ table' \in [Name -> Channel \union {None}]
         /\ fresh' \subseteq Name
         /\ ini' \in [IniKey -> Channel \union {None, Ended}]
         /\ FileFollowsTable'
  <1> DEFINE t == [table EXCEPT ![n] = channel]
             f == fresh \union {n}
  <1>1. t \in [Name -> Channel \union {None}] /\ f \in SUBSET Name
    BY DEF TypeOK
  <1>2. \A m \in Name : t[m] = table[m] \/ (m \in f /\ t[m] # None)
    BY DEF TypeOK, Channel, Own, Mode, None
  <1>3. WriteVoiceSpeakIni(t, f)
    BY DEF MarkSpeaking
  <1> HIDE DEF t, f
  <1> QED
    BY <1>1, <1>2, <1>3, WriteKeepsStep

\* Taking a speaker off at once, under a key that others may share, keeps both in step.
LEMMA EndKeepsStep ==
  ASSUME TypeOK, FileFollowsTable, UNCHANGED key, NEW m \in Name,
         ini' = [ini EXCEPT ![key[m]] = Ended],
         table' = [table EXCEPT ![m] = None],
         fresh' = fresh \ {m}
  PROVE  /\ table' \in [Name -> Channel \union {None}]
         /\ fresh' \subseteq Name
         /\ ini' \in [IniKey -> Channel \union {None, Ended}]
         /\ FileFollowsTable'
  <1>1. key \in [Name -> IniKey]
    BY CaptureAssumption DEF TypeOK
  <1>2. /\ table' \in [Name -> Channel \union {None}]
        /\ fresh' \subseteq Name
        /\ ini' \in [IniKey -> Channel \union {None, Ended}]
    BY DEF TypeOK
  <1>3. ASSUME NEW k \in IniKey, Shown(k)'
        PROVE  \E n \in Name : key[n] = k /\ table'[n] = ini'[k]
    <2>1. k # key[m] /\ ini'[k] = ini[k]
      BY <1>1, <1>3 DEF TypeOK, Shown, Channel, Own, Mode, Ended
    <2>2. PICK n \in Name : key[n] = k /\ table[n] = ini[k]
      BY <1>3, <2>1 DEF FileFollowsTable, Shown
    <2> QED
      BY <2>1, <2>2 DEF TypeOK
  <1>4. ASSUME NEW n \in Name, Alone(n), table'[n] # None
        PROVE  ini'[key[n]] = table'[n] /\ table'[n] = table[n]
    <2>1. n # m /\ key[n] # key[m] /\ table'[n] = table[n]
      BY <1>4 DEF Alone, TypeOK
    <2> QED
      BY <1>1, <1>4, <2>1 DEF FileFollowsTable, TypeOK
  <1>5. \A n \in Name : Alone(n)' <=> Alone(n)
    BY DEF Alone
  <1>6. FileFollowsTable'
    BY <1>3, <1>4, <1>5 DEF FileFollowsTable, GetPlayerSpeakingChannel
  <1> QED
    BY <1>2, <1>6

\* The file stays in step with a table that is not touched.
LEMMA StepKept ==
  ASSUME FileFollowsTable, UNCHANGED <<speakers, fixed>>
  PROVE  FileFollowsTable'
  <1>1. table' = table /\ fresh' = fresh /\ ini' = ini /\ key' = key
    BY DEF speakers, fixed
  <1> QED
    BY <1>1 DEF FileFollowsTable, GetPlayerSpeakingChannel, Shown, Alone

-----------------------------------------------------------------------------
(* The frame in hand.                                                      *)

\* Between two frames nothing is claimed of a frame.
LEMMA IdleFrame ==
  ASSUME HangoverIsSilenceLeft, UNCHANGED vad, cap' = Idle
  PROVE  HangoverIsSilenceLeft' /\ OpenForHangover' /\ DecidedForProximity'
  BY DEF HangoverIsSilenceLeft, OpenForHangover, DecidedForProximity, Idle, vad

\* What is known of the frame stays as long as the frame and the mode do.
LEMMA FrameKept ==
  ASSUME HangoverIsSilenceLeft, OpenForHangover, DecidedForProximity,
         UNCHANGED <<vad, cap, unified>>
  PROVE  HangoverIsSilenceLeft' /\ OpenForHangover' /\ DecidedForProximity'
  BY DEF HangoverIsSilenceLeft, OpenForHangover, DecidedForProximity, vad

-----------------------------------------------------------------------------
(* The inductive invariant.                                                *)

\* The inductive invariant holds when voice::Init has written the file.
LEMMA InitInv == Init => IInv
  <1> SUFFICES ASSUME Init PROVE IInv
    OBVIOUS
  <1> USE CaptureAssumption DEF Init
  <1>1. TypeOK
    <2>1. /\ cap \in [at : {"idle", "mark", "send"}, tx : BOOLEAN,
                   channel : Own \union {None}, name : Name \union {NoName},
                   open : BOOLEAN, changed : BOOLEAN]
          /\ cap.at # "send" /\ ~cap.tx
      BY DEF Idle
    <2>2. hangover \in 0 .. Hang /\ quiet \in 0 .. Hang + 1
      OBVIOUS
    <2> QED
      BY <2>1, <2>2 DEF TypeOK
  <1>2. FileFollowsTable
    BY DEF FileFollowsTable, Shown, GetPlayerSpeakingChannel, Channel, Own, Mode, None
  <1>3. HangoverIsSilenceLeft /\ OpenForHangover /\ DecidedForProximity
    BY DEF HangoverIsSilenceLeft, OpenForHangover, DecidedForProximity, Idle
  <1> QED
    BY <1>1, <1>2, <1>3 DEF IInv

\* A new frame: the channel is decided, and the detection takes note.
LEMMA DecideInv == ASSUME IInv, Decide PROVE IInv'
  <1> USE CaptureAssumption
  <1>1. PICK held \in SUBSET Key, focused \in BOOLEAN, speech \in BOOLEAN :
          /\ LET tx == focused /\ (held # {} \/ (alwaysOn /\ IsSpeaking(speech)))
             IN cap' = [Idle EXCEPT
                  !.at = "mark", !.tx = tx, !.channel = IF tx THEN TxChannel(held) ELSE None,
                  !.name = MyName, !.open = focused /\ held = {} /\ alwaysOn]
          /\ hangover' = Hangover(speech)
          /\ quiet' = IF speech THEN 0 ELSE IF quiet > Hang THEN quiet ELSE quiet + 1
    BY DEF Decide
  <1> DEFINE tx == focused /\ (held # {} \/ (alwaysOn /\ IsSpeaking(speech)))
             open == focused /\ held = {} /\ alwaysOn
  <1>2. TypeOK /\ UNCHANGED <<settings, net, speakers, fixed>> /\ wire' = None
    BY DEF IInv, Decide
  <1>3. /\ cap'.at = "mark" /\ cap'.name = MyName /\ cap'.changed = FALSE
        /\ cap'.tx = tx /\ cap'.open = open
        /\ cap'.channel = IF tx THEN TxChannel(held) ELSE None
    BY <1>1 DEF Idle
  <1>4. /\ TxChannel(held) \in Own \union {None}
        /\ tx => TxChannel(held) # None
    BY <1>2, TxChannelType
  <1>5. hangover \in 0 .. Hang /\ quiet \in 0 .. Hang + 1 /\ HangoverIsSilenceLeft
    BY <1>2 DEF TypeOK, IInv
  <1>6. /\ hangover' \in 0 .. Hang /\ quiet' \in 0 .. Hang + 1
        /\ HangoverIsSilenceLeft'
        /\ IsSpeaking(speech) <=> quiet' <= Hang
    <2>1. CASE speech
      BY <1>1, <1>5, <2>1 DEF Hangover, IsSpeaking, HangoverIsSilenceLeft
    <2>2. CASE ~speech
      BY <1>1, <1>5, <2>2 DEF Hangover, IsSpeaking, HangoverIsSilenceLeft
    <2> QED
      BY <2>1, <2>2
  <1>7. cap' \in [at : {"idle", "mark", "send"}, tx : BOOLEAN,
                  channel : Own \union {None}, name : Name \union {NoName},
                  open : BOOLEAN, changed : BOOLEAN]
    <2>1. MyName \in Name \union {NoName}
      BY <1>2 DEF MyName, TypeOK
    <2>2. tx \in BOOLEAN /\ open \in BOOLEAN
      BY <1>2 DEF TypeOK, IsSpeaking
    <2> HIDE DEF tx, open
    <2>3. cap' = [at |-> "mark", tx |-> tx, channel |-> IF tx THEN TxChannel(held) ELSE None,
                  name |-> MyName, open |-> open, changed |-> FALSE]
      BY <1>1 DEF Idle, tx, open
    <2> QED
      BY <1>4, <2>1, <2>2, <2>3
  <1>8. TypeOK'
    BY <1>2, <1>3, <1>4, <1>6, <1>7 DEF TypeOK, settings, net, speakers, fixed
  <1>9. FileFollowsTable'
    BY <1>2, StepKept DEF IInv
  <1>10. OpenForHangover'
    <2>1. open => (tx <=> IsSpeaking(speech))
      OBVIOUS
    <2> QED
      BY <1>3, <1>6, <2>1 DEF OpenForHangover
  <1>11. DecidedForProximity'
    <2>1. unified => TxChannel(held) # 0
      BY <1>2, UnifiedRedirects
    <2> QED
      BY <1>2, <1>3, <2>1 DEF DecidedForProximity, net
  <1> QED
    BY <1>6, <1>8, <1>9, <1>10, <1>11 DEF IInv

\* The rest of OnCaptureFrame shows the speaker, or takes it off, and sends.
LEMMA CaptureFrameInv == ASSUME IInv, OnCaptureFrame PROVE IInv'
  <1> USE CaptureAssumption
  <1>1. TypeOK /\ FileFollowsTable /\ HangoverIsSilenceLeft
    BY DEF IInv
  <1>2. ASSUME MarkOwn
        PROVE  IInv'
    <2>1. /\ cap' = [cap EXCEPT !.at = "send"] /\ cap.at = "mark" /\ cap.tx
          /\ UNCHANGED <<settings, vad, net, fixed>> /\ wire' = None
      BY <1>2 DEF MarkOwn
    <2>2. /\ cap'.at = "send" /\ cap'.tx = cap.tx /\ cap'.channel = cap.channel
          /\ cap'.name = cap.name /\ cap'.open = cap.open /\ cap'.changed = cap.changed
      BY <1>1, <2>1 DEF TypeOK
    <2>3. /\ table' \in [Name -> Channel \union {None}]
          /\ fresh' \subseteq Name
          /\ ini' \in [IniKey -> Channel \union {None, Ended}]
          /\ FileFollowsTable'
      <3>1. CASE cap.name = NoName
        <4>1. UNCHANGED speakers
          BY <1>2, <3>1 DEF MarkOwn
        <4> QED
          BY <1>1, <2>1, <4>1, StepKept DEF TypeOK, speakers
      <3>2. CASE cap.name # NoName
        <4>1. /\ cap.name \in Name /\ cap.channel \in Channel
              /\ MarkSpeaking(cap.name, cap.channel)
          BY <1>1, <1>2, <2>1, <3>2 DEF MarkOwn, TypeOK, Channel
        <4> QED
          BY <1>1, <2>1, <4>1, MarkKeepsStep DEF fixed
      <3> QED
        BY <3>1, <3>2
    <2>4. TypeOK'
      BY <1>1, <2>1, <2>2, <2>3 DEF TypeOK, settings, vad, net, fixed
    <2>5. HangoverIsSilenceLeft' /\ OpenForHangover' /\ DecidedForProximity'
      BY <2>1, <2>2 DEF IInv, HangoverIsSilenceLeft, OpenForHangover, DecidedForProximity,
                        vad, net
    <2> QED
      BY <2>3, <2>4, <2>5 DEF IInv
  <1>3. ASSUME cap' = Idle, UNCHANGED <<settings, vad, net, fixed>>,
               wire' \in 0 .. 3 \union {None},
               table' \in [Name -> Channel \union {None}],
               fresh' \subseteq Name,
               ini' \in [IniKey -> Channel \union {None, Ended}],
               FileFollowsTable'
        PROVE  IInv'
    <2>1. TypeOK'
      BY <1>1, <1>3 DEF TypeOK, Idle, settings, vad, net, fixed
    <2> QED
      BY <1>1, <1>3, <2>1, IdleFrame DEF IInv
  <1>4. ASSUME Release
        PROVE  IInv'
    <2>1. cap' = Idle /\ UNCHANGED <<settings, vad, net, fixed>> /\ wire' = None
      BY <1>4 DEF Release
    <2>2. CASE UNCHANGED speakers
      BY <1>1, <1>3, <2>1, <2>2, StepKept DEF TypeOK, speakers
    <2>3. CASE /\ cap.name # NoName
               /\ ini' = [ini EXCEPT ![key[cap.name]] = Ended]
               /\ table' = [table EXCEPT ![cap.name] = None]
               /\ fresh' = fresh \ {cap.name}
      <3>1. cap.name \in Name /\ UNCHANGED key
        BY <1>1, <2>1, <2>3 DEF TypeOK, fixed
      <3> QED
        BY <1>1, <1>3, <2>1, <2>3, <3>1, EndKeepsStep
    <2> QED
      BY <1>4, <2>2, <2>3 DEF Release
  <1>5. ASSUME Send \/ SendNothing
        PROVE  IInv'
    <2>1. /\ cap' = Idle /\ UNCHANGED <<settings, vad, net, speakers, fixed>>
          /\ wire' \in 0 .. 3 \union {None}
      BY <1>5 DEF Send, SendNothing
    <2>2. FileFollowsTable'
      BY <1>1, <2>1, StepKept
    <2> QED
      BY <1>1, <1>3, <2>1, <2>2 DEF TypeOK, speakers
  <1> QED
    BY <1>2, <1>4, <1>5 DEF OnCaptureFrame

\* Every step of the capture path keeps it.
LEMMA NextInv == IInv /\ [Next]_vars => IInv'
  <1> SUFFICES ASSUME IInv, [Next]_vars PROVE IInv'
    OBVIOUS
  <1> USE CaptureAssumption
  <1>1. /\ TypeOK /\ FileFollowsTable
        /\ HangoverIsSilenceLeft /\ OpenForHangover /\ DecidedForProximity
    BY DEF IInv
  \* A step of another thread that changes the table and its file only ...
  <1>2. ASSUME UNCHANGED <<settings, vad, net, cap, fixed>>, wire' = None,
               table' \in [Name -> Channel \union {None}],
               fresh' \subseteq Name,
               ini' \in [IniKey -> Channel \union {None, Ended}],
               FileFollowsTable'
        PROVE  IInv'
    <2>1. TypeOK'
      BY <1>1, <1>2 DEF TypeOK, settings, vad, net, fixed
    <2> QED
      BY <1>1, <1>2, <2>1, FrameKept DEF IInv, net
  \* ... and one that leaves them alone.
  <1>3. ASSUME UNCHANGED <<vad, cap, unified, speakers, fixed>>, wire' \in {wire, None},
               device' \in BOOLEAN, sel' \in Sel, alwaysOn' \in BOOLEAN,
               session' \in BOOLEAN, own' \in Name \union {NoName}
        PROVE  IInv'
    <2>1. TypeOK'
      BY <1>1, <1>3 DEF TypeOK, vad, speakers, fixed
    <2> QED
      BY <1>1, <1>3, <2>1, FrameKept, StepKept DEF IInv
  <1>4. CASE Decide
    BY <1>4, DecideInv
  <1>5. CASE OnCaptureFrame
    BY <1>5, CaptureFrameInv
  <1>6. ASSUME NEW n \in Name, NEW channel \in HeardOn, Incoming(n, channel)
        PROVE  IInv'
    <2>1. channel \in Channel /\ MarkSpeaking(n, channel) /\ UNCHANGED key
      BY <1>6 DEF Incoming, fixed
    <2>2. /\ table' \in [Name -> Channel \union {None}]
          /\ fresh' \subseteq Name
          /\ ini' \in [IniKey -> Channel \union {None, Ended}]
          /\ FileFollowsTable'
      BY <1>1, <2>1, MarkKeepsStep
    <2> QED
      BY <1>2, <1>6, <2>2 DEF Incoming
  <1>7. CASE Cleanup
    <2>1. \A n \in Name : table[n] = table[n]
      OBVIOUS
    <2>2. /\ table \in [Name -> Channel \union {None}] /\ fresh \in SUBSET Name
          /\ WriteVoiceSpeakIni(table, fresh) /\ UNCHANGED key
      BY <1>1, <1>7 DEF Cleanup, TypeOK, fixed
    <2>3. /\ table' \in [Name -> Channel \union {None}]
          /\ fresh' \subseteq Name
          /\ ini' \in [IniKey -> Channel \union {None, Ended}]
          /\ FileFollowsTable'
      BY <1>1, <2>1, <2>2, WriteKeepsStep
    <2> QED
      BY <1>2, <1>7, <2>3 DEF Cleanup
  <1>8. ASSUME NEW n \in Name, TimePasses(n)
        PROVE  IInv'
    <2>1. fresh' = fresh \ {n} /\ UNCHANGED <<table, ini, key>>
      BY <1>8 DEF TimePasses, fixed
    <2>2. FileFollowsTable'
      BY <1>1, <2>1 DEF FileFollowsTable, GetPlayerSpeakingChannel, Shown, Alone
    <2> QED
      BY <1>1, <1>2, <1>8, <2>1, <2>2 DEF TimePasses, TypeOK
  <1>9. ASSUME NEW n \in Mine, OwnName(n)
        PROVE  IInv'
    BY <1>1, <1>3, <1>9 DEF OwnName, TypeOK, settings
  <1>10. CASE AuthOk \/ Close
    BY <1>1, <1>3, <1>10 DEF AuthOk, Close, TypeOK, settings
  <1>11. CASE ClientState
    <2>1. /\ cap' = [cap EXCEPT !.changed = cap.tx]
          /\ unified' = ~unified /\ wire' = None
          /\ UNCHANGED <<settings, vad, session, own, speakers, fixed>>
      BY <1>11 DEF ClientState
    <2>2. /\ cap'.at = cap.at /\ cap'.channel = cap.channel /\ cap'.tx = cap.tx
          /\ cap'.name = cap.name /\ cap'.open = cap.open /\ cap'.changed = cap.tx
      BY <1>1, <2>1 DEF TypeOK
    <2>3. TypeOK'
      BY <1>1, <2>1, <2>2 DEF TypeOK, settings, vad, speakers, fixed
    <2>4. FileFollowsTable'
      BY <1>1, <2>1, StepKept
    <2>5. HangoverIsSilenceLeft' /\ OpenForHangover' /\ DecidedForProximity'
      BY <1>1, <2>1, <2>2
         DEF HangoverIsSilenceLeft, OpenForHangover, DecidedForProximity, vad
    <2> QED
      BY <2>3, <2>4, <2>5 DEF IInv
  <1>12. CASE ChangeSettings \/ SetCaptureDevice
    BY <1>1, <1>3, <1>12 DEF ChangeSettings, SetCaptureDevice, TypeOK, net
  <1>13. CASE UNCHANGED vars
    BY <1>1, <1>3, <1>13 DEF TypeOK, vars, settings, net
  <1> QED
    BY <1>4, <1>5, <1>6, <1>7, <1>8, <1>9, <1>10, <1>11, <1>12, <1>13 DEF Next

\* The inductive invariant holds of every behaviour.
THEOREM Invariant == Spec => []IInv
  BY InitInv, NextInv, PTL DEF Spec

\* Every variable of the capture side keeps its type: the table and the file hold
\* the user's channels and the unified channel of a mode, the user never sends on
\* that one, and a frame that is sent always has a channel.
THEOREM TypeCorrect == Spec => []TypeOK
  <1>1. IInv => TypeOK
    BY DEF IInv
  <1> QED
    BY <1>1, Invariant, PTL

\* l2voice_speak.ini shows nobody under a key unless the table has a speaker with
\* that key, on the channel shown, and exactly the table's channel for a speaker
\* whose key is its own (WriteVoiceSpeakIni), however SanitizeName writes the names
\* and in whatever order the entries are written.
THEOREM FileFollowsTableHolds == Spec => []FileFollowsTable
  <1>1. IInv => FileFollowsTable
    BY DEF IInv
  <1> QED
    BY <1>1, Invariant, PTL

\* A frame left to the open microphone is let through exactly if speech was heard
\* in it or in one of the Hang frames before (Apm::ProcessFrame, IsSpeaking and
\* OnCaptureFrame), whatever Hang is.
THEOREM OpenForHangoverHolds == Spec => []OpenForHangover
  <1>1. IInv => OpenForHangover
    BY DEF IInv
  <1> QED
    BY <1>1, Invariant, PTL

\* Nothing goes to proximity while the clan is in a mode, unless the mode changed
\* after OnCaptureFrame had read it.
THEOREM UnifiedIsNotProximityHolds == Spec => []UnifiedIsNotProximity
  <1>1. IInv => UnifiedIsNotProximity
    BY DEF IInv, TypeOK, DecidedForProximity, UnifiedIsNotProximity
  <1> QED
    BY <1>1, Invariant, PTL
=============================================================================
