--------------------------- MODULE Commands_proofs ---------------------------
(***************************************************************************)
(* Proofs about module Commands: whatever commands are in flight, the      *)
(* world only takes steps of World, so all that is proved about World      *)
(* holds under concurrent commands too; and what outlives a player has one *)
(* cause only.                                                             *)
(***************************************************************************)
EXTENDS Commands, World_proofs

\* What an authorization establishes about the arguments of a command, and
\* nothing that happens later changes: they are the ones that were sent.
ArgumentsFit ==
  \A a \in Player :
    LET c == cmd[a] IN
    c.stage # "idle" =>
      /\ c.op \in {"promote", "mute", "grant"} => c.target \in Player
      /\ c.op = "mute" => c.target # a /\ c.arg \in Scope
      /\ c.op = "mode" => c.arg \in Mode \union {None}

Slots == cmd \in [Player -> Command] /\ raced \subseteq Player /\ ArgumentsFit

\* No connection is executing anything at the start.
LEMMA InitSlots == CInit => Slots
  BY DEF CInit, Slots, ArgumentsFit, Idle, Cmd, Command, Op

\* A command that passes its authorization is well formed.
LEMMA StartSlots ==
  ASSUME TypeOK, Slots, NEW a \in Player, NEW op \in Op, NEW t \in Player \union {None},
         NEW on \in BOOLEAN, NEW arg \in Mode \union Scope \union {None},
         op \in {"promote", "mute", "grant"} => t \in Player,
         op = "mute" => t # a /\ arg \in Scope,
         op = "mode" => arg \in Mode \union {None},
         Start(a, op, t, on, arg)
  PROVE  Slots'
  <1> DEFINE c == Cmd("authorized", op, t, on, arg, None)
  <1>1. c \in Command
    BY DEF Command, Cmd
  <1>2. cmd' = [cmd EXCEPT ![a] = c] /\ raced' = raced
    BY DEF Start
  <1>3. cmd' \in [Player -> Command]
    BY <1>1, <1>2 DEF Slots
  <1>4. ArgumentsFit'
    BY <1>2 DEF Slots, ArgumentsFit, Cmd
  <1> QED
    BY <1>2, <1>3, <1>4 DEF Slots

\* Every step of a connection's goroutine keeps its command well formed.
LEMMA GoroutineSlots ==
  ASSUME TypeOK, Slots, NEW a \in Player, Goroutine(a) PROVE Slots'
  <1>1. CASE AuthorizePromote(a)
    BY <1>1, StartSlots DEF AuthorizePromote, Op
  <1>2. CASE AuthorizeMode(a)
    BY <1>2, StartSlots DEF AuthorizeMode, Op
  <1>3. CASE AuthorizeMute(a)
    BY <1>3, StartSlots DEF AuthorizeMute, AuthzRemoteMute, Op
  <1>4. CASE AuthorizeOptOut(a)
    BY <1>4, StartSlots DEF AuthorizeOptOut, Op
  <1>5. CASE AuthorizeGrant(a)
    BY <1>5, StartSlots DEF AuthorizeGrant, Op
  <1>6. ASSUME Finish(a), raced' = raced PROVE Slots'
    <2>1. Idle \in Command
      BY DEF Idle, Cmd, Command, Op
    <2> QED
      BY <1>6, <2>1 DEF Finish, Slots, ArgumentsFit, Idle, Cmd
  <1>7. CASE Apply(a)
    BY <1>6, <1>7 DEF Apply
  <1>8. CASE Fetch(a)
    <2> DEFINE group == IF cmd[a].op = "grant" THEN CommandChannel(a)
                        ELSE IF cmd[a].op = "mute" THEN None ELSE clanOf[a]
    <2>1. group \in Clan \union Channel \union {None}
      BY DEF CommandChannel, TypeOK, CCTypeOK
    <2> DEFINE c == Cmd("fetched", cmd[a].op, cmd[a].target, cmd[a].on, cmd[a].arg, group)
    <2>2. CASE cmd' = [cmd EXCEPT ![a] = c]
      <3>1. cmd[a] \in Command /\ cmd[a].stage # "idle"
        BY <1>8 DEF Slots, Fetch
      <3>2. c \in Command
        BY <2>1, <3>1 DEF Command, Cmd
      <3>3. c.op = cmd[a].op /\ c.target = cmd[a].target /\ c.arg = cmd[a].arg
        BY DEF Cmd
      <3> HIDE DEF c
      <3> QED
        BY <1>8, <2>2, <3>1, <3>2, <3>3 DEF Fetch, Slots, ArgumentsFit
    <2>3. CASE Finish(a)
      BY <1>6, <1>8, <2>3 DEF Fetch
    <2> QED
      BY <1>8, <2>2, <2>3 DEF Fetch
  <1> QED
    BY <1>1, <1>2, <1>3, <1>4, <1>5, <1>7, <1>8 DEF Goroutine

-----------------------------------------------------------------------------
\* A method applied by a command is a method call of World with arguments it
\* allows, or changes nothing.
LEMMA ApplyIsWorldStep ==
  ASSUME TypeOK, Slots, NEW a \in Player, Apply(a)
  PROVE  Next \/ UNCHANGED worldVars
  <1> DEFINE c == cmd[a]
  <1>1. /\ c.on \in BOOLEAN
        /\ c.op \in {"promote", "mute", "grant"} => c.target \in Player
        /\ c.op = "mute" => c.target # a /\ c.arg \in Scope
        /\ c.op = "mode" => c.arg \in Mode \union {None}
    BY DEF Apply, Slots, ArgumentsFit, Command
  <1> HIDE DEF c
  <1>2. CASE c.op = "promote" /\ SetSubLeader(c.group, c.target, c.on)
    <2>1. c.group \in Clan
      BY <1>2 DEF SetSubLeader, TypeOK
    <2> QED
      BY <1>1, <1>2, <2>1 DEF Next, ClanStep
  <1>3. CASE c.op = "mode" /\ SetClanMode(c.group, c.arg, a)
    <2>1. c.group \in Clan
      BY <1>3 DEF SetClanMode, TypeOK
    <2> QED
      BY <1>1, <1>3, <2>1 DEF Next, ClanStep
  <1>4. CASE c.op = "mute" /\ AddRemoteMute(a, c.target, c.arg)
    BY <1>1, <1>4 DEF Next, MuteStep
  <1>5. CASE c.op = "mute" /\ ClearRemoteMute(a, c.target)
    BY <1>1, <1>5 DEF Next, MuteStep
  <1>6. CASE c.op = "optout" /\ SetClanOptOut(c.group, c.on)
    <2>1. c.group \in Clan
      BY <1>6 DEF SetClanOptOut, TypeOK
    <2> QED
      BY <1>1, <1>6, <2>1 DEF Next, ClanStep
  <1>7. CASE /\ c.op = "grant"
             /\ SetCCSpeakPermission(c.group, c.target, c.on)
             /\ UNCHANGED <<playerVars, clanVars, mutes>>
    <2>1. c.group \in Channel
      BY <1>7 DEF SetCCSpeakPermission, TypeOK, CCTypeOK
    <2> QED
      BY <1>1, <1>7, <2>1 DEF Next, ChannelStep
  <1> QED
    BY <1>2, <1>3, <1>4, <1>5, <1>6, <1>7 DEF Apply, c

\* Every step of the server is a step of World, or leaves the world alone.
LEMMA StepIsWorldStep ==
  ASSUME TypeOK, Slots, [CNext]_vars PROVE [Next]_worldVars
  <1>1. ASSUME NEW a \in Player, Goroutine(a) PROVE [Next]_worldVars
    <2>1. CASE Apply(a)
      BY <2>1, ApplyIsWorldStep
    <2>2. CASE ~Apply(a)
      BY <1>1, <2>2 DEF Goroutine, AuthorizePromote, AuthorizeMode, AuthorizeMute,
         AuthorizeOptOut, AuthorizeGrant, Start, Fetch
    <2> QED
      BY <2>1, <2>2
  <1>2. ASSUME NEW p \in Player, PlayerChange(p) \/ PlayerLogout(p) PROVE [Next]_worldVars
    BY <1>2 DEF PlayerChange, PlayerLogout, Next, PlayerStep
  <1>3. CASE ClanLeaderChange
    BY <1>3 DEF ClanLeaderChange, Next, ClanStep
  <1>4. CASE CCChange
    BY <1>4 DEF CCChange, Next, ChannelStep
  <1>5. CASE UNCHANGED vars
    BY <1>5 DEF vars
  <1> QED
    BY <1>1, <1>2, <1>3, <1>4, <1>5 DEF CNext

\* The other steps leave every command as it is.
LEMMA StepSlots ==
  ASSUME TypeOK, Slots, [CNext]_vars PROVE Slots'
  <1>1. ASSUME NEW a \in Player, Goroutine(a) PROVE Slots'
    BY <1>1, GoroutineSlots
  <1>2. ASSUME cmd' = cmd, raced' \subseteq Player PROVE Slots'
    BY <1>2 DEF Slots, ArgumentsFit
  <1>3. ASSUME NEW p \in Player, PlayerChange(p) \/ PlayerLogout(p) PROVE Slots'
    BY <1>2, <1>3 DEF PlayerChange, PlayerLogout, Slots
  <1>4. CASE ClanLeaderChange \/ CCChange \/ UNCHANGED vars
    BY <1>2, <1>4 DEF ClanLeaderChange, CCChange, vars, Slots
  <1> QED
    BY <1>1, <1>3, <1>4 DEF CNext

\* The world keeps its types in every step World allows.
LEMMA WorldStepType == ASSUME TypeOK, [Next]_worldVars PROVE TypeOK'
  BY PlayerStepType, ClanStepType, MuteStepType, ChannelStepType, StutterType DEF Next

\* Types of the world and of the commands in flight.
THEOREM CommandsTypeCorrect == CSpec => [](CommandsTypeOK /\ ArgumentsFit)
  <1>1. CInit => TypeOK /\ Slots
    BY InitType, InitSlots DEF CInit
  <1>2. TypeOK /\ Slots /\ [CNext]_vars => TypeOK' /\ Slots'
    BY StepIsWorldStep, StepSlots, WorldStepType
  <1>3. TypeOK /\ Slots => CommandsTypeOK /\ ArgumentsFit
    BY DEF Slots, CommandsTypeOK
  <1> QED
    BY <1>1, <1>2, <1>3, PTL DEF CSpec

\* The server with its commands in flight implements World: a command whose
\* authorization, reads and effect are spread over three acquisitions of the
\* lock still only ever performs a method call World allows.
THEOREM CommandsImplementWorld == CSpec => Spec
  <1>1. CInit => Init
    BY DEF CInit
  <1>2. CommandsTypeOK /\ ArgumentsFit /\ [CNext]_vars => [Next]_worldVars
    BY StepIsWorldStep DEF CommandsTypeOK, Slots
  <1> QED
    BY <1>1, <1>2, CommandsTypeCorrect, PTL DEF CSpec, Spec

\* So what is proved of World stays true while commands are in flight, however
\* their stages interleave with events and with one another: the party index,
\* the owners of clan modes, one mute for a pair, routing by the matrix, and a
\* logout that takes all of the player's entries with it.
COROLLARY CommandsKeepWorld ==
  CSpec => /\ [](PartyIndex /\ ModeOwned /\ OneMutePerPair /\ RouteFollowsMatrix)
           /\ RemovalPurges
  BY CommandsImplementWorld, PartyIndexHolds, ModeOwnedHolds, OneMutePerPairHolds,
     RouteFollowsMatrixHolds, RemovalPurgesHolds, PTL

-----------------------------------------------------------------------------
\* The players a command of a clan names were online when it was authorized;
\* one who is not any more was removed while the command was in flight.
NamedPresent ==
  \A a \in Player :
    LET c == cmd[a] IN
    c.stage # "idle" /\ c.op # "grant" =>
      /\ a \in online \union raced
      /\ c.op \in {"promote", "mute"} => c.target \in online \union raced

\* A command is in flight only once its authorization has found the players
\* online.
LEMMA GoroutinePresent ==
  ASSUME TypeOK, Slots, NamedPresent, NEW a \in Player, Goroutine(a)
  PROVE  NamedPresent'
  <1>1. ASSUME NEW op \in Op, NEW t, NEW on, NEW arg, Start(a, op, t, on, arg),
               op # "grant" => a \in online,
               op \in {"promote", "mute"} => t \in online
        PROVE  NamedPresent'
    BY <1>1 DEF Start, Cmd, NamedPresent, Slots, worldVars, playerVars
  <1>2. CASE AuthorizePromote(a)
    BY <1>1, <1>2 DEF AuthorizePromote, AuthzPromoteSubLeader, Op
  <1>3. CASE AuthorizeMode(a)
    BY <1>1, <1>3 DEF AuthorizeMode, AuthzLeaderOrSub, Op
  <1>4. CASE AuthorizeMute(a)
    BY <1>1, <1>4 DEF AuthorizeMute, AuthzRemoteMute, AuthzLeaderOrSub, Op
  <1>5. CASE AuthorizeOptOut(a)
    BY <1>1, <1>5 DEF AuthorizeOptOut, AuthzLeaderOrSub, Op
  <1>6. CASE AuthorizeGrant(a)
    BY <1>1, <1>6 DEF AuthorizeGrant, Op
  <1>7. CASE Fetch(a)
    <2>1. UNCHANGED <<online, raced>> /\ cmd[a].stage # "idle"
      BY <1>7 DEF Fetch, worldVars, playerVars
    <2>2. PICK group : \/ cmd' = [cmd EXCEPT ![a] = Cmd("fetched", cmd[a].op,
                              cmd[a].target, cmd[a].on, cmd[a].arg, group)]
                       \/ cmd' = [cmd EXCEPT ![a] = Idle]
      BY <1>7 DEF Fetch, Finish
    <2> QED
      BY <2>1, <2>2 DEF NamedPresent, Slots, Cmd, Idle
  <1>8. CASE Apply(a)
    <2>1. online' = online
      BY <1>8 DEF Apply, SetSubLeader, SetClanMode, AddRemoteMute, ClearRemoteMute,
                  SetClanOptOut, worldVars, playerVars
    <2>2. cmd' = [cmd EXCEPT ![a] = Idle] /\ raced' = raced
      BY <1>8 DEF Apply, Finish
    <2> QED
      BY <2>1, <2>2 DEF NamedPresent, Slots, Cmd, Idle
  <1> QED
    BY <1>2, <1>3, <1>4, <1>5, <1>6, <1>7, <1>8 DEF Goroutine

\* What a command leaves behind belongs to the players it names.
LEMMA GoroutineGhost ==
  ASSUME TypeOK, Slots, NamedPresent, GhostNeedsRace, NEW a \in Player, Goroutine(a)
  PROVE  GhostNeedsRace'
  <1>1. CASE Apply(a)
    <2>1. /\ cmd[a].stage # "idle" /\ raced' = raced
          /\ cmd[a].op # "grant" => a \in online \union raced
          /\ cmd[a].op \in {"promote", "mute"} => cmd[a].target \in online \union raced
      BY <1>1 DEF Apply, NamedPresent
    <2>2. CASE cmd[a].op = "promote" /\ SetSubLeader(cmd[a].group, cmd[a].target, cmd[a].on)
      BY <2>1, <2>2 DEF SetSubLeader, GhostNeedsRace, TypeOK, playerVars
    <2>3. CASE cmd[a].op = "mode" /\ SetClanMode(cmd[a].group, cmd[a].arg, a)
      BY <2>1, <2>3, ChannelAssumption DEF SetClanMode, GhostNeedsRace, TypeOK, playerVars
    <2>4. CASE cmd[a].op = "mute" /\ AddRemoteMute(a, cmd[a].target, cmd[a].arg)
      BY <2>1, <2>4 DEF AddRemoteMute, WithoutPair, GhostNeedsRace, playerVars, clanVars
    <2>5. CASE cmd[a].op = "mute" /\ ClearRemoteMute(a, cmd[a].target)
      BY <2>1, <2>5 DEF ClearRemoteMute, WithoutPair, GhostNeedsRace, playerVars, clanVars
    <2>6. CASE UNCHANGED <<online, subLeaders, modeSetBy, mutes>>
      BY <2>1, <2>6 DEF GhostNeedsRace
    <2> QED
      BY <1>1, <2>2, <2>3, <2>4, <2>5, <2>6
      DEF Apply, SetClanOptOut, worldVars, playerVars, clanVars
  <1>2. CASE ~Apply(a)
    <2>1. UNCHANGED <<online, subLeaders, modeSetBy, mutes, raced>>
      BY <1>2 DEF Goroutine, AuthorizePromote, AuthorizeMode, AuthorizeMute,
         AuthorizeOptOut, AuthorizeGrant, Start, Fetch, worldVars, playerVars, clanVars
    <2> QED
      BY <2>1 DEF GhostNeedsRace
  <1> QED
    BY <1>1, <1>2

\* A logout purges the player, and is recorded when a command names it.
LEMMA LogoutGhost ==
  ASSUME TypeOK, Slots, NamedPresent, GhostNeedsRace, NEW p \in Player, PlayerLogout(p)
  PROVE  NamedPresent' /\ GhostNeedsRace'
  <1>1. /\ online' = online \ {p} /\ cmd' = cmd
        /\ raced' = IF InFlight(p) THEN raced \union {p} ELSE raced \ {p}
    BY DEF PlayerLogout, RemovePlayer, ForgetRecord
  <1>2. NamedPresent'
    <2>1. CASE InFlight(p)
      BY <1>1, <2>1 DEF NamedPresent
    <2>2. CASE ~InFlight(p)
      BY <1>1, <2>2 DEF NamedPresent, InFlight
    <2> QED
      BY <2>1, <2>2
  <1>3. /\ \A c \in Clan : subLeaders'[c] = subLeaders[c] \ {p}
        /\ \A c \in Clan : modeSetBy'[c] # p
        /\ \A c \in Clan : modeSetBy'[c] \in {modeSetBy[c], None}
        /\ mutes' = {m \in mutes : p \notin {m.muter, m.target}}
    BY ChannelAssumption DEF PlayerLogout, RemovePlayer, ForgetSubLeader, ForgetModes, ForgetMutes
  <1>4. ASSUME NEW q \in Player \ online', q \notin raced'
        PROVE  /\ \A c \in Clan : q \notin subLeaders'[c] /\ modeSetBy'[c] # q
               /\ \A m \in mutes' : q \notin {m.muter, m.target}
    <2>1. CASE q = p
      BY <1>3, <2>1
    <2>2. CASE q # p
      <3>1. q \in Player \ online /\ q \notin raced
        BY <1>1, <1>4, <2>2
      <3> QED
        BY <1>3, <3>1, ChannelAssumption DEF GhostNeedsRace
    <2> QED
      BY <2>1, <2>2
  <1>5. GhostNeedsRace'
    BY <1>4 DEF GhostNeedsRace
  <1> QED
    BY <1>2, <1>5

\* Nothing of a player outlives its logout unless the logout fell between the
\* authorization and the effect of a command that names the player.
THEOREM GhostNeedsRaceHolds == CSpec => []GhostNeedsRace
  <1> DEFINE Inv == NamedPresent /\ GhostNeedsRace
  <1>1. CInit => Inv
    BY ChannelAssumption DEF CInit, Init, NamedPresent, GhostNeedsRace, Idle, Cmd
  <1>2. CommandsTypeOK /\ ArgumentsFit /\ Inv /\ [CNext]_vars => Inv'
    <2> SUFFICES ASSUME TypeOK, Slots, NamedPresent, GhostNeedsRace, [CNext]_vars
                 PROVE  Inv'
      BY DEF CommandsTypeOK, Slots
    <2>1. ASSUME NEW a \in Player, Goroutine(a) PROVE Inv'
      BY <2>1, GoroutinePresent, GoroutineGhost
    <2>2. ASSUME NEW p \in Player, PlayerLogout(p) PROVE Inv'
      BY <2>2, LogoutGhost
    <2>3. CASE /\ online \subseteq online'
               /\ UNCHANGED <<subLeaders, modeSetBy, mutes, cmd, raced>>
      BY <2>3 DEF NamedPresent, GhostNeedsRace
    <2>4. ASSUME NEW p \in Player, PlayerChange(p) PROVE Inv'
      BY <2>3, <2>4 DEF PlayerChange, UpsertPlayer, clanVars
    <2>5. CASE ClanLeaderChange \/ CCChange \/ UNCHANGED vars
      BY <2>3, <2>5 DEF ClanLeaderChange, UpsertClan, CCChange, vars, worldVars,
                        playerVars, clanVars
    <2> QED
      BY <2>1, <2>2, <2>4, <2>5 DEF CNext
  <1> QED
    BY <1>1, <1>2, CommandsTypeCorrect, PTL DEF CSpec
=============================================================================
