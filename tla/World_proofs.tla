---------------------------- MODULE World_proofs ----------------------------
(***************************************************************************)
(* Proofs about World, and about Router, which reads it: for any sets of   *)
(* players, parties, clans, alliances, channels, modes and scopes, any     *)
(* preferences, and member lists of any length.                            *)
(***************************************************************************)
EXTENDS Router, SequenceTheorems, TLAPS

\* The filter loop of RemovePlayer takes the id out of a list of distinct ids,
\* and nothing else: what is left is again a list of distinct ids.
LEMMA WithoutType ==
  ASSUME NEW S, NEW s \in Seq(S), IsInjective(s), NEW e
  PROVE  /\ Without(s, e) \in Seq(S) /\ IsInjective(Without(s, e))
         /\ ToSet(Without(s, e)) = ToSet(s) \ {e}
<1>1. CASE e \notin ToSet(s)
  BY <1>1 DEF Without
<1>2. CASE e \in ToSet(s)
  <2> DEFINE k == CHOOSE i \in DOMAIN s : s[i] = e
             t == RemoveAt(s, k)
             a == SubSeq(s, 1, k - 1)
             b == SubSeq(s, k + 1, Len(s))
  <2>1. k \in 1..Len(s)
    BY <1>2 DEF ToSet
  <2> HIDE DEF k
  <2>2. a \in Seq(S) /\ Len(a) = k - 1 /\ \A i \in 1..k - 1 : a[i] = s[i]
    BY <2>1
  <2>3. /\ b \in Seq(S) /\ Len(b) = Len(s) - k
        /\ \A i \in 1..Len(s) - k : b[i] = s[i + k]
    BY <2>1
  <2>4. t = a \o b
    BY DEF RemoveAt
  <2> HIDE DEF t, a, b
  <2>5. /\ t \in Seq(S)
        /\ Len(t) = Len(s) - 1
        /\ \A i \in 1..Len(t) : t[i] = IF i < k THEN s[i] ELSE s[i + 1]
    <3>1. /\ t \in Seq(S)
          /\ Len(t) = Len(a) + Len(b)
          /\ \A i \in 1..Len(a) + Len(b) :
               t[i] = IF i <= Len(a) THEN a[i] ELSE b[i - Len(a)]
      BY <2>2, <2>3, <2>4, ConcatProperties
    <3>2. Len(t) = Len(s) - 1
      BY <3>1, <2>1, <2>2, <2>3
    <3>3. ASSUME NEW i \in 1..Len(t)
          PROVE  t[i] = IF i < k THEN s[i] ELSE s[i + 1]
      <4>1. CASE i < k
        BY <4>1, <3>1, <3>2, <2>1, <2>2
      <4>2. CASE ~(i < k)
        <5>1. i - (k - 1) \in 1..Len(s) - k /\ t[i] = b[i - (k - 1)]
          BY <4>2, <3>1, <3>2, <2>1, <2>2, <2>3
        <5>2. b[i - (k - 1)] = s[i - (k - 1) + k]
          BY <5>1, <2>3
        <5> QED
          BY <5>1, <5>2, <4>2, <2>1
      <4> QED
        BY <4>1, <4>2
    <3> QED
      BY <3>1, <3>2, <3>3
  <2>6. DOMAIN t = 1..Len(t) /\ DOMAIN s = 1..Len(s)
    BY <2>5
  <2>7. IsInjective(t)
    BY <2>1, <2>5, <2>6, SMTT(30) DEF IsInjective
  <2>8. k \in 1..Len(s) /\ s[k] = e
    BY <1>2 DEF ToSet, k
  <2>9. ToSet(t) = ToSet(s) \ {e}
    <3>1. ASSUME NEW i \in 1..Len(t)
          PROVE  t[i] \in ToSet(s) \ {e}
      <4>1. PICK j \in 1..Len(s) : t[i] = s[j] /\ j # k
        BY <2>5, <2>8
      <4> QED
        BY <2>6, <2>8, <4>1 DEF IsInjective, ToSet
    <3>2. ASSUME NEW j \in 1..Len(s), s[j] # e
          PROVE  s[j] \in ToSet(t)
      <4>1. j # k
        BY <2>8, <3>2
      <4>2. CASE j < k
        <5>1. j \in 1..Len(t) /\ t[j] = s[j]
          BY <2>5, <2>8, <4>2
        <5> QED
          BY <2>6, <5>1 DEF ToSet
      <4>3. CASE j > k
        <5>1. j - 1 \in 1..Len(t) /\ t[j - 1] = s[j]
          BY <2>5, <2>8, <4>3
        <5> QED
          BY <2>6, <5>1 DEF ToSet
      <4> QED
        BY <2>8, <4>1, <4>2, <4>3
    <3> QED
      BY <2>6, <3>1, <3>2 DEF ToSet
  <2> QED
    BY <1>2, <2>5, <2>7, <2>9 DEF Without, k, t
<1> QED
  BY <1>1, <1>2

\* A member list a channel can be given is a list of distinct ids.
LEMMA RosterType ==
  ASSUME NEW s \in Roster
  PROVE  s \in Seq(Player) /\ IsInjective(s)
<1>1. PICK n \in 0..MaxRoster : s \in [1..n -> Player] /\ IsInjective(s)
  BY DEF Roster
<1> QED
  BY <1>1, WorldAssumption

\* append grows a slice to a capacity again.
LEMMA GrownCapacityType ==
  ASSUME NEW cap \in Nat, NEW n \in Nat
  PROVE  GrownCapacity(cap, n) \in Nat
BY DEF GrownCapacity, RoundUp

-----------------------------------------------------------------------------
(***************************************************************************)
(* Type correctness.                                                       *)
(***************************************************************************)
\* A new snapshot of a channel keeps the table's types.
LEMMA UpsertChannelType ==
  ASSUME CCTypeOK, NEW c \in Channel, NEW leader \in Player, NEW s \in Roster,
         UpsertCommandChannel(c, leader, s)
  PROVE  CCTypeOK'
<1>1. s \in Seq(Player) /\ IsInjective(s) /\ Len(s) \in Nat
  BY RosterType
<1>2. GrownCapacity(capacity[c], Len(s)) \in Nat
  BY <1>1, GrownCapacityType DEF CCTypeOK
<1>3. members' \in [Channel -> Seq(Player)] /\ \A d \in Channel : IsInjective(members'[d])
  BY <1>1 DEF CCTypeOK, UpsertCommandChannel
<1> QED
  BY <1>1, <1>2, <1>3 DEF CCTypeOK, UpsertCommandChannel

\* So does forgetting a channel, whoever is unmapped with it.
LEMMA ForgetType ==
  ASSUME CCTypeOK, NEW c \in Channel, NEW S \in SUBSET Player, Forget(c, S)
  PROVE  CCTypeOK'
<1>1. <<>> \in Seq(Player) /\ IsInjective(<<>>)
  BY DEF IsInjective
<1>2. members' \in [Channel -> Seq(Player)] /\ \A d \in Channel : IsInjective(members'[d])
  BY <1>1 DEF CCTypeOK, Forget
<1> QED
  BY <1>2 DEF CCTypeOK, Forget

\* The ids of a list are of the list's kind.
LEMMA ToSetType ==
  ASSUME NEW S, NEW s \in Seq(S)
  PROVE  ToSet(s) \subseteq S
BY DEF ToSet

\* The four ways a logout leaves its channel keep the table's types.
LEMMA RemoveFromChannelType ==
  ASSUME CCTypeOK, NEW p \in Player, RemoveFromChannel(p)
  PROVE  CCTypeOK'
<1>1. CASE LeaveUnmapped(p)
  BY <1>1 DEF CCTypeOK, LeaveUnmapped, ccVars
<1>2. CASE LeaveDangling(p)
  BY <1>2 DEF CCTypeOK, LeaveDangling
<1>3. CASE LeaveAsMember(p)
  <2> DEFINE c == playerCC[p]
  <2>1. c \in Channel
    BY <1>3 DEF CCTypeOK, LeaveAsMember
  <2>2. Without(members[c], p) \in Seq(Player) /\ IsInjective(Without(members[c], p))
    BY <2>1, WithoutType DEF CCTypeOK
  <2>3. /\ members' \in [Channel -> Seq(Player)]
        /\ \A d \in Channel : IsInjective(members'[d])
    BY <1>3, <2>1, <2>2 DEF CCTypeOK, LeaveAsMember
  <2> QED
    BY <1>3, <2>1, <2>3 DEF CCTypeOK, LeaveAsMember
<1>4. CASE LeaveAsLeader(p)
  <2> DEFINE c == playerCC[p]
  <2>1. c \in Channel /\ ToSet(members[c]) \union {p} \in SUBSET Player
    BY <1>4, ToSetType DEF CCTypeOK, LeaveAsLeader
  <2> QED
    BY <1>4, <2>1, ForgetType DEF LeaveAsLeader
<1> QED
  BY <1>1, <1>2, <1>3, <1>4 DEF RemoveFromChannel

\* The parts of TypeOK that a step of each kind can disturb.
\* Upserts and logouts keep the world's types.
LEMMA PlayerStepType == TypeOK /\ PlayerStep => TypeOK'
<1> SUFFICES ASSUME TypeOK, PlayerStep PROVE TypeOK'
  OBVIOUS
<1>1. ASSUME NEW p \in Player, NEW clan \in Clan \union {None},
             NEW ally \in Ally \union {None}, NEW party \in Party \union {None},
             NEW leads \in BOOLEAN, UpsertPlayer(p, clan, ally, party, leads)
      PROVE  TypeOK'
  <2>1. CCTypeOK'
    BY <1>1 DEF TypeOK, CCTypeOK, UpsertPlayer, ccVars
  <2>2. parties' \in [Party -> SUBSET Player]
    BY <1>1 DEF TypeOK, UpsertPlayer, movePartyLocked
  <2>3. \A r \in Player \ online' :
          partyOf'[r] = None /\ clanOf'[r] = None /\ allyOf'[r] = None /\ ~isLeader'[r]
    BY <1>1 DEF TypeOK, UpsertPlayer, movePartyLocked
  <2> QED
    BY <1>1, <2>1, <2>2, <2>3 DEF TypeOK, UpsertPlayer, movePartyLocked, clanVars, Mute
<1>2. ASSUME NEW p \in Player, RemovePlayer(p)
      PROVE  TypeOK'
  <2>1. CCTypeOK'
    BY <1>2, RemoveFromChannelType DEF TypeOK, RemovePlayer
  <2>2. parties' \in [Party -> SUBSET Player]
    BY <1>2 DEF TypeOK, RemovePlayer, ForgetRecord, movePartyLocked
  <2>3. \A r \in Player \ online' :
          partyOf'[r] = None /\ clanOf'[r] = None /\ allyOf'[r] = None /\ ~isLeader'[r]
    BY <1>2 DEF TypeOK, RemovePlayer, ForgetRecord, movePartyLocked
  <2> QED
    BY <1>2, <2>1, <2>2, <2>3 DEF TypeOK, RemovePlayer, ForgetRecord, ForgetSubLeader,
        ForgetModes, ForgetMutes, movePartyLocked
<1> QED
  BY <1>1, <1>2 DEF PlayerStep

\* So do the methods on clans,
LEMMA ClanStepType == TypeOK /\ ClanStep => TypeOK'
<1> SUFFICES ASSUME TypeOK, ClanStep PROVE TypeOK'
  OBVIOUS
<1>1. CCTypeOK' /\ UNCHANGED <<online, clanOf, allyOf, partyOf, isLeader, parties, mutes>>
  BY DEF TypeOK, CCTypeOK, ClanStep, UpsertClan, SetSubLeader, SetClanMode,
         SetClanOptOut, playerVars, ccVars
<1> DEFINE ClanTypes ==
      /\ clans \subseteq Clan
      /\ leaderID \in [Clan -> Player \union {None}]
      /\ subLeaders \in [Clan -> SUBSET Player]
      /\ mode \in [Clan -> Mode \union {None}]
      /\ modeSetBy \in [Clan -> Player \union {None}]
      /\ optedOut \subseteq Clan
<1>2. ClanTypes'
  <2>1. ASSUME NEW c \in Clan, NEW p \in Player, UpsertClan(c, p)  PROVE ClanTypes'
    BY <2>1 DEF TypeOK, UpsertClan
  <2>2. ASSUME NEW c \in Clan, NEW p \in Player, NEW promote \in BOOLEAN,
               SetSubLeader(c, p, promote)
        PROVE  ClanTypes'
    BY <2>2 DEF TypeOK, SetSubLeader
  <2>3. ASSUME NEW c \in Clan, NEW new \in Mode \union {None}, NEW p \in Player,
               SetClanMode(c, new, p)
        PROVE  ClanTypes'
    BY <2>3 DEF TypeOK, SetClanMode
  <2>4. ASSUME NEW c \in Clan, NEW out \in BOOLEAN, SetClanOptOut(c, out)
        PROVE  ClanTypes'
    BY <2>4 DEF TypeOK, SetClanOptOut
  <2> QED
    BY <2>1, <2>2, <2>3, <2>4 DEF ClanStep
<1> QED
  BY <1>1, <1>2 DEF TypeOK

\* on mutes,
LEMMA MuteStepType == TypeOK /\ MuteStep => TypeOK'
<1> SUFFICES ASSUME TypeOK, MuteStep PROVE TypeOK'
  OBVIOUS
<1>1. mutes' \subseteq Mute
  BY DEF TypeOK, MuteStep, AddRemoteMute, ClearRemoteMute, WithoutPair, Mute
<1>2. UNCHANGED <<playerVars, clanVars, ccVars>>
  BY DEF MuteStep, AddRemoteMute, ClearRemoteMute
<1> QED
  BY <1>1, <1>2 DEF TypeOK, CCTypeOK, playerVars, clanVars, ccVars

\* and on command channels.
LEMMA ChannelStepType == TypeOK /\ ChannelStep => TypeOK'
<1> SUFFICES ASSUME TypeOK, ChannelStep PROVE TypeOK'
  OBVIOUS
<1>1. CCTypeOK'
  <2>1. ASSUME NEW c \in Channel, NEW l \in Player, NEW s \in Roster,
               UpsertCommandChannel(c, l, s)
        PROVE  CCTypeOK'
    BY <2>1, UpsertChannelType DEF TypeOK
  <2>2. ASSUME NEW c \in Channel, DissolveCommandChannel(c)
        PROVE  CCTypeOK'
    <3>1. ToSet(members[c]) \in SUBSET Player
      BY ToSetType DEF TypeOK, CCTypeOK
    <3> QED
      BY <2>2, <3>1, ForgetType DEF TypeOK, DissolveCommandChannel
  <2>3. ASSUME NEW c \in Channel, NEW p \in Player, NEW allow \in BOOLEAN,
               SetCCSpeakPermission(c, p, allow)
        PROVE  CCTypeOK'
    BY <2>3 DEF TypeOK, CCTypeOK, SetCCSpeakPermission
  <2> QED
    BY <2>1, <2>2, <2>3 DEF ChannelStep, ChannelChange
<1>2. UNCHANGED <<playerVars, clanVars, mutes>>
  BY DEF ChannelStep
<1> QED
  BY <1>1, <1>2 DEF TypeOK, playerVars, clanVars

\* The empty world has its types.
LEMMA InitType == Init => TypeOK
<1> SUFFICES ASSUME Init PROVE TypeOK
  OBVIOUS
<1>1. <<>> \in Seq(Player) /\ IsInjective(<<>>)
  BY DEF IsInjective
<1> QED
  BY <1>1 DEF Init, CCInit, TypeOK, CCTypeOK, Mute

\* A step that changes nothing keeps them.
LEMMA StutterType == TypeOK /\ UNCHANGED worldVars => TypeOK'
BY DEF TypeOK, CCTypeOK, worldVars, playerVars, clanVars, ccVars

\* WorldState keeps its types whatever its callers do: tables stay tables of
\* their kind, member lists stay free of repetitions, and nothing is recorded
\* of a player who is not online.
THEOREM TypeCorrect == Spec => []TypeOK
<1>1. TypeOK /\ [Next]_worldVars => TypeOK'
  BY PlayerStepType, ClanStepType, MuteStepType, ChannelStepType, StutterType DEF Next
<1> QED
  BY InitType, <1>1, PTL DEF Spec

-----------------------------------------------------------------------------
(***************************************************************************)
(* Parties.                                                                *)
(***************************************************************************)
\* movePartyLocked keeps every bucket equal to the online members of its party,
\* also when the player comes online or leaves with the move.
LEMMA MoveKeepsIndex ==
  ASSUME TypeOK, PartyIndex, NEW p \in Player, NEW new \in Party \union {None},
         movePartyLocked(p, new),
         online' = online \union {p} \/ (new = None /\ online' = online \ {p})
  PROVE  PartyIndex'
<1> SUFFICES ASSUME NEW q \in Party
             PROVE  parties'[q] = {r \in online' : partyOf'[r] = q}
  BY DEF PartyIndex
<1>1. q # None
  BY WorldAssumption
<1>2. parties[q] = {r \in online : partyOf[r] = q}
  BY DEF PartyIndex
<1>3. /\ partyOf'[p] = new
      /\ \A r \in Player \ {p} : partyOf'[r] = partyOf[r]
  BY DEF movePartyLocked, TypeOK
<1>4. CASE partyOf[p] = new
  <2>1. parties'[q] = parties[q]
    BY <1>4 DEF movePartyLocked
  <2>2. p \notin online => new = None
    BY <1>4 DEF TypeOK
  <2> QED
    BY <1>1, <1>2, <1>3, <1>4, <2>1, <2>2 DEF TypeOK
<1>5. CASE partyOf[p] # new
  <2>1. parties'[q] = IF q = partyOf[p] THEN parties[q] \ {p}
                      ELSE IF q = new THEN parties[q] \union {p} ELSE parties[q]
    BY <1>5 DEF movePartyLocked
  <2>2. p \notin online => partyOf[p] = None
    BY DEF TypeOK
  <2> QED
    BY <1>1, <1>2, <1>3, <1>5, <2>1, <2>2 DEF TypeOK
<1> QED
  BY <1>4, <1>5

\* A party's bucket is exactly its online members, for any number of players
\* and parties and any order of moves, joins and logouts.
THEOREM PartyIndexHolds == Spec => []PartyIndex
<1>1. Init => PartyIndex
  BY DEF Init, PartyIndex
<1>2. TypeOK /\ PartyIndex /\ [Next]_worldVars => PartyIndex'
  <2> SUFFICES ASSUME TypeOK, PartyIndex, [Next]_worldVars PROVE PartyIndex'
    OBVIOUS
  <2>1. CASE PlayerStep
    <3>1. ASSUME NEW p \in Player, NEW clan \in Clan \union {None},
                 NEW ally \in Ally \union {None}, NEW party \in Party \union {None},
                 NEW leads \in BOOLEAN, UpsertPlayer(p, clan, ally, party, leads)
          PROVE  PartyIndex'
      BY <3>1, MoveKeepsIndex DEF UpsertPlayer
    <3>2. ASSUME NEW p \in Player, RemovePlayer(p)
          PROVE  PartyIndex'
      BY <3>2, MoveKeepsIndex DEF RemovePlayer, ForgetRecord
    <3> QED
      BY <2>1, <3>1, <3>2 DEF PlayerStep
  <2>2. CASE ClanStep \/ MuteStep \/ ChannelStep \/ UNCHANGED worldVars
    <3>1. UNCHANGED <<online, partyOf, parties>>
      BY <2>2 DEF ClanStep, UpsertClan, SetSubLeader, SetClanMode, SetClanOptOut,
                  MuteStep, AddRemoteMute, ClearRemoteMute, ChannelStep,
                  worldVars, playerVars
    <3> QED
      BY <3>1 DEF PartyIndex
  <2> QED
    BY <2>1, <2>2 DEF Next
<1> QED
  BY <1>1, <1>2, TypeCorrect, PTL DEF Spec

-----------------------------------------------------------------------------
(***************************************************************************)
(* Modes and mutes.                                                        *)
(***************************************************************************)

\* A clan has a mode exactly when the mode has an owner, whoever sets modes,
\* leaves or logs out.
THEOREM ModeOwnedHolds == Spec => []ModeOwned
<1>1. Init => ModeOwned
  BY DEF Init, ModeOwned
<1>2. TypeOK /\ ModeOwned /\ [Next]_worldVars => ModeOwned'
  <2> SUFFICES ASSUME TypeOK, ModeOwned, [Next]_worldVars PROVE ModeOwned'
    OBVIOUS
  <2>1. ASSUME NEW c \in Clan, NEW new \in Mode \union {None}, NEW p \in Player,
               SetClanMode(c, new, p)
        PROVE  ModeOwned'
    BY <2>1, ChannelAssumption DEF SetClanMode, ModeOwned, TypeOK
  <2>2. ASSUME NEW p \in Player, RemovePlayer(p)
        PROVE  ModeOwned'
    BY <2>2 DEF RemovePlayer, ForgetModes, ModeOwned, TypeOK
  <2>3. CASE UNCHANGED <<mode, modeSetBy>>
    BY <2>3 DEF ModeOwned
  <2> QED
    BY <2>1, <2>2, <2>3
    DEF Next, PlayerStep, UpsertPlayer, ClanStep, UpsertClan, SetSubLeader,
        SetClanOptOut, MuteStep, AddRemoteMute, ClearRemoteMute, ChannelStep,
        worldVars, clanVars
<1> QED
  BY <1>1, <1>2, TypeCorrect, PTL DEF Spec

\* At most one mute is in force for each muter and target.
THEOREM OneMutePerPairHolds == Spec => []OneMutePerPair
<1>1. Init => OneMutePerPair
  BY DEF Init, OneMutePerPair
<1>2. OneMutePerPair /\ [Next]_worldVars => OneMutePerPair'
  <2> SUFFICES ASSUME OneMutePerPair, [Next]_worldVars PROVE OneMutePerPair'
    OBVIOUS
  <2>1. ASSUME NEW p \in Player, NEW t \in Player, NEW s \in Scope,
               AddRemoteMute(p, t, s)
        PROVE  OneMutePerPair'
    BY <2>1 DEF AddRemoteMute, WithoutPair, OneMutePerPair
  <2>2. CASE mutes' \subseteq mutes
    BY <2>2 DEF OneMutePerPair
  <2>3. ASSUME NEW p \in Player, RemovePlayer(p)
        PROVE  mutes' \subseteq mutes
    BY <2>3 DEF RemovePlayer, ForgetMutes
  <2>4. ASSUME NEW p \in Player, NEW t \in Player, ClearRemoteMute(p, t)
        PROVE  mutes' \subseteq mutes
    BY <2>4 DEF ClearRemoteMute, WithoutPair
  <2> QED
    BY <2>1, <2>2, <2>3, <2>4
    DEF Next, PlayerStep, UpsertPlayer, ClanStep, UpsertClan, SetSubLeader,
        SetClanMode, SetClanOptOut, MuteStep, ChannelStep, worldVars
<1> QED
  BY <1>1, <1>2, PTL DEF Spec

\* A logout purges the player from the parties, the sub-leader lists, the modes
\* and the mutes, and leaves what belongs to others untouched.
THEOREM RemovalPurgesHolds == Spec => RemovalPurges
<1> DEFINE Purges ==
      \A p \in online \ online' :
        /\ \A q \in Party : parties'[q] = parties[q] \ {p}
        /\ \A c \in Clan :
             /\ subLeaders'[c] = subLeaders[c] \ {p}
             /\ modeSetBy'[c] # p
             /\ modeSetBy[c] # p => mode'[c] = mode[c]
             /\ modeSetBy[c] = p => mode'[c] = None
        /\ \A m \in mutes : m \in mutes' <=> p \notin {m.muter, m.target}
<1>1. TypeOK /\ PartyIndex /\ [Next]_worldVars => [Purges]_worldVars
  <2> SUFFICES ASSUME TypeOK, PartyIndex, Next,
                      NEW p \in online \ online'
               PROVE  Purges!(p)
    BY DEF worldVars
  <2>1. PICK r \in Player : RemovePlayer(r)
    BY DEF Next, PlayerStep, UpsertPlayer, ClanStep, UpsertClan, SetSubLeader,
           SetClanMode, SetClanOptOut, MuteStep, AddRemoteMute, ClearRemoteMute,
           ChannelStep, playerVars
  <2>2. r = p
    BY <2>1 DEF RemovePlayer, ForgetRecord
  <2>3. ASSUME NEW q \in Party PROVE parties'[q] = parties[q] \ {p}
    <3>1. q # None /\ (p \in parties[q] <=> partyOf[p] = q)
      BY WorldAssumption DEF PartyIndex, TypeOK
    <3>2. CASE partyOf[p] = None
      BY <2>1, <2>2, <3>1, <3>2 DEF RemovePlayer, ForgetRecord, movePartyLocked
    <3>3. CASE partyOf[p] # None
      BY <2>1, <2>2, <3>1, <3>3 DEF RemovePlayer, ForgetRecord, movePartyLocked
    <3> QED
      BY <3>2, <3>3
  <2>4. ASSUME NEW c \in Clan
        PROVE  /\ subLeaders'[c] = subLeaders[c] \ {p}
               /\ modeSetBy'[c] # p
               /\ modeSetBy[c] # p => mode'[c] = mode[c]
               /\ modeSetBy[c] = p => mode'[c] = None
    BY <2>1, <2>2, ChannelAssumption DEF RemovePlayer, ForgetSubLeader, ForgetModes, TypeOK
  <2>5. \A m \in mutes : m \in mutes' <=> p \notin {m.muter, m.target}
    BY <2>1, <2>2 DEF RemovePlayer, ForgetMutes
  <2> QED
    BY <2>3, <2>4, <2>5
<1> QED
  BY <1>1, TypeCorrect, PartyIndexHolds, PTL DEF Spec, RemovalPurges
-----------------------------------------------------------------------------
(***************************************************************************)
(* Command channels.                                                       *)
(***************************************************************************)
\* No player is on the lists of two channels at once.  In L2J a party, and so a
\* player, is in one command channel at a time; snapshots are sent player by
\* player, though, so while a party moves from one channel to another both may
\* list it until the next snapshot of the one it left.  Then playerCC can name
\* one of them only.
DisjointLists ==
  \A c, d \in channels : c # d => ToSet(members[c]) \intersect ToSet(members[d]) = {}

\* Every id on a channel's list is indexed to the channel.
Indexed == \A c \in channels : \A p \in ToSet(members[c]) : playerCC[p] = c

\* A leader who is indexed to its channel may speak there, so the index is all
\* there is to show.
LEMMA IndexedIsEnough == TypeOK => (Indexed <=> MembersIndexed)
<1> SUFFICES ASSUME TypeOK, Indexed PROVE MembersIndexed
  BY DEF Indexed, MembersIndexed
<1> SUFFICES ASSUME NEW c \in channels, NEW p \in ToSet(members[c])
             PROVE  playerCC[p] = c /\ (p = ccLeader[c] => CCSpeakAllowed(p))
  BY DEF MembersIndexed
<1>1. playerCC[p] = c /\ c # None
  BY ChannelAssumption DEF Indexed, TypeOK, CCTypeOK
<1> QED
  BY <1>1 DEF CCSpeakAllowed, CommandChannel

\* A snapshot of one channel indexes its own list, and unmaps nobody who is on
\* the list of another.
LEMMA UpsertKeepsIndex ==
  ASSUME TypeOK, Indexed, NEW c \in Channel, NEW l \in Player, NEW s \in Roster,
         UpsertCommandChannel(c, l, s), DisjointLists'
  PROVE  Indexed'
<1> SUFFICES ASSUME NEW d \in channels', NEW p \in ToSet(members'[d])
             PROVE  playerCC'[p] = d
  BY DEF Indexed
<1>1. /\ channels' = channels \union {c} /\ d \in Channel
      /\ members'[c] = s /\ \A e \in Channel \ {c} : members'[e] = members[e]
  BY DEF UpsertCommandChannel, TypeOK, CCTypeOK
<1>2. s \in Seq(Player) /\ (d # c => members[d] \in Seq(Player))
  BY <1>1, RosterType DEF TypeOK, CCTypeOK
<1>3. p \in Player
  BY <1>1, <1>2, ToSetType
<1>4. CASE d = c
  BY <1>1, <1>3, <1>4 DEF UpsertCommandChannel
<1>5. CASE d # c
  <2>1. playerCC[p] = d
    BY <1>1, <1>5 DEF Indexed
  <2>2. p \notin ToSet(s)
    BY <1>1, <1>5 DEF DisjointLists
  <2> QED
    BY <1>3, <1>5, <2>1, <2>2 DEF UpsertCommandChannel
<1> QED
  BY <1>4, <1>5

\* Forgetting a channel unmaps only players that are indexed to it.
LEMMA ForgetKeepsIndex ==
  ASSUME TypeOK, Indexed, NEW c \in Channel, NEW S, Forget(c, S)
  PROVE  Indexed'
<1> SUFFICES ASSUME NEW d \in channels', NEW p \in ToSet(members'[d])
             PROVE  playerCC'[p] = d
  BY DEF Indexed
<1>1. d \in channels \ {c} /\ members'[d] = members[d]
  BY DEF Forget, TypeOK, CCTypeOK
<1>2. playerCC[p] = d /\ p \in Player
  BY <1>1, ToSetType DEF Indexed, TypeOK, CCTypeOK
<1> QED
  BY <1>1, <1>2 DEF Forget

\* A logout takes the player off the list it is indexed to, which is the only
\* one it is on.
LEMMA RemoveKeepsIndex ==
  ASSUME TypeOK, Indexed, NEW p \in Player, RemoveFromChannel(p)
  PROVE  Indexed'
<1>1. CASE LeaveUnmapped(p)
  BY <1>1 DEF LeaveUnmapped, ccVars, Indexed
<1>2. CASE LeaveDangling(p)
  <2>1. ASSUME NEW d \in channels, NEW q \in ToSet(members[d])
        PROVE  playerCC'[q] = d
    <3>1. playerCC[q] = d /\ q # p
      BY <1>2 DEF LeaveDangling, Indexed
    <3> QED
      BY <1>2, <3>1 DEF LeaveDangling, TypeOK, CCTypeOK
  <2> QED
    BY <1>2, <2>1 DEF LeaveDangling, Indexed
<1>3. CASE LeaveAsMember(p)
  <2> DEFINE c == playerCC[p]
  <2>1. /\ c \in channels /\ c \in Channel /\ channels' = channels
        /\ members' = [members EXCEPT ![c] = Without(members[c], p)]
        /\ playerCC' = [playerCC EXCEPT ![p] = None]
    BY <1>3 DEF LeaveAsMember, TypeOK, CCTypeOK
  <2>2. ToSet(Without(members[c], p)) = ToSet(members[c]) \ {p}
    BY <2>1, WithoutType DEF TypeOK, CCTypeOK
  <2>3. ASSUME NEW d \in channels, NEW q \in ToSet(members'[d])
        PROVE  playerCC'[q] = d
    <3>1. q \in ToSet(members[d]) /\ (d = c => q # p)
      BY <2>1, <2>2 DEF TypeOK, CCTypeOK
    <3>2. playerCC[q] = d /\ q # p
      BY <3>1 DEF Indexed
    <3> QED
      BY <2>1, <3>2 DEF TypeOK, CCTypeOK
  <2> QED
    BY <2>1, <2>3 DEF Indexed
<1>4. CASE LeaveAsLeader(p)
  BY <1>4, ForgetKeepsIndex DEF LeaveAsLeader, TypeOK, CCTypeOK
<1> QED
  BY <1>1, <1>2, <1>3, <1>4 DEF RemoveFromChannel

\* In a world of any number of channels, as long as no player is listed by two
\* of them, every id on a list is indexed to the list's channel, and a leader
\* on its own list may speak: in-place filtering, appends and dissolution keep
\* list and index in step.
THEOREM MembersIndexedHolds == Spec /\ []DisjointLists => []MembersIndexed
<1>1. Init => Indexed
  BY DEF Init, CCInit, Indexed
<1>2. TypeOK /\ Indexed /\ DisjointLists' /\ [Next]_worldVars => Indexed'
  <2> SUFFICES ASSUME TypeOK, Indexed, DisjointLists', [Next]_worldVars PROVE Indexed'
    OBVIOUS
  <2>1. ASSUME NEW p \in Player, RemovePlayer(p)
        PROVE  Indexed'
    BY <2>1, RemoveKeepsIndex DEF RemovePlayer
  <2>2. ASSUME NEW c \in Channel, NEW l \in Player, NEW s \in Roster,
               UpsertCommandChannel(c, l, s)
        PROVE  Indexed'
    BY <2>2, UpsertKeepsIndex
  <2>3. ASSUME NEW c \in Channel, DissolveCommandChannel(c)
        PROVE  Indexed'
    BY <2>3, ForgetKeepsIndex DEF DissolveCommandChannel
  <2>4. CASE UNCHANGED <<channels, members, playerCC>>
    BY <2>4 DEF Indexed
  <2> QED
    BY <2>1, <2>2, <2>3, <2>4
    DEF Next, PlayerStep, UpsertPlayer, ClanStep, UpsertClan, SetSubLeader, SetClanMode,
        SetClanOptOut, MuteStep, AddRemoteMute, ClearRemoteMute, ChannelStep, ChannelChange,
        SetCCSpeakPermission, worldVars, ccVars
<1>3. TypeOK /\ Indexed => MembersIndexed
  BY IndexedIsEnough
<1> QED
  BY <1>1, <1>2, <1>3, TypeCorrect, PTL DEF Spec

\* With one channel there are no two lists: the index is right whatever comes.
COROLLARY OneChannelIndexed ==
  ASSUME \A c, d \in Channel : c = d
  PROVE  Spec => []MembersIndexed
<1>1. TypeOK => DisjointLists
  BY DEF TypeOK, CCTypeOK, DisjointLists
<1> QED
  BY <1>1, TypeCorrect, MembersIndexedHolds, PTL

-----------------------------------------------------------------------------
(***************************************************************************)
(* What UpsertCommandChannel loses by overwriting the array it compares    *)
(* with: only ids that stood where the new list was written.               *)
(***************************************************************************)
\* The new list does not fit in the array, or whoever stood where it is written
\* is on it again: all who leave stood behind its end.
NothingOverwritten(c, s) ==
  \/ Len(s) > capacity[c]
  \/ \A i \in 1..Len(s) : i <= Len(members[c]) => members[c][i] \in ToSet(s)

LosesNobody ==
  \A c \in Channel, l \in Player, s \in Roster :
    UpsertCommandChannel(c, l, s) => NothingOverwritten(c, s)

\* Permissions of a channel are permissions of its members.
SpeakListed == \A c \in Channel : speak[c] \subseteq ToSet(members[c])

\* Everyone who leaves is then seen to leave.
LEMMA AllDeparted ==
  ASSUME TypeOK, NEW c \in Channel, NEW s \in Roster, NothingOverwritten(c, s)
  PROVE  ToSet(members[c]) \ ToSet(s) \subseteq Departed(c, s)
<1> DEFINE old == members[c]
           shown == ShownAfterAppend(old, capacity[c], s)
<1>1. old \in Seq(Player) /\ s \in Seq(Player) /\ capacity[c] \in Nat
  BY RosterType DEF TypeOK, CCTypeOK
<1> SUFFICES ASSUME NEW i \in DOMAIN old, old[i] \notin ToSet(s)
             PROVE  old[i] \in ToSet(shown)
  BY DEF Departed, ToSet
<1>2. CASE Len(s) > capacity[c]
  BY <1>1, <1>2 DEF ShownAfterAppend, ToSet
<1>3. CASE ~(Len(s) > capacity[c])
  <2>1. i \in Nat /\ ~(i <= Len(s))
    BY <1>1, <1>3 DEF NothingOverwritten
  <2>2. shown = [j \in DOMAIN old |-> IF j <= Len(s) THEN s[j] ELSE old[j]]
    BY <1>1, <1>3 DEF ShownAfterAppend
  <2> QED
    BY <2>1, <2>2 DEF ToSet
<1> QED
  BY <1>2, <1>3

\* A logout takes the permission away with the place on the list.
LEMMA RemoveKeepsListed ==
  ASSUME TypeOK, SpeakListed, NEW p \in Player, RemoveFromChannel(p)
  PROVE  SpeakListed'
<1>1. CASE LeaveUnmapped(p) \/ LeaveDangling(p)
  BY <1>1 DEF LeaveUnmapped, LeaveDangling, ccVars, SpeakListed
<1>2. CASE LeaveAsMember(p)
  <2> DEFINE c == playerCC[p]
  <2>1. /\ c \in Channel
        /\ members' = [members EXCEPT ![c] = Without(members[c], p)]
        /\ speak' = [speak EXCEPT ![c] = speak[c] \ {p}]
    BY <1>2 DEF LeaveAsMember, TypeOK, CCTypeOK
  <2>2. ToSet(Without(members[c], p)) = ToSet(members[c]) \ {p}
    BY <2>1, WithoutType DEF TypeOK, CCTypeOK
  <2> QED
    BY <2>1, <2>2 DEF SpeakListed, TypeOK, CCTypeOK
<1>3. CASE LeaveAsLeader(p)
  BY <1>3 DEF LeaveAsLeader, Forget, SpeakListed, TypeOK, CCTypeOK
<1> QED
  BY <1>1, <1>2, <1>3 DEF RemoveFromChannel

\* What the comment on UpsertCommandChannel says (SpeakersAreMembers) is true
\* as long as no new list is written over a member who leaves: a departure from
\* the end of the list, or a list that outgrows its array, keeps the promise,
\* and a logout, a dissolution or a permission never breaks it.  The run
\* WorldAliasing shows the one way it is broken.
THEOREM OnlyOverwritingLosesDepartures ==
  Spec /\ [][LosesNobody]_worldVars => []SpeakersAreMembers
<1>1. Init => SpeakListed
  BY DEF Init, CCInit, SpeakListed
<1>2. TypeOK /\ SpeakListed /\ [Next]_worldVars /\ [LosesNobody]_worldVars => SpeakListed'
  <2> SUFFICES ASSUME TypeOK, SpeakListed, [Next]_worldVars, [LosesNobody]_worldVars
               PROVE  SpeakListed'
    OBVIOUS
  <2>1. ASSUME NEW p \in Player, RemovePlayer(p)
        PROVE  SpeakListed'
    BY <2>1, RemoveKeepsListed DEF RemovePlayer
  <2>2. ASSUME NEW c \in Channel, NEW l \in Player, NEW s \in Roster,
               UpsertCommandChannel(c, l, s)
        PROVE  SpeakListed'
    <3>1. CASE UNCHANGED worldVars
      BY <3>1 DEF worldVars, ccVars, SpeakListed
    <3>2. CASE LosesNobody
      <4>1. ToSet(members[c]) \ ToSet(s) \subseteq Departed(c, s)
        BY <2>2, <3>2, AllDeparted DEF LosesNobody
      <4>2. /\ members' = [members EXCEPT ![c] = s]
            /\ speak' = [speak EXCEPT ![c] = speak[c] \ Departed(c, s)]
        BY <2>2 DEF UpsertCommandChannel
      <4> QED
        BY <4>1, <4>2 DEF SpeakListed, TypeOK, CCTypeOK
    <3> QED
      BY <3>1, <3>2
  <2>3. ASSUME NEW c \in Channel, DissolveCommandChannel(c)
        PROVE  SpeakListed'
    BY <2>3 DEF DissolveCommandChannel, Forget, SpeakListed, TypeOK, CCTypeOK
  <2>4. ASSUME NEW c \in Channel, NEW p \in Player, NEW allow \in BOOLEAN,
               SetCCSpeakPermission(c, p, allow)
        PROVE  SpeakListed'
    BY <2>4 DEF SetCCSpeakPermission, SpeakListed, TypeOK, CCTypeOK
  <2>5. CASE UNCHANGED <<members, speak>>
    BY <2>5 DEF SpeakListed
  <2> QED
    BY <2>1, <2>2, <2>3, <2>4, <2>5
    DEF Next, PlayerStep, UpsertPlayer, ClanStep, UpsertClan, SetSubLeader, SetClanMode,
        SetClanOptOut, MuteStep, AddRemoteMute, ClearRemoteMute, ChannelStep, ChannelChange,
        worldVars, ccVars
<1>3. TypeOK /\ SpeakListed => SpeakersAreMembers
  BY DEF TypeOK, CCTypeOK, SpeakListed, SpeakersAreMembers, CCSpeakAllowed, CommandChannel
<1> QED
  BY <1>1, <1>2, <1>3, TypeCorrect, PTL DEF Spec

-----------------------------------------------------------------------------
(***************************************************************************)
(* Route decides what the routing matrix allows, in every state WorldState *)
(* can be in.                                                              *)
(***************************************************************************)
\* The record a decision is, from its parts.
LEMMA DecisionParts ==
  ASSUME NEW d \in Decision,
         NEW r, NEW e, NEW f, d.to = r, d.egress = e, d.force = f
  PROVE  d = [to |-> r, egress |-> e, force |-> f]
  BY DEF Decision

-----------------------------------------------------------------------------
\* The decisions each loop of Route yields: one per listener it does not skip.

Hears(d, s, prefs) ==
  d \in Decision /\ d.to \in online \ {s} /\ ~Mutes(prefs, d.to, s)

PartyDecision(d, s, prefs) ==
  /\ Hears(d, s, prefs)
  /\ d.egress = "party" /\ d.force = FALSE
  /\ SameParty(s, d.to) /\ Enabled(prefs, d.to, "party")

ClanOrAllyDecision(d, s, audience, override, ch, prefs) ==
  /\ Hears(d, s, prefs)
  /\ d.to \in audience
  /\ d.egress = ch
  /\ override \/ Enabled(prefs, d.to, ch)
  /\ d.force = (override /\ ~Enabled(prefs, d.to, ch))

ModeDecision(d, s, prefs) ==
  /\ Hears(d, s, prefs)
  /\ d.egress = "mode" /\ d.force = TRUE
  /\ SameClan(s, d.to) \/ SameAlly(s, d.to)

ChannelDecision(d, s, prefs) ==
  /\ Hears(d, s, prefs)
  /\ d.egress = "cc" /\ d.force = TRUE
  /\ d.to \in ChannelMembers(s)

\* routeParty goes to the speaker's party, toggles respected.
LEMMA PartyDecisions ==
  ASSUME TypeOK, PartyIndex, NEW s \in Player, NEW prefs \in [Player -> Pref],
         NEW d
  PROVE  d \in routeParty(s, prefs) <=> PartyDecision(d, s, prefs)
<1>1. online \subseteq Player /\ partyOf[s] \in Party \union {None} /\ None \notin Party
  BY WorldAssumption DEF TypeOK
<1>2. \A r \in online : r \in PartyMembers(s) <=> SameParty(s, r)
  BY <1>1 DEF PartyMembers, SameParty, PartyIndex
<1>3. ASSUME d \in routeParty(s, prefs)
      PROVE  PartyDecision(d, s, prefs)
  <2>1. PICK r \in Listeners(s, PartyMembers(s), prefs) :
          /\ Enabled(prefs, r, "party")
          /\ d = [to |-> r, egress |-> "party", force |-> FALSE]
    BY <1>3 DEF routeParty
  <2>2. d.to = r /\ d.egress = "party" /\ d.force = FALSE
    BY <2>1
  <2>3. d \in Decision
    BY <1>1, <2>1 DEF Decision, Toggle, Listeners
  <2> QED
    BY <1>1, <1>2, <2>1, <2>2, <2>3 DEF Listeners, PartyDecision, Hears
<1>4. ASSUME PartyDecision(d, s, prefs)
      PROVE  d \in routeParty(s, prefs)
  <2>1. d = [to |-> d.to, egress |-> "party", force |-> FALSE]
    BY <1>4, DecisionParts DEF PartyDecision, Hears
  <2> QED
    BY <1>2, <1>4, <2>1 DEF routeParty, Listeners, PartyDecision, Hears
<1> QED
  BY <1>3, <1>4

\* routeClanOrAlly goes to its audience; the override forces those who turned
\* the channel off, and nobody else.
LEMMA ClanOrAllyDecisions ==
  ASSUME TypeOK, NEW s \in Player, NEW audience, NEW override \in BOOLEAN,
         NEW ch \in {"clan", "ally"}, NEW prefs \in [Player -> Pref], NEW d
  PROVE  d \in routeClanOrAlly(s, audience, override, ch, prefs)
           <=> ClanOrAllyDecision(d, s, audience, override, ch, prefs)
<1>1. online \subseteq Player
  BY DEF TypeOK
<1>2. ASSUME d \in routeClanOrAlly(s, audience, override, ch, prefs)
      PROVE  ClanOrAllyDecision(d, s, audience, override, ch, prefs)
  <2>1. PICK r \in Listeners(s, audience, prefs) :
          /\ override \/ Enabled(prefs, r, ch)
          /\ d = [to |-> r, egress |-> ch,
                  force |-> override /\ ~Enabled(prefs, r, ch)]
    BY <1>2 DEF routeClanOrAlly
  <2>2. d.to = r /\ d.egress = ch /\ d.force = (override /\ ~Enabled(prefs, r, ch))
    BY <2>1
  <2>3. d \in Decision
    BY <1>1, <2>1 DEF Decision, Toggle, Listeners
  <2> QED
    BY <2>1, <2>2, <2>3 DEF Listeners, ClanOrAllyDecision, Hears
<1>3. ASSUME ClanOrAllyDecision(d, s, audience, override, ch, prefs)
      PROVE  d \in routeClanOrAlly(s, audience, override, ch, prefs)
  <2>1. d = [to |-> d.to, egress |-> ch,
             force |-> override /\ ~Enabled(prefs, d.to, ch)]
    BY <1>3, DecisionParts DEF ClanOrAllyDecision, Hears
  <2> QED
    BY <1>3, <2>1 DEF routeClanOrAlly, Listeners, ClanOrAllyDecision, Hears
<1> QED
  BY <1>2, <1>3

\* routeMode goes to clan and alliance, and forces everybody.
LEMMA ModeDecisions ==
  ASSUME TypeOK, NEW s \in Player, NEW prefs \in [Player -> Pref], NEW d
  PROVE  d \in routeMode(s, prefs) <=> ModeDecision(d, s, prefs)
<1>1. online \subseteq Player
  BY DEF TypeOK
<1>2. \A r \in online :
        r \in ClanMembers(clanOf[s]) \union AllyMembers(allyOf[s])
          <=> SameClan(s, r) \/ SameAlly(s, r)
  BY DEF ClanMembers, AllyMembers, SameClan, SameAlly
<1>3. ASSUME d \in routeMode(s, prefs)
      PROVE  ModeDecision(d, s, prefs)
  <2>1. PICK r \in Listeners(s, ClanMembers(clanOf[s]) \union AllyMembers(allyOf[s]), prefs) :
          d = [to |-> r, egress |-> "mode", force |-> TRUE]
    BY <1>3 DEF routeMode
  <2>2. d.to = r /\ d.egress = "mode" /\ d.force = TRUE
    BY <2>1
  <2>3. d \in Decision
    BY <1>1, <2>1 DEF Decision, Listeners
  <2> QED
    BY <1>1, <1>2, <2>1, <2>2, <2>3 DEF Listeners, ModeDecision, Hears
<1>4. ASSUME ModeDecision(d, s, prefs)
      PROVE  d \in routeMode(s, prefs)
  <2>1. d = [to |-> d.to, egress |-> "mode", force |-> TRUE]
    BY <1>4, DecisionParts DEF ModeDecision, Hears
  <2> QED
    BY <1>2, <1>4, <2>1 DEF routeMode, Listeners, ModeDecision, Hears
<1> QED
  BY <1>3, <1>4

\* routeCC goes to the members listed, and forces everybody.
LEMMA ChannelDecisions ==
  ASSUME TypeOK, NEW s \in Player, NEW prefs \in [Player -> Pref], NEW d
  PROVE  d \in routeCC(s, prefs) <=> ChannelDecision(d, s, prefs)
<1>1. online \subseteq Player
  BY DEF TypeOK
<1>2. ASSUME d \in routeCC(s, prefs)
      PROVE  ChannelDecision(d, s, prefs)
  <2>1. PICK r \in Listeners(s, ChannelMembers(s), prefs) :
          d = [to |-> r, egress |-> "cc", force |-> TRUE]
    BY <1>2 DEF routeCC
  <2>2. d.to = r /\ d.egress = "cc" /\ d.force = TRUE
    BY <2>1
  <2>3. d \in Decision
    BY <1>1, <2>1 DEF Decision, Listeners
  <2> QED
    BY <1>1, <2>1, <2>2, <2>3 DEF Listeners, ChannelDecision, Hears
<1>3. ASSUME ChannelDecision(d, s, prefs)
      PROVE  d \in routeCC(s, prefs)
  <2>1. d = [to |-> d.to, egress |-> "cc", force |-> TRUE]
    BY <1>3, DecisionParts DEF ChannelDecision, Hears
  <2> QED
    BY <1>3, <2>1 DEF routeCC, Listeners, ChannelDecision, Hears
<1> QED
  BY <1>2, <1>3

-----------------------------------------------------------------------------
\* In one state, for one packet and one table of preferences: the decisions
\* are those the rules allow, where the packets Route takes for a mode are the
\* unified ones.
LEMMA RouteIsRule ==
  ASSUME TypeOK, PartyIndex, NEW pkt \in Packet, NEW s, s = pkt.sender,
         NEW prefs \in [Player -> Pref], NEW d
  PROVE  d \in Route(pkt, prefs) <=> d \in Decision /\ Rule(d, pkt, prefs, Branch(pkt) = "mode")
<1> DEFINE b == Branch(pkt)
<1>1. /\ s \in Player /\ IsPriv(s) \in BOOLEAN
      /\ pkt.chan \in {"party", "clan", "ally", "cc"}
      /\ pkt.whisper \in BOOLEAN
  BY DEF Packet, Toggle, IsPriv
<1>2. /\ b = "whisper" <=> Whispers(pkt)
      /\ b = "mode" => ~Whispers(pkt) /\ pkt.chan \in {"clan", "ally"}
      /\ b \in {"party", "clan", "ally", "cc"} => ~Whispers(pkt) /\ pkt.chan = b
      /\ b \in {"whisper", "mode", "party", "clan", "ally", "cc"}
  BY <1>1 DEF Branch, Whispers
<1>3. \A r \in online : r \in ClanMembers(clanOf[s]) <=> SameClan(s, r)
  BY DEF ClanMembers, SameClan
<1>4. \A r \in online : r \in AllyMembers(allyOf[s]) <=> SameAlly(s, r)
  BY DEF AllyMembers, SameAlly
<1>5. CASE s \notin online
  BY <1>5 DEF Route, Rule
<1>6. CASE s \in online /\ b = "whisper"
  <2> DEFINE audience == ClanMembers(clanOf[s])
             D == ClanOrAllyDecision(d, s, audience, TRUE, "clan", prefs)
  <2>1. Silenced(s, b) <=> IsRemotelyMuted(s, "clan")
    BY <1>6 DEF Silenced, MuteScopes
  <2>2. Whispers(pkt) /\ IsPriv(s)
    BY <1>2, <1>6 DEF Whispers
  <2>3. Route(pkt, prefs) = IF Silenced(s, b) THEN {}
          ELSE routeClanOrAlly(s, audience, TRUE, "clan", prefs)
    BY <1>6 DEF Route
  <2>4. d \in Decision /\ Rule(d, pkt, prefs, b = "mode") <=> ~IsRemotelyMuted(s, "clan") /\ D
    BY <1>1, <1>3, <1>6, <2>2
       DEF Rule, PartyRule, ClanRule, AllyRule, ModeRule, ChannelRule, ToggleRule,
           Decision, Hears, ClanOrAllyDecision
  <2>5. d \in routeClanOrAlly(s, audience, TRUE, "clan", prefs) <=> D
    BY <1>1, ClanOrAllyDecisions
  <2> QED
    BY <2>1, <2>3, <2>4, <2>5
<1>7. CASE s \in online /\ b = "mode"
  <2>1. Silenced(s, b) <=> \E scope \in {"clan", "ally"} : IsRemotelyMuted(s, scope)
    BY <1>7 DEF Silenced, MuteScopes
  <2>2. ~Whispers(pkt) /\ pkt.chan \in {"clan", "ally"}
    BY <1>2, <1>7
  <2>3. Route(pkt, prefs) = IF Silenced(s, b) THEN {} ELSE routeMode(s, prefs)
    BY <1>7, <2>1 DEF Route
  <2>4. d \in Decision /\ Rule(d, pkt, prefs, b = "mode") <=> 
          /\ \A scope \in {"clan", "ally"} : ~IsRemotelyMuted(s, scope)
          /\ ModeDecision(d, s, prefs)
    BY <1>7, <2>2
       DEF Rule, PartyRule, ClanRule, AllyRule, ModeRule, ChannelRule, ToggleRule,
           Decision, Hears, ModeDecision
  <2>5. d \in routeMode(s, prefs) <=> ModeDecision(d, s, prefs)
    BY <1>1, ModeDecisions
  <2> QED
    BY <2>1, <2>3, <2>4, <2>5
<1>8. CASE s \in online /\ b = "party"
  <2>1. ~Silenced(s, b)
    BY <1>8 DEF Silenced, MuteScopes
  <2>2. ~Whispers(pkt) /\ pkt.chan = "party"
    BY <1>2, <1>8
  <2>3. Route(pkt, prefs) = routeParty(s, prefs)
    BY <1>8, <2>1 DEF Route
  <2>4. d \in Decision /\ Rule(d, pkt, prefs, b = "mode") <=> PartyDecision(d, s, prefs)
    BY <1>8, <2>2
       DEF Rule, PartyRule, ClanRule, AllyRule, ModeRule, ChannelRule, ToggleRule,
           Decision, Hears, PartyDecision
  <2>5. d \in routeParty(s, prefs) <=> PartyDecision(d, s, prefs)
    BY <1>1, PartyDecisions
  <2> QED
    BY <2>1, <2>3, <2>4, <2>5
<1>9. CASE s \in online /\ b = "clan"
  <2> DEFINE audience == ClanMembers(clanOf[s])
             D == ClanOrAllyDecision(d, s, audience, IsPriv(s), "clan", prefs)
  <2>1. Silenced(s, b) <=> IsRemotelyMuted(s, "clan")
    BY <1>9 DEF Silenced, MuteScopes
  <2>2. ~Whispers(pkt) /\ pkt.chan = "clan"
    BY <1>2, <1>9
  <2>3. Route(pkt, prefs) = IF Silenced(s, b) THEN {}
          ELSE routeClanOrAlly(s, audience, IsPriv(s), "clan", prefs)
    BY <1>9 DEF Route
  <2>4. d \in Decision /\ Rule(d, pkt, prefs, b = "mode") <=> ~IsRemotelyMuted(s, "clan") /\ D
    BY <1>1, <1>3, <1>9, <2>2
       DEF Rule, PartyRule, ClanRule, AllyRule, ModeRule, ChannelRule, ToggleRule,
           Decision, Hears, ClanOrAllyDecision
  <2>5. d \in routeClanOrAlly(s, audience, IsPriv(s), "clan", prefs) <=> D
    BY <1>1, ClanOrAllyDecisions
  <2> QED
    BY <2>1, <2>3, <2>4, <2>5
<1>10. CASE s \in online /\ b = "ally"
  <2> DEFINE audience == AllyMembers(allyOf[s])
             D == ClanOrAllyDecision(d, s, audience, IsPriv(s), "ally", prefs)
  <2>1. Silenced(s, b) <=> IsRemotelyMuted(s, "ally")
    BY <1>10 DEF Silenced, MuteScopes
  <2>2. ~Whispers(pkt) /\ pkt.chan = "ally"
    BY <1>2, <1>10
  <2>3. Route(pkt, prefs) = IF Silenced(s, b) THEN {}
          ELSE routeClanOrAlly(s, audience, IsPriv(s), "ally", prefs)
    BY <1>10 DEF Route
  <2>4. d \in Decision /\ Rule(d, pkt, prefs, b = "mode") <=> ~IsRemotelyMuted(s, "ally") /\ D
    BY <1>1, <1>4, <1>10, <2>2
       DEF Rule, PartyRule, ClanRule, AllyRule, ModeRule, ChannelRule, ToggleRule,
           Decision, Hears, ClanOrAllyDecision
  <2>5. d \in routeClanOrAlly(s, audience, IsPriv(s), "ally", prefs) <=> D
    BY <1>1, ClanOrAllyDecisions
  <2> QED
    BY <2>1, <2>3, <2>4, <2>5
<1>11. CASE s \in online /\ b = "cc"
  <2>1. ~Silenced(s, b)
    BY <1>11 DEF Silenced, MuteScopes
  <2>2. ~Whispers(pkt) /\ pkt.chan = "cc"
    BY <1>2, <1>11
  <2>3. Route(pkt, prefs) = IF CCSpeakAllowed(s) THEN routeCC(s, prefs) ELSE {}
    BY <1>11, <2>1 DEF Route
  <2>4. d \in Decision /\ Rule(d, pkt, prefs, b = "mode") <=> CCSpeakAllowed(s) /\ ChannelDecision(d, s, prefs)
    BY <1>11, <2>2
       DEF Rule, PartyRule, ClanRule, AllyRule, ModeRule, ChannelRule, ToggleRule,
           Decision, Hears, ChannelDecision
  <2>5. d \in routeCC(s, prefs) <=> ChannelDecision(d, s, prefs)
    BY <1>1, ChannelDecisions
  <2> QED
    BY <2>1, <2>3, <2>4, <2>5
<1> QED
  BY <1>2, <1>5, <1>6, <1>7, <1>8, <1>9, <1>10, <1>11

\* A known speaker whose packet Route takes for a mode is in the unified channel;
\* one that is in it and is not taken for a mode is there through its alliance.
LEMMA ModeIsUnified ==
  ASSUME TypeOK, NEW pkt \in Packet, pkt.sender \in online
  PROVE  /\ Branch(pkt) = "mode" => Unified(pkt)
         /\ Unified(pkt) /\ Branch(pkt) # "mode" => AlliesMode(pkt)
<1> DEFINE s == pkt.sender
<1>1. pkt.chan \in {"party", "clan", "ally", "cc"}
  BY DEF Packet, Toggle
<1>2. Branch(pkt) = "mode" <=>
        ~Whispers(pkt) /\ pkt.chan \in {"clan", "ally"} /\ modeActive(s)
  BY <1>1 DEF Branch, Whispers
<1>3. modeActive(s) <=> clanOf[s] \in InMode
  BY DEF modeActive, InMode
<1>4. clanOf[s] \in InMode => clanOf[s] \notin optedOut /\ SameClan(s, s)
  BY WorldAssumption DEF TypeOK, InMode, SameClan
<1> QED
  BY <1>2, <1>3, <1>4 DEF Unified, AlliesMode

\* The routing matrix is followed in every state of the world, whatever calls
\* led to it, but for the packets of a clan whose ally is in a mode, which are
\* routed as if no mode were on (modeActive): by the preservation of the party
\* index, party audio follows the players' own records.
THEOREM RouteFollowsMatrixHolds == Spec => []RouteFollowsMatrix
<1>1. TypeOK /\ PartyIndex => RouteFollowsMatrix
  <2> SUFFICES ASSUME TypeOK, PartyIndex, NEW pkt \in Packet, NEW prefs \in Preferences
               PROVE  \/ Route(pkt, prefs) = Matrix(pkt, prefs, Unified(pkt))
                      \/ /\ AlliesMode(pkt)
                         /\ Route(pkt, prefs) = Matrix(pkt, prefs, FALSE)
    BY DEF RouteFollowsMatrix
  <2>1. prefs \in [Player -> Pref]
    BY RouterAssumption
  <2>2. Route(pkt, prefs) = Matrix(pkt, prefs, Branch(pkt) = "mode")
    BY <2>1, RouteIsRule DEF Matrix
  <2>3. CASE pkt.sender \notin online
    <3>1. Matrix(pkt, prefs, Unified(pkt)) = {}
      BY <2>3 DEF Matrix, Rule
    <3>2. Matrix(pkt, prefs, Branch(pkt) = "mode") = {}
      BY <2>3 DEF Matrix, Rule
    <3> QED
      BY <2>2, <3>1, <3>2
  <2>4. CASE pkt.sender \in online /\ ((Branch(pkt) = "mode") = Unified(pkt))
    BY <2>2, <2>4
  <2>5. CASE pkt.sender \in online /\ (Branch(pkt) = "mode") # Unified(pkt)
    <3>1. AlliesMode(pkt) /\ (Branch(pkt) = "mode") = FALSE
      BY <2>5, ModeIsUnified DEF Unified
    <3> QED
      BY <2>2, <3>1
  <2> QED
    BY <2>3, <2>4, <2>5
<1> QED
  BY <1>1, TypeCorrect, PartyIndexHolds, PTL
=============================================================================
