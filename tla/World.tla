------------------------------- MODULE World -------------------------------
(***************************************************************************)
(* WorldState (voice-service/internal/world/state.go): what the voice      *)
(* service knows of the characters in the world, their parties and clans,  *)
(* the command channels and the remote mutes.                              *)
(*                                                                         *)
(* Each exported method holds WorldState.mu from its first to its last     *)
(* statement, so each is one atomic action.  Its callers compute the       *)
(* arguments from values read under earlier, separate acquisitions of the  *)
(* lock, so Next lets a method run with any arguments at any time; the     *)
(* order in which real callers run them is the subject of module Commands. *)
(***************************************************************************)
EXTENDS CommandChannels

CONSTANTS Clan, Ally, Party, Mode, Scope,
          MaxRoster   \* bound: longest member list a channel is given

ASSUME WorldAssumption ==
  /\ None \notin Clan \union Ally \union Party \union Mode
  /\ MaxRoster \in Nat

VARIABLES
  online,      \* keys of WorldState.players
  clanOf,      \* Player.ClanID
  allyOf,      \* Player.AllyID
  partyOf,     \* Player.PartyID
  isLeader,    \* Player.IsLeader
  parties,     \* WorldState.parties; a bucket the map does not hold is {}
  clans,       \* keys of WorldState.clans
  leaderID,    \* Clan.LeaderID
  subLeaders,  \* Clan.SubLeaders
  mode,        \* Clan.Mode; ModeNone is None
  modeSetBy,   \* Clan.ModeSetBy
  optedOut,    \* clans with OptedOutOfUnifiedMode
  mutes        \* WorldState.remoteMutes

playerVars == <<online, clanOf, allyOf, partyOf, isLeader, parties>>
clanVars == <<clans, leaderID, subLeaders, mode, modeSetBy, optedOut>>
worldVars == <<playerVars, clanVars, mutes, ccVars>>

Mute == [muter : Player, target : Player, scope : Scope]

Init ==
  /\ CCInit
  /\ online = {}
  /\ clanOf = [p \in Player |-> None]
  /\ allyOf = [p \in Player |-> None]
  /\ partyOf = [p \in Player |-> None]
  /\ isLeader = [p \in Player |-> FALSE]
  /\ parties = [q \in Party |-> {}]
  /\ clans = {}
  /\ leaderID = [c \in Clan |-> None]
  /\ subLeaders = [c \in Clan |-> {}]
  /\ mode = [c \in Clan |-> None]
  /\ modeSetBy = [c \in Clan |-> None]
  /\ optedOut = {}
  /\ mutes = {}

-----------------------------------------------------------------------------
\* Players and parties.

\* Mutants: the new bucket is joined and the old one kept; a move out of every
\* party returns before it records anything.
movePartyLockedJoinOnly(p, new) ==
  /\ partyOf' = [partyOf EXCEPT ![p] = new]
  /\ parties' = [q \in Party |-> IF q = new THEN parties[q] \union {p}
                                 ELSE parties[q]]

movePartyLockedNoExit(p, new) ==
  IF new = None THEN UNCHANGED <<partyOf, parties>>
  ELSE /\ partyOf' = [partyOf EXCEPT ![p] = new]
       /\ parties' = [q \in Party |-> IF q = new THEN parties[q] \union {p}
                                      ELSE parties[q] \ {p}]

movePartyLocked(p, new) ==
  /\ partyOf' = [partyOf EXCEPT ![p] = new]
  /\ parties' = IF partyOf[p] = new THEN parties
                ELSE [q \in Party |-> IF q = partyOf[p] THEN parties[q] \ {p}
                                      ELSE IF q = new THEN parties[q] \union {p}
                                      ELSE parties[q]]

\* Mutant: the record is filled in and never put into the map.
UpsertPlayerUnlisted(p, clan, ally, party, leads) ==
  /\ movePartyLocked(p, party)
  /\ clanOf' = [clanOf EXCEPT ![p] = clan]
  /\ allyOf' = [allyOf EXCEPT ![p] = ally]
  /\ isLeader' = [isLeader EXCEPT ![p] = leads]
  /\ UNCHANGED <<online, clanVars, mutes, ccVars>>

UpsertPlayer(p, clan, ally, party, leads) ==
  /\ online' = online \union {p}
  /\ movePartyLocked(p, party)
  /\ clanOf' = [clanOf EXCEPT ![p] = clan]
  /\ allyOf' = [allyOf EXCEPT ![p] = ally]
  /\ isLeader' = [isLeader EXCEPT ![p] = leads]
  /\ UNCHANGED <<clanVars, mutes, ccVars>>

\* What RemovePlayer does to the player's record, and to the other tables.
ForgetRecord(p) ==
  /\ online' = online \ {p}
  /\ movePartyLocked(p, None)
  /\ clanOf' = [clanOf EXCEPT ![p] = None]
  /\ allyOf' = [allyOf EXCEPT ![p] = None]
  /\ isLeader' = [isLeader EXCEPT ![p] = FALSE]

\* Mutant: the sub-leader lists stay.
ForgetSubLeaderNot(p) == subLeaders' = subLeaders

ForgetSubLeader(p) == subLeaders' = [c \in Clan |-> subLeaders[c] \ {p}]

ForgetModes(p) ==
  /\ mode' = [c \in Clan |-> IF modeSetBy[c] = p THEN None ELSE mode[c]]
  /\ modeSetBy' = [c \in Clan |-> IF modeSetBy[c] = p THEN None
                                  ELSE modeSetBy[c]]

\* Mutant: the mutes the player placed on others stay.
ForgetMutesAgainst(p) == mutes' = {m \in mutes : p # m.target}

ForgetMutes(p) == mutes' = {m \in mutes : p \notin {m.muter, m.target}}

RemovePlayer(p) ==
  /\ p \in online
  /\ ForgetRecord(p)
  /\ ForgetSubLeader(p)
  /\ ForgetModes(p)
  /\ ForgetMutes(p)
  /\ RemoveFromChannel(p)
  /\ UNCHANGED <<clans, leaderID, optedOut>>

-----------------------------------------------------------------------------
\* Clans.

UpsertClan(c, leader) ==
  /\ clans' = clans \union {c}
  /\ leaderID' = [leaderID EXCEPT ![c] = leader]
  /\ UNCHANGED <<playerVars, subLeaders, mode, modeSetBy, optedOut, mutes, ccVars>>

SetSubLeader(c, p, promote) ==
  /\ c \in clans
  /\ subLeaders' = [subLeaders EXCEPT ![c] = IF promote THEN @ \union {p}
                                                        ELSE @ \ {p}]
  /\ UNCHANGED <<playerVars, clans, leaderID, mode, modeSetBy, optedOut, mutes, ccVars>>

\* Mutant: clearing the mode leaves its owner.
SetClanModeKeepsOwner(c, new, setBy) ==
  /\ c \in clans
  /\ mode' = [mode EXCEPT ![c] = new]
  /\ modeSetBy' = [modeSetBy EXCEPT ![c] = setBy]
  /\ UNCHANGED <<playerVars, clans, leaderID, subLeaders, optedOut, mutes, ccVars>>

SetClanMode(c, new, setBy) ==
  /\ c \in clans
  /\ mode' = [mode EXCEPT ![c] = new]
  /\ modeSetBy' = [modeSetBy EXCEPT ![c] = IF new = None THEN None ELSE setBy]
  /\ UNCHANGED <<playerVars, clans, leaderID, subLeaders, optedOut, mutes, ccVars>>

SetClanOptOut(c, out) ==
  /\ c \in clans
  /\ optedOut' = IF out THEN optedOut \union {c} ELSE optedOut \ {c}
  /\ UNCHANGED <<playerVars, clans, leaderID, subLeaders, mode, modeSetBy, mutes, ccVars>>

\* Remote mutes.  A new entry replaces the pair's earlier one, whatever its scope.

WithoutPair(muter, target) ==
  {m \in mutes : <<m.muter, m.target>> # <<muter, target>>}

\* Mutant: a mute is appended without looking for the pair's earlier one.
AddRemoteMuteAppends(muter, target, scope) ==
  /\ mutes' = mutes \union {[muter |-> muter, target |-> target, scope |-> scope]}
  /\ UNCHANGED <<playerVars, clanVars, ccVars>>

AddRemoteMute(muter, target, scope) ==
  /\ mutes' = WithoutPair(muter, target)
                \union {[muter |-> muter, target |-> target, scope |-> scope]}
  /\ UNCHANGED <<playerVars, clanVars, ccVars>>

ClearRemoteMute(muter, target) ==
  /\ mutes' = WithoutPair(muter, target)
  /\ UNCHANGED <<playerVars, clanVars, ccVars>>

-----------------------------------------------------------------------------
\* Reads.

IsRemotelyMuted(p, scope) == \E m \in mutes : m.target = p /\ m.scope = scope

PartyMembers(p) == IF partyOf[p] = None THEN {} ELSE parties[partyOf[p]]

ClanMembers(c) == {p \in online : clanOf[p] = c /\ c # None}

AllyMembers(a) == {p \in online : allyOf[p] = a /\ a # None}

RoleOf(p) ==
  LET c == clanOf[p] IN
  IF p \notin online \/ c \notin clans THEN "member"
  ELSE IF isLeader[p] \/ leaderID[c] = p THEN "leader"
  ELSE IF p \in subLeaders[c] THEN "subleader"
  ELSE "member"

-----------------------------------------------------------------------------
\* The member lists a command channel can be given: L2J lists an id once.
Roster == UNION {{s \in [1..n -> Player] : IsInjective(s)} : n \in 0..MaxRoster}

PlayerStep ==
  \/ \E p \in Player, clan \in Clan \union {None}, ally \in Ally \union {None},
        party \in Party \union {None}, leads \in BOOLEAN :
       UpsertPlayer(p, clan, ally, party, leads)
  \/ \E p \in Player : RemovePlayer(p)

ClanStep ==
  \/ \E c \in Clan, p \in Player : UpsertClan(c, p)
  \/ \E c \in Clan, p \in Player, promote \in BOOLEAN : SetSubLeader(c, p, promote)
  \/ \E c \in Clan, new \in Mode \union {None}, p \in Player : SetClanMode(c, new, p)
  \/ \E c \in Clan, out \in BOOLEAN : SetClanOptOut(c, out)

MuteStep ==
  \/ \E p \in Player : \E t \in Player \ {p}, s \in Scope : AddRemoteMute(p, t, s)
  \/ \E p \in Player : \E t \in Player \ {p} : ClearRemoteMute(p, t)

ChannelChange ==
  \/ \E c \in Channel, l \in Player, s \in Roster : UpsertCommandChannel(c, l, s)
  \/ \E c \in Channel : DissolveCommandChannel(c)

ChannelStep ==
  /\ \/ ChannelChange
     \/ \E c \in Channel, p \in Player, allow \in BOOLEAN :
          SetCCSpeakPermission(c, p, allow)
  /\ UNCHANGED <<playerVars, clanVars, mutes>>

Next == PlayerStep \/ ClanStep \/ MuteStep \/ ChannelStep

Spec == Init /\ [][Next]_worldVars
-----------------------------------------------------------------------------
\* Types, and a player who is not online has no state of its own.
TypeOK ==
  /\ CCTypeOK
  /\ online \subseteq Player
  /\ clanOf \in [Player -> Clan \union {None}]
  /\ allyOf \in [Player -> Ally \union {None}]
  /\ partyOf \in [Player -> Party \union {None}]
  /\ isLeader \in [Player -> BOOLEAN]
  /\ parties \in [Party -> SUBSET Player]
  /\ clans \subseteq Clan
  /\ leaderID \in [Clan -> Player \union {None}]
  /\ subLeaders \in [Clan -> SUBSET Player]
  /\ mode \in [Clan -> Mode \union {None}]
  /\ modeSetBy \in [Clan -> Player \union {None}]
  /\ optedOut \subseteq Clan
  /\ mutes \subseteq Mute
  /\ \A p \in Player \ online :
       partyOf[p] = None /\ clanOf[p] = None /\ allyOf[p] = None /\ ~isLeader[p]

\* Party audio goes to the ids of WorldState.parties, while a player's own
\* record names the party it is in.  After any sequence of moves, joins and
\* logouts (movePartyLocked) the two agree: a party's bucket is exactly the
\* online players whose record names it, so nobody hears a party it has left
\* and nobody is missing from the one it is in.
PartyIndex == \A q \in Party : parties[q] = {p \in online : partyOf[p] = q}

\* A clan has an operational mode exactly when the mode has an owner.  The
\* logout of the owner is what clears a mode (RemovePlayer), so a mode with no
\* owner would isolate the clan for good, and an owner with no mode would be
\* blamed for one nobody set.
ModeOwned == \A c \in Clan : mode[c] = None <=> modeSetBy[c] = None

\* At most one remote mute is in force for a (muter, target) pair, whatever
\* its scope: clearing the pair then really ends what that muter imposed.
OneMutePerPair ==
  \A m, n \in mutes : m.muter = n.muter /\ m.target = n.target => m = n

\* A logout takes the player out of every party, sub-leader list, mode and
\* mute (RemovePlayer goes over four tables), and takes nothing from anyone
\* else: other sub-leaders, other owners' modes and other pairs' mutes stay.
RemovalPurges ==
  [][\A p \in online \ online' :
       /\ \A q \in Party : parties'[q] = parties[q] \ {p}
       /\ \A c \in Clan :
            /\ subLeaders'[c] = subLeaders[c] \ {p}
            /\ modeSetBy'[c] # p
            /\ modeSetBy[c] # p => mode'[c] = mode[c]
            /\ modeSetBy[c] = p => mode'[c] = None
       /\ \A m \in mutes : m \in mutes' <=> p \notin {m.muter, m.target}]_worldVars

\* As long as one command channel exists at a time, every id on a channel's
\* list is indexed to it, so CommandChannel finds the channel of each member
\* and its leader may speak.  In-place filtering, appends and dissolution all
\* have to keep the list and the index in step for this.
MembersIndexed ==
  \A c \in channels : \A p \in ToSet(members[c]) :
    playerCC[p] = c /\ (p = ccLeader[c] => CCSpeakAllowed(p))

\* "Preserves SpeakPermissions for members that are still in the channel;
\* drops permissions for those who left" (UpsertCommandChannel): whoever may
\* speak on a channel leads it or is on its list.
SpeakersAreMembers ==
  \A p \in Player :
    CCSpeakAllowed(p) =>
      LET c == CommandChannel(p) IN p = ccLeader[c] \/ p \in ToSet(members[c])
=============================================================================
