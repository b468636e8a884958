-------------------------- MODULE CommandChannels --------------------------
(***************************************************************************)
(* The command-channel table of WorldState                                 *)
(* (voice-service/internal/world/state.go): the channels themselves, their *)
(* member lists, the speak permissions of each channel and the reverse     *)
(* index playerCC.  Every method runs under WorldState.mu, so each is one  *)
(* atomic action.                                                          *)
(*                                                                         *)
(* A member list is a Go slice.  Two methods rewrite the backing array in  *)
(* place, so the model keeps the contents of the slice and its capacity:   *)
(* whether append(s[:0], list...) reuses the array decides what the method *)
(* still sees through a slice it took earlier.                             *)
(***************************************************************************)
EXTENDS Integers, SequencesExt

CONSTANTS Player, Channel, None

ASSUME ChannelAssumption == None \notin Player \union Channel

VARIABLES
  channels,   \* keys of WorldState.ccs
  ccLeader,   \* CommandChannel.LeaderID
  members,    \* CommandChannel.MemberIDs
  capacity,   \* cap(CommandChannel.MemberIDs)
  speak,      \* CommandChannel.SpeakPermissions
  playerCC    \* WorldState.playerCC

ccVars == <<channels, ccLeader, members, capacity, speak, playerCC>>

CCInit ==
  /\ channels = {}
  /\ ccLeader = [c \in Channel |-> None]
  /\ members = [c \in Channel |-> <<>>]
  /\ capacity = [c \in Channel |-> 0]
  /\ speak = [c \in Channel |-> {}]
  /\ playerCC = [p \in Player |-> None]

-----------------------------------------------------------------------------
(***************************************************************************)
(* Slices of 4-byte ids.  The allocator's size classes round a small       *)
(* array up to an even number of elements (8, 16, 24 and 32 bytes), which  *)
(* is all the rounding lists of at most 8 ids meet.                        *)
(***************************************************************************)
RoundUp(n) == n + (n % 2)

GrownCapacity(cap, n) ==
  IF n <= cap THEN cap ELSE RoundUp(IF n > 2 * cap THEN n ELSE 2 * cap)

\* What a slice holding `old` shows after append(old[:0], list...): the array
\* is overwritten from its start when the list fits in the capacity.
ShownAfterAppend(old, cap, list) ==
  IF Len(list) <= cap
  THEN [i \in DOMAIN old |-> IF i <= Len(list) THEN list[i] ELSE old[i]]
  ELSE old

\* The filter loop of RemovePlayer, for lists that hold an id once.
Without(s, p) ==
  IF p \in ToSet(s) THEN RemoveAt(s, CHOOSE i \in DOMAIN s : s[i] = p) ELSE s

-----------------------------------------------------------------------------
\* The ids the second loop of UpsertCommandChannel treats as departed: it
\* ranges over the slice taken before the append, not over a copy of it.
Departed(c, list) ==
  ToSet(ShownAfterAppend(members[c], capacity[c], list)) \ ToSet(list)

UpsertCommandChannel(c, leader, list) ==
  LET gone == Departed(c, list) IN
  /\ channels' = channels \union {c}
  /\ ccLeader' = [ccLeader EXCEPT ![c] = leader]
  /\ members' = [members EXCEPT ![c] = list]
  /\ capacity' = [capacity EXCEPT ![c] = GrownCapacity(@, Len(list))]
  /\ speak' = [speak EXCEPT ![c] = @ \ gone]
  /\ playerCC' = [p \in Player |->
                    IF p \in ToSet(list) THEN c
                    ELSE IF p \in gone /\ playerCC[p] = c THEN None
                    ELSE playerCC[p]]

\* Removing a channel forgets its members, permissions and array; the reverse
\* entries of the players in `unmapped` that point to it go with it.
Forget(c, unmapped) ==
  /\ channels' = channels \ {c}
  /\ ccLeader' = [ccLeader EXCEPT ![c] = None]
  /\ members' = [members EXCEPT ![c] = <<>>]
  /\ capacity' = [capacity EXCEPT ![c] = 0]
  /\ speak' = [speak EXCEPT ![c] = {}]
  /\ playerCC' = [p \in Player |->
                    IF p \in unmapped /\ playerCC[p] = c THEN None
                    ELSE playerCC[p]]

DissolveCommandChannel(c) ==
  /\ c \in channels
  /\ Forget(c, ToSet(members[c]))

SetCCSpeakPermission(c, target, allow) ==
  /\ c \in channels
  /\ target # ccLeader[c]
  /\ target \in ToSet(members[c])
  /\ speak' = [speak EXCEPT ![c] = IF allow THEN @ \union {target}
                                            ELSE @ \ {target}]
  /\ UNCHANGED <<channels, ccLeader, members, capacity, playerCC>>

(***************************************************************************)
(* The command-channel part of RemovePlayer(p).  Only the channel playerCC *)
(* names is cleaned; it is dissolved when p leads it.                      *)
(***************************************************************************)
LeaveUnmapped(p) == playerCC[p] = None /\ UNCHANGED ccVars

LeaveDangling(p) ==
  /\ playerCC[p] \in Channel \ channels
  /\ playerCC' = [playerCC EXCEPT ![p] = None]
  /\ UNCHANGED <<channels, ccLeader, members, capacity, speak>>

\* Mutant: the player stays on the member list.
LeaveAsMemberListed(p) ==
  /\ playerCC[p] \in channels
  /\ ccLeader[playerCC[p]] # p
  /\ speak' = [speak EXCEPT ![playerCC[p]] = @ \ {p}]
  /\ playerCC' = [playerCC EXCEPT ![p] = None]
  /\ UNCHANGED <<channels, ccLeader, members, capacity>>

LeaveAsMember(p) ==
  LET c == playerCC[p] IN
  /\ c \in channels
  /\ ccLeader[c] # p
  /\ members' = [members EXCEPT ![c] = Without(@, p)]
  /\ speak' = [speak EXCEPT ![c] = @ \ {p}]
  /\ playerCC' = [playerCC EXCEPT ![p] = None]
  /\ UNCHANGED <<channels, ccLeader, capacity>>

LeaveAsLeader(p) ==
  LET c == playerCC[p] IN
  /\ c \in channels
  /\ ccLeader[c] = p
  /\ Forget(c, ToSet(members[c]) \union {p})

RemoveFromChannel(p) ==
  LeaveUnmapped(p) \/ LeaveDangling(p) \/ LeaveAsMember(p) \/ LeaveAsLeader(p)

-----------------------------------------------------------------------------
\* CommandChannel(playerID): the channel, or None when there is none to return.
CommandChannel(p) == IF playerCC[p] \in channels THEN playerCC[p] ELSE None

CCSpeakAllowed(p) ==
  LET c == CommandChannel(p) IN
  c # None /\ (p = ccLeader[c] \/ p \in speak[c])

-----------------------------------------------------------------------------
\* Types; a member list holds an id once.
CCTypeOK ==
  /\ channels \subseteq Channel
  /\ ccLeader \in [Channel -> Player \union {None}]
  /\ members \in [Channel -> Seq(Player)]
  /\ \A c \in Channel : IsInjective(members[c])
  /\ capacity \in [Channel -> Nat]
  /\ speak \in [Channel -> SUBSET Player]
  /\ playerCC \in [Player -> Channel \union {None}]
=============================================================================
