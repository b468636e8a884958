------------------------------ MODULE Commands ------------------------------
(***************************************************************************)
(* The control-plane commands that change clan and channel state           *)
(* (voice-service/internal/control/commands.go, authz.go) running against  *)
(* WorldState while the event goroutines change it.                        *)
(*                                                                         *)
(* Each connection's goroutine runs one command at a time:                 *)
(*   Authorize  the Authz function of the command, all of it reads;        *)
(*   Fetch      w.Player(actor).ClanID or w.CommandChannel(actor), read    *)
(*              again for the argument of the mutation;                    *)
(*   Apply      the one WorldState method that mutates.                    *)
(* The lock is free between the three, so events run in between.  The      *)
(* reads inside one Authz call are taken as one step.                      *)
(***************************************************************************)
EXTENDS World

CONSTANT Ops   \* the commands a connection sends: a run explores some of them

Op == {"promote", "mode", "mute", "optout", "grant"}

ASSUME CommandsAssumption ==
  /\ Scope \subseteq {"clan", "ally"}
  /\ Ops \subseteq Op

VARIABLES
  cmd,   \* cmd[p]: the command the connection of player p is executing
  raced  \* history: players whose last removal found a command naming them in flight

vars == <<worldVars, cmd, raced>>

\* `on` is promote, muted, opt_out or granted; `arg` is the mode or the scope;
\* `group` is the clan or channel id that Fetch read.
Command == [stage : {"idle", "authorized", "fetched"},
            op : Op,
            target : Player \union {None},
            on : BOOLEAN,
            arg : Mode \union Scope \union {None},
            group : Clan \union Channel \union {None}]

Cmd(stage, op, t, on, arg, group) ==
  [stage |-> stage, op |-> op, target |-> t, on |-> on, arg |-> arg, group |-> group]

Idle == Cmd("idle", "promote", None, FALSE, None, None)

CInit ==
  /\ Init
  /\ cmd = [p \in Player |-> Idle]
  /\ raced = {}

-----------------------------------------------------------------------------
\* authz.go

AuthzPromoteSubLeader(a, t) ==
  /\ {a, t} \subseteq online
  /\ clanOf[a] # None
  /\ clanOf[a] = clanOf[t]
  /\ isLeader[a]
  /\ a # t
  /\ ~isLeader[t]

AuthzLeaderOrSub(a) ==
  /\ a \in online
  /\ clanOf[a] # None
  /\ RoleOf(a) \in {"leader", "subleader"}

\* Mutant: a leader may name itself.
AuthzRemoteMuteSelf(a, t, scope) ==
  /\ AuthzLeaderOrSub(a)
  /\ t \in online
  /\ scope = "clan" => clanOf[t] = clanOf[a]
  /\ scope = "ally" => allyOf[a] # None /\ allyOf[t] = allyOf[a]
  /\ RoleOf(a) = "subleader" => RoleOf(t) = "member"

AuthzRemoteMute(a, t, scope) ==
  /\ AuthzLeaderOrSub(a)
  /\ t \in online
  /\ a # t
  /\ scope = "clan" => clanOf[t] = clanOf[a]
  /\ scope = "ally" => allyOf[a] # None /\ allyOf[t] = allyOf[a]
  /\ RoleOf(a) = "subleader" => RoleOf(t) = "member"

AuthzCCGrantSpeak(a, t) ==
  /\ a # t
  /\ CommandChannel(a) # None
  /\ ccLeader[CommandChannel(a)] = a
  /\ CommandChannel(t) = CommandChannel(a)

-----------------------------------------------------------------------------
Start(a, op, t, on, arg) ==
  /\ cmd[a].stage = "idle"
  /\ op \in Ops
  /\ cmd' = [cmd EXCEPT ![a] = Cmd("authorized", op, t, on, arg, None)]
  /\ UNCHANGED <<worldVars, raced>>

AuthorizePromote(a) ==
  \E t \in Player, on \in BOOLEAN :
    AuthzPromoteSubLeader(a, t) /\ Start(a, "promote", t, on, None)

AuthorizeMode(a) ==
  \E m \in Mode \union {None} :
    AuthzLeaderOrSub(a) /\ Start(a, "mode", None, TRUE, m)

AuthorizeMute(a) ==
  \E t \in Player, on \in BOOLEAN, s \in Scope :
    AuthzRemoteMute(a, t, s) /\ Start(a, "mute", t, on, s)

AuthorizeOptOut(a) ==
  \E on \in BOOLEAN :
    AuthzLeaderOrSub(a) /\ Start(a, "optout", None, on, None)

AuthorizeGrant(a) ==
  \E t \in Player, on \in BOOLEAN :
    AuthzCCGrantSpeak(a, t) /\ Start(a, "grant", t, on, None)

Finish(a) == cmd' = [cmd EXCEPT ![a] = Idle]

\* The mutation's first argument.  A handler that finds the player gone
\* dereferences nil, and its goroutine ends with the connection; one that finds
\* no channel returns.  The mute handler passes ids and fetches nothing.
Fetch(a) ==
  LET c == cmd[a]
      group == IF c.op = "grant" THEN CommandChannel(a)
               ELSE IF c.op = "mute" THEN None ELSE clanOf[a]
      gone == \/ c.op = "grant" /\ group = None
              \/ c.op \notin {"grant", "mute"} /\ a \notin online
  IN
  /\ c.stage = "authorized"
  /\ IF gone THEN Finish(a)
     ELSE cmd' = [cmd EXCEPT ![a] = Cmd("fetched", c.op, c.target, c.on, c.arg, group)]
  /\ UNCHANGED <<worldVars, raced>>

\* The method refuses a clan or channel that is not there, and then the handler
\* only reports the error.
Refused(c) ==
  \/ c.op \in {"promote", "mode", "optout"} /\ c.group \notin clans
  \/ c.op = "grant" /\ ~(/\ c.group \in channels
                         /\ c.target # ccLeader[c.group]
                         /\ c.target \in ToSet(members[c.group]))

Apply(a) ==
  LET c == cmd[a] IN
  /\ c.stage = "fetched"
  /\ \/ c.op = "promote" /\ SetSubLeader(c.group, c.target, c.on)
     \/ c.op = "mode" /\ SetClanMode(c.group, c.arg, a)
     \/ c.op = "mute" /\ c.on /\ AddRemoteMute(a, c.target, c.arg)
     \/ c.op = "mute" /\ ~c.on /\ ClearRemoteMute(a, c.target)
     \/ c.op = "optout" /\ SetClanOptOut(c.group, c.on)
     \/ /\ c.op = "grant"
        /\ SetCCSpeakPermission(c.group, c.target, c.on)
        /\ UNCHANGED <<playerVars, clanVars, mutes>>
     \/ Refused(c) /\ UNCHANGED worldVars
  /\ Finish(a)
  /\ UNCHANGED raced

-----------------------------------------------------------------------------
\* The event goroutines: one WorldState method each.

InFlight(p) ==
  \E a \in Player : cmd[a].stage # "idle" /\ (a = p \/ cmd[a].target = p)

PlayerChange(p) ==
  /\ \E clan \in Clan \union {None}, ally \in Ally \union {None},
        party \in Party \union {None}, leads \in BOOLEAN :
       UpsertPlayer(p, clan, ally, party, leads)
  /\ UNCHANGED <<cmd, raced>>

PlayerLogout(p) ==
  /\ RemovePlayer(p)
  /\ raced' = IF InFlight(p) THEN raced \union {p} ELSE raced \ {p}
  /\ UNCHANGED cmd

ClanLeaderChange ==
  /\ \E c \in Clan, p \in Player : UpsertClan(c, p)
  /\ UNCHANGED <<cmd, raced>>

CCChange ==
  /\ ChannelChange
  /\ UNCHANGED <<playerVars, clanVars, mutes, cmd, raced>>

-----------------------------------------------------------------------------
Goroutine(a) ==
  \/ AuthorizePromote(a) \/ AuthorizeMode(a) \/ AuthorizeMute(a)
  \/ AuthorizeOptOut(a) \/ AuthorizeGrant(a)
  \/ Fetch(a) \/ Apply(a)

CNext ==
  \/ \E p \in Player : Goroutine(p) \/ PlayerChange(p) \/ PlayerLogout(p)
  \/ ClanLeaderChange
  \/ CCChange

CSpec == CInit /\ [][CNext]_vars

-----------------------------------------------------------------------------
CommandsTypeOK ==
  /\ TypeOK
  /\ cmd \in [Player -> Command]
  /\ raced \subseteq Player

\* A sub-leader flag, a mode or a remote mute that outlives the player it
\* belongs to has one cause only: the removal of that player fell between the
\* authorization of a command naming it and the command's effect.  With no such
\* race RemovePlayer and the authorization checks together leave nothing behind.
GhostNeedsRace ==
  \A p \in Player \ online :
    \/ p \in raced
    \/ /\ \A c \in Clan : p \notin subLeaders[c] /\ modeSetBy[c] # p
       /\ \A m \in mutes : p \notin {m.muter, m.target}
=============================================================================
