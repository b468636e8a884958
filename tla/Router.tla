------------------------------- MODULE Router -------------------------------
(***************************************************************************)
(* Route (voice-service/internal/router/router.go): who hears a packet on  *)
(* a group channel, on which channel, and whether their toggle is          *)
(* overridden.  Route only reads; here it reads one state of WorldState.   *)
(*                                                                         *)
(* A listener's preferences (PlayerPrefs) touch nothing else in            *)
(* WorldState, and every value of them can be met in every state of it, so *)
(* they are an argument.  Volumes are left out, and so is routeProximity:  *)
(* the server's callers of Route pass it the channels 1 to 4 only.         *)
(***************************************************************************)
EXTENDS World

CONSTANT Preferences   \* bound: the tables of preferences a run tries

Toggle == {"party", "clan", "ally"}

Pref == [enabled : SUBSET Toggle,          \* ChannelEnabled
         muted : SUBSET Player,            \* PerPlayerMute
         whisper : {"off", "always"}]      \* WhisperMode

ASSUME RouterAssumption == Preferences \subseteq [Player -> Pref]

Packet == [sender : Player, chan : Toggle \union {"cc"}, whisper : BOOLEAN]

Decision == [to : Player,
             egress : Toggle \union {"cc", "mode"},
             force : BOOLEAN]

-----------------------------------------------------------------------------
IsPriv(s) == RoleOf(s) \in {"leader", "subleader"}

\* Mutant: a clan that opted out is unified all the same.
modeActiveOptedOut(s) ==
  LET c == clanOf[s] IN c \in clans /\ mode[c] # None

modeActive(s) ==
  LET c == clanOf[s] IN c \in clans /\ mode[c] # None /\ c \notin optedOut

ChannelMembers(s) == ToSet(members[CommandChannel(s)])

\* What listener r's preferences say of a channel, and of a speaker.
Enabled(prefs, r, ch) == ch \in prefs[r].enabled
Mutes(prefs, r, s) == s \in prefs[r].muted

\* The recipients of a loop over `audience`: known players other than the
\* speaker who have not muted it.
Listeners(s, audience, prefs) ==
  {r \in (audience \intersect online) \ {s} : ~Mutes(prefs, r, s)}

routeParty(s, prefs) ==
  {[to |-> r, egress |-> "party", force |-> FALSE] :
     r \in {q \in Listeners(s, PartyMembers(s), prefs) : Enabled(prefs, q, "party")}}

routeClanOrAlly(s, audience, override, ch, prefs) ==
  {[to |-> r, egress |-> ch, force |-> override /\ ~Enabled(prefs, r, ch)] :
     r \in {q \in Listeners(s, audience, prefs) : override \/ Enabled(prefs, q, ch)}}

routeMode(s, prefs) ==
  {[to |-> r, egress |-> "mode", force |-> TRUE] :
     r \in Listeners(s, ClanMembers(clanOf[s]) \union AllyMembers(allyOf[s]), prefs)}

routeCC(s, prefs) ==
  {[to |-> r, egress |-> "cc", force |-> TRUE] :
     r \in Listeners(s, ChannelMembers(s), prefs)}

\* Which of Route's branches a packet takes; the order matters.  The whisper
\* branch also asks for a clan, which every privileged player has.
Branch(pkt) ==
  IF pkt.whisper /\ IsPriv(pkt.sender) THEN "whisper"
  ELSE IF pkt.chan \in {"clan", "ally"} /\ modeActive(pkt.sender) THEN "mode"
  ELSE pkt.chan

\* The scopes of a remote mute that silence a branch.
MuteScopes(branch) ==
  CASE branch \in {"whisper", "clan"} -> {"clan"}
    [] branch = "ally"                -> {"ally"}
    [] branch = "mode"                -> {"clan", "ally"}
    [] OTHER                          -> {}

Silenced(s, branch) == \E scope \in MuteScopes(branch) : IsRemotelyMuted(s, scope)

Route(pkt, prefs) ==
  LET s == pkt.sender
      branch == Branch(pkt)
  IN
  IF s \notin online \/ Silenced(s, branch) THEN {}
  ELSE CASE branch = "whisper" ->
              routeClanOrAlly(s, ClanMembers(clanOf[s]), TRUE, "clan", prefs)
         [] branch = "mode" -> routeMode(s, prefs)
         [] branch = "party" -> routeParty(s, prefs)
         [] branch = "clan" ->
              routeClanOrAlly(s, ClanMembers(clanOf[s]), IsPriv(s), "clan", prefs)
         [] branch = "ally" ->
              routeClanOrAlly(s, AllyMembers(allyOf[s]), IsPriv(s), "ally", prefs)
         [] branch = "cc" -> IF CCSpeakAllowed(s) THEN routeCC(s, prefs) ELSE {}

-----------------------------------------------------------------------------
\* The rules of the routing matrix (docs/DESIGN.pt-BR.md, Regras 1 to 7), told by
\* the channel a listener hears.

SameClan(s, r) == clanOf[s] # None /\ clanOf[r] = clanOf[s]
SameAlly(s, r) == allyOf[s] # None /\ allyOf[r] = allyOf[s]
SameParty(s, r) == partyOf[s] # None /\ partyOf[r] = partyOf[s]

Whispers(pkt) == pkt.whisper /\ IsPriv(pkt.sender)

\* The clans that share their channels for a mode: a clan that opted out keeps
\* its mode to itself (world/state.go:117).
InMode == {c \in clans \ optedOut : mode[c] # None}

\* "Se modo de clan ativo e A esta no clan ou ally" (DESIGN.pt-BR.md:124): the
\* sender belongs to a clan in a mode, or has an ally who does.
Unified(pkt) ==
  /\ pkt.chan \in {"clan", "ally"} /\ ~Whispers(pkt)
  /\ clanOf[pkt.sender] \notin optedOut
  /\ \E q \in online :
       /\ clanOf[q] \in InMode
       /\ SameClan(pkt.sender, q) \/ SameAlly(pkt.sender, q)

\* The packet is in the unified channel through the sender's alliance alone.
AlliesMode(pkt) == Unified(pkt) /\ clanOf[pkt.sender] \notin InMode

\* A toggle that is off hides a speaker, unless it is a leader or sub-leader;
\* a packet is forced exactly on those who turned the channel off.
ToggleRule(d, s, prefs) ==
  /\ Enabled(prefs, d.to, d.egress) \/ IsPriv(s)
  /\ d.force <=> ~Enabled(prefs, d.to, d.egress)

PartyRule(d, pkt, prefs) ==
  /\ pkt.chan = "party" /\ ~Whispers(pkt)
  /\ SameParty(pkt.sender, d.to)
  /\ Enabled(prefs, d.to, "party") /\ ~d.force

\* The clan and ally channels of a packet that no mode has unified.
ClanRule(d, pkt, prefs) ==
  /\ Whispers(pkt) \/ pkt.chan = "clan"
  /\ SameClan(pkt.sender, d.to)
  /\ ~IsRemotelyMuted(pkt.sender, "clan")
  /\ ToggleRule(d, pkt.sender, prefs)

AllyRule(d, pkt, prefs) ==
  /\ pkt.chan = "ally" /\ ~Whispers(pkt)
  /\ SameAlly(pkt.sender, d.to)
  /\ ~IsRemotelyMuted(pkt.sender, "ally")
  /\ ToggleRule(d, pkt.sender, prefs)

ModeRule(d, pkt) ==
  /\ SameClan(pkt.sender, d.to) \/ SameAlly(pkt.sender, d.to)
  /\ \A scope \in {"clan", "ally"} : ~IsRemotelyMuted(pkt.sender, scope)
  /\ d.force

ChannelRule(d, pkt) ==
  /\ pkt.chan = "cc" /\ ~Whispers(pkt)
  /\ CCSpeakAllowed(pkt.sender)
  /\ d.to \in ChannelMembers(pkt.sender)
  /\ d.force

\* `unified`: the packet goes to the unified channel of a mode, which replaces
\* clan and ally.
Rule(d, pkt, prefs, unified) ==
  /\ {pkt.sender, d.to} \subseteq online /\ d.to # pkt.sender
  /\ ~Mutes(prefs, d.to, pkt.sender)
  /\ \/ d.egress = "party" /\ PartyRule(d, pkt, prefs)
     \/ d.egress = "clan" /\ ~unified /\ ClanRule(d, pkt, prefs)
     \/ d.egress = "ally" /\ ~unified /\ AllyRule(d, pkt, prefs)
     \/ d.egress = "mode" /\ unified /\ ModeRule(d, pkt)
     \/ d.egress = "cc" /\ ChannelRule(d, pkt)

Matrix(pkt, prefs, unified) == {d \in Decision : Rule(d, pkt, prefs, unified)}

-----------------------------------------------------------------------------
\* Whisper, clan mode, opt-out, roles, remote mutes, toggles and personal mutes
\* combine as the routing matrix says: Route decides exactly what the rules
\* allow, in every state WorldState can be in.  A remote mute silences every way
\* into its scope, a leader cannot be escaped by a toggle but can by a personal
\* mute, and nobody outside clan and alliance hears a mode.
\*
\* But for one disagreement.  modeActive (router.go:139-148) looks at the
\* sender's own clan only, whereas the matrix (DESIGN.pt-BR.md:78 and 124-127)
\* puts the allies of a clan in a mode into its unified channel too, and
\* world/state.go:120-121 speaks of the mode of an alliance: an ally from another
\* clan hears the mode, but what it says is routed as if there were none.
RouteFollowsMatrix ==
  \A pkt \in Packet, prefs \in Preferences :
    \/ Route(pkt, prefs) = Matrix(pkt, prefs, Unified(pkt))
    \/ AlliesMode(pkt) /\ Route(pkt, prefs) = Matrix(pkt, prefs, FALSE)
=============================================================================
