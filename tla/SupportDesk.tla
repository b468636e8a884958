---------------------------- MODULE SupportDesk ----------------------------
(***************************************************************************)
(* The support window of overlay.cpp: a player talks to the staff, or a    *)
(* game master (IsAdminName) answers tickets and edits bug reports.        *)
(*                                                                         *)
(* The game's thread draws the window and asks for a poll in every frame   *)
(* (and every ten seconds without the window); PollSupportDataAsync lets   *)
(* one poll run at a time and one start per two seconds.  A poll is a      *)
(* thread making GETs one after the other; every send is a thread of its   *)
(* own making one POST, and a POST that succeeds lets the next poll start  *)
(* at once.  The service behind support.php is external: it keeps the      *)
(* tickets and the bugs and may be down for a while.                       *)
(*                                                                         *)
(* One bug with two fields stands for the list of bugs; the staff chat and *)
(* the comments are read and replaced as the list of bugs is.  A ticket's  *)
(* messages are a count; closing and reopening are posts like a reply.     *)
(***************************************************************************)
EXTENDS Integers

CONSTANTS
  Ticket, NoTicket,
  Mine,            \* the ticket of the player who uses the window
  Value,           \* values of a field of a bug, numbered from 1
  MaxMessages,     \* bound: messages of a ticket
  Thread,          \* bound: polls that could run at a time
  Sender           \* bound: sends in flight

ASSUME SupportAssumption ==
  /\ NoTicket \notin Ticket /\ Mine \in Ticket
  /\ Value \subseteq Nat \ {0} /\ Value # {}
  /\ MaxMessages \in Nat

Bug == [status : Value, priority : Value]
Chat == [id : Ticket \union {NoTicket}, n : 0 .. MaxMessages]
NoChat == [id |-> NoTicket, n |-> 0]

VARIABLES
  gm,          \* the character is a game master
  open,        \* g_supportWindowOpen
  recent,      \* less than two seconds since g_lastPollMs
  poll,        \* [Thread -> what the poll is doing and the body it received]
  posts,       \* [Sender -> the POST in flight]
  listed,      \* g_adminTickets holds the tickets
  sel,         \* g_adminSelectedChatId
  chat,        \* g_adminActiveChat, or g_playerChat
  bug,         \* the bug in g_bugReports
  offline,     \* g_supportError says so
  up,          \* the service answers
  messages,    \* the service's messages of each ticket
  record,      \* the service's copy of the bug
  wanted       \* history: what the game master chose for the bug, or NoChoice
               \* once a change was lost or was made from an old list

ui == <<gm, open, sel>>
copies == <<listed, chat, bug, offline>>
service == <<messages, record>>
vars == <<ui, recent, poll, posts, copies, up, service, wanted>>

NoBug == [status |-> CHOOSE v \in Value : TRUE, priority |-> CHOOSE v \in Value : TRUE]
IdlePoll == [at |-> "idle", body |-> NoChat, list |-> NoBug]
Idle(k) == poll[k].at = "idle"
NoPost == [kind |-> "none"]
NoChoice == [status |-> 0, priority |-> 0]

Init ==
  /\ gm \in BOOLEAN /\ open = FALSE /\ recent = FALSE
  /\ sel = NoTicket /\ listed = FALSE /\ chat = NoChat /\ offline = FALSE
  /\ up = TRUE
  /\ messages = [t \in Ticket |-> 0]
  /\ record = NoBug
  /\ bug = record /\ wanted = record
  /\ poll = [k \in Thread |-> IdlePoll]
  /\ posts = [s \in Sender |-> NoPost]

----------------------------------------------------------------------------
(* PollSupportDataAsync.                                                   *)

\* Mutant: polls are not kept apart.
MayStartAlways == \E k \in Thread : Idle(k)

\* g_pollActive, which only the game's thread sets.
MayStart == \A k \in Thread : Idle(k)

\* The throttle is renewed first, so a request that finds a poll running uses
\* up the reset a send has made.
RequestPoll ==
  /\ ~recent /\ recent' = TRUE
  /\ IF MayStart
     THEN LET k == CHOOSE k \in Thread : Idle(k) IN
          poll' = [poll EXCEPT ![k].at = IF gm THEN "tickets" ELSE "own"]
     ELSE UNCHANGED poll
  /\ UNCHANGED <<ui, posts, copies, up, service, wanted>>

\* A frame with the window open, and the poll of every ten seconds.
Frame == open /\ RequestPoll
Background == ~open /\ RequestPoll

\* The service answers a GET of a chat, or nothing comes back.
ServeChat(k) ==
  /\ poll[k].at \in {"own", "chat"}
  /\ LET t == IF poll[k].at = "own" THEN Mine ELSE poll[k].body.id IN
     \/ /\ up
        /\ poll' = [poll EXCEPT ![k].body = [id |-> t, n |-> messages[t]],
                      ![k].at = IF @ = "own" THEN "own ok" ELSE "chat ok"]
        /\ UNCHANGED offline
     \/ /\ ~up
        /\ IF poll[k].at = "own"
           THEN offline' = TRUE /\ poll' = [poll EXCEPT ![k] = IdlePoll]
           ELSE poll' = [poll EXCEPT ![k] = [IdlePoll EXCEPT !.at = "bugs"]] /\ UNCHANGED offline
  /\ UNCHANGED <<ui, recent, posts, listed, chat, bug, up, service, wanted>>

\* The body replaces the copy of the chat.
StoreChat(k) ==
  /\ poll[k].at \in {"own ok", "chat ok"}
  /\ chat' = poll[k].body
  /\ IF poll[k].at = "own ok"
     THEN offline' = FALSE /\ poll' = [poll EXCEPT ![k] = IdlePoll]
     ELSE poll' = [poll EXCEPT ![k] = [IdlePoll EXCEPT !.at = "bugs"]] /\ UNCHANGED offline
  /\ UNCHANGED <<ui, recent, posts, listed, bug, up, service, wanted>>

\* A game master's poll begins with the tickets, and ends there if that fails.
GetTickets(k) ==
  /\ poll[k].at = "tickets"
  /\ IF up
     THEN listed' = TRUE /\ offline' = FALSE /\ poll' = [poll EXCEPT ![k].at = "select"]
     ELSE offline' = TRUE /\ poll' = [poll EXCEPT ![k] = IdlePoll] /\ UNCHANGED listed
  /\ UNCHANGED <<ui, recent, posts, chat, bug, up, service, wanted>>

\* Mutant: nothing selected is asked for all the same.
ReadSelectionUnchecked(k) ==
  /\ poll[k].at = "select"
  /\ poll' = [poll EXCEPT ![k].body.id = sel, ![k].at = "chat"]
  /\ UNCHANGED <<ui, recent, posts, copies, up, service, wanted>>

\* Mutant: the ticket on screen is refreshed instead of the one selected.
ReadSelectionShown(k) ==
  /\ poll[k].at = "select"
  /\ poll' = [poll EXCEPT ![k].body.id = IF chat = NoChat THEN sel ELSE chat.id,
                ![k].at = IF sel = NoTicket THEN "bugs" ELSE "chat"]
  /\ UNCHANGED <<ui, recent, posts, copies, up, service, wanted>>

\* The ticket selected at that moment is the one asked for.
ReadSelection(k) ==
  /\ poll[k].at = "select"
  /\ poll' = [poll EXCEPT ![k].body.id = sel,
                ![k].at = IF sel = NoTicket THEN "bugs" ELSE "chat"]
  /\ UNCHANGED <<ui, recent, posts, copies, up, service, wanted>>

ServeBugs(k) ==
  /\ poll[k].at = "bugs"
  /\ poll' = [poll EXCEPT ![k] =
                IF up THEN [@ EXCEPT !.at = "bugs ok", !.list = record] ELSE IdlePoll]
  /\ UNCHANGED <<ui, recent, posts, copies, up, service, wanted>>

StoreBugs(k) ==
  /\ poll[k].at = "bugs ok"
  /\ bug' = poll[k].list
  /\ poll' = [poll EXCEPT ![k] = IdlePoll]
  /\ UNCHANGED <<ui, recent, posts, listed, chat, offline, up, service, wanted>>

----------------------------------------------------------------------------
(* Sends.                                                                  *)

\* A send starts a thread with the values the window shows.
Send(s, p) == posts[s] = NoPost /\ posts' = [posts EXCEPT ![s] = p]

\* A player writes on its own ticket, a game master on the one displayed, which
\* need not be the one selected.
SendMessage(s) ==
  /\ open /\ gm => sel # NoTicket
  /\ Send(s, [kind |-> "message", to |-> IF gm THEN chat.id ELSE Mine])
  /\ UNCHANGED <<ui, recent, poll, copies, up, service, wanted>>

Field == {"status", "priority"}

With(b, field, v) ==
  [status   |-> IF field = "status" THEN v ELSE b.status,
   priority |-> IF field = "priority" THEN v ELSE b.priority]

\* Mutant: the other field is not sent along.
ChangedAlone(field, v) == With(NoBug, field, v)

\* The whole record travels, the other field as the list has it.
Changed(field, v) == With(bug, field, v)

InFlight == \E s \in Sender : posts[s].kind = "update"

\* A field of the bug is changed in the window (SendBugUpdateAsync).
ChangeBug(s, field, v) ==
  /\ open /\ gm /\ With(bug, field, v) # bug
  /\ Send(s, [kind |-> "update", to |-> Changed(field, v)])
  /\ wanted' = IF InFlight \/ bug # wanted THEN NoChoice ELSE With(bug, field, v)
  /\ UNCHANGED <<ui, recent, poll, copies, up, service>>

Effect(p) ==
  /\ messages' = IF p.kind = "message" /\ p.to # NoTicket /\ messages[p.to] < MaxMessages
                 THEN [messages EXCEPT ![p.to] = @ + 1] ELSE messages
  /\ record' = IF p.kind = "update" THEN p.to ELSE record

\* Status 200: the effect is there and the next poll may start.
SendSucceeds(s) ==
  /\ posts[s] # NoPost /\ up
  /\ Effect(posts[s])
  /\ recent' = FALSE
  /\ posts' = [posts EXCEPT ![s] = NoPost]
  /\ UNCHANGED <<ui, poll, copies, up, wanted>>

\* The request or its answer is lost; nobody is told and nothing is retried.
SendFails(s) ==
  /\ posts[s] # NoPost /\ ~up
  /\ Effect(posts[s]) \/ UNCHANGED service
  /\ posts' = [posts EXCEPT ![s] = NoPost]
  /\ wanted' = IF posts[s].kind = "update" THEN NoChoice ELSE wanted
  /\ UNCHANGED <<ui, recent, poll, copies, up>>

----------------------------------------------------------------------------
(* The user, the clock and the network.                                    *)

ToggleWindow ==
  /\ open' = ~open
  /\ UNCHANGED <<gm, sel, recent, poll, posts, copies, up, service, wanted>>

SelectTicket(t) ==
  /\ open /\ gm /\ listed /\ sel # t
  /\ sel' = t
  /\ UNCHANGED <<gm, open, recent, poll, posts, copies, up, service, wanted>>

TwoSecondsPass ==
  /\ recent
  /\ recent' = FALSE
  /\ UNCHANGED <<ui, poll, posts, copies, up, service, wanted>>

ServiceChanges ==
  /\ up' = ~up
  /\ UNCHANGED <<ui, recent, poll, posts, copies, service, wanted>>

PollStep(k) ==
  GetTickets(k) \/ ReadSelection(k) \/ ServeChat(k) \/ StoreChat(k) \/ ServeBugs(k) \/ StoreBugs(k)

Next ==
  \/ Frame \/ Background
  \/ \E k \in Thread :
       \/ GetTickets(k) \/ ReadSelection(k) \/ ServeChat(k) \/ StoreChat(k)
       \/ ServeBugs(k) \/ StoreBugs(k)
  \/ \E s \in Sender :
       \/ SendMessage(s) \/ SendSucceeds(s) \/ SendFails(s)
       \/ \E field \in Field, v \in Value : ChangeBug(s, field, v)
  \/ \E t \in Ticket : SelectTicket(t)
  \/ ToggleWindow \/ TwoSecondsPass \/ ServiceChanges

Spec == Init /\ [][Next]_vars

\* Frames are drawn, time passes and threads run; the user owes nothing.
FairSpec ==
  /\ Spec /\ WF_vars(Frame) /\ WF_vars(TwoSecondsPass)
  /\ \A k \in Thread : WF_vars(PollStep(k))
  /\ \A s \in Sender : WF_vars(SendSucceeds(s))

----------------------------------------------------------------------------
(* Properties.                                                             *)

At == {"idle", "own", "own ok", "tickets", "select", "chat", "chat ok", "bugs", "bugs ok"}
Post == {NoPost} \union [kind : {"message"}, to : Ticket \union {NoTicket}]
        \union [kind : {"update"}, to : Bug]

\* Types; a poll asks for a chat of a ticket, and at most one poll runs.
TypeOK ==
  /\ gm \in BOOLEAN /\ open \in BOOLEAN /\ recent \in BOOLEAN
  /\ listed \in BOOLEAN /\ offline \in BOOLEAN /\ up \in BOOLEAN
  /\ sel \in Ticket \union {NoTicket} /\ chat \in Chat
  /\ poll \in [Thread -> [at : At, body : Chat, list : Bug]]
  /\ posts \in [Sender -> Post]
  /\ messages \in [Ticket -> 0 .. MaxMessages]
  /\ bug \in Bug /\ record \in Bug /\ wanted \in Bug \union {NoChoice}
  /\ \A k \in Thread : poll[k].at \in {"chat", "chat ok"} => poll[k].body.id \in Ticket

\* A conversation on screen never loses a message it has shown: answers of two
\* polls are never stored in the wrong order (g_pollActive).
NothingDisappears == [][chat'.id = chat.id => chat'.n >= chat.n]_vars

Steady(t) == open /\ up /\ t = IF gm THEN sel ELSE Mine

\* While the window stays open on a ticket and the service answers, the feed
\* ends up with that ticket and every message of it, one's own included.
FeedCatchesUp ==
  \A t \in Ticket : <>[]Steady(t) => <>[](chat = [id |-> t, n |-> messages[t]])

\* A field of the bug differs from what was chosen for it only if an update was
\* lost or was sent before the list showed the one before it.
RevertNeedsOldList == wanted # NoChoice /\ ~InFlight => record = wanted
=============================================================================
