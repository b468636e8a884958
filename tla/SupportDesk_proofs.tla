------------------------- MODULE SupportDesk_proofs -------------------------
(***************************************************************************)
(* Proofs about module SupportDesk: types, the order in which answers are  *)
(* stored and the fate of a bug's changes, for any tickets, values, threads*)
(* and senders.                                                            *)
(***************************************************************************)
EXTENDS SupportDesk, TLAPS

\* g_pollActive keeps polls apart.
OnePoll ==
  \A j, k \in Thread : poll[j].at # "idle" /\ poll[k].at # "idle" => j = k

\* A conversation never shows more than there is.
ChatBehind == chat.id \in Ticket => chat.n <= messages[chat.id]

\* An answer on its way to the window is as good as what the window shows.
AnswerFresh ==
  \A k \in Thread : poll[k].at \in {"own ok", "chat ok"} =>
    /\ poll[k].body.id \in Ticket
    /\ poll[k].body.n <= messages[poll[k].body.id]
    /\ chat.id = poll[k].body.id => chat.n <= poll[k].body.n

\* Every update in flight says what the game master chose last.
UpdatesAgree ==
  wanted # NoChoice =>
    /\ \A s \in Sender : posts[s].kind = "update" => posts[s].to = wanted
    /\ ~InFlight => record = wanted

IInv == TypeOK /\ OnePoll /\ ChatBehind /\ AnswerFresh /\ UpdatesAgree

-----------------------------------------------------------------------------
(* Data.                                                                   *)

\* The empty bug and the empty chat have their types.
LEMMA NoBugType == NoBug \in Bug
  BY SupportAssumption DEF NoBug, Bug

\* The same of the chat shown before anything was loaded.
LEMMA NoChatType == NoChat \in Chat
  BY SupportAssumption DEF NoChat, Chat

\* Counts of messages are numbers.
LEMMA Counts ==
  ASSUME TypeOK
  PROVE  /\ chat.n \in Nat
         /\ \A t \in Ticket : messages[t] \in Nat
         /\ \A k \in Thread : poll[k].body.n \in Nat
  <1>1. chat.n \in 0 .. MaxMessages
    BY DEF TypeOK, Chat
  <1>2. \A t \in Ticket : messages[t] \in 0 .. MaxMessages
    BY DEF TypeOK
  <1>3. \A k \in Thread : poll[k].body.n \in 0 .. MaxMessages
    BY DEF TypeOK, Chat
  <1> QED
    BY <1>1, <1>2, <1>3, SupportAssumption

\* A change is a bug, and no bug is taken for the absence of a choice.
LEMMA ChangedType ==
  ASSUME TypeOK, NEW field \in Field, NEW v \in Value
  PROVE  With(bug, field, v) \in Bug /\ NoChoice \notin Bug
  BY SupportAssumption DEF TypeOK, With, Bug, NoChoice

\* What a POST leaves behind: messages only grow, and only an update changes the bug.
LEMMA EffectType ==
  ASSUME TypeOK, NEW s \in Sender, Effect(posts[s])
  PROVE  /\ messages' \in [Ticket -> 0 .. MaxMessages]
         /\ record' \in Bug
         /\ \A t \in Ticket : messages[t] <= messages'[t]
         /\ posts[s].kind # "update" => record' = record
         /\ posts[s].kind = "update" => record' = posts[s].to
  <1>1. /\ messages \in [Ticket -> 0 .. MaxMessages] /\ MaxMessages \in Nat
        /\ record \in Bug /\ posts[s] \in Post
    BY SupportAssumption DEF TypeOK
  <1>2. /\ messages' \in [Ticket -> 0 .. MaxMessages]
        /\ \A t \in Ticket : messages[t] <= messages'[t]
    <2>1. CASE messages' = messages
      BY <1>1, <2>1
    <2>2. CASE /\ posts[s].kind = "message" /\ messages[posts[s].to] < MaxMessages
               /\ posts[s].to # NoTicket
               /\ messages' = [messages EXCEPT ![posts[s].to] = @ + 1]
      <3>1. posts[s].to \in Ticket
        BY <1>1, <2>2 DEF Post, NoPost
      <3> QED
        BY <1>1, <2>2, <3>1
    <2> QED
      BY <2>1, <2>2 DEF Effect
  <1>3. posts[s].kind = "update" => posts[s].to \in Bug
    BY <1>1 DEF Post, NoPost
  <1> QED
    BY <1>1, <1>2, <1>3 DEF Effect

-----------------------------------------------------------------------------
(* The inductive invariant.                                                *)

\* The inductive invariant holds before the first poll.
LEMMA InitInv == Init => IInv
  <1> SUFFICES ASSUME Init PROVE IInv
    OBVIOUS
  <1> USE SupportAssumption DEF Init
  <1>1. TypeOK
    <2>1. poll \in [Thread -> [at : At, body : Chat, list : Bug]]
      BY NoBugType, NoChatType DEF IdlePoll, At
    <2>2. posts \in [Sender -> Post]
      BY DEF Post
    <2>3. \A k \in Thread : poll[k].at = "idle"
      BY DEF IdlePoll
    <2>4. messages \in [Ticket -> 0 .. MaxMessages]
      OBVIOUS
    <2>5. /\ gm \in BOOLEAN /\ open \in BOOLEAN /\ recent \in BOOLEAN
          /\ listed \in BOOLEAN /\ offline \in BOOLEAN /\ up \in BOOLEAN
          /\ sel \in Ticket \union {NoTicket} /\ chat \in Chat
          /\ bug \in Bug /\ record \in Bug /\ wanted \in Bug
      BY NoBugType, NoChatType
    <2> QED
      BY <2>1, <2>2, <2>3, <2>4, <2>5 DEF TypeOK
  <1>2. OnePoll /\ ChatBehind /\ AnswerFresh
    BY DEF OnePoll, ChatBehind, AnswerFresh, IdlePoll, NoChat
  <1>3. UpdatesAgree
    BY DEF UpdatesAgree, NoPost
  <1> QED
    BY <1>1, <1>2, <1>3 DEF IInv

\* A step that only moves one poll on, within the order of its requests, keeps
\* the types and keeps polls apart.
LEMMA PollMoves ==
  ASSUME TypeOK, OnePoll, NEW k \in Thread, poll[k].at # "idle",
         NEW p \in [at : At, body : Chat, list : Bug],
         poll' = [poll EXCEPT ![k] = p],
         p.at \in {"chat", "chat ok"} => p.body.id \in Ticket
  PROVE  /\ poll' \in [Thread -> [at : At, body : Chat, list : Bug]]
         /\ \A j \in Thread : poll'[j].at \in {"chat", "chat ok"} => poll'[j].body.id \in Ticket
         /\ OnePoll'
         /\ \A j \in Thread : j # k => poll'[j].at = "idle"
         /\ poll'[k] = p
  <1>1. \A j \in Thread : poll'[j] = IF j = k THEN p ELSE poll[j]
    BY DEF TypeOK
  <1>2. \A j \in Thread : j # k => poll[j].at = "idle"
    BY DEF OnePoll
  <1>3. OnePoll'
    BY <1>1, <1>2 DEF OnePoll
  <1> QED
    BY <1>1, <1>2, <1>3 DEF TypeOK

\* Every step of a poll.
LEMMA PollInv == ASSUME IInv, NEW k \in Thread, PollStep(k) PROVE IInv'
  <1> DEFINE P == [at : At, body : Chat, list : Bug]
  <1>1. /\ TypeOK /\ OnePoll /\ ChatBehind /\ AnswerFresh /\ UpdatesAgree
        /\ poll[k] \in P /\ poll[k].at \in At
    BY DEF IInv, TypeOK
  <1>2. UNCHANGED <<ui, recent, posts, up, service, wanted>>
    BY DEF PollStep, GetTickets, ReadSelection, ServeChat, StoreChat, ServeBugs, StoreBugs,
           copies
  <1>3. UpdatesAgree'
    BY <1>1, <1>2 DEF UpdatesAgree, InFlight, service
  \* What remains to be shown once the poll of k has become p.
  <1>4. ASSUME NEW p \in P, poll' = [poll EXCEPT ![k] = p], poll[k].at # "idle",
               p.at \in {"chat", "chat ok"} => p.body.id \in Ticket,
               listed' \in BOOLEAN, offline' \in BOOLEAN, chat' \in Chat, bug' \in Bug,
               ChatBehind',
               p.at \in {"own ok", "chat ok"} =>
                 /\ p.body.id \in Ticket
                 /\ p.body.n <= messages[p.body.id]
                 /\ chat'.id = p.body.id => chat'.n <= p.body.n
        PROVE  IInv'
    <2>1. /\ poll' \in [Thread -> P]
          /\ \A j \in Thread : poll'[j].at \in {"chat", "chat ok"} => poll'[j].body.id \in Ticket
          /\ OnePoll'
          /\ \A j \in Thread : j # k => poll'[j].at = "idle"
          /\ poll'[k] = p
      BY <1>1, <1>4, PollMoves
    <2>2. TypeOK'
      BY <1>1, <1>2, <1>4, <2>1 DEF TypeOK, ui, service
    <2>3. AnswerFresh'
      BY <1>2, <1>4, <2>1 DEF AnswerFresh, service
    <2> QED
      BY <1>3, <1>4, <2>1, <2>2, <2>3 DEF IInv
  <1>5. IdlePoll \in P /\ IdlePoll.at = "idle"
    BY NoBugType, NoChatType DEF IdlePoll, At
  <1>6. [IdlePoll EXCEPT !.at = "bugs"] \in P /\ [IdlePoll EXCEPT !.at = "bugs"].at = "bugs"
    BY NoBugType, NoChatType DEF IdlePoll, At
  <1>7. UNCHANGED chat => ChatBehind'
    BY <1>1, <1>2 DEF ChatBehind, service
  <1>8. CASE GetTickets(k)
    <2>1. CASE up
      <3> DEFINE p == [poll[k] EXCEPT !.at = "select"]
      <3>1. /\ poll' = [poll EXCEPT ![k] = p] /\ poll[k].at # "idle"
            /\ listed' = TRUE /\ offline' = FALSE /\ UNCHANGED <<chat, bug>>
        BY <1>1, <1>8, <2>1 DEF GetTickets, TypeOK
      <3>2. p \in P /\ p.at = "select"
        BY <1>1 DEF At
      <3> HIDE DEF p
      <3> QED
        BY <1>1, <1>4, <1>7, <3>1, <3>2 DEF TypeOK
    <2>2. CASE ~up
      <3>1. /\ poll' = [poll EXCEPT ![k] = IdlePoll] /\ poll[k].at # "idle"
            /\ offline' = TRUE /\ UNCHANGED <<listed, chat, bug>>
        BY <1>8, <2>2 DEF GetTickets
      <3> QED
        BY <1>1, <1>4, <1>5, <1>7, <3>1 DEF TypeOK
    <2> QED
      BY <2>1, <2>2
  <1>9. CASE ReadSelection(k)
    <2> DEFINE a == IF sel = NoTicket THEN "bugs" ELSE "chat"
               p == [poll[k] EXCEPT !.body.id = sel, !.at = a]
    <2>1. /\ poll' = [poll EXCEPT ![k] = p] /\ poll[k].at # "idle"
          /\ UNCHANGED <<listed, offline, chat, bug>>
      BY <1>1, <1>9 DEF ReadSelection, TypeOK, copies
    <2>2. sel \in Ticket \union {NoTicket} /\ a \in At
      BY <1>1 DEF TypeOK, At
    <2>3. p \in P /\ p.at = a /\ p.body.id = sel
      BY <1>1, <2>2 DEF Chat
    <2>4. a \in {"bugs", "chat"} /\ (a = "chat" => sel \in Ticket)
      BY <2>2
    <2> HIDE DEF p, a
    <2> QED
      BY <1>1, <1>4, <1>7, <2>1, <2>3, <2>4 DEF TypeOK
  <1>10. CASE ServeChat(k)
    <2> DEFINE t == IF poll[k].at = "own" THEN Mine ELSE poll[k].body.id
    <2>1. t \in Ticket /\ messages[t] \in 0 .. MaxMessages
      BY <1>1, <1>10, SupportAssumption DEF ServeChat, TypeOK
    <2>2. CASE up
      <3> DEFINE a == IF poll[k].at = "own" THEN "own ok" ELSE "chat ok"
                 p == [poll[k] EXCEPT !.body = [id |-> t, n |-> messages[t]], !.at = a]
      <3>1. /\ poll' = [poll EXCEPT ![k] = p] /\ poll[k].at # "idle"
            /\ UNCHANGED <<listed, offline, chat, bug>>
        BY <1>1, <1>10, <2>2 DEF ServeChat, TypeOK
      <3>2. [id |-> t, n |-> messages[t]] \in Chat /\ a \in At
        BY <2>1 DEF Chat, At
      <3>3. p \in P /\ p.body.id = t /\ p.body.n = messages[t] /\ p.at = a
        BY <1>1, <3>2
      <3>4. (chat.id = t => chat.n <= messages[t]) /\ messages[t] \in Nat
        BY <1>1, <2>1, Counts DEF ChatBehind
      <3>5. a \in {"own ok", "chat ok"}
        OBVIOUS
      <3> HIDE DEF p, a, t
      <3>6. /\ p.body.id \in Ticket /\ p.body.n <= messages[p.body.id]
            /\ chat'.id = p.body.id => chat'.n <= p.body.n
        BY <2>1, <3>1, <3>3, <3>4
      <3>7. listed' \in BOOLEAN /\ offline' \in BOOLEAN /\ chat' \in Chat /\ bug' \in Bug
        BY <1>1, <3>1 DEF TypeOK
      <3> QED
        BY <1>4, <1>7, <3>1, <3>3, <3>5, <3>6, <3>7
    <2>3. CASE ~up
      <3>1. /\ \/ poll' = [poll EXCEPT ![k] = IdlePoll]
               \/ poll' = [poll EXCEPT ![k] = [IdlePoll EXCEPT !.at = "bugs"]]
            /\ poll[k].at # "idle"
            /\ offline' = TRUE \/ UNCHANGED offline
            /\ UNCHANGED <<listed, chat, bug>>
        BY <1>10, <2>3 DEF ServeChat
      <3> QED
        BY <1>1, <1>4, <1>5, <1>6, <1>7, <3>1 DEF TypeOK
    <2> QED
      BY <2>2, <2>3 DEF ServeChat
  <1>11. CASE StoreChat(k)
    <2>1. /\ \/ poll' = [poll EXCEPT ![k] = IdlePoll]
             \/ poll' = [poll EXCEPT ![k] = [IdlePoll EXCEPT !.at = "bugs"]]
          /\ poll[k].at \in {"own ok", "chat ok"}
          /\ chat' = poll[k].body
          /\ offline' = FALSE \/ UNCHANGED offline
          /\ UNCHANGED <<listed, bug>>
      BY <1>11 DEF StoreChat
    <2>2. chat' \in Chat
      BY <1>1, <2>1
    <2>3. ChatBehind'
      BY <1>1, <1>2, <2>1 DEF AnswerFresh, ChatBehind, service
    <2> QED
      BY <1>1, <1>4, <1>5, <1>6, <2>1, <2>2, <2>3 DEF TypeOK
  <1>12. CASE ServeBugs(k)
    <2>1. CASE up
      <3> DEFINE p == [poll[k] EXCEPT !.at = "bugs ok", !.list = record]
      <3>1. /\ poll' = [poll EXCEPT ![k] = p] /\ poll[k].at # "idle"
            /\ UNCHANGED <<listed, offline, chat, bug>>
        BY <1>1, <1>12, <2>1 DEF ServeBugs, copies
      <3>2. p \in P /\ p.at = "bugs ok"
        BY <1>1 DEF At, TypeOK
      <3> HIDE DEF p
      <3> QED
        BY <1>1, <1>4, <1>7, <3>1, <3>2 DEF TypeOK
    <2>2. CASE ~up
      <3>1. /\ poll' = [poll EXCEPT ![k] = IdlePoll] /\ poll[k].at # "idle"
            /\ UNCHANGED <<listed, offline, chat, bug>>
        BY <1>12, <2>2 DEF ServeBugs, copies
      <3> QED
        BY <1>1, <1>4, <1>5, <1>7, <3>1 DEF TypeOK
    <2> QED
      BY <2>1, <2>2
  <1>13. CASE StoreBugs(k)
    <2>1. /\ poll' = [poll EXCEPT ![k] = IdlePoll] /\ poll[k].at # "idle"
          /\ bug' = poll[k].list /\ UNCHANGED <<listed, offline, chat>>
      BY <1>13 DEF StoreBugs
    <2>2. bug' \in Bug
      BY <1>1, <2>1
    <2> QED
      BY <1>1, <1>4, <1>5, <1>7, <2>1, <2>2 DEF TypeOK
  <1> QED
    BY <1>8, <1>9, <1>10, <1>11, <1>12, <1>13 DEF PollStep

\* A request for a poll starts one only while none runs.
LEMMA RequestInv == ASSUME IInv, RequestPoll PROVE IInv'
  <1>1. /\ TypeOK /\ OnePoll /\ ChatBehind /\ AnswerFresh /\ UpdatesAgree
        /\ UNCHANGED <<ui, posts, copies, up, service, wanted>> /\ recent' = TRUE
    BY DEF IInv, RequestPoll
  <1>2. ChatBehind' /\ UpdatesAgree'
    BY <1>1 DEF ChatBehind, UpdatesAgree, InFlight, copies, service
  <1>3. CASE ~MayStart
    <2>1. UNCHANGED poll
      BY <1>3 DEF RequestPoll
    <2> QED
      BY <1>1, <1>2, <2>1 DEF IInv, TypeOK, OnePoll, AnswerFresh, ui, copies, service
  <1>4. CASE MayStart
    <2> DEFINE k == CHOOSE j \in Thread : Idle(j)
               a == IF gm THEN "tickets" ELSE "own"
    <2>1. poll' = [poll EXCEPT ![k].at = a]
      BY <1>4 DEF RequestPoll
    <2>2. \A j \in Thread : poll[j].at = "idle"
      BY <1>4 DEF MayStart, Idle
    <2>3. a \in At /\ a \notin {"chat", "chat ok", "own ok"}
      BY DEF At
    <2> HIDE DEF k, a
    <2>4. \A j \in Thread : /\ poll[j] \in [at : At, body : Chat, list : Bug]
                            /\ poll'[j] = IF j = k THEN [poll[j] EXCEPT !.at = a] ELSE poll[j]
      BY <1>1, <2>1 DEF TypeOK
    <2>5. \A j \in Thread : /\ poll'[j] \in [at : At, body : Chat, list : Bug]
                            /\ poll'[j].at = IF j = k THEN a ELSE "idle"
      BY <2>2, <2>3, <2>4
    <2>6. poll' \in [Thread -> [at : At, body : Chat, list : Bug]]
      BY <1>1, <2>1, <2>5 DEF TypeOK
    <2>7. TypeOK'
      BY <1>1, <2>3, <2>5, <2>6 DEF TypeOK, ui, copies, service
    <2>8. OnePoll' /\ AnswerFresh'
      BY <2>3, <2>5 DEF OnePoll, AnswerFresh
    <2> QED
      BY <1>2, <2>7, <2>8 DEF IInv
  <1> QED
    BY <1>3, <1>4

\* A message is sent, or a change of the bug.
LEMMA SendInv ==
  ASSUME IInv, NEW s \in Sender,
         SendMessage(s) \/ \E field \in Field, v \in Value : ChangeBug(s, field, v)
  PROVE  IInv'
  <1>1. /\ TypeOK /\ OnePoll /\ ChatBehind /\ AnswerFresh /\ UpdatesAgree
        /\ UNCHANGED <<ui, recent, poll, copies, up, service>>
    BY DEF IInv, SendMessage, ChangeBug
  <1>2. OnePoll' /\ ChatBehind' /\ AnswerFresh'
    BY <1>1 DEF OnePoll, ChatBehind, AnswerFresh, copies, service
  <1>3. ASSUME NEW p \in Post, posts' = [posts EXCEPT ![s] = p],
               wanted' \in Bug \union {NoChoice}
        PROVE  TypeOK'
    BY <1>1, <1>3 DEF TypeOK, ui, copies, service
  <1>4. CASE SendMessage(s)
    <2> DEFINE p == [kind |-> "message", to |-> IF gm THEN chat.id ELSE Mine]
    <2>1. posts[s] = NoPost /\ posts' = [posts EXCEPT ![s] = p] /\ wanted' = wanted
      BY <1>4 DEF SendMessage, Send
    <2>2. p \in Post /\ p.kind # "update"
      BY <1>1, SupportAssumption DEF Post, TypeOK, Chat
    <2> HIDE DEF p
    <2>3. TypeOK'
      BY <1>1, <1>3, <2>1, <2>2 DEF TypeOK
    <2>4. \A r \in Sender : posts'[r] = IF r = s THEN p ELSE posts[r]
      BY <1>1, <2>1 DEF TypeOK
    <2>5. posts[s].kind # "update"
      BY <2>1 DEF NoPost
    <2>6. UpdatesAgree'
      BY <1>1, <2>1, <2>2, <2>4, <2>5 DEF UpdatesAgree, InFlight, service
    <2> QED
      BY <1>2, <2>3, <2>6 DEF IInv
  <1>5. ASSUME NEW field \in Field, NEW v \in Value, ChangeBug(s, field, v)
        PROVE  IInv'
    <2> DEFINE b == With(bug, field, v)
               p == [kind |-> "update", to |-> b]
    <2>0. b \in Bug
      BY <1>1, ChangedType
    <2>1. /\ posts[s] = NoPost /\ posts' = [posts EXCEPT ![s] = p]
          /\ wanted' = IF InFlight \/ bug # wanted THEN NoChoice ELSE b
      BY <1>5 DEF ChangeBug, Send, Changed
    <2>2. p \in Post /\ p.kind = "update" /\ p.to = b
      BY <2>0 DEF Post
    <2> HIDE DEF p, b
    <2>3. TypeOK'
      BY <1>3, <2>0, <2>1, <2>2
    <2>4. \A r \in Sender : posts'[r] = IF r = s THEN p ELSE posts[r]
      BY <1>1, <2>1 DEF TypeOK
    <2>5. InFlight'
      BY <2>2, <2>4 DEF InFlight
    <2>6. UpdatesAgree'
      BY <2>1, <2>2, <2>4, <2>5 DEF UpdatesAgree, InFlight
    <2> QED
      BY <1>2, <2>3, <2>6 DEF IInv
  <1> QED
    BY <1>4, <1>5

\* A POST ends, with or without its effect.
LEMMA PostEndsInv ==
  ASSUME IInv, NEW s \in Sender, SendSucceeds(s) \/ SendFails(s)
  PROVE  IInv'
  <1>1. /\ TypeOK /\ OnePoll /\ ChatBehind /\ AnswerFresh /\ UpdatesAgree
        /\ UNCHANGED <<ui, poll, copies, up>>
        /\ posts' = [posts EXCEPT ![s] = NoPost] /\ posts[s] # NoPost
    BY DEF IInv, SendSucceeds, SendFails
  <1>2. recent' \in BOOLEAN /\ wanted' \in {wanted, NoChoice}
    BY <1>1 DEF SendSucceeds, SendFails, TypeOK
  <1>3. Effect(posts[s]) \/ (SendFails(s) /\ UNCHANGED service)
    BY DEF SendSucceeds, SendFails
  <1>4. /\ messages' \in [Ticket -> 0 .. MaxMessages] /\ record' \in Bug
        /\ \A t \in Ticket : messages[t] <= messages'[t]
    <2>1. CASE Effect(posts[s])
      BY <1>1, <2>1, EffectType
    <2>2. CASE UNCHANGED service
      <3>1. messages' = messages /\ record' = record
        BY <2>2 DEF service
      <3>2. \A t \in Ticket : messages[t] <= messages[t]
        BY <1>1, Counts
      <3> QED
        BY <1>1, <3>1, <3>2 DEF TypeOK
    <2> QED
      BY <1>3, <2>1, <2>2
  <1>5. posts' \in [Sender -> Post]
    BY <1>1 DEF TypeOK, Post
  <1>6. TypeOK'
    BY <1>1, <1>2, <1>4, <1>5 DEF TypeOK, ui, copies
  <1>7. OnePoll'
    BY <1>1 DEF OnePoll
  <1>8. ChatBehind'
    <2>1. UNCHANGED chat
      BY <1>1 DEF copies
    <2>2. ASSUME chat.id \in Ticket PROVE chat.n <= messages'[chat.id]
      <3>1. /\ chat.n \in Nat /\ messages[chat.id] \in Nat /\ messages'[chat.id] \in Nat
        BY <1>1, <1>4, <2>2, Counts, SupportAssumption
      <3>2. chat.n <= messages[chat.id] /\ messages[chat.id] <= messages'[chat.id]
        BY <1>1, <1>4, <2>2 DEF ChatBehind
      <3> QED
        BY <3>1, <3>2
    <2> QED
      BY <2>1, <2>2 DEF ChatBehind
  <1>9. AnswerFresh'
    <2>1. UNCHANGED <<chat, poll>>
      BY <1>1 DEF copies
    <2>2. ASSUME NEW k \in Thread, poll[k].at \in {"own ok", "chat ok"}
          PROVE  /\ poll[k].body.id \in Ticket
                 /\ poll[k].body.n <= messages'[poll[k].body.id]
                 /\ chat.id = poll[k].body.id => chat.n <= poll[k].body.n
      <3>1. /\ poll[k].body.id \in Ticket
            /\ poll[k].body.n <= messages[poll[k].body.id]
            /\ chat.id = poll[k].body.id => chat.n <= poll[k].body.n
        BY <1>1, <2>2 DEF AnswerFresh
      <3>2. /\ poll[k].body.n \in Nat /\ messages[poll[k].body.id] \in Nat
            /\ messages'[poll[k].body.id] \in Nat
        BY <1>1, <1>4, <3>1, Counts, SupportAssumption
      <3>3. messages[poll[k].body.id] <= messages'[poll[k].body.id]
        BY <1>4, <3>1
      <3> QED
        BY <3>1, <3>2, <3>3
    <2> QED
      BY <2>1, <2>2 DEF AnswerFresh
  <1>10. UpdatesAgree'
    <2>1. \A r \in Sender : posts'[r] = IF r = s THEN NoPost ELSE posts[r]
      BY <1>1 DEF TypeOK
    <2>2. NoPost.kind # "update"
      BY DEF NoPost
    <2>3. CASE posts[s].kind = "update"
      <3>1. CASE SendSucceeds(s)
        <4>1. record' = posts[s].to /\ wanted' = wanted
          BY <1>1, <2>3, <3>1, EffectType DEF SendSucceeds
        <4> QED
          BY <1>1, <2>1, <2>2, <2>3, <4>1 DEF UpdatesAgree, InFlight
      <3>2. CASE SendFails(s)
        BY <2>3, <3>2 DEF SendFails, UpdatesAgree
      <3> QED
        BY <3>1, <3>2
    <2>4. CASE posts[s].kind # "update"
      <3>1. record' = record
        BY <1>1, <1>3, <2>4, EffectType DEF service
      <3>2. wanted' = wanted
        BY <2>4 DEF SendSucceeds, SendFails
      <3>3. InFlight' <=> InFlight
        BY <2>1, <2>2, <2>4 DEF InFlight
      <3> QED
        BY <1>1, <2>1, <2>2, <3>1, <3>2, <3>3 DEF UpdatesAgree
    <2> QED
      BY <2>3, <2>4
  <1> QED
    BY <1>6, <1>7, <1>8, <1>9, <1>10 DEF IInv

\* Every step of the window, its threads and the service keeps it.
LEMMA NextInv == IInv /\ [Next]_vars => IInv'
  <1> SUFFICES ASSUME IInv, [Next]_vars PROVE IInv'
    OBVIOUS
  <1>1. CASE Frame \/ Background
    BY <1>1, RequestInv DEF Frame, Background
  <1>2. ASSUME NEW k \in Thread,
               \/ GetTickets(k) \/ ReadSelection(k) \/ ServeChat(k)
               \/ StoreChat(k) \/ ServeBugs(k) \/ StoreBugs(k)
        PROVE  IInv'
    BY <1>2, PollInv DEF PollStep
  <1>3. ASSUME NEW s \in Sender,
               SendMessage(s) \/ \E field \in Field, v \in Value : ChangeBug(s, field, v)
        PROVE  IInv'
    BY <1>3, SendInv
  <1>4. ASSUME NEW s \in Sender, SendSucceeds(s) \/ SendFails(s)
        PROVE  IInv'
    BY <1>4, PostEndsInv
  <1>5. CASE \/ \E t \in Ticket : SelectTicket(t)
             \/ ToggleWindow \/ TwoSecondsPass \/ ServiceChanges
             \/ UNCHANGED vars
    <2>1. /\ open' \in BOOLEAN /\ sel' \in Ticket \union {NoTicket}
          /\ recent' \in BOOLEAN /\ up' \in BOOLEAN
      BY <1>5 DEF IInv, TypeOK, SelectTicket, ToggleWindow, TwoSecondsPass, ServiceChanges,
           vars, ui
    <2>2. UNCHANGED <<gm, poll, posts, copies, service, wanted>>
      BY <1>5 DEF SelectTicket, ToggleWindow, TwoSecondsPass, ServiceChanges, vars, ui
    <2>3. TypeOK'
      BY <2>1, <2>2 DEF IInv, TypeOK, copies, service
    <2>4. OnePoll' /\ ChatBehind' /\ AnswerFresh' /\ UpdatesAgree'
      BY <2>2 DEF IInv, OnePoll, ChatBehind, AnswerFresh, UpdatesAgree, InFlight, copies,
           service
    <2> QED
      BY <2>3, <2>4 DEF IInv
  <1> QED
    BY <1>1, <1>2, <1>3, <1>4, <1>5 DEF Next

\* The inductive invariant holds of every behaviour.
THEOREM Invariant == Spec => []IInv
  BY InitInv, NextInv, PTL DEF Spec

\* Every variable keeps its type, and a poll asks for a chat of a ticket only.
THEOREM TypeCorrect == Spec => []TypeOK
  <1>1. IInv => TypeOK
    BY DEF IInv
  <1> QED
    BY <1>1, Invariant, PTL

\* The bug ends as it was chosen unless an update was lost or was sent from a list
\* that did not yet show the update before it (SendBugUpdateAsync).
THEOREM RevertNeedsOldListHolds == Spec => []RevertNeedsOldList
  <1>1. IInv => RevertNeedsOldList
    BY DEF IInv, UpdatesAgree, RevertNeedsOldList
  <1> QED
    BY <1>1, Invariant, PTL

\* A conversation on screen never loses a message it has shown
\* (PollSupportDataAsync: one poll at a time).
THEOREM NothingDisappearsHolds == Spec => NothingDisappears
  <1>1. ASSUME IInv, [Next]_vars PROVE chat'.id = chat.id => chat'.n >= chat.n
    <2>1. chat.n \in Nat
      BY <1>1, Counts DEF IInv
    <2>2. CASE \E k \in Thread : StoreChat(k)
      <3>1. PICK k \in Thread : chat' = poll[k].body /\ poll[k].at \in {"own ok", "chat ok"}
        BY <2>2 DEF StoreChat
      <3>2. poll[k].body.n \in Nat
        BY <1>1, Counts DEF IInv
      <3> QED
        BY <1>1, <2>1, <3>1, <3>2 DEF IInv, AnswerFresh
    <2>3. CASE ~\E k \in Thread : StoreChat(k)
      <3>1. UNCHANGED chat
        BY <1>1, <2>3 DEF Next, Frame, Background, RequestPoll, GetTickets, ReadSelection,
             ServeChat, ServeBugs, StoreBugs, SendMessage, ChangeBug, SendSucceeds, SendFails,
             SelectTicket, ToggleWindow, TwoSecondsPass, ServiceChanges, copies, vars
      <3> QED
        BY <2>1, <3>1
    <2> QED
      BY <2>2, <2>3
  <1>2. IInv /\ [Next]_vars => [chat'.id = chat.id => chat'.n >= chat.n]_vars
    BY <1>1
  <1> QED
    BY <1>2, Invariant, PTL DEF Spec, NothingDisappears
=============================================================================
