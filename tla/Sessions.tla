------------------------------ MODULE Sessions ------------------------------
(***************************************************************************)
(* The life of a voice connection: handleWS (control/ws.go) with the two   *)
(* tables it fills, the session table topology.State and the client table  *)
(* ConnReg (control/client.go), against the player_logout handler          *)
(* (social/redis.go), which the Redis goroutine and the bridge goroutines  *)
(* run side by side.                                                       *)
(*                                                                         *)
(* A connection is one TCP connection and the goroutine serving it; its    *)
(* name doubles as the session id, which AllocSession never hands out      *)
(* twice.  Several connections may belong to one player: a client that     *)
(* lost its link reconnects while the server still holds the old socket.   *)
(* Every step takes one lock, or does one blocking operation.              *)
(***************************************************************************)
EXTENDS Integers, FiniteSets

CONSTANTS Player, Conn, Dispatcher, None

ASSUME SessionsAssumption == None \notin Player \union Conn

VARIABLES
  inWorld,  \* characters in the game world, as L2J knows them
  open,     \* connections whose socket is not closed
  pc,       \* how far handleWS has come
  who,      \* the player whoami resolved for the connection
  bySID,    \* topology.State.bySID
  byPlayer, \* topology.State.byPlayer
  clients,  \* ConnReg.clients
  byPID,    \* ConnReg.byPID
  known,    \* players WorldState has a record of
  pending,  \* player_logout events a dispatcher has yet to take
  job,      \* the player_logout event a dispatcher is handling
  newest    \* history: the connection of each player that registered last

connVars == <<open, pc, who>>
topoVars == <<bySID, byPlayer>>
regVars == <<clients, byPID>>
eventVars == <<inWorld, pending, job>>
vars == <<connVars, topoVars, regVars, known, eventVars, newest>>

Stage == {"none", "lookup", "resolved", "allocated", "joined", "registered",
          "serving", "leaving", "unregistered", "dropped", "done"}

Job == [stage : {"idle", "found", "dropped", "removed", "closing"},
        player : Player \union {None},
        conn : Conn \union {None}]

NoJob == [stage |-> "idle", player |-> None, conn |-> None]

Init ==
  /\ inWorld = {}
  /\ open = {}
  /\ pc = [c \in Conn |-> "none"]
  /\ who = [c \in Conn |-> None]
  /\ bySID = {}
  /\ byPlayer = [p \in Player |-> None]
  /\ clients = {}
  /\ byPID = [p \in Player |-> None]
  /\ known = {}
  /\ pending = [d \in Dispatcher |-> {}]
  /\ job = [d \in Dispatcher |-> NoJob]
  /\ newest = [p \in Player |-> None]

Transition(c, from, to) ==
  /\ pc[c] = from
  /\ pc' = [pc EXCEPT ![c] = to]

-----------------------------------------------------------------------------
\* topology.State

AllocSession(c, p) ==
  /\ bySID' = bySID \union {c}
  /\ byPlayer' = [byPlayer EXCEPT ![p] = c]

\* Mutants: the player's entry outlives the session; only the session the
\* player's entry names is dropped.
DropKeepsEntry(c) == bySID' = bySID \ {c} /\ byPlayer' = byPlayer

DropIfCurrent(c) ==
  IF c \in bySID /\ byPlayer[who[c]] = c
  THEN bySID' = bySID \ {c} /\ byPlayer' = [byPlayer EXCEPT ![who[c]] = None]
  ELSE UNCHANGED topoVars

\* Drop clears the player's entry whichever session it names.
Drop(c) ==
  /\ bySID' = bySID \ {c}
  /\ byPlayer' = IF c \in bySID THEN [byPlayer EXCEPT ![who[c]] = None]
                                ELSE byPlayer

-----------------------------------------------------------------------------
\* ConnReg

AddClient(c, p) ==
  /\ clients' = clients \union {c}
  /\ byPID' = [byPID EXCEPT ![p] = c]
  /\ newest' = [newest EXCEPT ![p] = c]

\* Mutant: the player's entry goes with any of its connections.
RemoveClientAnyway(c) ==
  /\ clients' = clients \ {c}
  /\ byPID' = IF c \in clients THEN [byPID EXCEPT ![who[c]] = None] ELSE byPID

RemoveClient(c) ==
  /\ clients' = clients \ {c}
  /\ byPID' = IF c \in clients /\ byPID[who[c]] = c
              THEN [byPID EXCEPT ![who[c]] = None]
              ELSE byPID

-----------------------------------------------------------------------------
\* handleWS: one connection.

\* The socket is accepted and the auth message read.
Connect(c) ==
  /\ Transition(c, "none", "lookup")
  /\ open' = open \union {c}
  /\ UNCHANGED <<who, topoVars, regVars, known, eventVars, newest>>

\* Mutant: the answer "not found" is taken for a player.
ResolveNobody(c) ==
  /\ Transition(c, "lookup", "resolved")
  /\ \E p \in inWorld \union {None} : who' = [who EXCEPT ![c] = p]
  /\ UNCHANGED <<open, topoVars, regVars, known, eventVars, newest>>

\* A bridge answers whoami with a character that is in the world.  Nobody
\* reads the socket meanwhile: the loop goes on after the client has left.
Resolve(c) ==
  /\ Transition(c, "lookup", "resolved")
  /\ \E p \in inWorld : who' = [who EXCEPT ![c] = p]
  /\ UNCHANGED <<open, topoVars, regVars, known, eventVars, newest>>

\* The 30 s auth window ends without an answer.
AuthTimeout(c) ==
  /\ Transition(c, "lookup", "done")
  /\ open' = open \ {c}
  /\ UNCHANGED <<who, topoVars, regVars, known, eventVars, newest>>

Alloc(c) ==
  /\ Transition(c, "resolved", "allocated")
  /\ AllocSession(c, who[c])
  /\ UNCHANGED <<open, who, regVars, known, eventVars, newest>>

\* UpsertPlayer, when the world does not know the player yet.
JoinWorld(c) ==
  /\ Transition(c, "allocated", "joined")
  /\ known' = known \union {who[c]}
  /\ UNCHANGED <<open, who, topoVars, regVars, eventVars, newest>>

Register(c) ==
  /\ Transition(c, "joined", "registered")
  /\ AddClient(c, who[c])
  /\ UNCHANGED <<open, who, topoVars, known, eventVars>>

\* Mutant: the handler returns before its deferred calls are in place.
SendAuthOkNoDefer(c) ==
  /\ \/ Transition(c, "registered", "serving")
     \/ c \notin open /\ Transition(c, "registered", "done")
  /\ UNCHANGED <<open, who, topoVars, regVars, known, eventVars, newest>>

\* auth_ok and the first client_state; a write to a closed socket may still
\* be buffered, or fail and end the handler.
SendAuthOk(c) ==
  /\ \/ Transition(c, "registered", "serving")
     \/ c \notin open /\ Transition(c, "registered", "leaving")
  /\ UNCHANGED <<open, who, topoVars, regVars, known, eventVars, newest>>

\* ReadMessage fails once the socket is closed.
ReadFails(c) ==
  /\ c \notin open
  /\ Transition(c, "serving", "leaving")
  /\ UNCHANGED <<open, who, topoVars, regVars, known, eventVars, newest>>

\* The deferred calls, last one first.
DeferUnregister(c) ==
  /\ Transition(c, "leaving", "unregistered")
  /\ RemoveClient(c)
  /\ UNCHANGED <<open, who, topoVars, known, eventVars, newest>>

DeferDrop(c) ==
  /\ Transition(c, "unregistered", "dropped")
  /\ Drop(c)
  /\ UNCHANGED <<open, who, regVars, known, eventVars, newest>>

DeferClose(c) ==
  /\ Transition(c, "dropped", "done")
  /\ open' = open \ {c}
  /\ UNCHANGED <<who, topoVars, regVars, known, eventVars, newest>>

Handler(c) ==
  \/ Resolve(c) \/ AuthTimeout(c) \/ Alloc(c) \/ JoinWorld(c) \/ Register(c)
  \/ SendAuthOk(c) \/ ReadFails(c)
  \/ DeferUnregister(c) \/ DeferDrop(c) \/ DeferClose(c)

-----------------------------------------------------------------------------
\* handleEvent, case "player_logout": one dispatcher.

AtStage(d, from, to, conn) ==
  /\ job[d].stage = from
  /\ job' = [job EXCEPT ![d] = [stage |-> to, player |-> job[d].player,
                                conn |-> conn]]

\* sess := state.LookupByPlayer(ev.PlayerID)
TakeLogout(d) ==
  \E p \in pending[d] :
    /\ job[d] = NoJob
    /\ pending' = [pending EXCEPT ![d] = @ \ {p}]
    /\ job' = [job EXCEPT ![d] = [stage |-> "found", player |-> p,
                                  conn |-> byPlayer[p]]]
    /\ UNCHANGED <<connVars, topoVars, regVars, known, inWorld, newest>>

LogoutDrop(d) ==
  /\ AtStage(d, "found", "dropped", None)
  /\ IF job[d].conn # None THEN Drop(job[d].conn) ELSE UNCHANGED topoVars
  /\ UNCHANGED <<connVars, regVars, known, inWorld, pending, newest>>

LogoutRemovePlayer(d) ==
  /\ AtStage(d, "dropped", "removed", None)
  /\ known' = known \ {job[d].player}
  /\ UNCHANGED <<connVars, topoVars, regVars, inWorld, pending, newest>>

\* CloseByPlayer looks the client up under its lock and closes it after.
LogoutFindClient(d) ==
  /\ AtStage(d, "removed", "closing", byPID[job[d].player])
  /\ UNCHANGED <<connVars, topoVars, regVars, known, inWorld, pending, newest>>

LogoutClose(d) ==
  /\ job[d].stage = "closing"
  /\ job' = [job EXCEPT ![d] = NoJob]
  /\ open' = open \ {job[d].conn}
  /\ UNCHANGED <<pc, who, topoVars, regVars, known, inWorld, pending, newest>>

Dispatch(d) ==
  \/ TakeLogout(d) \/ LogoutDrop(d) \/ LogoutRemovePlayer(d)
  \/ LogoutFindClient(d) \/ LogoutClose(d)

-----------------------------------------------------------------------------
\* The game: characters come and go, clients and networks cut connections.

EnterWorld(p) ==
  /\ p \notin inWorld
  /\ inWorld' = inWorld \union {p}
  /\ UNCHANGED <<connVars, topoVars, regVars, known, pending, job, newest>>

\* Both transports carry the event.  Bound: a transport holds at most one
\* logout of a player.
LeaveWorld(p) ==
  /\ p \in inWorld
  /\ \A d \in Dispatcher : p \notin pending[d]
  /\ inWorld' = inWorld \ {p}
  /\ pending' = [d \in Dispatcher |-> pending[d] \union {p}]
  /\ UNCHANGED <<connVars, topoVars, regVars, known, job, newest>>

CutConnection(c) ==
  /\ c \in open
  /\ open' = open \ {c}
  /\ UNCHANGED <<pc, who, topoVars, regVars, known, eventVars, newest>>

Environment ==
  \/ \E p \in Player : EnterWorld(p) \/ LeaveWorld(p)
  \/ \E c \in Conn : Connect(c) \/ CutConnection(c)

Next ==
  \/ \E c \in Conn : Handler(c)
  \/ \E d \in Dispatcher : Dispatch(d)
  \/ Environment

Spec == Init /\ [][Next]_vars

\* Goroutines are scheduled, and every call they block in ends: the auth loop
\* has a deadline, a write ends when TCP gives the peer up, and a closed socket
\* fails its reads.
Fairness ==
  /\ \A c \in Conn : WF_vars(Handler(c))
  /\ \A d \in Dispatcher : WF_vars(Dispatch(d))

FairSpec == Spec /\ Fairness
-----------------------------------------------------------------------------
TypeOK ==
  /\ inWorld \subseteq Player
  /\ open \subseteq Conn
  /\ pc \in [Conn -> Stage]
  /\ who \in [Conn -> Player \union {None}]
  /\ bySID \subseteq Conn
  /\ byPlayer \in [Player -> Conn \union {None}]
  /\ clients \subseteq Conn
  /\ byPID \in [Player -> Conn \union {None}]
  /\ known \subseteq Player
  /\ pending \in [Dispatcher -> SUBSET Player]
  /\ job \in [Dispatcher -> Job]
  /\ newest \in [Player -> Conn \union {None}]

\* A lookup by player never yields a session that was dropped, a client that
\* was unregistered, or one of somebody else: reconnects, overlapping handlers
\* and logouts leave no dangling entry in either index.
IndexesSound ==
  \A p \in Player :
    /\ byPlayer[p] # None => byPlayer[p] \in bySID /\ who[byPlayer[p]] = p
    /\ byPID[p] # None => byPID[p] \in clients /\ who[byPID[p]] = p

\* A handler that has ended leaves neither a session nor a client behind, on
\* whichever path it ended: sessions exist only between AllocSession and the
\* deferred Drop, clients exactly between Register and the deferred Unregister.
NoLeak ==
  /\ \A c \in bySID :
       pc[c] \in {"allocated", "joined", "registered", "serving", "leaving", "unregistered"}
  /\ clients = {c \in Conn : pc[c] \in {"registered", "serving", "leaving"}}

\* ConnReg delivers to the connection that registered last for as long as it
\* is registered, however many older connections of the player end meanwhile;
\* once it is gone, no older one is taken for it.
NewestReachable ==
  \A p \in Player :
    /\ newest[p] \in clients => byPID[p] = newest[p]
    /\ byPID[p] \in {None, newest[p]}

\* A connection whose socket is closed is eventually forgotten by both tables,
\* also when it closes while its handler is still waiting for whoami.
ClosedIsForgotten ==
  \A c \in Conn :
    pc[c] # "none" /\ c \notin open ~> [](c \notin bySID \union clients)

\* "LookupByPlayer returns the session for an L2 character object id (or nil
\* if no session is currently registered for that player)".
SessionFindable ==
  \A p \in Player : byPlayer[p] = None => \A c \in bySID : who[c] # p
=============================================================================
