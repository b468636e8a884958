--------------------------- MODULE Sessions_proofs ---------------------------
(***************************************************************************)
(* Proofs about module Sessions: its type invariant and the three safety   *)
(* invariants of the session and client tables, for every set of players,  *)
(* connections and dispatchers.                                            *)
(***************************************************************************)
EXTENDS Sessions, TLAPS

\* The stages at which whoami has resolved the connection's player for good.
Owned == {"resolved", "allocated", "joined", "registered", "serving", "leaving",
          "unregistered", "dropped"}

OwnerKnown == \A c \in Conn : pc[c] \in Owned => who[c] \in Player

\* The connection that registered last for a player is that player's, and is
\* past the stage at which its player could still change.
NewestOwned ==
  \A p \in Player : newest[p] # None =>
    /\ who[newest[p]] = p
    /\ pc[newest[p]] \in {"registered", "serving", "leaving", "unregistered",
                          "dropped", "done"}

\* A dispatcher at work has a player to log out.
JobOwned == \A d \in Dispatcher : job[d].stage # "idle" => job[d].player \in Player

IInv ==
  TypeOK /\ OwnerKnown /\ JobOwned /\ NoLeak /\ IndexesSound /\ NewestOwned /\ NewestReachable

-----------------------------------------------------------------------------
\* Nothing is allocated or registered at the start.
LEMMA InitInv == Init => IInv
  <1> SUFFICES ASSUME Init PROVE IInv
    OBVIOUS
  <1> USE SessionsAssumption DEF Init
  <1>1. TypeOK
    BY DEF TypeOK, Stage, Job, NoJob
  <1>2. OwnerKnown /\ JobOwned /\ NoLeak
    BY DEF OwnerKnown, JobOwned, NoLeak, Owned, NoJob
  <1>3. IndexesSound /\ NewestOwned /\ NewestReachable
    BY DEF IndexesSound, NewestOwned, NewestReachable
  <1> QED
    BY <1>1, <1>2, <1>3 DEF IInv

\* Each step of a handler keeps the types.
LEMMA HandlerType == ASSUME TypeOK, OwnerKnown, NEW c \in Conn, Handler(c) PROVE TypeOK'
  <1> USE SessionsAssumption DEF TypeOK, connVars, topoVars, regVars, eventVars, Transition, Stage
  <1>1. CASE Resolve(c)
    BY <1>1 DEF Resolve
  <1>2. CASE AuthTimeout(c)
    BY <1>2 DEF AuthTimeout
  <1>3. CASE Alloc(c)
    BY <1>3 DEF Alloc, AllocSession, OwnerKnown, Owned
  <1>4. CASE JoinWorld(c)
    BY <1>4 DEF JoinWorld, OwnerKnown, Owned
  <1>5. CASE Register(c)
    BY <1>5 DEF Register, AddClient, OwnerKnown, Owned
  <1>6. CASE SendAuthOk(c) \/ ReadFails(c)
    BY <1>6 DEF SendAuthOk, ReadFails
  <1>7. CASE DeferUnregister(c)
    BY <1>7 DEF DeferUnregister, RemoveClient
  <1>8. CASE DeferDrop(c)
    BY <1>8 DEF DeferDrop, Drop
  <1>9. CASE DeferClose(c)
    BY <1>9 DEF DeferClose
  <1> QED
    BY <1>1, <1>2, <1>3, <1>4, <1>5, <1>6, <1>7, <1>8, <1>9 DEF Handler

\* Each step of a logout keeps the types, and the player it is about.
LEMMA DispatchType ==
  ASSUME TypeOK, JobOwned, NEW d \in Dispatcher, Dispatch(d)
  PROVE  TypeOK' /\ JobOwned'
  <1> USE SessionsAssumption
      DEF TypeOK, JobOwned, connVars, topoVars, regVars, eventVars, Job, NoJob
  <1>1. CASE TakeLogout(d)
    BY <1>1 DEF TakeLogout
  <1>2. CASE LogoutDrop(d)
    BY <1>2 DEF LogoutDrop, Drop, AtStage
  <1>3. CASE LogoutRemovePlayer(d)
    BY <1>3 DEF LogoutRemovePlayer, AtStage
  <1>4. CASE LogoutFindClient(d)
    BY <1>4 DEF LogoutFindClient, AtStage
  <1>5. CASE LogoutClose(d)
    BY <1>5 DEF LogoutClose
  <1> QED
    BY <1>1, <1>2, <1>3, <1>4, <1>5 DEF Dispatch

\* Each step of the game or the network keeps the types.
LEMMA EnvironmentType == ASSUME TypeOK, Environment PROVE TypeOK'
  <1> USE DEF TypeOK, connVars, topoVars, regVars, eventVars, Transition, Stage
  <1>1. ASSUME NEW p \in Player, EnterWorld(p) PROVE TypeOK'
    BY <1>1 DEF EnterWorld
  <1>2. ASSUME NEW p \in Player, LeaveWorld(p) PROVE TypeOK'
    BY <1>2 DEF LeaveWorld
  <1>3. ASSUME NEW c \in Conn, Connect(c) \/ CutConnection(c) PROVE TypeOK'
    BY <1>3 DEF Connect, CutConnection
  <1> QED
    BY <1>1, <1>2, <1>3 DEF Environment

-----------------------------------------------------------------------------
\* What the session table needs: owners, the stages that hold a session or a
\* client, and the two indexes.
Tables == OwnerKnown /\ NoLeak /\ IndexesSound

\* Dropping a session clears the one entry that could name it.
LEMMA DropTables ==
  ASSUME TypeOK, Tables, NEW c \in Conn, Drop(c), UNCHANGED <<who, regVars>>
  PROVE  /\ bySID' = bySID \ {c}
         /\ IndexesSound'
  <1>1. c \in bySID => who[c] \in Player
    BY DEF Tables, OwnerKnown, NoLeak, Owned, TypeOK
  <1>2. ASSUME NEW p \in Player, byPlayer'[p] # None
        PROVE  byPlayer'[p] \in bySID' /\ who[byPlayer'[p]] = p
    BY <1>1, <1>2 DEF Drop, Tables, IndexesSound, TypeOK
  <1> QED
    BY <1>2 DEF Drop, Tables, IndexesSound, regVars

\* Each step of a handler keeps the tables sound.
LEMMA HandlerTables ==
  ASSUME TypeOK, Tables, NEW c \in Conn, Handler(c) PROVE Tables'
  <1> USE SessionsAssumption
      DEF Tables, connVars, topoVars, regVars, eventVars, Transition
  <1>1. CASE Resolve(c)
    <2>1. c \notin bySID \union clients
      BY <1>1 DEF Resolve, NoLeak
    <2>2. NoLeak' /\ OwnerKnown'
      BY <1>1, <2>1 DEF Resolve, NoLeak, OwnerKnown, TypeOK, Owned
    <2>3. IndexesSound'
      BY <1>1, <2>1 DEF Resolve, IndexesSound, TypeOK
    <2> QED
      BY <2>2, <2>3
  <1>2. CASE AuthTimeout(c)
    BY <1>2 DEF AuthTimeout, OwnerKnown, NoLeak, IndexesSound, TypeOK, Owned
  <1>3. CASE Alloc(c)
    <2>1. who[c] \in Player
      BY <1>3 DEF Alloc, OwnerKnown, Owned
    <2>2. NoLeak' /\ OwnerKnown'
      BY <1>3 DEF Alloc, AllocSession, OwnerKnown, NoLeak, TypeOK, Owned
    <2>3. IndexesSound'
      BY <1>3, <2>1 DEF Alloc, AllocSession, IndexesSound, TypeOK
    <2> QED
      BY <2>2, <2>3
  <1>4. CASE JoinWorld(c)
    BY <1>4 DEF JoinWorld, OwnerKnown, NoLeak, IndexesSound, TypeOK, Owned
  <1>5. CASE Register(c)
    <2>1. who[c] \in Player
      BY <1>5 DEF Register, OwnerKnown, Owned
    <2>2. NoLeak' /\ OwnerKnown'
      BY <1>5 DEF Register, AddClient, OwnerKnown, NoLeak, TypeOK, Owned
    <2>3. IndexesSound'
      BY <1>5, <2>1 DEF Register, AddClient, IndexesSound, TypeOK
    <2> QED
      BY <2>2, <2>3
  <1>6. CASE SendAuthOk(c) \/ ReadFails(c)
    BY <1>6 DEF SendAuthOk, ReadFails, OwnerKnown, NoLeak, IndexesSound, TypeOK, Owned
  <1>7. CASE DeferUnregister(c)
    <2>1. c \in clients /\ who[c] \in Player
      BY <1>7 DEF DeferUnregister, OwnerKnown, NoLeak, Owned
    <2>2. NoLeak' /\ OwnerKnown'
      BY <1>7 DEF DeferUnregister, RemoveClient, OwnerKnown, NoLeak, TypeOK, Owned
    <2>3. IndexesSound'
      BY <1>7, <2>1 DEF DeferUnregister, RemoveClient, IndexesSound, TypeOK
    <2> QED
      BY <2>2, <2>3
  <1>8. CASE DeferDrop(c)
    <2>1. bySID' = bySID \ {c} /\ IndexesSound'
      BY <1>8, DropTables DEF DeferDrop
    <2>2. NoLeak' /\ OwnerKnown'
      BY <1>8, <2>1 DEF DeferDrop, OwnerKnown, NoLeak, TypeOK, Owned
    <2> QED
      BY <2>1, <2>2
  <1>9. CASE DeferClose(c)
    BY <1>9 DEF DeferClose, OwnerKnown, NoLeak, IndexesSound, TypeOK, Owned
  <1> QED
    BY <1>1, <1>2, <1>3, <1>4, <1>5, <1>6, <1>7, <1>8, <1>9 DEF Handler

\* Steps that leave the stages, the owners, the clients and every session that
\* is not dropped alone: a logout never touches ConnReg.
LEMMA DispatchTables ==
  ASSUME TypeOK, Tables, NEW d \in Dispatcher, Dispatch(d)
  PROVE  Tables' /\ UNCHANGED <<pc, who, regVars, newest>>
  <1>1. UNCHANGED <<pc, who, regVars, newest>>
    BY DEF Dispatch, TakeLogout, LogoutDrop, LogoutRemovePlayer, LogoutFindClient,
           LogoutClose, connVars
  <1>2. CASE LogoutDrop(d) /\ job[d].conn # None
    <2> DEFINE c == job[d].conn
    <2>1. c \in Conn /\ Drop(c)
      BY <1>2 DEF LogoutDrop, TypeOK, Job
    <2> HIDE DEF c
    <2>2. bySID' = bySID \ {c} /\ IndexesSound'
      BY <1>1, <2>1, DropTables
    <2> QED
      BY <1>1, <2>2 DEF Tables, OwnerKnown, NoLeak, regVars
  <1>3. CASE ~(LogoutDrop(d) /\ job[d].conn # None)
    <2>1. UNCHANGED topoVars
      BY <1>3 DEF Dispatch, TakeLogout, LogoutDrop, LogoutRemovePlayer,
                  LogoutFindClient, LogoutClose
    <2> QED
      BY <1>1, <2>1 DEF Tables, OwnerKnown, NoLeak, IndexesSound, topoVars, regVars
  <1> QED
    BY <1>1, <1>2, <1>3

\* The game and the network change no table; an accepted socket has no owner yet.
LEMMA EnvironmentTables ==
  ASSUME TypeOK, Tables, Environment
  PROVE  Tables' /\ UNCHANGED <<who, topoVars, regVars, newest, job>>
  <1> USE DEF connVars, eventVars, Transition
  <1>1. ASSUME NEW c \in Conn, Connect(c)
        PROVE  Tables' /\ UNCHANGED <<who, topoVars, regVars, newest, job>>
    BY <1>1 DEF Connect, Tables, OwnerKnown, NoLeak, IndexesSound, TypeOK, Owned,
                topoVars, regVars
  <1>2. ASSUME NEW c \in Conn, CutConnection(c)
        PROVE  Tables' /\ UNCHANGED <<who, topoVars, regVars, newest, job>>
    BY <1>2 DEF CutConnection, Tables, OwnerKnown, NoLeak, IndexesSound, topoVars, regVars
  <1>3. ASSUME NEW p \in Player, EnterWorld(p) \/ LeaveWorld(p)
        PROVE  Tables' /\ UNCHANGED <<who, topoVars, regVars, newest, job>>
    BY <1>3 DEF EnterWorld, LeaveWorld, Tables, OwnerKnown, NoLeak, IndexesSound,
                topoVars, regVars
  <1> QED
    BY <1>1, <1>2, <1>3 DEF Environment

-----------------------------------------------------------------------------
Newest == NewestOwned /\ NewestReachable

\* A handler's steps keep the latest registration reachable.
LEMMA HandlerNewest ==
  ASSUME TypeOK, Tables, Newest, NEW c \in Conn, Handler(c) PROVE Newest'
  <1> USE SessionsAssumption
      DEF Newest, connVars, regVars, eventVars, Transition, TypeOK
  <1>1. CASE Resolve(c)
    BY <1>1 DEF Resolve, NewestOwned, NewestReachable
  <1>2. CASE Register(c)
    <2>1. who[c] \in Player /\ \A p \in Player : newest[p] # c
      BY <1>2 DEF Register, Tables, OwnerKnown, Owned, NewestOwned
    <2>2. /\ newest' = [newest EXCEPT ![who[c]] = c]
          /\ byPID' = [byPID EXCEPT ![who[c]] = c]
          /\ clients' = clients \union {c}
          /\ pc' = [pc EXCEPT ![c] = "registered"]
          /\ who' = who
      BY <1>2 DEF Register, AddClient
    <2>3. NewestOwned'
      BY <2>1, <2>2 DEF NewestOwned
    <2>4. NewestReachable'
      BY <2>1, <2>2 DEF NewestReachable
    <2> QED
      BY <2>3, <2>4
  <1>3. CASE DeferUnregister(c)
    <2>1. NewestOwned'
      BY <1>3 DEF DeferUnregister, NewestOwned
    <2>2. NewestReachable'
      BY <1>3 DEF DeferUnregister, RemoveClient, NewestOwned, NewestReachable
    <2> QED
      BY <2>1, <2>2
  <1>4. CASE AuthTimeout(c) \/ Alloc(c) \/ JoinWorld(c)
    BY <1>4 DEF AuthTimeout, Alloc, JoinWorld, NewestOwned, NewestReachable
  <1>5. CASE SendAuthOk(c) \/ ReadFails(c) \/ DeferDrop(c) \/ DeferClose(c)
    BY <1>5 DEF SendAuthOk, ReadFails, DeferDrop, DeferClose, NewestOwned, NewestReachable
  <1> QED
    BY <1>1, <1>2, <1>3, <1>4, <1>5 DEF Handler

\* The other actors change neither ConnReg nor a stage past "none".
LEMMA OthersNewest ==
  ASSUME TypeOK, Newest, UNCHANGED <<who, regVars, newest>>,
         \A c \in Conn : pc[c] # "none" => pc'[c] = pc[c]
  PROVE  Newest'
  <1>1. ASSUME NEW p \in Player, newest[p] # None
        PROVE  newest[p] \in Conn /\ pc[newest[p]] # "none"
    BY <1>1 DEF TypeOK, Newest, NewestOwned
  <1>2. NewestOwned'
    BY <1>1 DEF Newest, NewestOwned
  <1>3. NewestReachable'
    BY DEF Newest, NewestReachable, regVars
  <1> QED
    BY <1>2, <1>3 DEF Newest

-----------------------------------------------------------------------------
\* Every step of the specification keeps the whole invariant.
LEMMA StepInv == IInv /\ [Next]_vars => IInv'
  <1> SUFFICES ASSUME IInv, [Next]_vars PROVE IInv'
    OBVIOUS
  <1>1. TypeOK /\ OwnerKnown /\ JobOwned /\ Tables /\ Newest
    BY DEF IInv, Tables, Newest
  <1>2. ASSUME NEW c \in Conn, Handler(c) PROVE IInv'
    <2>1. JobOwned'
      BY <1>1, <1>2 DEF Handler, Resolve, AuthTimeout, Alloc, JoinWorld, Register,
           SendAuthOk, ReadFails, DeferUnregister, DeferDrop, DeferClose, eventVars,
           JobOwned
    <2> QED
      BY <1>1, <1>2, <2>1, HandlerType, HandlerTables, HandlerNewest
         DEF IInv, Tables, Newest
  <1>3. ASSUME NEW d \in Dispatcher, Dispatch(d) PROVE IInv'
    <2>1. TypeOK' /\ JobOwned'
      BY <1>1, <1>3, DispatchType
    <2>2. Tables' /\ UNCHANGED <<pc, who, regVars, newest>>
      BY <1>1, <1>3, DispatchTables
    <2>3. Newest'
      BY <1>1, <2>2, OthersNewest
    <2> QED
      BY <2>1, <2>2, <2>3 DEF IInv, Tables, Newest
  <1>4. ASSUME Environment PROVE IInv'
    <2>1. TypeOK'
      BY <1>1, <1>4, EnvironmentType
    <2>2. Tables' /\ UNCHANGED <<who, topoVars, regVars, newest, job>>
      BY <1>1, <1>4, EnvironmentTables
    <2>3. \A c \in Conn : pc[c] # "none" => pc'[c] = pc[c]
      BY <1>1, <1>4 DEF Environment, Connect, CutConnection, EnterWorld, LeaveWorld,
                        Transition, connVars, TypeOK
    <2>4. Newest'
      BY <1>1, <2>2, <2>3, OthersNewest
    <2> QED
      BY <1>1, <2>1, <2>2, <2>4 DEF IInv, Tables, Newest, JobOwned
  <1>5. CASE UNCHANGED vars
    BY <1>1, <1>5 DEF IInv, TypeOK, OwnerKnown, JobOwned, NoLeak, IndexesSound,
         NewestOwned, NewestReachable, vars, connVars, topoVars, regVars, eventVars
  <1> QED
    BY <1>2, <1>3, <1>4, <1>5 DEF Next

\* IInv is an invariant of the server's connection handling, whatever happens
\* in the game and to the sockets.
THEOREM Invariant == Spec => []IInv
  <1> QED
    BY InitInv, StepInv, PTL DEF Spec

\* Every variable keeps its type.
THEOREM TypeCorrect == Spec => []TypeOK
  <1>1. IInv => TypeOK
    BY DEF IInv
  <1> QED
    BY <1>1, Invariant, PTL

\* Neither index of the tables ever dangles or names another player's
\* connection.
THEOREM IndexesSoundHolds == Spec => []IndexesSound
  <1>1. IInv => IndexesSound
    BY DEF IInv
  <1> QED
    BY <1>1, Invariant, PTL

\* A handler that has ended leaves no session and no client behind.
THEOREM NoLeakHolds == Spec => []NoLeak
  <1>1. IInv => NoLeak
    BY DEF IInv
  <1> QED
    BY <1>1, Invariant, PTL

\* Delivery goes to the connection that registered last while it is registered.
THEOREM NewestReachableHolds == Spec => []NewestReachable
  <1>1. IInv => NewestReachable
    BY DEF IInv
  <1> QED
    BY <1>1, Invariant, PTL

-----------------------------------------------------------------------------
(***************************************************************************)
(* When LookupByPlayer finds the session of a player.                      *)
(***************************************************************************)
\* No player has two sessions at a time.
OneSession == \A c, d \in bySID : who[c] = who[d] => c = d

\* The player's entry names the player's session.
Named == \A c \in bySID : byPlayer[who[c]] = c

\* A step of a handler keeps sessions named, unless it allocates a second one.
LEMMA HandlerNamed ==
  ASSUME IInv, Named, OneSession, OneSession', NEW c \in Conn, Handler(c)
  PROVE  Named'
  <1> USE DEF topoVars, Transition
  <1>1. /\ bySID \subseteq Conn /\ who \in [Conn -> Player \union {None}]
        /\ byPlayer \in [Player -> Conn \union {None}]
        /\ \A d \in bySID : who[d] \in Player
    BY DEF IInv, TypeOK, NoLeak, OwnerKnown, Owned
  <1>2. CASE Resolve(c)
    <2>1. c \notin bySID
      BY <1>2 DEF Resolve, IInv, NoLeak
    <2> QED
      BY <1>1, <1>2, <2>1 DEF Resolve, Named
  <1>3. CASE Alloc(c)
    <2>1. who[c] \in Player
      BY <1>3 DEF Alloc, IInv, OwnerKnown, Owned
    <2>2. /\ bySID' = bySID \union {c} /\ who' = who
          /\ byPlayer' = [byPlayer EXCEPT ![who[c]] = c]
      BY <1>3 DEF Alloc, AllocSession
    <2>3. \A d \in bySID \ {c} : who[d] # who[c]
      BY <2>2 DEF OneSession
    <2> QED
      BY <1>1, <2>1, <2>2, <2>3 DEF Named
  <1>4. CASE DeferDrop(c)
    BY <1>1, <1>4 DEF DeferDrop, Drop, Named, OneSession
  <1>5. CASE ~(Resolve(c) \/ Alloc(c) \/ DeferDrop(c))
    <2>1. UNCHANGED <<who, topoVars>>
      BY <1>5 DEF Handler, AuthTimeout, JoinWorld, Register, SendAuthOk, ReadFails,
                  DeferUnregister, DeferClose
    <2> QED
      BY <2>1 DEF Named
  <1> QED
    BY <1>2, <1>3, <1>4, <1>5

\* A logout drops the session it has found, whenever it gets to it.
LEMMA DispatchNamed ==
  ASSUME IInv, Named, OneSession, NEW d \in Dispatcher, Dispatch(d)
  PROVE  Named'
  <1>1. /\ bySID \subseteq Conn /\ who' = who
        /\ byPlayer \in [Player -> Conn \union {None}]
        /\ \A c \in bySID : who[c] \in Player
    BY DEF IInv, TypeOK, NoLeak, OwnerKnown, Owned, Dispatch, TakeLogout, LogoutDrop,
           LogoutRemovePlayer, LogoutFindClient, LogoutClose, connVars
  <1>2. CASE LogoutDrop(d) /\ job[d].conn # None
    <2> DEFINE c == job[d].conn
    <2>1. Drop(c)
      BY <1>2 DEF LogoutDrop
    <2> HIDE DEF c
    <2> QED
      BY <1>1, <2>1 DEF Drop, Named, OneSession
  <1>3. CASE ~(LogoutDrop(d) /\ job[d].conn # None)
    <2>1. UNCHANGED topoVars
      BY <1>3 DEF Dispatch, TakeLogout, LogoutDrop, LogoutRemovePlayer,
                  LogoutFindClient, LogoutClose
    <2> QED
      BY <1>1, <2>1 DEF Named, topoVars
  <1> QED
    BY <1>2, <1>3

\* The promise of LookupByPlayer's comment (SessionFindable) is kept for as long
\* as no player has two sessions at once: however connections, handlers and
\* logouts interleave otherwise, each session is the one the player's entry
\* names.  The run SessionsLost shows two sessions that overlap in a reconnect.
THEOREM OnlyOverlapLosesSessions == Spec /\ []OneSession => []SessionFindable
  <1>1. Init => Named
    BY DEF Init, Named
  <1>2. IInv /\ Named /\ OneSession /\ OneSession' /\ [Next]_vars => Named'
    <2> SUFFICES ASSUME IInv, Named, OneSession, OneSession', [Next]_vars PROVE Named'
      OBVIOUS
    <2>1. ASSUME Environment PROVE Named'
      <3>1. UNCHANGED <<who, topoVars>>
        BY <2>1, EnvironmentTables DEF IInv, Tables
      <3> QED
        BY <3>1 DEF Named, topoVars
    <2>2. CASE UNCHANGED vars
      BY <2>2 DEF Named, vars, connVars, topoVars
    <2> QED
      BY <2>1, <2>2, HandlerNamed, DispatchNamed DEF Next
  <1>3. IInv /\ Named => SessionFindable
    <2> SUFFICES ASSUME IInv, Named, NEW p \in Player, byPlayer[p] = None, NEW c \in bySID,
                        who[c] = p
                 PROVE  FALSE
      BY DEF SessionFindable
    <2> QED
      BY SessionsAssumption DEF Named, IInv, TypeOK
  <1> QED
    BY <1>1, <1>2, <1>3, Invariant, PTL DEF Spec
=============================================================================
