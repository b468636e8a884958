---------------------------- MODULE Mixer_proofs ----------------------------
(***************************************************************************)
(* Proofs about Mixer: for any number of sessions, any ring and any        *)
(* backlog, its four invariants hold, whatever the three threads do.       *)
(***************************************************************************)
EXTENDS Mixer, TLAPS

-----------------------------------------------------------------------------
(***************************************************************************)
(* The inductive invariant.                                                *)
(***************************************************************************)
UiPlace == {"idle", "ask", "insert", "send", "lookup", "each", "apply"}

\* The threads' places; the render thread returns to where a query was asked
\* from, and a source it is at work on is not evicted meanwhile.
Places ==
  /\ ws \in [at : {"idle", "decoded", "mute", "enqueue"},
             src : Src \union {Peer}, loud : BOOLEAN]
  /\ ws.at # "idle" => ws.src \in Src
  /\ ui \in [at : UiPlace, name : Src \union {Peer},
             back : {"idle", "lookup", "apply"}, todo : SUBSET Src]
  /\ ui.at = "idle" => ui.back = "idle"
  /\ ui.at = "lookup" => ui.back = "lookup"
  /\ ui.at = "apply" => ui.back = "apply"
  /\ ui.at = "each" => ui.back # "idle"
  /\ ui.back = "idle" => ui.todo = {}
  /\ ui.back = "apply" => ui.name \in Present
  /\ ui.todo \subseteq Present

\* The types of the rest.
Tables ==
  /\ muted \in BOOLEAN
  /\ known \subseteq Src \union {Peer} /\ inflight \subseteq Src \union {Peer}
  /\ wire \subseteq Src \union {Peer}
  /\ listed \in BOOLEAN /\ up \in BOOLEAN /\ running \in BOOLEAN
  /\ sources \in [Src -> Source \union {None}]
  /\ orphan \in BOOLEAN /\ missed \subseteq Src

\* A ring that was not overrun holds no more than its size and plays in order;
\* one that was plays nothing newer than what it holds.
RingOK(src) ==
  /\ src.ahead < src.queued \/ src.ahead = -1
  /\ src.overrun \/ (src.queued <= Cap /\ src.ahead = -1)

Rings == \A s \in Present : RingOK(sources[s])

\* Between connections nothing is waited for and no query is about to be
\* entered, but for the one the closing came between.
Offline == up \/ orphan \/ (inflight = {} /\ ui.at # "insert")

\* The sources a change of preference has still to see to.
Pending ==
  ui.todo \union (IF ui.back = "apply" /\ ui.at # "each" THEN {ui.name} ELSE {})

\* What NoLeftoverMute says of one source.
Explained(s) == ~muted /\ sources[s].muted => sources[s].byHand \/ s \in missed

\* Once the loop over the sources has begun, every source it is past is as the
\* preference says, or on the list of those that were missed.
Swept ==
  \/ ui.back = "lookup" /\ ui.at # "each"
  \/ \A s \in Present \ Pending : Explained(s)

IInv == Places /\ Tables /\ Rings /\ NoNameForgotten /\ Offline /\ Swept
-----------------------------------------------------------------------------
(***************************************************************************)
(* The ring.                                                               *)
(***************************************************************************)
\* Pop's place lies at a multiple of the ring's size, at most Cap - 1 frames
\* behind the newest frame: that is the frame Played finds there, and while no
\* more is queued than the ring holds it is the next in order.
LEMMA PlayedIsNewest ==
  ASSUME NEW src, src.queued \in Nat \ {0}
  PROVE  /\ Played(src) \in 0 .. src.queued - 1
         /\ src.queued - 1 < Played(src) + Cap
         /\ src.queued <= Cap => Played(src) = 0
<1> DEFINE n == src.queued - 1
           k == n \div Cap
<1>1. n \in Nat /\ Cap \in Nat \ {0}
  BY MixerAssumption
<1> HIDE DEF n
<1>2. k \in Nat /\ 0 <= Cap * k /\ Cap * k <= n /\ n < Cap + Cap * k
  BY <1>1
<1>3. n < Cap => k = 0
  BY <1>1
<1>4. Cap * k \in Int
  BY <1>1, <1>2
<1>5. Played(src) = Cap * k
  BY DEF Played, n
<1> HIDE DEF k
<1> QED
  BY <1>1, <1>2, <1>3, <1>4, <1>5 DEF n

\* A source is a record of its kind, and None is not.
LEMMA SourceIsNotNone == None \notin Source
BY DEF Source, None

\* A mix takes one frame of a source that has one: its ring stays in order,
\* and is in order again when it runs empty.
LEMMA PopKeepsRing ==
  ASSUME NEW src \in Source, src.queued > 0, RingOK(src)
  PROVE  /\ Settle(Pop(src)) \in Source
         /\ RingOK(Settle(Pop(src)))
         /\ Settle(Pop(src)).muted = src.muted
         /\ Settle(Pop(src)).byHand = src.byHand
<1> DEFINE m == IF Played(src) > src.ahead THEN Played(src) ELSE src.ahead
           q == src.queued - 1
           a == m - 1
           new == [src EXCEPT !.queued = q, !.ahead = a]
<1>1. /\ src.queued \in 1 .. MaxQueued /\ src.ahead \in -1 .. MaxQueued
      /\ MaxQueued \in Nat /\ Cap \in Nat \ {0}
  BY MixerAssumption DEF Source
<1>2. /\ Played(src) \in 0 .. src.queued - 1
      /\ src.queued <= Cap => Played(src) = 0
  BY <1>1, PlayedIsNewest
<1>3. m \in 0 .. src.queued - 1 /\ (src.overrun \/ m = 0)
  BY <1>1, <1>2 DEF RingOK
<1> HIDE DEF m
<1>4. Pop(src) = new
  BY DEF Pop, m
<1>5. q \in 0 .. MaxQueued /\ a \in -1 .. MaxQueued
  BY <1>1, <1>3
<1> HIDE DEF q, a
<1>6. /\ new \in Source
      /\ new.queued = q /\ new.ahead = a
      /\ new.overrun = src.overrun /\ new.muted = src.muted /\ new.byHand = src.byHand
  BY <1>5 DEF Source
<1> HIDE DEF new
<1> DEFINE b == new.overrun /\ new.queued > 0
           set == [new EXCEPT !.overrun = b]
<1>7. Settle(Pop(src)) = set
  BY <1>4 DEF Settle
<1>8. b \in BOOLEAN
  OBVIOUS
<1> HIDE DEF b
<1>9. /\ set \in Source
      /\ set.queued = new.queued /\ set.ahead = new.ahead
      /\ set.overrun = b
      /\ set.muted = new.muted /\ set.byHand = new.byHand
  BY <1>6, <1>8 DEF Source
<1> HIDE DEF set
<1>10. RingOK(set)
  <2>1. set.queued = src.queued - 1 /\ set.ahead = m - 1
    BY <1>6, <1>9 DEF q, a
  <2>2. CASE b
    BY <1>1, <1>3, <1>9, <2>1, <2>2 DEF RingOK
  <2>3. CASE ~b /\ src.overrun
    <3>1. src.queued = 1
      BY <1>1, <1>6, <2>3 DEF b, q
    <3> QED
      BY <1>1, <1>3, <2>1, <3>1 DEF RingOK
  <2>4. CASE ~src.overrun
    BY <1>1, <1>3, <2>1, <2>4 DEF RingOK
  <2> QED
    BY <2>2, <2>3, <2>4
<1> QED
  BY <1>6, <1>7, <1>9, <1>10

\* A packet adds one frame; when that is one too many the ring knows.
LEMMA PushKeepsRing ==
  ASSUME NEW src \in Source, src.queued < MaxQueued, RingOK(src), NEW loud \in BOOLEAN
  PROVE  LET new == [Push(src) EXCEPT !.loud = loud] IN
         /\ new \in Source
         /\ RingOK(new)
         /\ new.muted = src.muted /\ new.byHand = src.byHand
<1> DEFINE b == src.overrun \/ src.queued >= Cap
           q == src.queued + 1
           new == [src EXCEPT !.queued = q, !.overrun = b]
           set == [new EXCEPT !.loud = loud]
<1>1. /\ src.queued \in 0 .. MaxQueued - 1 /\ src.ahead \in -1 .. MaxQueued
      /\ MaxQueued \in Nat /\ Cap \in Nat \ {0}
  BY MixerAssumption DEF Source
<1>2. Push(src) = new
  BY DEF Push
<1>3. b \in BOOLEAN /\ q \in 0 .. MaxQueued
  BY <1>1
<1> HIDE DEF b, q, set
<1>4. /\ new \in Source
      /\ new.queued = q /\ new.ahead = src.ahead /\ new.overrun = b
      /\ new.muted = src.muted /\ new.byHand = src.byHand
  BY <1>3 DEF Source
<1> HIDE DEF new
<1>5. /\ set \in Source
      /\ set.queued = new.queued /\ set.ahead = new.ahead /\ set.overrun = new.overrun
      /\ set.muted = new.muted /\ set.byHand = new.byHand
  BY <1>4 DEF Source, set
<1>6. RingOK(set)
  <2>1. set.queued = src.queued + 1 /\ set.ahead = src.ahead /\ set.overrun = b
    BY <1>4, <1>5 DEF q
  <2>2. CASE b
    BY <1>1, <2>1, <2>2 DEF RingOK
  <2>3. CASE ~b
    <3>1. ~src.overrun /\ src.queued < Cap
      BY <1>1, <2>3 DEF b
    <3> QED
      BY <1>1, <2>1, <3>1 DEF RingOK
  <2> QED
    BY <2>2, <2>3
<1> QED
  BY <1>2, <1>4, <1>5, <1>6 DEF set

\* What the controls do to a source.
WithMute(src, m, h) == [src EXCEPT !.muted = m, !.byHand = h]

\* A control changes a source's mute and nothing of its ring.
LEMMA MuteKeepsRing ==
  ASSUME NEW src \in Source, RingOK(src), NEW m \in BOOLEAN, NEW h \in BOOLEAN
  PROVE  /\ WithMute(src, m, h) \in Source
         /\ RingOK(WithMute(src, m, h))
         /\ WithMute(src, m, h).muted = m /\ WithMute(src, m, h).byHand = h
BY DEF Source, RingOK, WithMute
-----------------------------------------------------------------------------
(***************************************************************************)
(* The sources, step by step.                                              *)
(***************************************************************************)
\* A session has a source or it has none.
LEMMA SourceTypes ==
  ASSUME Tables
  PROVE  /\ Present \subseteq Src
         /\ \A s \in Present : sources[s] \in Source
         /\ \A s \in Src \ Present : sources[s] = None
BY DEF Tables, Present

\* A table whose entries are sources on `there` and None elsewhere is one of
\* sources, and `there` is where they are.
LEMMA NewSources ==
  ASSUME NEW there \in SUBSET Src, NEW f, sources' = [s \in Src |-> f[s]],
         \A s \in there : f[s] \in Source,
         \A s \in Src \ there : f[s] = None
  PROVE  sources' \in [Src -> Source \union {None}] /\ Present' = there
BY SourceIsNotNone DEF Present

\* The mixer keeps every ring in order and touches no mute.
LEMMA MixSources ==
  ASSUME Tables, Rings, Mix
  PROVE  /\ sources' \in [Src -> Source \union {None}] /\ Present' = Present
         /\ Rings'
         /\ \A s \in Present : /\ sources'[s].muted = sources[s].muted
                               /\ sources'[s].byHand = sources[s].byHand
<1> DEFINE f == [s \in Src |-> IF s \in Present /\ sources[s].queued > 0
                               THEN Settle(Pop(sources[s])) ELSE sources[s]]
<1>1. sources' = f
  BY DEF Mix
<1>2. ASSUME NEW s \in Present
      PROVE  /\ f[s] \in Source /\ RingOK(f[s])
             /\ f[s].muted = sources[s].muted /\ f[s].byHand = sources[s].byHand
  <2>1. s \in Src /\ sources[s] \in Source /\ RingOK(sources[s])
    BY SourceTypes DEF Rings
  <2>2. CASE sources[s].queued > 0
    BY <2>1, <2>2, PopKeepsRing
  <2>3. CASE ~(sources[s].queued > 0)
    BY <2>1, <2>3
  <2> QED
    BY <2>2, <2>3
<1>3. \A s \in Src \ Present : f[s] = None
  BY SourceTypes
<1>4. f = [s \in Src |-> f[s]] /\ Present \in SUBSET Src
  BY SourceTypes
<1> HIDE DEF f
<1>5. sources' \in [Src -> Source \union {None}] /\ Present' = Present
  BY <1>1, <1>2, <1>3, <1>4, NewSources
<1> QED
  BY <1>1, <1>2, <1>5 DEF Rings

\* A packet queued keeps its source's mute, and makes one that is not muted.
LEMMA EnqueueSources ==
  ASSUME Places, Tables, Rings, Enqueue
  PROVE  /\ sources' \in [Src -> Source \union {None}]
         /\ Present' = Present \union {ws.src}
         /\ Rings'
         /\ \A s \in Present : /\ sources'[s].muted = sources[s].muted
                               /\ sources'[s].byHand = sources[s].byHand
         /\ \A s \in Present' \ Present : ~sources'[s].muted
<1> DEFINE w == ws.src
           new == [Push(SourceOf(w)) EXCEPT !.loud = ws.loud]
           f == [sources EXCEPT ![w] = new]
<1>1. w \in Src /\ ws.loud \in BOOLEAN /\ sources' = f
  BY DEF Enqueue, Places
<1>2. NewSource \in Source /\ RingOK(NewSource) /\ ~NewSource.muted
  BY MixerAssumption DEF NewSource, Source, RingOK
<1>3. SourceOf(w) \in Source /\ RingOK(SourceOf(w)) /\ SourceOf(w).queued < MaxQueued
  BY <1>2, SourceTypes DEF SourceOf, Rings, Enqueue
<1>4. /\ new \in Source /\ RingOK(new)
      /\ new.muted = SourceOf(w).muted /\ new.byHand = SourceOf(w).byHand
  BY <1>1, <1>3, PushKeepsRing
<1> HIDE DEF new
<1>5. f[w] = new /\ \A s \in Src \ {w} : f[s] = sources[s]
  BY <1>1 DEF Tables
<1>6. f = [s \in Src |-> f[s]] /\ Present \union {w} \in SUBSET Src
  BY <1>1, SourceTypes DEF Tables
<1> HIDE DEF f
<1>7. sources' \in [Src -> Source \union {None}] /\ Present' = Present \union {w}
  <2>1. \A s \in Present \union {w} : f[s] \in Source
    BY <1>4, <1>5, SourceTypes
  <2>2. \A s \in Src \ (Present \union {w}) : f[s] = None
    BY <1>5, SourceTypes
  <2> QED
    BY <1>1, <1>6, <2>1, <2>2, NewSources
<1>8. Rings'
  BY <1>1, <1>4, <1>5, <1>7, SourceTypes DEF Rings
<1>9. /\ w \in Present => SourceOf(w) = sources[w]
      /\ w \notin Present => SourceOf(w) = NewSource
  BY DEF SourceOf
<1> QED
  BY <1>1, <1>2, <1>4, <1>5, <1>7, <1>8, <1>9, SourceTypes

\* Eviction takes sources and changes none that it leaves.
LEMMA EvictSources ==
  ASSUME Tables, Rings, NEW gone, Evict(gone)
  PROVE  /\ sources' \in [Src -> Source \union {None}] /\ Present' = Present \ gone
         /\ Rings'
         /\ \A s \in Present' : sources'[s] = sources[s]
<1> DEFINE f == [s \in Src |-> IF s \in gone THEN None ELSE sources[s]]
<1>1. sources' = f
  BY DEF Evict
<1>2. /\ \A s \in Present \ gone : f[s] = sources[s] /\ f[s] \in Source
      /\ \A s \in Src \ (Present \ gone) : f[s] = None
      /\ f = [s \in Src |-> f[s]] /\ Present \ gone \in SUBSET Src
  BY SourceTypes
<1> HIDE DEF f
<1>3. sources' \in [Src -> Source \union {None}] /\ Present' = Present \ gone
  BY <1>1, <1>2, NewSources
<1> QED
  BY <1>1, <1>2, <1>3 DEF Rings

\* A control that mutes or unmutes the sources of `these` changes only that.
LEMMA ControlSources ==
  ASSUME Tables, Rings, NEW these \in SUBSET Present, NEW m \in BOOLEAN, NEW h \in BOOLEAN,
         sources' = [s \in Src |-> sources'[s]],
         \A s \in these : sources'[s] = WithMute(sources[s], m, h),
         \A s \in Src \ these : sources'[s] = sources[s]
  PROVE  /\ sources' \in [Src -> Source \union {None}] /\ Present' = Present
         /\ Rings'
         /\ \A s \in these : sources'[s].muted = m /\ sources'[s].byHand = h
         /\ \A s \in Present \ these : sources'[s] = sources[s]
<1>1. ASSUME NEW s \in these
      PROVE  /\ sources'[s] \in Source /\ RingOK(sources'[s])
             /\ sources'[s].muted = m /\ sources'[s].byHand = h
  <2>1. s \in Src /\ sources[s] \in Source /\ RingOK(sources[s])
    BY SourceTypes DEF Rings
  <2>2. sources'[s] = WithMute(sources[s], m, h)
    BY <2>1
  <2> QED
    BY <2>1, <2>2, MuteKeepsRing
<1>2. /\ \A s \in Present \ these : sources'[s] \in Source
      /\ \A s \in Src \ Present : sources'[s] = None
      /\ Present \in SUBSET Src
  BY SourceTypes
<1>3. sources' \in [Src -> Source \union {None}] /\ Present' = Present
  BY <1>1, <1>2, NewSources
<1> QED
  BY <1>1, <1>2, <1>3, SourceTypes DEF Rings

\* A preference applied, a source muted by hand, all of them muted: each is a
\* control of that form, or changes no source.
LEMMA ApplySources ==
  ASSUME Tables, Places, Rings, Apply
  PROVE  /\ sources' \in [Src -> Source \union {None}] /\ Present' = Present
         /\ Rings'
         /\ ui.name \in known => sources'[ui.name].muted = muted
         /\ \A s \in Present \ {ui.name} : sources'[s] = sources[s]
<1>1. ui.name \in Present /\ muted \in BOOLEAN
  BY DEF Apply, Places, Tables
<1>2. CASE ui.name \in known
  <2> DEFINE these == {ui.name}
             m == muted
             h == FALSE
  <2>1. /\ sources' = [s \in Src |-> sources'[s]]
        /\ \A s \in these : sources'[s] = WithMute(sources[s], m, h)
        /\ \A s \in Src \ these : sources'[s] = sources[s]
    BY <1>2, SourceTypes DEF Apply, Tables, Places, WithMute
  <2>2. these \in SUBSET Present /\ ui.name \in these /\ m \in BOOLEAN /\ h \in BOOLEAN
    BY <1>1
  <2>3. Present \ {ui.name} = Present \ these
    OBVIOUS
  <2> HIDE DEF these, m, h
  <2>4. /\ sources' \in [Src -> Source \union {None}] /\ Present' = Present
        /\ Rings'
        /\ sources'[ui.name].muted = m
        /\ \A s \in Present \ these : sources'[s] = sources[s]
    BY <2>1, <2>2, ControlSources
  <2> QED
    BY <2>3, <2>4 DEF m
<1>3. CASE ui.name \notin known
  BY <1>3 DEF Apply, Tables, Rings, Present
<1> QED
  BY <1>2, <1>3

\* One source's mute button changes that source as its control says, no other.
LEMMA MuteSourceSources ==
  ASSUME Tables, Rings, NEW t \in Src, MuteSource(t)
  PROVE  /\ sources' \in [Src -> Source \union {None}] /\ Present' = Present
         /\ Rings'
         /\ sources'[t].byHand = sources'[t].muted
         /\ \A s \in Present \ {t} : sources'[s] = sources[s]
<1> DEFINE m == ~sources[t].muted
           these == {t}
<1>1. t \in Present /\ m \in BOOLEAN
  BY DEF MuteSource
<1>2. /\ sources' = [s \in Src |-> sources'[s]]
      /\ \A s \in these : sources'[s] = WithMute(sources[s], m, m)
      /\ \A s \in Src \ these : sources'[s] = sources[s]
  BY DEF MuteSource, SourceControl, Tables, WithMute
<1>3. these \in SUBSET Present /\ t \in these /\ Present \ {t} = Present \ these
  BY <1>1
<1> HIDE DEF m, these
<1> QED
  BY <1>1, <1>2, <1>3, ControlSources

\* Muting all sources does so to every source that has a control.
LEMMA MuteAllSources ==
  ASSUME Tables, Rings, MuteAll
  PROVE  /\ sources' \in [Src -> Source \union {None}] /\ Present' = Present
         /\ Rings'
         /\ \A s \in Present : sources'[s].byHand = sources'[s].muted
<1> DEFINE m == \E s \in Present : ~sources[s].muted
           these == Present
<1>1. m \in BOOLEAN
  OBVIOUS
<1>2. /\ sources' = [s \in Src |-> sources'[s]]
      /\ \A s \in these : sources'[s] = WithMute(sources[s], m, m)
      /\ \A s \in Src \ these : sources'[s] = sources[s]
  BY SourceTypes DEF MuteAll, SourceControl, WithMute
<1>3. these \in SUBSET Present /\ these = Present
  OBVIOUS
<1> HIDE DEF m, these
<1> QED
  BY <1>1, <1>2, <1>3, ControlSources

-----------------------------------------------------------------------------
(***************************************************************************)
(* The invariant, part by part.                                            *)
(***************************************************************************)
\* Every step keeps the sources sources, and their rings in order.
LEMMA SourcesStep ==
  ASSUME Places, Tables, Rings, [Next]_vars
  PROVE  sources' \in [Src -> Source \union {None}] /\ Rings'
<1> DEFINE Goal == sources' \in [Src -> Source \union {None}] /\ Rings'
<1>1. CASE sources' = sources
  BY <1>1 DEF Tables, Rings, Present
<1>2. CASE Mix
  BY <1>2, MixSources
<1>3. CASE Enqueue
  BY <1>3, EnqueueSources
<1>4. CASE Lookup
  BY <1>1, <1>4, EvictSources DEF Lookup
<1>5. CASE Apply
  BY <1>5, ApplySources
<1>6. ASSUME NEW s \in Src, MuteSource(s)
      PROVE  Goal
  BY <1>6, MuteSourceSources
<1>7. CASE MuteAll
  BY <1>7, MuteAllSources
<1>8. CASE DrawSpeakers
  BY <1>8, EvictSources DEF DrawSpeakers
<1>9. CASE SetPlaybackDevice
  BY <1>9 DEF SetPlaybackDevice, Rings, Present
<1> QED
  BY <1>1, <1>2, <1>3, <1>4, <1>5, <1>6, <1>7, <1>8, <1>9
  DEF Next, Receive, OnIncomingPacket, Identify, ReadMute, NameResult, ClientState, Close,
      Open, UiStep, UiConnected, UiInsert, UiSend, EachDone, EachSource, UiEvent,
      DrawRow, SetPreference, vars

\* Every step keeps the other types.
LEMMA TablesStep ==
  ASSUME Places, Tables, Rings, [Next]_vars
  PROVE  Tables'
<1>1. sources' \in [Src -> Source \union {None}]
  BY SourcesStep
<1>2. Present \subseteq Src /\ Present' \subseteq Src
  BY <1>1 DEF Present
<1> DEFINE Rest ==
      /\ muted \in BOOLEAN
      /\ known \subseteq Src \union {Peer} /\ inflight \subseteq Src \union {Peer}
      /\ wire \subseteq Src \union {Peer}
      /\ listed \in BOOLEAN /\ up \in BOOLEAN /\ running \in BOOLEAN
      /\ orphan \in BOOLEAN /\ missed \subseteq Src
<1> SUFFICES Rest'
  BY <1>1 DEF Tables
<1>3. Rest
  BY DEF Tables
<1>4. ASSUME NEW name \in Src \union {Peer}, Ask(name)
      PROVE  inflight' \subseteq Src \union {Peer} /\ wire' \subseteq Src \union {Peer}
  BY <1>3, <1>4 DEF Ask
<1>5. ASSUME NEW s \in Src, Receive(s)
      PROVE  Rest'
  <2>1. \E name \in Src \union {Peer} : Ask(name)
    BY <1>5 DEF Receive
  <2> QED
    BY <1>3, <1>4, <1>5, <2>1 DEF Receive, netVars
<1>6. CASE OnIncomingPacket
  <2>1. CASE UNCHANGED <<inflight, wire>>
    BY <1>3, <1>6, <2>1
    DEF OnIncomingPacket, Identify, ReadMute, Enqueue, nameVars, netVars
  <2>2. CASE Identify /\ Ask(Peer)
    BY <1>3, <1>4, <2>2 DEF Identify, netVars
  <2> QED
    BY <1>6, <2>1, <2>2 DEF OnIncomingPacket, Identify, ReadMute, Enqueue, nameVars
<1>7. ASSUME NEW name \in Src \union {Peer}, NameResult(name)
      PROVE  Rest'
  <2>1. known' \subseteq known \union {name}
    BY <1>7 DEF NameResult
  <2> QED
    BY <1>3, <1>7, <2>1 DEF NameResult, netVars
<1>8. CASE Mix \/ ClientState \/ Close \/ Open \/ UNCHANGED vars
  <2>1. CASE Mix \/ UNCHANGED vars
    BY <1>3, <2>1 DEF Mix, vars, nameVars, netVars
  <2>2. CASE ClientState \/ Open
    BY <1>3, <2>2 DEF ClientState, Open, nameVars, netVars
  <2>3. CASE Close
    BY <1>3, <2>3 DEF Close
  <2> QED
    BY <1>8, <2>1, <2>2, <2>3
<1>9. CASE UiStep
  <2>1. UNCHANGED <<muted, known, netVars, running, orphan>>
    BY <1>9
    DEF UiStep, UiConnected, UiInsert, UiSend, Lookup, Apply, EachDone, EachSource, nameVars
  <2>2. ui.name \in Src \union {Peer} /\ (ui.at = "apply" => ui.name \in Src)
    BY <1>2 DEF Places
  <2>3. /\ inflight' \subseteq inflight \union {ui.name}
        /\ wire' \subseteq wire \union {ui.name}
    BY <1>9
    DEF UiStep, UiConnected, UiInsert, UiSend, Lookup, Apply, EachDone, EachSource, nameVars
  <2>4. missed' \subseteq Src
    BY <1>2, <1>3, <1>9, <2>2
    DEF UiStep, UiConnected, UiInsert, UiSend, Lookup, Apply, EachDone, EachSource
  <2> QED
    BY <1>3, <2>1, <2>2, <2>3, <2>4 DEF netVars
<1>10. CASE UiEvent
  <2>1. UNCHANGED <<nameVars, netVars, orphan, missed>>
    BY <1>10
    DEF UiEvent, DrawRow, MuteSource, SourceControl, SetPreference, MuteAll, DrawSpeakers,
        SetPlaybackDevice
  <2>2. muted' \in BOOLEAN /\ running' \in BOOLEAN
    BY <1>3, <1>10
    DEF UiEvent, DrawRow, MuteSource, SourceControl, SetPreference, MuteAll, DrawSpeakers,
        SetPlaybackDevice
  <2> QED
    BY <1>3, <2>1, <2>2 DEF nameVars, netVars
<1> QED
  BY <1>5, <1>6, <1>7, <1>8, <1>9, <1>10 DEF Next

\* A source goes only while the render thread is at no other.
LEMMA PresentStep ==
  ASSUME Places, Tables, Rings, [Next]_vars
  PROVE  \/ Present \subseteq Present'
         \/ ui.at = "idle" /\ ui' = ui
         \/ Lookup
<1>1. CASE sources' = sources
  BY <1>1 DEF Present
<1>2. CASE Mix
  BY <1>2, MixSources
<1>3. CASE Enqueue
  BY <1>3, EnqueueSources
<1>4. CASE Lookup
  BY <1>4
<1>5. CASE Apply
  BY <1>5, ApplySources
<1>6. ASSUME NEW s \in Src, MuteSource(s)
      PROVE  ui.at = "idle" /\ ui' = ui
  BY <1>6 DEF MuteSource, SourceControl
<1>7. CASE MuteAll \/ DrawSpeakers \/ SetPlaybackDevice
  BY <1>7 DEF MuteAll, SourceControl, DrawSpeakers, SetPlaybackDevice
<1> QED
  BY <1>1, <1>2, <1>3, <1>4, <1>5, <1>6, <1>7
  DEF Next, Receive, OnIncomingPacket, Identify, ReadMute, NameResult, ClientState, Close,
      Open, UiStep, UiConnected, UiInsert, UiSend, EachDone, EachSource, UiEvent,
      DrawRow, SetPreference, vars

\* The threads keep to their places.
LEMMA PlacesStep ==
  ASSUME Places, Tables, Rings, [Next]_vars
  PROVE  Places'
<1> DEFINE WsOK == /\ ws \in [at : {"idle", "decoded", "mute", "enqueue"},
                              src : Src \union {Peer}, loud : BOOLEAN]
                   /\ ws.at # "idle" => ws.src \in Src
           UiOK == /\ ui \in [at : UiPlace, name : Src \union {Peer},
                              back : {"idle", "lookup", "apply"}, todo : SUBSET Src]
                   /\ ui.at = "idle" => ui.back = "idle"
                   /\ ui.at = "lookup" => ui.back = "lookup"
                   /\ ui.at = "apply" => ui.back = "apply"
                   /\ ui.at = "each" => ui.back # "idle"
                   /\ ui.back = "idle" => ui.todo = {}
                   /\ ui.back = "apply" => ui.name \in Present
                   /\ ui.todo \subseteq Present
<1>1. WsOK /\ UiOK
  BY DEF Places
<1>2. Present \subseteq Src /\ Present' \subseteq Src
  BY SourcesStep, SourceTypes DEF Present
<1>3. WsOK'
  <2>1. CASE ws' = ws
    BY <1>1, <2>1
  <2>2. CASE ws' = WsIdle
    BY <2>2 DEF WsIdle
  <2>3. ASSUME NEW s \in Src, Receive(s) PROVE WsOK'
    BY <2>2, <2>3 DEF Receive
  <2>4. CASE OnIncomingPacket
    BY <1>1, <2>2, <2>4 DEF OnIncomingPacket, Identify, ReadMute, Enqueue
  <2> QED
    BY <2>1, <2>3, <2>4
    DEF Next, Mix, NameResult, ClientState, Close, Open, UiStep, UiConnected, UiInsert,
        UiSend, Lookup, Apply, EachDone, EachSource, UiEvent, DrawRow, MuteSource,
        SourceControl, SetPreference, MuteAll, DrawSpeakers, SetPlaybackDevice, vars
<1>4. UiOK'
  <2>1. CASE ui' = UiIdle
    BY <2>1 DEF UiIdle, UiPlace
  <2>2. CASE Lookup
    <3>1. ASSUME NEW gone \in SUBSET Present, Evict(gone),
                 ui' = [ui EXCEPT !.at = "each", !.todo = Present \ gone]
          PROVE  UiOK'
      BY <1>1, <1>2, <2>2, <3>1, EvictSources DEF Lookup, UiPlace
    <3> QED
      BY <2>1, <2>2, <3>1 DEF Lookup
  <2>3. CASE UiStep /\ ~Lookup
    <3>1. Present \subseteq Present'
      BY <2>3, PresentStep
      DEF UiStep, UiConnected, UiInsert, UiSend, Apply, EachDone, EachSource
    <3>2. CASE UiConnected
      BY <1>1, <3>1, <3>2 DEF UiConnected, UiPlace
    <3>3. CASE UiInsert
      BY <1>1, <3>1, <3>3 DEF UiInsert, UiPlace
    <3>4. CASE UiSend
      BY <1>1, <3>1, <3>4 DEF UiSend, UiPlace
    <3>5. CASE Apply
      BY <1>1, <3>1, <3>5 DEF Apply, UiPlace
    <3>6. ASSUME NEW s \in Src, EachSource(s) PROVE UiOK'
      BY <1>1, <1>2, <3>1, <3>6 DEF EachSource, UiPlace
    <3> QED
      BY <2>1, <2>3, <3>2, <3>3, <3>4, <3>5, <3>6 DEF UiStep, EachDone
  <2>4. CASE UiEvent
    <3>1. CASE ui.at = "idle" /\ ui' = ui
      BY <1>1, <3>1
    <3>2. ASSUME NEW name \in Src \union {Peer}, DrawRow(name) PROVE UiOK'
      BY <3>2 DEF DrawRow, UiIdle, UiPlace
    <3>3. CASE SetPreference
      BY <3>3 DEF SetPreference, UiIdle, UiPlace
    <3> QED
      BY <2>4, <3>1, <3>2, <3>3
      DEF UiEvent, MuteSource, SourceControl, MuteAll, DrawSpeakers, SetPlaybackDevice
  <2>5. CASE ui' = ui /\ ~UiStep
    <3>1. Present \subseteq Present' \/ ui.at = "idle"
      BY <2>5, PresentStep DEF UiStep
    <3> QED
      BY <1>1, <2>5, <3>1
  <2> QED
    BY <2>2, <2>3, <2>4, <2>5
    DEF Next, Mix, Receive, OnIncomingPacket, Identify, ReadMute, Enqueue, NameResult,
        ClientState, Close, Open, vars
<1> QED
  BY <1>3, <1>4 DEF Places
\* No step forgets a name, and none enters one between connections unless the
\* closing came inside its query.
LEMMA NamesStep ==
  ASSUME Places, Tables, NoNameForgotten, Offline, [Next]_vars
  PROVE  NoNameForgotten' /\ Offline'
<1> DEFINE Goal == NoNameForgotten' /\ Offline'
<1>1. CASE UNCHANGED <<inflight, wire, up, orphan, ui>>
  BY <1>1 DEF NoNameForgotten, Offline
<1>2. ASSUME NEW name, Ask(name), UNCHANGED <<up, orphan, ui>>
      PROVE  Goal
  <2>1. CASE UNCHANGED <<inflight, wire>>
    BY <1>1, <1>2, <2>1
  <2>2. CASE up /\ inflight' \ wire' \subseteq inflight \ wire
    BY <1>2, <2>2 DEF NoNameForgotten, Offline
  <2> QED
    BY <1>2, <2>1, <2>2 DEF Ask
<1>3. ASSUME NEW s \in Src, Receive(s)
      PROVE  Goal
  BY <1>2, <1>3 DEF Receive, netVars
<1>4. CASE OnIncomingPacket
  <2>1. CASE Identify /\ Ask(Peer)
    BY <1>2, <2>1 DEF Identify, netVars
  <2> QED
    BY <1>1, <1>4, <2>1
    DEF OnIncomingPacket, Identify, ReadMute, Enqueue, nameVars, netVars
<1>5. ASSUME NEW name \in Src \union {Peer}, NameResult(name)
      PROVE  Goal
  BY <1>5 DEF NameResult, NoNameForgotten, Offline, netVars
<1>6. CASE Close \/ Open
  BY <1>6 DEF Close, Open, NoNameForgotten, Offline, nameVars
<1>7. ASSUME UNCHANGED <<inflight, wire, up, orphan>>,
             ui.at # "send", ui'.at # "insert"
      PROVE  Goal
  BY <1>7 DEF NoNameForgotten, Offline
<1>8. CASE UiStep
  <2>1. CASE UiConnected
    <3>1. \/ ui'.at = "insert" /\ up
          \/ ui'.at \in {"idle", "lookup", "apply"}
      BY <2>1 DEF UiConnected, Places
    <3> QED
      BY <2>1, <3>1 DEF UiConnected, NoNameForgotten, Offline, nameVars, netVars
  <2>2. CASE UiInsert
    <3>1. \/ ui'.at \in {"idle", "lookup", "apply"} /\ inflight' = inflight
          \/ /\ ui'.at = "send" /\ ui'.name = ui.name
             /\ inflight' = inflight \union {ui.name}
      BY <2>2 DEF UiInsert, Places
    <3> QED
      BY <2>2, <3>1 DEF UiInsert, NoNameForgotten, Offline, netVars
  <2>3. CASE UiSend
    <3>1. ui'.at \in {"idle", "lookup", "apply"}
      BY <2>3 DEF UiSend, Places
    <3> QED
      BY <2>3, <3>1 DEF UiSend, NoNameForgotten, Offline, netVars
  <2>4. CASE Lookup \/ Apply \/ EachDone \/ \E s \in Src : EachSource(s)
    <3>1. ui.at \in {"lookup", "apply", "each"} /\ ui'.at \in {"idle", "each", "ask"}
      <4>1. CASE Lookup
        <5>1. PICK todo : ui' \in {UiIdle, [ui EXCEPT !.at = "each", !.todo = todo]}
          BY <4>1 DEF Lookup
        <5>2. ui' # UiIdle => ui'.at = "each"
          BY <5>1 DEF Places
        <5>3. UiIdle.at = "idle" /\ ui.at = "lookup"
          BY <4>1 DEF Lookup, UiIdle
        <5> QED
          BY <5>2, <5>3
      <4>2. CASE Apply
        BY <4>2 DEF Apply, Places
      <4>3. CASE EachDone \/ \E s \in Src : EachSource(s)
        BY <4>3 DEF EachDone, EachSource, UiIdle
      <4> QED
        BY <2>4, <4>1, <4>2, <4>3
    <3> QED
      BY <1>7, <2>4, <3>1 DEF Lookup, Apply, EachDone, EachSource, nameVars, netVars
  <2> QED
    BY <1>8, <2>1, <2>2, <2>3, <2>4 DEF UiStep
<1>9. CASE UiEvent
  <2>1. CASE ui' = ui
    BY <1>1, <1>9, <2>1
    DEF UiEvent, DrawRow, MuteSource, SourceControl, SetPreference, MuteAll,
        DrawSpeakers, SetPlaybackDevice, nameVars, netVars
  <2>2. CASE SetPreference \/ \E name \in Src \union {Peer} : DrawRow(name)
    <3>1. ui.at = "idle" /\ ui'.at = "ask"
      BY <2>2 DEF SetPreference, DrawRow, UiIdle
    <3> QED
      BY <1>7, <2>2, <3>1 DEF SetPreference, DrawRow, nameVars, netVars
  <2> QED
    BY <1>9, <2>1, <2>2
    DEF UiEvent, MuteSource, SourceControl, MuteAll, DrawSpeakers, SetPlaybackDevice
<1> QED
  BY <1>1, <1>3, <1>4, <1>5, <1>6, <1>8, <1>9 DEF Next, Mix, ClientState, vars, nameVars, netVars

\* As long as no preference changes and the render thread stays where it is, a
\* source is what it was, or muted by its own control if at all.
LEMMA SourcesAreExplained ==
  ASSUME Swept, UNCHANGED <<muted, ui, missed>>,
         \A s \in Present' :
           \/ /\ s \in Present
              /\ sources'[s].muted = sources[s].muted
              /\ sources'[s].byHand = sources[s].byHand
           \/ sources'[s].muted => sources'[s].byHand
  PROVE  Swept'
BY DEF Swept, Pending, Explained

\* Every step leaves the sources the loop is past as the preference says.
LEMMA SweptStep ==
  ASSUME Places, Tables, Rings, Swept, [Next]_vars
  PROVE  Swept'
<1>1. CASE UNCHANGED <<sources, muted, ui, missed>>
  BY <1>1, SourcesAreExplained DEF Present
<1>2. CASE Mix
  BY <1>2, MixSources, SourcesAreExplained DEF Mix
<1>3. CASE OnIncomingPacket
  BY <1>1, <1>3, EnqueueSources, SourcesAreExplained
  DEF OnIncomingPacket, Identify, ReadMute, Enqueue
<1>4. CASE UiEvent
  <2>1. ASSUME NEW s \in Src, MuteSource(s)
        PROVE  Swept'
    BY <2>1, MuteSourceSources, SourcesAreExplained DEF MuteSource, SourceControl
  <2>2. CASE MuteAll
    BY <2>2, MuteAllSources, SourcesAreExplained DEF MuteAll, SourceControl
  <2>3. CASE DrawSpeakers
    BY <2>3, EvictSources, SourcesAreExplained DEF DrawSpeakers
  <2>4. CASE SetPlaybackDevice
    BY <2>4 DEF SetPlaybackDevice, Swept, Present
  <2>5. CASE SetPreference
    BY <2>5 DEF SetPreference, Swept, UiIdle
  <2>6. ASSUME NEW name \in Src \union {Peer}, DrawRow(name)
        PROVE  Swept'
    <3>1. ui.back = "idle" /\ Pending = {}
      BY <2>6 DEF DrawRow, Places, Pending
    <3> QED
      BY <2>6, <3>1 DEF DrawRow, Swept, Explained, Present
  <2> QED
    BY <1>4, <2>1, <2>2, <2>3, <2>4, <2>5, <2>6 DEF UiEvent
<1>5. CASE UiStep
  <2>1. CASE UiConnected \/ UiInsert \/ UiSend
    <3>1. /\ ui'.back = ui.back /\ ui'.todo = ui.todo /\ ui'.name = ui.name
          /\ ui.at # "each" /\ ui'.at # "each"
      BY <2>1 DEF UiConnected, UiInsert, UiSend, Places
    <3>2. UNCHANGED <<sources, muted, missed>>
      BY <2>1 DEF UiConnected, UiInsert, UiSend
    <3> QED
      BY <3>1, <3>2 DEF Swept, Pending, Explained, Present
  <2>2. CASE Lookup /\ Peer \notin known
    <3>1. missed' = Present /\ Present' = Present
      BY <2>2 DEF Lookup, Present
    <3> QED
      BY <3>1 DEF Swept, Explained
  <2>3. CASE Lookup /\ Peer \in known
    <3>1. PICK gone \in SUBSET Present :
            Evict(gone) /\ ui' = [ui EXCEPT !.at = "each", !.todo = Present \ gone]
      BY <2>3 DEF Lookup
    <3>2. ui'.todo = Present'
      BY <3>1, EvictSources DEF Places
    <3> QED
      BY <3>2 DEF Swept, Pending
  <2>4. CASE Apply
    <3>1. /\ ui.at = "apply" /\ ui.back = "apply" /\ ui'.at = "each"
          /\ ui'.back = ui.back /\ ui'.todo = ui.todo /\ muted' = muted
      BY <2>4 DEF Apply, Places
    <3>2. ui.name \in known \/ ui.name \in missed'
      BY <2>4 DEF Apply
    <3>3. missed \subseteq missed'
      BY <2>4 DEF Apply
    <3>4. ASSUME NEW s \in Present' \ ui.todo
          PROVE  Explained(s)'
      <4>1. CASE s = ui.name
        BY <2>4, <3>1, <3>2, <4>1, ApplySources DEF Explained
      <4>2. CASE s # ui.name
        BY <2>4, <3>1, <3>3, <3>4, <4>2, ApplySources DEF Swept, Pending, Explained
      <4> QED
        BY <4>1, <4>2
    <3> QED
      BY <3>1, <3>4 DEF Swept, Pending
  <2>5. ASSUME NEW s \in Src, EachSource(s)
        PROVE  Swept'
    <3>1. /\ ui.at = "each" /\ s \in ui.todo
          /\ ui'.at = "ask" /\ ui'.back = "apply" /\ ui'.name = s
          /\ ui'.todo = ui.todo \ {s}
      BY <2>5 DEF EachSource
    <3>2. UNCHANGED <<sources, muted, missed>>
      BY <2>5 DEF EachSource
    <3> QED
      BY <3>1, <3>2 DEF Swept, Pending, Explained, Present
  <2>6. CASE EachDone
    <3>1. ui.at = "each" /\ ui.todo = {}
      BY <2>6 DEF EachDone
    <3>2. UNCHANGED <<sources, muted, missed>>
      BY <2>6 DEF EachDone
    <3> QED
      BY <3>1, <3>2 DEF Swept, Pending, Explained, Present
  <2> QED
    BY <1>5, <2>1, <2>2, <2>3, <2>4, <2>5, <2>6 DEF UiStep, Lookup
<1> QED
  BY <1>1, <1>2, <1>3, <1>4, <1>5
  DEF Next, Receive, NameResult, ClientState, Close, Open, vars

-----------------------------------------------------------------------------
(***************************************************************************)
(* The theorems.                                                           *)
(***************************************************************************)
\* Nothing is queued, asked for or muted at the start.
LEMMA InitInv == Init => IInv
<1> SUFFICES ASSUME Init PROVE IInv
  OBVIOUS
<1>1. Present = {}
  BY DEF Init, Present
<1>2. Tables
  BY DEF Init, Tables
<1>3. Places
  BY DEF Init, Places, WsIdle, UiIdle, UiPlace
<1>4. Rings /\ NoNameForgotten /\ Offline /\ Swept
  BY <1>1 DEF Init, Rings, NoNameForgotten, Offline, Swept
<1> QED
  BY <1>2, <1>3, <1>4 DEF IInv

\* The invariant of the playback side, whatever packets, answers, clicks and
\* connections come, and in whatever order.
THEOREM Invariant == Spec => []IInv
<1>1. IInv /\ [Next]_vars => IInv'
  BY PlacesStep, TablesStep, SourcesStep, NamesStep, SweptStep DEF IInv
<1> QED
  BY InitInv, <1>1, PTL DEF Spec

\* Every variable of the playback side keeps its type; a preference is only
\* ever applied to a source that is there (Apply, after the loop of
\* UpdateActiveSpeakerLocalMuteVolume let go of sources_mu to ask for a name).
THEOREM TypeCorrect == Spec => []TypeOK
<1>1. IInv => TypeOK
  <2> SUFFICES ASSUME IInv PROVE TypeOK
    OBVIOUS
  <2>1. Present \subseteq Src
    BY DEF Present
  <2> QED
    BY <2>1 DEF IInv, Places, Tables, TypeOK, UiPlace
<1> QED
  BY <1>1, Invariant, PTL

\* Frames are heard in order, each once, unless the ring was overrun: for a
\* ring of any size and any backlog, and from the moment an overrun ring has
\* run empty again.
THEOREM PlayedInOrderHolds == Spec => []PlayedInOrder
<1>1. IInv => PlayedInOrder
  BY SourceTypes DEF IInv, Rings, RingOK, PlayedInOrder, Source
<1> QED
  BY <1>1, Invariant, PTL

\* A name the client waits for is on its way or about to be asked for, unless
\* the connection closed inside the query that entered it.
THEOREM NoNameForgottenHolds == Spec => []NoNameForgotten
BY Invariant, PTL DEF IInv

\* A mute outlives the preference that set it only on a source the change did
\* not find, for any number of sessions and any packets during the change.
THEOREM NoLeftoverMuteHolds == Spec => []NoLeftoverMute
<1>1. IInv => NoLeftoverMute
  BY DEF IInv, Places, Swept, Pending, Explained, NoLeftoverMute
<1> QED
  BY <1>1, Invariant, PTL
=============================================================================
