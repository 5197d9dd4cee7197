--------------------------- MODULE LiveRoomProofs ---------------------------
(***************************************************************************)
(* Proofs about the live room, for any number of peers and students.       *)
(***************************************************************************)
EXTENDS LiveRoom, FiniteSetTheorems, TLAPS

Roles == {"none", "publisher", "viewer", "mic"}
Places == {"idle", "store", "remote", "hook", "answer", "live", "aborted",
           "refused", "wait", "enter"}
Conns == {"none", "open", "failed", "closed"}
PeerOrNone == Peers \cup {None}

PeerRecord == [role : Roles, at : Places, user : Students \cup {None}]
Callback == [peer : Peers, state : {"failed", "closed"},
             at : {"status", "check", "delete", "remove"}, of : PeerOrNone]
Bundle == [status : {"up", "ended"}, expectsAudio : BOOLEAN, video : PeerOrNone,
           audio : PeerOrNone]
Viewed == [of : PeerOrNone, video : PeerOrNone, audio : PeerOrNone]

PeerType ==
    /\ peer \in [Peers -> PeerRecord]
    /\ conn \in [Peers -> Conns]
    /\ hooked \subseteq Peers
    /\ callbacks \subseteq Callback

CastType ==
    /\ room \in PeerOrNone
    /\ bundle \in [Peers -> Bundle]
    /\ view \in [Peers -> Viewed]
    /\ \A s \in starting :
         s.peer \in Peers /\ s.of = s.peer /\ s.kind \in {"video", "audio"}

MicType ==
    /\ mics \in PeerOrNone
    /\ mic \in [Peers -> [Students -> PeerOrNone]]
    /\ joined \in [Peers -> PeerOrNone]

GaugeType == counted \subseteq Peers /\ gauge \in Int

-----------------------------------------------------------------------------
(* What holds of handlers, connections and callbacks.                      *)

\* A peer whose call has not come has no role and no connection.
IdleInv ==
    \A p \in Peers : peer[p].at = "idle" =>
        /\ peer[p].role = "none" /\ conn[p] = "none"
        /\ view[p].video = None /\ view[p].audio = None

\* A callback runs for a connection that has ended; one that removes a
\* microphone is a microphone's and has loaded a MicBundle.
CallbackInv ==
    \A cb \in callbacks :
        /\ conn[cb.peer] \in {"failed", "closed"}
        /\ cb.at = "remove" => cb.of \in Peers /\ peer[cb.peer].role = "mic"

\* The callback is registered before the answer, by a viewer at once; of a
\* failed connection a callback is under way, until it closes it.  A handler
\* that failed has closed its connection.
HookInv ==
    \A p \in Peers :
        /\ peer[p].at \in {"answer", "live"} => p \in hooked
        /\ peer[p].role = "viewer" => p \in hooked
        /\ peer[p].at = "aborted" => conn[p] \notin {"open", "failed"}
        /\ conn[p] = "failed" => p \in hooked /\ \E cb \in callbacks : cb.peer = p

\* A bundle that is stored, or was loaded by a viewer, is one whose offer has
\* been read.
Offered(p) == peer[p].at \notin {"idle", "store"}

CastInv ==
    /\ room \in Peers => Offered(room)
    /\ \A p \in Peers : view[p].of \in Peers => Offered(view[p].of)
    /\ \A p \in Peers : peer[p].role = "viewer" /\ peer[p].at \in {"wait", "answer", "live"}
         => view[p].of \in Peers
    /\ \A p \in Peers : peer[p].role = "viewer" /\ peer[p].at \in {"answer", "live"} =>
         /\ view[p].video # None
         /\ bundle[view[p].of].expectsAudio => view[p].audio # None

MicInv ==
    /\ \A p \in Peers : peer[p].role = "mic" => joined[p] \in Peers /\ peer[p].user \in Students
    /\ MicKept

\* An open connection of a broadcast or a viewer is in the gauge; one that is
\* closed leaves it through its handler or through a callback.
LifeInv ==
    /\ gauge = Cardinality(counted)
    /\ \A p \in counted : conn[p] # "none" /\ peer[p].role \in {"publisher", "viewer"}
    /\ \A p \in Peers : peer[p].role \in {"publisher", "viewer"} /\ conn[p] = "open"
         => p \in counted
    /\ \A p \in counted : conn[p] = "closed" =>
         \/ peer[p].at \notin {"live", "aborted"}
         \/ \E cb \in callbacks : cb.peer = p /\ cb.at = "status"

Inv ==
    /\ PeerType /\ CastType /\ MicType /\ GaugeType
    /\ IdleInv /\ CallbackInv /\ HookInv
    /\ CastInv /\ StreamsNotMixed /\ MicInv /\ LifeInv
-----------------------------------------------------------------------------
(* Closing connections.                                                    *)

\* None is not a peer.
LEMMA NoneIsNoPeer == None \notin Peers
BY LiveAssumption DEF LiveAssumption, Peers

\* Peers are finitely many, and so are those in the gauge.
LEMMA PeersFinite ==
    ASSUME NEW S \in SUBSET Peers
    PROVE  IsFiniteSet(S) /\ Cardinality(S) \in Nat
<1>1. IsFiniteSet(Peers)
  BY FS_Interval, LiveAssumption DEF Peers, LiveAssumption
<1>2. QED
  BY <1>1, FS_Subset, FS_CardinalityType

\* The callback of a change of state, where one is registered.
LEMMA FiredType ==
    ASSUME NEW p \in Peers, NEW state \in {"failed", "closed"}
    PROVE  /\ Fired(p, state) \subseteq Callback
           /\ \A cb \in Fired(p, state) : cb.peer = p /\ cb.at = "status"
           /\ p \in hooked => \E cb \in Fired(p, state) : cb.peer = p /\ cb.at = "status"
<1> DEFINE new == [peer |-> p, state |-> state, at |-> "status", of |-> None]
<1>1. new \in Callback /\ new.peer = p /\ new.at = "status"
  BY DEF Callback, PeerOrNone
<1>2. Fired(p, state) = IF p \in hooked THEN {new} ELSE {}
  BY DEF Fired
<1> HIDE DEF new
<1>3. QED
  BY <1>1, <1>2

\* Closing ends the open and failed connections it is asked to, each with its
\* callback, and leaves the others and the callbacks under way alone.
ClosedFrom(c, S, cbs) ==
    /\ conn' \in [Peers -> Conns] /\ callbacks' \subseteq Callback
    /\ cbs \subseteq callbacks'
    /\ \A q \in Peers :
         IF q \in S /\ c[q] \in {"open", "failed"}
         THEN conn'[q] = "closed" /\
              (q \in hooked => \E cb \in callbacks' : cb.peer = q /\ cb.at = "status")
         ELSE conn'[q] = c[q]
    /\ \A cb \in callbacks' \ cbs : cb.at = "status" /\ conn'[cb.peer] = "closed"

\* That is what CloseFrom does.
LEMMA CloseFromFacts ==
    ASSUME NEW c \in [Peers -> Conns], NEW S \in SUBSET Peers, NEW cbs \in SUBSET Callback,
           CloseFrom(c, S, cbs)
    PROVE  ClosedFrom(c, S, cbs)
<1> DEFINE open == {p \in S : c[p] \in {"open", "failed"}}
<1>1. /\ conn' = [p \in Peers |-> IF p \in open THEN "closed" ELSE c[p]]
      /\ callbacks' = cbs \cup UNION {Fired(p, "closed") : p \in open}
  BY DEF CloseFrom
<1>2. open \subseteq Peers
  OBVIOUS
<1> HIDE DEF open
<1>3. \A cb : cb \in callbacks' <=> cb \in cbs \/ \E p \in open : cb \in Fired(p, "closed")
  BY <1>1, Zenon
<1>4. \A p \in Peers : p \in open <=> p \in S /\ c[p] \in {"open", "failed"}
  BY DEF open
<1>5. conn' \in [Peers -> Conns]
  BY <1>1 DEF Conns
<1>6. callbacks' \subseteq Callback /\ cbs \subseteq callbacks'
  BY <1>2, <1>3, FiredType
<1>7. ASSUME NEW q \in Peers
      PROVE  IF q \in S /\ c[q] \in {"open", "failed"}
             THEN conn'[q] = "closed" /\
                  (q \in hooked => \E cb \in callbacks' : cb.peer = q /\ cb.at = "status")
             ELSE conn'[q] = c[q]
  BY <1>1, <1>3, <1>4, FiredType
<1>8. ASSUME NEW cb \in callbacks' \ cbs
      PROVE  cb.at = "status" /\ conn'[cb.peer] = "closed"
  BY <1>1, <1>2, <1>3, FiredType
<1>9. QED
  BY <1>5, <1>6, <1>7, <1>8 DEF ClosedFrom

\* The end of a lifecycle takes the peer out of the gauge, if it is in it.
LEMMA LifecycleClosed ==
    ASSUME GaugeType, gauge = Cardinality(counted), NEW p \in Peers, lifecycleClose(p)
    PROVE  GaugeType' /\ gauge' = Cardinality(counted') /\ counted' = counted \ {p}
<1>1. IsFiniteSet(counted) /\ Cardinality(counted) \in Nat
  BY PeersFinite DEF GaugeType
<1>2. Cardinality(counted \ {p}) = IF p \in counted THEN Cardinality(counted) - 1
                                                   ELSE Cardinality(counted)
  BY <1>1, FS_RemoveElement
<1>3. QED
  BY <1>1, <1>2 DEF lifecycleClose, GaugeType

-----------------------------------------------------------------------------
(* Steps of the handlers that end no connection.                           *)

\* A handler goes on: the bundles, the microphones and the gauge stay, and so
\* do the facts about them when the place it reaches makes no claim on them.
LEMMA GotoKeeps ==
    ASSUME Inv, NEW p \in Peers, NEW at \in Places, Goto(p, at),
           peer[p].at \notin {"idle", "live", "aborted"}, at \notin {"idle", "store", "aborted"},
           conn' = conn, callbacks' = callbacks, hooked \subseteq hooked', hooked' \subseteq Peers,
           at \in {"answer", "live"} => p \in hooked',
           at = "live" => conn[p] # "closed"
    PROVE  /\ PeerType' /\ CallbackInv' /\ HookInv'
           /\ view' = view => IdleInv'
           /\ Offered(p)' /\ \A q \in Peers : Offered(q) => Offered(q)'
           /\ UNCHANGED gaugeVars => LifeInv' /\ GaugeType'
<1>1. PeerType'
  BY DEF Inv, PeerType, Goto, PeerRecord
<1>2. CallbackInv'
  BY DEF Inv, PeerType, Goto, PeerRecord, CallbackInv, Callback
<1>3. HookInv'
  BY DEF Inv, PeerType, Goto, PeerRecord, HookInv
<1>4. view' = view => IdleInv'
  BY DEF Inv, PeerType, Goto, PeerRecord, IdleInv
<1>5. Offered(p)' /\ \A q \in Peers : Offered(q) => Offered(q)'
  BY DEF Inv, PeerType, Goto, PeerRecord, Offered
<1>6. UNCHANGED gaugeVars => LifeInv' /\ GaugeType'
  BY DEF Inv, PeerType, Goto, PeerRecord, LifeInv, gaugeVars, GaugeType
<1>7. QED
  BY <1>1, <1>2, <1>3, <1>4, <1>5, <1>6
\* Bundles and views that nobody touches, while no viewer gets further.
LEMMA CastUntouched ==
    ASSUME Inv, UNCHANGED castVars, \A q \in Peers : Offered(q) => Offered(q)',
           \A q \in Peers : peer'[q].role = "viewer" =>
             /\ peer'[q].at \in {"wait", "answer", "live"} =>
                  peer[q].role = "viewer" /\ peer[q].at \in {"wait", "answer", "live"}
             /\ peer'[q].at \in {"answer", "live"} =>
                  peer[q].role = "viewer" /\ peer[q].at \in {"answer", "live"}
    PROVE  CastType' /\ CastInv' /\ StreamsNotMixed'
<1>1. CastType' /\ StreamsNotMixed'
  BY DEF Inv, CastType, StreamsNotMixed, castVars
<1>2. CastInv'
  BY DEF Inv, CastInv, castVars
<1>3. QED
  BY <1>1, <1>2

\* Microphones that nobody touches, while no publisher gets further.
LEMMA MicUntouched ==
    ASSUME Inv, UNCHANGED micVars,
           \A q \in Peers : peer'[q].role = "mic" =>
             /\ peer[q].role = "mic" /\ peer'[q].user = peer[q].user
             /\ peer'[q].at \in {"hook", "answer", "live"} /\ conn'[q] = "open" =>
                  peer[q].at \in {"hook", "answer", "live"} /\ conn[q] = "open"
    PROVE  MicType' /\ MicInv'
BY DEF Inv, MicType, MicInv, MicKept, micVars

\* Broadcast's offer is read and its bundle stored.
LEMMA StoreKeeps ==
    ASSUME Inv, NEW p \in Peers, StoreBundle(p)
    PROVE  Inv'
<1>0. /\ Goto(p, "remote") /\ At(p, "publisher", "store")
      /\ UNCHANGED <<starting, view, micVars, gaugeVars>>
      /\ conn' = conn /\ callbacks' = callbacks /\ hooked' = hooked /\ room' = p
      /\ peer[p].role = "publisher" /\ peer[p].at = "store" /\ hooked \subseteq Peers
  BY DEF StoreBundle, At, Inv, PeerType
<1>1. /\ PeerType' /\ CallbackInv' /\ HookInv' /\ IdleInv'
      /\ Offered(p)' /\ \A q \in Peers : Offered(q) => Offered(q)'
      /\ LifeInv' /\ GaugeType'
  BY <1>0, GotoKeeps DEF Places, gaugeVars
<1>2. \A q \in Peers : /\ peer'[q].role = peer[q].role /\ peer'[q].user = peer[q].user
                       /\ q # p => peer'[q] = peer[q]
                       /\ q = p => peer'[q].at = "remote"
  BY <1>0 DEF Goto, Inv, PeerType, PeerRecord
<1>3. MicType' /\ MicInv'
  BY <1>0, <1>2, MicUntouched
<1>4. PICK audio \in BOOLEAN : bundle' = [bundle EXCEPT ![p] = [bundle[p] EXCEPT !.expectsAudio = audio]]
  BY DEF StoreBundle
<1>5. CastType' /\ StreamsNotMixed'
  BY <1>0, <1>4 DEF Inv, CastType, Bundle, PeerOrNone, StreamsNotMixed
<1>6. \A q \in Peers : view[q].of # p
  BY <1>0 DEF Inv, CastInv, Offered
<1>7. CastInv'
  BY <1>0, <1>1, <1>2, <1>4, <1>6 DEF Inv, CastInv, CastType
<1>8. QED
  BY <1>1, <1>3, <1>5, <1>7 DEF Inv

\* Steps of a handler that move nothing but itself and its callback.
LEMMA MoveKeeps ==
    ASSUME Inv, NEW p \in Peers, SetRemoteDescription(p) \/ HookState(p) \/ Answer(p)
    PROVE  Inv'
<1>1. PICK at \in {"hook", "answer", "live"} :
        /\ Goto(p, at)
        /\ at = "live" => peer[p].at = "answer" /\ conn[p] # "closed"
        /\ at = "hook" => peer[p].role = "publisher" /\ peer[p].at = "remote"
        /\ at = "answer" => /\ peer[p].role \in {"publisher", "mic"} /\ peer[p].at = "hook"
                            /\ p \in hooked'
  BY DEF SetRemoteDescription, HookState, Answer, At
<1>2. /\ conn' = conn /\ callbacks' = callbacks /\ UNCHANGED <<castVars, micVars, gaugeVars>>
      /\ hooked \subseteq hooked' /\ hooked' \subseteq Peers
  BY DEF SetRemoteDescription, HookState, Answer, Inv, PeerType
<1>3. at = "live" => p \in hooked'
  BY <1>1, <1>2 DEF Inv, HookInv
<1>4. /\ PeerType' /\ CallbackInv' /\ HookInv' /\ IdleInv'
      /\ \A q \in Peers : Offered(q) => Offered(q)'
      /\ LifeInv' /\ GaugeType'
  BY <1>1, <1>2, <1>3, GotoKeeps DEF Places, castVars
<1>5. \A q \in Peers : /\ peer'[q].role = peer[q].role /\ peer'[q].user = peer[q].user
                       /\ q # p => peer'[q] = peer[q]
                       /\ q = p => peer'[q].at = at
  BY <1>1 DEF Goto, Inv, PeerType, PeerRecord
<1>6. CastType' /\ CastInv' /\ StreamsNotMixed'
  BY <1>1, <1>2, <1>4, <1>5, CastUntouched
<1>7. MicType' /\ MicInv'
  BY <1>1, <1>2, <1>5, MicUntouched
<1>8. QED
  BY <1>4, <1>6, <1>7 DEF Inv

\* A viewer adds the tracks of the bundle it loaded.
LEMMA TracksKeep ==
    ASSUME Inv, NEW p \in Peers, waitForBroadcastTracks(p)
    PROVE  Inv'
<1> DEFINE b == bundle[view[p].of]
<1>0. /\ Goto(p, "answer") /\ UNCHANGED <<room, bundle, starting, micVars, gaugeVars>>
      /\ conn' = conn /\ callbacks' = callbacks /\ hooked' = hooked
      /\ peer[p].role = "viewer" /\ peer[p].at = "wait" /\ hooked \subseteq Peers
      /\ TracksReady(b) /\ p \in hooked
      /\ view[p].of \in Peers /\ view[p] \in Viewed
  BY DEF waitForBroadcastTracks, At, Inv, PeerType, HookInv, CastInv, CastType
<1>1. /\ view' = [view EXCEPT ![p] = [view[p] EXCEPT !.video = b.video, !.audio = b.audio]]
      /\ b.video \in {view[p].of, None} /\ b.audio \in {view[p].of, None}
  BY <1>0 DEF waitForBroadcastTracks, Inv, StreamsNotMixed
<1>2. view'[p] \in Viewed /\ view'[p].of = view[p].of
      /\ view'[p].video = b.video /\ view'[p].audio = b.audio
      /\ \A q \in Peers : q # p => view'[q] = view[q]
  BY <1>0, <1>1 DEF Inv, CastType, Viewed, PeerOrNone
<1>3. /\ PeerType' /\ CallbackInv' /\ HookInv'
      /\ \A q \in Peers : Offered(q) => Offered(q)'
      /\ LifeInv' /\ GaugeType'
  BY <1>0, GotoKeeps DEF Places
<1>4. \A q \in Peers : /\ peer'[q].role = peer[q].role /\ peer'[q].user = peer[q].user
                       /\ q # p => peer'[q] = peer[q]
                       /\ q = p => peer'[q].at = "answer"
  BY <1>0 DEF Goto, Inv, PeerType, PeerRecord
<1>5. IdleInv'
  BY <1>0, <1>2, <1>4 DEF Inv, IdleInv
<1>6. CastType' /\ StreamsNotMixed'
  BY <1>0, <1>1, <1>2 DEF Inv, CastType, StreamsNotMixed
<1>7. CastInv'
  BY <1>0, <1>2, <1>3, <1>4 DEF Inv, CastInv, TracksReady
<1>8. MicType' /\ MicInv'
  BY <1>0, <1>4, MicUntouched
<1>9. QED
  BY <1>3, <1>5, <1>6, <1>7, <1>8 DEF Inv

\* A track's goroutine has found the bundle of its own session stored.
LEMMA OnTrackKeeps ==
    ASSUME Inv, NEW p \in Peers, NEW kind \in {"video", "audio"}, OnTrack(p, kind)
    PROVE  Inv'
<1> DEFINE new == [peer |-> p, kind |-> kind, of |-> p]
<1>0. /\ UNCHANGED <<peerVars, room, bundle, view, micVars, gaugeVars>>
      /\ starting' = starting \cup {new}
  BY DEF OnTrack
<1>1. new.peer = p /\ new.of = p /\ new.kind = kind
  OBVIOUS
<1> HIDE DEF new
<1>2. CastType' /\ StreamsNotMixed'
  BY <1>0, <1>1 DEF Inv, CastType, StreamsNotMixed
<1>3. CastInv'
  BY <1>0 DEF Inv, CastInv, peerVars, Offered
<1>4. PeerType' /\ GaugeType' /\ IdleInv' /\ CallbackInv' /\ HookInv' /\ LifeInv'
  BY <1>0 DEF Inv, PeerType, GaugeType, IdleInv, CallbackInv, HookInv, LifeInv, peerVars,
     gaugeVars
<1>5. MicType' /\ MicInv'
  BY <1>0, MicUntouched DEF peerVars
<1>6. QED
  BY <1>2, <1>3, <1>4, <1>5 DEF Inv

\* The track enters the bundle of its own session, be it stored still or not.
LEMMA SetTrackKeeps ==
    ASSUME Inv, NEW s \in starting, SetTrack(s)
    PROVE  Inv'
<1>0. /\ UNCHANGED <<peerVars, room, view, micVars, gaugeVars>>
      /\ starting' \subseteq starting
      /\ s.peer \in Peers /\ s.of = s.peer /\ s.kind \in {"video", "audio"}
  BY DEF SetTrack, Inv, CastType
<1> DEFINE p == s.peer
<1>1. /\ bundle'[p] = [bundle[p] EXCEPT ![s.kind] = p]
      /\ \A q \in Peers : q # p => bundle'[q] = bundle[q]
      /\ bundle' = [bundle EXCEPT ![p] = bundle'[p]]
      /\ bundle[p] \in Bundle /\ p \in Peers
  BY <1>0 DEF SetTrack, Inv, CastType
<1> HIDE DEF p
<1>2. bundle'[p] \in Bundle /\ bundle'[p].expectsAudio = bundle[p].expectsAudio
      /\ bundle'[p].video \in {bundle[p].video, p} /\ bundle'[p].audio \in {bundle[p].audio, p}
  <2>1. CASE s.kind = "video"
    BY <1>1, <2>1 DEF Bundle, PeerOrNone
  <2>2. CASE s.kind = "audio"
    BY <1>1, <2>2 DEF Bundle, PeerOrNone
  <2>3. QED
    BY <1>0, <2>1, <2>2
<1>3. CastType' /\ StreamsNotMixed'
  BY <1>0, <1>1, <1>2 DEF Inv, CastType, StreamsNotMixed
<1>4. CastInv'
  BY <1>0, <1>1, <1>2 DEF Inv, CastInv, CastType, peerVars, Offered
<1>5. PeerType' /\ GaugeType' /\ IdleInv' /\ CallbackInv' /\ HookInv' /\ LifeInv'
  BY <1>0 DEF Inv, PeerType, GaugeType, IdleInv, CallbackInv, HookInv, LifeInv, peerVars,
     gaugeVars
<1>6. MicType' /\ MicInv'
  BY <1>0, MicUntouched DEF peerVars
<1>7. QED
  BY <1>3, <1>4, <1>5, <1>6 DEF Inv
-----------------------------------------------------------------------------
(* Connections that end.                                                   *)

\* The connection of an answered peer fails or is closed.
LEMMA ConnectionEndsKeeps ==
    ASSUME Inv, NEW p \in Peers, NEW state \in {"failed", "closed"}, ConnectionEnds(p, state)
    PROVE  Inv'
<1>0. /\ peer' = peer /\ hooked' = hooked /\ UNCHANGED <<castVars, micVars, gaugeVars>>
      /\ peer[p].at = "live" /\ conn[p] = "open" /\ p \in hooked
      /\ conn' = [conn EXCEPT ![p] = state] /\ callbacks' = callbacks \cup Fired(p, state)
  BY DEF ConnectionEnds, Inv, HookInv
<1>1. /\ conn' \in [Peers -> Conns] /\ conn'[p] = state
      /\ \A q \in Peers : q # p => conn'[q] = conn[q]
  BY <1>0 DEF Inv, PeerType, Conns
<1>2. /\ callbacks \subseteq callbacks' /\ callbacks' \subseteq Callback
      /\ \A cb \in callbacks' : cb \in callbacks \/ (cb.peer = p /\ cb.at = "status")
      /\ \E cb \in callbacks' : cb.peer = p /\ cb.at = "status"
  BY <1>0, FiredType DEF Inv, PeerType
<1>3. PeerType' /\ GaugeType' /\ IdleInv'
  BY <1>0, <1>1, <1>2 DEF Inv, PeerType, GaugeType, IdleInv, gaugeVars, castVars
<1>4. CallbackInv'
  BY <1>0, <1>1, <1>2 DEF Inv, CallbackInv, Callback, PeerType
<1>5. HookInv'
  BY <1>0, <1>1, <1>2 DEF Inv, HookInv
<1>6. LifeInv'
  BY <1>0, <1>1, <1>2 DEF Inv, LifeInv, gaugeVars, GaugeType
<1>7. CastType' /\ CastInv' /\ StreamsNotMixed'
  BY <1>0, CastUntouched DEF Offered
<1>8. MicType' /\ MicInv'
  BY <1>0, <1>1, MicUntouched
<1>9. QED
  BY <1>3, <1>4, <1>5, <1>6, <1>7, <1>8 DEF Inv

\* Connections only end: what is left open was open.
OnlyEnds ==
    /\ conn' \in [Peers -> Conns] /\ callbacks' \subseteq Callback
    /\ \A q \in Peers : \/ conn'[q] = conn[q]
                        \/ conn[q] \in {"open", "failed"} /\ conn'[q] = "closed"

\* A callback's end closes its connection; the other callbacks go on.
LEMMA FinishFacts ==
    ASSUME Inv, NEW cb \in callbacks, Finish(cb), peer' = peer, hooked' = hooked
    PROVE  /\ OnlyEnds /\ conn'[cb.peer] = "closed"
           /\ PeerType' /\ CallbackInv' /\ HookInv'
           /\ view' = view => IdleInv'
           /\ callbacks \ {cb} \subseteq callbacks'
           /\ \A q \in Peers : conn'[q] # conn[q] =>
                q \in hooked /\ \E d \in callbacks' : d.peer = q /\ d.at = "status"
<1>0. /\ cb \in Callback /\ cb.peer \in Peers /\ conn \in [Peers -> Conns]
      /\ callbacks \ {cb} \subseteq Callback
      /\ conn[cb.peer] \in {"failed", "closed"}
      /\ conn[cb.peer] = "failed" => cb.peer \in hooked
  BY DEF Inv, PeerType, CallbackInv, Callback, HookInv
<1>1. /\ conn' \in [Peers -> Conns] /\ callbacks' \subseteq Callback
      /\ callbacks \ {cb} \subseteq callbacks'
      /\ \A q \in Peers :
           IF q = cb.peer /\ conn[q] \in {"open", "failed"}
           THEN conn'[q] = "closed" /\
                (q \in hooked => \E d \in callbacks' : d.peer = q /\ d.at = "status")
           ELSE conn'[q] = conn[q]
      /\ \A d \in callbacks' \ (callbacks \ {cb}) : d.at = "status" /\ conn'[d.peer] = "closed"
  <2>1. {cb.peer} \in SUBSET Peers /\ CloseFrom(conn, {cb.peer}, callbacks \ {cb})
    BY <1>0 DEF Finish
  <2>2. ClosedFrom(conn, {cb.peer}, callbacks \ {cb})
    BY <1>0, <2>1, CloseFromFacts
  <2>3. QED
    BY <2>2 DEF ClosedFrom
<1>2. OnlyEnds /\ conn'[cb.peer] = "closed"
  BY <1>0, <1>1 DEF OnlyEnds
<1>3. PeerType'
  BY <1>1 DEF Inv, PeerType
<1>4. CallbackInv'
  <2> SUFFICES ASSUME NEW d \in callbacks'
               PROVE  /\ conn'[d.peer] \in {"failed", "closed"}
                      /\ d.at = "remove" => d.of \in Peers /\ peer'[d.peer].role = "mic"
    BY DEF CallbackInv
  <2>1. d.peer \in Peers
    BY <1>1 DEF Callback
  <2>2. CASE d \in callbacks
    BY <1>1, <2>1, <2>2 DEF Inv, CallbackInv
  <2>3. CASE d \notin callbacks
    BY <1>1, <2>3
  <2>4. QED
    BY <2>2, <2>3
<1>5. HookInv'
  BY <1>0, <1>1 DEF Inv, HookInv
<1>6. view' = view => IdleInv'
  BY <1>0, <1>1 DEF Inv, IdleInv
<1>7. \A q \in Peers : conn'[q] # conn[q] =>
        q \in hooked /\ \E d \in callbacks' : d.peer = q /\ d.at = "status"
  BY <1>0, <1>1
<1>8. QED
  BY <1>1, <1>2, <1>3, <1>4, <1>5, <1>6, <1>7

\* The gauge's facts after connections ended, when the peer of a callback that
\* is gone is not counted any more.
LEMMA LifeKept ==
    ASSUME Inv, peer' = peer, OnlyEnds, NEW cb \in callbacks,
           callbacks \ {cb} \subseteq callbacks',
           \A q \in Peers : conn'[q] # conn[q] =>
                \E d \in callbacks' : d.peer = q /\ d.at = "status",
           \/ UNCHANGED gaugeVars /\ (cb.at # "status" \/ peer[cb.peer].role = "mic")
           \/ lifecycleClose(cb.peer)
    PROVE  GaugeType' /\ LifeInv'
<1>0. cb \in Callback /\ cb.peer \in Peers /\ conn[cb.peer] \in {"failed", "closed"}
  BY DEF Inv, PeerType, Callback, CallbackInv
<1>1. /\ GaugeType' /\ gauge' = Cardinality(counted')
      /\ counted' \subseteq counted /\ counted \ counted' \subseteq {cb.peer}
  BY <1>0, LifecycleClosed DEF Inv, LifeInv, gaugeVars, GaugeType
<1>2. cb.at = "status" => cb.peer \notin counted'
  BY <1>0, <1>1, LifecycleClosed DEF Inv, LifeInv
<1>3. ASSUME NEW q \in counted', conn'[q] = "closed"
      PROVE  \/ peer'[q].at \notin {"live", "aborted"}
             \/ \E d \in callbacks' : d.peer = q /\ d.at = "status"
  <2>1. q \in counted /\ q \in Peers
    BY <1>1 DEF Inv, GaugeType
  <2>2. CASE conn'[q] # conn[q]
    BY <2>1, <2>2
  <2>3. CASE conn'[q] = conn[q]
    BY <1>2, <1>3, <2>1, <2>3 DEF Inv, LifeInv
  <2>4. QED
    BY <2>2, <2>3
<1>4. LifeInv'
  BY <1>0, <1>1, <1>3 DEF Inv, LifeInv, OnlyEnds, GaugeType
<1>5. QED
  BY <1>1, <1>4
\* A callback goes on to its next statement.
LEMMA MoveFacts ==
    ASSUME Inv, NEW cb \in callbacks, NEW d \in Callback, d.peer = cb.peer,
           callbacks' = (callbacks \ {cb}) \cup {d}, peer' = peer, hooked' = hooked, conn' = conn,
           d.at = "remove" => d.of \in Peers /\ peer[cb.peer].role = "mic"
    PROVE  /\ OnlyEnds /\ PeerType' /\ CallbackInv' /\ HookInv'
           /\ view' = view => IdleInv'
<1>1. OnlyEnds /\ PeerType'
  BY DEF Inv, PeerType, OnlyEnds
<1>2. CallbackInv'
  BY DEF Inv, CallbackInv
<1>3. HookInv'
  BY DEF Inv, HookInv
<1>4. view' = view => IdleInv'
  BY DEF Inv, IdleInv
<1>5. QED
  BY <1>1, <1>2, <1>3, <1>4

\* A callback's next statement is a callback of the same peer.
LEMMA MovedCallback ==
    ASSUME Inv, NEW cb \in callbacks, NEW at \in {"check", "delete"}
    PROVE  LET d == [cb EXCEPT !.at = at] IN d \in Callback /\ d.peer = cb.peer /\ d.at = at
BY DEF Inv, PeerType, Callback

\* Broadcast's callback ends the lifecycle and sets the status of its bundle.
LEMMA CastStatusKeeps ==
    ASSUME Inv, NEW cb \in callbacks, CastStatus(cb)
    PROVE  Inv'
<1> DEFINE d == [cb EXCEPT !.at = "check"]
<1>0. /\ peer' = peer /\ conn' = conn /\ hooked' = hooked /\ room' = room /\ view' = view
      /\ starting' = starting /\ UNCHANGED micVars /\ lifecycleClose(cb.peer)
      /\ callbacks' = (callbacks \ {cb}) \cup {d}
      /\ cb.peer \in Peers
      /\ bundle' = IF room = cb.peer
                   THEN [bundle EXCEPT ![cb.peer] = [bundle[cb.peer] EXCEPT !.status = "ended"]]
                   ELSE bundle
  BY DEF CastStatus, Move, Inv, PeerType, Callback
<1>1. d \in Callback /\ d.peer = cb.peer /\ d.at = "check"
  BY MovedCallback
<1> HIDE DEF d
<1>2. OnlyEnds /\ PeerType' /\ CallbackInv' /\ HookInv' /\ IdleInv'
  BY <1>0, <1>1, MoveFacts
<1>3. GaugeType' /\ LifeInv'
  BY <1>0, <1>2, LifeKept
<1>4. \A q \in Peers :
        /\ bundle'[q] \in Bundle
        /\ bundle'[q].expectsAudio = bundle[q].expectsAudio
        /\ bundle'[q].video = bundle[q].video /\ bundle'[q].audio = bundle[q].audio
  BY <1>0 DEF Inv, CastType, Bundle
<1>5. CastType'
  BY <1>0, <1>4 DEF Inv, CastType
<1>6. StreamsNotMixed'
  BY <1>0, <1>4 DEF Inv, StreamsNotMixed
<1>7. CastInv'
  BY <1>0, <1>4 DEF Inv, CastInv, Offered
<1>8. MicType' /\ MicInv'
  BY <1>0, MicUntouched
<1>9. QED
  BY <1>2, <1>3, <1>5, <1>6, <1>7, <1>8 DEF Inv

\* It compares the stored bundle, deletes the lesson's entry, closes.
LEMMA CastEndKeeps ==
    ASSUME Inv, NEW cb \in callbacks, CastCheck(cb) \/ CastDelete(cb)
    PROVE  Inv'
<1>0. /\ peer' = peer /\ hooked' = hooked /\ view' = view /\ bundle' = bundle
      /\ room' \in {room, None} /\ starting' = starting
      /\ UNCHANGED micVars /\ UNCHANGED gaugeVars
      /\ cb.at # "status"
      /\ Finish(cb) \/ (callbacks' = Move(cb, "delete") /\ conn' = conn)
  BY DEF CastCheck, CastDelete, castVars
<1>1. OnlyEnds /\ PeerType' /\ CallbackInv' /\ HookInv' /\ IdleInv' /\ GaugeType' /\ LifeInv'
  <2>1. CASE Finish(cb)
    BY <1>0, <2>1, FinishFacts, LifeKept
  <2>2. CASE callbacks' = Move(cb, "delete") /\ conn' = conn
    <3> DEFINE d == [cb EXCEPT !.at = "delete"]
    <3>1. d \in Callback /\ d.peer = cb.peer /\ d.at = "delete"
      BY MovedCallback
    <3>2. callbacks' = (callbacks \ {cb}) \cup {d}
      BY <2>2 DEF Move
    <3> HIDE DEF d
    <3>3. OnlyEnds /\ PeerType' /\ CallbackInv' /\ HookInv' /\ IdleInv'
      BY <1>0, <2>2, <3>1, <3>2, MoveFacts
    <3>4. QED
      BY <1>0, <2>2, <3>2, <3>3, LifeKept
  <2>3. QED
    BY <1>0, <2>1, <2>2
<1>2. CastType' /\ StreamsNotMixed'
  BY <1>0 DEF Inv, CastType, StreamsNotMixed, PeerOrNone
<1>3. CastInv'
  BY <1>0, NoneIsNoPeer DEF Inv, CastInv, Offered
<1>4. MicType' /\ MicInv'
  BY <1>0, <1>1, MicUntouched DEF OnlyEnds
<1>5. QED
  BY <1>1, <1>2, <1>3, <1>4 DEF Inv

\* View's callback ends the lifecycle and closes.
LEMMA ViewStatusKeeps ==
    ASSUME Inv, NEW cb \in callbacks, ViewStatus(cb)
    PROVE  Inv'
<1>0. /\ peer' = peer /\ hooked' = hooked /\ UNCHANGED <<castVars, micVars>>
      /\ view' = view /\ Finish(cb) /\ lifecycleClose(cb.peer)
  BY DEF ViewStatus, castVars
<1>1. OnlyEnds /\ PeerType' /\ CallbackInv' /\ HookInv' /\ IdleInv' /\ GaugeType' /\ LifeInv'
  BY <1>0, FinishFacts, LifeKept
<1>2. CastType' /\ CastInv' /\ StreamsNotMixed'
  BY <1>0, CastUntouched DEF Offered
<1>3. MicType' /\ MicInv'
  BY <1>0, <1>1, MicUntouched DEF OnlyEnds
<1>4. QED
  BY <1>1, <1>2, <1>3 DEF Inv
\* PublishMic's callback loads the MicBundle.
LEMMA MicLoadKeeps ==
    ASSUME Inv, NEW cb \in callbacks, MicLoad(cb)
    PROVE  Inv'
<1>0. /\ peer' = peer /\ hooked' = hooked /\ UNCHANGED <<castVars, micVars, gaugeVars>>
      /\ view' = view /\ UNCHANGED gaugeVars /\ peer[cb.peer].role = "mic"
  BY DEF MicLoad, castVars
<1>1. OnlyEnds /\ PeerType' /\ CallbackInv' /\ HookInv' /\ IdleInv' /\ GaugeType' /\ LifeInv'
  <2>1. CASE mics = None
    BY <1>0, <2>1, FinishFacts, LifeKept DEF MicLoad
  <2>2. CASE mics # None
    <3> DEFINE d == [cb EXCEPT !.at = "remove", !.of = mics]
    <3>1. d \in Callback /\ d.peer = cb.peer /\ d.of \in Peers
      BY <2>2 DEF Inv, PeerType, MicType, Callback, PeerOrNone
    <3>2. callbacks' = (callbacks \ {cb}) \cup {d} /\ conn' = conn
      BY <2>2 DEF MicLoad
    <3> HIDE DEF d
    <3>3. OnlyEnds /\ PeerType' /\ CallbackInv' /\ HookInv' /\ IdleInv'
      BY <1>0, <3>1, <3>2, MoveFacts
    <3>4. QED
      BY <1>0, <3>2, <3>3, LifeKept
  <2>3. QED
    BY <2>1, <2>2
<1>2. CastType' /\ CastInv' /\ StreamsNotMixed'
  BY <1>0, CastUntouched DEF Offered
<1>3. MicType' /\ MicInv'
  BY <1>0, <1>1, MicUntouched DEF OnlyEnds
<1>4. QED
  BY <1>1, <1>2, <1>3 DEF Inv

\* It removes the entry of its own session, whose connection has ended.
LEMMA MicRemoveKeeps ==
    ASSUME Inv, NEW cb \in callbacks, MicRemove(cb)
    PROVE  Inv'
<1> DEFINE u == peer[cb.peer].user
           own == mic[cb.of][u] = cb.peer
<1>0. /\ peer' = peer /\ hooked' = hooked /\ UNCHANGED castVars
      /\ view' = view /\ UNCHANGED gaugeVars /\ joined' = joined /\ cb.at = "remove"
      /\ Finish(cb)
      /\ mic' = IF own THEN [mic EXCEPT ![cb.of] = [mic[cb.of] EXCEPT ![u] = None]] ELSE mic
      /\ mics' \in {mics, None}
  BY DEF MicRemove, castVars
<1>1. OnlyEnds /\ PeerType' /\ CallbackInv' /\ HookInv' /\ IdleInv' /\ GaugeType' /\ LifeInv'
  BY <1>0, FinishFacts, LifeKept
<1>2. CastType' /\ CastInv' /\ StreamsNotMixed'
  BY <1>0, CastUntouched DEF Offered
<1>3. /\ cb.of \in Peers /\ cb.peer \in Peers /\ u \in Students
      /\ conn[cb.peer] # "open" /\ conn'[cb.peer] # "open"
  BY <1>0, FinishFacts DEF Inv, PeerType, CallbackInv, Callback, MicInv
<1>4. MicType'
  BY <1>0, <1>3 DEF Inv, MicType, PeerOrNone
<1>5. \A b \in Peers, v \in Students : mic'[b][v] # mic[b][v] => mic[b][v] = cb.peer
  BY <1>0, <1>3 DEF Inv, MicType
<1>6. MicInv'
  BY <1>0, <1>1, <1>3, <1>5 DEF Inv, MicInv, MicKept, OnlyEnds
<1>7. QED
  BY <1>1, <1>2, <1>4, <1>6 DEF Inv

-----------------------------------------------------------------------------
(* Handlers that end, and the entry of a microphone.                       *)

\* The deferred function of a handler that failed closes its connection and
\* takes it out of the gauge.
LEMMA AbortKeeps ==
    ASSUME Inv, NEW p \in Peers, Abort(p), peer[p].at \notin {"idle", "live", "store"},
           UNCHANGED <<castVars, micVars>>
    PROVE  Inv'
<1>0. /\ Goto(p, "aborted") /\ CloseFrom(conn, {p}, callbacks) /\ hooked' = hooked
      /\ conn \in [Peers -> Conns] /\ callbacks \in SUBSET Callback /\ view' = view
  BY DEF Abort, Inv, PeerType, castVars
<1>1. \A q \in Peers : /\ peer'[q].role = peer[q].role /\ peer'[q].user = peer[q].user
                       /\ q # p => peer'[q] = peer[q]
                       /\ q = p => peer'[q].at = "aborted"
  BY <1>0 DEF Goto, Inv, PeerType, PeerRecord
<1>2. /\ conn' \in [Peers -> Conns] /\ callbacks' \subseteq Callback
      /\ callbacks \subseteq callbacks'
      /\ \A q \in Peers : q # p => conn'[q] = conn[q]
      /\ conn[p] \in {"open", "failed"} => conn'[p] = "closed"
      /\ conn[p] \notin {"open", "failed"} => conn'[p] = conn[p]
      /\ \A cb \in callbacks' \ callbacks : cb.at = "status" /\ conn'[cb.peer] = "closed"
  <2>1. ClosedFrom(conn, {p}, callbacks)
    BY <1>0, CloseFromFacts
  <2>2. QED
    BY <2>1 DEF ClosedFrom
<1>3. PeerType'
  BY <1>0, <1>2 DEF Inv, PeerType, Goto, PeerRecord, Places
<1>4. IdleInv'
  BY <1>0, <1>1, <1>2 DEF Inv, IdleInv
<1>5. CallbackInv'
  <2> SUFFICES ASSUME NEW d \in callbacks'
               PROVE  /\ conn'[d.peer] \in {"failed", "closed"}
                      /\ d.at = "remove" => d.of \in Peers /\ peer'[d.peer].role = "mic"
    BY DEF CallbackInv
  <2>1. d.peer \in Peers
    BY <1>2 DEF Callback
  <2>2. CASE d \in callbacks
    BY <1>1, <1>2, <2>1, <2>2 DEF Inv, CallbackInv
  <2>3. CASE d \notin callbacks
    BY <1>2, <2>3
  <2>4. QED
    BY <2>2, <2>3
<1>6. HookInv'
  BY <1>0, <1>1, <1>2 DEF Inv, HookInv
<1>7. CastType' /\ CastInv' /\ StreamsNotMixed'
  BY <1>1, CastUntouched DEF Offered
<1>8. MicType' /\ MicInv'
  BY <1>1, <1>2, MicUntouched
<1>9. /\ GaugeType' /\ gauge' = Cardinality(counted') /\ counted' = counted \ {p}
  <2>1. CASE peer[p].role = "mic"
    BY <2>1 DEF Abort, gaugeVars, Inv, GaugeType, LifeInv
  <2>2. CASE peer[p].role # "mic"
    BY <2>2, LifecycleClosed DEF Abort, Inv, LifeInv
  <2>3. QED
    BY <2>1, <2>2
<1>10. LifeInv'
  BY <1>1, <1>2, <1>9 DEF Inv, LifeInv, GaugeType
<1>11. QED
  BY <1>3, <1>4, <1>5, <1>6, <1>7, <1>8, <1>9, <1>10 DEF Inv

\* Under the MicBundle's lock the old connection of the student is closed and
\* the new publisher takes its place.
LEMMA EnterMicKeeps ==
    ASSUME Inv, NEW p \in Peers, EnterMic(p)
    PROVE  Inv'
<1> DEFINE b == joined[p]
           u == peer[p].user
           old == mic[b][u]
           S == {old} \cap Peers
<1>0. /\ peer[p].role = "mic" /\ peer[p].at = "enter" /\ b \in Peers /\ u \in Students
      /\ Goto(p, "hook") /\ CloseFrom(conn, S, callbacks)
      /\ mic' = [mic EXCEPT ![b] = [mic[b] EXCEPT ![u] = p]]
      /\ hooked' = hooked /\ mics' = mics /\ joined' = joined
      /\ UNCHANGED <<castVars, gaugeVars>> /\ view' = view
      /\ conn \in [Peers -> Conns] /\ callbacks \in SUBSET Callback
  BY DEF EnterMic, At, Inv, MicInv, PeerType, castVars
<1>1. \A q \in Peers : /\ peer'[q].role = peer[q].role /\ peer'[q].user = peer[q].user
                       /\ q # p => peer'[q] = peer[q]
                       /\ q = p => peer'[q].at = "hook"
  BY <1>0 DEF Goto, Inv, PeerType, PeerRecord
<1> HIDE DEF old
<1>2. S \in SUBSET Peers /\ \A q \in Peers : q \in S <=> q = old
  OBVIOUS
<1>a. conn \in [Peers -> Conns] /\ callbacks \in SUBSET Callback /\ CloseFrom(conn, S, callbacks)
  BY <1>0
<1> HIDE DEF S
<1>3. /\ conn' \in [Peers -> Conns] /\ callbacks' \subseteq Callback
      /\ callbacks \subseteq callbacks'
      /\ \A q \in Peers : IF q = old /\ conn[q] \in {"open", "failed"}
            THEN conn'[q] = "closed" /\
                 (q \in hooked => \E cb \in callbacks' : cb.peer = q /\ cb.at = "status")
            ELSE conn'[q] = conn[q]
      /\ \A cb \in callbacks' \ callbacks : cb.at = "status" /\ conn'[cb.peer] = "closed"
  <2>1. ClosedFrom(conn, S, callbacks)
    BY <1>2, <1>a, CloseFromFacts
  <2>2. QED
    BY <1>2, <2>1 DEF ClosedFrom
<1>4. PeerType' /\ GaugeType'
  <2>1. peer' \in [Peers -> PeerRecord]
    BY <1>0 DEF Inv, PeerType, Goto, PeerRecord, Places
  <2>2. GaugeType'
    BY <1>0 DEF Inv, GaugeType, gaugeVars
  <2>3. QED
    BY <1>0, <1>3, <2>1, <2>2 DEF Inv, PeerType
<1>5. IdleInv'
  BY <1>0, <1>1, <1>3 DEF Inv, IdleInv
<1>6. CallbackInv'
  <2> SUFFICES ASSUME NEW d \in callbacks'
               PROVE  /\ conn'[d.peer] \in {"failed", "closed"}
                      /\ d.at = "remove" => d.of \in Peers /\ peer'[d.peer].role = "mic"
    BY DEF CallbackInv
  <2>1. d.peer \in Peers
    BY <1>3 DEF Callback
  <2>2. CASE d \in callbacks
    BY <1>1, <1>3, <2>1, <2>2 DEF Inv, CallbackInv
  <2>3. CASE d \notin callbacks
    BY <1>3, <2>3
  <2>4. QED
    BY <2>2, <2>3
<1>7. HookInv'
  BY <1>0, <1>1, <1>3 DEF Inv, HookInv
<1>8. CastType' /\ CastInv' /\ StreamsNotMixed'
  BY <1>0, <1>1, CastUntouched DEF Offered
<1>9. MicType'
  BY <1>0 DEF Inv, MicType, PeerOrNone
<1>10. /\ mic'[b][u] = p
       /\ \A c \in Peers, v \in Students : c # b \/ v # u => mic'[c][v] = mic[c][v]
  BY <1>0 DEF Inv, MicType
<1>11. MicInv'
  BY <1>0, <1>1, <1>3, <1>10 DEF Inv, MicInv, MicKept, old
<1>12. \A q \in Peers : conn'[q] # conn[q] /\ peer[q].role \in {"publisher", "viewer"}
           /\ peer[q].at = "live" => \E cb \in callbacks' : cb.peer = q /\ cb.at = "status"
  BY <1>3 DEF Inv, HookInv
<1>13. \A q \in counted : peer'[q].at = "aborted" => conn'[q] = conn[q]
  <2> SUFFICES ASSUME NEW q \in counted, peer'[q].at = "aborted", conn'[q] # conn[q] PROVE FALSE
    OBVIOUS
  <2>1. q \in Peers /\ conn[q] \in {"open", "failed"} /\ peer[q].at = "aborted"
    BY <1>1, <1>3 DEF Inv, GaugeType
  <2>2. QED
    BY <2>1 DEF Inv, HookInv
<1>14. LifeInv'
  BY <1>0, <1>1, <1>3, <1>12, <1>13 DEF Inv, LifeInv, GaugeType, gaugeVars
<1>15. QED
  BY <1>4, <1>5, <1>6, <1>7, <1>8, <1>9, <1>11, <1>14 DEF Inv
-----------------------------------------------------------------------------
(* New calls.                                                              *)

\* The peer of a new call is in no bundle, view, callback or gauge.
LEMMA NewPeerFacts ==
    ASSUME Inv, NEW p \in Peers, NEW role \in Roles, NEW at \in Places,
           NEW u \in Students \cup {None}, NewPeer(p, role, at, u)
    PROVE  /\ peer[p].at = "idle" /\ peer[p].role = "none" /\ conn[p] = "none"
           /\ peer' \in [Peers -> PeerRecord]
           /\ peer'[p] = [role |-> role, at |-> at, user |-> u]
           /\ \A q \in Peers : q # p => peer'[q] = peer[q]
           /\ p \notin counted /\ room # p /\ \A cb \in callbacks : cb.peer # p
           /\ \A q \in Peers : view[q].of # p
           /\ view[p].video = None /\ view[p].audio = None
<1>1. p >= p
  BY LiveAssumption DEF Peers, LiveAssumption
<1>2. peer[p].at = "idle" /\ peer' = [peer EXCEPT ![p] = [role |-> role, at |-> at, user |-> u]]
  BY <1>1 DEF NewPeer
<1>3. [role |-> role, at |-> at, user |-> u] \in PeerRecord
  BY DEF PeerRecord
<1>4. /\ peer' \in [Peers -> PeerRecord]
      /\ peer'[p] = [role |-> role, at |-> at, user |-> u]
      /\ \A q \in Peers : q # p => peer'[q] = peer[q]
  BY <1>2, <1>3 DEF Inv, PeerType
<1>5. peer[p].role = "none" /\ conn[p] = "none" /\ view[p].video = None /\ view[p].audio = None
  BY <1>2 DEF Inv, IdleInv
<1>6. p \notin counted /\ \A cb \in callbacks : cb.peer # p
  BY <1>5 DEF Inv, LifeInv, CallbackInv
<1>7. room # p /\ \A q \in Peers : view[q].of # p
  BY <1>2 DEF Inv, CastInv, Offered
<1>8. QED
  BY <1>2, <1>4, <1>5, <1>6, <1>7

\* A new lifecycle is counted once.
LEMMA LifecycleOpened ==
    ASSUME GaugeType, gauge = Cardinality(counted), NEW p \in Peers, p \notin counted,
           counted' = counted \cup {p}, gauge' = gauge + 1
    PROVE  GaugeType' /\ gauge' = Cardinality(counted')
<1>1. IsFiniteSet(counted) /\ Cardinality(counted) \in Nat
  BY PeersFinite DEF GaugeType
<1>2. Cardinality(counted \cup {p}) = Cardinality(counted) + 1
  BY <1>1, FS_AddElement
<1>3. QED
  BY <1>1, <1>2 DEF GaugeType

\* Broadcast: the new connection is counted, the publisher of the stored bundle
\* is closed, with its callback if it has registered one.
LEMMA BroadcastKeeps ==
    ASSUME Inv, NEW p \in Peers, Broadcast(p)
    PROVE  Inv'
<1> DEFINE c == [conn EXCEPT ![p] = "open"]
           S == {room} \cap Peers
<1>0. /\ NewPeer(p, "publisher", "store", None) /\ hooked' = hooked
      /\ UNCHANGED <<castVars, micVars>> /\ view' = view
      /\ counted' = counted \cup {p} /\ gauge' = gauge + 1
      /\ CloseFrom(c, S, callbacks) /\ callbacks \in SUBSET Callback
  BY DEF Broadcast, castVars, Inv, PeerType
<1>1. /\ peer[p].at = "idle" /\ peer[p].role = "none" /\ conn[p] = "none"
      /\ peer' \in [Peers -> PeerRecord]
      /\ peer'[p] = [role |-> "publisher", at |-> "store", user |-> None]
      /\ \A q \in Peers : q # p => peer'[q] = peer[q]
      /\ p \notin counted /\ room # p /\ \A cb \in callbacks : cb.peer # p
      /\ \A q \in Peers : view[q].of # p
  BY <1>0, NewPeerFacts DEF Roles, Places
<1>2. /\ c \in [Peers -> Conns] /\ c[p] = "open" /\ \A q \in Peers : q # p => c[q] = conn[q]
      /\ S \in SUBSET Peers /\ \A q \in Peers : q \in S <=> q = room
  BY DEF Inv, PeerType, Conns
<1> HIDE DEF c, S
<1>3. ClosedFrom(c, S, callbacks)
  BY <1>0, <1>2, CloseFromFacts
<1>4. /\ conn' \in [Peers -> Conns] /\ callbacks' \subseteq Callback
      /\ callbacks \subseteq callbacks' /\ conn'[p] = "open"
      /\ \A q \in Peers : q # p => IF q = room /\ conn[q] \in {"open", "failed"}
            THEN conn'[q] = "closed" /\
                 (q \in hooked => \E cb \in callbacks' : cb.peer = q /\ cb.at = "status")
            ELSE conn'[q] = conn[q]
      /\ \A cb \in callbacks' \ callbacks : cb.at = "status" /\ conn'[cb.peer] = "closed"
  BY <1>1, <1>2, <1>3 DEF ClosedFrom
<1>5. PeerType' /\ IdleInv'
  BY <1>0, <1>1, <1>4 DEF Inv, PeerType, IdleInv
<1>6. CallbackInv'
  <2> SUFFICES ASSUME NEW d \in callbacks'
               PROVE  /\ conn'[d.peer] \in {"failed", "closed"}
                      /\ d.at = "remove" => d.of \in Peers /\ peer'[d.peer].role = "mic"
    BY DEF CallbackInv
  <2>1. d.peer \in Peers
    BY <1>4 DEF Callback
  <2>2. CASE d \in callbacks
    BY <1>1, <1>4, <2>1, <2>2 DEF Inv, CallbackInv
  <2>3. CASE d \notin callbacks
    BY <1>4, <2>3
  <2>4. QED
    BY <2>2, <2>3
<1>7. HookInv'
  BY <1>0, <1>1, <1>4 DEF Inv, HookInv
<1>8. CastType' /\ CastInv' /\ StreamsNotMixed'
  <2>1. \A q \in Peers : Offered(q) => Offered(q)'
    BY <1>1 DEF Offered
  <2>2. QED
    BY <1>0, <1>1, <2>1, CastUntouched
<1>9. MicType' /\ MicInv'
  BY <1>0, <1>1, <1>4, MicUntouched
<1>10. GaugeType' /\ gauge' = Cardinality(counted')
  BY <1>0, <1>1, LifecycleOpened DEF Inv, LifeInv
<1>11. ASSUME NEW q \in counted', conn'[q] = "closed"
       PROVE  \/ peer'[q].at \notin {"live", "aborted"}
              \/ \E d \in callbacks' : d.peer = q /\ d.at = "status"
  <2>1. q \in Peers /\ q \in counted /\ q # p
    BY <1>0, <1>4, <1>11 DEF Inv, GaugeType
  <2>2. CASE conn[q] = "closed"
    BY <1>1, <1>4, <2>1, <2>2 DEF Inv, LifeInv
  <2>3. CASE conn[q] # "closed"
    BY <1>1, <1>4, <1>11, <2>1, <2>3 DEF Inv, HookInv
  <2>4. QED
    BY <2>2, <2>3
<1>12. LifeInv'
  BY <1>0, <1>1, <1>4, <1>10, <1>11 DEF Inv, LifeInv, GaugeType
<1>13. QED
  BY <1>5, <1>6, <1>7, <1>8, <1>9, <1>10, <1>12 DEF Inv

\* View: the connection is counted, its callback registered, and the stored
\* bundle loaded.
LEMMA ViewKeeps ==
    ASSUME Inv, NEW p \in Peers, View(p)
    PROVE  Inv'
<1> DEFINE at == IF room = None THEN "refused" ELSE "wait"
<1>0. /\ NewPeer(p, "viewer", at, None) /\ hooked' = hooked \cup {p} /\ callbacks' = callbacks
      /\ UNCHANGED micVars /\ room' = room /\ bundle' = bundle
      /\ starting' = starting
      /\ conn' = [conn EXCEPT ![p] = "open"]
      /\ counted' = counted \cup {p} /\ gauge' = gauge + 1
      /\ view' = [view EXCEPT ![p] = [view[p] EXCEPT !.of = room]]
      /\ at \in Places /\ at \in {"refused", "wait"} /\ (at = "wait" => room # None)
  BY DEF View, Places
<1> HIDE DEF at
<1>1. /\ peer[p].at = "idle" /\ peer[p].role = "none" /\ conn[p] = "none"
      /\ peer' \in [Peers -> PeerRecord]
      /\ peer'[p] = [role |-> "viewer", at |-> at, user |-> None]
      /\ \A q \in Peers : q # p => peer'[q] = peer[q]
      /\ p \notin counted /\ room # p /\ \A cb \in callbacks : cb.peer # p
      /\ \A q \in Peers : view[q].of # p
      /\ view[p].video = None /\ view[p].audio = None
  BY <1>0, NewPeerFacts DEF Roles
<1>2. conn' \in [Peers -> Conns] /\ conn'[p] = "open" /\ \A q \in Peers : q # p => conn'[q] = conn[q]
  BY <1>0 DEF Inv, PeerType, Conns
<1>3. /\ view' \in [Peers -> Viewed] /\ view'[p].of = room
      /\ view'[p].video = None /\ view'[p].audio = None
      /\ \A q \in Peers : q # p => view'[q] = view[q]
  BY <1>0, <1>1 DEF Inv, CastType, Viewed
<1>4. PeerType' /\ IdleInv'
  BY <1>0, <1>1, <1>2, <1>3 DEF Inv, PeerType, IdleInv
<1>5. CallbackInv'
  BY <1>0, <1>1, <1>2 DEF Inv, CallbackInv, PeerType, Callback
<1>6. HookInv'
  BY <1>0, <1>1, <1>2 DEF Inv, HookInv
<1>7. CastType' /\ StreamsNotMixed'
  BY <1>0, <1>3 DEF Inv, CastType, StreamsNotMixed
<1>8. CastInv'
  <2>1. \A q \in Peers : Offered(q) => Offered(q)'
    BY <1>1 DEF Offered
  <2>2. room # None => room \in Peers
    BY DEF Inv, CastType, PeerOrNone
  <2>3. QED
    BY <1>0, <1>1, <1>3, <2>1, <2>2 DEF Inv, CastInv
<1>9. MicType' /\ MicInv'
  BY <1>0, <1>1, <1>2, MicUntouched
<1>10. GaugeType' /\ gauge' = Cardinality(counted')
  BY <1>0, <1>1, LifecycleOpened DEF Inv, LifeInv
<1>11. LifeInv'
  BY <1>0, <1>1, <1>2, <1>10 DEF Inv, LifeInv, GaugeType
<1>12. QED
  BY <1>4, <1>5, <1>6, <1>7, <1>8, <1>9, <1>10, <1>11 DEF Inv

\* PublishMic: the stored MicBundle is joined, or a new one stored.
LEMMA PublishMicKeeps ==
    ASSUME Inv, NEW p \in Peers, NEW u \in Students, PublishMic(p, u)
    PROVE  Inv'
<1>0. /\ NewPeer(p, "mic", "enter", u) /\ hooked' = hooked /\ callbacks' = callbacks
      /\ UNCHANGED <<castVars, gaugeVars>> /\ mic' = mic /\ view' = view
      /\ conn' = [conn EXCEPT ![p] = "open"]
      /\ joined' = [joined EXCEPT ![p] = IF mics = None THEN p ELSE mics]
      /\ mics' = joined'[p]
  BY DEF PublishMic, castVars
<1>1. /\ peer[p].at = "idle" /\ peer[p].role = "none" /\ conn[p] = "none"
      /\ peer' \in [Peers -> PeerRecord]
      /\ peer'[p] = [role |-> "mic", at |-> "enter", user |-> u]
      /\ \A q \in Peers : q # p => peer'[q] = peer[q]
      /\ p \notin counted /\ \A cb \in callbacks : cb.peer # p
  BY <1>0, NewPeerFacts DEF Roles, Places
<1>2. conn' \in [Peers -> Conns] /\ conn'[p] = "open" /\ \A q \in Peers : q # p => conn'[q] = conn[q]
  BY <1>0 DEF Inv, PeerType, Conns
<1>3. PeerType' /\ IdleInv'
  BY <1>0, <1>1, <1>2 DEF Inv, PeerType, IdleInv
<1>4. CallbackInv'
  BY <1>0, <1>1, <1>2 DEF Inv, CallbackInv, PeerType, Callback
<1>5. HookInv'
  BY <1>0, <1>1, <1>2 DEF Inv, HookInv
<1>6. CastType' /\ CastInv' /\ StreamsNotMixed'
  <2>1. \A q \in Peers : Offered(q) => Offered(q)'
    BY <1>1 DEF Offered
  <2>2. QED
    BY <1>0, <1>1, <2>1, CastUntouched
<1>7. /\ joined' \in [Peers -> PeerOrNone] /\ joined'[p] \in Peers
      /\ \A q \in Peers : q # p => joined'[q] = joined[q]
  BY <1>0 DEF Inv, MicType, PeerOrNone
<1>8. MicType'
  BY <1>0, <1>7 DEF Inv, MicType, PeerOrNone
<1>9. MicInv'
  BY <1>0, <1>1, <1>2, <1>7 DEF Inv, MicInv, MicKept
<1>10. GaugeType' /\ LifeInv'
  BY <1>0, <1>1, <1>2 DEF Inv, LifeInv, GaugeType, gaugeVars
<1>11. QED
  BY <1>3, <1>4, <1>5, <1>6, <1>8, <1>9, <1>10 DEF Inv

-----------------------------------------------------------------------------
(* The invariant.                                                          *)

\* It holds in the empty room.
LEMMA InitInv == Init => Inv
<1> SUFFICES ASSUME Init PROVE Inv
  OBVIOUS
<1> USE DEF Init
<1>1. PeerType /\ CastType /\ MicType
  BY DEF PeerType, CastType, MicType, NoPeer, NewBundle, NoView, PeerRecord, Bundle, Viewed,
     PeerOrNone, Roles, Places, Conns
<1>2. GaugeType /\ LifeInv
  BY FS_EmptySet DEF GaugeType, LifeInv, NoPeer
<1>3. IdleInv /\ CallbackInv /\ HookInv
  BY DEF IdleInv, CallbackInv, HookInv, NoPeer, NoView
<1>4. CastInv /\ StreamsNotMixed
  BY NoneIsNoPeer DEF CastInv, StreamsNotMixed, NoPeer, NoView, NewBundle
<1>5. MicInv
  BY DEF MicInv, MicKept, NoPeer
<1>6. QED
  BY <1>1, <1>2, <1>3, <1>4, <1>5 DEF Inv

\* Every step keeps it.
LEMMA NextInv == Inv /\ [Next]_vars => Inv'
<1> SUFFICES ASSUME Inv, [Next]_vars PROVE Inv'
  OBVIOUS
<1>1. ASSUME NEW p \in Peers, Broadcast(p) \/ View(p) \/ \E u \in Students : PublishMic(p, u)
      PROVE  Inv'
  BY <1>1, BroadcastKeeps, ViewKeeps, PublishMicKeeps
<1>2. ASSUME NEW p \in Peers, HandlerStep(p)
      PROVE  Inv'
  <2>1. CASE ViewFails(p)
    <3>1. Abort(p) /\ peer[p].at \notin {"idle", "live", "store"} /\ UNCHANGED <<castVars, micVars>>
      BY <2>1 DEF ViewFails, At
    <3>2. QED
      BY <3>1, AbortKeeps
  <2>2. CASE HandlerFails(p)
    <3>1. Abort(p) /\ peer[p].at \notin {"idle", "live", "store"} /\ UNCHANGED <<castVars, micVars>>
      BY <2>2 DEF HandlerFails
    <3>2. QED
      BY <3>1, AbortKeeps
  <2>3. QED
    BY <1>2, <2>1, <2>2, StoreKeeps, MoveKeeps, TracksKeep, EnterMicKeeps DEF HandlerStep
<1>3. ASSUME NEW p \in Peers, NEW kind \in {"video", "audio"}, OnTrack(p, kind)
      PROVE  Inv'
  BY <1>3, OnTrackKeeps
<1>3a. ASSUME NEW s \in starting, SetTrack(s)
       PROVE  Inv'
  BY <1>3a, SetTrackKeeps
<1>4. ASSUME NEW p \in Peers, NEW state \in {"failed", "closed"}, ConnectionEnds(p, state)
      PROVE  Inv'
  BY <1>4, ConnectionEndsKeeps
<1>5. ASSUME NEW cb \in callbacks, CallbackStep(cb)
      PROVE  Inv'
  BY <1>5, CastStatusKeeps, CastEndKeeps, ViewStatusKeeps, MicLoadKeeps, MicRemoveKeeps
     DEF CallbackStep
<1>6. CASE UNCHANGED vars
  <2>1. UNCHANGED peerVars /\ UNCHANGED castVars /\ UNCHANGED micVars /\ UNCHANGED gaugeVars
    BY <1>6 DEF vars
  <2>2. PeerType' /\ CastType' /\ MicType' /\ GaugeType'
    BY <2>1 DEF Inv, PeerType, CastType, MicType, GaugeType, peerVars, castVars, micVars, gaugeVars
  <2>3. IdleInv' /\ CallbackInv' /\ HookInv' /\ LifeInv'
    BY <2>1 DEF Inv, IdleInv, CallbackInv, HookInv, LifeInv, peerVars, castVars, gaugeVars
  <2>4. CastInv' /\ StreamsNotMixed' /\ MicInv'
    BY <2>1, CastUntouched, MicUntouched DEF peerVars, Offered
  <2>5. QED
    BY <2>2, <2>3, <2>4 DEF Inv
<1>7. QED
  BY <1>1, <1>2, <1>3, <1>3a, <1>4, <1>5, <1>6 DEF Next

\* The invariant above holds in every reachable state.
THEOREM LiveInvariant == Spec => []Inv
BY InitInv, NextInv, PTL DEF Spec

\* Once nothing is on its way, the gauge webrtc_active_peer_connections is the
\* number of open connections, however each of the others ended.
THEOREM GaugeExactAlways == Spec => []GaugeExact
<1>1. Inv => GaugeExact
  <2> SUFFICES ASSUME Inv, \A p \in Peers : Settled(p)
               PROVE  counted = {p \in Peers : Counted(p)}
    BY DEF GaugeExact, Inv, LifeInv
  <2>1. ASSUME NEW p \in counted PROVE p \in Peers /\ Counted(p)
    <3>1. p \in Peers /\ conn[p] \in Conns
      BY DEF Inv, GaugeType, PeerType
    <3>2. Settled(p)
      BY <3>1
    <3>3. conn[p] # "none" /\ peer[p].role \in {"publisher", "viewer"}
      BY <3>1 DEF Inv, LifeInv
    <3>4. conn[p] # "closed"
      <4>1. peer[p].at # "idle"
        BY <3>1, <3>3 DEF Inv, IdleInv
      <4>2. QED
        BY <3>2, <4>1 DEF Inv, LifeInv, Settled
    <3>5. QED
      BY <3>1, <3>3, <3>4 DEF Counted, Conns
  <2>2. ASSUME NEW p \in Peers, Counted(p) PROVE p \in counted
    <3>1. conn[p] # "failed"
      BY DEF Inv, HookInv, Settled
    <3>2. QED
      BY <2>2, <3>1 DEF Counted, Inv, LifeInv
  <2>3. QED
    BY <2>1, <2>2
<1>2. QED
  BY <1>1, LiveInvariant, PTL

\* No track of one broadcast session enters the bundle of another or a viewer of
\* another, while sessions of the teacher overlap.
THEOREM StreamsNotMixedAlways == Spec => []StreamsNotMixed
<1>1. Inv => StreamsNotMixed
  BY DEF Inv
<1>2. QED
  BY <1>1, LiveInvariant, PTL

\* waitForBroadcastTracks answers a viewer with video, and with audio where the
\* teacher's offer promised it.
THEOREM PromisedTracksAlways == Spec => []PromisedTracks
<1>1. Inv => PromisedTracks
  BY DEF Inv, CastInv, PromisedTracks, At
<1>2. QED
  BY <1>1, LiveInvariant, PTL

\* A student who publishes again keeps the new microphone, whatever callbacks of
\* older connections still run.
THEOREM MicKeptAlways == Spec => []MicKept
<1>1. Inv => MicKept
  BY DEF Inv, MicInv
<1>2. QED
  BY <1>1, LiveInvariant, PTL
=============================================================================
