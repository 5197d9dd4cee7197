------------------------------ MODULE LiveRoom ------------------------------
(***************************************************************************)
(* The live room of one lesson: the teacher's broadcast, its viewers and   *)
(* the students' microphones.  Every Broadcast, View and PublishMic call   *)
(* makes a peer, its session; the handler, the callbacks of its connection *)
(* and the other peers interleave between any two operations on the shared *)
(* maps BroadcastRooms and MicTracks.                                      *)
(*                                                                         *)
(* Pion is not part of the repository and is modelled by its use: a closed *)
(* connection refuses descriptions, closing twice changes nothing, and a   *)
(* change of state runs the registered callback in a goroutine of its own. *)
(* Connecting and disconnected change nothing the code asks for and are    *)
(* left out, like the forwarding of keyframe requests, one critical        *)
(* section of the bundle.                                                  *)
(***************************************************************************)
EXTENDS Integers, FiniteSets

CONSTANTS
    MaxPeers,     \* bound of the model: calls of Broadcast, View and PublishMic
    Students,     \* who may publish a microphone
    MaxBroadcasts,  \* bound of the model: calls of Broadcast among them
    MaxStarting,  \* bound of the model: OnTrack goroutines at once
    Mixed,        \* bound of the model: microphones beside broadcast and viewers
    None

ASSUME LiveAssumption ==
    /\ MaxPeers \in Nat /\ MaxBroadcasts \in Nat /\ MaxStarting \in Nat
    /\ Mixed \in BOOLEAN
    /\ None \notin Nat

VARIABLES
    peer,       \* peer -> role, position of its handler, student
    conn,       \* peer -> "none", "open", "failed" or "closed"
    hooked,     \* peers whose OnConnectionStateChange is registered
    callbacks,  \* goroutines of state callbacks: peer, state, position, MicBundle
    room,       \* BroadcastRooms: the session of the stored bundle, or None
    bundle,     \* publisher -> its BroadcastBundle
    starting,   \* OnTrack goroutines: peer, kind, and the bundle they compared
    view,       \* viewer -> the bundle it loaded and the tracks it added
    mics,       \* MicTracks: the peer that made the stored MicBundle, or None
    mic,        \* MicBundle -> student -> its publisher
    joined,     \* mic peer -> the MicBundle it got
    counted,    \* peers whose lifecycle is counted in the gauge
    gauge       \* webrtc_active_peer_connections, all roles

peerVars == <<peer, conn, hooked, callbacks>>
castVars == <<room, bundle, starting, view>>
micVars == <<mics, mic, joined>>
gaugeVars == <<counted, gauge>>
vars == <<peerVars, castVars, micVars, gaugeVars>>

Peers == 1..MaxPeers    \* sessions, in the order of their calls

NoPeer == [role |-> "none", at |-> "idle", user |-> None]
NewBundle == [status |-> "up", expectsAudio |-> FALSE, video |-> None,
              audio |-> None]
NoView == [of |-> None, video |-> None, audio |-> None]

Init ==
    /\ peer = [p \in Peers |-> NoPeer]
    /\ conn = [p \in Peers |-> "none"]
    /\ hooked = {} /\ callbacks = {}
    /\ room = None
    /\ bundle = [p \in Peers |-> NewBundle]
    /\ starting = {}
    /\ view = [p \in Peers |-> NoView]
    /\ mics = None
    /\ mic = [p \in Peers |-> [u \in Students |-> None]]
    /\ joined = [p \in Peers |-> None]
    /\ counted = {} /\ gauge = 0

-----------------------------------------------------------------------------
At(p, role, at) == peer[p].role = role /\ peer[p].at = at
Goto(p, at) == peer' = [peer EXCEPT ![p].at = at]

\* The goroutine of p's callback for a state, if one is registered.
Fired(p, state) ==
    IF p \in hooked THEN {[peer |-> p, state |-> state, at |-> "status", of |-> None]} ELSE {}

\* pc.Close() on the connections of S, in a state with connections c and
\* callbacks cbs.
CloseFrom(c, S, cbs) ==
    LET open == {p \in S : c[p] \in {"open", "failed"}} IN
    /\ conn' = [p \in Peers |-> IF p \in open THEN "closed" ELSE c[p]]
    /\ callbacks' = cbs \cup UNION {Fired(p, "closed") : p \in open}

\* Mutant: lifecycle.close without the sync.Once.
closeAgain(p) ==
    /\ gauge' = gauge - 1
    /\ counted' = counted \ {p}

\* lifecycle.close: the peer leaves the gauge, once.
lifecycleClose(p) ==
    /\ gauge' = IF p \in counted THEN gauge - 1 ELSE gauge
    /\ counted' = counted \ {p}

\* The next call arrives.
NewPeer(p, role, at, u) ==
    /\ \A q \in Peers : peer[q].at = "idle" <=> q >= p
    /\ Mixed \/ \A q \in 1..(p-1) : peer[q].role = "mic" <=> role = "mic"
    /\ peer' = [peer EXCEPT ![p] = [role |-> role, at |-> at, user |-> u]]

\* The deferred function of a handler that returns an error.
Abort(p) ==
    /\ Goto(p, "aborted")
    /\ CloseFrom(conn, {p}, callbacks)
    /\ IF peer[p].role = "mic" THEN UNCHANGED gaugeVars ELSE lifecycleClose(p)
    /\ UNCHANGED hooked

-----------------------------------------------------------------------------
(* Broadcast.                                                              *)

\* The new connection is counted; the publisher of the stored bundle is closed.
Broadcast(p) ==
    /\ Cardinality({q \in Peers : peer[q].role = "publisher"}) < MaxBroadcasts
    /\ NewPeer(p, "publisher", "store", None)
    /\ CloseFrom([conn EXCEPT ![p] = "open"], {room} \cap Peers, callbacks)
    /\ counted' = counted \cup {p} /\ gauge' = gauge + 1
    /\ UNCHANGED <<hooked, castVars, micVars>>

\* The new bundle replaces whatever is stored by now.
StoreBundle(p) ==
    /\ At(p, "publisher", "store")
    /\ Goto(p, "remote")
    /\ room' = p
    /\ \E audio \in BOOLEAN :
         bundle' = [bundle EXCEPT ![p].expectsAudio = audio]
    /\ UNCHANGED <<conn, hooked, callbacks, starting, view, micVars, gaugeVars>>

SetRemoteDescription(p) ==
    /\ At(p, "publisher", "remote")
    /\ conn[p] # "closed"
    /\ Goto(p, "hook")
    /\ UNCHANGED <<conn, hooked, callbacks, castVars, micVars, gaugeVars>>

\* OnConnectionStateChange of Broadcast and PublishMic: only later changes of
\* state are reported.
HookState(p) ==
    /\ \E role \in {"publisher", "mic"} : At(p, role, "hook")
    /\ hooked' = hooked \cup {p}
    /\ Goto(p, "answer")
    /\ UNCHANGED <<conn, callbacks, castVars, micVars, gaugeVars>>

\* CreateAnswer, SetLocalDescription and gathering; the answer is returned.
Answer(p) ==
    /\ peer[p].at = "answer"
    /\ conn[p] # "closed"
    /\ Goto(p, "live")
    /\ UNCHANGED <<conn, hooked, callbacks, castVars, micVars, gaugeVars>>

\* A description is refused, or gathering or encoding fails.
HandlerFails(p) ==
    /\ peer[p].at \in {"remote", "answer"}
    /\ Abort(p)
    /\ UNCHANGED <<castVars, micVars>>

\* A remote track of p, one of each kind, has started; its goroutine may be
\* late, the connection closed meanwhile.
Starts(p, kind) ==
    /\ At(p, "publisher", "live") /\ bundle[p][kind] = None
    /\ kind = "audio" => bundle[p].expectsAudio
    /\ Cardinality(starting) < MaxStarting

\* Mutant: OnTrack does not compare the stored bundle's session.
OnTrackStored(p, kind) ==
    /\ Starts(p, kind) /\ room # None
    /\ starting' = starting \cup {[peer |-> p, kind |-> kind, of |-> room]}
    /\ UNCHANGED <<peerVars, room, bundle, view, micVars, gaugeVars>>

\* OnTrack goes on only if the stored bundle is of its session ...
OnTrack(p, kind) ==
    /\ Starts(p, kind) /\ room = p
    /\ starting' = starting \cup {[peer |-> p, kind |-> kind, of |-> room]}
    /\ UNCHANGED <<peerVars, room, bundle, view, micVars, gaugeVars>>

\* ... and writes the track into that bundle, under its lock, be it stored still
\* or not.
SetTrack(s) ==
    /\ bundle' = [bundle EXCEPT ![s.of][s.kind] = s.peer]
    /\ starting' = starting \ {s}
    /\ UNCHANGED <<peerVars, room, view, micVars, gaugeVars>>

-----------------------------------------------------------------------------
(* The connections and their callbacks.                                    *)

\* ICE or DTLS of an answered connection fails, or its remote side closes it.
ConnectionEnds(p, state) ==
    /\ peer[p].at = "live" /\ conn[p] = "open"
    /\ conn' = [conn EXCEPT ![p] = state]
    /\ callbacks' = callbacks \cup Fired(p, state)
    /\ UNCHANGED <<peer, hooked, castVars, micVars, gaugeVars>>

Move(cb, at) == (callbacks \ {cb}) \cup {[cb EXCEPT !.at = at]}

\* The end of every callback of a failed or closed connection: pc.Close().
Finish(cb) == CloseFrom(conn, {cb.peer}, callbacks \ {cb})

\* Broadcast's callback: the lifecycle ends, and the status of the bundle is
\* set if the one stored is this session's.
CastStatus(cb) ==
    LET p == cb.peer IN
    /\ cb.at = "status" /\ peer[p].role = "publisher"
    /\ lifecycleClose(p)
    /\ bundle' = IF room = p THEN [bundle EXCEPT ![p].status = "ended"] ELSE bundle
    /\ callbacks' = Move(cb, "check")
    /\ UNCHANGED <<peer, conn, hooked, room, starting, view, micVars>>

\* Mutant: the room is cleaned up after a failure only.
CastCheckFailed(cb) ==
    /\ cb.at = "check"
    /\ IF room = cb.peer /\ cb.state = "failed"
         THEN callbacks' = Move(cb, "delete") /\ UNCHANGED conn
         ELSE Finish(cb)
    /\ UNCHANGED <<peer, hooked, castVars, micVars, gaugeVars>>

\* The bundle is loaded again and compared ...
CastCheck(cb) ==
    /\ cb.at = "check"
    /\ IF room = cb.peer THEN callbacks' = Move(cb, "delete") /\ UNCHANGED conn
                         ELSE Finish(cb)
    /\ UNCHANGED <<peer, hooked, castVars, micVars, gaugeVars>>

\* ... and the lesson's entry deleted, whoever stored it meanwhile.
CastDelete(cb) ==
    /\ cb.at = "delete"
    /\ room' = None
    /\ Finish(cb)
    /\ UNCHANGED <<peer, hooked, bundle, starting, view, micVars, gaugeVars>>

\* View's callback only ends the lifecycle.
ViewStatus(cb) ==
    /\ cb.at = "status" /\ peer[cb.peer].role = "viewer"
    /\ lifecycleClose(cb.peer)
    /\ Finish(cb)
    /\ UNCHANGED <<peer, hooked, castVars, micVars>>

-----------------------------------------------------------------------------
(* View.                                                                   *)

\* The connection, its callback, and the bundle stored at that moment.
View(p) ==
    /\ NewPeer(p, "viewer", IF room = None THEN "refused" ELSE "wait", None)
    /\ conn' = [conn EXCEPT ![p] = "open"]
    /\ hooked' = hooked \cup {p}
    /\ counted' = counted \cup {p} /\ gauge' = gauge + 1
    /\ view' = [view EXCEPT ![p].of = room]
    /\ UNCHANGED <<callbacks, room, bundle, starting, micVars>>

\* Mutant: the loop does not wait for a promised audio track.
VideoReady(b) == b.status # "ended" /\ b.video # None

TracksReady(b) ==
    /\ b.status # "ended"
    /\ b.video # None
    /\ b.expectsAudio => b.audio # None

\* waitForBroadcastTracks: the tracks it returns are added to the connection.
waitForBroadcastTracks(p) ==
    LET b == bundle[view[p].of] IN
    /\ At(p, "viewer", "wait")
    /\ TracksReady(b)
    /\ view' = [view EXCEPT ![p].video = b.video, ![p].audio = b.audio]
    /\ Goto(p, "answer")
    /\ UNCHANGED <<conn, hooked, callbacks, room, bundle, starting, micVars, gaugeVars>>

\* Nothing is broadcast; or the broadcast ended, the deadline passed or the
\* caller gave up while the tracks were not ready.
ViewFails(p) ==
    /\ \/ At(p, "viewer", "refused")
       \/ At(p, "viewer", "wait") /\ ~TracksReady(bundle[view[p].of])
    /\ Abort(p)
    /\ UNCHANGED <<castVars, micVars>>

-----------------------------------------------------------------------------
(* PublishMic.                                                             *)

\* getOrCreateMicBundle: the stored MicBundle, or a new one named after p.
PublishMic(p, u) ==
    /\ NewPeer(p, "mic", "enter", u)
    /\ conn' = [conn EXCEPT ![p] = "open"]
    /\ joined' = [joined EXCEPT ![p] = IF mics = None THEN p ELSE mics]
    /\ mics' = joined'[p]
    /\ UNCHANGED <<hooked, callbacks, mic, castVars, gaugeVars>>

\* Under the bundle's lock: the student's old connection is closed and the new
\* publisher takes its place.
EnterMic(p) ==
    LET b == joined[p]  u == peer[p].user IN
    /\ At(p, "mic", "enter")
    /\ Goto(p, "hook")
    /\ CloseFrom(conn, {mic[b][u]} \cap Peers, callbacks)
    /\ mic' = [mic EXCEPT ![b][u] = p]
    /\ UNCHANGED <<hooked, mics, joined, castVars, gaugeVars>>

\* PublishMic's callback loads the MicBundle ...
MicLoad(cb) ==
    /\ cb.at = "status" /\ peer[cb.peer].role = "mic"
    /\ IF mics = None THEN Finish(cb)
       ELSE /\ callbacks' = (callbacks \ {cb}) \cup {[cb EXCEPT !.at = "remove", !.of = mics]}
            /\ UNCHANGED conn
    /\ UNCHANGED <<peer, hooked, castVars, micVars, gaugeVars>>

\* Mutant: the entry is removed whatever session it is of.
MicRemoveAny(cb) ==
    /\ cb.at = "remove"
    /\ mic' = [mic EXCEPT ![cb.of][peer[cb.peer].user] = None]
    /\ mics' = IF \A u \in Students : mic'[cb.of][u] = None THEN None ELSE mics
    /\ Finish(cb)
    /\ UNCHANGED <<peer, hooked, joined, castVars, gaugeVars>>

\* ... and, under its lock, removes the entry if it is still this session's;
\* with the last entry the lesson's MicBundle goes.
MicRemove(cb) ==
    LET u == peer[cb.peer].user
        own == mic[cb.of][u] = cb.peer
    IN
    /\ cb.at = "remove"
    /\ mic' = IF own THEN [mic EXCEPT ![cb.of][u] = None] ELSE mic
    /\ mics' = IF own /\ \A v \in Students : mic'[cb.of][v] = None THEN None ELSE mics
    /\ Finish(cb)
    /\ UNCHANGED <<peer, hooked, joined, castVars, gaugeVars>>

-----------------------------------------------------------------------------
CallbackStep(cb) ==
    \/ CastStatus(cb) \/ CastCheck(cb) \/ CastDelete(cb)
    \/ ViewStatus(cb)
    \/ MicLoad(cb) \/ MicRemove(cb)

HandlerStep(p) ==
    \/ StoreBundle(p) \/ SetRemoteDescription(p) \/ HookState(p)
    \/ waitForBroadcastTracks(p) \/ ViewFails(p)
    \/ EnterMic(p)
    \/ Answer(p) \/ HandlerFails(p)

Next ==
    \/ \E p \in Peers : \/ Broadcast(p) \/ View(p)
                        \/ \E u \in Students : PublishMic(p, u)
    \/ \E p \in Peers : HandlerStep(p)
    \/ \E p \in Peers, kind \in {"video", "audio"} : OnTrack(p, kind)
    \/ \E s \in starting : SetTrack(s)
    \/ \E p \in Peers, state \in {"failed", "closed"} : ConnectionEnds(p, state)
    \/ \E cb \in callbacks : CallbackStep(cb)

Spec == Init /\ [][Next]_vars

\* While goroutines of state callbacks are left, one of them goes on; nothing is
\* asked of the handlers and their callers.
Fairness == WF_vars(\E cb \in callbacks : CallbackStep(cb))

FairSpec == Spec /\ Fairness

-----------------------------------------------------------------------------
\* Nothing of p is on its way.
Settled(p) ==
    /\ peer[p].at \in {"idle", "live", "aborted"}
    /\ \A cb \in callbacks : cb.peer # p

Counted(p) == peer[p].role \in {"publisher", "viewer"} /\ conn[p] \in {"open", "failed"}

(***************************************************************************)
(* The gauge of active connections returns to the number of connections    *)
(* that are open: a peer may end through the handler's deferred function,  *)
(* through failed and then closed, or because a newer Broadcast closed it  *)
(* before its callback was registered, and leaves the gauge exactly once.  *)
(***************************************************************************)
GaugeExact ==
    (\A p \in Peers : Settled(p)) => gauge = Cardinality({p \in Peers : Counted(p)})

(***************************************************************************)
(* A viewer gets the tracks of one broadcast session: when the teacher     *)
(* starts again while callbacks of the old connection still run, no track  *)
(* of the old session enters the new bundle.                               *)
(***************************************************************************)
StreamsNotMixed ==
    /\ \A p \in Peers : {bundle[p].video, bundle[p].audio} \subseteq {p, None}
    /\ \A p \in Peers : {view[p].video, view[p].audio} \subseteq {view[p].of, None}

(***************************************************************************)
(* A viewer that was answered has the video track and, when the teacher's  *)
(* offer promised audio, the audio track, in whatever order they arrived.  *)
(***************************************************************************)
PromisedTracks ==
    \A p \in Peers : At(p, "viewer", "live") =>
        /\ view[p].video # None
        /\ bundle[view[p].of].expectsAudio => view[p].audio # None

(***************************************************************************)
(* A student who publishes again keeps the new microphone: the late        *)
(* callback of the connection it replaced does not remove it, and neither  *)
(* do other students who leave.                                            *)
(***************************************************************************)
MicKept ==
    \A p \in Peers :
        peer[p].role = "mic" /\ peer[p].at \in {"hook", "answer", "live"} /\ conn[p] = "open"
          => mic[joined[p]][peer[p].user] = p

(***************************************************************************)
(* A broadcast that was answered and whose connection ended does not stay  *)
(* in the room: viewers are told that nothing is broadcast instead of      *)
(* waiting for tracks that never come.                                     *)
(***************************************************************************)
EndedLeavesRoom ==
    []<>~(room # None /\ At(room, "publisher", "live") /\ conn[room] # "open")
=============================================================================
