-------------------------------- MODULE Sfu --------------------------------
(***************************************************************************)
(* The media server of one call (calls_plugin/sfu: mod.rs, tracks.rs,      *)
(* signaling.rs, manager.rs): peer connections by session, the candidates  *)
(* that wait for a session description, the registered tracks and the      *)
(* tasks that forward them.                                                *)
(*                                                                         *)
(* A connection is a number; a session that is added again gets a new one. *)
(* WebRTC is external: a description, a candidate or a close may fail, and *)
(* a track of a closed connection ends.  Packets, codecs and the wording   *)
(* of descriptions are left out.  The handlers that decide who is in the   *)
(* call are in Calls; here a session joins and leaves.                     *)
(***************************************************************************)
EXTENDS Requests, FiniteSets

CONSTANTS
    MediaSessions,
    Candidates,     \* each is sent once, by some session
    TrackIds        \* chosen by the clients: a session keeps its ids over connections

VARIABLES
    inCall,           \* sessions of the call (CallState's participants)
    participants,     \* session -> connection and screen flag, None: absent
    connections,      \* number of connections made
    openConns,        \* those not closed
    described,        \* connections with a remote description
    pending_ice_candidates,  \* session -> sequence
    channels,         \* signaling: session -> the connection that writes to it, 0: none writes; None: absent
    tracks,           \* track id -> session, None: not registered
    session_tracks,   \* session -> set of track ids
    forwarders,       \* the tasks of on_track
    sent,             \* candidates sent
    added             \* history: <<candidate, connection>>, in order

SfuVars == <<inCall, participants, connections, openConns, described, pending_ice_candidates, channels,
             tracks, session_tracks, forwarders, sent, added>>

\* A new call, or one that some sessions have joined: each has its connection and channel.
SfuInit ==
    /\ inCall \in {{}, MediaSessions}
    /\ openConns = 1..Cardinality(inCall) /\ connections = Cardinality(inCall)
    /\ \E conn \in [inCall -> openConns] :
          /\ \A r, s \in inCall : conn[r] = conn[s] => r = s
          /\ participants = [s \in MediaSessions |-> IF s \in inCall THEN [conn |-> conn[s], screen |-> FALSE] ELSE None]
          /\ channels = [s \in MediaSessions |-> IF s \in inCall THEN conn[s] ELSE None]
    /\ described = {}
    /\ pending_ice_candidates = [s \in MediaSessions |-> <<>>]
    /\ tracks = [k \in TrackIds |-> None] /\ session_tracks = [s \in MediaSessions |-> {}]
    /\ forwarders = {} /\ sent = {} /\ added = <<>>

\* remove_participant keeps the lock on the participants to its end.
Locked ==
    \E t \in Tasks :
        Busy(t) /\ Head(task[t]).do \in {"drop_tracks", "drop_ids", "drop_session", "forget"} /\ Head(task[t]).x.locked
\* remove_participant_tracks keeps the one on the tracks from their removal to its end.
TracksLocked == \E t \in Tasks : Busy(t) /\ Head(task[t]).do = "drop_session"

At(o, do) == o.do = do
On(s) == [s |-> s, locked |-> FALSE]
has_participant(s) == participants[s] # None

-----------------------------------------------------------------------------
(* What the handlers ask for. *)

\* start_call and join_call add the session; the websocket's join when it is not there.  The state of
\* the call is first.
Joins(t, s, do) ==
    /\ s \notin inCall
    /\ inCall' = inCall \cup {s}
    /\ Begin(t, <<Stmt(do, On(s))>>)
    /\ UNCHANGED <<participants, connections, openConns, described, pending_ice_candidates, channels,
                   tracks, session_tracks, forwarders, sent, added>>

\* Leaving, being removed, a closed websocket, being replaced by another session.
Leaves(t, s) ==
    /\ s \in inCall
    /\ inCall' = inCall \ {s}
    /\ Begin(t, <<Stmt("remove", On(s))>>)
    /\ UNCHANGED <<participants, connections, openConns, described, pending_ice_candidates, channels,
                   tracks, session_tracks, forwarders, sent, added>>

\* An offer: over HTTP one retry with a new connection, over the websocket none.
Offers(t, s, retry) ==
    /\ s \in inCall
    /\ Begin(t, <<Stmt(IF retry THEN "ensure_receiver" ELSE "ensure", On(s)),
                  Stmt("offer", [s |-> s, retry |-> retry])>>)
    /\ UNCHANGED SfuVars

Sends(t, s, c) ==
    /\ s \in inCall /\ c \notin sent
    /\ sent' = sent \cup {c}
    /\ Begin(t, <<Stmt("ensure", On(s)), Stmt("candidate", [s |-> s, c |-> c])>>)
    /\ UNCHANGED <<inCall, participants, connections, openConns, described, pending_ice_candidates, channels,
                   tracks, session_tracks, forwarders, added>>

set_screen_sharing(s, on) ==
    /\ ~Locked
    /\ IF has_participant(s) THEN participants[s].screen # on ELSE FALSE
    /\ participants' = [participants EXCEPT ![s].screen = on]
    /\ Statement
    /\ UNCHANGED <<inCall, connections, openConns, described, pending_ice_candidates, channels,
                   tracks, session_tracks, forwarders, sent, added>>

-----------------------------------------------------------------------------
(* Participants. *)

\* A session that is there: the handlers go on.
PresentParticipant(t, o) ==
    /\ At(o, "ensure") /\ ~Locked /\ has_participant(o.x.s)
    /\ Continue(t, <<>>)
    /\ UNCHANGED SfuVars
\* HTTP offers get a new signaling channel, to which no connection writes.
get_signaling_receiver(t, o) ==
    /\ At(o, "ensure_receiver") /\ ~Locked /\ has_participant(o.x.s)
    /\ channels' = [channels EXCEPT ![o.x.s] = 0]
    /\ Continue(t, <<>>)
    /\ UNCHANGED <<inCall, participants, connections, openConns, described, pending_ice_candidates,
                   tracks, session_tracks, forwarders, sent, added>>

\* One that is not there is added: the check, then the connection, then the insertion.
MissingParticipant(t, o) ==
    /\ o.do \in {"ensure", "ensure_receiver"} /\ ~Locked /\ ~has_participant(o.x.s)
    /\ Continue(t, <<Stmt("add", o.x)>>)
    /\ UNCHANGED SfuVars

\* An entry that came meanwhile is replaced; its connection stays open, with nobody to close it.
add_participant(t, o) ==
    /\ At(o, "add") /\ ~Locked
    /\ connections' = connections + 1
    /\ openConns' = openConns \cup {connections'}
    /\ participants' = [participants EXCEPT ![o.x.s] = [conn |-> connections', screen |-> FALSE]]
    /\ Continue(t, <<Stmt("channel", [s |-> o.x.s, conn |-> connections'])>>)
    /\ UNCHANGED <<inCall, described, pending_ice_candidates, channels, tracks, session_tracks, forwarders,
                   sent, added>>
register_channel(t, o) ==
    /\ At(o, "channel")
    /\ channels' = [channels EXCEPT ![o.x.s] = o.x.conn]
    /\ Continue(t, <<>>)
    /\ UNCHANGED <<inCall, participants, connections, openConns, described, pending_ice_candidates,
                   tracks, session_tracks, forwarders, sent, added>>
\* new_peer_connection or add_track fails.
AddFails(t, o) ==
    /\ At(o, "add") /\ Interrupted(t)
    /\ UNCHANGED SfuVars

Close(s) ==
    /\ openConns' = openConns \ {participants[s].conn}
    /\ participants' = [participants EXCEPT ![s] = None]

\* The connection is closed and its tracks dropped, when there is one; the rest in any case.
remove_participant(t, o) ==
    /\ At(o, "remove") /\ ~Locked
    /\ LET held == [o.x EXCEPT !.locked = TRUE] IN
       IF has_participant(o.x.s)
       THEN Close(o.x.s) /\ Continue(t, <<Stmt("drop_tracks", held), Stmt("forget", held)>>)
       ELSE UNCHANGED <<openConns, participants>> /\ Continue(t, <<Stmt("forget", held)>>)
    /\ UNCHANGED <<inCall, connections, described, pending_ice_candidates, channels, tracks, session_tracks,
                   forwarders, sent, added>>
\* The close fails: the entry is gone and nothing else is done.
CloseFails(t, o) ==
    /\ At(o, "remove") /\ ~Locked /\ has_participant(o.x.s)
    /\ Close(o.x.s)
    /\ Interrupted(t)
    /\ UNCHANGED <<inCall, connections, described, pending_ice_candidates, channels, tracks, session_tracks,
                   forwarders, sent, added>>

\* The ids are read, the tracks removed, and then whatever the session lists by now.
remove_participant_tracks(t, o) ==
    /\ At(o, "drop_tracks")
    /\ Continue(t, <<Stmt("drop_ids", [s |-> o.x.s, locked |-> o.x.locked, ids |-> session_tracks[o.x.s]])>>)
    /\ UNCHANGED SfuVars
DropTracks(t, o) ==
    /\ At(o, "drop_ids") /\ ~TracksLocked
    /\ tracks' = [k \in TrackIds |-> IF k \in o.x.ids THEN None ELSE tracks[k]]
    /\ Continue(t, <<Stmt("drop_session", o.x)>>)
    /\ UNCHANGED <<inCall, participants, connections, openConns, described, pending_ice_candidates, channels,
                   session_tracks, forwarders, sent, added>>
DropSession(t, o) ==
    /\ At(o, "drop_session")
    /\ session_tracks' = [session_tracks EXCEPT ![o.x.s] = {}]
    /\ Continue(t, <<>>)
    /\ UNCHANGED <<inCall, participants, connections, openConns, described, pending_ice_candidates, channels,
                   tracks, forwarders, sent, added>>
\* unregister_channel, and the candidates that wait.
ForgetSession(t, o) ==
    /\ At(o, "forget")
    /\ channels' = [channels EXCEPT ![o.x.s] = None]
    /\ pending_ice_candidates' = [pending_ice_candidates EXCEPT ![o.x.s] = <<>>]
    /\ Continue(t, <<>>)
    /\ UNCHANGED <<inCall, participants, connections, openConns, described, tracks, session_tracks,
                   forwarders, sent, added>>

\* The same without the lock, and then a new connection.
recreate_participant(t, o) ==
    /\ At(o, "recreate") /\ ~Locked
    /\ IF has_participant(o.x.s) THEN Close(o.x.s) ELSE UNCHANGED <<openConns, participants>>
    /\ Continue(t, <<Stmt("drop_tracks", On(o.x.s)), Stmt("forget", On(o.x.s)), Stmt("add", On(o.x.s))>>)
    /\ UNCHANGED <<inCall, connections, described, pending_ice_candidates, channels, tracks, session_tracks,
                   forwarders, sent, added>>

-----------------------------------------------------------------------------
(* Offers and candidates. *)

\* A failed offer is tried once more on a new connection.
OfferFails(t, o) ==
    task' = [task EXCEPT ![t] =
        IF o.x.retry THEN <<Stmt("recreate", On(o.x.s)), Stmt("offer", [s |-> o.x.s, retry |-> FALSE])>>
        ELSE <<>>]

\* The connection is looked up, and the lock released.
handle_offer(t, o) ==
    /\ At(o, "offer") /\ ~Locked
    /\ IF has_participant(o.x.s)
       THEN Continue(t, <<Stmt("describe", [s |-> o.x.s, retry |-> o.x.retry, conn |-> participants[o.x.s].conn])>>)
       ELSE OfferFails(t, o) /\ UNCHANGED <<events, trouble>>
    /\ UNCHANGED SfuVars

\* set_remote_description: a closed connection refuses it.
set_remote_description(t, o) ==
    /\ At(o, "describe")
    /\ IF o.x.conn \in openConns
       THEN described' = described \cup {o.x.conn} /\ Continue(t, <<Stmt("flush", o.x)>>)
       ELSE UNCHANGED <<described, events, trouble>> /\ OfferFails(t, o)
    /\ UNCHANGED <<inCall, participants, connections, openConns, pending_ice_candidates, channels, tracks,
                   session_tracks, forwarders, sent, added>>
\* An open connection may refuse it too.
DescriptionFails(t, o) ==
    /\ At(o, "describe") /\ o.x.conn \in openConns
    /\ Event /\ OfferFails(t, o)
    /\ UNCHANGED SfuVars /\ UNCHANGED trouble

Added(cs, conn) == added' = added \o [i \in 1..Len(cs) |-> <<cs[i], conn>>]

\* The queue is taken at once; the answer, after two seconds, changes nothing here.
flush_pending_ice_candidates(t, o) ==
    /\ At(o, "flush")
    /\ Added(pending_ice_candidates[o.x.s], o.x.conn)
    /\ pending_ice_candidates' = [pending_ice_candidates EXCEPT ![o.x.s] = <<>>]
    /\ Continue(t, <<>>)
    /\ UNCHANGED <<inCall, participants, connections, openConns, described, channels, tracks, session_tracks,
                   forwarders, sent>>
\* A candidate is refused: those before it are added, the rest is lost, and the offer fails.
FlushFails(t, o) ==
    /\ At(o, "flush") /\ pending_ice_candidates[o.x.s] # <<>>
    /\ \E n \in 0..(Len(pending_ice_candidates[o.x.s]) - 1) :
          Added(SubSeq(pending_ice_candidates[o.x.s], 1, n), o.x.conn)
    /\ pending_ice_candidates' = [pending_ice_candidates EXCEPT ![o.x.s] = <<>>]
    /\ Event /\ OfferFails(t, o)
    /\ UNCHANGED <<inCall, participants, connections, openConns, described, channels, tracks, session_tracks,
                   forwarders, sent, trouble>>

\* Mutant: whether the connection has a description is not looked at.
add_at_once(t, o) ==
    /\ At(o, "candidate") /\ ~Locked
    /\ IF has_participant(o.x.s) THEN Added(<<o.x.c>>, participants[o.x.s].conn) ELSE UNCHANGED added
    /\ Continue(t, <<>>)
    /\ UNCHANGED <<inCall, participants, connections, openConns, described, pending_ice_candidates, channels,
                   tracks, session_tracks, forwarders, sent>>

\* Under the lock: added when there is a description.  Without one it is queued, after the unlock.
handle_ice_candidate(t, o) ==
    /\ At(o, "candidate") /\ ~Locked
    /\ IF ~has_participant(o.x.s) THEN GiveUp(t) /\ UNCHANGED added
       ELSE IF participants[o.x.s].conn \in described
       THEN Continue(t, <<>>) /\ Added(<<o.x.c>>, participants[o.x.s].conn)
       ELSE Continue(t, <<Stmt("queue", o.x)>>) /\ UNCHANGED added
    /\ UNCHANGED <<inCall, participants, connections, openConns, described, pending_ice_candidates, channels,
                   tracks, session_tracks, forwarders, sent>>
QueueCandidate(t, o) ==
    /\ At(o, "queue")
    /\ pending_ice_candidates' = [pending_ice_candidates EXCEPT ![o.x.s] = Append(@, o.x.c)]
    /\ Continue(t, <<>>)
    /\ UNCHANGED <<inCall, participants, connections, openConns, described, channels, tracks, session_tracks,
                   forwarders, sent, added>>

-----------------------------------------------------------------------------
(* Tracks: a task for each, from on_track on. *)

Forwarder(k, s, conn, at) == [k |-> k, s |-> s, conn |-> conn, at |-> at, voice |-> FALSE]
Moves(f, at) == forwarders' = (forwarders \ {f}) \cup {[f EXCEPT !.at = at]}

\* A described connection brings a track.
on_track(k, s, conn) ==
    /\ conn \in described \cap openConns
    /\ IF has_participant(s) THEN participants[s].conn = conn ELSE FALSE
    /\ \A f \in forwarders : f.k = k => f.conn # conn
    /\ forwarders' = forwarders \cup {Forwarder(k, s, conn, "register")}
    /\ Statement
    /\ UNCHANGED <<inCall, participants, connections, openConns, described, pending_ice_candidates, channels,
                   tracks, session_tracks, sent, added>>

\* Two maps, one lock each.
register_track(f) ==
    /\ f.at = "register" /\ ~TracksLocked
    /\ tracks' = [tracks EXCEPT ![f.k] = f.s]
    /\ Moves(f, "list")
    /\ UNCHANGED <<inCall, participants, connections, openConns, described, pending_ice_candidates, channels,
                   session_tracks, sent, added>>
    /\ UNCHANGED RequestVars
ListTrack(f) ==
    /\ f.at = "list"
    /\ session_tracks' = [session_tracks EXCEPT ![f.s] = @ \cup {f.k}]
    /\ Moves(f, "forward")
    /\ UNCHANGED <<inCall, participants, connections, openConns, described, pending_ice_candidates, channels,
                   tracks, sent, added>>
    /\ UNCHANGED RequestVars

\* The first packet turns the voice on; silence is only looked for after a packet, which is no silence.
forward_track(f) ==
    /\ f.at = "forward" /\ f.conn \in openConns /\ ~f.voice
    /\ forwarders' = (forwarders \ {f}) \cup {[f EXCEPT !.voice = TRUE]}
    /\ UNCHANGED <<inCall, participants, connections, openConns, described, pending_ice_candidates, channels,
                   tracks, session_tracks, sent, added>>
    /\ UNCHANGED RequestVars

\* The track ends, by itself or with its connection, and the task without more.
EndSilently(f) ==
    /\ f.at = "forward"
    /\ forwarders' = forwarders \ {f}
    /\ UNCHANGED <<inCall, participants, connections, openConns, described, pending_ice_candidates, channels,
                   tracks, session_tracks, sent, added>>
    /\ UNCHANGED RequestVars
\* It ends, and is unregistered.
EndOfTrack(f) ==
    /\ f.at = "forward" /\ ~TracksLocked
    /\ tracks' = [tracks EXCEPT ![f.k] = None]
    /\ Moves(f, "unlist")
    /\ UNCHANGED <<inCall, participants, connections, openConns, described, pending_ice_candidates, channels,
                   session_tracks, sent, added>>
    /\ UNCHANGED RequestVars
unregister_track(f) ==
    /\ f.at = "unlist"
    /\ session_tracks' = [session_tracks EXCEPT ![f.s] = @ \ {f.k}]
    /\ forwarders' = forwarders \ {f}
    /\ UNCHANGED <<inCall, participants, connections, openConns, described, pending_ice_candidates, channels,
                   tracks, sent, added>>
    /\ UNCHANGED RequestVars

SfuRequest(t) ==
    \/ \E s \in MediaSessions :
          \/ Joins(t, s, "add") \/ Joins(t, s, "ensure") \/ Leaves(t, s)
          \/ \E retry \in BOOLEAN : Offers(t, s, retry)
          \/ \E c \in Candidates : Sends(t, s, c)
          \/ \E on \in BOOLEAN : set_screen_sharing(s, on)
          \/ \E k \in TrackIds, conn \in openConns : on_track(k, s, conn)
    \/ Interrupted(t) /\ UNCHANGED SfuVars

SfuStep(t, o) ==
    \/ PresentParticipant(t, o) \/ get_signaling_receiver(t, o) \/ MissingParticipant(t, o) \/ add_participant(t, o) \/ register_channel(t, o)
    \/ AddFails(t, o) \/ remove_participant(t, o) \/ CloseFails(t, o)
    \/ remove_participant_tracks(t, o) \/ DropTracks(t, o) \/ DropSession(t, o)
    \/ ForgetSession(t, o) \/ recreate_participant(t, o)
    \/ handle_offer(t, o) \/ set_remote_description(t, o) \/ DescriptionFails(t, o)
    \/ flush_pending_ice_candidates(t, o) \/ FlushFails(t, o)
    \/ handle_ice_candidate(t, o) \/ QueueCandidate(t, o)

ForwarderStep(f) ==
    register_track(f) \/ ListTrack(f) \/ forward_track(f) \/ EndOfTrack(f) \/ unregister_track(f)

SfuNext ==
    \/ events < MaxEvents /\ \E t \in Tasks : SfuRequest(t)
    \/ \E t \in Tasks : Busy(t) /\ SfuStep(t, Head(task[t]))
    \/ \E f \in forwarders : ForwarderStep(f)

-----------------------------------------------------------------------------
(* Properties. *)

\* A client's candidate is given to at most one connection, once, and only after its description,
\* whatever offers, retries and removals do meanwhile (sfu/mod.rs, handle_ice_candidate and
\* flush_pending_ice_candidates).
CandidatesAddedOnce ==
    /\ \A i, j \in 1..Len(added) : added[i][1] = added[j][1] => i = j
    /\ \A i \in 1..Len(added) : added[i][2] \in described

\* A track stays registered only while a task forwards it: also one that registered after its session
\* was removed goes when its task ends (sfu/mod.rs, forward_track; tracks.rs, register_track).
TracksAreForwarded ==
    \A k \in TrackIds :
        tracks[k] # None \/ (\E s \in MediaSessions : k \in session_tracks[s])
            => \E f \in forwarders : f.k = k

=============================================================================
