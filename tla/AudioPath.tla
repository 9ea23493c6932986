------------------------------ MODULE AudioPath ------------------------------
(***************************************************************************)
(* From a participant's microphone to the mix: the offers of the           *)
(* signaling server, the peer connections that answer them, and the mixer  *)
(* of the call being read (spreed_client.py handle_offer and on_track,     *)
(* audio_mixer.py attach and detach).                                      *)
(*                                                                         *)
(* The actors are tasks of one event loop and interleave at their awaits:  *)
(*   - the monitor, which takes one message at a time from the server and  *)
(*     handles no other while it answers an offer;                         *)
(*   - start_reading and stop_reading.  Why a reading begins and ends is   *)
(*     RoomReading's; here it may do so at any time.  A stop tears down    *)
(*     outside its lock, so the next reading may have begun;               *)
(*   - the handlers of the peer connections' events.                       *)
(***************************************************************************)
EXTENDS FiniteSets, Naturals, Sequences

CONSTANTS
  Publishers, \* the signaling sessions of the participants
  Conns,      \* bound: the RTCPeerConnections that are alive together
  MaxInbox,   \* bound: the messages waiting for the monitor
  None,
  Ended       \* a publisher's buffer whose track has ended (buffer.ended)

ASSUME AudioAssumption ==
  /\ IsFiniteSet(Publishers) /\ IsFiniteSet(Conns)
  /\ MaxInbox \in Nat
  /\ None \notin Publishers \cup Conns \cup {Ended}
  /\ Ended \notin Conns

VARIABLES
  asked,      \* the server: publishers whose offer was requested and has not come
  inbox,      \* messages on their way to the monitor, in order
  monitor,    \* what the monitor is doing, for whom and with which connection
  publishers, \* _publishers_in_call
  table,      \* peer_connections
  conn,       \* the RTCPeerConnections: for whom, whether of an earlier reading, how they are
  buffers,    \* _buffers of _mixer: the connection whose track a publisher's puller drains
  mixing,     \* _mixer is not None
  reading,    \* reading
  starter,    \* where start_reading is
  teardown,   \* where stop_reading is after its lock, with the connections it took
  spoiled     \* history: publishers lost in this reading to the network or to an old teardown

peers   == <<table, conn>>
reader  == <<mixing, reading, starter>>
vars    == <<asked, inbox, monitor, publishers, peers, buffers, reader, teardown, spoiled>>

Messages == [kind : {"join", "leave", "offer"}, from : Publishers] \cup [kind : {"end"}]

Idle    == [pc |-> "idle", for |-> None, conn |-> None]
Dead    == [pc |-> "dead", for |-> None, conn |-> None]
Unused  == [for |-> None, old |-> FALSE, state |-> "unused"]
Done    == [pc |-> "none", conns |-> {}]
Silence == [p \in Publishers |-> None]

TypeOK ==
  /\ asked \subseteq Publishers
  /\ inbox \in Seq(Messages) /\ Len(inbox) <= MaxInbox
  /\ monitor \in [pc : {"idle", "leaving", "remote", "answer", "dead"},
                  for : Publishers \cup {None}, conn : Conns \cup {None}]
  /\ publishers \subseteq Publishers
  /\ table \in [Publishers -> Conns \cup {None}]
  /\ conn \in [Conns -> {Unused} \cup
                 [for : Publishers, old : BOOLEAN, state : {"live", "stray", "failing"}]]
  /\ buffers \in [Publishers -> Conns \cup {None, Ended}]
  /\ mixing \in BOOLEAN /\ reading \in BOOLEAN
  /\ starter \in {"idle", "opening", "joining"}
  /\ teardown \in [pc : {"none", "flushing", "closing"}, conns : SUBSET Conns]
  /\ spoiled \subseteq Publishers

Init ==
  /\ asked = {} /\ inbox = <<>>
  /\ monitor = Idle
  /\ publishers = {}
  /\ table = Silence /\ conn = [c \in Conns |-> Unused]
  /\ buffers = Silence
  /\ mixing = FALSE /\ reading = FALSE /\ starter = "idle"
  /\ teardown = Done
  /\ spoiled = {}

\* connectionState is neither closed nor failed.
Works(c) == c # None /\ conn[c].state \in {"live", "stray"}

\* Closed connections are of no further use; their tracks end.
AreClosed(conns) ==
  /\ conn' = [c \in Conns |-> IF c \in conns THEN Unused ELSE conn[c]]
  /\ buffers' = [p \in Publishers |-> IF buffers[p] \in conns THEN Ended ELSE buffers[p]]

------------------------------------------------------------------------------
(* The server and the participants.                                        *)

Send(m) == Len(inbox) < MaxInbox /\ inbox' = Append(inbox, m)

\* A participant turns up in the call with audio, is named again by an update, or leaves;
\* or the call ends for all.
Tells(m) ==
  /\ m.kind # "offer"
  /\ Send(m)
  /\ UNCHANGED <<asked, monitor, publishers, peers, buffers, reader, teardown, spoiled>>

Offers(p) ==
  /\ p \in asked
  /\ Send([kind |-> "offer", from |-> p])
  /\ asked' = asked \ {p}
  /\ UNCHANGED <<monitor, publishers, peers, buffers, reader, teardown, spoiled>>

\* No offer comes of a request.
RequestIsLost(p) ==
  /\ p \in asked
  /\ asked' = asked \ {p}
  /\ spoiled' = spoiled \cup {p}
  /\ UNCHANGED <<inbox, monitor, publishers, peers, buffers, reader, teardown>>

------------------------------------------------------------------------------
(* The monitor.                                                            *)

Receives(kind) ==
  /\ monitor.pc = "idle"
  /\ inbox # <<>>
  /\ Head(inbox).kind = kind
  /\ inbox' = Tail(inbox)

\* Mutant: whoever was in the call before the bridge is not asked for audio.
RequestNone(ps) == UNCHANGED asked

\* send_offer_request, for each.
Request(ps) == asked' = asked \cup ps

\* Somebody is in the call with audio: its offer is requested when the call is read and
\* no connection to it is at work.
HearsJoin ==
  /\ Receives("join")
  /\ LET p == Head(inbox).from IN
     /\ publishers' = publishers \cup {p}
     /\ asked' = IF reading /\ ~Works(table[p]) THEN asked \cup {p} ELSE asked
  /\ UNCHANGED <<monitor, peers, buffers, reader, teardown, spoiled>>

\* A participant left: out of the mix, where its puller is awaited ...
HearsLeave ==
  /\ Receives("leave")
  /\ LET p == Head(inbox).from IN
     /\ publishers' = publishers \ {p}
     /\ buffers' = [buffers EXCEPT ![p] = None]
     /\ monitor' = [Idle EXCEPT !.pc = "leaving", !.for = p]
     /\ spoiled' = spoiled \ {p}
  /\ UNCHANGED <<asked, peers, reader, teardown>>

\* Mutant: the entry goes and its connection stays.
DropEntry(p) == table' = [table EXCEPT ![p] = None] /\ UNCHANGED <<conn, buffers>>

\* _drop_peer_connection: a connection that has failed is not closed.
Drop(p) ==
  /\ table' = [table EXCEPT ![p] = None]
  /\ AreClosed({table[p]} \cap {c \in Conns : Works(c)})

\* ... and then its connection.
DropsLeaver ==
  /\ monitor.pc = "leaving"
  /\ Drop(monitor.for)
  /\ monitor' = Idle
  /\ UNCHANGED <<asked, inbox, publishers, reader, teardown, spoiled>>

HearsEnd ==
  /\ Receives("end")
  /\ publishers' = {}
  /\ UNCHANGED <<asked, monitor, peers, buffers, reader, teardown, spoiled>>

Accepts(p) == ~Works(table[p])

\* handle_offer up to its first await: a connection is created and kept.
HearsOffer ==
  /\ Receives("offer")
  /\ LET p == Head(inbox).from IN
     IF Accepts(p)
     THEN \E c \in Conns :
            /\ conn[c] = Unused
            /\ conn' = [conn EXCEPT ![c] = [for |-> p, old |-> FALSE, state |-> "live"]]
            /\ table' = [table EXCEPT ![p] = c]
            /\ monitor' = [pc |-> "remote", for |-> p, conn |-> c]
     ELSE UNCHANGED <<peers, monitor>>
  /\ UNCHANGED <<asked, publishers, buffers, reader, teardown, spoiled>>

\* Mutant: the track is left to the participant's next offer.
AttachNothing(p, c) == UNCHANGED buffers

\* attach: a publisher that has a buffer keeps it, ended or not.
Attach(p, c) ==
  buffers' = IF buffers[p] = None THEN [buffers EXCEPT ![p] = c] ELSE buffers

\* setRemoteDescription brings the track, and on_track is ready to run at once: the track
\* is attached, or dropped where there is no mixer.  On a connection closed meanwhile it
\* raises, and nothing in the monitor catches that.
SetsRemote ==
  /\ monitor.pc = "remote"
  /\ IF Works(monitor.conn)
     THEN /\ monitor' = [monitor EXCEPT !.pc = "answer"]
          /\ IF mixing THEN Attach(monitor.for, monitor.conn) ELSE UNCHANGED buffers
     ELSE monitor' = Dead /\ UNCHANGED buffers
  /\ UNCHANGED <<asked, inbox, publishers, peers, reader, teardown, spoiled>>

\* The answer and the candidates; a connection closed meanwhile may raise.
Answers ==
  /\ monitor.pc = "answer"
  /\ \/ monitor' = Idle
     \/ ~Works(monitor.conn) /\ monitor' = Dead
  /\ UNCHANGED <<asked, inbox, publishers, peers, buffers, reader, teardown, spoiled>>

------------------------------------------------------------------------------
(* The peer connections.                                                   *)

\* Connectivity is lost: the track ends, and the handler is scheduled.
Fails(c) ==
  /\ Works(c)
  /\ ~(monitor.pc = "remote" /\ monitor.conn = c)
  /\ conn' = [conn EXCEPT ![c].state = "failing"]
  /\ buffers' = [p \in Publishers |-> IF buffers[p] = c THEN Ended ELSE buffers[p]]
  /\ spoiled' = spoiled \cup {conn[c].for}
  /\ UNCHANGED <<asked, inbox, monitor, publishers, table, reader, teardown>>

\* on_connectionstatechange: the participant's entry goes, whichever connection it holds.
FailureIsHandled(c) ==
  /\ conn[c].state = "failing"
  /\ LET p == conn[c].for
         other == {table[p]} \ {c, None} IN
     /\ table' = [table EXCEPT ![p] = None]
     /\ conn' = [d \in Conns |-> IF d = c THEN Unused
                                 ELSE IF d \in other /\ Works(d) THEN [conn[d] EXCEPT !.state = "stray"]
                                 ELSE conn[d]]
     /\ spoiled' = spoiled \cup {p}
  /\ teardown' = [teardown EXCEPT !.conns = @ \ {c}]
  /\ UNCHANGED <<asked, inbox, monitor, publishers, buffers, reader>>

------------------------------------------------------------------------------
(* start_reading, stop_reading and close.                                  *)

\* A mixer of its own for each reading; the speech connection is being opened.
\* Bound: one start at a time, its joining of the call included.
StartReading ==
  /\ ~reading /\ starter = "idle"
  /\ mixing' = TRUE
  /\ buffers' = Silence
  /\ starter' = "opening"
  /\ conn' = [c \in Conns |-> IF conn[c] = Unused THEN Unused ELSE [conn[c] EXCEPT !.old = TRUE]]
  /\ spoiled' = {}
  /\ UNCHANGED <<asked, inbox, monitor, publishers, table, reading, teardown>>

SpeechOpens ==
  /\ starter = "opening"
  /\ reading' = TRUE
  /\ starter' = "joining"
  /\ UNCHANGED <<asked, inbox, monitor, publishers, peers, buffers, mixing, teardown, spoiled>>

SpeechFails ==
  /\ starter = "opening"
  /\ starter' = "idle"
  /\ mixing' = FALSE
  /\ buffers' = Silence
  /\ UNCHANGED <<asked, inbox, monitor, publishers, peers, reading, teardown, spoiled>>

\* The bridge joins the call and asks for the audio of those who are in it.
JoinsCall ==
  /\ starter = "joining"
  /\ starter' = "idle"
  /\ Request(publishers)
  /\ UNCHANGED <<inbox, monitor, publishers, peers, buffers, mixing, reading, teardown, spoiled>>

\* stop_reading under its lock; segmenter, speech connection and mixer are stopped after it.
\* Bound: one teardown at a time.
StopReading ==
  /\ reading
  /\ teardown = Done
  /\ reading' = FALSE
  /\ mixing' = FALSE
  /\ buffers' = Silence
  /\ teardown' = [teardown EXCEPT !.pc = "flushing"]
  /\ UNCHANGED <<asked, inbox, monitor, publishers, peers, starter, spoiled>>

Held == {table[p] : p \in Publishers} \ {None}

Take == teardown' = [pc |-> "closing", conns |-> Held]

\* The connections are taken out of the table, also those of a reading begun meanwhile ...
TakesConns ==
  /\ teardown.pc = "flushing"
  /\ Take
  /\ table' = Silence
  /\ spoiled' = spoiled \cup {conn[c].for : c \in Held}
  /\ UNCHANGED <<asked, inbox, monitor, publishers, conn, buffers, reader>>

\* ... and closed.
ClosesConns ==
  /\ teardown.pc = "closing"
  /\ teardown' = Done
  /\ AreClosed(teardown.conns)
  /\ spoiled' = spoiled \cup {p \in Publishers : buffers[p] \in teardown.conns}
  /\ UNCHANGED <<asked, inbox, monitor, publishers, table, reader>>

\* close: the monitor is cancelled, the connections are closed and forgotten.
Closes ==
  /\ monitor # Dead
  /\ monitor' = Dead
  /\ AreClosed({c \in Held : Works(c)})
  /\ table' = Silence
  /\ UNCHANGED <<asked, inbox, publishers, reader, teardown, spoiled>>

------------------------------------------------------------------------------

Monitor ==
  HearsJoin \/ HearsLeave \/ DropsLeaver \/ HearsEnd \/ HearsOffer \/ SetsRemote \/ Answers

Starter == SpeechOpens \/ SpeechFails \/ JoinsCall

Teardown == TakesConns \/ ClosesConns

Answered(p) == Offers(p) \/ RequestIsLost(p)

Next ==
  \/ \E m \in Messages : Tells(m)
  \/ \E p \in Publishers : Answered(p)
  \/ Monitor
  \/ \E c \in Conns : Fails(c) \/ FailureIsHandled(c)
  \/ StartReading \/ Starter \/ StopReading \/ Teardown \/ Closes

\* What the bridge does by itself goes on, and a request is answered or lost.
Fairness ==
  /\ WF_vars(Monitor) /\ WF_vars(Starter) /\ WF_vars(Teardown)
  /\ \A p \in Publishers : WF_vars(Answered(p))
  /\ \A c \in Conns : WF_vars(FailureIsHandled(c))

Spec == Init /\ [][Next]_vars /\ Fairness

------------------------------------------------------------------------------
(* Properties.                                                             *)

\* The track that is mixed for a publisher comes over a connection at work.
Heard(p) == buffers[p] \in Conns /\ Works(buffers[p])

\* The publisher's audio is on its way.
Awaited(p) ==
  \/ p \in asked
  \/ \E i \in 1..Len(inbox) : inbox[i] = [kind |-> "offer", from |-> p]
  \/ monitor.for = p /\ monitor.pc = "remote"

\* A connection left over from an earlier call is in the way.
Stale(p) == Works(table[p]) /\ conn[table[p]].old

Lost(p) == p \in spoiled \/ Stale(p) \/ monitor = Dead

\* readme.md:20: "Mixes every participant's audio into one mono stream".  Whoever is in a
\* call that is read is in the mix, or the bridge waits for its audio; but for those whose
\* connection or offer was lost, or was taken by the teardown of an earlier reading, those who
\* still have a connection of an earlier call, and after the death of the monitor.
EveryoneIsMixed ==
  reading /\ starter = "idle" => \A p \in publishers : Heard(p) \/ Awaited(p) \/ Lost(p)

\* spreed_client.py:541, of the end of stop_reading: "Drop the peer connections: they belong
\* to the call, not to the room".  When the teardown is over, the next call that is read
\* meets no connection that was created before its reading began.
ConnectionsEndWithTheCall ==
  reading /\ teardown = Done => \A p \in Publishers : ~Stale(p)

\* Every connection at work is in the table or about to be closed by a stop, so that
\* somebody closes it; but for those that the failure of another took out of the table.
NoStrayConnection ==
  \A c \in Conns :
    conn[c].state = "live" => table[conn[c].for] = c \/ c \in teardown.conns

\* A publisher who stays is mixed in the end, with the exceptions of EveryoneIsMixed.
EveryoneIsMixedAtLast ==
  \A p \in Publishers :
    reading /\ p \in publishers ~> Heard(p) \/ ~reading \/ p \notin publishers \/ Lost(p)
==============================================================================
