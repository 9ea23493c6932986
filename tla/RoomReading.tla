----------------------------- MODULE RoomReading -----------------------------
(***************************************************************************)
(* Reading the calls of one watched room: who may open, and who must       *)
(* close, a live session and its speech connection.                        *)
(*                                                                         *)
(* The actors are tasks of one event loop and interleave at their awaits:  *)
(*   - the signaling monitor (spreed_client.py signalling_monitor), which  *)
(*     announces the beginning and the end of a call;                      *)
(*   - an ask per announced call (call_watcher.py _on_call_started), which *)
(*     asks Korsi for a session and starts reading with it;                *)
(*   - the stoppers, which all run stop_reading: the end of a call, the    *)
(*     segmenter whose session is gone, the watcher that lets go of the    *)
(*     room.                                                               *)
(* One SpreedClient is followed from its connection to the end of the      *)
(* process.  An ask and the session Korsi may open for it share a name.    *)
(***************************************************************************)
EXTENDS FiniteSets, Naturals

CONSTANTS
  Asks,    \* bound: the calls that can be announced
  Enders,  \* bound: the call-ended tasks that can be alive together
  Release, \* the watcher letting go of the room
  None

ASSUME RoomAssumption ==
  /\ IsFiniteSet(Asks)
  /\ Asks \cap Enders = {}
  /\ Release \notin Asks \cup Enders
  /\ None \notin Asks \cup Enders \cup {Release}

VARIABLES
  call,       \* the room: somebody is in the call
  offered,    \* history: an ask was made, or was under way, for this call
  publishers, \* _publishers_in_call is not empty
  announced,  \* _call_announced
  ask,        \* the _on_call_started tasks
  stop,       \* the stop_reading calls, each with the session it took over
  reading,    \* reading
  cur,        \* _session (with _korsi, _segmenter, _speech and _mixer)
  lock,       \* _reading_lock: the ask that holds it across an await
  connected,  \* the HPB hears the bridge's signaling session
  inCall,     \* the HPB has the bridge as a participant of the call
  unheard,    \* history: in the call since an incall 0 that the HPB did not hear
  session,    \* Korsi: the live sessions
  speech,     \* the speech connections open
  closes,     \* history: close_session calls made for a session
  held,       \* the client is in the watcher's _clients
  closed,     \* the client is closed (defunct)
  stopping,   \* the watcher's _stopping
  late,       \* history: asks that were under way when the room was let go of
  declined    \* _declined_until, while it has not passed

room    == <<call, offered, publishers>>
hpb     == <<connected, inCall, unheard>>
reader  == <<reading, cur, lock>>
korsi   == <<session, closes>>
watcher == <<held, stopping, late, declined>>
vars    == <<room, announced, ask, stop, reader, hpb, korsi, speech, watcher, closed>>

\* Every stop_reading call has a name: a session's own is made by its segmenter.
Stops == Enders \cup Asks \cup {Release}

Idle == [pc |-> "idle", session |-> None]

StopState ==
  [pc : {"idle", "new", "waiting", "closingClient", "abandoned"}, session : {None}]
    \cup [pc : {"flushing", "closing", "abandoned"}, session : Asks]

TypeOK ==
  /\ call \in BOOLEAN /\ offered \in BOOLEAN /\ publishers \in BOOLEAN
  /\ announced \in BOOLEAN
  /\ ask \in [Asks -> {"unused", "new", "asking", "failed", "granted", "dropped",
                       "opening", "failing", "done"}]
  /\ stop \in [Stops -> StopState]
  /\ reading \in BOOLEAN
  /\ cur \in Asks \cup {None}
  /\ lock \in Asks \cup {None}
  /\ connected \in BOOLEAN /\ inCall \in BOOLEAN /\ unheard \in BOOLEAN
  /\ session \in [Asks -> {"none", "open", "closed"}]
  /\ speech \in [Asks -> BOOLEAN]
  /\ closes \in [Asks -> Nat]
  /\ held \in BOOLEAN /\ closed \in BOOLEAN /\ stopping \in BOOLEAN /\ declined \in BOOLEAN
  /\ late \subseteq Asks

Init ==
  /\ call = FALSE /\ offered = FALSE /\ publishers = FALSE
  /\ announced = FALSE
  /\ ask = [a \in Asks |-> "unused"]
  /\ stop = [s \in Stops |-> Idle]
  /\ reading = FALSE /\ cur = None /\ lock = None
  /\ connected = TRUE /\ inCall = FALSE /\ unheard = FALSE
  /\ session = [a \in Asks |-> "none"]
  /\ speech = [a \in Asks |-> FALSE]
  /\ closes = [a \in Asks |-> 0]
  /\ held = TRUE /\ closed = FALSE /\ stopping = FALSE /\ declined = FALSE
  /\ late = {}

------------------------------------------------------------------------------
(* The monitor: participants updates.                                      *)

\* What happens while the session is cut off the HPB tells when it is resumed.
Hears == ~closed /\ connected

\* No ask is under way.
Unasked == \A a \in Asks : ask[a] \notin {"new", "asking", "granted", "opening", "failing"}

\* Somebody with audio is in the call: the first evidence of a call creates an ask.
Joined(a) ==
  /\ Hears
  /\ call' = TRUE
  /\ publishers' = TRUE
  /\ \/ /\ announced
        /\ offered' = (~Unasked \/ (call /\ offered))
        /\ UNCHANGED <<announced, ask>>
     \/ /\ ~announced
        /\ ask[a] = "unused"
        /\ announced' = TRUE
        /\ offered' = TRUE
        /\ ask' = [ask EXCEPT ![a] = "new"]
  /\ UNCHANGED <<stop, reader, hpb, korsi, speech, watcher, closed>>

\* _announce_call_ended: a detached task tells the watcher, if there was a call to end.
AnnounceEnded(e) ==
  /\ announced' = FALSE
  /\ IF announced \/ reading
     THEN stop[e] = Idle /\ stop' = [stop EXCEPT ![e].pc = "new"]
     ELSE UNCHANGED stop

CallEnds ==
  /\ Hears
  /\ call
  /\ call' = FALSE
  /\ offered' = FALSE
  /\ publishers' = FALSE
  /\ UNCHANGED <<ask, reader, hpb, korsi, speech, watcher, closed>>

\* incall 0 for all: announced whether or not the call is read.
EndsForEveryone(e) == CallEnds /\ AnnounceEnded(e)

\* The last participant leaves on its own: announced only when the call is read.
LastLeaves(e) ==
  /\ CallEnds
  /\ IF reading THEN AnnounceEnded(e) ELSE UNCHANGED <<announced, stop>>

\* Any other users update finds that nobody with audio is left.
OtherUpdate(e) ==
  /\ Hears
  /\ reading /\ ~publishers
  /\ AnnounceEnded(e)
  /\ UNCHANGED <<room, ask, reader, hpb, korsi, speech, watcher, closed>>

------------------------------------------------------------------------------
(* The signaling session (the reconnects themselves are in Signaling).     *)

\* The connection is lost: what the bridge sends is dropped until the session is resumed.
ConnectionLost ==
  /\ connected
  /\ connected' = FALSE
  /\ UNCHANGED <<room, announced, ask, stop, reader, inCall, unheard, korsi, speech, watcher,
                 closed>>

\* Mutant: a resume puts the bridge into the call whether it reads one or not.
AnnounceAnyway == inCall' = TRUE

Reannounce == inCall' = (inCall \/ reading)

\* A short resume: the HPB still has the session, in the call if it was in the call.  (That
\* it ends a session which stays cut off, and with it the bridge's part in the call, is left
\* out: the client then closes.)
SessionResumed ==
  /\ ~closed
  /\ ~connected
  /\ connected' = TRUE
  /\ Reannounce
  /\ unheard' = (unheard /\ ~reading)
  /\ UNCHANGED <<room, announced, ask, stop, reader, korsi, speech, watcher, closed>>

\* close() says bye, which ends the session if the HPB hears it.
SayBye ==
  /\ connected' = FALSE
  /\ inCall' = (inCall /\ ~connected)
  /\ unheard' = (unheard /\ ~connected)

\* A bye, an error message or a resume that fails closes the client and leaves the reading
\* to the watcher.
ClientDies ==
  /\ ~closed
  /\ closed' = TRUE
  /\ SayBye
  /\ UNCHANGED <<room, announced, ask, stop, reader, korsi, speech, watcher>>

------------------------------------------------------------------------------
(* An ask: _on_call_started, then start_reading.                           *)

AskMoves(a, from, to) == ask[a] = from /\ ask' = [ask EXCEPT ![a] = to]

AskBegins(a) ==
  /\ AskMoves(a, "new", IF stopping \/ declined \/ ~held THEN "done" ELSE "asking")
  /\ UNCHANGED <<room, announced, stop, reader, hpb, korsi, speech, watcher, closed>>

\* Korsi opens a session, whether or not the ask still waits for the answer.
KorsiOpens(a) ==
  /\ ask[a] \in {"asking", "failed"}
  /\ session[a] = "none"
  /\ session' = [session EXCEPT ![a] = "open"]
  /\ UNCHANGED <<room, announced, ask, stop, reader, hpb, closes, speech, watcher, closed>>

\* Korsi reaps a session without segments.
KorsiSweeps(a) ==
  /\ session[a] = "open"
  /\ session' = [session EXCEPT ![a] = "closed"]
  /\ UNCHANGED <<room, announced, ask, stop, reader, hpb, closes, speech, watcher, closed>>

Declined(a) ==
  /\ session[a] = "none"
  /\ AskMoves(a, "asking", "done")
  /\ declined' = TRUE
  /\ UNCHANGED <<room, announced, stop, reader, hpb, korsi, speech, held, stopping, late, closed>>

DeclineExpires ==
  /\ declined
  /\ declined' = FALSE
  /\ UNCHANGED <<room, announced, ask, stop, reader, hpb, korsi, speech, held, stopping, late, closed>>

\* KorsiApiError: no usable answer.
AskFails(a) ==
  /\ AskMoves(a, "asking", "failed")
  /\ UNCHANGED <<room, announced, stop, reader, hpb, korsi, speech, watcher, closed>>

\* A lock that nobody holds and nobody waits for is taken without an await.
LockFree ==
  /\ lock = None
  /\ \A a \in Asks : ask[a] # "granted"
  /\ \A s \in Stops : stop[s].pc # "waiting"

TakeLock(a) == lock' = a

\* start_reading under the lock: a call that is read already is left alone, and the
\* session that was granted for it is forgotten.
StartReading(a) ==
  IF reading
  THEN /\ ask' = [ask EXCEPT ![a] = "dropped"]
       /\ UNCHANGED <<cur, lock>>
  ELSE /\ ask' = [ask EXCEPT ![a] = "opening"]
       /\ cur' = a
       /\ TakeLock(a)

\* Korsi granted a session.
Granted(a) ==
  /\ ask[a] = "asking"
  /\ session[a] # "none"
  /\ IF LockFree
     THEN StartReading(a)
     ELSE ask' = [ask EXCEPT ![a] = "granted"] /\ UNCHANGED <<cur, lock>>
  /\ UNCHANGED <<room, announced, stop, reading, hpb, korsi, speech, watcher, closed>>

\* The lock comes to an ask that waited for it (in any order: the queue is not modelled).
StartWaited(a) ==
  /\ ask[a] = "granted"
  /\ lock = None
  /\ StartReading(a)
  /\ UNCHANGED <<room, announced, stop, reading, hpb, korsi, speech, watcher, closed>>

\* The speech connection is open: the segmenter starts and the bridge joins the call, if
\* the HPB hears it.
SpeechOpens(a) ==
  /\ AskMoves(a, "opening", "done")
  /\ speech' = [speech EXCEPT ![a] = TRUE]
  /\ reading' = TRUE
  /\ lock' = None
  /\ inCall' = (inCall \/ connected)
  /\ unheard' = (unheard /\ ~connected)
  /\ UNCHANGED <<room, announced, stop, cur, connected, korsi, watcher, closed>>

SpeechFails(a) ==
  /\ AskMoves(a, "opening", "failing")
  /\ UNCHANGED <<room, announced, stop, reader, hpb, korsi, speech, watcher, closed>>

\* Mutant: Korsi is not told.
CloseNothing(a, arrives) == UNCHANGED korsi

\* close_session: one attempt, which reaches Korsi or not.
CloseSession(a, arrives) ==
  /\ closes' = [closes EXCEPT ![a] = @ + 1]
  /\ session' = IF arrives THEN [session EXCEPT ![a] = "closed"] ELSE session

\* Mutant: a failed start forgets to let go of the lock.
KeepLock == UNCHANGED lock

LetGoOfLock == lock' = None

\* Mutant: a failed start leaves its session to Korsi.
GiveBackNothing(a, arrives) == UNCHANGED korsi

GiveBack(a, arrives) == CloseSession(a, arrives)

\* A failed start closes the session it was given before it lets go of the lock.
FailedStartCloses(a, arrives) ==
  /\ AskMoves(a, "failing", "done")
  /\ GiveBack(a, arrives)
  /\ cur' = None
  /\ LetGoOfLock
  /\ UNCHANGED <<room, announced, stop, reading, hpb, speech, watcher, closed>>

------------------------------------------------------------------------------
(* stop_reading and its callers.                                           *)

\* Mutant: the reader stays the client's until it is torn down.
TakeOverLate == announced' = FALSE /\ UNCHANGED <<reading, cur>>

TakeOver == reading' = FALSE /\ announced' = FALSE /\ cur' = None

\* What follows stop_reading: the watcher closes the client, the others are done.
AfterStop(s) ==
  [pc |-> IF s = Release THEN "closingClient" ELSE "idle", session |-> None]

Flushing(a) == [pc |-> "flushing", session |-> a]

\* Mutant: a stop called by the segmenter's own task is cancelled with that task.
TakenOverBySelf(s) == [stop EXCEPT ![s] = Flushing(cur), ![cur] = Idle]

\* The segmenter's task is cancelled, and with it a stop it waits for, but its own.
TakenOver(s) == [stop EXCEPT ![cur] = Idle, ![s] = Flushing(cur)]

\* stop_reading under the lock: take the session and all that reads it, or find nothing.
StopLocked(s) ==
  IF reading
  THEN stop' = TakenOver(s) /\ TakeOver
  ELSE /\ stop' = [stop EXCEPT ![s] = AfterStop(s)]
       /\ UNCHANGED <<announced, reading, cur>>

StopReading(s) ==
  IF LockFree
  THEN StopLocked(s)
  ELSE /\ stop' = [stop EXCEPT ![s].pc = "waiting"]
       /\ UNCHANGED <<announced, reading, cur>>

\* The lock comes to a stop that waited for it.
StopWaited(s) ==
  /\ stop[s].pc = "waiting"
  /\ lock = None
  /\ StopLocked(s)
  /\ UNCHANGED <<room, ask, lock, hpb, korsi, speech, watcher, closed>>

\* _on_call_ended: heard only while the watcher holds the client.
EndBegins(e) ==
  /\ stop[e].pc = "new"
  /\ IF held
     THEN declined' = FALSE /\ StopReading(e)
     ELSE stop' = [stop EXCEPT ![e] = Idle] /\ UNCHANGED <<declined, announced, reading, cur>>
  /\ UNCHANGED <<room, ask, lock, hpb, korsi, speech, held, stopping, late, closed>>

\* Korsi closed the session: its segmenter learns it from a post and stops the reading.
Gone(a) ==
  /\ reading /\ cur = a
  /\ session[a] = "closed"
  /\ stop[a] = Idle
  /\ StopReading(a)
  /\ UNCHANGED <<room, ask, lock, hpb, korsi, speech, watcher, closed>>

\* Mutant: the bridge closes its speech connection and stays in the call.
StayInCall == UNCHANGED hpb

\* incall 0: dropped while the session is cut off, and not sent again.
LeaveCall ==
  /\ inCall' = (inCall /\ ~connected)
  /\ unheard' = inCall'
  /\ UNCHANGED connected

\* The segmenter has flushed: close the speech connection, the mix, leave the call.
HangUp(s) ==
  /\ stop[s].pc = "flushing"
  /\ stop' = [stop EXCEPT ![s].pc = "closing"]
  /\ speech' = [speech EXCEPT ![stop[s].session] = FALSE]
  /\ LeaveCall
  /\ UNCHANGED <<room, announced, ask, reader, korsi, watcher, closed>>

StopCloses(s, arrives) ==
  /\ stop[s].pc = "closing"
  /\ CloseSession(stop[s].session, arrives)
  /\ stop' = [stop EXCEPT ![s] = AfterStop(s)]
  /\ UNCHANGED <<room, announced, ask, reader, hpb, speech, watcher, closed>>

ClientCloses ==
  /\ stop[Release].pc = "closingClient"
  /\ stop' = [stop EXCEPT ![Release] = Idle]
  /\ closed' = TRUE
  /\ SayBye
  /\ UNCHANGED <<room, announced, ask, reader, korsi, speech, watcher>>

Underway == {a \in Asks : ask[a] \in {"asking", "granted", "opening"}}

\* Mutant: the client is closed and its reading left alone.
LetGoUnstopped ==
  /\ held /\ held' = FALSE
  /\ late' = Underway
  /\ stop' = [stop EXCEPT ![Release] = AfterStop(Release)]
  /\ UNCHANGED <<announced, reading, cur>>

LetGoOfRoom == held /\ held' = FALSE /\ late' = Underway /\ StopReading(Release)

\* _release_room: the room left the watchlist, or its client is defunct.
ReleaseRoom ==
  /\ ~stopping
  /\ LetGoOfRoom
  /\ UNCHANGED <<room, ask, lock, hpb, korsi, speech, stopping, declined, closed>>

\* The poll loop is cancelled in the middle of a release: the release ends where it is.
ReleaseCutShort ==
  /\ stop[Release] # Idle
  /\ stop' = [stop EXCEPT ![Release].pc = "abandoned"]
  /\ UNCHANGED <<held, late, announced, reading, cur>>

\* There is no release to cut short, or it waits for the segmenter's task, whose
\* cancellation it expects, and takes no notice.
NothingToCut ==
  /\ ~held
  /\ stop[Release].pc \in {"idle", "flushing"}
  /\ UNCHANGED <<held, late, stop, announced, reading, cur>>

\* The watcher's stop() cancels its poll loop and releases the rooms it still holds.
WatcherStops ==
  /\ ~stopping
  /\ stopping' = TRUE
  /\ LetGoOfRoom \/ ReleaseCutShort \/ NothingToCut
  /\ UNCHANGED <<room, ask, lock, hpb, korsi, speech, declined, closed>>

------------------------------------------------------------------------------
Monitor == \/ \E a \in Asks : Joined(a)
           \/ \E e \in Enders : EndsForEveryone(e) \/ LastLeaves(e) \/ OtherUpdate(e)
           \/ ConnectionLost \/ SessionResumed \/ ClientDies

AskAnswered(a) == Declined(a) \/ AskFails(a) \/ Granted(a)

Starting(a) == \/ StartWaited(a) \/ SpeechOpens(a) \/ SpeechFails(a)
               \/ \E arrives \in BOOLEAN : FailedStartCloses(a, arrives)

Korsi(a) == KorsiOpens(a) \/ KorsiSweeps(a)

TearingDown(s) == HangUp(s) \/ \E arrives \in BOOLEAN : StopCloses(s, arrives)

Stopping(s) == EndBegins(s) \/ StopWaited(s) \/ TearingDown(s)

Next == \/ Monitor
        \/ \E a \in Asks : AskBegins(a) \/ AskAnswered(a) \/ Starting(a) \/ Korsi(a) \/ Gone(a)
        \/ \E s \in Stops : Stopping(s)
        \/ DeclineExpires \/ ClientCloses \/ ReleaseRoom \/ WatcherStops

\* The event loop runs every task that is ready, and every connection attempt and request has
\* a timeout.  Only a start that was granted and a teardown that was begun need it here; what
\* participants, Korsi, the HPB and the operator do is not fair.
Fairness ==
  /\ \A a \in Asks : WF_vars(Starting(a))
  /\ \A s \in Stops : WF_vars(TearingDown(s))

Spec == Init /\ [][Next]_vars

FairSpec == Spec /\ Fairness

------------------------------------------------------------------------------
(* Properties.                                                             *)

Stopped(a) == \E s \in Stops : stop[s].session = a

\* start_reading holds its lock so that a call never has two speech connections (and two
\* bills): each one open is the reader's own, or the business of a stop that took it over.
EverySpeechIsOwned ==
  \A a \in Asks : speech[a] => (reading /\ cur = a) \/ Stopped(a)

\* spreed_client.py:837-839: a session is closed exactly once, however many stoppers meet.
ClosedOnce == \A a \in Asks : closes[a] <= 1

\* A session open at Korsi is about to be read, read, being stopped, or one of the known
\* leaks: the ask had no answer, the call was read already, or the one close went astray.
EverySessionIsOwned ==
  \A a \in Asks : session[a] = "open" =>
    \/ ask[a] \in {"asking", "failed", "granted", "dropped", "opening", "failing"}
    \/ reading /\ cur = a
    \/ Stopped(a)
    \/ closes[a] > 0

Quiet == lock = None /\ \A s \in Stops : stop[s] = Idle

\* spreed_client.py:282-284: the bridge must not stay in, or come back to, a call that it does
\* not read, or it keeps the call alive after the last human left.  One way is known, and the
\* code does not keep its word there: incall 0 is dropped by send_message when the session is
\* cut off (645-670) and a short resume does not repeat it.
SilentOutsideTheCall == Quiet /\ ~reading /\ inCall => unheard

\* The ways for a session to outlive the watcher's stop().  A grant to an ask that was under
\* way when the room was let go of:
GrantedLate(a) == a \in late

\* another stopper still has it, and stop() does not wait for that one:
EndedElsewhere(a) == \E s \in Stops \ {Release} : stop[s].session = a

\* stop() itself cancelled the release, which had taken the session over or waited for the
\* lock to do so (call_watcher.py:84), and nobody else lets go of the room:
CutShort(a) ==
  /\ stop[Release].pc = "abandoned"
  /\ \/ stop[Release].session = a
     \/ stop[Release].session = None /\ reading /\ cur = a

\* the one close_session went astray, or is still to come after a failed start; the ask had no
\* answer, or was for a call that was read already:
Forgotten(a) == closes[a] > 0 \/ ask[a] \in {"failed", "failing", "dropped"}

\* call_watcher.py:76 promises that stop() closes "every live session that is still open".  It
\* does not: when the release is over, or stop() has cut it short, and the process may end,
\* these sessions are still open at Korsi, but no others.
StopClosesTheRest ==
  stopping /\ stop[Release].pc \in {"idle", "abandoned"} =>
    \A a \in Asks : session[a] = "open" =>
      GrantedLate(a) \/ EndedElsewhere(a) \/ CutShort(a) \/ Forgotten(a)

\* What a stop took over it closes at Korsi, unless the watcher's stop() cut it short.
TeardownCompletes ==
  \A a \in Asks : Stopped(a) ~> closes[a] > 0 \/ stop[Release].pc = "abandoned"

\* A session Korsi granted gets its turn under the lock: it is read, closed, or dropped.
GrantSettles ==
  \A a \in Asks : ask[a] = "granted" ~> ask[a] \in {"dropped", "done"}

Opening   == {a \in Asks : ask[a] \in {"opening", "failing"}}
BeingRead == {a \in Asks : reading /\ cur = a}
Ending    == {a \in Asks : Stopped(a)}

Ledger == INSTANCE SessionLedger
            WITH Sessions <- Asks, opening <- Opening, read <- BeingRead, ending <- Ending

\* start_reading and stop_reading, whoever calls them and however they meet, keep the ledger
\* of SessionLedger: one session at a time is opened or read, each at most once and none after
\* it was ended, and Korsi is told of each end once, after its speech connection is closed
\* (spreed_client.py:436-582).
KeepsLedger == Ledger!Spec

\* spreed_client.py:612-614 says the announcement is reset at the end of a call, or the
\* room would be read once and never again.  The end of a call that is not read, when its
\* participants leave one by one, does not reset it: the next call is never offered.
EveryCallOffered == Unasked /\ Quiet /\ ~closed /\ ~reading /\ call => offered
==============================================================================
