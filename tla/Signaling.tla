------------------------------- MODULE Signaling -------------------------------
(***************************************************************************)
(* The signaling session of one watched room: the websocket to the HPB,    *)
(* the monitor that reads it, the reconnect tasks, close() (all in         *)
(* lib/spreed_client.py), and the watcher that connects a client, replaces *)
(* a defunct one and lets go of it (lib/call_watcher.py).                  *)
(*                                                                         *)
(* What the HPB answers is free.  A client the watcher let go of is        *)
(* followed no further.  A task's slot is used again by the task it        *)
(* creates when it ends.                                                   *)
(***************************************************************************)
CONSTANTS
  Tasks, \* bound: the reconnect tasks alive together
  None

ASSUME SignalingAssumption == None \notin Tasks

VARIABLES
  watcher,   \* the poll loop: between polls, in _watch_room's connect(), or over
  held,      \* the room has a client in _clients
  server,    \* _server: none, open, or lost
  monitor,   \* where signalling_monitor waits
  task,      \* the connect() tasks that reconnect: where each waits
  method,    \* and its ReconnectMethod
  ref,       \* _reconnect_task
  defunct,   \* defunct is set
  closeTask, \* _close_task
  stumbled   \* history: the monitor died of an exception a message caused

monitoring == <<monitor, stumbled>>
connecting == <<server, task, method, ref>>
ending     == <<defunct, closeTask>>
client     == <<monitoring, connecting, ending>>
vars       == <<watcher, held, client>>

TypeOK ==
  /\ watcher \in {"polling", "opening", "hello", "dead"}
  /\ held \in BOOLEAN
  /\ server \in {"none", "open", "lost"}
  /\ monitor \in {"none", "receiving", "answering", "pausing", "ended"}
  /\ task \in [Tasks -> {"idle", "new", "opening", "resuming", "retrying"}]
  /\ method \in [Tasks -> {"short", "full"}]
  /\ ref \in Tasks \cup {None}
  /\ defunct \in BOOLEAN
  /\ closeTask \in {"none", "created", "done"}
  /\ stumbled \in BOOLEAN

\* No client yet; one that is made starts with these values.
Init ==
  /\ watcher = "polling" /\ held = FALSE
  /\ server = "none" /\ monitor = "none" /\ stumbled = FALSE
  /\ task = [t \in Tasks |-> "idle"] /\ method = [t \in Tasks |-> "short"] /\ ref = None
  /\ defunct = FALSE /\ closeTask = "none"

------------------------------------------------------------------------------
(* What several handlers do.                                               *)

ReconnectPending == ref # None /\ task[ref] # "idle"

Become(t, where, how) ==
  /\ task' = [task EXCEPT ![t] = where]
  /\ method' = [method EXCEPT ![t] = how]

\* A task for connect(how), kept in _reconnect_task.
CreateReconnect(t, how) == Become(t, "new", how) /\ ref' = t

\* Mutant: the first reconnect is waited for, however it ended.
ReconnectOnceOnly(t) ==
  IF ref # None
  THEN UNCHANGED <<task, method, ref>>
  ELSE task[t] = "idle" /\ CreateReconnect(t, "short")

\* A lost connection: resume it, unless a reconnect is under way.
ReconnectUnlessPending(t) ==
  IF ReconnectPending
  THEN UNCHANGED <<task, method, ref>>
  ELSE task[t] = "idle" /\ CreateReconnect(t, "short")

\* Mutant: the end of the monitor is logged and nothing else.
CreateNothing == UNCHANGED closeTask

CreateClose == closeTask' = IF closeTask = "none" THEN "created" ELSE closeTask

StopMonitor == monitor' = IF monitor = "none" THEN "none" ELSE "ended"

------------------------------------------------------------------------------
(* The network.                                                            *)

SocketLost ==
  /\ server = "open" /\ watcher # "hello"
  /\ server' = "lost"
  /\ UNCHANGED <<watcher, held, monitoring, task, method, ref, ending>>

\* send_message, from the monitor or from the reading of a call, meets a lost connection.
SendFails(t) ==
  /\ server = "lost" /\ monitor # "none"
  /\ ~ReconnectPending
  /\ ReconnectUnlessPending(t)
  /\ UNCHANGED <<watcher, held, monitoring, server, ending>>

------------------------------------------------------------------------------
(* The watcher: _watch_room, _reconcile and _release_room.                 *)

Watch ==
  /\ watcher = "polling"
  /\ ~held
  /\ held' = TRUE
  /\ watcher' = "opening"
  /\ UNCHANGED client

\* The client is closed and forgotten.
LetGo ==
  /\ held' = FALSE
  /\ watcher' = "polling"
  /\ server' = "none" /\ monitor' = "none" /\ stumbled' = FALSE
  /\ task' = [t \in Tasks |-> "idle"] /\ method' = [t \in Tasks |-> "short"] /\ ref' = None
  /\ defunct' = FALSE /\ closeTask' = "none"

WatchFails ==
  /\ watcher \in {"opening", "hello"}
  /\ LetGo

WatchOpens ==
  /\ watcher = "opening"
  /\ server' = "open"
  /\ watcher' = "hello"
  /\ UNCHANGED <<held, monitoring, task, method, ref, ending>>

\* The HPB greets: the monitor starts, the room is joined and not the call.
WatchSucceeds ==
  /\ watcher = "hello"
  /\ watcher' = "polling"
  /\ monitor' = "receiving"
  /\ defunct' = FALSE
  /\ UNCHANGED <<held, stumbled, connecting, closeTask>>

\* receive() raises, of a timeout or a connection lost (before the hello was sent, or
\* after), and nothing up to _run catches it.
WatchRaises(t) ==
  /\ watcher = "hello"
  /\ watcher' = "dead"
  /\ \/ UNCHANGED connecting
     \/ server' = "lost" /\ UNCHANGED <<task, method, ref>>
     \/ server' = "lost" /\ ReconnectUnlessPending(t)
  /\ UNCHANGED <<held, monitoring, ending>>

\* Mutant: only rooms that left the watchlist are let go of.
KeepDefunct == FALSE

ReplaceDefunct == defunct

\* A poll finds the client defunct; the next watches the room with a new one.
Replace ==
  /\ watcher = "polling"
  /\ held
  /\ ReplaceDefunct
  /\ LetGo

\* The room left the watchlist.
Unwatch ==
  /\ watcher = "polling"
  /\ held
  /\ LetGo

------------------------------------------------------------------------------
(* signalling_monitor.                                                     *)

Offered ==
  /\ monitor = "receiving" /\ server = "open"
  /\ monitor' = "answering"
  /\ UNCHANGED <<watcher, held, stumbled, connecting, ending>>

Resuming == \E t \in Tasks : task[t] = "resuming"

\* The monitor reads the socket there is now.  One that a resume reads already refuses a
\* second recv() with a WebSocketException, like a lost connection.
Listen(t) ==
  \/ monitor' = "receiving" /\ UNCHANGED <<task, method, ref>>
  \/ server = "open" /\ Resuming /\ ReconnectUnlessPending(t) /\ monitor' = "pausing"

Answered(t) ==
  /\ monitor = "answering"
  /\ Listen(t)
  /\ UNCHANGED <<watcher, held, stumbled, server, ending>>

\* The call ends while an offer is answered: stop_reading closes the peer connection, the
\* next call on it raises, and no handler of the monitor catches what handle_offer raises.
Stumbles ==
  /\ monitor = "answering"
  /\ monitor' = "ended"
  /\ stumbled' = TRUE
  /\ UNCHANGED <<watcher, held, connecting, ending>>

\* A candidate that cannot be parsed or added, or a message without a type, raises outside
\* the try as well: the monitor ends, and nothing closes the client.
Chokes ==
  /\ monitor = "receiving" /\ server = "open"
  /\ monitor' = "ended"
  /\ stumbled' = TRUE
  /\ UNCHANGED <<watcher, held, connecting, ending>>

\* A bye: the client closes, the monitor reads on until it is cancelled.
SaysBye ==
  /\ monitor = "receiving" /\ server = "open"
  /\ CreateClose
  /\ UNCHANGED <<watcher, held, monitoring, connecting, defunct>>

\* An error message that is not recoverable, or one that receive() cannot decode.
SaysError ==
  /\ monitor = "receiving" /\ server = "open"
  /\ CreateClose
  /\ monitor' = "ended"
  /\ UNCHANGED <<watcher, held, stumbled, connecting, defunct>>

MonitorLost(t) ==
  /\ monitor = "receiving" /\ server = "lost"
  /\ ReconnectUnlessPending(t)
  /\ monitor' = "pausing"
  /\ UNCHANGED <<watcher, held, stumbled, server, ending>>

\* After its pause.
MonitorWakes(t) ==
  /\ monitor = "pausing"
  /\ server # "none"
  /\ Listen(t)
  /\ UNCHANGED <<watcher, held, stumbled, server, ending>>

------------------------------------------------------------------------------
(* connect() with SHORT_RESUME or FULL_RECONNECT, in a task.               *)

\* A connection that is open is kept, but by a full reconnect.
TaskBegins(t) ==
  /\ task[t] = "new"
  /\ task' = [task EXCEPT ![t] =
       IF server = "open" /\ method[t] = "short" THEN "idle" ELSE "opening"]
  /\ UNCHANGED <<watcher, held, monitoring, server, method, ref, ending>>

\* No connection: after a pause, a full reconnect.
OpenFails(t) ==
  /\ task[t] = "opening"
  /\ CreateReconnect(t, "full")
  /\ UNCHANGED <<watcher, held, monitoring, server, ending>>

ShortOpens(t) ==
  /\ task[t] = "opening" /\ method[t] = "short"
  /\ monitor # "receiving"
  /\ server' = "open"
  /\ ref' = None
  /\ task' = [task EXCEPT ![t] = "resuming"]
  /\ UNCHANGED <<watcher, held, monitoring, method, ending>>

\* The HPB resumes the session; the bridge rejoins the room, and the call it reads.
Resumed(t) ==
  /\ task[t] = "resuming" /\ server = "open"
  /\ task' = [task EXCEPT ![t] = "idle"]
  /\ UNCHANGED <<watcher, held, monitoring, server, method, ref, ending>>

\* The HPB does not know the session any more: a full reconnect, after a pause.
ResumeRefused(t) ==
  /\ task[t] = "resuming" /\ server = "open"
  /\ task' = [task EXCEPT ![t] = "retrying"]
  /\ UNCHANGED <<watcher, held, monitoring, server, method, ref, ending>>

Retry(t) ==
  /\ task[t] = "retrying"
  /\ CreateReconnect(t, "full")
  /\ UNCHANGED <<watcher, held, monitoring, server, ending>>

RateLimited(t) ==
  /\ task[t] = "resuming" /\ server = "open"
  /\ CreateClose
  /\ task' = [task EXCEPT ![t] = "idle"]
  /\ UNCHANGED <<watcher, held, monitoring, server, method, ref, defunct>>

\* receive() raises, of a timeout, a lost connection, or because the monitor reads the socket
\* already: resume once more.
ResumeRaises(t) ==
  /\ task[t] = "resuming"
  /\ CreateReconnect(t, "short")
  /\ UNCHANGED <<watcher, held, monitoring, server, ending>>

\* close() ends the monitor (which asks for a close of its own when it was receiving) and the
\* new socket with it, and nothing is left to greet with.
LoseServer == server' = "none" /\ defunct' = TRUE

FullOpens(t) ==
  /\ task[t] = "opening" /\ method[t] = "full"
  /\ LoseServer
  /\ ref' = None
  /\ task' = [task EXCEPT ![t] = "idle"]
  /\ IF defunct
     THEN UNCHANGED <<monitor, closeTask>>
     ELSE /\ StopMonitor
          /\ IF monitor = "receiving" THEN CreateClose ELSE UNCHANGED closeTask
  /\ UNCHANGED <<watcher, held, stumbled, method>>

\* The close task: the first one closes, any other finds the client defunct.  The bye sent
\* on a lost connection starts a reconnect of its own.
CloseRuns(t) ==
  /\ closeTask = "created"
  /\ closeTask' = "done"
  /\ IF defunct
     THEN UNCHANGED <<monitor, defunct, connecting>>
     ELSE /\ StopMonitor
          /\ defunct' = TRUE
          /\ server' = "none"
          /\ IF server = "lost"
             THEN (task[t] = "idle" \/ t = ref) /\ CreateReconnect(t, "short")
             ELSE /\ task' = [u \in Tasks |-> IF u = ref THEN "idle" ELSE task[u]]
                  /\ ref' = None
                  /\ UNCHANGED method
  /\ UNCHANGED <<watcher, held, stumbled>>

------------------------------------------------------------------------------
Network == SocketLost \/ \E t \in Tasks : SendFails(t)

WatchSteps == WatchFails \/ WatchOpens \/ WatchSucceeds \/ \E t \in Tasks : WatchRaises(t)

Monitoring == Stumbles \/ \E t \in Tasks : Answered(t) \/ MonitorWakes(t) \/ MonitorLost(t)

HPB == Offered \/ Chokes \/ SaysBye \/ SaysError

Connecting(t) ==
  \/ TaskBegins(t) \/ OpenFails(t) \/ ShortOpens(t) \/ FullOpens(t) \/ Retry(t)
  \/ Resumed(t) \/ ResumeRefused(t) \/ RateLimited(t) \/ ResumeRaises(t)

Closing == \E t \in Tasks : CloseRuns(t)

Next == \/ Network \/ Watch \/ WatchSteps \/ Replace \/ Unwatch \/ Monitoring \/ HPB
        \/ \E t \in Tasks : Connecting(t)
        \/ Closing

\* The event loop runs every task, each wait on the network has a timeout, polls go on.
\* Of the HPB it is assumed that one that is dialled again and again answers at last.
Fairness ==
  /\ WF_vars(WatchSteps) /\ WF_vars(Replace)
  /\ WF_vars(Monitoring) /\ WF_vars(Closing)
  /\ \A t \in Tasks : WF_vars(Connecting(t)) /\ SF_vars(ShortOpens(t) \/ FullOpens(t))

Spec == Init /\ [][Next]_vars

FairSpec == Spec /\ Fairness

------------------------------------------------------------------------------
(* Properties.                                                             *)

Deaf == watcher = "polling" /\ held /\ monitor \in {"none", "ended"}

\* A client that no longer hears its room is marked defunct, or about to be, and so is
\* replaced (call_watcher.py:168-173).  Unless an exception killed the monitor that a message
\* caused, an offer (spreed_client.py:1068) or a candidate (1071-1085): nothing ever closes that
\* client, and the room stays unheard until it leaves the watchlist.
DeafIsDefunct == Deaf => defunct \/ closeTask = "created" \/ stumbled

\* A lost connection comes back, or the client is given up: it is never just forgotten.
\* Unless there is nobody to notice: a monitor a message killed, a poll loop that is over.
LossIsNoticed ==
  held /\ server = "lost" ~> server = "open" \/ defunct \/ ~held \/ stumbled \/ watcher = "dead"

\* A client that gave up is replaced, while there is a poll loop to do it.
DefunctIsReplaced == held /\ defunct ~> ~held \/ watcher = "dead"

\* call_watcher.py:191 says that a room that could not be watched is tried again on the
\* next poll.  A connect() that hears nothing raises, and there is no next poll.
WatcherSurvives == watcher # "dead"
==============================================================================
