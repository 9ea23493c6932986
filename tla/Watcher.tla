------------------------------- MODULE Watcher -------------------------------
(***************************************************************************)
(* Which rooms the bridge watches, and for how long: the poll loop of the  *)
(* call watcher over several rooms (call_watcher.py _run, _reconcile,      *)
(* _watch_room, _release_room), with its backoff, inside the life of the   *)
(* process that runs it (main.py lifespan and enabled_handler, service.py  *)
(* start and stop).                                                        *)
(*                                                                         *)
(* How one client connects, resumes and dies is Signaling's, and how a     *)
(* reading is stopped RoomReading's: here a connect succeeds, fails or     *)
(* raises, and a live client may become defunct at any time.               *)
(***************************************************************************)
EXTENDS FiniteSets, Naturals, Settings

CONSTANTS
  Rooms,        \* room tokens
  Floor,        \* WATCHLIST_ERROR_BACKOFF_SECONDS
  Ceiling,      \* WATCHLIST_MAX_BACKOFF_SECONDS
  Poll,         \* poll_interval_seconds
  Envs,         \* bound: the environments the container may be given
  MaxFailures,  \* bound: failed polls in a row that are told apart
  None

\* The floor, doubled k times.
Doubled[k \in Nat] == IF k = 0 THEN Floor ELSE 2 * Doubled[k - 1]

ASSUME WatcherAssumption ==
  /\ IsFiniteSet(Rooms) /\ None \notin Rooms
  /\ Floor \in Nat \ {0} /\ Ceiling \in Nat /\ Floor <= Ceiling
  /\ Poll \in Nat /\ MaxFailures \in Nat
  /\ Envs \subseteq Environments /\ Envs # {}

\* As many failures are told apart as bring the backoff to its ceiling.
ASSUME BoundAssumption == MaxFailures # 0 /\ Ceiling <= Doubled[MaxFailures - 1]

VARIABLES
  korsi,      \* korsi-api: the rooms of the watchlist, and whether live assistance is enabled
  nextcloud,  \* Nextcloud: whether the app is enabled
  process,    \* the container: down, up, or stopping
  Enabled,    \* ENABLED, the event that /enabled answers with
  env,        \* the environment of the process
  enabling,   \* enabled_handler(True) is registering the admin page
  service,    \* SERVICE._watcher is not None
  loop,       \* where _run is: its step, its part of _reconcile, the room at work
  wanted,     \* the rooms of the last watchlist
  todo,       \* rooms this part of _reconcile has still to go through
  failed,     \* history: rooms that could not be watched in this round
  clients,    \* _clients, and how each is
  open,       \* clients of a room that were created and not yet closed
  backoff, delay,
  failures, auth \* history: failed polls since the last watchlist; was there an auth failure

world    == <<korsi, nextcloud>>
app      == <<process, Enabled, env, enabling, service>>
round    == <<wanted, todo, failed>>
held     == <<clients, open>>
clock    == <<backoff, delay, failures, auth>>
vars     == <<world, app, loop, round, held, clock>>

Lesser(a, b) == IF a <= b THEN a ELSE b

Off == [pc |-> "off", part |-> "none", room |-> None, again |-> FALSE]

TypeOK ==
  /\ korsi \in [rooms : SUBSET Rooms, enabled : BOOLEAN]
  /\ nextcloud \in BOOLEAN /\ Enabled \in BOOLEAN /\ env \in Envs
  /\ enabling \in BOOLEAN /\ service \in BOOLEAN
  /\ process \in {"down", "up", "stopping"}
  /\ loop \in [pc : {"off", "polling", "next", "connecting", "releasing", "sleeping", "dead"},
               part : {"none", "adding", "removing", "replacing"},
               room : Rooms \cup {None}, again : BOOLEAN]
  /\ wanted \subseteq Rooms /\ todo \subseteq Rooms /\ failed \subseteq Rooms
  /\ clients \in [Rooms -> {"none", "connecting", "live", "defunct"}]
  /\ open \in [Rooms -> Nat]
  /\ backoff \in Floor..Ceiling
  /\ delay \in {0, Poll} \cup Floor..Ceiling
  /\ failures \in 0..MaxFailures /\ auth \in BOOLEAN

Nothing == [r \in Rooms |-> "none"]

Init ==
  /\ korsi = [rooms |-> {}, enabled |-> TRUE]
  /\ nextcloud = FALSE
  /\ process = "down" /\ Enabled = FALSE /\ env \in Envs
  /\ enabling = FALSE /\ service = FALSE
  /\ loop = Off
  /\ wanted = {} /\ todo = {} /\ failed = {}
  /\ clients = Nothing /\ open = [r \in Rooms |-> 0]
  /\ backoff = Floor /\ delay = 0 /\ failures = 0 /\ auth = FALSE

Held == {r \in Rooms : clients[r] # "none"}

------------------------------------------------------------------------------
(* Korsi and the rooms.                                                    *)

\* A case is linked to a room or unlinked, or live assistance is switched.
KorsiChanges ==
  /\ \/ \E r \in Rooms : korsi' = [korsi EXCEPT !.rooms = IF r \in @ THEN @ \ {r} ELSE @ \cup {r}]
     \/ korsi' = [korsi EXCEPT !.enabled = ~@]
  /\ UNCHANGED <<nextcloud, app, loop, round, held, clock>>

\* The client closes by itself and sets defunct (Signaling).
ClientDies(r) ==
  /\ clients[r] = "live"
  /\ clients' = [clients EXCEPT ![r] = "defunct"]
  /\ UNCHANGED <<world, app, loop, round, open, clock>>

------------------------------------------------------------------------------
(* The poll loop.                                                          *)

Moves == process = "up" /\ UNCHANGED <<world, app>>

Begin(part, rooms) ==
  /\ loop' = [Off EXCEPT !.pc = "next", !.part = part]
  /\ todo' = rooms

Sleep(seconds) ==
  /\ loop' = [Off EXCEPT !.pc = "sleeping"]
  /\ delay' = seconds

\* Mutant: a success leaves the backoff where the failures brought it.
KeepBackoff == UNCHANGED backoff

ResetBackoff == backoff' = Floor

\* The rooms Korsi named; none when live assistance is disabled.
Named == IF korsi.enabled THEN korsi.rooms ELSE {}

\* The watchlist has come, and _reconcile begins with the rooms that are new.
PollSucceeds ==
  /\ Moves
  /\ loop.pc = "polling"
  /\ wanted' = Named
  /\ failed' = {}
  /\ ResetBackoff
  /\ failures' = 0 /\ auth' = FALSE
  /\ Begin("adding", wanted' \ Held)
  /\ UNCHANGED <<held, delay>>

\* The credentials are rejected: to the ceiling at once.
BackOff(isAuthFailure) ==
  LET b == IF isAuthFailure THEN Ceiling ELSE backoff IN
  /\ Sleep(b)
  /\ backoff' = Lesser(2 * b, Ceiling)

PollFails(isAuthFailure) ==
  /\ Moves
  /\ loop.pc = "polling"
  /\ BackOff(isAuthFailure)
  /\ failures' = Lesser(failures + 1, MaxFailures)
  /\ auth' = (auth \/ isAuthFailure)
  /\ UNCHANGED <<round, held>>

\* An answer that does not validate, or anything else that is no KorsiApiError.
LoopDies == loop' = [Off EXCEPT !.pc = "dead"]

PollRaises ==
  /\ Moves
  /\ loop.pc = "polling"
  /\ LoopDies
  /\ UNCHANGED <<round, held, clock>>

Wakes ==
  /\ Moves
  /\ loop.pc = "sleeping"
  /\ loop' = [Off EXCEPT !.pc = "polling"]
  /\ UNCHANGED <<round, held, clock>>

\* _watch_room: the client is in _clients before it connects.  closed: how many clients of
\* the room were closed on the way here.
Watch(r, closed) ==
  /\ clients' = [clients EXCEPT ![r] = "connecting"]
  /\ open' = [open EXCEPT ![r] = @ + 1 - closed]
  /\ loop' = [loop EXCEPT !.pc = "connecting", !.room = r, !.again = FALSE]

\* _release_room: out of _clients first, then stopped and closed.
Release(r, again) ==
  /\ clients' = [clients EXCEPT ![r] = "none"]
  /\ loop' = [loop EXCEPT !.pc = "releasing", !.room = r, !.again = again]
  /\ UNCHANGED open

NextRoom(part, r) ==
  /\ Moves
  /\ loop.pc = "next" /\ loop.part = part
  /\ r \in todo
  /\ todo' = todo \ {r}
  /\ UNCHANGED <<wanted, failed, clock>>

Adds(r) == NextRoom("adding", r) /\ Watch(r, 0)

Removes(r) == NextRoom("removing", r) /\ Release(r, FALSE)

\* Mutant: the new client takes the place of the defunct one, which nobody closes.
ReplaceInPlace(r) == Watch(r, 0)

\* A defunct client is released, and its room watched again if it is wanted.
Replace(r) == Release(r, r \in wanted)

Replaces(r) == NextRoom("replacing", r) /\ Replace(r)

ConnectSucceeds(r) ==
  /\ Moves
  /\ loop.pc = "connecting" /\ loop.room = r
  /\ clients' = [clients EXCEPT ![r] = "live"]
  /\ loop' = [loop EXCEPT !.pc = "next", !.room = None]
  /\ UNCHANGED <<round, open, clock>>

ConnectFails(r) ==
  /\ Moves
  /\ loop.pc = "connecting" /\ loop.room = r
  /\ Release(r, FALSE)
  /\ failed' = failed \cup {r}
  /\ UNCHANGED <<wanted, todo, clock>>

\* A timeout, a closed connection or a room that is not in the settings raises through _run;
\* the client stays in _clients.
ConnectRaises ==
  /\ Moves
  /\ loop.pc = "connecting"
  /\ LoopDies
  /\ UNCHANGED <<round, held, clock>>

\* stop_reading and close are over, whatever they raised.
Released ==
  /\ Moves
  /\ loop.pc = "releasing"
  /\ LET r == loop.room IN
     IF loop.again
     THEN Watch(r, 1)
     ELSE /\ open' = [open EXCEPT ![r] = @ - 1]
          /\ loop' = [loop EXCEPT !.pc = "next", !.room = None]
          /\ UNCHANGED clients
  /\ UNCHANGED <<round, clock>>

\* Mutant: rooms that are no longer wanted are kept.
RemoveNothing == {}

Unwanted == Held \ wanted

\* Mutant: a client that gave up is waited for.
ReplaceNothing == {}

Defunct == {r \in Rooms : clients[r] = "defunct"}

\* One part of _reconcile is over; after the last the loop sleeps until the next poll.
NextPart ==
  /\ Moves
  /\ loop.pc = "next" /\ todo = {}
  /\ \/ loop.part = "adding" /\ Begin("removing", Unwanted) /\ UNCHANGED delay
     \/ loop.part = "removing" /\ Begin("replacing", Defunct) /\ UNCHANGED delay
     \/ loop.part = "replacing" /\ Sleep(Poll) /\ UNCHANGED todo
  /\ UNCHANGED <<wanted, failed, held, backoff, failures, auth>>

------------------------------------------------------------------------------
(* The process.                                                            *)

\* lifespan: the app starts watching when Nextcloud has it enabled, the signaling settings
\* could be read in one of two attempts and a KorsiClient can be built.
Starts ==
  /\ process = "down"
  /\ process' = "up"
  /\ Enabled' = nextcloud
  /\ env' \in Envs
  /\ service' \in {FALSE, nextcloud /\ HpbConfigured(env') /\ ClientBuilds(env')}
  /\ enabling' = FALSE
  /\ loop' = IF service' THEN [Off EXCEPT !.pc = "polling"] ELSE Off
  /\ backoff' = Floor /\ delay' = 0 /\ failures' = 0 /\ auth' = FALSE
  /\ UNCHANGED <<world, round, held>>

\* enabled_handler(True): refused while the Korsi settings have a problem, or when the
\* signaling settings cannot be read; but then Enabled is set already.  Neither starts the
\* service.  The settings it keeps in SERVICE only the status reads, so they are no variable.
EnableBegins ==
  /\ process = "up" /\ ~enabling
  /\ check_korsi_env_vars(env) = {}
  /\ Enabled' = TRUE
  /\ enabling' = TRUE
  /\ UNCHANGED <<world, process, env, service, loop, round, held, clock>>

EnableEnds(settings) ==
  /\ process = "up" /\ enabling
  /\ settings => HpbConfigured(env)
  /\ enabling' = FALSE
  /\ nextcloud' = (nextcloud \/ settings)
  /\ UNCHANGED <<korsi, process, Enabled, env, service, loop, round, held, clock>>

\* enabled_handler(False)
Disables ==
  /\ process = "up"
  /\ Enabled' = FALSE
  /\ nextcloud' = FALSE
  /\ UNCHANGED <<korsi, process, env, enabling, service, loop, round, held, clock>>

\* stop: the loop is cancelled wherever it waits.  What it was releasing is dropped; what it
\* was connecting is in _clients.  The rooms are then closed one by one.
Stops ==
  /\ process = "up"
  /\ process' = "stopping"
  /\ loop' = Off
  /\ todo' = Held
  /\ clients' = Nothing
  /\ enabling' = FALSE
  /\ UNCHANGED <<world, Enabled, env, service, wanted, failed, open, clock>>

StopCloses(r) ==
  /\ process = "stopping"
  /\ r \in todo
  /\ todo' = todo \ {r}
  /\ open' = [open EXCEPT ![r] = @ - 1]
  /\ UNCHANGED <<world, app, loop, wanted, failed, clients, clock>>

Gone ==
  /\ process' = "down" /\ Enabled' = FALSE /\ UNCHANGED env
  /\ enabling' = FALSE /\ service' = FALSE
  /\ loop' = Off
  /\ wanted' = {} /\ todo' = {} /\ failed' = {}
  /\ clients' = Nothing /\ open' = [r \in Rooms |-> 0]
  /\ backoff' = Floor /\ delay' = 0 /\ failures' = 0 /\ auth' = FALSE
  /\ UNCHANGED world

Exits == process = "stopping" /\ todo = {} /\ Gone

IsKilled == process # "down" /\ Gone

------------------------------------------------------------------------------

\* What the loop does without waiting for anybody outside the bridge's own timeouts.
Reconcile(r) == Adds(r) \/ Removes(r) \/ Replaces(r)

Connects(r) == ConnectSucceeds(r) \/ ConnectFails(r) \/ ConnectRaises

Polls == PollSucceeds \/ (\E a \in BOOLEAN : PollFails(a)) \/ PollRaises

Loop == Polls \/ Wakes \/ NextPart \/ Released \/ \E r \in Rooms : Reconcile(r) \/ Connects(r)

Stop == Stops \/ (\E r \in Rooms : StopCloses(r)) \/ Exits

Next ==
  \/ KorsiChanges
  \/ \E r \in Rooms : ClientDies(r)
  \/ Loop
  \/ Starts \/ EnableBegins \/ (\E s \in BOOLEAN : EnableEnds(s)) \/ Disables
  \/ Stop \/ IsKilled

\* The loop goes on; Korsi answers one of infinitely many polls, and a room's HPB one of
\* infinitely many connects.
Fairness ==
  /\ WF_vars(Loop)
  /\ SF_vars(PollSucceeds)
  /\ \A r \in Rooms : SF_vars(ConnectSucceeds(r))

Spec == Init /\ [][Next]_vars /\ Fairness

------------------------------------------------------------------------------
(* Properties.                                                             *)

\* call_watcher.py:154: "Hold a signaling session for exactly the rooms Korsi named".
\* Whenever the loop sleeps, and however the polls since have failed, the rooms in _clients
\* are those of the last watchlist but for the ones that could not be watched.
HeldAreWanted == loop.pc = "sleeping" => Held = wanted \ failed

\* While the process is up a room has at most one client that is not closed, and somebody
\* holds it: _clients, or the release that is closing it.  Two would hear each call twice.
OneSessionPerRoom ==
  \A r \in Rooms :
    /\ open[r] <= 1
    /\ (process = "up" /\ open[r] = 1) =>
         (r \in Held \/ (loop.pc = "releasing" /\ loop.room = r))

\* How long the loop sleeps is a matter of the failures since the last watchlist alone: it
\* doubles from the floor to the ceiling, and stays at the ceiling once the credentials were
\* rejected (call_watcher.py:129-147).
DelayFollowsFailures ==
  loop.pc = "sleeping" =>
    delay = IF failures = 0 THEN Poll
            ELSE IF auth THEN Ceiling
            ELSE Lesser(Doubled[failures - 1], Ceiling)

\* A room that Korsi names and goes on naming is watched in the end, also after its client
\* became defunct or could not connect, and whatever Nextcloud has enabled or disabled since
\* the process began to watch; but not once the poll loop is dead.
WatchedAtLast ==
  \A r \in Rooms :
    service /\ r \in Named
      ~> clients[r] = "live" \/ r \notin Named \/ loop.pc = "dead" \/ process # "up"
==============================================================================
