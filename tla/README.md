# Korsi live bridge: TLA+ models, checks and proofs

The bridge is a Nextcloud ExApp (Python, one asyncio event loop, `src/ex_app/lib`). It watches the
Talk rooms Korsi names, notices calls in them, asks Korsi whether to read a call, and if so joins it,
mixes the participants' audio, streams the mix to a speech provider, and posts the confirmed text to
Korsi in segments.

This directory holds TLA+ modules that model its core, TLC configurations that check them on small
instances, and TLAPS proofs about every component that keeps state and about the pure functions.
`PROJECT.json` maps every definition to the lines it models and lists runs, mutants, hazards, findings
and theorems.

All concurrency in the bridge is the interleaving of tasks at their awaits. An action is therefore
what a task does from one await to the next, and everything else may happen between two actions.
An `asyncio.Lock` that is free and has no waiters is taken without an await, so taking it is part of
the action before it.

## 1. Inventory

| Component (file) | State | Operations | Correct when |
|---|---|---|---|
| Segmenter (`segmenter.py`) | `_sequence`, `_cursor_ms`, `_carried`, `_interval`, `_stopping`, its task | sleep, finalize, cut and post; `stop(flush)` | text stored once, in order, without a hole; numbers contiguous; times tile the call; stop ends |
| Reading a call (`spreed_client.py` 436-623, `call_watcher.py` 213-282) | `reading`, `_reading_lock`, `_session`, `_speech`, `_mixer`, `_segmenter`, `_call_announced`, `_publishers_in_call`; `_clients`, `_declined_until`, `_stopping` | participants updates, `start_reading`, `stop_reading`, `_on_call_started`, `_on_call_ended`, release of a room, `stop` | one speech connection per call; every session closed, once; every call offered |
| Speech connection (`soniox_stream.py`) | `_ws`, `_receiver`, `_sender`, `_reconnects`, `_closing`, `_final_parts`, `failed` | receive, reconnect, renew, `drain_text`, `finalize`, `aclose` | confirmed text kept; no stray connection; failures reported; budget; closing ends |
| Korsi client (`korsi_client.py`) | `_token`, `_token_expires_at`, `_token_lock` | `_bearer`, `forget_token`, `_request`, five calls | tokens live while used; one mint at a time; one retry; answers classified |
| Signaling session (`spreed_client.py` 158-432, 644-971, 1087-1094) | `_server`, `_monitor`, `_reconnect_task`, `_close_task`, `defunct` | `connect` (new, short resume, full reconnect), monitor, `send_message`, `close` | a lost connection is resumed or the client given up; one given up is replaced |
| Offers and peer connections (`spreed_client.py` 1096-1244) | `peer_connections` | `handle_offer`, `on_track`, candidates | every publisher of a call that is read is heard |
| Audio mixer (`audio_mixer.py`) | buffers, pullers, the clock, `_out`, `_closed` | `attach`, `detach`, `read`, `close`, a mix every 20 ms | every publisher in order, at most once, nothing lost below the limits |
| Call watcher (`call_watcher.py` 68-209) | `_clients`, `_task`, poll interval, backoff | poll, reconcile, watch, release, replace, stop | exactly the named rooms are watched, for ever |
| Application (`service.py`, `main.py`) | `SERVICE`, `ENABLED` | lifespan, enabled handler | watches while enabled |
| Settings (`utils.py`) | the environment | `check_korsi_env_vars`, `get_hpb_settings` | what the enable handler accepts can be started with |
| ICE configuration (`ice_config.py`) | the environment | `resolve_ice_servers`, `describe` | the override moves the request and never the credential; the description is of what is used |
| Service key (`service_key.py`) | none | decode, repair, name the fault | a key comes back from any damage of its line breaks |
| Diagnostics (`diagnostics.py`) | none | self-test, log tail | each step reported once; ok means everything; the newest lines |
| Types, logging, transport, admin page | none or constant | shapes, formatting, a page | by their input alone |

How they interact: the watcher creates a `SpreedClient` per room and polls Korsi. The client's
monitor announces the start and the end of a call to the watcher through callbacks, each in a task of
its own. The watcher asks Korsi for a session and calls `start_reading`, which wires
mixer -> speech connection -> segmenter -> Korsi client by function references (`read`, `drain_text`,
`finalize`, `append_segment`). The segmenter calls back (`_on_session_gone`) into `stop_reading`, the
same method the end of the call and the release of the room call. Speech connection, segmenter,
watchlist poll and asks share one token cache.

What is hard: stoppers that meet (end of call, session gone, release, shutdown); answers used after
an await that changed everything; requests whose answer is lost; a task that cancels itself;
reconnects inside reconnects; two readers of one socket; overflow of buffers cut in part. The hazards
in `PROJECT.json` list each at its line.

## 2. Modules

| Module | Models | Role |
|---|---|---|
| `Texts` | words as numbers, texts as sequences | operators |
| `Transcript` | what the bridge promises of a transcript | abstract specification |
| `Segmenter` | `segmenter.py`, with the stream's buffer and korsi-api's rows as it sees them | component; implements `Transcript` |
| `SegmenterProofs` | | theorems about `Segmenter` |
| `SessionLedger` | what the bridge promises of the live sessions of a room | abstract specification |
| `RoomReading` | the reading of the calls of one room, from signaling to Korsi | composition of watcher, client and session; implements `SessionLedger` |
| `RoomProofs` | | theorems about `RoomReading` |
| `SpeechStream` | `soniox_stream.py` and the part of `stop_reading` that uses it | component |
| `StreamProofs` | | theorems about `SpeechStream` |
| `TokenCache` | `_bearer`, `forget_token`, `_request` | component |
| `TokenCacheProofs` | | theorems about `TokenCache` |
| `Signaling` | `connect`, monitor, `close`, and the watcher that replaces a defunct client | component |
| `SignalingProofs` | | theorems about `Signaling` |
| `Mixer` | `audio_mixer.py` | component |
| `MixerProofs` | | theorems about `Mixer` |
| `AudioPath` | `handle_offer`, `on_track`, the peer connections and `attach`, against `start_reading`, `stop_reading` and `close` | composition of client, peer connections and mixer |
| `AudioProofs` | | theorems about `AudioPath` |
| `Watcher` | `_run`, `_reconcile` over several rooms, the backoff, `lifespan`, `enabled_handler`, `Application` | component |
| `Settings`, `IceConfig`, `SelfTest` | the environment's checks, the ICE servers, `self_test` | operators |
| `LogTail` | `tail_log` | operators, also checked over bounded inputs |
| `WatcherProofs` | | theorems about `Watcher` and about these four |
| `ServiceKey` | `service_key.py` | operators, checked over bounded inputs |
| `MCSegmenter`, `MCMixer`, `MCWatcher` | | constants for TLC; `MCWatcher` also checks the operators |

Each module names its variables after the attributes they model and starts with one block per actor.
Variables marked *history* are read by properties only. An operator commented *Mutant* is a plausible
bug that replaces the definition after it, to show that a property would notice; no specification
uses it.

**Segmenter.** `pc` is the await the segmenter's task is in. `PostOnce` is `_take_text` and
`append_segment` up to its answer; `Accepted`, `Refused`, `Unreachable`, `TimesOut`, `Unreadable`
and `SessionGone` are the ways it comes back, as `_request` and `_problem_to_error` tell them apart.
A request stays in `wire` after its client gave up and may reach Korsi later, in any order. Korsi
(external) stores the first request of a number and acknowledges any other, which is what the module
docstring of `segmenter.py` expects of it. `Stop` cancels the task wherever it waits. The self-stop
(`_on_session_gone` -> `stop_reading` -> `stop`, which cancels and awaits its own task, an error that
`suppress` absorbs) is `SessionGone`: it goes on to the flush.

**RoomReading.** One client from its connection to the end of the process. `ask[a]` follows an
`_on_call_started` task and the session Korsi opens for it; `stop[s]` follows a `stop_reading` with
the session it took over. The segmenter's own stop has the name of its session. A stopper that
cancels the segmenter's task cancels with it a stop that waits for `_reading_lock` in that task
(`TakenOver`). What the bridge tells the HPB goes over a connection that may be lost at any time
(`ConnectionLost`): `send_message` then drops it, `incall: 0` as well (`LeaveCall`), and a short resume
(`SessionResumed`) finds the session in the call if it was in the call. `unheard` is history: it says that
this has happened since the bridge last joined a call. The reconnects themselves are `Signaling`'s. That
the HPB ends a session that stays cut off is left out, so the bridge may stay in the call for longer here
than there. The monitor's offers are left out. Waiters of the lock are served in any order; the
real lock is first come, first served, so the model has more behaviours, not fewer.
`SessionLedger` says nothing of tasks or locks: it has the one session being opened, the one that is
read and those being ended. `Ledger` maps to them the asks whose `start_reading` is under way or
failed, `cur`, and the sessions that stops have taken over.

**SpeechStream.** `receiver` is the await the receiver is in; a message is one of the kinds the code
tells apart. `caller` is how far `stop_reading` is. When it is past "reading", `_session` is None and
a renewal raises (`OldClosed`). The provider (external) may say, drop and
finish at any time, also when nobody asked: the receiver returns on a `finished` message without setting
`failed` (`Finished`), and `dismissed` is the history of that.

**TokenCache.** Requests that begin again for ever, with a clock. What waits on the network has a
deadline (`Timeout`), and the clock does not pass it. The lock is first come, first served.

**Signaling.** The tasks that may hold the client's one socket: the watcher in its first `connect`,
the monitor, reconnect tasks and the close task. When the monitor begins to read a socket that a resume
is reading (`Listen`), websockets refuses the second `recv()` with a ConcurrencyError, which is a
WebSocketException: like a lost connection, it creates a resume unless one is pending, and the monitor
tries again after its pause. The other way round, the resume begins again (`ResumeRaises`). Four things
end a monitor: a close cancels it, an error message or one that cannot be decoded makes it ask for a close
(`SaysError`), and an offer (`Stumbles`) or a candidate or malformed message (`Chokes`) raises outside its
`try`. The last two close nothing; `stumbled` records them. The answers of the HPB are free. A full reconnect is
one action, `FullOpens`, because `close` ends the connection that was just opened and what follows
cannot succeed.

**Mixer.** A sample is its number, with the number of the frame it came in, so that frames dropped
whole and taken in part can be told apart. A chunk keeps what each publisher put into it: the int32
sum, clipping, resampling and pace are abstracted, so nothing here speaks of amplitudes.

**AudioPath.** `monitor` is the await the monitor is in: it handles one message after the other, so an
offer being answered (`remote`, `answer`) holds up the next update. A connection is `live`, `failing`
(its handler is scheduled) or `stray` (at work, and taken out of the table by the handler of another
connection's failure). `teardown` is `stop_reading` after its lock: it takes the connections that are
in the table then, also those of a reading begun meanwhile. Why a reading begins and ends is
`RoomReading`'s; here it may at any time. `Closes` is one step, where `close()` awaits the connections one
after the other while it iterates over the table (840-851): an entry that is added or removed meanwhile
raises a RuntimeError, `suppress` absorbs it, and the rest is neither closed nor taken out of the table.
The model does not have that outcome. `spoiled` is history: whose connection, offer or entry was
lost in this reading.

**Watcher.** `loop` is the await of `_run` with its place in `_reconcile`: three parts (new rooms,
unwanted rooms, defunct clients), each over the rooms that were so when the part began (`todo`), so
that a client that dies meanwhile waits for the next round as in the code. `open` counts the clients
of a room that were made and not closed. `Stops` cancels the loop wherever it waits. The
environment is a record of `Settings`; `Starts` is `lifespan` with `Application.start`, which succeeds
only if the settings are there and a `KorsiClient` can be built (`ClientBuilds`). How one client
connects and dies is `Signaling`'s and how a reading ends `RoomReading`'s: here both are single steps.
`SERVICE.hpb_settings`, which the enable handler renews, is read by the status only and left out.

**The pure functions.** `Settings`, `IceConfig` and `SelfTest` are over sets, so their theorems
are for every environment, offer and answer. In `ServiceKey` a key is a sequence of characters of which
few are told apart; `LogTail` reads lines into a bounded deque, one after the other, as a recursive
function of how many were read. Its lines are records or no JSON at all: on a line that is JSON but no
object (a number, a list) `tail_log` raises, which is left out.

## 3. Runs

| Run | Module, bounds | Distinct states | Shows |
|---|---|---|---|
| `segmenter` | `MCSegmenter`: 3 words, clock to 3, intervals {1, 2} | about 193,000 | text, numbers and times through every failure, cancel and late arrival; `stop` ends; `Transcript` is implemented |
| `segmenter_retry` | the same | violation | a retry after a lost answer loses text |
| `reading` | `RoomReading`: 2 calls, 1 call-ended task | about 445,000 | ownership of speech connections and sessions, what `stop` leaves open, in a call only when it is read or the HPB did not hear the leave, teardown and grants end; `SessionLedger` is implemented |
| `reading_next_call` | 2 calls, 2 call-ended tasks | violation | a call after an unread one is not offered |
| `stream` | `SpeechStream`: 2 reconnects, 3 words, 2 unread messages | about 82,000 | text, connections, budget, failure, closing |
| `tokens` | `TokenCache`: 2 requests, 3 tokens, life 5, margin 2, timeout 2, clock to 7 | about 434,000 | no expiry in flight, no rejected token again, one mint at a time |
| `signaling` | `Signaling`: 3 reconnect tasks | about 36,000 | a deaf client is defunct, a defunct one replaced, a lost connection noticed |
| `signaling_watch` | 2 reconnect tasks | violation | the poll loop dies of a silent HPB |
| `mixer` | `Mixer`: 2 publishers, 5 samples, frames of 1 and 3, chunks of 2, limits of 2 chunks | about 58,000 | order, no loss, exact counter, nothing stuck |
| `audio` | `AudioPath`: 1 publisher, 2 connections, 2 messages | about 653,000 | whoever is in the call is in the mix or on the way there; no connection forgotten |
| `audio_stale` | 1 message | violation | a connection outlives its call and keeps a participant out of the next |
| `watcher` | `MCWatcher`: 2 rooms, backoff 2 to 4, 2 environments | about 62,000 | the rooms held, one client each, the backoff, and that a named room is watched in the end |

Why the bounds are enough: three words let a failed post carry one, a retry add one and a third
follow; three ticks let an interval be zero-wide and an interval follow another. Two calls are the
session being stopped and the next one, two stoppers more than the session's own segmenter are the
release and the end of the call. Two reconnects let the budget be spent by a renewal and a failure,
and the third attempt give up. A life of 5 with a margin of 2 leaves tokens fresh, stale and dead
within the clock, and three mints allow a rejection, a retry and a race with another request. Three
reconnect tasks are the one in `_reconnect_task`, the one it replaced, which may be resuming, and the one
the monitor creates when that resume reads its socket. Frames of 1 and 3 with a chunk
of 2 cut frames in part, and 3+1+1 samples overflow a limit of 4; three mixes overflow the queue.
One publisher is enough for `audio`, since connections, buffers and requests are kept by publisher and
only the monitor is shared; two connections are the one of the reading before and the new one, or one
that fails and the one in its place. Two rooms let one be released, replaced or fail while the other
waits; a backoff from 2 to 4 is once doubled and once capped, and failures are counted as far as it
takes to reach the ceiling (`BoundAssumption`); the environments are one in order and one
whose key cannot be loaded. The assumptions of `MCWatcher` (evaluated by TLC at the start of the run)
take every key of up to four characters with every damage, every file of up to four lines, and every
offer of up to one STUN and two TURN servers with every override.

`CHECK_DEADLOCK FALSE` in every run but `watcher`: each system really stops (the segmenter stopped, the
stream closed, the client closed), or its bounded inputs are spent. The process of `Watcher` can always
be started again.

Each module has a type invariant `TypeOK`. The runs do not list it: all are proved.

Violation runs check what a comment says of the code, against the model of the code. Each is explained
under "findings". Properties of passing runs name the exceptions that are known: `NoUnexplainedHole`
(unanswered or cancelled posts), `DeafIsDefunct` and `LossIsNoticed` (a monitor that died of an offer or
a candidate), `EndIsReported` (a `finished` message), `SilentOutsideTheCall` (an `incall: 0` that the HPB
did not hear); `EverySessionIsOwned` names the known ways to leave a session to Korsi's sweep, and
`StopClosesTheRest` those to do so for good: call_watcher.py:76 promises that `stop()` closes every live
session, and it does not close one granted late (`GrantedLate`), one that another stopper still has
(`EndedElsewhere`), that of a release which `stop()` itself cancelled at call_watcher.py:84 (`CutShort`),
and one whose single close went astray or was never due (`Forgotten`). The property holds at the end of
the release, also of one that was cut short, and says that there is no fifth kind. `EveryoneIsMixed`
names those to lose a participant (a lost offer, a failed connection, a connection left from the call before or
taken by its teardown, a dead monitor).

**Fairness.** Weak fairness of the steps a task takes by itself, in `RoomReading` only of a start that
was granted and of a teardown that was begun: the event loop runs what is ready, and each wait on the
network has a timeout (`REQUEST_TIMEOUT_SECONDS`, `SONIOX_CONNECT_TIMEOUT`, the finalize grace,
`MSG_RECEIVE_TIMEOUT`). No fairness for participants, Korsi's or the provider's decisions, operators, or
the loss of connections. One assumption is about the environment and not the code: in `Signaling`, an HPB
that is dialled again and again answers at last (strong fairness of `ShortOpens \/ FullOpens`); only
`LossIsNoticed` needs it, since the bridge dials without a limit. The same holds of `Watcher`: Korsi
answers one of infinitely many polls and a room's HPB one of infinitely many connects (strong fairness of
`PollSucceeds` and `ConnectSucceeds`), which `WatchedAtLast` needs, for the loop polls and connects
without a limit. In `AudioPath` a request is answered or lost (weak fairness).

## 4. Proofs

`SegmenterProofs` proves about `Segmenter`, for every interval set, first interval and bound that
satisfy `SegmenterAssumption` (positive intervals, natural bounds):

- `TypeCorrect`: `Spec => []TypeOK`.
- `Inductive`: `Spec => []IInv`. The properties are not inductive: whether a request may be stored
  depends on where each word is. `IInv` says that the words held (`carried`, the request under way,
  `parts`) follow in order those stored; that each request in the wire has the current number or an
  old one, with a text and an interval that its number allows; that `rows` runs up to the counter or one
  ahead; and where the cursor is. It has a lemma per group of actions: `PostOnceIInv`, `StoreIInv`
  (the long one: a request, possibly late, arrives), `AcceptedIInv`, `StopIInv`, and `IdleIInv`,
  `HearIInv`, `ArriveIInv`, `LetGoIInv` for the rest.
- `Contiguous`, `SpokenOrder`, `Disjoint`, `Tiling`, `Lossless`: the safety properties of the run
  `segmenter`, from `IInv`.
- `Refinement`: `Spec => Publishes`. Each step stores at most one row, and `StoreRefines` shows from
  `IInv` that storing it is `Transcript`'s `Publish`; the other steps are `Hear`, `Falter` or a stutter.

The lemmas on texts (`ConcatText`, `ConcatOrdered`, `ConcatWithin`, `AppendText`) are shared. TLC
checked `IInv` as an invariant before it was proved.

`TokenCacheProofs` proves about `TokenCache`, for every set of requests and every timeout, margin and
life that satisfy `TokenAssumption` (a timeout no longer than the margin, and a life of more than two
timeouts: shorter-lived tokens would expire between the mint and the request that is sent with them):

- `TypeCorrect`: `Spec => []TypeOK`.
- `Inductive`: `Spec => []IInv`. `LockInv` says that who mints holds the lock; `NewestInv` that a token
  on its way from the provider is the newest, carried by nobody else and no request's rejected one;
  `RejectedInv` that the cached token is not one that a request was rejected with; `TimeInv` that every
  deadline on the network lies between now and now plus the timeout, and that an issued token lasts as
  long as it will be cached. There is one lemma per part (`TypeStep`, `LockStep`, `NewestStep`,
  `RejectedStep`, `TimeStep`) with one step per action; `Asking`, `Retrying` and `Resting` say once what
  the actions do.
- `NoExpiryInFlight`, `Cautious`, `RetriesWithAnother`, `OneMint`: the safety properties of the run
  `tokens`, from `IInv`. A cached token outlives its request because of the margin; a new one because
  its life is counted from before it was asked for.

`WatcherProofs` proves about `Watcher`, for every finite set of rooms, every backoff and every set of
environments that satisfy `WatcherAssumption`:

- `TypeCorrect`: `Spec => []TypeOK`.
- `Inductive`: `Spec => []IInv`. A sleeping loop holds the right rooms only because each part of
  `_reconcile` left things as the next one needs them, so `RoundInv` says for each part what is done and
  what is still in `todo`; `PlaceInv` says of the room at work that it is out of `todo`, held while it
  connects and not while it is released; `OpenInv` that the open clients are those held and the one
  being released; `AppInv` ties the loop to its process. There is one lemma per part, with one step per
  action; the end of a release has lemmas of its own (`ReleasedAgain`, `ReleasedOnly`, `ReleaseCloses`,
  `ReleaseGoesOn`), since it either ends the client or makes the next.
- `OneSession`, `HeldWanted`: from `IInv`.
- `DelayIsOfFailures`: the sleep is the floor doubled with every failure since the last success, up to
  the ceiling. `DelayFollowsFailures` says so of a sleeping loop only; `DelayInv` says at any time what
  the next backoff is, and that a round of `_reconcile` follows a success. The powers of two are the
  recursive function `Doubled`; `DoubledIs` shows that it is what its recursion says, since a least
  number without a function up to it (`LadderExists`), or where two of them differ (`LadderUnique`),
  would have none before it. Beyond `MaxFailures` failures the count stands still, and so does the
  backoff, which has reached its ceiling by then.

The same module proves about the pure functions, for every environment, offer of Talk, override, world
and log: `EnabledCanStart` (what the enable handler accepts, a client can be built from),
`CredentialsAreTalks`, `OverrideIsComplete` and `RelayIsTalks` (what an override may change),
`EveryStepIsReported` and `OkMeansEverything` (what the self-test's answer means), and `TailIsNewest`:
of a file of any length `tail_log` returns the newest lines that are to be shown, in order, as many as
were asked for or all there are. `ReadsNewest` shows that one more line keeps this so, and a least
number of lines for which it failed would contradict it.

`RoomProofs` proves about `RoomReading`, for any number of calls and call-ended tasks:

- `TypeCorrect` and `Inductive`. `LockInv` says that the lock is held by the one ask that is opening or
  giving back its session, and that what is read is the session of an ask that is over; `StopInv` that no
  two stops hold one session, that the segmenter's stop is about its own session, and who may be in which
  phase; `OwnerInv` that a session goes from its ask to the reading, from there to one stop, and is closed
  then; `ReleaseInv` that what is read after the room was let go of was asked for before.
- A `stop_reading` that asks for the lock takes the reading over, finds none or waits (`Outcomes`). What
  each of these keeps is proved once (`TakesOverKeeps`, `PutKeeps`, `StopReadingKeeps`) for all four who
  call it: the end of a call, the segmenter, the release and the shutdown.
- `Silent`: a bridge that is at rest and in a call has an `incall: 0` behind it that was not heard. The
  part of `IInv` for it says that while nothing is read or torn down `inCall` implies `unheard`; a resume
  must keep that, which it does because it announces only a reading.
- `RestClosed`: whoever still has a session when the release is over or cut short is one of the four kinds.
- `SpeechOwned`, `SessionOwned`: the other safety properties of the run `reading`, and
  `OneClose`, that no session is closed twice. The run has two calls and one call-ended task; the
  theorems say that a third stopper or a fourth call meets nothing new.
- `Refinement`: `Spec => KeepsLedger`. What is opened, read and ended at the level of the ledger depends
  on `ask`, `reading`, `cur` and what each stop holds. `LedgerStands` says what leaves it alone, and
  `PutStands`, `AnnounceStands`, `AskStands` which steps do; a `stop_reading` that takes the reading over
  is the ledger's `LetGo` (`StopReadingLedger`), a `start_reading` that gets the lock its `Open`
  (`StartLedger`). `OwnerInv` is needed for every step: that a session taken over is closed by nobody
  else and never read again is what makes `HangUp` and `Close` possible once and only then.

`StreamProofs` proves about `SpeechStream`, for every budget of reopenings and however much is said:

- `TypeCorrect` and `Inductive`. `EndInv` says why a receiver may end (it failed, was asked to, or read a
  `finished`); `ConnectionInv` counts: an attempt
  is counted before its connection is opened, and while an attempt is under way nothing is open; `TextInv`
  that the words read, those received and those in the inbox follow each other.
- `TextKept`, `EndReported`, `FailureFinal`, `NoStray`, `WithinBudget`: the safety properties of the run
  `stream`. `Reconnected` says once what an attempt may do up to its first await.

`SignalingProofs` proves about `Signaling`, for any number of reconnect tasks: `TypeCorrect`, `Inductive`
and `DeafDefunct`. `FreshInv` says that a client that is being connected has nothing running, `DeafInv`
how a monitor may have ended: the flag is set, a close task is there, or an offer or a candidate raised. A
`recv()` that is refused because a resume reads the socket ends no monitor, so it needs no fourth case.

`AudioProofs` proves about `AudioPath`, for any number of participants and connections:

- `TypeCorrect` and `Inductive`. `TableInv` keeps what a teardown took apart from the table; `BufferInv`
  says that a track in the mix comes over a working connection of its publisher; `MonitorInv` what the
  monitor is about; `MixInv` that a track that ended and a connection of this reading that is not mixed
  are accounted for.
- `Mixed`, `NoStray`: the safety properties of the run `audio`, which has one participant. Participants
  share the monitor, the teardown and the connections, and the theorems show that one does not spoil the
  audio of another.

`MixerProofs` proves about `Mixer`, for any number of publishers, any sizes of frames, chunks and
limits (`MixerAssumption`: no frame is empty, and there is room for one chunk):

- `TypeCorrect`: `Spec => [](TypeOK /\ CountIsExact)`. That a buffer stays within its limit depends on
  the counter: `push` drops frames by what the counter says, so neither part is inductive alone.
- `Inductive`. `EmptyInv` says that only attached publishers have samples waiting, `Heard` that nothing
  comes from nowhere. The properties speak of the numbers of all samples read, queued and waiting;
  `Chain` and `Kept` say the same place by place (`OrderIsChain`, `LossIsLossInv`), which is what a step
  can be reasoned about with.
- `PushIs`, `MixIs` and `ReadIs` say once what a step does to the places of a publisher's samples: a push
  drops whole frames from the front and adds its own, a mix moves the first samples of a buffer, which
  may end within a frame, to the end of the queue or to nowhere, a read takes the first chunk. Each is
  then used for the order (`PushOrder`, `MixOrder`, `ReadOrder`) and for what is lost (`PushLoss`,
  `MixLoss`, `ReadLoss`).
- `ExactCounter`, `InSpokenOrder`, `Lossless`: the safety properties of the run `mixer`.

For each of these five, and for `DelayInv`, TLC checked the parts of the inductive invariant before they
were proved.

A note on `Len` for whoever extends these proofs. tlapm 1.4.5 tells the SMT solver that the domain of
anything is `1..N` exactly when its `Len` is `N`, which is right of sequences only. Of a function indexed
from 0 or by all numbers it gives a contradiction, from which anything follows. The leaves here keep such
functions and `Len` apart (`DequesAre`, `KeptAreDeques`) and say of a tuple that it is a sequence before
its length is used; each was also proved with those axioms restricted to sequences.

Only model-checked: liveness (`StopCompletes`, `RequestsEnd` and every `~>`), which needs ENABLED, and
`ServiceKey`, whose repair works through the characters of a key.

## 5. Not modelled

- Amplitudes, resampling, the 20 ms pace; SDP and ICE candidates, but for the exception that a candidate
  may raise in the monitor (`Signaling`; in `AudioPath` the monitor dies of an offer only); the sender pump, which only moves
  audio and never changes which connection is used; `finalize`, one message and a sleep.
- The signed assertion, the HMAC of the hello message, rate limits and the names of the HPB's errors.
- The TLS context, the clean-up of URLs, and the timed caches of `utils.py`, which nothing uses.
- Logging, the HTTP/3 switch, the admin page and the wire types: formatting, or data without state.
- korsi-api, the identity provider, the HPB, the speech provider, Talk and Nextcloud are external; the
  actions that stand for them are marked so in the map and do anything the code must expect of them.

## 6. Plan

Done: every component that keeps state has a module with proofs, every safety property of a run is a
theorem, and both abstract specifications are implemented. What is left, in this order:

1. `TextPath`: `SpeechStream` and `Segmenter` composed through `stop_reading`: what the tail of a call
   loses at most, and the reason a session is closed with.
2. A proof that `ServiceKey` repairs every key, in the manner of `TailIsNewest`.
