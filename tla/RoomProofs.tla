----------------------------- MODULE RoomProofs -----------------------------
(***************************************************************************)
(* Theorems about RoomReading: who owns each session and each speech       *)
(* connection, for any number of calls and of stoppers, in any order; and  *)
(* that it implements SessionLedger.                                       *)
(***************************************************************************)
EXTENDS RoomReading, TLAPS

\* The lock is held by the one ask that is opening, or giving back, its session; and the
\* client reads with a session whose ask is over.
LockInv ==
  /\ \A a \in Asks : ask[a] \in {"opening", "failing"} <=> lock = a
  /\ lock # None => ~reading /\ cur = lock
  /\ reading => cur \in Asks /\ ask[cur] = "done"
  /\ ~reading /\ lock = None => cur = None

\* Who may have taken over what.
StopInv ==
  /\ \A s, t \in Stops : stop[s].session # None /\ stop[s].session = stop[t].session => s = t
  /\ \A a \in Asks : stop[a].session \in {None, a}
  /\ \A a \in Asks : stop[a].pc = "waiting" => reading /\ cur = a
  /\ \A s \in Stops : stop[s].pc = "new" => s \in Enders
  /\ \A s \in Stops : stop[s].pc = "closingClient" => s = Release
  /\ held => stop[Release] = Idle
  /\ inCall => reading \/ unheard \/ \E s \in Stops : stop[s].pc \in {"flushing", "abandoned"}

\* A session goes from its ask to the reading, from there to one stop, and is closed then.
OwnerInv ==
  /\ ClosedOnce /\ EverySpeechIsOwned /\ EverySessionIsOwned
  /\ \A a \in Asks :
       /\ closes[a] > 0 => ask[a] = "done" /\ cur # a /\ ~Stopped(a)
       /\ Stopped(a) => ask[a] = "done" /\ cur # a
       /\ ask[a] \in {"unused", "new"} => session[a] = "none"
  /\ \A s \in Stops : stop[s].pc = "closing" => ~speech[stop[s].session]

\* The release waits for the lock, or was cut short while it did.
Waited == stop[Release].session = None /\ stop[Release].pc \in {"waiting", "abandoned"}

\* What is read after the room was let go of was asked for before.
ReleaseInv ==
  /\ stopping => ~held
  /\ ~held => \A a \in Asks : ask[a] \in {"asking", "granted", "opening"} => a \in late
  /\ ~held /\ reading /\ ~Waited => cur \in late

IInv == TypeOK /\ LockInv /\ StopInv /\ OwnerInv /\ ReleaseInv

\* TypeOK, in the parts that change together.
FlagType ==
  /\ call \in BOOLEAN /\ offered \in BOOLEAN /\ publishers \in BOOLEAN /\ announced \in BOOLEAN
  /\ reading \in BOOLEAN
  /\ connected \in BOOLEAN /\ inCall \in BOOLEAN /\ unheard \in BOOLEAN
  /\ held \in BOOLEAN /\ closed \in BOOLEAN /\ stopping \in BOOLEAN /\ declined \in BOOLEAN

AskType ==
  /\ ask \in [Asks -> {"unused", "new", "asking", "failed", "granted", "dropped",
                       "opening", "failing", "done"}]
  /\ cur \in Asks \cup {None} /\ lock \in Asks \cup {None}
  /\ late \subseteq Asks

StopType == stop \in [Stops -> StopState]

SessionType ==
  /\ session \in [Asks -> {"none", "open", "closed"}]
  /\ speech \in [Asks -> BOOLEAN]
  /\ closes \in [Asks -> Nat]

\* The three outcomes of a stop_reading that asks for the lock: it takes the reading over,
\* finds none, or waits.
TakesOver(s) == reading /\ lock = None /\ stop' = TakenOver(s) /\ TakeOver

FindsNothing(s) ==
  /\ ~reading /\ lock = None
  /\ stop' = [stop EXCEPT ![s] = AfterStop(s)]
  /\ UNCHANGED <<announced, reading, cur>>

Waits(s) ==
  /\ stop' = [stop EXCEPT ![s].pc = "waiting"]
  /\ UNCHANGED <<announced, reading, cur>>

\* Whoever calls it, stop_reading has one of these outcomes.
LEMMA Outcomes ==
  ASSUME NEW s \in Stops, StopReading(s) \/ (StopLocked(s) /\ lock = None)
  PROVE  TakesOver(s) \/ FindsNothing(s) \/ Waits(s)
BY Zenon DEF StopReading, StopLocked, LockFree, TakesOver, FindsNothing, Waits

\* What a stop has to be for these.
Fit(s) ==
  /\ stop[s].session = None /\ stop[s].pc \in {"idle", "new", "waiting"}
  /\ s \in Asks => reading /\ cur = s
  /\ held' => held /\ s # Release

\* The stop that takes over has the session; the segmenter's own stop is cancelled.
LEMMA TakenOverStops ==
  ASSUME IInv, NEW s \in Stops, TakesOver(s)
  PROVE  /\ cur \in Asks /\ stop'[s].pc = "flushing" /\ stop'[s].session = cur
         /\ stop'[s] \in StopState
         /\ \A t \in Stops : t # s => stop'[t] = IF t = cur THEN Idle ELSE stop[t]
         /\ DOMAIN stop' = Stops
PROOF
<1>1. cur \in Asks /\ cur \in Stops
  BY DEF IInv, LockInv, TakesOver, Stops
<1>2. stop' = [stop EXCEPT ![cur] = Idle, ![s] = Flushing(cur)]
  BY DEF TakesOver, TakenOver
<1>3. DOMAIN stop = Stops /\ stop = [t \in Stops |-> stop[t]]
  BY DEF IInv, TypeOK
<1>4. /\ stop'[s] = Flushing(cur)
      /\ \A t \in Stops : t # s => stop'[t] = IF t = cur THEN Idle ELSE stop[t]
  BY <1>1, <1>2, <1>3
<1>5. Flushing(cur) \in StopState
  BY <1>1 DEF Flushing, StopState
<1> QED
  BY <1>1, <1>2, <1>3, <1>4, <1>5 DEF Flushing

\* No other stop gains or loses a session by it.
LEMMA TakesOverOwns ==
  ASSUME IInv, NEW s \in Stops, TakesOver(s), stop[s].session = None
  PROVE  /\ \A t \in Stops : t # s => stop'[t].session = stop[t].session
         /\ \A b \in Asks : Stopped(b)' <=> Stopped(b) \/ b = cur
PROOF
<1>1. cur \in Asks /\ cur # None /\ ~Stopped(cur)
  BY RoomAssumption DEF IInv, LockInv, OwnerInv, TakesOver
<1>2. /\ stop'[s].session = cur
      /\ \A t \in Stops : t # s => stop'[t] = IF t = cur THEN Idle ELSE stop[t]
  BY TakenOverStops
<1>3. \A t \in Stops : t # s => stop'[t].session = stop[t].session
  <2>1. \A t \in Stops : t # s /\ t = cur => stop[t].session = None
    BY <1>1 DEF IInv, StopInv, Stopped
  <2> QED
    BY <1>2, <2>1 DEF Idle
<1>4. \A b \in Asks : Stopped(b)' <=> Stopped(b) \/ b = cur
  BY <1>1, <1>2, <1>3, RoomAssumption DEF Stopped
<1> QED
  BY <1>3, <1>4

\* A stop that takes over becomes the one owner of the session and the speech connection.
LEMMA TakesOverKeeps ==
  ASSUME IInv, NEW s \in Stops, TakesOver(s), Fit(s),
         UNCHANGED <<ask, lock, inCall, unheard, session, speech, closes>>
  PROVE  LockInv' /\ StopInv' /\ OwnerInv' /\ StopType'
PROOF
<1> DEFINE a == cur
<1>1. /\ a \in Asks /\ a \in Stops /\ a # None
      /\ ask[a] = "done" /\ ~Stopped(a) /\ closes[a] = 0
      /\ reading /\ ~reading' /\ cur' = None /\ lock = None
  BY RoomAssumption DEF IInv, TypeOK, LockInv, OwnerInv, TakesOver, TakeOver, Stops
<1>2. /\ stop'[s].pc = "flushing" /\ stop'[s].session = a
      /\ stop'[s] \in StopState /\ DOMAIN stop' = Stops
      /\ \A t \in Stops : t # s => stop'[t] = IF t = a THEN Idle ELSE stop[t]
  BY TakenOverStops
<1>3. stop[s].session = None
  BY DEF Fit
<1>4. \A t \in Stops : t # s => stop'[t].session = stop[t].session
  BY <1>3, TakesOverOwns
<1>5. \A b \in Asks : Stopped(b)' <=> Stopped(b) \/ b = a
  BY <1>3, TakesOverOwns
<1>6. LockInv'
  BY <1>1 DEF IInv, LockInv
<1>7. StopType'
  <2>1. \A t \in Stops : stop'[t] \in StopState
    BY <1>2 DEF IInv, TypeOK, StopState, Idle
  <2> QED
    BY <2>1, <1>2, TakenOverStops DEF StopType, TakesOver, TakenOver, IInv, TypeOK
<1>8. StopInv'
  <2>1. \A t, u \in Stops :
          stop'[t].session # None /\ stop'[t].session = stop'[u].session => t = u
    BY <1>1, <1>2, <1>4 DEF IInv, StopInv, Stopped
  <2>2. \A b \in Asks : stop'[b].session \in {None, b}
    BY <1>1, <1>2, <1>4 DEF IInv, StopInv, Fit, Stops
  <2>3. \A b \in Asks : stop'[b].pc # "waiting"
    BY <1>2 DEF IInv, StopInv, Fit, Stops, Idle
  <2>4. \A t \in Stops : t # s => stop'[t].pc \in {"idle", stop[t].pc}
    BY <1>2 DEF Idle
  <2>5. \A t \in Stops : stop'[t].pc = "new" => t \in Enders
    BY <1>2, <2>4 DEF IInv, StopInv
  <2>6. \A t \in Stops : stop'[t].pc = "closingClient" => t = Release
    BY <1>2, <2>4 DEF IInv, StopInv
  <2>7. held' => stop'[Release] = Idle
    BY <1>2 DEF IInv, StopInv, Fit, Stops
  <2>8. inCall' => \E t \in Stops : stop'[t].pc \in {"flushing", "abandoned"}
    BY <1>2
  <2> QED
    BY <1>1, <2>1, <2>2, <2>3, <2>5, <2>6, <2>7, <2>8 DEF StopInv
<1>9. OwnerInv'
  <2>1. ClosedOnce'
    BY DEF IInv, OwnerInv, ClosedOnce
  <2>2. EverySpeechIsOwned'
    BY <1>1, <1>5 DEF IInv, OwnerInv, EverySpeechIsOwned
  <2>3. EverySessionIsOwned'
    BY <1>1, <1>5 DEF IInv, OwnerInv, EverySessionIsOwned
  <2>4. \A b \in Asks :
       /\ closes'[b] > 0 => ask'[b] = "done" /\ cur' # b /\ ~Stopped(b)'
       /\ Stopped(b)' => ask'[b] = "done" /\ cur' # b
       /\ ask'[b] \in {"unused", "new"} => session'[b] = "none"
    BY <1>1, <1>5, RoomAssumption DEF IInv, OwnerInv
  <2>5. \A t \in Stops : stop'[t].pc = "closing" => ~speech'[stop'[t].session]
    BY <1>2, <1>4 DEF IInv, OwnerInv, Idle
  <2> QED
    BY <2>1, <2>2, <2>3, <2>4, <2>5 DEF OwnerInv
<1> QED
  BY <1>6, <1>7, <1>8, <1>9

\* stop[s] changes to r, and takes no session with it or away.
Puts(s, r) == stop' = [stop EXCEPT ![s] = r]

\* Such a change of one stop disturbs no owner.
LEMMA PutKeeps ==
  ASSUME IInv, NEW s \in Stops, NEW r \in StopState, Puts(s, r), r.session = stop[s].session,
         r.pc = "closing" => ~speech'[r.session],
         r.pc = "waiting" /\ s \in Asks => reading /\ cur = s,
         r.pc = "new" => s \in Enders,
         r.pc = "closingClient" => s = Release,
         held' => held /\ (s = Release => r = Idle),
         inCall' => \/ unheard'
                    \/ /\ inCall /\ ~unheard
                       /\ stop[s].pc \in {"flushing", "abandoned"} => r.pc = "abandoned",
         \A a \in Asks : speech'[a] => speech[a],
         UNCHANGED <<ask, lock, reading, cur, session, closes>>
  PROVE  LockInv' /\ StopInv' /\ OwnerInv' /\ StopType'
PROOF
<1>1. stop'[s] = r /\ \A t \in Stops : t # s => stop'[t] = stop[t]
  BY DEF Puts, IInv, TypeOK
<1>2. \A t \in Stops : stop'[t].session = stop[t].session
  BY <1>1
<1>3. \A b \in Asks : Stopped(b)' <=> Stopped(b)
  BY <1>2 DEF Stopped
<1>6. LockInv'
  BY DEF IInv, LockInv
<1>7. StopType'
  BY DEF StopType, Puts, IInv, TypeOK
<1>8. StopInv'
  <2>1. \A t, u \in Stops :
          stop'[t].session # None /\ stop'[t].session = stop'[u].session => t = u
    BY <1>2 DEF IInv, StopInv
  <2>2. \A b \in Asks : stop'[b].session \in {None, b}
    BY <1>2 DEF IInv, StopInv, Stops
  <2>3. \A b \in Asks : stop'[b].pc = "waiting" => reading /\ cur = b
    BY <1>1 DEF IInv, StopInv, Stops
  <2>5. \A t \in Stops : stop'[t].pc = "new" => t \in Enders
    BY <1>1 DEF IInv, StopInv
  <2>6. \A t \in Stops : stop'[t].pc = "closingClient" => t = Release
    BY <1>1 DEF IInv, StopInv
  <2>7. held' => stop'[Release] = Idle
    BY <1>1 DEF IInv, StopInv, Stops
  <2>8. inCall' => reading \/ unheard' \/ \E t \in Stops : stop'[t].pc \in {"flushing", "abandoned"}
    BY <1>1 DEF IInv, StopInv
  <2> QED
    BY <2>1, <2>2, <2>3, <2>5, <2>6, <2>7, <2>8 DEF StopInv
<1>9. OwnerInv'
  <2>1. ClosedOnce'
    BY DEF IInv, OwnerInv, ClosedOnce
  <2>2. EverySpeechIsOwned'
    BY <1>3 DEF IInv, OwnerInv, EverySpeechIsOwned
  <2>3. EverySessionIsOwned'
    BY <1>3 DEF IInv, OwnerInv, EverySessionIsOwned
  <2>4. \A b \in Asks :
       /\ closes'[b] > 0 => ask'[b] = "done" /\ cur' # b /\ ~Stopped(b)'
       /\ Stopped(b)' => ask'[b] = "done" /\ cur' # b
       /\ ask'[b] \in {"unused", "new"} => session'[b] = "none"
    BY <1>3 DEF IInv, OwnerInv
  <2>5. \A t \in Stops : stop'[t].pc = "closing" => ~speech'[stop'[t].session]
    <3>1. \A t \in Stops : stop[t].pc = "closing" => stop[t].session \in Asks
      BY DEF IInv, TypeOK, StopState
    <3> QED
      BY <1>1, <3>1 DEF IInv, OwnerInv
  <2> QED
    BY <2>1, <2>2, <2>3, <2>4, <2>5 DEF OwnerInv
<1> QED
  BY <1>6, <1>7, <1>8, <1>9

\* stop_reading up to its first await, whoever calls it.
LEMMA StopReadingKeeps ==
  ASSUME IInv, NEW s \in Stops, Fit(s), StopReading(s) \/ (StopLocked(s) /\ lock = None),
         UNCHANGED <<ask, lock, inCall, unheard, session, speech, closes>>
  PROVE  LockInv' /\ StopInv' /\ OwnerInv' /\ StopType'
PROOF
<1>1. CASE TakesOver(s)
  BY <1>1, TakesOverKeeps
<1>2. CASE FindsNothing(s)
  <2> DEFINE r == AfterStop(s)
  <2>1. r \in StopState /\ r.session = None /\ r.pc \in {"idle", "closingClient"}
        /\ (r.pc = "closingClient" => s = Release)
    BY DEF AfterStop, StopState
  <2>2. Puts(s, r) /\ UNCHANGED <<reading, cur>>
    BY <1>2 DEF FindsNothing, Puts
  <2>3. /\ stop[s].session = None /\ stop[s].pc \notin {"flushing", "abandoned"}
        /\ held' => held /\ s # Release
    BY DEF Fit
  <2> HIDE DEF r
  <2> QED
    BY <2>1, <2>2, <2>3, PutKeeps
<1>3. CASE Waits(s)
  <2> DEFINE r == [pc |-> "waiting", session |-> None]
  <2>1. r \in StopState /\ r.session = None /\ r.pc = "waiting"
    BY DEF StopState
  <2>2. stop[s].session = None /\ stop[s].pc \notin {"flushing", "abandoned"}
    BY DEF Fit
  <2>3. Puts(s, r) /\ UNCHANGED <<reading, cur>>
    <3>1. [stop[s] EXCEPT !.pc = "waiting"] = r
      BY <2>2 DEF IInv, TypeOK, StopState
    <3> QED
      BY <1>3, <3>1 DEF Waits, Puts
  <2>4. (s \in Asks => reading /\ cur = s) /\ (held' => held /\ s # Release)
    BY DEF Fit
  <2> HIDE DEF r
  <2> QED
    BY <2>1, <2>2, <2>3, <2>4, PutKeeps
<1> QED
  BY <1>1, <1>2, <1>3, Outcomes

\* What leaves the stops and the client alone.
LEMMA KeepsStops ==
  ASSUME IInv,
         UNCHANGED <<stop, ask, lock, inCall, unheard, session, speech, closes, reading, cur>>,
         held' => held
  PROVE  LockInv' /\ StopInv' /\ OwnerInv' /\ StopType'
PROOF
<1>1. \A a \in Asks : Stopped(a)' <=> Stopped(a)
  BY DEF Stopped
<1>2. LockInv' /\ StopInv' /\ StopType'
  BY DEF IInv, TypeOK, StopType, LockInv, StopInv
<1>3. OwnerInv'
  BY <1>1 DEF IInv, OwnerInv, ClosedOnce, EverySpeechIsOwned, EverySessionIsOwned
<1> QED
  BY <1>2, <1>3

\* The end of a call is announced to the watcher.
Announces(e) == stop[e] = Idle /\ stop' = [stop EXCEPT ![e].pc = "new"]

\* An announcement owns nothing yet.
LEMMA AnnounceKeeps ==
  ASSUME IInv, NEW e \in Enders, Announces(e),
         UNCHANGED <<ask, lock, inCall, unheard, session, speech, closes, reading, cur, held>>
  PROVE  LockInv' /\ StopInv' /\ OwnerInv' /\ StopType'
PROOF
<1> DEFINE r == [pc |-> "new", session |-> None]
<1>1. e \in Stops /\ e # Release /\ e \notin Asks
  BY RoomAssumption DEF Stops
<1>2. r \in StopState /\ r.session = None /\ r.pc = "new"
  BY DEF StopState
<1>3. stop[e].session = None /\ stop[e].pc = "idle"
  BY DEF Announces, Idle
<1>4. Puts(e, r)
  <2>1. [stop[e] EXCEPT !.pc = "new"] = r
    BY DEF Announces, Idle
  <2> QED
    BY <2>1 DEF Announces, Puts
<1> HIDE DEF r
<1> QED
  BY <1>1, <1>2, <1>3, <1>4, PutKeeps

\* The watcher lets go of the room.
LEMMA LetGoKeeps ==
  ASSUME IInv, LetGoOfRoom, UNCHANGED <<ask, lock, inCall, unheard, session, speech, closes>>
  PROVE  LockInv' /\ StopInv' /\ OwnerInv' /\ StopType'
PROOF
<1>1. Release \in Stops /\ Release \notin Asks
  BY RoomAssumption DEF Stops
<1>2. Fit(Release)
  BY <1>1 DEF Fit, LetGoOfRoom, IInv, StopInv, Idle
<1> QED
  BY <1>1, <1>2, StopReadingKeeps DEF LetGoOfRoom

\* A release that is cut short keeps what it took over.
LEMMA CutShortKeeps ==
  ASSUME IInv, ReleaseCutShort, UNCHANGED <<ask, lock, inCall, unheard, session, speech, closes>>
  PROVE  LockInv' /\ StopInv' /\ OwnerInv' /\ StopType'
PROOF
<1> DEFINE r == [pc |-> "abandoned", session |-> stop[Release].session]
<1>1. Release \in Stops /\ stop[Release] \in StopState
  BY DEF Stops, IInv, TypeOK
<1>2. r \in StopState /\ r.session = stop[Release].session /\ r.pc = "abandoned"
  BY <1>1 DEF StopState
<1>3. Puts(Release, r)
  <2>1. [stop[Release] EXCEPT !.pc = "abandoned"] = r
    BY <1>1 DEF StopState
  <2> QED
    BY <2>1 DEF ReleaseCutShort, Puts
<1>4. ~held' /\ UNCHANGED <<reading, cur>>
  BY DEF ReleaseCutShort, IInv, StopInv
<1> HIDE DEF r
<1> QED
  BY <1>1, <1>2, <1>3, <1>4, PutKeeps

\* The session that is closed has no stop any more, the others keep theirs.
LEMMA StopClosesOwns ==
  ASSUME IInv, NEW s \in Stops, NEW arrives \in BOOLEAN, StopCloses(s, arrives)
  PROVE  \A b \in Asks : Stopped(b)' <=> Stopped(b) /\ b # stop[s].session
PROOF
<1> DEFINE a == stop[s].session
<1>1. a \in Asks /\ a # None
  BY RoomAssumption DEF StopCloses, IInv, TypeOK, StopState
<1>2. stop'[s].session = None /\ \A t \in Stops : t # s => stop'[t] = stop[t]
  BY DEF StopCloses, AfterStop, IInv, TypeOK
<1>3. \A t \in Stops : stop[t].session = a => t = s
  BY <1>1 DEF IInv, StopInv
<1> QED
  BY <1>1, <1>2, <1>3, RoomAssumption DEF Stopped

\* A stop closes the session it took over, once.
LEMMA StopClosesKeeps ==
  ASSUME IInv, NEW s \in Stops, NEW arrives \in BOOLEAN, StopCloses(s, arrives)
  PROVE  LockInv' /\ StopInv' /\ OwnerInv' /\ StopType'
PROOF
<1> DEFINE a == stop[s].session
<1>1. a \in Asks /\ a # None /\ stop[s].pc = "closing"
  BY RoomAssumption DEF StopCloses, IInv, TypeOK, StopState
<1>2. Stopped(a) /\ ask[a] = "done" /\ cur # a /\ closes[a] = 0 /\ ~speech[a]
  BY <1>1 DEF IInv, TypeOK, OwnerInv, Stopped
<1>3. /\ stop'[s] \in {[pc |-> "idle", session |-> None],
                      [pc |-> "closingClient", session |-> None]}
      /\ stop'[s].pc = "closingClient" => s = Release
      /\ \A t \in Stops : t # s => stop'[t] = stop[t]
  BY DEF StopCloses, AfterStop, IInv, TypeOK
<1>4. UNCHANGED <<ask, lock, reading, cur, inCall, unheard, speech, held>>
  BY DEF StopCloses, reader, hpb, watcher
<1>5. /\ closes'[a] = 1 /\ \A b \in Asks : b # a => closes'[b] = closes[b]
      /\ \A b \in Asks : session'[b] \in {session[b], "closed"}
  BY <1>1, <1>2 DEF StopCloses, CloseSession, IInv, TypeOK
<1>6. \A b \in Asks : Stopped(b)' <=> Stopped(b) /\ b # a
  BY StopClosesOwns
<1>7. LockInv'
  BY <1>4 DEF IInv, LockInv
<1>8. StopType'
  BY DEF StopCloses, AfterStop, StopType, StopState, IInv, TypeOK
<1>9. StopInv'
  <2>1. \A t, u \in Stops :
          stop'[t].session # None /\ stop'[t].session = stop'[u].session => t = u
    BY <1>3 DEF IInv, StopInv
  <2>2. \A b \in Asks : stop'[b].session \in {None, b}
    BY <1>3 DEF IInv, StopInv, Stops
  <2>3. \A b \in Asks : stop'[b].pc = "waiting" => reading /\ cur = b
    BY <1>3 DEF IInv, StopInv, Stops
  <2>4. \A t \in Stops : /\ stop'[t].pc = "new" => t \in Enders
                         /\ stop'[t].pc = "closingClient" => t = Release
    BY <1>3 DEF IInv, StopInv
  <2>5. held' => stop'[Release] = Idle
    BY <1>1, <1>3, <1>4 DEF IInv, StopInv, Stops, Idle
  <2>6. inCall' => reading \/ unheard' \/ \E t \in Stops : stop'[t].pc \in {"flushing", "abandoned"}
    BY <1>1, <1>3, <1>4 DEF IInv, StopInv
  <2> QED
    BY <1>4, <2>1, <2>2, <2>3, <2>4, <2>5, <2>6 DEF StopInv
<1>10. OwnerInv'
  <2>1. ClosedOnce'
    BY <1>5 DEF IInv, OwnerInv, ClosedOnce
  <2>2. EverySpeechIsOwned'
    BY <1>2, <1>4, <1>6 DEF IInv, OwnerInv, EverySpeechIsOwned
  <2>3. EverySessionIsOwned'
    BY <1>4, <1>5, <1>6 DEF IInv, OwnerInv, EverySessionIsOwned
  <2>4. \A b \in Asks :
          /\ closes'[b] > 0 => ask'[b] = "done" /\ cur' # b /\ ~Stopped(b)'
          /\ Stopped(b)' => ask'[b] = "done" /\ cur' # b
          /\ ask'[b] \in {"unused", "new"} => session'[b] = "none"
    BY <1>2, <1>4, <1>5, <1>6 DEF IInv, OwnerInv, StopCloses, CloseSession, TypeOK
  <2>5. \A t \in Stops : stop'[t].pc = "closing" => ~speech'[stop'[t].session]
    BY <1>3, <1>4 DEF IInv, OwnerInv
  <2> QED
    BY <2>1, <2>2, <2>3, <2>4, <2>5 DEF OwnerInv
<1> QED
  BY <1>7, <1>8, <1>9, <1>10

\* A stop_reading leaves a reading that began late to the watcher's release.
LEMMA OutcomeReleases ==
  ASSUME IInv, NEW s \in Stops, StopReading(s) \/ (StopLocked(s) /\ lock = None),
         UNCHANGED <<ask, held, stopping, late>>
  PROVE  ReleaseInv'
PROOF
<1>1. Release \in Stops
  BY DEF Stops
<1>2. CASE TakesOver(s)
  BY <1>2 DEF TakesOver, TakeOver, IInv, ReleaseInv, Waited
<1>3. CASE FindsNothing(s)
  BY <1>3 DEF FindsNothing, IInv, ReleaseInv, Waited
<1>4. CASE Waits(s)
  BY <1>1, <1>4 DEF Waits, IInv, TypeOK, ReleaseInv, Waited
<1> QED
  BY <1>2, <1>3, <1>4, Outcomes

\* When the room is let go of, what may still begin to read is known.
LEMMA LetGoReleases ==
  ASSUME IInv, LetGoOfRoom, UNCHANGED ask
  PROVE  ReleaseInv'
PROOF
<1>1. Release \in Stops /\ ~held'
  BY DEF Stops, LetGoOfRoom
<1>2. \A a \in Asks : ask'[a] \in {"asking", "granted", "opening"} => a \in late'
  BY DEF LetGoOfRoom, Underway
<1>3. reading' => Waited'
  <2>1. CASE TakesOver(Release)
    BY <2>1 DEF TakesOver, TakeOver
  <2>2. CASE FindsNothing(Release)
    BY <2>2 DEF FindsNothing
  <2>3. CASE Waits(Release)
    BY <1>1, <2>3 DEF Waits, Waited, LetGoOfRoom, IInv, TypeOK, StopState, StopInv, Idle
  <2> QED
    BY <1>1, <2>1, <2>2, <2>3, Outcomes DEF LetGoOfRoom
<1> QED
  BY <1>1, <1>2, <1>3 DEF ReleaseInv

\* Each action keeps every session with one owner.
LEMMA CoreStep ==
  ASSUME IInv, [Next]_vars
  PROVE  LockInv' /\ StopInv' /\ OwnerInv' /\ StopType'
PROOF
<1> USE DEF room, reader, hpb, korsi, watcher
<1>1. ASSUME NEW a \in Asks, Joined(a) PROVE LockInv' /\ StopInv' /\ OwnerInv' /\ StopType'
  <2>1. LockInv'
    BY <1>1 DEF Joined, IInv, TypeOK, LockInv
  <2>2. StopInv' /\ StopType'
    BY <1>1 DEF Joined, IInv, TypeOK, StopType, StopInv
  <2>3. OwnerInv'
    BY <1>1
       DEF Joined, IInv, TypeOK, OwnerInv, ClosedOnce, EverySpeechIsOwned,
           EverySessionIsOwned, Stopped
  <2> QED
    BY <2>1, <2>2, <2>3
<1>2. ASSUME NEW e \in Enders, EndsForEveryone(e)
      PROVE LockInv' /\ StopInv' /\ OwnerInv' /\ StopType'
  <2>1. CASE UNCHANGED stop
    BY <1>2, <2>1, KeepsStops DEF EndsForEveryone, CallEnds
  <2>2. CASE Announces(e)
    BY <1>2, <2>2, AnnounceKeeps DEF EndsForEveryone, CallEnds
  <2> QED
    BY <1>2, <2>1, <2>2 DEF EndsForEveryone, AnnounceEnded, Announces
<1>3. ASSUME NEW e \in Enders, LastLeaves(e)
      PROVE LockInv' /\ StopInv' /\ OwnerInv' /\ StopType'
  <2>1. CASE UNCHANGED stop
    BY <1>3, <2>1, KeepsStops DEF LastLeaves, CallEnds
  <2>2. CASE Announces(e)
    BY <1>3, <2>2, AnnounceKeeps DEF LastLeaves, CallEnds
  <2> QED
    BY <1>3, <2>1, <2>2 DEF LastLeaves, AnnounceEnded, Announces
<1>4. ASSUME NEW e \in Enders, OtherUpdate(e)
      PROVE LockInv' /\ StopInv' /\ OwnerInv' /\ StopType'
  <2>1. CASE UNCHANGED stop
    BY <1>4, <2>1, KeepsStops DEF OtherUpdate
  <2>2. CASE Announces(e)
    BY <1>4, <2>2, AnnounceKeeps DEF OtherUpdate
  <2> QED
    BY <1>4, <2>1, <2>2 DEF OtherUpdate, AnnounceEnded, Announces
<1>5. CASE ClientDies
  <2>1. LockInv'
    BY <1>5 DEF ClientDies, IInv, LockInv
  <2>2. StopInv' /\ StopType'
    BY <1>5 DEF ClientDies, SayBye, IInv, TypeOK, StopType, StopInv
  <2>3. OwnerInv'
    BY <1>5
       DEF ClientDies, IInv, OwnerInv, ClosedOnce, EverySpeechIsOwned, EverySessionIsOwned,
           Stopped
  <2> QED
    BY <2>1, <2>2, <2>3
<1>6. ASSUME NEW a \in Asks, AskBegins(a) PROVE LockInv' /\ StopInv' /\ OwnerInv' /\ StopType'
  <2>1. LockInv'
    BY <1>6 DEF AskBegins, AskMoves, IInv, LockInv
  <2>2. StopInv' /\ StopType'
    BY <1>6 DEF AskBegins, IInv, TypeOK, StopType, StopInv
  <2>3. OwnerInv'
    BY <1>6
       DEF AskBegins, AskMoves, IInv, OwnerInv, ClosedOnce, EverySpeechIsOwned,
           EverySessionIsOwned, Stopped
  <2> QED
    BY <2>1, <2>2, <2>3
<1>7. ASSUME NEW a \in Asks, Declined(a) PROVE LockInv' /\ StopInv' /\ OwnerInv' /\ StopType'
  <2>1. LockInv'
    BY <1>7 DEF Declined, AskMoves, IInv, LockInv
  <2>2. StopInv' /\ StopType'
    BY <1>7 DEF Declined, IInv, TypeOK, StopType, StopInv
  <2>3. OwnerInv'
    BY <1>7
       DEF Declined, AskMoves, IInv, OwnerInv, ClosedOnce, EverySpeechIsOwned,
           EverySessionIsOwned, Stopped
  <2> QED
    BY <2>1, <2>2, <2>3
<1>8. ASSUME NEW a \in Asks, AskFails(a) PROVE LockInv' /\ StopInv' /\ OwnerInv' /\ StopType'
  <2>1. LockInv'
    BY <1>8 DEF AskFails, AskMoves, IInv, LockInv
  <2>2. StopInv' /\ StopType'
    BY <1>8 DEF AskFails, IInv, TypeOK, StopType, StopInv
  <2>3. OwnerInv'
    BY <1>8
       DEF AskFails, AskMoves, IInv, OwnerInv, ClosedOnce, EverySpeechIsOwned,
           EverySessionIsOwned, Stopped
  <2> QED
    BY <2>1, <2>2, <2>3
<1>9. ASSUME NEW a \in Asks, Granted(a) PROVE LockInv' /\ StopInv' /\ OwnerInv' /\ StopType'
  <2>1. LockInv'
    BY <1>9, RoomAssumption DEF Granted, StartReading, TakeLock, LockFree, IInv, TypeOK, LockInv
  <2>2. StopInv' /\ StopType'
    BY <1>9 DEF Granted, StartReading, IInv, TypeOK, StopType, StopInv
  <2>3. OwnerInv'
    BY <1>9
       DEF Granted, StartReading, IInv, TypeOK, OwnerInv, ClosedOnce, EverySpeechIsOwned,
           EverySessionIsOwned, Stopped
  <2> QED
    BY <2>1, <2>2, <2>3
<1>10. ASSUME NEW a \in Asks, StartWaited(a)
       PROVE LockInv' /\ StopInv' /\ OwnerInv' /\ StopType'
  <2>1. LockInv'
    BY <1>10, RoomAssumption DEF StartWaited, StartReading, TakeLock, IInv, TypeOK, LockInv
  <2>2. StopInv' /\ StopType'
    BY <1>10 DEF StartWaited, StartReading, IInv, TypeOK, StopType, StopInv
  <2>3. OwnerInv'
    BY <1>10
       DEF StartWaited, StartReading, IInv, TypeOK, OwnerInv, ClosedOnce, EverySpeechIsOwned,
           EverySessionIsOwned, Stopped
  <2> QED
    BY <2>1, <2>2, <2>3
<1>11. ASSUME NEW a \in Asks, SpeechOpens(a)
       PROVE LockInv' /\ StopInv' /\ OwnerInv' /\ StopType'
  <2>1. LockInv'
    BY <1>11, RoomAssumption DEF SpeechOpens, AskMoves, IInv, TypeOK, LockInv
  <2>2. StopInv' /\ StopType'
    BY <1>11 DEF SpeechOpens, IInv, TypeOK, StopType, StopInv
  <2>3. OwnerInv'
    BY <1>11, RoomAssumption
       DEF SpeechOpens, AskMoves, IInv, LockInv, OwnerInv, ClosedOnce, EverySpeechIsOwned,
           EverySessionIsOwned, Stopped
  <2> QED
    BY <2>1, <2>2, <2>3
<1>12. ASSUME NEW a \in Asks, SpeechFails(a)
       PROVE LockInv' /\ StopInv' /\ OwnerInv' /\ StopType'
  <2>1. LockInv'
    BY <1>12 DEF SpeechFails, AskMoves, IInv, LockInv
  <2>2. StopInv' /\ StopType'
    BY <1>12 DEF SpeechFails, IInv, TypeOK, StopType, StopInv
  <2>3. OwnerInv'
    BY <1>12
       DEF SpeechFails, AskMoves, IInv, OwnerInv, ClosedOnce, EverySpeechIsOwned,
           EverySessionIsOwned, Stopped
  <2> QED
    BY <2>1, <2>2, <2>3
<1>13. ASSUME NEW a \in Asks, NEW arrives \in BOOLEAN, FailedStartCloses(a, arrives)
       PROVE LockInv' /\ StopInv' /\ OwnerInv' /\ StopType'
  <2>1. LockInv'
    BY <1>13, RoomAssumption DEF FailedStartCloses, AskMoves, LetGoOfLock, IInv, TypeOK, LockInv
  <2>2. StopInv' /\ StopType'
    BY <1>13, RoomAssumption
       DEF FailedStartCloses, AskMoves, IInv, TypeOK, StopType, LockInv, StopInv
  <2>3. OwnerInv'
    BY <1>13, RoomAssumption
       DEF FailedStartCloses, AskMoves, GiveBack, CloseSession, IInv, TypeOK, LockInv,
           OwnerInv, ClosedOnce, EverySpeechIsOwned, EverySessionIsOwned, Stopped
  <2> QED
    BY <2>1, <2>2, <2>3
<1>14. ASSUME NEW a \in Asks, KorsiOpens(a) PROVE LockInv' /\ StopInv' /\ OwnerInv' /\ StopType'
  <2>1. LockInv'
    BY <1>14 DEF KorsiOpens, IInv, LockInv
  <2>2. StopInv' /\ StopType'
    BY <1>14 DEF KorsiOpens, IInv, TypeOK, StopType, StopInv
  <2>3. OwnerInv'
    BY <1>14
       DEF KorsiOpens, IInv, OwnerInv, ClosedOnce, EverySpeechIsOwned, EverySessionIsOwned,
           Stopped
  <2> QED
    BY <2>1, <2>2, <2>3
<1>15. ASSUME NEW a \in Asks, KorsiSweeps(a)
       PROVE LockInv' /\ StopInv' /\ OwnerInv' /\ StopType'
  <2>1. LockInv'
    BY <1>15 DEF KorsiSweeps, IInv, LockInv
  <2>2. StopInv' /\ StopType'
    BY <1>15 DEF KorsiSweeps, IInv, TypeOK, StopType, StopInv
  <2>3. OwnerInv'
    BY <1>15
       DEF KorsiSweeps, IInv, OwnerInv, ClosedOnce, EverySpeechIsOwned, EverySessionIsOwned,
           Stopped
  <2> QED
    BY <2>1, <2>2, <2>3
<1>16. ASSUME NEW a \in Asks, Gone(a) PROVE LockInv' /\ StopInv' /\ OwnerInv' /\ StopType'
  <2>1. a \in Stops /\ StopReading(a)
    BY <1>16 DEF Gone, Stops
  <2>2. Fit(a)
    BY <1>16, RoomAssumption DEF Gone, Fit, Idle
  <2> QED
    BY <1>16, <2>1, <2>2, StopReadingKeeps DEF Gone
<1>17. ASSUME NEW s \in Stops, EndBegins(s) PROVE LockInv' /\ StopInv' /\ OwnerInv' /\ StopType'
  <2>1. stop[s].pc = "new" /\ stop[s].session = None /\ s \in Enders
    BY <1>17 DEF EndBegins, IInv, TypeOK, StopState, StopInv
  <2>2. Fit(s)
    BY <1>17, <2>1, RoomAssumption DEF EndBegins, Fit
  <2>3. CASE held
    BY <1>17, <2>2, <2>3, StopReadingKeeps DEF EndBegins
  <2>4. CASE ~held
    <3>1. Puts(s, Idle) /\ Idle \in StopState /\ Idle.session = None /\ Idle.pc = "idle"
      BY <1>17, <2>4 DEF EndBegins, Puts, Idle, StopState
    <3> QED
      BY <1>17, <2>1, <2>4, <3>1, PutKeeps DEF EndBegins
  <2> QED
    BY <2>3, <2>4
<1>18. ASSUME NEW s \in Stops, StopWaited(s)
       PROVE LockInv' /\ StopInv' /\ OwnerInv' /\ StopType'
  <2>1. stop[s].pc = "waiting" /\ stop[s].session = None
    BY <1>18 DEF StopWaited, IInv, TypeOK, StopState
  <2>2. Fit(s)
    BY <1>18, <2>1 DEF StopWaited, Fit, IInv, StopInv, Idle
  <2> QED
    BY <1>18, <2>2, StopReadingKeeps DEF StopWaited
<1>19. ASSUME NEW s \in Stops, HangUp(s) PROVE LockInv' /\ StopInv' /\ OwnerInv' /\ StopType'
  <2> DEFINE r == [pc |-> "closing", session |-> stop[s].session]
  <2>1. stop[s].session \in Asks
    BY <1>19 DEF HangUp, IInv, TypeOK, StopState
  <2>2. r \in StopState /\ r.session = stop[s].session /\ r.pc = "closing"
    BY <2>1 DEF StopState
  <2>3. [stop[s] EXCEPT !.pc = "closing"] = r
    BY <1>19 DEF IInv, TypeOK, StopState
  <2>4. Puts(s, r)
    BY <1>19, <2>3 DEF HangUp, Puts
  <2>5. ~speech'[r.session] /\ \A b \in Asks : speech'[b] => speech[b]
    BY <1>19, <2>1 DEF HangUp, IInv, TypeOK
  <2>6. (inCall' => unheard') /\ UNCHANGED <<ask, lock, reading, cur, session, closes, held>>
    BY <1>19 DEF HangUp, LeaveCall
  <2>7. held => s # Release
    BY <1>19 DEF HangUp, IInv, StopInv, Idle
  <2> HIDE DEF r
  <2> QED
    BY <2>2, <2>4, <2>5, <2>6, <2>7, PutKeeps
<1>20. ASSUME NEW s \in Stops, NEW arrives \in BOOLEAN, StopCloses(s, arrives)
       PROVE LockInv' /\ StopInv' /\ OwnerInv' /\ StopType'
  BY <1>20, StopClosesKeeps
<1>21. CASE DeclineExpires
  <2>1. LockInv'
    BY <1>21 DEF DeclineExpires, IInv, LockInv
  <2>2. StopInv' /\ StopType'
    BY <1>21 DEF DeclineExpires, IInv, TypeOK, StopType, StopInv
  <2>3. OwnerInv'
    BY <1>21
       DEF DeclineExpires, IInv, OwnerInv, ClosedOnce, EverySpeechIsOwned,
           EverySessionIsOwned, Stopped
  <2> QED
    BY <2>1, <2>2, <2>3
<1>22. CASE ClientCloses
  <2>1. stop[Release].session = None /\ stop[Release].pc = "closingClient" /\ Release \in Stops
    BY <1>22 DEF ClientCloses, IInv, TypeOK, StopState, Stops
  <2>2. Puts(Release, Idle) /\ Idle \in StopState /\ Idle.session = None /\ Idle.pc = "idle"
    BY <1>22 DEF ClientCloses, Puts, Idle, StopState
  <2> QED
    BY <1>22, <2>1, <2>2, PutKeeps DEF ClientCloses, SayBye
<1>23. CASE ReleaseRoom
  BY <1>23, LetGoKeeps DEF ReleaseRoom
<1>24. CASE WatcherStops
  <2>1. CASE LetGoOfRoom
    BY <1>24, <2>1, LetGoKeeps DEF WatcherStops
  <2>2. CASE ReleaseCutShort
    BY <1>24, <2>2, CutShortKeeps DEF WatcherStops
  <2>3. CASE NothingToCut
    BY <1>24, <2>3, KeepsStops DEF WatcherStops, NothingToCut
  <2> QED
    BY <1>24, <2>1, <2>2, <2>3 DEF WatcherStops
<1>25. CASE ConnectionLost
  BY <1>25, KeepsStops DEF ConnectionLost
<1>26. CASE SessionResumed
  <2>1. LockInv'
    BY <1>26 DEF SessionResumed, IInv, LockInv
  <2>2. StopInv' /\ StopType'
    BY <1>26 DEF SessionResumed, Reannounce, IInv, TypeOK, StopType, StopInv
  <2>3. OwnerInv'
    BY <1>26
       DEF SessionResumed, IInv, OwnerInv, ClosedOnce, EverySpeechIsOwned, EverySessionIsOwned,
           Stopped
  <2> QED
    BY <2>1, <2>2, <2>3
<1>27. CASE UNCHANGED vars
  BY <1>27, KeepsStops DEF vars
<1> QED
  BY <1>1, <1>2, <1>3, <1>4, <1>5, <1>6, <1>7, <1>8, <1>9, <1>10, <1>11, <1>12, <1>13, <1>14,
     <1>15, <1>16, <1>17, <1>18, <1>19, <1>20, <1>21, <1>22, <1>23, <1>24, <1>25, <1>26, <1>27
     DEF Next, Monitor, AskAnswered, Starting, Korsi, Stopping, TearingDown

\* Each action keeps account of what the room was let go of with.
LEMMA ReleaseStep ==
  ASSUME IInv, [Next]_vars
  PROVE  ReleaseInv'
PROOF
<1> USE DEF room, reader, hpb, korsi, watcher
<1>1. ASSUME NEW a \in Asks, Joined(a) PROVE ReleaseInv'
  BY <1>1 DEF Joined, IInv, TypeOK, ReleaseInv, Waited
<1>2. ASSUME NEW e \in Enders, EndsForEveryone(e) PROVE ReleaseInv'
  BY <1>2
     DEF EndsForEveryone, CallEnds, AnnounceEnded, IInv, TypeOK, ReleaseInv, Waited, Idle, Stops
<1>3. ASSUME NEW e \in Enders, LastLeaves(e) PROVE ReleaseInv'
  BY <1>3 DEF LastLeaves, CallEnds, AnnounceEnded, IInv, TypeOK, ReleaseInv, Waited, Idle, Stops
<1>4. ASSUME NEW e \in Enders, OtherUpdate(e) PROVE ReleaseInv'
  BY <1>4 DEF OtherUpdate, AnnounceEnded, IInv, TypeOK, ReleaseInv, Waited, Idle, Stops
<1>5. CASE ClientDies
  BY <1>5 DEF ClientDies, IInv, ReleaseInv, Waited
<1>6. ASSUME NEW a \in Asks, AskBegins(a) PROVE ReleaseInv'
  BY <1>6 DEF AskBegins, AskMoves, IInv, ReleaseInv, Waited
<1>7. ASSUME NEW a \in Asks, Declined(a) PROVE ReleaseInv'
  BY <1>7 DEF Declined, AskMoves, IInv, ReleaseInv, Waited
<1>8. ASSUME NEW a \in Asks, AskFails(a) PROVE ReleaseInv'
  BY <1>8 DEF AskFails, AskMoves, IInv, ReleaseInv, Waited
<1>9. ASSUME NEW a \in Asks, Granted(a) PROVE ReleaseInv'
  BY <1>9 DEF Granted, StartReading, IInv, TypeOK, ReleaseInv, Waited
<1>10. ASSUME NEW a \in Asks, StartWaited(a) PROVE ReleaseInv'
  BY <1>10 DEF StartWaited, StartReading, IInv, TypeOK, ReleaseInv, Waited
<1>11. ASSUME NEW a \in Asks, SpeechOpens(a) PROVE ReleaseInv'
  BY <1>11 DEF SpeechOpens, AskMoves, IInv, LockInv, ReleaseInv, Waited
<1>12. ASSUME NEW a \in Asks, SpeechFails(a) PROVE ReleaseInv'
  BY <1>12 DEF SpeechFails, AskMoves, IInv, ReleaseInv, Waited
<1>13. ASSUME NEW a \in Asks, NEW arrives \in BOOLEAN, FailedStartCloses(a, arrives)
       PROVE ReleaseInv'
  BY <1>13, RoomAssumption DEF FailedStartCloses, AskMoves, IInv, LockInv, ReleaseInv, Waited
<1>14. ASSUME NEW a \in Asks, KorsiOpens(a) PROVE ReleaseInv'
  BY <1>14 DEF KorsiOpens, IInv, ReleaseInv, Waited
<1>15. ASSUME NEW a \in Asks, KorsiSweeps(a) PROVE ReleaseInv'
  BY <1>15 DEF KorsiSweeps, IInv, ReleaseInv, Waited
<1>16. ASSUME NEW a \in Asks, Gone(a) PROVE ReleaseInv'
  BY <1>16, OutcomeReleases DEF Gone, Stops
<1>17. ASSUME NEW s \in Stops, EndBegins(s) PROVE ReleaseInv'
  <2>1. CASE held
    BY <1>17, <2>1, OutcomeReleases DEF EndBegins
  <2>2. CASE ~held
    <3>1. s # Release /\ Release \in Stops
      BY <1>17, RoomAssumption DEF EndBegins, IInv, StopInv, Stops
    <3>2. stop'[Release] = stop[Release]
      BY <1>17, <2>2, <3>1 DEF EndBegins, IInv, TypeOK
    <3> QED
      BY <1>17, <2>2, <3>2 DEF EndBegins, IInv, ReleaseInv, Waited
  <2> QED
    BY <2>1, <2>2
<1>18. ASSUME NEW s \in Stops, StopWaited(s) PROVE ReleaseInv'
  BY <1>18, OutcomeReleases DEF StopWaited
<1>19. ASSUME NEW s \in Stops, HangUp(s) PROVE ReleaseInv'
  BY <1>19 DEF HangUp, IInv, ReleaseInv, Waited
<1>20. ASSUME NEW s \in Stops, NEW arrives \in BOOLEAN, StopCloses(s, arrives) PROVE ReleaseInv'
  BY <1>20 DEF StopCloses, IInv, ReleaseInv, Waited
<1>21. CASE DeclineExpires
  BY <1>21 DEF DeclineExpires, IInv, ReleaseInv, Waited
<1>22. CASE ClientCloses
  BY <1>22 DEF ClientCloses, IInv, ReleaseInv, Waited
<1>23. CASE ReleaseRoom
  BY <1>23, LetGoReleases DEF ReleaseRoom
<1>24. CASE WatcherStops
  <2>1. CASE LetGoOfRoom
    BY <1>24, <2>1, LetGoReleases DEF WatcherStops
  <2>2. CASE ReleaseCutShort
    <3>1. ~held /\ Release \in Stops
      BY <2>2 DEF ReleaseCutShort, IInv, StopInv, Stops
    <3>2. stop'[Release].pc = "abandoned"
      BY <2>2, <3>1 DEF ReleaseCutShort, IInv, TypeOK
    <3> QED
      BY <1>24, <2>2, <3>1, <3>2 DEF WatcherStops, ReleaseCutShort, IInv, ReleaseInv, Waited
  <2>3. CASE NothingToCut
    BY <1>24, <2>3 DEF WatcherStops, NothingToCut, IInv, ReleaseInv, Waited
  <2> QED
    BY <1>24, <2>1, <2>2, <2>3 DEF WatcherStops
<1>25. CASE ConnectionLost \/ SessionResumed
  BY <1>25 DEF ConnectionLost, SessionResumed, IInv, ReleaseInv, Waited
<1>26. CASE UNCHANGED vars
  BY <1>26 DEF vars, IInv, ReleaseInv, Waited
<1> QED
  BY <1>1, <1>2, <1>3, <1>4, <1>5, <1>6, <1>7, <1>8, <1>9, <1>10, <1>11, <1>12, <1>13, <1>14,
     <1>15, <1>16, <1>17, <1>18, <1>19, <1>20, <1>21, <1>22, <1>23, <1>24, <1>25, <1>26
     DEF Next, Monitor, AskAnswered, Starting, Korsi, Stopping, TearingDown

\* Each action keeps the types.
LEMMA TypeStep ==
  ASSUME IInv, [Next]_vars
  PROVE  TypeOK'
PROOF
<1> USE DEF room, reader, hpb, korsi, watcher
<1>0. StopType'
  BY CoreStep
<1>1. ASSUME NEW a \in Asks, Joined(a) PROVE FlagType' /\ AskType' /\ SessionType'
  <2>1. FlagType'
    BY <1>1, Zenon DEF Joined, IInv, TypeOK, FlagType
  <2>2. AskType'
    BY <1>1 DEF Joined, IInv, TypeOK, AskType
  <2>3. SessionType'
    BY <1>1 DEF Joined, IInv, TypeOK, SessionType
  <2> QED
    BY <2>1, <2>2, <2>3
<1>2. ASSUME NEW e \in Enders, EndsForEveryone(e) PROVE FlagType' /\ AskType' /\ SessionType'
  <2>1. FlagType'
    BY <1>2, Zenon DEF EndsForEveryone, CallEnds, AnnounceEnded, IInv, TypeOK, FlagType
  <2>2. AskType'
    BY <1>2 DEF EndsForEveryone, CallEnds, IInv, TypeOK, AskType
  <2>3. SessionType'
    BY <1>2 DEF EndsForEveryone, CallEnds, IInv, TypeOK, SessionType
  <2> QED
    BY <2>1, <2>2, <2>3
<1>3. ASSUME NEW e \in Enders, LastLeaves(e) PROVE FlagType' /\ AskType' /\ SessionType'
  <2>1. FlagType'
    BY <1>3, Zenon DEF LastLeaves, CallEnds, AnnounceEnded, IInv, TypeOK, FlagType
  <2>2. AskType'
    BY <1>3 DEF LastLeaves, CallEnds, IInv, TypeOK, AskType
  <2>3. SessionType'
    BY <1>3 DEF LastLeaves, CallEnds, IInv, TypeOK, SessionType
  <2> QED
    BY <2>1, <2>2, <2>3
<1>4. ASSUME NEW e \in Enders, OtherUpdate(e) PROVE FlagType' /\ AskType' /\ SessionType'
  <2>1. FlagType'
    BY <1>4, Zenon DEF OtherUpdate, AnnounceEnded, IInv, TypeOK, FlagType
  <2>2. AskType'
    BY <1>4 DEF OtherUpdate, IInv, TypeOK, AskType
  <2>3. SessionType'
    BY <1>4 DEF OtherUpdate, IInv, TypeOK, SessionType
  <2> QED
    BY <2>1, <2>2, <2>3
<1>5. ASSUME ClientDies PROVE FlagType' /\ AskType' /\ SessionType'
  <2>1. FlagType'
    BY <1>5, Zenon DEF ClientDies, SayBye, IInv, TypeOK, FlagType
  <2>2. AskType'
    BY <1>5 DEF ClientDies, IInv, TypeOK, AskType
  <2>3. SessionType'
    BY <1>5 DEF ClientDies, IInv, TypeOK, SessionType
  <2> QED
    BY <2>1, <2>2, <2>3
<1>6. ASSUME NEW a \in Asks, AskBegins(a) PROVE FlagType' /\ AskType' /\ SessionType'
  <2>1. FlagType'
    BY <1>6, Zenon DEF AskBegins, IInv, TypeOK, FlagType
  <2>2. AskType'
    BY <1>6 DEF AskBegins, AskMoves, IInv, TypeOK, AskType
  <2>3. SessionType'
    BY <1>6 DEF AskBegins, IInv, TypeOK, SessionType
  <2> QED
    BY <2>1, <2>2, <2>3
<1>7. ASSUME NEW a \in Asks, Declined(a) PROVE FlagType' /\ AskType' /\ SessionType'
  <2>1. FlagType'
    BY <1>7, Zenon DEF Declined, IInv, TypeOK, FlagType
  <2>2. AskType'
    BY <1>7 DEF Declined, AskMoves, IInv, TypeOK, AskType
  <2>3. SessionType'
    BY <1>7 DEF Declined, IInv, TypeOK, SessionType
  <2> QED
    BY <2>1, <2>2, <2>3
<1>8. ASSUME NEW a \in Asks, AskFails(a) PROVE FlagType' /\ AskType' /\ SessionType'
  <2>1. FlagType'
    BY <1>8, Zenon DEF AskFails, IInv, TypeOK, FlagType
  <2>2. AskType'
    BY <1>8 DEF AskFails, AskMoves, IInv, TypeOK, AskType
  <2>3. SessionType'
    BY <1>8 DEF AskFails, IInv, TypeOK, SessionType
  <2> QED
    BY <2>1, <2>2, <2>3
<1>9. ASSUME NEW a \in Asks, Granted(a) PROVE FlagType' /\ AskType' /\ SessionType'
  <2>1. FlagType'
    BY <1>9, Zenon DEF Granted, IInv, TypeOK, FlagType
  <2>2. AskType'
    BY <1>9 DEF Granted, StartReading, TakeLock, IInv, TypeOK, AskType
  <2>3. SessionType'
    BY <1>9 DEF Granted, IInv, TypeOK, SessionType
  <2> QED
    BY <2>1, <2>2, <2>3
<1>10. ASSUME NEW a \in Asks, StartWaited(a) PROVE FlagType' /\ AskType' /\ SessionType'
  <2>1. FlagType'
    BY <1>10, Zenon DEF StartWaited, IInv, TypeOK, FlagType
  <2>2. AskType'
    BY <1>10 DEF StartWaited, StartReading, TakeLock, IInv, TypeOK, AskType
  <2>3. SessionType'
    BY <1>10 DEF StartWaited, IInv, TypeOK, SessionType
  <2> QED
    BY <2>1, <2>2, <2>3
<1>11. ASSUME NEW a \in Asks, SpeechOpens(a) PROVE FlagType' /\ AskType' /\ SessionType'
  <2>1. FlagType'
    BY <1>11, Zenon DEF SpeechOpens, IInv, TypeOK, FlagType
  <2>2. AskType'
    BY <1>11 DEF SpeechOpens, AskMoves, IInv, TypeOK, AskType
  <2>3. SessionType'
    BY <1>11 DEF SpeechOpens, IInv, TypeOK, SessionType
  <2> QED
    BY <2>1, <2>2, <2>3
<1>12. ASSUME NEW a \in Asks, SpeechFails(a) PROVE FlagType' /\ AskType' /\ SessionType'
  <2>1. FlagType'
    BY <1>12, Zenon DEF SpeechFails, IInv, TypeOK, FlagType
  <2>2. AskType'
    BY <1>12 DEF SpeechFails, AskMoves, IInv, TypeOK, AskType
  <2>3. SessionType'
    BY <1>12 DEF SpeechFails, IInv, TypeOK, SessionType
  <2> QED
    BY <2>1, <2>2, <2>3
<1>13. ASSUME NEW a \in Asks, NEW arrives \in BOOLEAN, FailedStartCloses(a, arrives)
       PROVE FlagType' /\ AskType' /\ SessionType'
  <2>1. FlagType'
    BY <1>13, Zenon DEF FailedStartCloses, IInv, TypeOK, FlagType
  <2>2. AskType'
    BY <1>13 DEF FailedStartCloses, AskMoves, LetGoOfLock, IInv, TypeOK, AskType
  <2>3. SessionType'
    BY <1>13 DEF FailedStartCloses, GiveBack, CloseSession, IInv, TypeOK, SessionType
  <2> QED
    BY <2>1, <2>2, <2>3
<1>14. ASSUME NEW a \in Asks, KorsiOpens(a) PROVE FlagType' /\ AskType' /\ SessionType'
  <2>1. FlagType'
    BY <1>14, Zenon DEF KorsiOpens, IInv, TypeOK, FlagType
  <2>2. AskType'
    BY <1>14 DEF KorsiOpens, IInv, TypeOK, AskType
  <2>3. SessionType'
    BY <1>14 DEF KorsiOpens, IInv, TypeOK, SessionType
  <2> QED
    BY <2>1, <2>2, <2>3
<1>15. ASSUME NEW a \in Asks, KorsiSweeps(a) PROVE FlagType' /\ AskType' /\ SessionType'
  <2>1. FlagType'
    BY <1>15, Zenon DEF KorsiSweeps, IInv, TypeOK, FlagType
  <2>2. AskType'
    BY <1>15 DEF KorsiSweeps, IInv, TypeOK, AskType
  <2>3. SessionType'
    BY <1>15 DEF KorsiSweeps, IInv, TypeOK, SessionType
  <2> QED
    BY <2>1, <2>2, <2>3
<1>16. ASSUME NEW a \in Asks, Gone(a) PROVE FlagType' /\ AskType' /\ SessionType'
  <2>1. FlagType'
    BY <1>16, Zenon DEF Gone, TakeOver, StopLocked, StopReading, IInv, TypeOK, FlagType
  <2>2. AskType'
    BY <1>16 DEF Gone, TakeOver, StopLocked, StopReading, IInv, TypeOK, AskType
  <2>3. SessionType'
    BY <1>16 DEF Gone, IInv, TypeOK, SessionType
  <2> QED
    BY <2>1, <2>2, <2>3
<1>17. ASSUME NEW s \in Stops, EndBegins(s) PROVE FlagType' /\ AskType' /\ SessionType'
  <2>1. FlagType'
    BY <1>17, Zenon DEF EndBegins, TakeOver, StopLocked, StopReading, IInv, TypeOK, FlagType
  <2>2. AskType'
    BY <1>17 DEF EndBegins, TakeOver, StopLocked, StopReading, IInv, TypeOK, AskType
  <2>3. SessionType'
    BY <1>17 DEF EndBegins, IInv, TypeOK, SessionType
  <2> QED
    BY <2>1, <2>2, <2>3
<1>18. ASSUME NEW s \in Stops, StopWaited(s) PROVE FlagType' /\ AskType' /\ SessionType'
  <2>1. FlagType'
    BY <1>18, Zenon DEF StopWaited, TakeOver, StopLocked, StopWaited, IInv, TypeOK, FlagType
  <2>2. AskType'
    BY <1>18 DEF StopWaited, TakeOver, StopLocked, StopWaited, IInv, TypeOK, AskType
  <2>3. SessionType'
    BY <1>18 DEF StopWaited, StopWaited, IInv, TypeOK, SessionType
  <2> QED
    BY <2>1, <2>2, <2>3
<1>19. ASSUME NEW s \in Stops, HangUp(s) PROVE FlagType' /\ AskType' /\ SessionType'
  <2>1. FlagType'
    BY <1>19, Zenon DEF HangUp, LeaveCall, IInv, TypeOK, FlagType
  <2>2. AskType'
    BY <1>19 DEF HangUp, IInv, TypeOK, AskType
  <2>3. SessionType'
    BY <1>19 DEF HangUp, IInv, TypeOK, SessionType
  <2> QED
    BY <2>1, <2>2, <2>3
<1>20. ASSUME NEW s \in Stops, NEW arrives \in BOOLEAN, StopCloses(s, arrives)
       PROVE FlagType' /\ AskType' /\ SessionType'
  <2>1. FlagType'
    BY <1>20, Zenon DEF StopCloses, IInv, TypeOK, FlagType
  <2>2. AskType'
    BY <1>20 DEF StopCloses, IInv, TypeOK, AskType
  <2>3. SessionType'
    BY <1>20 DEF StopCloses, CloseSession, IInv, TypeOK, SessionType, StopState
  <2> QED
    BY <2>1, <2>2, <2>3
<1>21. ASSUME DeclineExpires PROVE FlagType' /\ AskType' /\ SessionType'
  <2>1. FlagType'
    BY <1>21, Zenon DEF DeclineExpires, IInv, TypeOK, FlagType
  <2>2. AskType'
    BY <1>21 DEF DeclineExpires, IInv, TypeOK, AskType
  <2>3. SessionType'
    BY <1>21 DEF DeclineExpires, IInv, TypeOK, SessionType
  <2> QED
    BY <2>1, <2>2, <2>3
<1>22. ASSUME ClientCloses PROVE FlagType' /\ AskType' /\ SessionType'
  <2>1. FlagType'
    BY <1>22, Zenon DEF ClientCloses, SayBye, IInv, TypeOK, FlagType
  <2>2. AskType'
    BY <1>22 DEF ClientCloses, IInv, TypeOK, AskType
  <2>3. SessionType'
    BY <1>22 DEF ClientCloses, IInv, TypeOK, SessionType
  <2> QED
    BY <2>1, <2>2, <2>3
<1>23. ASSUME ReleaseRoom PROVE FlagType' /\ AskType' /\ SessionType'
  <2>1. FlagType'
    BY <1>23, Zenon
       DEF ReleaseRoom, LetGoOfRoom, LetGoOfRoom, StopReading, StopLocked, TakeOver, IInv,
           TypeOK, FlagType
  <2>2. AskType'
    BY <1>23
       DEF ReleaseRoom, LetGoOfRoom, LetGoOfRoom, StopReading, StopLocked, TakeOver, Underway,
           IInv, TypeOK, AskType
  <2>3. SessionType'
    BY <1>23 DEF ReleaseRoom, IInv, TypeOK, SessionType
  <2> QED
    BY <2>1, <2>2, <2>3
<1>24. ASSUME WatcherStops PROVE FlagType' /\ AskType' /\ SessionType'
  <2>1. FlagType'
    BY <1>24, Zenon
       DEF WatcherStops, LetGoOfRoom, ReleaseCutShort, NothingToCut, StopReading, StopLocked,
           TakeOver, IInv, TypeOK, FlagType
  <2>2. AskType'
    BY <1>24
       DEF WatcherStops, LetGoOfRoom, ReleaseCutShort, NothingToCut, StopReading, StopLocked,
           TakeOver, Underway, IInv, TypeOK, AskType
  <2>3. SessionType'
    BY <1>24 DEF WatcherStops, IInv, TypeOK, SessionType
  <2> QED
    BY <2>1, <2>2, <2>3
<1>25. ASSUME ConnectionLost \/ SessionResumed PROVE FlagType' /\ AskType' /\ SessionType'
  <2>1. FlagType'
    BY <1>25, Zenon DEF ConnectionLost, SessionResumed, Reannounce, IInv, TypeOK, FlagType
  <2>2. AskType'
    BY <1>25 DEF ConnectionLost, SessionResumed, IInv, TypeOK, AskType
  <2>3. SessionType'
    BY <1>25 DEF ConnectionLost, SessionResumed, IInv, TypeOK, SessionType
  <2> QED
    BY <2>1, <2>2, <2>3
<1>26. ASSUME UNCHANGED vars PROVE FlagType' /\ AskType' /\ SessionType'
  BY <1>26 DEF vars, IInv, TypeOK, FlagType, AskType, SessionType
<1>27. FlagType' /\ AskType' /\ SessionType'
  BY <1>1, <1>2, <1>3, <1>4, <1>5, <1>6, <1>7, <1>8, <1>9, <1>10, <1>11, <1>12, <1>13, <1>14,
     <1>15, <1>16, <1>17, <1>18, <1>19, <1>20, <1>21, <1>22, <1>23, <1>24, <1>25, <1>26
     DEF Next, Monitor, AskAnswered, Starting, Korsi, Stopping, TearingDown
<1> QED
  BY <1>0, <1>27 DEF TypeOK, FlagType, AskType, StopType, SessionType

\* A client that has just been connected.
LEMMA Initially ==
  ASSUME Init
  PROVE  IInv
PROOF
<1> USE DEF Init
<1>1. TypeOK
  <2>1. FlagType
    BY Zenon DEF FlagType
  <2>2. AskType /\ StopType
    BY DEF AskType, StopType, Idle, StopState
  <2>3. SessionType
    BY DEF SessionType
  <2> QED
    BY <2>1, <2>2, <2>3 DEF TypeOK, FlagType, AskType, StopType, SessionType
<1>2. LockInv
  BY RoomAssumption DEF LockInv
<1>3. StopInv
  BY  DEF StopInv, Idle, Stops
<1>4. OwnerInv
  BY RoomAssumption
     DEF OwnerInv, ClosedOnce, EverySpeechIsOwned, EverySessionIsOwned, Stopped, Idle
<1>5. ReleaseInv
  BY DEF ReleaseInv
<1> QED
  BY <1>1, <1>2, <1>3, <1>4, <1>5 DEF IInv

\* The inductive invariant of the reading of a room.
THEOREM Inductive == Spec => []IInv
PROOF
<1>1. Init => IInv
  BY Initially
<1>2. IInv /\ [Next]_vars => IInv'
  BY TypeStep, CoreStep, ReleaseStep DEF IInv
<1> QED
  BY <1>1, <1>2, PTL DEF Spec

\* Every reachable state of the reading of a room is well typed.
THEOREM TypeCorrect == Spec => []TypeOK
PROOF
<1>1. IInv => TypeOK
  BY DEF IInv
<1> QED
  BY <1>1, Inductive, PTL

\* No session is closed twice, however many stoppers meet (spreed_client.py:837-839).
THEOREM OneClose == Spec => []ClosedOnce
PROOF
<1>1. IInv => ClosedOnce
  BY DEF IInv, OwnerInv
<1> QED
  BY <1>1, Inductive, PTL

\* An open speech connection is the reader's own or that of a stop which took it over.
THEOREM SpeechOwned == Spec => []EverySpeechIsOwned
PROOF
<1>1. IInv => EverySpeechIsOwned
  BY DEF IInv, OwnerInv
<1> QED
  BY <1>1, Inductive, PTL

\* A session open at Korsi has an owner, or is one of the known leaks.
THEOREM SessionOwned == Spec => []EverySessionIsOwned
PROOF
<1>1. IInv => EverySessionIsOwned
  BY DEF IInv, OwnerInv
<1> QED
  BY <1>1, Inductive, PTL

\* A bridge that reads nothing and tears nothing down is in a call only when it has said
\* goodbye on a connection that was lost (spreed_client.py:645-670), however often the
\* connection is lost and resumed.
THEOREM Silent == Spec => []SilentOutsideTheCall
PROOF
<1>1. IInv => SilentOutsideTheCall
  BY DEF IInv, StopInv, SilentOutsideTheCall, Quiet, Idle
<1> QED
  BY <1>1, Inductive, PTL

\* The sessions that outlive stop() (call_watcher.py:75-98), also one that cancels a release
\* under way, are those of the named leaks.
THEOREM RestClosed == Spec => []StopClosesTheRest
PROOF
<1>1. IInv => StopClosesTheRest
  <2> SUFFICES ASSUME IInv, stopping, stop[Release].pc \in {"idle", "abandoned"},
                      NEW a \in Asks, session[a] = "open"
               PROVE  GrantedLate(a) \/ EndedElsewhere(a) \/ CutShort(a) \/ Forgotten(a)
    BY DEF StopClosesTheRest
  <2>1. ~held
    BY DEF IInv, ReleaseInv
  <2>2. CASE ask[a] \in {"asking", "granted", "opening"}
    BY <2>1, <2>2 DEF IInv, ReleaseInv, GrantedLate
  <2>3. CASE reading /\ cur = a
    BY <2>1, <2>3 DEF IInv, ReleaseInv, Waited, GrantedLate, CutShort
  <2>4. CASE Stopped(a)
    <3>1. stop[Release].session = a => stop[Release].pc = "abandoned"
      BY RoomAssumption DEF IInv, TypeOK, StopState, Stops
    <3> QED
      BY <2>4, <3>1 DEF Stopped, EndedElsewhere, CutShort
  <2>5. CASE ask[a] \in {"failed", "failing", "dropped"} \/ closes[a] > 0
    BY <2>5 DEF Forgotten
  <2> QED
    BY <2>2, <2>3, <2>4, <2>5 DEF IInv, OwnerInv, EverySessionIsOwned
<1> QED
  BY <1>1, Inductive, PTL
------------------------------------------------------------------------------
(* The ledger: each step is one of SessionLedger's, or leaves it alone.    *)

\* The ledger is made of these.
LEMMA LedgerStands ==
  ASSUME UNCHANGED <<Opening, reading, cur, speech, closes>>,
         \A a \in Asks : Stopped(a)' <=> Stopped(a)
  PROVE  UNCHANGED Ledger!vars
PROOF
<1>1. BeingRead' = BeingRead
  BY DEF BeingRead
<1>2. Ending' = Ending
  BY DEF Ending
<1> QED
  BY <1>1, <1>2 DEF Ledger!vars

\* A stop that moves on with the session it has, or without one, is no news.
LEMMA PutStands ==
  ASSUME IInv, NEW s \in Stops, NEW r \in StopState, Puts(s, r), r.session = stop[s].session,
         UNCHANGED <<ask, reading, cur, speech, closes>>
  PROVE  UNCHANGED Ledger!vars
PROOF
<1>1. \A t \in Stops : stop'[t].session = stop[t].session
  BY DEF Puts, IInv, TypeOK
<1>2. \A a \in Asks : Stopped(a)' <=> Stopped(a)
  BY <1>1 DEF Stopped
<1>3. Opening' = Opening
  BY DEF Opening
<1> QED
  BY <1>2, <1>3, LedgerStands

\* An announced end is no news either.
LEMMA AnnounceStands ==
  ASSUME IInv, NEW e \in Enders, AnnounceEnded(e) \/ UNCHANGED stop,
         UNCHANGED <<ask, reading, cur, speech, closes>>
  PROVE  UNCHANGED Ledger!vars
PROOF
<1>1. \A t \in Stops : stop'[t].session = stop[t].session
  BY DEF AnnounceEnded, IInv, TypeOK, StopState, Stops
<1>2. \A a \in Asks : Stopped(a)' <=> Stopped(a)
  BY <1>1 DEF Stopped
<1>3. Opening' = Opening
  BY DEF Opening
<1> QED
  BY <1>2, <1>3, LedgerStands

\* A step of an ask that neither begins nor ends an attempt to read.
LEMMA AskStands ==
  ASSUME IInv, NEW a \in Asks, NEW state, ask' = [ask EXCEPT ![a] = state],
         ask[a] \in {"opening", "failing"} <=> state \in {"opening", "failing"},
         UNCHANGED <<stop, reading, cur, speech, closes>>
  PROVE  UNCHANGED Ledger!vars
PROOF
<1>1. Opening' = Opening
  BY DEF Opening, IInv, TypeOK
<1>2. \A b \in Asks : Stopped(b)' <=> Stopped(b)
  BY DEF Stopped
<1> QED
  BY <1>1, <1>2, LedgerStands

\* A stop_reading takes the session that is read, or none.
LEMMA StopReadingLedger ==
  ASSUME IInv, NEW s \in Stops, Fit(s), StopReading(s) \/ (StopLocked(s) /\ lock = None),
         UNCHANGED <<ask, speech, closes>>
  PROVE  Ledger!Next \/ UNCHANGED Ledger!vars
PROOF
<1>1. CASE TakesOver(s)
  <2>1. /\ cur \in Asks /\ cur # None /\ ~Stopped(cur)
        /\ reading /\ ~reading'
    BY <1>1, RoomAssumption DEF IInv, LockInv, OwnerInv, TakesOver, TakeOver
  <2>2. \A a \in Asks : Stopped(a)' <=> Stopped(a) \/ a = cur
    <3>1. stop[s].session = None
      BY DEF Fit
    <3> QED
      BY <1>1, <3>1, TakesOverOwns
  <2>3. BeingRead = {cur} /\ BeingRead' = {}
    BY <2>1 DEF BeingRead
  <2>4. Ending' = Ending \cup {cur}
    BY <2>1, <2>2 DEF Ending
  <2>5. Opening' = Opening
    BY DEF Opening
  <2>6. Ledger!LetGo(cur)
    BY <2>3, <2>4, <2>5 DEF Ledger!LetGo
  <2> QED
    BY <2>1, <2>6 DEF Ledger!Next
<1>2. CASE FindsNothing(s)
  <2>1. AfterStop(s) \in StopState /\ AfterStop(s).session = None /\ stop[s].session = None
    BY DEF AfterStop, StopState, Fit
  <2> QED
    BY <1>2, <2>1, PutStands DEF FindsNothing, Puts
<1>3. CASE Waits(s)
  <2> DEFINE r == [pc |-> "waiting", session |-> None]
  <2>1. r \in StopState /\ r.session = stop[s].session
    BY DEF StopState, Fit
  <2>2. [stop[s] EXCEPT !.pc = "waiting"] = r
    BY DEF Fit, IInv, TypeOK, StopState
  <2>3. Puts(s, r)
    BY <1>3, <2>2 DEF Waits, Puts
  <2> HIDE DEF r
  <2> QED
    BY <1>3, <2>1, <2>3, PutStands DEF Waits
<1> QED
  BY <1>1, <1>2, <1>3, Outcomes

\* A session that is granted is opened if nothing else is opened or read.
LEMMA StartLedger ==
  ASSUME IInv, NEW a \in Asks, StartReading(a), lock = None, ask[a] \in {"asking", "granted"},
         UNCHANGED <<stop, reading, speech, closes>>
  PROVE  Ledger!Next \/ UNCHANGED Ledger!vars
PROOF
<1>1. CASE reading
  BY <1>1, AskStands DEF StartReading
<1>2. CASE ~reading
  <2>1. Opening = {} /\ BeingRead = {} /\ BeingRead' = {}
    BY <1>2, RoomAssumption DEF IInv, LockInv, Opening, BeingRead
  <2>2. ~Stopped(a) /\ closes[a] = 0
    BY DEF IInv, TypeOK, OwnerInv
  <2>3. ask' = [ask EXCEPT ![a] = "opening"]
    BY <1>2 DEF StartReading
  <2>4. Opening' = {a}
    BY <2>1, <2>3 DEF Opening, IInv, TypeOK
  <2>5. Ending' = Ending /\ a \notin Ending
    BY <2>2 DEF Ending, Stopped
  <2> QED
    BY <2>1, <2>2, <2>4, <2>5 DEF Ledger!Next, Ledger!Open
<1> QED
  BY <1>1, <1>2

\* The session at the end of an attempt to read is the one that was being opened.
LEMMA OneOpening ==
  ASSUME IInv, NEW a \in Asks, ask[a] \in {"opening", "failing"}
  PROVE  Opening = {a} /\ BeingRead = {} /\ ~Stopped(a) /\ closes[a] = 0 /\ ~speech[a]
PROOF
<1>1. lock = a /\ ~reading /\ a # None
  BY RoomAssumption DEF IInv, LockInv
<1>2. ~Stopped(a) /\ closes[a] = 0
  BY DEF IInv, TypeOK, OwnerInv
<1>3. ~speech[a]
  BY <1>1, <1>2 DEF IInv, OwnerInv, EverySpeechIsOwned
<1>4. Opening = {a} /\ BeingRead = {}
  BY <1>1 DEF IInv, LockInv, Opening, BeingRead
<1> QED
  BY <1>2, <1>3, <1>4

\* Each action of the room is an action of the ledger or none.
LEMMA LedgerStep ==
  ASSUME IInv, [Next]_vars
  PROVE  Ledger!Next \/ UNCHANGED Ledger!vars
PROOF
<1> USE DEF room, reader, hpb, korsi, watcher
<1> DEFINE Goal == Ledger!Next \/ UNCHANGED Ledger!vars
<1>1. ASSUME NEW a \in Asks, Joined(a) PROVE Goal
  <2>1. CASE UNCHANGED ask
    BY <1>1, <2>1, LedgerStands DEF Joined, Opening, Stopped
  <2>2. CASE ask[a] = "unused" /\ ask' = [ask EXCEPT ![a] = "new"]
    BY <1>1, <2>2, AskStands DEF Joined
  <2> QED
    BY <1>1, <2>1, <2>2 DEF Joined
<1>2. ASSUME NEW e \in Enders, EndsForEveryone(e) \/ LastLeaves(e) \/ OtherUpdate(e) PROVE Goal
  BY <1>2, AnnounceStands DEF EndsForEveryone, LastLeaves, OtherUpdate, CallEnds
<1>3. CASE ClientDies \/ ConnectionLost \/ SessionResumed \/ DeclineExpires \/ UNCHANGED vars
  BY <1>3, LedgerStands
     DEF ClientDies, ConnectionLost, SessionResumed, DeclineExpires, vars, Opening, Stopped
<1>4. ASSUME NEW a \in Asks, AskBegins(a) \/ Declined(a) \/ AskFails(a) \/ SpeechFails(a)
      PROVE  Goal
  BY <1>4, AskStands DEF AskBegins, Declined, AskFails, SpeechFails, AskMoves
<1>5. ASSUME NEW a \in Asks, Granted(a) PROVE Goal
  <2>1. CASE LockFree
    BY <1>5, <2>1, StartLedger DEF Granted, LockFree
  <2>2. CASE ~LockFree
    BY <1>5, <2>2, AskStands DEF Granted
  <2> QED
    BY <2>1, <2>2
<1>6. ASSUME NEW a \in Asks, StartWaited(a) PROVE Goal
  BY <1>6, StartLedger DEF StartWaited
<1>7. ASSUME NEW a \in Asks, SpeechOpens(a) PROVE Goal
  <2>1. Opening = {a} /\ BeingRead = {}
    BY <1>7, OneOpening DEF SpeechOpens, AskMoves
  <2>2. Opening' = {}
    BY <1>7, <2>1 DEF SpeechOpens, AskMoves, Opening, IInv, TypeOK
  <2>3. BeingRead' = {a}
    <3>1. cur = a
      BY <1>7, RoomAssumption DEF SpeechOpens, AskMoves, IInv, LockInv
    <3> QED
      BY <1>7, <3>1 DEF SpeechOpens, BeingRead
  <2>4. Ending' = Ending
    BY <1>7 DEF SpeechOpens, Ending, Stopped
  <2>5. Ledger!Read(a)
    BY <1>7, <2>1, <2>2, <2>3, <2>4 DEF SpeechOpens, Ledger!Read
  <2> QED
    BY <2>5 DEF Ledger!Next
<1>8. ASSUME NEW a \in Asks, NEW arrives \in BOOLEAN, FailedStartCloses(a, arrives) PROVE Goal
  <2>1. Opening = {a} /\ BeingRead = {} /\ closes[a] = 0 /\ ~speech[a]
    BY <1>8, OneOpening DEF FailedStartCloses, AskMoves
  <2>2. Opening' = {}
    BY <1>8, <2>1 DEF FailedStartCloses, AskMoves, Opening, IInv, TypeOK
  <2>3. BeingRead' = {}
    BY <1>8, RoomAssumption DEF FailedStartCloses, BeingRead
  <2>4. Ending' = Ending
    BY <1>8 DEF FailedStartCloses, Ending, Stopped
  <2>5. closes' = [closes EXCEPT ![a] = 1]
    BY <1>8, <2>1 DEF FailedStartCloses, GiveBack, CloseSession
  <2>6. Ledger!GiveUp(a)
    BY <1>8, <2>1, <2>2, <2>3, <2>4, <2>5 DEF FailedStartCloses, Ledger!GiveUp, Ledger!Tell
  <2> QED
    BY <2>6 DEF Ledger!Next
<1>9. ASSUME NEW a \in Asks, KorsiOpens(a) \/ KorsiSweeps(a) PROVE Goal
  BY <1>9, LedgerStands DEF KorsiOpens, KorsiSweeps, Opening, Stopped
<1>10. ASSUME NEW a \in Asks, Gone(a) PROVE Goal
  <2>1. a \in Stops /\ Fit(a)
    BY <1>10, RoomAssumption DEF Gone, Fit, Idle, Stops
  <2> QED
    BY <1>10, <2>1, StopReadingLedger DEF Gone
<1>11. ASSUME NEW s \in Stops, EndBegins(s) PROVE Goal
  <2>1. stop[s].pc = "new" /\ stop[s].session = None /\ s \in Enders
    BY <1>11 DEF EndBegins, IInv, TypeOK, StopState, StopInv
  <2>2. Fit(s)
    BY <1>11, <2>1, RoomAssumption DEF EndBegins, Fit
  <2>3. CASE held
    BY <1>11, <2>2, <2>3, StopReadingLedger DEF EndBegins
  <2>4. CASE ~held
    <3>1. Puts(s, Idle) /\ Idle \in StopState /\ Idle.session = None
      BY <1>11, <2>4 DEF EndBegins, Puts, Idle, StopState
    <3> QED
      BY <1>11, <2>1, <2>4, <3>1, PutStands DEF EndBegins
  <2> QED
    BY <2>3, <2>4
<1>12. ASSUME NEW s \in Stops, StopWaited(s) PROVE Goal
  <2>1. stop[s].pc = "waiting" /\ stop[s].session = None
    BY <1>12 DEF StopWaited, IInv, TypeOK, StopState
  <2>2. Fit(s)
    BY <1>12, <2>1 DEF StopWaited, Fit, IInv, StopInv, Idle
  <2> QED
    BY <1>12, <2>2, StopReadingLedger DEF StopWaited
<1>13. ASSUME NEW s \in Stops, HangUp(s) PROVE Goal
  <2> DEFINE a == stop[s].session
  <2>1. a \in Asks /\ stop[s] = [pc |-> "flushing", session |-> a]
    BY <1>13 DEF HangUp, IInv, TypeOK, StopState
  <2>2. \A t \in Stops : stop'[t].session = stop[t].session
    BY <1>13 DEF HangUp, IInv, TypeOK
  <2>3. a \in Ending
    BY <2>1 DEF Ending, Stopped
  <2>4. UNCHANGED <<Opening, BeingRead, Ending>>
    BY <1>13, <2>2 DEF HangUp, Opening, BeingRead, Ending, Stopped
  <2>5. Ledger!HangUp(a)
    BY <1>13, <2>3, <2>4 DEF HangUp, Ledger!HangUp
  <2> QED
    BY <2>1, <2>5 DEF Ledger!Next
<1>14. ASSUME NEW s \in Stops, NEW arrives \in BOOLEAN, StopCloses(s, arrives) PROVE Goal
  <2> DEFINE a == stop[s].session
  <2>1. a \in Asks /\ Stopped(a) /\ closes[a] = 0 /\ ~speech[a]
    BY <1>14 DEF StopCloses, IInv, TypeOK, StopState, OwnerInv, Stopped
  <2>2. \A b \in Asks : Stopped(b)' <=> Stopped(b) /\ b # a
    BY <1>14, StopClosesOwns
  <2>3. a \in Ending /\ Ending' = Ending \ {a}
    BY <2>1, <2>2 DEF Ending
  <2>4. UNCHANGED <<Opening, BeingRead>>
    BY <1>14 DEF StopCloses, Opening, BeingRead
  <2>5. closes' = [closes EXCEPT ![a] = 1]
    BY <1>14, <2>1 DEF StopCloses, CloseSession
  <2> HIDE DEF a
  <2>6. Ledger!Close(a)
    BY <1>14, <2>1, <2>3, <2>4, <2>5 DEF StopCloses, Ledger!Close, Ledger!Tell
  <2> QED
    BY <2>1, <2>6 DEF Ledger!Next
<1>15. CASE ClientCloses
  <2>1. /\ Release \in Stops /\ stop[Release].session = None
        /\ Puts(Release, Idle) /\ Idle \in StopState /\ Idle.session = None
    BY <1>15 DEF ClientCloses, IInv, TypeOK, StopState, Stops, Puts, Idle
  <2> QED
    BY <1>15, <2>1, PutStands DEF ClientCloses
<1>16. ASSUME LetGoOfRoom, UNCHANGED <<ask, speech, closes>> PROVE Goal
  <2>1. Release \in Stops /\ Fit(Release)
    BY <1>16, RoomAssumption DEF LetGoOfRoom, Fit, IInv, StopInv, Idle, Stops
  <2> QED
    BY <1>16, <2>1, StopReadingLedger DEF LetGoOfRoom
<1>17. CASE ReleaseRoom
  BY <1>16, <1>17 DEF ReleaseRoom
<1>18. CASE WatcherStops
  <2>1. CASE LetGoOfRoom
    BY <1>16, <1>18, <2>1 DEF WatcherStops
  <2>2. CASE ReleaseCutShort
    <3> DEFINE r == [pc |-> "abandoned", session |-> stop[Release].session]
    <3>1. Release \in Stops /\ r \in StopState /\ [stop[Release] EXCEPT !.pc = "abandoned"] = r
      BY DEF IInv, TypeOK, StopState, Stops
    <3>2. Puts(Release, r)
      BY <2>2, <3>1 DEF ReleaseCutShort, Puts
    <3>3. r.session = stop[Release].session
      OBVIOUS
    <3> HIDE DEF r
    <3> QED
      BY <1>18, <2>2, <3>1, <3>2, <3>3, PutStands DEF WatcherStops, ReleaseCutShort
  <2>3. CASE NothingToCut
    BY <1>18, <2>3, LedgerStands DEF WatcherStops, NothingToCut, Opening, Stopped
  <2> QED
    BY <1>18, <2>1, <2>2, <2>3 DEF WatcherStops
<1> QED
  BY <1>1, <1>2, <1>3, <1>4, <1>5, <1>6, <1>7, <1>8, <1>9, <1>10, <1>11, <1>12, <1>13, <1>14,
     <1>15, <1>17, <1>18
     DEF Next, Monitor, AskAnswered, Starting, Korsi, Stopping, TearingDown

\* However many calls and stoppers meet, reading keeps the ledger of SessionLedger: one session
\* at a time is opened or read, each is read at most once, and Korsi is told of each end once,
\* when its speech connection is closed (spreed_client.py:436-582).
THEOREM Refinement == Spec => KeepsLedger
PROOF
<1>1. Init => Ledger!Init
  BY RoomAssumption
     DEF Init, Ledger!Init, Opening, BeingRead, Ending, Stopped, Idle
<1>2. IInv /\ [Next]_vars => [Ledger!Next]_Ledger!vars
  BY LedgerStep
<1> QED
  BY <1>1, <1>2, Inductive, PTL DEF Spec, Ledger!Spec, KeepsLedger
==============================================================================
