---------------------------- MODULE WatcherProofs ----------------------------
(***************************************************************************)
(* Theorems about Watcher: which clients are held and closed, and how long *)
(* the loop sleeps, through every round of the poll loop, for any set of   *)
(* rooms.  And what holds of the settings, the ICE servers, the self-test  *)
(* and the log for every environment, everything Talk may offer, every     *)
(* world and every file.                                                   *)
(***************************************************************************)
EXTENDS Watcher, SelfTest, LogTail, WellFoundedInduction, TLAPS

Watched(r) == clients[r] # "none"

\* The release of r is under way.
Releasing(r) == loop.pc = "releasing" /\ loop.room = r

\* The loop is part of a process, and what a process held is gone with it.
AppInv ==
  /\ process # "up" => loop.pc = "off" /\ loop.part = "none" /\ ~loop.again
  /\ process = "down" => wanted = {} /\ failed = {} /\ \A r \in Rooms : ~Watched(r) /\ open[r] = 0

\* The clients that are open are those held and the one being released; when the process
\* stops, those it has still to close are open.
OpenInv ==
  \A r \in Rooms :
    /\ process = "up" => open[r] = IF Watched(r) \/ Releasing(r) THEN 1 ELSE 0
    /\ process # "up" => open[r] <= 1
    /\ process = "stopping" /\ r \in todo => open[r] = 1

\* The room at work has been taken out of todo; it is held while it connects, and no longer
\* when it is released; and it is watched again only if it is wanted and did not fail.
PlaceInv ==
  /\ loop.pc \in {"connecting", "releasing"} => loop.room \in Rooms \ todo
  /\ loop.pc = "connecting" => Watched(loop.room)
  /\ loop.pc = "releasing" => ~Watched(loop.room)
  /\ loop.again => /\ loop.pc = "releasing" /\ loop.part = "replacing"
                   /\ loop.room \in wanted \ failed

\* How far each part of _reconcile has come.
RoundInv ==
  \A r \in Rooms :
    /\ r \in failed => ~Watched(r)
    /\ loop.pc \in {"polling", "sleeping"} => (Watched(r) <=> r \in wanted \ failed)
    /\ loop.part = "adding" =>
         /\ r \in todo => ~Watched(r) /\ r \in wanted \ failed
         /\ r \in wanted => Watched(r) \/ r \in todo \cup failed
    /\ loop.part = "removing" =>
         /\ r \in todo => Watched(r) /\ r \notin wanted
         /\ Watched(r) => r \in wanted \cup todo
         /\ r \in wanted => Watched(r) \/ r \in failed
    /\ loop.part = "replacing" =>
         /\ r \in todo => Watched(r)
         /\ Watched(r) => r \in wanted
         /\ r \in wanted => Watched(r) \/ r \in failed \/ (loop.again /\ loop.room = r)

IInv == TypeOK /\ AppInv /\ OpenInv /\ PlaceInv /\ RoundInv

\* TypeOK, in the parts that change together.
WorldType ==
  /\ korsi \in [rooms : SUBSET Rooms, enabled : BOOLEAN]
  /\ nextcloud \in BOOLEAN /\ Enabled \in BOOLEAN /\ env \in Envs
  /\ enabling \in BOOLEAN /\ service \in BOOLEAN
  /\ process \in {"down", "up", "stopping"}

LoopType ==
  loop \in [pc : {"off", "polling", "next", "connecting", "releasing", "sleeping", "dead"},
            part : {"none", "adding", "removing", "replacing"},
            room : Rooms \cup {None}, again : BOOLEAN]

RoundType ==
  /\ wanted \subseteq Rooms /\ todo \subseteq Rooms /\ failed \subseteq Rooms
  /\ clients \in [Rooms -> {"none", "connecting", "live", "defunct"}]

OpenType == open \in [Rooms -> Nat]

ClockType ==
  /\ backoff \in Floor..Ceiling
  /\ delay \in {0, Poll} \cup Floor..Ceiling
  /\ failures \in 0..MaxFailures /\ auth \in BOOLEAN

\* A container that was never started.
LEMMA Initially ==
  ASSUME Init
  PROVE  IInv
PROOF
<1> USE DEF Init
<1>1. TypeOK
  <2>1. WorldType
    BY WatcherAssumption DEF WorldType
  <2>2. LoopType
    BY DEF LoopType, Off
  <2>3. RoundType
    BY DEF RoundType, Nothing
  <2>4. OpenType
    BY DEF OpenType
  <2>5. ClockType
    <3>1. backoff \in Floor..Ceiling
      BY WatcherAssumption
    <3>2. failures \in 0..MaxFailures
      BY WatcherAssumption
    <3>3. auth \in BOOLEAN
      BY Zenon
    <3> QED
      BY <3>1, <3>2, <3>3 DEF ClockType
  <2> QED
    BY <2>1, <2>2, <2>3, <2>4, <2>5
       DEF TypeOK, WorldType, LoopType, RoundType, OpenType, ClockType
<1>2. AppInv
  BY DEF AppInv, Off, Nothing, Watched
<1>3. OpenInv
  BY DEF OpenInv
<1>4. PlaceInv
  BY DEF PlaceInv, Off
<1>5. RoundInv
  BY DEF RoundInv, Off, Nothing, Watched
<1> QED
  BY <1>1, <1>2, <1>3, <1>4, <1>5 DEF IInv

\* Korsi's watchlist stays one.
LEMMA WatchlistTyped ==
  ASSUME TypeOK, KorsiChanges
  PROVE  korsi' \in [rooms : SUBSET Rooms, enabled : BOOLEAN]
PROOF
<1>1. CASE korsi' = [korsi EXCEPT !.enabled = ~@]
  BY <1>1 DEF TypeOK
<1>2. ASSUME NEW r \in Rooms,
             korsi' = [korsi EXCEPT !.rooms = IF r \in @ THEN @ \ {r} ELSE @ \cup {r}]
      PROVE  korsi' \in [rooms : SUBSET Rooms, enabled : BOOLEAN]
  BY <1>2 DEF TypeOK
<1> QED
  BY <1>1, <1>2 DEF KorsiChanges

\* A clock that starts anew, as it does with the process.
LEMMA ClockAnew ==
  ASSUME backoff' = Floor, delay' = 0, failures' = 0, auth' = FALSE
  PROVE  ClockType'
PROOF
<1>1. backoff' \in Floor..Ceiling
  BY WatcherAssumption
<1>2. delay' \in {0, Poll} \cup Floor..Ceiling
  BY Zenon
<1>3. failures' \in 0..MaxFailures
  BY WatcherAssumption
<1>4. auth' \in BOOLEAN
  BY Zenon
<1> QED
  BY <1>1, <1>2, <1>3, <1>4 DEF ClockType

\* The release of a client whose room is watched again.
LEMMA ReleasedAgain ==
  ASSUME TypeOK, Released, loop.again
  PROVE  /\ loop.pc = "releasing" /\ loop' = [loop EXCEPT !.pc = "connecting", !.again = FALSE]
         /\ clients' = [clients EXCEPT ![loop.room] = "connecting"]
         /\ open' = [open EXCEPT ![loop.room] = @ + 1 - 1]
         /\ process = "up" /\ UNCHANGED app /\ UNCHANGED round
PROOF
<1>1. Watch(loop.room, 1) /\ process = "up" /\ loop.pc = "releasing"
  BY Zenon DEF Released, Moves
<1>2. UNCHANGED app /\ UNCHANGED round
  BY Zenon DEF Released, Moves
<1>3. [loop EXCEPT !.pc = "connecting", !.room = loop.room, !.again = FALSE]
        = [loop EXCEPT !.pc = "connecting", !.again = FALSE]
  BY DEF TypeOK
<1> QED
  BY <1>1, <1>2, <1>3, Zenon DEF Watch

\* The release of a client whose room is let go.
LEMMA ReleasedOnly ==
  ASSUME TypeOK, Released, ~loop.again
  PROVE  /\ loop.pc = "releasing" /\ loop' = [loop EXCEPT !.pc = "next", !.room = None]
         /\ clients' = clients
         /\ open' = [open EXCEPT ![loop.room] = @ - 1]
         /\ process = "up" /\ UNCHANGED app /\ UNCHANGED round
  BY Zenon DEF Released, Moves

\* A release leaves each room with the clients it holds.
LEMMA ReleaseCloses ==
  ASSUME IInv, Released
  PROVE  OpenInv'
PROOF
<1> DEFINE s == loop.room
<1>1. CASE loop.again
  <2>1. s \in Rooms /\ ~Watched(s) /\ open[s] = 1 /\ process' = "up"
    BY <1>1, ReleasedAgain DEF IInv, TypeOK, AppInv, OpenInv, PlaceInv, Releasing, app
  <2>2. open'[s] = 1
    BY <1>1, <2>1, ReleasedAgain DEF IInv, TypeOK
  <2>3. clients'[s] = "connecting"
    BY <1>1, <2>1, ReleasedAgain DEF IInv, TypeOK
  <2>4. loop'.pc = "connecting"
    BY <1>1, ReleasedAgain DEF IInv, TypeOK
  <2>5. ASSUME NEW r \in Rooms, r # s PROVE open'[r] = IF Watched(r)' THEN 1 ELSE 0
    BY <1>1, <2>5, ReleasedAgain DEF IInv, TypeOK, OpenInv, Watched, Releasing
  <2> QED
    BY <2>1, <2>2, <2>3, <2>4, <2>5 DEF OpenInv, Watched, Releasing
<1>2. CASE ~loop.again
  <2>1. s \in Rooms /\ ~Watched(s) /\ open[s] = 1 /\ process' = "up"
    BY <1>2, ReleasedOnly DEF IInv, TypeOK, AppInv, OpenInv, PlaceInv, Releasing, app
  <2>2. open'[s] = 0
    BY <1>2, <2>1, ReleasedOnly DEF IInv, TypeOK
  <2>3. clients'[s] = "none"
    BY <1>2, <2>1, ReleasedOnly DEF IInv, TypeOK, Watched
  <2>4. loop'.pc = "next"
    BY <1>2, ReleasedOnly DEF IInv, TypeOK
  <2>5. ASSUME NEW r \in Rooms, r # s PROVE open'[r] = IF Watched(r)' THEN 1 ELSE 0
    BY <1>2, <2>5, ReleasedOnly DEF IInv, TypeOK, OpenInv, Watched, Releasing
  <2> QED
    BY <2>1, <2>2, <2>3, <2>4, <2>5 DEF OpenInv, Watched, Releasing
<1> QED
  BY <1>1, <1>2

\* A release keeps the round where it was.
LEMMA ReleaseGoesOn ==
  ASSUME IInv, Released
  PROVE  RoundInv'
PROOF
<1>1. CASE loop.again
  <2> DEFINE s == loop.room
  <2>1. s \in Rooms /\ s \in wanted \ failed /\ s \notin todo /\ loop.part = "replacing"
    BY <1>1, ReleasedAgain DEF IInv, PlaceInv
  <2>2. loop'.pc = "connecting" /\ loop'.part = "replacing" /\ ~loop'.again
    BY <1>1, <2>1, ReleasedAgain DEF IInv, TypeOK
  <2>3. clients'[s] = "connecting"
    BY <1>1, <2>1, ReleasedAgain DEF IInv, TypeOK
  <2>4. wanted' = wanted /\ todo' = todo /\ failed' = failed
    BY <1>1, ReleasedAgain DEF IInv, round
  <2>5. ASSUME NEW r \in Rooms, r # s PROVE Watched(r)' <=> Watched(r)
    BY <1>1, <2>5, ReleasedAgain DEF IInv, TypeOK, Watched
  <2>6. ASSUME NEW r \in Rooms, r # s
        PROVE  /\ r \in failed' => ~Watched(r)'
               /\ r \in todo' => Watched(r)'
               /\ Watched(r)' => r \in wanted'
               /\ r \in wanted' => Watched(r)' \/ r \in failed'
    BY <2>1, <2>4, <2>5, <2>6 DEF IInv, RoundInv
  <2> QED
    BY <2>1, <2>2, <2>3, <2>4, <2>6 DEF RoundInv, Watched
<1>2. CASE ~loop.again
  BY <1>2, ReleasedOnly
     DEF IInv, TypeOK, AppInv, PlaceInv, RoundInv, Watched, app, round
<1> QED
  BY <1>1, <1>2

\* Each action keeps the types.
LEMMA TypeStep ==
  ASSUME IInv, [Next]_vars
  PROVE  TypeOK'
PROOF
<1> USE DEF IInv, TypeOK, world, app, round, held, clock
<1>1. CASE KorsiChanges
  <2>1. WorldType'
    BY <1>1, WatchlistTyped DEF WorldType, KorsiChanges
  <2>2. LoopType'
    BY <1>1 DEF LoopType, KorsiChanges
  <2>3. RoundType'
    BY <1>1 DEF RoundType, KorsiChanges
  <2>4. OpenType'
    BY <1>1 DEF OpenType, KorsiChanges
  <2>5. ClockType'
    BY <1>1 DEF ClockType, KorsiChanges
  <2> QED
    BY <2>1, <2>2, <2>3, <2>4, <2>5 DEF WorldType, LoopType, RoundType, OpenType, ClockType
<1>2. ASSUME NEW r \in Rooms, ClientDies(r) PROVE TypeOK'
  BY <1>2 DEF ClientDies
<1>3. CASE PollSucceeds
  <2>1. WorldType'
    BY <1>3 DEF WorldType, PollSucceeds, Moves
  <2>2. LoopType'
    BY <1>3 DEF LoopType, PollSucceeds, Begin, Off
  <2>3. RoundType'
    BY <1>3 DEF RoundType, PollSucceeds, Begin, Named
  <2>4. OpenType'
    BY <1>3 DEF OpenType, PollSucceeds
  <2>5. ClockType'
    <3>1. backoff' \in Floor..Ceiling
      BY <1>3, WatcherAssumption DEF PollSucceeds, ResetBackoff
    <3>2. delay' \in {0, Poll} \cup Floor..Ceiling
      BY <1>3 DEF PollSucceeds
    <3>3. failures' \in 0..MaxFailures
      BY <1>3, WatcherAssumption DEF PollSucceeds
    <3>4. auth' \in BOOLEAN
      BY <1>3, Zenon DEF PollSucceeds
    <3> QED
      BY <3>1, <3>2, <3>3, <3>4 DEF ClockType
  <2> QED
    BY <2>1, <2>2, <2>3, <2>4, <2>5 DEF WorldType, LoopType, RoundType, OpenType, ClockType
<1>4. ASSUME NEW a \in BOOLEAN, PollFails(a) PROVE TypeOK'
  <2>1. WorldType'
    BY <1>4 DEF WorldType, PollFails, Moves
  <2>2. LoopType'
    BY <1>4 DEF LoopType, PollFails, BackOff, Sleep, Off
  <2>3. RoundType'
    BY <1>4 DEF RoundType, PollFails
  <2>4. OpenType'
    BY <1>4 DEF OpenType, PollFails
  <2>5. ClockType'
    BY <1>4, WatcherAssumption DEF ClockType, PollFails, BackOff, Sleep, Lesser
  <2> QED
    BY <2>1, <2>2, <2>3, <2>4, <2>5 DEF WorldType, LoopType, RoundType, OpenType, ClockType
<1>5. CASE PollRaises
  BY <1>5 DEF PollRaises, Moves, LoopDies, Off
<1>6. CASE Wakes
  BY <1>6 DEF Wakes, Moves, Off
<1>7. CASE NextPart
  BY <1>7 DEF NextPart, Moves, Begin, Sleep, Off, Unwanted, Held, Defunct
<1>8. CASE Released
  <2>1. WorldType'
    BY <1>8 DEF WorldType, Released, Moves
  <2>2. LoopType'
    <3>1. CASE loop.again
      BY <1>8, <3>1, ReleasedAgain DEF LoopType
    <3>2. CASE ~loop.again
      BY <1>8, <3>2, ReleasedOnly DEF LoopType
    <3> QED
      BY <3>1, <3>2
  <2>3. RoundType'
    BY <1>8 DEF RoundType, Released, Watch
  <2>4. OpenType'
    BY <1>8 DEF OpenType, Released, Moves, Watch, OpenInv, Releasing
  <2>5. ClockType'
    BY <1>8 DEF ClockType, Released
  <2> QED
    BY <2>1, <2>2, <2>3, <2>4, <2>5 DEF WorldType, LoopType, RoundType, OpenType, ClockType
<1>9. ASSUME NEW r \in Rooms, Adds(r) PROVE TypeOK'
  <2>1. WorldType'
    BY <1>9 DEF WorldType, Adds, NextRoom, Moves
  <2>2. LoopType'
    BY <1>9 DEF LoopType, Adds, Watch
  <2>3. RoundType'
    BY <1>9 DEF RoundType, Adds, NextRoom, Watch
  <2>4. OpenType'
    BY <1>9 DEF OpenType, Adds, Watch
  <2>5. ClockType'
    BY <1>9 DEF ClockType, Adds, NextRoom
  <2> QED
    BY <2>1, <2>2, <2>3, <2>4, <2>5 DEF WorldType, LoopType, RoundType, OpenType, ClockType
<1>10. ASSUME NEW r \in Rooms, Removes(r) PROVE TypeOK'
  BY <1>10 DEF Removes, NextRoom, Moves, Release
<1>11. ASSUME NEW r \in Rooms, Replaces(r) PROVE TypeOK'
  <2>1. WorldType'
    BY <1>11 DEF WorldType, Replaces, NextRoom, Moves
  <2>2. LoopType'
    <3> DEFINE again == r \in wanted
    <3>1. again \in BOOLEAN
      OBVIOUS
    <3>2. loop' = [loop EXCEPT !.pc = "releasing", !.room = r, !.again = again]
      BY <1>11 DEF Replaces, Replace, Release
    <3> HIDE DEF again
    <3> QED
      BY <3>1, <3>2 DEF LoopType
  <2>3. RoundType'
    BY <1>11 DEF RoundType, Replaces, NextRoom, Replace, Release
  <2>4. OpenType'
    BY <1>11 DEF OpenType, Replaces, Replace, Release
  <2>5. ClockType'
    BY <1>11 DEF ClockType, Replaces, NextRoom
  <2> QED
    BY <2>1, <2>2, <2>3, <2>4, <2>5 DEF WorldType, LoopType, RoundType, OpenType, ClockType
<1>12. ASSUME NEW r \in Rooms, ConnectSucceeds(r) PROVE TypeOK'
  BY <1>12 DEF ConnectSucceeds, Moves
<1>13. ASSUME NEW r \in Rooms, ConnectFails(r) PROVE TypeOK'
  BY <1>13 DEF ConnectFails, Moves, Release
<1>14. CASE ConnectRaises
  BY <1>14 DEF ConnectRaises, Moves, LoopDies, Off
<1>15. CASE Starts
  <2>1. WorldType'
    BY <1>15 DEF WorldType, Starts
  <2>2. LoopType'
    BY <1>15 DEF LoopType, Starts, Off
  <2>3. RoundType'
    BY <1>15 DEF RoundType, Starts
  <2>4. OpenType'
    BY <1>15 DEF OpenType, Starts
  <2>5. ClockType'
    BY <1>15, ClockAnew DEF Starts
  <2> QED
    BY <2>1, <2>2, <2>3, <2>4, <2>5 DEF WorldType, LoopType, RoundType, OpenType, ClockType
<1>16. CASE EnableBegins
  BY <1>16 DEF EnableBegins
<1>17. ASSUME NEW a \in BOOLEAN, EnableEnds(a) PROVE TypeOK'
  <2>1. WorldType'
    BY <1>17 DEF WorldType, EnableEnds
  <2>2. LoopType'
    BY <1>17 DEF LoopType, EnableEnds
  <2>3. RoundType'
    BY <1>17 DEF RoundType, EnableEnds
  <2>4. OpenType'
    BY <1>17 DEF OpenType, EnableEnds
  <2>5. ClockType'
    BY <1>17 DEF ClockType, EnableEnds
  <2> QED
    BY <2>1, <2>2, <2>3, <2>4, <2>5 DEF WorldType, LoopType, RoundType, OpenType, ClockType
<1>18. CASE Disables
  <2>1. WorldType'
    BY <1>18 DEF WorldType, Disables
  <2>2. LoopType'
    BY <1>18 DEF LoopType, Disables
  <2>3. RoundType'
    BY <1>18 DEF RoundType, Disables
  <2>4. OpenType'
    BY <1>18 DEF OpenType, Disables
  <2>5. ClockType'
    BY <1>18 DEF ClockType, Disables
  <2> QED
    BY <2>1, <2>2, <2>3, <2>4, <2>5 DEF WorldType, LoopType, RoundType, OpenType, ClockType
<1>19. CASE Stops
  BY <1>19 DEF Stops, Off, Nothing, Held
<1>20. ASSUME NEW r \in Rooms, StopCloses(r) PROVE TypeOK'
  <2>1. WorldType'
    BY <1>20 DEF WorldType, StopCloses
  <2>2. LoopType'
    BY <1>20 DEF LoopType, StopCloses
  <2>3. RoundType'
    BY <1>20 DEF RoundType, StopCloses
  <2>4. OpenType'
    BY <1>20 DEF OpenType, StopCloses, OpenInv
  <2>5. ClockType'
    BY <1>20 DEF ClockType, StopCloses
  <2> QED
    BY <2>1, <2>2, <2>3, <2>4, <2>5 DEF WorldType, LoopType, RoundType, OpenType, ClockType
<1>21. CASE Exits
  <2>1. WorldType'
    BY <1>21 DEF WorldType, Exits, Gone
  <2>2. LoopType'
    BY <1>21 DEF LoopType, Exits, Gone, Off
  <2>3. RoundType'
    BY <1>21 DEF RoundType, Exits, Gone, Nothing
  <2>4. OpenType'
    BY <1>21 DEF OpenType, Exits, Gone
  <2>5. ClockType'
    BY <1>21, ClockAnew DEF Exits, Gone
  <2> QED
    BY <2>1, <2>2, <2>3, <2>4, <2>5 DEF WorldType, LoopType, RoundType, OpenType, ClockType
<1>22. CASE IsKilled
  <2>1. WorldType'
    BY <1>22 DEF WorldType, IsKilled, Gone
  <2>2. LoopType'
    BY <1>22 DEF LoopType, IsKilled, Gone, Off
  <2>3. RoundType'
    BY <1>22 DEF RoundType, IsKilled, Gone, Nothing
  <2>4. OpenType'
    BY <1>22 DEF OpenType, IsKilled, Gone
  <2>5. ClockType'
    BY <1>22, ClockAnew DEF IsKilled, Gone
  <2> QED
    BY <2>1, <2>2, <2>3, <2>4, <2>5 DEF WorldType, LoopType, RoundType, OpenType, ClockType
<1>23. CASE UNCHANGED vars
  BY <1>23 DEF vars
<1> QED
  BY <1>1, <1>2, <1>3, <1>4, <1>5, <1>6, <1>7, <1>8, <1>9, <1>10, <1>11, <1>12, <1>13, <1>14,
     <1>15, <1>16, <1>17, <1>18, <1>19, <1>20, <1>21, <1>22, <1>23
     DEF Next, Loop, Polls, Reconcile, Connects, Stop

\* Each action keeps the loop inside the life of its process.
LEMMA AppStep ==
  ASSUME IInv, [Next]_vars
  PROVE  AppInv'
PROOF
<1> USE DEF IInv, TypeOK, AppInv, Watched, world, app, round, held, clock
<1>1. CASE KorsiChanges
  BY <1>1 DEF KorsiChanges
<1>2. ASSUME NEW r \in Rooms, ClientDies(r) PROVE AppInv'
  BY <1>2 DEF ClientDies
<1>3. CASE PollSucceeds
  BY <1>3 DEF PollSucceeds, Moves
<1>4. ASSUME NEW a \in BOOLEAN, PollFails(a) PROVE AppInv'
  BY <1>4 DEF PollFails, Moves
<1>5. CASE PollRaises
  BY <1>5 DEF PollRaises, Moves
<1>6. CASE Wakes
  BY <1>6 DEF Wakes, Moves
<1>7. CASE NextPart
  BY <1>7 DEF NextPart, Moves
<1>8. CASE Released
  BY <1>8 DEF Released, Moves
<1>9. ASSUME NEW r \in Rooms, Adds(r) PROVE AppInv'
  BY <1>9 DEF Adds, NextRoom, Moves
<1>10. ASSUME NEW r \in Rooms, Removes(r) PROVE AppInv'
  BY <1>10 DEF Removes, NextRoom, Moves
<1>11. ASSUME NEW r \in Rooms, Replaces(r) PROVE AppInv'
  BY <1>11 DEF Replaces, NextRoom, Moves
<1>12. ASSUME NEW r \in Rooms, ConnectSucceeds(r) PROVE AppInv'
  BY <1>12 DEF ConnectSucceeds, Moves
<1>13. ASSUME NEW r \in Rooms, ConnectFails(r) PROVE AppInv'
  BY <1>13 DEF ConnectFails, Moves
<1>14. CASE ConnectRaises
  BY <1>14 DEF ConnectRaises, Moves
<1>15. CASE Starts
  BY <1>15 DEF Starts
<1>16. CASE EnableBegins
  BY <1>16 DEF EnableBegins
<1>17. ASSUME NEW a \in BOOLEAN, EnableEnds(a) PROVE AppInv'
  BY <1>17 DEF EnableEnds
<1>18. CASE Disables
  BY <1>18 DEF Disables
<1>19. CASE Stops
  BY <1>19 DEF Stops, Off
<1>20. ASSUME NEW r \in Rooms, StopCloses(r) PROVE AppInv'
  BY <1>20 DEF StopCloses
<1>21. CASE Exits
  BY <1>21 DEF Exits, Gone, Off, Nothing
<1>22. CASE IsKilled
  BY <1>22 DEF IsKilled, Gone, Off, Nothing
<1>23. CASE UNCHANGED vars
  BY <1>23 DEF vars
<1> QED
  BY <1>1, <1>2, <1>3, <1>4, <1>5, <1>6, <1>7, <1>8, <1>9, <1>10, <1>11, <1>12, <1>13, <1>14,
     <1>15, <1>16, <1>17, <1>18, <1>19, <1>20, <1>21, <1>22, <1>23
     DEF Next, Loop, Polls, Reconcile, Connects, Stop

\* Each action keeps the account of the clients that are open.
LEMMA OpenStep ==
  ASSUME IInv, [Next]_vars
  PROVE  OpenInv'
PROOF
<1> USE
   DEF IInv, TypeOK, AppInv, OpenInv, PlaceInv, RoundInv, Watched, Releasing, world, app,
       round, held, clock
<1>1. CASE KorsiChanges
  BY <1>1 DEF KorsiChanges
<1>2. ASSUME NEW r \in Rooms, ClientDies(r) PROVE OpenInv'
  BY <1>2 DEF ClientDies
<1>3. CASE PollSucceeds
  BY <1>3 DEF PollSucceeds, Moves, Begin
<1>4. ASSUME NEW a \in BOOLEAN, PollFails(a) PROVE OpenInv'
  BY <1>4 DEF PollFails, Moves, BackOff, Sleep
<1>5. CASE PollRaises
  BY <1>5 DEF PollRaises, Moves, LoopDies
<1>6. CASE Wakes
  BY <1>6 DEF Wakes, Moves
<1>7. CASE NextPart
  BY <1>7 DEF NextPart, Moves, Begin, Sleep, Off
<1>8. CASE Released
  BY <1>8, ReleaseCloses
<1>9. ASSUME NEW r \in Rooms, Adds(r) PROVE OpenInv'
  BY <1>9 DEF Adds, NextRoom, Moves, Watch
<1>10. ASSUME NEW r \in Rooms, Removes(r) PROVE OpenInv'
  BY <1>10 DEF Removes, NextRoom, Release
<1>11. ASSUME NEW r \in Rooms, Replaces(r) PROVE OpenInv'
  BY <1>11 DEF Replaces, NextRoom, Replace, Release
<1>12. ASSUME NEW r \in Rooms, ConnectSucceeds(r) PROVE OpenInv'
  BY <1>12 DEF ConnectSucceeds, Moves
<1>13. ASSUME NEW r \in Rooms, ConnectFails(r) PROVE OpenInv'
  BY <1>13 DEF ConnectFails, Moves, Release
<1>14. CASE ConnectRaises
  BY <1>14 DEF ConnectRaises, Moves, LoopDies
<1>15. CASE Starts
  BY <1>15 DEF Starts, Off
<1>16. CASE EnableBegins
  BY <1>16 DEF EnableBegins
<1>17. ASSUME NEW a \in BOOLEAN, EnableEnds(a) PROVE OpenInv'
  BY <1>17 DEF EnableEnds
<1>18. CASE Disables
  BY <1>18 DEF Disables
<1>19. CASE Stops
  BY <1>19 DEF Stops, Held
<1>20. ASSUME NEW r \in Rooms, StopCloses(r) PROVE OpenInv'
  BY <1>20 DEF StopCloses
<1>21. CASE Exits
  BY <1>21 DEF Exits, Gone
<1>22. CASE IsKilled
  BY <1>22 DEF IsKilled, Gone
<1>23. CASE UNCHANGED vars
  BY <1>23 DEF vars
<1> QED
  BY <1>1, <1>2, <1>3, <1>4, <1>5, <1>6, <1>7, <1>8, <1>9, <1>10, <1>11, <1>12, <1>13, <1>14,
     <1>15, <1>16, <1>17, <1>18, <1>19, <1>20, <1>21, <1>22, <1>23
     DEF Next, Loop, Polls, Reconcile, Connects, Stop

\* Each action keeps the place of the room at work.
LEMMA PlaceStep ==
  ASSUME IInv, [Next]_vars
  PROVE  PlaceInv'
PROOF
<1> USE DEF IInv, TypeOK, AppInv, PlaceInv, RoundInv, Watched, world, app, round, held, clock
<1>1. CASE KorsiChanges
  BY <1>1 DEF KorsiChanges
<1>2. ASSUME NEW r \in Rooms, ClientDies(r) PROVE PlaceInv'
  BY <1>2 DEF ClientDies
<1>3. CASE PollSucceeds
  BY <1>3 DEF PollSucceeds, Begin, Off
<1>4. ASSUME NEW a \in BOOLEAN, PollFails(a) PROVE PlaceInv'
  BY <1>4 DEF PollFails, BackOff, Sleep, Off
<1>5. CASE PollRaises
  BY <1>5 DEF PollRaises, LoopDies, Off
<1>6. CASE Wakes
  BY <1>6 DEF Wakes, Off
<1>7. CASE NextPart
  BY <1>7 DEF NextPart, Begin, Sleep, Off
<1>8. CASE Released
  <2>1. CASE loop.again
    BY <1>8, <2>1, ReleasedAgain
  <2>2. CASE ~loop.again
    BY <1>8, <2>2, ReleasedOnly
  <2> QED
    BY <2>1, <2>2
<1>9. ASSUME NEW r \in Rooms, Adds(r) PROVE PlaceInv'
  BY <1>9 DEF Adds, NextRoom, Watch
<1>10. ASSUME NEW r \in Rooms, Removes(r) PROVE PlaceInv'
  BY <1>10 DEF Removes, NextRoom, Release
<1>11. ASSUME NEW r \in Rooms, Replaces(r) PROVE PlaceInv'
  BY <1>11 DEF Replaces, NextRoom, Replace, Release
<1>12. ASSUME NEW r \in Rooms, ConnectSucceeds(r) PROVE PlaceInv'
  BY <1>12 DEF ConnectSucceeds
<1>13. ASSUME NEW r \in Rooms, ConnectFails(r) PROVE PlaceInv'
  BY <1>13 DEF ConnectFails, Release
<1>14. CASE ConnectRaises
  BY <1>14 DEF ConnectRaises, LoopDies, Off
<1>15. CASE Starts
  BY <1>15 DEF Starts, Off
<1>16. CASE EnableBegins
  BY <1>16 DEF EnableBegins
<1>17. ASSUME NEW a \in BOOLEAN, EnableEnds(a) PROVE PlaceInv'
  BY <1>17 DEF EnableEnds
<1>18. CASE Disables
  BY <1>18 DEF Disables
<1>19. CASE Stops
  BY <1>19 DEF Stops, Off
<1>20. ASSUME NEW r \in Rooms, StopCloses(r) PROVE PlaceInv'
  BY <1>20 DEF StopCloses
<1>21. CASE Exits
  BY <1>21 DEF Exits, Gone, Off
<1>22. CASE IsKilled
  BY <1>22 DEF IsKilled, Gone, Off
<1>23. CASE UNCHANGED vars
  BY <1>23 DEF vars
<1> QED
  BY <1>1, <1>2, <1>3, <1>4, <1>5, <1>6, <1>7, <1>8, <1>9, <1>10, <1>11, <1>12, <1>13, <1>14,
     <1>15, <1>16, <1>17, <1>18, <1>19, <1>20, <1>21, <1>22, <1>23
     DEF Next, Loop, Polls, Reconcile, Connects, Stop

\* Each action keeps the round consistent with the last watchlist.
LEMMA RoundStep ==
  ASSUME IInv, [Next]_vars
  PROVE  RoundInv'
PROOF
<1> USE DEF IInv, TypeOK, AppInv, PlaceInv, RoundInv, Watched, world, app, round, held, clock
<1>1. CASE KorsiChanges
  BY <1>1 DEF KorsiChanges
<1>2. ASSUME NEW r \in Rooms, ClientDies(r) PROVE RoundInv'
  BY <1>2 DEF ClientDies
<1>3. CASE PollSucceeds
  BY <1>3 DEF PollSucceeds, Begin, Held
<1>4. ASSUME NEW a \in BOOLEAN, PollFails(a) PROVE RoundInv'
  BY <1>4 DEF PollFails, BackOff, Sleep, Off
<1>5. CASE PollRaises
  BY <1>5 DEF PollRaises, LoopDies, Off
<1>6. CASE Wakes
  BY <1>6 DEF Wakes, Off
<1>7. CASE NextPart
  BY <1>7 DEF NextPart, Begin, Off, Unwanted, Held, Defunct
<1>8. CASE Released
  BY <1>8, ReleaseGoesOn
<1>9. ASSUME NEW r \in Rooms, Adds(r) PROVE RoundInv'
  BY <1>9 DEF Adds, NextRoom, Watch
<1>10. ASSUME NEW r \in Rooms, Removes(r) PROVE RoundInv'
  BY <1>10 DEF Removes, NextRoom, Release
<1>11. ASSUME NEW r \in Rooms, Replaces(r) PROVE RoundInv'
  BY <1>11 DEF Replaces, NextRoom, Replace, Release
<1>12. ASSUME NEW r \in Rooms, ConnectSucceeds(r) PROVE RoundInv'
  BY <1>12 DEF ConnectSucceeds
<1>13. ASSUME NEW r \in Rooms, ConnectFails(r) PROVE RoundInv'
  BY <1>13 DEF ConnectFails, Release
<1>14. CASE ConnectRaises
  BY <1>14 DEF ConnectRaises, LoopDies, Off
<1>15. CASE Starts
  BY <1>15 DEF Starts, Off
<1>16. CASE EnableBegins
  BY <1>16 DEF EnableBegins
<1>17. ASSUME NEW a \in BOOLEAN, EnableEnds(a) PROVE RoundInv'
  BY <1>17 DEF EnableEnds
<1>18. CASE Disables
  BY <1>18 DEF Disables
<1>19. CASE Stops
  BY <1>19 DEF Stops, Off, Nothing
<1>20. ASSUME NEW r \in Rooms, StopCloses(r) PROVE RoundInv'
  BY <1>20 DEF StopCloses
<1>21. CASE Exits
  BY <1>21 DEF Exits, Gone, Off
<1>22. CASE IsKilled
  BY <1>22 DEF IsKilled, Gone, Off
<1>23. CASE UNCHANGED vars
  BY <1>23 DEF vars
<1> QED
  BY <1>1, <1>2, <1>3, <1>4, <1>5, <1>6, <1>7, <1>8, <1>9, <1>10, <1>11, <1>12, <1>13, <1>14,
     <1>15, <1>16, <1>17, <1>18, <1>19, <1>20, <1>21, <1>22, <1>23
     DEF Next, Loop, Polls, Reconcile, Connects, Stop

\* The inductive invariant: where each room is in the round of the poll loop.
THEOREM Inductive == Spec => []IInv
PROOF
<1>1. Init => IInv
  BY Initially
<1>2. IInv /\ [Next]_vars => IInv'
  BY TypeStep, AppStep, OpenStep, PlaceStep, RoundStep DEF IInv
<1> QED
  BY <1>1, <1>2, PTL DEF Spec

\* Every reachable state of the poll loop and its process is well typed.
THEOREM TypeCorrect == Spec => []TypeOK
PROOF
<1>1. IInv => TypeOK
  BY DEF IInv
<1> QED
  BY <1>1, Inductive, PTL

\* A room never has two clients that are open, and none that nobody holds, however many
\* rooms there are and whatever fails (call_watcher.py:153-209).
THEOREM OneSession == Spec => []OneSessionPerRoom
PROOF
<1>1. IInv => OneSessionPerRoom
  BY DEF IInv, TypeOK, OpenInv, OneSessionPerRoom, Watched, Releasing, Held
<1> QED
  BY <1>1, Inductive, PTL

\* Whenever the loop sleeps it holds the rooms Korsi named last, less those that could not
\* be watched (call_watcher.py:154).
THEOREM HeldWanted == Spec => []HeldAreWanted
PROOF
<1>1. IInv => HeldAreWanted
  BY DEF IInv, TypeOK, RoundInv, HeldAreWanted, Watched, Held
<1> QED
  BY <1>1, Inductive, PTL

------------------------------------------------------------------------------
(* The backoff.                                                            *)

\* Every set of natural numbers that is not empty has a least element.
LEMMA LeastNumber ==
  ASSUME NEW S \in SUBSET Nat, S # {}
  PROVE  \E m \in S : \A k \in S : m <= k
PROOF
<1>1. PICK m \in S : \A k \in S : <<k, m>> \notin OpToRel(<, Nat)
  BY WFMin, NatLessThanWellFounded, Zenon
<1>2. \A k \in S : ~(k < m)
  BY <1>1, Zenon DEF OpToRel
<1> QED
  BY <1>2

\* The first n + 1 values of Doubled, as a function of their own.
Ladder(g, n) ==
  /\ g \in [0..n -> Nat]
  /\ g[0] = Floor
  /\ \A k \in 1..n : g[k] = 2 * g[k - 1]

\* There is such a function for every n: a least n without one would have none before it.
LEMMA LadderExists == \A n \in Nat : \E g : Ladder(g, n)
PROOF
<1> DEFINE S == {n \in Nat : ~\E g : Ladder(g, n)}
<1> SUFFICES ASSUME S # {} PROVE FALSE
  OBVIOUS
<1>1. PICK m \in S : \A k \in S : m <= k
  BY LeastNumber
<1>2. CASE m = 0
  <2>1. Ladder([k \in 0..0 |-> Floor], 0)
    BY WatcherAssumption DEF Ladder
  <2> QED
    BY <1>2, <2>1
<1>3. CASE m # 0
  <2>1. m - 1 \in Nat /\ m - 1 \notin S
    BY <1>1, <1>3
  <2>2. PICK g : Ladder(g, m - 1)
    BY <2>1
  <2> DEFINE h == [k \in 0..m |-> IF k = m THEN 2 * g[m - 1] ELSE g[k]]
  <2>3. \A k \in 0..(m - 1) : h[k] = g[k] /\ g[k] \in Nat
    BY <2>2 DEF Ladder
  <2>4. h[m] = 2 * h[m - 1] /\ h[m] \in Nat
    <3>1. m \in 0..m /\ m - 1 \in 0..m /\ m - 1 \in 0..(m - 1) /\ m - 1 # m
      BY <2>1
    <3>2. h[m] = 2 * g[m - 1] /\ h[m - 1] = g[m - 1] /\ g[m - 1] \in Nat
      BY <2>3, <3>1
    <3> QED
      BY <3>2
  <2>5. h \in [0..m -> Nat]
    BY <2>3, <2>4
  <2>6. ASSUME NEW k \in 1..m PROVE h[k] = 2 * h[k - 1]
    <3>1. CASE k = m
      BY <2>4, <3>1
    <3>2. CASE k # m
      <4>1. k \in 1..(m - 1) /\ k - 1 \in 0..(m - 1) /\ k \in 0..(m - 1)
        BY <2>1, <3>2
      <4> QED
        BY <2>2, <2>3, <4>1 DEF Ladder
    <3> QED
      BY <3>1, <3>2
  <2>7. h[0] = Floor
    BY <2>1, <2>2, <2>3 DEF Ladder
  <2> HIDE DEF h
  <2>8. Ladder(h, m)
    BY <2>5, <2>6, <2>7 DEF Ladder
  <2> QED
    BY <2>8
<1> QED
  BY <1>2, <1>3

\* And no two that differ: nor at a least place where they would.
LEMMA LadderUnique ==
  ASSUME NEW n \in Nat, NEW m \in Nat, NEW g, NEW h, Ladder(g, n), Ladder(h, m),
         NEW k \in Nat, k <= n, k <= m
  PROVE  g[k] = h[k]
PROOF
<1> DEFINE S == {i \in 0..k : g[i] # h[i]}
<1> SUFFICES ASSUME S # {} PROVE FALSE
  OBVIOUS
<1> S \in SUBSET Nat
  OBVIOUS
<1>1. PICK i \in S : \A j \in S : i <= j
  BY LeastNumber
<1>2. i # 0
  BY DEF Ladder
<1>3. i - 1 \in 0..k /\ i - 1 \notin S /\ i \in 1..n /\ i \in 1..m
  BY <1>1, <1>2
<1> QED
  BY <1>3 DEF Ladder

\* The recursive definition defines the function it says.
LEMMA DoubledIs ==
  /\ Doubled \in [Nat -> Nat]
  /\ Doubled[0] = Floor
  /\ \A k \in Nat : Doubled[k + 1] = 2 * Doubled[k]
PROOF
<1> DEFINE At(n) == CHOOSE g : Ladder(g, n)
           f == [n \in Nat |-> At(n)[n]]
<1>1. \A n \in Nat : Ladder(At(n), n)
  BY LadderExists
<1> HIDE DEF At
<1>2. f[0] = Floor
  BY <1>1 DEF Ladder
<1>3. ASSUME NEW n \in Nat \ {0} PROVE f[n] = 2 * f[n - 1]
  <2>1. n - 1 \in Nat /\ n - 1 <= n /\ n \in 1..n
    OBVIOUS
  <2>2. At(n)[n] = 2 * At(n)[n - 1]
    BY <1>1, <2>1 DEF Ladder
  <2>3. At(n)[n - 1] = At(n - 1)[n - 1]
    BY <1>1, <2>1, LadderUnique
  <2> QED
    BY <2>1, <2>2, <2>3
<1>4. f = [n \in Nat |-> IF n = 0 THEN Floor ELSE 2 * f[n - 1]]
  <2>1. \A n \in Nat : f[n] = IF n = 0 THEN Floor ELSE 2 * f[n - 1]
    BY <1>2, <1>3
  <2>2. f = [n \in Nat |-> f[n]]
    OBVIOUS
  <2> HIDE DEF f
  <2> QED
    BY <2>1, <2>2
<1> HIDE DEF f
<1>5. Doubled = [n \in Nat |-> IF n = 0 THEN Floor ELSE 2 * Doubled[n - 1]]
  BY <1>4, Zenon DEF Doubled
<1>6. Doubled[0] = Floor /\ \A n \in Nat \ {0} : Doubled[n] = 2 * Doubled[n - 1]
  BY <1>5
<1>7. ASSUME NEW k \in Nat PROVE Doubled[k + 1] = 2 * Doubled[k]
  <2>1. k + 1 \in Nat \ {0} /\ (k + 1) - 1 = k
    OBVIOUS
  <2> QED
    BY <1>6, <2>1
<1>8. ASSUME NEW n \in Nat PROVE Doubled[n] \in Nat
  <2> DEFINE S == {i \in Nat : Doubled[i] \notin Nat}
  <2> SUFFICES ASSUME S # {} PROVE FALSE
    OBVIOUS
  <2>1. PICK i \in S : \A j \in S : i <= j
    BY LeastNumber
  <2>2. i # 0
    BY <1>6, WatcherAssumption
  <2>3. i - 1 \in Nat /\ i - 1 \notin S
    BY <2>1, <2>2
  <2> QED
    BY <1>6, <2>2, <2>3
<1>9. DOMAIN Doubled = Nat
  BY <1>5
<1>10. Doubled = [n \in Nat |-> Doubled[n]]
  BY <1>5, <1>9
<1> QED
  BY <1>6, <1>7, <1>8, <1>10

\* The next backoff is known from the failures at any time, not only while the loop sleeps;
\* and a round of _reconcile follows a success.
DelayInv ==
  /\ backoff = IF auth THEN Ceiling ELSE Lesser(Doubled[failures], Ceiling)
  /\ failures = 0 => ~auth
  /\ loop.pc \in {"next", "connecting", "releasing"} => failures = 0
  /\ DelayFollowsFailures

\* A process that is down has a clock that has not run.
LEMMA DelayInitially ==
  ASSUME Init
  PROVE  DelayInv
PROOF
<1>1. Lesser(Doubled[0], Ceiling) = Floor
  BY DoubledIs, WatcherAssumption DEF Lesser
<1> QED
  BY <1>1 DEF Init, Off, DelayInv, DelayFollowsFailures

\* A failed poll: the loop sleeps as long as the failures before it say, and doubles.
LEMMA DelayOfFailure ==
  ASSUME TypeOK, DelayInv, NEW isAuthFailure \in BOOLEAN, PollFails(isAuthFailure)
  PROVE  DelayInv'
PROOF
<1>1. /\ failures \in Nat /\ failures <= MaxFailures /\ MaxFailures \in Nat \ {0}
      /\ Floor \in Nat \ {0} /\ Ceiling \in Nat /\ Floor <= Ceiling
      /\ auth \in BOOLEAN /\ backoff \in Nat
  BY WatcherAssumption, BoundAssumption DEF TypeOK
<1>2. /\ delay' = IF isAuthFailure THEN Ceiling ELSE backoff
      /\ backoff' = Lesser(2 * (IF isAuthFailure THEN Ceiling ELSE backoff), Ceiling)
      /\ failures' = Lesser(failures + 1, MaxFailures)
      /\ auth' = (auth \/ isAuthFailure)
      /\ loop'.pc = "sleeping"
  BY DEF PollFails, BackOff, Sleep, Off
<1>3. failures' \in Nat \ {0} /\ failures' - 1 \in Nat
  BY <1>1, <1>2 DEF Lesser
<1>4. CASE auth \/ isAuthFailure
  <2>1. delay' = Ceiling /\ backoff' = Ceiling /\ auth'
    BY <1>1, <1>2, <1>4 DEF DelayInv, Lesser
  <2> QED
    BY <1>2, <1>3, <2>1 DEF DelayInv, DelayFollowsFailures
<1>5. CASE ~(auth \/ isAuthFailure)
  <2>1. Doubled[failures] \in Nat /\ Doubled[failures + 1] = 2 * Doubled[failures]
    BY <1>1, DoubledIs
  <2>2. /\ backoff = Lesser(Doubled[failures], Ceiling) /\ ~auth'
        /\ delay' = backoff /\ backoff' = Lesser(2 * backoff, Ceiling)
    BY <1>2, <1>5 DEF DelayInv
  <2>3. backoff' = Lesser(Doubled[failures + 1], Ceiling)
    BY <1>1, <2>1, <2>2 DEF Lesser
  <2>4. CASE failures < MaxFailures
    <3>1. failures' = failures + 1 /\ failures' - 1 = failures
      BY <1>1, <1>2, <2>4 DEF Lesser
    <3> QED
      BY <1>2, <1>3, <2>2, <2>3, <3>1 DEF DelayInv, DelayFollowsFailures
  <2>5. CASE failures = MaxFailures
    <3>1. failures' = failures
      BY <1>1, <1>2, <2>5 DEF Lesser
    <3>2. failures - 1 \in Nat /\ (failures - 1) + 1 = failures
      BY <1>1, <2>5
    <3>3. Doubled[failures - 1] \in Nat /\ Doubled[failures] = 2 * Doubled[failures - 1]
      BY <3>2, DoubledIs
    <3>4. Ceiling <= Doubled[failures - 1]
      BY <2>5, BoundAssumption
    <3>5. /\ Lesser(Doubled[failures - 1], Ceiling) = Ceiling
          /\ Lesser(Doubled[failures], Ceiling) = Ceiling
          /\ Lesser(Doubled[failures + 1], Ceiling) = Ceiling
      BY <1>1, <2>1, <3>3, <3>4 DEF Lesser
    <3> QED
      BY <1>2, <1>3, <2>2, <2>3, <3>1, <3>5 DEF DelayInv, DelayFollowsFailures
  <2> QED
    BY <1>1, <2>4, <2>5
<1> QED
  BY <1>4, <1>5

\* A clock that starts anew with the loop, or with no loop at all.
LEMMA DelayAnew ==
  ASSUME backoff' = Floor, failures' = 0, auth' = FALSE, loop'.pc # "sleeping"
  PROVE  DelayInv'
PROOF
<1>1. Lesser(Doubled[0], Ceiling) = Floor
  BY DoubledIs, WatcherAssumption DEF Lesser
<1> QED
  BY <1>1 DEF DelayInv, DelayFollowsFailures

\* Steps between two polls leave the clock alone, and none of them goes to sleep.
LEMMA DelayKept ==
  ASSUME DelayInv, UNCHANGED clock,
         \/ loop' = loop
         \/ loop'.pc \in {"off", "dead", "polling"}
         \/ /\ loop.pc \in {"next", "connecting", "releasing"}
            /\ loop'.pc \in {"next", "connecting", "releasing"}
  PROVE  DelayInv'
PROOF
<1>1. UNCHANGED <<backoff, delay, failures, auth>>
  BY DEF clock
<1> QED
  BY <1>1 DEF DelayInv, DelayFollowsFailures

\* Every step keeps the clock, starts it anew, or is a failed poll; but a part of _reconcile
\* that ends a round, which sleeps after a success.
LEMMA DelayStep ==
  ASSUME TypeOK, DelayInv, [Next]_vars
  PROVE  DelayInv'
PROOF
<1>1. CASE KorsiChanges
  BY <1>1, DelayKept DEF KorsiChanges
<1>2. ASSUME NEW r \in Rooms, ClientDies(r) PROVE DelayInv'
  BY <1>2, DelayKept DEF ClientDies
<1>3. CASE PollSucceeds
  <2>1. loop'.pc = "next" /\ backoff' = Floor /\ failures' = 0 /\ auth' = FALSE
    BY <1>3 DEF PollSucceeds, Begin, Off, ResetBackoff
  <2> QED
    BY <2>1, DelayAnew
<1>4. ASSUME NEW a \in BOOLEAN, PollFails(a) PROVE DelayInv'
  BY <1>4, DelayOfFailure
<1>5. CASE PollRaises
  BY <1>5, DelayKept DEF PollRaises, LoopDies, Off
<1>6. CASE Wakes
  BY <1>6, DelayKept DEF Wakes, Off
<1>7. CASE NextPart
  <2>1. CASE loop'.pc = "next" /\ UNCHANGED delay
    BY <1>7, <2>1, DelayKept DEF NextPart, clock
  <2>2. CASE Sleep(Poll)
    <3>1. failures = 0 /\ failures' = 0 /\ backoff' = backoff /\ auth' = auth
          /\ delay' = Poll /\ loop'.pc = "sleeping"
      BY <1>7, <2>2 DEF NextPart, Sleep, Off, DelayInv
    <3> QED
      BY <3>1 DEF DelayInv, DelayFollowsFailures
  <2> QED
    BY <1>7, <2>1, <2>2 DEF NextPart, Begin, Off
<1>8. CASE Released
  <2>1. loop'.pc \in {"next", "connecting"} /\ UNCHANGED clock /\ loop.pc = "releasing"
    BY <1>8 DEF Released, Watch, TypeOK
  <2> QED
    BY <2>1, DelayKept
<1>9. ASSUME NEW r \in Rooms, Adds(r) PROVE DelayInv'
  BY <1>9, DelayKept DEF Adds, NextRoom, Watch, TypeOK
<1>10. ASSUME NEW r \in Rooms, Removes(r) PROVE DelayInv'
  BY <1>10, DelayKept DEF Removes, NextRoom, Release, TypeOK
<1>11. ASSUME NEW r \in Rooms, Replaces(r) PROVE DelayInv'
  BY <1>11, DelayKept DEF Replaces, NextRoom, Replace, Release, TypeOK
<1>12. ASSUME NEW r \in Rooms, ConnectSucceeds(r) PROVE DelayInv'
  BY <1>12, DelayKept DEF ConnectSucceeds, TypeOK
<1>13. ASSUME NEW r \in Rooms, ConnectFails(r) PROVE DelayInv'
  BY <1>13, DelayKept DEF ConnectFails, Release, TypeOK
<1>14. CASE ConnectRaises
  BY <1>14, DelayKept DEF ConnectRaises, LoopDies, Off
<1>15. CASE Starts
  <2>1. loop'.pc # "sleeping" /\ backoff' = Floor /\ failures' = 0 /\ auth' = FALSE
    BY <1>15 DEF Starts, Off
  <2> QED
    BY <2>1, DelayAnew
<1>16. CASE EnableBegins
  BY <1>16, DelayKept DEF EnableBegins
<1>17. ASSUME NEW a \in BOOLEAN, EnableEnds(a) PROVE DelayInv'
  BY <1>17, DelayKept DEF EnableEnds
<1>18. CASE Disables
  BY <1>18, DelayKept DEF Disables
<1>19. CASE Stops
  BY <1>19, DelayKept DEF Stops, Off
<1>20. ASSUME NEW r \in Rooms, StopCloses(r) PROVE DelayInv'
  BY <1>20, DelayKept DEF StopCloses
<1>21. CASE Exits \/ IsKilled
  <2>1. loop'.pc # "sleeping" /\ backoff' = Floor /\ failures' = 0 /\ auth' = FALSE
    BY <1>21 DEF Exits, IsKilled, Gone, Off
  <2> QED
    BY <2>1, DelayAnew
<1>22. CASE UNCHANGED vars
  BY <1>22, DelayKept DEF vars
<1> QED
  BY <1>1, <1>2, <1>3, <1>4, <1>5, <1>6, <1>7, <1>8, <1>9, <1>10, <1>11, <1>12, <1>13, <1>14,
     <1>15, <1>16, <1>17, <1>18, <1>19, <1>20, <1>21, <1>22
     DEF Next, Loop, Polls, Reconcile, Connects, Stop

\* However many polls fail, and whatever else happens in between, the sleep is the floor
\* doubled with every failure since the last success, up to the ceiling
\* (call_watcher.py:129-147).
THEOREM DelayIsOfFailures == Spec => []DelayFollowsFailures
PROOF
<1>1. Init => DelayInv
  BY DelayInitially
<1>2. TypeOK /\ DelayInv /\ [Next]_vars => DelayInv'
  BY DelayStep
<1>3. DelayInv => DelayFollowsFailures
  BY DEF DelayInv
<1> QED
  BY <1>1, <1>2, <1>3, TypeCorrect, PTL DEF Spec

------------------------------------------------------------------------------
(* The settings.                                                           *)

\* What the enable handler lets through, the service can start with: the KorsiClient is
\* built of every environment in which check_korsi_env_vars finds no problem
\* (main.py:200-204, service.py:59-71).
THEOREM EnabledCanStart ==
  ASSUME NEW e \in Environments, check_korsi_env_vars(e) = {}
  PROVE  ClientBuilds(e)
PROOF
<1>1. \A v \in KORSI_REQUIRED_VARS : Given(e, v)
  BY DEF check_korsi_env_vars
<1>2. e.keyLoads
  BY <1>1 DEF check_korsi_env_vars, KORSI_REQUIRED_VARS
<1> QED
  BY <1>1, <1>2 DEF ClientBuilds, Given, KORSI_REQUIRED_VARS

------------------------------------------------------------------------------
(* ICE.                                                                    *)

\* ice_config.py:20-23: only the URLs are overridden.  Whatever the overrides say, every
\* credential the bridge uses is one Talk minted.
THEOREM CredentialsAreTalks ==
  ASSUME NEW talk \in Offers, NEW override \in Overrides,
         NEW s \in resolve_ice_servers(talk, override), s.credential # NoCredential
  PROVE  \E i \in DOMAIN talk.turnservers : s.credential = talk.turnservers[i].credential
PROOF
<1>1. s \in TurnEntries(talk, override)
  BY DEF resolve_ice_servers, StunEntries
<1>2. CASE Configured(override.turn) = {}
  BY <1>1, <1>2 DEF TurnEntries
<1>3. CASE Configured(override.turn) # {}
  <2>1. talk.turnservers # <<>> /\ talk.turnservers \in Seq(TurnServers)
    BY <1>1, <1>3 DEF TurnEntries, Offers
  <2>2. 1 \in DOMAIN talk.turnservers
    BY <2>1
  <2>3. s.credential = talk.turnservers[1].credential
    BY <1>1, <1>3, <2>1 DEF TurnEntries
  <2> QED
    BY <2>2, <2>3
<1> QED
  BY <1>2, <1>3

\* An override replaces Talk's list outright (ice_config.py:32-34): with one in force no URL
\* of Talk's is tried that the override does not name.
THEOREM OverrideIsComplete ==
  ASSUME NEW talk \in Offers, NEW override \in Overrides,
         Configured(override.stun) # {}, Configured(override.turn) # {},
         NEW s \in resolve_ice_servers(talk, override)
  PROVE  s.urls \subseteq Configured(override.stun) \cup Configured(override.turn)
PROOF
  BY DEF resolve_ice_servers, StunEntries, StunUrls, TurnEntries

\* A relay path is reported only if a TURN server is used, and no override makes up for TURN
\* that was never configured in Talk.
THEOREM RelayIsTalks ==
  ASSUME NEW talk \in Offers, NEW override \in Overrides, Description(talk, override).turn # {}
  PROVE  /\ talk.turnservers # <<>>
         /\ \E s \in resolve_ice_servers(talk, override) : s.credential \in Credentials
PROOF
<1>1. TurnUrls(talk, override) # {}
  BY DEF Description
<1>2. PICK s \in TurnEntries(talk, override) : s.urls # {}
  BY <1>1 DEF TurnUrls
<1>3. talk.turnservers \in Seq(TurnServers)
  BY DEF Offers
<1>4. talk.turnservers # <<>>
  BY <1>2, <1>3 DEF TurnEntries
<1>5. s.credential \in Credentials
  <2>1. CASE Configured(override.turn) = {}
    <3>1. PICK i \in DOMAIN talk.turnservers : s = talk.turnservers[i]
      BY <1>2, <2>1 DEF TurnEntries
    <3>2. talk.turnservers[i] \in TurnServers
      BY <1>3, <3>1
    <3> QED
      BY <3>1, <3>2 DEF TurnServers
  <2>2. CASE Configured(override.turn) # {}
    <3>1. talk.turnservers[1] \in TurnServers
      BY <1>3, <1>4
    <3> QED
      BY <1>2, <2>2, <3>1 DEF TurnEntries, TurnServers
  <2> QED
    BY <2>1, <2>2
<1> QED
  BY <1>2, <1>4, <1>5 DEF resolve_ice_servers

------------------------------------------------------------------------------
(* The self-test.                                                          *)

\* The checks of Talk, in order: the second is attempted when the first is well.
LEMMA TwoTalkChecks ==
  ASSUME NEW w \in Worlds
  PROVE  /\ Len(TalkChecks(w)) = 2
         /\ TalkChecks(w)[1].name = "talk_signaling" /\ TalkChecks(w)[2].name = "ice_servers"
         /\ TalkChecks(w)[1].ok = IF SettingsRead(w) THEN "ok" ELSE "failed"
         /\ SettingsRead(w) => TalkChecks(w)[2].ok =
              IF Description(w.talk, w.ice).turn # {} THEN "ok" ELSE "failed"
         /\ ~SettingsRead(w) => TalkChecks(w)[2].ok = "None"
PROOF
  BY DEF TalkChecks, IceCheck, Check, NotAttempted

\* The checks of Korsi, likewise.
LEMMA TwoKorsiChecks ==
  ASSUME NEW w \in Worlds
  PROVE  /\ Len(KorsiChecks(w)) = 2
         /\ KorsiChecks(w)[1].name = "korsi_token" /\ KorsiChecks(w)[2].name = "korsi_watchlist"
         /\ KorsiChecks(w)[1].ok =
              IF w.token /\ EXPECTED_ROLE \in w.roles THEN "ok" ELSE "failed"
         /\ w.token => KorsiChecks(w)[2].ok = IF w.answers /\ w.enabled THEN "ok" ELSE "failed"
         /\ ~w.token => KorsiChecks(w)[2].ok = "None"
PROOF
  BY DEF KorsiChecks, Check, NotAttempted

\* main.py:134: "One result per step, in the order the bridge performs them".  Whatever the
\* world is like, each step is reported once and in order, also when it was skipped.
THEOREM EveryStepIsReported ==
  ASSUME NEW w \in Worlds
  PROVE  /\ Len(self_test(w).checks) = 5
         /\ \A i \in 1..5 : self_test(w).checks[i].name = Steps[i]
PROOF
<1> DEFINE configured == check_korsi_env_vars(w.env) = {}
           first == <<Check("configuration", configured)>>
<1>1. CASE ~configured
  <2> DEFINE rest == <<NotAttempted("talk_signaling"), NotAttempted("ice_servers"),
                       NotAttempted("korsi_token"), NotAttempted("korsi_watchlist")>>
  <2>1. self_test(w).checks = first \o rest
    BY <1>1 DEF self_test, Finish
  <2>2. Len(first \o rest) = 5
    OBVIOUS
  <2>3. \A i \in 1..5 : (first \o rest)[i].name = Steps[i]
    BY DEF Steps, Check, NotAttempted
  <2> HIDE DEF first, rest
  <2> QED
    BY <2>1, <2>2, <2>3
<1>2. CASE configured
  <2>1. ClientBuilds(w.env)
    BY <1>2, EnabledCanStart DEF Worlds
  <2> DEFINE all == first \o TalkChecks(w) \o KorsiChecks(w)
  <2>2. self_test(w).checks = all \o <<>>
    BY <1>2, <2>1 DEF self_test, Finish
  <2>3. /\ Len(all) = 5 /\ all \o <<>> = all
        /\ all[1] = first[1] /\ all[2] = TalkChecks(w)[1] /\ all[3] = TalkChecks(w)[2]
        /\ all[4] = KorsiChecks(w)[1] /\ all[5] = KorsiChecks(w)[2]
    BY DEF TalkChecks, KorsiChecks
  <2>4. first[1].name = "configuration"
    BY DEF Check
  <2> HIDE DEF all, first
  <2>5. \A i \in 1..5 : all[i].name = Steps[i]
    BY <2>3, <2>4, TwoTalkChecks, TwoKorsiChecks DEF Steps
  <2> QED
    BY <2>2, <2>3, <2>5
<1> QED
  BY <1>1, <1>2

\* The self-test says ok exactly when every step between the environment and Korsi's answer
\* is in order; so it never says so of a bridge without a relay path, without the role or of
\* a tenant with live assistance switched off, and never refuses a good one.
THEOREM OkMeansEverything ==
  ASSUME NEW w \in Worlds
  PROVE  self_test(w).ok <=>
           /\ check_korsi_env_vars(w.env) = {}
           /\ SettingsRead(w)
           /\ Description(w.talk, w.ice).turn # {}
           /\ w.token /\ EXPECTED_ROLE \in w.roles
           /\ w.answers /\ w.enabled
PROOF
<1> DEFINE configured == check_korsi_env_vars(w.env) = {}
           first == <<Check("configuration", configured)>>
<1>1. CASE ~configured
  BY <1>1 DEF self_test, Finish
<1>2. CASE configured
  <2>1. ClientBuilds(w.env)
    BY <1>2, EnabledCanStart DEF Worlds
  <2> DEFINE all == first \o TalkChecks(w) \o KorsiChecks(w)
  <2>2. self_test(w).ok <=> \A i \in DOMAIN all : all[i].ok # "failed"
    BY <1>2, <2>1 DEF self_test, Finish
  <2>3. /\ DOMAIN all = 1..5
        /\ all[1] = first[1] /\ all[2] = TalkChecks(w)[1] /\ all[3] = TalkChecks(w)[2]
        /\ all[4] = KorsiChecks(w)[1] /\ all[5] = KorsiChecks(w)[2]
    BY TwoTalkChecks, TwoKorsiChecks DEF TalkChecks, KorsiChecks
  <2>4. first[1].ok # "failed"
    BY <1>2 DEF Check
  <2> HIDE DEF all
  <2>5. self_test(w).ok <=> \A i \in 2..5 : all[i].ok # "failed"
    BY <2>2, <2>3, <2>4
  <2> QED
    BY <1>2, <2>3, <2>5, TwoTalkChecks, TwoKorsiChecks DEF Worlds
<1> QED
  BY <1>1, <1>2

------------------------------------------------------------------------------
(* The tail of the log.                                                    *)

\* What becomes of the deque when a line is read.
Reads(kept, line, lines, min_level) ==
  IF Keeps(line, min_level) THEN Push(kept, line, Clamped(lines)) ELSE kept

\* The deque after each of the first n lines.
Deques(g, n, file, lines, min_level) ==
  /\ g = [i \in 0 .. n |-> g[i]]
  /\ g[0] = <<>>
  /\ \A i \in 1 .. n : g[i] = Reads(g[i - 1], file[i], lines, min_level)

\* There are such deques for every number of lines.
LEMMA DequesExist ==
  ASSUME NEW file, NEW lines, NEW min_level
  PROVE  \A n \in Nat : \E g : Deques(g, n, file, lines, min_level)
PROOF
<1> DEFINE S == {n \in Nat : ~\E g : Deques(g, n, file, lines, min_level)}
<1> SUFFICES ASSUME S # {} PROVE FALSE
  OBVIOUS
<1>1. PICK m \in S : \A k \in S : m <= k
  BY LeastNumber
<1>2. CASE m = 0
  <2>1. Deques([i \in 0 .. 0 |-> <<>>], 0, file, lines, min_level)
    BY DEF Deques
  <2> QED
    BY <1>2, <2>1
<1>3. CASE m # 0
  <2>1. m - 1 \in Nat /\ m - 1 \notin S
    BY <1>1, <1>3
  <2>2. PICK g : Deques(g, m - 1, file, lines, min_level)
    BY <2>1
  <2> DEFINE last == Reads(g[m - 1], file[m], lines, min_level)
             h == [i \in 0 .. m |-> IF i = m THEN last ELSE g[i]]
  <2>3. /\ h = [i \in 0 .. m |-> h[i]] /\ h[m] = last
        /\ \A i \in 0 .. (m - 1) : h[i] = g[i]
    BY <2>1
  <2> HIDE DEF h
  <2>4. h[0] = <<>>
    <3>1. g[0] = <<>>
      BY <2>2 DEF Deques
    <3>2. 0 \in 0 .. (m - 1)
      BY <2>1
    <3> QED
      BY <2>3, <3>1, <3>2
  <2>5. ASSUME NEW i \in 1 .. m PROVE h[i] = Reads(h[i - 1], file[i], lines, min_level)
    <3>1. i - 1 \in 0 .. (m - 1)
      BY <2>1
    <3>2. CASE i = m
      BY <2>3, <3>2
    <3>3. CASE i # m
      <4>1. i \in 1 .. (m - 1) /\ i \in 0 .. (m - 1)
        BY <3>3
      <4>2. g[i] = Reads(g[i - 1], file[i], lines, min_level)
        BY <2>2, <4>1 DEF Deques
      <4> QED
        BY <2>3, <3>1, <4>1, <4>2
    <3> QED
      BY <3>2, <3>3
  <2>6. Deques(h, m, file, lines, min_level)
    BY <2>3, <2>4, <2>5 DEF Deques
  <2> QED
    BY <2>6
<1> QED
  BY <1>2, <1>3

\* What they are, without their domain: the leaves that follow are about the length of the file.
LEMMA DequesAre ==
  ASSUME NEW g, NEW n \in Nat, NEW file, NEW lines, NEW min_level,
         Deques(g, n, file, lines, min_level)
  PROVE  /\ g[0] = <<>>
         /\ \A i \in 1 .. n : g[i] = Reads(g[i - 1], file[i], lines, min_level)
PROOF
  BY DEF Deques

\* The recursive function of tail_log is made of them.
LEMMA KeptAreDeques ==
  ASSUME NEW file, NEW lines, NEW min_level, NEW size \in Nat
  PROVE  LET kept[n \in 0 .. size] ==
               IF n = 0 THEN <<>>
               ELSE IF Keeps(file[n], min_level) THEN Push(kept[n - 1], file[n], Clamped(lines))
               ELSE kept[n - 1]
         IN  Deques(kept, size, file, lines, min_level)
PROOF
<1> DEFINE Def(g) == g = [n \in 0 .. size |->
                            IF n = 0 THEN <<>>
                            ELSE IF Keeps(file[n], min_level)
                                 THEN Push(g[n - 1], file[n], Clamped(lines))
                                 ELSE g[n - 1]]
           kept == CHOOSE g : Def(g)
<1>1. PICK g : Deques(g, size, file, lines, min_level)
  BY DequesExist
<1>2. Def(g)
  <2>1. \A n \in 0 .. size : n # 0 => n \in 1 .. size
    OBVIOUS
  <2>2. g = [n \in 0 .. size |-> g[n]]
    BY <1>1, Zenon DEF Deques
  <2> QED
    BY <1>1, <2>1, <2>2 DEF Deques, Reads
<1>3. Def(kept)
  BY <1>2, Zenon
<1> HIDE DEF kept
<1>4. Deques(kept, size, file, lines, min_level)
  <2>1. /\ DOMAIN kept = 0 .. size
        /\ \A n \in 0 .. size :
             kept[n] = IF n = 0 THEN <<>>
                       ELSE IF Keeps(file[n], min_level)
                            THEN Push(kept[n - 1], file[n], Clamped(lines))
                            ELSE kept[n - 1]
    BY <1>3
  <2>2. kept = [n \in 0 .. size |-> kept[n]]
    BY <1>3, <2>1
  <2>3. kept[0] = <<>>
    <3>1. 0 \in 0 .. size
      OBVIOUS
    <3> QED
      BY <2>1, <3>1
  <2>4. ASSUME NEW n \in 1 .. size
        PROVE  kept[n] = Reads(kept[n - 1], file[n], lines, min_level)
    <3>1. n \in 0 .. size /\ n # 0
      OBVIOUS
    <3> QED
      BY <2>1, <3>1 DEF Reads
  <2> QED
    BY <2>2, <2>3, <2>4 DEF Deques
<1> QED
  BY <1>4, Zenon DEF kept

\* tail_log is the last of them.
LEMMA TailIsADeque ==
  ASSUME NEW Line, NEW file \in Seq(Line), NEW lines, NEW min_level
  PROVE  \E g : Deques(g, Len(file), file, lines, min_level)
                /\ tail_log(file, lines, min_level) = g[Len(file)]
PROOF
<1>1. Len(file) \in Nat
  OBVIOUS
<1> QED
  BY <1>1, KeptAreDeques, Zenon DEF tail_log

\* The lines of `tail` are, at the places `at`, the newest of the first n lines of the file that
\* are kept, in the order of the file, as many as were asked for or all there are.
NewestAt(at, tail, n, file, lines, min_level) ==
  /\ at \in [1 .. Len(tail) -> 1 .. n]
  /\ \A i, j \in 1 .. Len(tail) : i < j => at[i] < at[j]
  /\ \A i \in 1 .. Len(tail) : tail[i] = file[at[i]] /\ Keeps(file[at[i]], min_level)
  /\ Len(tail) <= Clamped(lines)
  /\ \A k \in 1 .. n : Keeps(file[k], min_level) =>
       \/ \E i \in 1 .. Len(tail) : at[i] = k
       \/ Len(tail) = Clamped(lines) /\ \A i \in 1 .. Len(tail) : k < at[i]

\* So they are, at some places.
Newest(tail, n, file, lines, min_level) ==
  \E at : NewestAt(at, tail, n, file, lines, min_level)

\* One more line keeps it so.
LEMMA ReadsNewest ==
  ASSUME NEW Line, NEW file \in Seq(Line), NEW lines \in Int, NEW min_level,
         NEW n \in 1 .. Len(file), NEW tail \in Seq(Line),
         Newest(tail, n - 1, file, lines, min_level),
         NEW new, new = Reads(tail, file[n], lines, min_level)
  PROVE  new \in Seq(Line) /\ Newest(new, n, file, lines, min_level)
PROOF
<1> DEFINE most == Clamped(lines)
           L == Len(tail)
<1>1. most \in Nat \ {0} /\ L \in Nat /\ n \in Nat /\ n - 1 \in Nat /\ file[n] \in Line
  BY LogAssumption DEF Clamped
<1> HIDE DEF most
<1>2. PICK at : NewestAt(at, tail, n - 1, file, lines, min_level)
  BY DEF Newest
<1>3. /\ at \in [1 .. L -> 1 .. (n - 1)]
      /\ \A i, j \in 1 .. L : i < j => at[i] < at[j]
      /\ \A i \in 1 .. L : tail[i] = file[at[i]] /\ Keeps(file[at[i]], min_level)
      /\ L <= most
      /\ \A k \in 1 .. (n - 1) : Keeps(file[k], min_level) =>
           \/ \E i \in 1 .. L : at[i] = k
           \/ L = most /\ \A i \in 1 .. L : k < at[i]
  BY <1>2 DEF NewestAt, most
<1>4. \A i \in 1 .. L : at[i] \in 1 .. n /\ at[i] < n
  <2>1. \A i \in 1 .. L : at[i] \in 1 .. (n - 1)
    BY <1>3
  <2> QED
    BY <2>1
<1>5. CASE ~Keeps(file[n], min_level)
  <2>1. new = tail
    BY <1>5 DEF Reads
  <2>2. \A k \in 1 .. n : Keeps(file[k], min_level) => k \in 1 .. (n - 1)
    BY <1>5
  <2>3. NewestAt(at, tail, n, file, lines, min_level)
    BY <1>3, <2>2 DEF NewestAt, most
  <2> QED
    BY <2>1, <2>3 DEF Newest
<1>6. CASE Keeps(file[n], min_level) /\ L < most
  <2> DEFINE at2 == [i \in 1 .. (L + 1) |-> IF i = L + 1 THEN n ELSE at[i]]
  <2>1. new = Append(tail, file[n])
    BY <1>6 DEF Reads, Push, most
  <2>2. /\ new \in Seq(Line) /\ Len(new) = L + 1 /\ new[L + 1] = file[n]
        /\ \A i \in 1 .. L : new[i] = tail[i]
    BY <2>1
  <2>3. /\ \A i \in 1 .. L : at2[i] = at[i]
        /\ at2[L + 1] = n
        /\ \A i \in 1 .. (L + 1) : i = L + 1 \/ i \in 1 .. L
    BY <1>1
  <2>4. at2 \in [1 .. (L + 1) -> 1 .. n]
    BY <1>4
  <2> HIDE DEF at2
  <2>5. \A i, j \in 1 .. (L + 1) : i < j => at2[i] < at2[j]
    <3> SUFFICES ASSUME NEW i \in 1 .. (L + 1), NEW j \in 1 .. (L + 1), i < j
                 PROVE  at2[i] < at2[j]
      OBVIOUS
    <3>1. i \in 1 .. L
      BY <1>1
    <3> QED
      BY <1>3, <1>4, <2>3, <3>1
  <2>6. \A i \in 1 .. (L + 1) : new[i] = file[at2[i]] /\ Keeps(file[at2[i]], min_level)
    BY <1>3, <1>6, <2>2, <2>3
  <2>7. ASSUME NEW k \in 1 .. n, Keeps(file[k], min_level)
        PROVE  \E i \in 1 .. (L + 1) : at2[i] = k
    <3>1. CASE k = n
      BY <2>3, <3>1
    <3>2. CASE k # n
      <4>1. k \in 1 .. (n - 1)
        BY <3>2
      <4>2. PICK i \in 1 .. L : at[i] = k
        BY <1>3, <1>6, <2>7, <4>1
      <4> QED
        BY <2>3, <4>2
    <3> QED
      BY <3>1, <3>2
  <2>8. L + 1 <= most
    BY <1>1, <1>6
  <2>9. NewestAt(at2, new, n, file, lines, min_level)
    BY <2>2, <2>4, <2>5, <2>6, <2>7, <2>8 DEF NewestAt, most
  <2> QED
    BY <2>2, <2>9 DEF Newest
<1>7. CASE Keeps(file[n], min_level) /\ L = most
  <2> DEFINE at2 == [i \in 1 .. L |-> IF i = L THEN n ELSE at[i + 1]]
  <2>1. new = Append(Tail(tail), file[n])
    BY <1>7 DEF Reads, Push, most
  <2>2. tail # <<>> /\ Tail(tail) \in Seq(Line) /\ Len(Tail(tail)) = L - 1
        /\ \A i \in 1 .. (L - 1) : Tail(tail)[i] = tail[i + 1]
    BY <1>1, <1>7
  <2>3. /\ new \in Seq(Line) /\ Len(new) = L /\ new[L] = file[n]
        /\ \A i \in 1 .. (L - 1) : new[i] = tail[i + 1]
    BY <2>1, <2>2
  <2>4. /\ \A i \in 1 .. (L - 1) : at2[i] = at[i + 1] /\ i + 1 \in 1 .. L
        /\ at2[L] = n /\ L \in 1 .. L /\ 1 \in 1 .. L
        /\ \A i \in 1 .. L : i = L \/ i \in 1 .. (L - 1)
        /\ \A i \in 1 .. L : i = 1 \/ i - 1 \in 1 .. (L - 1)
    BY <1>1, <1>7
  <2>5. at2 \in [1 .. L -> 1 .. n]
    BY <1>4
  <2> HIDE DEF at2
  <2>6. \A i, j \in 1 .. L : i < j => at2[i] < at2[j]
    <3> SUFFICES ASSUME NEW i \in 1 .. L, NEW j \in 1 .. L, i < j
                 PROVE  at2[i] < at2[j]
      OBVIOUS
    <3>1. i \in 1 .. (L - 1) /\ at2[i] = at[i + 1] /\ i + 1 \in 1 .. L
      BY <2>4
    <3>2. CASE j = L
      BY <1>4, <2>4, <3>2
    <3>3. CASE j # L
      <4>1. at2[j] = at[j + 1] /\ j + 1 \in 1 .. L /\ i + 1 < j + 1
        BY <2>4, <3>3
      <4> QED
        BY <1>3, <3>1, <4>1
    <3> QED
      BY <3>2, <3>3
  <2>7. \A i \in 1 .. L : new[i] = file[at2[i]] /\ Keeps(file[at2[i]], min_level)
    <3> SUFFICES ASSUME NEW i \in 1 .. L
                 PROVE  new[i] = file[at2[i]] /\ Keeps(file[at2[i]], min_level)
      OBVIOUS
    <3>1. CASE i = L
      BY <1>7, <2>3, <2>4, <3>1
    <3>2. CASE i # L
      BY <1>3, <2>3, <2>4, <3>2
    <3> QED
      BY <3>1, <3>2
  <2>8. \A i \in 1 .. L : at[1] < at2[i]
    <3> SUFFICES ASSUME NEW i \in 1 .. L PROVE at[1] < at2[i]
      OBVIOUS
    <3>1. CASE i = L
      BY <1>4, <2>4, <3>1
    <3>2. CASE i # L
      <4>1. at2[i] = at[i + 1] /\ i + 1 \in 1 .. L /\ 1 < i + 1
        BY <2>4, <3>2
      <4> QED
        BY <1>3, <4>1
    <3> QED
      BY <3>1, <3>2
  <2>9. ASSUME NEW k \in 1 .. n, Keeps(file[k], min_level)
        PROVE  \/ \E i \in 1 .. L : at2[i] = k
               \/ \A i \in 1 .. L : k < at2[i]
    <3>1. CASE k = n
      BY <2>4, <3>1
    <3>2. CASE k # n
      <4>1. k \in 1 .. (n - 1)
        BY <3>2
      <4>2. CASE \E i \in 1 .. L : at[i] = k
        <5>1. PICK i \in 1 .. L : at[i] = k
          BY <4>2
        <5>2. CASE i = 1
          BY <2>8, <5>1, <5>2
        <5>3. CASE i # 1
          <6>1. i - 1 \in 1 .. (L - 1) /\ (i - 1) + 1 = i
            BY <5>3
          <6>2. at2[i - 1] = k /\ i - 1 \in 1 .. L
            BY <2>4, <5>1, <6>1
          <6> QED
            BY <6>2
        <5> QED
          BY <5>2, <5>3
      <4>3. CASE \A i \in 1 .. L : k < at[i]
        <5>1. at[1] \in Nat /\ k \in Nat /\ k < at[1] /\ \A i \in 1 .. L : at2[i] \in Nat
          <6>1. 1 \in 1 .. L /\ \A i \in 1 .. L : at[i] \in 1 .. n
            BY <1>4, <2>4
          <6>2. \A i \in 1 .. L : at2[i] \in 1 .. n
            BY <2>5
          <6> QED
            BY <4>1, <4>3, <6>1, <6>2
        <5> QED
          BY <2>8, <5>1
      <4> QED
        BY <1>3, <2>9, <4>1, <4>2, <4>3
    <3> QED
      BY <3>1, <3>2
  <2>10. NewestAt(at2, new, n, file, lines, min_level)
    BY <1>7, <2>3, <2>5, <2>6, <2>7, <2>9 DEF NewestAt, most
  <2> QED
    BY <2>3, <2>10 DEF Newest
<1> QED
  BY <1>1, <1>3, <1>5, <1>6, <1>7

\* diagnostics.py:221-253: whatever is in the file, an administrator is shown its newest lines
\* that are at or above the level, or that cannot be read, newest last, as many as were asked
\* for (between 1 and MAX_LOG_LINES); fewer only if there are no more.
THEOREM TailIsNewest ==
  ASSUME NEW Line, NEW file \in Seq(Line), NEW lines \in Int, NEW min_level
  PROVE  Newest(tail_log(file, lines, min_level), Len(file), file, lines, min_level)
PROOF
<1>1. PICK g : /\ Deques(g, Len(file), file, lines, min_level)
               /\ tail_log(file, lines, min_level) = g[Len(file)]
  BY TailIsADeque
<1>2. Len(file) \in Nat
  OBVIOUS
<1> DEFINE P(n) == g[n] \in Seq(Line) /\ Newest(g[n], n, file, lines, min_level)
           S == {n \in 0 .. Len(file) : ~P(n)}
<1>3. S = {}
  <2> SUFFICES ASSUME S # {} PROVE FALSE
    OBVIOUS
  <2>1. S \in SUBSET Nat
    OBVIOUS
  <2>2. PICK m \in S : \A k \in S : m <= k
    BY <2>1, LeastNumber
  <2>3. CASE m = 0
    <3>1. g[0] = <<>>
      BY <1>1, <1>2, DequesAre
    <3>2. NewestAt(<<>>, <<>>, 0, file, lines, min_level)
      BY LogAssumption DEF NewestAt, Clamped
    <3>3. g[0] \in Seq(Line)
      BY <3>1
    <3>4. Newest(g[0], 0, file, lines, min_level)
      BY <3>1, <3>2, Zenon DEF Newest
    <3> QED
      BY <2>3, <3>3, <3>4
  <2>4. CASE m # 0
    <3>1. m \in 1 .. Len(file) /\ m - 1 \in 0 .. Len(file) /\ m - 1 \notin S
      BY <2>2, <2>4
    <3>2. g[m] = Reads(g[m - 1], file[m], lines, min_level)
      BY <1>1, <1>2, <3>1, DequesAre
    <3>3. P(m)
      BY <3>1, <3>2, ReadsNewest
    <3> QED
      BY <3>3
  <2> QED
    BY <2>3, <2>4
<1> QED
  BY <1>1, <1>2, <1>3
==============================================================================
