------------------------------ MODULE Segmenter ------------------------------
(***************************************************************************)
(* The segmenter of one live session (lib/segmenter.py): a task that       *)
(* sleeps an interval, cuts the confirmed text and posts it to Korsi, and  *)
(* the stop that cancels it and posts what is left.                        *)
(*                                                                         *)
(* Around it, only as far as segmenter.py sees them: the buffer of         *)
(* confirmed words it drains (soniox_stream.py), the requests on their way *)
(* to Korsi, and the rows Korsi stores, unique on the sequence number      *)
(* (external: modelled from what the code says and expects of it).         *)
(*                                                                         *)
(* Words are numbered in the order they are confirmed and a text is a      *)
(* sequence of words: what can go wrong is a word lost, doubled or moved,  *)
(* never its spelling.                                                     *)
(***************************************************************************)
EXTENDS Texts

CONSTANTS
  Intervals,      \* the segment intervals Korsi may ask for
  FirstInterval,  \* seconds before the first segment
  MaxWords,       \* bound: words confirmed in a behaviour
  MaxTime         \* bound: the clock

ASSUME SegmenterAssumption ==
  /\ Intervals \subseteq Nat \ {0}
  /\ FirstInterval \in Nat \ {0}
  /\ MaxWords \in Nat
  /\ MaxTime \in Nat

VARIABLES
  pc,         \* where the segmenter is, between two awaits
  stopping,   \* _stopping: stop() was called
  sequence,   \* _sequence: the last number Korsi accepted
  cursor,     \* _cursor_ms: where the next segment begins
  carried,    \* _carried: text of a failed post
  interval,   \* _interval
  due,        \* when the current sleep ends
  post,       \* the request append_segment is waiting on
  answer,     \* Korsi's answer to `post`, once it is on its way back
  parts,      \* _final_parts of the speech stream
  heard,      \* words confirmed so far
  now,        \* time.monotonic() - _started_at
  wire,       \* requests sent and not yet arrived
  rows,       \* Korsi: the segments stored, by sequence number
  open,       \* Korsi: the session takes segments
  unanswered, \* history: a post that may have been stored got no readable answer
  cancelled   \* history: stop() cancelled a post in flight

client   == <<sequence, cursor, carried, interval>>
stream   == <<parts, heard>>
korsi    == <<wire, rows, open>>
history  == <<unanswered, cancelled>>
vars     == <<pc, stopping, client, due, post, answer, stream, now, korsi, history>>

Request == [sequence : Nat, from : Nat, to : Nat, text : Seq(Nat)]

NoRequest == [sequence |-> 0, from |-> 0, to |-> 0, text |-> <<>>]

Posting == pc \in {"posting", "flushPosting"}

TypeOK ==
  /\ pc \in {"sleeping", "finalizing", "posting", "dead",
             "flushing", "flushPosting", "stopped"}
  /\ stopping \in BOOLEAN
  /\ sequence \in Nat
  /\ cursor \in Nat
  /\ carried \in Seq(Nat)
  /\ interval \in Nat
  /\ due \in Nat
  /\ post \in Request
  /\ answer \in {"none", "accepted", "refused", "closed"}
  /\ parts \in Seq(Nat)
  /\ heard \in 0 .. MaxWords
  /\ now \in 0 .. MaxTime
  /\ wire \in SUBSET Request
  /\ DOMAIN rows \in SUBSET Nat
  /\ \A n \in DOMAIN rows : rows[n] \in Request
  /\ open \in BOOLEAN
  /\ unanswered \in BOOLEAN
  /\ cancelled \in BOOLEAN

Init ==
  /\ pc = "sleeping"
  /\ stopping = FALSE
  /\ sequence = 0
  /\ cursor = 0
  /\ carried = <<>>
  /\ interval \in Intervals
  /\ due = FirstInterval
  /\ post = NoRequest
  /\ answer = "none"
  /\ parts = <<>>
  /\ heard = 0
  /\ now = 0
  /\ wire = {}
  /\ rows = [n \in {} |-> NoRequest]
  /\ open = TRUE
  /\ unanswered = FALSE
  /\ cancelled = FALSE

------------------------------------------------------------------------------
(* The world around the segmenter.                                         *)

Tick ==
  /\ now < MaxTime
  /\ now' = now + 1
  /\ UNCHANGED <<pc, stopping, client, due, post, answer, stream, korsi, history>>

\* The receiver appends a confirmed word to the buffer.
Hear ==
  /\ heard < MaxWords
  /\ heard' = heard + 1
  /\ parts' = Append(parts, heard + 1)
  /\ UNCHANGED <<pc, stopping, client, due, post, answer, now, korsi, history>>

Reply(r, verdict) == answer' = IF r = post /\ Posting THEN verdict ELSE answer

\* A request arrives.  A number already stored is a duplicate: accepted and ignored.
KorsiStores(r) ==
  /\ r \in wire
  /\ open
  /\ wire' = wire \ {r}
  /\ rows' = IF r.sequence \in DOMAIN rows
             THEN rows
             ELSE [n \in DOMAIN rows \cup {r.sequence} |->
                     IF n = r.sequence THEN r ELSE rows[n]]
  /\ Reply(r, "accepted")
  /\ UNCHANGED <<pc, stopping, client, due, post, stream, now, open, history>>

\* Korsi, or the proxy before it, answers with an error and stores nothing.
KorsiRefuses(r, verdict) ==
  /\ r \in wire
  /\ verdict = "closed" => ~open
  /\ wire' = wire \ {r}
  /\ Reply(r, verdict)
  /\ UNCHANGED <<pc, stopping, client, due, post, stream, now, rows, open, history>>

\* The session is over for Korsi: the sweep, or somebody closed it there.
KorsiCloses ==
  /\ open
  /\ open' = FALSE
  /\ UNCHANGED <<pc, stopping, client, due, post, answer, stream, now, wire, rows, history>>

------------------------------------------------------------------------------
(* _run: sleep, finalize, cut and post.                                    *)

SleepUntil(t) == pc' = "sleeping" /\ due' = t

\* The sleep is over; finalize() gives the speech provider a moment.
Wake ==
  /\ pc = "sleeping"
  /\ now >= due
  /\ pc' = "finalizing"
  /\ UNCHANGED <<stopping, client, due, post, answer, stream, now, korsi, history>>

\* Mutant: the text of a failed post is put behind what came after it.
TakeTextFreshFirst == parts \o carried

TakeText == carried \o parts

\* Mutant: the buffer is read, not drained.
ReadText == parts' = parts

DrainText == parts' = <<>>

\* Mutant: no guard against a zero-width interval.
EndedMsUnguarded == now

EndedMs == IF now > cursor THEN now ELSE cursor + 1

\* Mutant: a retry takes a fresh number.
NextSequenceOfAttempt == IF carried # <<>> THEN sequence + 2 ELSE sequence + 1

NextSequence == sequence + 1

\* _take_text and append_segment up to the wait for the answer.
PostOnce(next) ==
  /\ post' = [sequence |-> NextSequence, from |-> cursor, to |-> EndedMs, text |-> TakeText]
  /\ wire' = wire \cup {post'}
  /\ answer' = "none"
  /\ carried' = <<>>
  /\ DrainText
  /\ pc' = next
  /\ UNCHANGED <<stopping, sequence, cursor, interval, due, heard, now, rows, open, history>>

CutInterval == pc = "finalizing" /\ PostOnce("posting")

CutFinal == pc = "flushing" /\ PostOnce("flushPosting")

\* Mutant: the final post goes back to sleep like any other.
ResumeSleeping(wait) == SleepUntil(now + wait)

\* Where an answered post leaves the segmenter: back to sleep, or done.
Resume(wait) ==
  IF pc = "posting" THEN SleepUntil(now + wait)
                    ELSE pc' = "stopped" /\ UNCHANGED due

\* Mutant: the cursor follows the clock, not the end of the accepted segment.
AdvanceCursorToNow == cursor' = now

AdvanceCursor == cursor' = post.to

\* Korsi accepted: the counter and the cursor advance, the echoed interval is adopted.
Accepted(echoed) ==
  /\ Posting
  /\ answer = "accepted"
  /\ sequence' = post.sequence
  /\ AdvanceCursor
  /\ interval' = IF echoed > 0 THEN echoed ELSE interval
  /\ Resume(interval')
  /\ post' = NoRequest /\ answer' = "none"
  /\ UNCHANGED <<stopping, carried, stream, now, korsi, history>>

\* Mutant: the text of a failed post is dropped.
DropText == carried' = carried /\ post' = NoRequest /\ answer' = "none"

\* The text of a failed post is kept; the number and the cursor stay.
HoldText == carried' = post.text /\ post' = NoRequest /\ answer' = "none"

\* KorsiApiError with an answer that says why: nothing was stored.
Refused ==
  /\ Posting
  /\ answer = "refused"
  /\ HoldText
  /\ Resume(interval)
  /\ UNCHANGED <<stopping, sequence, cursor, interval, stream, now, korsi, history>>

\* KorsiApiError because the request could not be sent.
Unreachable ==
  /\ Posting
  /\ post \in wire
  /\ wire' = wire \ {post}
  /\ HoldText
  /\ Resume(interval)
  /\ UNCHANGED <<stopping, sequence, cursor, interval, stream, now, rows, open, history>>

\* KorsiApiError because no answer came: the request may arrive later or has arrived.
TimesOut ==
  /\ Posting
  /\ unanswered' = (unanswered \/ post \in wire \/ answer = "accepted")
  /\ HoldText
  /\ Resume(interval)
  /\ UNCHANGED <<stopping, sequence, cursor, interval, stream, now, korsi, cancelled>>

\* A 200 whose body cannot be read raises something _run does not catch: the task ends.
Unreadable ==
  /\ Posting
  /\ answer = "accepted"
  /\ unanswered' = TRUE
  /\ HoldText
  /\ pc' = IF pc = "posting" THEN "dead" ELSE "stopped"
  /\ UNCHANGED <<stopping, sequence, cursor, interval, due, stream, now, korsi, cancelled>>

\* LiveSessionClosed: _run calls on_session_gone, which stops this segmenter.
SessionGone ==
  /\ Posting
  /\ answer = "closed"
  /\ HoldText
  /\ stopping' = TRUE
  /\ pc' = IF pc = "posting" THEN "flushing" ELSE "stopped"
  /\ UNCHANGED <<sequence, cursor, interval, due, stream, now, korsi, history>>

\* stop(flush=True): cancel the task, wherever it waits, and go on to the flush.
Stop ==
  /\ ~stopping
  /\ stopping' = TRUE
  /\ pc' = "flushing"
  /\ cancelled' = (cancelled \/ Posting)
  /\ post' = NoRequest /\ answer' = "none"
  /\ UNCHANGED <<client, due, stream, now, korsi, unanswered>>

------------------------------------------------------------------------------
World == \/ Tick \/ Hear \/ KorsiCloses
         \/ \E r \in wire : \/ KorsiStores(r)
                            \/ \E verdict \in {"refused", "closed"} : KorsiRefuses(r, verdict)

Cut == Wake \/ CutInterval \/ CutFinal

PostEnds == \/ \E echoed \in Intervals \cup {0} : Accepted(echoed)
            \/ Refused \/ Unreachable \/ TimesOut \/ Unreadable \/ SessionGone

Next == World \/ Cut \/ PostEnds \/ Stop

\* The event loop runs what is ready, and a request ends at the latest when it times out.
Fairness == WF_vars(Cut) /\ WF_vars(PostEnds)

Spec == Init /\ [][Next]_vars

FairSpec == Spec /\ Fairness

------------------------------------------------------------------------------
(* Properties.                                                             *)

T == INSTANCE Transcript
       WITH published <- [n \in DOMAIN rows |-> rows[n].text],
            lossy <- unanswered \/ cancelled

\* The counter the bridge advances only on an accept and the numbers Korsi stores stay
\* in step: the stored numbers have no hole and run at most one ahead of the counter.
CounterFollowsKorsi ==
  \/ DOMAIN rows = 1 .. sequence
  \/ DOMAIN rows = 1 .. (sequence + 1)

\* Stored text is in spoken order, within a segment and from segment to segment, so no
\* word is stored twice: whatever requests fail, are retried, arrive late or not at all.
StoredInSpokenOrder ==
  /\ \A n \in DOMAIN rows : Ordered(rows[n].text)
  /\ \A m, n \in DOMAIN rows : m < n => Before(rows[m].text, rows[n].text)

\* No stored segment is empty in time (Korsi would reject it) or overlaps another.
NoOverlap ==
  /\ \A n \in DOMAIN rows : rows[n].from < rows[n].to
  /\ \A m, n \in DOMAIN rows : m < n => rows[m].to <= rows[n].from

\* The stored segments tile the call, with no gap, unless a post went without its answer.
Tiles ==
  unanswered \/ cancelled \/
  \A n \in DOMAIN rows : rows[n].from = IF n = 1 THEN 0 ELSE rows[n - 1].to

Stored(word) == \E n \in DOMAIN rows : Within(word, rows[n].text)

Held(word) == Within(word, carried) \/ Within(word, post.text) \/ Within(word, parts)

NothingDropped == \A word \in 1 .. heard : Stored(word) \/ Held(word)

\* A confirmed word is stored or still held, unless a post went without its answer:
\* refusals, an unreachable Korsi and a closed session cost no text.
NoUnexplainedHole == unanswered \/ cancelled \/ NothingDropped

\* No request is under way: what has not been stored by now never will be from the wire.
Settled == ~Posting /\ wire = {}

\* segmenter.py:17-19 says a retried post is harmless.  A post stored without its answer
\* is retried under the same number with more text, and the retry is ignored whole.
RetryHarmless == cancelled \/ (Settled => NothingDropped)

\* stop() comes to an end whatever Korsi does: nothing it waits for is without a timeout.
StopCompletes == stopping ~> pc = "stopped"

\* The segmenter implements the abstract transcript.
Publishes == T!Spec
==============================================================================
