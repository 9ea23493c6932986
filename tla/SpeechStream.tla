----------------------------- MODULE SpeechStream -----------------------------
(***************************************************************************)
(* The speech connection of one call (lib/soniox_stream.py): a receiver    *)
(* task that keeps the confirmed text and reconnects, the segmenter that   *)
(* drains the text, and stop_reading (spreed_client.py), which drains it   *)
(* for the last time and closes the stream.                                *)
(*                                                                         *)
(* A message of the provider is a confirmed word, `finished` (asked for    *)
(* by aclose or not), a message without final tokens, or an error of one   *)
(* of the three kinds the code tells apart.  Words are                     *)
(* numbered as the provider sends them.  The sender pump only moves audio  *)
(* and is left out: it never changes which connection is in use.           *)
(***************************************************************************)
EXTENDS Texts

CONSTANTS
  MaxReconnects,  \* SONIOX_MAX_RECONNECTS
  MaxWords,       \* bound: words the provider confirms
  MaxInbox,       \* bound: messages received and not read
  MaxOpened       \* bound: connections opened

ASSUME StreamAssumption ==
  /\ MaxReconnects \in Nat
  /\ MaxWords \in Nat
  /\ MaxInbox \in Nat
  /\ MaxOpened \in Nat

VARIABLES
  receiver,   \* where the receiver task is, between two awaits
  renewing,   \* renew_credential of the _reconnect under way
  reconnects, \* _reconnects
  ws,         \* _ws, as the number of the connection, 0 for None
  live,       \* the connections open on this side
  opened,     \* connections opened so far
  up,         \* the provider has not closed the connection in use
  inbox,      \* messages received on the connection in use and not read
  words,      \* words the provider has confirmed
  parts,      \* _final_parts
  taken,      \* history: what drain_text returned, in order
  absorbed,   \* history: the confirmed words read
  failed,     \* failed is set
  dismissed,  \* history: the receiver has read a `finished` message
  caller,     \* how far stop_reading is
  closing     \* _closing

socket  == <<ws, live, opened, up>>
text    == <<parts, taken, absorbed>>
outcome == <<failed, dismissed>>
vars    == <<receiver, renewing, reconnects, socket, inbox, words, text, outcome, caller, closing>>

Word(n) == [kind |-> "word", word |-> n]

Message ==
  [kind : {"word"}, word : 1 .. MaxWords]
    \cup [kind : {"interim", "finished", "renewable", "transient", "fatal"}, word : {0}]

Control(kind) == [kind |-> kind, word |-> 0]

TypeOK ==
  /\ receiver \in {"receiving", "closingOld", "renewing", "backoff", "connecting",
                   "greeting", "ended"}
  /\ renewing \in BOOLEAN
  /\ reconnects \in 0 .. (MaxReconnects + 1)
  /\ ws \in 0 .. opened
  /\ live \subseteq 1 .. opened
  /\ opened \in 1 .. (MaxOpened + 1)
  /\ up \in BOOLEAN
  /\ inbox \in Seq(Message) /\ Len(inbox) <= MaxInbox
  /\ words \in 0 .. MaxWords
  /\ parts \in Seq(1 .. MaxWords) /\ taken \in Seq(1 .. MaxWords)
  /\ absorbed \in Seq(1 .. MaxWords)
  /\ failed \in BOOLEAN /\ dismissed \in BOOLEAN
  /\ caller \in {"reading", "flushing", "flushed", "halting", "grace", "closed"}
  /\ closing \in BOOLEAN

\* start() returned: the first connection is open, its receiver runs.
Init ==
  /\ receiver = "receiving" /\ renewing = FALSE /\ reconnects = 0
  /\ ws = 1 /\ live = {1} /\ opened = 1 /\ up = TRUE
  /\ inbox = <<>> /\ words = 0
  /\ parts = <<>> /\ taken = <<>> /\ absorbed = <<>>
  /\ failed = FALSE /\ dismissed = FALSE /\ caller = "reading" /\ closing = FALSE

------------------------------------------------------------------------------
(* The provider.                                                           *)

Arrives(message) ==
  /\ ws # 0 /\ receiver # "greeting"
  /\ up
  /\ Len(inbox) < MaxInbox
  /\ inbox' = Append(inbox, message)

ProviderConfirms ==
  /\ words < MaxWords
  /\ Arrives(Word(words + 1))
  /\ words' = words + 1
  /\ UNCHANGED <<receiver, renewing, reconnects, socket, text, outcome, caller, closing>>

ProviderSays(kind) ==
  /\ Arrives(Control(kind))
  /\ UNCHANGED <<receiver, renewing, reconnects, socket, words, text, outcome, caller, closing>>

\* The provider finishes the stream, because aclose asked it to or of its own accord, and
\* closes.
ProviderFinishes ==
  /\ Arrives(Control("finished"))
  /\ up' = FALSE
  /\ UNCHANGED <<receiver, renewing, reconnects, ws, live, opened, words, text,
                 outcome, caller, closing>>

ProviderDrops ==
  /\ ws # 0 /\ up
  /\ up' = FALSE
  /\ UNCHANGED <<receiver, renewing, reconnects, ws, live, opened, inbox, words, text,
                 outcome, caller, closing>>

------------------------------------------------------------------------------
(* The receiver.                                                           *)

\* Mutant: the attempt that exhausts the budget reports the failure and goes on.
GiveUpGoingOn ==
  failed' = TRUE /\ receiver' = "backoff" /\ UNCHANGED <<renewing, socket, inbox>>

\* Mutant: the receiver ends and does not say why.
GiveUpSilently ==
  receiver' = "ended" /\ UNCHANGED <<renewing, socket, inbox, failed>>

\* The stream ends in a way reconnecting cannot fix.
GiveUp ==
  failed' = TRUE /\ receiver' = "ended" /\ UNCHANGED <<renewing, socket, inbox>>

\* Mutant: only a renewal counts as an attempt.
CountRenewals(renew) == reconnects' = IF renew THEN reconnects + 1 ELSE reconnects

\* Mutant: a renewal does not count as an attempt.
CountFailures(renew) == reconnects' = IF renew THEN reconnects ELSE reconnects + 1

CountAttempt(renew) == reconnects' = reconnects + 1

\* _reconnect up to its first wait, the close of the old connection.
Reconnect(renew) ==
  IF closing
  THEN receiver' = "ended" /\ UNCHANGED <<renewing, reconnects, socket, inbox, failed>>
  ELSE /\ CountAttempt(renew)
       /\ IF reconnects' > MaxReconnects
          THEN GiveUp
          ELSE /\ receiver' = "closingOld"
               /\ renewing' = renew
               /\ UNCHANGED <<socket, inbox, failed>>

\* The loop condition: after each message the receiver looks whether the stream closes.
NextRound == receiver' = IF closing THEN "ended" ELSE "receiving"

Reading(kind) == receiver = "receiving" /\ inbox # <<>> /\ Head(inbox).kind = kind

\* Mutant: a message puts its confirmed text in the place of the text before it.
KeepLatest(word) == parts' = <<word>>

KeepConfirmed(word) == parts' = Append(parts, word)

\* _absorb of a message with a final token.
Absorb ==
  /\ Reading("word")
  /\ inbox' = Tail(inbox)
  /\ KeepConfirmed(Head(inbox).word)
  /\ absorbed' = Append(absorbed, Head(inbox).word)
  /\ NextRound
  /\ UNCHANGED <<renewing, reconnects, socket, words, taken, outcome, caller, closing>>

\* _absorb of provisional tokens, bytes, or what is no JSON.
AbsorbNothing ==
  /\ Reading("interim")
  /\ inbox' = Tail(inbox)
  /\ NextRound
  /\ UNCHANGED <<renewing, reconnects, socket, words, text, outcome, caller, closing>>

\* The receiver returns, whoever asked for the end, and sets nothing.
Finished ==
  /\ Reading("finished")
  /\ inbox' = Tail(inbox)
  /\ receiver' = "ended"
  /\ dismissed' = TRUE
  /\ UNCHANGED <<renewing, reconnects, socket, words, text, failed, caller, closing>>

\* _handle_error: a spent credential, a passing trouble, or the end.
HandleError ==
  /\ \/ Reading("renewable") /\ Reconnect(TRUE)
     \/ Reading("transient") /\ Reconnect(FALSE)
     \/ Reading("fatal") /\ GiveUp /\ UNCHANGED reconnects
  /\ UNCHANGED <<words, text, dismissed, caller, closing>>

\* Everything that arrived is read and the connection is closed.
ConnectionLost ==
  /\ receiver = "receiving" /\ inbox = <<>> /\ ~up
  /\ Reconnect(FALSE)
  /\ UNCHANGED <<words, text, dismissed, caller, closing>>

\* Mutant: the old connection is forgotten, not closed.
ForgetOld == UNCHANGED live

CloseOld == live' = live \ {ws}

\* The old connection is closed, and what it had not delivered goes with it.  Outside a
\* reading session (_session is None as soon as stop_reading begins) renewing fails at once.
OldClosed ==
  /\ receiver = "closingOld"
  /\ CloseOld
  /\ ws' = 0 /\ inbox' = <<>>
  /\ IF renewing /\ caller # "reading"
     THEN receiver' = "ended" /\ failed' = TRUE
     ELSE receiver' = (IF renewing THEN "renewing" ELSE "backoff") /\ UNCHANGED failed
  /\ UNCHANGED <<renewing, reconnects, opened, up, words, text, dismissed, caller, closing>>

Renewed ==
  /\ receiver = "renewing"
  /\ \/ receiver' = "connecting" /\ UNCHANGED <<renewing, socket, inbox, failed>>
     \/ GiveUp
  /\ UNCHANGED <<reconnects, words, text, dismissed, caller, closing>>

BackoffOver ==
  /\ receiver = "backoff"
  /\ receiver' = "connecting"
  /\ UNCHANGED <<renewing, reconnects, socket, inbox, words, text, outcome, caller, closing>>

ConnectFails ==
  /\ receiver = "connecting"
  /\ Reconnect(FALSE)
  /\ UNCHANGED <<words, text, dismissed, caller, closing>>

Connected ==
  /\ receiver = "connecting"
  /\ opened <= MaxOpened
  /\ opened' = opened + 1
  /\ ws' = opened' /\ live' = live \cup {opened'} /\ up' = TRUE
  /\ receiver' = "greeting"
  /\ UNCHANGED <<renewing, reconnects, inbox, words, text, outcome, caller, closing>>

\* The config frame is sent; or the connection is gone already.
Greeted ==
  /\ receiver = "greeting"
  /\ up
  /\ NextRound
  /\ UNCHANGED <<renewing, reconnects, socket, inbox, words, text, outcome, caller, closing>>

GreetingFails ==
  /\ receiver = "greeting"
  /\ ~up
  /\ Reconnect(FALSE)
  /\ UNCHANGED <<words, text, dismissed, caller, closing>>

------------------------------------------------------------------------------
(* The segmenter and stop_reading.                                         *)

Drain == taken' = taken \o parts /\ parts' = <<>>

DrainText ==
  /\ caller \in {"reading", "flushing"}
  /\ Drain
  /\ caller' = IF caller = "flushing" THEN "flushed" ELSE caller
  /\ UNCHANGED <<receiver, renewing, reconnects, socket, inbox, words, absorbed, outcome, closing>>

StopBegins ==
  /\ caller = "reading"
  /\ caller' = "flushing"
  /\ UNCHANGED <<receiver, renewing, reconnects, socket, inbox, words, text, outcome, closing>>

\* aclose: no new round and no new reconnect from here on; the sender is cancelled first.
AcloseBegins ==
  /\ caller = "flushed"
  /\ caller' = "halting"
  /\ closing' = TRUE
  /\ UNCHANGED <<receiver, renewing, reconnects, socket, inbox, words, text, outcome>>

\* The empty frame asks the provider to finish; the receiver gets a moment to read it.
AcloseAsks ==
  /\ caller = "halting"
  /\ caller' = "grace"
  /\ UNCHANGED <<receiver, renewing, reconnects, socket, inbox, words, text, outcome, closing>>

\* Mutant: aclose waits for the receiver however long it takes.
WaitedForReceiver == caller = "grace" /\ receiver = "ended"

WaitedEnough == caller = "grace"

\* The receiver ended, or the grace is over (at once, without a connection): cancel, close.
AcloseEnds ==
  /\ WaitedEnough
  /\ caller' = "closed"
  /\ receiver' = "ended"
  /\ live' = live \ {ws} /\ ws' = 0
  /\ inbox' = <<>>
  /\ UNCHANGED <<renewing, reconnects, opened, up, words, text, outcome, closing>>

------------------------------------------------------------------------------
Provider == \/ ProviderConfirms \/ ProviderFinishes \/ ProviderDrops
            \/ \E kind \in {"interim", "renewable", "transient", "fatal"} : ProviderSays(kind)

Receive == Absorb \/ AbsorbNothing \/ Finished \/ HandleError \/ ConnectionLost

Reopen == OldClosed \/ Renewed \/ BackoffOver \/ ConnectFails \/ Connected
            \/ Greeted \/ GreetingFails

StopReading == StopBegins \/ AcloseBegins \/ AcloseAsks \/ AcloseEnds

Next == Provider \/ Receive \/ Reopen \/ DrainText \/ StopReading

\* The receiver runs when it can, and every wait of _reconnect and aclose has a timeout.
Fairness ==
  /\ WF_vars(Receive) /\ WF_vars(Reopen)
  /\ WF_vars(AcloseBegins) /\ WF_vars(AcloseAsks) /\ WF_vars(AcloseEnds)

Spec == Init /\ [][Next]_vars

FairSpec == Spec /\ Fairness

------------------------------------------------------------------------------
(* Properties.                                                             *)

\* Reconnecting loses no confirmed text: what was drained and what is still held are the
\* words read, all of them, once, in the order the provider confirmed them.
ConfirmedTextKept == taken \o parts = absorbed /\ Ordered(absorbed)

\* soniox_stream.py:271 "a failed receiver must report, not vanish": a receiver that ends while
\* the call is read has set failed.  Not so when it ends on a `finished` nobody asked for
\* (262-268, announced in lines 10-12): failed stays unset, nothing reconnects, and the reading
\* goes on without ears.  That is the one silent end.
EndIsReported == receiver = "ended" /\ ~closing => failed \/ dismissed

\* failed is final: a stream that may yet deliver text never counts as a failed one, or a
\* meeting read to its end would be closed as a bridge error.
FailureIsFinal == failed => receiver = "ended"

\* Every connection open is the one in use: no path through a failed reopening, a
\* cancelled one or aclose leaves a connection (and its bill) behind.
NoStrayConnection == live = (IF ws = 0 THEN {} ELSE {ws})

\* The budget of reopenings is for the whole call, renewals included.
BudgetHolds == opened <= MaxReconnects + 1

\* A reopening ends: the stream receives again or is over, also when nothing answers.
ReopeningEnds == receiver = "closingOld" ~> receiver \in {"receiving", "ended"}

\* aclose comes to its end, wherever the receiver is when it begins.
AcloseCompletes == closing ~> caller = "closed"
==============================================================================
