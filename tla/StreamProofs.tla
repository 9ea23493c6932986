----------------------------- MODULE StreamProofs -----------------------------
(***************************************************************************)
(* Theorems about SpeechStream: the confirmed text, the connections and    *)
(* the end of the receiver, for any budget of reopenings and whatever the  *)
(* provider says.                                                          *)
(***************************************************************************)
EXTENDS SpeechStream, SequenceTheorems, TLAPS

\* The receiver ends with a reason, or because the provider said that it finished, and nothing
\* follows either.
EndInv ==
  /\ EndIsReported
  /\ FailureIsFinal
  /\ closing <=> caller \in {"halting", "grace", "closed"}
  /\ dismissed => receiver = "ended"

\* A reopening is an attempt that was counted before its connection is.
ConnectionInv ==
  /\ NoStrayConnection
  /\ receiver \in {"renewing", "backoff", "connecting"} => ws = 0
  /\ BudgetHolds
  /\ opened <= reconnects + 1
  /\ receiver \in {"closingOld", "renewing", "backoff", "connecting"} => opened <= reconnects
  /\ receiver # "ended" => reconnects <= MaxReconnects

\* The words read, those received and those to come follow each other.
TextInv ==
  /\ taken \o parts = absorbed
  /\ Ordered(absorbed)
  /\ \A i \in DOMAIN absorbed : absorbed[i] <= words
  /\ \A j \in DOMAIN inbox : inbox[j].kind = "word" =>
       /\ inbox[j].word <= words
       /\ \A i \in DOMAIN absorbed : absorbed[i] < inbox[j].word
       /\ \A i \in DOMAIN inbox : i < j /\ inbox[i].kind = "word" => inbox[i].word < inbox[j].word

IInv == TypeOK /\ EndInv /\ ConnectionInv /\ TextInv

\* A stream that has just been started.
LEMMA Initially ==
  ASSUME Init
  PROVE  IInv
PROOF
<1> USE DEF Init
<1>1. TypeOK
  <2>1. /\ up \in BOOLEAN /\ renewing \in BOOLEAN
        /\ failed \in BOOLEAN /\ dismissed \in BOOLEAN /\ closing \in BOOLEAN
    BY Zenon
  <2> QED
    BY <2>1, StreamAssumption DEF TypeOK
<1>2. EndInv
  BY DEF EndInv, EndIsReported, FailureIsFinal
<1>3. ConnectionInv
  BY StreamAssumption DEF ConnectionInv, NoStrayConnection, BudgetHolds
<1>4. TextInv
  BY DEF TextInv, Ordered
<1> QED
  BY <1>1, <1>2, <1>3, <1>4 DEF IInv

\* What an attempt to reconnect may do up to its first wait.
LEMMA Reconnected ==
  ASSUME IInv, receiver # "ended", NEW renew \in BOOLEAN, Reconnect(renew)
  PROVE  /\ UNCHANGED inbox /\ UNCHANGED socket
         /\ receiver' \in {"ended", "closingOld"}
         /\ renewing' \in BOOLEAN /\ failed' \in BOOLEAN
         /\ reconnects' \in 0 .. (MaxReconnects + 1)
PROOF
<1>1. CASE closing
  BY <1>1, Zenon DEF Reconnect, IInv, TypeOK
<1>2. CASE ~closing
  <2>1. reconnects' \in 0 .. (MaxReconnects + 1)
    BY <1>2, StreamAssumption DEF Reconnect, CountAttempt, IInv, TypeOK, ConnectionInv
  <2>2. CASE reconnects' > MaxReconnects
    BY <1>2, <2>1, <2>2, Zenon DEF Reconnect, GiveUp, IInv, TypeOK
  <2>3. CASE ~(reconnects' > MaxReconnects)
    BY <1>2, <2>1, <2>3, Zenon DEF Reconnect, IInv, TypeOK
  <2> QED
    BY <2>2, <2>3
<1> QED
  BY <1>1, <1>2

\* An attempt that is counted, refused or not made leaves a well typed stream.
LEMMA ReconnectTyped ==
  ASSUME IInv, receiver # "ended", NEW renew \in BOOLEAN, Reconnect(renew),
         UNCHANGED <<words, text, dismissed, caller, closing>>
  PROVE  TypeOK'
  BY Reconnected DEF IInv, TypeOK, socket, text, Message

\* The old connection is closed.
LEMMA OldClosedTyped ==
  ASSUME IInv, OldClosed
  PROVE  TypeOK'
PROOF
<1>1. receiver' \in {"ended", "renewing", "backoff"} /\ failed' \in BOOLEAN
  BY Zenon DEF OldClosed, IInv, TypeOK
<1>2. live' \subseteq 1 .. opened /\ ws' \in 0 .. opened /\ opened' = opened
  BY DEF OldClosed, CloseOld, IInv, TypeOK
<1>3. inbox' \in Seq(Message) /\ Len(inbox') <= MaxInbox
  BY StreamAssumption DEF OldClosed
<1> QED
  BY <1>1, <1>2, <1>3 DEF OldClosed, IInv, TypeOK, text, outcome

\* A new connection is open.
LEMMA ConnectedTyped ==
  ASSUME IInv, Connected
  PROVE  TypeOK'
PROOF
<1>1. up' \in BOOLEAN
  BY Zenon DEF Connected
<1>2. opened' \in 1 .. (MaxOpened + 1) /\ ws' \in 0 .. opened' /\ live' \subseteq 1 .. opened'
  BY StreamAssumption DEF Connected, IInv, TypeOK
<1> QED
  BY <1>1, <1>2 DEF Connected, IInv, TypeOK, text, outcome, Message

\* The provider finishes.
LEMMA FinishesTyped ==
  ASSUME IInv, ProviderFinishes
  PROVE  TypeOK'
PROOF
<1>1. up' \in BOOLEAN
  BY Zenon DEF ProviderFinishes
<1>2. Control("finished") \in Message
  BY DEF Control, Message
<1>3. inbox' \in Seq(Message) /\ Len(inbox') <= MaxInbox
  BY <1>2, StreamAssumption DEF ProviderFinishes, Arrives, IInv, TypeOK
<1> QED
  BY <1>1, <1>3 DEF ProviderFinishes, IInv, TypeOK, text, outcome

\* A word is read.
LEMMA AbsorbTyped ==
  ASSUME IInv, Absorb
  PROVE  TypeOK'
PROOF
<1>1. Head(inbox) \in Message /\ inbox' \in Seq(Message) /\ Len(inbox') < Len(inbox)
  BY DEF Absorb, Reading, IInv, TypeOK
<1>2. Head(inbox).word \in 1 .. MaxWords
  BY <1>1 DEF Absorb, Reading, Message
<1>3. parts' \in Seq(1 .. MaxWords) /\ absorbed' \in Seq(1 .. MaxWords)
  BY <1>2 DEF Absorb, KeepConfirmed, IInv, TypeOK
<1>4. receiver' \in {"receiving", "ended"}
  BY DEF Absorb, NextRound
<1>5. Len(inbox') <= MaxInbox
  BY <1>1, StreamAssumption DEF IInv, TypeOK
<1> QED
  BY <1>1, <1>3, <1>4, <1>5 DEF Absorb, socket, outcome, IInv, TypeOK

\* A text of the provider's words is one of numbers.
LEMMA Numbers ==
  ASSUME NEW s \in Seq(1 .. MaxWords)
  PROVE  s \in Seq(Nat) /\ \A i \in DOMAIN s : s[i] \in Nat
PROOF
<1>1. 1 .. MaxWords \subseteq Nat
  OBVIOUS
<1>2. s \in Seq(Nat)
  BY <1>1, SeqMonotonic, Zenon
<1>3. \A i \in DOMAIN s : s[i] \in Nat
  BY <1>2
<1> QED
  BY <1>2, <1>3

\* What has arrived, after one more message.
LEMMA AppendMessage ==
  ASSUME NEW m, inbox \in Seq(Message), inbox' = Append(inbox, m)
  PROVE  /\ DOMAIN inbox' = 1 .. Len(inbox) + 1
         /\ \A i \in DOMAIN inbox : i \in Nat /\ i < Len(inbox) + 1 /\ inbox'[i] = inbox[i]
         /\ \A i \in DOMAIN inbox' : i \in DOMAIN inbox \/ (i = Len(inbox) + 1 /\ inbox'[i] = m)
  OBVIOUS

\* What has arrived, after one message was read.
LEMMA TailMessage ==
  ASSUME inbox \in Seq(Message), inbox # <<>>, inbox' = Tail(inbox)
  PROVE  /\ \A i \in DOMAIN inbox' : i \in Nat /\ i + 1 \in DOMAIN inbox /\ inbox'[i] = inbox[i + 1]
         /\ 1 \in DOMAIN inbox /\ Head(inbox) = inbox[1]
  OBVIOUS

\* A word that arrives follows those before it.
LEMMA ConfirmsText ==
  ASSUME IInv, ProviderConfirms
  PROVE  TextInv'
PROOF
<1>1. /\ words \in Nat /\ words' = words + 1 /\ UNCHANGED text
      /\ inbox \in Seq(Message) /\ inbox' = Append(inbox, Word(words + 1))
  BY DEF ProviderConfirms, Arrives, IInv, TypeOK
<1>2. \A i \in DOMAIN absorbed : absorbed[i] \in Nat /\ absorbed[i] <= words
  BY Numbers DEF IInv, TypeOK, TextInv
<1>3. \A i \in DOMAIN inbox :
        inbox[i].kind = "word" => inbox[i].word \in Nat /\ inbox[i].word <= words
  BY DEF IInv, TypeOK, TextInv, Message
<1>4. \A j \in DOMAIN inbox' : inbox'[j].kind = "word" =>
       /\ inbox'[j].word <= words'
       /\ \A i \in DOMAIN absorbed' : absorbed'[i] < inbox'[j].word
       /\ \A i \in DOMAIN inbox' :
            i < j /\ inbox'[i].kind = "word" => inbox'[i].word < inbox'[j].word
  <2> TAKE j \in DOMAIN inbox'
  <2> HAVE inbox'[j].kind = "word"
  <2>1. CASE j \in DOMAIN inbox
    BY <1>1, <1>2, <1>3, <2>1, AppendMessage DEF IInv, TextInv, text
  <2>2. CASE j = Len(inbox) + 1 /\ inbox'[j] = Word(words + 1)
    BY <1>1, <1>2, <1>3, <2>2, AppendMessage DEF Word, text
  <2> QED
    BY <1>1, <2>1, <2>2, AppendMessage
<1> QED
  BY <1>1, <1>2, <1>4 DEF IInv, TextInv, text

\* A message without a word arrives.
LEMMA ControlText ==
  ASSUME IInv, NEW kind \in {"interim", "renewable", "transient", "fatal", "finished"},
         Arrives(Control(kind)), UNCHANGED text, UNCHANGED words
  PROVE  TextInv'
PROOF
<1>1. inbox' = Append(inbox, Control(kind)) /\ inbox \in Seq(Message) /\ Control(kind).kind # "word"
  BY DEF Arrives, IInv, TypeOK, Control
<1>2. \A j \in DOMAIN inbox' :
        inbox'[j].kind = "word" => j \in DOMAIN inbox /\ inbox'[j] = inbox[j]
  BY <1>1, AppendMessage
<1>3. \A i, j \in DOMAIN inbox' :
        j \in DOMAIN inbox /\ i < j => i \in DOMAIN inbox /\ inbox'[i] = inbox[i]
  BY <1>1, AppendMessage
<1> QED
  BY <1>2, <1>3 DEF IInv, TextInv, text

\* A message is read and its text, if any, is not kept.
LEMMA ReadText ==
  ASSUME IInv, inbox # <<>>, inbox' = Tail(inbox), UNCHANGED text, UNCHANGED words
  PROVE  TextInv'
PROOF
<1>1. inbox \in Seq(Message)
  BY DEF IInv, TypeOK
<1> QED
  BY <1>1, TailMessage DEF IInv, TextInv, text

\* A word is read and kept.
LEMMA AbsorbText ==
  ASSUME IInv, Absorb
  PROVE  TextInv'
PROOF
<1> DEFINE w == Head(inbox).word
<1>1. /\ inbox \in Seq(Message) /\ inbox # <<>> /\ inbox' = Tail(inbox)
      /\ inbox[1].kind = "word" /\ w = inbox[1].word
  BY DEF IInv, TypeOK, Absorb, Reading
<1>2. /\ absorbed' = Append(absorbed, w) /\ parts' = Append(parts, w)
      /\ taken' = taken /\ words' = words
  BY DEF Absorb, KeepConfirmed
<1>3. w \in Nat /\ absorbed \in Seq(Nat) /\ parts \in Seq(Nat) /\ taken \in Seq(Nat)
  <2>1. w \in 1..MaxWords
    BY <1>1, StreamAssumption DEF Message
  <2>2. /\ absorbed \in Seq(1..MaxWords) /\ parts \in Seq(1..MaxWords)
        /\ taken \in Seq(1..MaxWords)
    BY DEF IInv, TypeOK
  <2> QED
    BY <2>1, <2>2, Numbers
<1>4. taken \o Append(parts, w) = Append(taken \o parts, w)
  BY <1>3
<1>5. \A i \in DOMAIN absorbed : absorbed[i] < w
  BY <1>1, TailMessage DEF IInv, TextInv
<1>6. Ordered(absorbed')
  BY <1>2, <1>3, <1>5 DEF IInv, TextInv, Ordered
<1>7. \A i \in DOMAIN absorbed' : absorbed'[i] <= words
  <2>1. w <= words
    BY <1>1, TailMessage DEF IInv, TextInv
  <2>2. \A i \in DOMAIN absorbed' :
          absorbed'[i] = w \/ \E j \in DOMAIN absorbed : absorbed'[i] = absorbed[j]
    BY <1>2, <1>3
  <2> QED
    BY <2>1, <2>2 DEF IInv, TextInv
<1>8. \A i \in DOMAIN absorbed' : absorbed'[i] <= w
  BY <1>2, <1>3, <1>5
<1>9. \A j \in DOMAIN inbox' : inbox'[j].kind = "word" =>
       /\ inbox'[j].word <= words'
       /\ \A i \in DOMAIN absorbed' : absorbed'[i] < inbox'[j].word
       /\ \A i \in DOMAIN inbox' :
            i < j /\ inbox'[i].kind = "word" => inbox'[i].word < inbox'[j].word
  <2>1. \A i \in DOMAIN inbox : inbox[i].kind = "word" => inbox[i].word \in Nat
    BY <1>1 DEF Message
  <2>2. \A i \in DOMAIN absorbed' : absorbed'[i] \in Nat
    <3>1. absorbed' \in Seq(Nat)
      BY <1>2, <1>3
    <3> QED
      BY <3>1
  <2>3. \A j \in DOMAIN inbox' :
          /\ j + 1 \in DOMAIN inbox /\ 1 < j + 1 /\ inbox'[j] = inbox[j + 1]
          /\ inbox[j + 1].kind = "word" => w < inbox[j + 1].word
    BY <1>1, TailMessage DEF IInv, TextInv
  <2> SUFFICES ASSUME NEW j \in DOMAIN inbox', inbox'[j].kind = "word"
               PROVE  /\ inbox'[j].word <= words'
                      /\ \A i \in DOMAIN absorbed' : absorbed'[i] < inbox'[j].word
                      /\ \A i \in DOMAIN inbox' :
                           i < j /\ inbox'[i].kind = "word" => inbox'[i].word < inbox'[j].word
    OBVIOUS
  <2>4. inbox'[j].word \in Nat /\ inbox'[j].word <= words' /\ w < inbox'[j].word
    BY <1>2, <2>1, <2>3 DEF IInv, TextInv
  <2>5. \A i \in DOMAIN absorbed' : absorbed'[i] < inbox'[j].word
    BY <1>3, <1>8, <2>2, <2>4
  <2>6. ASSUME NEW i \in DOMAIN inbox', i < j, inbox'[i].kind = "word"
        PROVE  inbox'[i].word < inbox'[j].word
    <3>1. i \in Nat /\ j \in Nat
      BY <1>1, TailMessage
    <3>2. /\ i + 1 \in DOMAIN inbox /\ inbox'[i] = inbox[i + 1]
          /\ j + 1 \in DOMAIN inbox /\ inbox'[j] = inbox[j + 1]
      BY <2>3
    <3>3. i + 1 < j + 1
      BY <2>6, <3>1
    <3>4. inbox[j + 1].kind = "word" /\ inbox[i + 1].kind = "word"
      BY <2>6, <3>2
    <3>5. inbox[i + 1].word < inbox[j + 1].word
      BY <3>2, <3>3, <3>4 DEF IInv, TextInv
    <3> QED
      BY <3>2, <3>5
  <2> QED
    BY <2>4, <2>5, <2>6
<1> QED
  BY <1>2, <1>4, <1>6, <1>7, <1>9 DEF IInv, TextInv

\* Each action keeps the types.
LEMMA TypeStep ==
  ASSUME IInv, [Next]_vars
  PROVE  TypeOK'
PROOF
<1> USE DEF IInv, TypeOK, Message, socket, text, outcome
<1>1. CASE ProviderConfirms
  BY <1>1, StreamAssumption DEF ProviderConfirms, Arrives, Word
<1>2. ASSUME NEW kind \in {"interim", "renewable", "transient", "fatal"}, ProviderSays(kind)
      PROVE  TypeOK'
  BY <1>2, StreamAssumption DEF ProviderSays, Arrives, Control
<1>3. CASE ProviderFinishes
  BY <1>3, FinishesTyped
<1>4. CASE ProviderDrops
  BY <1>4 DEF ProviderDrops
<1>5. CASE Absorb
  BY <1>5, AbsorbTyped
<1>6. CASE AbsorbNothing
  BY <1>6, StreamAssumption DEF AbsorbNothing, Reading, NextRound
<1>7. CASE Finished
  BY <1>7, StreamAssumption DEF Finished, Reading
<1>8. CASE HandleError
  <2>1. CASE Reconnect(TRUE) /\ Reading("renewable")
    BY <1>8, <2>1, ReconnectTyped DEF HandleError, Reading
  <2>2. CASE Reconnect(FALSE) /\ Reading("transient")
    BY <1>8, <2>2, ReconnectTyped DEF HandleError, Reading
  <2>3. CASE GiveUp /\ UNCHANGED reconnects
    BY <1>8, <2>3 DEF HandleError, GiveUp
  <2> QED
    BY <1>8, <2>1, <2>2, <2>3 DEF HandleError
<1>9. CASE ConnectionLost
  BY <1>9, ReconnectTyped DEF ConnectionLost
<1>10. CASE OldClosed
  BY <1>10, OldClosedTyped
<1>11. CASE Renewed
  BY <1>11 DEF Renewed, GiveUp
<1>12. CASE BackoffOver
  BY <1>12 DEF BackoffOver
<1>13. CASE ConnectFails
  BY <1>13, ReconnectTyped DEF ConnectFails
<1>14. CASE Connected
  BY <1>14, ConnectedTyped
<1>15. CASE Greeted
  BY <1>15 DEF Greeted, NextRound
<1>16. CASE GreetingFails
  BY <1>16, ReconnectTyped DEF GreetingFails
<1>17. CASE DrainText
  BY <1>17 DEF DrainText, Drain
<1>18. CASE StopBegins
  BY <1>18 DEF StopBegins
<1>19. CASE AcloseBegins
  BY <1>19 DEF AcloseBegins
<1>20. CASE AcloseAsks
  BY <1>20 DEF AcloseAsks
<1>21. CASE AcloseEnds
  BY <1>21, StreamAssumption DEF AcloseEnds
<1>22. CASE UNCHANGED vars
  BY <1>22 DEF vars
<1> QED
  BY <1>1, <1>2, <1>3, <1>4, <1>5, <1>6, <1>7, <1>8, <1>9, <1>10, <1>11, <1>12, <1>13, <1>14,
     <1>15, <1>16, <1>17, <1>18, <1>19, <1>20, <1>21, <1>22
     DEF Next, Provider, Receive, Reopen, StopReading

\* Each action that ends the receiver says why.
LEMMA EndStep ==
  ASSUME IInv, [Next]_vars
  PROVE  EndInv'
PROOF
<1> USE DEF IInv, TypeOK, EndInv, EndIsReported, FailureIsFinal, socket, text, outcome
<1>1. CASE ProviderConfirms
  BY <1>1 DEF ProviderConfirms, Arrives, Word
<1>2. ASSUME NEW kind \in {"interim", "renewable", "transient", "fatal"}, ProviderSays(kind)
      PROVE  EndInv'
  BY <1>2 DEF ProviderSays, Arrives, Control
<1>3. CASE ProviderFinishes
  BY <1>3 DEF ProviderFinishes
<1>4. CASE ProviderDrops
  BY <1>4 DEF ProviderDrops
<1>5. CASE Absorb
  BY <1>5 DEF Absorb, Reading, NextRound
<1>6. CASE AbsorbNothing
  BY <1>6 DEF AbsorbNothing, Reading, NextRound
<1>7. CASE Finished
  BY <1>7 DEF Finished, Reading
<1>8. CASE HandleError
  BY <1>8 DEF HandleError, Reading, Reconnect, CountAttempt, GiveUp
<1>9. CASE ConnectionLost
  BY <1>9 DEF ConnectionLost, Reconnect, GiveUp
<1>10. CASE OldClosed
  BY <1>10 DEF OldClosed
<1>11. CASE Renewed
  BY <1>11 DEF Renewed, GiveUp
<1>12. CASE BackoffOver
  BY <1>12 DEF BackoffOver
<1>13. CASE ConnectFails
  BY <1>13 DEF ConnectFails, Reconnect, GiveUp
<1>14. CASE Connected
  BY <1>14 DEF Connected
<1>15. CASE Greeted
  BY <1>15 DEF Greeted, NextRound
<1>16. CASE GreetingFails
  BY <1>16 DEF GreetingFails, Reconnect, GiveUp
<1>17. CASE DrainText
  BY <1>17 DEF DrainText
<1>18. CASE StopBegins
  BY <1>18 DEF StopBegins
<1>19. CASE AcloseBegins
  BY <1>19 DEF AcloseBegins
<1>20. CASE AcloseAsks
  BY <1>20 DEF AcloseAsks
<1>21. CASE AcloseEnds
  BY <1>21 DEF AcloseEnds, WaitedEnough
<1>22. CASE UNCHANGED vars
  BY <1>22 DEF vars
<1> QED
  BY <1>1, <1>2, <1>3, <1>4, <1>5, <1>6, <1>7, <1>8, <1>9, <1>10, <1>11, <1>12, <1>13, <1>14,
     <1>15, <1>16, <1>17, <1>18, <1>19, <1>20, <1>21, <1>22
     DEF Next, Provider, Receive, Reopen, StopReading

\* Each action keeps the account of the connections.
LEMMA ConnectionStep ==
  ASSUME IInv, [Next]_vars
  PROVE  ConnectionInv'
PROOF
<1> USE DEF IInv, TypeOK, ConnectionInv, EndInv, NoStrayConnection, BudgetHolds, socket, text,
            outcome
<1>1. CASE ProviderConfirms
  BY <1>1 DEF ProviderConfirms
<1>2. ASSUME NEW kind \in {"interim", "renewable", "transient", "fatal"}, ProviderSays(kind)
      PROVE  ConnectionInv'
  BY <1>2 DEF ProviderSays
<1>3. CASE ProviderFinishes
  BY <1>3 DEF ProviderFinishes
<1>4. CASE ProviderDrops
  BY <1>4 DEF ProviderDrops
<1>5. CASE Absorb
  BY <1>5 DEF Absorb, Reading, NextRound
<1>6. CASE AbsorbNothing
  BY <1>6 DEF AbsorbNothing, Reading, NextRound
<1>7. CASE Finished
  BY <1>7 DEF Finished
<1>8. CASE HandleError
  BY <1>8, StreamAssumption DEF HandleError, Reconnect, CountAttempt, GiveUp
<1>9. CASE ConnectionLost
  BY <1>9, StreamAssumption DEF ConnectionLost, Reconnect, CountAttempt, GiveUp
<1>10. CASE OldClosed
  BY <1>10 DEF OldClosed, CloseOld
<1>11. CASE Renewed
  BY <1>11 DEF Renewed, GiveUp
<1>12. CASE BackoffOver
  BY <1>12 DEF BackoffOver
<1>13. CASE ConnectFails
  BY <1>13, StreamAssumption DEF ConnectFails, Reconnect, CountAttempt, GiveUp
<1>14. CASE Connected
  BY <1>14, StreamAssumption DEF Connected
<1>15. CASE Greeted
  BY <1>15 DEF Greeted, NextRound
<1>16. CASE GreetingFails
  BY <1>16, StreamAssumption DEF GreetingFails, Reconnect, CountAttempt, GiveUp
<1>17. CASE DrainText
  BY <1>17 DEF DrainText
<1>18. CASE StopBegins
  BY <1>18 DEF StopBegins
<1>19. CASE AcloseBegins
  BY <1>19 DEF AcloseBegins
<1>20. CASE AcloseAsks
  BY <1>20 DEF AcloseAsks
<1>21. CASE AcloseEnds
  BY <1>21 DEF AcloseEnds
<1>22. CASE UNCHANGED vars
  BY <1>22 DEF vars
<1> QED
  BY <1>1, <1>2, <1>3, <1>4, <1>5, <1>6, <1>7, <1>8, <1>9, <1>10, <1>11, <1>12, <1>13, <1>14,
     <1>15, <1>16, <1>17, <1>18, <1>19, <1>20, <1>21, <1>22
     DEF Next, Provider, Receive, Reopen, StopReading

\* Each action keeps the confirmed text.
LEMMA TextStep ==
  ASSUME IInv, [Next]_vars
  PROVE  TextInv'
PROOF
<1> USE DEF IInv, TypeOK, TextInv, Ordered, Message, socket, text, outcome
<1>1. CASE ProviderConfirms
  BY <1>1, ConfirmsText
<1>2. ASSUME NEW kind \in {"interim", "renewable", "transient", "fatal"}, ProviderSays(kind)
      PROVE  TextInv'
  BY <1>2, ControlText DEF ProviderSays
<1>3. CASE ProviderFinishes
  BY <1>3, ControlText DEF ProviderFinishes
<1>4. CASE ProviderDrops
  BY <1>4 DEF ProviderDrops
<1>5. CASE Absorb
  BY <1>5, AbsorbText
<1>6. CASE AbsorbNothing
  BY <1>6, ReadText DEF AbsorbNothing, Reading
<1>7. CASE Finished
  BY <1>7, ReadText DEF Finished, Reading
<1>8. CASE HandleError
  BY <1>8 DEF HandleError, Reconnect, GiveUp
<1>9. CASE ConnectionLost
  BY <1>9 DEF ConnectionLost, Reconnect, GiveUp
<1>10. CASE OldClosed
  BY <1>10 DEF OldClosed
<1>11. CASE Renewed
  BY <1>11 DEF Renewed, GiveUp
<1>12. CASE BackoffOver
  BY <1>12 DEF BackoffOver
<1>13. CASE ConnectFails
  BY <1>13 DEF ConnectFails, Reconnect, GiveUp
<1>14. CASE Connected
  BY <1>14 DEF Connected
<1>15. CASE Greeted
  BY <1>15 DEF Greeted
<1>16. CASE GreetingFails
  BY <1>16 DEF GreetingFails, Reconnect, GiveUp
<1>17. CASE DrainText
  BY <1>17 DEF DrainText, Drain
<1>18. CASE StopBegins
  BY <1>18 DEF StopBegins
<1>19. CASE AcloseBegins
  BY <1>19 DEF AcloseBegins
<1>20. CASE AcloseAsks
  BY <1>20 DEF AcloseAsks
<1>21. CASE AcloseEnds
  BY <1>21 DEF AcloseEnds
<1>22. CASE UNCHANGED vars
  BY <1>22 DEF vars
<1> QED
  BY <1>1, <1>2, <1>3, <1>4, <1>5, <1>6, <1>7, <1>8, <1>9, <1>10, <1>11, <1>12, <1>13, <1>14,
     <1>15, <1>16, <1>17, <1>18, <1>19, <1>20, <1>21, <1>22
     DEF Next, Provider, Receive, Reopen, StopReading

\* The inductive invariant of a speech connection.
THEOREM Inductive == Spec => []IInv
PROOF
<1>1. Init => IInv
  BY Initially
<1>2. IInv /\ [Next]_vars => IInv'
  BY TypeStep, EndStep, ConnectionStep, TextStep DEF IInv
<1> QED
  BY <1>1, <1>2, PTL DEF Spec

\* Every reachable state of a speech connection is well typed.
THEOREM TypeCorrect == Spec => []TypeOK
PROOF
<1>1. IInv => TypeOK
  BY DEF IInv
<1> QED
  BY <1>1, Inductive, PTL

\* Confirmed text is kept through every reconnect and renewal, in order, however long the
\* call (soniox_stream.py:288-300, 120-130).
THEOREM TextKept == Spec => []ConfirmedTextKept
PROOF
<1>1. IInv => ConfirmedTextKept
  BY DEF IInv, TextInv, ConfirmedTextKept
<1> QED
  BY <1>1, Inductive, PTL

\* No error, renewal or lost connection ends the receiver silently while the call is read: it
\* has reported a failure, or the provider said of its own accord that it finished
\* (soniox_stream.py:262-268).
THEOREM EndReported == Spec => []EndIsReported
PROOF
<1>1. IInv => EndIsReported
  BY DEF IInv, EndInv
<1> QED
  BY <1>1, Inductive, PTL

\* A stream that failed delivers nothing any more.
THEOREM FailureFinal == Spec => []FailureIsFinal
PROOF
<1>1. IInv => FailureIsFinal
  BY DEF IInv, EndInv
<1> QED
  BY <1>1, Inductive, PTL

\* No connection but the one in use is open, whichever of the steps of a reopening failed.
THEOREM NoStray == Spec => []NoStrayConnection
PROOF
<1>1. IInv => NoStrayConnection
  BY DEF IInv, ConnectionInv
<1> QED
  BY <1>1, Inductive, PTL

\* However the stream fails and is renewed, it is opened at most MaxReconnects + 1 times.
THEOREM WithinBudget == Spec => []BudgetHolds
PROOF
<1>1. IInv => BudgetHolds
  BY DEF IInv, ConnectionInv
<1> QED
  BY <1>1, Inductive, PTL
==============================================================================
