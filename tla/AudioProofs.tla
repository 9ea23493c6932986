----------------------------- MODULE AudioProofs -----------------------------
(***************************************************************************)
(* Theorems about AudioPath: who is in a call that is read is in the mix   *)
(* or on the way there, and no connection is forgotten, for any number of  *)
(* participants and connections.                                           *)
(***************************************************************************)
EXTENDS AudioPath, TLAPS

\* An entry of the table is a connection of its publisher that nobody has taken out: whom a
\* teardown has taken is nobody's entry, and is closed by nobody else.
TableInv ==
  /\ \A p \in Publishers : table[p] # None =>
       conn[table[p]].for = p /\ conn[table[p]].state \in {"live", "failing"}
  /\ \A p \in Publishers : table[p] \notin teardown.conns
  /\ teardown.pc # "closing" => teardown.conns = {}
  /\ \A c \in teardown.conns : conn[c].state \in {"live", "failing"}
  /\ NoStrayConnection

\* A track is drained over a connection of its publisher at work, by a reading's mixer.
BufferInv ==
  /\ \A p \in Publishers : buffers[p] \in Conns => Works(buffers[p]) /\ conn[buffers[p]].for = p
  /\ ~mixing => buffers = Silence
  /\ starter = "opening" => ~reading /\ mixing
  /\ reading => mixing
  /\ mixing => reading \/ starter = "opening"

\* The monitor answers for one publisher, over a connection nobody has taken meanwhile.
MonitorInv ==
  /\ monitor.pc \in {"idle", "dead"} => monitor.for = None /\ monitor.conn = None
  /\ monitor.pc \in {"leaving", "remote", "answer"} => monitor.for \in Publishers
  /\ monitor.pc = "leaving" => monitor.for \notin publishers /\ buffers[monitor.for] = None
  /\ monitor.pc = "remote" => monitor.conn \in Conns
  /\ monitor.pc = "remote" /\ Works(monitor.conn) => conn[monitor.conn].for = monitor.for

\* Whose track has ended is lost; and whose connection is of this reading is mixed or lost.
MixInv ==
  /\ EveryoneIsMixed
  /\ mixing => \A p \in Publishers : buffers[p] = Ended => p \in spoiled \/ monitor = Dead
  /\ mixing => \A p \in Publishers :
       Works(table[p]) /\ ~conn[table[p]].old =>
         \/ buffers[p] \in Conns \/ p \in spoiled \/ monitor = Dead
         \/ monitor.for = p /\ monitor.pc \in {"remote", "leaving"}

IInv == TypeOK /\ TableInv /\ BufferInv /\ MonitorInv /\ MixInv

\* TypeOK, in the parts that change together.
FlagType == mixing \in BOOLEAN /\ reading \in BOOLEAN

MessageType ==
  /\ asked \subseteq Publishers
  /\ inbox \in Seq(Messages) /\ Len(inbox) <= MaxInbox
  /\ publishers \subseteq Publishers
  /\ spoiled \subseteq Publishers

MonitorType ==
  monitor \in [pc : {"idle", "leaving", "remote", "answer", "dead"},
               for : Publishers \cup {None}, conn : Conns \cup {None}]

PeerType ==
  /\ table \in [Publishers -> Conns \cup {None}]
  /\ conn \in [Conns -> {Unused} \cup
                 [for : Publishers, old : BOOLEAN, state : {"live", "stray", "failing"}]]

BufferType == buffers \in [Publishers -> Conns \cup {None, Ended}]

StopType ==
  /\ starter \in {"idle", "opening", "joining"}
  /\ teardown \in [pc : {"none", "flushing", "closing"}, conns : SUBSET Conns]

Typed == FlagType /\ MessageType /\ MonitorType /\ PeerType /\ BufferType /\ StopType

\* Nothing is connected yet.
LEMMA Initially ==
  ASSUME Init
  PROVE  IInv
PROOF
<1> USE DEF Init
<1>1. FlagType
  BY Zenon DEF FlagType
<1>2. MessageType /\ MonitorType /\ PeerType /\ BufferType /\ StopType
  BY AudioAssumption
     DEF MessageType, MonitorType, PeerType, BufferType, StopType, Idle, Silence, Done, Unused
<1>3. TypeOK
  BY <1>1, <1>2 DEF TypeOK, FlagType, MessageType, MonitorType, PeerType, BufferType, StopType
<1>4. TableInv
  BY DEF TableInv, NoStrayConnection, Silence, Done, Unused
<1>5. BufferInv /\ MonitorInv /\ MixInv
  BY AudioAssumption DEF BufferInv, MonitorInv, MixInv, EveryoneIsMixed, Silence, Idle, Works
<1> QED
  BY <1>3, <1>4, <1>5 DEF IInv

\* A message is received: the others move up.
LEMMA Received ==
  ASSUME IInv, NEW kind, Receives(kind)
  PROVE  /\ inbox' \in Seq(Messages) /\ Len(inbox') <= MaxInbox
         /\ Head(inbox) \in Messages /\ Head(inbox).kind = kind
         /\ kind # "end" => Head(inbox).from \in Publishers
         /\ \A m : (\E i \in 1..Len(inbox) : inbox[i] = m) =>
              m = Head(inbox) \/ \E i \in 1..Len(inbox') : inbox'[i] = m
PROOF
<1>1. /\ inbox \in Seq(Messages) /\ Len(inbox) <= MaxInbox /\ inbox # <<>>
      /\ inbox' = Tail(inbox) /\ Head(inbox).kind = kind
  BY DEF IInv, TypeOK, Receives
<1>2. inbox' \in Seq(Messages) /\ Len(inbox') = Len(inbox) - 1
  BY <1>1
<1>3. Len(inbox') <= MaxInbox
  BY <1>1, <1>2, AudioAssumption
<1>4. Head(inbox) \in Messages
  BY <1>1
<1>5. kind # "end" => Head(inbox).from \in Publishers
  BY <1>1, <1>4 DEF Messages
<1>6. ASSUME NEW i \in 1..Len(inbox), inbox[i] # Head(inbox)
      PROVE  i - 1 \in 1..Len(inbox') /\ inbox'[i - 1] = inbox[i]
  BY <1>1, <1>2, <1>6
<1>7. \A m : (\E i \in 1..Len(inbox) : inbox[i] = m) =>
        m = Head(inbox) \/ \E i \in 1..Len(inbox') : inbox'[i] = m
  BY <1>6
<1> QED
  BY <1>1, <1>2, <1>3, <1>4, <1>5, <1>7

\* A message is sent: the others stay.
LEMMA Sent ==
  ASSUME IInv, NEW m \in Messages, Send(m)
  PROVE  /\ inbox' \in Seq(Messages) /\ Len(inbox') <= MaxInbox
         /\ \E i \in 1..Len(inbox') : inbox'[i] = m
         /\ \A n : (\E i \in 1..Len(inbox) : inbox[i] = n) =>
              \E i \in 1..Len(inbox') : inbox'[i] = n
PROOF
<1>1. /\ inbox \in Seq(Messages) /\ Len(inbox) < MaxInbox /\ inbox' = Append(inbox, m)
  BY DEF IInv, TypeOK, Send
<1>2. inbox' \in Seq(Messages) /\ Len(inbox') = Len(inbox) + 1 /\ inbox'[Len(inbox) + 1] = m
  BY <1>1
<1>3. \A i \in 1..Len(inbox) : i \in 1..Len(inbox') /\ inbox'[i] = inbox[i]
  BY <1>1, <1>2
<1>4. Len(inbox) + 1 \in 1..Len(inbox')
  BY <1>1, <1>2
<1>5. Len(inbox') <= MaxInbox
  BY <1>1, <1>2, AudioAssumption
<1> QED
  BY <1>2, <1>3, <1>4, <1>5

\* A connection that is not unused is somebody's.
LEMMA Used ==
  ASSUME IInv, NEW c \in Conns
  PROVE  /\ conn[c] = Unused \/ conn[c] \in
              [for : Publishers, old : BOOLEAN, state : {"live", "stray", "failing"}]
         /\ conn[c].state # "unused" => conn[c].for \in Publishers
  BY DEF IInv, TypeOK, Unused

\* Closing connections ends the tracks that come over them, and no other.
LEMMA ClosedKeeps ==
  ASSUME IInv, NEW gone \in SUBSET Conns, AreClosed(gone),
         UNCHANGED <<mixing, reading, starter>>
  PROVE  BufferInv'
PROOF
<1>1. /\ conn' = [c \in Conns |-> IF c \in gone THEN Unused ELSE conn[c]]
      /\ buffers' = [p \in Publishers |-> IF buffers[p] \in gone THEN Ended ELSE buffers[p]]
  BY DEF AreClosed
<1>2. \A p \in Publishers : buffers'[p] \in Conns =>
        buffers'[p] = buffers[p] /\ conn'[buffers[p]] = conn[buffers[p]]
  BY <1>1, AudioAssumption
<1>3. ~mixing => buffers' = Silence
  BY <1>1, AudioAssumption DEF IInv, BufferInv, Silence
<1> QED
  BY <1>1, <1>2, <1>3 DEF IInv, BufferInv, Works, Silence

\* Each action keeps the types.
LEMMA TypeStep ==
  ASSUME IInv, [Next]_vars
  PROVE  Typed'
PROOF
<1> USE DEF peers, reader, Typed
<1>1. ASSUME NEW m \in Messages, Tells(m) PROVE Typed'
  <2>1. FlagType'
    BY <1>1, Zenon DEF Tells, IInv, TypeOK, FlagType
  <2>2. MessageType'
    BY <1>1, Sent DEF Tells, IInv, TypeOK, MessageType
  <2>3. MonitorType'
    BY <1>1 DEF Tells, IInv, TypeOK, MonitorType
  <2>4. PeerType'
    BY <1>1 DEF Tells, IInv, TypeOK, PeerType
  <2>5. BufferType'
    BY <1>1 DEF Tells, IInv, TypeOK, BufferType
  <2>6. StopType'
    BY <1>1 DEF Tells, IInv, TypeOK, StopType
  <2> QED
    BY <2>1, <2>2, <2>3, <2>4, <2>5, <2>6
<1>2. ASSUME NEW p \in Publishers, Offers(p) PROVE Typed'
  <2>1. FlagType'
    BY <1>2, Zenon DEF Offers, IInv, TypeOK, FlagType
  <2>2. MessageType'
    <3>1. [kind |-> "offer", from |-> p] \in Messages
      BY DEF Messages
    <3> QED
      BY <1>2, <3>1, Sent DEF Offers, IInv, TypeOK, MessageType
  <2>3. MonitorType'
    BY <1>2 DEF Offers, IInv, TypeOK, MonitorType
  <2>4. PeerType'
    BY <1>2 DEF Offers, IInv, TypeOK, PeerType
  <2>5. BufferType'
    BY <1>2 DEF Offers, IInv, TypeOK, BufferType
  <2>6. StopType'
    BY <1>2 DEF Offers, IInv, TypeOK, StopType
  <2> QED
    BY <2>1, <2>2, <2>3, <2>4, <2>5, <2>6
<1>3. ASSUME NEW p \in Publishers, RequestIsLost(p) PROVE Typed'
  <2>1. FlagType'
    BY <1>3, Zenon DEF RequestIsLost, IInv, TypeOK, FlagType
  <2>2. MessageType'
    BY <1>3 DEF RequestIsLost, IInv, TypeOK, MessageType
  <2>3. MonitorType'
    BY <1>3 DEF RequestIsLost, IInv, TypeOK, MonitorType
  <2>4. PeerType'
    BY <1>3 DEF RequestIsLost, IInv, TypeOK, PeerType
  <2>5. BufferType'
    BY <1>3 DEF RequestIsLost, IInv, TypeOK, BufferType
  <2>6. StopType'
    BY <1>3 DEF RequestIsLost, IInv, TypeOK, StopType
  <2> QED
    BY <2>1, <2>2, <2>3, <2>4, <2>5, <2>6
<1>4. ASSUME HearsJoin PROVE Typed'
  <2>1. FlagType'
    BY <1>4, Zenon DEF HearsJoin, IInv, TypeOK, FlagType
  <2>2. MessageType'
    BY <1>4, Received DEF HearsJoin, IInv, TypeOK, MessageType
  <2>3. MonitorType'
    BY <1>4 DEF HearsJoin, IInv, TypeOK, MonitorType
  <2>4. PeerType'
    BY <1>4 DEF HearsJoin, IInv, TypeOK, PeerType
  <2>5. BufferType'
    BY <1>4 DEF HearsJoin, IInv, TypeOK, BufferType
  <2>6. StopType'
    BY <1>4 DEF HearsJoin, IInv, TypeOK, StopType
  <2> QED
    BY <2>1, <2>2, <2>3, <2>4, <2>5, <2>6
<1>5. ASSUME HearsLeave PROVE Typed'
  <2>1. FlagType'
    BY <1>5, Zenon DEF HearsLeave, IInv, TypeOK, FlagType
  <2>2. MessageType'
    BY <1>5, Received DEF HearsLeave, IInv, TypeOK, MessageType
  <2>3. MonitorType'
    <3>1. Head(inbox).from \in Publishers
      BY <1>5, Received DEF HearsLeave
    <3>2. monitor' = [pc |-> "leaving", for |-> Head(inbox).from, conn |-> None]
      BY <1>5 DEF HearsLeave, Idle
    <3> QED
      BY <3>1, <3>2 DEF MonitorType
  <2>4. PeerType'
    BY <1>5 DEF HearsLeave, IInv, TypeOK, PeerType
  <2>5. BufferType'
    BY <1>5 DEF HearsLeave, IInv, TypeOK, BufferType
  <2>6. StopType'
    BY <1>5 DEF HearsLeave, IInv, TypeOK, StopType
  <2> QED
    BY <2>1, <2>2, <2>3, <2>4, <2>5, <2>6
<1>6. ASSUME DropsLeaver PROVE Typed'
  <2>1. FlagType'
    BY <1>6, Zenon DEF DropsLeaver, IInv, TypeOK, FlagType
  <2>2. MessageType'
    BY <1>6 DEF DropsLeaver, IInv, TypeOK, MessageType
  <2>3. MonitorType'
    BY <1>6 DEF DropsLeaver, Idle, MonitorType
  <2>4. PeerType'
    BY <1>6 DEF DropsLeaver, Drop, AreClosed, IInv, TypeOK, PeerType
  <2>5. BufferType'
    BY <1>6 DEF DropsLeaver, Drop, AreClosed, IInv, TypeOK, BufferType
  <2>6. StopType'
    BY <1>6 DEF DropsLeaver, IInv, TypeOK, StopType
  <2> QED
    BY <2>1, <2>2, <2>3, <2>4, <2>5, <2>6
<1>7. ASSUME HearsEnd PROVE Typed'
  <2>1. FlagType'
    BY <1>7, Zenon DEF HearsEnd, IInv, TypeOK, FlagType
  <2>2. MessageType'
    BY <1>7, Received DEF HearsEnd, IInv, TypeOK, MessageType
  <2>3. MonitorType'
    BY <1>7 DEF HearsEnd, IInv, TypeOK, MonitorType
  <2>4. PeerType'
    BY <1>7 DEF HearsEnd, IInv, TypeOK, PeerType
  <2>5. BufferType'
    BY <1>7 DEF HearsEnd, IInv, TypeOK, BufferType
  <2>6. StopType'
    BY <1>7 DEF HearsEnd, IInv, TypeOK, StopType
  <2> QED
    BY <2>1, <2>2, <2>3, <2>4, <2>5, <2>6
<1>8. ASSUME HearsOffer PROVE Typed'
  <2>1. FlagType'
    BY <1>8, Zenon DEF HearsOffer, IInv, TypeOK, FlagType
  <2>2. MessageType'
    BY <1>8, Received DEF HearsOffer, IInv, TypeOK, MessageType
  <2>3. MonitorType'
    BY <1>8 DEF HearsOffer, Receives, IInv, TypeOK, MonitorType, Messages
  <2>4. PeerType'
    <3>1. Head(inbox).from \in Publishers
      BY <1>8, Received DEF HearsOffer
    <3>2. CASE Accepts(Head(inbox).from)
      <4>1. PICK c \in Conns :
              /\ conn' = [conn EXCEPT ![c] =
                   [for |-> Head(inbox).from, old |-> FALSE, state |-> "live"]]
              /\ table' = [table EXCEPT ![Head(inbox).from] = c]
        BY <1>8, <3>2 DEF HearsOffer
      <4> QED
        BY <3>1, <4>1 DEF IInv, TypeOK, PeerType
    <3>3. CASE ~Accepts(Head(inbox).from)
      BY <1>8, <3>3 DEF HearsOffer, IInv, TypeOK, PeerType
    <3> QED
      BY <3>2, <3>3
  <2>5. BufferType'
    BY <1>8 DEF HearsOffer, IInv, TypeOK, BufferType
  <2>6. StopType'
    BY <1>8 DEF HearsOffer, IInv, TypeOK, StopType
  <2> QED
    BY <2>1, <2>2, <2>3, <2>4, <2>5, <2>6
<1>9. ASSUME SetsRemote PROVE Typed'
  <2>1. FlagType'
    BY <1>9, Zenon DEF SetsRemote, IInv, TypeOK, FlagType
  <2>2. MessageType'
    BY <1>9 DEF SetsRemote, IInv, TypeOK, MessageType
  <2>3. MonitorType'
    BY <1>9 DEF SetsRemote, Dead, IInv, TypeOK, MonitorType
  <2>4. PeerType'
    BY <1>9 DEF SetsRemote, IInv, TypeOK, PeerType
  <2>5. BufferType'
    BY <1>9 DEF SetsRemote, Attach, IInv, TypeOK, BufferType
  <2>6. StopType'
    BY <1>9 DEF SetsRemote, IInv, TypeOK, StopType
  <2> QED
    BY <2>1, <2>2, <2>3, <2>4, <2>5, <2>6
<1>10. ASSUME Answers PROVE Typed'
  <2>1. FlagType'
    BY <1>10, Zenon DEF Answers, IInv, TypeOK, FlagType
  <2>2. MessageType'
    BY <1>10 DEF Answers, IInv, TypeOK, MessageType
  <2>3. MonitorType'
    BY <1>10 DEF Answers, Idle, Dead, MonitorType
  <2>4. PeerType'
    BY <1>10 DEF Answers, IInv, TypeOK, PeerType
  <2>5. BufferType'
    BY <1>10 DEF Answers, IInv, TypeOK, BufferType
  <2>6. StopType'
    BY <1>10 DEF Answers, IInv, TypeOK, StopType
  <2> QED
    BY <2>1, <2>2, <2>3, <2>4, <2>5, <2>6
<1>11. ASSUME NEW c \in Conns, Fails(c) PROVE Typed'
  <2>1. FlagType'
    BY <1>11, Zenon DEF Fails, IInv, TypeOK, FlagType
  <2>2. MessageType'
    BY <1>11, Used DEF Fails, Works, IInv, TypeOK, MessageType
  <2>3. MonitorType'
    BY <1>11 DEF Fails, IInv, TypeOK, MonitorType
  <2>4. PeerType'
    BY <1>11 DEF Fails, IInv, TypeOK, PeerType, MonitorInv, Messages, Unused, Works
  <2>5. BufferType'
    BY <1>11 DEF Fails, IInv, TypeOK, BufferType
  <2>6. StopType'
    BY <1>11 DEF Fails, IInv, TypeOK, StopType
  <2> QED
    BY <2>1, <2>2, <2>3, <2>4, <2>5, <2>6
<1>12. ASSUME NEW c \in Conns, FailureIsHandled(c) PROVE Typed'
  <2>1. FlagType'
    BY <1>12, Zenon DEF FailureIsHandled, IInv, TypeOK, FlagType
  <2>2. MessageType'
    BY <1>12, Used DEF FailureIsHandled, IInv, TypeOK, MessageType
  <2>3. MonitorType'
    BY <1>12 DEF FailureIsHandled, IInv, TypeOK, MonitorType
  <2>4. PeerType'
    <3>1. PeerType /\ conn[c].state = "failing"
      BY <1>12 DEF FailureIsHandled, IInv, TypeOK, PeerType, Unused, Works
    <3>2. table' \in [Publishers -> Conns \cup {None}]
      BY <1>12, <3>1 DEF FailureIsHandled, PeerType
    <3>3. ASSUME NEW d \in Conns, Works(d)
          PROVE  [conn[d] EXCEPT !.state = "stray"]
                   \in [for : Publishers, old : BOOLEAN, state : {"live", "stray", "failing"}]
      BY <3>1, <3>3 DEF PeerType, Unused, Works
    <3>4. conn' \in [Conns -> {Unused} \cup
                 [for : Publishers, old : BOOLEAN, state : {"live", "stray", "failing"}]]
      BY <1>12, <3>1, <3>3 DEF FailureIsHandled, PeerType
    <3> QED
      BY <3>2, <3>4 DEF PeerType
  <2>5. BufferType'
    BY <1>12 DEF FailureIsHandled, IInv, TypeOK, BufferType
  <2>6. StopType'
    BY <1>12 DEF FailureIsHandled, IInv, TypeOK, StopType
  <2> QED
    BY <2>1, <2>2, <2>3, <2>4, <2>5, <2>6
<1>13. ASSUME StartReading PROVE Typed'
  <2>1. FlagType'
    BY <1>13, Zenon DEF StartReading, IInv, TypeOK, FlagType
  <2>2. MessageType'
    BY <1>13 DEF StartReading, IInv, TypeOK, MessageType
  <2>3. MonitorType'
    BY <1>13 DEF StartReading, IInv, TypeOK, MonitorType
  <2>4. PeerType'
    <3>1. \A c \in Conns : conn'[c] \in {Unused} \cup
           [for : Publishers, old : BOOLEAN, state : {"live", "stray", "failing"}]
      <4> TAKE c \in Conns
      <4>1. CASE conn[c] = Unused
        BY <1>13, <4>1 DEF StartReading
      <4>2. CASE conn[c] # Unused
        <5>1. conn[c] \in [for : Publishers, old : BOOLEAN, state : {"live", "stray", "failing"}]
          BY <4>2, Used
        <5>2. conn'[c] = [conn[c] EXCEPT !.old = TRUE]
          BY <1>13, <4>2 DEF StartReading
        <5> QED
          BY <5>1, <5>2
      <4> QED
        BY <4>1, <4>2
    <3>2. conn' = [c \in Conns |-> conn'[c]] /\ table' = table
      BY <1>13 DEF StartReading
    <3> QED
      BY <3>1, <3>2 DEF IInv, TypeOK, PeerType
  <2>5. BufferType'
    BY <1>13 DEF StartReading, BufferType, Silence
  <2>6. StopType'
    BY <1>13 DEF StartReading, IInv, TypeOK, StopType
  <2> QED
    BY <2>1, <2>2, <2>3, <2>4, <2>5, <2>6
<1>14. ASSUME SpeechOpens PROVE Typed'
  <2>1. FlagType'
    BY <1>14, Zenon DEF SpeechOpens, IInv, TypeOK, FlagType
  <2>2. MessageType'
    BY <1>14 DEF SpeechOpens, IInv, TypeOK, MessageType
  <2>3. MonitorType'
    BY <1>14 DEF SpeechOpens, IInv, TypeOK, MonitorType
  <2>4. PeerType'
    BY <1>14 DEF SpeechOpens, IInv, TypeOK, PeerType
  <2>5. BufferType'
    BY <1>14 DEF SpeechOpens, IInv, TypeOK, BufferType
  <2>6. StopType'
    BY <1>14 DEF SpeechOpens, IInv, TypeOK, StopType
  <2> QED
    BY <2>1, <2>2, <2>3, <2>4, <2>5, <2>6
<1>15. ASSUME SpeechFails PROVE Typed'
  <2>1. FlagType'
    BY <1>15, Zenon DEF SpeechFails, IInv, TypeOK, FlagType
  <2>2. MessageType'
    BY <1>15 DEF SpeechFails, IInv, TypeOK, MessageType
  <2>3. MonitorType'
    BY <1>15 DEF SpeechFails, IInv, TypeOK, MonitorType
  <2>4. PeerType'
    BY <1>15 DEF SpeechFails, IInv, TypeOK, PeerType
  <2>5. BufferType'
    BY <1>15 DEF SpeechFails, BufferType, Silence
  <2>6. StopType'
    BY <1>15 DEF SpeechFails, IInv, TypeOK, StopType
  <2> QED
    BY <2>1, <2>2, <2>3, <2>4, <2>5, <2>6
<1>16. ASSUME JoinsCall PROVE Typed'
  <2>1. FlagType'
    BY <1>16, Zenon DEF JoinsCall, IInv, TypeOK, FlagType
  <2>2. MessageType'
    BY <1>16 DEF JoinsCall, Request, IInv, TypeOK, MessageType
  <2>3. MonitorType'
    BY <1>16 DEF JoinsCall, IInv, TypeOK, MonitorType
  <2>4. PeerType'
    BY <1>16 DEF JoinsCall, IInv, TypeOK, PeerType
  <2>5. BufferType'
    BY <1>16 DEF JoinsCall, IInv, TypeOK, BufferType
  <2>6. StopType'
    BY <1>16 DEF JoinsCall, IInv, TypeOK, StopType
  <2> QED
    BY <2>1, <2>2, <2>3, <2>4, <2>5, <2>6
<1>17. ASSUME StopReading PROVE Typed'
  <2>1. FlagType'
    BY <1>17, Zenon DEF StopReading, FlagType
  <2>2. MessageType'
    BY <1>17 DEF StopReading, IInv, TypeOK, MessageType
  <2>3. MonitorType'
    BY <1>17 DEF StopReading, IInv, TypeOK, MonitorType
  <2>4. PeerType'
    BY <1>17 DEF StopReading, IInv, TypeOK, PeerType
  <2>5. BufferType'
    BY <1>17 DEF StopReading, BufferType, Silence
  <2>6. StopType'
    BY <1>17 DEF StopReading, IInv, TypeOK, StopType
  <2> QED
    BY <2>1, <2>2, <2>3, <2>4, <2>5, <2>6
<1>18. ASSUME TakesConns PROVE Typed'
  <2>1. FlagType'
    BY <1>18, Zenon DEF TakesConns, IInv, TypeOK, FlagType
  <2>2. MessageType'
    BY <1>18 DEF TakesConns, Held, TableInv, IInv, TypeOK, MessageType
  <2>3. MonitorType'
    BY <1>18 DEF TakesConns, IInv, TypeOK, MonitorType
  <2>4. PeerType'
    BY <1>18 DEF TakesConns, IInv, TypeOK, PeerType, Silence
  <2>5. BufferType'
    BY <1>18 DEF TakesConns, IInv, TypeOK, BufferType
  <2>6. StopType'
    BY <1>18 DEF TakesConns, Take, Held, IInv, TypeOK, StopType
  <2> QED
    BY <2>1, <2>2, <2>3, <2>4, <2>5, <2>6
<1>19. ASSUME ClosesConns PROVE Typed'
  <2>1. FlagType'
    BY <1>19, Zenon DEF ClosesConns, IInv, TypeOK, FlagType
  <2>2. MessageType'
    BY <1>19 DEF ClosesConns, IInv, TypeOK, MessageType
  <2>3. MonitorType'
    BY <1>19 DEF ClosesConns, IInv, TypeOK, MonitorType
  <2>4. PeerType'
    BY <1>19 DEF ClosesConns, AreClosed, IInv, TypeOK, PeerType
  <2>5. BufferType'
    BY <1>19 DEF ClosesConns, AreClosed, IInv, TypeOK, BufferType
  <2>6. StopType'
    BY <1>19 DEF ClosesConns, Done, IInv, TypeOK, StopType
  <2> QED
    BY <2>1, <2>2, <2>3, <2>4, <2>5, <2>6
<1>20. ASSUME Closes PROVE Typed'
  <2>1. FlagType'
    BY <1>20, Zenon DEF Closes, IInv, TypeOK, FlagType
  <2>2. MessageType'
    BY <1>20 DEF Closes, IInv, TypeOK, MessageType
  <2>3. MonitorType'
    BY <1>20 DEF Closes, Dead, MonitorType
  <2>4. PeerType'
    BY <1>20 DEF Closes, AreClosed, IInv, TypeOK, PeerType, Silence
  <2>5. BufferType'
    BY <1>20 DEF Closes, AreClosed, IInv, TypeOK, BufferType
  <2>6. StopType'
    BY <1>20 DEF Closes, IInv, TypeOK, StopType
  <2> QED
    BY <2>1, <2>2, <2>3, <2>4, <2>5, <2>6
<1>21. ASSUME UNCHANGED vars PROVE Typed'
  <2>1. FlagType'
    BY <1>21, Zenon DEF vars, IInv, TypeOK, FlagType
  <2>2. MessageType'
    BY <1>21 DEF vars, IInv, TypeOK, MessageType
  <2>3. MonitorType'
    BY <1>21 DEF vars, IInv, TypeOK, MonitorType
  <2>4. PeerType'
    BY <1>21 DEF vars, IInv, TypeOK, PeerType
  <2>5. BufferType'
    BY <1>21 DEF vars, IInv, TypeOK, BufferType
  <2>6. StopType'
    BY <1>21 DEF vars, IInv, TypeOK, StopType
  <2> QED
    BY <2>1, <2>2, <2>3, <2>4, <2>5, <2>6
<1> QED
  BY <1>1, <1>2, <1>3, <1>4, <1>5, <1>6, <1>7, <1>8, <1>9, <1>10, <1>11, <1>12, <1>13, <1>14,
     <1>15, <1>16, <1>17, <1>18, <1>19, <1>20, <1>21
     DEF Next, Monitor, Starter, Teardown, Answered

\* Each action keeps the table and the teardown apart.
LEMMA TableStep ==
  ASSUME IInv, [Next]_vars
  PROVE  TableInv'
PROOF
<1> USE DEF peers, reader
<1>1. ASSUME NEW m \in Messages, Tells(m) PROVE TableInv'
  BY <1>1 DEF Tells, IInv, TableInv, NoStrayConnection
<1>2. ASSUME NEW p \in Publishers, Offers(p) PROVE TableInv'
  BY <1>2 DEF Offers, IInv, TableInv, NoStrayConnection
<1>3. ASSUME NEW p \in Publishers, RequestIsLost(p) PROVE TableInv'
  BY <1>3 DEF RequestIsLost, IInv, TableInv, NoStrayConnection
<1>4. ASSUME HearsJoin PROVE TableInv'
  BY <1>4 DEF HearsJoin, IInv, TableInv, NoStrayConnection
<1>5. ASSUME HearsLeave PROVE TableInv'
  BY <1>5 DEF HearsLeave, IInv, TableInv, NoStrayConnection
<1>6. ASSUME DropsLeaver PROVE TableInv'
  BY <1>6, AudioAssumption
     DEF DropsLeaver, Drop, AreClosed, IInv, TypeOK, TableInv, NoStrayConnection, MonitorInv,
         Works, Unused
<1>7. ASSUME HearsEnd PROVE TableInv'
  BY <1>7 DEF HearsEnd, IInv, TableInv, NoStrayConnection
<1>8. ASSUME HearsOffer PROVE TableInv'
  <2>1. Head(inbox).from \in Publishers
    BY <1>8, Received DEF HearsOffer
  <2>2. CASE Accepts(Head(inbox).from)
    <3>1. PICK c \in Conns :
            /\ conn[c] = Unused
            /\ conn' = [conn EXCEPT ![c] =
                 [for |-> Head(inbox).from, old |-> FALSE, state |-> "live"]]
            /\ table' = [table EXCEPT ![Head(inbox).from] = c]
            /\ teardown' = teardown
      BY <1>8, <2>2 DEF HearsOffer
    <3>2. c \notin teardown.conns /\ \A p \in Publishers : table[p] # c
      BY <3>1, AudioAssumption DEF IInv, TableInv, Unused
    <3>3. ~Works(table[Head(inbox).from])
      BY <2>2 DEF Accepts
    <3> QED
      BY <2>1, <3>1, <3>2, <3>3, AudioAssumption
         DEF IInv, TypeOK, TableInv, NoStrayConnection, Works, Unused
  <2>3. CASE ~Accepts(Head(inbox).from)
    BY <1>8, <2>3 DEF HearsOffer, IInv, TableInv, NoStrayConnection
  <2> QED
    BY <2>2, <2>3
<1>9. ASSUME SetsRemote PROVE TableInv'
  BY <1>9 DEF SetsRemote, IInv, TableInv, NoStrayConnection
<1>10. ASSUME Answers PROVE TableInv'
  BY <1>10 DEF Answers, IInv, TableInv, NoStrayConnection
<1>11. ASSUME NEW c \in Conns, Fails(c) PROVE TableInv'
  BY <1>11 DEF Fails, IInv, TableInv, NoStrayConnection
<1>12. ASSUME NEW c \in Conns, FailureIsHandled(c) PROVE TableInv'
  BY <1>12, AudioAssumption
     DEF FailureIsHandled, IInv, TypeOK, TableInv, NoStrayConnection, MonitorInv, Works,
         Silence, Unused
<1>13. ASSUME StartReading PROVE TableInv'
  BY <1>13 DEF StartReading, IInv, TypeOK, TableInv, NoStrayConnection
<1>14. ASSUME SpeechOpens PROVE TableInv'
  BY <1>14 DEF SpeechOpens, IInv, TableInv, NoStrayConnection
<1>15. ASSUME SpeechFails PROVE TableInv'
  BY <1>15 DEF SpeechFails, IInv, TableInv, NoStrayConnection
<1>16. ASSUME JoinsCall PROVE TableInv'
  BY <1>16 DEF JoinsCall, IInv, TableInv, NoStrayConnection
<1>17. ASSUME StopReading PROVE TableInv'
  <2>1. teardown'.conns = {} /\ teardown.conns = {} /\ table' = table /\ conn' = conn
    BY <1>17 DEF StopReading, Done
  <2>2. teardown'.pc = "flushing"
    BY <1>17 DEF StopReading
  <2> QED
    BY <2>1, <2>2 DEF IInv, TableInv, NoStrayConnection
<1>18. ASSUME TakesConns PROVE TableInv'
  BY <1>18
     DEF TakesConns, Take, Held, IInv, TypeOK, TableInv, NoStrayConnection, Silence, Unused
<1>19. ASSUME ClosesConns PROVE TableInv'
  BY <1>19 DEF ClosesConns, AreClosed, Done, IInv, TypeOK, TableInv, NoStrayConnection, Unused
<1>20. ASSUME Closes PROVE TableInv'
  BY <1>20, AudioAssumption
     DEF Closes, AreClosed, Held, IInv, TypeOK, TableInv, NoStrayConnection, Works, Silence,
         Unused
<1>21. ASSUME UNCHANGED vars PROVE TableInv'
  BY <1>21 DEF vars, IInv, TableInv, NoStrayConnection
<1> QED
  BY <1>1, <1>2, <1>3, <1>4, <1>5, <1>6, <1>7, <1>8, <1>9, <1>10, <1>11, <1>12, <1>13, <1>14,
     <1>15, <1>16, <1>17, <1>18, <1>19, <1>20, <1>21
     DEF Next, Monitor, Starter, Teardown, Answered

\* Each action keeps the buffers.
LEMMA BufferStep ==
  ASSUME IInv, [Next]_vars
  PROVE  BufferInv'
PROOF
<1> USE DEF peers, reader
<1>1. ASSUME NEW m \in Messages, Tells(m) PROVE BufferInv'
  BY <1>1 DEF Tells, IInv, BufferInv, Works
<1>2. ASSUME NEW p \in Publishers, Offers(p) PROVE BufferInv'
  BY <1>2 DEF Offers, IInv, BufferInv, Works
<1>3. ASSUME NEW p \in Publishers, RequestIsLost(p) PROVE BufferInv'
  BY <1>3 DEF RequestIsLost, IInv, BufferInv, Works
<1>4. ASSUME HearsJoin PROVE BufferInv'
  BY <1>4 DEF HearsJoin, IInv, BufferInv, Works
<1>5. ASSUME HearsLeave PROVE BufferInv'
  <2>1. Head(inbox).from \in Publishers
    BY <1>5, Received DEF HearsLeave
  <2>2. /\ buffers' = [buffers EXCEPT ![Head(inbox).from] = None]
        /\ UNCHANGED <<table, conn, mixing, reading, starter>>
    BY <1>5 DEF HearsLeave
  <2>3. \A p \in Publishers : buffers'[p] \in Conns => buffers'[p] = buffers[p]
    BY <2>1, <2>2, AudioAssumption
  <2>4. ~mixing => buffers' = Silence
    BY <2>2 DEF IInv, BufferInv, Silence
  <2> QED
    BY <2>2, <2>3, <2>4 DEF IInv, BufferInv, Works
<1>6. ASSUME DropsLeaver PROVE BufferInv'
  <2> DEFINE gone == {table[monitor.for]} \cap {c \in Conns : Works(c)}
  <2>1. AreClosed(gone) /\ UNCHANGED <<mixing, reading, starter>>
    BY <1>6 DEF DropsLeaver, Drop
  <2>2. gone \in SUBSET Conns
    OBVIOUS
  <2> HIDE DEF gone
  <2> QED
    BY <2>1, <2>2, ClosedKeeps
<1>7. ASSUME HearsEnd PROVE BufferInv'
  BY <1>7 DEF HearsEnd, IInv, BufferInv, Works
<1>8. ASSUME HearsOffer PROVE BufferInv'
  <2>2. CASE Accepts(Head(inbox).from)
    <3>1. PICK c \in Conns :
            /\ conn[c] = Unused
            /\ conn' = [conn EXCEPT ![c] =
                 [for |-> Head(inbox).from, old |-> FALSE, state |-> "live"]]
            /\ UNCHANGED <<buffers, mixing, reading, starter>>
      BY <1>8, <2>2 DEF HearsOffer
    <3>2. \A p \in Publishers : buffers[p] # c
      BY <3>1 DEF IInv, BufferInv, Works, Unused
    <3> QED
      BY <3>1, <3>2 DEF IInv, TypeOK, BufferInv, Works, Silence
  <2>3. CASE ~Accepts(Head(inbox).from)
    BY <1>8, <2>3 DEF HearsOffer, IInv, BufferInv, Works
  <2> QED
    BY <2>2, <2>3
<1>9. ASSUME SetsRemote PROVE BufferInv'
  <2>1. monitor.conn \in Conns /\ monitor.for \in Publishers
    BY <1>9 DEF SetsRemote, IInv, MonitorInv
  <2>2. CASE Works(monitor.conn) /\ mixing
    <3>1. Attach(monitor.for, monitor.conn) /\ conn[monitor.conn].for = monitor.for
      BY <1>9, <2>2 DEF SetsRemote, IInv, MonitorInv
    <3> QED
      BY <1>9, <2>1, <2>2, <3>1 DEF SetsRemote, Attach, IInv, TypeOK, BufferInv, Works
  <2>3. CASE ~(Works(monitor.conn) /\ mixing)
    <3>1. buffers' = buffers
      BY <1>9, <2>3 DEF SetsRemote
    <3> QED
      BY <1>9, <3>1 DEF SetsRemote, IInv, BufferInv, Works, Silence
  <2> QED
    BY <2>2, <2>3
<1>10. ASSUME Answers PROVE BufferInv'
  BY <1>10 DEF Answers, IInv, BufferInv, Works
<1>11. ASSUME NEW c \in Conns, Fails(c) PROVE BufferInv'
  BY <1>11, AudioAssumption DEF Fails, IInv, BufferInv, Works, Silence
<1>12. ASSUME NEW c \in Conns, FailureIsHandled(c) PROVE BufferInv'
  BY <1>12 DEF FailureIsHandled, IInv, BufferInv, Works
<1>13. ASSUME StartReading PROVE BufferInv'
  BY <1>13 DEF StartReading, IInv, BufferInv, Works
<1>14. ASSUME SpeechOpens PROVE BufferInv'
  BY <1>14 DEF SpeechOpens, IInv, BufferInv, Works
<1>15. ASSUME SpeechFails PROVE BufferInv'
  BY <1>15, AudioAssumption DEF SpeechFails, IInv, BufferInv, Silence
<1>16. ASSUME JoinsCall PROVE BufferInv'
  BY <1>16 DEF JoinsCall, IInv, BufferInv, Works
<1>17. ASSUME StopReading PROVE BufferInv'
  BY <1>17, AudioAssumption DEF StopReading, IInv, BufferInv, Silence
<1>18. ASSUME TakesConns PROVE BufferInv'
  BY <1>18 DEF TakesConns, IInv, BufferInv, Works
<1>19. ASSUME ClosesConns PROVE BufferInv'
  <2>1. AreClosed(teardown.conns) /\ UNCHANGED <<mixing, reading, starter>>
    BY <1>19 DEF ClosesConns
  <2>2. teardown.conns \in SUBSET Conns
    BY DEF IInv, TypeOK
  <2> QED
    BY <2>1, <2>2, ClosedKeeps
<1>20. ASSUME Closes PROVE BufferInv'
  <2> DEFINE gone == {c \in Held : Works(c)}
  <2>1. AreClosed(gone) /\ UNCHANGED <<mixing, reading, starter>>
    BY <1>20 DEF Closes
  <2>2. gone \in SUBSET Conns
    BY DEF Held, IInv, TypeOK
  <2> HIDE DEF gone
  <2> QED
    BY <2>1, <2>2, ClosedKeeps
<1>21. ASSUME UNCHANGED vars PROVE BufferInv'
  BY <1>21 DEF vars, IInv, BufferInv, Works
<1> QED
  BY <1>1, <1>2, <1>3, <1>4, <1>5, <1>6, <1>7, <1>8, <1>9, <1>10, <1>11, <1>12, <1>13, <1>14,
     <1>15, <1>16, <1>17, <1>18, <1>19, <1>20, <1>21
     DEF Next, Monitor, Starter, Teardown, Answered

\* Each action keeps account of the monitor.
LEMMA MonitorStep ==
  ASSUME IInv, [Next]_vars
  PROVE  MonitorInv'
PROOF
<1> USE DEF peers, reader
<1>1. ASSUME NEW m \in Messages, Tells(m) PROVE MonitorInv'
  BY <1>1 DEF Tells, IInv, MonitorInv, Works
<1>2. ASSUME NEW p \in Publishers, Offers(p) PROVE MonitorInv'
  BY <1>2 DEF Offers, IInv, MonitorInv, Works
<1>3. ASSUME NEW p \in Publishers, RequestIsLost(p) PROVE MonitorInv'
  BY <1>3 DEF RequestIsLost, IInv, MonitorInv, Works
<1>4. ASSUME HearsJoin PROVE MonitorInv'
  BY <1>4 DEF HearsJoin, Receives, IInv, MonitorInv
<1>5. ASSUME HearsLeave PROVE MonitorInv'
  BY <1>5 DEF HearsLeave, Receives, IInv, TypeOK, MonitorInv, Messages
<1>6. ASSUME DropsLeaver PROVE MonitorInv'
  BY <1>6 DEF DropsLeaver, Idle, MonitorInv
<1>7. ASSUME HearsEnd PROVE MonitorInv'
  BY <1>7 DEF HearsEnd, Receives, IInv, MonitorInv
<1>8. ASSUME HearsOffer PROVE MonitorInv'
  BY <1>8 DEF HearsOffer, Receives, IInv, TypeOK, MonitorInv, Messages
<1>9. ASSUME SetsRemote PROVE MonitorInv'
  BY <1>9 DEF SetsRemote, Dead, IInv, TypeOK, MonitorInv
<1>10. ASSUME Answers PROVE MonitorInv'
  BY <1>10 DEF Answers, Idle, Dead, MonitorInv
<1>11. ASSUME NEW c \in Conns, Fails(c) PROVE MonitorInv'
  BY <1>11 DEF Fails, IInv, MonitorInv, Works
<1>12. ASSUME NEW c \in Conns, FailureIsHandled(c) PROVE MonitorInv'
  BY <1>12 DEF FailureIsHandled, IInv, MonitorInv, Works, Unused
<1>13. ASSUME StartReading PROVE MonitorInv'
  BY <1>13 DEF StartReading, IInv, MonitorInv, BufferInv, Works
<1>14. ASSUME SpeechOpens PROVE MonitorInv'
  BY <1>14 DEF SpeechOpens, IInv, MonitorInv, Works
<1>15. ASSUME SpeechFails PROVE MonitorInv'
  BY <1>15 DEF SpeechFails, IInv, MonitorInv, Works, Silence
<1>16. ASSUME JoinsCall PROVE MonitorInv'
  BY <1>16 DEF JoinsCall, IInv, MonitorInv, Works
<1>17. ASSUME StopReading PROVE MonitorInv'
  BY <1>17 DEF StopReading, IInv, MonitorInv, Works, Silence
<1>18. ASSUME TakesConns PROVE MonitorInv'
  BY <1>18 DEF TakesConns, IInv, MonitorInv, Works
<1>19. ASSUME ClosesConns PROVE MonitorInv'
  BY <1>19 DEF ClosesConns, AreClosed, IInv, TypeOK, MonitorInv, BufferInv, Works, Unused
<1>20. ASSUME Closes PROVE MonitorInv'
  BY <1>20 DEF Closes, Dead, MonitorInv
<1>21. ASSUME UNCHANGED vars PROVE MonitorInv'
  BY <1>21 DEF vars, IInv, MonitorInv, Works
<1> QED
  BY <1>1, <1>2, <1>3, <1>4, <1>5, <1>6, <1>7, <1>8, <1>9, <1>10, <1>11, <1>12, <1>13, <1>14,
     <1>15, <1>16, <1>17, <1>18, <1>19, <1>20, <1>21
     DEF Next, Monitor, Starter, Teardown, Answered

\* Each action that loses a participant says so.
LEMMA MixStep ==
  ASSUME IInv, [Next]_vars
  PROVE  MixInv'
PROOF
<1> USE DEF peers, reader
<1>1. ASSUME NEW m \in Messages, Tells(m) PROVE MixInv'
  BY <1>1 DEF Tells, Send, IInv, MixInv, EveryoneIsMixed, Heard, Awaited, Lost, Stale, Works
<1>2. ASSUME NEW p \in Publishers, Offers(p) PROVE MixInv'
  BY <1>2
     DEF Offers, Send, IInv, MixInv, EveryoneIsMixed, Heard, Awaited, Lost, Stale, BufferInv,
         Works
<1>3. ASSUME NEW p \in Publishers, RequestIsLost(p) PROVE MixInv'
  BY <1>3 DEF RequestIsLost, IInv, MixInv, EveryoneIsMixed, Heard, Awaited, Lost, Stale, Works
<1>4. ASSUME HearsJoin PROVE MixInv'
  <2>1. PICK p \in Publishers :
        /\ p = Head(inbox).from
        /\ publishers' = publishers \cup {p} /\ monitor.pc = "idle"
        /\ UNCHANGED <<monitor, table, conn, buffers, mixing, reading, starter, spoiled>>
    BY <1>4, Received DEF HearsJoin, Receives
  <2>2. asked' = IF reading /\ ~Works(table[p]) THEN asked \cup {p} ELSE asked
    BY <1>4, <2>1 DEF HearsJoin
  <2>3. \A q \in Publishers : Awaited(q) => Awaited(q)'
    <3>1. \A q \in Publishers : [kind |-> "offer", from |-> q] # Head(inbox)
      BY <1>4, Received DEF HearsJoin
    <3> QED
      BY <1>4, <2>1, <2>2, <3>1, Received DEF HearsJoin, Awaited
  <2>4. reading => Heard(p) \/ Awaited(p)' \/ Lost(p)
    <3>1. reading /\ ~Works(table[p]) => p \in asked'
      BY <2>2
    <3>2. reading /\ Works(table[p]) /\ ~conn[table[p]].old =>
            buffers[p] \in Conns \/ p \in spoiled \/ monitor = Dead
      BY <2>1 DEF IInv, MixInv, BufferInv
    <3>3. buffers[p] \in Conns => Heard(p)
      BY <2>1 DEF IInv, BufferInv, Heard
    <3> QED
      BY <3>1, <3>2, <3>3 DEF Awaited, Lost, Stale
  <2>5. \A q \in Publishers : (Heard(q) => Heard(q)') /\ (Lost(q) => Lost(q)')
    BY <2>1 DEF Heard, Lost, Stale, Works
  <2>6. EveryoneIsMixed'
    <3>1. ASSUME reading, starter = "idle", NEW q \in publishers \cup {p}
          PROVE  Heard(q) \/ Awaited(q)' \/ Lost(q)
      BY <2>3, <2>4, <3>1 DEF IInv, TypeOK, MixInv, EveryoneIsMixed
    <3>2. publishers \cup {p} \subseteq Publishers
      BY <2>1 DEF IInv, TypeOK
    <3> QED
      BY <2>1, <2>5, <3>1, <3>2 DEF EveryoneIsMixed
  <2> QED
    BY <2>1, <2>6 DEF IInv, MixInv, Works
<1>5. ASSUME HearsLeave PROVE MixInv'
  <2>1. PICK p \in Publishers :
        /\ p = Head(inbox).from
        /\ publishers' = publishers \ {p}
        /\ buffers' = [buffers EXCEPT ![p] = None]
        /\ monitor.pc = "idle" /\ monitor'.pc = "leaving" /\ monitor'.for = p
        /\ spoiled' = spoiled \ {p}
        /\ UNCHANGED <<asked, table, conn, mixing, reading, starter>>
    BY <1>5, Received DEF HearsLeave, Receives, Idle
  <2>2. monitor.for = None /\ monitor # Dead
    BY <2>1 DEF IInv, MonitorInv, Dead
  <2>3. \A q \in Publishers \ {p} : Awaited(q) => Awaited(q)'
    <3>1. \A q \in Publishers : [kind |-> "offer", from |-> q] # Head(inbox)
      BY <1>5, Received DEF HearsLeave
    <3> QED
      BY <1>5, <2>1, <2>2, <3>1, Received, AudioAssumption DEF HearsLeave, Awaited
  <2>4. \A q \in Publishers \ {p} :
          buffers'[q] = buffers[q] /\ (Heard(q) => Heard(q)') /\ (Lost(q) => Lost(q)')
    BY <2>1, <2>2 DEF Heard, Lost, Stale, Works
  <2>5. EveryoneIsMixed'
    BY <2>1, <2>3, <2>4 DEF IInv, TypeOK, MixInv, EveryoneIsMixed
  <2>6. \A q \in Publishers \ {p} :
          (buffers'[q] = Ended => q \in spoiled') \/ ~mixing
    BY <2>1, <2>2, <2>4 DEF IInv, MixInv
  <2>7. buffers'[p] # Ended
    BY <2>1, AudioAssumption DEF IInv, TypeOK
  <2> QED
    BY <2>1, <2>2, <2>4, <2>5, <2>6, <2>7, AudioAssumption DEF IInv, MixInv, Works
<1>6. ASSUME DropsLeaver PROVE MixInv'
  <2>1. PICK p \in Publishers :
        /\ p = monitor.for
        /\ p \notin publishers /\ buffers[p] = None
        /\ monitor.pc = "leaving" /\ monitor' = Idle
        /\ UNCHANGED <<asked, inbox, publishers, mixing, reading, starter, spoiled>>
    BY <1>6 DEF DropsLeaver, IInv, MonitorInv
  <2> DEFINE gone == {table[p]} \cap {c \in Conns : Works(c)}
  <2>2. /\ table' = [table EXCEPT ![p] = None]
        /\ conn' = [c \in Conns |-> IF c \in gone THEN Unused ELSE conn[c]]
        /\ buffers' = [q \in Publishers |-> IF buffers[q] \in gone THEN Ended ELSE buffers[q]]
    BY <1>6, <2>1 DEF DropsLeaver, Drop, AreClosed
  <2>3. \A q \in Publishers \ {p} : table[q] \notin gone /\ buffers[q] \notin gone
    BY <2>1 DEF IInv, TableInv, BufferInv, Works
  <2>4. buffers'[p] = None /\ table'[p] = None
    BY <2>1, <2>2, AudioAssumption DEF IInv, TypeOK
  <2> HIDE DEF gone
  <2>5. \A q \in Publishers \ {p} :
          /\ table'[q] = table[q] /\ buffers'[q] = buffers[q]
          /\ table[q] \in Conns => conn'[table[q]] = conn[table[q]]
          /\ buffers[q] \in Conns => conn'[buffers[q]] = conn[buffers[q]]
    BY <2>2, <2>3
  <2>6. monitor # Dead /\ monitor' # Dead
    BY <2>1 DEF Dead, Idle
  <2>7. \A q \in Publishers \ {p} :
          /\ Heard(q) => Heard(q)'
          /\ Lost(q) => Lost(q)'
          /\ Works(table[q])' <=> Works(table[q])
    <3> TAKE q \in Publishers \ {p}
    <3>1. table[q] \in Conns \/ table[q] = None
      BY DEF IInv, TypeOK
    <3>2. Heard(q) => Heard(q)'
      BY <2>5 DEF Heard, Works
    <3>3. Works(table[q])' <=> Works(table[q])
      BY <2>5, <3>1 DEF Works
    <3>4. Stale(q) => Stale(q)'
      BY <2>5, <3>1 DEF Stale, Works
    <3>5. Lost(q) => Lost(q)'
      BY <2>1, <2>6, <3>4 DEF Lost
    <3> QED
      BY <3>2, <3>3, <3>5
  <2>8. \A q \in Publishers \ {p} : Awaited(q) => Awaited(q)'
    BY <2>1 DEF Awaited
  <2>9. EveryoneIsMixed'
    BY <2>1, <2>7, <2>8 DEF IInv, TypeOK, MixInv, EveryoneIsMixed
  <2>10. \A q \in Publishers \ {p} : monitor.for # q
    BY <2>1
  <2> QED
    BY <2>1, <2>4, <2>5, <2>6, <2>7, <2>9, <2>10, AudioAssumption
       DEF IInv, TypeOK, MixInv, Works
<1>7. ASSUME HearsEnd PROVE MixInv'
  BY <1>7 DEF HearsEnd, IInv, MixInv, EveryoneIsMixed, Works
<1>8. ASSUME HearsOffer PROVE MixInv'
  <2>1. PICK p \in Publishers :
        /\ p = Head(inbox).from
        /\ Head(inbox).kind = "offer" /\ monitor.pc = "idle" /\ monitor.for = None
        /\ UNCHANGED <<asked, publishers, buffers, mixing, reading, starter, spoiled>>
    BY <1>8, Received DEF HearsOffer, Receives, IInv, MonitorInv
  <2>2. \A q \in Publishers \ {p} : Awaited(q) => Awaited(q)'
    <3>1. \A q \in Publishers \ {p} : [kind |-> "offer", from |-> q] # Head(inbox)
      BY <2>1
    <3> QED
      BY <1>8, <2>1, <3>1, Received, AudioAssumption DEF HearsOffer, Awaited
  <2>3. CASE Accepts(p)
    <3>1. PICK c \in Conns :
            /\ conn[c] = Unused
            /\ conn' = [conn EXCEPT ![c] = [for |-> p, old |-> FALSE, state |-> "live"]]
            /\ table' = [table EXCEPT ![p] = c]
            /\ monitor' = [pc |-> "remote", for |-> p, conn |-> c]
      BY <1>8, <2>1, <2>3 DEF HearsOffer
    <3>2. Awaited(p)'
      BY <3>1 DEF Awaited
    <3>3. monitor # Dead /\ monitor' # Dead
      BY <2>1, <3>1 DEF Dead
    <3>4. \A q \in Publishers : table[q] # c /\ buffers[q] # c
      BY <3>1, AudioAssumption DEF IInv, TableInv, BufferInv, Unused
    <3>5. \A q \in Publishers : Heard(q) => Heard(q)'
      BY <2>1, <3>1, <3>4 DEF Heard, Works
    <3>6. \A q \in Publishers \ {p} :
            /\ table'[q] = table[q] /\ (table[q] \in Conns => conn'[table[q]] = conn[table[q]])
            /\ Works(table[q])' <=> Works(table[q])
      <4> TAKE q \in Publishers \ {p}
      <4>1. table[q] \in Conns \/ table[q] = None
        BY DEF IInv, TypeOK
      <4>2. table'[q] = table[q] /\ (table[q] \in Conns => conn'[table[q]] = conn[table[q]])
        BY <3>1, <3>4
      <4> QED
        BY <4>1, <4>2 DEF Works
    <3>7. \A q \in Publishers \ {p} : Lost(q) => Lost(q)'
      BY <2>1, <3>3, <3>6 DEF IInv, TypeOK, Lost, Stale, Works
    <3>8. EveryoneIsMixed'
      BY <2>1, <2>2, <3>2, <3>5, <3>7 DEF IInv, TypeOK, MixInv, EveryoneIsMixed
    <3>9. monitor'.for = p /\ monitor'.pc = "remote"
      BY <3>1
    <3> QED
      BY <2>1, <3>3, <3>6, <3>8, <3>9, AudioAssumption DEF IInv, TypeOK, MixInv, Works
  <2>4. CASE ~Accepts(p)
    <3>1. UNCHANGED <<table, conn, monitor>>
      BY <1>8, <2>1, <2>4 DEF HearsOffer
    <3>2. reading => Heard(p) \/ Lost(p)
      <4>1. reading /\ ~conn[table[p]].old =>
            buffers[p] \in Conns \/ p \in spoiled \/ monitor = Dead
        BY <2>1, <2>4 DEF Accepts, IInv, MixInv, BufferInv
      <4>2. buffers[p] \in Conns => Heard(p)
        BY <2>1 DEF IInv, BufferInv, Heard
      <4> QED
        BY <2>4, <4>1, <4>2 DEF Accepts, Lost, Stale
    <3>3. \A q \in Publishers : (Heard(q) => Heard(q)') /\ (Lost(q) => Lost(q)')
      BY <2>1, <3>1 DEF Heard, Lost, Stale, Works
    <3>4. EveryoneIsMixed'
      BY <2>1, <2>2, <3>2, <3>3 DEF IInv, TypeOK, MixInv, EveryoneIsMixed
    <3> QED
      BY <2>1, <3>1, <3>4 DEF IInv, MixInv, Works
  <2> QED
    BY <2>3, <2>4
<1>9. ASSUME SetsRemote PROVE MixInv'
  BY <1>9, AudioAssumption
     DEF SetsRemote, Attach, Dead, IInv, TypeOK, MixInv, EveryoneIsMixed, Heard, Awaited,
         Lost, Stale, MonitorInv, BufferInv, Works
<1>10. ASSUME Answers PROVE MixInv'
  BY <1>10 DEF Answers, Dead, IInv, MixInv, EveryoneIsMixed, Heard, Awaited, Lost, Stale, Works
<1>11. ASSUME NEW c \in Conns, Fails(c) PROVE MixInv'
  BY <1>11
     DEF Fails, IInv, TypeOK, MixInv, EveryoneIsMixed, Heard, Awaited, Lost, Stale, TableInv,
         BufferInv, Works
<1>12. ASSUME NEW c \in Conns, FailureIsHandled(c) PROVE MixInv'
  BY <1>12, AudioAssumption
     DEF FailureIsHandled, IInv, TypeOK, MixInv, EveryoneIsMixed, Heard, Awaited, Lost, Stale,
         MonitorInv, TableInv, BufferInv, Works, Silence, Unused, Messages
<1>13. ASSUME StartReading PROVE MixInv'
  BY <1>13, AudioAssumption
     DEF StartReading, IInv, TypeOK, MixInv, EveryoneIsMixed, Works, Silence, Unused
<1>14. ASSUME SpeechOpens PROVE MixInv'
  BY <1>14 DEF SpeechOpens, IInv, MixInv, EveryoneIsMixed, Works
<1>15. ASSUME SpeechFails PROVE MixInv'
  BY <1>15 DEF SpeechFails, IInv, MixInv, EveryoneIsMixed, BufferInv
<1>16. ASSUME JoinsCall PROVE MixInv'
  BY <1>16 DEF JoinsCall, Request, IInv, MixInv, EveryoneIsMixed, Awaited, Works
<1>17. ASSUME StopReading PROVE MixInv'
  BY <1>17 DEF StopReading, MixInv, EveryoneIsMixed
<1>18. ASSUME TakesConns PROVE MixInv'
  BY <1>18
     DEF TakesConns, Held, IInv, TypeOK, MixInv, EveryoneIsMixed, Heard, Awaited, Lost, Stale,
         TableInv, Works, Silence
<1>19. ASSUME ClosesConns PROVE MixInv'
  BY <1>19
     DEF ClosesConns, AreClosed, IInv, TypeOK, MixInv, EveryoneIsMixed, Heard, Awaited, Lost,
         Stale, TableInv, BufferInv, Works, Silence
<1>20. ASSUME Closes PROVE MixInv'
  BY <1>20 DEF Closes, MixInv, EveryoneIsMixed, Lost
<1>21. ASSUME UNCHANGED vars PROVE MixInv'
  BY <1>21 DEF vars, IInv, MixInv, EveryoneIsMixed, Heard, Awaited, Lost, Stale, Works
<1> QED
  BY <1>1, <1>2, <1>3, <1>4, <1>5, <1>6, <1>7, <1>8, <1>9, <1>10, <1>11, <1>12, <1>13, <1>14,
     <1>15, <1>16, <1>17, <1>18, <1>19, <1>20, <1>21
     DEF Next, Monitor, Starter, Teardown, Answered

\* The inductive invariant of the way from the microphones to the mix.
THEOREM Inductive == Spec => []IInv
PROOF
<1>1. Init => IInv
  BY Initially
<1>2. IInv /\ [Next]_vars => IInv'
  BY TypeStep, TableStep, BufferStep, MonitorStep, MixStep
     DEF IInv, Typed, TypeOK, FlagType, MessageType, MonitorType, PeerType, BufferType,
         StopType
<1> QED
  BY <1>1, <1>2, PTL DEF Spec

\* Every reachable state of the way from the microphones to the mix is well typed.
THEOREM TypeCorrect == Spec => []TypeOK
PROOF
<1>1. IInv => TypeOK
  BY DEF IInv
<1> QED
  BY <1>1, Inductive, PTL

\* Whoever is in a call that is read is in the mix or its audio is awaited, but for the known
\* losses, for any number of participants whose offers, joins and departures interleave
\* (spreed_client.py:1096-1180).
THEOREM Mixed == Spec => []EveryoneIsMixed
PROOF
<1>1. IInv => EveryoneIsMixed
  BY DEF IInv, MixInv
<1> QED
  BY <1>1, Inductive, PTL

\* A connection at work is in the table or about to be closed, but for those that the failure
\* of another took out of it (spreed_client.py:1150).
THEOREM NoStray == Spec => []NoStrayConnection
PROOF
<1>1. IInv => NoStrayConnection
  BY DEF IInv, TableInv
<1> QED
  BY <1>1, Inductive, PTL
==============================================================================
