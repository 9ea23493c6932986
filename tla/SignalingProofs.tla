--------------------------- MODULE SignalingProofs ---------------------------
(***************************************************************************)
(* Theorems about Signaling: a client that hears nothing is given up, for  *)
(* any number of reconnect tasks and whatever the HPB answers.             *)
(***************************************************************************)
EXTENDS Signaling, TLAPS

\* A client that is not connected yet, or not there, has nothing running.
FreshInv ==
  /\ watcher \in {"opening", "hello"} \/ ~held =>
       /\ monitor = "none" /\ closeTask = "none" /\ ~defunct /\ ~stumbled
       /\ \A t \in Tasks : task[t] = "idle"
  /\ watcher \in {"opening", "hello"} => held

\* A monitor that ended was closed, asked for a close, or died of an exception that a message
\* caused; a close that ran marked the client.
DeafInv ==
  /\ watcher = "polling" /\ held => monitor # "none"
  /\ watcher # "dead" /\ monitor = "ended" => defunct \/ closeTask = "created" \/ stumbled
  /\ closeTask = "done" => defunct

IInv == TypeOK /\ FreshInv /\ DeafInv

\* TypeOK, in the parts that change together.
ClientType ==
  /\ watcher \in {"polling", "opening", "hello", "dead"}
  /\ server \in {"none", "open", "lost"}
  /\ monitor \in {"none", "receiving", "answering", "pausing", "ended"}
  /\ closeTask \in {"none", "created", "done"}

FlagType == held \in BOOLEAN /\ defunct \in BOOLEAN /\ stumbled \in BOOLEAN

TaskType ==
  /\ task \in [Tasks -> {"idle", "new", "opening", "resuming", "retrying"}]
  /\ method \in [Tasks -> {"short", "full"}]
  /\ ref \in Tasks \cup {None}

\* No client yet.
LEMMA Initially ==
  ASSUME Init
  PROVE  IInv
PROOF
<1>1. FlagType
  BY Zenon DEF Init, FlagType
<1>2. ClientType /\ TaskType
  BY DEF Init, ClientType, TaskType
<1>3. FreshInv /\ DeafInv
  BY DEF Init, FreshInv, DeafInv
<1> QED
  BY <1>1, <1>2, <1>3 DEF IInv, TypeOK, FlagType, ClientType, TaskType

\* Each action keeps the types.
LEMMA TypeStep ==
  ASSUME IInv, [Next]_vars
  PROVE  ClientType' /\ FlagType' /\ TaskType'
PROOF
<1> USE DEF monitoring, connecting, ending, client
<1>1. ASSUME SocketLost PROVE ClientType' /\ FlagType' /\ TaskType'
  <2>1. ClientType'
    BY <1>1 DEF SocketLost, IInv, TypeOK, ClientType
  <2>2. FlagType'
    BY <1>1 DEF SocketLost, IInv, TypeOK, FlagType
  <2>3. TaskType'
    BY <1>1 DEF SocketLost, IInv, TypeOK, TaskType
  <2> QED
    BY <2>1, <2>2, <2>3
<1>2. ASSUME NEW t \in Tasks, SendFails(t) PROVE ClientType' /\ FlagType' /\ TaskType'
  <2>1. ClientType'
    BY <1>2 DEF SendFails, IInv, TypeOK, ClientType
  <2>2. FlagType'
    BY <1>2 DEF SendFails, IInv, TypeOK, FlagType
  <2>3. TaskType'
    BY <1>2
       DEF SendFails, ReconnectUnlessPending, CreateReconnect, Become, IInv, TypeOK, TaskType
  <2> QED
    BY <2>1, <2>2, <2>3
<1>3. ASSUME Watch PROVE ClientType' /\ FlagType' /\ TaskType'
  <2>1. ClientType'
    BY <1>3 DEF Watch, IInv, TypeOK, ClientType
  <2>2. FlagType'
    BY <1>3 DEF Watch, IInv, TypeOK, FlagType
  <2>3. TaskType'
    BY <1>3 DEF Watch, IInv, TypeOK, TaskType
  <2> QED
    BY <2>1, <2>2, <2>3
<1>4. ASSUME WatchFails PROVE ClientType' /\ FlagType' /\ TaskType'
  <2>1. ClientType'
    BY <1>4 DEF WatchFails, LetGo, ClientType
  <2>2. FlagType'
    BY <1>4 DEF WatchFails, LetGo, FlagType
  <2>3. TaskType'
    BY <1>4 DEF WatchFails, LetGo, TaskType
  <2> QED
    BY <2>1, <2>2, <2>3
<1>5. ASSUME WatchOpens PROVE ClientType' /\ FlagType' /\ TaskType'
  <2>1. ClientType'
    BY <1>5 DEF WatchOpens, IInv, TypeOK, ClientType
  <2>2. FlagType'
    BY <1>5 DEF WatchOpens, IInv, TypeOK, FlagType
  <2>3. TaskType'
    BY <1>5 DEF WatchOpens, IInv, TypeOK, TaskType
  <2> QED
    BY <2>1, <2>2, <2>3
<1>6. ASSUME WatchSucceeds PROVE ClientType' /\ FlagType' /\ TaskType'
  <2>1. ClientType'
    BY <1>6 DEF WatchSucceeds, IInv, TypeOK, ClientType
  <2>2. FlagType'
    BY <1>6 DEF WatchSucceeds, IInv, TypeOK, FlagType
  <2>3. TaskType'
    BY <1>6 DEF WatchSucceeds, IInv, TypeOK, TaskType
  <2> QED
    BY <2>1, <2>2, <2>3
<1>7. ASSUME NEW t \in Tasks, WatchRaises(t) PROVE ClientType' /\ FlagType' /\ TaskType'
  <2>1. ClientType'
    BY <1>7 DEF WatchRaises, IInv, TypeOK, ClientType
  <2>2. FlagType'
    BY <1>7 DEF WatchRaises, IInv, TypeOK, FlagType
  <2>3. TaskType'
    BY <1>7
       DEF WatchRaises, ReconnectUnlessPending, CreateReconnect, Become, IInv, TypeOK,
           TaskType
  <2> QED
    BY <2>1, <2>2, <2>3
<1>8. ASSUME Replace PROVE ClientType' /\ FlagType' /\ TaskType'
  <2>1. ClientType'
    BY <1>8 DEF Replace, LetGo, ClientType
  <2>2. FlagType'
    BY <1>8 DEF Replace, LetGo, FlagType
  <2>3. TaskType'
    BY <1>8 DEF Replace, LetGo, TaskType
  <2> QED
    BY <2>1, <2>2, <2>3
<1>9. ASSUME Unwatch PROVE ClientType' /\ FlagType' /\ TaskType'
  <2>1. ClientType'
    BY <1>9 DEF Unwatch, LetGo, ClientType
  <2>2. FlagType'
    BY <1>9 DEF Unwatch, LetGo, FlagType
  <2>3. TaskType'
    BY <1>9 DEF Unwatch, LetGo, TaskType
  <2> QED
    BY <2>1, <2>2, <2>3
<1>10. ASSUME Offered PROVE ClientType' /\ FlagType' /\ TaskType'
  <2>1. ClientType'
    BY <1>10 DEF Offered, IInv, TypeOK, ClientType
  <2>2. FlagType'
    BY <1>10 DEF Offered, IInv, TypeOK, FlagType
  <2>3. TaskType'
    BY <1>10 DEF Offered, IInv, TypeOK, TaskType
  <2> QED
    BY <2>1, <2>2, <2>3
<1>11. ASSUME NEW t \in Tasks, Answered(t) PROVE ClientType' /\ FlagType' /\ TaskType'
  <2>1. ClientType'
    BY <1>11 DEF Answered, Listen, IInv, TypeOK, ClientType
  <2>2. FlagType'
    BY <1>11 DEF Answered, IInv, TypeOK, FlagType
  <2>3. TaskType'
    BY <1>11
       DEF Answered, Listen, ReconnectUnlessPending, CreateReconnect, Become, IInv, TypeOK,
           TaskType
  <2> QED
    BY <2>1, <2>2, <2>3
<1>12. ASSUME Stumbles PROVE ClientType' /\ FlagType' /\ TaskType'
  <2>1. ClientType'
    BY <1>12 DEF Stumbles, IInv, TypeOK, ClientType
  <2>2. FlagType'
    BY <1>12 DEF Stumbles, IInv, TypeOK, FlagType
  <2>3. TaskType'
    BY <1>12 DEF Stumbles, IInv, TypeOK, TaskType
  <2> QED
    BY <2>1, <2>2, <2>3
<1>13. ASSUME SaysBye PROVE ClientType' /\ FlagType' /\ TaskType'
  <2>1. ClientType'
    BY <1>13 DEF SaysBye, CreateClose, IInv, TypeOK, ClientType
  <2>2. FlagType'
    BY <1>13 DEF SaysBye, IInv, TypeOK, FlagType
  <2>3. TaskType'
    BY <1>13 DEF SaysBye, IInv, TypeOK, TaskType
  <2> QED
    BY <2>1, <2>2, <2>3
<1>14. ASSUME SaysError PROVE ClientType' /\ FlagType' /\ TaskType'
  <2>1. ClientType'
    BY <1>14 DEF SaysError, CreateClose, IInv, TypeOK, ClientType
  <2>2. FlagType'
    BY <1>14 DEF SaysError, IInv, TypeOK, FlagType
  <2>3. TaskType'
    BY <1>14 DEF SaysError, IInv, TypeOK, TaskType
  <2> QED
    BY <2>1, <2>2, <2>3
<1>15. ASSUME NEW t \in Tasks, MonitorLost(t) PROVE ClientType' /\ FlagType' /\ TaskType'
  <2>1. ClientType'
    BY <1>15 DEF MonitorLost, IInv, TypeOK, ClientType
  <2>2. FlagType'
    BY <1>15 DEF MonitorLost, IInv, TypeOK, FlagType
  <2>3. TaskType'
    BY <1>15
       DEF MonitorLost, ReconnectUnlessPending, CreateReconnect, Become, IInv, TypeOK,
           TaskType
  <2> QED
    BY <2>1, <2>2, <2>3
<1>16. ASSUME NEW t \in Tasks, MonitorWakes(t) PROVE ClientType' /\ FlagType' /\ TaskType'
  <2>1. ClientType'
    BY <1>16 DEF MonitorWakes, Listen, IInv, TypeOK, ClientType
  <2>2. FlagType'
    BY <1>16 DEF MonitorWakes, IInv, TypeOK, FlagType
  <2>3. TaskType'
    BY <1>16
       DEF MonitorWakes, Listen, ReconnectUnlessPending, CreateReconnect, Become, IInv, TypeOK,
           TaskType
  <2> QED
    BY <2>1, <2>2, <2>3
<1>17. ASSUME NEW t \in Tasks, TaskBegins(t) PROVE ClientType' /\ FlagType' /\ TaskType'
  <2>1. ClientType'
    BY <1>17 DEF TaskBegins, IInv, TypeOK, ClientType
  <2>2. FlagType'
    BY <1>17 DEF TaskBegins, IInv, TypeOK, FlagType
  <2>3. TaskType'
    BY <1>17 DEF TaskBegins, IInv, TypeOK, TaskType
  <2> QED
    BY <2>1, <2>2, <2>3
<1>18. ASSUME NEW t \in Tasks, OpenFails(t) PROVE ClientType' /\ FlagType' /\ TaskType'
  <2>1. ClientType'
    BY <1>18 DEF OpenFails, IInv, TypeOK, ClientType
  <2>2. FlagType'
    BY <1>18 DEF OpenFails, IInv, TypeOK, FlagType
  <2>3. TaskType'
    BY <1>18 DEF OpenFails, CreateReconnect, Become, IInv, TypeOK, TaskType
  <2> QED
    BY <2>1, <2>2, <2>3
<1>19. ASSUME NEW t \in Tasks, ShortOpens(t) PROVE ClientType' /\ FlagType' /\ TaskType'
  <2>1. ClientType'
    BY <1>19 DEF ShortOpens, IInv, TypeOK, ClientType
  <2>2. FlagType'
    BY <1>19 DEF ShortOpens, IInv, TypeOK, FlagType
  <2>3. TaskType'
    BY <1>19 DEF ShortOpens, IInv, TypeOK, TaskType
  <2> QED
    BY <2>1, <2>2, <2>3
<1>20. ASSUME NEW t \in Tasks, Resumed(t) PROVE ClientType' /\ FlagType' /\ TaskType'
  <2>1. ClientType'
    BY <1>20 DEF Resumed, IInv, TypeOK, ClientType
  <2>2. FlagType'
    BY <1>20 DEF Resumed, IInv, TypeOK, FlagType
  <2>3. TaskType'
    BY <1>20 DEF Resumed, IInv, TypeOK, TaskType
  <2> QED
    BY <2>1, <2>2, <2>3
<1>21. ASSUME NEW t \in Tasks, ResumeRefused(t) PROVE ClientType' /\ FlagType' /\ TaskType'
  <2>1. ClientType'
    BY <1>21 DEF ResumeRefused, IInv, TypeOK, ClientType
  <2>2. FlagType'
    BY <1>21 DEF ResumeRefused, IInv, TypeOK, FlagType
  <2>3. TaskType'
    BY <1>21 DEF ResumeRefused, IInv, TypeOK, TaskType
  <2> QED
    BY <2>1, <2>2, <2>3
<1>22. ASSUME NEW t \in Tasks, Retry(t) PROVE ClientType' /\ FlagType' /\ TaskType'
  <2>1. ClientType'
    BY <1>22 DEF Retry, IInv, TypeOK, ClientType
  <2>2. FlagType'
    BY <1>22 DEF Retry, IInv, TypeOK, FlagType
  <2>3. TaskType'
    BY <1>22 DEF Retry, CreateReconnect, Become, IInv, TypeOK, TaskType
  <2> QED
    BY <2>1, <2>2, <2>3
<1>23. ASSUME NEW t \in Tasks, RateLimited(t) PROVE ClientType' /\ FlagType' /\ TaskType'
  <2>1. ClientType'
    BY <1>23 DEF RateLimited, CreateClose, IInv, TypeOK, ClientType
  <2>2. FlagType'
    BY <1>23 DEF RateLimited, IInv, TypeOK, FlagType
  <2>3. TaskType'
    BY <1>23 DEF RateLimited, IInv, TypeOK, TaskType
  <2> QED
    BY <2>1, <2>2, <2>3
<1>24. ASSUME NEW t \in Tasks, ResumeRaises(t) PROVE ClientType' /\ FlagType' /\ TaskType'
  <2>1. ClientType'
    BY <1>24 DEF ResumeRaises, IInv, TypeOK, ClientType
  <2>2. FlagType'
    BY <1>24 DEF ResumeRaises, IInv, TypeOK, FlagType
  <2>3. TaskType'
    BY <1>24 DEF ResumeRaises, CreateReconnect, Become, IInv, TypeOK, TaskType
  <2> QED
    BY <2>1, <2>2, <2>3
<1>25. ASSUME NEW t \in Tasks, FullOpens(t) PROVE ClientType' /\ FlagType' /\ TaskType'
  <2>1. ClientType'
    BY <1>25 DEF FullOpens, LoseServer, StopMonitor, CreateClose, IInv, TypeOK, ClientType
  <2>2. FlagType'
    BY <1>25 DEF FullOpens, LoseServer, IInv, TypeOK, FlagType
  <2>3. TaskType'
    BY <1>25 DEF FullOpens, IInv, TypeOK, TaskType
  <2> QED
    BY <2>1, <2>2, <2>3
<1>26. ASSUME NEW t \in Tasks, CloseRuns(t) PROVE ClientType' /\ FlagType' /\ TaskType'
  <2>1. ClientType'
    BY <1>26 DEF CloseRuns, StopMonitor, IInv, TypeOK, ClientType
  <2>2. FlagType'
    BY <1>26 DEF CloseRuns, IInv, TypeOK, FlagType
  <2>3. TaskType'
    BY <1>26 DEF CloseRuns, CreateReconnect, Become, IInv, TypeOK, TaskType
  <2> QED
    BY <2>1, <2>2, <2>3
<1>27. ASSUME UNCHANGED vars PROVE ClientType' /\ FlagType' /\ TaskType'
  <2>1. ClientType'
    BY <1>27 DEF vars, IInv, TypeOK, ClientType
  <2>2. FlagType'
    BY <1>27 DEF vars, IInv, TypeOK, FlagType
  <2>3. TaskType'
    BY <1>27 DEF vars, IInv, TypeOK, TaskType
  <2> QED
    BY <2>1, <2>2, <2>3
<1>28. ASSUME Chokes PROVE ClientType' /\ FlagType' /\ TaskType'
  <2>1. ClientType'
    BY <1>28 DEF Chokes, IInv, TypeOK, ClientType
  <2>2. FlagType'
    BY <1>28 DEF Chokes, IInv, TypeOK, FlagType
  <2>3. TaskType'
    BY <1>28 DEF Chokes, IInv, TypeOK, TaskType
  <2> QED
    BY <2>1, <2>2, <2>3
<1> QED
  BY <1>1, <1>2, <1>3, <1>4, <1>5, <1>6, <1>7, <1>8, <1>9, <1>10, <1>11, <1>12, <1>13, <1>14,
     <1>15, <1>16, <1>17, <1>18, <1>19, <1>20, <1>21, <1>22, <1>23, <1>24, <1>25, <1>26, <1>27,
     <1>28
     DEF Next, Network, WatchSteps, Monitoring, HPB, Connecting, Closing

\* Each action that ends the monitor marks the client, asks for a close, or records the
\* exception; a recv() refused while a resume reads ends nothing.
LEMMA HearingStep ==
  ASSUME IInv, [Next]_vars
  PROVE  FreshInv' /\ DeafInv'
PROOF
<1> USE DEF monitoring, connecting, ending, client
<1>1. ASSUME SocketLost PROVE FreshInv' /\ DeafInv'
  <2>1. FreshInv'
    BY <1>1 DEF SocketLost, IInv, FreshInv
  <2>2. DeafInv'
    BY <1>1 DEF SocketLost, IInv, DeafInv
  <2> QED
    BY <2>1, <2>2
<1>2. ASSUME NEW t \in Tasks, SendFails(t) PROVE FreshInv' /\ DeafInv'
  <2>1. FreshInv'
    BY <1>2 DEF SendFails, IInv, FreshInv
  <2>2. DeafInv'
    BY <1>2 DEF SendFails, IInv, DeafInv
  <2> QED
    BY <2>1, <2>2
<1>3. ASSUME Watch PROVE FreshInv' /\ DeafInv'
  <2>1. FreshInv'
    BY <1>3 DEF Watch, IInv, FreshInv
  <2>2. DeafInv'
    BY <1>3 DEF Watch, IInv, DeafInv
  <2> QED
    BY <2>1, <2>2
<1>4. ASSUME WatchFails PROVE FreshInv' /\ DeafInv'
  <2>1. FreshInv'
    BY <1>4 DEF WatchFails, LetGo, FreshInv
  <2>2. DeafInv'
    BY <1>4 DEF WatchFails, LetGo, DeafInv
  <2> QED
    BY <2>1, <2>2
<1>5. ASSUME WatchOpens PROVE FreshInv' /\ DeafInv'
  <2>1. FreshInv'
    BY <1>5 DEF WatchOpens, IInv, FreshInv
  <2>2. DeafInv'
    BY <1>5 DEF WatchOpens, IInv, DeafInv
  <2> QED
    BY <2>1, <2>2
<1>6. ASSUME WatchSucceeds PROVE FreshInv' /\ DeafInv'
  <2>1. FreshInv'
    BY <1>6 DEF WatchSucceeds, IInv, FreshInv
  <2>2. DeafInv'
    BY <1>6 DEF WatchSucceeds, IInv, FreshInv, DeafInv
  <2> QED
    BY <2>1, <2>2
<1>7. ASSUME NEW t \in Tasks, WatchRaises(t) PROVE FreshInv' /\ DeafInv'
  <2>1. FreshInv'
    BY <1>7 DEF WatchRaises, IInv, FreshInv
  <2>2. DeafInv'
    BY <1>7 DEF WatchRaises, IInv, DeafInv
  <2> QED
    BY <2>1, <2>2
<1>8. ASSUME Replace PROVE FreshInv' /\ DeafInv'
  <2>1. FreshInv'
    BY <1>8 DEF Replace, LetGo, FreshInv
  <2>2. DeafInv'
    BY <1>8 DEF Replace, LetGo, DeafInv
  <2> QED
    BY <2>1, <2>2
<1>9. ASSUME Unwatch PROVE FreshInv' /\ DeafInv'
  <2>1. FreshInv'
    BY <1>9 DEF Unwatch, LetGo, FreshInv
  <2>2. DeafInv'
    BY <1>9 DEF Unwatch, LetGo, DeafInv
  <2> QED
    BY <2>1, <2>2
<1>10. ASSUME Offered PROVE FreshInv' /\ DeafInv'
  <2>1. FreshInv'
    BY <1>10 DEF Offered, IInv, FreshInv
  <2>2. DeafInv'
    BY <1>10 DEF Offered, IInv, DeafInv
  <2> QED
    BY <2>1, <2>2
<1>11. ASSUME NEW t \in Tasks, Answered(t) PROVE FreshInv' /\ DeafInv'
  <2>1. FreshInv'
    BY <1>11 DEF Answered, Listen, IInv, FreshInv
  <2>2. DeafInv'
    BY <1>11 DEF Answered, Listen, IInv, DeafInv
  <2> QED
    BY <2>1, <2>2
<1>12. ASSUME Stumbles PROVE FreshInv' /\ DeafInv'
  <2>1. FreshInv'
    BY <1>12 DEF Stumbles, IInv, FreshInv
  <2>2. DeafInv'
    BY <1>12 DEF Stumbles, IInv, DeafInv
  <2> QED
    BY <2>1, <2>2
<1>13. ASSUME SaysBye PROVE FreshInv' /\ DeafInv'
  <2>1. FreshInv'
    BY <1>13 DEF SaysBye, IInv, FreshInv
  <2>2. DeafInv'
    BY <1>13 DEF SaysBye, CreateClose, IInv, DeafInv
  <2> QED
    BY <2>1, <2>2
<1>14. ASSUME SaysError PROVE FreshInv' /\ DeafInv'
  <2>1. FreshInv'
    BY <1>14 DEF SaysError, IInv, FreshInv
  <2>2. DeafInv'
    BY <1>14 DEF SaysError, CreateClose, IInv, TypeOK, DeafInv
  <2> QED
    BY <2>1, <2>2
<1>15. ASSUME NEW t \in Tasks, MonitorLost(t) PROVE FreshInv' /\ DeafInv'
  <2>1. FreshInv'
    BY <1>15 DEF MonitorLost, IInv, FreshInv
  <2>2. DeafInv'
    BY <1>15 DEF MonitorLost, IInv, DeafInv
  <2> QED
    BY <2>1, <2>2
<1>16. ASSUME NEW t \in Tasks, MonitorWakes(t) PROVE FreshInv' /\ DeafInv'
  <2>1. FreshInv'
    BY <1>16 DEF MonitorWakes, Listen, IInv, FreshInv
  <2>2. DeafInv'
    BY <1>16 DEF MonitorWakes, Listen, IInv, DeafInv
  <2> QED
    BY <2>1, <2>2
<1>17. ASSUME NEW t \in Tasks, TaskBegins(t) PROVE FreshInv' /\ DeafInv'
  <2>1. FreshInv'
    BY <1>17 DEF TaskBegins, IInv, FreshInv
  <2>2. DeafInv'
    BY <1>17 DEF TaskBegins, IInv, DeafInv
  <2> QED
    BY <2>1, <2>2
<1>18. ASSUME NEW t \in Tasks, OpenFails(t) PROVE FreshInv' /\ DeafInv'
  <2>1. FreshInv'
    BY <1>18 DEF OpenFails, IInv, FreshInv
  <2>2. DeafInv'
    BY <1>18 DEF OpenFails, IInv, DeafInv
  <2> QED
    BY <2>1, <2>2
<1>19. ASSUME NEW t \in Tasks, ShortOpens(t) PROVE FreshInv' /\ DeafInv'
  <2>1. FreshInv'
    BY <1>19 DEF ShortOpens, IInv, FreshInv
  <2>2. DeafInv'
    BY <1>19 DEF ShortOpens, IInv, DeafInv
  <2> QED
    BY <2>1, <2>2
<1>20. ASSUME NEW t \in Tasks, Resumed(t) PROVE FreshInv' /\ DeafInv'
  <2>1. FreshInv'
    BY <1>20 DEF Resumed, IInv, FreshInv
  <2>2. DeafInv'
    BY <1>20 DEF Resumed, IInv, DeafInv
  <2> QED
    BY <2>1, <2>2
<1>21. ASSUME NEW t \in Tasks, ResumeRefused(t) PROVE FreshInv' /\ DeafInv'
  <2>1. FreshInv'
    BY <1>21 DEF ResumeRefused, IInv, FreshInv
  <2>2. DeafInv'
    BY <1>21 DEF ResumeRefused, IInv, DeafInv
  <2> QED
    BY <2>1, <2>2
<1>22. ASSUME NEW t \in Tasks, Retry(t) PROVE FreshInv' /\ DeafInv'
  <2>1. FreshInv'
    BY <1>22 DEF Retry, IInv, FreshInv
  <2>2. DeafInv'
    BY <1>22 DEF Retry, IInv, DeafInv
  <2> QED
    BY <2>1, <2>2
<1>23. ASSUME NEW t \in Tasks, RateLimited(t) PROVE FreshInv' /\ DeafInv'
  <2>1. FreshInv'
    BY <1>23 DEF RateLimited, IInv, FreshInv
  <2>2. DeafInv'
    BY <1>23 DEF RateLimited, CreateClose, IInv, DeafInv
  <2> QED
    BY <2>1, <2>2
<1>24. ASSUME NEW t \in Tasks, ResumeRaises(t) PROVE FreshInv' /\ DeafInv'
  <2>1. FreshInv'
    BY <1>24 DEF ResumeRaises, IInv, FreshInv
  <2>2. DeafInv'
    BY <1>24 DEF ResumeRaises, IInv, DeafInv
  <2> QED
    BY <2>1, <2>2
<1>25. ASSUME NEW t \in Tasks, FullOpens(t) PROVE FreshInv' /\ DeafInv'
  <2>1. FreshInv'
    BY <1>25 DEF FullOpens, IInv, FreshInv
  <2>2. DeafInv'
    BY <1>25 DEF FullOpens, LoseServer, StopMonitor, IInv, DeafInv
  <2> QED
    BY <2>1, <2>2
<1>26. ASSUME NEW t \in Tasks, CloseRuns(t) PROVE FreshInv' /\ DeafInv'
  <2>1. FreshInv'
    BY <1>26 DEF CloseRuns, IInv, FreshInv
  <2>2. DeafInv'
    BY <1>26 DEF CloseRuns, StopMonitor, IInv, DeafInv
  <2> QED
    BY <2>1, <2>2
<1>27. ASSUME UNCHANGED vars PROVE FreshInv' /\ DeafInv'
  <2>1. FreshInv'
    BY <1>27 DEF vars, IInv, FreshInv
  <2>2. DeafInv'
    BY <1>27 DEF vars, IInv, DeafInv
  <2> QED
    BY <2>1, <2>2
<1>28. ASSUME Chokes PROVE FreshInv' /\ DeafInv'
  <2>1. FreshInv'
    BY <1>28 DEF Chokes, IInv, FreshInv
  <2>2. DeafInv'
    BY <1>28 DEF Chokes, IInv, DeafInv
  <2> QED
    BY <2>1, <2>2
<1> QED
  BY <1>1, <1>2, <1>3, <1>4, <1>5, <1>6, <1>7, <1>8, <1>9, <1>10, <1>11, <1>12, <1>13, <1>14,
     <1>15, <1>16, <1>17, <1>18, <1>19, <1>20, <1>21, <1>22, <1>23, <1>24, <1>25, <1>26, <1>27,
     <1>28
     DEF Next, Network, WatchSteps, Monitoring, HPB, Connecting, Closing

\* The inductive invariant of a signaling session: the types, a client that is not connected
\* yet runs nothing, and a monitor that is over has one of three explanations
\* (spreed_client.py:898-925, 1044-1094).
THEOREM Inductive == Spec => []IInv
PROOF
<1>1. Init => IInv
  BY Initially
<1>2. IInv /\ [Next]_vars => IInv'
  BY TypeStep, HearingStep DEF IInv, TypeOK, ClientType, FlagType, TaskType
<1> QED
  BY <1>1, <1>2, PTL DEF Spec

\* Every reachable state of a signaling session is well typed.
THEOREM TypeCorrect == Spec => []TypeOK
PROOF
<1>1. IInv => TypeOK
  BY DEF IInv
<1> QED
  BY <1>1, Inductive, PTL

\* A client that hears its room no more is defunct or about to be, however many reconnects are
\* under way and whichever of them reads the socket when the monitor does; unless its monitor
\* died of an exception that an offer or a candidate caused (spreed_client.py:1068, 1071-1085).
THEOREM DeafDefunct == Spec => []DeafIsDefunct
PROOF
<1>1. IInv => DeafIsDefunct
  BY DEF IInv, DeafInv, DeafIsDefunct, Deaf
<1> QED
  BY <1>1, Inductive, PTL
==============================================================================
