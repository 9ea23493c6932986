---------------------------- MODULE SessionLedger ----------------------------
(***************************************************************************)
(* What the bridge promises of the live sessions of one room, without      *)
(* saying which task keeps the promise: one session at a time is being     *)
(* opened or read, and only that one gets a speech connection; a session   *)
(* that is no longer read is ended; and Korsi is told of its end once,     *)
(* when its speech connection is gone.  A session is read at most once.    *)
(*                                                                         *)
(* RoomReading implements this module.                                     *)
(***************************************************************************)
EXTENDS Naturals

CONSTANT Sessions

VARIABLES
  opening,  \* the session whose speech connection is being opened, or was and failed
  read,     \* the session that is read
  ending,   \* the sessions being ended
  speech,   \* [session -> whether it has a speech connection]
  closes    \* [session -> how often Korsi was told of its end]

vars == <<opening, read, ending, speech, closes>>

Init == /\ opening = {} /\ read = {} /\ ending = {}
        /\ speech = [s \in Sessions |-> FALSE]
        /\ closes = [s \in Sessions |-> 0]

\* Korsi is told, once and with nothing left that could still speak.
Tell(s) == /\ closes[s] = 0 /\ closes' = [closes EXCEPT ![s] = 1]
           /\ ~speech[s]

Open(s) ==
  /\ opening = {} /\ read = {}
  /\ s \notin ending /\ closes[s] = 0
  /\ opening' = {s}
  /\ UNCHANGED <<read, ending, speech, closes>>

Read(s) ==
  /\ opening = {s} /\ opening' = {}
  /\ read' = {s}
  /\ speech' = [speech EXCEPT ![s] = TRUE]
  /\ UNCHANGED <<ending, closes>>

GiveUp(s) ==
  /\ opening = {s} /\ opening' = {}
  /\ Tell(s)
  /\ UNCHANGED <<read, ending, speech>>

LetGo(s) ==
  /\ read = {s} /\ read' = {}
  /\ ending' = ending \cup {s}
  /\ UNCHANGED <<opening, speech, closes>>

HangUp(s) ==
  /\ s \in ending
  /\ speech' = [speech EXCEPT ![s] = FALSE]
  /\ UNCHANGED <<opening, read, ending, closes>>

Close(s) ==
  /\ s \in ending /\ ending' = ending \ {s}
  /\ Tell(s)
  /\ UNCHANGED <<opening, read, speech>>

Next == \E s \in Sessions :
          Open(s) \/ Read(s) \/ GiveUp(s) \/ LetGo(s) \/ HangUp(s) \/ Close(s)

Spec == Init /\ [][Next]_vars
==============================================================================
