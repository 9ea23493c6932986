------------------------------ MODULE MCWatcher ------------------------------
(***************************************************************************)
(* The instance of Watcher that TLC checks, and with it, over bounded      *)
(* inputs, the functions of what the process is configured with and        *)
(* reports: the service key, the ICE servers, the self-test, the log.      *)
(***************************************************************************)
EXTENDS Watcher, SelfTest, ServiceKey, LogTail

All == KORSI_REQUIRED_VARS \cup HPB_REQUIRED_VARS

Good == [set |-> All, empty |-> {}, urls |-> Urls, keyLoads |-> TRUE, roles |-> TRUE]

\* A key the deployment layer has ruined.
Bad == [Good EXCEPT !.keyLoads = FALSE]

MCEnvs == {Good, Bad}

\* service_key.py:25-30: every key comes back from every damage of its line breaks.
ASSUME KeysAreRecovered ==
  \A key \in BoundedSeq({"A", "n", "r"}, 4), damage \in Damages : Recovers(key, damage)

\* diagnostics.py:224-229: the newest lines at or above the level, newest last, as many as
\* were asked for.
ASSUME TailIsTheEnd ==
  \A file \in BoundedSeq(Lines \ {"ERROR", "CRITICAL"}, 4), lines \in 0..4,
     min_level \in {"INFO", "WARNING", "nonsense"} :
    tail_log(file, lines, min_level) = LastOf(file, lines, min_level)

Talks ==
  [stunservers : BoundedSeq([urls : SUBSET IceUrls], 1),
   turnservers : BoundedSeq([urls : SUBSET IceUrls, credential : Credentials], 2)]

\* ice_config.py:42-50: the description is of the servers that are used.
ASSUME DescriptionIsOfTheServers ==
  \A talk \in Talks, ice \in Overrides :
    LET d == Description(talk, ice) IN
    /\ d.stun \cup d.turn = UNION {s.urls : s \in resolve_ice_servers(talk, ice)}
    /\ d.stun_source = "none" <=> d.stun = {}
    /\ d.turn_source = "override" => talk.turnservers # <<>>
==============================================================================
