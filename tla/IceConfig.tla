------------------------------ MODULE IceConfig ------------------------------
(***************************************************************************)
(* The ICE servers a peer connection gathers with: Talk's, or those an     *)
(* override of the environment puts in their place (ice_config.py).        *)
(* Lists of URLs are sets; the order of Talk's TURN servers matters, for   *)
(* an override borrows the credential of the first.                        *)
(***************************************************************************)
EXTENDS Naturals, Sequences

CONSTANTS
  IceUrls,      \* URLs of STUN and TURN servers
  Credentials,  \* the user names and passwords Talk mints
  NoCredential, \* of a STUN server
  Blank         \* an entry of an override that is empty once stripped

ASSUME IceAssumption ==
  /\ Blank \notin IceUrls
  /\ NoCredential \notin Credentials

StunServers == [urls : SUBSET IceUrls]
TurnServers == [urls : SUBSET IceUrls, credential : Credentials]

\* What Talk offers (HPBSettings), and the two variables of the environment.
Offers == [stunservers : Seq(StunServers), turnservers : Seq(TurnServers)]
Overrides == [stun : SUBSET (IceUrls \cup {Blank}), turn : SUBSET (IceUrls \cup {Blank})]

\* _configured_urls
Configured(entries) == entries \ {Blank}

AllUrls(servers) == UNION {servers[i].urls : i \in DOMAIN servers}

StunUrls(talk, env) ==
  IF Configured(env.stun) # {} THEN Configured(env.stun) ELSE AllUrls(talk.stunservers)

StunEntries(talk, env) ==
  IF StunUrls(talk, env) = {} THEN {}
  ELSE {[urls |-> StunUrls(talk, env), credential |-> NoCredential]}

\* The override moves the request, the credential is Talk's.
TurnEntries(talk, env) ==
  IF Configured(env.turn) = {}
  THEN {talk.turnservers[i] : i \in DOMAIN talk.turnservers}
  ELSE IF talk.turnservers = <<>> THEN {}
  ELSE {[urls |-> Configured(env.turn), credential |-> talk.turnservers[1].credential]}

\* No servers at all is None: aiortc falls back to its own.
resolve_ice_servers(talk, env) == StunEntries(talk, env) \cup TurnEntries(talk, env)

TurnUrls(talk, env) == UNION {s.urls : s \in TurnEntries(talk, env)}

\* _source
Source(override, resolved) ==
  IF resolved = {} THEN "none" ELSE IF override # {} THEN "override" ELSE "talk"

\* describe
Description(talk, env) ==
  [stun |-> StunUrls(talk, env),
   stun_source |-> Source(Configured(env.stun), StunUrls(talk, env)),
   turn |-> TurnUrls(talk, env),
   turn_source |-> Source(Configured(env.turn), TurnUrls(talk, env))]

\* describe(None)
NoDescription == [stun |-> {}, stun_source |-> "unknown", turn |-> {}, turn_source |-> "unknown"]
==============================================================================
