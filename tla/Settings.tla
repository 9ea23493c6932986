------------------------------ MODULE Settings -------------------------------
(***************************************************************************)
(* What the process is configured with, and who finds fault with it: the   *)
(* check of the Korsi settings that the enable handler, the status and the *)
(* self-test make (utils.py), and what the KorsiClient itself needs to be  *)
(* built (korsi_client.py).  An environment says which variables are set,  *)
(* which are URLs with a host, whether the service key can be loaded, and  *)
(* whether the scope asks for the roles.                                   *)
(***************************************************************************)

KORSI_REQUIRED_VARS ==
  {"KORSI_API_URL", "KORSI_TOKEN_URL", "KORSI_TOKEN_SCOPE", "KORSI_SERVICE_KEY"}

HPB_REQUIRED_VARS == {"LT_HPB_URL", "LT_INTERNAL_SECRET"}

Urls == {"KORSI_API_URL", "KORSI_TOKEN_URL", "LT_HPB_URL"}

\* A variable that is set and empty counts as not set here, and as set for os.environ[...].
Environments ==
  [set : SUBSET (KORSI_REQUIRED_VARS \cup HPB_REQUIRED_VARS),
   empty : SUBSET (KORSI_REQUIRED_VARS \cup HPB_REQUIRED_VARS),
   urls : SUBSET Urls, keyLoads : BOOLEAN, roles : BOOLEAN]

Given(env, var) == var \in env.set \ env.empty

\* check_korsi_env_vars: the problems it lists, in no order.
check_korsi_env_vars(env) ==
  {<<"missing", var>> : var \in {v \in KORSI_REQUIRED_VARS : ~Given(env, v)}}
  \cup {<<"not a URL", var>> : var \in {v \in {"KORSI_API_URL", "KORSI_TOKEN_URL"} :
                                         Given(env, v) /\ v \notin env.urls}}
  \cup {<<"service key", var>> : var \in {v \in {"KORSI_SERVICE_KEY"} :
                                           Given(env, v) /\ ~env.keyLoads}}
  \cup {<<"no roles", var>> : var \in {v \in {"KORSI_TOKEN_SCOPE"} :
                                        Given(env, v) /\ ~env.roles}}

\* check_hpb_env_vars raises, and with it get_hpb_settings, unless:
HpbConfigured(env) ==
  (\A v \in HPB_REQUIRED_VARS : Given(env, v)) /\ "LT_HPB_URL" \in env.urls

\* KorsiClient() takes each variable out of the environment and loads the service key; it
\* does not look at the other values.
ClientBuilds(env) ==
  /\ KORSI_REQUIRED_VARS \subseteq env.set
  /\ Given(env, "KORSI_SERVICE_KEY") /\ env.keyLoads
==============================================================================
