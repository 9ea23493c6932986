------------------------------ MODULE SelfTest -------------------------------
(***************************************************************************)
(* The self-test: what an administrator is told of the steps between "the  *)
(* app is enabled" and "Korsi is listening" (diagnostics.py self_test,     *)
(* korsi_client.py fresh_token_claims).  A world is what each step meets.  *)
(***************************************************************************)
EXTENDS Settings, IceConfig

CONSTANTS Roles, EXPECTED_ROLE

Worlds ==
  [env : Environments, ice : Overrides,
   readable : BOOLEAN,           \* Nextcloud answers with signaling settings ...
   talk : Offers,                \* ... and these are they
   token : BOOLEAN,              \* the identity provider issues a token ...
   roles : SUBSET Roles,         \* ... that asserts these roles
   answers : BOOLEAN,            \* Korsi answers for the watchlist ...
   enabled : BOOLEAN]            \* ... and live assistance is enabled

Steps == <<"configuration", "talk_signaling", "ice_servers", "korsi_token", "korsi_watchlist">>

\* _check: the outcome of a step is ok, failed, or that it was not attempted (None).
Check(name, ok) == [name |-> name, ok |-> IF ok THEN "ok" ELSE "failed"]

NotAttempted(name) == [name |-> name, ok |-> "None"]

\* _finish: steps that were skipped are listed and spoil the verdict.
Finish(checks, skipped) ==
  [ok |-> (\A i \in DOMAIN checks : checks[i].ok # "failed") /\ skipped = <<>>,
   checks |-> checks \o skipped]

\* _ice_check
IceCheck(w) == Check("ice_servers", Description(w.talk, w.ice).turn # {})

SettingsRead(w) == HpbConfigured(w.env) /\ w.readable

TalkChecks(w) ==
  IF SettingsRead(w)
  THEN <<Check("talk_signaling", TRUE), IceCheck(w)>>
  ELSE <<Check("talk_signaling", FALSE), NotAttempted("ice_servers")>>

\* _korsi_checks: the watchlist is asked for also with a token that lacks the role, which
\* Korsi refuses.
KorsiChecks(w) ==
  IF ~w.token
  THEN <<Check("korsi_token", FALSE), NotAttempted("korsi_watchlist")>>
  ELSE <<Check("korsi_token", EXPECTED_ROLE \in w.roles),
         Check("korsi_watchlist", w.answers /\ w.enabled)>>

self_test(w) ==
  LET configured == check_korsi_env_vars(w.env) = {}
      first == <<Check("configuration", configured)>>
  IN  IF ~configured
      THEN Finish(first, <<NotAttempted("talk_signaling"), NotAttempted("ice_servers"),
                           NotAttempted("korsi_token"), NotAttempted("korsi_watchlist")>>)
      ELSE IF ~ClientBuilds(w.env)
      THEN Finish(first \o TalkChecks(w) \o <<Check("korsi_token", FALSE)>>,
                  <<NotAttempted("korsi_watchlist")>>)
      ELSE Finish(first \o TalkChecks(w) \o KorsiChecks(w), <<>>)
==============================================================================
