------------------------------ MODULE TokenCache ------------------------------
(***************************************************************************)
(* The access token every request to Korsi carries (lib/korsi_client.py):  *)
(* cached, minted anew shortly before it expires, forgotten when Korsi     *)
(* rejects it, with one retry.                                             *)
(*                                                                         *)
(* The requests are tasks of one event loop: the watchlist poll, the       *)
(* segmenter, the asks, the renewals.  A request that has ended begins     *)
(* again.  What waits on the network ends at its deadline.  The identity   *)
(* provider and Korsi are external: the one says how long its tokens live  *)
(* and keeps its word unless its keys are rotated, the other rejects a     *)
(* token that is dead.                                                     *)
(***************************************************************************)
EXTENDS Integers, FiniteSets, Sequences

CONSTANTS
  Requests, \* the tasks that call korsi-api
  None,
  Timeout,  \* the longest a request may take (REQUEST_TIMEOUT_SECONDS for each of its waits)
  Margin,   \* TOKEN_REFRESH_MARGIN_SECONDS
  Life,     \* expires_in
  MaxTime,  \* bound: the clock
  MaxMints  \* bound: tokens minted

ASSUME TokenAssumption ==
  /\ None \notin Requests
  /\ Timeout \in Nat \ {0} /\ Margin \in Nat /\ Life \in Nat
  /\ Timeout <= Margin
  /\ 2 * Timeout < Life
  /\ MaxTime \in Nat /\ MaxMints \in Nat

VARIABLES
  now,      \* loop.time()
  token,    \* _token, 0 for None
  expires,  \* _token_expires_at
  lock,     \* _token_lock: the request that holds it across its mint
  queue,    \* the requests that wait for the lock, first come first served
  pc,       \* where each request waits
  carried,  \* the token a request carries, or was given and not yet got
  rejected, \* the token a retried request was rejected with, 0 when it has its retry left
  deadline, \* when what a request waits for times out
  mints,    \* tokens the provider has issued: 1 .. mints
  dies,     \* when each token dies
  revoked   \* the tokens issued before the last key rotation

cache == <<token, expires, lock, queue>>
request == <<pc, carried, rejected, deadline>>
provider == <<mints, dies, revoked>>
vars == <<now, cache, request, provider>>

Tokens == 1 .. MaxMints

TypeOK ==
  /\ now \in 0 .. MaxTime
  /\ token \in 0 .. mints
  /\ expires \in Int
  /\ lock \in Requests \cup {None}
  /\ queue \in Seq(Requests)
  /\ pc \in [Requests -> {"idle", "wanting", "minting", "issued", "sent"}]
  /\ carried \in [Requests -> 0 .. mints]
  /\ rejected \in [Requests -> 0 .. mints]
  /\ deadline \in [Requests -> 0 .. (MaxTime + Timeout)]
  /\ mints \in 0 .. MaxMints
  /\ dies \in [Tokens -> Nat]
  /\ revoked \in SUBSET Tokens

Init ==
  /\ now = 0
  /\ token = 0 /\ expires = 0 /\ lock = None /\ queue = <<>>
  /\ pc = [r \in Requests |-> "idle"]
  /\ carried = [r \in Requests |-> 0]
  /\ rejected = [r \in Requests |-> 0]
  /\ deadline = [r \in Requests |-> 0]
  /\ mints = 0
  /\ dies = [t \in Tokens |-> 0]
  /\ revoked = {}

OnTheNetwork == {r \in Requests : pc[r] \in {"minting", "issued", "sent"}}

\* Time passes, never beyond a deadline.
Tick ==
  /\ now < MaxTime
  /\ \A r \in OnTheNetwork : now < deadline[r]
  /\ now' = now + 1
  /\ UNCHANGED <<cache, request, provider>>

Rotate ==
  /\ revoked # 1 .. mints
  /\ revoked' = 1 .. mints
  /\ UNCHANGED <<now, cache, request, mints, dies>>

------------------------------------------------------------------------------
(* _bearer.                                                                *)

\* Mutant: a token is used until the moment it expires.
FreshToTheEnd == token # 0 /\ now < expires

Fresh == token # 0 /\ now < expires - Margin

LockFree == lock = None /\ queue = <<>>

\* Mutant: the lock is let go of before the mint.
TakeNoLock(r) == UNCHANGED lock

TakeLock(r) == lock' = r

Go(r, where) ==
  /\ pc' = [pc EXCEPT ![r] = where]
  /\ deadline' = [deadline EXCEPT ![r] = now + Timeout]

\* Under the lock: the cached token while it is fresh, or a mint.  A request leaves with
\* its token at once.
SendOrMint(r) ==
  IF Fresh
  THEN /\ Go(r, "sent")
       /\ carried' = [carried EXCEPT ![r] = token]
       /\ UNCHANGED lock
  ELSE /\ Go(r, "minting")
       /\ TakeLock(r)
       /\ UNCHANGED carried

Queue(r) ==
  /\ pc' = [pc EXCEPT ![r] = "wanting"]
  /\ queue' = Append(queue, r)
  /\ deadline' = [deadline EXCEPT ![r] = 0]
  /\ UNCHANGED lock

Bearer(r) ==
  IF LockFree
  THEN SendOrMint(r) /\ UNCHANGED queue
  ELSE Queue(r) /\ UNCHANGED carried

Begin(r) ==
  /\ pc[r] = "idle"
  /\ Bearer(r)
  /\ UNCHANGED <<now, token, expires, rejected, provider>>

LockComes(r) ==
  /\ lock = None
  /\ queue # <<>> /\ r = Head(queue)
  /\ queue' = Tail(queue)
  /\ SendOrMint(r)
  /\ UNCHANGED <<now, token, expires, rejected, provider>>

\* The provider issues a token; the answer is on its way.
Issue(r) ==
  /\ pc[r] = "minting"
  /\ mints < MaxMints
  /\ mints' = mints + 1
  /\ dies' = [dies EXCEPT ![mints + 1] = now + Life]
  /\ pc' = [pc EXCEPT ![r] = "issued"]
  /\ carried' = [carried EXCEPT ![r] = mints + 1]
  /\ UNCHANGED <<now, cache, rejected, deadline, revoked>>

\* Mutant: the life of a token is counted from the answer, with the wait for it added.
CountFromDeadline(r) == deadline[r] + Life

\* The life of a token is counted from before it was asked for.
CountFromStart(r) == deadline[r] - Timeout + Life

\* The answer is here: the token is cached, the lock let go of, and the request leaves.
Minted(r) ==
  /\ pc[r] = "issued"
  /\ token' = carried[r]
  /\ expires' = CountFromStart(r)
  /\ lock' = None
  /\ Go(r, "sent")
  /\ UNCHANGED <<now, queue, carried, rejected, provider>>

\* A request is over and leaves nothing of its own behind.
Rest(r) ==
  /\ pc' = [pc EXCEPT ![r] = "idle"]
  /\ carried' = [carried EXCEPT ![r] = 0]
  /\ rejected' = [rejected EXCEPT ![r] = 0]
  /\ deadline' = [deadline EXCEPT ![r] = 0]

\* Mutant: a mint that fails keeps the lock.
KeepLock == UNCHANGED lock

LetGoOfLock == lock' = None

\* No answer, a refusal, or an answer without a token.
MintFails(r) ==
  /\ pc[r] \in {"minting", "issued"}
  /\ LetGoOfLock
  /\ Rest(r)
  /\ UNCHANGED <<now, token, expires, queue, provider>>

------------------------------------------------------------------------------
(* _request.                                                               *)

Dead(t) == t \in revoked \/ now >= dies[t]

\* Korsi answers, or the request fails on its way: its caller decides what to do.
Ends(r) ==
  /\ pc[r] = "sent"
  /\ Rest(r)
  /\ UNCHANGED <<now, cache, provider>>

\* Mutant: the rejected token stays in the cache.
ForgetNothing == UNCHANGED <<token, expires>>

ForgetToken == token' = 0 /\ expires' = 0

\* A first 401: forget the cached token, whichever it is now, and try once more.
Retry(r) ==
  /\ pc[r] = "sent"
  /\ rejected[r] = 0
  /\ Dead(carried[r])
  /\ ForgetToken
  /\ rejected' = [rejected EXCEPT ![r] = carried[r]]
  /\ IF LockFree
     THEN Go(r, "minting") /\ TakeLock(r) /\ UNCHANGED queue
     ELSE Queue(r)
  /\ UNCHANGED <<now, carried, provider>>

------------------------------------------------------------------------------
Steps(r) == \/ LockComes(r) \/ Minted(r) \/ MintFails(r) \/ Ends(r) \/ Retry(r)

Next == Tick \/ Rotate \/ \E r \in Requests : Begin(r) \/ Issue(r) \/ Steps(r)

\* What is on the network ends, at the latest at its deadline.
Fairness == \A r \in Requests : WF_vars(Steps(r))

Spec == Init /\ [][Next]_vars

FairSpec == Spec /\ Fairness

------------------------------------------------------------------------------
(* Properties.                                                             *)

\* korsi_client.py:59-60: no request in flight dies of an expiry it was issued under.
InFlightAlive ==
  \A r \in Requests : pc[r] = "sent" => deadline[r] <= dies[carried[r]]

\* The cache never believes a token to live longer than it does.
CacheIsCautious == token # 0 => expires <= dies[token]

\* A retry never carries the token that was rejected, whatever the others mint, cache and
\* forget between the rejection and the retry.
RetryWithAnother ==
  \A r \in Requests : pc[r] = "sent" => carried[r] # rejected[r]

\* korsi_client.py:151-153: requests that notice the expiry together do not mint together.
OneMintAtATime == Cardinality({r \in Requests : pc[r] \in {"minting", "issued"}}) <= 1

\* No request waits for ever, for the lock or for its one retry.
RequestsEnd == \A r \in Requests : pc[r] # "idle" ~> pc[r] = "idle"
==============================================================================
