--------------------------- MODULE TokenCacheProofs ---------------------------
(***************************************************************************)
(* What the run of TokenCache shows for two requests and three tokens,     *)
(* proved for any: requests that share the cached token never send one     *)
(* that expires under way or that they were rejected with, and never mint  *)
(* together.  That every request ends is left to the run.                  *)
(***************************************************************************)
EXTENDS TokenCache, FiniteSetTheorems, TLAPS

Mints(r) == pc[r] \in {"minting", "issued"}

\* Whoever mints holds the lock.
LockInv == \A r \in Requests : Mints(r) <=> lock = r

\* A token on its way from the provider is the newest, and nobody else has seen it.
NewestInv ==
  \A r \in Requests : pc[r] = "issued" =>
    /\ carried[r] = mints
    /\ token < mints
    /\ \A q \in Requests : rejected[q] < mints /\ (q # r => carried[q] < mints)

\* A token that is cached was not rejected by anybody, and one that is sent is a token.
RejectedInv ==
  /\ \A r \in Requests : rejected[r] # 0 => token # rejected[r]
  /\ \A r \in Requests : pc[r] = "issued" \/ pc[r] = "sent" => carried[r] # 0
  /\ RetryWithAnother

\* What is on the network began a timeout before its deadline, or later.
Timely == \A r \in OnTheNetwork : deadline[r] - Timeout <= now /\ now <= deadline[r]

\* A token on its way lives at least as long as it will be cached.
IssuedLasts == \A r \in Requests : pc[r] = "issued" => CountFromStart(r) <= dies[carried[r]]

\* A token outlives what is made of it.
TimeInv ==
  /\ Timely
  /\ IssuedLasts
  /\ CacheIsCautious
  /\ InFlightAlive

IInv == TypeOK /\ LockInv /\ NewestInv /\ RejectedInv /\ TimeInv

(* What becomes of a request that asks for a token.                        *)

\* It has the cached one.
Sends(r) ==
  /\ Fresh /\ lock = None /\ lock' = None
  /\ Go(r, "sent") /\ carried' = [carried EXCEPT ![r] = token]

\* It mints one.
Locks(r) ==
  /\ lock = None /\ lock' = r
  /\ Go(r, "minting") /\ carried' = carried

\* It waits for the lock.
Waits(r) ==
  /\ pc[r] \in {"idle", "sent"} /\ lock' = lock
  /\ pc' = [pc EXCEPT ![r] = "wanting"] /\ carried' = carried
  /\ deadline' = [deadline EXCEPT ![r] = 0]
------------------------------------------------------------------------------
(* Types.                                                                  *)

\* Where a request goes next is one of the places it can wait, with a deadline in reach.
LEMMA GoTyped ==
  ASSUME TypeOK, NEW r \in Requests, NEW where \in {"minting", "sent"}, Go(r, where)
  PROVE  /\ pc' \in [Requests -> {"idle", "wanting", "minting", "issued", "sent"}]
         /\ deadline' \in [Requests -> 0 .. (MaxTime + Timeout)]
<1>1. now + Timeout \in 0 .. (MaxTime + Timeout)
  BY TokenAssumption DEF TypeOK
<1> QED  BY <1>1 DEF Go, TypeOK

\* A request at rest is well typed.
LEMMA RestTyped ==
  ASSUME TypeOK, NEW r \in Requests, Rest(r)
  PROVE  /\ pc' \in [Requests -> {"idle", "wanting", "minting", "issued", "sent"}]
         /\ carried' \in [Requests -> 0 .. mints]
         /\ rejected' \in [Requests -> 0 .. mints]
         /\ deadline' \in [Requests -> 0 .. (MaxTime + Timeout)]
<1>1. 0 \in 0 .. mints /\ 0 \in 0 .. (MaxTime + Timeout)
  BY TokenAssumption DEF TypeOK
<1> QED  BY <1>1 DEF Rest, TypeOK

LEMMA TypeStep == TypeOK /\ [Next]_vars => TypeOK'
<1> SUFFICES ASSUME TypeOK, [Next]_vars PROVE TypeOK'
  OBVIOUS
<1> USE TokenAssumption DEF cache, request, provider
<1>1. CASE Tick
  BY <1>1 DEF Tick, TypeOK
<1>2. CASE Rotate
  BY <1>2 DEF Rotate, TypeOK, Tokens
<1>3. ASSUME NEW r \in Requests, SendOrMint(r)
      PROVE  /\ lock' \in Requests \cup {None}
             /\ pc' \in [Requests -> {"idle", "wanting", "minting", "issued", "sent"}]
             /\ carried' \in [Requests -> 0 .. mints]
             /\ deadline' \in [Requests -> 0 .. (MaxTime + Timeout)]
  <2>1. CASE Fresh
    <3>1. Go(r, "sent") /\ lock' = lock /\ carried' = [carried EXCEPT ![r] = token]
      BY <1>3, <2>1 DEF SendOrMint
    <3> QED  BY GoTyped, <3>1 DEF TypeOK
  <2>2. CASE ~Fresh
    <3>1. Go(r, "minting") /\ lock' = r /\ carried' = carried
      BY <1>3, <2>2 DEF SendOrMint, TakeLock
    <3> QED  BY GoTyped, <3>1 DEF TypeOK
  <2> QED  BY <2>1, <2>2
<1>4. ASSUME NEW r \in Requests, Queue(r)
      PROVE  /\ lock' \in Requests \cup {None}
             /\ queue' \in Seq(Requests)
             /\ pc' \in [Requests -> {"idle", "wanting", "minting", "issued", "sent"}]
             /\ deadline' \in [Requests -> 0 .. (MaxTime + Timeout)]
  BY <1>4 DEF Queue, TypeOK
<1>5. ASSUME NEW r \in Requests, Begin(r) PROVE TypeOK'
  BY <1>3, <1>4, <1>5 DEF Begin, Bearer, TypeOK, Tokens
<1>6. ASSUME NEW r \in Requests, LockComes(r) PROVE TypeOK'
  <2>1. queue' \in Seq(Requests)
    BY <1>6 DEF LockComes, TypeOK
  <2> QED  BY <1>3, <1>6, <2>1 DEF LockComes, TypeOK, Tokens
<1>7. ASSUME NEW r \in Requests, Issue(r) PROVE TypeOK'
  <2>1. mints' \in 0 .. MaxMints /\ mints' > mints /\ mints + 1 \in Tokens
    BY <1>7 DEF Issue, TypeOK, Tokens
  <2>2. dies' \in [Tokens -> Nat]
    <3>1. now + Life \in Nat
      BY DEF TypeOK
    <3> QED  BY <1>7, <3>1 DEF Issue, TypeOK
  <2>3. carried' \in [Requests -> 0 .. mints'] /\ rejected' \in [Requests -> 0 .. mints']
    BY <1>7, <2>1 DEF Issue, TypeOK
  <2>4. token' \in 0 .. mints' /\ expires' = expires /\ lock' = lock /\ queue' = queue
    BY <1>7, <2>1 DEF Issue, TypeOK
  <2>5. pc' \in [Requests -> {"idle", "wanting", "minting", "issued", "sent"}]
    BY <1>7 DEF Issue, TypeOK
  <2>6. now' = now /\ deadline' = deadline /\ revoked' = revoked
    BY <1>7 DEF Issue
  <2> QED  BY <2>1, <2>2, <2>3, <2>4, <2>5, <2>6 DEF TypeOK, Tokens
<1>8. ASSUME NEW r \in Requests, Minted(r) PROVE TypeOK'
  <2>1. /\ token' \in 0 .. mints' /\ expires' \in Int
    BY <1>8 DEF Minted, CountFromStart, TypeOK
  <2>2. /\ pc' \in [Requests -> {"idle", "wanting", "minting", "issued", "sent"}]
        /\ deadline' \in [Requests -> 0 .. (MaxTime + Timeout)]
    BY <1>8, GoTyped DEF Minted
  <2> QED  BY <1>8, <2>1, <2>2 DEF Minted, TypeOK, Tokens
<1>9. ASSUME NEW r \in Requests, MintFails(r) PROVE TypeOK'
  <2>1. lock' \in Requests \cup {None} /\ Rest(r)
    BY <1>9 DEF MintFails, LetGoOfLock
  <2>2. UNCHANGED <<now, token, expires, queue, mints, dies, revoked>>
    BY <1>9 DEF MintFails
  <2> QED  BY RestTyped, <2>1, <2>2 DEF TypeOK, Tokens
<1>10. ASSUME NEW r \in Requests, Ends(r) PROVE TypeOK'
  <2>1. Rest(r)
    BY <1>10 DEF Ends
  <2>2. UNCHANGED <<now, token, expires, lock, queue, mints, dies, revoked>>
    BY <1>10 DEF Ends
  <2> QED  BY RestTyped, <2>1, <2>2 DEF TypeOK, Tokens
<1>11. ASSUME NEW r \in Requests, Retry(r) PROVE TypeOK'
  <2>1. queue' \in Seq(Requests) /\ lock' \in Requests \cup {None}
    BY <1>4, <1>11 DEF Retry, TakeLock, TypeOK
  <2>2. /\ pc' \in [Requests -> {"idle", "wanting", "minting", "issued", "sent"}]
        /\ deadline' \in [Requests -> 0 .. (MaxTime + Timeout)]
    BY <1>4, <1>11, GoTyped DEF Retry
  <2>3. token' \in 0 .. mints /\ expires' \in Int /\ rejected' \in [Requests -> 0 .. mints]
    BY <1>11 DEF Retry, ForgetToken, TypeOK
  <2>4. /\ now' = now /\ carried' = carried
        /\ mints' = mints /\ dies' = dies /\ revoked' = revoked
    BY <1>11 DEF Retry
  <2> QED  BY <2>1, <2>2, <2>3, <2>4 DEF TypeOK, Tokens
<1>12. CASE UNCHANGED vars
  BY <1>12 DEF vars, TypeOK, Tokens
<1> QED
  BY <1>1, <1>2, <1>5, <1>6, <1>7, <1>8, <1>9, <1>10, <1>11, <1>12 DEF Next, Steps

\* Every reachable state is well typed: no deadline lies beyond the clock and the time a
\* request may take, and no token is cached or carried that was not issued.
THEOREM TypeCorrect == Spec => []TypeOK
<1>1. Init => TypeOK
  BY TokenAssumption DEF Init, TypeOK, Tokens
<1> QED  BY <1>1, TypeStep, PTL DEF Spec
------------------------------------------------------------------------------
(* The inductive invariant.                                                *)

\* A request that begins, or whose turn it is, touches only what is its own and the lock.
LEMMA Asking ==
  ASSUME NEW r \in Requests, Begin(r) \/ LockComes(r)
  PROVE  /\ Sends(r) \/ Locks(r) \/ Waits(r)
         /\ now' = now /\ token' = token /\ expires' = expires /\ rejected' = rejected
         /\ mints' = mints /\ dies' = dies
<1>1. CASE Begin(r) /\ LockFree
  <2>1. SendOrMint(r) /\ lock = None
    BY <1>1 DEF Begin, Bearer, LockFree
  <2> QED  BY <1>1, <2>1 DEF Begin, SendOrMint, TakeLock, Sends, Locks, provider
<1>2. CASE Begin(r) /\ ~LockFree
  BY <1>2 DEF Begin, Bearer, Queue, Waits, provider
<1>3. CASE LockComes(r)
  BY <1>3 DEF LockComes, SendOrMint, TakeLock, Sends, Locks, provider
<1> QED  BY <1>1, <1>2, <1>3

\* A request that retries finds the cache empty: it mints, or waits for who does.
LEMMA Retrying ==
  ASSUME NEW r \in Requests, Retry(r)
  PROVE  /\ Locks(r) \/ Waits(r)
         /\ pc[r] = "sent" /\ token' = 0 /\ now' = now
         /\ rejected' = [rejected EXCEPT ![r] = carried[r]]
         /\ mints' = mints /\ dies' = dies
<1>1. CASE LockFree
  BY <1>1 DEF Retry, TakeLock, ForgetToken, LockFree, Locks, provider
<1>2. CASE ~LockFree
  BY <1>2 DEF Retry, Queue, ForgetToken, Waits, provider
<1> QED  BY <1>1, <1>2

\* A request that is over, whichever way, gives up its token and its place.
LEMMA Resting ==
  ASSUME NEW r \in Requests, MintFails(r) \/ Ends(r)
  PROVE  /\ Rest(r) /\ now' = now /\ token' = token /\ expires' = expires
         /\ mints' = mints /\ dies' = dies
         /\ \/ Mints(r) /\ lock' = None
            \/ pc[r] = "sent" /\ lock' = lock
BY DEF MintFails, Ends, LetGoOfLock, Mints, cache, provider

LEMMA LockStep == IInv /\ [Next]_vars => LockInv'
<1> SUFFICES ASSUME IInv, [Next]_vars PROVE LockInv'
  OBVIOUS
<1> USE DEF IInv
<1>1. CASE Tick \/ Rotate \/ UNCHANGED vars
  BY <1>1 DEF Tick, Rotate, vars, cache, request, LockInv, Mints
<1>2. ASSUME NEW r \in Requests, Sends(r) \/ Locks(r) \/ Waits(r) PROVE LockInv'
  BY <1>2, TokenAssumption DEF Sends, Locks, Waits, Go, TypeOK, LockInv, Mints
<1>3. ASSUME NEW r \in Requests, Begin(r) \/ LockComes(r) PROVE LockInv'
  BY <1>2, <1>3, Asking
<1>4. ASSUME NEW r \in Requests, Issue(r) PROVE LockInv'
  BY <1>4 DEF Issue, cache, TypeOK, LockInv, Mints
<1>5. ASSUME NEW r \in Requests, Minted(r) PROVE LockInv'
  BY <1>5, TokenAssumption DEF Minted, Go, TypeOK, LockInv, Mints
<1>6. ASSUME NEW r \in Requests, MintFails(r) \/ Ends(r) PROVE LockInv'
  BY <1>6, Resting, TokenAssumption DEF Rest, TypeOK, LockInv, Mints
<1>7. ASSUME NEW r \in Requests, Retry(r) PROVE LockInv'
  BY <1>2, <1>7, Retrying
<1> QED  BY <1>1, <1>3, <1>4, <1>5, <1>6, <1>7 DEF Next, Steps

LEMMA NewestStep == IInv /\ [Next]_vars => NewestInv'
<1> SUFFICES ASSUME IInv, [Next]_vars PROVE NewestInv'
  OBVIOUS
<1> USE DEF IInv
<1>1. CASE Tick \/ Rotate \/ UNCHANGED vars
  BY <1>1 DEF Tick, Rotate, vars, cache, request, provider, NewestInv
<1>2. ASSUME NEW r \in Requests, Begin(r) \/ LockComes(r) PROVE NewestInv'
  <2>1. CASE Sends(r) \/ Locks(r)
    <3>1. \A q \in Requests : pc'[q] # "issued"
      BY <2>1, TokenAssumption DEF Sends, Locks, Go, TypeOK, LockInv, Mints
    <3> QED  BY <3>1 DEF NewestInv
  <2>2. CASE Waits(r)
    <3>1. \A q \in Requests : pc'[q] = "issued" => pc[q] = "issued"
      BY <2>2 DEF Waits, TypeOK
    <3>2. carried' = carried /\ token' = token /\ rejected' = rejected /\ mints' = mints
      BY <1>2, <2>2, Asking DEF Waits
    <3> QED  BY <3>1, <3>2 DEF NewestInv
  <2> QED  BY <1>2, <2>1, <2>2, Asking
<1>3. ASSUME NEW r \in Requests, Issue(r) PROVE NewestInv'
  <2>1. \A q \in Requests : pc'[q] = "issued" => q = r
    BY <1>3 DEF Issue, TypeOK, LockInv, Mints
  <2>2. /\ carried'[r] = mints' /\ token' < mints'
        /\ \A q \in Requests : rejected'[q] < mints' /\ (q # r => carried'[q] < mints')
    BY <1>3 DEF Issue, cache, TypeOK
  <2> QED  BY <2>1, <2>2 DEF NewestInv
<1>4. ASSUME NEW r \in Requests, Minted(r) PROVE NewestInv'
  <2>1. \A q \in Requests : pc'[q] # "issued"
    BY <1>4 DEF Minted, Go, TypeOK, LockInv, Mints
  <2> QED  BY <2>1 DEF NewestInv
<1>5. ASSUME NEW r \in Requests, MintFails(r) \/ Ends(r) PROVE NewestInv'
  <2>1. \A q \in Requests : pc'[q] = "issued" => q # r /\ pc[q] = "issued"
    BY <1>5, Resting DEF Rest, TypeOK
  <2>2. /\ carried' = [carried EXCEPT ![r] = 0] /\ rejected' = [rejected EXCEPT ![r] = 0]
        /\ token' = token /\ mints' = mints
    BY <1>5, Resting DEF Rest
  <2> QED  BY <2>1, <2>2 DEF TypeOK, NewestInv
<1>6. ASSUME NEW r \in Requests, Retry(r) PROVE NewestInv'
  <2>1. CASE Locks(r)
    <3>1. \A q \in Requests : pc'[q] # "issued"
      BY <2>1, TokenAssumption DEF Locks, Go, TypeOK, LockInv, Mints
    <3> QED  BY <3>1 DEF NewestInv
  <2>2. CASE Waits(r)
    <3>1. \A q \in Requests : pc'[q] = "issued" => q # r /\ pc[q] = "issued"
      BY <2>2 DEF Waits, TypeOK
    <3>2. /\ carried' = carried /\ rejected' = [rejected EXCEPT ![r] = carried[r]]
          /\ token' = 0 /\ mints' = mints
      BY <1>6, <2>2, Retrying DEF Waits
    <3> QED  BY <3>1, <3>2 DEF TypeOK, NewestInv
  <2> QED  BY <1>6, <2>1, <2>2, Retrying
<1> QED  BY <1>1, <1>2, <1>3, <1>4, <1>5, <1>6 DEF Next, Steps

LEMMA RejectedStep == IInv /\ [Next]_vars => RejectedInv'
<1> SUFFICES ASSUME IInv, [Next]_vars PROVE RejectedInv'
  OBVIOUS
<1> USE DEF IInv
<1>1. CASE Tick \/ Rotate \/ UNCHANGED vars
  BY <1>1 DEF Tick, Rotate, vars, cache, request, provider, RejectedInv, RetryWithAnother
<1>2. ASSUME NEW r \in Requests, Begin(r) \/ LockComes(r) PROVE RejectedInv'
  <2>1. token' = token /\ rejected' = rejected
    BY <1>2, Asking
  <2>2. CASE Sends(r)
    <3>1. token # 0 /\ token # rejected[r]
      BY <2>2 DEF Sends, Fresh, RejectedInv
    <3> QED  BY <2>1, <2>2, <3>1 DEF Sends, Go, TypeOK, RejectedInv, RetryWithAnother
  <2>3. CASE Locks(r) \/ Waits(r)
    <3>1. carried' = carried /\ \A q \in Requests : pc'[q] # pc[q] => pc'[q] \notin {"issued", "sent"}
      BY <2>3 DEF Locks, Waits, Go, TypeOK
    <3> QED  BY <2>1, <3>1 DEF RejectedInv, RetryWithAnother
  <2> QED  BY <1>2, <2>2, <2>3, Asking
<1>3. ASSUME NEW r \in Requests, Issue(r) PROVE RejectedInv'
  <2>1. /\ token' = token /\ rejected' = rejected /\ mints + 1 # 0
        /\ pc' = [pc EXCEPT ![r] = "issued"] /\ carried' = [carried EXCEPT ![r] = mints + 1]
    BY <1>3 DEF Issue, cache, TypeOK
  <2> QED  BY <2>1 DEF TypeOK, RejectedInv, RetryWithAnother
<1>4. ASSUME NEW r \in Requests, Minted(r) PROVE RejectedInv'
  <2>1. /\ token' = mints /\ rejected' = rejected /\ carried' = carried
        /\ pc' = [pc EXCEPT ![r] = "sent"] /\ pc[r] = "issued" /\ carried[r] = mints
    BY <1>4 DEF Minted, Go, NewestInv
  <2>2. \A q \in Requests : rejected[q] # mints
    BY <1>4 DEF Minted, NewestInv, TypeOK
  <2> QED  BY <2>1, <2>2 DEF TypeOK, RejectedInv, RetryWithAnother
<1>5. ASSUME NEW r \in Requests, MintFails(r) \/ Ends(r) PROVE RejectedInv'
  <2>1. Rest(r) /\ token' = token
    BY <1>5, Resting
  <2> QED  BY <2>1 DEF Rest, TypeOK, RejectedInv, RetryWithAnother
<1>6. ASSUME NEW r \in Requests, Retry(r) PROVE RejectedInv'
  <2>1. /\ carried' = carried /\ token' = 0
        /\ rejected' = [rejected EXCEPT ![r] = carried[r]]
    BY <1>6, Retrying DEF Locks, Waits
  <2>2. \A q \in Requests : pc'[q] \in {"issued", "sent"} => q # r /\ pc'[q] = pc[q]
    BY <1>6, Retrying DEF Locks, Waits, Go, TypeOK
  <2> QED  BY <2>1, <2>2 DEF TypeOK, RejectedInv, RetryWithAnother
<1> QED  BY <1>1, <1>2, <1>3, <1>4, <1>5, <1>6 DEF Next, Steps

LEMMA TimeStep == IInv /\ [Next]_vars => TimeInv'
<1> SUFFICES ASSUME IInv, [Next]_vars PROVE TimeInv'
  OBVIOUS
<1> USE TokenAssumption DEF IInv
<1>1. CASE Tick
  <2>1. /\ now' = now + 1 /\ pc' = pc /\ deadline' = deadline /\ carried' = carried
        /\ token' = token /\ expires' = expires /\ dies' = dies
        /\ \A q \in OnTheNetwork : now < deadline[q]
    BY <1>1 DEF Tick, cache, request, provider
  <2> QED  BY <2>1 DEF TypeOK, OnTheNetwork, TimeInv, Timely, IssuedLasts, CountFromStart,
                     CacheIsCautious, InFlightAlive
<1>2. CASE Rotate \/ UNCHANGED vars
  BY <1>2 DEF Rotate, vars, cache, request, provider, OnTheNetwork, TimeInv, Timely, IssuedLasts, CountFromStart,
              CacheIsCautious, InFlightAlive
<1>3. ASSUME NEW r \in Requests, Begin(r) \/ LockComes(r) PROVE TimeInv'
  <2>1. now' = now /\ token' = token /\ expires' = expires /\ dies' = dies
    BY <1>3, Asking
  <2>2. CASE Sends(r)
    <3>1. now + Timeout <= dies[token]
      <4>1. token # 0 /\ now + Margin < expires
        BY <2>2 DEF Sends, Fresh, TypeOK
      <4>2. expires <= dies[token] /\ dies[token] \in Int
        BY <4>1 DEF TimeInv, CacheIsCautious, TypeOK, Tokens
      <4> QED  BY <4>1, <4>2 DEF TypeOK
    <3>2. /\ pc' = [pc EXCEPT ![r] = "sent"] /\ deadline' = [deadline EXCEPT ![r] = now + Timeout]
          /\ carried' = [carried EXCEPT ![r] = token]
      BY <2>2 DEF Sends, Go
    <3>3. Timely'
      BY <2>1, <3>2 DEF TypeOK, OnTheNetwork, TimeInv, Timely
    <3>4. IssuedLasts'
      BY <2>1, <3>2 DEF TypeOK, TimeInv, IssuedLasts, CountFromStart
    <3>5. CacheIsCautious'
      BY <2>1 DEF TimeInv, CacheIsCautious
    <3>6. InFlightAlive'
      BY <2>1, <3>1, <3>2 DEF TypeOK, TimeInv, InFlightAlive
    <3> QED  BY <3>3, <3>4, <3>5, <3>6 DEF TimeInv
  <2>3. CASE Locks(r)
    BY <2>1, <2>3 DEF Locks, Go, TypeOK, OnTheNetwork, TimeInv, Timely, IssuedLasts, CountFromStart,
                      CacheIsCautious, InFlightAlive
  <2>4. CASE Waits(r)
    BY <2>1, <2>4 DEF Waits, TypeOK, OnTheNetwork, TimeInv, Timely, IssuedLasts, CountFromStart,
                      CacheIsCautious, InFlightAlive
  <2> QED  BY <1>3, <2>2, <2>3, <2>4, Asking
<1>4. ASSUME NEW r \in Requests, Issue(r) PROVE TimeInv'
  <2>1. /\ now' = now /\ token' = token /\ expires' = expires /\ deadline' = deadline
        /\ pc[r] = "minting" /\ pc' = [pc EXCEPT ![r] = "issued"]
        /\ carried' = [carried EXCEPT ![r] = mints + 1]
        /\ dies' = [dies EXCEPT ![mints + 1] = now + Life]
        /\ mints + 1 \in Tokens
    BY <1>4 DEF Issue, cache, TypeOK, Tokens
  <2>2. Timely'
    BY <2>1 DEF TypeOK, OnTheNetwork, TimeInv, Timely
  <2>3. \A q \in Requests : pc'[q] = "issued" => q = r
    BY <1>4 DEF Issue, TypeOK, LockInv, Mints
  <2>4. deadline[r] - Timeout + Life <= dies'[mints + 1]
    BY <2>1 DEF TypeOK, OnTheNetwork, TimeInv, Timely
  <2>5. \A t \in 0 .. mints : t # 0 => dies'[t] = dies[t]
    BY <2>1 DEF TypeOK, Tokens
  <2>6. CacheIsCautious'
    BY <2>1, <2>5 DEF TypeOK, TimeInv, CacheIsCautious
  <2>7. InFlightAlive'
    BY <2>1, <2>5 DEF TypeOK, TimeInv, RejectedInv, InFlightAlive
  <2>8. IssuedLasts'
    BY <2>1, <2>3, <2>4 DEF TypeOK, IssuedLasts, CountFromStart
  <2> QED  BY <2>2, <2>6, <2>7, <2>8 DEF TimeInv
<1>5. ASSUME NEW r \in Requests, Minted(r) PROVE TimeInv'
  <2>1. /\ now' = now /\ token' = carried[r] /\ expires' = deadline[r] - Timeout + Life
        /\ carried' = carried /\ dies' = dies /\ pc[r] = "issued"
        /\ pc' = [pc EXCEPT ![r] = "sent"] /\ deadline' = [deadline EXCEPT ![r] = now + Timeout]
    BY <1>5 DEF Minted, Go, CountFromStart, provider
  <2>2. deadline[r] - Timeout + Life <= dies[carried[r]] /\ dies[carried[r]] \in Nat
    BY <2>1 DEF TimeInv, IssuedLasts, CountFromStart, RejectedInv, TypeOK, Tokens
  <2>3. now <= deadline[r]
    BY <2>1 DEF TimeInv, Timely, OnTheNetwork
  <2>4. now + Timeout <= dies[carried[r]]
    BY <2>2, <2>3 DEF TypeOK
  <2>5. Timely'
    BY <2>1 DEF TypeOK, OnTheNetwork, TimeInv, Timely
  <2>6. IssuedLasts'
    BY <2>1 DEF TypeOK, TimeInv, IssuedLasts, CountFromStart
  <2>7. CacheIsCautious'
    BY <2>1, <2>2 DEF CacheIsCautious
  <2>8. InFlightAlive'
    BY <2>1, <2>4 DEF TypeOK, TimeInv, InFlightAlive
  <2> QED  BY <2>5, <2>6, <2>7, <2>8 DEF TimeInv
<1>6. ASSUME NEW r \in Requests, MintFails(r) \/ Ends(r) PROVE TimeInv'
  <2>1. Rest(r) /\ now' = now /\ token' = token /\ expires' = expires /\ dies' = dies
    BY <1>6, Resting
  <2> QED  BY <2>1 DEF Rest, TypeOK, OnTheNetwork, TimeInv, Timely, IssuedLasts, CountFromStart,
                       CacheIsCautious, InFlightAlive
<1>7. ASSUME NEW r \in Requests, Retry(r) PROVE TimeInv'
  <2>1. now' = now /\ token' = 0 /\ dies' = dies
    BY <1>7, Retrying
  <2>2. CASE Locks(r)
    BY <2>1, <2>2 DEF Locks, Go, TypeOK, OnTheNetwork, TimeInv, Timely, IssuedLasts, CountFromStart,
                      CacheIsCautious, InFlightAlive
  <2>3. CASE Waits(r)
    BY <2>1, <2>3 DEF Waits, TypeOK, OnTheNetwork, TimeInv, Timely, IssuedLasts, CountFromStart,
                      CacheIsCautious, InFlightAlive
  <2> QED  BY <1>7, <2>2, <2>3, Retrying
<1> QED  BY <1>1, <1>2, <1>3, <1>4, <1>5, <1>6, <1>7 DEF Next, Steps
------------------------------------------------------------------------------
(* The theorems.                                                           *)

\* What the properties rest on is inductive: who mints holds the lock, the token that is on
\* its way is one nobody has seen, and every deadline was set from the clock.
THEOREM Inductive == Spec => []IInv
<1>1. Init => IInv
  BY TokenAssumption DEF Init, IInv, TypeOK, Tokens, LockInv, Mints, NewestInv, RejectedInv,
     RetryWithAnother, TimeInv, Timely, IssuedLasts, OnTheNetwork, CacheIsCautious, InFlightAlive
<1>2. IInv /\ [Next]_vars => IInv'
  BY TypeStep, LockStep, NewestStep, RejectedStep, TimeStep DEF IInv
<1> QED  BY <1>1, <1>2, PTL DEF Spec

\* korsi_client.py:59-60: a request is sent with a token that outlives its deadline, whoever
\* minted it and however long the mint took.
THEOREM NoExpiryInFlight == Spec => []InFlightAlive
<1>1. IInv => InFlightAlive
  BY DEF IInv, TimeInv
<1> QED  BY <1>1, Inductive, PTL

\* The moment the cache takes its token to expire is never after it does.
THEOREM Cautious == Spec => []CacheIsCautious
<1>1. IInv => CacheIsCautious
  BY DEF IInv, TimeInv
<1> QED  BY <1>1, Inductive, PTL

\* A token that was rejected is not the one its retry is sent with, although any request may
\* have minted, cached and forgotten tokens in between.
THEOREM RetriesWithAnother == Spec => []RetryWithAnother
<1>1. IInv => RetryWithAnother
  BY DEF IInv, RejectedInv
<1> QED  BY <1>1, Inductive, PTL

\* korsi_client.py:151-153: no two requests mint together, however many notice the expiry.
THEOREM OneMint == Spec => []OneMintAtATime
<1>1. ASSUME IInv PROVE OneMintAtATime
  <2> DEFINE M == {r \in Requests : pc[r] \in {"minting", "issued"}}
  <2>1. M \subseteq {lock}
    BY <1>1 DEF IInv, LockInv, Mints
  <2>2. IsFiniteSet({lock}) /\ Cardinality({lock}) = 1
    BY FS_Singleton
  <2>3. Cardinality(M) <= 1
    BY <2>1, <2>2, FS_Subset
  <2> QED  BY <2>3 DEF OneMintAtATime
<1> QED  BY <1>1, Inductive, PTL
==============================================================================
