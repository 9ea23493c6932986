----------------------------- MODULE MixerProofs ------------------------------
(***************************************************************************)
(* What the run of Mixer shows on small constants, proved for any number   *)
(* of publishers, any sizes of frames and chunks, and any limits: the      *)
(* counter is exact, the samples of a publisher keep their order, and none *)
(* is lost below the limits.                                               *)
(***************************************************************************)
EXTENDS Mixer, WellFoundedInduction, TLAPS

\* A publisher without a buffer has no samples: attach begins with an empty one.
EmptyInv == \A p \in Publishers \ attached : pending[p] = <<>>

\* Nothing is read, queued or waiting that was not pushed.
Heard(p) ==
  /\ read[p] <= pushed[p]
  /\ \A i \in DOMAIN pending[p] : pending[p][i].sample <= pushed[p]
  /\ \A i \in DOMAIN out : \A j \in DOMAIN out[i][p] : out[i][p][j] <= pushed[p]

\* The samples of a publisher keep their order and none comes from nowhere.
OrderInv == SpokenOrder /\ \A p \in Publishers : Heard(p)

\* The inductive invariant: the counter of a buffer is its length, which the limit on a buffer
\* is enforced with; the rest is what a step does to the samples.
IInv == CountIsExact /\ EmptyInv /\ OrderInv /\ NothingLost
------------------------------------------------------------------------------
(* The smallest number of a set, and what take and push are made of.       *)

\* A set of numbers that is not empty has a least one: Min returns it.
LEMMA MinOfNumbers ==
  ASSUME NEW S \in SUBSET Nat, S # {}
  PROVE  Min(S) \in S
<1>1. PICK m \in S : \A k \in S : <<k, m>> \notin OpToRel(<, Nat)
  BY WFMin, NatLessThanWellFounded, Zenon
<1>2. \A k \in S : ~(k < m)
  BY <1>1, Zenon DEF OpToRel
<1>3. \A k \in S : m <= k
  BY <1>2
<1> QED
  BY <1>3 DEF Min

\* The limit of a buffer, whatever MaxSamples and the sizes are.
LEMMA LimitIsNatural == Limit \in Nat
  BY MixerAssumption DEF Limit

\* A mix takes no more of a buffer than there is.
LEMMA GatheredBound ==
  ASSUME TypeOK, NEW p \in Publishers
  PROVE  Gathered(p) \in 0 .. Len(pending[p])
<1>1. Len(pending[p]) \in Nat /\ ChunkSamples \in Nat
  BY MixerAssumption
<1>2. Min({Len(pending[p]), ChunkSamples}) \in {Len(pending[p]), ChunkSamples}
      /\ Min({Len(pending[p]), ChunkSamples}) <= Len(pending[p])
  <2>1. \E m \in {Len(pending[p]), ChunkSamples} :
          \A k \in {Len(pending[p]), ChunkSamples} : m <= k
    BY <1>1
  <2> QED
    BY <2>1 DEF Min
<1> QED
  BY <1>1, <1>2 DEF Gathered

\* Dropping whole frames brings a buffer within its limit: at worst all of them go.
LEMMA ExcessBound ==
  ASSUME NEW samples \in Seq(Sample)
  PROVE  Excess(samples) \in 0 .. Len(samples) /\ Len(samples) - Excess(samples) <= Limit
<1> DEFINE S == {k \in 0 .. Len(samples) : Boundary(samples, k) /\ Len(samples) - k <= Limit}
<1>1. Len(samples) \in S
  BY LimitIsNatural DEF Boundary
<1>2. S \in SUBSET Nat /\ S # {}
  BY <1>1
<1>3. Min(S) \in S
  BY <1>2, MinOfNumbers
<1> QED
  BY <1>3 DEF Excess

\* The samples of a frame follow those pushed before.
LEMMA FrameIs ==
  ASSUME TypeOK, NEW p \in Publishers, NEW size \in Sizes
  PROVE  /\ size \in Nat
         /\ Frame(p, size) \in Seq(Sample)
         /\ Len(Frame(p, size)) = size
         /\ \A i \in 1 .. size : Frame(p, size)[i].sample = pushed[p] + i
<1>1. size \in Nat /\ pushed[p] \in Nat
  BY MixerAssumption DEF TypeOK
<1>2. \A i \in 1 .. size : [frame |-> pushed[p] + 1, sample |-> pushed[p] + i] \in Sample
  BY <1>1 DEF Sample
<1> QED
  BY <1>1, <1>2 DEF Frame

------------------------------------------------------------------------------
(* Types.                                                                  *)

\* The two parts of a sequence that is cut.
LEMMA PartOfSeq ==
  ASSUME NEW S, NEW s \in Seq(S), NEW k \in 0 .. Len(s)
  PROVE  /\ SubSeq(s, k + 1, Len(s)) \in Seq(S)
         /\ Len(SubSeq(s, k + 1, Len(s))) = Len(s) - k
         /\ \A i \in 1 .. Len(s) - k : SubSeq(s, k + 1, Len(s))[i] = s[k + i]
         /\ SubSeq(s, 1, k) \in Seq(S)
         /\ Len(SubSeq(s, 1, k)) = k
         /\ \A i \in 1 .. k : SubSeq(s, 1, k)[i] = s[i]
  OBVIOUS

\* Two sequences joined.
LEMMA ConcatSeq ==
  ASSUME NEW S, NEW s \in Seq(S), NEW t \in Seq(S)
  PROVE  /\ s \o t \in Seq(S)
         /\ Len(s \o t) = Len(s) + Len(t)
         /\ \A i \in 1 .. Len(s) : (s \o t)[i] = s[i]
         /\ \A i \in 1 .. Len(t) : (s \o t)[Len(s) + i] = t[i]
  OBVIOUS

\* The numbers of samples, one for one.
LEMMA NumbersAre ==
  ASSUME NEW s \in Seq(Sample)
  PROVE  /\ Numbers(s) \in Seq(Nat)
         /\ Len(Numbers(s)) = Len(s)
         /\ DOMAIN Numbers(s) = 1 .. Len(s)
         /\ \A i \in 1 .. Len(s) : Numbers(s)[i] = s[i].sample
<1>1. \A x \in Sample : x.sample \in Nat
  BY DEF Sample
<1>2. Numbers(s) = [i \in 1 .. Len(s) |-> s[i].sample]
  BY DEF Numbers
<1> QED
  BY <1>1, <1>2

\* A chunk has of each attached publisher the first samples gathered, and nothing of others.
LEMMA ChunkIs ==
  ASSUME TypeOK
  PROVE  /\ Chunk \in [Publishers -> Seq(Nat)]
         /\ \A p \in attached :
              /\ Len(Chunk[p]) = Gathered(p)
              /\ DOMAIN Chunk[p] = 1 .. Gathered(p)
              /\ \A i \in 1 .. Gathered(p) : Chunk[p][i] = pending[p][i].sample
         /\ \A p \in Publishers \ attached : Chunk[p] = <<>>
<1>1. ASSUME NEW p \in attached
      PROVE  /\ Numbers(SubSeq(pending[p], 1, Gathered(p))) \in Seq(Nat)
             /\ Len(Numbers(SubSeq(pending[p], 1, Gathered(p)))) = Gathered(p)
             /\ \A i \in 1 .. Gathered(p) :
                  Numbers(SubSeq(pending[p], 1, Gathered(p)))[i] = pending[p][i].sample
  <2>1. pending[p] \in Seq(Sample) /\ Gathered(p) \in 0 .. Len(pending[p])
    BY GatheredBound DEF TypeOK
  <2> DEFINE taken == SubSeq(pending[p], 1, Gathered(p))
  <2>2. /\ taken \in Seq(Sample)
        /\ Len(taken) = Gathered(p)
        /\ \A i \in 1 .. Gathered(p) : taken[i] = pending[p][i]
    BY <2>1
  <2> HIDE DEF taken
  <2>3. Numbers(taken) \in Seq(Nat) /\ Len(Numbers(taken)) = Gathered(p)
        /\ \A i \in 1 .. Gathered(p) : Numbers(taken)[i] = pending[p][i].sample
    BY <2>2, NumbersAre
  <2> QED
    BY <2>3 DEF taken
<1>2. attached \subseteq Publishers
  BY DEF TypeOK
<1>3. \A p \in attached : Chunk[p] = Numbers(SubSeq(pending[p], 1, Gathered(p)))
  BY <1>2 DEF Chunk
<1>4. \A p \in Publishers \ attached : Chunk[p] = <<>>
  BY DEF Chunk
<1>5. Chunk \in [Publishers -> Seq(Nat)]
  BY <1>1 DEF Chunk
<1> HIDE DEF Chunk
<1> QED
  BY <1>1, <1>3, <1>4, <1>5

\* What the queue is after a chunk was put: the chunk at its end, and before it the chunks
\* there were, without the oldest if it was full.
LEMMA QueueIs ==
  ASSUME TypeOK, NEW chunk \in [Publishers -> Seq(Nat)], Queue(chunk)
  PROVE  \E gone \in {0, 1} :
           /\ gone = IF Len(out) < MaxChunks THEN 0 ELSE 1
           /\ gone <= Len(out)
           /\ out' \in Seq([Publishers -> Seq(Nat)])
           /\ Len(out') = Len(out) - gone + 1
           /\ Len(out') <= MaxChunks
           /\ \A i \in 1 .. Len(out) - gone : out'[i] = out[i + gone]
           /\ out'[Len(out')] = chunk
<1>1. MaxChunks \in Nat \ {0} /\ out \in Seq([Publishers -> Seq(Nat)]) /\ Len(out) <= MaxChunks
  BY MixerAssumption DEF TypeOK
<1>2. CASE Len(out) < MaxChunks
  BY <1>1 DEF Queue
<1>3. CASE ~(Len(out) < MaxChunks)
  <2>1. out' = Append(Tail(out), chunk)
    BY <1>3 DEF Queue
  <2> QED
    BY <1>1, <1>3, <2>1
<1> QED
  BY <1>2, <1>3

\* Reading takes the oldest chunk.
LEMMA ReadIs ==
  ASSUME TypeOK, Read
  PROVE  /\ 1 \in DOMAIN out
         /\ out' \in Seq([Publishers -> Seq(Nat)])
         /\ Len(out') = Len(out) - 1
         /\ \A i \in DOMAIN out' : i + 1 \in DOMAIN out /\ out'[i] = out[i + 1]
         /\ \A p \in Publishers :
              read'[p] = IF out[1][p] = <<>> THEN read[p] ELSE out[1][p][Len(out[1][p])]
<1>1. out \in Seq([Publishers -> Seq(Nat)]) /\ out # <<>> /\ out' = Tail(out)
  BY DEF TypeOK, Read
<1>2. \A p \in Publishers :
        read'[p] = IF out[1][p] = <<>> THEN read[p] ELSE out[1][p][Len(out[1][p])]
  BY DEF Read, Last
<1> QED
  BY <1>1, <1>2

\* A push keeps the buffer within its limit and the counter right.
LEMMA PushType ==
  ASSUME TypeOK, NEW p \in Publishers, NEW size \in Sizes, Push(p, size), CountIsExact
  PROVE  TypeOK' /\ CountIsExact'
<1>1. PICK samples \in Seq(Sample) : samples = pending[p] \o Frame(p, size)
  <2>1. pending[p] \in Seq(Sample) /\ Frame(p, size) \in Seq(Sample)
    BY FrameIs DEF TypeOK
  <2> QED
    BY <2>1, ConcatSeq
<1>2. PICK dropped \in 0 .. Len(samples) :
        dropped = Excess(samples) /\ Len(samples) - dropped <= Limit
  BY ExcessBound
<1>3. PICK kept \in Seq(Sample) :
        kept = SubSeq(samples, dropped + 1, Len(samples)) /\ Len(kept) = Len(samples) - dropped
  BY PartOfSeq
<1>4. Len(samples) = count[p] + size /\ size \in Nat
  <2>1. Len(pending[p] \o Frame(p, size)) = Len(pending[p]) + Len(Frame(p, size))
    OBVIOUS
  <2>2. Len(pending[p]) = count[p] /\ Len(Frame(p, size)) = size /\ size \in Nat
    BY FrameIs DEF CountIsExact
  <2> QED
    BY <1>1, <2>1, <2>2
<1>5. /\ pending' = [pending EXCEPT ![p] = kept]
      /\ count' = [count EXCEPT ![p] = count[p] + size - dropped]
      /\ pushed' = [pushed EXCEPT ![p] = pushed[p] + size]
      /\ lossy' \subseteq lossy \cup {p}
      /\ UNCHANGED <<attached, ended, out, closed, read>>
  BY <1>1, <1>2, <1>3 DEF Push, CountKept
<1>6. count[p] + size - dropped = Len(kept) /\ Len(kept) \in 0 .. Limit
  <2>1. Len(kept) \in Nat /\ count[p] \in Nat
    BY DEF TypeOK
  <2> QED
    BY <1>2, <1>3, <1>4, <2>1, LimitIsNatural
<1>7. pending' \in [Publishers -> Seq(Sample)] /\ count' \in [Publishers -> 0 .. Limit]
  BY <1>5, <1>6 DEF TypeOK
<1>8. pushed' \in [Publishers -> Nat]
  BY <1>4, <1>5 DEF TypeOK
<1>9. TypeOK'
  BY <1>5, <1>7, <1>8 DEF TypeOK
<1> QED
  BY <1>5, <1>6, <1>9 DEF CountIsExact, TypeOK

\* A mix counts down what it takes.
LEMMA MixType ==
  ASSUME TypeOK, Mix, CountIsExact
  PROVE  TypeOK' /\ CountIsExact'
<1>1. \A p \in attached : /\ Rest(p) \in Seq(Sample)
                          /\ Len(Rest(p)) = count[p] - Gathered(p)
                          /\ count[p] - Gathered(p) \in 0 .. Limit
  <2> SUFFICES ASSUME NEW p \in attached
               PROVE  /\ Rest(p) \in Seq(Sample)
                      /\ Len(Rest(p)) = count[p] - Gathered(p)
                      /\ count[p] - Gathered(p) \in 0 .. Limit
    OBVIOUS
  <2>1. pending[p] \in Seq(Sample) /\ Gathered(p) \in 0 .. Len(pending[p])
        /\ count[p] \in 0 .. Limit /\ count[p] = Len(pending[p])
    BY GatheredBound DEF TypeOK, CountIsExact
  <2> QED
    BY <2>1, LimitIsNatural DEF Rest
<1>2. pending' \in [Publishers -> Seq(Sample)]
  BY <1>1 DEF Mix, TypeOK
<1>3. count' \in [Publishers -> 0 .. Limit]
  BY <1>1 DEF Mix, TypeOK
<1>4. out' \in Seq([Publishers -> Seq(Nat)]) /\ Len(out') <= MaxChunks
  BY ChunkIs, QueueIs DEF Mix
<1>5. TypeOK'
  BY <1>2, <1>3, <1>4 DEF Mix, TypeOK
<1>6. CountIsExact'
  BY <1>1 DEF Mix, CountIsExact
<1> QED
  BY <1>5, <1>6

\* Reading takes a chunk off the queue.
LEMMA ReadType ==
  ASSUME TypeOK, Read
  PROVE  TypeOK'
<1>1. \A p \in Publishers : out[1][p] \in Seq(Nat)
  BY ReadIs DEF TypeOK
<1>2. \A p \in Publishers : out[1][p] # <<>> => out[1][p][Len(out[1][p])] \in Nat
  BY <1>1
<1>3. read' \in [Publishers -> Nat]
  BY <1>2, ReadIs DEF Read, TypeOK
<1>4. Len(out') <= MaxChunks
  BY ReadIs, MixerAssumption DEF TypeOK
<1> QED
  BY <1>3, <1>4 DEF Read, TypeOK, buffers

\* Every variable stays in its type, and with it the counter exact: push keeps a buffer within
\* its limit only because the counter it works with is.
THEOREM TypeCorrect == Spec => [](TypeOK /\ CountIsExact)
<1>1. Init => TypeOK /\ CountIsExact
  <2> SUFFICES ASSUME Init PROVE TypeOK /\ CountIsExact
    OBVIOUS
  <2>1. pending \in [Publishers -> Seq(Sample)] /\ count \in [Publishers -> 0 .. Limit]
    BY LimitIsNatural DEF Init
  <2>2. out \in Seq([Publishers -> Seq(Nat)]) /\ Len(out) <= MaxChunks
    BY MixerAssumption DEF Init
  <2> QED
    BY <2>1, <2>2 DEF Init, TypeOK, CountIsExact
<1>2. TypeOK /\ CountIsExact /\ [Next]_vars => (TypeOK /\ CountIsExact)'
  <2> SUFFICES ASSUME TypeOK, CountIsExact, [Next]_vars PROVE (TypeOK /\ CountIsExact)'
    OBVIOUS
  <2>1. ASSUME NEW p \in Publishers, Attach(p) PROVE (TypeOK /\ CountIsExact)'
    BY <2>1 DEF Attach, history, TypeOK, CountIsExact
  <2>2. ASSUME NEW p \in Publishers, Detach(p) PROVE (TypeOK /\ CountIsExact)'
    <3>1. pending' = [pending EXCEPT ![p] = <<>>] /\ count' = [count EXCEPT ![p] = 0]
          /\ lossy' \subseteq lossy \cup {p}
      BY <2>2 DEF Detach, Discard
    <3>2. pending' \in [Publishers -> Seq(Sample)] /\ count' \in [Publishers -> 0 .. Limit]
      BY <3>1, LimitIsNatural DEF TypeOK
    <3> QED
      BY <2>2, <3>1, <3>2 DEF Detach, TypeOK, CountIsExact
  <2>3. ASSUME NEW p \in Publishers, TrackEnds(p) PROVE (TypeOK /\ CountIsExact)'
    BY <2>3 DEF TrackEnds, history, TypeOK, CountIsExact
  <2>4. ASSUME NEW p \in Publishers, NEW size \in Sizes, Push(p, size)
        PROVE  (TypeOK /\ CountIsExact)'
    BY <2>4, PushType
  <2>5. CASE Mix
    BY <2>5, MixType
  <2>6. CASE Read
    BY <2>6, ReadType DEF Read, buffers, CountIsExact
  <2>7. CASE Close
    <3>1. pending' \in [Publishers -> Seq(Sample)] /\ count' \in [Publishers -> 0 .. Limit]
      BY <2>7, LimitIsNatural DEF Close
    <3>2. out' \in Seq([Publishers -> Seq(Nat)]) /\ Len(out') <= MaxChunks
      BY <2>7, MixerAssumption DEF Close
    <3> QED
      BY <2>7, <3>1, <3>2 DEF Close, TypeOK, CountIsExact
  <2>8. CASE UNCHANGED vars
    BY <2>8 DEF vars, buffers, history, TypeOK, CountIsExact
  <2> QED
    BY <2>1, <2>2, <2>3, <2>4, <2>5, <2>6, <2>7, <2>8 DEF Next
<1> QED
  BY <1>1, <1>2, PTL DEF Spec

------------------------------------------------------------------------------
(* Order.                                                                  *)

\* InOrder and Heard, sample by sample.
Chain(p) ==
  /\ read[p] <= pushed[p]
  /\ \A i \in DOMAIN pending[p] :
       /\ read[p] < pending[p][i].sample /\ pending[p][i].sample <= pushed[p]
       /\ \A j \in DOMAIN pending[p] : i < j => pending[p][i].sample < pending[p][j].sample
  /\ \A i \in DOMAIN out : \A j \in DOMAIN out[i][p] :
       /\ read[p] < out[i][p][j] /\ out[i][p][j] <= pushed[p]
       /\ \A k \in DOMAIN out[i][p] : j < k => out[i][p][j] < out[i][p][k]
       /\ \A k \in DOMAIN pending[p] : out[i][p][j] < pending[p][k].sample
       /\ \A m \in DOMAIN out : i < m => \A k \in DOMAIN out[m][p] : out[i][p][j] < out[m][p][k]

\* The chain says the same as the invariant.
LEMMA OrderIsChain == TypeOK => (OrderInv <=> \A p \in Publishers : Chain(p))
<1> SUFFICES ASSUME TypeOK, NEW p \in Publishers PROVE InOrder(p) /\ Heard(p) <=> Chain(p)
  BY DEF OrderInv, SpokenOrder
<1> DEFINE waiting == Numbers(pending[p])
<1>1. /\ DOMAIN waiting = DOMAIN pending[p]
      /\ \A i \in DOMAIN pending[p] : waiting[i] = pending[p][i].sample
  <2>1. pending[p] \in Seq(Sample)
    BY DEF TypeOK
  <2> QED
    BY <2>1, NumbersAre
<1>2. InOrder(p) <=>
        /\ Ordered(waiting)
        /\ Before(<<read[p]>>, waiting)
        /\ \A i \in DOMAIN out :
             /\ Ordered(out[i][p])
             /\ Before(<<read[p]>>, out[i][p])
             /\ Before(out[i][p], waiting)
             /\ \A j \in DOMAIN out : i < j => Before(out[i][p], out[j][p])
  BY DEF InOrder
<1> HIDE DEF waiting
<1>3. ASSUME InOrder(p), Heard(p) PROVE Chain(p)
  BY <1>1, <1>2, <1>3 DEF Heard, Chain, Ordered, Before
<1>4. ASSUME Chain(p) PROVE InOrder(p)
  BY <1>1, <1>2, <1>4 DEF Chain, Ordered, Before
<1>5. ASSUME Chain(p) PROVE Heard(p)
  BY <1>5 DEF Heard, Chain
<1> QED
  BY <1>3, <1>4, <1>5

\* What push leaves of a publisher's samples: the newest of those there were and those that
\* have come.
LEMMA PushIs ==
  ASSUME TypeOK, NEW p \in Publishers, NEW size \in Sizes, Push(p, size)
  PROVE  \E dropped \in Nat :
           /\ size \in Nat /\ dropped <= Len(pending[p]) + size
           /\ dropped # 0 => p \in lossy'
           /\ lossy \subseteq lossy' /\ lossy' \subseteq lossy \cup {p}
           /\ pushed' = [pushed EXCEPT ![p] = @ + size]
           /\ \A q \in Publishers \ {p} : pending'[q] = pending[q]
           /\ DOMAIN pending'[p] = 1 .. Len(pending[p]) + size - dropped
           /\ \A i \in DOMAIN pending'[p] :
                pending'[p][i].sample =
                  IF i + dropped <= Len(pending[p])
                  THEN pending[p][i + dropped].sample
                  ELSE pushed[p] + (i + dropped - Len(pending[p]))
           /\ UNCHANGED <<out, read>>
<1>1. /\ pending[p] \in Seq(Sample) /\ Frame(p, size) \in Seq(Sample)
      /\ Len(Frame(p, size)) = size /\ size \in Nat
      /\ \A i \in 1 .. size : Frame(p, size)[i].sample = pushed[p] + i
  BY FrameIs DEF TypeOK
<1> DEFINE samples == pending[p] \o Frame(p, size)
           dropped == Excess(samples)
           kept == SubSeq(samples, dropped + 1, Len(samples))
<1>2. /\ samples \in Seq(Sample) /\ Len(samples) = Len(pending[p]) + size
      /\ \A i \in 1 .. Len(pending[p]) : samples[i] = pending[p][i]
      /\ \A i \in 1 .. size : samples[Len(pending[p]) + i] = Frame(p, size)[i]
  <2>1. samples \in Seq(Sample) /\ Len(samples) = Len(pending[p]) + Len(Frame(p, size))
    BY <1>1
  <2> QED
    BY <1>1, <2>1
<1>3. /\ pending' = [pending EXCEPT ![p] = kept]
      /\ pushed' = [pushed EXCEPT ![p] = @ + size]
      /\ lossy' = IF dropped = 0 THEN lossy ELSE lossy \cup {p}
      /\ UNCHANGED <<out, read>>
  BY DEF Push
<1> HIDE DEF samples
<1>4. dropped \in 0 .. Len(samples)
  BY <1>2, ExcessBound
<1> HIDE DEF dropped
<1>5. /\ kept \in Seq(Sample) /\ Len(kept) = Len(samples) - dropped
      /\ \A i \in 1 .. Len(samples) - dropped : kept[i] = samples[dropped + i]
  BY <1>2, <1>4
<1> HIDE DEF kept
<1>6. pending'[p] = kept /\ \A q \in Publishers \ {p} : pending'[q] = pending[q]
  BY <1>3 DEF TypeOK
<1>7. /\ Len(pending[p]) \in Nat /\ dropped \in Nat /\ dropped <= Len(pending[p]) + size
      /\ DOMAIN kept = 1 .. Len(pending[p]) + size - dropped
  BY <1>1, <1>2, <1>4, <1>5
<1>8. ASSUME NEW i \in DOMAIN kept
      PROVE  kept[i].sample =
               IF i + dropped <= Len(pending[p])
               THEN pending[p][i + dropped].sample
               ELSE pushed[p] + (i + dropped - Len(pending[p]))
  <2>1. i \in Nat /\ kept[i] = samples[i + dropped] /\ i + dropped \in 1 .. Len(pending[p]) + size
    <3>1. i \in 1 .. Len(samples) - dropped /\ i \in Nat
      BY <1>1, <1>2, <1>7
    <3>2. kept[i] = samples[dropped + i]
      BY <1>5
    <3>3. dropped + i = i + dropped /\ i + dropped \in 1 .. Len(pending[p]) + size
      BY <1>1, <1>2, <1>7, <3>1
    <3> QED
      BY <3>1, <3>2, <3>3
  <2>2. CASE i + dropped <= Len(pending[p])
    <3>1. i + dropped \in 1 .. Len(pending[p])
      BY <2>1, <2>2
    <3> QED
      BY <1>2, <2>1, <3>1
  <2>3. CASE ~(i + dropped <= Len(pending[p]))
    <3>1. PICK k \in 1 .. size : k = i + dropped - Len(pending[p])
      BY <1>1, <1>7, <2>3
    <3>2. i + dropped = Len(pending[p]) + k
      BY <1>7, <3>1
    <3>3. samples[i + dropped] = Frame(p, size)[k]
      BY <1>2, <3>2
    <3> QED
      BY <1>1, <2>1, <2>3, <3>1, <3>3
  <2> QED
    BY <2>2, <2>3
<1> QED
  BY <1>1, <1>3, <1>6, <1>7, <1>8

\* What is pushed comes after all there was, and what is dropped leaves the rest in order.
LEMMA PushOrder ==
  ASSUME TypeOK, NEW p \in Publishers, NEW size \in Sizes, Push(p, size),
         \A q \in Publishers : Chain(q)
  PROVE  \A q \in Publishers : Chain(q)'
<1>1. PICK dropped \in Nat :
        /\ size \in Nat /\ dropped <= Len(pending[p]) + size
        /\ pushed' = [pushed EXCEPT ![p] = @ + size]
        /\ \A q \in Publishers \ {p} : pending'[q] = pending[q]
        /\ DOMAIN pending'[p] = 1 .. Len(pending[p]) + size - dropped
        /\ \A i \in DOMAIN pending'[p] :
             pending'[p][i].sample =
               IF i + dropped <= Len(pending[p])
               THEN pending[p][i + dropped].sample
               ELSE pushed[p] + (i + dropped - Len(pending[p]))
        /\ UNCHANGED <<out, read>>
  BY PushIs
<1>2. \A q \in Publishers \ {p} : Chain(q)'
  <2> SUFFICES ASSUME NEW q \in Publishers \ {p} PROVE Chain(q)'
    OBVIOUS
  <2>1. /\ pushed'[q] = pushed[q] /\ pending'[q] = pending[q] /\ read'[q] = read[q]
        /\ out' = out
    BY <1>1
  <2> QED
    BY <2>1 DEF Chain
<1>3. Chain(p)'
  <2>1. size \in Nat /\ pushed[p] \in Nat /\ read[p] \in Nat
    BY <1>1 DEF TypeOK
  <2>2. /\ pushed[p] \in Nat /\ read[p] \in Nat /\ pushed'[p] = pushed[p] + size
        /\ read'[p] = read[p] /\ out' = out
    BY <1>1 DEF TypeOK
  <2>3. /\ DOMAIN pending[p] = 1 .. Len(pending[p]) /\ Len(pending[p]) \in Nat
        /\ \A i \in DOMAIN pending[p] : pending[p][i].sample \in Nat
    <3>1. pending[p] \in Seq(Sample)
      BY DEF TypeOK
    <3> QED
      BY <3>1, NumbersAre
  <2>4. \A i \in DOMAIN out : \A j \in DOMAIN out[i][p] : out[i][p][j] \in Nat
    <3>1. \A i \in DOMAIN out : out[i][p] \in Seq(Nat)
      BY DEF TypeOK
    <3> QED
      BY <3>1
  <2>5. ASSUME NEW i \in DOMAIN pending'[p]
        PROVE  /\ i \in Nat /\ pending'[p][i].sample \in Nat
               /\ read[p] < pending'[p][i].sample
               /\ pending'[p][i].sample <= pushed[p] + size
               /\ \/ i + dropped \in DOMAIN pending[p]
                     /\ pending'[p][i].sample = pending[p][i + dropped].sample
                  \/ pending'[p][i].sample = pushed[p] + (i + dropped - Len(pending[p]))
                     /\ i + dropped > Len(pending[p])
    <3>1. i \in Nat /\ i >= 1 /\ i + dropped <= Len(pending[p]) + size
      BY <1>1
    <3>2. CASE i + dropped <= Len(pending[p])
      <4>1. i + dropped \in DOMAIN pending[p]
        BY <2>3, <3>1, <3>2
      <4>2. pending'[p][i].sample = pending[p][i + dropped].sample
        BY <1>1, <3>2
      <4>3. /\ read[p] < pending[p][i + dropped].sample
            /\ pending[p][i + dropped].sample <= pushed[p]
            /\ pending[p][i + dropped].sample \in Nat
        BY <2>3, <4>1 DEF Chain
      <4>4. pending[p][i + dropped].sample <= pushed[p] + size
        BY <2>1, <4>3
      <4> QED
        BY <3>1, <4>1, <4>2, <4>3, <4>4
    <3>3. CASE ~(i + dropped <= Len(pending[p]))
      <4>1. pending'[p][i].sample = pushed[p] + (i + dropped - Len(pending[p]))
        BY <1>1, <3>3
      <4>2. read[p] <= pushed[p]
        BY DEF Chain
      <4>3. PICK k \in 1 .. size : k = i + dropped - Len(pending[p])
        <5>1. i + dropped - Len(pending[p]) \in 1 .. size
          BY <2>1, <2>3, <3>1, <3>3
        <5> QED
          BY <5>1
      <4>4. pending'[p][i].sample = pushed[p] + k
        BY <4>1, <4>3
      <4>5. /\ pushed[p] + k \in Nat /\ read[p] < pushed[p] + k
            /\ pushed[p] + k <= pushed[p] + size
        BY <2>1, <4>2
      <4>6. i + dropped > Len(pending[p])
        BY <3>1, <3>3
      <4> QED
        BY <3>1, <4>1, <4>4, <4>5, <4>6
    <3> QED
      BY <3>2, <3>3
  <2>6. ASSUME NEW i \in DOMAIN pending'[p], NEW j \in DOMAIN pending'[p], i < j
        PROVE  pending'[p][i].sample < pending'[p][j].sample
    <3>1. CASE j + dropped \in DOMAIN pending[p]
               /\ pending'[p][j].sample = pending[p][j + dropped].sample
      <4>1. i + dropped \in DOMAIN pending[p] /\ i + dropped < j + dropped
            /\ pending'[p][i].sample = pending[p][i + dropped].sample
        BY <2>3, <2>5, <2>6, <3>1
      <4> QED
        BY <3>1, <4>1 DEF Chain
    <3>2. CASE pending'[p][j].sample = pushed[p] + (j + dropped - Len(pending[p]))
               /\ j + dropped > Len(pending[p])
      <4>1. pushed[p] < pending'[p][j].sample
        BY <2>2, <2>5, <3>2
      <4>2. CASE i + dropped \in DOMAIN pending[p]
                 /\ pending'[p][i].sample = pending[p][i + dropped].sample
        <5>1. pending'[p][i].sample <= pushed[p]
          BY <4>2 DEF Chain
        <5> QED
          BY <2>2, <2>5, <4>1, <5>1
      <4>3. CASE pending'[p][i].sample = pushed[p] + (i + dropped - Len(pending[p]))
        BY <2>2, <2>5, <2>6, <3>2, <4>3
      <4> QED
        BY <2>5, <4>2, <4>3
    <3> QED
      BY <2>5, <3>1, <3>2
  <2>7. ASSUME NEW i \in DOMAIN out, NEW j \in DOMAIN out[i][p], NEW k \in DOMAIN pending'[p]
        PROVE  out[i][p][j] < pending'[p][k].sample
    <3>1. CASE k + dropped \in DOMAIN pending[p]
               /\ pending'[p][k].sample = pending[p][k + dropped].sample
      BY <3>1 DEF Chain
    <3>2. CASE pending'[p][k].sample = pushed[p] + (k + dropped - Len(pending[p]))
               /\ k + dropped > Len(pending[p])
      <4>1. out[i][p][j] <= pushed[p]
        BY DEF Chain
      <4> QED
        BY <2>2, <2>4, <2>5, <3>2, <4>1
    <3> QED
      BY <2>5, <3>1, <3>2
  <2>8. ASSUME NEW i \in DOMAIN out, NEW j \in DOMAIN out[i][p]
        PROVE  out[i][p][j] <= pushed[p] + size
    <3>1. out[i][p][j] <= pushed[p]
      BY DEF Chain
    <3> QED
      BY <1>1, <2>2, <2>4, <3>1
  <2>9. read[p] <= pushed[p] + size
    BY <1>1, <2>2 DEF Chain
  <2> QED
    BY <2>2, <2>5, <2>6, <2>7, <2>8, <2>9 DEF Chain
<1> QED
  BY <1>2, <1>3

\* What a mix does to a publisher: the first samples of its buffer, which may be none, become
\* its part of the chunk at the end of the queue.
LEMMA MixIs ==
  ASSUME TypeOK, Mix
  PROVE  \E gone \in {0, 1} :
           /\ gone <= Len(out)
           /\ gone = 1 => \A p \in Publishers \ lossy' : out[1][p] = <<>>
           /\ lossy \subseteq lossy'
           /\ Len(out') = Len(out) - gone + 1
           /\ DOMAIN out' = 1 .. Len(out) - gone + 1
           /\ \A i \in 1 .. Len(out) - gone : out'[i] = out[i + gone]
           /\ \A p \in Publishers : \E g \in 0 .. Len(pending[p]) :
                /\ DOMAIN out'[Len(out')][p] = 1 .. g
                /\ \A j \in 1 .. g : out'[Len(out')][p][j] = pending[p][j].sample
                /\ DOMAIN pending'[p] = 1 .. Len(pending[p]) - g
                /\ \A j \in 1 .. Len(pending[p]) - g : pending'[p][j] = pending[p][j + g]
           /\ UNCHANGED <<pushed, read>>
<1>1. PICK gone \in {0, 1} :
        /\ gone = IF Len(out) < MaxChunks THEN 0 ELSE 1
        /\ gone <= Len(out)
        /\ out' \in Seq([Publishers -> Seq(Nat)])
        /\ Len(out') = Len(out) - gone + 1
        /\ \A i \in 1 .. Len(out) - gone : out'[i] = out[i + gone]
        /\ out'[Len(out')] = Chunk
  BY ChunkIs, QueueIs DEF Mix
<1>2. lossy \subseteq lossy' /\ UNCHANGED <<pushed, read>>
  BY DEF Mix
<1>3. ASSUME gone = 1, NEW p \in Publishers \ lossy' PROVE out[1][p] = <<>>
  <2>1. out # <<>> /\ out \in Seq([Publishers -> Seq(Nat)]) /\ ~(Len(out) < MaxChunks)
    BY <1>1, <1>3 DEF TypeOK
  <2> QED
    BY <2>1 DEF Mix
<1>4. ASSUME NEW p \in Publishers
      PROVE  \E g \in 0 .. Len(pending[p]) :
                /\ DOMAIN Chunk[p] = 1 .. g
                /\ \A j \in 1 .. g : Chunk[p][j] = pending[p][j].sample
                /\ DOMAIN pending'[p] = 1 .. Len(pending[p]) - g
                /\ \A j \in 1 .. Len(pending[p]) - g : pending'[p][j] = pending[p][j + g]
  <2>1. pending[p] \in Seq(Sample) /\ Len(pending[p]) \in Nat
        /\ DOMAIN pending[p] = 1 .. Len(pending[p])
    BY DEF TypeOK
  <2>2. CASE p \in attached
    <3>1. Gathered(p) \in 0 .. Len(pending[p]) /\ pending'[p] = Rest(p)
      BY <2>2, GatheredBound DEF Mix
    <3>2. Rest(p) \in Seq(Sample) /\ Len(Rest(p)) = Len(pending[p]) - Gathered(p)
          /\ \A j \in 1 .. Len(pending[p]) - Gathered(p) :
               Rest(p)[j] = pending[p][Gathered(p) + j]
      BY <2>1, <3>1, PartOfSeq DEF Rest
    <3>3. DOMAIN Rest(p) = 1 .. Len(pending[p]) - Gathered(p)
      BY <3>2
    <3>4. ASSUME NEW j \in 1 .. Len(pending[p]) - Gathered(p)
          PROVE  Rest(p)[j] = pending[p][j + Gathered(p)]
      <4>1. Gathered(p) + j = j + Gathered(p)
        BY <3>1
      <4> QED
        BY <3>2, <4>1
    <3> QED
      BY <2>2, <3>1, <3>3, <3>4, ChunkIs
  <2>3. CASE p \notin attached
    <3>1. Chunk[p] = <<>> /\ pending'[p] = pending[p]
      BY <2>3, ChunkIs DEF Mix
    <3>2. 0 \in 0 .. Len(pending[p]) /\ DOMAIN Chunk[p] = 1 .. 0
      BY <2>1, <3>1
    <3> QED
      BY <2>1, <3>1, <3>2
  <2> QED
    BY <2>2, <2>3
<1>5. DOMAIN out' = 1 .. Len(out) - gone + 1
  BY <1>1
<1> QED
  BY <1>1, <1>2, <1>3, <1>4, <1>5

\* What a mix takes off the front of a buffer goes to the end of the queue.
LEMMA MixOrder ==
  ASSUME TypeOK, Mix, \A p \in Publishers : Chain(p)
  PROVE  \A p \in Publishers : Chain(p)'
<1> SUFFICES ASSUME NEW p \in Publishers PROVE Chain(p)'
  OBVIOUS
<1>1. PICK gone \in {0, 1} :
        /\ gone <= Len(out)
        /\ Len(out') = Len(out) - gone + 1
        /\ DOMAIN out' = 1 .. Len(out) - gone + 1
        /\ \A i \in 1 .. Len(out) - gone : out'[i] = out[i + gone]
        /\ \E g \in 0 .. Len(pending[p]) :
             /\ DOMAIN out'[Len(out')][p] = 1 .. g
             /\ \A j \in 1 .. g : out'[Len(out')][p][j] = pending[p][j].sample
             /\ DOMAIN pending'[p] = 1 .. Len(pending[p]) - g
             /\ \A j \in 1 .. Len(pending[p]) - g : pending'[p][j] = pending[p][j + g]
        /\ UNCHANGED <<pushed, read>>
  BY MixIs
<1>2. PICK g \in 0 .. Len(pending[p]) :
        /\ DOMAIN out'[Len(out')][p] = 1 .. g
        /\ \A j \in 1 .. g : out'[Len(out')][p][j] = pending[p][j].sample
        /\ DOMAIN pending'[p] = 1 .. Len(pending[p]) - g
        /\ \A j \in 1 .. Len(pending[p]) - g : pending'[p][j] = pending[p][j + g]
  BY <1>1
<1>3. /\ Len(pending[p]) \in Nat /\ DOMAIN pending[p] = 1 .. Len(pending[p])
       /\ Len(out) \in Nat /\ DOMAIN out = 1 .. Len(out)
  <2>1. pending[p] \in Seq(Sample) /\ out \in Seq([Publishers -> Seq(Nat)])
    BY DEF TypeOK
  <2> QED
    BY <2>1
<1>4. ASSUME NEW i \in DOMAIN pending'[p]
      PROVE  i \in Nat \ {0} /\ i + g \in DOMAIN pending[p] /\ pending'[p][i] = pending[p][i + g]
  BY <1>2, <1>3
<1>5. ASSUME NEW i \in DOMAIN out'
      PROVE  \/ i = Len(out')
             \/ i \in Nat /\ i < Len(out') /\ i + gone \in DOMAIN out /\ out'[i] = out[i + gone]
  <2>1. gone \in Nat /\ i \in 1 .. Len(out) - gone + 1 /\ Len(out') = Len(out) - gone + 1
    BY <1>1
  <2>2. CASE i = Len(out) - gone + 1
    BY <2>1, <2>2
  <2>3. CASE i # Len(out) - gone + 1
    <3>1. i \in 1 .. Len(out) - gone
      BY <1>3, <2>1, <2>3
    <3>2. i \in Nat /\ i < Len(out') /\ i + gone \in DOMAIN out
      BY <1>3, <2>1, <3>1
    <3> QED
      BY <1>1, <3>2
  <2> QED
    BY <2>2, <2>3
<1>6. ASSUME NEW i \in DOMAIN out'[Len(out')][p]
      PROVE  /\ i \in DOMAIN pending[p] /\ i \in 1 .. g
             /\ out'[Len(out')][p][i] = pending[p][i].sample
  BY <1>2, <1>3
<1>7. ASSUME NEW i \in DOMAIN pending'[p]
      PROVE  /\ read[p] < pending'[p][i].sample /\ pending'[p][i].sample <= pushed[p]
             /\ \A j \in DOMAIN pending'[p] :
                  i < j => pending'[p][i].sample < pending'[p][j].sample
  <2>1. read[p] < pending'[p][i].sample /\ pending'[p][i].sample <= pushed[p]
    BY <1>4 DEF Chain
  <2>2. ASSUME NEW j \in DOMAIN pending'[p], i < j
        PROVE  pending'[p][i].sample < pending'[p][j].sample
    <3>1. i + g < j + g
      BY <1>4, <2>2
    <3> QED
      BY <1>4, <3>1 DEF Chain
  <2> QED
    BY <2>1, <2>2
<1>8. ASSUME NEW i \in DOMAIN out', NEW j \in DOMAIN out'[i][p]
      PROVE  /\ read[p] < out'[i][p][j] /\ out'[i][p][j] <= pushed[p]
             /\ \A k \in DOMAIN out'[i][p] : j < k => out'[i][p][j] < out'[i][p][k]
             /\ \A k \in DOMAIN pending'[p] : out'[i][p][j] < pending'[p][k].sample
             /\ \A m \in DOMAIN out' : i < m =>
                  \A k \in DOMAIN out'[m][p] : out'[i][p][j] < out'[m][p][k]
  <2>1. CASE i = Len(out')
    <3>1. ~\E m \in DOMAIN out' : i < m
      BY <1>1, <1>3, <2>1
    <3>2. \A k \in DOMAIN pending'[p] : j < k + g
      <4> SUFFICES ASSUME NEW k \in DOMAIN pending'[p] PROVE j < k + g
        OBVIOUS
      <4>1. k \in Nat \ {0} /\ j \in 1 .. g
        BY <1>4, <1>6, <2>1
      <4> QED
        BY <4>1
    <3>3. \A k \in DOMAIN pending'[p] : out'[i][p][j] < pending'[p][k].sample
      BY <1>4, <1>6, <2>1, <3>2 DEF Chain
    <3> QED
      BY <1>6, <2>1, <3>1, <3>3 DEF Chain
  <2>2. CASE i \in Nat /\ i < Len(out') /\ i + gone \in DOMAIN out /\ out'[i] = out[i + gone]
    <3>1. ASSUME NEW m \in DOMAIN out', i < m, NEW k \in DOMAIN out'[m][p]
          PROVE  out'[i][p][j] < out'[m][p][k]
      <4>1. CASE m = Len(out')
        BY <1>6, <2>2, <4>1 DEF Chain
      <4>2. CASE m \in Nat /\ m + gone \in DOMAIN out /\ out'[m] = out[m + gone]
        <5>1. gone \in Nat
          BY <1>1
        <5>2. i + gone < m + gone
          BY <2>2, <3>1, <4>2, <5>1
        <5> QED
          BY <2>2, <4>2, <5>2 DEF Chain
      <4> QED
        BY <1>5, <4>1, <4>2
    <3>2. \A k \in DOMAIN pending'[p] : out'[i][p][j] < pending'[p][k].sample
      BY <1>4, <2>2 DEF Chain
    <3>3. /\ read[p] < out'[i][p][j] /\ out'[i][p][j] <= pushed[p]
          /\ \A k \in DOMAIN out'[i][p] : j < k => out'[i][p][j] < out'[i][p][k]
      BY <2>2 DEF Chain
    <3> QED
      BY <3>1, <3>2, <3>3
  <2> QED
    BY <1>5, <2>1, <2>2
<1>9. pushed' = pushed /\ read' = read /\ read[p] <= pushed[p]
  BY <1>1 DEF Chain
<1> QED
  BY <1>7, <1>8, <1>9 DEF Chain

\* What is read is the oldest chunk, before all that is left.
LEMMA ReadOrder ==
  ASSUME TypeOK, Read, \A p \in Publishers : Chain(p)
  PROVE  \A p \in Publishers : Chain(p)'
<1> SUFFICES ASSUME NEW p \in Publishers PROVE Chain(p)'
  OBVIOUS
<1>1. /\ 1 \in DOMAIN out /\ out[1][p] \in Seq(Nat)
      /\ \A i \in DOMAIN out' : i \in Nat \ {0} /\ i + 1 \in DOMAIN out /\ out'[i] = out[i + 1]
      /\ read'[p] = IF out[1][p] = <<>> THEN read[p] ELSE out[1][p][Len(out[1][p])]
      /\ pending' = pending /\ pushed' = pushed
  <2>1. /\ 1 \in DOMAIN out
        /\ read'[p] = IF out[1][p] = <<>> THEN read[p] ELSE out[1][p][Len(out[1][p])]
    BY ReadIs
  <2>2. out[1][p] \in Seq(Nat)
    BY <2>1 DEF TypeOK
  <2>3. \A i \in DOMAIN out' : i \in Nat \ {0} /\ i + 1 \in DOMAIN out /\ out'[i] = out[i + 1]
    BY ReadIs
  <2> QED
    BY <2>1, <2>2, <2>3 DEF Read, buffers
<1>2. \A i \in DOMAIN out' : 1 < i + 1
  BY <1>1
<1>3. /\ read[p] <= read'[p]
      /\ \A i \in DOMAIN out' : \A j \in DOMAIN out'[i][p] : read'[p] < out'[i][p][j]
      /\ \A i \in DOMAIN pending[p] : read'[p] < pending[p][i].sample
      /\ read'[p] <= pushed[p]
  <2>1. CASE out[1][p] = <<>>
    <3>1. read'[p] = read[p]
      BY <1>1, <2>1
    <3>2. \A i \in DOMAIN out' : \A j \in DOMAIN out'[i][p] : read'[p] < out'[i][p][j]
      BY <1>1, <3>1 DEF Chain
    <3> QED
      BY <3>1, <3>2 DEF Chain, TypeOK
  <2>2. CASE out[1][p] # <<>>
    <3>1. Len(out[1][p]) \in DOMAIN out[1][p] /\ read'[p] = out[1][p][Len(out[1][p])]
      BY <1>1, <2>2
    <3>2. \A i \in DOMAIN out' : \A j \in DOMAIN out'[i][p] : read'[p] < out'[i][p][j]
      BY <1>1, <1>2, <3>1 DEF Chain
    <3>3. /\ read[p] < read'[p] /\ read'[p] <= pushed[p]
          /\ \A i \in DOMAIN pending[p] : read'[p] < pending[p][i].sample
      BY <1>1, <3>1 DEF Chain
    <3>4. read[p] \in Nat /\ read'[p] \in Nat
      BY <1>1, <3>1 DEF TypeOK
    <3> QED
      BY <3>2, <3>3, <3>4
  <2> QED
    BY <2>1, <2>2
<1>4. ASSUME NEW i \in DOMAIN out', NEW j \in DOMAIN out'[i][p]
      PROVE  /\ out'[i][p][j] <= pushed[p]
             /\ \A k \in DOMAIN out'[i][p] : j < k => out'[i][p][j] < out'[i][p][k]
             /\ \A k \in DOMAIN pending[p] : out'[i][p][j] < pending[p][k].sample
             /\ \A m \in DOMAIN out' : i < m =>
                  \A k \in DOMAIN out'[m][p] : out'[i][p][j] < out'[m][p][k]
  BY <1>1 DEF Chain
<1>5. \A i \in DOMAIN pending[p] : \A j \in DOMAIN pending[p] :
        /\ pending[p][i].sample <= pushed[p]
        /\ i < j => pending[p][i].sample < pending[p][j].sample
  BY DEF Chain
<1> QED
  BY <1>1, <1>3, <1>4, <1>5 DEF Chain

\* A publisher's buffer or the queue is thrown away: what is left was in order before.
LEMMA ClearOrder ==
  ASSUME TypeOK, \A p \in Publishers : Chain(p),
         \A p \in Publishers : pending'[p] = pending[p] \/ pending'[p] = <<>>,
         out' = out \/ out' = <<>>,
         UNCHANGED <<pushed, read>>
  PROVE  \A p \in Publishers : Chain(p)'
<1> SUFFICES ASSUME NEW p \in Publishers PROVE Chain(p)'
  OBVIOUS
<1> QED
  BY DEF Chain

------------------------------------------------------------------------------
(* Loss.                                                                   *)

\* ToCome, sample by sample.
Kept(n, p) ==
  \/ \E i \in DOMAIN pending[p] : pending[p][i].sample = n
  \/ \E i \in DOMAIN out : \E j \in DOMAIN out[i][p] : out[i][p][j] = n

\* What is to come, place by place.
LEMMA ToComeIsKept ==
  ASSUME TypeOK, NEW p \in Publishers, NEW n
  PROVE  ToCome(n, p) <=> Kept(n, p)
<1>1. pending[p] \in Seq(Sample)
  BY DEF TypeOK
<1>2. DOMAIN Numbers(pending[p]) = DOMAIN pending[p]
      /\ \A i \in DOMAIN pending[p] : Numbers(pending[p])[i] = pending[p][i].sample
  BY <1>1, NumbersAre
<1> QED
  BY <1>2 DEF ToCome, Kept, Within

\* NothingLost, place by place.
LossInv == \A p \in Publishers \ lossy : \A n \in read[p] + 1 .. pushed[p] : Kept(n, p)

\* So the property and its form by places are one.
LEMMA LossIsLossInv == TypeOK => (NothingLost <=> LossInv)
  BY ToComeIsKept DEF NothingLost, LossInv

\* A push that drops nothing keeps every sample and adds its own.
LEMMA PushLoss ==
  ASSUME TypeOK, NEW p \in Publishers, NEW size \in Sizes, Push(p, size), LossInv
  PROVE  LossInv'
<1> SUFFICES ASSUME NEW q \in Publishers \ lossy', NEW n \in read'[q] + 1 .. pushed'[q]
             PROVE  Kept(n, q)'
  BY DEF LossInv
<1>1. PICK dropped \in Nat :
        /\ size \in Nat /\ dropped <= Len(pending[p]) + size
        /\ dropped # 0 => p \in lossy'
        /\ lossy \subseteq lossy'
        /\ pushed' = [pushed EXCEPT ![p] = @ + size]
        /\ \A r \in Publishers \ {p} : pending'[r] = pending[r]
        /\ DOMAIN pending'[p] = 1 .. Len(pending[p]) + size - dropped
        /\ \A i \in DOMAIN pending'[p] :
             pending'[p][i].sample =
               IF i + dropped <= Len(pending[p])
               THEN pending[p][i + dropped].sample
               ELSE pushed[p] + (i + dropped - Len(pending[p]))
        /\ UNCHANGED <<out, read>>
  BY PushIs
<1>2. q \in Publishers \ lossy
  BY <1>1
<1>3. CASE q # p
  <2>1. pending'[q] = pending[q] /\ pushed'[q] = pushed[q] /\ out' = out /\ read' = read
    BY <1>1, <1>3
  <2>2. Kept(n, q)
    BY <1>2, <2>1 DEF LossInv
  <2> QED
    BY <2>1, <2>2 DEF Kept
<1>4. CASE q = p
  <2>1. /\ dropped = 0 /\ size \in Nat /\ pushed[p] \in Nat /\ read[p] \in Nat
        /\ pushed'[p] = pushed[p] + size /\ read' = read /\ out' = out
        /\ pending[p] \in Seq(Sample)
    BY <1>1, <1>4 DEF TypeOK
  <2>2. /\ Len(pending[p]) \in Nat /\ DOMAIN pending[p] = 1 .. Len(pending[p])
        /\ DOMAIN pending'[p] = 1 .. Len(pending[p]) + size
    BY <1>1, <2>1
  <2>3. n \in Nat /\ n >= read[p] + 1 /\ n <= pushed[p] + size
    BY <1>4, <2>1
  <2>4. CASE n <= pushed[p]
    <3>1. Kept(n, p)
      BY <1>2, <1>4, <2>3, <2>4 DEF LossInv
    <3>2. ASSUME NEW i \in DOMAIN pending[p]
          PROVE  i \in DOMAIN pending'[p] /\ pending'[p][i].sample = pending[p][i].sample
      <4>1. i \in DOMAIN pending'[p] /\ i + dropped = i /\ i <= Len(pending[p])
        BY <2>1, <2>2
      <4> QED
        BY <1>1, <4>1
    <3> QED
      BY <1>4, <2>1, <3>1, <3>2 DEF Kept
  <2>5. CASE ~(n <= pushed[p])
    <3> DEFINE k == n - pushed[p]
               i == Len(pending[p]) + k
    <3>1. k \in 1 .. size /\ n = pushed[p] + k
      BY <2>1, <2>3, <2>5
    <3>2. i \in DOMAIN pending'[p]
      BY <2>1, <2>2, <3>1
    <3>3. ~(i + dropped <= Len(pending[p])) /\ i + dropped - Len(pending[p]) = k
      BY <2>1, <3>1
    <3>4. pending'[p][i].sample = pushed[p] + (i + dropped - Len(pending[p]))
      BY <1>1, <3>2, <3>3
    <3>5. pending'[p][i].sample = n
      BY <3>1, <3>3, <3>4
    <3> QED
      BY <1>4, <3>2, <3>5 DEF Kept
  <2> QED
    BY <2>4, <2>5
<1> QED
  BY <1>3, <1>4

\* A mix moves samples from the buffer to the queue; a full queue loses a chunk, which counts.
LEMMA MixLoss ==
  ASSUME TypeOK, Mix, LossInv
  PROVE  LossInv'
<1> SUFFICES ASSUME NEW p \in Publishers \ lossy', NEW n \in read'[p] + 1 .. pushed'[p]
             PROVE  Kept(n, p)'
  BY DEF LossInv
<1>1. PICK gone \in {0, 1} :
        /\ gone <= Len(out)
        /\ gone = 1 => out[1][p] = <<>>
        /\ lossy \subseteq lossy'
        /\ Len(out') = Len(out) - gone + 1
        /\ DOMAIN out' = 1 .. Len(out) - gone + 1
        /\ \A i \in 1 .. Len(out) - gone : out'[i] = out[i + gone]
        /\ \E g \in 0 .. Len(pending[p]) :
             /\ DOMAIN out'[Len(out')][p] = 1 .. g
             /\ \A j \in 1 .. g : out'[Len(out')][p][j] = pending[p][j].sample
             /\ DOMAIN pending'[p] = 1 .. Len(pending[p]) - g
             /\ \A j \in 1 .. Len(pending[p]) - g : pending'[p][j] = pending[p][j + g]
        /\ UNCHANGED <<pushed, read>>
  BY MixIs
<1>2. PICK g \in 0 .. Len(pending[p]) :
        /\ DOMAIN out'[Len(out')][p] = 1 .. g
        /\ \A j \in 1 .. g : out'[Len(out')][p][j] = pending[p][j].sample
        /\ DOMAIN pending'[p] = 1 .. Len(pending[p]) - g
        /\ \A j \in 1 .. Len(pending[p]) - g : pending'[p][j] = pending[p][j + g]
  BY <1>1
<1>3. /\ Len(out) \in Nat /\ DOMAIN out = 1 .. Len(out) /\ gone \in Nat
      /\ Len(pending[p]) \in Nat /\ DOMAIN pending[p] = 1 .. Len(pending[p])
      /\ g \in Nat /\ g <= Len(pending[p]) /\ Len(out') \in DOMAIN out'
  <2>1. pending[p] \in Seq(Sample) /\ out \in Seq([Publishers -> Seq(Nat)])
    BY DEF TypeOK
  <2> QED
    BY <1>1, <1>2, <2>1
<1>4. Kept(n, p)
  BY <1>1 DEF LossInv
<1>5. CASE \E i \in DOMAIN pending[p] : pending[p][i].sample = n
  <2>1. PICK i \in DOMAIN pending[p] : pending[p][i].sample = n
    BY <1>5
  <2>2. CASE i <= g
    <3>1. i \in 1 .. g
      BY <1>3, <2>1, <2>2
    <3> QED
      BY <1>2, <1>3, <2>1, <3>1 DEF Kept
  <2>3. CASE ~(i <= g)
    <3>1. i - g \in 1 .. Len(pending[p]) - g /\ (i - g) + g = i
      BY <1>3, <2>1, <2>3
    <3> QED
      BY <1>2, <2>1, <3>1 DEF Kept
  <2> QED
    BY <2>2, <2>3
<1>6. CASE \E i \in DOMAIN out : \E j \in DOMAIN out[i][p] : out[i][p][j] = n
  <2>1. PICK i \in DOMAIN out : \E j \in DOMAIN out[i][p] : out[i][p][j] = n
    BY <1>6
  <2>2. ~(i <= gone)
    <3>1. SUFFICES ASSUME i <= gone PROVE FALSE
      OBVIOUS
    <3>2. i = 1 /\ gone = 1
      BY <1>3, <3>1
    <3> QED
      BY <1>1, <2>1, <3>2
  <2>3. i - gone \in 1 .. Len(out) - gone /\ (i - gone) + gone = i
    BY <1>3, <2>1, <2>2
  <2>4. i - gone \in DOMAIN out'
    <3>1. \A k \in 1 .. Len(out) - gone : k \in 1 .. Len(out) - gone + 1
      BY <1>3
    <3> QED
      BY <1>1, <2>3, <3>1
  <2>5. out'[i - gone] = out[i]
    BY <1>1, <2>3
  <2> QED
    BY <2>1, <2>4, <2>5 DEF Kept
<1> QED
  BY <1>4, <1>5, <1>6 DEF Kept

\* Reading a chunk passes no sample over.
LEMMA ReadLoss ==
  ASSUME TypeOK, Read, LossInv, \A p \in Publishers : Chain(p)
  PROVE  LossInv'
<1>1. lossy' = lossy /\ pushed' = pushed /\ pending' = pending
  BY DEF Read, buffers
<1> SUFFICES ASSUME NEW p \in Publishers \ lossy, NEW n \in read'[p] + 1 .. pushed[p]
             PROVE  Kept(n, p)'
  BY <1>1 DEF LossInv
<1>2. /\ 1 \in DOMAIN out /\ DOMAIN out = 1 .. Len(out) /\ Len(out) \in Nat
      /\ DOMAIN out' = 1 .. Len(out) - 1
      /\ \A i \in DOMAIN out' : out'[i] = out[i + 1]
      /\ read'[p] = IF out[1][p] = <<>> THEN read[p] ELSE out[1][p][Len(out[1][p])]
  <2>1. out \in Seq([Publishers -> Seq(Nat)])
    BY DEF TypeOK
  <2>2. out' \in Seq([Publishers -> Seq(Nat)])
    BY ReadIs
  <2>3. Len(out') = Len(out) - 1
    BY ReadIs
  <2>4. /\ 1 \in DOMAIN out
        /\ \A i \in DOMAIN out' : out'[i] = out[i + 1]
        /\ read'[p] = IF out[1][p] = <<>> THEN read[p] ELSE out[1][p][Len(out[1][p])]
    BY ReadIs
  <2>5. DOMAIN out = 1 .. Len(out) /\ Len(out) \in Nat
    BY <2>1
  <2>6. DOMAIN out' = 1 .. Len(out')
    BY <2>2
  <2> QED
    BY <2>3, <2>4, <2>5, <2>6
<1>3. /\ out[1][p] \in Seq(Nat) /\ read[p] \in Nat /\ pushed[p] \in Nat
      /\ \A j \in DOMAIN out[1][p] : out[1][p][j] \in Nat
  <2>1. out[1][p] \in Seq(Nat) /\ read[p] \in Nat /\ pushed[p] \in Nat
    BY <1>2 DEF TypeOK
  <2> QED
    BY <2>1
<1>4. read[p] <= read'[p] /\ \A j \in DOMAIN out[1][p] : out[1][p][j] <= read'[p]
  <2>1. CASE out[1][p] = <<>>
    BY <1>2, <1>3, <2>1
  <2>2. CASE out[1][p] # <<>>
    <3>1. /\ Len(out[1][p]) \in DOMAIN out[1][p]
          /\ \A j \in DOMAIN out[1][p] : j = Len(out[1][p]) \/ j < Len(out[1][p])
      BY <1>3, <2>2
    <3>2. read'[p] = out[1][p][Len(out[1][p])] /\ read'[p] \in Nat
      BY <1>2, <1>3, <3>1
    <3>3. ASSUME NEW j \in DOMAIN out[1][p] PROVE out[1][p][j] <= read'[p]
      <4>1. j < Len(out[1][p]) => out[1][p][j] < read'[p]
        BY <1>2, <3>1, <3>2 DEF Chain
      <4> QED
        BY <1>3, <3>2, <4>1
    <3>4. read[p] < read'[p]
      BY <1>2, <3>1 DEF Chain
    <3> QED
      BY <1>3, <3>2, <3>3, <3>4
  <2> QED
    BY <2>1, <2>2
<1>5. n \in read[p] + 1 .. pushed[p] /\ n > read'[p] /\ n \in Nat
  <2>1. read'[p] \in Nat
    BY <1>2, <1>3
  <2> QED
    BY <1>3, <1>4, <2>1
<1>6. Kept(n, p)
  BY <1>5 DEF LossInv
<1>7. CASE \E i \in DOMAIN pending[p] : pending[p][i].sample = n
  BY <1>1, <1>7 DEF Kept
<1>8. CASE \E i \in DOMAIN out : \E j \in DOMAIN out[i][p] : out[i][p][j] = n
  <2>1. PICK i \in DOMAIN out : \E j \in DOMAIN out[i][p] : out[i][p][j] = n
    BY <1>8
  <2>2. i # 1
    <3>1. read'[p] \in Nat
      BY <1>2, <1>3
    <3> QED
      BY <1>4, <2>1, <3>1
  <2>3. i - 1 \in DOMAIN out' /\ (i - 1) + 1 = i
    BY <1>2, <2>2
  <2>4. out'[i - 1] = out[i]
    BY <1>2, <2>3
  <2> QED
    BY <2>1, <2>3, <2>4 DEF Kept
<1> QED
  BY <1>6, <1>7, <1>8 DEF Kept

\* Whose samples are thrown away is lossy, and the others' stay where they were.
LEMMA ClearLoss ==
  ASSUME TypeOK, LossInv, lossy \subseteq lossy',
         \A p \in Publishers \ lossy' : pending'[p] = pending[p] /\ out' = out,
         UNCHANGED <<pushed, read>>
  PROVE  LossInv'
  BY DEF LossInv, Kept

------------------------------------------------------------------------------
(* The inductive invariant.                                                *)

\* A mixer begins with nothing.
LEMMA InitIInv == Init => IInv
<1> SUFFICES ASSUME Init PROVE IInv
  OBVIOUS
<1>1. \A p \in Publishers : pending[p] = <<>> /\ count[p] = 0 /\ pushed[p] = 0 /\ read[p] = 0
  BY DEF Init
<1>2. out = <<>> /\ lossy = {}
  BY DEF Init
<1>3. TypeOK
  <2>1. pending \in [Publishers -> Seq(Sample)] /\ count \in [Publishers -> 0 .. Limit]
    BY LimitIsNatural DEF Init
  <2>2. out \in Seq([Publishers -> Seq(Nat)]) /\ Len(out) <= MaxChunks
    BY MixerAssumption DEF Init
  <2> QED
    BY <2>1, <2>2 DEF Init, TypeOK
<1>4. OrderInv
  <2>1. \A p \in Publishers : Chain(p)
    BY <1>1, <1>2 DEF Chain
  <2> QED
    BY <1>3, <2>1, OrderIsChain
<1>5. NothingLost
  BY <1>1 DEF NothingLost
<1>6. CountIsExact /\ EmptyInv
  BY <1>1 DEF CountIsExact, EmptyInv
<1> QED
  BY <1>4, <1>5, <1>6 DEF IInv

\* Each action keeps the counter, the order and, below the limits, every sample.
LEMMA NextIInv ==
  ASSUME TypeOK, TypeOK', CountIsExact', IInv, [Next]_vars
  PROVE  IInv'
<1>1. LossInv /\ (\A p \in Publishers : Chain(p)) /\ EmptyInv
  BY LossIsLossInv, OrderIsChain DEF IInv
<1>2. ASSUME LossInv', (\A p \in Publishers : Chain(p))', EmptyInv' PROVE IInv'
  <2>1. OrderInv'
    BY <1>2, OrderIsChain, PTL
  <2>2. NothingLost'
    BY <1>2, LossIsLossInv, PTL
  <2> QED
    BY <1>2, <2>1, <2>2 DEF IInv
<1>3. ASSUME NEW p \in Publishers, Attach(p) PROVE IInv'
  <2>1. UNCHANGED <<pending, out, pushed, read, lossy>>
    BY <1>3 DEF Attach, history
  <2>2. EmptyInv'
    BY <1>1, <1>3 DEF Attach, EmptyInv
  <2> QED
    BY <1>1, <1>2, <2>1, <2>2, ClearOrder, ClearLoss
<1>4. ASSUME NEW p \in Publishers, Detach(p) PROVE IInv'
  <2>1. /\ pending' = [pending EXCEPT ![p] = <<>>]
        /\ lossy' = IF pending[p] = <<>> THEN lossy ELSE lossy \cup {p}
        /\ attached' = attached \ {p}
        /\ UNCHANGED <<out, pushed, read>>
    BY <1>4 DEF Detach, Discard
  <2>2. \A q \in Publishers : pending'[q] = IF q = p THEN <<>> ELSE pending[q]
    BY <2>1 DEF TypeOK
  <2>3. EmptyInv'
    BY <1>1, <2>1, <2>2 DEF EmptyInv
  <2> QED
    BY <1>1, <1>2, <2>1, <2>3, ClearOrder, ClearLoss
<1>5. ASSUME NEW p \in Publishers, TrackEnds(p) PROVE IInv'
  <2>1. UNCHANGED <<attached, pending, out, pushed, read, lossy>>
    BY <1>5 DEF TrackEnds, history
  <2>2. EmptyInv'
    BY <1>1, <2>1 DEF EmptyInv
  <2> QED
    BY <1>1, <1>2, <2>1, <2>2, ClearOrder, ClearLoss
<1>6. ASSUME NEW p \in Publishers, NEW size \in Sizes, Push(p, size) PROVE IInv'
  <2>1. p \in attached /\ attached' = attached
        /\ \A q \in Publishers \ {p} : pending'[q] = pending[q]
    BY <1>6 DEF Push
  <2>2. EmptyInv'
    BY <1>1, <2>1 DEF EmptyInv
  <2> QED
    BY <1>1, <1>2, <1>6, <2>2, PushOrder, PushLoss
<1>7. CASE Mix
  <2>1. EmptyInv'
    BY <1>1, <1>7 DEF Mix, EmptyInv
  <2> QED
    BY <1>1, <1>2, <1>7, <2>1, MixOrder, MixLoss
<1>8. CASE Read
  <2>1. EmptyInv'
    BY <1>1, <1>8 DEF Read, buffers, EmptyInv
  <2> QED
    BY <1>1, <1>2, <1>8, <2>1, ReadOrder, ReadLoss
<1>9. CASE Close
  <2>1. /\ \A p \in Publishers : pending'[p] = <<>>
        /\ out' = <<>> /\ lossy' = Publishers
        /\ UNCHANGED <<pushed, read>>
    BY <1>9 DEF Close
  <2>2. EmptyInv'
    BY <2>1 DEF EmptyInv
  <2>3. LossInv'
    BY <2>1 DEF LossInv
  <2> QED
    BY <1>1, <1>2, <2>1, <2>2, <2>3, ClearOrder
<1>10. CASE UNCHANGED vars
  <2>1. UNCHANGED <<attached, pending, out, pushed, read, lossy>>
    BY <1>10 DEF vars, buffers, history
  <2>2. EmptyInv'
    BY <1>1, <2>1 DEF EmptyInv
  <2> QED
    BY <1>1, <1>2, <2>1, <2>2, ClearOrder, ClearLoss
<1> QED
  BY <1>3, <1>4, <1>5, <1>6, <1>7, <1>8, <1>9, <1>10 DEF Next

\* The strengthening holds in every reachable state.
THEOREM Inductive == Spec => []IInv
<1>1. TypeOK /\ CountIsExact /\ (TypeOK /\ CountIsExact)' /\ IInv /\ [Next]_vars => IInv'
  BY NextIInv
<1> QED
  BY <1>1, InitIInv, TypeCorrect, PTL DEF Spec

------------------------------------------------------------------------------
(* The safety properties the run checks.                                   *)

\* audio_mixer.py: the counter that take() and the limit go by is the number of samples in
\* the arrays, whatever is pushed, dropped, taken in part and thrown away.
THEOREM ExactCounter == Spec => []CountIsExact
<1> QED
  BY TypeCorrect, PTL

\* No publisher's samples are mixed twice or out of order, for any number of publishers.
THEOREM InSpokenOrder == Spec => []SpokenOrder
<1>1. IInv => SpokenOrder
  BY DEF IInv, OrderInv
<1> QED
  BY <1>1, Inductive, PTL

\* Of a publisher below the limits who does not leave, every sample is read or to come.
THEOREM Lossless == Spec => []NothingLost
<1>1. IInv => NothingLost
  BY DEF IInv
<1> QED
  BY <1>1, Inductive, PTL
==============================================================================
