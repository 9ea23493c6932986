-------------------------------- MODULE Mixer --------------------------------
(***************************************************************************)
(* The audio mixer of one call (lib/audio_mixer.py): a buffer and a puller *)
(* task per publisher, a clock task that mixes a chunk from every buffer,  *)
(* and the bounded queue the speech connection reads.                      *)
(*                                                                         *)
(* A sample is its number among the samples of its publisher, and the      *)
(* number of the frame it came in: frames are dropped whole, and taken in  *)
(* part.  A mixed chunk keeps what each publisher put into it; adding and  *)
(* clipping the amplitudes, resampling and the pace of the clock are left  *)
(* out.                                                                    *)
(***************************************************************************)
EXTENDS Texts, SequencesExt

CONSTANTS
  Publishers,
  Sizes,        \* the sizes of a frame, in samples
  ChunkSamples, \* CHUNK_SAMPLES
  MaxChunks,    \* MIXER_MAX_BUFFER_CHUNKS, per publisher and on the output
  MaxSamples    \* bound: samples of all publishers together

ASSUME MixerAssumption ==
  /\ Sizes \subseteq Nat \ {0}
  /\ ChunkSamples \in Nat \ {0} /\ MaxChunks \in Nat \ {0} /\ MaxSamples \in Nat

VARIABLES
  attached,  \* the publishers with a buffer
  pending,   \* _pending, the samples of its arrays one after the other
  count,     \* _pending_samples
  ended,     \* the publishers whose puller is over
  out,       \* _out
  closed,    \* _closed
  pushed,    \* history: the samples each publisher has delivered
  read,      \* history: the last sample of each publisher that was read, 0 at first
  lossy      \* history: the publishers of whose samples some were dropped

buffers == <<attached, pending, count, ended>>
history == <<pushed, read, lossy>>
vars    == <<buffers, out, closed, history>>

Sample == [frame : Nat, sample : Nat]

Limit == ChunkSamples * MaxChunks

TypeOK ==
  /\ attached \subseteq Publishers
  /\ pending \in [Publishers -> Seq(Sample)]
  /\ count \in [Publishers -> 0 .. Limit]
  /\ ended \subseteq attached
  /\ out \in Seq([Publishers -> Seq(Nat)]) /\ Len(out) <= MaxChunks
  /\ closed \in BOOLEAN
  /\ pushed \in [Publishers -> Nat]
  /\ read \in [Publishers -> Nat]
  /\ lossy \subseteq Publishers

Init ==
  /\ attached = {} /\ ended = {}
  /\ pending = [p \in Publishers |-> <<>>]
  /\ count = [p \in Publishers |-> 0]
  /\ out = <<>> /\ closed = FALSE
  /\ pushed = [p \in Publishers |-> 0]
  /\ read = [p \in Publishers |-> 0]
  /\ lossy = {}

------------------------------------------------------------------------------
(* Publishers come and go.                                                 *)

\* attach; a publisher that has a buffer keeps it, also one whose track has ended.  Nothing
\* keeps a closed mixer from taking publishers.
Attach(p) ==
  /\ p \notin attached
  /\ attached' = attached \cup {p}
  /\ UNCHANGED <<pending, count, ended, out, closed, history>>

\* The buffer goes, with what nobody has mixed yet.
Discard(p) ==
  /\ pending' = [pending EXCEPT ![p] = <<>>]
  /\ count' = [count EXCEPT ![p] = 0]
  /\ lossy' = IF pending[p] = <<>> THEN lossy ELSE lossy \cup {p}

Detach(p) ==
  /\ p \in attached
  /\ attached' = attached \ {p}
  /\ ended' = ended \ {p}
  /\ Discard(p)
  /\ UNCHANGED <<out, closed, pushed, read>>

\* The track is over, or draining it failed: the puller ends, the buffer stays.
TrackEnds(p) ==
  /\ p \in attached \ ended
  /\ ended' = ended \cup {p}
  /\ UNCHANGED <<attached, pending, count, out, closed, history>>

------------------------------------------------------------------------------
(* _TrackBuffer.                                                           *)

Frame(p, size) ==
  [i \in 1 .. size |-> [frame |-> pushed[p] + 1, sample |-> pushed[p] + i]]

Boundary(samples, k) ==
  k \in {0, Len(samples)} \/ samples[k].frame # samples[k + 1].frame

\* How many samples the oldest frames hold that have to go to be within the limit.
Excess(samples) ==
  Min({k \in 0 .. Len(samples) : Boundary(samples, k) /\ Len(samples) - k <= Limit})

\* Mutant: what is dropped is still counted.
CountPushed(p, size, dropped) == count' = [count EXCEPT ![p] = @ + size]

CountKept(p, size, dropped) == count' = [count EXCEPT ![p] = @ + size - dropped]

Delivered == FoldFunction(+, 0, pushed)

\* push: the frame is buffered; over the limit, the oldest frames are dropped.
Push(p, size) ==
  LET samples == pending[p] \o Frame(p, size)
      dropped == Excess(samples)
  IN  /\ p \in attached \ ended
      /\ Delivered + size <= MaxSamples
      /\ pushed' = [pushed EXCEPT ![p] = @ + size]
      /\ pending' = [pending EXCEPT ![p] = SubSeq(samples, dropped + 1, Len(samples))]
      /\ CountKept(p, size, dropped)
      /\ lossy' = IF dropped = 0 THEN lossy ELSE lossy \cup {p}
      /\ UNCHANGED <<attached, ended, out, closed, read>>

\* Mutant: a publisher has nothing to give until a whole chunk is there.
GatheredWhole(p) == IF Len(pending[p]) < ChunkSamples THEN 0 ELSE ChunkSamples

\* take: as many samples as there are, up to a chunk; the rest of it is silence.
Gathered(p) ==
  IF count[p] = 0 THEN 0 ELSE Min({Len(pending[p]), ChunkSamples})

\* Mutant: the frame that was taken in part stays whole.
RestWithFrame(p) ==
  LET k == Max({k \in 0 .. Gathered(p) : Boundary(pending[p], k)})
  IN  SubSeq(pending[p], k + 1, Len(pending[p]))

\* Mutant: the frame that was taken in part goes whole.
RestLessFrame(p) ==
  LET k == Min({k \in Gathered(p) .. Len(pending[p]) : Boundary(pending[p], k)})
  IN  SubSeq(pending[p], k + 1, Len(pending[p]))

\* What take leaves: the rest of the frame it took in part, and the frames after it.
Rest(p) == SubSeq(pending[p], Gathered(p) + 1, Len(pending[p]))

------------------------------------------------------------------------------
(* The clock and the reader.                                               *)

\* A full queue loses its oldest chunk.
Queue(chunk) == out' = Append(IF Len(out) < MaxChunks THEN out ELSE Tail(out), chunk)

Numbers(samples) == [i \in DOMAIN samples |-> samples[i].sample]

Chunk == [p \in Publishers |->
            IF p \in attached THEN Numbers(SubSeq(pending[p], 1, Gathered(p))) ELSE <<>>]

\* One slice from every buffer, also from that of a publisher who has nothing to give.
Mix ==
  /\ ~closed
  /\ attached # {}
  /\ pending' = [p \in Publishers |->
       IF p \in attached THEN Rest(p) ELSE pending[p]]
  /\ count' = [p \in Publishers |-> IF p \in attached THEN count[p] - Gathered(p) ELSE count[p]]
  /\ Queue(Chunk)
  /\ lossy' = IF Len(out) < MaxChunks
              THEN lossy
              ELSE lossy \cup {p \in Publishers : Head(out)[p] # <<>>}
  /\ UNCHANGED <<attached, ended, closed, pushed, read>>

Read ==
  /\ out # <<>>
  /\ out' = Tail(out)
  /\ read' = [p \in Publishers |-> IF Head(out)[p] = <<>> THEN read[p] ELSE Last(Head(out)[p])]
  /\ UNCHANGED <<buffers, closed, pushed, lossy>>

\* The clock is stopped, then the pullers, and what is left is thrown away.
Close ==
  /\ ~closed
  /\ closed' = TRUE
  /\ attached' = {} /\ ended' = {}
  /\ pending' = [p \in Publishers |-> <<>>]
  /\ count' = [p \in Publishers |-> 0]
  /\ out' = <<>>
  /\ lossy' = Publishers
  /\ UNCHANGED <<pushed, read>>

Next ==
  \/ \E p \in Publishers : Attach(p) \/ Detach(p) \/ TrackEnds(p) \/ \E size \in Sizes : Push(p, size)
  \/ Mix \/ Read \/ Close

Spec == Init /\ [][Next]_vars

\* The clock ticks; nobody has to read.
FairSpec == Spec /\ WF_vars(Mix)

------------------------------------------------------------------------------
(* Properties.                                                             *)

\* The samples of a publisher follow each other: the last one read, those in the queue, chunk
\* after chunk, and those waiting to be mixed.
InOrder(p) ==
  LET waiting == Numbers(pending[p]) IN
  /\ Ordered(waiting)
  /\ Before(<<read[p]>>, waiting)
  /\ \A i \in DOMAIN out :
       /\ Ordered(out[i][p])
       /\ Before(<<read[p]>>, out[i][p])
       /\ Before(out[i][p], waiting)
       /\ \A j \in DOMAIN out : i < j => Before(out[i][p], out[j][p])

\* The provider hears every publisher in the order of speaking, and no sample twice,
\* whatever overflows and whoever leaves and comes back.
SpokenOrder == \A p \in Publishers : InOrder(p)

ToCome(n, p) ==
  Within(n, Numbers(pending[p])) \/ \E i \in DOMAIN out : Within(n, out[i][p])

\* As long as nothing of a publisher's overflows and it does not leave, each of its samples is
\* read or still to come: none is lost where a frame is taken in part, nor where a chunk is
\* longer than what is there.
NothingLost ==
  \A p \in Publishers \ lossy : \A n \in read[p] + 1 .. pushed[p] : ToCome(n, p)

\* The sample counter, which take() trusts, is the number of samples in the arrays.
CountIsExact == \A p \in Publishers : count[p] = Len(pending[p])

\* The oldest sample does not stay the oldest for ever: what is buffered is mixed, also when
\* the track has ended or there is less of it than a chunk.
BufferedIsMixed ==
  \A p \in Publishers : \A n \in 1 .. MaxSamples :
    pending[p] # <<>> /\ Head(pending[p]).sample = n
      ~> closed \/ pending[p] = <<>> \/ Head(pending[p]).sample # n
==============================================================================
