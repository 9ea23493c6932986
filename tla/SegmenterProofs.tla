--------------------------- MODULE SegmenterProofs ---------------------------
(***************************************************************************)
(* What the runs of Segmenter show on small constants, proved for every    *)
(* value of the constants: the stored segments are numbered without a      *)
(* hole, in spoken order and without overlap; they tile the call and skip  *)
(* nothing as long as every post got its answer; and the segmenter         *)
(* implements the abstract transcript.                                     *)
(***************************************************************************)
EXTENDS Segmenter, TLAPS

Lossy == unanswered \/ cancelled

\* Every text on its way or stored: words in spoken order, all of them confirmed, all
\* earlier than what is still in the buffer.
TextOK(text) ==
  /\ Ordered(text)
  /\ Before(text, parts)
  /\ \A i \in DOMAIN text : text[i] \in 1 .. heard

\* A request is the one being waited on only while a post is in progress.
PostInv ==
  /\ Posting => /\ post.sequence = sequence + 1
                /\ post.from = cursor
                /\ cursor < post.to
                /\ post.to <= EndedMs
                /\ carried = <<>>
  /\ ~Posting => post = NoRequest /\ answer = "none"
  /\ answer = "accepted" => sequence + 1 \in DOMAIN rows

\* What a request for the next number says, be it on the wire or stored: it begins at the
\* cursor and does not reach beyond what the next cut, or the post in progress, covers.
NextNumberInv(r) ==
  r.sequence = sequence + 1 =>
    /\ r.from = cursor
    /\ r.to <= IF Posting THEN post.to ELSE EndedMs
    /\ \A n \in DOMAIN rows : n <= sequence => Before(rows[n].text, r.text)

WireInv ==
  \A r \in wire :
    /\ r.sequence \in 1 .. (sequence + 1)
    /\ r.from < r.to
    /\ TextOK(r.text)
    /\ NextNumberInv(r)

RowsInv ==
  /\ CounterFollowsKorsi
  /\ \A n \in DOMAIN rows :
       /\ rows[n].sequence = n
       /\ rows[n].from < rows[n].to
       /\ TextOK(rows[n].text)
       /\ n <= sequence => rows[n].to <= cursor
       /\ NextNumberInv(rows[n])
  /\ StoredInSpokenOrder
  /\ NoOverlap

\* Text the bridge holds is later than everything stored under an accepted number.
HeldInv ==
  /\ TextOK(carried)
  /\ TextOK(post.text)
  /\ Ordered(parts)
  /\ \A i \in DOMAIN parts : parts[i] \in 1 .. heard
  /\ \A n \in DOMAIN rows : n <= sequence => /\ Before(rows[n].text, carried)
                                             /\ Before(rows[n].text, post.text)

\* As long as no post went without its answer there is one request at most, the one being
\* waited on, and a number beyond the counter is stored only while its answer travels.
LosslessInv ==
  ~Lossy =>
    /\ \A r \in wire : Posting /\ r = post
    /\ post \in wire => answer = "none"
    /\ sequence + 1 \in DOMAIN rows => answer = "accepted" /\ rows[sequence + 1] = post
    /\ cursor = IF sequence = 0 THEN 0 ELSE rows[sequence].to
    /\ Tiles
    /\ NothingDropped

IInv == PostInv /\ WireInv /\ RowsInv /\ HeldInv /\ LosslessInv
------------------------------------------------------------------------------
(* Facts about texts.                                                      *)

LEMMA ConcatText ==
  ASSUME NEW s \in Seq(Nat), NEW t \in Seq(Nat)
  PROVE  /\ s \o t \in Seq(Nat)
         /\ \A i \in DOMAIN (s \o t) :
              \/ i \in DOMAIN s /\ (s \o t)[i] = s[i]
              \/ i > Len(s) /\ i - Len(s) \in DOMAIN t /\ (s \o t)[i] = t[i - Len(s)]
         /\ \A i \in DOMAIN s : i \in DOMAIN (s \o t) /\ (s \o t)[i] = s[i]
         /\ \A i \in DOMAIN t : /\ i + Len(s) \in DOMAIN (s \o t)
                                /\ (s \o t)[i + Len(s)] = t[i]
  OBVIOUS

LEMMA ConcatOrdered ==
  ASSUME NEW s \in Seq(Nat), NEW t \in Seq(Nat), Ordered(s), Ordered(t), Before(s, t)
  PROVE  Ordered(s \o t)
<1> DEFINE st == s \o t
<1> SUFFICES ASSUME NEW i \in DOMAIN st, NEW j \in DOMAIN st, i < j
             PROVE  st[i] < st[j]
  BY DEF Ordered
<1>1. CASE i \in DOMAIN s /\ j \in DOMAIN s
  BY <1>1 DEF Ordered
<1>2. CASE i \in DOMAIN s /\ j \notin DOMAIN s
  BY <1>2 DEF Before
<1>3. CASE i \notin DOMAIN s
  BY <1>3 DEF Ordered
<1> QED  BY <1>1, <1>2, <1>3

LEMMA ConcatWithin ==
  ASSUME NEW s \in Seq(Nat), NEW t \in Seq(Nat), NEW word
  PROVE  Within(word, s \o t) <=> Within(word, s) \/ Within(word, t)
<1>1. ASSUME Within(word, s \o t) PROVE Within(word, s) \/ Within(word, t)
  <2> PICK i \in DOMAIN (s \o t) : (s \o t)[i] = word
    BY <1>1 DEF Within
  <2> QED  BY ConcatText DEF Within
<1>2. ASSUME Within(word, s) PROVE Within(word, s \o t)
  BY <1>2, ConcatText DEF Within
<1>3. ASSUME Within(word, t) PROVE Within(word, s \o t)
  <2> PICK i \in DOMAIN t : t[i] = word
    BY <1>3 DEF Within
  <2> QED  BY ConcatText DEF Within
<1> QED  BY <1>1, <1>2, <1>3
LEMMA AppendText ==
  ASSUME NEW s \in Seq(Nat), NEW word \in Nat
  PROVE  /\ Append(s, word) \in Seq(Nat)
         /\ DOMAIN Append(s, word) = 1 .. (Len(s) + 1)
         /\ \A i \in DOMAIN s : Append(s, word)[i] = s[i]
         /\ Append(s, word)[Len(s) + 1] = word
  OBVIOUS

------------------------------------------------------------------------------
(* Types.                                                                  *)

LEMMA PostOnceType ==
  ASSUME TypeOK, NEW next, PostOnce(next),
         next \in {"posting", "flushPosting"}
  PROVE  TypeOK'
<1>1. EndedMs \in Nat
  BY DEF EndedMs, TypeOK
<1>2. TakeText \in Seq(Nat)
  BY ConcatText DEF TakeText, TypeOK
<1>3. post' \in Request
  BY <1>1, <1>2 DEF PostOnce, NextSequence, Request, TypeOK
<1> QED  BY <1>3 DEF PostOnce, DrainText, TypeOK, history

\* Every variable stays in its type: the type invariant of segmenter.py's state and of
\* the requests and rows it leaves behind.
THEOREM TypeCorrect == Spec => []TypeOK
<1>1. Init => TypeOK
  <2> SUFFICES ASSUME Init PROVE TypeOK
    OBVIOUS
  <2>1. NoRequest \in Request
    BY DEF NoRequest, Request
  <2>2. DOMAIN rows = {}
    BY DEF Init
  <2>3. interval \in Nat /\ due \in Nat /\ heard \in 0 .. MaxWords /\ now \in 0 .. MaxTime
    BY SegmenterAssumption DEF Init
  <2>4. carried \in Seq(Nat) /\ parts \in Seq(Nat) /\ sequence \in Nat /\ cursor \in Nat
    BY DEF Init
  <2>5. /\ pc = "sleeping" /\ answer = "none" /\ post = NoRequest /\ wire = {}
        /\ stopping \in BOOLEAN /\ open \in BOOLEAN
        /\ unanswered \in BOOLEAN /\ cancelled \in BOOLEAN
    BY DEF Init
  <2> QED  BY <2>1, <2>2, <2>3, <2>4, <2>5 DEF TypeOK
<1>2. TypeOK /\ [Next]_vars => TypeOK'
  <2> SUFFICES ASSUME TypeOK, [Next]_vars PROVE TypeOK'
    OBVIOUS
  <2> USE DEF client, stream, korsi, history
  <2>1. CASE Tick
    BY <2>1, SegmenterAssumption DEF Tick, TypeOK
  <2>2. CASE Hear
    BY <2>2, SegmenterAssumption, AppendText DEF Hear, TypeOK
  <2>3. CASE KorsiCloses
    BY <2>3 DEF KorsiCloses, TypeOK
  <2>4. ASSUME NEW r \in wire, KorsiStores(r) PROVE TypeOK'
    <3>1. r \in Request /\ r.sequence \in Nat
      BY DEF TypeOK, Request
    <3>2. DOMAIN rows' \in SUBSET Nat /\ \A n \in DOMAIN rows' : rows'[n] \in Request
      BY <2>4, <3>1 DEF KorsiStores, TypeOK
    <3> QED  BY <2>4, <3>2 DEF KorsiStores, Reply, TypeOK
  <2>5. ASSUME NEW r \in wire, NEW verdict \in {"refused", "closed"}, KorsiRefuses(r, verdict)
        PROVE  TypeOK'
    BY <2>5 DEF KorsiRefuses, Reply, TypeOK
  <2>6. CASE Wake
    BY <2>6 DEF Wake, TypeOK
  <2>7. CASE CutInterval
    BY <2>7, PostOnceType DEF CutInterval
  <2>8. CASE CutFinal
    BY <2>8, PostOnceType DEF CutFinal
  <2> NoRequest \in Request
    BY DEF NoRequest, Request
  <2>9. ASSUME NEW echoed \in Intervals \cup {0}, Accepted(echoed) PROVE TypeOK'
    <3>1. post.sequence \in Nat /\ post.to \in Nat
      BY DEF TypeOK, Request
    <3>2. echoed \in Nat
      BY SegmenterAssumption
    <3> QED  BY <2>9, <3>1, <3>2 DEF Accepted, AdvanceCursor, Resume, SleepUntil, TypeOK
  <2>10. post.text \in Seq(Nat)
    BY DEF TypeOK, Request
  <2>11. CASE Refused
    BY <2>11, <2>10 DEF Refused, HoldText, Resume, SleepUntil, TypeOK
  <2>12. CASE Unreachable
    BY <2>12, <2>10 DEF Unreachable, HoldText, Resume, SleepUntil, TypeOK
  <2>13. CASE TimesOut
    BY <2>13, <2>10 DEF TimesOut, HoldText, Resume, SleepUntil, TypeOK
  <2>14. CASE Unreadable
    BY <2>14, <2>10 DEF Unreadable, HoldText, TypeOK
  <2>15. CASE SessionGone
    BY <2>15, <2>10 DEF SessionGone, HoldText, TypeOK
  <2>16. CASE Stop
    BY <2>16 DEF Stop, Posting, TypeOK
  <2>17. CASE UNCHANGED vars
    BY <2>17 DEF vars, TypeOK
  <2> QED
    BY <2>1, <2>2, <2>3, <2>4, <2>5, <2>6, <2>7, <2>8, <2>9, <2>11, <2>12, <2>13,
       <2>14, <2>15, <2>16, <2>17
    DEF Next, World, Cut, PostEnds
<1> QED  BY <1>1, <1>2, PTL DEF Spec
------------------------------------------------------------------------------
(* The inductive invariant, action by action.                              *)

LEMMA EndedMsType ==
  ASSUME TypeOK
  PROVE  EndedMs \in Nat /\ EndedMs >= now /\ EndedMs > cursor
  BY DEF TypeOK, EndedMs

LEMMA InitIInv == Init => IInv
<1> SUFFICES ASSUME Init PROVE IInv
  OBVIOUS
<1>1. DOMAIN rows = {}
  BY DEF Init
<1>2. PostInv
  BY DEF Init, PostInv, Posting
<1>3. WireInv
  BY DEF Init, WireInv
<1>4. RowsInv
  BY <1>1 DEF RowsInv, Init, CounterFollowsKorsi, StoredInSpokenOrder, NoOverlap
<1>5. HeldInv
  BY <1>1 DEF HeldInv, Init, TextOK, Ordered, Before, NoRequest
<1>6. LosslessInv
  BY <1>1 DEF LosslessInv, Init, Tiles, NothingDropped
<1> QED  BY <1>2, <1>3, <1>4, <1>5, <1>6 DEF IInv

\* Steps that leave everything the invariant reads as it is, or only let time pass.
LEMMA IdleIInv ==
  ASSUME TypeOK, TypeOK', IInv, now <= now',
         UNCHANGED <<client, post, answer, stream, wire, rows, history>>,
         Posting' = Posting
  PROVE  IInv'
<1> USE DEF client, stream, history
<1>1. EndedMs <= EndedMs' /\ EndedMs \in Nat /\ EndedMs' \in Nat
  BY DEF EndedMs, TypeOK
<1>2. PostInv'
  BY <1>1 DEF IInv, PostInv, TypeOK, Request
<1>3. ASSUME NEW r \in Request, NextNumberInv(r) PROVE NextNumberInv(r)'
  BY <1>1, <1>3 DEF NextNumberInv, Request, TypeOK
<1>4. WireInv'
  BY <1>3 DEF IInv, WireInv, TextOK, TypeOK
<1>5. RowsInv'
  BY <1>3 DEF IInv, RowsInv, TextOK, TypeOK, CounterFollowsKorsi, StoredInSpokenOrder, NoOverlap
<1>6. HeldInv'
  BY DEF IInv, HeldInv, TextOK
<1>7. LosslessInv'
  BY DEF IInv, LosslessInv, Lossy, Tiles, NothingDropped, Stored, Held
<1> QED  BY <1>2, <1>4, <1>5, <1>6, <1>7 DEF IInv

\* A post ends without an accept and its text is held.
LEMMA LetGoIInv ==
  ASSUME TypeOK, TypeOK', IInv, Posting, ~Posting', HoldText,
         UNCHANGED <<sequence, cursor, stream, now, rows>>,
         wire' \subseteq wire,
         Lossy => Lossy',
         ~Lossy' => wire' = {} /\ answer # "accepted"
  PROVE  IInv'
<1> USE DEF stream
<1> EndedMs' = EndedMs
  BY DEF EndedMs
<1>1. PostInv'
  BY DEF PostInv, HoldText
<1>2. ASSUME NEW r \in Request, NextNumberInv(r) PROVE NextNumberInv(r)'
  <2>1. post.to \in Nat /\ r.to \in Nat /\ post.to <= EndedMs
    BY DEF IInv, PostInv, Request, TypeOK
  <2> QED  BY <2>1, <1>2, EndedMsType DEF NextNumberInv
<1>3. WireInv'
  <2> SUFFICES ASSUME NEW r \in wire'
               PROVE  /\ r.sequence \in 1 .. (sequence' + 1)
                      /\ r.from < r.to
                      /\ TextOK(r.text)'
                      /\ NextNumberInv(r)'
    BY DEF WireInv
  <2>1. r \in wire /\ r \in Request
    BY DEF TypeOK
  <2>2. TextOK(r.text) /\ NextNumberInv(r)
    BY <2>1 DEF IInv, WireInv
  <2> QED  BY <1>2, <2>1, <2>2 DEF IInv, WireInv, TextOK
<1>4. RowsInv'
  BY <1>2 DEF IInv, RowsInv, TextOK, TypeOK, CounterFollowsKorsi, StoredInSpokenOrder, NoOverlap
<1>5. HeldInv'
  BY DEF IInv, HeldInv, HoldText, TextOK, NoRequest, Ordered, Before
<1>6. LosslessInv'
  <2> SUFFICES ASSUME ~Lossy' PROVE LosslessInv'
    BY DEF LosslessInv
  <2>1. wire' = {} /\ sequence + 1 \notin DOMAIN rows
    BY DEF IInv, LosslessInv
  <2>2. Tiles'
    BY DEF IInv, LosslessInv, Tiles, Lossy
  <2>3. NothingDropped'
    <3>1. carried = <<>>
      BY DEF IInv, PostInv
    <3> QED
      BY <3>1 DEF IInv, LosslessInv, NothingDropped, Stored, Held, HoldText, Within
  <2> QED  BY <2>1, <2>2, <2>3 DEF IInv, LosslessInv, HoldText
<1> QED  BY <1>1, <1>3, <1>4, <1>5, <1>6 DEF IInv
LEMMA HearIInv ==
  ASSUME TypeOK, TypeOK', IInv, Hear
  PROVE  IInv'
<1> USE DEF Hear, client, korsi, history
<1>1. /\ heard \in Nat /\ heard' = heard + 1
      /\ \A i \in DOMAIN parts : i \in DOMAIN parts' /\ parts'[i] = parts[i]
      /\ \A i \in DOMAIN parts' : i \in DOMAIN parts \/ parts'[i] = heard + 1
      /\ Len(parts) + 1 \in DOMAIN parts' /\ parts'[Len(parts) + 1] = heard + 1
      /\ \A i, j \in DOMAIN parts' : i < j => i \in DOMAIN parts
  BY AppendText DEF TypeOK
<1>2. ASSUME NEW text \in Seq(Nat), TextOK(text) PROVE TextOK(text)'
  <2>1. Ordered(text)
    BY <1>2 DEF TextOK
  <2>2. \A i \in DOMAIN text : text[i] \in 1 .. heard
    BY <1>2 DEF TextOK
  <2>3. Before(text, parts')
    <3> SUFFICES ASSUME NEW i \in DOMAIN text, NEW j \in DOMAIN parts'
                 PROVE  text[i] < parts'[j]
      BY DEF Before
    <3> QED  BY <1>1, <1>2, <2>2 DEF TextOK, Before
  <2> QED  BY <1>1, <2>1, <2>2, <2>3 DEF TextOK
<1>3. EndedMs' = EndedMs
  BY DEF EndedMs
<1>4. PostInv'
  BY <1>3 DEF IInv, PostInv, Posting
<1>5. ASSUME NEW r, NextNumberInv(r) PROVE NextNumberInv(r)'
  BY <1>3, <1>5 DEF NextNumberInv, Posting
<1>6. WireInv'
  BY <1>2, <1>5 DEF IInv, WireInv, TypeOK, Request
<1>7. RowsInv'
  <2>1. \A n \in DOMAIN rows : rows[n].text \in Seq(Nat)
    BY DEF TypeOK, Request
  <2> QED  BY <1>2, <1>5, <2>1 DEF IInv, RowsInv, CounterFollowsKorsi, StoredInSpokenOrder, NoOverlap
<1>8. HeldInv'
  <2>1. Ordered(parts)'
    BY <1>1 DEF IInv, HeldInv, Ordered, TypeOK
  <2>2. \A i \in DOMAIN parts' : parts'[i] \in 1 .. heard'
    BY <1>1 DEF IInv, HeldInv
  <2>3. TextOK(carried)' /\ TextOK(post.text)'
    BY <1>2 DEF IInv, HeldInv, TypeOK, Request
  <2> QED  BY <2>1, <2>2, <2>3 DEF IInv, HeldInv
<1>9. LosslessInv'
  <2> SUFFICES ASSUME ~Lossy PROVE LosslessInv'
    BY DEF LosslessInv, Lossy
  <2>1. NothingDropped'
    <3> SUFFICES ASSUME NEW word \in 1 .. (heard + 1) PROVE (Stored(word) \/ Held(word))'
      BY DEF NothingDropped
    <3>1. CASE word = heard + 1
      BY <3>1, <1>1 DEF Held, Within
    <3>2. CASE word \in 1 .. heard
      <4>1. Stored(word) \/ Held(word)
        BY <3>2 DEF IInv, LosslessInv, NothingDropped
      <4> QED  BY <4>1, <1>1 DEF Stored, Held, Within
    <3> QED  BY <1>1, <3>1, <3>2
  <2> QED  BY <2>1 DEF IInv, LosslessInv, Lossy, Tiles, Posting
<1> QED  BY <1>4, <1>6, <1>7, <1>8, <1>9 DEF IInv

\* A request leaves the wire and nothing is stored: a refusal, or a duplicate.
LEMMA ArriveIInv ==
  ASSUME TypeOK, TypeOK', IInv, NEW r \in wire, NEW verdict \in {"accepted", "refused", "closed"},
         wire' = wire \ {r}, Reply(r, verdict),
         UNCHANGED <<pc, client, post, stream, now, rows, history>>,
         verdict = "accepted" => r.sequence \in DOMAIN rows /\ Lossy
  PROVE  IInv'
<1> USE DEF client, stream, history
<1>1. EndedMs' = EndedMs /\ Posting' = Posting
  BY DEF EndedMs, Posting
<1>2. PostInv'
  BY <1>1 DEF IInv, PostInv, Reply
<1>3. ASSUME NEW q, NextNumberInv(q) PROVE NextNumberInv(q)'
  BY <1>1, <1>3 DEF NextNumberInv
<1>4. WireInv'
  BY <1>3 DEF IInv, WireInv, TextOK
<1>5. RowsInv'
  BY <1>3 DEF IInv, RowsInv, TextOK, CounterFollowsKorsi, StoredInSpokenOrder, NoOverlap
<1>6. HeldInv'
  BY DEF IInv, HeldInv, TextOK
<1>7. LosslessInv'
  <2> SUFFICES ASSUME ~Lossy PROVE LosslessInv'
    BY DEF LosslessInv, Lossy
  <2>1. r = post /\ wire' = {} /\ answer = "none"
    BY DEF IInv, LosslessInv
  <2> QED
    BY <2>1 DEF IInv, LosslessInv, Tiles, NothingDropped, Stored, Held, Reply
<1> QED  BY <1>2, <1>4, <1>5, <1>6, <1>7 DEF IInv
LEMMA StoreIInv ==
  ASSUME TypeOK, TypeOK', IInv, NEW r \in wire, KorsiStores(r), r.sequence \notin DOMAIN rows
  PROVE  IInv'
<1> DEFINE k == sequence + 1
<1> USE DEF client, stream, history
<1>1. /\ r \in Request
      /\ r.sequence = k
      /\ DOMAIN rows = 1 .. sequence
      /\ sequence \in Nat
      /\ TextOK(r.text) /\ NextNumberInv(r) /\ r.from < r.to
  <2>1. r \in Request /\ sequence \in Nat
    BY DEF TypeOK
  <2>2. r.sequence \in 1 .. k /\ TextOK(r.text) /\ NextNumberInv(r) /\ r.from < r.to
    BY DEF IInv, WireInv
  <2>3. DOMAIN rows = 1 .. sequence \/ DOMAIN rows = 1 .. k
    BY DEF IInv, RowsInv, CounterFollowsKorsi
  <2> QED  BY <2>1, <2>2, <2>3
<1>2. /\ DOMAIN rows' = 1 .. k
      /\ rows'[k] = r
      /\ \A n \in 1 .. sequence : rows'[n] = rows[n] /\ n \in DOMAIN rows /\ n # k
      /\ \A n \in DOMAIN rows' : n = k \/ n \in 1 .. sequence
  <2>1. rows' = [n \in DOMAIN rows \cup {k} |-> IF n = k THEN r ELSE rows[n]]
    BY <1>1 DEF KorsiStores
  <2>2. DOMAIN rows' = DOMAIN rows \cup {k}
    BY <2>1
  <2>3. DOMAIN rows' = 1 .. k
    BY <2>2, <1>1
  <2>4. \A n \in DOMAIN rows' : rows'[n] = IF n = k THEN r ELSE rows[n]
    BY <2>1
  <2> QED  BY <1>1, <2>3, <2>4
<1>3. /\ wire' = wire \ {r}
      /\ UNCHANGED <<pc, client, post, stream, now, history>>
      /\ Reply(r, "accepted")
  BY DEF KorsiStores
<1> HIDE DEF k
<1>4. EndedMs' = EndedMs /\ Posting' = Posting /\ k' = k
  BY <1>3 DEF EndedMs, Posting, k
<1>5. PostInv'
  <2>1. sequence' + 1 \in DOMAIN rows'
    BY <1>1, <1>2, <1>3 DEF k
  <2> QED  BY <1>3, <1>4, <2>1 DEF IInv, PostInv, Reply
<1>6. ASSUME NEW q \in Request, NextNumberInv(q) PROVE NextNumberInv(q)'
  <2> SUFFICES ASSUME q.sequence = sequence + 1, NEW n \in DOMAIN rows', n <= sequence
               PROVE  Before(rows'[n].text, q.text)
    BY <1>3, <1>4, <1>6 DEF NextNumberInv
  <2>1. n \in 1 .. sequence
    BY <1>1, <1>2 DEF k
  <2> QED  BY <1>2, <1>6, <2>1 DEF NextNumberInv
<1>7. WireInv'
  BY <1>3, <1>6 DEF IInv, WireInv, TextOK, TypeOK
<1>8. RowsInv'
  <2>1. CounterFollowsKorsi'
    BY <1>2, <1>3 DEF CounterFollowsKorsi, k
  <2>2. ASSUME NEW n \in DOMAIN rows'
        PROVE  /\ rows'[n].sequence = n
               /\ rows'[n].from < rows'[n].to
               /\ TextOK(rows[n].text)'
               /\ n <= sequence' => rows'[n].to <= cursor'
               /\ NextNumberInv(rows[n])'
    <3>1. CASE n = k
      <4>1. NextNumberInv(r)'
        BY <1>1, <1>6
      <4> QED  BY <1>1, <1>2, <1>3, <3>1, <4>1 DEF TextOK, k
    <3>2. CASE n \in 1 .. sequence
      <4>1. n \in DOMAIN rows /\ rows'[n] = rows[n] /\ rows[n] \in Request
        BY <1>2, <3>2 DEF TypeOK
      <4>2. NextNumberInv(rows[n]) /\ TextOK(rows[n].text)
        BY <4>1 DEF IInv, RowsInv
      <4>3. NextNumberInv(rows[n])'
        <5> PICK q \in Request : q = rows[n]
          BY <4>1
        <5> NextNumberInv(q)'
          BY <4>2, <1>6
        <5> QED  BY <4>1
      <4> QED  BY <1>3, <4>1, <4>2, <4>3 DEF IInv, RowsInv, TextOK
    <3> QED  BY <1>2, <3>1, <3>2
  <2>3. ASSUME NEW m \in DOMAIN rows', NEW n \in DOMAIN rows', m < n
        PROVE  /\ Before(rows'[m].text, rows'[n].text)
               /\ rows'[m].to <= rows'[n].from
    <3>1. m \in 1 .. sequence /\ m \in DOMAIN rows /\ rows'[m] = rows[m] /\ m <= sequence
      BY <1>1, <1>2, <2>3 DEF k
    <3>2. CASE n = k
      <4>1. Before(rows[m].text, r.text) /\ r.from = cursor /\ rows[m].to <= cursor
        BY <1>1, <3>1 DEF IInv, RowsInv, NextNumberInv, k
      <4> QED  BY <1>2, <3>1, <3>2, <4>1
    <3>3. CASE n \in 1 .. sequence
      BY <1>2, <2>3, <3>1, <3>3 DEF IInv, RowsInv, StoredInSpokenOrder, NoOverlap
    <3> QED  BY <1>2, <3>2, <3>3
  <2> QED  BY <2>1, <2>2, <2>3 DEF RowsInv, StoredInSpokenOrder, NoOverlap, TextOK
<1>9. HeldInv'
  <2>1. \A n \in DOMAIN rows' : n <= sequence => n \in DOMAIN rows /\ rows'[n] = rows[n]
    BY <1>1, <1>2 DEF k
  <2> QED  BY <1>3, <2>1 DEF IInv, HeldInv, TextOK
<1>10. LosslessInv'
  <2> SUFFICES ASSUME ~Lossy PROVE LosslessInv'
    BY <1>3 DEF LosslessInv, Lossy
  <2>1. Posting /\ r = post /\ wire' = {} /\ answer' = "accepted"
    BY <1>3 DEF IInv, LosslessInv, Reply
  <2>2. Tiles'
    <3> SUFFICES ASSUME NEW n \in DOMAIN rows'
                 PROVE  rows'[n].from = IF n = 1 THEN 0 ELSE rows'[n - 1].to
      BY DEF Tiles
    <3>1. CASE n = k
      <4>1. rows'[n].from = cursor
        BY <1>1, <1>2, <3>1 DEF NextNumberInv, k
      <4>2. cursor = IF sequence = 0 THEN 0 ELSE rows[sequence].to
        BY DEF IInv, LosslessInv
      <4>3. sequence # 0 => sequence \in 1 .. sequence
        BY <1>1
      <4> QED  BY <1>1, <1>2, <3>1, <4>1, <4>2, <4>3 DEF k
    <3>2. CASE n \in 1 .. sequence
      <4>1. rows[n].from = IF n = 1 THEN 0 ELSE rows[n - 1].to
        BY <1>2, <3>2 DEF IInv, LosslessInv, Tiles, Lossy
      <4>2. n # 1 => n - 1 \in 1 .. sequence
        BY <1>1, <3>2
      <4> QED  BY <1>2, <3>2, <4>1, <4>2
    <3> QED  BY <1>2, <3>1, <3>2
  <2>3. NothingDropped'
    <3>1. \A word : Stored(word) => Stored(word)'
      BY <1>1, <1>2 DEF Stored, k
    <3>2. \A word : Held(word) => Held(word)'
      BY <1>3 DEF Held
    <3> QED  BY <1>3, <3>1, <3>2 DEF IInv, LosslessInv, NothingDropped
  <2>4. cursor' = IF sequence' = 0 THEN 0 ELSE rows'[sequence'].to
    <3>1. sequence # 0 => sequence \in 1 .. sequence
      BY <1>1
    <3> QED  BY <1>2, <1>3, <3>1 DEF IInv, LosslessInv
  <2> QED  BY <1>2, <1>3, <1>4, <2>1, <2>2, <2>3, <2>4 DEF LosslessInv, Lossy, k
<1> QED  BY <1>5, <1>7, <1>8, <1>9, <1>10 DEF IInv
LEMMA PostOnceIInv ==
  ASSUME TypeOK, TypeOK', IInv, ~Posting,
         NEW next \in {"posting", "flushPosting"}, PostOnce(next)
  PROVE  IInv'
<1> DEFINE text == carried \o parts
<1>1. /\ text \in Seq(Nat)
      /\ Ordered(text)
      /\ \A i \in DOMAIN text : text[i] \in 1 .. heard
  <2>1. /\ carried \in Seq(Nat) /\ parts \in Seq(Nat)
        /\ Ordered(carried) /\ Ordered(parts) /\ Before(carried, parts)
        /\ \A i \in DOMAIN carried : carried[i] \in 1 .. heard
        /\ \A i \in DOMAIN parts : parts[i] \in 1 .. heard
    BY DEF IInv, HeldInv, TextOK, TypeOK
  <2>2. Ordered(text)
    BY <2>1, ConcatOrdered
  <2>3. ASSUME NEW i \in DOMAIN text PROVE text[i] \in 1 .. heard
    BY <2>1, ConcatText
  <2> QED  BY <2>1, <2>2, <2>3, ConcatText
<1>2. ASSUME NEW n \in DOMAIN rows, n <= sequence PROVE Before(rows[n].text, text)
  <2>1. Before(rows[n].text, carried) /\ Before(rows[n].text, parts)
    BY <1>2 DEF IInv, HeldInv, RowsInv, TextOK
  <2>2. carried \in Seq(Nat) /\ parts \in Seq(Nat)
    BY DEF TypeOK
  <2> SUFFICES ASSUME NEW i \in DOMAIN rows[n].text, NEW j \in DOMAIN text
               PROVE  rows[n].text[i] < text[j]
    BY DEF Before
  <2>3. \/ j \in DOMAIN carried /\ text[j] = carried[j]
        \/ j - Len(carried) \in DOMAIN parts /\ text[j] = parts[j - Len(carried)]
    BY <2>2, ConcatText
  <2> QED  BY <2>1, <2>3 DEF Before
<1>3. /\ post'.sequence = sequence + 1 /\ post'.from = cursor
      /\ post'.to = EndedMs /\ post'.text = text
      /\ wire' = wire \cup {post'}
      /\ answer' = "none" /\ carried' = <<>> /\ parts' = <<>>
      /\ Posting'
      /\ UNCHANGED <<sequence, cursor, heard, now, rows, unanswered, cancelled>>
  BY DEF PostOnce, NextSequence, TakeText, DrainText, Posting, history
<1> HIDE DEF text
<1>4. EndedMs' = EndedMs
  BY <1>3 DEF EndedMs
<1>5. answer = "none" /\ post = NoRequest
  BY DEF IInv, PostInv
<1>6. TextOK(post.text)'
  BY <1>1, <1>3 DEF TextOK, Before
<1>7. PostInv'
  BY <1>3, <1>4, EndedMsType DEF PostInv
<1>8. ASSUME NEW r \in Request, NextNumberInv(r) PROVE NextNumberInv(r)'
  BY <1>3, <1>8 DEF NextNumberInv
<1>9. NextNumberInv(post)'
  BY <1>2, <1>3, EndedMsType DEF NextNumberInv
<1>10. WireInv'
  <2> SUFFICES ASSUME NEW r \in wire'
               PROVE  /\ r.sequence \in 1 .. (sequence' + 1)
                      /\ r.from < r.to
                      /\ TextOK(r.text)'
                      /\ NextNumberInv(r)'
    BY DEF WireInv
  <2>1. CASE r = post'
    <3>1. NextNumberInv(r)' /\ TextOK(r.text)'
      BY <1>6, <1>9, <2>1
    <3>2. sequence \in Nat
      BY DEF TypeOK
    <3> QED  BY <1>3, <2>1, <3>1, <3>2, EndedMsType
  <2>2. CASE r \in wire
    <3>1. r \in Request /\ NextNumberInv(r) /\ TextOK(r.text)
      BY <2>2 DEF IInv, WireInv, TypeOK
    <3>2. NextNumberInv(r)' /\ TextOK(r.text)'
      BY <1>3, <1>8, <3>1 DEF TextOK, Before
    <3> QED  BY <1>3, <2>2, <3>2 DEF IInv, WireInv
  <2> QED  BY <1>3, <2>1, <2>2
<1>11. RowsInv'
  <2>1. \A n \in DOMAIN rows : rows[n] \in Request
    BY DEF TypeOK
  <2> QED  BY <1>3, <1>8, <2>1
           DEF IInv, RowsInv, TextOK, Before, CounterFollowsKorsi, StoredInSpokenOrder, NoOverlap
<1>12. HeldInv'
  BY <1>2, <1>3, <1>6 DEF HeldInv, TextOK, Ordered, Before
<1>13. LosslessInv'
  <2> SUFFICES ASSUME ~Lossy PROVE LosslessInv'
    BY <1>3 DEF LosslessInv, Lossy
  <2>1. wire = {} /\ sequence + 1 \notin DOMAIN rows
    BY <1>5 DEF IInv, LosslessInv
  <2>2. NothingDropped'
    <3> SUFFICES ASSUME NEW word \in 1 .. heard PROVE (Stored(word) \/ Held(word))'
      BY <1>3 DEF NothingDropped
    <3>1. Stored(word) \/ Within(word, carried) \/ Within(word, parts)
      BY <1>5 DEF IInv, LosslessInv, NothingDropped, Held, NoRequest, Within
    <3>2. Within(word, carried) \/ Within(word, parts) => Within(word, text)
      BY ConcatWithin DEF TypeOK, text
    <3>3. Within(word, text) => Held(word)'
      BY <1>3 DEF Held
    <3>4. Stored(word) => Stored(word)'
      BY <1>3 DEF Stored
    <3> QED  BY <3>1, <3>2, <3>3, <3>4
  <2>3. Tiles'
    BY <1>3 DEF IInv, LosslessInv, Tiles, Lossy
  <2> QED  BY <1>3, <2>1, <2>2, <2>3 DEF IInv, LosslessInv
<1> QED  BY <1>7, <1>10, <1>11, <1>12, <1>13 DEF IInv

LEMMA AcceptedIInv ==
  ASSUME TypeOK, TypeOK', IInv, NEW echoed, Accepted(echoed)
  PROVE  IInv'
<1>1. /\ Posting /\ answer = "accepted"
      /\ sequence' = post.sequence /\ cursor' = post.to
      /\ post' = NoRequest /\ answer' = "none" /\ ~Posting'
      /\ UNCHANGED <<carried, parts, heard, now, wire, rows, unanswered, cancelled>>
  BY DEF Accepted, AdvanceCursor, Posting, Resume, SleepUntil, stream, korsi, history
<1>2. /\ sequence \in Nat /\ sequence' = sequence + 1
      /\ DOMAIN rows = 1 .. sequence'
      /\ cursor \in Nat /\ cursor < cursor' /\ cursor' \in Nat
      /\ carried = <<>>
      /\ sequence' \in DOMAIN rows
  <2>1. sequence \in Nat /\ cursor \in Nat /\ cursor' \in Nat
    BY DEF TypeOK
  <2>2. post.sequence = sequence + 1 /\ carried = <<>> /\ cursor < post.to
    BY <1>1 DEF IInv, PostInv
  <2>3. sequence + 1 \in DOMAIN rows
    BY <1>1 DEF IInv, PostInv
  <2>4. DOMAIN rows = 1 .. sequence \/ DOMAIN rows = 1 .. (sequence + 1)
    BY DEF IInv, RowsInv, CounterFollowsKorsi
  <2> QED  BY <1>1, <2>1, <2>2, <2>3, <2>4
<1>3. PostInv'
  BY <1>1 DEF PostInv
<1>4. WireInv'
  <2> SUFFICES ASSUME NEW r \in wire
               PROVE  /\ r.sequence \in 1 .. (sequence' + 1)
                      /\ r.sequence # sequence' + 1
                      /\ r.from < r.to
                      /\ TextOK(r.text)'
    BY <1>1 DEF WireInv, NextNumberInv
  <2>1. r.sequence \in 1 .. (sequence + 1) /\ r.from < r.to /\ TextOK(r.text)
    BY DEF IInv, WireInv
  <2> QED  BY <1>1, <1>2, <2>1 DEF TextOK
<1>5. ASSUME NEW n \in DOMAIN rows PROVE rows[n].to <= cursor'
  <2>1. rows[n].to \in Nat
    BY DEF TypeOK, Request
  <2>2. CASE n <= sequence
    BY <1>2, <2>1, <2>2 DEF IInv, RowsInv
  <2>3. CASE n = sequence + 1
    <3>1. rows[n].sequence = sequence + 1 /\ NextNumberInv(rows[n])
      BY <2>3 DEF IInv, RowsInv
    <3> QED  BY <1>1, <3>1 DEF NextNumberInv
  <2> QED  BY <1>2, <2>2, <2>3
<1>6. RowsInv'
  <2>1. CounterFollowsKorsi'
    BY <1>1, <1>2 DEF CounterFollowsKorsi
  <2>2. ASSUME NEW n \in DOMAIN rows
        PROVE  /\ rows[n].sequence = n
               /\ n # sequence' + 1
               /\ rows[n].from < rows[n].to
               /\ TextOK(rows[n].text)'
    <3>1. rows[n].sequence = n /\ rows[n].from < rows[n].to /\ TextOK(rows[n].text)
      BY DEF IInv, RowsInv
    <3> QED  BY <1>1, <1>2, <3>1 DEF TextOK
  <2>3. StoredInSpokenOrder' /\ NoOverlap'
    BY <1>1 DEF IInv, RowsInv, StoredInSpokenOrder, NoOverlap
  <2> QED  BY <1>1, <1>5, <2>1, <2>2, <2>3 DEF RowsInv, NextNumberInv
<1>7. HeldInv'
  BY <1>1, <1>2 DEF IInv, HeldInv, TextOK, NoRequest, Ordered, Before
<1>8. LosslessInv'
  <2> SUFFICES ASSUME ~Lossy PROVE LosslessInv'
    BY <1>1 DEF LosslessInv, Lossy
  <2>1. wire = {} /\ rows[sequence + 1] = post
    BY <1>1, <1>2 DEF IInv, LosslessInv
  <2>2. NothingDropped'
    <3> SUFFICES ASSUME NEW word \in 1 .. heard PROVE (Stored(word) \/ Held(word))'
      BY <1>1 DEF NothingDropped
    <3>1. Stored(word) => Stored(word)'
      BY <1>1 DEF Stored
    <3>2. Within(word, post.text) => Stored(word)
      BY <1>2, <2>1 DEF Stored
    <3>3. Within(word, carried) \/ Within(word, parts) => Held(word)'
      BY <1>1 DEF Held
    <3>4. Stored(word) \/ Held(word)
      BY DEF IInv, LosslessInv, NothingDropped
    <3> QED  BY <3>1, <3>2, <3>3, <3>4 DEF Held
  <2>3. Tiles'
    BY <1>1 DEF IInv, LosslessInv, Tiles, Lossy
  <2>4. sequence' + 1 \notin DOMAIN rows /\ sequence' # 0
    BY <1>2
  <2>5. cursor' = rows[sequence'].to
    BY <1>1, <1>2, <2>1
  <2> QED  BY <1>1, <2>1, <2>2, <2>3, <2>4, <2>5 DEF LosslessInv
<1> QED  BY <1>3, <1>4, <1>6, <1>7, <1>8 DEF IInv
LEMMA StopIInv ==
  ASSUME TypeOK, TypeOK', IInv, Stop
  PROVE  IInv'
<1>1. CASE ~Posting
  <2>1. /\ now' = now /\ Posting' = Posting
        /\ UNCHANGED <<client, post, answer, stream, wire, rows, history>>
    BY <1>1 DEF Stop, IInv, PostInv, Posting, TypeOK, korsi, history
  <2> QED  BY <2>1, IdleIInv DEF TypeOK
<1>2. CASE Posting
  <2>1. /\ ~Posting' /\ post' = NoRequest /\ answer' = "none" /\ Lossy'
        /\ UNCHANGED <<sequence, cursor, carried, parts, heard, now, wire, rows>>
        /\ carried = <<>>
    BY <1>2 DEF Stop, IInv, PostInv, Posting, Lossy, client, stream, korsi
  <2>2. EndedMs' = EndedMs
    BY <2>1 DEF EndedMs
  <2>3. ASSUME NEW r \in Request, NextNumberInv(r) PROVE NextNumberInv(r)'
    <3>1. post.to \in Nat /\ r.to \in Nat /\ post.to <= EndedMs
      BY <1>2 DEF IInv, PostInv, Request, TypeOK
    <3> QED  BY <1>2, <2>1, <2>2, <2>3, <3>1, EndedMsType DEF NextNumberInv
  <2>4. PostInv'
    BY <2>1 DEF PostInv
  <2>5. WireInv'
    BY <2>1, <2>3 DEF IInv, WireInv, TextOK, TypeOK
  <2>6. RowsInv'
    BY <2>1, <2>3
    DEF IInv, RowsInv, TextOK, TypeOK, CounterFollowsKorsi, StoredInSpokenOrder, NoOverlap
  <2>7. HeldInv'
    BY <2>1 DEF IInv, HeldInv, TextOK, NoRequest, Ordered, Before
  <2>8. LosslessInv'
    BY <2>1 DEF LosslessInv
  <2> QED  BY <2>4, <2>5, <2>6, <2>7, <2>8 DEF IInv
<1> QED  BY <1>1, <1>2

LEMMA NextIInv ==
  ASSUME TypeOK, TypeOK', IInv, [Next]_vars
  PROVE  IInv'
<1> USE DEF client, stream, korsi, history
<1>1. CASE Tick
  BY <1>1, IdleIInv DEF Tick, Posting, TypeOK
<1>2. CASE Hear
  BY <1>2, HearIInv
<1>3. CASE KorsiCloses
  BY <1>3, IdleIInv DEF KorsiCloses, Posting, TypeOK
<1>4. ASSUME NEW r \in wire, KorsiStores(r) PROVE IInv'
  <2>1. CASE r.sequence \notin DOMAIN rows
    BY <1>4, <2>1, StoreIInv
  <2>2. CASE r.sequence \in DOMAIN rows
    <3>1. ~Lossy => r = post /\ Posting /\ answer = "none"
      BY DEF IInv, LosslessInv
    <3>2. Lossy
      BY <2>2, <3>1 DEF IInv, LosslessInv, PostInv
    <3> QED  BY <1>4, <2>2, <3>2, ArriveIInv DEF KorsiStores
  <2> QED  BY <2>1, <2>2
<1>5. ASSUME NEW r \in wire, NEW verdict \in {"refused", "closed"}, KorsiRefuses(r, verdict)
      PROVE  IInv'
  BY <1>5, ArriveIInv DEF KorsiRefuses
<1>6. CASE Wake
  BY <1>6, IdleIInv DEF Wake, Posting, TypeOK
<1>7. CASE CutInterval
  BY <1>7, PostOnceIInv DEF CutInterval, Posting
<1>8. CASE CutFinal
  BY <1>8, PostOnceIInv DEF CutFinal, Posting
<1>9. ASSUME NEW echoed \in Intervals \cup {0}, Accepted(echoed) PROVE IInv'
  BY <1>9, AcceptedIInv
<1>10. ~Lossy => /\ \A r \in wire : r = post
                 /\ post \in wire => answer = "none"
  BY DEF IInv, LosslessInv
<1>11. CASE Refused
  <2>1. wire = {} \/ Lossy
    BY <1>10, <1>11 DEF Refused
  <2> QED  BY <1>11, <2>1, LetGoIInv DEF Refused, Resume, SleepUntil, Posting, Lossy
<1>12. CASE Unreachable
  <2>1. (wire' = {} /\ answer = "none") \/ Lossy
    BY <1>10, <1>12 DEF Unreachable
  <2> QED  BY <1>12, <2>1, LetGoIInv DEF Unreachable, Resume, SleepUntil, Posting, Lossy
<1>13. CASE TimesOut
  <2>1. ~Lossy' => ~Lossy /\ post \notin wire /\ answer # "accepted"
    BY <1>13 DEF TimesOut, Lossy, TypeOK
  <2>2. Lossy => Lossy'
    BY <1>13 DEF TimesOut, Lossy, TypeOK
  <2>3. ~Lossy' => wire' = {}
    BY <1>10, <1>13, <2>1 DEF TimesOut
  <2> QED  BY <1>13, <2>1, <2>2, <2>3, LetGoIInv DEF TimesOut, Resume, SleepUntil, Posting
<1>14. CASE Unreadable
  BY <1>14, LetGoIInv DEF Unreadable, Posting, Lossy
<1>15. CASE SessionGone
  <2>1. wire = {} \/ Lossy
    BY <1>10, <1>15 DEF SessionGone
  <2> QED  BY <1>15, <2>1, LetGoIInv DEF SessionGone, Posting, Lossy
<1>16. CASE Stop
  BY <1>16, StopIInv
<1>17. CASE UNCHANGED vars
  BY <1>17, IdleIInv DEF vars, Posting, TypeOK
<1> QED
  BY <1>1, <1>2, <1>3, <1>4, <1>5, <1>6, <1>7, <1>8, <1>9, <1>11, <1>12, <1>13, <1>14,
     <1>15, <1>16, <1>17
  DEF Next, World, Cut, PostEnds

\* The strengthening holds in every reachable state.
THEOREM Inductive == Spec => []IInv
<1>1. TypeOK /\ TypeOK' /\ IInv /\ [Next]_vars => IInv'
  BY NextIInv
<1> QED  BY <1>1, InitIInv, TypeCorrect, PTL DEF Spec

------------------------------------------------------------------------------
(* The safety properties the runs check.                                   *)

\* segmenter.py:17-21: the counter advances only on an accept, so the numbers stored are
\* contiguous and at most one ahead of it.
THEOREM Contiguous == Spec => []CounterFollowsKorsi
<1>1. IInv => CounterFollowsKorsi
  BY DEF IInv, RowsInv
<1> QED  BY <1>1, Inductive, PTL

\* Retries, cancellations, late and lost requests never reorder or double stored text.
THEOREM SpokenOrder == Spec => []StoredInSpokenOrder
<1>1. IInv => StoredInSpokenOrder
  BY DEF IInv, RowsInv
<1> QED  BY <1>1, Inductive, PTL

\* segmenter.py:63-65: stored segments are never empty in time and never overlap.
THEOREM Disjoint == Spec => []NoOverlap
<1>1. IInv => NoOverlap
  BY DEF IInv, RowsInv
<1> QED  BY <1>1, Inductive, PTL

\* segmenter.py:63-65 and 165-169: without an unanswered or a cancelled post the segments
\* tile the call and every confirmed word is stored or still held.
THEOREM Lossless == Spec => [](Tiles /\ NoUnexplainedHole)
<1>1. IInv => Tiles /\ NoUnexplainedHole
  BY DEF IInv, LosslessInv, Lossy, Tiles, NoUnexplainedHole
<1> QED  BY <1>1, Inductive, PTL
------------------------------------------------------------------------------
(* The segmenter implements the abstract transcript.                       *)

Published == [n \in DOMAIN rows |-> rows[n].text]

LEMMA StoreRefines ==
  ASSUME TypeOK, IInv, IInv', NEW r \in wire, KorsiStores(r), r.sequence \notin DOMAIN rows
  PROVE  T!Next
<1> DEFINE k == r.sequence
<1>1. /\ rows' = [n \in DOMAIN rows \cup {k} |-> IF n = k THEN r ELSE rows[n]]
      /\ UNCHANGED <<heard, unanswered, cancelled>>
  BY DEF KorsiStores, stream, history
<1>2. r \in Request /\ k = sequence + 1 /\ DOMAIN rows = 1 .. sequence /\ sequence \in Nat
  <2>1. r \in Request /\ sequence \in Nat /\ k \in 1 .. (sequence + 1)
    BY DEF IInv, WireInv, TypeOK
  <2>2. DOMAIN rows = 1 .. sequence \/ DOMAIN rows = 1 .. (sequence + 1)
    BY DEF IInv, RowsInv, CounterFollowsKorsi
  <2> QED  BY <2>1, <2>2
<1>3. TextOK(r.text) /\ NextNumberInv(r)
  BY DEF IInv, WireInv
<1>4. DOMAIN Published = DOMAIN rows /\ \A n \in DOMAIN rows : Published[n] = rows[n].text
  BY DEF Published
<1>5. DOMAIN Published' = DOMAIN rows \cup {k}
  BY <1>1 DEF Published
<1>6. Published' = [n \in DOMAIN Published \cup {k} |-> IF n = k THEN r.text ELSE Published[n]]
  BY <1>1, <1>4 DEF Published
<1>7. \A n \in DOMAIN Published : Before(Published[n], r.text)
  BY <1>2, <1>3, <1>4 DEF NextNumberInv
<1>8. ASSUME ~Lossy, NEW i \in DOMAIN r.text, NEW word \in 1 .. r.text[i]
      PROVE  (\E n \in DOMAIN Published : Within(word, Published[n])) \/ Within(word, r.text)
  <2>1. r = post /\ carried = <<>>
    BY <1>8 DEF IInv, LosslessInv, PostInv
  <2>2. r.text[i] \in 1 .. heard /\ heard \in Nat
    BY <1>3 DEF TextOK, TypeOK
  <2>3. word \in 1 .. heard
    BY <2>2
  <2>4. Stored(word) \/ Held(word)
    BY <1>8, <2>3 DEF IInv, LosslessInv, NothingDropped
  <2>5. ~Within(word, parts)
    <3> SUFFICES ASSUME NEW j \in DOMAIN parts, parts[j] = word PROVE FALSE
      BY DEF Within
    <3>1. r.text[i] < parts[j]
      BY <1>3 DEF TextOK, Before
    <3> QED  BY <2>2, <3>1
  <2>6. ~Within(word, carried)
    BY <2>1 DEF Within
  <2> QED  BY <1>4, <2>1, <2>4, <2>5, <2>6 DEF Held, Stored
<1>9. k \in Nat \ {0} /\ k \notin DOMAIN Published
      /\ \A m \in 1 .. (k - 1) : m \in DOMAIN Published
  BY <1>2, <1>4
<1>10. Published'[k] = r.text /\ k \in DOMAIN Published' \ DOMAIN Published
  BY <1>5, <1>6, <1>9
<1> HIDE DEF k
<1>11. ~Lossy => T!SkipsNothing(r.text)
  BY <1>8 DEF T!SkipsNothing, T!IsPublished, Published, T!Within, Within
<1>12. Ordered(r.text) /\ \A i \in DOMAIN r.text : r.text[i] \in 1 .. heard
  BY <1>3 DEF TextOK
<1>13. heard' = heard /\ (unanswered \/ cancelled)' = (unanswered \/ cancelled)
  BY <1>1
<1>14. T!Publish(k, r.text)
  <2>1. T!Ordered(r.text) /\ \A m \in DOMAIN Published : T!Before(Published[m], r.text)
    BY <1>7, <1>12 DEF T!Ordered, T!Before, Ordered, Before
  <2> QED  BY <1>6, <1>9, <1>11, <1>12, <1>13, <2>1 DEF T!Publish, Published, Lossy
<1> QED  BY <1>10, <1>14 DEF T!Next, T!Publish, Published

\* Until a post goes without its answer, the stored rows tile the time since the start: each
\* row begins where the one before it ends, with no gap and no overlap.
THEOREM Tiling == Spec => []Tiles
<1>1. IInv => Tiles
  BY DEF IInv, LosslessInv, Lossy, Tiles
<1> QED
  BY <1>1, Inductive, PTL

\* Words come and are published in order, each at most once, and none is skipped before
\* the first post that went without its answer: every step of the segmenter is a step of
\* Transcript or leaves the transcript alone.
THEOREM Refinement == Spec => Publishes
<1>1. Init => T!Init
  BY DEF Init, T!Init
<1>2. TypeOK /\ IInv /\ IInv' /\ [Next]_vars => [T!Next]_T!vars
  <2> SUFFICES ASSUME TypeOK, IInv, IInv', [Next]_vars
               PROVE  T!Next \/ UNCHANGED <<heard, rows, unanswered, cancelled>>
    BY DEF T!vars
  <2> USE DEF client, stream, korsi, history
  <2>1. CASE Hear
    BY <2>1 DEF Hear, T!Next, T!Hear
  <2>2. ASSUME NEW r \in wire, KorsiStores(r), r.sequence \notin DOMAIN rows PROVE T!Next
    BY <2>2, StoreRefines
  <2>3. ASSUME NEW r \in wire, KorsiStores(r), r.sequence \in DOMAIN rows
        PROVE  UNCHANGED <<heard, rows, unanswered, cancelled>>
    BY <2>3 DEF KorsiStores
  <2>4. CASE TimesOut \/ Unreadable \/ Stop
    <3>1. UNCHANGED <<heard, rows>>
      BY <2>4 DEF TimesOut, Unreadable, Stop
    <3>2. CASE Lossy'
      BY <3>1, <3>2 DEF T!Next, T!Falter, Lossy
    <3>3. CASE ~Lossy'
      BY <2>4, <3>1, <3>3 DEF TimesOut, Unreadable, Stop, Lossy, TypeOK
    <3> QED  BY <3>2, <3>3
  <2>5. CASE Tick \/ KorsiCloses \/ Cut
    BY <2>5 DEF Tick, KorsiCloses, Cut, Wake, CutInterval, CutFinal, PostOnce
  <2>6. ASSUME NEW r \in wire, NEW verdict \in {"refused", "closed"}, KorsiRefuses(r, verdict)
        PROVE  UNCHANGED <<heard, rows, unanswered, cancelled>>
    BY <2>6 DEF KorsiRefuses
  <2>7. ASSUME NEW echoed \in Intervals \cup {0}, Accepted(echoed)
        PROVE  UNCHANGED <<heard, rows, unanswered, cancelled>>
    BY <2>7 DEF Accepted
  <2>8. CASE Refused \/ Unreachable \/ SessionGone
    BY <2>8 DEF Refused, Unreachable, SessionGone
  <2>9. CASE UNCHANGED vars
    BY <2>9 DEF vars
  <2> QED
    BY <2>1, <2>2, <2>3, <2>4, <2>5, <2>6, <2>7, <2>8, <2>9 DEF Next, World, PostEnds
<1> QED  BY <1>1, <1>2, TypeCorrect, Inductive, PTL DEF Spec, T!Spec, Publishes
==============================================================================
