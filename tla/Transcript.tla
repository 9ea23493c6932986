----------------------------- MODULE Transcript -----------------------------
(***************************************************************************)
(* What the bridge promises about the transcript of one call, without      *)
(* saying how: words are confirmed in the order they are spoken, the       *)
(* transcript grows by appending texts, every text is in spoken order and  *)
(* later than all the texts before it (so no word appears twice), and      *)
(* until something goes wrong no word is skipped.                          *)
(*                                                                         *)
(* Words are the numbers 1..heard.  Segmenter implements this module.      *)
(***************************************************************************)
EXTENDS Texts

VARIABLES
  heard,        \* words confirmed so far
  published,    \* [segment number -> text], the append-only transcript
  lossy         \* a word may have been lost for good

vars == <<heard, published, lossy>>

IsPublished(word) == \E n \in DOMAIN published : Within(word, published[n])

\* Every word spoken before a word of `text` is in the transcript or in `text`.
SkipsNothing(text) ==
  \A i \in DOMAIN text : \A word \in 1 .. text[i] :
    IsPublished(word) \/ Within(word, text)

Init == /\ heard = 0
        /\ published = [n \in {} |-> <<>>]
        /\ lossy = FALSE

Hear == /\ heard' = heard + 1
        /\ UNCHANGED <<published, lossy>>

Publish(n, text) ==
  /\ n \in Nat \ {0}
  /\ n \notin DOMAIN published
  /\ \A m \in 1 .. (n - 1) : m \in DOMAIN published
  /\ Ordered(text)
  /\ \A i \in DOMAIN text : text[i] \in 1 .. heard
  /\ \A m \in DOMAIN published : Before(published[m], text)
  /\ ~lossy => SkipsNothing(text)
  /\ published' = [m \in DOMAIN published \cup {n} |->
                     IF m = n THEN text ELSE published[m]]
  /\ UNCHANGED <<heard, lossy>>

Falter == /\ lossy' = TRUE
          /\ UNCHANGED <<heard, published>>

Next == \/ Hear
        \/ \E n \in DOMAIN published' \ DOMAIN published : Publish(n, published'[n])
        \/ Falter

Spec == Init /\ [][Next]_vars
=============================================================================
