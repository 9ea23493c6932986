-------------------------------- MODULE Texts --------------------------------
(* Texts as sequences of words, words as numbers in the order they are spoken. *)
EXTENDS Naturals, Sequences

Ordered(text) == \A i, j \in DOMAIN text : i < j => text[i] < text[j]

Before(early, late) == \A i \in DOMAIN early, j \in DOMAIN late : early[i] < late[j]

Within(word, text) == \E i \in DOMAIN text : text[i] = word
==============================================================================
