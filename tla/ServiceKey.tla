----------------------------- MODULE ServiceKey ------------------------------
(***************************************************************************)
(* Reading the service key out of a variable that deployment layers may    *)
(* have damaged: what is told apart, what is repaired, and which fault is  *)
(* named (service_key.py).  Text is a sequence of characters, of which few *)
(* matter: letters of the base64 alphabet, among them n, r and t that are  *)
(* also halves of an escape, the backslash and white space.                *)
(***************************************************************************)
EXTENDS SequencesExt, Naturals

CONSTANT Width \* _PEM_LINE_WIDTH

Base64 == {"A", "n", "r", "t"}
Newline == "newline"
Spaces == {Newline, "return", "space"}
Backslash == "backslash"

\* _ESCAPES, in the order they are undone.
Escapes ==
  << <<Backslash, "r", Backslash, "n">>, <<Backslash, "n">>, <<Backslash, "r">>,
     <<Backslash, "t">> >>

\* Every occurrence of an escape, from the left, becomes a line break (str.replace).
Unescape(text, escape) ==
  LET n == Len(escape)
      from[i \in 1..(Len(text) + 1)] ==
        IF i > Len(text) THEN <<>>
        ELSE IF i + n <= Len(text) + 1 /\ SubSeq(text, i, i + n - 1) = escape
        THEN <<Newline>> \o from[i + n]
        ELSE <<text[i]>> \o from[i + 1]
  IN  from[1]

UnescapeAll(text) == FoldLeft(Unescape, text, Escapes)

IsBase64(c) == c \in Base64

\* _NOT_BASE64: all that is not of the alphabet goes.
Pack(body) == SelectSeq(body, IsBase64)

\* The body in lines of the width, each with its line break.
Wrap(packed) ==
  LET lines == (Len(packed) + Width - 1) \div Width
      line(k) == SubSeq(packed, (k - 1) * Width + 1,
                        IF k * Width < Len(packed) THEN k * Width ELSE Len(packed))
  IN  FoldLeft(LAMBDA text, k : text \o line(k) \o <<Newline>>, <<Newline>>,
               [k \in 1..lines |-> k])

\* _repair_pem between markers that are there: the body rebuilt, and what had to be undone.
\* What stands around the block is stripped or ignored.
Repair(body) ==
  LET text == UnescapeAll(body)
      packed == Pack(text)
      escapes == {e \in ToSet(Escapes) : \E i \in 1..Len(Escapes) :
                    /\ Escapes[i] = e
                    /\ LET so_far == FoldLeft(Unescape, body, SubSeq(Escapes, 1, i - 1))
                       IN  Unescape(so_far, e) # so_far}
  IN  [body |-> Wrap(packed), empty |-> packed = <<>>,
       unescaped |-> escapes, rewrapped |-> Wrap(packed) # text]

------------------------------------------------------------------------------
(* load_service_key: the first fault in the order of the checks.  A value  *)
(* is what arrived in the variable.                                        *)

Values ==
  [quoted : BOOLEAN,                                  \* it still wears a pair of quotes
   form : {"json", "base64 of json", "base64", "neither"},
   parses : BOOLEAN, object : BOOLEAN,                \* the JSON document
   fields : SUBSET {"keyId", "userId", "key"},        \* those that are not empty
   block : BOOLEAN,                                   \* the PEM has both its markers
   body : Seq(Base64 \cup Spaces \cup {Backslash}),
   signs : BOOLEAN]                                   \* the repaired key can sign

\* _decode takes off the quotes and tells the forms apart by the first character.
Problem(value) ==
  CASE value.form = "neither"                       -> "neither JSON nor base64"
    [] value.form = "base64"                        -> "base64 of something else"
    [] ~value.parses                                -> "not valid JSON"
    [] value.parses /\ ~value.object                -> "not an object"
    [] value.fields # {"keyId", "userId", "key"}    -> "fields missing"
    [] ~value.block                                 -> "no complete PEM block"
    [] Repair(value.body).empty                     -> "nothing between the markers"
    [] ~value.signs                                 -> "cannot sign"
    [] OTHER                                        -> "none"

\* describe, of a variable that is set.
Described(value) ==
  IF Problem(value) # "none" THEN [usable |-> FALSE, problem |-> Problem(value)]
  ELSE [usable |-> TRUE, encoding |-> IF value.form = "json" THEN "json" ELSE "base64",
        unescaped |-> Repair(value.body).unescaped, rewrapped |-> Repair(value.body).rewrapped]

------------------------------------------------------------------------------
(* What the module promises (service_key.py:25-30).                        *)

\* What a deployment layer makes of a line break: none, a blank, an escape, or the escape of
\* an escape.
Damages ==
  { <<Newline>>, <<"return", Newline>>, <<>>, <<"space">>,
    <<Backslash, "n">>, <<Backslash, "r", Backslash, "n">>, <<Backslash, "t">>,
    <<Backslash, "r">>,
    <<Backslash, Backslash, "n">>,
    <<Backslash, Backslash, "r", Backslash, Backslash, "n">> }

\* A body whose line breaks were all damaged in one way.
Damaged(body, damage) ==
  FoldLeft(LAMBDA text, c : text \o (IF c = Newline THEN damage ELSE <<c>>), <<>>, body)

\* "any damage that leaves the base64 characters in order is losslessly recoverable": the
\* repair brings the key back that was issued, and repairing twice changes nothing.
Recovers(key, damage) ==
  LET issued == Wrap(key)
      repaired == Repair(Damaged(issued, damage))
  IN  /\ repaired.body = issued
      /\ Repair(repaired.body) = [body |-> issued, empty |-> key = <<>>,
                                  unescaped |-> {}, rewrapped |-> FALSE]
==============================================================================
