------------------------------- MODULE LogTail -------------------------------
(***************************************************************************)
(* The tail of the log that an administrator is shown (diagnostics.py      *)
(* tail_log): a file is a sequence of lines, each blank, malformed, or a   *)
(* record of some level.                                                   *)
(***************************************************************************)
EXTENDS SequencesExt, Naturals

CONSTANT MAX_LOG_LINES

ASSUME LogAssumption == MAX_LOG_LINES \in Nat \ {0}

LOG_LEVELS == <<"DEBUG", "INFO", "WARNING", "ERROR", "CRITICAL">>

Lines == {"blank", "malformed", "OTHER"} \cup ToSet(LOG_LEVELS)

Index(level) == CHOOSE i \in DOMAIN LOG_LEVELS : LOG_LEVELS[i] = level

Threshold(min_level) == Index(IF min_level \in ToSet(LOG_LEVELS) THEN min_level ELSE "INFO")

\* A record of a level nobody knows is kept, and so is a line that is no record.
Keeps(line, min_level) ==
  /\ line # "blank"
  /\ line \in ToSet(LOG_LEVELS) => Index(line) >= Threshold(min_level)

Clamped(lines) == IF lines < 1 THEN 1 ELSE IF lines > MAX_LOG_LINES THEN MAX_LOG_LINES ELSE lines

\* deque(maxlen): a full one loses its first.
Push(kept, line, maxlen) ==
  IF Len(kept) < maxlen THEN Append(kept, line) ELSE Append(Tail(kept), line)

\* kept[n] is what the deque holds when n lines of the file were read.
tail_log(file, lines, min_level) ==
  LET kept[n \in 0 .. Len(file)] ==
        IF n = 0 THEN <<>>
        ELSE IF Keeps(file[n], min_level) THEN Push(kept[n - 1], file[n], Clamped(lines))
        ELSE kept[n - 1]
  IN  kept[Len(file)]

\* The reference: of all that is kept the last.
LastOf(file, lines, min_level) ==
  LET all == SelectSeq(file, LAMBDA line : Keeps(line, min_level)) IN
  SubSeq(all, IF Len(all) > Clamped(lines) THEN Len(all) - Clamped(lines) + 1 ELSE 1, Len(all))
==============================================================================
