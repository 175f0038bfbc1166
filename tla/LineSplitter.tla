----------------------------- MODULE LineSplitter -----------------------------
(***************************************************************************)
(* What the line buffer of a stratum connection promises: the stream of    *)
(* bytes the peer sends is cut at every newline, wherever the socket cut   *)
(* it into chunks; empty lines are dropped, an unfinished line waits.      *)
(***************************************************************************)
EXTENDS Integers, Sequences

CONSTANTS
  Chunks,       \* the chunks of bytes a read can deliver
  NewLine       \* the byte that ends a line

VARIABLES
  input,        \* the part of the last chunk that has not been split yet
  pending,      \* the line begun and not ended
  lines         \* the lines so far

splitterVars == <<input, pending, lines>>

Init ==
  /\ input = <<>>
  /\ pending = <<>>
  /\ lines = <<>>

\* The bytes of s before its first newline, all of s without one.
UpToNewLine(s) ==
  SubSeq(s, 1, CHOOSE n \in 0..Len(s) :
                 /\ \A i \in 1..n : s[i] # NewLine
                 /\ n = Len(s) \/ s[n + 1] = NewLine)

Deliver ==
  /\ input = <<>>
  /\ input' \in Chunks
  /\ UNCHANGED <<pending, lines>>

EndLine ==
  LET piece == UpToNewLine(input)
      line == pending \o piece
  IN  /\ Len(piece) < Len(input)
      /\ input' = SubSeq(input, Len(piece) + 2, Len(input))
      /\ lines' = IF line = <<>> THEN lines ELSE Append(lines, line)
      /\ pending' = <<>>

KeepRest ==
  /\ input # <<>>
  /\ UpToNewLine(input) = input
  /\ pending' = pending \o input
  /\ input' = <<>>
  /\ UNCHANGED lines

\* The connection ends; the unfinished line is dropped.
Discard ==
  /\ input = <<>>
  /\ pending' = <<>>
  /\ UNCHANGED <<input, lines>>

Next == Deliver \/ EndLine \/ KeepRest \/ Discard

\* A chunk that has been delivered is split to its end.
Spec == Init /\ [][Next]_splitterVars /\ WF_splitterVars(EndLine \/ KeepRest)

===============================================================================
