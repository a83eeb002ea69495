-------------------------- MODULE OrderedLossySink --------------------------
(***************************************************************************)
(* What a network sink promises to the capture loop: lines numbered in the *)
(* order they are accepted are delivered in that order, none twice, and    *)
(* some may never be delivered.                                            *)
(***************************************************************************)
EXTENDS Integers, Sequences

CONSTANT MaxLines  \* bound on the accepted lines

VARIABLES accepted,   \* number of lines accepted
          delivered   \* the lines delivered, in order

vars == <<accepted, delivered>>

Ascending(s) == \A i, j \in 1..Len(s) : i < j => s[i] < s[j]

Last0(s) == IF s = <<>> THEN 0 ELSE s[Len(s)]

Init == accepted = 0 /\ delivered = <<>>

\* One call of the sink: it may accept a line, and delivers any ascending
\* choice of the lines accepted but not yet passed over.
Step ==
  /\ accepted' \in {accepted, accepted + 1}
  /\ accepted' <= MaxLines
  /\ delivered' \in Seq(1..accepted')
  /\ Len(delivered) <= Len(delivered')
  /\ SubSeq(delivered', 1, Len(delivered)) = delivered
  /\ Ascending(delivered')

Spec == Init /\ [][Step]_vars
=============================================================================
