---------------------------- MODULE TimingWindow ----------------------------
(***************************************************************************)
(* What TimingMetrics promises (spec sections 3 and 4.6): it holds the     *)
(* last MaxSize durations recorded, oldest first, and nothing else.        *)
(***************************************************************************)
EXTENDS Naturals, Sequences

CONSTANTS
    MaxSize,    \* the capacity given to TimingMetrics::new
    Durations   \* the durations that may be recorded

VARIABLE window

(* The last k elements of s (all of s when it is shorter).                 *)
LastN(s, k) == IF Len(s) > k THEN SubSeq(s, Len(s) - k + 1, Len(s)) ELSE s

Init == window = <<>>

Record(d) == window' = LastN(Append(window, d), MaxSize)

Next == \E d \in Durations : Record(d)

Spec == Init /\ [][Next]_window
=============================================================================
