--------------------------- MODULE TimingMetrics ---------------------------
(***************************************************************************)
(* TimingMetrics (src/fork_choice_control/src/block_processor.rs): a FIFO  *)
(* of at most max_size durations with a running total.  A Duration is a    *)
(* natural number of time units; Duration arithmetic panics on overflow,   *)
(* which no realistic sum reaches, so the model does not bound it.         *)
(***************************************************************************)
EXTENDS Naturals, Sequences, SequencesExt

CONSTANTS
    MaxSize,    \* max_size given to TimingMetrics::new
    Durations   \* the durations recorded (small naturals)

ASSUME MaxSizeAssumption == MaxSize \in Nat
ASSUME DurationsAssumption == Durations \subseteq Nat

VARIABLES
    times,      \* the VecDeque of recorded durations, front first
    total       \* the running total

vars == <<times, total>>

TypeOK ==
    /\ times \in Seq(Durations)
    /\ total \in Nat

(* TimingMetrics::new(max_size)                                            *)
Init ==
    /\ times = <<>>
    /\ total = 0

(* Mutants of update: the evicted duration is not taken off the total; the *)
(* capacity test is off by one; the evicted and the new duration are both  *)
(* subtracted, a misplaced parenthesis.                                    *)
updateKeepTotal(d) ==
    LET full == Len(times) >= MaxSize /\ times # <<>>
    IN  /\ times' = Append(IF full THEN Tail(times) ELSE times, d)
        /\ total' = total + d

updateOffByOne(d) ==
    LET full == Len(times) > MaxSize /\ times # <<>>
    IN  /\ times' = Append(IF full THEN Tail(times) ELSE times, d)
        /\ total' = (IF full THEN total - Head(times) ELSE total) + d

updateParen(d) ==
    LET full == Len(times) >= MaxSize /\ times # <<>>
    IN  /\ times' = Append(IF full THEN Tail(times) ELSE times, d)
        /\ total' = IF full THEN total - (Head(times) + d) ELSE total + d

(* TimingMetrics::update: at capacity, pop the oldest duration (if there   *)
(* is one) and take it off the total; then push the new one and add it.    *)
update(d) ==
    LET full == Len(times) >= MaxSize /\ times # <<>>
        kept == IF full THEN Tail(times) ELSE times
    IN  /\ times' = Append(kept, d)
        /\ total' = (IF full THEN total - Head(times) ELSE total) + d

Next == \E d \in Durations : update(d)

Spec == Init /\ [][Next]_vars

-----------------------------------------------------------------------------
(* The queries.  They read the window and change nothing.                  *)

count == Len(times)

last == times[Len(times)]

min == CHOOSE v \in ToSet(times) : \A i \in DOMAIN times : v <= times[i]

max == CHOOSE v \in ToSet(times) : \A i \in DOMAIN times : v >= times[i]

\* `self.total / self.times.len() as u32`: integer division.
average == total \div Len(times)

\* sorted[k] of `sorted.sort()`, 0-based: the value with at most k smaller
\* elements and more than k elements at most as large.
Sorted(k) ==
    CHOOSE v \in ToSet(times) :
        /\ Cardinality({i \in DOMAIN times : times[i] < v}) <= k
        /\ Cardinality({i \in DOMAIN times : times[i] <= v}) > k

median == (Sorted(Len(times) \div 2) + Sorted(Len(times) - 1 - Len(times) \div 2)) \div 2

-----------------------------------------------------------------------------
(* Properties.                                                             *)

(* The sum of a sequence of durations, counted in time units: the set of   *)
(* pairs <<i, k>> with k one of the s[i] units of the i-th duration has    *)
(* s[1] + ... + s[Len(s)] elements.  Counting a set rather than folding    *)
(* the sequence lets the sum be reasoned about without induction.          *)
Units(s) == UNION {{i} \X (1 .. s[i]) : i \in DOMAIN s}

SeqSum(s) == Cardinality(Units(s))

(* The running total is the sum of the window after every update: the      *)
(* subtraction of the evicted duration and the addition of the new one     *)
(* keep it so (spec section 3, `total == sum(times)`).  With TypeOK this   *)
(* says `self.total -= old` never underflows, which would panic.           *)
TotalIsSum == total = SeqSum(times)

(* TimingMetrics implements the window of the last MaxSize durations.      *)
Window == INSTANCE TimingWindow WITH window <- times
WindowSpec == Window!Spec
=============================================================================
