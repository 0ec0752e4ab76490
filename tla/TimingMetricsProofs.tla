------------------------ MODULE TimingMetricsProofs ------------------------
(***************************************************************************)
(* Proofs about TimingMetrics: its running total is the sum of the window *)
(* and never underflows, and it implements the sliding window TimingWindow,*)
(* for every capacity the code can be given except 0 (the one caller,      *)
(* update_metrics, passes 100; TimingMetrics::new(0) is the finding of the *)
(* run timing_window_zero) and every set of durations.                     *)
(***************************************************************************)
EXTENDS TimingMetrics, SequenceTheorems, FiniteSetTheorems, TLAPS

(* The refinement mapping is window <- times: the VecDeque is the window. *)
(* The step needs to know that the deque never holds more than max_size   *)
(* durations, so that update pops exactly when the window slides.          *)
LenInv ==
    /\ times \in Seq(Durations)
    /\ Len(times) <= MaxSize

LEMMA InitLenInv == Init => LenInv
  BY MaxSizeAssumption DEF Init, LenInv

(* One update is one Record of the window, and keeps the deque within its *)
(* capacity.  At capacity the deque pops its front and pushes d, which is  *)
(* the last MaxSize elements of times with d appended; below capacity it   *)
(* only pushes, and the appended sequence is still short enough.           *)
LEMMA UpdateRecords ==
  ASSUME MaxSize \in Nat \ {0}, LenInv, NEW d \in Durations, update(d)
  PROVE  /\ Window!Record(d)
         /\ LenInv'
  <1> DEFINE A == Append(times, d)
  <1>1. /\ A \in Seq(Durations)
        /\ Len(A) = Len(times) + 1
    BY AppendProperties DEF LenInv
  <1>2. CASE Len(times) >= MaxSize /\ times # <<>>
    <2>1. Len(times) = MaxSize
      BY <1>2 DEF LenInv
    <2>2. times' = Append(Tail(times), d)
      BY <1>2 DEF update
    <2>3. Append(Tail(times), d) = Tail(A)
      BY <1>2, HeadTailAppend DEF LenInv
    <2>4. Tail(A) = SubSeq(A, 2, Len(A))
      BY <1>1, AppendProperties, TailIsSubSeq DEF LenInv
    <2>5. Window!LastN(A, MaxSize) = SubSeq(A, 2, Len(A))
      BY <1>1, <2>1 DEF Window!LastN
    <2>6. Window!Record(d)
      BY <2>2, <2>3, <2>4, <2>5 DEF Window!Record
    <2>7. Tail(A) \in Seq(Durations) /\ Len(Tail(A)) = MaxSize
      BY <1>1, <2>1, HeadTailProperties, AppendProperties DEF LenInv
    <2>8. QED
      BY <2>2, <2>3, <2>6, <2>7 DEF LenInv
  <1>3. CASE ~(Len(times) >= MaxSize /\ times # <<>>)
    <2>1. Len(times) < MaxSize
      BY <1>3, EmptySeq DEF LenInv
    <2>2. times' = A
      BY <1>3 DEF update
    <2>3. Window!LastN(A, MaxSize) = A
      BY <1>1, <2>1 DEF Window!LastN, LenInv
    <2>4. QED
      BY <1>1, <2>1, <2>2, <2>3 DEF Window!Record, LenInv
  <1>4. QED
    BY <1>2, <1>3

LEMMA NextLenInv ==
  ASSUME MaxSize \in Nat \ {0}, LenInv, [Next]_vars
  PROVE  LenInv' /\ [Window!Next]_times
  <1>1. CASE Next
    BY <1>1, UpdateRecords DEF Next, Window!Next
  <1>2. CASE UNCHANGED vars
    BY <1>2 DEF vars, LenInv
  <1>3. QED
    BY <1>1, <1>2

-----------------------------------------------------------------------------
(* For every capacity above zero, every behaviour of TimingMetrics::new    *)
(* followed by update calls is a behaviour of the sliding window of the    *)
(* last max_size durations: the deque holds exactly the most recent        *)
(* max_size durations recorded, oldest first.                              *)
THEOREM WindowRefinement ==
  ASSUME MaxSize \in Nat \ {0}
  PROVE  Spec => WindowSpec
  <1>1. Init => LenInv /\ Window!Init
    BY InitLenInv DEF Init, Window!Init
  <1>2. LenInv /\ [Next]_vars => LenInv' /\ [Window!Next]_times
    BY NextLenInv
  <1>3. QED
    BY <1>1, <1>2, PTL DEF Spec, WindowSpec, Window!Spec
-----------------------------------------------------------------------------
(* The sum as a count of time units.                                       *)

(* A unit of s is a pair of an index of s and one of the units of s[i].    *)
LEMMA UnitsMember ==
  ASSUME NEW s \in Seq(Nat), NEW x
  PROVE  x \in Units(s) <=> \E i \in 1 .. Len(s) : \E k \in 1 .. s[i] : x = <<i, k>>
  BY DEF Units

(* The k units of one duration.                                            *)
LEMMA BlockCard ==
  ASSUME NEW i, NEW k \in Nat
  PROVE  /\ IsFiniteSet({i} \X (1 .. k))
         /\ Cardinality({i} \X (1 .. k)) = k
  <1>1. IsFiniteSet({i}) /\ Cardinality({i}) = 1
    BY FS_Singleton
  <1>2. IsFiniteSet(1 .. k) /\ Cardinality(1 .. k) = k
    BY FS_Interval
  <1>3. /\ IsFiniteSet({i} \X (1 .. k))
        /\ Cardinality({i} \X (1 .. k)) = Cardinality({i}) * Cardinality(1 .. k)
    BY <1>1, <1>2, FS_Product
  <1>4. QED
    BY <1>1, <1>2, <1>3

(* A sequence of naturals has finitely many units, so its sum is a number. *)
LEMMA UnitsFinite ==
  ASSUME NEW s \in Seq(Nat)
  PROVE  /\ IsFiniteSet(Units(s))
         /\ SeqSum(s) \in Nat
  <1> DEFINE Blocks == {{i} \X (1 .. s[i]) : i \in 1 .. Len(s)}
             f == [i \in 1 .. Len(s) |-> {i} \X (1 .. s[i])]
  <1>1. f \in Surjection(1 .. Len(s), Blocks)
    BY DEF Surjection
  <1>2. IsFiniteSet(Blocks)
    BY <1>1, FS_Surjection, FS_Interval
  <1>3. ASSUME NEW T \in Blocks PROVE IsFiniteSet(T)
    <2>1. PICK i \in 1 .. Len(s) : T = {i} \X (1 .. s[i])
      OBVIOUS
    <2>2. s[i] \in Nat
      BY ElementOfSeq
    <2>3. QED
      BY <2>1, <2>2, BlockCard
  <1>4. Units(s) = UNION Blocks
    BY DEF Units
  <1>5. IsFiniteSet(Units(s))
    BY <1>2, <1>3, <1>4, FS_UNION
  <1>6. QED
    BY <1>5, FS_CardinalityType DEF SeqSum
(* The empty window sums to 0.                                             *)
LEMMA SumEmpty == SeqSum(<<>>) = 0
  <1>1. Units(<<>>) = {}
    BY DEF Units
  <1>2. QED
    BY <1>1, FS_EmptySet DEF SeqSum

(* Pushing d at the back adds d to the sum: the new units are those of the *)
(* new last index, which no unit of s has.                                 *)
LEMMA SumAppend ==
  ASSUME NEW s \in Seq(Nat), NEW d \in Nat
  PROVE  SeqSum(Append(s, d)) = SeqSum(s) + d
  <1> DEFINE A == Append(s, d)
             B == {Len(s) + 1} \X (1 .. d)
  <1>1. A \in Seq(Nat) /\ Len(A) = Len(s) + 1
        /\ \A i \in 1 .. Len(s) : A[i] = s[i]
        /\ A[Len(s) + 1] = d
    BY AppendProperties
  <1>2. Units(A) = Units(s) \cup B
    <2>1. ASSUME NEW x PROVE x \in Units(A) <=> x \in Units(s) \/ x \in B
      <3>1. x \in Units(A) <=> \E i \in 1 .. Len(A) : \E k \in 1 .. A[i] : x = <<i, k>>
        <4>1. Append(s, d) \in Seq(Nat)
          BY <1>1
        <4>2. QED
          BY <4>1 DEF Units
      <3>2. x \in Units(s) <=> \E i \in 1 .. Len(s) : \E k \in 1 .. s[i] : x = <<i, k>>
        BY UnitsMember
      <3>3. ASSUME x \in Units(A) PROVE x \in Units(s) \/ x \in B
        <4>1. PICK i \in 1 .. Len(A) : \E k \in 1 .. A[i] : x = <<i, k>>
          BY <3>1, <3>3
        <4>2. CASE i \in 1 .. Len(s)
          BY <1>1, <3>2, <4>1, <4>2
        <4>3. CASE i = Len(s) + 1
          BY <1>1, <4>1, <4>3
        <4>4. QED
          BY <1>1, <4>2, <4>3
      <3>4. ASSUME x \in Units(s) PROVE x \in Units(A)
        <4>1. PICK i \in 1 .. Len(s) : \E k \in 1 .. s[i] : x = <<i, k>>
          BY <3>2, <3>4
        <4>2. QED
          BY <1>1, <3>1, <4>1
      <3>5. ASSUME x \in B PROVE x \in Units(A)
        BY <1>1, <3>1, <3>5
      <3>6. QED
        BY <3>3, <3>4, <3>5
    <2>2. QED
      BY <2>1
  <1>3. Units(s) \cap B = {}
    BY UnitsMember
  <1>4. IsFiniteSet(Units(s)) /\ IsFiniteSet(B) /\ Cardinality(B) = d
    BY UnitsFinite, BlockCard
  <1>5. Cardinality(Units(s) \cup B) = Cardinality(Units(s)) + Cardinality(B) - Cardinality({})
    BY <1>3, <1>4, FS_Union
  <1>6. QED
    BY <1>2, <1>4, <1>5, UnitsFinite, FS_EmptySet DEF SeqSum

(* The units of s shifted one index up: those of <<h>> \o s past the first. *)
Shift(X) == {<<p[1] + 1, p[2]>> : p \in X}

(* Shifting the units does not change how many there are.                 *)
LEMMA ShiftCard ==
  ASSUME NEW s \in Seq(Nat)
  PROVE  /\ IsFiniteSet(Shift(Units(s)))
         /\ Cardinality(Shift(Units(s))) = SeqSum(s)
  <1> DEFINE U == Units(s)
             f == [p \in U |-> <<p[1] + 1, p[2]>>]
  <1>1. \A p \in U : \E i \in Nat : \E k \in Nat : p = <<i, k>>
    BY UnitsMember
  <1>2. f \in [U -> Shift(U)]
    BY DEF Shift
  <1>3. ASSUME NEW a \in U, NEW b \in U, f[a] = f[b] PROVE a = b
    <2>1. PICK i \in Nat, k \in Nat : a = <<i, k>>
      BY <1>1
    <2>2. PICK j \in Nat, l \in Nat : b = <<j, l>>
      BY <1>1
    <2>3. <<i + 1, k>> = <<j + 1, l>>
      BY <1>3, <2>1, <2>2
    <2>4. QED
      BY <2>1, <2>2, <2>3
  <1>4. f \in Injection(U, Shift(U))
    BY <1>2, <1>3 DEF Injection, IsInjective
  <1>5. f \in Surjection(U, Shift(U))
    BY <1>2 DEF Surjection, Shift
  <1>6. ExistsBijection(U, Shift(U))
    BY <1>4, <1>5 DEF ExistsBijection, Bijection
  <1>7. QED
    BY <1>6, UnitsFinite, FS_Bijection DEF SeqSum

(* Popping the front takes Head(s) off the sum: the units of the first     *)
(* index, and the units of Tail(s) shifted one index up.                   *)
LEMMA SumTail ==
  ASSUME NEW s \in Seq(Nat), s # <<>>
  PROVE  SeqSum(s) = Head(s) + SeqSum(Tail(s))
  <1> DEFINE T == Tail(s)
             B == {1} \X (1 .. s[1])
  <1>1. /\ Head(s) \in Nat /\ T \in Seq(Nat) /\ Len(T) = Len(s) - 1
        /\ \A i \in 1 .. Len(T) : T[i] = s[i + 1]
        /\ Head(s) = s[1] /\ Len(s) \in Nat \ {0}
    BY HeadTailProperties, EmptySeq
  <1>2. \A p : p \in Units(T) <=> \E i \in 1 .. Len(T) : \E k \in 1 .. T[i] : p = <<i, k>>
    BY <1>1, UnitsMember, Zenon
  <1>3. ASSUME NEW x
        PROVE  x \in Shift(Units(T)) <=> \E i \in 2 .. Len(s) : \E k \in 1 .. s[i] : x = <<i, k>>
    <2>1. ASSUME x \in Shift(Units(T))
          PROVE  \E i \in 2 .. Len(s) : \E k \in 1 .. s[i] : x = <<i, k>>
      <3>1. PICK p \in Units(T) : x = <<p[1] + 1, p[2]>>
        BY <2>1 DEF Shift
      <3>2. PICK i \in 1 .. Len(T) : \E k \in 1 .. T[i] : p = <<i, k>>
        BY <1>2
      <3>3. PICK k \in 1 .. T[i] : p = <<i, k>>
        BY <3>2
      <3>4. x = <<i + 1, k>> /\ i + 1 \in 2 .. Len(s) /\ k \in 1 .. s[i + 1]
        BY <1>1, <3>1, <3>3
      <3>5. QED
        BY <3>4
    <2>2. ASSUME NEW i \in 2 .. Len(s), NEW k \in 1 .. s[i]
          PROVE  <<i, k>> \in Shift(Units(T))
      <3>1. i - 1 \in 1 .. Len(T) /\ k \in 1 .. T[i - 1]
        BY <1>1
      <3>2. <<i - 1, k>> \in Units(T)
        BY <3>1, <1>2
      <3>3. <<i, k>> = << (<<i - 1, k>>)[1] + 1, (<<i - 1, k>>)[2] >>
        OBVIOUS
      <3>4. QED
        BY <3>2, <3>3 DEF Shift
    <2>3. QED
      BY <2>1, <2>2
  <1>4. Units(s) = B \cup Shift(Units(T))
    <2>1. ASSUME NEW x PROVE x \in Units(s) <=> x \in B \/ x \in Shift(Units(T))
      <3>1. x \in Units(s) <=> \E i \in 1 .. Len(s) : \E k \in 1 .. s[i] : x = <<i, k>>
        BY UnitsMember
      <3>2. x \in B <=> \E k \in 1 .. s[1] : x = <<1, k>>
        OBVIOUS
      <3>3. QED
        BY <1>1, <1>3, <3>1, <3>2
    <2>2. QED
      BY <2>1
  <1>5. B \cap Shift(Units(T)) = {}
    BY <1>3
  <1>6. /\ IsFiniteSet(B) /\ Cardinality(B) = Head(s)
        /\ IsFiniteSet(Shift(Units(T))) /\ Cardinality(Shift(Units(T))) = SeqSum(T)
    BY <1>1, BlockCard, ShiftCard
  <1>7. Cardinality(B \cup Shift(Units(T))) = Cardinality(B) + Cardinality(Shift(Units(T))) - Cardinality({})
    BY <1>5, <1>6, FS_Union
  <1>8. SeqSum(T) \in Nat /\ Cardinality({}) = 0
    BY <1>1, UnitsFinite, FS_EmptySet
  <1>9. QED
    BY <1>1, <1>4, <1>6, <1>7, <1>8 DEF SeqSum
-----------------------------------------------------------------------------
(* The running total.  TypeOK and TotalIsSum are inductive together: the   *)
(* total is a natural because it is a sum, and the sum covers the evicted  *)
(* duration because Head(times) is one of its terms.                       *)
SumInv == TypeOK /\ TotalIsSum

LEMMA InitSumInv == Init => SumInv
  BY SumEmpty DEF Init, SumInv, TypeOK, TotalIsSum

(* update keeps the total equal to the sum, whether or not it evicts.      *)
LEMMA UpdateSumInv ==
  ASSUME SumInv, NEW d \in Durations, update(d)
  PROVE  SumInv'
  <1>1. /\ times \in Seq(Durations) /\ times \in Seq(Nat)
        /\ d \in Nat /\ total = SeqSum(times)
    BY DurationsAssumption, SeqMonotonic DEF SumInv, TypeOK, TotalIsSum
  <1>2. CASE Len(times) >= MaxSize /\ times # <<>>
    <2>1. times' = Append(Tail(times), d) /\ total' = (total - Head(times)) + d
      BY <1>2 DEF update
    <2>2. Tail(times) \in Seq(Durations) /\ Tail(times) \in Seq(Nat)
      BY <1>1, <1>2, HeadTailProperties
    <2>3. total = Head(times) + SeqSum(Tail(times))
      BY <1>1, <1>2, SumTail
    <2>4. SeqSum(Tail(times)) \in Nat /\ Head(times) \in Nat
      BY <1>1, <1>2, <2>2, UnitsFinite, HeadTailProperties
    <2>5. SeqSum(times') = SeqSum(Tail(times)) + d
      BY <1>1, <2>1, <2>2, SumAppend
    <2>6. times' \in Seq(Durations)
      BY <2>1, <2>2, AppendProperties
    <2>7. total - Head(times) = SeqSum(Tail(times))
      BY <2>3, <2>4
    <2>8. total' = SeqSum(Tail(times)) + d
      BY <2>1, <2>7
    <2>9. total' = SeqSum(times') /\ total' \in Nat
      BY <1>1, <2>4, <2>5, <2>8
    <2>10. QED
      BY <2>6, <2>9 DEF SumInv, TypeOK, TotalIsSum
  <1>3. CASE ~(Len(times) >= MaxSize /\ times # <<>>)
    <2>1. times' = Append(times, d) /\ total' = total + d
      BY <1>3 DEF update
    <2>2. SeqSum(times') = SeqSum(times) + d /\ SeqSum(times) \in Nat
      BY <1>1, <2>1, SumAppend, UnitsFinite
    <2>3. times' \in Seq(Durations)
      BY <1>1, <2>1, AppendProperties
    <2>4. QED
      BY <1>1, <2>1, <2>2, <2>3 DEF SumInv, TypeOK, TotalIsSum
  <1>4. QED
    BY <1>2, <1>3

LEMMA NextSumInv == SumInv /\ [Next]_vars => SumInv'
  <1> SUFFICES ASSUME SumInv, [Next]_vars PROVE SumInv'
    OBVIOUS
  <1>1. CASE Next
    BY <1>1, UpdateSumInv DEF Next
  <1>2. CASE UNCHANGED vars
    BY <1>2 DEF vars, SumInv, TypeOK, TotalIsSum
  <1>3. QED
    BY <1>1, <1>2

(* For every capacity, including 0, and every set of durations: the deque  *)
(* holds durations and TimingMetrics::update never makes the total         *)
(* negative, so `self.total -= old` cannot underflow and panic.            *)
THEOREM TypeCorrect == Spec => []TypeOK
  <1>1. Spec => []SumInv
    BY InitSumInv, NextSumInv, PTL DEF Spec
  <1>2. QED
    BY <1>1, PTL DEF SumInv

(* For every capacity and every set of durations, the running total that   *)
(* update maintains by subtracting the evicted and adding the new duration *)
(* is always the sum of the durations in the window.                       *)
THEOREM TotalSafe == Spec => []TotalIsSum
  <1>1. Spec => []SumInv
    BY InitSumInv, NextSumInv, PTL DEF Spec
  <1>2. QED
    BY <1>1, PTL DEF SumInv
=============================================================================
