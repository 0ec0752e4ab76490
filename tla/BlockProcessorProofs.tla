------------------------ MODULE BlockProcessorProofs ------------------------
(***************************************************************************)
(* Proofs about BlockProcessor for every set of workers and blocks.        *)
(***************************************************************************)
EXTENDS BlockProcessor, TLAPS

(* MergeGateHolds is not inductive by itself: a validate_block call on a   *)
(* pre-Capella merge block that is past the gate but has not yet returned  *)
(* (looking up or computing) must already carry the acceptance.           *)
GateInv ==
    \A w \in Workers :
        /\ op[w] = "validate"
        /\ blk[w] \in PreCapella \cap MergeBlocks
        /\ \/ pc[w] \in {"lookup", "compute"}
           \/ pc[w] \in {"record_inner", "record"} /\ result[w] = "state"
        => accepted[w]

(* ResultKind needs two facts about where a returned state comes from.   *)
(* Every cache entry has the kind its key's full_transition flag names,    *)
(* because the closure of an operation computes what its flag says; and a *)
(* worker past the cache returns either its own computation or the entry  *)
(* under its own key.                                                      *)
CacheKinds ==
    \A k \in Keys :
        cache[k] # NoEntry => cache[k].kind = IF k[2] THEN "full" ELSE "block"

OutKinds ==
    \A w \in Workers :
        pc[w] \in {"record_inner", "record"} /\ result[w] = "state" =>
            out[w].kind = Produces(op[w])

IInv == TypeOK /\ GateInv /\ CacheKinds /\ OutKinds

LEMMA InitIInv == Init => IInv
  <1> SUFFICES ASSUME Init PROVE IInv
    OBVIOUS
  <1>1. TypeOK
    BY BlocksAssumption DEF Init, TypeOK, Keys, Outcome, NoEntry, PC, AllOps, Level, Results
  <1>2. GateInv
    BY DEF Init, GateInv
  <1>3. CacheKinds
    BY DEF Init, CacheKinds
  <1>4. OutKinds
    BY DEF Init, OutKinds
  <1>5. QED
    BY <1>1, <1>2, <1>3, <1>4 DEF IInv

(* The cache key of a well-typed worker is a key of the cache.            *)
LEMMA KeyType ==
  ASSUME TypeOK, NEW w \in Workers
  PROVE  Key(w) \in Keys
  <1>1. blk[w] \in Blocks
    BY DEF TypeOK
  <1>2. FullTransition(op[w]) \in BOOLEAN
    BY DEF FullTransition
  <1>3. QED
    BY <1>1, <1>2 DEF Key, Keys

(* The kind a computation produces is the kind its cache key names.      *)
LEMMA ProducesKey ==
  ASSUME NEW o
  PROVE  Produces(o) = IF FullTransition(o) THEN "full" ELSE "block"
  BY DEF Produces, FullTransition

(* Each action of worker w changes only w's own entries, and the cache.    *)
LEMMA StepIInv ==
  ASSUME IInv, NEW w \in Workers, Step(w)
  PROVE  IInv'
  <1> USE OpsAssumption DEF IInv, TypeOK, GateInv, CacheKinds, OutKinds, PC, Results
  <1>1. CASE Call(w)
    <2>1. PICK o \in Ops, b \in Blocks :
                 \E l \in Wanted(o) :
                    /\ op' = [op EXCEPT ![w] = o]
                    /\ blk' = [blk EXCEPT ![w] = b]
                    /\ want' = [want EXCEPT ![w] = l]
                    /\ pc' = [pc EXCEPT ![w] = FirstStep(o)]
      BY <1>1 DEF Call
    <2>2. PICK l \in Wanted(o) :
                    /\ op' = [op EXCEPT ![w] = o]
                    /\ blk' = [blk EXCEPT ![w] = b]
                    /\ want' = [want EXCEPT ![w] = l]
                    /\ pc' = [pc EXCEPT ![w] = FirstStep(o)]
      BY <2>1
    <2>3. l \in Level
      BY <2>2 DEF Wanted, AllOps, Level
    <2>4. FirstStep(o) \in PC /\ (o = "validate" => FirstStep(o) = "gate")
      BY DEF FirstStep
    <2>5. QED
      BY <1>1, <2>2, <2>3, <2>4 DEF Call, Outcome, NoEntry
  <1>2. CASE Lookup(w)
    <2>1. Key(w) \in Keys /\ Key(w)[2] = FullTransition(op[w])
      BY KeyType DEF Key
    <2>2. QED
      BY <1>2, <2>1, ProducesKey DEF Lookup
  <1>3. CASE Compute(w)
    <2>1. [kind |-> Produces(op[w]), level |-> want[w]] \in Entry
      BY DEF Produces, Entry
    <2>2. Key(w) \in Keys /\ Key(w)[2] = FullTransition(op[w])
      BY KeyType DEF Key
    <2>3. [kind |-> Produces(op[w]), level |-> want[w]].kind
            = IF Key(w)[2] THEN "full" ELSE "block"
      BY <2>2, ProducesKey
    <2> DEFINE mine == [kind |-> Produces(op[w]), level |-> want[w]]
               kept == Inserted(Key(w), mine)
    <2>4. /\ kept \in Entry
          /\ kept.kind = IF Key(w)[2] THEN "full" ELSE "block"
          /\ kept.kind = Produces(op[w])
      BY <2>1, <2>2, <2>3, ProducesKey DEF Outcome, Inserted
    <2>5. /\ pc[w] = "compute"
          /\ pc' = [pc EXCEPT ![w] =
                      IF op[w] = "validate" THEN "record_inner" ELSE "record"]
          /\ UNCHANGED <<op, blk, want, accepted>>
          /\ \/ /\ result' = [result EXCEPT ![w] = "error"]
                /\ UNCHANGED <<cache, out>>
             \/ /\ cache' = [cache EXCEPT ![Key(w)] = kept]
                /\ out' = [out EXCEPT ![w] = kept]
                /\ result' = [result EXCEPT ![w] = "state"]
      BY <1>3 DEF Compute, Inserted
    <2>6. CASE result' = [result EXCEPT ![w] = "error"] /\ UNCHANGED <<cache, out>>
      BY <2>5, <2>6
    <2>7. CASE /\ cache' = [cache EXCEPT ![Key(w)] = kept]
               /\ out' = [out EXCEPT ![w] = kept]
               /\ result' = [result EXCEPT ![w] = "state"]
      <3>1. TypeOK'
        BY <2>2, <2>4, <2>5, <2>7 DEF Outcome
      <3>2. GateInv'
        BY <2>5, <2>7
      <3>3. CacheKinds'
        BY <2>2, <2>4, <2>7
      <3>4. OutKinds'
        BY <2>4, <2>5, <2>7
      <3>5. QED
        BY <3>1, <3>2, <3>3, <3>4
    <2>8. QED
      BY <2>5, <2>6, <2>7
  <1>4. CASE Gossip(w)
    BY <1>4 DEF Gossip
  <1>5. CASE MergeGate(w)
    BY <1>5 DEF MergeGate
  <1>6. CASE RecordInner(w)
    BY <1>6 DEF RecordInner
  <1>7. CASE Record(w)
    BY <1>7 DEF Record
  <1>8. QED
    BY <1>1, <1>2, <1>3, <1>4, <1>5, <1>6, <1>7 DEF Step

LEMMA NextIInv == IInv /\ [Next]_vars => IInv'
  <1> SUFFICES ASSUME IInv, [Next]_vars PROVE IInv'
    OBVIOUS
  <1>1. CASE Next
    BY <1>1, StepIInv DEF Next
  <1>2. CASE UNCHANGED vars
    BY <1>2 DEF vars, IInv, TypeOK, GateInv, CacheKinds, OutKinds
  <1>3. QED
    BY <1>1, <1>2

THEOREM IInvariant == Spec => []IInv
  BY InitIInv, NextIInv, PTL DEF Spec

-----------------------------------------------------------------------------
(* Every reachable state of the block processor is well typed: the cache   *)
(* maps every (block, full_transition) key to an entry or to nothing.      *)
THEOREM TypeCorrect == Spec => []TypeOK
  BY IInvariant, PTL DEF IInv

(* validate_block never returns a post-state of a pre-Capella merge-       *)
(* transition block unless validate_merge_block accepted it in that call,  *)
(* whatever other workers put in the cache.                                *)
THEOREM MergeGateSafe == Spec => []MergeGateHolds
  <1>1. IInv => MergeGateHolds
    BY DEF IInv, GateInv, MergeGateHolds
  <1>2. QED
    BY <1>1, IInvariant, PTL

(* A state returned by an operation is of the kind the operation promises *)
(* (post-transition for perform_state_transition and validate_block,       *)
(* post-block for the report variants) even when it comes from the cache   *)
(* and another worker computed it.                                         *)
THEOREM ResultKindSafe == Spec => []ResultKind
  <1>1. IInv => ResultKind
    BY DEF IInv, OutKinds, ResultKind, Produces
  <1>2. QED
    BY <1>1, IInvariant, PTL

=============================================================================
