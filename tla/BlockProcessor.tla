--------------------------- MODULE BlockProcessor ---------------------------
(***************************************************************************)
(* BlockProcessor (src/fork_choice_control/src/block_processor.rs) and the *)
(* state cache it calls.  Worker threads call its operations on blocks at *)
(* the same time.  A block is a model value; what the processor looks at   *)
(* of it is its phase (PreCapella) and whether it is a merge-transition    *)
(* block against its pre-state (MergeBlocks).  A computed state is         *)
(* abstracted to what produced it: block processing ("block") or the full  *)
(* state transition ("full"), and how much of the block was verified       *)
(* (Level).                                                                *)
(*                                                                         *)
(* The state cache facade (StateCacheProcessor::get_or_insert_with) is not *)
(* in src/; it is modelled from spec sections 4.7 and 5: a hit returns the *)
(* cached state, a miss runs the computation, an error inserts nothing,    *)
(* and of two concurrent computations of one key the first insertion is   *)
(* kept and returned to both.                                              *)
(***************************************************************************)
EXTENDS Naturals, FiniteSets

CONSTANTS
    Workers,        \* threads calling the BlockProcessor
    Blocks,         \* blocks, each with its own hash_tree_root
    PreCapella,     \* blocks with block.phase() < Phase::Capella
    MergeBlocks,    \* blocks that are merge-transition blocks for their pre-state
    Ops             \* the operations the callers use

ASSUME BlocksAssumption ==
    Blocks # {} /\ PreCapella \subseteq Blocks /\ MergeBlocks \subseteq Blocks

AllOps == {"untrusted", "trusted", "untrusted_blinded", "trusted_blinded",
           "perform", "gossip", "validate"}
ASSUME OpsAssumption == Ops \subseteq AllOps

(* Verification done by a computation: 2 = every signature, as            *)
(* process_untrusted_block; 1 = all but the RANDAO reveal                  *)
(* (skip_randao_verification); 0 = none, as process_trusted_block or a     *)
(* NullVerifier.                                                           *)
Level == 0 .. 2

(* Mutant: perform_state_transition passing `false` like the report        *)
(* variants.                                                               *)
FullTransitionPerformFalse(o) == o \in {"validate"}

(* The full_transition flag passed to get_or_insert_with.                   *)
FullTransition(op) == op \in {"perform", "validate"}

(* What the closure given to get_or_insert_with computes: the full state   *)
(* transition (custom_state_transition) for perform_state_transition,     *)
(* block processing only for the four report variants.                    *)
Produces(o) == IF o \in {"perform", "validate"} THEN "full" ELSE "block"

Keys == Blocks \X BOOLEAN
Entry == [kind : {"block", "full"}, level : Level]
NoEntry == [kind |-> "none", level |-> 0]
Outcome == Entry \cup {NoEntry}
Results == {"none", "state", "error", "ignore"}

VARIABLES
    cache,      \* the state cache: key -> entry, or NoEntry
    pc,         \* where each worker is
    op,         \* the operation the worker is in (for "validate", the outer one)
    blk,        \* the block it processes
    want,       \* the verification level the caller asked for
    out,        \* the state the operation returned, abstracted
    result,     \* how the operation ended
    accepted    \* ghost: validate_merge_block answered Accept in this call

vars == <<cache, pc, op, blk, want, out, result, accepted>>

PC == {"idle", "gate", "lookup", "compute", "gossip", "record_inner", "record"}

TypeOK ==
    /\ cache \in [Keys -> Outcome]
    /\ pc \in [Workers -> PC]
    /\ op \in [Workers -> AllOps]
    /\ blk \in [Workers -> Blocks]
    /\ want \in [Workers -> Level]
    /\ out \in [Workers -> Outcome]
    /\ result \in [Workers -> Results]
    /\ accepted \in [Workers -> BOOLEAN]

Init ==
    /\ cache = [k \in Keys |-> NoEntry]
    /\ pc = [w \in Workers |-> "idle"]
    /\ op = [w \in Workers |-> "gossip"]
    /\ blk = [w \in Workers |-> CHOOSE b \in Blocks : TRUE]
    /\ want = [w \in Workers |-> 0]
    /\ out = [w \in Workers |-> NoEntry]
    /\ result = [w \in Workers |-> "none"]
    /\ accepted = [w \in Workers |-> FALSE]

-----------------------------------------------------------------------------
(* Calls.  The levels a caller can ask for: skip_randao_verification for   *)
(* the untrusted variants, the verifier for perform_state_transition and   *)
(* validate_block.                                                         *)
Wanted(o) ==
    CASE o \in {"untrusted", "untrusted_blinded"} -> {1, 2}
      [] o \in {"trusted", "trusted_blinded"}     -> {0}
      [] o \in {"perform", "validate"}            -> {0, 2}
      [] o = "gossip"                             -> {2}

FirstStep(o) ==
    CASE o = "gossip"   -> "gossip"
      [] o = "validate" -> "gate"
      [] OTHER          -> "lookup"

Call(w) ==
    /\ pc[w] = "idle"
    /\ \E o \in Ops, b \in Blocks :
         \E l \in Wanted(o) :
            /\ op' = [op EXCEPT ![w] = o]
            /\ blk' = [blk EXCEPT ![w] = b]
            /\ want' = [want EXCEPT ![w] = l]
            /\ pc' = [pc EXCEPT ![w] = FirstStep(o)]
    /\ out' = [out EXCEPT ![w] = NoEntry]
    /\ result' = [result EXCEPT ![w] = "none"]
    /\ accepted' = [accepted EXCEPT ![w] = FALSE]
    /\ UNCHANGED cache

(* The cache key of the worker's current get_or_insert_with.               *)
Key(w) == <<blk[w], FullTransition(op[w])>>

(* get_or_insert_with, first half: a hit returns the cached state.         *)
Lookup(w) ==
    /\ pc[w] = "lookup"
    /\ IF cache[Key(w)] # NoEntry
         THEN /\ out' = [out EXCEPT ![w] = cache[Key(w)]]
              /\ result' = [result EXCEPT ![w] = "state"]
              /\ pc' = [pc EXCEPT ![w] =
                          IF op[w] = "validate" THEN "record_inner" ELSE "record"]
         ELSE /\ pc' = [pc EXCEPT ![w] = "compute"]
              /\ UNCHANGED <<out, result>>
    /\ UNCHANGED <<cache, op, blk, want, accepted>>

(* The state cache facade's insertion (spec 4.7, not part of this crate): *)
(* the entry a key already holds is kept and returned, so of two workers   *)
(* that computed the same key the first insertion wins.                    *)
Inserted(k, s) == IF cache[k] = NoEntry THEN s ELSE cache[k]

(* get_or_insert_with, second half: the closure clones the state and runs  *)
(* the state transition function of the operation.  On success its state  *)
(* is handed to the facade's insertion; on error nothing is inserted.      *)
Compute(w) ==
    /\ pc[w] = "compute"
    /\ pc' = [pc EXCEPT ![w] =
                IF op[w] = "validate" THEN "record_inner" ELSE "record"]
    /\ \/ /\ result' = [result EXCEPT ![w] = "error"]
          /\ UNCHANGED <<cache, out>>
       \/ LET mine == [kind |-> Produces(op[w]), level |-> want[w]]
              kept == Inserted(Key(w), mine)
          IN  /\ cache' = [cache EXCEPT ![Key(w)] = kept]
              /\ out' = [out EXCEPT ![w] = kept]
              /\ result' = [result EXCEPT ![w] = "state"]
    /\ UNCHANGED <<op, blk, want, accepted>>

(* validate_block_for_gossip: the closure fetches the parent state,        *)
(* processes slots on a copy and runs process_block_for_gossip; nothing is *)
(* cached.  It may fail, and the store may not call it at all.             *)
Gossip(w) ==
    /\ pc[w] = "gossip"
    /\ pc' = [pc EXCEPT ![w] = "record"]
    /\ \E r \in {"none", "error"} : result' = [result EXCEPT ![w] = r]
    /\ UNCHANGED <<cache, op, blk, want, out, accepted>>

(* Mutant: the merge-transition check left out of validate_block.          *)
MergeGateDropped(w) ==
    /\ pc[w] = "gate"
    /\ pc' = [pc EXCEPT ![w] = "lookup"]
    /\ UNCHANGED <<cache, op, blk, want, out, result, accepted>>

(* validate_block, before the transition: for a block of a phase before    *)
(* Capella that is a merge-transition block for the pre-state,             *)
(* validate_merge_block decides; Ignore returns at once, an error returns  *)
(* the error, Accept goes on to perform_state_transition.                  *)
MergeGate(w) ==
    /\ pc[w] = "gate"
    /\ IF blk[w] \in PreCapella /\ blk[w] \in MergeBlocks
         THEN \/ /\ pc' = [pc EXCEPT ![w] = "lookup"]
                 /\ accepted' = [accepted EXCEPT ![w] = TRUE]
                 /\ UNCHANGED result
              \/ /\ pc' = [pc EXCEPT ![w] = "record"]
                 /\ \E r \in {"ignore", "error"} : result' = [result EXCEPT ![w] = r]
                 /\ UNCHANGED accepted
         ELSE /\ pc' = [pc EXCEPT ![w] = "lookup"]
              /\ UNCHANGED <<result, accepted>>
    /\ UNCHANGED <<cache, op, blk, want, out>>

(* update_metrics: under the metrics mutex the duration goes into the     *)
(* TimingMetrics of the operation's name (modelled in TimingMetrics); no   *)
(* worker reads it, so here it is only the point where the call ends.      *)

(* perform_state_transition called from validate_block returns through    *)
(* its own update_metrics, then validate_block goes on.                    *)
RecordInner(w) ==
    /\ pc[w] = "record_inner"
    /\ pc' = [pc EXCEPT ![w] = "record"]
    /\ UNCHANGED <<cache, op, blk, want, out, result, accepted>>

(* The operation's update_metrics, then it returns its result.             *)
Record(w) ==
    /\ pc[w] = "record"
    /\ pc' = [pc EXCEPT ![w] = "idle"]
    /\ UNCHANGED <<cache, op, blk, want, out, result, accepted>>

Step(w) ==
    \/ Call(w)
    \/ Lookup(w)
    \/ Compute(w)
    \/ Gossip(w)
    \/ MergeGate(w)
    \/ RecordInner(w)
    \/ Record(w)

Next == \E w \in Workers : Step(w)

Spec == Init /\ [][Next]_vars

-----------------------------------------------------------------------------
(* Properties.                                                             *)

(* An operation that returns a state returns the kind of state it promises *)
(* (spec 4.7, "a separate flag ensures the gossip result does not satisfy  *)
(* the stronger contract"): perform_state_transition and validate_block a  *)
(* post-transition state, the report variants a post-block state, even    *)
(* when the state comes from the cache and was computed by another caller. *)
ResultKind ==
    \A w \in Workers :
        pc[w] = "record" /\ result[w] = "state" =>
            out[w].kind = IF op[w] \in {"perform", "validate"} THEN "full" ELSE "block"

(* A state returned to a caller was verified at least as far as that       *)
(* caller asked: the untrusted variants without skip_randao_verification, *)
(* and validate_block with a real verifier, never get a state that was     *)
(* computed without those checks.                                          *)
VerificationHonoured ==
    \A w \in Workers :
        pc[w] = "record" /\ result[w] = "state" => out[w].level >= want[w]

(* validate_block returns a post-state for a pre-Capella merge-transition  *)
(* block only if validate_merge_block accepted it in that same call: the   *)
(* check runs before the transition and before the cache is consulted.     *)
MergeGateHolds ==
    \A w \in Workers :
        /\ op[w] = "validate"
        /\ pc[w] \in {"record_inner", "record"}
        /\ result[w] = "state"
        /\ blk[w] \in PreCapella \cap MergeBlocks
        => accepted[w]
=============================================================================
