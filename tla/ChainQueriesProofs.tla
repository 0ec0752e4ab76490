------------------------- MODULE ChainQueriesProofs -------------------------
(***************************************************************************)
(* Proofs about get_blocks composed with the endpoint failover, for every  *)
(* block range, every list of endpoints and their views of the chain, and  *)
(* every set of other callers.                                             *)
(***************************************************************************)
EXTENDS ChainQueries, TLAPS

(* The failover's own inductive invariant, and the lemma that every step   *)
(* of a task preserves it, are those of Eth1FallbackProofs.                *)
FP == INSTANCE Eth1FallbackProofs

-----------------------------------------------------------------------------
(* The blocks of view v below height k, each with its own deposits: what   *)
(* the `for` loop has pushed once it reaches block_number k, when every    *)
(* answer came from a node with view v.                                    *)
OwnEvents(v, n) ==
    IF DepositCount[<<v[n], n>>] > 0
      THEN [from |-> v[n], count |-> DepositCount[<<v[n], n>>]]
      ELSE NoEvents

BlockOf(v, n) == [height |-> n, fork |-> v[n], deposits |-> OwnEvents(v, n)]

ChainBelow(v, k) == {BlockOf(v, n) : n \in {m \in Heights : m < k /\ v[m] # NoBlock}}

(* The endpoints that answered this get_blocks all see one chain.          *)
Agree == answered # {} /\ \A p, q \in answered : View[p] = View[q]

(* CompleteUnderAgreement speaks only of a finished get_blocks.  To carry  *)
(* it through the loop, the invariant says where the reader's failover is  *)
(* in each phase of get_blocks, and that, while the answers agree, the     *)
(* deposit map still holds the agreed logs for every height the loop has   *)
(* not reached, and the blocks pushed are the agreed chain below `next`.   *)
ChainInv ==
    /\ next \in Nat
    /\ Lo <= next
    /\ depositData \in [Heights -> Events]
    /\ answered \subseteq F!Positions
    /\ qpc \in {"idle", "done"} => pc[Reader] = "idle"
    /\ qpc = "logs" => next = Lo /\ blocks = {} /\ answered = {}
    /\ qpc = "blocks" => answered # {}
    /\ qpc = "blocks" /\ pc[Reader] # "idle" => next \in Heights
    /\ qpc = "blocks" /\ Agree =>
           \A p \in answered :
               /\ \A n \in Heights : n >= next => depositData[n] = DepositEventsAt(p)[n]
               /\ blocks = ChainBelow(View[p], next)
    /\ qpc = "done" /\ qresult = "ok" /\ Agree =>
           \A p \in answered : blocks = ChainOf(View[p])

IInv == FP!IInv /\ ChainInv

-----------------------------------------------------------------------------
(* Lemmas on the constants and on the chain operators.                     *)

(* The assumptions of the failover module hold of the constants here.     *)
LEMMA FailoverAssumptions == FP!OriginalAssumption /\ FP!UpAssumption
  BY EndpointsAssumption DEF FP!Positions, FP!N

LEMMA HeightsNat == Heights \subseteq Nat
  BY RangeAssumption DEF Heights

(* The logs of endpoint p hold, for a height where p has a block, the      *)
(* events of that very block.                                              *)
LEMMA EventsOwn ==
  ASSUME NEW p \in F!Positions, NEW n \in Heights, View[p][n] # NoBlock
  PROVE  DepositEventsAt(p)[n] = OwnEvents(View[p], n)
  BY DEF DepositEventsAt, OwnEvents

LEMMA EventsType ==
  ASSUME NEW p \in F!Positions
  PROVE  DepositEventsAt(p) \in [Heights -> Events]
  <1>1. \A n \in Heights : View[p][n] \in Forks \cup {NoBlock}
    BY ViewAssumption DEF F!Positions, F!N
  <1>2. \A n \in Heights : View[p][n] # NoBlock => DepositCount[<<View[p][n], n>>] \in Nat
    BY <1>1, ViewAssumption
  <1>3. QED
    BY <1>1, <1>2 DEF DepositEventsAt, Events, NoEvents

(* Nothing lies below the first height of the range.                       *)
LEMMA ChainBelowLo ==
  ASSUME NEW v
  PROVE  ChainBelow(v, Lo) = {}
  <1>1. {m \in Heights : m < Lo /\ v[m] # NoBlock} = {}
    BY RangeAssumption DEF Heights
  <1>2. QED
    BY <1>1 DEF ChainBelow

(* A height where v has no block adds nothing; one where it has a block    *)
(* adds exactly that block with its own events.                            *)
LEMMA ChainBelowSkip ==
  ASSUME NEW v, NEW k \in Heights, v[k] = NoBlock
  PROVE  ChainBelow(v, k + 1) = ChainBelow(v, k)
  <1>1. {m \in Heights : m < k + 1 /\ v[m] # NoBlock}
          = {m \in Heights : m < k /\ v[m] # NoBlock}
    BY RangeAssumption DEF Heights
  <1>2. QED
    BY <1>1 DEF ChainBelow

LEMMA ChainBelowPush ==
  ASSUME NEW v, NEW k \in Heights, v[k] # NoBlock
  PROVE  ChainBelow(v, k + 1) = ChainBelow(v, k) \cup {BlockOf(v, k)}
  <1>1. {m \in Heights : m < k + 1 /\ v[m] # NoBlock}
          = {m \in Heights : m < k /\ v[m] # NoBlock} \cup {k}
    BY RangeAssumption DEF Heights
  <1>2. QED
    BY <1>1 DEF ChainBelow

(* Past the last height, the blocks below are the whole chain of the range. *)
LEMMA ChainBelowAll ==
  ASSUME NEW v, NEW k \in Nat, ~(k <= Hi)
  PROVE  ChainBelow(v, k) = ChainOf(v)
  <1>1. {m \in Heights : m < k /\ v[m] # NoBlock} = {m \in Heights : v[m] # NoBlock}
    BY HeightsNat, RangeAssumption DEF Heights
  <1>2. QED
    BY <1>1 DEF ChainBelow, ChainOf, BlockOf, OwnEvents

-----------------------------------------------------------------------------
(* The failover part.  Every step of get_blocks is a step of the reader's  *)
(* request_with_fallback or leaves the failover alone, and every other     *)
(* caller takes a failover step, so the failover invariant carries over.   *)

(* A step of the failover, as ChainQueries takes it through F, is a step  *)
(* of the failover as Eth1FallbackProofs states it.                        *)
LEMMA SameStep ==
  ASSUME NEW r \in Requests, F!Step(r)
  PROVE  FP!Step(r)
  <1>1. CASE F!Start(r)
    BY <1>1 DEF F!Start, FP!Start, FP!Step
  <1>2. CASE F!CurrentEndpoint(r)
    BY <1>2 DEF F!CurrentEndpoint, FP!CurrentEndpoint, FP!Step, F!N, FP!N
  <1>3. CASE F!AuthFails(r)
    BY <1>3 DEF F!AuthFails, FP!AuthFails, FP!Step
  <1>4. CASE F!CallSucceeds(r)
    BY <1>4 DEF F!CallSucceeds, FP!CallSucceeds, FP!Step
  <1>5. CASE F!CallFails(r)
    BY <1>5 DEF F!CallFails, FP!CallFails, FP!Step
  <1>6. CASE F!PeekNextEndpoint(r)
    BY <1>6 DEF F!PeekNextEndpoint, FP!PeekNextEndpoint, FP!Step, F!Disconnected,
                FP!Disconnected
  <1>7. CASE F!NextEndpoint(r)
    BY <1>7 DEF F!NextEndpoint, FP!NextEndpoint, FP!Step, F!N, FP!N
  <1>8. CASE F!ResetEndpoints(r)
    BY <1>8 DEF F!ResetEndpoints, FP!ResetEndpoints, FP!Step, F!N, FP!N
  <1>9. QED
    BY <1>1, <1>2, <1>3, <1>4, <1>5, <1>6, <1>7, <1>8 DEF F!Step

LEMMA FailoverStep == [Next]_vars => [FP!Next]_(FP!vars)
  <1> SUFFICES ASSUME [Next]_vars PROVE [FP!Next]_(FP!vars)
    OBVIOUS
  <1> USE ReaderAssumption
  <1>1. ASSUME NEW r \in Requests, F!Step(r)
        PROVE  FP!Next
    BY <1>1, SameStep DEF FP!Next
  <1>2. CASE GetBlocks \/ GetBlockByNumber \/ ReaderSucceeds \/ ReaderGivesUp \/ ReaderLoop
    <2>1. F!Step(Reader)
      BY <1>2 DEF GetBlocks, GetBlockByNumber, ReaderSucceeds, ReaderGivesUp, ReaderLoop,
                  F!Step
    <2>2. QED
      BY <2>1, <1>1
  <1>3. CASE GetBlocksReturns
    BY <1>3 DEF GetBlocksReturns, fvars, FP!vars
  <1>4. ASSUME NEW r \in Requests, OtherCaller(r)
        PROVE  [FP!Next]_(FP!vars)
    BY <1>4, <1>1 DEF OtherCaller
  <1>5. CASE UNCHANGED vars
    BY <1>5 DEF vars, fvars, FP!vars
  <1>6. QED
    BY <1>2, <1>3, <1>4, <1>5 DEF Next

LEMMA FailoverInv == FP!IInv /\ [Next]_vars => FP!IInv'
  <1> SUFFICES ASSUME FP!IInv, [Next]_vars PROVE FP!IInv'
    OBVIOUS
  <1>1. [FP!Next]_(FP!vars)
    BY FailoverStep
  <1>2. CASE FP!Next
    <2>1. PICK r \in Requests : FP!Step(r)
      BY <1>2 DEF FP!Next
    <2>2. QED
      BY <2>1, FP!StepIInv, FailoverAssumptions
  <1>3. CASE UNCHANGED FP!vars
    BY <1>3, FP!NextIInv, FailoverAssumptions
  <1>4. QED
    BY <1>1, <1>2, <1>3

LEMMA InitIInv == Init => IInv
  <1> SUFFICES ASSUME Init PROVE IInv
    OBVIOUS
  <1>1. FP!IInv
    BY FP!InitIInv, FailoverAssumptions DEF Init, F!Init, FP!Init, F!Disconnected, FP!Disconnected
  <1>2. ChainInv
    BY RangeAssumption, ReaderAssumption DEF Init, F!Init, ChainInv, Heights, Events, NoEvents
  <1>3. QED
    BY <1>1, <1>2 DEF IInv

-----------------------------------------------------------------------------
(* The get_blocks part.                                                    *)

(* A reader that is calling holds a real endpoint position.                *)
LEMMA ReaderUrl ==
  ASSUME FP!IInv, pc[Reader] = "call"
  PROVE  url[Reader] \in F!Positions
  BY ReaderAssumption DEF FP!IInv, FP!UrlRead, FP!Positions, F!Positions, FP!N, F!N

(* Another caller's failover step leaves the reader's pc alone.            *)
LEMMA OtherKeepsReader ==
  ASSUME FP!IInv, NEW r \in Requests, r # Reader, F!Step(r)
  PROVE  pc'[Reader] = pc[Reader]
  BY ReaderAssumption
     DEF FP!IInv, FP!TypeOK, F!Step, F!Start, F!CurrentEndpoint, F!AuthFails,
         F!CallSucceeds, F!CallFails, F!PeekNextEndpoint, F!NextEndpoint,
         F!ResetEndpoints

(* The logs of two endpoints with one view are the same.                   *)
LEMMA EventsView ==
  ASSUME NEW p, NEW q, View[p] = View[q]
  PROVE  DepositEventsAt(p) = DepositEventsAt(q)
  BY DEF DepositEventsAt

(* The agreement of the answers after a step implies the agreement before, *)
(* and every answered endpoint then shares the view of any earlier one.   *)
LEMMA AgreeGrows ==
  ASSUME NEW u, answered' = answered \cup {u}, answered # {}, Agree'
  PROVE  /\ Agree
         /\ \A q \in answered, p \in answered' : View[p] = View[q]
  BY DEF Agree

(* A call of get_blocks is answered.  The logs give the map of the         *)
(* answering node; a block answer pushes that node's block with the events *)
(* the map holds for its height, which are the block's own as long as the  *)
(* answers agree, or skips a height the node has no block at.              *)
(* The invariant after a block answer: the loop goes on, the reader is    *)
(* idle again, and the pushed blocks and the map are the agreed ones.      *)
LEMMA BlocksIdleInv ==
  ASSUME next' \in Nat, Lo <= next', depositData' \in [Heights -> Events],
         answered' \subseteq F!Positions, answered' # {},
         qpc' = "blocks", pc'[Reader] = "idle",
         Agree' => \A p \in answered' :
                      /\ \A n \in Heights : n >= next' => depositData'[n] = DepositEventsAt(p)[n]
                      /\ blocks' = ChainBelow(View[p], next')
  PROVE  ChainInv'
  BY DEF ChainInv

LEMMA SucceedsChainInv ==
  ASSUME IInv, ReaderSucceeds
  PROVE  ChainInv'
  <1> DEFINE u == url[Reader]
             b == View[u][next]
             ev == depositData[next]
  <1>1. /\ pc[Reader] = "call"
        /\ pc'[Reader] = "idle"
        /\ u \in F!Positions
        /\ answered' = answered \cup {u}
    BY ReaderUrl, ReaderAssumption DEF IInv, ReaderSucceeds, F!CallSucceeds, FP!IInv, FP!TypeOK
  <1>0. ChainInv
    BY DEF IInv
  <1>2. qpc \in {"logs", "blocks"}
    BY <1>0, <1>1 DEF ChainInv, ReaderSucceeds
  <1>3. CASE qpc = "logs"
    <2>1. /\ depositData' = DepositEventsAt(u)
          /\ qpc' = "blocks"
          /\ next' = Lo /\ blocks' = {} /\ answered' = {u}
      BY <1>1, <1>3 DEF IInv, ChainInv, ReaderSucceeds
    <2>2. blocks' = ChainBelow(View[u], next')
      BY <2>1, ChainBelowLo
    <2>3. QED
      BY <1>1, <2>1, <2>2, EventsType, RangeAssumption DEF IInv, ChainInv, Agree
  <1>4. CASE qpc = "blocks"
    <2>1. next \in Heights /\ answered # {} /\ next \in Nat /\ ev.count \in Nat
      BY <1>0, <1>1, <1>4 DEF ChainInv, Events, NoEvents
    <2>2. CASE b = NoBlock
      <3>1. /\ next' = next + 1
            /\ UNCHANGED <<qpc, depositData, blocks, qresult>>
        BY <1>4, <2>2 DEF ReaderSucceeds
      <3>2. ASSUME Agree'
            PROVE  \A p \in answered' :
                      /\ \A n \in Heights : n >= next' => depositData'[n] = DepositEventsAt(p)[n]
                      /\ blocks' = ChainBelow(View[p], next')
        <4>1. PICK q \in answered : TRUE
          BY <2>1
        <4>2. /\ \A n \in Heights : n >= next => depositData[n] = DepositEventsAt(q)[n]
              /\ blocks = ChainBelow(View[q], next)
          BY <1>1, <1>4, <3>2, AgreeGrows DEF IInv, ChainInv
        <4>3. View[q][next] = NoBlock
          BY <1>1, <2>2, <3>2, AgreeGrows
        <4>4. blocks' = ChainBelow(View[q], next')
          BY <2>1, <3>1, <4>2, <4>3, ChainBelowSkip
        <4>5. \A n \in Heights : n >= next' => depositData'[n] = DepositEventsAt(q)[n]
          BY <2>1, <3>1, <4>2, HeightsNat
        <4>6. QED
          BY <1>1, <3>2, <4>4, <4>5, AgreeGrows, EventsView
      <3>3. QED
        BY <1>0, <1>1, <1>4, <2>1, <3>1, <3>2, BlocksIdleInv, RangeAssumption DEF ChainInv
    <2>3. CASE b # NoBlock /\ ev.count > MaxDepositEvents
      <3>1. qpc' = "done" /\ qresult' = "error" /\ UNCHANGED next
        BY <1>4, <2>1, <2>3, ViewAssumption DEF ReaderSucceeds
      <3>2. depositData' \in [Heights -> Events]
        BY <1>0, <1>4, <2>1, <2>3 DEF ReaderSucceeds, ChainInv, Events, NoEvents
      <3>3. QED
        BY <1>0, <1>1, <3>1, <3>2 DEF ChainInv
    <2>4. CASE b # NoBlock /\ ~(ev.count > MaxDepositEvents)
      <3>1. /\ blocks' = blocks \cup {[height |-> next, fork |-> b, deposits |-> ev]}
            /\ depositData' = [depositData EXCEPT ![next] = NoEvents]
            /\ next' = next + 1
            /\ UNCHANGED <<qpc, qresult>>
        BY <1>4, <2>4 DEF ReaderSucceeds
      <3>2. depositData' \in [Heights -> Events]
        BY <1>0, <2>1, <3>1 DEF ChainInv, Events, NoEvents
      <3>3. ASSUME Agree'
            PROVE  \A p \in answered' :
                      /\ \A n \in Heights : n >= next' => depositData'[n] = DepositEventsAt(p)[n]
                      /\ blocks' = ChainBelow(View[p], next')
        <4>1. PICK q \in answered : TRUE
          BY <2>1
        <4>2. /\ \A n \in Heights : n >= next => depositData[n] = DepositEventsAt(q)[n]
              /\ blocks = ChainBelow(View[q], next)
          BY <1>1, <1>4, <3>3, AgreeGrows DEF IInv, ChainInv
        <4>3. q \in F!Positions /\ View[q] = View[u]
          BY <1>1, <3>3, AgreeGrows DEF IInv, ChainInv
        <4>4. ev = OwnEvents(View[q], next)
          BY <2>1, <2>4, <4>2, <4>3, EventsOwn
        <4>5. [height |-> next, fork |-> b, deposits |-> ev] = BlockOf(View[q], next)
          BY <4>3, <4>4 DEF BlockOf
        <4>6. blocks' = ChainBelow(View[q], next')
          BY <2>1, <2>4, <3>1, <4>2, <4>3, <4>5, ChainBelowPush
        <4>7. \A n \in Heights : n >= next' => depositData'[n] = DepositEventsAt(q)[n]
          BY <2>1, <3>1, <3>2, <4>2, HeightsNat DEF IInv, ChainInv
        <4>8. QED
          BY <1>1, <3>3, <4>6, <4>7, AgreeGrows, EventsView
      <3>4. QED
        BY <1>0, <1>1, <1>4, <2>1, <3>1, <3>2, <3>3, BlocksIdleInv, RangeAssumption DEF ChainInv
    <2>5. QED
      BY <2>2, <2>3, <2>4
  <1>5. QED
    BY <1>2, <1>3, <1>4

(* Every other step of the system keeps ChainInv.                          *)
LEMMA NextChainInv ==
  ASSUME IInv, [Next]_vars
  PROVE  ChainInv'
  <1> USE ReaderAssumption
  <1>0. ChainInv /\ FP!TypeOK
    BY DEF IInv, FP!IInv
  <1>1. CASE GetBlocks
    <2>1. pc'[Reader] = "current" /\ qpc' = "logs" /\ next' = Lo /\ blocks' = {}
          /\ answered' = {} /\ UNCHANGED depositData
      BY <1>0, <1>1 DEF GetBlocks, F!Start, FP!TypeOK
    <2>2. QED
      BY <1>0, <2>1, RangeAssumption DEF ChainInv
  <1>2. CASE GetBlockByNumber
    <2>1. pc'[Reader] = "current" /\ qpc = "blocks" /\ next <= Hi /\ UNCHANGED qvars
      BY <1>0, <1>2 DEF GetBlockByNumber, F!Start, InRange, FP!TypeOK
    <2>2. next \in Heights
      BY <1>0, <2>1, RangeAssumption DEF ChainInv, Heights
    <2>3. QED
      BY <1>0, <2>1, <2>2 DEF ChainInv, qvars, Agree
  <1>3. CASE GetBlocksReturns
    <2>1. /\ pc[Reader] = "idle" /\ qpc = "blocks" /\ ~(next <= Hi)
          /\ qpc' = "done" /\ qresult' = "ok"
          /\ UNCHANGED <<fvars, next, depositData, blocks, answered>>
      BY <1>3 DEF GetBlocksReturns, InRange
    <2>2. Agree => \A p \in answered : blocks = ChainOf(View[p])
      BY <1>0, <2>1, ChainBelowAll DEF ChainInv
    <2>3. QED
      BY <1>0, <2>1, <2>2 DEF ChainInv, Agree, fvars
  <1>4. CASE ReaderSucceeds
    BY <1>4, SucceedsChainInv
  <1>5. CASE ReaderGivesUp
    <2>1. pc'[Reader] = "idle" /\ qpc' = "done" /\ qresult' = "error"
          /\ UNCHANGED <<next, depositData, answered>>
      BY <1>0, <1>5 DEF ReaderGivesUp, F!ResetEndpoints, F!AuthFails, FP!TypeOK
    <2>2. QED
      BY <1>0, <2>1 DEF ChainInv
  <1>6. CASE ReaderLoop
    <2>1. pc[Reader] # "idle" /\ pc'[Reader] # "idle" /\ UNCHANGED qvars
      BY <1>0, <1>6 DEF ReaderLoop, F!CurrentEndpoint, F!CallFails, F!PeekNextEndpoint,
                        F!NextEndpoint, FP!TypeOK
    <2>2. QED
      BY <1>0, <2>1 DEF ChainInv, qvars, Agree
  <1>7. ASSUME NEW r \in Requests, OtherCaller(r)
        PROVE  ChainInv'
    <2>1. pc'[Reader] = pc[Reader] /\ UNCHANGED qvars
      BY <1>7, OtherKeepsReader DEF OtherCaller, IInv
    <2>2. QED
      BY <1>0, <2>1 DEF ChainInv, qvars, Agree
  <1>8. CASE UNCHANGED vars
    BY <1>0, <1>8 DEF ChainInv, vars, fvars, qvars, Agree
  <1>9. QED
    BY <1>1, <1>2, <1>3, <1>4, <1>5, <1>6, <1>7, <1>8 DEF Next

LEMMA NextIInv == IInv /\ [Next]_vars => IInv'
  BY FailoverInv, NextChainInv DEF IInv

THEOREM IInvariant == Spec => []IInv
  BY InitIInv, NextIInv, PTL DEF Spec

-----------------------------------------------------------------------------
(* get_blocks is complete and exact when the nodes agree, for every range  *)
(* and every list of endpoints: if every call of one get_blocks (the logs  *)
(* and each block) was answered by nodes that see the same chain, however  *)
(* the calls failed over and whatever the other callers did to the shared  *)
(* cursor, its Ok holds every block of that chain in the range, each with  *)
(* exactly the deposit events of its own log.                              *)
THEOREM CompleteSafe == Spec => []CompleteUnderAgreement
  <1>1. IInv => CompleteUnderAgreement
    <2> SUFFICES ASSUME IInv, qpc = "done", qresult = "ok", answered # {},
                        \A p, q \in answered : View[p] = View[q]
                 PROVE  blocks = ChainOf(View[CHOOSE e \in answered : TRUE])
      BY DEF CompleteUnderAgreement
    <2>1. \A p \in answered : blocks = ChainOf(View[p])
      BY DEF IInv, ChainInv, Agree
    <2>2. QED
      BY <2>1
  <1>2. QED
    BY <1>1, IInvariant, PTL

-----------------------------------------------------------------------------
(* get_blocks and the other callers reach the shared cursor only through   *)
(* request_with_fallback: every step of ChainQueries is a step of          *)
(* Eth1Fallback or leaves the failover state alone.                        *)
LEMMA OwnFailoverStep == [Next]_vars => [F!Next]_(F!vars)
  <1> SUFFICES ASSUME [Next]_vars PROVE [F!Next]_(F!vars)
    OBVIOUS
  <1> USE ReaderAssumption
  <1>1. CASE GetBlocks \/ GetBlockByNumber \/ ReaderSucceeds \/ ReaderGivesUp \/ ReaderLoop
    <2>1. F!Step(Reader)
      BY <1>1 DEF GetBlocks, GetBlockByNumber, ReaderSucceeds, ReaderGivesUp, ReaderLoop,
                  F!Step
    <2>2. QED
      BY <2>1 DEF F!Next
  <1>2. CASE GetBlocksReturns
    BY <1>2 DEF GetBlocksReturns, fvars, F!vars
  <1>3. ASSUME NEW r \in Requests, OtherCaller(r)
        PROVE  [F!Next]_(F!vars)
    BY <1>3 DEF OtherCaller, F!Next
  <1>4. CASE UNCHANGED vars
    BY <1>4 DEF vars, fvars, F!vars
  <1>5. QED
    BY <1>1, <1>2, <1>3, <1>4 DEF Next

(* For every range and every list of endpoints, the failover that          *)
(* get_blocks and the other callers drive together behaves as the failover *)
(* of Eth1Fallback alone: ChainQueries implements Eth1Fallback's safety    *)
(* specification, with the identity as refinement mapping.                 *)
THEOREM FailoverRefinement == Spec => F!Init /\ [][F!Next]_(F!vars)
  <1>1. Init => F!Init
    BY DEF Init
  <1>2. QED
    BY <1>1, OwnFailoverStep, PTL DEF Spec
=============================================================================
