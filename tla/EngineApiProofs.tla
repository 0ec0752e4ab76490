--------------------------- MODULE EngineApiProofs ---------------------------
(***************************************************************************)
(* Proofs about the Engine API dispatch composed with endpoint failover,   *)
(* for every list of endpoints and every set of callers.                   *)
(***************************************************************************)
EXTENDS EngineApi, TLAPS

(* The failover's inductive invariant, and the lemma that every step of a  *)
(* task preserves it, are those of Eth1FallbackProofs.                     *)
FP == INSTANCE Eth1FallbackProofs

-----------------------------------------------------------------------------
(* The dispatch tables agree: the id tag of a phase selects the            *)
(* get_payload version of that phase's forkchoice_updated, and new_payload *)
(* either bails or uses the same version.                                  *)

LEMMA GetPayloadMatches ==
  ASSUME NEW p \in PostBellatrix
  PROVE  GetPayloadVersion(PayloadIdTag(p)) = ForkchoiceUpdatedVersion(p)
  BY DEF PostBellatrix, GetPayloadVersion, PayloadIdTag, ForkchoiceUpdatedVersion

LEMMA NewPayloadMatches ==
  ASSUME NEW p \in PostBellatrix, NEW h \in BOOLEAN
  PROVE  NewPayloadVersion(p, h) \in {0, ForkchoiceUpdatedVersion(p)}
  BY DEF PostBellatrix, NewPayloadVersion, ForkchoiceUpdatedVersion

-----------------------------------------------------------------------------
(* The inductive invariant.  VersionsAgree speaks of the versions only     *)
(* once forkchoice_updated has returned; to carry it through a slot, the   *)
(* invariant also says what holds while that call is in flight (its       *)
(* version is already fixed by the phase) and that a new slot starts with  *)
(* no get_payload or new_payload version.                                  *)

FcuV == ForkchoiceUpdatedVersion(phase)

VInv ==
    /\ pc \in [Requests -> F!PC]
    /\ versions \in [Stages -> 0 .. 3]
    /\ stage \in Stages
    /\ stage \in {"get", "new"} =>
           /\ phase \in PostBellatrix
           /\ payloadId.tag = PayloadIdTag(phase)
           /\ versions["fcu"] = FcuV
           /\ versions["get"] \in {0, FcuV}
           /\ versions["new"] \in {0, FcuV}
    /\ stage = "fcu" =>
           /\ versions["get"] = 0
           /\ versions["new"] = 0
           /\ pc[Proposer] # "idle" =>
                  phase \in PostBellatrix /\ versions["fcu"] = FcuV

LEMMA InitVInv == Init => VInv
  BY ProposerAssumption DEF Init, F!Init, VInv, F!PC, Stages

(* A step of the failover of another task leaves the proposer's pc alone. *)
LEMMA OtherKeepsProposer ==
  ASSUME VInv, NEW r \in Requests, r # Proposer, F!Step(r)
  PROVE  pc'[Proposer] = pc[Proposer] /\ pc' \in [Requests -> F!PC]
  BY ProposerAssumption
     DEF VInv, F!Step, F!Start, F!CurrentEndpoint, F!AuthFails, F!CallSucceeds,
         F!CallFails, F!PeekNextEndpoint, F!NextEndpoint, F!ResetEndpoints, F!PC

LEMMA NextVInv == VInv /\ [Next]_vars => VInv'
  <1> SUFFICES ASSUME VInv, [Next]_vars PROVE VInv'
    OBVIOUS
  <1> USE ProposerAssumption DEF VInv, FcuV, Stages, ForkchoiceUpdatedVersion
  <1>1. CASE ForkchoiceUpdated
    <2>1. PICK p \in Phases :
            /\ phase' = p
            /\ IF p \in PostBellatrix
                 THEN /\ F!Start(Proposer)
                      /\ versions' = [versions EXCEPT !["fcu"] = ForkchoiceUpdatedVersion(p)]
                 ELSE /\ UNCHANGED <<fvars, versions>>
      BY <1>1 DEF ForkchoiceUpdated
    <2>2. CASE p \in PostBellatrix
      BY <1>1, <2>1, <2>2 DEF ForkchoiceUpdated, F!Start, F!PC
    <2>3. CASE p \notin PostBellatrix
      BY <1>1, <2>1, <2>3 DEF ForkchoiceUpdated, fvars
    <2>4. QED
      BY <2>2, <2>3
  <1>2. CASE GetPayload
    <2>1. phase \in PostBellatrix /\ payloadId.tag = PayloadIdTag(phase)
      BY <1>2 DEF GetPayload
    <2>2. GetPayloadVersion(payloadId.tag) = FcuV
      BY <2>1, GetPayloadMatches
    <2>3. QED
      BY <1>2, <2>2 DEF GetPayload, F!Start, F!PC
  <1>3. CASE NewPayload
    <2>1. phase \in PostBellatrix /\ payloadId.tag = PayloadIdTag(phase)
      BY <1>3 DEF NewPayload
    <2>2. PICK h \in BOOLEAN :
            LET v == NewPayloadVersion(payloadId.tag, h) IN
            IF v # 0
              THEN /\ F!Start(Proposer)
                   /\ versions' = [versions EXCEPT !["new"] = v]
                   /\ UNCHANGED <<stage, phase, payloadId>>
              ELSE /\ UNCHANGED fvars
                   /\ stage' = NextSlot.stage
                   /\ payloadId' = NextSlot.payloadId
                   /\ versions' = NextSlot.versions
                   /\ UNCHANGED phase
      BY <1>3 DEF NewPayload
    <2>3. NewPayloadVersion(payloadId.tag, h) \in {0, FcuV}
      BY <2>1, NewPayloadMatches DEF PayloadIdTag
    <2>4. CASE NewPayloadVersion(payloadId.tag, h) # 0
      BY <1>3, <2>2, <2>3, <2>4 DEF NewPayload, F!Start, F!PC
    <2>5. CASE NewPayloadVersion(payloadId.tag, h) = 0
      BY <1>3, <2>2, <2>5 DEF NewPayload, NextSlot, fvars
    <2>6. QED
      BY <2>4, <2>5
  <1>4. CASE ProposerSucceeds
    <2>1. pc[Proposer] = "call" /\ pc'[Proposer] = "idle"
      BY <1>4 DEF ProposerSucceeds, F!CallSucceeds
    <2>2. pc' \in [Requests -> F!PC]
      BY <1>4 DEF ProposerSucceeds, F!CallSucceeds, F!PC
    <2>3. CASE stage = "fcu"
      BY <1>4, <2>1, <2>2, <2>3 DEF ProposerSucceeds
    <2>4. CASE stage = "get"
      BY <1>4, <2>1, <2>2, <2>4 DEF ProposerSucceeds
    <2>5. CASE stage = "new"
      BY <1>4, <2>1, <2>2, <2>5 DEF ProposerSucceeds, NextSlot
    <2>6. QED
      BY <2>3, <2>4, <2>5
  <1>5. CASE ProposerGivesUp
    <2>1. pc'[Proposer] = "idle" /\ pc' \in [Requests -> F!PC]
      BY <1>5 DEF ProposerGivesUp, F!ResetEndpoints, F!AuthFails, F!PC
    <2>2. QED
      BY <1>5, <2>1 DEF ProposerGivesUp, NextSlot
  <1>6. CASE ProposerLoop
    <2>1. pc[Proposer] # "idle" /\ pc'[Proposer] # "idle" /\ pc' \in [Requests -> F!PC]
      BY <1>6 DEF ProposerLoop, F!CurrentEndpoint, F!CallFails,
                  F!PeekNextEndpoint, F!NextEndpoint, F!PC
    <2>2. QED
      BY <1>6, <2>1 DEF ProposerLoop, evars
  <1>7. ASSUME NEW r \in Requests, OtherCaller(r)
        PROVE  VInv'
    <2>1. pc'[Proposer] = pc[Proposer] /\ pc' \in [Requests -> F!PC]
      BY <1>7, OtherKeepsProposer DEF OtherCaller
    <2>2. QED
      BY <1>7, <2>1 DEF OtherCaller, evars
  <1>8. CASE UNCHANGED vars
    BY <1>8 DEF vars, fvars, evars
  <1>9. QED
    BY <1>1, <1>2, <1>3, <1>4, <1>5, <1>6, <1>7, <1>8 DEF Next

THEOREM VInvariant == Spec => []VInv
  BY InitVInv, NextVInv, PTL DEF Spec

-----------------------------------------------------------------------------
(* The versions of one proposal agree, for every list of endpoints and     *)
(* however the proposer's calls fail over: get_payload redeems the id, and *)
(* new_payload sends the payload, with the version of the                  *)
(* forkchoice_updated that returned the id.                                *)
THEOREM VersionsAgreeSafe == Spec => []VersionsAgree
  <1>1. VInv => VersionsAgree
    BY DEF VInv, FcuV, VersionsAgree
  <1>2. QED
    BY <1>1, VInvariant, PTL

-----------------------------------------------------------------------------
(* The failover under the proposer.  The proposer's calls and the other   *)
(* callers reach the shared cursor only through request_with_fallback.     *)

(* The assumptions of the failover module hold of the constants here.     *)
LEMMA FailoverAssumptions == FP!OriginalAssumption /\ FP!UpAssumption
  BY EndpointsAssumption DEF FP!Positions, FP!N

(* A step of the failover taken through F is a step of the failover as    *)
(* Eth1FallbackProofs states it, and a step of F!Next.                     *)
LEMMA SameStep ==
  ASSUME NEW r \in Requests, F!Step(r)
  PROVE  FP!Step(r) /\ F!Next
  <1>1. F!Next
    BY DEF F!Next
  <1>2. FP!Step(r)
    BY DEF F!Step, FP!Step, F!Start, FP!Start, F!CurrentEndpoint, FP!CurrentEndpoint,
           F!AuthFails, FP!AuthFails, F!CallSucceeds, FP!CallSucceeds, F!CallFails,
           FP!CallFails, F!PeekNextEndpoint, FP!PeekNextEndpoint, F!NextEndpoint,
           FP!NextEndpoint, F!ResetEndpoints, FP!ResetEndpoints, F!N, FP!N,
           F!Disconnected, FP!Disconnected
  <1>3. QED
    BY <1>1, <1>2

(* Every step of EngineApi is a failover step of one task, or leaves the  *)
(* failover state alone.                                                   *)
LEMMA OwnFailoverStep ==
  [Next]_vars => \/ \E r \in Requests : F!Step(r)
                 \/ UNCHANGED F!vars
  <1> SUFFICES ASSUME [Next]_vars
               PROVE  \/ \E r \in Requests : F!Step(r)
                      \/ UNCHANGED F!vars
    OBVIOUS
  <1> USE ProposerAssumption DEF F!vars, fvars
  <1>1. CASE ForkchoiceUpdated
    BY <1>1 DEF ForkchoiceUpdated, F!Step
  <1>2. CASE GetPayload
    BY <1>2 DEF GetPayload, F!Step
  <1>3. CASE NewPayload
    BY <1>3 DEF NewPayload, F!Step
  <1>4. CASE ProposerSucceeds
    BY <1>4 DEF ProposerSucceeds, F!Step
  <1>5. CASE ProposerGivesUp
    BY <1>5 DEF ProposerGivesUp, F!Step
  <1>6. CASE ProposerLoop
    BY <1>6 DEF ProposerLoop, F!Step
  <1>7. CASE \E r \in Requests : OtherCaller(r)
    BY <1>7 DEF OtherCaller
  <1>8. CASE UNCHANGED vars
    BY <1>8 DEF vars
  <1>9. QED
    BY <1>1, <1>2, <1>3, <1>4, <1>5, <1>6, <1>7, <1>8 DEF Next

(* For every list of endpoints and every set of callers, the failover that *)
(* the proposer and the other callers drive together behaves as the        *)
(* failover of Eth1Fallback alone: EngineApi implements Eth1Fallback's     *)
(* safety specification, with the identity as refinement mapping.          *)
THEOREM FailoverRefinement == Spec => F!Init /\ [][F!Next]_(F!vars)
  <1>1. Init => F!Init
    BY DEF Init
  <1>2. [Next]_vars => [F!Next]_(F!vars)
    BY OwnFailoverStep, SameStep
  <1>3. QED
    BY <1>1, <1>2, PTL DEF Spec
=============================================================================
