----------------------------- MODULE EngineApi -----------------------------
(***************************************************************************)
(* The Engine API methods of Eth1Api (src/eth1_api/src/eth1_api.rs)        *)
(* composed with the endpoint failover of Eth1Fallback.                    *)
(*                                                                         *)
(* One task, Proposer, drives a proposal: forkchoice_updated with payload  *)
(* attributes, get_payload with the payload id it returned, new_payload    *)
(* with the payload; then the next slot.  The other tasks are the other    *)
(* callers of Eth1Api (deposit and block queries) that share the cursor.   *)
(* Every call goes through request_with_fallback, whose steps are those of *)
(* Eth1Fallback.  An execution node knows only the payload ids it issued,  *)
(* so get_payload succeeds only at the endpoint that built the payload.    *)
(***************************************************************************)
EXTENDS Naturals, Sequences, FiniteSets

CONSTANTS Requests, Urls, Original, Up, Proposer

ASSUME EndpointsAssumption == Original \in Seq(Urls) /\ Up \subseteq 1 .. Len(Original)
ASSUME ProposerAssumption == Proposer \in Requests

VARIABLES cursor, pc, url, result, conn, tried, resetSince
VARIABLES
    stage,      \* the proposer's next Engine API call
    phase,      \* the phase of the payload attributes of this slot
    payloadId,  \* the PayloadId returned by forkchoice_updated, or NoId
    versions    \* ghost: the method version of each call made this slot

F == INSTANCE Eth1Fallback

fvars == <<cursor, pc, url, result, conn, tried, resetSince>>
evars == <<stage, phase, payloadId, versions>>
vars == <<fvars, evars>>

Phases == {"phase0", "altair", "bellatrix", "capella", "deneb"}
PostBellatrix == {"bellatrix", "capella", "deneb"}
NoId == [tag |-> "none", at |-> 0]
Stages == {"fcu", "get", "new"}

-----------------------------------------------------------------------------
(* Method dispatch.  A version is the suffix of the method name: 1 for     *)
(* engine_forkchoiceUpdatedV1, and so on; 0 stands for the error arms.     *)

\* forkchoice_updated: `match phase`; other phases bail PhasePreBellatrix.
ForkchoiceUpdatedVersion(p) ==
    CASE p = "bellatrix" -> 1 [] p = "capella" -> 2 [] p = "deneb" -> 3
      [] OTHER -> 0

\* Mutant: the second `match phase` tags a Deneb id as Capella.
PayloadIdTagStale(p) == IF p = "deneb" THEN "capella" ELSE p

\* forkchoice_updated re-tags the returned H64 with the phase of the call.
PayloadIdTag(p) == p

\* get_payload: `match payload_id`.
GetPayloadVersion(tag) ==
    CASE tag = "bellatrix" -> 1 [] tag = "capella" -> 2 [] tag = "deneb" -> 3

\* new_payload: `match (payload, params)`; Deneb needs its params, the
\* others none; any other pair bails InvalidParameters.
NewPayloadVersion(p, hasParams) ==
    CASE p = "bellatrix" /\ ~hasParams -> 1
      [] p = "capella" /\ ~hasParams   -> 2
      [] p = "deneb" /\ hasParams      -> 3
      [] OTHER                         -> 0

TypeOK ==
    /\ F!TypeOK
    /\ stage \in Stages
    /\ phase \in Phases
    /\ payloadId \in [tag : PostBellatrix, at : F!Positions] \cup {NoId}
    /\ versions \in [Stages -> 0 .. 3]

Init ==
    /\ F!Init
    /\ stage = "fcu"
    /\ phase = "bellatrix"
    /\ payloadId = NoId
    /\ versions = [s \in Stages |-> 0]

-----------------------------------------------------------------------------
(* The proposer's calls.                                                   *)

(* A new slot: the proposer gives up the slot's payload and starts again.  *)
NextSlot ==
    [stage |-> "fcu", payloadId |-> NoId, versions |-> [s \in Stages |-> 0]]

(* forkchoice_updated for the phase of the attributes: a pre-Bellatrix     *)
(* phase fails PhasePreBellatrix before any request.                       *)
ForkchoiceUpdated ==
    /\ pc[Proposer] = "idle"
    /\ stage = "fcu"
    /\ \E p \in Phases :
         /\ phase' = p
         /\ IF p \in PostBellatrix
              THEN /\ F!Start(Proposer)
                   /\ versions' = [versions EXCEPT !["fcu"] = ForkchoiceUpdatedVersion(p)]
              ELSE /\ UNCHANGED <<fvars, versions>>
    /\ UNCHANGED <<stage, payloadId>>

(* get_payload with the id's tag.                                          *)
GetPayload ==
    /\ pc[Proposer] = "idle"
    /\ stage = "get"
    /\ F!Start(Proposer)
    /\ versions' = [versions EXCEPT !["get"] = GetPayloadVersion(payloadId.tag)]
    /\ UNCHANGED <<stage, phase, payloadId>>

(* new_payload with the payload of the id's phase; the caller passes the   *)
(* Deneb params or none, and a mismatch bails InvalidParameters.           *)
NewPayload ==
    /\ pc[Proposer] = "idle"
    /\ stage = "new"
    /\ \E hasParams \in BOOLEAN :
         LET v == NewPayloadVersion(payloadId.tag, hasParams) IN
         IF v # 0
           THEN /\ F!Start(Proposer)
                /\ versions' = [versions EXCEPT !["new"] = v]
                /\ UNCHANGED <<stage, phase, payloadId>>
           ELSE /\ UNCHANGED fvars
                /\ stage' = NextSlot.stage
                /\ payloadId' = NextSlot.payloadId
                /\ versions' = NextSlot.versions
                /\ UNCHANGED phase

(* The proposer's call is answered.  The node at the endpoint builds a     *)
(* payload for forkchoice_updated and returns its id, tagged with the      *)
(* phase; it answers get_payload only for an id it issued.                 *)
ProposerSucceeds ==
    /\ F!CallSucceeds(Proposer)
    /\ stage = "get" => url[Proposer] = payloadId.at
    /\ CASE stage = "fcu" ->
              /\ stage' = "get"
              /\ payloadId' = [tag |-> PayloadIdTag(phase), at |-> url[Proposer]]
              /\ UNCHANGED versions
         [] stage = "get" ->
              /\ stage' = "new"
              /\ UNCHANGED <<payloadId, versions>>
         [] stage = "new" ->
              /\ stage' = NextSlot.stage
              /\ payloadId' = NextSlot.payloadId
              /\ versions' = NextSlot.versions
    /\ UNCHANGED phase

(* The call failed everywhere, or auth failed: the slot is lost.           *)
ProposerGivesUp ==
    /\ F!ResetEndpoints(Proposer) \/ F!AuthFails(Proposer)
    /\ stage' = NextSlot.stage
    /\ payloadId' = NextSlot.payloadId
    /\ versions' = NextSlot.versions
    /\ UNCHANGED phase

(* The rest of the proposer's request_with_fallback loop.                  *)
ProposerLoop ==
    /\ \/ F!CurrentEndpoint(Proposer)
       \/ F!CallFails(Proposer)
       \/ F!PeekNextEndpoint(Proposer)
       \/ F!NextEndpoint(Proposer)
    /\ UNCHANGED evars

(* Any other caller of Eth1Api.                                            *)
OtherCaller(r) ==
    /\ r # Proposer
    /\ F!Step(r)
    /\ UNCHANGED evars

Next ==
    \/ ForkchoiceUpdated
    \/ GetPayload
    \/ NewPayload
    \/ ProposerSucceeds
    \/ ProposerGivesUp
    \/ ProposerLoop
    \/ \E r \in Requests : OtherCaller(r)

Spec == Init /\ [][Next]_vars

-----------------------------------------------------------------------------
(* Properties.                                                             *)

(* The versions of one proposal agree: get_payload redeems the id with the *)
(* version of the forkchoice_updated that returned it, and new_payload     *)
(* sends the payload with that version too (spec 4.3: the id is re-tagged *)
(* with the same phase used to call the method).                           *)
VersionsAgree ==
    /\ stage \in {"get", "new"} => versions["fcu"] = ForkchoiceUpdatedVersion(phase)
    /\ stage \in {"get", "new"} /\ pc[Proposer] # "idle" =>
           \A s \in {"get", "new"} : versions[s] \in {0, versions["fcu"]}

(* A payload id is redeemed where it was issued: every get_payload call    *)
(* the proposer sends goes to the endpoint whose node built the payload.   *)
GetPayloadAtBuilder ==
    stage = "get" /\ pc[Proposer] = "call" => url[Proposer] = payloadId.at
=============================================================================
