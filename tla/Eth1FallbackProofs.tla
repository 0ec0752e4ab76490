------------------------- MODULE Eth1FallbackProofs -------------------------
(***************************************************************************)
(* Proofs about the endpoint failover of Eth1Api, for every number of      *)
(* tasks and every list of endpoints.                                      *)
(***************************************************************************)
EXTENDS Eth1Fallback, TLAPS

-----------------------------------------------------------------------------
(* Lemmas on the constants.                                                *)

LEMMA NType == N \in Nat
  <1>1. Original \in Seq(Urls)
    BY OriginalAssumption
  <1>2. QED
    BY <1>1 DEF N

-----------------------------------------------------------------------------
(* The inductive invariant.                                                *)
(*                                                                         *)
(* TypeOK is not inductive by itself: a task that calls, peeks or advances *)
(* holds a position read from the cursor, never 0.  NoRetryWithinEpoch    *)
(* needs more: as long as the cursor has not been reset since a task       *)
(* began, everything the task called lies at or behind the shared cursor   *)
(* (or at the one position it holds and has not yet advanced past),        *)
(* because the cursor only grows between resets and the task advances it  *)
(* after each failure.                                                     *)

UrlRead ==
    \A r \in Requests :
        pc[r] \in {"call", "peek", "advance"} => url[r] \in Positions

EpochOrder(r) ==
    ~resetSince[r] =>
        /\ pc[r] \in {"current", "reset"} => \A p \in tried[r] : p <= cursor
        /\ pc[r] = "call" =>
               /\ url[r] <= cursor + 1
               /\ \A p \in tried[r] : p < url[r]
        /\ pc[r] \in {"peek", "advance"} =>
               /\ url[r] <= cursor + 1
               /\ \A p \in tried[r] : p <= url[r]

IInv == TypeOK /\ UrlRead /\ \A r \in Requests : EpochOrder(r)

-----------------------------------------------------------------------------
(* Init establishes IInv.                                                  *)

LEMMA InitIInv == Init => IInv
  <1> SUFFICES ASSUME Init PROVE IInv
    OBVIOUS
  <1>1. TypeOK
    BY NType DEF Init, TypeOK, Disconnected, ConnectionData, PC, Results
  <1>2. UrlRead
    BY DEF Init, UrlRead
  <1>3. \A r \in Requests : EpochOrder(r)
    BY DEF Init, EpochOrder
  <1>4. QED
    BY <1>1, <1>2, <1>3 DEF IInv

-----------------------------------------------------------------------------
(* Each action preserves IInv.  An action of task r can disturb the        *)
(* ordering facts of r itself, through pc, url and tried, and of the other *)
(* tasks only through the cursor: NextEndpoint moves it forward, which     *)
(* keeps every "p <= cursor" true, and ResetEndpoints marks every task as  *)
(* reset, which makes EpochOrder vacuous.                                  *)

LEMMA StepIInv ==
  ASSUME IInv, NEW r \in Requests, Step(r)
  PROVE  IInv'
  <1> USE NType DEF IInv, TypeOK, UrlRead, EpochOrder, Positions
  <1>1. CASE Start(r)
    BY <1>1 DEF Start, PC, Results
  <1>2. CASE CurrentEndpoint(r)
    BY <1>2 DEF CurrentEndpoint, PC
  <1>3. CASE AuthFails(r)
    BY <1>3 DEF AuthFails, PC, Results
  <1>4. CASE CallSucceeds(r)
    <2>1. conn' \in ConnectionData
      BY <1>4 DEF CallSucceeds, ConnectionData
    <2>2. QED
      BY <1>4, <2>1 DEF CallSucceeds, PC, Results
  <1>5. CASE CallFails(r)
    BY <1>5 DEF CallFails, PC
  <1>6. CASE PeekNextEndpoint(r)
    BY <1>6 DEF PeekNextEndpoint, PC, Disconnected, ConnectionData
  <1>7. CASE NextEndpoint(r)
    BY <1>7 DEF NextEndpoint, PC
  <1>8. CASE ResetEndpoints(r)
    BY <1>8 DEF ResetEndpoints, PC, Results
  <1>9. QED
    BY <1>1, <1>2, <1>3, <1>4, <1>5, <1>6, <1>7, <1>8 DEF Step

LEMMA NextIInv == IInv /\ [Next]_vars => IInv'
  <1> SUFFICES ASSUME IInv, [Next]_vars PROVE IInv'
    OBVIOUS
  <1>1. CASE Next
    BY <1>1, StepIInv DEF Next
  <1>2. CASE UNCHANGED vars
    BY <1>2 DEF vars, IInv, TypeOK, UrlRead, EpochOrder
  <1>3. QED
    BY <1>1, <1>2

THEOREM IInvariant == Spec => []IInv
  BY InitIInv, NextIInv, PTL DEF Spec

-----------------------------------------------------------------------------
(* Every reachable state is well typed.                                    *)
THEOREM TypeCorrect == Spec => []TypeOK
  BY IInvariant, PTL DEF IInv

(* Between two resets of the shared cursor, request_with_fallback never    *)
(* calls the same endpoint twice, whatever the other tasks do to the       *)
(* cursor between a task's current_endpoint and its next_endpoint.         *)
THEOREM NoRetry == Spec => []NoRetryWithinEpoch
  <1>1. IInv => NoRetryWithinEpoch
    BY NType DEF IInv, TypeOK, Positions, EpochOrder, NoRetryWithinEpoch
  <1>2. QED
    BY <1>1, IInvariant, PTL

=============================================================================
