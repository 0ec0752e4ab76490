---------------------------- MODULE Eth1Fallback ----------------------------
(***************************************************************************)
(* The endpoint failover of Eth1Api (src/eth1_api/src/eth1_api.rs).        *)
(*                                                                         *)
(* Eth1Api keeps the configured execution endpoints in `original` and a    *)
(* shared cursor `endpoints: Mutex<IntoIter<Url>>`.  Every public method   *)
(* goes through `request_with_fallback`, a loop that takes the lock once   *)
(* per cursor operation (current_endpoint, peek_next_endpoint,             *)
(* next_endpoint, reset_endpoints) and never holds it across the HTTP      *)
(* call.  Several tasks may run the loop at the same time; each is a       *)
(* member of Requests and runs the loop again and again, as the callers    *)
(* of Eth1Api do.                                                          *)
(*                                                                         *)
(* The IntoIter is modelled by `cursor`, the number of URLs it has already *)
(* yielded: its slice is SubSeq(Original, cursor + 1, Len(Original)).      *)
(* An endpoint is named by its position in Original; the URL itself        *)
(* (Original[p]) is only compared, for the fallback flag.                  *)
(***************************************************************************)
EXTENDS Naturals, Sequences, FiniteSets

CONSTANTS
    Requests,   \* the tasks that call request_with_fallback concurrently
    Urls,       \* endpoint URLs
    Original,   \* the configured endpoint URLs, in order of preference
    Up          \* positions of endpoints that always answer; others may fail

N == Len(Original)
Positions == 1 .. N

ASSUME OriginalAssumption == Original \in Seq(Urls)
ASSUME UpAssumption == Up \subseteq Positions

VARIABLES
    cursor,     \* URLs consumed from the shared IntoIter (0 .. N)
    pc,         \* where each task is in request_with_fallback
    url,        \* position of the URL the task read with current_endpoint
    result,     \* outcome of the task's last call
    conn,       \* last Eth1ConnectionData sent on eth1_api_to_metrics_tx
    tried,      \* ghost: positions the task has called in its current call
    resetSince  \* ghost: the cursor was reset since the task's call began

vars == <<cursor, pc, url, result, conn, tried, resetSince>>

PC == {"idle", "current", "call", "peek", "advance", "reset"}
Results == {"none", "ok", "auth_error", "exhausted", "no_endpoints"}
ConnectionData == [connected : BOOLEAN, fallback : BOOLEAN]

\* Eth1ConnectionData::default()
Disconnected == [connected |-> FALSE, fallback |-> FALSE]

TypeOK ==
    /\ cursor \in 0 .. N
    /\ pc \in [Requests -> PC]
    /\ url \in [Requests -> 0 .. N]
    /\ result \in [Requests -> Results]
    /\ conn \in ConnectionData
    /\ tried \in [Requests -> SUBSET Positions]
    /\ resetSince \in [Requests -> BOOLEAN]

Init ==
    /\ cursor = 0
    /\ pc = [r \in Requests |-> "idle"]
    /\ url = [r \in Requests |-> 0]
    /\ result = [r \in Requests |-> "none"]
    /\ conn = Disconnected
    /\ tried = [r \in Requests |-> {}]
    /\ resetSince = [r \in Requests |-> FALSE]

-----------------------------------------------------------------------------
(* A caller (current_head_number, get_block, get_deposit_events, execute,  *)
(* ...) enters request_with_fallback.                                      *)
Start(r) ==
    /\ pc[r] = "idle"
    /\ pc' = [pc EXCEPT ![r] = "current"]
    /\ result' = [result EXCEPT ![r] = "none"]
    /\ tried' = [tried EXCEPT ![r] = {}]
    /\ resetSince' = [resetSince EXCEPT ![r] = FALSE]
    /\ UNCHANGED <<cursor, url, conn>>

(* `while let Some(url) = self.current_endpoint().await`: under the lock,  *)
(* the first URL of the iterator's slice, if there is one.                 *)
CurrentEndpoint(r) ==
    /\ pc[r] = "current"
    /\ IF cursor < N
         THEN /\ url' = [url EXCEPT ![r] = cursor + 1]
              /\ pc' = [pc EXCEPT ![r] = "call"]
         ELSE /\ pc' = [pc EXCEPT ![r] = "reset"]
              /\ UNCHANGED url
    /\ UNCHANGED <<cursor, result, conn, tried, resetSince>>

(* `self.auth.headers()?` fails: the call returns the error at once,       *)
(* leaving the cursor where it is.                                         *)
AuthFails(r) ==
    /\ pc[r] = "call"
    /\ pc' = [pc EXCEPT ![r] = "idle"]
    /\ result' = [result EXCEPT ![r] = "auth_error"]
    /\ UNCHANGED <<cursor, url, conn, tried, resetSince>>

(* The query to Original[url[r]] succeeds: the connection data is sent,    *)
(* with the fallback flag set when the URL is not the first configured     *)
(* one, and the result is returned.                                        *)
CallSucceeds(r) ==
    /\ pc[r] = "call"
    /\ pc' = [pc EXCEPT ![r] = "idle"]
    /\ result' = [result EXCEPT ![r] = "ok"]
    /\ conn' = [connected |-> TRUE,
                fallback  |-> Original[url[r]] # Original[1]]
    /\ tried' = [tried EXCEPT ![r] = @ \cup {url[r]}]
    /\ UNCHANGED <<cursor, url, resetSince>>

(* Mutant: a failure that goes straight back to current_endpoint, as if   *)
(* the failure arm ended in `continue` before next_endpoint.               *)
CallFailsRetry(r) ==
    /\ pc[r] = "call"
    /\ url[r] \notin Up
    /\ pc' = [pc EXCEPT ![r] = "current"]
    /\ tried' = [tried EXCEPT ![r] = @ \cup {url[r]}]
    /\ UNCHANGED <<cursor, url, result, conn, resetSince>>

(* The query fails (HTTP error, timeout, bad response): an endpoint that   *)
(* is not Up may do this.                                                  *)
CallFails(r) ==
    /\ pc[r] = "call"
    /\ url[r] \notin Up
    /\ pc' = [pc EXCEPT ![r] = "peek"]
    /\ tried' = [tried EXCEPT ![r] = @ \cup {url[r]}]
    /\ UNCHANGED <<cursor, url, result, conn, resetSince>>

(* peek_next_endpoint, read under the lock for the warning only, then the  *)
(* disconnected connection data.                                           *)
PeekNextEndpoint(r) ==
    /\ pc[r] = "peek"
    /\ pc' = [pc EXCEPT ![r] = "advance"]
    /\ conn' = Disconnected
    /\ UNCHANGED <<cursor, url, result, tried, resetSince>>

(* Mutant: an index bumped without the iterator's end check.               *)
NextEndpointPastEnd(r) ==
    /\ pc[r] = "advance"
    /\ cursor' = cursor + 1
    /\ pc' = [pc EXCEPT ![r] = "current"]
    /\ UNCHANGED <<url, result, conn, tried, resetSince>>

(* Mutant: the lock is taken but the iterator is not moved.                *)
NextEndpointLost(r) ==
    /\ pc[r] = "advance"
    /\ pc' = [pc EXCEPT ![r] = "current"]
    /\ UNCHANGED <<cursor, url, result, conn, tried, resetSince>>

(* `self.next_endpoint().await`: IntoIter::next under the lock.  It moves  *)
(* whatever the cursor is now, not the URL this task called.               *)
NextEndpoint(r) ==
    /\ pc[r] = "advance"
    /\ cursor' = IF cursor < N THEN cursor + 1 ELSE cursor
    /\ pc' = [pc EXCEPT ![r] = "current"]
    /\ UNCHANGED <<url, result, conn, tried, resetSince>>

(* The loop found no endpoint: reset_endpoints, then NoEndpointsProvided   *)
(* if none are configured and EndpointsExhausted otherwise.                *)
ResetEndpoints(r) ==
    /\ pc[r] = "reset"
    /\ cursor' = 0
    /\ pc' = [pc EXCEPT ![r] = "idle"]
    /\ result' = [result EXCEPT ![r] =
                    IF N = 0 THEN "no_endpoints" ELSE "exhausted"]
    /\ resetSince' = [q \in Requests |-> TRUE]
    /\ UNCHANGED <<url, conn, tried>>

Step(r) ==
    \/ Start(r)
    \/ CurrentEndpoint(r)
    \/ AuthFails(r)
    \/ CallSucceeds(r)
    \/ CallFails(r)
    \/ PeekNextEndpoint(r)
    \/ NextEndpoint(r)
    \/ ResetEndpoints(r)

Next == \E r \in Requests : Step(r)

(* Tokio polls every runnable task: a task whose next step is enabled      *)
(* takes it.                                                               *)
Fairness == \A r \in Requests : WF_vars(Step(r) /\ pc[r] # "idle")

Spec == Init /\ [][Next]_vars /\ Fairness

-----------------------------------------------------------------------------
(* Properties.                                                             *)

(* Failover walks down the list: until the cursor is reset again, a task   *)
(* never calls an endpoint it has already called in the same               *)
(* request_with_fallback, however the other tasks move the shared cursor   *)
(* between its current_endpoint and next_endpoint.                         *)
NoRetryWithinEpoch ==
    \A r \in Requests :
        pc[r] = "call" /\ ~resetSince[r] => url[r] \notin tried[r]

(* EndpointsExhausted means that every endpoint failed during this very    *)
(* call (spec section 7): a task that gets it has called every position.   *)
ExhaustedAfterTryingAll ==
    \A r \in Requests :
        pc[r] = "idle" /\ result[r] = "exhausted" => tried[r] = Positions

(* Between two resets of the cursor a call cannot loop: a task inside     *)
(* request_with_fallback eventually returns, or some task resets the       *)
(* shared cursor under it.                                                 *)
ReturnsOrReset ==
    \A r \in Requests : pc[r] # "idle" ~> (pc[r] = "idle" \/ resetSince[r])

(* Every call of request_with_fallback returns: the loop walks the list    *)
(* and ends in success, an error or EndpointsExhausted.                    *)
Termination ==
    \A r \in Requests : pc[r] # "idle" ~> pc[r] = "idle"

=============================================================================
