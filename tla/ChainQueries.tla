---------------------------- MODULE ChainQueries ----------------------------
(***************************************************************************)
(* Eth1Api::get_blocks (src/eth1_api/src/eth1_api.rs) composed with the    *)
(* endpoint failover of Eth1Fallback.                                      *)
(*                                                                         *)
(* get_blocks(range) first reads the deposit logs of the whole range with  *)
(* one request_with_fallback (get_deposit_events), then reads each block   *)
(* of the range with a request_with_fallback of its own                    *)
(* (get_block_by_number), and attaches to each block the deposit events    *)
(* the logs gave for its number.  Each of these calls is answered by       *)
(* whichever endpoint the shared cursor points at when it runs, and the    *)
(* endpoints need not see the same chain: View[p][n] is the block the node *)
(* at position p has at height n (its fork), or "none".  A block is        *)
(* <<fork, height>>; its deposits are counted by DepositCount.             *)
(*                                                                         *)
(* The task Reader runs get_blocks again and again; the other tasks are    *)
(* the other callers of Eth1Api, which move the same cursor.               *)
(***************************************************************************)
EXTENDS Naturals, Sequences, FiniteSets

CONSTANTS Requests, Urls, Original, Up
CONSTANTS
    Reader,           \* the task that calls get_blocks
    Lo, Hi,           \* the block_number_range Lo..=Hi
    Forks,            \* the blocks a height can hold, one per fork
    View,             \* View[p][n]: the block of endpoint p at height n
    DepositCount,     \* DepositCount[f, n]: deposit events in block <<f, n>>
    MaxDepositEvents  \* capacity of Eth1Block::deposit_events

Heights == Lo .. Hi
NoBlock == "none"

ASSUME EndpointsAssumption == Original \in Seq(Urls) /\ Up \subseteq 1 .. Len(Original)
ASSUME ReaderAssumption == Reader \in Requests
ASSUME RangeAssumption == Lo \in Nat /\ Hi \in Nat
ASSUME ViewAssumption ==
    /\ View \in [1 .. Len(Original) -> [Heights -> Forks \cup {NoBlock}]]
    /\ DepositCount \in [Forks \X Heights -> Nat]
    /\ MaxDepositEvents \in Nat

VARIABLES cursor, pc, url, result, conn, tried, resetSince
VARIABLES
    qpc,        \* where get_blocks is: idle, logs, blocks, done
    next,       \* the block_number the `for` loop is at
    depositData,\* the BTreeMap of get_deposit_events: height -> its events
    blocks,     \* the Vec<Eth1Block> built so far
    qresult,    \* how the last get_blocks ended: none, ok, error
    answered    \* ghost: the endpoints that answered this get_blocks

F == INSTANCE Eth1Fallback

fvars == <<cursor, pc, url, result, conn, tried, resetSince>>
qvars == <<qpc, next, depositData, blocks, qresult, answered>>
vars == <<fvars, qvars>>

(* A deposit event is named by the block whose log it came from; an       *)
(* absent map entry is NoEvents.                                           *)
NoEvents == [from |-> NoBlock, count |-> 0]
Events == [from : Forks, count : Nat \ {0}] \cup {NoEvents}
Eth1Block == [height : Heights, fork : Forks, deposits : Events]

TypeOK ==
    /\ F!TypeOK
    /\ qpc \in {"idle", "logs", "blocks", "done"}
    /\ next \in Lo .. Hi + 1
    /\ depositData \in [Heights -> Events]
    /\ blocks \in SUBSET Eth1Block
    /\ qresult \in {"none", "ok", "error"}
    /\ answered \in SUBSET F!Positions

Init ==
    /\ F!Init
    /\ qpc = "idle"
    /\ next = Lo
    /\ depositData = [n \in Heights |-> NoEvents]
    /\ blocks = {}
    /\ qresult = "none"
    /\ answered = {}

-----------------------------------------------------------------------------
(* get_deposit_events as answered by endpoint p: the logs of its chain     *)
(* over the range, grouped by block number; heights without events have   *)
(* no entry.                                                               *)
DepositEventsAt(p) ==
    [n \in Heights |->
        IF View[p][n] # NoBlock /\ DepositCount[<<View[p][n], n>>] > 0
          THEN [from |-> View[p][n], count |-> DepositCount[<<View[p][n], n>>]]
          ELSE NoEvents]

(* get_blocks starts: its first call is get_deposit_events.                *)
GetBlocks ==
    /\ pc[Reader] = "idle"
    /\ qpc \in {"idle", "done"}
    /\ F!Start(Reader)
    /\ qpc' = "logs"
    /\ next' = Lo
    /\ blocks' = {}
    /\ answered' = {}
    /\ UNCHANGED <<depositData, qresult>>

(* Mutant: the `for` loop over Lo..Hi taken as the half-open Lo..Hi-1.    *)
InRangeExclusive(n) == n < Hi

(* `for block_number in block_number_range`: the loop goes on.             *)
InRange(n) == n <= Hi

(* The loop calls get_block_by_number(next).                               *)
GetBlockByNumber ==
    /\ pc[Reader] = "idle"
    /\ qpc = "blocks"
    /\ InRange(next)
    /\ F!Start(Reader)
    /\ UNCHANGED qvars

(* The loop is over: Ok(blocks).                                           *)
GetBlocksReturns ==
    /\ pc[Reader] = "idle"
    /\ qpc = "blocks"
    /\ ~InRange(next)
    /\ qpc' = "done"
    /\ qresult' = "ok"
    /\ UNCHANGED <<fvars, next, depositData, blocks, answered>>

(* A call of get_blocks is answered by the endpoint at url[Reader].  For   *)
(* the logs, the deposit map is built.  For a block: `None => continue`;   *)
(* otherwise its events are removed from the map and converted with       *)
(* try_into, which fails the whole get_blocks past MaxDepositEvents.       *)
ReaderSucceeds ==
    /\ F!CallSucceeds(Reader)
    /\ answered' = answered \cup {url[Reader]}
    /\ LET p == url[Reader]
           b == View[p][next]
           ev == depositData[next]
       IN  \/ /\ qpc = "logs"
              /\ depositData' = DepositEventsAt(p)
              /\ qpc' = "blocks"
              /\ UNCHANGED <<next, blocks, qresult>>
           \/ /\ qpc = "blocks"
              /\ b = NoBlock
              /\ next' = next + 1
              /\ UNCHANGED <<qpc, depositData, blocks, qresult>>
           \/ /\ qpc = "blocks"
              /\ b # NoBlock
              /\ ev.count > MaxDepositEvents
              /\ qpc' = "done"
              /\ qresult' = "error"
              /\ depositData' = [depositData EXCEPT ![next] = NoEvents]
              /\ UNCHANGED <<next, blocks>>
           \/ /\ qpc = "blocks"
              /\ b # NoBlock
              /\ ev.count <= MaxDepositEvents
              /\ blocks' = blocks \cup
                             {[height |-> next, fork |-> b, deposits |-> ev]}
              /\ depositData' = [depositData EXCEPT ![next] = NoEvents]
              /\ next' = next + 1
              /\ UNCHANGED <<qpc, qresult>>

(* A call of get_blocks fails on every endpoint, or its auth fails: `?`    *)
(* returns the error from get_blocks.                                      *)
ReaderGivesUp ==
    /\ F!ResetEndpoints(Reader) \/ F!AuthFails(Reader)
    /\ qpc' = "done"
    /\ qresult' = "error"
    /\ UNCHANGED <<next, depositData, blocks, answered>>

(* The rest of the reader's request_with_fallback loop.                    *)
ReaderLoop ==
    /\ \/ F!CurrentEndpoint(Reader)
       \/ F!CallFails(Reader)
       \/ F!PeekNextEndpoint(Reader)
       \/ F!NextEndpoint(Reader)
    /\ UNCHANGED qvars

(* Any other caller of Eth1Api.                                            *)
OtherCaller(r) ==
    /\ r # Reader
    /\ F!Step(r)
    /\ UNCHANGED qvars

Next ==
    \/ GetBlocks
    \/ GetBlockByNumber
    \/ GetBlocksReturns
    \/ ReaderSucceeds
    \/ ReaderGivesUp
    \/ ReaderLoop
    \/ \E r \in Requests : OtherCaller(r)

Spec == Init /\ [][Next]_vars

-----------------------------------------------------------------------------
(* Properties.                                                             *)

(* The blocks of a chain view over the range, each with its own deposits.  *)
ChainOf(v) ==
    {[height |-> n, fork |-> v[n],
      deposits |-> IF DepositCount[<<v[n], n>>] > 0
                     THEN [from |-> v[n], count |-> DepositCount[<<v[n], n>>]]
                     ELSE NoEvents] : n \in {m \in Heights : v[m] # NoBlock}}

(* When every call of a get_blocks was answered by nodes that see the same *)
(* chain, a successful get_blocks returns exactly that chain over the      *)
(* range: every block, each with exactly its own deposit events.           *)
CompleteUnderAgreement ==
    /\ qpc = "done"
    /\ qresult = "ok"
    /\ answered # {}
    /\ \A p, q \in answered : View[p] = View[q]
    => blocks = ChainOf(View[CHOOSE e \in answered : TRUE])

(* Every block get_blocks returns carries the deposit events of that very  *)
(* block: never events read from another fork at the same height, and      *)
(* none missing.                                                           *)
DepositsOfOwnBlock ==
    \A b \in blocks :
        b.deposits = IF DepositCount[<<b.fork, b.height>>] > 0
                       THEN [from |-> b.fork, count |-> DepositCount[<<b.fork, b.height>>]]
                       ELSE NoEvents
=============================================================================
