------------------------------ MODULE Splitter ------------------------------
(***************************************************************************)
(* The RPC splitter handling one batch of requests (spec.md 4.2-4.5, 5)    *)
(* against the test harness's mock callers (src/pkg/rpcsplitter/           *)
(* mock_test.go).                                                          *)
(*                                                                         *)
(* Server and dispatcher (spec-modelled): a request is received, rejected  *)
(* if it does not decode, else dispatched to one goroutine per caller,     *)
(* all sharing one context; the join barrier waits until every caller has  *)
(* answered or the context is done, takes the result set, cancels the      *)
(* context (a deferred cancel) and the resolver produces the response.     *)
(*                                                                         *)
(* Caller (mockClient.CallContext): checks that a call was scripted        *)
(* (require.Fail otherwise, which ends the goroutine), reads its script    *)
(* entry at currCall in a second, separate read, starts an inner          *)
(* goroutine computing the scripted result and selects between that       *)
(* result and ctx.Done; the deferred                                      *)
(* currCall++ runs on return.  The inner goroutine sends on an unbuffered  *)
(* channel, so it blocks for good when the select took ctx.Done.           *)
(***************************************************************************)
EXTENDS Resolver, TLC

CONSTANTS
    Requests,       \* the requests of one batch, handled independently
    Methods,        \* the RPC method names a request can carry
    Malformed,      \* a request body that does not decode
    StrategyTable,  \* method name -> "exact" | "numeric" | "first"
    MinResponses,
    MinAgreeing,
    Pending         \* no result from this caller yet

(* Startup validation (4.4): the policy invariant of 3.                    *)
ASSUME 0 < MinAgreeing /\ MinAgreeing <= MinResponses
       /\ MinResponses <= Cardinality(Sources)

VARIABLES
    request,    \* the decoded method of each request (never changes)
    mocked,     \* mocked[s]: how many calls the test scripted for client s
    phase,      \* per request: "received" .. "responding" (4.5)
    ctxDone,    \* the request's shared context is done
    caller,     \* per request and source: the CallContext goroutine
    inner,      \* the goroutine running call.result()
    sent,       \* the value the inner goroutine computed
    callIdx,    \* the script index CallContext read from currCall
    currCall,   \* mockClient.currCall, shared by all requests to a client
    slot,       \* what CallContext returned to the dispatcher
    arrival,    \* the order in which callers returned
    results,    \* the result set taken at the join barrier
    order,      \* the arrival order taken at the join barrier
    response    \* the response of each request

vars == <<request, mocked, phase, ctxDone, caller, inner, sent, callIdx,
          currCall, slot, arrival, results, order, response>>

Phases == {"received", "dispatching", "resolving", "responding"}

Init ==
    /\ request \in [Requests -> Methods \cup {Malformed}]
    /\ mocked \in [Sources -> 0..Cardinality(Requests)]
    /\ phase = [r \in Requests |-> "received"]
    /\ ctxDone = [r \in Requests |-> FALSE]
    /\ caller = [r \in Requests |-> [s \in Sources |-> "idle"]]
    /\ inner = [r \in Requests |-> [s \in Sources |-> "none"]]
    /\ sent = [r \in Requests |-> [s \in Sources |-> NoValue]]
    /\ callIdx = [r \in Requests |-> [s \in Sources |-> 0]]
    /\ currCall = [s \in Sources |-> 0]
    /\ slot = [r \in Requests |-> [s \in Sources |-> Pending]]
    /\ arrival = [r \in Requests |-> <<>>]
    /\ results = [r \in Requests |-> NoValue]
    /\ order = [r \in Requests |-> <<>>]
    /\ response = [r \in Requests |-> NoValue]

(***************************************************************************)
(* Server and dispatcher (spec-modelled)                                   *)
(***************************************************************************)

(* A body that does not decode is answered at once and never dispatched.   *)
Reject(r) ==
    /\ phase[r] = "received"
    /\ request[r] = Malformed
    /\ phase' = [phase EXCEPT ![r] = "responding"]
    /\ response' = [response EXCEPT ![r] = Failure("ProtocolError")]
    /\ UNCHANGED <<request, mocked, ctxDone, caller, inner, sent, callIdx,
                   currCall, slot, arrival, results, order>>

(* One goroutine per configured caller, all under the request's context.   *)
Dispatch(r) ==
    /\ phase[r] = "received"
    /\ request[r] # Malformed
    /\ phase' = [phase EXCEPT ![r] = "dispatching"]
    /\ caller' = [caller EXCEPT ![r] = [s \in Sources |-> "spawned"]]
    /\ UNCHANGED <<request, mocked, ctxDone, inner, sent, callIdx, currCall,
                   slot, arrival, results, order, response>>

(* The per-call timeout expires, or the client cancels the request.        *)
ContextDone(r) ==
    /\ phase[r] = "dispatching"
    /\ ~ctxDone[r]
    /\ ctxDone' = [ctxDone EXCEPT ![r] = TRUE]
    /\ UNCHANGED <<request, mocked, phase, caller, inner, sent, callIdx,
                   currCall, slot, arrival, results, order, response>>

(* Mutant: pending callers whose result was computed but never received  *)
(* are counted with that late value.                                     *)
JoinUsesLateAnswers(r) ==
    /\ phase[r] = "dispatching"
    /\ ctxDone[r] \/ \A s \in Sources : slot[r][s] # Pending
    /\ phase' = [phase EXCEPT ![r] = "resolving"]
    /\ results' = [results EXCEPT ![r] =
                     [s \in Sources |-> CASE slot[r][s] # Pending -> slot[r][s]
                                          [] sent[r][s] # NoValue -> sent[r][s]
                                          [] OTHER                -> Cancelled]]
    /\ order' = [order EXCEPT ![r] = arrival[r]]
    /\ ctxDone' = [ctxDone EXCEPT ![r] = TRUE]
    /\ UNCHANGED <<request, mocked, caller, inner, sent, callIdx, currCall,
                   slot, arrival, response>>

(* The join barrier: every caller answered, or the context is done and the *)
(* callers still outstanding count as cancelled.  Leaving the dispatcher   *)
(* runs the deferred cancel of the request's context.                      *)
Join(r) ==
    /\ phase[r] = "dispatching"
    /\ ctxDone[r] \/ \A s \in Sources : slot[r][s] # Pending
    /\ phase' = [phase EXCEPT ![r] = "resolving"]
    /\ results' = [results EXCEPT ![r] =
                     [s \in Sources |-> IF slot[r][s] = Pending THEN Cancelled ELSE slot[r][s]]]
    /\ order' = [order EXCEPT ![r] = arrival[r]]
    /\ ctxDone' = [ctxDone EXCEPT ![r] = TRUE]
    /\ UNCHANGED <<request, mocked, caller, inner, sent, callIdx, currCall,
                   slot, arrival, response>>

Resolve(r) ==
    /\ phase[r] = "resolving"
    /\ phase' = [phase EXCEPT ![r] = "responding"]
    /\ response' = [response EXCEPT ![r] =
                      Resolution(StrategyFor(StrategyTable, request[r]),
                                 results[r], order[r], MinResponses, MinAgreeing)]
    /\ UNCHANGED <<request, mocked, ctxDone, caller, inner, sent, callIdx,
                   currCall, slot, arrival, results, order>>

(***************************************************************************)
(* Caller: mockClient.CallContext (mock_test.go 83-112)                    *)
(***************************************************************************)

(* No call left in the script: require.Fail -> FailNow -> Goexit ends the  *)
(* goroutine before the deferred increment is registered, and nothing is   *)
(* returned to the dispatcher.                                             *)
CallUnexpected(r, s) ==
    /\ caller[r][s] = "spawned"
    /\ currCall[s] >= mocked[s]
    /\ caller' = [caller EXCEPT ![r][s] = "exited"]
    /\ UNCHANGED <<request, mocked, phase, ctxDone, inner, sent, callIdx,
                   currCall, slot, arrival, results, order, response>>

(* The script check passed (84) and the deferred currCall++ is registered  *)
(* (87).  currCall is read again, unsynchronised, at line 90.              *)
CallChecked(r, s) ==
    /\ caller[r][s] = "spawned"
    /\ currCall[s] < mocked[s]
    /\ caller' = [caller EXCEPT ![r][s] = "checked"]
    /\ UNCHANGED <<request, mocked, phase, ctxDone, inner, sent, callIdx,
                   currCall, slot, arrival, results, order, response>>

(* call := c.calls[c.currCall] (90), then the goroutine computing          *)
(* call.result() is started.  If another call on the client returned since *)
(* the check, the index is out of range: the goroutine panics, the         *)
(* deferred currCall++ runs while it unwinds, and the test binary dies.    *)
CallRead(r, s) ==
    /\ caller[r][s] = "checked"
    /\ IF currCall[s] < mocked[s]
          THEN /\ callIdx' = [callIdx EXCEPT ![r][s] = currCall[s]]
               /\ caller' = [caller EXCEPT ![r][s] = "select"]
               /\ inner' = [inner EXCEPT ![r][s] = "computing"]
               /\ UNCHANGED currCall
          ELSE /\ caller' = [caller EXCEPT ![r][s] = "panicked"]
               /\ currCall' = [currCall EXCEPT ![s] = @ + 1]
               /\ UNCHANGED <<callIdx, inner>>
    /\ UNCHANGED <<request, mocked, phase, ctxDone, sent, slot,
                   arrival, results, order, response>>

(* call.result() returns the scripted value or error, after the scripted   *)
(* delay for mockSlowCall; the goroutine then blocks on the send.          *)
InnerResult(r, s) ==
    /\ inner[r][s] = "computing"
    /\ \E v \in Values \cup {Err} : sent' = [sent EXCEPT ![r][s] = v]
    /\ inner' = [inner EXCEPT ![r][s] = "sending"]
    /\ UNCHANGED <<request, mocked, phase, ctxDone, caller, callIdx, currCall,
                   slot, arrival, results, order, response>>

(* Returning a value or error to the dispatcher: the slot, its place in    *)
(* the arrival order, and the deferred currCall++.                         *)
Return(r, s, v) ==
    /\ caller' = [caller EXCEPT ![r][s] = "returned"]
    /\ slot' = [slot EXCEPT ![r][s] = v]
    /\ arrival' = [arrival EXCEPT ![r] = Append(@, s)]
    /\ currCall' = [currCall EXCEPT ![s] = @ + 1]

(* The select receives the result; errors are returned as errors, values   *)
(* go through a JSON round trip that preserves them.                       *)
SelectResult(r, s) ==
    /\ caller[r][s] = "select"
    /\ inner[r][s] = "sending"
    /\ inner' = [inner EXCEPT ![r][s] = "done"]
    /\ Return(r, s, sent[r][s])
    /\ UNCHANGED <<request, mocked, phase, ctxDone, sent, callIdx, results,
                   order, response>>

(* Mutant: the caller blocks on the result and only then checks ctx.       *)
SelectCancelledAfterResult(r, s) ==
    /\ caller[r][s] = "select"
    /\ ctxDone[r]
    /\ inner[r][s] = "sending"
    /\ inner' = [inner EXCEPT ![r][s] = "done"]
    /\ Return(r, s, Cancelled)
    /\ UNCHANGED <<request, mocked, phase, ctxDone, sent, callIdx,
                   results, order, response>>

(* The select takes ctx.Done: errors.New("context cancelled").             *)
SelectCancelled(r, s) ==
    /\ caller[r][s] = "select"
    /\ ctxDone[r]
    /\ Return(r, s, Cancelled)
    /\ UNCHANGED <<request, mocked, phase, ctxDone, inner, sent, callIdx,
                   results, order, response>>

(***************************************************************************)
(* Specification                                                           *)
(***************************************************************************)
(* An unrecovered panic in any goroutine ends the process.                 *)
Crashed == \E r \in Requests, s \in Sources : caller[r][s] = "panicked"

Next ==
    /\ ~Crashed
    /\ \E r \in Requests :
          \/ Reject(r) \/ Dispatch(r) \/ ContextDone(r) \/ Join(r) \/ Resolve(r)
          \/ \E s \in Sources :
                \/ CallUnexpected(r, s) \/ CallChecked(r, s) \/ CallRead(r, s)
                \/ InnerResult(r, s) \/ SelectResult(r, s) \/ SelectCancelled(r, s)

(* The timer, the server's goroutines and the Go scheduler make progress;  *)
(* an upstream (call.result()) may take arbitrarily long.                  *)
Fairness ==
    \A r \in Requests :
        /\ WF_vars(Reject(r)) /\ WF_vars(Dispatch(r)) /\ WF_vars(ContextDone(r))
        /\ WF_vars(Join(r)) /\ WF_vars(Resolve(r))
        /\ \A s \in Sources : /\ WF_vars(CallUnexpected(r, s))
                              /\ WF_vars(CallChecked(r, s))
                              /\ WF_vars(CallRead(r, s))
                              /\ WF_vars(SelectCancelled(r, s))

Spec == Init /\ [][Next]_vars /\ Fairness

(* The mock's call.result() always returns after its scripted delay.       *)
MockSpec == Spec /\ \A r \in Requests, s \in Sources : WF_vars(InnerResult(r, s))

(***************************************************************************)
(* Properties                                                              *)
(***************************************************************************)

(* Refinement: the request is open while received or dispatching; the      *)
(* delivered results are the callers' returns until the join barrier and   *)
(* the barrier's result set after it, so a return that comes after the     *)
(* barrier is invisible.  Checks that every request is answered once, from *)
(* exactly the results delivered before its deadline, as 4.3 resolves them. *)
Abstract == INSTANCE SplitterAbstract WITH
    open      <- [r \in Requests |-> phase[r] \in {"received", "dispatching"}],
    delivered <- [r \in Requests |->
                    IF results[r] # NoValue THEN results[r] ELSE slot[r]],
    arrived   <- [r \in Requests |->
                    IF results[r] # NoValue THEN order[r] ELSE arrival[r]],
    answer    <- response

ImplementsAbstract == Abstract!ASpec

(* Cancellation (5): once a request's context is done every one of its     *)
(* CallContext goroutines stops; none keeps waiting on its upstream.       *)
CancellationReachesCallers ==
    \A r \in Requests, s \in Sources :
        <>[](caller[r][s] \in {"idle", "returned", "exited"})

(* The mock serves each scripted call once: two CallContext invocations on *)
(* the same client never read the same entry of c.calls.                   *)
ScriptedCallsServedOnce ==
    \A s \in Sources, r1, r2 \in Requests :
        (/\ r1 # r2
         /\ caller[r1][s] \in {"select", "returned"}
         /\ caller[r2][s] \in {"select", "returned"})
        => callIdx[r1][s] # callIdx[r2][s]

(* Between the script check (84) and the read of c.calls[c.currCall] (90) *)
(* no other call on the same client returns: the index the check allowed  *)
(* is still in range when the script is indexed.                          *)
ScriptIndexInBounds ==
    \A r \in Requests, s \in Sources :
        caller[r][s] = "checked" => currCall[s] < mocked[s]

(* Every goroutine CallContext starts for call.result() eventually ends.   *)
ResultGoroutinesExit ==
    \A r \in Requests, s \in Sources :
        inner[r][s] \in {"computing", "sending"} ~> inner[r][s] = "done"
=============================================================================
