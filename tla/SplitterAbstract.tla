--------------------------- MODULE SplitterAbstract ---------------------------
(***************************************************************************)
(* What the splitter promises for each request (spec.md 4.2, 4.3, 5, 8):   *)
(* every request is answered exactly once, and the answer is an outcome    *)
(* the resolution rules allow for the results the callers delivered before *)
(* the request's deadline, every other caller counting as cancelled.       *)
(* Delivery, closing (deadline or all-answered) and answering are atomic   *)
(* steps here; Splitter refines them into goroutines and a join barrier.   *)
(***************************************************************************)
EXTENDS Resolver

CONSTANTS
    Requests,       \* the requests of one batch, handled independently
    Methods,        \* the RPC method names a request can carry
    Malformed,      \* a request body that does not decode
    StrategyTable,  \* method name -> "exact" | "numeric" | "first"
    MinResponses,
    MinAgreeing,
    Pending         \* no result from this caller yet

VARIABLES
    request,        \* the decoded method of each request (never changes)
    open,           \* results of the request are still being collected
    delivered,      \* delivered[r][s]: what caller s returned for r
    arrived,        \* the order in which the callers returned
    answer          \* the response sent to the client

avars == <<request, open, delivered, arrived, answer>>

AInit ==
    /\ request \in [Requests -> Methods \cup {Malformed}]
    /\ open = [r \in Requests |-> TRUE]
    /\ delivered = [r \in Requests |-> [s \in Sources |-> Pending]]
    /\ arrived = [r \in Requests |-> <<>>]
    /\ answer = [r \in Requests |-> NoValue]

Deliver(r, s) ==
    /\ open[r]
    /\ delivered[r][s] = Pending
    /\ \E v \in Outcomes :
          delivered' = [delivered EXCEPT ![r][s] = v]
    /\ arrived' = [arrived EXCEPT ![r] = Append(@, s)]
    /\ UNCHANGED <<request, open, answer>>

(* The deadline passes or every caller has answered: the rest are          *)
(* cancelled and the result set is fixed.                                  *)
Close(r) ==
    /\ open[r]
    /\ request[r] # Malformed
    /\ open' = [open EXCEPT ![r] = FALSE]
    /\ delivered' = [delivered EXCEPT ![r] =
                        [s \in Sources |-> IF @[s] = Pending THEN Cancelled ELSE @[s]]]
    /\ UNCHANGED <<request, arrived, answer>>

Answer(r) ==
    /\ answer[r] = NoValue
    /\ IF request[r] = Malformed
       THEN answer' = [answer EXCEPT ![r] = Failure("ProtocolError")]
       ELSE /\ ~open[r]
            /\ \E res \in Responses :
                  /\ SpecOutcome(StrategyFor(StrategyTable, request[r]),
                                 delivered[r], arrived[r], res,
                                 MinResponses, MinAgreeing)
                  /\ answer' = [answer EXCEPT ![r] = res]
    /\ open' = [open EXCEPT ![r] = FALSE]
    /\ UNCHANGED <<request, delivered, arrived>>

ANext == \E r \in Requests : Answer(r) \/ Close(r) \/ \E s \in Sources : Deliver(r, s)

(* The deadline always fires and the server always answers; callers need   *)
(* not deliver anything.                                                   *)
ASpec == AInit /\ [][ANext]_avars
               /\ \A r \in Requests : WF_avars(Close(r)) /\ WF_avars(Answer(r))
=============================================================================
