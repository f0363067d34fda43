--------------------------- MODULE HTTPServerTest ---------------------------
(***************************************************************************)
(* The httpserver tests (src/pkg/event/publisher/teleportevm/signer.go,    *)
(* 101-141): a Server is made with a handler that writes "response", is    *)
(* given middlewares through Use, and serves one request into a fresh      *)
(* ResponseRecorder, whose body the test compares with what it expects.    *)
(*                                                                         *)
(* The tests' two middlewares are the only ones: "before" writes           *)
(* "before-" and then calls the handler it wraps, "after" calls it and     *)
(* then writes "-after".  The harness gives a server any sequence of them, *)
(* in one or several Use calls, as the tests do with none and with both.   *)
(* A response body is the sequence of the chunks written to it.            *)
(*                                                                         *)
(* httpserver.Server itself is not in the source tree.  Which of the       *)
(* middlewares given to Use ends up outermost is therefore left open: the  *)
(* server composes them in the order they were given or in reverse.        *)
(***************************************************************************)
EXTENDS Naturals, Sequences, SequencesExt

CONSTANTS
    MaxMiddlewares, \* bound on the middlewares one server is given
    Orders          \* the composition orders considered: {"given", "reversed"}

MiddlewareNames == {"before", "after"}

(* The handler both tests give New (106-108, 120-122).                     *)
Handler == <<"response">>

(* The first middleware of TestServer_WithMiddlewares (125-130): writes,   *)
(* then serves through the handler it wraps (h, the chunks it writes).     *)
BeforeMiddleware(h) == <<"before-">> \o h

AfterMiddleware(h) == h \o <<"-after">>

Wrap(m, h) == IF m = "before" THEN BeforeMiddleware(h) ELSE AfterMiddleware(h)

(* Server.ServeHTTP: the handler wrapped by the middlewares ms, ms[1]      *)
(* outermost.                                                              *)
RECURSIVE Chain(_)
Chain(ms) == IF ms = <<>> THEN Handler ELSE Wrap(Head(ms), Chain(Tail(ms)))

Served(order, ms) == IF order = "given" THEN Chain(ms) ELSE Chain(Reverse(ms))

VARIABLES
    order,  \* how the server composes its middlewares
    mws,    \* the middlewares given to srv.Use so far, in order
    body,   \* rw.Body: the chunks written to the recorder
    served  \* srv.ServeHTTP(rw, r) has returned

vars == <<order, mws, body, served>>

(* NewRequest, NewRecorder and New with the handler (115-123).             *)
Init ==
    /\ order \in Orders
    /\ mws = <<>>
    /\ body = <<>>
    /\ served = FALSE

(* srv.Use(...) with one or more middlewares (124-137).                    *)
Use ==
    /\ ~served
    /\ \E ms \in SeqOf(MiddlewareNames, MaxMiddlewares - Len(mws)) :
          /\ ms # <<>>
          /\ mws' = mws \o ms
    /\ UNCHANGED <<order, body, served>>

(* srv.ServeHTTP(rw, r) (111, 139): the request goes through the chain.    *)
ServeHTTP ==
    /\ ~served
    /\ body' = body \o Served(order, mws)
    /\ served' = TRUE
    /\ UNCHANGED <<order, mws>>

Next == Use \/ ServeHTTP

Spec == Init /\ [][Next]_vars

(***************************************************************************)
(* Properties                                                              *)
(***************************************************************************)

(* The chunks the handler and the tests' middlewares write.               *)
Chunks == {"before-", "response", "-after"}

(* Every chunk in the recorded body is one of the handler's or the         *)
(* middlewares' writes (107, 127, 134), and a server holds at most the     *)
(* middlewares the harness gives it.                                       *)
TypeOK ==
    /\ order \in Orders
    /\ mws \in Seq(MiddlewareNames) /\ Len(mws) <= MaxMiddlewares
    /\ body \in Seq(Chunks)
    /\ served \in BOOLEAN
=============================================================================
