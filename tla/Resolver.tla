------------------------------ MODULE Resolver ------------------------------
(***************************************************************************)
(* The resolution strategies of the RPC splitter (spec.md 4.3, 4.4): pure  *)
(* operators from a labelled result set to one canonical result or a       *)
(* classified failure.  The splitter's resolver code is not part of the    *)
(* source tree, so these are modelled from the specification.              *)
(*                                                                         *)
(* A result set R maps every source to a successful value (a member of     *)
(* Values, integers so that the numeric strategy can compare them), to Err *)
(* (a transport or RPC error) or to Cancelled (the context ended first).   *)
(* The policy is passed explicitly so that properties can vary it.         *)
(***************************************************************************)
EXTENDS Integers, FiniteSets, Sequences, FiniteSetsExt

CONSTANTS
    Sources,        \* the configured callers
    Values,         \* successful results, as integers
    Err,            \* a caller returned an error
    Cancelled,      \* the caller's context was done before it answered
    NoValue,        \* absent value in a failure
    Tolerance       \* numeric agreement window (0 = exact match, 4.3.2)

Outcomes == Values \cup {Err, Cancelled}

Kinds == {"result", "InsufficientResponses", "NoQuorum", "Ambiguous",
          "ProtocolError"}

Failure(kind) == [kind |-> kind, value |-> NoValue, agreeing |-> {}]

Success(v, A) == [kind |-> "result", value |-> v, agreeing |-> A]

(* Every response record a resolution can produce.                         *)
Responses == {Success(v, A) : v \in Values, A \in SUBSET Sources}
             \cup {Failure(k) : k \in Kinds \ {"result"}}

(* Sources that returned a value at all, and those that returned v.       *)
Responded(R) == {s \in Sources : R[s] \in Values}

Support(R, v) == {s \in Responded(R) : R[s] = v}

Reported(R) == {R[s] : s \in Responded(R)}

(***************************************************************************)
(* Exact-match strategy (4.3.1): group by equality, pick the largest       *)
(* group; a tie at the top between groups that clear quorum is a fork.     *)
(***************************************************************************)
ExactMatch(R, minResponses, minAgreeing) ==
    IF Cardinality(Responded(R)) < minResponses
    THEN Failure("InsufficientResponses")
    ELSE LET top     == Max({Cardinality(Support(R, v)) : v \in Reported(R)})
             leaders == {v \in Reported(R) : Cardinality(Support(R, v)) = top}
         IN  IF top < minAgreeing THEN Failure("NoQuorum")
             ELSE IF Cardinality(leaders) > 1 THEN Failure("Ambiguous")
             ELSE LET v == CHOOSE x \in leaders : TRUE
                  IN  Success(v, Support(R, v))

(***************************************************************************)
(* Conservative-numeric strategy (4.3.2): a group is the set of sources    *)
(* whose values lie in a window [lo, lo + Tolerance] starting at a         *)
(* reported value.  The largest group wins; among groups of that size the  *)
(* lowest window (a total order, 5) is taken.  The canonical value is the  *)
(* minimum of the group, which is lo itself.                               *)
(***************************************************************************)
Window(R, lo) == {s \in Responded(R) : lo <= R[s] /\ R[s] <= lo + Tolerance}

ConservativeNumeric(R, minResponses, minAgreeing) ==
    IF Cardinality(Responded(R)) < minResponses
    THEN Failure("InsufficientResponses")
    ELSE LET top  == Max({Cardinality(Window(R, lo)) : lo \in Reported(R)})
             best == Min({lo \in Reported(R) : Cardinality(Window(R, lo)) = top})
         IN  IF top < minAgreeing THEN Failure("NoQuorum")
             ELSE Success(best, Window(R, best))

(***************************************************************************)
(* First-success strategy (4.3.3): the value of the first source, in       *)
(* arrival order, that returned one; still needs minResponses values.      *)
(***************************************************************************)
FirstSuccess(R, arrival, minResponses) ==
    IF Cardinality(Responded(R)) < minResponses \/ Responded(R) = {}
    THEN Failure("InsufficientResponses")
    ELSE LET i == Min({j \in DOMAIN arrival : R[arrival[j]] \in Values})
         IN  Success(R[arrival[i]], {arrival[i]})

(***************************************************************************)
(* Registry (4.3 Selection, 9): a table from method names to strategy      *)
(* tags; an unregistered method uses exact match.                          *)
(***************************************************************************)
StrategyFor(table, method) ==
    IF method \in DOMAIN table THEN table[method] ELSE "exact"

Resolution(strategy, R, arrival, minResponses, minAgreeing) ==
    CASE strategy = "exact"   -> ExactMatch(R, minResponses, minAgreeing)
      [] strategy = "numeric" -> ConservativeNumeric(R, minResponses, minAgreeing)
      [] strategy = "first"   -> FirstSuccess(R, arrival, minResponses)

(***************************************************************************)
(* Reference definitions: the clauses of 4.3 stated declaratively, without *)
(* grouping or choice, against which the strategies are checked.           *)
(***************************************************************************)
EnoughResponses(R, minResponses) == Cardinality(Responded(R)) >= minResponses

(* 4.3.1: v wins iff it clears quorum and strictly outnumbers every other  *)
(* value; "ambiguous" iff two different values both clear quorum and      *)
(* nothing outnumbers either.                                              *)
ExactSpecOutcome(R, res, minResponses, minAgreeing) ==
    LET n(v) == Cardinality(Support(R, v)) IN
    CASE ~EnoughResponses(R, minResponses) ->
            res.kind = "InsufficientResponses"
      [] \E v \in Reported(R) : n(v) >= minAgreeing
                                /\ \A w \in Reported(R) \ {v} : n(w) < n(v) ->
            /\ res.kind = "result"
            /\ n(res.value) >= minAgreeing
            /\ \A w \in Reported(R) \ {res.value} : n(w) < n(res.value)
            /\ res.agreeing = Support(R, res.value)
      [] \E v, w \in Reported(R) : v # w /\ n(v) = n(w) /\ n(v) >= minAgreeing
                                   /\ \A x \in Reported(R) : n(x) <= n(v) ->
            res.kind = "Ambiguous"
      [] OTHER -> res.kind = "NoQuorum"

(* 4.3.2: a result is the minimum of a set of at least minAgreeing         *)
(* sources whose values are pairwise within Tolerance, and no larger such  *)
(* set exists; "no quorum" iff no such set reaches minAgreeing.            *)
NumericSpecOutcome(R, res, minResponses, minAgreeing) ==
    LET Agreeing(A) == /\ A # {}
                       /\ \A s, t \in A : R[s] - R[t] <= Tolerance
        Groups      == {A \in SUBSET Responded(R) : Agreeing(A)}
        largest     == Max({Cardinality(A) : A \in Groups \cup {{}}})
    IN
    CASE ~EnoughResponses(R, minResponses) ->
            res.kind = "InsufficientResponses"
      [] largest < minAgreeing -> res.kind = "NoQuorum"
      [] OTHER ->
            /\ res.kind = "result"
            /\ res.agreeing \in Groups
            /\ Cardinality(res.agreeing) = largest
            /\ res.value = Min({R[s] : s \in res.agreeing})
            /\ \A A \in Groups : Cardinality(A) = largest =>
                    res.value <= Min({R[s] : s \in A})

(* 4.3.3: any arrived value, with at least minResponses values overall.    *)
FirstSpecOutcome(R, arrival, res, minResponses) ==
    IF EnoughResponses(R, minResponses) /\ Responded(R) # {}
    THEN /\ res.kind = "result"
         /\ \E i \in DOMAIN arrival : /\ R[arrival[i]] = res.value
                                      /\ \A j \in 1..(i - 1) : R[arrival[j]] \notin Values
    ELSE res.kind = "InsufficientResponses"

SpecOutcome(strategy, R, arrival, res, minResponses, minAgreeing) ==
    CASE strategy = "exact"   -> ExactSpecOutcome(R, res, minResponses, minAgreeing)
      [] strategy = "numeric" -> NumericSpecOutcome(R, res, minResponses, minAgreeing)
      [] strategy = "first"   -> FirstSpecOutcome(R, arrival, res, minResponses)
=============================================================================
