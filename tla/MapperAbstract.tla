---------------------------- MODULE MapperAbstract ----------------------------
(***************************************************************************)
(* What Mapper.Map promises its concurrent callers, with the providers     *)
(* registered before use: each call is given, in one atomic step, the      *)
(* MapFunc mapperFor selects for its type pair under the current           *)
(* m.Mappers, as if there were no cache and no lock; a call that selected  *)
(* mapAny may then map once more into the type the interface holds; every  *)
(* call returns.                                                           *)
(***************************************************************************)
CONSTANTS
    Goroutines,
    Pairs,
    NoPair,
    Absent,
    MapperFor(_, _),   \* the MapFunc selected for a pair under m.Mappers
    HeldPairs(_)       \* the pairs mapAny maps into, for the pair it maps

VARIABLES
    mappers,  \* m.Mappers
    state,    \* per goroutine: "idle", "busy" (in Map) or "done" (holds a MapFunc)
    apair,    \* the type pair it maps
    result    \* the MapFunc it was given

avars == <<mappers, state, apair, result>>

Init ==
    /\ state = [g \in Goroutines |-> "idle"]
    /\ apair = [g \in Goroutines |-> NoPair]
    /\ result = [g \in Goroutines |-> Absent]

Begin(g) ==
    /\ state[g] = "idle"
    /\ \E p \in Pairs : apair' = [apair EXCEPT ![g] = p]
    /\ state' = [state EXCEPT ![g] = "busy"]
    /\ UNCHANGED <<mappers, result>>

Select(g) ==
    /\ state[g] = "busy"
    /\ result' = [result EXCEPT ![g] = MapperFor(apair[g], mappers)]
    /\ state' = [state EXCEPT ![g] = "done"]
    /\ UNCHANGED <<mappers, apair>>

Nest(g) ==
    /\ state[g] = "done"
    /\ result[g] = "any"
    /\ \E q \in HeldPairs(apair[g]) : apair' = [apair EXCEPT ![g] = q]
    /\ state' = [state EXCEPT ![g] = "busy"]
    /\ result' = [result EXCEPT ![g] = Absent]
    /\ UNCHANGED mappers

Finish(g) ==
    /\ state[g] = "done"
    /\ state' = [state EXCEPT ![g] = "idle"]
    /\ apair' = [apair EXCEPT ![g] = NoPair]
    /\ result' = [result EXCEPT ![g] = Absent]
    /\ UNCHANGED mappers

Next == \E g \in Goroutines : Begin(g) \/ Select(g) \/ Nest(g) \/ Finish(g)

Spec ==
    /\ Init
    /\ [][Next]_avars
    /\ \A g \in Goroutines : WF_avars(Select(g)) /\ WF_avars(Finish(g))
=============================================================================
