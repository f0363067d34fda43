----------------------------- MODULE TypeMapper -----------------------------
(***************************************************************************)
(* go-anymapper's Mapper (src/vendor/github.com/defiweb/go-anymapper/      *)
(* mapper.go): goroutines map values through MapReflContext, which asks    *)
(* mapperFor for the typeMapper of a (src, dst) type pair.  mapperFor      *)
(* consults a cache guarded by cacheMu unless ctx.DisableCache is set, and *)
(* on a miss selects the MapFunc under the lock (hook, direct assignment,  *)
(* the src then the dst provider of m.Mappers, mapAny, the built-in        *)
(* mappers) and stores it from a deferred function that also unlocks.      *)
(*                                                                         *)
(* Reflect types are records: a kind, the type's name ("" for an unnamed   *)
(* type literal, whose String() starts with "[" or "map[") and the element *)
(* and key types as sequences of length 0 or 1.  Values are abstracted     *)
(* away: a mapping succeeds iff its typeMapper has a MapFunc.  The user    *)
(* may change m.Mappers at run time (the Default mapper's comment invites  *)
(* it), and a provider or hook may panic, which the caller may recover.    *)
(***************************************************************************)
EXTENDS Naturals, Sequences, FiniteSets, ReflectTypes

CONSTANTS
    Goroutines,     \* goroutines calling Map concurrently
    Pairs,          \* the (src, dst) type pairs they map
    MapperTypes,    \* types the user may register a provider for
    Providers,      \* provider functions, as names
    ProviderPairs,  \* ProviderPairs[p]: the pairs provider p returns a MapFunc for
    HookSet,        \* Hooks.MapFuncHook is set
    HookPairs,      \* the pairs it returns a MapFunc for (nil for the rest)
    InitialMappers, \* New(): the providers registered by default
    AnyType,        \* anyTy, the empty interface
    MapperDisableCache, \* m.Context.DisableCache, used when ctx is not passed on
    NoProvider, NoOne, NoPair, Absent

(* A MapFunc is named for where it comes from: a provider's MapFunc by the *)
(* provider's name.  NilFunc: mapperFor found none.                        *)
NilFunc == "nil"

(* The MapFunc a provider returns for a pair, nil if it cannot map it.     *)
Provide(provider, src, dst) ==
    IF <<src, dst>> \in ProviderPairs[provider]
    THEN provider ELSE NilFunc

(***************************************************************************)
(* mapperFor on a cache miss (275-343), for the current m.Mappers.         *)
(***************************************************************************)
MapperFor(pair, mappers) ==
    LET src          == pair[1]
        dst          == pair[2]
        sameTypes    == src = dst
        isSrcSimple  == IsSimpleType(src)
        isDstSimple  == IF sameTypes THEN isSrcSimple ELSE IsSimpleType(dst)
        hasSrcMapper == ~isSrcSimple /\ mappers[src] # NoProvider
        hasDstMapper == ~sameTypes /\ ~isDstSimple /\ mappers[dst] # NoProvider
        srcFunc      == IF hasSrcMapper THEN Provide(mappers[src], src, dst) ELSE NilFunc
        dstFunc      == IF hasDstMapper THEN Provide(mappers[dst], src, dst) ELSE NilFunc
    IN CASE HookSet /\ pair \in HookPairs         -> "hook"
         [] sameTypes /\ isSrcSimple              -> "direct"
         [] srcFunc # NilFunc                     -> srcFunc
         [] dstFunc # NilFunc                     -> dstFunc
         [] hasSrcMapper \/ hasDstMapper          -> NilFunc
         [] dst = AnyType                         -> "any"
         [] OTHER                                 -> "builtin"

(* Whether selecting the MapFunc for a pair calls user code (a hook or a   *)
(* provider), the only steps of mapperFor that can panic.                  *)
CallsUserCode(pair, mappers) ==
    \/ HookSet
    \/ /\ ~(pair[1] = pair[2] /\ IsSimpleType(pair[1]))
       /\ \/ ~IsSimpleType(pair[1]) /\ mappers[pair[1]] # NoProvider
          \/ pair[1] # pair[2] /\ ~IsSimpleType(pair[2]) /\ mappers[pair[2]] # NoProvider

(* The types of the mapped pairs, every one a key m.Mappers is read at.   *)
PairTypes == {p[1] : p \in Pairs} \cup {p[2] : p \in Pairs}

VARIABLES
    mappers,    \* m.Mappers: type -> provider
    cacheMap,   \* m.cacheMap: pair -> cached MapFunc
    lockHolder, \* the goroutine holding m.cacheMu
    pc,         \* where each goroutine is in Map
    pair,       \* the type pair it maps
    disable,    \* ctx.DisableCache of the mapperFor call it is in
    callDisable,\* ctx.DisableCache of the ctx Map was called with
    tm          \* the typeMapper's MapFunc mapperFor gave it

vars == <<mappers, cacheMap, lockHolder, pc, pair, disable, callDisable, tm>>

MapFuncs == {"hook", "direct", "any", "builtin", NilFunc}
            \cup Providers

TypeOK ==
    /\ mappers \in [PairTypes -> Providers \cup {NoProvider}]
    /\ cacheMap \in [Pairs -> MapFuncs \cup {Absent}]
    /\ lockHolder \in Goroutines \cup {NoOne}
    /\ pc \in [Goroutines -> {"idle", "lock", "compute", "map"}]
    /\ pair \in [Goroutines -> Pairs \cup {NoPair}]
    /\ disable \in [Goroutines -> BOOLEAN]
    /\ callDisable \in [Goroutines -> BOOLEAN]
    /\ tm \in [Goroutines -> MapFuncs \cup {Absent}]
    /\ \A g \in Goroutines : pc[g] = "map" => tm[g] \in MapFuncs

(* New() (162-176): the default providers and an empty cache.              *)
Init ==
    /\ mappers = InitialMappers
    /\ cacheMap = [p \in Pairs |-> Absent]
    /\ lockHolder = NoOne
    /\ pc = [g \in Goroutines |-> "idle"]
    /\ pair = [g \in Goroutines |-> NoPair]
    /\ disable = [g \in Goroutines |-> FALSE]
    /\ callDisable = [g \in Goroutines |-> FALSE]
    /\ tm = [g \in Goroutines |-> Absent]

(* MapReflContext (222-235) with valid src and dst values enters mapperFor *)
(* (262-263): with the cache it first takes cacheMu.                       *)
Call(g) ==
    /\ pc[g] = "idle"
    /\ \E p \in Pairs, d \in BOOLEAN :
          /\ pair' = [pair EXCEPT ![g] = p]
          /\ disable' = [disable EXCEPT ![g] = d]
          /\ callDisable' = [callDisable EXCEPT ![g] = d]
          /\ pc' = [pc EXCEPT ![g] = IF d THEN "compute" ELSE "lock"]
    /\ UNCHANGED <<mappers, cacheMap, lockHolder, tm>>

(* Mutants of the cache lookup: a hit that keeps the lock; a lookup keyed  *)
(* by the source type alone; a lookup that ignores "ok" and returns the    *)
(* nil *typeMapper of a miss.                                              *)
LockLookupIgnoresOk(g) ==
    /\ pc[g] = "lock"
    /\ lockHolder = NoOne
    /\ tm' = [tm EXCEPT ![g] = cacheMap[pair[g]]]
    /\ pc' = [pc EXCEPT ![g] = "map"]
    /\ UNCHANGED <<mappers, cacheMap, lockHolder, pair, disable, callDisable>>

LockLookupKeepsLock(g) ==
    /\ pc[g] = "lock"
    /\ lockHolder = NoOne
    /\ IF cacheMap[pair[g]] # Absent
       THEN /\ tm' = [tm EXCEPT ![g] = cacheMap[pair[g]]]
            /\ pc' = [pc EXCEPT ![g] = "map"]
       ELSE /\ pc' = [pc EXCEPT ![g] = "compute"]
            /\ UNCHANGED tm
    /\ lockHolder' = g
    /\ UNCHANGED <<mappers, cacheMap, pair, disable, callDisable>>

(* Lock; a cached typeMapper is returned after unlocking (264-268), a miss *)
(* keeps the lock for the computation.                                     *)
LockLookup(g) ==
    /\ pc[g] = "lock"
    /\ lockHolder = NoOne
    /\ IF cacheMap[pair[g]] # Absent
       THEN /\ tm' = [tm EXCEPT ![g] = cacheMap[pair[g]]]
            /\ pc' = [pc EXCEPT ![g] = "map"]
            /\ UNCHANGED lockHolder
       ELSE /\ pc' = [pc EXCEPT ![g] = "compute"]
            /\ lockHolder' = g
            /\ UNCHANGED tm
    /\ UNCHANGED <<mappers, cacheMap, pair, disable, callDisable>>

(* Mutant: the result stored whether or not the cache is enabled.          *)
ComputeAlwaysStores(g) ==
    /\ pc[g] = "compute"
    /\ LET f == MapperFor(pair[g], mappers) IN
       /\ tm' = [tm EXCEPT ![g] = f]
       /\ cacheMap' = [cacheMap EXCEPT ![pair[g]] = f]
    /\ lockHolder' = IF disable[g] THEN lockHolder ELSE NoOne
    /\ pc' = [pc EXCEPT ![g] = "map"]
    /\ UNCHANGED <<mappers, pair, disable, callDisable>>

(* Mutant: cacheMu is held until the MapFunc has run, as if unlocked by a *)
(* defer of MapReflContext rather than of mapperFor.                       *)
ComputeKeepsLock(g) ==
    /\ pc[g] = "compute"
    /\ LET f == MapperFor(pair[g], mappers) IN
       /\ tm' = [tm EXCEPT ![g] = f]
       /\ cacheMap' = IF disable[g] THEN cacheMap
                      ELSE [cacheMap EXCEPT ![pair[g]] = f]
    /\ pc' = [pc EXCEPT ![g] = "map"]
    /\ UNCHANGED <<mappers, lockHolder, pair, disable, callDisable>>

(* Select the MapFunc (275-343); with the cache, the deferred function     *)
(* stores it and unlocks (269-272).                                        *)
Compute(g) ==
    /\ pc[g] = "compute"
    /\ LET f == MapperFor(pair[g], mappers) IN
       /\ tm' = [tm EXCEPT ![g] = f]
       /\ cacheMap' = IF disable[g] THEN cacheMap
                      ELSE [cacheMap EXCEPT ![pair[g]] = f]
    /\ lockHolder' = IF disable[g] THEN lockHolder ELSE NoOne
    /\ pc' = [pc EXCEPT ![g] = "map"]
    /\ UNCHANGED <<mappers, pair, disable, callDisable>>

(* Map returns: its arguments and the typeMapper were locals of the call.  *)
Forget(g) ==
    /\ pair' = [pair EXCEPT ![g] = NoPair]
    /\ disable' = [disable EXCEPT ![g] = FALSE]
    /\ callDisable' = [callDisable EXCEPT ![g] = FALSE]
    /\ tm' = [tm EXCEPT ![g] = Absent]

(* A hook or provider panics: tm.MapFunc is still nil when the deferred    *)
(* function stores tm and unlocks; the panic unwinds Map.                  *)
ComputePanics(g) ==
    /\ pc[g] = "compute"
    /\ CallsUserCode(pair[g], mappers)
    /\ cacheMap' = IF disable[g] THEN cacheMap
                   ELSE [cacheMap EXCEPT ![pair[g]] = NilFunc]
    /\ lockHolder' = IF disable[g] THEN lockHolder ELSE NoOne
    /\ pc' = [pc EXCEPT ![g] = "idle"]
    /\ Forget(g)
    /\ UNCHANGED mappers

(* typeMapper.mapRefl (526-534) runs the MapFunc, or returns an           *)
(* InvalidMappingErr if there is none; Map returns either way.             *)
Apply(g) ==
    /\ pc[g] = "map"
    /\ pc' = [pc EXCEPT ![g] = "idle"]
    /\ Forget(g)
    /\ UNCHANGED <<mappers, cacheMap, lockHolder>>

(* The pairs mapAny maps through when the dst interface holds a value of   *)
(* type t: the src type and t, which is never an interface.                *)
HeldPairs(p) == {q \in Pairs : q[1] = p[1] /\ q[2] # AnyType}

(* mapAny (489-505) with a non-nil dst: the value an interface holds is    *)
(* not settable, so it maps src into a new value of the held type through  *)
(* m.MapRefl, a nested MapReflContext with m.Context, and sets it back.    *)
(* (With a nil dst, dst.Set(src) is the whole of it: Apply.)               *)
ApplyAny(g) ==
    /\ pc[g] = "map"
    /\ tm[g] = "any"
    /\ \E q \in HeldPairs(pair[g]) :
          /\ pair' = [pair EXCEPT ![g] = q]
          /\ disable' = [disable EXCEPT ![g] = MapperDisableCache]
          /\ pc' = [pc EXCEPT ![g] = IF MapperDisableCache THEN "compute" ELSE "lock"]
    /\ tm' = [tm EXCEPT ![g] = Absent]
    /\ UNCHANGED <<mappers, cacheMap, lockHolder, callDisable>>

(* The user registers, replaces or removes a provider in m.Mappers.        *)
SetMapper(t, p) ==
    /\ mappers[t] # p
    /\ mappers' = [mappers EXCEPT ![t] = p]
    /\ UNCHANGED <<cacheMap, lockHolder, pc, pair, disable, callDisable, tm>>

CoreNext ==
    \E g \in Goroutines :
        Call(g) \/ LockLookup(g) \/ Compute(g) \/ Apply(g) \/ ApplyAny(g)

Reconfigure == \E t \in MapperTypes, p \in Providers \cup {NoProvider} : SetMapper(t, p)

Panic == \E g \in Goroutines : ComputePanics(g)

(* sync.Mutex hands the lock to a waiter that keeps failing to get it      *)
(* (starvation mode), so the lock is strongly fair; the goroutine steps    *)
(* between Lock and Unlock run.                                            *)
Fairness ==
    \A g \in Goroutines :
        SF_vars(LockLookup(g)) /\ WF_vars(Compute(g)) /\ WF_vars(Apply(g))

(* Providers registered before use and never panicking, as recommended.    *)
FixedSpec == Init /\ [][CoreNext]_vars /\ Fairness

PanicSpec == Init /\ [][CoreNext \/ Panic]_vars /\ Fairness

Spec == Init /\ [][CoreNext \/ Reconfigure \/ Panic]_vars /\ Fairness

(***************************************************************************)
(* Properties                                                              *)
(***************************************************************************)

(* The cache is coherent: every cached typeMapper is the one mapperFor     *)
(* would select for its pair with the current m.Mappers.                   *)
CacheCoherent ==
    \A p \in Pairs : cacheMap[p] # Absent => cacheMap[p] = MapperFor(p, mappers)

(* m.cacheMap is only written by a goroutine holding cacheMu, in the step  *)
(* that releases it; a cache-disabled mapping never touches it.            *)
CacheWritesUnderLock ==
    [][cacheMap' # cacheMap => lockHolder # NoOne /\ lockHolder' = NoOne]_vars

(* Every Map call returns: nobody waits on cacheMu forever.                *)
MappingCompletes ==
    \A g \in Goroutines : pc[g] # "idle" ~> pc[g] = "idle"

(* The Context comment (28-31) and DisableCache (49-50): a Map call whose  *)
(* ctx disables the cache never waits on cacheMu nor reads or fills the    *)
(* cache, including in the mappings it makes on the way (mapAny).          *)
DisabledCacheUntouched ==
    \A g \in Goroutines : callDisable[g] => pc[g] # "lock" /\ lockHolder # g

(* The refinement mapping: a goroutine waiting for cacheMu or selecting   *)
(* is busy, one holding its typeMapper is done.                            *)
AbstractState ==
    [g \in Goroutines |->
        CASE pc[g] = "idle" -> "idle"
          [] pc[g] = "map"  -> "done"
          [] OTHER          -> "busy"]

Abstract == INSTANCE MapperAbstract WITH state <- AbstractState, apair <- pair, result <- tm

(* With the providers registered before use, Map implements the atomic,    *)
(* cache-free specification: a cache hit gives exactly what a fresh        *)
(* selection would, the lookup and computation steps are invisible, and    *)
(* every call (mapAny's nested one included) gets its MapFunc and returns. *)
ImplementsMapper == Abstract!Spec

(* A goroutine never waits for cacheMu while holding it: the nested       *)
(* mapping mapAny makes (497) asks for the lock only after mapperFor's     *)
(* deferred function released it, since sync.Mutex is not reentrant.       *)
NeverWaitsOnOwnLock ==
    \A g \in Goroutines : pc[g] = "lock" => lockHolder # g
=============================================================================
