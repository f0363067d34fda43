---------------------------- MODULE MCTypeMapper ----------------------------
EXTENDS TypeMapper

(* A reflect type: kind, name ("" if unnamed), element and key types.      *)
Ty(k, n, e, ky) == [kind |-> k, name |-> n, elem |-> e, key |-> ky]

IntTy      == Ty("int", "", <<>>, <<>>)
MyIntTy    == Ty("int", "MyInt", <<>>, <<>>)
StringTy   == Ty("string", "", <<>>, <<>>)
TimeTy     == Ty("struct", "Time", <<>>, <<>>)
AnyTy      == Ty("interface", "", <<>>, <<>>)
IntSliceTy == Ty("slice", "", <<IntTy>>, <<>>)

MCAnyType == AnyTy

MCPairs == {<<IntTy, IntTy>>,        \* mapDirect
            <<MyIntTy, IntTy>>,      \* built-in mappers (or the hook)
            <<TimeTy, StringTy>>,    \* the Time provider, as source
            <<StringTy, TimeTy>>,    \* the Time provider, as destination
            <<TimeTy, AnyTy>>,       \* the Time provider returns nil
            <<StringTy, MyIntTy>>,   \* a provider for string, if registered
            <<IntSliceTy, AnyTy>>,   \* mapAny
            <<IntSliceTy, IntSliceTy>>} \* mapAny into a held []int

(* Fewer pairs where m.Mappers also changes and providers panic.           *)
MCPairsSmall == {<<MyIntTy, IntTy>>, <<TimeTy, StringTy>>, <<StringTy, MyIntTy>>}

(* mapAny and the nested mapping it makes into a held []int.              *)
MCPairsAny == {<<IntSliceTy, AnyTy>>, <<IntSliceTy, IntSliceTy>>}

MCProviders == {"timeProvider", "stringProvider"}

MCProviderPairs ==
    [p \in MCProviders |->
        IF p = "timeProvider"
        THEN {<<TimeTy, StringTy>>, <<StringTy, TimeTy>>, <<TimeTy, IntTy>>}
        ELSE {<<StringTy, MyIntTy>>}]

MCMapperTypes == {TimeTy, StringTy}

MCInitialMappers == [t \in PairTypes |-> IF t = TimeTy THEN "timeProvider" ELSE NoProvider]

MCHookPairs == {<<MyIntTy, IntTy>>}

=============================================================================
