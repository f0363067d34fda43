--------------------------- MODULE MCMapperValues ---------------------------
(***************************************************************************)
(* Every value chain over a few types, as an initial state: the input v of *)
(* srcValue and dstValue.  Independently, every type of up to two levels   *)
(* of slice, array and map nesting: the input typ of isSimpleType.         *)
(***************************************************************************)
EXTENDS MapperValues

Ty(k, n, e) == [kind |-> k, name |-> n, elem |-> e, key |-> <<>>]

IntT    == Ty("int", "", <<>>)
StrT    == Ty("string", "", <<>>)
MapT    == [kind |-> "map", name |-> "", elem |-> <<IntT>>, key |-> <<StrT>>]
SliceT  == Ty("slice", "", <<IntT>>)
BigT    == Ty("struct", "Big", <<>>)
AnyT    == Ty("interface", "", <<>>)
PtrT(t) == Ty("ptr", "", <<t>>)

Layer(t, n, s) == [type |-> t, nil |-> n, set |-> s]

(* Types an interface may hold.                                            *)
Dynamic == {IntT, MapT, SliceT, BigT, PtrT(IntT), PtrT(BigT)}

(* The zero value of t behind a freshly allocated or nil pointer.          *)
RECURSIVE Zero(_)
Zero(t) ==
    IF t.kind = "ptr" THEN <<Layer(t, TRUE, TRUE)>> \o Zero(t.elem[1])
    ELSE <<Layer(t, t.kind \in {"interface", "map", "slice"}, TRUE)>>

(* Every value of type t whose settability is s.                           *)
RECURSIVE Chains(_, _)
Chains(t, s) ==
    CASE t.kind = "ptr" ->
            {<<Layer(t, TRUE, s)>> \o Zero(t.elem[1])}
            \cup {<<Layer(t, FALSE, s)>> \o c : c \in Chains(t.elem[1], TRUE)}
      [] t.kind = "interface" ->
            {<<Layer(t, TRUE, s)>>}
            \cup UNION {{<<Layer(t, FALSE, s)>> \o c : c \in Chains(d, FALSE)} : d \in Dynamic}
      [] t.kind \in {"map", "slice"} -> {<<Layer(t, n, s)>> : n \in BOOLEAN}
      [] OTHER -> {<<Layer(t, FALSE, s)>>}

TopTypes == {IntT, MapT, SliceT, BigT, AnyT, PtrT(IntT), PtrT(MapT), PtrT(SliceT),
             PtrT(BigT), PtrT(AnyT), PtrT(PtrT(IntT)), PtrT(PtrT(BigT)), PtrT(PtrT(AnyT))}

Inputs == UNION {Chains(t, s) : t \in TopTypes, s \in BOOLEAN}

(* Types for isSimpleType: built-in or struct, interface and pointer       *)
(* kinds, each unnamed or named, and slices, arrays and maps of them.      *)
BaseTypes == {Ty(k, n, <<>>) : k \in {"int", "uint8", "string", "struct",
                                       "interface", "ptr"},
                               n \in {"", "N"}}

Composite(S) == {Ty(k, n, <<e>>) : k \in {"slice", "array"}, n \in {"", "N"}, e \in S}
                \cup {[kind |-> "map", name |-> n, elem |-> <<e>>, key |-> <<ky>>] :
                        n \in {"", "N"}, e \in S, ky \in S}

TypeUniverse == BaseTypes \cup Composite(BaseTypes)
                \cup {Ty(k, n, <<e>>) : k \in {"slice", "array"}, n \in {"", "N"},
                                        e \in Composite(BaseTypes)}

MCMapperKeys == {BigT}
MCDstHookTypes == {PtrT(PtrT(IntT))}

VARIABLES v, typ

Init == v \in Inputs /\ typ \in TypeUniverse

Next == UNCHANGED <<v, typ>>

(* isSimpleType does what its doc comment (mapper.go 441-444) says: a    *)
(* slice, array or map composed of built-in types, named or not, is        *)
(* simple, so srcValue and dstValue stop at it and mapperFor maps it       *)
(* directly.                                                               *)
IsSimpleTypeAsDocumented == IsSimpleType(typ) = DocSimple(typ)

(* dstValue leaves no settable nil pointer, map or slice on the path it    *)
(* unpacked (DstValueInitialised).                                         *)
Initialises == DstValueInitialised(v)
=============================================================================
